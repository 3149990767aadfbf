----------------------------- MODULE TiersProofs -----------------------------
(***************************************************************************)
(* The inductive invariant of Tiers, for any number of nodes, tasks, tiers *)
(* and deaths, any probes and any labels.                                  *)
(***************************************************************************)
EXTENDS Tiers, TLAPS

USE JetStreamAssumption, TiersAssumption

\* A node works on the task it has in hand, nobody else does, and the message
\* of that task is in flight.
Hands ==
  \A n \in Nodes :
    /\ pc[n] = "working" <=> hand[n] # NoTask
    /\ hand[n] # NoTask =>
         /\ stream[hand[n]].state = "inflight"
         /\ \A m \in Nodes \ {n} : hand[m] # hand[n]

\* What node n may subscribe to, given what it measured.
Fitting(n, s) ==
  s # Plain => s \in GpuTiers /\ ~probe[n].spill /\ probe[n].free >= Need[s]

\* From the probe to the tiers, to the subscriptions, to the task in hand.
Capable ==
  \A n \in AutoNodes :
    /\ pc[n] = "down" => subs[n] = <<>>
    /\ \A t \in todo[n] : Fitting(n, QueueOf(t))
    /\ \A i \in DOMAIN subs[n] : Fitting(n, subs[n][i])
    /\ hand[n] # NoTask => Fitting(n, subject[hand[n]])

\* A subscription has its consumer, and so has a message that was fetched.
Consumed ==
  /\ \A n \in Nodes : \A i \in DOMAIN subs[n] : consumer[subs[n][i]] # "none"
  /\ \A t \in Msgs : stream[t].state = "inflight" => consumer[subject[t]] # "none"

Inv == TypeOK /\ Hands /\ Capable /\ Consumed /\ LadderAnnounces
-----------------------------------------------------------------------------
\* The tiers of a probe have the room they need, and a list of them is one of
\* tiers with a name.
LEMMA ProbeFits ==
  ASSUME NEW free \in Nat, NEW spill \in BOOLEAN,
         NEW t \in ServeableTiers(ComputeTiers(free, spill))
  PROVE  /\ t \in TierNames
         /\ t = Default \/ (t \in GpuTiers /\ ~spill /\ free >= Need[t])
BY DEF ServeableTiers, ComputeTiers, TierNames

\* Requeueing a message keeps the types, and announces its last delivery.
LEMMA ReturnFacts ==
  ASSUME TypeOK, NEW t \in Msgs, stream[t].state = "inflight", Return(t)
  PROVE  /\ stream' \in [Msgs -> [state : MsgState, deliveries : 0..MaxDeliver + 1]]
         /\ dlq' \in SUBSET Msgs /\ dlq \subseteq dlq'
         /\ \A u \in Msgs \ {t} : stream'[u] = stream[u]
         /\ stream'[t].state \in {"ready", "exhausted"}
         /\ stream'[t].deliveries = stream[t].deliveries
         /\ consumer[subject[t]] = "ladder" =>
              /\ stream'[t].state = "exhausted" => t \in dlq'
              /\ stream'[t].state = "ready" => stream[t].deliveries # MaxDeliver
         /\ stream'[t].state = "exhausted" => t \in dlq'
<1>1. /\ stream[t] \in [state : MsgState, deliveries : 0..MaxDeliver + 1]
      /\ {"ready", "exhausted"} \subseteq MsgState /\ dlq \subseteq Msgs
  BY DEF TypeOK, MsgState
<1>2. PICK s \in {"ready", "exhausted"} :
        /\ stream' = [stream EXCEPT ![t].state = s]
        /\ s = "exhausted" => t \in dlq'
        /\ consumer[subject[t]] = "ladder" /\ s = "ready"
             => stream[t].deliveries # MaxDeliver
  <2>1. CASE consumer[subject[t]] = "ladder"
    BY <1>1, <2>1 DEF Return, Requeue, Advise, LastDelivery
  <2>2. CASE consumer[subject[t]] # "ladder"
    BY <2>2 DEF Return
  <2> QED
    BY <2>1, <2>2
<1>3. dlq' \in SUBSET Msgs /\ dlq \subseteq dlq'
  BY <1>1 DEF Return, Advise
<1>4. stream' \in [Msgs -> [state : MsgState, deliveries : 0..MaxDeliver + 1]]
  BY <1>1, <1>2 DEF TypeOK
<1>5. /\ stream'[t] = [stream[t] EXCEPT !.state = s]
      /\ \A u \in Msgs \ {t} : stream'[u] = stream[u]
  BY <1>2 DEF TypeOK
<1> QED
  BY <1>1, <1>2, <1>3, <1>4, <1>5

\* What an ack and a delivery make of one entry.
LEMMA RemoveFacts ==
  ASSUME TypeOK, NEW t \in Msgs, stream' = Remove(stream, t)
  PROVE  /\ stream' \in [Msgs -> [state : MsgState, deliveries : 0..MaxDeliver + 1]]
         /\ \A u \in Msgs \ {t} : stream'[u] = stream[u]
         /\ stream'[t].state = "gone"
         /\ stream'[t].deliveries = stream[t].deliveries
<1>1. /\ stream[t] \in [state : MsgState, deliveries : 0..MaxDeliver + 1]
      /\ "gone" \in MsgState
  BY DEF TypeOK, MsgState
<1>2. stream' = [stream EXCEPT ![t] = [stream[t] EXCEPT !.state = "gone"]]
  BY DEF Remove
<1>3. [stream[t] EXCEPT !.state = "gone"]
        \in [state : MsgState, deliveries : 0..MaxDeliver + 1]
  BY <1>1
<1> QED
  BY <1>1, <1>2, <1>3 DEF TypeOK

LEMMA HandedFacts ==
  ASSUME TypeOK, NEW t \in Msgs, stream' = Handed(t)
  PROVE  /\ stream' \in [Msgs -> [state : MsgState, deliveries : 0..MaxDeliver + 1]]
         /\ \A u \in Msgs \ {t} : stream'[u] = stream[u]
         /\ stream'[t].state = "inflight"
         /\ stream[t].deliveries < MaxDeliver
              => stream'[t].deliveries = stream[t].deliveries + 1
<1>1. /\ stream[t] \in [state : MsgState, deliveries : 0..MaxDeliver + 1]
      /\ "inflight" \in MsgState
  BY DEF TypeOK, MsgState
<1>2. CASE stream[t].deliveries > MaxDeliver
  <2>1. stream' = [stream EXCEPT ![t] = [stream[t] EXCEPT !.state = "inflight"]]
    BY <1>2 DEF Handed
  <2>2. [stream[t] EXCEPT !.state = "inflight"]
          \in [state : MsgState, deliveries : 0..MaxDeliver + 1]
    BY <1>1
  <2>3. ~(stream[t].deliveries < MaxDeliver)
    BY <1>1, <1>2
  <2> QED
    BY <1>1, <2>1, <2>2, <2>3 DEF TypeOK
<1>3. CASE ~(stream[t].deliveries > MaxDeliver)
  <2> DEFINE d == stream[t].deliveries + 1
  <2>1. stream' = [stream EXCEPT ![t] = [state |-> "inflight", deliveries |-> d]]
    BY <1>3 DEF Handed, Deliver
  <2>2. d \in 0..MaxDeliver + 1
    BY <1>1, <1>3
  <2>3. [state |-> "inflight", deliveries |-> d]
          \in [state : MsgState, deliveries : 0..MaxDeliver + 1]
    BY <1>1, <2>2
  <2>4. stream'[t] = [state |-> "inflight", deliveries |-> d]
    BY <2>1 DEF TypeOK
  <2> QED
    BY <2>1, <2>3, <2>4 DEF TypeOK
<1> QED
  BY <1>2, <1>3
-----------------------------------------------------------------------------
LEMMA Start == Init => Inv
<1> SUFFICES ASSUME Init PROVE Inv
  OBVIOUS
<1>1. TypeOK
  BY DEF Init, TypeOK, Absent, MsgState, Subjects
<1>2. Hands
  BY DEF Init, Hands
<1>3. Capable
  BY DEF Init, Capable
<1>4. Consumed /\ LadderAnnounces
  BY DEF Init, Consumed, LadderAnnounces, Absent
<1> QED
  BY <1>1, <1>2, <1>3, <1>4 DEF Inv

LEMMA StepTyped == Inv /\ [Next]_vars => TypeOK'
<1> SUFFICES ASSUME Inv, [Next]_vars PROVE TypeOK'
  OBVIOUS
<1>i. TypeOK /\ Hands
  BY DEF Inv
<1>1. ASSUME NEW i \in DOMAIN BootTiers, AddConsumer(i) PROVE TypeOK'
  BY <1>i, <1>1 DEF AddConsumer, TypeOK, tasks, queue, node
<1>2. ASSUME NEW t \in Msgs, Route(t) PROVE TypeOK'
  <2>1. subject' \in [Msgs -> Subjects]
    <3>1. PICK tier \in TierOf(t) :
            subject' = [subject EXCEPT ![t] = SubjectFor(tier)]
      BY <1>2 DEF Route
    <3>2. SubjectFor(tier) \in Subjects
      <4>1. CASE tier \in Labels[t] \ {NoTier}
        <5>1. tier \in TierNames
          <6>1. Labels[t] \in {Labels[u] : u \in Msgs}
            OBVIOUS
          <6> QED
            BY <4>1, <6>1, Zenon DEF TierNames
        <5> QED
          BY <4>1, <5>1 DEF SubjectFor, Subjects
      <4>2. CASE tier \in Proposal(t)
        BY <4>2 DEF Proposal, SubjectFor, Subjects, TierNames
      <4> QED
        BY <3>1, <4>1, <4>2 DEF TierOf
    <3> QED
      BY <1>i, <3>1, <3>2 DEF TypeOK
  <2> QED
    BY <1>i, <1>2, <2>1 DEF Route, TypeOK, MsgState, node
<1>3. ASSUME NEW t \in Msgs, AckWaitEnds(t) PROVE TypeOK'
  BY <1>i, <1>3, ReturnFacts DEF AckWaitEnds, TypeOK, tasks, node
<1>4. ASSUME NEW n \in Nodes, Boot(n) PROVE TypeOK'
  <2>1. PICK free \in VramLevels, spill \in BOOLEAN :
          /\ probe' = [probe EXCEPT ![n] =
                         IF n \in AutoNodes
                           THEN [free |-> free, spill |-> spill] ELSE @]
          /\ todo' = [todo EXCEPT ![n] =
                        IF n \in AutoNodes
                          THEN ServeableTiers(ComputeTiers(free, spill))
                          ELSE Listed[n]]
    BY <1>4 DEF Boot
  <2>2. probe' \in [Nodes -> [free : Nat, spill : BOOLEAN]]
    BY <1>i, <2>1 DEF TypeOK
  <2>3. todo' \in [Nodes -> SUBSET TierNames]
    <3>1. free \in Nat
      OBVIOUS
    <3>2. ServeableTiers(ComputeTiers(free, spill)) \subseteq TierNames
      BY <3>1, ProbeFits
    <3> QED
      BY <1>i, <2>1, <3>2 DEF TypeOK
  <2> QED
    BY <1>i, <1>4, <2>2, <2>3 DEF Boot, TypeOK, tasks, queue
<1>5. ASSUME NEW n \in Nodes, Subscribe(n) PROVE TypeOK'
  <2>1. PICK t \in todo[n] :
          /\ todo' = [todo EXCEPT ![n] = @ \ {t}]
          /\ subs' = [subs EXCEPT ![n] = Append(@, QueueOf(t))]
          /\ consumer' = [consumer EXCEPT ![QueueOf(t)] =
                            IF @ = "none" THEN "implicit" ELSE @]
    BY <1>5 DEF Subscribe, FirstOf
  <2>2. QueueOf(t) \in Subjects
    BY <1>i, <2>1 DEF TypeOK, QueueOf, Subjects
  <2>3. Append(subs[n], QueueOf(t)) \in Seq(Subjects)
    BY <1>i, <2>2 DEF TypeOK
  <2> QED
    BY <1>i, <1>5, <2>1, <2>2, <2>3 DEF Subscribe, TypeOK, tasks, queue
<1>6. ASSUME NEW n \in Nodes, Fetch(n) PROVE TypeOK'
  <2>1. PICK t \in Waiting(subs[n][at[n]]) :
          stream' = Handed(t) /\ hand' = [hand EXCEPT ![n] = t]
    BY <1>6 DEF Fetch
  <2>2. /\ t \in Msgs
        /\ stream[t] \in [state : MsgState, deliveries : 0..MaxDeliver + 1]
    BY <1>i, <2>1 DEF Waiting, TypeOK
  <2>3. stream' \in [Msgs -> [state : MsgState, deliveries : 0..MaxDeliver + 1]]
    BY <1>i, <2>1, <2>2, HandedFacts
  <2> QED
    BY <1>i, <1>6, <2>1, <2>2, <2>3, SMTT(30) DEF Fetch, TypeOK, tasks
<1>7. ASSUME NEW n \in Nodes, NothingPending(n) PROVE TypeOK'
  BY <1>i, <1>7 DEF NothingPending, TypeOK, tasks, queue
<1>8. ASSUME NEW n \in Nodes, Settle(n) PROVE TypeOK'
  <2>1. hand[n] \in Msgs
    BY <1>i, <1>8 DEF Settle, Hands, TypeOK
  <2>2. stream' \in [Msgs -> [state : MsgState, deliveries : 0..MaxDeliver + 1]]
    BY <1>i, <1>8, <2>1, RemoveFacts DEF Settle
  <2>3. row' \in [Msgs -> {"pending", "claimed", "decided"}]
    <3>1. row \in [Msgs -> {"pending", "claimed", "decided"}]
      BY <1>i DEF TypeOK
    <3>2. PICK v \in {"pending", "claimed", "decided"} :
            row' = [row EXCEPT ![hand[n]] = v]
      BY <1>8, <2>1, <3>1 DEF Settle
    <3> QED
      BY <3>1, <3>2
  <2> QED
    BY <1>i, <1>8, <2>2, <2>3 DEF Settle, Loop, TypeOK
<1>9. ASSUME NEW n \in Nodes, Retry(n) PROVE TypeOK'
  <2>1. hand[n] \in Msgs /\ stream[hand[n]].state = "inflight"
    BY <1>i, <1>9 DEF Retry, Hands, TypeOK
  <2> QED
    BY <1>i, <1>9, <2>1, ReturnFacts, SMTT(30) DEF Retry, Loop, TypeOK
<1>10. ASSUME NEW n \in Nodes, Die(n) PROVE TypeOK'
  BY <1>i, <1>10 DEF Die, Exited, TypeOK, queue
<1>11. CASE UNCHANGED vars
  BY <1>i, <1>11 DEF TypeOK, vars, tasks, queue, node
<1> QED
  BY <1>1, <1>2, <1>3, <1>4, <1>5, <1>6, <1>7, <1>8, <1>9, <1>10, <1>11
     DEF Next, Step

LEMMA StepHands == Inv /\ TypeOK' /\ [Next]_vars => Hands'
<1> SUFFICES ASSUME Inv, TypeOK', [Next]_vars PROVE Hands'
  OBVIOUS
<1>i. TypeOK /\ Hands /\ NoTask \notin Msgs
  BY DEF Inv
<1>1. ASSUME NEW i \in DOMAIN BootTiers, AddConsumer(i) PROVE Hands'
  BY <1>i, <1>1 DEF AddConsumer, Hands, queue, node
<1>2. ASSUME NEW t \in Msgs, Route(t) PROVE Hands'
  BY <1>i, <1>2 DEF Route, Hands, TypeOK, node
<1>3. ASSUME NEW t \in Msgs, AckWaitEnds(t) PROVE Hands'
  <2>1. \A u \in Msgs \ {t} : stream'[u] = stream[u]
    BY <1>i, <1>3, ReturnFacts DEF AckWaitEnds
  <2>2. (\A n \in Nodes : hand[n] # t) /\ UNCHANGED <<pc, hand>>
    BY <1>3 DEF AckWaitEnds, node
  <2> QED
    BY <1>i, <2>1, <2>2, SMTT(30) DEF Hands, TypeOK
<1>4. ASSUME NEW n \in Nodes, Boot(n) \/ Subscribe(n) \/ NothingPending(n)
      PROVE  Hands'
  <2>1. UNCHANGED <<hand, stream>>
    BY <1>4 DEF Boot, Subscribe, NothingPending, queue
  <2>2. \/ UNCHANGED pc
        \/ pc[n] = "down" /\ pc' = [pc EXCEPT ![n] = "up"]
    BY <1>4 DEF Boot, Subscribe, NothingPending
  <2>3. \A m \in Nodes : pc'[m] = "working" <=> pc[m] = "working"
    BY <1>i, <2>2 DEF TypeOK
  <2> QED
    BY <1>i, <2>1, <2>3 DEF Hands
<1>5. ASSUME NEW n \in Nodes, Fetch(n) PROVE Hands'
  <2>1. PICK t \in Waiting(subs[n][at[n]]) :
          stream' = Handed(t) /\ hand' = [hand EXCEPT ![n] = t]
    BY <1>5 DEF Fetch
  <2>2. /\ t \in Msgs /\ stream[t].state = "ready"
        /\ stream'[t].state = "inflight"
        /\ \A u \in Msgs \ {t} : stream'[u] = stream[u]
    BY <1>i, <2>1, HandedFacts DEF Waiting
  <2>3. \A m \in Nodes : hand[m] # t
    BY <1>i, <2>2 DEF Hands
  <2> QED
    BY <1>i, <1>5, <2>1, <2>2, <2>3, SMTT(30) DEF Fetch, Hands, TypeOK
<1>6. ASSUME NEW n \in Nodes, Settle(n) \/ Retry(n) PROVE Hands'
  <2>1. hand[n] \in Msgs /\ \A m \in Nodes \ {n} : hand[m] # hand[n]
    BY <1>i, <1>6 DEF Settle, Retry, Hands, TypeOK
  <2>2. \A u \in Msgs \ {hand[n]} : stream'[u] = stream[u]
    BY <1>i, <1>6, <2>1, ReturnFacts, RemoveFacts DEF Settle, Retry, Hands
  <2>3. /\ pc' = [pc EXCEPT ![n] = "up"] /\ hand' = [hand EXCEPT ![n] = NoTask]
    BY <1>6 DEF Settle, Retry, Loop
  <2>4. /\ pc'[n] = "up" /\ hand'[n] = NoTask
        /\ \A m \in Nodes \ {n} : pc'[m] = pc[m] /\ hand'[m] = hand[m]
    BY <1>i, <2>3 DEF TypeOK
  <2>5. \A m \in Nodes \ {n} :
          hand[m] # NoTask => hand[m] \in Msgs \ {hand[n]}
    BY <1>i, <2>1 DEF TypeOK
  <2> QED
    BY <1>i, <2>2, <2>4, <2>5 DEF Hands
<1>7. ASSUME NEW n \in Nodes, Die(n) PROVE Hands'
  BY <1>i, <1>7 DEF Die, Exited, Hands, TypeOK, queue
<1>8. CASE UNCHANGED vars
  BY <1>i, <1>8 DEF Hands, vars, queue, node
<1> QED
  BY <1>1, <1>2, <1>3, <1>4, <1>5, <1>6, <1>7, <1>8 DEF Next, Step

LEMMA StepCapable == Inv /\ TypeOK' /\ [Next]_vars => Capable'
<1> SUFFICES ASSUME Inv, TypeOK', [Next]_vars PROVE Capable'
  OBVIOUS
<1>i. TypeOK /\ Hands /\ Capable /\ AutoNodes \subseteq Nodes
  BY DEF Inv
<1>1. ASSUME NEW i \in DOMAIN BootTiers, AddConsumer(i) PROVE Capable'
  BY <1>i, <1>1 DEF AddConsumer, Capable, Fitting, tasks, node
<1>2. ASSUME NEW t \in Msgs, Route(t) PROVE Capable'
  <2>1. \A n \in Nodes : hand[n] # t
    BY <1>i, <1>2 DEF Route, Hands
  <2> QED
    BY <1>i, <1>2, <2>1 DEF Route, Capable, Fitting, TypeOK, node
<1>3. ASSUME NEW t \in Msgs, AckWaitEnds(t) PROVE Capable'
  BY <1>i, <1>3 DEF AckWaitEnds, Capable, Fitting, tasks, node
<1>4. ASSUME NEW n \in Nodes, Boot(n) PROVE Capable'
  <2>1. PICK free \in VramLevels, spill \in BOOLEAN :
          /\ probe' = [probe EXCEPT ![n] =
                         IF n \in AutoNodes
                           THEN [free |-> free, spill |-> spill] ELSE @]
          /\ todo' = [todo EXCEPT ![n] =
                        IF n \in AutoNodes
                          THEN ServeableTiers(ComputeTiers(free, spill))
                          ELSE Listed[n]]
    BY <1>4 DEF Boot
  <2>2. n \in AutoNodes =>
          /\ probe'[n].free = free /\ probe'[n].spill = spill
          /\ todo'[n] = ServeableTiers(ComputeTiers(free, spill))
    BY <1>i, <2>1 DEF TypeOK
  <2>3. ASSUME n \in AutoNodes, NEW t \in todo'[n] PROVE Fitting(n, QueueOf(t))'
    BY <2>2, <2>3, ProbeFits DEF Fitting, QueueOf
  <2>4. hand[n] = NoTask /\ (n \in AutoNodes => subs[n] = <<>>)
    BY <1>i, <1>4 DEF Boot, Hands, Capable
  <2>5. \A m \in Nodes \ {n} : probe'[m] = probe[m] /\ todo'[m] = todo[m]
    BY <1>i, <2>1 DEF TypeOK
  <2>6. /\ pc' = [pc EXCEPT ![n] = "up"]
        /\ UNCHANGED <<subs, hand, subject>>
    BY <1>4 DEF Boot, tasks
  <2> QED
    BY <1>i, <2>3, <2>4, <2>5, <2>6, SMTT(30) DEF Capable, Fitting, TypeOK
<1>5. ASSUME NEW n \in Nodes, Subscribe(n) PROVE Capable'
  <2>1. PICK t \in todo[n] :
          /\ todo' = [todo EXCEPT ![n] = @ \ {t}]
          /\ subs' = [subs EXCEPT ![n] = Append(@, QueueOf(t))]
    BY <1>5 DEF Subscribe, FirstOf
  <2>2. /\ subs[n] \in Seq(Subjects) /\ QueueOf(t) \in Subjects
        /\ subs'[n] = Append(subs[n], QueueOf(t)) /\ todo'[n] = todo[n] \ {t}
    BY <1>i, <2>1 DEF TypeOK, QueueOf, Subjects
  <2>3. ASSUME n \in AutoNodes, NEW i \in DOMAIN subs'[n]
        PROVE  Fitting(n, subs'[n][i])
    BY <1>i, <2>1, <2>2, <2>3 DEF Capable
  <2>4. \A m \in Nodes \ {n} : subs'[m] = subs[m] /\ todo'[m] = todo[m]
    BY <1>i, <2>1 DEF TypeOK
  <2>5. pc[n] = "up" /\ UNCHANGED <<pc, probe, hand, subject>>
    BY <1>5 DEF Subscribe, tasks
  <2> QED
    BY <1>i, <2>2, <2>3, <2>4, <2>5, ZenonT(30) DEF Capable, Fitting
<1>6. ASSUME NEW n \in Nodes, Fetch(n) PROVE Capable'
  <2>1. PICK t \in Waiting(subs[n][at[n]]) : hand' = [hand EXCEPT ![n] = t]
    BY <1>6 DEF Fetch
  <2>2. n \in AutoNodes => Fitting(n, subject[t])
    BY <1>i, <1>6, <2>1 DEF Fetch, Waiting, Capable
  <2>3. /\ pc' = [pc EXCEPT ![n] = "working"]
        /\ UNCHANGED <<subject, probe, todo, subs>>
    BY <1>6 DEF Fetch, tasks
  <2> QED
    BY <1>i, <2>1, <2>2, <2>3, ZenonT(30) DEF Capable, Fitting, TypeOK
<1>7. ASSUME NEW n \in Nodes, NothingPending(n) PROVE Capable'
  BY <1>i, <1>7 DEF NothingPending, Capable, Fitting, tasks
<1>8. ASSUME NEW n \in Nodes, Settle(n) \/ Retry(n) PROVE Capable'
  <2>1. /\ pc' = [pc EXCEPT ![n] = "up"] /\ hand' = [hand EXCEPT ![n] = NoTask]
        /\ UNCHANGED <<subject, probe, todo, subs>>
    BY <1>8 DEF Settle, Retry, Loop
  <2> QED
    BY <1>i, <2>1 DEF Capable, Fitting, TypeOK
<1>9. ASSUME NEW n \in Nodes, Die(n) PROVE Capable'
  BY <1>i, <1>9 DEF Die, Exited, Capable, Fitting, TypeOK
<1>10. CASE UNCHANGED vars
  BY <1>i, <1>10 DEF Capable, Fitting, vars, tasks, node
<1> QED
  BY <1>1, <1>2, <1>3, <1>4, <1>5, <1>6, <1>7, <1>8, <1>9, <1>10 DEF Next, Step

LEMMA StepConsumed == Inv /\ TypeOK' /\ [Next]_vars => Consumed'
<1> SUFFICES ASSUME Inv, TypeOK', [Next]_vars PROVE Consumed'
  OBVIOUS
<1>i. TypeOK /\ Hands /\ Consumed
  BY DEF Inv
<1>1. ASSUME NEW i \in DOMAIN BootTiers, AddConsumer(i) PROVE Consumed'
  <2>1. BootTiers[i] \in Subjects
    OBVIOUS
  <2> QED
    BY <1>i, <1>1, <2>1 DEF AddConsumer, Consumed, TypeOK, tasks, queue, node
<1>2. ASSUME NEW t \in Msgs, Route(t) PROVE Consumed'
  BY <1>i, <1>2 DEF Route, Consumed, TypeOK, node
<1>3. ASSUME NEW t \in Msgs, AckWaitEnds(t) PROVE Consumed'
  BY <1>i, <1>3, ReturnFacts DEF AckWaitEnds, Consumed, tasks, node
<1>4. ASSUME NEW n \in Nodes, Boot(n) \/ NothingPending(n) PROVE Consumed'
  BY <1>i, <1>4 DEF Boot, NothingPending, Consumed, tasks, queue
<1>5. ASSUME NEW n \in Nodes, Subscribe(n) PROVE Consumed'
  <2>1. PICK t \in todo[n] :
          /\ subs' = [subs EXCEPT ![n] = Append(@, QueueOf(t))]
          /\ consumer' = [consumer EXCEPT ![QueueOf(t)] =
                            IF @ = "none" THEN "implicit" ELSE @]
    BY <1>5 DEF Subscribe, FirstOf
  <2>2. QueueOf(t) \in Subjects /\ subs[n] \in Seq(Subjects)
    BY <1>i, <2>1 DEF TypeOK, QueueOf, Subjects
  <2>3. /\ consumer'[QueueOf(t)] # "none"
        /\ \A s \in Subjects : consumer[s] # "none" => consumer'[s] # "none"
    BY <1>i, <2>1, <2>2 DEF TypeOK
  <2>4. ASSUME NEW m \in Nodes, NEW i \in DOMAIN subs'[m]
        PROVE  consumer'[subs'[m][i]] # "none"
    <3>1. CASE m = n
      <4>1. subs'[m] = Append(subs[n], QueueOf(t))
        BY <1>i, <2>1, <3>1 DEF TypeOK
      <4>2. CASE i \in DOMAIN subs[n]
        <5>1. subs'[m][i] = subs[n][i] /\ subs[n][i] \in Subjects
          BY <2>2, <4>1, <4>2
        <5> QED
          BY <1>i, <2>3, <4>2, <5>1 DEF Consumed
      <4>3. CASE i \notin DOMAIN subs[n]
        <5>1. subs'[m][i] = QueueOf(t)
          BY <2>2, <2>4, <4>1, <4>3
        <5> QED
          BY <2>3, <5>1
      <4> QED
        BY <4>2, <4>3
    <3>2. CASE m # n
      <4>1. subs'[m] = subs[m] /\ subs[m] \in Seq(Subjects)
        BY <1>i, <2>1, <3>2 DEF TypeOK
      <4>2. subs[m][i] \in Subjects /\ consumer[subs[m][i]] # "none"
        BY <1>i, <2>4, <4>1 DEF Consumed
      <4> QED
        BY <2>3, <4>1, <4>2
    <3> QED
      BY <3>1, <3>2
  <2>5. UNCHANGED <<stream, subject>>
    BY <1>5 DEF Subscribe, tasks, queue
  <2> QED
    BY <1>i, <2>3, <2>4, <2>5 DEF Consumed, TypeOK
<1>6. ASSUME NEW n \in Nodes, Fetch(n) PROVE Consumed'
  <2>1. PICK t \in Waiting(subs[n][at[n]]) : stream' = Handed(t)
    BY <1>6 DEF Fetch
  <2>2. t \in Msgs /\ subject[t] = subs[n][at[n]]
    BY <2>1 DEF Waiting
  <2>3. consumer[subject[t]] # "none"
    BY <1>i, <1>6, <2>2 DEF Fetch, Consumed
  <2>4. \A u \in Msgs \ {t} : stream'[u] = stream[u]
    BY <1>i, <2>1, <2>2, HandedFacts
  <2>5. UNCHANGED <<consumer, subject, subs>>
    BY <1>6 DEF Fetch, tasks
  <2> QED
    BY <1>i, <2>2, <2>3, <2>4, <2>5 DEF Consumed
<1>7. ASSUME NEW n \in Nodes, Settle(n) \/ Retry(n) PROVE Consumed'
  <2>1. hand[n] \in Msgs /\ stream[hand[n]].state = "inflight"
    BY <1>i, <1>7 DEF Settle, Retry, Hands, TypeOK
  <2>2. /\ stream'[hand[n]].state # "inflight"
        /\ \A u \in Msgs \ {hand[n]} : stream'[u] = stream[u]
    <3>1. CASE Settle(n)
      BY <1>i, <2>1, <3>1, RemoveFacts DEF Settle
    <3>2. CASE Retry(n)
      <4>1. Return(hand[n])
        BY <3>2 DEF Retry
      <4> QED
        BY <1>i, <2>1, <4>1, ReturnFacts
    <3> QED
      BY <1>7, <3>1, <3>2
  <2>3. UNCHANGED <<consumer, subject, subs>>
    BY <1>7 DEF Settle, Retry, Loop
  <2> QED
    BY <1>i, <2>1, <2>2, <2>3 DEF Consumed
<1>8. ASSUME NEW n \in Nodes, Die(n) PROVE Consumed'
  BY <1>i, <1>8 DEF Die, Exited, Consumed, TypeOK, queue
<1>9. CASE UNCHANGED vars
  BY <1>i, <1>9 DEF Consumed, vars, tasks, queue, node
<1> QED
  BY <1>1, <1>2, <1>3, <1>4, <1>5, <1>6, <1>7, <1>8, <1>9 DEF Next, Step

LEMMA StepLadder == Inv /\ TypeOK' /\ [Next]_vars => LadderAnnounces'
<1> SUFFICES ASSUME Inv, TypeOK', [Next]_vars PROVE LadderAnnounces'
  OBVIOUS
<1>i. TypeOK /\ Hands /\ Consumed /\ LadderAnnounces
  BY DEF Inv
\* What a step does to one message, given that it does nothing to the others.
<1>r. ASSUME NEW t \in Msgs, stream[t].state = "inflight", Return(t),
             UNCHANGED <<consumer, subject>>
      PROVE  LadderAnnounces'
  <2>1. consumer[subject[t]] \in {"ladder", "implicit"}
    BY <1>i, <1>r DEF Consumed, TypeOK
  <2>2. stream[t].deliveries \in 0..MaxDeliver + 1
    BY <1>i DEF TypeOK
  <2>3. /\ dlq \subseteq dlq' /\ \A u \in Msgs \ {t} : stream'[u] = stream[u]
        /\ stream'[t].state \in {"ready", "exhausted"}
        /\ stream'[t].deliveries = stream[t].deliveries
        /\ consumer[subject[t]] = "ladder" /\ stream'[t].state = "ready"
             => stream[t].deliveries # MaxDeliver
        /\ stream'[t].state = "exhausted" => t \in dlq'
    BY <1>i, <1>r, ReturnFacts
  <2> QED
    BY <1>i, <1>r, <2>1, <2>2, <2>3 DEF LadderAnnounces
<1>1. ASSUME NEW i \in DOMAIN BootTiers, AddConsumer(i) PROVE LadderAnnounces'
  BY <1>i, <1>1 DEF AddConsumer, LadderAnnounces, TypeOK, tasks, queue
<1>2. ASSUME NEW t \in Msgs, Route(t) PROVE LadderAnnounces'
  BY <1>i, <1>2 DEF Route, LadderAnnounces, TypeOK
<1>3. ASSUME NEW t \in Msgs, AckWaitEnds(t) PROVE LadderAnnounces'
  BY <1>3, <1>r DEF AckWaitEnds, tasks
<1>4. ASSUME NEW n \in Nodes, Boot(n) \/ NothingPending(n) \/ Die(n)
      PROVE  LadderAnnounces'
  BY <1>i, <1>4 DEF Boot, NothingPending, Die, LadderAnnounces, tasks, queue
<1>5. ASSUME NEW n \in Nodes, Subscribe(n) PROVE LadderAnnounces'
  <2>1. PICK q : consumer' = [consumer EXCEPT ![q] =
                               IF @ = "none" THEN "implicit" ELSE @]
    BY <1>5 DEF Subscribe
  <2>2. \A s \in Subjects :
          consumer'[s] # "implicit" => consumer[s] # "implicit"
    BY <1>i, <2>1 DEF TypeOK
  <2> QED
    BY <1>i, <1>5, <2>2 DEF Subscribe, LadderAnnounces, TypeOK, tasks, queue
<1>6. ASSUME NEW n \in Nodes, Fetch(n) PROVE LadderAnnounces'
  <2>1. PICK t \in Waiting(subs[n][at[n]]) : stream' = Handed(t)
    BY <1>6 DEF Fetch
  <2>2. /\ t \in Msgs /\ stream[t].state = "ready"
        /\ stream[t].deliveries \in 0..MaxDeliver + 1
    BY <1>i, <2>1 DEF Waiting, TypeOK
  <2>3. /\ \A u \in Msgs \ {t} : stream'[u] = stream[u]
        /\ stream'[t].state = "inflight"
        /\ stream[t].deliveries < MaxDeliver
             => stream'[t].deliveries = stream[t].deliveries + 1
    BY <1>i, <2>1, <2>2, HandedFacts
  <2>4. UNCHANGED <<consumer, subject, dlq>>
    BY <1>6 DEF Fetch, tasks
  <2> QED
    BY <1>i, <2>2, <2>3, <2>4 DEF LadderAnnounces
<1>7. ASSUME NEW n \in Nodes, Settle(n) PROVE LadderAnnounces'
  <2>1. /\ stream' = [stream EXCEPT ![hand[n]].state = "gone"]
        /\ UNCHANGED <<consumer, subject, dlq>>
    BY <1>7 DEF Settle, Remove, Loop
  <2>2. ASSUME NEW t \in Msgs
        PROVE  /\ stream'[t].deliveries = stream[t].deliveries
               /\ stream'[t].state \in {"gone", stream[t].state}
    BY <1>i, <2>1 DEF TypeOK
  <2> QED
    BY <1>i, <2>1, <2>2 DEF LadderAnnounces
<1>8. ASSUME NEW n \in Nodes, Retry(n) PROVE LadderAnnounces'
  BY <1>i, <1>8, <1>r DEF Retry, Loop, Hands, TypeOK
<1>9. CASE UNCHANGED vars
  BY <1>i, <1>9 DEF LadderAnnounces, vars, tasks, queue
<1> QED
  BY <1>1, <1>2, <1>3, <1>4, <1>5, <1>6, <1>7, <1>8, <1>9 DEF Next, Step

LEMMA Invariant == Spec => []Inv
<1>1. Inv /\ [Next]_vars => Inv'
  BY StepTyped, StepHands, StepCapable, StepConsumed, StepLadder DEF Inv
<1> QED
  BY Start, <1>1, PTL DEF Spec
-----------------------------------------------------------------------------
\* Type correctness of the nodes, the queue and the consumers, and no message
\* delivered more often than the count is kept.
THEOREM TypeCorrect == Spec => []TypeOK
<1> QED
  BY Invariant, PTL DEF Inv

\* A node that probes works only on tasks of tiers it has measured the room for
\* (capacity.py:84-96, agent_worker.py:169-191).
THEOREM CapableServe == Spec => []ServedByCapable
<1>1. Inv => ServedByCapable
  BY DEF Inv, Capable, Fitting, ServedByCapable
<1> QED
  BY <1>1, Invariant, PTL

\* On every consumer of the bootstrap a message is out of deliveries exactly
\* where it is announced (bootstrap_jetstream.sh:12, 36-50).
THEOREM NoneExhaustedUnseen == Spec => []LadderAnnounces
<1> QED
  BY Invariant, PTL DEF Inv
=============================================================================
