------------------------------- MODULE Tiers -------------------------------
(***************************************************************************)
(* Capacity tiers: agent/capacity.py and the start-up and fetch loop of    *)
(* agent/agent_worker.py on each node, the subjects that the producers     *)
(* route to (ingest/forgejo_issue_sync.py, agent/router.py), and the       *)
(* consumers that scripts/bootstrap_jetstream.sh adds.                     *)
(*                                                                         *)
(* One role.  A task has one message, with its name (duplicates and early  *)
(* redeliveries are in AgentWorker), and a node's work on it is one step,  *)
(* with the outcomes that AgentWorker gives it.  A tier is a name; the     *)
(* queue of the name "default" is the role's plain subject.                *)
(***************************************************************************)
EXTENDS JetStream, Integers, Sequences

CONSTANTS Nodes,
          AutoNodes,    \* nodes with WORKER_TIERS=auto
          Listed,       \* what WORKER_TIERS lists on the others
          GpuTiers, Need, Rank,   \* TIER_VRAM_MB: its keys, values and order
          Weak, Strong, \* the tiers the router proposes
          Default, Plain,         \* the name "default", the plain subject
          Labels,       \* the tier labels that a task's issue may carry
          NoTier, NoTask,
          Proposed,     \* tasks of a sync with ROUTER_ENABLED=1
          Endless,      \* tasks of which another one always comes
          BootTiers,    \* the durables of the bootstrap, in its order
          VramLevels,   \* bound: what a probe may find free, in MB
          MaxAttempts,  \* MAX_TASK_ATTEMPTS
          MaxDeaths     \* bound: deaths of nodes

TierNames == GpuTiers \union {Default}
                      \union ((UNION {Labels[t] : t \in Msgs}) \ {NoTier})
Subjects == {Plain} \union TierNames

ASSUME TiersAssumption ==
  /\ AutoNodes \subseteq Nodes
  /\ Listed \in [Nodes -> SUBSET TierNames]
  /\ Need \in [GpuTiers -> Nat \ {0}] /\ Rank \in [TierNames -> Nat]
  /\ Weak \in GpuTiers /\ Strong \in GpuTiers
  /\ GpuTiers \intersect {"cpu-only", "api"} = {}
  /\ Default \notin GpuTiers /\ Plain \notin TierNames
  /\ NoTier \notin Subjects /\ NoTask \notin Msgs
  /\ BootTiers \in Seq(Subjects)
  /\ VramLevels \subseteq Nat /\ MaxAttempts \in Nat /\ MaxDeaths \in Nat

VARIABLES
  consumer,  \* per subject: "none"; "ladder", as the bootstrap configures it;
             \* or "implicit", created by a subscription with the defaults
  subject,   \* of each published task
  stream, dlq,            \* as in AgentWorker
  row,       \* status of the task: "pending", "claimed" (by one that died),
             \* or "decided"
  attempts,  \* Valkey attempts:<id>
  pc, probe, \* per node: where it is, and what it measured at its start
  todo, subs,    \* tiers still to subscribe to, and the subscriptions in order
  at, hand,      \* the subscription it asks next, the task it works on
  deaths

tasks == <<subject, row, attempts>>
queue == <<stream, dlq>>
node == <<pc, probe, todo, subs, at, hand>>
vars == <<consumer, tasks, queue, node, deaths>>

Init ==
  /\ consumer = [s \in Subjects |-> "none"]
  /\ subject = [t \in Msgs |-> Plain]
  /\ stream = [t \in Msgs |-> Absent]
  /\ dlq = {}
  /\ row = [t \in Msgs |-> "pending"]
  /\ attempts = [t \in Msgs |-> 0]
  /\ pc = [n \in Nodes |-> "down"]
  /\ probe = [n \in Nodes |-> [free |-> 0, spill |-> FALSE]]
  /\ todo = [n \in Nodes |-> {}]
  /\ subs = [n \in Nodes |-> <<>>]
  /\ at = [n \in Nodes |-> 1]
  /\ hand = [n \in Nodes |-> NoTask]
  /\ deaths = 0

-----------------------------------------------------------------------------
(* Bootstrap, and the producers.                                           *)

\* add_consumer, in the order of the loops; a consumer that exists is left as
\* it is.  A bootstrap that died half-way is run again.
AddConsumer(i) ==
  /\ consumer[BootTiers[i]] = "none"
  /\ \A j \in 1..(i - 1) : consumer[BootTiers[j]] # "none"
  /\ consumer' = [consumer EXCEPT ![BootTiers[i]] = "ladder"]
  /\ UNCHANGED <<tasks, queue, node, deaths>>

\* propose_tier: titles are abstracted, so either tier may be proposed.
Proposal(t) == IF t \in Proposed THEN {Weak, Strong} ELSE {NoTier}

\* tier_of: a label decides before the router.
TierOf(t) == (Labels[t] \ {NoTier})
               \union (IF NoTier \in Labels[t] THEN Proposal(t) ELSE {})

SubjectFor(tier) == IF tier = NoTier THEN Plain ELSE tier

\* A task is published on its subject, whether or not anyone will read it.
Route(t) ==
  /\ stream[t].state \in {"absent"} \union {s \in {"gone"} : t \in Endless}
  /\ \E tier \in TierOf(t) :
       subject' = [subject EXCEPT ![t] = SubjectFor(tier)]
  /\ stream' = [stream EXCEPT ![t] = [state |-> "ready", deliveries |-> 0]]
  /\ row' = [row EXCEPT ![t] = "pending"]
  /\ attempts' = [attempts EXCEPT ![t] = 0]
  /\ UNCHANGED <<consumer, dlq, node, deaths>>

-----------------------------------------------------------------------------
(* A node's start: probe, register, subscribe.                             *)

\* Mutant: the headroom is not asked for.
AnyGpuServes(free, spill) ==
  IF spill \/ free <= 0 THEN {"cpu-only", "api"} ELSE GpuTiers \union {"api"}

ComputeTiers(free, spill) ==
  LET fits == {t \in GpuTiers : free >= Need[t]} IN
  IF spill \/ free <= 0 \/ fits = {} THEN {"cpu-only", "api"}
                                     ELSE fits \union {"api"}

ServeableTiers(caps) == {Default} \union (caps \intersect GpuTiers)

\* main up to the subscriptions.  The row that register_node writes, or fails to
\* write and logs it, is read by nobody; an explicit list is taken whatever the
\* probe says, which is not kept then.
Boot(n) ==
  /\ pc[n] = "down"
  /\ \E free \in VramLevels, spill \in BOOLEAN :
       /\ probe' = [probe EXCEPT ![n] =
                      IF n \in AutoNodes
                        THEN [free |-> free, spill |-> spill] ELSE @]
       /\ todo' = [todo EXCEPT ![n] =
                     IF n \in AutoNodes
                       THEN ServeableTiers(ComputeTiers(free, spill))
                       ELSE Listed[n]]
  /\ pc' = [pc EXCEPT ![n] = "up"]
  /\ UNCHANGED <<consumer, tasks, queue, subs, at, hand, deaths>>

QueueOf(tier) == IF tier = Default THEN Plain ELSE tier

FirstOf(tiers) == {t \in tiers : \A u \in tiers : Rank[t] <= Rank[u]}

\* js.pull_subscribe creates a durable that does not exist.
Subscribe(n) ==
  /\ pc[n] = "up"
  /\ \E t \in FirstOf(todo[n]) :
       /\ todo' = [todo EXCEPT ![n] = @ \ {t}]
       /\ subs' = [subs EXCEPT ![n] = Append(@, QueueOf(t))]
       /\ consumer' = [consumer EXCEPT ![QueueOf(t)] =
                         IF @ = "none" THEN "implicit" ELSE @]
  /\ UNCHANGED <<tasks, queue, pc, probe, at, hand, deaths>>

-----------------------------------------------------------------------------
(* The loop: one subscription after the other, and from the first again    *)
(* after each message.                                                     *)

Waiting(s) == {t \in Msgs : subject[t] = s /\ stream[t].state = "ready"}

\* The server counts deliveries on either kind of consumer; without
\* max_deliver a count beyond the ladder's last one makes no difference.
Handed(t) ==
  IF stream[t].deliveries > MaxDeliver
    THEN [stream EXCEPT ![t].state = "inflight"]
    ELSE Deliver(stream, t)

Fetch(n) ==
  /\ pc[n] = "up" /\ todo[n] = {}
  /\ at[n] \in DOMAIN subs[n]
  /\ \E t \in Waiting(subs[n][at[n]]) :
       /\ stream' = Handed(t)
       /\ hand' = [hand EXCEPT ![n] = t]
  /\ pc' = [pc EXCEPT ![n] = "working"]
  /\ at' = [at EXCEPT ![n] = 1]
  /\ UNCHANGED <<consumer, tasks, dlq, probe, todo, subs, deaths>>

\* Mutant: the timeout of an empty queue begins the turn again.
ScanFromTheTop(n) ==
  /\ pc[n] = "up" /\ todo[n] = {}
  /\ at[n] \in DOMAIN subs[n]
  /\ Waiting(subs[n][at[n]]) = {}
  /\ at' = [at EXCEPT ![n] = 1]
  /\ UNCHANGED <<consumer, tasks, queue, pc, probe, todo, subs,
                 hand, deaths>>

\* NatsTimeoutError: the next subscription, or the next turn.
NothingPending(n) ==
  /\ pc[n] = "up" /\ todo[n] = {}
  /\ at[n] \in DOMAIN subs[n]
  /\ Waiting(subs[n][at[n]]) = {}
  /\ at' = [at EXCEPT ![n] = IF @ = Len(subs[n]) THEN 1 ELSE @ + 1]
  /\ UNCHANGED <<consumer, tasks, queue, pc, probe, todo, subs,
                 hand, deaths>>

Loop(n) == /\ pc' = [pc EXCEPT ![n] = "up"]
           /\ hand' = [hand EXCEPT ![n] = NoTask]
           /\ UNCHANGED <<consumer, probe, todo, subs, at, deaths>>

\* Done, poisoned or tripped: the verdict, then ack or term.  A task that a
\* dead process has claimed is acked unseen.
Settle(n) ==
  /\ pc[n] = "working"
  /\ stream' = Remove(stream, hand[n])
  /\ row' = [row EXCEPT ![hand[n]] = IF @ = "pending" THEN "decided" ELSE @]
  /\ Loop(n)
  /\ UNCHANGED <<subject, attempts, dlq>>

\* Mutant: every consumer goes without the ladder's max_deliver.
ReturnForEver(t) ==
  /\ stream' = [stream EXCEPT ![t].state = "ready"]
  /\ UNCHANGED dlq

\* A message comes back: on the ladder until its last delivery, on an
\* implicit consumer without end.
Return(t) ==
  IF consumer[subject[t]] = "ladder"
    THEN stream' = Requeue(stream, t) /\ dlq' = Advise(dlq, stream, t)
    ELSE stream' = [stream EXCEPT ![t].state = "ready"] /\ UNCHANGED dlq

\* A transient failure, which the breaker has let start.
Retry(n) ==
  /\ pc[n] = "working"
  /\ row[hand[n]] = "pending"
  /\ attempts[hand[n]] < MaxAttempts
  /\ attempts' = [attempts EXCEPT ![hand[n]] = @ + 1]
  /\ Return(hand[n])
  /\ Loop(n)
  /\ UNCHANGED <<subject, row>>

\* What a process remembers ends with it.
Exited(n) ==
  /\ pc' = [pc EXCEPT ![n] = "down"]
  /\ probe' = [probe EXCEPT ![n] = [free |-> 0, spill |-> FALSE]]
  /\ todo' = [todo EXCEPT ![n] = {}]
  /\ subs' = [subs EXCEPT ![n] = <<>>]
  /\ at' = [at EXCEPT ![n] = 1]
  /\ hand' = [hand EXCEPT ![n] = NoTask]

\* Before or after the claim of the task in hand.
Die(n) ==
  /\ pc[n] # "down"
  /\ deaths < MaxDeaths
  /\ deaths' = deaths + 1
  /\ \E lost \in SUBSET {t \in {hand[n]} : t # NoTask /\ row[t] = "pending"} :
       row' = [t \in Msgs |-> IF t \in lost THEN "claimed" ELSE row[t]]
  /\ Exited(n)
  /\ UNCHANGED <<consumer, subject, attempts, queue>>

AckWaitEnds(t) ==
  /\ stream[t].state = "inflight"
  /\ \A n \in Nodes : hand[n] # t
  /\ Return(t)
  /\ UNCHANGED <<consumer, tasks, node, deaths>>

Step(n) == \/ Boot(n) \/ Subscribe(n)
           \/ Fetch(n) \/ NothingPending(n) \/ Settle(n) \/ Retry(n)

Next == \/ \E i \in DOMAIN BootTiers : AddConsumer(i)
        \/ \E t \in Msgs : Route(t) \/ AckWaitEnds(t)
        \/ \E n \in Nodes : Step(n) \/ Die(n)

Spec == Init /\ [][Next]_vars

FairSpec == /\ Spec
            /\ \A n \in Nodes : WF_vars(Step(n))
            /\ \A t \in Msgs : WF_vars(AckWaitEnds(t))
-----------------------------------------------------------------------------
TypeOK ==
  /\ consumer \in [Subjects -> {"none", "ladder", "implicit"}]
  /\ subject \in [Msgs -> Subjects]
  /\ stream \in [Msgs -> [state : MsgState, deliveries : 0..MaxDeliver + 1]]
  /\ dlq \subseteq Msgs
  /\ row \in [Msgs -> {"pending", "claimed", "decided"}]
  /\ attempts \in [Msgs -> 0..MaxAttempts]
  /\ pc \in [Nodes -> {"down", "up", "working"}]
  /\ probe \in [Nodes -> [free : Nat, spill : BOOLEAN]]
  /\ todo \in [Nodes -> SUBSET TierNames]
  /\ subs \in [Nodes -> Seq(Subjects)]
  /\ at \in [Nodes -> Nat \ {0}]
  /\ hand \in [Nodes -> Msgs \union {NoTask}]
  /\ deaths \in Nat

\* "claimed only by nodes that can_serve them" (bootstrap_jetstream.sh:71): a
\* node that derives its tiers from its probe works on a task of a tier only if
\* it measured the room for it at its start and did not spill.  An explicit
\* WORKER_TIERS is exempt.
ServedByCapable ==
  \A n \in AutoNodes : hand[n] # NoTask /\ subject[hand[n]] # Plain =>
    LET tier == subject[hand[n]] IN
    /\ tier \in GpuTiers
    /\ ~probe[n].spill /\ probe[n].free >= Need[tier]

\* "the 5th failure emits MAX_DELIVERIES -> SWARM_DLQ"
\* (bootstrap_jetstream.sh:12): a message is out of deliveries exactly where it
\* is announced, on every consumer but those that a subscription made before
\* the bootstrap, or for a tier that the bootstrap does not know.
LadderAnnounces ==
  \A t \in Msgs : consumer[subject[t]] # "implicit" =>
    /\ stream[t].deliveries <= MaxDeliver
    /\ stream[t].state = "ready" => stream[t].deliveries < MaxDeliver
    /\ stream[t].state = "exhausted" => t \in dlq

\* A node that asks for the tier's messages once the tiers before it are quiet:
\* the loop serves its first subscription first (agent_worker.py:183-191).
Attends(n, s) ==
  /\ pc[n] \in {"up", "working"}
  /\ \E i \in DOMAIN subs[n] :
       /\ subs[n][i] = s
       /\ \A j \in 1..(i - 1) : Waiting(subs[n][j]) = {}

\* What is routed to a tier that some node attends from some time on is settled
\* or announced, on a consumer of either kind: the ladder or the breaker ends a
\* task that keeps failing (agent_worker.py:183-191, 213-253).
TierFlows ==
  \A t \in Msgs :
    (<>[](\E n \in Nodes : Attends(n, subject[t]))) =>
      (stream[t].state = "ready" ~> (stream[t].state = "gone" \/ t \in dlq))
=============================================================================
