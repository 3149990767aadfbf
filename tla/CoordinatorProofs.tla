------------------------- MODULE CoordinatorProofs -------------------------
(***************************************************************************)
(* Proofs about Coordinator, for any number of orchestrators, plain        *)
(* workers, ids and lines of a plan.                                       *)
(***************************************************************************)
EXTENDS Coordinator, TLAPS

USE CoordinatorAssumption

\* A stream of well-formed entries, where what can be delivered has a delivery
\* left.
StreamOK(s) ==
  /\ s \in [Tasks -> Queue!Entry]
  /\ \A t \in Tasks : s[t].state \in {"absent", "ready"}
                       => s[t].deliveries < MaxDeliver

\* Storing, delivering, removing and requeueing keep the stream well formed,
\* and put no message there that was not.
LEMMA StreamOps ==
  ASSUME NEW s, StreamOK(s), NEW t \in Tasks
  PROVE  /\ s[t].state = "absent" => StreamOK(Queue!Store(s, t))
         /\ Queue!Deliverable(s, t) => StreamOK(Queue!Deliver(s, t))
         /\ StreamOK(Queue!Remove(s, t))
         /\ StreamOK(Queue!Requeue(s, t))
<1> USE DEF StreamOK, Queue!Entry, Queue!MsgState
<1>1. s[t].state = "absent" => StreamOK(Queue!Store(s, t))
  BY DEF Queue!Store
<1>2. Queue!Deliverable(s, t) => StreamOK(Queue!Deliver(s, t))
  BY DEF Queue!Deliverable, Queue!Deliver
<1>3. StreamOK(Queue!Remove(s, t))
  BY DEF Queue!Remove
<1>4. StreamOK(Queue!Requeue(s, t))
  BY DEF Queue!Requeue, Queue!LastDelivery
<1> QED
  BY <1>1, <1>2, <1>3, <1>4

\* A new id is an id, and not the id of a row.
LEMMA FreshId == rows \subseteq Tasks /\ rows # Tasks => NewId \in Tasks \ rows
BY DEF NewId
-----------------------------------------------------------------------------
\* The inductive invariant, part by part.

\* Only rows are published, claimed, fetched and had as children.
RowsFirst ==
  /\ \A t \in Tasks : stream[t].state # "absent" => t \in rows
  /\ \A t \in Tasks \ rows : status[t] = "pending" /\ line[t] = 0
  /\ \A g \in Graphs : pc[g] \notin {"idle", "dead"} => cur[g] \in rows

\* Whoever works on a row owns it.
Owners ==
  /\ \A g \in Graphs : pc[g] \in Holding =>
       status[cur[g]] = "claimed" /\ claimed_by[cur[g]] = g
  /\ \A w \in Workers : hand[w] # NoTask =>
       status[hand[w]] = "claimed" /\ claimed_by[hand[w]] = w

Childless(t) == \A c \in rows : parent[c] # t

\* Only a plan node writes children, of the row that its process holds.
ChildrenOfPlans ==
  /\ \A t \in rows : status[t] = "pending" => Childless(t)
  /\ \A w \in Workers : hand[w] # NoTask => Childless(hand[w])
  /\ \A g \in Graphs : pc[g] \in {"planning", "interrupted", "working"}
                        => Childless(cur[g])

\* A process outside the loop of the plan node has no plan.
PlanLocal == \A g \in Graphs : pc[g] \notin Waiting => plan[g] = NoPlan

\* While g's plan lasts, its ids are the children of g's task, one for each
\* line, but for those that failed and were replaced.
PlanIsTree(g) ==
  /\ \A i \in Lines : plan[g].ids[i] # NoTask =>
       /\ i <= plan[g].lines
       /\ parent[plan[g].ids[i]] = cur[g]
       /\ line[plan[g].ids[i]] = i
       /\ plan[g].ids[i] \notin plan[g].replanned
  /\ \A c \in rows : parent[c] = cur[g] =>
       /\ line[c] \in Lines
       /\ plan[g].ids[line[c]] # NoTask
       /\ c = plan[g].ids[line[c]] \/ status[c] = "failed"
  /\ pc[g] # "emitting" => \A i \in 1..plan[g].lines : plan[g].ids[i] # NoTask

Trees == \A g \in Graphs : pc[g] \in Waiting => PlanIsTree(g)

\* A verdict that was read is still the verdict.
SeenIsFinal ==
  \A g \in Graphs : pc[g] = "scanning" =>
    \A t \in Tasks : plan[g].seen[t] \in {"done", "failed"}
                      => status[t] = plan[g].seen[t]

Settled(t) ==
  \A c \in Children(t) :
    \E k \in Children(t) : line[k] = line[c] /\ status[k] = "done"

\* Only a plan that is done, or work that is, is reported.
ReportReady ==
  \A g \in Graphs : pc[g] = "reporting" => g \in done /\ Settled(cur[g])

Typed == TypeOK /\ StreamOK(stream)
Plans == ChildrenOfPlans /\ PlanLocal /\ Trees /\ SeenIsFinal
Results == ReportReady /\ OneLivePerLine /\ DoneBySubtasks

Basics == Typed /\ RowsFirst /\ Owners

Inv == Basics /\ Plans /\ Results /\ ClaimsExplained
-----------------------------------------------------------------------------
\* The initial state meets every part.
LEMMA InitInv == Init => Inv
<1> SUFFICES ASSUME Init PROVE Inv
  OBVIOUS
<1> USE DEF Init, NoPlan, Queue!Absent, PCs, Holding, Statuses, Lines
<1>1. Typed
  <2>1. NoPlan \in PlanType
    BY DEF PlanType
  <2> QED
    BY <2>1 DEF Typed, TypeOK, StreamOK, Queue!Entry, Queue!MsgState
<1>2. RowsFirst /\ Owners
  BY DEF RowsFirst, Owners
<1>3. Plans
  BY DEF Plans, ChildrenOfPlans, Childless, PlanLocal, Trees, Waiting, SeenIsFinal
<1>4. Results /\ ClaimsExplained
  BY DEF Results, ReportReady, OneLivePerLine, DoneBySubtasks, ClaimsExplained
<1> QED
  BY <1>1, <1>2, <1>3, <1>4 DEF Inv, Basics

\* Every step keeps the types and the delivery bound.
LEMMA StepTyped == Typed /\ RowsFirst /\ [Next]_vars => Typed'
<1> SUFFICES ASSUME Typed, RowsFirst, [Next]_vars PROVE Typed'
  OBVIOUS
<1> USE DEF Typed, TypeOK, Goto, Forget, NextTurn, board, tree, crew, graph
<1>s. \A t \in Tasks :
        /\ stream[t].state = "absent" => StreamOK(Queue!Store(stream, t))
        /\ Queue!Deliverable(stream, t) => StreamOK(Queue!Deliver(stream, t))
        /\ StreamOK(Queue!Remove(stream, t))
        /\ StreamOK(Queue!Requeue(stream, t))
  BY StreamOps
<1>t. \A s : StreamOK(s) => s \in [Tasks -> Queue!Entry]
  BY DEF StreamOK
<1>p. /\ {"idle", "fetched", "ended", "acking", "naking", "dead"} \subseteq PCs
      /\ {"planning", "emitting", "polling", "scanning"} \subseteq PCs
      /\ {"interrupted", "working", "reporting"} \subseteq PCs
  BY DEF PCs, Holding
<1>x. \A g \in Graphs : EndOfGraph(g) \in PCs
  BY <1>p DEF EndOfGraph
<1>n. NoPlan \in PlanType
  BY DEF NoPlan, PlanType
<1>q. UNCHANGED rows => PlanType' = PlanType
  BY DEF PlanType
<1>c. \A g \in Graphs : pc[g] \notin {"idle", "dead"} => cur[g] \in rows
  BY DEF RowsFirst
<1>a. {"pending", "claimed", "done", "failed"} \subseteq Statuses
  BY DEF Statuses
<1>r. \A t \in Tasks : Queue!Deliverable(stream, t) => t \in rows
  BY DEF Queue!Deliverable, RowsFirst
<1>1. ASSUME NEW g \in Graphs, Step(g) \/ Raise(g) \/ Approve(g) \/ Crash(g) PROVE Typed'
  <2>1. ASSUME NEW t \in Tasks, Fetch(g, t) PROVE Typed'
    BY <2>1, <1>s, <1>t, <1>p, <1>r, <1>q DEF Fetch
  <2>2. ASSUME NEW n \in Lines, NEW mark \in BOOLEAN, StartPlan(g, n, mark) PROVE Typed'
    <3>1. /\ plan[g] \in PlanType
          /\ plan' = [plan EXCEPT ![g] = [plan[g] EXCEPT !.lines = n, !.marked = mark]]
      BY <2>2 DEF StartPlan
    <3>n. n \in 0..MaxLines
      BY DEF Lines
    <3>2. [plan[g] EXCEPT !.lines = n, !.marked = mark] \in PlanType
      BY <3>1, <3>n DEF PlanType
    <3> QED
      BY <2>2, <3>1, <3>2, <1>p, <1>q DEF StartPlan
  <2>3. CASE PlanParsed(g) \/ PlanFallback(g)
    <3>1. 1 \in Lines
      BY DEF Lines
    <3> QED
      BY <2>2, <2>3, <3>1 DEF PlanParsed, PlanFallback
  <2>4. CASE Claim(g)
    BY <2>4, <1>p, <1>q, <1>a DEF Claim
  <2>5. CASE ClaimLost(g)
    BY <2>5, <1>q, <1>x DEF ClaimLost
  <2>6. CASE Single(g)
    BY <2>6, <1>p, <1>q DEF Single
  <2>7. CASE Work(g)
    BY <2>7, <1>p, <1>q DEF Work
  <2>8. CASE Ack(g)
    BY <2>8, <1>s, <1>t, <1>p, <1>n, <1>q, <1>c DEF Ack
  <2>9. CASE Nak(g)
    BY <2>9, <1>s, <1>t, <1>p, <1>n, <1>q, <1>c DEF Nak
  <2>a. CASE AnswerLost(g)
    BY <2>a, <1>p, <1>n, <1>q, <1>c DEF AnswerLost
  <2>10. CASE Raise(g)
    BY <2>10, <1>p, <1>n, <1>q, <1>c DEF Raise
  <2>11. CASE Approve(g)
    BY <2>11, <1>p, <1>q DEF Approve
  <2>12. CASE Crash(g)
    BY <2>12, <1>p, <1>n, <1>q DEF Crash
  <2>13. CASE EmitSubtask(g)
    <3>1. PICK i \in 1..plan[g].lines : Insert(g, i) /\ plan' = [plan EXCEPT ![g].ids[i] = NewId]
      BY <2>13 DEF EmitSubtask, Unwritten
    <3>2. i \in Lines /\ plan[g] \in PlanType
      BY <3>1 DEF PlanType, Lines
    <3>3. NewId \in Tasks \ rows /\ rows' = rows \union {NewId}
      BY <3>1, FreshId DEF Insert
    <3>4. plan'[g] \in PlanType'
      BY <3>1, <3>2, <3>3 DEF PlanType
    <3>5. \A h \in Graphs : plan[h] \in PlanType'
      BY <3>3 DEF PlanType
    <3>6. plan' \in [Graphs -> PlanType']
      BY <3>1, <3>4, <3>5
    <3> QED
      BY <2>13, <3>1, <3>2, <3>3, <3>6, <1>p DEF EmitSubtask, Insert
  <2>14. CASE Poll(g)
    <3> DEFINE Read == [t \in Tasks |-> IF t \in Ids(g) THEN status[t] ELSE "unread"]
    <3>1. plan' = [plan EXCEPT ![g].seen = Read]
      BY <2>14 DEF Poll
    <3>2. Read \in [Tasks -> Statuses \union {"unread"}]
      OBVIOUS
    <3>3. plan[g] \in PlanType
      OBVIOUS
    <3> HIDE DEF Read
    <3>4. [plan[g] EXCEPT !.seen = Read] \in PlanType
      BY <3>2, <3>3 DEF PlanType
    <3>5. plan'[g] \in PlanType
      BY <3>1, <3>4
    <3> QED
      BY <2>14, <3>1, <3>5, <1>p, <1>q DEF Poll
  <2>15. CASE Replan(g)
    <3>1. PICK i \in 1..plan[g].lines : Insert(g, i) /\ plan' = [plan EXCEPT ![g].ids[i] = NewId,
                                 ![g].replanned = @ \union {plan[g].ids[i]}]
      BY <2>15 DEF Replan, Unwritten
    <3>2. i \in Lines /\ plan[g] \in PlanType
      BY <3>1 DEF PlanType, Lines
    <3>3. NewId \in Tasks \ rows /\ rows' = rows \union {NewId}
      BY <3>1, FreshId DEF Insert
    <3>r. plan[g].ids[i] \in rows
      BY <2>15, <3>1, <3>2 DEF Replan, ToReplan, Failed, PlanType
    <3>4. plan'[g] \in PlanType'
      BY <3>1, <3>2, <3>3, <3>r DEF PlanType
    <3>5. \A h \in Graphs : plan[h] \in PlanType'
      BY <3>3 DEF PlanType
    <3>6. plan' \in [Graphs -> PlanType']
      BY <3>1, <3>4, <3>5
    <3> QED
      BY <2>15, <3>1, <3>2, <3>3, <3>6 DEF Replan, Insert
  <2>16. CASE EndScan(g)
    <3>1. plan[g] \in PlanType /\ NoPlan.seen \in [Tasks -> Statuses \union {"unread"}]
      BY DEF NoPlan
    <3>3. [plan[g] EXCEPT !.seen = NoPlan.seen] \in PlanType
      BY <3>1 DEF PlanType
    <3>2. plan' \in [Graphs -> PlanType] /\ pc' \in [Graphs -> PCs]
      <4>1. CASE AllDone(g) \/ GivesUp(g)
        <5>1. pc' = [pc EXCEPT ![g] = "reporting"] /\ plan' = [plan EXCEPT ![g] = NoPlan]
          BY <2>16, <4>1, Zenon DEF EndScan
        <5> QED
          BY <5>1, <1>n, <1>p
      <4>2. CASE ~(AllDone(g) \/ GivesUp(g))
        <5>1. /\ pc' = [pc EXCEPT ![g] = "polling"]
              /\ plan' = [plan EXCEPT ![g].seen = NoPlan.seen]
          BY <2>16, <4>2, Zenon DEF EndScan
        <5> QED
          BY <5>1, <3>3, <1>p
      <4> QED
        BY <4>1, <4>2
    <3> QED
      BY <2>16, <3>2, <1>q DEF EndScan
  <2>17. CASE Report(g)
    <3>1. cur[g] \in Tasks /\ Append(events[cur[g]], "PR_OPENED") \in Seq({"PR_OPENED", "FAILED"})
      BY <2>17, <1>c DEF Report
    <3>2. status' \in [Tasks -> Statuses]
      <4>1. status' = status \/ status' = [status EXCEPT ![cur[g]] = "done"]
        BY <2>17, Zenon DEF Report
      <4>2. status \in [Tasks -> Statuses] /\ "done" \in Statuses
        BY <1>a DEF Statuses
      <4> HIDE DEF Typed, TypeOK
      <4> QED
        BY <4>1, <4>2
    <3>3. events' \in [Tasks -> Seq({"PR_OPENED", "FAILED"})]
      <4> DEFINE Kinds == Seq({"PR_OPENED", "FAILED"})
                 longer == Append(events[cur[g]], "PR_OPENED")
      <4>1. events' = events \/ events' = [events EXCEPT ![cur[g]] = longer]
        BY <2>17, Zenon DEF Report
      <4>2. longer \in Kinds /\ events \in [Tasks -> Kinds] /\ cur[g] \in Tasks
        BY <3>1
      <4> HIDE DEF longer, Kinds, Typed, TypeOK
      <4>3. events' \in [Tasks -> Kinds]
        BY <4>1, <4>2
      <4> QED
        BY <4>3 DEF Kinds
    <3> QED
      BY <2>17, <3>2, <3>3, <1>q, <1>x DEF Report
  <2> QED
    BY <1>1, <2>1, <2>3, <2>4, <2>5, <2>6, <2>7, <2>8, <2>9, <2>10, <2>11, <2>12, <2>13, <2>14, <2>15, <2>16, <2>17, <2>a DEF Step, Node
<1>2. ASSUME NEW t \in Tasks, Publish(t) \/ AckWaitEnds(t) PROVE Typed'
  <2>1. CASE Publish(t)
    BY <2>1, <1>s, <1>t, <1>q DEF Publish
  <2>2. CASE AckWaitEnds(t)
    BY <2>2, <1>s, <1>t, <1>q DEF AckWaitEnds
  <2> QED
    BY <1>2, <2>1, <2>2
<1>3. ASSUME NEW w \in Workers, NEW t \in Tasks, WorkerTakes(w, t) \/ WorkerDrops(w, t)
      PROVE  Typed'
  <2>1. CASE WorkerTakes(w, t)
    BY <2>1, <1>s, <1>t, <1>r, <1>q, <1>a DEF WorkerTakes
  <2>2. CASE WorkerDrops(w, t)
    BY <2>2, <1>s, <1>t, <1>q DEF WorkerDrops
  <2> QED
    BY <1>3, <2>1, <2>2
<1>4. ASSUME NEW w \in Workers, Finish(w) PROVE Typed'
  <2>1. ASSUME NEW v \in {"done", "failed"}, NEW k \in {"PR_OPENED", "FAILED"},
               WorkerDecides(w, v, k)
        PROVE  Typed'
    BY <2>1, <1>s, <1>t, <1>q, <1>a DEF WorkerDecides
  <2>2. CASE WorkerGivesBack(w)
    BY <2>2, <1>s, <1>t, <1>q, <1>a DEF WorkerGivesBack
  <2> QED
    BY <1>4, <2>1, <2>2 DEF Finish
<1>5. ASSUME NEW w \in Workers, WorkerDies(w) PROVE Typed'
  BY <1>5, <1>q DEF WorkerDies
<1>6. CASE UNCHANGED vars
  BY <1>6, <1>q DEF vars
<1> QED
  BY <1>1, <1>2, <1>3, <1>4, <1>5, <1>6 DEF Next, Server, Worker

\* Every step keeps rows before messages, claims and processes.
LEMMA StepRows == Typed /\ Typed' /\ RowsFirst /\ [Next]_vars => RowsFirst'
<1> SUFFICES ASSUME Typed, Typed', RowsFirst, [Next]_vars PROVE RowsFirst'
  OBVIOUS
<1> USE DEF Typed, TypeOK, Goto, Forget, NextTurn, board, tree, crew, graph, RowsFirst, Holding,
           Queue!Store, Queue!Deliver, Queue!Remove, Queue!Requeue, Queue!Entry
<1>m. ASSUME NEW t \in rows, NEW s,
             \/ s = Queue!Remove(stream, t)
             \/ s = Queue!Deliver(stream, t)
             \/ s = Queue!Requeue(stream, t)
      PROVE  \A m \in Tasks : s[m].state # "absent" => m \in rows
  <2>1. \A m \in Tasks : m # t => s[m] = stream[m]
    BY <1>m
  <2> QED
    BY <1>m, <2>1
<1>n. rows # Tasks => NewId \in Tasks \ rows
  BY FreshId
<1>1. ASSUME NEW g \in Graphs, Step(g) \/ Raise(g) \/ Approve(g) \/ Crash(g) PROVE RowsFirst'
  <2>1. ASSUME NEW t \in Tasks, Fetch(g, t) PROVE RowsFirst'
    BY <2>1 DEF Fetch
  <2>2. ASSUME NEW n \in Lines, NEW mark \in BOOLEAN, StartPlan(g, n, mark) PROVE RowsFirst'
    BY <2>2 DEF StartPlan
  <2>3. CASE PlanParsed(g) \/ PlanFallback(g)
    <3>1. 1 \in Lines
      BY DEF Lines
    <3> QED
      BY <2>2, <2>3, <3>1 DEF PlanParsed, PlanFallback
  <2>4. CASE Claim(g)
    BY <2>4 DEF Claim
  <2>5. CASE ClaimLost(g)
    BY <2>5 DEF ClaimLost
  <2>6. CASE Single(g)
    BY <2>6 DEF Single
  <2>7. CASE Poll(g)
    BY <2>7 DEF Poll
  <2>8. CASE Work(g)
    BY <2>8 DEF Work
  <2>9. CASE Report(g)
    BY <2>9 DEF Report
  <2>10. CASE Ack(g)
    BY <2>10 DEF Ack
  <2>11. CASE Nak(g)
    BY <2>11 DEF Nak
  <2>a. CASE AnswerLost(g)
    BY <2>a DEF AnswerLost
  <2>12. CASE Raise(g)
    BY <2>12 DEF Raise
  <2>13. CASE Approve(g)
    BY <2>13 DEF Approve
  <2>14. CASE Crash(g)
    BY <2>14 DEF Crash
  <2>15. CASE EmitSubtask(g)
    <3>1. PICK i \in 1..plan[g].lines : Insert(g, i) /\ pc' \in [Graphs -> PCs]
      BY <2>15, Typed' DEF EmitSubtask, Unwritten
    <3>2. \A h \in Graphs \ {g} : pc'[h] = pc[h]
      BY <2>15 DEF EmitSubtask
    <3>3. UNCHANGED <<cur, stream, status>>
      BY <2>15 DEF EmitSubtask
    <3>4. /\ rows' = rows \union {NewId} /\ line' = [line EXCEPT ![NewId] = i]
          /\ NewId \in Tasks \ rows
      BY <3>1, <1>n DEF Insert
    <3>5. pc[g] = "emitting" /\ cur[g] \in rows
      BY <2>15 DEF EmitSubtask
    <3> QED
      BY <3>2, <3>3, <3>4, <3>5
  <2>16. CASE Replan(g)
    BY <2>16 DEF Replan, Insert
  <2>17. CASE EndScan(g)
    <3>1. pc[g] = "scanning" /\ \A h \in Graphs \ {g} : pc'[h] = pc[h]
      BY <2>17 DEF EndScan
    <3> QED
      BY <2>17, <3>1 DEF EndScan
  <2> QED
    BY <1>1, <2>1, <2>3, <2>4, <2>5, <2>6, <2>7, <2>8, <2>9, <2>10, <2>11, <2>12, <2>13, <2>14, <2>15, <2>16, <2>17, <2>a DEF Step, Node
<1>2. ASSUME NEW t \in Tasks, Publish(t) \/ AckWaitEnds(t) PROVE RowsFirst'
  <2>1. CASE Publish(t)
    BY <2>1 DEF Publish
  <2>2. CASE AckWaitEnds(t)
    BY <2>2 DEF AckWaitEnds
  <2> QED
    BY <1>2, <2>1, <2>2
<1>3. ASSUME NEW w \in Workers, NEW t \in Tasks, WorkerTakes(w, t) \/ WorkerDrops(w, t)
      PROVE  RowsFirst'
  <2>1. CASE WorkerTakes(w, t)
    BY <2>1 DEF WorkerTakes
  <2>2. CASE WorkerDrops(w, t)
    <3>1. \/ stream' = Queue!Remove(stream, t)
          \/ stream' = Queue!Deliver(stream, t)
      BY <2>2 DEF WorkerDrops
    <3>2. t \in rows
      BY <2>2 DEF WorkerDrops, Queue!Deliverable
    <3>3. \A m \in Tasks : stream'[m].state # "absent" => m \in rows
      BY <3>1, <3>2, <1>m
    <3> QED
      BY <2>2, <3>3 DEF WorkerDrops
  <2> QED
    BY <1>3, <2>1, <2>2
<1>4. ASSUME NEW w \in Workers, Finish(w) PROVE RowsFirst'
  <2>1. ASSUME NEW v \in {"done", "failed"}, NEW k \in {"PR_OPENED", "FAILED"},
               WorkerDecides(w, v, k)
        PROVE  RowsFirst'
    <3>1. \/ stream' = stream
          \/ stream' = Queue!Remove(stream, hand[w])
      BY <2>1 DEF WorkerDecides
    <3>2. hand[w] \in rows
      BY <2>1 DEF WorkerDecides
    <3>3. \A m \in Tasks : stream'[m].state # "absent" => m \in rows
      BY <3>1, <3>2, <1>m
    <3> QED
      BY <2>1, <3>2, <3>3 DEF WorkerDecides
  <2>2. CASE WorkerGivesBack(w)
    <3>1. \/ stream' = stream
          \/ stream' = Queue!Requeue(stream, hand[w])
      BY <2>2 DEF WorkerGivesBack
    <3>2. hand[w] \in rows
      BY <2>2 DEF WorkerGivesBack
    <3>3. \A m \in Tasks : stream'[m].state # "absent" => m \in rows
      BY <3>1, <3>2, <1>m
    <3> QED
      BY <2>2, <3>2, <3>3 DEF WorkerGivesBack
  <2> QED
    BY <1>4, <2>1, <2>2 DEF Finish
<1>5. ASSUME NEW w \in Workers, WorkerDies(w) PROVE RowsFirst'
  BY <1>5 DEF WorkerDies
<1>6. CASE UNCHANGED vars
  BY <1>6 DEF vars
<1> QED
  BY <1>1, <1>2, <1>3, <1>4, <1>5, <1>6 DEF Next, Server, Worker

\* Every step leaves a row to the one that works on it.
LEMMA StepOwners == Typed /\ RowsFirst /\ Owners /\ [Next]_vars => Owners'
<1> SUFFICES ASSUME Typed, RowsFirst, Owners, [Next]_vars PROVE Owners'
  OBVIOUS
<1> USE DEF Typed, TypeOK, Goto, Forget, NextTurn, board, tree, crew, graph, RowsFirst, Owners, Holding
<1>e. \A g \in Graphs : EndOfGraph(g) \notin Holding
  BY DEF EndOfGraph
<1>1. ASSUME NEW g \in Graphs, Step(g) \/ Raise(g) \/ Approve(g) \/ Crash(g) PROVE Owners'
  <2>1. ASSUME NEW t \in Tasks, Fetch(g, t) PROVE Owners'
    BY <2>1 DEF Fetch
  <2>2. ASSUME NEW n \in Lines, NEW mark \in BOOLEAN, StartPlan(g, n, mark) PROVE Owners'
    BY <2>2 DEF StartPlan
  <2>3. CASE PlanParsed(g) \/ PlanFallback(g)
    <3>1. 1 \in Lines
      BY DEF Lines
    <3> QED
      BY <2>2, <2>3, <3>1 DEF PlanParsed, PlanFallback
  <2>4. CASE ClaimLost(g)
    BY <2>4, <1>e DEF ClaimLost
  <2>5. CASE Single(g)
    BY <2>5 DEF Single
  <2>6. CASE EmitSubtask(g)
    BY <2>6 DEF EmitSubtask
  <2>7. CASE Poll(g)
    BY <2>7 DEF Poll
  <2>8. CASE Replan(g)
    BY <2>8 DEF Replan
  <2>9. CASE EndScan(g)
    BY <2>9 DEF EndScan
  <2>10. CASE Work(g)
    BY <2>10 DEF Work
  <2>11. CASE Ack(g)
    BY <2>11 DEF Ack
  <2>12. CASE Nak(g)
    BY <2>12 DEF Nak
  <2>a. CASE AnswerLost(g)
    BY <2>a DEF AnswerLost
  <2>13. CASE Raise(g)
    BY <2>13 DEF Raise
  <2>14. CASE Approve(g)
    BY <2>14 DEF Approve
  <2>15. CASE Crash(g)
    BY <2>15 DEF Crash
  <2>16. CASE Claim(g)
    <3>c. cur[g] \in Tasks /\ status[cur[g]] = "pending"
      BY <2>16 DEF Claim
    <3>1. \A h \in Graphs : pc[h] \in Holding => cur[h] # cur[g]
      BY <3>c
    <3>2. ASSUME NEW w \in Workers PROVE hand[w] # cur[g]
      <4>1. hand[w] # NoTask => status[hand[w]] = "claimed"
        OBVIOUS
      <4> QED
        BY <3>c, <4>1
    <3>3. ASSUME NEW h \in Graphs, pc'[h] \in Holding
          PROVE  status'[cur'[h]] = "claimed" /\ claimed_by'[cur'[h]] = h
      <4>1. CASE h = g
        BY <2>16, <3>c, <4>1 DEF Claim
      <4>2. CASE h # g
        BY <2>16, <3>1, <3>3, <4>2 DEF Claim
      <4> QED
        BY <4>1, <4>2
    <3>4. ASSUME NEW w \in Workers, hand'[w] # NoTask
          PROVE  status'[hand'[w]] = "claimed" /\ claimed_by'[hand'[w]] = w
      BY <2>16, <3>2, <3>4 DEF Claim
    <3> QED
      BY <3>3, <3>4
  <2>17. CASE Report(g)
    <3>1. /\ claimed_by' = claimed_by /\ cur' = cur /\ hand' = hand
          /\ pc[g] = "reporting"
          /\ status' = status \/ status' = [status EXCEPT ![cur[g]] = "done"]
      BY <2>17, Zenon DEF Report
    <3>3. cur[g] \in Tasks /\ claimed_by[cur[g]] = g
      BY <3>1
    <3>4. \A t \in Tasks \ {cur[g]} : status'[t] = status[t]
      BY <3>1
    <3>2. pc'[g] \notin Holding /\ \A h \in Graphs \ {g} : pc'[h] = pc[h]
      BY <2>17, <1>e DEF Report
    <3>5. ASSUME NEW h \in Graphs, pc'[h] \in Holding
          PROVE  status'[cur'[h]] = "claimed" /\ claimed_by'[cur'[h]] = h
      <4>1. h # g /\ pc[h] \in Holding
        BY <3>2, <3>5
      <4>2. cur[h] \in Tasks /\ status[cur[h]] = "claimed" /\ claimed_by[cur[h]] = h
        BY <4>1
      <4> QED
        BY <3>1, <3>3, <3>4, <4>1, <4>2
    <3>6. ASSUME NEW w \in Workers, hand'[w] # NoTask
          PROVE  status'[hand'[w]] = "claimed" /\ claimed_by'[hand'[w]] = w
      BY <3>1, <3>3, <3>4, <3>6
    <3> QED
      BY <3>5, <3>6
  <2> QED
    BY <1>1, <2>1, <2>3, <2>4, <2>5, <2>6, <2>7, <2>8, <2>9, <2>10, <2>11, <2>12, <2>13, <2>14, <2>15, <2>16, <2>17, <2>a DEF Step, Node
<1>2. ASSUME NEW t \in Tasks, Publish(t) \/ AckWaitEnds(t) PROVE Owners'
  <2>1. CASE Publish(t)
    BY <2>1 DEF Publish
  <2>2. CASE AckWaitEnds(t)
    BY <2>2 DEF AckWaitEnds
  <2> QED
    BY <1>2, <2>1, <2>2
<1>3. ASSUME NEW w \in Workers, NEW t \in Tasks, WorkerTakes(w, t) \/ WorkerDrops(w, t)
      PROVE  Owners'
  <2>1. CASE WorkerTakes(w, t)
    BY <2>1 DEF WorkerTakes
  <2>2. CASE WorkerDrops(w, t)
    BY <2>2 DEF WorkerDrops
  <2> QED
    BY <1>3, <2>1, <2>2
<1>4. ASSUME NEW w \in Workers, Finish(w) PROVE Owners'
  <2>1. ASSUME NEW v \in {"done", "failed"}, NEW k \in {"PR_OPENED", "FAILED"},
               WorkerDecides(w, v, k)
        PROVE  Owners'
    BY <2>1 DEF WorkerDecides
  <2>2. CASE WorkerGivesBack(w)
    BY <2>2 DEF WorkerGivesBack
  <2> QED
    BY <1>4, <2>1, <2>2 DEF Finish
<1>5. ASSUME NEW w \in Workers, WorkerDies(w) PROVE Owners'
  BY <1>5 DEF WorkerDies
<1>6. CASE UNCHANGED vars
  BY <1>6 DEF vars
<1> QED
  BY <1>1, <1>2, <1>3, <1>4, <1>5, <1>6 DEF Next, Server, Worker

\* A verdict is not changed.
FinalStays ==
  \A t \in Tasks : status[t] \in {"done", "failed"} => status'[t] = status[t]

\* No step changes a verdict.
LEMMA StepFinal == Basics /\ [Next]_vars => FinalStays
<1> SUFFICES ASSUME Basics, [Next]_vars PROVE FinalStays
  OBVIOUS
<1> USE DEF Typed, TypeOK, Goto, Forget, NextTurn, board, tree, crew, graph, Basics, RowsFirst, Owners, Holding,
           FinalStays
<1>1. ASSUME NEW g \in Graphs, Step(g) \/ Raise(g) \/ Approve(g) \/ Crash(g) PROVE FinalStays
  <2>1. ASSUME NEW t \in Tasks, Fetch(g, t) PROVE FinalStays
    BY <2>1 DEF Fetch
  <2>2. CASE ClaimLost(g) \/ Single(g) \/ PlanParsed(g) \/ PlanFallback(g) \/ Poll(g) \/ Replan(g)
    BY <2>2 DEF ClaimLost, Single, PlanParsed, PlanFallback, Poll, Replan, StartPlan
  <2>3. CASE EndScan(g) \/ Work(g) \/ Report(g) \/ Ack(g) \/ Nak(g) \/ AnswerLost(g) \/ Raise(g)
    BY <2>3 DEF EndScan, Work, Report, Ack, Nak, AnswerLost, Raise
  <2>4. CASE Approve(g) \/ Crash(g)
    BY <2>4 DEF Approve, Crash
  <2>5. CASE Claim(g)
    BY <2>5 DEF Claim
  <2>6. CASE EmitSubtask(g)
    BY <2>6 DEF EmitSubtask
  <2> QED
    BY <1>1, <2>1, <2>2, <2>3, <2>4, <2>5, <2>6 DEF Step, Node
<1>2. ASSUME NEW t \in Tasks, Publish(t) \/ AckWaitEnds(t) PROVE FinalStays
  BY <1>2 DEF Publish, AckWaitEnds
<1>3. ASSUME NEW w \in Workers, NEW t \in Tasks, WorkerTakes(w, t) \/ WorkerDrops(w, t)
      PROVE  FinalStays
  BY <1>3 DEF WorkerTakes, WorkerDrops
<1>4. ASSUME NEW w \in Workers, Finish(w) PROVE FinalStays
  BY <1>4 DEF Finish, WorkerDecides, WorkerGivesBack
<1>5. ASSUME NEW w \in Workers, WorkerDies(w) PROVE FinalStays
  BY <1>5 DEF WorkerDies
<1>6. CASE UNCHANGED vars
  BY <1>6 DEF vars
<1> QED
  BY <1>1, <1>2, <1>3, <1>4, <1>5, <1>6 DEF Next, Server, Worker

\* Process g writes a row for line i.
Grows(g, i) ==
  /\ pc[g] \in {"emitting", "scanning"} /\ pc'[g] \in Waiting
  /\ Insert(g, i)
  /\ UNCHANGED <<status, hand, cur>>

TreeStep == UNCHANGED tree \/ \E g \in Graphs, i \in Lines : Grows(g, i)

\* The plan node writes its rows one by one.
LEMMA GrowsHappens ==
  ASSUME Basics, NEW g \in Graphs, EmitSubtask(g) \/ Replan(g)
  PROVE  \E i \in Lines : Grows(g, i)
<1>1. PICK i \in 1..plan[g].lines : Insert(g, i)
  BY DEF EmitSubtask, Replan, Unwritten
<1>2. i \in Lines
  BY <1>1 DEF Basics, Typed, TypeOK, PlanType, Lines
<1>3. pc'[g] \in Waiting
  BY DEF EmitSubtask, Replan, Goto, Waiting, Basics, Typed, TypeOK
<1> QED
  BY <1>1, <1>2, <1>3 DEF EmitSubtask, Replan, Grows, board, crew

\* Only the plan node writes rows.
LEMMA StepTree == Basics /\ [Next]_vars => TreeStep
<1> SUFFICES ASSUME Basics, [Next]_vars PROVE TreeStep
  OBVIOUS
<1> USE DEF Goto, Forget, NextTurn, board, tree, crew, graph, Basics, Typed, TypeOK,
           TreeStep
<1>1. ASSUME NEW g \in Graphs, Step(g) \/ Raise(g) \/ Approve(g) \/ Crash(g) PROVE TreeStep
  <2>1. ASSUME NEW t \in Tasks, Fetch(g, t) PROVE TreeStep
    BY <2>1 DEF Fetch
  <2>2. CASE Claim(g) \/ ClaimLost(g) \/ Single(g) \/ PlanParsed(g) \/ PlanFallback(g) \/ Poll(g)
    BY <2>2 DEF Claim, ClaimLost, Single, PlanParsed, PlanFallback, Poll, StartPlan
  <2>3. CASE EndScan(g) \/ Work(g) \/ Report(g) \/ Ack(g) \/ Nak(g) \/ AnswerLost(g) \/ Raise(g)
    BY <2>3 DEF EndScan, Work, Report, Ack, Nak, AnswerLost, Raise
  <2>4. CASE Approve(g) \/ Crash(g)
    BY <2>4 DEF Approve, Crash
  <2>5. CASE EmitSubtask(g)
    BY <2>5, GrowsHappens
  <2>6. CASE Replan(g)
    BY <2>6, GrowsHappens
  <2> QED
    BY <1>1, <2>1, <2>2, <2>3, <2>4, <2>5, <2>6 DEF Step, Node
<1>2. ASSUME NEW t \in Tasks, Publish(t) \/ AckWaitEnds(t) PROVE TreeStep
  BY <1>2 DEF Publish, AckWaitEnds
<1>3. ASSUME NEW w \in Workers, NEW t \in Tasks, WorkerTakes(w, t) \/ WorkerDrops(w, t)
      PROVE  TreeStep
  BY <1>3 DEF WorkerTakes, WorkerDrops
<1>4. ASSUME NEW w \in Workers, Finish(w) PROVE TreeStep
  BY <1>4 DEF Finish, WorkerDecides, WorkerGivesBack
<1>5. ASSUME NEW w \in Workers, WorkerDies(w) PROVE TreeStep
  BY <1>5 DEF WorkerDies
<1>6. CASE UNCHANGED vars
  BY <1>6 DEF vars
<1> QED
  BY <1>1, <1>2, <1>3, <1>4, <1>5, <1>6 DEF Next, Server, Worker

\* What a written row is to the rest of the board.
Written(g, i, n) ==
  /\ n \in Tasks \ rows /\ rows' = rows \union {n}
  /\ parent'[n] = cur[g] /\ line'[n] = i
  /\ \A t \in rows : parent'[t] = parent[t] /\ line'[t] = line[t]
                     /\ parent[t] # n
  /\ status' = status /\ status[n] = "pending"
  /\ hand' = hand /\ cur' = cur
  /\ cur[g] \in rows /\ status[cur[g]] = "claimed" /\ claimed_by[cur[g]] = g

LEMMA GrowsWrites ==
  ASSUME Basics, NEW g \in Graphs, NEW i \in Lines, Grows(g, i)
  PROVE  \E n \in Tasks : n = NewId /\ Written(g, i, n)
<1> USE DEF Grows, Insert, Basics, Typed, TypeOK
<1>1. NewId \in Tasks \ rows /\ rows' = rows \union {NewId}
  BY FreshId
<1>2. pc[g] \in Holding /\ pc[g] \notin {"idle", "dead"}
  BY DEF Holding
<1>3. Written(g, i, NewId)
  BY <1>1, <1>2 DEF RowsFirst, Owners, Written
<1> QED
  BY <1>1, <1>3

\* Whoever else holds a row holds another one.
LEMMA OtherHands ==
  ASSUME Basics, NEW g \in Graphs, pc[g] \in Holding
  PROVE  /\ cur[g] \in rows
         /\ \A h \in Graphs : pc[h] \in Holding /\ h # g
                               => cur[h] # cur[g] /\ cur[h] \in rows
         /\ \A w \in Workers : hand[w] # cur[g]
<1>1. \A h \in Graphs : pc[h] \in Holding => pc[h] \notin {"idle", "dead"}
  BY DEF Holding
<1>2. cur[g] \in rows /\ NoTask \notin rows
  BY <1>1 DEF Basics, RowsFirst, Typed, TypeOK
<1> QED
  BY <1>1, <1>2 DEF Basics, RowsFirst, Owners

\* Every step leaves the rows that nobody plans without children.
LEMMA StepChildless == Basics /\ Basics' /\ ChildrenOfPlans /\ [Next]_vars => ChildrenOfPlans'
<1> SUFFICES ASSUME Basics, Basics', ChildrenOfPlans, [Next]_vars PROVE ChildrenOfPlans'
  OBVIOUS
<1> USE DEF Typed, TypeOK, Goto, Forget, NextTurn, board, tree, crew, graph, Basics, ChildrenOfPlans, Childless
<1>e. \A g \in Graphs : EndOfGraph(g) \in {"ended", "acking"}
  BY DEF EndOfGraph
<1>1. ASSUME NEW g \in Graphs, Step(g) \/ Raise(g) \/ Approve(g) \/ Crash(g) PROVE ChildrenOfPlans'
  <2>1. ASSUME NEW t \in Tasks, Fetch(g, t) PROVE ChildrenOfPlans'
    BY <2>1 DEF Fetch
  <2>2. ASSUME NEW n \in Lines, NEW mark \in BOOLEAN, StartPlan(g, n, mark) PROVE ChildrenOfPlans'
    BY <2>2 DEF StartPlan
  <2>3. CASE PlanParsed(g) \/ PlanFallback(g)
    <3>1. 1 \in Lines
      BY DEF Lines
    <3> QED
      BY <2>2, <2>3, <3>1 DEF PlanParsed, PlanFallback
  <2>4. CASE ClaimLost(g)
    BY <2>4, <1>e, ZenonT(30) DEF ClaimLost
  <2>5. CASE Single(g)
    BY <2>5 DEF Single
  <2>6. CASE Poll(g)
    BY <2>6 DEF Poll
  <2>7. CASE Work(g)
    BY <2>7 DEF Work
  <2>8. CASE Ack(g)
    BY <2>8 DEF Ack
  <2>9. CASE Nak(g)
    BY <2>9 DEF Nak
  <2>a. CASE AnswerLost(g)
    BY <2>a DEF AnswerLost
  <2>10. CASE Raise(g)
    BY <2>10 DEF Raise
  <2>11. CASE Approve(g)
    BY <2>11 DEF Approve
  <2>12. CASE Crash(g)
    BY <2>12 DEF Crash
  <2>13. CASE Claim(g)
    <3>1. cur[g] \in rows /\ Childless(cur[g])
      BY <2>13 DEF Claim
    <3>2. /\ hand' = hand /\ cur' = cur /\ UNCHANGED tree
          /\ \A t \in Tasks : status'[t] = "pending" => status[t] = "pending"
      BY <2>13 DEF Claim
    <3>3. \A h \in Graphs \ {g} : pc'[h] = pc[h]
      BY <2>13 DEF Claim
    <3> QED
      BY <3>1, <3>2, <3>3
  <2>14. CASE EmitSubtask(g)
    <3> HIDE DEF Basics, Typed, TypeOK, ChildrenOfPlans, Childless
    <3>1. PICK i \in Lines : Grows(g, i)
      BY <2>14, GrowsHappens DEF EmitSubtask
    <3>w. PICK n \in Tasks : Written(g, i, n)
      BY <3>1, GrowsWrites
    <3>o. pc[g] \in Holding
      BY <3>1 DEF Grows, Holding
    <3>2. ASSUME NEW t \in rows, t # cur[g], Childless(t) PROVE \A c \in rows' : parent'[c] # t
      BY <3>w, <3>2 DEF Written, Childless
    <3>3. \A c \in rows' : parent'[c] # n
      BY <3>w DEF Written, Childless
    <3>4. ASSUME NEW h \in Graphs, pc'[h] \in {"planning", "interrupted", "working"}
          PROVE  h # g /\ pc'[h] = pc[h] /\ cur[h] # cur[g] /\ cur[h] \in rows
      <4>1. h # g /\ pc'[h] = pc[h]
        BY <2>14, <3>4 DEF EmitSubtask, Basics, Typed, TypeOK
      <4> QED
        BY <4>1, <3>4, <3>o, OtherHands DEF Holding
    <3>5. ASSUME NEW t \in rows', status'[t] = "pending" PROVE \A c \in rows' : parent'[c] # t
      BY <3>w, <3>2, <3>3, <3>5 DEF Written, ChildrenOfPlans, Childless
    <3>6. ASSUME NEW w \in Workers, hand'[w] # NoTask PROVE \A c \in rows' : parent'[c] # hand'[w]
      <4>1. hand[w] \in rows /\ hand'[w] = hand[w] /\ hand[w] # cur[g]
        BY <3>w, <3>o, <3>6, OtherHands DEF Written, Basics, Typed, TypeOK
      <4> QED
        BY <3>2, <3>6, <4>1 DEF ChildrenOfPlans, Childless
    <3>7. ASSUME NEW h \in Graphs, pc'[h] \in {"planning", "interrupted", "working"}
          PROVE  \A c \in rows' : parent'[c] # cur'[h]
      BY <3>w, <3>2, <3>4, <3>7 DEF Written, ChildrenOfPlans, Childless
    <3> QED
      BY <3>5, <3>6, <3>7 DEF ChildrenOfPlans, Childless
  <2>15. CASE Replan(g)
    <3> HIDE DEF Basics, Typed, TypeOK, ChildrenOfPlans, Childless
    <3>1. PICK i \in Lines : Grows(g, i)
      BY <2>15, GrowsHappens DEF Replan
    <3>w. PICK n \in Tasks : Written(g, i, n)
      BY <3>1, GrowsWrites
    <3>o. pc[g] \in Holding
      BY <3>1 DEF Grows, Holding
    <3>2. ASSUME NEW t \in rows, t # cur[g], Childless(t) PROVE \A c \in rows' : parent'[c] # t
      BY <3>w, <3>2 DEF Written, Childless
    <3>3. \A c \in rows' : parent'[c] # n
      BY <3>w DEF Written, Childless
    <3>4. ASSUME NEW h \in Graphs, pc'[h] \in {"planning", "interrupted", "working"}
          PROVE  h # g /\ pc'[h] = pc[h] /\ cur[h] # cur[g] /\ cur[h] \in rows
      <4>1. h # g /\ pc'[h] = pc[h]
        BY <2>15, <3>4 DEF Replan, Basics, Typed, TypeOK
      <4> QED
        BY <4>1, <3>4, <3>o, OtherHands DEF Holding
    <3>5. ASSUME NEW t \in rows', status'[t] = "pending" PROVE \A c \in rows' : parent'[c] # t
      BY <3>w, <3>2, <3>3, <3>5 DEF Written, ChildrenOfPlans, Childless
    <3>6. ASSUME NEW w \in Workers, hand'[w] # NoTask PROVE \A c \in rows' : parent'[c] # hand'[w]
      <4>1. hand[w] \in rows /\ hand'[w] = hand[w] /\ hand[w] # cur[g]
        BY <3>w, <3>o, <3>6, OtherHands DEF Written, Basics, Typed, TypeOK
      <4> QED
        BY <3>2, <3>6, <4>1 DEF ChildrenOfPlans, Childless
    <3>7. ASSUME NEW h \in Graphs, pc'[h] \in {"planning", "interrupted", "working"}
          PROVE  \A c \in rows' : parent'[c] # cur'[h]
      BY <3>w, <3>2, <3>4, <3>7 DEF Written, ChildrenOfPlans, Childless
    <3> QED
      BY <3>5, <3>6, <3>7 DEF ChildrenOfPlans, Childless
  <2>16. CASE EndScan(g)
    <3>1. pc'[g] \in {"reporting", "polling"} /\ \A h \in Graphs \ {g} : pc'[h] = pc[h]
      BY <2>16 DEF EndScan
    <3> QED
      BY <2>16, <3>1, ZenonT(30) DEF EndScan
  <2>17. CASE Report(g)
    <3>1. /\ hand' = hand /\ cur' = cur /\ UNCHANGED tree
          /\ status' = status \/ status' = [status EXCEPT ![cur[g]] = "done"]
      BY <2>17, Zenon DEF Report
    <3>2. pc'[g] \in {"ended", "acking"} /\ \A h \in Graphs \ {g} : pc'[h] = pc[h]
      BY <2>17, <1>e DEF Report
    <3> QED
      BY <3>1, <3>2, ZenonT(30)
  <2> QED
    BY <1>1, <2>1, <2>3, <2>4, <2>5, <2>6, <2>7, <2>8, <2>9, <2>10, <2>11, <2>12, <2>13, <2>14, <2>15, <2>16, <2>17, <2>a DEF Step, Node
<1>2. ASSUME NEW t \in Tasks, Publish(t) \/ AckWaitEnds(t) PROVE ChildrenOfPlans'
  <2>1. CASE Publish(t)
    BY <2>1 DEF Publish
  <2>2. CASE AckWaitEnds(t)
    BY <2>2 DEF AckWaitEnds
  <2> QED
    BY <1>2, <2>1, <2>2
<1>3. ASSUME NEW w \in Workers, NEW t \in Tasks, WorkerTakes(w, t) \/ WorkerDrops(w, t)
      PROVE  ChildrenOfPlans'
  <2>1. CASE WorkerTakes(w, t)
    BY <2>1 DEF WorkerTakes
  <2>2. CASE WorkerDrops(w, t)
    BY <2>2 DEF WorkerDrops
  <2> QED
    BY <1>3, <2>1, <2>2
<1>4. ASSUME NEW w \in Workers, Finish(w) PROVE ChildrenOfPlans'
  <2>1. ASSUME NEW v \in {"done", "failed"}, NEW k \in {"PR_OPENED", "FAILED"},
               WorkerDecides(w, v, k)
        PROVE  ChildrenOfPlans'
    BY <2>1 DEF WorkerDecides
  <2>2. CASE WorkerGivesBack(w)
    BY <2>2 DEF WorkerGivesBack
  <2> QED
    BY <1>4, <2>1, <2>2 DEF Finish
<1>5. ASSUME NEW w \in Workers, WorkerDies(w) PROVE ChildrenOfPlans'
  BY <1>5 DEF WorkerDies
<1>6. CASE UNCHANGED vars
  BY <1>6 DEF vars
<1> QED
  BY <1>1, <1>2, <1>3, <1>4, <1>5, <1>6 DEF Next, Server, Worker

\* Every step leaves a process outside the loop without a plan.
LEMMA StepLocal == Basics /\ PlanLocal /\ [Next]_vars => PlanLocal'
<1> SUFFICES ASSUME Basics, PlanLocal, [Next]_vars PROVE PlanLocal'
  OBVIOUS
<1> USE DEF Goto, Forget, NextTurn, board, tree, crew, graph, Basics, Typed, TypeOK,
           PlanLocal, Waiting, EndOfGraph
<1>1. ASSUME NEW g \in Graphs, Step(g) \/ Raise(g) \/ Approve(g) \/ Crash(g) PROVE PlanLocal'
  <2>1. ASSUME NEW t \in Tasks, Fetch(g, t) PROVE PlanLocal'
    BY <2>1 DEF Fetch
  <2>2. CASE Claim(g) \/ ClaimLost(g) \/ Single(g) \/ PlanParsed(g) \/ PlanFallback(g) \/ Poll(g)
    BY <2>2, ZenonT(30) DEF Claim, ClaimLost, Single, PlanParsed, PlanFallback, Poll, StartPlan
  <2>3. CASE Replan(g) \/ Work(g) \/ Report(g) \/ Ack(g) \/ Nak(g) \/ AnswerLost(g) \/ Raise(g)
    BY <2>3 DEF Replan, Work, Report, Ack, Nak, AnswerLost, Raise
  <2>4. CASE Approve(g) \/ Crash(g)
    BY <2>4 DEF Approve, Crash
  <2>5. CASE EmitSubtask(g)
    <3>1. /\ pc[g] \in Waiting /\ pc'[g] \in Waiting
          /\ \A h \in Graphs \ {g} : pc'[h] = pc[h] /\ plan'[h] = plan[h]
      BY <2>5 DEF EmitSubtask
    <3> QED
      BY <3>1
  <2>6. CASE EndScan(g)
    <3>1. /\ pc'[g] \in Waiting \/ plan'[g] = NoPlan
          /\ \A h \in Graphs \ {g} : pc'[h] = pc[h] /\ plan'[h] = plan[h]
      BY <2>6 DEF EndScan
    <3> QED
      BY <3>1
  <2> QED
    BY <1>1, <2>1, <2>2, <2>3, <2>4, <2>5, <2>6 DEF Step, Node
<1>2. ASSUME NEW t \in Tasks, Publish(t) \/ AckWaitEnds(t) PROVE PlanLocal'
  BY <1>2 DEF Publish, AckWaitEnds
<1>3. ASSUME NEW w \in Workers, NEW t \in Tasks, WorkerTakes(w, t) \/ WorkerDrops(w, t)
      PROVE  PlanLocal'
  BY <1>3 DEF WorkerTakes, WorkerDrops
<1>4. ASSUME NEW w \in Workers, Finish(w) PROVE PlanLocal'
  BY <1>4 DEF Finish, WorkerDecides, WorkerGivesBack
<1>5. ASSUME NEW w \in Workers, WorkerDies(w) PROVE PlanLocal'
  BY <1>5 DEF WorkerDies
<1>6. CASE UNCHANGED vars
  BY <1>6 DEF vars
<1> QED
  BY <1>1, <1>2, <1>3, <1>4, <1>5, <1>6 DEF Next, Server, Worker

\* Every step keeps the verdicts read what the rows say.
LEMMA StepSeen == Basics /\ Basics' /\ SeenIsFinal /\ [Next]_vars => SeenIsFinal'
<1> SUFFICES ASSUME Basics, Basics', SeenIsFinal, [Next]_vars PROVE SeenIsFinal'
  OBVIOUS
<1> USE DEF Goto, Forget, NextTurn, board, tree, crew, graph, Basics, Typed, TypeOK,
           SeenIsFinal, EndOfGraph
<1>f. FinalStays
  BY StepFinal
<1> USE DEF FinalStays
<1>1. ASSUME NEW g \in Graphs, Step(g) \/ Raise(g) \/ Approve(g) \/ Crash(g) PROVE SeenIsFinal'
  <2>1. ASSUME NEW t \in Tasks, Fetch(g, t) PROVE SeenIsFinal'
    BY <2>1 DEF Fetch
  <2>2. ASSUME NEW n \in Lines, NEW mark \in BOOLEAN, StartPlan(g, n, mark) PROVE SeenIsFinal'
    BY <2>2 DEF StartPlan
  <2>3. CASE PlanParsed(g) \/ PlanFallback(g)
    <3>1. 1 \in Lines
      BY DEF Lines
    <3> QED
      BY <2>2, <2>3, <3>1 DEF PlanParsed, PlanFallback
  <2>4. CASE Claim(g)
    BY <2>4 DEF Claim
  <2>5. CASE ClaimLost(g)
    BY <2>5 DEF ClaimLost
  <2>6. CASE Single(g)
    BY <2>6 DEF Single
  <2>7. CASE EmitSubtask(g)
    BY <2>7 DEF EmitSubtask
  <2>8. CASE Poll(g)
    BY <2>8 DEF Poll
  <2>9. CASE Replan(g)
    BY <2>9 DEF Replan
  <2>10. CASE Work(g)
    BY <2>10 DEF Work
  <2>11. CASE Report(g)
    BY <2>11, <1>f DEF Report
  <2>12. CASE Ack(g)
    BY <2>12 DEF Ack
  <2>13. CASE Nak(g)
    BY <2>13 DEF Nak
  <2>a. CASE AnswerLost(g)
    BY <2>a DEF AnswerLost
  <2>14. CASE Raise(g)
    BY <2>14 DEF Raise
  <2>15. CASE Approve(g)
    BY <2>15 DEF Approve
  <2>16. CASE Crash(g)
    BY <2>16 DEF Crash
  <2>17. CASE EndScan(g)
    <3>1. /\ pc'[g] # "scanning" /\ status' = status
          /\ \A h \in Graphs \ {g} : pc'[h] = pc[h] /\ plan'[h] = plan[h]
      BY <2>17 DEF EndScan
    <3>2. ASSUME NEW h \in Graphs, pc'[h] = "scanning", NEW t \in Tasks,
                 plan'[h].seen[t] \in {"done", "failed"}
          PROVE  status'[t] = plan'[h].seen[t]
      <4>1. h # g
        BY <3>1, <3>2
      <4>2. pc[h] = "scanning" /\ plan'[h] = plan[h] /\ status'[t] = status[t]
        BY <3>1, <3>2, <4>1
      <4> QED
        BY <3>2, <4>2
    <3> QED
      BY <3>2
  <2> QED
    BY <1>1, <2>1, <2>3, <2>4, <2>5, <2>6, <2>7, <2>8, <2>9, <2>10, <2>11, <2>12, <2>13, <2>14, <2>15, <2>16, <2>17, <2>a DEF Step, Node
<1>2. ASSUME NEW t \in Tasks, Publish(t) \/ AckWaitEnds(t) PROVE SeenIsFinal'
  <2>1. CASE Publish(t)
    BY <2>1 DEF Publish
  <2>2. CASE AckWaitEnds(t)
    BY <2>2 DEF AckWaitEnds
  <2> QED
    BY <1>2, <2>1, <2>2
<1>3. ASSUME NEW w \in Workers, NEW t \in Tasks, WorkerTakes(w, t) \/ WorkerDrops(w, t)
      PROVE  SeenIsFinal'
  <2>1. CASE WorkerTakes(w, t)
    BY <2>1 DEF WorkerTakes
  <2>2. CASE WorkerDrops(w, t)
    BY <2>2 DEF WorkerDrops
  <2> QED
    BY <1>3, <2>1, <2>2
<1>4. ASSUME NEW w \in Workers, Finish(w) PROVE SeenIsFinal'
  <2>1. ASSUME NEW v \in {"done", "failed"}, NEW k \in {"PR_OPENED", "FAILED"},
               WorkerDecides(w, v, k)
        PROVE  SeenIsFinal'
    BY <2>1, <1>f DEF WorkerDecides
  <2>2. CASE WorkerGivesBack(w)
    BY <2>2, <1>f DEF WorkerGivesBack
  <2> QED
    BY <1>4, <2>1, <2>2 DEF Finish
<1>5. ASSUME NEW w \in Workers, WorkerDies(w) PROVE SeenIsFinal'
  BY <1>5 DEF WorkerDies
<1>6. CASE UNCHANGED vars
  BY <1>6 DEF vars
<1> QED
  BY <1>1, <1>2, <1>3, <1>4, <1>5, <1>6 DEF Next, Server, Worker

\* In a step that leaves g's plan alone, only others write rows.
Elsewhere(g) == UNCHANGED tree \/ \E h \in Graphs \ {g}, i \in Lines : Grows(h, i)

PlanKept(g) ==
  /\ pc[g] \in Waiting /\ (pc'[g] # "emitting" => pc[g] # "emitting")
  /\ cur'[g] = cur[g]
  /\ plan'[g].lines = plan[g].lines
  /\ plan'[g].ids = plan[g].ids
  /\ plan'[g].replanned = plan[g].replanned
  /\ Elsewhere(g)

PlanStarts(g) == \E n \in Lines, mark \in BOOLEAN : StartPlan(g, n, mark)

PlanChanges ==
  \A g \in Graphs : pc'[g] \in Waiting =>
    PlanKept(g) \/ PlanStarts(g) \/ EmitSubtask(g) \/ Replan(g)

\* A plan is kept, started, written or mended.
LEMMA StepPlans == Basics /\ [Next]_vars => PlanChanges
<1> SUFFICES ASSUME Basics, [Next]_vars PROVE PlanChanges
  OBVIOUS
<1> USE DEF Goto, Forget, NextTurn, board, tree, crew, graph, Basics, Typed, TypeOK,
           PlanChanges, Waiting, EndOfGraph
<1>k. ASSUME UNCHANGED tree, NEW g \in Graphs, pc[g] \in Waiting,
             pc'[g] = pc[g], cur'[g] = cur[g], plan'[g] = plan[g]
      PROVE  PlanKept(g)
  BY <1>k DEF PlanKept, Elsewhere
<1>o. ASSUME NEW g \in Graphs, UNCHANGED tree,
             PlanKept(g) \/ PlanStarts(g) \/ pc'[g] \notin Waiting,
             \A h \in Graphs \ {g} : pc'[h] = pc[h] /\ cur'[h] = cur[h]
                                     /\ plan'[h] = plan[h]
      PROVE  PlanChanges
  BY <1>o, <1>k
<1>1. ASSUME NEW g \in Graphs, Step(g) \/ Raise(g) \/ Approve(g) \/ Crash(g) PROVE PlanChanges
  <2>1. ASSUME NEW t \in Tasks, Fetch(g, t) PROVE PlanChanges
    BY <2>1, <1>k DEF Fetch
  <2>2. ASSUME NEW n \in Lines, NEW mark \in BOOLEAN, StartPlan(g, n, mark) PROVE PlanChanges
    <3>1. PlanStarts(g)
      BY <2>2 DEF PlanStarts
    <3> QED
      BY <2>2, <3>1, <1>o DEF StartPlan
  <2>3. CASE PlanParsed(g) \/ PlanFallback(g)
    <3>1. 1 \in Lines
      BY DEF Lines
    <3> QED
      BY <2>2, <2>3, <3>1 DEF PlanParsed, PlanFallback
  <2>4. CASE Claim(g) \/ ClaimLost(g) \/ Single(g) \/ Work(g) \/ Report(g) \/ Ack(g)
    BY <2>4, <1>k DEF Claim, ClaimLost, Single, Work, Report, Ack
  <2>5. CASE Nak(g) \/ AnswerLost(g) \/ Approve(g)
    BY <2>5, <1>k, ZenonT(30) DEF Nak, AnswerLost, Approve
  <2>6. CASE EmitSubtask(g)
    <3>1. \E i \in Lines : Grows(g, i)
      BY <2>6, GrowsHappens
    <3>2. ASSUME NEW h \in Graphs, h # g, pc'[h] \in Waiting PROVE PlanKept(h)
      <4>1. Elsewhere(h)
        BY <3>1, <3>2 DEF Elsewhere
      <4>2. pc'[h] = pc[h] /\ cur'[h] = cur[h] /\ plan'[h] = plan[h]
        BY <2>6, <3>2 DEF EmitSubtask
      <4> QED
        BY <3>2, <4>1, <4>2 DEF PlanKept
    <3> QED
      BY <2>6, <3>2
  <2>7. CASE Poll(g)
    <3>1. PlanKept(g)
      BY <2>7 DEF Poll, PlanKept, Elsewhere
    <3> QED
      BY <2>7, <3>1, <1>o DEF Poll
  <2>8. CASE Replan(g)
    <3>1. \E i \in Lines : Grows(g, i)
      BY <2>8, GrowsHappens
    <3>2. ASSUME NEW h \in Graphs, h # g, pc'[h] \in Waiting PROVE PlanKept(h)
      <4>1. Elsewhere(h)
        BY <3>1, <3>2 DEF Elsewhere
      <4>2. pc'[h] = pc[h] /\ cur'[h] = cur[h] /\ plan'[h] = plan[h]
        BY <2>8, <3>2 DEF Replan
      <4> QED
        BY <3>2, <4>1, <4>2 DEF PlanKept
    <3> QED
      BY <2>8, <3>2
  <2>9. CASE EndScan(g)
    <3>1. CASE AllDone(g) \/ GivesUp(g)
      BY <2>9, <3>1, <1>o, ZenonT(30) DEF EndScan
    <3>2. CASE ~(AllDone(g) \/ GivesUp(g))
      <4>1. PlanKept(g)
        <5>1. /\ pc[g] = "scanning" /\ cur' = cur /\ UNCHANGED tree
              /\ plan' = [plan EXCEPT ![g].seen = NoPlan.seen]
          BY <2>9, <3>2, Zenon DEF EndScan
        <5> QED
          BY <5>1 DEF PlanKept, Elsewhere
      <4> QED
        BY <2>9, <3>2, <4>1, <1>o DEF EndScan
    <3> QED
      BY <3>1, <3>2
  <2>10. CASE Raise(g)
    <3>1. pc'[g] \notin Waiting
      BY <2>10 DEF Raise
    <3> QED
      BY <2>10, <3>1, <1>o DEF Raise
  <2>11. CASE Crash(g)
    <3>1. pc'[g] \notin Waiting
      BY <2>11 DEF Crash
    <3> QED
      BY <2>11, <3>1, <1>o DEF Crash
  <2> QED
    BY <1>1, <2>1, <2>3, <2>4, <2>5, <2>6, <2>7, <2>8, <2>9, <2>10, <2>11 DEF Step, Node
<1>2. ASSUME NEW t \in Tasks, Publish(t) \/ AckWaitEnds(t) PROVE PlanChanges
  BY <1>2, <1>k DEF Publish, AckWaitEnds
<1>3. ASSUME NEW w \in Workers, NEW t \in Tasks, WorkerTakes(w, t) \/ WorkerDrops(w, t)
      PROVE  PlanChanges
  BY <1>3, <1>k DEF WorkerTakes, WorkerDrops
<1>4. ASSUME NEW w \in Workers, Finish(w) PROVE PlanChanges
  BY <1>4, <1>k DEF Finish, WorkerDecides, WorkerGivesBack
<1>5. ASSUME NEW w \in Workers, WorkerDies(w) PROVE PlanChanges
  BY <1>5, <1>k DEF WorkerDies
<1>6. CASE UNCHANGED vars
  BY <1>6, <1>k DEF vars
<1> QED
  BY <1>1, <1>2, <1>3, <1>4, <1>5, <1>6 DEF Next, Server, Worker

LEMMA TreeKept ==
  ASSUME Basics, Basics', FinalStays, NEW g \in Graphs, PlanIsTree(g), PlanKept(g)
  PROVE  PlanIsTree(g)'
<1>1. \A i \in Lines : plan[g].ids[i] \in rows \union {NoTask}
  BY DEF Basics, Typed, TypeOK, PlanType
<1>2. CASE UNCHANGED tree
  BY <1>1, <1>2 DEF PlanIsTree, PlanKept, tree, FinalStays, Basics, Typed, TypeOK
<1>3. ASSUME NEW h \in Graphs \ {g}, NEW i \in Lines, Grows(h, i)
      PROVE  PlanIsTree(g)'
  <2>1. PICK n \in Tasks : Written(h, i, n)
    BY <1>3, GrowsWrites
  <2>2. pc[g] \in Holding /\ pc[h] \in Holding
    BY <1>3 DEF Grows, PlanKept, Waiting, Holding
  <2>3. cur[h] # cur[g]
    BY <2>2, OtherHands
  <2> QED
    BY <1>1, <2>1, <2>3 DEF PlanIsTree, PlanKept, Written
<1> QED
  BY <1>2, <1>3 DEF PlanKept, Elsewhere

LEMMA TreeStarts ==
  ASSUME Basics, PlanLocal, ChildrenOfPlans, NEW g \in Graphs, PlanStarts(g)
  PROVE  PlanIsTree(g)'
<1>1. PICK n \in Lines, mark \in BOOLEAN : StartPlan(g, n, mark)
  BY DEF PlanStarts
<1>2. plan[g] = NoPlan /\ Childless(cur[g])
  BY <1>1 DEF StartPlan, PlanLocal, ChildrenOfPlans, Waiting
<1>3. /\ plan'[g].ids = NoPlan.ids /\ pc'[g] = "emitting"
      /\ rows' = rows /\ parent' = parent /\ cur' = cur
  BY <1>1, <1>2 DEF StartPlan, Goto, tree, Basics, Typed, TypeOK
<1>4. \A i \in Lines : plan'[g].ids[i] = NoTask
  BY <1>3 DEF NoPlan
<1> QED
  BY <1>2, <1>3, <1>4 DEF PlanIsTree, Childless

\* The first line without a subtask gets one.
LEMMA TreeEmits ==
  ASSUME Basics, NEW g \in Graphs, PlanIsTree(g), EmitSubtask(g)
  PROVE  PlanIsTree(g)'
<1>t. plan \in [Graphs -> PlanType] /\ plan[g] \in PlanType /\ pc \in [Graphs -> PCs]
  BY DEF Basics, Typed, TypeOK
<1>1. PICK i \in Unwritten(g) :
        /\ Insert(g, i)
        /\ plan' = [plan EXCEPT ![g].ids[i] = NewId]
        /\ pc' = [pc EXCEPT ![g] = IF Unwritten(g) = {i} THEN "polling" ELSE "emitting"]
  BY DEF EmitSubtask, Goto
<1>2. i \in Lines /\ i <= plan[g].lines /\ plan[g].ids[i] = NoTask
  BY <1>1, <1>t DEF Unwritten, PlanType, Lines
<1>3. Grows(g, i)
  BY <1>1 DEF EmitSubtask, Grows, board, crew, Waiting
<1>4. PICK n \in Tasks : n = NewId /\ Written(g, i, n)
  BY <1>2, <1>3, GrowsWrites
<1>5. /\ plan'[g].lines = plan[g].lines /\ plan'[g].replanned = plan[g].replanned
      /\ plan'[g].ids = [plan[g].ids EXCEPT ![i] = n]
  BY <1>1, <1>4, <1>t DEF PlanType
<1>6. /\ plan[g].ids \in [Lines -> rows \union {NoTask}]
      /\ plan[g].replanned \subseteq rows /\ plan[g].lines \in 0..MaxLines
  BY <1>t DEF PlanType
<1>7. pc'[g] # "emitting" => \A j \in 1..plan[g].lines : j = i \/ plan[g].ids[j] # NoTask
  BY <1>1, <1>t DEF Unwritten
<1>8. NoTask \notin Tasks /\ rows \subseteq Tasks
  BY DEF Basics, Typed, TypeOK
<1>a. ASSUME NEW j \in Lines, plan'[g].ids[j] # NoTask
      PROVE  /\ j <= plan'[g].lines
             /\ parent'[plan'[g].ids[j]] = cur'[g]
             /\ line'[plan'[g].ids[j]] = j
             /\ plan'[g].ids[j] \notin plan'[g].replanned
  BY <1>a, <1>2, <1>4, <1>5, <1>6, <1>8 DEF PlanIsTree, Written
<1>b. ASSUME NEW c \in rows', parent'[c] = cur'[g]
      PROVE  /\ line'[c] \in Lines
             /\ plan'[g].ids[line'[c]] # NoTask
             /\ c = plan'[g].ids[line'[c]] \/ status'[c] = "failed"
  BY <1>b, <1>2, <1>4, <1>5, <1>6, <1>8 DEF PlanIsTree, Written
<1>c. ASSUME NEW j \in 1..plan'[g].lines, pc'[g] # "emitting"
      PROVE  plan'[g].ids[j] # NoTask
  BY <1>c, <1>2, <1>4, <1>5, <1>6, <1>7, <1>8 DEF Lines
<1> QED
  BY <1>a, <1>b, <1>c DEF PlanIsTree

\* A subtask that failed leaves its line to a new one.
LEMMA TreeReplans ==
  ASSUME Basics, SeenIsFinal, NEW g \in Graphs, PlanIsTree(g), Replan(g)
  PROVE  PlanIsTree(g)'
<1>t. plan \in [Graphs -> PlanType] /\ plan[g] \in PlanType
  BY DEF Basics, Typed, TypeOK
<1>1. PICK i \in 1..plan[g].lines :
        /\ plan[g].ids[i] \in ToReplan(g)
        /\ Insert(g, i)
        /\ plan' = [plan EXCEPT ![g].ids[i] = NewId,
                                ![g].replanned = @ \union {plan[g].ids[i]}]
  BY DEF Replan
<1>2. i \in Lines
  BY <1>1, <1>t DEF PlanType, Lines
<1>3. Grows(g, i) /\ pc' = pc /\ pc[g] = "scanning"
  BY <1>1 DEF Replan, Grows, board, crew, Waiting
<1>4. PICK n \in Tasks : n = NewId /\ Written(g, i, n)
  BY <1>2, <1>3, GrowsWrites
<1>5. /\ plan'[g].lines = plan[g].lines
      /\ plan'[g].replanned = plan[g].replanned \union {plan[g].ids[i]}
      /\ plan'[g].ids = [plan[g].ids EXCEPT ![i] = n]
  BY <1>1, <1>4, <1>t DEF PlanType
<1>6. /\ plan[g].ids \in [Lines -> rows \union {NoTask}]
      /\ plan[g].replanned \subseteq rows /\ plan[g].lines \in 0..MaxLines
  BY <1>t DEF PlanType
<1>7. plan[g].ids[i] \in Tasks /\ status[plan[g].ids[i]] = "failed"
  BY <1>1, <1>3 DEF ToReplan, Failed, SeenIsFinal
<1>8. NoTask \notin Tasks /\ rows \subseteq Tasks
  BY DEF Basics, Typed, TypeOK
<1>a. ASSUME NEW j \in Lines, plan'[g].ids[j] # NoTask
      PROVE  /\ j <= plan'[g].lines
             /\ parent'[plan'[g].ids[j]] = cur'[g]
             /\ line'[plan'[g].ids[j]] = j
             /\ plan'[g].ids[j] \notin plan'[g].replanned
  <2>1. CASE j = i
    <3>1. plan'[g].ids[j] = n /\ plan[g].ids[i] \in rows
      BY <2>1, <1>2, <1>5, <1>6, <1>7, <1>8
    <3>2. plan'[g].replanned \subseteq rows
      BY <3>1, <1>5, <1>6
    <3>3. j <= plan'[g].lines
      BY <2>1, <1>1, <1>5
    <3> QED
      BY <2>1, <3>1, <3>2, <3>3, <1>4 DEF Written
  <2>2. CASE j # i
    BY <2>2, <1>a, <1>2, <1>4, <1>5, <1>6, <1>7, <1>8 DEF PlanIsTree, Written
  <2> QED
    BY <2>1, <2>2
<1>b. ASSUME NEW c \in rows', parent'[c] = cur'[g]
      PROVE  /\ line'[c] \in Lines
             /\ plan'[g].ids[line'[c]] # NoTask
             /\ c = plan'[g].ids[line'[c]] \/ status'[c] = "failed"
  <2>1. CASE c = n
    BY <2>1, <1>2, <1>4, <1>5, <1>6, <1>8 DEF Written
  <2>2. CASE c # n
    BY <2>2, <1>b, <1>2, <1>4, <1>5, <1>6, <1>7, <1>8 DEF PlanIsTree, Written
  <2> QED
    BY <2>1, <2>2
<1>c. ASSUME NEW j \in 1..plan'[g].lines
      PROVE  plan'[g].ids[j] # NoTask
  BY <1>c, <1>2, <1>3, <1>4, <1>5, <1>6, <1>8 DEF Lines, PlanIsTree
<1> QED
  BY <1>a, <1>b, <1>c DEF PlanIsTree

\* Every step keeps a plan and its task's children in step.
LEMMA StepTrees == Basics /\ Basics' /\ Plans /\ [Next]_vars => Trees'
<1> SUFFICES ASSUME Basics, Basics', Plans, [Next]_vars,
                    NEW g \in Graphs, pc'[g] \in Waiting
             PROVE  PlanIsTree(g)'
  BY DEF Trees
<1>1. FinalStays
  BY StepFinal
<1>2. CASE PlanKept(g)
  BY <1>1, <1>2, TreeKept DEF Plans, Trees, PlanKept
<1>3. CASE PlanStarts(g)
  BY <1>3, TreeStarts DEF Plans
<1>4. CASE EmitSubtask(g)
  BY <1>4, TreeEmits DEF Plans, Trees, EmitSubtask, Waiting
<1>5. CASE Replan(g)
  BY <1>5, TreeReplans DEF Plans, Trees, Replan, Waiting
<1> QED
  BY <1>2, <1>3, <1>4, <1>5, StepPlans DEF PlanChanges

\* The rows of a task whose subtasks are done are not added to.
LEMMA SettledStays ==
  ASSUME Basics, Basics', FinalStays, TreeStep, NEW t \in rows, Settled(t),
         \A g \in Graphs : pc[g] \in {"emitting", "scanning"} => cur[g] # t
  PROVE  Settled(t)'
<1> USE DEF Settled, Children
<1>1. CASE UNCHANGED tree
  BY <1>1 DEF tree, FinalStays, Basics, Typed, TypeOK
<1>2. ASSUME NEW g \in Graphs, NEW i \in Lines, Grows(g, i) PROVE Settled(t)'
  <2>1. PICK n \in Tasks : Written(g, i, n)
    BY <1>2, GrowsWrites
  <2>2. cur[g] # t
    BY <1>2 DEF Grows
  <2>3. \A c \in rows' : parent'[c] = t => c \in rows /\ parent[c] = t
    BY <2>1, <2>2 DEF Written
  <2> QED
    BY <2>1, <2>3 DEF Written
<1> QED
  BY <1>1, <1>2 DEF TreeStep

\* A process gets to its report from the work, or from a plan that is over.
ReportSteps ==
  \A g \in Graphs : pc'[g] = "reporting" =>
    \/ pc[g] = "reporting" /\ cur'[g] = cur[g] /\ (g \in done => g \in done')
    \/ Work(g) \/ EndScan(g)

\* A process gets to its report from the work, or from a plan that is over.
LEMMA StepReports == Basics /\ [Next]_vars => ReportSteps
<1> SUFFICES ASSUME Basics, [Next]_vars PROVE ReportSteps
  OBVIOUS
<1> USE DEF Goto, Forget, NextTurn, board, tree, crew, graph, Basics, Typed, TypeOK,
           ReportSteps, EndOfGraph
<1>1. ASSUME NEW g \in Graphs, Step(g) \/ Raise(g) \/ Approve(g) \/ Crash(g) PROVE ReportSteps
  <2>1. ASSUME NEW t \in Tasks, Fetch(g, t) PROVE ReportSteps
    BY <2>1 DEF Fetch
  <2>2. CASE Claim(g) \/ ClaimLost(g) \/ Single(g) \/ PlanParsed(g) \/ PlanFallback(g) \/ Poll(g)
    BY <2>2, ZenonT(30) DEF Claim, ClaimLost, Single, PlanParsed, PlanFallback, Poll, StartPlan
  <2>3. CASE Replan(g) \/ EndScan(g) \/ Work(g) \/ Report(g) \/ Ack(g) \/ Nak(g) \/ AnswerLost(g)
    BY <2>3 DEF Replan, EndScan, Work, Report, Ack, Nak, AnswerLost
  <2>4. CASE Raise(g) \/ Approve(g) \/ Crash(g)
    BY <2>4 DEF Raise, Approve, Crash
  <2>5. CASE EmitSubtask(g)
    <3>1. pc'[g] # "reporting" /\ done' = done /\ cur' = cur
          /\ \A h \in Graphs \ {g} : pc'[h] = pc[h]
      BY <2>5 DEF EmitSubtask
    <3> QED
      BY <3>1
  <2> QED
    BY <1>1, <2>1, <2>2, <2>3, <2>4, <2>5 DEF Step, Node
<1>2. ASSUME NEW t \in Tasks, Publish(t) \/ AckWaitEnds(t) PROVE ReportSteps
  BY <1>2 DEF Publish, AckWaitEnds
<1>3. ASSUME NEW w \in Workers, NEW t \in Tasks, WorkerTakes(w, t) \/ WorkerDrops(w, t)
      PROVE  ReportSteps
  BY <1>3 DEF WorkerTakes, WorkerDrops
<1>4. ASSUME NEW w \in Workers, Finish(w) PROVE ReportSteps
  BY <1>4 DEF Finish, WorkerDecides, WorkerGivesBack
<1>5. ASSUME NEW w \in Workers, WorkerDies(w) PROVE ReportSteps
  BY <1>5 DEF WorkerDies
<1>6. CASE UNCHANGED vars
  BY <1>6 DEF vars
<1> QED
  BY <1>1, <1>2, <1>3, <1>4, <1>5, <1>6 DEF Next, Server, Worker

\* The plan that is over has a subtask that is done for each of its lines.
LEMMA PlanDone ==
  ASSUME Basics, Plans, NEW g \in Graphs, EndScan(g), pc'[g] = "reporting"
  PROVE  g \in done' /\ Settled(cur[g])
<1>1. pc[g] = "scanning" /\ PlanIsTree(g)
  BY DEF EndScan, Plans, Trees, Waiting
<1>t. plan[g] \in PlanType /\ pc \in [Graphs -> PCs] /\ NoTask \notin Tasks
      /\ rows \subseteq Tasks
  BY DEF Basics, Typed, TypeOK
<1>2. \A i \in 1..plan[g].lines : i \in Lines
  BY <1>t DEF PlanType, Lines
<1>3. ~GivesUp(g)
  <2> SUFFICES ASSUME NEW i \in 1..plan[g].lines, plan[g].ids[i] \in Failed(g)
               PROVE  plan[g].ids[i] \notin plan[g].replanned
    BY DEF GivesUp, Ids
  <2>1. plan[g].ids[i] # NoTask
    BY <1>t DEF Failed
  <2> QED
    BY <1>1, <1>2, <2>1 DEF PlanIsTree
<1>4. AllDone(g)
  <2> SUFFICES ASSUME ~AllDone(g) PROVE pc'[g] # "reporting"
    OBVIOUS
  <2>1. pc' = [pc EXCEPT ![g] = "polling"]
    BY <1>3, Zenon DEF EndScan, Goto
  <2> QED
    BY <2>1, <1>t
<1>5. \A i \in 1..plan[g].lines :
        plan[g].ids[i] \in rows /\ status[plan[g].ids[i]] = "done"
  <2> SUFFICES ASSUME NEW i \in 1..plan[g].lines
               PROVE  plan[g].ids[i] \in rows /\ status[plan[g].ids[i]] = "done"
    OBVIOUS
  <2>1. plan[g].ids[i] \in rows
    BY <1>1, <1>2, <1>t DEF PlanIsTree, PlanType
  <2>2. plan[g].seen[plan[g].ids[i]] = "done"
    BY <1>4 DEF AllDone, Ids
  <2> QED
    BY <1>1, <1>t, <2>1, <2>2 DEF Plans, SeenIsFinal
<1>6. Settled(cur[g])
  <2> SUFFICES ASSUME NEW c \in rows, parent[c] = cur[g]
               PROVE  \E k \in rows : /\ parent[k] = cur[g] /\ line[k] = line[c]
                                      /\ status[k] = "done"
    BY DEF Settled, Children
  <2>1. /\ line[c] \in Lines /\ plan[g].ids[line[c]] # NoTask
        /\ line[c] <= plan[g].lines
        /\ parent[plan[g].ids[line[c]]] = cur[g]
        /\ line[plan[g].ids[line[c]]] = line[c]
    BY <1>1 DEF PlanIsTree
  <2>2. line[c] \in 1..plan[g].lines
    BY <2>1 DEF Lines, PlanType
  <2> QED
    BY <2>1, <2>2, <1>5
<1>7. g \in done'
  BY <1>4 DEF EndScan
<1> QED
  BY <1>6, <1>7

\* Every step brings a process to its report with nothing left to do.
LEMMA StepReady == Inv /\ Basics' /\ [Next]_vars => ReportReady'
<1> SUFFICES ASSUME Inv, Basics', [Next]_vars, NEW g \in Graphs, pc'[g] = "reporting"
             PROVE  g \in done' /\ Settled(cur[g])'
  BY DEF ReportReady
<1> USE DEF Inv
<1>1. FinalStays /\ TreeStep
  BY StepFinal, StepTree
<1>2. PICK t : t = cur[g] /\ t \in rows
  <2>1. pc[g] \notin {"idle", "dead"}
    BY StepReports DEF ReportSteps, Work, EndScan
  <2> QED
    BY <2>1 DEF Basics, RowsFirst
<1>3. cur'[g] = t
  BY <1>2, StepReports DEF ReportSteps, Work, EndScan
<1>4. g \in done' /\ Settled(t)
  <2>1. CASE pc[g] = "reporting" /\ (g \in done => g \in done')
    BY <1>2, <2>1 DEF Results, ReportReady
  <2>2. CASE Work(g)
    BY <1>2, <2>2 DEF Work, Plans, ChildrenOfPlans, Childless, Settled, Children
  <2>3. CASE EndScan(g)
    BY <1>2, <2>3, PlanDone
  <2> QED
    BY <2>1, <2>2, <2>3, StepReports DEF ReportSteps
<1>5. Settled(t)'
  <2>1. CASE UNCHANGED tree
    BY <1>1, <1>4, <2>1 DEF Settled, Children, tree, FinalStays, Basics, Typed, TypeOK
  <2>2. CASE ~UNCHANGED tree
    <3>1. pc[g] \in Holding /\ pc[g] \notin {"emitting", "scanning"}
      BY <2>2, StepReports DEF ReportSteps, Work, EndScan, Holding
    <3>2. \A f \in Graphs : pc[f] \in {"emitting", "scanning"} => cur[f] # t
      BY <1>2, <3>1, OtherHands DEF Holding
    <3> QED
      BY <1>1, <1>2, <1>4, <3>2, SettledStays
  <2> QED
    BY <2>1, <2>2
<1>6. Settled(cur[g])'
  BY <1>3, <1>5 DEF Settled, Children
<1> QED
  BY <1>4, <1>6

\* Every step leaves one subtask of a line that has not failed.
LEMMA StepOneLive ==
  Basics /\ Basics' /\ Trees' /\ OneLivePerLine /\ [Next]_vars => OneLivePerLine'
<1> SUFFICES ASSUME Basics, Basics', Trees', OneLivePerLine, [Next]_vars,
                    NEW c \in rows', NEW d \in rows',
                    parent'[c] = parent'[d], line'[c] = line'[d], line'[c] # 0,
                    status'[c] # "failed", status'[d] # "failed"
             PROVE  c = d
  BY DEF OneLivePerLine
<1>1. FinalStays /\ TreeStep
  BY StepFinal, StepTree
<1>2. rows' \subseteq Tasks
  BY DEF Basics, Typed, TypeOK
<1>3. status[c] # "failed" /\ status[d] # "failed"
  BY <1>1, <1>2 DEF FinalStays
<1>4. CASE UNCHANGED tree
  BY <1>3, <1>4 DEF OneLivePerLine, tree
<1>5. ASSUME NEW g \in Graphs, NEW i \in Lines, Grows(g, i) PROVE c = d
  <2>1. PICK n \in Tasks : Written(g, i, n)
    BY <1>5, GrowsWrites
  <2>2. PlanIsTree(g)'
    BY <1>5 DEF Grows, Trees
  <2>3. CASE c # n /\ d # n
    BY <1>3, <2>1, <2>3 DEF Written, OneLivePerLine
  <2>4. CASE c = n \/ d = n
    <3>1. parent'[c] = cur'[g] /\ parent'[d] = cur'[g]
      BY <2>1, <2>4 DEF Written
    <3> QED
      BY <2>2, <3>1 DEF PlanIsTree
  <2> QED
    BY <2>3, <2>4
<1> QED
  BY <1>1, <1>4, <1>5 DEF TreeStep

\* A row is done by a report, or by the plain worker that holds it.
DoneSteps ==
  \A t \in Tasks : status[t] # "done" /\ status'[t] = "done" =>
    /\ UNCHANGED tree
    /\ \/ \E g \in Graphs : pc[g] = "reporting" /\ cur[g] = t
       \/ \E w \in Workers : hand[w] = t

\* A row is done by a report, or by the plain worker that holds it.
LEMMA StepDone == Basics /\ [Next]_vars => DoneSteps
<1> SUFFICES ASSUME Basics, [Next]_vars PROVE DoneSteps
  OBVIOUS
<1> USE DEF Goto, Forget, NextTurn, board, tree, crew, graph, Basics, Typed, TypeOK,
           DoneSteps
<1>1. ASSUME NEW g \in Graphs, Step(g) \/ Raise(g) \/ Approve(g) \/ Crash(g) PROVE DoneSteps
  <2>1. ASSUME NEW t \in Tasks, Fetch(g, t) PROVE DoneSteps
    BY <2>1 DEF Fetch
  <2>2. CASE Claim(g) \/ ClaimLost(g) \/ Single(g) \/ PlanParsed(g) \/ PlanFallback(g) \/ EmitSubtask(g)
    BY <2>2 DEF Claim, ClaimLost, Single, PlanParsed, PlanFallback, EmitSubtask, StartPlan
  <2>3. CASE Poll(g) \/ Replan(g) \/ EndScan(g) \/ Work(g) \/ Report(g) \/ Ack(g)
    BY <2>3 DEF Poll, Replan, EndScan, Work, Report, Ack
  <2>4. CASE Nak(g) \/ AnswerLost(g) \/ Raise(g) \/ Approve(g) \/ Crash(g)
    BY <2>4 DEF Nak, AnswerLost, Raise, Approve, Crash
  <2> QED
    BY <1>1, <2>1, <2>2, <2>3, <2>4 DEF Step, Node
<1>2. ASSUME NEW t \in Tasks, Publish(t) \/ AckWaitEnds(t) PROVE DoneSteps
  BY <1>2 DEF Publish, AckWaitEnds
<1>3. ASSUME NEW w \in Workers, NEW t \in Tasks, WorkerTakes(w, t) \/ WorkerDrops(w, t)
      PROVE  DoneSteps
  BY <1>3 DEF WorkerTakes, WorkerDrops
<1>4. ASSUME NEW w \in Workers, Finish(w) PROVE DoneSteps
  BY <1>4 DEF Finish, WorkerDecides, WorkerGivesBack
<1>5. ASSUME NEW w \in Workers, WorkerDies(w) PROVE DoneSteps
  BY <1>5 DEF WorkerDies
<1>6. CASE UNCHANGED vars
  BY <1>6 DEF vars
<1> QED
  BY <1>1, <1>2, <1>3, <1>4, <1>5, <1>6 DEF Next, Server, Worker

\* Every step leaves the rows that are done with subtasks that are.
LEMMA StepDoneBy ==
  Inv /\ Basics' /\ [Next]_vars => DoneBySubtasks'
<1> SUFFICES ASSUME Inv, Basics', [Next]_vars,
                    NEW t \in rows', status'[t] = "done"
             PROVE  Settled(t)'
  BY DEF DoneBySubtasks, Settled
<1> USE DEF Inv
<1>1. FinalStays /\ TreeStep /\ DoneSteps
  BY StepFinal, StepTree, StepDone
<1>2. t \in Tasks
  BY DEF Basics, Typed, TypeOK
<1>3. CASE status[t] = "done"
  <2>1. t \in rows
    BY <1>2, <1>3 DEF Basics, RowsFirst
  <2>2. Settled(t)
    BY <1>3, <2>1 DEF Results, DoneBySubtasks, Settled
  <2>3. \A g \in Graphs : pc[g] \in {"emitting", "scanning"} => cur[g] # t
    BY <1>3 DEF Basics, Owners, Holding
  <2> QED
    BY <1>1, <2>1, <2>2, <2>3, SettledStays
<1>4. CASE status[t] # "done"
  <2>1. UNCHANGED tree /\ t \in rows
    BY <1>1, <1>2, <1>4 DEF DoneSteps, tree
  <2>2. Settled(t)
    <3>1. ASSUME NEW g \in Graphs, pc[g] = "reporting", cur[g] = t PROVE Settled(t)
      BY <3>1 DEF Results, ReportReady
    <3>2. ASSUME NEW w \in Workers, hand[w] = t PROVE Settled(t)
      <4>1. Childless(t)
        BY <1>2, <3>2 DEF Plans, ChildrenOfPlans
      <4> QED
        BY <4>1 DEF Settled, Children, Childless
    <3> QED
      BY <1>1, <1>2, <1>4, <3>1, <3>2 DEF DoneSteps
  <2> QED
    BY <1>1, <2>1, <2>2 DEF Settled, Children, tree, FinalStays, Basics, Typed, TypeOK
<1> QED
  BY <1>3, <1>4

\* Every step leaves each claim explained.
LEMMA StepClaims == Inv /\ Basics' /\ [Next]_vars => ClaimsExplained'
<1> SUFFICES ASSUME Inv, Basics', [Next]_vars PROVE ClaimsExplained'
  OBVIOUS
<1>r. ReportReady
  BY DEF Inv, Results
<1> USE DEF Inv, Goto, Forget, NextTurn, board, tree, crew, graph, Basics, Typed, TypeOK,
           ClaimsExplained
<1>o. \A g \in Graphs : pc[g] \notin {"idle", "dead"} => cur[g] \in rows
  BY DEF RowsFirst
<1> USE DEF Holding, Held
<1>1. ASSUME NEW g \in Graphs, Step(g) \/ Raise(g) \/ Approve(g) \/ Crash(g) PROVE ClaimsExplained'
  <2>1. ASSUME NEW t \in Tasks, Fetch(g, t) PROVE ClaimsExplained'
    BY <2>1 DEF Fetch
  <2>2. ASSUME NEW n \in Lines, NEW mark \in BOOLEAN, StartPlan(g, n, mark) PROVE ClaimsExplained'
    BY <2>2 DEF StartPlan
  <2>3. CASE PlanParsed(g) \/ PlanFallback(g)
    <3>1. 1 \in Lines
      BY DEF Lines
    <3> QED
      BY <2>2, <2>3, <3>1 DEF PlanParsed, PlanFallback
  <2>4. CASE ClaimLost(g)
    BY <2>4 DEF ClaimLost
  <2>5. CASE Single(g)
    BY <2>5 DEF Single
  <2>6. CASE Poll(g)
    BY <2>6 DEF Poll
  <2>7. CASE Work(g)
    BY <2>7 DEF Work
  <2>8. CASE Ack(g)
    BY <2>8 DEF Ack
  <2>9. CASE Nak(g)
    BY <2>9 DEF Nak
  <2>a. CASE AnswerLost(g)
    BY <2>a DEF AnswerLost
  <2>10. CASE Raise(g)
    BY <2>10 DEF Raise
  <2>11. CASE Approve(g)
    BY <2>11 DEF Approve
  <2>12. CASE Crash(g)
    BY <2>12 DEF Crash
  <2>13. CASE Claim(g)
    <3>1. ASSUME NEW t \in rows', status'[t] = "claimed", t # cur[g]
          PROVE  \/ \E w \in Workers : claimed_by'[t] = w /\ (hand'[w] = t \/ w \in down')
                 \/ \E h \in Graphs : claimed_by'[t] = h /\ (Held(h)' = t \/ pc'[h] = "dead")
                 \/ t \in raised'
      <4>1. t \in rows /\ status[t] = "claimed" /\ claimed_by'[t] = claimed_by[t]
            /\ hand' = hand /\ down' = down /\ raised' = raised
        BY <2>13, <3>1 DEF Claim
      <4>2. \A h \in Graphs : (Held(h) = t => Held(h)' = t) /\ (pc[h] = "dead" => pc'[h] = "dead")
        BY <2>13, <4>1 DEF Claim
      <4> QED
        BY <4>1, <4>2
    <3>2. claimed_by'[cur[g]] = g /\ Held(g)' = cur[g]
      BY <2>13 DEF Claim
    <3> QED
      BY <3>1, <3>2
  <2>14. CASE EmitSubtask(g)
    <3>1. PICK i \in Lines : Grows(g, i)
      BY <2>14, GrowsHappens
    <3>2. PICK n \in Tasks : Written(g, i, n)
      BY <3>1, GrowsWrites
    <3>3. \A h \in Graphs : h # g => pc'[h] = pc[h]
      BY <2>14 DEF EmitSubtask
    <3>4. pc[g] \in Holding /\ pc'[g] \in Holding
      BY <3>1 DEF Grows, Waiting, Holding
    <3>5. claimed_by' = claimed_by /\ raised' = raised /\ down' = down
      BY <2>14 DEF EmitSubtask
    <3>6. ASSUME NEW t \in rows', status'[t] = "claimed" PROVE t \in rows /\ status[t] = "claimed"
      BY <3>2, <3>6 DEF Written
    <3>7. \A h \in Graphs : Held(h)' = Held(h) /\ (pc[h] = "dead" => pc'[h] = "dead")
      BY <3>2, <3>3, <3>4 DEF Written, Held, Holding
    <3>8. hand' = hand
      BY <3>2 DEF Written
    <3> QED
      BY <3>5, <3>6, <3>7, <3>8
  <2>15. CASE Replan(g)
    <3>1. PICK i \in Lines : Grows(g, i)
      BY <2>15, GrowsHappens
    <3>2. PICK n \in Tasks : Written(g, i, n)
      BY <3>1, GrowsWrites
    <3>3. \A h \in Graphs : h # g => pc'[h] = pc[h]
      BY <2>15 DEF Replan
    <3>4. pc[g] \in Holding /\ pc'[g] \in Holding
      BY <3>1 DEF Grows, Waiting, Holding
    <3>5. claimed_by' = claimed_by /\ raised' = raised /\ down' = down
      BY <2>15 DEF Replan
    <3>6. ASSUME NEW t \in rows', status'[t] = "claimed" PROVE t \in rows /\ status[t] = "claimed"
      BY <3>2, <3>6 DEF Written
    <3>7. \A h \in Graphs : Held(h)' = Held(h) /\ (pc[h] = "dead" => pc'[h] = "dead")
      BY <3>2, <3>3, <3>4 DEF Written, Held, Holding
    <3>8. hand' = hand
      BY <3>2 DEF Written
    <3> QED
      BY <3>5, <3>6, <3>7, <3>8
  <2>16. CASE EndScan(g)
    <3>1. /\ pc[g] = "scanning" /\ pc'[g] \in {"reporting", "polling"}
          /\ \A h \in Graphs \ {g} : pc'[h] = pc[h]
      BY <2>16 DEF EndScan
    <3>2. UNCHANGED <<status, claimed_by, rows, hand, down, cur, raised>>
      BY <2>16 DEF EndScan
    <3>3. \A h \in Graphs : Held(h)' = Held(h) /\ (pc[h] = "dead" => pc'[h] = "dead")
      BY <3>1, <3>2, ZenonT(30)
    <3> QED
      BY <3>2, <3>3, ZenonT(30)
  <2>17. CASE Report(g)
    <3>1. status'[cur[g]] = "done" /\ \A t \in Tasks \ {cur[g]} : status'[t] = status[t]
      <4>r. pc[g] = "reporting"
        BY <2>17 DEF Report
      <4>1. pc[g] = "reporting" /\ g \in done
        BY <4>r, <1>r DEF ReportReady
      <4>2. status' = [status EXCEPT ![cur[g]] = "done"]
        BY <2>17, <4>1, Zenon DEF Report
      <4>3. cur[g] \in Tasks
        BY <4>1, <1>o
      <4> QED
        BY <4>2, <4>3
    <3>2. UNCHANGED <<claimed_by, rows, hand, down, cur, raised>>
      BY <2>17 DEF Report
    <3>3. pc[g] = "reporting" /\ \A h \in Graphs \ {g} : pc'[h] = pc[h]
      BY <2>17 DEF Report
    <3> QED
      BY <3>1, <3>2, <3>3, ZenonT(30)
  <2> QED
    BY <1>1, <2>1, <2>3, <2>4, <2>5, <2>6, <2>7, <2>8, <2>9, <2>10, <2>11, <2>12, <2>13, <2>14, <2>15, <2>16, <2>17, <2>a DEF Step, Node
<1>2. ASSUME NEW t \in Tasks, Publish(t) \/ AckWaitEnds(t) PROVE ClaimsExplained'
  <2>1. CASE Publish(t)
    BY <2>1 DEF Publish
  <2>2. CASE AckWaitEnds(t)
    BY <2>2 DEF AckWaitEnds
  <2> QED
    BY <1>2, <2>1, <2>2
<1>3. ASSUME NEW w \in Workers, NEW t \in Tasks, WorkerTakes(w, t) \/ WorkerDrops(w, t)
      PROVE  ClaimsExplained'
  <2>1. CASE WorkerTakes(w, t)
    <3>1. ASSUME NEW s \in rows', status'[s] = "claimed", s # t
          PROVE  \/ \E v \in Workers : claimed_by'[s] = v /\ (hand'[v] = s \/ v \in down')
                 \/ \E h \in Graphs : claimed_by'[s] = h /\ (Held(h)' = s \/ pc'[h] = "dead")
                 \/ s \in raised'
      <4>1. s \in rows /\ status[s] = "claimed" /\ claimed_by'[s] = claimed_by[s]
            /\ raised' = raised /\ cur' = cur /\ pc' = pc /\ down' = down
        BY <2>1, <3>1 DEF WorkerTakes
      <4>2. \A v \in Workers : hand[v] = s => hand'[v] = s
        BY <2>1, <4>1 DEF WorkerTakes
      <4> QED
        BY <4>1, <4>2
    <3>2. claimed_by'[t] = w /\ hand'[w] = t
      BY <2>1 DEF WorkerTakes
    <3> QED
      BY <3>1, <3>2
  <2>2. CASE WorkerDrops(w, t)
    BY <2>2 DEF WorkerDrops
  <2> QED
    BY <1>3, <2>1, <2>2
<1>4. ASSUME NEW w \in Workers, Finish(w) PROVE ClaimsExplained'
  <2>1. ASSUME NEW v \in {"done", "failed"}, NEW k \in {"PR_OPENED", "FAILED"},
               WorkerDecides(w, v, k)
        PROVE  ClaimsExplained'
    BY <2>1 DEF WorkerDecides
  <2>2. CASE WorkerGivesBack(w)
    BY <2>2 DEF WorkerGivesBack
  <2> QED
    BY <1>4, <2>1, <2>2 DEF Finish
<1>5. ASSUME NEW w \in Workers, WorkerDies(w) PROVE ClaimsExplained'
  BY <1>5 DEF WorkerDies
<1>6. CASE UNCHANGED vars
  BY <1>6 DEF vars
<1> QED
  BY <1>1, <1>2, <1>3, <1>4, <1>5, <1>6 DEF Next, Server, Worker

LEMMA StepInv == Inv /\ [Next]_vars => Inv'
<1> SUFFICES ASSUME Inv, [Next]_vars PROVE Inv'
  OBVIOUS
<1>1. Typed'
  BY StepTyped DEF Inv, Basics
<1>2. Basics'
  BY <1>1, StepRows, StepOwners DEF Inv, Basics
<1>3. Plans'
  BY <1>2, StepChildless, StepLocal, StepTrees, StepSeen DEF Inv, Plans
<1>4. Results'
  BY <1>2, <1>3, StepReady, StepOneLive, StepDoneBy DEF Inv, Plans, Results
<1> QED
  BY <1>2, <1>3, <1>4, StepClaims DEF Inv

\* The inductive invariant holds of the orchestrators beside plain workers.
THEOREM Invariant == Spec => []Inv
<1> QED
  BY InitInv, StepInv, PTL DEF Spec

\* The rows, the queue and the locals of the processes are well typed.
THEOREM TypeCorrect == Spec => []TypeOK
<1>1. Inv => TypeOK
  BY DEF Inv, Basics, Typed
<1> QED
  BY <1>1, Invariant, PTL

\* However many orchestrators, workers and redeliveries there are, a decomposed
\* task is done only when each of its lines has a subtask that is done.
THEOREM DoneOnlyBySubtasks == Spec => []DoneBySubtasks
<1>1. Inv => DoneBySubtasks
  BY DEF Inv, Results
<1> QED
  BY <1>1, Invariant, PTL

\* A line of a plan never has two subtasks that have not failed.
THEOREM LinesDisjoint == Spec => []OneLivePerLine
<1>1. Inv => OneLivePerLine
  BY DEF Inv, Results
<1> QED
  BY <1>1, Invariant, PTL

\* A claimed row is in the hands of its owner, or the owner died or raised.
THEOREM NoStrayClaim == Spec => []ClaimsExplained
<1>1. Inv => ClaimsExplained
  BY DEF Inv
<1> QED
  BY <1>1, Invariant, PTL
-----------------------------------------------------------------------------
(* Refinement of TaskBoard.                                                *)

LEMMA HandsUpdated ==
  ASSUME NEW x \in Graphs \union Workers, NEW t, Hands'[x] = t,
         \A y \in Graphs \union Workers : y # x => Hands'[y] = Hands[y]
  PROVE  Hands' = [Hands EXCEPT ![x] = t]
BY DEF Hands

LEMMA HandsOf ==
  /\ \A g \in Graphs : Hands[g] = Held(g) /\ Hands'[g] = Held(g)'
  /\ \A w \in Workers : Hands[w] = hand[w] /\ Hands'[w] = hand'[w]
BY DEF Hands

\* A process in a node of the graph holds its row on the board.
LEMMA GraphHolds ==
  ASSUME Basics, NEW g \in Graphs, pc[g] \in Holding
  PROVE  cur[g] \in Tasks /\ Board!Holds(g, cur[g])
BY HandsOf, OtherHands DEF Held, Board!Holds, Basics, Owners, Typed, TypeOK

LEMMA WorkerHolds ==
  ASSUME Basics, NEW w \in Workers, hand[w] # NoTask
  PROVE  hand[w] \in Tasks /\ Board!Holds(w, hand[w])
BY HandsOf DEF Board!Holds, Basics, Owners, Typed, TypeOK

\* Every step is one of the board's, or leaves the board alone.
LEMMA StepBoard == Inv /\ [Next]_vars => [Board!Next]_(Board!vars)
<1> SUFFICES ASSUME Inv, [Next]_vars PROVE [Board!Next]_(Board!vars)
  OBVIOUS
<1> USE DEF Goto, Forget, NextTurn, board, tree, crew, graph
<1>t. Basics /\ pc \in [Graphs -> PCs] /\ cur \in [Graphs -> rows \union {NoTask}]
      /\ hand \in [Workers -> rows \union {NoTask}] /\ rows \subseteq Tasks
  BY DEF Inv, Basics, Typed, TypeOK
<1>o. \A g \in Graphs : pc[g] \notin {"idle", "dead"} => cur[g] \in rows
  BY <1>t DEF Basics, RowsFirst
<1>e. \A g \in Graphs : EndOfGraph(g) \in {"ended", "acking"}
  BY DEF EndOfGraph
<1>q. ASSUME UNCHANGED <<board, hand>>, \A h \in Graphs : Held(h)' = Held(h)
      PROVE  [Board!Next]_(Board!vars)
  BY <1>q DEF Hands, Board!vars
<1>u. UNCHANGED <<board, hand, pc, cur>> => [Board!Next]_(Board!vars)
  BY <1>q DEF Held
<1>1. ASSUME NEW g \in Graphs, Step(g) \/ Raise(g) \/ Approve(g) \/ Crash(g) PROVE [Board!Next]_(Board!vars)
  <2>1. ASSUME NEW t \in Tasks, Fetch(g, t) PROVE [Board!Next]_(Board!vars)
    <3>1. \A h \in Graphs : Held(h)' = Held(h)
      BY <2>1 DEF Fetch, Held, Holding
    <3> QED
      BY <2>1, <3>1, <1>q DEF Fetch
  <2>2. ASSUME NEW n \in Lines, NEW mark \in BOOLEAN, StartPlan(g, n, mark) PROVE [Board!Next]_(Board!vars)
    <3>1. \A h \in Graphs : Held(h)' = Held(h)
      BY <2>2 DEF StartPlan, Held, Holding
    <3> QED
      BY <2>2, <3>1, <1>q DEF StartPlan
  <2>3. CASE PlanParsed(g) \/ PlanFallback(g)
    <3>1. 1 \in Lines
      BY DEF Lines
    <3> QED
      BY <2>2, <2>3, <3>1 DEF PlanParsed, PlanFallback
  <2>4. CASE Claim(g)
    <3>1. Held(g) = NoTask /\ Held(g)' = cur[g] /\ cur[g] \in Tasks
      BY <2>4, <1>t, <1>o DEF Claim, Held, Holding
    <3>2. hand' = hand /\ \A h \in Graphs : h # g => Held(h)' = Held(h)
      BY <2>4 DEF Claim, Held
    <3>3. Hands' = [Hands EXCEPT ![g] = cur[g]]
      BY <3>1, <3>2, HandsOf, HandsUpdated
    <3>4. Board!Take(g, cur[g])
      BY <2>4, <3>1, <3>3, HandsOf DEF Claim, Board!Take
    <3> QED
      BY <3>1, <3>4 DEF Board!Next
  <2>5. CASE ClaimLost(g)
    <3>1. \A h \in Graphs : Held(h)' = Held(h)
      BY <2>5, <1>e DEF ClaimLost, Held, Holding
    <3> QED
      BY <2>5, <3>1, <1>q DEF ClaimLost
  <2>6. CASE Single(g)
    <3>1. \A h \in Graphs : Held(h)' = Held(h)
      BY <2>6 DEF Single, Held, Holding
    <3> QED
      BY <2>6, <3>1, <1>q DEF Single
  <2>7. CASE EmitSubtask(g)
    <3>1. \A h \in Graphs : Held(h)' = Held(h)
      BY <2>7 DEF EmitSubtask, Held, Holding
    <3> QED
      BY <2>7, <3>1, <1>q DEF EmitSubtask
  <2>8. CASE Poll(g)
    <3>1. \A h \in Graphs : Held(h)' = Held(h)
      BY <2>8 DEF Poll, Held, Holding
    <3> QED
      BY <2>8, <3>1, <1>q DEF Poll
  <2>9. CASE Replan(g)
    <3>1. \A h \in Graphs : Held(h)' = Held(h)
      BY <2>9 DEF Replan, Held, Holding
    <3> QED
      BY <2>9, <3>1, <1>q DEF Replan
  <2>10. CASE EndScan(g)
    <3>1. /\ pc'[g] \in {"reporting", "polling"} /\ pc[g] = "scanning"
          /\ UNCHANGED <<board, cur, hand>>
      BY <2>10, <1>t DEF EndScan
    <3>2. \A h \in Graphs : h # g => pc'[h] = pc[h]
      BY <2>10, <1>t DEF EndScan
    <3>3. \A h \in Graphs : Held(h)' = Held(h)
      BY <3>1, <3>2 DEF Held, Holding
    <3> QED
      BY <3>1, <3>3, <1>q
  <2>11. CASE Work(g)
    <3>1. \A h \in Graphs : Held(h)' = Held(h)
      BY <2>11 DEF Work, Held, Holding
    <3> QED
      BY <2>11, <3>1, <1>q DEF Work
  <2>12. CASE Report(g)
    <3>1. /\ pc[g] \in Holding /\ UNCHANGED <<claimed_by, hand>>
          /\ status' = [status EXCEPT ![cur[g]] = "done"]
          /\ events' = [events EXCEPT ![cur[g]] = Append(@, "PR_OPENED")]
      BY <2>12 DEF Report, Holding, Inv, Results, ReportReady
    <3>2. Held(g)' = NoTask /\ \A h \in Graphs : h # g => Held(h)' = Held(h)
      BY <2>12, <1>t, <1>e DEF Report, Held, Holding
    <3>3. Hands' = [Hands EXCEPT ![g] = NoTask]
      BY <3>1, <3>2, HandsOf, HandsUpdated
    <3>4. Board!Decide(g, cur[g], "done", "PR_OPENED")
      BY <3>1, <3>3, <1>t, GraphHolds DEF Board!Decide
    <3> QED
      BY <3>1, <3>4, <1>t, GraphHolds DEF Board!Next
  <2>13. CASE Ack(g)
    <3>1. \A h \in Graphs : Held(h)' = Held(h)
      BY <2>13 DEF Ack, Held, Holding
    <3> QED
      BY <2>13, <3>1, <1>q DEF Ack
  <2>14. CASE Nak(g)
    <3>1. \A h \in Graphs : Held(h)' = Held(h)
      BY <2>14 DEF Nak, Held, Holding
    <3> QED
      BY <2>14, <3>1, <1>q DEF Nak
  <2>a. CASE AnswerLost(g)
    <3>1. \A h \in Graphs : Held(h)' = Held(h)
      BY <2>a DEF AnswerLost, Held, Holding
    <3> QED
      BY <2>a, <3>1, <1>q DEF AnswerLost
  <2>15. CASE Raise(g)
    <3>1. UNCHANGED board /\ hand' = hand /\ Held(g)' = NoTask
      BY <2>15, <1>t DEF Raise, Held, Holding
    <3>2. \A h \in Graphs : h # g => Held(h)' = Held(h)
      BY <2>15 DEF Raise, Held, Holding
    <3>3. CASE pc[g] \in Holding
      <4>1. Hands' = [Hands EXCEPT ![g] = NoTask]
        BY <3>1, <3>2, HandsOf, HandsUpdated
      <4> QED
        BY <3>1, <3>3, <4>1, <1>t, GraphHolds DEF Board!Abandon, Board!Next
    <3>4. CASE pc[g] \notin Holding
      BY <3>1, <3>2, <3>4, <1>q DEF Held
    <3> QED
      BY <3>3, <3>4
  <2>16. CASE Approve(g)
    <3>1. \A h \in Graphs : Held(h)' = Held(h)
      BY <2>16 DEF Approve, Held, Holding
    <3> QED
      BY <2>16, <3>1, <1>q DEF Approve
  <2>17. CASE Crash(g)
    <3>1. UNCHANGED board /\ hand' = hand /\ Held(g)' = NoTask
      BY <2>17, <1>t DEF Crash, Held, Holding
    <3>2. \A h \in Graphs : h # g => Held(h)' = Held(h)
      BY <2>17 DEF Crash, Held, Holding
    <3>3. CASE pc[g] \in Holding
      <4>1. Hands' = [Hands EXCEPT ![g] = NoTask]
        BY <3>1, <3>2, HandsOf, HandsUpdated
      <4> QED
        BY <3>1, <3>3, <4>1, <1>t, GraphHolds DEF Board!Abandon, Board!Next
    <3>4. CASE pc[g] \notin Holding
      BY <3>1, <3>2, <3>4, <1>q DEF Held
    <3> QED
      BY <3>3, <3>4
  <2> QED
    BY <1>1, <2>1, <2>3, <2>4, <2>5, <2>6, <2>7, <2>8, <2>9, <2>10, <2>11, <2>12, <2>13, <2>14, <2>15, <2>16, <2>17, <2>a DEF Step, Node
<1>2. ASSUME NEW t \in Tasks, Publish(t) \/ AckWaitEnds(t) PROVE [Board!Next]_(Board!vars)
  <2>1. CASE Publish(t)
    BY <2>1, <1>u DEF Publish
  <2>2. CASE AckWaitEnds(t)
    BY <2>2, <1>u DEF AckWaitEnds
  <2> QED
    BY <1>2, <2>1, <2>2
<1>3. ASSUME NEW w \in Workers, NEW t \in Tasks, WorkerTakes(w, t) \/ WorkerDrops(w, t)
      PROVE  [Board!Next]_(Board!vars)
  <2>1. CASE WorkerTakes(w, t)
    <3>1. \A h \in Graphs : Held(h)' = Held(h)
      BY <2>1 DEF WorkerTakes, Held
    <3>2. hand[w] = NoTask /\ hand' = [hand EXCEPT ![w] = t]
      BY <2>1 DEF WorkerTakes
    <3>3. Hands' = [Hands EXCEPT ![w] = t]
      BY <3>1, <3>2, <1>t, HandsOf, HandsUpdated
    <3>4. Board!Take(w, t)
      BY <2>1, <3>2, <3>3, HandsOf DEF WorkerTakes, Board!Take
    <3> QED
      BY <3>4 DEF Board!Next
  <2>2. CASE WorkerDrops(w, t)
    BY <2>2, <1>u DEF WorkerDrops
  <2> QED
    BY <1>3, <2>1, <2>2
<1>4. ASSUME NEW w \in Workers, Finish(w) PROVE [Board!Next]_(Board!vars)
  <2>1. ASSUME NEW v \in {"done", "failed"}, NEW k \in {"PR_OPENED", "FAILED"},
               v = "done" <=> k = "PR_OPENED", WorkerDecides(w, v, k)
        PROVE  [Board!Next]_(Board!vars)
    <3>1. \A h \in Graphs : Held(h)' = Held(h)
      BY <2>1 DEF WorkerDecides, Held
    <3>2. hand[w] # NoTask /\ hand' = [hand EXCEPT ![w] = NoTask]
      BY <2>1 DEF WorkerDecides
    <3>3. Hands' = [Hands EXCEPT ![w] = NoTask]
      BY <3>1, <3>2, <1>t, HandsOf, HandsUpdated
    <3>4. Board!Decide(w, hand[w], v, k)
      BY <2>1, <3>2, <3>3, <1>t, WorkerHolds DEF WorkerDecides, Board!Decide
    <3> QED
      BY <2>1, <3>2, <3>4, <1>t, WorkerHolds DEF Board!Next
  <2>2. CASE WorkerGivesBack(w)
    <3>1. \A h \in Graphs : Held(h)' = Held(h)
      BY <2>2 DEF WorkerGivesBack, Held
    <3>2. hand[w] # NoTask /\ hand' = [hand EXCEPT ![w] = NoTask]
      BY <2>2 DEF WorkerGivesBack
    <3>3. Hands' = [Hands EXCEPT ![w] = NoTask]
      BY <3>1, <3>2, <1>t, HandsOf, HandsUpdated
    <3>4. Board!GiveBack(w, hand[w])
      BY <2>2, <3>2, <3>3, <1>t, WorkerHolds DEF WorkerGivesBack, Board!GiveBack
    <3> QED
      BY <3>2, <3>4, <1>t, WorkerHolds DEF Board!Next
  <2> QED
    BY <1>4, <2>1, <2>2 DEF Finish
<1>5. ASSUME NEW w \in Workers, WorkerDies(w) PROVE [Board!Next]_(Board!vars)
  <2>1. UNCHANGED board /\ hand' = [hand EXCEPT ![w] = NoTask]
    BY <1>5 DEF WorkerDies
  <2>2. \A h \in Graphs : Held(h)' = Held(h)
    BY <1>5 DEF WorkerDies, Held
  <2>3. Hands' = [Hands EXCEPT ![w] = NoTask]
    BY <2>1, <2>2, <1>t, HandsOf, HandsUpdated
  <2>4. CASE hand[w] = NoTask
    BY <2>1, <2>2, <2>4, <1>t, <1>q
  <2>5. CASE hand[w] # NoTask
    BY <2>1, <2>3, <2>5, <1>t, WorkerHolds DEF Board!Abandon, Board!Next
  <2> QED
    BY <2>4, <2>5
<1>6. CASE UNCHANGED vars
  BY <1>6, <1>u DEF vars
<1> QED
  BY <1>1, <1>2, <1>3, <1>4, <1>5, <1>6 DEF Next, Server, Worker

\* Orchestrators and plain workers together keep the promise of the board: a
\* task in one hand, decided once, with one event.
THEOREM ImplementsBoard == Spec => BoardSpec
<1>1. Init => Board!Init
  BY DEF Init, Board!Init, Hands, Held, Holding
<1>2. Inv /\ [Next]_vars => [Board!Next]_(Board!vars)
  BY StepBoard
<1> QED
  BY <1>1, <1>2, Invariant, PTL DEF Spec, BoardSpec, Board!Spec
=============================================================================
