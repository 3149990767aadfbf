---------------------------- MODULE Coordinator ----------------------------
(***************************************************************************)
(* agent/orchestrator_langgraph.py with agent/planner.py: instances of the *)
(* consumer that runs a task through the graph claim -> plan -> (work) ->  *)
(* report, beside plain agent workers of the same role.  A task whose      *)
(* title is marked "[swarm-hard]" is decomposed: each line of its plan     *)
(* becomes a subtask (a row and its outbox row), and the graph polls their *)
(* rows and replaces those that fail.                                      *)
(*                                                                         *)
(* The plain workers are what module AgentWorker promises of them (module  *)
(* TaskBoard): they may die with a task in hand, and its message may end   *)
(* its ack-wait there.                                                     *)
(***************************************************************************)
EXTENDS Naturals, Sequences, FiniteSets

CONSTANTS Tasks,     \* the ids uuid4 may draw; finite, which bounds replanning
          Incoming,  \* the tasks that exist at the start, all of them marked
          Graphs,    \* orchestrator processes
          Workers,   \* plain agent workers
          Mortal,    \* processes that may be killed, or meet an exception
          HIL,       \* orchestrators started with HIL=1
          MaxLines,  \* the longest plan (the planner asks for 2 to 5 lines)
          MaxDeliver, MaxAckPending,
          NoTask, NoWorker

ASSUME CoordinatorAssumption ==
  /\ Incoming \subseteq Tasks
  /\ Mortal \subseteq Graphs \union Workers
  /\ HIL \subseteq Graphs
  /\ Graphs \intersect Workers = {}
  /\ NoWorker \notin Graphs \union Workers
  /\ NoTask \notin Tasks
  /\ MaxLines \in Nat \ {0}
  /\ MaxDeliver \in Nat \ {0}
  /\ MaxAckPending \in Nat \ {0}

VARIABLES
  status, claimed_by, events,  \* as in TaskBoard
  rows,     \* the tasks inserted so far
  marked,   \* those whose title says "[swarm-hard]"
  parent,   \* parent_task_id
  line,     \* the line of the parent's plan a subtask was written for
  stream,   \* SWARM_TASKS: a task has one message, whose id is the task's
  hand,     \* per plain worker, the task it works on
  down,     \* plain workers that have died
  pc, cur,  \* per graph process: the node it is in, and its message's task
  plan,     \* per graph process: the locals of the plan node
  done,     \* graph processes whose state says "done"
  raised    \* tasks whose graph run ended in an exception

board == <<status, claimed_by, events>>
tree == <<rows, marked, parent, line>>
crew == <<hand, down>>
graph == <<pc, cur, plan, done>>
vars == <<status, claimed_by, events, rows, marked, parent, line, stream, hand,
          down, pc, cur, plan, done, raised>>

Queue == INSTANCE JetStream WITH Msgs <- Tasks

Statuses == {"pending", "claimed", "done", "failed"}
Lines == 1..MaxLines

\* "lines" is the length of the plan, "marked" whether its titles carry the
\* mark, "ids" the subtask of each line, "seen" the statuses last read.
NoPlan == [lines |-> 0, marked |-> FALSE, ids |-> [i \in Lines |-> NoTask],
           seen |-> [t \in Tasks |-> "unread"], replanned |-> {}]

\* The nodes in which the process owns the row it has claimed.
Holding == {"planning", "emitting", "polling", "scanning", "interrupted",
            "working", "reporting"}
Waiting == {"emitting", "polling", "scanning"}
PCs == Holding \union {"idle", "fetched", "ended", "acking", "naking", "dead"}

Init ==
  /\ status = [t \in Tasks |-> "pending"]
  /\ claimed_by = [t \in Tasks |-> NoWorker]
  /\ events = [t \in Tasks |-> <<>>]
  /\ rows = Incoming
  /\ marked = Incoming
  /\ parent = [t \in Tasks |-> NoTask]
  /\ line = [t \in Tasks |-> 0]
  /\ stream = [t \in Tasks |-> Queue!Absent]
  /\ hand = [w \in Workers |-> NoTask]
  /\ down = {}
  /\ pc = [g \in Graphs |-> "idle"]
  /\ cur = [g \in Graphs |-> NoTask]
  /\ plan = [g \in Graphs |-> NoPlan]
  /\ done = {}
  /\ raised = {}

Goto(g, node) == pc' = [pc EXCEPT ![g] = node]

-----------------------------------------------------------------------------
(* The loop of main, the claim, and how a graph run ends.                  *)

Fetch(g, t) ==
  /\ pc[g] = "idle"
  /\ Queue!Deliverable(stream, t)
  /\ stream' = Queue!Deliver(stream, t)
  /\ cur' = [cur EXCEPT ![g] = t]
  /\ Goto(g, "fetched")
  /\ UNCHANGED <<board, tree, crew, plan, done, raised>>

\* main's test after the graph has ended: a human is asked unless it is done.
EndOfGraph(g) == IF g \in HIL /\ g \notin done THEN "ended" ELSE "acking"

\* Mutant: the claim does not look at the status.
ClaimAlways(g) ==
  /\ pc[g] = "fetched"
  /\ status' = [status EXCEPT ![cur[g]] = "claimed"]
  /\ claimed_by' = [claimed_by EXCEPT ![cur[g]] = g]
  /\ Goto(g, "planning")
  /\ UNCHANGED <<events, tree, stream, crew, cur, plan, done, raised>>

Claim(g) ==
  /\ pc[g] = "fetched"
  /\ status[cur[g]] = "pending"
  /\ status' = [status EXCEPT ![cur[g]] = "claimed"]
  /\ claimed_by' = [claimed_by EXCEPT ![cur[g]] = g]
  /\ Goto(g, "planning")
  /\ UNCHANGED <<events, tree, stream, crew, cur, plan, done, raised>>

ClaimLost(g) ==
  /\ pc[g] = "fetched"
  /\ status[cur[g]] # "pending"
  /\ Goto(g, EndOfGraph(g))
  /\ UNCHANGED <<board, tree, stream, crew, cur, plan, done, raised>>

\* The process has no memory of its message any more.
Forget(g) ==
  /\ cur' = [cur EXCEPT ![g] = NoTask]
  /\ plan' = [plan EXCEPT ![g] = NoPlan]
  /\ done' = done \ {g}

NextTurn(g) == Goto(g, "idle") /\ Forget(g)

Ack(g) ==
  /\ pc[g] = "acking"
  /\ stream' = Queue!Remove(stream, cur[g])
  /\ NextTurn(g)
  /\ UNCHANGED <<board, tree, crew, raised>>

\* Any exception of a node, or of the answer: main goes to its except clause.
\* What the node had committed before stays.
Raise(g) ==
  /\ g \in Mortal
  /\ pc[g] \notin {"idle", "interrupted", "naking", "dead"}
  /\ raised' = raised \union {t \in {cur[g]} : pc[g] \in Holding}
  /\ Goto(g, "naking")
  /\ plan' = [plan EXCEPT ![g] = NoPlan]
  /\ done' = done \ {g}
  /\ UNCHANGED <<board, tree, stream, crew, cur>>

\* nak(delay=30), and no reset of the row.
Nak(g) ==
  /\ pc[g] = "naking"
  /\ stream' = Queue!Requeue(stream, cur[g])
  /\ NextTurn(g)
  /\ UNCHANGED <<board, tree, crew, raised>>

\* Neither answer is waited for: one may be lost on its way.
AnswerLost(g) ==
  /\ pc[g] \in {"acking", "naking"}
  /\ NextTurn(g)
  /\ UNCHANGED <<board, tree, stream, crew, raised>>

\* Mutant: the second run of the graph is forgotten.
ApproveForgetsResume(g) ==
  /\ pc[g] \in {"interrupted", "ended"}
  /\ Goto(g, "acking")
  /\ UNCHANGED <<board, tree, stream, crew, cur, plan, done, raised>>

\* The human presses enter: the graph resumes at "work", or has nothing left.
Approve(g) ==
  /\ pc[g] \in {"interrupted", "ended"}
  /\ Goto(g, IF pc[g] = "interrupted" THEN "working" ELSE "acking")
  /\ UNCHANGED <<board, tree, stream, crew, cur, plan, done, raised>>

Crash(g) ==
  /\ g \in Mortal
  /\ pc[g] # "dead"
  /\ Goto(g, "dead")
  /\ Forget(g)
  /\ UNCHANGED <<board, tree, stream, crew, raised>>

-----------------------------------------------------------------------------
(* The plan node.                                                          *)

\* not should_decompose: on to the work node, where HIL=1 interrupts.
Single(g) ==
  /\ pc[g] = "planning"
  /\ cur[g] \notin marked
  /\ Goto(g, IF g \in HIL THEN "interrupted" ELSE "working")
  /\ UNCHANGED <<board, tree, stream, crew, cur, plan, done, raised>>

StartPlan(g, n, mark) ==
  /\ pc[g] = "planning"
  /\ cur[g] \in marked
  /\ plan' = [plan EXCEPT ![g].lines = n, ![g].marked = mark]
  /\ Goto(g, "emitting")
  /\ UNCHANGED <<board, tree, stream, crew, cur, done, raised>>

\* The model answers, and parse_plan finds lines in the answer.
PlanParsed(g) == \E n \in Lines : StartPlan(g, n, FALSE)

\* The fallback is one subtask with the parent's own title, mark included.
PlanFallback(g) == StartPlan(g, 1, TRUE)

\* uuid4: any id that was never drawn; which one makes no difference.
NewId == CHOOSE t \in Tasks : t \notin rows

\* One transaction of emit_subtasks, for line i of g's plan.
Insert(g, i) ==
  /\ rows # Tasks
  /\ rows' = rows \union {NewId}
  /\ parent' = [parent EXCEPT ![NewId] = cur[g]]
  /\ line' = [line EXCEPT ![NewId] = i]
  /\ marked' = marked \union {t \in {NewId} : plan[g].marked}

Unwritten(g) == {i \in 1..plan[g].lines : plan[g].ids[i] = NoTask}

EmitSubtask(g) ==
  /\ pc[g] = "emitting"
  /\ \E i \in Unwritten(g) :
       /\ \A j \in Unwritten(g) : i <= j
       /\ Insert(g, i)
       /\ plan' = [plan EXCEPT ![g].ids[i] = NewId]
       /\ Goto(g, IF Unwritten(g) = {i} THEN "polling" ELSE "emitting")
  /\ UNCHANGED <<board, stream, crew, cur, done, raised>>

Ids(g) == {plan[g].ids[i] : i \in 1..plan[g].lines}

\* subtask_states, after the sleep; the answer is then used step by step.
Poll(g) ==
  /\ pc[g] = "polling"
  /\ plan' = [plan EXCEPT ![g].seen =
                [t \in Tasks |-> IF t \in Ids(g) THEN status[t] ELSE "unread"]]
  /\ Goto(g, "scanning")
  /\ UNCHANGED <<board, tree, stream, crew, cur, done, raised>>

Failed(g) == {t \in Tasks : plan[g].seen[t] = "failed"}
ToReplan(g) == Failed(g) \ plan[g].replanned

\* Mutant: a subtask that is still claimed is replaced as well.
ReplanClaimed(g) ==
  /\ pc[g] = "scanning"
  /\ \E i \in 1..plan[g].lines :
       /\ plan[g].seen[plan[g].ids[i]] \in {"claimed", "failed"}
       /\ Insert(g, i)
       /\ plan' = [plan EXCEPT ![g].ids[i] = NewId]
  /\ UNCHANGED <<board, stream, crew, pc, cur, done, raised>>

\* A failed subtask gets one new id, which takes the old one's place.
Replan(g) ==
  /\ pc[g] = "scanning"
  /\ \E i \in 1..plan[g].lines :
       /\ plan[g].ids[i] \in ToReplan(g)
       /\ Insert(g, i)
       /\ plan' = [plan EXCEPT ![g].ids[i] = NewId,
                               ![g].replanned = @ \union {plan[g].ids[i]}]
  /\ UNCHANGED <<board, stream, crew, pc, cur, done, raised>>

\* Mutant: one line that is done ends the plan.
AnyDone(g) == \E t \in Ids(g) : plan[g].seen[t] = "done"

AllDone(g) == \A t \in Ids(g) : plan[g].seen[t] = "done"

\* Never true: a replaced id is no longer among the ids.
GivesUp(g) == Ids(g) \intersect Failed(g) \intersect plan[g].replanned # {}

\* Mutant: the loop reads the rows only once.
ScanNeverPollsAgain(g) ==
  /\ pc[g] = "scanning"
  /\ AllDone(g)
  /\ done' = done \union {g}
  /\ Goto(g, "reporting")
  /\ UNCHANGED <<board, tree, stream, crew, cur, plan, raised>>

\* The statuses read are not used after the turn that read them.
EndScan(g) ==
  /\ pc[g] = "scanning"
  /\ ToReplan(g) = {}
  /\ done' = done \union {h \in {g} : AllDone(g)}
  /\ IF AllDone(g) \/ GivesUp(g)
       THEN Goto(g, "reporting") /\ plan' = [plan EXCEPT ![g] = NoPlan]
       ELSE Goto(g, "polling") /\ plan' = [plan EXCEPT ![g].seen = NoPlan.seen]
  /\ UNCHANGED <<board, tree, stream, crew, cur, raised>>

-----------------------------------------------------------------------------
(* The work and report nodes.                                              *)

\* The engine run and its push succeed (whatever else it does is Raise).
Work(g) ==
  /\ pc[g] = "working"
  /\ done' = done \union {g}
  /\ Goto(g, "reporting")
  /\ UNCHANGED <<board, tree, stream, crew, cur, plan, raised>>

Report(g) ==
  /\ pc[g] = "reporting"
  /\ IF g \in done
       THEN /\ status' = [status EXCEPT ![cur[g]] = "done"]
            /\ events' = [events EXCEPT ![cur[g]] = Append(@, "PR_OPENED")]
       ELSE UNCHANGED <<status, events>>
  /\ Goto(g, EndOfGraph(g))
  /\ UNCHANGED <<claimed_by, tree, stream, crew, cur, plan, done, raised>>
-----------------------------------------------------------------------------
(* The servers, and the plain workers of the role.                         *)

Publish(t) ==
  /\ t \in rows
  /\ stream[t].state = "absent"
  /\ stream' = Queue!Store(stream, t)
  /\ UNCHANGED <<board, tree, crew, graph, raised>>

\* The ack-wait is shorter than a plan or an engine run: nobody extends it.
AckWaitEnds(t) ==
  /\ stream[t].state = "inflight"
  /\ stream' = Queue!Requeue(stream, t)
  /\ UNCHANGED <<board, tree, crew, graph, raised>>

WorkerTakes(w, t) ==
  /\ w \notin down /\ hand[w] = NoTask
  /\ Queue!Deliverable(stream, t)
  /\ status[t] = "pending"
  /\ status' = [status EXCEPT ![t] = "claimed"]
  /\ claimed_by' = [claimed_by EXCEPT ![t] = w]
  /\ hand' = [hand EXCEPT ![w] = t]
  /\ stream' = Queue!Deliver(stream, t)
  /\ UNCHANGED <<events, tree, down, graph, raised>>

\* The claim is lost, and the message acked; the ack may not arrive.
WorkerDrops(w, t) ==
  /\ w \notin down /\ hand[w] = NoTask
  /\ Queue!Deliverable(stream, t)
  /\ status[t] # "pending"
  /\ stream' \in {Queue!Remove(stream, t), Queue!Deliver(stream, t)}
  /\ UNCHANGED <<board, tree, crew, graph, raised>>

\* The verdict, and an ack or term, which may not arrive.
WorkerDecides(w, verdict, kind) ==
  /\ hand[w] # NoTask
  /\ status' = [status EXCEPT ![hand[w]] = verdict]
  /\ events' = [events EXCEPT ![hand[w]] = Append(@, kind)]
  /\ stream' \in {Queue!Remove(stream, hand[w]), stream}
  /\ hand' = [hand EXCEPT ![w] = NoTask]
  /\ UNCHANGED <<claimed_by, tree, down, graph, raised>>

\* A transient failure; out of deliveries, the message goes to the DLQ.
WorkerGivesBack(w) ==
  /\ hand[w] # NoTask
  /\ status' = [status EXCEPT ![hand[w]] = "pending"]
  /\ claimed_by' = [claimed_by EXCEPT ![hand[w]] = NoWorker]
  /\ stream' \in {Queue!Requeue(stream, hand[w]), stream}
  /\ hand' = [hand EXCEPT ![w] = NoTask]
  /\ UNCHANGED <<events, tree, down, graph, raised>>

\* Nothing in its hand is answered, and no row reset.
WorkerDies(w) ==
  /\ w \in Mortal \ down
  /\ down' = down \union {w}
  /\ hand' = [hand EXCEPT ![w] = NoTask]
  /\ UNCHANGED <<board, tree, stream, graph, raised>>

-----------------------------------------------------------------------------
Node(g) ==
  \/ Claim(g) \/ ClaimLost(g)
  \/ Single(g) \/ PlanParsed(g) \/ PlanFallback(g) \/ EmitSubtask(g)
  \/ Poll(g) \/ Replan(g) \/ EndScan(g)
  \/ Work(g) \/ Report(g)

\* What a live orchestrator does by itself.
Step(g) == \/ \E t \in Tasks : Fetch(g, t)
           \/ Node(g)
           \/ Ack(g) \/ Nak(g) \/ AnswerLost(g)

Finish(w) == \/ WorkerDecides(w, "done", "PR_OPENED")
             \/ WorkerDecides(w, "failed", "FAILED")
             \/ WorkerGivesBack(w)

Server == \E t \in Tasks : Publish(t) \/ AckWaitEnds(t)

Worker(w) ==
  Finish(w) \/ \E t \in Tasks : WorkerTakes(w, t) \/ WorkerDrops(w, t)

Next ==
  \/ \E g \in Graphs : Step(g) \/ Raise(g) \/ Approve(g) \/ Crash(g)
  \/ Server
  \/ \E w \in Workers : Worker(w) \/ WorkerDies(w)

Spec == Init /\ [][Next]_vars

\* The processes run and the servers serve; nobody need approve anything.  A
\* free worker is not passed over for ever when a message can be fetched.
Fairness ==
  /\ \A g \in Graphs : WF_vars(Step(g))
  /\ \A t \in Tasks : WF_vars(Publish(t)) /\ WF_vars(AckWaitEnds(t))
  /\ \A w \in Workers : WF_vars(Worker(w))

FairSpec == Spec /\ Fairness
-----------------------------------------------------------------------------
PlanType == [lines : 0..MaxLines, marked : BOOLEAN,
             ids : [Lines -> rows \union {NoTask}],
             seen : [Tasks -> Statuses \union {"unread"}],
             replanned : SUBSET rows]

TypeOK ==
  /\ status \in [Tasks -> Statuses]
  /\ claimed_by \in [Tasks -> Graphs \union Workers \union {NoWorker}]
  /\ events \in [Tasks -> Seq({"PR_OPENED", "FAILED"})]
  /\ rows \subseteq Tasks
  /\ marked \subseteq rows
  /\ parent \in [Tasks -> rows \union {NoTask}]
  /\ line \in [Tasks -> {0} \union Lines]
  /\ stream \in [Tasks -> Queue!Entry]
  /\ hand \in [Workers -> rows \union {NoTask}]
  /\ down \subseteq Workers
  /\ pc \in [Graphs -> PCs]
  /\ cur \in [Graphs -> rows \union {NoTask}]
  /\ plan \in [Graphs -> PlanType]
  /\ done \subseteq Graphs
  /\ raised \subseteq rows

Children(t) == {c \in rows : parent[c] = t}

\* A decomposed task is done only when each line of its plan that was written
\* has a subtask that is done, whichever of its replacements that is
\* (orchestrator_langgraph.py:121, after the replacement of line 120).
DoneBySubtasks ==
  \A t \in rows : status[t] = "done" =>
    \A c \in Children(t) :
      \E k \in Children(t) : line[k] = line[c] /\ status[k] = "done"

\* A line is written again only after the subtask before has failed: two
\* engines never work on the same line (orchestrator_langgraph.py:110-120).
OneLivePerLine ==
  \A c, d \in rows :
    /\ parent[c] = parent[d] /\ line[c] = line[d] /\ line[c] # 0
    /\ status[c] # "failed" /\ status[d] # "failed"
    => c = d

Held(g) == IF pc[g] \in Holding THEN cur[g] ELSE NoTask

\* A claimed row is in the hands of its owner, or the owner is dead, or its
\* graph has raised an exception: nothing else leaves a claim behind
\* (orchestrator_langgraph.py:188-204).
ClaimsExplained ==
  \A t \in rows : status[t] = "claimed" =>
    \/ \E w \in Workers : claimed_by[t] = w /\ (hand[w] = t \/ w \in down)
    \/ \E g \in Graphs : claimed_by[t] = g /\ (Held(g) = t \/ pc[g] = "dead")
    \/ t \in raised

\* The orchestrator is a "drop-in alternative consumer"
\* (orchestrator_langgraph.py:5): beside plain workers it keeps what TaskBoard
\* promises, one owner, a final verdict and one event for it.
Hands == [h \in Graphs \union Workers |->
            IF h \in Graphs THEN Held(h) ELSE hand[h]]
Board == INSTANCE TaskBoard
           WITH Workers <- Graphs \union Workers, hand <- Hands
BoardSpec == Board!Spec

\* What can hold a subtask back for ever: an owner that died, raised, or waits
\* for a human; a task that went back to pending when its message was out of
\* deliveries, or acked by another consumer (AgentWorker's RetryHasMessage).
Stuck(t) ==
  \/ t \in raised
  \/ stream[t].state \in {"exhausted", "gone"} /\ status[t] = "pending"
  \/ /\ status[t] = "claimed"
     /\ \/ claimed_by[t] \in down
        \/ \E g \in Graphs : claimed_by[t] = g /\ pc[g] \in {"dead", "interrupted"}

OutOfIds(h) ==
  /\ rows = Tasks
  /\ pc[h] = "emitting" \/ (pc[h] = "scanning" /\ ToReplan(h) # {})

\* Where a live plain worker serves the role, a coordinator does not wait for
\* ever: it ends its plan, unless a task is stuck or the ids, of which
\* the model has finitely many, run out (orchestrator_langgraph.py:109-127).  It is
\* said of the orchestrators that are neither killed nor meet an exception: the
\* others do the same until then.
PlansEnd ==
  \A g \in Graphs \ Mortal :
    pc[g] \in Waiting ~>
      \/ pc[g] \notin Waiting
      \/ Workers \subseteq down
      \/ \E h \in Graphs : OutOfIds(h)
      \/ \E t \in rows : Stuck(t)
=============================================================================
