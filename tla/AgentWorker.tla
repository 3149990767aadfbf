---------------------------- MODULE AgentWorker ----------------------------
(***************************************************************************)
(* agent/agent_worker.py: the instances of one role, which share a durable *)
(* JetStream consumer, the tasks table in Postgres, and the locks and      *)
(* counters in Valkey.  A worker is one process: a restarted process draws *)
(* a new WORKER_ID and is another element of Workers.                      *)
(*                                                                         *)
(* Every await of the worker's loop that reads or writes something another *)
(* process can see is a step of its own.  The run of the engine in the     *)
(* sandbox is abstracted to its outcomes (module Sandbox has its inside).  *)
(***************************************************************************)
EXTENDS JetStream, Sequences

CONSTANTS Workers,      \* process instances
          Mortal,       \* those that may be killed or die of an exception
          Tasks,
          TaskOf,       \* the task a message carries
          NoWorker, NoMsg, NoTask,
          MaxAttempts   \* MAX_TASK_ATTEMPTS

ASSUME AgentWorkerAssumption ==
  /\ Mortal \subseteq Workers
  /\ TaskOf \in [Msgs -> Tasks]
  /\ NoWorker \notin Workers
  /\ NoMsg \notin Msgs
  /\ NoTask \notin Tasks
  /\ MaxAttempts \in Nat

VARIABLES
  status, claimed_by, attempt,  \* columns of tasks
  events,     \* per task, the kinds of the AgentEvent rows in the outbox
  graded,     \* tasks whose first_pass_green and repair_cycles are recorded
  pushed,     \* tasks whose branch is on the forge
  stream,     \* SWARM_TASKS
  dlq,        \* messages with a MAX_DELIVERIES advisory in SWARM_DLQ
  lock,       \* Valkey lock:task:<id>: the worker whose token it holds
  recorded,   \* Valkey attempts:<id>, the breaker's cumulative count
  overtime,   \* tasks older than MAX_TASK_WALL_S
  pc, msg     \* per worker: where it is, and the message it fetched

board == <<status, claimed_by, attempt>>
valkey == <<lock, recorded>>
results == <<graded, pushed>>
vars == <<status, claimed_by, attempt, events, graded, pushed, stream, dlq,
          lock, recorded, overtime, pc, msg>>

Statuses == {"pending", "claimed", "done", "failed"}
Kinds == {"PR_OPENED", "FAILED"}

\* The points where the worker has won the claim and not yet given it up.
Deciding == {"claimed", "cleared", "working", "measuring", "emitting",
             "releaseRetry", "releaseFail", "releaseDie",
             "resetting", "failing"}

\* The points inside "async with valkey_lock".
Locked == {"working", "measuring", "emitting",
           "releaseOk", "releaseRetry", "releaseFail", "releaseDie"}

\* The points of the finally clause that deletes the lock, one per outcome of
\* the body, and where the worker goes next.
Releasing == {"releaseOk", "releaseRetry", "releaseFail", "releaseDie"}

AfterRelease(l) == CASE l = "releaseOk" -> "acking"
                     [] l = "releaseRetry" -> "resetting"
                     [] l = "releaseFail" -> "failing"
                     [] l = "releaseDie" -> "dead"

PCs == Deciding \union Locked \union
       {"idle", "fetched", "dropping", "acking", "naking", "terming", "dead"}

task(w) == TaskOf[msg[w]]

Init ==
  /\ status = [t \in Tasks |-> "pending"]
  /\ claimed_by = [t \in Tasks |-> NoWorker]
  /\ attempt = [t \in Tasks |-> 0]
  /\ events = [t \in Tasks |-> <<>>]
  /\ graded = {}
  /\ pushed = {}
  /\ stream = [m \in Msgs |-> Absent]
  /\ dlq = {}
  /\ lock = [t \in Tasks |-> NoWorker]
  /\ recorded = [t \in Tasks |-> 0]
  /\ overtime = {}
  /\ pc = [w \in Workers |-> "idle"]
  /\ msg = [w \in Workers |-> NoMsg]

Goto(w, l) == pc' = [pc EXCEPT ![w] = l]

\* The turn of the loop is over: the message is answered and dropped.
NextTurn(w) == Goto(w, "idle") /\ msg' = [msg EXCEPT ![w] = NoMsg]

-----------------------------------------------------------------------------
(* The loop: fetch, claim, and drop what another instance owns.            *)

Fetch(w, m) ==
  /\ pc[w] = "idle"
  /\ Deliverable(stream, m)
  /\ stream' = Deliver(stream, m)
  /\ msg' = [msg EXCEPT ![w] = m]
  /\ Goto(w, "fetched")
  /\ UNCHANGED <<board, events, results, dlq, valkey, overtime>>

\* Mutants of the claim: without "AND status='pending'"; without "claimed_by=$2".
ClaimWinAlways(w) ==
  /\ pc[w] = "fetched"
  /\ status' = [status EXCEPT ![task(w)] = "claimed"]
  /\ claimed_by' = [claimed_by EXCEPT ![task(w)] = w]
  /\ Goto(w, "claimed")
  /\ UNCHANGED <<attempt, events, results, stream, dlq, valkey, overtime, msg>>

ClaimWinAnonymous(w) ==
  /\ pc[w] = "fetched"
  /\ status[task(w)] = "pending"
  /\ status' = [status EXCEPT ![task(w)] = "claimed"]
  /\ Goto(w, "claimed")
  /\ UNCHANGED <<claimed_by, attempt, events, results, stream, dlq, valkey,
                 overtime, msg>>

\* pg_claim: the compare-and-set; the row it returns decides who owns the task.
ClaimWin(w) ==
  /\ pc[w] = "fetched"
  /\ status[task(w)] = "pending"
  /\ status' = [status EXCEPT ![task(w)] = "claimed"]
  /\ claimed_by' = [claimed_by EXCEPT ![task(w)] = w]
  /\ Goto(w, "claimed")
  /\ UNCHANGED <<attempt, events, results, stream, dlq, valkey, overtime, msg>>

ClaimLose(w) ==
  /\ pc[w] = "fetched"
  /\ status[task(w)] # "pending"
  /\ Goto(w, "dropping")
  /\ UNCHANGED <<board, events, results, stream, dlq, valkey, overtime, msg>>

\* m.ack(), of a message that is done or that another instance owns.
Ack(w) ==
  /\ pc[w] \in {"dropping", "acking"}
  /\ stream' = Remove(stream, msg[w])
  /\ NextTurn(w)
  /\ UNCHANGED <<board, events, results, dlq, valkey, overtime>>

-----------------------------------------------------------------------------
(* The attempt: circuit breaker, lock, engine run, results, event.         *)

\* Mutant: the cap is compared with the count before this attempt.
TripsLate(t) == recorded[t] > MaxAttempts \/ t \in overtime

Trips(t) == recorded[t] + 1 > MaxAttempts \/ t \in overtime

\* CircuitBreaker.check: it counts the attempt also when it trips.
Check(w) ==
  /\ pc[w] = "claimed"
  /\ recorded' = [recorded EXCEPT ![task(w)] = @ + 1]
  /\ Goto(w, IF Trips(task(w)) THEN "failing" ELSE "cleared")
  /\ UNCHANGED <<board, events, results, stream, dlq, lock, overtime, msg>>

\* valkey_lock's SET NX; a lock that is held raises TimeoutError, which main
\* handles as a transient failure.
Lock(w) ==
  /\ pc[w] = "cleared"
  /\ IF lock[task(w)] = NoWorker
       THEN /\ lock' = [lock EXCEPT ![task(w)] = w]
            /\ Goto(w, "working")
       ELSE /\ Goto(w, "resetting")
            /\ UNCHANGED lock
  /\ UNCHANGED <<board, events, results, stream, dlq, recorded, overtime, msg>>

RunGreen(w) ==
  /\ pc[w] = "working"
  /\ pushed' = pushed \union {task(w)}
  /\ Goto(w, "measuring")
  /\ UNCHANGED <<board, events, graded, stream, dlq, valkey, overtime, msg>>

\* TimeoutError or BudgetExceeded.  A push that timed out may have landed.
RunTransient(w) ==
  /\ pc[w] = "working"
  /\ \E landed \in SUBSET {task(w)} : pushed' = pushed \union landed
  /\ Goto(w, "releaseRetry")
  /\ UNCHANGED <<board, events, graded, stream, dlq, valkey, overtime, msg>>

\* PoisonError: red after the last repair cycle, a bad branch, a failed tool.
\* A push that lost its answer may have landed.
RunPoison(w) ==
  /\ pc[w] = "working"
  /\ \E landed \in SUBSET {task(w)} : pushed' = pushed \union landed
  /\ Goto(w, "releaseFail")
  /\ UNCHANGED <<board, events, graded, stream, dlq, valkey, overtime, msg>>

Measure(w) ==
  /\ pc[w] = "measuring"
  /\ graded' = graded \union {task(w)}
  /\ Goto(w, "emitting")
  /\ UNCHANGED <<board, events, pushed, stream, dlq, valkey, overtime, msg>>

\* Mutant: the status without the event row.
EmitStatusOnly(w, verdict, kind) ==
  /\ status' = [status EXCEPT ![task(w)] = verdict]
  /\ UNCHANGED <<claimed_by, attempt, events, results, stream, dlq, valkey,
                 overtime, msg>>

\* emit: the status, for whoever owns the row, and the event row, in one
\* transaction.
Emit(w, verdict, kind) ==
  /\ status' = [status EXCEPT ![task(w)] = verdict]
  /\ events' = [events EXCEPT ![task(w)] = Append(@, kind)]
  /\ UNCHANGED <<claimed_by, attempt, results, stream, dlq, valkey, overtime,
                 msg>>

EmitDone(w) ==
  /\ pc[w] = "emitting"
  /\ Emit(w, "done", "PR_OPENED")
  /\ Goto(w, "releaseOk")

\* Mutant: the lock is deleted whoever holds it.
ReleaseAny(w) ==
  /\ pc[w] \in Releasing
  /\ lock' = [lock EXCEPT ![task(w)] = NoWorker]
  /\ Goto(w, AfterRelease(pc[w]))
  /\ UNCHANGED <<board, events, results, stream, dlq, recorded, overtime, msg>>

\* valkey_lock's finally clause: compare-and-delete, whatever the outcome.
Release(w) ==
  /\ pc[w] \in Releasing
  /\ lock' = [lock EXCEPT ![task(w)] = IF @ = w THEN NoWorker ELSE @]
  /\ Goto(w, AfterRelease(pc[w]))
  /\ UNCHANGED <<board, events, results, stream, dlq, recorded, overtime, msg>>

-----------------------------------------------------------------------------
(* The except clauses: a transient failure, and a poisoned or snowballed   *)
(* task.                                                                   *)

\* Mutants: nak without the reset, and a reset that does not count.
ResetForgotten(w) ==
  /\ pc[w] = "resetting"
  /\ Goto(w, "naking")
  /\ UNCHANGED <<board, events, results, stream, dlq, valkey, overtime, msg>>

ResetUncounted(w) ==
  /\ pc[w] = "resetting"
  /\ status' = [status EXCEPT ![task(w)] = "pending"]
  /\ claimed_by' = [claimed_by EXCEPT ![task(w)] = NoWorker]
  /\ Goto(w, "naking")
  /\ UNCHANGED <<attempt, events, results, stream, dlq, valkey, overtime, msg>>

ResetPending(w) ==
  /\ pc[w] = "resetting"
  /\ status' = [status EXCEPT ![task(w)] = "pending"]
  /\ claimed_by' = [claimed_by EXCEPT ![task(w)] = NoWorker]
  /\ attempt' = [attempt EXCEPT ![task(w)] = @ + 1]
  /\ Goto(w, "naking")
  /\ UNCHANGED <<events, results, stream, dlq, valkey, overtime, msg>>

Nak(w) ==
  /\ pc[w] = "naking"
  /\ stream' = Requeue(stream, msg[w])
  /\ dlq' = Advise(dlq, stream, msg[w])
  /\ NextTurn(w)
  /\ UNCHANGED <<board, events, results, valkey, overtime>>

EmitFailed(w) ==
  /\ pc[w] = "failing"
  /\ Emit(w, "failed", "FAILED")
  /\ Goto(w, "terming")

Term(w) ==
  /\ pc[w] = "terming"
  /\ stream' = Remove(stream, msg[w])
  /\ NextTurn(w)
  /\ UNCHANGED <<board, events, results, dlq, valkey, overtime>>

\* ack, nak and term publish without waiting for an answer: one that is lost on
\* its way leaves the worker none the wiser, and the message in flight.
AnswerLost(w) ==
  /\ pc[w] \in {"dropping", "acking", "naking", "terming"}
  /\ NextTurn(w)
  /\ UNCHANGED <<board, events, results, stream, dlq, valkey, overtime>>

-----------------------------------------------------------------------------
(* Death, and the clocks of the servers.                                   *)

\* The process is killed: nothing more runs, the lock keeps its token.
Crash(w) ==
  /\ w \in Mortal
  /\ pc[w] # "dead"
  /\ Goto(w, "dead")
  /\ UNCHANGED <<board, events, results, stream, dlq, valkey, overtime, msg>>

\* An exception no clause of main catches (a lost Postgres or Valkey
\* connection, a lease that fails) ends the process through the finally.
Fault(w) ==
  /\ w \in Mortal
  /\ pc[w] \in {"working", "measuring", "emitting"}
  /\ Goto(w, "releaseDie")
  /\ UNCHANGED <<board, events, results, stream, dlq, valkey, overtime, msg>>

\* The relay publishes a message of the task (a second one for the same task
\* is a republication outside the dedupe window).
Publish(m) ==
  /\ stream[m].state = "absent"
  /\ stream' = Store(stream, m)
  /\ UNCHANGED <<board, events, results, dlq, valkey, overtime, pc, msg>>

\* The first rung of the ladder is one second and no worker extends it, so it
\* may end while the message's worker is anywhere.
AckWaitEnds(m) ==
  /\ stream[m].state = "inflight"
  /\ stream' = Requeue(stream, m)
  /\ dlq' = Advise(dlq, stream, m)
  /\ UNCHANGED <<board, events, results, valkey, overtime, pc, msg>>

LockTtlEnds(t) ==
  /\ lock[t] # NoWorker
  /\ lock' = [lock EXCEPT ![t] = NoWorker]
  /\ UNCHANGED <<board, events, results, stream, dlq, recorded, overtime, pc,
                 msg>>

WallClockEnds(t) ==
  /\ t \notin overtime
  /\ overtime' = overtime \union {t}
  /\ UNCHANGED <<board, events, results, stream, dlq, valkey, pc, msg>>

-----------------------------------------------------------------------------
Run(w) == RunGreen(w) \/ RunTransient(w) \/ RunPoison(w)

\* What a live worker does by itself.
Step(w) ==
  \/ \E m \in Msgs : Fetch(w, m)
  \/ ClaimWin(w) \/ ClaimLose(w) \/ Ack(w)
  \/ Check(w) \/ Lock(w)
  \/ Run(w) \/ Measure(w) \/ EmitDone(w) \/ Release(w)
  \/ ResetPending(w) \/ Nak(w) \/ EmitFailed(w) \/ Term(w) \/ AnswerLost(w)

Server == \/ \E m \in Msgs : Publish(m) \/ AckWaitEnds(m)
          \/ \E t \in Tasks : LockTtlEnds(t) \/ WallClockEnds(t)

Death == \E w \in Workers : Crash(w) \/ Fault(w)

Next == (\E w \in Workers : Step(w)) \/ Server \/ Death

Spec == Init /\ [][Next]_vars

\* A live worker's loop never stops by itself, the relay publishes what the
\* outbox holds, and the server's ack-wait timers end.
Fairness ==
  /\ \A w \in Workers : WF_vars(Step(w))
  /\ \A m \in Msgs : WF_vars(Publish(m)) /\ WF_vars(AckWaitEnds(m))

FairSpec == Spec /\ Fairness
-----------------------------------------------------------------------------
TypeOK ==
  /\ status \in [Tasks -> Statuses]
  /\ claimed_by \in [Tasks -> Workers \union {NoWorker}]
  /\ attempt \in [Tasks -> Nat]
  /\ events \in [Tasks -> Seq(Kinds)]
  /\ graded \subseteq Tasks
  /\ pushed \subseteq Tasks
  /\ stream \in [Msgs -> Entry]
  /\ dlq \subseteq Msgs
  /\ lock \in [Tasks -> Workers \union {NoWorker}]
  /\ recorded \in [Tasks -> Nat]
  /\ overtime \subseteq Tasks
  /\ pc \in [Workers -> PCs]
  /\ msg \in [Workers -> Msgs \union {NoMsg}]
  /\ \A w \in Workers : pc[w] \notin {"idle", "dead"} => msg[w] \in Msgs

\* A worker between its claim and its verdict is the only one: the row is
\* claimed, in its name, and no other worker works on the same task, however
\* many messages carry it and however often they are redelivered
\* (agent_worker.py:65-75 and the unconditional updates of 99 and 225).
OneOwner ==
  \A w \in Workers : pc[w] \in Deciding =>
    /\ status[task(w)] = "claimed"
    /\ claimed_by[task(w)] = w

\* A claimed row is always in somebody's hand, unless that process died: the
\* code paths that end an attempt never leave a claim behind.
NoOrphanClaim ==
  \A t \in Tasks : status[t] = "claimed" =>
    \E w \in Workers :
      /\ claimed_by[t] = w
      /\ pc[w] = "dead" \/ (pc[w] \in Deciding /\ task(w) = t)

\* The event log and the table agree: a task has posted its verdict's event
\* exactly once if it is decided, and nothing before (the one transaction of
\* emit, agent_worker.py:96-108), and a done task has its results recorded and
\* its branch pushed.
EventsMatchVerdicts ==
  \A t \in Tasks :
    /\ status[t] = "done" => events[t] = <<"PR_OPENED">>
    /\ status[t] = "failed" => events[t] = <<"FAILED">>
    /\ status[t] \in {"pending", "claimed"} => events[t] = <<>>
    /\ status[t] = "done" => t \in graded /\ t \in pushed

\* Postgres' attempt column and Valkey's attempts key count the same attempts
\* (agent_worker.py:225, budget.py:97-100): they differ only by the attempt
\* under way, or the one whose verdict or death ended the series.
AttemptsAgree ==
  \A t \in Tasks :
    /\ attempt[t] <= recorded[t] /\ recorded[t] <= attempt[t] + 1
    /\ status[t] = "pending" => recorded[t] = attempt[t]

\* No engine run starts for a task beyond its attempts cap (budget.py:102-109),
\* over all messages and all instances together.
BreakerHolds ==
  \A w \in Workers :
    pc[w] \in Locked \union {"cleared"} => recorded[task(w)] <= MaxAttempts

\* The lock is never contended between workers: the claim already keeps a
\* second instance out (budget.py:121-123 behind agent_worker.py:195-199), and
\* what a lock's holder leaves behind never meets another attempt.
LockNeverContended ==
  \A w \in Workers : pc[w] = "cleared" => lock[task(w)] = NoWorker

\* "transient failure (budget/timeout) -> nak(delay=30) -> JetStream retry"
\* (agent_worker.py:14): a task waiting for a retry still has a message to be
\* retried with, one not published yet or one the stream still holds.
RetryHasMessage ==
  \A t \in Tasks : status[t] = "pending" =>
    \E m \in Msgs : TaskOf[m] = t /\ stream[m].state # "gone"

\* The verdict is final: no later step changes a decided row or its events.
VerdictIsFinal ==
  [][\A t \in Tasks : status[t] \in {"done", "failed"} =>
       status'[t] = status[t] /\ claimed_by'[t] = claimed_by[t]
                              /\ events'[t] = events[t]]_vars

\* The claim protocol implements the task board.
Hand == [w \in Workers |-> IF pc[w] \in Deciding THEN task(w) ELSE NoTask]
Board == INSTANCE TaskBoard WITH hand <- Hand
BoardSpec == Board!Spec

\* Every message the relay publishes is settled in the end: acked, terminated,
\* or out of deliveries and announced to SWARM_DLQ.
MessagesSettle ==
  \A m \in Msgs : <>[](stream[m].state = "gone" \/ m \in dlq)

\* The two ways the code has to strand a task: claimed by a process that died
\* (CrashedTaskResumes), or reset after all its messages were acked or
\* terminated by others (RetryHasMessage).
Stranded(t) ==
  \/ status[t] = "claimed" /\ \E w \in Workers : claimed_by[t] = w /\ pc[w] = "dead"
  \/ status[t] = "pending" /\ \A m \in Msgs : TaskOf[m] = t => stream[m].state = "gone"

\* Every task ends with a verdict, in the dead-letter queue, or stranded in one
\* of those two ways: no other path through the loop, whatever is redelivered
\* early or answered in vain, drops a task (agent_worker.py:193-253).
TasksEnd ==
  \A t \in Tasks :
    <>[](\/ status[t] \in {"done", "failed"}
         \/ \E m \in dlq : TaskOf[m] = t
         \/ Stranded(t))

\* "worker crash mid-task -> message un-acked -> redelivered after ack-wait to
\* another instance" (agent_worker.py:17-18): a task whose owner died is taken
\* up again, or at least reported to the dead-letter queue.
CrashedTaskResumes ==
  \A t \in Tasks, w \in Workers :
    (status[t] = "claimed" /\ claimed_by[t] = w /\ pc[w] = "dead")
      ~> (status[t] # "claimed" \/ \E m \in dlq : TaskOf[m] = t)
=============================================================================
