----------------------------- MODULE DlqTriage -----------------------------
(***************************************************************************)
(* scripts/dlq_triage.py beside the workers of AgentWorker: one triage     *)
(* process that drains SWARM_DLQ (restarted by cron or by hand when it     *)
(* dies), and the operator's replays.  A replay writes an outbox row with  *)
(* a fresh msg_id, so it publishes a new message: First are the messages   *)
(* of the ingested tasks, the others are what replays publish.  lapsed and *)
(* runs are history variables: no action depends on them.                  *)
(***************************************************************************)
EXTENDS AgentWorker

CONSTANTS First,       \* the messages whose outbox rows exist from the start
          Token,       \* does the Forgejo lease succeed?
          Ages         \* do the runs last until SWARM_TASKS' max-age (24h)?

ASSUME DlqTriageAssumption ==
  /\ First \subseteq Msgs
  /\ {Token, Ages} \subseteq BOOLEAN

VARIABLES
  outbox,    \* messages whose outbox row is committed and not yet published
  lapsed,    \* workers whose lock's TTL has ended since they took it
  runs,      \* per task, the engine runs started
  tpc,       \* the triage process
  batch,     \* the advisories it has fetched and not processed
  current,   \* the one it is processing
  taken,     \* advisories delivered, their ack-wait running
  closed,    \* advisories acked: SWARM_DLQ has removed them
  reported   \* advisories with a Forgejo issue

triage == <<tpc, batch, current, taken, closed, reported>>
history == <<lapsed, runs>>
dlqVars == <<vars, outbox, history, triage>>

TriageInit ==
  /\ Init
  /\ outbox = First
  /\ lapsed = {}
  /\ runs = [t \in Tasks |-> 0]
  /\ tpc = "idle"
  /\ batch = {}
  /\ current = NoMsg
  /\ taken = {}
  /\ closed = {}
  /\ reported = {}

-----------------------------------------------------------------------------
(* One round of triage().                                                  *)

Fetch10 ==
  /\ tpc = "idle"
  /\ \E fetched \in SUBSET (dlq \ (taken \union closed)) :
       /\ fetched # {}
       /\ batch' = fetched
       /\ taken' = taken \union fetched
  /\ tpc' = "next"
  /\ UNCHANGED <<vars, outbox, history, current, closed, reported>>

\* get_msg, then the UPDATE, which does not look at the status it replaces.
MarkFailed(m) ==
  /\ tpc = "next"
  /\ m \in batch
  /\ stream[m].state # "gone"
  /\ status' = [status EXCEPT ![TaskOf[m]] = "failed"]
  /\ current' = m
  /\ tpc' = "marked"
  /\ UNCHANGED <<claimed_by, attempt, events, results, stream, dlq, valkey,
                 overtime, pc, msg, outbox, history, batch, taken, closed,
                 reported>>

Dies ==
  /\ tpc' = "dead"
  /\ batch' = {}
  /\ current' = NoMsg
  /\ UNCHANGED <<vars, outbox, history, taken, closed, reported>>

\* get_msg raises for a sequence the stream no longer holds.
MessageLost(m) ==
  /\ tpc = "next"
  /\ m \in batch
  /\ stream[m].state = "gone"
  /\ Dies

OpenIssue ==
  /\ tpc = "marked"
  /\ reported' = IF Token THEN reported \union {current} ELSE reported
  /\ tpc' = "closing"
  /\ UNCHANGED <<vars, outbox, history, batch, current, taken, closed>>

\* raise_for_status, or the death of the process, at any point of the round.
TriageDies == tpc \notin {"idle", "dead"} /\ Dies

\* Mutants: the advisory is acked before the issue is open, and never acked.
CloseBeforeIssue ==
  /\ tpc \in {"marked", "closing"}
  /\ closed' = closed \union {current}
  /\ batch' = batch \ {current}
  /\ current' = NoMsg
  /\ tpc' = IF batch = {current} THEN "idle" ELSE "next"
  /\ UNCHANGED <<vars, outbox, history, taken, reported>>

CloseForgotten ==
  /\ tpc = "closing"
  /\ batch' = batch \ {current}
  /\ current' = NoMsg
  /\ tpc' = IF batch = {current} THEN "idle" ELSE "next"
  /\ UNCHANGED <<vars, outbox, history, taken, closed, reported>>

CloseAdvisory ==
  /\ tpc = "closing"
  /\ closed' = closed \union {current}
  /\ batch' = batch \ {current}
  /\ current' = NoMsg
  /\ tpc' = IF batch = {current} THEN "idle" ELSE "next"
  /\ UNCHANGED <<vars, outbox, history, taken, reported>>

TriageRestart ==
  /\ tpc = "dead"
  /\ tpc' = "idle"
  /\ UNCHANGED <<vars, outbox, history, batch, current, taken, closed,
                 reported>>

\* The ack-wait of a delivered advisory ends.
AdvisoryExpires(m) ==
  /\ m \in taken \ closed
  /\ taken' = taken \ {m}
  /\ UNCHANGED <<vars, outbox, history, tpc, batch, current, closed, reported>>

-----------------------------------------------------------------------------
\* replay(): the row back to pending and a fresh outbox row, in one
\* transaction, for any message the stream still holds and whatever the task's
\* status is.
Replay(m, n) ==
  /\ stream[m].state \notin {"absent", "gone"}
  /\ n \in Msgs \ (outbox \union First)
  /\ stream[n].state = "absent"
  /\ TaskOf[n] = TaskOf[m]
  /\ status' = [status EXCEPT ![TaskOf[m]] = "pending"]
  /\ claimed_by' = [claimed_by EXCEPT ![TaskOf[m]] = NoWorker]
  /\ attempt' = [attempt EXCEPT ![TaskOf[m]] = @ + 1]
  /\ outbox' = outbox \union {n}
  /\ UNCHANGED <<events, results, stream, dlq, valkey, overtime, pc, msg, history,
                 triage>>

PublishRow(m) ==
  /\ m \in outbox
  /\ Publish(m)
  /\ outbox' = outbox \ {m}
  /\ UNCHANGED <<history, triage>>

\* SWARM_TASKS drops a message after 24 hours, wherever it is.
AgeOut(m) ==
  /\ Ages
  /\ stream[m].state \notin {"absent", "gone"}
  /\ stream' = Remove(stream, m)
  /\ UNCHANGED <<board, events, results, dlq, valkey, overtime, pc, msg, outbox,
                 history, triage>>

\* The workers and the servers' clocks beside the triage.
Works(w) ==
  /\ Step(w)
  /\ IF pc[w] = "cleared" /\ pc'[w] = "working"
       THEN /\ lapsed' = lapsed \ {w}
            /\ runs' = [runs EXCEPT ![task(w)] = @ + 1]
       ELSE UNCHANGED history
  /\ UNCHANGED <<outbox, triage>>

LockLapses(t) ==
  /\ LockTtlEnds(t)
  /\ lapsed' = lapsed \union {lock[t]}
  /\ UNCHANGED <<outbox, runs, triage>>

Others == UNCHANGED <<outbox, history, triage>>

Triage == \/ Fetch10 \/ OpenIssue \/ CloseAdvisory \/ TriageRestart
          \/ \E m \in Msgs : MarkFailed(m) \/ MessageLost(m)

TriageNext ==
  \/ \E w \in Workers : Works(w)
  \/ Death /\ Others
  \/ \E m \in Msgs : AckWaitEnds(m) /\ Others
  \/ \E t \in Tasks : LockLapses(t) \/ (WallClockEnds(t) /\ Others)
  \/ Triage \/ TriageDies
  \/ \E m \in Msgs : AdvisoryExpires(m) \/ PublishRow(m) \/ AgeOut(m)
  \/ \E m, n \in Msgs : Replay(m, n)

TriageSpec == TriageInit /\ [][TriageNext]_dlqVars

\* The triage is run again and again (cron, or --watch under a supervisor),
\* and an outage that kills it does not strike the same call for ever.
TriageFairness ==
  /\ WF_dlqVars(Triage)
  /\ SF_dlqVars(OpenIssue) /\ SF_dlqVars(CloseAdvisory)
  /\ \A m \in Msgs : SF_dlqVars(MarkFailed(m)) /\ WF_dlqVars(AdvisoryExpires(m))

FairTriageSpec == TriageSpec /\ TriageFairness
-----------------------------------------------------------------------------
TriageTypeOK ==
  /\ TypeOK
  /\ outbox \subseteq Msgs
  /\ lapsed \subseteq Workers
  /\ runs \in [Tasks -> Nat]
  /\ tpc \in {"idle", "next", "marked", "closing", "dead"}
  /\ batch \subseteq dlq
  /\ current \in dlq \union {NoMsg}
  /\ taken \subseteq dlq
  /\ closed \subseteq dlq
  /\ reported \subseteq dlq

Running == {"working", "measuring", "emitting"}

\* Replays and triage take the row from a worker that still works on it, but
\* the Valkey lock keeps a second engine off the task until the TTL of one of
\* the two has ended (budget.py:117-136): in particular a worker that outlived
\* its lock does not delete its successor's.
EngineExclusive ==
  \A v, w \in Workers :
    /\ pc[v] \in Running /\ pc[w] \in Running
    /\ task(v) = task(w)
    => v = w \/ v \in lapsed \/ w \in lapsed

\* An advisory leaves SWARM_DLQ only with its issue open
\* (dlq_triage.py:112-114), whatever crash or redelivery comes between.
ClosedIsReported == Token => closed \subseteq reported

\* However often a task is replayed, and however its owners overlap, the engine
\* starts on it at most MAX_TASK_ATTEMPTS times: a replay resets the row, not
\* the count in Valkey (dlq_triage.py:129, budget.py:97-109).
RunsCapped == \A t \in Tasks : runs[t] <= MaxAttempts

\* An open advisory whose message has left SWARM_TASKS, by age or by the late
\* ack of its last worker, on which get_msg raises at every start.
Poisoned == \E m \in dlq \ closed : stream[m].state = "gone"

\* "Consumes MAX_DELIVERIES advisories from SWARM_DLQ" (dlq_triage.py:3): every
\* advisory is closed in the end, whatever crash, failed issue or expired fetch
\* comes between (88-114), as long as no advisory is poisoned.
AdvisoriesFlow == \A m \in Msgs : m \in dlq ~> (m \in closed \/ Poisoned)
=============================================================================
