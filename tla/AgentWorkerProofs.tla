------------------------- MODULE AgentWorkerProofs -------------------------
(***************************************************************************)
(* Proofs about AgentWorker, for any number of workers, tasks, messages    *)
(* and duplicates, any delivery bound and any expiry of the ack-wait; and  *)
(* about the same workers beside the triage and the replays of DlqTriage.  *)
(***************************************************************************)
EXTENDS DlqTriage, FiniteSetTheorems, TLAPS

USE JetStreamAssumption, AgentWorkerAssumption

\* A stream of well-formed entries, where what can be delivered has a delivery
\* left: Requeue stops at the bound.
StreamOK(s) ==
  /\ s \in [Msgs -> Entry]
  /\ \A m \in Msgs : s[m].state \in {"absent", "ready"}
                       => s[m].deliveries < MaxDeliver

\* Storing, delivering, removing and requeueing keep the stream well formed.
LEMMA StreamOps ==
  ASSUME NEW s, StreamOK(s), NEW m \in Msgs
  PROVE  /\ s[m].state = "absent" => StreamOK(Store(s, m))
         /\ Deliverable(s, m) => StreamOK(Deliver(s, m))
         /\ StreamOK(Remove(s, m))
         /\ StreamOK(Requeue(s, m))
<1> USE DEF StreamOK, Entry, MsgState
<1>1. s[m].state = "absent" => StreamOK(Store(s, m))
  BY DEF Store
<1>2. Deliverable(s, m) => StreamOK(Deliver(s, m))
  BY DEF Deliverable, Deliver
<1>3. StreamOK(Remove(s, m))
  BY DEF Remove
<1>4. StreamOK(Requeue(s, m))
  BY DEF Requeue, LastDelivery
<1> QED
  BY <1>1, <1>2, <1>3, <1>4
-----------------------------------------------------------------------------
\* The inductive invariant, part by part.

\* The evidence a verdict needs is there before the verdict, and the verdict
\* before the lock is released.
EvidenceFirst ==
  \A w \in Workers :
    /\ pc[w] \in {"measuring", "emitting"} => task(w) \in pushed
    /\ pc[w] = "emitting" => task(w) \in graded
    /\ pc[w] = "releaseOk" => status[task(w)] = "done"

\* Which of the two attempt counters is ahead follows from where the owner is.
AttemptPhase ==
  \A w \in Workers :
    /\ pc[w] = "claimed" => recorded[task(w)] = attempt[task(w)]
    /\ pc[w] \in Deciding \ {"claimed"}
         => recorded[task(w)] = attempt[task(w)] + 1

\* Who holds a task's lock owns its row and is inside the lock for that very
\* task, or is dead.
LockOwner ==
  \A t \in Tasks : lock[t] # NoWorker =>
    /\ status[t] # "pending"
    /\ claimed_by[t] = lock[t]
    /\ \/ pc[lock[t]] = "dead"
       \/ pc[lock[t]] \in Locked /\ task(lock[t]) = t

\* NoOrphanClaim with its witness named: the worker of claimed_by.
ClaimHeld ==
  \A t \in Tasks : status[t] = "claimed" =>
    /\ claimed_by[t] \in Workers
    /\ \/ pc[claimed_by[t]] = "dead"
       \/ pc[claimed_by[t]] \in Deciding /\ task(claimed_by[t]) = t

Ledger == EventsMatchVerdicts /\ EvidenceFirst
Counters == AttemptPhase /\ AttemptsAgree /\ BreakerHolds
Claims == OneOwner /\ ClaimHeld /\ LockOwner

Inv == TypeOK /\ StreamOK(stream) /\ Claims /\ Ledger /\ Counters
-----------------------------------------------------------------------------
Typed == TypeOK /\ StreamOK(stream)

\* The initial state is well typed.
LEMMA InitTyped == Init => Typed
BY DEF Init, Typed, TypeOK, StreamOK, Statuses, PCs, Entry, MsgState, Absent

\* Every step keeps the types and the delivery bound.
LEMMA StepTyped == Typed /\ [Next]_vars => Typed'
<1> SUFFICES ASSUME Typed, [Next]_vars PROVE Typed'
  OBVIOUS
<1> USE DEF Typed, TypeOK, Goto, NextTurn, board, results, valkey, task
<1>s. \A m \in Msgs :
        /\ stream[m].state = "absent" => StreamOK(Store(stream, m))
        /\ Deliverable(stream, m) => StreamOK(Deliver(stream, m))
        /\ StreamOK(Remove(stream, m))
        /\ StreamOK(Requeue(stream, m))
        /\ Advise(dlq, stream, m) \subseteq Msgs
  <2>1. \A m \in Msgs : Advise(dlq, stream, m) \subseteq Msgs
    BY DEF Advise
  <2> QED
    BY <2>1, StreamOps
<1>t. \A s : StreamOK(s) => s \in [Msgs -> Entry]
  BY DEF StreamOK
<1>p. Deciding \subseteq PCs /\ Locked \subseteq PCs
      /\ {"idle", "fetched", "dropping", "acking", "naking", "terming", "dead"}
           \subseteq PCs
  BY DEF PCs
<1>1. ASSUME NEW w \in Workers, Step(w) PROVE Typed'
  <2>1. ASSUME NEW m \in Msgs, Fetch(w, m) PROVE Typed'
    BY <2>1, <1>s, <1>t, <1>p DEF Fetch
  <2>2. CASE ClaimWin(w)
    BY <2>2, <1>p DEF ClaimWin, Statuses, Deciding
  <2>3. CASE ClaimLose(w)
    BY <2>3, <1>p DEF ClaimLose
  <2>4. CASE Ack(w)
    BY <2>4, <1>s, <1>t, <1>p DEF Ack
  <2>5. CASE Check(w)
    BY <2>5, <1>p DEF Check, Deciding
  <2>6. CASE Lock(w)
    <3>1. lock' \in [Tasks -> Workers \union {NoWorker}]
      <4>1. CASE lock[task(w)] = NoWorker
        <5>1. lock' = [lock EXCEPT ![task(w)] = w]
          BY <2>6, <4>1 DEF Lock
        <5>2. \A t \in Tasks : lock'[t] \in Workers \union {NoWorker}
          BY <5>1
        <5> QED
          BY <5>1, <5>2
      <4>2. CASE lock[task(w)] # NoWorker
        BY <2>6, <4>2 DEF Lock
      <4> QED
        BY <4>1, <4>2
    <3>2. PICK at \in Deciding : pc' = [pc EXCEPT ![w] = at]
      BY <2>6 DEF Lock, Deciding
    <3> QED
      BY <2>6, <3>1, <3>2, <1>p DEF Lock, Deciding
  <2>8. CASE RunGreen(w)
    BY <2>8, <1>p DEF RunGreen, Deciding
  <2>9. CASE RunTransient(w)
    BY <2>9, <1>p DEF RunTransient, Deciding
  <2>10. CASE RunPoison(w)
    BY <2>10, <1>p DEF RunPoison, Deciding
  <2>11. CASE Measure(w)
    BY <2>11, <1>p DEF Measure, Deciding
  <2>12. CASE EmitDone(w)
    <3>1. pc[w] = "emitting" /\ msg[w] \in Msgs
      BY <2>12 DEF EmitDone
    <3>2. events' \in [Tasks -> Seq(Kinds)]
      <4>1. "PR_OPENED" \in Kinds
        BY DEF Kinds
      <4> QED
        BY <4>1, <2>12, <3>1 DEF EmitDone, Emit
    <3> QED
      BY <3>1, <3>2, <2>12, <1>p DEF EmitDone, Emit, Statuses, Locked
  <2>13. CASE Release(w)
    BY <2>13, <1>p DEF Release, Releasing, AfterRelease, Deciding
  <2>14. CASE ResetPending(w)
    BY <2>14, <1>p DEF ResetPending, Statuses
  <2>15. CASE Nak(w)
    BY <2>15, <1>s, <1>t, <1>p DEF Nak
  <2>16. CASE EmitFailed(w)
    <3>1. pc[w] = "failing" /\ msg[w] \in Msgs
      BY <2>16 DEF EmitFailed
    <3>2. events' \in [Tasks -> Seq(Kinds)]
      <4>1. "FAILED" \in Kinds
        BY DEF Kinds
      <4> QED
        BY <4>1, <2>16, <3>1 DEF EmitFailed, Emit
    <3> QED
      BY <3>1, <3>2, <2>16, <1>p DEF EmitFailed, Emit, Statuses
  <2>17. CASE Term(w)
    BY <2>17, <1>s, <1>t, <1>p DEF Term
  <2>18. CASE AnswerLost(w)
    BY <2>18, <1>p DEF AnswerLost
  <2> QED
    BY <1>1, <2>1, <2>2, <2>3, <2>4, <2>5, <2>6, <2>8, <2>9, <2>10,
       <2>11, <2>12, <2>13, <2>14, <2>15, <2>16, <2>17, <2>18
       DEF Step, Run
<1>2. CASE Server
  <2>1. ASSUME NEW m \in Msgs, Publish(m) PROVE Typed'
    BY <2>1, <1>s, <1>t DEF Publish
  <2>2. ASSUME NEW m \in Msgs, AckWaitEnds(m) PROVE Typed'
    BY <2>2, <1>s, <1>t DEF AckWaitEnds
  <2>3. ASSUME NEW t \in Tasks, LockTtlEnds(t) PROVE Typed'
    BY <2>3 DEF LockTtlEnds
  <2>4. ASSUME NEW t \in Tasks, WallClockEnds(t) PROVE Typed'
    BY <2>4 DEF WallClockEnds
  <2> QED
    BY <1>2, <2>1, <2>2, <2>3, <2>4 DEF Server
<1>3. CASE Death
  <2>1. ASSUME NEW w \in Workers, Crash(w) PROVE Typed'
    BY <2>1, <1>p DEF Crash
  <2>2. ASSUME NEW w \in Workers, Fault(w) PROVE Typed'
    BY <2>2, <1>p DEF Fault, Deciding
  <2> QED
    BY <1>3, <2>1, <2>2 DEF Death
<1>4. CASE UNCHANGED vars
  BY <1>4 DEF vars, StreamOK
<1> QED
  BY <1>1, <1>2, <1>3, <1>4 DEF Next

\* Every step keeps the ownership of claims and locks.
LEMMA StepClaims == Inv /\ Typed' /\ [Next]_vars => Claims'
<1> SUFFICES ASSUME Inv, Typed', [Next]_vars PROVE Claims'
  OBVIOUS
<1> USE DEF Inv, TypeOK, Typed, Goto, NextTurn, board, results, valkey, task,
            Claims, OneOwner, ClaimHeld, LockOwner, Deciding, Locked
<1>1. ASSUME NEW w \in Workers, Step(w) PROVE Claims'
  <2>1. ASSUME NEW m \in Msgs, Fetch(w, m) PROVE Claims'
    BY <2>1 DEF Fetch
  <2>2. CASE ClaimWin(w)
    BY <2>2 DEF ClaimWin
  <2>3. CASE ClaimLose(w)
    BY <2>3 DEF ClaimLose
  <2>4. CASE Ack(w)
    BY <2>4 DEF Ack
  <2>5. CASE Check(w)
    BY <2>5 DEF Check, Trips
  <2>6. CASE Lock(w)
    <3>f. /\ OneOwner /\ ClaimHeld /\ LockOwner
          /\ UNCHANGED <<status, claimed_by, msg>> /\ pc[w] = "cleared"
          /\ pc \in [Workers -> PCs] /\ lock \in [Tasks -> Workers \union {NoWorker}]
          /\ task(w) \in Tasks
      BY <2>6 DEF Lock
    <3>1. CASE lock[task(w)] = NoWorker
      <4>1. lock' = [lock EXCEPT ![task(w)] = w] /\ pc' = [pc EXCEPT ![w] = "working"]
        BY <2>6, <3>1 DEF Lock
      <4> HIDE DEF Inv, Typed, TypeOK
      <4> QED
        BY <3>f, <4>1, SMTT(30)
    <3>2. CASE lock[task(w)] # NoWorker
      <4>1. lock' = lock /\ pc' = [pc EXCEPT ![w] = "resetting"]
        BY <2>6, <3>2 DEF Lock
      <4> HIDE DEF Inv, Typed, TypeOK
      <4> QED
        BY <3>f, <4>1, SMTT(30)
    <3> QED
      BY <3>1, <3>2
  <2>8. CASE RunGreen(w)
    BY <2>8 DEF RunGreen
  <2>9. CASE RunTransient(w)
    BY <2>9 DEF RunTransient
  <2>10. CASE RunPoison(w)
    BY <2>10 DEF RunPoison
  <2>11. CASE Measure(w)
    BY <2>11 DEF Measure
  <2>12. CASE EmitDone(w)
    BY <2>12 DEF EmitDone, Emit
  <2>13. CASE Release(w)
    BY <2>13, SMTT(30) DEF Release, Releasing, AfterRelease
  <2>14. CASE ResetPending(w)
    BY <2>14 DEF ResetPending
  <2>15. CASE Nak(w)
    BY <2>15 DEF Nak
  <2>16. CASE EmitFailed(w)
    BY <2>16 DEF EmitFailed, Emit
  <2>17. CASE Term(w)
    BY <2>17 DEF Term
  <2>18. CASE AnswerLost(w)
    BY <2>18 DEF AnswerLost
  <2> QED
    BY <1>1, <2>1, <2>2, <2>3, <2>4, <2>5, <2>6, <2>8, <2>9, <2>10,
       <2>11, <2>12, <2>13, <2>14, <2>15, <2>16, <2>17, <2>18
       DEF Step, Run
<1>2. CASE Server
  <2>1. ASSUME NEW m \in Msgs, Publish(m) PROVE Claims'
    BY <2>1 DEF Publish
  <2>2. ASSUME NEW m \in Msgs, AckWaitEnds(m) PROVE Claims'
    BY <2>2 DEF AckWaitEnds
  <2>3. ASSUME NEW t \in Tasks, LockTtlEnds(t) PROVE Claims'
    BY <2>3 DEF LockTtlEnds
  <2>4. ASSUME NEW t \in Tasks, WallClockEnds(t) PROVE Claims'
    BY <2>4 DEF WallClockEnds
  <2> QED
    BY <1>2, <2>1, <2>2, <2>3, <2>4 DEF Server
<1>3. CASE Death
  <2>1. ASSUME NEW w \in Workers, Crash(w) PROVE Claims'
    BY <2>1 DEF Crash
  <2>2. ASSUME NEW w \in Workers, Fault(w) PROVE Claims'
    BY <2>2 DEF Fault
  <2> QED
    BY <1>3, <2>1, <2>2 DEF Death
<1>4. CASE UNCHANGED vars
  BY <1>4 DEF vars
<1> QED
  BY <1>1, <1>2, <1>3, <1>4 DEF Next

\* Every step keeps the events and the evidence in line with the verdicts.
LEMMA StepLedger == Inv /\ Typed' /\ [Next]_vars => Ledger'
<1> SUFFICES ASSUME Inv, Typed', [Next]_vars PROVE Ledger'
  OBVIOUS
<1> USE DEF Inv, TypeOK, Typed, Goto, NextTurn, board, results, valkey, task,
            Ledger, Claims, OneOwner, EventsMatchVerdicts, EvidenceFirst, Deciding
<1>1. ASSUME NEW w \in Workers, Step(w) PROVE Ledger'
  <2>1. ASSUME NEW m \in Msgs, Fetch(w, m) PROVE Ledger'
    BY <2>1 DEF Fetch
  <2>2. CASE ClaimWin(w)
    BY <2>2 DEF ClaimWin
  <2>3. CASE ClaimLose(w)
    BY <2>3 DEF ClaimLose
  <2>4. CASE Ack(w)
    BY <2>4 DEF Ack
  <2>5. CASE Check(w)
    BY <2>5 DEF Check, Trips
  <2>6. CASE Lock(w)
    BY <2>6 DEF Lock
  <2>8. CASE RunGreen(w)
    BY <2>8 DEF RunGreen
  <2>9. CASE RunTransient(w)
    BY <2>9 DEF RunTransient
  <2>10. CASE RunPoison(w)
    BY <2>10 DEF RunPoison
  <2>11. CASE Measure(w)
    BY <2>11 DEF Measure
  <2>12. CASE EmitDone(w)
    <3>1. task(w) \in Tasks /\ status[task(w)] = "claimed"
      BY <2>12 DEF EmitDone
    <3>2. events[task(w)] = <<>>
      BY <3>1
    <3>3. events' = [events EXCEPT ![task(w)] = <<"PR_OPENED">>]
      BY <3>1, <3>2, <2>12 DEF EmitDone, Emit
    <3>4. status' = [status EXCEPT ![task(w)] = "done"]
      BY <2>12 DEF EmitDone, Emit
    <3>5. EvidenceFirst'
      BY <2>12, <3>1, <3>4 DEF EmitDone, Emit
    <3>6. ASSUME NEW t \in Tasks, t # task(w)
          PROVE  status'[t] = status[t] /\ events'[t] = events[t]
      BY <3>3, <3>4, <3>6
    <3>7. status'[task(w)] = "done" /\ events'[task(w)] = <<"PR_OPENED">>
      BY <3>1, <3>3, <3>4
    <3>8. graded' = graded /\ pushed' = pushed
      BY <2>12 DEF EmitDone, Emit
    <3>9. task(w) \in graded /\ task(w) \in pushed
      BY <2>12 DEF EmitDone
    <3>10. EventsMatchVerdicts'
      <4> HIDE DEF Inv, TypeOK, Typed, task
      <4>1. EventsMatchVerdicts
        BY DEF Inv
      <4>2. SUFFICES ASSUME NEW t \in Tasks
            PROVE  /\ status'[t] = "done" => events'[t] = <<"PR_OPENED">>
                   /\ status'[t] = "failed" => events'[t] = <<"FAILED">>
                   /\ status'[t] \in {"pending", "claimed"} => events'[t] = <<>>
                   /\ status'[t] = "done" => t \in graded' /\ t \in pushed'
        OBVIOUS
      <4>3. CASE t = task(w)
        BY <4>3, <3>7, <3>8, <3>9
      <4>4. CASE t # task(w)
        BY <4>1, <4>4, <3>6, <3>8
      <4> QED
        BY <4>3, <4>4
    <3> QED
      BY <3>5, <3>10
  <2>13. CASE Release(w)
    BY <2>13 DEF Release, Releasing, AfterRelease
  <2>14. CASE ResetPending(w)
    BY <2>14 DEF ResetPending
  <2>15. CASE Nak(w)
    BY <2>15 DEF Nak
  <2>16. CASE EmitFailed(w)
    <3>1. task(w) \in Tasks /\ status[task(w)] = "claimed"
      BY <2>16 DEF EmitFailed
    <3>2. events[task(w)] = <<>>
      BY <3>1
    <3>3. events' = [events EXCEPT ![task(w)] = <<"FAILED">>]
      BY <3>1, <3>2, <2>16 DEF EmitFailed, Emit
    <3>4. status' = [status EXCEPT ![task(w)] = "failed"]
      BY <2>16 DEF EmitFailed, Emit
    <3>5. EvidenceFirst'
      BY <2>16, <3>1, <3>4 DEF EmitFailed, Emit
    <3>6. ASSUME NEW t \in Tasks, t # task(w)
          PROVE  status'[t] = status[t] /\ events'[t] = events[t]
      BY <3>3, <3>4, <3>6
    <3>7. status'[task(w)] = "failed" /\ events'[task(w)] = <<"FAILED">>
      BY <3>1, <3>3, <3>4
    <3>8. graded' = graded /\ pushed' = pushed
      BY <2>16 DEF EmitFailed, Emit
    <3>9. EventsMatchVerdicts'
      BY <2>16, <3>1, <3>6, <3>7, <3>8
    <3> QED
      BY <3>5, <3>9
  <2>17. CASE Term(w)
    BY <2>17 DEF Term
  <2>18. CASE AnswerLost(w)
    BY <2>18 DEF AnswerLost
  <2> QED
    BY <1>1, <2>1, <2>2, <2>3, <2>4, <2>5, <2>6, <2>8, <2>9, <2>10,
       <2>11, <2>12, <2>13, <2>14, <2>15, <2>16, <2>17, <2>18
       DEF Step, Run
<1>2. CASE Server
  <2>1. ASSUME NEW m \in Msgs, Publish(m) PROVE Ledger'
    BY <2>1 DEF Publish
  <2>2. ASSUME NEW m \in Msgs, AckWaitEnds(m) PROVE Ledger'
    BY <2>2 DEF AckWaitEnds
  <2>3. ASSUME NEW t \in Tasks, LockTtlEnds(t) PROVE Ledger'
    BY <2>3 DEF LockTtlEnds
  <2>4. ASSUME NEW t \in Tasks, WallClockEnds(t) PROVE Ledger'
    BY <2>4 DEF WallClockEnds
  <2> QED
    BY <1>2, <2>1, <2>2, <2>3, <2>4 DEF Server
<1>3. CASE Death
  <2>1. ASSUME NEW w \in Workers, Crash(w) PROVE Ledger'
    BY <2>1 DEF Crash
  <2>2. ASSUME NEW w \in Workers, Fault(w) PROVE Ledger'
    BY <2>2 DEF Fault
  <2> QED
    BY <1>3, <2>1, <2>2 DEF Death
<1>4. CASE UNCHANGED vars
  BY <1>4 DEF vars
<1> QED
  BY <1>1, <1>2, <1>3, <1>4 DEF Next

\* Every step keeps the two attempt counters in step and under the cap.
LEMMA StepCounters == Inv /\ Typed' /\ [Next]_vars => Counters'
<1> SUFFICES ASSUME Inv, Typed', [Next]_vars PROVE Counters'
  OBVIOUS
<1> USE DEF Inv, TypeOK, Typed, Goto, NextTurn, board, results, valkey, task,
            Counters, Claims, OneOwner, Ledger, EvidenceFirst, AttemptPhase,
            AttemptsAgree, BreakerHolds, Deciding, Locked
<1>1. ASSUME NEW w \in Workers, Step(w) PROVE Counters'
  <2>1. ASSUME NEW m \in Msgs, Fetch(w, m) PROVE Counters'
    BY <2>1 DEF Fetch
  <2>2. CASE ClaimWin(w)
    BY <2>2 DEF ClaimWin
  <2>3. CASE ClaimLose(w)
    BY <2>3 DEF ClaimLose
  <2>4. CASE Ack(w)
    BY <2>4 DEF Ack
  <2>5. CASE Check(w)
    BY <2>5 DEF Check, Trips
  <2>6. CASE Lock(w)
    BY <2>6 DEF Lock
  <2>8. CASE RunGreen(w)
    BY <2>8 DEF RunGreen
  <2>9. CASE RunTransient(w)
    BY <2>9 DEF RunTransient
  <2>10. CASE RunPoison(w)
    BY <2>10 DEF RunPoison
  <2>11. CASE Measure(w)
    BY <2>11 DEF Measure
  <2>12. CASE EmitDone(w)
    BY <2>12 DEF EmitDone, Emit
  <2>13. CASE Release(w)
    BY <2>13 DEF Release, Releasing, AfterRelease
  <2>14. CASE ResetPending(w)
    BY <2>14 DEF ResetPending
  <2>15. CASE Nak(w)
    BY <2>15 DEF Nak
  <2>16. CASE EmitFailed(w)
    BY <2>16 DEF EmitFailed, Emit
  <2>17. CASE Term(w)
    BY <2>17 DEF Term
  <2>18. CASE AnswerLost(w)
    BY <2>18 DEF AnswerLost
  <2> QED
    BY <1>1, <2>1, <2>2, <2>3, <2>4, <2>5, <2>6, <2>8, <2>9, <2>10,
       <2>11, <2>12, <2>13, <2>14, <2>15, <2>16, <2>17, <2>18
       DEF Step, Run
<1>2. CASE Server
  <2>1. ASSUME NEW m \in Msgs, Publish(m) PROVE Counters'
    BY <2>1 DEF Publish
  <2>2. ASSUME NEW m \in Msgs, AckWaitEnds(m) PROVE Counters'
    BY <2>2 DEF AckWaitEnds
  <2>3. ASSUME NEW t \in Tasks, LockTtlEnds(t) PROVE Counters'
    BY <2>3 DEF LockTtlEnds
  <2>4. ASSUME NEW t \in Tasks, WallClockEnds(t) PROVE Counters'
    BY <2>4 DEF WallClockEnds
  <2> QED
    BY <1>2, <2>1, <2>2, <2>3, <2>4 DEF Server
<1>3. CASE Death
  <2>1. ASSUME NEW w \in Workers, Crash(w) PROVE Counters'
    BY <2>1 DEF Crash
  <2>2. ASSUME NEW w \in Workers, Fault(w) PROVE Counters'
    BY <2>2 DEF Fault
  <2> QED
    BY <1>3, <2>1, <2>2 DEF Death
<1>4. CASE UNCHANGED vars
  BY <1>4 DEF vars
<1> QED
  BY <1>1, <1>2, <1>3, <1>4 DEF Next
-----------------------------------------------------------------------------
\* The initial state satisfies the inductive invariant.
LEMMA InitInv == Init => Inv
<1> SUFFICES ASSUME Init PROVE Inv
  OBVIOUS
<1>1. TypeOK /\ StreamOK(stream)
  BY InitTyped DEF Typed
<1>2. Claims
  BY DEF Init, Claims, OneOwner, ClaimHeld, LockOwner, Deciding
<1>3. Ledger
  BY DEF Init, Ledger, EventsMatchVerdicts, EvidenceFirst
<1>4. Counters
  BY DEF Init, Counters, AttemptPhase, AttemptsAgree, BreakerHolds, Deciding,
         Locked
<1> QED
  BY <1>1, <1>2, <1>3, <1>4 DEF Inv

\* Every step keeps it.
LEMMA StepInv == Inv /\ [Next]_vars => Inv'
BY StepTyped, StepClaims, StepLedger, StepCounters DEF Inv, Typed

\* The inductive invariant holds in every reachable state.
THEOREM Invariant == Spec => []Inv
BY InitInv, StepInv, PTL DEF Spec

\* Every variable keeps its type: in particular no message is delivered more
\* than max_deliver times (bootstrap_jetstream.sh:46).
THEOREM TypeCorrect == Spec => []TypeOK
<1>1. Inv => TypeOK
  BY DEF Inv
<1> QED
  BY <1>1, Invariant, PTL

\* At most one worker decides a task, and the row says which one, for any
\* number of instances, duplicates and redeliveries (agent_worker.py:65-75).
THEOREM Ownership == Spec => [](OneOwner /\ NoOrphanClaim)
<1>1. Inv => OneOwner
  BY DEF Inv, Claims
<1>2. Inv => NoOrphanClaim
  BY DEF Inv, Claims, ClaimHeld, NoOrphanClaim
<1> QED
  BY <1>1, <1>2, Invariant, PTL

\* A claimed row is in the hand of the worker it names, or that worker died:
\* no path that ends an attempt leaves a claim behind (agent_worker.py:65-75).
THEOREM NoStrayClaim == Spec => []NoOrphanClaim
BY Ownership, PTL

\* One event per verdict, none without one (emit, agent_worker.py:96-108).
THEOREM OneEventPerVerdict == Spec => []EventsMatchVerdicts
<1>1. Inv => EventsMatchVerdicts
  BY DEF Inv, Ledger
<1> QED
  BY <1>1, Invariant, PTL

\* The counters of Postgres and Valkey agree, and the breaker's cap holds over
\* all instances (budget.py:97-109).
THEOREM AttemptsCounted == Spec => [](AttemptsAgree /\ BreakerHolds)
<1>1. Inv => AttemptsAgree /\ BreakerHolds
  BY DEF Inv, Counters
<1> QED
  BY <1>1, Invariant, PTL

\* The breaker's cap on its own, over all instances (budget.py:97-109).
THEOREM CapHolds == Spec => []BreakerHolds
BY AttemptsCounted, PTL

\* Behind the claim, no worker ever finds the task's lock taken
\* (budget.py:121-123).
THEOREM LockFree == Spec => []LockNeverContended
<1>1. ASSUME Inv, NEW w \in Workers, pc[w] = "cleared"
      PROVE  lock[task(w)] = NoWorker
  <2>1. task(w) \in Tasks
    BY <1>1 DEF Inv, TypeOK, task
  <2>2. claimed_by[task(w)] = w
    BY <1>1 DEF Inv, Claims, OneOwner, Deciding
  <2>3. lock[task(w)] # w
    BY <1>1, <2>1 DEF Inv, Claims, LockOwner, Locked
  <2> QED
    BY <1>1, <2>1, <2>2, <2>3 DEF Inv, Claims, LockOwner
<1>2. Inv => LockNeverContended
  BY <1>1 DEF LockNeverContended
<1> QED
  BY <1>2, Invariant, PTL
-----------------------------------------------------------------------------
\* The refinement: what each step does to the hands of the board.
HandOf(w) == IF pc[w] \in Deciding THEN task(w) ELSE NoTask

\* Hand changes only where HandOf does.
LEMMA HandUnchanged ==
  ASSUME \A w \in Workers : HandOf(w)' = HandOf(w)
  PROVE  Hand' = Hand
BY DEF Hand, HandOf

LEMMA HandUpdated ==
  ASSUME NEW w \in Workers, NEW h, HandOf(w)' = h,
         \A v \in Workers : v # w => HandOf(v)' = HandOf(v)
  PROVE  Hand' = [Hand EXCEPT ![w] = h]
BY DEF Hand, HandOf

\* A worker that decides holds its task on the board.
LEMMA DecidingHolds ==
  ASSUME Inv, NEW w \in Workers, pc[w] \in Deciding
  PROVE  task(w) \in Tasks /\ Board!Holds(w, task(w))
<1>1. task(w) \in Tasks
  BY DEF Inv, TypeOK, task, Deciding
<1>2. Hand[w] = task(w)
  BY DEF Hand
<1> QED
  BY <1>1, <1>2 DEF Inv, Claims, OneOwner, Board!Holds

\* Every step of the workers is a step of the board, or none.
LEMMA StepBoard == Inv /\ Typed' /\ [Next]_vars => [Board!Next]_(Board!vars)
<1> SUFFICES ASSUME Inv, Typed', [Next]_vars
             PROVE  [Board!Next]_(Board!vars)
  OBVIOUS
<1> USE DEF Goto, NextTurn, board, results, valkey
<1>t. TypeOK
  BY DEF Inv
<1>s. ASSUME UNCHANGED <<status, claimed_by, events>>,
             \A w \in Workers : HandOf(w)' = HandOf(w)
      PROVE  [Board!Next]_(Board!vars)
  BY <1>s, HandUnchanged DEF Board!vars
<1>a. ASSUME NEW w \in Workers, pc[w] \in Deciding, pc' = [pc EXCEPT ![w] = "dead"],
             UNCHANGED <<status, claimed_by, events, msg>>
      PROVE  Board!Next
  <2>1. HandOf(w)' = NoTask /\ \A v \in Workers : v # w => HandOf(v)' = HandOf(v)
    BY <1>a, <1>t DEF HandOf, TypeOK, Deciding, task
  <2>2. Board!Abandon(w, task(w))
    BY <1>a, <2>1, HandUpdated, DecidingHolds DEF Board!Abandon
  <2> QED
    BY <1>a, <2>2, DecidingHolds DEF Board!Next
<1>1. ASSUME NEW w \in Workers, Step(w) PROVE [Board!Next]_(Board!vars)
  <2>1. ASSUME NEW m \in Msgs, Fetch(w, m) PROVE [Board!Next]_(Board!vars)
    BY <2>1, <1>s, <1>t DEF Fetch, HandOf, TypeOK, Deciding, task
  <2>2. CASE ClaimWin(w)
    <3>1. task(w) \in Tasks /\ Hand[w] = NoTask
      BY <2>2, <1>t DEF ClaimWin, TypeOK, Hand, Deciding, task
    <3>2. HandOf(w)' = task(w)
          /\ \A v \in Workers : v # w => HandOf(v)' = HandOf(v)
      BY <2>2, <1>t DEF ClaimWin, HandOf, TypeOK, Deciding, task
    <3>3. Hand' = [Hand EXCEPT ![w] = task(w)]
      BY <3>2, HandUpdated
    <3>4. Board!Take(w, task(w))
      BY <2>2, <3>1, <3>3 DEF ClaimWin, Board!Take
    <3> QED
      BY <3>1, <3>4 DEF Board!Next
  <2>3. CASE ClaimLose(w)
    BY <2>3, <1>s, <1>t DEF ClaimLose, HandOf, TypeOK, Deciding, task
  <2>4. CASE Ack(w)
    BY <2>4, <1>s, <1>t DEF Ack, HandOf, TypeOK, Deciding, task
  <2>5. CASE Check(w)
    BY <2>5, <1>s, <1>t DEF Check, HandOf, TypeOK, Deciding, task
  <2>6. CASE Lock(w)
    BY <2>6, <1>s, <1>t DEF Lock, HandOf, TypeOK, Deciding, task
  <2>8. CASE RunGreen(w)
    BY <2>8, <1>s, <1>t DEF RunGreen, HandOf, TypeOK, Deciding, task
  <2>9. CASE RunTransient(w)
    BY <2>9, <1>s, <1>t DEF RunTransient, HandOf, TypeOK, Deciding, task
  <2>10. CASE RunPoison(w)
    BY <2>10, <1>s, <1>t DEF RunPoison, HandOf, TypeOK, Deciding, task
  <2>11. CASE Measure(w)
    BY <2>11, <1>s, <1>t DEF Measure, HandOf, TypeOK, Deciding, task
  <2>12. CASE Nak(w)
    BY <2>12, <1>s, <1>t DEF Nak, HandOf, TypeOK, Deciding, task
  <2>13. CASE Term(w)
    BY <2>13, <1>s, <1>t DEF Term, HandOf, TypeOK, Deciding, task
  <2>14. CASE EmitDone(w)
    <3>1. pc[w] \in Deciding
      BY <2>14 DEF EmitDone, Deciding
    <3>2. HandOf(w)' = NoTask
          /\ \A v \in Workers : v # w => HandOf(v)' = HandOf(v)
      BY <2>14, <1>t DEF EmitDone, Emit, HandOf, TypeOK, Deciding, task
    <3>3. Board!Decide(w, task(w), "done", "PR_OPENED")
      BY <2>14, <3>1, <3>2, HandUpdated, DecidingHolds
         DEF EmitDone, Emit, Board!Decide
    <3> QED
      BY <3>1, <3>3, DecidingHolds DEF Board!Next
  <2>15. CASE EmitFailed(w)
    <3>1. pc[w] \in Deciding
      BY <2>15 DEF EmitFailed, Deciding
    <3>2. HandOf(w)' = NoTask
          /\ \A v \in Workers : v # w => HandOf(v)' = HandOf(v)
      BY <2>15, <1>t DEF EmitFailed, Emit, HandOf, TypeOK, Deciding, task
    <3>3. Board!Decide(w, task(w), "failed", "FAILED")
      BY <2>15, <3>1, <3>2, HandUpdated, DecidingHolds
         DEF EmitFailed, Emit, Board!Decide
    <3> QED
      BY <3>1, <3>3, DecidingHolds DEF Board!Next
  <2>16. CASE ResetPending(w)
    <3>1. pc[w] \in Deciding
      BY <2>16 DEF ResetPending, Deciding
    <3>2. HandOf(w)' = NoTask
          /\ \A v \in Workers : v # w => HandOf(v)' = HandOf(v)
      BY <2>16, <1>t DEF ResetPending, HandOf, TypeOK, Deciding, task
    <3>3. Board!GiveBack(w, task(w))
      BY <2>16, <3>1, <3>2, HandUpdated, DecidingHolds
         DEF ResetPending, Board!GiveBack
    <3> QED
      BY <3>1, <3>3, DecidingHolds DEF Board!Next
  <2>17. CASE Release(w)
    <3>1. CASE pc[w] = "releaseDie"
      BY <2>17, <3>1, <1>a DEF Release, AfterRelease, Deciding
    <3>2. CASE pc[w] # "releaseDie"
      BY <2>17, <3>2, <1>s, <1>t
         DEF Release, Releasing, AfterRelease, HandOf, TypeOK, Deciding, task
    <3> QED
      BY <3>1, <3>2
  <2>18. CASE AnswerLost(w)
    BY <2>18, <1>s, <1>t DEF AnswerLost, HandOf, TypeOK, Deciding, task
  <2> QED
    BY <1>1, <2>1, <2>2, <2>3, <2>4, <2>5, <2>6, <2>8, <2>9, <2>10,
       <2>11, <2>12, <2>13, <2>14, <2>15, <2>16, <2>17, <2>18
       DEF Step, Run
<1>2. CASE Server
  BY <1>2, <1>s DEF Server, Publish, AckWaitEnds, LockTtlEnds, WallClockEnds,
                    HandOf, task
<1>3. CASE Death
  <2>1. ASSUME NEW w \in Workers, Crash(w) PROVE [Board!Next]_(Board!vars)
    <3>1. CASE pc[w] \in Deciding
      BY <2>1, <3>1, <1>a DEF Crash
    <3>2. CASE pc[w] \notin Deciding
      BY <2>1, <3>2, <1>s, <1>t DEF Crash, HandOf, TypeOK, Deciding, task
    <3> QED
      BY <3>1, <3>2
  <2>2. ASSUME NEW w \in Workers, Fault(w) PROVE [Board!Next]_(Board!vars)
    BY <2>2, <1>s, <1>t DEF Fault, HandOf, TypeOK, Deciding, task
  <2> QED
    BY <1>3, <2>1, <2>2 DEF Death
<1>4. CASE UNCHANGED vars
  BY <1>4, <1>s DEF vars, HandOf, task
<1> QED
  BY <1>1, <1>2, <1>3, <1>4 DEF Next

\* The claim protocol implements the task board: a task is in one hand at a
\* time, only that hand decides it or gives it back, decisions are final and
\* post one event each, whatever the stream, the lock and the clocks do.
THEOREM ImplementsBoard == Spec => BoardSpec
<1>1. Init => Board!Init
  BY DEF Init, Board!Init, Hand, Deciding
<1>2. Inv /\ [Next]_vars => [Board!Next]_(Board!vars)
  BY StepBoard, StepTyped DEF Inv, Typed
<1> QED
  BY <1>1, <1>2, Invariant, PTL DEF Spec, BoardSpec, Board!Spec

\* No step changes a decided row or its events.
THEOREM FinalVerdict == Spec => VerdictIsFinal
<1>1. Inv /\ [Next]_vars =>
        [\A t \in Tasks : status[t] \in {"done", "failed"} =>
           status'[t] = status[t] /\ claimed_by'[t] = claimed_by[t]
                                  /\ events'[t] = events[t]]_vars
  <2> SUFFICES ASSUME Inv, [Next]_vars, NEW t \in Tasks,
                      status[t] \in {"done", "failed"}
               PROVE  status'[t] = status[t] /\ claimed_by'[t] = claimed_by[t]
                                             /\ events'[t] = events[t]
    OBVIOUS
  <2>1. [Board!Next]_(Board!vars)
    BY StepBoard, StepTyped DEF Inv, Typed
  <2>2. CASE Board!Next
    BY <2>2 DEF Board!Next, Board!Take, Board!Decide, Board!GiveBack,
                Board!Abandon, Board!Holds, Inv, TypeOK
  <2> QED
    BY <2>1, <2>2 DEF Board!vars
<1> QED
  BY <1>1, Invariant, PTL DEF Spec, VerdictIsFinal

\* The claim of a worker that died is never given back: the row stays claimed in
\* its name for ever, whatever is redelivered to whom (the claim of
\* agent_worker.py:65-75 asks for a pending row, and only the owner's own except
\* clauses make it one).  Run crash_resumes shows what this does to line 17's
\* promise in one behaviour; this is every behaviour.
THEOREM DeadOwnerKeepsRow ==
  Spec => [][\A t \in Tasks, w \in Workers :
               status[t] = "claimed" /\ claimed_by[t] = w /\ pc[w] = "dead" =>
                 status'[t] = "claimed" /\ claimed_by'[t] = w /\ pc'[w] = "dead"]_vars
<1>1. Inv /\ [Next]_vars =>
        [\A t \in Tasks, w \in Workers :
           status[t] = "claimed" /\ claimed_by[t] = w /\ pc[w] = "dead" =>
             status'[t] = "claimed" /\ claimed_by'[t] = w /\ pc'[w] = "dead"]_vars
  <2> SUFFICES ASSUME Inv, [Next]_vars, NEW t \in Tasks, NEW w \in Workers,
                      status[t] = "claimed", claimed_by[t] = w, pc[w] = "dead"
               PROVE  status'[t] = "claimed" /\ claimed_by'[t] = w /\ pc'[w] = "dead"
    OBVIOUS
  <2> USE DEF Goto, NextTurn, board, task
  <2>t. /\ status \in [Tasks -> Statuses] /\ pc \in [Workers -> PCs]
        /\ claimed_by \in [Tasks -> Workers \union {NoWorker}]
        /\ \A v \in Workers : pc[v] \in Deciding /\ task(v) = t => v = w
    BY DEF Inv, TypeOK, Claims, OneOwner
  <2>1. ASSUME NEW v \in Workers, Step(v) PROVE v # w
    BY <2>1 DEF Step, Fetch, ClaimWin, ClaimLose, Ack, Check, Lock, Run, RunGreen, RunTransient,
         RunPoison, Measure, EmitDone, Release, Releasing, ResetPending, Nak, EmitFailed, Term, AnswerLost
  <2>2. ASSUME NEW v \in Workers \ {w}, Step(v)
        PROVE  pc'[w] = "dead" /\ status'[t] = status[t] /\ claimed_by'[t] = claimed_by[t]
    <3>1. CASE ClaimWin(v)
      BY <2>t, <3>1 DEF ClaimWin
    <3>2. CASE EmitDone(v) \/ EmitFailed(v) \/ ResetPending(v)
      <4>1. task(v) # t
        BY <2>t, <3>2 DEF EmitDone, EmitFailed, ResetPending, Deciding
      <4> QED
        BY <2>t, <3>2, <4>1 DEF EmitDone, EmitFailed, ResetPending, Emit
    <3>3. CASE ~ClaimWin(v) /\ ~EmitDone(v) /\ ~EmitFailed(v) /\ ~ResetPending(v)
      <4>1. UNCHANGED <<status, claimed_by>> /\ \A u \in Workers \ {v} : pc'[u] = pc[u]
        BY <2>t, <2>2, <3>3 DEF Step, Fetch, ClaimLose, Ack, Check, Lock, Run, RunGreen,
             RunTransient, RunPoison, Measure, Release, Nak, Term, AnswerLost
      <4> QED
        BY <4>1
    <3> QED
      BY <3>1, <3>2, <3>3
  <2>3. CASE Server \/ Death \/ UNCHANGED vars
    <3>1. UNCHANGED <<status, claimed_by>> /\ pc'[w] = "dead"
      BY <2>t, <2>3 DEF Server, Publish, AckWaitEnds, LockTtlEnds, WallClockEnds, Death, Crash,
           Fault, vars
    <3> QED
      BY <3>1
  <2> QED
    BY <2>1, <2>2, <2>3 DEF Next
<1> QED
  BY <1>1, Invariant, PTL DEF Spec
-----------------------------------------------------------------------------
(* DlqTriage: the workers beside the triage and the operator's replays,    *)
(* which take rows whoever owns them, so that Claims is lost.              *)

\* What happens beside the workers' steps, the ends of locks and the triage.
Clocks ==
  \/ Death
  \/ \E m \in Msgs : AckWaitEnds(m)
  \/ \E t \in Tasks : WallClockEnds(t)

\* What the workers and the servers do, the relay's publications apart.
Busy == Clocks \/ (\E w \in Workers : Step(w)) \/ (\E t \in Tasks : LockTtlEnds(t))

\* The rounds of the triage, which see nothing of the workers' but advisories.
Round ==
  \/ Fetch10 \/ OpenIssue \/ CloseAdvisory \/ TriageRestart \/ TriageDies
  \/ \E m \in Msgs : MessageLost(m) \/ AdvisoryExpires(m)

LEMMA TriageCases ==
  ASSUME [TriageNext]_dlqVars
  PROVE  \/ \E w \in Workers : Works(w)
         \/ \E t \in Tasks : LockLapses(t)
         \/ Clocks /\ Others
         \/ Round
         \/ UNCHANGED dlqVars
         \/ \E m \in Msgs : MarkFailed(m) \/ PublishRow(m) \/ AgeOut(m)
         \/ \E m, n \in Msgs : Replay(m, n)
BY DEF TriageNext, Triage, Clocks, Round

LEMMA BusyNext == Busy => Next
BY DEF Busy, Clocks, Next, Server

LEMMA RoundFacts == Round => UNCHANGED <<vars, outbox, history>>
BY DEF Round, Fetch10, OpenIssue, CloseAdvisory, TriageRestart, TriageDies,
       MessageLost, Dies, AdvisoryExpires

\* An advisory stays in SWARM_DLQ until the triage closes it.
LEMMA AdvisoriesStay == Busy => dlq \subseteq dlq'
<1> SUFFICES ASSUME Busy PROVE dlq \subseteq dlq'
  OBVIOUS
<1>1. \A w \in Workers : Step(w) => dlq' = dlq \/ Nak(w)
  BY DEF Step, Fetch, ClaimWin, ClaimLose, Ack, Check, Lock, Run, RunGreen,
         RunTransient, RunPoison, Measure, EmitDone, Emit, Release, ResetPending,
         EmitFailed, Term, AnswerLost
<1>2. \A w \in Workers : Nak(w) => dlq \subseteq dlq'
  BY DEF Nak, Advise
<1>3. \A m \in Msgs : AckWaitEnds(m) => dlq \subseteq dlq'
  BY DEF AckWaitEnds, Advise
<1>4. Death => dlq' = dlq
  BY DEF Death, Crash, Fault
<1>5. \A t \in Tasks : LockTtlEnds(t) \/ WallClockEnds(t) => dlq' = dlq
  BY DEF LockTtlEnds, WallClockEnds
<1> QED
  BY <1>1, <1>2, <1>3, <1>4, <1>5 DEF Busy, Clocks

TriageTyped == Typed /\ TriageTypeOK

\* The round of an advisory: only what is fetched and open is worked on, and it
\* is closed after its issue.
Rounds ==
  /\ tpc \in {"idle", "dead"} => batch = {}
  /\ tpc \in {"marked", "closing"} => current \in batch
  /\ batch \intersect closed = {}
  /\ Token /\ tpc = "closing" => current \in reported

LEMMA StepTriageTyped == TriageTyped /\ Rounds /\ [TriageNext]_dlqVars => TriageTyped'
<1> SUFFICES ASSUME TriageTyped, Rounds, [TriageNext]_dlqVars PROVE TriageTyped'
  OBVIOUS
<1>y. Typed /\ TypeOK /\ TriageTypeOK
  BY DEF TriageTyped, Typed
<1>0. ASSUME Busy, UNCHANGED <<outbox, triage>>, lapsed' \subseteq Workers,
             runs' \in [Tasks -> Nat]
      PROVE  TriageTyped'
  <2>1. Typed'
    BY <1>0, <1>y, BusyNext, StepTyped
  <2>2. dlq \subseteq dlq'
    BY <1>0, AdvisoriesStay
  <2> QED
    BY <1>0, <1>y, <2>1, <2>2 DEF TriageTyped, Typed, TriageTypeOK, triage
<1>1. CASE Clocks /\ Others
  BY <1>0, <1>1, <1>y DEF Busy, Others, history, TriageTypeOK
<1>7. ASSUME NEW w \in Workers, Works(w) PROVE TriageTyped'
  <2>1. lapsed' \subseteq Workers /\ runs' \in [Tasks -> Nat]
    BY <1>7, <1>y DEF Works, history, TriageTypeOK
  <2> QED
    BY <1>0, <1>7, <2>1 DEF Busy, Works
<1>8. ASSUME NEW t \in Tasks, LockLapses(t) PROVE TriageTyped'
  <2>1. lapsed' \subseteq Workers /\ runs' \in [Tasks -> Nat]
    BY <1>8, <1>y DEF LockLapses, LockTtlEnds, TriageTypeOK, TypeOK
  <2> QED
    BY <1>0, <1>8, <2>1 DEF Busy, LockLapses
<1>2. CASE Round \/ UNCHANGED dlqVars
  <2>1. UNCHANGED <<vars, outbox, history>>
    BY <1>2, RoundFacts DEF dlqVars
  <2>2. Typed' /\ dlq' = dlq
    BY <1>y, <2>1, StepTyped DEF vars
  <2>3. CASE UNCHANGED dlqVars
    BY <1>y, <2>2, <2>3 DEF TriageTyped, Typed, TriageTypeOK, dlqVars, triage, history
  <2>4. CASE Round
    <3>1. /\ tpc' \in {"idle", "next", "marked", "closing", "dead"}
          /\ batch' \subseteq dlq
          /\ current' \in dlq \union {NoMsg}
      BY <1>y, <2>4 DEF TriageTypeOK, Round, Fetch10, OpenIssue, CloseAdvisory,
           TriageRestart, TriageDies, MessageLost, Dies, AdvisoryExpires
    <3>2. taken' \subseteq dlq
      BY <1>y, <2>4 DEF TriageTypeOK, Round, Fetch10, OpenIssue, CloseAdvisory,
           TriageRestart, TriageDies, MessageLost, Dies, AdvisoryExpires
    <3>3. closed' \subseteq dlq /\ reported' \subseteq dlq
      BY <1>y, <2>4 DEF Rounds, TriageTypeOK, Round, Fetch10, OpenIssue, CloseAdvisory,
           TriageRestart, TriageDies, MessageLost, Dies, AdvisoryExpires
    <3> QED
      BY <1>y, <2>1, <2>2, <3>1, <3>2, <3>3 DEF TriageTyped, Typed, TriageTypeOK, history
  <2> QED
    BY <1>2, <2>3, <2>4
<1>3. ASSUME NEW m \in Msgs, MarkFailed(m) PROVE TriageTyped'
  BY <1>y, <1>3 DEF MarkFailed, TriageTyped, Typed, TriageTypeOK, TypeOK, Statuses,
                    StreamOK, valkey, results, history
<1>4. ASSUME NEW m \in Msgs, PublishRow(m) PROVE TriageTyped'
  <2>1. Typed'
    BY <1>4, <1>y, StepTyped DEF PublishRow, Next, Server
  <2> QED
    BY <1>4, <1>y, <2>1 DEF PublishRow, Publish, TriageTyped, Typed, TriageTypeOK, triage, history
<1>5. ASSUME NEW m \in Msgs, AgeOut(m) PROVE TriageTyped'
  <2>1. StreamOK(stream')
    BY <1>5, <1>y, StreamOps DEF AgeOut, Typed
  <2>2. stream' \in [Msgs -> Entry]
    BY <2>1 DEF StreamOK
  <2> QED
    BY <1>5, <1>y, <2>1, <2>2 DEF AgeOut, TriageTyped, Typed, TriageTypeOK, TypeOK, triage,
                                  board, valkey, results, history
<1>6. ASSUME NEW m \in Msgs, NEW n \in Msgs, Replay(m, n) PROVE TriageTyped'
  <2>1. TaskOf[m] \in Tasks
    OBVIOUS
  <2> QED
    BY <1>6, <1>y, <2>1 DEF Replay, TriageTyped, Typed, TriageTypeOK, TypeOK, triage, StreamOK,
                            Statuses, valkey, results, history
<1> QED
  BY <1>1, <1>2, <1>3, <1>4, <1>5, <1>6, <1>7, <1>8, TriageCases

LEMMA InitTriageTyped == TriageInit => TriageTyped
<1> SUFFICES ASSUME TriageInit PROVE TriageTyped
  OBVIOUS
<1>1. Typed
  BY InitTyped DEF TriageInit
<1>2. dlq = {} /\ First \subseteq Msgs
  BY DlqTriageAssumption DEF TriageInit, Init
<1> QED
  BY <1>1, <1>2 DEF TriageInit, TriageTyped, Typed, TriageTypeOK

LEMMA StepRounds ==
  TriageTyped /\ Rounds /\ ClosedIsReported /\ [TriageNext]_dlqVars
    => Rounds' /\ ClosedIsReported'
<1> SUFFICES ASSUME TriageTyped, Rounds, ClosedIsReported, [TriageNext]_dlqVars
             PROVE  Rounds' /\ ClosedIsReported'
  OBVIOUS
<1> USE DEF Rounds, ClosedIsReported
<1>1. CASE UNCHANGED triage
  BY <1>1 DEF triage
<1>2. CASE Round
  <2>1. CASE Fetch10
    BY <2>1 DEF Fetch10
  <2>2. CASE OpenIssue
    BY <2>2 DEF OpenIssue
  <2>3. CASE CloseAdvisory
    BY <2>3 DEF CloseAdvisory
  <2>4. CASE TriageRestart
    BY <2>4 DEF TriageRestart
  <2>5. CASE TriageDies \/ \E m \in Msgs : MessageLost(m)
    BY <2>5 DEF TriageDies, MessageLost, Dies
  <2>6. CASE \E m \in Msgs : AdvisoryExpires(m)
    BY <2>6 DEF AdvisoryExpires
  <2> QED
    BY <1>2, <2>1, <2>2, <2>3, <2>4, <2>5, <2>6 DEF Round
<1>3. ASSUME NEW m \in Msgs, MarkFailed(m) PROVE Rounds' /\ ClosedIsReported'
  BY <1>3 DEF MarkFailed
<1> QED
  BY <1>1, <1>2, <1>3, TriageCases
     DEF Others, Works, LockLapses, PublishRow, AgeOut, Replay, dlqVars

\* The triage keeps its types, and so do the workers beside it: the batch, the
\* closed and the reported advisories are all in SWARM_DLQ.
THEOREM TriageTypes == TriageSpec => []TriageTypeOK
<1>1. TriageInit => Rounds /\ ClosedIsReported
  BY DEF TriageInit, Rounds, ClosedIsReported
<1>2. TriageTyped => TriageTypeOK
  BY DEF TriageTyped
<1> QED
  BY <1>1, <1>2, InitTriageTyped, StepTriageTyped, StepRounds, PTL DEF TriageSpec

\* With the Forgejo lease, no advisory is acked before its issue is open, from
\* whatever step the triage dies and starts again (dlq_triage.py:98-114).
THEOREM ReportedBeforeClosed == TriageSpec => []ClosedIsReported
<1>1. TriageInit => Rounds /\ ClosedIsReported
  BY DEF TriageInit, Rounds, ClosedIsReported
<1> QED
  BY <1>1, InitTriageTyped, StepTriageTyped, StepRounds, PTL DEF TriageSpec
-----------------------------------------------------------------------------
\* Who is inside "async with valkey_lock" holds the key, unless its TTL ended.
LockHeld == \A w \in Workers : pc[w] \in Locked /\ w \notin lapsed => lock[task(w)] = w

\* Apart from the end of its TTL, a lock is only set by Lock and deleted by
\* Release.
LEMMA LockSteps ==
  ASSUME Typed, Clocks \/ \E w \in Workers : Step(w) /\ ~Lock(w) /\ ~Release(w)
  PROVE  /\ UNCHANGED lock
         /\ \A v \in Workers : pc'[v] \in Locked => pc[v] \in Locked /\ msg'[v] = msg[v]
<1> DEFINE Kept == /\ UNCHANGED lock
                   /\ \A v \in Workers : pc'[v] \in Locked => pc[v] \in Locked /\ msg'[v] = msg[v]
<1> USE DEF Goto, NextTurn, valkey, Locked
<1>t. pc \in [Workers -> PCs] /\ msg \in [Workers -> Msgs \union {NoMsg}]
  BY DEF Typed, TypeOK
<1>1. ASSUME NEW w \in Workers, Step(w), ~Lock(w), ~Release(w) PROVE Kept
  <2>1. CASE \E m \in Msgs : Fetch(w, m)
    BY <1>t, <2>1 DEF Fetch
  <2>2. CASE ClaimWin(w) \/ ClaimLose(w) \/ Check(w) \/ ResetPending(w)
    BY <1>t, <2>2 DEF ClaimWin, ClaimLose, Check, ResetPending
  <2>3. CASE Ack(w) \/ Nak(w) \/ Term(w) \/ AnswerLost(w)
    BY <1>t, <2>3 DEF Ack, Nak, Term, AnswerLost
  <2>4. CASE Run(w) \/ Measure(w)
    BY <1>t, <2>4 DEF Run, RunGreen, RunTransient, RunPoison, Measure
  <2>5. CASE EmitDone(w) \/ EmitFailed(w)
    BY <1>t, <2>5 DEF EmitDone, EmitFailed, Emit
  <2> QED
    BY <1>1, <2>1, <2>2, <2>3, <2>4, <2>5 DEF Step
<1>2. ASSUME NEW w \in Workers, Crash(w) \/ Fault(w) PROVE Kept
  BY <1>t, <1>2 DEF Crash, Fault
<1>3. ASSUME NEW m \in Msgs, AckWaitEnds(m) PROVE Kept
  BY <1>3 DEF AckWaitEnds
<1>4. ASSUME NEW t \in Tasks, WallClockEnds(t) PROVE Kept
  BY <1>4 DEF WallClockEnds
<1> QED
  BY <1>1, <1>2, <1>3, <1>4 DEF Clocks, Death

LEMMA StepLockHeld ==
  ASSUME Typed, LockHeld, [TriageNext]_dlqVars
  PROVE  LockHeld'
<1> USE DEF LockHeld, task
<1>t. /\ pc \in [Workers -> PCs] /\ msg \in [Workers -> Msgs \union {NoMsg}]
      /\ lock \in [Tasks -> Workers \union {NoWorker}]
      /\ \A w \in Workers : pc[w] \in Locked \union {"cleared"} => task(w) \in Tasks
  BY DEF Typed, TypeOK, Locked
<1>1. ASSUME NEW w \in Workers, Works(w), Lock(w) PROVE LockHeld'
  <2>1. UNCHANGED msg /\ \A v \in Workers \ {w} : pc'[v] = pc[v]
    BY <1>t, <1>1 DEF Lock, Goto
  <2>2. CASE lock[task(w)] = NoWorker
    <3>1. /\ lock' = [lock EXCEPT ![task(w)] = w] /\ task(w) \in Tasks
          /\ pc[w] = "cleared" /\ pc'[w] = "working"
      BY <1>t, <1>1, <2>2 DEF Lock, Goto
    <3>2. \A v \in Workers : pc[v] \in Locked /\ v \notin lapsed => task(v) # task(w)
      BY <2>2
    <3>3. lapsed' = lapsed \ {w}
      BY <1>1, <3>1 DEF Works
    <3> QED
      BY <1>t, <2>1, <3>1, <3>2, <3>3
  <2>3. CASE lock[task(w)] # NoWorker
    <3>1. UNCHANGED lock /\ pc'[w] = "resetting"
      BY <1>t, <1>1, <2>3 DEF Lock, Goto
    <3>2. UNCHANGED lapsed
      BY <1>1, <3>1 DEF Works, history
    <3> QED
      BY <2>1, <3>1, <3>2 DEF Locked
  <2> QED
    BY <2>2, <2>3
<1>2. ASSUME NEW w \in Workers, Works(w), Release(w) PROVE LockHeld'
  <2>1. /\ UNCHANGED msg /\ \A v \in Workers \ {w} : pc'[v] = pc[v]
        /\ pc[w] \in Locked /\ pc'[w] \notin Locked
    BY <1>t, <1>2 DEF Release, Goto, Releasing, AfterRelease, Locked
  <2>2. \A t \in Tasks : lock'[t] = lock[t] \/ lock[t] = w
    BY <1>t, <1>2 DEF Release
  <2>3. UNCHANGED lapsed
    BY <1>2, <2>1 DEF Works, history, Release, Releasing
  <2> QED
    BY <1>t, <2>1, <2>2, <2>3
<1>3. ASSUME NEW t \in Tasks, LockLapses(t) PROVE LockHeld'
  <2>1. /\ UNCHANGED <<pc, msg>> /\ lapsed' = lapsed \union {lock[t]}
        /\ \A u \in Tasks \ {t} : lock'[u] = lock[u]
    BY <1>t, <1>3 DEF LockLapses, LockTtlEnds
  <2> QED
    BY <1>t, <2>1
<1>4. ASSUME UNCHANGED lock,
             \A v \in Workers : pc'[v] \in Locked => pc[v] \in Locked /\ msg'[v] = msg[v],
             lapsed' = lapsed
      PROVE  LockHeld'
  BY <1>4
<1>5. ASSUME NEW w \in Workers, Works(w), ~Lock(w), ~Release(w) PROVE LockHeld'
  <2>1. /\ UNCHANGED lock
        /\ \A v \in Workers : pc'[v] \in Locked => pc[v] \in Locked /\ msg'[v] = msg[v]
    BY <1>5, LockSteps DEF Works
  <2>2. UNCHANGED lapsed
    BY <1>5, <2>1 DEF Works, history, Locked
  <2> QED
    BY <1>4, <2>1, <2>2
<1>6. CASE Clocks /\ Others
  BY <1>4, <1>6, LockSteps DEF Others, history
<1>7. CASE UNCHANGED <<lock, pc, msg, lapsed>>
  BY <1>7
<1>8. CASE Round \/ UNCHANGED dlqVars
  BY <1>7, <1>8, RoundFacts DEF vars, dlqVars, history
<1>9. CASE \E m \in Msgs : MarkFailed(m) \/ PublishRow(m) \/ AgeOut(m)
  BY <1>7, <1>9 DEF MarkFailed, PublishRow, Publish, AgeOut, valkey, history
<1>10. CASE \E m, n \in Msgs : Replay(m, n)
  BY <1>7, <1>10 DEF Replay, valkey, history
<1> QED
  BY <1>1, <1>2, <1>3, <1>5, <1>6, <1>8, <1>9, <1>10, TriageCases

\* Whatever the triage and the replays do to its row, a task has one engine at
\* a time, but for workers whose lock's TTL ended under them; and those leave
\* their successor's lock alone (budget.py:117-136).
THEOREM OneEngine == TriageSpec => []EngineExclusive
<1>1. TriageInit => Rounds /\ ClosedIsReported /\ LockHeld
  BY DEF TriageInit, Init, Rounds, ClosedIsReported, LockHeld, Locked
<1>2. TriageTyped /\ LockHeld /\ [TriageNext]_dlqVars => LockHeld'
  BY StepLockHeld DEF TriageTyped
<1>3. LockHeld => EngineExclusive
  BY DEF LockHeld, EngineExclusive, Running, Locked
<1> QED
  BY <1>1, <1>2, <1>3, InitTriageTyped, StepTriageTyped, StepRounds, PTL DEF TriageSpec
-----------------------------------------------------------------------------
\* The engine runs of a task are counted before they start: each worker between
\* its check and its lock holds one of the MaxAttempts tickets.

Cleared(t) == {w \in Workers : pc[w] = "cleared" /\ task(w) = t}

Tickets ==
  \A t \in Tasks :
    /\ runs[t] + Cardinality(Cleared(t)) <= recorded[t]
    /\ runs[t] + Cardinality(Cleared(t)) <= MaxAttempts

LEMMA ClearedFinite ==
  ASSUME IsFiniteSet(Workers), NEW t
  PROVE  IsFiniteSet(Cleared(t)) /\ Cardinality(Cleared(t)) \in Nat
<1>1. IsFiniteSet(Cleared(t))
  BY FS_Subset DEF Cleared
<1> QED
  BY <1>1, FS_CardinalityType

\* A step that lets nobody in front of the lock, counts nothing down and starts
\* no engine keeps the tickets.
LEMMA NoneCleared ==
  ASSUME IsFiniteSet(Workers), TriageTyped, Tickets,
         \A w \in Workers : pc'[w] = "cleared" => pc[w] = "cleared" /\ msg'[w] = msg[w],
         UNCHANGED <<recorded, runs>>
  PROVE  Tickets'
<1> SUFFICES ASSUME NEW t \in Tasks
             PROVE  /\ runs[t] + Cardinality(Cleared(t)') <= recorded[t]
                    /\ runs[t] + Cardinality(Cleared(t)') <= MaxAttempts
  BY DEF Tickets
<1>1. Cleared(t)' \subseteq Cleared(t)
  BY DEF Cleared, task
<1>2. /\ IsFiniteSet(Cleared(t)) /\ Cardinality(Cleared(t)) \in Nat
      /\ IsFiniteSet(Cleared(t)') /\ Cardinality(Cleared(t)') \in Nat
      /\ Cardinality(Cleared(t)') <= Cardinality(Cleared(t))
  BY <1>1, ClearedFinite, FS_Subset, FS_CardinalityType
<1>3. runs[t] \in Nat /\ recorded[t] \in Nat
  BY DEF TriageTyped, TriageTypeOK, TypeOK
<1> HIDE DEF Cleared
<1> QED
  BY <1>2, <1>3 DEF Tickets

\* Check hands out a ticket, and only when one is left.
LEMMA CheckTickets ==
  ASSUME IsFiniteSet(Workers), TriageTyped, Tickets, NEW w \in Workers,
         Works(w), Check(w)
  PROVE  Tickets'
<1>t. /\ pc \in [Workers -> PCs] /\ recorded \in [Tasks -> Nat] /\ runs \in [Tasks -> Nat]
      /\ task(w) \in Tasks /\ pc[w] = "claimed"
  BY DEF TriageTyped, TriageTypeOK, TypeOK, Check, task
<1>1. /\ UNCHANGED <<msg, runs>> /\ recorded' = [recorded EXCEPT ![task(w)] = @ + 1]
      /\ pc' = [pc EXCEPT ![w] = IF Trips(task(w)) THEN "failing" ELSE "cleared"]
  BY <1>t DEF Check, Goto, Works, history
<1> SUFFICES ASSUME NEW t \in Tasks
             PROVE  /\ runs[t] + Cardinality(Cleared(t)') <= recorded'[t]
                    /\ runs[t] + Cardinality(Cleared(t)') <= MaxAttempts
  BY <1>1 DEF Tickets
<1>2. /\ IsFiniteSet(Cleared(t)) /\ Cardinality(Cleared(t)) \in Nat
      /\ runs[t] \in Nat /\ recorded[t] \in Nat
      /\ runs[t] + Cardinality(Cleared(t)) <= recorded[t]
      /\ runs[t] + Cardinality(Cleared(t)) <= MaxAttempts
  BY <1>t, ClearedFinite DEF Tickets
<1>3. CASE t = task(w) /\ ~Trips(task(w))
  <2>1. Cleared(t)' = Cleared(t) \union {w} /\ w \notin Cleared(t)
    BY <1>t, <1>1, <1>3 DEF Cleared, task
  <2>2. Cardinality(Cleared(t)') = Cardinality(Cleared(t)) + 1
    BY <1>2, <2>1, FS_AddElement
  <2>3. recorded[t] + 1 <= MaxAttempts /\ recorded'[t] = recorded[t] + 1
    BY <1>t, <1>1, <1>3 DEF Trips
  <2> HIDE DEF Cleared
  <2> QED
    BY <1>2, <2>2, <2>3
<1>4. CASE t # task(w) \/ Trips(task(w))
  <2>1. Cleared(t)' = Cleared(t)
    BY <1>t, <1>1, <1>4 DEF Cleared, task
  <2>2. recorded'[t] \in {recorded[t], recorded[t] + 1}
    BY <1>t, <1>1
  <2> HIDE DEF Cleared
  <2> QED
    BY <1>2, <2>1, <2>2
<1> QED
  BY <1>3, <1>4

\* Lock spends it on an engine run, or gives it up.
LEMMA LockTickets ==
  ASSUME IsFiniteSet(Workers), TriageTyped, Tickets, NEW w \in Workers,
         Works(w), Lock(w)
  PROVE  Tickets'
<1>t. /\ pc \in [Workers -> PCs] /\ recorded \in [Tasks -> Nat] /\ runs \in [Tasks -> Nat]
      /\ task(w) \in Tasks /\ pc[w] = "cleared"
  BY DEF TriageTyped, TriageTypeOK, TypeOK, Lock, task
<1>1. UNCHANGED <<msg, recorded>> /\ \E l \in {"working", "resetting"} : pc' = [pc EXCEPT ![w] = l]
  BY DEF Lock, Goto
<1>2. runs' = runs \/ runs' = [runs EXCEPT ![task(w)] = @ + 1]
  BY DEF Works, history
<1> SUFFICES ASSUME NEW t \in Tasks
             PROVE  /\ runs'[t] + Cardinality(Cleared(t)') <= recorded[t]
                    /\ runs'[t] + Cardinality(Cleared(t)') <= MaxAttempts
  BY <1>1 DEF Tickets
<1>3. /\ IsFiniteSet(Cleared(t)) /\ Cardinality(Cleared(t)) \in Nat
      /\ runs[t] \in Nat /\ recorded[t] \in Nat
      /\ runs[t] + Cardinality(Cleared(t)) <= recorded[t]
      /\ runs[t] + Cardinality(Cleared(t)) <= MaxAttempts
  BY <1>t, ClearedFinite DEF Tickets
<1>4. CASE t = task(w)
  <2>1. Cleared(t)' = Cleared(t) \ {w} /\ w \in Cleared(t)
    BY <1>t, <1>1, <1>4 DEF Cleared, task
  <2>2. Cardinality(Cleared(t)') = Cardinality(Cleared(t)) - 1
    BY <1>3, <2>1, FS_RemoveElement
  <2>3. runs'[t] \in {runs[t], runs[t] + 1}
    BY <1>t, <1>2
  <2> HIDE DEF Cleared
  <2> QED
    BY <1>3, <2>2, <2>3
<1>5. CASE t # task(w)
  <2>1. Cleared(t)' = Cleared(t)
    BY <1>t, <1>1, <1>5 DEF Cleared, task
  <2>2. runs'[t] = runs[t]
    BY <1>t, <1>2, <1>5
  <2> HIDE DEF Cleared
  <2> QED
    BY <1>3, <2>1, <2>2
<1> QED
  BY <1>4, <1>5

LEMMA StepTickets ==
  ASSUME IsFiniteSet(Workers), TriageTyped, Tickets, [TriageNext]_dlqVars
  PROVE  Tickets'
<1>t. pc \in [Workers -> PCs] /\ msg \in [Workers -> Msgs \union {NoMsg}]
  BY DEF TriageTyped, TriageTypeOK, TypeOK
<1>1. ASSUME NEW w \in Workers, Works(w) PROVE Tickets'
  <2>1. CASE Check(w)
    BY <1>1, <2>1, CheckTickets
  <2>2. CASE Lock(w)
    BY <1>1, <2>2, LockTickets
  <2>3. CASE ~Check(w) /\ ~Lock(w)
    <3> USE DEF Goto, NextTurn, valkey
    <3>1. recorded' = recorded
          /\ \A v \in Workers : pc'[v] = "cleared" => pc[v] = "cleared" /\ msg'[v] = msg[v]
      <4>1. CASE \E m \in Msgs : Fetch(w, m)
        BY <1>t, <4>1 DEF Fetch
      <4>2. CASE ClaimWin(w) \/ ClaimLose(w) \/ ResetPending(w)
        BY <1>t, <4>2 DEF ClaimWin, ClaimLose, ResetPending
      <4>3. CASE Ack(w) \/ Nak(w) \/ Term(w) \/ AnswerLost(w)
        BY <1>t, <4>3 DEF Ack, Nak, Term, AnswerLost
      <4>4. CASE Run(w) \/ Measure(w)
        BY <1>t, <4>4 DEF Run, RunGreen, RunTransient, RunPoison, Measure
      <4>5. CASE EmitDone(w) \/ EmitFailed(w)
        BY <1>t, <4>5 DEF EmitDone, EmitFailed, Emit
      <4>6. CASE Release(w)
        BY <1>t, <4>6 DEF Release, Releasing, AfterRelease
      <4> QED
        BY <1>1, <2>3, <4>1, <4>2, <4>3, <4>4, <4>5, <4>6 DEF Works, Step
    <3>2. runs' = runs
      <4>1. CASE pc[w] = "cleared" /\ pc'[w] = "working"
        BY <1>1, <2>3, <4>1, <1>t DEF Works, Step, Fetch, ClaimWin, ClaimLose, Ack, Run,
             RunGreen, RunTransient, RunPoison, Measure, EmitDone, Release, Releasing,
             ResetPending, Nak, EmitFailed, Term, AnswerLost
      <4>2. CASE ~(pc[w] = "cleared" /\ pc'[w] = "working")
        BY <1>1, <4>2 DEF Works, history
      <4> QED
        BY <4>1, <4>2
    <3> QED
      BY <3>1, <3>2, NoneCleared
  <2> QED
    BY <2>1, <2>2, <2>3
<1>2. CASE Clocks /\ Others
  <2>1. /\ UNCHANGED <<recorded, runs, msg>>
        /\ \A v \in Workers : pc'[v] = "cleared" => pc[v] = "cleared"
    BY <1>t, <1>2 DEF Clocks, Others, history, Death, Crash, Fault, AckWaitEnds, WallClockEnds,
                      Goto, valkey
  <2> QED
    BY <2>1, NoneCleared
<1>3. CASE UNCHANGED <<recorded, runs, pc, msg>>
  BY <1>3, NoneCleared
<1>4. ASSUME NEW t \in Tasks, LockLapses(t) PROVE Tickets'
  BY <1>3, <1>4 DEF LockLapses, LockTtlEnds
<1>5. CASE Round \/ UNCHANGED dlqVars
  BY <1>3, <1>5, RoundFacts DEF vars, dlqVars, history
<1>6. CASE \E m \in Msgs : MarkFailed(m) \/ PublishRow(m) \/ AgeOut(m)
  BY <1>3, <1>6 DEF MarkFailed, PublishRow, Publish, AgeOut, valkey, history
<1>7. CASE \E m, n \in Msgs : Replay(m, n)
  BY <1>3, <1>7 DEF Replay, valkey, history
<1> QED
  BY <1>1, <1>2, <1>4, <1>5, <1>6, <1>7, TriageCases

\* However often its row is marked, replayed and claimed again, by however many
\* workers at once, an engine starts on a task at most MAX_TASK_ATTEMPTS times
\* (budget.py:97-109).
THEOREM RunsWithinCap ==
  ASSUME IsFiniteSet(Workers)
  PROVE  TriageSpec => []RunsCapped
<1>1. TriageInit => Rounds /\ ClosedIsReported /\ Tickets
  <2> SUFFICES ASSUME TriageInit PROVE Rounds /\ ClosedIsReported /\ Tickets
    OBVIOUS
  <2>1. \A t \in Tasks : Cleared(t) = {}
    BY DEF TriageInit, Init, Cleared
  <2>2. \A t \in Tasks : Cardinality(Cleared(t)) = 0
    BY <2>1, FS_EmptySet
  <2>3. \A t \in Tasks : runs[t] = 0 /\ recorded[t] = 0
    BY DEF TriageInit, Init
  <2>4. Tickets
    BY <2>2, <2>3, AgentWorkerAssumption DEF Tickets, AgentWorkerAssumption
  <2> QED
    BY <2>4 DEF TriageInit, Rounds, ClosedIsReported
<1>2. TriageTyped /\ Tickets /\ [TriageNext]_dlqVars => Tickets'
  BY StepTickets
<1>3. TriageTyped /\ Tickets => RunsCapped
  <2> SUFFICES ASSUME TriageTyped, Tickets, NEW t \in Tasks PROVE runs[t] <= MaxAttempts
    BY DEF RunsCapped
  <2>1. Cardinality(Cleared(t)) \in Nat /\ runs[t] \in Nat
    BY ClearedFinite DEF TriageTyped, TriageTypeOK
  <2> QED
    BY <2>1 DEF Tickets
<1> QED
  BY <1>1, <1>2, <1>3, InitTriageTyped, StepTriageTyped, StepRounds, PTL DEF TriageSpec
=============================================================================
