----------------------------- MODULE TaskBoard -----------------------------
(***************************************************************************)
(* What the claim protocol promises, whatever the queue, the locks and the *)
(* retries do: a board of tasks where a task is in at most one hand, only  *)
(* that hand decides it, the decision is final, and each decision posts    *)
(* exactly one event.  AgentWorker implements it, and so does Coordinator, *)
(* where plain workers of this promise stand beside orchestrators.         *)
(***************************************************************************)
EXTENDS Naturals, Sequences

CONSTANTS Tasks, Workers, NoTask, NoWorker

VARIABLES status,      \* the tasks table's status column
          claimed_by,  \* the tasks table's claimed_by column
          events,      \* per task, the event rows committed for it
          hand         \* per worker, the task it has taken and not decided

vars == <<status, claimed_by, events, hand>>

Init ==
  /\ status = [t \in Tasks |-> "pending"]
  /\ claimed_by = [t \in Tasks |-> NoWorker]
  /\ events = [t \in Tasks |-> <<>>]
  /\ hand = [w \in Workers |-> NoTask]

Take(w, t) ==
  /\ hand[w] = NoTask
  /\ status[t] = "pending"
  /\ status' = [status EXCEPT ![t] = "claimed"]
  /\ claimed_by' = [claimed_by EXCEPT ![t] = w]
  /\ hand' = [hand EXCEPT ![w] = t]
  /\ UNCHANGED events

Holds(w, t) == hand[w] = t /\ claimed_by[t] = w /\ status[t] = "claimed"

Decide(w, t, verdict, kind) ==
  /\ Holds(w, t)
  /\ status' = [status EXCEPT ![t] = verdict]
  /\ events' = [events EXCEPT ![t] = Append(@, kind)]
  /\ hand' = [hand EXCEPT ![w] = NoTask]
  /\ UNCHANGED claimed_by

GiveBack(w, t) ==
  /\ Holds(w, t)
  /\ status' = [status EXCEPT ![t] = "pending"]
  /\ claimed_by' = [claimed_by EXCEPT ![t] = NoWorker]
  /\ hand' = [hand EXCEPT ![w] = NoTask]
  /\ UNCHANGED events

\* The worker dies with the task in hand: the row stays as it is.
Abandon(w, t) ==
  /\ Holds(w, t)
  /\ hand' = [hand EXCEPT ![w] = NoTask]
  /\ UNCHANGED <<status, claimed_by, events>>

Next == \E w \in Workers, t \in Tasks :
  \/ Take(w, t)
  \/ Decide(w, t, "done", "PR_OPENED")
  \/ Decide(w, t, "failed", "FAILED")
  \/ GiveBack(w, t)
  \/ Abandon(w, t)

Spec == Init /\ [][Next]_vars
=============================================================================
