----------------------------- MODULE JetStream -----------------------------
(***************************************************************************)
(* What the swarm's code relies on from a JetStream work-queue stream with *)
(* one durable pull consumer (the server itself is not in the repository). *)
(* A stream is a function from messages to entries; the operators below    *)
(* return the stream after one server-side operation.  The bounds are the  *)
(* ones scripts/bootstrap_jetstream.sh configures: max_deliver and         *)
(* max_ack_pending, explicit acknowledgement, work-queue retention.        *)
(***************************************************************************)
EXTENDS Naturals, FiniteSets

CONSTANTS Msgs,           \* the messages, identified by their stream sequence
          MaxDeliver,     \* "max_deliver": deliveries of one message
          MaxAckPending   \* "max_ack_pending": delivered and not yet settled

ASSUME JetStreamAssumption ==
  /\ MaxDeliver \in Nat \ {0}
  /\ MaxAckPending \in Nat \ {0}

\* "absent"    not in the stream yet
\* "ready"     waiting for a delivery (the first one, or another one)
\* "inflight"  delivered, its ack-wait running
\* "gone"      acked or terminated: a work-queue stream has removed it
\* "exhausted" out of deliveries: kept in the stream, never delivered again,
\*             and announced by one MAX_DELIVERIES advisory
MsgState == {"absent", "ready", "inflight", "gone", "exhausted"}

Entry == [state : MsgState, deliveries : 0..MaxDeliver]

Absent == [state |-> "absent", deliveries |-> 0]

Live(s, m) == s[m].state \in {"ready", "inflight"}

AckPending(s) == {m \in Msgs : Live(s, m) /\ s[m].deliveries > 0}

\* A redelivery is not held back by max_ack_pending: it already counts in it.
Deliverable(s, m) ==
  /\ s[m].state = "ready"
  /\ \/ s[m].deliveries > 0
     \/ Cardinality(AckPending(s)) < MaxAckPending

Store(s, m) == [s EXCEPT ![m].state = "ready"]

Deliver(s, m) ==
  [s EXCEPT ![m] = [state |-> "inflight", deliveries |-> @.deliveries + 1]]

\* Ack and term remove the message wherever it is, also when the delivery
\* they answer is not the latest one.
Remove(s, m) == [s EXCEPT ![m].state = "gone"]

\* Nak and the end of the ack-wait: another delivery, or none left.
LastDelivery(s, m) == s[m].state = "inflight" /\ s[m].deliveries = MaxDeliver

Requeue(s, m) ==
  [s EXCEPT ![m].state = IF @ # "inflight" THEN @
                         ELSE IF LastDelivery(s, m) THEN "exhausted"
                         ELSE "ready"]

\* Mutant: no SWARM_DLQ stream captures the advisories.
AdviseNowhere(d, s, m) == d

\* The MAX_DELIVERIES advisories stored after the requeue, given those before.
Advise(d, s, m) == d \union {n \in {m} : LastDelivery(s, n)}
=============================================================================
