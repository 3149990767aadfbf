---------------------------- MODULE OutboxRelay ----------------------------
(***************************************************************************)
(* relay/relay.ts: the poll relays that move the outbox into JetStream.    *)
(* Producers commit rows (with the task rows they announce) in any order   *)
(* of their ids; each relay works in transactions of at most Batch rows,   *)
(* which it locks with FOR UPDATE SKIP LOCKED, publishes with the row's    *)
(* Nats-Msg-Id, marks, and commits.  A publish stays when its transaction  *)
(* rolls back; the server drops a second publish of the same id for as     *)
(* long as the id is in its dupe window.                                   *)
(***************************************************************************)
EXTENDS Naturals, FiniteSets

CONSTANTS N,             \* outbox rows, with the ids 1..N
          Relays,
          Batch,         \* RELAY_BATCH
          Bad,           \* rows JetStream refuses (subject, size)
          Lapsing,       \* rows whose dupe window may end before a republication
          MaxCopies,     \* bound: republications of one row
          MaxFaults,     \* bound: crashes and failed or unanswered calls
          NoRelay

Rows == 1..N

ASSUME OutboxRelayAssumption ==
  /\ N \in Nat
  /\ Batch \in Nat \ {0}
  /\ Bad \subseteq Rows
  /\ Lapsing \subseteq Rows
  /\ MaxCopies \in Nat /\ MaxFaults \in Nat
  /\ NoRelay \notin Relays

VARIABLES
  row,     \* per id: "none" (not committed), "new", "published" (published_at)
  holder,  \* per id: the relay whose transaction has the row locked
  copies,  \* per id: messages of this row in the stream
  window,  \* ids in the server's dupe window
  pc,      \* per relay: "idle", "publishing", "marking", "committing"
  todo,    \* per relay: rows of its batch not yet published
  marked,  \* per relay: rows its transaction has updated, uncommitted
  faults

vars == <<row, holder, copies, window, pc, todo, marked, faults>>
server == <<copies, window>>

Init ==
  /\ row = [r \in Rows |-> "none"]
  /\ holder = [r \in Rows |-> NoRelay]
  /\ copies = [r \in Rows |-> 0]
  /\ window = {}
  /\ pc = [p \in Relays |-> "idle"]
  /\ todo = [p \in Relays |-> {}]
  /\ marked = [p \in Relays |-> {}]
  /\ faults = 0

\* A producer's transaction: emit, ingest, inject_task, emit_subtasks, replay.
Produce(r) ==
  /\ row[r] = "none"
  /\ row' = [row EXCEPT ![r] = "new"]
  /\ UNCHANGED <<holder, server, pc, todo, marked, faults>>

\* Mutant: FOR UPDATE without the lock being looked at.
SelectableUnlocked == {r \in Rows : row[r] = "new"}

\* The rows the SELECT returns: unpublished, not locked by another relay, the
\* Batch lowest ids.
Selectable == {r \in Rows : row[r] = "new" /\ holder[r] = NoRelay}

Lowest(S) == {r \in S : Cardinality({s \in S : s < r}) < Batch}

Select(p) ==
  /\ pc[p] = "idle"
  /\ Selectable # {}
  /\ todo' = [todo EXCEPT ![p] = Lowest(Selectable)]
  /\ holder' = [r \in Rows |-> IF r \in Lowest(Selectable) THEN p ELSE holder[r]]
  /\ pc' = [pc EXCEPT ![p] = "publishing"]
  /\ UNCHANGED <<row, server, marked, faults>>

\* The loop takes the rows in id order.
Head(p, r) == r \in todo[p] /\ \A s \in todo[p] : r <= s

\* What a publish does to the stream: the server dedupes on Nats-Msg-Id.
Store(r) ==
  /\ copies' = [copies EXCEPT ![r] = IF r \in window THEN @ ELSE @ + 1]
  /\ window' = window \union {r}

Publish(p, r) ==
  /\ pc[p] = "publishing"
  /\ Head(p, r)
  /\ r \notin Bad
  /\ Store(r)
  /\ pc' = [pc EXCEPT ![p] = "marking"]
  /\ UNCHANGED <<row, holder, todo, marked, faults>>

\* Mutant: the first publish marks the whole batch.
MarkEarly(p, r) ==
  /\ pc[p] = "marking"
  /\ Head(p, r)
  /\ marked' = [marked EXCEPT ![p] = @ \union todo[p]]
  /\ todo' = [todo EXCEPT ![p] = {}]
  /\ pc' = [pc EXCEPT ![p] = "committing"]
  /\ UNCHANGED <<row, holder, server, faults>>

Mark(p, r) ==
  /\ pc[p] = "marking"
  /\ Head(p, r)
  /\ marked' = [marked EXCEPT ![p] = @ \union {r}]
  /\ todo' = [todo EXCEPT ![p] = @ \ {r}]
  /\ pc' = [pc EXCEPT ![p] = IF todo[p] = {r} THEN "committing"
                             ELSE "publishing"]
  /\ UNCHANGED <<row, holder, server, faults>>

\* Mutant: row locks outlive the transaction.
EndLocked(p, written) ==
  /\ row' = [r \in Rows |-> IF r \in written THEN "published" ELSE row[r]]
  /\ holder' = holder
  /\ todo' = [todo EXCEPT ![p] = {}]
  /\ marked' = [marked EXCEPT ![p] = {}]
  /\ pc' = [pc EXCEPT ![p] = "idle"]

\* The transaction ends, and with it the row locks: what it marked is
\* published if it commits, and nothing is if it rolls back.
End(p, written) ==
  /\ row' = [r \in Rows |-> IF r \in written THEN "published" ELSE row[r]]
  /\ holder' = [r \in Rows |-> IF holder[r] = p THEN NoRelay ELSE holder[r]]
  /\ todo' = [todo EXCEPT ![p] = {}]
  /\ marked' = [marked EXCEPT ![p] = {}]
  /\ pc' = [pc EXCEPT ![p] = "idle"]

Commit(p) ==
  /\ pc[p] = "committing"
  /\ End(p, marked[p])
  /\ UNCHANGED <<server, faults>>

\* js.publish rejects the row: the whole batch rolls back.
Refused(p, r) ==
  /\ pc[p] = "publishing"
  /\ Head(p, r)
  /\ r \in Bad
  /\ End(p, {})
  /\ UNCHANGED <<server, faults>>

\* A query or a publish fails, or the process dies (it polls again, or its
\* successor does).
Fails(p) ==
  /\ pc[p] # "idle"
  /\ faults < MaxFaults
  /\ faults' = faults + 1
  /\ End(p, {})
  /\ UNCHANGED server

\* The publish landed and its acknowledgement did not come back.
PublishUnanswered(p, r) ==
  /\ pc[p] = "publishing"
  /\ faults < MaxFaults
  /\ Head(p, r)
  /\ r \notin Bad
  /\ Store(r)
  /\ faults' = faults + 1
  /\ End(p, {})

\* --dupe-window: the server forgets an id two minutes after its first publish.
WindowEnds(r) ==
  /\ r \in Lapsing \intersect window
  /\ copies[r] < MaxCopies
  /\ window' = window \ {r}
  /\ UNCHANGED <<row, holder, copies, pc, todo, marked, faults>>

Tick(p) ==
  \/ Select(p)
  \/ \E r \in Rows : Publish(p, r) \/ Mark(p, r) \/ Refused(p, r)
  \/ Commit(p)

Next ==
  \/ \E p \in Relays : Tick(p) \/ Fails(p)
  \/ \E p \in Relays, r \in Rows : PublishUnanswered(p, r)
  \/ \E r \in Rows : Produce(r) \/ WindowEnds(r)

Spec == Init /\ [][Next]_vars

\* Each relay polls for ever; an outage ends (MaxFaults).
FairSpec == Spec /\ \A p \in Relays : WF_vars(Tick(p))
-----------------------------------------------------------------------------
TypeOK ==
  /\ row \in [Rows -> {"none", "new", "published"}]
  /\ holder \in [Rows -> Relays \union {NoRelay}]
  /\ copies \in [Rows -> Nat]
  /\ window \subseteq Rows
  /\ pc \in [Relays -> {"idle", "publishing", "marking", "committing"}]
  /\ todo \in [Relays -> SUBSET Rows]
  /\ marked \in [Relays -> SUBSET Rows]
  /\ faults \in 0..MaxFaults
  /\ \A p \in Relays : pc[p] = "idle" => todo[p] = {} /\ marked[p] = {}

\* "safe to run more than one relay instance: no double-publish"
\* (relay.ts:6-7), across rollbacks, crashes and unanswered publishes, for the
\* rows whose dupe window outlasts their republications.
NoDoublePublish == \A r \in Rows \ Lapsing : copies[r] <= 1

\* A row counts as published only when its message is in the stream, and a
\* message is in the stream only when its row, and so the state it announces,
\* is committed ("Event published but state lost: impossible", README.md:111).
StreamMatchesOutbox ==
  \A r \in Rows :
    /\ row[r] = "published" => copies[r] > 0
    /\ copies[r] > 0 => row[r] # "none"

\* Two relays never have the same row in hand: what one has selected and not
\* committed, the other skips (relay.ts:31-33).
DisjointBatches ==
  \A p, q \in Relays : p # q =>
    (todo[p] \union marked[p]) \intersect (todo[q] \union marked[q]) = {}

\* The relay implements the outbox's promise.
Promise == INSTANCE Outbox
OutboxSpec == Promise!Spec

\* Every committed row is published in the end, as long as no row that
\* JetStream refuses is committed (relay.ts:36-54: one refusal rolls the whole
\* batch back, and the same batch is selected again).
CleanRowsFlow ==
  [](\A b \in Bad : row[b] = "none")
    => \A r \in Rows : (row[r] = "new") ~> (row[r] = "published")
=============================================================================
