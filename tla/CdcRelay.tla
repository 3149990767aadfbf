------------------------------ MODULE CdcRelay ------------------------------
(***************************************************************************)
(* relay/relay_cdc.ts: the relay that tails Postgres' logical replication  *)
(* instead of polling.  At start it makes sure its slot exists, sweeps the *)
(* backlog, and subscribes; each INSERT the slot streams is handled by an  *)
(* asynchronous callback of its own, while the service acknowledges the    *)
(* position without waiting for it.  The outbox and the stream are those   *)
(* of OutboxRelay: one or the other relay runs.                            *)
(***************************************************************************)
EXTENDS Naturals, Sequences, FiniteSets

CONSTANTS N,          \* outbox rows, with the ids 1..N
          Bad,        \* rows JetStream refuses
          Lapsing,    \* rows whose dupe window may end before a republication
          MaxCopies,  \* bound: republications of one row
          MaxFaults,  \* bound: crashes, lost connections, failed calls
          NoSlot

Rows == 1..N

ASSUME CdcRelayAssumption ==
  /\ N \in Nat
  /\ Bad \subseteq Rows
  /\ Lapsing \subseteq Rows
  /\ MaxCopies \in Nat /\ MaxFaults \in Nat
  /\ NoSlot \notin Nat

VARIABLES
  row, copies, window,  \* as in OutboxRelay
  wal,       \* the rows in the order of their commits
  slot,      \* the slot's confirmed position in wal
  received,  \* the position up to which this subscription has streamed
  pc,        \* "down", "selecting", "sweeping", "tailing", "waiting"
  sweep,     \* backlog rows not swept yet
  stored,    \* has the first of them been published, and not yet marked?
  handlers,  \* callbacks under way: <<row, "publish" or "mark">>
  failed,    \* rows whose callback logged a failure since the last sweep
  faults

server == <<copies, window>>
replication == <<wal, slot, received>>
vars == <<row, server, replication, pc, sweep, stored, handlers, failed, faults>>

Init ==
  /\ row = [r \in Rows |-> "none"]
  /\ copies = [r \in Rows |-> 0]
  /\ window = {}
  /\ wal = <<>>
  /\ slot = NoSlot
  /\ received = 0
  /\ pc = "down"
  /\ sweep = {}
  /\ stored = FALSE
  /\ handlers = {}
  /\ failed = {}
  /\ faults = 0

Produce(r) ==
  /\ row[r] = "none"
  /\ row' = [row EXCEPT ![r] = "new"]
  /\ wal' = Append(wal, r)
  /\ UNCHANGED <<server, slot, received, pc, sweep, stored, handlers, failed,
                 faults>>

\* The server's side of js.publish.
Store(r) ==
  /\ copies' = [copies EXCEPT ![r] = IF r \in window THEN @ ELSE @ + 1]
  /\ window' = window \union {r}

\* The UPDATE of publishRow.
Published(r) == row' = [row EXCEPT ![r] = "published"]

-----------------------------------------------------------------------------
(* Start: slot, sweep, subscription.                                       *)

\* A new slot streams what commits after its creation.
EnsureSlot ==
  /\ pc = "down"
  /\ slot' = IF slot = NoSlot THEN Len(wal) ELSE slot
  /\ pc' = "selecting"
  /\ UNCHANGED <<row, server, wal, received, sweep, stored, handlers, failed,
                 faults>>

\* Mutant: the SELECT of the sweep has the LIMIT that the poll relay's has.
SelectBatch ==
  /\ pc = "selecting"
  /\ sweep' = {r \in Rows : row[r] = "new" /\ \A s \in Rows : row[s] = "new" => r <= s}
  /\ failed' = {}
  /\ pc' = "sweeping"
  /\ UNCHANGED <<row, server, replication, stored, handlers, faults>>

SelectBacklog ==
  /\ pc = "selecting"
  /\ sweep' = {r \in Rows : row[r] = "new"}
  /\ failed' = {}
  /\ pc' = "sweeping"
  /\ UNCHANGED <<row, server, replication, stored, handlers, faults>>

\* sweepBacklog goes through the rows in id order.
First(r) == r \in sweep /\ \A s \in sweep : r <= s

SweepPublish(r) ==
  /\ pc = "sweeping"
  /\ First(r) /\ ~stored
  /\ r \notin Bad
  /\ Store(r)
  /\ stored' = TRUE
  /\ UNCHANGED <<row, replication, pc, sweep, handlers, failed, faults>>

SweepMark(r) ==
  /\ pc = "sweeping"
  /\ First(r) /\ stored
  /\ Published(r)
  /\ sweep' = sweep \ {r}
  /\ stored' = FALSE
  /\ UNCHANGED <<server, replication, pc, handlers, failed, faults>>

\* The process ends: its callbacks and the rest of the sweep are gone.
Ends == /\ pc' = "down"
        /\ sweep' = {}
        /\ stored' = FALSE
        /\ handlers' = {}
        /\ UNCHANGED <<row, replication, failed>>

\* main() rejects: process.exit(1).
SweepRefused(r) ==
  /\ pc = "sweeping"
  /\ First(r) /\ ~stored
  /\ r \in Bad
  /\ Ends
  /\ UNCHANGED <<server, faults>>

\* From the position the slot has confirmed, the first time and after the
\* stream has ended.
Subscribe ==
  /\ \/ pc = "sweeping" /\ sweep = {}
     \/ pc = "waiting"
  /\ pc' = "tailing"
  /\ received' = slot
  /\ UNCHANGED <<row, server, wal, slot, sweep, stored, handlers, failed, faults>>

-----------------------------------------------------------------------------
(* The tail: callbacks and acknowledgements.                               *)

\* An INSERT streams the row as it was written, published_at NULL, so the
\* callback never takes it for swept.
Receive ==
  /\ pc = "tailing"
  /\ received < Len(wal)
  /\ received' = received + 1
  /\ handlers' = handlers \union {<<wal[received'], "publish">>}
  /\ UNCHANGED <<row, server, wal, slot, pc, sweep, stored, failed, faults>>

\* The automatic acknowledgements reach Postgres.
Confirm ==
  /\ pc = "tailing"
  /\ \E position \in slot + 1..received : slot' = position
  /\ UNCHANGED <<row, server, wal, received, pc, sweep, stored, handlers,
                 failed, faults>>

HandlerPublish(r) ==
  /\ <<r, "publish">> \in handlers
  /\ r \notin Bad
  /\ Store(r)
  /\ handlers' = (handlers \ {<<r, "publish">>}) \union {<<r, "mark">>}
  /\ UNCHANGED <<row, replication, pc, sweep, stored, failed, faults>>

\* Mutants: the UPDATE is sent without waiting for the publish, and forgotten.
HandlerMarkFirst(r) ==
  /\ {<<r, "publish">>, <<r, "mark">>} \intersect handlers # {}
  /\ Published(r)
  /\ handlers' = handlers \ {<<r, "mark">>}
  /\ UNCHANGED <<server, replication, pc, sweep, stored, failed, faults>>

HandlerUnmarked(r) ==
  /\ <<r, "mark">> \in handlers
  /\ handlers' = handlers \ {<<r, "mark">>}
  /\ UNCHANGED <<row, server, replication, pc, sweep, stored, failed, faults>>

HandlerMark(r) ==
  /\ <<r, "mark">> \in handlers
  /\ Published(r)
  /\ handlers' = handlers \ {<<r, "mark">>}
  /\ UNCHANGED <<server, replication, pc, sweep, stored, failed, faults>>

\* "cdc-relay: publish failed (will re-sweep)": the row is logged and dropped.
Dropped(r, stage) ==
  /\ <<r, stage>> \in handlers
  /\ handlers' = handlers \ {<<r, stage>>}
  /\ failed' = failed \union {r}
  /\ UNCHANGED <<row, replication, pc, sweep, stored>>

HandlerRefused(r) ==
  /\ r \in Bad
  /\ Dropped(r, "publish")
  /\ UNCHANGED <<server, faults>>

-----------------------------------------------------------------------------
(* Faults.                                                                 *)

Fault == faults < MaxFaults /\ faults' = faults + 1

\* The call fails, or its answer is lost: a publish may have landed.
HandlerFails(r) ==
  /\ Fault
  /\ \/ Dropped(r, "publish") /\ (UNCHANGED server \/ (r \notin Bad /\ Store(r)))
     \/ Dropped(r, "mark") /\ UNCHANGED server

Dies ==
  /\ Fault
  /\ pc # "down"
  /\ Ends
  /\ UNCHANGED server

\* The replication stream ends; the loop subscribes again in two seconds.
StreamEnds ==
  /\ Fault
  /\ pc = "tailing"
  /\ pc' = "waiting"
  /\ UNCHANGED <<row, server, replication, sweep, stored, handlers, failed>>

WindowEnds(r) ==
  /\ r \in Lapsing \intersect window
  /\ copies[r] < MaxCopies
  /\ window' = window \ {r}
  /\ UNCHANGED <<row, copies, replication, pc, sweep, stored, handlers, failed,
                 faults>>

-----------------------------------------------------------------------------
Relay ==
  \/ EnsureSlot \/ SelectBacklog \/ Subscribe \/ Receive
  \/ \E r \in Rows : SweepPublish(r) \/ SweepMark(r) \/ SweepRefused(r)

Handle(r) == HandlerPublish(r) \/ HandlerMark(r) \/ HandlerRefused(r)

Next ==
  \/ Relay \/ Confirm \/ Dies \/ StreamEnds
  \/ \E r \in Rows : Produce(r) \/ Handle(r) \/ HandlerFails(r) \/ WindowEnds(r)

Spec == Init /\ [][Next]_vars

\* The process is restarted when it ends (compose.yaml's restart policy), the
\* event loop runs every callback, and outages end (MaxFaults).
FairSpec == Spec /\ WF_vars(Relay) /\ \A r \in Rows : WF_vars(Handle(r))
-----------------------------------------------------------------------------
TypeOK ==
  /\ row \in [Rows -> {"none", "new", "published"}]
  /\ copies \in [Rows -> Nat]
  /\ window \subseteq Rows
  /\ wal \in Seq(Rows)
  /\ slot \in 0..Len(wal) \union {NoSlot}
  /\ received \in 0..Len(wal)
  /\ pc \in {"down", "selecting", "sweeping", "tailing", "waiting"}
  /\ sweep \subseteq Rows
  /\ stored \in BOOLEAN
  /\ handlers \subseteq Rows \X {"publish", "mark"}
  /\ failed \subseteq Rows
  /\ faults \in 0..MaxFaults

\* "the server-side dupe window makes overlap with the sweep safe"
\* (relay_cdc.ts:8): the sweep, the tail and the repeated tail after a lost
\* subscription store a row once, if its window outlasts them.
NoDoublePublish == \A r \in Rows \ Lapsing : copies[r] <= 1

\* The position from which the slot will stream.
Ahead(r) ==
  \E i \in DOMAIN wal :
    wal[i] = r /\ i > (IF pc = "tailing" THEN received ELSE slot)

\* No committed row falls between the sweep and the tail (the slot exists
\* before the sweep selects, relay_cdc.ts:67-68), and the acknowledgement of
\* rows whose callbacks still run loses none: an unpublished row is still
\* ahead, in a callback, or named in the log as failed.
NothingSkipped ==
  \A r \in Rows : row[r] = "new" =>
    \/ pc \in {"down", "selecting"}
    \/ r \in sweep \union failed
    \/ \E stage \in {"publish", "mark"} : <<r, stage>> \in handlers
    \/ Ahead(r)

\* The relay implements the outbox's promise.
Promise == INSTANCE Outbox
OutboxSpec == Promise!Spec

\* Every committed row is published in the end, as long as no callback fails
\* and JetStream refuses none.
RowsFlow ==
  [](failed = {} /\ \A b \in Bad : row[b] = "none")
    => \A r \in Rows : (row[r] = "new") ~> (row[r] = "published")
=============================================================================
