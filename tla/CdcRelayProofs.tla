--------------------------- MODULE CdcRelayProofs ---------------------------
(***************************************************************************)
(* Proofs about CdcRelay, for any number of rows and any sequence of       *)
(* crashes, lost subscriptions and failed calls.                           *)
(***************************************************************************)
EXTENDS CdcRelay, TLAPS

USE CdcRelayAssumption

\* The slot exists from the first start on, and a subscription is never
\* behind what it has confirmed.
SlotFollows ==
  /\ pc # "down" => slot \in Nat
  /\ pc = "tailing" => slot <= received

\* A row is in the log once it is committed, and whoever works on a row, works
\* on a committed one.
Logged ==
  /\ \A r \in Rows : row[r] # "none" => \E i \in DOMAIN wal : wal[i] = r
  /\ \A i \in DOMAIN wal : row[wal[i]] # "none"
  /\ \A r \in sweep : row[r] = "new"
  /\ \A r \in Rows, stage \in {"publish", "mark"} :
       <<r, stage>> \in handlers => row[r] # "none"

\* The sweep has the relay to itself: no callback runs beside it.
SweepsAlone ==
  /\ pc # "sweeping" => sweep = {}
  /\ sweep = {} => ~stored
  /\ pc \notin {"tailing", "waiting"} => handlers = {}

\* What is about to be marked is in the stream.
MarksStored ==
  /\ \A r \in Rows : <<r, "mark">> \in handlers => copies[r] > 0
  /\ \A r \in Rows : stored /\ First(r) => copies[r] > 0

\* The server remembers what it stored, unless the window has lapsed.
WindowRemembers ==
  /\ \A r \in Rows : r \in window => copies[r] > 0
  /\ \A r \in Rows \ Lapsing : r \notin window => copies[r] = 0

Inv == /\ TypeOK /\ SlotFollows /\ Logged /\ SweepsAlone /\ MarksStored
       /\ WindowRemembers /\ NoDoublePublish
-----------------------------------------------------------------------------
LEMMA InitInv == Init => Inv
<1> SUFFICES ASSUME Init PROVE Inv
  OBVIOUS
<1>1. wal \in Seq(Rows) /\ Len(wal) = 0 /\ DOMAIN wal = {}
  BY DEF Init
<1>2. row \in [Rows -> {"none", "new", "published"}] /\ copies \in [Rows -> Nat]
  BY DEF Init
<1>3. faults \in 0..MaxFaults
  BY DEF Init
<1>4. TypeOK
  <2>1. slot \in 0..Len(wal) \union {NoSlot} /\ received \in 0..Len(wal)
    BY <1>1 DEF Init
  <2>2. /\ window \subseteq Rows /\ sweep \subseteq Rows /\ failed \subseteq Rows
        /\ handlers \subseteq Rows \X {"publish", "mark"}
    BY DEF Init
  <2>3. /\ pc \in {"down", "selecting", "sweeping", "tailing", "waiting"}
        /\ stored \in BOOLEAN
    BY DEF Init
  <2> QED
    BY <1>1, <1>2, <1>3, <2>1, <2>2, <2>3 DEF TypeOK
<1>6. SlotFollows
  BY DEF Init, SlotFollows
<1>5. Logged
  BY <1>1 DEF Init, Logged
<1> QED
  BY <1>4, <1>5, <1>6 DEF Init, Inv, SweepsAlone, MarksStored, WindowRemembers,
                    NoDoublePublish

\* Every step keeps the types, and the positions in order.
LEMMA StepTyped == TypeOK /\ SlotFollows /\ [Next]_vars => TypeOK' /\ SlotFollows'
<1> SUFFICES ASSUME TypeOK, SlotFollows, [Next]_vars
             PROVE  TypeOK' /\ SlotFollows'
  OBVIOUS
<1> USE DEF TypeOK, SlotFollows, server, replication
<1>1. CASE EnsureSlot
  BY <1>1 DEF EnsureSlot
<1>2. CASE SelectBacklog
  BY <1>2 DEF SelectBacklog
<1>3. CASE Subscribe
  BY <1>3 DEF Subscribe
<1>4. CASE Receive
  BY <1>4 DEF Receive
<1>5. ASSUME NEW r \in Rows, SweepPublish(r) PROVE TypeOK' /\ SlotFollows'
  BY <1>5 DEF SweepPublish, Store
<1>6. ASSUME NEW r \in Rows, SweepMark(r) PROVE TypeOK' /\ SlotFollows'
  BY <1>6 DEF SweepMark, Published
<1>7. ASSUME NEW r \in Rows, SweepRefused(r) PROVE TypeOK' /\ SlotFollows'
  BY <1>7 DEF SweepRefused, Ends
<1>8. CASE Confirm
  BY <1>8 DEF Confirm
<1>9. CASE Dies
  <2>1. faults' \in 0..MaxFaults
    BY <1>9 DEF Dies, Fault
  <2> QED
    BY <1>9, <2>1 DEF Dies, Ends
<1>10. CASE StreamEnds
  BY <1>10 DEF StreamEnds, Fault
<1>11. ASSUME NEW r \in Rows, Produce(r) PROVE TypeOK' /\ SlotFollows'
  <2>1. wal' \in Seq(Rows) /\ Len(wal') = Len(wal) + 1
    BY <1>11 DEF Produce
  <2> QED
    BY <1>11, <2>1 DEF Produce
<1>12. ASSUME NEW r \in Rows, HandlerPublish(r) PROVE TypeOK' /\ SlotFollows'
  BY <1>12 DEF HandlerPublish, Store
<1>13. ASSUME NEW r \in Rows, HandlerMark(r) PROVE TypeOK' /\ SlotFollows'
  BY <1>13 DEF HandlerMark, Published
<1>14. ASSUME NEW r \in Rows, HandlerRefused(r) PROVE TypeOK' /\ SlotFollows'
  BY <1>14 DEF HandlerRefused, Dropped
<1>15. ASSUME NEW r \in Rows, HandlerFails(r) PROVE TypeOK' /\ SlotFollows'
  BY <1>15 DEF HandlerFails, Dropped, Fault, Store
<1>16. ASSUME NEW r \in Rows, WindowEnds(r) PROVE TypeOK' /\ SlotFollows'
  BY <1>16 DEF WindowEnds
<1>17. CASE UNCHANGED vars
  BY <1>17 DEF vars
<1> QED
  BY <1>1, <1>2, <1>3, <1>4, <1>5, <1>6, <1>7, <1>8, <1>9, <1>10, <1>11,
     <1>12, <1>13, <1>14, <1>15, <1>16, <1>17 DEF Next, Relay, Handle

\* A store keeps what the stream has, and adds its row.
LEMMA StoreKeeps ==
  ASSUME TypeOK, WindowRemembers, NoDoublePublish, NEW r \in Rows, Store(r)
  PROVE  /\ WindowRemembers' /\ NoDoublePublish'
         /\ copies'[r] > 0
         /\ \A s \in Rows : copies[s] > 0 => copies'[s] > 0
BY DEF TypeOK, WindowRemembers, NoDoublePublish, Store

\* The parts of the invariant that say which rows are where.
RowsPart == Logged /\ SweepsAlone /\ MarksStored /\ WindowRemembers
              /\ NoDoublePublish

\* Every step keeps them.
LEMMA StepRows == Inv /\ TypeOK' /\ [Next]_vars => RowsPart'
<1> SUFFICES ASSUME Inv, TypeOK', [Next]_vars PROVE RowsPart'
  OBVIOUS
<1> USE DEF Inv, RowsPart, TypeOK, Logged, SweepsAlone, MarksStored,
            WindowRemembers, NoDoublePublish, server, replication, First
<1>1. CASE EnsureSlot
  BY <1>1 DEF EnsureSlot
<1>2. CASE SelectBacklog
  BY <1>2 DEF SelectBacklog
<1>3. CASE Subscribe
  BY <1>3 DEF Subscribe
<1>4. CASE Receive
  BY <1>4 DEF Receive
<1>5. ASSUME NEW r \in Rows, SweepPublish(r) PROVE RowsPart'
  BY <1>5 DEF SweepPublish, Store, Rows
<1>6. ASSUME NEW r \in Rows, SweepMark(r) PROVE RowsPart'
  BY <1>6 DEF SweepMark, Published
<1>7. ASSUME NEW r \in Rows, SweepRefused(r) PROVE RowsPart'
  BY <1>7 DEF SweepRefused, Ends
<1>8. CASE Confirm
  BY <1>8 DEF Confirm
<1>9. CASE Dies
  BY <1>9 DEF Dies, Ends
<1>10. CASE StreamEnds
  BY <1>10 DEF StreamEnds
<1>11. ASSUME NEW r \in Rows, Produce(r) PROVE RowsPart'
  <2>1. /\ Len(wal') = Len(wal) + 1
        /\ wal'[Len(wal) + 1] = r
        /\ \A i \in 1..Len(wal) : wal'[i] = wal[i]
    BY <1>11 DEF Produce
  <2>2. /\ DOMAIN wal = 1..Len(wal) /\ DOMAIN wal' = 1..Len(wal) + 1
        /\ \A i \in 1..Len(wal) : wal[i] \in Rows
    BY <2>1
  <2>3. \A s \in Rows : row'[s] # "none" => \E i \in DOMAIN wal' : wal'[i] = s
    <3> SUFFICES ASSUME NEW s \in Rows, row'[s] # "none"
                 PROVE  \E i \in DOMAIN wal' : wal'[i] = s
      OBVIOUS
    <3>1. CASE s = r
      <4>1. Len(wal) + 1 \in DOMAIN wal'
        BY <2>2
      <4> QED
        BY <2>1, <3>1, <4>1
    <3>2. CASE s # r
      <4>0. row' = [row EXCEPT ![r] = "new"]
        BY <1>11 DEF Produce
      <4> row[s] # "none"
        BY <3>2, <4>0
      <4>1. PICK i \in DOMAIN wal : wal[i] = s
        OBVIOUS
      <4> QED
        BY <2>1, <2>2, <4>1
    <3> QED
      BY <3>1, <3>2
  <2>4. \A i \in DOMAIN wal' : row'[wal'[i]] # "none"
    BY <1>11, <2>1, <2>2 DEF Produce
  <2>5. \A s \in sweep' : row'[s] = "new"
    BY <1>11 DEF Produce
  <2>6. \A s \in Rows, stage \in {"publish", "mark"} :
          <<s, stage>> \in handlers' => row'[s] # "none"
    BY <1>11 DEF Produce
  <2> QED
    BY <1>11, <2>3, <2>4, <2>5, <2>6 DEF Produce
<1>12. ASSUME NEW r \in Rows, HandlerPublish(r) PROVE RowsPart'
  <2>1. /\ UNCHANGED <<row, wal, sweep, stored, pc>>
        /\ Store(r) /\ row[r] # "none"
    BY <1>12 DEF HandlerPublish
  <2>2. \A s \in Rows, stage \in {"publish", "mark"} :
          <<s, stage>> \in handlers' => s = r \/ <<s, stage>> \in handlers
    BY <1>12 DEF HandlerPublish
  <2>3. /\ WindowRemembers' /\ NoDoublePublish'
        /\ copies'[r] > 0
        /\ \A s \in Rows : copies[s] > 0 => copies'[s] > 0
    BY <2>1, StoreKeeps
  <2>4. Logged' /\ SweepsAlone'
    BY <1>12, <2>1, <2>2 DEF HandlerPublish
  <2>5. MarksStored'
    BY <2>1, <2>2, <2>3
  <2> QED
    BY <2>3, <2>4, <2>5
<1>13. ASSUME NEW r \in Rows, HandlerMark(r) PROVE RowsPart'
  <2>1. sweep = {} /\ row[r] # "none"
    BY <1>13 DEF HandlerMark
  <2>2. /\ UNCHANGED <<copies, window, wal, sweep, stored, pc>>
        /\ handlers' \subseteq handlers
        /\ row' = [row EXCEPT ![r] = "published"]
    BY <1>13 DEF HandlerMark, Published
  <2>3. \A s \in Rows : row'[s] # "none" <=> row[s] # "none"
    BY <2>1, <2>2
  <2>4. \A i \in DOMAIN wal : wal[i] \in Rows
    OBVIOUS
  <2>5. Logged'
    BY <2>1, <2>2, <2>3, <2>4
  <2> QED
    BY <2>1, <2>2, <2>5
<1>14. ASSUME NEW r \in Rows, HandlerRefused(r) PROVE RowsPart'
  BY <1>14 DEF HandlerRefused, Dropped
<1>15. ASSUME NEW r \in Rows, HandlerFails(r) PROVE RowsPart'
  <2>1. UNCHANGED <<row, wal, sweep, stored, pc>>
    BY <1>15 DEF HandlerFails, Dropped
  <2>2. handlers' \subseteq handlers
    BY <1>15 DEF HandlerFails, Dropped
  <2>3. CASE UNCHANGED <<copies, window>>
    BY <2>1, <2>2, <2>3
  <2>4. CASE Store(r)
    BY <2>1, <2>2, <2>4, StoreKeeps
  <2> QED
    BY <1>15, <2>3, <2>4 DEF HandlerFails
<1>16. ASSUME NEW r \in Rows, WindowEnds(r) PROVE RowsPart'
  BY <1>16 DEF WindowEnds
<1>17. CASE UNCHANGED vars
  BY <1>17 DEF vars
<1> QED
  BY <1>1, <1>2, <1>3, <1>4, <1>5, <1>6, <1>7, <1>8, <1>9, <1>10, <1>11,
     <1>12, <1>13, <1>14, <1>15, <1>16, <1>17 DEF Next, Relay, Handle

LEMMA StepInv == Inv /\ [Next]_vars => Inv'
BY StepTyped, StepRows DEF Inv, RowsPart

THEOREM Invariant == Spec => []Inv
BY InitInv, StepInv, PTL DEF Spec
\* The dupe window keeps the sweep, the tail and the repeated tail from storing
\* a row twice (relay_cdc.ts:8).
THEOREM PublishedOnce == Spec => []NoDoublePublish
BY Invariant, PTL DEF Inv
-----------------------------------------------------------------------------
\* Where an unpublished row is, one row at a time.
Covered(r) ==
  \/ pc \in {"down", "selecting"}
  \/ r \in sweep \union failed
  \/ \E stage \in {"publish", "mark"} : <<r, stage>> \in handlers
  \/ Ahead(r)

LEMMA CoveredRow ==
  ASSUME Inv, Inv', [Next]_vars, NEW r \in Rows, row[r] = "new" => Covered(r),
         row'[r] = "new"
  PROVE  Covered(r)'
<1> USE DEF Covered, Ahead, server, replication, Inv, TypeOK, SlotFollows
<1>1. CASE EnsureSlot
  BY <1>1 DEF EnsureSlot
<1>2. CASE SelectBacklog
  BY <1>2 DEF SelectBacklog
<1>3. CASE Subscribe
  BY <1>3 DEF Subscribe
<1>4. CASE Receive
  <2>1. /\ UNCHANGED <<row, wal, pc, sweep, failed>>
        /\ pc = "tailing" /\ received' = received + 1
        /\ handlers' = handlers \union {<<wal[received + 1], "publish">>}
    BY <1>4 DEF Receive
  <2>2. CASE Ahead(r)
    <3>1. PICK i \in DOMAIN wal : wal[i] = r /\ i > received
      BY <2>1, <2>2
    <3>2. i = received + 1 \/ i > received + 1
      BY <3>1
    <3> QED
      BY <2>1, <3>1, <3>2
  <2> QED
    BY <2>1, <2>2
<1>5. ASSUME NEW s \in Rows, SweepPublish(s) PROVE Covered(r)'
  BY <1>5 DEF SweepPublish
<1>6. ASSUME NEW s \in Rows, SweepMark(s) PROVE Covered(r)'
  BY <1>6 DEF SweepMark, Published
<1>7. ASSUME NEW s \in Rows, SweepRefused(s) PROVE Covered(r)'
  BY <1>7 DEF SweepRefused, Ends
<1>8. CASE Confirm
  BY <1>8 DEF Confirm
<1>9. CASE Dies
  BY <1>9 DEF Dies, Ends
<1>10. CASE StreamEnds
  BY <1>10 DEF StreamEnds
<1>11. ASSUME NEW s \in Rows, Produce(s) PROVE Covered(r)'
  <2>1. /\ Len(wal') = Len(wal) + 1
        /\ wal'[Len(wal) + 1] = s
        /\ \A i \in 1..Len(wal) : wal'[i] = wal[i]
        /\ row' = [row EXCEPT ![s] = "new"]
        /\ UNCHANGED <<slot, received, pc, sweep, handlers, failed>>
    BY <1>11 DEF Produce
  <2>2. DOMAIN wal = 1..Len(wal) /\ DOMAIN wal' = 1..Len(wal) + 1
    BY <2>1
  <2>3. CASE pc \in {"down", "selecting"}
    BY <2>1, <2>3
  <2>4. CASE pc \notin {"down", "selecting"} /\ r = s
    <3>1. Len(wal) + 1 \in DOMAIN wal'
      BY <2>2
    <3>2. received < Len(wal) + 1
      OBVIOUS
    <3>3. slot \in 0..Len(wal)
      BY <2>4 DEF CdcRelayAssumption
    <3>4. slot < Len(wal) + 1
      BY <3>3
    <3> QED
      BY <2>1, <2>4, <3>1, <3>2, <3>4
  <2>5. CASE r # s
    <3>1. Covered(r)
      BY <2>1, <2>5
    <3>2. CASE Ahead(r)
      <4>1. PICK i \in DOMAIN wal :
              wal[i] = r /\ i > (IF pc = "tailing" THEN received ELSE slot)
        BY <3>2
      <4>2. i \in DOMAIN wal' /\ wal'[i] = r
        BY <2>1, <2>2, <4>1
      <4> QED
        BY <2>1, <4>1, <4>2
    <3> QED
      BY <2>1, <3>1, <3>2
  <2> QED
    BY <2>3, <2>4, <2>5
<1>12. ASSUME NEW s \in Rows, HandlerPublish(s) PROVE Covered(r)'
  BY <1>12 DEF HandlerPublish
<1>13. ASSUME NEW s \in Rows, HandlerMark(s) PROVE Covered(r)'
  BY <1>13 DEF HandlerMark, Published
<1>14. ASSUME NEW s \in Rows, HandlerRefused(s) PROVE Covered(r)'
  BY <1>14 DEF HandlerRefused, Dropped
<1>15. ASSUME NEW s \in Rows, HandlerFails(s) PROVE Covered(r)'
  BY <1>15 DEF HandlerFails, Dropped
<1>16. ASSUME NEW s \in Rows, WindowEnds(s) PROVE Covered(r)'
  BY <1>16 DEF WindowEnds
<1>17. CASE UNCHANGED vars
  BY <1>17 DEF vars
<1> QED
  BY <1>1, <1>2, <1>3, <1>4, <1>5, <1>6, <1>7, <1>8, <1>9, <1>10, <1>11,
     <1>12, <1>13, <1>14, <1>15, <1>16, <1>17 DEF Next, Relay, Handle

LEMMA StepSkips == Inv /\ Inv' /\ NothingSkipped /\ [Next]_vars => NothingSkipped'
BY CoveredRow DEF NothingSkipped, Covered

\* No committed row falls between the sweep and the tail, for any log, any
\* order of callbacks and any crash: the slot exists before the sweep selects.
THEOREM NoneSkipped == Spec => []NothingSkipped
<1>1. Init => NothingSkipped
  BY DEF Init, NothingSkipped
<1> QED
  BY <1>1, StepSkips, Invariant, PTL DEF Spec
-----------------------------------------------------------------------------
\* A publish of a committed row is one the outbox allows.
LEMMA StoreAllowed ==
  ASSUME Inv, NEW r \in Rows, Store(r), row[r] # "none", row' = row
  PROVE  [Promise!Next]_(Promise!vars)
<1>1. CASE r \in window
  BY <1>1 DEF Store, Inv, TypeOK, Promise!vars
<1>2. CASE r \notin window
  <2>1. Promise!Store(r)
    BY <1>2 DEF Store, Promise!Store, Inv, WindowRemembers
  <2> QED
    BY <2>1 DEF Promise!Next
<1> QED
  BY <1>1, <1>2

\* So is the mark of a row that is in the stream, new or marked before.
LEMMA MarkAllowed ==
  ASSUME Inv, NEW r \in Rows, Published(r), row[r] # "none", copies[r] > 0,
         copies' = copies
  PROVE  [Promise!Next]_(Promise!vars)
<1>1. CASE row[r] = "new"
  <2>1. Promise!Mark({r})
    BY <1>1 DEF Published, Promise!Mark, Inv, TypeOK
  <2>2. {r} \in SUBSET Rows
    OBVIOUS
  <2> QED
    BY <2>1, <2>2 DEF Promise!Next
<1>2. CASE row[r] = "published"
  BY <1>2 DEF Published, Inv, TypeOK, Promise!vars
<1> QED
  BY <1>1, <1>2 DEF Inv, TypeOK

\* Every step of the CDC relay is a step of the outbox's promise, or none.
LEMMA StepOutbox == Inv /\ [Next]_vars => [Promise!Next]_(Promise!vars)
<1> SUFFICES ASSUME Inv, [Next]_vars PROVE [Promise!Next]_(Promise!vars)
  OBVIOUS
<1> USE DEF server, replication
<1>1. CASE EnsureSlot \/ SelectBacklog \/ Subscribe \/ Receive \/ Confirm
  BY <1>1 DEF EnsureSlot, SelectBacklog, Subscribe, Receive, Confirm, Promise!vars
<1>2. CASE Dies \/ StreamEnds
  BY <1>2 DEF Dies, StreamEnds, Ends, Promise!vars
<1>3. ASSUME NEW r \in Rows, SweepPublish(r) PROVE [Promise!Next]_(Promise!vars)
  BY <1>3, StoreAllowed DEF SweepPublish, First, Inv, Logged
<1>4. ASSUME NEW r \in Rows, SweepMark(r) PROVE [Promise!Next]_(Promise!vars)
  <2>1. row[r] = "new" /\ copies[r] > 0
    BY <1>4 DEF SweepMark, First, Inv, Logged, MarksStored
  <2> QED
    BY <1>4, <2>1, MarkAllowed DEF SweepMark
<1>5. ASSUME NEW r \in Rows, SweepRefused(r) PROVE [Promise!Next]_(Promise!vars)
  BY <1>5 DEF SweepRefused, Ends, Promise!vars
<1>6. ASSUME NEW r \in Rows, Produce(r) PROVE [Promise!Next]_(Promise!vars)
  <2>1. Promise!Commit(r)
    BY <1>6 DEF Produce, Promise!Commit
  <2> QED
    BY <2>1 DEF Promise!Next
<1>7. ASSUME NEW r \in Rows, HandlerPublish(r) PROVE [Promise!Next]_(Promise!vars)
  BY <1>7, StoreAllowed DEF HandlerPublish, Inv, Logged
<1>8. ASSUME NEW r \in Rows, HandlerMark(r) PROVE [Promise!Next]_(Promise!vars)
  BY <1>8, MarkAllowed DEF HandlerMark, Inv, Logged, MarksStored
<1>9. ASSUME NEW r \in Rows, HandlerRefused(r) PROVE [Promise!Next]_(Promise!vars)
  BY <1>9 DEF HandlerRefused, Dropped, Promise!vars
<1>10. ASSUME NEW r \in Rows, HandlerFails(r) PROVE [Promise!Next]_(Promise!vars)
  <2>1. row' = row /\ row[r] # "none"
    BY <1>10 DEF HandlerFails, Dropped, Inv, Logged
  <2>2. (UNCHANGED <<copies, window>>) \/ Store(r)
    BY <1>10 DEF HandlerFails
  <2> QED
    BY <2>1, <2>2, StoreAllowed DEF Promise!vars
<1>11. ASSUME NEW r \in Rows, WindowEnds(r) PROVE [Promise!Next]_(Promise!vars)
  BY <1>11 DEF WindowEnds, Promise!vars
<1>12. CASE UNCHANGED vars
  BY <1>12 DEF vars, Promise!vars
<1> QED
  BY <1>1, <1>2, <1>3, <1>4, <1>5, <1>6, <1>7, <1>8, <1>9, <1>10, <1>11, <1>12
     DEF Next, Relay, Handle

\* The CDC relay implements the outbox's promise (module Outbox), as the poll
\* relays do.
THEOREM ImplementsOutbox == Spec => OutboxSpec
<1>1. Init => Promise!Init
  BY DEF Init, Promise!Init
<1> QED
  BY <1>1, StepOutbox, Invariant, PTL DEF Spec, OutboxSpec, Promise!Spec
=============================================================================
