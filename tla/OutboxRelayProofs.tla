------------------------- MODULE OutboxRelayProofs -------------------------
(***************************************************************************)
(* Proofs about OutboxRelay, for any number of rows and relays, any batch  *)
(* size, and any number of crashes and failed calls.                       *)
(***************************************************************************)
EXTENDS OutboxRelay, TLAPS

USE OutboxRelayAssumption

\* The inductive invariant, part by part.

\* A relay has in hand only rows it has locked, and only committed,
\* unpublished rows are locked.
LocksCover ==
  /\ \A p \in Relays, r \in Rows : r \in todo[p] \union marked[p] => holder[r] = p
  /\ \A r \in Rows : holder[r] # NoRelay => row[r] = "new"

\* A marked row's message is in the stream, and so is that of the row a relay
\* is about to mark.
MarkedInStream ==
  /\ \A p \in Relays, r \in Rows : r \in marked[p] => copies[r] > 0
  /\ \A p \in Relays, r \in Rows :
       pc[p] = "marking" /\ Head(p, r) => copies[r] > 0

\* An id the server does not remember was never published, unless its window
\* has lapsed.
WindowRemembers ==
  /\ \A r \in Rows : r \in window => copies[r] > 0
  /\ \A r \in Rows \ Lapsing : r \notin window => copies[r] = 0

Inv ==
  /\ TypeOK /\ LocksCover /\ MarkedInStream /\ StreamMatchesOutbox
  /\ WindowRemembers /\ NoDoublePublish
-----------------------------------------------------------------------------
\* The initial state satisfies the invariant.
LEMMA InitInv == Init => Inv
BY DEF Init, Inv, TypeOK, LocksCover, MarkedInStream, StreamMatchesOutbox,
       WindowRemembers, NoDoublePublish, Rows

\* Every step keeps the types.
LEMMA StepTyped == TypeOK /\ [Next]_vars => TypeOK'
<1> SUFFICES ASSUME TypeOK, [Next]_vars PROVE TypeOK'
  OBVIOUS
<1> USE DEF server, TypeOK
<1>1. ASSUME NEW p \in Relays, Select(p) PROVE TypeOK'
  BY <1>1 DEF Select, Selectable, Lowest
<1>2. ASSUME NEW p \in Relays, NEW r \in Rows, Publish(p, r) PROVE TypeOK'
  BY <1>2 DEF Publish, Store, Head
<1>3. ASSUME NEW p \in Relays, NEW r \in Rows, Mark(p, r) PROVE TypeOK'
  BY <1>3 DEF Mark, Head
<1>4. ASSUME NEW p \in Relays, NEW r \in Rows, Refused(p, r) PROVE TypeOK'
  BY <1>4 DEF Refused, End, Head
<1>5. ASSUME NEW p \in Relays, Commit(p) PROVE TypeOK'
  BY <1>5 DEF Commit, End
<1>6. ASSUME NEW p \in Relays, Fails(p) PROVE TypeOK'
  BY <1>6 DEF Fails, End
<1>7. ASSUME NEW p \in Relays, NEW r \in Rows, PublishUnanswered(p, r) PROVE TypeOK'
  BY <1>7 DEF PublishUnanswered, Store, End, Head
<1>8. ASSUME NEW r \in Rows, Produce(r) PROVE TypeOK'
  BY <1>8 DEF Produce
<1>9. ASSUME NEW r \in Rows, WindowEnds(r) PROVE TypeOK'
  BY <1>9 DEF WindowEnds
<1>10. CASE UNCHANGED vars
  BY <1>10 DEF vars
<1> QED
  BY <1>1, <1>2, <1>3, <1>4, <1>5, <1>6, <1>7, <1>8, <1>9, <1>10 DEF Next, Tick

\* Every step keeps a relay's rows under its locks.
LEMMA StepLocks == TypeOK /\ LocksCover /\ [Next]_vars => LocksCover'
<1> SUFFICES ASSUME TypeOK /\ LocksCover, [Next]_vars PROVE LocksCover'
  OBVIOUS
<1> USE DEF server, TypeOK, LocksCover
<1>1. ASSUME NEW p \in Relays, Select(p) PROVE LocksCover'
  BY <1>1 DEF Select, Selectable, Lowest
<1>2. ASSUME NEW p \in Relays, NEW r \in Rows, Publish(p, r) PROVE LocksCover'
  BY <1>2 DEF Publish, Store, Head
<1>3. ASSUME NEW p \in Relays, NEW r \in Rows, Mark(p, r) PROVE LocksCover'
  BY <1>3 DEF Mark, Head
<1>4. ASSUME NEW p \in Relays, NEW r \in Rows, Refused(p, r) PROVE LocksCover'
  BY <1>4 DEF Refused, End, Head
<1>5. ASSUME NEW p \in Relays, Commit(p) PROVE LocksCover'
  BY <1>5 DEF Commit, End
<1>6. ASSUME NEW p \in Relays, Fails(p) PROVE LocksCover'
  BY <1>6 DEF Fails, End
<1>7. ASSUME NEW p \in Relays, NEW r \in Rows, PublishUnanswered(p, r) PROVE LocksCover'
  BY <1>7 DEF PublishUnanswered, Store, End, Head
<1>8. ASSUME NEW r \in Rows, Produce(r) PROVE LocksCover'
  BY <1>8 DEF Produce
<1>9. ASSUME NEW r \in Rows, WindowEnds(r) PROVE LocksCover'
  BY <1>9 DEF WindowEnds
<1>10. CASE UNCHANGED vars
  BY <1>10 DEF vars
<1> QED
  BY <1>1, <1>2, <1>3, <1>4, <1>5, <1>6, <1>7, <1>8, <1>9, <1>10 DEF Next, Tick

\* What is marked stays in the stream.
LEMMA StepMarked == Inv /\ [Next]_vars => MarkedInStream'
<1> SUFFICES ASSUME Inv, [Next]_vars PROVE MarkedInStream'
  OBVIOUS
<1> USE DEF server, Inv, TypeOK, LocksCover, MarkedInStream, Head
<1>1. ASSUME NEW p \in Relays, Select(p) PROVE MarkedInStream'
  BY <1>1 DEF Select, Selectable, Lowest
<1>2. ASSUME NEW p \in Relays, NEW r \in Rows, Publish(p, r) PROVE MarkedInStream'
  <2>1. copies'[r] > 0
    BY <1>2 DEF Publish, Store, WindowRemembers
  <2>2. \A s \in Rows : copies'[s] >= copies[s]
    BY <1>2 DEF Publish, Store
  <2>3. ASSUME NEW s \in Rows, Head(p, s) PROVE s = r
    BY <1>2, <2>3 DEF Publish, Rows
  <2>4. ASSUME NEW q \in Relays, NEW s \in Rows, s \in marked'[q]
        PROVE  copies'[s] > 0
    BY <1>2, <2>2, <2>4 DEF Publish, Store
  <2>5. ASSUME NEW q \in Relays, NEW s \in Rows, pc'[q] = "marking",
               Head(q, s)'
        PROVE  copies'[s] > 0
    <3>1. CASE q = p
      BY <1>2, <2>1, <2>3, <2>5, <3>1 DEF Publish
    <3>2. CASE q # p
      BY <1>2, <2>2, <2>5, <3>2 DEF Publish, Store
    <3> QED
      BY <3>1, <3>2
  <2> QED
    BY <2>4, <2>5
<1>3. ASSUME NEW p \in Relays, NEW r \in Rows, Mark(p, r) PROVE MarkedInStream'
  <2>1. copies[r] > 0 /\ copies' = copies
    <3> HIDE DEF Inv, TypeOK, LocksCover, Head
    <3>1. MarkedInStream /\ pc[p] = "marking" /\ Head(p, r)
      BY <1>3 DEF Mark, Inv
    <3> QED
      BY <3>1, <1>3 DEF Mark
  <2>2. ASSUME NEW q \in Relays, NEW s \in Rows, s \in marked'[q]
        PROVE  copies'[s] > 0
    BY <1>3, <2>1, <2>2 DEF Mark
  <2>3. ASSUME NEW q \in Relays, NEW s \in Rows, pc'[q] = "marking",
               Head(q, s)'
        PROVE  copies'[s] > 0
    <3>1. q # p
      BY <1>3, <2>3 DEF Mark
    <3> QED
      BY <1>3, <2>1, <2>3, <3>1 DEF Mark, Head
  <2> QED
    BY <2>2, <2>3
<1>4. ASSUME NEW p \in Relays, NEW r \in Rows, Refused(p, r) PROVE MarkedInStream'
  BY <1>4 DEF Refused, End, Head
<1>5. ASSUME NEW p \in Relays, Commit(p) PROVE MarkedInStream'
  BY <1>5 DEF Commit, End
<1>6. ASSUME NEW p \in Relays, Fails(p) PROVE MarkedInStream'
  BY <1>6 DEF Fails, End
<1>7. ASSUME NEW p \in Relays, NEW r \in Rows, PublishUnanswered(p, r) PROVE MarkedInStream'
  BY <1>7 DEF PublishUnanswered, Store, End, Head
<1>8. ASSUME NEW r \in Rows, Produce(r) PROVE MarkedInStream'
  BY <1>8 DEF Produce
<1>9. ASSUME NEW r \in Rows, WindowEnds(r) PROVE MarkedInStream'
  BY <1>9 DEF WindowEnds
<1>10. CASE UNCHANGED vars
  BY <1>10 DEF vars
<1> QED
  BY <1>1, <1>2, <1>3, <1>4, <1>5, <1>6, <1>7, <1>8, <1>9, <1>10 DEF Next, Tick

\* Every step keeps the stream in line with the outbox.
LEMMA StepStream == Inv /\ [Next]_vars => StreamMatchesOutbox'
<1> SUFFICES ASSUME Inv, [Next]_vars PROVE StreamMatchesOutbox'
  OBVIOUS
<1> USE DEF server, Inv, TypeOK, LocksCover, MarkedInStream, StreamMatchesOutbox
<1>1. ASSUME NEW p \in Relays, Select(p) PROVE StreamMatchesOutbox'
  BY <1>1 DEF Select, Selectable, Lowest
<1>2. ASSUME NEW p \in Relays, NEW r \in Rows, Publish(p, r) PROVE StreamMatchesOutbox'
  BY <1>2 DEF Publish, Store, Head
<1>3. ASSUME NEW p \in Relays, NEW r \in Rows, Mark(p, r) PROVE StreamMatchesOutbox'
  BY <1>3 DEF Mark, Head
<1>4. ASSUME NEW p \in Relays, NEW r \in Rows, Refused(p, r) PROVE StreamMatchesOutbox'
  BY <1>4 DEF Refused, End, Head
<1>5. ASSUME NEW p \in Relays, Commit(p) PROVE StreamMatchesOutbox'
  BY <1>5 DEF Commit, End
<1>6. ASSUME NEW p \in Relays, Fails(p) PROVE StreamMatchesOutbox'
  BY <1>6 DEF Fails, End
<1>7. ASSUME NEW p \in Relays, NEW r \in Rows, PublishUnanswered(p, r) PROVE StreamMatchesOutbox'
  BY <1>7 DEF PublishUnanswered, Store, End, Head
<1>8. ASSUME NEW r \in Rows, Produce(r) PROVE StreamMatchesOutbox'
  BY <1>8 DEF Produce
<1>9. ASSUME NEW r \in Rows, WindowEnds(r) PROVE StreamMatchesOutbox'
  BY <1>9 DEF WindowEnds
<1>10. CASE UNCHANGED vars
  BY <1>10 DEF vars
<1> QED
  BY <1>1, <1>2, <1>3, <1>4, <1>5, <1>6, <1>7, <1>8, <1>9, <1>10 DEF Next, Tick

\* The dupe window knows every published id until it lapses.
LEMMA StepWindow == Inv /\ [Next]_vars => WindowRemembers'
<1> SUFFICES ASSUME Inv, [Next]_vars PROVE WindowRemembers'
  OBVIOUS
<1> USE DEF server, Inv, TypeOK, WindowRemembers
<1>1. ASSUME NEW p \in Relays, Select(p) PROVE WindowRemembers'
  BY <1>1 DEF Select, Selectable, Lowest
<1>2. ASSUME NEW p \in Relays, NEW r \in Rows, Publish(p, r) PROVE WindowRemembers'
  BY <1>2 DEF Publish, Store, Head
<1>3. ASSUME NEW p \in Relays, NEW r \in Rows, Mark(p, r) PROVE WindowRemembers'
  BY <1>3 DEF Mark, Head
<1>4. ASSUME NEW p \in Relays, NEW r \in Rows, Refused(p, r) PROVE WindowRemembers'
  BY <1>4 DEF Refused, End, Head
<1>5. ASSUME NEW p \in Relays, Commit(p) PROVE WindowRemembers'
  BY <1>5 DEF Commit, End
<1>6. ASSUME NEW p \in Relays, Fails(p) PROVE WindowRemembers'
  BY <1>6 DEF Fails, End
<1>7. ASSUME NEW p \in Relays, NEW r \in Rows, PublishUnanswered(p, r) PROVE WindowRemembers'
  BY <1>7 DEF PublishUnanswered, Store, End, Head
<1>8. ASSUME NEW r \in Rows, Produce(r) PROVE WindowRemembers'
  BY <1>8 DEF Produce
<1>9. ASSUME NEW r \in Rows, WindowEnds(r) PROVE WindowRemembers'
  BY <1>9 DEF WindowEnds
<1>10. CASE UNCHANGED vars
  BY <1>10 DEF vars
<1> QED
  BY <1>1, <1>2, <1>3, <1>4, <1>5, <1>6, <1>7, <1>8, <1>9, <1>10 DEF Next, Tick

\* No step publishes a second copy of a row whose window does not lapse.
LEMMA StepCopies == Inv /\ [Next]_vars => NoDoublePublish'
<1> SUFFICES ASSUME Inv, [Next]_vars PROVE NoDoublePublish'
  OBVIOUS
<1>1. ASSUME NEW r \in Rows, Store(r) PROVE NoDoublePublish'
  BY <1>1 DEF Store, Inv, TypeOK, WindowRemembers, NoDoublePublish
<1>2. CASE UNCHANGED copies
  BY <1>2 DEF Inv, NoDoublePublish
<1> QED
  BY <1>1, <1>2 DEF Next, Tick, Select, Publish, Mark, Refused, Commit, Fails,
     PublishUnanswered, Produce, WindowEnds, server, vars

LEMMA StepInv == Inv /\ [Next]_vars => Inv'
BY StepTyped, StepLocks, StepMarked, StepStream, StepWindow, StepCopies DEF Inv

THEOREM Invariant == Spec => []Inv
BY InitInv, StepInv, PTL DEF Spec

\* Two relays never work on the same row (FOR UPDATE SKIP LOCKED,
\* relay.ts:31-33), for any number of relays.
THEOREM BatchesDisjoint == Spec => []DisjointBatches
<1>1. Inv => DisjointBatches
  BY DEF Inv, TypeOK, LocksCover, DisjointBatches
<1> QED
  BY <1>1, Invariant, PTL

\* The stream and the outbox agree (README.md:111), whatever rolls back.
THEOREM OutboxAtomic == Spec => []StreamMatchesOutbox
<1>1. Inv => StreamMatchesOutbox
  BY DEF Inv
<1> QED
  BY <1>1, Invariant, PTL

\* A row whose dupe window outlasts its republications is never in the stream
\* twice, however many relays run, crash and retry (relay.ts:6-7).
THEOREM PublishedOnce == Spec => []NoDoublePublish
<1>1. Inv => NoDoublePublish
  BY DEF Inv
<1> QED
  BY <1>1, Invariant, PTL
-----------------------------------------------------------------------------
\* A publish stores the row's message, or changes nothing in the stream.
LEMMA PublishStores ==
  ASSUME Inv, NEW p \in Relays, NEW r \in Rows, pc[p] = "publishing",
         Head(p, r), Store(r), UNCHANGED row
  PROVE  [Promise!Next]_(Promise!vars)
<1>1. row[r] = "new"
  BY DEF Inv, LocksCover, Head
<1>2. CASE r \in window
  BY <1>2 DEF Store, Inv, TypeOK, Promise!vars
<1>3. CASE r \notin window
  <2>1. Promise!Store(r)
    BY <1>1, <1>3 DEF Store, Promise!Store, Inv, WindowRemembers, TypeOK
  <2> QED
    BY <2>1 DEF Promise!Next
<1> QED
  BY <1>2, <1>3

\* The end of a transaction marks what it wrote.
LEMMA EndMarks ==
  ASSUME Inv, NEW p \in Relays, NEW written \in SUBSET marked[p],
         End(p, written), UNCHANGED copies
  PROVE  [Promise!Next]_(Promise!vars)
<1>1. written \subseteq Rows
  BY DEF Inv, TypeOK
<1>2. \A r \in written : row[r] = "new" /\ copies[r] > 0
  BY <1>1 DEF Inv, LocksCover, MarkedInStream
<1>3. Promise!Mark(written)
  BY <1>1, <1>2 DEF Promise!Mark, End
<1> QED
  BY <1>1, <1>3 DEF Promise!Next

\* Every step of the relays is a step of Outbox, or changes nothing there.
LEMMA StepOutbox == Inv /\ [Next]_vars => [Promise!Next]_(Promise!vars)
<1> SUFFICES ASSUME Inv, [Next]_vars PROVE [Promise!Next]_(Promise!vars)
  OBVIOUS
<1> USE DEF server
<1>1. ASSUME NEW p \in Relays, Select(p) PROVE UNCHANGED Promise!vars
  BY <1>1 DEF Select, Promise!vars
<1>2. ASSUME NEW p \in Relays, NEW r \in Rows, Publish(p, r)
      PROVE  [Promise!Next]_(Promise!vars)
  BY <1>2, PublishStores DEF Publish
<1>3. ASSUME NEW p \in Relays, NEW r \in Rows, Mark(p, r)
      PROVE  UNCHANGED Promise!vars
  BY <1>3 DEF Mark, Promise!vars
<1>4. ASSUME NEW p \in Relays, NEW r \in Rows, Refused(p, r)
      PROVE  [Promise!Next]_(Promise!vars)
  BY <1>4, EndMarks DEF Refused
<1>5. ASSUME NEW p \in Relays, Commit(p) PROVE [Promise!Next]_(Promise!vars)
  BY <1>5, EndMarks DEF Commit
<1>6. ASSUME NEW p \in Relays, Fails(p) PROVE [Promise!Next]_(Promise!vars)
  BY <1>6, EndMarks DEF Fails
<1>7. ASSUME NEW p \in Relays, NEW r \in Rows, PublishUnanswered(p, r)
      PROVE  [Promise!Next]_(Promise!vars)
  <2>1. row' = row
    BY <1>7 DEF PublishUnanswered, End, Inv, TypeOK
  <2> QED
    BY <1>7, <2>1, PublishStores DEF PublishUnanswered
<1>8. ASSUME NEW r \in Rows, Produce(r) PROVE [Promise!Next]_(Promise!vars)
  <2>1. Promise!Commit(r)
    BY <1>8 DEF Produce, Promise!Commit
  <2> QED
    BY <2>1 DEF Promise!Next
<1>9. ASSUME NEW r \in Rows, WindowEnds(r) PROVE UNCHANGED Promise!vars
  BY <1>9 DEF WindowEnds, Promise!vars
<1>10. CASE UNCHANGED vars
  BY <1>10 DEF vars, Promise!vars
<1> QED
  BY <1>1, <1>2, <1>3, <1>4, <1>5, <1>6, <1>7, <1>8, <1>9, <1>10 DEF Next, Tick

\* The poll relays implement the outbox's promise (module Outbox), for any
\* number of relays and any batch size.
THEOREM ImplementsOutbox == Spec => OutboxSpec
<1>1. Init => Promise!Init
  BY DEF Init, Promise!Init
<1> QED
  BY <1>1, StepOutbox, Invariant, PTL DEF Spec, OutboxSpec, Promise!Spec
=============================================================================
