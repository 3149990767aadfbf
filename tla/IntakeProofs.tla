---------------------------- MODULE IntakeProofs ----------------------------
(***************************************************************************)
(* The inductive invariant of Intake, for any number of syncs, loops,      *)
(* items and faults, and any page sizes.                                   *)
(***************************************************************************)
EXTENDS Intake, FiniteSetTheorems, TLAPS

\* An item in an open transaction is one to make a task of; one that is
\* inserted has no row yet, and no other transaction has inserted it.
Transactions ==
  \A w \in Workers :
    /\ now[w] # 0 => Item(w) \notin Ignored
    /\ pc[w] = "inserted" =>
         /\ tasks[Item(w)] = 0
         /\ \A v \in Workers \ {w} : pc[v] = "inserted" => Item(v) # Item(w)

\* What a loop has in hand lies ahead of its cursor and of what is dropped.
Ahead ==
  \A l \in Loops :
    /\ \A k \in todo[l] : k > cursor[l] /\ k > dropped[l]
    /\ now[l] # 0 => now[l] > dropped[l]

\* A page has no hole: what lies below one of its items is on it too, or was
\* asked for before, or was pushed off.
Gapless ==
  \A l \in Loops : \A j \in todo[l] : \A k \in 1..j :
    \/ k \in todo[l]
    \/ k <= cursor[l] \/ k <= dropped[l]
    \/ PushedOff(l, k)

Inv == /\ TypeOK /\ OneTaskPerItem /\ Transactions
       /\ Ahead /\ Gapless /\ NothingPassedOver
-----------------------------------------------------------------------------
\* Sources: a loop reads its own, a sync the forge's.
LEMMA SourceFacts ==
  ASSUME NEW w \in Workers
  PROVE  /\ Source(w) \in Sources
         /\ w \in Loops => Source(w) = w
         /\ Posts[Source(w)] \in Nat
BY IntakeAssumption DEF Source, Sources, Workers

\* A page holds only what its source holds, ahead of the loop's cursor.
LEMMA PageFacts ==
  ASSUME NEW w \in Workers, NEW k \in Page(w)
  PROVE  /\ k \in 1..posted[Source(w)]
         /\ w \in Loops => k > cursor[w] /\ k > dropped[w]
BY DEF Page, Listed

\* What a loop has not asked for before and its page leaves out below one of
\* the page's items has a page of newer ones above it.
LEMMA PageGapless ==
  ASSUME TypeOK, NEW l \in Loops, NEW j \in Page(l), NEW k \in 1..j
  PROVE  k \in Page(l) \/ k <= cursor[l] \/ k <= dropped[l] \/ PushedOff(l, k)
<1> DEFINE Behind(n) == {i \in Listed(l) : IF Source(l) \in Newest THEN i > n
                                                                   ELSE i < n}
<1>1. /\ Source(l) = l /\ l \in Sources /\ posted[l] \in Nat
      /\ cursor[l] \in Nat /\ dropped[l] \in Nat /\ PageSize[l] \in Nat
  BY IntakeAssumption DEF TypeOK, Source, Sources
<1>2. /\ j \in Listed(l) /\ Cardinality(Behind(j)) < PageSize[l]
      /\ j \in 1..posted[l]
  BY <1>1 DEF Page, Listed
<1>3. SUFFICES ASSUME k \notin Page(l), k > cursor[l], k > dropped[l]
               PROVE  PushedOff(l, k)
  BY <1>1, <1>2
<1>4. k \in Listed(l) /\ k # j
  BY <1>1, <1>2, <1>3 DEF Listed
<1>5. ~(Cardinality(Behind(k)) < PageSize[l])
  BY <1>1, <1>3, <1>4 DEF Page
<1>6. IsFiniteSet(Listed(l))
  <2>1. IsFiniteSet(1..posted[l])
    <3>1. 1 \in Int /\ posted[l] \in Int
      BY <1>1
    <3> QED
      BY <3>1, FS_Interval
  <2> QED
    <3>1. Listed(l) \in SUBSET (1..posted[l])
      BY <1>1 DEF Listed
    <3> QED
      BY <2>1, <3>1, FS_Subset
<1>7. IsFiniteSet(Behind(j)) /\ Cardinality(Behind(j)) \in Nat
  BY <1>6, FS_Subset, FS_CardinalityType
<1>8. IsFiniteSet(Behind(k)) /\ Cardinality(Behind(k)) \in Nat
  BY <1>6, FS_Subset, FS_CardinalityType
<1>9. CASE l \notin Newest
  <2>1. Behind(k) \subseteq Behind(j)
    BY <1>1, <1>2, <1>9 DEF Listed
  <2>2. Cardinality(Behind(k)) <= Cardinality(Behind(j))
    BY <2>1, <1>7, FS_Subset
  <2> QED
    BY <2>2, <1>1, <1>2, <1>5, <1>7, <1>8
<1>10. CASE l \in Newest
  <2>1. /\ IsFiniteSet((k + 1)..posted[l])
        /\ Cardinality((k + 1)..posted[l]) = posted[l] - k
    <3>1. k + 1 \in Int /\ posted[l] \in Int /\ k + 1 <= posted[l]
      BY <1>1, <1>2, <1>4
    <3>2. /\ IsFiniteSet((k + 1)..posted[l])
          /\ Cardinality((k + 1)..posted[l]) =
               IF k + 1 > posted[l] THEN 0 ELSE posted[l] - (k + 1) + 1
      BY <3>1, FS_Interval
    <3> QED
      BY <3>1, <3>2
  <2>2. Behind(k) \subseteq (k + 1)..posted[l]
    BY <1>1, <1>10 DEF Listed
  <2>3. Cardinality(Behind(k)) <= posted[l] - k
    BY <2>1, <2>2, FS_Subset
  <2> QED
    BY <2>3, <1>1, <1>2, <1>5, <1>8, <1>10 DEF PushedOff
<1> QED
  BY <1>9, <1>10
-----------------------------------------------------------------------------
\* Every variable keeps its type; what is in hand or on a page exists.
LEMMA TypeInit == Init => TypeOK
BY IntakeAssumption DEF Init, TypeOK, Sources, Source

\* A new item of a source.
LEMMA TypePost ==
  ASSUME TypeOK, NEW s \in Sources, Post(s)
  PROVE  TypeOK'
BY IntakeAssumption, SourceFacts DEF TypeOK, Post, Source, tables, Workers, Sources

\* A request, answered or not.
LEMMA TypePoll ==
  ASSUME TypeOK, NEW w \in Workers, Ask(w),
         todo' = [todo EXCEPT ![w] = Page(w)] \/ UNCHANGED todo,
         faults' \in 0..MaxFaults
  PROVE  TypeOK'
<1>1. Page(w) \subseteq 1..posted[Source(w)] /\ Page(w) \subseteq Nat
  BY PageFacts, SourceFacts DEF TypeOK
<1>2. \A v \in Workers : Source(v)' = Source(v)
  BY DEF Source
<1> QED
  BY <1>1, <1>2 DEF TypeOK, Ask, tables

\* The next item of an answer.
LEMMA TypeReach ==
  ASSUME TypeOK, NEW w \in Workers, NEW k \in todo[w],
         Skip(w, k) \/ Select(w, k)
  PROVE  TypeOK'
<1>1. k \in 1..posted[Source(w)] /\ k \in Nat
  BY SourceFacts DEF TypeOK
<1>2. \A v \in Workers : Source(v)' = Source(v)
  BY DEF Source
<1>3. w \in Loops => k <= posted[w]
  BY <1>1, SourceFacts DEF TypeOK
<1>4. CASE Skip(w, k)
  BY <1>1, <1>2, <1>3, <1>4 DEF TypeOK, Reach, Skip, tables
<1>5. CASE Select(w, k)
  <2>1. cursor' \in [Loops -> Nat] /\ now' \in [Workers -> Nat]
    BY <1>1, <1>5 DEF TypeOK, Reach, Select
  <2>2. \A l \in Loops : cursor'[l] <= posted'[l]
    BY <1>1, <1>3, <1>5 DEF TypeOK, Reach, Select
  <2>3. pc' \in [Workers -> {"reading", "selected", "inserted", "replying"}]
    BY <1>5 DEF TypeOK, Select
  <2>4. \A v \in Workers :
          /\ todo'[v] \subseteq todo[v]
          /\ IF v = w THEN pc'[v] = "selected" /\ now'[v] = k
                      ELSE pc'[v] = pc[v] /\ now'[v] = now[v]
    BY <1>5 DEF TypeOK, Reach, Select
  <2>5. todo' \in [Workers -> SUBSET Nat]
    BY <1>5 DEF TypeOK, Reach, Select
  <2>6. \A v \in Workers :
          /\ todo'[v] \subseteq 1..posted[Source(v)]
          /\ IF pc'[v] \in {"selected", "inserted"}
             THEN now'[v] \in 1..posted[Source(v)] ELSE now'[v] = 0
    BY <1>1, <2>4 DEF TypeOK
  <2> QED
    BY <1>2, <1>5, <2>1, <2>2, <2>3, <2>5, <2>6 DEF TypeOK, Select, tables
<1> QED
  BY <1>4, <1>5

\* The end of a process, whatever was committed before it.
LEMMA TypeDies ==
  ASSUME TypeOK, NEW w \in Workers, Dies(w),
         tasks' \in [Items -> Nat], rows' \in [Items -> Nat],
         faults' \in 0..MaxFaults
  PROVE  TypeOK'
<1>1. \A v \in Workers : Source(v)' = Source(v)
  BY DEF Source
<1>2. \A v \in Workers :
        IF v \in Fellows(w)
        THEN pc'[v] = "reading" /\ todo'[v] = {} /\ now'[v] = 0
        ELSE pc'[v] = pc[v] /\ todo'[v] = todo[v] /\ now'[v] = now[v]
  BY DEF Dies
<1>3. /\ pc' \in [Workers -> {"reading", "selected", "inserted", "replying"}]
      /\ todo' \in [Workers -> SUBSET Nat] /\ now' \in [Workers -> Nat]
      /\ cursor' \in [Loops -> Nat]
  BY DEF TypeOK, Dies
<1>4. \A l \in Loops : cursor'[l] <= posted[l]
  BY DEF TypeOK, Dies, Sources
<1>5. \A v \in Workers :
        /\ todo'[v] \subseteq 1..posted[Source(v)]
        /\ IF pc'[v] \in {"selected", "inserted"}
           THEN now'[v] \in 1..posted[Source(v)] ELSE now'[v] = 0
  BY <1>2 DEF TypeOK
<1> QED
  BY <1>1, <1>3, <1>4, <1>5 DEF TypeOK, Dies

\* The commit of the two rows.
LEMMA TypeWrite ==
  ASSUME TypeOK, NEW w \in Workers, Write(w)
  PROVE  tasks' \in [Items -> Nat] /\ rows' \in [Items -> Nat]
<1>1. ASSUME NEW f \in [Items -> Nat]
      PROVE  [f EXCEPT ![Item(w)] = @ + 1] \in [Items -> Nat]
  <2> DEFINE g == [f EXCEPT ![Item(w)] = @ + 1]
  <2>1. \A i \in Items : g[i] = IF i = Item(w) THEN f[i] + 1 ELSE f[i]
    OBVIOUS
  <2>2. \A i \in Items : g[i] \in Nat
    BY <2>1
  <2> QED
    BY <2>2
<1> QED
  BY <1>1 DEF TypeOK, Write

\* Every step keeps the types.
LEMMA TypeStep == TypeOK /\ [Next]_vars => TypeOK'
<1> SUFFICES ASSUME TypeOK, [Next]_vars
             PROVE  TypeOK'
  OBVIOUS
<1>1. CASE UNCHANGED vars
  BY <1>1 DEF vars, TypeOK, Source
<1>2. ASSUME NEW s \in Sources, Post(s)
      PROVE  TypeOK'
  BY <1>2, TypePost
<1>3. ASSUME NEW w \in Workers, Poll(w) \/ PollFails(w)
      PROVE  TypeOK'
  <2>1. faults' \in 0..MaxFaults
    BY <1>3, IntakeAssumption DEF Poll, PollFails, Ask, TypeOK
  <2> QED
    BY <1>3, <2>1, TypePoll DEF Poll, PollFails
<1>4. ASSUME NEW w \in Workers, NEW k \in todo[w], Skip(w, k) \/ Select(w, k)
      PROVE  TypeOK'
  BY <1>4, TypeReach
<1>5. ASSUME NEW w \in Workers, Insert(w) \/ Reply(w)
      PROVE  TypeOK'
  BY <1>5 DEF TypeOK, Insert, Reply, Source, tables
<1>6. ASSUME NEW w \in Workers, Commit(w)
      PROVE  TypeOK'
  BY <1>6, TypeWrite DEF TypeOK, Commit, Source
<1>7. ASSUME NEW w \in Workers, ReplyFails(w)
      PROVE  TypeOK'
  BY <1>7, IntakeAssumption DEF TypeOK, ReplyFails, Source, tables
<1>8. ASSUME NEW w \in Workers, Conflict(w)
      PROVE  TypeOK'
  BY <1>8, TypeDies DEF TypeOK, Conflict, tables
<1>9. ASSUME NEW w \in Workers, Fault(w)
      PROVE  TypeOK'
  <2>1. faults' \in 0..MaxFaults
    BY <1>9, IntakeAssumption DEF Fault, TypeOK
  <2> QED
    BY <1>9, <2>1, TypeDies DEF TypeOK, Fault, tables
<1>10. ASSUME NEW w \in Workers, CommitUnanswered(w)
       PROVE  TypeOK'
  <2>1. faults' \in 0..MaxFaults
    BY <1>10, IntakeAssumption DEF CommitUnanswered, TypeOK
  <2> QED
    BY <1>10, <2>1, TypeDies, TypeWrite DEF CommitUnanswered
<1> QED
  BY <1>1, <1>2, <1>3, <1>4, <1>5, <1>6, <1>7, <1>8, <1>9, <1>10
     DEF Next, Step
-----------------------------------------------------------------------------
\* The item of an open transaction is one of its source, with a row to write.
LEMMA ItemFacts ==
  ASSUME TypeOK, NEW w \in Workers, pc[w] \in {"selected", "inserted"}
  PROVE  /\ Item(w) \in Items
         /\ tasks[Item(w)] \in Nat /\ rows[Item(w)] \in Nat
<1>1. /\ Source(w) \in Sources
      /\ now[w] \in 1..posted[Source(w)]
      /\ posted[Source(w)] \in Nat /\ posted[Source(w)] <= Posts[Source(w)]
      /\ Posts[Source(w)] \in Nat
  BY SourceFacts DEF TypeOK
<1>2. now[w] \in Numbers(Source(w))
  BY <1>1 DEF Numbers
<1>3. Item(w) \in Items
  BY <1>1, <1>2 DEF Item, Items
<1> QED
  BY <1>3 DEF TypeOK

\* Where no transaction begins or inserts, those that stay open keep what they
\* have, as long as nobody writes their item.
LEMMA TransactionsKept ==
  ASSUME Transactions,
         \A v \in Workers : now'[v] = 0 \/ now'[v] = now[v],
         \A v \in Workers : pc'[v] = "inserted" =>
           /\ pc[v] = "inserted" /\ now'[v] = now[v]
           /\ tasks'[Item(v)] = tasks[Item(v)]
  PROVE  Transactions'
<1>1. \A v \in Workers : now'[v] = now[v] => Item(v)' = Item(v)
  BY DEF Item, Source
<1> QED
  BY <1>1 DEF Transactions

\* A transaction that begins has inserted nothing.
LEMMA TransactionsSelect ==
  ASSUME TypeOK, Transactions, NEW w \in Workers, NEW k \in todo[w], Select(w, k)
  PROVE  Transactions'
<1>1. \A v \in Workers : IF v = w THEN pc'[v] = "selected" /\ now'[v] = k
                                  ELSE pc'[v] = pc[v] /\ now'[v] = now[v]
  BY DEF TypeOK, Select
<1>2. \A v \in Workers \ {w} : Item(v)' = Item(v)
  BY <1>1 DEF Item, Source
<1>3. Item(w)' \notin Ignored
  BY <1>1 DEF Select, Item, Source
<1> QED
  BY <1>1, <1>2, <1>3 DEF Transactions, Select, tables

\* The INSERT waits for the one that has inserted the same ext_id.
LEMMA TransactionsInsert ==
  ASSUME TypeOK, Transactions, NEW w \in Workers, Insert(w)
  PROVE  Transactions'
<1>1. \A v \in Workers : pc'[v] = IF v = w THEN "inserted" ELSE pc[v]
  BY DEF TypeOK, Insert
<1>2. \A v \in Workers : Item(v)' = Item(v)
  BY DEF Item, Source, Insert
<1>3. \A v \in Workers : pc[v] = "inserted" => Item(v) # Item(w)
  BY DEF Insert, Pending
<1> QED
  BY <1>1, <1>2, <1>3 DEF Transactions, Insert, tables

\* The write of an inserted item makes its first task, with its outbox row.
LEMMA WriteOnce ==
  ASSUME TypeOK, OneTaskPerItem, Transactions,
         NEW w \in Workers, pc[w] = "inserted", Write(w)
  PROVE  /\ OneTaskPerItem'
         /\ \A i \in Items : tasks'[i] = IF i = Item(w) THEN 1 ELSE tasks[i]
         /\ \A v \in Workers \ {w} :
              pc[v] = "inserted" => tasks'[Item(v)] = tasks[Item(v)]
<1>1. Item(w) \in Items /\ tasks[Item(w)] = 0 /\ rows[Item(w)] = 0
  BY ItemFacts DEF Transactions, OneTaskPerItem
<1>2. \A i \in Items : /\ tasks'[i] = IF i = Item(w) THEN 1 ELSE tasks[i]
                       /\ rows'[i] = IF i = Item(w) THEN 1 ELSE rows[i]
  BY <1>1 DEF Write, TypeOK
<1>3. Item(w) \notin Ignored
  <2>1. now[w] # 0
    BY DEF TypeOK
  <2> QED
    BY <2>1 DEF Transactions
<1>4. \A v \in Workers \ {w} :
        pc[v] = "inserted" => Item(v) \in Items /\ Item(v) # Item(w)
  BY ItemFacts DEF Transactions
<1> QED
  BY <1>1, <1>2, <1>3, <1>4 DEF OneTaskPerItem

\* What the end of a process does to the workers.
LEMMA DiesFacts ==
  ASSUME TypeOK, NEW w \in Workers, Dies(w)
  PROVE  \A v \in Workers :
           IF v \in Fellows(w)
           THEN pc'[v] = "reading" /\ todo'[v] = {} /\ now'[v] = 0
           ELSE pc'[v] = pc[v] /\ todo'[v] = todo[v] /\ now'[v] = now[v]
BY DEF Dies

\* Every step keeps the two together.
LEMMA OnceStep ==
  ASSUME TypeOK, OneTaskPerItem, Transactions, [Next]_vars
  PROVE  OneTaskPerItem' /\ Transactions'
<1>1. CASE UNCHANGED vars
  BY <1>1 DEF vars, OneTaskPerItem, Transactions, Item, Source
<1>2. ASSUME UNCHANGED <<pc, now, tables>>
      PROVE  OneTaskPerItem' /\ Transactions'
  BY <1>2, TransactionsKept DEF OneTaskPerItem, tables
<1>3. ASSUME NEW w \in Workers, NEW k \in todo[w], Select(w, k)
      PROVE  OneTaskPerItem' /\ Transactions'
  BY <1>3, TransactionsSelect DEF Select, OneTaskPerItem, tables
<1>4. ASSUME NEW w \in Workers, Insert(w)
      PROVE  OneTaskPerItem' /\ Transactions'
  BY <1>4, TransactionsInsert DEF Insert, OneTaskPerItem, tables
<1>5. ASSUME NEW w \in Workers, Reply(w) \/ ReplyFails(w)
      PROVE  OneTaskPerItem' /\ Transactions'
  <2>1. \A v \in Workers : pc'[v] = "inserted" => pc[v] = "inserted"
    BY <1>5 DEF TypeOK, Reply, ReplyFails
  <2> QED
    BY <1>5, <2>1, TransactionsKept
       DEF Reply, ReplyFails, OneTaskPerItem, tables
<1>6. ASSUME NEW w \in Workers, Commit(w)
      PROVE  OneTaskPerItem' /\ Transactions'
  <2>1. \A v \in Workers : IF v = w THEN pc'[v] # "inserted" /\ now'[v] = 0
                                    ELSE pc'[v] = pc[v] /\ now'[v] = now[v]
    BY <1>6 DEF TypeOK, Commit
  <2> QED
    BY <1>6, <2>1, WriteOnce, TransactionsKept DEF Commit
<1>7. ASSUME NEW w \in Workers, Conflict(w) \/ Fault(w)
      PROVE  OneTaskPerItem' /\ Transactions'
  <2>1. UNCHANGED tables /\ Dies(w)
    BY <1>7 DEF Conflict, Fault
  <2> QED
    BY <2>1, DiesFacts, TransactionsKept DEF OneTaskPerItem, tables
<1>8. ASSUME NEW w \in Workers, CommitUnanswered(w)
      PROVE  OneTaskPerItem' /\ Transactions'
  <2>1. w \in Fellows(w)
    BY DEF Fellows
  <2> QED
    BY <1>8, <2>1, DiesFacts, WriteOnce, TransactionsKept DEF CommitUnanswered
<1> QED
  BY <1>1, <1>2, <1>3, <1>4, <1>5, <1>6, <1>7, <1>8
     DEF Next, Step, Post, Poll, PollFails, Ask, Skip
-----------------------------------------------------------------------------
\* The cursors.
Cursors == Ahead /\ Gapless /\ NothingPassedOver

\* An item that was pushed off stays so: sources only grow.
LEMMA PushedOffStays ==
  ASSUME TypeOK, TypeOK', NEW l \in Loops, posted'[l] >= posted[l],
         NEW k \in Nat, PushedOff(l, k)
  PROVE  PushedOff(l, k)'
<1>1. posted[l] \in Nat /\ posted'[l] \in Nat /\ PageSize[l] \in Nat
  BY IntakeAssumption DEF TypeOK, Sources
<1> QED
  BY <1>1 DEF PushedOff

\* What the types say of a loop.
LEMMA LoopTypes ==
  ASSUME TypeOK, NEW l \in Loops
  PROVE  /\ posted[l] \in Nat /\ cursor[l] \in Nat /\ dropped[l] \in Nat
         /\ todo[l] \subseteq 1..posted[l]
         /\ now[l] \in Nat /\ l \in Workers /\ Source(l) = l
BY DEF TypeOK, Workers, Sources, Source

\* A new item lies ahead of every cursor.
LEMMA CursorsPost ==
  ASSUME TypeOK, TypeOK', Cursors, NEW s \in Sources, Post(s)
  PROVE  Cursors'
<1>1. \A l \in Loops :
        /\ posted'[l] >= posted[l]
        /\ cursor[l] <= posted[l] /\ dropped[l] <= posted[l]
  BY DEF TypeOK, Post, Sources
<1>2. \A l \in Loops, k \in Nat : PushedOff(l, k) => PushedOff(l, k)'
  BY <1>1, PushedOffStays
<1>3. Ahead'
  BY DEF Cursors, Ahead, Post
<1>4. Gapless'
  BY <1>2, LoopTypes DEF Cursors, Gapless, Post
<1>5. NothingPassedOver'
  <2> SUFFICES ASSUME NEW l \in Loops, NEW k \in 1..posted'[l],
                      k <= cursor[l] \/ k <= dropped[l]
               PROVE  \/ tasks[<<l, k>>] > 0
                      \/ <<l, k>> \in Ignored
                      \/ now[l] = k
                      \/ PushedOff(l, k)'
    BY DEF NothingPassedOver, Post, tables
  <2>1. k \in 1..posted[l]
    BY <1>1, LoopTypes
  <2> QED
    BY <2>1, <1>2 DEF Cursors, NothingPassedOver
<1> QED
  BY <1>3, <1>4, <1>5 DEF Cursors

\* A request drops no more than the cursor has passed, and its page is gapless.
LEMMA CursorsAsk ==
  ASSUME TypeOK, Cursors, NEW w \in Workers, Ask(w),
         todo' = [todo EXCEPT ![w] = Page(w)] \/ UNCHANGED todo
  PROVE  Cursors'
<1>1. \A l \in Loops :
        /\ dropped'[l] \in Nat /\ dropped'[l] >= dropped[l]
        /\ dropped'[l] <= cursor[l] \/ dropped'[l] = dropped[l]
        /\ l # w => dropped'[l] = dropped[l]
  BY LoopTypes DEF Ask
<1>2. \A l \in Loops, k \in Nat : PushedOff(l, k)' = PushedOff(l, k)
  BY DEF Ask, PushedOff
<1>3. \A l \in Loops : l # w => todo'[l] = todo[l]
  BY DEF TypeOK, Workers
<1>4. w \in Loops => now[w] = 0 /\ (todo'[w] = Page(w) \/ todo'[w] = {})
  BY DEF TypeOK, Ask, Workers
<1>5. Ahead'
  <2> SUFFICES ASSUME NEW l \in Loops
               PROVE  /\ \A k \in todo'[l] : k > cursor[l] /\ k > dropped'[l]
                      /\ now[l] # 0 => now[l] > dropped'[l]
    BY DEF Ahead, Ask
  <2>1. CASE l # w
    BY <1>1, <1>3, <2>1 DEF Cursors, Ahead
  <2>2. CASE l = w
    <3>1. \A k \in todo'[l] : k > cursor[l] /\ k > dropped[l] /\ k \in Nat
      BY <1>4, <2>2, PageFacts, LoopTypes
    <3> QED
      BY <1>1, <1>4, <2>2, <3>1, LoopTypes
  <2> QED
    BY <2>1, <2>2
<1>6. Gapless'
  <2> SUFFICES ASSUME NEW l \in Loops, NEW j \in todo'[l], NEW k \in 1..j
               PROVE  \/ k \in todo'[l]
                      \/ k <= cursor[l] \/ k <= dropped'[l]
                      \/ PushedOff(l, k)
    BY <1>2 DEF Gapless, Ask
  <2>1. k <= dropped[l] => k <= dropped'[l]
    BY <1>1, LoopTypes
  <2>2. CASE l # w
    BY <1>3, <2>1, <2>2 DEF Cursors, Gapless
  <2>3. CASE l = w
    BY <1>4, <2>1, <2>3, PageGapless
  <2> QED
    BY <2>2, <2>3
<1>7. NothingPassedOver'
  <2>1. \A l \in Loops : \A k \in 1..posted[l] :
          k <= dropped'[l] => k <= cursor[l] \/ k <= dropped[l]
    BY <1>1, LoopTypes
  <2> QED
    BY <1>2, <2>1 DEF Cursors, NothingPassedOver, Ask, tables
<1> QED
  BY <1>5, <1>6, <1>7 DEF Cursors

\* The cursor moves to the oldest item of the page, and what lies between is
\* accounted for.
LEMMA CursorsReach ==
  ASSUME TypeOK, Cursors, NEW w \in Workers, NEW k \in todo[w],
         Skip(w, k) \/ Select(w, k)
  PROVE  Cursors'
<1>1. /\ Reach(w, k) /\ UNCHANGED <<posted, dropped, tables>>
      /\ w \in Loops => now[w] = 0
  BY LoopTypes DEF Skip, Select, Reach, TypeOK
<1>2. \A l \in Loops : IF l = w THEN cursor'[l] = k /\ todo'[l] = todo[l] \ {k}
                       ELSE /\ cursor'[l] = cursor[l] /\ todo'[l] = todo[l]
                            /\ now'[l] = now[l]
  BY <1>1 DEF Reach, Skip, Select, TypeOK, Workers
<1>3. w \in Loops => /\ k \in 1..posted[w] /\ k > cursor[w] /\ k > dropped[w]
                     /\ \A j \in todo[w] : k <= j
                     /\ posted[w] \in Nat /\ cursor[w] \in Nat
                     /\ todo[w] \subseteq 1..posted[w]
  BY <1>1, LoopTypes DEF Cursors, Ahead, Reach, Turn
<1>4. w \in Loops => now'[w] \in {0, k}
  BY <1>1 DEF Skip, Select, TypeOK, Workers
<1>5. \A l \in Loops, n \in Nat : PushedOff(l, n)' = PushedOff(l, n)
  BY <1>1 DEF PushedOff
<1>6. Ahead'
  <2> SUFFICES ASSUME NEW l \in Loops
               PROVE  /\ \A j \in todo'[l] : j > cursor'[l] /\ j > dropped[l]
                      /\ now'[l] # 0 => now'[l] > dropped[l]
    BY <1>1 DEF Ahead
  <2>1. CASE l # w
    BY <1>2, <2>1 DEF Cursors, Ahead
  <2>2. CASE l = w
    BY <1>2, <1>3, <1>4, <2>2 DEF Cursors, Ahead
  <2> QED
    BY <2>1, <2>2
<1>7. Gapless'
  <2> SUFFICES ASSUME NEW l \in Loops, NEW j \in todo'[l], NEW n \in 1..j
               PROVE  \/ n \in todo'[l]
                      \/ n <= cursor'[l] \/ n <= dropped[l]
                      \/ PushedOff(l, n)
    BY <1>1, <1>5 DEF Gapless
  <2>1. CASE l # w
    BY <1>2, <2>1 DEF Cursors, Gapless
  <2>2. CASE l = w
    <3>1. \/ n \in todo[l] \/ n <= cursor[l] \/ n <= dropped[l]
          \/ PushedOff(l, n)
      BY <1>2, <2>2 DEF Cursors, Gapless
    <3> QED
      BY <1>2, <1>3, <2>2, <3>1
  <2> QED
    BY <2>1, <2>2
<1>8. NothingPassedOver'
  <2> SUFFICES ASSUME NEW l \in Loops, NEW n \in 1..posted[l],
                      n <= cursor'[l] \/ n <= dropped[l]
               PROVE  \/ tasks[<<l, n>>] > 0
                      \/ <<l, n>> \in Ignored
                      \/ now'[l] = n
                      \/ PushedOff(l, n)
    BY <1>1, <1>5 DEF NothingPassedOver, tables
  <2>1. CASE l # w
    BY <1>2, <2>1 DEF Cursors, NothingPassedOver
  <2>2. CASE l = w /\ n = k
    <3>1. Source(l) = l /\ l \in Workers
      BY LoopTypes
    <3>2. CASE Skip(w, k)
      BY <2>2, <3>1, <3>2 DEF Skip
    <3>3. CASE Select(w, k)
      BY <2>2, <3>1, <3>3 DEF Select, TypeOK
    <3> QED
      BY <3>2, <3>3
  <2>3. CASE l = w /\ n # k
    <3>1. n <= cursor[l] \/ n <= dropped[l] \/ PushedOff(l, n)
      <4>1. n \in 1..k \/ n <= dropped[l]
        BY <1>2, <1>3, <2>3
      <4>2. CASE n \in 1..k
        <5>1. n \notin todo[l]
          BY <1>3, <2>3, <4>2
        <5> QED
          BY <2>3, <4>2, <5>1 DEF Cursors, Gapless
      <4> QED
        BY <4>1, <4>2
    <3>2. now[l] # n
      BY <1>1, <2>3
    <3> QED
      BY <3>1, <3>2 DEF Cursors, NothingPassedOver
  <2> QED
    BY <2>1, <2>2, <2>3
<1> QED
  BY <1>6, <1>7, <1>8 DEF Cursors

\* The work on what is in hand leaves the cursors alone.
LEMMA CursorsWork ==
  ASSUME Cursors, UNCHANGED <<posted, dropped, cursor>>,
         \A l \in Loops : todo'[l] \in {todo[l], {}},
         \A l \in Loops : \/ now'[l] = now[l]
                          \/ now'[l] = 0 /\ tasks'[<<l, now[l]>>] > 0,
         \A l \in Loops : \A k \in 1..posted[l] :
           tasks[<<l, k>>] > 0 => tasks'[<<l, k>>] > 0
  PROVE  Cursors'
<1>1. \A l \in Loops : \A k : PushedOff(l, k)' = PushedOff(l, k)
  BY DEF PushedOff
<1>2. Ahead'
  BY DEF Cursors, Ahead
<1>3. Gapless'
  BY <1>1 DEF Cursors, Gapless
<1>4. NothingPassedOver'
  BY <1>1 DEF Cursors, NothingPassedOver
<1> QED
  BY <1>2, <1>3, <1>4 DEF Cursors

\* A process that starts again asks from the beginning, and what the service
\* has dropped by then was not in hand.
LEMMA CursorsDies ==
  ASSUME TypeOK, Cursors, NEW w \in Workers, Dies(w),
         \A l \in Loops : \A k \in 1..posted[l] :
           tasks[<<l, k>>] > 0 => tasks'[<<l, k>>] > 0
  PROVE  Cursors'
<1>1. CASE w \in Loops
  <2>1. \A l \in Loops : cursor'[l] = 0 /\ todo'[l] = {} /\ now'[l] = 0
    BY <1>1 DEF Dies, Fellows, Workers
  <2>2. UNCHANGED <<posted, dropped>>
    BY DEF Dies
  <2>3. Ahead' /\ Gapless'
    BY <2>1 DEF Ahead, Gapless
  <2>4. NothingPassedOver'
    <3> SUFFICES ASSUME NEW l \in Loops, NEW k \in 1..posted[l],
                        k <= 0 \/ k <= dropped[l]
                 PROVE  \/ tasks'[<<l, k>>] > 0
                        \/ <<l, k>> \in Ignored
                        \/ PushedOff(l, k)'
      BY <2>1, <2>2 DEF NothingPassedOver
    <3>1. k <= dropped[l] /\ now[l] # k
      BY LoopTypes DEF Cursors, Ahead
    <3>2. PushedOff(l, k)' = PushedOff(l, k)
      BY <2>2 DEF PushedOff
    <3> QED
      BY <3>1, <3>2 DEF Cursors, NothingPassedOver
  <2> QED
    BY <2>3, <2>4 DEF Cursors
<1>2. CASE w \notin Loops
  <2>1. \A l \in Loops : /\ cursor'[l] = cursor[l] /\ todo'[l] = todo[l]
                         /\ now'[l] = now[l]
    BY <1>2 DEF Dies, Fellows, Workers
  <2>2. UNCHANGED <<posted, dropped, cursor>>
    BY <2>1 DEF Dies, TypeOK
  <2> QED
    BY <2>1, <2>2, CursorsWork
<1> QED
  BY <1>1, <1>2

\* Every step keeps the cursors honest.
LEMMA CursorsStep ==
  ASSUME TypeOK, TypeOK', OneTaskPerItem, Transactions, Cursors, [Next]_vars
  PROVE  Cursors'
<1>1. CASE UNCHANGED vars
  BY <1>1 DEF vars, Cursors, Ahead, Gapless, NothingPassedOver, PushedOff
<1>2. ASSUME NEW s \in Sources, Post(s)
      PROVE  Cursors'
  BY <1>2, CursorsPost
<1>3. ASSUME NEW w \in Workers, Poll(w) \/ PollFails(w)
      PROVE  Cursors'
  BY <1>3, CursorsAsk DEF Poll, PollFails
<1>4. ASSUME NEW w \in Workers, NEW k \in todo[w], Skip(w, k) \/ Select(w, k)
      PROVE  Cursors'
  BY <1>4, CursorsReach
<1>5. ASSUME NEW w \in Workers, Insert(w) \/ Reply(w) \/ ReplyFails(w)
      PROVE  Cursors'
  <2>1. \A l \in Loops : todo'[l] \in {todo[l], {}}
    BY <1>5 DEF TypeOK, Workers, Insert, Reply, ReplyFails
  <2>2. UNCHANGED <<posted, dropped, cursor, now, tasks>>
    BY <1>5 DEF Insert, Reply, ReplyFails, tables
  <2> QED
    BY <2>1, <2>2, CursorsWork
<1>6. ASSUME NEW w \in Workers, pc[w] = "inserted", Write(w)
      PROVE  /\ \A l \in Loops : \A k \in 1..posted[l] :
                  tasks[<<l, k>>] > 0 => tasks'[<<l, k>>] > 0
             /\ tasks'[Item(w)] > 0
  <2>1. \A i \in Items : tasks'[i] = IF i = Item(w) THEN 1 ELSE tasks[i]
    BY <1>6, WriteOnce
  <2>2. \A l \in Loops : \A k \in 1..posted[l] : <<l, k>> \in Items
    <3> SUFFICES ASSUME NEW l \in Loops, NEW k \in 1..posted[l]
                 PROVE  <<l, k>> \in Items
      OBVIOUS
    <3>1. /\ l \in Sources /\ Posts[l] \in Nat
          /\ posted[l] \in Nat /\ posted[l] <= Posts[l]
      BY IntakeAssumption DEF TypeOK, Sources
    <3>2. k \in Numbers(l)
      BY <3>1 DEF Numbers
    <3> QED
      BY <3>1, <3>2 DEF Items
  <2>3. Item(w) \in Items
    BY <1>6, ItemFacts
  <2> QED
    BY <2>1, <2>2, <2>3
<1>7. ASSUME NEW w \in Workers, Commit(w)
      PROVE  Cursors'
  <2>1. UNCHANGED <<posted, dropped, cursor, todo>>
    BY <1>7 DEF Commit
  <2>2. \A l \in Loops : IF l = w THEN now'[l] = 0 ELSE now'[l] = now[l]
    BY <1>7 DEF Commit, TypeOK, Workers
  <2>3. w \in Loops => Item(w) = <<w, now[w]>>
    BY SourceFacts DEF Item
  <2> QED
    BY <1>6, <1>7, <2>1, <2>2, <2>3, CursorsWork DEF Commit
<1>8. ASSUME NEW w \in Workers, Conflict(w) \/ Fault(w)
      PROVE  Cursors'
  BY <1>8, CursorsDies DEF Conflict, Fault, tables
<1>9. ASSUME NEW w \in Workers, CommitUnanswered(w)
      PROVE  Cursors'
  BY <1>6, <1>9, CursorsDies DEF CommitUnanswered
<1> QED
  BY <1>1, <1>2, <1>3, <1>4, <1>5, <1>7, <1>8, <1>9 DEF Next, Step
-----------------------------------------------------------------------------
\* The invariant holds of every behaviour: each part is kept by every step of
\* the syncs, the loops and the outside.
THEOREM Invariant == Spec => []Inv
<1>1. Init => Inv
  <2> SUFFICES ASSUME Init PROVE Inv
    OBVIOUS
  <2>1. TypeOK
    BY TypeInit
  <2>2. OneTaskPerItem /\ Transactions
    BY DEF Init, OneTaskPerItem, Transactions
  <2>3. \A l \in Loops : todo[l] = {} /\ now[l] = 0 /\ posted[l] = 0
    BY DEF Init, Workers, Sources
  <2>4. Ahead /\ Gapless /\ NothingPassedOver
    BY <2>3 DEF Ahead, Gapless, NothingPassedOver
  <2> QED
    BY <2>1, <2>2, <2>4 DEF Inv
<1>2. Inv /\ [Next]_vars => Inv'
  BY TypeStep, OnceStep, CursorsStep DEF Inv, Cursors
<1> QED
  BY <1>1, <1>2, PTL DEF Spec

\* Types: counters, cursors and pages stay within what the sources hold.
THEOREM TypeCorrect == Spec => []TypeOK
<1>1. Inv => TypeOK
  BY DEF Inv
<1> QED
  BY <1>1, Invariant, PTL

\* However many syncs overlap and whenever they die, the ext_id makes one task
\* of an item, announced by one outbox row.
THEOREM OncePerItem == Spec => []OneTaskPerItem
<1>1. Inv => OneTaskPerItem
  BY DEF Inv
<1> QED
  BY <1>1, Invariant, PTL

\* However the loops fail and start again, no message is left behind a cursor
\* without its task, unless newer ones have pushed it off the page.
THEOREM NoneLeftBehind == Spec => []NothingPassedOver
<1>1. Inv => NothingPassedOver
  BY DEF Inv
<1> QED
  BY <1>1, Invariant, PTL
=============================================================================
