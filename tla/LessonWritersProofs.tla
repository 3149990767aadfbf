------------------------- MODULE LessonWritersProofs -------------------------
(***************************************************************************)
(* The inductive invariant of LessonWriters, for any number of writers,    *)
(* texts, merges and lenses, any page size and any number of rows.         *)
(***************************************************************************)
EXTENDS LessonWriters, FiniteSetTheorems, TLAPS

USE LessonsAssumption, WritersAssumption

Busy == {"recording", "mirroring", "reporting"}

\* What the audit holds at each of its steps.
Audits ==
  /\ apc = "down" => list = {}
  /\ apc \in {"down", "auditing"} => pr = NoText
  /\ apc \in Busy => pr \in Prs
  /\ apc = "mirroring" => pr \in HasTask
  /\ apc \in {"mirroring", "reporting"} =>
       /\ row \in Ids
       /\ lessons[row].text = pr /\ lessons[row].tag = "morning-audit"

\* A row has a vector of the column's width, or is one that no process with a
\* model has embedded.
Current(i) == lessons[i].vec = width \/ (lessons[i].vec = "none" /\ i \in bare)

\* What a re-embedding with the column's model has behind it is current.
Vectors ==
  /\ stale \subseteq Ids
  /\ embedder = "new" => width = "new"
  /\ stale # {} /\ embedder = "none" => ~whole
  /\ stale # {} /\ embedder = width => \A i \in Ids \ stale : Current(i)

\* A text that has not raced is there once, and nobody inserts it once it is.
Looked ==
  \A t \in Texts \ raced : \A i \in Ids : lessons[i].text = t =>
    /\ \A j \in Ids : lessons[j].text = t => j = i
    /\ \A w \in Writers : picked[w] # t

\* An issue has its lesson, and a merge that was asked for is accounted for.
Followed ==
  /\ unheard = {}
  /\ \A p \in issues :
       \E i \in Ids : lessons[i].text = p /\ lessons[i].tag = "morning-audit"
  /\ \A p \in Prs : merged[p] \in {"asked", "past"} =>
       p \in issues \union waved \union overruled \union missed \/ InHand(p)

Inv == /\ TypeOK /\ Audits /\ StoresAgree /\ Vectors /\ NoneLeftOut
       /\ Looked /\ Followed
-----------------------------------------------------------------------------
\* The table keeps its rows, their texts and their tags.
Keeps ==
  /\ Ids \subseteq Ids'
  /\ \A i \in Ids : /\ lessons'[i].text = lessons[i].text
                    /\ lessons'[i].tag = lessons[i].tag

\* One row more, at the end.
LEMMA InsertFacts ==
  ASSUME TypeOK, NEW text \in Texts \union Prs,
         NEW tag \in Kinds \union {NoTag, "morning-audit"}, NEW v \in Models,
         InsertRow(text, tag, v)
  PROVE  /\ lessons' \in Seq(Lesson)
         /\ Len(lessons') \in Nat /\ Len(lessons') \notin Ids
         /\ Ids' = Ids \union {Len(lessons')}
         /\ \A i \in Ids : lessons'[i] = lessons[i]
         /\ lessons'[Len(lessons')] = [text |-> text, tag |-> tag, vec |-> v]
         /\ v \in {"none", width}
         /\ bare' = IF v = "none" THEN bare \union {Len(lessons')} ELSE bare
<1> DEFINE new == [text |-> text, tag |-> tag, vec |-> v]
<1>1. lessons \in Seq(Lesson) /\ new \in Lesson
  BY DEF TypeOK, Lesson
<1>2. lessons' = Append(lessons, new) /\ v \in {"none", width}
      /\ bare' = IF v = "none" THEN bare \union {Len(lessons')} ELSE bare
  BY DEF InsertRow, Fits
<1> HIDE DEF new
<1>3. /\ lessons' \in Seq(Lesson)
      /\ Len(lessons') = Len(lessons) + 1 /\ Len(lessons) \in Nat
      /\ DOMAIN lessons = 1..Len(lessons) /\ DOMAIN lessons' = 1..Len(lessons')
      /\ \A i \in 1..Len(lessons) : lessons'[i] = lessons[i]
      /\ lessons'[Len(lessons) + 1] = new
  BY <1>1, <1>2
<1> QED
  BY <1>2, <1>3 DEF Ids, new

\* The tag of a text.
LEMMA TagFacts == \A t \in Texts : TagOf(t) \in Kinds \union {NoTag}
BY DEF TagOf, Texts

\* New vectors for all the rows, or for one.
LEMMA MigrateFacts ==
  ASSUME TypeOK, Migrate
  PROVE  /\ lessons' \in Seq(Lesson)
         /\ Ids' = Ids /\ Keeps
<1> DEFINE n == Len(lessons)
           Blank(i) == [lessons[i] EXCEPT !.vec = "none"]
<1>1. n \in Nat /\ Ids = 1..n /\ \A i \in 1..n : lessons[i] \in Lesson
  BY DEF TypeOK, Ids
<1>2. lessons' = [i \in 1..n |-> Blank(i)]
  BY <1>1 DEF Migrate
<1>3. \A i \in 1..n : /\ Blank(i) \in Lesson
                      /\ Blank(i).text = lessons[i].text
                      /\ Blank(i).tag = lessons[i].tag
  BY <1>1 DEF Lesson, Models
<1> HIDE DEF n, Blank
<1>4. lessons' \in Seq(Lesson) /\ DOMAIN lessons' = 1..n
  BY <1>1, <1>2, <1>3
<1> QED
  BY <1>1, <1>2, <1>3, <1>4 DEF Ids, Keeps

LEMMA UpdateFacts ==
  ASSUME TypeOK, NEW i \in Ids, Update(i)
  PROVE  /\ lessons' \in Seq(Lesson)
         /\ Ids' = Ids /\ Keeps
         /\ lessons'[i].vec = embedder
         /\ \A j \in Ids \ {i} : lessons'[j] = lessons[j]
<1> DEFINE new == [lessons[i] EXCEPT !.vec = embedder]
<1>1. /\ Ids = 1..Len(lessons) /\ Len(lessons) \in Nat
      /\ lessons[i] \in Lesson /\ lessons \in Seq(Lesson)
  BY DEF TypeOK, Ids
<1>2. lessons' = [lessons EXCEPT ![i] = new]
  BY DEF Update
<1>3. new \in Lesson /\ new.text = lessons[i].text /\ new.tag = lessons[i].tag
      /\ new.vec = embedder
  BY <1>1 DEF Lesson, TypeOK
<1> HIDE DEF new
<1>4. lessons' \in Seq(Lesson) /\ DOMAIN lessons' = 1..Len(lessons)
  BY <1>1, <1>2, <1>3
<1> QED
  BY <1>1, <1>2, <1>3, <1>4 DEF Ids, Keeps

\* What a writer inserts is a text, and the audit a merge.
LEMMA InsertCase ==
  ASSUME TypeOK, NEW w \in Writers, Insert(w)
  PROVE  /\ picked[w] \in Texts
         /\ \E v \in Models : InsertRow(picked[w], TagOf(picked[w]), v)
BY DEF TypeOK, Insert

LEMMA RecordCase ==
  ASSUME TypeOK, Audits, Record
  PROVE  /\ pr \in Prs /\ vec' \in Models
         /\ InsertRow(pr, "morning-audit", vec')
BY DEF TypeOK, Audits, Busy, Record, Models
-----------------------------------------------------------------------------
LEMMA Initially == Init => Inv
<1> SUFFICES ASSUME Init PROVE Inv
  OBVIOUS
<1>0. lessons = <<>> /\ Ids = {} /\ lessons \in Seq(Lesson)
  BY DEF Init, Ids
<1>1. TypeOK /\ Ids = {}
  BY <1>0 DEF Init, TypeOK, Models
<1>2. Audits /\ Vectors /\ Looked /\ Followed
  BY <1>1 DEF Init, Audits, Busy, Vectors, Looked, Followed
<1>3. StoresAgree /\ NoneLeftOut
  BY <1>1 DEF Init, StoresAgree, NoneLeftOut
<1> QED
  BY <1>1, <1>2, <1>3 DEF Inv

LEMMA StepTyped == TypeOK /\ Audits /\ [Next]_vars => TypeOK'
<1> SUFFICES ASSUME TypeOK, Audits, [Next]_vars PROVE TypeOK'
  OBVIOUS
<1> USE DEF table, mirror, runVars, embedVars, auditVars
<1>1. ASSUME NEW w \in Writers, NEW k \in Kinds, Run(w, k) PROVE TypeOK'
  <2>1. TextsOf[k] \subseteq Texts
    BY DEF Texts
  <2> QED
    BY <1>1, <2>1 DEF Run, TypeOK
<1>2. ASSUME NEW w \in Writers, NEW t \in Texts, Pick(w, t) PROVE TypeOK'
  BY <1>2 DEF Pick, TypeOK
<1>3. ASSUME NEW w \in Writers, Insert(w) PROVE TypeOK'
  <2>1. lessons' \in Seq(Lesson) /\ bare' \subseteq Nat
    <3>1. PICK v \in Models : InsertRow(picked[w], TagOf(picked[w]), v)
      BY <1>3, InsertCase
    <3>2. picked[w] \in Texts /\ TagOf(picked[w]) \in Kinds \union {NoTag}
      BY <1>3, InsertCase, TagFacts
    <3>3. /\ lessons' \in Seq(Lesson) /\ Len(lessons') \in Nat
          /\ bare' \in {bare, bare \union {Len(lessons')}}
      BY <3>1, <3>2, InsertFacts
    <3> QED
      BY <3>3 DEF TypeOK
  <2>2. raced' \subseteq Texts /\ picked' \in [Writers -> Texts \union {NoText}]
    BY <1>3, InsertCase DEF Insert, TypeOK
  <2> QED
    BY <1>3, <2>1, <2>2 DEF Insert, TypeOK
<1>4. ASSUME NEW w \in Writers, EndRun(w) PROVE TypeOK'
  BY <1>4 DEF EndRun, TypeOK
<1>5. CASE Migrate
  BY <1>5, MigrateFacts DEF Migrate, TypeOK
<1>6. CASE Reembed
  BY <1>6 DEF Reembed, TypeOK, Ids
<1>7. ASSUME NEW i \in Ids, Update(i) PROVE TypeOK'
  BY <1>7, UpdateFacts, ZenonT(30) DEF Update, TypeOK, Models
<1>8. CASE EndReembed
  BY <1>8 DEF EndReembed, TypeOK, Models
<1>9. CASE Start
  <2>1. Wanted \subseteq Prs /\ \A page \in Pages : page \subseteq Prs
    BY DEF Wanted, Pages
  <2>2. /\ list' \subseteq Prs /\ missed' \subseteq Prs
        /\ merged' \in [Prs -> {"open", "recent", "asked", "past", "slipped"}]
    BY <1>9, <2>1 DEF Start, TypeOK
  <2> QED
    BY <1>9, <2>2 DEF Start, TypeOK
<1>10. ASSUME NEW p \in Prs, Review(p) PROVE TypeOK'
  BY <1>10 DEF Review, TypeOK
<1>11. CASE Record
  <2>1. lessons' \in Seq(Lesson) /\ bare' \subseteq Nat /\ Len(lessons') \in Nat
    BY <1>11, RecordCase, InsertFacts, ZenonT(30) DEF TypeOK
  <2> QED
    BY <1>11, RecordCase, <2>1 DEF Record, TypeOK
<1>12. CASE Mirror
  BY <1>12 DEF Mirror, Upsert, TypeOK
<1>13. CASE Report
  BY <1>13 DEF Report, TypeOK, Audits, Busy, Models
<1>14. CASE Finish
  BY <1>14 DEF Finish, TypeOK
<1>15. CASE Die
  BY <1>15 DEF Die, TypeOK, Models
<1>16. ASSUME NEW p \in Prs, Merge(p) \/ Age(p) PROVE TypeOK'
  BY <1>16 DEF Merge, Age, Becomes, TypeOK
<1>17. CASE UNCHANGED vars
  BY <1>17 DEF vars, TypeOK
<1> QED
  BY <1>1, <1>2, <1>3, <1>4, <1>5, <1>6, <1>7, <1>8, <1>9, <1>10, <1>11,
     <1>12, <1>13, <1>14, <1>15, <1>16, <1>17
     DEF Next, Write, Maintain, Audit, Seed, IndexRepo, MirrorAccepted, Kinds

\* No step takes a row away, or changes its text or its tag.
LEMMA StepKeeps == TypeOK /\ Audits /\ [Next]_vars => Keeps
<1> SUFFICES ASSUME TypeOK, Audits, [Next]_vars PROVE Keeps
  OBVIOUS
<1> USE DEF table
<1>1. CASE UNCHANGED lessons
  BY <1>1 DEF Keeps, Ids
<1>2. ASSUME NEW w \in Writers, Insert(w) PROVE Keeps
  BY <1>2, InsertCase, InsertFacts, TagFacts DEF Keeps
<1>3. CASE Migrate
  BY <1>3, MigrateFacts
<1>4. ASSUME NEW i \in Ids, Update(i) PROVE Keeps
  BY <1>4, UpdateFacts
<1>5. CASE Record
  BY <1>5, RecordCase, InsertFacts DEF Keeps
<1> QED
  BY <1>1, <1>2, <1>3, <1>4, <1>5
     DEF Next, vars, Write, Maintain, Audit, Seed, IndexRepo, MirrorAccepted,
         Run, Pick, EndRun, Reembed, EndReembed, Start, Review, Mirror, Report,
         Finish, Die, Merge, Age, Becomes

LEMMA StepAudits == TypeOK /\ Audits /\ [Next]_vars => Audits'
<1> SUFFICES ASSUME TypeOK, Audits, [Next]_vars PROVE Audits'
  OBVIOUS
<1>k. Keeps
  BY StepKeeps
<1>1. CASE UNCHANGED <<apc, list, pr, row>>
  BY <1>1, <1>k DEF Audits, Keeps
<1>2. CASE Start
  BY <1>2 DEF Start, Audits, Busy
<1>3. ASSUME NEW p \in Prs, Review(p) PROVE Audits'
  BY <1>3, <1>k DEF Review, Audits, Busy
<1>4. CASE Record
  <2>1. row' \in Ids' /\ lessons'[row'].text = pr
        /\ lessons'[row'].tag = "morning-audit"
    <3>1. row' = Len(lessons')
      BY <1>4 DEF Record
    <3>2. /\ Ids' = Ids \union {Len(lessons')}
          /\ lessons'[Len(lessons')]
               = [text |-> pr, tag |-> "morning-audit", vec |-> vec']
      BY <1>4, RecordCase, InsertFacts
    <3> QED
      BY <3>1, <3>2
  <2> QED
    BY <1>4, RecordCase, <2>1 DEF Record, Audits, Busy
<1>5. CASE Mirror
  BY <1>5, <1>k DEF Mirror, Audits, Busy, Keeps
<1>6. CASE Report \/ Finish \/ Die
  BY <1>6 DEF Report, Finish, Die, Audits, Busy
<1> QED
  BY <1>1, <1>2, <1>3, <1>4, <1>5, <1>6
     DEF Next, vars, Write, Maintain, Audit, Seed, IndexRepo, MirrorAccepted,
         Run, Pick, EndRun, Insert, Migrate, Reembed, Update, EndReembed,
         Merge, Age, Becomes, auditVars
-----------------------------------------------------------------------------
LEMMA StepStores == Inv /\ [Next]_vars => StoresAgree'
<1> SUFFICES ASSUME Inv, [Next]_vars PROVE StoresAgree'
  OBVIOUS
<1>i. TypeOK /\ Audits /\ StoresAgree
  BY DEF Inv
<1>k. Keeps
  BY <1>i, StepKeeps
<1> USE DEF table, mirror, auditVars, runVars, embedVars
<1>1. CASE UNCHANGED <<lessons, index, events, unmirrored, apc, row>>
  BY <1>i, <1>1 DEF StoresAgree, OfTask, Ids
<1>2. ASSUME NEW w \in Writers, Insert(w) PROVE StoresAgree'
  <2>1. PICK v \in Models : InsertRow(picked[w], TagOf(picked[w]), v)
    BY <1>i, <1>2, InsertCase
  <2>2. picked[w] \in Texts /\ TagOf(picked[w]) \in Kinds \union {NoTag}
    BY <1>i, <1>2, InsertCase, TagFacts
  <2>3. /\ Ids' = Ids \union {Len(lessons')}
        /\ \A i \in Ids : lessons'[i] = lessons[i]
        /\ lessons'[Len(lessons')].text = picked[w]
    <3>1. /\ Ids' = Ids \union {Len(lessons')}
          /\ \A i \in Ids : lessons'[i] = lessons[i]
          /\ lessons'[Len(lessons')]
               = [text |-> picked[w], tag |-> TagOf(picked[w]), vec |-> v]
      BY <1>i, <2>1, <2>2, InsertFacts
    <3> QED
      BY <3>1
  <2>4. UNCHANGED <<index, events, unmirrored, apc, row>>
    BY <1>2 DEF Insert
  <2> QED
    BY <1>i, <2>2, <2>3, <2>4 DEF StoresAgree, OfTask
<1>3. CASE Migrate \/ \E i \in Ids : Update(i)
  <2>1. Ids' = Ids /\ \A i \in Ids : OfTask(i)' <=> OfTask(i)
    BY <1>i, <1>3, <1>k, MigrateFacts, UpdateFacts DEF Keeps, OfTask
  <2>2. UNCHANGED <<index, events, unmirrored, apc, row>>
    BY <1>3 DEF Migrate, Update
  <2> QED
    BY <1>i, <2>1, <2>2 DEF StoresAgree
<1>4. CASE Start \/ (\E p \in Prs : Review(p)) \/ Report \/ Finish
  <2>1. UNCHANGED <<lessons, index, events, unmirrored>> /\ apc # "mirroring"
    BY <1>4 DEF Start, Review, Report, Finish
  <2> QED
    BY <1>i, <2>1 DEF StoresAgree, OfTask, Ids
<1>5. CASE Record
  <2> DEFINE id == Len(lessons')
  <2>1. /\ Ids' = Ids \union {id} /\ id \notin Ids
        /\ \A i \in Ids : lessons'[i] = lessons[i]
        /\ lessons'[id].text = pr
    <3>1. /\ Ids' = Ids \union {id} /\ id \notin Ids
          /\ \A i \in Ids : lessons'[i] = lessons[i]
          /\ lessons'[id] = [text |-> pr, tag |-> "morning-audit", vec |-> vec']
      BY <1>i, <1>5, RecordCase, InsertFacts
    <3> QED
      BY <3>1
  <2>2. /\ row' = id /\ apc = "recording"
        /\ events' = IF pr \in HasTask THEN events \union {id} ELSE events
        /\ pr \in HasTask => apc' = "mirroring"
        /\ UNCHANGED <<index, unmirrored>>
    BY <1>5 DEF Record
  <2> HIDE DEF id
  <2> QED
    BY <1>i, <2>1, <2>2 DEF StoresAgree, OfTask
<1>6. CASE Mirror
  <2>1. /\ UNCHANGED <<lessons, events>> /\ row \in Ids
        /\ Indexed => row \in index' \/ row \in unmirrored'
        /\ index \subseteq index' /\ index' \subseteq index \union {row}
        /\ unmirrored \subseteq unmirrored'
    BY <1>i, <1>6 DEF Mirror, Upsert, Mirrors, Audits
  <2> QED
    BY <1>i, <2>1 DEF StoresAgree, OfTask, Ids
<1>7. CASE Die
  BY <1>i, <1>7 DEF Die, StoresAgree, OfTask, Ids
<1> QED
  BY <1>1, <1>2, <1>3, <1>4, <1>5, <1>6, <1>7
     DEF Next, vars, Write, Maintain, Audit, Seed, IndexRepo, MirrorAccepted,
         Run, Pick, EndRun, Reembed, EndReembed, Merge, Age, Becomes

\* A row more leaves the re-embedding and its promise as they were.
LEMMA InsertVectors ==
  ASSUME TypeOK, Vectors, NoneLeftOut,
         NEW text \in Texts \union Prs,
         NEW tag \in Kinds \union {NoTag, "morning-audit"}, NEW v \in Models,
         InsertRow(text, tag, v), UNCHANGED <<width, embedVars>>
  PROVE  Vectors' /\ NoneLeftOut'
<1>1. PICK id :
        /\ Ids' = Ids \union {id} /\ id \notin Ids
        /\ \A i \in Ids : lessons'[i] = lessons[i]
        /\ lessons'[id] = [text |-> text, tag |-> tag, vec |-> v]
        /\ v \in {"none", width}
        /\ bare' = IF v = "none" THEN bare \union {id} ELSE bare
  BY InsertFacts
<1>2. UNCHANGED <<width, stale, embedder, whole>>
  BY DEF embedVars
<1>3. lessons'[id].vec = v
  BY <1>1
<1>4. Current(id)' /\ \A i \in Ids : Current(i) => Current(i)'
  BY <1>1, <1>2, <1>3 DEF Current
<1>5. Vectors'
  BY <1>1, <1>2, <1>4 DEF Vectors
<1>6. whole' => \A i \in Ids' : Current(i)'
  BY <1>1, <1>2, <1>4 DEF NoneLeftOut, Current
<1> QED
  BY <1>5, <1>6 DEF NoneLeftOut, Current

LEMMA StepVectors == Inv /\ [Next]_vars => Vectors' /\ NoneLeftOut'
<1> SUFFICES ASSUME Inv, [Next]_vars PROVE Vectors' /\ NoneLeftOut'
  OBVIOUS
<1>i. TypeOK /\ Audits /\ Vectors /\ NoneLeftOut
  BY DEF Inv
<1> USE DEF table, embedVars
<1>1. CASE UNCHANGED <<table, width, embedVars>>
  BY <1>i, <1>1 DEF Vectors, NoneLeftOut, Current, Ids
<1>2. ASSUME NEW w \in Writers, Insert(w) PROVE Vectors' /\ NoneLeftOut'
  BY <1>i, <1>2, InsertCase, TagFacts, InsertVectors DEF Insert
<1>3. CASE Migrate
  <2>1. Ids' = Ids /\ width' = "new" /\ width = "old" /\ ~whole'
        /\ UNCHANGED <<stale, embedder>>
    BY <1>i, <1>3, MigrateFacts DEF Migrate
  <2> QED
    BY <1>i, <2>1 DEF Vectors, NoneLeftOut
<1>4. CASE Reembed
  <2>1. UNCHANGED <<lessons, bare, width>> /\ stale' = Ids
        /\ embedder' \in {"none", width} /\ whole' = (whole /\ embedder' # "none")
    BY <1>4 DEF Reembed, Fits
  <2> QED
    BY <1>i, <2>1 DEF Vectors, NoneLeftOut, Current, Ids, TypeOK
<1>5. ASSUME NEW i \in Ids, Update(i) PROVE Vectors' /\ NoneLeftOut'
  <2>1. /\ Ids' = Ids /\ lessons'[i].vec = embedder
        /\ \A j \in Ids \ {i} : lessons'[j] = lessons[j]
    BY <1>i, <1>5, UpdateFacts
  <2>2. /\ i \in stale /\ stale' = stale \ {i} /\ width' = width
        /\ embedder \in {"none", width} /\ width # "none"
        /\ bare' = IF embedder = "none" THEN bare ELSE bare \ {i}
        /\ embedder' = IF stale = {i} THEN "none" ELSE embedder
        /\ whole' = (whole \/ (stale = {i} /\ embedder # "none"))
    BY <1>i, <1>5 DEF Update, Fits, TypeOK
  <2>3. \A j \in Ids \ {i} : Current(j) => Current(j)'
    BY <2>1, <2>2 DEF Current
  <2>4. embedder = width => Current(i)'
    BY <2>1, <2>2 DEF Current
  <2>5. Vectors'
    BY <1>i, <2>1, <2>2, <2>3, <2>4 DEF Vectors
  <2>6. whole' => \A j \in Ids : Current(j)'
    BY <1>i, <2>2, <2>3, <2>4 DEF Vectors, NoneLeftOut, Current
  <2> QED
    BY <2>1, <2>5, <2>6 DEF NoneLeftOut, Current
<1>6. CASE EndReembed
  BY <1>i, <1>6 DEF EndReembed, Vectors, NoneLeftOut, Current, Ids
<1>7. CASE Record
  BY <1>i, <1>7, RecordCase, InsertVectors DEF Record
<1> QED
  BY <1>1, <1>2, <1>3, <1>4, <1>5, <1>6, <1>7
     DEF Next, vars, Write, Maintain, Audit, Seed, IndexRepo, MirrorAccepted,
         Run, Pick, EndRun, Start, Review, Mirror, Report, Finish, Die, Merge,
         Age, Becomes

LEMMA StepLooked == Inv /\ [Next]_vars => Looked'
<1> SUFFICES ASSUME Inv, [Next]_vars PROVE Looked'
  OBVIOUS
<1>i. TypeOK /\ Audits /\ Looked
  BY DEF Inv
<1> USE DEF table, runVars
<1>1. CASE UNCHANGED <<lessons, picked, raced>>
  BY <1>i, <1>1 DEF Looked, Ids
<1>2. ASSUME NEW w \in Writers, NEW t \in Texts, Pick(w, t) PROVE Looked'
  <2>1. /\ UNCHANGED <<lessons, raced>>
        /\ \A u \in Writers \ {w} : picked'[u] = picked[u]
        /\ picked'[w] = NoText \/ (picked'[w] = t /\ Copies(t) = {})
    BY <1>i, <1>2 DEF Pick, TypeOK
  <2> QED
    BY <1>i, <2>1 DEF Looked, Copies, Ids
<1>3. ASSUME NEW w \in Writers, EndRun(w) PROVE Looked'
  <2>1. /\ UNCHANGED <<lessons, raced>>
        /\ \A u \in Writers : picked'[u] \in {NoText, picked[u]}
    BY <1>i, <1>3 DEF EndRun, TypeOK
  <2> QED
    BY <1>i, <2>1 DEF Looked, Ids
<1>4. ASSUME NEW w \in Writers, Insert(w) PROVE Looked'
  <2>1. PICK v \in Models : InsertRow(picked[w], TagOf(picked[w]), v)
    BY <1>i, <1>4, InsertCase
  <2>2. picked[w] \in Texts /\ TagOf(picked[w]) \in Kinds \union {NoTag}
    BY <1>i, <1>4, InsertCase, TagFacts
  <2>3. PICK id :
          /\ Ids' = Ids \union {id} /\ id \notin Ids
          /\ \A i \in Ids : lessons'[i] = lessons[i]
          /\ lessons'[id] = [text |-> picked[w], tag |-> TagOf(picked[w]), vec |-> v]
    BY <1>i, <2>1, <2>2, InsertFacts
  <2>4. lessons'[id].text = picked[w]
    BY <2>3
  <2>5. /\ picked'[w] = NoText
        /\ \A u \in Writers \ {w} : picked'[u] = picked[u]
        /\ raced \subseteq raced'
        /\ picked[w] \notin raced' => \A u \in Writers \ {w} : picked[u] # picked[w]
    BY <1>i, <1>4 DEF Insert, TypeOK
  <2>6. SUFFICES ASSUME NEW t \in Texts \ raced', NEW i \in Ids',
                        lessons'[i].text = t
                 PROVE  /\ \A j \in Ids' : lessons'[j].text = t => j = i
                        /\ \A u \in Writers : picked'[u] # t
    BY DEF Looked
  <2>7. CASE t = picked[w]
    <3>1. \A j \in Ids : lessons[j].text # t
      BY <1>i, <2>5, <2>7 DEF Looked
    <3> QED
      BY <2>3, <2>5, <2>6, <2>7, <3>1
  <2>8. CASE t # picked[w]
    <3>1. i \in Ids /\ lessons[i].text = t /\ t \notin raced
      BY <2>3, <2>4, <2>5, <2>6, <2>8
    <3>2. /\ \A j \in Ids : lessons[j].text = t => j = i
          /\ \A u \in Writers : picked[u] # t
      BY <1>i, <3>1 DEF Looked
    <3> QED
      BY <2>3, <2>4, <2>5, <2>8, <3>2
  <2> QED
    BY <2>7, <2>8
<1>5. CASE Migrate \/ \E i \in Ids : Update(i)
  <2>1. Ids' = Ids /\ \A i \in Ids : lessons'[i].text = lessons[i].text
    BY <1>i, <1>5, MigrateFacts, UpdateFacts DEF Keeps
  <2>2. UNCHANGED <<picked, raced>>
    BY <1>5 DEF Migrate, Update
  <2> QED
    BY <1>i, <2>1, <2>2 DEF Looked
<1>6. CASE Record
  <2>1. PICK id :
          /\ Ids' = Ids \union {id}
          /\ \A i \in Ids : lessons'[i] = lessons[i]
          /\ lessons'[id] = [text |-> pr, tag |-> "morning-audit", vec |-> vec']
    BY <1>i, <1>6, RecordCase, InsertFacts
  <2>2. lessons'[id].text \notin Texts
    BY <1>i, <1>6, <2>1, RecordCase
  <2>3. UNCHANGED <<picked, raced>>
    BY <1>6 DEF Record
  <2> QED
    BY <1>i, <2>1, <2>2, <2>3 DEF Looked
<1> QED
  BY <1>1, <1>2, <1>3, <1>4, <1>5, <1>6
     DEF Next, vars, Write, Maintain, Audit, Seed, IndexRepo, MirrorAccepted,
         Run, Reembed, EndReembed, Start, Review, Mirror, Report, Finish, Die,
         Merge, Age, Becomes

\* A panel that passes a diff has heard from each of its lenses.
LEMMA PanelHears ==
  ASSUME NEW reply \in [Lenses -> Replies], Verify(reply) = "PASS", NEW l \in Lenses
  PROVE  reply[l] \notin Voiceless
<1>1. ReviewWithLens(reply[l]) = "PASS"
  BY DEF Verify, Aggregate
<1> QED
  BY <1>1 DEF ReviewWithLens, ParseVerdict, Voiceless

LEMMA StepFollowed == Inv /\ [Next]_vars => Followed'
<1> SUFFICES ASSUME Inv, [Next]_vars PROVE Followed'
  OBVIOUS
<1>i. TypeOK /\ Audits /\ Followed
  BY DEF Inv
<1>k. Keeps
  BY <1>i, StepKeeps
<1> USE DEF auditVars
<1>1. ASSUME UNCHANGED issues
      PROVE  \A p \in issues' : \E i \in Ids' : lessons'[i].text = p
                                  /\ lessons'[i].tag = "morning-audit"
  BY <1>i, <1>k, <1>1 DEF Followed, Keeps
<1>2. CASE UNCHANGED <<merged, missed, list, pr, issues, waved, unheard, overruled>>
  BY <1>i, <1>1, <1>2 DEF Followed, InHand
<1>3. CASE Start
  <2>1. PICK page \in Pages :
          /\ list' = page /\ missed' = (missed \union Wanted) \ page
          /\ merged' = [p \in Prs |-> IF p \in Wanted THEN "asked" ELSE merged[p]]
          /\ UNCHANGED <<issues, waved, unheard, overruled, pr>>
          /\ list = {} /\ pr = NoText
    BY <1>i, <1>3 DEF Start, Audits
  <2>2. \A p \in Prs \ Wanted : merged[p] # "asked"
    BY DEF Wanted
  <2> QED
    BY <1>i, <1>1, <2>1, <2>2 DEF Followed, InHand
<1>4. ASSUME NEW p \in Prs, Review(p) PROVE Followed'
  <2>1. PICK reply \in [Lenses -> Replies] :
          IF Verify(reply) = "PASS"
            THEN /\ IF \E l \in Lenses : reply[l] \in Blocking
                      THEN overruled' = overruled \union {p} /\ UNCHANGED waved
                      ELSE waved' = waved \union {p} /\ UNCHANGED overruled
                 /\ unheard' = IF \E l \in Lenses : reply[l] \in Voiceless
                                 THEN unheard \union {p} ELSE unheard
                 /\ UNCHANGED <<apc, pr>>
            ELSE /\ apc' = "recording" /\ pr' = p
                 /\ UNCHANGED <<waved, unheard, overruled>>
    BY <1>4 DEF Review
  <2>2. unheard' = unheard
    BY <2>1, PanelHears
  <2>3. /\ UNCHANGED <<merged, missed, issues>> /\ list' = list \ {p}
        /\ pr = NoText
    BY <1>i, <1>4 DEF Review, Audits
  <2>4. /\ waved \subseteq waved' /\ overruled \subseteq overruled'
        /\ p \in waved' \union overruled' \/ pr' = p
    BY <2>1
  <2> QED
    BY <1>i, <1>1, <2>2, <2>3, <2>4 DEF Followed, InHand
<1>5. CASE Report
  <2>1. /\ issues' = issues \union {pr} /\ pr' = NoText
        /\ UNCHANGED <<lessons, merged, missed, list, waved, unheard, overruled>>
        /\ row \in Ids /\ lessons[row].text = pr
        /\ lessons[row].tag = "morning-audit"
    BY <1>i, <1>5 DEF Report, Audits, table
  <2> QED
    BY <1>i, <2>1 DEF Followed, InHand, Ids
<1>6. CASE Die
  <2>1. /\ missed' = missed \union list \union ({pr} \ {NoText})
        /\ UNCHANGED <<merged, issues, waved, unheard, overruled>>
    BY <1>6 DEF Die
  <2> QED
    BY <1>i, <1>1, <2>1 DEF Followed, InHand
<1>7. ASSUME NEW p \in Prs, Merge(p) \/ Age(p) PROVE Followed'
  <2>1. /\ UNCHANGED <<missed, list, pr, issues, waved, unheard, overruled>>
        /\ \A q \in Prs : merged'[q] \in {"asked", "past"}
                            => merged[q] \in {"asked", "past"}
    BY <1>i, <1>7 DEF Merge, Age, Becomes, TypeOK
  <2> QED
    BY <1>i, <1>1, <2>1 DEF Followed, InHand
<1> QED
  BY <1>2, <1>3, <1>4, <1>5, <1>6, <1>7
     DEF Next, vars, Write, Maintain, Audit, Seed, IndexRepo, MirrorAccepted,
         Run, Pick, EndRun, Insert, Migrate, Reembed, Update, EndReembed,
         Record, Mirror, Finish
-----------------------------------------------------------------------------
LEMMA Invariance == Spec => []Inv
<1>1. Init => Inv
  BY Initially
<1>2. Inv /\ [Next]_vars => Inv'
  BY StepTyped, StepAudits, StepStores, StepVectors, StepLooked, StepFollowed
     DEF Inv
<1> QED
  BY <1>1, <1>2, PTL DEF Spec

\* The table, the audit and the writers have their types.
THEOREM TypeCorrect == Spec => []TypeOK
BY Invariance, PTL DEF Inv

\* Table, outbox and index agree (lessons.py:136-153).
THEOREM LessonsStored == Spec => []StoresAgree
BY Invariance, PTL DEF Inv

\* A re-embedding that ended has left no row out (seed_knowledge.py:126-134).
THEOREM AllReembedded == Spec => []NoneLeftOut
BY Invariance, PTL DEF Inv

\* Only a race stores a text twice (seed_knowledge.py:65-76).
THEOREM SeededOnceUnlessRaced == Spec => []SeededOnce
<1>1. Inv => SeededOnce
  <2> SUFFICES ASSUME Inv, NEW t \in Texts \ raced PROVE ~(Cardinality(Copies(t)) > 1)
    BY DEF SeededOnce
  <2>1. \A i, j \in Copies(t) : i = j
    BY DEF Inv, Looked, Copies
  <2>2. CASE Copies(t) = {}
    BY <2>2, FS_EmptySet
  <2>3. CASE Copies(t) # {}
    <3>1. PICK i : Copies(t) = {i}
      BY <2>1, <2>3
    <3> QED
      BY <3>1, FS_Singleton, SMTT(30)
  <2> QED
    BY <2>2, <2>3
<1> QED
  BY <1>1, Invariance, PTL

\* A merge that a run has asked for is flagged, or passed by the panel, unless its
\* run died, its page was full, or a BLOCK that names "pass" was overruled; what is
\* flagged, a tagged search can find (morning_audit.py:42-141).
THEOREM EachMergeAudited == Spec => []NoMergeSlips
<1>1. Inv => NoMergeSlips
  <2> SUFFICES ASSUME Inv PROVE NoMergeSlips
    OBVIOUS
  <2>1. unheard = {} /\ \A p \in Prs : merged[p] = "past" =>
          p \in issues \union waved \union overruled \union missed \/ InHand(p)
    BY DEF Inv, Followed
  <2>2. ASSUME NEW p \in issues, NEW v \in {"none", width}
        PROVE  \E i \in Hits("morning-audit", v) : lessons[i].text = p
    <3>1. PICK i \in Ids : lessons[i].text = p /\ lessons[i].tag = "morning-audit"
      BY DEF Inv, Followed
    <3>2. i \in Hits("morning-audit", v)
      BY <3>1, <2>2, LessonsAssumption DEF Hits, Fits
    <3> QED
      BY <3>1, <3>2
  <2> QED
    BY <2>1, <2>2 DEF NoMergeSlips
<1> QED
  BY <1>1, Invariance, PTL
=============================================================================
