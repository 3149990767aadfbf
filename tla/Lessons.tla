------------------------------ MODULE Lessons ------------------------------
(***************************************************************************)
(* The stores of agent/lessons.py: the lessons table, and the search index *)
(* that VECTOR_BACKEND may put beside it.  Module LessonWriters has the    *)
(* processes that write them.                                              *)
(*                                                                         *)
(* A vector is the embedding model that made it: "old", "new", or "none"   *)
(* on a host without sentence-transformers.  db/migrations/001 changes the *)
(* width of the column from that of the one to that of the other.          *)
(***************************************************************************)
EXTENDS Naturals, Sequences, FiniteSets

CONSTANTS NoTag,
          Indexed,    \* VECTOR_BACKEND is qdrant or chroma
          MaxRows     \* bound: rows of the table

ASSUME LessonsAssumption == Indexed \in BOOLEAN /\ MaxRows \in Nat

Models == {"none", "old", "new"}

VARIABLES
  lessons,   \* the table: rows in the order of their inserts
  width,     \* of its column: "old" or "new"
  bare,      \* ids of rows that no process with a model has embedded
  index,     \* ids in the collection of the index
  indexDim   \* of the collection, "none" before it is created

table == <<lessons, bare>>
mirror == <<index, indexDim>>

Ids == DOMAIN lessons

\* Mutant: a column of any width.
FitsAny(v) == TRUE

\* pgvector refuses a vector of another width than the column's.
Fits(v) == v \in {"none", width}

InsertRow(text, tag, v) ==
  /\ Len(lessons) < MaxRows
  /\ Fits(v)
  /\ lessons' = Append(lessons, [text |-> text, tag |-> tag, vec |-> v])
  /\ bare' = IF v = "none" THEN bare \union {Len(lessons')} ELSE bare

\* _index_upsert does nothing for pgvector or without a vector.
Mirrors(v) == Indexed /\ v # "none"

\* A collection is created on first use, with this process's width.
Upsert(id, v) ==
  IF Mirrors(v)
    THEN /\ indexDim \in {"none", v}
         /\ index' = index \union {id}
         /\ indexDim' = v
    ELSE UNCHANGED mirror

\* search_lessons: the ids a query can return, given its tag and the query's
\* vector; none where the search raises, over vectors of another width.
Hits(tag, v) ==
  IF tag = NoTag /\ Mirrors(v) THEN {i \in index : indexDim = v}
  ELSE {i \in Ids : tag \in {NoTag, lessons[i].tag} /\ Fits(v)}
=============================================================================
