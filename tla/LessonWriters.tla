--------------------------- MODULE LessonWriters ---------------------------
(***************************************************************************)
(* Who writes lessons: scripts/seed_knowledge.py and                       *)
(* morning_headroom_learn.py insert what they do not find, --reembed       *)
(* follows a change of the embedding model, and scripts/morning_audit.py   *)
(* records what the verifier says of yesterday's merges, one after the     *)
(* other.  What ends a run of the audit ends it for the rest of its list;  *)
(* scripts/morning_routine.sh takes no notice, and starts the next one the *)
(* morning after.                                                          *)
(***************************************************************************)
EXTENDS Lessons, Verifier

CONSTANTS Writers,    \* processes that seed, index or mirror
          TextsOf,    \* the texts that a run of each kind finds in its source
          Prs,        \* the merges, and the audit's texts about them
          HasTask,    \* PRs whose branch a row of tasks names
          PageSize,   \* "limit" of the listing
          NoText,
          MaxRuns     \* bound: runs of the audit

Kinds == {"knowledge", "codex-index", "headroom-learn"}
Texts == UNION {TextsOf[k] : k \in Kinds}

ASSUME WritersAssumption ==
  /\ \A j, k \in Kinds : j # k => TextsOf[j] \intersect TextsOf[k] = {}
  /\ HasTask \subseteq Prs /\ IsFiniteSet(Prs)
  /\ Prs \intersect Texts = {} /\ NoText \notin Prs \union Texts
  /\ NoTag \notin Kinds \union {"morning-audit"}
  /\ PageSize \in Nat /\ MaxRuns \in Nat

\* Every kind of run begins its texts with a mark of its own.
TagOf(text) == IF text \in TextsOf["knowledge"] THEN NoTag
               ELSE CHOOSE k \in Kinds : text \in TextsOf[k]

VARIABLES
  todo, picked,  \* per writer: the texts left, and the one it did not find
  raced,         \* texts inserted while another writer had picked them
  stale,         \* ids that the re-embedding has still to update
  embedder,      \* its model
  whole,         \* has one with a model ended, and none without begun?
  merged,        \* per PR: "open", "recent" (merged within the last day),
                 \* "asked" for by a run that day, "past", or "slipped" (past,
                 \* and never asked for)
  missed,        \* PRs that the last run to ask for them left out or died on
  apc,           \* where the audit is
  list, pr,      \* its list, and the PR it has flagged
  row, vec,      \* the id and the vector of the lesson it writes
  events,        \* ids of rows with a LESSON event in the outbox
  unmirrored,    \* lessons whose mirror did not take place
  issues,        \* PRs with a needs-human issue
  waved,         \* PRs found clean by a panel that did not say BLOCK
  overruled,     \* PRs found clean though a lens said BLOCK
  unheard,       \* PRs found clean though a lens failed or gave no verdict
  runs

runVars == <<todo, picked, raced>>
embedVars == <<stale, embedder, whole>>
auditVars == <<merged, missed, apc, list, pr, row, vec, events, unmirrored,
               issues, waved, unheard, overruled, runs>>
vars == <<table, mirror, width, runVars, embedVars, auditVars>>

Init ==
  /\ lessons = <<>> /\ bare = {} /\ width = "old"
  /\ index = {} /\ indexDim = "none"
  /\ todo = [w \in Writers |-> {}] /\ picked = [w \in Writers |-> NoText]
  /\ raced = {}
  /\ stale = {} /\ embedder = "none" /\ whole = FALSE
  /\ merged = [p \in Prs |-> "open"] /\ missed = {}
  /\ apc = "down" /\ list = {} /\ pr = NoText /\ row = 0 /\ vec = "none"
  /\ events = {} /\ unmirrored = {} /\ issues = {}
  /\ waved = {} /\ unheard = {} /\ overruled = {} /\ runs = 0

-----------------------------------------------------------------------------
(* Runs that insert what they do not find.  The model of a run shows only  *)
(* in its inserts.                                                         *)

Run(w, kind) ==
  /\ todo[w] = {} /\ picked[w] = NoText
  /\ todo' = [todo EXCEPT ![w] = TextsOf[kind]]
  /\ UNCHANGED <<table, mirror, width, picked, raced, embedVars, auditVars>>

Seed(w) == Run(w, "knowledge")
IndexRepo(w) == Run(w, "codex-index")
MirrorAccepted(w) == Run(w, "headroom-learn")

Copies(text) == {i \in Ids : lessons[i].text = text}

\* Mutant: the row is inserted without a look.
PickUnseen(w, t) ==
  /\ t \in todo[w] /\ picked[w] = NoText
  /\ todo' = [todo EXCEPT ![w] = @ \ {t}]
  /\ picked' = [picked EXCEPT ![w] = t]
  /\ UNCHANGED <<table, mirror, width, raced, embedVars, auditVars>>

\* SELECT 1 FROM lessons WHERE text = $1
Pick(w, t) ==
  /\ t \in todo[w] /\ picked[w] = NoText
  /\ todo' = [todo EXCEPT ![w] = @ \ {t}]
  /\ picked' = [picked EXCEPT ![w] = IF Copies(t) = {} THEN t ELSE NoText]
  /\ UNCHANGED <<table, mirror, width, raced, embedVars, auditVars>>

\* The INSERT, in no transaction with the SELECT, and into the table only.
Insert(w) ==
  /\ picked[w] # NoText
  /\ \E v \in Models : InsertRow(picked[w], TagOf(picked[w]), v)
  /\ picked' = [picked EXCEPT ![w] = NoText]
  /\ raced' = IF \E u \in Writers \ {w} : picked[u] = picked[w]
                THEN raced \union {picked[w]} ELSE raced
  /\ UNCHANGED <<mirror, width, todo, embedVars, auditVars>>

\* A crash, or an INSERT that raises.
EndRun(w) ==
  /\ todo[w] # {} \/ picked[w] # NoText
  /\ todo' = [todo EXCEPT ![w] = {}]
  /\ picked' = [picked EXCEPT ![w] = NoText]
  /\ UNCHANGED <<table, mirror, width, raced, embedVars, auditVars>>

-----------------------------------------------------------------------------
(* The change of the embedding model.                                      *)

\* ALTER COLUMN ... USING NULL: of the table, not of the index.
Migrate ==
  /\ width = "old"
  /\ width' = "new"
  /\ lessons' = [i \in Ids |-> [lessons[i] EXCEPT !.vec = "none"]]
  /\ whole' = FALSE
  /\ UNCHANGED <<bare, mirror, runVars, stale, embedder, auditVars>>

\* reembed: the list of rows is read once.  It is started after the migration
\* that its model needs, as db/migrations/001 says.
Reembed ==
  /\ stale = {} /\ lessons # <<>>
  /\ stale' = Ids
  /\ \E v \in Models : /\ Fits(v)
                       /\ embedder' = v
                       /\ whole' = (whole /\ v # "none")
  /\ UNCHANGED <<table, mirror, width, runVars, auditVars>>

\* One UPDATE: without a model it removes the vector.
Update(i) ==
  /\ i \in stale
  /\ Fits(embedder)
  /\ lessons' = [lessons EXCEPT ![i].vec = embedder]
  /\ bare' = IF embedder = "none" THEN bare ELSE bare \ {i}
  /\ stale' = stale \ {i}
  /\ embedder' = IF stale = {i} THEN "none" ELSE embedder
  /\ whole' = (whole \/ (stale = {i} /\ embedder # "none"))
  /\ UNCHANGED <<mirror, width, runVars, auditVars>>

\* A crash, or an UPDATE that raises.
EndReembed ==
  /\ stale # {}
  /\ stale' = {} /\ embedder' = "none"
  /\ UNCHANGED <<table, mirror, width, runVars, whole, auditVars>>

-----------------------------------------------------------------------------
(* One run of the audit.                                                   *)

Wanted == {p \in Prs : merged[p] \in {"recent", "asked"}}

\* merged_integration_prs: one page of all the closed PRs, the last updated
\* first; the merges that it has no room for are not in the list.
Pages == {page \in SUBSET Wanted : Cardinality(page) <= PageSize}

Start ==
  /\ apc = "down"
  /\ runs < MaxRuns
  /\ runs' = runs + 1
  /\ \E page \in Pages :
       /\ list' = page
       /\ missed' = (missed \union Wanted) \ page
  /\ merged' = [p \in Prs |-> IF p \in Wanted THEN "asked" ELSE merged[p]]
  /\ apc' = "auditing"
  /\ UNCHANGED <<table, mirror, width, runVars, embedVars, pr, row, vec,
                 events, unmirrored, issues, waved, unheard, overruled>>

\* pr_diff, verify and finding_actions.
Review(p) ==
  /\ apc = "auditing" /\ p \in list
  /\ list' = list \ {p}
  /\ \E reply \in [Lenses -> Replies] :
       IF Verify(reply) = "PASS"
         THEN /\ IF \E l \in Lenses : reply[l] \in Blocking
                   THEN overruled' = overruled \union {p} /\ UNCHANGED waved
                   ELSE waved' = waved \union {p} /\ UNCHANGED overruled
              /\ unheard' = IF \E l \in Lenses : reply[l] \in Voiceless
                              THEN unheard \union {p} ELSE unheard
              /\ UNCHANGED <<apc, pr>>
         ELSE /\ apc' = "recording" /\ pr' = p
              /\ UNCHANGED <<waved, unheard, overruled>>
  /\ UNCHANGED <<table, mirror, width, runVars, embedVars, merged, missed, row,
                 vec, events, unmirrored, issues, runs>>

\* Mutant: the lesson's event is written in a transaction of its own.
RecordApart ==
  /\ apc = "recording"
  /\ \E v \in Models : InsertRow(pr, "morning-audit", v) /\ vec' = v
  /\ row' = Len(lessons')
  /\ events' \in {events, events \union {row'}}
  /\ apc' = IF pr \in HasTask THEN "mirroring" ELSE "reporting"
  /\ UNCHANGED <<mirror, width, runVars, embedVars, merged, missed, list, pr,
                 unmirrored, issues, waved, unheard, overruled, runs>>

\* write_lesson's transaction, or the INSERT for a PR without a task.
Record ==
  /\ apc = "recording"
  /\ \E v \in Models : InsertRow(pr, "morning-audit", v) /\ vec' = v
  /\ row' = Len(lessons')
  /\ events' = IF pr \in HasTask THEN events \union {row'} ELSE events
  /\ apc' = IF pr \in HasTask THEN "mirroring" ELSE "reporting"
  /\ UNCHANGED <<mirror, width, runVars, embedVars, merged, missed, list, pr,
                 unmirrored, issues, waved, unheard, overruled, runs>>

\* write_lesson's last call.
Mirror ==
  /\ apc = "mirroring"
  /\ Upsert(row, vec)
  /\ unmirrored' = IF Mirrors(vec) THEN unmirrored ELSE unmirrored \union {row}
  /\ apc' = "reporting"
  /\ UNCHANGED <<table, width, runVars, embedVars, merged, missed, list, pr,
                 row, vec, events, issues, waved, unheard, overruled, runs>>

\* open_issue.
Report ==
  /\ apc = "reporting"
  /\ issues' = issues \union {pr}
  /\ apc' = "auditing" /\ pr' = NoText /\ row' = 0 /\ vec' = "none"
  /\ UNCHANGED <<table, mirror, width, runVars, embedVars, merged, missed, list,
                 events, unmirrored, waved, unheard, overruled, runs>>

Finish ==
  /\ apc = "auditing" /\ list = {}
  /\ apc' = "down"
  /\ UNCHANGED <<table, mirror, width, runVars, embedVars, merged, missed, list,
                 pr, row, vec, events, unmirrored, issues, waved, unheard,
                 overruled, runs>>

\* Any call that raises, or a crash: of the forge, of the model's answer, of
\* Postgres, of the index.
Die ==
  /\ apc # "down"
  /\ missed' = missed \union list \union ({pr} \ {NoText})
  /\ unmirrored' = IF apc = "mirroring" THEN unmirrored \union {row}
                                        ELSE unmirrored
  /\ apc' = "down" /\ list' = {} /\ pr' = NoText
  /\ row' = 0 /\ vec' = "none"
  /\ UNCHANGED <<table, mirror, width, runVars, embedVars, merged, events,
                 issues, waved, unheard, overruled, runs>>

-----------------------------------------------------------------------------
(* The forge, and the days.                                                *)

Becomes(p, state) ==
  /\ merged' = [merged EXCEPT ![p] = state]
  /\ UNCHANGED <<table, mirror, width, runVars, embedVars, missed, apc, list,
                 pr, row, vec, events, unmirrored, issues, waved, unheard,
                 overruled, runs>>

Merge(p) == merged[p] = "open" /\ Becomes(p, "recent")

\* A run asks for the day before its own start: of two mornings the second may
\* start later than the first, and the merges in between are in neither day.
Age(p) == \/ merged[p] = "asked" /\ Becomes(p, "past")
          \/ merged[p] = "recent" /\ Becomes(p, "slipped")

Write(w) == \/ Seed(w) \/ IndexRepo(w) \/ MirrorAccepted(w)
            \/ \E t \in Texts : Pick(w, t)
            \/ Insert(w) \/ EndRun(w)

Maintain == Migrate \/ Reembed \/ (\E i \in Ids : Update(i)) \/ EndReembed

Audit == Start \/ (\E p \in Prs : Review(p)) \/ Record \/ Mirror \/ Report
           \/ Finish \/ Die

Next == \/ \E w \in Writers : Write(w)
        \/ Maintain
        \/ Audit
        \/ \E p \in Prs : Merge(p) \/ Age(p)

Spec == Init /\ [][Next]_vars
-----------------------------------------------------------------------------
Lesson == [text : Texts \union Prs, vec : Models,
           tag : Kinds \union {NoTag, "morning-audit"}]

TypeOK ==
  /\ lessons \in Seq(Lesson)
  /\ width \in {"old", "new"} /\ indexDim \in Models
  /\ bare \subseteq Nat /\ index \subseteq Nat /\ stale \subseteq Nat
  /\ todo \in [Writers -> SUBSET Texts]
  /\ picked \in [Writers -> Texts \union {NoText}]
  /\ raced \subseteq Texts
  /\ embedder \in Models /\ whole \in BOOLEAN
  /\ merged \in [Prs -> {"open", "recent", "asked", "past", "slipped"}]
  /\ missed \subseteq Prs /\ list \subseteq Prs /\ issues \subseteq Prs
  /\ waved \subseteq Prs /\ unheard \subseteq Prs /\ overruled \subseteq Prs
  /\ apc \in {"down", "auditing", "recording", "mirroring", "reporting"}
  /\ pr \in Prs \union {NoText} /\ row \in Nat /\ vec \in Models
  /\ events \subseteq Nat /\ unmirrored \subseteq Nat /\ runs \in Nat

\* After a re-embedding that ended, every row can be found by its vector, but
\* for those inserted since by hosts without a model: no row falls between the
\* list that it read and the inserts beside it, by processes of the old model
\* or the new (seed_knowledge.py:126-134 against lessons.py:136-146).
NoneLeftOut ==
  whole => \A i \in Ids : \/ lessons[i].vec = width
                          \/ lessons[i].vec = "none" /\ i \in bare

\* Seeding, indexing and mirroring are "idempotent": a text is in the table
\* twice only where two runs had both looked for it before either inserted it
\* (seed_knowledge.py:65-76, 113-121; morning_headroom_learn.py:150-159).
SeededOnce == \A t \in Texts : Cardinality(Copies(t)) > 1 => t \in raced

\* The three stores of a lesson agree: a lesson of a task has its event, and
\* the index has committed rows only.  What the index lacks are the rows that
\* were inserted past write_lesson, and those whose mirror failed or had no
\* vector (lessons.py:136-153).
OfTask(i) == lessons[i].text \in HasTask

StoresAgree ==
  /\ events = {i \in Ids : OfTask(i)}
  /\ index \subseteq Ids
  /\ Indexed => \A i \in Ids \ index :
       \/ ~OfTask(i)
       \/ i \in unmirrored
       \/ apc = "mirroring" /\ i = row

\* Once a merge that a run has asked for is past, it has its issue, and a lesson
\* that a search under the tag can return (by a host with the column's model, or
\* without one), or the panel passed it, or a run has it in hand: all others are
\* named.  They are the ones whose run died or whose page had no room (missed),
\* and those passed over a BLOCK whose reason names "pass" (overruled), beside the
\* ones no run asks for (slipped).  Nothing passes unheard: an error, or a reply
\* without a verdict, blocks (morning_audit.py:42-138, verifier.py:76-90).
InHand(p) == p \in list \/ p = pr

NoMergeSlips ==
  /\ unheard = {}
  /\ \A p \in issues, v \in {"none", width} :
       \E i \in Hits("morning-audit", v) : lessons[i].text = p
  /\ \A p \in Prs : merged[p] = "past" =>
       p \in issues \union waved \union overruled \union missed \/ InHand(p)
=============================================================================
