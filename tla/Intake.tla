------------------------------- MODULE Intake -------------------------------
(***************************************************************************)
(* How work enters the system: ingest/forgejo_issue_sync.py, run again and *)
(* again by a schedule and sometimes twice at once, and                    *)
(* ingest/chat_ingress.py, one process whose loops poll a chat service     *)
(* each.  Both turn an item into a task row and an outbox row in one       *)
(* transaction that first looks for the item's ext_id, and rely on the     *)
(* UNIQUE constraint of that column.  The syncs list the open issues anew  *)
(* each time; a loop remembers in its memory how far it has read.          *)
(***************************************************************************)
EXTENDS Integers, FiniteSets

CONSTANTS Syncs,       \* runs of the issue sync that may overlap
          Loops,       \* CHAT_SOURCES: the loops of the one ingress process
          Forge,       \* the source of the syncs
          Posts,       \* bound, per source: the items it will ever hold
          Ignored,     \* chat items from bots, strangers or without text
          PageSize,    \* per source: the items of one answer (50 of Slack's)
          Newest,      \* sources whose answer is the newest page
          Confirms,    \* loops whose service drops what their offset confirms
          MaxFaults    \* bound: errors, crashes and refused replies

Workers == Syncs \union Loops
Sources == Loops \union {Forge}

\* The items of a source are numbered in the order they appear there.
Numbers(s) == 1..Posts[s]
Items == UNION {{s} \X Numbers(s) : s \in Sources}

ASSUME IntakeAssumption ==
  /\ Forge \notin Loops /\ Syncs \intersect Loops = {}
  /\ Posts \in [Sources -> Nat]
  /\ Ignored \subseteq Items
  /\ PageSize \in [Sources -> Nat \ {0}]
  /\ Newest \subseteq Sources
  /\ Confirms \subseteq Loops
  /\ MaxFaults \in Nat

VARIABLES
  posted,  \* per source: how many items it holds by now
  dropped, \* per loop: the service keeps no item up to this number
  cursor,  \* per loop: offset - 1, oldest, last_id
  pc,      \* per worker: "reading", "selected", "inserted", "replying"
  todo,    \* per worker: the items of the answer it has not come to
  now,     \* per worker: the item of its open transaction, 0 without one
  tasks,   \* per item: the committed task rows with its ext_id
  rows,    \* per item: the committed outbox rows that announce them
  faults

vars == <<posted, dropped, cursor, pc, todo, now, tasks, rows, faults>>
tables == <<tasks, rows>>

Source(w) == IF w \in Loops THEN w ELSE Forge
Item(w) == <<Source(w), now[w]>>

Init ==
  /\ posted = [s \in Sources |-> 0]
  /\ dropped = [l \in Loops |-> 0]
  /\ cursor = [l \in Loops |-> 0]
  /\ pc = [w \in Workers |-> "reading"]
  /\ todo = [w \in Workers |-> {}]
  /\ now = [w \in Workers |-> 0]
  /\ tasks = [i \in Items |-> 0]
  /\ rows = [i \in Items |-> 0]
  /\ faults = 0

\* Somebody labels an issue swarm-ready, or writes to the bot.
Post(s) ==
  /\ posted[s] < Posts[s]
  /\ posted' = [posted EXCEPT ![s] = @ + 1]
  /\ UNCHANGED <<dropped, cursor, pc, todo, now, tables, faults>>

\* Mutant: the offset is moved past the last message once more.
ListedPast(w) ==
  {k \in 1..posted[Source(w)] :
     w \in Loops => k > cursor[w] + 1 /\ k > dropped[w]}

\* What the source would answer a worker if pages had no end.
Listed(w) ==
  {k \in 1..posted[Source(w)] : w \in Loops => k > cursor[w] /\ k > dropped[w]}

Page(w) ==
  {k \in Listed(w) :
     Cardinality({j \in Listed(w) : IF Source(w) \in Newest THEN j > k
                                                            ELSE j < k})
       < PageSize[Source(w)]}

\* One GET.  Its offset tells Telegram to forget what came before.
Ask(w) ==
  /\ pc[w] = "reading"
  /\ todo[w] = {}
  /\ dropped' = [l \in Loops |->
                   IF l = w /\ l \in Confirms /\ cursor[l] > dropped[l]
                   THEN cursor[l] ELSE dropped[l]]
  /\ UNCHANGED <<posted, cursor, pc, now, tables>>

Poll(w) ==
  /\ Ask(w)
  /\ todo' = [todo EXCEPT ![w] = Page(w)]
  /\ UNCHANGED faults

\* The request arrives and the answer does not, or is an error: a loop catches
\* it and asks again, a sync ends.
PollFails(w) ==
  /\ faults < MaxFaults
  /\ faults' = faults + 1
  /\ Ask(w)
  /\ UNCHANGED todo

\* A loop sorts its messages by age; the forge lists the newest issue first.
Turn(w, k) ==
  /\ k \in todo[w]
  /\ \A j \in todo[w] : IF w \in Loops THEN k <= j ELSE j <= k

\* The loops move their cursor before they look at the message.
Reach(w, k) ==
  /\ pc[w] = "reading"
  /\ Turn(w, k)
  /\ todo' = [todo EXCEPT ![w] = @ \ {k}]
  /\ cursor' = [l \in Loops |-> IF l = w THEN k ELSE cursor[l]]

\* Nothing to do: an ignored message, or a row with this ext_id is there.
Skip(w, k) ==
  /\ Reach(w, k)
  /\ <<Source(w), k>> \in Ignored \/ tasks[<<Source(w), k>>] > 0
  /\ UNCHANGED <<posted, dropped, pc, now, tables, faults>>

\* The transaction begins and its SELECT finds no row.  prepare_spec follows,
\* which may take as long as the upload of the body and swallows its errors.
Select(w, k) ==
  /\ Reach(w, k)
  /\ <<Source(w), k>> \notin Ignored
  /\ tasks[<<Source(w), k>>] = 0
  /\ pc' = [pc EXCEPT ![w] = "selected"]
  /\ now' = [now EXCEPT ![w] = k]
  /\ UNCHANGED <<posted, dropped, tables, faults>>

\* An ext_id that an open transaction has inserted makes the next INSERT wait.
Pending(i) == \E w \in Workers : pc[w] = "inserted" /\ Item(w) = i

\* Mutant: ext_id without UNIQUE.
InsertUnconstrained(w) ==
  /\ pc[w] = "selected"
  /\ pc' = [pc EXCEPT ![w] = "inserted"]
  /\ UNCHANGED <<posted, dropped, cursor, todo, now, tables, faults>>

Insert(w) ==
  /\ pc[w] = "selected"
  /\ ~Pending(Item(w)) /\ tasks[Item(w)] = 0
  /\ pc' = [pc EXCEPT ![w] = "inserted"]
  /\ UNCHANGED <<posted, dropped, cursor, todo, now, tables, faults>>

\* The outbox row is inserted and the transaction commits both rows.
Write(w) ==
  /\ tasks' = [tasks EXCEPT ![Item(w)] = @ + 1]
  /\ rows' = [rows EXCEPT ![Item(w)] = @ + 1]

Commit(w) ==
  /\ pc[w] = "inserted"
  /\ Write(w)
  /\ pc' = [pc EXCEPT ![w] = IF w \in Loops THEN "replying" ELSE "reading"]
  /\ now' = [now EXCEPT ![w] = 0]
  /\ UNCHANGED <<posted, dropped, cursor, todo, faults>>

Reply(w) ==
  /\ pc[w] = "replying"
  /\ pc' = [pc EXCEPT ![w] = "reading"]
  /\ UNCHANGED <<posted, dropped, cursor, todo, now, tables, faults>>

\* requests raises, which a loop catches: the rest of the answer is forgotten
\* and asked for again from the cursor.
ReplyFails(w) ==
  /\ pc[w] = "replying"
  /\ faults < MaxFaults
  /\ pc' = [pc EXCEPT ![w] = "reading"]
  /\ todo' = [todo EXCEPT ![w] = {}]
  /\ faults' = faults + 1
  /\ UNCHANGED <<posted, dropped, cursor, now, tables>>

\* Whoever shares a process with w.
Fellows(w) == IF w \in Loops THEN Loops ELSE {w}

\* Mutant: the cursor survives the process.
DiesMindful(w) ==
  /\ pc' = [v \in Workers |-> IF v \in Fellows(w) THEN "reading" ELSE pc[v]]
  /\ todo' = [v \in Workers |-> IF v \in Fellows(w) THEN {} ELSE todo[v]]
  /\ now' = [v \in Workers |-> IF v \in Fellows(w) THEN 0 ELSE now[v]]
  /\ UNCHANGED <<posted, dropped, cursor>>

\* An exception nobody catches, or a kill, ends the process: gather ends all
\* loops with the first.  The open transactions roll back, the cursors are
\* forgotten, and the service manager or the schedule starts it again.
Dies(w) ==
  /\ pc' = [v \in Workers |-> IF v \in Fellows(w) THEN "reading" ELSE pc[v]]
  /\ todo' = [v \in Workers |-> IF v \in Fellows(w) THEN {} ELSE todo[v]]
  /\ cursor' = [l \in Loops |-> IF l \in Fellows(w) THEN 0 ELSE cursor[l]]
  /\ now' = [v \in Workers |-> IF v \in Fellows(w) THEN 0 ELSE now[v]]
  /\ UNCHANGED <<posted, dropped>>

\* The row came between SELECT and INSERT: UniqueViolationError.
Conflict(w) ==
  /\ pc[w] = "selected"
  /\ ~Pending(Item(w)) /\ tasks[Item(w)] > 0
  /\ Dies(w)
  /\ UNCHANGED <<tables, faults>>

Fault(w) ==
  /\ faults < MaxFaults
  /\ faults' = faults + 1
  /\ Dies(w)
  /\ UNCHANGED tables

\* The commit took effect and its answer did not come back.
CommitUnanswered(w) ==
  /\ pc[w] = "inserted"
  /\ faults < MaxFaults
  /\ faults' = faults + 1
  /\ Write(w)
  /\ Dies(w)

Step(w) ==
  \/ Poll(w)
  \/ \E k \in todo[w] : Skip(w, k) \/ Select(w, k)
  \/ Insert(w)
  \/ Conflict(w)
  \/ Commit(w)
  \/ Reply(w)

Next ==
  \/ \E s \in Sources : Post(s)
  \/ \E w \in Workers :
       \/ Step(w)
       \/ PollFails(w) \/ ReplyFails(w) \/ Fault(w) \/ CommitUnanswered(w)

Spec == Init /\ [][Next]_vars

\* The loops poll for ever, the schedule starts the sync for ever, and an
\* outage ends (MaxFaults).
FairSpec == Spec /\ \A w \in Workers : WF_vars(Step(w))
-----------------------------------------------------------------------------
TypeOK ==
  /\ posted \in [Sources -> Nat] /\ \A s \in Sources : posted[s] <= Posts[s]
  /\ dropped \in [Loops -> Nat]
  /\ cursor \in [Loops -> Nat]
  /\ \A l \in Loops : cursor[l] <= posted[l] /\ dropped[l] <= posted[l]
  /\ pc \in [Workers -> {"reading", "selected", "inserted", "replying"}]
  /\ todo \in [Workers -> SUBSET Nat]
  /\ \A w \in Workers :
       /\ todo[w] \subseteq 1..posted[Source(w)]
       /\ IF pc[w] \in {"selected", "inserted"}
          THEN now[w] \in 1..posted[Source(w)] ELSE now[w] = 0
  /\ now \in [Workers -> Nat]
  /\ tasks \in [Items -> Nat]
  /\ rows \in [Items -> Nat]
  /\ faults \in 0..MaxFaults

\* An item becomes a task once, whichever syncs overlap, die or are run again
\* ("re-runs are idempotent", forgejo_issue_sync.py:7), and its task is never
\* without the one outbox row that announces it (chat_ingress.py:50).
OneTaskPerItem ==
  \A i \in Items : /\ tasks[i] <= 1 /\ rows[i] = tasks[i]
                   /\ i \in Ignored => tasks[i] = 0

\* A page of newer items hides the item from a source that answers newest first.
PushedOff(s, k) == s \in Newest /\ posted[s] - k >= PageSize[s]

\* What a loop will not ask for again, because its cursor is past it or the
\* service has dropped it, is a task, or ignored, or in the loop's hand: moving
\* the cursor before the work (chat_ingress.py:112, 149, 188) loses nothing,
\* but for what a burst of newer messages has pushed off the page.
NothingPassedOver ==
  \A l \in Loops : \A k \in 1..posted[l] :
    k <= cursor[l] \/ k <= dropped[l] =>
      \/ tasks[<<l, k>>] > 0
      \/ <<l, k>> \in Ignored
      \/ now[l] = k
      \/ PushedOff(l, k)

\* "inbound messages become tasks" (chat_ingress.py:4), and an issue's task row
\* appears after enough ticks of the schedule (RUNBOOK.md:139), though a sync
\* that loses a race dies with the rest of its list, and a loop takes the other
\* loops with it: for the items that never lie behind a full page.
ItemsFlow ==
  \A s \in Sources : \A k \in Numbers(s) :
    <<s, k>> \notin Ignored /\ (s \in Newest => Posts[s] - k < PageSize[s]) =>
      (posted[s] >= k) ~> (tasks[<<s, k>>] > 0)
=============================================================================
