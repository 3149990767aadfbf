------------------------------- MODULE Outbox -------------------------------
(***************************************************************************)
(* What the transactional outbox promises, whichever relay empties it: a   *)
(* message enters the stream only for a committed row, once unless the     *)
(* server has forgotten it, and a row is marked only when its message is   *)
(* there.  OutboxRelay and CdcRelay implement this specification.          *)
(***************************************************************************)
EXTENDS Naturals

CONSTANTS Rows,
          Lapsing  \* rows the server may forget before they are published again

VARIABLES row,    \* per row: "none", "new" (committed), "published"
          copies  \* per row: its messages in the stream

vars == <<row, copies>>

Init == /\ row = [r \in Rows |-> "none"]
        /\ copies = [r \in Rows |-> 0]

Commit(r) ==
  /\ row[r] = "none"
  /\ row' = [row EXCEPT ![r] = "new"]
  /\ UNCHANGED copies

Store(r) ==
  /\ row[r] # "none"
  /\ copies[r] = 0 \/ r \in Lapsing
  /\ copies' = [copies EXCEPT ![r] = @ + 1]
  /\ UNCHANGED row

Mark(S) ==
  /\ \A r \in S : row[r] = "new" /\ copies[r] > 0
  /\ row' = [r \in Rows |-> IF r \in S THEN "published" ELSE row[r]]
  /\ UNCHANGED copies

Next == \/ \E r \in Rows : Commit(r) \/ Store(r)
        \/ \E S \in SUBSET Rows : Mark(S)

Spec == Init /\ [][Next]_vars
=============================================================================
