------------------------------ MODULE Verifier ------------------------------
(***************************************************************************)
(* agent/verifier.py: what a lens's model may answer about a diff, and     *)
(* what is made of the answers.                                            *)
(***************************************************************************)
CONSTANT Lenses

\* "blockNamingPass" is a BLOCK whose reason has the letters "pass" in it;
\* "silent" has no verdict line; "unreachable" is a request that failed.
Replies == {"pass", "block", "blockNamingPass", "silent", "unreachable"}

Voiceless == {"silent", "unreachable"}
Blocking == {"block", "blockNamingPass"}

\* Mutant: only a BLOCK blocks.
ParseOpen(reply) == IF reply \in Blocking THEN "BLOCK" ELSE "PASS"

\* The last verdict line decides by whether it has the letters "pass".
ParseVerdict(reply) ==
  IF reply \in {"pass", "blockNamingPass"} THEN "PASS" ELSE "BLOCK"

ReviewWithLens(reply) ==
  IF reply = "unreachable" THEN "ERROR" ELSE ParseVerdict(reply)

Aggregate(verdicts) == IF verdicts \subseteq {"PASS"} THEN "PASS" ELSE "BLOCK"

\* One reply per lens.
Verify(reply) == Aggregate({ReviewWithLens(reply[l]) : l \in Lenses})
=============================================================================
