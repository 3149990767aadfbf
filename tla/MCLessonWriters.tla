-------------------------- MODULE MCLessonWriters --------------------------
(***************************************************************************)
(* Two writers and the text that both may find (the kinds of runs differ   *)
(* in the tag, and only the seeding has a text here); two merges, one of a *)
(* task, of which a page lists one.                                        *)
(***************************************************************************)
EXTENDS LessonWriters, TLC

CONSTANTS w1, w2, c1, p1, p2, qa, security

MCTextsOf == ("knowledge" :> {c1}) @@ ("codex-index" :> {})
               @@ ("headroom-learn" :> {})

Symmetry == Permutations(Writers)
=============================================================================
