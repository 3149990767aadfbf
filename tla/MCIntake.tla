------------------------------ MODULE MCIntake ------------------------------
(***************************************************************************)
(* Two overlapping syncs over two issues, beside a Telegram loop and a     *)
(* Slack loop.  Slack answers with one message at a time, so that the      *)
(* second, a bot's, can push the first off the page.                       *)
(***************************************************************************)
EXTENDS Intake

CONSTANTS s1, s2, forge, telegram, slack

MCPosts == [s \in {forge, telegram, slack} |-> 2]
MCIgnored == {<<slack, 2>>}
MCPageSize == [s \in {forge, telegram, slack} |-> IF s = slack THEN 1 ELSE 2]
=============================================================================
