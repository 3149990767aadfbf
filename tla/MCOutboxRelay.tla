--------------------------- MODULE MCOutboxRelay ---------------------------
(***************************************************************************)
(* Two poll relays over four outbox rows, in batches of two.               *)
(***************************************************************************)
EXTENDS OutboxRelay

CONSTANTS p1, p2
=============================================================================
