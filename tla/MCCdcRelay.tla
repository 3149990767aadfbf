----------------------------- MODULE MCCdcRelay -----------------------------
(***************************************************************************)
(* One CDC relay over three outbox rows.                                   *)
(***************************************************************************)
EXTENDS CdcRelay
=============================================================================
