------------------------- MODULE MCDurableSessions -------------------------
(***************************************************************************)
(* DurableSessions for TLC.                                                *)
(***************************************************************************)
EXTENDS DurableSessions
=============================================================================
