------------------------- MODULE MCRefreshSessions -------------------------
(***************************************************************************)
(* RefreshSessions for TLC.  Clients are alike.                            *)
(***************************************************************************)
EXTENDS RefreshSessions, TLC

AnyClient == Permutations(Clients)
=============================================================================
