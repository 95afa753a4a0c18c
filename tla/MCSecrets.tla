----------------------------- MODULE MCSecrets -----------------------------
(***************************************************************************)
(* Secrets for TLC.                                                        *)
(***************************************************************************)
EXTENDS Secrets

Twice == [p \in Procs |-> 2]
=============================================================================
