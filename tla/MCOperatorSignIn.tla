-------------------------- MODULE MCOperatorSignIn --------------------------
(***************************************************************************)
(* OperatorSignIn for TLC.                                                 *)
(***************************************************************************)
EXTENDS OperatorSignIn, TLC

AnyCall == Permutations(Calls)
=============================================================================
