--------------------------- MODULE MCAccountsStore ---------------------------
(***************************************************************************)
(* AccountsStore for TLC.                                                  *)
(***************************************************************************)
EXTENDS AccountsStore

\* A mutation's awaits end: its rename lands, fails, or is tried again, so often and no
\* more.
FairSpec == Spec /\ WF_vars(\E f \in Forms : Mutate(f))
=============================================================================
