---------------------------- MODULE MCStateFile ----------------------------
(***************************************************************************)
(* StateFile for TLC: the states are numbered in the order the store comes *)
(* to hold them.                                                           *)
(***************************************************************************)
EXTENDS StateFile

CONSTANT MaxState

Numbers == 0..MaxState
InOrder == {<<d, e>> \in Numbers \X Numbers : d <= e}

\* Timers fire, and a write ends one way or the other.
FairSpec == Spec /\ WF_vars(Flush) /\ WF_vars(Lands \/ Fails)
=============================================================================
