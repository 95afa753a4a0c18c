------------------------------ MODULE MCSetup ------------------------------
(***************************************************************************)
(* Setup for TLC.  Neither service is given the secret, and its file is     *)
(* absent at first.                                                        *)
(***************************************************************************)
EXTENDS Setup

\* The OAuth service is restarted once, the connector is not.
MCBoots == [p \in Procs |-> IF p = Oauth THEN 2 ELSE 1]

MCInit == Init /\ secret = Absent /\ \A p \in Procs : ~procs[p].inline

MCSpec == MCInit /\ [][Next]_vars
=============================================================================
