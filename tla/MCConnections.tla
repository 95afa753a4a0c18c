--------------------------- MODULE MCConnections ---------------------------
(* Connections for TLC. *)
EXTENDS Connections, TLC

Symmetry == Permutations(Calls) \cup Permutations(Sockets) \cup Permutations(Folders)

=============================================================================
