--------------------------- MODULE MCLanConnections ---------------------------
(* Instances of LanConnections for TLC.                                    *)
EXTENDS LanConnections, TLC

Symmetry == Permutations(Conn) \cup Permutations(Path) \cup Permutations(Device)
=============================================================================
