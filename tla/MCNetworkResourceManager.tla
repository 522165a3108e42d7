---------------------- MODULE MCNetworkResourceManager ----------------------
(* Instances of NetworkResourceManager for TLC: the .cfg files give every   *)
(* constant its value.                                                      *)
EXTENDS NetworkResourceManager, TLC

CONSTANT decoded

\* The network's name is not UTF-8.
Texts == [s \in Ssid |-> decoded]

\* Two devices, two profiles and so on are interchangeable (Unnamed is a set of
\* profiles of its own, kept out of the permutations).
Symmetry == Permutations(Device) \cup Permutations(Name)
              \cup Permutations(Conn \ Unnamed) \cup Permutations(Active)
=============================================================================
