----------------------------- MODULE MCLanDevices -----------------------------
(* Instances of LanDevices for TLC.                                        *)
EXTENDS LanDevices, TLC

Symmetry == Permutations(Device) \cup Permutations(Name)
=============================================================================
