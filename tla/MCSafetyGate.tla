--------------------------- MODULE MCSafetyGate ---------------------------
(* Instances of SafetyGate for TLC.                                        *)
EXTENDS SafetyGate, TLC

\* Action ids are only compared: any permutation of them is a symmetry.
ActionSymmetry == Permutations(Actions)
=============================================================================
