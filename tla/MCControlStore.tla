--------------------------- MODULE MCControlStore ---------------------------
(* Instance of ControlStore for TLC.                                        *)
EXTENDS ControlStore, TLC

CONSTANTS r1, c1, c2, o1, o2

OwnerSymmetry == Permutations({o1, o2})
=============================================================================
