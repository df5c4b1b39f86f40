--------------------------- MODULE MCStoreHistory ---------------------------
(* Instances of StoreHistory for TLC.                                       *)
EXTENDS StoreHistory, TLC

CONSTANTS r1, r2, c1, o1, o2, alice

\* Neither the repositories nor the owner strings are told apart.
StoreSymmetry == Permutations({r1, r2}) \cup Permutations({o1, o2})
=============================================================================
