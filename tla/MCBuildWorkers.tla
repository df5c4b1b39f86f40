--------------------------- MODULE MCBuildWorkers ---------------------------
(* Instance of BuildWorkers for TLC.                                       *)
EXTENDS BuildWorkers, TLC

CONSTANTS r1, c1, h1, h2, f1

\* Two Head slots and one Full slot.
TwoHeadsAndFull == (h1 :> "head") @@ (h2 :> "head") @@ (f1 :> "full")
=============================================================================
