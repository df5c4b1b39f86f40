----------------------------- MODULE MCGCSweeps -----------------------------
(***************************************************************************)
(* What must come to an end on the way to and from the bucket: the sweep of *)
(* what is due, and the uploads that share the limit on PUTs.  They share   *)
(* no state, so each is checked with the other at rest; part says which.    *)
(***************************************************************************)
EXTENDS ArtifactGC, PutLimit

CONSTANTS p1, x, y, b1, u1, u2, u3

VARIABLE part

BucketInit == Init /\ PutInit /\ part \in {"sweeps", "puts"}

BucketNext ==
  /\ UNCHANGED part
  /\ \/ part = "sweeps" /\ Next /\ UNCHANGED putVars
     \/ part = "puts" /\ PutNext /\ UNCHANGED gcVars

BucketSpec == BucketInit /\ [][BucketNext]_<<part, gcVars, putVars>>

\* Under fair sweeps, and builds that end, what is due goes, and under a fair
\* semaphore every upload ends: see DueIsSwept and EveryPutEnds.
BucketWorkEnds ==
  /\ part = "sweeps" /\ Fairness => DueIsSwept
  /\ part = "puts" /\ PutFairness => EveryPutEnds
=============================================================================
