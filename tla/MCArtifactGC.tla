---------------------------- MODULE MCArtifactGC ----------------------------
(***************************************************************************)
(* What may be deleted under a build that needs it: artifacts, the copies   *)
(* of objects on disk and in the bucket, and the packs of a mirror.  The    *)
(* three share no state, so each is checked with the others at rest; part   *)
(* says which.                                                              *)
(***************************************************************************)
EXTENDS ArtifactGC, ObjectStore, MirrorLocks, TLC

CONSTANTS p1, p2, x, b1, b2, t1, t2, head, full

VARIABLE part

\* Two objects, one of a directory that is there and one of a new one.
MCDirOf == <<"d1", "d2">>

\* Commit 2 on commit 1: a Head of 2 and a Full of 1.
MCParents == <<{}, {1}>>
MCKind == head :> "Head" @@ full :> "Full"
MCOf == head :> 2 @@ full :> 1

\* Builds, repositories and storing tasks are not told apart.
GCSymmetry == Permutations({b1, b2}) \cup Permutations({p1, p2}) \cup Permutations({t1, t2})

KeepInit ==
  /\ Init /\ ObjectInit /\ MirrorInit
  /\ part \in {"artifacts", "objects", "mirror"}
  /\ part # "objects" => ~durable

KeepNext ==
  /\ UNCHANGED part
  /\ \/ part = "artifacts" /\ Next /\ UNCHANGED <<objectVars, mirrorVars>>
     \/ part = "objects" /\ ObjectNext /\ UNCHANGED <<gcVars, mirrorVars>>
     \/ part = "mirror" /\ MirrorNext /\ UNCHANGED <<gcVars, objectVars>>

KeepSpec == KeepInit /\ [][KeepNext]_<<part, gcVars, objectVars, mirrorVars>>
=============================================================================
