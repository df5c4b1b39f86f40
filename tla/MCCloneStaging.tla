--------------------------- MODULE MCCloneStaging ---------------------------
(* An instance of CloneStaging for TLC.                                       *)
EXTENDS CloneStaging, TLC

CONSTANTS c1, task, refs

\* The clone c1 holds a task and awaits a blocking one without a guard.
Unguarded == (task :> c1) @@ (refs :> c1)
=============================================================================
