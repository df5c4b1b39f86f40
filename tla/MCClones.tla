------------------------------ MODULE MCClones ------------------------------
(***************************************************************************)
(* A clone: what it asks for and which refs it writes, and the staging      *)
(* directories of two clones into one target.  They share no state, so each *)
(* is checked with the other at rest; part says which.  The writers of one  *)
(* clone are known to the other only by the time its steps take, so one     *)
(* clone has writers at a time: c1 in "tasks", c2 in "children".            *)
(***************************************************************************)
EXTENDS MCCloneFlow, CloneStaging, TLC

CONSTANTS c1, c2, task, install, git, writeRefs

VARIABLE part

\* The clone c1 holds a task, which holds one in turn; c2 holds a git child
\* and awaits a blocking task without a guard.
Nested == (task :> c1) @@ (install :> task) @@ (git :> c2) @@ (writeRefs :> c2)

\* The writers that are not started.
Idle == CASE part = "tasks" -> {git, writeRefs} [] part = "children" -> {task, install} [] OTHER -> {}

ClonesInit == Init /\ StagingInit /\ part \in {"flow", "tasks", "children"}

ClonesNext ==
  /\ UNCHANGED part
  /\ \/ part = "flow" /\ Next /\ UNCHANGED stagingVars
     \/ /\ part # "flow" /\ StagingNext /\ UNCHANGED flowVars
        /\ \A w \in Idle : writer'[w] # "running"

ClonesSpec == ClonesInit /\ [][ClonesNext]_<<part, flowVars, stagingVars>>
=============================================================================
