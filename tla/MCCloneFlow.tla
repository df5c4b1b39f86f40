---------------------------- MODULE MCCloneFlow -----------------------------
(***************************************************************************)
(* Four commits: 1, on it 2 and 3, and 4 on 2.  The default branch is at 2, *)
(* moves forward to 4, where the side branch is, and is force-pushed to 3,  *)
(* which is also tagged.                                                    *)
(***************************************************************************)
EXTENDS CloneFlow

MCCommit == 1..4
MCParents == <<{}, {1}, {1}, {2}>>
MCBranch == {"main", "side"}
MCFirstTips == [b \in MCBranch |-> IF b = "main" THEN 2 ELSE 4]
MCPushes == [b \in MCBranch |-> IF b = "main" THEN {3, 4} ELSE {}]
MCTagCommits == {3}

Full == [kind |-> "Full", branch |-> "main", at |-> None, wait |-> FALSE, single |-> FALSE]

MCRequest ==
  {Full,
   [Full EXCEPT !.wait = TRUE],
   [Full EXCEPT !.branch = "side"],
   [Full EXCEPT !.at = 2],
   [Full EXCEPT !.single = TRUE],
   [Full EXCEPT !.kind = "Head"]}
=============================================================================
