--------------------------- MODULE CommitHistory ---------------------------
(***************************************************************************)
(* The commits of a repository and the choice of the build a new one is     *)
(* built on (ancestor_base, rust/src/server/worker.rs).                     *)
(***************************************************************************)
EXTENDS Naturals

CONSTANTS
  Commit,   \* commits
  Parents,  \* Parents[c]: the parents of c
  None

ASSUME HistoryAssumption ==
  /\ \A c \in Commit : Parents[c] \subseteq Commit \ {c}
  /\ None \notin Commit

\* The strict ancestors of c: the least set that holds its parents and the
\* parents of everything in it.
HoldsParents(S) == \A d \in S : Parents[d] \subseteq S
Ancestors ==
  [c \in Commit |-> {a \in Commit : \A S \in SUBSET Commit :
                       Parents[c] \subseteq S /\ HoldsParents(S) => a \in S}]

\* gix_util::is_ancestor
IsAncestor(a, c) == a = c \/ a \in Ancestors[c]

\* The bases a build of c may find among the commits ready: one that no other
\* found ancestor descends from.  Only BASE_CANDIDATES are looked at, and one
\* whose ancestry cannot be read is passed over, so the ancestors found are
\* any of the ready ones; none found builds cold.
BasesOf(c, ready) ==
  {None} \cup UNION {{b \in found : \A o \in found : b \notin Ancestors[o]} :
                       found \in SUBSET (Ancestors[c] \cap ready)}
=============================================================================
