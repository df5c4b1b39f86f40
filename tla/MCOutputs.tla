------------------------------ MODULE MCOutputs ------------------------------
(***************************************************************************)
(* What builds write and what clients read of it: the packs and the Files   *)
(* archives of builds, and a client's downloads, Files pipeline and pack    *)
(* installs.  They share no state, so each is checked with the others at    *)
(* rest; part says which.                                                   *)
(***************************************************************************)
EXTENDS MCBuildOutputs, Download, ArchiveExtract, PackInstall

CONSTANTS pack, tags, fullClone, headClone, packA, packB, big, history

\* A file that is fetched in ranges, and tags of unknown length that go to
\* memory.
MCArtifactSize == [x \in Artifact |-> IF x = pack THEN 4 ELSE 2]

\* Two chunks of three frames; the second file lies in all of them.
MCChunkOf == <<1, 1, 2>>
MCFrags == << <<1>>, <<1, 2, 3>>, <<3>> >>

\* A Full, whose packB is a level that a clone on a base keeps, beside a Head
\* with a pack larger than the memory budget.
MCLists == [c \in Install |-> IF c = fullClone THEN <<packA, packB, history>> ELSE <<packB, big>>]
MCPackLen == [p \in PackId |-> CASE p = packA -> 5 [] p = packB -> 3 [] p = big -> 9 [] OTHER -> 4]
MCBlobs == [p \in PackId |-> CASE p = packB -> {3} [] p = history -> {} [] OTHER -> {1, 2}]
MCPaths == [c \in Install |-> <<1, 1, 3>>]
MCKeep == [c \in Install |-> {packB}]

ClientVars == <<dlVars, extractVars, mode, installVars>>

OutputsInit ==
  /\ BuildsInit /\ Init /\ ExtractInit /\ InstallInit
  /\ part \in {"packs", "archives", "download", "extract", "install"}
  /\ part # "download" => cache = {}
  /\ part # "extract" => spoilt = {}
  /\ part # "install" => \A c \in Install : mode[c] = "git"

ClientNext ==
  \/ part = "download" /\ Next /\ UNCHANGED <<extractVars, mode, installVars>>
  \/ part = "extract" /\ ExtractNext /\ UNCHANGED <<dlVars, mode, installVars>>
  \/ part = "install" /\ InstallNext /\ UNCHANGED <<dlVars, extractVars>>

OutputsNext ==
  \/ BuildsNext /\ UNCHANGED ClientVars
  \/ ClientNext /\ UNCHANGED <<packVars, files, part>>

OutputsSpec == OutputsInit /\ [][OutputsNext]_<<part, packVars, files, ClientVars>>

\* Every download ends, the one that waits for another's refresh too; a Files
\* clone and the threads it starts end, whatever fails; the installs that share
\* the memory budget end: each under the fairness of its own tasks (see
\* EveryDownloadEnds, PipelineEnds and InstallsEnd).
ClientsFinish ==
  /\ part = "download" /\ Fairness => EveryDownloadEnds
  /\ part = "extract" /\ ExtractFairness => PipelineEnds
  /\ part = "install" /\ InstallFairness => InstallsEnd
=============================================================================
