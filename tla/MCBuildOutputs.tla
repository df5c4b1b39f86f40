--------------------------- MODULE MCBuildOutputs ---------------------------
(***************************************************************************)
(* The packs and the Files archives of the same commits.  They share no     *)
(* state, so each is checked with the other at rest; part says which.       *)
(***************************************************************************)
EXTENDS PackLevels, FilesArchive

VARIABLE part

\* 2 and 3 on 1, 4 merges them, 5 and 6 follow it.
MCParents == << {}, {1}, {1}, {2, 3}, {4}, {5} >>

MCHeadObjects == << {1, 11, 12, 13, 14}, {2, 11, 12, 13, 15}, {3, 11, 14, 16},
                    {4, 11, 12, 14, 15}, {5, 11}, {6, 11} >>
MCObjectSize == [o \in 1..16 |-> IF o = 11 THEN 10 ELSE IF o = 12 THEN 3 ELSE 1]

MCContent == << <<1, 2, 3, 4, 5, 6, 1>>, <<>>, <<4, 4, 6, 2, 3>>, <<7, 9, 1, 2, 3, 4, 6>>, <<5, 8, 9>>,
                <<1, 1>>, <<1, 2, 3, 4, 5, 6, 7, 8, 9, 4, 7, 3>> >>

\* Changed, emptied, removed and repeated files; files are added after all
\* others.
MCTree == <<
  << <<"a", 7>>, <<"b", 2>>, <<"c", 3>>, <<"d", 1>> >>,
  << <<"a", 7>>, <<"b", 2>>, <<"c", 6>>, <<"d", 1>> >>,
  << <<"a", 7>>, <<"c", 3>>, <<"d", 1>>, <<"e", 5>> >>,
  << <<"a", 7>>, <<"c", 6>>, <<"d", 1>>, <<"e", 5>>, <<"f", 3>> >>,
  << <<"a", 7>>, <<"c", 2>>, <<"d", 4>>, <<"e", 5>>, <<"f", 3>> >>,
  << <<"a", 7>>, <<"b", 3>>, <<"d", 1>>, <<"e", 5>>, <<"f", 3>>, <<"g", 2>> >> >>

\* The same in a line where 4 adds a file between two others.
MCLine == [c \in 1..6 |-> IF c = 1 THEN {} ELSE {c - 1}]
MCTreeMiddle == [c \in 1..6 |->
  << <<"a", 7>> >> \o (IF c < 4 THEN <<>> ELSE << <<"aa", 5>> >>)
    \o << <<"b", 3>>, <<"c", IF c % 2 = 0 THEN 6 ELSE 4>> >>]

BuildsInit == PackInit /\ FilesInit

\* The Files of 3 are never asked for.
BuildsNext ==
  \/ part = "packs" /\ PackNext /\ UNCHANGED <<files, part>>
  \/ part = "archives" /\ (\E c \in Commit \ {3} : BuildFiles(c)) /\ UNCHANGED <<packVars, part>>

ArchiveSpec == BuildsInit /\ part = "archives" /\ [][BuildsNext]_<<packVars, files, part>>
=============================================================================
