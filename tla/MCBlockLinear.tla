---------------------------- MODULE MCBlockLinear ----------------------------
(***************************************************************************)
(* The blockLinear algorithm for TLC, on every collection of at most       *)
(* MaxFiles files whose lengths are in Lengths.                            *)
(***************************************************************************)
EXTENDS BlockLinear, SequencesExt

CONSTANTS MaxFiles, Lengths

\* The collection of files with the lengths ls.
FilesOf(ls) ==
    [length |-> ls,
     start  |-> [i \in 1..Len(ls) + 1 |-> FoldSeq(+, 0, SubSeq(ls, 1, i - 1))]]

MCFileSets == {FilesOf(ls) : ls \in BoundedSeq(Lengths, MaxFiles)}
=============================================================================
