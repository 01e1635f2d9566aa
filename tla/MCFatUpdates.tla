---------------------------- MODULE MCFatUpdates ----------------------------
(***************************************************************************)
(* FatUpdates for TLC: a few lines in two files, and power cuts.           *)
(***************************************************************************)
EXTENDS FatUpdates, FiniteSetsExt

CONSTANTS
    RootFiles,  \* the files that may be created before the directory
    MaxLines,   \* bound on the lines of all files
    MaxCuts     \* bound on the power cuts

SumLines == MapThenSumSet(LAMBDA f : lines[f], Files)

MCNext ==
    \/ Step \/ OpenFatInit \/ CreateDir
    \/ \E f \in Files : lines[f] = 0 /\ CreateFile(f) /\ (handle["cwd"].first = Root => f \in RootFiles)
    \/ \E n \in 1 .. 2 : fat_write(n) /\ SumLines' <= MaxLines
    \/ cuts < MaxCuts /\ PowerCut

MCSpec == Init /\ [][MCNext]_vars /\ Fairness

=============================================================================
