----------------------------- MODULE MCLogFiles -----------------------------
(* LogFiles with bounds on the logs started and the lines of a file.       *)
EXTENDS LogFiles

CONSTANTS
    MaxLogs,    \* bound on the number of times a file is (re)opened
    MaxRows     \* bound on the lines of one file

\* FilesNext, each action with the bound that limits it.
MCFilesNext ==
    \/ CreateFile /\ opened' <= MaxLogs
    \/ \E l \in Lines : WriteToFile(l) /\ \A f \in Ids : Len(rows'[f]) <= MaxRows
    \/ PowerCycle

MCFilesSpec == FilesInit /\ [][MCFilesNext]_files

=============================================================================
