------------------------------ MODULE LogFiles ------------------------------
(***************************************************************************)
(* The log files of stm32_SD (CreateFile, WriteToFile) at the granularity  *)
(* of whole lines, over the directory as _fat_dir_create_file leaves it.   *)
(*                                                                         *)
(* CreateFile builds the name "Logfile<FileID>.csv".  A FileID below       *)
(* Direct (10) gives a stem of eight letters, which is its own 8.3 name;   *)
(* the others need a numeric tail, LOGFIL~1 .. LOGFIL~Slots (9), and       *)
(* _fat_dir_create_file probes the tails in order.  Probing OPENS the file *)
(* that holds the tail in the caller's handle, and CreateFile ignores the  *)
(* result of fat_create: whatever file the handle was last opened on is    *)
(* the file WriteToFile then writes.                                       *)
(*                                                                         *)
(* Lines have one size here, and the clusters of the card never run out,   *)
(* but the card may refuse a directory entry.  A power cycle keeps the     *)
(* card and zeroes the RAM.  Definitions named Bug_... are plausible       *)
(* mistakes in the definition that follows them; no specification uses     *)
(* them.                                                                   *)
(***************************************************************************)
EXTENDS Naturals, Sequences, FiniteSets

CONSTANTS
    Direct,     \* how many FileIDs have an 8.3 name of their own (10)
    Slots,      \* numeric tails build_short_name is tried with (9)
    IdMod       \* FileID is a uint8_t: it wraps at 256

ASSUME NamesAssumption ==
    /\ Direct \in Nat \ {0}
    /\ Slots \in Nat \ {0}
    /\ IdMod \in Nat
    /\ Direct + Slots <= IdMod

Ids   == 0 .. IdMod - 1
Lines == {"header", "row"}
Row   == [log : Nat, line : Lines]   \* a line on the card and its log

NoFile == IdMod         \* the file of a zeroed fileHandle
Absent == <<"none", 0>> \* no directory entry

VARIABLES
    FileID,     \* number of the next log file
    cwd,        \* cwd[f]: the 8.3 name Logfile<f>.csv is filed under
    rows,       \* rows[f]: the lines of Logfile<f>.csv, each with its log
    handle,     \* the file fileHandle is open on
    position,   \* fileHandle.position, in lines
    opened,     \* history: how often fileHandle was (re)opened; names a log
    refused,    \* history: a directory entry has been refused
    restarted   \* history: the power has been cycled

files == <<FileID, cwd, rows, handle, position, opened, refused, restarted>>

FilesInit ==
    /\ FileID = 0
    /\ cwd = [f \in Ids |-> Absent]
    /\ rows = [f \in Ids |-> <<>>]
    /\ handle = NoFile
    /\ position = 0
    /\ opened = 0
    /\ refused = FALSE
    /\ restarted = FALSE

-----------------------------------------------------------------------------
(* 8.3 names                                                               *)

build_short_name(f, n) ==
    IF f < Direct THEN <<"LOGFILE", f>> ELSE <<"LOGFIL~", n>>

Taken(name) == \E f \in Ids : cwd[f] = name

\* The probing loop gets as far as tail n: every earlier one is taken.
Probes(f, n) == \A i \in 1 .. n - 1 : Taken(build_short_name(f, i))

Bug_FirstTailUnchecked(f, n) == n = 1

\* The loop stops at tail n, "We have a winner".
Wins(f, n) == Probes(f, n) /\ ~Taken(build_short_name(f, n))

-----------------------------------------------------------------------------
(* The handle                                                              *)

Bug_PositionKept(f) ==
    /\ handle' = f
    /\ opened' = opened + 1
    /\ UNCHANGED position

\* A successful fat_open fills the handle in from the directory entry.
fat_open(f) ==
    /\ handle' = f
    /\ position' = 0
    /\ opened' = opened + 1

\* What probing up to tail n did to the handle: it is on the holder of n - 1.
LeftByProbing(f, n) ==
    \/ n = 1 /\ UNCHANGED <<handle, position, opened>>
    \/ \E g \in Ids : n > 1 /\ cwd[g] = build_short_name(f, n - 1) /\ fat_open(g)

-----------------------------------------------------------------------------
(* CreateFile: the four ways fat_create can end                            *)

FileExists ==
    /\ cwd[FileID] # Absent
    /\ fat_open(FileID)
    /\ UNCHANGED <<cwd, rows, refused>>

NewEntry ==
    /\ cwd[FileID] = Absent
    /\ \E n \in 1 .. Slots :
          /\ Wins(FileID, n)
          /\ cwd' = [cwd EXCEPT ![FileID] = build_short_name(FileID, n)]
    /\ fat_open(FileID)
    /\ UNCHANGED <<rows, refused>>

\* "Couldn't find a short name"
NoShortName ==
    /\ cwd[FileID] = Absent
    /\ Probes(FileID, Slots + 1)
    /\ LeftByProbing(FileID, Slots + 1)
    /\ UNCHANGED <<cwd, rows, refused>>

\* fat_write on the directory failed.
EntryRefused ==
    /\ cwd[FileID] = Absent
    /\ \E n \in 1 .. Slots : Wins(FileID, n) /\ LeftByProbing(FileID, n)
    /\ refused' = TRUE
    /\ UNCHANGED <<cwd, rows>>

Bug_NotCounted == FileID
Bug_NoWrap     == FileID + 1

NextFileID == (FileID + 1) % IdMod

CreateFile ==
    /\ FileExists \/ NewEntry \/ NoShortName \/ EntryRefused
    /\ FileID' = NextFileID
    /\ UNCHANGED restarted

-----------------------------------------------------------------------------
(* WriteToFile and restart                                                 *)

Written(s, l) ==
    IF position < Len(s) THEN [s EXCEPT ![position + 1] = l] ELSE Append(s, l)

WriteToFile(l) ==
    /\ handle # NoFile
    /\ rows' = [rows EXCEPT ![handle] = Written(@, [log |-> opened, line |-> l])]
    /\ position' = position + 1
    /\ UNCHANGED <<FileID, cwd, handle, opened, refused, restarted>>

PowerCycle ==
    /\ FileID' = 0
    /\ handle' = NoFile
    /\ position' = 0
    /\ restarted' = TRUE
    /\ UNCHANGED <<cwd, rows, opened, refused>>

FilesNext == CreateFile \/ (\E l \in Lines : WriteToFile(l)) \/ PowerCycle

FilesSpec == FilesInit /\ [][FilesNext]_files

-----------------------------------------------------------------------------
(* Properties                                                              *)

ShortName83 ==
    ({"LOGFILE"} \X (0 .. Direct - 1)) \cup ({"LOGFIL~"} \X (1 .. Slots))

(* The file numbers and names that CreateFile derives stay in the range that *)
(* an 8.3 short name can hold.                                              *)
FilesTypeOK ==
    /\ FileID \in Ids
    /\ cwd \in [Ids -> ShortName83 \cup {Absent}]
    /\ rows \in [Ids -> Seq(Row)]
    /\ handle \in Ids \cup {NoFile}
    /\ position \in Nat
    /\ opened \in Nat
    /\ refused \in BOOLEAN
    /\ restarted \in BOOLEAN

\* No two log files share an 8.3 name, whatever restarts, wrap-arounds and
\* refused entries came before: the probing of _fat_dir_create_file.
ShortNamesUnique ==
    \A f, g \in Ids : f # g /\ cwd[f] # Absent => cwd[f] # cwd[g]

\* However often a file is reopened by mistake, its lines go from the newest
\* log to the oldest: a log is one contiguous run, and a reopened file never
\* has lines of the new log after lines of an old one.
NewestFirst ==
    \A f \in Ids : \A i, j \in DOMAIN rows[f] :
        i < j => rows[f][j].log <= rows[f][i].log

\* The lines of s are still there in t, in their places.
Kept(s, t) == Len(s) <= Len(t) /\ \A i \in 1 .. Len(s) : t[i] = s[i]

\* On a fresh card that is not restarted and refuses nothing, the first
\* Direct + Slots logs (19 in the code) are each complete: no step changes or
\* removes a line that is already on the card.
FirstLogsSurvive ==
    [][~refused' /\ ~restarted' /\ opened' <= Direct + Slots
        => \A f \in Ids : Kept(rows[f], rows'[f])]_files

\* "create a new file" (main.cpp, newSDFile and Ms100Task): where the card refuses
\* no entry, the file a log is started in has no lines yet.  The code does not
\* provide it: after a restart the first names are in use, and in the end no
\* name is left.
NewLogStartsEmpty ==
    [][~refused' /\ opened' # opened => rows[handle'] = <<>>]_files

=============================================================================
