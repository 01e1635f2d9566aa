---------------------------- MODULE LoggerProofs ----------------------------
(* Proofs about Logger: for every Timeout, and every number of own names,  *)
(* tails and FileIDs of the log files.                                     *)
EXTENDS Logger, SequenceTheorems, TLAPS

-----------------------------------------------------------------------------
(* The log files alone                                                     *)

\* build_short_name gives a well-formed 8.3 name.
LEMMA NamesTyped ==
    ASSUME NEW f \in Ids, NEW n \in 1 .. Slots
    PROVE  build_short_name(f, n) \in ShortName83 /\ build_short_name(f, n) # Absent
BY NamesAssumption DEF Ids, build_short_name, ShortName83, Absent

\* FileID wraps within its type.
LEMMA NextIdTyped == FileID \in Ids => NextFileID \in Ids
BY NamesAssumption DEF Ids, NextFileID

\* What Written returns: the same lines, but for the one at the position.
LEMMA WrittenLines ==
    ASSUME NEW s \in Seq(Row), NEW l \in Row, position \in Nat
    PROVE  /\ Written(s, l) \in Seq(Row)
           /\ position < Len(s) => Len(Written(s, l)) = Len(s)
           /\ position >= Len(s) => Len(Written(s, l)) = Len(s) + 1
           /\ \A i \in 1 .. Len(s) : i # position + 1 => Written(s, l)[i] = s[i]
           /\ position <= Len(s) => Written(s, l)[position + 1] = l
<1>1. CASE position < Len(s)
    <2>1. position + 1 \in 1 .. Len(s) /\ Len(s) \in Nat
        BY <1>1, LenProperties
    <2> QED
        BY <1>1, <2>1, ExceptSeq DEF Written
<1>2. CASE ~(position < Len(s))
    <2>1. Len(s) \in Nat /\ Written(s, l) = Append(s, l)
        BY <1>2, LenProperties DEF Written
    <2> QED
        BY <1>2, <2>1, AppendProperties
<1> QED
    BY <1>1, <1>2

-----------------------------------------------------------------------------
(* Type correctness                                                        *)

\* The types hold at power-on.
LEMMA FilesTypeInit == FilesInit => FilesTypeOK
BY NamesAssumption DEF FilesInit, FilesTypeOK, Ids, NoFile

\* CreateFile keeps the types, whichever of its four ways it ends.
LEMMA CreateFileTyped == FilesTypeOK /\ CreateFile => FilesTypeOK'
<1> SUFFICES ASSUME FilesTypeOK, CreateFile PROVE FilesTypeOK'
    OBVIOUS
<1>1. FileID' \in Ids /\ restarted' \in BOOLEAN
    BY NextIdTyped DEF CreateFile, FilesTypeOK
<1>2. CASE FileExists
    <2>1. /\ handle' \in Ids /\ position' = 0 /\ opened' \in Nat
          /\ cwd' = cwd /\ rows' = rows /\ refused' = refused
        BY <1>2 DEF FileExists, fat_open, FilesTypeOK
    <2> QED
        BY <1>1, <2>1 DEF FilesTypeOK
<1>3. CASE NewEntry
    <2>1. PICK n \in 1 .. Slots : cwd' = [cwd EXCEPT ![FileID] = build_short_name(FileID, n)]
        BY <1>3 DEF NewEntry
    <2>2. cwd' \in [Ids -> ShortName83 \cup {Absent}]
        BY <2>1, NamesTyped DEF FilesTypeOK
    <2>3. /\ handle' \in Ids /\ position' = 0 /\ opened' \in Nat
          /\ rows' = rows /\ refused' = refused
        BY <1>3 DEF NewEntry, fat_open, FilesTypeOK
    <2> QED
        BY <1>1, <2>2, <2>3 DEF FilesTypeOK
<1>4. ASSUME NEW n \in 1 .. Slots + 1, LeftByProbing(FileID, n),
             refused' \in BOOLEAN, UNCHANGED <<cwd, rows>>
      PROVE  FilesTypeOK'
    <2>1. handle' \in Ids \cup {NoFile} /\ position' \in Nat /\ opened' \in Nat
        BY <1>4 DEF LeftByProbing, fat_open, FilesTypeOK
    <2> QED
        BY <1>1, <1>4, <2>1 DEF FilesTypeOK
<1>5. CASE NoShortName
    <2>1. /\ LeftByProbing(FileID, Slots + 1) /\ refused' = refused
          /\ UNCHANGED <<cwd, rows>>
        BY <1>5 DEF NoShortName
    <2>2. refused' \in BOOLEAN /\ Slots + 1 \in 1 .. Slots + 1
        BY <2>1, NamesAssumption DEF FilesTypeOK
    <2> QED
        BY <1>4, <2>1, <2>2
<1>6. CASE EntryRefused
    <2>1. PICK n \in 1 .. Slots : LeftByProbing(FileID, n)
        BY <1>6 DEF EntryRefused
    <2>2. refused' \in BOOLEAN /\ UNCHANGED <<cwd, rows>> /\ n \in 1 .. Slots + 1
        BY <1>6, NamesAssumption DEF EntryRefused
    <2> QED
        BY <1>4, <2>1, <2>2
<1> QED
    BY <1>2, <1>3, <1>5, <1>6 DEF CreateFile

\* WriteToFile keeps the types.
LEMMA WriteTyped == FilesTypeOK => \A l \in Lines : WriteToFile(l) => FilesTypeOK'
<1> SUFFICES ASSUME FilesTypeOK, NEW l \in Lines, WriteToFile(l) PROVE FilesTypeOK'
    OBVIOUS
<1>1. handle \in Ids /\ position \in Nat /\ rows[handle] \in Seq(Row)
    BY DEF WriteToFile, FilesTypeOK
<1>2. [log |-> opened, line |-> l] \in Row
    BY DEF FilesTypeOK, Row
<1>3. Written(rows[handle], [log |-> opened, line |-> l]) \in Seq(Row)
    BY <1>1, <1>2, WrittenLines
<1>4. rows' \in [Ids -> Seq(Row)]
    BY <1>1, <1>3 DEF WriteToFile, FilesTypeOK
<1>5. position' \in Nat /\ UNCHANGED <<FileID, cwd, handle, opened, refused, restarted>>
    BY <1>1 DEF WriteToFile
<1> QED
    BY <1>4, <1>5 DEF FilesTypeOK

\* Every step of the log files keeps the types.
LEMMA FilesTypeStep == FilesTypeOK /\ [FilesNext]_files => FilesTypeOK'
<1> SUFFICES ASSUME FilesTypeOK, [FilesNext]_files PROVE FilesTypeOK'
    OBVIOUS
<1>1. CASE CreateFile
    BY <1>1, CreateFileTyped
<1>2. ASSUME NEW l \in Lines, WriteToFile(l) PROVE FilesTypeOK'
    BY <1>2, WriteTyped
<1>3. CASE PowerCycle
    BY <1>3, NamesAssumption DEF PowerCycle, FilesTypeOK, Ids
<1>4. CASE UNCHANGED files
    BY <1>4 DEF files, FilesTypeOK
<1> QED
    BY <1>1, <1>2, <1>3, <1>4 DEF FilesNext

\* The state of the log files keeps its types.
THEOREM FilesTypeCorrect == FilesSpec => []FilesTypeOK
BY FilesTypeInit, FilesTypeStep, PTL DEF FilesSpec

-----------------------------------------------------------------------------
(* Unique 8.3 names                                                        *)

\* A new entry takes a name that was free: the probing preserves uniqueness.
LEMMA UniqueStep ==
    FilesTypeOK /\ ShortNamesUnique /\ [FilesNext]_files => ShortNamesUnique'
<1> SUFFICES ASSUME FilesTypeOK, ShortNamesUnique, [FilesNext]_files
             PROVE  ShortNamesUnique'
    OBVIOUS
<1>1. CASE cwd' = cwd
    BY <1>1 DEF ShortNamesUnique
<1>2. CASE CreateFile /\ NewEntry
    <2>1. PICK n \in 1 .. Slots :
              /\ Wins(FileID, n)
              /\ cwd' = [cwd EXCEPT ![FileID] = build_short_name(FileID, n)]
        BY <1>2 DEF NewEntry
    <2>2. \A f \in Ids : cwd[f] # build_short_name(FileID, n)
        BY <2>1 DEF Wins, Taken
    <2> QED
        BY <2>1, <2>2 DEF ShortNamesUnique, FilesTypeOK
<1>3. CASE CreateFile /\ ~NewEntry
    BY <1>1, <1>3 DEF CreateFile, FileExists, NoShortName, EntryRefused
<1>4. ASSUME NEW l \in Lines, WriteToFile(l) PROVE ShortNamesUnique'
    BY <1>1, <1>4 DEF WriteToFile
<1>5. CASE PowerCycle \/ UNCHANGED files
    BY <1>1, <1>5 DEF PowerCycle, files
<1> QED
    BY <1>2, <1>3, <1>4, <1>5 DEF FilesNext

\* No sequence of creations, refusals, restarts and wrap-arounds of FileID
\* files two logs under one 8.3 name.
THEOREM UniqueNames == FilesSpec => []ShortNamesUnique
<1>1. FilesInit => ShortNamesUnique
    BY DEF FilesInit, ShortNamesUnique
<1> QED
    BY <1>1, UniqueStep, FilesTypeCorrect, PTL DEF FilesSpec

-----------------------------------------------------------------------------
(* Newest lines first                                                      *)

\* What makes NewestFirst inductive: no line is newer than the current log,
\* and what lies before the position was written by the current log.
WritingPoint ==
    /\ \A f \in Ids : \A i \in 1 .. Len(rows[f]) : rows[f][i].log <= opened
    /\ handle # NoFile =>
          /\ position <= Len(rows[handle])
          /\ \A i \in 1 .. position : rows[handle][i].log = opened

NewestInv == NewestFirst /\ WritingPoint

\* A step that leaves the lines alone and, if it moves the handle or names a
\* new log, rewinds.
LEMMA NewestRewind ==
    FilesTypeOK /\ NewestInv /\ rows' = rows /\ opened' \in {opened, opened + 1}
        /\ (handle' = NoFile \/ position' = 0 \/ UNCHANGED <<handle, position, opened>>)
        /\ handle' \in Ids \cup {NoFile}
    => NewestInv'
<1> SUFFICES ASSUME FilesTypeOK, NewestInv, rows' = rows, opened' \in {opened, opened + 1},
                    handle' = NoFile \/ position' = 0 \/ UNCHANGED <<handle, position, opened>>,
                    handle' \in Ids \cup {NoFile}
             PROVE  NewestInv'
    OBVIOUS
<1>1. NewestFirst'
    BY DEF NewestInv, NewestFirst
<1>2. \A f \in Ids : Len(rows[f]) \in Nat /\ \A i \in 1 .. Len(rows[f]) : rows[f][i] \in Row
    BY LenProperties, ElementOfSeq DEF FilesTypeOK
<1>3. \A f \in Ids : \A i \in 1 .. Len(rows[f]) : rows[f][i].log \in Nat
    BY <1>2 DEF Row
<1>4. opened \in Nat
    BY DEF FilesTypeOK
<1>5. \A f \in Ids : \A i \in 1 .. Len(rows'[f]) : rows'[f][i].log <= opened'
    BY <1>3, <1>4 DEF NewestInv, WritingPoint
<1>6. handle' # NoFile => /\ position' <= Len(rows'[handle'])
                          /\ \A i \in 1 .. position' : rows'[handle'][i].log = opened'
    <2>1. CASE handle' = NoFile
        BY <2>1
    <2>2. CASE position' = 0
        BY <1>2, <2>2
    <2>3. CASE UNCHANGED <<handle, position, opened>>
        BY <2>3 DEF NewestInv, WritingPoint
    <2> QED
        BY <2>1, <2>2, <2>3
<1> QED
    BY <1>1, <1>5, <1>6 DEF NewestInv, WritingPoint, NoFile, Ids

\* Writing at the handle replaces or appends a line of the newest log, after
\* lines of that log only.
LEMMA NewestWrite ==
    FilesTypeOK /\ NewestInv => \A l \in Lines : WriteToFile(l) => NewestInv'
<1> SUFFICES ASSUME FilesTypeOK, NewestInv, NEW l \in Lines, WriteToFile(l)
             PROVE  NewestInv'
    OBVIOUS
<1> DEFINE s == rows[handle]
           new == [log |-> opened, line |-> l]
           t == Written(s, new)
<1>1. handle \in Ids /\ position \in Nat /\ s \in Seq(Row) /\ opened \in Nat
    BY DEF WriteToFile, FilesTypeOK
<1>2. new \in Row /\ new.log = opened
    BY <1>1 DEF Row
<1>3. position <= Len(s) /\ \A i \in 1 .. position : s[i].log = opened
    BY DEF NewestInv, WritingPoint, WriteToFile
<1>4. /\ t \in Seq(Row)
      /\ position < Len(s) => Len(t) = Len(s)
      /\ position >= Len(s) => Len(t) = Len(s) + 1
      /\ \A i \in 1 .. Len(s) : i # position + 1 => t[i] = s[i]
      /\ t[position + 1] = new
    BY <1>1, <1>2, <1>3, WrittenLines
<1>5. Len(s) \in Nat /\ Len(t) \in Nat
    BY <1>1, <1>4, LenProperties
<1>6. \A i \in 1 .. Len(t) : i = position + 1 \/ (i \in 1 .. Len(s) /\ t[i] = s[i])
    BY <1>1, <1>3, <1>4, <1>5
<1>7. position + 1 <= Len(t) /\ \A i \in 1 .. position + 1 : t[i].log = opened
    BY <1>1, <1>2, <1>3, <1>4, <1>5
<1>8. \A i \in 1 .. Len(s) : s[i].log <= opened /\ s[i].log \in Nat
    <2>1. \A i \in 1 .. Len(s) : s[i] \in Row
        BY <1>1, ElementOfSeq
    <2> QED
        BY <1>1, <2>1 DEF NewestInv, WritingPoint, Row
<1>9. \A i \in 1 .. Len(t) : t[i].log <= opened
    BY <1>1, <1>2, <1>4, <1>6, <1>8
<1>10. DOMAIN s = 1 .. Len(s) /\ DOMAIN t = 1 .. Len(t)
    BY <1>1, <1>4, LenProperties
<1>11. \A i, j \in DOMAIN t : i < j => t[j].log <= t[i].log
    <2> SUFFICES ASSUME NEW i \in 1 .. Len(t), NEW j \in 1 .. Len(t), i < j
                 PROVE  t[j].log <= t[i].log
        BY <1>10
    <2>1. CASE i <= position + 1
        BY <1>1, <1>7, <1>9, <2>1
    <2>2. CASE i > position + 1
        <3>1. i \in 1 .. Len(s) /\ j \in 1 .. Len(s) /\ t[i] = s[i] /\ t[j] = s[j]
            BY <1>1, <1>5, <1>6, <2>2
        <3> QED
            BY <1>1, <1>10, <3>1 DEF NewestInv, NewestFirst
    <2> QED
        BY <1>1, <2>1, <2>2
<1>12. rows' = [rows EXCEPT ![handle] = t] /\ opened' = opened /\ handle' = handle
       /\ position' = position + 1
    BY DEF WriteToFile
<1>13. rows'[handle] = t /\ \A f \in Ids \ {handle} : rows'[f] = rows[f]
    BY <1>1, <1>12 DEF FilesTypeOK
<1> HIDE DEF t, s
<1>14. NewestFirst'
    <2> SUFFICES ASSUME NEW f \in Ids
                 PROVE  \A i, j \in DOMAIN rows'[f] : i < j => rows'[f][j].log <= rows'[f][i].log
        BY DEF NewestFirst
    <2> QED
        BY <1>11, <1>13 DEF NewestInv, NewestFirst
<1>15. WritingPoint'
    BY <1>1, <1>7, <1>9, <1>12, <1>13 DEF NewestInv, WritingPoint
<1> QED
    BY <1>14, <1>15 DEF NewestInv

\* NewestInv is inductive.
LEMMA NewestStep == FilesTypeOK /\ NewestInv /\ [FilesNext]_files => NewestInv'
<1> SUFFICES ASSUME FilesTypeOK, NewestInv, [FilesNext]_files PROVE NewestInv'
    OBVIOUS
<1>1. CASE CreateFile
    <2>1. handle' \in Ids \cup {NoFile}
        BY <1>1, CreateFileTyped DEF FilesTypeOK
    <2>2. ASSUME NEW n \in 1 .. Slots + 1, LeftByProbing(FileID, n)
          PROVE  (position' = 0 /\ opened' = opened + 1) \/ UNCHANGED <<handle, position, opened>>
        BY <2>2 DEF LeftByProbing, fat_open
    <2>3. /\ rows' = rows
          /\ (position' = 0 /\ opened' = opened + 1) \/ UNCHANGED <<handle, position, opened>>
        <3>1. CASE FileExists \/ NewEntry
            BY <3>1 DEF FileExists, NewEntry, fat_open
        <3>2. CASE NoShortName
            BY <2>2, <3>2, NamesAssumption DEF NoShortName
        <3>3. CASE EntryRefused
            BY <2>2, <3>3, NamesAssumption DEF EntryRefused
        <3> QED
            BY <1>1, <3>1, <3>2, <3>3 DEF CreateFile
    <2> QED
        BY <2>1, <2>3, NewestRewind
<1>2. ASSUME NEW l \in Lines, WriteToFile(l) PROVE NewestInv'
    BY <1>2, NewestWrite
<1>3. CASE PowerCycle
    BY <1>3, NewestRewind DEF PowerCycle
<1>4. CASE UNCHANGED files
    BY <1>4, NewestRewind DEF files, FilesTypeOK
<1> QED
    BY <1>1, <1>2, <1>3, <1>4 DEF FilesNext

\* A log file lists its logs from the newest to the oldest, each one in one
\* run of lines: what reopening a file at position 0 does to it.
THEOREM NewestLinesFirst == FilesSpec => []NewestFirst
<1>1. FilesInit => NewestInv
    BY DEF FilesInit, NewestInv, NewestFirst, WritingPoint
<1>2. NewestInv => NewestFirst
    BY DEF NewestInv
<1> QED
    BY <1>1, <1>2, NewestStep, FilesTypeCorrect, PTL DEF FilesSpec

-----------------------------------------------------------------------------
(* The first Direct + Slots logs                                           *)

\* The 8.3 name the f-th log gets as long as nothing has gone wrong.
OrderlyName(f) == build_short_name(f, f - Direct + 1)

\* While a fresh card is used within its capacity, logs and files are one and
\* the same: files are made in order, each with its tail, and the handle is at
\* the end of the last one.
Orderly ==
    /\ opened < Direct + Slots => FileID = opened
    /\ \A f \in Ids : cwd[f] = IF f < opened THEN OrderlyName(f) ELSE Absent
    /\ \A f \in Ids : f >= opened => rows[f] = <<>>
    /\ handle # NoFile => handle < opened /\ position = Len(rows[handle])

Within == ~refused /\ ~restarted /\ opened <= Direct + Slots

OrderlyInv == Within => Orderly

\* Different files have different orderly names, none of them absent.
LEMMA OrderlyNames ==
    ASSUME NEW f \in Ids, NEW g \in Ids, f < Direct + Slots, g < Direct + Slots
    PROVE  /\ OrderlyName(f) # Absent
           /\ f # g => OrderlyName(f) # OrderlyName(g)
BY NamesAssumption DEF Ids, OrderlyName, build_short_name, Absent

\* The tails that compete for file f in an orderly directory.
LEMMA OrderlyWins ==
    ASSUME FilesTypeOK, Orderly, opened < Direct + Slots
    PROVE  /\ \A n \in 1 .. Slots :
                 Wins(FileID, n) => build_short_name(FileID, n) = OrderlyName(FileID)
           /\ ~Probes(FileID, Slots + 1)
<1>1. FileID = opened /\ FileID \in Ids /\ opened \in Nat /\ FileID < Direct + Slots
    BY DEF Orderly, FilesTypeOK
<1>2. \A f \in Ids : cwd[f] = OrderlyName(FileID) => FALSE
    <2> SUFFICES ASSUME NEW f \in Ids, cwd[f] = OrderlyName(FileID) PROVE FALSE
        OBVIOUS
    <2>1. f < opened /\ cwd[f] = OrderlyName(f)
        BY <1>1, OrderlyNames DEF Orderly
    <2> QED
        BY <1>1, <2>1, OrderlyNames, NamesAssumption DEF Ids
<1>3. ~Taken(OrderlyName(FileID))
    BY <1>2 DEF Taken
<1>4. CASE FileID < Direct
    <2>1. \A n : build_short_name(FileID, n) = OrderlyName(FileID)
        BY <1>4 DEF build_short_name, OrderlyName
    <2> QED
        BY <1>3, <2>1, NamesAssumption DEF Probes
<1>5. CASE ~(FileID < Direct)
    <2> DEFINE k == FileID - Direct + 1
    <2>1. k \in 1 .. Slots
        BY <1>1, <1>5, NamesAssumption
    <2>2. build_short_name(FileID, k) = OrderlyName(FileID)
        BY DEF OrderlyName
    <2>3. ASSUME NEW n \in 1 .. Slots, n < k
          PROVE  Taken(build_short_name(FileID, n))
        <3> DEFINE g == Direct + n - 1
        <3>1. g \in Ids /\ g < opened /\ ~(g < Direct)
            BY <1>1, <1>5, <2>3, NamesAssumption DEF Ids
        <3>2. cwd[g] = OrderlyName(g)
            BY <3>1 DEF Orderly
        <3>3. OrderlyName(g) = build_short_name(FileID, n)
            <4>1. g - Direct + 1 = n
                BY <2>3, NamesAssumption
            <4> QED
                BY <1>5, <3>1, <4>1 DEF OrderlyName, build_short_name
        <3> QED
            BY <3>1, <3>2, <3>3 DEF Taken
    <2>4. ~Probes(FileID, Slots + 1)
        BY <1>3, <2>1, <2>2, NamesAssumption DEF Probes
    <2>5. ASSUME NEW n \in 1 .. Slots, Wins(FileID, n)
          PROVE  n = k
        <3>1. ~(n < k)
            BY <2>3, <2>5 DEF Wins
        <3>2. ~(k < n)
            BY <1>3, <2>1, <2>2, <2>5 DEF Wins, Probes
        <3> QED
            BY <2>1, <3>1, <3>2
    <2> QED
        BY <2>2, <2>4, <2>5
<1> QED
    BY <1>4, <1>5

\* Within its capacity, CreateFile files the next log under the next name.
LEMMA OrderlyCreate ==
    FilesTypeOK /\ OrderlyInv /\ CreateFile => OrderlyInv' /\ (Within' => rows' = rows)
<1> SUFFICES ASSUME FilesTypeOK, OrderlyInv, CreateFile, Within'
             PROVE  Orderly' /\ rows' = rows
    BY DEF OrderlyInv, CreateFile, FileExists, NewEntry, NoShortName, EntryRefused
<1>1. ~EntryRefused /\ refused' = refused /\ restarted' = restarted
    BY DEF Within, EntryRefused, CreateFile, FileExists, NewEntry, NoShortName
<1>2. opened' = opened + 1 /\ opened \in Nat
    <2>1. CASE FileExists \/ NewEntry
        BY <2>1 DEF FileExists, NewEntry, fat_open, FilesTypeOK
    <2>2. CASE NoShortName
        BY <2>2, NamesAssumption DEF NoShortName, LeftByProbing, fat_open, FilesTypeOK
    <2> QED
        BY <1>1, <2>1, <2>2 DEF CreateFile
<1>3. opened < Direct + Slots /\ Within
    BY <1>1, <1>2, NamesAssumption DEF Within
<1>4. Orderly /\ FileID = opened /\ FileID \in Ids
    BY <1>3 DEF OrderlyInv, Orderly, FilesTypeOK
<1>5. cwd[FileID] = Absent /\ ~FileExists /\ ~NoShortName
    <2>1. cwd[FileID] = Absent
        BY <1>2, <1>4 DEF Orderly
    <2>2. ~Probes(FileID, Slots + 1)
        BY <1>3, <1>4, OrderlyWins
    <2> QED
        BY <2>1, <2>2 DEF FileExists, NoShortName
<1>6. NewEntry
    BY <1>1, <1>5 DEF CreateFile
<1>7. cwd' = [cwd EXCEPT ![FileID] = OrderlyName(FileID)]
    <2>1. PICK n \in 1 .. Slots :
              /\ Wins(FileID, n)
              /\ cwd' = [cwd EXCEPT ![FileID] = build_short_name(FileID, n)]
        BY <1>6 DEF NewEntry
    <2> QED
        BY <1>3, <1>4, <2>1, OrderlyWins
<1>8. handle' = FileID /\ position' = 0 /\ rows' = rows /\ rows[FileID] = <<>>
    BY <1>2, <1>4, <1>6 DEF NewEntry, fat_open, Orderly
<1>9. opened' < Direct + Slots => FileID' = opened'
    <2> SUFFICES ASSUME opened + 1 < Direct + Slots PROVE (FileID + 1) % IdMod = opened + 1
        BY <1>2 DEF CreateFile, NextFileID
    <2> QED
        BY <1>2, <1>4, NamesAssumption
<1>10. \A f \in Ids : cwd'[f] = IF f < opened' THEN OrderlyName(f) ELSE Absent
    BY <1>2, <1>4, <1>7 DEF Orderly, FilesTypeOK, Ids
<1>11. \A f \in Ids : f >= opened' => rows'[f] = <<>>
    BY <1>2, <1>4, <1>8 DEF Orderly, Ids
<1>12. handle' < opened' /\ position' = Len(rows'[handle'])
    BY <1>2, <1>4, <1>8
<1> QED
    BY <1>8, <1>9, <1>10, <1>11, <1>12 DEF Orderly

\* A file that is left alone keeps its lines.
LEMMA KeptSelf ==
    ASSUME NEW s \in Seq(Row) PROVE Kept(s, s)
BY LenProperties DEF Kept

\* Within its capacity, a line is appended to the file of its own log.
LEMMA OrderlyWrite ==
    FilesTypeOK /\ OrderlyInv =>
        \A l \in Lines : WriteToFile(l) =>
            OrderlyInv' /\ (Within' => \A f \in Ids : Kept(rows[f], rows'[f]))
<1> SUFFICES ASSUME FilesTypeOK, OrderlyInv, NEW l \in Lines, WriteToFile(l), Within'
             PROVE  Orderly' /\ \A f \in Ids : Kept(rows[f], rows'[f])
    BY DEF OrderlyInv
<1> DEFINE new == [log |-> opened, line |-> l]
<1>1. UNCHANGED <<FileID, cwd, handle, opened, refused, restarted>>
    BY DEF WriteToFile
<1>2. Orderly
    BY <1>1 DEF OrderlyInv, Within
<1>3. /\ handle \in Ids /\ handle # NoFile /\ opened \in Nat
      /\ rows[handle] \in Seq(Row) /\ new \in Row
    BY DEF WriteToFile, FilesTypeOK, Row
<1>4. position = Len(rows[handle])
    BY <1>2, <1>3 DEF Orderly
<1>5. rows'[handle] = Append(rows[handle], new) /\ \A f \in Ids \ {handle} : rows'[f] = rows[f]
    <2>1. ~(position < Len(rows[handle]))
        BY <1>3, <1>4, LenProperties
    <2> QED
        BY <1>3, <2>1 DEF WriteToFile, Written, FilesTypeOK
<1>6. Len(rows'[handle]) = Len(rows[handle]) + 1 /\ Kept(rows[handle], rows'[handle])
    BY <1>3, <1>5, AppendProperties, LenProperties DEF Kept
<1>7. \A f \in Ids : Kept(rows[f], rows'[f])
    BY <1>5, <1>6, KeptSelf DEF FilesTypeOK
<1>8. handle < opened
    BY <1>2, <1>3 DEF Orderly
<1>9. position' = Len(rows'[handle]) /\ \A f \in Ids : f >= opened => rows'[f] = <<>>
    <2>1. position' = position + 1
        BY DEF WriteToFile
    <2> QED
        BY <1>2, <1>3, <1>4, <1>5, <1>6, <1>8, <2>1 DEF Orderly, Ids
<1> QED
    BY <1>1, <1>2, <1>7, <1>8, <1>9 DEF Orderly

\* OrderlyInv is inductive, and its steps keep the lines already written.
LEMMA OrderlyStep ==
    FilesTypeOK /\ OrderlyInv /\ [FilesNext]_files
        => /\ OrderlyInv'
           /\ ~refused' /\ ~restarted' /\ opened' <= Direct + Slots
                => \A f \in Ids : Kept(rows[f], rows'[f])
<1> SUFFICES ASSUME FilesTypeOK, OrderlyInv, [FilesNext]_files
             PROVE  OrderlyInv' /\ (Within' => \A f \in Ids : Kept(rows[f], rows'[f]))
    BY DEF Within
<1>1. rows' = rows => \A f \in Ids : Kept(rows[f], rows'[f])
    BY KeptSelf DEF FilesTypeOK
<1>2. CASE CreateFile
    BY <1>1, <1>2, OrderlyCreate
<1>3. ASSUME NEW l \in Lines, WriteToFile(l)
      PROVE  OrderlyInv' /\ (Within' => \A f \in Ids : Kept(rows[f], rows'[f]))
    BY <1>3, OrderlyWrite
<1>4. CASE PowerCycle
    BY <1>4 DEF PowerCycle, OrderlyInv, Within
<1>5. CASE UNCHANGED files
    BY <1>1, <1>5 DEF files, OrderlyInv, Within, Orderly
<1> QED
    BY <1>2, <1>3, <1>4, <1>5 DEF FilesNext

\* On a fresh card that is not restarted and refuses no entry, no step changes
\* or removes a line while at most Direct + Slots logs have been started.
THEOREM FirstLogsKeepTheirLines == FilesSpec => FirstLogsSurvive
<1>1. FilesInit => OrderlyInv
    BY NamesAssumption DEF FilesInit, OrderlyInv, Orderly, NoFile, Ids
<1>2. FilesTypeOK /\ OrderlyInv /\ [FilesNext]_files
        => [~refused' /\ ~restarted' /\ opened' <= Direct + Slots
               => \A f \in Ids : Kept(rows[f], rows'[f])]_files
    BY OrderlyStep
<1> QED
    BY <1>1, <1>2, OrderlyStep, FilesTypeCorrect, PTL DEF FilesSpec, FirstLogsSurvive

-----------------------------------------------------------------------------
(* main.cpp around them                                                    *)

\* Everything but the log files themselves.
LoggerTypes ==
    /\ main \in Phases
    /\ pc \in CanSteps
    /\ BusId \in Buses
    /\ line \in Lines
    /\ Log_Modes \in LogModes
    /\ headerSent \in BOOLEAN
    /\ newFile \in BOOLEAN
    /\ timer1Sec \in 0 .. Timeout
    /\ FrameCounter \in Nat
    /\ Active \in [Buses -> BOOLEAN]
    /\ Logging \in LogModes
    /\ opmode \in {0, 1}
    /\ FrameCtr \in Nat
    /\ CANStat \in [Buses -> {0, 1}]
    /\ USBStat \in {0, 1}
    /\ usb_connected \in BOOLEAN
    /\ fault \in {"none", "nullHandle", "unmounted", "tornMkdir", "torn"}
    /\ rx \in Nat
    /\ boots \in Nat
    /\ quiet \in 0 .. Timeout + 1
    /\ raced \in BOOLEAN
    /\ steady \in BOOLEAN

\* The type invariant is that of the files and that of main.cpp.
LEMMA LoggerTypeSplit == LoggerTypeOK <=> FilesTypeOK /\ LoggerTypes
BY DEF LoggerTypeOK, LoggerTypes

-----------------------------------------------------------------------------
(* What a step of main.cpp does to the log files                           *)

\* Ms100Task at the timeout: no new file, or CreateFile, or a fault.
LEMMA TimeoutFiles ==
    TimeoutExpires => UNCHANGED files \/ (CreateFile /\ fault' = "none" /\ ~newFile)
BY DEF TimeoutExpires, newSDFile, CreatesFile

\* Every step of the logger is a step of its log files, or leaves them alone.
LEMMA FilesStep == LoggerTypes /\ [Next]_vars => [FilesNext]_files
<1> SUFFICES ASSUME LoggerTypes, [Next]_vars PROVE [FilesNext]_files
    OBVIOUS
<1>1. ASSUME NEW b \in Buses, CanCallback(b) PROVE UNCHANGED files
    BY <1>1 DEF CanCallback
<1>2. CASE EndWrite
    BY <1>2 DEF EndWrite, FilesNext, LoggerTypes
<1>3. CASE CanStep /\ ~EndWrite
    BY <1>3 DEF CanStep, ChooseLine, MarkHeader, ReadMode, StandbyMode, LoggingMode,
                SetOpmode, SendUsb, StartWrite, ClearNewFile, ResetTimer, SetActive,
                CountFrame
<1>4. CASE Ms100Task
    BY <1>4, TimeoutFiles DEF Ms100Task, CountDown, FilesNext
<1>5. CASE Ms10Task
    BY <1>5 DEF Ms10Task
<1>6. CASE AddTasks \/ sdDrvInit \/ OpenFatInit \/ CreateDir
    BY <1>6 DEF AddTasks, sdDrvInit, OpenFatInit, CreateDir, Boots
<1>7. ASSUME NEW m \in LogModes, SetLogging(m) PROVE UNCHANGED files
    BY <1>7 DEF SetLogging
<1>8. ASSUME NEW up \in BOOLEAN, UsbEvent(up) PROVE UNCHANGED files
    BY <1>8 DEF UsbEvent
<1>9. CASE Restart
    BY <1>9 DEF Restart, FilesNext
<1>10. CASE UNCHANGED vars
    BY <1>10 DEF vars
<1> QED
    BY <1>1, <1>2, <1>3, <1>4, <1>5, <1>6, <1>7, <1>8, <1>9, <1>10 DEF Next

-----------------------------------------------------------------------------
(* Type correctness                                                        *)

\* The steps of a CAN callback keep the types.
LEMMA CanStepTypes == LoggerTypes /\ CanStep => LoggerTypes'
<1> SUFFICES ASSUME LoggerTypes, CanStep PROVE LoggerTypes'
    OBVIOUS
<1> USE DEF Step, locals, statics, outside, CanSteps, LoggerTypes
<1>1. CASE ChooseLine
    BY <1>1 DEF ChooseLine, Lines
<1>2. CASE MarkHeader
    BY <1>2 DEF MarkHeader
<1>3. CASE ReadMode
    BY <1>3 DEF ReadMode
<1>4. CASE StandbyMode \/ LoggingMode
    BY <1>4 DEF StandbyMode, LoggingMode, SetOpmode
<1>5. CASE SendUsb
    BY <1>5 DEF SendUsb
<1>6. CASE StartWrite
    BY <1>6 DEF StartWrite
<1>7. CASE EndWrite
    BY <1>7 DEF EndWrite
<1>8. CASE ClearNewFile
    BY <1>8 DEF ClearNewFile
<1>9. CASE ResetTimer
    BY <1>9, TimeoutAssumption DEF ResetTimer
<1>10. CASE SetActive
    BY <1>10 DEF SetActive
<1>11. CASE CountFrame
    BY <1>11 DEF CountFrame
<1> QED
    BY <1>1, <1>2, <1>3, <1>4, <1>5, <1>6, <1>7, <1>8, <1>9, <1>10, <1>11 DEF CanStep

\* The 100 ms task keeps the types: timer1Sec is reloaded before it would wrap.
LEMMA Ms100TaskTypes == LoggerTypes /\ Ms100Task => LoggerTypes'
<1> SUFFICES ASSUME LoggerTypes, Ms100Task PROVE LoggerTypes'
    OBVIOUS
<1>1. /\ UNCHANGED <<main, pc, locals, FrameCounter, Logging, FrameCtr, usb_connected,
                     rx, boots, steady>>
      /\ USBStat' \in {0, 1}
    BY DEF Ms100Task
<1>2. CANStat' \in [Buses -> {0, 1}] /\ Active' \in [Buses -> BOOLEAN]
    BY DEF Ms100Task, UpdateCanStats, AllBuses
<1>3. quiet' \in 0 .. Timeout + 1
    BY TimeoutAssumption DEF Ms100Task, LoggerTypes
<1>4. /\ headerSent' \in BOOLEAN /\ newFile' \in BOOLEAN /\ timer1Sec' \in 0 .. Timeout
      /\ opmode' \in {0, 1} /\ raced' \in BOOLEAN
      /\ fault' \in {"none", "nullHandle", "unmounted", "tornMkdir", "torn"}
    <2>1. CASE TimeoutExpires
        <3>0. raced' = (raced \/ pc # "idle")
            BY <2>1, Zenon DEF TimeoutExpires
        <3>1. raced' \in BOOLEAN
            BY <3>0 DEF LoggerTypes
        <3>2. newFile' \in BOOLEAN
            BY <2>1 DEF TimeoutExpires, newSDFile, LoggerTypes
        <3>3. fault' \in {"none", "nullHandle", "unmounted", "tornMkdir", "torn"}
            BY <2>1 DEF TimeoutExpires, newSDFile, CreatesFile, LoggerTypes
        <3>4. headerSent' = FALSE /\ timer1Sec' = Timeout - 1 /\ opmode' = 0
            BY <2>1, Zenon DEF TimeoutExpires
        <3>5. timer1Sec' \in 0 .. Timeout
            BY <3>4, TimeoutAssumption
        <3>6. headerSent' \in BOOLEAN /\ opmode' \in {0, 1}
            BY <3>4
        <3> QED
            BY <3>1, <3>2, <3>3, <3>5, <3>6
    <2>2. CASE CountDown
        BY <2>2, TimeoutAssumption DEF CountDown, LoggerTypes
    <2> QED
        BY <2>1, <2>2 DEF Ms100Task
<1> QED
    BY <1>1, <1>2, <1>3, <1>4 DEF LoggerTypes, locals

\* Every step of the logger keeps the types.
LEMMA LoggerTypesStep == LoggerTypes /\ [Next]_vars => LoggerTypes'
<1> SUFFICES ASSUME LoggerTypes, [Next]_vars PROVE LoggerTypes'
    OBVIOUS
<1>1. ASSUME NEW b \in Buses, CanCallback(b) PROVE LoggerTypes'
    BY <1>1 DEF CanCallback, Step, CanSteps, LoggerTypes, statics, outside
<1>2. CASE CanStep
    BY <1>2, CanStepTypes
<1>3. CASE Ms100Task
    BY <1>3, Ms100TaskTypes
<1>4. CASE Ms10Task
    BY <1>4 DEF Ms10Task, LoggerTypes, locals, statics
<1>5. CASE AddTasks \/ sdDrvInit \/ OpenFatInit \/ CreateDir
    BY <1>5 DEF AddTasks, sdDrvInit, OpenFatInit, CreateDir, Boots, LoggerTypes, Phases,
                locals, statics
<1>6. ASSUME NEW m \in LogModes, SetLogging(m) PROVE LoggerTypes'
    BY <1>6 DEF SetLogging, LoggerTypes, locals, statics
<1>7. ASSUME NEW up \in BOOLEAN, UsbEvent(up) PROVE LoggerTypes'
    BY <1>7 DEF UsbEvent, LoggerTypes, locals, statics
<1>8. CASE Restart
    <2>0. steady' = (steady /\ Logging' \in SdModes)
        BY <1>8, Zenon DEF Restart
    <2>1. steady' \in BOOLEAN
        BY <2>0
    <2>2. Active' \in [Buses -> BOOLEAN] /\ CANStat' \in [Buses -> {0, 1}]
        BY <1>8 DEF Restart, AllBuses
    <2>3. /\ main' \in Phases /\ pc' \in CanSteps /\ BusId' \in Buses /\ line' \in Lines
          /\ Log_Modes' \in LogModes /\ Logging' \in LogModes
        BY <1>8 DEF Restart, Phases, CanSteps, Buses, Lines, LogModes
    <2>4. /\ headerSent' = FALSE /\ newFile' = FALSE /\ timer1Sec' = Timeout
          /\ FrameCounter' = 0 /\ opmode' = 0 /\ FrameCtr' = 0 /\ USBStat' = 0
          /\ usb_connected' = FALSE /\ fault' = fault /\ rx' = 0
          /\ boots' = boots + 1 /\ quiet' = 0 /\ raced' = raced
        BY <1>8, Zenon DEF Restart
    <2>5. timer1Sec' \in 0 .. Timeout /\ quiet' \in 0 .. Timeout + 1 /\ boots' \in Nat
          /\ rx' \in Nat /\ FrameCounter' \in Nat /\ FrameCtr' \in Nat
        BY <2>4, TimeoutAssumption DEF LoggerTypes
    <2>6. /\ headerSent' \in BOOLEAN /\ newFile' \in BOOLEAN /\ opmode' \in {0, 1}
          /\ USBStat' \in {0, 1} /\ usb_connected' \in BOOLEAN /\ raced' \in BOOLEAN
          /\ fault' \in {"none", "nullHandle", "unmounted", "tornMkdir", "torn"}
        BY <2>4 DEF LoggerTypes
    <2> QED
        BY <2>1, <2>2, <2>3, <2>5, <2>6 DEF LoggerTypes
<1>9. CASE UNCHANGED vars
    BY <1>9 DEF vars, LoggerTypes, locals, statics, outside
<1> QED
    BY <1>1, <1>2, <1>3, <1>4, <1>5, <1>6, <1>7, <1>8, <1>9 DEF Next

\* The types hold at power-on.
LEMMA LoggerTypesInit == Init => LoggerTypes
<1> SUFFICES ASSUME Init PROVE LoggerTypes
    OBVIOUS
<1>0. steady = (Logging \in SdModes)
    BY Zenon DEF Init
<1>1. steady \in BOOLEAN
    BY <1>0
<1>2. Active \in [Buses -> BOOLEAN] /\ CANStat \in [Buses -> {0, 1}]
    BY DEF Init, AllBuses
<1>3. /\ main \in Phases /\ pc \in CanSteps /\ BusId \in Buses /\ line \in Lines
      /\ Log_Modes \in LogModes /\ Logging \in LogModes
    BY DEF Init, Phases, CanSteps, Buses, Lines, LogModes
<1>4. /\ headerSent = FALSE /\ newFile = FALSE /\ timer1Sec = Timeout
      /\ FrameCounter = 0 /\ opmode = 0 /\ FrameCtr = 0 /\ USBStat = 0
      /\ usb_connected = FALSE /\ fault = "none" /\ rx = 0 /\ boots = 0
      /\ quiet = 0 /\ raced = FALSE
    BY Zenon DEF Init
<1>5. timer1Sec \in 0 .. Timeout /\ quiet \in 0 .. Timeout + 1 /\ boots \in Nat
      /\ rx \in Nat /\ FrameCounter \in Nat /\ FrameCtr \in Nat
    BY <1>4, TimeoutAssumption
<1>6. /\ headerSent \in BOOLEAN /\ newFile \in BOOLEAN /\ opmode \in {0, 1}
      /\ USBStat \in {0, 1} /\ usb_connected \in BOOLEAN /\ raced \in BOOLEAN
      /\ fault \in {"none", "nullHandle", "unmounted", "tornMkdir", "torn"}
    BY <1>4
<1> QED
    BY <1>1, <1>2, <1>3, <1>5, <1>6 DEF LoggerTypes

\* The logger keeps its types: in particular timer1Sec, an unsigned byte that
\* is decremented on every tick, never goes below zero or above Timeout.
THEOREM LoggerTypeCorrect == Spec => []LoggerTypeOK
<1>1. Init => FilesTypeOK /\ LoggerTypes
    BY LoggerTypesInit, FilesTypeInit DEF Init
<1>2. FilesTypeOK /\ LoggerTypes /\ [Next]_vars => FilesTypeOK' /\ LoggerTypes'
    BY FilesStep, FilesTypeStep, LoggerTypesStep
<1> QED
    BY <1>1, <1>2, LoggerTypeSplit, PTL DEF Spec

\* The logger uses its files only as LogFiles says: what is proved of LogFiles
\* holds of the logger.
THEOREM LoggerImplementsLogFiles == Spec => FilesSpec
<1>1. Init => FilesInit
    BY DEF Init
<1> QED
    BY <1>1, FilesStep, LoggerTypesInit, LoggerTypesStep, PTL DEF Spec, FilesSpec

\* No two log files of the logger share an 8.3 name.
COROLLARY LoggerNamesUnique == Spec => []ShortNamesUnique
BY LoggerImplementsLogFiles, UniqueNames, PTL

\* The logger's files list their logs from the newest to the oldest.
COROLLARY LoggerNewestFirst == Spec => []NewestFirst
BY LoggerImplementsLogFiles, NewestLinesFirst, PTL

\* Whenever the CAN callbacks and the tasks run, and in whatever order, the
\* first 19 logs on a fresh card keep their lines until a restart.
COROLLARY LoggerKeepsFirstLogs == Spec => FirstLogsSurvive
BY LoggerImplementsLogFiles, FirstLogsKeepTheirLines, PTL

-----------------------------------------------------------------------------
(* When a file is started                                                  *)

\* The ticks counted down are the silent ticks: timer1Sec cannot reach zero
\* before Timeout of them.
QuietInv == quiet <= Timeout => timer1Sec + quiet = Timeout

\* A tick counts down once and up once.
LEMMA QuietTick ==
    LoggerTypes /\ QuietInv /\ Ms100Task
        => QuietInv' /\ (opened' # opened => quiet' > Timeout)
<1> SUFFICES ASSUME LoggerTypes, QuietInv, Ms100Task
             PROVE  QuietInv' /\ (opened' # opened => quiet' > Timeout)
    OBVIOUS
<1>1. /\ timer1Sec \in 0 .. Timeout /\ quiet \in 0 .. Timeout + 1
      /\ Timeout \in Nat \ {0}
    BY TimeoutAssumption DEF LoggerTypes
<1>2. quiet' = IF quiet > Timeout THEN quiet ELSE quiet + 1
    BY DEF Ms100Task
<1>3. CASE TimeoutExpires
    <2>1. timer1Sec = 0
        BY <1>3 DEF TimeoutExpires
    <2>2. quiet' > Timeout
        BY <1>1, <1>2, <2>1 DEF QuietInv
    <2> QED
        BY <1>1, <1>2, <2>2 DEF QuietInv
<1>4. CASE CountDown
    <2>1. timer1Sec' = timer1Sec - 1 /\ timer1Sec > 0 /\ opened' = opened
        BY <1>4 DEF CountDown, files
    <2> QED
        BY <1>1, <1>2, <2>1 DEF QuietInv
<1> QED
    BY <1>3, <1>4 DEF Ms100Task

\* Any other step leaves both counts alone, or resets both.
LEMMA QuietOther ==
    [Next]_vars /\ ~Ms100Task
        => /\ opened' = opened
           /\ \/ UNCHANGED <<timer1Sec, quiet>>
              \/ timer1Sec' = Timeout /\ quiet' = 0
<1> SUFFICES ASSUME [Next]_vars, ~Ms100Task
             PROVE  /\ opened' = opened
                    /\ \/ UNCHANGED <<timer1Sec, quiet>>
                       \/ timer1Sec' = Timeout /\ quiet' = 0
    OBVIOUS
<1> USE DEF files, statics
<1>1. CASE \E b \in Buses : CanCallback(b)
    BY <1>1 DEF CanCallback
<1>2. CASE EndWrite
    BY <1>2 DEF EndWrite, WriteToFile
<1>3. CASE CanStep /\ ~EndWrite
    BY <1>3 DEF CanStep, ChooseLine, MarkHeader, ReadMode, StandbyMode, LoggingMode,
                SetOpmode, SendUsb, StartWrite, ClearNewFile, ResetTimer, SetActive,
                CountFrame
<1>4. CASE Ms10Task
    BY <1>4 DEF Ms10Task
<1>5. CASE AddTasks \/ sdDrvInit \/ OpenFatInit \/ CreateDir
    BY <1>5 DEF AddTasks, sdDrvInit, OpenFatInit, CreateDir, Boots
<1>6. CASE \E m \in LogModes : SetLogging(m)
    BY <1>6 DEF SetLogging
<1>7. CASE \E up \in BOOLEAN : UsbEvent(up)
    BY <1>7 DEF UsbEvent
<1>8. CASE Restart
    <2>1. timer1Sec' = Timeout /\ quiet' = 0 /\ PowerCycle
        BY <1>8, Zenon DEF Restart
    <2> QED
        BY <2>1 DEF PowerCycle
<1>9. CASE UNCHANGED vars
    BY <1>9 DEF vars
<1> QED
    BY <1>1, <1>2, <1>3, <1>4, <1>5, <1>6, <1>7, <1>8, <1>9 DEF Next

\* QuietInv is inductive, and a step that starts a file comes late enough.
LEMMA QuietStep ==
    LoggerTypes /\ QuietInv /\ [Next]_vars
        => QuietInv' /\ (opened' # opened => quiet' > Timeout)
<1>1. LoggerTypes /\ QuietInv /\ Ms100Task
        => QuietInv' /\ (opened' # opened => quiet' > Timeout)
    BY QuietTick
<1>2. QuietInv /\ [Next]_vars /\ ~Ms100Task
        => QuietInv' /\ (opened' # opened => quiet' > Timeout)
    BY QuietOther, TimeoutAssumption DEF QuietInv
<1> QED
    BY <1>1, <1>2

\* A log is never split while frames keep arriving: a file is started only
\* after more than Timeout ticks without a completed callback.
THEOREM FilesStartAfterQuiet == Spec => NewFileAfterQuiet
<1>1. Init => QuietInv
    BY TimeoutAssumption DEF Init, QuietInv
<1>2. [Next]_vars /\ (opened' # opened => quiet' > Timeout)
        => [opened' # opened => quiet' > Timeout]_vars
    OBVIOUS
<1> QED
    BY <1>1, <1>2, QuietStep, LoggerTypesInit, LoggerTypesStep, PTL
       DEF Spec, NewFileAfterQuiet

\* Between writing a line and clearing newFile.
Clearing == {"logging", "newfile"}

\* The mode a callback took a copy of fits the branch it is in.
ModeInv ==
    /\ pc = "usb" => Log_Modes \in {2, 3}
    /\ pc \in {"sd", "writing", "newfile"} => Log_Modes \in SdModes
    /\ pc = "logging" => Log_Modes \in {1, 2, 3}

\* A file that is new, or will be due at the next callback, is unwritten.
FreshInv ==
    ~refused /\ fault = "none"
        => /\ newFile /\ pc \notin Clearing => position = 0
           /\ newFile /\ pc = "logging" /\ Log_Modes = 2 => position = 0
           /\ quiet > Timeout /\ pc \notin Clearing \cup {"timer"} => position = 0

\* Steps that touch nothing a callback decides on.
Aside ==
    UNCHANGED <<pc, line, Log_Modes, headerSent, newFile, timer1Sec, quiet, raced,
                fault, files>>

\* What the steps outside the CAN callback, other than the 100 ms task, do.
LEMMA OtherSteps ==
    [Next]_vars
        => \/ \E b \in Buses : CanCallback(b)
           \/ CanStep
           \/ Ms100Task
           \/ Restart
           \/ Aside /\ UNCHANGED <<Logging, steady>>
           \/ Aside /\ Logging' \in LogModes /\ steady' = (steady /\ Logging' \in SdModes)
<1> SUFFICES ASSUME [Next]_vars
             PROVE  \/ \E b \in Buses : CanCallback(b)
                    \/ CanStep
                    \/ Ms100Task
                    \/ Restart
                    \/ Aside /\ UNCHANGED <<Logging, steady>>
                    \/ /\ Aside /\ Logging' \in LogModes
                       /\ steady' = (steady /\ Logging' \in SdModes)
    OBVIOUS
<1> USE DEF Aside, files, locals, statics
<1>1. CASE Ms10Task
    BY <1>1 DEF Ms10Task
<1>2. CASE AddTasks \/ sdDrvInit \/ OpenFatInit \/ CreateDir
    BY <1>2 DEF AddTasks, sdDrvInit, OpenFatInit, CreateDir, Boots
<1>3. ASSUME NEW m \in LogModes, SetLogging(m)
      PROVE  /\ Aside /\ Logging' \in LogModes
             /\ steady' = (steady /\ Logging' \in SdModes)
    <2>1. Aside
        BY <1>3 DEF SetLogging
    <2>2. Logging' = m /\ steady' = (steady /\ m \in SdModes)
        BY <1>3, Zenon DEF SetLogging
    <2> QED
        BY <2>1, <2>2, Zenon
<1>4. ASSUME NEW up \in BOOLEAN, UsbEvent(up) PROVE Aside /\ UNCHANGED <<Logging, steady>>
    BY <1>4 DEF UsbEvent
<1>5. CASE UNCHANGED vars
    BY <1>5 DEF vars, outside
<1> QED
    BY <1>1, <1>2, <1>3, <1>4, <1>5, Zenon DEF Next

\* A restart forgets everything but the card and the Logging parameter.
LEMMA RestartForgets ==
    Restart => /\ pc' = "idle" /\ headerSent' = FALSE /\ newFile' = FALSE
               /\ quiet' = 0 /\ position' = 0 /\ rows' = rows /\ handle' = NoFile
               /\ UNCHANGED <<fault, raced, refused>>
               /\ Logging' \in LogModes
               /\ steady' = (steady /\ Logging' \in SdModes)
BY Zenon DEF Restart, PowerCycle

\* ModeInv is inductive: Logging may change, the callback keeps its copy.
LEMMA ModeStep == LoggerTypes /\ ModeInv /\ [Next]_vars => ModeInv'
<1> SUFFICES ASSUME LoggerTypes, ModeInv, [Next]_vars PROVE ModeInv'
    OBVIOUS
<1> USE DEF ModeInv, SdModes, Step, locals
<1>1. CASE \E b \in Buses : CanCallback(b)
    BY <1>1 DEF CanCallback
<1>2. CASE ReadMode
    BY <1>2 DEF ReadMode, LoggerTypes, LogModes
<1>3. CASE CanStep /\ ~ReadMode
    BY <1>3 DEF CanStep, ChooseLine, MarkHeader, StandbyMode, LoggingMode, SetOpmode,
                SendUsb, StartWrite, EndWrite, ClearNewFile, ResetTimer, SetActive,
                CountFrame
<1>4. CASE Ms100Task
    BY <1>4 DEF Ms100Task
<1>5. CASE Restart
    BY <1>5, RestartForgets
<1>6. CASE Aside
    BY <1>6 DEF Aside
<1> QED
    BY <1>1, <1>2, <1>3, <1>4, <1>5, <1>6, OtherSteps

\* A file is opened at its beginning, or its entry is refused.
LEMMA CreateRewinds ==
    CreateFile => rows' = rows /\ (~refused' => ~refused /\ position' = 0)
<1> SUFFICES ASSUME CreateFile
             PROVE  rows' = rows /\ (~refused' => ~refused /\ position' = 0)
    OBVIOUS
<1>1. CASE FileExists \/ NewEntry
    BY <1>1 DEF FileExists, NewEntry, fat_open
<1>2. CASE NoShortName
    BY <1>2, NamesAssumption DEF NoShortName, LeftByProbing, fat_open
<1>3. CASE EntryRefused
    BY <1>3 DEF EntryRefused
<1> QED
    BY <1>1, <1>2, <1>3 DEF CreateFile

\* What the 100 ms task does at any step of a callback: it only counts down, or
\* it leaves a new file as it is, or starts one.
LEMMA TickRenews ==
    LoggerTypes /\ Ms100Task /\ ~refused' /\ fault' = "none"
        => /\ ~refused /\ fault = "none"
           /\ UNCHANGED <<pc, line, Log_Modes, Logging, rows, steady>>
           /\ \/ UNCHANGED <<headerSent, newFile, position, handle>> /\ timer1Sec > 0
              \/ /\ raced' = (raced \/ pc # "idle") /\ ~headerSent'
                 /\ \/ newFile /\ UNCHANGED <<newFile, position, handle>>
                    \/ position' = 0
<1> SUFFICES ASSUME LoggerTypes, Ms100Task, ~refused', fault' = "none"
             PROVE  /\ ~refused /\ fault = "none"
                    /\ UNCHANGED <<pc, line, Log_Modes, Logging, rows, steady>>
                    /\ \/ /\ UNCHANGED <<headerSent, newFile, position, handle>>
                          /\ timer1Sec > 0
                       \/ /\ raced' = (raced \/ pc # "idle") /\ ~headerSent'
                          /\ \/ newFile /\ UNCHANGED <<newFile, position, handle>>
                             \/ position' = 0
    OBVIOUS
<1>1. UNCHANGED <<pc, line, Log_Modes, Logging, steady>> /\ fault = "none"
    BY DEF Ms100Task, locals
<1>2. CASE CountDown
    BY <1>1, <1>2 DEF CountDown, files
<1>3. CASE TimeoutExpires
    <2>1. raced' = (raced \/ pc # "idle") /\ ~headerSent'
        BY <1>3, Zenon DEF TimeoutExpires
    <2>2. CASE newFile
        <3>1. UNCHANGED <<files, newFile>>
            BY <1>3, <2>2 DEF TimeoutExpires
        <3> QED
            BY <1>1, <2>1, <2>2, <3>1, Zenon DEF files
    <2>3. CASE ~newFile
        <3>1. CreateFile
            BY <1>3, <2>3 DEF TimeoutExpires, newSDFile, CreatesFile
        <3>2. rows' = rows /\ ~refused /\ position' = 0
            BY <3>1, CreateRewinds
        <3> QED
            BY <1>1, <2>1, <3>2, Zenon
    <2> QED
        BY <2>2, <2>3
<1> QED
    BY <1>2, <1>3 DEF Ms100Task

\* The 100 ms task preserves FreshInv: it renews the file or only counts.
LEMMA FreshTick ==
    LoggerTypes /\ QuietInv /\ FreshInv /\ Ms100Task => FreshInv'
<1> SUFFICES ASSUME LoggerTypes, QuietInv, FreshInv, Ms100Task, ~refused', fault' = "none"
             PROVE  FreshInv'
    BY DEF FreshInv
<1>1. /\ ~refused /\ fault = "none"
      /\ UNCHANGED <<pc, Log_Modes>>
      /\ \/ UNCHANGED <<newFile, position>> /\ timer1Sec > 0
         \/ newFile /\ UNCHANGED <<newFile, position>>
         \/ position' = 0
    BY TickRenews
<1>2. quiet' = IF quiet > Timeout THEN quiet ELSE quiet + 1
    BY DEF Ms100Task
<1>3. timer1Sec > 0 => (quiet' > Timeout => quiet > Timeout)
    BY <1>2, TimeoutAssumption DEF QuietInv, LoggerTypes
<1> QED
    BY <1>1, <1>3 DEF FreshInv, Clearing

\* FreshInv is inductive, with QuietInv and ModeInv.
LEMMA FreshStep ==
    LoggerTypes /\ QuietInv /\ ModeInv /\ FreshInv /\ [Next]_vars => FreshInv'
<1> SUFFICES ASSUME LoggerTypes, QuietInv, ModeInv, FreshInv, [Next]_vars
             PROVE  FreshInv'
    OBVIOUS
<1>1. CASE \E b \in Buses : CanCallback(b)
    BY <1>1 DEF CanCallback, Step, FreshInv, Clearing, statics, outside, files
<1>2. CASE CanStep
    <2> USE DEF Step, FreshInv, Clearing, locals, statics, outside, files
    <2>1. CASE ChooseLine \/ MarkHeader \/ SendUsb \/ SetActive \/ CountFrame
        BY <2>1 DEF ChooseLine, MarkHeader, SendUsb, SetActive, CountFrame
    <2>2. CASE ReadMode \/ StandbyMode \/ LoggingMode
        BY <2>2 DEF ReadMode, StandbyMode, LoggingMode, SetOpmode
    <2>3. CASE StartWrite \/ ClearNewFile
        BY <2>3 DEF StartWrite, ClearNewFile
    <2>4. CASE EndWrite
        BY <2>4 DEF EndWrite, ModeInv, SdModes
    <2>5. CASE ResetTimer
        BY <2>5, TimeoutAssumption DEF ResetTimer
    <2> QED
        BY <1>2, <2>1, <2>2, <2>3, <2>4, <2>5 DEF CanStep
<1>3. CASE Ms100Task
    BY <1>3, FreshTick
<1>4. CASE Restart
    BY <1>4, RestartForgets DEF FreshInv
<1>5. CASE Aside
    BY <1>5 DEF Aside, FreshInv, files
<1> QED
    BY <1>1, <1>2, <1>3, <1>4, <1>5, OtherSteps

\* Lines are written by EndWrite alone, in state "writing".
LEMMA OnlyEndWrite ==
    [Next]_vars /\ rows' # rows => pc = "writing" /\ fault = "none"
<1> SUFFICES ASSUME [Next]_vars, rows' # rows PROVE pc = "writing" /\ fault = "none"
    OBVIOUS
<1> USE DEF files
<1>1. CASE \E b \in Buses : CanCallback(b)
    BY <1>1 DEF CanCallback
<1>2. CASE EndWrite
    BY <1>2 DEF EndWrite, Step, WriteToFile, outside
<1>3. CASE CanStep /\ ~EndWrite
    BY <1>3 DEF CanStep, ChooseLine, MarkHeader, ReadMode, StandbyMode, LoggingMode,
                SetOpmode, SendUsb, StartWrite, ClearNewFile, ResetTimer, SetActive,
                CountFrame
<1>4. CASE Ms100Task
    BY <1>4, TimeoutFiles, CreateRewinds DEF Ms100Task, CountDown
<1>5. CASE Restart
    BY <1>5, RestartForgets
<1>6. CASE Aside
    BY <1>6 DEF Aside
<1> QED
    BY <1>1, <1>2, <1>3, <1>4, <1>5, <1>6, OtherSteps

\* "A new logging file will then spawn 1 sec after the end of last msg": the
\* line that ends a silence of more than Timeout ticks is the first of its
\* file, wherever in a callback a timeout has fired, if no entry was refused.
THEOREM SilenceStartsFile == Spec => GapStartsFile
<1>1. Init => QuietInv /\ ModeInv /\ FreshInv
    BY TimeoutAssumption DEF Init, QuietInv, ModeInv, FreshInv, FilesInit
<1>2. FreshInv /\ [Next]_vars
        => [rows' # rows /\ quiet > Timeout /\ ~refused => position = 0]_vars
    BY OnlyEndWrite DEF FreshInv, Clearing
<1> QED
    BY <1>1, <1>2, QuietStep, ModeStep, FreshStep, LoggerTypesInit, LoggerTypesStep, PTL
       DEF Spec, GapStartsFile

-----------------------------------------------------------------------------
(* What a log contains                                                     *)

Undisturbed == ~raced /\ steady /\ ~refused

\* Every file is a header and rows.
HeadersFirst ==
    \A f \in Ids : \A i \in DOMAIN rows[f] : rows[f][i].line = "header" <=> i = 1

\* Between choosing a line and writing it.
Carrying == {"mode", "usb", "sd", "writing"}

\* headerSent says whether the open file has its header, except while the
\* callback that carries it is on its way; and every callback writes its line.
HeaderInv ==
    /\ Logging \in SdModes
    /\ pc # "standby"
    /\ pc \in {"usb", "sd", "writing", "logging", "newfile"} => Log_Modes \in SdModes
    /\ pc \notin Carrying => (headerSent <=> position > 0)
    /\ pc = "mark" => line = "header" /\ ~headerSent
    /\ pc \in Carrying => headerSent /\ (line = "header" <=> position = 0)
    /\ newFile /\ pc \notin Clearing => position = 0

WellFormedInv ==
    Undisturbed => HeadersFirst /\ (fault = "none" => HeaderInv)

\* A line that is a header exactly at the beginning of the file keeps the
\* files well formed.
LEMMA HeadersWrite ==
    FilesTypeOK /\ NewestInv /\ HeadersFirst
        => \A l \in Lines :
              WriteToFile(l) /\ (l = "header" <=> position = 0) => HeadersFirst'
<1> SUFFICES ASSUME FilesTypeOK, NewestInv, HeadersFirst, NEW l \in Lines,
                    WriteToFile(l), l = "header" <=> position = 0
             PROVE  HeadersFirst'
    OBVIOUS
<1> DEFINE s == rows[handle]
           new == [log |-> opened, line |-> l]
           t == Written(s, new)
<1>1. handle \in Ids /\ position \in Nat /\ s \in Seq(Row) /\ new \in Row /\ new.line = l
    BY DEF WriteToFile, FilesTypeOK, Row
<1>2. position <= Len(s)
    BY DEF NewestInv, WritingPoint, WriteToFile
<1>3. /\ t \in Seq(Row)
      /\ position < Len(s) => Len(t) = Len(s)
      /\ position >= Len(s) => Len(t) = Len(s) + 1
      /\ \A i \in 1 .. Len(s) : i # position + 1 => t[i] = s[i]
      /\ t[position + 1] = new
    BY <1>1, <1>2, WrittenLines
<1>4. DOMAIN s = 1 .. Len(s) /\ DOMAIN t = 1 .. Len(t)
    BY <1>1, <1>3, LenProperties
<1>5. rows' = [rows EXCEPT ![handle] = t]
    BY DEF WriteToFile
<1>6. rows'[handle] = t /\ \A f \in Ids \ {handle} : rows'[f] = rows[f]
    BY <1>1, <1>5 DEF FilesTypeOK
<1>7. \A i \in DOMAIN s : s[i].line = "header" <=> i = 1
    BY <1>1 DEF HeadersFirst
<1> HIDE DEF t, s, new
<1>8. Len(s) \in Nat /\ Len(t) \in Nat
    BY <1>1, <1>3, LenProperties
<1>9. \A i \in 1 .. Len(t) : i = position + 1 \/ (i \in 1 .. Len(s) /\ t[i] = s[i])
    BY <1>1, <1>2, <1>3, <1>8
<1>10. position = 0 <=> position + 1 = 1
    BY <1>1
<1>11. \A i \in DOMAIN t : t[i].line = "header" <=> i = 1
    BY <1>1, <1>3, <1>4, <1>7, <1>9, <1>10
<1> QED
    BY <1>6, <1>11 DEF HeadersFirst

\* A 100 ms task that comes in no callback's way may have the next line start a
\* file between callbacks; during one it only counts down.
LEMMA TickUndisturbed ==
    LoggerTypes /\ Ms100Task /\ ~raced' /\ ~refused' /\ fault' = "none"
        => /\ UNCHANGED <<pc, line, Log_Modes, Logging>>
           /\ \/ UNCHANGED <<headerSent, newFile, position>>
              \/ /\ pc = "idle" /\ ~headerSent'
                 /\ \/ newFile /\ UNCHANGED <<newFile, position>>
                    \/ position' = 0
BY TickRenews

\* The 100 ms task preserves HeaderInv.
LEMMA HeaderTick ==
    LoggerTypes /\ HeaderInv /\ Ms100Task /\ ~raced' /\ ~refused' /\ fault' = "none"
        => HeaderInv'
BY TickUndisturbed DEF HeaderInv, Clearing, Carrying

\* The steps of a CAN callback preserve HeaderInv.
LEMMA HeaderCanStep ==
    LoggerTypes /\ FilesTypeOK /\ ModeInv /\ HeaderInv /\ CanStep => HeaderInv'
<1> SUFFICES ASSUME LoggerTypes, FilesTypeOK, ModeInv, HeaderInv, CanStep
             PROVE  HeaderInv'
    OBVIOUS
<1> USE DEF Step, HeaderInv, Clearing, Carrying, SdModes, locals, statics, outside, files
<1>0. position \in Nat /\ headerSent \in BOOLEAN /\ newFile \in BOOLEAN
    BY DEF FilesTypeOK, LoggerTypes
<1>1. CASE ChooseLine
    BY <1>0, <1>1 DEF ChooseLine
<1>2. CASE MarkHeader
    BY <1>0, <1>2 DEF MarkHeader
<1>3. CASE ReadMode
    BY <1>0, <1>3 DEF ReadMode
<1>4. CASE StandbyMode \/ LoggingMode
    BY <1>4 DEF StandbyMode, LoggingMode, SetOpmode
<1>5. CASE SendUsb
    BY <1>5 DEF SendUsb, ModeInv
<1>6. CASE StartWrite
    BY <1>6 DEF StartWrite
<1>7. CASE EndWrite
    BY <1>0, <1>7 DEF EndWrite, WriteToFile
<1>8. CASE ClearNewFile
    BY <1>8 DEF ClearNewFile
<1>9. CASE ResetTimer
    BY <1>9 DEF ResetTimer
<1>10. CASE SetActive \/ CountFrame
    BY <1>10 DEF SetActive, CountFrame
<1> QED
    BY <1>1, <1>2, <1>3, <1>4, <1>5, <1>6, <1>7, <1>8, <1>9, <1>10 DEF CanStep

\* WellFormedInv is inductive, with the types, NewestInv and ModeInv.
LEMMA WellFormedStep ==
    LoggerTypes /\ FilesTypeOK /\ NewestInv /\ ModeInv /\ WellFormedInv /\ [Next]_vars
        => WellFormedInv'
<1> SUFFICES ASSUME LoggerTypes, FilesTypeOK, NewestInv, ModeInv, WellFormedInv,
                    [Next]_vars, Undisturbed'
             PROVE  HeadersFirst' /\ (fault' = "none" => HeaderInv')
    BY DEF WellFormedInv
<1> USE DEF Undisturbed
<1>1. CASE \E b \in Buses : CanCallback(b)
    <2>1. /\ pc = "idle" /\ pc' = "header"
          /\ UNCHANGED <<line, Log_Modes, headerSent, newFile, fault, Logging, raced,
                         steady, files>>
        BY <1>1 DEF CanCallback, Step, statics, outside
    <2> QED
        BY <2>1 DEF WellFormedInv, HeadersFirst, HeaderInv, Carrying, Clearing, files
<1>2. CASE EndWrite
    <2>1. /\ pc = "writing" /\ fault = "none" /\ WriteToFile(line) /\ line \in Lines
          /\ UNCHANGED <<raced, steady, refused>>
        BY <1>2 DEF EndWrite, Step, outside, WriteToFile, LoggerTypes
    <2>2. HeadersFirst /\ HeaderInv
        BY <2>1 DEF WellFormedInv
    <2>3. HeadersFirst'
        BY <2>1, <2>2, HeadersWrite DEF HeaderInv, Carrying
    <2> QED
        BY <1>2, <2>2, <2>3, HeaderCanStep DEF CanStep
<1>3. CASE CanStep /\ ~EndWrite
    <2>1. fault = "none" /\ UNCHANGED <<files, raced, steady>>
        BY <1>3 DEF CanStep, ChooseLine, MarkHeader, ReadMode, StandbyMode, LoggingMode,
                    SetOpmode, SendUsb, StartWrite, ClearNewFile, ResetTimer, SetActive,
                    CountFrame, Step, outside
    <2>2. HeadersFirst /\ HeaderInv
        BY <2>1 DEF WellFormedInv, files
    <2> QED
        BY <1>3, <2>1, <2>2, HeaderCanStep DEF HeadersFirst, files
<1>4. CASE Ms100Task
    <2>1. UNCHANGED <<rows, steady>> /\ ~raced /\ ~refused /\ fault = "none"
        <3>1. fault = "none" /\ steady' = steady
            BY <1>4 DEF Ms100Task
        <3>2. CASE CountDown
            BY <1>4, <3>1, <3>2 DEF CountDown, files
        <3>3. CASE TimeoutExpires
            <4>1. raced' = (raced \/ pc # "idle")
                BY <3>3, Zenon DEF TimeoutExpires
            <4>2. rows' = rows /\ ~refused
                BY <3>3, TimeoutFiles, CreateRewinds DEF files
            <4> QED
                BY <3>1, <4>1, <4>2
        <3> QED
            BY <1>4, <3>2, <3>3 DEF Ms100Task
    <2>2. HeadersFirst /\ HeaderInv
        BY <2>1 DEF WellFormedInv
    <2> QED
        BY <1>4, <2>1, <2>2, HeaderTick DEF HeadersFirst
<1>5. CASE Restart
    <2>1. steady' = (steady /\ Logging' \in SdModes)
        BY <1>5, RestartForgets
    <2>2. steady /\ Logging' \in SdModes
        BY <2>1
    <2> QED
        BY <1>5, <2>2, RestartForgets
           DEF WellFormedInv, HeadersFirst, HeaderInv, Carrying, Clearing
<1>6. CASE Aside /\ UNCHANGED <<Logging, steady>>
    BY <1>6 DEF Aside, WellFormedInv, HeadersFirst, HeaderInv, files
<1>7. CASE Aside /\ Logging' \in LogModes /\ steady' = (steady /\ Logging' \in SdModes)
    <2>1. steady /\ Logging' \in SdModes
        BY <1>7
    <2> QED
        BY <1>7, <2>1 DEF Aside, WellFormedInv, HeadersFirst, HeaderInv, files
<1> QED
    BY <1>1, <1>2, <1>3, <1>4, <1>5, <1>6, <1>7, OtherSteps

\* WellFormedInv holds at power-on.
LEMMA WellFormedInit == Init => WellFormedInv
<1> SUFFICES ASSUME Init, Undisturbed PROVE HeadersFirst /\ HeaderInv
    BY DEF WellFormedInv
<1>1. /\ FilesInit /\ pc = "idle" /\ headerSent = FALSE /\ newFile = FALSE
      /\ steady = (Logging \in SdModes)
    BY Zenon DEF Init
<1>2. Logging \in SdModes
    BY <1>1 DEF Undisturbed
<1>3. HeadersFirst
    BY <1>1 DEF FilesInit, HeadersFirst
<1>4. HeaderInv
    BY <1>1, <1>2 DEF FilesInit, HeaderInv, Carrying, Clearing
<1> QED
    BY <1>3, <1>4

\* "commence a new log and send savvy header": through timeouts, restarts and
\* files reopened by mistake, every file is one header followed by rows, as
\* long as the Logging parameter always names the SD card, no timeout fires
\* during a callback and no directory entry is refused.
THEOREM LogsWellFormed == Spec => []LogWellFormed
<1> DEFINE IInv == /\ LoggerTypes /\ FilesTypeOK /\ NewestInv
                   /\ ModeInv /\ WellFormedInv
<1>1. Init => IInv
    <2>1. Init => ModeInv /\ FilesInit
        BY DEF Init, ModeInv
    <2>2. FilesInit => NewestInv
        BY DEF FilesInit, NewestInv, NewestFirst, WritingPoint
    <2> QED
        BY <2>1, <2>2, LoggerTypesInit, FilesTypeInit, WellFormedInit
<1>2. IInv /\ [Next]_vars => IInv'
    BY LoggerTypesStep, FilesStep, FilesTypeStep, NewestStep, ModeStep, WellFormedStep
<1>3. IInv => LogWellFormed
    BY DEF WellFormedInv, Undisturbed, HeadersFirst, LogWellFormed
<1> QED
    BY <1>1, <1>2, <1>3, PTL DEF Spec

=============================================================================
