------------------------------ MODULE FatFiles ------------------------------
(***************************************************************************)
(* What openfat.h promises its caller of the files of one directory, seen  *)
(* through one FatFile handle: a file is a sequence of units that keeps    *)
(* what was written to it, and fat_write and fat_read move the position.   *)
(* A call may transfer its units in several pieces, or stop early.         *)
(***************************************************************************)
EXTENDS Integers, Sequences

CONSTANTS
    Files,      \* names
    Values,     \* what a unit of data holds
    NoFile,     \* the file of a handle that is not open
    NoContent   \* the content of a file that does not exist

VARIABLES
    content,    \* content[f]: the units of f
    open,       \* the file the handle is open on
    position    \* the handle's position in it

promised == <<content, open, position>>

FilesInit ==
    /\ content = [f \in Files |-> NoContent]
    /\ open = NoFile
    /\ position = 0

CreateFile(f) ==
    /\ content[f] = NoContent
    /\ content' = [content EXCEPT ![f] = <<>>]
    /\ open' = f
    /\ position' = 0

OpenFile(f) ==
    /\ content[f] # NoContent
    /\ open' = f
    /\ position' = 0
    /\ UNCHANGED content

Seek(p) ==
    /\ open # NoFile
    /\ p <= Len(content[open])
    /\ position' = p
    /\ UNCHANGED <<content, open>>

\* v in n units from the position on, over what is there and beyond the end.
Put(n, v) ==
    /\ open # NoFile
    /\ LET s == content[open]
           len == IF position + n > Len(s) THEN position + n ELSE Len(s)
       IN  content' = [content EXCEPT ![open] =
               [i \in 1 .. len |-> IF i \in position + 1 .. position + n THEN v ELSE s[i]]]
    /\ position' = position + n
    /\ UNCHANGED open

Get(n) ==
    /\ open # NoFile
    /\ position + n <= Len(content[open])
    /\ position' = position + n
    /\ UNCHANGED <<content, open>>

Unlink(f) ==
    /\ f # open
    /\ content[f] # NoContent
    /\ content' = [content EXCEPT ![f] = NoContent]
    /\ UNCHANGED <<open, position>>

FilesNext ==
    \/ \E f \in Files : CreateFile(f) \/ OpenFile(f) \/ Unlink(f)
    \/ open # NoFile /\ \E p \in 0 .. Len(content[open]) : Seek(p)
    \/ \E n \in 1 .. position' - position : Get(n) \/ \E v \in Values : Put(n, v)

FilesSpec == FilesInit /\ [][FilesNext]_promised

=============================================================================
