---------------------------- MODULE BlockDevice -----------------------------
(***************************************************************************)
(* What the file system is promised of the device behind block_device: the *)
(* blocks of a call go one by one and in order, each to or from the sector *)
(* asked for, and a call counts the blocks that went.  A block of a write, *)
(* or the only one of a read, may be counted although it was refused; the  *)
(* caller's block is then neither what it was nor what the sector holds.   *)
(* Of the blocks written at most the last is still at risk when power      *)
(* goes.  The promise on the sectors only holds once the device has been   *)
(* identified.                                                             *)
(***************************************************************************)
EXTENDS Naturals, Sequences

CONSTANTS
    Sectors,    \* the sectors of the device
    Asked,      \* the sectors that callers ask for
    Data,       \* what a sector holds
    WithToken,  \* WithToken[d]: what an error makes of block d of the caller's buffer
    MaxCount    \* the most blocks of a call

VARIABLES
    disk,       \* disk[s]: what sector s holds for good
    settling,   \* the block taken last, until it is on the disk: a function on one sector or none
    identified, \* whether the sectors are those of the caller
    request,    \* the call in progress: what it asks for and how many blocks it counts
    buffer      \* the caller's buffer: buffer[i] is its i-th block

device == <<disk, settling, identified, request, buffer>>

NoRequest == [op |-> "none", sector |-> 0, count |-> 0, done |-> 0]

Newest == [s \in Sectors |-> IF s \in DOMAIN settling THEN settling[s] ELSE disk[s]]

DeviceInit ==
    /\ disk \in [Sectors -> Data]
    /\ settling = <<>>
    /\ identified = FALSE
    /\ request = NoRequest
    /\ buffer \in [1 .. MaxCount -> Data]

Ask ==
    /\ request = NoRequest
    /\ \E o \in {"read", "write"}, s \in Asked, n \in 1 .. MaxCount :
          request' = [op |-> o, sector |-> s, count |-> n, done |-> 0]
    /\ \/ request'.op = "read" /\ UNCHANGED buffer
       \/ request'.op = "write" /\ buffer' \in [1 .. MaxCount -> Data]
    /\ UNCHANGED <<disk, settling, identified>>

\* One block goes: to the sector asked for if the device is identified, and to
\* or from any sector otherwise.
Move ==
    /\ request.done < request.count
    /\ request' = [request EXCEPT !.done = @ + 1]
    /\ \E s \in Sectors :
          /\ identified => s = request.sector + request.done
          /\ \/ /\ request.op = "write"
                /\ settling = <<>>
                /\ settling' = [x \in {s} |-> buffer[request'.done]]
                /\ UNCHANGED buffer
             \/ /\ request.op = "read"
                /\ buffer' = [buffer EXCEPT ![request'.done] = Newest[s]]
                /\ UNCHANGED settling
    /\ UNCHANGED <<disk, identified>>

\* A block that is counted although the device did not take it.
MoveNothing ==
    /\ request.op = "write" /\ request.done < request.count
    /\ request' = [request EXCEPT !.done = @ + 1]
    /\ UNCHANGED <<disk, settling, identified, buffer>>

\* A block that the device does not give: the error is left in the caller's
\* block, and it is counted all the same if it is the only one.
Spoil ==
    /\ request.op = "read" /\ request.done < request.count
    /\ \E d \in WithToken[buffer[request.done + 1]] :
          buffer' = [buffer EXCEPT ![request.done + 1] = d]
    /\ request' = IF request.count = 1 THEN [request EXCEPT !.done = @ + 1] ELSE request
    /\ UNCHANGED <<disk, settling, identified>>

\* A write counts every block or none, a read as many as went.
Answer ==
    /\ request # NoRequest
    /\ request.op = "write" => request.done \in {0, request.count}
    /\ request' = NoRequest
    /\ UNCHANGED <<disk, settling, identified, buffer>>

Settle ==
    /\ disk' = Newest
    /\ settling' = <<>>
    /\ UNCHANGED <<identified, request, buffer>>

Identify ==
    /\ request = NoRequest
    /\ identified' = ~identified
    /\ UNCHANGED <<disk, settling, request, buffer>>

\* The caller starts over; the block at risk stays at risk, settles or is lost.
StartOver ==
    /\ request' = NoRequest
    /\ identified' = FALSE
    /\ disk' \in {disk, Newest}
    /\ settling' \in {settling, <<>>}
    /\ settling' # <<>> => disk' = disk
    /\ UNCHANGED buffer

DeviceSpec ==
    /\ DeviceInit
    /\ [][\/ Ask \/ Move \/ MoveNothing \/ Spoil \/ Answer
          \/ Settle \/ Identify \/ StartOver]_device

=============================================================================
