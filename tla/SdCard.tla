------------------------------- MODULE SdCard -------------------------------
(***************************************************************************)
(* The SD card driver of stm32_SD.cpp and the card on its SPI bus.  A step *)
(* of the driver is one exchange with the card: a command and its answer,  *)
(* a data block, or the end of a transfer.  The driver waits for the card  *)
(* in every step, so the one thing that goes on beside it is the card      *)
(* programming the block that it took last.                                *)
(* Definitions named Bug_... are plausible mistakes in the definition that *)
(* follows them; no specification uses them.                               *)
(***************************************************************************)
EXTENDS Naturals, Sequences

CONSTANTS
    CardSize,     \* the sectors of the card are 0 .. CardSize - 1
    Data,         \* what a sector holds
    MaxCount,     \* the most blocks of a call
    BlockLen,     \* bytes in a block, 512 in the driver
    AddressLimit, \* one more than the largest 32 bit address
    WithToken,    \* WithToken[d]: what block d can be with an error token for its first byte
    Closed, Deaf  \* the values of card.stream that are no sector

ASSUME SdAssumption ==
    /\ {CardSize, MaxCount, BlockLen, AddressLimit} \subseteq Nat \ {0}
    /\ Data # {}
    /\ WithToken \in [Data -> (SUBSET Data) \ {{}}]
    /\ Closed \notin Nat /\ Deaf \notin Nat /\ Closed # Deaf

VARIABLES
    card,       \* the card: what it is, what it does and what it holds
    cardType,   \* CT_ flags, {} where the driver has 0
    SDStatus, SDType,   \* the parameters shown to the user
    call,       \* the call in progress and where it is in its function
    buf         \* the caller's buffer: buf[i] is its i-th block

vars == <<card, cardType, SDStatus, SDType, call, buf>>

Sectors == 0 .. CardSize - 1

\* What callers ask for: the sectors of the card, and beyond its end.
Asked == 0 .. CardSize

-----------------------------------------------------------------------------
(* The card: external, as the driver uses it *)

\* "Unfit" does not work with the voltage of the board, "Dead" answers every
\* command with an error.
Kinds == {"MMC", "SD1", "SD2", "SDHC", "Unfit", "Dead"}

Version2 == {"SD2", "SDHC", "Unfit"}

\* Cards addressed in bytes are small enough for it.
Addressable(kind) == kind # "SDHC" => CardSize * BlockLen < AddressLimit

\* card.stream: the sector of the next block of an open transfer, Closed when
\* none is open, Deaf when the card has refused a block of a multi-block write.
Newest ==
    [s \in Sectors |-> IF s \in DOMAIN card.taken THEN card.taken[s] ELSE card.media[s]]

Busy == card.taken # <<>>

\* The sectors that a data command with this address reaches.
Reaches(address) ==
    IF card.kind = "SDHC" THEN {address} \cap Sectors
    ELSE {s \in Sectors : address = s * BlockLen}

Fault == 5      \* an R1 with an error bit

\* The R1 answers that a command can get; 1 is the idle state.
R1(command, argument) ==
    LET idle == IF card.ready THEN 0 ELSE 1
    IN  IF card.kind = "Dead" THEN {Fault} ELSE
        CASE command = "CMD0" -> {1}
          [] command = "CMD8" -> {IF card.kind \in Version2 THEN 1 ELSE Fault}
          [] command = "CMD55" -> {IF card.kind = "MMC" THEN Fault ELSE idle}
          [] command \in {"ACMD41", "CMD1"} ->
                IF command = "CMD1" <=> card.kind = "MMC" THEN {0, idle} ELSE {Fault}
          [] command \in {"CMD16", "CMD58"} -> {0, Fault}
          [] command \in {"CMD12", "ACMD23"} -> {0, Fault}
          [] OTHER -> IF card.ready /\ Reaches(argument) # {} THEN {0, Fault} ELSE {Fault}

\* CMD12 ends a transfer whatever its answer.
Answered(command, argument, r1) ==
    CASE command = "CMD0" -> [card EXCEPT !.ready = FALSE, !.stream = Closed]
      [] command \in {"ACMD41", "CMD1"} /\ r1 = 0 -> [card EXCEPT !.ready = TRUE]
      [] command = "CMD12" -> [card EXCEPT !.stream = Closed]
      [] command \in {"CMD17", "CMD18", "CMD24", "CMD25"} /\ r1 = 0 ->
            [card EXCEPT !.stream = CHOOSE s \in Reaches(argument) : TRUE]
      [] OTHER -> card

\* The card finishes programming; nothing the driver does takes part.
Programmed ==
    /\ Busy
    /\ card' = [card EXCEPT !.media = Newest, !.taken = <<>>]
    /\ UNCHANGED <<cardType, SDStatus, SDType, call, buf>>

-----------------------------------------------------------------------------
(* Commands *)

Application == {"ACMD41", "ACMD23"}

\* sdDrvCommand: sdSPISelect waits while the card is busy, then the command is
\* sent and r1 is what it gets.
Exchange(command, argument, r1) ==
    /\ ~Busy
    /\ r1 \in R1(command, argument)
    /\ card' = Answered(command, argument, r1)

\* An application command goes behind CMD55, whose answer is returned in its
\* place when it is more than 1.
sdDrvCommand(command, argument, r1) ==
    LET own == command \in Application => call.app
    IN  \/ own /\ Exchange(command, argument, r1)
        \/ ~own /\ r1 > 1 /\ Exchange("CMD55", 0, r1)

\* The command that each place of the driver sends next.
Command ==
    [reset |-> "CMD0", voltage |-> "CMD8", wake2 |-> "ACMD41", ocr |-> "CMD58",
     probe |-> "ACMD41", wakeSD |-> "ACMD41", wakeMMC |-> "CMD1", blockLen |-> "CMD16",
     erase |-> "ACMD23", read1 |-> "CMD17", readN |-> "CMD18", stopRead |-> "CMD12",
     write1 |-> "CMD24", writeN |-> "CMD25"]

AppFirst ==
    /\ call.at \in DOMAIN Command /\ Command[call.at] \in Application /\ ~call.app
    /\ \E r1 \in {0, 1} : Exchange("CMD55", 0, r1)
    /\ call' = [call EXCEPT !.app = TRUE]
    /\ UNCHANGED <<cardType, SDStatus, SDType, buf>>

GoTo(place) == call' = [call EXCEPT !.at = place, !.app = FALSE]

NoCall == [op |-> "none", at |-> "home", app |-> FALSE, sector |-> 0, count |-> 0, done |-> 0]

Return == call' = NoCall

-----------------------------------------------------------------------------
(* sdDrvInit *)

Booting == [NoCall EXCEPT !.op = "init", !.at = "reset"]

InitReset ==
    /\ call.at = "reset"
    /\ \/ sdDrvCommand("CMD0", 0, 1) /\ GoTo("voltage") /\ UNCHANGED SDStatus
       \/ \E r1 \in {0, Fault} : sdDrvCommand("CMD0", 0, r1) /\ Return /\ SDStatus' = 0
    /\ UNCHANGED <<cardType, SDType, buf>>

\* A version 2 card echoes the argument of CMD8 if it works with the voltage;
\* one that does not is left, unidentified, with SDStatus at 1.
InitVoltage ==
    /\ call.at = "voltage"
    /\ \/ /\ sdDrvCommand("CMD8", 426, 1)
          /\ SDStatus' = 1 /\ SDType' = 1
          /\ IF card.kind = "Unfit" THEN Return ELSE GoTo("wake2")
       \/ /\ \E r1 \in {0, Fault} : sdDrvCommand("CMD8", 426, r1)
          /\ GoTo("probe")
          /\ UNCHANGED <<SDStatus, SDType>>
    /\ UNCHANGED <<cardType, buf>>

\* The loops that poll the card until it leaves the idle state.
AfterWake == [wake2 |-> "ocr", wakeSD |-> "blockLen", wakeMMC |-> "blockLen"]

InitPoll ==
    /\ call.at \in DOMAIN AfterWake
    /\ \E r1 \in {1, Fault} : sdDrvCommand(Command[call.at], 0, r1)
    /\ GoTo(call.at)
    /\ UNCHANGED <<cardType, SDStatus, SDType, buf>>

InitAwake ==
    /\ call.at \in DOMAIN AfterWake
    /\ sdDrvCommand(Command[call.at], 0, 0)
    /\ GoTo(AfterWake[call.at])
    /\ UNCHANGED <<cardType, SDStatus, SDType, buf>>

Bug_NoCapacityBit ==
    /\ call.at = "ocr"
    /\ \/ sdDrvCommand("CMD58", 0, 0) /\ cardType' = {"CT_SD2", "CT_BLOCK"}
       \/ sdDrvCommand("CMD58", 0, Fault) /\ UNCHANGED cardType
    /\ Return
    /\ UNCHANGED <<SDStatus, SDType, buf>>

InitOcr ==
    /\ call.at = "ocr"
    /\ \/ /\ sdDrvCommand("CMD58", 0, 0)
          /\ cardType' = {"CT_SD2"} \cup (IF card.kind = "SDHC" THEN {"CT_BLOCK"} ELSE {})
       \/ sdDrvCommand("CMD58", 0, Fault) /\ UNCHANGED cardType
    /\ Return
    /\ UNCHANGED <<SDStatus, SDType, buf>>

Bug_SameLoop ==
    /\ call.at = "probe"
    /\ \/ /\ \E r1 \in {0, 1} : sdDrvCommand("ACMD41", 0, r1)
          /\ SDType' = 2 /\ cardType' = {"CT_SD1"} /\ GoTo("wakeSD")
       \/ /\ sdDrvCommand("ACMD41", 0, Fault)
          /\ SDType' = 3 /\ cardType' = {"CT_MMC"} /\ GoTo("wakeSD")
    /\ SDStatus' = 1
    /\ UNCHANGED buf

InitProbe ==
    /\ call.at = "probe"
    /\ \/ /\ \E r1 \in {0, 1} : sdDrvCommand("ACMD41", 0, r1)
          /\ SDType' = 2 /\ cardType' = {"CT_SD1"} /\ GoTo("wakeSD")
       \/ /\ sdDrvCommand("ACMD41", 0, Fault)
          /\ SDType' = 3 /\ cardType' = {"CT_MMC"} /\ GoTo("wakeMMC")
    /\ SDStatus' = 1
    /\ UNCHANGED buf

InitBlockLen ==
    /\ call.at = "blockLen"
    /\ \/ sdDrvCommand("CMD16", BlockLen, 0) /\ UNCHANGED <<cardType, SDStatus, SDType>>
       \/ /\ sdDrvCommand("CMD16", BlockLen, Fault)
          /\ cardType' = {} /\ SDStatus' = 0 /\ SDType' = 0
    /\ Return
    /\ UNCHANGED buf

-----------------------------------------------------------------------------
(* sdDrvReadSector and sdDrvWriteSector *)

Bug_AlwaysBytes(sector) == (sector * BlockLen) % AddressLimit

Address(sector) ==
    IF "CT_BLOCK" \in cardType THEN sector ELSE (sector * BlockLen) % AddressLimit

Asking(op, at, s, n) ==
    /\ call = NoCall
    /\ call' = [op |-> op, at |-> at, app |-> FALSE, sector |-> s, count |-> n, done |-> 0]
    /\ UNCHANGED <<card, cardType, SDStatus, SDType>>

sdDrvReadSector(s, n) ==
    Asking("read", IF n = 1 THEN "read1" ELSE "readN", s, n) /\ UNCHANGED buf

sdDrvWriteSector(s, n, blocks) ==
    /\ Asking("write", IF n = 1 THEN "write1"
                       ELSE IF cardType \cap {"CT_SD1", "CT_SD2"} # {} THEN "erase"
                       ELSE "writeN", s, n)
    /\ buf' = blocks

\* SET_WR_BLK_ERASE_COUNT, whatever its answer.
PreErase ==
    /\ call.at = "erase"
    /\ \E r1 \in {0, 1, Fault} : sdDrvCommand("ACMD23", call.count, r1)
    /\ GoTo("writeN")
    /\ UNCHANGED <<cardType, SDStatus, SDType, buf>>

StartTransfer ==
    /\ call.at \in {"read1", "readN", "write1", "writeN"}
    /\ \/ /\ sdDrvCommand(Command[call.at], Address(call.sector), 0)
          /\ GoTo(IF call.op = "read" THEN "getBlock" ELSE "setBlock")
       \/ /\ \E r1 \in {1, Fault} : sdDrvCommand(Command[call.at], Address(call.sector), r1)
          /\ GoTo("release")
    /\ UNCHANGED <<cardType, SDStatus, SDType, buf>>

Bug_OneMore(stop) ==
    call' = [call EXCEPT !.done = @ + 1,
                         !.at = IF call.count = 1 THEN "release"
                                ELSE IF call.done = call.count THEN stop ELSE @]

\* One more block is counted: the only one, the last or one before it.
Count(stop) ==
    call' = [call EXCEPT !.done = @ + 1,
                         !.at = IF call.count = 1 THEN "release"
                                ELSE IF call.done + 1 = call.count THEN stop ELSE @]

\* Where the card goes on after a block: a single-block transfer is over.
Onward(next) == [card EXCEPT !.stream = IF call.count = 1 THEN Closed ELSE next]

\* The block that the caller is to get.
Filled(d) == buf' = [buf EXCEPT ![call.done + 1] = d]

sdDrvGetBlock ==
    /\ call.at = "getBlock"
    /\ card.stream \in Sectors
    /\ Filled(Newest[card.stream])
    /\ card' = Onward(card.stream + 1)
    /\ Count("stopRead")
    /\ UNCHANGED <<cardType, SDStatus, SDType>>

Bug_BreakOut ==
    /\ call.at = "getBlock"
    /\ \E d \in WithToken[buf[call.done + 1]] : Filled(d)
    /\ IF call.count = 1 THEN Count("stopRead") /\ card' = Onward(Closed)
       ELSE GoTo("release") /\ UNCHANGED card
    /\ UNCHANGED <<cardType, SDStatus, SDType>>

\* The card gives an error in place of the block, as it always does at its end.
\* sdDrvGetBlock has read the token into the caller's block by the time it sees
\* what it is, and sdDrvReadSector only heeds the error among several blocks.
BadToken ==
    /\ call.at = "getBlock"
    /\ \E d \in WithToken[buf[call.done + 1]] : Filled(d)
    /\ IF call.count = 1 THEN Count("stopRead") /\ card' = Onward(Closed)
       ELSE GoTo("stopRead") /\ UNCHANGED card
    /\ UNCHANGED <<cardType, SDStatus, SDType>>

StopRead ==
    /\ call.at = "stopRead"
    /\ \E r1 \in {0, 1, Fault} : sdDrvCommand("CMD12", 0, r1)
    /\ GoTo("release")
    /\ UNCHANGED <<cardType, SDStatus, SDType, buf>>

Bug_NoWait ==
    /\ call.at = "setBlock"
    /\ \/ /\ card.stream \in Sectors
          /\ card' = [Onward(card.stream + 1) EXCEPT
                         !.taken = [s \in {card.stream} |-> buf[call.done + 1]]]
       \/ card' = Onward(Deaf)
    /\ Count("stopTran")
    /\ UNCHANGED <<cardType, SDStatus, SDType, buf>>

\* The data response is returned by sdDrvSetBlock and heeded by nobody, so a
\* block that the card refuses is sent and counted like one that it takes.
sdDrvSetBlock ==
    /\ call.at = "setBlock"
    /\ ~Busy
    /\ \/ /\ card.stream \in Sectors
          /\ card' = [Onward(card.stream + 1) EXCEPT
                         !.taken = [s \in {card.stream} |-> buf[call.done + 1]]]
       \/ card' = Onward(Deaf)
    /\ Count("stopTran")
    /\ UNCHANGED <<cardType, SDStatus, SDType, buf>>

\* sdDrvSetBlock(TOKEN_STOP_TRAN), which cannot fail.
StopTran ==
    /\ call.at = "stopTran"
    /\ ~Busy
    /\ card' = [card EXCEPT !.stream = Closed]
    /\ GoTo("release")
    /\ UNCHANGED <<cardType, SDStatus, SDType, buf>>

sdSPIRelease ==
    /\ call.at = "release"
    /\ Return
    /\ UNCHANGED <<card, cardType, SDStatus, SDType, buf>>

-----------------------------------------------------------------------------

\* The processor starts over, with the card or alone.
Reset ==
    /\ cardType' = {} /\ SDStatus' = 0 /\ SDType' = 0
    /\ call' = Booting
    /\ UNCHANGED buf

\* The card may just have finished the block that it was programming.
PowerCut ==
    /\ card' \in {[card EXCEPT !.media = m, !.taken = <<>>, !.stream = Closed, !.ready = FALSE] :
                     m \in {card.media, Newest}}
    /\ Reset

\* Not in the middle of a transfer, where the card would take the first command
\* for data.
ProcessorReset ==
    /\ card.stream = Closed
    /\ UNCHANGED card
    /\ Reset

Init ==
    /\ \E k \in Kinds, m \in [Sectors -> Data] :
          Addressable(k) /\ card = [kind |-> k, ready |-> FALSE, media |-> m, taken |-> <<>>, stream |-> Closed]
    /\ cardType = {} /\ SDStatus = 0 /\ SDType = 0
    /\ call = Booting
    /\ buf \in [1 .. MaxCount -> Data]

Driver ==
    \/ AppFirst
    \/ InitReset \/ InitVoltage \/ InitPoll \/ InitAwake \/ InitOcr \/ InitProbe \/ InitBlockLen
    \/ PreErase \/ StartTransfer
    \/ sdDrvGetBlock \/ BadToken \/ StopRead
    \/ sdDrvSetBlock \/ StopTran \/ sdSPIRelease

Ask ==
    \E n \in 1 .. MaxCount, s \in Asked :
        sdDrvReadSector(s, n) \/ \E blocks \in [1 .. MaxCount -> Data] : sdDrvWriteSector(s, n, blocks)

StartOver == PowerCut \/ ProcessorReset

Next == Driver \/ Programmed \/ Ask \/ StartOver

Spec == Init /\ [][Next]_vars

\* The card answers, finishes what it programs, and leaves its idle state when
\* it has been asked often enough.
Fairness == WF_vars(Driver) /\ WF_vars(Programmed) /\ SF_vars(InitAwake)

FairSpec == Spec /\ Fairness

-----------------------------------------------------------------------------
(* Properties *)

\* The driver's variables and the card keep their types: no call counts more
\* blocks than it was asked for, and the card programs one block at a time.
SdTypeOK ==
    /\ card.kind \in Kinds /\ card.ready \in BOOLEAN
    /\ card.media \in [Sectors -> Data]
    /\ \/ card.taken = <<>>
       \/ \E s \in Sectors, d \in Data : card.taken = [x \in {s} |-> d]
    /\ card.stream \in Sectors \cup {CardSize, Closed, Deaf}
    /\ cardType \in SUBSET {"CT_MMC", "CT_SD1", "CT_SD2", "CT_BLOCK"}
    /\ SDStatus \in 0 .. 1 /\ SDType \in 0 .. 3
    /\ call.op \in {"none", "init", "read", "write"}
    /\ call.at \in DOMAIN Command \cup {"home", "getBlock", "setBlock", "stopTran", "release"}
    /\ call.app \in BOOLEAN /\ call.sector \in Asked
    /\ call.count \in 0 .. MaxCount /\ call.done \in 0 .. call.count
    /\ buf \in [1 .. MaxCount -> Data]

\* sdDrvInit, once it has given the card a type, has woken it and knows how it
\* is addressed, and the user is shown what it found.
Identified ==
    call.op # "init" /\ cardType # {}
        => /\ card.ready
           /\ "CT_BLOCK" \in cardType <=> card.kind = "SDHC"
           /\ "CT_MMC" \in cardType <=> card.kind = "MMC"
           /\ SDStatus = 1
           /\ SDType = CASE card.kind = "MMC" -> 3 [] card.kind = "SD1" -> 2 [] OTHER -> 1

\* No call leaves the card in the middle of a transfer, where it would take the
\* next command for data or send data over its answer.
TransferEnded == call = NoCall => card.stream = Closed

\* What the file system is promised of the device, with the block that the
\* card is programming as the one at risk.
Promise == INSTANCE BlockDevice WITH
    disk <- card.media,
    settling <- card.taken,
    identified <- cardType # {},
    request <- IF call.op \in {"none", "init"} THEN [op |-> "none", sector |-> 0, count |-> 0, done |-> 0]
               ELSE [op |-> call.op, sector |-> call.sector, count |-> call.count, done |-> call.done],
    buffer <- buf

KeepsDevicePromise == Promise!DeviceSpec

\* With a card that answers, every call of the driver returns unless the
\* processor starts over again and again.
CallsReturn == <>[][~StartOver]_vars => (call # NoCall ~> call = NoCall)

=============================================================================
