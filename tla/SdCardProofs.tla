---------------------------- MODULE SdCardProofs ----------------------------
(* Proofs about SdCard: for every size of the card, of a block and of a    *)
(* call, and every kind of card.                                           *)
EXTENDS SdCard, TLAPS

-----------------------------------------------------------------------------
(* The invariant                                                           *)

OneBlock == {<<>>} \cup UNION {[{s} -> Data] : s \in Sectors}

Card ==
    [kind: Kinds, ready: BOOLEAN, media: [Sectors -> Data], taken: OneBlock,
     stream: Sectors \cup {CardSize, Closed, Deaf}]

Places == DOMAIN Command \cup {"home", "getBlock", "setBlock", "stopTran", "release"}

CallInProgress ==
    [op: {"none", "init", "read", "write"}, at: Places, app: BOOLEAN, sector: Asked,
     count: 0 .. MaxCount, done: 0 .. MaxCount]

Types ==
    /\ card \in Card
    /\ cardType \in SUBSET {"CT_MMC", "CT_SD1", "CT_SD2", "CT_BLOCK"}
    /\ SDStatus \in 0 .. 1 /\ SDType \in 0 .. 3
    /\ call \in CallInProgress
    /\ buf \in [1 .. MaxCount -> Data]

InitPlaces == {"reset", "voltage", "wake2", "ocr", "probe", "wakeSD", "wakeMMC", "blockLen"}
ReadPlaces == {"read1", "readN", "getBlock", "stopRead"}
WritePlaces == {"erase", "write1", "writeN", "setBlock", "stopTran"}
BlockPlaces == {"getBlock", "setBlock"}
OpenPlaces == BlockPlaces \cup {"stopRead", "stopTran"}

\* The place of a call tells the function that it is in, how many blocks it
\* has counted and whether the card has a transfer open.
Placed ==
    /\ call.at = "home" => call = NoCall
    /\ call.op = "none" => call.at = "home"
    /\ call.op = "init" => call.at \in InitPlaces
    /\ call.at \in InitPlaces => call.op = "init"
    /\ call.at \in ReadPlaces => call.op = "read"
    /\ call.at \in WritePlaces => call.op = "write"
    /\ call.at \in {"erase", "read1", "readN", "write1", "writeN"} => call.done = 0 /\ call.count > 0
    /\ call.at \in BlockPlaces => call.done < call.count
    /\ call.at = "stopTran" => call.done = call.count
    /\ call.at = "release" /\ call.op = "write" => call.done \in {0, call.count}
    /\ call.done <= call.count
    /\ call.at \notin OpenPlaces => card.stream = Closed
    /\ call.at \in BlockPlaces => card.stream # Closed

\* What sdDrvInit has found out about the card by the time it is at a place.
Learnt ==
    /\ call.at \in {"reset", "voltage", "wake2", "ocr", "probe"} => cardType = {}
    /\ call.at \in {"wake2", "ocr"} =>
          card.kind \in {"SD2", "SDHC"} /\ SDStatus = 1 /\ SDType = 1
    /\ call.at = "ocr" => card.ready
    /\ call.at = "probe" => card.kind \in {"MMC", "SD1", "Dead"}
    /\ call.at \in {"wakeSD", "wakeMMC", "blockLen"} =>
          /\ SDStatus = 1
          /\ \/ cardType = {"CT_SD1"} /\ card.kind = "SD1" /\ SDType = 2 /\ call.at # "wakeMMC"
             \/ cardType = {"CT_MMC"} /\ card.kind \in {"MMC", "Dead"} /\ SDType = 3 /\ call.at # "wakeSD"
    /\ call.at = "blockLen" => card.ready /\ card.kind # "Dead"

\* In a transfer of an identified card, the card is at the sector of the
\* caller's next block, or deaf.
InStep ==
    /\ Addressable(card.kind)
    /\ cardType # {} /\ call.at \in BlockPlaces => card.stream \in {Deaf, call.sector + call.done}

SdInv == Types /\ Placed /\ Learnt /\ Identified /\ InStep

-----------------------------------------------------------------------------
(* Places and commands                                                     *)

LEMMA PlacesAre ==
    Places = {"reset", "voltage", "wake2", "ocr", "probe", "wakeSD", "wakeMMC", "blockLen",
              "erase", "read1", "readN", "stopRead", "write1", "writeN",
              "home", "getBlock", "setBlock", "stopTran", "release"}
BY DEF Places, Command

\* The application commands, by the places that send them.
LEMMA ApplicationPlaces ==
    ASSUME NEW p \in DOMAIN Command, Command[p] \in Application
    PROVE  p \in {"wake2", "probe", "wakeSD", "erase"}
BY DEF Command, Application

LEMMA TypesOfSectors ==
    /\ CardSize \in Nat \ {0} /\ MaxCount \in Nat \ {0} /\ BlockLen \in Nat \ {0} /\ AddressLimit \in Nat \ {0}
    /\ Closed \notin Nat /\ Deaf \notin Nat /\ Closed # Deaf
    /\ Closed \notin Sectors \cup {CardSize} /\ Deaf \notin Sectors \cup {CardSize}
    /\ Sectors \subseteq Nat
    /\ \A d \in Data : WithToken[d] \subseteq Data
BY SdAssumption DEF Sectors

\* What a command does to the card: it may wake it, put it to sleep (CMD0),
\* open a transfer at a sector that its argument reaches or end one.
LEMMA ExchangeEffect ==
    ASSUME Types, NEW command, NEW argument, NEW r1, Exchange(command, argument, r1)
    PROVE  /\ card' \in Card
           /\ card'.kind = card.kind /\ card'.media = card.media /\ card'.taken = card.taken
           /\ r1 \in {0, 1, Fault}
           /\ command # "CMD0" => (card.ready => card'.ready)
           /\ command \in {"CMD0", "CMD12"} => card'.stream = Closed
           /\ command \in {"CMD17", "CMD18", "CMD24", "CMD25"} =>
                 IF r1 = 0 THEN card'.stream \in Reaches(argument) ELSE card'.stream = card.stream
           /\ command \notin {"CMD0", "CMD12", "CMD17", "CMD18", "CMD24", "CMD25"} =>
                 card'.stream = card.stream
<1>1. card \in Card
    BY DEF Types
<1>2. r1 \in R1(command, argument) /\ card' = Answered(command, argument, r1)
    BY DEF Exchange
<1>3. r1 \in {0, 1, Fault}
    BY <1>2 DEF R1
<1>4. CASE command = "CMD0"
    BY <1>1, <1>2, <1>3, <1>4 DEF Answered, Card
<1>5. CASE command \in {"ACMD41", "CMD1"} /\ r1 = 0
    BY <1>1, <1>2, <1>3, <1>5 DEF Answered, Card
<1>6. CASE command = "CMD12"
    BY <1>1, <1>2, <1>3, <1>6 DEF Answered, Card
<1>7. CASE command \in {"CMD17", "CMD18", "CMD24", "CMD25"} /\ r1 = 0
    <2>1. Reaches(argument) # {}
        BY <1>2, <1>7 DEF R1, Fault
    <2>2. Reaches(argument) \subseteq Sectors
        BY DEF Reaches
    <2> DEFINE s == CHOOSE x \in Reaches(argument) : TRUE
    <2>3. s \in Reaches(argument)
        BY <2>1
    <2>4. card' = [card EXCEPT !.stream = s]
        BY <1>2, <1>7 DEF Answered
    <2> HIDE DEF s
    <2> QED
        BY <1>1, <1>3, <1>7, <2>2, <2>3, <2>4 DEF Card
<1>8. CASE ~(command = "CMD0") /\ ~(command \in {"ACMD41", "CMD1"} /\ r1 = 0) /\ ~(command = "CMD12")
             /\ ~(command \in {"CMD17", "CMD18", "CMD24", "CMD25"} /\ r1 = 0)
    <2>1. card' = card
        BY <1>2, <1>8 DEF Answered
    <2> QED
        BY <1>1, <1>3, <1>8, <2>1
<1> QED
    BY <1>4, <1>5, <1>6, <1>7, <1>8

\* The same of sdDrvCommand, which may stop at CMD55.
LEMMA CommandEffect ==
    ASSUME Types, NEW command, NEW argument, NEW r1, sdDrvCommand(command, argument, r1)
    PROVE  /\ card' \in Card
           /\ card'.kind = card.kind /\ card'.media = card.media /\ card'.taken = card.taken
           /\ r1 \in {0, 1, Fault}
           /\ command # "CMD0" => (card.ready => card'.ready)
           /\ command \in {"CMD0", "CMD12"} => card'.stream = Closed
           /\ command \in {"CMD17", "CMD18", "CMD24", "CMD25"} =>
                 IF r1 = 0 THEN card'.stream \in Reaches(argument) ELSE card'.stream = card.stream
           /\ command \notin {"CMD0", "CMD12", "CMD17", "CMD18", "CMD24", "CMD25"} =>
                 card'.stream = card.stream
<1>1. CASE Exchange(command, argument, r1)
    BY <1>1, ExchangeEffect
<1>2. CASE command \in Application /\ Exchange("CMD55", 0, r1)
    BY <1>2, ExchangeEffect DEF Application
<1> QED
    BY <1>1, <1>2 DEF sdDrvCommand


-----------------------------------------------------------------------------
(* Types                                                                   *)

LEMMA GoToTypes ==
    ASSUME Types, NEW p \in Places, GoTo(p)
    PROVE  /\ call' \in CallInProgress
           /\ call'.op = call.op /\ call'.at = p /\ ~call'.app
           /\ call'.sector = call.sector /\ call'.count = call.count /\ call'.done = call.done
BY DEF Types, GoTo, CallInProgress

LEMMA NoCallTypes == NoCall \in CallInProgress /\ Booting \in CallInProgress
<1>1. 0 \in Asked /\ 0 \in 0 .. MaxCount /\ "home" \in Places /\ "reset" \in Places
    BY TypesOfSectors, PlacesAre DEF Asked
<1>2. NoCall \in CallInProgress
    BY <1>1 DEF NoCall, CallInProgress
<1> QED
    BY <1>1, <1>2 DEF Booting, CallInProgress

LEMMA CountTypes ==
    ASSUME Types, NEW stop \in Places, call.done < call.count, Count(stop)
    PROVE  /\ call' \in CallInProgress
           /\ call'.op = call.op /\ call'.sector = call.sector /\ call'.count = call.count
           /\ call'.done = call.done + 1 /\ call'.app = call.app
           /\ call'.at = IF call.count = 1 THEN "release"
                         ELSE IF call.done + 1 = call.count THEN stop ELSE call.at
<1>1. call \in CallInProgress /\ call.count \in 0 .. MaxCount /\ call.done + 1 \in 0 .. MaxCount
    BY TypesOfSectors DEF Types, CallInProgress
<1>2. "release" \in Places
    BY PlacesAre
<1> QED
    BY <1>1, <1>2 DEF Count, CallInProgress

LEMMA NewestTypes == ASSUME Types PROVE Newest \in [Sectors -> Data]
<1>1. card.media \in [Sectors -> Data] /\ card.taken \in OneBlock
    BY DEF Types, Card
<1>2. \A x \in DOMAIN card.taken : card.taken[x] \in Data
    <2>1. CASE card.taken = <<>>
        BY <2>1
    <2>2. ASSUME NEW s \in Sectors, card.taken \in [{s} -> Data] PROVE \A x \in DOMAIN card.taken : card.taken[x] \in Data
        BY <2>2
    <2> QED
        BY <1>1, <2>1, <2>2 DEF OneBlock
<1> QED
    BY <1>1, <1>2 DEF Newest

LEMMA InitTypes == Init => Types
<1> SUFFICES ASSUME Init PROVE Types
    OBVIOUS
<1>1. PICK k \in Kinds, m \in [Sectors -> Data] :
          card = [kind |-> k, ready |-> FALSE, media |-> m, taken |-> <<>>, stream |-> Closed]
    BY DEF Init
<1>2. card \in Card
    BY <1>1 DEF Card, OneBlock
<1> QED
    BY <1>2, NoCallTypes DEF Init, Types

LEMMA CommandTypes ==
    ASSUME Types, AppFirst \/ InitReset \/ InitVoltage \/ InitPoll \/ InitAwake \/ InitOcr
                      \/ InitProbe \/ InitBlockLen \/ PreErase \/ StartTransfer \/ StopRead
    PROVE  Types'
<1> USE PlacesAre, NoCallTypes
<1>1. CASE AppFirst
    <2>1. call' \in CallInProgress
        BY <1>1 DEF AppFirst, Types, CallInProgress
    <2> QED
        BY <1>1, <2>1, ExchangeEffect DEF AppFirst, Types
<1>2. CASE InitReset
    BY <1>2, CommandEffect, GoToTypes DEF InitReset, Types, Return
<1>3. CASE InitVoltage
    BY <1>3, CommandEffect, GoToTypes DEF InitVoltage, Types, Return
<1>4. CASE InitPoll
    BY <1>4, CommandEffect, GoToTypes DEF InitPoll, Types, AfterWake
<1>5. CASE InitAwake
    <2>1. AfterWake[call.at] \in Places
        BY <1>5 DEF InitAwake, AfterWake
    <2> QED
        BY <1>5, <2>1, CommandEffect, GoToTypes DEF InitAwake, Types
<1>6. CASE InitOcr
    BY <1>6, CommandEffect DEF InitOcr, Types, Return
<1>7. CASE InitProbe
    BY <1>7, CommandEffect, GoToTypes DEF InitProbe, Types
<1>8. CASE InitBlockLen
    <2>1. card' \in Card
        BY <1>8, CommandEffect DEF InitBlockLen
    <2>2. call' \in CallInProgress /\ buf' = buf
        BY <1>8 DEF InitBlockLen, Return
    <2>3. /\ cardType' \in SUBSET {"CT_MMC", "CT_SD1", "CT_SD2", "CT_BLOCK"}
          /\ SDStatus' \in 0 .. 1 /\ SDType' \in 0 .. 3
        <3>1. CASE UNCHANGED <<cardType, SDStatus, SDType>>
            BY <3>1 DEF Types
        <3>2. CASE cardType' = {} /\ SDStatus' = 0 /\ SDType' = 0
            BY <3>2
        <3> QED
            BY <1>8, <3>1, <3>2 DEF InitBlockLen
    <2> QED
        BY <2>1, <2>2, <2>3 DEF Types
<1>9. CASE PreErase
    BY <1>9, CommandEffect, GoToTypes DEF PreErase, Types
<1>10. CASE StartTransfer
    BY <1>10, CommandEffect, GoToTypes DEF StartTransfer, Types
<1>11. CASE StopRead
    BY <1>11, CommandEffect, GoToTypes DEF StopRead, Types
<1> QED
    BY <1>1, <1>2, <1>3, <1>4, <1>5, <1>6, <1>7, <1>8, <1>9, <1>10, <1>11

LEMMA FilledTypes ==
    ASSUME Types, call.done + 1 \in 1 .. MaxCount, NEW d \in Data, Filled(d)
    PROVE  buf' \in [1 .. MaxCount -> Data]
BY DEF Filled, Types

LEMMA BlockTypes ==
    ASSUME Types, Placed, sdDrvGetBlock \/ BadToken \/ sdDrvSetBlock
    PROVE  Types'
<1> USE PlacesAre, TypesOfSectors
<1>1. call.done < call.count /\ call.done + 1 \in 1 .. MaxCount
    BY DEF sdDrvGetBlock, BadToken, sdDrvSetBlock, Types, Placed, BlockPlaces, CallInProgress
<1>2. \A next : next \in Sectors \cup {CardSize, Closed, Deaf} => Onward(next) \in Card
    BY DEF Onward, Types, Card
<1>3. ASSUME card.stream \in Sectors PROVE card.stream + 1 \in Sectors \cup {CardSize}
    BY <1>3 DEF Sectors
<1>4. CASE sdDrvGetBlock
    <2>1. card' \in Card
        BY <1>2, <1>3, <1>4 DEF sdDrvGetBlock
    <2>2. Newest[card.stream] \in Data
        BY <1>4, NewestTypes DEF sdDrvGetBlock
    <2>3. buf' \in [1 .. MaxCount -> Data]
        BY <1>1, <1>4, <2>2, FilledTypes DEF sdDrvGetBlock
    <2> QED
        BY <1>1, <1>4, <2>1, <2>3, CountTypes DEF sdDrvGetBlock, Types
<1>5. CASE BadToken
    <2>1. PICK d \in WithToken[buf[call.done + 1]] : Filled(d)
        BY <1>5 DEF BadToken
    <2>2. buf[call.done + 1] \in Data
        BY <1>1 DEF Types
    <2>3. buf' \in [1 .. MaxCount -> Data]
        BY <1>1, <2>1, <2>2, FilledTypes
    <2> QED
        BY <1>1, <1>2, <1>5, <2>3, CountTypes, GoToTypes DEF BadToken, Types
<1>6. CASE sdDrvSetBlock
    <2>1. CASE card.stream \in Sectors /\ card' = [Onward(card.stream + 1) EXCEPT
                         !.taken = [s \in {card.stream} |-> buf[call.done + 1]]]
        <3>1. buf[call.done + 1] \in Data
            BY <1>1 DEF Types
        <3>2. [s \in {card.stream} |-> buf[call.done + 1]] \in OneBlock
            BY <2>1, <3>1 DEF OneBlock
        <3>3. Onward(card.stream + 1) \in Card
            BY <1>2, <1>3, <2>1
        <3>4. card' \in Card
            BY <2>1, <3>2, <3>3 DEF Card
        <3> QED
            BY <1>1, <1>6, <3>4, CountTypes DEF sdDrvSetBlock, Types
    <2>2. CASE card' = Onward(Deaf)
        BY <1>1, <1>2, <1>6, <2>2, CountTypes DEF sdDrvSetBlock, Types
    <2> QED
        BY <1>6, <2>1, <2>2 DEF sdDrvSetBlock
<1> QED
    BY <1>4, <1>5, <1>6

LEMMA AskTypes == ASSUME Types, Ask PROVE Types'
<1>1. PICK n \in 1 .. MaxCount, s \in Asked :
          \/ sdDrvReadSector(s, n)
          \/ \E blocks \in [1 .. MaxCount -> Data] : sdDrvWriteSector(s, n, blocks)
    BY DEF Ask
<1>2. n \in 0 .. MaxCount /\ 0 \in 0 .. MaxCount
    BY TypesOfSectors
<1>3. CASE sdDrvReadSector(s, n)
    BY <1>2, <1>3, PlacesAre DEF sdDrvReadSector, Asking, Types, CallInProgress
<1>4. ASSUME NEW blocks \in [1 .. MaxCount -> Data], sdDrvWriteSector(s, n, blocks) PROVE Types'
    BY <1>2, <1>4, PlacesAre DEF sdDrvWriteSector, Asking, Types, CallInProgress
<1> QED
    BY <1>1, <1>3, <1>4

LEMMA StartOverTypes == ASSUME Types, StartOver PROVE Types'
<1>1. CASE PowerCut
    <2>1. PICK m \in {card.media, Newest} :
              card' = [card EXCEPT !.media = m, !.taken = <<>>, !.stream = Closed, !.ready = FALSE]
        BY <1>1 DEF PowerCut
    <2>2. m \in [Sectors -> Data]
        BY NewestTypes DEF Types, Card
    <2>3. card' \in Card
        BY <2>1, <2>2 DEF Types, Card, OneBlock
    <2> QED
        BY <1>1, <2>3, NoCallTypes DEF PowerCut, Reset, Types
<1>2. CASE ProcessorReset
    BY <1>2, NoCallTypes DEF ProcessorReset, Reset, Types
<1> QED
    BY <1>1, <1>2 DEF StartOver

LEMMA TypesStep == ASSUME Types, Placed, [Next]_vars PROVE Types'
<1>1. CASE Programmed
    <2>1. card' \in Card
        BY <1>1, NewestTypes DEF Programmed, Types, Card, OneBlock
    <2> QED
        BY <1>1, <2>1 DEF Programmed, Types
<1>2. CASE StopTran
    BY <1>2, PlacesAre, GoToTypes DEF StopTran, Types, Card
<1>3. CASE sdSPIRelease
    BY <1>3, NoCallTypes DEF sdSPIRelease, Return, Types
<1>4. CASE UNCHANGED vars
    BY <1>4 DEF vars, Types
<1> QED
    BY <1>1, <1>2, <1>3, <1>4, CommandTypes, BlockTypes, AskTypes, StartOverTypes DEF Next, Driver


-----------------------------------------------------------------------------
(* Places                                                                  *)

LEMMA PlacedInit == Init => Placed
BY DEF Init, Booting, NoCall, Placed, InitPlaces, ReadPlaces, WritePlaces, BlockPlaces, OpenPlaces

\* The steps of sdDrvInit stay in it or return, and open no transfer.
LEMMA PlacedInitStep ==
    ASSUME Types, Placed,
           InitReset \/ InitVoltage \/ InitPoll \/ InitAwake \/ InitOcr \/ InitProbe \/ InitBlockLen
    PROVE  Placed'
<1> USE DEF InitPlaces, ReadPlaces, WritePlaces, BlockPlaces, OpenPlaces
<1>1. /\ call.at \in InitPlaces /\ card'.stream = Closed
      /\ call' = NoCall \/ \E p \in InitPlaces : GoTo(p)
    <2>1. CASE InitReset
        BY <2>1, CommandEffect DEF InitReset, Return
    <2>2. CASE InitVoltage
        BY <2>2, CommandEffect DEF InitVoltage, Return, Placed
    <2>3. CASE InitPoll
        BY <2>3, CommandEffect DEF InitPoll, AfterWake, Command, Placed
    <2>4. CASE InitAwake
        BY <2>4, CommandEffect DEF InitAwake, AfterWake, Command, Placed
    <2>5. CASE InitOcr
        BY <2>5, CommandEffect DEF InitOcr, Return, Placed
    <2>6. CASE InitProbe
        BY <2>6, CommandEffect DEF InitProbe, Placed
    <2>7. CASE InitBlockLen
        <3>1. card'.stream = Closed /\ call.at \in InitPlaces
            BY <2>7, CommandEffect DEF InitBlockLen, Placed
        <3> QED
            BY <2>7, <3>1 DEF InitBlockLen, Return
    <2> QED
        BY <2>1, <2>2, <2>3, <2>4, <2>5, <2>6, <2>7
<1>2. CASE call' = NoCall
    BY <1>1, <1>2 DEF NoCall, Placed
<1>3. ASSUME NEW p \in InitPlaces, GoTo(p) PROVE Placed'
    <2>1. p \in Places
        BY PlacesAre
    <2>2. call'.op = "init" /\ call'.at = p /\ call'.done = call.done /\ call'.count = call.count
        BY <1>1, <1>3, <2>1, GoToTypes DEF Placed
    <2> QED
        BY <1>1, <2>2 DEF Placed
<1> QED
    BY <1>1, <1>2, <1>3

\* The commands of a transfer: StartTransfer opens it, the others do not.
LEMMA PlacedCommandStep ==
    ASSUME Types, Placed, AppFirst \/ PreErase \/ StartTransfer \/ StopRead
    PROVE  Placed'
<1> USE TypesOfSectors, PlacesAre DEF InitPlaces, ReadPlaces, WritePlaces, BlockPlaces, OpenPlaces
<1>1. CASE AppFirst
    <2>1. card'.stream = card.stream
        BY <1>1, ExchangeEffect DEF AppFirst
    <2>2. call' = [call EXCEPT !.app = TRUE] /\ call.at # "home"
        BY <1>1 DEF AppFirst, Command
    <2>3. UNCHANGED <<call.at, call.op, call.done, call.count>>
        BY <2>2 DEF Types, CallInProgress
    <2> QED
        BY <2>1, <2>2, <2>3 DEF Placed
<1>2. CASE PreErase
    <2>1. card'.stream = Closed /\ call.at = "erase"
        BY <1>2, CommandEffect DEF PreErase, Placed
    <2> QED
        BY <1>2, <2>1, GoToTypes DEF PreErase, Placed
<1>3. CASE StartTransfer
    <2>1. call.at \in {"read1", "readN", "write1", "writeN"} /\ card.stream = Closed
        BY <1>3 DEF StartTransfer, Placed
    <2>2. CASE /\ sdDrvCommand(Command[call.at], Address(call.sector), 0)
               /\ GoTo(IF call.op = "read" THEN "getBlock" ELSE "setBlock")
        <3>1. card'.stream \in Reaches(Address(call.sector))
            BY <2>1, <2>2, CommandEffect DEF Command
        <3>2. card'.stream # Closed
            BY <3>1 DEF Reaches
        <3> QED
            BY <2>1, <2>2, <3>2, GoToTypes DEF Placed, Types, CallInProgress
    <2>3. ASSUME NEW r1 \in {1, Fault}, sdDrvCommand(Command[call.at], Address(call.sector), r1),
                 GoTo("release")
          PROVE  Placed'
        <3>1. card'.stream = Closed
            BY <2>1, <2>3, CommandEffect DEF Command, Fault
        <3> QED
            BY <2>1, <2>3, <3>1, GoToTypes DEF Placed, Types, CallInProgress
    <2> QED
        BY <1>3, <2>2, <2>3 DEF StartTransfer
<1>4. CASE StopRead
    <2>1. card'.stream = Closed /\ call.at = "stopRead"
        BY <1>4, CommandEffect DEF StopRead
    <2> QED
        BY <1>4, <2>1, GoToTypes DEF StopRead, Placed
<1> QED
    BY <1>1, <1>2, <1>3, <1>4

\* The blocks of a transfer: the last one leaves the loop.
LEMMA PlacedBlockStep ==
    ASSUME Types, Placed, sdDrvGetBlock \/ BadToken \/ sdDrvSetBlock
    PROVE  Placed'
<1> USE TypesOfSectors, PlacesAre DEF InitPlaces, ReadPlaces, WritePlaces, BlockPlaces, OpenPlaces
<1>1. call.done < call.count /\ call.done \in Nat /\ call.count \in Nat
    BY DEF sdDrvGetBlock, BadToken, sdDrvSetBlock, Placed, Types, CallInProgress
<1>2. \A next : Onward(next).stream = IF call.count = 1 THEN Closed ELSE next
    BY DEF Onward, Types, Card
<1>3. card.stream \in Sectors => card.stream + 1 # Closed
    BY DEF Sectors
<1>4. CASE sdDrvGetBlock
    BY <1>1, <1>2, <1>3, <1>4, CountTypes DEF sdDrvGetBlock, Placed
<1>5. CASE BadToken
    BY <1>1, <1>2, <1>5, CountTypes, GoToTypes DEF BadToken, Placed
<1>6. CASE sdDrvSetBlock
    <2>1. \/ card'.stream = IF call.count = 1 THEN Closed ELSE Deaf
          \/ /\ card.stream \in Sectors
             /\ card'.stream = IF call.count = 1 THEN Closed ELSE card.stream + 1
        <3>1. ASSUME NEW t, card' = [Onward(card.stream + 1) EXCEPT !.taken = t]
              PROVE  card'.stream = IF call.count = 1 THEN Closed ELSE card.stream + 1
            BY <3>1 DEF Onward, Types, Card
        <3>2. CASE card' = Onward(Deaf)
            BY <1>2, <3>2
        <3> QED
            BY <1>6, <3>1, <3>2 DEF sdDrvSetBlock
    <2> QED
        BY <1>1, <1>3, <1>6, <2>1, CountTypes DEF sdDrvSetBlock, Placed
<1> QED
    BY <1>4, <1>5, <1>6

LEMMA PlacedStep == ASSUME Types, Placed, [Next]_vars PROVE Placed'
<1> USE TypesOfSectors, PlacesAre DEF InitPlaces, ReadPlaces, WritePlaces, BlockPlaces, OpenPlaces
<1>1. CASE StopTran
    <2>1. card'.stream = Closed
        BY <1>1 DEF StopTran, Types, Card
    <2> QED
        BY <1>1, <2>1, GoToTypes DEF StopTran, Placed, Types, CallInProgress
<1>2. CASE sdSPIRelease
    BY <1>2 DEF sdSPIRelease, Return, NoCall, Placed
<1>3. CASE Programmed
    BY <1>3 DEF Programmed, Types, Card, Placed
<1>4. CASE Ask
    <2>1. PICK n \in 1 .. MaxCount, s \in Asked :
              \/ sdDrvReadSector(s, n)
              \/ \E blocks \in [1 .. MaxCount -> Data] : sdDrvWriteSector(s, n, blocks)
        BY <1>4 DEF Ask
    <2>2. CASE sdDrvReadSector(s, n)
        BY <2>2 DEF sdDrvReadSector, Asking, NoCall, Placed
    <2>3. ASSUME NEW blocks \in [1 .. MaxCount -> Data], sdDrvWriteSector(s, n, blocks) PROVE Placed'
        <3>1. /\ call = NoCall /\ UNCHANGED card
              /\ call'.at \in {"erase", "write1", "writeN"} /\ call'.op = "write"
              /\ call'.done = 0 /\ call'.count = n
            BY <2>3 DEF sdDrvWriteSector, Asking
        <3> QED
            BY <3>1 DEF NoCall, Placed
    <2>4. CASE \E blocks \in [1 .. MaxCount -> Data] : sdDrvWriteSector(s, n, blocks)
        BY <2>3, <2>4
    <2> QED
        BY <2>1, <2>2, <2>4
<1>5. CASE StartOver
    <2>1. call' = Booting
        BY <1>5 DEF StartOver, PowerCut, ProcessorReset, Reset
    <2>2. card'.stream = Closed
        <3>1. ASSUME NEW m, card' = [card EXCEPT !.media = m, !.taken = <<>>, !.stream = Closed, !.ready = FALSE]
              PROVE  card'.stream = Closed
            BY <3>1 DEF Types, Card
        <3> QED
            BY <1>5, <3>1 DEF StartOver, PowerCut, ProcessorReset
    <2> QED
        BY <2>1, <2>2 DEF Booting, NoCall, Placed
<1>6. CASE UNCHANGED vars
    BY <1>6 DEF vars, Placed
<1> QED
    BY <1>1, <1>2, <1>3, <1>4, <1>5, <1>6, PlacedInitStep, PlacedCommandStep, PlacedBlockStep
    DEF Next, Driver

\* No call of the driver leaves the card in the middle of a transfer, whatever
\* the card answers and wherever the processor starts over.
THEOREM TransfersEnd == Spec => []TransferEnded
<1>1. Init => Types /\ Placed
    BY InitTypes, PlacedInit
<1>2. Types /\ Placed /\ [Next]_vars => (Types /\ Placed)'
    BY TypesStep, PlacedStep
<1>3. Placed => TransferEnded
    BY DEF Placed, TransferEnded, NoCall, OpenPlaces, BlockPlaces
<1> QED
    BY <1>1, <1>2, <1>3, PTL DEF Spec


-----------------------------------------------------------------------------
(* What sdDrvInit learns of the card                                       *)

\* The answers tell the kinds of cards apart.
LEMMA AnswersTell ==
    ASSUME Types, NEW argument, NEW r1
    PROVE  /\ sdDrvCommand("CMD8", argument, r1) => (r1 = 1 <=> card.kind \in Version2)
           /\ sdDrvCommand("ACMD41", argument, r1) => (r1 = Fault <=> card.kind \in {"MMC", "Dead"})
           /\ sdDrvCommand("CMD1", argument, r1) /\ r1 = 0 => card.kind = "MMC"
           /\ sdDrvCommand("CMD16", argument, r1) /\ r1 = 0 => card.kind # "Dead"
           /\ \A command \in {"ACMD41", "CMD1"} :
                 sdDrvCommand(command, argument, r1) /\ r1 = 0 => card'.ready
<1> USE DEF Version2, Fault, Application
<1>1. card.kind \in Kinds /\ card.ready \in BOOLEAN
    BY DEF Types, Card
<1>2. sdDrvCommand("CMD8", argument, r1) => (r1 = 1 <=> card.kind \in Version2)
    BY DEF sdDrvCommand, Exchange, R1
<1>3. sdDrvCommand("ACMD41", argument, r1) => (r1 = Fault <=> card.kind \in {"MMC", "Dead"})
    <2>1. CASE Exchange("ACMD41", argument, r1)
        BY <1>1, <2>1 DEF Exchange, R1
    <2>2. CASE Exchange("CMD55", 0, r1) /\ r1 > 1
        BY <1>1, <2>2 DEF Exchange, R1
    <2> QED
        BY <2>1, <2>2 DEF sdDrvCommand
<1>4. sdDrvCommand("CMD1", argument, r1) /\ r1 = 0 => card.kind = "MMC"
    BY DEF sdDrvCommand, Exchange, R1
<1>5. sdDrvCommand("CMD16", argument, r1) /\ r1 = 0 => card.kind # "Dead"
    <2>1. sdDrvCommand("CMD16", argument, r1) => r1 \in R1("CMD16", argument)
        BY DEF sdDrvCommand, Exchange
    <2> QED
        BY <2>1 DEF R1
<1>6. ASSUME NEW command \in {"ACMD41", "CMD1"}, sdDrvCommand(command, argument, r1), r1 = 0
      PROVE  card'.ready
    <2>1. card' = [card EXCEPT !.ready = TRUE]
        BY <1>6 DEF sdDrvCommand, Exchange, Answered
    <2> QED
        BY <2>1 DEF Types, Card
<1> QED
    BY <1>2, <1>3, <1>4, <1>5, <1>6

LEMMA LearntInit == Init => Learnt /\ Identified
BY DEF Init, Booting, NoCall, Learnt, Identified

\* Outside sdDrvInit nothing more is learnt, and the card stays awake.
LEMMA NothingLearnt ==
    ASSUME Placed, Identified, UNCHANGED <<cardType, SDStatus, SDType>>,
           card'.kind = card.kind, card.ready => card'.ready,
           call.op # "init", call'.at \notin InitPlaces
    PROVE  Learnt' /\ Identified'
BY DEF Learnt, Identified, InitPlaces

LEMMA LearntInitStep ==
    ASSUME Types, Placed, Learnt,
           InitReset \/ InitVoltage \/ InitPoll \/ InitAwake \/ InitOcr \/ InitProbe \/ InitBlockLen
    PROVE  Learnt' /\ Identified'
<1> USE PlacesAre DEF InitPlaces
<1>1. CASE InitReset
    BY <1>1, GoToTypes DEF InitReset, Return, NoCall, Learnt, Identified, Placed
<1>2. CASE InitVoltage
    <2>1. CASE sdDrvCommand("CMD8", 426, 1) /\ SDStatus' = 1 /\ SDType' = 1
               /\ IF card.kind = "Unfit" THEN Return ELSE GoTo("wake2")
        <3>1. card'.kind = card.kind /\ card.kind \in Version2
            BY <2>1, CommandEffect, AnswersTell
        <3>2. cardType' = {}
            BY <1>2 DEF InitVoltage, Learnt
        <3> QED
            BY <2>1, <3>1, <3>2, GoToTypes DEF Version2, Return, NoCall, Learnt, Identified, Placed
    <2>2. ASSUME NEW r1 \in {0, Fault}, sdDrvCommand("CMD8", 426, r1), GoTo("probe") PROVE Learnt' /\ Identified'
        <3>1. card'.kind = card.kind /\ card.kind \notin Version2 /\ card.kind \in Kinds
            BY <2>2, CommandEffect, AnswersTell DEF Fault, Types, Card
        <3>2. cardType' = {} /\ call.op = "init"
            BY <1>2 DEF InitVoltage, Learnt, Placed
        <3> QED
            BY <2>2, <3>1, <3>2, GoToTypes DEF Version2, Kinds, Learnt, Identified
    <2> QED
        BY <1>2, <2>1, <2>2 DEF InitVoltage
<1>3. CASE InitPoll
    <2>1. card'.kind = card.kind /\ call.at \in {"wake2", "wakeSD", "wakeMMC"}
        BY <1>3, CommandEffect DEF InitPoll, AfterWake
    <2>2. UNCHANGED <<cardType, SDStatus, SDType>> /\ call'.at = call.at /\ call'.op = "init"
        BY <1>3, <2>1, GoToTypes DEF InitPoll, Placed
    <2> QED
        BY <2>1, <2>2 DEF Learnt, Identified
<1>4. CASE InitAwake
    <2>1. call.at \in {"wake2", "wakeSD", "wakeMMC"} /\ card'.kind = card.kind
        BY <1>4, CommandEffect DEF InitAwake, AfterWake
    <2>2. card'.ready
        BY <1>4, <2>1, AnswersTell DEF InitAwake, Command
    <2>3. call.at = "wakeMMC" => card.kind # "Dead"
        BY <1>4, AnswersTell DEF InitAwake, Command
    <2>4. /\ UNCHANGED <<cardType, SDStatus, SDType>> /\ call'.op = "init"
          /\ call'.at = IF call.at = "wake2" THEN "ocr" ELSE "blockLen"
        BY <1>4, <2>1, GoToTypes DEF InitAwake, AfterWake, Placed
    <2> QED
        BY <2>1, <2>2, <2>3, <2>4 DEF Learnt, Identified
<1>5. CASE InitOcr
    <2>1. /\ card'.kind = card.kind /\ (card.ready => card'.ready)
          /\ call.at = "ocr" /\ call' = NoCall /\ UNCHANGED <<SDStatus, SDType>>
        BY <1>5, CommandEffect DEF InitOcr, Return
    <2>2. cardType' \in {{}, {"CT_SD2"} \cup (IF card.kind = "SDHC" THEN {"CT_BLOCK"} ELSE {})}
        BY <1>5, <2>1 DEF InitOcr, Learnt
    <2> QED
        BY <2>1, <2>2 DEF NoCall, Learnt, Identified
<1>6. CASE InitProbe
    <2>1. call.at = "probe" /\ call.op = "init" /\ SDStatus' = 1 /\ card.kind \in {"MMC", "SD1", "Dead"}
        BY <1>6 DEF InitProbe, Learnt, Placed
    <2>2. ASSUME NEW r1 \in {0, 1}, sdDrvCommand("ACMD41", 0, r1),
                 SDType' = 2, cardType' = {"CT_SD1"}, GoTo("wakeSD")
          PROVE  Learnt' /\ Identified'
        <3>1. card'.kind = "SD1"
            BY <2>1, <2>2, CommandEffect, AnswersTell DEF Fault
        <3> QED
            BY <2>1, <2>2, <3>1, GoToTypes DEF Learnt, Identified
    <2>3. CASE sdDrvCommand("ACMD41", 0, Fault) /\ SDType' = 3 /\ cardType' = {"CT_MMC"} /\ GoTo("wakeMMC")
        <3>1. card'.kind \in {"MMC", "Dead"}
            BY <2>1, <2>3, CommandEffect, AnswersTell DEF Fault
        <3> QED
            BY <2>1, <2>3, <3>1, GoToTypes DEF Learnt, Identified
    <2> QED
        BY <1>6, <2>2, <2>3 DEF InitProbe
<1>7. CASE InitBlockLen
    <2>1. /\ card'.kind = card.kind /\ (card.ready => card'.ready)
          /\ call.at = "blockLen" /\ call' = NoCall
        BY <1>7, CommandEffect DEF InitBlockLen, Return
    <2>2. cardType' = {} \/ UNCHANGED <<cardType, SDStatus, SDType>>
        BY <1>7 DEF InitBlockLen
    <2> QED
        BY <2>1, <2>2 DEF NoCall, Learnt, Identified
<1> QED
    BY <1>1, <1>2, <1>3, <1>4, <1>5, <1>6, <1>7

LEMMA LearntStep == ASSUME Types, Placed, Learnt, Identified, [Next]_vars PROVE Learnt' /\ Identified'
<1> USE PlacesAre DEF InitPlaces
<1>1. CASE AppFirst
    <2>1. /\ card'.kind = card.kind /\ (card.ready => card'.ready)
          /\ UNCHANGED <<cardType, SDStatus, SDType>> /\ call' = [call EXCEPT !.app = TRUE]
        BY <1>1, ExchangeEffect DEF AppFirst
    <2>2. UNCHANGED <<call.at, call.op>>
        BY <2>1 DEF Types, CallInProgress
    <2> QED
        BY <2>1, <2>2 DEF Learnt, Identified
<1>2. CASE PreErase \/ StartTransfer \/ StopRead
    <2>1. /\ card'.kind = card.kind /\ (card.ready => card'.ready)
          /\ UNCHANGED <<cardType, SDStatus, SDType>>
        <3>1. ASSUME NEW r1, NEW argument, NEW c \in {"CMD12", "ACMD23", "CMD17", "CMD18", "CMD24", "CMD25"},
                     sdDrvCommand(c, argument, r1)
              PROVE  card'.kind = card.kind /\ (card.ready => card'.ready)
            BY <3>1, CommandEffect
        <3> QED
            BY <1>2, <3>1 DEF PreErase, StartTransfer, StopRead, Command
    <2>2. /\ call.op # "init" 
          /\ call'.at \in {"writeN", "getBlock", "setBlock", "release"}
        BY <1>2, GoToTypes DEF PreErase, StartTransfer, StopRead, Placed
    <2> QED
        BY <2>1, <2>2, NothingLearnt
<1>3. CASE sdDrvGetBlock \/ BadToken \/ sdDrvSetBlock
    <2>1. /\ call.at \in BlockPlaces /\ call.op # "init" /\ call.done < call.count
          /\ UNCHANGED <<cardType, SDStatus, SDType>>
        BY <1>3 DEF sdDrvGetBlock, BadToken, sdDrvSetBlock, BlockPlaces, Placed
    <2>2. card'.kind = card.kind /\ card'.ready = card.ready
        BY <1>3 DEF sdDrvGetBlock, BadToken, sdDrvSetBlock, Onward, Types, Card
    <2>3. call'.at \in {"release", "stopRead", "stopTran", call.at}
        BY <1>3, <2>1, CountTypes, GoToTypes DEF sdDrvGetBlock, BadToken, sdDrvSetBlock
    <2> QED
        BY <2>1, <2>2, <2>3, NothingLearnt DEF BlockPlaces
<1>4. CASE StopTran \/ sdSPIRelease
    <2>1. /\ card'.kind = card.kind /\ card'.ready = card.ready
          /\ UNCHANGED <<cardType, SDStatus, SDType>> /\ call.op # "init"
          /\ call'.at \in {"home", "release"}
        BY <1>4, GoToTypes DEF StopTran, sdSPIRelease, Return, NoCall, Types, Card, Placed
    <2> QED
        BY <2>1, NothingLearnt
<1>5. CASE Programmed
    BY <1>5 DEF Programmed, Types, Card, Learnt, Identified
<1>6. CASE Ask
    <2>1. /\ UNCHANGED <<card, cardType, SDStatus, SDType>> /\ call.op # "init"
          /\ call'.at \in {"read1", "readN", "write1", "writeN", "erase"}
        BY <1>6 DEF Ask, sdDrvReadSector, sdDrvWriteSector, Asking, NoCall
    <2> QED
        BY <2>1, NothingLearnt
<1>7. CASE StartOver
    BY <1>7 DEF StartOver, PowerCut, ProcessorReset, Reset, Booting, NoCall, Learnt, Identified
<1>8. CASE UNCHANGED vars
    BY <1>8 DEF vars, Learnt, Identified
<1> QED
    BY <1>1, <1>2, <1>3, <1>4, <1>5, <1>6, <1>7, <1>8, LearntInitStep DEF Next, Driver


-----------------------------------------------------------------------------
(* The sector of the next block                                            *)

\* The address of a sector reaches that sector, in bytes as in blocks.
LEMMA AddressReaches ==
    ASSUME Types, Addressable(card.kind), "CT_BLOCK" \in cardType <=> card.kind = "SDHC",
           NEW s \in Asked, NEW t \in Reaches(Address(s))
    PROVE  t = s
<1> USE TypesOfSectors
<1>1. CASE card.kind = "SDHC"
    BY <1>1 DEF Address, Reaches
<1>2. CASE card.kind # "SDHC"
    <2>1. s \in Nat /\ s <= CardSize /\ t \in Nat
        <3>1. t \in Sectors
            BY <1>2 DEF Reaches
        <3> QED
            BY <3>1 DEF Asked, Sectors
    <2>2. s * BlockLen <= CardSize * BlockLen /\ s * BlockLen \in Nat /\ CardSize * BlockLen \in Nat
        BY <2>1
    <2>3. s * BlockLen < AddressLimit
        BY <1>2, <2>2 DEF Addressable
    <2>4. (s * BlockLen) % AddressLimit = s * BlockLen
        BY <2>2, <2>3
    <2>5. t * BlockLen = s * BlockLen
        BY <1>2, <2>4 DEF Address, Reaches
    <2>6. \A a, b \in Nat : a < b => a * BlockLen < b * BlockLen
        OBVIOUS
    <2> QED
        BY <2>1, <2>5, <2>6
<1> QED
    BY <1>1, <1>2

LEMMA InStepInit == Init => InStep
BY DEF Init, InStep, Addressable

\* A card remains what it is.
LEMMA SameCard == ASSUME Types, [Next]_vars PROVE card'.kind = card.kind
<1>1. CASE AppFirst
    BY <1>1, ExchangeEffect DEF AppFirst
<1>2. CASE \/ InitReset \/ InitVoltage \/ InitPoll \/ InitAwake \/ InitOcr \/ InitProbe
           \/ PreErase \/ StartTransfer \/ StopRead
    BY <1>2, CommandEffect DEF InitReset, InitVoltage, InitPoll, InitAwake, InitOcr, InitProbe,
                               PreErase, StartTransfer, StopRead
<1>3. CASE InitBlockLen
    BY <1>3, CommandEffect DEF InitBlockLen
<1>4. CASE sdDrvGetBlock \/ BadToken \/ sdDrvSetBlock
    BY <1>4 DEF sdDrvGetBlock, BadToken, sdDrvSetBlock, Onward, Types, Card
<1>5. CASE StopTran \/ sdSPIRelease \/ Programmed
    BY <1>5 DEF StopTran, sdSPIRelease, Programmed, Types, Card
<1>6. CASE Ask
    BY <1>6 DEF Ask, sdDrvReadSector, sdDrvWriteSector, Asking
<1>7. CASE StartOver
    <2>1. ASSUME NEW m, card' = [card EXCEPT !.media = m, !.taken = <<>>, !.stream = Closed, !.ready = FALSE]
          PROVE  card'.kind = card.kind
        BY <2>1 DEF Types, Card
    <2> QED
        BY <1>7, <2>1 DEF StartOver, PowerCut, ProcessorReset
<1>8. CASE UNCHANGED vars
    BY <1>8 DEF vars
<1> QED
    BY <1>1, <1>2, <1>3, <1>4, <1>5, <1>6, <1>7, <1>8 DEF Next, Driver

\* A transfer begins at the sector asked for and goes on with every block.
LEMMA InStepStep ==
    ASSUME Types, Placed, Identified, InStep, [Next]_vars
    PROVE  InStep'
<1> USE PlacesAre, TypesOfSectors DEF BlockPlaces
<1>1. Addressable(card'.kind)
    BY SameCard DEF InStep
<1> SUFFICES ASSUME cardType' # {}, call'.at \in BlockPlaces
             PROVE  card'.stream \in {Deaf, call'.sector + call'.done}
    BY <1>1 DEF InStep
<1>2. CASE StartTransfer
    <2>1. call.at \in {"read1", "readN", "write1", "writeN"} /\ call.op # "init" /\ call.done = 0
          /\ call.sector \in Asked /\ cardType' = cardType
        BY <1>2 DEF StartTransfer, Placed, InitPlaces, Types, CallInProgress
    <2>2. sdDrvCommand(Command[call.at], Address(call.sector), 0)
          /\ GoTo(IF call.op = "read" THEN "getBlock" ELSE "setBlock")
        BY <1>2, GoToTypes DEF StartTransfer
    <2>3. card'.stream \in Reaches(Address(call.sector))
        BY <2>1, <2>2, CommandEffect DEF Command
    <2>4. "CT_BLOCK" \in cardType <=> card.kind = "SDHC"
        BY <2>1 DEF Identified
    <2>5. card'.stream = call.sector
        BY <2>1, <2>3, <2>4, AddressReaches DEF InStep
    <2>6. call'.sector = call.sector /\ call'.done = 0
        BY <2>1, <2>2, GoToTypes
    <2> QED
        BY <2>1, <2>5, <2>6 DEF Asked
<1>3. CASE sdDrvGetBlock \/ sdDrvSetBlock
    <2>1. /\ call.at \in BlockPlaces /\ call.done < call.count /\ cardType' = cardType
          /\ call.done \in Nat /\ call.sector \in Nat
        BY <1>3 DEF sdDrvGetBlock, sdDrvSetBlock, Placed, Types, CallInProgress, Asked
    <2>2. /\ call.count # 1
          /\ call'.sector = call.sector /\ call'.done = call.done + 1
        BY <1>3, <2>1, CountTypes DEF sdDrvGetBlock, sdDrvSetBlock
    <2>3. \/ card'.stream = Deaf
          \/ card.stream \in Sectors /\ card'.stream = card.stream + 1
        <3>1. \A next : Onward(next).stream = next
            BY <2>2 DEF Onward, Types, Card
        <3>2. ASSUME NEW t, card' = [Onward(card.stream + 1) EXCEPT !.taken = t]
              PROVE  card'.stream = card.stream + 1
            BY <2>2, <3>2 DEF Onward, Types, Card
        <3> QED
            BY <1>3, <3>1, <3>2 DEF sdDrvGetBlock, sdDrvSetBlock
    <2> QED
        BY <2>1, <2>2, <2>3 DEF InStep, Sectors
<1>4. CASE Programmed
    BY <1>4 DEF Programmed, Types, Card, InStep
<1>5. CASE UNCHANGED vars
    BY <1>5 DEF vars, InStep
<1>6. CASE AppFirst
    BY <1>6 DEF AppFirst, Command, Types, CallInProgress
<1>7. CASE BadToken
    BY <1>7, CountTypes, GoToTypes DEF BadToken, Placed
<1>8. CASE \/ InitReset \/ InitVoltage \/ InitPoll \/ InitAwake \/ InitOcr \/ InitProbe \/ InitBlockLen
           \/ PreErase \/ StopRead \/ StopTran \/ sdSPIRelease
    BY <1>8, GoToTypes DEF InitReset, InitVoltage, InitPoll, InitAwake, InitOcr, InitProbe, InitBlockLen,
                           PreErase, StopRead, StopTran, sdSPIRelease, Return, NoCall, AfterWake
<1>9. CASE Ask \/ StartOver
    BY <1>9 DEF Ask, sdDrvReadSector, sdDrvWriteSector, Asking, StartOver, PowerCut, ProcessorReset,
                Reset, Booting, NoCall
<1> QED
    BY <1>2, <1>3, <1>4, <1>5, <1>6, <1>7, <1>8, <1>9 DEF Next, Driver

-----------------------------------------------------------------------------
(* The theorems                                                            *)

LEMMA SdInvariant == Spec => []SdInv
<1>1. Init => SdInv
    BY InitTypes, PlacedInit, LearntInit, InStepInit DEF SdInv
<1>2. SdInv /\ [Next]_vars => SdInv'
    BY TypesStep, PlacedStep, LearntStep, InStepStep DEF SdInv
<1> QED
    BY <1>1, <1>2, PTL DEF Spec

\* The driver's variables and the card keep their types: in particular no call
\* counts more blocks than it was asked for.
THEOREM SdTypeCorrect == Spec => []SdTypeOK
<1>1. SdInv => SdTypeOK
    <2> SUFFICES ASSUME Types, Placed PROVE SdTypeOK
        BY DEF SdInv
    <2>1. call.done \in 0 .. call.count
        BY DEF Types, Placed, CallInProgress
    <2>2. \/ card.taken = <<>>
          \/ \E s \in Sectors, d \in Data : card.taken = [x \in {s} |-> d]
        <3>1. card.taken \in OneBlock
            BY DEF Types, Card
        <3>2. ASSUME NEW s \in Sectors, card.taken \in [{s} -> Data]
              PROVE  \E d \in Data : card.taken = [x \in {s} |-> d]
            <4>1. card.taken[s] \in Data /\ card.taken = [x \in {s} |-> card.taken[s]]
                BY <3>2
            <4> QED
                BY <4>1
        <3> QED
            BY <3>1, <3>2 DEF OneBlock
    <2> QED
        BY <2>1, <2>2 DEF SdTypeOK, Types, Card, CallInProgress, Places
<1> QED
    BY <1>1, SdInvariant, PTL

\* A card that sdDrvInit has given a type is awake, is addressed in the unit
\* that it expects and is shown to the user as what it is.
THEOREM CardIdentified == Spec => []Identified
<1>1. SdInv => Identified
    BY DEF SdInv
<1> QED
    BY <1>1, SdInvariant, PTL


-----------------------------------------------------------------------------
(* The driver implements the device                                        *)

\* The request that the file system sees, as KeepsDevicePromise has it.
Request ==
    IF call.op \in {"none", "init"} THEN [op |-> "none", sector |-> 0, count |-> 0, done |-> 0]
    ELSE [op |-> call.op, sector |-> call.sector, count |-> call.count, done |-> call.done]

DeviceNext ==
    \/ Promise!Ask \/ Promise!Move \/ Promise!MoveNothing \/ Promise!Spoil \/ Promise!Answer
    \/ Promise!Settle \/ Promise!Identify \/ Promise!StartOver

Seen == <<card.media, card.taken, cardType # {}, Request, buf>>

LEMMA SeenIsDevice == UNCHANGED Seen => UNCHANGED Promise!device
BY DEF Promise!device, Seen, Request

\* Steps at other places than the blocks of a transfer are hidden from the
\* caller, but for the return and for what sdDrvInit finds out.
LEMMA CommandIsHidden ==
    ASSUME SdInv, AppFirst \/ PreErase \/ StartTransfer \/ StopRead \/ StopTran
    PROVE  UNCHANGED Seen
<1>1. Types
    BY DEF SdInv
<1>2. card'.media = card.media /\ card'.taken = card.taken
    BY <1>1, ExchangeEffect, CommandEffect
    DEF AppFirst, PreErase, StartTransfer, StopRead, StopTran, Types, Card
<1>3. cardType' = cardType /\ buf' = buf
    BY DEF AppFirst, PreErase, StartTransfer, StopRead, StopTran
<1>4. /\ call'.op = call.op /\ call'.sector = call.sector
      /\ call'.count = call.count /\ call'.done = call.done
    <2>1. CASE AppFirst
        BY <1>1, <2>1 DEF AppFirst, Types, CallInProgress
    <2>2. CASE PreErase \/ StartTransfer \/ StopRead \/ StopTran
        BY <1>1, <2>2, PlacesAre, GoToTypes DEF PreErase, StartTransfer, StopRead, StopTran
    <2> QED
        BY <2>1, <2>2
<1> QED
    BY <1>2, <1>3, <1>4 DEF Seen, Request

LEMMA InitIdentifies ==
    ASSUME SdInv,
           InitReset \/ InitVoltage \/ InitPoll \/ InitAwake \/ InitOcr \/ InitProbe \/ InitBlockLen
    PROVE  Promise!Identify \/ UNCHANGED Seen
<1>1. Types /\ Placed
    BY DEF SdInv
<1>2. call.op = "init" /\ call'.op \in {"none", "init"}
    BY <1>1, PlacesAre, GoToTypes
    DEF InitReset, InitVoltage, InitPoll, InitAwake, InitOcr, InitProbe, InitBlockLen, AfterWake,
        Return, NoCall, Placed, InitPlaces
<1>3. card'.media = card.media /\ card'.taken = card.taken
    <2>1. CASE InitBlockLen
        BY <1>1, <2>1, CommandEffect DEF InitBlockLen
    <2>2. CASE ~InitBlockLen
        BY <1>1, <2>2, CommandEffect DEF InitReset, InitVoltage, InitPoll, InitAwake, InitOcr, InitProbe
    <2> QED
        BY <2>1, <2>2
<1>4. buf' = buf
    BY DEF InitReset, InitVoltage, InitPoll, InitAwake, InitOcr, InitProbe, InitBlockLen
<1> QED
    BY <1>2, <1>3, <1>4 DEF Promise!Identify, Promise!NoRequest, Seen, Request

\* A block of an identified card goes to or from the sector that is its turn,
\* or is refused; a refused block of a read is spoilt.
LEMMA BlockMoves ==
    ASSUME SdInv, sdDrvGetBlock \/ BadToken \/ sdDrvSetBlock
    PROVE  Promise!Move \/ Promise!MoveNothing \/ Promise!Spoil
<1>1. Types /\ Placed /\ InStep
    BY DEF SdInv
<1>2. call.at \in BlockPlaces /\ call.done < call.count /\ call.done \in Nat /\ call.count \in Nat
    BY <1>1 DEF sdDrvGetBlock, BadToken, sdDrvSetBlock, BlockPlaces, Placed, Types, CallInProgress
<1>3. Request = [op |-> call.op, sector |-> call.sector, count |-> call.count, done |-> call.done]
    BY <1>1, <1>2 DEF Request, Placed, BlockPlaces, ReadPlaces, WritePlaces
<1>4. ASSUME NEW stop \in {"stopRead", "stopTran"}, Count(stop)
      PROVE  Request' = [Request EXCEPT !.done = @ + 1] /\ Request'.done = call.done + 1
    <2>1. /\ call'.op = call.op /\ call'.sector = call.sector /\ call'.count = call.count
          /\ call'.done = call.done + 1
        BY <1>1, <1>2, <1>4, PlacesAre, CountTypes
    <2> QED
        BY <1>2, <1>3, <2>1 DEF Request
<1>5. \A next : Onward(next).media = card.media /\ Onward(next).taken = card.taken
    BY <1>1 DEF Onward, Types, Card
<1>6. ASSUME cardType # {}, card.stream \in Sectors PROVE card.stream = call.sector + call.done
    BY <1>1, <1>2, <1>6, TypesOfSectors DEF InStep
<1>7. CASE sdDrvGetBlock
    <2>1. Request.op = "read" /\ Request.done < Request.count
        BY <1>1, <1>2, <1>3, <1>7 DEF sdDrvGetBlock, Placed, ReadPlaces
    <2> QED
        BY <1>3, <1>4, <1>5, <1>6, <1>7, <2>1
        DEF sdDrvGetBlock, Filled, Promise!Move, Promise!Newest, Newest, Request
<1>8. CASE BadToken
    <2>1. Request.op = "read" /\ Request.done < Request.count /\ Request.done = call.done
        BY <1>1, <1>2, <1>3, <1>8 DEF BadToken, Placed, ReadPlaces
    <2>2. \E d \in WithToken[buf[Request.done + 1]] : buf' = [buf EXCEPT ![Request.done + 1] = d]
        BY <1>8, <2>1 DEF BadToken, Filled
    <2>3. card'.media = card.media /\ card'.taken = card.taken /\ cardType' = cardType
        BY <1>5, <1>8 DEF BadToken
    <2>4. Request' = IF Request.count = 1 THEN [Request EXCEPT !.done = @ + 1] ELSE Request
        <3>1. CASE call.count = 1
            BY <1>3, <1>4, <1>8, <3>1 DEF BadToken
        <3>2. CASE call.count # 1
            BY <1>1, <1>3, <1>8, <3>2, PlacesAre, GoToTypes DEF BadToken, Request
        <3> QED
            BY <3>1, <3>2
    <2> QED
        BY <2>1, <2>2, <2>3, <2>4 DEF Promise!Spoil, Request
<1>9. CASE sdDrvSetBlock
    <2>1. Request.op = "write" /\ Request.done < Request.count
        BY <1>1, <1>2, <1>3, <1>9 DEF sdDrvSetBlock, Placed, WritePlaces
    <2>2. CASE card' = Onward(Deaf)
        BY <1>2, <1>3, <1>4, <1>5, <1>9, <2>1, <2>2 DEF sdDrvSetBlock, Promise!MoveNothing, Request
    <2>3. CASE card.stream \in Sectors /\ card' = [Onward(card.stream + 1) EXCEPT
                   !.taken = [s \in {card.stream} |-> buf[call.done + 1]]]
        <3>1. /\ card'.media = card.media
              /\ card'.taken = [s \in {card.stream} |-> buf[call.done + 1]]
            BY <1>1, <2>3 DEF Onward, Types, Card
        <3> QED
            BY <1>2, <1>3, <1>4, <1>6, <1>9, <2>1, <2>3, <3>1
            DEF sdDrvSetBlock, Busy, Promise!Move, Request
    <2> QED
        BY <1>9, <2>2, <2>3 DEF sdDrvSetBlock
<1> QED
    BY <1>7, <1>8, <1>9

LEMMA DeviceStep == ASSUME SdInv, [Next]_vars PROVE DeviceNext \/ UNCHANGED Seen
<1>1. Types /\ Placed
    BY DEF SdInv
<1>2. CASE sdSPIRelease
    <2>1. /\ call.op \in {"read", "write"} /\ (call.op = "write" => call.done \in {0, call.count})
          /\ call' = NoCall /\ UNCHANGED <<card, cardType, buf>>
        BY <1>1, <1>2 DEF sdSPIRelease, Return, Placed, Types, CallInProgress, InitPlaces
    <2>2. Promise!Answer
        BY <2>1 DEF Promise!Answer, Promise!NoRequest, NoCall
    <2> QED
        BY <2>2 DEF DeviceNext
<1>3. CASE Programmed
    <2>1. card'.media = Newest /\ card'.taken = <<>> /\ UNCHANGED <<cardType, call, buf>>
        BY <1>1, <1>3 DEF Programmed, Types, Card
    <2>2. Promise!Settle
        BY <2>1 DEF Promise!Settle, Promise!Newest, Newest
    <2> QED
        BY <2>2 DEF DeviceNext
<1>4. CASE Ask
    <2>1. PICK n \in 1 .. MaxCount, s \in Asked :
              \/ sdDrvReadSector(s, n)
              \/ \E blocks \in [1 .. MaxCount -> Data] : sdDrvWriteSector(s, n, blocks)
        BY <1>4 DEF Ask
    <2>2. PICK o \in {"read", "write"} :
              /\ call = NoCall /\ call'.op = o /\ call'.sector = s /\ call'.count = n /\ call'.done = 0
              /\ UNCHANGED <<card, cardType>>
              /\ \/ o = "read" /\ UNCHANGED buf
                 \/ o = "write" /\ buf' \in [1 .. MaxCount -> Data]
        BY <2>1 DEF sdDrvReadSector, sdDrvWriteSector, Asking
    <2>3. Promise!Ask
        BY <2>2 DEF Promise!Ask, Promise!NoRequest, NoCall
    <2> QED
        BY <2>3 DEF DeviceNext
<1>5. CASE StartOver
    <2>1. /\ call' = Booting /\ cardType' = {} /\ UNCHANGED buf
        BY <1>5 DEF StartOver, PowerCut, ProcessorReset, Reset
    <2>2. \/ card'.media \in {card.media, Newest} /\ card'.taken = <<>>
          \/ UNCHANGED card
        <3>1. ASSUME NEW m \in {card.media, Newest},
                     card' = [card EXCEPT !.media = m, !.taken = <<>>, !.stream = Closed, !.ready = FALSE]
              PROVE  card'.media = m /\ card'.taken = <<>>
            BY <1>1, <3>1 DEF Types, Card
        <3> QED
            BY <1>5, <3>1 DEF StartOver, PowerCut, ProcessorReset
    <2>3. Promise!StartOver
        BY <2>1, <2>2 DEF Promise!StartOver, Promise!NoRequest, Promise!Newest, Newest, Booting, NoCall
    <2> QED
        BY <2>3 DEF DeviceNext
<1>6. CASE UNCHANGED vars
    BY <1>6 DEF vars, Seen, Request
<1> QED
    BY <1>2, <1>3, <1>4, <1>5, <1>6, CommandIsHidden, InitIdentifies, BlockMoves
    DEF Next, Driver, DeviceNext

\* The driver implements the device that the file system is promised: every
\* counted block of an identified card went to or from its sector or was
\* refused, in order, a refused block of a read has the error token in it, and
\* at most the last block written is at risk.
THEOREM DriverKeepsPromise == Spec => KeepsDevicePromise
<1>1. Init => Promise!DeviceInit
    <2> SUFFICES ASSUME Init PROVE Promise!DeviceInit
        OBVIOUS
    <2>1. PICK k \in Kinds, m \in [Sectors -> Data] :
              card = [kind |-> k, ready |-> FALSE, media |-> m, taken |-> <<>>, stream |-> Closed]
        BY DEF Init
    <2>2. card.media \in [Sectors -> Data] /\ card.taken = <<>>
        BY <2>1
    <2> QED
        BY <2>2 DEF Init, Promise!DeviceInit, Promise!NoRequest, Booting, NoCall
<1>2. SdInv /\ [Next]_vars
        => [\/ Promise!Ask \/ Promise!Move \/ Promise!MoveNothing \/ Promise!Spoil \/ Promise!Answer
            \/ Promise!Settle \/ Promise!Identify \/ Promise!StartOver]_(Promise!device)
    <2> SUFFICES ASSUME SdInv, [Next]_vars, ~DeviceNext
                 PROVE  UNCHANGED Promise!device
        BY DEF DeviceNext
    <2> QED
        BY DeviceStep, SeenIsDevice
<1> QED
    BY <1>1, <1>2, SdInvariant, PTL DEF Spec, KeepsDevicePromise, Promise!DeviceSpec

=============================================================================
