------------------------------- MODULE Logger -------------------------------
(***************************************************************************)
(* main.cpp: the CAN receive interrupts, the scheduler's tasks and main(), *)
(* over the log files of LogFiles.                                         *)
(*                                                                         *)
(* Three contexts share the statics of main.cpp and the SD card:           *)
(*   - CanCallback1/2 -> ProcessCanData, from the CAN receive interrupts,  *)
(*     both at the lowest priority 0xf, so one of them runs at a time;     *)
(*   - Ms100Task and Ms10Task, from TIM2 at priority 0xe ("second lowest", *)
(*     hwinit.cpp): they preempt a CAN callback between any two of its     *)
(*     accesses and run to completion;                                     *)
(*   - main(), which runs when neither does: it boots, then polls the      *)
(*     terminal and USB.                                                   *)
(* A callback is therefore a sequence of steps, one per access to shared   *)
(* state (pc names the next one), and each task is one step.               *)
(*                                                                         *)
(* Some things the code can do have no outcome in C or leave the sector    *)
(* buffer torn; "fault" records them, and nothing is said of what follows: *)
(*   - nullHandle: fat_write through a fileHandle that was never opened;   *)
(*   - unmounted:  fat_create on a volume that is not mounted yet;         *)
(*   - tornMkdir, torn:  fat_create inside an unfinished fat_mkdir or      *)
(*                 fat_write, which share its sector buffer and handles.   *)
(***************************************************************************)
EXTENDS LogFiles

CONSTANTS
    Timeout     \* ticks of Ms100Task without a frame that end a log (10)

ASSUME TimeoutAssumption == Timeout \in Nat \ {0}

Buses    == {0, 1}
LogModes == 0 .. 4      \* Standby, SD only, USB only, Both, and the spare 4
SdModes  == {1, 3}

\* What main() is doing: CAN interrupts enabled, scheduler started and
\* sdDrvInit running, mounting, making the log directory, polling.
Phases == {"can", "sdinit", "mount", "mkdir", "loop"}

\* The next access of the CAN callback.
CanSteps == {"idle", "header", "mark", "mode", "standby", "usb", "sd", "writing",
             "logging", "newfile", "timer", "active", "count"}

VARIABLES
    main,           \* phase of main()
    pc,             \* next step of the running CAN callback
    BusId,          \* BusId of the running callback
    line,           \* its output_data: the header or a row
    Log_Modes,      \* its copy of the Logging parameter
    headerSent, newFile, timer1Sec, FrameCounter,
    Active,         \* CAN1Active and CAN2Active, by bus
    Logging, opmode, FrameCtr, CANStat, USBStat,    \* parameters
    usb_connected,
    fault,
    rx,             \* history: frames received since power-on
    boots,          \* history: restarts
    quiet,          \* history: ticks since timer1Sec was last reset, capped
    raced,          \* history: the timeout fired during a callback
    steady          \* history: Logging has always been one of SdModes

locals  == <<BusId, line, Log_Modes>>
statics == <<headerSent, newFile, timer1Sec, FrameCounter, Active>>

\* What no step of a CAN callback changes.
outside == <<main, Logging, FrameCtr, CANStat, USBStat, usb_connected, boots, raced, steady>>

vars == <<files, pc, locals, statics, opmode, fault, rx, quiet, outside>>

AllBuses(v) == [b \in Buses |-> v]

Init ==
    /\ FilesInit
    /\ main = "can" /\ fault = "none"
    /\ pc = "idle" /\ BusId = 0 /\ line = "header" /\ Log_Modes = 0
    /\ headerSent = FALSE /\ newFile = FALSE
    /\ timer1Sec = Timeout /\ FrameCounter = 0 /\ Active = AllBuses(FALSE)
    /\ Logging \in LogModes        \* parm_load: the default or a saved value
    /\ opmode = 0 /\ FrameCtr = 0 /\ CANStat = AllBuses(0) /\ USBStat = 0
    /\ usb_connected = FALSE
    /\ rx = 0 /\ boots = 0 /\ quiet = 0 /\ raced = FALSE
    /\ steady = (Logging \in SdModes)

-----------------------------------------------------------------------------
(* The CAN receive interrupt                                               *)

Step(at, next) ==
    /\ fault = "none"
    /\ pc = at
    /\ pc' = next

CanCallback(b) ==
    /\ Step("idle", "header")
    /\ BusId' = b
    /\ rx' = rx + 1
    /\ UNCHANGED <<files, line, Log_Modes, statics, opmode, fault, quiet, outside>>

\* if(!headerSent): the header takes the place of the frame's own row.
ChooseLine ==
    /\ Step("header", IF headerSent THEN "mode" ELSE "mark")
    /\ line' = IF headerSent THEN "row" ELSE "header"
    /\ UNCHANGED <<files, BusId, Log_Modes, statics, opmode, fault, rx, quiet, outside>>

MarkHeader ==
    /\ Step("mark", "mode")
    /\ headerSent' = TRUE
    /\ UNCHANGED <<files, locals, newFile, timer1Sec, FrameCounter, Active, opmode,
                   fault, rx, quiet, outside>>

ReadMode ==
    /\ Step("mode", CASE Logging = 0 -> "standby"
                      [] Logging = 1 -> "sd"
                      [] Logging \in {2, 3} -> "usb"
                      [] OTHER -> "timer")
    /\ Log_Modes' = Logging
    /\ UNCHANGED <<files, BusId, line, statics, opmode, fault, rx, quiet, outside>>

SetOpmode(at, next, v) ==
    /\ Step(at, next)
    /\ opmode' = v
    /\ UNCHANGED <<files, locals, statics, fault, rx, quiet, outside>>

StandbyMode == SetOpmode("standby", "timer", 0)
LoggingMode == SetOpmode("logging", IF Log_Modes = 2 THEN "timer" ELSE "newfile", 1)

\* usb_Send hands the line to the USB hardware, or drops it.
SendUsb ==
    /\ Step("usb", IF Log_Modes = 3 THEN "sd" ELSE "logging")
    /\ UNCHANGED <<files, locals, statics, opmode, fault, rx, quiet, outside>>

\* WriteToFile from its call ...
StartWrite ==
    /\ Step("sd", "writing")
    /\ fault' = IF handle = NoFile THEN "nullHandle" ELSE fault
    /\ UNCHANGED <<files, locals, statics, opmode, rx, quiet, outside>>

\* ... to its return.
EndWrite ==
    /\ Step("writing", "logging")
    /\ WriteToFile(line)
    /\ UNCHANGED <<locals, statics, opmode, fault, rx, quiet, outside>>

Bug_NewFileKept ==
    /\ Step("newfile", "timer")
    /\ UNCHANGED <<files, locals, statics, opmode, fault, rx, quiet, outside>>

ClearNewFile ==
    /\ Step("newfile", "timer")
    /\ newFile' = FALSE
    /\ UNCHANGED <<files, locals, headerSent, timer1Sec, FrameCounter, Active, opmode,
                   fault, rx, quiet, outside>>

Bug_TimerNotReset ==
    /\ Step("timer", "active")
    /\ quiet' = 0
    /\ UNCHANGED <<files, locals, statics, opmode, fault, rx, outside>>

ResetTimer ==
    /\ Step("timer", "active")
    /\ timer1Sec' = Timeout
    /\ quiet' = 0
    /\ UNCHANGED <<files, locals, headerSent, newFile, FrameCounter, Active, opmode,
                   fault, rx, outside>>

SetActive ==
    /\ Step("active", "count")
    /\ Active' = [Active EXCEPT ![BusId] = TRUE]
    /\ UNCHANGED <<files, locals, headerSent, newFile, timer1Sec, FrameCounter, opmode,
                   fault, rx, quiet, outside>>

CountFrame ==
    /\ Step("count", "idle")
    /\ FrameCounter' = FrameCounter + 1
    /\ UNCHANGED <<files, locals, headerSent, newFile, timer1Sec, Active, opmode,
                   fault, rx, quiet, outside>>

CanStep ==
    \/ ChooseLine \/ MarkHeader \/ ReadMode \/ StandbyMode \/ SendUsb \/ StartWrite
    \/ EndWrite \/ LoggingMode \/ ClearNewFile \/ ResetTimer \/ SetActive \/ CountFrame

-----------------------------------------------------------------------------
(* The scheduler's tasks                                                   *)

Bug_FlagsClearedFirst ==
    /\ Active' = AllBuses(FALSE)
    /\ CANStat' = AllBuses(0)

UpdateCanStats ==
    /\ CANStat' = [b \in Buses |-> IF Active[b] THEN 1 ELSE 0]
    /\ Active' = AllBuses(FALSE)

\* stm32_SD::CreateFile, where the file system may be asked to create a file.
CreatesFile ==
    /\ fault' = CASE main \in {"can", "sdinit", "mount"} -> "unmounted"
                  [] main = "mkdir" -> "tornMkdir"
                  [] main = "loop" /\ pc = "writing" -> "torn"
                  [] OTHER -> "none"
    /\ IF fault' = "none" THEN CreateFile ELSE UNCHANGED files

Bug_NotMarkedNew == CreatesFile /\ UNCHANGED newFile

newSDFile == CreatesFile /\ newFile' = TRUE

Bug_TimerNotReloaded ==
    /\ timer1Sec = 0
    /\ IF newFile THEN UNCHANGED <<files, newFile, fault>> ELSE newSDFile
    /\ headerSent' = FALSE
    /\ timer1Sec' = (timer1Sec + 255) % 256
    /\ opmode' = 0
    /\ raced' = (raced \/ pc # "idle")

\* if(timer1Sec==0) {...}: the one second without a frame is over.
TimeoutExpires ==
    /\ timer1Sec = 0
    /\ IF newFile THEN UNCHANGED <<files, newFile, fault>> ELSE newSDFile
    /\ headerSent' = FALSE
    /\ timer1Sec' = Timeout - 1
    /\ opmode' = 0
    /\ raced' = (raced \/ pc # "idle")

CountDown ==
    /\ timer1Sec > 0
    /\ timer1Sec' = timer1Sec - 1
    /\ UNCHANGED <<files, headerSent, newFile, opmode, fault, raced>>

Ms100Task ==
    /\ fault = "none"
    /\ main # "can"
    /\ USBStat' = IF usb_connected THEN 1 ELSE 0
    /\ UpdateCanStats
    /\ TimeoutExpires \/ CountDown
    /\ quiet' = IF quiet > Timeout THEN quiet ELSE quiet + 1
    /\ UNCHANGED <<main, pc, locals, FrameCounter, Logging, FrameCtr, usb_connected,
                   rx, boots, steady>>

Ms10Task ==
    /\ fault = "none"
    /\ main # "can"
    /\ FrameCtr' = FrameCounter
    /\ UNCHANGED <<files, main, pc, locals, statics, Logging, opmode, CANStat, USBStat,
                   usb_connected, fault, rx, boots, quiet, raced, steady>>

-----------------------------------------------------------------------------
(* main() and restart                                                      *)

\* main() runs only while no CAN callback does.
Main(at) == fault = "none" /\ pc = "idle" /\ main = at

\* AddTask, sdDrvInit, OpenFatInit and CreateDir return, in this order.
Boots(from, to) ==
    /\ Main(from)
    /\ main' = to
    /\ UNCHANGED <<files, pc, locals, statics, opmode, fault, rx, quiet, Logging,
                   FrameCtr, CANStat, USBStat, usb_connected, boots, raced, steady>>

AddTasks    == Boots("can", "sdinit")
sdDrvInit   == Boots("sdinit", "mount")
OpenFatInit == Boots("mount", "mkdir")
CreateDir   == Boots("mkdir", "loop")

\* t.Run(): the terminal sets the Logging parameter.
SetLogging(m) ==
    /\ Main("loop")
    /\ Logging' = m
    /\ steady' = (steady /\ m \in SdModes)
    /\ UNCHANGED <<files, main, pc, locals, statics, opmode, fault, rx, quiet, FrameCtr,
                   CANStat, USBStat, usb_connected, boots, raced>>

\* usb_Poll(): cdcacm_set_config or suspend_cb.
UsbEvent(up) ==
    /\ Main("loop")
    /\ usb_connected' = up
    /\ UNCHANGED <<files, main, pc, locals, statics, opmode, fault, rx, quiet, Logging,
                   FrameCtr, CANStat, USBStat, boots, raced, steady>>

\* Power is lost and comes back: the card and the saved parameters remain.
Restart ==
    /\ fault = "none"
    /\ PowerCycle
    /\ main' = "can"
    /\ pc' = "idle" /\ BusId' = 0 /\ line' = "header" /\ Log_Modes' = 0
    /\ headerSent' = FALSE /\ newFile' = FALSE
    /\ timer1Sec' = Timeout /\ FrameCounter' = 0 /\ Active' = AllBuses(FALSE)
    /\ Logging' \in LogModes
    /\ opmode' = 0 /\ FrameCtr' = 0 /\ CANStat' = AllBuses(0) /\ USBStat' = 0
    /\ usb_connected' = FALSE
    /\ boots' = boots + 1 /\ rx' = 0 /\ quiet' = 0
    /\ steady' = (steady /\ Logging' \in SdModes)
    /\ UNCHANGED <<fault, raced>>

Next ==
    \/ \E b \in Buses : CanCallback(b)
    \/ CanStep
    \/ Ms100Task
    \/ Ms10Task
    \/ AddTasks \/ sdDrvInit \/ OpenFatInit \/ CreateDir
    \/ \E m \in LogModes : SetLogging(m)
    \/ \E up \in BOOLEAN : UsbEvent(up)
    \/ Restart

Spec == Init /\ [][Next]_vars

\* An interrupt routine runs to its end, main() waits for nothing before it
\* starts the scheduler, and the timer keeps ticking.  Nothing is assumed of
\* the steps of main() that wait for the card.
Fairness ==
    WF_vars(CanStep) /\ WF_vars(AddTasks) /\ WF_vars(Ms100Task) /\ WF_vars(Ms10Task)

-----------------------------------------------------------------------------
(* Properties                                                              *)

(* The place of the main loop and of the CAN callback, main.cpp's globals and *)
(* the parameters shown on the display stay in the ranges the code gives them *)
LoggerTypeOK ==
    /\ FilesTypeOK
    /\ main \in Phases
    /\ pc \in CanSteps
    /\ BusId \in Buses
    /\ line \in Lines
    /\ Log_Modes \in LogModes
    /\ headerSent \in BOOLEAN
    /\ newFile \in BOOLEAN
    /\ timer1Sec \in 0 .. Timeout
    /\ FrameCounter \in Nat
    /\ Active \in [Buses -> BOOLEAN]
    /\ Logging \in LogModes
    /\ opmode \in {0, 1}
    /\ FrameCtr \in Nat
    /\ CANStat \in [Buses -> {0, 1}]
    /\ USBStat \in {0, 1}
    /\ usb_connected \in BOOLEAN
    /\ fault \in {"none", "nullHandle", "unmounted", "tornMkdir", "torn"}
    /\ rx \in Nat
    /\ boots \in Nat
    /\ quiet \in 0 .. Timeout + 1
    /\ raced \in BOOLEAN
    /\ steady \in BOOLEAN

\* "commence a new log and send savvy header": every log file is one header
\* followed by rows, through timeouts, restarts and reopened files, provided
\* the Logging parameter always named the SD card, no timeout fired during a
\* callback and the card refused no directory entry.
LogWellFormed ==
    ~raced /\ steady /\ ~refused
        => \A f \in Ids : \A i \in DOMAIN rows[f] :
              rows[f][i].line = "header" <=> i = 1

\* A file is started only after Timeout full ticks in which no callback came
\* to its end: a log is never split while frames keep arriving.
NewFileAfterQuiet == [][opened' # opened => quiet' > Timeout]_vars

\* "A new logging file will then spawn 1 sec after the end of last msg": a
\* line that follows more than Timeout silent ticks is the first of its file,
\* wherever in a callback a timeout has fired, unless an entry was refused.
GapStartsFile ==
    [][rows' # rows /\ quiet > Timeout /\ ~refused => position = 0]_vars

\* openfat.h: fat_write is given an open file.  The code does not see to it.
WritesToOpenFile == fault # "nullHandle"

\* "Reset our 1 second time out as long as we are still being called to
\* process can": no timeout creates a file while a callback is writing one.
\* The code resets the timer at the end of the callback.
NoCreateInsideWrite == fault # "torn"

\* When the frames stop, the log is closed: Logging is shown as off, the next
\* frame will be given a header and a file of its own, the frame count shown
\* is the number of frames received and no bus is shown as active.
TrafficEnds ==
    <>[](\/ fault # "none"
         \/ /\ opmode = 0 /\ ~headerSent /\ newFile
            /\ FrameCtr = rx /\ CANStat = AllBuses(0))

\* A frame on a bus is eventually shown in that bus's status parameter.
ActivityShown ==
    \A b \in Buses :
        (pc = "header" /\ BusId = b) ~> (CANStat[b] = 1 \/ fault # "none")

=============================================================================
