------------------------------ MODULE MCLogger ------------------------------
(* Logger with bounds on the frames received, the restarts and the logs,   *)
(* and a choice of what the environment does.                              *)
EXTENDS Logger

CONSTANTS
    MaxFrames,  \* bound on the frames received between restarts
    MaxBoots,   \* bound on the restarts
    MaxLogs,    \* bound on the number of times a file is (re)opened
    UseModes,   \* the values the Logging parameter takes
    UseBuses,   \* the buses frames come from
    UseUsb      \* the USB connection states that occur

MCInit == Init /\ Logging \in UseModes

\* Next, each action with the bound that limits it.
MCNext ==
    \/ \E b \in UseBuses : rx < MaxFrames /\ CanCallback(b)
    \/ CanStep
    \/ Ms100Task /\ opened' <= MaxLogs
    \/ Ms10Task
    \/ AddTasks \/ sdDrvInit \/ OpenFatInit \/ CreateDir
    \/ \E m \in UseModes : SetLogging(m)
    \/ \E up \in UseUsb : UsbEvent(up)
    \/ boots < MaxBoots /\ Restart /\ Logging' \in UseModes

MCSpec == MCInit /\ [][MCNext]_vars

\* Only to be used with MaxLogs above what MaxFrames and MaxBoots allow, so
\* that no bound ever blocks a step the fairness is about.
MCFairSpec == MCSpec /\ Fairness

=============================================================================
