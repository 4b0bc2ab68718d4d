------------------------------- MODULE Devices -------------------------------
(***************************************************************************)
(* The small machines that one loop() polls beside the turnouts: a button  *)
(* on a pin of its own, one in the key matrix, the setup trigger, the      *)
(* timers of the identify and activity LEDs, the status LED, the presence  *)
(* announcements and the serial line.  They share the clock and the        *)
(* rhythm of loop() but no other state, so that all their interleavings    *)
(* show nothing that each of them in turn does not: a behaviour is one of  *)
(* a single device, and the others rest.                                   *)
(***************************************************************************)
EXTENDS MatrixButton

CONSTANTS
    SetupButtons, MinHoldMs, SettleMs,      \* SetupTrigger
    DurationMs,                             \* FlashTimer
    SlowMs, FastMs,                         \* StatusLed
    Nodes, HeartbeatMs, Inbox,              \* Presence
    MaxLine, Typed                          \* SerialLine

VARIABLES
    device,
    down, holding, holdStart, releasing, releaseStart, requested,
    seenDown, seenFor, up, heldFor,
    triggered, triggeredAt, lit, since, shown,
    state, showingOn, lastToggle, pin, stoodFor,
    link, wasConnected, lastAnnounced, inbox, claimed, togetherFor, sincePass,
    board, buffer, ran, typed

Setup == INSTANCE SetupTrigger
Timer == INSTANCE FlashTimer
Status == INSTANCE StatusLed
Neighbours == INSTANCE Presence
Line == INSTANCE SerialLine

ASSUME DevicesAssumption ==
    /\ Setup!SetupTriggerAssumption /\ Timer!FlashTimerAssumption
    /\ Status!StatusLedAssumption /\ Neighbours!PresenceAssumption
    /\ Line!SerialLineAssumption

\* What each device has to itself.
buttonOwn == <<contact, readings, steadyFor, sincePress>>
matrixOwn == <<key, scanner, keyFor>>
setupOwn == <<down, holding, holdStart, releasing, releaseStart, requested,
              seenDown, seenFor, up, heldFor>>
timerOwn == <<triggered, triggeredAt, lit, since, shown>>
statusOwn == <<state, showingOn, lastToggle, pin, stoodFor>>
presenceOwn ==
    <<link, wasConnected, lastAnnounced, inbox, claimed, togetherFor, sincePass>>
lineOwn == <<board, buffer, ran, typed>>
loopOwn == <<now, sincePoll>>

devicesVars ==
    <<device, loopOwn, buttonOwn, matrixOwn, setupOwn, timerOwn, statusOwn,
      presenceOwn, lineOwn>>

DeviceTypes ==
    /\ TypeOK /\ MatrixTypes /\ Setup!TypeOK /\ Timer!TypeOK
    /\ Status!TypeOK /\ Neighbours!TypeOK /\ Line!TypeOK

DevicesInit ==
    /\ device \in {"button", "matrix", "setup", "timer", "status", "presence", "line"}
    /\ IF device = "matrix" THEN MatrixInit
       ELSE /\ Init /\ (device = "button" \/ contact = FALSE)
            /\ key = FALSE /\ row = 0 /\ scanned = FALSE /\ reads = 0 /\ keyFor = 0
    /\ Setup!Init /\ (device = "setup" \/ down = {})
    /\ Timer!Init /\ Status!Init /\ Neighbours!Init
    /\ Line!Init /\ (device = "line" \/ board = "Esp32")
-------------------------------------------------------------------------------
ButtonStep ==
    /\ device = "button" /\ Next
    /\ UNCHANGED <<device, matrixOwn, setupOwn, timerOwn, statusOwn, presenceOwn,
                   lineOwn>>

MatrixStep ==
    /\ device = "matrix" /\ MatrixNext
    /\ UNCHANGED <<device, setupOwn, timerOwn, statusOwn, presenceOwn, lineOwn>>

SetupStep ==
    /\ device = "setup" /\ Setup!Next
    /\ UNCHANGED <<device, buttonOwn, matrixOwn, timerOwn, statusOwn, presenceOwn,
                   lineOwn>>

TimerStep ==
    /\ device = "timer" /\ Timer!Next
    /\ UNCHANGED <<device, buttonOwn, matrixOwn, setupOwn, statusOwn, presenceOwn,
                   lineOwn>>

StatusStep ==
    /\ device = "status" /\ Status!Next
    /\ UNCHANGED <<device, buttonOwn, matrixOwn, setupOwn, timerOwn, presenceOwn,
                   lineOwn>>

PresenceStep ==
    /\ device = "presence" /\ Neighbours!Next
    /\ UNCHANGED <<device, sincePoll, buttonOwn, matrixOwn, setupOwn, timerOwn,
                   statusOwn, lineOwn>>

LineStep ==
    /\ device = "line" /\ Line!Next
    /\ UNCHANGED <<device, loopOwn, buttonOwn, matrixOwn, setupOwn, timerOwn,
                   statusOwn, presenceOwn>>

DevicesNext ==
    \/ ButtonStep \/ MatrixStep \/ SetupStep \/ TimerStep \/ StatusStep
    \/ PresenceStep \/ LineStep

DevicesSpec == DevicesInit /\ [][DevicesNext]_devicesVars
-------------------------------------------------------------------------------
(* The claims of the instances, under the names the runs check.            *)

\* A hold is answered once, when it is over, if it was long enough.
RequestsExact == Setup!RequestsExact

\* A triggered LED is lit for the duration, and not longer.
FlashesInTime == Timer!FlashesInTime

\* The states of the status LED can be told apart.
StatusReadable == Status!StatusReadable

\* Nodes of one id all learn of it.
CollisionFound == Neighbours!CollisionFound

\* What is carried out is one line, whole if it fits.
LinesStayApart == Line!LinesStayApart
===============================================================================
