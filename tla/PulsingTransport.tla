--------------------------- MODULE PulsingTransport ---------------------------
(***************************************************************************)
(* PulsingLocoNetTransport: every switch command is put on the LocoNet as  *)
(* a pulse, ON at once and OFF once PulseMs have gone by, the latter from  *)
(* update(), which loop() polls.  A command that arrives while a pulse is  *)
(* on ends it early.                                                       *)
(*                                                                         *)
(* The clock wraps (module Millis).  The code compares absolute times,     *)
(* now >= releaseAt, so its behaviour differs before and after a rollover: *)
(* LastTick is the last clock value a behaviour reaches.  LastTick = Wrap  *)
(* means the clock runs on and wraps; a smaller one describes a Mega that  *)
(* is switched off before the rollover.                                    *)
(***************************************************************************)
EXTENDS Millis

CONSTANTS
    Addresses,  \* layout addresses commands are sent to
    PulseMs,    \* LOCONET_PULSE_DURATION_MS
    MaxGap,     \* bound on loop(): update() runs at least every MaxGap ms
    LastTick    \* see above

ASSUME PulsingAssumption ==
    /\ Addresses \subseteq Nat \ {0}
    /\ PulseMs \in Nat \ {0} /\ PulseMs < Wrap
    /\ MaxGap \in Nat \ {0}
    /\ LastTick \in Nat

Positions == {"Thrown", "Closed"}
Commands == Addresses \X Positions
NoCommand == <<0, "Closed">>

VARIABLES
    now,            \* what clock_.nowMilliseconds() returns
    releasePending, \* releasePending_
    pendingSwitch,  \* <<pendingAddress_, pendingPosition_>>
    releaseAt,      \* releaseAtMs_
    outputs,        \* the coils the command station drives
    onFor,          \* history: true milliseconds since the last ON request
    sincePoll       \* history: true milliseconds since the last update()

pulseVars == <<releasePending, pendingSwitch, releaseAt, outputs>>
vars == <<now, pulseVars, onFor, sincePoll>>

TypeOK ==
    /\ now \in Stamps
    /\ releasePending \in BOOLEAN
    /\ pendingSwitch \in Commands \cup {NoCommand}
    /\ releaseAt \in Stamps
    /\ outputs \in SUBSET Commands
    /\ onFor \in Ages
    /\ sincePoll \in 0 .. MaxGap

\* The clock counts from power up.
Init ==
    /\ now = 0
    /\ releasePending = FALSE
    /\ pendingSwitch = NoCommand
    /\ releaseAt = 0
    /\ outputs = {}
    /\ onFor = 0
    /\ sincePoll = 0
------------------------------------------------------------------------------
\* What the coils are after the OFF request of releasePendingSwitch().
Released == outputs \ {pendingSwitch}

\* Slip: the pulse in progress is forgotten instead of cut off.
SendPacketKeepingOld(c) ==
    /\ outputs' = outputs \cup {c}
    /\ releasePending' = TRUE
    /\ pendingSwitch' = c
    /\ releaseAt' = Plus(now, PulseMs)
    /\ onFor' = 0

\* sendPacket: the pulse in progress is cut off before the next one starts.
SendPacket(c) ==
    /\ outputs' = (IF releasePending THEN Released ELSE outputs) \cup {c}
    /\ releasePending' = TRUE
    /\ pendingSwitch' = c
    /\ releaseAt' = Plus(now, PulseMs)
    /\ onFor' = 0

Send(c) == SendPacket(c) /\ UNCHANGED <<now, sincePoll>>

\* Slips: the release is noticed one poll late, or on the exact tick only.
ReleaseDueLate == releasePending /\ now > releaseAt
ReleaseDueExactly == releasePending /\ now = releaseAt

ReleaseDue == releasePending /\ now >= releaseAt

\* update()
ReleaseIfDue ==
    IF ReleaseDue
    THEN /\ outputs' = Released
         /\ releasePending' = FALSE
         /\ onFor' = 0
         /\ UNCHANGED <<pendingSwitch, releaseAt>>
    ELSE UNCHANGED <<pulseVars, onFor>>

Update == ReleaseIfDue /\ sincePoll' = 0 /\ UNCHANGED now

\* A millisecond passes.  Time waits for an overdue poll: MaxGap bounds how
\* long one pass through loop() takes.
Tick ==
    /\ now # LastTick
    /\ sincePoll < MaxGap
    /\ now' = NextStamp(now)
    /\ onFor' = IF releasePending THEN Older(onFor) ELSE onFor
    /\ sincePoll' = sincePoll + 1
    /\ UNCHANGED pulseVars

Next == Tick \/ Update \/ \E c \in Commands : Send(c)

Spec == Init /\ [][Next]_vars
------------------------------------------------------------------------------
(***************************************************************************)
(* Never two coils at once, and never a coil that nobody is going to       *)
(* release: the one coil that is on is the one the transport remembers.    *)
(* It holds across rollovers too.                                          *)
(***************************************************************************)
OnlyPendingOutput == outputs = IF releasePending THEN {pendingSwitch} ELSE {}

(***************************************************************************)
(* A coil is off again PulseMs after it went on, give or take one pass of  *)
(* loop(): what keeps a solenoid motor from burning out.                   *)
(***************************************************************************)
PulseBounded == releasePending => onFor < PulseMs + MaxGap

(***************************************************************************)
(* The transport keeps all of the promise of CoilPulse.                    *)
(***************************************************************************)
Pulse == INSTANCE CoilPulse WITH
            energised <- outputs, MinOn <- PulseMs, MaxOn <- PulseMs + MaxGap

ImplementsCoilPulse == Pulse!Spec
==============================================================================
