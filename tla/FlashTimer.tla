------------------------------ MODULE FlashTimer ------------------------------
(***************************************************************************)
(* IdentifyModeTimer, and the LED it lights: the ten seconds a node        *)
(* identifies itself after a message, and the flash of the activity LED    *)
(* after each command sent or report received.  A pass of loop() may       *)
(* trigger the timer any number of times, and reads it once, at the end.   *)
(***************************************************************************)
EXTENDS Millis

CONSTANTS
    DurationMs,     \* durationMs_
    MaxGap          \* bound on loop(): it reads the timer every MaxGap ms

FlashTimerAssumption ==
    {DurationMs, MaxGap} \subseteq Nat \ {0} /\ DurationMs + MaxGap < Wrap

VARIABLES
    now,            \* clock_.nowMilliseconds()
    triggered,      \* triggered_
    triggeredAt,    \* triggeredAtMs_
    lit,            \* what the last pass showed
    since,          \* history: true ms since the last trigger; Wrap: none yet
    shown,          \* history: a pass ended since the last trigger
    sincePoll       \* history: true ms since the last pass ended

vars == <<now, triggered, triggeredAt, lit, since, shown, sincePoll>>

TypeOK ==
    /\ now \in Stamps /\ triggeredAt \in Stamps
    /\ triggered \in BOOLEAN /\ lit \in BOOLEAN /\ shown \in BOOLEAN
    /\ since \in Ages /\ sincePoll \in 0 .. MaxGap

Init ==
    /\ now = 0
    /\ triggered = FALSE /\ triggeredAt = 0
    /\ lit = FALSE
    /\ since = Wrap /\ shown = TRUE
    /\ sincePoll = 0
-------------------------------------------------------------------------------
Tick ==
    /\ sincePoll < MaxGap
    /\ now' = NextStamp(now)
    /\ since' = Older(since)
    /\ sincePoll' = sincePoll + 1
    /\ UNCHANGED <<triggered, triggeredAt, lit, shown>>

\* Slip: a timer that was triggered before keeps its time.
TriggerOnce ==
    /\ triggered' = TRUE
    /\ triggeredAt' = IF triggered THEN triggeredAt ELSE now
    /\ since' = 0 /\ shown' = FALSE
    /\ UNCHANGED <<now, lit, sincePoll>>

\* trigger()
Trigger ==
    /\ triggered' = TRUE /\ triggeredAt' = now
    /\ since' = 0 /\ shown' = FALSE
    /\ UNCHANGED <<now, lit, sincePoll>>

\* isActive()
IsActive == triggered /\ Minus(now, triggeredAt) < DurationMs

\* The end of loop(): the LED is set to isActive().
Show ==
    /\ lit' = IsActive
    /\ shown' = TRUE
    /\ sincePoll' = 0
    /\ UNCHANGED <<now, triggered, triggeredAt, since>>

Next == Tick \/ Trigger \/ Show

Spec == Init /\ [][Next]_vars
-------------------------------------------------------------------------------
(***************************************************************************)
(* Each message is seen, from the pass it arrived in to the end of the     *)
(* duration, which the last of several restarts; then the light goes out   *)
(* with the next pass.  A node that was never asked shows nothing.  (Of a  *)
(* timer last triggered a turn of the clock ago nothing is said: it fires  *)
(* again.)                                                                 *)
(***************************************************************************)
FlashesInTime ==
    /\ shown /\ since < DurationMs => lit
    /\ lit => triggered
    /\ lit /\ since < Wrap => since < DurationMs + MaxGap
===============================================================================
