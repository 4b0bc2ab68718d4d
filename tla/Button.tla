-------------------------------- MODULE Button --------------------------------
(***************************************************************************)
(* Button: the debouncing of one contact.  update() samples the input; a   *)
(* level that differs from the last sample restarts the debounce time, and *)
(* only a level that has been sampled for that long becomes the stable     *)
(* reading.  A press is reported in the one update() in which the stable   *)
(* reading rises.  The contact bounces as it likes between two samples.    *)
(***************************************************************************)
EXTENDS Millis

CONSTANTS
    DebounceMs,     \* debounceMilliseconds
    MaxGap          \* bound on loop(): update() runs at least every MaxGap ms

ASSUME ButtonAssumption ==
    /\ DebounceMs \in Nat \ {0}
    /\ MaxGap \in Nat \ {0}
    /\ DebounceMs + MaxGap <= Wrap /\ 2 * DebounceMs <= Wrap

VARIABLES
    now,                \* clock_.nowMilliseconds()
    contact,            \* input_.isActive()
    lastRaw,            \* lastRawReading_
    lastTransition,     \* lastRawTransitionTime_
    stable,             \* stableReading_
    previousStable,     \* previousStableReading_
    steadyFor,          \* history: true ms since a sample differed
    sincePress,         \* history: true ms since a press was reported
    sincePoll           \* history: true ms since update()

readings == <<lastRaw, lastTransition, stable, previousStable>>
vars == <<now, contact, readings, steadyFor, sincePress, sincePoll>>

TypeOK ==
    /\ now \in Stamps /\ lastTransition \in Stamps
    /\ contact \in BOOLEAN /\ lastRaw \in BOOLEAN
    /\ stable \in BOOLEAN /\ previousStable \in BOOLEAN
    /\ steadyFor \in Ages /\ sincePress \in Ages
    /\ sincePoll \in 0 .. MaxGap

\* No press was ever reported: sincePress is as old as it gets.
Init ==
    /\ now = 0
    /\ contact \in BOOLEAN
    /\ lastRaw = FALSE
    /\ lastTransition = 0
    /\ stable = FALSE
    /\ previousStable = FALSE
    /\ steadyFor = 0
    /\ sincePress = Wrap
    /\ sincePoll = 0
-------------------------------------------------------------------------------
Bounce ==
    /\ contact' = ~contact
    /\ UNCHANGED <<now, readings, steadyFor, sincePress, sincePoll>>

Tick ==
    /\ sincePoll < MaxGap
    /\ now' = NextStamp(now)
    /\ steadyFor' = Older(steadyFor)
    /\ sincePress' = Older(sincePress)
    /\ sincePoll' = sincePoll + 1
    /\ UNCHANGED <<contact, readings>>

\* wasPressed(), after an update().
WasPressed == stable /\ ~previousStable
PressReported == ~stable /\ stable'

\* Slips in Sample: a differing sample does not restart the debounce time, ...
SampleNoRestart ==
    /\ lastRaw' = contact
    /\ lastTransition' = lastTransition
    /\ steadyFor' = IF contact # lastRaw THEN 0 ELSE steadyFor
\* ... or the sample is not remembered.
SampleForgotten ==
    /\ lastRaw' = lastRaw
    /\ lastTransition' = IF contact # lastRaw THEN now ELSE lastTransition
    /\ steadyFor' = IF contact # lastRaw THEN 0 ELSE steadyFor

Sample ==
    /\ lastRaw' = contact
    /\ lastTransition' = IF contact # lastRaw THEN now ELSE lastTransition
    /\ steadyFor' = IF contact # lastRaw THEN 0 ELSE steadyFor

\* Slip: the end of the debounce time is computed and compared.
DebouncedAbsolute == now >= Plus(lastTransition', DebounceMs)

Debounced == Minus(now, lastTransition') >= DebounceMs

\* update()
Update ==
    /\ Sample
    /\ previousStable' = stable
    /\ stable' = IF Debounced THEN contact ELSE stable
    /\ sincePress' = IF PressReported THEN 0 ELSE sincePress
    /\ sincePoll' = 0
    /\ UNCHANGED <<now, contact>>

Next == Bounce \/ Tick \/ Update

Spec == Init /\ [][Next]_vars
-------------------------------------------------------------------------------
(***************************************************************************)
(* The stable reading changes only to a level that every sample of at      *)
(* least DebounceMs of true time has had: no bounce gets through, also     *)
(* when the clock wraps meanwhile.                                         *)
(***************************************************************************)
OnlySteadyLevels ==
    [][stable' # stable => steadyFor >= DebounceMs /\ lastRaw = stable']_vars

(***************************************************************************)
(* A level sampled that long is the stable reading after one more poll,    *)
(* and stays it for as long as it is held, be it 49 days.                  *)
(***************************************************************************)
Settles == steadyFor >= DebounceMs + MaxGap => stable = lastRaw

(***************************************************************************)
(* One press of the contact is one report: two reports are at least two    *)
(* debounce times apart, for the contact has to be seen open in between.   *)
(***************************************************************************)
PressesApart == [][PressReported => sincePress >= 2 * DebounceMs]_vars
================================================================================
