------------------------------- MODULE StatusLed -------------------------------
(***************************************************************************)
(* StatusLedDriver, and the pass of node4's loop() that drives it: off     *)
(* without WiFi, blinking slowly without broker, on when connected, and    *)
(* blinking fast in a collision, whatever the links do.                    *)
(***************************************************************************)
EXTENDS Millis

CONSTANTS
    SlowMs,         \* slowBlinkIntervalMs_
    FastMs,         \* fastBlinkIntervalMs_
    MaxGap          \* bound on loop(): update() runs at least every MaxGap ms

StatusLedAssumption ==
    /\ {SlowMs, FastMs, MaxGap} \subseteq Nat \ {0}
    /\ FastMs < SlowMs /\ SlowMs + MaxGap < Wrap

VARIABLES
    now,            \* clock_.nowMilliseconds()
    state,          \* state_
    showingOn,      \* blinkShowingOn_
    lastToggle,     \* lastToggleTime_
    pin,            \* what the GPIO was set to
    stoodFor,       \* history: true ms since the pin or the state changed
    sincePoll       \* history: true ms since update()

led == <<state, showingOn, lastToggle, pin>>
vars == <<now, led, stoodFor, sincePoll>>

TypeOK ==
    /\ now \in Stamps /\ lastToggle \in Stamps
    /\ state \in {"Off", "On", "SlowBlink", "FastBlink"}
    /\ showingOn \in BOOLEAN /\ pin \in BOOLEAN
    /\ stoodFor \in Ages /\ sincePoll \in 0 .. MaxGap

\* The constructor and begin().
Init ==
    /\ now = 0
    /\ state = "Off" /\ showingOn = TRUE /\ lastToggle = 0 /\ pin = FALSE
    /\ stoodFor = 0 /\ sincePoll = 0
-------------------------------------------------------------------------------
Tick ==
    /\ sincePoll < MaxGap
    /\ now' = NextStamp(now)
    /\ stoodFor' = Older(stoodFor)
    /\ sincePoll' = sincePoll + 1
    /\ UNCHANGED led

\* What loop() makes of the collision flag and the two links.
NetworkState(collision, wifi, mqtt) ==
    IF collision THEN "FastBlink"
    ELSE IF ~wifi THEN "Off"
    ELSE IF ~mqtt THEN "SlowBlink" ELSE "On"

Blinks(s) == s \in {"SlowBlink", "FastBlink"}
Interval(s) == IF s = "FastBlink" THEN FastMs ELSE SlowMs

\* applyGpio()
Applied(s, on) == IF Blinks(s) THEN on ELSE s = "On"

\* Slip: each call of setState() begins the state anew.
EntersAlways(s) == TRUE
Enters(s) == s # state

\* Slip: absolute times are compared.
ToggleDueAbsolute == now >= Plus(lastToggle, Interval(state))
ToggleDue == Minus(now, lastToggle) >= Interval(state)

\* setState() with another state; update() has nothing to do then, as no
\* interval is over.
Enter(s) ==
    /\ Enters(s)
    /\ state' = s /\ showingOn' = TRUE /\ lastToggle' = now
    /\ pin' = Applied(s, TRUE)

\* update()
Toggle ==
    /\ Blinks(state) /\ ToggleDue
    /\ showingOn' = ~showingOn /\ lastToggle' = now
    /\ pin' = Applied(state, ~showingOn)
    /\ UNCHANGED state

Keep ==
    /\ ~(Blinks(state) /\ ToggleDue)
    /\ UNCHANGED led

\* The turn of loop() that shows the links: setState(), then update().
Pass(collision, wifi, mqtt) ==
    LET s == NetworkState(collision, wifi, mqtt)
    IN  /\ \/ Enter(s)
           \/ ~Enters(s) /\ (Toggle \/ Keep)
        /\ stoodFor' = IF pin' # pin \/ s # state THEN 0 ELSE stoodFor
        /\ sincePoll' = 0
        /\ UNCHANGED now

Next == Tick \/ \E collision, wifi, mqtt \in BOOLEAN : Pass(collision, wifi, mqtt)

Spec == Init /\ [][Next]_vars
-------------------------------------------------------------------------------
(***************************************************************************)
(* Off and on are steady, and a blinking LED can be told from both at      *)
(* every clock value: it stands for no longer than the interval and one    *)
(* pass, and the slow blink can be told from the fast one, for no phase of *)
(* a state that stays is shorter than its interval.                        *)
(***************************************************************************)
StatusReadable ==
    [][/\ ~Blinks(state') => pin' = (state' = "On")
       /\ Blinks(state') => stoodFor' < Interval(state') + MaxGap
       /\ pin' # pin /\ state' = state => stoodFor >= Interval(state)]_vars
===============================================================================
