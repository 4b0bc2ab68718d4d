-------------------------------- MODULE LedPair --------------------------------
(***************************************************************************)
(* LedPairDriver: one GPIO for the red and the green LED of a turnout, so  *)
(* that one of them is always lit.  The panel asks for green, for red, or  *)
(* for neither, and then the pair blinks; while the node identifies itself *)
(* the pair flashes whatever was asked.  The requests go on arriving, and  *)
(* write the pin, while it does.                                           *)
(*                                                                         *)
(* The panel asks through TurnoutIndicator, two Indicators and two         *)
(* LedPairOutputs, always for both colours one after the other: Display    *)
(* and Clear.  IndependentLedPairDriver is this driver once more, with one *)
(* GPIO for each colour, of which it drives exactly one high.              *)
(***************************************************************************)
EXTENDS Millis

CONSTANTS
    BlinkMs,        \* blinkIntervalMs_
    IdentifyMs,     \* kIdentifyIntervalMs
    MaxFlash,       \* bound: a node identifies itself no longer than this
    MaxGap          \* bound on loop(): update() runs at least every MaxGap ms

\* An identify message is good for 10 s; people do not send them for 49 days.
ASSUME LedPairAssumption ==
    /\ {BlinkMs, IdentifyMs, MaxFlash, MaxGap} \subseteq Nat \ {0}
    /\ MaxFlash + BlinkMs + 2 * MaxGap < Wrap
    /\ 2 * (IdentifyMs + MaxGap) <= Wrap

Colors == {"Green", "Red"}
Opposite(c) == IF c = "Green" THEN "Red" ELSE "Green"

VARIABLES
    now,            \* clock_.nowMilliseconds()
    driver,         \* the fields of the driver, and the pin below it
    sinceChange,    \* history: true ms since the pin changed or its task did
    sinceUpdate,    \* history: true ms since update()
    flashFor        \* history: true ms the node has been identifying itself

vars == <<now, driver, sinceChange, sinceUpdate, flashFor>>

Drivers ==
    [greenRequested : BOOLEAN, redRequested : BOOLEAN,
     mode : Colors \cup {"Blink"}, lastDisplayed : Colors,
     showingLast : BOOLEAN, lastToggle : Stamps,
     identifying : BOOLEAN, identifyGreen : BOOLEAN, identifyToggle : Stamps,
     pin : Colors]

TypeOK ==
    /\ now \in Stamps
    /\ driver \in Drivers
    /\ sinceChange \in Ages
    /\ sinceUpdate \in 0 .. MaxGap
    /\ flashFor \in 0 .. MaxFlash

\* The constructor, with the default colour of main.cpp, and begin().
Init ==
    /\ now = 0
    /\ driver = [greenRequested |-> FALSE, redRequested |-> FALSE,
                 mode |-> "Blink", lastDisplayed |-> "Red",
                 showingLast |-> TRUE, lastToggle |-> 0,
                 identifying |-> FALSE, identifyGreen |-> TRUE,
                 identifyToggle |-> 0, pin |-> "Red"]
    /\ sinceChange = 0
    /\ sinceUpdate = 0
    /\ flashFor = 0
--------------------------------------------------------------------------------
\* currentColorToShow()
CurrentColor(d) ==
    IF d.mode # "Blink" THEN d.mode
    ELSE IF d.showingLast THEN d.lastDisplayed ELSE Opposite(d.lastDisplayed)

RequestedMode(d) ==
    IF d.greenRequested THEN "Green" ELSE IF d.redRequested THEN "Red" ELSE "Blink"

\* applyState(): both at once is a state in passing and changes nothing.
Applied(d) ==
    IF (d.greenRequested /\ d.redRequested) \/ RequestedMode(d) = d.mode THEN d
    ELSE IF RequestedMode(d) = "Blink"
         THEN [d EXCEPT !.mode = "Blink", !.showingLast = TRUE,
                        !.lastToggle = now, !.pin = d.lastDisplayed]
         ELSE [d EXCEPT !.mode = RequestedMode(d), !.pin = RequestedMode(d),
                        !.lastDisplayed = RequestedMode(d)]

SetGreen(d, active) == Applied([d EXCEPT !.greenRequested = active])
SetRed(d, active) == Applied([d EXCEPT !.redRequested = active])

\* display(): the LED of the new position on, then the other one off.
Displayed(d, position) ==
    IF position = "Thrown" THEN SetGreen(SetRed(d, TRUE), FALSE)
                           ELSE SetRed(SetGreen(d, TRUE), FALSE)

\* clear()
Cleared(d) == SetGreen(SetRed(d, FALSE), FALSE)

\* Slips in setIdentifying: each call starts the flash afresh, ...
IdentifiedAnew(d, active) ==
    IF active
    THEN [d EXCEPT !.identifying = TRUE, !.identifyGreen = TRUE,
                   !.identifyToggle = now, !.pin = "Green"]
    ELSE [d EXCEPT !.identifying = FALSE, !.pin = CurrentColor(d)]
\* ... or the end of it leaves the pin as it is.
IdentifiedUnrestored(d, active) ==
    IF active = d.identifying THEN d
    ELSE IF active
         THEN [d EXCEPT !.identifying = TRUE, !.identifyGreen = TRUE,
                        !.identifyToggle = now, !.pin = "Green"]
         ELSE [d EXCEPT !.identifying = FALSE]

\* setIdentifying(), which loop() calls on every pass.
Identified(d, active) ==
    IF active = d.identifying THEN d
    ELSE IF active
         THEN [d EXCEPT !.identifying = TRUE, !.identifyGreen = TRUE,
                        !.identifyToggle = now, !.pin = "Green"]
         ELSE [d EXCEPT !.identifying = FALSE, !.pin = CurrentColor(d)]

\* Slip: absolute times are compared.
ElapsedAbsolute(stamp, interval) == now >= Plus(stamp, interval)

Elapsed(stamp, interval) == Minus(now, stamp) >= interval

FlashToggled(d) ==
    [d EXCEPT !.identifyGreen = ~d.identifyGreen, !.identifyToggle = now,
              !.pin = IF d.identifyGreen THEN "Red" ELSE "Green"]

BlinkToggled(d) ==
    LET next == [d EXCEPT !.showingLast = ~d.showingLast, !.lastToggle = now]
    IN  [next EXCEPT !.pin = CurrentColor(next)]

\* update()
Updated(d) ==
    IF d.identifying
    THEN IF Elapsed(d.identifyToggle, IdentifyMs) THEN FlashToggled(d) ELSE d
    ELSE IF d.mode = "Blink" /\ Elapsed(d.lastToggle, BlinkMs)
         THEN BlinkToggled(d) ELSE d
--------------------------------------------------------------------------------
\* What the pin is there to show: a colour, the blinking or the flash.
Task(d) == IF d.identifying THEN "Flash" ELSE d.mode

Becomes(d) ==
    /\ driver' = d
    /\ sinceChange' = IF d.pin # driver.pin \/ Task(d) # Task(driver)
                      THEN 0 ELSE sinceChange
    /\ flashFor' = IF d.identifying THEN flashFor ELSE 0
    /\ UNCHANGED now

Display(position) == Becomes(Displayed(driver, position)) /\ UNCHANGED sinceUpdate
Clear == Becomes(Cleared(driver)) /\ UNCHANGED sinceUpdate

\* The end of each pass of loop(): setIdentifying(), then update().
Pass(identify) ==
    Becomes(Updated(Identified(driver, identify))) /\ sinceUpdate' = 0

Tick ==
    /\ sinceUpdate < MaxGap
    /\ driver.identifying => flashFor < MaxFlash
    /\ now' = NextStamp(now)
    /\ sinceChange' = Older(sinceChange)
    /\ sinceUpdate' = sinceUpdate + 1
    /\ flashFor' = IF driver.identifying THEN flashFor + 1 ELSE 0
    /\ UNCHANGED driver

Next ==
    \/ \E position \in {"Thrown", "Closed"} : Display(position)
    \/ Clear
    \/ \E identify \in BOOLEAN : Pass(identify)
    \/ Tick

Spec == Init /\ [][Next]_vars
--------------------------------------------------------------------------------
(***************************************************************************)
(* Unless the node is identifying itself, a pair of which one colour was   *)
(* asked for shows it, also after requests that came during the flash.     *)
(***************************************************************************)
ShowsRequest ==
    ~driver.identifying /\ driver.greenRequested # driver.redRequested
        => driver.pin = IF driver.greenRequested THEN "Green" ELSE "Red"

(***************************************************************************)
(* An unconfirmed turnout blinks, at every clock value: no colour stands   *)
(* for longer than the interval and one pass of loop().                    *)
(***************************************************************************)
Blinks ==
    ~driver.identifying /\ ~driver.greenRequested /\ ~driver.redRequested
        => sinceChange < BlinkMs + MaxGap

(***************************************************************************)
(* A node that identifies itself is seen to: feedback that writes the pin  *)
(* meanwhile hides at most one change of colour.                           *)
(***************************************************************************)
Flashes == driver.identifying => sinceChange < 2 * (IdentifyMs + MaxGap)
================================================================================
