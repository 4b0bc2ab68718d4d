----------------------------- MODULE LedPairProofs -----------------------------
(***************************************************************************)
(* A pair of LEDs shows what was asked for, blinks and flashes, proved for *)
(* every interval, every loop time and every width of the clock.  The      *)
(* requests write the pin during the flash, so the invariant follows both  *)
(* stamps of the driver: how old they are in true time, and how long the   *)
(* pin may have stood still by then (BlinkAge, FlashAge).                  *)
(***************************************************************************)
EXTENDS LedPair, TLAPS

\* What the requests leave behind.
Settled(d) == ~(d.greenRequested /\ d.redRequested) /\ d.mode = RequestedMode(d)

\* The last colour shown is the steady one; outside the flash the pin shows
\* what the driver believes it does.
Coherent(d) ==
    /\ d.mode # "Blink" => d.lastDisplayed = d.mode
    /\ ~d.identifying => d.pin = CurrentColor(d)

\* The colour of the flash.
FlashColor(d) == IF d.identifyGreen THEN "Green" ELSE "Red"

BlinkElapsed == Minus(now, driver.lastToggle)
FlashElapsed == Minus(now, driver.identifyToggle)

BlinkAge ==
    driver.mode = "Blink" =>
        IF driver.identifying
        THEN BlinkElapsed < BlinkMs + MaxGap + flashFor
        ELSE BlinkElapsed < BlinkMs + sinceUpdate /\ sinceChange <= BlinkElapsed

FlashAge ==
    driver.identifying =>
        /\ FlashElapsed < IdentifyMs + sinceUpdate
        /\ sinceChange < FlashElapsed + IdentifyMs + MaxGap
        /\ driver.pin # FlashColor(driver) => sinceChange <= FlashElapsed

LedInv ==
    /\ TypeOK /\ Settled(driver) /\ Coherent(driver)
    /\ ~driver.identifying => flashFor = 0
    /\ BlinkAge /\ FlashAge

(***************************************************************************)
(* The arithmetic of the wrapping clock.                                   *)
(***************************************************************************)
LEMMA Stamping ==
    ASSUME NEW a \in Stamps
    PROVE  /\ NextStamp(a) \in Stamps /\ Minus(a, a) = 0
           /\ \A b \in Stamps : Minus(a, b) \in Nat
           /\ \A b \in Stamps : Minus(a, b) + 1 < Wrap
                                   => Minus(NextStamp(a), b) = Minus(a, b) + 1
BY WrapAssumption DEF Stamps, NextStamp, Plus, Minus

LEMMA Aging ==
    ASSUME NEW age \in Ages
    PROVE  Older(age) \in Ages /\ age \in Nat /\ Older(age) <= age + 1
BY WrapAssumption DEF Ages, Older

LEMMA Durations ==
    /\ BlinkMs \in Nat \ {0} /\ IdentifyMs \in Nat \ {0}
    /\ MaxFlash \in Nat \ {0} /\ MaxGap \in Nat \ {0} /\ Wrap \in Nat \ {0}
    /\ MaxFlash + BlinkMs + 2 * MaxGap < Wrap
    /\ IdentifyMs + MaxGap < Wrap
    /\ 2 * (IdentifyMs + MaxGap) = (IdentifyMs + MaxGap) + (IdentifyMs + MaxGap)
    /\ 0 \in Stamps /\ 0 \in Ages /\ 0 \in 0 .. MaxGap /\ 0 \in 0 .. MaxFlash
BY LedPairAssumption, WrapAssumption DEF Stamps, Ages

--------------------------------------------------------------------------------
(***************************************************************************)
(* The operators of the driver.                                            *)
(***************************************************************************)
\* applyState(), called with requests that changed.
LEMMA AppliedKeeps ==
    ASSUME now \in Stamps, NEW d \in Drivers, Coherent(d)
    PROVE  /\ Applied(d) \in Drivers /\ Coherent(Applied(d))
           /\ Applied(d).greenRequested = d.greenRequested
           /\ Applied(d).redRequested = d.redRequested
           /\ ~(d.greenRequested /\ d.redRequested)
                 => Applied(d).mode = RequestedMode(d)
           /\ Applied(d).identifying = d.identifying
           /\ Applied(d).identifyGreen = d.identifyGreen
           /\ Applied(d).identifyToggle = d.identifyToggle
           /\ Applied(d).mode = "Blink" =>
                 IF d.mode = "Blink" THEN Applied(d).lastToggle = d.lastToggle
                                     ELSE Applied(d).lastToggle = now
<1>1. CASE (d.greenRequested /\ d.redRequested) \/ RequestedMode(d) = d.mode
  <2>1. Applied(d) = d
        BY <1>1 DEF Applied
  <2> QED BY <1>1, <2>1
<1>2. CASE /\ ~((d.greenRequested /\ d.redRequested) \/ RequestedMode(d) = d.mode)
           /\ RequestedMode(d) = "Blink"
  <2>1. Applied(d) = [d EXCEPT !.mode = "Blink", !.showingLast = TRUE,
                               !.lastToggle = now, !.pin = d.lastDisplayed]
        BY <1>2 DEF Applied
  <2> QED BY <1>2, <2>1 DEF Drivers, Colors, Coherent, CurrentColor
<1>3. CASE /\ ~((d.greenRequested /\ d.redRequested) \/ RequestedMode(d) = d.mode)
           /\ RequestedMode(d) # "Blink"
  <2>1. Applied(d) = [d EXCEPT !.mode = RequestedMode(d), !.pin = RequestedMode(d),
                               !.lastDisplayed = RequestedMode(d)]
        BY <1>3 DEF Applied
  <2>2. RequestedMode(d) \in Colors
        BY <1>3 DEF RequestedMode, Colors
  <2> QED BY <1>3, <2>1, <2>2 DEF Drivers, Colors, Coherent, CurrentColor
<1> QED BY <1>1, <1>2, <1>3

\* What both kinds of requests make of a driver d.
Asked(d, e) ==
    /\ e \in Drivers /\ Coherent(e) /\ Settled(e)
    /\ e.identifying = d.identifying
    /\ e.identifyGreen = d.identifyGreen /\ e.identifyToggle = d.identifyToggle
    /\ e.mode = "Blink" => IF d.mode = "Blink" THEN e.lastToggle = d.lastToggle
                                               ELSE e.lastToggle = now

LEMMA GreenKeeps ==
    ASSUME now \in Stamps, NEW d \in Drivers, Coherent(d), NEW active \in BOOLEAN
    PROVE  /\ SetGreen(d, active) \in Drivers /\ Coherent(SetGreen(d, active))
           /\ SetGreen(d, active).greenRequested = active
           /\ SetGreen(d, active).redRequested = d.redRequested
           /\ ~(active /\ d.redRequested) => Settled(SetGreen(d, active))
           /\ SetGreen(d, active).identifying = d.identifying
           /\ SetGreen(d, active).identifyGreen = d.identifyGreen
           /\ SetGreen(d, active).identifyToggle = d.identifyToggle
           /\ SetGreen(d, active).mode = "Blink" =>
                 IF d.mode = "Blink" THEN SetGreen(d, active).lastToggle = d.lastToggle
                                     ELSE SetGreen(d, active).lastToggle = now
<1> DEFINE c == [d EXCEPT !.greenRequested = active]
<1>1. c \in Drivers /\ Coherent(c)
      BY DEF Drivers, Coherent, CurrentColor
<1>2. /\ c.greenRequested = active /\ c.redRequested = d.redRequested
      /\ c.mode = d.mode /\ c.lastToggle = d.lastToggle
      /\ c.identifying = d.identifying /\ c.identifyGreen = d.identifyGreen
      /\ c.identifyToggle = d.identifyToggle
      BY DEF Drivers
<1>3. SetGreen(d, active) = Applied(c)
      BY DEF SetGreen
<1> HIDE DEF c
<1> QED BY <1>1, <1>2, <1>3, AppliedKeeps DEF Settled, RequestedMode

LEMMA RedKeeps ==
    ASSUME now \in Stamps, NEW d \in Drivers, Coherent(d), NEW active \in BOOLEAN
    PROVE  /\ SetRed(d, active) \in Drivers /\ Coherent(SetRed(d, active))
           /\ SetRed(d, active).redRequested = active
           /\ SetRed(d, active).greenRequested = d.greenRequested
           /\ ~(active /\ d.greenRequested) => Settled(SetRed(d, active))
           /\ SetRed(d, active).identifying = d.identifying
           /\ SetRed(d, active).identifyGreen = d.identifyGreen
           /\ SetRed(d, active).identifyToggle = d.identifyToggle
           /\ SetRed(d, active).mode = "Blink" =>
                 IF d.mode = "Blink" THEN SetRed(d, active).lastToggle = d.lastToggle
                                     ELSE SetRed(d, active).lastToggle = now
<1> DEFINE c == [d EXCEPT !.redRequested = active]
<1>1. c \in Drivers /\ Coherent(c)
      BY DEF Drivers, Coherent, CurrentColor
<1>2. /\ c.redRequested = active /\ c.greenRequested = d.greenRequested
      /\ c.mode = d.mode /\ c.lastToggle = d.lastToggle
      /\ c.identifying = d.identifying /\ c.identifyGreen = d.identifyGreen
      /\ c.identifyToggle = d.identifyToggle
      BY DEF Drivers
<1>3. SetRed(d, active) = Applied(c)
      BY DEF SetRed
<1> HIDE DEF c
<1> QED BY <1>1, <1>2, <1>3, AppliedKeeps DEF Settled, RequestedMode

\* display(): both at once in between, and no blinking at the end.
LEMMA DisplayAsks ==
    ASSUME now \in Stamps, NEW d \in Drivers, Coherent(d), NEW position
    PROVE  Asked(d, Displayed(d, position))
<1>1. CASE position = "Thrown"
  <2> DEFINE f == SetRed(d, TRUE)
             e == SetGreen(f, FALSE)
  <2>1. /\ f \in Drivers /\ Coherent(f) /\ f.redRequested = TRUE
        /\ f.identifying = d.identifying /\ f.identifyGreen = d.identifyGreen
        /\ f.identifyToggle = d.identifyToggle
        BY RedKeeps
  <2> HIDE DEF f
  <2>2. /\ e \in Drivers /\ Coherent(e) /\ Settled(e)
        /\ e.redRequested = TRUE /\ e.greenRequested = FALSE
        /\ e.identifying = d.identifying /\ e.identifyGreen = d.identifyGreen
        /\ e.identifyToggle = d.identifyToggle
        BY <2>1, GreenKeeps
  <2>3. Displayed(d, position) = e
        BY <1>1 DEF Displayed, f
  <2> HIDE DEF e
  <2>4. e.mode # "Blink"
        BY <2>2 DEF Settled, RequestedMode
  <2> QED BY <2>2, <2>3, <2>4 DEF Asked
<1>2. CASE position # "Thrown"
  <2> DEFINE f == SetGreen(d, TRUE)
             e == SetRed(f, FALSE)
  <2>1. /\ f \in Drivers /\ Coherent(f) /\ f.greenRequested = TRUE
        /\ f.identifying = d.identifying /\ f.identifyGreen = d.identifyGreen
        /\ f.identifyToggle = d.identifyToggle
        BY GreenKeeps
  <2> HIDE DEF f
  <2>2. /\ e \in Drivers /\ Coherent(e) /\ Settled(e)
        /\ e.greenRequested = TRUE /\ e.redRequested = FALSE
        /\ e.identifying = d.identifying /\ e.identifyGreen = d.identifyGreen
        /\ e.identifyToggle = d.identifyToggle
        BY <2>1, RedKeeps
  <2>3. Displayed(d, position) = e
        BY <1>2 DEF Displayed, f
  <2> HIDE DEF e
  <2>4. e.mode # "Blink"
        BY <2>2 DEF Settled, RequestedMode
  <2> QED BY <2>2, <2>3, <2>4 DEF Asked
<1> QED BY <1>1, <1>2

\* clear(): a pair that blinks already goes on as it was.
LEMMA ClearAsks ==
    ASSUME now \in Stamps, NEW d \in Drivers, Coherent(d), Settled(d)
    PROVE  Asked(d, Cleared(d))
<1> DEFINE f == SetRed(d, FALSE)
           e == SetGreen(f, FALSE)
<1>1. /\ f \in Drivers /\ Coherent(f) /\ Settled(f)
      /\ f.greenRequested = d.greenRequested /\ f.redRequested = FALSE
      /\ f.identifying = d.identifying /\ f.identifyGreen = d.identifyGreen
      /\ f.identifyToggle = d.identifyToggle
      /\ f.mode = "Blink" => IF d.mode = "Blink" THEN f.lastToggle = d.lastToggle
                                                 ELSE f.lastToggle = now
      BY RedKeeps
<1>2. d.mode = "Blink" => f.mode = "Blink"
      BY <1>1 DEF Settled, RequestedMode, Drivers
<1> HIDE DEF f
<1>3. /\ e \in Drivers /\ Coherent(e) /\ Settled(e)
      /\ e.identifying = d.identifying /\ e.identifyGreen = d.identifyGreen
      /\ e.identifyToggle = d.identifyToggle
      /\ e.mode = "Blink" => IF f.mode = "Blink" THEN e.lastToggle = f.lastToggle
                                                 ELSE e.lastToggle = now
      BY <1>1, GreenKeeps
<1>4. Cleared(d) = e
      BY DEF Cleared, f
<1> HIDE DEF e
<1>5. e.mode = "Blink" => IF d.mode = "Blink" THEN e.lastToggle = d.lastToggle
                                              ELSE e.lastToggle = now
      BY <1>1, <1>2, <1>3
<1> QED BY <1>3, <1>4, <1>5 DEF Asked

\* update() outside the flash: toggled, or not due yet.
LEMMA BlinkUpdate ==
    ASSUME now \in Stamps, NEW d \in Drivers,
           Settled(d), Coherent(d), ~d.identifying
    PROVE  /\ Updated(d) \in Drivers /\ Settled(Updated(d)) /\ Coherent(Updated(d))
           /\ ~Updated(d).identifying /\ Updated(d).mode = d.mode
           /\ Updated(d).mode = "Blink" => Minus(now, Updated(d).lastToggle) < BlinkMs
           /\ Updated(d) = d \/ Updated(d).pin # d.pin
<1>1. CASE d.mode = "Blink" /\ Elapsed(d.lastToggle, BlinkMs)
  <2> DEFINE n == [d EXCEPT !.showingLast = ~d.showingLast, !.lastToggle = now]
             c == CurrentColor(n)
             u == [n EXCEPT !.pin = c]
  <2>1. Updated(d) = u
        BY <1>1 DEF Updated, BlinkToggled
  <2>2. /\ n \in Drivers /\ n.mode = "Blink" /\ n.lastDisplayed = d.lastDisplayed
        /\ n.lastToggle = now /\ n.identifying = d.identifying
        /\ n.greenRequested = d.greenRequested /\ n.redRequested = d.redRequested
        /\ n.showingLast = ~d.showingLast
        BY <1>1 DEF Drivers
  <2> HIDE DEF n
  <2>3. c \in Colors /\ c # CurrentColor(d)
        BY <1>1, <2>2 DEF CurrentColor, Opposite, Colors, Drivers
  <2>4. c = IF n.showingLast THEN n.lastDisplayed ELSE Opposite(n.lastDisplayed)
        BY <2>2 DEF CurrentColor
  <2> HIDE DEF c
  <2>5. /\ u \in Drivers /\ u.mode = "Blink" /\ u.lastDisplayed = n.lastDisplayed
        /\ u.lastToggle = now /\ u.identifying = d.identifying /\ u.pin = c
        /\ u.greenRequested = d.greenRequested /\ u.redRequested = d.redRequested
        /\ u.showingLast = n.showingLast
        BY <2>2, <2>3 DEF Drivers
  <2> HIDE DEF u
  <2>6. Coherent(u) /\ Settled(u)
        BY <1>1, <2>4, <2>5 DEF Coherent, CurrentColor, Settled, RequestedMode
  <2>7. Minus(now, now) < BlinkMs
        BY Stamping, Durations
  <2>8. u.pin # d.pin
        BY <2>3, <2>5 DEF Coherent
  <2> QED BY <1>1, <2>1, <2>5, <2>6, <2>7, <2>8
<1>2. CASE ~(d.mode = "Blink" /\ Elapsed(d.lastToggle, BlinkMs))
  <2>1. Updated(d) = d
        BY <1>2 DEF Updated
  <2>2. Minus(now, d.lastToggle) \in Nat
        BY Stamping DEF Drivers
  <2>3. d.mode = "Blink" => Minus(now, d.lastToggle) < BlinkMs
        BY <1>2, <2>2, Durations DEF Elapsed
  <2> QED BY <2>1, <2>3
<1> QED BY <1>1, <1>2

\* update() during the flash.
LEMMA FlashUpdate ==
    ASSUME now \in Stamps, NEW d \in Drivers,
           Settled(d), Coherent(d), d.identifying
    PROVE  /\ Updated(d) \in Drivers /\ Settled(Updated(d)) /\ Coherent(Updated(d))
           /\ Updated(d).identifying /\ Updated(d).mode = d.mode
           /\ Updated(d).lastToggle = d.lastToggle
           /\ Minus(now, Updated(d).identifyToggle) < IdentifyMs
           /\ \/ Updated(d) = d
              \/ /\ Updated(d).identifyToggle = now
                 /\ FlashColor(Updated(d)) # FlashColor(d)
                 /\ Updated(d).pin = FlashColor(Updated(d))
<1>1. CASE Elapsed(d.identifyToggle, IdentifyMs)
  <2> DEFINE c == IF d.identifyGreen THEN "Red" ELSE "Green"
             u == [d EXCEPT !.identifyGreen = ~d.identifyGreen,
                            !.identifyToggle = now, !.pin = c]
  <2>1. Updated(d) = u
        BY <1>1 DEF Updated, FlashToggled
  <2>2. c \in Colors /\ c # FlashColor(d)
        BY DEF Colors, FlashColor
  <2> HIDE DEF c
  <2>3. /\ u \in Drivers /\ u.mode = d.mode /\ u.lastDisplayed = d.lastDisplayed
        /\ u.lastToggle = d.lastToggle /\ u.identifying = d.identifying
        /\ u.pin = c /\ u.greenRequested = d.greenRequested
        /\ u.redRequested = d.redRequested /\ u.identifyToggle = now
        /\ u.identifyGreen = ~d.identifyGreen
        BY <2>2 DEF Drivers
  <2> HIDE DEF u
  <2>4. Coherent(u) /\ Settled(u)
        BY <2>3 DEF Coherent, Settled, RequestedMode
  <2>5. FlashColor(u) = c
        BY <2>3 DEF FlashColor, c, Drivers
  <2>6. Minus(now, now) < IdentifyMs
        BY Stamping, Durations
  <2> QED BY <2>1, <2>2, <2>3, <2>4, <2>5, <2>6
<1>2. CASE ~Elapsed(d.identifyToggle, IdentifyMs)
  <2>1. Updated(d) = d
        BY <1>2 DEF Updated
  <2>2. Minus(now, d.identifyToggle) \in Nat
        BY Stamping DEF Drivers
  <2>3. Minus(now, d.identifyToggle) < IdentifyMs
        BY <1>2, <2>2, Durations DEF Elapsed
  <2> QED BY <2>1, <2>3
<1> QED BY <1>1, <1>2
--------------------------------------------------------------------------------
(***************************************************************************)
(* The steps.                                                              *)
(***************************************************************************)
LEMMA InitLed == Init => LedInv
<1> SUFFICES ASSUME Init PROVE LedInv
    OBVIOUS
<1>1. driver \in Drivers
      BY Durations DEF Init, Drivers, Colors
<1>2. TypeOK
      BY <1>1, Durations DEF Init, TypeOK
<1>3. Settled(driver) /\ Coherent(driver)
      BY DEF Init, Settled, RequestedMode, Coherent, CurrentColor
<1>4. BlinkElapsed = 0
      BY Stamping, Durations DEF Init, BlinkElapsed
<1>5. BlinkAge /\ FlashAge
      BY <1>4, Durations DEF Init, BlinkAge, FlashAge
<1>6. ~driver.identifying => flashFor = 0
      BY DEF Init
<1> QED BY <1>2, <1>3, <1>5, <1>6 DEF LedInv

\* The history variables at a step of the driver.
LEMMA History ==
    ASSUME TypeOK, NEW e, Becomes(e)
    PROVE  /\ driver' = e /\ now' = now
           /\ sinceChange' \in Ages /\ flashFor' \in 0 .. MaxFlash
           /\ sinceChange' = sinceChange \/ sinceChange' = 0
           /\ e.pin # driver.pin \/ Task(e) # Task(driver) => sinceChange' = 0
           /\ e.identifying => flashFor' = flashFor
           /\ ~e.identifying => flashFor' = 0
BY Durations DEF TypeOK, Becomes

LEMMA Numbers ==
    ASSUME TypeOK
    PROVE  /\ sinceChange \in Nat /\ sinceUpdate \in Nat /\ flashFor \in Nat
           /\ sinceUpdate <= MaxGap
           /\ BlinkElapsed \in Nat /\ FlashElapsed \in Nat
           /\ Minus(now, now) = 0
<1>1. now \in Stamps /\ driver.lastToggle \in Stamps /\ driver.identifyToggle \in Stamps
      BY DEF TypeOK, Drivers
<1>2. BlinkElapsed \in Nat /\ FlashElapsed \in Nat /\ Minus(now, now) = 0
      BY <1>1, Stamping DEF BlinkElapsed, FlashElapsed
<1> QED BY <1>2, Aging, Durations DEF TypeOK

\* Display and Clear: they may write the pin under the flash.
LEMMA RequestKeeps ==
    ASSUME LedInv, NEW e, Asked(driver, e), Becomes(e), UNCHANGED sinceUpdate
    PROVE  LedInv'
<1> USE DEF LedInv
<1>1. /\ driver' = e /\ now' = now
      /\ sinceChange' \in Ages /\ flashFor' \in 0 .. MaxFlash
      /\ sinceChange' = sinceChange \/ sinceChange' = 0
      /\ e.pin # driver.pin \/ Task(e) # Task(driver) => sinceChange' = 0
      /\ e.identifying => flashFor' = flashFor
      /\ ~e.identifying => flashFor' = 0
      BY History
<1>2. /\ e \in Drivers /\ Coherent(e) /\ Settled(e)
      /\ e.identifying = driver.identifying
      /\ e.identifyGreen = driver.identifyGreen
      /\ e.identifyToggle = driver.identifyToggle
      BY DEF Asked
<1>3. TypeOK'
      BY <1>1, <1>2 DEF TypeOK
<1>4. Settled(driver)' /\ Coherent(driver)'
      BY <1>1, <1>2 DEF Settled, RequestedMode, Coherent, CurrentColor, Opposite
<1>5. (~driver.identifying => flashFor = 0)'
      BY <1>1
<1>6. BlinkAge'
  <2>1. CASE e.mode = "Blink" /\ driver.mode = "Blink"
    <3>1. BlinkElapsed' = BlinkElapsed
          BY <1>1, <2>1 DEF BlinkElapsed, Asked
    <3> QED BY <1>1, <1>2, <2>1, <3>1, Numbers DEF BlinkAge
  <2>2. CASE e.mode = "Blink" /\ driver.mode # "Blink"
    <3>1. BlinkElapsed' = 0
          BY <1>1, <2>2, Numbers DEF BlinkElapsed, Asked
    <3>2. ~e.identifying => sinceChange' = 0
          BY <1>1, <1>2, <2>2 DEF Task
    <3>3. flashFor' \in Nat /\ sinceUpdate' \in Nat
          BY <1>1, Numbers, Durations
    <3>4. \A n \in Nat : 0 < BlinkMs + MaxGap + n /\ 0 < BlinkMs + n
          BY Durations
    <3>5. 0 <= 0
          OBVIOUS
    <3> QED BY <1>1, <3>1, <3>2, <3>3, <3>4, <3>5, Zenon DEF BlinkAge
  <2>3. CASE e.mode # "Blink"
        BY <1>1, <2>3 DEF BlinkAge
  <2> QED BY <2>1, <2>2, <2>3
<1>7. FlashAge'
  <2> SUFFICES ASSUME e.identifying PROVE FlashAge'
      BY <1>1 DEF FlashAge
  <2>1. FlashElapsed' = FlashElapsed
        BY <1>1, <1>2 DEF FlashElapsed
  <2>2. FlashColor(driver)' = FlashColor(driver)
        BY <1>1, <1>2 DEF FlashColor
  <2>3. e.pin # FlashColor(driver) => sinceChange' <= FlashElapsed
        BY <1>1, <1>2, Numbers DEF FlashAge
  <2>4. sinceChange' < FlashElapsed + IdentifyMs + MaxGap
        BY <1>1, <1>2, Numbers, Durations DEF FlashAge
  <2>5. FlashElapsed < IdentifyMs + sinceUpdate
        BY <1>2 DEF FlashAge
  <2> QED BY <1>1, <2>1, <2>2, <2>3, <2>4, <2>5 DEF FlashAge
<1> QED BY <1>3, <1>4, <1>5, <1>6, <1>7

\* The flash begins: Pass(TRUE) while the node does not identify itself.
LEMMA FlashBegins ==
    ASSUME LedInv, Pass(TRUE), ~driver.identifying
    PROVE  LedInv'
<1> USE DEF LedInv
<1> DEFINE d == [driver EXCEPT !.identifying = TRUE, !.identifyGreen = TRUE,
                               !.identifyToggle = now, !.pin = "Green"]
<1>1. driver \in Drivers /\ now \in Stamps
      BY DEF TypeOK
<1>2. /\ d \in Drivers /\ d.identifying = TRUE /\ d.identifyGreen = TRUE
      /\ d.identifyToggle = now /\ d.pin = "Green" /\ d.mode = driver.mode
      /\ d.lastToggle = driver.lastToggle /\ d.lastDisplayed = driver.lastDisplayed
      /\ d.greenRequested = driver.greenRequested
      /\ d.redRequested = driver.redRequested
      BY <1>1 DEF Drivers, Colors
<1>3. Identified(driver, TRUE) = d
      BY <1>1 DEF Identified, Drivers
<1> HIDE DEF d
<1>4. ~Elapsed(d.identifyToggle, IdentifyMs)
      BY <1>2, Numbers, Durations DEF Elapsed
<1>5. Updated(d) = d
      BY <1>2, <1>4 DEF Updated
<1>6. Becomes(d) /\ sinceUpdate' = 0
      BY <1>3, <1>5 DEF Pass
<1>7. Task(d) # Task(driver)
      BY <1>1, <1>2 DEF Task, Drivers, Colors
<1>8. /\ driver' = d /\ now' = now /\ sinceChange' = 0
      /\ flashFor' \in 0 .. MaxFlash /\ flashFor' = 0
      BY <1>2, <1>6, <1>7, History
<1>9. TypeOK'
      BY <1>1, <1>2, <1>6, <1>8, Durations DEF TypeOK
<1>10. Settled(driver)' /\ Coherent(driver)'
      BY <1>2, <1>8 DEF Settled, RequestedMode, Coherent
<1>11. BlinkAge'
  <2>1. BlinkElapsed' = BlinkElapsed
        BY <1>2, <1>8 DEF BlinkElapsed
  <2>2. BlinkElapsed < BlinkMs + sinceUpdate => BlinkElapsed < BlinkMs + MaxGap + 0
        BY Numbers, Durations
  <2> QED BY <1>2, <1>8, <2>1, <2>2, Zenon DEF BlinkAge
<1>12. FlashAge'
  <2>1. FlashElapsed' = 0
        BY <1>2, <1>8, Numbers DEF FlashElapsed
  <2>2. 0 < IdentifyMs + 0 /\ 0 < 0 + IdentifyMs + MaxGap
        BY Durations
  <2>3. FlashColor(driver)' = driver'.pin
        BY <1>2, <1>8 DEF FlashColor
  <2> QED BY <1>6, <1>8, <2>1, <2>2, <2>3, Zenon DEF FlashAge
<1> QED BY <1>8, <1>9, <1>10, <1>11, <1>12

\* It goes on.
LEMMA FlashGoesOn ==
    ASSUME LedInv, Pass(TRUE), driver.identifying
    PROVE  LedInv'
<1> USE DEF LedInv
<1> DEFINE u == Updated(driver)
<1>1. driver \in Drivers /\ now \in Stamps
      BY DEF TypeOK
<1>2. Identified(driver, TRUE) = driver
      BY <1>1 DEF Identified, Drivers
<1>3. /\ u \in Drivers /\ Settled(u) /\ Coherent(u)
      /\ u.identifying /\ u.mode = driver.mode /\ u.lastToggle = driver.lastToggle
      /\ Minus(now, u.identifyToggle) < IdentifyMs
      /\ \/ u = driver
         \/ /\ u.identifyToggle = now /\ FlashColor(u) # FlashColor(driver)
            /\ u.pin = FlashColor(u)
      BY <1>1, FlashUpdate
<1>4. Becomes(u) /\ sinceUpdate' = 0
      BY <1>2 DEF Pass
<1> HIDE DEF u
<1>5. /\ driver' = u /\ now' = now
      /\ sinceChange' \in Ages /\ flashFor' \in 0 .. MaxFlash
      /\ sinceChange' = sinceChange \/ sinceChange' = 0
      /\ u.pin # driver.pin => sinceChange' = 0
      /\ flashFor' = flashFor
      BY <1>3, <1>4, History
<1>6. TypeOK'
      BY <1>3, <1>4, <1>5, Durations DEF TypeOK
<1>7. Settled(driver)' /\ Coherent(driver)'
      BY <1>3, <1>5 DEF Settled, RequestedMode, Coherent, CurrentColor, Opposite
<1>8. BlinkAge'
  <2>1. BlinkElapsed' = BlinkElapsed
        BY <1>3, <1>5 DEF BlinkElapsed
  <2> QED BY <1>3, <1>5, <2>1, Zenon DEF BlinkAge
<1>9. FlashAge'
  <2>1. FlashElapsed' = Minus(now, u.identifyToggle)
        BY <1>5 DEF FlashElapsed
  <2>2. FlashElapsed' \in Nat /\ FlashElapsed' < IdentifyMs + 0
    <3>1. u.identifyToggle \in Stamps
          BY <1>3 DEF Drivers
    <3>2. Minus(now, u.identifyToggle) \in Nat
          BY <1>1, <3>1, Stamping
    <3>3. IdentifyMs = IdentifyMs + 0
          BY Durations
    <3> QED BY <1>3, <2>1, <3>2, <3>3, Zenon
  <2>3. CASE u = driver
    <3>1. FlashElapsed' = FlashElapsed /\ FlashColor(driver)' = FlashColor(driver)
          BY <1>5, <2>3 DEF FlashElapsed, FlashColor
    <3>2. /\ sinceChange < FlashElapsed + IdentifyMs + MaxGap
          /\ driver.pin # FlashColor(driver) => sinceChange <= FlashElapsed
          BY DEF FlashAge
    <3>3. sinceChange' < FlashElapsed + IdentifyMs + MaxGap
          BY <1>5, <3>2, Numbers, Durations
    <3>4. driver.pin # FlashColor(driver) => sinceChange' <= FlashElapsed
          BY <1>5, <3>2, Numbers
    <3> QED BY <1>4, <1>5, <2>2, <2>3, <3>1, <3>3, <3>4, Zenon DEF FlashAge
  <2>4. CASE /\ u.identifyToggle = now /\ FlashColor(u) # FlashColor(driver)
             /\ u.pin = FlashColor(u)
    <3>1. driver.pin # FlashColor(driver) => sinceChange <= FlashElapsed
          BY DEF FlashAge
    <3>2. FlashElapsed < IdentifyMs + sinceUpdate
          BY DEF FlashAge
    <3>3. sinceChange' < FlashElapsed' + IdentifyMs + MaxGap
          BY <1>5, <2>2, <2>4, <3>1, <3>2, Numbers, Durations
    <3>4. driver'.pin = FlashColor(driver)'
          BY <1>5, <2>4 DEF FlashColor
    <3> QED BY <1>4, <2>2, <3>3, <3>4, Zenon DEF FlashAge
  <2> QED BY <1>3, <2>3, <2>4
<1>10. (~driver.identifying => flashFor = 0)'
      BY <1>3, <1>5
<1> QED BY <1>6, <1>7, <1>8, <1>9, <1>10

\* Outside the flash a pass leads to a settled driver u that is not flashing,
\* and that is the one before or has a pin or a task that changed.
LEMMA Steady ==
    ASSUME LedInv, NEW u, u \in Drivers, Settled(u), Coherent(u),
           ~u.identifying, Becomes(u), sinceUpdate' = 0,
           u.mode = "Blink" => Minus(now, u.lastToggle) < BlinkMs,
           sinceChange' = 0 \/ u = driver
    PROVE  LedInv'
<1> USE DEF LedInv
<1>1. now \in Stamps /\ u.lastToggle \in Stamps
      BY DEF TypeOK, Drivers
<1>2. /\ driver' = u /\ now' = now
      /\ sinceChange' \in Ages /\ flashFor' \in 0 .. MaxFlash
      /\ sinceChange' = sinceChange \/ sinceChange' = 0
      /\ flashFor' = 0
      BY History
<1>3. TypeOK'
      BY <1>1, <1>2, Durations DEF TypeOK
<1>4. Settled(driver)' /\ Coherent(driver)'
      BY <1>2 DEF Settled, RequestedMode, Coherent, CurrentColor, Opposite
<1>5. BlinkAge'
  <2>1. BlinkElapsed' = Minus(now, u.lastToggle)
        BY <1>2 DEF BlinkElapsed
  <2>2. Minus(now, u.lastToggle) \in Nat
        BY <1>1, Stamping
  <2>3. \A n \in Nat : 0 <= n /\ BlinkMs + 0 = BlinkMs
        BY Durations
  <2>4. u = driver /\ u.mode = "Blink" => sinceChange <= Minus(now, u.lastToggle)
        BY DEF BlinkAge, BlinkElapsed
  <2> QED BY <1>2, <2>1, <2>2, <2>3, <2>4, Zenon DEF BlinkAge
<1>6. FlashAge'
      BY <1>2 DEF FlashAge
<1> QED BY <1>2, <1>3, <1>4, <1>5, <1>6

\* No flash, and its end.
LEMMA PassOutsideFlash == LedInv /\ Pass(FALSE) => LedInv'
<1> SUFFICES ASSUME LedInv, Pass(FALSE) PROVE LedInv'
    OBVIOUS
<1> USE DEF LedInv
<1>1. driver \in Drivers /\ now \in Stamps
      BY DEF TypeOK
<1>2. CASE ~driver.identifying
  <2> DEFINE u == Updated(driver)
  <2>1. Identified(driver, FALSE) = driver
        BY <1>1, <1>2 DEF Identified, Drivers
  <2>2. /\ u \in Drivers /\ Settled(u) /\ Coherent(u) /\ ~u.identifying
        /\ u.mode = "Blink" => Minus(now, u.lastToggle) < BlinkMs
        /\ u = driver \/ u.pin # driver.pin
        BY <1>1, <1>2, BlinkUpdate
  <2>3. Becomes(u) /\ sinceUpdate' = 0
        BY <2>1 DEF Pass
  <2> HIDE DEF u
  <2>4. sinceChange' = 0 \/ u = driver
        BY <2>2, <2>3, History
  <2> QED BY <2>2, <2>3, <2>4, Steady
<1>3. CASE driver.identifying
  <2> DEFINE c == CurrentColor(driver)
             d == [driver EXCEPT !.identifying = FALSE, !.pin = c]
             u == Updated(d)
  <2>1. Identified(driver, FALSE) = d
        BY <1>1, <1>3 DEF Identified, Drivers
  <2>2. c \in Colors
        BY <1>1 DEF CurrentColor, Opposite, Drivers, Colors
  <2>3. c = IF driver.mode # "Blink" THEN driver.mode
            ELSE IF driver.showingLast THEN driver.lastDisplayed
                                       ELSE Opposite(driver.lastDisplayed)
        BY DEF CurrentColor
  <2> HIDE DEF c
  <2>4. /\ d \in Drivers /\ d.identifying = FALSE /\ d.pin = c
        /\ d.mode = driver.mode /\ d.showingLast = driver.showingLast
        /\ d.lastDisplayed = driver.lastDisplayed
        /\ d.greenRequested = driver.greenRequested
        /\ d.redRequested = driver.redRequested
        BY <1>1, <2>2 DEF Drivers
  <2> HIDE DEF d
  <2>5. Settled(d) /\ Coherent(d)
        BY <2>3, <2>4 DEF Settled, RequestedMode, Coherent, CurrentColor
  <2>6. /\ u \in Drivers /\ Settled(u) /\ Coherent(u) /\ ~u.identifying
        /\ u.mode = "Blink" => Minus(now, u.lastToggle) < BlinkMs
        BY <1>1, <2>4, <2>5, BlinkUpdate
  <2>7. Becomes(u) /\ sinceUpdate' = 0
        BY <2>1 DEF Pass
  <2> HIDE DEF u
  <2>8. Task(u) # Task(driver)
        BY <1>3, <2>6 DEF Task, Drivers, Colors
  <2>9. sinceChange' = 0
        BY <2>7, <2>8, History
  <2> QED BY <2>6, <2>7, <2>9, Steady
<1> QED BY <1>2, <1>3

LEMMA TickKeeps == LedInv /\ Tick => LedInv'
<1> SUFFICES ASSUME LedInv, Tick PROVE LedInv'
    OBVIOUS
<1> USE DEF LedInv
<1>1. /\ driver \in Drivers /\ now \in Stamps
      /\ driver.lastToggle \in Stamps /\ driver.identifyToggle \in Stamps
      BY DEF TypeOK, Drivers
<1>2. /\ now' = NextStamp(now) /\ driver' = driver
      /\ sinceUpdate < MaxGap /\ sinceUpdate' = sinceUpdate + 1
      BY DEF Tick
<1>3. sinceChange' \in Ages /\ sinceChange' \in Nat /\ sinceChange' <= sinceChange + 1
  <2>1. Older(sinceChange) \in Ages /\ Older(sinceChange) <= sinceChange + 1
        BY Aging DEF TypeOK
  <2>2. Older(sinceChange) \in Nat
        BY <2>1, Aging
  <2> QED BY <2>1, <2>2, Zenon DEF Tick
<1>4. sinceUpdate + 1 \in 0 .. MaxGap
      BY <1>2, Durations DEF TypeOK
<1>5. flashFor' \in 0 .. MaxFlash
  <2>1. driver.identifying => flashFor + 1 \in 0 .. MaxFlash
        BY Durations DEF TypeOK, Tick
  <2> QED BY <2>1, Durations, Zenon DEF Tick
<1>6. TypeOK'
      BY <1>1, <1>2, <1>3, <1>4, <1>5, Stamping DEF TypeOK
<1>7. Settled(driver)' /\ Coherent(driver)'
      BY <1>2 DEF Settled, RequestedMode, Coherent, CurrentColor, Opposite
<1>8. (~driver.identifying => flashFor = 0)'
      BY <1>2 DEF Tick
<1>9. BlinkAge'
  <2> SUFFICES ASSUME driver.mode = "Blink" PROVE BlinkAge'
      BY <1>2 DEF BlinkAge
  <2>1. BlinkElapsed + 1 < Wrap => BlinkElapsed' = BlinkElapsed + 1
        BY <1>1, <1>2, Stamping DEF BlinkElapsed
  <2>2. CASE driver.identifying
    <3>1. flashFor < MaxFlash /\ flashFor' = flashFor + 1
          BY <2>2 DEF Tick
    <3>2. BlinkElapsed < BlinkMs + MaxGap + flashFor
          BY <2>2 DEF BlinkAge
    <3>3. /\ BlinkElapsed + 1 < Wrap
          /\ BlinkElapsed + 1 < BlinkMs + MaxGap + (flashFor + 1)
          BY <3>1, <3>2, Numbers, Durations
    <3> QED BY <1>2, <2>1, <2>2, <3>1, <3>3, Zenon DEF BlinkAge
  <2>3. CASE ~driver.identifying
    <3>1. BlinkElapsed < BlinkMs + sinceUpdate /\ sinceChange <= BlinkElapsed
          BY <2>3 DEF BlinkAge
    <3>2. /\ BlinkElapsed + 1 < Wrap
          /\ BlinkElapsed + 1 < BlinkMs + (sinceUpdate + 1)
          BY <1>2, <3>1, Numbers, Durations
    <3>3. \A n \in Nat : n <= sinceChange + 1 => n <= BlinkElapsed + 1
          BY <3>1, Numbers
    <3> QED BY <1>2, <1>3, <2>1, <2>3, <3>2, <3>3, Zenon DEF BlinkAge
  <2> QED BY <2>2, <2>3
<1>10. FlashAge'
  <2> SUFFICES ASSUME driver.identifying PROVE FlashAge'
      BY <1>2 DEF FlashAge
  <2>1. /\ FlashElapsed < IdentifyMs + sinceUpdate
        /\ sinceChange < FlashElapsed + IdentifyMs + MaxGap
        /\ driver.pin # FlashColor(driver) => sinceChange <= FlashElapsed
        BY DEF FlashAge
  <2>2. /\ FlashElapsed + 1 < Wrap
        /\ FlashElapsed + 1 < IdentifyMs + (sinceUpdate + 1)
        BY <1>2, <2>1, Numbers, Durations
  <2>3. FlashElapsed' = FlashElapsed + 1
        BY <1>1, <1>2, <2>2, Stamping DEF FlashElapsed
  <2>4. FlashColor(driver)' = FlashColor(driver)
        BY <1>2 DEF FlashColor
  <2>5. \A n \in Nat : n <= sinceChange + 1
                          => n < (FlashElapsed + 1) + IdentifyMs + MaxGap
        BY <2>1, Numbers, Durations
  <2>6. \A n \in Nat : n <= sinceChange + 1 /\ sinceChange <= FlashElapsed
                          => n <= FlashElapsed + 1
        BY Numbers
  <2> QED BY <1>2, <1>3, <2>1, <2>2, <2>3, <2>4, <2>5, <2>6, Zenon DEF FlashAge
<1> QED BY <1>6, <1>7, <1>8, <1>9, <1>10

LEMMA StepKeeps == LedInv /\ [Next]_vars => LedInv'
<1> SUFFICES ASSUME LedInv, [Next]_vars PROVE LedInv'
    OBVIOUS
<1>1. now \in Stamps /\ driver \in Drivers /\ Coherent(driver) /\ Settled(driver)
      BY DEF LedInv, TypeOK
<1>2. ASSUME NEW position \in {"Thrown", "Closed"}, Display(position) PROVE LedInv'
  <2>1. Asked(driver, Displayed(driver, position))
        BY <1>1, DisplayAsks
  <2> QED BY <1>2, <2>1, RequestKeeps DEF Display
<1>3. CASE Clear
  <2>1. Asked(driver, Cleared(driver))
        BY <1>1, ClearAsks
  <2> QED BY <1>3, <2>1, RequestKeeps DEF Clear
<1>4. ASSUME NEW identify \in BOOLEAN, Pass(identify) PROVE LedInv'
  <2>1. CASE identify = TRUE
        BY <1>4, <2>1, FlashBegins, FlashGoesOn
  <2>2. CASE identify = FALSE
        BY <1>4, <2>2, PassOutsideFlash
  <2> QED BY <2>1, <2>2
<1>5. CASE Tick
      BY <1>5, TickKeeps
<1>6. CASE UNCHANGED vars
  <2>1. /\ now' = now /\ driver' = driver /\ sinceChange' = sinceChange
        /\ sinceUpdate' = sinceUpdate /\ flashFor' = flashFor
        BY <1>6 DEF vars
  <2> QED BY <2>1 DEF LedInv, TypeOK, Settled, RequestedMode, Coherent, CurrentColor,
                      Opposite, BlinkAge, FlashAge, BlinkElapsed, FlashElapsed, FlashColor
<1> QED BY <1>2, <1>3, <1>4, <1>5, <1>6 DEF Next

LEMMA Inductive == Spec => []LedInv
BY InitLed, StepKeeps, PTL DEF Spec

--------------------------------------------------------------------------------
(***************************************************************************)
(* Unless the node is identifying itself, a pair of which one colour was   *)
(* asked for shows it, whatever applyState() and update() wrote in between.*)
(***************************************************************************)
THEOREM ShowsAsked == Spec => []ShowsRequest
<1>1. LedInv => ShowsRequest
  <2> SUFFICES ASSUME LedInv, ~driver.identifying,
                      driver.greenRequested # driver.redRequested
               PROVE  driver.pin = IF driver.greenRequested THEN "Green" ELSE "Red"
      BY DEF ShowsRequest
  <2>1. /\ driver.greenRequested \in BOOLEAN /\ driver.redRequested \in BOOLEAN
        /\ driver.mode = RequestedMode(driver) /\ driver.pin = CurrentColor(driver)
        BY DEF LedInv, TypeOK, Drivers, Settled, Coherent
  <2> QED BY <2>1 DEF RequestedMode, CurrentColor
<1> QED BY <1>1, Inductive, PTL

(***************************************************************************)
(* The pair of an unconfirmed turnout blinks, over every rollover of the   *)
(* clock and whenever update() runs at least every MaxGap ms.              *)
(***************************************************************************)
THEOREM BlinksInTime == Spec => []Blinks
<1>1. LedInv => Blinks
  <2> SUFFICES ASSUME LedInv, ~driver.identifying,
                      ~driver.greenRequested, ~driver.redRequested
               PROVE  sinceChange < BlinkMs + MaxGap
      BY DEF Blinks
  <2>1. driver.mode = "Blink"
        BY DEF LedInv, Settled, RequestedMode
  <2>2. BlinkElapsed < BlinkMs + sinceUpdate /\ sinceChange <= BlinkElapsed
        BY <2>1 DEF LedInv, BlinkAge
  <2>3. TypeOK
        BY DEF LedInv
  <2> QED BY <2>2, <2>3, Numbers, Durations
<1> QED BY <1>1, Inductive, PTL

(***************************************************************************)
(* The flash of setIdentifying() and update() is seen, although feedback   *)
(* goes on writing the pin while it lasts.                                 *)
(***************************************************************************)
THEOREM FlashesOn == Spec => []Flashes
<1>1. LedInv => Flashes
  <2> SUFFICES ASSUME LedInv, driver.identifying
               PROVE  sinceChange < 2 * (IdentifyMs + MaxGap)
      BY DEF Flashes
  <2>1. /\ FlashElapsed < IdentifyMs + sinceUpdate
        /\ sinceChange < FlashElapsed + IdentifyMs + MaxGap
        BY DEF LedInv, FlashAge
  <2>2. TypeOK
        BY DEF LedInv
  <2> QED BY <2>1, <2>2, Numbers, Durations
<1> QED BY <1>1, Inductive, PTL
================================================================================
