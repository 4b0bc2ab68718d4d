----------------------------- MODULE DevicesProofs ----------------------------
(***************************************************************************)
(* Theorems about the machines of Devices, for every interval of theirs,   *)
(* every matrix and every width of the clock, rollovers included.          *)
(*                                                                         *)
(* The argument is the same for each that keeps time: what is computed     *)
(* from two stamps is the true time, while that is less than a turn of the *)
(* clock, and the machine acts on it before the turn is over.  The         *)
(* sections have one machine each; the last puts them together.            *)
(***************************************************************************)
EXTENDS Devices, SequenceTheorems, TLAPS

(***************************************************************************)
(* A button on a pin.                                                      *)
(*                                                                         *)
(* Steady: what the code computes from two stamps is the true time.        *)
(* Settled: the stable reading is the sampled one from the first update()  *)
(* on that comes after the debounce time, so that the computed time is not *)
(* needed any more when it turns over.                                     *)
(***************************************************************************)
Steady == steadyFor < Wrap => Minus(now, lastTransition) = steadyFor

Settled == steadyFor >= DebounceMs + sincePoll => stable = lastRaw

\* How long ago the press reported last must be.
Apart ==
    /\ stable /\ ~lastRaw => sincePress >= steadyFor
    /\ ~stable => sincePress >= DebounceMs
    /\ ~stable /\ lastRaw => sincePress = Wrap \/ sincePress >= DebounceMs + steadyFor

IInv == TypeOK /\ Steady /\ Settled /\ Apart

(***************************************************************************)
(* Stamps and ages.                                                        *)
(***************************************************************************)
LEMMA Stamping ==
    ASSUME NEW a \in Stamps
    PROVE  /\ NextStamp(a) \in Stamps
           /\ Minus(a, a) = 0
           /\ 0 \in Stamps
  BY WrapAssumption DEF Stamps, NextStamp, Plus, Minus

LEMMA Aging ==
    ASSUME NEW age \in Ages
    PROVE  /\ Older(age) \in Ages
           /\ age < Wrap => Older(age) = age + 1
           /\ age = Wrap => Older(age) = Wrap
  BY WrapAssumption DEF Ages, Older

LEMMA MinusNext ==
    ASSUME NEW a \in Stamps, NEW b \in Stamps, Minus(a, b) + 1 < Wrap
    PROVE  Minus(NextStamp(a), b) = Minus(a, b) + 1
  BY WrapAssumption DEF Stamps, NextStamp, Plus, Minus

(***************************************************************************)
(* A level that update() takes over is the one sampled last, for the       *)
(* debounce time; one that was sampled that long is taken over.            *)
(***************************************************************************)
LEMMA TakenOver ==
    ASSUME TypeOK, Steady, Update, stable' # stable
    PROVE  contact = lastRaw /\ stable' = lastRaw /\ steadyFor >= DebounceMs
<1>1. Debounced /\ stable' = contact
  BY DEF Update
<1>2. contact = lastRaw
  <2> SUFFICES ASSUME contact # lastRaw PROVE FALSE
    OBVIOUS
  <2>1. lastTransition' = now
    BY DEF Update, Sample
  <2>2. Minus(now, now) >= DebounceMs
    BY <1>1, <2>1, Zenon DEF Debounced
  <2> QED
    BY <2>2, Stamping, ButtonAssumption DEF TypeOK
<1>3. lastTransition' = lastTransition
  BY <1>2 DEF Update, Sample
<1>4. Minus(now, lastTransition) >= DebounceMs
  BY <1>1, <1>3, Zenon DEF Debounced
<1>5. steadyFor >= DebounceMs
  BY <1>4, ButtonAssumption, WrapAssumption DEF Steady, TypeOK, Ages
<1> QED
  BY <1>1, <1>2, <1>5, Zenon

LEMMA TakesOver ==
    ASSUME IInv, Update, contact = lastRaw, steadyFor >= DebounceMs
    PROVE  stable' = contact
<1>1. lastTransition' = lastTransition
  BY DEF Update, Sample
<1>2. CASE steadyFor < Wrap
  <2>1. Minus(now, lastTransition) >= DebounceMs
    BY <1>2, Zenon DEF IInv, Steady
  <2>2. Debounced
    BY <1>1, <2>1, Zenon DEF Debounced
  <2> QED
    BY <2>2 DEF Update
<1>3. CASE ~(steadyFor < Wrap)
  <2>1. steadyFor >= DebounceMs + sincePoll
    BY <1>3, ButtonAssumption, WrapAssumption DEF IInv, TypeOK, Ages
  <2>2. stable = lastRaw
    BY <2>1, Zenon DEF IInv, Settled
  <2> QED
    BY <2>2 DEF Update
<1> QED
  BY <1>2, <1>3

(***************************************************************************)
(* The invariant.                                                          *)
(***************************************************************************)
LEMMA InitEstablishes == Init => IInv
<1> SUFFICES ASSUME Init PROVE IInv
  OBVIOUS
<1>1. TypeOK
  <2>1. now \in Stamps /\ lastTransition \in Stamps
    BY Stamping, WrapAssumption, SMT DEF Init, Stamps
  <2>2. steadyFor \in Ages /\ sincePress \in Ages /\ sincePoll \in 0 .. MaxGap
    BY WrapAssumption, ButtonAssumption, SMT DEF Init, Ages
  <2> QED
    BY <2>1, <2>2, Zenon DEF Init, TypeOK
<1>2. Steady
  BY WrapAssumption, SMT DEF Init, Steady, Minus
<1>3. Settled
  BY Zenon DEF Init, Settled
<1>4. Apart
  <2>1. sincePress = Wrap /\ steadyFor = 0 /\ Wrap >= 0 /\ Wrap >= DebounceMs
    BY WrapAssumption, ButtonAssumption, SMT DEF Init
  <2> QED
    BY <2>1, Zenon DEF Init, Apart
<1> QED
  BY <1>1, <1>2, <1>3, <1>4 DEF IInv

\* A bounce between two samples changes nothing the invariant speaks of.
LEMMA BounceKeeps == IInv /\ Bounce => IInv'
<1> SUFFICES ASSUME IInv, Bounce PROVE IInv'
  OBVIOUS
<1> USE DEF Bounce, readings
<1>1. TypeOK'
  BY Zenon DEF IInv, TypeOK
<1>2. Steady' /\ Settled' /\ Apart'
  BY Zenon DEF IInv, Steady, Settled, Apart
<1> QED
  BY <1>1, <1>2, Zenon DEF IInv

LEMMA TickKeeps == IInv /\ Tick => IInv'
<1> SUFFICES ASSUME IInv, Tick PROVE IInv'
  OBVIOUS
<1>t. /\ now \in Stamps /\ lastTransition \in Stamps
      /\ steadyFor \in Ages /\ sincePress \in Ages
      /\ sincePoll \in 0 .. MaxGap
  BY Zenon DEF IInv, TypeOK
<1>s. /\ now' = NextStamp(now)
      /\ steadyFor' = Older(steadyFor) /\ sincePress' = Older(sincePress)
      /\ sincePoll < MaxGap /\ sincePoll' = sincePoll + 1
      /\ lastTransition' = lastTransition
      /\ lastRaw' = lastRaw /\ stable' = stable
      /\ previousStable' = previousStable /\ contact' = contact
  BY Zenon DEF Tick, readings
<1>1. TypeOK'
  <2>1. now' \in Stamps /\ steadyFor' \in Ages /\ sincePress' \in Ages
    BY <1>t, <1>s, Stamping, Aging, Zenon
  <2>2. sincePoll' \in 0 .. MaxGap
    BY <1>t, <1>s, ButtonAssumption, SMT
  <2> QED
    BY <1>t, <1>s, <2>1, <2>2, Zenon DEF IInv, TypeOK
<1>2. Steady'
  <2> SUFFICES ASSUME steadyFor' < Wrap
               PROVE  Minus(now', lastTransition') = steadyFor'
    BY DEF Steady
  <2>1. steadyFor' = steadyFor + 1 /\ steadyFor < Wrap /\ steadyFor + 1 < Wrap
    BY <1>t, <1>s, WrapAssumption, SMT DEF Ages, Older
  <2>2. Minus(now, lastTransition) = steadyFor
    BY <2>1, Zenon DEF IInv, Steady
  <2>3. Minus(NextStamp(now), lastTransition) = steadyFor + 1
    BY <1>t, <2>1, <2>2, MinusNext, Zenon
  <2> QED
    BY <1>s, <2>1, <2>3, Zenon
<1>3. Settled'
  <2> SUFFICES ASSUME steadyFor' >= DebounceMs + sincePoll'
               PROVE  stable' = lastRaw'
    BY Zenon DEF Settled
  <2>1. steadyFor >= DebounceMs + sincePoll
    BY <1>t, <1>s, ButtonAssumption, WrapAssumption, SMT DEF Ages, Older
  <2> QED
    BY <2>1, <1>s, Zenon DEF IInv, Settled
<1>4. Apart'
  <2>1. sincePress >= steadyFor => sincePress' >= steadyFor'
    BY <1>t, <1>s, WrapAssumption, SMT DEF Ages, Older
  <2>2. sincePress >= DebounceMs => sincePress' >= DebounceMs
    BY <1>t, <1>s, WrapAssumption, ButtonAssumption, SMT DEF Ages, Older
  <2>3. sincePress = Wrap => sincePress' = Wrap
    BY <1>t, <1>s, WrapAssumption, SMT DEF Ages, Older
  <2>4. sincePress >= DebounceMs + steadyFor
          => sincePress' = Wrap \/ sincePress' >= DebounceMs + steadyFor'
    BY <1>t, <1>s, WrapAssumption, ButtonAssumption, SMT DEF Ages, Older
  <2> QED
    BY <1>s, <2>1, <2>2, <2>3, <2>4, Zenon DEF IInv, Apart
<1> QED
  BY <1>1, <1>2, <1>3, <1>4, Zenon DEF IInv

LEMMA UpdateKeeps == IInv /\ Update => IInv'
<1> SUFFICES ASSUME IInv, Update PROVE IInv'
  OBVIOUS
<1>t. /\ TypeOK /\ Steady /\ Settled /\ Apart
      /\ now \in Stamps /\ lastTransition \in Stamps
      /\ steadyFor \in Ages /\ sincePress \in Ages
      /\ contact \in BOOLEAN /\ lastRaw \in BOOLEAN /\ stable \in BOOLEAN
  BY Zenon DEF IInv, TypeOK
<1>s. /\ now' = now /\ contact' = contact
      /\ lastRaw' = contact /\ previousStable' = stable
      /\ sincePoll' = 0
  BY Zenon DEF Update, Sample
<1>d. contact # lastRaw => lastTransition' = now /\ steadyFor' = 0
  BY Zenon DEF Update, Sample
<1>e. contact = lastRaw => lastTransition' = lastTransition /\ steadyFor' = steadyFor
  BY Zenon DEF Update, Sample
<1>p. /\ PressReported => sincePress' = 0
      /\ ~PressReported => sincePress' = sincePress
  BY Zenon DEF Update
<1>b. stable' \in BOOLEAN /\ (stable' = contact \/ stable' = stable)
  BY <1>t, Zenon DEF Update
<1>z. /\ 0 \in Stamps /\ 0 \in Ages /\ 0 \in 0 .. MaxGap
  BY WrapAssumption, ButtonAssumption, SMT DEF Stamps, Ages
<1>1. TypeOK'
  <2>1. lastTransition' \in Stamps /\ steadyFor' \in Ages
    BY <1>t, <1>d, <1>e, <1>z, Zenon
  <2>2. sincePress' \in Ages
    BY <1>t, <1>p, <1>z, Zenon
  <2> QED
    BY <1>t, <1>s, <1>b, <1>z, <2>1, <2>2, Zenon DEF TypeOK
<1>2. Steady'
  <2>1. CASE contact # lastRaw
    BY <2>1, <1>t, <1>s, <1>d, Stamping, Zenon DEF Steady
  <2>2. CASE contact = lastRaw
    BY <2>2, <1>t, <1>s, <1>e, Zenon DEF Steady
  <2> QED
    BY <2>1, <2>2
<1>3. Settled'
  <2> SUFFICES ASSUME steadyFor' >= DebounceMs + sincePoll'
               PROVE  stable' = lastRaw'
    BY Zenon DEF Settled
  <2>1. contact = lastRaw
    <3> SUFFICES ASSUME contact # lastRaw PROVE FALSE
      OBVIOUS
    <3>1. 0 >= DebounceMs + 0
      BY <1>s, <1>d, Zenon
    <3> QED
      BY <3>1, ButtonAssumption, SMT
  <2>2. steadyFor >= DebounceMs
    <3>1. steadyFor >= DebounceMs + 0
      BY <2>1, <1>s, <1>e, Zenon
    <3> QED
      BY <3>1, ButtonAssumption, SMT
  <2> QED
    BY <2>1, <2>2, TakesOver, <1>s, Zenon
<1>4. Apart'
  <2>1. ASSUME stable', ~lastRaw' PROVE sincePress' >= steadyFor'
    <3>1. CASE contact # lastRaw
      <4>1. steadyFor' = 0 /\ sincePress' \in Ages
        BY <3>1, <1>d, <1>1, Zenon DEF TypeOK
      <4> QED
        BY <4>1, WrapAssumption, SMT DEF Ages
    <3>2. CASE contact = lastRaw
      <4>1. stable
        BY <2>1, <3>2, <1>s, <1>b, Zenon
      <4> QED
        BY <4>1, <3>2, <2>1, <1>s, <1>t, <1>e, <1>p, Zenon DEF Apart, PressReported
    <3> QED
      BY <3>1, <3>2
  <2>2. ASSUME ~stable' PROVE sincePress' >= DebounceMs
    <3>1. sincePress' = sincePress
      BY <2>2, <1>p, Zenon DEF PressReported
    <3>2. CASE ~stable
      BY <3>1, <3>2, <1>t, Zenon DEF Apart
    <3>3. CASE stable
      <4>1. ~lastRaw /\ steadyFor >= DebounceMs
        BY <2>2, <3>3, <1>t, TakenOver, Zenon
      <4>2. sincePress >= steadyFor
        BY <4>1, <3>3, <1>t, Zenon DEF Apart
      <4> QED
        BY <4>1, <4>2, <3>1, <1>t, ButtonAssumption, WrapAssumption, SMT DEF Ages
    <3> QED
      BY <3>2, <3>3
  <2>3. ASSUME ~stable', lastRaw'
        PROVE  sincePress' = Wrap \/ sincePress' >= DebounceMs + steadyFor'
    <3>1. CASE contact # lastRaw
      <4>1. steadyFor' = 0 /\ sincePress' >= DebounceMs
        BY <3>1, <2>2, <2>3, <1>d, Zenon
      <4> QED
        BY <4>1, ButtonAssumption, SMT
    <3>2. CASE contact = lastRaw
      <4>1. sincePress' = sincePress /\ steadyFor' = steadyFor
        BY <2>3, <3>2, <1>p, <1>e, Zenon DEF PressReported
      <4>2. ~stable
        BY <2>3, <3>2, <1>t, <1>s, TakenOver, Zenon
      <4> QED
        BY <4>1, <4>2, <2>3, <3>2, <1>s, <1>t, Zenon DEF Apart
    <3> QED
      BY <3>1, <3>2
  <2> QED
    BY <2>1, <2>2, <2>3, Zenon DEF Apart
<1> QED
  BY <1>1, <1>2, <1>3, <1>4, Zenon DEF IInv

LEMMA StutterKeeps == IInv /\ UNCHANGED vars => IInv'
<1> SUFFICES ASSUME IInv, UNCHANGED vars PROVE IInv'
  OBVIOUS
<1> USE DEF vars, readings
<1>1. TypeOK'
  BY Zenon DEF IInv, TypeOK
<1>2. Steady' /\ Settled' /\ Apart'
  BY Zenon DEF IInv, Steady, Settled, Apart
<1> QED
  BY <1>1, <1>2, Zenon DEF IInv

LEMMA Invariance == Spec => []IInv
<1>1. IInv /\ [Next]_vars => IInv'
  BY BounceKeeps, TickKeeps, UpdateKeeps, StutterKeeps DEF Next
<1> QED
  BY InitEstablishes, <1>1, PTL DEF Spec
-------------------------------------------------------------------------------
(***************************************************************************)
(* Button's variables keep their types: every stamp is one of the clock.   *)
(***************************************************************************)
THEOREM TypeCorrect == Spec => []TypeOK
<1>1. IInv => TypeOK
  BY DEF IInv
<1> QED
  BY Invariance, <1>1, PTL

\* The level sampled for the debounce time and a poll is the reading.
LEMMA SettlesFollows == IInv => Settles
<1> SUFFICES ASSUME IInv, steadyFor >= DebounceMs + MaxGap
             PROVE  stable = lastRaw
  BY Zenon DEF Settles
<1>1. steadyFor \in Ages /\ sincePoll \in 0 .. MaxGap
  BY Zenon DEF IInv, TypeOK
<1>2. steadyFor >= DebounceMs + sincePoll
  BY <1>1, ButtonAssumption, WrapAssumption, SMT DEF Ages
<1> QED
  BY <1>2, Zenon DEF IInv, Settled

(***************************************************************************)
(* However long the contact is held, and wherever the clock wraps, the     *)
(* stable reading is the level sampled for the debounce time and a poll.   *)
(***************************************************************************)
THEOREM ReadingSettles == Spec => []Settles
  BY Invariance, SettlesFollows, PTL

\* Only update() changes the stable reading, and to a steady level.
LEMMA LevelsKept ==
    IInv /\ [Next]_vars
        => [stable' # stable => steadyFor >= DebounceMs /\ lastRaw = stable']_vars
<1> SUFFICES ASSUME IInv, Next, stable' # stable
             PROVE  steadyFor >= DebounceMs /\ lastRaw = stable'
  BY Zenon
<1>1. Update
  BY Zenon DEF Next, Bounce, Tick, readings
<1> QED
  BY <1>1, TakenOver DEF IInv

(***************************************************************************)
(* No bounce gets through: update() only takes over a level that every     *)
(* sample of the debounce time has had.                                    *)
(***************************************************************************)
THEOREM LevelsAreSteady == Spec => OnlySteadyLevels
  BY Invariance, LevelsKept, PTL DEF Spec, OnlySteadyLevels

\* A report needs a release, which takes a debounce time, and a press, too.
LEMMA PressesKept ==
    IInv /\ [Next]_vars => [PressReported => sincePress >= 2 * DebounceMs]_vars
<1> SUFFICES ASSUME IInv, Next, PressReported
             PROVE  sincePress >= 2 * DebounceMs
  BY Zenon
<1>1. ~stable /\ stable'
  BY DEF PressReported
<1>2. Update
  BY <1>1, Zenon DEF Next, Bounce, Tick, readings
<1>3. lastRaw /\ steadyFor >= DebounceMs
  <2>1. stable' # stable /\ stable' \in BOOLEAN /\ lastRaw \in BOOLEAN
    BY <1>1, <1>2, Zenon DEF IInv, TypeOK, Update
  <2> QED
    BY <1>1, <1>2, <2>1, TakenOver, Zenon DEF IInv
<1>4. sincePress = Wrap \/ sincePress >= DebounceMs + steadyFor
  BY <1>1, <1>3, Zenon DEF IInv, Apart
<1>5. steadyFor \in Ages /\ sincePress \in Ages
  BY Zenon DEF IInv, TypeOK
<1>6. steadyFor >= DebounceMs
  BY <1>3
<1> QED
  BY <1>4, <1>5, <1>6, ButtonAssumption, WrapAssumption, SMT DEF Ages

(***************************************************************************)
(* One press is one report: update() reports two presses only with at      *)
(* least two debounce times between them.                                  *)
(***************************************************************************)
THEOREM PressesFarApart == Spec => PressesApart
  BY Invariance, PressesKept, PTL DEF Spec, PressesApart

-------------------------------------------------------------------------------
(***************************************************************************)
(* The matrix.                                                             *)
(*                                                                         *)
(* To the debouncer the cached contact is a contact that bounces as it     *)
(* likes: MatrixButton implements Button, and whatever is proved of Button *)
(* holds here.  What the cache adds is a count of passes: a level read     *)
(* once is as old as the passes since, which are fewer than a round and so *)
(* shorter than the debounce time.                                         *)
(***************************************************************************)

\* The time that n passes of loop() may take.
Gaps(n) == n * MaxGap

\* The debouncer has not looked yet at what was read just now.
JustRead == scanned /\ row = KeyRow

\* Looks at the contact since the pass that read it.
LooksSince == IF row = KeyRow THEN 0 ELSE IF scanned THEN row - 1 ELSE row

\* Looks at the contact since it was read.
Looks ==
    IF row = KeyRow THEN (IF scanned THEN 0 ELSE 1)
    ELSE IF scanned THEN row ELSE row + 1

Rows ==
    /\ row = 0 => ~scanned /\ reads = 0
    /\ reads = 0 => ~contact /\ ~lastRaw /\ ~stable
    /\ ~JustRead => lastRaw = contact
    /\ JustRead => reads # 0
    /\ JustRead /\ reads = 2 => lastRaw = contact
    /\ JustRead /\ reads = 1 => lastRaw # contact \/ stable = contact

\* How long ago a level that was read once was first looked at.
ReadOnce ==
    reads = 1 /\ stable # contact /\ ~JustRead
        => steadyFor <= sincePoll + Gaps(LooksSince)

\* How long ago the key moved, before it is read, looked at, and debounced.
KeySeen ==
    /\ contact # key => keyFor <= sincePoll + Gaps(Looks)
    /\ contact = key /\ lastRaw # key => keyFor <= sincePoll + Gaps(RowCount)
    /\ contact = key /\ lastRaw = key => keyFor <= steadyFor + Gaps(RowCount + 1)

MInv == IInv /\ MatrixTypes /\ Rows /\ ReadOnce /\ KeySeen

(***************************************************************************)
(* Multiples of MaxGap.                                                    *)
(***************************************************************************)
LEMMA GapsNat ==
    ASSUME NEW n \in Nat
    PROVE  Gaps(n) \in Nat /\ Gaps(n + 1) = Gaps(n) + MaxGap
  BY ButtonAssumption, SMT DEF Gaps

LEMMA GapsGrow ==
    ASSUME NEW m \in Nat, NEW n \in Nat, m <= n
    PROVE  Gaps(m) <= Gaps(n)
<1>1. PICK d \in Nat : n = m + d
  <2>1. n - m \in Nat /\ n = m + (n - m)
    BY SMT
  <2> QED
    BY <2>1
<1>2. MaxGap \in Nat
  BY ButtonAssumption
<1>3. (m + d) * MaxGap = m * MaxGap + d * MaxGap
  BY <1>2, SMT
<1>4. m * MaxGap \in Nat /\ d * MaxGap \in Nat
  BY <1>2, SMT
<1> QED
  BY <1>1, <1>3, <1>4, SMT DEF Gaps

LEMMA GapsNone == Gaps(0) = 0 /\ Gaps(1) = MaxGap
  BY ButtonAssumption, SMT DEF Gaps

LEMMA RoundShort ==
    /\ RowCount \in Nat \ {0}
    /\ Gaps(RowCount - 1) < DebounceMs
    /\ DebounceMs + (RowCount + 2) * MaxGap = DebounceMs + Gaps(RowCount + 2)
  BY MatrixAssumption DEF Gaps

LEMMA RowSteps ==
    /\ RowCount \in Nat \ {0} /\ KeyRow = RowCount
    /\ \A r \in 0 .. RowCount :
          r # RowCount => r + 1 \in 1 .. RowCount
  BY MatrixAssumption, SMT DEF KeyRow

(***************************************************************************)
(* Each step of the matrix is one of Button or leaves it alone.            *)
(***************************************************************************)
LEMMA StepSimulated ==
    ASSUME TypeOK, MatrixTypes, [MatrixNext]_matrixVars
    PROVE  [Next]_vars
<1>1. CASE KeyMove
  BY <1>1, Zenon DEF KeyMove
<1>2. CASE MatrixTick
  BY <1>2, Zenon DEF MatrixTick, Next
<1>3. CASE Scan
  <2>1. UNCHANGED <<now, readings, steadyFor, sincePress, sincePoll>>
    BY <1>3, Zenon DEF Scan
  <2>2. CASE contact' = contact
    BY <2>1, <2>2, Zenon DEF vars
  <2>3. CASE contact' # contact
    <3>1. contact \in BOOLEAN /\ contact' \in BOOLEAN
      BY <1>3, <2>3, Zenon DEF Scan, TypeOK, MatrixTypes
    <3>2. contact' = ~contact
      BY <3>1, <2>3, Zenon
    <3> QED
      BY <2>1, <3>2, Zenon DEF Next, Bounce
  <2> QED
    BY <2>2, <2>3
<1>4. CASE Look
  BY <1>4, Zenon DEF Look, Next
<1>5. CASE UNCHANGED matrixVars
  BY <1>5, Zenon DEF matrixVars
<1> QED
  BY <1>1, <1>2, <1>3, <1>4, <1>5 DEF MatrixNext

LEMMA ButtonKeeps ==
    ASSUME MInv, [MatrixNext]_matrixVars
    PROVE  IInv'
<1>1. [Next]_vars
  BY StepSimulated DEF MInv, IInv
<1> QED
  BY <1>1, BounceKeeps, TickKeeps, UpdateKeeps, StutterKeeps DEF Next, MInv

(***************************************************************************)
(* The invariant, step by step.                                            *)
(***************************************************************************)
LEMMA MatrixInitEstablishes == MatrixInit => MInv
<1> SUFFICES ASSUME MatrixInit PROVE MInv
  OBVIOUS
<1>1. IInv
  BY InitEstablishes DEF MatrixInit
<1>i. /\ contact = FALSE /\ lastRaw = FALSE /\ stable = FALSE
      /\ key \in BOOLEAN /\ row = 0 /\ scanned = FALSE /\ reads = 0
      /\ keyFor = 0 /\ sincePoll = 0 /\ steadyFor = 0
  BY Zenon DEF MatrixInit, Init
<1>2. MatrixTypes
  <2>1. 0 \in 0 .. RowCount /\ 0 \in 0 .. 2 /\ 0 \in Ages
    BY RowSteps, WrapAssumption, SMT DEF Ages
  <2> QED
    BY <1>i, <2>1, Zenon DEF MatrixTypes
<1>3. Rows
  BY <1>i, Zenon DEF Rows, JustRead
<1>4. ReadOnce
  BY <1>i, SMT DEF ReadOnce
<1>5. KeySeen
  <2>1. Looks = 1
    BY <1>i, RowSteps, SMT DEF Looks
  <2>2. 0 <= 0 + Gaps(1) /\ 0 <= 0 + Gaps(RowCount) /\ 0 <= 0 + Gaps(RowCount + 1)
    BY GapsNat, GapsNone, RowSteps, ButtonAssumption, SMT
  <2> QED
    BY <1>i, <2>1, <2>2, Zenon DEF KeySeen
<1> QED
  BY <1>1, <1>2, <1>3, <1>4, <1>5 DEF MInv

\* The numbers the claims compare, and the multiples of MaxGap, are numbers.
LEMMA Numbers ==
    ASSUME MInv
    PROVE  /\ steadyFor \in Nat /\ keyFor \in Nat /\ sincePoll \in Nat
           /\ steadyFor <= Wrap /\ keyFor <= Wrap /\ sincePoll <= MaxGap
           /\ row \in 0 .. RowCount /\ reads \in 0 .. 2
           /\ LooksSince \in Nat /\ Looks \in Nat /\ Looks <= RowCount
           /\ Gaps(LooksSince) \in Nat /\ Gaps(Looks) \in Nat
           /\ Gaps(Looks) <= Gaps(RowCount)
           /\ Gaps(RowCount) \in Nat
           /\ Gaps(RowCount + 1) = Gaps(RowCount) + MaxGap
<1>t. /\ steadyFor \in Ages /\ keyFor \in Ages /\ sincePoll \in 0 .. MaxGap
      /\ row \in 0 .. RowCount /\ reads \in 0 .. 2 /\ scanned \in BOOLEAN
  BY Zenon DEF MInv, IInv, TypeOK, MatrixTypes
<1>1. /\ steadyFor \in Nat /\ keyFor \in Nat /\ sincePoll \in Nat
      /\ steadyFor <= Wrap /\ keyFor <= Wrap /\ sincePoll <= MaxGap
  BY <1>t, WrapAssumption, ButtonAssumption, SMT DEF Ages
<1>0. row = 0 => ~scanned
  BY Zenon DEF MInv, Rows
<1>2. LooksSince \in Nat /\ Looks \in Nat /\ Looks <= RowCount
  BY <1>t, <1>0, RowSteps, SMT DEF LooksSince, Looks
<1>3. Gaps(LooksSince) \in Nat /\ Gaps(Looks) \in Nat /\ Gaps(Looks) <= Gaps(RowCount)
  BY <1>2, GapsNat, GapsGrow, RowSteps
<1>4. Gaps(RowCount) \in Nat /\ Gaps(RowCount + 1) = Gaps(RowCount) + MaxGap
  BY GapsNat, RowSteps
<1> QED
  BY <1>t, <1>1, <1>2, <1>3, <1>4, Zenon

LEMMA KeyMoveKeeps == MInv /\ KeyMove => MInv'
<1> SUFFICES ASSUME MInv, KeyMove PROVE MInv'
  OBVIOUS
<1>1. IInv'
  BY ButtonKeeps DEF MatrixNext
<1>s. /\ key' = ~key /\ keyFor' = 0
      /\ contact' = contact /\ lastRaw' = lastRaw /\ stable' = stable
      /\ steadyFor' = steadyFor /\ sincePoll' = sincePoll
      /\ row' = row /\ scanned' = scanned /\ reads' = reads
  BY Zenon DEF KeyMove, vars, readings, scanner
<1>2. MatrixTypes'
  <2>1. 0 \in Ages
    BY WrapAssumption, SMT DEF Ages
  <2>2. /\ row \in 0 .. RowCount /\ reads \in 0 .. 2 /\ scanned \in BOOLEAN
        /\ key' \in BOOLEAN
    BY <1>s, Zenon DEF MInv, MatrixTypes
  <2> QED
    BY <1>s, <2>1, <2>2, Zenon DEF MatrixTypes
<1>3. Rows'
  BY <1>s, Zenon DEF MInv, Rows, JustRead, KeyRow
<1>4. ReadOnce'
  BY <1>s, Zenon DEF MInv, ReadOnce, JustRead, KeyRow, LooksSince
<1>5. KeySeen'
  <2>1. Looks' = Looks
    BY <1>s, Zenon DEF Looks, KeyRow
  <2>2. /\ 0 <= sincePoll + Gaps(Looks) /\ 0 <= sincePoll + Gaps(RowCount)
        /\ 0 <= steadyFor + Gaps(RowCount + 1)
    BY Numbers, ButtonAssumption, SMT
  <2> QED
    BY <1>s, <2>1, <2>2, Zenon DEF KeySeen, Gaps
<1> QED
  BY <1>1, <1>2, <1>3, <1>4, <1>5 DEF MInv

LEMMA MatrixTickKeeps == MInv /\ MatrixTick => MInv'
<1> SUFFICES ASSUME MInv, MatrixTick PROVE MInv'
  OBVIOUS
<1>1. IInv'
  BY ButtonKeeps DEF MatrixNext
<1>s. /\ key' = key /\ keyFor' = Older(keyFor)
      /\ contact' = contact /\ lastRaw' = lastRaw /\ stable' = stable
      /\ steadyFor' = Older(steadyFor) /\ sincePoll' = sincePoll + 1
      /\ row' = row /\ scanned' = scanned /\ reads' = reads
  BY Zenon DEF MatrixTick, Tick, readings, scanner
<1>a. /\ keyFor' \in Ages /\ keyFor' <= keyFor + 1
      /\ steadyFor' <= steadyFor + 1
      /\ steadyFor' = steadyFor + 1 \/ steadyFor' = Wrap
      /\ keyFor' <= Wrap /\ keyFor' \in Nat /\ steadyFor' \in Nat
  BY <1>s, Numbers, WrapAssumption, SMT DEF Ages, Older
<1>2. MatrixTypes'
  BY <1>s, <1>a, Zenon DEF MInv, MatrixTypes
<1>3. Rows'
  BY <1>s, Zenon DEF MInv, Rows, JustRead, KeyRow
<1>4. ReadOnce'
  <2>1. LooksSince' = LooksSince /\ JustRead' = JustRead
    BY <1>s, Zenon DEF LooksSince, JustRead, KeyRow
  <2>2. steadyFor <= sincePoll + Gaps(LooksSince)
          => steadyFor' <= sincePoll' + Gaps(LooksSince)
    BY <1>s, <1>a, Numbers, SMT
  <2> QED
    BY <1>s, <2>1, <2>2, Zenon DEF MInv, ReadOnce, Gaps
<1>5. KeySeen'
  <2>1. Looks' = Looks
    BY <1>s, Zenon DEF Looks, KeyRow
  <2>2. keyFor <= sincePoll + Gaps(Looks) => keyFor' <= sincePoll' + Gaps(Looks)
    BY <1>s, <1>a, Numbers, SMT
  <2>3. keyFor <= sincePoll + Gaps(RowCount) => keyFor' <= sincePoll' + Gaps(RowCount)
    BY <1>s, <1>a, Numbers, SMT
  <2>4. keyFor <= steadyFor + Gaps(RowCount + 1)
          => keyFor' <= steadyFor' + Gaps(RowCount + 1)
    BY <1>s, <1>a, Numbers, ButtonAssumption, SMT
  <2> QED
    BY <1>s, <2>1, <2>2, <2>3, <2>4, Zenon DEF MInv, KeySeen, Gaps
<1> QED
  BY <1>1, <1>2, <1>3, <1>4, <1>5 DEF MInv

LEMMA ScanKeeps == MInv /\ Scan => MInv'
<1> SUFFICES ASSUME MInv, Scan PROVE MInv'
  OBVIOUS
<1>1. IInv'
  BY ButtonKeeps DEF MatrixNext
<1>s. /\ ~scanned /\ scanned' = TRUE /\ row' = NextRow
      /\ key' = key /\ keyFor' = keyFor
      /\ lastRaw' = lastRaw /\ stable' = stable
      /\ steadyFor' = steadyFor /\ sincePoll' = sincePoll
  BY Zenon DEF Scan, readings
<1>k. row' = RowCount => contact' = key /\ Read(key)
  BY <1>s, RowSteps, Zenon DEF Scan
<1>o. row' # RowCount => contact' = contact /\ reads' = reads
  BY <1>s, RowSteps, Zenon DEF Scan
<1>t. /\ row \in 0 .. RowCount /\ reads \in 0 .. 2
      /\ key \in BOOLEAN /\ keyFor \in Ages /\ lastRaw = contact
      /\ reads = 0 => ~contact /\ ~lastRaw /\ ~stable
      /\ contact \in BOOLEAN /\ stable \in BOOLEAN
  BY <1>s, Zenon DEF MInv, IInv, TypeOK, MatrixTypes, Rows, JustRead
<1>r. /\ row' \in 1 .. RowCount /\ row' # 0
      /\ row = RowCount => row' = 1
      /\ row # RowCount => row' = row + 1
  BY <1>s, <1>t, RowSteps, SMT DEF NextRow
<1>e. row' = RowCount =>
        /\ reads' \in 1 .. 2
        /\ reads' = 1 <=> (key # contact \/ reads = 0)
  BY <1>k, SMT DEF Read
<1>2. MatrixTypes'
  <2>1. row' \in 0 .. RowCount /\ reads' \in 0 .. 2
    BY <1>r, <1>e, <1>o, <1>t, RowSteps, SMT
  <2> QED
    BY <1>s, <1>t, <2>1, Zenon DEF MatrixTypes
<1>3. Rows'
  <2>1. CASE row' = RowCount
    <3>1. /\ JustRead' /\ row' # 0 /\ reads' # 0
          /\ reads' = 1 \/ reads' = 2
      BY <2>1, <1>s, <1>r, <1>e, RowSteps, SMT DEF JustRead, KeyRow
    <3>2. reads' = 2 => lastRaw' = contact'
      BY <2>1, <1>s, <1>t, <1>k, <1>e, SMT
    <3>3. ASSUME reads' = 1 PROVE lastRaw' # contact' \/ stable' = contact'
      <4>1. key # contact \/ reads = 0
        BY <2>1, <3>3, <1>e, Zenon
      <4>2. CASE key # contact
        BY <4>2, <2>1, <1>s, <1>t, <1>k, Zenon
      <4>3. CASE key = contact /\ reads = 0
        BY <4>3, <2>1, <1>s, <1>t, <1>k, Zenon
      <4> QED
        BY <4>1, <4>2, <4>3, Zenon
    <3> QED
      BY <3>1, <3>2, <3>3, Zenon DEF Rows
  <2>2. CASE row' # RowCount
    <3>1. ~JustRead'
      BY <2>2, RowSteps, Zenon DEF JustRead, KeyRow
    <3>2. /\ lastRaw' = contact' /\ row' # 0
          /\ reads' = 0 => ~contact' /\ ~lastRaw' /\ ~stable'
      <4>1. contact' = contact /\ reads' = reads
        BY <2>2, <1>o, Zenon
      <4>2. lastRaw' = contact'
        BY <4>1, <1>s, <1>t, Zenon
      <4>3. reads' = 0 => ~contact' /\ ~lastRaw' /\ ~stable'
        BY <4>1, <1>s, <1>t, Zenon
      <4> QED
        BY <4>2, <4>3, <1>r, Zenon
    <3> QED
      BY <3>1, <3>2, Zenon DEF Rows
  <2> QED
    BY <2>1, <2>2
<1>4. ReadOnce'
  <2> SUFFICES ASSUME reads' = 1, stable' # contact', ~JustRead'
               PROVE  steadyFor' <= sincePoll' + Gaps(LooksSince')
    BY Zenon DEF ReadOnce, Gaps
  <2>1. row' # RowCount
    BY <1>s, RowSteps, Zenon DEF JustRead, KeyRow
  <2>2. reads = 1 /\ stable # contact /\ ~JustRead
    BY <2>1, <1>s, <1>o, Zenon DEF JustRead
  <2>3. LooksSince' = LooksSince
    BY <2>1, <1>s, <1>r, <1>t, RowSteps, SMT DEF LooksSince, KeyRow
  <2> QED
    BY <2>2, <2>3, <1>s, Zenon DEF MInv, ReadOnce
<1>5. KeySeen'
  <2>1. CASE row' = RowCount
    <3>1. contact' = key'
      BY <2>1, <1>s, <1>k, Zenon
    <3>2. CASE contact = key
      BY <3>1, <3>2, <1>s, <1>t, Zenon DEF MInv, KeySeen, Gaps
    <3>3. CASE contact # key
      <4>1. keyFor <= sincePoll + Gaps(RowCount)
        <5>1. keyFor <= sincePoll + Gaps(Looks)
          BY <3>3, Zenon DEF MInv, KeySeen
        <5> QED
          BY <5>1, Numbers, SMT
      <4> QED
        BY <3>1, <3>3, <4>1, <1>s, <1>t, Zenon DEF KeySeen, Gaps
    <3> QED
      BY <3>2, <3>3
  <2>2. CASE row' # RowCount
    <3>1. Looks' = Looks
      BY <2>2, <1>s, <1>r, <1>t, RowSteps, SMT DEF Looks, KeyRow
    <3> QED
      BY <2>2, <3>1, <1>s, <1>o, Zenon DEF MInv, KeySeen, Gaps
  <2> QED
    BY <2>1, <2>2
<1> QED
  BY <1>1, <1>2, <1>3, <1>4, <1>5 DEF MInv

LEMMA LookKeeps == MInv /\ Look => MInv'
<1> SUFFICES ASSUME MInv, Look PROVE MInv'
  OBVIOUS
<1>1. IInv'
  BY ButtonKeeps DEF MatrixNext
<1>s. /\ scanned = TRUE /\ scanned' = FALSE
      /\ key' = key /\ row' = row /\ reads' = reads /\ keyFor' = keyFor
      /\ contact' = contact /\ lastRaw' = contact /\ sincePoll' = 0
      /\ stable' = contact \/ stable' = stable
      /\ contact # lastRaw => steadyFor' = 0
      /\ contact = lastRaw => steadyFor' = steadyFor
  BY Zenon DEF Look, Update, Sample
<1>t. /\ row \in 0 .. RowCount /\ row # 0
      /\ contact \in BOOLEAN /\ lastRaw \in BOOLEAN /\ key \in BOOLEAN
  BY <1>s, Zenon DEF MInv, IInv, TypeOK, MatrixTypes, Rows
<1>2. MatrixTypes'
  BY <1>s, Zenon DEF MInv, MatrixTypes
<1>3. Rows'
  <2>1. reads = 0 => ~contact /\ ~stable
    BY Zenon DEF MInv, Rows
  <2>2. reads' = 0 => ~contact' /\ ~lastRaw' /\ ~stable'
    BY <2>1, <1>s, Zenon
  <2>3. ~JustRead' /\ lastRaw' = contact' /\ row' # 0
    BY <1>s, <1>t, Zenon DEF JustRead
  <2> QED
    BY <2>2, <2>3, Zenon DEF Rows
<1>4. ReadOnce'
  <2> SUFFICES ASSUME reads' = 1, stable' # contact'
               PROVE  steadyFor' <= 0 + Gaps(LooksSince')
    BY <1>s, Zenon DEF ReadOnce, Gaps
  <2>1. stable # contact /\ reads = 1
    BY <1>s, Zenon
  <2>2. CASE row = RowCount
    <3>1. lastRaw # contact
      BY <2>1, <2>2, <1>s, RowSteps, Zenon DEF MInv, Rows, JustRead
    <3>2. LooksSince' = 0
      BY <2>2, <1>s, RowSteps, Zenon DEF LooksSince, KeyRow
    <3> QED
      BY <3>1, <3>2, <1>s, GapsNone, SMT
  <2>3. CASE row # RowCount
    <3>1. ~JustRead
      BY <2>3, RowSteps, Zenon DEF JustRead
    <3>2. lastRaw = contact /\ steadyFor' = steadyFor
      BY <3>1, <1>s, Zenon DEF MInv, Rows
    <3>3. steadyFor <= sincePoll + Gaps(LooksSince)
      BY <2>1, <3>1, Zenon DEF MInv, ReadOnce
    <3>4. LooksSince' = LooksSince + 1
      BY <2>3, <1>s, <1>t, RowSteps, SMT DEF LooksSince, KeyRow
    <3>5. Gaps(LooksSince') = Gaps(LooksSince) + MaxGap
      BY <3>4, Numbers, GapsNat
    <3> QED
      BY <3>2, <3>3, <3>5, Numbers, ButtonAssumption, SMT
  <2> QED
    BY <2>2, <2>3
<1>5. KeySeen'
  <2>1. contact # key => keyFor <= 0 + Gaps(Looks')
    <3> SUFFICES ASSUME contact # key PROVE keyFor <= 0 + Gaps(Looks')
      OBVIOUS
    <3>1. keyFor <= sincePoll + Gaps(Looks)
      BY Zenon DEF MInv, KeySeen
    <3>2. Looks' = Looks + 1
      BY <1>s, <1>t, RowSteps, SMT DEF Looks, KeyRow
    <3>3. Gaps(Looks') = Gaps(Looks) + MaxGap
      BY <3>2, Numbers, GapsNat
    <3> QED
      BY <3>1, <3>3, Numbers, ButtonAssumption, SMT
  <2>2. contact = key => keyFor <= steadyFor' + Gaps(RowCount + 1)
    <3>1. CASE contact # lastRaw
      <4>1. contact = key => keyFor <= sincePoll + Gaps(RowCount)
        BY <3>1, Zenon DEF MInv, KeySeen
      <4> QED
        BY <3>1, <4>1, <1>s, Numbers, ButtonAssumption, SMT
    <3>2. CASE contact = lastRaw
      BY <3>2, <1>s, Zenon DEF MInv, KeySeen
    <3> QED
      BY <3>1, <3>2
  <2> QED
    BY <2>1, <2>2, <1>s, Zenon DEF KeySeen, Gaps
<1> QED
  BY <1>1, <1>2, <1>3, <1>4, <1>5 DEF MInv

LEMMA MatrixStutterKeeps == MInv /\ UNCHANGED matrixVars => MInv'
<1> SUFFICES ASSUME MInv, UNCHANGED matrixVars PROVE MInv'
  OBVIOUS
<1>1. IInv'
  BY ButtonKeeps
<1>2. MatrixTypes'
  BY Zenon DEF MInv, MatrixTypes, matrixVars, scanner
<1>3. Rows'
  BY Zenon DEF MInv, Rows, JustRead, KeyRow, matrixVars, scanner, vars, readings
<1>4. ReadOnce'
  BY Zenon DEF MInv, ReadOnce, JustRead, KeyRow, LooksSince, Gaps, matrixVars,
               scanner, vars, readings
<1>5. KeySeen'
  BY Zenon DEF MInv, KeySeen, KeyRow, Looks, Gaps, matrixVars, scanner, vars, readings
<1> QED
  BY <1>1, <1>2, <1>3, <1>4, <1>5 DEF MInv

LEMMA MatrixInvariance == MatrixSpec => []MInv
<1>1. MInv /\ [MatrixNext]_matrixVars => MInv'
  BY KeyMoveKeeps, MatrixTickKeeps, ScanKeeps, LookKeeps, MatrixStutterKeeps
     DEF MatrixNext
<1> QED
  BY MatrixInitEstablishes, <1>1, PTL DEF MatrixSpec
-------------------------------------------------------------------------------
(***************************************************************************)
(* A debouncer on the matrix is one on a pin: with the cached contact for  *)
(* the contact, the panel's scan and debounce implement Button.            *)
(***************************************************************************)
THEOREM ImplementsButton == MatrixSpec => Spec
<1>1. MatrixInit => Init
  BY DEF MatrixInit
<1>2. MInv /\ [MatrixNext]_matrixVars => [Next]_vars
  BY StepSimulated DEF MInv, IInv
<1> QED
  BY MatrixInvariance, <1>1, <1>2, PTL DEF MatrixSpec, Spec

(***************************************************************************)
(* So no bounce gets through the matrix, every level read steadily does,   *)
(* and two reports of one key are two debounce times apart.                *)
(***************************************************************************)
THEOREM KeysDebounced ==
    MatrixSpec => []Settles /\ OnlySteadyLevels /\ PressesApart
  BY ImplementsButton, ReadingSettles, LevelsAreSteady, PressesFarApart

\* A level that gets through was read twice.
LEMMA ReadsKept ==
    MInv /\ [MatrixNext]_matrixVars
        => [row # 0 /\ stable' # stable => reads = 2]_matrixVars
<1> SUFFICES ASSUME MInv, MatrixNext, stable' # stable
             PROVE  reads = 2
  BY Zenon
<1>1. Look
  BY Zenon DEF MatrixNext, KeyMove, MatrixTick, Tick, Scan, vars, readings
<1>2. /\ contact = lastRaw /\ stable' = lastRaw /\ steadyFor >= DebounceMs
      /\ stable # contact /\ scanned
  <2>1. TypeOK /\ Steady /\ Update /\ scanned
    BY <1>1, Zenon DEF MInv, IInv, Look
  <2> QED
    BY <2>1, TakenOver, Zenon
<1>3. reads # 0
  <2>1. /\ reads = 0 => ~contact /\ ~stable
        /\ contact \in BOOLEAN /\ stable \in BOOLEAN
    BY Zenon DEF MInv, Rows, IInv, TypeOK
  <2> QED
    BY <1>2, <2>1, Zenon
<1>4. reads # 1
  <2> SUFFICES ASSUME reads = 1 PROVE FALSE
    OBVIOUS
  <2>1. ~JustRead
    BY <1>2, Zenon DEF MInv, Rows
  <2>2. steadyFor <= sincePoll + Gaps(LooksSince)
    BY <1>2, <2>1, Zenon DEF MInv, ReadOnce
  <2>3. /\ row # RowCount /\ row # 0 /\ LooksSince = row - 1
    BY <1>2, <2>1, RowSteps, Zenon DEF JustRead, LooksSince, MInv, Rows
  <2>4. /\ LooksSince + 1 <= RowCount - 1 /\ LooksSince + 1 \in Nat
        /\ RowCount - 1 \in Nat
    BY <2>3, Numbers, RowSteps, SMT
  <2>5. Gaps(LooksSince + 1) <= Gaps(RowCount - 1)
    BY <2>4, GapsGrow
  <2>6. Gaps(LooksSince + 1) = Gaps(LooksSince) + MaxGap /\ Gaps(RowCount - 1) \in Nat
    BY <2>4, Numbers, GapsNat
  <2>7. steadyFor < DebounceMs
    BY <2>2, <2>5, <2>6, Numbers, RoundShort, ButtonAssumption, SMT
  <2> QED
    BY <1>2, <2>7, Numbers, ButtonAssumption, SMT
<1> QED
  BY <1>3, <1>4, Numbers, SMT

(***************************************************************************)
(* A level that gets through was read from the matrix twice in a row, not  *)
(* read once and seen again in the cache.                                  *)
(***************************************************************************)
THEOREM LevelsReadTwice == MatrixSpec => OnlyReadLevels
  BY MatrixInvariance, ReadsKept, PTL DEF MatrixSpec, OnlyReadLevels

\* A key that rested that long has been read, looked at and debounced.
LEMMA KeySettlesFollows == MInv => KeySettles
<1> SUFFICES ASSUME MInv, keyFor >= DebounceMs + (RowCount + 2) * MaxGap
             PROVE  stable = key
  BY Zenon DEF KeySettles
<1>1. Gaps(RowCount + 2) = Gaps(RowCount) + MaxGap + MaxGap
  <2>1. RowCount + 1 \in Nat /\ (RowCount + 1) + 1 = RowCount + 2
    BY RowSteps, SMT
  <2>2. Gaps((RowCount + 1) + 1) = Gaps(RowCount + 1) + MaxGap
    BY <2>1, GapsNat
  <2> QED
    BY <2>1, <2>2, Numbers, SMT
<1>2. keyFor >= DebounceMs + (Gaps(RowCount) + MaxGap + MaxGap)
  BY <1>1, RoundShort
<1>3. contact = key
  <2>1. contact # key => keyFor <= sincePoll + Gaps(Looks)
    BY Zenon DEF MInv, KeySeen
  <2> QED
    BY <1>2, <2>1, Numbers, ButtonAssumption, SMT
<1>4. lastRaw = key
  <2>1. lastRaw # key => keyFor <= sincePoll + Gaps(RowCount)
    BY <1>3, Zenon DEF MInv, KeySeen
  <2> QED
    BY <1>2, <2>1, Numbers, ButtonAssumption, SMT
<1>5. steadyFor >= DebounceMs + sincePoll
  <2>1. keyFor <= steadyFor + Gaps(RowCount + 1)
    BY <1>3, <1>4, Zenon DEF MInv, KeySeen
  <2> QED
    BY <1>2, <2>1, Numbers, ButtonAssumption, SMT
<1> QED
  BY <1>4, <1>5, Zenon DEF MInv, IInv, Settled

(***************************************************************************)
(* A key that rests for a round of the matrix, the debounce time and two   *)
(* passes is reported as it is.                                            *)
(***************************************************************************)
THEOREM KeysSettle == MatrixSpec => []KeySettles
  BY MatrixInvariance, KeySettlesFollows, PTL

-------------------------------------------------------------------------------
(***************************************************************************)
(* The timers of the identify and activity LEDs.                           *)
(***************************************************************************)

\* The difference the code computes is the true time, for a turn of the clock;
\* the light goes out with the first pass after the duration.
Lights ==
    /\ lit \/ since < Wrap => triggered
    /\ since < Wrap => Timer!Minus(now, triggeredAt) = since
    /\ shown /\ since < DurationMs => lit
    /\ lit /\ since < Wrap => since < DurationMs + sincePoll

TimerInv == Timer!TypeOK /\ Lights

\* What the assumptions say of the numbers.
LEMMA TimerNumbers ==
    /\ Wrap \in Nat \ {0} /\ MaxGap \in Nat \ {0}
    /\ DurationMs \in Nat \ {0} /\ DurationMs + MaxGap < Wrap
BY WrapAssumption, DevicesAssumption DEF Timer!FlashTimerAssumption

\* No message has come yet.
LEMMA TimerBegins == Timer!Init => TimerInv
<1> SUFFICES ASSUME Timer!Init PROVE TimerInv
    OBVIOUS
<1>1. Timer!TypeOK
  <2>1. 0 \in Timer!Stamps /\ Wrap \in Timer!Ages /\ 0 \in 0 .. MaxGap
        BY TimerNumbers DEF Timer!Stamps, Timer!Ages
  <2> QED BY <2>1, Zenon DEF Timer!Init, Timer!TypeOK
<1>2. Lights
      BY TimerNumbers DEF Timer!Init, Lights
<1> QED BY <1>1, <1>2 DEF TimerInv

\* The computed difference grows with the clock until it comes round.
LEMMA TimerClock ==
    ASSUME NEW a \in Timer!Stamps, NEW b \in Timer!Stamps
    PROVE  /\ Timer!NextStamp(a) \in Timer!Stamps
           /\ Timer!Minus(a, a) = 0
           /\ Timer!Minus(a, b) + 1 < Wrap
                 => Timer!Minus(Timer!NextStamp(a), b) = Timer!Minus(a, b) + 1
BY WrapAssumption DEF Timer!Stamps, Timer!NextStamp, Timer!Plus, Timer!Minus

\* One millisecond more; a lit LED cannot outlive the passes that run.
LEMMA TimerTicks == TimerInv /\ Timer!Tick => TimerInv'
<1> SUFFICES ASSUME TimerInv, Timer!Tick PROVE TimerInv'
    OBVIOUS
<1>1. /\ now \in Timer!Stamps /\ triggeredAt \in Timer!Stamps
      /\ since \in Timer!Ages /\ sincePoll \in 0 .. MaxGap
      BY DEF TimerInv, Timer!TypeOK
<1>2. /\ sincePoll' = sincePoll + 1 /\ sincePoll' \in 0 .. MaxGap
      /\ since' \in Timer!Ages
      /\ since' < Wrap => since' = since + 1 /\ since < Wrap
      BY <1>1, TimerNumbers DEF Timer!Tick, Timer!Older, Timer!Ages
<1>3. Timer!TypeOK'
      BY <1>1, <1>2, TimerClock DEF TimerInv, Timer!TypeOK, Timer!Tick
<1>4. since' < Wrap => Timer!Minus(now', triggeredAt') = since'
      BY <1>1, <1>2, TimerClock, TimerNumbers DEF TimerInv, Lights, Timer!Tick, Timer!Ages
<1>5. shown' /\ since' < DurationMs => lit'
      BY <1>1, <1>2, TimerNumbers DEF TimerInv, Lights, Timer!Tick, Timer!Ages
<1>6. lit' /\ since' < Wrap => since' < DurationMs + sincePoll'
      BY <1>1, <1>2, TimerNumbers DEF TimerInv, Lights, Timer!Tick, Timer!Ages
<1>7. lit' \/ since' < Wrap => triggered'
      BY <1>2 DEF TimerInv, Lights, Timer!Tick
<1> QED BY <1>3, <1>4, <1>5, <1>6, <1>7 DEF TimerInv, Lights

\* A message starts the duration again.
LEMMA TimerTriggered == TimerInv /\ Timer!Trigger => TimerInv'
<1> SUFFICES ASSUME TimerInv, Timer!Trigger PROVE TimerInv'
    OBVIOUS
<1>1. now \in Timer!Stamps /\ sincePoll \in 0 .. MaxGap
      BY DEF TimerInv, Timer!TypeOK
<1>2. Timer!TypeOK'
  <2>1. 0 \in Timer!Ages
        BY TimerNumbers DEF Timer!Ages
  <2> QED BY <2>1, Zenon DEF TimerInv, Timer!TypeOK, Timer!Trigger
<1>3. Timer!Minus(now, now) = 0
      BY <1>1, TimerClock
<1>4. Lights'
      BY <1>1, <1>3, TimerNumbers DEF Lights, Timer!Trigger
<1> QED BY <1>2, <1>4 DEF TimerInv

\* A pass shows what the difference says, which is true.
LEMMA TimerShown == TimerInv /\ Timer!Show => TimerInv'
<1> SUFFICES ASSUME TimerInv, Timer!Show PROVE TimerInv'
    OBVIOUS
<1>1. since \in Timer!Ages
      BY DEF TimerInv, Timer!TypeOK
<1>2. Timer!TypeOK'
  <2>1. 0 \in 0 .. MaxGap
        BY TimerNumbers
  <2>2. lit' \in BOOLEAN
        BY Zenon DEF Timer!Show, Timer!IsActive
  <2> QED BY <2>1, <2>2, Zenon DEF TimerInv, Timer!TypeOK, Timer!Show
<1>3. /\ lit' <=> triggered /\ Timer!Minus(now, triggeredAt) < DurationMs
      /\ UNCHANGED <<now, triggered, triggeredAt, since>> /\ shown' /\ sincePoll' = 0
      BY Zenon DEF Timer!Show, Timer!IsActive
<1>4. /\ since < Wrap => triggered /\ Timer!Minus(now, triggeredAt) = since
      BY Zenon DEF TimerInv, Lights
<1>5. since < DurationMs => since < Wrap /\ since < DurationMs + 0
      BY <1>1, TimerNumbers DEF Timer!Ages
<1>6. Lights'
      BY <1>3, <1>4, <1>5, Zenon DEF Lights
<1> QED BY <1>2, <1>6 DEF TimerInv

LEMMA TimerKeeps == TimerInv /\ [Timer!Next]_Timer!vars => TimerInv'
<1>1. TimerInv /\ UNCHANGED Timer!vars => TimerInv'
      BY DEF TimerInv, Timer!TypeOK, Lights, Timer!vars
<1> QED BY <1>1, TimerTicks, TimerTriggered, TimerShown DEF Timer!Next

\* The invariant gives the claim.
LEMMA TimerPromises == TimerInv => Timer!FlashesInTime
<1> SUFFICES ASSUME TimerInv PROVE Timer!FlashesInTime
    OBVIOUS
<1>1. since \in Timer!Ages /\ sincePoll \in 0 .. MaxGap
      BY DEF TimerInv, Timer!TypeOK
<1> QED BY <1>1, TimerNumbers DEF TimerInv, Lights, Timer!FlashesInTime, Timer!Ages

-------------------------------------------------------------------------------
(***************************************************************************)
(* The status LED.                                                         *)
(***************************************************************************)

\* A blinking LED has stood for as long as its stamp says, and at most for
\* the interval and the pass that runs.
Blinking ==
    /\ pin = Status!Applied(state, showingOn)
    /\ Status!Blinks(state) =>
          /\ Status!Minus(now, lastToggle) = stoodFor
          /\ stoodFor < Status!Interval(state) + sincePoll

StatusInv == Status!TypeOK /\ Blinking

\* What the assumptions say of the numbers.
LEMMA StatusNumbers ==
    /\ Wrap \in Nat \ {0} /\ MaxGap \in Nat \ {0}
    /\ SlowMs \in Nat \ {0} /\ FastMs \in Nat \ {0}
    /\ FastMs < SlowMs /\ SlowMs + MaxGap < Wrap
BY WrapAssumption, DevicesAssumption DEF Status!StatusLedAssumption

\* Both intervals end before the clock comes round.
LEMMA StatusIntervals ==
    /\ \A s : Status!Interval(s) \in Nat \ {0} /\ Status!Interval(s) + MaxGap < Wrap
    /\ ~Status!Blinks("Off")
BY StatusNumbers DEF Status!Interval, Status!Blinks

\* The computed difference grows with the clock until it comes round.
LEMMA StatusClock ==
    ASSUME NEW a \in Status!Stamps, NEW b \in Status!Stamps
    PROVE  /\ Status!NextStamp(a) \in Status!Stamps
           /\ Status!Minus(a, a) = 0 /\ Status!Minus(a, b) \in Nat
           /\ Status!Minus(a, b) + 1 < Wrap
                 => Status!Minus(Status!NextStamp(a), b) = Status!Minus(a, b) + 1
BY WrapAssumption DEF Status!Stamps, Status!NextStamp, Status!Plus, Status!Minus

LEMMA StatusBegins == Status!Init => StatusInv
<1> SUFFICES ASSUME Status!Init PROVE StatusInv
    OBVIOUS
<1>1. Status!TypeOK
  <2>1. 0 \in Status!Stamps /\ 0 \in Status!Ages /\ 0 \in 0 .. MaxGap
        BY StatusNumbers DEF Status!Stamps, Status!Ages
  <2> QED BY <2>1, Zenon DEF Status!Init, Status!TypeOK
<1>2. Blinking
      BY StatusIntervals DEF Status!Init, Blinking, Status!Applied
<1> QED BY <1>1, <1>2 DEF StatusInv

LEMMA StatusTicks == StatusInv /\ Status!Tick => StatusInv'
<1> SUFFICES ASSUME StatusInv, Status!Tick PROVE StatusInv'
    OBVIOUS
<1>1. /\ now \in Status!Stamps /\ lastToggle \in Status!Stamps
      /\ stoodFor \in Status!Ages /\ sincePoll \in 0 .. MaxGap
      /\ sincePoll < MaxGap /\ sincePoll' = sincePoll + 1
      /\ now' = Status!NextStamp(now) /\ stoodFor' = Status!Older(stoodFor)
      BY DEF StatusInv, Status!TypeOK, Status!Tick
<1>2. /\ state' = state /\ showingOn' = showingOn /\ lastToggle' = lastToggle
      /\ pin' = pin
      BY DEF Status!Tick, Status!led
<1>3. /\ sincePoll' \in 0 .. MaxGap /\ stoodFor' \in Status!Ages
      /\ stoodFor < Wrap => stoodFor' = stoodFor + 1
      BY <1>1, StatusNumbers DEF Status!Older, Status!Ages
<1>4. Status!TypeOK'
      BY <1>1, <1>2, <1>3, StatusClock, Zenon DEF StatusInv, Status!TypeOK
<1>5. pin' = Status!Applied(state', showingOn')
      BY <1>2, Zenon DEF StatusInv, Blinking
<1>6. ASSUME Status!Blinks(state)
      PROVE  /\ Status!Minus(now', lastToggle') = stoodFor'
             /\ stoodFor' < Status!Interval(state) + sincePoll'
  <2>1. /\ Status!Minus(now, lastToggle) = stoodFor
        /\ stoodFor < Status!Interval(state) + sincePoll
        BY <1>6 DEF StatusInv, Blinking
  <2>2. Status!Interval(state) \in Nat /\ Status!Interval(state) + MaxGap < Wrap
        BY StatusIntervals
  <2>3. stoodFor \in Nat /\ stoodFor + 1 < Wrap
        BY <1>1, <2>1, <2>2, StatusNumbers DEF Status!Ages
  <2>4. Status!Minus(now', lastToggle') = stoodFor + 1
        BY <1>1, <1>2, <2>1, <2>3, StatusClock
  <2> QED BY <1>1, <1>3, <2>1, <2>2, <2>3, <2>4, StatusNumbers
<1> QED BY <1>2, <1>4, <1>5, <1>6, Zenon DEF StatusInv, Blinking

\* A state that is entered, and a phase that ends, begin at the present.
LEMMA PhaseBegins ==
    ASSUME StatusInv, lastToggle' = now, now' = now, stoodFor' = 0, sincePoll' = 0
    PROVE  /\ Status!Minus(now', lastToggle') = stoodFor'
           /\ stoodFor' < Status!Interval(state') + sincePoll'
<1>1. now \in Status!Stamps
      BY DEF StatusInv, Status!TypeOK
<1> QED BY <1>1, StatusClock, StatusIntervals

\* What a pass does, apart from its history.
LEMMA PassDoes ==
    ASSUME StatusInv, NEW collision \in BOOLEAN, NEW wifi \in BOOLEAN,
           NEW mqtt \in BOOLEAN, Status!Pass(collision, wifi, mqtt)
    PROVE  /\ now' = now /\ sincePoll' = 0
           /\ \/ Status!Enter(state') /\ state' # state /\ stoodFor' = 0
                 /\ state' \in {"Off", "On", "SlowBlink", "FastBlink"}
              \/ Status!Toggle /\ stoodFor' = 0
              \/ Status!Keep /\ stoodFor' = stoodFor
<1> DEFINE s == Status!NetworkState(collision, wifi, mqtt)
<1>1. s \in {"Off", "On", "SlowBlink", "FastBlink"}
      BY DEF Status!NetworkState
<1>2. now' = now /\ sincePoll' = 0
      BY Zenon DEF Status!Pass
<1>3. /\ \/ Status!Enter(s)
         \/ ~Status!Enters(s) /\ (Status!Toggle \/ Status!Keep)
      /\ stoodFor' = IF pin' # pin \/ s # state THEN 0 ELSE stoodFor
      BY Zenon DEF Status!Pass
<1> HIDE DEF s
<1>4. CASE Status!Enter(s)
      BY <1>1, <1>2, <1>3, <1>4, Zenon DEF Status!Enter, Status!Enters
<1>5. CASE ~Status!Enters(s) /\ Status!Toggle
  <2>1. pin = showingOn /\ pin' = ~showingOn
        BY <1>5, Zenon DEF Status!Toggle, Status!Applied, StatusInv, Blinking
  <2>2. pin' # pin
        BY <2>1, Zenon
  <2> QED BY <1>2, <1>3, <1>5, <2>2, Zenon
<1>6. CASE ~Status!Enters(s) /\ Status!Keep
      BY <1>2, <1>3, <1>6, Zenon DEF Status!Keep, Status!Enters, Status!led
<1> QED BY <1>3, <1>4, <1>5, <1>6, Zenon

LEMMA EnterKeeps ==
    ASSUME StatusInv, Status!Enter(state'), now' = now, stoodFor' = 0, sincePoll' = 0,
           state' \in {"Off", "On", "SlowBlink", "FastBlink"}
    PROVE  StatusInv'
<1>1. 0 \in Status!Ages /\ 0 \in 0 .. MaxGap
      BY StatusNumbers DEF Status!Ages
<1>2. pin' \in BOOLEAN /\ showingOn' \in BOOLEAN
      BY Zenon DEF Status!Enter, Status!Applied
<1>3. Status!TypeOK'
      BY <1>1, <1>2, Zenon DEF StatusInv, Status!TypeOK, Status!Enter
<1>4. pin' = Status!Applied(state', showingOn')
      BY Zenon DEF Status!Enter
<1> QED BY <1>3, <1>4, PhaseBegins, Zenon DEF StatusInv, Blinking, Status!Enter

LEMMA ToggleKeeps ==
    ASSUME StatusInv, Status!Toggle, now' = now, stoodFor' = 0, sincePoll' = 0
    PROVE  StatusInv'
<1>1. 0 \in Status!Ages /\ 0 \in 0 .. MaxGap
      BY StatusNumbers DEF Status!Ages
<1>2. pin' \in BOOLEAN /\ showingOn' \in BOOLEAN
      BY Zenon DEF Status!Toggle, Status!Applied
<1>3. Status!TypeOK'
      BY <1>1, <1>2, Zenon DEF StatusInv, Status!TypeOK, Status!Toggle
<1>4. pin' = Status!Applied(state', showingOn')
      BY Zenon DEF Status!Toggle
<1> QED BY <1>3, <1>4, PhaseBegins, Zenon DEF StatusInv, Blinking, Status!Toggle

LEMMA KeepKeeps ==
    ASSUME StatusInv, Status!Keep, now' = now, stoodFor' = stoodFor, sincePoll' = 0
    PROVE  StatusInv'
<1>1. /\ state' = state /\ showingOn' = showingOn /\ lastToggle' = lastToggle
      /\ pin' = pin
      BY DEF Status!Keep, Status!led
<1>2. Status!TypeOK'
  <2>1. 0 \in 0 .. MaxGap
        BY StatusNumbers
  <2> QED BY <1>1, <2>1, Zenon DEF StatusInv, Status!TypeOK
<1>3. ASSUME Status!Blinks(state) PROVE stoodFor < Status!Interval(state) + 0
  <2>1. Status!Minus(now, lastToggle) = stoodFor
        BY <1>3, Zenon DEF StatusInv, Blinking
  <2>2. ~(stoodFor >= Status!Interval(state))
        BY <1>3, <2>1, Zenon DEF Status!Keep, Status!ToggleDue
  <2>3. stoodFor \in Status!Ages /\ Status!Interval(state) \in Nat
        BY StatusIntervals DEF StatusInv, Status!TypeOK
  <2> QED BY <2>2, <2>3, StatusNumbers DEF Status!Ages
<1>4. Blinking'
      BY <1>1, <1>3, Zenon DEF StatusInv, Blinking
<1> QED BY <1>2, <1>4, Zenon DEF StatusInv

LEMMA StatusKeeps == StatusInv /\ [Status!Next]_Status!vars => StatusInv'
<1> SUFFICES ASSUME StatusInv, [Status!Next]_Status!vars PROVE StatusInv'
    OBVIOUS
<1>1. CASE Status!Tick
      BY <1>1, StatusTicks
<1>2. ASSUME NEW c \in BOOLEAN, NEW w \in BOOLEAN, NEW m \in BOOLEAN,
             Status!Pass(c, w, m)
      PROVE  StatusInv'
      BY <1>2, PassDoes, EnterKeeps, ToggleKeeps, KeepKeeps, Zenon
<1>3. CASE UNCHANGED Status!vars
      BY <1>3 DEF StatusInv, Status!TypeOK, Blinking, Status!vars, Status!led
<1> QED BY <1>1, <1>2, <1>3 DEF Status!Next

\* Off and on show what they are called, a blinking LED changes in time, and
\* not too early.
Readable ==
    /\ ~Status!Blinks(state') => pin' = (state' = "On")
    /\ Status!Blinks(state') => stoodFor' < Status!Interval(state') + MaxGap
    /\ pin' # pin /\ state' = state => stoodFor >= Status!Interval(state)

\* Every step of the LED can be read.
LEMMA StatusPromises == StatusInv /\ Status!Next => Readable
<1> SUFFICES ASSUME StatusInv, Status!Next PROVE Readable
    OBVIOUS
<1>1. StatusInv'
      BY StatusKeeps
<1>2. ~Status!Blinks(state') => pin' = (state' = "On")
      BY <1>1, Zenon DEF StatusInv, Blinking, Status!Applied
<1>3. ASSUME Status!Blinks(state') PROVE stoodFor' < Status!Interval(state') + MaxGap
  <2>1. stoodFor' < Status!Interval(state') + sincePoll'
        BY <1>1, <1>3, Zenon DEF StatusInv, Blinking
  <2>2. stoodFor' \in Nat /\ sincePoll' \in 0 .. MaxGap /\ Status!Interval(state') \in Nat
        BY <1>1, StatusIntervals, StatusNumbers DEF StatusInv, Status!TypeOK, Status!Ages
  <2> QED BY <2>1, <2>2, StatusNumbers
<1>4. ASSUME pin' # pin, state' = state PROVE stoodFor >= Status!Interval(state)
  <2>1. ~Status!Tick
        BY <1>4, Zenon DEF Status!Tick, Status!led
  <2>2. Status!Toggle
        BY <1>4, <2>1, PassDoes, Zenon DEF Status!Next, Status!Keep, Status!led
  <2> QED BY <2>2, Zenon DEF Status!Toggle, Status!ToggleDue, StatusInv, Blinking
<1> QED BY <1>2, <1>3, <1>4, Zenon DEF Readable

-------------------------------------------------------------------------------
(***************************************************************************)
(* The setup trigger.                                                      *)
(***************************************************************************)

\* What the trigger has seen, in terms of its own fields.
Seen ==
    /\ releasing => holding
    /\ seenDown <=> holding /\ ~releasing
    /\ up <=> ~holding
    /\ requested => ~holding

\* The differences the code computes are true times: that of the hold for a
\* turn of the clock, and that of a release until it has settled.
Holds ==
    /\ holding /\ heldFor < Wrap => Setup!Minus(now, holdStart) = heldFor
    /\ holding => seenFor <= heldFor
    /\ releasing =>
          /\ Setup!Minus(now, releaseStart) = seenFor
          /\ seenFor < SettleMs + sincePoll

SetupInv == Setup!TypeOK /\ Seen /\ Holds

\* What the assumptions say of the numbers.
LEMMA SetupNumbers ==
    /\ Wrap \in Nat \ {0} /\ MaxGap \in Nat \ {0} /\ MinHoldMs \in Nat \ {0}
    /\ SettleMs \in Nat \ {0} /\ SettleMs + MaxGap < Wrap
    /\ 0 \in Setup!Stamps /\ 0 \in Setup!Ages /\ 0 \in 0 .. MaxGap
BY WrapAssumption, DevicesAssumption
   DEF Setup!SetupTriggerAssumption, Setup!Stamps, Setup!Ages

\* The computed difference grows with the clock until it comes round.
LEMMA SetupClock ==
    ASSUME NEW a \in Setup!Stamps, NEW b \in Setup!Stamps
    PROVE  /\ Setup!NextStamp(a) \in Setup!Stamps
           /\ Setup!Minus(a, a) = 0
           /\ Setup!Minus(a, b) + 1 < Wrap
                 => Setup!Minus(Setup!NextStamp(a), b) = Setup!Minus(a, b) + 1
BY WrapAssumption DEF Setup!Stamps, Setup!NextStamp, Setup!Plus, Setup!Minus

\* The difference of two stamps is that of their ages.
LEMMA SetupSpan ==
    ASSUME NEW a \in Setup!Stamps, NEW b \in Setup!Stamps, NEW n \in Setup!Stamps,
           Setup!Minus(n, b) <= Setup!Minus(n, a)
    PROVE  Setup!Minus(b, a) = Setup!Minus(n, a) - Setup!Minus(n, b)
BY WrapAssumption DEF Setup!Stamps, Setup!Minus

LEMMA SetupBegins == Setup!Init => SetupInv
<1> SUFFICES ASSUME Setup!Init PROVE SetupInv
    OBVIOUS
<1>1. Setup!TypeOK
      BY SetupNumbers, Zenon DEF Setup!Init, Setup!TypeOK
<1>2. Seen /\ Holds
      BY Zenon DEF Setup!Init, Seen, Holds
<1> QED BY <1>1, <1>2 DEF SetupInv

\* A button that moves is seen only by update().
LEMMA SetupMoves ==
    ASSUME SetupInv, NEW b \in SetupButtons, Setup!Move(b)
    PROVE  SetupInv'
<1> USE DEF Setup!Move, Setup!fields, Setup!history
<1>1. down' \subseteq SetupButtons
      BY DEF SetupInv, Setup!TypeOK
<1>2. Setup!TypeOK'
      BY <1>1, Zenon DEF SetupInv, Setup!TypeOK
<1>3. Seen' /\ Holds'
      BY Zenon DEF SetupInv, Seen, Holds
<1> QED BY <1>2, <1>3 DEF SetupInv

LEMMA SetupTicks == SetupInv /\ Setup!Tick => SetupInv'
<1> SUFFICES ASSUME SetupInv, Setup!Tick PROVE SetupInv'
    OBVIOUS
<1>1. /\ now \in Setup!Stamps /\ holdStart \in Setup!Stamps
      /\ releaseStart \in Setup!Stamps
      /\ seenFor \in Setup!Ages /\ heldFor \in Setup!Ages
      /\ sincePoll \in 0 .. MaxGap
      BY DEF SetupInv, Setup!TypeOK
<1>2. /\ now' = Setup!NextStamp(now)
      /\ seenFor' = Setup!Older(seenFor) /\ heldFor' = Setup!Older(heldFor)
      /\ sincePoll < MaxGap /\ sincePoll' = sincePoll + 1
      /\ UNCHANGED <<down, holding, holdStart, releasing, releaseStart, requested,
                     seenDown, up>>
      BY DEF Setup!Tick, Setup!fields
<1>3. /\ sincePoll' \in 0 .. MaxGap
      /\ seenFor' \in Setup!Ages /\ heldFor' \in Setup!Ages
      /\ seenFor < Wrap => seenFor' = seenFor + 1
      /\ heldFor' < Wrap => heldFor < Wrap /\ heldFor' = heldFor + 1
      /\ seenFor <= heldFor => seenFor' <= heldFor'
      BY <1>1, <1>2, SetupNumbers DEF Setup!Older, Setup!Ages
<1>4. Setup!TypeOK'
      BY <1>1, <1>2, <1>3, SetupClock, Zenon DEF SetupInv, Setup!TypeOK
<1>5. Seen'
      BY <1>2, Zenon DEF SetupInv, Seen
<1>6. ASSUME holding, heldFor' < Wrap
      PROVE  Setup!Minus(now', holdStart') = heldFor'
  <2>1. Setup!Minus(now, holdStart) = heldFor
        BY <1>3, <1>6, Zenon DEF SetupInv, Holds
  <2>2. heldFor + 1 < Wrap
        BY <1>3, <1>6
  <2> QED BY <1>1, <1>2, <1>3, <1>6, <2>1, <2>2, SetupClock
<1>7. ASSUME releasing
      PROVE  /\ Setup!Minus(now', releaseStart') = seenFor'
             /\ seenFor' < SettleMs + sincePoll'
  <2>1. Setup!Minus(now, releaseStart) = seenFor /\ seenFor < SettleMs + sincePoll
        BY <1>7, Zenon DEF SetupInv, Holds
  <2>2. seenFor \in Nat /\ seenFor + 1 < Wrap
        BY <1>1, <1>2, <2>1, SetupNumbers DEF Setup!Ages
  <2>3. seenFor' = seenFor + 1 /\ seenFor' < SettleMs + sincePoll'
        BY <1>1, <1>2, <1>3, <2>1, <2>2, SetupNumbers
  <2>4. Setup!Minus(now', releaseStart') = seenFor + 1
        BY <1>1, <1>2, <2>1, <2>2, SetupClock
  <2> QED BY <2>3, <2>4
<1>8. holding => seenFor' <= heldFor'
      BY <1>3, Zenon DEF SetupInv, Holds
<1>9. Holds'
      BY <1>2, <1>6, <1>7, <1>8, Zenon DEF Holds
<1> QED BY <1>4, <1>5, <1>9, Zenon DEF SetupInv

\* The six things an update() may find, and what it makes of them.
HoldBegins ==
    /\ Setup!Active /\ ~holding
    /\ holding' /\ holdStart' = now /\ ~releasing' /\ releaseStart' = releaseStart
    /\ ~requested' /\ seenDown' /\ seenFor' = 0 /\ ~up' /\ heldFor' = 0

HoldGoesOn ==
    /\ Setup!Active /\ holding
    /\ holding' /\ holdStart' = holdStart /\ ~releasing' /\ releaseStart' = releaseStart
    /\ ~requested' /\ seenDown' /\ seenFor' \in {seenFor, 0} /\ ~up'
    /\ heldFor' = heldFor

HoldOpens ==
    /\ ~Setup!Active /\ holding /\ ~releasing
    /\ holding' /\ holdStart' = holdStart /\ releasing' /\ releaseStart' = now
    /\ ~requested' /\ ~seenDown' /\ seenFor' = 0 /\ ~up' /\ heldFor' = heldFor

HoldStaysOpen ==
    /\ ~Setup!Active /\ holding /\ releasing /\ ~(seenFor >= SettleMs)
    /\ holding' /\ holdStart' = holdStart /\ releasing' /\ releaseStart' = releaseStart
    /\ ~requested' /\ ~seenDown' /\ seenFor' = seenFor /\ ~up' /\ heldFor' = heldFor

HoldEnds ==
    /\ ~Setup!Active /\ holding /\ releasing /\ seenFor >= SettleMs
    /\ ~holding' /\ holdStart' = holdStart /\ ~releasing' /\ releaseStart' = releaseStart
    /\ requested' = (Setup!Minus(releaseStart, holdStart) >= MinHoldMs)
    /\ ~seenDown' /\ seenFor' = seenFor /\ up' /\ heldFor' = heldFor

NoHold ==
    /\ ~Setup!Active /\ ~holding
    /\ ~holding' /\ holdStart' = holdStart /\ ~releasing' /\ releaseStart' = releaseStart
    /\ ~requested' /\ ~seenDown' /\ seenFor' = seenFor /\ up' /\ heldFor' = heldFor

\* update() is one of the six, by what the flags say was seen.
LEMMA SetupSees ==
    ASSUME SetupInv, Setup!Update
    PROVE  /\ now' = now /\ down' = down /\ sincePoll' = 0
           /\ HoldBegins \/ HoldGoesOn \/ HoldOpens \/ HoldStaysOpen \/ HoldEnds \/ NoHold
<1>1. now' = now /\ down' = down /\ sincePoll' = 0
      BY DEF Setup!Update
<1>2. /\ seenDown' = Setup!Active
      /\ seenFor' = IF Setup!Active = seenDown THEN seenFor ELSE 0
      /\ up' = (~Setup!Active /\ (up \/ (~seenDown /\ seenFor >= SettleMs)))
      /\ heldFor' = IF Setup!Active /\ up THEN 0 ELSE heldFor
      BY Zenon DEF Setup!Update, Setup!Observe
<1>3. /\ releasing => holding
      /\ seenDown <=> holding /\ ~releasing
      /\ up <=> ~holding
      /\ releasing => Setup!Minus(now, releaseStart) = seenFor
      /\ holding \in BOOLEAN /\ releasing \in BOOLEAN /\ seenDown \in BOOLEAN
      /\ up \in BOOLEAN /\ Setup!Active \in BOOLEAN
      BY Zenon DEF SetupInv, Seen, Holds, Setup!TypeOK, Setup!Active
<1>4. CASE Setup!Press
      BY <1>1, <1>2, <1>3, <1>4, Zenon DEF Setup!Press, HoldBegins
<1>5. CASE Setup!Release
      BY <1>1, <1>2, <1>3, <1>5, Zenon DEF Setup!Release, HoldOpens
<1>6. CASE Setup!Bounce
      BY <1>1, <1>2, <1>3, <1>6, Zenon DEF Setup!Bounce, HoldGoesOn
<1>7. CASE Setup!Settle
      BY <1>1, <1>2, <1>3, <1>7, Zenon DEF Setup!Settle, Setup!Settled, HoldEnds
<1>8. CASE Setup!Wait
      BY <1>1, <1>2, <1>3, <1>8, Zenon
         DEF Setup!Wait, Setup!Settled, HoldGoesOn, HoldStaysOpen, NoHold
<1> QED BY <1>4, <1>5, <1>6, <1>7, <1>8, Zenon DEF Setup!Update

LEMMA SetupUpdates == SetupInv /\ Setup!Update => SetupInv'
<1> SUFFICES ASSUME SetupInv, Setup!Update PROVE SetupInv'
    OBVIOUS
<1>1. /\ now' = now /\ down' = down /\ sincePoll' = 0
      /\ HoldBegins \/ HoldGoesOn \/ HoldOpens \/ HoldStaysOpen \/ HoldEnds \/ NoHold
      BY SetupSees
<1>2. Setup!TypeOK'
  <2>1. /\ holding' \in BOOLEAN /\ releasing' \in BOOLEAN /\ requested' \in BOOLEAN
        /\ seenDown' \in BOOLEAN /\ up' \in BOOLEAN
    <3>1. requested' \in BOOLEAN
      <4>1. \/ requested' = FALSE
            \/ requested' = (Setup!Minus(releaseStart, holdStart) >= MinHoldMs)
            BY Zenon DEF Setup!Update, Setup!Press, Setup!Release, Setup!Bounce,
                         Setup!Settle, Setup!Wait
      <4>2. (Setup!Minus(releaseStart, holdStart) >= MinHoldMs) \in BOOLEAN
            BY SMT
      <4> QED BY <4>1, <4>2, Zenon
    <3>2. seenDown' \in BOOLEAN /\ up' \in BOOLEAN
      <4>1. /\ seenDown' = (down # {})
            /\ up' = (~(down # {}) /\ (up \/ (~seenDown /\ seenFor >= SettleMs)))
            BY Zenon DEF Setup!Update, Setup!Observe, Setup!Active
      <4> QED BY <4>1, Zenon
    <3>3. holding' \in BOOLEAN /\ releasing' \in BOOLEAN
          BY Zenon DEF Setup!Update, Setup!Press, Setup!Release, Setup!Bounce,
                       Setup!Settle, Setup!Wait, SetupInv, Setup!TypeOK
    <3> QED BY <3>1, <3>2, <3>3
  <2>2. holdStart' \in Setup!Stamps /\ releaseStart' \in Setup!Stamps
        BY <1>1, Zenon DEF SetupInv, Setup!TypeOK, HoldBegins, HoldGoesOn, HoldOpens,
                           HoldStaysOpen, HoldEnds, NoHold
  <2>3. seenFor' \in Setup!Ages /\ heldFor' \in Setup!Ages
        BY <1>1, SetupNumbers, Zenon
           DEF SetupInv, Setup!TypeOK, HoldBegins, HoldGoesOn, HoldOpens,
               HoldStaysOpen, HoldEnds, NoHold
  <2> QED BY <1>1, <2>1, <2>2, <2>3, SetupNumbers, Zenon DEF SetupInv, Setup!TypeOK
<1>3. Seen'
      BY <1>1, Zenon DEF SetupInv, Seen, HoldBegins, HoldGoesOn, HoldOpens,
                         HoldStaysOpen, HoldEnds, NoHold
<1>4. Holds'
  <2>1. /\ now \in Setup!Stamps /\ heldFor \in Nat /\ seenFor \in Nat
        /\ Setup!Minus(now, now) = 0 /\ 0 <= heldFor /\ 0 <= 0 /\ 0 < SettleMs + 0
        BY SetupClock, SetupNumbers DEF SetupInv, Setup!TypeOK, Setup!Ages
  <2>2. CASE HoldBegins
        BY <1>1, <2>1, <2>2, Zenon DEF HoldBegins, Holds
  <2>3. CASE HoldGoesOn
        BY <1>1, <2>1, <2>3, Zenon DEF HoldGoesOn, Holds, SetupInv
  <2>4. CASE HoldOpens
        BY <1>1, <2>1, <2>4, Zenon DEF HoldOpens, Holds, SetupInv
  <2>5. CASE HoldStaysOpen
    <3>1. seenFor < SettleMs + 0
          BY <2>1, <2>5, SetupNumbers DEF HoldStaysOpen
    <3> QED BY <1>1, <2>5, <3>1, Zenon DEF HoldStaysOpen, Holds, SetupInv
  <2>6. CASE HoldEnds \/ NoHold
        BY <2>6, Zenon DEF HoldEnds, NoHold, Holds
  <2> QED BY <1>1, <2>2, <2>3, <2>4, <2>5, <2>6, Zenon
<1> QED BY <1>2, <1>3, <1>4 DEF SetupInv

LEMMA SetupKeeps == SetupInv /\ [Setup!Next]_Setup!vars => SetupInv'
<1>1. ASSUME SetupInv, UNCHANGED Setup!vars PROVE SetupInv'
      BY <1>1, Zenon DEF SetupInv, Setup!TypeOK, Seen, Holds, Setup!vars, Setup!fields,
                         Setup!history
<1> QED BY <1>1, SetupMoves, SetupTicks, SetupUpdates, Zenon DEF Setup!Next

\* A request is the end of a hold.
Exact ==
    sincePoll' = 0 /\ heldFor < Wrap =>
        (requested' # requested /\ requested'
            <=> ~up /\ up' /\ heldFor - seenFor >= MinHoldMs)

\* A hold of less than a turn of the clock is judged by its true length.
LEMMA SetupPromises ==
    ASSUME SetupInv, Setup!Next, sincePoll' = 0, heldFor < Wrap
    PROVE  Exact
<1>1. /\ up <=> ~holding
      /\ requested => ~holding
      BY Zenon DEF SetupInv, Seen
<1>2. CASE Setup!Update
  <2>1. CASE HoldEnds
    <3>1. /\ Setup!Minus(now, holdStart) = heldFor
          /\ Setup!Minus(now, releaseStart) = seenFor
          /\ seenFor <= heldFor
          /\ now \in Setup!Stamps /\ holdStart \in Setup!Stamps
          /\ releaseStart \in Setup!Stamps
          BY <2>1, Zenon DEF HoldEnds, SetupInv, Holds, Setup!TypeOK
    <3>2. Setup!Minus(releaseStart, holdStart) = heldFor - seenFor
          BY <3>1, SetupSpan
    <3> QED BY <1>1, <2>1, <3>2, Zenon DEF HoldEnds, Exact
  <2>2. CASE HoldBegins \/ HoldGoesOn \/ HoldOpens \/ HoldStaysOpen \/ NoHold
    <3>1. ~requested' /\ (~up' \/ up)
          BY <1>1, <2>2, Zenon DEF HoldBegins, HoldGoesOn, HoldOpens, HoldStaysOpen, NoHold
    <3> QED BY <3>1, Zenon DEF Exact
  <2> QED BY <1>2, <2>1, <2>2, SetupSees, Zenon
<1>3. CASE Setup!Tick \/ \E b \in SetupButtons : Setup!Move(b)
  <2>1. requested' = requested /\ up' = up
        BY <1>3, Zenon DEF Setup!Tick, Setup!Move, Setup!fields, Setup!history
  <2> QED BY <2>1, Zenon DEF Exact
<1> QED BY <1>2, <1>3, Zenon DEF Setup!Next

-------------------------------------------------------------------------------
(***************************************************************************)
(* The presence announcements.                                             *)
(*                                                                         *)
(* While all links are up and no announcement is lost, every other node    *)
(* has announced itself within a heartbeat and a pass.  A node that knows  *)
(* of no collision then has another's mac in its inbox, wherever that is;  *)
(* and each pass reads one message.                                        *)
(***************************************************************************)

\* How long ago a node announced itself, as it computes that.
Quiet(n) == Neighbours!Minus(now, lastAnnounced[n])

Messages == Nodes \cup {Neighbours!Other}

Links ==
    /\ togetherFor > 0 => \A n \in Nodes : link[n]
    /\ \A n \in Nodes :
          /\ link[n] => wasConnected[n]
          /\ ~link[n] => inbox[n] = <<>>
          /\ wasConnected[n] => Quiet(n) < HeartbeatMs + sincePass[n]

\* What a node that knows of no collision waits for: the others have been
\* quiet since the time began, or the mac of one of them is in its inbox, the
\* sooner due the further ahead.
NothingYet(k) == \A m \in Nodes \ {k} : togetherFor <= Quiet(m)

Due(k, i) == HeartbeatMs + MaxGap + Gaps(Inbox - i) + sincePass[k]

Waiting(k) ==
    \E i \in 1 .. Len(inbox[k]) :
        inbox[k][i] \notin {k, Neighbours!Other} /\ togetherFor < Due(k, i)

Underway(k) == NothingYet(k) \/ Waiting(k)

PresenceInv ==
    /\ Neighbours!TypeOK /\ Links
    /\ \A k \in Nodes : ~claimed[k] => Underway(k)

\* What the assumptions say of the numbers.
LEMMA PresenceNumbers ==
    /\ Wrap \in Nat \ {0} /\ MaxGap \in Nat \ {0} /\ HeartbeatMs \in Nat \ {0}
    /\ Inbox \in Nat \ {0} /\ HeartbeatMs + MaxGap < Wrap
    /\ Neighbours!Other \notin Nodes
    /\ \E m, n \in Nodes : m # n
BY WrapAssumption, DevicesAssumption DEF Neighbours!PresenceAssumption

\* The time within which a collision is found, in passes.
LEMMA FoundIn ==
    /\ Neighbours!FoundWithin \in Nat \ {0}
    /\ Neighbours!FoundWithin = HeartbeatMs + MaxGap + Gaps(Inbox)
<1>1. (Inbox + 1) * MaxGap = Gaps(Inbox) + MaxGap /\ Gaps(Inbox) \in Nat
      BY PresenceNumbers DEF Gaps
<1> QED BY <1>1, PresenceNumbers DEF Neighbours!FoundWithin

\* A mac one place further ahead is due a pass later.
LEMMA NextPlace ==
    ASSUME NEW i \in Nat, 0 < i, i <= Inbox
    PROVE  /\ Gaps(Inbox - i) \in Nat /\ Gaps(Inbox - (i - 1)) = Gaps(Inbox - i) + MaxGap
           /\ Gaps(Inbox - i) + MaxGap <= Gaps(Inbox)
<1>1. /\ Inbox - i \in Nat /\ Inbox \in Nat /\ Inbox - (i - 1) = (Inbox - i) + 1
      /\ (Inbox - i) + 1 \in Nat /\ (Inbox - i) + 1 <= Inbox
      BY PresenceNumbers
<1>2. Gaps(Inbox - i) \in Nat /\ Gaps((Inbox - i) + 1) = Gaps(Inbox - i) + MaxGap
      BY <1>1, GapsNat, Zenon
<1>3. Gaps((Inbox - i) + 1) <= Gaps(Inbox)
      BY <1>1, GapsGrow, Zenon
<1> QED BY <1>1, <1>2, <1>3, Zenon

\* The computed difference grows with the clock until it comes round.
LEMMA PresenceClock ==
    ASSUME NEW a \in Neighbours!Stamps, NEW b \in Neighbours!Stamps
    PROVE  /\ Neighbours!NextStamp(a) \in Neighbours!Stamps
           /\ Neighbours!Minus(a, a) = 0
           /\ Neighbours!Minus(a, b) \in Nat
           /\ Neighbours!Minus(a, b) + 1 < Wrap
                 => Neighbours!Minus(Neighbours!NextStamp(a), b) = Neighbours!Minus(a, b) + 1
BY WrapAssumption
   DEF Neighbours!Stamps, Neighbours!NextStamp, Neighbours!Plus, Neighbours!Minus

\* The types, node by node.
LEMMA PresenceTypes ==
    ASSUME PresenceInv, NEW n \in Nodes
    PROVE  /\ link[n] \in BOOLEAN /\ wasConnected[n] \in BOOLEAN /\ claimed[n] \in BOOLEAN
           /\ lastAnnounced[n] \in Neighbours!Stamps /\ now \in Neighbours!Stamps
           /\ inbox[n] \in Seq(Messages) /\ Len(inbox[n]) \in Nat /\ Len(inbox[n]) <= Inbox
           /\ sincePass[n] \in Nat /\ sincePass[n] <= MaxGap
           /\ togetherFor \in Nat /\ togetherFor <= Neighbours!FoundWithin
           /\ Quiet(n) \in Nat
<1>1. Neighbours!TypeOK
      BY DEF PresenceInv
<1>2. lastAnnounced[n] \in Neighbours!Stamps /\ now \in Neighbours!Stamps
      BY <1>1 DEF Neighbours!TypeOK
<1>3. Quiet(n) \in Nat
      BY <1>2, PresenceClock DEF Quiet
<1> QED BY <1>1, <1>2, <1>3, PresenceNumbers, FoundIn DEF Neighbours!TypeOK, Messages

LEMMA PresenceBegins == Neighbours!Init => PresenceInv
<1> SUFFICES ASSUME Neighbours!Init PROVE PresenceInv
    OBVIOUS
<1>1. /\ 0 \in Neighbours!Stamps /\ 0 \in 0 .. Neighbours!FoundWithin
      /\ 0 \in 0 .. MaxGap /\ ~(0 > 0)
      /\ <<>> \in Seq(Nodes \cup {Neighbours!Other}) /\ Len(<<>>) <= Inbox
      BY PresenceNumbers, FoundIn DEF Neighbours!Stamps
<1>2. Neighbours!TypeOK
      BY <1>1 DEF Neighbours!Init, Neighbours!TypeOK
<1>3. Links
      BY <1>1 DEF Neighbours!Init, Links
<1>4. ASSUME NEW k \in Nodes PROVE NothingYet(k)
  <2>1. togetherFor = 0
        BY DEF Neighbours!Init
  <2>2. ASSUME NEW m \in Nodes PROVE Quiet(m) \in Nat
        BY <1>2, PresenceClock DEF Quiet, Neighbours!TypeOK
  <2> QED BY <2>1, <2>2 DEF NothingYet
<1> QED BY <1>2, <1>3, <1>4 DEF PresenceInv, Underway

\* All ages grow together.
LEMMA PresenceTicks == PresenceInv /\ Neighbours!Tick => PresenceInv'
<1> SUFFICES ASSUME PresenceInv, Neighbours!Tick PROVE PresenceInv'
    OBVIOUS
<1>1. /\ link' = link /\ wasConnected' = wasConnected /\ lastAnnounced' = lastAnnounced
      /\ inbox' = inbox /\ claimed' = claimed
      /\ now' = Neighbours!NextStamp(now)
      BY DEF Neighbours!Tick, Neighbours!announcer
<1>2. ASSUME NEW n \in Nodes
      PROVE  sincePass'[n] = sincePass[n] + 1 /\ sincePass[n] < MaxGap
      BY DEF Neighbours!Tick
<1>3. /\ togetherFor' \in 0 .. Neighbours!FoundWithin
      /\ togetherFor' = 0 \/ (togetherFor' <= togetherFor + 1 /\ \A n \in Nodes : link[n])
      /\ togetherFor' \in Nat
  <2>1. togetherFor \in Nat /\ togetherFor <= Neighbours!FoundWithin
        BY PresenceTypes, PresenceNumbers
  <2> QED BY <2>1, FoundIn DEF Neighbours!Tick
<1>4. Neighbours!TypeOK'
  <2>1. sincePass' \in [Nodes -> 0 .. MaxGap]
        BY PresenceNumbers DEF PresenceInv, Neighbours!TypeOK, Neighbours!Tick
  <2>2. now' \in Neighbours!Stamps
        BY <1>1, PresenceClock DEF PresenceInv, Neighbours!TypeOK
  <2> QED BY <1>1, <1>3, <2>1, <2>2 DEF PresenceInv, Neighbours!TypeOK
<1>5. ASSUME NEW n \in Nodes PROVE wasConnected[n] => Quiet(n)' = Quiet(n) + 1
  <2>1. SUFFICES ASSUME wasConnected[n] PROVE Quiet(n)' = Quiet(n) + 1
        OBVIOUS
  <2>2. Quiet(n) < HeartbeatMs + sincePass[n]
        BY <2>1 DEF PresenceInv, Links
  <2>3. Quiet(n) + 1 < Wrap
        BY <1>2, <2>2, PresenceTypes, PresenceNumbers
  <2> QED BY <1>1, <2>3, PresenceTypes, PresenceClock DEF Quiet
<1>6. Links'
  <2>1. togetherFor' > 0 => \A n \in Nodes : link'[n]
        BY <1>1, <1>3
  <2>2. ASSUME NEW n \in Nodes
        PROVE  /\ link'[n] => wasConnected'[n]
               /\ ~link'[n] => inbox'[n] = <<>>
               /\ wasConnected'[n] => Quiet(n)' < HeartbeatMs + sincePass'[n]
    <3>1. /\ link[n] => wasConnected[n]
          /\ ~link[n] => inbox[n] = <<>>
          /\ wasConnected[n] => Quiet(n) < HeartbeatMs + sincePass[n]
          BY DEF PresenceInv, Links
    <3> QED BY <1>1, <1>2, <1>5, <3>1, PresenceTypes, PresenceNumbers
  <2> QED BY <2>1, <2>2 DEF Links, Quiet
<1>7. ASSUME NEW k \in Nodes, ~claimed'[k] PROVE Underway(k)'
  <2>1. Underway(k)
        BY <1>1, <1>7 DEF PresenceInv
  <2>2. /\ sincePass'[k] = sincePass[k] + 1 /\ sincePass[k] \in Nat /\ togetherFor \in Nat
        /\ togetherFor' <= togetherFor + 1 /\ togetherFor' \in Nat
        BY <1>2, <1>3, PresenceTypes
  <2>3. CASE NothingYet(k)
    <3>1. ASSUME NEW m \in Nodes \ {k} PROVE togetherFor' <= Quiet(m)'
      <4>1. CASE togetherFor' = 0
        <5>1. lastAnnounced'[m] \in Neighbours!Stamps /\ now' \in Neighbours!Stamps
              BY <1>4 DEF Neighbours!TypeOK
        <5>2. Neighbours!Minus(now', lastAnnounced'[m]) \in Nat
              BY <5>1, PresenceClock
        <5> QED BY <4>1, <5>2 DEF Quiet
      <4>2. CASE togetherFor' # 0
        <5>1. link[m]
              BY <1>3, <4>2
        <5>2. wasConnected[m]
              BY <5>1 DEF PresenceInv, Links
        <5>3. togetherFor <= Quiet(m) /\ Quiet(m) \in Nat
              BY <2>3, PresenceTypes DEF NothingYet
        <5> QED BY <1>5, <2>2, <5>2, <5>3
      <4> QED BY <4>1, <4>2
    <3> QED BY <1>1, <2>3, <3>1 DEF NothingYet, Underway, Quiet
  <2>4. CASE Waiting(k)
    <3>1. PICK i \in 1 .. Len(inbox[k]) :
              inbox[k][i] \notin {k, Neighbours!Other} /\ togetherFor < Due(k, i)
          BY <2>4 DEF Waiting
    <3>2. i \in Nat /\ 0 < i /\ i <= Inbox
          BY <3>1, PresenceTypes, PresenceNumbers
    <3>3. Gaps(Inbox - i) \in Nat
          BY <3>2, NextPlace
    <3>4. togetherFor' < Due(k, i)'
          BY <2>2, <3>1, <3>3, PresenceNumbers DEF Due
    <3> QED BY <1>1, <3>1, <3>4 DEF Waiting, Underway
  <2> QED BY <2>1, <2>3, <2>4 DEF Underway
<1> QED BY <1>4, <1>6, <1>7 DEF PresenceInv

\* A link that went down begins the time anew.
Silenced(n) ==
    /\ now' = now /\ togetherFor' = 0
    /\ link' = [link EXCEPT ![n] = FALSE]
    /\ inbox' = [inbox EXCEPT ![n] = <<>>]

LEMMA SilencedUnderway ==
    ASSUME Neighbours!TypeOK', togetherFor' = 0, NEW k \in Nodes
    PROVE  Underway(k)'
<1>1. ASSUME NEW m \in Nodes PROVE Quiet(m)' \in Nat
      BY PresenceClock DEF Quiet, Neighbours!TypeOK
<1>2. ASSUME NEW m \in Nodes PROVE togetherFor' <= Quiet(m)'
      BY <1>1
<1> QED BY <1>2 DEF Underway, NothingYet, Quiet

LEMMA DropKeeps ==
    ASSUME PresenceInv, NEW n \in Nodes, Neighbours!Drop(n)
    PROVE  PresenceInv'
<1>1. /\ Silenced(n) /\ wasConnected' = wasConnected /\ lastAnnounced' = lastAnnounced
      /\ claimed' = claimed /\ sincePass' = sincePass
      BY DEF Silenced, Neighbours!Drop, Neighbours!announcer
<1>2. Neighbours!TypeOK'
  <2>1. <<>> \in Seq(Nodes \cup {Neighbours!Other}) /\ Len(<<>>) <= Inbox
        /\ 0 \in 0 .. MaxGap /\ 0 \in 0 .. Neighbours!FoundWithin
        BY PresenceNumbers, FoundIn
  <2> QED BY <1>1, <2>1 DEF Silenced, PresenceInv, Neighbours!TypeOK
<1>3. Links'
  <2>1. ASSUME NEW m \in Nodes
        PROVE  /\ link'[m] => wasConnected'[m]
               /\ ~link'[m] => inbox'[m] = <<>>
               /\ wasConnected'[m] => Quiet(m)' < HeartbeatMs + sincePass'[m]
    <3>1. /\ link[m] => wasConnected[m]
          /\ ~link[m] => inbox[m] = <<>>
          /\ wasConnected[m] => Quiet(m) < HeartbeatMs + sincePass[m]
          BY DEF PresenceInv, Links
    <3>2. /\ link'[m] = IF m = n THEN FALSE ELSE link[m]
          /\ inbox'[m] = IF m = n THEN <<>> ELSE inbox[m]
          BY <1>1 DEF Silenced, PresenceInv, Neighbours!TypeOK
    <3>3. Quiet(m)' = Quiet(m)
          BY <1>1 DEF Quiet, Silenced
    <3> QED BY <1>1, <3>1, <3>2, <3>3
  <2>2. ~(togetherFor' > 0)
        BY <1>1 DEF Silenced
  <2> QED BY <2>1, <2>2 DEF Links, Quiet
<1>4. ASSUME NEW k \in Nodes PROVE Underway(k)'
      BY <1>1, <1>2, SilencedUnderway DEF Silenced
<1> QED BY <1>2, <1>3, <1>4 DEF PresenceInv

LEMMA PowerCycleKeeps ==
    ASSUME PresenceInv, NEW n \in Nodes, Neighbours!PowerCycle(n)
    PROVE  PresenceInv'
<1>1. /\ Silenced(n)
      /\ wasConnected' = [wasConnected EXCEPT ![n] = FALSE]
      /\ lastAnnounced' = [lastAnnounced EXCEPT ![n] = now]
      /\ claimed' = [claimed EXCEPT ![n] = FALSE]
      /\ sincePass' = [sincePass EXCEPT ![n] = 0]
      BY DEF Silenced, Neighbours!PowerCycle
<1>2. Neighbours!TypeOK'
  <2>1. <<>> \in Seq(Nodes \cup {Neighbours!Other}) /\ Len(<<>>) <= Inbox
        /\ 0 \in 0 .. MaxGap /\ 0 \in 0 .. Neighbours!FoundWithin
        BY PresenceNumbers, FoundIn
  <2> QED BY <1>1, <2>1 DEF Silenced, PresenceInv, Neighbours!TypeOK
<1>3. Links'
  <2>1. ASSUME NEW m \in Nodes
        PROVE  /\ link'[m] => wasConnected'[m]
               /\ ~link'[m] => inbox'[m] = <<>>
               /\ wasConnected'[m] => Quiet(m)' < HeartbeatMs + sincePass'[m]
    <3>1. /\ link[m] => wasConnected[m]
          /\ ~link[m] => inbox[m] = <<>>
          /\ wasConnected[m] => Quiet(m) < HeartbeatMs + sincePass[m]
          BY DEF PresenceInv, Links
    <3>2. /\ link'[m] = IF m = n THEN FALSE ELSE link[m]
          /\ inbox'[m] = IF m = n THEN <<>> ELSE inbox[m]
          /\ wasConnected'[m] = IF m = n THEN FALSE ELSE wasConnected[m]
          /\ m # n => lastAnnounced'[m] = lastAnnounced[m]
          /\ m # n => sincePass'[m] = sincePass[m]
          BY <1>1 DEF Silenced, PresenceInv, Neighbours!TypeOK
    <3>3. m # n => Quiet(m)' = Quiet(m)
          BY <1>1, <3>2 DEF Quiet, Silenced
    <3> QED BY <3>1, <3>2, <3>3
  <2>2. ~(togetherFor' > 0)
        BY <1>1 DEF Silenced
  <2> QED BY <2>1, <2>2 DEF Links, Quiet
<1>4. ASSUME NEW k \in Nodes PROVE Underway(k)'
      BY <1>1, <1>2, SilencedUnderway DEF Silenced
<1> QED BY <1>2, <1>3, <1>4 DEF PresenceInv

\* A pass, node by node.
Announced(n, u) == u /\ Neighbours!Announces(n)

LEMMA PassAtHome ==
    ASSUME PresenceInv, NEW n \in Nodes, NEW u \in BOOLEAN, Neighbours!Pass(n, u)
    PROVE  /\ now' = now
           /\ link'[n] = u /\ wasConnected'[n] = u /\ sincePass'[n] = 0
           /\ claimed'[n] = Neighbours!ClaimedAfter(n)
           /\ lastAnnounced'[n] = IF Announced(n, u) THEN now ELSE lastAnnounced[n]
BY DEF Neighbours!Pass, PresenceInv, Neighbours!TypeOK, Announced

LEMMA PassElsewhere ==
    ASSUME PresenceInv, NEW n \in Nodes, NEW u \in BOOLEAN, Neighbours!Pass(n, u),
           NEW m \in Nodes, m # n
    PROVE  /\ link'[m] = link[m] /\ wasConnected'[m] = wasConnected[m]
           /\ sincePass'[m] = sincePass[m] /\ claimed'[m] = claimed[m]
           /\ lastAnnounced'[m] = lastAnnounced[m]
BY DEF Neighbours!Pass, PresenceInv, Neighbours!TypeOK

\* What a pass puts into the inboxes, and whether the time goes on.
Tells(n, u, told) ==
    /\ \A m \in told : Announced(n, u)
    /\ \A m \in told : m # n => link[m] /\ Len(inbox[m]) < Inbox
    /\ n \in told => Len(Neighbours!Unread(n)) < Inbox
    /\ \A m \in Nodes : m # n =>
          inbox'[m] = IF m \in told THEN Append(inbox[m], n) ELSE inbox[m]
    /\ ~u => inbox'[n] = <<>>
    /\ u => inbox'[n] = IF n \in told THEN Append(Neighbours!Unread(n), n)
                        ELSE Neighbours!Unread(n)
    /\ inbox' = [m \in Nodes |-> inbox'[m]]
    /\ \/ togetherFor' = 0
       \/ /\ togetherFor' = togetherFor /\ u /\ link[n]
          /\ Announced(n, u) => Nodes \ {n} \subseteq told

LEMMA PassTells ==
    ASSUME PresenceInv, NEW n \in Nodes, NEW u \in BOOLEAN, Neighbours!Pass(n, u)
    PROVE  \E told \in SUBSET Nodes : Tells(n, u, told)
<1> DEFINE linked == [link EXCEPT ![n] = u]
           unread == [inbox EXCEPT ![n] = IF u THEN Neighbours!Unread(n) ELSE <<>>]
           within == {m \in Nodes : Announced(n, u) /\ linked[m] /\ Len(unread[m]) < Inbox}
<1>1. PICK told \in SUBSET within :
          /\ inbox' = [m \in Nodes |->
                          IF m \in told THEN Append(unread[m], n) ELSE unread[m]]
          /\ togetherFor' = IF /\ u /\ link[n]
                               /\ Announced(n, u) => Nodes \ {n} \subseteq told
                            THEN togetherFor ELSE 0
      BY Zenon DEF Neighbours!Pass, Announced
<1>2. /\ unread[n] = IF u THEN Neighbours!Unread(n) ELSE <<>>
      /\ \A m \in Nodes : m # n => linked[m] = link[m] /\ unread[m] = inbox[m]
      BY DEF PresenceInv, Neighbours!TypeOK
<1>3. told \in SUBSET Nodes
      BY <1>1
<1>4. \A m \in told : m \in Nodes /\ Announced(n, u) /\ linked[m] /\ Len(unread[m]) < Inbox
      BY <1>1
<1> HIDE DEF linked, unread, within
<1>5. \A m \in told : m # n => link[m] /\ Len(inbox[m]) < Inbox
      BY <1>2, <1>4, Zenon
<1>6. n \in told => u /\ Len(Neighbours!Unread(n)) < Inbox
      BY <1>2, <1>4, Zenon DEF Announced
<1>7. \A m \in Nodes : m # n =>
          inbox'[m] = IF m \in told THEN Append(inbox[m], n) ELSE inbox[m]
      BY <1>1, <1>2
<1>8. inbox'[n] = IF n \in told THEN Append(unread[n], n) ELSE unread[n]
      BY <1>1
<1>9. /\ ~u => inbox'[n] = <<>>
      /\ u => inbox'[n] = IF n \in told THEN Append(Neighbours!Unread(n), n)
                          ELSE Neighbours!Unread(n)
      BY <1>2, <1>6, <1>8
<1>10. inbox' = [m \in Nodes |-> inbox'[m]]
      BY <1>1
<1>11. \/ togetherFor' = 0
       \/ /\ togetherFor' = togetherFor /\ u /\ link[n]
          /\ Announced(n, u) => Nodes \ {n} \subseteq told
      BY <1>1, Zenon
<1>12. \A m \in told : Announced(n, u)
      BY <1>4, Zenon
<1>13. Tells(n, u, told)
      BY <1>5, <1>6, <1>7, <1>9, <1>10, <1>11, <1>12, Zenon DEF Tells
<1> QED BY <1>3, <1>13, Zenon

\* A message that is put at the end of an inbox.
LEMMA Posted ==
    ASSUME NEW s \in Seq(Messages), NEW c \in Messages
    PROVE  /\ Append(s, c) \in Seq(Messages)
           /\ Len(Append(s, c)) = Len(s) + 1
           /\ \A i \in 1 .. Len(s) : Append(s, c)[i] = s[i]
           /\ Append(s, c)[Len(s) + 1] = c
BY AppendProperties

\* A pass reads the first message, and then the inbox is not full.
LEMMA ReadOne ==
    ASSUME PresenceInv, NEW n \in Nodes
    PROVE  /\ Neighbours!Unread(n) \in Seq(Messages)
           /\ Len(Neighbours!Unread(n)) <= Inbox
           /\ inbox[n] = <<>> => Neighbours!Unread(n) = <<>>
           /\ inbox[n] # <<>> =>
                 /\ link[n]
                 /\ Len(Neighbours!Unread(n)) = Len(inbox[n]) - 1
                 /\ Len(Neighbours!Unread(n)) < Inbox
                 /\ \A i \in 1 .. Len(inbox[n]) - 1 :
                       Neighbours!Unread(n)[i] = inbox[n][i + 1]
<1>1. inbox[n] \in Seq(Messages) /\ Len(inbox[n]) \in Nat /\ Len(inbox[n]) <= Inbox
      BY PresenceTypes
<1>2. CASE inbox[n] = <<>>
      BY <1>1, <1>2, PresenceNumbers DEF Neighbours!Unread, Neighbours!Hears
<1>3. CASE inbox[n] # <<>>
  <2>1. link[n]
        BY <1>3 DEF PresenceInv, Links
  <2>2. Neighbours!Unread(n) = Tail(inbox[n])
        BY <1>3, <2>1 DEF Neighbours!Unread, Neighbours!Hears
  <2>3. /\ Tail(inbox[n]) \in Seq(Messages)
        /\ Len(Tail(inbox[n])) = Len(inbox[n]) - 1
        /\ \A i \in 1 .. Len(inbox[n]) - 1 : Tail(inbox[n])[i] = inbox[n][i + 1]
        BY <1>1, <1>3, HeadTailProperties
  <2> QED BY <1>1, <1>3, <2>1, <2>2, <2>3, PresenceNumbers
<1> QED BY <1>2, <1>3

\* An inbox is never overfilled.
LEMMA PassTypes ==
    ASSUME PresenceInv, NEW n \in Nodes, NEW u \in BOOLEAN, Neighbours!Pass(n, u)
    PROVE  Neighbours!TypeOK'
<1>1. /\ now' \in Neighbours!Stamps
      /\ link' \in [Nodes -> BOOLEAN] /\ wasConnected' \in [Nodes -> BOOLEAN]
      /\ lastAnnounced' \in [Nodes -> Neighbours!Stamps]
      BY DEF PresenceInv, Neighbours!TypeOK, Neighbours!Pass
<1>2. claimed' \in [Nodes -> BOOLEAN]
  <2>1. Neighbours!ClaimedAfter(n) \in BOOLEAN
        BY Zenon DEF Neighbours!ClaimedAfter, PresenceInv, Neighbours!TypeOK
  <2> QED BY <2>1 DEF PresenceInv, Neighbours!TypeOK, Neighbours!Pass
<1>3. sincePass' \in [Nodes -> 0 .. MaxGap]
      BY PresenceNumbers DEF PresenceInv, Neighbours!TypeOK, Neighbours!Pass
<1>0. PICK told \in SUBSET Nodes : Tells(n, u, told)
      BY PassTells, Zenon
<1>6. togetherFor' \in 0 .. Neighbours!FoundWithin
  <2>1. togetherFor' = 0 \/ togetherFor' = togetherFor
        BY <1>0, Zenon DEF Tells
  <2> QED BY <2>1, PresenceTypes, FoundIn
<1>4. ASSUME NEW m \in Nodes PROVE inbox'[m] \in Seq(Messages) /\ Len(inbox'[m]) <= Inbox
  <2>1. CASE m = n
    <3>1. /\ Neighbours!Unread(n) \in Seq(Messages)
          /\ Len(Neighbours!Unread(n)) \in Nat /\ Len(Neighbours!Unread(n)) <= Inbox
          BY ReadOne
    <3>2. /\ Append(Neighbours!Unread(n), n) \in Seq(Messages)
          /\ Len(Append(Neighbours!Unread(n), n)) = Len(Neighbours!Unread(n)) + 1
          BY <3>1, Posted DEF Messages
    <3>3. \/ inbox'[n] = <<>>
          \/ inbox'[n] = Neighbours!Unread(n)
          \/ /\ Len(Neighbours!Unread(n)) < Inbox
             /\ inbox'[n] = Append(Neighbours!Unread(n), n)
          BY <1>0, Zenon DEF Tells
    <3>4. CASE inbox'[n] = <<>>
          BY <2>1, <3>4, PresenceNumbers
    <3>5. CASE inbox'[n] = Neighbours!Unread(n)
          BY <2>1, <3>1, <3>5, Zenon
    <3>6. CASE /\ Len(Neighbours!Unread(n)) < Inbox
               /\ inbox'[n] = Append(Neighbours!Unread(n), n)
      <4>1. Len(inbox'[n]) = Len(Neighbours!Unread(n)) + 1 /\ inbox'[n] \in Seq(Messages)
            BY <3>2, <3>6, Zenon
      <4> QED BY <2>1, <3>1, <3>6, <4>1, PresenceNumbers
    <3> QED BY <3>3, <3>4, <3>5, <3>6, Zenon
  <2>2. CASE m # n
    <3>1. inbox[m] \in Seq(Messages) /\ Len(inbox[m]) \in Nat /\ Len(inbox[m]) <= Inbox
          BY PresenceTypes
    <3>2. Append(inbox[m], n) \in Seq(Messages) /\ Len(Append(inbox[m], n)) = Len(inbox[m]) + 1
          BY <3>1, Posted DEF Messages
    <3>3. \/ inbox'[m] = inbox[m]
          \/ Len(inbox[m]) < Inbox /\ inbox'[m] = Append(inbox[m], n)
          BY <1>0, <2>2, Zenon DEF Tells
    <3> QED BY <3>1, <3>2, <3>3, PresenceNumbers
  <2> QED BY <2>1, <2>2
<1>5. inbox' \in [Nodes -> Seq(Messages)]
  <2>1. inbox' = [m \in Nodes |-> inbox'[m]]
        BY <1>0, Zenon DEF Tells
  <2> QED BY <1>4, <2>1
<1> QED BY <1>1, <1>2, <1>3, <1>4, <1>5, <1>6, Zenon DEF Neighbours!TypeOK, Messages

\* After a pass the node has announced itself within the heartbeat.
LEMMA PassLinks ==
    ASSUME PresenceInv, NEW n \in Nodes, NEW u \in BOOLEAN, Neighbours!Pass(n, u)
    PROVE  Links'
<1>0. PICK told \in SUBSET Nodes : Tells(n, u, told)
      BY PassTells, Zenon
<1>1. togetherFor' > 0 => \A m \in Nodes : link'[m]
  <2>1. togetherFor > 0 => \A m \in Nodes : link[m]
        BY DEF PresenceInv, Links
  <2>2. SUFFICES ASSUME togetherFor' > 0, NEW m \in Nodes PROVE link'[m]
        OBVIOUS
  <2>3. u /\ togetherFor > 0
    <3>1. togetherFor' # 0
          BY <2>2
    <3>2. u /\ togetherFor' = togetherFor
          BY <1>0, <3>1, Zenon DEF Tells
    <3> QED BY <2>2, <3>2
  <2> QED BY <2>1, <2>3, PassAtHome, PassElsewhere
<1>2. ASSUME NEW m \in Nodes
      PROVE  /\ link'[m] => wasConnected'[m]
             /\ ~link'[m] => inbox'[m] = <<>>
             /\ wasConnected'[m] => Quiet(m)' < HeartbeatMs + sincePass'[m]
  <2>1. /\ link[m] => wasConnected[m]
        /\ ~link[m] => inbox[m] = <<>>
        /\ wasConnected[m] => Quiet(m) < HeartbeatMs + sincePass[m]
        BY DEF PresenceInv, Links
  <2>2. CASE m = n
    <3>1. u => Quiet(m)' < HeartbeatMs
      <4>1. now \in Neighbours!Stamps /\ Neighbours!Minus(now, now) = 0
            BY PresenceTypes, PresenceClock
      <4>2. CASE Announced(n, u)
        <5>1. now' = now /\ lastAnnounced'[n] = now
              BY <4>2, PassAtHome, Zenon
        <5>2. Quiet(m)' = 0
              BY <2>2, <4>1, <5>1, Zenon DEF Quiet
        <5> QED BY <5>2, PresenceNumbers
      <4>3. CASE u /\ ~Announced(n, u)
        <5>1. Quiet(m) < HeartbeatMs
              BY <2>2, <4>3, PresenceTypes, PresenceNumbers
                 DEF Announced, Neighbours!Announces, Neighbours!HeartbeatDue, Quiet
        <5>2. Quiet(m)' = Quiet(m)
              BY <2>2, <4>3, PassAtHome DEF Quiet
        <5> QED BY <5>1, <5>2
      <4> QED BY <4>2, <4>3
    <3>2. /\ link'[m] = u /\ wasConnected'[m] = u /\ sincePass'[m] = 0
          /\ ~u => inbox'[m] = <<>>
          BY <1>0, <2>2, PassAtHome, Zenon DEF Tells
    <3> QED BY <3>1, <3>2, PresenceNumbers
  <2>3. CASE m # n
    <3>1. Quiet(m)' = Quiet(m)
          BY <2>3, PassAtHome, PassElsewhere DEF Quiet
    <3>2. inbox'[m] = inbox[m] \/ link[m]
          BY <1>0, <2>3, Zenon DEF Tells
    <3> QED BY <2>1, <2>3, <3>1, <3>2, PassElsewhere
  <2> QED BY <2>2, <2>3
<1> QED BY <1>1, <1>2 DEF Links, Quiet

\* Whoever announced itself to a node has a place in its inbox.
LEMMA ToldOf ==
    ASSUME PresenceInv, NEW k \in Nodes, NEW n \in Nodes, n # k,
           Neighbours!TypeOK', Len(inbox[k]) < Inbox, inbox'[k] = Append(inbox[k], n),
           togetherFor' < HeartbeatMs + MaxGap
    PROVE  Waiting(k)'
<1>1. inbox[k] \in Seq(Messages) /\ Len(inbox[k]) \in Nat /\ n \in Messages
      BY PresenceTypes DEF Messages
<1>0. PICK i \in Nat : i = Len(inbox[k]) + 1
      BY <1>1
<1>2. i \in Nat /\ 0 < i /\ i <= Inbox
      BY <1>0, <1>1, PresenceNumbers
<1>3. inbox'[k][i] = n /\ Len(inbox'[k]) = i
      BY <1>0, <1>1, Posted
<1>4. i \in 1 .. Len(inbox'[k]) /\ inbox'[k][i] \notin {k, Neighbours!Other}
      BY <1>2, <1>3, PresenceNumbers
<1>5. Gaps(Inbox - i) \in Nat /\ sincePass'[k] \in Nat /\ togetherFor' \in Nat
      BY <1>2, NextPlace, FoundIn DEF Neighbours!TypeOK
<1>6. togetherFor' < Due(k, i)'
      BY <1>5, PresenceNumbers DEF Due
<1> QED BY <1>4, <1>6 DEF Waiting

\* The node that makes the pass: it has read the message that was next, and
\* what was behind that is one place further ahead.
LEMMA PassReads ==
    ASSUME PresenceInv, NEW n \in Nodes, NEW u \in BOOLEAN, Neighbours!Pass(n, u),
           Neighbours!TypeOK', togetherFor' # 0, ~claimed'[n]
    PROVE  Underway(n)'
<1>0. PICK told \in SUBSET Nodes : Tells(n, u, told)
      BY PassTells, Zenon
<1>1. /\ sincePass'[n] = 0 /\ togetherFor \in Nat
      /\ sincePass[n] \in Nat /\ sincePass[n] <= MaxGap
      BY PassAtHome, PresenceTypes
<1>2. togetherFor' = togetherFor /\ u /\ link[n]
      BY <1>0, Zenon DEF Tells
<1>3. /\ ~claimed[n]
      /\ inbox[n] # <<>> => inbox[n][1] \in {n, Neighbours!Other}
  <2>1. ~claimed[n] /\ (Neighbours!Hears(n) => Head(inbox[n]) \in {n, Neighbours!Other})
        BY PassAtHome, Zenon DEF Neighbours!ClaimedAfter
  <2>2. inbox[n] # <<>> => Head(inbox[n]) = inbox[n][1]
        BY PresenceTypes
  <2> QED BY <1>2, <2>1, <2>2, Zenon DEF Neighbours!Hears
<1>4. CASE NothingYet(n)
  <2>1. ASSUME NEW m \in Nodes \ {n} PROVE togetherFor' <= Quiet(m)'
    <3>1. Quiet(m)' = Quiet(m)
          BY PassAtHome, PassElsewhere DEF Quiet
    <3> QED BY <1>2, <1>4, <3>1 DEF NothingYet
  <2> QED BY <2>1 DEF NothingYet, Underway, Quiet
<1>5. CASE Waiting(n)
  <2>1. PICK i \in 1 .. Len(inbox[n]) :
            inbox[n][i] \notin {n, Neighbours!Other} /\ togetherFor < Due(n, i)
        BY <1>5 DEF Waiting
  <2>2. /\ i \in Nat /\ 0 < i /\ i <= Inbox /\ i <= Len(inbox[n]) /\ Len(inbox[n]) \in Nat
        /\ inbox[n] # <<>>
        BY <2>1, PresenceTypes, PresenceNumbers
  <2>3. i # 1
        BY <1>3, <2>1, <2>2, Zenon
  <2>4. /\ Neighbours!Unread(n) \in Seq(Messages) /\ Len(Neighbours!Unread(n)) \in Nat
        /\ i - 1 \in 1 .. Len(Neighbours!Unread(n))
        /\ Neighbours!Unread(n)[i - 1] = inbox[n][i]
    <3>1. i - 1 \in 1 .. Len(inbox[n]) - 1 /\ (i - 1) + 1 = i
          BY <2>2, <2>3
    <3>2. /\ Neighbours!Unread(n) \in Seq(Messages)
          /\ Len(Neighbours!Unread(n)) = Len(inbox[n]) - 1
          /\ Neighbours!Unread(n)[i - 1] = inbox[n][(i - 1) + 1]
          BY <2>2, <3>1, ReadOne
    <3> QED BY <2>2, <3>1, <3>2
  <2>5. i - 1 \in 1 .. Len(inbox'[n]) /\ inbox'[n][i - 1] = inbox[n][i]
    <3>1. CASE inbox'[n] = Neighbours!Unread(n)
          BY <2>4, <3>1
    <3>2. CASE inbox'[n] = Append(Neighbours!Unread(n), n)
      <4>1. /\ Len(Append(Neighbours!Unread(n), n)) = Len(Neighbours!Unread(n)) + 1
            /\ Append(Neighbours!Unread(n), n)[i - 1] = Neighbours!Unread(n)[i - 1]
            BY <2>4, Posted DEF Messages
      <4> QED BY <2>4, <3>2, <4>1
    <3> QED BY <1>0, <1>2, <3>1, <3>2, Zenon DEF Tells
  <2>6. togetherFor' < Due(n, i - 1)'
    <3>1. /\ Gaps(Inbox - i) \in Nat
          /\ Gaps(Inbox - (i - 1)) = Gaps(Inbox - i) + MaxGap
          BY <2>2, NextPlace
    <3> QED BY <1>1, <1>2, <2>1, <3>1, PresenceNumbers DEF Due
  <2>7. inbox'[n][i - 1] \notin {n, Neighbours!Other}
        BY <2>1, <2>5, Zenon
  <2> QED BY <2>5, <2>6, <2>7 DEF Underway, Waiting
<1> QED BY <1>3, <1>4, <1>5 DEF PresenceInv, Underway

\* The end of an inbox grows; what is in it keeps its place.
LEMMA WaitsOn ==
    ASSUME PresenceInv, NEW k \in Nodes, NEW c \in Messages, Waiting(k),
           inbox'[k] = inbox[k] \/ inbox'[k] = Append(inbox[k], c),
           togetherFor' = togetherFor, sincePass'[k] = sincePass[k]
    PROVE  Waiting(k)'
<1>1. PICK i \in 1 .. Len(inbox[k]) :
          inbox[k][i] \notin {k, Neighbours!Other} /\ togetherFor < Due(k, i)
      BY DEF Waiting
<1>2. inbox[k] \in Seq(Messages) /\ Len(inbox[k]) \in Nat
      BY PresenceTypes
<1>3. /\ Len(Append(inbox[k], c)) = Len(inbox[k]) + 1
      /\ Append(inbox[k], c)[i] = inbox[k][i]
      BY <1>1, <1>2, Posted
<1>4. i \in 1 .. Len(inbox'[k]) /\ inbox'[k][i] = inbox[k][i]
      BY <1>1, <1>2, <1>3
<1>5. togetherFor' < Due(k, i)'
      BY <1>1 DEF Due
<1>6. inbox'[k][i] \notin {k, Neighbours!Other}
      BY <1>1, <1>4, Zenon
<1> QED BY <1>4, <1>5, <1>6 DEF Waiting

\* The others: an announcement that got to all of them is in their inboxes.
LEMMA PassLeaves ==
    ASSUME PresenceInv, NEW n \in Nodes, NEW u \in BOOLEAN, Neighbours!Pass(n, u),
           Neighbours!TypeOK', togetherFor' # 0, NEW k \in Nodes, k # n, ~claimed'[k]
    PROVE  Underway(k)'
<1>0. PICK told \in SUBSET Nodes : Tells(n, u, told)
      BY PassTells, Zenon
<1>1. /\ togetherFor' = togetherFor /\ u /\ link[n]
      /\ Announced(n, u) => k \in told
      BY <1>0 DEF Tells
<1>2. /\ sincePass'[k] = sincePass[k] /\ ~claimed[k]
      /\ inbox'[k] = IF k \in told THEN Append(inbox[k], n) ELSE inbox[k]
      /\ n \in Messages
      BY <1>0, PassElsewhere DEF Tells, Messages
<1>3. CASE Waiting(k)
      BY <1>1, <1>2, <1>3, WaitsOn, Zenon DEF Underway
<1>4. CASE NothingYet(k) /\ Announced(n, u)
  <2>1. k \in told /\ Len(inbox[k]) < Inbox /\ inbox'[k] = Append(inbox[k], n)
        BY <1>0, <1>1, <1>2, <1>4, Zenon DEF Tells
  <2>2. togetherFor <= Quiet(n) /\ wasConnected[n]
        BY <1>1, <1>4 DEF NothingYet, PresenceInv, Links
  <2>3. Quiet(n) < HeartbeatMs + sincePass[n]
        BY <2>2 DEF PresenceInv, Links
  <2>4. togetherFor' < HeartbeatMs + MaxGap
        BY <1>1, <2>2, <2>3, PresenceTypes, PresenceNumbers
  <2> QED BY <2>1, <2>4, ToldOf DEF Underway
<1>5. CASE NothingYet(k) /\ ~Announced(n, u)
  <2>1. ASSUME NEW m \in Nodes \ {k} PROVE togetherFor' <= Quiet(m)'
    <3>1. Quiet(m)' = Quiet(m)
          BY <1>5, PassAtHome, PassElsewhere DEF Quiet
    <3> QED BY <1>1, <1>5, <3>1 DEF NothingYet
  <2> QED BY <2>1 DEF NothingYet, Underway, Quiet
<1> QED BY <1>2, <1>3, <1>4, <1>5 DEF PresenceInv, Underway

LEMMA PassKeeps ==
    ASSUME PresenceInv, NEW n \in Nodes, NEW u \in BOOLEAN, Neighbours!Pass(n, u)
    PROVE  PresenceInv'
<1>1. Neighbours!TypeOK'
      BY PassTypes
<1>2. ASSUME NEW k \in Nodes, ~claimed'[k] PROVE Underway(k)'
  <2>1. CASE togetherFor' = 0
        BY <1>1, <2>1, SilencedUnderway
  <2>2. CASE togetherFor' # 0
        BY <1>1, <1>2, <2>2, PassReads, PassLeaves
  <2> QED BY <2>1, <2>2
<1> QED BY <1>1, <1>2, PassLinks DEF PresenceInv

\* Other messages keep a mac waiting no longer than a full inbox does.
LEMMA TrafficKeeps ==
    ASSUME PresenceInv, NEW n \in Nodes, Neighbours!OtherTraffic(n)
    PROVE  PresenceInv'
<1>1. /\ link[n] /\ Len(inbox[n]) < Inbox
      /\ inbox' = [inbox EXCEPT ![n] = Append(inbox[n], Neighbours!Other)]
      /\ now' = now /\ link' = link /\ wasConnected' = wasConnected
      /\ lastAnnounced' = lastAnnounced /\ claimed' = claimed
      /\ togetherFor' = togetherFor /\ sincePass' = sincePass
      BY DEF Neighbours!OtherTraffic, Neighbours!announcer
<1>2. /\ inbox[n] \in Seq(Messages) /\ Len(inbox[n]) \in Nat
      /\ inbox \in [Nodes -> Seq(Messages)]
      /\ Neighbours!Other \in Messages
      BY PresenceTypes DEF PresenceInv, Neighbours!TypeOK, Messages
<1>3. /\ Append(inbox[n], Neighbours!Other) \in Seq(Messages)
      /\ Len(Append(inbox[n], Neighbours!Other)) = Len(inbox[n]) + 1
      BY <1>2, Posted
<1>4. ASSUME NEW m \in Nodes
      PROVE  /\ inbox'[m] = IF m = n THEN Append(inbox[n], Neighbours!Other) ELSE inbox[m]
             /\ Len(inbox'[m]) <= Inbox
      BY <1>1, <1>2, <1>3, PresenceTypes, PresenceNumbers
<1>5. inbox' \in [Nodes -> Seq(Messages)]
      BY <1>1, <1>2, <1>3
<1>6. Neighbours!TypeOK'
      BY <1>1, <1>4, <1>5, Zenon DEF PresenceInv, Neighbours!TypeOK, Messages
<1>7. Links'
  <2>1. ASSUME NEW m \in Nodes PROVE ~link'[m] => inbox'[m] = <<>>
        BY <1>1, <1>4, Zenon DEF PresenceInv, Links
  <2> QED BY <1>1, <2>1, Zenon DEF PresenceInv, Links, Quiet
<1>8. ASSUME NEW k \in Nodes, ~claimed'[k] PROVE Underway(k)'
  <2>1. Underway(k)
        BY <1>1, <1>8 DEF PresenceInv
  <2>2. CASE NothingYet(k)
        BY <1>1, <2>2, Zenon DEF Underway, NothingYet, Quiet
  <2>3. CASE Waiting(k)
        BY <1>1, <1>2, <1>4, <2>3, WaitsOn DEF Underway
  <2> QED BY <2>1, <2>2, <2>3 DEF Underway
<1> QED BY <1>6, <1>7, <1>8 DEF PresenceInv

LEMMA PresenceKeeps == PresenceInv /\ [Neighbours!Next]_Neighbours!vars => PresenceInv'
<1>1. ASSUME PresenceInv, UNCHANGED Neighbours!vars PROVE PresenceInv'
      BY <1>1 DEF PresenceInv, Neighbours!TypeOK, Links, Underway, NothingYet, Waiting, Due,
                  Quiet, Neighbours!vars, Neighbours!announcer
<1>2. ASSUME PresenceInv, Neighbours!Next PROVE PresenceInv'
      BY <1>2, PresenceTicks, PassKeeps, DropKeeps, PowerCycleKeeps, TrafficKeeps, Zenon
         DEF Neighbours!Next
<1> QED BY <1>1, <1>2

\* Neither can last as long as that.
LEMMA PresencePromises == PresenceInv => Neighbours!CollisionFound
<1> SUFFICES ASSUME PresenceInv, togetherFor = Neighbours!FoundWithin,
                    NEW k \in Nodes, ~claimed[k]
             PROVE  FALSE
    BY DEF Neighbours!CollisionFound
<1>1. /\ togetherFor \in Nat /\ sincePass[k] \in Nat /\ sincePass[k] <= MaxGap
      /\ togetherFor = HeartbeatMs + MaxGap + Gaps(Inbox) /\ Gaps(Inbox) \in Nat
      BY PresenceTypes, FoundIn, PresenceNumbers, GapsNat
<1>2. CASE NothingYet(k)
  <2>1. PICK m \in Nodes : m # k
        BY PresenceNumbers
  <2>2. togetherFor <= Quiet(m)
        BY <1>2, <2>1 DEF NothingYet
  <2>3. Quiet(m) < HeartbeatMs + sincePass[m]
        BY <1>1, PresenceNumbers DEF PresenceInv, Links
  <2> QED BY <1>1, <2>2, <2>3, PresenceTypes, PresenceNumbers
<1>3. CASE Waiting(k)
  <2>1. PICK i \in 1 .. Len(inbox[k]) : togetherFor < Due(k, i)
        BY <1>3 DEF Waiting
  <2>2. i \in Nat /\ 0 < i /\ i <= Inbox
        BY <2>1, PresenceTypes, PresenceNumbers
  <2>3. Gaps(Inbox - i) \in Nat /\ Gaps(Inbox - i) + MaxGap <= Gaps(Inbox)
        BY <2>2, NextPlace
  <2> QED BY <1>1, <2>1, <2>3, PresenceNumbers DEF Due
<1> QED BY <1>2, <1>3 DEF PresenceInv, Underway

-------------------------------------------------------------------------------
(***************************************************************************)
(* The serial line.                                                        *)
(***************************************************************************)

Chars == Line!Letters \cup {"CR"}

\* What is in the buffer is the line so far, as long as that fits; from then
\* on the end of it on the node, and its beginning on the Mega.
Whole ==
    /\ Len(buffer) <= Len(typed)
    /\ Len(typed) <= MaxLine => buffer = typed

Beginning ==
    /\ Len(typed) > MaxLine => Len(buffer) = MaxLine
    /\ \A i \in 1 .. Len(typed) : typed[i] # "CR"
    /\ \A i \in 1 .. Len(buffer) : buffer[i] = typed[i]

Ending == \A i \in 1 .. Len(buffer) : buffer[i] = typed[Len(typed) - Len(buffer) + i]

LineInv ==
    /\ Line!TypeOK /\ Whole
    /\ board = "Mega" => Beginning
    /\ board = "Esp32" => Ending

\* What the assumptions say of the numbers.
LEMMA LineLength == MaxLine \in Nat \ {0} /\ Typed \in Nat
BY DevicesAssumption DEF Line!SerialLineAssumption

\* A character that is put at the end.
LEMMA Appended ==
    ASSUME NEW s \in Seq(Chars), NEW c \in Chars
    PROVE  /\ Append(s, c) \in Seq(Chars)
           /\ Len(Append(s, c)) = Len(s) + 1
           /\ Append(s, c) # <<>>
           /\ \A i \in 1 .. Len(s) : Append(s, c)[i] = s[i]
           /\ Append(s, c)[Len(s) + 1] = c
BY AppendProperties

\* A beginning, character by character.
LEMMA Prefixes ==
    ASSUME NEW s \in Seq(Chars), NEW t \in Seq(Chars), Len(s) <= Len(t),
           \A i \in 1 .. Len(s) : s[i] = t[i]
    PROVE  Line!IsPrefix(s, t)
<1>1. Len(s) \in Nat /\ Len(t) \in Nat
      OBVIOUS
<1>2. /\ SubSeq(s, 1, Len(s)) = [i \in 1 .. Len(s) |-> s[i]]
      /\ SubSeq(t, 1, Len(s)) = [i \in 1 .. Len(s) |-> t[i]]
      BY <1>1
<1>3. [i \in 1 .. Len(s) |-> s[i]] = [i \in 1 .. Len(s) |-> t[i]]
      OBVIOUS
<1> QED BY <1>2, <1>3 DEF Line!IsPrefix

\* An end, character by character.
LEMMA Suffixes ==
    ASSUME NEW s \in Seq(Chars), NEW t \in Seq(Chars), Len(s) <= Len(t),
           \A i \in 1 .. Len(s) : s[i] = t[Len(t) - Len(s) + i]
    PROVE  Line!IsSuffix(s, t)
<1>1. Len(s) \in Nat /\ Len(t) \in Nat
      OBVIOUS
<1> DEFINE rs == Line!Reverse(s)
           rt == Line!Reverse(t)
<1>2. rs \in Seq(Chars) /\ Len(rs) = Len(s) /\ \A i \in 1 .. Len(s) : rs[i] = s[Len(s) - i + 1]
      BY <1>1 DEF Line!Reverse
<1>3. rt \in Seq(Chars) /\ Len(rt) = Len(t) /\ \A i \in 1 .. Len(t) : rt[i] = t[Len(t) - i + 1]
      BY <1>1 DEF Line!Reverse
<1>4. ASSUME NEW i \in 1 .. Len(s) PROVE rs[i] = rt[i]
  <2>1. Len(s) - i + 1 \in 1 .. Len(s) /\ i \in 1 .. Len(t)
        BY <1>1
  <2>2. Len(t) - Len(s) + (Len(s) - i + 1) = Len(t) - i + 1
        BY <1>1
  <2> QED BY <1>2, <1>3, <2>1, <2>2
<1> HIDE DEF rs, rt
<1>5. Line!IsPrefix(rs, rt)
      BY <1>2, <1>3, <1>4, Prefixes
<1> QED BY <1>5 DEF Line!IsSuffix, rs, rt

LEMMA LineBegins == Line!Init => LineInv
<1> SUFFICES ASSUME Line!Init PROVE LineInv
    OBVIOUS
<1>1. board \in Line!Boards /\ buffer = <<>> /\ ran = <<>> /\ typed = <<>>
      BY DEF Line!Init
<1>2. Line!TypeOK
      BY <1>1, LineLength DEF Line!TypeOK, Line!Init
<1> QED BY <1>1, <1>2, LineLength
        DEF LineInv, Whole, Beginning, Ending, Line!Init, Line!Boards

\* A character that stays: both sequences grow, or the buffer is full.
LEMMA CharKept ==
    ASSUME LineInv, NEW c \in Chars, typed' = Append(typed, c),
           Len(typed') <= Typed, board' = board, ran' = ran,
           \/ board = "Esp32" /\ Line!EspKeep(c)
           \/ board = "Mega" /\ c # "CR" /\ Line!MegaKeep(c)
    PROVE  LineInv'
<1> USE LineLength
<1>1. /\ buffer \in Seq(Chars) /\ ran \in Seq(Chars) /\ typed \in Seq(Chars)
      /\ Len(buffer) \in Nat /\ Len(typed) \in Nat
      /\ Len(buffer) <= MaxLine /\ board \in {"Esp32", "Mega"}
      BY DEF LineInv, Line!TypeOK, Chars, Line!Boards
<1>2. /\ typed' \in Seq(Chars) /\ Len(typed') = Len(typed) + 1 /\ typed' # <<>>
      /\ \A i \in 1 .. Len(typed) : typed'[i] = typed[i]
      /\ typed'[Len(typed) + 1] = c
      BY <1>1, Appended
<1>3. /\ Append(buffer, c) \in Seq(Chars) /\ Len(Append(buffer, c)) = Len(buffer) + 1
      /\ Append(buffer, c) # <<>>
      /\ \A i \in 1 .. Len(buffer) : Append(buffer, c)[i] = buffer[i]
      /\ Append(buffer, c)[Len(buffer) + 1] = c
      BY <1>1, Appended
<1>4. /\ Len(buffer) <= Len(typed)
      /\ Len(typed) <= MaxLine => buffer = typed
      BY DEF LineInv, Whole
<1>5. CASE Len(buffer) < MaxLine
  <2>1. buffer' = Append(buffer, c)
        BY <1>1, <1>5 DEF Line!EspKeep, Line!MegaKeep
  <2>2. Line!TypeOK'
        BY <1>1, <1>2, <1>3, <1>5, <2>1 DEF Line!TypeOK, LineInv, Chars
  <2>3. Whole'
        BY <1>1, <1>2, <1>3, <1>4, <1>5, <2>1 DEF Whole
  <2>4. ASSUME board = "Mega" PROVE Beginning'
    <3>1. /\ \A i \in 1 .. Len(typed) : typed[i] # "CR"
          /\ \A i \in 1 .. Len(buffer) : buffer[i] = typed[i]
          /\ c # "CR"
          BY <2>4 DEF LineInv, Beginning
    <3>2. buffer = typed
          BY <1>1, <1>4, <1>5, <2>4 DEF LineInv, Beginning
    <3>3. \A i \in 1 .. Len(typed') : typed'[i] # "CR"
          BY <1>1, <1>2, <3>1
    <3>4. buffer' = typed'
          BY <2>1, <3>2
    <3>5. Len(typed') <= MaxLine
          BY <1>1, <1>2, <1>5, <3>2
    <3> QED BY <1>1, <1>2, <3>3, <3>4, <3>5 DEF Beginning
  <2>5. ASSUME board = "Esp32" PROVE Ending'
    <3>1. \A i \in 1 .. Len(buffer) : buffer[i] = typed[Len(typed) - Len(buffer) + i]
          BY <2>5 DEF LineInv, Ending
    <3>2. Len(buffer') = Len(buffer) + 1
          BY <1>3, <2>1
    <3>3. Len(typed') - Len(buffer') = Len(typed) - Len(buffer)
          BY <1>1, <1>2, <3>2
    <3>4. SUFFICES ASSUME NEW i \in 1 .. Len(buffer) + 1
                   PROVE  buffer'[i] = typed'[Len(typed) - Len(buffer) + i]
          BY <3>2, <3>3 DEF Ending
    <3>5. CASE i = Len(buffer) + 1
          BY <1>1, <1>2, <1>3, <1>4, <2>1, <3>5
    <3>6. CASE i \in 1 .. Len(buffer)
      <4>1. Len(typed) - Len(buffer) + i \in 1 .. Len(typed)
            BY <1>1, <1>4, <3>6
      <4>2. typed'[Len(typed) - Len(buffer) + i] = typed[Len(typed) - Len(buffer) + i]
            BY <1>2, <4>1
      <4>3. buffer'[i] = buffer[i]
            BY <1>3, <2>1, <3>6
      <4>4. buffer[i] = typed[Len(typed) - Len(buffer) + i]
            BY <3>1, <3>6, Zenon
      <4> QED BY <4>2, <4>3, <4>4, Zenon
    <3>7. i = Len(buffer) + 1 \/ i \in 1 .. Len(buffer)
          BY <1>1
    <3> QED BY <3>5, <3>6, <3>7, Zenon
  <2> QED BY <2>2, <2>3, <2>4, <2>5 DEF LineInv
<1>6. CASE Len(buffer) = MaxLine
  <2>1. Len(typed') > MaxLine
        BY <1>1, <1>2, <1>4, <1>6
  <2>2. CASE board = "Mega"
    <3>1. buffer' = buffer
          BY <1>6, <2>2 DEF Line!MegaKeep
    <3>2. /\ \A i \in 1 .. Len(typed) : typed[i] # "CR"
          /\ \A i \in 1 .. Len(buffer) : buffer[i] = typed[i]
          /\ c # "CR"
          BY <2>2 DEF LineInv, Beginning
    <3>3. Beginning'
      <4>1. \A i \in 1 .. Len(typed') : typed'[i] # "CR"
            BY <1>1, <1>2, <3>2
      <4>2. \A i \in 1 .. Len(buffer) : buffer'[i] = typed'[i]
            BY <1>1, <1>2, <1>4, <3>1, <3>2
      <4> QED BY <1>6, <3>1, <4>1, <4>2 DEF Beginning
    <3>4. Line!TypeOK' /\ Whole'
          BY <1>1, <1>2, <1>4, <1>6, <2>1, <3>1 DEF Line!TypeOK, LineInv, Chars, Whole
    <3> QED BY <2>2, <3>3, <3>4 DEF LineInv
  <2>3. CASE board = "Esp32"
    <3>1. buffer' = <<>>
          BY <1>6, <2>3 DEF Line!EspKeep
    <3>2. Line!TypeOK' /\ Whole' /\ Ending'
          BY <1>1, <1>2, <2>1, <3>1 DEF Line!TypeOK, LineInv, Chars, Whole, Ending
    <3> QED BY <2>3, <3>2 DEF LineInv
  <2> QED BY <1>1, <2>2, <2>3
<1> QED BY <1>1, <1>5, <1>6

\* What WithoutCR makes of a line.
LEMMA Trimmed ==
    ASSUME NEW s \in Seq(Chars)
    PROVE  /\ Line!WithoutCR(s) \in Seq(Chars)
           /\ \/ Line!WithoutCR(s) = s /\ (s # <<>> => s[Len(s)] # "CR")
              \/ /\ s # <<>> /\ s[Len(s)] = "CR"
                 /\ Len(Line!WithoutCR(s)) = Len(s) - 1
                 /\ \A i \in 1 .. Len(s) - 1 : Line!WithoutCR(s)[i] = s[i]
<1>1. CASE s # <<>> /\ s[Len(s)] = "CR"
  <2>1. Line!WithoutCR(s) = SubSeq(s, 1, Len(s) - 1)
        BY <1>1 DEF Line!WithoutCR, Line!Last, Line!Front
  <2>2. Len(s) \in Nat \ {0}
        BY <1>1
  <2>3. /\ SubSeq(s, 1, Len(s) - 1) \in Seq(Chars)
        /\ Len(SubSeq(s, 1, Len(s) - 1)) = Len(s) - 1
        /\ \A i \in 1 .. Len(s) - 1 : SubSeq(s, 1, Len(s) - 1)[i] = s[i]
    <3> DEFINE n == Len(s) - 1
    <3>1. n \in Nat /\ \A i \in 1 .. n : s[i] \in Chars
          BY <2>2
    <3> HIDE DEF n
    <3>2. /\ SubSeq(s, 1, n) \in Seq(Chars)
          /\ Len(SubSeq(s, 1, n)) = n
          /\ \A i \in 1 .. n : SubSeq(s, 1, n)[i] = s[i]
          BY <3>1, SubSeqProperties
    <3> QED BY <3>2 DEF n
  <2>4. /\ Line!WithoutCR(s) \in Seq(Chars)
        /\ Len(Line!WithoutCR(s)) = Len(s) - 1
        /\ \A i \in 1 .. Len(s) - 1 : Line!WithoutCR(s)[i] = s[i]
        BY <2>1, <2>3, Zenon
  <2> QED BY <1>1, <2>4, Zenon
<1>2. CASE ~(s # <<>> /\ s[Len(s)] = "CR")
      BY <1>2 DEF Line!WithoutCR, Line!Last
<1> QED BY <1>1, <1>2

\* At the end of a line.
LineEnds ==
    /\ board' = board /\ buffer' = <<>> /\ typed' = <<>>
    /\ \/ board = "Esp32" /\ ran' = Line!WithoutCR(buffer)
       \/ board = "Mega" /\ ran' = IF buffer # <<>> THEN buffer ELSE ran

LEMMA LineEndKeeps ==
    ASSUME LineInv, LineEnds
    PROVE  LineInv'
<1>1. ran' \in Seq(Chars)
      BY Trimmed DEF LineInv, Line!TypeOK, LineEnds, Chars
<1>2. Len(typed) \in Nat /\ Len(typed) <= Typed
      BY DEF LineInv, Line!TypeOK
<1> QED BY <1>1, LineLength
        DEF LineInv, Line!TypeOK, LineEnds, Chars, Whole, Beginning, Ending

\* A character ends the line or is kept.
LEMMA LineMoves ==
    ASSUME LineInv, Line!Next
    PROVE  \/ LineEnds
           \/ \E c \in Chars :
                 /\ typed' = Append(typed, c) /\ Len(typed') <= Typed
                 /\ board' = board /\ ran' = ran
                 /\ \/ board = "Esp32" /\ Line!EspKeep(c)
                    \/ board = "Mega" /\ c # "CR" /\ Line!MegaKeep(c)
<1>1. PICK c \in Line!Letters \cup {"CR", "LF"} : Line!Char(c)
      BY DEF Line!Next
<1>2. c \in Chars \/ c = "LF"
      BY DEF Chars
<1>3. CASE Line!EspChar(c)
      BY <1>1, <1>2, <1>3 DEF Line!Char, Line!EspChar, Line!EspEndLine, Line!EspKeep,
                              LineEnds, Chars, Line!Letters
<1>4. CASE Line!MegaChar(c)
      BY <1>1, <1>2, <1>4 DEF Line!Char, Line!MegaChar, Line!MegaEndLine, Line!MegaKeep,
                              LineEnds, Chars, Line!Letters
<1> QED BY <1>1, <1>3, <1>4 DEF Line!Char

LEMMA LineKeeps == LineInv /\ [Line!Next]_Line!vars => LineInv'
<1>1. ASSUME LineInv, UNCHANGED Line!vars PROVE LineInv'
      BY <1>1 DEF LineInv, Line!TypeOK, Whole, Beginning, Ending, Line!vars
<1>2. ASSUME LineInv, Line!Next PROVE LineInv'
      BY <1>2, LineMoves, CharKept, LineEndKeeps
<1> QED BY <1>1, <1>2

OneLine ==
    typed # <<>> /\ typed' = <<>> =>
        /\ Len(typed) <= MaxLine => ran' = Line!WithoutCR(typed)
        /\ IF board = "Mega" THEN Line!IsPrefix(ran', typed)
                             ELSE Line!IsSuffix(ran', Line!WithoutCR(typed))

\* Two lengths that shrink together keep their distance.
LEMMA BothShorter ==
    ASSUME NEW p \in Nat, NEW q \in Nat, NEW x \in Nat, NEW y \in Nat, p <= q,
           \/ x = p /\ y = q
           \/ x = p - 1 /\ y = q - 1
    PROVE  x <= y /\ y - x = q - p
OBVIOUS

\* What is carried out at a line end.
LEMMA LinePromises == LineInv /\ Line!Next => OneLine
<1> SUFFICES ASSUME LineInv, Line!Next, typed # <<>>, typed' = <<>>
             PROVE  /\ Len(typed) <= MaxLine => ran' = Line!WithoutCR(typed)
                    /\ IF board = "Mega" THEN Line!IsPrefix(ran', typed)
                       ELSE Line!IsSuffix(ran', Line!WithoutCR(typed))
    BY DEF OneLine
<1>1. /\ buffer \in Seq(Chars) /\ typed \in Seq(Chars)
      /\ Len(buffer) \in Nat /\ Len(typed) \in Nat
      /\ board \in {"Esp32", "Mega"}
      BY DEF LineInv, Line!TypeOK, Chars, Line!Boards
<1>2. LineEnds
  <2>1. ASSUME NEW c \in Chars PROVE typed' # Append(typed, c)
        BY <1>1, Appended
  <2> QED BY <2>1, LineMoves
<1>3. /\ Len(buffer) <= Len(typed)
      /\ Len(typed) <= MaxLine => buffer = typed
      BY DEF LineInv, Whole
<1>4. CASE board = "Mega"
  <2>1. /\ Len(typed) > MaxLine => Len(buffer) = MaxLine
        /\ \A i \in 1 .. Len(typed) : typed[i] # "CR"
        /\ \A i \in 1 .. Len(buffer) : buffer[i] = typed[i]
        BY <1>4 DEF LineInv, Beginning
  <2>2. ran' = buffer
    <3>1. buffer # <<>>
          BY <1>1, <1>3, <2>1, LineLength
    <3> QED BY <1>2, <1>4, <3>1 DEF LineEnds
  <2>3. Line!WithoutCR(typed) = typed
    <3>1. Len(typed) \in 1 .. Len(typed)
          BY <1>1
    <3> QED BY <2>1, <3>1 DEF Line!WithoutCR, Line!Last
  <2>4. Line!IsPrefix(buffer, typed)
        BY <1>1, <1>3, <2>1, Prefixes
  <2> QED BY <1>3, <1>4, <2>2, <2>3, <2>4
<1>5. CASE board = "Esp32"
  <2>1. ran' = Line!WithoutCR(buffer)
        BY <1>2, <1>5 DEF LineEnds
  <2>2. \A i \in 1 .. Len(buffer) : buffer[i] = typed[Len(typed) - Len(buffer) + i]
        BY <1>5 DEF LineInv, Ending
  <2> DEFINE b == Line!WithoutCR(buffer)
             t == Line!WithoutCR(typed)
  <2>3. /\ b \in Seq(Chars) /\ t \in Seq(Chars)
        /\ Len(b) \in Nat /\ Len(t) \in Nat
        BY <1>1, Trimmed
  <2>4. /\ \/ b = buffer /\ (buffer # <<>> => buffer[Len(buffer)] # "CR")
           \/ /\ buffer # <<>> /\ buffer[Len(buffer)] = "CR"
              /\ Len(b) = Len(buffer) - 1
              /\ \A i \in 1 .. Len(buffer) - 1 : b[i] = buffer[i]
        /\ \/ t = typed /\ typed[Len(typed)] # "CR"
           \/ /\ typed[Len(typed)] = "CR"
              /\ Len(t) = Len(typed) - 1
              /\ \A i \in 1 .. Len(typed) - 1 : t[i] = typed[i]
        BY <1>1, Trimmed
  <2> HIDE DEF b, t
  <2>5. Line!IsSuffix(b, t)
    <3>1. CASE buffer = <<>>
      <4>1. Len(b) = 0
            BY <2>4, <3>1
      <4>2. \A i \in 1 .. Len(b) : b[i] = t[Len(t) - Len(b) + i]
        <5>1. 1 .. Len(b) = {}
              BY <4>1
        <5> QED BY <5>1, Zenon
      <4>3. Len(b) <= Len(t)
            BY <2>3, <4>1
      <4> QED BY <2>3, <4>2, <4>3, Suffixes, Zenon
    <3>2. CASE buffer # <<>>
      <4>1. Len(buffer) \in 1 .. Len(buffer)
            BY <1>1, <3>2
      <4>2. buffer[Len(buffer)] = typed[Len(typed)]
            BY <1>1, <1>3, <2>2, <4>1
      <4>3. Len(b) <= Len(t) /\ Len(t) - Len(b) = Len(typed) - Len(buffer)
        <5>1. \/ Len(b) = Len(buffer) /\ Len(t) = Len(typed)
              \/ Len(b) = Len(buffer) - 1 /\ Len(t) = Len(typed) - 1
              BY <2>4, <3>2, <4>2
        <5>2. /\ Len(buffer) \in Nat /\ Len(typed) \in Nat /\ Len(buffer) <= Len(typed)
              /\ Len(b) \in Nat /\ Len(t) \in Nat
              BY <1>1, <1>3, <2>3, Zenon
        <5> QED BY <5>1, <5>2, BothShorter
      <4>4. ASSUME NEW i \in 1 .. Len(b) PROVE b[i] = t[Len(t) - Len(b) + i]
        <5>1. i \in 1 .. Len(buffer) /\ b[i] = buffer[i]
              BY <1>1, <2>3, <2>4
        <5>2. /\ Len(typed) - Len(buffer) + i \in 1 .. Len(t)
              /\ t[Len(typed) - Len(buffer) + i] = typed[Len(typed) - Len(buffer) + i]
              BY <1>1, <1>3, <2>3, <2>4, <4>3
        <5> QED BY <2>2, <4>3, <5>1, <5>2
      <4> QED BY <2>3, <4>3, <4>4, Suffixes
    <3> QED BY <3>1, <3>2
  <2> QED BY <1>3, <1>5, <2>1, <2>5 DEF b, t
<1> QED BY <1>1, <1>4, <1>5

-------------------------------------------------------------------------------
(***************************************************************************)
(* The devices together: one runs, and keeps its invariant; the others     *)
(* rest as they began, while the clock goes on.                            *)
(***************************************************************************)
ButtonRests ==
    /\ contact = FALSE /\ lastRaw = FALSE /\ lastTransition = 0
    /\ stable = FALSE /\ previousStable = FALSE
    /\ steadyFor = 0 /\ sincePress = Wrap

MatrixRests == key = FALSE /\ row = 0 /\ scanned = FALSE /\ reads = 0 /\ keyFor = 0

SetupRests ==
    /\ down = {} /\ holding = FALSE /\ holdStart = 0
    /\ releasing = FALSE /\ releaseStart = 0 /\ requested = FALSE
    /\ seenDown = FALSE /\ seenFor = 0 /\ up = TRUE /\ heldFor = 0

TimerRests ==
    triggered = FALSE /\ triggeredAt = 0 /\ lit = FALSE /\ since = Wrap /\ shown = TRUE

StatusRests ==
    /\ state = "Off" /\ showingOn = TRUE /\ lastToggle = 0 /\ pin = FALSE
    /\ stoodFor = 0

PresenceRests ==
    /\ link = [n \in Nodes |-> FALSE] /\ wasConnected = [n \in Nodes |-> FALSE]
    /\ lastAnnounced = [n \in Nodes |-> 0] /\ inbox = [n \in Nodes |-> <<>>]
    /\ claimed = [n \in Nodes |-> FALSE] /\ togetherFor = 0
    /\ sincePass = [n \in Nodes |-> 0]

LineRests == board = "Esp32" /\ buffer = <<>> /\ ran = <<>> /\ typed = <<>>

ButtonPart ==
    \/ device = "matrix" /\ MInv
    \/ device = "button" /\ IInv /\ MatrixRests
    \/ device \notin {"matrix", "button"} /\ ButtonRests /\ MatrixRests

SetupPart == IF device = "setup" THEN SetupInv ELSE SetupRests
TimerPart == IF device = "timer" THEN TimerInv ELSE TimerRests
StatusPart == IF device = "status" THEN StatusInv ELSE StatusRests
PresencePart == IF device = "presence" THEN PresenceInv ELSE PresenceRests
LinePart == IF device = "line" THEN LineInv ELSE LineRests

OtherParts == SetupPart /\ TimerPart /\ StatusPart /\ PresencePart /\ LinePart
DevicesInv ==
    now \in Stamps /\ sincePoll \in 0 .. MaxGap /\ ButtonPart /\ OtherParts

\* The instances mean the same by a stamp and by an age.
LEMMA OneClock ==
    /\ Setup!Stamps = Stamps /\ Timer!Stamps = Stamps /\ Status!Stamps = Stamps
    /\ Neighbours!Stamps = Stamps
    /\ Setup!Ages = Ages /\ Timer!Ages = Ages /\ Status!Ages = Ages
    /\ 0 \in Stamps /\ 0 \in Ages /\ Wrap \in Ages /\ 0 \in 0 .. MaxGap
BY WrapAssumption, ButtonAssumption
   DEF Stamps, Ages, Setup!Stamps, Timer!Stamps, Status!Stamps, Neighbours!Stamps,
       Setup!Ages, Timer!Ages, Status!Ages

LEMMA DevicesBegin == DevicesInit => DevicesInv
<1> SUFFICES ASSUME DevicesInit PROVE DevicesInv
    OBVIOUS
<1>1. /\ device \in {"button", "matrix", "setup", "timer", "status", "presence", "line"}
      /\ Setup!Init /\ (device = "setup" \/ down = {})
      /\ Timer!Init /\ Status!Init /\ Neighbours!Init
      /\ Line!Init /\ (device = "line" \/ board = "Esp32")
      BY DEF DevicesInit
<1>2. ButtonPart
  <2>1. CASE device = "matrix"
        BY <2>1, MatrixInitEstablishes, Zenon DEF DevicesInit, ButtonPart
  <2>2. CASE device # "matrix"
    <3>1. Init /\ (device = "button" \/ contact = FALSE) /\ MatrixRests
          BY <2>2, Zenon DEF DevicesInit, MatrixRests
    <3>2. CASE device = "button"
          BY <3>1, <3>2, InitEstablishes, Zenon DEF ButtonPart
    <3>3. CASE device # "button"
          BY <2>2, <3>1, <3>3 DEF ButtonPart, ButtonRests, Init
    <3> QED BY <3>2, <3>3
  <2> QED BY <2>1, <2>2
<1>3. SetupPart
      BY <1>1, SetupBegins, Zenon DEF SetupPart, SetupRests, Setup!Init
<1>4. TimerPart /\ StatusPart
      BY <1>1, TimerBegins, StatusBegins, Zenon
         DEF TimerPart, StatusPart, TimerRests, StatusRests, Timer!Init, Status!Init
<1>5. PresencePart
      BY <1>1, PresenceBegins, Zenon DEF PresencePart, PresenceRests, Neighbours!Init
<1>6. LinePart
      BY <1>1, LineBegins, Zenon DEF LinePart, LineRests, Line!Init
<1>7. now \in Stamps /\ sincePoll \in 0 .. MaxGap
      BY <1>1, OneClock, Zenon DEF Timer!Init
<1> QED BY <1>2, <1>3, <1>4, <1>5, <1>6, <1>7 DEF DevicesInv, OtherParts

(***************************************************************************)
(* A part that rests stays as it is.                                       *)
(***************************************************************************)
LEMMA ButtonStays ==
    ASSUME ButtonPart, device' = device, device \notin {"matrix", "button"},
           UNCHANGED <<buttonOwn, matrixOwn>>
    PROVE  ButtonPart'
<1>1. ButtonRests /\ MatrixRests
      BY DEF ButtonPart
<1>2. ButtonRests' /\ MatrixRests'
      BY <1>1, Zenon DEF ButtonRests, MatrixRests, buttonOwn, matrixOwn, readings, scanner
<1> QED BY <1>2, Zenon DEF ButtonPart

LEMMA SetupStays ==
    SetupPart /\ device' = device /\ device # "setup" /\ UNCHANGED setupOwn => SetupPart'
BY Zenon DEF SetupPart, SetupRests, setupOwn

LEMMA TimerStays ==
    TimerPart /\ device' = device /\ device # "timer" /\ UNCHANGED timerOwn => TimerPart'
BY Zenon DEF TimerPart, TimerRests, timerOwn

LEMMA StatusStays ==
    StatusPart /\ device' = device /\ device # "status" /\ UNCHANGED statusOwn => StatusPart'
BY Zenon DEF StatusPart, StatusRests, statusOwn

LEMMA PresenceStays ==
    /\ PresencePart /\ device' = device /\ device # "presence" /\ UNCHANGED presenceOwn
    => PresencePart'
BY Zenon DEF PresencePart, PresenceRests, presenceOwn

LEMMA LineStays ==
    LinePart /\ device' = device /\ device # "line" /\ UNCHANGED lineOwn => LinePart'
BY Zenon DEF LinePart, LineRests, lineOwn

LEMMA OthersStay ==
    ASSUME OtherParts, device' = device, device \in {"matrix", "button"},
           UNCHANGED <<setupOwn, timerOwn, statusOwn, presenceOwn, lineOwn>>
    PROVE  OtherParts'
<1>1. device # "setup" /\ device # "timer" /\ device # "status" /\ device # "presence"
      /\ device # "line"
      OBVIOUS
<1> QED BY <1>1, SetupStays, TimerStays, StatusStays, PresenceStays, LineStays, Zenon
        DEF OtherParts

(***************************************************************************)
(* A step of each device.                                                  *)
(***************************************************************************)
LEMMA ButtonSteps == DevicesInv /\ ButtonStep => DevicesInv'
<1> SUFFICES ASSUME DevicesInv, ButtonStep PROVE DevicesInv'
    OBVIOUS
<1>1. /\ device = "button" /\ device' = device /\ Next
      /\ UNCHANGED <<setupOwn, timerOwn, statusOwn, presenceOwn, lineOwn>>
      /\ UNCHANGED matrixOwn
      BY Zenon DEF ButtonStep
<1>2. IInv /\ MatrixRests
      BY <1>1 DEF DevicesInv, ButtonPart
<1>3. IInv'
      BY <1>1, <1>2, BounceKeeps, TickKeeps, UpdateKeeps, Zenon DEF Next
<1>4. MatrixRests'
      BY <1>1, <1>2, Zenon DEF MatrixRests, matrixOwn, scanner
<1>5. now' \in Stamps /\ sincePoll' \in 0 .. MaxGap
      BY <1>3, Zenon DEF IInv, TypeOK
<1>6. OtherParts'
      BY <1>1, OthersStay DEF DevicesInv
<1> QED BY <1>1, <1>3, <1>4, <1>5, <1>6, Zenon DEF DevicesInv, ButtonPart

LEMMA MatrixSteps == DevicesInv /\ MatrixStep => DevicesInv'
<1> SUFFICES ASSUME DevicesInv, MatrixStep PROVE DevicesInv'
    OBVIOUS
<1>1. /\ device = "matrix" /\ device' = device /\ MatrixNext
      /\ UNCHANGED <<setupOwn, timerOwn, statusOwn, presenceOwn, lineOwn>>
      BY Zenon DEF MatrixStep
<1>2. MInv
      BY <1>1 DEF DevicesInv, ButtonPart
<1>3. MInv'
      BY <1>1, <1>2, KeyMoveKeeps, MatrixTickKeeps, ScanKeeps, LookKeeps, Zenon
         DEF MatrixNext
<1>4. now' \in Stamps /\ sincePoll' \in 0 .. MaxGap
      BY <1>3, Zenon DEF MInv, IInv, TypeOK
<1>5. OtherParts'
      BY <1>1, OthersStay DEF DevicesInv
<1> QED BY <1>1, <1>3, <1>4, <1>5, Zenon DEF DevicesInv, ButtonPart

LEMMA SetupSteps == DevicesInv /\ SetupStep => DevicesInv'
<1> SUFFICES ASSUME DevicesInv, SetupStep PROVE DevicesInv'
    OBVIOUS
<1>1. /\ device = "setup" /\ device' = device /\ Setup!Next
      /\ UNCHANGED <<buttonOwn, matrixOwn>> /\ UNCHANGED timerOwn
      /\ UNCHANGED statusOwn /\ UNCHANGED presenceOwn /\ UNCHANGED lineOwn
      BY Zenon DEF SetupStep
<1>2. SetupInv'
      BY <1>1, SetupKeeps, Zenon DEF DevicesInv, OtherParts, SetupPart
<1>3. now' \in Stamps /\ sincePoll' \in 0 .. MaxGap
      BY <1>2, OneClock, Zenon DEF SetupInv, Setup!TypeOK
<1>4. ButtonPart'
      BY <1>1, ButtonStays DEF DevicesInv
<1>5. /\ device # "timer" /\ device # "status" /\ device # "presence" /\ device # "line"
      BY <1>1
<1> QED BY <1>1, <1>2, <1>3, <1>4, <1>5, TimerStays, StatusStays, PresenceStays, LineStays,
           Zenon DEF DevicesInv, OtherParts, SetupPart

LEMMA TimerSteps == DevicesInv /\ TimerStep => DevicesInv'
<1> SUFFICES ASSUME DevicesInv, TimerStep PROVE DevicesInv'
    OBVIOUS
<1>1. /\ device = "timer" /\ device' = device /\ Timer!Next
      /\ UNCHANGED <<buttonOwn, matrixOwn>> /\ UNCHANGED setupOwn
      /\ UNCHANGED statusOwn /\ UNCHANGED presenceOwn /\ UNCHANGED lineOwn
      BY Zenon DEF TimerStep
<1>2. TimerInv'
      BY <1>1, TimerKeeps, Zenon DEF DevicesInv, OtherParts, TimerPart
<1>3. now' \in Stamps /\ sincePoll' \in 0 .. MaxGap
      BY <1>2, OneClock, Zenon DEF TimerInv, Timer!TypeOK
<1>4. ButtonPart'
      BY <1>1, ButtonStays DEF DevicesInv
<1>5. /\ device # "setup" /\ device # "status" /\ device # "presence" /\ device # "line"
      BY <1>1
<1> QED BY <1>1, <1>2, <1>3, <1>4, <1>5, SetupStays, StatusStays, PresenceStays, LineStays,
           Zenon DEF DevicesInv, OtherParts, TimerPart

LEMMA StatusSteps == DevicesInv /\ StatusStep => DevicesInv'
<1> SUFFICES ASSUME DevicesInv, StatusStep PROVE DevicesInv'
    OBVIOUS
<1>1. /\ device = "status" /\ device' = device /\ Status!Next
      /\ UNCHANGED <<buttonOwn, matrixOwn>> /\ UNCHANGED setupOwn
      /\ UNCHANGED timerOwn /\ UNCHANGED presenceOwn /\ UNCHANGED lineOwn
      BY Zenon DEF StatusStep
<1>2. StatusInv'
      BY <1>1, StatusKeeps, Zenon DEF DevicesInv, OtherParts, StatusPart
<1>3. now' \in Stamps /\ sincePoll' \in 0 .. MaxGap
      BY <1>2, OneClock, Zenon DEF StatusInv, Status!TypeOK
<1>4. ButtonPart'
      BY <1>1, ButtonStays DEF DevicesInv
<1>5. /\ device # "setup" /\ device # "timer" /\ device # "presence" /\ device # "line"
      BY <1>1
<1> QED BY <1>1, <1>2, <1>3, <1>4, <1>5, SetupStays, TimerStays, PresenceStays, LineStays,
           Zenon DEF DevicesInv, OtherParts, StatusPart

LEMMA PresenceSteps == DevicesInv /\ PresenceStep => DevicesInv'
<1> SUFFICES ASSUME DevicesInv, PresenceStep PROVE DevicesInv'
    OBVIOUS
<1>1. /\ device = "presence" /\ device' = device /\ Neighbours!Next
      /\ sincePoll' = sincePoll
      /\ UNCHANGED <<buttonOwn, matrixOwn>> /\ UNCHANGED setupOwn
      /\ UNCHANGED timerOwn /\ UNCHANGED statusOwn /\ UNCHANGED lineOwn
      BY Zenon DEF PresenceStep
<1>2. PresenceInv'
      BY <1>1, PresenceKeeps, Zenon DEF DevicesInv, OtherParts, PresencePart
<1>3. now' \in Stamps /\ sincePoll' \in 0 .. MaxGap
      BY <1>1, <1>2, OneClock, Zenon DEF PresenceInv, Neighbours!TypeOK, DevicesInv
<1>4. ButtonPart'
      BY <1>1, ButtonStays DEF DevicesInv
<1>5. /\ device # "setup" /\ device # "timer" /\ device # "status" /\ device # "line"
      BY <1>1
<1> QED BY <1>1, <1>2, <1>3, <1>4, <1>5, SetupStays, TimerStays, StatusStays, LineStays,
           Zenon DEF DevicesInv, OtherParts, PresencePart

LEMMA LineSteps == DevicesInv /\ LineStep => DevicesInv'
<1> SUFFICES ASSUME DevicesInv, LineStep PROVE DevicesInv'
    OBVIOUS
<1>1. /\ device = "line" /\ device' = device /\ Line!Next
      /\ now' = now /\ sincePoll' = sincePoll
      /\ UNCHANGED <<buttonOwn, matrixOwn>> /\ UNCHANGED setupOwn
      /\ UNCHANGED timerOwn /\ UNCHANGED statusOwn /\ UNCHANGED presenceOwn
      BY Zenon DEF LineStep, loopOwn
<1>2. LineInv'
      BY <1>1, LineKeeps, Zenon DEF DevicesInv, OtherParts, LinePart
<1>3. now' \in Stamps /\ sincePoll' \in 0 .. MaxGap
      BY <1>1, Zenon DEF DevicesInv
<1>4. ButtonPart'
      BY <1>1, ButtonStays DEF DevicesInv
<1>5. /\ device # "setup" /\ device # "timer" /\ device # "status" /\ device # "presence"
      BY <1>1
<1> QED BY <1>1, <1>2, <1>3, <1>4, <1>5, SetupStays, TimerStays, StatusStays, PresenceStays,
           Zenon DEF DevicesInv, OtherParts, LinePart

LEMMA NothingSteps == DevicesInv /\ UNCHANGED devicesVars => DevicesInv'
<1> SUFFICES ASSUME DevicesInv, UNCHANGED devicesVars PROVE DevicesInv'
    OBVIOUS
<1>1. /\ device' = device /\ now' = now /\ sincePoll' = sincePoll
      /\ UNCHANGED buttonOwn /\ UNCHANGED matrixOwn /\ UNCHANGED setupOwn
      /\ UNCHANGED timerOwn /\ UNCHANGED statusOwn /\ UNCHANGED presenceOwn
      /\ UNCHANGED lineOwn
      BY Zenon DEF devicesVars, loopOwn
<1>2. now' \in Stamps /\ sincePoll' \in 0 .. MaxGap
      BY <1>1, Zenon DEF DevicesInv
<1>3. ButtonPart'
  <2>1. UNCHANGED matrixVars /\ UNCHANGED vars
        BY <1>1, Zenon
           DEF matrixVars, vars, buttonOwn, matrixOwn, scanner, readings
  <2>2. MatrixRests => MatrixRests'
        BY <1>1, Zenon DEF MatrixRests, matrixOwn, scanner
  <2>3. ButtonRests => ButtonRests'
        BY <1>1, Zenon DEF ButtonRests, buttonOwn, readings
  <2> QED BY <1>1, <2>1, <2>2, <2>3, MatrixStutterKeeps, StutterKeeps, Zenon
          DEF DevicesInv, ButtonPart
<1>4. SetupPart'
  <2>1. UNCHANGED Setup!vars
        BY <1>1, Zenon DEF Setup!vars, Setup!fields, Setup!history, setupOwn
  <2> QED BY <1>1, <2>1, SetupStays, SetupKeeps, Zenon DEF DevicesInv, OtherParts, SetupPart
<1>5. TimerPart'
  <2>1. UNCHANGED Timer!vars
        BY <1>1, Zenon DEF Timer!vars, timerOwn
  <2> QED BY <1>1, <2>1, TimerStays, TimerKeeps, Zenon DEF DevicesInv, OtherParts, TimerPart
<1>6. StatusPart'
  <2>1. UNCHANGED Status!vars
        BY <1>1, Zenon DEF Status!vars, Status!led, statusOwn
  <2> QED BY <1>1, <2>1, StatusStays, StatusKeeps, Zenon
          DEF DevicesInv, OtherParts, StatusPart
<1>7. PresencePart'
  <2>1. UNCHANGED Neighbours!vars
        BY <1>1, Zenon DEF Neighbours!vars, Neighbours!announcer, presenceOwn
  <2> QED BY <1>1, <2>1, PresenceStays, PresenceKeeps, Zenon
          DEF DevicesInv, OtherParts, PresencePart
<1>8. LinePart'
  <2>1. UNCHANGED Line!vars
        BY <1>1, Zenon DEF Line!vars, lineOwn
  <2> QED BY <1>1, <2>1, LineStays, LineKeeps, Zenon DEF DevicesInv, OtherParts, LinePart
<1> QED BY <1>2, <1>3, <1>4, <1>5, <1>6, <1>7, <1>8, Zenon DEF DevicesInv, OtherParts

LEMMA DevicesInvariance == DevicesSpec => []DevicesInv
<1>1. DevicesInv /\ [DevicesNext]_devicesVars => DevicesInv'
      BY ButtonSteps, MatrixSteps, SetupSteps, TimerSteps, StatusSteps, PresenceSteps,
         LineSteps, NothingSteps, Zenon DEF DevicesNext
<1> QED BY DevicesBegin, <1>1, PTL DEF DevicesSpec

(***************************************************************************)
(* What a part that rests satisfies.                                       *)
(***************************************************************************)
LEMMA ButtonTypes ==
    ASSUME now \in Stamps, sincePoll \in 0 .. MaxGap, ButtonPart
    PROVE  TypeOK /\ MatrixTypes
<1>1. MatrixRests => MatrixTypes
  <2>1. 0 \in 0 .. RowCount /\ 0 \in 0 .. 2
        BY RowSteps
  <2> QED BY <2>1, OneClock, Zenon DEF MatrixRests, MatrixTypes
<1>2. ButtonRests => TypeOK
      BY OneClock, Zenon DEF ButtonRests, TypeOK
<1> QED BY <1>1, <1>2, Zenon DEF ButtonPart, MInv, IInv

LEMMA SetupTypes ==
    ASSUME now \in Stamps, sincePoll \in 0 .. MaxGap, SetupPart
    PROVE  Setup!TypeOK
<1>1. SetupRests => Setup!TypeOK
      BY OneClock, Zenon DEF SetupRests, Setup!TypeOK
<1> QED BY <1>1, Zenon DEF SetupPart, SetupInv

LEMMA TimerTypes ==
    ASSUME now \in Stamps, sincePoll \in 0 .. MaxGap, TimerPart
    PROVE  Timer!TypeOK
<1>1. TimerRests => Timer!TypeOK
      BY OneClock, Zenon DEF TimerRests, Timer!TypeOK
<1> QED BY <1>1, Zenon DEF TimerPart, TimerInv

LEMMA StatusTypes ==
    ASSUME now \in Stamps, sincePoll \in 0 .. MaxGap, StatusPart
    PROVE  Status!TypeOK
<1>1. StatusRests => Status!TypeOK
      BY OneClock, Zenon DEF StatusRests, Status!TypeOK
<1> QED BY <1>1, Zenon DEF StatusPart, StatusInv

LEMMA NeighbourTypes ==
    ASSUME now \in Stamps, PresencePart
    PROVE  Neighbours!TypeOK
<1>1. ASSUME PresenceRests PROVE Neighbours!TypeOK
  <2>1. <<>> \in Seq(Nodes \cup {Neighbours!Other}) /\ Len(<<>>) <= Inbox
        /\ 0 \in 0 .. Neighbours!FoundWithin
        BY PresenceNumbers, FoundIn
  <2> QED BY <1>1, <2>1, OneClock DEF PresenceRests, Neighbours!TypeOK
<1> QED BY <1>1, Zenon DEF PresencePart, PresenceInv

LEMMA LineTypes ==
    ASSUME LinePart
    PROVE  Line!TypeOK
<1>1. LineRests => Line!TypeOK
      BY LineLength DEF LineRests, Line!TypeOK, Line!Boards
<1> QED BY <1>1, Zenon DEF LinePart, LineInv

(***************************************************************************)
(* Every variable of every device keeps its type: stamps are stamps of the *)
(* clock, no inbox holds more than it may, no line is longer than its      *)
(* buffer.                                                                 *)
(***************************************************************************)
THEOREM DevicesTypeCorrect == DevicesSpec => []DeviceTypes
<1>1. DevicesInv => DeviceTypes
      BY ButtonTypes, SetupTypes, TimerTypes, StatusTypes, NeighbourTypes, LineTypes, Zenon
         DEF DevicesInv, OtherParts, DeviceTypes
<1> QED BY <1>1, DevicesInvariance, PTL

(***************************************************************************)
(* isActive(): the LED of a message is lit from the pass it came in to the *)
(* end of the duration and goes out with the next pass.                    *)
(***************************************************************************)
THEOREM FlashesAreInTime == DevicesSpec => []FlashesInTime
<1>1. DevicesInv => FlashesInTime
  <2>1. TimerRests => Timer!FlashesInTime
        BY TimerNumbers DEF TimerRests, Timer!FlashesInTime
  <2> QED BY <2>1, TimerPromises, Zenon DEF DevicesInv, OtherParts, TimerPart, FlashesInTime
<1> QED BY <1>1, DevicesInvariance, PTL

(***************************************************************************)
(* However many nodes share an id, wherever the clock wraps, whatever was  *)
(* lost before and whatever else the broker sends them: with all links up  *)
(* and no announcement lost for a heartbeat, a pass and one more for every *)
(* message an inbox holds, each has heard another's mac.                   *)
(***************************************************************************)
THEOREM CollisionsAreFound == DevicesSpec => []CollisionFound
<1>1. DevicesInv => CollisionFound
  <2>1. PresenceRests => Neighbours!CollisionFound
        BY FoundIn DEF PresenceRests, Neighbours!CollisionFound
  <2> QED BY <2>1, PresencePromises, Zenon
          DEF DevicesInv, OtherParts, PresencePart, CollisionFound
<1> QED BY <1>1, DevicesInvariance, PTL

(***************************************************************************)
(* update() of the setup trigger asks for setup in the one pass in which   *)
(* the button settles open after a hold that was long enough.              *)
(***************************************************************************)
THEOREM RequestsAreExact == DevicesSpec => RequestsExact
<1>1. DevicesInv /\ [DevicesNext]_devicesVars => [Exact]_Setup!vars
  <2> SUFFICES ASSUME DevicesInv, [DevicesNext]_devicesVars, ~UNCHANGED Setup!vars,
                      sincePoll' = 0, heldFor < Wrap
               PROVE  requested' # requested /\ requested'
                          <=> ~up /\ up' /\ heldFor - seenFor >= MinHoldMs
      BY Zenon DEF Exact
  <2>1. CASE SetupStep
    <3>1. SetupInv /\ Setup!Next
          BY <2>1, Zenon DEF SetupStep, DevicesInv, OtherParts, SetupPart
    <3> QED BY <3>1, SetupPromises, Zenon DEF Exact
  <2>2. CASE ~SetupStep
    <3>1. UNCHANGED setupOwn /\ (device # "setup" \/ UNCHANGED Setup!vars)
      <4>1. CASE UNCHANGED devicesVars
            BY <4>1, Zenon DEF devicesVars, setupOwn, loopOwn, Setup!vars, Setup!fields,
                               Setup!history
      <4>2. CASE DevicesNext
            BY <2>2, <4>2 DEF DevicesNext, ButtonStep, MatrixStep, TimerStep, StatusStep,
                              PresenceStep, LineStep
      <4> QED BY <4>1, <4>2, Zenon
    <3>2. requested' = requested /\ up = TRUE
          BY <3>1, Zenon DEF setupOwn, DevicesInv, OtherParts, SetupPart, SetupRests
    <3> QED BY <3>2, Zenon
  <2> QED BY <2>1, <2>2, Zenon
<1> QED BY <1>1, DevicesInvariance, PTL DEF DevicesSpec, RequestsExact, Setup!RequestsExact,
                                            Exact

(***************************************************************************)
(* setState() and update() of the status LED: off and on stand still, a    *)
(* blink changes within its interval and a pass, and never before the      *)
(* interval is over, so that the slow and the fast one stay apart.         *)
(***************************************************************************)
THEOREM StatusIsReadable == DevicesSpec => StatusReadable
<1>1. DevicesInv /\ [DevicesNext]_devicesVars => [Readable]_Status!vars
  <2> SUFFICES ASSUME DevicesInv, [DevicesNext]_devicesVars, ~UNCHANGED Status!vars
               PROVE  Readable
      BY Zenon
  <2>1. CASE StatusStep
    <3>1. StatusInv /\ Status!Next
          BY <2>1, Zenon DEF StatusStep, DevicesInv, OtherParts, StatusPart
    <3> QED BY <3>1, StatusPromises, Zenon
  <2>2. CASE ~StatusStep
    <3>1. UNCHANGED statusOwn /\ device # "status"
      <4>1. CASE UNCHANGED devicesVars
            BY <4>1, Zenon DEF devicesVars, statusOwn, loopOwn, Status!vars, Status!led
      <4>2. CASE DevicesNext
            BY <2>2, <4>2 DEF DevicesNext, ButtonStep, MatrixStep, TimerStep, SetupStep,
                              PresenceStep, LineStep
      <4> QED BY <4>1, <4>2, Zenon
    <3>2. state' = "Off" /\ pin' = FALSE /\ pin' = pin
          BY <3>1, Zenon DEF statusOwn, DevicesInv, OtherParts, StatusPart, StatusRests
    <3> QED BY <3>2, StatusIntervals DEF Readable
  <2> QED BY <2>1, <2>2, Zenon
<1> QED BY <1>1, DevicesInvariance, PTL DEF DevicesSpec, StatusReadable,
                                            Status!StatusReadable, Readable

(***************************************************************************)
(* Whatever is typed, each line end carries out one line: whole if it      *)
(* fits, and otherwise its end on the node and its beginning on the Mega.  *)
(***************************************************************************)
THEOREM LinesAreApart == DevicesSpec => LinesStayApart
<1>1. DevicesInv /\ [DevicesNext]_devicesVars => [OneLine]_Line!vars
  <2> SUFFICES ASSUME DevicesInv, [DevicesNext]_devicesVars, ~UNCHANGED Line!vars
               PROVE  OneLine
      BY Zenon
  <2>1. CASE LineStep
    <3>1. LineInv /\ Line!Next
          BY <2>1, Zenon DEF LineStep, DevicesInv, OtherParts, LinePart
    <3> QED BY <3>1, LinePromises, Zenon
  <2>2. CASE ~LineStep
    <3>1. UNCHANGED lineOwn
          BY <2>2, Zenon DEF DevicesNext, ButtonStep, MatrixStep, TimerStep, SetupStep,
                             StatusStep, PresenceStep, devicesVars
    <3> QED BY <3>1, Zenon DEF lineOwn, Line!vars
  <2> QED BY <2>1, <2>2, Zenon
<1> QED BY <1>1, DevicesInvariance, PTL DEF DevicesSpec, LinesStayApart,
                                            Line!LinesStayApart, OneLine

(***************************************************************************)
(* What is proved of the two buttons holds of them among the devices.      *)
(***************************************************************************)
THEOREM ButtonsAmongDevices ==
    DevicesSpec => /\ []Settles /\ []KeySettles
                   /\ OnlySteadyLevels /\ PressesApart /\ OnlyReadLevels
<1> DEFINE Steadily == stable' # stable => steadyFor >= DebounceMs /\ lastRaw = stable'
           Twice == PressReported => sincePress >= 2 * DebounceMs
           WasRead == row # 0 /\ stable' # stable => reads = 2
<1>1. DevicesInv => Settles
  <2>1. ButtonRests => Settles
        BY ButtonAssumption DEF ButtonRests, Settles
  <2> QED BY <2>1, SettlesFollows, Zenon DEF DevicesInv, ButtonPart, MInv
<1>2. DevicesInv => KeySettles
  <2>1. MatrixRests => KeySettles
    <3>1. DebounceMs + Gaps(RowCount + 2) > 0
      <4>1. RowCount + 2 \in Nat
            BY RowSteps
      <4> QED BY <4>1, GapsNat, ButtonAssumption
    <3>2. ~(0 >= DebounceMs + (RowCount + 2) * MaxGap)
          BY <3>1, RoundShort, GapsNat, ButtonAssumption, RowSteps
    <3> QED BY <3>2, Zenon DEF MatrixRests, KeySettles
  <2> QED BY <2>1, KeySettlesFollows, Zenon DEF DevicesInv, ButtonPart
<1>3. DevicesInv /\ [DevicesNext]_devicesVars
         => \/ ButtonStep /\ IInv /\ row = 0
            \/ MatrixStep /\ MInv
            \/ stable' = stable
  <2>1. ASSUME DevicesInv, ButtonStep PROVE IInv /\ row = 0
        BY <2>1 DEF DevicesInv, ButtonStep, ButtonPart, MatrixRests
  <2>2. ASSUME DevicesInv, MatrixStep PROVE MInv
        BY <2>2 DEF DevicesInv, MatrixStep, ButtonPart
  <2>3. ASSUME [DevicesNext]_devicesVars, ~ButtonStep, ~MatrixStep PROVE stable' = stable
        BY <2>3, Zenon DEF DevicesNext, SetupStep, TimerStep, StatusStep, PresenceStep,
                           LineStep, devicesVars, buttonOwn, readings
  <2> QED BY <2>1, <2>2, <2>3, Zenon
<1>4. MatrixStep /\ MInv => [Next]_vars /\ IInv
      BY StepSimulated DEF MatrixStep, MInv, IInv
<1>5. DevicesInv /\ [DevicesNext]_devicesVars => [Steadily]_vars
      BY <1>3, <1>4, LevelsKept, Zenon DEF ButtonStep
<1>6. DevicesInv /\ [DevicesNext]_devicesVars => [Twice]_vars
  <2>1. stable' = stable => Twice
        BY Zenon DEF PressReported
  <2> QED BY <1>3, <1>4, <2>1, PressesKept, Zenon DEF ButtonStep
<1>7. DevicesInv /\ [DevicesNext]_devicesVars => [WasRead]_matrixVars
      BY <1>3, ReadsKept, Zenon DEF MatrixStep
<1> QED BY <1>1, <1>2, <1>5, <1>6, <1>7, DevicesInvariance, PTL
        DEF DevicesSpec, OnlySteadyLevels, PressesApart, OnlyReadLevels
===============================================================================
