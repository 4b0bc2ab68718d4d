------------------------ MODULE PulsingTransportProofs ------------------------
(***************************************************************************)
(* Theorems about PulsingTransport, for every pulse length, loop time,     *)
(* clock width and set of addresses.                                       *)
(***************************************************************************)
EXTENDS PulsingTransport, TLAPS

(***************************************************************************)
(* The arithmetic of the wrapping clock stays within the stored type.      *)
(***************************************************************************)
LEMMA StampArithmetic ==
    ASSUME NEW a \in Stamps, NEW d \in Stamps
    PROVE  Plus(a, d) \in Stamps /\ Minus(a, d) \in Stamps
BY WrapAssumption DEF Stamps, Plus, Minus

LEMMA NextStampType == \A a \in Stamps : NextStamp(a) \in Stamps
BY WrapAssumption DEF Stamps, NextStamp, Plus

LEMMA OlderType == \A age \in Ages : Older(age) \in Ages
BY WrapAssumption DEF Ages, Older

LEMMA LessByTheGap ==
    ASSUME NEW age \in Nat, NEW gap \in Nat,
           age < PulseMs + gap, gap <= MaxGap
    PROVE  age < PulseMs + MaxGap
BY PulsingAssumption

LEMMA PulseIsStamp == PulseMs \in Stamps
BY PulsingAssumption, WrapAssumption DEF Stamps
-------------------------------------------------------------------------------
(***************************************************************************)
(* Every variable of the transport keeps its type: releaseAtMs_ too, which *)
(* is computed by a sum that may wrap.                                     *)
(***************************************************************************)
THEOREM TypeCorrect == Spec => []TypeOK
<1>1. Init => TypeOK
  <2>1. 0 \in Stamps /\ 0 \in Ages /\ 0 \in 0 .. MaxGap
    BY WrapAssumption, PulsingAssumption DEF Stamps, Ages
  <2> QED BY <2>1 DEF Init, TypeOK
<1>2. TypeOK /\ [Next]_vars => TypeOK'
  <2> SUFFICES ASSUME TypeOK, [Next]_vars PROVE TypeOK'
    OBVIOUS
  <2>1. CASE Tick
    <3>1. now' \in Stamps /\ onFor' \in Ages
      BY <2>1, NextStampType, OlderType DEF Tick, TypeOK
    <3>2. sincePoll' \in 0 .. MaxGap
      BY <2>1, PulsingAssumption DEF Tick, TypeOK
    <3> QED BY <2>1, <3>1, <3>2 DEF Tick, TypeOK, pulseVars
  <2>2. CASE Update
    <3>1. onFor' \in {onFor, 0} /\ sincePoll' = 0
      BY <2>2 DEF Update, ReleaseIfDue
    <3>3. onFor' \in Ages /\ sincePoll' \in 0 .. MaxGap
      BY <3>1, PulsingAssumption, WrapAssumption DEF TypeOK, Ages
    <3>2. outputs' \in SUBSET Commands
      BY <2>2 DEF Update, ReleaseIfDue, Released, TypeOK, pulseVars
    <3> QED BY <2>2, <3>2, <3>3 DEF Update, ReleaseIfDue, TypeOK, pulseVars
  <2>3. ASSUME NEW c \in Commands, Send(c) PROVE TypeOK'
    <3>1. releaseAt' \in Stamps
      BY <2>3, StampArithmetic, PulseIsStamp DEF Send, SendPacket, TypeOK
    <3>2. outputs' \in SUBSET Commands
      BY <2>3 DEF Send, SendPacket, Released, TypeOK
    <3>3. onFor' \in Ages
      BY <2>3, WrapAssumption DEF Send, SendPacket, Ages
    <3> QED BY <2>3, <3>1, <3>2, <3>3 DEF Send, SendPacket, TypeOK
  <2>4. CASE UNCHANGED vars
    BY <2>4 DEF vars, pulseVars, TypeOK
  <2> QED BY <2>1, <2>2, <2>3, <2>4 DEF Next
<1> QED BY <1>1, <1>2, PTL DEF Spec

(***************************************************************************)
(* Whatever callers send and whenever loop() polls, rollovers included,    *)
(* the only coil that can be on is the one the transport is going to       *)
(* release.                                                                *)
(***************************************************************************)
THEOREM OneCoil == Spec => []OnlyPendingOutput
<1>1. Init => OnlyPendingOutput
  BY DEF Init, OnlyPendingOutput
<1>2. OnlyPendingOutput /\ [Next]_vars => OnlyPendingOutput'
  <2> SUFFICES ASSUME OnlyPendingOutput, [Next]_vars PROVE OnlyPendingOutput'
    OBVIOUS
  <2>1. CASE Tick
    BY <2>1 DEF Tick, pulseVars, OnlyPendingOutput
  <2>2. CASE Update
    BY <2>2
    DEF Update, ReleaseIfDue, ReleaseDue, Released, pulseVars, OnlyPendingOutput
  <2>3. ASSUME NEW c \in Commands, Send(c) PROVE OnlyPendingOutput'
    BY <2>3 DEF Send, SendPacket, Released, OnlyPendingOutput
  <2>4. CASE UNCHANGED vars
    BY <2>4 DEF vars, pulseVars, OnlyPendingOutput
  <2> QED BY <2>1, <2>2, <2>3, <2>4 DEF Next
<1> QED BY <1>1, <1>2, PTL DEF Spec
-------------------------------------------------------------------------------
(***************************************************************************)
(* The clock does not wrap while a pulse may be on.                        *)
(***************************************************************************)
BeforeRollover == LastTick + PulseMs < Wrap

(***************************************************************************)
(* Why the absolute comparison is right before a rollover: releaseAt is    *)
(* PulseMs after the ON request, and a pulse that is overdue became so     *)
(* after the last poll.                                                    *)
(***************************************************************************)
Timed ==
    /\ now <= LastTick
    /\ ~releasePending => onFor = 0
    /\ releasePending =>
          /\ onFor <= now
          /\ releaseAt + onFor = now + PulseMs
          /\ onFor < PulseMs + sincePoll

IInv == TypeOK /\ OnlyPendingOutput /\ Timed

LEMMA TimedInit == ASSUME BeforeRollover PROVE Init => Timed
BY PulsingAssumption DEF Init, Timed

LEMMA TimedStep ==
    ASSUME BeforeRollover, TypeOK, Timed, [Next]_vars
    PROVE  Timed'
<1> USE PulsingAssumption, WrapAssumption DEF TypeOK, Timed, Stamps, Ages
<1>1. CASE Tick
  <2>1. now' = now + 1 /\ now' <= LastTick
    BY <1>1 DEF Tick, NextStamp, Plus, BeforeRollover
  <2>2. releasePending => onFor' = onFor + 1
    BY <1>1 DEF Tick, Older
  <2>3. ~releasePending => onFor' = 0
    BY <1>1 DEF Tick
  <2> QED BY <1>1, <2>1, <2>2, <2>3 DEF Tick, pulseVars
<1>2. CASE Update
  <2>1. CASE ReleaseDue
    BY <1>2, <2>1 DEF Update, ReleaseIfDue
  <2>2. CASE ~ReleaseDue
    BY <1>2, <2>2 DEF Update, ReleaseIfDue, ReleaseDue, pulseVars
  <2> QED BY <2>1, <2>2
<1>3. ASSUME NEW c \in Commands, Send(c) PROVE Timed'
  BY <1>3 DEF Send, SendPacket, Plus, BeforeRollover
<1>4. CASE UNCHANGED vars
  BY <1>4 DEF vars, pulseVars
<1> QED BY <1>1, <1>2, <1>3, <1>4 DEF Next

LEMMA TimedAlways == ASSUME BeforeRollover PROVE Spec => []Timed
<1>1. Init => Timed
  BY TimedInit
<1>2. TypeOK /\ Timed /\ [Next]_vars => Timed'
  BY TimedStep
<1> QED BY <1>1, <1>2, TypeCorrect, PTL DEF Spec

(***************************************************************************)
(* Before a rollover, and for any loop time MaxGap, no coil is on for      *)
(* PulseMs + MaxGap milliseconds.                                          *)
(***************************************************************************)
THEOREM CoilTimeBounded == ASSUME BeforeRollover PROVE Spec => []PulseBounded
<1>1. TypeOK /\ Timed => PulseBounded
  BY PulsingAssumption DEF TypeOK, Timed, PulseBounded, Ages
<1> QED BY <1>1, TypeCorrect, TimedAlways, PTL

(***************************************************************************)
(* Before a rollover the transport implements CoilPulse: every step is one *)
(* of its steps or changes nothing a layout can see.                       *)
(***************************************************************************)
THEOREM KeepsCoilPulse ==
    ASSUME BeforeRollover PROVE Spec => ImplementsCoilPulse
<1>1. Init => Pulse!Init
  BY DEF Init, Pulse!Init
<1>2. /\ TypeOK /\ OnlyPendingOutput /\ Timed
      /\ TypeOK' /\ Timed'
      /\ [Next]_vars
      => [Pulse!Next]_(Pulse!vars)
  <2> SUFFICES ASSUME TypeOK, OnlyPendingOutput, Timed, TypeOK', Timed', [Next]_vars
               PROVE  [Pulse!Next]_(Pulse!vars)
    OBVIOUS
  <2> USE PulsingAssumption, WrapAssumption DEF Pulse!vars, Stamps, Ages
  <2>1. CASE Tick
    <3>1. CASE releasePending
      <4>1. onFor' = onFor + 1 /\ outputs' = outputs
        BY <2>1, <3>1 DEF Tick, Older, pulseVars, TypeOK, Timed
      <4>2. onFor' < PulseMs + MaxGap
        <5>1. releasePending'
          BY <2>1, <3>1 DEF Tick, pulseVars
        <5>2. onFor' < PulseMs + sincePoll'
          BY <5>1, Zenon DEF Timed
        <5>3. onFor' \in Nat /\ sincePoll' \in Nat /\ sincePoll' <= MaxGap
          BY DEF TypeOK
        <5> QED BY <5>2, <5>3, LessByTheGap
      <4>3. outputs # {}
        BY <3>1 DEF OnlyPendingOutput
      <4> QED BY <4>1, <4>2, <4>3 DEF Pulse!Next, Pulse!Tick
    <3>2. CASE ~releasePending
      BY <2>1, <3>2 DEF Tick, pulseVars
    <3> QED BY <3>1, <3>2
  <2>2. CASE Update
    <3>1. CASE ReleaseDue
      <4>1. onFor >= PulseMs
        BY <3>1 DEF ReleaseDue, Timed, TypeOK
      <4>2. outputs # {} /\ outputs' = {} /\ onFor' = 0
        BY <2>2, <3>1
        DEF Update, ReleaseIfDue, ReleaseDue, Released, OnlyPendingOutput
      <4> QED BY <4>1, <4>2 DEF Pulse!Next, Pulse!Release
    <3>2. CASE ~ReleaseDue
      BY <2>2, <3>2 DEF Update, ReleaseIfDue, pulseVars
    <3> QED BY <3>1, <3>2
  <2>3. ASSUME NEW c \in Commands, Send(c)
        PROVE  [Pulse!Next]_(Pulse!vars)
    <3>1. outputs' = {c} /\ onFor' = 0
      BY <2>3 DEF Send, SendPacket, Released, OnlyPendingOutput
    <3> QED BY <3>1 DEF Pulse!Next, Pulse!Energise
  <2>4. CASE UNCHANGED vars
    BY <2>4 DEF vars, pulseVars
  <2> QED BY <2>1, <2>2, <2>3, <2>4 DEF Next
<1> QED
  BY <1>1, <1>2, TypeCorrect, OneCoil, TimedAlways, PTL
  DEF Spec, ImplementsCoilPulse, Pulse!Spec
===============================================================================
