------------------------- MODULE RouteExecutionProofs -------------------------
(***************************************************************************)
(* What a route button promises, proved for every set of routes, every     *)
(* spacing longer than a pulse and every width of the clock: the commands  *)
(* of a route go out in order and on time, and cut off no pulse of their   *)
(* own.  The invariant ties the service's stamp to true time (OnTime) and  *)
(* the age of a route's pulse to the age of its last command (PulseAge).   *)
(***************************************************************************)
EXTENDS RouteExecution, SequenceTheorems, TLAPS

\* The next command is due SpacingMs after the last one, and update() has
\* looked since: time has gone no further than the pass that runs.
OnTime ==
    active # <<>> =>
        /\ Minus(now, lastSend) = sinceSend
        /\ sinceSend < SpacingMs + sinceRun

\* A pulse begun by a route is as old as the route's last command.
PulseAge ==
    active # <<>> /\ byRoute /\ releasePending => sinceSend <= onFor

RouteInv == TypeOK /\ OnTime /\ PulseAge

(***************************************************************************)
(* The arithmetic of the wrapping clock.                                   *)
(***************************************************************************)
LEMMA StampArithmetic ==
    ASSUME NEW a \in Stamps
    PROVE  /\ NextStamp(a) \in Stamps
           /\ \A d \in Stamps : Plus(a, d) \in Stamps
           /\ Minus(a, a) = 0
BY WrapAssumption DEF Stamps, NextStamp, Plus, Minus

LEMMA ElapsedTicks ==
    ASSUME NEW a \in Stamps, NEW b \in Stamps, Minus(a, b) + 1 < Wrap
    PROVE  Minus(NextStamp(a), b) = Minus(a, b) + 1
BY WrapAssumption DEF Stamps, NextStamp, Plus, Minus

LEMMA OlderAges ==
    ASSUME NEW age \in Ages
    PROVE  /\ Older(age) \in Ages
           /\ age < Wrap => Older(age) = age + 1
           /\ \A other \in Ages : age <= other => Older(age) <= Older(other)
BY WrapAssumption DEF Ages, Older

\* The numbers of the configuration, with the static_assert of main.cpp.
LEMMA Durations ==
    /\ PulseMs \in Stamps /\ SpacingMs \in Nat /\ MaxGap \in Nat \ {0}
    /\ PulseMs < SpacingMs /\ SpacingMs + MaxGap < Wrap /\ Wrap \in Nat
    /\ PulseMs \in Nat /\ 0 < SpacingMs
    /\ 0 \in Stamps /\ 0 \in Ages /\ 0 \in 0 .. MaxGap
BY RouteAssumption, WrapAssumption DEF Stamps, Ages

LEMMA RouteCommands ==
    ASSUME NEW r \in Routes
    PROVE  /\ r \in Seq(Commands) /\ Len(r) \in Nat
           /\ \A i \in 1 .. Len(r) : r[i] \in Commands
           /\ r # <<>> => 1 \in 1 .. Len(r)
BY RouteAssumption

\* The transport's commands and clock are the service's.
LEMMA SameCommands == Transport!Commands = Commands
BY DEF Transport!Commands, Transport!Positions, Commands

LEMMA SameClock ==
    /\ Transport!Stamps = Stamps /\ Transport!Ages = Ages
    /\ \A a, d : Transport!Plus(a, d) = Plus(a, d)
    /\ \A a : Transport!NextStamp(a) = NextStamp(a) /\ Transport!Older(a) = Older(a)
BY DEF Transport!Stamps, Transport!Ages, Transport!Plus, Transport!NextStamp,
       Transport!Older, Stamps, Ages, Plus, NextStamp, Older

-------------------------------------------------------------------------------
(***************************************************************************)
(* Types.                                                                  *)
(***************************************************************************)
LEMMA SendTypes ==
    ASSUME Transport!TypeOK, NEW c \in Commands, Transport!Send(c)
    PROVE  Transport!TypeOK' /\ now' = now /\ onFor' = 0
<1>1. releaseAt' \in Stamps
      BY Durations, StampArithmetic, SameClock DEF Transport!Send, Transport!SendPacket, Transport!TypeOK
<1>2. outputs' \in SUBSET Transport!Commands
      BY SameCommands DEF Transport!Send, Transport!SendPacket, Transport!Released, Transport!TypeOK
<1>3. onFor' \in Ages
      BY Durations DEF Transport!Send, Transport!SendPacket
<1> QED BY <1>1, <1>2, <1>3, SameCommands, SameClock DEF Transport!Send, Transport!SendPacket, Transport!TypeOK

\* What sending a command of a route does to service and history.
LEMMA SendCommandTypes ==
    ASSUME TypeOK, NEW r \in Routes, NEW i \in 1 .. Len(r), SendCommand(r, i)
    PROVE  /\ Transport!TypeOK' /\ now' = now /\ onFor' = 0 /\ sinceSend' = 0
           /\ sent' = i /\ lastSent' = <<r[i]>> /\ byRoute' = TRUE
           /\ IF i = Len(r) THEN active' = <<>> ELSE active' = r /\ lastSend' = now
           /\ active' \in Routes \cup {<<>>}
           /\ active' # <<>> => sent' \in 1 .. Len(active') - 1
           /\ lastSend' \in Stamps
           /\ lastSent' \in {<<c>> : c \in Commands}
<1>1. r[i] \in Commands /\ Len(r) \in Nat
      BY RouteCommands
<1>2. Transport!TypeOK' /\ now' = now /\ onFor' = 0
      BY <1>1, SendTypes DEF SendCommand, TypeOK
<1>3. IF i = Len(r) THEN active' = <<>> /\ lastSend' = lastSend
                    ELSE active' = r /\ lastSend' = now
      BY <1>1 DEF SendCommand
<1>4. sent' = i /\ lastSent' = <<r[i]>> /\ byRoute' = TRUE /\ sinceSend' = 0
      BY DEF SendCommand
<1>5. now \in Stamps /\ lastSend \in Stamps
      BY SameClock DEF TypeOK, Transport!TypeOK
<1>6. active' # <<>> => sent' \in 1 .. Len(active') - 1
      BY <1>1, <1>3, <1>4
<1> QED BY <1>1, <1>2, <1>3, <1>4, <1>5, <1>6

LEMMA InitRouteInv == Init => RouteInv
<1> SUFFICES ASSUME Init PROVE RouteInv
    OBVIOUS
<1>1. Transport!TypeOK
      BY Durations, SameClock DEF Init, Transport!Init, Transport!TypeOK
<1>2. TypeOK
      BY <1>1, Durations DEF Init, TypeOK
<1>3. OnTime /\ PulseAge
      BY DEF Init, OnTime, PulseAge
<1> QED BY <1>2, <1>3 DEF RouteInv

-------------------------------------------------------------------------------
(***************************************************************************)
(* Each action keeps the invariant.                                        *)
(***************************************************************************)
LEMMA SendCommandKeeps ==
    ASSUME RouteInv, NEW r \in Routes, NEW i \in 1 .. Len(r), SendCommand(r, i),
           sinceRun' \in {sinceRun, 0}
    PROVE  RouteInv'
<1>1. TypeOK /\ sinceRun' \in 0 .. MaxGap
      BY Durations DEF RouteInv, TypeOK
<1>2. TypeOK'
  <2>1. sent' \in Nat /\ sinceSend' \in Ages /\ byRoute' \in BOOLEAN
    <3>1. sent' = i /\ sinceSend' = 0 /\ byRoute' = TRUE
          BY <1>1, SendCommandTypes
    <3>2. i \in Nat
          BY RouteCommands
    <3> QED BY <3>1, <3>2, Durations
  <2> QED BY <1>1, <2>1, SendCommandTypes DEF TypeOK
<1>3. OnTime'
  <2> SUFFICES ASSUME active' # <<>>
               PROVE  Minus(now', lastSend') = sinceSend' /\ sinceSend' < SpacingMs + sinceRun'
      BY DEF OnTime
  <2>1. lastSend' = now /\ now' = now /\ sinceSend' = 0 /\ now \in Stamps
        BY <1>1, SendCommandTypes, SameClock DEF TypeOK, Transport!TypeOK
  <2>2. Minus(now, now) = 0
        BY <2>1, StampArithmetic
  <2>3. 0 < SpacingMs + sinceRun'
    <3>1. sinceRun' \in Nat
          BY <1>1, Durations
    <3>2. \A n \in Nat : 0 < SpacingMs + n
          BY Durations
    <3> QED BY <3>1, <3>2, Zenon
  <2> QED BY <2>1, <2>2, <2>3
<1>4. PulseAge'
      BY <1>1, SendCommandTypes DEF PulseAge
<1> QED BY <1>2, <1>3, <1>4 DEF RouteInv

LEMMA StartKeeps ==
    ASSUME RouteInv, NEW r \in Routes, Start(r)
    PROVE  RouteInv'
<1>1. CASE r = <<>>
  <2>1. active' = <<>> /\ sinceSend' = 0
        BY <1>1 DEF Start
  <2>2. TypeOK'
        BY <1>1, <2>1, Durations
        DEF Start, RouteInv, TypeOK, Transport!TypeOK, transportVars
  <2> QED BY <2>1, <2>2 DEF RouteInv, OnTime, PulseAge
<1>2. CASE r # <<>>
      BY <1>2, SendCommandKeeps, RouteCommands DEF Start
<1> QED BY <1>1, <1>2

\* update() sends the next command, if it is due, or does nothing: a route
\* in progress always has one left.
LEMMA RunSends ==
    ASSUME TypeOK, Run
    PROVE  /\ sinceRun' = 0
           /\ \/ /\ active # <<>> /\ active \in Routes /\ SpacingElapsed
                 /\ sent + 1 \in 1 .. Len(active)
                 /\ SendCommand(active, sent + 1)
              \/ /\ active # <<>> => ~SpacingElapsed
                 /\ UNCHANGED <<transportVars, historyVars, serviceVars>>
<1>1. active # <<>> =>
         /\ active \in Routes /\ sent + 1 \in 1 .. Len(active)
         /\ ~(sent >= Len(active))
      BY RouteCommands DEF TypeOK
<1> QED BY <1>1, Zenon DEF Run

LEMMA RunKeeps == RouteInv /\ Run => RouteInv'
<1> SUFFICES ASSUME RouteInv, Run PROVE RouteInv'
    OBVIOUS
<1>1. TypeOK
      BY DEF RouteInv
<1>2. CASE /\ active # <<>> /\ active \in Routes
           /\ sent + 1 \in 1 .. Len(active) /\ SendCommand(active, sent + 1)
      BY <1>1, <1>2, RunSends, SendCommandKeeps
<1>3. CASE /\ active # <<>> => ~SpacingElapsed
           /\ UNCHANGED <<transportVars, historyVars, serviceVars>>
  <2>1. sinceRun' = 0 /\ 0 \in 0 .. MaxGap
        BY <1>1, RunSends, Durations
  <2>2. TypeOK'
        BY <1>1, <1>3, <2>1
        DEF TypeOK, Transport!TypeOK, transportVars, historyVars, serviceVars
  <2>3. active # <<>> => sinceSend < SpacingMs
        BY <1>1, <1>3, Durations DEF RouteInv, OnTime, SpacingElapsed, TypeOK, Ages
  <2>4. OnTime'
        BY <1>3, <2>1, <2>3, Durations
        DEF RouteInv, OnTime, transportVars, historyVars, serviceVars
  <2>5. PulseAge'
        BY <1>3 DEF RouteInv, PulseAge, transportVars, historyVars, serviceVars
  <2> QED BY <2>2, <2>4, <2>5 DEF RouteInv
<1> QED BY <1>1, <1>2, <1>3, RunSends

LEMMA StationSendKeeps ==
    ASSUME RouteInv, NEW c \in Commands, StationSend(c)
    PROVE  RouteInv'
<1>1. Transport!TypeOK' /\ now' = now
      BY SendTypes DEF StationSend, RouteInv, TypeOK
<1>2. ~byRoute' /\ byRoute' \in BOOLEAN
      BY DEF StationSend
<1>3. TypeOK'
      BY <1>1, <1>2 DEF StationSend, RouteInv, TypeOK, serviceVars
<1>4. OnTime' /\ PulseAge'
      BY <1>1, <1>2 DEF StationSend, RouteInv, OnTime, PulseAge, serviceVars
<1> QED BY <1>3, <1>4 DEF RouteInv

LEMMA TransportUpdateKeeps == RouteInv /\ TransportUpdate => RouteInv'
<1> SUFFICES ASSUME RouteInv, TransportUpdate PROVE RouteInv'
    OBVIOUS
<1>1. /\ now' = now /\ sincePoll' = 0
      /\ UNCHANGED <<pendingSwitch, releaseAt>>
      /\ \/ releasePending' = releasePending /\ onFor' = onFor
         \/ releasePending' = FALSE /\ onFor' = 0
      BY Zenon
      DEF TransportUpdate, Transport!Update, Transport!ReleaseIfDue, Transport!pulseVars
<1>2. outputs' \in SUBSET Transport!Commands
      BY DEF TransportUpdate, Transport!Update, Transport!ReleaseIfDue,
             Transport!Released, Transport!pulseVars, RouteInv, TypeOK, Transport!TypeOK
<1>3. Transport!TypeOK'
      BY <1>1, <1>2, Durations, SameClock DEF RouteInv, TypeOK, Transport!TypeOK
<1>4. TypeOK'
      BY <1>3 DEF TransportUpdate, RouteInv, TypeOK, serviceVars, historyVars
<1>5. OnTime' /\ PulseAge'
      BY <1>1 DEF TransportUpdate, RouteInv, OnTime, PulseAge, serviceVars, historyVars
<1> QED BY <1>4, <1>5 DEF RouteInv

LEMMA TickKeeps == RouteInv /\ Tick => RouteInv'
<1> SUFFICES ASSUME RouteInv, Tick PROVE RouteInv'
    OBVIOUS
<1>1. /\ now \in Stamps /\ lastSend \in Stamps /\ sinceSend \in Ages /\ onFor \in Ages
      /\ sinceRun \in 0 .. MaxGap /\ sincePoll \in 0 .. MaxGap
      BY SameClock DEF RouteInv, TypeOK, Transport!TypeOK
<1>2. /\ now' = NextStamp(now)
      /\ onFor' = IF releasePending THEN Older(onFor) ELSE onFor
      /\ sincePoll' = sincePoll + 1 /\ sincePoll < MaxGap
      /\ UNCHANGED <<releasePending, pendingSwitch, releaseAt, outputs>>
      BY SameClock DEF Tick, Transport!Tick, Transport!pulseVars
<1>3. /\ sinceRun < MaxGap /\ sinceRun' = sinceRun + 1
      /\ sinceSend' = IF active # <<>> THEN Older(sinceSend) ELSE sinceSend
      /\ UNCHANGED <<active, sent, lastSend, lastSent, byRoute>>
      BY DEF Tick, serviceVars
<1>4. Transport!TypeOK'
  <2>1. now' \in Stamps /\ onFor' \in Ages /\ sincePoll' \in 0 .. MaxGap
        BY <1>1, <1>2, StampArithmetic, OlderAges, Durations
  <2> QED BY <1>2, <2>1, SameClock DEF RouteInv, TypeOK, Transport!TypeOK
<1>5. TypeOK'
  <2>1. sinceSend' \in Ages /\ sinceRun' \in 0 .. MaxGap
        BY <1>1, <1>3, OlderAges, Durations
  <2> QED BY <1>3, <1>4, <2>1 DEF RouteInv, TypeOK
<1>6. OnTime'
  <2> SUFFICES ASSUME active # <<>>
               PROVE  Minus(now', lastSend') = sinceSend' /\ sinceSend' < SpacingMs + sinceRun'
      BY <1>3 DEF OnTime
  <2>1. Minus(now, lastSend) = sinceSend /\ sinceSend < SpacingMs + sinceRun
        BY DEF RouteInv, OnTime
  <2>2. sinceSend + 1 < Wrap /\ sinceSend + 1 < SpacingMs + (sinceRun + 1)
        BY <1>1, <1>3, <2>1, Durations DEF Ages
  <2>3. sinceSend' = sinceSend + 1
        BY <1>1, <1>3, <2>2, OlderAges, Durations DEF Ages
  <2>4. Minus(NextStamp(now), lastSend) = sinceSend + 1
        BY <1>1, <2>1, <2>2, ElapsedTicks
  <2> QED BY <1>2, <1>3, <2>2, <2>3, <2>4
<1>7. PulseAge'
      BY <1>1, <1>2, <1>3, OlderAges DEF RouteInv, PulseAge
<1> QED BY <1>5, <1>6, <1>7 DEF RouteInv

LEMMA NextRouteInv == RouteInv /\ [Next]_vars => RouteInv'
<1>1. RouteInv /\ UNCHANGED vars => RouteInv'
  <2> SUFFICES ASSUME RouteInv, UNCHANGED vars PROVE RouteInv'
      OBVIOUS
  <2> QED BY DEF vars, transportVars, serviceVars, historyVars, RouteInv, TypeOK,
                 Transport!TypeOK, OnTime, PulseAge
<1> QED BY <1>1, StartKeeps, RunKeeps, StationSendKeeps, TransportUpdateKeeps, TickKeeps
        DEF Next

LEMMA AlwaysRouteInv == Spec => []RouteInv
<1>1. Init => RouteInv
      BY InitRouteInv
<1>2. RouteInv /\ [Next]_vars => RouteInv'
      BY NextRouteInv
<1> QED BY <1>1, <1>2, PTL DEF Spec

-------------------------------------------------------------------------------
\* The service's variables keep their types; a route in progress has a command
\* left, so that commandAt() is never asked for one past the end.
THEOREM TypeCorrect == Spec => []TypeOK
<1>1. RouteInv => TypeOK
      BY DEF RouteInv
<1> QED BY <1>1, AlwaysRouteInv, PTL

LEMMA InTime ==
    ASSUME RouteInv, active # <<>>
    PROVE  sinceSend < SpacingMs + MaxGap
<1>1. sinceSend \in Nat /\ sinceRun \in 0 .. MaxGap
      BY Durations DEF RouteInv, TypeOK, Ages
<1>2. sinceSend < SpacingMs + sinceRun
      BY DEF RouteInv, OnTime
<1> QED BY <1>1, <1>2, Durations

\* What a send of update() needs of the time since the last one.
LEMMA SpacingIsTrue ==
    ASSUME RouteInv, active # <<>>, SpacingElapsed
    PROVE  sinceSend >= SpacingMs
BY DEF RouteInv, OnTime, SpacingElapsed

\* update() sends a command never sooner than the spacing after the last one,
\* and never later than a pass after it is due, across rollovers too.
THEOREM RoutesOnTime == Spec => RouteOnTime
<1> DEFINE Timely == /\ Run /\ sent' # sent => sinceSend >= SpacingMs
                     /\ active # <<>> => sinceSend < SpacingMs + MaxGap
<1>1. ASSUME RouteInv PROVE [Timely]_vars
  <2>1. Run /\ sent' # sent => sinceSend >= SpacingMs
    <3> SUFFICES ASSUME Run, sent' # sent PROVE sinceSend >= SpacingMs
        OBVIOUS
    <3>1. active # <<>> /\ SpacingElapsed
          BY DEF Run, serviceVars
    <3> QED BY <1>1, <3>1, SpacingIsTrue
  <2>2. active # <<>> => sinceSend < SpacingMs + MaxGap
        BY <1>1, InTime
  <2> QED BY <2>1, <2>2
<1> QED BY <1>1, AlwaysRouteInv, PTL DEF RouteOnTime, Timely

\* The static_assert of main.cpp is enough: a route never cuts off a pulse of
\* its own that had not its full length.
THEOREM PulsesAreWhole == Spec => RoutePulsesWhole
<1> DEFINE Whole == Run /\ byRoute /\ releasePending /\ outputs' # outputs
                        => onFor >= PulseMs
<1>1. ASSUME RouteInv PROVE [Whole]_vars
  <2> SUFFICES ASSUME Run, byRoute, releasePending, outputs' # outputs
               PROVE  onFor >= PulseMs
      OBVIOUS
  <2>1. active # <<>> /\ SpacingElapsed
        BY <1>1, RunSends DEF RouteInv, transportVars
  <2>2. sinceSend >= SpacingMs /\ sinceSend <= onFor
        BY <1>1, <2>1, SpacingIsTrue DEF RouteInv, PulseAge
  <2>3. sinceSend \in Nat /\ onFor \in Nat
        BY <1>1, Durations, SameClock DEF RouteInv, TypeOK, Transport!TypeOK, Ages
  <2> QED BY <2>2, <2>3, Durations
<1> QED BY <1>1, AlwaysRouteInv, PTL DEF RoutePulsesWhole, Whole

-------------------------------------------------------------------------------
(***************************************************************************)
(* The service implements RouteRun: what is still to be sent is the rest   *)
(* of the active route from its next command on.                           *)
(***************************************************************************)
LEMMA RestOfRoute ==
    ASSUME NEW r \in Routes, NEW i \in 1 .. Len(r)
    PROVE  /\ SubSeq(r, i, Len(r)) # <<>>
           /\ Head(SubSeq(r, i, Len(r))) = r[i]
           /\ Tail(SubSeq(r, i, Len(r))) = SubSeq(r, i + 1, Len(r))
           /\ i = Len(r) => Tail(SubSeq(r, i, Len(r))) = <<>>
<1>1. r \in Seq(Commands) /\ Len(r) \in Nat /\ i \in Int /\ Len(r) \in i .. Len(r)
      BY RouteCommands
<1>2. \A j \in i .. Len(r) : r[j] \in Commands
      BY <1>1, RouteCommands
<1>3. Len(SubSeq(r, i, Len(r))) = Len(r) - i + 1
      BY <1>1, <1>2, SubSeqProperties
<1>4. /\ Head(SubSeq(r, i, Len(r))) = r[i]
      /\ Tail(SubSeq(r, i, Len(r))) = SubSeq(r, i + 1, Len(r))
      BY <1>1, HeadTailOfSubSeq
<1>5. i = Len(r) => SubSeq(r, i + 1, Len(r)) = <<>>
      BY <1>1, SubSeqEmpty
<1>6. SubSeq(r, i, Len(r)) # <<>>
  <2>1. Len(r) - i + 1 # 0
        BY <1>1
  <2> QED BY <1>3, <2>1
<1> QED BY <1>4, <1>5, <1>6

\* Sending command i of r is sending the first of what is left of r.
LEMMA SendsFirst ==
    ASSUME TypeOK, NEW r \in Routes, NEW i \in 1 .. Len(r), SendCommand(r, i)
    PROVE  RunOf!SendFirstOf(SubSeq(r, i, Len(r)))
<1>1. lastSent' = <<r[i]>> /\ sinceSend' = 0 /\ sent' = i
      BY SendCommandTypes
<1>2. Todo' = Tail(SubSeq(r, i, Len(r)))
  <2>1. CASE i = Len(r)
    <3>1. active' = <<>>
          BY <2>1, SendCommandTypes
    <3> QED BY <2>1, <3>1, RestOfRoute DEF Todo
  <2>2. CASE i # Len(r)
    <3>1. active' = r
          BY <2>2, SendCommandTypes
    <3>2. r # <<>>
          OBVIOUS
    <3> QED BY <3>1, <3>2, <1>1, RestOfRoute DEF Todo
  <2> QED BY <2>1, <2>2
<1> QED BY <1>1, <1>2, RestOfRoute DEF RunOf!SendFirstOf

LEMMA StartIsStart ==
    ASSUME TypeOK, NEW r \in Routes, Start(r)
    PROVE  RunOf!Start(r)
<1>1. CASE r = <<>>
      BY <1>1 DEF Start, RunOf!Start, Todo
<1>2. CASE r # <<>>
  <2>1. SubSeq(r, 1, Len(r)) = r
        BY RouteCommands, SubSeqFull
  <2>2. 1 \in 1 .. Len(r) /\ SendCommand(r, 1)
        BY <1>2, RouteCommands DEF Start
  <2> QED BY <1>2, <2>1, <2>2, SendsFirst DEF RunOf!Start
<1> QED BY <1>1, <1>2

LEMMA RunIsStep ==
    ASSUME RouteInv, Run
    PROVE  RunOf!Step \/ UNCHANGED RunOf!vars
<1>1. TypeOK
      BY DEF RouteInv
<1>2. CASE /\ active # <<>> /\ active \in Routes /\ SpacingElapsed
           /\ sent + 1 \in 1 .. Len(active) /\ SendCommand(active, sent + 1)
  <2>1. Todo = SubSeq(active, sent + 1, Len(active))
        BY <1>2 DEF Todo
  <2>2. RunOf!SendFirstOf(Todo) /\ Todo # <<>>
        BY <1>1, <1>2, <2>1, SendsFirst, RestOfRoute
  <2>3. sinceSend >= SpacingMs
        BY <1>2, SpacingIsTrue
  <2> QED BY <2>2, <2>3 DEF RunOf!Step
<1>3. CASE UNCHANGED <<transportVars, historyVars, serviceVars>>
      BY <1>3 DEF historyVars, serviceVars, RunOf!vars, Todo
<1> QED BY <1>1, <1>2, <1>3, RunSends

LEMMA TickIsTick ==
    ASSUME RouteInv, Tick
    PROVE  RunOf!Tick \/ UNCHANGED RunOf!vars
<1>1. UNCHANGED <<active, sent, lastSent>> /\ Todo' = Todo
      BY DEF Tick, serviceVars, Todo
<1>2. CASE active = <<>>
      BY <1>1, <1>2 DEF Tick, RunOf!vars
<1>3. CASE active # <<>>
  <2>1. active \in Routes /\ sent + 1 \in 1 .. Len(active)
        BY <1>3, RouteCommands DEF RouteInv, TypeOK
  <2>2. Todo # <<>>
        BY <1>3, <2>1, RestOfRoute DEF Todo
  <2>3. /\ sinceSend \in Ages /\ sinceRun \in Nat /\ sinceRun < MaxGap
        /\ sinceSend < SpacingMs + sinceRun
        BY <1>3, Durations DEF RouteInv, TypeOK, OnTime, Tick
  <2>4. sinceSend' = sinceSend + 1
        BY <1>3, <2>3, OlderAges, Durations DEF Tick, Ages
  <2>5. sinceSend + 1 < SpacingMs + MaxGap
        BY <2>3, Durations DEF Ages
  <2> QED BY <1>1, <2>2, <2>4, <2>5 DEF RunOf!Tick
<1> QED BY <1>2, <1>3

\* Every step of the service is one of RouteRun, or a stutter: the commands of
\* the route in order, each once, with the spacing between them.
THEOREM KeepsRouteRun == Spec => ImplementsRouteRun
<1>1. Init => RunOf!Init
      BY DEF Init, RunOf!Init, Todo
<1>2. RouteInv /\ [Next]_vars => [RunOf!Next]_RunOf!vars
  <2> SUFFICES ASSUME RouteInv, [Next]_vars
               PROVE  RunOf!Next \/ UNCHANGED RunOf!vars
      OBVIOUS
  <2>1. CASE Tick
        BY <2>1, TickIsTick DEF RunOf!Next
  <2>2. CASE Run
        BY <2>2, RunIsStep DEF RunOf!Next
  <2>3. ASSUME NEW r \in Routes, Start(r) PROVE RunOf!Next
        BY <2>3, StartIsStart DEF RouteInv, RunOf!Next
  <2>4. CASE TransportUpdate
        BY <2>4 DEF TransportUpdate, serviceVars, historyVars, RunOf!vars, Todo
  <2>5. ASSUME NEW c \in Commands, StationSend(c) PROVE UNCHANGED RunOf!vars
        BY <2>5 DEF StationSend, serviceVars, RunOf!vars, Todo
  <2>6. CASE UNCHANGED vars
        BY <2>6 DEF vars, serviceVars, historyVars, RunOf!vars, Todo
  <2> QED BY <2>1, <2>2, <2>3, <2>4, <2>5, <2>6 DEF Next
<1> QED BY <1>1, <1>2, AlwaysRouteInv, PTL DEF Spec, ImplementsRouteRun, RunOf!Spec
================================================================================
