---------------------------- MODULE RouteExecution ----------------------------
(***************************************************************************)
(* RouteExecutionService over PulsingLocoNetTransport: a route button      *)
(* starts a route, whose commands go out one by one, SpacingMs apart, from *)
(* update().  The four stations send commands of their own through the     *)
(* same transport at any time.                                             *)
(*                                                                         *)
(* loop() calls the handlers one after the other; here they are called in  *)
(* any order, which includes that one.  The service compares an elapsed    *)
(* time, now - lastSend, and so is meant to survive a clock rollover,      *)
(* unlike the transport below it.                                          *)
(***************************************************************************)
EXTENDS Millis, Sequences

CONSTANTS
    Addresses, PulseMs, MaxGap, LastTick,   \* see PulsingTransport
    Routes,         \* the routes the buttons start, as sequences of commands
    SpacingMs       \* ROUTE_COMMAND_SPACING_MS

Commands == Addresses \X {"Thrown", "Closed"}

\* The second conjunct is the static_assert of main.cpp.
ASSUME RouteAssumption ==
    /\ Routes \subseteq Seq(Commands)
    /\ PulseMs \in Nat /\ SpacingMs \in Nat /\ SpacingMs > PulseMs
    /\ MaxGap \in Nat \ {0} /\ SpacingMs + MaxGap < Wrap

VARIABLES
    now, releasePending, pendingSwitch, releaseAt, outputs, onFor, sincePoll,
    active,     \* *activeRoute_, <<>> for nullptr
    sent,       \* nextCommandIndex_: how many of its commands were sent
    lastSend,   \* lastSendAtMs_
    lastSent,   \* history: <<the last command a route sent>>, or <<>>
    sinceSend,  \* history: true milliseconds since then, while a run goes on
    byRoute,    \* history: that command is the transport's pending one
    sinceRun    \* history: true milliseconds since the last update()

transportVars ==
    <<now, releasePending, pendingSwitch, releaseAt, outputs, onFor, sincePoll>>
serviceVars == <<active, sent, lastSend>>
historyVars == <<lastSent, sinceSend, byRoute>>
vars == <<transportVars, serviceVars, historyVars, sinceRun>>

Transport == INSTANCE PulsingTransport

TypeOK ==
    /\ Transport!TypeOK
    /\ active \in Routes \cup {<<>>}
    /\ sent \in Nat
    /\ active # <<>> => sent \in 1 .. Len(active) - 1  \* one is left to send
    /\ lastSend \in Stamps
    /\ lastSent \in {<<>>} \cup {<<c>> : c \in Commands}
    /\ sinceSend \in Ages
    /\ byRoute \in BOOLEAN
    /\ sinceRun \in 0 .. MaxGap

Init ==
    /\ Transport!Init
    /\ active = <<>>
    /\ sent = 0
    /\ lastSend = 0
    /\ lastSent = <<>>
    /\ sinceSend = 0
    /\ byRoute = FALSE
    /\ sinceRun = 0
------------------------------------------------------------------------------
\* Slips in SendCommand: the end of the route is noticed one command late, ...
SendCommandTooFar(r, i) ==
    /\ Transport!Send(r[i])
    /\ sent' = i
    /\ lastSent' = <<r[i]>>
    /\ byRoute' = TRUE
    /\ sinceSend' = 0
    /\ IF i > Len(r) THEN active' = <<>> /\ UNCHANGED lastSend
                     ELSE active' = r /\ lastSend' = now
\* ... one command early, ...
SendCommandTooShort(r, i) ==
    /\ Transport!Send(r[i])
    /\ sent' = i
    /\ lastSent' = <<r[i]>>
    /\ byRoute' = TRUE
    /\ sinceSend' = 0
    /\ IF i + 1 >= Len(r) THEN active' = <<>> /\ UNCHANGED lastSend
                          ELSE active' = r /\ lastSend' = now
\* ... or the time of the send is not noted.
SendCommandUntimed(r, i) ==
    /\ Transport!Send(r[i])
    /\ sent' = i
    /\ lastSent' = <<r[i]>>
    /\ byRoute' = TRUE
    /\ sinceSend' = 0
    /\ active' = IF i >= Len(r) THEN <<>> ELSE r
    /\ UNCHANGED lastSend

\* The tail of start() and of update(): send command i of r, note that it was
\* sent, and forget the route after its last one.
SendCommand(r, i) ==
    /\ Transport!Send(r[i])
    /\ sent' = i
    /\ lastSent' = <<r[i]>>
    /\ byRoute' = TRUE
    /\ sinceSend' = 0
    /\ IF i >= Len(r) THEN active' = <<>> /\ UNCHANGED lastSend
                      ELSE active' = r /\ lastSend' = now

\* start(): a route in progress is dropped, also by an empty one.
Start(r) ==
    /\ IF r = <<>>
       THEN /\ active' = <<>>
            /\ sinceSend' = 0
            /\ UNCHANGED <<transportVars, sent, lastSend, lastSent, byRoute>>
       ELSE SendCommand(r, 1)
    /\ UNCHANGED sinceRun

\* Slip: absolute times are compared, as the transport does.
SpacingElapsedAbsolute == now >= Plus(lastSend, SpacingMs)

SpacingElapsed == Minus(now, lastSend) >= SpacingMs

\* update()
Run ==
    /\ IF active # <<>> /\ sent >= Len(active)
       THEN active' = <<>> /\ UNCHANGED <<transportVars, historyVars, sent, lastSend>>
       ELSE IF active # <<>> /\ SpacingElapsed
            THEN SendCommand(active, sent + 1)
            ELSE UNCHANGED <<transportVars, historyVars, serviceVars>>
    /\ sinceRun' = 0

\* A station's throw or close button, through the same transport.
StationSend(c) ==
    /\ Transport!Send(c)
    /\ byRoute' = FALSE
    /\ UNCHANGED <<serviceVars, lastSent, sinceSend, sinceRun>>

TransportUpdate ==
    /\ Transport!Update
    /\ UNCHANGED <<serviceVars, historyVars, sinceRun>>

Tick ==
    /\ Transport!Tick
    /\ sinceRun < MaxGap
    /\ sinceRun' = sinceRun + 1
    /\ sinceSend' = IF active # <<>> THEN Older(sinceSend) ELSE sinceSend
    /\ UNCHANGED <<serviceVars, lastSent, byRoute>>

Next ==
    \/ Tick
    \/ TransportUpdate
    \/ Run
    \/ \E r \in Routes : Start(r)
    \/ \E c \in Commands : StationSend(c)

\* loop() never ends and never stops the clock.
Spec ==
    /\ Init /\ [][Next]_vars
    /\ WF_vars(Tick) /\ WF_vars(TransportUpdate) /\ WF_vars(Run)
------------------------------------------------------------------------------
(***************************************************************************)
(* The service cuts a pulse of a route short only if that pulse had its    *)
(* full length: what the static_assert SpacingMs > PulseMs is for.  Besides,  *)
(* buttons (StationSend, Start) may cut one short, and across a rollover   *)
(* so may the transport's own Update.                                      *)
(***************************************************************************)
RoutePulsesWhole ==
    [][Run /\ byRoute /\ releasePending /\ outputs' # outputs
          => onFor >= PulseMs]_vars

(***************************************************************************)
(* Across rollovers, and by true time: update() sends no command of a run  *)
(* sooner than SpacingMs after the one before it, and none is overdue by   *)
(* more than one pass of loop().                                           *)
(***************************************************************************)
RouteOnTime ==
    [][ /\ Run /\ sent' # sent => sinceSend >= SpacingMs
        /\ active # <<>> => sinceSend < SpacingMs + MaxGap ]_vars

(***************************************************************************)
(* A route runs to its end unless route buttons keep being pressed.        *)
(***************************************************************************)
RoutesEnd ==
    []<>(active = <<>>) \/ []<><<\E r \in Routes : Start(r)>>_vars

(***************************************************************************)
(* Every command of the route once, in order, with the spacing: RouteRun.  *)
(***************************************************************************)
Todo == IF active = <<>> THEN <<>> ELSE SubSeq(active, sent + 1, Len(active))
RunOf == INSTANCE RouteRun WITH
            todo <- Todo, Spacing <- SpacingMs, Slack <- MaxGap
ImplementsRouteRun == RunOf!Spec
===============================================================================
