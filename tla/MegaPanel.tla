------------------------------- MODULE MegaPanel -------------------------------
(***************************************************************************)
(* The loop() of the Mega with the railway around it: stations, transport, *)
(* feedback and routes take their turns in the order of main.cpp, button   *)
(* presses arrive at any of them, turnouts move while their coil is on,    *)
(* other throttles move them too, and reports of what moved come back      *)
(* through the LocoNet receive buffer, one per pass.                       *)
(*                                                                         *)
(* There is no clock here, as the transport and the routes look at nothing *)
(* but time: a coil may be released at any transport turn, also before the *)
(* points have moved (after a rollover of the clock the transport does     *)
(* that), and the next command of a route is due when the spacing has gone *)
(* by.  The one thing asked of the layout is that points get there within  *)
(* a pulse, which is shorter than the spacing (static_assert of main.cpp). *)
(***************************************************************************)
EXTENDS Naturals, Sequences, FiniteSets

CONSTANTS
    StationAddress, \* the address each station was built with
    RouteOfButton,  \* the two routes, as sequences of <<address, position>>
    BufferSize      \* reports the LocoNet receive buffer holds

Stations == DOMAIN StationAddress
Positions == {"Thrown", "Closed"}
CommandsOf(route) == {route[i] : i \in DOMAIN route}
Addresses == {StationAddress[s] : s \in Stations}
             \cup UNION {{c[1] : c \in CommandsOf(RouteOfButton[b])} : b \in DOMAIN RouteOfButton}
Commands == Addresses \X Positions

\* Stations on distinct addresses: MegaCommissioningProofs!StationsAreValid.
\* A route never names an address twice: Route::addTurnout refuses that.
\* Those of main.cpp are not empty.
ASSUME PanelAssumption ==
    /\ StationAddress \in Seq(Nat) /\ RouteOfButton \in Seq(Seq(Nat \X Positions))
    /\ \A s, t \in Stations : StationAddress[s] = StationAddress[t] => s = t
    /\ \A b \in DOMAIN RouteOfButton : RouteOfButton[b] # <<>>
    /\ \A b \in DOMAIN RouteOfButton : \A i, j \in DOMAIN RouteOfButton[b] :
          RouteOfButton[b][i][1] = RouteOfButton[b][j][1] => i = j
    /\ BufferSize \in Nat \ {0}

VARIABLES
    turn,       \* the handler of loop() that runs next, an index of Turns
    coil,       \* the command whose output is on, as {command}, or {}
    moved,      \* its turnout has reached the position
    byRoute,    \* history: it was sent by a route
    todo,       \* commands the running route has still to send
    spaced,     \* the spacing since its last command has gone by
    led,        \* what each station's pair of LEDs shows
    position,   \* where each turnout lies
    buffer,     \* reports on their way to the Mega: <<address, outputs>>
    missed,     \* history: addresses whose last report found no room
    route,      \* history: the route started last
    disturbed   \* history: turnouts others commanded since then, or whose coil
                \* a button or the transport switched off before they moved

pulse == <<coil, moved, byRoute>>
panel == <<turn, pulse, todo, spaced, led>>
layout == <<position, buffer, missed>>
vars == <<panel, layout, route, disturbed>>

\* One pass of loop(): every station's two buttons, then the rest.
Turns ==
    [k \in 1 .. 2 * Len(StationAddress) |->
        <<IF k % 2 = 1 THEN "throw" ELSE "close", (k + 1) \div 2>>]
    \o <<<<"transport", 0>>, <<"feedback", 0>>>>
    \o [b \in 1 .. Len(RouteOfButton) |-> <<"route", b>>]
    \o <<<<"run", 0>>>>

\* Both outputs off or both on say nothing about the position.
Outputs == Positions \cup {"unclear"}

TypeOK ==
    /\ turn \in DOMAIN Turns
    /\ coil \in {{}} \cup {{c} : c \in Commands}
    /\ moved \in BOOLEAN
    /\ byRoute \in BOOLEAN
    /\ todo \in Seq(Commands)
    /\ spaced \in BOOLEAN
    /\ led \in [Stations -> Positions \cup {"dark"}]
    /\ position \in [Addresses -> Positions]
    /\ buffer \in Seq(Addresses \X Outputs) /\ Len(buffer) <= BufferSize
    /\ missed \subseteq Addresses
    /\ route \in {<<>>} \cup {RouteOfButton[b] : b \in DOMAIN RouteOfButton}
    /\ disturbed \subseteq Addresses

\* The layout may lie any way; the panel asks nobody and starts dark.
Init ==
    /\ turn = 1
    /\ coil = {}
    /\ moved = FALSE
    /\ byRoute = FALSE
    /\ todo = <<>>
    /\ spaced = FALSE
    /\ led = [s \in Stations |-> "dark"]
    /\ position \in [Addresses -> Positions]
    /\ buffer = <<>>
    /\ missed = {}
    /\ route = <<>>
    /\ disturbed = {}
--------------------------------------------------------------------------------
Running(name) == Turns[turn][1] = name
Which == Turns[turn][2]
EndTurn == turn' = IF turn = Len(Turns) THEN 1 ELSE turn + 1

\* The transport: a new command cuts the coil off that is on.
Command(c) == coil' = {c} /\ moved' = FALSE
Unmoved == IF moved THEN {} ELSE {c[1] : c \in coil}

\* Throw first, then close: both may have been pressed.
StationTurn(name, p) ==
    /\ Running(name)
    /\ EndTurn
    /\ \/ UNCHANGED <<pulse, disturbed>>
       \/ /\ Command(<<StationAddress[Which], p>>)
          /\ byRoute' = FALSE
          /\ disturbed' = disturbed \cup Unmoved \cup {StationAddress[Which]}
    /\ UNCHANGED <<todo, spaced, led, layout, route>>

TransportTurn ==
    /\ Running("transport")
    /\ EndTurn
    /\ \/ /\ coil # {}
          /\ coil' = {} /\ moved' = FALSE /\ byRoute' = FALSE
          /\ disturbed' = disturbed \cup Unmoved
       \/ UNCHANGED <<pulse, disturbed>>
    /\ UNCHANGED <<todo, spaced, led, layout, route>>

\* Slip: the station takes a report for any address.
ApplyFeedbackToAll(report) ==
    led' = [s \in Stations |-> report[2]]

\* applyFeedback of every station, then its indicator.
ApplyFeedback(report) ==
    led' = [s \in Stations |->
               IF StationAddress[s] = report[1] THEN report[2] ELSE led[s]]

\* Slip: a report that cannot be decoded is left for the next pass.
PollUntilClear ==
    IF buffer = <<>> \/ buffer[1][2] = "unclear"
    THEN UNCHANGED <<buffer, led>>
    ELSE buffer' = Tail(buffer) /\ ApplyFeedback(Head(buffer))

\* poll() and decode()
Poll ==
    IF buffer = <<>>
    THEN UNCHANGED <<buffer, led>>
    ELSE /\ buffer' = Tail(buffer)
         /\ IF buffer[1][2] \in Positions
            THEN ApplyFeedback(Head(buffer))
            ELSE UNCHANGED led

FeedbackTurn ==
    /\ Running("feedback")
    /\ EndTurn
    /\ Poll
    /\ UNCHANGED <<pulse, todo, spaced, position, missed, route, disturbed>>

\* start(), if the route's button was pressed.
RouteTurn ==
    /\ Running("route")
    /\ EndTurn
    /\ \/ UNCHANGED <<pulse, todo, spaced, route, disturbed>>
       \/ /\ Command(Head(RouteOfButton[Which]))
          /\ byRoute' = TRUE
          /\ todo' = Tail(RouteOfButton[Which])
          /\ spaced' = FALSE
          /\ route' = RouteOfButton[Which]
          /\ disturbed' = {}
    /\ UNCHANGED <<led, layout>>

\* Slip: the next command does not wait for the spacing.
MayRun == todo # <<>>
\* update(): whether the points have moved it cannot see.
RunDue == todo # <<>> /\ spaced

RunTurn ==
    /\ Running("run")
    /\ EndTurn
    /\ \/ UNCHANGED <<pulse, todo, spaced>>
       \/ /\ RunDue
          /\ Command(Head(todo))
          /\ byRoute' = TRUE
          /\ todo' = Tail(todo)
          /\ spaced' = FALSE
    /\ UNCHANGED <<led, layout, route, disturbed>>

LoopTurn ==
    \/ StationTurn("throw", "Thrown")
    \/ StationTurn("close", "Closed")
    \/ TransportTurn
    \/ FeedbackTurn
    \/ RouteTurn
    \/ RunTurn

\* The spacing has gone by.  A pulse the route began is over by then, or is
\* still on only because the transport has not looked: the points have moved.
SpacingElapses ==
    /\ todo # <<>> /\ ~spaced
    /\ byRoute => moved
    /\ spaced' = TRUE
    /\ UNCHANGED <<turn, pulse, todo, led, layout, route, disturbed>>
--------------------------------------------------------------------------------
\* A decoder reports; a full receive buffer drops the report.
Report(a, outputs) ==
    IF Len(buffer) < BufferSize
    THEN buffer' = Append(buffer, <<a, outputs>>) /\ missed' = missed \ {a}
    ELSE UNCHANGED buffer /\ missed' = missed \cup {a}

\* The points reach the position their coil pulls them to.
Move(c) ==
    /\ c \in coil /\ ~moved
    /\ moved' = TRUE
    /\ position' = [position EXCEPT ![c[1]] = c[2]]
    /\ Report(c[1], c[2])
    /\ UNCHANGED <<turn, coil, byRoute, todo, spaced, led, route, disturbed>>

\* Another throttle moves a turnout.
OtherMove(a, p) ==
    /\ position' = [position EXCEPT ![a] = p]
    /\ Report(a, p)
    /\ disturbed' = disturbed \cup {a}
    /\ UNCHANGED <<panel, route>>

\* A report that says nothing.
OtherReport(a) ==
    /\ Len(buffer) < BufferSize
    /\ buffer' = Append(buffer, <<a, "unclear">>)
    /\ UNCHANGED <<panel, position, missed, route, disturbed>>

Layout ==
    \/ \E c \in Commands : Move(c)
    \/ \E c \in Commands : OtherMove(c[1], c[2])
    \/ \E a \in Addresses : OtherReport(a)

Next == LoopTurn \/ SpacingElapses \/ Layout

\* loop() goes round for ever; what the outside does is not scheduled.
Spec == Init /\ [][Next]_vars /\ WF_vars(LoopTurn)
--------------------------------------------------------------------------------
(***************************************************************************)
(* What the panel knows of an address, its LEDs or else the newest report  *)
(* still on its way, is where the turnout lies, unless that report was     *)
(* dropped or none was ever made.                                          *)
(***************************************************************************)
Clear(report) == report[2] \in Positions
Says(report, a) == report[1] = a /\ Clear(report)
Awaited(a) == \E i \in DOMAIN buffer : Says(buffer[i], a)
Newest(i, a) ==
    Says(buffer[i], a) /\ \A j \in DOMAIN buffer : Says(buffer[j], a) => j <= i

IndicatorsExplained ==
    \A s \in Stations :
        LET a == StationAddress[s]
        IN  \/ a \in missed
            \/ /\ \A i \in DOMAIN buffer : Newest(i, a) => buffer[i][2] = position[a]
               /\ Awaited(a) \/ led[s] \in {"dark", position[a]}

(***************************************************************************)
(* Whatever stations, other throttles and early releases do meanwhile, a   *)
(* route leaves each turnout they did not touch as it says: no command is  *)
(* left out or sent to another, and none cuts off the one before.          *)
(***************************************************************************)
RouteSetsTurnouts ==
    route # <<>> /\ todo = <<>> /\ coil = {}
        => \A c \in CommandsOf(route) : position[c[1]] = c[2] \/ c[1] \in disturbed

(***************************************************************************)
(* Once the layout comes to rest, every pair of LEDs comes to show where   *)
(* its turnout lies, or stays dark, or its last report was dropped.        *)
(***************************************************************************)
Truthful ==
    \A s \in Stations :
        \/ led[s] \in {"dark", position[StationAddress[s]]}
        \/ StationAddress[s] \in missed

IndicatorsConverge == <>[][~Layout]_vars => <>[]Truthful
================================================================================
