---------------------------- MODULE MegaPanelProofs ----------------------------
(***************************************************************************)
(* What the Mega's panel promises, for all stations and routes and every   *)
(* size of the receive buffer.  A route sets its turnouts one after the    *)
(* other: the invariant (Progress) counts the commands sent and says that  *)
(* all of them are carried out or disturbed, but for the last one while    *)
(* its pulse goes on.  What the panel knows of the layout                  *)
(* (IndicatorsExplained) is inductive as it stands.                        *)
(***************************************************************************)
EXTENDS MegaPanel, SequenceTheorems, TLAPS

\* How many commands of the route have been sent.
Sent == Len(route) - Len(todo)

\* The i-th command of the route, once sent, is carried out or excused, or
\* its coil is still on.
CarriedOut(i) ==
    \/ position[route[i][1]] = route[i][2]
    \/ route[i][1] \in disturbed
    \/ i = Sent /\ byRoute /\ ~moved

Progress ==
    route # <<>> =>
        /\ todo \in Seq(Nat \X Positions) /\ Sent \in 1 .. Len(route)
        /\ \A i \in 1 .. Len(todo) : todo[i] = route[Sent + i]
        /\ byRoute => coil = {route[Sent]}
        /\ ~byRoute => \A c \in coil : c[1] \in disturbed
        /\ spaced /\ byRoute => moved
        /\ \A i \in 1 .. Sent : CarriedOut(i)

Types ==
    /\ turn \in DOMAIN Turns
    /\ position \in [Addresses -> Positions]
    /\ buffer \in Seq(Addresses \X Outputs)
    /\ route \in {<<>>} \cup {RouteOfButton[b] : b \in DOMAIN RouteOfButton}

PanelInv == Types /\ Progress /\ IndicatorsExplained

--------------------------------------------------------------------------------
(***************************************************************************)
(* The order of loop().                                                    *)
(***************************************************************************)
Handlers == {"throw", "close", "transport", "feedback", "route", "run"}

LEMMA TurnsOfLoop ==
    /\ Len(Turns) \in Nat \ {0} /\ DOMAIN Turns = 1 .. Len(Turns)
    /\ \A k \in DOMAIN Turns :
          Turns[k][1] = "route" => Turns[k][2] \in DOMAIN RouteOfButton
<1> DEFINE T == {t \in Handlers \X Nat : t[1] = "route" => t[2] \in DOMAIN RouteOfButton}
           station == [k \in 1 .. 2 * Len(StationAddress) |->
                         <<IF k % 2 = 1 THEN "throw" ELSE "close", (k + 1) \div 2>>]
           middle == <<<<"transport", 0>>, <<"feedback", 0>>>>
           routes == [b \in 1 .. Len(RouteOfButton) |-> <<"route", b>>]
           last == <<<<"run", 0>>>>
<1>1. /\ Len(StationAddress) \in Nat /\ Len(RouteOfButton) \in Nat
      /\ DOMAIN RouteOfButton = 1 .. Len(RouteOfButton)
      BY PanelAssumption
<1>2. station \in Seq(T)
  <2>1. \A k \in Nat : (k + 1) \div 2 \in Nat
        OBVIOUS
  <2>2. \A k \in 1 .. 2 * Len(StationAddress) :
           <<IF k % 2 = 1 THEN "throw" ELSE "close", (k + 1) \div 2>> \in T
        BY <1>1, <2>1 DEF Handlers
  <2>3. 2 * Len(StationAddress) \in Nat
        BY <1>1
  <2> HIDE DEF T
  <2> QED BY <2>2, <2>3
<1>3. middle \in Seq(T) /\ last \in Seq(T)
      BY DEF Handlers
<1>4. routes \in Seq(T)
  <2>1. \A b \in 1 .. Len(RouteOfButton) : <<"route", b>> \in T
        BY <1>1 DEF Handlers
  <2> HIDE DEF T
  <2> QED BY <1>1, <2>1
<1> DEFINE front == station \o middle \o routes
<1>5. Turns = front \o last /\ Len(last) = 1
      BY DEF Turns
<1> HIDE DEF T, station, middle, routes, last
<1>6. front \in Seq(T)
      BY <1>2, <1>3, <1>4, ConcatProperties
<1> HIDE DEF front
<1>7. Turns \in Seq(T) /\ Len(Turns) = Len(front) + Len(last)
      BY <1>3, <1>5, <1>6, ConcatProperties, Zenon
<1>8. Len(Turns) \in Nat \ {0} /\ DOMAIN Turns = 1 .. Len(Turns)
      BY <1>5, <1>6, <1>7
<1>9. \A k \in DOMAIN Turns : Turns[k] \in T
      BY <1>7, <1>8
<1> QED BY <1>8, <1>9 DEF T

LEMMA NextTurn ==
    ASSUME turn \in DOMAIN Turns, EndTurn
    PROVE  turn' \in DOMAIN Turns
BY TurnsOfLoop DEF EndTurn

\* Routes as the code builds them.
LEMMA RoutesBuilt ==
    ASSUME NEW r \in {RouteOfButton[b] : b \in DOMAIN RouteOfButton}
    PROVE  /\ r \in Seq(Nat \X Positions) /\ r # <<>>
           /\ Len(r) \in Nat \ {0} /\ DOMAIN r = 1 .. Len(r)
           /\ \A i, j \in 1 .. Len(r) : r[i][1] = r[j][1] => i = j
           /\ \A i \in 1 .. Len(r) : r[i] \in Commands
<1>1. PICK b \in DOMAIN RouteOfButton : r = RouteOfButton[b]
      OBVIOUS
<1>2. r \in Seq(Nat \X Positions) /\ r # <<>>
      BY <1>1, PanelAssumption
<1>3. Len(r) \in Nat \ {0} /\ DOMAIN r = 1 .. Len(r)
      BY <1>2
<1>4. \A i \in 1 .. Len(r) : r[i] \in Nat \X Positions
      BY <1>2, <1>3
<1>5. \A i \in 1 .. Len(r) : r[i][1] \in Addresses
      BY <1>1, <1>3 DEF Addresses, CommandsOf
<1>6. \A i \in 1 .. Len(r) : r[i] \in Commands
      BY <1>4, <1>5 DEF Commands
<1>7. \A i, j \in 1 .. Len(r) : r[i][1] = r[j][1] => i = j
      BY <1>1, <1>3, PanelAssumption
<1> QED BY <1>2, <1>3, <1>6, <1>7
--------------------------------------------------------------------------------
(***************************************************************************)
(* What the panel knows.                                                   *)
(***************************************************************************)
Reports == Addresses \X Outputs

\* What IndicatorsExplained says of one station.
Explained(s) ==
    \/ StationAddress[s] \in missed
    \/ /\ \A i \in DOMAIN buffer : Newest(i, StationAddress[s])
                                     => buffer[i][2] = position[StationAddress[s]]
       /\ \/ Awaited(StationAddress[s])
          \/ led[s] \in {"dark", position[StationAddress[s]]}

LEMMA StationByStation == IndicatorsExplained <=> \A s \in Stations : Explained(s)
BY DEF IndicatorsExplained, Explained

\* A report that found room is the newest one.
LEMMA ReportStored ==
    ASSUME buffer \in Seq(Reports), NEW r \in Reports, buffer' = Append(buffer, r)
    PROVE  /\ buffer' \in Seq(Reports)
           /\ DOMAIN buffer' = 1 .. Len(buffer) + 1
           /\ DOMAIN buffer = 1 .. Len(buffer) /\ Len(buffer) \in Nat
           /\ buffer'[Len(buffer) + 1] = r
           /\ \A i \in DOMAIN buffer : buffer'[i] = buffer[i]
OBVIOUS

\* It says something of one address only.
LEMMA OthersUnmoved ==
    ASSUME buffer \in Seq(Reports), NEW r \in Reports, buffer' = Append(buffer, r),
           NEW s \in Stations, Explained(s), ~Says(r, StationAddress[s]),
           position'[StationAddress[s]] = position[StationAddress[s]], led' = led,
           StationAddress[s] \notin missed
    PROVE  Explained(s)'
<1> DEFINE a == StationAddress[s]
<1> USE ReportStored
<1>1. ASSUME NEW i \in DOMAIN buffer', Newest(i, a)' PROVE buffer'[i][2] = position'[a]
  <2>1. i \in DOMAIN buffer
        BY <1>1 DEF Newest
  <2>2. Newest(i, a)
        BY <1>1, <2>1 DEF Newest
  <2> QED BY <2>1, <2>2 DEF Explained
<1>2. Awaited(a) => Awaited(a)'
  <2>1. \A i \in DOMAIN buffer : i \in DOMAIN buffer'
        OBVIOUS
  <2> QED BY <2>1 DEF Awaited
<1> QED BY <1>1, <1>2 DEF Explained

\* A turnout moves, and its report is stored or dropped.
LEMMA MoveExplained ==
    ASSUME Types, IndicatorsExplained, NEW a \in Addresses, NEW p \in Positions,
           Report(a, p), position' = [position EXCEPT ![a] = p], led' = led
    PROVE  IndicatorsExplained' /\ buffer' \in Seq(Reports)
<1> USE DEF Types, Reports
<1>1. <<a, p>> \in Reports
      BY DEF Outputs
<1>2. buffer' \in Seq(Reports)
  <2>1. buffer \in Seq(Reports)
        OBVIOUS
  <2> HIDE DEF Types, Reports
  <2>2. buffer' = buffer \/ buffer' = Append(buffer, <<a, p>>)
        BY DEF Report
  <2>3. Append(buffer, <<a, p>>) \in Seq(Reports)
        BY <1>1, <2>1, AppendProperties
  <2> QED BY <2>1, <2>2, <2>3, Zenon
<1>3. ASSUME NEW s \in Stations PROVE Explained(s)'
  <2> DEFINE b == StationAddress[s]
  <2>1. b \in Addresses /\ Explained(s)
        BY StationByStation DEF Addresses
  <2>2. position'[b] = IF b = a THEN p ELSE position[b]
        BY <2>1
  <2>3. CASE Len(buffer) < BufferSize
    <3>1. buffer' = Append(buffer, <<a, p>>) /\ missed' = missed \ {a}
          BY <2>3 DEF Report
    <3>2. CASE b = a
      <4> DEFINE last == Len(buffer) + 1
      <4>1. /\ DOMAIN buffer' = 1 .. last /\ last \in 1 .. last
            /\ buffer'[last] = <<a, p>> /\ last \in Nat
            BY <1>1, <3>1, ReportStored
      <4>2. Says(buffer'[last], b)
            BY <3>2, <4>1 DEF Says, Clear
      <4> HIDE DEF last
      <4>3. Awaited(b)'
            BY <4>1, <4>2 DEF Awaited
      <4>4. ASSUME NEW i \in DOMAIN buffer', Newest(i, b)' PROVE i = last
        <5>1. last <= i
              BY <4>1, <4>2, <4>4 DEF Newest
        <5> QED BY <4>1, <5>1
      <4> QED BY <2>2, <3>2, <4>1, <4>3, <4>4 DEF Explained
    <3>3. CASE b # a /\ b \notin missed
      <4>1. ~Says(<<a, p>>, b)
            BY <3>3 DEF Says
      <4> QED BY <1>1, <2>1, <2>2, <3>1, <3>3, <4>1, OthersUnmoved
    <3>4. CASE b # a /\ b \in missed
          BY <3>1, <3>4 DEF Explained
    <3> QED BY <3>2, <3>3, <3>4
  <2>4. CASE ~(Len(buffer) < BufferSize)
    <3>1. buffer' = buffer /\ missed' = missed \cup {a}
          BY <2>4 DEF Report
    <3>2. CASE b = a
          BY <3>1, <3>2 DEF Explained
    <3>3. CASE b # a
          BY <2>1, <2>2, <3>1, <3>3 DEF Explained, Newest, Awaited
    <3> QED BY <3>2, <3>3
  <2> QED BY <2>3, <2>4
<1>4. (\A s \in Stations : Explained(s))'
      BY <1>3 DEF Stations
<1> QED BY <1>2, <1>4, StationByStation, PTL

\* poll(): what the head of the buffer says goes to the LEDs.
LEMMA PollExplained ==
    ASSUME Types, IndicatorsExplained, Poll, UNCHANGED <<position, missed>>
    PROVE  IndicatorsExplained' /\ buffer' \in Seq(Reports)
<1> USE DEF Types, Reports
<1>1. CASE buffer = <<>>
  <2>1. buffer' = buffer /\ led' = led
        BY <1>1 DEF Poll
  <2> QED BY <2>1 DEF IndicatorsExplained, Newest, Awaited
<1>2. CASE buffer # <<>>
  <2> DEFINE n == Len(buffer)
  <2>1. /\ buffer' = Tail(buffer) /\ n \in Nat \ {0}
        /\ DOMAIN buffer = 1 .. n /\ Head(buffer) = buffer[1]
        BY <1>2 DEF Poll
  <2>2. /\ buffer' \in Seq(Reports) /\ DOMAIN buffer' = 1 .. n - 1
        /\ \A i \in 1 .. n - 1 : buffer'[i] = buffer[i + 1]
        BY <1>2, <2>1
  <2>3. IF Clear(buffer[1]) THEN ApplyFeedback(buffer[1]) ELSE led' = led
        BY <1>2, <2>1 DEF Poll, Clear
  <2> HIDE DEF n
  <2>4. ASSUME NEW s \in Stations, StationAddress[s] \notin missed PROVE Explained(s)'
    <3> DEFINE a == StationAddress[s]
    <3>1. Explained(s)
          BY StationByStation
    <3>2. ASSUME NEW i \in DOMAIN buffer', Newest(i, a)'
          PROVE  Newest(i + 1, a) /\ i + 1 \in DOMAIN buffer /\ buffer'[i] = buffer[i + 1]
      <4>1. i \in 1 .. n - 1 /\ i + 1 \in 1 .. n
            BY <2>1, <2>2
      <4>2. buffer'[i] = buffer[i + 1] /\ Says(buffer[i + 1], a)
            BY <2>2, <3>2, <4>1 DEF Newest
      <4>3. ASSUME NEW j \in 1 .. n, Says(buffer[j], a) PROVE j <= i + 1
        <5>1. CASE j = 1
              BY <4>1, <5>1
        <5>2. CASE j # 1
          <6>1. j - 1 \in 1 .. n - 1 /\ (j - 1) + 1 = j
                BY <2>1, <5>2
          <6>2. buffer'[j - 1] = buffer[j]
                BY <2>2, <6>1
          <6>3. j - 1 <= i
                BY <2>2, <3>2, <4>3, <6>1, <6>2 DEF Newest
          <6> QED BY <4>1, <6>1, <6>3
        <5> QED BY <5>1, <5>2
      <4> QED BY <2>1, <4>1, <4>2, <4>3 DEF Newest
    <3>3. \A i \in DOMAIN buffer' : Newest(i, a)' => buffer'[i][2] = position'[a]
          BY <3>1, <3>2, <2>4 DEF Explained
    <3>4. ASSUME ~Awaited(a)' PROVE led'[s] \in {"dark", position'[a]}
      <4>1. \A j \in 1 .. n : Says(buffer[j], a) => j = 1
        <5> SUFFICES ASSUME NEW j \in 1 .. n, Says(buffer[j], a), j # 1 PROVE FALSE
            OBVIOUS
        <5>1. j - 1 \in 1 .. n - 1 /\ (j - 1) + 1 = j
              BY <2>1
        <5>2. buffer'[j - 1] = buffer[j]
              BY <2>2, <5>1
        <5> QED BY <2>2, <3>4, <5>1, <5>2 DEF Awaited
      <4>2. CASE Says(buffer[1], a)
        <5>1. 1 \in DOMAIN buffer /\ 1 <= 1
              BY <2>1
        <5>2. Newest(1, a)
              BY <2>1, <4>1, <4>2, <5>1 DEF Newest
        <5>3. buffer[1][2] = position[a]
              BY <2>4, <3>1, <5>1, <5>2 DEF Explained
        <5>4. led'[s] = buffer[1][2]
              BY <2>3, <4>2 DEF ApplyFeedback, Says
        <5> QED BY <5>3, <5>4
      <4>3. CASE ~Says(buffer[1], a)
        <5>1. ~Awaited(a)
              BY <2>1, <4>1, <4>3 DEF Awaited
        <5>2. led[s] \in {"dark", position[a]}
              BY <2>4, <3>1, <5>1 DEF Explained
        <5>3. led'[s] = led[s]
              BY <2>3, <4>3 DEF ApplyFeedback, Says
        <5> QED BY <5>2, <5>3
      <4> QED BY <4>2, <4>3
    <3> QED BY <3>3, <3>4 DEF Explained
  <2>5. (\A s \in Stations : Explained(s))'
        BY <2>4 DEF Stations, Explained
  <2> QED BY <2>2, <2>5, StationByStation, PTL
<1> QED BY <1>1, <1>2

\* A report that says nothing changes nothing.
LEMMA UnclearExplained ==
    ASSUME Types, IndicatorsExplained, NEW a \in Addresses, OtherReport(a)
    PROVE  IndicatorsExplained' /\ buffer' \in Seq(Reports)
<1> USE DEF Types, Reports
<1>1. /\ <<a, "unclear">> \in Reports /\ buffer' = Append(buffer, <<a, "unclear">>)
      /\ position' = position /\ missed' = missed /\ led' = led
      BY DEF Outputs, OtherReport, panel
<1>2. ASSUME NEW s \in Stations PROVE Explained(s)'
  <2>1. Explained(s) /\ ~Says(<<a, "unclear">>, StationAddress[s])
        BY StationByStation DEF Says, Clear, Positions
  <2>2. CASE StationAddress[s] \in missed
        BY <1>1, <2>2 DEF Explained
  <2>3. CASE StationAddress[s] \notin missed
        BY <1>1, <2>1, <2>3, OthersUnmoved
  <2> QED BY <2>2, <2>3
<1>3. (\A s \in Stations : Explained(s))'
      BY <1>2 DEF Stations
<1>4. buffer' \in Seq(Reports)
      BY <1>1, ReportStored
<1> QED BY <1>3, <1>4, StationByStation, PTL

--------------------------------------------------------------------------------
(***************************************************************************)
(* The steps.                                                              *)
(***************************************************************************)
LEMMA InitPanelInv == Init => PanelInv
<1> SUFFICES ASSUME Init PROVE PanelInv
    OBVIOUS
<1>1. turn \in DOMAIN Turns
      BY TurnsOfLoop DEF Init
<1>2. Types
      BY <1>1 DEF Init, Types
<1>3. Progress
      BY DEF Init, Progress
<1>4. ASSUME NEW s \in Stations PROVE Explained(s)
      BY <1>4 DEF Init, Explained
<1>5. IndicatorsExplained
      BY <1>4, StationByStation
<1> QED BY <1>2, <1>3, <1>5 DEF PanelInv

\* Steps that leave the layout and the LEDs alone.
LEMMA LayoutAtRest ==
    ASSUME Types, IndicatorsExplained, EndTurn, UNCHANGED <<led, layout>>,
           route' = route \/ (Running("route") /\ route' = RouteOfButton[Which])
    PROVE  Types' /\ IndicatorsExplained'
<1>1. /\ led' = led /\ position' = position /\ buffer' = buffer /\ missed' = missed
      BY DEF layout
<1>2. turn' \in DOMAIN Turns
      BY NextTurn DEF Types
<1>3. Running("route") => Which \in DOMAIN RouteOfButton
      BY TurnsOfLoop DEF Types, Running, Which
<1>4. Types'
      BY <1>1, <1>2, <1>3 DEF Types
<1> QED BY <1>1, <1>4 DEF IndicatorsExplained, Newest, Awaited

\* What a coil switched off early leaves undone is excused.
LEMMA CutOff ==
    ASSUME Progress, route # <<>>, UNCHANGED <<route, todo, position>>,
           disturbed \cup Unmoved \subseteq disturbed', ~byRoute',
           NEW i \in 1 .. Sent
    PROVE  CarriedOut(i)'
<1>1. CarriedOut(i) /\ route' = route /\ position' = position
      BY DEF Progress
<1>2. CASE i = Sent /\ byRoute /\ ~moved
  <2>1. coil = {route[i]}
        BY <1>2 DEF Progress
  <2>2. route[i][1] \in disturbed'
        BY <1>2, <2>1 DEF Unmoved
  <2> QED BY <1>1, <2>2 DEF CarriedOut
<1>3. CASE ~(i = Sent /\ byRoute /\ ~moved)
      BY <1>1, <1>3 DEF CarriedOut
<1> QED BY <1>2, <1>3

\* The panel has sent nothing and switched nothing off.
LEMMA PulseGoesOn ==
    ASSUME Progress, UNCHANGED <<pulse, todo, spaced, position, route, disturbed>>
    PROVE  Progress'
BY DEF Progress, Sent, CarriedOut, pulse

LEMMA StationTurnKeeps ==
    ASSUME PanelInv, NEW name, NEW p, StationTurn(name, p)
    PROVE  PanelInv'
<1> USE DEF PanelInv, StationTurn
<1>1. Types' /\ IndicatorsExplained'
      BY LayoutAtRest
<1>2. Progress'
  <2>1. CASE UNCHANGED <<pulse, disturbed>>
        BY <2>1, PulseGoesOn DEF layout
  <2>2. CASE /\ Command(<<StationAddress[Which], p>>) /\ byRoute' = FALSE
             /\ disturbed' = disturbed \cup Unmoved \cup {StationAddress[Which]}
    <3> SUFFICES ASSUME route # <<>> PROVE Progress'
        BY DEF Progress
    <3>1. \A i \in 1 .. Sent : CarriedOut(i)'
          BY <2>2, CutOff DEF layout
    <3>2. \A c \in coil' : c[1] \in disturbed'
          BY <2>2 DEF Command
    <3> QED BY <2>2, <3>1, <3>2 DEF Progress, Sent
  <2> QED BY <2>1, <2>2
<1> QED BY <1>1, <1>2

\* A release before the turnout has moved excuses it.
LEMMA TransportTurnKeeps == PanelInv /\ TransportTurn => PanelInv'
<1> SUFFICES ASSUME PanelInv, TransportTurn PROVE PanelInv'
    OBVIOUS
<1> USE DEF PanelInv, TransportTurn
<1>1. Types' /\ IndicatorsExplained'
      BY LayoutAtRest
<1>2. Progress'
  <2>1. CASE UNCHANGED <<pulse, disturbed>>
        BY <2>1, PulseGoesOn DEF layout
  <2>2. CASE /\ coil' = {} /\ moved' = FALSE /\ byRoute' = FALSE
             /\ disturbed' = disturbed \cup Unmoved
    <3> SUFFICES ASSUME route # <<>> PROVE Progress'
        BY DEF Progress
    <3>1. \A i \in 1 .. Sent : CarriedOut(i)'
          BY <2>2, CutOff DEF layout
    <3> QED BY <2>2, <3>1 DEF Progress, Sent
  <2> QED BY <2>1, <2>2
<1> QED BY <1>1, <1>2

\* When the spacing has gone by, the points of a route's pulse have moved.
LEMMA SpacingElapsesKeeps == PanelInv /\ SpacingElapses => PanelInv'
<1> SUFFICES ASSUME PanelInv, SpacingElapses PROVE PanelInv'
    OBVIOUS
<1>1. /\ UNCHANGED <<turn, coil, moved, byRoute, todo, led, route, disturbed>>
      /\ UNCHANGED <<position, buffer, missed>>
      /\ byRoute => moved
      BY DEF SpacingElapses, pulse, layout
<1>2. /\ turn' = turn /\ led' = led /\ route' = route /\ todo' = todo
      /\ position' = position /\ buffer' = buffer /\ missed' = missed
      BY <1>1
<1>3. Types' /\ IndicatorsExplained'
      BY <1>2 DEF PanelInv, Types, IndicatorsExplained, Newest, Awaited
<1>4. \A i \in 1 .. Sent : CarriedOut(i)' <=> CarriedOut(i)
      BY <1>1, Zenon DEF CarriedOut, Sent
<1>5. Progress'
      BY <1>1, <1>4, Zenon DEF PanelInv, Progress, Sent
<1> QED BY <1>3, <1>5 DEF PanelInv

LEMMA FeedbackTurnKeeps == PanelInv /\ FeedbackTurn => PanelInv'
<1> SUFFICES ASSUME PanelInv, FeedbackTurn PROVE PanelInv'
    OBVIOUS
<1> USE DEF PanelInv, FeedbackTurn
<1>1. IndicatorsExplained' /\ buffer' \in Seq(Reports)
      BY PollExplained
<1>2. Types'
      BY <1>1, NextTurn DEF Types, Reports
<1>3. Progress'
      BY PulseGoesOn
<1> QED BY <1>1, <1>2, <1>3

\* A route starts: its first command is out, and nothing is carried out yet.
LEMMA RouteTurnKeeps == PanelInv /\ RouteTurn => PanelInv'
<1> SUFFICES ASSUME PanelInv, RouteTurn PROVE PanelInv'
    OBVIOUS
<1> USE DEF PanelInv, RouteTurn
<1>1. Types' /\ IndicatorsExplained'
      BY LayoutAtRest
<1>2. Progress'
  <2>1. CASE UNCHANGED <<pulse, todo, spaced, route, disturbed>>
        BY <2>1, PulseGoesOn DEF layout
  <2>2. CASE /\ Command(Head(RouteOfButton[Which])) /\ todo' = Tail(RouteOfButton[Which])
             /\ byRoute' = TRUE /\ spaced' = FALSE
             /\ route' = RouteOfButton[Which] /\ disturbed' = {}
    <3> DEFINE r == RouteOfButton[Which]
    <3>1. Which \in DOMAIN RouteOfButton
          BY TurnsOfLoop DEF Types, Running, Which
    <3>2. /\ r \in Seq(Nat \X Positions) /\ r # <<>> /\ Len(r) \in Nat \ {0}
          BY <3>1, RoutesBuilt
    <3> HIDE DEF r
    <3>3. /\ Tail(r) \in Seq(Nat \X Positions) /\ Len(Tail(r)) = Len(r) - 1
          /\ \A i \in 1 .. Len(Tail(r)) : Tail(r)[i] = r[1 + i]
          /\ Head(r) = r[1] /\ Len(r) - Len(Tail(r)) = 1
          BY <3>2
    <3>4. /\ route' = r /\ todo' = Tail(r) /\ coil' = {r[1]} /\ moved' = FALSE
          BY <2>2, <3>3 DEF r, Command
    <3>5. Sent' = 1
          BY <3>3, <3>4 DEF Sent
    <3>6. 1 \in 1 .. Len(r) /\ \A i \in 1 .. 1 : i = 1
          BY <3>2
    <3>7. \A i \in 1 .. Sent' : CarriedOut(i)'
          BY <2>2, <3>4, <3>5, <3>6 DEF CarriedOut
    <3> QED BY <2>2, <3>3, <3>4, <3>5, <3>6, <3>7 DEF Progress
  <2> QED BY <2>1, <2>2
<1> QED BY <1>1, <1>2

\* The next command goes out when the spacing has gone by.
LEMMA RunTurnKeeps == PanelInv /\ RunTurn => PanelInv'
<1> SUFFICES ASSUME PanelInv, RunTurn PROVE PanelInv'
    OBVIOUS
<1> USE DEF PanelInv, RunTurn
<1>1. Types' /\ IndicatorsExplained'
      BY LayoutAtRest
<1>2. CASE UNCHANGED <<pulse, todo, spaced>>
  <2>1. Progress'
        BY <1>2, PulseGoesOn DEF layout
  <2> QED BY <1>1, <2>1
<1>3. CASE /\ RunDue /\ Command(Head(todo)) /\ todo' = Tail(todo)
           /\ byRoute' = TRUE /\ spaced' = FALSE
  <2> SUFFICES ASSUME route # <<>> PROVE Progress'
      BY <1>1 DEF Progress
  <2> DEFINE n == Sent
  <2>1. /\ todo \in Seq(Nat \X Positions) /\ n \in 1 .. Len(route) /\ todo # <<>>
        /\ \A i \in 1 .. Len(todo) : todo[i] = route[n + i]
        /\ \A i \in 1 .. n : \/ position[route[i][1]] = route[i][2]
                              \/ route[i][1] \in disturbed
        BY <1>3 DEF Progress, RunDue, CarriedOut
  <2>2. Len(route) \in Nat /\ n = Len(route) - Len(todo)
        BY RoutesBuilt DEF Types, Sent
  <2> HIDE DEF n
  <2>3. /\ Tail(todo) \in Seq(Nat \X Positions) /\ Len(Tail(todo)) = Len(todo) - 1
        /\ \A i \in 1 .. Len(Tail(todo)) : Tail(todo)[i] = todo[i + 1]
        /\ Head(todo) = todo[1] /\ Len(todo) \in Nat \ {0}
        BY <2>1
  <2>4. Len(route) - Len(Tail(todo)) = n + 1 /\ n + 1 \in 1 .. Len(route)
        BY <2>1, <2>2, <2>3
  <2>5. Sent' = n + 1
        BY <1>3, <2>4 DEF Sent
  <2>6. coil' = {route[n + 1]} /\ moved' = FALSE
    <3>1. 1 \in 1 .. Len(todo)
          BY <2>3
    <3>2. Head(todo) = route[n + 1]
          BY <2>1, <2>3, <3>1
    <3> QED BY <1>3, <3>2 DEF Command
  <2>7. ASSUME NEW i \in 1 .. Len(Tail(todo))
        PROVE  Tail(todo)[i] = route[(n + 1) + i]
    <3>1. i + 1 \in 1 .. Len(todo) /\ n + (i + 1) = (n + 1) + i
          BY <2>1, <2>2, <2>3
    <3>2. todo[i + 1] = route[n + (i + 1)]
          BY <2>1, <3>1
    <3> QED BY <2>3, <3>1, <3>2
  <2>8. position' = position /\ route' = route /\ disturbed' = disturbed
        BY DEF layout
  <2>9. ASSUME NEW i \in 1 .. n + 1 PROVE CarriedOut(i)'
    <3>1. CASE i = n + 1
          BY <1>3, <2>5, <2>6, <3>1 DEF CarriedOut
    <3>2. CASE i # n + 1
      <4>1. i \in 1 .. n
            BY <2>1, <3>2
      <4> QED BY <2>1, <2>8, <4>1 DEF CarriedOut
    <3> QED BY <3>1, <3>2
  <2> QED BY <1>3, <2>3, <2>4, <2>5, <2>6, <2>7, <2>8, <2>9 DEF Progress
<1> QED BY <1>2, <1>3

\* A turnout moves: it is the one whose coil the route has on, or is excused.
LEMMA ProgressOfMove ==
    ASSUME Types, Progress, route # <<>>, UNCHANGED <<route, todo>>,
           NEW c \in Commands, position' = [position EXCEPT ![c[1]] = c[2]],
           disturbed \subseteq disturbed',
           c[1] \in disturbed' \/ (byRoute /\ c \in coil),
           byRoute' = byRoute, (moved' = moved) \/ c \in coil,
           NEW i \in 1 .. Sent
    PROVE  CarriedOut(i)'
<1> DEFINE n == Sent
<1>1. /\ n \in 1 .. Len(route) /\ CarriedOut(i)
      /\ byRoute => coil = {route[n]}
      BY DEF Progress
<1>2. /\ Len(route) \in Nat \ {0}
      /\ \A k, j \in 1 .. Len(route) : route[k][1] = route[j][1] => k = j
      /\ \A k \in 1 .. Len(route) : route[k] \in Commands
      BY RoutesBuilt DEF Types, Progress
<1>3. Sent' = n /\ route' = route
      BY DEF Sent
<1> HIDE DEF n
<1>4. i \in 1 .. Len(route) /\ i \in 1 .. n
      BY <1>1, <1>2 DEF n
<1>5. route[i][1] \in Addresses /\ c[1] \in Addresses
      BY <1>2, <1>4 DEF Commands
<1>6. /\ route[i][1] = c[1] => position'[route[i][1]] = c[2]
      /\ route[i][1] # c[1] => position'[route[i][1]] = position[route[i][1]]
  <2>1. position \in [Addresses -> Positions]
        BY DEF Types
  <2> QED BY <1>5, <2>1
<1>7. CASE c[1] \in disturbed'
  <2>1. CASE route[i][1] = c[1]
        BY <1>3, <1>7, <2>1, Zenon DEF CarriedOut
  <2>2. CASE route[i][1] # c[1]
    <3>1. CASE i = n /\ byRoute /\ ~moved
      <4>1. c \notin coil
            BY <1>1, <2>2, <3>1
      <4> QED BY <1>3, <3>1, <4>1, Zenon DEF CarriedOut
    <3>2. CASE ~(i = n /\ byRoute /\ ~moved)
          BY <1>1, <1>3, <1>6, <2>2, <3>2, Zenon DEF CarriedOut, n
    <3> QED BY <3>1, <3>2
  <2> QED BY <2>1, <2>2
<1>8. CASE byRoute /\ c \in coil
  <2>1. c = route[n]
        BY <1>1, <1>8
  <2>2. CASE i = n
        BY <1>3, <1>6, <2>1, <2>2, Zenon DEF CarriedOut
  <2>3. CASE i # n
    <3>1. route[i][1] # c[1]
          BY <1>1, <1>2, <1>4, <2>1, <2>3, Zenon
    <3> QED BY <1>1, <1>3, <1>6, <2>3, <3>1, Zenon DEF CarriedOut, n
  <2> QED BY <2>2, <2>3
<1> QED BY <1>7, <1>8

\* The coil moves its own turnout and no other one of the route.
LEMMA MoveKeeps ==
    ASSUME PanelInv, NEW c \in Commands, Move(c)
    PROVE  PanelInv'
<1> USE DEF PanelInv, Move
<1>1. c[1] \in Addresses /\ c[2] \in Positions
      BY DEF Commands
<1>2. IndicatorsExplained' /\ buffer' \in Seq(Reports)
      BY <1>1, MoveExplained
<1>3. position' \in [Addresses -> Positions]
      BY <1>1 DEF Types
<1>4. Types'
      BY <1>2, <1>3 DEF Types, Reports
<1>5. Progress'
  <2> SUFFICES ASSUME route # <<>> PROVE Progress'
      BY DEF Progress
  <2>1. c[1] \in disturbed \/ (byRoute /\ c \in coil)
        BY DEF Progress
  <2>2. \A i \in 1 .. Sent : CarriedOut(i)'
        BY <2>1, ProgressOfMove
  <2> QED BY <2>2 DEF Progress, Sent
<1> QED BY <1>2, <1>4, <1>5

LEMMA OtherMoveKeeps ==
    ASSUME PanelInv, NEW c \in Commands, OtherMove(c[1], c[2])
    PROVE  PanelInv'
<1> USE DEF PanelInv, OtherMove
<1>1. c[1] \in Addresses /\ c[2] \in Positions
      BY DEF Commands
<1>2. /\ led' = led /\ turn' = turn /\ route' = route /\ todo' = todo
      /\ coil' = coil /\ moved' = moved /\ byRoute' = byRoute /\ spaced' = spaced
      BY DEF panel, pulse
<1>3. IndicatorsExplained' /\ buffer' \in Seq(Reports)
      BY <1>1, <1>2, MoveExplained
<1>4. position' \in [Addresses -> Positions]
      BY <1>1 DEF Types
<1>5. Types'
      BY <1>2, <1>3, <1>4 DEF Types, Reports
<1>6. Progress'
  <2> SUFFICES ASSUME route # <<>> PROVE Progress'
      BY <1>2 DEF Progress
  <2>1. \A i \in 1 .. Sent : CarriedOut(i)'
        BY <1>2, ProgressOfMove
  <2> QED BY <1>2, <2>1 DEF Progress, Sent
<1> QED BY <1>3, <1>5, <1>6

LEMMA OtherReportKeeps ==
    ASSUME PanelInv, NEW a \in Addresses, OtherReport(a)
    PROVE  PanelInv'
<1> USE DEF PanelInv
<1>1. IndicatorsExplained' /\ buffer' \in Seq(Reports)
      BY UnclearExplained
<1>2. /\ turn' = turn /\ coil' = coil /\ moved' = moved /\ byRoute' = byRoute
      /\ todo' = todo /\ spaced' = spaced /\ position' = position
      /\ route' = route /\ disturbed' = disturbed
      BY DEF OtherReport, panel, pulse
<1>3. Types'
      BY <1>1, <1>2 DEF Types, Reports
<1>4. Progress'
      BY <1>2, PulseGoesOn DEF pulse
<1> QED BY <1>1, <1>3, <1>4

LEMMA NextPanelInv == PanelInv /\ [Next]_vars => PanelInv'
<1> SUFFICES ASSUME PanelInv, [Next]_vars PROVE PanelInv'
    OBVIOUS
<1>1. CASE LoopTurn
      BY <1>1, StationTurnKeeps, TransportTurnKeeps, FeedbackTurnKeeps, RouteTurnKeeps,
         RunTurnKeeps DEF LoopTurn
<1>2. CASE Layout
      BY <1>2, MoveKeeps, OtherMoveKeeps, OtherReportKeeps DEF Layout
<1>3. CASE UNCHANGED vars
  <2>1. /\ turn' = turn /\ UNCHANGED <<pulse, todo, spaced>> /\ led' = led
        /\ position' = position /\ buffer' = buffer /\ missed' = missed
        /\ route' = route /\ disturbed' = disturbed
        BY <1>3 DEF vars, panel, layout
  <2>2. Progress'
        BY <2>1, PulseGoesOn DEF PanelInv
  <2> QED BY <2>1, <2>2 DEF PanelInv, Types, IndicatorsExplained, Newest, Awaited
<1> QED BY <1>1, <1>2, <1>3, SpacingElapsesKeeps DEF Next

LEMMA AlwaysPanelInv == Spec => []PanelInv
BY InitPanelInv, NextPanelInv, PTL DEF Spec

--------------------------------------------------------------------------------
(***************************************************************************)
(* The LEDs show where the turnout lies, or the newest report still in the *)
(* receive buffer says so, or that report was dropped: poll() and          *)
(* applyFeedback() lose nothing and mix nothing up.                        *)
(***************************************************************************)
THEOREM LedsAreExplained == Spec => []IndicatorsExplained
<1>1. PanelInv => IndicatorsExplained
      BY DEF PanelInv
<1> QED BY <1>1, AlwaysPanelInv, PTL

(***************************************************************************)
(* When the last pulse of a route is over, each of its turnouts lies as it *)
(* says, but for those somebody else commanded since it was started, and   *)
(* those whose coil a button or the transport switched off too early.      *)
(***************************************************************************)
THEOREM RoutesSetTurnouts == Spec => []RouteSetsTurnouts
<1>1. PanelInv => RouteSetsTurnouts
  <2> SUFFICES ASSUME PanelInv, route # <<>>, todo = <<>>, coil = {},
                      NEW c \in CommandsOf(route)
               PROVE  position[c[1]] = c[2] \/ c[1] \in disturbed
      BY DEF RouteSetsTurnouts
  <2>1. Len(route) \in Nat \ {0} /\ DOMAIN route = 1 .. Len(route)
        BY RoutesBuilt DEF PanelInv, Types
  <2>2. PICK i \in 1 .. Len(route) : c = route[i]
        BY <2>1 DEF CommandsOf
  <2>3. Sent = Len(route)
        BY <2>1 DEF Sent
  <2>4. ~byRoute /\ CarriedOut(i)
        BY <2>3 DEF PanelInv, Progress
  <2> QED BY <2>2, <2>4 DEF CarriedOut
<1> QED BY <1>1, AlwaysPanelInv, PTL
================================================================================
