----------------------------- MODULE EspPanelProofs -----------------------------
(***************************************************************************)
(* What the node's loop() promises for every assignment of addresses to    *)
(* channels and every bound.  Three inductive invariants: one about the    *)
(* link in the pass that runs (CutOff), one about the queue (Drains), one  *)
(* about a station and its LEDs (ShowsKnown).                              *)
(***************************************************************************)
EXTENDS EspPanel, SequenceTheorems, TLAPS

\* Once a pass is known to run without link or in a collision, it stays so
\* to its end, and from its third turn on every pair blinks.
CutOff ==
    /\ turn # 1 /\ cutOff => ~connected \/ collision
    /\ turn \notin {2, 3} /\ cutOff => led = Blinking

\* The queue is filled by one message per pass and emptied in the same one.
Drains ==
    /\ collision => claimed
    /\ \/ claimed
       \/ Len(queue) <= 1 /\ (connected /\ turn # 3 => queue = <<>>)

\* A pair that does not blink shows what its station goes by.
ShowsKnown == \A c \in Channels : led[c] \in {"blink", known[c]}

Sent == commands \in Seq(States)

PanelInv == turn \in Nat \ {0} /\ CutOff /\ Drains /\ ShowsKnown /\ Sent

\* There are three turns at least, also without a channel.
LEMMA TurnsInOrder == LastTurn \in Nat /\ LastTurn >= 3
BY EspPanelAssumption DEF LastTurn, FirstStation

\* Where EndTurn leads to, as far as the invariants ask.
LEMMA EndTurnLeads ==
    ASSUME turn \in Nat \ {0}, EndTurn
    PROVE  /\ turn' \in Nat \ {0}
           /\ turn = 1 => turn' = 2
           /\ turn = 2 => turn' = 3
           /\ turn >= 3 => turn' \notin {2, 3}
BY TurnsInOrder DEF EndTurn

LEMMA InitPanelInv == Init => PanelInv
<1> SUFFICES ASSUME Init PROVE PanelInv
    OBVIOUS
<1>1. turn \in Nat \ {0} /\ CutOff
      BY DEF Init, CutOff
<1>2. Drains
      BY DEF Init, Drains
<1>3. ShowsKnown
      BY DEF Init, ShowsKnown, Blinking
<1>4. Sent
      BY DEF Init, Sent
<1> QED BY <1>1, <1>2, <1>3, <1>4 DEF PanelInv

\* The turns of loop(), one by one.
LEMMA CollisionTurnKeeps == PanelInv /\ CollisionTurn => PanelInv'
<1> SUFFICES ASSUME PanelInv, CollisionTurn PROVE PanelInv'
    OBVIOUS
<1>1. turn = 1 /\ turn' = 2
      BY EndTurnLeads DEF CollisionTurn, PanelInv
<1>2. CutOff'
      BY <1>1 DEF CollisionTurn, CutOff
<1>3. Drains'
      BY <1>1 DEF CollisionTurn, Drains, PanelInv
<1>4. ShowsKnown' /\ Sent'
      BY DEF CollisionTurn, ShowsKnown, Sent, PanelInv
<1> QED BY <1>1, <1>2, <1>3, <1>4 DEF PanelInv

LEMMA MqttTurnKeeps == PanelInv /\ MqttTurn => PanelInv'
<1> SUFFICES ASSUME PanelInv, MqttTurn PROVE PanelInv'
    OBVIOUS
<1>1. turn = 2 /\ turn' = 3
      BY EndTurnLeads DEF MqttTurn, PanelInv
<1>2. ShowsKnown' /\ Sent'
      BY DEF MqttTurn, ShowsKnown, Sent, PanelInv
<1>3. CutOff'
      BY <1>1 DEF MqttTurn, Connect, Receive, Idle, CutOff, PanelInv
<1>4. Drains'
  <2>1. CASE Connect
        BY <2>1, <1>1 DEF MqttTurn, Connect, Drains, PanelInv
  <2>2. CASE Idle
        BY <2>2, <1>1 DEF MqttTurn, Idle, Drains, PanelInv
  <2>3. CASE Receive
    <3>1. CASE Head(inbox) = ForeignMac
          BY <2>3, <3>1, <1>1 DEF MqttTurn, Receive, Drains, PanelInv
    <3>2. CASE Head(inbox) # ForeignMac
      <4>1. PICK r : queue' = Append(queue, r)
            BY <2>3, <3>2 DEF Receive
      <4>2. claimed' = claimed /\ collision' = collision /\ connected
            BY <2>3, <3>2 DEF Receive, MqttTurn
      <4>3. claimed \/ queue = <<>>
            BY <4>2, <1>1 DEF Drains, PanelInv
      <4>4. queue = <<>> => Len(queue') <= 1
            BY <4>1
      <4>5. turn' = 3
            BY <1>1
      <4>6. collision => claimed
            BY DEF Drains, PanelInv
      <4> QED BY <4>2, <4>3, <4>4, <4>5, <4>6, Zenon DEF Drains
    <3> QED BY <3>1, <3>2
  <2> QED BY <2>1, <2>2, <2>3 DEF MqttTurn
<1> QED BY <1>1, <1>2, <1>3, <1>4 DEF PanelInv

LEMMA FeedbackTurnKeeps == PanelInv /\ FeedbackTurn => PanelInv'
<1> SUFFICES ASSUME PanelInv, FeedbackTurn PROVE PanelInv'
    OBVIOUS
<1>1. turn = 3 /\ turn' \in Nat \ {0} /\ turn' \notin {2, 3}
      BY EndTurnLeads DEF FeedbackTurn, PanelInv
<1>2. CutOff'
      BY <1>1 DEF FeedbackTurn, Listens, CutOff, PanelInv, history
<1>3. Drains'
  <2>1. CASE Listens
        BY <2>1, <1>1 DEF FeedbackTurn, Drains, PanelInv
  <2>2. CASE ~Listens
        BY <2>2, <1>1 DEF FeedbackTurn, Listens, Drains, PanelInv
  <2> QED BY <2>1, <2>2
<1>4. ShowsKnown'
  <2>1. CASE Listens
    <3>1. ASSUME NEW c \in Channels
          PROVE  Drained(led, queue)[c] \in {"blink", Drained(known, queue)[c]}
          BY DEF Drained, ShowsKnown, PanelInv
    <3> QED BY <2>1, <3>1 DEF FeedbackTurn, ShowsKnown
  <2>2. CASE ~Listens
        BY <2>2 DEF FeedbackTurn, ShowsKnown, Blinking
  <2> QED BY <2>1, <2>2
<1>5. Sent'
      BY DEF FeedbackTurn, Sent, PanelInv
<1> QED BY <1>1, <1>2, <1>3, <1>4, <1>5 DEF PanelInv

\* What a station may do with the commands.
LEMMA StationSends ==
    ASSUME NEW c \in Channels, StationTurn(c)
    PROVE  \/ commands' = commands
           \/ /\ connected /\ ~collision
              /\ ChannelAddress[c] # 0
              /\ commands' = Append(commands, <<ChannelAddress[c], Opposite(known[c])>>)
BY DEF StationTurn, MayPress, Publish

LEMMA StationTurnKeeps ==
    ASSUME PanelInv, NEW c \in Channels, StationTurn(c)
    PROVE  PanelInv'
<1>1. turn > 3 /\ turn' \in Nat \ {0} /\ turn' \notin {2, 3}
  <2>1. c \in Nat \ {0}
        BY EspPanelAssumption DEF Channels
  <2> QED BY <2>1, EndTurnLeads DEF StationTurn, PanelInv, FirstStation
<1>2. CutOff'
      BY <1>1 DEF StationTurn, CutOff, PanelInv, history
<1>3. Drains'
      BY <1>1 DEF StationTurn, Drains, PanelInv
<1>4. ShowsKnown'
      BY DEF StationTurn, ShowsKnown, PanelInv
<1>5. Sent'
  <2>1. ChannelAddress[c] # 0 => <<ChannelAddress[c], Opposite(known[c])>> \in States
        BY DEF States, Addresses, Opposite, Positions
  <2> QED BY <2>1, StationSends DEF Sent, PanelInv
<1> QED BY <1>1, <1>2, <1>3, <1>4, <1>5 DEF PanelInv

\* Whatever happens outside but a power failure leaves the node's own state
\* alone, and makes no link.
LEMMA OutsideKeeps ==
    ASSUME PanelInv, UNCHANGED node, cutOff' = cutOff, connected' => connected, Sent'
    PROVE  PanelInv'
BY DEF PanelInv, node, CutOff, Drains, ShowsKnown, Sent

LEMMA MovedKeeps ==
    ASSUME PanelInv, NEW a, NEW p, Moved(a, p), Sent'
    PROVE  PanelInv'
BY OutsideKeeps DEF Moved

LEMMA LosesCommands ==
    ASSUME LoseLink, Sent
    PROVE  Sent' /\ (commands' = commands \/ commands' = <<>>) /\ ~connected'
<1>1. (commands' = commands \/ commands' = <<>>) /\ ~connected'
      BY Zenon DEF LoseLink
<1>2. <<>> \in Seq(States)
      OBVIOUS
<1>3. Sent'
      BY <1>1, <1>2, Zenon DEF Sent
<1> QED BY <1>1, <1>3

LEMMA PowerCycleKeeps == PanelInv /\ PowerCycle => PanelInv'
<1> SUFFICES ASSUME PanelInv, PowerCycle PROVE PanelInv'
    OBVIOUS
<1>1. turn' = 1 /\ led' = Blinking /\ known' = Unknown
      BY DEF PowerCycle
<1>2. CutOff' /\ Drains'
      BY <1>1 DEF PowerCycle, CutOff, Drains
<1>3. ShowsKnown'
      BY <1>1 DEF ShowsKnown, Blinking
<1>4. Sent'
      BY LosesCommands DEF PowerCycle, PanelInv
<1> QED BY <1>1, <1>2, <1>3, <1>4 DEF PanelInv

LEMMA NextPanelInv == PanelInv /\ [Next]_vars => PanelInv'
<1> SUFFICES ASSUME PanelInv, [Next]_vars PROVE PanelInv'
    OBVIOUS
<1>1. CASE LoopTurn
      BY <1>1, CollisionTurnKeeps, MqttTurnKeeps, FeedbackTurnKeeps, StationTurnKeeps
         DEF LoopTurn
<1>2. CASE Execute
  <2>1. Sent'
        BY <1>2 DEF Execute, Sent, PanelInv
  <2> QED BY <1>2, <2>1, MovedKeeps DEF Execute
<1>3. ASSUME NEW a \in Addresses, OtherMove(a) \/ Republish(a) PROVE PanelInv'
  <2>1. Sent'
        BY <1>3 DEF OtherMove, Republish, Sent, PanelInv
  <2> QED BY <1>3, <2>1, MovedKeeps DEF OtherMove, Republish
<1>4. CASE Claim
      BY <1>4, OutsideKeeps DEF Claim, Sent, PanelInv, history
<1>5. CASE WiFiChange
      BY <1>5, OutsideKeeps DEF WiFiChange, Sent, PanelInv, history
<1>6. CASE Drop
  <2>1. Sent' /\ ~connected'
        BY <1>6, LosesCommands DEF Drop, PanelInv
  <2>2. UNCHANGED node /\ cutOff' = cutOff
        BY <1>6 DEF Drop
  <2> QED BY <2>1, <2>2, OutsideKeeps
<1>7. CASE PowerCycle
      BY <1>7, PowerCycleKeeps
<1>8. CASE UNCHANGED vars
  <2>1. Sent' /\ UNCHANGED node /\ cutOff' = cutOff /\ connected' = connected
        BY <1>8 DEF vars, history, Sent, PanelInv
  <2> QED BY <2>1, OutsideKeeps
<1> QED BY <1>1, <1>2, <1>3, <1>4, <1>5, <1>6, <1>7, <1>8 DEF Next, Outside

LEMMA AlwaysPanelInv == Spec => []PanelInv
<1>1. Init => PanelInv
      BY InitPanelInv
<1>2. PanelInv /\ [Next]_vars => PanelInv'
      BY NextPanelInv
<1> QED BY <1>1, <1>2, PTL DEF Spec

--------------------------------------------------------------------------------
\* After a pass without link, or in a collision, all pairs of LEDs blink:
\* loop() clears the indicators in the pass itself, whenever in it the link
\* was lost.
THEOREM BlinkingWhenCutOff == Spec => []BlinksWhenCutOff
<1>1. PanelInv => BlinksWhenCutOff
      BY DEF PanelInv, CutOff, BlinksWhenCutOff
<1> QED BY <1>1, AlwaysPanelInv, PTL

\* The queue of the state source never holds two reports, but in a collision:
\* what poll() of the link adds in a pass, the same pass drains.
THEOREM QueueStaysShort == Spec => []QueueDrained
<1>1. PanelInv => QueueDrained
  <2> SUFFICES ASSUME PanelInv, ~claimed PROVE ~(Len(queue) > 1)
      BY DEF QueueDrained
  <2>1. Len(queue) <= 1
        BY DEF PanelInv, Drains
  <2> QED BY <2>1
<1> QED BY <1>1, AlwaysPanelInv, PTL

--------------------------------------------------------------------------------
\* The last command sent is the newest: only a station makes them more.
LEMMA OnlyStationsSend ==
    ASSUME PanelInv, Next, Len(commands') > Len(commands)
    PROVE  \E c \in Channels : StationTurn(c)
<1>1. commands \in Seq(States)
      BY DEF PanelInv, Sent
<1>2. commands' # commands
      BY <1>1
<1>3. ~(CollisionTurn \/ MqttTurn \/ FeedbackTurn)
      BY <1>2, Zenon DEF CollisionTurn, MqttTurn, FeedbackTurn
<1>4. ~Execute
  <2> SUFFICES ASSUME Execute PROVE FALSE
      OBVIOUS
  <2>1. commands # <<>> /\ commands' = Tail(commands)
        BY DEF Execute
  <2> QED BY <1>1, <2>1
<1>5. ~\E a \in Addresses : OtherMove(a) \/ Republish(a)
      BY <1>2, Zenon DEF OtherMove, Republish
<1>6. ~(Claim \/ WiFiChange)
      BY <1>2, Zenon DEF Claim, WiFiChange
<1>7. ~LoseLink
  <2> SUFFICES ASSUME LoseLink PROVE FALSE
      OBVIOUS
  <2>1. commands' = <<>>
        BY <1>2, LosesCommands DEF PanelInv
  <2>2. Len(commands') = 0 /\ Len(commands) \in Nat
        BY <1>1, <2>1
  <2> QED BY <2>2
<1> QED BY <1>3, <1>4, <1>5, <1>6, <1>7, Zenon
        DEF Next, LoopTurn, Outside, Drop, PowerCycle

\* A node in a collision sends nothing, from the pass on in which its loop()
\* reads the flag: its buttons are suppressed.
THEOREM SilentWhenClaimed == Spec => SilentInCollision
<1>1. ASSUME PanelInv, [Next]_vars
      PROVE  [claimed /\ cutOff => Len(commands') <= Len(commands)]_vars
  <2> SUFFICES ASSUME Next, claimed, cutOff, ~(Len(commands') <= Len(commands))
               PROVE  FALSE
      BY <1>1
  <2>1. commands \in Seq(States) /\ commands' \in Seq(States)
        BY <1>1, NextPanelInv DEF PanelInv, Sent
  <2>2. Len(commands') > Len(commands)
        BY <2>1
  <2>3. PICK c \in Channels : StationTurn(c)
        BY <1>1, <2>2, OnlyStationsSend
  <2>4. connected /\ ~collision
        BY <2>2, <2>3, StationSends
  <2>5. turn # 1
        BY <2>3, EspPanelAssumption DEF StationTurn, FirstStation, Channels
  <2> QED BY <1>1, <2>4, <2>5 DEF PanelInv, CutOff
<1> QED BY <1>1, AlwaysPanelInv, PTL DEF Spec, SilentInCollision

\* A button asks for the other position than the one its LEDs show: what a
\* station goes by and what its LEDs show change together.
THEOREM PressesAskForOther == Spec => PressesFlip
<1> DEFINE Flip ==
        Len(commands') > Len(commands) =>
            \A c \in Configured :
                commands'[Len(commands')] # <<ChannelAddress[c], led[c]>>
<1>1. ASSUME PanelInv, [Next]_vars PROVE [Flip]_vars
  <2> SUFFICES ASSUME Next, Len(commands') > Len(commands), NEW d \in Configured
               PROVE  commands'[Len(commands')] # <<ChannelAddress[d], led[d]>>
      BY <1>1
  <2>1. PICK c \in Channels : StationTurn(c)
        BY <1>1, OnlyStationsSend
  <2>2. commands' # commands
        BY <1>1 DEF PanelInv, Sent
  <2>3. /\ ChannelAddress[c] # 0
        /\ commands' = Append(commands, <<ChannelAddress[c], Opposite(known[c])>>)
        BY <2>1, <2>2, StationSends
  <2>4. commands'[Len(commands')] = <<ChannelAddress[c], Opposite(known[c])>>
        BY <1>1, <2>3 DEF PanelInv, Sent
  <2>5. ChannelAddress[c] = ChannelAddress[d] => c = d
        BY <2>3, EspPanelAssumption DEF Configured
  <2>6. led[c] # Opposite(known[c])
        BY <1>1 DEF PanelInv, ShowsKnown, Opposite
  <2> QED BY <2>4, <2>5, <2>6
<1> QED BY <1>1, AlwaysPanelInv, PTL DEF Spec, PressesFlip, Flip
--------------------------------------------------------------------------------
(***************************************************************************)
(* The newest report about a turnout, in a sequence that grows at its end  *)
(* and is read at its beginning.  That there is a newest one at all is     *)
(* part of the invariant (Dated), and so needs no induction.               *)
(***************************************************************************)
Dated(q, c) == ReportedIn(q, c) => \E i \in DOMAIN q : IsNewest(q, c, i)

LEMMA NewestIs ==
    ASSUME NEW S, NEW q \in Seq(S), NEW c, NEW i \in DOMAIN q, IsNewest(q, c, i)
    PROVE  Newest(q, c) = q[i][2] /\ ReportedIn(q, c) /\ Dated(q, c)
<1> DEFINE k == CHOOSE j \in DOMAIN q : IsNewest(q, c, j)
<1>1. k \in DOMAIN q /\ IsNewest(q, c, k)
      OBVIOUS
<1>2. Newest(q, c) = q[k][2]
      BY DEF Newest
<1> HIDE DEF k
<1>3. k = i
  <2>1. DOMAIN q = 1 .. Len(q) /\ Len(q) \in Nat
        OBVIOUS
  <2>2. k <= i /\ i <= k
        BY <1>1 DEF IsNewest
  <2> QED BY <1>1, <2>1, <2>2
<1>4. ReportedIn(q, c)
      BY DEF IsNewest, ReportedIn
<1> QED BY <1>2, <1>3, <1>4 DEF Dated

LEMMA NewestAppended ==
    ASSUME NEW S, NEW q \in Seq(S), NEW r \in S
    PROVE  /\ Append(q, r) \in Seq(S)
           /\ /\ ReportedIn(Append(q, r), r[1]) /\ Dated(Append(q, r), r[1])
              /\ Newest(Append(q, r), r[1]) = r[2]
<1> DEFINE z == Append(q, r)
           n == Len(q) + 1
<1>1. z \in Seq(S) /\ DOMAIN z = 1 .. n /\ n \in Nat \ {0} /\ z[n] = r
      OBVIOUS
<1> HIDE DEF z, n
<1>2. n \in DOMAIN z /\ \A j \in DOMAIN z : j <= n
      BY <1>1
<1>3. IsNewest(z, r[1], n)
      BY <1>1, <1>2 DEF IsNewest
<1>4. Newest(z, r[1]) = z[n][2] /\ ReportedIn(z, r[1]) /\ Dated(z, r[1])
      BY <1>1, <1>2, <1>3, NewestIs
<1> QED BY <1>1, <1>4 DEF z

LEMMA OthersAppended ==
    ASSUME NEW S, NEW q \in Seq(S), NEW r \in S, NEW c, r[1] # c, Dated(q, c)
    PROVE  /\ ReportedIn(Append(q, r), c) <=> ReportedIn(q, c)
           /\ Dated(Append(q, r), c)
           /\ ReportedIn(q, c) => Newest(Append(q, r), c) = Newest(q, c)
<1> DEFINE z == Append(q, r)
           n == Len(q)
<1>1. /\ z \in Seq(S) /\ DOMAIN z = 1 .. n + 1 /\ n \in Nat /\ z[n + 1] = r
      /\ DOMAIN q = 1 .. n /\ \A i \in 1 .. n : z[i] = q[i]
      OBVIOUS
<1> HIDE DEF z, n
<1>2. \A i \in DOMAIN z : z[i][1] = c => i \in DOMAIN q /\ q[i][1] = c
      BY <1>1
<1>3. \A i \in DOMAIN q : i \in DOMAIN z /\ z[i] = q[i]
      BY <1>1
<1>4. ReportedIn(z, c) <=> ReportedIn(q, c)
      BY <1>2, <1>3 DEF ReportedIn
<1>5. ASSUME ReportedIn(q, c) PROVE Dated(z, c) /\ Newest(z, c) = Newest(q, c)
  <2>1. PICK i \in DOMAIN q : IsNewest(q, c, i)
        BY <1>5 DEF Dated
  <2>2. IsNewest(z, c, i)
        BY <1>2, <1>3, <2>1 DEF IsNewest
  <2>3. Newest(q, c) = q[i][2]
        BY <2>1, NewestIs
  <2>4. Newest(z, c) = z[i][2] /\ Dated(z, c)
        BY <1>1, <1>3, <2>2, NewestIs
  <2> QED BY <1>3, <2>3, <2>4
<1>6. Dated(z, c)
      BY <1>4, <1>5 DEF Dated
<1> QED BY <1>4, <1>5, <1>6 DEF z

\* Either what is left says the same, or the head was the newest report.
LEMMA NewestLeft ==
    ASSUME NEW S, NEW q \in Seq(S), q # <<>>, NEW c, Dated(q, c)
    PROVE  /\ Tail(q) \in Seq(S) /\ Head(q) \in S /\ Dated(Tail(q), c)
           /\ ReportedIn(Tail(q), c)
                 => ReportedIn(q, c) /\ Newest(Tail(q), c) = Newest(q, c)
           /\ ~ReportedIn(Tail(q), c) /\ ReportedIn(q, c)
                 => Head(q)[1] = c /\ Newest(q, c) = Head(q)[2]
<1> DEFINE z == Tail(q)
           n == Len(q)
<1>1. /\ z \in Seq(S) /\ DOMAIN z = 1 .. n - 1 /\ n \in Nat \ {0}
      /\ DOMAIN q = 1 .. n /\ \A i \in 1 .. n - 1 : z[i] = q[i + 1]
      /\ Head(q) = q[1] /\ q[1] \in S
      OBVIOUS
<1> HIDE DEF z, n
<1>2. \A i \in DOMAIN z : i + 1 \in DOMAIN q /\ z[i] = q[i + 1] /\ i + 1 # 1
      BY <1>1
<1>3. ASSUME NEW i \in DOMAIN q, i # 1
      PROVE  i - 1 \in DOMAIN z /\ z[i - 1] = q[i]
  <2>1. i - 1 \in 1 .. n - 1 /\ (i - 1) + 1 = i
        BY <1>1, <1>3
  <2> QED BY <1>1, <2>1
<1>4. CASE ~ReportedIn(q, c)
  <2>1. ~ReportedIn(z, c)
        BY <1>2, <1>4 DEF ReportedIn
  <2> QED BY <1>1, <1>4, <2>1 DEF Dated, z
<1>5. CASE ReportedIn(q, c)
  <2>1. PICK i \in DOMAIN q : IsNewest(q, c, i)
        BY <1>5 DEF Dated
  <2>2. Newest(q, c) = q[i][2] /\ q[i][1] = c
        BY <2>1, NewestIs DEF IsNewest
  <2>3. CASE i = 1
    <3>1. \A j \in DOMAIN z : z[j][1] # c
      <4> SUFFICES ASSUME NEW j \in DOMAIN z, z[j][1] = c PROVE FALSE
          OBVIOUS
      <4>1. j + 1 <= 1
            BY <1>2, <2>1, <2>3 DEF IsNewest
      <4> QED BY <1>1, <4>1
    <3>2. ~ReportedIn(z, c)
          BY <3>1 DEF ReportedIn
    <3> QED BY <1>1, <2>2, <2>3, <3>2 DEF Dated, z
  <2>4. CASE i # 1
    <3>1. i - 1 \in DOMAIN z /\ z[i - 1] = q[i]
          BY <1>3, <2>4
    <3>2. ASSUME NEW j \in DOMAIN z, z[j][1] = c PROVE j <= i - 1
      <4>1. j + 1 <= i
            BY <1>2, <2>1, <3>2 DEF IsNewest
      <4> QED BY <1>1, <4>1
    <3>3. IsNewest(z, c, i - 1)
          BY <2>2, <3>1, <3>2 DEF IsNewest
    <3>4. Newest(z, c) = z[i - 1][2] /\ ReportedIn(z, c) /\ Dated(z, c)
          BY <1>1, <3>1, <3>3, NewestIs
    <3> QED BY <1>1, <1>5, <2>2, <3>1, <3>4 DEF z
  <2> QED BY <2>3, <2>4
<1> QED BY <1>4, <1>5
--------------------------------------------------------------------------------
\* Every sequence of reports has its newest one about each turnout, and what
\* a pair of LEDs is going to show is where its turnout lies.
Messages == States \cup {ForeignMac}
Reports == Channels \X Positions

Filed ==
    /\ inbox \in Seq(Messages) /\ \A a \in Addresses : Dated(inbox, a)
    /\ queue \in Seq(Reports) /\ \A c \in Channels : Dated(queue, c)
    /\ position \in [Addresses -> Positions]

ExplainedAt(c) ==
    LET a == ChannelAddress[c]
    IN  \/ a \in missed
        \/ position[a] = IF ReportedIn(inbox, a) THEN Newest(inbox, a)
                         ELSE IF ReportedIn(queue, c) THEN Newest(queue, c)
                         ELSE IF led[c] = "blink" THEN position[a] ELSE led[c]

ReportInv == Filed /\ \A c \in Configured : ExplainedAt(c)

LEMMA EmptyDated ==
    ASSUME NEW c
    PROVE  ~ReportedIn(<<>>, c) /\ Dated(<<>>, c)
BY DEF ReportedIn, Dated

\* Channels and the addresses they claim correspond one to one.
LEMMA ChannelsClaim ==
    /\ \A c \in Configured :
          /\ c \in Channels /\ ChannelAddress[c] \in Addresses
          /\ ChannelOf(ChannelAddress[c]) = c
    /\ \A a \in Addresses :
          /\ ChannelOf(a) \in Configured /\ ChannelAddress[ChannelOf(a)] = a
          /\ a # 0
<1>1. ASSUME NEW c \in Configured
      PROVE  /\ c \in Channels /\ ChannelAddress[c] \in Addresses
             /\ ChannelOf(ChannelAddress[c]) = c
  <2>1. c \in Channels /\ ChannelAddress[c] # 0
        BY DEF Configured
  <2>2. \A d \in Channels : ChannelAddress[d] = ChannelAddress[c] => d = c
        BY <2>1, EspPanelAssumption
  <2> QED BY <2>1, <2>2 DEF Addresses, ChannelOf
<1>2. ASSUME NEW a \in Addresses
      PROVE  /\ ChannelOf(a) \in Configured /\ ChannelAddress[ChannelOf(a)] = a
             /\ a # 0
  <2>1. PICK c \in Configured : ChannelAddress[c] = a
        BY DEF Addresses, Configured
  <2> QED BY <1>1, <2>1 DEF Addresses
<1> QED BY <1>1, <1>2

LEMMA InitReportInv == Init => ReportInv
<1> SUFFICES ASSUME Init PROVE ReportInv
    OBVIOUS
<1>1. inbox = <<>> /\ queue = <<>> /\ position \in [Addresses -> Positions]
      BY DEF Init
<1>2. \A c \in Channels : led[c] = "blink"
      BY DEF Init, Blinking
<1>3. Filed
      BY <1>1, EmptyDated DEF Filed
<1>4. \A c \in Configured : ExplainedAt(c)
      BY <1>1, <1>2, EmptyDated, ChannelsClaim DEF ExplainedAt
<1> QED BY <1>3, <1>4 DEF ReportInv

\* Turns that look at no report, and most of what happens outside.
LEMMA ReportsLeftAlone ==
    ASSUME ReportInv, UNCHANGED <<inbox, queue, led, position, missed>>
    PROVE  ReportInv'
BY DEF ReportInv, Filed, ExplainedAt

\* A message that is read: its report goes to the end of the queue.
LEMMA ReceiveFiles ==
    ASSUME ReportInv, Receive, UNCHANGED <<led, position, missed>>
    PROVE  ReportInv'
<1>1. /\ inbox \in Seq(Messages) /\ inbox # <<>> /\ inbox' = Tail(inbox)
      /\ queue \in Seq(Reports)
      BY DEF Receive, ReportInv, Filed
<1>2. /\ Tail(inbox) \in Seq(Messages) /\ Head(inbox) \in Messages
      /\ \A a \in Addresses :
            /\ Dated(Tail(inbox), a)
            /\ ReportedIn(Tail(inbox), a)
                  => ReportedIn(inbox, a) /\ Newest(Tail(inbox), a) = Newest(inbox, a)
            /\ ~ReportedIn(Tail(inbox), a) /\ ReportedIn(inbox, a)
                  => Head(inbox)[1] = a /\ Newest(inbox, a) = Head(inbox)[2]
      BY <1>1, NewestLeft DEF ReportInv, Filed
<1>3. CASE Head(inbox) = ForeignMac
  <2>1. queue' = queue
        BY <1>3 DEF Receive
  <2>2. \A a \in Addresses : ReportedIn(inbox, a) <=> ReportedIn(Tail(inbox), a)
        BY <1>2, <1>3, ChannelsClaim DEF ForeignMac
  <2>3. Filed'
        BY <1>1, <1>2, <2>1 DEF Filed, ReportInv
  <2>4. \A c \in Configured : ExplainedAt(c)'
        BY <1>1, <1>2, <2>1, <2>2, ChannelsClaim DEF ExplainedAt, ReportInv
  <2> QED BY <2>3, <2>4 DEF ReportInv
<1>4. CASE Head(inbox) # ForeignMac
  <2> DEFINE b == Head(inbox)[1]
             p == Head(inbox)[2]
             d == ChannelOf(b)
             r == <<d, p>>
  <2>1. b \in Addresses /\ p \in Positions
        BY <1>2, <1>4 DEF Messages, States
  <2>2. queue' = Append(queue, <<d, p>>)
        BY <1>4 DEF Receive
  <2>3. d \in Configured /\ d \in Channels /\ ChannelAddress[d] = b
        BY <2>1, ChannelsClaim
  <2>4. r \in Reports /\ r[1] = d /\ r[2] = p
        BY <2>1, <2>3 DEF Reports
  <2> HIDE DEF b, p, d
  <2>5. /\ Append(queue, r) \in Seq(Reports)
        /\ ReportedIn(Append(queue, r), d) /\ Dated(Append(queue, r), d)
        /\ Newest(Append(queue, r), d) = p
        BY <1>1, <2>4, NewestAppended
  <2>6. \A c \in Channels : d # c =>
           /\ ReportedIn(Append(queue, r), c) <=> ReportedIn(queue, c)
           /\ Dated(Append(queue, r), c)
           /\ ReportedIn(queue, c) => Newest(Append(queue, r), c) = Newest(queue, c)
    <3> SUFFICES ASSUME NEW c \in Channels, d # c
                 PROVE  /\ ReportedIn(Append(queue, r), c) <=> ReportedIn(queue, c)
                        /\ Dated(Append(queue, r), c)
                        /\ ReportedIn(queue, c)
                              => Newest(Append(queue, r), c) = Newest(queue, c)
        OBVIOUS
    <3>1. Dated(queue, c)
          BY DEF ReportInv, Filed
    <3> QED BY <1>1, <2>4, <3>1, OthersAppended
  <2> DEFINE z == Append(queue, r)
  <2>7. queue' = z
        BY <2>2
  <2> HIDE DEF z, r
  <2>8. Filed'
        BY <1>1, <1>2, <2>5, <2>6, <2>7 DEF Filed, ReportInv, z
  <2>9. ReportedIn(inbox, b)
    <3>1. 1 \in DOMAIN inbox /\ inbox[1] = Head(inbox)
          BY <1>1
    <3> QED BY <3>1 DEF ReportedIn, b
  <2>10. ASSUME NEW c \in Configured PROVE ExplainedAt(c)'
    <3> DEFINE a == ChannelAddress[c]
    <3>1. a \in Addresses /\ c \in Channels /\ ExplainedAt(c)
          BY ChannelsClaim DEF ReportInv
    <3>2. CASE c = d
      <4>1. a = b
            BY <2>3, <3>2
      <4>2. Newest(inbox, b) = IF ReportedIn(Tail(inbox), b)
                               THEN Newest(Tail(inbox), b) ELSE p
            BY <1>2, <2>1, <2>9 DEF p
      <4> QED BY <1>1, <2>5, <2>7, <2>9, <3>1, <3>2, <4>1, <4>2 DEF ExplainedAt, z
    <3>3. CASE c # d
      <4>1. a # b
            BY <2>1, <3>3, ChannelsClaim DEF d
      <4>2. /\ ReportedIn(Tail(inbox), a) <=> ReportedIn(inbox, a)
            /\ ReportedIn(inbox, a) => Newest(Tail(inbox), a) = Newest(inbox, a)
            BY <1>2, <3>1, <4>1 DEF b
      <4> QED BY <1>1, <2>6, <2>7, <3>1, <3>3, <4>2 DEF ExplainedAt, z
    <3> QED BY <3>2, <3>3
  <2> QED BY <2>8, <2>10 DEF ReportInv
<1> QED BY <1>3, <1>4

\* What was queued, the LEDs show next; or else they blink.
LEMMA FeedbackShows == ReportInv /\ FeedbackTurn => ReportInv'
<1> SUFFICES ASSUME ReportInv, FeedbackTurn PROVE ReportInv'
    OBVIOUS
<1>1. inbox' = inbox /\ position' = position /\ missed' = missed
      BY DEF FeedbackTurn, history
<1>2. CASE Listens
  <2>1. queue' = <<>> /\ led' = Drained(led, queue)
        BY <1>2 DEF FeedbackTurn
  <2>2. Filed'
        BY <1>1, <2>1, EmptyDated DEF Filed, ReportInv
  <2>3. ASSUME NEW c \in Configured PROVE ExplainedAt(c)'
    <3>1. c \in Channels /\ ExplainedAt(c) /\ Dated(queue, c) /\ queue \in Seq(Reports)
          BY ChannelsClaim DEF ReportInv, Filed
    <3>2. led'[c] = IF ReportedIn(queue, c) THEN Newest(queue, c) ELSE led[c]
          BY <2>1, <3>1 DEF Drained
    <3>3. ~ReportedIn(queue', c)
          BY <2>1, EmptyDated
    <3> QED BY <1>1, <3>1, <3>2, <3>3 DEF ExplainedAt
  <2> QED BY <2>2, <2>3 DEF ReportInv
<1>3. CASE ~Listens
  <2>1. queue' = queue /\ led' = Blinking
        BY <1>3 DEF FeedbackTurn
  <2>2. \A c \in Channels : led'[c] = "blink"
        BY <2>1 DEF Blinking
  <2>3. Filed'
        BY <1>1, <2>1 DEF Filed, ReportInv
  <2>4. ASSUME NEW c \in Configured PROVE ExplainedAt(c)'
        BY <1>1, <2>1, <2>2, ChannelsClaim DEF ExplainedAt, ReportInv
  <2> QED BY <2>3, <2>4 DEF ReportInv
<1> QED BY <1>2, <1>3

\* A turnout that moves is reported, or its report is missed.
LEMMA MovedReports ==
    ASSUME ReportInv, NEW a \in Addresses, NEW p \in Positions, Moved(a, p)
    PROVE  ReportInv'
<1>1. queue' = queue /\ led' = led /\ position' = [position EXCEPT ![a] = p]
      BY DEF Moved, node
<1>2. position' \in [Addresses -> Positions] /\ position'[a] = p
      BY <1>1 DEF ReportInv, Filed
<1>3. \A b \in Addresses : b # a => position'[b] = position[b]
      BY <1>1 DEF ReportInv, Filed
<1>4. CASE connected
  <2> DEFINE r == <<a, p>>
             z == Append(inbox, r)
  <2>1. inbox' = z /\ missed' = missed \ {a}
        BY <1>4 DEF Moved, Broadcast
  <2>2. r \in Messages /\ r[1] = a /\ r[2] = p /\ inbox \in Seq(Messages)
        BY DEF Messages, States, ReportInv, Filed
  <2> HIDE DEF r
  <2>3. /\ z \in Seq(Messages) /\ ReportedIn(z, a) /\ Dated(z, a)
        /\ Newest(z, a) = p
        BY <2>2, NewestAppended
  <2>4. ASSUME NEW b \in Addresses, a # b
        PROVE  /\ ReportedIn(z, b) <=> ReportedIn(inbox, b)
               /\ Dated(z, b)
               /\ ReportedIn(inbox, b) => Newest(z, b) = Newest(inbox, b)
    <3>1. Dated(inbox, b)
          BY DEF ReportInv, Filed
    <3> QED BY <2>2, <2>4, <3>1, OthersAppended
  <2> HIDE DEF z
  <2>5. Filed'
        BY <1>1, <1>2, <2>1, <2>3, <2>4 DEF Filed, ReportInv
  <2>6. ASSUME NEW c \in Configured PROVE ExplainedAt(c)'
    <3>1. ChannelAddress[c] \in Addresses /\ ExplainedAt(c)
          BY ChannelsClaim DEF ReportInv
    <3> QED BY <1>1, <1>2, <1>3, <2>1, <2>3, <2>4, <3>1 DEF ExplainedAt
  <2> QED BY <2>5, <2>6 DEF ReportInv
<1>5. CASE ~connected
  <2>1. inbox' = inbox /\ missed' = missed \cup {a}
        BY <1>5 DEF Moved, Broadcast
  <2>2. Filed'
        BY <1>1, <1>2, <2>1 DEF Filed, ReportInv
  <2>3. ASSUME NEW c \in Configured PROVE ExplainedAt(c)'
    <3>1. ChannelAddress[c] \in Addresses /\ ExplainedAt(c)
          BY ChannelsClaim DEF ReportInv
    <3> QED BY <1>1, <1>3, <2>1, <3>1 DEF ExplainedAt
  <2> QED BY <2>2, <2>3 DEF ReportInv
<1> QED BY <1>4, <1>5

\* The mac of another node is no report about a turnout.
LEMMA ClaimReportsNothing == ReportInv /\ Claim => ReportInv'
<1> SUFFICES ASSUME ReportInv, Claim PROVE ReportInv'
    OBVIOUS
<1> DEFINE z == Append(inbox, ForeignMac)
<1>1. /\ inbox' = z /\ queue' = queue /\ led' = led
      /\ position' = position /\ missed' = missed
      BY DEF Claim, node, history
<1>2. /\ inbox \in Seq(Messages) /\ ForeignMac \in Messages /\ ForeignMac[1] = 0
      /\ z \in Seq(Messages)
      BY DEF Messages, ForeignMac, ReportInv, Filed
<1>3. ASSUME NEW b \in Addresses
      PROVE  /\ ReportedIn(z, b) <=> ReportedIn(inbox, b)
             /\ Dated(z, b)
             /\ ReportedIn(inbox, b) => Newest(z, b) = Newest(inbox, b)
  <2>1. Dated(inbox, b) /\ ForeignMac[1] # b
        BY <1>2, ChannelsClaim DEF ReportInv, Filed
  <2> QED BY <1>2, <2>1, OthersAppended
<1> HIDE DEF z
<1>4. Filed'
      BY <1>1, <1>2, <1>3 DEF Filed, ReportInv
<1>5. ASSUME NEW c \in Configured PROVE ExplainedAt(c)'
  <2>1. ChannelAddress[c] \in Addresses /\ ExplainedAt(c)
        BY ChannelsClaim DEF ReportInv
  <2> QED BY <1>1, <1>3, <2>1 DEF ExplainedAt
<1> QED BY <1>4, <1>5 DEF ReportInv

\* What the lost link held is missed.
LEMMA LostAreMissed ==
    ASSUME ReportInv, LoseLink,
           \/ queue' = queue /\ led' = led
           \/ queue' = <<>> /\ led' = Blinking
    PROVE  ReportInv'
<1>1. /\ inbox' = <<>> /\ position' = position /\ missed \subseteq missed'
      /\ \A a \in Addresses : ReportedIn(inbox, a) => a \in missed'
      BY DEF LoseLink, ReportedIn
<1>2. Filed'
  <2>1. queue' \in Seq(Reports) /\ \A c \in Channels : Dated(queue', c)
    <3>1. CASE queue' = queue
          BY <3>1 DEF Filed, ReportInv
    <3>2. CASE queue' = <<>>
          BY <3>2, EmptyDated
    <3> QED BY <3>1, <3>2
  <2>2. inbox' \in Seq(Messages) /\ \A a \in Addresses : Dated(inbox', a)
        BY <1>1, EmptyDated
  <2> QED BY <1>1, <2>1, <2>2, Zenon DEF Filed, ReportInv
<1>3. ASSUME NEW c \in Configured PROVE ExplainedAt(c)'
  <2>1. ChannelAddress[c] \in Addresses /\ c \in Channels /\ ExplainedAt(c)
        BY ChannelsClaim DEF ReportInv
  <2>2. ~ReportedIn(inbox', ChannelAddress[c])
        BY <1>1, EmptyDated
  <2>3. CASE queue' = queue /\ led' = led
        BY <1>1, <2>1, <2>2, <2>3 DEF ExplainedAt
  <2>4. CASE queue' = <<>> /\ led' = Blinking
    <3>1. ~ReportedIn(queue', c) /\ led'[c] = "blink"
          BY <2>1, <2>4, EmptyDated DEF Blinking
    <3> QED BY <1>1, <2>2, <3>1 DEF ExplainedAt
  <2> QED BY <2>3, <2>4
<1> QED BY <1>2, <1>3 DEF ReportInv

LEMMA NextReportInv == PanelInv /\ ReportInv /\ [Next]_vars => ReportInv'
<1> SUFFICES ASSUME PanelInv, ReportInv, [Next]_vars PROVE ReportInv'
    OBVIOUS
<1>1. CASE CollisionTurn
      BY <1>1, ReportsLeftAlone DEF CollisionTurn
<1>2. CASE MqttTurn
  <2>1. UNCHANGED <<led, position, missed>>
        BY <1>2 DEF MqttTurn
  <2>2. CASE Connect \/ Idle
        BY <2>1, <2>2, ReportsLeftAlone DEF Connect, Idle
  <2>3. CASE Receive
        BY <2>1, <2>3, ReceiveFiles
  <2> QED BY <1>2, <2>2, <2>3 DEF MqttTurn
<1>3. CASE FeedbackTurn
      BY <1>3, FeedbackShows
<1>4. ASSUME NEW c \in Channels, StationTurn(c) PROVE ReportInv'
      BY <1>4, ReportsLeftAlone DEF StationTurn, history
<1>5. CASE Execute
  <2>1. Head(commands) \in States
        BY <1>5 DEF Execute, PanelInv, Sent
  <2> QED BY <1>5, <2>1, MovedReports DEF Execute, States
<1>6. ASSUME NEW a \in Addresses, OtherMove(a) \/ Republish(a) PROVE ReportInv'
  <2>1. position[a] \in Positions /\ Opposite(position[a]) \in Positions
        BY DEF ReportInv, Filed, Opposite, Positions
  <2> QED BY <1>6, <2>1, MovedReports DEF OtherMove, Republish
<1>7. CASE Claim
      BY <1>7, ClaimReportsNothing
<1>8. CASE WiFiChange
      BY <1>8, ReportsLeftAlone DEF WiFiChange, node, history
<1>9. CASE Drop
      BY <1>9, LostAreMissed DEF Drop, node
<1>10. CASE PowerCycle
      BY <1>10, LostAreMissed DEF PowerCycle
<1>11. CASE UNCHANGED vars
      BY <1>11, ReportsLeftAlone DEF vars, node, history
<1> QED BY <1>1, <1>2, <1>3, <1>4, <1>5, <1>6, <1>7, <1>8, <1>9, <1>10, <1>11
        DEF Next, LoopTurn, Outside

\* What a node shows of a turnout is where the turnout lies, but for reports
\* on their way, in the queue, or lost with the link; and where it may be
\* wrong for want of a link it shows nothing.
THEOREM IndicatorsAreExplained == Spec => []IndicatorsExplained
<1>1. Init => ReportInv
      BY InitReportInv
<1>2. PanelInv /\ ReportInv /\ [Next]_vars => ReportInv'
      BY NextReportInv
<1>3. ReportInv => IndicatorsExplained
      BY DEF ReportInv, ExplainedAt, IndicatorsExplained
<1> QED BY <1>1, <1>2, <1>3, AlwaysPanelInv, PTL DEF Spec
================================================================================
