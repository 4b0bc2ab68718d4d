-------------------------------- MODULE EspPanel --------------------------------
(***************************************************************************)
(* The loop() of a configured ESP32 node between its buttons and LEDs and  *)
(* the MQTT broker: the collision flag is read, the link is polled, the    *)
(* reports that have arrived go to the stations, and every station looks   *)
(* at its button.  The link may be lost between any two of these turns,    *)
(* the node may be switched off and on, other throttles move turnouts, and *)
(* another node may turn out to have the same node id.                     *)
(*                                                                         *)
(* Broker, Loco2MQTT, MqttLink and the state source that queues reports    *)
(* are not part of src/: Loco2MQTT carries out commands, publishes each    *)
(* state that changes and, every 30 s, each state there is; the link drops *)
(* what it is given while it is down, and so does the broker.              *)
(***************************************************************************)
EXTENDS Naturals, Sequences

CONSTANTS
    ChannelAddress, \* channelTurnoutAddresses; 0 is an unconfigured channel
    InFlight,       \* bound: messages on their way to the node
    Queued,         \* bound: reports in the queue of the state source
    CommandsOut     \* bound: commands on their way to Loco2MQTT

Channels == DOMAIN ChannelAddress
Addresses == {ChannelAddress[c] : c \in Channels} \ {0}
Positions == {"Thrown", "Closed"}
Opposite(p) == IF p = "Closed" THEN "Thrown" ELSE "Closed"

\* NodeConfig::validate(): no two channels claim one address.
ASSUME EspPanelAssumption ==
    /\ ChannelAddress \in Seq(Nat)
    /\ \A c, d \in Channels :
          ChannelAddress[c] = ChannelAddress[d] /\ ChannelAddress[c] # 0 => c = d
    /\ {InFlight, Queued, CommandsOut} \subseteq Nat \ {0}

States == Addresses \X Positions
\* What the broker sends: states, and the mac of another node with this id.
ForeignMac == <<0, "mac">>

VARIABLES
    turn,       \* the turn of loop() that comes next
    claimed,    \* identityGuard.collisionDetected()
    collision,  \* the flag as this pass of loop() read it
    wifi,       \* wifiLink.connected()
    connected,  \* mqttLink.connected(), which may lag behind wifi
    inbox,      \* what the broker sent and the node has not read
    queue,      \* reports the state source has queued
    known,      \* turnout_.position() of every station
    led,        \* what every pair of LEDs shows
    commands,   \* commands on their way to Loco2MQTT
    position,   \* where each turnout lies
    missed,     \* history: addresses whose last report did not reach the node
    confirmed,  \* history: addresses reported on since the link was made
    cutOff      \* history: all of this pass without link, or in a collision

node == <<turn, claimed, collision, queue, known, led>>
history == <<missed, confirmed, cutOff>>
vars == <<node, wifi, connected, inbox, commands, position, history>>

\* The turns of one pass; a station's turn is its channel.
FirstStation == 4
LastTurn == FirstStation + Len(ChannelAddress) - 1

TypeOK ==
    /\ turn \in 1 .. LastTurn
    /\ claimed \in BOOLEAN /\ collision \in BOOLEAN
    /\ wifi \in BOOLEAN /\ connected \in BOOLEAN /\ cutOff \in BOOLEAN
    /\ inbox \in Seq(States \cup {ForeignMac}) /\ Len(inbox) <= InFlight
    /\ queue \in Seq(Channels \X Positions) /\ Len(queue) <= Queued
    /\ known \in [Channels -> Positions]
    /\ led \in [Channels -> Positions \cup {"blink"}]
    /\ commands \in Seq(States) /\ Len(commands) <= CommandsOut
    /\ position \in [Addresses -> Positions]
    /\ missed \subseteq Addresses /\ confirmed \subseteq Addresses

\* ToggleTurnoutStation: Closed until something is known, and no LED lit.
Blinking == [c \in Channels |-> "blink"]
Unknown == [c \in Channels |-> "Closed"]

Init ==
    /\ turn = 1
    /\ claimed = FALSE /\ collision = FALSE
    /\ wifi = FALSE /\ connected = FALSE
    /\ inbox = <<>> /\ queue = <<>> /\ commands = <<>>
    /\ known = Unknown /\ led = Blinking
    /\ position \in [Addresses -> Positions]
    /\ missed = {} /\ confirmed = {}
    /\ cutOff = TRUE
--------------------------------------------------------------------------------
EndTurn == turn' = IF turn = LastTurn THEN 1 ELSE turn + 1

\* Slip: a link that is down now counts as a collision for this pass.
CollisionTurnUnlinked ==
    /\ turn = 1 /\ EndTurn
    /\ collision' = (claimed \/ ~connected)
    /\ cutOff' = (~connected \/ claimed)
    /\ UNCHANGED <<claimed, wifi, connected, inbox, queue, known, led, commands,
                   position, missed, confirmed>>

CollisionTurn ==
    /\ turn = 1 /\ EndTurn
    /\ collision' = claimed
    /\ cutOff' = (~connected \/ claimed)
    /\ UNCHANGED <<claimed, wifi, connected, inbox, queue, known, led, commands,
                   position, missed, confirmed>>

\* connect() makes the link and subscribes again.
Connect ==
    /\ wifi /\ ~connected
    /\ connected' = TRUE
    /\ confirmed' = {}
    /\ cutOff' = collision
    /\ UNCHANGED <<claimed, inbox, queue>>

\* The channel of an address the node subscribed to.
ChannelOf(a) == CHOOSE c \in Channels : ChannelAddress[c] = a

\* loop() reads one message and hands it to whoever subscribed.
Receive ==
    /\ wifi /\ connected /\ inbox # <<>>
    /\ IF Head(inbox) = ForeignMac
       THEN claimed' = TRUE /\ UNCHANGED <<queue, confirmed>>
       ELSE LET report == Head(inbox)
            IN  /\ Len(queue) < Queued
                /\ queue' = Append(queue, <<ChannelOf(report[1]), report[2]>>)
                /\ confirmed' = confirmed \cup {report[1]}
                /\ UNCHANGED claimed
    /\ inbox' = Tail(inbox)
    /\ UNCHANGED <<connected, cutOff>>

\* No poll() for want of WiFi, or one without link or message.
Idle ==
    /\ ~wifi \/ ~connected \/ inbox = <<>> \/ Len(queue) = Queued
    /\ UNCHANGED <<claimed, connected, inbox, queue, confirmed, cutOff>>

MqttTurn ==
    /\ turn = 2 /\ EndTurn
    /\ Connect \/ Receive \/ Idle
    /\ UNCHANGED <<collision, known, led, wifi, commands, position, missed>>
--------------------------------------------------------------------------------
ReportedIn(reports, c) == \E i \in DOMAIN reports : reports[i][1] = c
IsNewest(reports, c, i) ==
    /\ reports[i][1] = c
    /\ \A j \in DOMAIN reports : reports[j][1] = c => j <= i
Newest(reports, c) == reports[CHOOSE i \in DOMAIN reports : IsNewest(reports, c, i)][2]

\* What the loop over poll() and applyFeedback() leaves in a station.
Drained(of, reports) ==
    [c \in Channels |->
        IF ReportedIn(reports, c) THEN Newest(reports, c) ELSE of[c]]

\* Slip: the link is not looked at.
ListensUnlinked == ~collision
Listens == connected /\ ~collision

\* Slips in FeedbackTurn: the indicators are cleared on every pass, ...
FeedbackTurnCleared ==
    /\ turn = 3 /\ EndTurn
    /\ led' = Blinking
    /\ IF Listens
       THEN queue' = <<>> /\ known' = Drained(known, queue)
       ELSE UNCHANGED <<queue, known>>
    /\ UNCHANGED <<claimed, collision, wifi, connected, inbox, commands,
                   position, history>>
\* ... or reports are dropped and LEDs left alone unless it listens, ...
FeedbackTurnDropping ==
    /\ turn = 3 /\ EndTurn
    /\ queue' = <<>>
    /\ IF Listens
       THEN known' = Drained(known, queue) /\ led' = Drained(led, queue)
       ELSE UNCHANGED <<known, led>>
    /\ UNCHANGED <<claimed, collision, wifi, connected, inbox, commands,
                   position, history>>
\* ... or only the LEDs hear of a report.
FeedbackTurnForgetful ==
    /\ turn = 3 /\ EndTurn
    /\ IF Listens
       THEN queue' = <<>> /\ led' = Drained(led, queue)
       ELSE led' = Blinking /\ UNCHANGED queue
    /\ UNCHANGED <<claimed, collision, wifi, connected, inbox, known,
                   commands, position, history>>

\* The queue is drained, or else every indicator is cleared.
FeedbackTurn ==
    /\ turn = 3 /\ EndTurn
    /\ IF Listens
       THEN /\ queue' = <<>>
            /\ known' = Drained(known, queue)
            /\ led' = Drained(led, queue)
       ELSE led' = Blinking /\ UNCHANGED <<queue, known>>
    /\ UNCHANGED <<claimed, collision, wifi, connected, inbox, commands,
                   position, history>>

\* publish() is lost without link or room, and perhaps without WiFi.
Publish(a, p) ==
    \/ /\ connected /\ Len(commands) < CommandsOut
       /\ commands' = Append(commands, <<a, p>>)
    \/ /\ ~wifi \/ ~connected \/ Len(commands) = CommandsOut
       /\ UNCHANGED commands

\* Slip: the gate of the buttons stays open.
MayPressUngated == TRUE
MayPress == ~collision

\* update(): a press asks for the opposite of what was last reported.
StationTurn(c) ==
    /\ turn = FirstStation + c - 1 /\ EndTurn
    /\ \/ UNCHANGED commands
       \/ /\ MayPress
          /\ IF ChannelAddress[c] = 0 THEN UNCHANGED commands
             ELSE Publish(ChannelAddress[c], Opposite(known[c]))
    /\ UNCHANGED <<claimed, collision, queue, known, led, wifi, connected,
                   inbox, position, history>>

LoopTurn ==
    CollisionTurn \/ MqttTurn \/ FeedbackTurn \/ \E c \in Channels : StationTurn(c)
--------------------------------------------------------------------------------
\* The broker passes a state on, or has nobody to pass it on to.
Broadcast(a, p) ==
    IF connected
    THEN /\ Len(inbox) < InFlight
         /\ inbox' = Append(inbox, <<a, p>>)
         /\ missed' = missed \ {a}
    ELSE UNCHANGED inbox /\ missed' = missed \cup {a}

Moved(a, p) ==
    /\ position' = [position EXCEPT ![a] = p]
    /\ Broadcast(a, p)
    /\ UNCHANGED <<node, wifi, connected, confirmed, cutOff>>

\* Loco2MQTT carries a command out.
Execute ==
    /\ commands # <<>>
    /\ commands' = Tail(commands)
    /\ Moved(Head(commands)[1], Head(commands)[2])

OtherMove(a) == Moved(a, Opposite(position[a])) /\ UNCHANGED commands

Republish(a) == Moved(a, position[a]) /\ connected /\ UNCHANGED commands

\* Another node announces itself under this node's id.
Claim ==
    /\ connected /\ Len(inbox) < InFlight
    /\ inbox' = Append(inbox, ForeignMac)
    /\ UNCHANGED <<node, wifi, connected, commands, position, history>>

\* WiFi comes and goes.  What is on its way to the node waits for it.
WiFiChange ==
    /\ wifi' = ~wifi
    /\ UNCHANGED <<node, connected, inbox, commands, position, history>>

\* What was on its way to the node is lost; commands may be.
LoseLink ==
    /\ connected' = FALSE
    /\ inbox' = <<>>
    /\ missed' = missed \cup {a \in Addresses :
                                 \E i \in DOMAIN inbox : inbox[i][1] = a}
    /\ commands' \in {commands, <<>>}
    /\ UNCHANGED position

Drop ==
    /\ connected
    /\ LoseLink
    /\ UNCHANGED <<node, wifi, confirmed, cutOff>>

PowerCycle ==
    /\ LoseLink
    /\ wifi' = FALSE
    /\ turn' = 1
    /\ claimed' = FALSE /\ collision' = FALSE
    /\ queue' = <<>>
    /\ known' = Unknown /\ led' = Blinking
    /\ confirmed' = {}
    /\ cutOff' = TRUE

Outside ==
    \/ Execute
    \/ \E a \in Addresses : OtherMove(a) \/ Republish(a)
    \/ Claim
    \/ WiFiChange
    \/ Drop
    \/ PowerCycle

Next == LoopTurn \/ Outside

\* loop() goes round for ever, and Loco2MQTT re-publishes for ever.
Spec ==
    /\ Init /\ [][Next]_vars
    /\ WF_vars(LoopTurn)
    /\ \A a \in Addresses : SF_vars(Republish(a))
--------------------------------------------------------------------------------
Configured == {c \in Channels : ChannelAddress[c] # 0}

(***************************************************************************)
(* What the node knows of a turnout is where it lies: the newest report on *)
(* its way, else the newest one queued, else the LEDs.  The exceptions are *)
(* LEDs that blink and reports lost because there was no link.             *)
(***************************************************************************)
IndicatorsExplained ==
    \A c \in Configured :
        LET a == ChannelAddress[c]
        IN  \/ a \in missed
            \/ position[a] = IF ReportedIn(inbox, a) THEN Newest(inbox, a)
                             ELSE IF ReportedIn(queue, c) THEN Newest(queue, c)
                             ELSE IF led[c] = "blink" THEN position[a] ELSE led[c]

(***************************************************************************)
(* After a whole pass without link or in a collision every pair blinks.    *)
(***************************************************************************)
BlinksWhenCutOff == turn = 1 /\ cutOff => led = Blinking

(***************************************************************************)
(* A node whose id another one claims sends no more commands, but for      *)
(* those of the pass in which it heard of it.                              *)
(***************************************************************************)
SilentInCollision ==
    [][claimed /\ cutOff => Len(commands') <= Len(commands)]_vars

(***************************************************************************)
(* Unless a collision keeps it from being drained, the queue of the state  *)
(* source holds one report at most, however the link comes and goes.       *)
(***************************************************************************)
QueueDrained == Len(queue) > 1 => claimed

(***************************************************************************)
(* A button never asks for the position its LEDs show.                     *)
(***************************************************************************)
PressesFlip ==
    [][Len(commands') > Len(commands) =>
          \A c \in Configured :
              commands'[Len(commands')] # <<ChannelAddress[c], led[c]>>]_vars

(***************************************************************************)
(* Once both links stay up and the turnouts lie still, the LEDs show       *)
(* where, whatever was lost before.                                        *)
(***************************************************************************)
IndicatorsConverge ==
    <>[](wifi /\ connected /\ ~claimed) /\ <>[][UNCHANGED position]_vars
        => <>[](\A c \in Configured : led[c] = position[ChannelAddress[c]])

(***************************************************************************)
(* A node that has made its link anew shows no position of a turnout that  *)
(* has not been reported on since.                                         *)
(***************************************************************************)
ShowsConfirmedOnly ==
    \A c \in Configured :
        turn = 1 /\ connected /\ led[c] # "blink" => ChannelAddress[c] \in confirmed
================================================================================
