------------------------------- MODULE Presence -------------------------------
(***************************************************************************)
(* Nodes that were given the same node id by mistake.  Each announces its  *)
(* mac when it sees that its link is up, and then every HeartbeatMs, on    *)
(* the topic of their id; each hears whatever is published there, its own  *)
(* announcements too, and takes another mac for a collision.               *)
(*                                                                         *)
(* Broker and MqttLink are not part of src/.  A message is published once, *)
(* without a receipt: it reaches all, some or none of the nodes with a     *)
(* link.  There it waits behind whatever else came for the node, turnout   *)
(* states and identify requests, of which poll() reads one per pass, and   *)
(* it is lost with the link.  Each node has a clock of its own that starts *)
(* with it; they are one clock here, as the code takes differences only.   *)
(***************************************************************************)
EXTENDS Millis, Sequences

CONSTANTS
    Nodes,          \* nodes of one id, each standing for its mac
    HeartbeatMs,    \* kHeartbeatIntervalMs
    Inbox,          \* bound: messages of any kind waiting for a node
    MaxGap          \* bound on loop(): update() runs at least every MaxGap ms

\* A message that is not a mac.
Other == "other"

\* It takes two nodes to collide.
PresenceAssumption ==
    /\ \E m, n \in Nodes : m # n
    /\ {HeartbeatMs, Inbox, MaxGap} \subseteq Nat \ {0}
    /\ HeartbeatMs + MaxGap < Wrap
    /\ Other \notin Nodes

VARIABLES
    now,            \* clock_.nowMilliseconds()
    link,           \* mqttLink.connected()
    wasConnected,   \* wasConnected_
    lastAnnounced,  \* lastAnnouncedAtMs_
    inbox,          \* messages the broker sent and the node has not read
    claimed,        \* identityGuard.collisionDetected()
    togetherFor,    \* history: true ms since all have had a link and no
                    \* announcement was lost, counted up to FoundWithin
    sincePass       \* history: true ms since each node's last pass

\* A heartbeat, a pass, and one more for every message that may wait.
FoundWithin == HeartbeatMs + (Inbox + 1) * MaxGap

announcer == <<wasConnected, lastAnnounced>>
vars == <<now, link, announcer, inbox, claimed, togetherFor, sincePass>>

TypeOK ==
    /\ now \in Stamps
    /\ link \in [Nodes -> BOOLEAN] /\ wasConnected \in [Nodes -> BOOLEAN]
    /\ claimed \in [Nodes -> BOOLEAN] /\ lastAnnounced \in [Nodes -> Stamps]
    /\ inbox \in [Nodes -> Seq(Nodes \cup {Other})]
    /\ \A n \in Nodes : Len(inbox[n]) <= Inbox
    /\ togetherFor \in 0 .. FoundWithin /\ sincePass \in [Nodes -> 0 .. MaxGap]

Init ==
    /\ now = 0
    /\ link = [n \in Nodes |-> FALSE]
    /\ wasConnected = [n \in Nodes |-> FALSE]
    /\ lastAnnounced = [n \in Nodes |-> 0]
    /\ inbox = [n \in Nodes |-> <<>>]
    /\ claimed = [n \in Nodes |-> FALSE]
    /\ togetherFor = 0
    /\ sincePass = [n \in Nodes |-> 0]
-------------------------------------------------------------------------------
Tick ==
    /\ \A n \in Nodes : sincePass[n] < MaxGap
    /\ now' = NextStamp(now)
    /\ togetherFor' = IF \E n \in Nodes : ~link[n] THEN 0
                      ELSE IF togetherFor < FoundWithin THEN togetherFor + 1
                      ELSE togetherFor
    /\ sincePass' = [n \in Nodes |-> sincePass[n] + 1]
    /\ UNCHANGED <<link, announcer, inbox, claimed>>

\* poll() reads a message and hands it to the guard: onMacObserved().
Hears(n) == link[n] /\ inbox[n] # <<>>
ClaimedAfter(n) == claimed[n] \/ (Hears(n) /\ Head(inbox[n]) \notin {n, Other})
Unread(n) == IF Hears(n) THEN Tail(inbox[n]) ELSE inbox[n]

\* Slip: absolute times are compared.
HeartbeatDueAbsolute(n) == now >= Plus(lastAnnounced[n], HeartbeatMs)
HeartbeatDue(n) == Minus(now, lastAnnounced[n]) >= HeartbeatMs

\* Slip: a node that knows of the collision falls silent.
AnnouncesUnclaimed(n) == ~claimed[n] /\ (~wasConnected[n] \/ HeartbeatDue(n))
\* update(), when it is told that the link is up.
Announces(n) == ~wasConnected[n] \/ HeartbeatDue(n)

\* A pass of loop(): poll(), which keeps the link, makes it or loses it, and
\* then update() of the announcer; its message gets to the nodes in told.
Pass(n, up) ==
    LET announces == up /\ Announces(n)
        linked == [link EXCEPT ![n] = up]
        unread == [inbox EXCEPT ![n] = IF up THEN Unread(n) ELSE <<>>]
        within == {m \in Nodes : announces /\ linked[m] /\ Len(unread[m]) < Inbox}
    IN  /\ link' = linked
        /\ claimed' = [claimed EXCEPT ![n] = ClaimedAfter(n)]
        /\ wasConnected' = [wasConnected EXCEPT ![n] = up]
        /\ lastAnnounced' = [lastAnnounced EXCEPT ![n] = IF announces THEN now ELSE @]
        /\ \E told \in SUBSET within :
              /\ inbox' = [m \in Nodes |->
                              IF m \in told THEN Append(unread[m], n) ELSE unread[m]]
              /\ togetherFor' = IF /\ up /\ link[n]
                                   /\ announces => Nodes \ {n} \subseteq told
                                THEN togetherFor ELSE 0
        /\ sincePass' = [sincePass EXCEPT ![n] = 0]
        /\ UNCHANGED now

\* The broker sends a turnout's state or an identify request.
OtherTraffic(n) ==
    /\ link[n] /\ Len(inbox[n]) < Inbox
    /\ inbox' = [inbox EXCEPT ![n] = Append(@, Other)]
    /\ UNCHANGED <<now, link, announcer, claimed, togetherFor, sincePass>>

\* The link goes down between two passes.
Drop(n) ==
    /\ link[n]
    /\ link' = [link EXCEPT ![n] = FALSE]
    /\ inbox' = [inbox EXCEPT ![n] = <<>>]
    /\ togetherFor' = 0
    /\ UNCHANGED <<now, announcer, claimed, sincePass>>

PowerCycle(n) ==
    /\ link' = [link EXCEPT ![n] = FALSE]
    /\ wasConnected' = [wasConnected EXCEPT ![n] = FALSE]
    /\ lastAnnounced' = [lastAnnounced EXCEPT ![n] = now]
    /\ inbox' = [inbox EXCEPT ![n] = <<>>]
    /\ claimed' = [claimed EXCEPT ![n] = FALSE]
    /\ togetherFor' = 0
    /\ sincePass' = [sincePass EXCEPT ![n] = 0]
    /\ UNCHANGED now

Next ==
    \/ Tick
    \/ \E n \in Nodes, up \in BOOLEAN : Pass(n, up)
    \/ \E n \in Nodes : OtherTraffic(n) \/ Drop(n) \/ PowerCycle(n)

Spec == Init /\ [][Next]_vars
-------------------------------------------------------------------------------
(***************************************************************************)
(* Nodes of one id whose links stay up all know of the collision a         *)
(* heartbeat and a pass for every message that may wait, and one more,     *)
(* after the last announcement that was lost: whichever came first, was    *)
(* restarted, or lost its link unseen, and whatever other messages come;   *)
(* the first to know does not keep it from the others.                     *)
(***************************************************************************)
CollisionFound ==
    togetherFor = FoundWithin => \A n \in Nodes : claimed[n]
===============================================================================
