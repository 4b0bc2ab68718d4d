------------------------------- MODULE RouteRun -------------------------------
(***************************************************************************)
(* What a route button promises: the commands of the route are sent in     *)
(* order, each of them once and none skipped, at least Spacing and less    *)
(* than Spacing + Slack milliseconds apart, until the run ends or another  *)
(* route is started in its place.                                          *)
(***************************************************************************)
EXTENDS Naturals, Sequences

CONSTANTS Routes, Spacing, Slack

VARIABLES
    todo,       \* the commands of the run that are still to be sent
    lastSent,   \* the command a route sent last
    sinceSend   \* milliseconds since then, while a run is in progress

vars == <<todo, lastSent, sinceSend>>

Init == todo = <<>> /\ lastSent = <<>> /\ sinceSend = 0

SendFirstOf(commands) ==
    /\ lastSent' = <<Head(commands)>>
    /\ todo' = Tail(commands)
    /\ sinceSend' = 0

Start(r) ==
    IF r = <<>> THEN todo' = <<>> /\ sinceSend' = 0 /\ UNCHANGED lastSent
                ELSE SendFirstOf(r)

Step == todo # <<>> /\ sinceSend >= Spacing /\ SendFirstOf(todo)

Tick ==
    /\ todo # <<>>
    /\ sinceSend + 1 < Spacing + Slack
    /\ sinceSend' = sinceSend + 1
    /\ UNCHANGED <<todo, lastSent>>

Next == Step \/ Tick \/ \E r \in Routes : Start(r)

Spec == Init /\ [][Next]_vars
===============================================================================
