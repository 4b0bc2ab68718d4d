------------------------------ MODULE CoilPulse ------------------------------
(***************************************************************************)
(* What a layout expects of whoever drives its turnout motors: one coil    *)
(* energised at a time, switched off only after it had at least MinOn      *)
(* milliseconds to move the points (or because another turnout was         *)
(* commanded), and never left on for MaxOn milliseconds.                   *)
(***************************************************************************)
EXTENDS Naturals

CONSTANTS
    Commands,   \* pairs <<address, position>>: one per coil
    MinOn,      \* shortest pulse that is let to end
    MaxOn       \* no coil stays on this long

VARIABLES
    energised,  \* the coils that are on
    onFor       \* for how long the present one has been on, 0 when none is

vars == <<energised, onFor>>

Init == energised = {} /\ onFor = 0

Energise(c) == energised' = {c} /\ onFor' = 0

Release ==
    /\ energised # {}
    /\ onFor >= MinOn
    /\ energised' = {}
    /\ onFor' = 0

Tick ==
    /\ energised # {}
    /\ onFor + 1 < MaxOn
    /\ onFor' = onFor + 1
    /\ UNCHANGED energised

Next == Release \/ Tick \/ \E c \in Commands : Energise(c)

Spec == Init /\ [][Next]_vars
==============================================================================
