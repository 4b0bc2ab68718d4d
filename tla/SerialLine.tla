------------------------------ MODULE SerialLine ------------------------------
(***************************************************************************)
(* From characters to lines, on both boards.  The node's adapter ends a    *)
(* line at LF, takes a CR before it away, and forgets what it has when one *)
(* character too many arrives; so the rest of an overlong line is carried  *)
(* out as a line of its own.  The Mega ends a line at CR or LF and drops   *)
(* the characters that do not fit, so there it is the beginning.           *)
(***************************************************************************)
EXTENDS Naturals, SequencesExt

CONSTANTS
    MaxLine,        \* kMaxLineLength, and SERIAL_LINE_BUFFER_SIZE - 1
    Typed           \* bound: characters typed before a line end

SerialLineAssumption == MaxLine \in Nat \ {0} /\ Typed \in Nat

Boards == {"Esp32", "Mega"}
Letters == {"a", "b"}

VARIABLES
    board,          \* whose loop() reads the line
    buffer,         \* lineBuffer_; serialLineBuffer up to serialLineLength
    ran,            \* the line carried out last
    typed           \* history: what was typed since the last line end

vars == <<board, buffer, ran, typed>>

TypeOK ==
    /\ board \in Boards
    /\ {buffer, ran, typed} \subseteq Seq(Letters \cup {"CR"})
    /\ Len(buffer) <= MaxLine /\ Len(typed) <= Typed

Init == board \in Boards /\ buffer = <<>> /\ ran = <<>> /\ typed = <<>>
-------------------------------------------------------------------------------
WithoutCR(line) ==
    IF line # <<>> /\ Last(line) = "CR" THEN Front(line) ELSE line

\* Slip: the buffer is kept for the next line.
EspEndLineKept == ran' = WithoutCR(buffer) /\ buffer' = buffer

EspEndLine == ran' = WithoutCR(buffer) /\ buffer' = <<>>

EspKeep(c) ==
    /\ buffer' = IF Len(buffer) >= MaxLine THEN <<>> ELSE Append(buffer, c)
    /\ UNCHANGED ran

\* poll(), for one character.
EspChar(c) ==
    /\ board = "Esp32"
    /\ IF c = "LF" THEN EspEndLine ELSE EspKeep(c)
    /\ typed' = IF c = "LF" THEN <<>> ELSE Append(typed, c)

MegaEndLine ==
    /\ ran' = IF buffer # <<>> THEN buffer ELSE ran
    /\ buffer' = <<>>

MegaKeep(c) ==
    /\ buffer' = IF Len(buffer) < MaxLine THEN Append(buffer, c) ELSE buffer
    /\ UNCHANGED ran

\* The end of loop(), for one character.
MegaChar(c) ==
    /\ board = "Mega"
    /\ IF c \in {"CR", "LF"} THEN MegaEndLine ELSE MegaKeep(c)
    /\ typed' = IF c \in {"CR", "LF"} THEN <<>> ELSE Append(typed, c)

Char(c) ==
    /\ EspChar(c) \/ MegaChar(c)
    /\ Len(typed') <= Typed
    /\ UNCHANGED board

Next == \E c \in Letters \cup {"CR", "LF"} : Char(c)

Spec == Init /\ [][Next]_vars
-------------------------------------------------------------------------------
(***************************************************************************)
(* A line that fits, with its CR, is carried out whole, after whatever     *)
(* came before it.  Of one that does not, what is carried out is still its *)
(* own: its end on the node, its beginning on the Mega, never pieces of    *)
(* two lines.                                                              *)
(***************************************************************************)
LinesStayApart ==
    [][typed # <<>> /\ typed' = <<>> =>
          /\ Len(typed) <= MaxLine => ran' = WithoutCR(typed)
          /\ IF board = "Mega" THEN IsPrefix(ran', typed)
                               ELSE IsSuffix(ran', WithoutCR(typed))]_vars
===============================================================================
