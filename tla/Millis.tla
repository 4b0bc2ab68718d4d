------------------------------- MODULE Millis -------------------------------
(***************************************************************************)
(* The Arduino millisecond clock: an unsigned counter that wraps.  Wrap is *)
(* 2^32 on both boards; a TLC run takes it small, so that the rollover     *)
(* after 49.7 days is a few ticks away.                                    *)
(*                                                                         *)
(* Sums and differences are those of the C++ unsigned type.  Both are      *)
(* written with one conditional correction instead of %, which keeps them  *)
(* linear.                                                                 *)
(***************************************************************************)
EXTENDS Naturals

CONSTANT Wrap

ASSUME WrapAssumption == Wrap \in Nat \ {0}

\* The values nowMilliseconds() returns, and a variable holding one stores.
Stamps == 0 .. Wrap - 1

\* now + duration, for a duration that is itself below Wrap.
Plus(a, d) == IF a + d < Wrap THEN a + d ELSE (a + d) - Wrap

\* now - stamp: what the code compares with an interval.
Minus(a, b) == IF b <= a THEN a - b ELSE (a + Wrap) - b

\* Slip: the counter is wider than the variables that keep its values.
NextStampWide(a) == a + 1

\* One millisecond later.
NextStamp(a) == Plus(a, 1)

\* Elapsed true time, for the history variables: it does not wrap but stops
\* at Wrap, more than any interval of the code.
Ages == 0 .. Wrap
Older(age) == IF age < Wrap THEN age + 1 ELSE age
=============================================================================
