------------------------------- MODULE Millis -------------------------------
(***************************************************************************)
(* The millisecond clock of the board and the software timer every part of *)
(* the sketch is built on.                                                 *)
(*                                                                         *)
(* millis() is an unsigned long that wraps to 0 after 2^32 - 1.  Each timer*)
(* is a pair (start, offset) handled by the same two statements:           *)
(*                                                                         *)
(*   if (millis() < start) { offset = 4294967294 - start; start = 0; }     *)
(*   if (millis() - start > DELAY - offset) { ... }                        *)
(*                                                                         *)
(* MillisRange stands for 2^32, so 4294967294 is MillisRange - 2.  All     *)
(* operands are clock values, so one borrow or carry is all the reduction  *)
(* modulo 2^32 ever has to undo.                                           *)
(***************************************************************************)
EXTENDS Integers

CONSTANT MillisRange

ASSUME MillisRangeAssumption == MillisRange \in Nat /\ MillisRange > 4

Ticks == 0 .. MillisRange - 1

\* The result of adding or subtracting two unsigned long values.
Wrap(x) == IF x < 0 THEN x + MillisRange
           ELSE IF x >= MillisRange THEN x - MillisRange
           ELSE x

Timer == [start : Ticks, offset : Ticks]

\* (t) after the first statement: the branch the source marks "overflow".
Rolled(now, t) ==
  IF now < t.start
  THEN [start |-> 0, offset |-> Wrap(MillisRange - 2 - t.start)]
  ELSE t

\* The condition of the second statement.
Expired(now, t, delay) == Wrap(now - t.start) > Wrap(delay - t.offset)
=============================================================================
