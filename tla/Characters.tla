------------------------------ MODULE Characters ----------------------------
(***************************************************************************)
(* Texts as the formatting modules know them: sequences of characters,     *)
(* each a string of one.                                                   *)
(***************************************************************************)
EXTENDS Integers, Sequences, SequencesExt

DigitChars == <<"0", "1", "2", "3", "4", "5", "6", "7", "8", "9">>
IsDigit(c) == c \in ToSet(DigitChars)
DigitValue(c) == CHOOSE d \in 0 .. 9 : DigitChars[d + 1] = c

\* A number as one writes it.
Digits[n \in Nat] ==
  IF n < 10 THEN <<DigitChars[n + 1]>> ELSE Append(Digits[n \div 10], DigitChars[(n % 10) + 1])

Repeated(c, n) == [k \in 1 .. n |-> c]

\* The character at a position, or "end".
CharAt(s, at) == IF at \in DOMAIN s THEN s[at] ELSE "end"
=============================================================================
