----------------------------- MODULE JackString -----------------------------
(***************************************************************************)
(* Strings of the library (stdlib/String.jack) as sequences of character    *)
(* codes, and the conversions from and to numbers (also that of            *)
(* Output.printInt).  Words wrap around.                                   *)
(***************************************************************************)
EXTENDS Integers, Sequences, SequencesExt

CONSTANT MinWord        (* least word, -2^31 on the machine                   *)

ASSUME WordAssumption == MinWord \in Int /\ MinWord < 0

Minus == 45
Digit0 == 48
Digit9 == 57
NewLine == 10
BackSpace == 8

Wrapped(n) == ((n - MinWord) % (-2 * MinWord)) + MinWord

AppendChar(s, c) == Append(s, c)

(* Its caller has made sure that there is one. *)
EraseLastChar(s) == Front(s)

(* The digits as the loops of setInt and printInt come by them, the last    *)
(* one first.                                                              *)
Backwards[v \in Nat] ==
  IF v = 0 THEN <<>> ELSE <<Digit0 + (v % 10)>> \o Backwards[v \div 10]

DigitsBackwards(n) == IF n > 0 THEN Backwards[n] ELSE <<>>

(* setInt: the digits are swapped behind the sign.                          *)
SetInt(n) ==
  IF n = 0 THEN <<Digit0>>
  ELSE IF n < 0 THEN <<Minus>> \o Reverse(DigitsBackwards(Wrapped(-n)))
  ELSE Reverse(DigitsBackwards(n))

(* Mutant of PrintedInt: the array is read from its start. *)
PrintedIntFromStart(n) ==
  IF n < 0 THEN <<Minus>> \o DigitsBackwards(Wrapped(-n)) ELSE DigitsBackwards(n)

(* printInt: the characters it prints, an array of digits read from its end *)
PrintedInt(n) ==
  IF n = 0 THEN <<Digit0>>
  ELSE LET digits == DigitsBackwards(IF n < 0 THEN Wrapped(-n) ELSE n)
       IN  (IF n < 0 THEN <<Minus>> ELSE <<>>)
             \o [i \in DOMAIN digits |-> digits[Len(digits) + 1 - i]]

(* What the loop of intValue has in value behind each character, from the   *)
(* first on                                                                *)
ValuesBehind(s, first) ==
  LET Value[i \in 0..Len(s)] ==
        IF i < first THEN 0 ELSE Wrapped(Value[i - 1] * 10 + s[i] - Digit0)
  IN  Value

(* intValue: at a character that is no digit the value so far is returned,  *)
(* without the sign.                                                       *)
IntValue(s) ==
  LET negative == s # <<>> /\ s[1] = Minus
      first == IF negative THEN 2 ELSE 1
      others == {i \in first..Len(s) : s[i] < Digit0 \/ s[i] > Digit9}
      value == ValuesBehind(s, first)[IF others = {} THEN Len(s) ELSE Min(others) - 1]
  IN  IF negative /\ others = {} THEN Wrapped(-value) ELSE value
=============================================================================
