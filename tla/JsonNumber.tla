----------------------------- MODULE JsonNumber -----------------------------
(***************************************************************************)
(* The integers of a JSON text, from the digits of a token to the int that *)
(* asInt() gives to the handlers as an id, and back: decodeNumber() and    *)
(* valueToString() of jsoncpp.  The ends of the unsigned types are         *)
(* constants, and those of the signed types follow from them as in         *)
(* value.h; LargestUInt goes around.  A number with a fraction or an       *)
(* exponent is left out, and so is what a double does to the digits of one.*)
(***************************************************************************)
EXTENDS Reading, Integers, Sequences, SequencesExt

CONSTANTS
  maxUInt,         \* UInt(-1), 2^32 - 1
  maxLargestUInt,  \* LargestUInt(-1), 2^64 - 1
  MaxDigits        \* bound on the length of the token

maxInt        == maxUInt \div 2
minInt        == -maxInt - 1
maxLargestInt == maxLargestUInt \div 2
minLargestInt == -maxLargestInt - 1

(* LargestInt takes more than one digit.                                   *)
ASSUME WidthAssumption ==
  /\ maxUInt \in Nat /\ maxLargestUInt \in Nat
  /\ maxUInt <= maxLargestUInt /\ 10 <= maxLargestInt

(* The sign and the digits.                                                *)
Digits      == UNION {[1 .. n -> 0 .. 9] : n \in 0 .. MaxDigits}
NumberToken == [negative : BOOLEAN, digits : Digits]

-----------------------------------------------------------------------------
(* Mutant: the last digit is not compared.                                 *)
Overflows_NoDigit(value, digit, last, max) ==
  value >= max \div 10 /\ (value > max \div 10 \/ ~last)

(* Whether one more digit would leave the range: then it is a double.      *)
Overflows(value, digit, last, max) ==
  value >= max \div 10 /\ (value > max \div 10 \/ ~last \/ digit > max % 10)

(* The loop over the digits; -1 once decodeDouble() has taken over.        *)
Accumulated(digits, max) ==
  LET f[n \in 0 .. Len(digits)] ==
        IF n = 0 THEN 0
        ELSE IF f[n - 1] = -1 \/ Overflows(f[n - 1], digits[n], n = Len(digits), max) THEN -1
        ELSE (f[n - 1] * 10 + digits[n]) % (maxLargestUInt + 1)
  IN  f[Len(digits)]

decodeNumber(t) ==
  LET max   == IF t.negative THEN maxLargestInt + 1 ELSE maxLargestUInt
      value == Accumulated(t.digits, max)
  IN  CASE value = -1 -> [type |-> "realValue"]
        [] value # -1 /\ t.negative -> [type |-> "intValue", of |-> -value]
        [] value # -1 /\ ~t.negative ->
             [type |-> IF value <= maxInt THEN "intValue" ELSE "uintValue", of |-> value]

(* asInt(): the int, or an exception.  A double that stands for digits     *)
(* beyond the largest integer is beyond every int.                         *)
asIntThrows(v) == v.type = "realValue" \/ v.of \notin minInt .. maxInt

(* uintToString(): v[n] is the value after n turns of its loop, which      *)
(* writes the last digit first and ends when nothing is left.              *)
uintToString(value) ==
  LET v[n \in 0 .. value + 1] == IF n = 0 THEN value ELSE v[n - 1] \div 10
      turns == Min({n \in 1 .. value + 1 : v[n] = 0})
  IN  [i \in 1 .. turns |-> v[turns - i] % 10]

(* Mutant: the sign of a negative value is lost.                           *)
valueToString_NoSign(v) == [negative |-> FALSE, digits |-> uintToString(IF v < 0 THEN -v ELSE v)]

(* The smallest LargestInt has no negative and is written by itself.       *)
valueToString(v) ==
  [negative |-> v < 0,
   digits   |-> uintToString(IF v = minLargestInt THEN maxLargestInt + 1
                             ELSE IF v < 0 THEN -v ELSE v)]

-----------------------------------------------------------------------------
NumberGiven == \E t \in NumberToken : Given("number", t)

DecodeNumber == Read("number", decodeNumber)

NSpec == NumberGiven /\ [][DecodeNumber \/ Done]_rvars

-----------------------------------------------------------------------------
(* The number that the digits denote.                                      *)
Magnitude(digits) ==
  LET d[n \in 0 .. Len(digits)] == IF n = 0 THEN 0 ELSE 10 * d[n - 1] + digits[n]
  IN  d[Len(digits)]

Denoted(t) == IF t.negative THEN -Magnitude(t.digits) ELSE Magnitude(t.digits)

(* The handlers get the id that the digits of a request denote, or an      *)
(* exception if it is beyond an int: no number, however long, is taken for *)
(* the id of another peer.                                                 *)
IdIsDenoted ==
  WasRead("number") =>
    IF Denoted(text.of) \in minInt .. maxInt
    THEN ~asIntThrows(result) /\ result.of = Denoted(text.of)
    ELSE asIntThrows(result)

(* An integer of a relayed message is read by the addressee as the server  *)
(* read it, at the ends of every range too.                                *)
WrittenReadsBack ==
  WasRead("number") /\ result.type # "realValue" =>
    decodeNumber(valueToString(result.of)) = result
=============================================================================
