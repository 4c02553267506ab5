----------------------------- MODULE JsonString -----------------------------
(***************************************************************************)
(* The strings of a JSON text and of a Json::Value: decodeString() of the  *)
(* reader and valueToQuotedStringN() of the writer, through which every    *)
(* name and every session description passes on its way from one client to *)
(* another.  A string is a sequence of bytes.  A quoted string is a        *)
(* sequence of units: a byte that stands for itself, an escape of a byte   *)
(* (a backslash and a letter), four hexadecimal digits (\u) as the number  *)
(* they denote, or a malformed escape.  The token of a client has no raw   *)
(* quote and no raw backslash; nothing here depends on that.               *)
(***************************************************************************)
EXTENDS Reading, Integers, Sequences

CONSTANT QuotedStrings  \* the strings that clients send

Byte == {b \in Nat : b < 256}
Code == {c \in Nat : c < 65536}  \* what four hexadecimal digits denote

InRange(x, first, last) == first <= x /\ x <= last

Raw(byte)    == [kind |-> "raw", of |-> byte]
Escape(byte) == [kind |-> "escape", of |-> byte]
Hex(code)    == [kind |-> "hex", of |-> code]
BadEscape    == [kind |-> "bad", of |-> 0]

Unit == [kind : {"raw", "escape"}, of : Byte] \cup [kind : {"hex"}, of : Code]
          \cup {BadEscape}

ASSUME QuotedAssumption == QuotedStrings \subseteq Seq(Unit)

Refused         == [verdict |-> "error"]
Decoded(string) == [verdict |-> "ok", string |-> string]

REPLACEMENT_CHARACTER == 65533

IsHighSurrogate(code) == InRange(code, 55296, 56319)
IsSurrogate(code)     == InRange(code, 55296, 57343)

-----------------------------------------------------------------------------
(* UTF-8: each byte but the first has six bits of the code.                *)
OneByte(cp)    == <<cp>>
TwoBytes(cp)   == <<192 + ((cp \div 64) % 32), 128 + (cp % 64)>>
ThreeBytes(cp) == <<224 + ((cp \div 4096) % 16), 128 + ((cp \div 64) % 64), 128 + (cp % 64)>>
FourBytes(cp)  == <<240 + ((cp \div 262144) % 8), 128 + ((cp \div 4096) % 64),
                    128 + ((cp \div 64) % 64), 128 + (cp % 64)>>

codePointToUTF8(cp) ==
  IF cp <= 127 THEN OneByte(cp)
  ELSE IF cp <= 2047 THEN TwoBytes(cp)
  ELSE IF cp <= 65535 THEN ThreeBytes(cp)
  ELSE IF cp <= 1114111 THEN FourBytes(cp)
  ELSE <<>>

LeastOf == <<0, 128, 2048, 65536>>

(* Mutant: half a surrogate pair passes.                                   *)
Checked_NoSurrogate(code, n) == IF code < LeastOf[n] THEN REPLACEMENT_CHARACTER ELSE code

(* Neither more bytes than needed nor half a surrogate pair.               *)
Checked(code, n) ==
  IF code < LeastOf[n] \/ (n = 3 /\ IsSurrogate(code)) THEN REPLACEMENT_CHARACTER ELSE code

(* The bits of a code from its bytes.                                      *)
CodeOf2(x, y)       == (x % 32) * 64 + (y % 64)
CodeOf3(x, y, z)    == (x % 16) * 4096 + (y % 64) * 64 + (z % 64)
CodeOf4(x, y, z, w) == (x % 8) * 262144 + (y % 64) * 4096 + (z % 64) * 64 + (w % 64)

(* The code point that begins at byte c of s, and the bytes it takes.  The *)
(* bytes behind the first are not looked at, and a stray one is taken for  *)
(* the first of two.                                                       *)
utf8ToCodepoint(s, c) ==
  LET firstByte == s[c]
      left      == Len(s) - c + 1
  IN  IF firstByte < 128 THEN [code |-> firstByte, bytes |-> 1]
      ELSE IF firstByte < 224 /\ left >= 2
      THEN [code |-> Checked(CodeOf2(firstByte, s[c + 1]), 2), bytes |-> 2]
      ELSE IF InRange(firstByte, 224, 239) /\ left >= 3
      THEN [code |-> Checked(CodeOf3(firstByte, s[c + 1], s[c + 2]), 3), bytes |-> 3]
      ELSE IF InRange(firstByte, 240, 247) /\ left >= 4
      THEN [code |-> Checked(CodeOf4(firstByte, s[c + 1], s[c + 2], s[c + 3]), 4), bytes |-> 4]
      ELSE [code |-> REPLACEMENT_CHARACTER, bytes |-> 1]

-----------------------------------------------------------------------------
(* Mutant: code points beyond 16 bits are not supported.                   *)
SurrogatePair_None(code) == <<Hex(REPLACEMENT_CHARACTER)>>

SurrogatePair(code) ==
  <<Hex(55296 + (((code - 65536) \div 1024) % 1024)), Hex(56320 + ((code - 65536) % 1024))>>

EscapedCode(code) ==
  IF InRange(code, 32, 127) THEN <<Raw(code)>>
  ELSE IF code < 65536 THEN <<Hex(code)>>
  ELSE SurrogatePair(code)

(* \b \t \n \f \r, quotes and backslashes have an escape of their own.     *)
ShortEscape == {8, 9, 10, 12, 13, 34, 92}

(* One turn of the loop of valueToQuotedStringN(), after w.at bytes.       *)
WriteTurn(s, w) ==
  IF w.at = Len(s) THEN w
  ELSE IF s[w.at + 1] \in ShortEscape
  THEN [at |-> w.at + 1, result |-> w.result \o <<Escape(s[w.at + 1])>>]
  ELSE LET c == utf8ToCodepoint(s, w.at + 1) IN
       [at |-> w.at + c.bytes, result |-> w.result \o EscapedCode(c.code)]

valueToQuotedStringN(s) ==
  LET w[n \in 0 .. Len(s)] ==
        IF n = 0 THEN [at |-> 0, result |-> <<>>] ELSE WriteTurn(s, w[n - 1])
  IN  w[Len(s)].result

(* What the two halves of a surrogate pair stand for.                      *)
JoinedPair(high, low) == 65536 + (high % 1024) * 1024 + (low % 1024)

(* One turn of the loop of decodeString(), after d.at units.  The second   *)
(* half of a pair is not asked whether it is one, and a second half by     *)
(* itself is passed on.                                                    *)
DecodeTurn(t, d) ==
  LET u      == t[d.at + 1]
      second == t[d.at + 2]
      Reads(n, bytes) == [verdict |-> "ok", at |-> d.at + n, string |-> d.string \o bytes]
      Fails  == [d EXCEPT !.verdict = "error"]
  IN  IF d.verdict = "error" \/ d.at = Len(t) THEN d
      ELSE IF u.kind \in {"raw", "escape"} THEN Reads(1, <<u.of>>)
      ELSE IF u.kind = "bad" THEN Fails
      ELSE IF ~IsHighSurrogate(u.of) THEN Reads(1, codePointToUTF8(u.of))
      ELSE IF d.at + 2 > Len(t) \/ second.kind # "hex" THEN Fails
      ELSE Reads(2, codePointToUTF8(JoinedPair(u.of, second.of)))

Outcome(d) == IF d.verdict = "ok" THEN Decoded(d.string) ELSE Refused

decodeString(t) ==
  LET d[n \in 0 .. Len(t)] ==
        IF n = 0 THEN [verdict |-> "ok", at |-> 0, string |-> <<>>] ELSE DecodeTurn(t, d[n - 1])
  IN  Outcome(d[Len(t)])

-----------------------------------------------------------------------------
StringGiven == \E t \in QuotedStrings : Given("string", t)

DecodeString == Read("string", decodeString)

StringSpec == StringGiven /\ [][DecodeString \/ Done]_rvars

StringRead == WasRead("string") /\ result.verdict = "ok"

-----------------------------------------------------------------------------
(* The bytes of one code point, by the table of the Unicode standard.      *)
Continues(s) == \A k \in 2 .. Len(s) : InRange(s[k], 128, 191)

IsOneCodePoint(s) ==
  \/ Len(s) = 1 /\ s[1] < 128
  \/ Len(s) = 2 /\ InRange(s[1], 194, 223) /\ Continues(s)
  \/ /\ Len(s) = 3 /\ InRange(s[1], 224, 239) /\ Continues(s)
     /\ s[1] = 224 => s[2] >= 160
     /\ s[1] = 237 => s[2] < 160
  \/ /\ Len(s) = 4 /\ InRange(s[1], 240, 244) /\ Continues(s)
     /\ s[1] = 240 => s[2] >= 144
     /\ s[1] = 244 => s[2] < 144

(* A string is UTF-8 if it can be cut into code points.                    *)
IsCutUp(s, cuts) ==
  /\ {0, Len(s)} \subseteq cuts
  /\ \A m \in cuts \ {Len(s)} : \E n \in cuts : m < n /\ IsOneCodePoint(SubSeq(s, m + 1, n))

IsUTF8(s) == \E cuts \in SUBSET (0 .. Len(s)) : IsCutUp(s, cuts)

(* A string that is UTF-8 is read by the addressee of a relayed message as *)
(* the server read it, byte by byte, though it is written another way than *)
(* its sender wrote it.                                                    *)
UTF8ReadsBack ==
  StringRead /\ IsUTF8(result.string) =>
    decodeString(valueToQuotedStringN(result.string)) = result

(* Whatever string the server has read, what it writes for it is accepted, *)
(* and once it has been written and read it does not change any more.      *)
WrittenIsAccepted ==
  StringRead =>
    LET again == decodeString(valueToQuotedStringN(result.string)) IN
    again.verdict = "ok" /\ decodeString(valueToQuotedStringN(again.string)) = again
=============================================================================
