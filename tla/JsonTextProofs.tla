--------------------------- MODULE JsonTextProofs ---------------------------
(***************************************************************************)
(* Proofs about the reader and the writer of JSON texts, for texts of any  *)
(* length, any strings and scalars, and a stack of any height.  After what *)
(* the recursive functions are, and where the parts stand of what is       *)
(* joined, there are three arguments, each an induction over the levels of *)
(* nesting and, within a level, over the rounds of a loop:                 *)
(* WrittenIsText: what is written for a value, with comments before it, is *)
(*   one of its texts;                                                     *)
(* ReaderAnswers: for what is accepted a text of its value stands there;   *)
(* ReaderReadsTexts: where a text of a value stands, that value is read.   *)
(* The theorems follow from them.                                          *)
(***************************************************************************)
EXTENDS JsonText, ReadersProofs, FiniteSetTheorems

-----------------------------------------------------------------------------
LEMMA Limits == StackLimit \in Nat /\ MaxDepth \in Nat /\ StackLimit <= MaxDepth
BY TextAssumption

(* The recursive functions have the values their definitions say: there is *)
(* a function that satisfies the equation up to m, for every m.            *)
IsValueTo(f, m) == f = [d \in 0 .. m |-> IF d = 0 THEN {} ELSE ValuesOver(f[d - 1])]

LEMMA ValueDef ==
  /\ Value[0] = {}
  /\ \A d \in 1 .. MaxDepth : Value[d] = ValuesOver(Value[d - 1])
<1> DEFINE M == {m \in 0 .. MaxDepth : \E f : IsValueTo(f, m)}
<1>0. MaxDepth \in Nat
  BY Limits
<1>1. 0 \in M
  <2>1. IsValueTo([d \in 0 .. 0 |-> {}], 0)
    BY DEF IsValueTo
  <2> QED
    BY <1>0, <2>1
<1>2. ASSUME NEW m \in 0 .. MaxDepth - 1, m \in M PROVE m + 1 \in M
  <2>1. PICK f : IsValueTo(f, m)
    BY <1>2
  <2> DEFINE g == [d \in 0 .. m + 1 |-> IF d <= m THEN f[d] ELSE ValuesOver(f[m])]
  <2>2. \A d \in 0 .. m : f[d] = IF d = 0 THEN {} ELSE ValuesOver(f[d - 1])
    BY <2>1 DEF IsValueTo
  <2>3. ASSUME NEW d \in 0 .. m + 1 PROVE g[d] = IF d = 0 THEN {} ELSE ValuesOver(g[d - 1])
    <3>1. CASE d = 0
      BY <2>2, <3>1
    <3>2. CASE d # 0
      <4>1. g[d - 1] = f[d - 1]
        BY <3>2
      <4>2. g[d] = ValuesOver(f[d - 1])
        BY <2>2, <3>2
      <4> QED
        BY <3>2, <4>1, <4>2
    <3> QED
      BY <3>1, <3>2
  <2>4. IsValueTo(g, m + 1)
    BY <2>3 DEF IsValueTo
  <2> QED
    BY <1>0, <2>4
<1> HIDE DEF M
<1>3. 0 .. MaxDepth \subseteq M
  BY <1>0, <1>1, <1>2, InductionUpTo
<1>4. \E f : IsValueTo(f, MaxDepth)
  BY <1>0, <1>3 DEF M
<1>5. Value = CHOOSE f : IsValueTo(f, MaxDepth)
  BY Zenon DEF Value, IsValueTo
<1>6. IsValueTo(Value, MaxDepth)
  BY <1>4, <1>5, Zenon
<1>7. \A d \in 0 .. MaxDepth : Value[d] = IF d = 0 THEN {} ELSE ValuesOver(Value[d - 1])
  BY <1>6, Zenon DEF IsValueTo
<1> QED
  BY <1>0, <1>7

(* The texts of the values up to a depth, and what is written for them.    *)
TextsLevel(runs, texts, d) == [value \in Value[d] |-> TextsWith(runs, texts, value)]

IsTextsTo(runs, f, m) == f = [n \in 0 .. m |-> TextsLevel(runs, f[n - 1], n)]

LEMMA TextsDef ==
  ASSUME NEW runs
  PROVE  \A d \in 1 .. MaxDepth :
           Texts(runs)[d] = [value \in Value[d] |-> TextsWith(runs, Texts(runs)[d - 1], value)]
<1> DEFINE M == {m \in 0 .. MaxDepth : \E f : IsTextsTo(runs, f, m)}
<1>0. MaxDepth \in Nat
  BY Limits
<1>a. \A p, q : TextsLevel(runs, p, 0) = TextsLevel(runs, q, 0)
  BY ValueDef DEF TextsLevel
<1>1. 0 \in M
  <2> DEFINE g == [n \in 0 .. 0 |-> TextsLevel(runs, 0, 0)]
  <2>1. \A n \in 0 .. 0 : g[n] = TextsLevel(runs, g[n - 1], n)
    BY <1>a
  <2>2. IsTextsTo(runs, g, 0)
    BY <2>1 DEF IsTextsTo
  <2> QED
    BY <1>0, <2>2
<1>2. ASSUME NEW m \in 0 .. MaxDepth - 1, m \in M PROVE m + 1 \in M
  <2>1. PICK f : IsTextsTo(runs, f, m)
    BY <1>2
  <2> DEFINE g == [n \in 0 .. m + 1 |-> IF n <= m THEN f[n] ELSE TextsLevel(runs, f[m], m + 1)]
  <2>2. \A n \in 0 .. m : f[n] = TextsLevel(runs, f[n - 1], n)
    BY <2>1 DEF IsTextsTo
  <2>3. ASSUME NEW n \in 0 .. m + 1 PROVE g[n] = TextsLevel(runs, g[n - 1], n)
    <3>1. CASE n = 0
      BY <1>a, <2>2, <3>1
    <3>2. CASE n # 0
      <4>1. g[n - 1] = f[n - 1]
        BY <3>2
      <4>2. g[n] = TextsLevel(runs, f[n - 1], n)
        BY <2>2, <3>2
      <4> QED
        BY <4>1, <4>2
    <3> QED
      BY <3>1, <3>2
  <2>4. IsTextsTo(runs, g, m + 1)
    BY <2>3 DEF IsTextsTo
  <2> QED
    BY <1>0, <2>4
<1> HIDE DEF M
<1>3. 0 .. MaxDepth \subseteq M
  BY <1>0, <1>1, <1>2, InductionUpTo
<1>4. \E f : IsTextsTo(runs, f, MaxDepth)
  BY <1>0, <1>3 DEF M
<1> DEFINE F == CHOOSE f : IsTextsTo(runs, f, MaxDepth)
<1>5. Texts(runs) = F
  BY Zenon DEF Texts, IsTextsTo, TextsLevel
<1>6. IsTextsTo(runs, F, MaxDepth)
  BY <1>4, Zenon
<1>7. \A n \in 0 .. MaxDepth : F[n] = TextsLevel(runs, F[n - 1], n)
  BY <1>6, Zenon DEF IsTextsTo
<1> HIDE DEF F
<1> QED
  BY <1>0, <1>5, <1>7 DEF TextsLevel

WriteLevel(runs, write, d) == [value \in Value[d] |-> WriteWith(runs, write, value)]

IsWriteTo(runs, f, m) == f = [n \in 0 .. m |-> WriteLevel(runs, f[n - 1], n)]

LEMMA WriteDef ==
  ASSUME NEW runs
  PROVE  \A d \in 1 .. MaxDepth :
           writeValue(runs)[d] = [value \in Value[d] |-> WriteWith(runs, writeValue(runs)[d - 1], value)]
<1> DEFINE M == {m \in 0 .. MaxDepth : \E f : IsWriteTo(runs, f, m)}
<1>0. MaxDepth \in Nat
  BY Limits
<1>a. \A p, q : WriteLevel(runs, p, 0) = WriteLevel(runs, q, 0)
  BY ValueDef DEF WriteLevel
<1>1. 0 \in M
  <2> DEFINE g == [n \in 0 .. 0 |-> WriteLevel(runs, 0, 0)]
  <2>1. \A n \in 0 .. 0 : g[n] = WriteLevel(runs, g[n - 1], n)
    BY <1>a
  <2>2. IsWriteTo(runs, g, 0)
    BY <2>1 DEF IsWriteTo
  <2> QED
    BY <1>0, <2>2
<1>2. ASSUME NEW m \in 0 .. MaxDepth - 1, m \in M PROVE m + 1 \in M
  <2>1. PICK f : IsWriteTo(runs, f, m)
    BY <1>2
  <2> DEFINE g == [n \in 0 .. m + 1 |-> IF n <= m THEN f[n] ELSE WriteLevel(runs, f[m], m + 1)]
  <2>2. \A n \in 0 .. m : f[n] = WriteLevel(runs, f[n - 1], n)
    BY <2>1 DEF IsWriteTo
  <2>3. ASSUME NEW n \in 0 .. m + 1 PROVE g[n] = WriteLevel(runs, g[n - 1], n)
    <3>1. CASE n = 0
      BY <1>a, <2>2, <3>1
    <3>2. CASE n # 0
      <4>1. g[n - 1] = f[n - 1]
        BY <3>2
      <4>2. g[n] = WriteLevel(runs, f[n - 1], n)
        BY <2>2, <3>2
      <4> QED
        BY <4>1, <4>2
    <3> QED
      BY <3>1, <3>2
  <2>4. IsWriteTo(runs, g, m + 1)
    BY <2>3 DEF IsWriteTo
  <2> QED
    BY <1>0, <2>4
<1> HIDE DEF M
<1>3. 0 .. MaxDepth \subseteq M
  BY <1>0, <1>1, <1>2, InductionUpTo
<1>4. \E f : IsWriteTo(runs, f, MaxDepth)
  BY <1>0, <1>3 DEF M
<1> DEFINE F == CHOOSE f : IsWriteTo(runs, f, MaxDepth)
<1>5. writeValue(runs) = F
  BY Zenon DEF writeValue, IsWriteTo, WriteLevel
<1>6. IsWriteTo(runs, F, MaxDepth)
  BY <1>4, Zenon
<1>7. \A n \in 0 .. MaxDepth : F[n] = WriteLevel(runs, F[n - 1], n)
  BY <1>6, Zenon DEF IsWriteTo
<1> HIDE DEF F
<1> QED
  BY <1>0, <1>5, <1>7 DEF WriteLevel

(* readValue() with no node left on the stack, and with one more.          *)
ReadLevel(t, inner, left) == [i \in Nat |-> IF left = 0 THEN Throws ELSE readValue(t, inner, i)]

IsReaderTo(t, f, m) == f = [n \in 0 .. m |-> ReadLevel(t, f[n - 1], n)]

LEMMA ReaderDef ==
  ASSUME NEW t
  PROVE  /\ Reader(t)[0] = [i \in Nat |-> Throws]
         /\ \A left \in 1 .. StackLimit :
              Reader(t)[left] = [i \in Nat |-> readValue(t, Reader(t)[left - 1], i)]
<1> DEFINE M == {m \in 0 .. StackLimit : \E f : IsReaderTo(t, f, m)}
<1>0. StackLimit \in Nat
  BY Limits
<1>a. \A p, q : ReadLevel(t, p, 0) = ReadLevel(t, q, 0)
  BY DEF ReadLevel
<1>1. 0 \in M
  <2> DEFINE g == [n \in 0 .. 0 |-> ReadLevel(t, 0, 0)]
  <2>1. \A n \in 0 .. 0 : g[n] = ReadLevel(t, g[n - 1], n)
    BY <1>a
  <2>2. IsReaderTo(t, g, 0)
    BY <2>1 DEF IsReaderTo
  <2> QED
    BY <1>0, <2>2
<1>2. ASSUME NEW m \in 0 .. StackLimit - 1, m \in M PROVE m + 1 \in M
  <2>1. PICK f : IsReaderTo(t, f, m)
    BY <1>2
  <2> DEFINE g == [n \in 0 .. m + 1 |-> IF n <= m THEN f[n] ELSE ReadLevel(t, f[m], m + 1)]
  <2>2. \A n \in 0 .. m : f[n] = ReadLevel(t, f[n - 1], n)
    BY <2>1 DEF IsReaderTo
  <2>3. ASSUME NEW n \in 0 .. m + 1 PROVE g[n] = ReadLevel(t, g[n - 1], n)
    <3>1. CASE n = 0
      BY <1>a, <2>2, <3>1
    <3>2. CASE n # 0
      <4>1. g[n - 1] = f[n - 1]
        BY <3>2
      <4>2. g[n] = ReadLevel(t, f[n - 1], n)
        BY <2>2, <3>2
      <4> QED
        BY <4>1, <4>2
    <3> QED
      BY <3>1, <3>2
  <2>4. IsReaderTo(t, g, m + 1)
    BY <2>3 DEF IsReaderTo
  <2> QED
    BY <1>0, <2>4
<1> HIDE DEF M
<1>3. 0 .. StackLimit \subseteq M
  BY <1>0, <1>1, <1>2, InductionUpTo
<1>4. \E f : IsReaderTo(t, f, StackLimit)
  BY <1>0, <1>3 DEF M
<1> DEFINE F == CHOOSE f : IsReaderTo(t, f, StackLimit)
<1>5. Reader(t) = F
  BY Zenon DEF Reader, IsReaderTo, ReadLevel
<1>6. IsReaderTo(t, F, StackLimit)
  BY <1>4, Zenon
<1>7. \A n \in 0 .. StackLimit : F[n] = ReadLevel(t, F[n - 1], n)
  BY <1>6, Zenon DEF IsReaderTo
<1> HIDE DEF F
<1> QED
  BY <1>0, <1>5, <1>7 DEF ReadLevel

(* The loops of readObject() and readArray().                              *)
MembersFrom(i) == [verdict |-> "reading", next |-> i, name |-> EmptyName, value |-> NoMembers]

MemberTurn(t, inner, i, x, n) == IF n = 0 THEN MembersFrom(i) ELSE MemberRound(t, inner, x)

IsObjectTo(t, inner, i, f, m) == f = [n \in 0 .. m |-> MemberTurn(t, inner, i, f[n - 1], n)]

IsObjectLoop(t, inner, i, x) ==
  /\ readObject(t, inner, i) = x[Len(t)] /\ x[0] = MembersFrom(i)
  /\ \A n \in 1 .. Len(t) : x[n] = MemberRound(t, inner, x[n - 1])

LEMMA ObjectLoop ==
  ASSUME NEW t, Len(t) \in Nat, NEW inner, NEW i
  PROVE  \E x : IsObjectLoop(t, inner, i, x)
<1> DEFINE M == {m \in 0 .. Len(t) : \E f : IsObjectTo(t, inner, i, f, m)}
<1>0. Len(t) \in Nat
  OBVIOUS
<1>a. \A p, q : MemberTurn(t, inner, i, p, 0) = MemberTurn(t, inner, i, q, 0)
  BY DEF MemberTurn
<1>1. 0 \in M
  <2> DEFINE g == [n \in 0 .. 0 |-> MemberTurn(t, inner, i, 0, 0)]
  <2>1. \A n \in 0 .. 0 : g[n] = MemberTurn(t, inner, i, g[n - 1], n)
    BY <1>a
  <2>2. IsObjectTo(t, inner, i, g, 0)
    BY <2>1 DEF IsObjectTo
  <2> QED
    BY <1>0, <2>2
<1>2. ASSUME NEW m \in 0 .. Len(t) - 1, m \in M PROVE m + 1 \in M
  <2>1. PICK f : IsObjectTo(t, inner, i, f, m)
    BY <1>2
  <2> DEFINE g == [n \in 0 .. m + 1 |-> IF n <= m THEN f[n] ELSE MemberTurn(t, inner, i, f[m], m + 1)]
  <2>2. \A n \in 0 .. m : f[n] = MemberTurn(t, inner, i, f[n - 1], n)
    BY <2>1 DEF IsObjectTo
  <2>3. ASSUME NEW n \in 0 .. m + 1 PROVE g[n] = MemberTurn(t, inner, i, g[n - 1], n)
    <3>1. CASE n = 0
      BY <1>a, <2>2, <3>1
    <3>2. CASE n # 0
      <4>1. g[n - 1] = f[n - 1]
        BY <3>2
      <4>2. g[n] = MemberTurn(t, inner, i, f[n - 1], n)
        BY <2>2, <3>2
      <4> QED
        BY <4>1, <4>2
    <3> QED
      BY <3>1, <3>2
  <2>4. IsObjectTo(t, inner, i, g, m + 1)
    BY <2>3 DEF IsObjectTo
  <2> QED
    BY <1>0, <2>4
<1> HIDE DEF M
<1>3. 0 .. Len(t) \subseteq M
  BY <1>0, <1>1, <1>2, InductionUpTo
<1>4. \E f : IsObjectTo(t, inner, i, f, Len(t))
  BY <1>0, <1>3 DEF M
<1> DEFINE F == CHOOSE f : IsObjectTo(t, inner, i, f, Len(t))
<1>5. readObject(t, inner, i) = F[Len(t)]
  BY Zenon DEF readObject, IsObjectTo, MemberTurn, MembersFrom
<1>6. IsObjectTo(t, inner, i, F, Len(t))
  BY <1>4, Zenon
<1>7. \A n \in 0 .. Len(t) : F[n] = MemberTurn(t, inner, i, F[n - 1], n)
  BY <1>6, Zenon DEF IsObjectTo
<1> HIDE DEF F
<1>8. F[0] = MembersFrom(i) /\ \A n \in 1 .. Len(t) : F[n] = MemberRound(t, inner, F[n - 1])
  BY <1>0, <1>7 DEF MemberTurn
<1> QED
  BY <1>5, <1>8, Zenon DEF IsObjectLoop

ElementsFrom(i) == [verdict |-> "reading", next |-> i, value |-> <<>>]

ElementTurn(t, inner, i, x, n) == IF n = 0 THEN ElementsFrom(i) ELSE ElementRound(t, inner, x)

IsArrayTo(t, inner, i, f, m) == f = [n \in 0 .. m |-> ElementTurn(t, inner, i, f[n - 1], n)]

IsArrayLoop(t, inner, i, x) ==
  /\ readArray(t, inner, i) = x[Len(t)] /\ x[0] = ElementsFrom(i)
  /\ \A n \in 1 .. Len(t) : x[n] = ElementRound(t, inner, x[n - 1])

LEMMA ArrayLoop ==
  ASSUME NEW t, Len(t) \in Nat, NEW inner, NEW i, ~IsEmptyArray(t, i)
  PROVE  \E x : IsArrayLoop(t, inner, i, x)
<1> DEFINE M == {m \in 0 .. Len(t) : \E f : IsArrayTo(t, inner, i, f, m)}
<1>0. Len(t) \in Nat
  OBVIOUS
<1>a. \A p, q : ElementTurn(t, inner, i, p, 0) = ElementTurn(t, inner, i, q, 0)
  BY DEF ElementTurn
<1>1. 0 \in M
  <2> DEFINE g == [n \in 0 .. 0 |-> ElementTurn(t, inner, i, 0, 0)]
  <2>1. \A n \in 0 .. 0 : g[n] = ElementTurn(t, inner, i, g[n - 1], n)
    BY <1>a
  <2>2. IsArrayTo(t, inner, i, g, 0)
    BY <2>1 DEF IsArrayTo
  <2> QED
    BY <1>0, <2>2
<1>2. ASSUME NEW m \in 0 .. Len(t) - 1, m \in M PROVE m + 1 \in M
  <2>1. PICK f : IsArrayTo(t, inner, i, f, m)
    BY <1>2
  <2> DEFINE g == [n \in 0 .. m + 1 |-> IF n <= m THEN f[n] ELSE ElementTurn(t, inner, i, f[m], m + 1)]
  <2>2. \A n \in 0 .. m : f[n] = ElementTurn(t, inner, i, f[n - 1], n)
    BY <2>1 DEF IsArrayTo
  <2>3. ASSUME NEW n \in 0 .. m + 1 PROVE g[n] = ElementTurn(t, inner, i, g[n - 1], n)
    <3>1. CASE n = 0
      BY <1>a, <2>2, <3>1
    <3>2. CASE n # 0
      <4>1. g[n - 1] = f[n - 1]
        BY <3>2
      <4>2. g[n] = ElementTurn(t, inner, i, f[n - 1], n)
        BY <2>2, <3>2
      <4> QED
        BY <4>1, <4>2
    <3> QED
      BY <3>1, <3>2
  <2>4. IsArrayTo(t, inner, i, g, m + 1)
    BY <2>3 DEF IsArrayTo
  <2> QED
    BY <1>0, <2>4
<1> HIDE DEF M
<1>3. 0 .. Len(t) \subseteq M
  BY <1>0, <1>1, <1>2, InductionUpTo
<1>4. \E f : IsArrayTo(t, inner, i, f, Len(t))
  BY <1>0, <1>3 DEF M
<1> DEFINE F == CHOOSE f : IsArrayTo(t, inner, i, f, Len(t))
<1>5. readArray(t, inner, i) = F[Len(t)]
  BY Zenon DEF readArray, IsArrayTo, ElementTurn, ElementsFrom
<1>6. IsArrayTo(t, inner, i, F, Len(t))
  BY <1>4, Zenon
<1>7. \A n \in 0 .. Len(t) : F[n] = ElementTurn(t, inner, i, F[n - 1], n)
  BY <1>6, Zenon DEF IsArrayTo
<1> HIDE DEF F
<1>8. F[0] = ElementsFrom(i) /\ \A n \in 1 .. Len(t) : F[n] = ElementRound(t, inner, F[n - 1])
  BY <1>0, <1>7 DEF ElementTurn
<1> QED
  BY <1>5, <1>8, Zenon DEF IsArrayLoop

-----------------------------------------------------------------------------
(* Sequences that are joined with commas.                                  *)
FlatTurn(s, f, n) == IF n = 1 THEN s[n] ELSE f \o s[n]

IsFlatTo(s, f, m) == f = [n \in 1 .. m |-> FlatTurn(s, f[n - 1], n)]

LEMMA FlattenDef ==
  ASSUME NEW s, Len(s) \in Nat \ {0}
  PROVE  \E f : /\ FlattenSeq(s) = f[Len(s)] /\ f[1] = s[1]
                /\ \A n \in 2 .. Len(s) : f[n] = f[n - 1] \o s[n]
<1> DEFINE N == Len(s)
           M == {m \in 0 .. N : \E f : IsFlatTo(s, f, m)}
<1>1. 0 \in M
  <2> DEFINE g == [n \in 1 .. 0 |-> 0]
  <2>1. IsFlatTo(s, g, 0)
    BY DEF IsFlatTo
  <2> QED
    BY <2>1
<1>2. ASSUME NEW m \in 0 .. N - 1, m \in M PROVE m + 1 \in M
  <2>1. PICK f : IsFlatTo(s, f, m)
    BY <1>2
  <2> DEFINE g == [n \in 1 .. m + 1 |-> IF n <= m THEN f[n] ELSE FlatTurn(s, f[m], m + 1)]
  <2>2. \A n \in 1 .. m : f[n] = FlatTurn(s, f[n - 1], n)
    BY <2>1 DEF IsFlatTo
  <2>3. ASSUME NEW n \in 1 .. m + 1 PROVE g[n] = FlatTurn(s, g[n - 1], n)
    <3>1. CASE n = 1
      BY <2>2, <3>1 DEF FlatTurn
    <3>2. CASE n # 1
      <4>1. g[n - 1] = f[n - 1]
        BY <3>2
      <4>2. g[n] = FlatTurn(s, f[n - 1], n)
        BY <2>2, <3>2
      <4> QED
        BY <4>1, <4>2
    <3> QED
      BY <3>1, <3>2
  <2>4. IsFlatTo(s, g, m + 1)
    BY <2>3 DEF IsFlatTo
  <2> QED
    BY <2>4
<1> HIDE DEF M
<1>3. 0 .. N \subseteq M
  BY <1>1, <1>2, InductionUpTo
<1>4. \E f : IsFlatTo(s, f, N)
  BY <1>3 DEF M
<1> DEFINE F == CHOOSE f : IsFlatTo(s, f, N)
<1>5. FlattenSeq(s) = IF Len(s) = 0 THEN s ELSE F[N]
  BY Zenon DEF FlattenSeq, IsFlatTo, FlatTurn
<1>6. IsFlatTo(s, F, N)
  BY <1>4, Zenon
<1>7. \A n \in 1 .. N : F[n] = FlatTurn(s, F[n - 1], n)
  BY <1>6, Zenon DEF IsFlatTo
<1> HIDE DEF F
<1>8. F[1] = s[1] /\ \A n \in 2 .. N : F[n] = F[n - 1] \o s[n]
  <2>1. 1 \in 1 .. N /\ \A n \in 2 .. N : n \in 1 .. N /\ n # 1
    OBVIOUS
  <2> QED
    BY <1>7, <2>1, Zenon DEF FlatTurn
<1> QED
  BY <1>5, <1>8

(* f[n] is what is joined of the first n.                                  *)
IsJoining(f, w) ==
  f[1] = w[1] /\ \A n \in 2 .. Len(w) : f[n] = f[n - 1] \o WithComma(w[n])

LEMMA JoinedDef ==
  ASSUME NEW T, NEW w \in Seq(T), w # <<>>
  PROVE  \E f : Joined(w) = f[Len(w)] /\ IsJoining(f, w)
<1> DEFINE Part(n) == IF n = 1 THEN w[n] ELSE WithComma(w[n])
           s       == [n \in 1 .. Len(w) |-> Part(n)]
<1>0. Len(w) \in Nat \ {0}
  OBVIOUS
<1>1. Len(s) = Len(w)
  <2> HIDE DEF Part
  <2> QED
    BY <1>0
<1>2. s[1] = w[1] /\ \A n \in 2 .. Len(w) : s[n] = WithComma(w[n])
  <2>1. 1 \in 1 .. Len(w) /\ \A n \in 2 .. Len(w) : n \in 1 .. Len(w) /\ n # 1
    BY <1>0
  <2> QED
    BY <2>1, Zenon
<1>3. Joined(w) = FlattenSeq(s)
  BY Zenon DEF Joined
<1> HIDE DEF s
<1>4. PICK f : /\ FlattenSeq(s) = f[Len(s)] /\ f[1] = s[1]
               /\ \A n \in 2 .. Len(s) : f[n] = f[n - 1] \o s[n]
  BY <1>0, <1>1, FlattenDef
<1>5. IsJoining(f, w)
  BY <1>1, <1>2, <1>4, Zenon DEF IsJoining
<1> QED
  BY <1>1, <1>3, <1>4, <1>5, Zenon

LEMMA JoinedNothing ==
  ASSUME NEW w, Len(w) = 0
  PROVE  Joined(w) = <<>>
<1> DEFINE s == [n \in 1 .. Len(w) |-> IF n = 1 THEN w[n] ELSE WithComma(w[n])]
<1>1. s = <<>> /\ Len(s) = 0
  OBVIOUS
<1>2. Joined(w) = FlattenSeq(s)
  BY Zenon DEF Joined
<1> HIDE DEF s
<1> QED
  BY <1>1, <1>2 DEF FlattenSeq

LEMMA WithCommaType ==
  ASSUME NEW T, tokenArraySeparator \in T, NEW u \in Seq(T)
  PROVE  WithComma(u) \in Seq(T) /\ Len(WithComma(u)) = 1 + Len(u) /\ Len(u) \in Nat
<1>1. <<tokenArraySeparator>> \in Seq(T) /\ Len(<<tokenArraySeparator>>) = 1
  OBVIOUS
<1> QED
  BY <1>1, ConcatProperties DEF WithComma

AreSeqs(w, T) == Len(w) \in Nat /\ \A n \in 1 .. Len(w) : w[n] \in Seq(T)

LEMMA JoiningType ==
  ASSUME NEW T, tokenArraySeparator \in T, NEW w, AreSeqs(w, T), NEW f, IsJoining(f, w)
  PROVE  \A n \in 1 .. Len(w) :
           /\ f[n] \in Seq(T) /\ Len(f[n]) \in Nat
           /\ Len(f[n]) = IF n = 1 THEN Len(w[1]) ELSE Len(f[n - 1]) + 1 + Len(w[n])
<1> DEFINE N == Len(w)
           S == {n \in 0 .. N : n # 0 => f[n] \in Seq(T)}
<1>0. N \in Nat
  BY DEF AreSeqs
<1>1. f[1] = w[1] /\ \A n \in 2 .. N : f[n] = f[n - 1] \o WithComma(w[n])
  BY Zenon DEF IsJoining
<1>2. \A n \in 1 .. N : /\ w[n] \in Seq(T) /\ Len(w[n]) \in Nat
                        /\ WithComma(w[n]) \in Seq(T) /\ Len(WithComma(w[n])) = 1 + Len(w[n])
  BY WithCommaType, Zenon DEF AreSeqs
<1>3. ASSUME NEW n \in 2 .. N, f[n - 1] \in Seq(T)
      PROVE  f[n] \in Seq(T) /\ Len(f[n]) = Len(f[n - 1]) + 1 + Len(w[n])
  <2>1. n \in 1 .. N
    BY <1>0
  <2>2. f[n] = f[n - 1] \o WithComma(w[n]) /\ WithComma(w[n]) \in Seq(T)
    BY <1>1, <1>2, <2>1, Zenon
  <2>3. f[n] \in Seq(T) /\ Len(f[n]) = Len(f[n - 1]) + Len(WithComma(w[n]))
    BY <1>3, <2>2, ConcatProperties, Zenon
  <2> DEFINE a == Len(f[n - 1])
             b == Len(w[n])
  <2>4. a \in Nat /\ b \in Nat /\ Len(f[n]) = a + (1 + b)
    BY <1>2, <1>3, <2>1, <2>3, LenProperties, Zenon
  <2> HIDE DEF a, b
  <2>5. a + (1 + b) = a + 1 + b
    BY <2>4
  <2> QED
    BY <2>3, <2>4, <2>5, Zenon DEF a, b
<1>4. ASSUME NEW n \in 0 .. N - 1, n \in S PROVE n + 1 \in S
  <2>1. CASE n = 0
    <3>1. n + 1 \in 0 .. N /\ n + 1 = 1 /\ 1 \in 1 .. N
      BY <1>0, <2>1
    <3> QED
      BY <1>1, <1>2, <3>1, Zenon
  <2>2. CASE n # 0
    <3>1. n + 1 \in 0 .. N /\ n + 1 \in 2 .. N /\ (n + 1) - 1 = n
      BY <1>0, <2>2
    <3> QED
      BY <1>3, <1>4, <2>2, <3>1, Zenon
  <2> QED
    BY <2>1, <2>2
<1> HIDE DEF S
<1>5. 0 .. N \subseteq S
  <2>1. 0 \in S
    BY <1>0 DEF S
  <2> QED
    BY <1>0, <1>4, <2>1, InductionUpTo
<1>6. ASSUME NEW n \in 1 .. N PROVE f[n] \in Seq(T) /\ Len(f[n]) \in Nat
  <2>1. n \in 0 .. N /\ n # 0
    BY <1>0
  <2> QED
    BY <1>5, <2>1, LenProperties, Zenon DEF S
<1> SUFFICES ASSUME NEW n \in 1 .. N
             PROVE  Len(f[n]) = IF n = 1 THEN Len(w[1]) ELSE Len(f[n - 1]) + 1 + Len(w[n])
  BY <1>6, Zenon
<1>7. CASE n = 1
  BY <1>1, <1>7, Zenon
<1>8. CASE n # 1
  <2>1. n \in 2 .. N /\ n - 1 \in 1 .. N
    BY <1>0, <1>8
  <2> QED
    BY <1>3, <1>6, <1>8, <2>1, Zenon
<1> QED
  BY <1>7, <1>8

AgreeTo(f, g, m) == \A n \in 1 .. m : f[n] = g[n]

LEMMA JoiningsAgree ==
  ASSUME NEW w, NEW v, Len(w) \in Nat, Len(v) \in Nat, Len(w) <= Len(v), AgreeTo(w, v, Len(w)),
         NEW f, IsJoining(f, w), NEW g, IsJoining(g, v)
  PROVE  AgreeTo(f, g, Len(w))
<1> DEFINE N == Len(w)
           S == {n \in 0 .. N : n = 0 \/ f[n] = g[n]}
<1>1. \A n \in 2 .. N : f[n] = f[n - 1] \o WithComma(w[n])
  BY Zenon DEF IsJoining
<1>2. \A n \in 2 .. N : g[n] = g[n - 1] \o WithComma(w[n])
  <2>1. \A n \in 2 .. N : n \in 1 .. N /\ n \in 2 .. Len(v)
    OBVIOUS
  <2> QED
    BY <2>1, Zenon DEF IsJoining, AgreeTo
<1>3. ASSUME NEW n \in 0 .. N - 1, n \in S PROVE n + 1 \in S
  <2>1. CASE n = 0
    <3>1. 1 \in 1 .. N /\ n + 1 = 1 /\ n + 1 \in 0 .. N
      BY <2>1
    <3> QED
      BY <3>1, Zenon DEF IsJoining, AgreeTo
  <2>2. CASE n # 0
    <3>1. n + 1 \in 2 .. N /\ n + 1 \in 0 .. N /\ (n + 1) - 1 = n /\ f[n] = g[n]
      BY <1>3, <2>2
    <3> QED
      BY <1>1, <1>2, <3>1, Zenon
  <2> QED
    BY <2>1, <2>2
<1> HIDE DEF S
<1>4. 0 \in S
  BY DEF S
<1>5. 0 .. N \subseteq S
  BY <1>3, <1>4, InductionUpTo
<1> QED
  BY <1>5 DEF S, AgreeTo

(* One more sequence is joined to those before it.                         *)
LEMMA JoinedAppend ==
  ASSUME NEW T, NEW w \in Seq(Seq(T)), NEW u \in Seq(T)
  PROVE  Joined(Append(w, u)) = IF w = <<>> THEN u ELSE Joined(w) \o WithComma(u)
<1> DEFINE v == Append(w, u)
           N == Len(w)
<1>1. /\ v \in Seq(Seq(T)) /\ v # <<>> /\ N \in Nat /\ Len(v) = N + 1
      /\ v[N + 1] = u /\ \A n \in 1 .. N : w[n] = v[n]
  <2> DEFINE Q == Seq(T)
  <2>1. w \in Seq(Q) /\ u \in Q
    OBVIOUS
  <2> HIDE DEF Q
  <2>2. /\ v \in Seq(Q) /\ v # <<>> /\ N \in Nat /\ Len(v) = N + 1
        /\ v[N + 1] = u /\ \A n \in 1 .. N : w[n] = v[n]
    BY <2>1
  <2> QED
    BY <2>2 DEF Q
<1>2. PICK g : Joined(v) = g[Len(v)] /\ IsJoining(g, v)
  BY <1>1, JoinedDef
<1> HIDE DEF v
<1>3. CASE w = <<>>
  BY <1>1, <1>2, <1>3 DEF IsJoining
<1>4. CASE w # <<>>
  <2>1. PICK f : Joined(w) = f[N] /\ IsJoining(f, w)
    BY <1>4, JoinedDef
  <2>2. N \in 1 .. N /\ N + 1 \in 2 .. Len(v) /\ (N + 1) - 1 = N
    BY <1>1, <1>4
  <2>3. f[N] = g[N]
    <3>1. Len(v) \in Nat /\ N <= Len(v)
      BY <1>1
    <3>2. AgreeTo(w, v, Len(w))
      BY <1>1, Zenon DEF AgreeTo
    <3>3. Len(w) \in Nat /\ Len(w) <= Len(v) /\ IsJoining(f, w) /\ IsJoining(g, v)
      BY <1>1, <1>2, <2>1, <3>1
    <3> HIDE DEF N
    <3>4. AgreeTo(f, g, Len(w))
      BY <3>1, <3>2, <3>3, JoiningsAgree, Zenon
    <3> QED
      BY <2>2, <3>4, Zenon DEF N, AgreeTo
  <2>4. g[N + 1] = g[N] \o WithComma(u)
    BY <1>1, <1>2, <2>2, Zenon DEF IsJoining
  <2> QED
    BY <1>1, <1>2, <1>4, <2>1, <2>3, <2>4, Zenon DEF v
<1> QED
  BY <1>3, <1>4

(* u stands in t at position i.                                            *)
At(t, i, u) == i + Len(u) <= Len(t) + 1 /\ \A q \in 1 .. Len(u) : t[i + q - 1] = u[q]

LEMMA AtConcat ==
  ASSUME NEW T, NEW t \in Seq(T), NEW u \in Seq(T), NEW v \in Seq(T), NEW i \in Nat \ {0}
  PROVE  At(t, i, u \o v) <=> At(t, i, u) /\ At(t, i + Len(u), v)
<1>0. Len(t) \in Nat /\ Len(u) \in Nat /\ Len(v) \in Nat /\ Len(u \o v) = Len(u) + Len(v)
  OBVIOUS
<1>1. /\ \A q \in 1 .. Len(u) : (u \o v)[q] = u[q]
      /\ \A q \in 1 .. Len(v) : (u \o v)[Len(u) + q] = v[q]
  BY <1>0, ConcatProperties
<1>2. ASSUME At(t, i, u \o v) PROVE At(t, i, u) /\ At(t, i + Len(u), v)
  <2>1. /\ i + Len(u) + Len(v) <= Len(t) + 1
        /\ \A q \in 1 .. Len(u) + Len(v) : t[i + q - 1] = (u \o v)[q]
    BY <1>0, <1>2 DEF At
  <2>2. \A q \in 1 .. Len(v) : t[i + (Len(u) + q) - 1] = (u \o v)[Len(u) + q]
    <3>1. \A q \in 1 .. Len(v) : Len(u) + q \in 1 .. Len(u) + Len(v)
      BY <1>0
    <3> QED
      BY <2>1, <3>1, Zenon
  <2>3. \A q \in 1 .. Len(v) : t[(i + Len(u)) + q - 1] = v[q]
    BY <1>0, <1>1, <2>2
  <2> QED
    BY <1>0, <1>1, <2>1, <2>3 DEF At
<1>3. ASSUME At(t, i, u), At(t, i + Len(u), v) PROVE At(t, i, u \o v)
  <2>1. ASSUME NEW q \in 1 .. Len(u) + Len(v) PROVE t[i + q - 1] = (u \o v)[q]
    <3>1. CASE q <= Len(u)
      BY <1>0, <1>1, <1>3, <3>1 DEF At
    <3>2. CASE q > Len(u)
      <4>1. q - Len(u) \in 1 .. Len(v) /\ Len(u) + (q - Len(u)) = q
            /\ (i + Len(u)) + (q - Len(u)) - 1 = i + q - 1
        BY <1>0, <3>2
      <4> QED
        BY <1>1, <1>3, <4>1 DEF At
    <3> QED
      BY <1>0, <3>1, <3>2
  <2> QED
    BY <1>0, <1>3, <2>1 DEF At
<1> QED
  BY <1>2, <1>3

LEMMA AtOne ==
  ASSUME NEW T, NEW t \in Seq(T), NEW i \in Nat \ {0}, NEW c
  PROVE  At(t, i, <<c>>) <=> i <= Len(t) /\ t[i] = c
<1>1. Len(<<c>>) = 1 /\ <<c>>[1] = c /\ Len(t) \in Nat
  OBVIOUS
<1> QED
  BY <1>1 DEF At

(* Where the parts are of what is joined and stands in t at i.             *)
StartOf(f, i, n) == IF n = 1 THEN i ELSE i + Len(f[n - 1]) + 1

ArePlaces(t, i, w, f) ==
  \A n \in 1 .. Len(w) :
    /\ StartOf(f, i, n) \in Nat \ {0}
    /\ At(t, StartOf(f, i, n), w[n])
    /\ StartOf(f, i, n) + Len(w[n]) = i + Len(f[n])
    /\ n # 1 => /\ StartOf(f, i, n) - 1 = i + Len(f[n - 1])
                /\ i + Len(f[n - 1]) <= Len(t) /\ t[i + Len(f[n - 1])] = tokenArraySeparator

LEMMA JoinedPlaces ==
  ASSUME NEW T, tokenArraySeparator \in T, NEW w, AreSeqs(w, T), NEW f, IsJoining(f, w),
         NEW t \in Seq(T), NEW i \in Nat \ {0}, At(t, i, f[Len(w)])
  PROVE  ArePlaces(t, i, w, f)
<1> DEFINE N == Len(w)
           S == {k \in 0 .. N : k < N => At(t, i, f[N - k])}
<1>0. N \in Nat
  BY DEF AreSeqs
<1>1. \A n \in 1 .. N :
        /\ f[n] \in Seq(T) /\ Len(f[n]) \in Nat
        /\ Len(f[n]) = IF n = 1 THEN Len(w[1]) ELSE Len(f[n - 1]) + 1 + Len(w[n])
  BY JoiningType
<1>2. f[1] = w[1] /\ \A n \in 2 .. N : f[n] = f[n - 1] \o WithComma(w[n])
  BY Zenon DEF IsJoining
<1>3. \A n \in 1 .. N : w[n] \in Seq(T) /\ Len(w[n]) \in Nat /\ WithComma(w[n]) \in Seq(T)
  BY WithCommaType, Zenon DEF AreSeqs
<1>4. ASSUME NEW n \in 2 .. N, At(t, i, f[n])
      PROVE  At(t, i, f[n - 1]) /\ At(t, i + Len(f[n - 1]), WithComma(w[n]))
  <2>1. n \in 1 .. N /\ n - 1 \in 1 .. N
    BY <1>0
  <2>2. f[n - 1] \in Seq(T) /\ WithComma(w[n]) \in Seq(T) /\ f[n] = f[n - 1] \o WithComma(w[n])
    BY <1>1, <1>2, <1>3, <2>1, Zenon
  <2> QED
    BY <1>4, <2>2, AtConcat, Zenon
<1>5. ASSUME NEW k \in 0 .. N - 1, k \in S PROVE k + 1 \in S
  <2>1. k + 1 \in 0 .. N /\ k < N
    BY <1>0
  <2>2. ASSUME k + 1 < N PROVE At(t, i, f[N - (k + 1)])
    <3>1. N - k \in 2 .. N /\ (N - k) - 1 = N - (k + 1)
      BY <1>0, <2>2
    <3>2. At(t, i, f[N - k])
      BY <1>5, <2>1, Zenon
    <3> QED
      BY <1>4, <3>1, <3>2
  <2> QED
    BY <2>1, <2>2, Zenon
<1>6. 0 \in S
  <2>1. 0 \in 0 .. N /\ N - 0 = N
    BY <1>0
  <2> QED
    BY <2>1, Zenon
<1> HIDE DEF S
<1>7. 0 .. N \subseteq S
  BY <1>0, <1>5, <1>6, InductionUpTo
<1>8. ASSUME NEW n \in 1 .. N PROVE At(t, i, f[n])
  <2>1. N - n \in 0 .. N /\ N - n < N /\ N - (N - n) = n
    BY <1>0
  <2>2. At(t, i, f[N - (N - n)])
    BY <1>7, <2>1, Zenon DEF S
  <2> QED
    BY <2>1, <2>2, Zenon
<1> SUFFICES ASSUME NEW n \in 1 .. N
             PROVE  /\ StartOf(f, i, n) \in Nat \ {0}
                    /\ At(t, StartOf(f, i, n), w[n])
                    /\ StartOf(f, i, n) + Len(w[n]) = i + Len(f[n])
                    /\ n # 1 => /\ StartOf(f, i, n) - 1 = i + Len(f[n - 1])
                                /\ i + Len(f[n - 1]) <= Len(t) /\ t[i + Len(f[n - 1])] = tokenArraySeparator
  BY Zenon DEF ArePlaces
<1>9. CASE n = 1
  <2>1. StartOf(f, i, n) = i /\ At(t, i, w[n]) /\ Len(f[n]) = Len(w[n])
    BY <1>1, <1>2, <1>8, <1>9, Zenon DEF StartOf
  <2> QED
    BY <1>9, <2>1
<1>10. CASE n # 1
  <2> DEFINE m == Len(f[n - 1])
             j == i + m
  <2>1. n \in 2 .. N /\ n - 1 \in 1 .. N
    BY <1>0, <1>10
  <2>2. m \in Nat /\ Len(w[n]) \in Nat /\ w[n] \in Seq(T) /\ Len(f[n]) = m + 1 + Len(w[n])
    BY <1>1, <1>3, <1>10, <2>1, Zenon
  <2>3. At(t, j, WithComma(w[n]))
    BY <1>4, <1>8, <2>1, Zenon
  <2>4. <<tokenArraySeparator>> \in Seq(T) /\ Len(<<tokenArraySeparator>>) = 1
    OBVIOUS
  <2>5. StartOf(f, i, n) = j + 1
    BY <1>10, Zenon DEF StartOf
  <2> HIDE DEF m
  <2>6. j \in Nat \ {0} /\ (j + 1) - 1 = j /\ j + 1 \in Nat \ {0}
    BY <2>2
  <2> HIDE DEF j
  <2>7. At(t, j, <<tokenArraySeparator>>) /\ At(t, j + 1, w[n])
    BY <2>2, <2>3, <2>4, <2>6, AtConcat DEF WithComma
  <2>8. j <= Len(t) /\ t[j] = tokenArraySeparator
    BY <2>6, <2>7, AtOne
  <2>9. (j + 1) + Len(w[n]) = i + Len(f[n])
    <3> DEFINE b == Len(w[n])
    <3>1. b \in Nat /\ Len(f[n]) = m + 1 + b
      BY <2>2, Zenon
    <3> HIDE DEF b
    <3>2. (j + 1) + b = i + (m + 1 + b)
      BY <2>2, <3>1 DEF j
    <3> QED
      BY <3>1, <3>2, Zenon DEF b
  <2> QED
    BY <2>5, <2>6, <2>7, <2>8, <2>9, Zenon DEF j, m
<1> QED
  BY <1>9, <1>10

-----------------------------------------------------------------------------
(* The tokens and the positions of the reader.                             *)
LEMMA MarksDiffer ==
  /\ tokenComment # tokenObjectBegin /\ tokenComment # tokenObjectEnd /\ tokenComment # tokenArrayBegin
  /\ tokenComment # tokenArrayEnd /\ tokenComment # tokenArraySeparator
  /\ tokenComment # tokenMemberSeparator /\ tokenComment # tokenEndOfStream
  /\ tokenEndOfStream # tokenObjectEnd /\ tokenEndOfStream # tokenArrayEnd
  /\ tokenEndOfStream # tokenArraySeparator /\ tokenEndOfStream # tokenMemberSeparator
  /\ tokenEndOfStream # tokenObjectBegin /\ tokenEndOfStream # tokenArrayBegin
  /\ tokenObjectBegin # tokenArrayBegin /\ tokenObjectEnd # tokenArraySeparator
  /\ tokenArrayEnd # tokenArraySeparator /\ tokenArrayEnd # tokenObjectBegin
  /\ tokenArrayEnd # tokenArrayBegin
  /\ "error" # tokenObjectEnd /\ "error" # tokenArrayEnd /\ "error" # tokenArraySeparator
BY Zenon DEF tokenObjectBegin, tokenObjectEnd, tokenArrayBegin, tokenArrayEnd, tokenArraySeparator,
  tokenMemberSeparator, tokenComment, tokenEndOfStream

LEMMA MarksAreNoValues ==
  \A c \in {tokenObjectBegin, tokenObjectEnd, tokenArrayBegin, tokenArrayEnd, tokenArraySeparator,
            tokenMemberSeparator, tokenComment, tokenEndOfStream} : c \in Token /\ c \notin Str \cup Scalar
<1>1. \A c \in {tokenObjectBegin, tokenObjectEnd, tokenArrayBegin, tokenArrayEnd, tokenArraySeparator,
            tokenMemberSeparator, tokenComment, tokenEndOfStream} : c \in Mark
  BY Zenon DEF Mark
<1>2. (Str \cup Scalar) \cap Mark = {}
  BY TextAssumption
<1> QED
  BY <1>1, <1>2 DEF Token

LEMMA ReadTokenType ==
  ASSUME NEW t \in Seq(Token), NEW i \in Nat \ {0}
  PROVE  /\ readToken(t, i) \in Token
         /\ i <= Len(t) => readToken(t, i) = t[i]
         /\ i > Len(t) => readToken(t, i) = tokenEndOfStream
         /\ readToken(t, i) # tokenEndOfStream => i <= Len(t)
<1>1. tokenEndOfStream \in Token
  BY MarksAreNoValues, Zenon
<1> QED
  BY <1>1 DEF readToken

LEMMA Skipped ==
  ASSUME NEW t \in Seq(Token), NEW i \in Nat \ {0}
  PROVE  /\ skipCommentTokens(t, i) \in Nat \ {0} /\ i <= skipCommentTokens(t, i)
         /\ readToken(t, skipCommentTokens(t, i)) # tokenComment
         /\ readToken(t, i) # tokenComment => skipCommentTokens(t, i) = i
         /\ i <= Len(t) => skipCommentTokens(t, i) <= Len(t) + 1
<1> DEFINE S == {j \in i .. i + Len(t) : readToken(t, j) # tokenComment}
<1>0. Len(t) \in Nat /\ \A j \in i .. i + Len(t) : j \in Nat \ {0}
  OBVIOUS
<1>1. \A j \in i .. i + Len(t) : j > Len(t) => j \in S
  BY <1>0, ReadTokenType, MarksDiffer
<1>2. i + Len(t) \in S /\ S \in SUBSET Nat
  BY <1>0, <1>1
<1>3. readToken(t, i) # tokenComment => i \in S
  BY <1>0
<1>a. \A j \in S : j \in i .. i + Len(t) /\ readToken(t, j) # tokenComment
  OBVIOUS
<1>b. skipCommentTokens(t, i) = Min(S)
  BY Zenon DEF skipCommentTokens
<1> HIDE DEF S
<1>4. \E x \in S : \A y \in S : x <= y
  BY <1>2, LeastNatural
<1>5. Min(S) \in S /\ \A y \in S : Min(S) <= y
  BY <1>4, Zenon DEF Min
<1>6. i <= Len(t) => Len(t) + 1 \in i .. i + Len(t)
  BY <1>0
<1>7. i <= Len(t) => Len(t) + 1 \in S
  BY <1>0, <1>1, <1>6
<1>8. Min(S) \in Nat \ {0} /\ i <= Min(S) /\ readToken(t, Min(S)) # tokenComment
  BY <1>0, <1>5, <1>a
<1>9. readToken(t, i) # tokenComment => Min(S) = i
  BY <1>3, <1>5, <1>8
<1> QED
  BY <1>b, <1>5, <1>7, <1>8, <1>9, Zenon

LEMMA Recovered ==
  ASSUME NEW t \in Seq(Token), NEW i \in Nat \ {0}, NEW until
  PROVE  \E n \in Nat : n > i /\ recoverFromError(t, i, until) = Failed(n)
<1> DEFINE S == {j \in i .. i + Len(t) : readToken(t, j) \in {until, tokenEndOfStream}}
<1>0. Len(t) \in Nat /\ \A j \in i .. i + Len(t) : j \in Nat \ {0}
  OBVIOUS
<1>1. i + Len(t) \in S /\ S \in SUBSET Nat
  <2>1. readToken(t, i + Len(t)) = tokenEndOfStream /\ i + Len(t) \in i .. i + Len(t)
    BY <1>0, ReadTokenType
  <2> QED
    BY <1>0, <2>1
<1>2. \A j \in S : j \in i .. i + Len(t)
  OBVIOUS
<1>3. recoverFromError(t, i, until) = Failed(1 + Min(S))
  BY Zenon DEF recoverFromError
<1> HIDE DEF S
<1>4. \E x \in S : \A y \in S : x <= y
  BY <1>1, LeastNatural
<1>5. Min(S) \in S
  BY <1>4, Zenon DEF Min
<1>6. 1 + Min(S) \in Nat /\ 1 + Min(S) > i
  BY <1>0, <1>2, <1>5
<1> QED
  BY <1>3, <1>6, Zenon

-----------------------------------------------------------------------------
(* The values and their texts, kind by kind.                               *)
MapsOver(V) == {m \in [Str -> V \cup {NoMember}] : IsFiniteSet(Names(m))}

LEMMA ValuesOverIs ==
  ASSUME NEW V, NEW v
  PROVE  v \in ValuesOver(V) <=> \/ \E c \in Str \cup Scalar : v = ScalarValue(c)
                                 \/ \E e \in Seq(V) : v = ArrayOf(e)
                                 \/ \E m \in MapsOver(V) : v = ObjectOf(m)
<1> DEFINE A == Seq(V)
           O == MapsOver(V)
<1>1. ValuesOver(V) = [type : {"scalar"}, of : Str \cup Scalar]
         \cup [type : {"arrayValue"}, of : A] \cup [type : {"objectValue"}, of : O]
  BY Zenon DEF ValuesOver, MapsOver
<1> HIDE DEF A, O
<1>2. v \in ValuesOver(V) <=> \/ \E c \in Str \cup Scalar : v = ScalarValue(c)
                              \/ \E e \in A : v = ArrayOf(e)
                              \/ \E m \in O : v = ObjectOf(m)
  BY <1>1 DEF ScalarValue, ArrayOf, ObjectOf
<1> QED
  BY <1>2 DEF A, O

LEMMA KindsOfValues ==
  \A a, b : /\ ScalarValue(a).of = a /\ ArrayOf(a).of = a /\ ObjectOf(a).of = a
            /\ ScalarValue(a).type = "scalar" /\ ArrayOf(a).type = "arrayValue"
            /\ ObjectOf(a).type = "objectValue"
            /\ ScalarValue(a) # ArrayOf(b) /\ ScalarValue(a) # ObjectOf(b) /\ ArrayOf(a) # ObjectOf(b)
            /\ (ScalarValue(a) = ScalarValue(b) \/ ArrayOf(a) = ArrayOf(b) \/ ObjectOf(a) = ObjectOf(b) => a = b)
BY DEF ScalarValue, ArrayOf, ObjectOf

LEMMA OneOfEachIs ==
  ASSUME NEW D, NEW X, NEW sets, DOMAIN sets = D, \A n \in D : sets[n] \subseteq X, NEW f
  PROVE  f \in OneOfEach(sets) <=> f \in [D -> X] /\ \A n \in D : f[n] \in sets[n]
<1>1. Range(sets) = {sets[n] : n \in D}
  BY DEF Range
<1> DEFINE U == UNION Range(sets)
<1>2. f \in OneOfEach(sets) <=> f \in [D -> U] /\ \A n \in D : f[n] \in sets[n]
  BY Zenon DEF OneOfEach
<1>3. \A n \in D : sets[n] \subseteq U
  BY <1>1
<1> HIDE DEF U
<1> QED
  BY <1>2, <1>3

IsText(u) ==
  /\ u \in Seq(Token) /\ Len(u) >= 1
  /\ u[1] \in Str \cup Scalar \cup {tokenObjectBegin, tokenArrayBegin, tokenComment}

AreTexts(texts, V) == \A v \in V : \A u \in texts[v] : IsText(u)

AreRuns(runs) == runs \subseteq Seq({tokenComment}) /\ <<>> \in runs

LEMMA RunsGiven == AreRuns(NoComment) /\ AreRuns(CommentRuns) /\ \A t : AreRuns(CommentsOf(t))
<1>1. AreRuns(NoComment)
  BY DEF AreRuns, NoComment
<1>2. AreRuns(CommentRuns)
  BY TextAssumption DEF AreRuns
<1> QED
  BY <1>1, <1>2, Zenon DEF CommentsOf

LEMMA RunType ==
  ASSUME NEW c \in Seq({tokenComment})
  PROVE  c \in Seq(Token) /\ Len(c) \in Nat /\ \A q \in 1 .. Len(c) : c[q] = tokenComment
<1>1. tokenComment \in Token
  BY MarksAreNoValues, Zenon
<1> QED
  BY <1>1

(* A sequence that begins or ends with no comment.                         *)
LEMMA WithoutRun ==
  ASSUME NEW u \in Seq(Token)
  PROVE  <<>> \o u = u /\ u \o <<>> = u
OBVIOUS

LEMMA CommentedIs ==
  ASSUME NEW runs, NEW X, NEW u
  PROVE  u \in Commented(runs, X) <=> \E c \in runs, w \in X : u = c \o w
BY DEF Commented

LEMMA BodiesAre ==
  ASSUME NEW runs, NEW X
  PROVE  \A u : u \in Bodies(runs, X) <=> \E f \in X, b \in runs : u = Body(f, b)
BY DEF Bodies

LEMMA InsidesAre ==
  ASSUME NEW runs, NEW X
  PROVE  \A u : u \in Insides(runs, X) <=> \E f \in X, b \in runs : u = Inside(f, b)
BY DEF Insides

LEMMA CommentedType ==
  ASSUME NEW runs, AreRuns(runs), NEW X \in SUBSET Seq(Token)
  PROVE  Commented(runs, X) \subseteq Seq(Token) /\ X \subseteq Commented(runs, X)
<1>1. ASSUME NEW u \in Commented(runs, X) PROVE u \in Seq(Token)
  <2>1. PICK c \in runs, w \in X : u = c \o w
    BY <1>1, CommentedIs
  <2>2. c \in Seq(Token) /\ w \in Seq(Token)
    BY RunType, Zenon DEF AreRuns
  <2> QED
    BY <2>1, <2>2
<1>2. ASSUME NEW u \in X PROVE u \in Commented(runs, X)
  <2>1. u = <<>> \o u /\ <<>> \in runs
    BY WithoutRun, Zenon DEF AreRuns
  <2> QED
    BY <2>1, CommentedIs, Zenon
<1> QED
  BY <1>1, <1>2

(* f are texts of the elements, or of the members in the order of names.   *)
AreElementTexts(texts, elements, f) ==
  f \in [1 .. Len(elements) -> Seq(Token)] /\ \A n \in 1 .. Len(elements) : f[n] \in texts[elements[n]]

AreMemberTexts(texts, members, names, f) ==
  /\ f \in [DOMAIN names -> Seq(Token)]
  /\ \A n \in DOMAIN names : \E u \in texts[members[names[n]]] : f[n] = Member(names[n], u)

(* The same with comments before the names.                                *)
AreCommentedMembers(runs, texts, members, names, f) ==
  /\ f \in [DOMAIN names -> Seq(Token)]
  /\ \A n \in DOMAIN names :
       \E c \in runs, u \in texts[members[names[n]]] : f[n] = c \o Member(names[n], u)

LEMMA ScalarTexts ==
  ASSUME NEW runs, NEW texts, NEW c
  PROVE  TextsWith(runs, texts, ScalarValue(c)) = Commented(runs, {<<c>>})
BY KindsOfValues, Zenon DEF TextsWith

IsArrayText(runs, texts, e, u) ==
  \E a, b, f : /\ a \in runs /\ b \in runs /\ AreElementTexts(texts, e, f)
               /\ u = a \o InArray(Body(f, b))

LEMMA ArrayTexts ==
  ASSUME NEW runs, NEW texts, NEW V, AreTexts(texts, V), NEW elements \in Seq(V), NEW u
  PROVE  u \in TextsWith(runs, texts, ArrayOf(elements)) <=> IsArrayText(runs, texts, elements, u)
<1> DEFINE sets == [n \in DOMAIN elements |-> texts[elements[n]]]
           D    == 1 .. Len(elements)
           X    == Seq(Token)
           A    == {InArray(t) : t \in Bodies(runs, OneOfEach(sets))}
<1>1. "arrayValue" # "scalar"
  OBVIOUS
<1>2. TextsWith(runs, texts, ArrayOf(elements)) = Commented(runs, A)
  BY <1>1, KindsOfValues, Zenon DEF TextsWith
<1>3. DOMAIN elements = D /\ \A n \in D : elements[n] \in V
  OBVIOUS
<1>4. \A n \in D : sets[n] = texts[elements[n]]
  BY <1>3
<1>5. DOMAIN sets = D
  BY <1>3
<1>6. \A n \in D : sets[n] \subseteq X
  BY <1>3, <1>4, Zenon DEF AreTexts, IsText
<1> HIDE DEF sets
<1>7. \A f : f \in OneOfEach(sets) <=> AreElementTexts(texts, elements, f)
  <2>1. \A f : f \in OneOfEach(sets) <=> f \in [D -> X] /\ \A n \in D : f[n] \in sets[n]
    BY <1>5, <1>6, OneOfEachIs, Zenon
  <2> QED
    BY <1>4, <2>1, Zenon DEF AreElementTexts
<1>8. \A w : w \in A <=> \E f, b : AreElementTexts(texts, elements, f) /\ b \in runs /\ w = InArray(Body(f, b))
  <2>1. \A w : w \in A <=> \E t \in Bodies(runs, OneOfEach(sets)) : w = InArray(t)
    BY Zenon
  <2>2. \A t : t \in Bodies(runs, OneOfEach(sets)) <=> \E f \in OneOfEach(sets), b \in runs : t = Body(f, b)
    BY BodiesAre
  <2> HIDE DEF A
  <2>3. ASSUME NEW w, w \in A
        PROVE  \E f, b : AreElementTexts(texts, elements, f) /\ b \in runs /\ w = InArray(Body(f, b))
    <3>1. PICK t \in Bodies(runs, OneOfEach(sets)) : w = InArray(t)
      BY <2>1, <2>3, Zenon
    <3>2. PICK f \in OneOfEach(sets), b \in runs : t = Body(f, b)
      BY <2>2, <3>1, Zenon
    <3> QED
      BY <1>7, <3>1, <3>2, Zenon
  <2>4. ASSUME NEW f, NEW b, AreElementTexts(texts, elements, f), b \in runs
        PROVE  InArray(Body(f, b)) \in A
    BY <1>7, <2>1, <2>2, <2>4, Zenon
  <2> QED
    BY <2>3, <2>4, Zenon
<1> HIDE DEF A
<1>9. u \in Commented(runs, A) <=> \E c \in runs, w \in A : u = c \o w
  BY CommentedIs
<1>10. ASSUME u \in Commented(runs, A)
       PROVE  IsArrayText(runs, texts, elements, u)
  <2>1. PICK c \in runs, w \in A : u = c \o w
    BY <1>9, <1>10, Zenon
  <2>2. PICK f, b : AreElementTexts(texts, elements, f) /\ b \in runs /\ w = InArray(Body(f, b))
    BY <1>8, Zenon
  <2> QED
    BY <2>1, <2>2, Zenon DEF IsArrayText
<1>11. ASSUME NEW c \in runs, NEW b \in runs, NEW f, AreElementTexts(texts, elements, f),
              u = c \o InArray(Body(f, b))
       PROVE  u \in Commented(runs, A)
  <2>1. InArray(Body(f, b)) \in A
    BY <1>8, <1>11, Zenon
  <2> QED
    BY <1>9, <1>11, <2>1, Zenon
<1> QED
  BY <1>2, <1>10, <1>11, Zenon DEF IsArrayText

LEMMA NamesOf ==
  ASSUME NEW V, NEW members \in MapsOver(V)
  PROVE  /\ IsFiniteSet(Names(members)) /\ Names(members) \subseteq Str
         /\ \A name \in Names(members) : name \in Str /\ members[name] \in V
<1>1. members \in [Str -> V \cup {NoMember}] /\ IsFiniteSet(Names(members))
  BY Zenon DEF MapsOver
<1>2. \A name \in Names(members) : name \in Str /\ members[name] # NoMember
  BY Zenon DEF Names
<1> HIDE DEF NoMember
<1> QED
  BY <1>1, <1>2

LEMMA MemberType ==
  ASSUME NEW name \in Str, NEW u \in Seq(Token)
  PROVE  /\ Member(name, u) \in Seq(Token) /\ Len(Member(name, u)) = Len(u) + 2 /\ Len(u) \in Nat
         /\ <<name, tokenMemberSeparator>> \in Seq(Token) /\ Len(<<name, tokenMemberSeparator>>) = 2
<1>1. tokenMemberSeparator \in Token /\ name \in Token
  <2>1. name \in Token
    BY DEF Token
  <2> QED
    BY <2>1, MarksAreNoValues, Zenon
<1>2. <<name, tokenMemberSeparator>> \in Seq(Token) /\ Len(<<name, tokenMemberSeparator>>) = 2
  BY <1>1
<1> QED
  BY <1>2, ConcatProperties DEF Member

MemberSets(runs, texts, members, names) ==
  [n \in DOMAIN names |-> Commented(runs, {Member(names[n], t) : t \in texts[members[names[n]]]})]

ObjectTextsOver(runs, texts, members) ==
  {InObject(t) : t \in Bodies(runs,
     UNION {OneOfEach(MemberSets(runs, texts, members, names)) : names \in SetToSeqs(Names(members))})}

LEMMA CommentedMembers ==
  ASSUME NEW runs, AreRuns(runs), NEW texts, NEW V, \A v \in V : texts[v] \subseteq Seq(Token),
         NEW members \in MapsOver(V), NEW names \in SetToSeqs(Names(members)), NEW f
  PROVE  f \in OneOfEach(MemberSets(runs, texts, members, names))
           <=> AreCommentedMembers(runs, texts, members, names, f)
<1> DEFINE D == DOMAIN names
           X == Seq(Token)
           M(n) == {Member(names[n], t) : t \in texts[members[names[n]]]}
           s == MemberSets(runs, texts, members, names)
<1>1. names \in [1 .. Cardinality(Names(members)) -> Names(members)]
  BY Zenon DEF SetToSeqs
<1>2. \A n \in D : names[n] \in Names(members)
  BY <1>1
<1>3. \A n \in D : names[n] \in Str /\ members[names[n]] \in V
  BY <1>2, NamesOf, Zenon
<1>4. \A n \in D : s[n] = Commented(runs, M(n))
  BY Zenon DEF MemberSets
<1>5. DOMAIN s = D
  BY Zenon DEF MemberSets
<1>6. ASSUME NEW n \in D PROVE s[n] \subseteq X
  <2>1. ASSUME NEW t \in texts[members[names[n]]] PROVE Member(names[n], t) \in X
    BY <1>3, MemberType
  <2>2. M(n) \in SUBSET Seq(Token)
    BY <2>1
  <2> HIDE DEF s, M
  <2> QED
    BY <1>4, <2>2, CommentedType
<1> HIDE DEF s
<1>7. f \in OneOfEach(s) <=> f \in [D -> X] /\ \A n \in D : f[n] \in s[n]
  BY <1>5, <1>6, OneOfEachIs, Zenon
<1>8. ASSUME NEW n \in D
      PROVE  f[n] \in s[n] <=> \E c \in runs, t \in texts[members[names[n]]] : f[n] = c \o Member(names[n], t)
  <2>1. \A w : w \in M(n) <=> \E t \in texts[members[names[n]]] : w = Member(names[n], t)
    BY Zenon
  <2> HIDE DEF M
  <2>2. f[n] \in s[n] <=> \E c \in runs, w \in M(n) : f[n] = c \o w
    <3>1. s[n] = Commented(runs, M(n))
      BY <1>4, Zenon
    <3> DEFINE x == f[n]
               Y == M(n)
    <3> HIDE DEF x, Y
    <3>2. x \in Commented(runs, Y) <=> \E c \in runs, w \in Y : x = c \o w
      BY DEF Commented
    <3> QED
      BY <3>1, <3>2, Zenon DEF x, Y
  <2> QED
    BY <2>1, <2>2, Zenon
<1> QED
  BY <1>7, <1>8, Zenon DEF AreCommentedMembers, s

LEMMA TextsAreSeqs ==
  ASSUME NEW texts, NEW V, AreTexts(texts, V)
  PROVE  \A v \in V : texts[v] \subseteq Seq(Token)
BY Zenon DEF AreTexts, IsText

LEMMA ObjectTexts ==
  ASSUME NEW runs, AreRuns(runs), NEW texts, NEW V, AreTexts(texts, V), NEW members \in MapsOver(V), NEW u
  PROVE  u \in TextsWith(runs, texts, ObjectOf(members))
           <=> \E c \in runs, b \in runs, names \in SetToSeqs(Names(members)) : \E f :
                 AreCommentedMembers(runs, texts, members, names, f) /\ u = c \o InObject(Body(f, b))
<1> DEFINE O == ObjectTextsOver(runs, texts, members)
           value == ObjectOf(members)
<1>1. "objectValue" # "scalar" /\ "objectValue" # "arrayValue"
  OBVIOUS
<1>2. TextsWith(runs, texts, ObjectOf(members)) = Commented(runs, O)
  <2>1. value.type = "objectValue" /\ value.of = members
    BY KindsOfValues, Zenon
  <2> HIDE DEF value
  <2>2. TextsWith(runs, texts, value) = Commented(runs, ObjectTextsOver(runs, texts, value.of))
    BY <1>1, <2>1, Zenon DEF TextsWith, ObjectTextsOver, MemberSets
  <2> QED
    BY <2>1, <2>2, Zenon DEF value
<1>3. \A names \in SetToSeqs(Names(members)) : \A f :
        f \in OneOfEach(MemberSets(runs, texts, members, names))
          <=> AreCommentedMembers(runs, texts, members, names, f)
  BY TextsAreSeqs, CommentedMembers
<1>4. \A w : w \in O <=> \E names \in SetToSeqs(Names(members)) : \E f, b :
                           /\ f \in OneOfEach(MemberSets(runs, texts, members, names))
                           /\ b \in runs /\ w = InObject(Body(f, b))
  <2> DEFINE F == UNION {OneOfEach(MemberSets(runs, texts, members, names)) : names \in SetToSeqs(Names(members))}
  <2>1. \A w : w \in O <=> \E t \in Bodies(runs, F) : w = InObject(t)
    BY Zenon DEF ObjectTextsOver
  <2>2. \A f : f \in F <=> \E names \in SetToSeqs(Names(members)) :
                              f \in OneOfEach(MemberSets(runs, texts, members, names))
    BY Zenon
  <2> HIDE DEF F
  <2>3. \A t : t \in Bodies(runs, F) <=> \E f \in F, b \in runs : t = Body(f, b)
    BY BodiesAre
  <2> HIDE DEF O
  <2>4. ASSUME NEW w, w \in O
        PROVE  \E names \in SetToSeqs(Names(members)) : \E f, b :
                 /\ f \in OneOfEach(MemberSets(runs, texts, members, names))
                 /\ b \in runs /\ w = InObject(Body(f, b))
    <3>1. PICK t \in Bodies(runs, F) : w = InObject(t)
      BY <2>1, <2>4, Zenon
    <3>2. PICK f \in F, b \in runs : t = Body(f, b)
      BY <2>3, <3>1, Zenon
    <3>3. PICK names \in SetToSeqs(Names(members)) : f \in OneOfEach(MemberSets(runs, texts, members, names))
      BY <2>2, <3>2, Zenon
    <3> QED
      BY <3>1, <3>2, <3>3, Zenon
  <2>5. ASSUME NEW names \in SetToSeqs(Names(members)), NEW f, NEW b,
               f \in OneOfEach(MemberSets(runs, texts, members, names)), b \in runs
        PROVE  InObject(Body(f, b)) \in O
    BY <2>1, <2>2, <2>3, <2>5, Zenon
  <2> QED
    BY <2>4, <2>5
<1> HIDE DEF O
<1> QED
  BY <1>2, <1>3, <1>4, CommentedIs

LEMMA FunctionIsSeq ==
  ASSUME NEW Q, NEW N \in Nat, NEW f \in [1 .. N -> Q]
  PROVE  f \in Seq(Q) /\ Len(f) = N
OBVIOUS

LEMMA JoinedIs ==
  ASSUME NEW N \in Nat, NEW w \in [1 .. N -> Seq(Token)]
  PROVE  /\ Joined(w) \in Seq(Token) /\ Len(w) = N /\ AreSeqs(w, Token)
         /\ N = 0 => Joined(w) = <<>>
         /\ N # 0 => \E g : IsJoining(g, w) /\ Joined(w) = g[N]
<1> DEFINE Q == Seq(Token)
<1>1. w \in Seq(Q) /\ Len(w) = N
  BY FunctionIsSeq, Zenon
<1>2. \A n \in 1 .. N : w[n] \in Q
  OBVIOUS
<1>3. AreSeqs(w, Token)
  BY <1>1, <1>2, Zenon DEF AreSeqs
<1> HIDE DEF Q
<1>4. N # 0 => \E g : IsJoining(g, w) /\ Joined(w) = g[N]
  <2>1. N # 0 => w # <<>>
    BY <1>1
  <2> QED
    BY <1>1, <2>1, JoinedDef, Zenon
<1>5. N = 0 => Joined(w) = <<>>
  BY <1>1, JoinedNothing, Zenon
<1>6. Joined(w) \in Seq(Token)
  <2>1. CASE N = 0
    <3>1. <<>> \in Seq(Token)
      OBVIOUS
    <3> QED
      BY <1>5, <2>1, <3>1, Zenon
  <2>2. CASE N # 0
    <3>1. PICK g : IsJoining(g, w) /\ Joined(w) = g[N]
      BY <1>4, <2>2
    <3>2. N \in 1 .. N
      BY <2>2
    <3>3. tokenArraySeparator \in Token
      BY MarksAreNoValues, Zenon
    <3> QED
      <4>1. \A n \in 1 .. Len(w) : g[n] \in Seq(Token)
        BY <1>3, <3>1, <3>3, JoiningType
      <4> QED
        BY <1>1, <3>1, <3>2, <4>1, Zenon
  <2> QED
    BY <2>1, <2>2
<1> QED
  BY <1>1, <1>3, <1>4, <1>5, <1>6

(* What stands between brackets, the comments before the closing one in-   *)
(* cluded.                                                                 *)
LEMMA BodyIs ==
  ASSUME NEW N \in Nat, NEW w \in [1 .. N -> Seq(Token)], NEW b \in Seq({tokenComment})
  PROVE  /\ Body(w, b) \in Seq(Token) /\ Inside(w, b) = Body(w, b)
         /\ N = 0 => Body(w, b) = <<>>
         /\ N # 0 => Body(w, b) = Joined(w) \o b
<1>1. w = <<>> <=> N = 0
  <2> DEFINE Q == Seq(Token)
  <2>1. w \in Seq(Q) /\ Len(w) = N
    BY FunctionIsSeq, Zenon
  <2> HIDE DEF Q
  <2> QED
    BY <2>1
<1>2. Joined(w) \in Seq(Token) /\ b \in Seq(Token)
  BY JoinedIs, RunType, Zenon
<1>3. Joined(w) \o b \in Seq(Token) /\ <<>> \in Seq(Token)
  BY <1>2
<1>4. Inside(w, b) = Body(w, b)
  BY Zenon DEF Inside, Body, Separated
<1> QED
  BY <1>1, <1>3, <1>4, Zenon DEF Body

LEMMA BodyWithoutComment ==
  ASSUME NEW N \in Nat, NEW w \in [1 .. N -> Seq(Token)]
  PROVE  Body(w, <<>>) = Joined(w)
<1>1. <<>> \in Seq({tokenComment})
  OBVIOUS
<1>2. Joined(w) \in Seq(Token) /\ (N = 0 => Joined(w) = <<>>)
  BY JoinedIs, Zenon
<1>3. Joined(w) \o <<>> = Joined(w)
  BY <1>2, WithoutRun
<1> QED
  BY <1>1, <1>2, <1>3, BodyIs, Zenon

IsBracketed(w, a, u, b) ==
  /\ w \in Seq(Token) /\ Len(u) \in Nat /\ Len(w) = Len(u) + 2 /\ w[1] = a
  /\ \A t \in Seq(Token), i \in Nat \ {0} :
       At(t, i, w) <=> /\ i <= Len(t) /\ t[i] = a /\ At(t, i + 1, u)
                       /\ i + 1 + Len(u) <= Len(t) /\ t[i + 1 + Len(u)] = b

LEMMA Bracketed ==
  ASSUME NEW a \in Token, NEW b \in Token, NEW u \in Seq(Token)
  PROVE  IsBracketed(<<a>> \o (u \o <<b>>), a, u, b)
<1> DEFINE w == <<a>> \o (u \o <<b>>)
<1>1. /\ <<a>> \in Seq(Token) /\ Len(<<a>>) = 1 /\ <<a>>[1] = a
      /\ <<b>> \in Seq(Token) /\ Len(<<b>>) = 1 /\ Len(u) \in Nat
  OBVIOUS
<1>2. u \o <<b>> \in Seq(Token) /\ Len(u \o <<b>>) = Len(u) + 1
  BY <1>1, ConcatProperties
<1>3. w \in Seq(Token) /\ Len(w) = Len(u) + 2 /\ w[1] = a
  BY <1>1, <1>2, ConcatProperties
<1>4. ASSUME NEW t \in Seq(Token), NEW i \in Nat \ {0}
      PROVE  At(t, i, w) <=> /\ i <= Len(t) /\ t[i] = a /\ At(t, i + 1, u)
                             /\ i + 1 + Len(u) <= Len(t) /\ t[i + 1 + Len(u)] = b
  <2> DEFINE m == Len(u)
             j == i + 1
             k == j + m
  <2>1. j \in Nat \ {0} /\ k \in Nat \ {0}
    BY <1>1
  <2>2. At(t, i, w) <=> At(t, i, <<a>>) /\ At(t, j, u \o <<b>>)
    BY <1>1, <1>2, AtConcat
  <2>3. At(t, j, u \o <<b>>) <=> At(t, j, u) /\ At(t, k, <<b>>)
    BY <1>1, <2>1, AtConcat
  <2>4. (At(t, i, <<a>>) <=> i <= Len(t) /\ t[i] = a) /\ (At(t, k, <<b>>) <=> k <= Len(t) /\ t[k] = b)
    BY <2>1, AtOne
  <2> QED
    BY <2>2, <2>3, <2>4, Zenon
<1> HIDE DEF w
<1>5. IsBracketed(w, a, u, b)
  BY <1>1, <1>3, <1>4, Zenon DEF IsBracketed
<1> QED
  BY <1>5 DEF w

LEMMA InArrayIs ==
  ASSUME NEW u \in Seq(Token)
  PROVE  IsBracketed(InArray(u), tokenArrayBegin, u, tokenArrayEnd)
<1>1. tokenArrayBegin \in Token /\ tokenArrayEnd \in Token
  BY MarksAreNoValues, Zenon
<1> QED
  BY <1>1, Bracketed, Zenon DEF InArray

LEMMA InObjectIs ==
  ASSUME NEW u \in Seq(Token)
  PROVE  IsBracketed(InObject(u), tokenObjectBegin, u, tokenObjectEnd)
<1>1. tokenObjectBegin \in Token /\ tokenObjectEnd \in Token
  BY MarksAreNoValues, Zenon
<1> QED
  BY <1>1, Bracketed, Zenon DEF InObject

LEMMA AtMember ==
  ASSUME NEW name \in Str, NEW u \in Seq(Token), NEW t \in Seq(Token), NEW i \in Nat \ {0}
  PROVE  At(t, i, Member(name, u)) <=> /\ i + 1 <= Len(t) /\ t[i] = name
                                       /\ t[i + 1] = tokenMemberSeparator /\ At(t, i + 2, u)
<1> DEFINE p == <<name, tokenMemberSeparator>>
<1>1. p \in Seq(Token) /\ Len(p) = 2
  BY MemberType, Zenon
<1>2. p[1] = name /\ p[2] = tokenMemberSeparator
  OBVIOUS
<1>3. Member(name, u) = p \o u
  BY Zenon DEF Member
<1> HIDE DEF p
<1>4. At(t, i, p \o u) <=> At(t, i, p) /\ At(t, i + 2, u)
  BY <1>1, AtConcat
<1>5. At(t, i, p) <=> i + 1 <= Len(t) /\ t[i] = name /\ t[i + 1] = tokenMemberSeparator
  <2>1. Len(t) \in Nat /\ 1 \in 1 .. 2 /\ 2 \in 1 .. 2 /\ \A q \in 1 .. 2 : q = 1 \/ q = 2
    OBVIOUS
  <2>2. (i + 2 <= Len(t) + 1 <=> i + 1 <= Len(t)) /\ i + 1 - 1 = i /\ i + 2 - 1 = i + 1
    BY <2>1
  <2> QED
    BY <1>1, <1>2, <2>1, <2>2, Zenon DEF At
<1> QED
  BY <1>3, <1>4, <1>5, Zenon

(* The names of the members, in an order.                                  *)
LEMMA OrderDomain ==
  ASSUME NEW V, NEW members \in MapsOver(V), NEW names \in SetToSeqs(Names(members))
  PROVE  /\ Cardinality(Names(members)) \in Nat /\ DOMAIN names = 1 .. Cardinality(Names(members))
         /\ \A n \in DOMAIN names : names[n] \in Str /\ members[names[n]] \in V
<1>1. names \in [1 .. Cardinality(Names(members)) -> Names(members)]
  BY Zenon DEF SetToSeqs
<1>2. Cardinality(Names(members)) \in Nat
  BY NamesOf, FS_CardinalityType, Zenon
<1>3. DOMAIN names = 1 .. Cardinality(Names(members)) /\ \A n \in DOMAIN names : names[n] \in Names(members)
  BY <1>1
<1> QED
  BY <1>2, <1>3, NamesOf, Zenon

(* Texts without comments are texts for the grammar without them.          *)
LEMMA PlainScalarText ==
  ASSUME NEW texts, NEW c \in Str \cup Scalar
  PROVE  <<c>> \in TextsWith(NoComment, texts, ScalarValue(c))
<1>1. {<<c>>} \in SUBSET Seq(Token)
  BY DEF Token
<1>2. AreRuns(NoComment)
  BY RunsGiven, Zenon
<1>3. {<<c>>} \subseteq Commented(NoComment, {<<c>>})
  BY <1>1, <1>2, CommentedType, Zenon
<1>4. TextsWith(NoComment, texts, ScalarValue(c)) = Commented(NoComment, {<<c>>})
  BY ScalarTexts, Zenon
<1> QED
  BY <1>3, <1>4

LEMMA PlainArrayText ==
  ASSUME NEW texts, NEW V, AreTexts(texts, V), NEW e \in Seq(V), NEW f, AreElementTexts(texts, e, f)
  PROVE  InArray(Joined(f)) \in TextsWith(NoComment, texts, ArrayOf(e))
<1>1. f \in [1 .. Len(e) -> Seq(Token)] /\ Len(e) \in Nat
  BY LenProperties, Zenon DEF AreElementTexts
<1>2. Body(f, <<>>) = Joined(f) /\ Joined(f) \in Seq(Token)
  BY <1>1, BodyWithoutComment, JoinedIs, Zenon
<1>3. InArray(Joined(f)) \in Seq(Token)
  BY <1>2, InArrayIs, Zenon DEF IsBracketed
<1>4. InArray(Joined(f)) = <<>> \o InArray(Body(f, <<>>)) /\ <<>> \in NoComment
  BY <1>2, <1>3, WithoutRun, Zenon DEF NoComment
<1>5. IsArrayText(NoComment, texts, e, InArray(Joined(f)))
  BY <1>4, Zenon DEF IsArrayText
<1> QED
  BY <1>5, ArrayTexts, Zenon

LEMMA PlainObjectText ==
  ASSUME NEW texts, NEW V, AreTexts(texts, V), NEW members \in MapsOver(V),
         NEW names \in SetToSeqs(Names(members)), NEW f, AreMemberTexts(texts, members, names, f)
  PROVE  InObject(Joined(f)) \in TextsWith(NoComment, texts, ObjectOf(members))
<1> DEFINE N == Cardinality(Names(members))
<1>1. /\ N \in Nat /\ DOMAIN names = 1 .. N
      /\ \A n \in DOMAIN names : names[n] \in Str /\ members[names[n]] \in V
  BY OrderDomain, Zenon
<1> HIDE DEF N
<1>2. f \in [1 .. N -> Seq(Token)]
  BY <1>1, Zenon DEF AreMemberTexts
<1>3. Body(f, <<>>) = Joined(f) /\ Joined(f) \in Seq(Token)
  BY <1>1, <1>2, BodyWithoutComment, JoinedIs, Zenon
<1>4. InObject(Joined(f)) \in Seq(Token)
  BY <1>3, InObjectIs, Zenon DEF IsBracketed
<1>5. InObject(Joined(f)) = <<>> \o InObject(Body(f, <<>>)) /\ <<>> \in NoComment
  BY <1>3, <1>4, WithoutRun, Zenon DEF NoComment
<1>6. AreCommentedMembers(NoComment, texts, members, names, f)
  <2>1. ASSUME NEW n \in DOMAIN names
        PROVE  \E c \in NoComment, u \in texts[members[names[n]]] : f[n] = c \o Member(names[n], u)
    <3>1. PICK u \in texts[members[names[n]]] : f[n] = Member(names[n], u)
      BY Zenon DEF AreMemberTexts
    <3>2. u \in Seq(Token)
      BY <1>1, TextsAreSeqs, Zenon
    <3>3. Member(names[n], u) = <<>> \o Member(names[n], u)
      BY <1>1, <3>2, MemberType, WithoutRun, Zenon
    <3> QED
      BY <1>5, <3>1, <3>3, Zenon
  <2> QED
    BY <2>1, Zenon DEF AreMemberTexts, AreCommentedMembers
<1> QED
  BY <1>5, <1>6, ObjectTexts, RunsGiven, Zenon

(* From one level of the nesting to the next.                              *)
LEMMA Levels ==
  ASSUME NEW runs, NEW d \in 0 .. MaxDepth - 1
  PROVE  /\ d \in 0 .. MaxDepth /\ d + 1 \in 0 .. MaxDepth /\ Value[d + 1] = ValuesOver(Value[d])
         /\ \A v \in Value[d + 1] :
              /\ Texts(runs)[d + 1][v] = TextsWith(runs, Texts(runs)[d], v)
              /\ writeValue(runs)[d + 1][v] = WriteWith(runs, writeValue(runs)[d], v)
<1>1. d \in 0 .. MaxDepth /\ d + 1 \in 0 .. MaxDepth /\ d + 1 \in 1 .. MaxDepth /\ (d + 1) - 1 = d
  BY Limits
<1>2. Value[d + 1] = ValuesOver(Value[d])
  BY <1>1, ValueDef, Zenon
<1>3. Texts(runs)[d + 1] = [v \in Value[d + 1] |-> TextsWith(runs, Texts(runs)[d], v)]
  BY <1>1, TextsDef
<1>4. writeValue(runs)[d + 1] = [v \in Value[d + 1] |-> WriteWith(runs, writeValue(runs)[d], v)]
  BY <1>1, WriteDef
<1> QED
  BY <1>1, <1>2, <1>3, <1>4, Zenon

(* A text may be preceded by comments.                                     *)
LEMMA CommentedText ==
  ASSUME NEW c \in Seq({tokenComment}), NEW w, IsText(w)
  PROVE  IsText(c \o w)
<1>1. c \in Seq(Token) /\ Len(c) \in Nat /\ w \in Seq(Token) /\ Len(w) \in Nat /\ Len(w) >= 1
  BY RunType, LenProperties, Zenon DEF IsText
<1>2. c \o w \in Seq(Token) /\ Len(c \o w) = Len(c) + Len(w)
  BY <1>1
<1>3. Len(c) = 0 => (c \o w)[1] = w[1]
  BY <1>1
<1>4. Len(c) # 0 => (c \o w)[1] = tokenComment
  BY <1>1, RunType
<1>5. Len(c \o w) >= 1
  BY <1>1, <1>2
<1> QED
  BY <1>2, <1>3, <1>4, <1>5, Zenon DEF IsText

(* The texts of a value by its kind, with the parts they consist of.       *)
LEMMA ScalarTextIs ==
  ASSUME NEW runs, NEW texts, NEW c, NEW u \in TextsWith(runs, texts, ScalarValue(c))
  PROVE  \E a \in runs : u = a \o <<c>>
<1>1. u \in Commented(runs, {<<c>>})
  BY ScalarTexts
<1> QED
  BY <1>1, CommentedIs

LEMMA ArrayTextMade ==
  ASSUME NEW runs, NEW texts, NEW V, AreTexts(texts, V), NEW e \in Seq(V),
         NEW a \in runs, NEW b \in runs, NEW f, AreElementTexts(texts, e, f)
  PROVE  a \o InArray(Body(f, b)) \in TextsWith(runs, texts, ArrayOf(e))
<1> DEFINE u == a \o InArray(Body(f, b))
<1>1. IsArrayText(runs, texts, e, u)
  BY Zenon DEF IsArrayText
<1> HIDE DEF u
<1>2. u \in TextsWith(runs, texts, ArrayOf(e))
  BY <1>1, ArrayTexts, Zenon
<1> QED
  BY <1>2, Zenon DEF u

LEMMA ObjectTextMade ==
  ASSUME NEW runs, AreRuns(runs), NEW texts, NEW V, AreTexts(texts, V), NEW m \in MapsOver(V),
         NEW a \in runs, NEW b \in runs, NEW names \in SetToSeqs(Names(m)), NEW f,
         AreCommentedMembers(runs, texts, m, names, f)
  PROVE  a \o InObject(Body(f, b)) \in TextsWith(runs, texts, ObjectOf(m))
<1> DEFINE u == a \o InObject(Body(f, b))
<1>1. \E c \in runs, d \in runs, order \in SetToSeqs(Names(m)) : \E g :
        AreCommentedMembers(runs, texts, m, order, g) /\ u = c \o InObject(Body(g, d))
  BY Zenon
<1> HIDE DEF u
<1>2. u \in TextsWith(runs, texts, ObjectOf(m))
  BY <1>1, ObjectTexts, Zenon
<1> QED
  BY <1>2, Zenon DEF u

LEMMA ObjectTextIs ==
  ASSUME NEW runs, AreRuns(runs), NEW texts, NEW V, AreTexts(texts, V), NEW m \in MapsOver(V),
         NEW u \in TextsWith(runs, texts, ObjectOf(m))
  PROVE  \E a, b, names, f : /\ a \in runs /\ b \in runs /\ names \in SetToSeqs(Names(m))
                             /\ AreCommentedMembers(runs, texts, m, names, f)
                             /\ u = a \o InObject(Body(f, b))
BY ObjectTexts

(* No text is empty, and it begins with the first token of a value or with *)
(* a comment.                                                              *)
LEMMA TextsWithAreTexts ==
  ASSUME NEW runs, AreRuns(runs), NEW texts, NEW V, AreTexts(texts, V), NEW v \in ValuesOver(V),
         NEW u \in TextsWith(runs, texts, v)
  PROVE  IsText(u)
<1>0. \A c \in runs : c \in Seq({tokenComment})
  BY Zenon DEF AreRuns
<1>1. CASE \E c \in Str \cup Scalar : v = ScalarValue(c)
  <2>1. PICK c \in Str \cup Scalar : v = ScalarValue(c)
    BY <1>1
  <2>2. PICK a \in runs : u = a \o <<c>>
    <3>1. u \in TextsWith(runs, texts, ScalarValue(c))
      BY <2>1
    <3> QED
      BY <3>1, ScalarTextIs
  <2>3. IsText(<<c>>)
    BY DEF IsText, Token
  <2> QED
    BY <1>0, <2>2, <2>3, CommentedText, Zenon
<1>2. CASE \E e \in Seq(V) : v = ArrayOf(e)
  <2>1. PICK e \in Seq(V) : v = ArrayOf(e)
    BY <1>2
  <2>2. PICK a, b, f : /\ a \in runs /\ b \in runs /\ AreElementTexts(texts, e, f)
                       /\ u = a \o InArray(Body(f, b))
    <3>1. u \in TextsWith(runs, texts, ArrayOf(e))
      BY <2>1
    <3>2. IsArrayText(runs, texts, e, u)
      BY <3>1, ArrayTexts, Zenon
    <3> QED
      BY <3>2, Zenon DEF IsArrayText
  <2> DEFINE w == Body(f, b)
             x == InArray(w)
  <2>3. f \in [1 .. Len(e) -> Seq(Token)] /\ Len(e) \in Nat
    BY <2>2, LenProperties, Zenon DEF AreElementTexts
  <2>4. w \in Seq(Token)
    BY <1>0, <2>2, <2>3, BodyIs, Zenon
  <2> HIDE DEF w
  <2>5. x \in Seq(Token) /\ Len(w) \in Nat /\ Len(x) = Len(w) + 2 /\ x[1] = tokenArrayBegin
    BY <2>4, InArrayIs, Zenon DEF IsBracketed
  <2> HIDE DEF x
  <2>6. Len(x) >= 1
    BY <2>5
  <2>7. IsText(x)
    BY <2>5, <2>6, Zenon DEF IsText
  <2> QED
    BY <1>0, <2>2, <2>7, CommentedText, Zenon DEF x, w
<1>3. CASE \E m \in MapsOver(V) : v = ObjectOf(m)
  <2>1. PICK m \in MapsOver(V) : v = ObjectOf(m)
    BY <1>3
  <2>2. PICK a, b, names, f : /\ a \in runs /\ b \in runs /\ names \in SetToSeqs(Names(m))
                              /\ AreCommentedMembers(runs, texts, m, names, f)
                              /\ u = a \o InObject(Body(f, b))
    <3>1. u \in TextsWith(runs, texts, ObjectOf(m))
      BY <2>1
    <3> QED
      BY <3>1, ObjectTextIs
  <2> DEFINE w == Body(f, b)
             x == InObject(w)
  <2>3. f \in [1 .. Cardinality(Names(m)) -> Seq(Token)] /\ Cardinality(Names(m)) \in Nat
    BY <2>2, OrderDomain, Zenon DEF AreCommentedMembers
  <2>4. w \in Seq(Token)
    BY <1>0, <2>2, <2>3, BodyIs, Zenon
  <2> HIDE DEF w
  <2>5. x \in Seq(Token) /\ Len(w) \in Nat /\ Len(x) = Len(w) + 2 /\ x[1] = tokenObjectBegin
    BY <2>4, InObjectIs, Zenon DEF IsBracketed
  <2> HIDE DEF x
  <2>6. Len(x) >= 1
    BY <2>5
  <2>7. IsText(x)
    BY <2>5, <2>6, Zenon DEF IsText
  <2> QED
    BY <1>0, <2>2, <2>7, CommentedText, Zenon DEF x, w
<1> QED
  BY <1>1, <1>2, <1>3, ValuesOverIs, Zenon

LEMMA TextsAreTexts ==
  ASSUME NEW runs, AreRuns(runs)
  PROVE  \A d \in 0 .. MaxDepth : AreTexts(Texts(runs)[d], Value[d])
<1> DEFINE S == {d \in 0 .. MaxDepth : AreTexts(Texts(runs)[d], Value[d])}
<1>1. 0 \in S
  BY Limits, ValueDef DEF AreTexts
<1>2. ASSUME NEW d \in 0 .. MaxDepth - 1, d \in S PROVE d + 1 \in S
  <2>1. ASSUME NEW v \in Value[d + 1], NEW u \in Texts(runs)[d + 1][v] PROVE IsText(u)
    <3>1. v \in ValuesOver(Value[d]) /\ u \in TextsWith(runs, Texts(runs)[d], v)
      BY <2>1, Levels
    <3> QED
      BY <1>2, <3>1, TextsWithAreTexts, Zenon
  <2> QED
    BY <2>1, Levels, Zenon DEF AreTexts
<1> HIDE DEF S
<1>3. 0 .. MaxDepth \subseteq S
  BY <1>1, <1>2, Limits, InductionUpTo
<1> QED
  BY <1>3 DEF S

-----------------------------------------------------------------------------
(* What is written for a value is, with comments before it, one of its     *)
(* texts.                                                                  *)
LEMMA SomeOrder ==
  ASSUME NEW S, IsFiniteSet(S)
  PROVE  SetToSeq(S) \in SetToSeqs(S)
<1> DEFINE D == 1 .. Cardinality(S)
<1>1. ExistsBijection(D, S)
  BY FS_CardinalityType
<1>2. PICK g \in [D -> S] : \A a, b \in D : g[a] = g[b] => a = b
  BY <1>1, Zenon DEF ExistsBijection, Bijection, Injection, IsInjective
<1>3. IsInjective(g)
  BY <1>2 DEF IsInjective
<1>4. SetToSeq(S) \in [D -> S] /\ IsInjective(SetToSeq(S))
  BY <1>3, Zenon DEF SetToSeq
<1>5. DOMAIN SetToSeq(S) = D
  BY <1>4
<1> HIDE DEF D
<1>6. \A a, b \in D : a # b => SetToSeq(S)[a] # SetToSeq(S)[b]
  BY <1>4, <1>5, Zenon DEF IsInjective
<1> QED
  BY <1>4, <1>6, Zenon DEF SetToSeqs, D

ElementSets(runs, write, e) == [n \in DOMAIN e |-> Commented(runs, write[e[n]])]

LEMMA WriteWithIs ==
  ASSUME NEW runs, NEW write, NEW a
  PROVE  /\ WriteWith(runs, write, ScalarValue(a)) = {<<a>>}
         /\ WriteWith(runs, write, ArrayOf(a)) =
              {InArray(t) : t \in Insides(runs, OneOfEach(ElementSets(runs, write, a)))}
         /\ WriteWith(runs, write, ObjectOf(a)) =
              {InObject(t) : t \in Insides(runs, OneOfEach(MemberSets(runs, write, a, SetToSeq(Names(a)))))}
<1>1. "scalar" # "arrayValue" /\ "scalar" # "objectValue" /\ "arrayValue" # "objectValue"
  OBVIOUS
<1>2. WriteWith(runs, write, ScalarValue(a)) = {<<a>>}
  BY KindsOfValues, Zenon DEF WriteWith
<1>3. WriteWith(runs, write, ArrayOf(a)) =
        {InArray(t) : t \in Insides(runs, OneOfEach(ElementSets(runs, write, a)))}
  <2> DEFINE v == ArrayOf(a)
  <2>1. v.type = "arrayValue" /\ v.of = a
    BY KindsOfValues, Zenon
  <2> HIDE DEF v
  <2>2. WriteWith(runs, write, v) =
          {InArray(t) : t \in Insides(runs, OneOfEach(ElementSets(runs, write, v.of)))}
    BY <1>1, <2>1, Zenon DEF WriteWith, ElementSets
  <2> QED
    BY <2>1, <2>2, Zenon DEF v
<1>4. WriteWith(runs, write, ObjectOf(a)) =
        {InObject(t) : t \in Insides(runs, OneOfEach(MemberSets(runs, write, a, SetToSeq(Names(a)))))}
  <2> DEFINE v == ObjectOf(a)
  <2>1. v.type = "objectValue" /\ v.of = a
    BY KindsOfValues, Zenon
  <2> HIDE DEF v
  <2>2. WriteWith(runs, write, v) =
          {InObject(t) : t \in Insides(runs, OneOfEach(MemberSets(runs, write, v.of, SetToSeq(Names(v.of)))))}
    BY <1>1, <2>1, Zenon DEF WriteWith, MemberSets
  <2> QED
    BY <2>1, <2>2, Zenon DEF v
<1> QED
  BY <1>2, <1>3, <1>4, Zenon

AreWritten(runs, write, texts, V) ==
  \A v \in V : write[v] \subseteq Seq(Token) /\ Commented(runs, write[v]) \subseteq texts[v]

LEMMA WriteWithIsText ==
  ASSUME NEW runs, AreRuns(runs), NEW write, NEW texts, NEW V, AreTexts(texts, V),
         AreWritten(runs, write, texts, V), NEW value \in ValuesOver(V),
         NEW w \in WriteWith(runs, write, value), NEW c \in runs
  PROVE  w \in Seq(Token) /\ c \o w \in TextsWith(runs, texts, value)
<1>0. \A b \in runs : b \in Seq({tokenComment})
  BY Zenon DEF AreRuns
<1>1. ASSUME NEW a \in Str \cup Scalar, value = ScalarValue(a)
      PROVE  w \in Seq(Token) /\ c \o w \in TextsWith(runs, texts, value)
  <2>1. w = <<a>>
    BY <1>1, WriteWithIs
  <2>2. <<a>> \in Seq(Token)
    BY DEF Token
  <2>3. c \o w \in Commented(runs, {<<a>>})
    BY <2>1, CommentedIs
  <2> QED
    BY <1>1, <2>1, <2>2, <2>3, ScalarTexts, Zenon
<1>2. ASSUME NEW e \in Seq(V), value = ArrayOf(e)
      PROVE  w \in Seq(Token) /\ c \o w \in TextsWith(runs, texts, value)
  <2> DEFINE sets == ElementSets(runs, write, e)
             D    == 1 .. Len(e)
             X    == Seq(Token)
  <2>1. PICK f \in OneOfEach(sets), b \in runs : w = InArray(Inside(f, b))
    <3> HIDE DEF sets
    <3>1. w \in {InArray(t) : t \in Insides(runs, OneOfEach(sets))}
      BY <1>2, WriteWithIs DEF sets
    <3>2. PICK t \in Insides(runs, OneOfEach(sets)) : w = InArray(t)
      BY <3>1, Zenon
    <3>3. \E f \in OneOfEach(sets), b \in runs : t = Inside(f, b)
      BY InsidesAre
    <3> QED
      BY <3>2, <3>3, Zenon
  <2>2. DOMAIN e = D /\ Len(e) \in Nat /\ \A n \in D : e[n] \in V
    OBVIOUS
  <2>3. DOMAIN sets = D /\ \A n \in D : sets[n] = Commented(runs, write[e[n]])
    BY <2>2, Zenon DEF ElementSets
  <2>4. \A n \in D : sets[n] \subseteq texts[e[n]]
    BY <2>2, <2>3, Zenon DEF AreWritten
  <2>5. \A n \in D : sets[n] \subseteq X
    BY <2>2, <2>4, TextsAreSeqs, Zenon
  <2> HIDE DEF sets
  <2>6. f \in [D -> X] /\ \A n \in D : f[n] \in sets[n]
    BY <2>3, <2>5, OneOfEachIs, Zenon
  <2>7. AreElementTexts(texts, e, f)
    BY <2>4, <2>6, Zenon DEF AreElementTexts
  <2>8. Inside(f, b) = Body(f, b) /\ Body(f, b) \in Seq(Token)
    BY <1>0, <2>2, <2>6, BodyIs, Zenon
  <2>9. w \in Seq(Token)
    BY <2>1, <2>8, InArrayIs, Zenon DEF IsBracketed
  <2>10. c \o w \in TextsWith(runs, texts, ArrayOf(e))
    BY <2>1, <2>7, <2>8, ArrayTextMade, Zenon
  <2> QED
    BY <1>2, <2>9, <2>10, Zenon
<1>3. ASSUME NEW m \in MapsOver(V), value = ObjectOf(m)
      PROVE  w \in Seq(Token) /\ c \o w \in TextsWith(runs, texts, value)
  <2> DEFINE names == SetToSeq(Names(m))
             N     == Cardinality(Names(m))
  <2>1. PICK f \in OneOfEach(MemberSets(runs, write, m, names)), b \in runs : w = InObject(Inside(f, b))
    <3> DEFINE F == OneOfEach(MemberSets(runs, write, m, names))
    <3> HIDE DEF F
    <3>1. w \in {InObject(t) : t \in Insides(runs, F)}
      BY <1>3, WriteWithIs DEF F
    <3>2. PICK t \in Insides(runs, F) : w = InObject(t)
      BY <3>1, Zenon
    <3>3. \E f \in F, b \in runs : t = Inside(f, b)
      BY InsidesAre
    <3> QED
      BY <3>2, <3>3, Zenon DEF F
  <2>2. names \in SetToSeqs(Names(m))
    BY NamesOf, SomeOrder, Zenon
  <2> HIDE DEF names
  <2>3. /\ N \in Nat /\ DOMAIN names = 1 .. N
        /\ \A n \in DOMAIN names : names[n] \in Str /\ m[names[n]] \in V
    BY <2>2, OrderDomain, Zenon
  <2> HIDE DEF N
  <2>4. AreCommentedMembers(runs, write, m, names, f)
    <3>1. \A v \in V : write[v] \subseteq Seq(Token)
      BY Zenon DEF AreWritten
    <3> QED
      BY <2>1, <2>2, <3>1, CommentedMembers, Zenon
  <2>5. \A v \in V : write[v] \subseteq texts[v]
    <3>1. ASSUME NEW v \in V PROVE write[v] \subseteq Commented(runs, write[v])
      <4>1. write[v] \in SUBSET Seq(Token)
        BY Zenon DEF AreWritten
      <4> QED
        BY <4>1, CommentedType, Zenon
    <3> QED
      BY <3>1, Zenon DEF AreWritten
  <2>6. AreCommentedMembers(runs, texts, m, names, f)
    <3>1. ASSUME NEW n \in DOMAIN names
          PROVE  \E a \in runs, u \in texts[m[names[n]]] : f[n] = a \o Member(names[n], u)
      <4>1. PICK a \in runs, u \in write[m[names[n]]] : f[n] = a \o Member(names[n], u)
        BY <2>4, Zenon DEF AreCommentedMembers
      <4>2. u \in texts[m[names[n]]]
        BY <2>3, <2>5, Zenon
      <4> QED
        BY <4>1, <4>2, Zenon
    <3> QED
      BY <2>4, <3>1, Zenon DEF AreCommentedMembers
  <2>7. f \in [1 .. N -> Seq(Token)]
    BY <2>3, <2>6, Zenon DEF AreCommentedMembers
  <2>8. Inside(f, b) = Body(f, b) /\ Body(f, b) \in Seq(Token)
    BY <1>0, <2>3, <2>7, BodyIs, Zenon
  <2>9. w \in Seq(Token)
    BY <2>1, <2>8, InObjectIs, Zenon DEF IsBracketed
  <2>10. c \o w \in TextsWith(runs, texts, ObjectOf(m))
    BY <2>1, <2>2, <2>6, <2>8, ObjectTextMade, Zenon
  <2> QED
    BY <1>3, <2>9, <2>10, Zenon
<1> QED
  BY <1>1, <1>2, <1>3, ValuesOverIs, Zenon

LEMMA WrittenIsText ==
  ASSUME NEW runs, AreRuns(runs)
  PROVE  \A d \in 0 .. MaxDepth : AreWritten(runs, writeValue(runs)[d], Texts(runs)[d], Value[d])
<1> DEFINE S == {d \in 0 .. MaxDepth : AreWritten(runs, writeValue(runs)[d], Texts(runs)[d], Value[d])}
<1>1. 0 \in S
  BY Limits, ValueDef DEF AreWritten
<1>2. ASSUME NEW d \in 0 .. MaxDepth - 1, d \in S PROVE d + 1 \in S
  <2>1. /\ d \in 0 .. MaxDepth /\ d + 1 \in 0 .. MaxDepth /\ Value[d + 1] = ValuesOver(Value[d])
        /\ \A v \in Value[d + 1] :
             /\ Texts(runs)[d + 1][v] = TextsWith(runs, Texts(runs)[d], v)
             /\ writeValue(runs)[d + 1][v] = WriteWith(runs, writeValue(runs)[d], v)
    BY Levels
  <2>2. AreTexts(Texts(runs)[d], Value[d]) /\ AreWritten(runs, writeValue(runs)[d], Texts(runs)[d], Value[d])
    BY <1>2, <2>1, TextsAreTexts, Zenon
  <2>3. ASSUME NEW v \in Value[d + 1]
        PROVE  /\ writeValue(runs)[d + 1][v] \subseteq Seq(Token)
               /\ Commented(runs, writeValue(runs)[d + 1][v]) \subseteq Texts(runs)[d + 1][v]
    <3>1. v \in ValuesOver(Value[d])
      BY <2>1
    <3>2. \A w \in WriteWith(runs, writeValue(runs)[d], v) : \A c \in runs :
            w \in Seq(Token) /\ c \o w \in TextsWith(runs, Texts(runs)[d], v)
      BY <2>2, <3>1, WriteWithIsText
    <3>3. \A w \in writeValue(runs)[d + 1][v] : \A c \in runs :
            w \in Seq(Token) /\ c \o w \in Texts(runs)[d + 1][v]
      BY <2>1, <3>2, Zenon
    <3>4. \A u \in Commented(runs, writeValue(runs)[d + 1][v]) : u \in Texts(runs)[d + 1][v]
      <4> DEFINE X == writeValue(runs)[d + 1][v]
      <4> HIDE DEF X
      <4>1. \A u \in Commented(runs, X) : \E c \in runs, w \in X : u = c \o w
        BY CommentedIs
      <4> QED
        BY <3>3, <4>1, Zenon DEF X
    <3>5. \A w \in writeValue(runs)[d + 1][v] : w \in Seq(Token)
      BY <3>3, Zenon DEF AreRuns
    <3> QED
      BY <3>4, <3>5, Zenon
  <2> QED
    BY <2>1, <2>3, Zenon DEF AreWritten
<1> HIDE DEF S
<1>3. 0 .. MaxDepth \subseteq S
  BY <1>1, <1>2, Limits, InductionUpTo
<1> QED
  BY <1>3 DEF S

-----------------------------------------------------------------------------
(* The rounds of the loops, case by case.                                  *)
ReadingElements(m, e) == [verdict |-> "reading", next |-> m, value |-> e]

ReadingMembers(m, name, members) ==
  [verdict |-> "reading", next |-> m, name |-> name, value |-> members]

LEMMA Results ==
  \A n, v, m, e :
    /\ Ok(n, v).verdict = "ok" /\ Ok(n, v).next = n /\ Ok(n, v).value = v
    /\ Failed(n).verdict = "error" /\ Failed(n).next = n /\ Throws.verdict = "throws"
    /\ ReadingElements(m, e).verdict = "reading" /\ ReadingElements(m, e).next = m
    /\ ReadingElements(m, e).value = e
    /\ "ok" # "throws" /\ "error" # "throws" /\ "error" # "ok"
    /\ "ok" # "reading" /\ "error" # "reading" /\ "throws" # "reading"
BY DEF Ok, Failed, Throws, ReadingElements

LEMMA AfterElementIs ==
  ASSUME NEW t, NEW n, NEW c, c = readToken(t, skipCommentTokens(t, n))
  PROVE  /\ c = tokenArrayEnd => AfterElement(t, n) = tokenArrayEnd
         /\ c = tokenArraySeparator => AfterElement(t, n) = tokenArraySeparator
         /\ c # tokenArrayEnd /\ c # tokenArraySeparator => AfterElement(t, n) = "error"
BY Zenon DEF AfterElement

ElementTaken(t, n, v, e, r) ==
  LET k == skipCommentTokens(t, n)
      c == readToken(t, k)
  IN  /\ c = tokenArrayEnd => r = Ok(k + 1, ArrayOf(Append(e, v)))
      /\ c = tokenArraySeparator => r = ReadingElements(k + 1, Append(e, v))
      /\ c # tokenArrayEnd /\ c # tokenArraySeparator => r = recoverFromError(t, k + 1, tokenArrayEnd)

LEMMA ElementRoundIs ==
  ASSUME NEW t, NEW inner, NEW m, NEW e
  PROVE  LET r == ElementRound(t, inner, ReadingElements(m, e)) IN
         /\ inner[m] = Throws => r = Throws
         /\ \A n : inner[m] = Failed(n) => r = recoverFromError(t, n, tokenArrayEnd)
         /\ \A n, v : inner[m] = Ok(n, v) => ElementTaken(t, n, v, e, r)
<1> DEFINE x == ReadingElements(m, e)
           r == ElementRound(t, inner, x)
<1>1. x.verdict = "reading" /\ x.next = m /\ x.value = e
  BY DEF ReadingElements
<1> HIDE DEF x
<1>2. inner[m] = Throws => r = Throws
  BY <1>1, Results, Zenon DEF ElementRound
<1>3. ASSUME NEW n, inner[m] = Failed(n) PROVE r = recoverFromError(t, n, tokenArrayEnd)
  <2>1. inner[m].verdict = "error" /\ inner[m].next = n
    BY <1>3, Results, Zenon
  <2> QED
    BY <1>1, <2>1, Results, Zenon DEF ElementRound
<1>4. ASSUME NEW n, NEW v, inner[m] = Ok(n, v)
      PROVE  ElementTaken(t, n, v, e, r)
  <2>1. inner[m].verdict = "ok" /\ inner[m].next = n /\ inner[m].value = v
    BY <1>4 DEF Ok
  <2> DEFINE k == skipCommentTokens(t, n)
             c == readToken(t, k)
             a == AfterElement(t, n)
  <2>2. r = IF a = "error" THEN recoverFromError(t, k + 1, tokenArrayEnd)
            ELSE IF a = tokenArrayEnd THEN Ok(k + 1, ArrayOf(Append(e, v)))
            ELSE ReadingElements(k + 1, Append(e, v))
    BY <1>1, <2>1, Results, Zenon DEF ElementRound, ReadingElements
  <2> QED
    BY <2>2, AfterElementIs, MarksDiffer, Zenon DEF ElementTaken
<1> QED
  BY <1>2, <1>3, <1>4, Zenon DEF x

LEMMA AfterMemberIs ==
  ASSUME NEW t, NEW n, NEW c, c = readToken(t, skipCommentTokens(t, n)), NEW b, b = readToken(t, n)
  PROVE  /\ b # tokenObjectEnd /\ b # tokenArraySeparator /\ b # tokenComment => AfterMember(t, n) = "error"
         /\ b = tokenObjectEnd \/ b = tokenArraySeparator \/ b = tokenComment =>
              AfterMember(t, n) = IF c = tokenObjectEnd THEN tokenObjectEnd ELSE tokenArraySeparator
BY Zenon DEF AfterMember

MemberTaken(t, n, name, more, r) ==
  LET k == skipCommentTokens(t, n) IN
  r = IF AfterMember(t, n) = "error" THEN recoverFromError(t, n + 1, tokenObjectEnd)
      ELSE IF AfterMember(t, n) = tokenObjectEnd THEN Ok(k + 1, ObjectOf(more))
      ELSE ReadingMembers(k + 1, name, more)

MemberRoundCases(t, inner, j, name, members, r) ==
  LET token == readToken(t, j) IN
  /\ token = tokenObjectEnd /\ name = EmptyName => r = Ok(j + 1, ObjectOf(members))
  /\ token \notin Str /\ ~(token = tokenObjectEnd /\ name = EmptyName) =>
       r = recoverFromError(t, j + 1, tokenObjectEnd)
  /\ token \in Str /\ readToken(t, j + 1) # tokenMemberSeparator =>
       r = recoverFromError(t, j + 2, tokenObjectEnd)
  /\ token \in Str /\ readToken(t, j + 1) = tokenMemberSeparator =>
       /\ inner[j + 2] = Throws => r = Throws
       /\ \A n : inner[j + 2] = Failed(n) => r = recoverFromError(t, n, tokenObjectEnd)
       /\ \A n, v : inner[j + 2] = Ok(n, v) =>
            MemberTaken(t, n, token, [members EXCEPT ![token] = v], r)

LEMMA MemberRoundIs ==
  ASSUME NEW t, NEW inner, NEW m, NEW name, NEW members, NEW j, j = skipCommentTokens(t, m)
  PROVE  MemberRoundCases(t, inner, j, name, members, MemberRound(t, inner, ReadingMembers(m, name, members)))
<1> DEFINE x == ReadingMembers(m, name, members)
           r == MemberRound(t, inner, x)
           token == readToken(t, j)
<1>0. tokenObjectEnd \notin Str
  BY MarksAreNoValues
<1>1. x.verdict = "reading" /\ x.next = m /\ x.name = name /\ x.value = members
  BY DEF ReadingMembers
<1> HIDE DEF x
<1>2. token = tokenObjectEnd /\ name = EmptyName => r = Ok(j + 1, ObjectOf(members))
  BY <1>1, Zenon DEF MemberRound
<1>3. token \notin Str /\ ~(token = tokenObjectEnd /\ name = EmptyName) =>
              r = recoverFromError(t, j + 1, tokenObjectEnd)
  BY <1>1, Zenon DEF MemberRound
<1>4. token \in Str /\ readToken(t, j + 1) # tokenMemberSeparator =>
              r = recoverFromError(t, j + 2, tokenObjectEnd)
  BY <1>0, <1>1, Zenon DEF MemberRound
<1>5. ASSUME token \in Str, readToken(t, j + 1) = tokenMemberSeparator, inner[j + 2] = Throws
      PROVE  r = Throws
  <2>1. inner[j + 2].verdict = "throws"
    BY <1>5, Results, Zenon
  <2> QED
    BY <1>0, <1>1, <1>5, <2>1, Zenon DEF MemberRound
<1>6. ASSUME token \in Str, readToken(t, j + 1) = tokenMemberSeparator, NEW n, inner[j + 2] = Failed(n)
      PROVE  r = recoverFromError(t, n, tokenObjectEnd)
  <2>1. inner[j + 2].verdict = "error" /\ inner[j + 2].next = n
    BY <1>6, Results, Zenon
  <2> QED
    BY <1>0, <1>1, <1>6, <2>1, Results, Zenon DEF MemberRound
<1>7. ASSUME token \in Str, readToken(t, j + 1) = tokenMemberSeparator, NEW n, NEW v, inner[j + 2] = Ok(n, v)
      PROVE  MemberTaken(t, n, token, [members EXCEPT ![token] = v], r)
  <2>1. inner[j + 2].verdict = "ok" /\ inner[j + 2].next = n /\ inner[j + 2].value = v
    BY <1>7 DEF Ok
  <2> QED
    BY <1>0, <1>1, <1>7, <2>1, Results, Zenon DEF MemberRound, MemberTaken, ReadingMembers
<1> QED
  BY <1>2, <1>3, <1>4, <1>5, <1>6, <1>7, Zenon DEF x, MemberRoundCases

-----------------------------------------------------------------------------
(* What is read stands in the text, if the text is plain.                  *)
Stands(t, texts, i, n, v) == Plain(t) => \E u \in texts[v] : At(t, i, u) /\ n = i + Len(u)

IsAnswer(t, texts, V, i, r) ==
  \/ r = Throws
  \/ \E n \in Nat : n > i /\ r = Failed(n)
  \/ \E n \in Nat, v \in V : n > i /\ r = Ok(n, v) /\ Stands(t, texts, i, n, v)

(* The sequences f, joined, stand in t at i, and a comma after them, but   *)
(* for none; m is the position behind it.                                  *)
JoinedTo(t, i, m, f, c) ==
  At(t, i, Joined(f)) /\ At(t, i + Len(Joined(f)), <<c>>) /\ m = i + Len(Joined(f)) + 1

JoinedSoFar(t, i, m, f) ==
  \/ f = <<>> /\ m = i
  \/ f # <<>> /\ JoinedTo(t, i, m, f, tokenArraySeparator)

IsLonger(g, f, N, Q, u) ==
  g \in [1 .. N + 1 -> Q] /\ g[N + 1] = u /\ \A n \in 1 .. N : g[n] = f[n]

LEMMA FunctionAppend ==
  ASSUME NEW Q, NEW N \in Nat, NEW f \in [1 .. N -> Q], NEW u \in Q
  PROVE  IsLonger(Append(f, u), f, N, Q, u)
<1>1. f \in Seq(Q) /\ Len(f) = N
  OBVIOUS
<1> DEFINE g == Append(f, u)
<1>2. /\ g \in Seq(Q) /\ Len(g) = N + 1 /\ g[N + 1] = u
      /\ \A n \in 1 .. N : g[n] = f[n]
  BY <1>1, AppendProperties
<1> HIDE DEF g
<1>3. g \in [1 .. N + 1 -> Q]
  BY <1>2, LenProperties
<1> QED
  BY <1>2, <1>3, Zenon DEF g, IsLonger

LEMMA JoinedGrows ==
  ASSUME NEW t \in Seq(Token), NEW i \in Nat \ {0}, NEW m \in Nat \ {0}, NEW N \in Nat,
         NEW f \in [1 .. N -> Seq(Token)], JoinedSoFar(t, i, m, f), NEW u \in Seq(Token), At(t, m, u),
         NEW c, At(t, m + Len(u), <<c>>)
  PROVE  /\ IsLonger(Append(f, u), f, N, Seq(Token), u)
         /\ JoinedTo(t, i, m + Len(u) + 1, Append(f, u), c)
<1> DEFINE Q == Seq(Token)
           g == Append(f, u)
<1>1. f \in Seq(Q) /\ Len(f) = N
  BY FunctionIsSeq, Zenon
<1>2. Joined(f) \in Seq(Token)
  BY JoinedIs, Zenon
<1>3. Joined(g) = IF f = <<>> THEN u ELSE Joined(f) \o WithComma(u)
  BY <1>1, JoinedAppend
<1>4. u \in Q
  OBVIOUS
<1>5. IsLonger(g, f, N, Q, u)
  BY <1>4, FunctionAppend, Zenon
<1> HIDE DEF g
<1>6. CASE f = <<>> /\ m = i
  <2>1. Joined(g) = u
    BY <1>3, <1>6, Zenon
  <2>2. JoinedTo(t, i, m + Len(u) + 1, g, c)
    BY <1>6, <2>1, Zenon DEF JoinedTo
  <2> QED
    BY <1>5, <2>2, Zenon DEF g
<1>7. CASE f # <<>> /\ JoinedTo(t, i, m, f, tokenArraySeparator)
  <2> DEFINE J == Joined(f)
             a == Len(J)
             b == Len(u)
  <2>1. Joined(g) = J \o WithComma(u) /\ J \in Seq(Token)
    BY <1>2, <1>3, <1>7, Zenon
  <2>2. At(t, i, J) /\ At(t, i + a, <<tokenArraySeparator>>) /\ m = i + a + 1
    BY <1>7, Zenon DEF JoinedTo
  <2> HIDE DEF J
  <2>3. a \in Nat /\ b \in Nat /\ i + a \in Nat \ {0} /\ tokenArraySeparator \in Token
    <3>1. tokenArraySeparator \in Token
      BY MarksAreNoValues, Zenon
    <3> QED
      BY <2>1, <3>1
  <2>4. <<tokenArraySeparator>> \in Seq(Token) /\ Len(<<tokenArraySeparator>>) = 1
    BY <2>3
  <2>5. At(t, i + a, WithComma(u))
    BY <2>2, <2>3, <2>4, AtConcat DEF WithComma
  <2>6. WithComma(u) \in Seq(Token) /\ Len(WithComma(u)) = 1 + b
    BY <2>3, WithCommaType, Zenon
  <2>7. At(t, i, Joined(g)) /\ Len(Joined(g)) = a + (1 + b)
    <3>1. At(t, i, J \o WithComma(u))
      BY <2>1, <2>2, <2>5, <2>6, AtConcat, Zenon
    <3>2. Len(J \o WithComma(u)) = a + (1 + b)
      <4>1. Len(J \o WithComma(u)) = a + Len(WithComma(u))
        BY <2>1, <2>6, ConcatProperties
      <4> QED
        BY <2>6, <4>1, Zenon
    <3> QED
      BY <2>1, <3>1, <3>2, Zenon
  <2>8. i + (a + (1 + b)) = m + b
    <3> HIDE DEF a, b
    <3> QED
      BY <2>2, <2>3
  <2>9. JoinedTo(t, i, m + Len(u) + 1, g, c)
    BY <2>7, <2>8, Zenon DEF JoinedTo
  <2> QED
    BY <1>5, <2>9, Zenon DEF g
<1> QED
  BY <1>6, <1>7, Zenon DEF JoinedSoFar

LEMMA PlainSkip ==
  ASSUME NEW t \in Seq(Token), Plain(t), NEW i \in Nat \ {0}
  PROVE  readToken(t, i) # tokenComment /\ skipCommentTokens(t, i) = i
<1>1. tokenComment \notin Range(t)
  BY Zenon DEF Plain
<1>2. i <= Len(t) => t[i] \in Range(t)
  BY DEF Range
<1>3. readToken(t, i) # tokenComment
  BY <1>1, <1>2, ReadTokenType, MarksDiffer
<1> QED
  BY <1>3, Skipped

LEMMA TokenAt ==
  ASSUME NEW t \in Seq(Token), NEW i \in Nat \ {0}, NEW c, c # tokenEndOfStream
  PROVE  At(t, i, <<c>>) <=> readToken(t, i) = c
<1>1. At(t, i, <<c>>) <=> i <= Len(t) /\ t[i] = c
  BY AtOne
<1> QED
  BY <1>1, ReadTokenType

ElementsEnd(t, texts, i, m, e, c) ==
  Plain(t) => \E f : AreElementTexts(texts, e, f) /\ JoinedTo(t, i, m, f, c)

ElementsSoFar(t, texts, i, m, e) ==
  Plain(t) => \E f : AreElementTexts(texts, e, f) /\ JoinedSoFar(t, i, m, f)

LEMMA ElementGrows ==
  ASSUME NEW t \in Seq(Token), NEW texts, NEW V, AreTexts(texts, V), NEW i \in Nat \ {0},
         NEW m \in Nat \ {0}, NEW e \in Seq(V), ElementsSoFar(t, texts, i, m, e),
         NEW p \in Nat \ {0}, NEW v \in V, Stands(t, texts, m, p, v), NEW c, c # tokenEndOfStream,
         readToken(t, skipCommentTokens(t, p)) = c
  PROVE  ElementsEnd(t, texts, i, skipCommentTokens(t, p) + 1, Append(e, v), c)
<1> DEFINE k == skipCommentTokens(t, p)
<1> SUFFICES ASSUME Plain(t)
             PROVE  \E f : AreElementTexts(texts, Append(e, v), f) /\ JoinedTo(t, i, k + 1, f, c)
  BY Zenon DEF ElementsEnd
<1>1. k = p
  BY PlainSkip
<1>2. PICK f : AreElementTexts(texts, e, f) /\ JoinedSoFar(t, i, m, f)
  BY Zenon DEF ElementsSoFar
<1>3. PICK u \in texts[v] : At(t, m, u) /\ p = m + Len(u)
  BY Zenon DEF Stands
<1>4. u \in Seq(Token)
  BY Zenon DEF AreTexts, IsText
<1>5. At(t, m + Len(u), <<c>>)
  <2>1. At(t, p, <<c>>)
    BY <1>1, TokenAt, Zenon
  <2> QED
    BY <1>3, <2>1, Zenon
<1> DEFINE N == Len(e)
           g == Append(f, u)
           b == Append(e, v)
<1>6. /\ N \in Nat /\ f \in [1 .. N -> Seq(Token)] /\ \A n \in 1 .. N : f[n] \in texts[e[n]]
  BY <1>2, LenProperties, Zenon DEF AreElementTexts
<1>7. IsLonger(g, f, N, Seq(Token), u) /\ JoinedTo(t, i, m + Len(u) + 1, g, c)
  BY <1>2, <1>3, <1>4, <1>5, <1>6, JoinedGrows, Zenon
<1>8. Len(b) = N + 1 /\ b[N + 1] = v /\ \A n \in 1 .. N : b[n] = e[n]
  BY AppendProperties
<1> HIDE DEF g, b
<1>9. AreElementTexts(texts, b, g)
  <2>1. g \in [1 .. N + 1 -> Seq(Token)] /\ g[N + 1] = u /\ \A n \in 1 .. N : g[n] = f[n]
    BY <1>7, Zenon DEF IsLonger
  <2>2. \A n \in 1 .. N + 1 : n = N + 1 \/ n \in 1 .. N
    BY <1>6
  <2>3. \A n \in 1 .. N + 1 : g[n] \in texts[b[n]]
    <3> HIDE DEF N
    <3>1. \A n \in 1 .. N : g[n] = f[n] /\ b[n] = e[n] /\ f[n] \in texts[e[n]]
      BY <1>6, <1>8, <2>1, Zenon
    <3>2. g[N + 1] = u /\ b[N + 1] = v /\ u \in texts[v]
      BY <1>8, <2>1, Zenon
    <3> QED
      BY <2>2, <3>1, <3>2, Zenon
  <2> QED
    BY <1>8, <2>1, <2>3, Zenon DEF AreElementTexts
<1>10. JoinedTo(t, i, k + 1, g, c)
  BY <1>1, <1>3, <1>7, Zenon
<1> QED
  BY <1>9, <1>10, Zenon DEF b

-----------------------------------------------------------------------------
(* What readArray() accepts: the elements read so far are joined in the    *)
(* text, up to the comma behind the last, and a round adds one to them.    *)
AreAnswers(t, texts, V, inner) == \A p \in Nat \ {0} : IsAnswer(t, texts, V, p, inner[p])

ArrayAnswer(t, texts, V, i, r) ==
  \/ r = Throws
  \/ \E m \in Nat : m > i /\ r = Failed(m)
  \/ \E m \in Nat, e \in Seq(V) :
       m > i /\ r = Ok(m, ArrayOf(e)) /\ ElementsEnd(t, texts, i, m, e, tokenArrayEnd)

(* The state of the loop after n rounds.                                   *)
ArrayReading(t, texts, V, i, n, x) ==
  \E m \in Nat, e \in Seq(V) : /\ m >= i + 2 * n /\ (n # 0 => m <= Len(t) + 1)
                               /\ x = ReadingElements(m, e) /\ ElementsSoFar(t, texts, i, m, e)

ArrayState(t, texts, V, i, n, x) == ArrayAnswer(t, texts, V, i, x) \/ ArrayReading(t, texts, V, i, n, x)

LEMMA ElementRoundDone ==
  ASSUME NEW t, NEW texts, NEW V, NEW inner, NEW i, NEW x, ArrayAnswer(t, texts, V, i, x)
  PROVE  ElementRound(t, inner, x) = x
<1>1. x.verdict # "reading"
  <2>1. CASE x = Throws
    BY <2>1 DEF Throws
  <2>2. CASE \E m \in Nat : m > i /\ x = Failed(m)
    BY <2>2 DEF Failed
  <2>3. CASE \E m \in Nat, e \in Seq(V) :
               m > i /\ x = Ok(m, ArrayOf(e)) /\ ElementsEnd(t, texts, i, m, e, tokenArrayEnd)
    BY <2>3 DEF Ok
  <2> QED
    BY <2>1, <2>2, <2>3, Zenon DEF ArrayAnswer
<1> QED
  BY <1>1, Zenon DEF ElementRound

LEMMA FailedAnswer ==
  ASSUME NEW t \in Seq(Token), NEW i \in Nat, NEW j \in Nat \ {0}, j >= i, NEW until
  PROVE  \E m \in Nat : m > i /\ recoverFromError(t, j, until) = Failed(m)
<1>1. PICK m \in Nat : m > j /\ recoverFromError(t, j, until) = Failed(m)
  BY Recovered
<1>2. m > i
  BY <1>1
<1> QED
  BY <1>1, <1>2

LEMMA ElementRoundKeeps ==
  ASSUME NEW t \in Seq(Token), NEW texts, NEW V, AreTexts(texts, V), NEW inner,
         AreAnswers(t, texts, V, inner), NEW i \in Nat \ {0}, NEW n \in Nat, NEW x,
         ArrayReading(t, texts, V, i, n, x)
  PROVE  ArrayState(t, texts, V, i, n + 1, ElementRound(t, inner, x))
<1> DEFINE r == ElementRound(t, inner, x)
<1>1. PICK m \in Nat, e \in Seq(V) : /\ m >= i + 2 * n /\ (n # 0 => m <= Len(t) + 1)
                                     /\ x = ReadingElements(m, e) /\ ElementsSoFar(t, texts, i, m, e)
  BY Zenon DEF ArrayReading
<1>2. m \in Nat \ {0} /\ m >= i
  BY <1>1
<1>a. r = ElementRound(t, inner, ReadingElements(m, e))
  BY <1>1, Zenon
<1>3. IsAnswer(t, texts, V, m, inner[m])
  BY <1>2, Zenon DEF AreAnswers
<1> HIDE DEF r
<1>4. CASE inner[m] = Throws
  <2>1. r = Throws
    BY <1>4, <1>a, ElementRoundIs, Zenon
  <2> QED
    BY <2>1, Zenon DEF ArrayState, ArrayAnswer, r
<1>5. CASE \E p \in Nat : p > m /\ inner[m] = Failed(p)
  <2>1. PICK p \in Nat : p > m /\ inner[m] = Failed(p)
    BY <1>5
  <2>2. r = recoverFromError(t, p, tokenArrayEnd)
    BY <1>a, <2>1, ElementRoundIs, Zenon
  <2>3. p \in Nat \ {0} /\ p >= i
    BY <1>2, <2>1
  <2>4. \E q \in Nat : q > i /\ r = Failed(q)
    BY <2>2, <2>3, FailedAnswer
  <2> QED
    BY <2>4, Zenon DEF ArrayState, ArrayAnswer, r
<1>6. CASE \E p \in Nat, v \in V : p > m /\ inner[m] = Ok(p, v) /\ Stands(t, texts, m, p, v)
  <2>1. PICK p \in Nat, v \in V : p > m /\ inner[m] = Ok(p, v) /\ Stands(t, texts, m, p, v)
    BY <1>6
  <2> DEFINE k == skipCommentTokens(t, p)
             c == readToken(t, k)
             b == Append(e, v)
  <2>2. p \in Nat \ {0} /\ p > m
    BY <2>1
  <2>3. k \in Nat \ {0} /\ p <= k
    BY <2>2, Skipped
  <2>4. b \in Seq(V)
    OBVIOUS
  <2>5. /\ c = tokenArrayEnd => r = Ok(k + 1, ArrayOf(b))
        /\ c = tokenArraySeparator => r = ReadingElements(k + 1, b)
        /\ c # tokenArrayEnd /\ c # tokenArraySeparator => r = recoverFromError(t, k + 1, tokenArrayEnd)
    <3>1. ElementTaken(t, p, v, e, r)
      BY <1>a, <2>1, ElementRoundIs, Zenon
    <3> QED
      BY <3>1, Zenon DEF ElementTaken
  <2>6. c # tokenEndOfStream => ElementsEnd(t, texts, i, k + 1, b, c)
    BY <1>1, <1>2, <2>1, <2>2, ElementGrows
  <2> HIDE DEF b
  <2>7. CASE c = tokenArrayEnd
    <3>1. k + 1 \in Nat /\ k + 1 > i
      BY <1>2, <2>2, <2>3
    <3>2. ElementsEnd(t, texts, i, k + 1, b, tokenArrayEnd)
      BY <2>6, <2>7, MarksDiffer, Zenon
    <3> QED
      BY <2>4, <2>5, <2>7, <3>1, <3>2, Zenon DEF ArrayState, ArrayAnswer, r
  <2>8. CASE c = tokenArraySeparator
    <3>1. k <= Len(t)
      BY <2>3, <2>8, ReadTokenType, MarksDiffer
    <3>2. k + 1 \in Nat /\ k + 1 >= i + 2 * (n + 1) /\ k + 1 <= Len(t) + 1
      BY <1>1, <2>2, <2>3, <3>1
    <3>3. ElementsEnd(t, texts, i, k + 1, b, tokenArraySeparator)
      BY <2>6, <2>8, MarksDiffer, Zenon
    <3>4. ElementsSoFar(t, texts, i, k + 1, b)
      <4>1. b # <<>> /\ Len(b) # 0
        BY DEF b
      <4>2. ASSUME NEW f, AreElementTexts(texts, b, f) PROVE f # <<>>
        <5>1. DOMAIN f = 1 .. Len(b) /\ Len(b) \in Nat
          BY <2>4, <4>2, LenProperties, Zenon DEF AreElementTexts
        <5> QED
          BY <4>1, <5>1
      <4> QED
        BY <3>3, <4>2, Zenon DEF ElementsEnd, ElementsSoFar, JoinedSoFar
    <3>5. ArrayReading(t, texts, V, i, n + 1, r)
      BY <2>4, <2>5, <2>8, <3>2, <3>4, Zenon DEF ArrayReading
    <3> QED
      BY <3>5, Zenon DEF ArrayState, r
  <2>9. CASE c # tokenArrayEnd /\ c # tokenArraySeparator
    <3>1. k + 1 \in Nat \ {0} /\ k + 1 >= i
      BY <1>2, <2>2, <2>3
    <3>2. r = recoverFromError(t, k + 1, tokenArrayEnd)
      BY <2>5, <2>9, Zenon
    <3>3. \E q \in Nat : q > i /\ r = Failed(q)
      BY <3>1, <3>2, FailedAnswer
    <3> QED
      BY <3>3, Zenon DEF ArrayState, ArrayAnswer, r
  <2> QED
    BY <2>7, <2>8, <2>9
<1> QED
  BY <1>3, <1>4, <1>5, <1>6, Zenon DEF IsAnswer

LEMMA NothingIsThere ==
  ASSUME NEW t \in Seq(Token), NEW i \in Nat \ {0}, NEW texts
  PROVE  /\ AreElementTexts(texts, <<>>, <<>>)
         /\ \A c : c # tokenEndOfStream /\ readToken(t, i) = c => JoinedTo(t, i, i + 1, <<>>, c)
<1>1. Len(<<>>) = 0 /\ <<>> \in [1 .. 0 -> Seq(Token)] /\ 1 .. 0 = {}
  OBVIOUS
<1>2. AreElementTexts(texts, <<>>, <<>>)
  BY <1>1, Zenon DEF AreElementTexts
<1>3. Joined(<<>>) = <<>>
  BY <1>1, JoinedNothing
<1>4. ASSUME NEW c, c # tokenEndOfStream, readToken(t, i) = c PROVE JoinedTo(t, i, i + 1, <<>>, c)
  <2>1. i <= Len(t)
    BY <1>4, ReadTokenType
  <2>2. At(t, i, <<>>)
    BY <1>1, <2>1 DEF At
  <2>3. At(t, i, <<c>>)
    BY <1>4, TokenAt, Zenon
  <2>4. i + Len(<<>>) = i
    BY <1>1
  <2> QED
    BY <1>3, <2>2, <2>3, <2>4, Zenon DEF JoinedTo
<1> QED
  BY <1>2, <1>4, Zenon

LEMMA ArrayIsRead ==
  ASSUME NEW t \in Seq(Token), NEW texts, NEW V, AreTexts(texts, V), NEW inner,
         AreAnswers(t, texts, V, inner), NEW i \in Nat, i >= 2, i - 1 <= Len(t)
  PROVE  ArrayAnswer(t, texts, V, i, readArray(t, inner, i))
<1> DEFINE N == Len(t)
<1>0. N \in Nat /\ N >= 1 /\ i \in Nat \ {0}
  OBVIOUS
<1>1. CASE IsEmptyArray(t, i)
  <2>1. readArray(t, inner, i) = Ok(i + 1, ArrayOf(<<>>))
    BY <1>1, Zenon DEF readArray
  <2>2. readToken(t, i) = tokenArrayEnd
    BY <1>1, Zenon DEF IsEmptyArray
  <2>3. ElementsEnd(t, texts, i, i + 1, <<>>, tokenArrayEnd)
    BY <1>0, <2>2, NothingIsThere, MarksDiffer, Zenon DEF ElementsEnd
  <2>4. i + 1 \in Nat /\ i + 1 > i /\ <<>> \in Seq(V)
    BY <1>0
  <2> QED
    BY <2>1, <2>3, <2>4, Zenon DEF ArrayAnswer
<1>2. CASE ~IsEmptyArray(t, i)
  <2>a. PICK x : IsArrayLoop(t, inner, i, x)
    BY <1>0, <1>2, ArrayLoop, Zenon
  <2>1. /\ readArray(t, inner, i) = x[N] /\ x[0] = ElementsFrom(i)
        /\ \A n \in 1 .. N : x[n] = ElementRound(t, inner, x[n - 1])
    BY <2>a, Zenon DEF IsArrayLoop
  <2> DEFINE S == {n \in 0 .. N : ArrayState(t, texts, V, i, n, x[n])}
  <2>2. 0 \in S
    <3>1. x[0] = ReadingElements(i, <<>>)
      BY <2>1, Zenon DEF ElementsFrom, ReadingElements
    <3>2. ElementsSoFar(t, texts, i, i, <<>>)
      BY <1>0, NothingIsThere, Zenon DEF ElementsSoFar, JoinedSoFar
    <3>3. i >= i + 2 * 0 /\ <<>> \in Seq(V) /\ 0 \in 0 .. N
      BY <1>0
    <3>4. ArrayReading(t, texts, V, i, 0, x[0])
      BY <3>1, <3>2, <3>3, Zenon DEF ArrayReading
    <3> QED
      BY <3>3, <3>4, Zenon DEF ArrayState
  <2>3. ASSUME NEW n \in 0 .. N - 1, n \in S PROVE n + 1 \in S
    <3>1. n + 1 \in 0 .. N /\ n + 1 \in 1 .. N /\ (n + 1) - 1 = n /\ n \in Nat
      BY <1>0
    <3>2. x[n + 1] = ElementRound(t, inner, x[n])
      BY <2>1, <3>1, Zenon
    <3>3. ArrayState(t, texts, V, i, n, x[n])
      BY <2>3, Zenon
    <3>4. CASE ArrayAnswer(t, texts, V, i, x[n])
      <4>1. x[n + 1] = x[n]
        BY <3>2, <3>4, ElementRoundDone, Zenon
      <4> QED
        BY <3>1, <3>4, <4>1, Zenon DEF ArrayState
    <3>5. CASE ArrayReading(t, texts, V, i, n, x[n])
      <4>1. ArrayState(t, texts, V, i, n + 1, x[n + 1])
        BY <1>0, <3>1, <3>2, <3>5, ElementRoundKeeps, Zenon
      <4> QED
        BY <3>1, <4>1, Zenon
    <3> QED
      BY <3>3, <3>4, <3>5, Zenon DEF ArrayState
  <2> HIDE DEF S
  <2>4. 0 .. N \subseteq S
    BY <1>0, <2>2, <2>3, InductionUpTo
  <2>5. ArrayState(t, texts, V, i, N, x[N])
    <3>1. N \in 0 .. N
      BY <1>0
    <3> QED
      BY <2>4, <3>1, Zenon DEF S
  <2>6. ~ArrayReading(t, texts, V, i, N, x[N])
    <3> SUFFICES ASSUME NEW m \in Nat, m >= i + 2 * N, N # 0 => m <= N + 1 PROVE FALSE
      BY Zenon DEF ArrayReading
    <3> QED
      BY <1>0
  <2> QED
    BY <2>1, <2>5, <2>6, Zenon DEF ArrayState
<1> QED
  BY <1>1, <1>2

-----------------------------------------------------------------------------
(* The members that were read, in the order in which their names stand in  *)
(* the text: a plain text has no name twice, so [members EXCEPT ..] is a   *)
(* member more.                                                            *)
LEMMA NoMemberIsNoValue == \A d \in 0 .. MaxDepth : NoMember \notin Value[d]
<1>1. \A V : NoMember \notin ValuesOver(V)
  <2>1. \A a : NoMember # ScalarValue(a) /\ NoMember # ArrayOf(a) /\ NoMember # ObjectOf(a)
    BY DEF NoMember, ScalarValue, ArrayOf, ObjectOf
  <2> QED
    BY <2>1, ValuesOverIs, Zenon
<1>2. ASSUME NEW d \in 0 .. MaxDepth PROVE NoMember \notin Value[d]
  <2>1. CASE d = 0
    BY <2>1, ValueDef
  <2>2. CASE d # 0
    <3>1. d \in 1 .. MaxDepth
      BY <2>2, Limits
    <3> QED
      BY <1>1, <3>1, ValueDef, Zenon
  <2> QED
    BY <2>1, <2>2
<1> QED
  BY <1>2

LEMMA NoMembersIs ==
  ASSUME NEW V
  PROVE  NoMembers \in MapsOver(V) /\ Names(NoMembers) = {} /\ <<>> \in SetToSeqs({})
<1>1. Names(NoMembers) = {}
  <2> HIDE DEF NoMember
  <2> QED
    BY DEF Names, NoMembers
<1>2. NoMembers \in [Str -> V \cup {NoMember}]
  <2> HIDE DEF NoMember
  <2> QED
    BY DEF NoMembers
<1>3. IsFiniteSet({}) /\ Cardinality({}) = 0
  BY FS_EmptySet
<1>4. <<>> \in [1 .. 0 -> {}] /\ 1 .. 0 = {}
  OBVIOUS
<1> QED
  BY <1>1, <1>2, <1>3, <1>4, Zenon DEF MapsOver, SetToSeqs

IsSetTo(V, members, a, v, more) ==
  /\ more \in MapsOver(V) /\ Names(more) = Names(members) \cup {a} /\ more[a] = v
  /\ \A b \in Str : b # a => more[b] = members[b]

LEMMA MemberIsSet ==
  ASSUME NEW V, NoMember \notin V, NEW members \in MapsOver(V), NEW a \in Str, NEW v \in V
  PROVE  IsSetTo(V, members, a, v, [members EXCEPT ![a] = v])
<1> DEFINE more == [members EXCEPT ![a] = v]
<1>1. members \in [Str -> V \cup {NoMember}] /\ IsFiniteSet(Names(members))
  BY Zenon DEF MapsOver
<1> HIDE DEF NoMember
<1>2. more \in [Str -> V \cup {NoMember}] /\ more[a] = v /\ \A b \in Str : b # a => more[b] = members[b]
  BY <1>1
<1> HIDE DEF more
<1>3. Names(more) = Names(members) \cup {a}
  BY <1>2 DEF Names
<1>4. IsFiniteSet(Names(more))
  <2>1. IsFiniteSet(Names(members) \cup {a})
    BY <1>1, FS_AddElement, Zenon
  <2> QED
    BY <1>3, <2>1, Zenon
<1> QED
  BY <1>2, <1>3, <1>4, Zenon DEF MapsOver, IsSetTo, more

LEMMA NameIsAdded ==
  ASSUME NEW S, IsFiniteSet(S), NEW a, a \notin S, NEW names \in SetToSeqs(S)
  PROVE  Append(names, a) \in SetToSeqs(S \cup {a})
<1> DEFINE N == Cardinality(S)
           Q == S \cup {a}
           b == Append(names, a)
<1>1. N \in Nat /\ Cardinality(Q) = N + 1
  BY FS_CardinalityType, FS_AddElement
<1>2. names \in [1 .. N -> S] /\ \A i, j \in 1 .. N : i # j => names[i] # names[j]
  BY Zenon DEF SetToSeqs
<1> HIDE DEF N
<1>3. names \in [1 .. N -> Q] /\ a \in Q
  BY <1>2
<1> HIDE DEF Q
<1>4. IsLonger(b, names, N, Q, a)
  BY <1>1, <1>3, FunctionAppend, Zenon
<1> HIDE DEF b
<1>5. b \in [1 .. N + 1 -> Q] /\ b[N + 1] = a /\ \A n \in 1 .. N : b[n] = names[n]
  BY <1>4, Zenon DEF IsLonger
<1>6. \A i \in 1 .. N : names[i] \in S /\ names[i] # a
  BY <1>2
<1>7. \A i \in 1 .. N + 1 : i = N + 1 \/ i \in 1 .. N
  BY <1>1
<1>8. \A i, j \in 1 .. N + 1 : i # j => b[i] # b[j]
  BY <1>2, <1>5, <1>6, <1>7, Zenon
<1> QED
  BY <1>1, <1>5, <1>8, Zenon DEF SetToSeqs, Q, b

HasMembers(t, texts, i, m, members, c) ==
  \E names \in SetToSeqs(Names(members)) :
    \E f : AreMemberTexts(texts, members, names, f) /\ JoinedTo(t, i, m, f, c)

(* Every name stands before m.                                             *)
NamesBefore(t, m, members) == \A a \in Names(members) : \E p \in NamesIn(t) : p < m /\ t[p] = a

MembersEnd(t, texts, i, m, members, c) == Plain(t) => HasMembers(t, texts, i, m, members, c)

MembersSoFar(t, texts, i, m, name, members) ==
  Plain(t) =>
    /\ NamesBefore(t, m, members)
    /\ \/ members = NoMembers /\ m = i
       \/ name # EmptyName /\ Names(members) # {} /\ HasMembers(t, texts, i, m, members, tokenArraySeparator)

LEMMA MemberTextsDomain ==
  ASSUME NEW V, NEW texts, NEW members \in MapsOver(V), NEW names \in SetToSeqs(Names(members)), NEW f,
         AreMemberTexts(texts, members, names, f)
  PROVE  /\ Cardinality(Names(members)) \in Nat /\ DOMAIN names = 1 .. Cardinality(Names(members))
         /\ f \in [1 .. Cardinality(Names(members)) -> Seq(Token)]
         /\ (Cardinality(Names(members)) = 0 <=> Names(members) = {})
         /\ (f = <<>> <=> Names(members) = {})
<1> DEFINE N == Cardinality(Names(members))
<1>1. N \in Nat /\ (N = 0 <=> Names(members) = {})
  BY NamesOf, FS_CardinalityType, FS_EmptySet, Zenon
<1>2. DOMAIN names = 1 .. N
  BY DEF SetToSeqs
<1>3. f \in [1 .. N -> Seq(Token)]
  BY <1>2, Zenon DEF AreMemberTexts
<1> HIDE DEF N
<1>4. f = <<>> <=> N = 0
  BY <1>1, <1>3
<1> QED
  BY <1>1, <1>2, <1>3, <1>4 DEF N

(* One more member, the name of which is at m.                             *)
LEMMA MemberJoins ==
  ASSUME NEW t \in Seq(Token), NEW texts, NEW V, AreTexts(texts, V), NoMember \notin V,
         NEW i \in Nat \ {0}, NEW m \in Nat \ {0}, NEW members \in MapsOver(V),
         NEW names \in SetToSeqs(Names(members)), NEW f, AreMemberTexts(texts, members, names, f),
         JoinedSoFar(t, i, m, f),
         NEW a \in Str, a \notin Names(members), NEW v \in V, NEW u \in texts[v],
         At(t, m, Member(a, u)), NEW c, At(t, m + Len(Member(a, u)), <<c>>)
  PROVE  HasMembers(t, texts, i, m + Len(Member(a, u)) + 1, [members EXCEPT ![a] = v], c)
<1> DEFINE N == Cardinality(Names(members))
           more == [members EXCEPT ![a] = v]
           w == Member(a, u)
           g == Append(f, w)
           b == Append(names, a)
<1>1. N \in Nat /\ DOMAIN names = 1 .. N /\ f \in [1 .. N -> Seq(Token)]
  BY MemberTextsDomain, Zenon
<1>2. u \in Seq(Token) /\ w \in Seq(Token)
  <2>1. u \in Seq(Token)
    BY Zenon DEF AreTexts, IsText
  <2> QED
    BY <2>1, MemberType, Zenon
<1>3. IsLonger(g, f, N, Seq(Token), w) /\ JoinedTo(t, i, m + Len(w) + 1, g, c)
  BY <1>1, <1>2, JoinedGrows, Zenon
<1>4. /\ more \in MapsOver(V) /\ Names(more) = Names(members) \cup {a} /\ more[a] = v
      /\ \A q \in Str : q # a => more[q] = members[q]
  <2>1. IsSetTo(V, members, a, v, more)
    BY MemberIsSet, Zenon
  <2> HIDE DEF more
  <2> QED
    BY <2>1, Zenon DEF IsSetTo
<1>5. IsFiniteSet(Names(members)) /\ \A q \in Names(members) : q \in Str
  BY NamesOf, Zenon
<1>6. b \in SetToSeqs(Names(more))
  BY <1>4, <1>5, NameIsAdded, Zenon
<1>7. IsLonger(b, names, N, Str, a) /\ \A n \in 1 .. N : names[n] \in Names(members)
  <2>1. names \in [1 .. N -> Names(members)]
    BY Zenon DEF SetToSeqs
  <2> HIDE DEF N
  <2>2. names \in [1 .. N -> Str] /\ \A n \in 1 .. N : names[n] \in Names(members)
    BY <1>5, <2>1
  <2> QED
    BY <1>1, <2>2, FunctionAppend, Zenon
<1> HIDE DEF N, more, g, b, w
<1>8. /\ g \in [1 .. N + 1 -> Seq(Token)] /\ g[N + 1] = w /\ \A n \in 1 .. N : g[n] = f[n]
      /\ b \in [1 .. N + 1 -> Str] /\ b[N + 1] = a /\ \A n \in 1 .. N : b[n] = names[n]
  BY <1>3, <1>7, Zenon DEF IsLonger
<1>9. DOMAIN b = 1 .. N + 1 /\ \A n \in 1 .. N + 1 : n = N + 1 \/ n \in 1 .. N
  BY <1>1, <1>8
<1>10. ASSUME NEW n \in 1 .. N + 1
       PROVE  \E q \in texts[more[b[n]]] : g[n] = Member(b[n], q)
  <2>1. CASE n = N + 1
    BY <1>4, <1>8, <2>1, Zenon DEF w
  <2>2. CASE n \in 1 .. N
    <3>1. names[n] \in Names(members) /\ names[n] # a /\ names[n] \in Str
      BY <1>5, <1>7, <2>2, Zenon
    <3>2. more[names[n]] = members[names[n]] /\ b[n] = names[n] /\ g[n] = f[n]
      BY <1>4, <1>8, <2>2, <3>1, Zenon
    <3>3. \E q \in texts[members[names[n]]] : f[n] = Member(names[n], q)
      BY <1>1, <2>2, Zenon DEF AreMemberTexts
    <3> QED
      BY <3>2, <3>3, Zenon
  <2> QED
    BY <1>9, <2>1, <2>2
<1>11. AreMemberTexts(texts, more, b, g)
  BY <1>8, <1>9, <1>10, Zenon DEF AreMemberTexts
<1> QED
  BY <1>3, <1>6, <1>11, Zenon DEF HasMembers, more, w

LEMMA NameIsNew ==
  ASSUME NEW t \in Seq(Token), Plain(t), NEW m \in Nat \ {0}, readToken(t, m) \in Str,
         readToken(t, m + 1) = tokenMemberSeparator, NEW members, NamesBefore(t, m, members)
  PROVE  /\ m \in NamesIn(t) /\ m + 1 <= Len(t) /\ t[m] = readToken(t, m)
         /\ t[m + 1] = tokenMemberSeparator
         /\ readToken(t, m) # EmptyName /\ readToken(t, m) \notin Names(members)
<1>1. m + 1 \in Nat \ {0} /\ Len(t) \in Nat
  OBVIOUS
<1>2. m + 1 <= Len(t) /\ t[m + 1] = tokenMemberSeparator
  BY <1>1, ReadTokenType, MarksDiffer
<1>3. m \in 1 .. Len(t) /\ t[m] = readToken(t, m)
  BY <1>1, <1>2, ReadTokenType
<1>4. m \in NamesIn(t)
  BY <1>3, Zenon DEF NamesIn
<1>5. \A i, j \in NamesIn(t) : t[i] # EmptyName /\ (t[i] = t[j] => i = j)
  BY Zenon DEF Plain
<1>6. ASSUME readToken(t, m) \in Names(members) PROVE FALSE
  <2>1. PICK p \in NamesIn(t) : p < m /\ t[p] = readToken(t, m)
    BY <1>6, Zenon DEF NamesBefore
  <2>2. p = m
    BY <1>3, <1>4, <1>5, <2>1, Zenon
  <2> QED
    BY <2>1, <2>2
<1> QED
  BY <1>2, <1>3, <1>4, <1>5, <1>6, Zenon

(* A round of readObject() that has read a member.                         *)
LEMMA MemberGrows ==
  ASSUME NEW t \in Seq(Token), NEW texts, NEW V, AreTexts(texts, V), NoMember \notin V,
         NEW i \in Nat \ {0}, NEW m \in Nat \ {0}, NEW name, NEW members \in MapsOver(V),
         MembersSoFar(t, texts, i, m, name, members), Plain(t),
         NEW a \in Str, a = readToken(t, m), readToken(t, m + 1) = tokenMemberSeparator,
         NEW v \in V, NEW p \in Nat \ {0}, Stands(t, texts, m + 2, p, v),
         NEW c, c # tokenEndOfStream, readToken(t, p) = c
  PROVE  /\ a # EmptyName
         /\ NamesBefore(t, p + 1, [members EXCEPT ![a] = v])
         /\ HasMembers(t, texts, i, p + 1, [members EXCEPT ![a] = v], c)
<1> DEFINE more == [members EXCEPT ![a] = v]
<1>1. PICK u \in texts[v] : At(t, m + 2, u) /\ p = m + 2 + Len(u)
  BY Zenon DEF Stands
<1>2. u \in Seq(Token)
  BY Zenon DEF AreTexts, IsText
<1>3. NamesBefore(t, m, members)
  BY Zenon DEF MembersSoFar
<1>4. /\ m \in NamesIn(t) /\ m + 1 <= Len(t) /\ t[m] = a /\ t[m + 1] = tokenMemberSeparator
      /\ a # EmptyName /\ a \notin Names(members)
  BY <1>3, NameIsNew, Zenon
<1>5. At(t, m, Member(a, u))
  BY <1>1, <1>2, <1>4, AtMember, Zenon
<1>6. p = m + Len(Member(a, u)) /\ m < p + 1
  <2>1. Len(Member(a, u)) = Len(u) + 2 /\ Len(u) \in Nat
    BY <1>2, MemberType, Zenon
  <2> QED
    BY <1>1, <2>1
<1>7. At(t, m + Len(Member(a, u)), <<c>>)
  <2>1. At(t, p, <<c>>)
    BY TokenAt, Zenon
  <2> QED
    BY <1>6, <2>1, Zenon
<1>8. \E names \in SetToSeqs(Names(members)) :
        \E f : AreMemberTexts(texts, members, names, f) /\ JoinedSoFar(t, i, m, f)
  <2>1. CASE members = NoMembers /\ m = i
    <3>1. Names(members) = {} /\ <<>> \in SetToSeqs({})
      BY <2>1, NoMembersIs, Zenon
    <3>2. <<>> \in [DOMAIN <<>> -> Seq(Token)] /\ DOMAIN <<>> = {}
      OBVIOUS
    <3>3. AreMemberTexts(texts, members, <<>>, <<>>)
      BY <3>2, Zenon DEF AreMemberTexts
    <3>4. JoinedSoFar(t, i, m, <<>>)
      BY <2>1, Zenon DEF JoinedSoFar
    <3> QED
      BY <3>1, <3>3, <3>4, Zenon
  <2>2. CASE Names(members) # {} /\ HasMembers(t, texts, i, m, members, tokenArraySeparator)
    <3>1. PICK names \in SetToSeqs(Names(members)) :
            \E f : AreMemberTexts(texts, members, names, f) /\ JoinedTo(t, i, m, f, tokenArraySeparator)
      BY <2>2, Zenon DEF HasMembers
    <3>2. PICK f : AreMemberTexts(texts, members, names, f) /\ JoinedTo(t, i, m, f, tokenArraySeparator)
      BY <3>1
    <3>3. f # <<>>
      BY <2>2, <3>2, MemberTextsDomain, Zenon
    <3> QED
      BY <3>2, <3>3, Zenon DEF JoinedSoFar
  <2> QED
    BY <2>1, <2>2, Zenon DEF MembersSoFar
<1>9. HasMembers(t, texts, i, p + 1, more, c)
  <2>1. HasMembers(t, texts, i, m + Len(Member(a, u)) + 1, more, c)
    BY <1>4, <1>5, <1>7, <1>8, MemberJoins, Zenon
  <2> QED
    BY <1>6, <2>1, Zenon
<1>10. Names(more) = Names(members) \cup {a}
  <2>1. IsSetTo(V, members, a, v, more)
    BY MemberIsSet, Zenon
  <2> HIDE DEF more
  <2> QED
    BY <2>1, Zenon DEF IsSetTo
<1>11. NamesBefore(t, p + 1, more)
  <2> HIDE DEF more
  <2> SUFFICES ASSUME NEW b \in Names(members) \cup {a}
               PROVE  \E q \in NamesIn(t) : q < p + 1 /\ t[q] = b
    BY <1>10, Zenon DEF NamesBefore
  <2>1. CASE b = a
    BY <1>4, <1>6, <2>1, Zenon
  <2>2. CASE b \in Names(members)
    <3>1. PICK q \in NamesIn(t) : q < m /\ t[q] = b
      BY <1>3, <2>2, Zenon DEF NamesBefore
    <3>2. q \in Nat
      BY DEF NamesIn
    <3>3. q < p + 1
      BY <1>6, <3>1, <3>2
    <3> QED
      BY <3>1, <3>3, Zenon
  <2> QED
    BY <2>1, <2>2
<1> QED
  BY <1>4, <1>9, <1>11, Zenon

-----------------------------------------------------------------------------
(* What readObject() accepts.                                              *)
ObjectAnswer(t, texts, V, i, r) ==
  \/ r = Throws
  \/ \E m \in Nat : m > i /\ r = Failed(m)
  \/ \E m \in Nat, members \in MapsOver(V) :
       m > i /\ r = Ok(m, ObjectOf(members)) /\ MembersEnd(t, texts, i, m, members, tokenObjectEnd)

ObjectReading(t, texts, V, i, n, x) ==
  \E m \in Nat, name \in Str, members \in MapsOver(V) :
    /\ m >= i + 2 * n /\ (n # 0 => m <= Len(t) + 2)
    /\ x = ReadingMembers(m, name, members) /\ MembersSoFar(t, texts, i, m, name, members)

ObjectState(t, texts, V, i, n, x) == ObjectAnswer(t, texts, V, i, x) \/ ObjectReading(t, texts, V, i, n, x)

LEMMA MemberRoundDone ==
  ASSUME NEW t, NEW texts, NEW V, NEW inner, NEW i, NEW x, ObjectAnswer(t, texts, V, i, x)
  PROVE  MemberRound(t, inner, x) = x
<1>1. x.verdict # "reading"
  <2>1. CASE x = Throws
    BY <2>1 DEF Throws
  <2>2. CASE \E m \in Nat : m > i /\ x = Failed(m)
    BY <2>2 DEF Failed
  <2>3. CASE \E m \in Nat, members \in MapsOver(V) :
               m > i /\ x = Ok(m, ObjectOf(members)) /\ MembersEnd(t, texts, i, m, members, tokenObjectEnd)
    BY <2>3 DEF Ok
  <2> QED
    BY <2>1, <2>2, <2>3, Zenon DEF ObjectAnswer
<1> QED
  BY <1>1, Zenon DEF MemberRound

LEMMA EmptyObjectEnds ==
  ASSUME NEW t \in Seq(Token), NEW texts, NEW i \in Nat \ {0}, readToken(t, i) = tokenObjectEnd
  PROVE  HasMembers(t, texts, i, i + 1, NoMembers, tokenObjectEnd)
<1>1. Names(NoMembers) = {} /\ <<>> \in SetToSeqs({})
  BY NoMembersIs, Zenon
<1>2. <<>> \in [DOMAIN <<>> -> Seq(Token)] /\ DOMAIN <<>> = {}
  OBVIOUS
<1>3. AreMemberTexts(texts, NoMembers, <<>>, <<>>)
  BY <1>2, Zenon DEF AreMemberTexts
<1>4. JoinedTo(t, i, i + 1, <<>>, tokenObjectEnd)
  BY NothingIsThere, MarksDiffer, Zenon
<1> QED
  BY <1>1, <1>3, <1>4, Zenon DEF HasMembers

LEMMA MemberRoundKeeps ==
  ASSUME NEW t \in Seq(Token), NEW texts, NEW V, AreTexts(texts, V), NoMember \notin V, NEW inner,
         AreAnswers(t, texts, V, inner), NEW i \in Nat \ {0}, NEW n \in Nat, NEW x,
         ObjectReading(t, texts, V, i, n, x)
  PROVE  ObjectState(t, texts, V, i, n + 1, MemberRound(t, inner, x))
<1> DEFINE r == MemberRound(t, inner, x)
<1>1. PICK m \in Nat, name \in Str, members \in MapsOver(V) :
        /\ m >= i + 2 * n /\ (n # 0 => m <= Len(t) + 2)
        /\ x = ReadingMembers(m, name, members) /\ MembersSoFar(t, texts, i, m, name, members)
  BY Zenon DEF ObjectReading
<1> DEFINE j == skipCommentTokens(t, m)
           a == readToken(t, j)
<1>2. m \in Nat \ {0} /\ m >= i
  BY <1>1
<1>3. j \in Nat \ {0} /\ j >= m /\ j >= i
  <2>1. j \in Nat \ {0} /\ m <= j
    BY <1>2, Skipped
  <2> QED
    BY <1>2, <2>1
<1>4. Plain(t) => j = m
  BY <1>2, PlainSkip, Zenon
<1>a. r = MemberRound(t, inner, ReadingMembers(m, name, members)) /\ j = skipCommentTokens(t, m)
  BY <1>1, Zenon
<1> HIDE DEF r, j
<1>b. MemberRoundCases(t, inner, j, name, members, r)
  BY <1>a, MemberRoundIs, Zenon
<1>5. ASSUME NEW q \in Nat \ {0}, q >= i, r = recoverFromError(t, q, tokenObjectEnd)
      PROVE  ObjectState(t, texts, V, i, n + 1, r)
  <2>1. \E k \in Nat : k > i /\ r = Failed(k)
    BY <1>5, FailedAnswer
  <2> QED
    BY <2>1, Zenon DEF ObjectState, ObjectAnswer
<1>6. CASE a = tokenObjectEnd /\ name = EmptyName
  <2>1. r = Ok(j + 1, ObjectOf(members))
    BY <1>6, <1>b, Zenon DEF MemberRoundCases
  <2>2. j + 1 \in Nat /\ j + 1 > i
    BY <1>3
  <2>3. MembersEnd(t, texts, i, j + 1, members, tokenObjectEnd)
    <3> SUFFICES ASSUME Plain(t) PROVE HasMembers(t, texts, i, j + 1, members, tokenObjectEnd)
      BY Zenon DEF MembersEnd
    <3>1. members = NoMembers /\ m = i /\ j = m
      BY <1>1, <1>4, <1>6, Zenon DEF MembersSoFar
    <3> QED
      BY <1>6, <3>1, EmptyObjectEnds, Zenon
  <2>4. ObjectAnswer(t, texts, V, i, r)
    BY <2>1, <2>2, <2>3, Zenon DEF ObjectAnswer
  <2> QED
    BY <2>4, Zenon DEF ObjectState, r
<1>7. CASE a \notin Str /\ ~(a = tokenObjectEnd /\ name = EmptyName)
  <2>1. r = recoverFromError(t, j + 1, tokenObjectEnd)
    BY <1>7, <1>b, Zenon DEF MemberRoundCases
  <2>2. j + 1 \in Nat \ {0} /\ j + 1 >= i
    BY <1>3
  <2> QED
    BY <1>5, <2>1, <2>2, Zenon DEF r
<1>8. CASE a \in Str /\ readToken(t, j + 1) # tokenMemberSeparator
  <2>1. r = recoverFromError(t, j + 2, tokenObjectEnd)
    BY <1>8, <1>b, Zenon DEF MemberRoundCases
  <2>2. j + 2 \in Nat \ {0} /\ j + 2 >= i
    BY <1>3
  <2> QED
    BY <1>5, <2>1, <2>2, Zenon DEF r
<1>9. CASE a \in Str /\ readToken(t, j + 1) = tokenMemberSeparator
  <2>0. j + 2 \in Nat \ {0} /\ j + 2 >= i
    BY <1>3
  <2>1. IsAnswer(t, texts, V, j + 2, inner[j + 2])
    BY <2>0, Zenon DEF AreAnswers
  <2>2. CASE inner[j + 2] = Throws
    <3>1. r = Throws
      BY <1>9, <1>b, <2>2, Zenon DEF MemberRoundCases
    <3> QED
      BY <3>1, Zenon DEF ObjectState, ObjectAnswer, r
  <2>3. CASE \E p \in Nat : p > j + 2 /\ inner[j + 2] = Failed(p)
    <3>1. PICK p \in Nat : p > j + 2 /\ inner[j + 2] = Failed(p)
      BY <2>3
    <3>2. r = recoverFromError(t, p, tokenObjectEnd)
      BY <1>9, <1>b, <3>1, Zenon DEF MemberRoundCases
    <3>3. p \in Nat \ {0} /\ p >= i
      BY <2>0, <3>1
    <3> QED
      BY <1>5, <3>2, <3>3, Zenon DEF r
  <2>4. ASSUME NEW p \in Nat, NEW v \in V, p > j + 2, inner[j + 2] = Ok(p, v), Stands(t, texts, j + 2, p, v)
        PROVE  ObjectState(t, texts, V, i, n + 1, r)
    <3> DEFINE more == [members EXCEPT ![a] = v]
               k    == skipCommentTokens(t, p)
               b    == readToken(t, p)
               c    == readToken(t, k)
    <3>1. MemberTaken(t, p, a, more, r)
      BY <1>9, <1>b, <2>4, Zenon DEF MemberRoundCases
    <3>2. p \in Nat \ {0} /\ p >= m + 3 /\ p >= i
      BY <1>2, <1>3, <2>4
    <3>3. k \in Nat \ {0} /\ p <= k /\ (p <= Len(t) => k <= Len(t) + 1)
      BY <3>2, Skipped
    <3>4. more \in MapsOver(V) /\ Names(more) # {}
      <4>1. IsSetTo(V, members, a, v, more)
        BY <1>9, MemberIsSet, Zenon
      <4> HIDE DEF more
      <4> QED
        BY <4>1 DEF IsSetTo
    <3>5. ASSUME Plain(t), b # tokenEndOfStream
          PROVE  /\ a # EmptyName /\ NamesBefore(t, p + 1, more) /\ HasMembers(t, texts, i, p + 1, more, b)
                 /\ k = p /\ b # tokenComment
      <4>1. Stands(t, texts, m + 2, p, v) /\ a = readToken(t, m) /\ readToken(t, m + 1) = tokenMemberSeparator
        BY <1>4, <1>9, <2>4, <3>5, Zenon
      <4>2. /\ a # EmptyName /\ NamesBefore(t, p + 1, more) /\ HasMembers(t, texts, i, p + 1, more, b)
        BY <1>1, <1>2, <1>9, <3>2, <3>5, <4>1, MemberGrows
      <4> QED
        BY <3>2, <3>5, <4>2, PlainSkip, Zenon
    <3> HIDE DEF more, b, c, k
    <3>6. CASE b # tokenObjectEnd /\ b # tokenArraySeparator /\ b # tokenComment
      <4>1. r = recoverFromError(t, p + 1, tokenObjectEnd)
        BY <3>1, <3>6, AfterMemberIs, Zenon DEF MemberTaken, b, k
      <4>2. p + 1 \in Nat \ {0} /\ p + 1 >= i
        BY <3>2
      <4> QED
        BY <1>5, <4>1, <4>2, Zenon
    <3>7. CASE b = tokenObjectEnd \/ b = tokenArraySeparator \/ b = tokenComment
      <4>1. AfterMember(t, p) = IF c = tokenObjectEnd THEN tokenObjectEnd ELSE tokenArraySeparator
        BY <3>7, AfterMemberIs, Zenon DEF b, c, k
      <4>2. b # tokenEndOfStream
        BY <3>7, MarksDiffer, Zenon
      <4>3. p <= Len(t)
        BY <3>2, <4>2, ReadTokenType DEF b
      <4>4. k + 1 \in Nat /\ k + 1 > i /\ k + 1 >= i + 2 * (n + 1) /\ k + 1 <= Len(t) + 2
        BY <1>1, <3>2, <3>3, <4>3
      <4>5. Plain(t) => c = b /\ k = p
        BY <3>5, <4>2, Zenon DEF b, c
      <4>6. CASE c = tokenObjectEnd
        <5>1. r = Ok(k + 1, ObjectOf(more))
          BY <3>1, <4>1, <4>6, MarksDiffer, Zenon DEF MemberTaken, k
        <5>2. MembersEnd(t, texts, i, k + 1, more, tokenObjectEnd)
          BY <3>5, <4>2, <4>5, <4>6, Zenon DEF MembersEnd
        <5>3. ObjectAnswer(t, texts, V, i, r)
          BY <3>4, <4>4, <5>1, <5>2, Zenon DEF ObjectAnswer
        <5> QED
          BY <5>3, Zenon DEF ObjectState
      <4>7. CASE c # tokenObjectEnd
        <5>1. r = ReadingMembers(k + 1, a, more)
          BY <3>1, <4>1, <4>7, MarksDiffer, Zenon DEF MemberTaken, k
        <5>2. Plain(t) => b = tokenArraySeparator
          BY <3>5, <3>7, <4>2, <4>5, <4>7, Zenon
        <5>3. MembersSoFar(t, texts, i, k + 1, a, more)
          BY <3>4, <3>5, <4>2, <4>5, <5>2, Zenon DEF MembersSoFar
        <5>4. ObjectReading(t, texts, V, i, n + 1, r)
          BY <1>9, <3>4, <4>4, <5>1, <5>3, Zenon DEF ObjectReading
        <5> QED
          BY <5>4, Zenon DEF ObjectState
      <4> QED
        BY <4>6, <4>7
    <3> QED
      BY <3>6, <3>7
  <2> QED
    BY <2>1, <2>2, <2>3, <2>4, Zenon DEF IsAnswer, r
<1> QED
  BY <1>6, <1>7, <1>8, <1>9

-----------------------------------------------------------------------------
(* One level of the nesting, and all of them.                              *)
LEMMA ObjectIsRead ==
  ASSUME NEW t \in Seq(Token), NEW texts, NEW V, AreTexts(texts, V), NoMember \notin V, NEW inner,
         AreAnswers(t, texts, V, inner), NEW i \in Nat, i >= 2, i - 1 <= Len(t)
  PROVE  ObjectAnswer(t, texts, V, i, readObject(t, inner, i))
<1> DEFINE N == Len(t)
<1>0. N \in Nat /\ N >= 1 /\ i \in Nat \ {0}
  OBVIOUS
<1>a. PICK x : IsObjectLoop(t, inner, i, x)
  BY <1>0, ObjectLoop, Zenon
<1>1. /\ readObject(t, inner, i) = x[N] /\ x[0] = MembersFrom(i)
      /\ \A n \in 1 .. N : x[n] = MemberRound(t, inner, x[n - 1])
  BY <1>a, Zenon DEF IsObjectLoop
<1> DEFINE S == {n \in 0 .. N : ObjectState(t, texts, V, i, n, x[n])}
<1>2. 0 \in S
  <2>1. x[0] = ReadingMembers(i, EmptyName, NoMembers)
    BY <1>1, Zenon DEF MembersFrom, ReadingMembers
  <2>2. MembersSoFar(t, texts, i, i, EmptyName, NoMembers)
    BY NoMembersIs, Zenon DEF MembersSoFar, NamesBefore
  <2>3. i >= i + 2 * 0 /\ 0 \in 0 .. N
    BY <1>0
  <2>4. NoMembers \in MapsOver(V) /\ EmptyName \in Str
    BY NoMembersIs, TextAssumption, Zenon
  <2>5. ObjectReading(t, texts, V, i, 0, x[0])
    BY <2>1, <2>2, <2>3, <2>4, Zenon DEF ObjectReading
  <2> QED
    BY <2>3, <2>5, Zenon DEF ObjectState
<1>3. ASSUME NEW n \in 0 .. N - 1, n \in S PROVE n + 1 \in S
  <2>1. n + 1 \in 0 .. N /\ n + 1 \in 1 .. N /\ (n + 1) - 1 = n /\ n \in Nat
    BY <1>0
  <2>2. x[n + 1] = MemberRound(t, inner, x[n])
    BY <1>1, <2>1, Zenon
  <2>3. ObjectState(t, texts, V, i, n, x[n])
    BY <1>3, Zenon
  <2>4. CASE ObjectAnswer(t, texts, V, i, x[n])
    <3>1. x[n + 1] = x[n]
      BY <2>2, <2>4, MemberRoundDone, Zenon
    <3> QED
      BY <2>1, <2>4, <3>1, Zenon DEF ObjectState
  <2>5. CASE ObjectReading(t, texts, V, i, n, x[n])
    <3>1. ObjectState(t, texts, V, i, n + 1, x[n + 1])
      BY <1>0, <2>1, <2>2, <2>5, MemberRoundKeeps, Zenon
    <3> QED
      BY <2>1, <3>1, Zenon
  <2> QED
    BY <2>3, <2>4, <2>5, Zenon DEF ObjectState
<1> HIDE DEF S
<1>4. 0 .. N \subseteq S
  BY <1>0, <1>2, <1>3, InductionUpTo
<1>5. ObjectState(t, texts, V, i, N, x[N])
  <2>1. N \in 0 .. N
    BY <1>0
  <2> QED
    BY <1>4, <2>1, Zenon DEF S
<1>6. ~ObjectReading(t, texts, V, i, N, x[N])
  <2> SUFFICES ASSUME NEW m \in Nat, m >= i + 2 * N, N # 0 => m <= N + 2 PROVE FALSE
    BY Zenon DEF ObjectReading
  <2> QED
    BY <1>0
<1> QED
  BY <1>1, <1>5, <1>6, Zenon DEF ObjectState

LEMMA BracketsStand ==
  ASSUME NEW t \in Seq(Token), NEW i \in Nat \ {0}, NEW J \in Seq(Token), NEW u, NEW a, NEW b,
         IsBracketed(u, a, J, b), a # tokenEndOfStream, readToken(t, i) = a,
         At(t, i + 1, J), At(t, i + 1 + Len(J), <<b>>)
  PROVE  At(t, i, u) /\ i + 1 + Len(J) + 1 = i + Len(u)
<1>1. Len(J) \in Nat /\ Len(u) = Len(J) + 2 /\ i + 1 + Len(J) \in Nat \ {0}
  BY DEF IsBracketed
<1>2. i <= Len(t) /\ t[i] = a
  BY ReadTokenType
<1>3. i + 1 + Len(J) <= Len(t) /\ t[i + 1 + Len(J)] = b
  BY <1>1, AtOne, Zenon
<1>4. At(t, i, u)
  BY <1>2, <1>3, Zenon DEF IsBracketed
<1> QED
  BY <1>1, <1>4

LEMMA ValueIsRead ==
  ASSUME NEW t \in Seq(Token), NEW texts, NEW V, AreTexts(texts, V), NoMember \notin V, NEW inner,
         AreAnswers(t, texts, V, inner), NEW above,
         \A v \in ValuesOver(V) : above[v] = TextsWith(NoComment, texts, v), NEW i \in Nat \ {0}
  PROVE  IsAnswer(t, above, ValuesOver(V), i, readValue(t, inner, i))
<1> DEFINE j == skipCommentTokens(t, i)
           c == readToken(t, j)
           r == readValue(t, inner, i)
<1>1. j \in Nat \ {0} /\ i <= j /\ j + 1 \in Nat /\ j + 1 > i
  <2>1. j \in Nat \ {0} /\ i <= j
    BY Skipped
  <2> QED
    BY <2>1
<1>2. Plain(t) => j = i
  BY PlainSkip, Zenon
<1>3. c # tokenEndOfStream => j + 1 >= 2 /\ (j + 1) - 1 <= Len(t)
  BY <1>1, ReadTokenType
<1>4. /\ c \in Str \cup Scalar => r = Ok(j + 1, ScalarValue(c))
      /\ c = tokenObjectBegin => r = readObject(t, inner, j + 1)
      /\ c = tokenArrayBegin => r = readArray(t, inner, j + 1)
      /\ c \notin Str \cup Scalar /\ c # tokenObjectBegin /\ c # tokenArrayBegin => r = Failed(j + 1)
  BY MarksAreNoValues, MarksDiffer, Zenon DEF readValue
<1> HIDE DEF r, j
<1>5. CASE c \in Str \cup Scalar
  <2> DEFINE v == ScalarValue(c)
  <2>1. v \in ValuesOver(V)
    BY <1>5, ValuesOverIs, Zenon
  <2>2. <<c>> \in above[v]
    BY <1>5, <2>1, PlainScalarText
  <2>3. Stands(t, above, i, j + 1, v)
    <3> SUFFICES ASSUME Plain(t) PROVE \E u \in above[v] : At(t, i, u) /\ j + 1 = i + Len(u)
      BY Zenon DEF Stands
    <3>1. j = i /\ c # tokenEndOfStream
      BY <1>2, <1>5, MarksAreNoValues, Zenon
    <3>2. At(t, i, <<c>>)
      BY <3>1, TokenAt, Zenon
    <3>3. Len(<<c>>) = 1
      OBVIOUS
    <3> QED
      BY <2>2, <3>1, <3>2, <3>3, Zenon
  <2> QED
    BY <1>1, <1>4, <1>5, <2>1, <2>3, Zenon DEF IsAnswer, r
<1>6. CASE c = tokenObjectBegin
  <2>1. ObjectAnswer(t, texts, V, j + 1, r)
    BY <1>1, <1>3, <1>4, <1>6, ObjectIsRead, MarksDiffer, Zenon
  <2>2. CASE r = Throws
    BY <2>2, Zenon DEF IsAnswer, r
  <2>3. ASSUME NEW m \in Nat, m > j + 1, r = Failed(m)
        PROVE  IsAnswer(t, above, ValuesOver(V), i, r)
    <3>1. m > i
      BY <1>1, <2>3
    <3> QED
      BY <2>3, <3>1, Zenon DEF IsAnswer
  <2>4. ASSUME NEW m \in Nat, NEW members \in MapsOver(V), m > j + 1, r = Ok(m, ObjectOf(members)),
               MembersEnd(t, texts, j + 1, m, members, tokenObjectEnd)
        PROVE  IsAnswer(t, above, ValuesOver(V), i, r)
    <3> DEFINE v == ObjectOf(members)
    <3>1. m > i
      BY <1>1, <2>4
    <3>2. v \in ValuesOver(V)
      BY ValuesOverIs, Zenon
    <3>3. Stands(t, above, i, m, v)
      <4> SUFFICES ASSUME Plain(t) PROVE \E u \in above[v] : At(t, i, u) /\ m = i + Len(u)
        BY Zenon DEF Stands
      <4>1. j = i /\ HasMembers(t, texts, i + 1, m, members, tokenObjectEnd)
        BY <1>2, <2>4, Zenon DEF MembersEnd
      <4>2. PICK names \in SetToSeqs(Names(members)) :
              \E f : AreMemberTexts(texts, members, names, f) /\ JoinedTo(t, i + 1, m, f, tokenObjectEnd)
        BY <4>1, Zenon DEF HasMembers
      <4>3. PICK f : AreMemberTexts(texts, members, names, f) /\ JoinedTo(t, i + 1, m, f, tokenObjectEnd)
        BY <4>2
      <4> DEFINE J == Joined(f)
                 u == InObject(J)
      <4>4. u \in TextsWith(NoComment, texts, v)
        BY <4>2, <4>3, PlainObjectText, Zenon
      <4>5. J \in Seq(Token)
        BY <4>3, MemberTextsDomain, JoinedIs, Zenon
      <4>6. At(t, i + 1, J) /\ At(t, i + 1 + Len(J), <<tokenObjectEnd>>) /\ m = i + 1 + Len(J) + 1
        BY <4>3, Zenon DEF JoinedTo
      <4>7. IsBracketed(u, tokenObjectBegin, J, tokenObjectEnd)
        BY <4>5, InObjectIs, Zenon
      <4> HIDE DEF J, u
      <4>8. At(t, i, u) /\ i + 1 + Len(J) + 1 = i + Len(u)
        <5>1. readToken(t, i) = tokenObjectBegin /\ tokenObjectBegin # tokenEndOfStream
          BY <1>6, <4>1, MarksDiffer, Zenon
        <5> QED
          BY <4>5, <4>6, <4>7, <5>1, BracketsStand
      <4> QED
        BY <3>2, <4>4, <4>6, <4>8, Zenon
    <3> QED
      BY <2>4, <3>1, <3>2, <3>3, Zenon DEF IsAnswer
  <2> QED
    BY <2>1, <2>2, <2>3, <2>4, Zenon DEF ObjectAnswer, r
<1>7. CASE c = tokenArrayBegin
  <2>1. ArrayAnswer(t, texts, V, j + 1, r)
    BY <1>1, <1>3, <1>4, <1>7, ArrayIsRead, MarksDiffer, Zenon
  <2>2. CASE r = Throws
    BY <2>2, Zenon DEF IsAnswer, r
  <2>3. ASSUME NEW m \in Nat, m > j + 1, r = Failed(m)
        PROVE  IsAnswer(t, above, ValuesOver(V), i, r)
    <3>1. m > i
      BY <1>1, <2>3
    <3> QED
      BY <2>3, <3>1, Zenon DEF IsAnswer
  <2>4. ASSUME NEW m \in Nat, NEW e \in Seq(V), m > j + 1, r = Ok(m, ArrayOf(e)),
               ElementsEnd(t, texts, j + 1, m, e, tokenArrayEnd)
        PROVE  IsAnswer(t, above, ValuesOver(V), i, r)
    <3> DEFINE v == ArrayOf(e)
    <3>1. m > i
      BY <1>1, <2>4
    <3>2. v \in ValuesOver(V)
      BY ValuesOverIs, Zenon
    <3>3. Stands(t, above, i, m, v)
      <4> SUFFICES ASSUME Plain(t) PROVE \E u \in above[v] : At(t, i, u) /\ m = i + Len(u)
        BY Zenon DEF Stands
      <4>1. j = i /\ \E f : AreElementTexts(texts, e, f) /\ JoinedTo(t, i + 1, m, f, tokenArrayEnd)
        BY <1>2, <2>4, Zenon DEF ElementsEnd
      <4>2. PICK f : AreElementTexts(texts, e, f) /\ JoinedTo(t, i + 1, m, f, tokenArrayEnd)
        BY <4>1
      <4> DEFINE J == Joined(f)
                 u == InArray(J)
      <4>3. u \in TextsWith(NoComment, texts, v)
        BY <4>2, PlainArrayText, Zenon
      <4>4. f \in [1 .. Len(e) -> Seq(Token)] /\ Len(e) \in Nat
        BY <4>2, LenProperties, Zenon DEF AreElementTexts
      <4>5. J \in Seq(Token)
        BY <4>4, JoinedIs, Zenon
      <4>6. At(t, i + 1, J) /\ At(t, i + 1 + Len(J), <<tokenArrayEnd>>) /\ m = i + 1 + Len(J) + 1
        BY <4>2, Zenon DEF JoinedTo
      <4>7. IsBracketed(u, tokenArrayBegin, J, tokenArrayEnd)
        BY <4>5, InArrayIs, Zenon
      <4> HIDE DEF J, u
      <4>8. At(t, i, u) /\ i + 1 + Len(J) + 1 = i + Len(u)
        <5>1. readToken(t, i) = tokenArrayBegin /\ tokenArrayBegin # tokenEndOfStream
          BY <1>7, <4>1, MarksDiffer, Zenon
        <5> QED
          BY <4>5, <4>6, <4>7, <5>1, BracketsStand
      <4> QED
        BY <3>2, <4>3, <4>6, <4>8, Zenon
    <3> QED
      BY <2>4, <3>1, <3>2, <3>3, Zenon DEF IsAnswer
  <2> QED
    BY <2>1, <2>2, <2>3, <2>4, Zenon DEF ArrayAnswer, r
<1>8. CASE c \notin Str \cup Scalar /\ c # tokenObjectBegin /\ c # tokenArrayBegin
  BY <1>1, <1>4, <1>8, Zenon DEF IsAnswer, r
<1> QED
  BY <1>5, <1>6, <1>7, <1>8

LEMMA ReaderAnswers ==
  ASSUME NEW t \in Seq(Token)
  PROVE  \A d \in 0 .. StackLimit : AreAnswers(t, Texts(NoComment)[d], Value[d], Reader(t)[d])
<1> DEFINE S == {d \in 0 .. StackLimit : AreAnswers(t, Texts(NoComment)[d], Value[d], Reader(t)[d])}
<1>1. 0 \in S
  <2>1. \A i \in Nat : Reader(t)[0][i] = Throws
    BY ReaderDef, Zenon
  <2>2. 0 \in 0 .. StackLimit /\ \A i \in Nat \ {0} : i \in Nat
    BY Limits
  <2> QED
    BY <2>1, <2>2, Zenon DEF AreAnswers, IsAnswer
<1>2. ASSUME NEW d \in 0 .. StackLimit - 1, d \in S PROVE d + 1 \in S
  <2>1. d + 1 \in 0 .. StackLimit /\ d + 1 \in 1 .. StackLimit /\ (d + 1) - 1 = d
        /\ d \in 0 .. MaxDepth - 1 /\ \A i \in Nat \ {0} : i \in Nat
    BY Limits
  <2>2. \A i \in Nat : Reader(t)[d + 1][i] = readValue(t, Reader(t)[d], i)
    <3>1. Reader(t)[d + 1] = [i \in Nat |-> readValue(t, Reader(t)[(d + 1) - 1], i)]
      BY <2>1, ReaderDef, Zenon
    <3> QED
      BY <2>1, <3>1, Zenon
  <2>3. /\ d \in 0 .. MaxDepth /\ Value[d + 1] = ValuesOver(Value[d])
        /\ \A v \in Value[d + 1] : Texts(NoComment)[d + 1][v] = TextsWith(NoComment, Texts(NoComment)[d], v)
    BY <2>1, Levels, Zenon
  <2>4. AreTexts(Texts(NoComment)[d], Value[d]) /\ NoMember \notin Value[d]
    BY <2>3, TextsAreTexts, RunsGiven, NoMemberIsNoValue, Zenon
  <2>5. ASSUME NEW i \in Nat \ {0}
        PROVE  IsAnswer(t, Texts(NoComment)[d + 1], ValuesOver(Value[d]), i, readValue(t, Reader(t)[d], i))
    BY <1>2, <2>3, <2>4, ValueIsRead, Zenon
  <2>6. AreAnswers(t, Texts(NoComment)[d + 1], Value[d + 1], Reader(t)[d + 1])
    BY <2>1, <2>2, <2>3, <2>5, Zenon DEF AreAnswers
  <2> QED
    BY <2>1, <2>6, Zenon
<1> HIDE DEF S
<1>3. 0 .. StackLimit \subseteq S
  BY <1>1, <1>2, Limits, InductionUpTo
<1> QED
  BY <1>3 DEF S

-----------------------------------------------------------------------------
(* A text is read as the value it is of.  First where the parts of what is *)
(* joined begin: s[n] is where w[n] does, and after the last there is c.   *)
IsWalk(t, i, N, w, s, c) ==
  /\ s[1] = i /\ s[N + 1] = i + Len(Joined(w)) + 1 /\ N <= Len(t)
  /\ \A n \in 1 .. N : /\ s[n] \in Nat \ {0} /\ At(t, s[n], w[n])
                       /\ s[n + 1] = s[n] + Len(w[n]) + 1 /\ s[n] + Len(w[n]) \in Nat \ {0}
                       /\ readToken(t, s[n] + Len(w[n])) = IF n = N THEN c ELSE tokenArraySeparator

LEMMA Walk ==
  ASSUME NEW t \in Seq(Token), NEW i \in Nat \ {0}, NEW N \in Nat \ {0}, NEW w \in [1 .. N -> Seq(Token)],
         \A n \in 1 .. N : Len(w[n]) >= 1, At(t, i, Joined(w)), NEW c,
         readToken(t, i + Len(Joined(w))) = c
  PROVE  \E s : IsWalk(t, i, N, w, s, c)
<1>1. Len(w) = N /\ AreSeqs(w, Token)
  BY JoinedIs, Zenon
<1>2. PICK g : IsJoining(g, w) /\ Joined(w) = g[N]
  <2>1. N \in Nat /\ N # 0
    OBVIOUS
  <2> QED
    BY <2>1, JoinedIs, Zenon
<1>3. tokenArraySeparator \in Token
  BY MarksAreNoValues, Zenon
<1>4. \A n \in 1 .. N :
           /\ StartOf(g, i, n) \in Nat \ {0}
           /\ At(t, StartOf(g, i, n), w[n])
           /\ StartOf(g, i, n) + Len(w[n]) = i + Len(g[n])
           /\ n # 1 => /\ StartOf(g, i, n) - 1 = i + Len(g[n - 1])
                       /\ i + Len(g[n - 1]) <= Len(t) /\ t[i + Len(g[n - 1])] = tokenArraySeparator
  <2>1. At(t, i, g[Len(w)])
    BY <1>1, <1>2, Zenon
  <2>2. ArePlaces(t, i, w, g)
    BY <1>1, <1>2, <1>3, <2>1, JoinedPlaces, Zenon
  <2> QED
    BY <1>1, <2>2, Zenon DEF ArePlaces
<1> DEFINE s == [n \in 1 .. N + 1 |-> StartOf(g, i, n)]
           P(n) == i + Len(g[n])
<1>5. /\ s[1] = i /\ \A n \in 1 .. N : s[n] = StartOf(g, i, n)
      /\ \A n \in 1 .. N : s[n + 1] = P(n) + 1
  <2>1. /\ 1 \in 1 .. N + 1 /\ \A n \in 1 .. N : n \in 1 .. N + 1
        /\ \A n \in 1 .. N : n + 1 \in 1 .. N + 1 /\ n + 1 # 1 /\ (n + 1) - 1 = n
    OBVIOUS
  <2>2. \A n \in 1 .. N + 1 : s[n] = StartOf(g, i, n)
    BY Zenon
  <2> HIDE DEF s
  <2>3. \A n \in 1 .. N : s[n + 1] = i + Len(g[(n + 1) - 1]) + 1
    BY <2>1, <2>2, Zenon DEF StartOf
  <2>4. \A n \in 1 .. N : s[n + 1] = P(n) + 1
    BY <2>1, <2>3, Zenon
  <2>5. s[1] = i
    BY <2>1, <2>2, Zenon DEF StartOf
  <2> QED
    BY <2>1, <2>2, <2>4, <2>5, Zenon
<1> HIDE DEF s
<1>6. ASSUME NEW n \in 1 .. N
      PROVE  /\ s[n] \in Nat \ {0} /\ At(t, s[n], w[n]) /\ Len(w[n]) \in Nat /\ Len(w[n]) >= 1
             /\ s[n + 1] = s[n] + Len(w[n]) + 1 /\ s[n] + Len(w[n]) \in Nat \ {0}
             /\ s[n] + Len(w[n]) = P(n)
  <2>1. s[n] \in Nat \ {0} /\ At(t, s[n], w[n]) /\ s[n] + Len(w[n]) = P(n) /\ s[n + 1] = P(n) + 1
    BY <1>4, <1>5, Zenon
  <2>2. Len(w[n]) \in Nat /\ Len(w[n]) >= 1
    OBVIOUS
  <2> HIDE DEF P
  <2>3. s[n] + Len(w[n]) \in Nat \ {0}
    <3> DEFINE a == Len(w[n])
               b == s[n]
    <3>1. a \in Nat /\ b \in Nat \ {0}
      BY <2>1, <2>2
    <3> HIDE DEF a, b
    <3>2. b + a \in Nat \ {0}
      BY <3>1
    <3> QED
      BY <3>2 DEF a, b
  <2> QED
    BY <2>1, <2>2, <2>3, Zenon
<1>7. ASSUME NEW n \in 1 .. N
      PROVE  readToken(t, P(n)) = IF n = N THEN c ELSE tokenArraySeparator
  <2>1. CASE n = N
    BY <1>2, <2>1, Zenon
  <2>2. CASE n # N
    <3>1. n + 1 \in 1 .. N /\ n + 1 # 1 /\ (n + 1) - 1 = n
      BY <2>2
    <3>2. i + Len(g[(n + 1) - 1]) <= Len(t) /\ t[i + Len(g[(n + 1) - 1])] = tokenArraySeparator
      BY <1>4, <3>1, Zenon
    <3>3. P(n) <= Len(t) /\ t[P(n)] = tokenArraySeparator
      BY <3>1, <3>2, Zenon
    <3>4. P(n) \in Nat \ {0}
      BY <1>6, Zenon
    <3> HIDE DEF P
    <3> QED
      BY <2>2, <3>3, <3>4, ReadTokenType, Zenon
  <2> QED
    BY <2>1, <2>2
<1>8. N <= Len(t)
  <2> DEFINE S == {n \in 0 .. N : n # 0 => s[n] >= n}
  <2> HIDE DEF P
  <2>1. 0 \in S
    OBVIOUS
  <2>2. ASSUME NEW n \in 0 .. N - 1, n \in S PROVE n + 1 \in S
    <3>1. n + 1 \in 0 .. N /\ n \in Nat
      OBVIOUS
    <3>2. CASE n = 0
      BY <1>5, <3>1, <3>2
    <3>3. CASE n # 0
      <4>1. n \in 1 .. N /\ s[n] >= n
        BY <2>2, <3>3
      <4> DEFINE a == Len(w[n])
                 b == s[n]
      <4>2. a \in Nat /\ b \in Nat \ {0} /\ s[n + 1] = b + a + 1 /\ b >= n
        BY <1>6, <4>1, Zenon
      <4> HIDE DEF a, b
      <4>3. b + a + 1 >= n + 1
        BY <3>1, <4>2
      <4> QED
        BY <3>1, <4>2, <4>3, Zenon
    <3> QED
      BY <3>2, <3>3
  <2> HIDE DEF S
  <2>3. 0 .. N \subseteq S
    BY <2>1, <2>2, InductionUpTo
  <2>4. N \in 1 .. N /\ N \in 0 .. N /\ N # 0 /\ Len(t) \in Nat
    OBVIOUS
  <2>5. s[N] >= N
    BY <2>3, <2>4, Zenon DEF S
  <2> DEFINE a == Len(w[N])
             b == s[N]
  <2>6. a \in Nat /\ a >= 1 /\ b \in Nat \ {0} /\ b + a <= Len(t) + 1
    BY <1>6, <2>4, Zenon DEF At
  <2> HIDE DEF a
  <2>7. b >= N
    BY <2>5
  <2> HIDE DEF b
  <2> QED
    BY <2>4, <2>6, <2>7
<1>9. s[N + 1] = i + Len(Joined(w)) + 1
  <2>1. N \in 1 .. N
    OBVIOUS
  <2> QED
    BY <1>2, <1>5, <2>1, Zenon
<1>10. IsWalk(t, i, N, w, s, c)
  BY <1>5, <1>6, <1>7, <1>8, <1>9, Zenon DEF IsWalk
<1> QED
  BY <1>10

(* Comments that stand at i are skipped.                                   *)
LEMMA RunSkipped ==
  ASSUME NEW t \in Seq(Token), NEW i \in Nat \ {0}, NEW c \in Seq({tokenComment}), At(t, i, c),
         readToken(t, i + Len(c)) # tokenComment
  PROVE  skipCommentTokens(t, i) = i + Len(c)
<1> DEFINE S == {j \in i .. i + Len(t) : readToken(t, j) # tokenComment}
           m == Len(c)
           k == i + m
<1>0. m \in Nat /\ Len(t) \in Nat /\ i + m <= Len(t) + 1 /\ \A q \in 1 .. m : t[i + q - 1] = tokenComment
  <2>1. Len(t) \in Nat /\ m \in Nat
    OBVIOUS
  <2>2. \A q \in 1 .. m : c[q] = tokenComment
    BY RunType, Zenon
  <2> QED
    BY <2>1, <2>2, Zenon DEF At
<1>1. readToken(t, k) # tokenComment
  OBVIOUS
<1> HIDE DEF m
<1>2. k \in i .. i + Len(t)
  BY <1>0
<1>3. ASSUME NEW j \in i .. i + Len(t), j < k PROVE readToken(t, j) = tokenComment
  <2>1. (j - i) + 1 \in 1 .. m /\ i + ((j - i) + 1) - 1 = j /\ j <= Len(t)
    BY <1>0, <1>3
  <2>2. t[j] = tokenComment
    BY <1>0, <2>1
  <2> QED
    BY <2>1, <2>2, Zenon DEF readToken
<1>4. k \in S /\ \A y \in S : k <= y
  BY <1>0, <1>1, <1>2, <1>3
<1>5. S \in SUBSET Nat /\ k \in Nat
  BY <1>0
<1>6. skipCommentTokens(t, i) = Min(S)
  BY Zenon DEF skipCommentTokens
<1> HIDE DEF S, k
<1>7. Min(S) \in S /\ \A y \in S : Min(S) <= y
  BY <1>4, Zenon DEF Min
<1>8. Min(S) \in Nat /\ Min(S) <= k /\ k <= Min(S)
  BY <1>4, <1>5, <1>7, Zenon
<1>9. \A x \in Nat : x <= k /\ k <= x => x = k
  BY <1>5
<1> QED
  BY <1>6, <1>8, <1>9, Zenon DEF k, m

(* A text at i, and the comments before it.                                *)
IsLead(t, i, u, k, w) ==
  /\ k \in Nat \ {0} /\ skipCommentTokens(t, i) = k /\ readToken(t, k) = w[1]
  /\ At(t, k, w) /\ k + Len(w) = i + Len(u)

LEMMA LeadSkipped ==
  ASSUME NEW t \in Seq(Token), NEW i \in Nat \ {0}, NEW c \in Seq({tokenComment}), NEW w \in Seq(Token),
         Len(w) >= 1, w[1] # tokenComment, At(t, i, c \o w)
  PROVE  IsLead(t, i, c \o w, i + Len(c), w)
<1> DEFINE k == i + Len(c)
<1>1. c \in Seq(Token) /\ Len(c) \in Nat /\ Len(w) \in Nat /\ Len(t) \in Nat
  BY RunType
<1>2. k \in Nat \ {0} /\ Len(c \o w) = Len(c) + Len(w) /\ k + Len(w) = i + (Len(c) + Len(w))
  BY <1>1
<1>3. At(t, i, c) /\ At(t, k, w)
  BY <1>1, AtConcat
<1> HIDE DEF k
<1>4. k <= Len(t) /\ t[k] = w[1]
  <2>1. k + Len(w) <= Len(t) + 1 /\ \A q \in 1 .. Len(w) : t[k + q - 1] = w[q]
    BY <1>3, Zenon DEF At
  <2>2. 1 \in 1 .. Len(w) /\ k + 1 - 1 = k /\ k <= Len(t)
    BY <1>1, <1>2, <2>1
  <2> QED
    BY <2>1, <2>2, Zenon
<1>5. readToken(t, k) = w[1]
  BY <1>4, Zenon DEF readToken
<1>6. skipCommentTokens(t, i) = k
  BY <1>3, <1>5, RunSkipped, Zenon DEF k
<1>7. k + Len(w) = i + Len(c \o w)
  BY <1>2, Zenon
<1> QED
  BY <1>2, <1>3, <1>5, <1>6, <1>7, Zenon DEF IsLead, k

(* The way of the reader through what is joined: behind each part it skips *)
(* comments to a comma, or to the c that closes.                           *)
IsPath(t, i, N, w, s, c, last) ==
  /\ s[1] = i /\ s[N + 1] = last + 1 /\ N <= Len(t)
  /\ \A n \in 1 .. N :
       /\ s[n] \in Nat \ {0} /\ At(t, s[n], w[n]) /\ s[n] + Len(w[n]) \in Nat \ {0}
       /\ s[n + 1] = skipCommentTokens(t, s[n] + Len(w[n])) + 1
       /\ readToken(t, skipCommentTokens(t, s[n] + Len(w[n]))) = IF n = N THEN c ELSE tokenArraySeparator

Followed(t, i, u, c) == At(t, i, u) /\ readToken(t, i + Len(u)) = c

LEMMA Path ==
  ASSUME NEW t \in Seq(Token), NEW i \in Nat \ {0}, NEW N \in Nat \ {0}, NEW w \in [1 .. N -> Seq(Token)],
         \A n \in 1 .. N : Len(w[n]) >= 1, NEW b \in Seq({tokenComment}), NEW c, c # tokenComment,
         Followed(t, i, Body(w, b), c)
  PROVE  \E s : IsPath(t, i, N, w, s, c, i + Len(Body(w, b)))
<1> DEFINE J == Joined(w)
           q == i + Len(J)
           last == i + Len(Body(w, b))
<1>1. J \in Seq(Token) /\ b \in Seq(Token) /\ Body(w, b) = J \o b
  <2>1. N \in Nat /\ N # 0
    OBVIOUS
  <2> QED
    BY <2>1, JoinedIs, RunType, BodyIs, Zenon
<1> HIDE DEF J
<1>2. Len(J) \in Nat /\ Len(b) \in Nat /\ Len(J \o b) = Len(J) + Len(b) /\ q \in Nat \ {0}
  BY <1>1
<1>3. last = q + Len(b)
  <2>1. last = i + (Len(J) + Len(b))
    BY <1>1, <1>2, Zenon
  <2> HIDE DEF last
  <2> QED
    BY <1>2, <2>1
<1>4. At(t, i, J) /\ At(t, q, b)
  <2>1. At(t, i, J \o b)
    BY <1>1, Zenon DEF Followed
  <2> QED
    BY <1>1, <2>1, AtConcat
<1>5. readToken(t, last) = c
  BY Zenon DEF Followed
<1>6. PICK z : IsWalk(t, i, N, w, z, readToken(t, q))
  BY <1>4, Walk, Zenon DEF J
<1> HIDE DEF q, last
<1>7. skipCommentTokens(t, q) = last
  BY <1>2, <1>3, <1>4, <1>5, RunSkipped, Zenon
<1> DEFINE s == [n \in 1 .. N + 1 |-> IF n = N + 1 THEN last + 1 ELSE z[n]]
<1>8. s[N + 1] = last + 1 /\ \A n \in 1 .. N : s[n] = z[n]
  <2>1. N + 1 \in 1 .. N + 1 /\ \A n \in 1 .. N : n \in 1 .. N + 1 /\ n # N + 1
    OBVIOUS
  <2> QED
    BY <2>1, Zenon
<1> HIDE DEF s
<1>9. /\ z[1] = i /\ z[N + 1] = q + 1 /\ N <= Len(t)
      /\ \A n \in 1 .. N : /\ z[n] \in Nat \ {0} /\ At(t, z[n], w[n])
                           /\ z[n + 1] = z[n] + Len(w[n]) + 1 /\ z[n] + Len(w[n]) \in Nat \ {0}
                           /\ readToken(t, z[n] + Len(w[n])) =
                                IF n = N THEN readToken(t, q) ELSE tokenArraySeparator
  BY <1>6, Zenon DEF IsWalk, q, J
<1>10. ASSUME NEW n \in 1 .. N
       PROVE  LET k == skipCommentTokens(t, s[n] + Len(w[n])) IN
              s[n + 1] = k + 1 /\ readToken(t, k) = IF n = N THEN c ELSE tokenArraySeparator
  <2> DEFINE a == z[n] + Len(w[n])
  <2>1. a \in Nat \ {0} /\ z[n + 1] = a + 1 /\ s[n] + Len(w[n]) = a
    BY <1>8, <1>9, Zenon
  <2>a. n # N => readToken(t, a) = tokenArraySeparator
    BY <1>9, Zenon
  <2> HIDE DEF a
  <2>2. CASE n = N
    <3>1. a + 1 = q + 1
      BY <1>9, <2>1, <2>2, Zenon
    <3>2. a = q
      BY <1>2, <2>1, <3>1
    <3> QED
      BY <1>5, <1>7, <1>8, <2>1, <2>2, <3>2, Zenon
  <2>3. CASE n # N
    <3>1. n + 1 \in 1 .. N
      BY <2>3
    <3>2. readToken(t, a) # tokenComment
      BY <2>3, <2>a, MarksDiffer, Zenon
    <3>3. skipCommentTokens(t, a) = a
      BY <2>1, <3>2, Skipped, Zenon
    <3>4. s[n + 1] = a + 1
      BY <1>8, <2>1, <3>1, Zenon
    <3> QED
      BY <2>1, <2>3, <2>a, <3>3, <3>4, Zenon
  <2> QED
    BY <2>2, <2>3
<1>11. s[1] = i
  <2>1. 1 \in 1 .. N
    OBVIOUS
  <2> QED
    BY <1>8, <1>9, <2>1, Zenon
<1>12. IsPath(t, i, N, w, s, c, last)
  BY <1>8, <1>9, <1>10, <1>11, Zenon DEF IsPath
<1> QED
  BY <1>12, Zenon DEF last

-----------------------------------------------------------------------------
(* What readValue() is to answer, and at n, if W are the values for which  *)
(* the stack has room.                                                     *)
ReadAs(W, v, n) == IF v \in W THEN Ok(n, v) ELSE Throws

ReadsTexts(t, inner, W, texts, V) ==
  \A v \in V : \A u \in texts[v] : \A i \in Nat \ {0} :
    At(t, i, u) => inner[i] = ReadAs(W, v, i + Len(u))

FirstOf(e, n) == [k \in 1 .. n |-> e[k]]

LEMMA FirstOfAppend ==
  ASSUME NEW V, NEW e \in Seq(V), NEW n \in Nat, n < Len(e)
  PROVE  Append(FirstOf(e, n), e[n + 1]) = FirstOf(e, n + 1)
<1> DEFINE p == FirstOf(e, n)
           q == FirstOf(e, n + 1)
<1>0. n + 1 \in Nat /\ (\A k \in 1 .. n + 1 : k \in 1 .. Len(e)) /\ (\A k \in 1 .. n : k \in 1 .. n + 1)
  OBVIOUS
<1>1. p \in [1 .. n -> V]
  BY <1>0 DEF FirstOf
<1>2. q \in [1 .. n + 1 -> V]
  BY <1>0 DEF FirstOf
<1>3. \A k \in 1 .. n + 1 : q[k] = e[k]
  BY Zenon DEF FirstOf
<1>4. \A k \in 1 .. n : p[k] = e[k]
  BY Zenon DEF FirstOf
<1>5. e[n + 1] \in V
  BY <1>0
<1> HIDE DEF p, q
<1>6. IsLonger(Append(p, e[n + 1]), p, n, V, e[n + 1])
  BY <1>1, <1>5, FunctionAppend, Zenon
<1> DEFINE r == Append(p, e[n + 1])
<1> HIDE DEF r
<1>7. r \in [1 .. n + 1 -> V] /\ r[n + 1] = e[n + 1] /\ \A k \in 1 .. n : r[k] = p[k]
  BY <1>6, Zenon DEF IsLonger, r
<1>8. \A k \in 1 .. n + 1 : k = n + 1 \/ k \in 1 .. n
  OBVIOUS
<1>9. \A k \in 1 .. n + 1 : r[k] = q[k]
  BY <1>3, <1>4, <1>7, <1>8, Zenon
<1>10. r = q
  BY <1>2, <1>7, <1>9
<1> QED
  BY <1>10 DEF r, p, q

LEMMA FirstOfAll ==
  ASSUME NEW V, NEW e \in Seq(V)
  PROVE  FirstOf(e, Len(e)) = e /\ FirstOf(e, 0) = <<>>
BY DEF FirstOf

(* The state of the loop of readArray() after n rounds.                    *)
FitTo(W, e, n) == \A k \in 1 .. n : k \in 1 .. Len(e) => e[k] \in W

ArrayAfter(W, e, s, n) ==
  IF ~FitTo(W, e, n) THEN Throws
  ELSE IF n < Len(e) THEN ReadingElements(s[n + 1], FirstOf(e, n))
  ELSE Ok(s[Len(e) + 1], ArrayOf(e))

LEMMA FitMore ==
  ASSUME NEW W, NEW e, Len(e) \in Nat, NEW n \in Nat
  PROVE  /\ ~FitTo(W, e, n) => ~FitTo(W, e, n + 1)
         /\ n >= Len(e) => (FitTo(W, e, n + 1) <=> FitTo(W, e, n))
         /\ n < Len(e) => (FitTo(W, e, n + 1) <=> FitTo(W, e, n) /\ e[n + 1] \in W)
BY DEF FitTo

LEMMA ElementRoundOf ==
  ASSUME NEW t \in Seq(Token), NEW texts, NEW V, NEW W, NEW inner,
         ReadsTexts(t, inner, W, texts, V), NEW e \in Seq(V), NEW f, AreElementTexts(texts, e, f),
         NEW i \in Nat \ {0}, NEW s, NEW last, IsPath(t, i, Len(e), f, s, tokenArrayEnd, last), NEW n \in Nat
  PROVE  ElementRound(t, inner, ArrayAfter(W, e, s, n)) = ArrayAfter(W, e, s, n + 1)
<1> DEFINE N == Len(e)
<1>0. N \in Nat
  OBVIOUS
<1>1. CASE ~FitTo(W, e, n)
  <2>1. ArrayAfter(W, e, s, n) = Throws /\ ArrayAfter(W, e, s, n + 1) = Throws
    BY <1>0, <1>1, FitMore, Zenon DEF ArrayAfter
  <2>2. ElementRound(t, inner, Throws) = Throws
    BY Results, Zenon DEF ElementRound
  <2> QED
    BY <2>1, <2>2, Zenon
<1>2. CASE FitTo(W, e, n) /\ n >= N
  <2>1. ~(n < N) /\ ~(n + 1 < N)
    BY <1>0, <1>2
  <2> DEFINE x == Ok(s[N + 1], ArrayOf(e))
  <2>2. ArrayAfter(W, e, s, n) = x /\ ArrayAfter(W, e, s, n + 1) = x
    BY <1>0, <1>2, <2>1, FitMore, Zenon DEF ArrayAfter
  <2>3. x.verdict # "reading"
    BY Results, Zenon
  <2> HIDE DEF x
  <2>4. ElementRound(t, inner, x) = x
    BY <2>3, Zenon DEF ElementRound
  <2> QED
    BY <2>2, <2>4, Zenon
<1>3. CASE FitTo(W, e, n) /\ n < N
  <2> DEFINE k == n + 1
             m == s[k]
             p == m + Len(f[k])
             g == skipCommentTokens(t, p)
             x == ReadingElements(m, FirstOf(e, n))
             r == ElementRound(t, inner, x)
             b == IF k = N THEN tokenArrayEnd ELSE tokenArraySeparator
  <2>1. k \in 1 .. N /\ k \in Nat /\ (k # N => k < N) /\ (k = N => ~(k < N))
    BY <1>0, <1>3
  <2>2. /\ m \in Nat \ {0} /\ At(t, m, f[k]) /\ s[k + 1] = g + 1 /\ p \in Nat \ {0}
        /\ readToken(t, g) = b
    BY <2>1, Zenon DEF IsPath
  <2>3. e[k] \in V /\ f[k] \in texts[e[k]]
    <3>1. e[k] \in V
      BY <2>1
    <3> QED
      BY <2>1, <3>1, Zenon DEF AreElementTexts
  <2>4. inner[m] = ReadAs(W, e[k], p)
    BY <2>2, <2>3, Zenon DEF ReadsTexts
  <2>5. ArrayAfter(W, e, s, n) = x
    BY <1>3, Zenon DEF ArrayAfter
  <2> HIDE DEF k, m, p, b
  <2>6. CASE e[k] \notin W
    <3>1. ~FitTo(W, e, k)
      BY <1>0, <1>3, <2>6, FitMore, Zenon DEF k
    <3>2. inner[m] = Throws
      BY <2>4, <2>6, Zenon DEF ReadAs
    <3>3. r = Throws
      BY <3>2, ElementRoundIs, Zenon
    <3> QED
      BY <2>5, <3>1, <3>3, Zenon DEF ArrayAfter, k
  <2>7. CASE e[k] \in W
    <3>1. FitTo(W, e, k)
      BY <1>0, <1>3, <2>7, FitMore, Zenon DEF k
    <3>2. inner[m] = Ok(p, e[k])
      BY <2>4, <2>7, Zenon DEF ReadAs
    <3>3. ElementTaken(t, p, e[k], FirstOf(e, n), r)
      BY <3>2, ElementRoundIs, Zenon
    <3>4. Append(FirstOf(e, n), e[k]) = FirstOf(e, k)
      BY <1>3, FirstOfAppend DEF k
    <3>5. /\ b = tokenArrayEnd => r = Ok(g + 1, ArrayOf(FirstOf(e, k)))
          /\ b = tokenArraySeparator => r = ReadingElements(g + 1, FirstOf(e, k))
      BY <2>2, <3>3, <3>4, Zenon DEF ElementTaken
    <3>6. CASE k = N
      <4>1. b = tokenArrayEnd /\ ~(k < N)
        BY <2>1, <3>6, Zenon DEF b
      <4>2. FirstOf(e, k) = e
        BY <3>6, FirstOfAll, Zenon
      <4>3. r = Ok(s[N + 1], ArrayOf(e))
        BY <2>2, <3>5, <3>6, <4>1, <4>2, Zenon
      <4> QED
        BY <2>5, <3>1, <4>1, <4>3, Zenon DEF ArrayAfter, k
    <3>7. CASE k # N
      <4>1. b = tokenArraySeparator /\ k < N
        BY <2>1, <3>7, Zenon DEF b
      <4>2. r = ReadingElements(s[k + 1], FirstOf(e, k))
        BY <2>2, <3>5, <4>1, Zenon
      <4> QED
        BY <2>5, <3>1, <4>1, <4>2, Zenon DEF ArrayAfter, k
    <3> QED
      BY <3>6, <3>7
  <2> QED
    BY <2>6, <2>7
<1> QED
  BY <1>0, <1>1, <1>2, <1>3

LEMMA BeginsText ==
  ASSUME NEW t \in Seq(Token), NEW i \in Nat \ {0}, NEW u, IsText(u), At(t, i, u)
  PROVE  /\ readToken(t, i) = u[1]
         /\ readToken(t, i) \in Str \cup Scalar \cup {tokenObjectBegin, tokenArrayBegin, tokenComment}
<1>1. /\ u \in Seq(Token) /\ Len(u) >= 1
      /\ u[1] \in Str \cup Scalar \cup {tokenObjectBegin, tokenArrayBegin, tokenComment}
  BY Zenon DEF IsText
<1>2. Len(u) \in Nat /\ Len(t) \in Nat
  BY <1>1
<1>3. i + Len(u) <= Len(t) + 1 /\ \A q \in 1 .. Len(u) : t[i + q - 1] = u[q]
  BY Zenon DEF At
<1>4. 1 \in 1 .. Len(u) /\ i + 1 - 1 = i /\ i <= Len(t)
  BY <1>1, <1>2, <1>3
<1>5. t[i] = u[1]
  BY <1>3, <1>4, Zenon
<1>6. readToken(t, i) = u[1]
  BY <1>4, <1>5, Zenon DEF readToken
<1> QED
  BY <1>1, <1>6, Zenon

LEMMA FitIsValue ==
  ASSUME NEW V, NEW e \in Seq(V), NEW W, NEW n \in Nat, n >= Len(e)
  PROVE  FitTo(W, e, n) <=> ArrayOf(e) \in ValuesOver(W)
<1> DEFINE v == ArrayOf(e)
<1>a. v \in ValuesOver(W) <=> \/ \E c \in Str \cup Scalar : v = ScalarValue(c)
                              \/ \E b \in Seq(W) : v = ArrayOf(b)
                              \/ \E m \in MapsOver(W) : v = ObjectOf(m)
  BY ValuesOverIs, Zenon
<1>1. v \in ValuesOver(W) <=> e \in Seq(W)
  BY <1>a, KindsOfValues, Zenon
<1>2. Len(e) \in Nat /\ \A k \in 1 .. Len(e) : k \in 1 .. n
  OBVIOUS
<1>3. FitTo(W, e, n) <=> \A k \in 1 .. Len(e) : e[k] \in W
  BY <1>2, Zenon DEF FitTo
<1>4. (\A k \in 1 .. Len(e) : e[k] \in W) <=> e \in Seq(W)
  OBVIOUS
<1> QED
  BY <1>1, <1>3, <1>4, Zenon

AnswersAs(r, W, v, n) == r = ReadAs(ValuesOver(W), v, n)

(* An array is read to its end.                                            *)
LEMMA ArrayReadToEnd ==
  ASSUME NEW t \in Seq(Token), NEW texts, NEW V, AreTexts(texts, V), NEW W, NEW inner,
         ReadsTexts(t, inner, W, texts, V), NEW e \in Seq(V), NEW f, AreElementTexts(texts, e, f),
         NEW b \in Seq({tokenComment}), NEW i \in Nat \ {0}, Followed(t, i, Body(f, b), tokenArrayEnd)
  PROVE  AnswersAs(readArray(t, inner, i), W, ArrayOf(e), i + Len(Body(f, b)) + 1)
<1> DEFINE N == Len(e)
           L == Len(t)
           J == Body(f, b)
<1>1. N \in Nat /\ L \in Nat /\ f \in [1 .. N -> Seq(Token)] /\ \A n \in 1 .. N : f[n] \in texts[e[n]]
  BY LenProperties, Zenon DEF AreElementTexts
<1>a. At(t, i, Body(f, b)) /\ readToken(t, i + Len(Body(f, b))) = tokenArrayEnd
  BY Zenon DEF Followed
<1>b. N = 0 => J = <<>>
  BY <1>1, BodyIs, Zenon
<1>2. CASE N = 0
  <2>1. J = <<>> /\ e = <<>> /\ Len(<<>>) = 0
    <3>1. J = <<>>
      BY <1>2, <1>b, Zenon
    <3>2. e = <<>> /\ Len(<<>>) = 0
      BY <1>2
    <3> QED
      BY <3>1, <3>2, Zenon
  <2>2. i + Len(J) = i
    BY <2>1
  <2>3. IsEmptyArray(t, i)
    BY <1>a, <2>2, Zenon DEF IsEmptyArray
  <2>4. readArray(t, inner, i) = Ok(i + 1, ArrayOf(<<>>))
    BY <2>3, Zenon DEF readArray
  <2>5. <<>> \in Seq(W)
    OBVIOUS
  <2>6. ArrayOf(<<>>) \in ValuesOver(W)
    BY <2>5, ValuesOverIs, Zenon
  <2> HIDE DEF J
  <2> QED
    BY <2>1, <2>2, <2>4, <2>6, Zenon DEF AnswersAs, ReadAs, J
<1>3. CASE N # 0
  <2>1. N \in Nat \ {0} /\ 1 \in 1 .. N
    BY <1>1, <1>3
  <2>2. ASSUME NEW n \in 1 .. N PROVE IsText(f[n]) /\ Len(f[n]) >= 1
    <3>1. e[n] \in V
      OBVIOUS
    <3> QED
      BY <1>1, <3>1, Zenon DEF AreTexts, IsText
  <2>a. tokenArrayEnd # tokenComment
    BY MarksDiffer, Zenon
  <2>3. PICK s : IsPath(t, i, N, f, s, tokenArrayEnd, i + Len(J))
    BY <1>1, <2>1, <2>2, <2>a, Path, Zenon
  <2>4. s[1] = i /\ s[N + 1] = i + Len(J) + 1 /\ N <= L /\ At(t, s[1], f[1])
    BY <2>1, <2>3, Zenon DEF IsPath
  <2>5. ~IsEmptyArray(t, i)
    <3>1. readToken(t, i) \in Str \cup Scalar \cup {tokenObjectBegin, tokenArrayBegin, tokenComment}
      BY <2>1, <2>2, <2>4, BeginsText, Zenon
    <3>2. tokenArrayEnd \notin Str \cup Scalar
      BY MarksAreNoValues, Zenon
    <3> QED
      BY <3>1, <3>2, MarksDiffer, Zenon DEF IsEmptyArray
  <2>b. PICK x : IsArrayLoop(t, inner, i, x)
    BY <1>1, <2>5, ArrayLoop, Zenon
  <2>6. /\ readArray(t, inner, i) = x[L] /\ x[0] = ElementsFrom(i)
        /\ \A n \in 1 .. L : x[n] = ElementRound(t, inner, x[n - 1])
    BY <2>b, Zenon DEF IsArrayLoop
  <2> DEFINE S == {n \in 0 .. L : x[n] = ArrayAfter(W, e, s, n)}
  <2>7. 0 \in S
    <3>1. x[0] = ReadingElements(i, <<>>)
      BY <2>6, Zenon DEF ElementsFrom, ReadingElements
    <3>2. FitTo(W, e, 0)
      BY DEF FitTo
    <3>3. 0 < N /\ 0 + 1 = 1 /\ 0 \in 0 .. L
      BY <1>1, <2>1
    <3>4. FirstOf(e, 0) = <<>>
      BY FirstOfAll, Zenon
    <3> QED
      BY <2>4, <3>1, <3>2, <3>3, <3>4, Zenon DEF ArrayAfter
  <2>8. ASSUME NEW n \in 0 .. L - 1, n \in S PROVE n + 1 \in S
    <3>1. n + 1 \in 0 .. L /\ n + 1 \in 1 .. L /\ (n + 1) - 1 = n /\ n \in Nat
      BY <1>1
    <3>2. x[n + 1] = ElementRound(t, inner, x[(n + 1) - 1])
      BY <2>6, <3>1, Zenon
    <3>3. x[n + 1] = ElementRound(t, inner, ArrayAfter(W, e, s, n))
      BY <2>8, <3>1, <3>2, Zenon
    <3>4. ElementRound(t, inner, ArrayAfter(W, e, s, n)) = ArrayAfter(W, e, s, n + 1)
      BY <2>3, <3>1, ElementRoundOf
    <3> QED
      BY <3>1, <3>3, <3>4, Zenon
  <2> HIDE DEF S
  <2>9. 0 .. L \subseteq S
    BY <1>1, <2>7, <2>8, InductionUpTo
  <2>10. L \in 0 .. L /\ L >= N /\ ~(L < N)
    BY <1>1, <2>4
  <2>11. x[L] = ArrayAfter(W, e, s, L)
    BY <2>9, <2>10, Zenon DEF S
  <2>12. FitTo(W, e, L) <=> ArrayOf(e) \in ValuesOver(W)
    BY <1>1, <2>10, FitIsValue, Zenon
  <2> HIDE DEF J
  <2> QED
    BY <2>4, <2>6, <2>10, <2>11, <2>12, Zenon DEF AnswersAs, ArrayAfter, ReadAs, J
<1> QED
  BY <1>2, <1>3

-----------------------------------------------------------------------------
(* The members in the order of their names.                                *)
IsOrder(m, names, N) ==
  /\ N \in Nat /\ names \in [1 .. N -> Names(m)]
  /\ \A a, b \in 1 .. N : names[a] = names[b] => a = b
  /\ \A q \in Names(m) : \E k \in 1 .. N : names[k] = q

LEMMA OrderIs ==
  ASSUME NEW m, IsFiniteSet(Names(m)), NEW names \in SetToSeqs(Names(m))
  PROVE  IsOrder(m, names, Cardinality(Names(m)))
<1> DEFINE S == Names(m)
           N == Cardinality(S)
           D == 1 .. N
<1>1. N \in Nat
  BY FS_CardinalityType, Zenon
<1>2. names \in [D -> S] /\ \A a, b \in D : a # b => names[a] # names[b]
  BY Zenon DEF SetToSeqs
<1> HIDE DEF S
<1>3. DOMAIN names = D
  BY <1>2
<1>4. names \in Injection(D, S)
  BY <1>2, <1>3, Zenon DEF Injection, IsInjective
<1>5. Cardinality(D) = N
  <2> HIDE DEF N
  <2> QED
    BY <1>1, FS_Interval
<1>6. IsFiniteSet(S)
  BY DEF S
<1>7. names \in Surjection(D, S)
  BY <1>4, <1>5, <1>6, FS_Injection, Zenon
<1>8. \A q \in S : \E k \in D : names[k] = q
  BY <1>7, Zenon DEF Surjection
<1> QED
  BY <1>1, <1>2, <1>8, Zenon DEF IsOrder, S

Ordered(m, names, N) == [k \in 1 .. N |-> m[names[k]]]

PartOf(m, names, n) == [a \in Str |-> IF \E k \in 1 .. n : names[k] = a THEN m[a] ELSE NoMember]

LEMMA PartGrows ==
  ASSUME NEW V, NEW m \in MapsOver(V), NEW names, NEW N, IsOrder(m, names, N), NEW n \in Nat, n < N
  PROVE  [PartOf(m, names, n) EXCEPT ![names[n + 1]] = m[names[n + 1]]] = PartOf(m, names, n + 1)
<1> DEFINE p == PartOf(m, names, n)
           q == PartOf(m, names, n + 1)
           c == names[n + 1]
           r == [p EXCEPT ![c] = m[c]]
<1>0. N \in Nat /\ names \in [1 .. N -> Names(m)]
  BY Zenon DEF IsOrder
<1>1. \A k : k \in 1 .. n + 1 <=> k = n + 1 \/ k \in 1 .. n
  OBVIOUS
<1>2. c \in Str
  <2>1. n + 1 \in 1 .. N
    BY <1>0
  <2>2. c \in Names(m)
    BY <1>0, <2>1
  <2> QED
    BY <2>2, Zenon DEF Names
<1>3. \A a \in Str : p[a] = IF \E k \in 1 .. n : names[k] = a THEN m[a] ELSE NoMember
  BY Zenon DEF PartOf
<1>4. \A a \in Str : q[a] = IF \E k \in 1 .. n + 1 : names[k] = a THEN m[a] ELSE NoMember
  BY Zenon DEF PartOf
<1>5. DOMAIN p = Str /\ DOMAIN q = Str
  BY Zenon DEF PartOf
<1>6. p = [a \in Str |-> p[a]] /\ q = [a \in Str |-> q[a]]
  BY Zenon DEF PartOf
<1> HIDE DEF p, q
<1>7. r = [a \in Str |-> r[a]] /\ \A a \in Str : r[a] = IF a = c THEN m[c] ELSE p[a]
  <2> HIDE DEF c
  <2> QED
    BY <1>2, <1>5, <1>6
<1> HIDE DEF r
<1>8. ASSUME NEW a \in Str PROVE r[a] = q[a]
  <2>1. CASE a = c
    <3>1. \E k \in 1 .. n + 1 : names[k] = a
      BY <1>1, <2>1, Zenon
    <3> QED
      BY <1>4, <1>7, <2>1, <3>1, Zenon
  <2>2. CASE a # c
    <3>1. (\E k \in 1 .. n + 1 : names[k] = a) <=> \E k \in 1 .. n : names[k] = a
      BY <1>1, <2>2, Zenon
    <3> QED
      BY <1>3, <1>4, <1>7, <2>2, <3>1, Zenon
  <2> QED
    BY <2>1, <2>2
<1>9. r = q
  BY <1>6, <1>7, <1>8, Zenon
<1> QED
  BY <1>9 DEF r, p, q

LEMMA PartIs ==
  ASSUME NEW V, NEW m \in MapsOver(V), NEW names, NEW N, IsOrder(m, names, N)
  PROVE  PartOf(m, names, N) = m /\ PartOf(m, names, 0) = NoMembers
<1> DEFINE p == PartOf(m, names, N)
<1>0. m \in [Str -> V \cup {NoMember}]
  BY Zenon DEF MapsOver
<1>1. m = [a \in Str |-> m[a]]
  <2> HIDE DEF NoMember
  <2> QED
    BY <1>0
<1>2. \A a \in Str : p[a] = IF \E k \in 1 .. N : names[k] = a THEN m[a] ELSE NoMember
  BY Zenon DEF PartOf
<1>3. p = [a \in Str |-> p[a]]
  BY Zenon DEF PartOf
<1> HIDE DEF p
<1>4. ASSUME NEW a \in Str PROVE p[a] = m[a]
  <2>1. CASE a \in Names(m)
    BY <1>2, <2>1, Zenon DEF IsOrder
  <2>2. CASE a \notin Names(m)
    <3>1. m[a] = NoMember
      BY <2>2, Zenon DEF Names
    <3> QED
      BY <1>2, <3>1, Zenon
  <2> QED
    BY <2>1, <2>2
<1>5. p = m
  BY <1>1, <1>3, <1>4, Zenon
<1>6. PartOf(m, names, 0) = NoMembers
  <2>1. \A k : k \notin 1 .. 0
    OBVIOUS
  <2>2. \A a \in Str : PartOf(m, names, 0)[a] = NoMember
    BY <2>1, Zenon DEF PartOf
  <2>3. PartOf(m, names, 0) = [a \in Str |-> PartOf(m, names, 0)[a]]
    BY Zenon DEF PartOf
  <2> QED
    BY <2>2, <2>3, Zenon DEF NoMembers
<1> QED
  BY <1>5, <1>6 DEF p

IsOrdered(V, m, names, N, e) ==
  /\ N \in Nat /\ e \in Seq(V) /\ Len(e) = N
  /\ \A k \in 1 .. N : /\ e[k] = m[names[k]]
                       /\ names[k] \in Names(m) /\ names[k] \in Str /\ m[names[k]] \in V

LEMMA OrderedIs ==
  ASSUME NEW V, NEW m \in MapsOver(V), NEW names, NEW N, IsOrder(m, names, N)
  PROVE  IsOrdered(V, m, names, N, Ordered(m, names, N))
<1>1. \A q \in Names(m) : q \in Str /\ m[q] \in V
  BY NamesOf, Zenon
<1>2. N \in Nat /\ names \in [1 .. N -> Names(m)]
  BY Zenon DEF IsOrder
<1>3. \A k \in 1 .. N : names[k] \in Names(m)
  BY <1>2
<1>4. \A k \in 1 .. N : /\ Ordered(m, names, N)[k] = m[names[k]]
                        /\ names[k] \in Names(m) /\ names[k] \in Str /\ m[names[k]] \in V
  BY <1>1, <1>3, Zenon DEF Ordered
<1>5. Ordered(m, names, N) \in [1 .. N -> V]
  <2>1. Ordered(m, names, N) = [k \in 1 .. N |-> m[names[k]]]
    BY Zenon DEF Ordered
  <2> QED
    BY <1>4, <2>1
<1> QED
  BY <1>2, <1>4, <1>5, FunctionIsSeq, Zenon DEF IsOrdered

LEMMA FitIsObject ==
  ASSUME NEW V, NoMember \notin V, NEW m \in MapsOver(V), NEW names, NEW N, IsOrder(m, names, N),
         NEW W, NoMember \notin W, NEW n \in Nat, n >= N
  PROVE  FitTo(W, Ordered(m, names, N), n) <=> ObjectOf(m) \in ValuesOver(W)
<1> DEFINE v == ObjectOf(m)
           e == Ordered(m, names, N)
<1>a. v \in ValuesOver(W) <=> \/ \E c \in Str \cup Scalar : v = ScalarValue(c)
                              \/ \E b \in Seq(W) : v = ArrayOf(b)
                              \/ \E q \in MapsOver(W) : v = ObjectOf(q)
  BY ValuesOverIs, Zenon
<1>1. v \in ValuesOver(W) <=> m \in MapsOver(W)
  BY <1>a, KindsOfValues, Zenon
<1>2. /\ Len(e) = N /\ N \in Nat
      /\ \A k \in 1 .. N : e[k] = m[names[k]] /\ names[k] \in Names(m) /\ names[k] \in Str
  <2>1. IsOrdered(V, m, names, N, e)
    BY OrderedIs, Zenon
  <2> HIDE DEF e
  <2> QED
    BY <2>1, Zenon DEF IsOrdered
<1> HIDE DEF e
<1>3. \A k \in 1 .. N : k \in 1 .. n
  BY <1>2
<1>4. FitTo(W, e, n) <=> \A k \in 1 .. N : m[names[k]] \in W
  BY <1>2, <1>3, Zenon DEF FitTo
<1>5. (\A k \in 1 .. N : m[names[k]] \in W) <=> \A q \in Names(m) : m[q] \in W
  BY <1>2, Zenon DEF IsOrder
<1>6. m \in [Str -> V \cup {NoMember}] /\ IsFiniteSet(Names(m))
  BY Zenon DEF MapsOver
<1>7. (\A q \in Names(m) : m[q] \in W) <=> m \in [Str -> W \cup {NoMember}]
  <2>1. \A q \in Str : q \in Names(m) <=> m[q] # NoMember
    BY Zenon DEF Names
  <2>2. \A q \in Names(m) : q \in Str
    BY Zenon DEF Names
  <2> HIDE DEF NoMember
  <2> QED
    BY <1>6, <2>1, <2>2
<1>8. m \in MapsOver(W) <=> m \in [Str -> W \cup {NoMember}]
  BY <1>6, Zenon DEF MapsOver
<1> QED
  BY <1>1, <1>4, <1>5, <1>7, <1>8, Zenon DEF e

(* The state of the loop of readObject() after n rounds.                   *)
ObjectAfter(W, m, names, N, s, n) ==
  IF ~FitTo(W, Ordered(m, names, N), n) THEN Throws
  ELSE IF n < N
  THEN ReadingMembers(s[n + 1], IF n = 0 THEN EmptyName ELSE names[n], PartOf(m, names, n))
  ELSE Ok(s[N + 1], ObjectOf(m))

MemberAt(t, h, w, c, u) ==
  LET j == skipCommentTokens(t, h) IN
  /\ j \in Nat \ {0} /\ j + 1 <= Len(t) /\ t[j] = c /\ t[j + 1] = tokenMemberSeparator
  /\ At(t, j + 2, u) /\ h + Len(w) = (j + 2) + Len(u)

LEMMA MemberStands ==
  ASSUME NEW t \in Seq(Token), NEW h \in Nat \ {0}, NEW a \in Seq({tokenComment}), NEW c \in Str,
         NEW u \in Seq(Token), NEW w, w = a \o Member(c, u), At(t, h, w)
  PROVE  MemberAt(t, h, w, c, u)
<1> DEFINE M == Member(c, u)
           j == skipCommentTokens(t, h)
<1>1. M \in Seq(Token) /\ Len(M) = Len(u) + 2 /\ Len(u) \in Nat
  BY MemberType, Zenon
<1>2. M[1] = c /\ M[1] # tokenComment
  <2>1. M[1] = c
    <3>1. M = <<c, tokenMemberSeparator>> \o u
      BY Zenon DEF Member
    <3> HIDE DEF M
    <3> QED
      BY <3>1, MemberType, ConcatProperties
  <2> QED
    BY <2>1, MarksAreNoValues
<1> HIDE DEF M
<1>3. Len(M) >= 1
  BY <1>1
<1>4. IsLead(t, h, a \o M, h + Len(a), M)
  BY <1>1, <1>2, <1>3, LeadSkipped, Zenon DEF M
<1>5. j \in Nat \ {0} /\ At(t, j, M) /\ j + Len(M) = h + Len(w)
  BY <1>4, Zenon DEF IsLead, M
<1> HIDE DEF j
<1>6. At(t, j, M) <=> /\ j + 1 <= Len(t) /\ t[j] = c
                      /\ t[j + 1] = tokenMemberSeparator /\ At(t, j + 2, u)
  BY <1>5, AtMember, Zenon DEF M
<1>7. j + Len(M) = (j + 2) + Len(u)
  BY <1>1, <1>5
<1> QED
  BY <1>5, <1>6, <1>7, Zenon DEF MemberAt, j

LEMMA MemberRoundOf ==
  ASSUME NEW t \in Seq(Token), NEW runs, AreRuns(runs), NEW texts, NEW V, AreTexts(texts, V), NEW W, NEW inner,
         ReadsTexts(t, inner, W, texts, V), NEW m \in MapsOver(V), NEW names, NEW N,
         IsOrder(m, names, N), NEW f, AreCommentedMembers(runs, texts, m, names, f),
         NEW i \in Nat \ {0}, NEW s, NEW last, IsPath(t, i, N, f, s, tokenObjectEnd, last), NEW n \in Nat
  PROVE  MemberRound(t, inner, ObjectAfter(W, m, names, N, s, n)) = ObjectAfter(W, m, names, N, s, n + 1)
<1> DEFINE e == Ordered(m, names, N)
           After(k) == ObjectAfter(W, m, names, N, s, k)
           name == IF n = 0 THEN EmptyName ELSE names[n]
<1>a. IsOrdered(V, m, names, N, e)
  BY OrderedIs, Zenon
<1>b. \A k : After(k) = IF ~FitTo(W, e, k) THEN Throws
                        ELSE IF k < N
                        THEN ReadingMembers(s[k + 1], IF k = 0 THEN EmptyName ELSE names[k], PartOf(m, names, k))
                        ELSE Ok(s[N + 1], ObjectOf(m))
  BY Zenon DEF ObjectAfter
<1> HIDE DEF e, After
<1>0. /\ N \in Nat /\ Len(e) = N
      /\ \A k \in 1 .. N : e[k] = m[names[k]] /\ names[k] \in Str /\ m[names[k]] \in V
  BY <1>a, Zenon DEF IsOrdered
<1>1. CASE ~FitTo(W, e, n)
  <2>1. After(n) = Throws /\ After(n + 1) = Throws
    BY <1>0, <1>1, <1>b, FitMore, Zenon
  <2>2. MemberRound(t, inner, Throws) = Throws
    BY Results, Zenon DEF MemberRound
  <2> QED
    BY <2>1, <2>2, Zenon DEF After
<1>2. CASE FitTo(W, e, n) /\ n >= N
  <2>1. ~(n < N) /\ ~(n + 1 < N)
    BY <1>0, <1>2
  <2> DEFINE x == Ok(s[N + 1], ObjectOf(m))
  <2>2. After(n) = x /\ After(n + 1) = x
    BY <1>0, <1>2, <1>b, <2>1, FitMore, Zenon
  <2>3. x.verdict # "reading"
    BY Results, Zenon
  <2> HIDE DEF x
  <2>4. MemberRound(t, inner, x) = x
    BY <2>3, Zenon DEF MemberRound
  <2> QED
    BY <2>2, <2>4, Zenon DEF After
<1>3. CASE FitTo(W, e, n) /\ n < N
  <2> DEFINE k == n + 1
             h == s[k]
             j == skipCommentTokens(t, h)
             p == h + Len(f[k])
             g == skipCommentTokens(t, p)
             c == names[k]
             x == ReadingMembers(h, name, PartOf(m, names, n))
             r == MemberRound(t, inner, x)
             b == IF k = N THEN tokenObjectEnd ELSE tokenArraySeparator
  <2>1. k \in 1 .. N /\ k \in Nat /\ k # 0 /\ (k # N => k < N) /\ (k = N => ~(k < N))
    BY <1>0, <1>3
  <2>2. /\ h \in Nat \ {0} /\ At(t, h, f[k]) /\ s[k + 1] = g + 1 /\ p \in Nat \ {0}
        /\ readToken(t, g) = b
    BY <2>1, Zenon DEF IsPath
  <2>3. c \in Str /\ m[c] \in V /\ e[k] = m[c]
    BY <1>0, <2>1, Zenon
  <2>4. PICK a \in runs, u \in texts[m[c]] : f[k] = a \o Member(c, u)
    <3>1. DOMAIN names = 1 .. N
      BY DEF IsOrder
    <3> QED
      BY <2>1, <3>1, Zenon DEF AreCommentedMembers
  <2>5. u \in Seq(Token) /\ a \in Seq({tokenComment})
    BY <2>3, Zenon DEF AreTexts, IsText, AreRuns
  <2>6. After(n) = x
    BY <1>3, <1>b, Zenon
  <2> HIDE DEF k, b, c
  <2>7. /\ j \in Nat \ {0} /\ j + 1 <= Len(t) /\ t[j] = c /\ t[j + 1] = tokenMemberSeparator
        /\ At(t, j + 2, u) /\ p = (j + 2) + Len(u)
    <3>1. MemberAt(t, h, f[k], c, u)
      BY <2>2, <2>3, <2>4, <2>5, MemberStands, Zenon
    <3> QED
      BY <3>1, Zenon DEF MemberAt
  <2>a. h \in Nat \ {0} /\ p \in Nat \ {0}
    BY <2>2, Zenon
  <2> HIDE DEF j, p
  <2>8. j + 2 \in Nat \ {0} /\ j + 1 \in Nat \ {0}
    BY <2>7
  <2>9. inner[j + 2] = ReadAs(W, m[c], p)
    <3>1. inner[j + 2] = ReadAs(W, m[c], (j + 2) + Len(u))
      BY <2>3, <2>7, <2>8, Zenon DEF ReadsTexts
    <3> QED
      BY <2>7, <3>1, Zenon
  <2>10. readToken(t, j) = c /\ readToken(t, j + 1) = tokenMemberSeparator
    <3>1. j <= Len(t)
      BY <2>7
    <3> QED
      BY <2>7, <3>1, Zenon DEF readToken
  <2>11. c # tokenComment /\ c # tokenObjectEnd
    BY <2>3, MarksAreNoValues
  <2>13. MemberRoundCases(t, inner, j, name, PartOf(m, names, n), r)
    BY MemberRoundIs, Zenon DEF j
  <2>14. /\ inner[j + 2] = Throws => r = Throws
         /\ \A q, v : inner[j + 2] = Ok(q, v) => MemberTaken(t, q, c, [PartOf(m, names, n) EXCEPT ![c] = v], r)
    BY <2>3, <2>10, <2>13, Zenon DEF MemberRoundCases
  <2> HIDE DEF r
  <2>15. CASE m[c] \notin W
    <3>1. ~FitTo(W, e, k)
      BY <1>0, <1>3, <2>3, <2>15, FitMore, Zenon DEF k
    <3>2. inner[j + 2] = Throws
      BY <2>9, <2>15, Zenon DEF ReadAs
    <3>3. r = Throws
      BY <2>14, <3>2, Zenon
    <3>4. After(k) = Throws
      BY <1>b, <3>1, Zenon
    <3> QED
      BY <2>6, <3>3, <3>4, Zenon DEF After, r, k
  <2>16. CASE m[c] \in W
    <3>1. FitTo(W, e, k)
      BY <1>0, <1>3, <2>3, <2>16, FitMore, Zenon DEF k
    <3>2. inner[j + 2] = Ok(p, m[c])
      BY <2>9, <2>16, Zenon DEF ReadAs
    <3>3. [PartOf(m, names, n) EXCEPT ![c] = m[c]] = PartOf(m, names, k)
      BY <1>3, PartGrows, Zenon DEF c, k
    <3>4. MemberTaken(t, p, c, PartOf(m, names, k), r)
      <4>1. MemberTaken(t, p, c, [PartOf(m, names, n) EXCEPT ![c] = m[c]], r)
        BY <2>14, <3>2, Zenon
      <4> QED
        BY <3>3, <4>1
    <3>5. b # tokenComment /\ b # "error" /\ (b = tokenObjectEnd \/ b = tokenArraySeparator)
      BY MarksDiffer, Zenon DEF b
    <3>7. AfterMember(t, p) = b
      <4> HIDE DEF b
      <4>1. b = readToken(t, skipCommentTokens(t, p)) /\ (readToken(t, p) = b \/ readToken(t, p) = tokenComment)
        BY <2>2, <2>a, Skipped, Zenon
      <4>2. AfterMember(t, p) = IF b = tokenObjectEnd THEN tokenObjectEnd ELSE tokenArraySeparator
        BY <3>5, <4>1, Zenon DEF AfterMember
      <4> QED
        BY <3>5, <4>2, Zenon
    <3>8. /\ b = tokenObjectEnd => r = Ok(g + 1, ObjectOf(PartOf(m, names, k)))
          /\ b # tokenObjectEnd => r = ReadingMembers(g + 1, c, PartOf(m, names, k))
      BY <3>4, <3>5, <3>7, Zenon DEF MemberTaken
    <3>9. CASE k = N
      <4>1. b = tokenObjectEnd /\ ~(k < N)
        BY <2>1, <3>9, Zenon DEF b
      <4>2. PartOf(m, names, k) = m
        BY <3>9, PartIs, Zenon
      <4>3. r = Ok(s[N + 1], ObjectOf(m))
        BY <2>2, <3>8, <3>9, <4>1, <4>2, Zenon
      <4>4. After(k) = Ok(s[N + 1], ObjectOf(m))
        BY <1>b, <3>1, <4>1, Zenon
      <4> QED
        BY <2>6, <4>3, <4>4, Zenon DEF After, r, k
    <3>10. CASE k # N
      <4>1. b # tokenObjectEnd /\ k < N
        BY <2>1, <3>10, MarksDiffer, Zenon DEF b
      <4>2. r = ReadingMembers(s[k + 1], c, PartOf(m, names, k))
        BY <2>2, <3>8, <4>1, Zenon
      <4>3. After(k) = ReadingMembers(s[k + 1], c, PartOf(m, names, k))
        BY <1>b, <2>1, <3>1, <4>1, Zenon DEF c
      <4> QED
        BY <2>6, <4>2, <4>3, Zenon DEF After, r, k
    <3> QED
      BY <3>9, <3>10
  <2> QED
    BY <2>15, <2>16
<1> QED
  BY <1>0, <1>1, <1>2, <1>3

LEMMA EmptyObjectReadToEnd ==
  ASSUME NEW t \in Seq(Token), NEW inner, NEW i \in Nat \ {0}, readToken(t, i) = tokenObjectEnd
  PROVE  readObject(t, inner, i) = Ok(i + 1, ObjectOf(NoMembers))
<1> DEFINE L == Len(t)
           r == Ok(i + 1, ObjectOf(NoMembers))
<1>0. L \in Nat /\ i <= L
  BY ReadTokenType, MarksDiffer
<1>a. PICK x : IsObjectLoop(t, inner, i, x)
  BY <1>0, ObjectLoop, Zenon
<1>1. /\ readObject(t, inner, i) = x[L] /\ x[0] = MembersFrom(i)
      /\ \A n \in 1 .. L : x[n] = MemberRound(t, inner, x[n - 1])
  BY <1>a, Zenon DEF IsObjectLoop
<1>2. MemberRound(t, inner, x[0]) = r
  <2>1. x[0] = ReadingMembers(i, EmptyName, NoMembers)
    BY <1>1, Zenon DEF MembersFrom, ReadingMembers
  <2>2. skipCommentTokens(t, i) = i
    BY Skipped, MarksDiffer
  <2>3. MemberRoundCases(t, inner, i, EmptyName, NoMembers, MemberRound(t, inner, x[0]))
    BY <2>1, <2>2, MemberRoundIs, Zenon
  <2> QED
    BY <2>3, Zenon DEF MemberRoundCases
<1>3. MemberRound(t, inner, r) = r
  <2>1. r.verdict # "reading"
    BY Results, Zenon
  <2> HIDE DEF r
  <2> QED
    BY <2>1, Zenon DEF MemberRound
<1> HIDE DEF r
<1> DEFINE S == {n \in 0 .. L : n # 0 => x[n] = r}
<1>4. 0 \in S
  BY <1>0
<1>5. ASSUME NEW n \in 0 .. L - 1, n \in S PROVE n + 1 \in S
  <2>1. n + 1 \in 0 .. L /\ n + 1 \in 1 .. L /\ (n + 1) - 1 = n
    BY <1>0
  <2>2. x[n + 1] = MemberRound(t, inner, x[(n + 1) - 1])
    BY <1>1, <2>1, Zenon
  <2>3. x[n + 1] = MemberRound(t, inner, x[n])
    BY <2>1, <2>2, Zenon
  <2>4. CASE n = 0
    BY <1>2, <2>1, <2>3, <2>4, Zenon
  <2>5. CASE n # 0
    BY <1>3, <1>5, <2>1, <2>3, <2>5, Zenon
  <2> QED
    BY <2>4, <2>5
<1> HIDE DEF S
<1>6. 0 .. L \subseteq S
  BY <1>0, <1>4, <1>5, InductionUpTo
<1>7. L \in 0 .. L /\ L # 0
  BY <1>0
<1> QED
  BY <1>1, <1>6, <1>7, Zenon DEF S, r

(* An object is read to its end.                                           *)
LEMMA ObjectReadToEnd ==
  ASSUME NEW t \in Seq(Token), NEW runs, AreRuns(runs), NEW texts, NEW V, AreTexts(texts, V),
         NoMember \notin V, NEW W, NoMember \notin W, NEW inner, ReadsTexts(t, inner, W, texts, V),
         NEW m \in MapsOver(V), NEW names \in SetToSeqs(Names(m)), NEW f,
         AreCommentedMembers(runs, texts, m, names, f), NEW b \in Seq({tokenComment}),
         NEW i \in Nat \ {0}, Followed(t, i, Body(f, b), tokenObjectEnd)
  PROVE  AnswersAs(readObject(t, inner, i), W, ObjectOf(m), i + Len(Body(f, b)) + 1)
<1> DEFINE N == Cardinality(Names(m))
           L == Len(t)
           J == Body(f, b)
           e == Ordered(m, names, N)
<1>1. N \in Nat /\ f \in [1 .. N -> Seq(Token)]
  BY OrderDomain, Zenon DEF AreCommentedMembers
<1>2. IsOrder(m, names, N)
  BY NamesOf, OrderIs, Zenon
<1>3. L \in Nat
  OBVIOUS
<1>4. \A n \in Nat : n >= N => (FitTo(W, e, n) <=> ObjectOf(m) \in ValuesOver(W))
  BY <1>2, FitIsObject, Zenon
<1>5. IsOrdered(V, m, names, N, e)
  BY <1>2, OrderedIs, Zenon
<1> HIDE DEF N, e
<1>a. At(t, i, Body(f, b)) /\ readToken(t, i + Len(Body(f, b))) = tokenObjectEnd
  BY Zenon DEF Followed
<1>b. N = 0 => J = <<>>
  BY <1>1, BodyIs, Zenon
<1>6. CASE N = 0
  <2>1. J = <<>>
    BY <1>6, <1>b, Zenon
  <2>2. i + Len(J) = i
    BY <2>1
  <2>3. m = NoMembers
    <3>1. PartOf(m, names, N) = m /\ PartOf(m, names, 0) = NoMembers
      BY <1>2, PartIs, Zenon
    <3> QED
      BY <1>6, <3>1, Zenon
  <2>4. readToken(t, i) = tokenObjectEnd
    BY <1>a, <2>2, Zenon
  <2>5. readObject(t, inner, i) = Ok(i + 1, ObjectOf(m))
    BY <2>3, <2>4, EmptyObjectReadToEnd, Zenon
  <2>6. m \in MapsOver(W)
    BY <2>3, NoMembersIs, Zenon
  <2>7. ObjectOf(m) \in ValuesOver(W)
    BY <2>6, ValuesOverIs, Zenon
  <2> HIDE DEF J
  <2> QED
    BY <2>2, <2>5, <2>7, Zenon DEF AnswersAs, ReadAs, J
<1>7. CASE N # 0
  <2>1. N \in Nat \ {0} /\ 1 \in 1 .. N
    BY <1>1, <1>7
  <2>2. ASSUME NEW n \in 1 .. N PROVE Len(f[n]) >= 1
    <3>1. DOMAIN names = 1 .. N
      BY <1>2 DEF IsOrder
    <3>2. names[n] \in Str /\ m[names[n]] \in V
      BY <1>5, Zenon DEF IsOrdered
    <3>3. PICK a \in runs, u \in texts[m[names[n]]] : f[n] = a \o Member(names[n], u)
      BY <3>1, Zenon DEF AreCommentedMembers
    <3>4. u \in Seq(Token) /\ a \in Seq(Token)
      BY <3>2, RunType, Zenon DEF AreTexts, IsText, AreRuns
    <3> DEFINE M == Member(names[n], u)
    <3>5. M \in Seq(Token) /\ Len(M) = Len(u) + 2 /\ Len(u) \in Nat /\ f[n] = a \o M
      BY <3>2, <3>3, <3>4, MemberType, Zenon
    <3> HIDE DEF M
    <3> QED
      BY <3>4, <3>5
  <2>a. tokenObjectEnd # tokenComment
    BY MarksDiffer, Zenon
  <2>3. PICK s : IsPath(t, i, N, f, s, tokenObjectEnd, i + Len(J))
    BY <1>1, <2>1, <2>2, <2>a, Path, Zenon
  <2>4. s[1] = i /\ s[N + 1] = i + Len(J) + 1 /\ N <= L
    BY <2>1, <2>3, Zenon DEF IsPath
  <2>b. PICK x : IsObjectLoop(t, inner, i, x)
    BY <1>3, ObjectLoop, Zenon
  <2>6. /\ readObject(t, inner, i) = x[L] /\ x[0] = MembersFrom(i)
        /\ \A n \in 1 .. L : x[n] = MemberRound(t, inner, x[n - 1])
    BY <2>b, Zenon DEF IsObjectLoop
  <2> DEFINE After(n) == ObjectAfter(W, m, names, N, s, n)
             S == {n \in 0 .. L : x[n] = After(n)}
  <2>7. 0 \in S
    <3>1. x[0] = ReadingMembers(i, EmptyName, NoMembers)
      BY <2>6, Zenon DEF MembersFrom, ReadingMembers
    <3>2. FitTo(W, Ordered(m, names, N), 0)
      BY DEF FitTo
    <3>3. 0 < N /\ 0 + 1 = 1 /\ 0 \in 0 .. L
      BY <1>3, <2>1
    <3>4. PartOf(m, names, 0) = NoMembers
      BY <1>2, PartIs, Zenon
    <3> QED
      BY <2>4, <3>1, <3>2, <3>3, <3>4, Zenon DEF ObjectAfter
  <2>8. ASSUME NEW n \in 0 .. L - 1, n \in S PROVE n + 1 \in S
    <3>1. n + 1 \in 0 .. L /\ n + 1 \in 1 .. L /\ (n + 1) - 1 = n /\ n \in Nat
      BY <1>3
    <3>2. x[n + 1] = MemberRound(t, inner, x[(n + 1) - 1])
      BY <2>6, <3>1, Zenon
    <3>3. x[n + 1] = MemberRound(t, inner, After(n))
      BY <2>8, <3>1, <3>2, Zenon
    <3>4. MemberRound(t, inner, After(n)) = After(n + 1)
      BY <1>2, <2>3, <3>1, MemberRoundOf
    <3> QED
      BY <3>1, <3>3, <3>4, Zenon
  <2> HIDE DEF S
  <2>9. 0 .. L \subseteq S
    BY <1>3, <2>7, <2>8, InductionUpTo
  <2>10. L \in 0 .. L /\ L >= N /\ ~(L < N)
    BY <1>1, <1>3, <2>4
  <2>11. x[L] = After(L)
    BY <2>9, <2>10, Zenon DEF S
  <2>12. FitTo(W, e, L) <=> ObjectOf(m) \in ValuesOver(W)
    BY <1>3, <1>4, <2>10, Zenon
  <2> HIDE DEF J
  <2> QED
    BY <2>4, <2>6, <2>10, <2>11, <2>12, Zenon DEF AnswersAs, ObjectAfter, ReadAs, J, e
<1> QED
  BY <1>6, <1>7

(* So a text of a value is read to its end.                                *)
LeadRead(t, inner, i, u, k, w) ==
  /\ k \in Nat \ {0} /\ At(t, k, w) /\ k + Len(w) = i + Len(u)
  /\ w[1] \in Str \cup Scalar => readValue(t, inner, i) = Ok(k + 1, ScalarValue(w[1]))
  /\ w[1] = tokenObjectBegin => readValue(t, inner, i) = readObject(t, inner, k + 1)
  /\ w[1] = tokenArrayBegin => readValue(t, inner, i) = readArray(t, inner, k + 1)

LEMMA ReadBehindLead ==
  ASSUME NEW t \in Seq(Token), NEW inner, NEW i \in Nat \ {0}, NEW a \in Seq({tokenComment}),
         NEW w \in Seq(Token), Len(w) >= 1, w[1] \in Str \cup Scalar \cup {tokenObjectBegin, tokenArrayBegin},
         NEW u, u = a \o w, At(t, i, u)
  PROVE  LeadRead(t, inner, i, u, i + Len(a), w)
<1> DEFINE k == i + Len(a)
<1>1. tokenComment \notin Str \cup Scalar
  BY MarksAreNoValues, Zenon
<1>2. w[1] # tokenComment
  BY <1>1, MarksDiffer, Zenon
<1>3. IsLead(t, i, u, k, w)
  BY <1>2, LeadSkipped, Zenon
<1> HIDE DEF k
<1>4. /\ k \in Nat \ {0} /\ At(t, k, w) /\ k + Len(w) = i + Len(u)
      /\ skipCommentTokens(t, i) = k /\ readToken(t, k) = w[1]
  BY <1>3, Zenon DEF IsLead
<1>5. tokenObjectBegin \notin Str \cup Scalar /\ tokenArrayBegin \notin Str \cup Scalar
  BY MarksAreNoValues, Zenon
<1>6. /\ w[1] \in Str \cup Scalar => readValue(t, inner, i) = Ok(k + 1, ScalarValue(w[1]))
      /\ w[1] = tokenObjectBegin => readValue(t, inner, i) = readObject(t, inner, k + 1)
      /\ w[1] = tokenArrayBegin => readValue(t, inner, i) = readArray(t, inner, k + 1)
  BY <1>4, <1>5, MarksDiffer, Zenon DEF readValue
<1> QED
  BY <1>4, <1>6, Zenon DEF LeadRead, k

LEMMA TextReadToEnd ==
  ASSUME NEW t \in Seq(Token), NEW runs, AreRuns(runs), NEW texts, NEW V, AreTexts(texts, V),
         NoMember \notin V, NEW W, NoMember \notin W, NEW inner, ReadsTexts(t, inner, W, texts, V),
         NEW v \in ValuesOver(V), NEW u \in TextsWith(runs, texts, v), NEW i \in Nat \ {0}, At(t, i, u)
  PROVE  AnswersAs(readValue(t, inner, i), W, v, i + Len(u))
<1>1. \A a \in runs : a \in Seq({tokenComment})
  BY Zenon DEF AreRuns
<1>2. CASE \E c \in Str \cup Scalar : v = ScalarValue(c)
  <2>1. PICK c \in Str \cup Scalar : v = ScalarValue(c)
    BY <1>2
  <2>2. PICK a \in runs : u = a \o <<c>>
    <3>1. u \in TextsWith(runs, texts, ScalarValue(c))
      BY <2>1
    <3> QED
      BY <3>1, ScalarTextIs
  <2> DEFINE w == <<c>>
  <2>3. w \in Seq(Token) /\ Len(w) = 1 /\ w[1] = c /\ Len(w) >= 1
    BY DEF Token
  <2> HIDE DEF w
  <2>4. PICK k : LeadRead(t, inner, i, u, k, w)
    BY <1>1, <2>2, <2>3, ReadBehindLead, Zenon DEF w
  <2>5. k + 1 = i + Len(u) /\ readValue(t, inner, i) = Ok(k + 1, ScalarValue(c))
    BY <2>3, <2>4, Zenon DEF LeadRead
  <2>6. v \in ValuesOver(W)
    BY <2>1, ValuesOverIs, Zenon
  <2> QED
    BY <2>1, <2>5, <2>6, Zenon DEF AnswersAs, ReadAs
<1>3. CASE \E e \in Seq(V) : v = ArrayOf(e)
  <2>1. PICK e \in Seq(V) : v = ArrayOf(e)
    BY <1>3
  <2>2. PICK a, b, f : /\ a \in runs /\ b \in runs /\ AreElementTexts(texts, e, f)
                       /\ u = a \o InArray(Body(f, b))
    <3>1. u \in TextsWith(runs, texts, ArrayOf(e))
      BY <2>1
    <3>2. IsArrayText(runs, texts, e, u)
      BY <3>1, ArrayTexts, Zenon
    <3> QED
      BY <3>2, Zenon DEF IsArrayText
  <2>3. f \in [1 .. Len(e) -> Seq(Token)] /\ Len(e) \in Nat /\ b \in Seq({tokenComment})
    BY <1>1, <2>2, LenProperties, Zenon DEF AreElementTexts
  <2> DEFINE J == Body(f, b)
             w == InArray(J)
  <2>4. J \in Seq(Token)
    BY <2>3, BodyIs, Zenon
  <2>5. IsBracketed(w, tokenArrayBegin, J, tokenArrayEnd)
    BY <2>4, InArrayIs, Zenon
  <2> HIDE DEF J, w
  <2>6. w \in Seq(Token) /\ w[1] = tokenArrayBegin /\ Len(J) \in Nat /\ Len(w) = Len(J) + 2
    BY <2>5, Zenon DEF IsBracketed
  <2>a. Len(w) >= 1
    BY <2>6
  <2>b. PICK k : LeadRead(t, inner, i, u, k, w)
    BY <1>1, <2>2, <2>6, <2>a, ReadBehindLead, Zenon DEF w, J
  <2>c. /\ k \in Nat \ {0} /\ At(t, k, w) /\ k + Len(w) = i + Len(u)
        /\ readValue(t, inner, i) = readArray(t, inner, k + 1)
    BY <2>6, <2>b, Zenon DEF LeadRead
  <2>7. Followed(t, k + 1, J, tokenArrayEnd)
    <3>1. /\ At(t, k + 1, J)
          /\ k + 1 + Len(J) <= Len(t) /\ t[k + 1 + Len(J)] = tokenArrayEnd
      BY <2>5, <2>c, Zenon DEF IsBracketed
    <3> QED
      BY <3>1, Zenon DEF readToken, Followed
  <2>8. AnswersAs(readArray(t, inner, k + 1), W, ArrayOf(e), (k + 1) + Len(J) + 1)
    <3> DEFINE j == k + 1
    <3>1. j \in Nat \ {0}
      BY <2>c
    <3>2. Followed(t, j, J, tokenArrayEnd)
      BY <2>7, Zenon
    <3> HIDE DEF j
    <3>3. AnswersAs(readArray(t, inner, j), W, ArrayOf(e), j + Len(J) + 1)
      BY <2>2, <2>3, <3>1, <3>2, ArrayReadToEnd, Zenon DEF J
    <3> QED
      BY <3>3, Zenon DEF j
  <2>9. (k + 1) + Len(J) + 1 = k + Len(w)
    BY <2>6, <2>c
  <2> QED
    BY <2>1, <2>8, <2>9, <2>c, Zenon DEF AnswersAs
<1>4. CASE \E m \in MapsOver(V) : v = ObjectOf(m)
  <2>1. PICK m \in MapsOver(V) : v = ObjectOf(m)
    BY <1>4
  <2>2. PICK a, b, names, f : /\ a \in runs /\ b \in runs /\ names \in SetToSeqs(Names(m))
                              /\ AreCommentedMembers(runs, texts, m, names, f)
                              /\ u = a \o InObject(Body(f, b))
    <3>1. u \in TextsWith(runs, texts, ObjectOf(m))
      BY <2>1
    <3> QED
      BY <3>1, ObjectTextIs
  <2>3. /\ f \in [1 .. Cardinality(Names(m)) -> Seq(Token)] /\ Cardinality(Names(m)) \in Nat
        /\ b \in Seq({tokenComment})
    BY <1>1, <2>2, OrderDomain, Zenon DEF AreCommentedMembers
  <2> DEFINE J == Body(f, b)
             w == InObject(J)
  <2>4. J \in Seq(Token)
    BY <2>3, BodyIs, Zenon
  <2>5. IsBracketed(w, tokenObjectBegin, J, tokenObjectEnd)
    BY <2>4, InObjectIs, Zenon
  <2> HIDE DEF J, w
  <2>6. w \in Seq(Token) /\ w[1] = tokenObjectBegin /\ Len(J) \in Nat /\ Len(w) = Len(J) + 2
    BY <2>5, Zenon DEF IsBracketed
  <2>a. Len(w) >= 1
    BY <2>6
  <2>b. PICK k : LeadRead(t, inner, i, u, k, w)
    BY <1>1, <2>2, <2>6, <2>a, ReadBehindLead, Zenon DEF w, J
  <2>c. /\ k \in Nat \ {0} /\ At(t, k, w) /\ k + Len(w) = i + Len(u)
        /\ readValue(t, inner, i) = readObject(t, inner, k + 1)
    BY <2>6, <2>b, Zenon DEF LeadRead
  <2>7. Followed(t, k + 1, J, tokenObjectEnd)
    <3>1. /\ At(t, k + 1, J)
          /\ k + 1 + Len(J) <= Len(t) /\ t[k + 1 + Len(J)] = tokenObjectEnd
      BY <2>5, <2>c, Zenon DEF IsBracketed
    <3> QED
      BY <3>1, Zenon DEF readToken, Followed
  <2>8. AnswersAs(readObject(t, inner, k + 1), W, ObjectOf(m), (k + 1) + Len(J) + 1)
    <3> DEFINE j == k + 1
    <3>1. j \in Nat \ {0}
      BY <2>c
    <3>2. Followed(t, j, J, tokenObjectEnd)
      BY <2>7, Zenon
    <3> HIDE DEF j
    <3>3. AnswersAs(readObject(t, inner, j), W, ObjectOf(m), j + Len(J) + 1)
      BY <2>2, <2>3, <3>1, <3>2, ObjectReadToEnd, Zenon DEF J
    <3> QED
      BY <3>3, Zenon DEF j
  <2>9. (k + 1) + Len(J) + 1 = k + Len(w)
    BY <2>6, <2>c
  <2> QED
    BY <2>1, <2>8, <2>9, <2>c, Zenon DEF AnswersAs
<1> QED
  BY <1>2, <1>3, <1>4, ValuesOverIs, Zenon

(* With l nodes free on the stack, a text of a value nested d deep.        *)
LEMMA ReaderReadsTexts ==
  ASSUME NEW t \in Seq(Token), NEW runs, AreRuns(runs)
  PROVE  \A l \in 0 .. StackLimit, d \in 0 .. MaxDepth :
           ReadsTexts(t, Reader(t)[l], Value[l], Texts(runs)[d], Value[d])
<1> DEFINE ReadAt(l, d) == ReadsTexts(t, Reader(t)[l], Value[l], Texts(runs)[d], Value[d])
           S == {l \in 0 .. StackLimit : \A d \in 0 .. MaxDepth : ReadAt(l, d)}
<1>a. \A i \in Nat \ {0} : i \in Nat
  OBVIOUS
<1>1. 0 \in S
  <2>1. \A i \in Nat : Reader(t)[0][i] = Throws
    BY ReaderDef, Zenon
  <2>2. 0 \in 0 .. StackLimit
    BY Limits
  <2>3. \A v : v \notin Value[0]
    BY ValueDef
  <2> QED
    BY <1>a, <2>1, <2>2, <2>3, Zenon DEF ReadsTexts, ReadAs
<1>2. ASSUME NEW l \in 0 .. StackLimit - 1, l \in S PROVE l + 1 \in S
  <2>1. l + 1 \in 0 .. StackLimit /\ l + 1 \in 1 .. StackLimit /\ (l + 1) - 1 = l
        /\ l \in 0 .. MaxDepth - 1 /\ l \in 0 .. MaxDepth
    BY Limits
  <2>2. \A i \in Nat : Reader(t)[l + 1][i] = readValue(t, Reader(t)[l], i)
    <3>1. Reader(t)[l + 1] = [i \in Nat |-> readValue(t, Reader(t)[(l + 1) - 1], i)]
      BY <2>1, ReaderDef, Zenon
    <3> QED
      BY <2>1, <3>1, Zenon
  <2>3. Value[l + 1] = ValuesOver(Value[l]) /\ NoMember \notin Value[l]
    BY <2>1, Levels, NoMemberIsNoValue, Zenon
  <2>4. ASSUME NEW d \in 0 .. MaxDepth PROVE ReadAt(l + 1, d)
    <3>1. CASE d = 0
      <4>1. \A v : v \notin Value[d]
        BY <3>1, ValueDef
      <4> QED
        BY <4>1, Zenon DEF ReadsTexts
    <3>2. CASE d # 0
      <4> DEFINE c == d - 1
      <4>1. c \in 0 .. MaxDepth - 1 /\ c + 1 = d
        BY <3>2, Limits
      <4> HIDE DEF c
      <4>2. /\ c \in 0 .. MaxDepth /\ Value[d] = ValuesOver(Value[c])
            /\ \A v \in Value[d] : Texts(runs)[d][v] = TextsWith(runs, Texts(runs)[c], v)
        <5>1. /\ c \in 0 .. MaxDepth /\ Value[c + 1] = ValuesOver(Value[c])
              /\ \A v \in Value[c + 1] : Texts(runs)[c + 1][v] = TextsWith(runs, Texts(runs)[c], v)
          BY <4>1, Levels, Zenon
        <5> QED
          BY <4>1, <5>1
      <4>3. AreTexts(Texts(runs)[c], Value[c]) /\ NoMember \notin Value[c] /\ ReadAt(l, c)
        BY <1>2, <4>2, TextsAreTexts, NoMemberIsNoValue, Zenon
      <4>4. ASSUME NEW v \in Value[d], NEW u \in Texts(runs)[d][v], NEW i \in Nat \ {0}, At(t, i, u)
            PROVE  Reader(t)[l + 1][i] = ReadAs(Value[l + 1], v, i + Len(u))
        <5>1. v \in ValuesOver(Value[c]) /\ u \in TextsWith(runs, Texts(runs)[c], v)
          BY <4>2, <4>4
        <5>2. AnswersAs(readValue(t, Reader(t)[l], i), Value[l], v, i + Len(u))
          BY <2>3, <4>3, <4>4, <5>1, TextReadToEnd, Zenon
        <5> QED
          BY <1>a, <2>2, <2>3, <5>2, Zenon DEF AnswersAs
      <4> QED
        BY <4>4, Zenon DEF ReadsTexts
    <3> QED
      BY <3>1, <3>2
  <2> QED
    BY <2>1, <2>4, Zenon
<1> HIDE DEF S
<1>3. 0 .. StackLimit \subseteq S
  BY <1>1, <1>2, Limits, InductionUpTo
<1> QED
  BY <1>3, Zenon DEF S

-----------------------------------------------------------------------------
(* What parse() is asked, and what its answer was.                         *)
DocumentInv ==
  /\ text.of \in Seq(Token)
  /\ result # NotYet => result = parse(text.of)

LEMMA DocumentIsRead == DocumentSpec => []DocumentInv
<1>1. DocumentGiven => DocumentInv
  <2>1. Documents \subseteq Seq(Token)
    BY TextAssumption
  <2> QED
    BY <2>1 DEF DocumentGiven, Given, DocumentInv
<1>2. DocumentInv /\ [Parse \/ Done]_rvars => DocumentInv'
  BY DEF Parse, Read, Done, rvars, DocumentInv
<1> QED
  BY <1>1, <1>2, PTL DEF DocumentSpec

(* What the value says that was accepted.                                  *)
LEMMA AcceptedHasValue ==
  ASSUME DocumentInv, Accepted
  PROVE  /\ document \in Seq(Token) /\ StackLimit \in 0 .. StackLimit /\ StackLimit \in 0 .. MaxDepth
         /\ \E n \in Nat, v \in Value[StackLimit] :
              result = Ok(n, v) /\ result.value = v /\ Stands(document, Texts(NoComment)[StackLimit], 1, n, v)
<1>1. document \in Seq(Token) /\ result = parse(document) /\ result.verdict = "ok"
  BY Zenon DEF Accepted, WasRead, DocumentInv, document
<1>2. StackLimit \in 0 .. StackLimit /\ StackLimit \in 0 .. MaxDepth /\ 1 \in Nat \ {0}
  BY Limits
<1>3. IsAnswer(document, Texts(NoComment)[StackLimit], Value[StackLimit], 1, result)
  <2>1. AreAnswers(document, Texts(NoComment)[StackLimit], Value[StackLimit], Reader(document)[StackLimit])
    BY <1>1, <1>2, ReaderAnswers, Zenon
  <2> QED
    BY <1>1, <1>2, <2>1, Zenon DEF AreAnswers, parse
<1>4. result # Throws /\ \A n : result # Failed(n)
  BY <1>1, Results, Zenon
<1>5. \A n, v : Ok(n, v).value = v
  BY Results, Zenon
<1> QED
  BY <1>1, <1>2, <1>3, <1>4, <1>5, Zenon DEF IsAnswer

(* A text of a value with which a text begins.                             *)
LEMMA TextRead ==
  ASSUME NEW runs, AreRuns(runs), NEW d \in 0 .. MaxDepth, NEW v \in Value[d], NEW u \in Texts(runs)[d][v],
         NEW t \in Seq(Token), At(t, 1, u)
  PROVE  parse(t) = ReadAs(Value[StackLimit], v, 1 + Len(u))
<1>1. StackLimit \in 0 .. StackLimit /\ 1 \in Nat \ {0}
  BY Limits
<1>2. ReadsTexts(t, Reader(t)[StackLimit], Value[StackLimit], Texts(runs)[d], Value[d])
  BY <1>1, ReaderReadsTexts, Zenon
<1> QED
  BY <1>1, <1>2, Zenon DEF ReadsTexts, parse

LEMMA StandsInItself ==
  ASSUME NEW u \in Seq(Token)
  PROVE  At(u, 1, u) /\ 1 + Len(u) = Len(u) + 1
BY DEF At

(* For every plain text, of any length and with any strings and scalars,   *)
(* and for a stack of any height: if Reader::parse() accepts it, then it   *)
(* begins with a text that the grammar has for the value it was taken for; *)
(* recoverFromError() never makes a value of what is none.                 *)
THEOREM AcceptedTextsAreJson == DocumentSpec => []AcceptedIsJson
<1>1. DocumentInv => AcceptedIsJson
  <2> SUFFICES ASSUME DocumentInv, Accepted, Plain(document)
               PROVE  \E t \in Texts(NoComment)[StackLimit][result.value] : IsPrefix(t, document)
    BY Zenon DEF AcceptedIsJson
  <2>1. PICK n \in Nat, v \in Value[StackLimit] :
          result = Ok(n, v) /\ result.value = v /\ Stands(document, Texts(NoComment)[StackLimit], 1, n, v)
    BY AcceptedHasValue, Zenon
  <2>2. PICK u \in Texts(NoComment)[StackLimit][v] : At(document, 1, u)
    BY <2>1, Zenon DEF Stands
  <2>3. document \in Seq(Token) /\ u \in Seq(Token)
    BY AcceptedHasValue, TextsAreTexts, RunsGiven, Zenon DEF AreTexts, IsText
  <2>4. IsPrefix(u, document)
    <3> DEFINE D == document
    <3>1. D \in Seq(Token) /\ At(D, 1, u)
      BY <2>2, <2>3, Zenon
    <3> HIDE DEF D
    <3>2. Len(u) \in Nat /\ Len(D) \in Nat /\ Len(u) <= Len(D)
      BY <2>3, <3>1 DEF At
    <3>3. \A q \in 1 .. Len(u) : D[q] = u[q]
      <4>1. \A q \in 1 .. Len(u) : D[1 + q - 1] = u[q]
        BY <3>1, Zenon DEF At
      <4>2. \A q \in 1 .. Len(u) : 1 + q - 1 = q
        BY <3>2
      <4> QED
        BY <4>1, <4>2
    <3>4. SubSeq(u, 1, Len(u)) = SubSeq(D, 1, Len(u))
      BY <2>3, <3>1, <3>2, <3>3
    <3> QED
      BY <3>2, <3>4, Zenon DEF IsPrefix, D
  <2> QED
    BY <2>1, <2>2, <2>4, Zenon
<1> QED
  BY <1>1, DocumentIsRead, PTL

(* For every JSON text of every value, Reader::parse() gives that value    *)
(* and stands behind the text; only if the value is nested more deeply     *)
(* than stackLimit_g allows does it throw, and then it does.               *)
THEOREM JsonTextsAreAccepted == DocumentSpec => []JsonIsAccepted
<1>1. DocumentInv => JsonIsAccepted
  <2> SUFFICES ASSUME DocumentInv, WasRead("document"), NEW v \in Values, document \in TextsOf[v]
               PROVE  result = IF v \in Value[StackLimit] THEN Ok(Len(document) + 1, v) ELSE Throws
    BY Zenon DEF JsonIsAccepted
  <2>1. MaxDepth \in 0 .. MaxDepth
    BY Limits
  <2>2. v \in Value[MaxDepth]
    BY TextAssumption
  <2>3. document \in Texts(CommentRuns)[MaxDepth][v]
    BY Zenon DEF TextsOf
  <2>4. result = parse(document)
    BY Zenon DEF DocumentInv, WasRead, document
  <2>5. document \in Seq(Token)
    BY Zenon DEF DocumentInv, document
  <2> DEFINE D == document
  <2>6. At(D, 1, D) /\ 1 + Len(D) = Len(D) + 1
    BY <2>5, StandsInItself, Zenon
  <2> HIDE DEF D
  <2>7. parse(D) = ReadAs(Value[StackLimit], v, 1 + Len(D))
    BY <2>1, <2>2, <2>3, <2>5, <2>6, TextRead, RunsGiven, Zenon DEF D
  <2> QED
    BY <2>4, <2>6, <2>7, Zenon DEF ReadAs, D
<1> QED
  BY <1>1, DocumentIsRead, PTL

LEMMA StyledIs ==
  ASSUME NEW runs, NEW v, NEW t \in toStyledString(runs, v)
  PROVE  \E u \in Commented(runs, writeValue(runs)[StackLimit][v]), after \in runs : t = u \o after
BY DEF toStyledString

(* For every text that Reader::parse() accepts, plain or not: what the     *)
(* writer makes of the value, whichever comments of the text it writes     *)
(* with it and wherever, is read again as the same value, and only com-    *)
(* ments follow.  So the addressee of a relayed message reads what the     *)
(* server read.                                                            *)
THEOREM RelayedTextsReadTheSame == DocumentSpec => []RelayedReadsTheSame
<1>1. DocumentInv => RelayedReadsTheSame
  <2> DEFINE runs == CommentsOf(document)
             v    == result.value
  <2> SUFFICES ASSUME DocumentInv, Accepted, NEW t \in toStyledString(runs, v)
               PROVE  /\ parse(t).verdict = "ok" /\ parse(t).value = v
                      /\ skipCommentTokens(t, parse(t).next) = Len(t) + 1
    BY Zenon DEF RelayedReadsTheSame
  <2>1. StackLimit \in 0 .. MaxDepth /\ v \in Value[StackLimit]
    BY AcceptedHasValue, Zenon
  <2>2. AreRuns(runs)
    BY RunsGiven, Zenon
  <2> HIDE DEF runs, v
  <2>3. PICK u \in Commented(runs, writeValue(runs)[StackLimit][v]), after \in runs : t = u \o after
    BY StyledIs
  <2> DEFINE n == 1 + Len(u)
  <2>4. u \in Texts(runs)[StackLimit][v]
    <3>1. AreWritten(runs, writeValue(runs)[StackLimit], Texts(runs)[StackLimit], Value[StackLimit])
      BY <2>1, <2>2, WrittenIsText, Zenon
    <3> QED
      BY <2>1, <2>3, <3>1, Zenon DEF AreWritten
  <2>5. after \in Seq(Token) /\ after \in Seq({tokenComment}) /\ Len(after) \in Nat
    BY <2>2, RunType, Zenon DEF AreRuns
  <2>6. u \in Seq(Token)
    BY <2>1, <2>2, <2>4, TextsAreTexts, Zenon DEF AreTexts, IsText
  <2>7. t \in Seq(Token) /\ Len(t) = Len(u) + Len(after) /\ Len(u) \in Nat
    BY <2>3, <2>5, <2>6
  <2>8. At(t, 1, u) /\ At(t, n, after)
    <3>1. At(t, 1, u \o after)
      BY <2>3, <2>7, StandsInItself, Zenon
    <3>2. 1 \in Nat \ {0}
      OBVIOUS
    <3> QED
      BY <2>5, <2>6, <2>7, <3>1, <3>2, AtConcat, Zenon
  <2>9. parse(t) = Ok(n, v)
    <3>1. parse(t) = ReadAs(Value[StackLimit], v, n)
      BY <2>1, <2>2, <2>4, <2>7, <2>8, TextRead, Zenon
    <3> QED
      BY <2>1, <3>1, Zenon DEF ReadAs
  <2>10. n \in Nat \ {0} /\ n + Len(after) = Len(t) + 1
    BY <2>5, <2>7
  <2> HIDE DEF n
  <2>11. readToken(t, n + Len(after)) # tokenComment
    <3>1. Len(t) + 1 \in Nat \ {0} /\ Len(t) + 1 > Len(t)
      BY <2>7
    <3>2. readToken(t, Len(t) + 1) = tokenEndOfStream
      BY <2>7, <3>1, ReadTokenType, Zenon
    <3>3. tokenEndOfStream # tokenComment
      BY MarksDiffer, Zenon
    <3> QED
      BY <2>10, <3>2, <3>3, Zenon
  <2>12. skipCommentTokens(t, n) = Len(t) + 1
    BY <2>5, <2>7, <2>8, <2>10, <2>11, RunSkipped, Zenon
  <2> QED
    BY <2>9, <2>12, Results
<1> QED
  BY <1>1, DocumentIsRead, PTL
=============================================================================
