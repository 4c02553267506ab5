--------------------------- MODULE ReadersProofs ---------------------------
(***************************************************************************)
(* Proofs about the readers of the program.                                *)
(***************************************************************************)
EXTENDS IceServer, JsonNumber, JsonString, SequenceTheorems, WellFoundedInduction, TLAPS

-----------------------------------------------------------------------------
(* A non-empty set of naturals has a least element.                        *)
NatLess == OpToRel(<, Nat)

LEMMA LeastNatural ==
  ASSUME NEW S \in SUBSET Nat, S # {}
  PROVE  \E x \in S : \A y \in S : x <= y
<1>1. IsWellFoundedOn(NatLess, Nat)
  BY NatLessThanWellFounded, Zenon DEF NatLess
<1>2. PICK x \in S : \A y \in S : <<y, x>> \notin NatLess
  BY <1>1, WFMin
<1>3. \A y \in S : ~(y < x)
  BY <1>2 DEF NatLess, OpToRel
<1> QED
  BY <1>3

(* Induction up to n, over the set of the numbers for which it is known.   *)
LEMMA InductionUpTo ==
  ASSUME NEW N \in Nat, NEW S, 0 \in S, \A n \in 0 .. N - 1 : n \in S => n + 1 \in S
  PROVE  0 .. N \subseteq S
<1> DEFINE Rest == (0 .. N) \ S
<1> SUFFICES ASSUME Rest # {} PROVE FALSE
  OBVIOUS
<1>1. Rest \in SUBSET Nat
  OBVIOUS
<1>2. PICK x \in Rest : \A y \in Rest : x <= y
  BY <1>1, LeastNatural
<1>3. x - 1 \in 0 .. N - 1 /\ x - 1 \notin Rest
  BY <1>2
<1>4. (x - 1) + 1 \in S
  BY <1>3
<1> QED
  BY <1>2, <1>4

(* A loop that is written as a recursive function has its result: there is *)
(* a function whose values follow one another by the step of the loop.     *)
IsLoop(S, N, step) == step \in [1 .. N -> [S -> S]]

IsRun(f, S, c, N, step) ==
  f \in [0 .. N -> S] /\ f[0] = c /\ \A i \in 1 .. N : f[i] = step[i][f[i - 1]]

LEMMA LoopRuns ==
  ASSUME NEW S, NEW c \in S, NEW N \in Nat, NEW step, IsLoop(S, N, step)
  PROVE  \E f : IsRun(f, S, c, N, step)
<1> DEFINE Runs(m) == {f \in [0 .. m -> S] :
                         f[0] = c /\ \A i \in 1 .. m : f[i] = step[i][f[i - 1]]}
           M == {m \in 0 .. N : Runs(m) # {}}
<1>0. step \in [1 .. N -> [S -> S]]
  BY DEF IsLoop
<1>1. 0 \in M
  <2>1. [i \in 0 .. 0 |-> c] \in Runs(0)
    OBVIOUS
  <2> QED
    BY <2>1
<1>2. ASSUME NEW n \in 0 .. N - 1, n \in M PROVE n + 1 \in M
  <2>1. PICK f \in Runs(n) : TRUE
    BY <1>2
  <2> DEFINE g == [i \in 0 .. n + 1 |-> IF i = n + 1 THEN step[n + 1][f[n]] ELSE f[i]]
  <2>2. f \in [0 .. n -> S] /\ f[0] = c /\ \A i \in 1 .. n : f[i] = step[i][f[i - 1]]
    BY <2>1
  <2>3. step[n + 1][f[n]] \in S
    BY <1>0, <2>2
  <2>4. g \in [0 .. n + 1 -> S] /\ g[0] = c
    BY <2>2, <2>3
  <2>5. ASSUME NEW i \in 1 .. n + 1 PROVE g[i] = step[i][g[i - 1]]
    <3>1. i - 1 \in 0 .. n /\ g[i - 1] = f[i - 1]
      OBVIOUS
    <3>2. CASE i = n + 1
      BY <3>1, <3>2
    <3>3. CASE i # n + 1
      <4>1. i \in 1 .. n /\ g[i] = f[i]
        BY <3>3
      <4> QED
        BY <2>2, <3>1, <4>1
    <3> QED
      BY <3>2, <3>3
  <2> HIDE DEF g
  <2>6. g \in Runs(n + 1)
    BY <2>4, <2>5
  <2> HIDE DEF Runs
  <2> QED
    BY <2>6
<1> HIDE DEF M
<1>3. 0 .. N \subseteq M
  BY <1>1, <1>2, InductionUpTo
<1>4. N \in M
  BY <1>3
<1> QED
  BY <1>4 DEF M, IsRun

(* A loop that makes progress until it halts, and then stays as it is.     *)
Halts(S, N, turn, halted, progress) ==
  /\ turn \in [S -> S] /\ halted \subseteq S /\ progress \in [S -> 0 .. N]
  /\ \A x \in S : /\ x \in halted => turn[x] = x
                  /\ x \notin halted => turn[x] \in halted \/ progress[turn[x]] > progress[x]
                  /\ progress[x] = N => x \in halted

Follows(f, S, c, K, turn) ==
  f \in [0 .. K -> S] /\ f[0] = c /\ \A i \in 1 .. K : f[i] = turn[f[i - 1]]

(* It has halted after N turns.                                            *)
LEMMA HaltingLoop ==
  ASSUME NEW S, NEW c \in S, NEW N \in Nat, NEW K \in Nat, N <= K,
         NEW turn, NEW halted, NEW progress, Halts(S, N, turn, halted, progress)
  PROVE  \E f : Follows(f, S, c, K, turn) /\ f[K] = f[N] /\ f[K] \in halted
<1> DEFINE step == [i \in 1 .. K |-> turn]
<1>1. turn \in [S -> S] /\ halted \subseteq S /\ progress \in [S -> 0 .. N]
  BY DEF Halts
<1>2. /\ \A x \in halted : turn[x] = x
      /\ \A x \in S \ halted : turn[x] \in halted \/ progress[turn[x]] > progress[x]
      /\ \A x \in S : progress[x] = N => x \in halted
  BY DEF Halts
<1>3. IsLoop(S, K, step)
  BY <1>1 DEF IsLoop
<1>4. \A i \in 1 .. K : step[i] = turn
  OBVIOUS
<1> HIDE DEF step
<1>5. PICK f : IsRun(f, S, c, K, step)
  BY <1>3, LoopRuns, Zenon
<1>6. f \in [0 .. K -> S] /\ f[0] = c
  BY <1>5 DEF IsRun
<1>7. ASSUME NEW i \in 1 .. K PROVE f[i] = turn[f[i - 1]]
  BY <1>4, <1>5 DEF IsRun
<1>8. f[N] \in halted
  <2> DEFINE I == {n \in 0 .. N : f[n] \in halted \/ progress[f[n]] >= n}
  <2>1. 0 \in I
    BY <1>1, <1>6
  <2>2. ASSUME NEW n \in 0 .. N - 1, n \in I PROVE n + 1 \in I
    <3> DEFINE x == f[n]
               y == f[n + 1]
    <3>1. n + 1 \in 1 .. K /\ n \in 0 .. K /\ n + 1 \in 0 .. K /\ (n + 1) - 1 = n
      OBVIOUS
    <3>2. x \in S /\ y \in S /\ y = turn[x]
      BY <1>6, <1>7, <3>1
    <3>3. x \in halted \/ progress[x] >= n
      BY <2>2
    <3>4. progress[x] \in Nat /\ progress[y] \in Nat
      BY <1>1, <3>2
    <3> HIDE DEF x, y
    <3>5. CASE x \in halted
      <4>1. y \in halted
        BY <1>2, <3>2, <3>5, Zenon
      <4> QED
        BY <4>1 DEF y
    <3>6. CASE x \notin halted
      <4>1. y \in halted \/ progress[y] > progress[x]
        BY <1>2, <3>2, <3>6, Zenon
      <4>2. y \in halted \/ progress[y] >= n + 1
        BY <3>3, <3>4, <3>6, <4>1
      <4> QED
        BY <4>2 DEF y
    <3> QED
      BY <3>5, <3>6
  <2> HIDE DEF I
  <2>3. 0 .. N \subseteq I
    BY <2>1, <2>2, InductionUpTo
  <2>4. f[N] \in halted \/ progress[f[N]] >= N
    BY <2>3 DEF I
  <2>5. f[N] \in S /\ progress[f[N]] \in 0 .. N
    BY <1>1, <1>6
  <2> QED
    BY <1>2, <2>4, <2>5
<1>9. f[K] = f[N]
  <2> DEFINE M == K - N
             I == {n \in 0 .. M : f[N + n] = f[N]}
  <2>1. M \in Nat /\ 0 \in I
    OBVIOUS
  <2>2. ASSUME NEW n \in 0 .. M - 1, n \in I PROVE n + 1 \in I
    <3>1. N + (n + 1) \in 1 .. K /\ N + (n + 1) - 1 = N + n /\ n + 1 \in 0 .. M
      OBVIOUS
    <3>2. f[N + (n + 1)] = turn[f[N + n]] /\ f[N + n] = f[N]
      BY <1>7, <2>2, <3>1
    <3>3. turn[f[N]] = f[N]
      BY <1>2, <1>8
    <3> QED
      BY <3>1, <3>2, <3>3
  <2> HIDE DEF I
  <2>3. 0 .. M \subseteq I
    BY <2>1, <2>2, InductionUpTo
  <2>4. M \in 0 .. M /\ N + M = K
    OBVIOUS
  <2> QED
    BY <2>3, <2>4 DEF I
<1>10. Follows(f, S, c, K, turn)
  BY <1>6, <1>7 DEF Follows
<1> QED
  BY <1>8, <1>9, <1>10

-----------------------------------------------------------------------------
(* The ICE string.                                                         *)

(* std::string::find returns the place of the first such character.        *)
LEMMA FindFirst ==
  ASSUME NEW S, NEW s \in Seq(S), NEW c, NEW p \in 1 .. Len(s),
         s[p] = c, \A q \in 1 .. p - 1 : s[q] # c
  PROVE  find(s, c) = p - 1
<1> DEFINE I == {i \in 1 .. Len(s) : s[i] = c}
<1>0. Len(s) \in Nat
  BY LenProperties
<1>1. p \in I /\ \A q \in I : p <= q
  BY <1>0
<1>2. Min(I) = p
  <2>1. Min(I) \in I /\ \A q \in I : Min(I) <= q
    BY <1>1 DEF Min
  <2> QED
    BY <1>0, <1>1, <2>1
<1>3. find(s, c) = (IF I # {} THEN Min(I) ELSE 0) - 1
  BY DEF find, SelectInSeq
<1> QED
  BY <1>1, <1>2, <1>3

LEMMA SubstrInside ==
  ASSUME NEW S, NEW s \in Seq(S), NEW pos \in Nat, NEW n \in Nat, pos + n <= Len(s)
  PROVE  substr(s, pos, n) = SubSeq(s, pos + 1, pos + n)
<1>1. Len(s) \in Nat
  BY LenProperties
<1> QED
  BY <1>1 DEF substr

(* A part of the tail of a string is a part of the string.                 *)
LEMMA SubSeqOfTail ==
  ASSUME NEW S, NEW s \in Seq(S), NEW i \in 1 .. Len(s),
         NEW a \in Nat \ {0}, NEW b \in Int, b <= Len(s) - i + 1
  PROVE  SubSeq(SubSeq(s, i, Len(s)), a, b) = SubSeq(s, i + a - 1, i + b - 1)
<1> DEFINE tail == SubSeq(s, i, Len(s))
           l == SubSeq(tail, a, b)
           r == SubSeq(s, i + a - 1, i + b - 1)
<1>0. Len(s) \in Nat
  BY LenProperties
<1>1. \A q \in i .. Len(s) : s[q] \in S
  BY <1>0, ElementOfSeq
<1>2. /\ tail \in Seq(S) /\ Len(tail) = Len(s) - i + 1
      /\ \A q \in 1 .. Len(s) - i + 1 : tail[q] = s[i + q - 1]
  BY <1>0, <1>1, SubSeqProperties
<1> HIDE DEF tail
<1>3. \A q \in a .. b : tail[q] \in S /\ tail[q] = s[i + q - 1]
  BY <1>0, <1>2, ElementOfSeq
<1>4. /\ l \in Seq(S) /\ Len(l) = IF a <= b THEN b - a + 1 ELSE 0
      /\ \A q \in 1 .. b - a + 1 : l[q] = tail[a + q - 1]
  BY <1>3, SubSeqProperties
<1>5. \A q \in i + a - 1 .. i + b - 1 : s[q] \in S
  BY <1>0, <1>1
<1>6. /\ r \in Seq(S)
      /\ Len(r) = IF i + a - 1 <= i + b - 1 THEN (i + b - 1) - (i + a - 1) + 1 ELSE 0
      /\ \A q \in 1 .. (i + b - 1) - (i + a - 1) + 1 : r[q] = s[(i + a - 1) + q - 1]
  <2>1. i + a - 1 \in Int /\ i + b - 1 \in Int
    BY <1>0
  <2> QED
    BY <1>5, <2>1, SubSeqProperties
<1> HIDE DEF l, r
<1>7. Len(l) = Len(r)
  BY <1>0, <1>4, <1>6
<1>8. \A q \in 1 .. Len(l) : l[q] = r[q]
  <2> SUFFICES ASSUME NEW q \in 1 .. Len(l) PROVE l[q] = r[q]
    OBVIOUS
  <2>1. q \in 1 .. b - a + 1 /\ q \in 1 .. (i + b - 1) - (i + a - 1) + 1
    BY <1>0, <1>4
  <2>2. a + q - 1 \in a .. b /\ i + (a + q - 1) - 1 = (i + a - 1) + q - 1
    BY <1>0, <2>1
  <2> QED
    BY <1>3, <1>4, <1>6, <2>1, <2>2
<1>9. l = r
  BY <1>4, <1>6, <1>7, <1>8, SeqEqual
<1> QED
  BY <1>9 DEF l, r, tail

(* The characters between two places of a string.                          *)
LEMMA NotBetween ==
  ASSUME NEW S, NEW s \in Seq(S), NEW a \in 1 .. Len(s), NEW b \in Nat, b <= Len(s),
         NEW separators, Without(SubSeq(s, a, b), separators)
  PROVE  \A q \in a .. b : s[q] \notin separators
<1>0. Len(s) \in Nat
  BY LenProperties
<1>1. \A q \in a .. b : s[q] \in S
  BY <1>0, ElementOfSeq
<1>2. /\ SubSeq(s, a, b) \in Seq(S)
      /\ Len(SubSeq(s, a, b)) = IF a <= b THEN b - a + 1 ELSE 0
      /\ \A q \in 1 .. b - a + 1 : SubSeq(s, a, b)[q] = s[a + q - 1]
  BY <1>0, <1>1, SubSeqProperties
<1> SUFFICES ASSUME NEW q \in a .. b PROVE s[q] \notin separators
  OBVIOUS
<1>3. /\ q - a + 1 \in 1 .. b - a + 1 /\ a + (q - a + 1) - 1 = q
      /\ q - a + 1 \in 1 .. Len(SubSeq(s, a, b))
  BY <1>0, <1>2
<1>4. DOMAIN SubSeq(s, a, b) = 1 .. Len(SubSeq(s, a, b))
  BY <1>2, LenProperties
<1>5. s[q] \in Range(SubSeq(s, a, b))
  BY <1>2, <1>3, <1>4 DEF Range
<1> QED
  BY <1>5 DEF Without

LEMMA SeparatorsDiffer ==
  /\ Space # OpenBracket /\ Space # Colon /\ Space # CloseBracket
  /\ OpenBracket # Colon /\ OpenBracket # CloseBracket /\ Colon # CloseBracket
BY Zenon DEF Space, OpenBracket, Colon, CloseBracket

(* main() takes a well-formed string apart at its separators.              *)
LEMMA ParsedAtSeparators ==
  ASSUME NEW s \in Seq(Char), NEW i \in 1 .. Len(s), NEW j \in 1 .. Len(s), NEW k \in 1 .. Len(s),
         i + 1 < j, j < k, s[i] = Space, s[i + 1] = OpenBracket, s[j] = Colon, s[k] = CloseBracket,
         \A q \in 1 .. i - 1 : s[q] # Space,
         \A q \in i + 2 .. j - 1 : s[q] \notin {Colon, CloseBracket},
         \A q \in j + 1 .. k - 1 : s[q] # CloseBracket
  PROVE  parseIce(s) = [uri |-> SubSeq(s, 1, i - 1), username |-> SubSeq(s, i + 2, j - 1),
                        password |-> SubSeq(s, j + 1, k - 1)]
<1> DEFINE rest == SubSeq(s, i, Len(s))
           ef == find(s, Space)
           i1 == find(rest, OpenBracket)
           i2 == find(rest, CloseBracket)
           i3 == find(rest, Colon)
<1>0. Len(s) \in Nat
  BY LenProperties
<1>1. ef = i - 1
  BY FindFirst
<1>2. substr(s, ef, npos) = rest
  BY <1>0, <1>1 DEF substr, npos
<1>3. /\ rest \in Seq(Char) /\ Len(rest) = Len(s) - i + 1
      /\ \A q \in 1 .. Len(s) - i + 1 : rest[q] = s[i + q - 1]
  <2>1. \A q \in i .. Len(s) : s[q] \in Char
    BY <1>0, ElementOfSeq
  <2> QED
    BY <1>0, <2>1, SubSeqProperties
<1> HIDE DEF rest
<1>31. rest \in Seq(Char)
  BY <1>3
<1>4. rest[1] = Space /\ rest[2] = OpenBracket
  <2>1. 1 \in 1 .. Len(s) - i + 1 /\ 2 \in 1 .. Len(s) - i + 1
    BY <1>0
  <2>2. rest[1] = s[i + 1 - 1] /\ rest[2] = s[i + 2 - 1]
    BY <1>3, <2>1, Zenon
  <2>3. i + 1 - 1 = i /\ i + 2 - 1 = i + 1
    BY <1>0
  <2> QED
    BY <2>2, <2>3
<1>5. i1 = 1
  <2> DEFINE p == 2
  <2>1. p \in 1 .. Len(rest) /\ rest[p] = OpenBracket
    BY <1>0, <1>3, <1>4
  <2>2. \A q \in 1 .. p - 1 : rest[q] # OpenBracket
    BY <1>4, SeparatorsDiffer
  <2>3. find(rest, OpenBracket) = p - 1
    <3> HIDE DEF p
    <3> QED
      BY <1>31, <2>1, <2>2, FindFirst
  <2> QED
    BY <2>3
<1>6. i3 = j - i
  <2> DEFINE p == j - i + 1
  <2>1. p \in 1 .. Len(rest) /\ rest[p] = Colon
    <3>1. p \in 1 .. Len(s) - i + 1 /\ i + p - 1 = j
      BY <1>0
    <3> QED
      BY <1>3, <3>1
  <2>2. ASSUME NEW q \in 1 .. p - 1 PROVE rest[q] # Colon
    <3>0. q \in 1 .. Len(s) - i + 1
      BY <1>0
    <3>1. rest[q] = s[i + q - 1] /\ (q \in {1, 2} \/ i + q - 1 \in i + 2 .. j - 1)
      BY <1>0, <1>3, <3>0
    <3> QED
      BY <1>4, <3>1, SeparatorsDiffer
  <2>3. find(rest, Colon) = p - 1
    <3> HIDE DEF p
    <3> QED
      BY <1>31, <2>1, <2>2, FindFirst
  <2> QED
    BY <1>0, <2>3
<1>7. i2 = k - i
  <2> DEFINE p == k - i + 1
  <2>1. p \in 1 .. Len(rest) /\ rest[p] = CloseBracket
    <3>1. p \in 1 .. Len(s) - i + 1 /\ i + p - 1 = k
      BY <1>0
    <3> QED
      BY <1>3, <3>1
  <2>2. ASSUME NEW q \in 1 .. p - 1 PROVE rest[q] # CloseBracket
    <3>0. q \in 1 .. Len(s) - i + 1
      BY <1>0
    <3>1. /\ rest[q] = s[i + q - 1]
          /\ \/ q \in {1, 2} \/ i + q - 1 \in i + 2 .. j - 1
             \/ i + q - 1 = j \/ i + q - 1 \in j + 1 .. k - 1
      BY <1>0, <1>3, <3>0
    <3> QED
      BY <1>4, <3>1, SeparatorsDiffer
  <2>3. find(rest, CloseBracket) = p - 1
    <3> HIDE DEF p
    <3> QED
      BY <1>31, <2>1, <2>2, FindFirst
  <2> QED
    BY <1>0, <2>3
<1>8. substr(s, 0, ef) = SubSeq(s, 1, i - 1)
  BY <1>0, <1>1 DEF substr
<1>9. substr(rest, i1 + 1, i3 - i1 - 1) = SubSeq(s, i + 2, j - 1)
  <2>1. substr(rest, i1 + 1, i3 - i1 - 1) = SubSeq(rest, 3, j - i)
    <3>1. i1 + 1 = 2 /\ i3 - i1 - 1 = j - i - 2 /\ 2 + 1 = 3 /\ 2 + (j - i - 2) = j - i
      BY <1>0, <1>5, <1>6
    <3>2. j - i - 2 \in Nat /\ 2 + (j - i - 2) <= Len(rest)
      BY <1>0, <1>3
    <3> QED
      BY <1>3, <3>1, <3>2, SubstrInside
  <2>2. SubSeq(rest, 3, j - i) = SubSeq(s, i + 3 - 1, i + (j - i) - 1)
    BY <1>0, SubSeqOfTail DEF rest
  <2>3. i + 3 - 1 = i + 2 /\ i + (j - i) - 1 = j - 1
    BY <1>0
  <2> QED
    BY <2>1, <2>2, <2>3
<1>10. substr(rest, i3 + 1, i2 - i3 - 1) = SubSeq(s, j + 1, k - 1)
  <2>1. substr(rest, i3 + 1, i2 - i3 - 1) = SubSeq(rest, j - i + 2, k - i)
    <3>1. /\ i3 + 1 = j - i + 1 /\ i2 - i3 - 1 = k - j - 1
          /\ (j - i + 1) + 1 = j - i + 2 /\ (j - i + 1) + (k - j - 1) = k - i
      BY <1>0, <1>6, <1>7
    <3>2. j - i + 1 \in Nat /\ k - j - 1 \in Nat /\ (j - i + 1) + (k - j - 1) <= Len(rest)
      BY <1>0, <1>3
    <3> QED
      BY <1>3, <3>1, <3>2, SubstrInside
  <2>2. SubSeq(rest, j - i + 2, k - i) = SubSeq(s, i + (j - i + 2) - 1, i + (k - i) - 1)
    BY <1>0, SubSeqOfTail DEF rest
  <2>3. i + (j - i + 2) - 1 = j + 1 /\ i + (k - i) - 1 = k - 1
    BY <1>0
  <2> QED
    BY <2>1, <2>2, <2>3
<1>11. ef # npos /\ npos \notin {i1, i2, i3}
  BY <1>0, <1>1, <1>5, <1>6, <1>7 DEF npos
<1> HIDE DEF ef, i1, i2, i3
<1> QED
  BY <1>2, <1>8, <1>9, <1>10, <1>11 DEF parseIce, Credentials, ef, i1, i2, i3

(* For every string of the form that the comment in main() shows, of any   *)
(* length and over any characters, g_ice_server gets the three parts its   *)
(* author meant: neither a colon in the password nor an opening bracket in *)
(* the username moves a border.                                            *)
THEOREM IceIsParsed == ISpec => []WellFormedIsParsed
<1> DEFINE Inv ==
      /\ text.kind = "ice" /\ text.of \in Seq(Char)
      /\ result # NotYet => result = parseIce(text.of)
<1>1. IceGiven => Inv
  <2>1. \A s \in IceString : s \in Seq(Char)
    BY DEF IceString, BoundedSeq, SeqOf
  <2> QED
    BY <2>1 DEF IceGiven, Given
<1>2. Inv /\ [ParseIce \/ Done]_rvars => Inv'
  BY DEF ParseIce, Read, Done, rvars
<1>3. Inv => WellFormedIsParsed
  <2> DEFINE s == ice_server
  <2> SUFFICES ASSUME Inv, WasRead("ice"),
                      NEW i \in 1 .. Len(s), NEW j \in 1 .. Len(s), NEW k \in 1 .. Len(s),
                      i + 1 < j, j < k, SubSeq(s, i, i + 1) = <<Space, OpenBracket>>,
                      s[j] = Colon, s[k] = CloseBracket,
                      Without(SubSeq(s, 1, i - 1), {Space}),
                      Without(SubSeq(s, i + 2, j - 1), {Colon, CloseBracket}),
                      Without(SubSeq(s, j + 1, k - 1), {CloseBracket})
               PROVE  result = [uri |-> SubSeq(s, 1, i - 1), username |-> SubSeq(s, i + 2, j - 1),
                                password |-> SubSeq(s, j + 1, k - 1)]
    BY DEF WellFormedIsParsed
  <2>0. s \in Seq(Char) /\ Len(s) \in Nat /\ result = parseIce(s)
    BY LenProperties DEF ice_server, WasRead
  <2> HIDE DEF s, Inv
  <2>1. s[i] = Space /\ s[i + 1] = OpenBracket
    <3>1. \A q \in i .. i + 1 : s[q] \in Char
      BY <2>0, ElementOfSeq
    <3>2. i \in Int /\ i + 1 \in Int
      BY <2>0
    <3>3. \A q \in 1 .. (i + 1) - i + 1 : SubSeq(s, i, i + 1)[q] = s[i + q - 1]
      BY <3>1, <3>2, SubSeqProperties
    <3>4. SubSeq(s, i, i + 1)[1] = s[i] /\ SubSeq(s, i, i + 1)[2] = s[i + 1]
      <4>1. 1 \in 1 .. (i + 1) - i + 1 /\ 2 \in 1 .. (i + 1) - i + 1
        BY <3>2
      <4>2. i + 1 - 1 = i /\ i + 2 - 1 = i + 1
        BY <3>2
      <4> QED
        BY <3>3, <4>1, <4>2
    <3>5. <<Space, OpenBracket>>[1] = Space /\ <<Space, OpenBracket>>[2] = OpenBracket
      OBVIOUS
    <3> QED
      BY <3>4, <3>5
  <2>2. \A q \in 1 .. i - 1 : s[q] # Space
    <3>1. 1 \in 1 .. Len(s) /\ i - 1 \in Nat /\ i - 1 <= Len(s)
      BY <2>0
    <3> QED
      BY <2>0, <3>1, NotBetween
  <2>3. \A q \in i + 2 .. j - 1 : s[q] \notin {Colon, CloseBracket}
    <3>1. i + 2 \in 1 .. Len(s) /\ j - 1 \in Nat /\ j - 1 <= Len(s)
      BY <2>0
    <3> QED
      BY <2>0, <3>1, NotBetween
  <2>4. \A q \in j + 1 .. k - 1 : s[q] # CloseBracket
    <3>1. j + 1 \in 1 .. Len(s) /\ k - 1 \in Nat /\ k - 1 <= Len(s)
      BY <2>0
    <3> QED
      BY <2>0, <3>1, NotBetween
  <2> QED
    BY <2>0, <2>1, <2>2, <2>3, <2>4, ParsedAtSeparators
<1> QED
  BY <1>1, <1>2, <1>3, PTL DEF ISpec

-----------------------------------------------------------------------------
(* Numbers.                                                                *)

LEMMA OneMoreDigit ==
  ASSUME NEW x \in Nat, NEW digit \in 0 .. 9
  PROVE  10 * x \in Nat /\ 10 * x + digit \in Nat /\ x <= 10 * x + digit /\ 10 * x <= 10 * x + digit
OBVIOUS

(* What the digits up to the n-th denote.                                  *)
LEMMA MagnitudeDef ==
  ASSUME NEW digits \in Seq(0 .. 9)
  PROVE  \E d \in [0 .. Len(digits) -> Nat] :
           /\ Magnitude(digits) = d[Len(digits)] /\ d[0] = 0
           /\ \A n \in 1 .. Len(digits) : d[n] = 10 * d[n - 1] + digits[n]
<1> DEFINE N == Len(digits)
           step == [i \in 1 .. N |-> [x \in Nat |-> 10 * x + digits[i]]]
<1>0. N \in Nat /\ \A n \in 1 .. N : digits[n] \in 0 .. 9
  BY LenProperties, ElementOfSeq
<1>1. step \in [1 .. N -> [Nat -> Nat]]
  BY <1>0
<1>2. \A x \in Nat, i \in 1 .. N : step[i][x] = 10 * x + digits[i]
  OBVIOUS
<1> HIDE DEF step, N
<1>3. PICK h \in [0 .. N -> Nat] : h[0] = 0 /\ \A i \in 1 .. N : h[i] = step[i][h[i - 1]]
  <2> DEFINE S == Nat
             c == 0
  <2>1. c \in S /\ IsLoop(S, N, step)
    BY <1>1 DEF IsLoop
  <2> HIDE DEF S, c
  <2>2. PICK h : IsRun(h, S, c, N, step)
    BY <1>0, <2>1, LoopRuns
  <2> QED
    BY <2>2 DEF S, c, IsRun
<1>4. ASSUME NEW i \in 1 .. N PROVE h[i] = 10 * h[i - 1] + digits[i]
  <2>1. i - 1 \in 0 .. N
    BY <1>0
  <2>2. h[i - 1] \in Nat
    BY <2>1
  <2> QED
    BY <1>2, <1>3, <2>2
<1>5. h = [n \in 0 .. N |-> IF n = 0 THEN 0 ELSE 10 * h[n - 1] + digits[n]]
  BY <1>0, <1>3, <1>4
<1> DEFINE d == CHOOSE f : f = [n \in 0 .. Len(digits) |->
                                  IF n = 0 THEN 0 ELSE 10 * f[n - 1] + digits[n]]
<1>6. d = [n \in 0 .. Len(digits) |-> IF n = 0 THEN 0 ELSE 10 * d[n - 1] + digits[n]]
  BY <1>5 DEF N
<1>7. Magnitude(digits) = d[N]
  BY DEF Magnitude, N
<1> HIDE DEF d
<1>8. d[0] = 0 /\ \A n \in 1 .. N : d[n] = 10 * d[n - 1] + digits[n]
  BY <1>0, <1>6 DEF N
<1>9. \A n \in 0 .. N : d[n] \in Nat
  <2> DEFINE S == {n \in 0 .. N : d[n] \in Nat}
  <2>1. 0 \in S
    BY <1>0, <1>8
  <2>2. ASSUME NEW n \in 0 .. N - 1, n \in S PROVE n + 1 \in S
    <3>1. n + 1 \in 1 .. N /\ (n + 1) - 1 = n /\ d[n] \in Nat
      BY <1>0, <2>2
    <3>2. d[n + 1] = 10 * d[n] + digits[n + 1] /\ digits[n + 1] \in 0 .. 9
      BY <1>0, <1>8, <3>1
    <3>3. d[n + 1] \in Nat
      BY <3>1, <3>2, OneMoreDigit
    <3> QED
      BY <1>0, <3>1, <3>3
  <2> HIDE DEF S
  <2>3. 0 .. N \subseteq S
    BY <1>0, <2>1, <2>2, InductionUpTo
  <2> QED
    BY <2>3 DEF S
<1>10. d \in [0 .. N -> Nat]
  BY <1>6, <1>9 DEF N
<1> QED
  BY <1>7, <1>8, <1>10 DEF N

(* Digits only make a number larger, and tenfold at least.                 *)
LEMMA PrefixesGrow ==
  ASSUME NEW digits \in Seq(0 .. 9), NEW d \in [0 .. Len(digits) -> Nat],
         \A n \in 1 .. Len(digits) : d[n] = 10 * d[n - 1] + digits[n]
  PROVE  \A n \in 0 .. Len(digits) :
           d[n] <= d[Len(digits)] /\ (n < Len(digits) => 10 * d[n] <= d[Len(digits)])
<1> DEFINE N == Len(digits)
           S == {m \in 0 .. N : d[N - m] <= d[N] /\ (m > 0 => 10 * d[N - m] <= d[N])}
<1>0. N \in Nat /\ \A n \in 1 .. N : digits[n] \in 0 .. 9
  BY LenProperties, ElementOfSeq
<1>1. 0 \in S
  BY <1>0
<1>2. ASSUME NEW m \in 0 .. N - 1, m \in S PROVE m + 1 \in S
  <2>1. N - m \in 1 .. N /\ N - (m + 1) = (N - m) - 1 /\ N - (m + 1) \in 0 .. N /\ N \in 0 .. N
    BY <1>0
  <2> DEFINE a == N - m
             b == N - (m + 1)
  <2>2. a \in 1 .. N /\ b \in 0 .. N /\ b = a - 1 /\ a \in 0 .. N
    BY <1>0, <2>1
  <2>3. d[a] <= d[N]
    BY <1>2
  <2> HIDE DEF a, b
  <2>4. d[a] = 10 * d[b] + digits[a] /\ digits[a] \in 0 .. 9
    BY <1>0, <2>2
  <2>5. d[a] \in Nat /\ d[b] \in Nat /\ d[N] \in Nat
    BY <2>1, <2>2
  <2>6. d[b] <= d[a] /\ 10 * d[b] <= d[a] /\ 10 * d[b] \in Nat
    BY <2>4, <2>5, OneMoreDigit
  <2>7. 10 * d[b] <= d[N] /\ d[b] <= d[N]
    BY <2>3, <2>5, <2>6
  <2> QED
    BY <1>0, <2>7 DEF b
<1> HIDE DEF S
<1>3. 0 .. N \subseteq S
  BY <1>0, <1>1, <1>2, InductionUpTo
<1> SUFFICES ASSUME NEW n \in 0 .. N
             PROVE  d[n] <= d[N] /\ (n < N => 10 * d[n] <= d[N])
  OBVIOUS
<1>4. N - n \in 0 .. N /\ N - (N - n) = n /\ (n < N => N - n > 0)
  BY <1>0
<1> QED
  BY <1>3, <1>4 DEF S

(* The loop of decodeNumber(), as a recurrence.                            *)
LEMMA AccumulatedDef ==
  ASSUME WidthAssumption, NEW digits \in Seq(0 .. 9), NEW max \in Nat
  PROVE  \E f :
           /\ Accumulated(digits, max) = f[Len(digits)] /\ f[0] = 0
           /\ \A n \in 1 .. Len(digits) :
                f[n] = IF f[n - 1] = -1 \/ Overflows(f[n - 1], digits[n], n = Len(digits), max)
                       THEN -1
                       ELSE (f[n - 1] * 10 + digits[n]) % (maxLargestUInt + 1)
<1> DEFINE N == Len(digits)
           next(x, n) == IF x = -1 \/ Overflows(x, digits[n], n = N, max) THEN -1
                         ELSE (x * 10 + digits[n]) % (maxLargestUInt + 1)
           step == [i \in 1 .. N |-> [x \in Int |-> next(x, i)]]
<1>0. N \in Nat /\ \A n \in 1 .. N : digits[n] \in 0 .. 9
  BY LenProperties, ElementOfSeq
<1>1. \A x \in Int, i \in 1 .. N : next(x, i) \in Int
  <2> SUFFICES ASSUME NEW x \in Int, NEW i \in 1 .. N PROVE next(x, i) \in Int
    OBVIOUS
  <2>1. x * 10 + digits[i] \in Int /\ maxLargestUInt + 1 \in Nat \ {0}
    BY <1>0 DEF WidthAssumption
  <2>2. (x * 10 + digits[i]) % (maxLargestUInt + 1) \in Int
    BY <2>1
  <2> QED
    BY <2>2
<1> HIDE DEF next
<1>2. step \in [1 .. N -> [Int -> Int]]
  BY <1>1
<1>3. \A x \in Int, i \in 1 .. N : step[i][x] = next(x, i)
  OBVIOUS
<1> HIDE DEF step, N
<1>4. PICK h \in [0 .. N -> Int] : h[0] = 0 /\ \A i \in 1 .. N : h[i] = step[i][h[i - 1]]
  <2> DEFINE S == Int
             c == 0
  <2>1. c \in S /\ IsLoop(S, N, step)
    BY <1>2 DEF IsLoop
  <2> HIDE DEF S, c
  <2>2. PICK h : IsRun(h, S, c, N, step)
    BY <1>0, <2>1, LoopRuns
  <2> QED
    BY <2>2 DEF S, c, IsRun
<1>5. ASSUME NEW i \in 1 .. N PROVE h[i] = next(h[i - 1], i)
  <2>1. i - 1 \in 0 .. N
    BY <1>0
  <2>2. h[i - 1] \in Int
    BY <2>1
  <2> QED
    BY <1>3, <1>4, <2>2
<1>6. h = [n \in 0 .. N |-> IF n = 0 THEN 0 ELSE next(h[n - 1], n)]
  BY <1>0, <1>4, <1>5
<1> DEFINE f == CHOOSE g : g = [n \in 0 .. N |-> IF n = 0 THEN 0 ELSE next(g[n - 1], n)]
<1>7. f = [n \in 0 .. N |-> IF n = 0 THEN 0 ELSE next(f[n - 1], n)]
  BY <1>6
<1>8. Accumulated(digits, max) = f[N]
  BY DEF Accumulated, N, next
<1> HIDE DEF f
<1>9. f[0] = 0 /\ \A n \in 1 .. N : f[n] = next(f[n - 1], n)
  BY <1>0, <1>7
<1> QED
  BY <1>8, <1>9 DEF N, next

(* A number within the range of a type does not go around.                 *)
LEMMA NoWrap ==
  ASSUME NEW m \in Nat, NEW x \in 0 .. m
  PROVE  x % (m + 1) = x
OBVIOUS

(* One turn of the loop, as long as it has not overflowed: value is what   *)
(* the digits so far denote, and total what all of them do.                *)
LEMMA OneTurn ==
  ASSUME NEW max \in Nat, 10 <= max, NEW value \in 0 .. max, NEW digit \in 0 .. 9,
         NEW last \in BOOLEAN, NEW total \in Nat, 10 * value + digit <= total,
         last => total = 10 * value + digit,
         ~last => 10 * (10 * value + digit) <= total
  PROVE  IF Overflows(value, digit, last, max) THEN total > max
         ELSE value * 10 + digit \in 0 .. max
<1> DEFINE th == max \div 10
           r == max % 10
<1>1. th \in Nat /\ r \in 0 .. 9 /\ max = 10 * th + r /\ th >= 1
  OBVIOUS
<1> HIDE DEF th, r
<1>2. Overflows(value, digit, last, max) <=> value >= th /\ (value > th \/ ~last \/ digit > r)
  BY DEF Overflows, th, r
<1>3. CASE value > th
  BY <1>1, <1>2, <1>3
<1>4. CASE value = th /\ ~last
  BY <1>1, <1>2, <1>4
<1>5. CASE value = th /\ last
  <2>1. total = 10 * th + digit
    BY <1>5
  <2>2. value >= th /\ ~(value > th)
    BY <1>1, <1>5
  <2>3. Overflows(value, digit, last, max) <=> digit > r
    BY <1>2, <1>5, <2>2, Zenon
  <2>4. CASE Overflows(value, digit, last, max)
    BY <1>1, <2>1, <2>3, <2>4
  <2>5. CASE ~Overflows(value, digit, last, max)
    <3>1. ~(digit > r)
      BY <2>3, <2>5, Zenon
    <3>2. value * 10 + digit \in 0 .. max
      BY <1>1, <1>5, <3>1
    <3> QED
      BY <2>5, <3>2, Zenon
  <2> QED
    BY <2>4, <2>5, Zenon
<1>6. CASE value < th
  BY <1>1, <1>2, <1>6
<1> QED
  BY <1>1, <1>3, <1>4, <1>5, <1>6

(* decodeNumber() takes the digits for the integer they denote, or gives   *)
(* them to decodeDouble() if that is beyond the range, and never for one   *)
(* within: the test of every turn against a tenth of the limit is exact.   *)
LEMMA AccumulatedIs ==
  ASSUME WidthAssumption, NEW digits \in Seq(0 .. 9), NEW max \in 10 .. maxLargestUInt
  PROVE  /\ Magnitude(digits) \in Nat
         /\ Accumulated(digits, max) = IF Magnitude(digits) <= max THEN Magnitude(digits) ELSE -1
<1> DEFINE N == Len(digits)
<1>0. /\ N \in Nat /\ \A n \in 1 .. N : digits[n] \in 0 .. 9
      /\ max \in Nat /\ 10 <= max /\ maxLargestUInt \in Nat
  BY LenProperties, ElementOfSeq DEF WidthAssumption
<1>1. PICK d \in [0 .. N -> Nat] :
        /\ Magnitude(digits) = d[N] /\ d[0] = 0
        /\ \A n \in 1 .. N : d[n] = 10 * d[n - 1] + digits[n]
  BY MagnitudeDef
<1>2. \A n \in 0 .. N : d[n] <= d[N] /\ (n < N => 10 * d[n] <= d[N])
  BY <1>1, PrefixesGrow
<1>3. PICK f :
        /\ Accumulated(digits, max) = f[N] /\ f[0] = 0
        /\ \A n \in 1 .. N :
             f[n] = IF f[n - 1] = -1 \/ Overflows(f[n - 1], digits[n], n = N, max) THEN -1
                    ELSE (f[n - 1] * 10 + digits[n]) % (maxLargestUInt + 1)
  BY <1>0, AccumulatedDef
<1> DEFINE S == {n \in 0 .. N : \/ f[n] = -1 /\ d[N] > max
                                \/ f[n] = d[n] /\ d[n] <= max}
<1> HIDE DEF N
<1>4. 0 \in S
  BY <1>0, <1>1, <1>3
<1>5. ASSUME NEW n \in 0 .. N - 1, n \in S PROVE n + 1 \in S
  <2>1. n + 1 \in 1 .. N /\ (n + 1) - 1 = n /\ n + 1 \in 0 .. N /\ n \in 0 .. N /\ N \in 0 .. N
    BY <1>0
  <2>2. f[n + 1] = IF f[n] = -1 \/ Overflows(f[n], digits[n + 1], n + 1 = N, max) THEN -1
                   ELSE (f[n] * 10 + digits[n + 1]) % (maxLargestUInt + 1)
    BY <1>3, <2>1
  <2>3. CASE f[n] = -1 /\ d[N] > max
    BY <2>1, <2>2, <2>3
  <2>4. CASE f[n] = d[n] /\ d[n] <= max
    <3> DEFINE value == d[n]
               digit == digits[n + 1]
               total == d[N]
               last == n + 1 = N
    <3>1. value \in Nat /\ digit \in 0 .. 9 /\ total \in Nat /\ last \in BOOLEAN
      BY <1>0, <2>1
    <3>2. d[n + 1] = 10 * value + digit
      BY <1>1, <2>1
    <3>3. 10 * value + digit <= total /\ (~last => 10 * (10 * value + digit) <= total)
      BY <1>0, <1>2, <2>1, <3>2
    <3>4. last => total = 10 * value + digit
      BY <3>2
    <3>5. f[n + 1] = IF value = -1 \/ Overflows(value, digit, last, max) THEN -1
                     ELSE (value * 10 + digit) % (maxLargestUInt + 1)
      BY <2>2, <2>4
    <3>6. value <= max
      BY <2>4
    <3> HIDE DEF value, digit, total, last
    <3>7. value \in 0 .. max /\ value # -1
      BY <1>0, <3>1, <3>6
    <3>8. IF Overflows(value, digit, last, max) THEN total > max
          ELSE value * 10 + digit \in 0 .. max
      BY <1>0, <3>1, <3>3, <3>4, <3>7, OneTurn
    <3>9. CASE Overflows(value, digit, last, max)
      <4>1. f[n + 1] = -1 /\ total > max
        BY <3>5, <3>8, <3>9
      <4> QED
        BY <2>1, <4>1 DEF total
    <3>10. CASE ~Overflows(value, digit, last, max)
      <4>1. value * 10 + digit \in 0 .. max
        BY <3>8, <3>10
      <4>2. value * 10 + digit \in 0 .. maxLargestUInt
        BY <1>0, <4>1
      <4>3. f[n + 1] = value * 10 + digit
        BY <1>0, <3>5, <3>7, <3>10, <4>2, NoWrap
      <4>4. f[n + 1] = d[n + 1] /\ d[n + 1] <= max
        BY <3>1, <3>2, <4>1, <4>3
      <4> QED
        BY <2>1, <4>4
    <3> QED
      BY <3>9, <3>10
  <2> QED
    BY <1>5, <2>3, <2>4
<1> HIDE DEF S
<1>6. 0 .. N \subseteq S
  BY <1>0, <1>4, <1>5, InductionUpTo
<1>7. N \in S /\ d[N] \in Nat
  BY <1>0, <1>6
<1>8. f[N] = IF d[N] <= max THEN d[N] ELSE -1
  BY <1>0, <1>7 DEF S
<1> QED
  BY <1>1, <1>3, <1>7, <1>8

-----------------------------------------------------------------------------
(* What decodeNumber() makes of a token.                                   *)

LEMMA TokenType ==
  ASSUME NEW t \in NumberToken
  PROVE  t.negative \in BOOLEAN /\ t.digits \in Seq(0 .. 9)
BY DEF NumberToken, Digits

LEMMA LimitsType ==
  ASSUME WidthAssumption
  PROVE  /\ maxInt \in Nat /\ maxLargestInt \in Nat /\ maxInt <= maxLargestInt
         /\ maxLargestInt + 1 \in 10 .. maxLargestUInt /\ maxLargestUInt \in 10 .. maxLargestUInt
         /\ maxLargestInt < maxLargestUInt /\ maxInt <= maxLargestUInt
         /\ minInt = -maxInt - 1 /\ minLargestInt = -maxLargestInt - 1
BY DEF WidthAssumption, maxInt, maxLargestInt, minInt, minLargestInt

LEMMA DecodedIs ==
  ASSUME WidthAssumption, NEW negative \in BOOLEAN, NEW digits \in Seq(0 .. 9)
  PROVE  LET m == Magnitude(digits) IN
         decodeNumber([negative |-> negative, digits |-> digits]) =
           IF m > (IF negative THEN maxLargestInt + 1 ELSE maxLargestUInt)
           THEN [type |-> "realValue"]
           ELSE IF negative THEN [type |-> "intValue", of |-> -m]
           ELSE [type |-> IF m <= maxInt THEN "intValue" ELSE "uintValue", of |-> m]
<1> DEFINE m == Magnitude(digits)
           max == IF negative THEN maxLargestInt + 1 ELSE maxLargestUInt
           value == Accumulated(digits, max)
           t == [negative |-> negative, digits |-> digits]
<1>1. max \in 10 .. maxLargestUInt
  BY LimitsType
<1>2. m \in Nat /\ value = IF m <= max THEN m ELSE -1
  BY <1>1, AccumulatedIs
<1>3. max \in Nat
  BY <1>1 DEF WidthAssumption
<1>4. t.negative = negative /\ t.digits = digits
  OBVIOUS
<1>5. decodeNumber(t) =
        CASE value = -1 -> [type |-> "realValue"]
          [] value # -1 /\ negative -> [type |-> "intValue", of |-> -value]
          [] value # -1 /\ ~negative ->
               [type |-> IF value <= maxInt THEN "intValue" ELSE "uintValue", of |-> value]
  BY <1>4 DEF decodeNumber
<1> HIDE DEF m, max, value, t
<1>6. CASE m > max
  <2>1. value = -1
    BY <1>2, <1>3, <1>6
  <2>2. decodeNumber(t) = [type |-> "realValue"]
    BY <1>5, <2>1
  <2> QED
    BY <1>6, <2>2 DEF m, max, t
<1>7. CASE ~(m > max)
  <2>1. value = m /\ value # -1
    BY <1>2, <1>3, <1>7
  <2>2. CASE negative
    <3>1. decodeNumber(t) = [type |-> "intValue", of |-> -m]
      BY <1>5, <2>1, <2>2
    <3> QED
      BY <1>7, <2>2, <3>1 DEF m, max, t
  <2>3. CASE ~negative
    <3>1. decodeNumber(t) = [type |-> IF m <= maxInt THEN "intValue" ELSE "uintValue", of |-> m]
      BY <1>5, <2>1, <2>3
    <3> QED
      BY <1>7, <2>3, <3>1 DEF m, max, t
  <2> QED
    BY <2>2, <2>3
<1> QED
  BY <1>6, <1>7

(* For every request, the id a handler gets from asInt() is the number     *)
(* that the digits denote, or asInt() throws: neither the 64-bit           *)
(* accumulator nor the conversion to an int ever turns one number into     *)
(* another, for types of any width and tokens of any length.               *)
THEOREM IdsAreDenoted == NSpec => []IdIsDenoted
<1> DEFINE Inv ==
      /\ text.kind = "number" /\ text.of \in NumberToken
      /\ result # NotYet => result = decodeNumber(text.of)
<1>1. NumberGiven => Inv
  BY DEF NumberGiven, Given
<1>2. Inv /\ [DecodeNumber \/ Done]_rvars => Inv'
  BY DEF DecodeNumber, Read, Done, rvars
<1>3. Inv => IdIsDenoted
  <2> SUFFICES ASSUME Inv, WasRead("number")
               PROVE  IF Denoted(text.of) \in minInt .. maxInt
                      THEN ~asIntThrows(result) /\ result.of = Denoted(text.of)
                      ELSE asIntThrows(result)
    BY DEF IdIsDenoted
  <2> DEFINE negative == text.of.negative
             digits == text.of.digits
             m == Magnitude(digits)
  <2>1. text.of \in NumberToken /\ result = decodeNumber(text.of)
    BY DEF WasRead
  <2>2. negative \in BOOLEAN /\ digits \in Seq(0 .. 9)
    BY <2>1, TokenType
  <2>3. text.of = [negative |-> negative, digits |-> digits]
    BY <2>1 DEF NumberToken
  <2>4. m \in Nat
    BY <2>2, LimitsType, AccumulatedIs, WidthAssumption
  <2>5. Denoted(text.of) = IF negative THEN -m ELSE m
    BY DEF Denoted
  <2> HIDE DEF Inv, negative, digits
  <2>6. result = IF m > (IF negative THEN maxLargestInt + 1 ELSE maxLargestUInt)
                 THEN [type |-> "realValue"]
                 ELSE IF negative THEN [type |-> "intValue", of |-> -m]
                 ELSE [type |-> IF m <= maxInt THEN "intValue" ELSE "uintValue", of |-> m]
    BY <2>1, <2>2, <2>3, DecodedIs, WidthAssumption
  <2> HIDE DEF m
  <2>7. CASE negative
    <3>1. Denoted(text.of) = -m
      BY <2>5, <2>7
    <3>2. CASE m > maxLargestInt + 1
      <4>1. result.type = "realValue"
        BY <2>6, <2>7, <3>2
      <4>2. -m \notin minInt .. maxInt
        BY <2>4, <3>2, LimitsType, WidthAssumption
      <4> QED
        BY <3>1, <4>1, <4>2 DEF asIntThrows
    <3>3. CASE ~(m > maxLargestInt + 1)
      <4>1. result.type = "intValue" /\ result.of = -m
        BY <2>6, <2>7, <3>3
      <4> QED
        BY <3>1, <4>1 DEF asIntThrows
    <3> QED
      BY <3>2, <3>3
  <2>8. CASE ~negative
    <3>1. Denoted(text.of) = m
      BY <2>5, <2>8
    <3>2. CASE m > maxLargestUInt
      <4>1. result.type = "realValue"
        BY <2>6, <2>8, <3>2
      <4>2. m \notin minInt .. maxInt
        BY <2>4, <3>2, LimitsType, WidthAssumption DEF WidthAssumption
      <4> QED
        BY <3>1, <4>1, <4>2 DEF asIntThrows
    <3>3. CASE ~(m > maxLargestUInt)
      <4>1. result.type \in {"intValue", "uintValue"} /\ result.of = m
        BY <2>6, <2>8, <3>3
      <4>2. result.type # "realValue"
        BY <4>1
      <4> QED
        BY <3>1, <4>1, <4>2 DEF asIntThrows
    <3> QED
      BY <3>2, <3>3
  <2> QED
    BY <2>2, <2>7, <2>8
<1> QED
  BY <1>1, <1>2, <1>3, PTL DEF NSpec

-----------------------------------------------------------------------------
(* What valueToString() writes.                                            *)

(* The recursive function of uintToString() has the values of its loop.    *)
LEMMA LoopOfDigits ==
  ASSUME NEW value \in Nat
  PROVE  \E v \in [0 .. value + 1 -> Nat] :
           /\ v[0] = value /\ \A n \in 1 .. value + 1 : v[n] = v[n - 1] \div 10
           /\ uintToString(value) =
                LET turns == Min({n \in 1 .. value + 1 : v[n] = 0})
                IN  [i \in 1 .. turns |-> v[turns - i] % 10]
<1> DEFINE N == value + 1
           step == [i \in 1 .. N |-> [x \in Nat |-> x \div 10]]
<1>0. N \in Nat
  OBVIOUS
<1>1. step \in [1 .. N -> [Nat -> Nat]]
  OBVIOUS
<1>2. \A x \in Nat, i \in 1 .. N : step[i][x] = x \div 10
  OBVIOUS
<1> HIDE DEF step, N
<1>3. PICK h \in [0 .. N -> Nat] : h[0] = value /\ \A i \in 1 .. N : h[i] = step[i][h[i - 1]]
  <2> DEFINE S == Nat
             c == value
  <2>1. c \in S /\ IsLoop(S, N, step)
    BY <1>1 DEF IsLoop
  <2> HIDE DEF S, c
  <2>2. PICK h : IsRun(h, S, c, N, step)
    BY <1>0, <2>1, LoopRuns
  <2> QED
    BY <2>2 DEF S, c, IsRun
<1>4. ASSUME NEW i \in 1 .. N PROVE h[i] = h[i - 1] \div 10
  <2>1. i - 1 \in 0 .. N
    BY <1>0
  <2>2. h[i - 1] \in Nat
    BY <2>1
  <2> QED
    BY <1>2, <1>3, <2>2
<1>5. h = [n \in 0 .. N |-> IF n = 0 THEN value ELSE h[n - 1] \div 10]
  BY <1>0, <1>3, <1>4
<1> DEFINE v == CHOOSE g : g = [n \in 0 .. N |-> IF n = 0 THEN value ELSE g[n - 1] \div 10]
<1>6. v = [n \in 0 .. N |-> IF n = 0 THEN value ELSE v[n - 1] \div 10]
  BY <1>5
<1>7. uintToString(value) =
        LET turns == Min({n \in 1 .. N : v[n] = 0}) IN [i \in 1 .. turns |-> v[turns - i] % 10]
  BY DEF uintToString, N
<1> HIDE DEF v
<1>8. v[0] = value /\ \A n \in 1 .. N : v[n] = v[n - 1] \div 10
  BY <1>0, <1>6
<1>9. v \in [0 .. N -> Nat]
  <2> DEFINE S == {n \in 0 .. N : v[n] \in Nat}
  <2>1. 0 \in S
    BY <1>0, <1>8
  <2>2. ASSUME NEW n \in 0 .. N - 1, n \in S PROVE n + 1 \in S
    <3>1. n + 1 \in 1 .. N /\ n + 1 \in 0 .. N /\ (n + 1) - 1 = n
      BY <1>0
    <3>2. v[n + 1] = v[n] \div 10 /\ v[n] \in Nat
      BY <1>8, <2>2, <3>1
    <3> QED
      BY <3>1, <3>2
  <2> HIDE DEF S
  <2>3. 0 .. N \subseteq S
    BY <1>0, <2>1, <2>2, InductionUpTo
  <2>4. \A n \in 0 .. N : v[n] \in Nat
    BY <2>3 DEF S
  <2>5. DOMAIN v = 0 .. N /\ v = [n \in 0 .. N |-> v[n]]
    BY <1>6
  <2> QED
    BY <2>4, <2>5
<1> QED
  BY <1>7, <1>8, <1>9 DEF N

(* One turn of the loop takes at least one off a value that is not zero.   *)
LEMMA TenthIsLess ==
  ASSUME NEW x \in Nat
  PROVE  /\ x \div 10 \in Nat /\ x % 10 \in 0 .. 9 /\ x = 10 * (x \div 10) + (x % 10)
         /\ x # 0 => x \div 10 <= x - 1
OBVIOUS

(* The digits that uintToString() leaves in its buffer denote the value.   *)
LEMMA WrittenDenotes ==
  ASSUME NEW value \in Nat
  PROVE  uintToString(value) \in Seq(0 .. 9) /\ Magnitude(uintToString(value)) = value
<1> DEFINE N == value + 1
<1>0. N \in Nat /\ N > value
  OBVIOUS
<1>1. PICK v \in [0 .. N -> Nat] :
        /\ v[0] = value /\ \A n \in 1 .. N : v[n] = v[n - 1] \div 10
        /\ uintToString(value) =
             LET turns == Min({n \in 1 .. N : v[n] = 0})
             IN  [i \in 1 .. turns |-> v[turns - i] % 10]
  BY LoopOfDigits
<1> HIDE DEF N
<1> DEFINE Zero == {n \in 1 .. N : v[n] = 0}
           turns == Min(Zero)
           digits == [i \in 1 .. turns |-> v[turns - i] % 10]
<1>2. N \in Zero
  <2> DEFINE S == {n \in 0 .. N : v[n] = 0 \/ v[n] + n <= value}
  <2>1. 0 \in S
    BY <1>0, <1>1
  <2>2. ASSUME NEW n \in 0 .. N - 1, n \in S PROVE n + 1 \in S
    <3>1. n + 1 \in 1 .. N /\ n + 1 \in 0 .. N /\ (n + 1) - 1 = n /\ n \in 0 .. N
      BY <1>0
    <3>2. v[n + 1] = v[n] \div 10 /\ v[n] \in Nat
      BY <1>1, <3>1
    <3> DEFINE x == v[n]
    <3>3. v[n + 1] \in Nat /\ (x # 0 => v[n + 1] <= x - 1) /\ (x = 0 => v[n + 1] = 0)
      BY <3>2, TenthIsLess
    <3>4. x = 0 \/ x + n <= value
      BY <2>2
    <3>5. v[n + 1] = 0 \/ v[n + 1] + (n + 1) <= value
      BY <3>1, <3>2, <3>3, <3>4
    <3> QED
      BY <3>1, <3>5
  <2> HIDE DEF S
  <2>3. 0 .. N \subseteq S
    BY <1>0, <2>1, <2>2, InductionUpTo
  <2>4. N \in 1 .. N /\ N \in 0 .. N
    BY <1>0
  <2>5. v[N] = 0 \/ v[N] + N <= value
    BY <2>3, <2>4 DEF S
  <2>6. v[N] \in Nat
    BY <2>4
  <2> QED
    BY <1>0, <2>4, <2>5, <2>6
<1>3. turns \in Zero
  <2> HIDE DEF Zero
  <2>1. Zero \in SUBSET Nat
    BY <1>0 DEF Zero
  <2>2. \E x \in Zero : \A y \in Zero : x <= y
    BY <1>2, <2>1, LeastNatural
  <2> QED
    BY <2>2 DEF Min
<1>4. uintToString(value) = digits
  BY <1>1
<1> HIDE DEF turns
<1>5. turns \in 1 .. N /\ v[turns] = 0 /\ turns \in Nat
  BY <1>0, <1>3
<1>6. \A i \in 1 .. turns : v[turns - i] \in Nat /\ v[turns - i] % 10 \in 0 .. 9
  <2> TAKE i \in 1 .. turns
  <2>1. turns - i \in 0 .. N
    BY <1>0, <1>5
  <2>2. v[turns - i] \in Nat
    BY <2>1
  <2> QED
    BY <2>2, TenthIsLess
<1>7. digits \in Seq(0 .. 9) /\ Len(digits) = turns
  BY <1>5, <1>6
<1>8. \A i \in 1 .. turns : digits[i] = v[turns - i] % 10
  OBVIOUS
<1> HIDE DEF digits
<1>9. PICK d \in [0 .. turns -> Nat] :
        /\ Magnitude(digits) = d[turns] /\ d[0] = 0
        /\ \A n \in 1 .. turns : d[n] = 10 * d[n - 1] + digits[n]
  BY <1>7, MagnitudeDef
<1> DEFINE S == {n \in 0 .. turns : d[n] = v[turns - n]}
<1>10. 0 \in S
  BY <1>5, <1>9
<1>11. ASSUME NEW n \in 0 .. turns - 1, n \in S PROVE n + 1 \in S
  <2>1. /\ n + 1 \in 1 .. turns /\ n + 1 \in 0 .. turns /\ (n + 1) - 1 = n
        /\ turns - n \in 1 .. N /\ (turns - n) - 1 = turns - (n + 1)
    BY <1>0, <1>5
  <2> DEFINE x == v[turns - (n + 1)]
  <2>2. x \in Nat /\ digits[n + 1] = x % 10
    BY <1>6, <1>8, <2>1
  <2>3. v[turns - n] = x \div 10
    BY <1>1, <2>1
  <2>4. d[n + 1] = 10 * d[n] + digits[n + 1] /\ d[n] = v[turns - n]
    BY <1>9, <1>11, <2>1
  <2> HIDE DEF x
  <2>5. d[n + 1] = x
    BY <2>2, <2>3, <2>4, TenthIsLess
  <2> QED
    BY <2>1, <2>5 DEF x
<1> HIDE DEF S
<1>12. 0 .. turns \subseteq S
  BY <1>5, <1>10, <1>11, InductionUpTo
<1>13. d[turns] = v[turns - turns]
  BY <1>5, <1>12 DEF S
<1>14. turns - turns = 0
  BY <1>5
<1>15. Magnitude(digits) = value
  BY <1>1, <1>9, <1>13, <1>14
<1> QED
  BY <1>4, <1>7, <1>15, Zenon

(* Every integer that decodeNumber() can give is written by               *)
(* valueToString() with its sign and the digits of its magnitude.          *)
LEMMA WrittenToken ==
  ASSUME WidthAssumption, NEW v \in Int
  PROVE  valueToString(v) = IF v < 0
                            THEN [negative |-> TRUE, digits |-> uintToString(-v)]
                            ELSE [negative |-> FALSE, digits |-> uintToString(v)]
<1>1. v = minLargestInt => v < 0 /\ -v = maxLargestInt + 1
  BY LimitsType
<1>2. CASE v < 0
  <2>1. (IF v = minLargestInt THEN maxLargestInt + 1 ELSE IF v < 0 THEN -v ELSE v) = -v
    BY <1>1, <1>2
  <2>2. (v < 0) = TRUE
    BY <1>2
  <2> QED
    BY <1>2, <2>1, <2>2 DEF valueToString
<1>3. CASE ~(v < 0)
  <2>1. (IF v = minLargestInt THEN maxLargestInt + 1 ELSE IF v < 0 THEN -v ELSE v) = v
    BY <1>1, <1>3
  <2>2. (v < 0) = FALSE
    BY <1>3
  <2> QED
    BY <1>3, <2>1, <2>2 DEF valueToString
<1> QED
  BY <1>2, <1>3

(* For every integer of a relayed message, what the addressee reads is     *)
(* what the server read: the digits are in order and none is lost, the     *)
(* sign is kept, and the smallest LargestInt, which has no negative, is    *)
(* no exception; for types of any width.                                   *)
THEOREM IntegersReadBack == NSpec => []WrittenReadsBack
<1> DEFINE Inv ==
      /\ text.kind = "number" /\ text.of \in NumberToken
      /\ result # NotYet => result = decodeNumber(text.of)
<1>1. NumberGiven => Inv
  BY DEF NumberGiven, Given
<1>2. Inv /\ [DecodeNumber \/ Done]_rvars => Inv'
  BY DEF DecodeNumber, Read, Done, rvars
<1>3. Inv => WrittenReadsBack
  <2> SUFFICES ASSUME Inv, WasRead("number"), result.type # "realValue"
               PROVE  decodeNumber(valueToString(result.of)) = result
    BY DEF WrittenReadsBack
  <2> DEFINE negative == text.of.negative
             digits == text.of.digits
             m == Magnitude(digits)
  <2>1. text.of \in NumberToken /\ result = decodeNumber(text.of)
    BY DEF WasRead
  <2>2. negative \in BOOLEAN /\ digits \in Seq(0 .. 9)
    BY <2>1, TokenType
  <2>3. text.of = [negative |-> negative, digits |-> digits]
    BY <2>1 DEF NumberToken
  <2>4. m \in Nat
    BY <2>2, LimitsType, AccumulatedIs, WidthAssumption
  <2> HIDE DEF Inv, negative, digits
  <2>5. result = IF m > (IF negative THEN maxLargestInt + 1 ELSE maxLargestUInt)
                 THEN [type |-> "realValue"]
                 ELSE IF negative THEN [type |-> "intValue", of |-> -m]
                 ELSE [type |-> IF m <= maxInt THEN "intValue" ELSE "uintValue", of |-> m]
    BY <2>1, <2>2, <2>3, DecodedIs, WidthAssumption
  <2>6. uintToString(m) \in Seq(0 .. 9) /\ Magnitude(uintToString(m)) = m
    BY <2>4, WrittenDenotes
  <2>7. decodeNumber([negative |-> TRUE, digits |-> uintToString(m)]) =
          IF m > maxLargestInt + 1 THEN [type |-> "realValue"]
          ELSE [type |-> "intValue", of |-> -m]
    BY <2>6, DecodedIs, WidthAssumption
  <2>8. decodeNumber([negative |-> FALSE, digits |-> uintToString(m)]) =
          IF m > maxLargestUInt THEN [type |-> "realValue"]
          ELSE [type |-> IF m <= maxInt THEN "intValue" ELSE "uintValue", of |-> m]
    BY <2>6, DecodedIs, WidthAssumption
  <2> HIDE DEF m
  <2>9. CASE negative
    <3>1. ~(m > maxLargestInt + 1)
      BY <2>5, <2>9
    <3>2. result = [type |-> "intValue", of |-> -m]
      BY <2>5, <2>9, <3>1
    <3>3. result.of = -m
      BY <3>2
    <3>4. CASE m = 0
      <4>1. valueToString(0) = [negative |-> FALSE, digits |-> uintToString(0)]
        BY WrittenToken, WidthAssumption
      <4>2. 0 <= maxInt /\ ~(0 > maxLargestUInt)
        BY LimitsType, WidthAssumption DEF WidthAssumption
      <4>3. -m = 0
        <5>1. m <= 0
          BY <3>4
        <5> QED
          BY <2>4, <5>1
      <4>4. result = [type |-> "intValue", of |-> 0] /\ result.of = 0
        BY <3>2, <4>3
      <4>5. decodeNumber([negative |-> FALSE, digits |-> uintToString(0)]) =
              [type |-> "intValue", of |-> 0]
        BY <2>8, <3>4, <4>2
      <4> QED
        BY <4>1, <4>4, <4>5
    <3>5. CASE m # 0
      <4>1. -m \in Int /\ -m < 0 /\ -(-m) = m
        BY <2>4, <3>5
      <4>2. valueToString(-m) = [negative |-> TRUE, digits |-> uintToString(m)]
        BY <4>1, WrittenToken, WidthAssumption
      <4> QED
        BY <2>7, <3>1, <3>2, <3>3, <4>2
    <3> QED
      BY <3>4, <3>5
  <2>10. CASE ~negative
    <3>1. ~(m > maxLargestUInt)
      BY <2>5, <2>10
    <3>2. result = [type |-> IF m <= maxInt THEN "intValue" ELSE "uintValue", of |-> m]
      BY <2>5, <2>10, <3>1
    <3>3. result.of = m
      BY <3>2
    <3>4. m \in Int /\ ~(m < 0)
      BY <2>4
    <3>5. valueToString(m) = [negative |-> FALSE, digits |-> uintToString(m)]
      BY <3>4, WrittenToken, WidthAssumption
    <3> QED
      BY <2>8, <3>1, <3>2, <3>3, <3>5
  <2> QED
    BY <2>2, <2>9, <2>10
<1> QED
  BY <1>1, <1>2, <1>3, PTL DEF NSpec

-----------------------------------------------------------------------------
(* UTF-8.                                                                  *)

(* The code points, half a surrogate pair not among them.                  *)
CodePoint == {c \in Nat : c <= 1114111 /\ ~IsSurrogate(c)}

(* The six bits of a byte that is not the first.                           *)
SixBits == {x \in Nat : x < 64}

LEMMA CodePointType ==
  ASSUME NEW cp \in CodePoint
  PROVE  cp \in Nat /\ cp <= 1114111 /\ (cp < 55296 \/ cp > 57343)
BY DEF CodePoint, IsSurrogate, InRange

(* A code that takes two, three or four bytes, by the bits in each.        *)
IsBitsOf2(cp, a, b) == 2 <= a /\ a <= 31 /\ cp = a * 64 + b

IsBitsOf3(cp, a, b, c) ==
  /\ a <= 15 /\ cp = a * 4096 + b * 64 + c /\ cp >= 2048
  /\ a = 0 => b >= 32
  /\ a = 13 => b < 32

IsBitsOf4(cp, a, b, c, d) ==
  /\ a <= 4 /\ cp = a * 262144 + b * 4096 + c * 64 + d /\ cp >= 65536 /\ cp <= 1114111
  /\ a = 0 => b >= 16
  /\ a = 4 => b < 16

BytesOf2(a, b)       == <<192 + a, 128 + b>>
BytesOf3(a, b, c)    == <<224 + a, 128 + b, 128 + c>>
BytesOf4(a, b, c, d) == <<240 + a, 128 + b, 128 + c, 128 + d>>

(* What codePointToUTF8() makes of it.                                     *)
LEMMA EncodedAs1 ==
  ASSUME NEW cp \in Nat, cp <= 127
  PROVE  codePointToUTF8(cp) = <<cp>>
<1>1. codePointToUTF8(cp) = OneByte(cp)
  BY SMT DEF codePointToUTF8
<1> QED
  BY <1>1, Zenon DEF OneByte

LEMMA EncodedAs2 ==
  ASSUME NEW cp \in Nat, NEW a \in Nat, NEW b \in SixBits, IsBitsOf2(cp, a, b)
  PROVE  codePointToUTF8(cp) = BytesOf2(a, b)
<1> DEFINE x == (cp \div 64) % 32
           y == cp % 64
<1>1. ~(cp <= 127) /\ cp <= 2047
  BY SMT DEF SixBits, IsBitsOf2
<1>2. x = a /\ y = b
  BY SMT DEF SixBits, IsBitsOf2
<1>3. codePointToUTF8(cp) = TwoBytes(cp)
  BY <1>1, SMT DEF codePointToUTF8
<1>4. TwoBytes(cp) = <<192 + x, 128 + y>>
  BY SMT DEF TwoBytes
<1> HIDE DEF x, y
<1> QED
  BY <1>2, <1>3, <1>4, Zenon DEF BytesOf2

LEMMA EncodedAs3 ==
  ASSUME NEW cp \in Nat, NEW a \in Nat, NEW b \in SixBits, NEW c \in SixBits,
         IsBitsOf3(cp, a, b, c)
  PROVE  codePointToUTF8(cp) = BytesOf3(a, b, c)
<1> DEFINE x == (cp \div 4096) % 16
           y == (cp \div 64) % 64
           z == cp % 64
<1>1. ~(cp <= 127) /\ ~(cp <= 2047) /\ cp <= 65535
  BY SMT DEF SixBits, IsBitsOf3
<1>2. cp \div 4096 = a /\ cp \div 64 = a * 64 + b
  BY SMT DEF SixBits, IsBitsOf3
<1>3. x = a /\ y = b /\ z = c
  BY <1>2, SMT DEF SixBits, IsBitsOf3
<1>4. codePointToUTF8(cp) = ThreeBytes(cp)
  BY <1>1, SMT DEF codePointToUTF8
<1>5. ThreeBytes(cp) = <<224 + x, 128 + y, 128 + z>>
  BY SMT DEF ThreeBytes
<1> HIDE DEF x, y, z
<1> QED
  BY <1>3, <1>4, <1>5, Zenon DEF BytesOf3

LEMMA EncodedAs4 ==
  ASSUME NEW cp \in Nat, NEW a \in Nat, NEW b \in SixBits, NEW c \in SixBits, NEW d \in SixBits,
         IsBitsOf4(cp, a, b, c, d)
  PROVE  codePointToUTF8(cp) = BytesOf4(a, b, c, d)
<1> DEFINE x == (cp \div 262144) % 8
           y == (cp \div 4096) % 64
           z == (cp \div 64) % 64
           w == cp % 64
<1>1. ~(cp <= 127) /\ ~(cp <= 2047) /\ ~(cp <= 65535) /\ cp <= 1114111
  BY SMT DEF SixBits, IsBitsOf4
<1>2. /\ cp \div 262144 = a /\ cp \div 4096 = a * 64 + b
      /\ cp \div 64 = a * 4096 + b * 64 + c
  BY SMT DEF SixBits, IsBitsOf4
<1>3. x = a /\ y = b /\ z = c /\ w = d
  BY <1>2, SMT DEF SixBits, IsBitsOf4
<1>4. codePointToUTF8(cp) = FourBytes(cp)
  BY <1>1, SMT DEF codePointToUTF8
<1>5. FourBytes(cp) = <<240 + x, 128 + y, 128 + z, 128 + w>>
  BY SMT DEF FourBytes
<1> HIDE DEF x, y, z, w
<1> QED
  BY <1>3, <1>4, <1>5, Zenon DEF BytesOf4

(* Every code point is made of such bits.                                  *)
LEMMA BitsOf ==
  ASSUME NEW cp \in CodePoint
  PROVE  \/ cp \in Nat /\ cp <= 127
         \/ \E a \in Nat, b \in SixBits : IsBitsOf2(cp, a, b)
         \/ \E a \in Nat, b, c \in SixBits : IsBitsOf3(cp, a, b, c)
         \/ \E a \in Nat, b, c, d \in SixBits : IsBitsOf4(cp, a, b, c, d)
<1>0. cp \in Nat /\ cp <= 1114111 /\ (cp < 55296 \/ cp > 57343)
  BY CodePointType, SMT
<1> DEFINE d == cp % 64
           x == cp \div 64
           c == x % 64
           y == x \div 64
           b == y % 64
           a == y \div 64
<1>1. d \in Nat /\ d < 64 /\ x \in Nat /\ cp = x * 64 + d
  BY <1>0, SMT
<1> HIDE DEF d, x
<1>2. c \in Nat /\ c < 64 /\ y \in Nat /\ x = y * 64 + c
  BY <1>1, SMT
<1> HIDE DEF c, y
<1>3. b \in Nat /\ b < 64 /\ a \in Nat /\ y = a * 64 + b
  BY <1>2, SMT
<1> HIDE DEF a, b
<1>4. b \in SixBits /\ c \in SixBits /\ d \in SixBits
  BY <1>1, <1>2, <1>3, SMT DEF SixBits
<1>5. CASE cp <= 127
  BY <1>0, <1>5, SMT
<1>6. CASE cp > 127 /\ cp <= 2047
  <2>1. IsBitsOf2(cp, x, d)
    BY <1>0, <1>1, <1>6, SMT DEF IsBitsOf2
  <2> QED
    BY <1>1, <1>4, <2>1, SMT
<1>7. CASE cp > 2047 /\ cp <= 65535
  <2>1. IsBitsOf3(cp, y, c, d)
    BY <1>0, <1>1, <1>2, <1>7, SMT DEF IsBitsOf3
  <2> QED
    BY <1>2, <1>4, <2>1, SMT
<1>8. CASE cp > 65535
  <2>1. IsBitsOf4(cp, a, b, c, d)
    BY <1>0, <1>1, <1>2, <1>3, <1>8, SMT DEF IsBitsOf4
  <2> QED
    BY <1>3, <1>4, <2>1, SMT
<1> QED
  BY <1>0, <1>5, <1>6, <1>7, <1>8, SMT

(* codePointToUTF8() encodes a code point as the standard has it.          *)
LEMMA EncodedIsOne ==
  ASSUME NEW cp \in CodePoint
  PROVE  /\ codePointToUTF8(cp) \in Seq(Byte)
         /\ Len(codePointToUTF8(cp)) > 0 /\ IsOneCodePoint(codePointToUTF8(cp))
<1> DEFINE bytes == codePointToUTF8(cp)
           Goal == bytes \in Seq(Byte) /\ Len(bytes) > 0 /\ IsOneCodePoint(bytes)
<1> SUFFICES Goal
  OBVIOUS
<1> HIDE DEF bytes
<1>1. ASSUME cp \in Nat, cp <= 127 PROVE Goal
  <2>1. bytes = <<cp>>
    BY <1>1, EncodedAs1, SMT DEF bytes
  <2> QED
    BY <1>1, <2>1, SMT DEF IsOneCodePoint, Byte
<1>2. ASSUME NEW a \in Nat, NEW b \in SixBits, IsBitsOf2(cp, a, b) PROVE Goal
  <2>1. bytes = BytesOf2(a, b)
    BY <1>2, EncodedAs2, CodePointType, SMT DEF bytes
  <2> QED
    BY <1>2, <2>1, SMT DEF IsBitsOf2, BytesOf2, SixBits, IsOneCodePoint, Continues, Byte, InRange
<1>3. ASSUME NEW a \in Nat, NEW b \in SixBits, NEW c \in SixBits, IsBitsOf3(cp, a, b, c) PROVE Goal
  <2>1. bytes = BytesOf3(a, b, c)
    BY <1>3, EncodedAs3, CodePointType, SMT DEF bytes
  <2> QED
    BY <1>3, <2>1, SMT DEF IsBitsOf3, BytesOf3, SixBits, IsOneCodePoint, Continues, Byte, InRange
<1>4. ASSUME NEW a \in Nat, NEW b \in SixBits, NEW c \in SixBits, NEW d \in SixBits,
             IsBitsOf4(cp, a, b, c, d)
      PROVE  Goal
  <2>1. bytes = BytesOf4(a, b, c, d)
    BY <1>4, EncodedAs4, CodePointType, SMT DEF bytes
  <2> QED
    BY <1>4, <2>1, SMT DEF IsBitsOf4, BytesOf4, SixBits, IsOneCodePoint, Continues, Byte, InRange
<1> HIDE DEF Goal
<1> QED
  BY <1>1, <1>2, <1>3, <1>4, BitsOf, Zenon

(* What utf8ToCodepoint() makes of the bytes, by the first of them.        *)
LEMMA CheckedIs ==
  ASSUME NEW x \in Nat
  PROVE  /\ Checked(x, 2) = IF x < 128 THEN REPLACEMENT_CHARACTER ELSE x
         /\ Checked(x, 3) = IF x < 2048 \/ IsSurrogate(x) THEN REPLACEMENT_CHARACTER ELSE x
         /\ Checked(x, 4) = IF x < 65536 THEN REPLACEMENT_CHARACTER ELSE x
<1>1. LeastOf[2] = 128 /\ LeastOf[3] = 2048 /\ LeastOf[4] = 65536
  BY SMT DEF LeastOf
<1> QED
  BY <1>1, SMT DEF Checked

LEMMA TakenFor1 ==
  ASSUME NEW s \in Seq(Byte), NEW c \in Nat, s[c] < 128
  PROVE  utf8ToCodepoint(s, c) = [code |-> s[c], bytes |-> 1]
BY SMT DEF utf8ToCodepoint

Leads2(x) == ~(x < 128) /\ x < 224
Leads3(x) == InRange(x, 224, 239)
Leads4(x) == InRange(x, 240, 247)

LEMMA TakenFor2 ==
  ASSUME NEW s \in Seq(Byte), NEW c \in Nat, s[c] \in Nat, Leads2(s[c]), Len(s) - c + 1 >= 2
  PROVE  utf8ToCodepoint(s, c) = [code |-> Checked(CodeOf2(s[c], s[c + 1]), 2), bytes |-> 2]
BY SMT DEF utf8ToCodepoint, Leads2

LEMMA TakenFor3 ==
  ASSUME NEW s \in Seq(Byte), NEW c \in Nat, s[c] \in Nat, Leads3(s[c]), Len(s) - c + 1 >= 3
  PROVE  utf8ToCodepoint(s, c) =
           [code |-> Checked(CodeOf3(s[c], s[c + 1], s[c + 2]), 3), bytes |-> 3]
<1>1. ~(s[c] < 128) /\ ~(s[c] < 224)
  BY SMT DEF InRange, Leads3
<1> QED
  BY <1>1, SMT DEF utf8ToCodepoint, Leads3

LEMMA TakenFor4 ==
  ASSUME NEW s \in Seq(Byte), NEW c \in Nat, s[c] \in Nat, Leads4(s[c]), Len(s) - c + 1 >= 4
  PROVE  utf8ToCodepoint(s, c) =
           [code |-> Checked(CodeOf4(s[c], s[c + 1], s[c + 2], s[c + 3]), 4), bytes |-> 4]
<1>1. ~(s[c] < 128) /\ ~(s[c] < 224) /\ ~InRange(s[c], 224, 239)
  BY SMT DEF InRange, Leads4
<1> QED
  BY <1>1, SMT DEF utf8ToCodepoint, Leads4

LEMMA LowBits ==
  ASSUME NEW x \in Nat
  PROVE  /\ x % 64 \in Nat /\ x % 64 < 64 /\ x % 32 \in Nat /\ x % 32 < 32
         /\ x % 16 \in Nat /\ x % 16 < 16 /\ x % 8 \in Nat /\ x % 8 < 8
BY SMT

(* What the writer can take a string for: a code of up to 21 bits that is  *)
(* not half a surrogate pair.                                              *)
WrittenCode == {c \in Nat : c <= 2097151 /\ ~IsSurrogate(c)}

LEMMA TakenForCode ==
  ASSUME NEW s \in Seq(Byte), NEW c \in 1 .. Len(s)
  PROVE  \E code \in WrittenCode, bytes \in 1 .. 4 :
           /\ utf8ToCodepoint(s, c) = [code |-> code, bytes |-> bytes]
           /\ c - 1 + bytes <= Len(s)
<1> DEFINE b1 == s[c]
           left == Len(s) - c + 1
<1>1. Len(s) \in Nat /\ c \in Nat /\ 1 <= c /\ c <= Len(s) /\ left >= 1 /\ left \in Nat
  BY LenProperties
<1>2. \A k \in 1 .. Len(s) : s[k] \in Nat /\ s[k] < 256
  BY ElementOfSeq DEF Byte
<1>3. b1 \in Nat /\ b1 < 256
  BY <1>2
<1>4. REPLACEMENT_CHARACTER \in WrittenCode
  BY SMT DEF REPLACEMENT_CHARACTER, WrittenCode, IsSurrogate, InRange
<1> HIDE DEF left
<1>5. CASE b1 < 128
  <2>1. b1 \in WrittenCode
    BY <1>3, <1>5, SMT DEF WrittenCode, IsSurrogate, InRange
  <2>2. utf8ToCodepoint(s, c) = [code |-> b1, bytes |-> 1]
    BY <1>1, <1>5, TakenFor1
  <2>3. 1 \in 1 .. 4 /\ c - 1 + 1 <= Len(s)
    BY <1>1, SMT
  <2> QED
    BY <2>1, <2>2, <2>3
<1>6. CASE Leads2(b1) /\ left >= 2
  <2> DEFINE x == CodeOf2(b1, s[c + 1])
  <2>1. s[c + 1] \in Nat
    BY <1>1, <1>2, <1>6 DEF left
  <2>2. x \in Nat /\ x < 2048
    <3> DEFINE a == b1 % 32
               b == s[c + 1] % 64
    <3>1. a \in Nat /\ a < 32 /\ b \in Nat /\ b < 64
      BY <1>3, <2>1, LowBits
    <3>2. x = a * 64 + b
      BY SMT DEF CodeOf2
    <3> HIDE DEF a, b, x
    <3> QED
      BY <3>1, <3>2, SMT
  <2>3. utf8ToCodepoint(s, c) = [code |-> Checked(x, 2), bytes |-> 2]
    BY <1>1, <1>3, <1>6, TakenFor2, Zenon DEF left
  <2> HIDE DEF x
  <2>4. Checked(x, 2) \in WrittenCode
    BY <1>4, <2>2, CheckedIs, SMT DEF WrittenCode, IsSurrogate, InRange
  <2>5. 2 \in 1 .. 4 /\ c - 1 + 2 <= Len(s)
    BY <1>1, <1>6, SMT DEF left
  <2> QED
    BY <2>3, <2>4, <2>5
<1>7. CASE Leads3(b1) /\ left >= 3
  <2> DEFINE x == CodeOf3(b1, s[c + 1], s[c + 2])
  <2>1. s[c + 1] \in Nat /\ s[c + 2] \in Nat
    BY <1>1, <1>2, <1>7 DEF left
  <2>2. x \in Nat /\ x < 65536
    <3> DEFINE a == b1 % 16
               b == s[c + 1] % 64
               d == s[c + 2] % 64
    <3>1. a \in Nat /\ a < 16 /\ b \in Nat /\ b < 64 /\ d \in Nat /\ d < 64
      BY <1>3, <2>1, LowBits
    <3>2. x = a * 4096 + b * 64 + d
      BY SMT DEF CodeOf3
    <3> HIDE DEF a, b, d, x
    <3> QED
      BY <3>1, <3>2, SMT
  <2>3. utf8ToCodepoint(s, c) = [code |-> Checked(x, 3), bytes |-> 3]
    BY <1>1, <1>3, <1>7, TakenFor3, Zenon DEF left
  <2> HIDE DEF x
  <2>4. Checked(x, 3) \in WrittenCode
    BY <1>4, <2>2, CheckedIs, SMT DEF WrittenCode
  <2>5. 3 \in 1 .. 4 /\ c - 1 + 3 <= Len(s)
    BY <1>1, <1>7, SMT DEF left
  <2> QED
    BY <2>3, <2>4, <2>5
<1>8. CASE Leads4(b1) /\ left >= 4
  <2> DEFINE x == CodeOf4(b1, s[c + 1], s[c + 2], s[c + 3])
  <2>1. s[c + 1] \in Nat /\ s[c + 2] \in Nat /\ s[c + 3] \in Nat
    BY <1>1, <1>2, <1>8 DEF left
  <2>2. x \in Nat /\ x < 2097152
    <3> DEFINE a == b1 % 8
               b == s[c + 1] % 64
               d == s[c + 2] % 64
               e == s[c + 3] % 64
    <3>1. /\ a \in Nat /\ a < 8 /\ b \in Nat /\ b < 64
          /\ d \in Nat /\ d < 64 /\ e \in Nat /\ e < 64
      BY <1>3, <2>1, LowBits
    <3>2. x = a * 262144 + b * 4096 + d * 64 + e
      BY SMT DEF CodeOf4
    <3> HIDE DEF a, b, d, e, x
    <3> QED
      BY <3>1, <3>2, SMT
  <2>3. utf8ToCodepoint(s, c) = [code |-> Checked(x, 4), bytes |-> 4]
    BY <1>1, <1>3, <1>8, TakenFor4, Zenon DEF left
  <2> HIDE DEF x
  <2>4. Checked(x, 4) \in WrittenCode
    BY <1>4, <2>2, CheckedIs, SMT DEF WrittenCode, IsSurrogate, InRange
  <2>5. 4 \in 1 .. 4 /\ c - 1 + 4 <= Len(s)
    BY <1>1, <1>8, SMT DEF left
  <2> QED
    BY <2>3, <2>4, <2>5
<1>9. CASE /\ ~(b1 < 128) /\ ~(Leads2(b1) /\ left >= 2)
           /\ ~(Leads3(b1) /\ left >= 3) /\ ~(Leads4(b1) /\ left >= 4)
  <2>1. utf8ToCodepoint(s, c) = [code |-> REPLACEMENT_CHARACTER, bytes |-> 1]
    BY <1>9, SMT DEF utf8ToCodepoint, left, Leads2, Leads3, Leads4
  <2>2. 1 \in 1 .. 4 /\ c - 1 + 1 <= Len(s)
    BY <1>1, SMT
  <2> QED
    BY <1>4, <2>1, <2>2
<1> HIDE DEF b1
<1> QED
  BY <1>5, <1>6, <1>7, <1>8, <1>9

(* The bytes of one code point, by the table, and the code they stand for. *)
IsOneOf2(x, y) == InRange(x, 194, 223) /\ InRange(y, 128, 191)

IsOneOf3(x, y, z) ==
  /\ InRange(x, 224, 239) /\ InRange(y, 128, 191) /\ InRange(z, 128, 191)
  /\ x = 224 => y >= 160
  /\ x = 237 => y < 160

IsOneOf4(x, y, z, w) ==
  /\ InRange(x, 240, 244) /\ InRange(y, 128, 191) /\ InRange(z, 128, 191) /\ InRange(w, 128, 191)
  /\ x = 240 => y >= 144
  /\ x = 244 => y < 144

LEMMA CodeOfOne2 ==
  ASSUME NEW x \in Nat, NEW y \in Nat, IsOneOf2(x, y)
  PROVE  /\ Leads2(x) /\ CodeOf2(x, y) \in CodePoint /\ Checked(CodeOf2(x, y), 2) = CodeOf2(x, y)
         /\ codePointToUTF8(CodeOf2(x, y)) = <<x, y>>
<1> DEFINE a == x - 192
           b == y - 128
           cp == CodeOf2(x, y)
<1>1. a \in Nat /\ 2 <= a /\ a <= 31 /\ b \in Nat /\ b < 64 /\ x = 192 + a /\ y = 128 + b
  BY SMT DEF InRange, IsOneOf2
<1>2. Leads2(x)
  BY SMT DEF InRange, IsOneOf2, Leads2
<1> HIDE DEF a, b
<1>3. x % 32 = a /\ y % 64 = b
  BY <1>1, SMT
<1>4. cp = a * 64 + b
  BY <1>1, <1>3, SMT DEF CodeOf2
<1> HIDE DEF cp
<1>5. cp \in Nat /\ cp < 2048 /\ ~(cp < 128)
  BY <1>1, <1>4, SMT
<1>6. a \in Nat /\ b \in SixBits /\ IsBitsOf2(cp, a, b)
  BY <1>1, <1>4, SMT DEF SixBits, IsBitsOf2
<1>7. cp \in CodePoint /\ Checked(cp, 2) = cp
  BY <1>5, CheckedIs, SMT DEF CodePoint, IsSurrogate, InRange
<1>8. cp \in Nat
  BY <1>5
<1>9. codePointToUTF8(cp) = BytesOf2(a, b)
  BY <1>6, <1>8, EncodedAs2, Zenon
<1>10. BytesOf2(a, b) = <<x, y>>
  BY <1>1, SMT DEF BytesOf2
<1> QED
  BY <1>2, <1>7, <1>9, <1>10, Zenon DEF cp

LEMMA CodeOfOne3 ==
  ASSUME NEW x \in Nat, NEW y \in Nat, NEW z \in Nat, IsOneOf3(x, y, z)
  PROVE  /\ Leads3(x) /\ CodeOf3(x, y, z) \in CodePoint
         /\ Checked(CodeOf3(x, y, z), 3) = CodeOf3(x, y, z)
         /\ codePointToUTF8(CodeOf3(x, y, z)) = <<x, y, z>>
<1> DEFINE a == x - 224
           b == y - 128
           c == z - 128
           cp == CodeOf3(x, y, z)
<1>1. /\ a \in Nat /\ a <= 15 /\ b \in Nat /\ b < 64 /\ c \in Nat /\ c < 64
      /\ x = 224 + a /\ y = 128 + b /\ z = 128 + c
      /\ (a = 0 => b >= 32) /\ (a = 13 => b < 32)
  BY SMT DEF InRange, IsOneOf3
<1>2. Leads3(x)
  BY Zenon DEF IsOneOf3, Leads3
<1> HIDE DEF a, b, c
<1>3. x % 16 = a /\ y % 64 = b /\ z % 64 = c
  BY <1>1, SMT
<1>4. cp = a * 4096 + b * 64 + c
  BY <1>1, <1>3, SMT DEF CodeOf3
<1> HIDE DEF cp
<1>5. cp \in Nat /\ cp < 65536 /\ ~(cp < 2048) /\ (cp < 55296 \/ cp > 57343)
  BY <1>1, <1>4, SMT
<1>6. a \in Nat /\ b \in SixBits /\ c \in SixBits /\ IsBitsOf3(cp, a, b, c)
  BY <1>1, <1>4, <1>5, SMT DEF SixBits, IsBitsOf3
<1>7. cp \in CodePoint /\ Checked(cp, 3) = cp
  BY <1>5, CheckedIs, SMT DEF CodePoint, IsSurrogate, InRange
<1>8. cp \in Nat
  BY <1>5, SMT
<1>9. codePointToUTF8(cp) = BytesOf3(a, b, c)
  BY <1>6, <1>8, EncodedAs3, Zenon
<1>10. BytesOf3(a, b, c) = <<x, y, z>>
  BY <1>1, SMT DEF BytesOf3
<1> QED
  BY <1>2, <1>7, <1>9, <1>10, Zenon DEF cp

LEMMA CodeOfOne4 ==
  ASSUME NEW x \in Nat, NEW y \in Nat, NEW z \in Nat, NEW w \in Nat, IsOneOf4(x, y, z, w)
  PROVE  /\ Leads4(x) /\ CodeOf4(x, y, z, w) \in CodePoint
         /\ Checked(CodeOf4(x, y, z, w), 4) = CodeOf4(x, y, z, w)
         /\ codePointToUTF8(CodeOf4(x, y, z, w)) = <<x, y, z, w>>
<1> DEFINE a == x - 240
           b == y - 128
           c == z - 128
           d == w - 128
           cp == CodeOf4(x, y, z, w)
<1>1. /\ a \in Nat /\ a <= 4 /\ b \in Nat /\ b < 64 /\ c \in Nat /\ c < 64 /\ d \in Nat /\ d < 64
      /\ x = 240 + a /\ y = 128 + b /\ z = 128 + c /\ w = 128 + d
      /\ (a = 0 => b >= 16) /\ (a = 4 => b < 16)
  BY SMT DEF InRange, IsOneOf4
<1>2. Leads4(x)
  BY SMT DEF InRange, IsOneOf4, Leads4
<1> HIDE DEF a, b, c, d
<1>3. x % 8 = a /\ y % 64 = b /\ z % 64 = c /\ w % 64 = d
  BY <1>1, SMT
<1>4. cp = a * 262144 + b * 4096 + c * 64 + d
  BY <1>1, <1>3, SMT DEF CodeOf4
<1> HIDE DEF cp
<1>5. cp \in Nat /\ cp <= 1114111 /\ ~(cp < 65536)
  BY <1>1, <1>4, SMT
<1>6. a \in Nat /\ b \in SixBits /\ c \in SixBits /\ d \in SixBits /\ IsBitsOf4(cp, a, b, c, d)
  BY <1>1, <1>4, <1>5, SMT DEF SixBits, IsBitsOf4
<1>7. cp \in CodePoint /\ Checked(cp, 4) = cp
  BY <1>5, CheckedIs, SMT DEF CodePoint, IsSurrogate, InRange
<1>8. cp \in Nat
  BY <1>5, SMT
<1>9. codePointToUTF8(cp) = BytesOf4(a, b, c, d)
  BY <1>6, <1>8, EncodedAs4, SMT
<1>10. BytesOf4(a, b, c, d) = <<x, y, z, w>>
  BY <1>1, SMT DEF BytesOf4
<1> QED
  BY <1>2, <1>7, <1>9, <1>10, Zenon DEF cp

(* A sequence of up to four elements, written out.                         *)
LEMMA WrittenOut ==
  ASSUME NEW p \in Seq(Byte)
  PROVE  /\ Len(p) = 1 => p = <<p[1]>>
         /\ Len(p) = 2 => p = <<p[1], p[2]>>
         /\ Len(p) = 3 => p = <<p[1], p[2], p[3]>>
         /\ Len(p) = 4 => p = <<p[1], p[2], p[3], p[4]>>
BY LenProperties, SMT

(* The forms of IsOneCodePoint, byte by byte.                              *)
LEMMA FormsOfOne ==
  ASSUME NEW p \in Seq(Byte), IsOneCodePoint(p)
  PROVE  \/ Len(p) = 1 /\ p[1] < 128
         \/ Len(p) = 2 /\ IsOneOf2(p[1], p[2])
         \/ Len(p) = 3 /\ IsOneOf3(p[1], p[2], p[3])
         \/ Len(p) = 4 /\ IsOneOf4(p[1], p[2], p[3], p[4])
<1>1. Len(p) = 2 /\ Continues(p) => InRange(p[2], 128, 191)
  BY SMT DEF Continues
<1>2. Len(p) = 3 /\ Continues(p) => InRange(p[2], 128, 191) /\ InRange(p[3], 128, 191)
  BY SMT DEF Continues
<1>3. Len(p) = 4 /\ Continues(p) =>
        InRange(p[2], 128, 191) /\ InRange(p[3], 128, 191) /\ InRange(p[4], 128, 191)
  BY SMT DEF Continues
<1> QED
  BY <1>1, <1>2, <1>3, SMT DEF IsOneCodePoint, IsOneOf2, IsOneOf3, IsOneOf4

(* The code point that begins at byte c of s is that of these bytes.       *)
IsTakenFor(s, c, bytes) ==
  \E cp \in CodePoint : /\ utf8ToCodepoint(s, c) = [code |-> cp, bytes |-> Len(bytes)]
                        /\ codePointToUTF8(cp) = bytes

LEMMA DecodedOne ==
  ASSUME NEW s \in Seq(Byte), NEW c \in Nat, NEW x \in Nat, s[c] = x, x < 128
  PROVE  IsTakenFor(s, c, <<x>>)
<1>1. x \in CodePoint
  BY SMT DEF CodePoint, IsSurrogate, InRange
<1>2. utf8ToCodepoint(s, c) = [code |-> x, bytes |-> 1]
  BY TakenFor1
<1>3. codePointToUTF8(x) = <<x>>
  BY EncodedAs1, SMT
<1>4. Len(<<x>>) = 1
  BY SMT
<1> QED
  BY <1>1, <1>2, <1>3, <1>4, Zenon DEF IsTakenFor

LEMMA DecodedTwo ==
  ASSUME NEW s \in Seq(Byte), NEW c \in Nat, Len(s) - c + 1 >= 2, NEW x \in Nat, NEW y \in Nat,
         s[c] = x, s[c + 1] = y, IsOneOf2(x, y)
  PROVE  IsTakenFor(s, c, <<x, y>>)
<1> DEFINE cp == CodeOf2(x, y)
<1>1. Leads2(x) /\ cp \in CodePoint /\ Checked(cp, 2) = cp /\ codePointToUTF8(cp) = <<x, y>>
  BY CodeOfOne2, SMT
<1>2. s[c] \in Nat /\ Leads2(s[c])
  BY <1>1, Zenon
<1>3. utf8ToCodepoint(s, c) =
        [code |-> Checked(CodeOf2(s[c], s[c + 1]), 2), bytes |-> 2]
  BY <1>2, TakenFor2, Zenon
<1>4. Len(<<x, y>>) = 2
  BY SMT
<1> QED
  BY <1>1, <1>3, <1>4, Zenon DEF IsTakenFor

LEMMA DecodedThree ==
  ASSUME NEW s \in Seq(Byte), NEW c \in Nat, Len(s) - c + 1 >= 3,
         NEW x \in Nat, NEW y \in Nat, NEW z \in Nat,
         s[c] = x, s[c + 1] = y, s[c + 2] = z, IsOneOf3(x, y, z)
  PROVE  IsTakenFor(s, c, <<x, y, z>>)
<1> DEFINE cp == CodeOf3(x, y, z)
<1>1. Leads3(x) /\ cp \in CodePoint /\ Checked(cp, 3) = cp /\ codePointToUTF8(cp) = <<x, y, z>>
  BY CodeOfOne3, SMT
<1>2. s[c] \in Nat /\ Leads3(s[c])
  BY <1>1, Zenon
<1>3. utf8ToCodepoint(s, c) =
        [code |-> Checked(CodeOf3(s[c], s[c + 1], s[c + 2]), 3), bytes |-> 3]
  BY <1>2, TakenFor3, Zenon
<1>4. Len(<<x, y, z>>) = 3
  BY SMT
<1> QED
  BY <1>1, <1>3, <1>4, Zenon DEF IsTakenFor

LEMMA DecodedFour ==
  ASSUME NEW s \in Seq(Byte), NEW c \in Nat, Len(s) - c + 1 >= 4,
         NEW x \in Nat, NEW y \in Nat, NEW z \in Nat, NEW w \in Nat,
         s[c] = x, s[c + 1] = y, s[c + 2] = z, s[c + 3] = w, IsOneOf4(x, y, z, w)
  PROVE  IsTakenFor(s, c, <<x, y, z, w>>)
<1> DEFINE cp == CodeOf4(x, y, z, w)
<1>1. Leads4(x) /\ cp \in CodePoint /\ Checked(cp, 4) = cp /\ codePointToUTF8(cp) = <<x, y, z, w>>
  BY CodeOfOne4, SMT
<1>2. s[c] \in Nat /\ Leads4(s[c])
  BY <1>1, Zenon
<1>3. utf8ToCodepoint(s, c) =
        [code |-> Checked(CodeOf4(s[c], s[c + 1], s[c + 2], s[c + 3]), 4), bytes |-> 4]
  BY <1>2, TakenFor4, Zenon
<1>4. Len(<<x, y, z, w>>) = 4
  BY SMT
<1> QED
  BY <1>1, <1>3, <1>4, Zenon DEF IsTakenFor

(* Wherever the bytes of one code point are in a string, they are taken    *)
(* for that code point, all of them.                                       *)
HasAt(s, c, p) == Len(s) - c + 1 >= Len(p) /\ \A k \in 1 .. Len(p) : s[c - 1 + k] = p[k]

LEMMA OneIsDecodedAt ==
  ASSUME NEW s \in Seq(Byte), NEW c \in Nat, NEW p \in Seq(Byte), IsOneCodePoint(p), HasAt(s, c, p)
  PROVE  IsTakenFor(s, c, p)
<1>1. \A k \in 1 .. Len(p) : p[k] \in Nat /\ s[c - 1 + k] = p[k]
  BY ElementOfSeq DEF Byte, HasAt
<1>2. Len(s) - c + 1 >= Len(p)
  BY DEF HasAt
<1>3. CASE Len(p) = 1 /\ p[1] < 128
  <2> DEFINE x == p[1]
  <2>1. x \in Nat /\ x < 128
    BY <1>1, <1>3, SMT
  <2>2. s[c] = x /\ Len(s) - c + 1 >= 1
    BY <1>1, <1>2, <1>3, SMT
  <2>3. p = <<x>>
    BY <1>3, WrittenOut, Zenon
  <2> HIDE DEF x
  <2>4. IsTakenFor(s, c, <<x>>)
    BY <2>1, <2>2, DecodedOne, Zenon
  <2> QED
    BY <2>3, <2>4, Zenon
<1>4. CASE Len(p) = 2 /\ IsOneOf2(p[1], p[2])
  <2> DEFINE x == p[1]
             y == p[2]
  <2>1. x \in Nat /\ y \in Nat /\ IsOneOf2(x, y)
    BY <1>1, <1>4, SMT
  <2>2. s[c] = x /\ s[c + 1] = y /\ Len(s) - c + 1 >= 2
    BY <1>1, <1>2, <1>4, SMT
  <2>3. p = <<x, y>>
    BY <1>4, WrittenOut, Zenon
  <2> HIDE DEF x, y
  <2>4. IsTakenFor(s, c, <<x, y>>)
    BY <2>1, <2>2, DecodedTwo, Zenon
  <2> QED
    BY <2>3, <2>4, Zenon
<1>5. CASE Len(p) = 3 /\ IsOneOf3(p[1], p[2], p[3])
  <2> DEFINE x == p[1]
             y == p[2]
             z == p[3]
  <2>1. x \in Nat /\ y \in Nat /\ z \in Nat /\ IsOneOf3(x, y, z)
    BY <1>1, <1>5, SMT
  <2>2. s[c] = x /\ s[c + 1] = y /\ s[c + 2] = z /\ Len(s) - c + 1 >= 3
    BY <1>1, <1>2, <1>5, SMT
  <2>3. p = <<x, y, z>>
    BY <1>5, WrittenOut, Zenon
  <2> HIDE DEF x, y, z
  <2>4. IsTakenFor(s, c, <<x, y, z>>)
    BY <2>1, <2>2, DecodedThree, Zenon
  <2> QED
    BY <2>3, <2>4, Zenon
<1>6. CASE Len(p) = 4 /\ IsOneOf4(p[1], p[2], p[3], p[4])
  <2> DEFINE x == p[1]
             y == p[2]
             z == p[3]
             w == p[4]
  <2>1. x \in Nat /\ y \in Nat /\ z \in Nat /\ w \in Nat /\ IsOneOf4(x, y, z, w)
    BY <1>1, <1>6, SMT
  <2>2. s[c] = x /\ s[c + 1] = y /\ s[c + 2] = z /\ s[c + 3] = w /\ Len(s) - c + 1 >= 4
    BY <1>1, <1>2, <1>6, SMT
  <2>3. p = <<x, y, z, w>>
    BY <1>6, WrittenOut, Zenon
  <2> HIDE DEF x, y, z, w
  <2>4. IsTakenFor(s, c, <<x, y, z, w>>)
    BY <2>1, <2>2, DecodedFour, Zenon
  <2> QED
    BY <2>3, <2>4, Zenon
<1> QED
  BY <1>3, <1>4, <1>5, <1>6, FormsOfOne, Zenon

LEMMA OneIsDecoded ==
  ASSUME NEW s \in Seq(Byte), NEW m \in Nat, NEW n \in 1 .. Len(s), m < n,
         IsOneCodePoint(SubSeq(s, m + 1, n))
  PROVE  \E cp \in CodePoint :
           /\ utf8ToCodepoint(s, m + 1) = [code |-> cp, bytes |-> n - m]
           /\ codePointToUTF8(cp) = SubSeq(s, m + 1, n)
<1> DEFINE p == SubSeq(s, m + 1, n)
           c == m + 1
<1>0. Len(s) \in Nat /\ n <= Len(s) /\ n \in Nat
  BY LenProperties
<1>1. p \in Seq(Byte) /\ Len(p) = n - m /\ \A k \in 1 .. Len(p) : p[k] = s[c - 1 + k]
  BY <1>0, SMT
<1>2. c \in Nat /\ Len(s) - c + 1 >= Len(p)
  BY <1>0, <1>1, SMT
<1>3. IsOneCodePoint(p)
  OBVIOUS
<1> HIDE DEF p, c
<1>4. HasAt(s, c, p)
  BY <1>1, <1>2, Zenon DEF HasAt
<1>5. IsTakenFor(s, c, p)
  BY <1>1, <1>2, <1>3, <1>4, OneIsDecodedAt, Zenon
<1> QED
  BY <1>1, <1>5, Zenon DEF IsTakenFor, p, c

-----------------------------------------------------------------------------
(* One turn of the writer, and the turn of the reader that undoes it.      *)

(* The units e stand for the code point cp.                                *)
StandFor(e, cp) ==
  \/ cp < 128 /\ (e = <<Raw(cp)>> \/ e = <<Escape(cp)>>)
  \/ cp < 65536 /\ e = <<Hex(cp)>>
  \/ \E high, low \in Code :
       /\ IsHighSurrogate(high) /\ e = <<Hex(high), Hex(low)>>
       /\ cp = JoinedPair(high, low)

(* The code point that is read back for a code: the writer leaves out what *)
(* does not fit into a surrogate pair.                                     *)
PairedCode(code) == 65536 + (((code - 65536) \div 1024) % 1024) * 1024 + ((code - 65536) % 1024)

ReadBack(code) == IF code < 65536 THEN code ELSE PairedCode(code)

LEMMA PairIsCode ==
  ASSUME NEW code \in WrittenCode, ~(code < 65536)
  PROVE  /\ PairedCode(code) \in CodePoint
         /\ code <= 1114111 => PairedCode(code) = code
<1> DEFINE v == code - 65536
           q == v \div 1024
           l == v % 1024
           h == q % 1024
<1>1. v \in Nat /\ code \in Nat
  BY SMT DEF WrittenCode
<1>2. PairedCode(code) = 65536 + h * 1024 + l
  BY SMT DEF PairedCode
<1>3. code = 65536 + v
  BY <1>1, SMT
<1> HIDE DEF v
<1>4. q \in Nat /\ l \in Nat /\ l < 1024 /\ v = q * 1024 + l
  BY <1>1, SMT
<1> HIDE DEF q, l
<1>5. h \in Nat /\ h < 1024 /\ (q < 1024 => h = q)
  BY <1>4, SMT
<1> HIDE DEF h
<1>6. PairedCode(code) \in Nat /\ PairedCode(code) <= 1114111 /\ PairedCode(code) > 57343
  BY <1>2, <1>4, <1>5, SMT
<1>7. PairedCode(code) \in CodePoint
  BY <1>6, SMT DEF CodePoint, IsSurrogate, InRange
<1>8. ASSUME code <= 1114111 PROVE PairedCode(code) = code
  BY <1>1, <1>2, <1>3, <1>4, <1>5, <1>8, SMT
<1> QED
  BY <1>7, <1>8, SMT

LEMMA ReadBackIsCode ==
  ASSUME NEW code \in WrittenCode
  PROVE  ReadBack(code) \in CodePoint /\ (code \in CodePoint => ReadBack(code) = code)
<1>1. CASE code < 65536
  BY <1>1, SMT DEF ReadBack, CodePoint, WrittenCode
<1>2. CASE ~(code < 65536)
  <2>1. ReadBack(code) = PairedCode(code)
    BY <1>2, SMT DEF ReadBack
  <2>2. code \in CodePoint => code <= 1114111
    BY CodePointType, SMT
  <2> QED
    BY <1>2, <2>1, <2>2, PairIsCode, SMT
<1> QED
  BY <1>1, <1>2

LEMMA UnitTypes ==
  /\ \A b \in Byte : Raw(b) \in Unit /\ Escape(b) \in Unit
  /\ \A c \in Code : Hex(c) \in Unit
BY DEF Unit, Raw, Escape, Hex

LEMMA PairStandsFor ==
  ASSUME NEW code \in WrittenCode, ~(code < 65536)
  PROVE  \E high, low \in Code :
           /\ SurrogatePair(code) = <<Hex(high), Hex(low)>> /\ IsHighSurrogate(high)
           /\ PairedCode(code) = JoinedPair(high, low)
<1> DEFINE v == code - 65536
           h == (v \div 1024) % 1024
           l == v % 1024
           high == 55296 + h
           low == 56320 + l
<1>1. v \in Nat
  BY SMT DEF WrittenCode
<1>2. SurrogatePair(code) = <<Hex(high), Hex(low)>>
  BY SMT DEF SurrogatePair
<1>3. PairedCode(code) = 65536 + h * 1024 + l
  BY SMT DEF PairedCode
<1> HIDE DEF v
<1>4. h \in Nat /\ h < 1024 /\ l \in Nat /\ l < 1024
  BY <1>1, SMT
<1> HIDE DEF h, l
<1>5. high % 1024 = h /\ low % 1024 = l
  BY <1>4, SMT
<1>6. high \in Code /\ low \in Code
  BY <1>4, SMT DEF Code
<1>7. IsHighSurrogate(high)
  BY <1>4, SMT DEF IsHighSurrogate, InRange
<1> HIDE DEF high, low
<1>8. PairedCode(code) = JoinedPair(high, low)
  BY <1>3, <1>5, SMT DEF JoinedPair
<1> QED
  BY <1>2, <1>6, <1>7, <1>8, SMT

LEMMA EscapedStandsFor ==
  ASSUME NEW code \in WrittenCode
  PROVE  /\ EscapedCode(code) \in Seq(Unit) /\ Len(EscapedCode(code)) \in Nat \ {0}
         /\ StandFor(EscapedCode(code), ReadBack(code))
<1>0. code \in Nat
  BY DEF WrittenCode
<1>1. CASE InRange(code, 32, 127)
  <2>1. EscapedCode(code) = <<Raw(code)>>
    BY <1>1, SMT DEF EscapedCode
  <2>2. code \in Byte /\ ReadBack(code) = code /\ code < 128
    BY <1>0, <1>1, SMT DEF Byte, ReadBack, InRange
  <2>3. Raw(code) \in Unit
    BY <2>2, UnitTypes
  <2>4. <<Raw(code)>> \in Seq(Unit) /\ Len(<<Raw(code)>>) \in Nat \ {0}
    BY <2>3, SMT
  <2> QED
    BY <2>1, <2>2, <2>4, SMT DEF StandFor
<1>2. CASE ~InRange(code, 32, 127) /\ code < 65536
  <2>1. EscapedCode(code) = <<Hex(code)>>
    BY <1>2, SMT DEF EscapedCode
  <2>2. code \in Code /\ ReadBack(code) = code
    BY <1>0, <1>2, SMT DEF Code, ReadBack
  <2>3. Hex(code) \in Unit
    BY <2>2, UnitTypes
  <2>4. <<Hex(code)>> \in Seq(Unit) /\ Len(<<Hex(code)>>) \in Nat \ {0}
    BY <2>3, SMT
  <2> QED
    BY <1>2, <2>1, <2>2, <2>4, SMT DEF StandFor
<1>3. CASE ~(code < 65536)
  <2>1. PICK high, low \in Code :
          /\ SurrogatePair(code) = <<Hex(high), Hex(low)>> /\ IsHighSurrogate(high)
          /\ PairedCode(code) = JoinedPair(high, low)
    BY <1>3, PairStandsFor
  <2>2. EscapedCode(code) = <<Hex(high), Hex(low)>>
    BY <1>0, <1>3, <2>1, SMT DEF EscapedCode, InRange
  <2>3. Hex(high) \in Unit /\ Hex(low) \in Unit
    BY UnitTypes
  <2>4. <<Hex(high), Hex(low)>> \in Seq(Unit) /\ Len(<<Hex(high), Hex(low)>>) \in Nat \ {0}
    BY <2>3, SMT
  <2>5. ReadBack(code) = PairedCode(code)
    BY <1>3, SMT DEF ReadBack
  <2> QED
    BY <2>1, <2>2, <2>4, <2>5, SMT DEF StandFor
<1> QED
  BY <1>1, <1>2, <1>3

(* The characters that have an escape of their own.                        *)
LEMMA ShortEscapeType ==
  ASSUME NEW b \in ShortEscape
  PROVE  b \in Byte /\ b \in CodePoint /\ b < 128
BY SMT DEF ShortEscape, Byte, CodePoint, IsSurrogate, InRange

(* A turn of the writer takes one to four bytes and appends units that     *)
(* stand for a code point: that of the bytes, if they are one.             *)
LEMMA WriterTurn ==
  ASSUME NEW s \in Seq(Byte), NEW a \in Nat, a < Len(s), NEW r
  PROVE  \E e \in Seq(Unit), bytes \in 1 .. 4, cp \in CodePoint :
           /\ WriteTurn(s, [at |-> a, result |-> r]) = [at |-> a + bytes, result |-> r \o e]
           /\ a + bytes <= Len(s) /\ Len(e) \in Nat \ {0} /\ StandFor(e, cp)
           /\ \A n \in 1 .. Len(s) :
                a < n /\ IsOneCodePoint(SubSeq(s, a + 1, n)) =>
                  a + bytes = n /\ codePointToUTF8(cp) = SubSeq(s, a + 1, n)
<1> DEFINE c == a + 1
           b == s[c]
           w == [at |-> a, result |-> r]
<1>0. Len(s) \in Nat /\ c \in 1 .. Len(s) /\ c \in Nat /\ c - 1 = a
  BY LenProperties
<1>1. PICK code \in WrittenCode, bytes \in 1 .. 4 :
        utf8ToCodepoint(s, c) = [code |-> code, bytes |-> bytes] /\ c - 1 + bytes <= Len(s)
  BY <1>0, TakenForCode
<1>2. a + bytes <= Len(s)
  BY <1>0, <1>1
<1> DEFINE u == utf8ToCodepoint(s, c)
           cp == ReadBack(code)
           e == IF b \in ShortEscape THEN <<Escape(b)>> ELSE EscapedCode(code)
<1>3. cp \in CodePoint /\ (code \in CodePoint => cp = code)
  BY ReadBackIsCode, SMT
<1>4. u.code = code /\ u.bytes = bytes
  BY <1>1, SMT
<1>5. ASSUME b \in ShortEscape PROVE code = b /\ bytes = 1 /\ cp = b
  <2>1. b < 128 /\ b \in CodePoint
    BY <1>5, ShortEscapeType
  <2>2. u = [code |-> b, bytes |-> 1]
    BY <1>0, <2>1, TakenFor1
  <2>3. code = b /\ bytes = 1
    BY <1>4, <2>2, SMT
  <2> QED
    BY <1>3, <2>1, <2>3, SMT
<1>6. WriteTurn(s, w) = [at |-> a + bytes, result |-> r \o e]
  <2>1. w.at = a /\ w.result = r /\ a # Len(s)
    BY <1>0, SMT
  <2>2. CASE b \in ShortEscape
    <3>1. WriteTurn(s, w) = [at |-> a + 1, result |-> r \o <<Escape(b)>>]
      BY <2>1, <2>2, SMT DEF WriteTurn
    <3> QED
      BY <1>5, <2>2, <3>1, SMT
  <2>3. CASE b \notin ShortEscape
    <3>1. WriteTurn(s, w) = [at |-> a + u.bytes, result |-> r \o EscapedCode(u.code)]
      BY <2>1, <2>3, Zenon DEF WriteTurn
    <3>2. e = EscapedCode(code)
      BY <2>3, Zenon
    <3> HIDE DEF e, u, w, b
    <3> QED
      BY <1>4, <3>1, <3>2, Zenon
  <2> QED
    BY <2>2, <2>3
<1>7. e \in Seq(Unit) /\ Len(e) \in Nat \ {0} /\ StandFor(e, cp)
  <2>1. CASE b \in ShortEscape
    <3>1. b \in Byte /\ b < 128 /\ cp = b /\ e = <<Escape(b)>>
      BY <1>5, <2>1, ShortEscapeType, Zenon
    <3>2. Escape(b) \in Unit
      BY <3>1, UnitTypes
    <3>3. <<Escape(b)>> \in Seq(Unit) /\ Len(<<Escape(b)>>) \in Nat \ {0}
      BY <3>2, SMT
    <3> HIDE DEF e, cp, b
    <3> QED
      BY <3>1, <3>3, SMT DEF StandFor
  <2>2. CASE b \notin ShortEscape
    BY <2>2, EscapedStandsFor, Zenon
  <2> QED
    BY <2>1, <2>2
<1>8. ASSUME NEW n \in 1 .. Len(s), a < n, IsOneCodePoint(SubSeq(s, a + 1, n))
      PROVE  a + bytes = n /\ codePointToUTF8(cp) = SubSeq(s, a + 1, n)
  <2>1. PICK one \in CodePoint :
          /\ utf8ToCodepoint(s, a + 1) = [code |-> one, bytes |-> n - a]
          /\ codePointToUTF8(one) = SubSeq(s, a + 1, n)
    BY <1>8, OneIsDecoded
  <2>2. u = [code |-> one, bytes |-> n - a]
    BY <2>1, Zenon
  <2>3. code = one /\ bytes = n - a
    BY <1>4, <2>2, SMT
  <2>4. a + bytes = n
    BY <1>0, <2>3, SMT
  <2>5. cp = one
    BY <1>3, <2>3, SMT
  <2> QED
    BY <2>1, <2>4, <2>5, Zenon
<1> HIDE DEF e, cp, u, w, b
<1> QED
  BY <1>2, <1>3, <1>6, <1>7, <1>8, Zenon DEF w

LEMMA HexParts ==
  ASSUME NEW x
  PROVE  /\ Raw(x).kind = "raw" /\ Raw(x).of = x /\ Escape(x).kind = "escape" /\ Escape(x).of = x
         /\ Hex(x).kind = "hex" /\ Hex(x).of = x
BY SMT DEF Raw, Escape, Hex

AtPair(t, d) ==
  /\ d.verdict # "error" /\ d.at # Len(t) /\ ~(d.at + 2 > Len(t))
  /\ t[d.at + 1].kind = "hex" /\ t[d.at + 2].kind = "hex" /\ IsHighSurrogate(t[d.at + 1].of)

LEMMA TurnAtPair ==
  ASSUME NEW t, NEW d, AtPair(t, d)
  PROVE  DecodeTurn(t, d) =
           [verdict |-> "ok", at |-> d.at + 2,
            string |-> d.string \o codePointToUTF8(JoinedPair(t[d.at + 1].of, t[d.at + 2].of))]
BY SMT DEF DecodeTurn, AtPair

(* A turn of the reader at such units reads the code point.                *)
IsNext(t, a, e, cp) == HasAt(t, a + 1, e) /\ StandFor(e, cp)

IsReadNext(t, a, g, e, cp) ==
  DecodeTurn(t, [verdict |-> "ok", at |-> a, string |-> g]) =
    [verdict |-> "ok", at |-> a + Len(e), string |-> g \o codePointToUTF8(cp)]

LEMMA ReaderTurn ==
  ASSUME NEW t \in Seq(Unit), NEW a \in Nat, NEW g \in Seq(Byte), NEW e \in Seq(Unit),
         NEW cp \in CodePoint, IsNext(t, a, e, cp)
  PROVE  IsReadNext(t, a, g, e, cp)
<1> DEFINE d == [verdict |-> "ok", at |-> a, string |-> g]
           u == t[a + 1]
           second == t[a + 2]
<1>0. Len(t) \in Nat /\ cp \in Nat /\ (cp < 55296 \/ cp > 57343)
  BY LenProperties, CodePointType, SMT
<1>1. d.verdict = "ok" /\ d.at = a /\ d.string = g
  BY SMT
<1>2. Len(t) - a >= Len(e) /\ \A k \in 1 .. Len(e) : t[a + k] = e[k]
  BY <1>0, SMT DEF IsNext, HasAt
<1> DEFINE Goal == DecodeTurn(t, d) =
                     [verdict |-> "ok", at |-> a + Len(e), string |-> g \o codePointToUTF8(cp)]
<1> SUFFICES Goal
  BY Zenon DEF IsReadNext
<1> HIDE DEF d
<1>3. CASE cp < 128 /\ (e = <<Raw(cp)>> \/ e = <<Escape(cp)>>)
  <2>1. Len(e) = 1 /\ (e[1] = Raw(cp) \/ e[1] = Escape(cp))
    BY <1>3, SMT
  <2>2. u = e[1] /\ a # Len(t)
    BY <1>0, <1>2, <2>1, SMT
  <2>3. u.kind \in {"raw", "escape"} /\ u.of = cp
    BY <2>1, <2>2, HexParts, SMT
  <2>4. DecodeTurn(t, d) = [verdict |-> "ok", at |-> a + 1, string |-> g \o <<cp>>]
    BY <1>1, <2>2, <2>3, SMT DEF DecodeTurn
  <2>5. codePointToUTF8(cp) = <<cp>>
    BY <1>0, <1>3, EncodedAs1, SMT
  <2> QED
    BY <2>1, <2>4, <2>5, SMT
<1>4. CASE cp < 65536 /\ e = <<Hex(cp)>>
  <2>1. Len(e) = 1 /\ e[1] = Hex(cp)
    BY <1>4, SMT
  <2>2. u = e[1] /\ a # Len(t)
    BY <1>0, <1>2, <2>1, SMT
  <2>3. u.kind = "hex" /\ u.of = cp /\ ~IsHighSurrogate(cp)
    BY <1>0, <2>1, <2>2, HexParts, SMT DEF IsHighSurrogate, InRange
  <2>4. DecodeTurn(t, d) = [verdict |-> "ok", at |-> a + 1, string |-> g \o codePointToUTF8(cp)]
    BY <1>1, <2>2, <2>3, SMT DEF DecodeTurn
  <2> QED
    BY <2>1, <2>4, SMT
<1>5. ASSUME NEW high \in Code, NEW low \in Code, IsHighSurrogate(high),
             e = <<Hex(high), Hex(low)>>, cp = JoinedPair(high, low)
      PROVE  Goal
  <2>1. Len(e) = 2 /\ e[1] = Hex(high) /\ e[2] = Hex(low)
    BY <1>5, SMT
  <2>2. u = e[1] /\ second = e[2] /\ a # Len(t) /\ ~(a + 2 > Len(t))
    BY <1>0, <1>2, <2>1, SMT
  <2>3. u.kind = "hex" /\ u.of = high /\ second.kind = "hex" /\ second.of = low
    BY <2>1, <2>2, HexParts, SMT
  <2>4. DecodeTurn(t, d) = [verdict |-> "ok", at |-> a + 2, string |-> g \o codePointToUTF8(cp)]
    <3>0. AtPair(t, d)
      BY <1>1, <1>5, <2>2, <2>3, SMT DEF AtPair
    <3>1. DecodeTurn(t, d) =
            [verdict |-> "ok", at |-> d.at + 2,
             string |-> d.string \o codePointToUTF8(JoinedPair(t[d.at + 1].of, t[d.at + 2].of))]
      BY <3>0, TurnAtPair, Zenon
    <3> QED
      BY <1>1, <1>5, <2>3, <3>1, Zenon
  <2> QED
    BY <2>1, <2>4, SMT
<1> HIDE DEF Goal
<1> QED
  BY <1>3, <1>4, <1>5, SMT DEF IsNext, StandFor

-----------------------------------------------------------------------------
(* The loop of the writer.                                                 *)
WriterState(s) == [at : 0 .. Len(s), result : Seq(Unit)]

(* A turn that appends the units e for so many bytes.                      *)
Writes(s, w, e, bytes, cp) ==
  /\ WriteTurn(s, w) = [at |-> w.at + bytes, result |-> w.result \o e]
  /\ w.at + bytes <= Len(s) /\ Len(e) \in Nat \ {0} /\ StandFor(e, cp)
  /\ \A n \in 1 .. Len(s) :
       w.at < n /\ IsOneCodePoint(SubSeq(s, w.at + 1, n)) =>
         w.at + bytes = n /\ codePointToUTF8(cp) = SubSeq(s, w.at + 1, n)

LEMMA WriterStep ==
  ASSUME NEW s \in Seq(Byte), NEW w \in WriterState(s), w.at # Len(s)
  PROVE  \E e \in Seq(Unit), bytes \in 1 .. 4, cp \in CodePoint : Writes(s, w, e, bytes, cp)
<1> DEFINE a == w.at
           r == w.result
<1>0. Len(s) \in Nat
  BY LenProperties
<1>1. a \in Nat /\ a < Len(s) /\ w = [at |-> a, result |-> r]
  BY <1>0, SMT DEF WriterState
<1>2. PICK e \in Seq(Unit), bytes \in 1 .. 4, cp \in CodePoint :
        /\ WriteTurn(s, [at |-> a, result |-> r]) = [at |-> a + bytes, result |-> r \o e]
        /\ a + bytes <= Len(s) /\ Len(e) \in Nat \ {0} /\ StandFor(e, cp)
        /\ \A n \in 1 .. Len(s) :
             a < n /\ IsOneCodePoint(SubSeq(s, a + 1, n)) =>
               a + bytes = n /\ codePointToUTF8(cp) = SubSeq(s, a + 1, n)
  BY <1>1, WriterTurn
<1>3. Writes(s, w, e, bytes, cp)
  BY <1>1, <1>2, Zenon DEF Writes
<1> QED
  BY <1>3

LEMMA WriterType ==
  ASSUME NEW s \in Seq(Byte), NEW w \in WriterState(s)
  PROVE  /\ WriteTurn(s, w) \in WriterState(s)
         /\ w.at = Len(s) => WriteTurn(s, w) = w
         /\ w.at # Len(s) => WriteTurn(s, w).at > w.at
<1>0. Len(s) \in Nat
  BY LenProperties
<1>1. CASE w.at = Len(s)
  <2>1. WriteTurn(s, w) = w
    BY <1>1, Zenon DEF WriteTurn
  <2> QED
    BY <1>1, <2>1
<1>2. CASE w.at # Len(s)
  <2>1. PICK e \in Seq(Unit), bytes \in 1 .. 4, cp \in CodePoint : Writes(s, w, e, bytes, cp)
    BY <1>2, WriterStep
  <2> DEFINE a == w.at
             r == w.result
  <2>2. a \in Nat /\ r \in Seq(Unit)
    BY <1>0, SMT DEF WriterState
  <2>3. WriteTurn(s, w) = [at |-> a + bytes, result |-> r \o e] /\ a + bytes <= Len(s)
    BY <2>1, Zenon DEF Writes
  <2> HIDE DEF a, r
  <2>4. r \o e \in Seq(Unit)
    BY <2>2, ConcatProperties
  <2>5. WriteTurn(s, w).at = a + bytes /\ a + bytes > a /\ a + bytes \in 0 .. Len(s)
    BY <1>0, <2>2, <2>3, SMT
  <2>6. WriteTurn(s, w) \in WriterState(s)
    BY <2>3, <2>4, <2>5, SMT DEF WriterState
  <2> QED
    BY <1>2, <2>5, <2>6 DEF a
<1> QED
  BY <1>1, <1>2

(* The run of the writer, followed for as long as one likes.               *)
IsWriterRun(w, s, K) ==
  /\ w \in [0 .. K -> WriterState(s)] /\ w[0] = [at |-> 0, result |-> <<>>]
  /\ \A n \in 1 .. K : w[n] = WriteTurn(s, w[n - 1])

LEMMA WriterRuns ==
  ASSUME NEW s \in Seq(Byte), NEW K \in Nat, Len(s) <= K
  PROVE  \E w : /\ IsWriterRun(w, s, K) /\ w[K].at = Len(s)
                /\ valueToQuotedStringN(s) = w[K].result
<1> DEFINE S == WriterState(s)
           N == Len(s)
           c == [at |-> 0, result |-> <<>>]
           turn == [x \in S |-> WriteTurn(s, x)]
           halted == {x \in S : x.at = N}
           progress == [x \in S |-> x.at]
<1>0. N \in Nat /\ N <= K
  BY LenProperties
<1>1. c \in S
  BY <1>0, SMT DEF WriterState
<1>2. \A x \in S : x.at \in 0 .. N
  BY DEF WriterState
<1>3. \A x \in S : turn[x] = WriteTurn(s, x) /\ turn[x] \in S
  BY WriterType
<1>4. \A x \in S : (x.at = N => turn[x] = x) /\ (x.at # N => turn[x].at > x.at)
  BY <1>3, WriterType
<1> HIDE DEF S, N, c
<1>5. Halts(S, N, turn, halted, progress)
  <2>1. turn \in [S -> S]
    BY <1>3, Zenon
  <2>2. halted \subseteq S
    OBVIOUS
  <2>3. progress \in [S -> 0 .. N]
    BY <1>2, Zenon
  <2>4. \A x \in S : progress[x] = x.at
    OBVIOUS
  <2>5. \A x \in S : x \in halted <=> x.at = N
    OBVIOUS
  <2> HIDE DEF turn, halted, progress
  <2> QED
    BY <1>3, <1>4, <2>1, <2>2, <2>3, <2>4, <2>5, Zenon DEF Halts
<1>6. \A x \in halted : x.at = N
  OBVIOUS
<1> HIDE DEF turn, halted, progress
<1>7. PICK f : Follows(f, S, c, K, turn) /\ f[K] = f[N] /\ f[K] \in halted
  BY <1>0, <1>1, <1>5, HaltingLoop, SMT
<1>8. f \in [0 .. K -> S] /\ f[0] = c
  BY <1>7 DEF Follows
<1>9. ASSUME NEW i \in 1 .. K PROVE f[i] = WriteTurn(s, f[i - 1])
  <2>1. f[i] = turn[f[i - 1]] /\ f[i - 1] \in S
    BY <1>7, <1>8 DEF Follows
  <2> QED
    BY <1>3, <2>1
<1> DEFINE g == [n \in 0 .. N |-> f[n]]
<1>10. g = [n \in 0 .. N |-> IF n = 0 THEN c ELSE WriteTurn(s, g[n - 1])]
  BY <1>0, <1>8, <1>9
<1> HIDE DEF g
<1> DEFINE h == CHOOSE v : v = [n \in 0 .. N |-> IF n = 0 THEN c ELSE WriteTurn(s, v[n - 1])]
<1>11. h = [n \in 0 .. N |-> IF n = 0 THEN c ELSE WriteTurn(s, h[n - 1])]
  BY <1>10
<1>12. valueToQuotedStringN(s) = h[N].result
  BY Zenon DEF valueToQuotedStringN, N, c
<1> HIDE DEF h
<1>13. h[N] = f[N]
  <2> DEFINE I == {n \in 0 .. N : h[n] = f[n]}
  <2>1. 0 \in I
    BY <1>0, <1>8, <1>11
  <2>2. ASSUME NEW n \in 0 .. N - 1, n \in I PROVE n + 1 \in I
    <3>1. n + 1 \in 1 .. K /\ n + 1 \in 0 .. N /\ n + 1 # 0 /\ (n + 1) - 1 = n
      BY <1>0
    <3>2. h[n + 1] = WriteTurn(s, h[n])
      BY <1>11, <3>1
    <3>3. f[n + 1] = WriteTurn(s, f[n])
      BY <1>9, <3>1
    <3>4. h[n] = f[n]
      BY <2>2
    <3> QED
      BY <3>1, <3>2, <3>3, <3>4
  <2> HIDE DEF I
  <2>3. 0 .. N \subseteq I
    BY <1>0, <2>1, <2>2, InductionUpTo
  <2> QED
    BY <1>0, <2>3 DEF I
<1>14. IsWriterRun(f, s, K)
  BY <1>8, <1>9, Zenon DEF IsWriterRun, S, c
<1>15. f[K].at = Len(s) /\ valueToQuotedStringN(s) = f[K].result
  BY <1>6, <1>7, <1>12, <1>13, Zenon DEF N
<1> QED
  BY <1>14, <1>15, Zenon

-----------------------------------------------------------------------------
(* The loop of the reader.                                                 *)
LEMMA EncodedType ==
  ASSUME NEW cp \in Nat
  PROVE  codePointToUTF8(cp) \in Seq(Byte)
<1>1. \A x, y, z, w \in Byte : /\ <<x>> \in Seq(Byte) /\ <<x, y>> \in Seq(Byte)
                               /\ <<x, y, z>> \in Seq(Byte) /\ <<x, y, z, w>> \in Seq(Byte)
  BY SMT
<1>2. \A x \in Nat : /\ 192 + (x % 32) \in Byte /\ 224 + (x % 16) \in Byte
                     /\ 240 + (x % 8) \in Byte /\ 128 + (x % 64) \in Byte
  <2> SUFFICES ASSUME NEW x \in Nat
               PROVE  /\ 192 + (x % 32) \in Byte /\ 224 + (x % 16) \in Byte
                      /\ 240 + (x % 8) \in Byte /\ 128 + (x % 64) \in Byte
    OBVIOUS
  <2> QED
    BY LowBits, SMT DEF Byte
<1>3. cp \div 64 \in Nat /\ cp \div 4096 \in Nat /\ cp \div 262144 \in Nat
  BY SMT
<1>4. <<>> \in Seq(Byte)
  BY SMT
<1>5. CASE cp <= 127
  <2>1. codePointToUTF8(cp) = OneByte(cp) /\ cp \in Byte
    BY <1>5, SMT DEF codePointToUTF8, Byte
  <2> QED
    BY <1>1, <2>1, Zenon DEF OneByte
<1>6. CASE ~(cp <= 127) /\ cp <= 2047
  <2>1. codePointToUTF8(cp) = TwoBytes(cp)
    BY <1>6, SMT DEF codePointToUTF8
  <2> DEFINE x == 192 + ((cp \div 64) % 32)
             y == 128 + (cp % 64)
  <2>2. x \in Byte /\ y \in Byte
    BY <1>2, <1>3, SMT
  <2>3. TwoBytes(cp) = <<x, y>>
    BY SMT DEF TwoBytes
  <2> HIDE DEF x, y
  <2> QED
    BY <1>1, <2>1, <2>2, <2>3, SMT
<1>7. CASE ~(cp <= 127) /\ ~(cp <= 2047) /\ cp <= 65535
  <2>1. codePointToUTF8(cp) = ThreeBytes(cp)
    BY <1>7, SMT DEF codePointToUTF8
  <2> DEFINE x == 224 + ((cp \div 4096) % 16)
             y == 128 + ((cp \div 64) % 64)
             z == 128 + (cp % 64)
  <2>2. x \in Byte /\ y \in Byte /\ z \in Byte
    BY <1>2, <1>3, SMT
  <2>3. ThreeBytes(cp) = <<x, y, z>>
    BY SMT DEF ThreeBytes
  <2> HIDE DEF x, y, z
  <2> QED
    BY <1>1, <2>1, <2>2, <2>3, SMT
<1>8. CASE ~(cp <= 127) /\ ~(cp <= 2047) /\ ~(cp <= 65535) /\ cp <= 1114111
  <2>1. codePointToUTF8(cp) = FourBytes(cp)
    BY <1>8, SMT DEF codePointToUTF8
  <2> DEFINE x == 240 + ((cp \div 262144) % 8)
             y == 128 + ((cp \div 4096) % 64)
             z == 128 + ((cp \div 64) % 64)
             w == 128 + (cp % 64)
  <2>2. x \in Byte /\ y \in Byte /\ z \in Byte /\ w \in Byte
    BY <1>2, <1>3, SMT
  <2>3. FourBytes(cp) = <<x, y, z, w>>
    BY SMT DEF FourBytes
  <2> HIDE DEF x, y, z, w
  <2> QED
    BY <1>1, <2>1, <2>2, <2>3, SMT
<1>9. CASE ~(cp <= 127) /\ ~(cp <= 2047) /\ ~(cp <= 65535) /\ ~(cp <= 1114111)
  <2>1. codePointToUTF8(cp) = <<>>
    BY <1>9, SMT DEF codePointToUTF8
  <2> QED
    BY <1>4, <2>1
<1> QED
  BY <1>5, <1>6, <1>7, <1>8, <1>9, SMT

ReaderState(t) == [verdict : {"ok", "error"}, at : 0 .. Len(t), string : Seq(Byte)]

IsHalted(t, d) == d.verdict = "error" \/ d.at = Len(t)

(* What a turn can do.                                                     *)
Reads(t, d) ==
  \E n \in 1 .. 2, bytes \in Seq(Byte) :
    /\ d.at + n <= Len(t)
    /\ DecodeTurn(t, d) = [verdict |-> "ok", at |-> d.at + n, string |-> d.string \o bytes]

LEMMA ReadsIs ==
  ASSUME NEW t, NEW d, NEW n \in 1 .. 2, NEW bytes \in Seq(Byte), d.at + n <= Len(t),
         DecodeTurn(t, d) = [verdict |-> "ok", at |-> d.at + n, string |-> d.string \o bytes]
  PROVE  Reads(t, d)
BY Zenon DEF Reads

LEMMA TurnCases ==
  ASSUME NEW t \in Seq(Unit), NEW d \in ReaderState(t)
  PROVE  \/ IsHalted(t, d) /\ DecodeTurn(t, d) = d
         \/ ~IsHalted(t, d) /\ Reads(t, d)
         \/ ~IsHalted(t, d) /\ DecodeTurn(t, d) = [d EXCEPT !.verdict = "error"]
<1> DEFINE u == t[d.at + 1]
           second == t[d.at + 2]
<1>0. Len(t) \in Nat /\ d.at \in Nat /\ d.at <= Len(t)
  BY LenProperties, SMT DEF ReaderState
<1>1. CASE IsHalted(t, d)
  <2>1. DecodeTurn(t, d) = d
    BY <1>1, Zenon DEF IsHalted, DecodeTurn
  <2> QED
    BY <1>1, <2>1
<1>2. CASE ~IsHalted(t, d)
  <2>0. ~(d.verdict = "error" \/ d.at = Len(t)) /\ d.at < Len(t)
    BY <1>0, <1>2, SMT DEF IsHalted
  <2>1. u \in Unit
    BY <1>0, <2>0, ElementOfSeq, SMT
  <2>2. d.at + 1 <= Len(t) /\ 1 \in 1 .. 2 /\ 2 \in 1 .. 2
    BY <1>0, <2>0, SMT
  <2>3. CASE u.kind \in {"raw", "escape"}
    <3>1. u.of \in Byte
      BY <2>1, <2>3, SMT DEF Unit, BadEscape
    <3>2. DecodeTurn(t, d) = [verdict |-> "ok", at |-> d.at + 1, string |-> d.string \o <<u.of>>]
      BY <2>0, <2>3, SMT DEF DecodeTurn
    <3>3. <<u.of>> \in Seq(Byte)
      BY <3>1, SMT
    <3> QED
      BY <1>2, <2>2, <3>2, <3>3, ReadsIs, Zenon
  <2>4. CASE u.kind = "bad"
    <3>1. DecodeTurn(t, d) = [d EXCEPT !.verdict = "error"]
      BY <2>0, <2>4, SMT DEF DecodeTurn
    <3> QED
      BY <1>2, <3>1, Zenon
  <2>5. CASE u.kind = "hex" /\ ~IsHighSurrogate(u.of)
    <3>1. u.of \in Nat
      BY <2>1, <2>5, SMT DEF Unit, BadEscape, Code
    <3>2. DecodeTurn(t, d) =
            [verdict |-> "ok", at |-> d.at + 1, string |-> d.string \o codePointToUTF8(u.of)]
      BY <2>0, <2>5, SMT DEF DecodeTurn
    <3>3. codePointToUTF8(u.of) \in Seq(Byte)
      BY <3>1, EncodedType
    <3> QED
      BY <1>2, <2>2, <3>2, <3>3, ReadsIs, Zenon
  <2>6. CASE u.kind = "hex" /\ IsHighSurrogate(u.of) /\ (d.at + 2 > Len(t) \/ second.kind # "hex")
    <3>1. DecodeTurn(t, d) = [d EXCEPT !.verdict = "error"]
      BY <2>0, <2>6, SMT DEF DecodeTurn
    <3> QED
      BY <1>2, <3>1, Zenon
  <2>7. CASE u.kind = "hex" /\ IsHighSurrogate(u.of) /\ ~(d.at + 2 > Len(t)) /\ second.kind = "hex"
    <3> DEFINE cp == JoinedPair(u.of, second.of)
    <3>1. second \in Unit /\ d.at + 2 <= Len(t)
      BY <1>0, <2>7, ElementOfSeq, SMT
    <3>2. u.of \in Nat /\ second.of \in Nat
      BY <2>1, <2>7, <3>1, SMT DEF Unit, BadEscape, Code
    <3>3. cp \in Nat
      BY <3>2, SMT DEF JoinedPair
    <3>4. AtPair(t, d)
      BY <2>0, <2>7, SMT DEF AtPair
    <3>5. DecodeTurn(t, d) =
            [verdict |-> "ok", at |-> d.at + 2, string |-> d.string \o codePointToUTF8(cp)]
      BY <3>4, TurnAtPair, Zenon
    <3>6. codePointToUTF8(cp) \in Seq(Byte)
      BY <3>3, EncodedType
    <3> HIDE DEF cp
    <3> QED
      BY <1>2, <2>2, <3>1, <3>5, <3>6, ReadsIs, Zenon
  <2>8. u.kind \in {"raw", "escape", "hex", "bad"}
    BY <2>1, SMT DEF Unit, BadEscape
  <2> HIDE DEF u, second
  <2> QED
    BY <2>3, <2>4, <2>5, <2>6, <2>7, <2>8, SMT
<1> QED
  BY <1>1, <1>2

LEMMA ReaderType ==
  ASSUME NEW t \in Seq(Unit), NEW d \in ReaderState(t)
  PROVE  /\ DecodeTurn(t, d) \in ReaderState(t)
         /\ IsHalted(t, d) => DecodeTurn(t, d) = d
         /\ ~IsHalted(t, d) => IsHalted(t, DecodeTurn(t, d)) \/ DecodeTurn(t, d).at > d.at
<1>0. /\ Len(t) \in Nat /\ d.at \in Nat /\ d.at <= Len(t) /\ d.string \in Seq(Byte)
      /\ d.verdict \in {"ok", "error"}
      /\ d = [verdict |-> d.verdict, at |-> d.at, string |-> d.string]
  BY LenProperties, SMT DEF ReaderState
<1>1. CASE IsHalted(t, d) /\ DecodeTurn(t, d) = d
  BY <1>1
<1>2. CASE ~IsHalted(t, d) /\ Reads(t, d)
  <2>1. PICK n \in 1 .. 2, bytes \in Seq(Byte) :
          /\ d.at + n <= Len(t)
          /\ DecodeTurn(t, d) = [verdict |-> "ok", at |-> d.at + n, string |-> d.string \o bytes]
    BY <1>2 DEF Reads
  <2>2. d.string \o bytes \in Seq(Byte)
    BY <1>0, ConcatProperties
  <2>3. DecodeTurn(t, d).at = d.at + n /\ d.at + n > d.at /\ d.at + n \in 0 .. Len(t)
    BY <1>0, <2>1, SMT
  <2>4. DecodeTurn(t, d) \in ReaderState(t)
    BY <2>1, <2>2, <2>3, SMT DEF ReaderState
  <2> QED
    BY <1>2, <2>3, <2>4
<1>3. CASE ~IsHalted(t, d) /\ DecodeTurn(t, d) = [d EXCEPT !.verdict = "error"]
  <2>1. DecodeTurn(t, d) = [verdict |-> "error", at |-> d.at, string |-> d.string]
    BY <1>0, <1>3, SMT
  <2>2. DecodeTurn(t, d) \in ReaderState(t)
    BY <1>0, <2>1, SMT DEF ReaderState
  <2> QED
    BY <1>3, <2>1, <2>2, SMT DEF IsHalted
<1> QED
  BY <1>1, <1>2, <1>3, TurnCases, Zenon

(* The run of the reader, followed for as long as one likes.               *)
IsReaderRun(d, t, K) ==
  /\ d \in [0 .. K -> ReaderState(t)] /\ d[0] = [verdict |-> "ok", at |-> 0, string |-> <<>>]
  /\ \A n \in 1 .. K : d[n] = DecodeTurn(t, d[n - 1])

LEMMA ReaderRuns ==
  ASSUME NEW t \in Seq(Unit), NEW K \in Nat, Len(t) <= K
  PROVE  \E d : IsReaderRun(d, t, K) /\ decodeString(t) = Outcome(d[K])
<1> DEFINE S == ReaderState(t)
           N == Len(t)
           c == [verdict |-> "ok", at |-> 0, string |-> <<>>]
           turn == [x \in S |-> DecodeTurn(t, x)]
           halted == {x \in S : IsHalted(t, x)}
           progress == [x \in S |-> x.at]
<1>0. N \in Nat /\ N <= K
  BY LenProperties
<1>1. c \in S
  BY <1>0, SMT DEF ReaderState
<1>2. \A x \in S : x.at \in 0 .. N
  BY DEF ReaderState
<1>3. \A x \in S : turn[x] = DecodeTurn(t, x) /\ turn[x] \in S
  BY ReaderType
<1>4. \A x \in S : /\ IsHalted(t, x) => turn[x] = x
                   /\ ~IsHalted(t, x) => IsHalted(t, turn[x]) \/ turn[x].at > x.at
  BY <1>3, ReaderType
<1>5. \A x \in S : x.at = N => IsHalted(t, x)
  BY DEF IsHalted
<1> HIDE DEF S, N, c
<1>6. Halts(S, N, turn, halted, progress)
  <2>1. turn \in [S -> S]
    BY <1>3, Zenon
  <2>2. halted \subseteq S
    OBVIOUS
  <2>3. progress \in [S -> 0 .. N]
    BY <1>2, Zenon
  <2>4. \A x \in S : progress[x] = x.at
    OBVIOUS
  <2>5. \A x \in S : x \in halted <=> IsHalted(t, x)
    OBVIOUS
  <2> HIDE DEF turn, halted, progress
  <2> QED
    BY <1>3, <1>4, <1>5, <2>1, <2>2, <2>3, <2>4, <2>5, Zenon DEF Halts
<1> HIDE DEF turn, halted, progress
<1>7. PICK f : Follows(f, S, c, K, turn) /\ f[K] = f[N]
  BY <1>0, <1>1, <1>6, HaltingLoop, SMT
<1>8. f \in [0 .. K -> S] /\ f[0] = c
  BY <1>7 DEF Follows
<1>9. ASSUME NEW i \in 1 .. K PROVE f[i] = DecodeTurn(t, f[i - 1])
  <2>1. f[i] = turn[f[i - 1]] /\ f[i - 1] \in S
    BY <1>7, <1>8 DEF Follows
  <2> QED
    BY <1>3, <2>1
<1> DEFINE g == [n \in 0 .. N |-> f[n]]
<1>10. g = [n \in 0 .. N |-> IF n = 0 THEN c ELSE DecodeTurn(t, g[n - 1])]
  BY <1>0, <1>8, <1>9
<1> HIDE DEF g
<1> DEFINE h == CHOOSE v : v = [n \in 0 .. N |-> IF n = 0 THEN c ELSE DecodeTurn(t, v[n - 1])]
<1>11. h = [n \in 0 .. N |-> IF n = 0 THEN c ELSE DecodeTurn(t, h[n - 1])]
  BY <1>10
<1>12. decodeString(t) = Outcome(h[N])
  BY Zenon DEF decodeString, N, c
<1> HIDE DEF h
<1>13. h[N] = f[N]
  <2> DEFINE I == {n \in 0 .. N : h[n] = f[n]}
  <2>1. 0 \in I
    BY <1>0, <1>8, <1>11
  <2>2. ASSUME NEW n \in 0 .. N - 1, n \in I PROVE n + 1 \in I
    <3>1. n + 1 \in 1 .. K /\ n + 1 \in 0 .. N /\ n + 1 # 0 /\ (n + 1) - 1 = n
      BY <1>0
    <3>2. h[n + 1] = DecodeTurn(t, h[n])
      BY <1>11, <3>1
    <3>3. f[n + 1] = DecodeTurn(t, f[n])
      BY <1>9, <3>1
    <3>4. h[n] = f[n]
      BY <2>2
    <3> QED
      BY <3>1, <3>2, <3>3, <3>4
  <2> HIDE DEF I
  <2>3. 0 .. N \subseteq I
    BY <1>0, <2>1, <2>2, InductionUpTo
  <2> QED
    BY <1>0, <2>3 DEF I
<1>14. IsReaderRun(f, t, K)
  BY <1>8, <1>9, Zenon DEF IsReaderRun, S, c
<1>15. decodeString(t) = Outcome(f[K])
  BY <1>7, <1>12, <1>13, Zenon
<1> QED
  BY <1>14, <1>15, Zenon

(* A string that was read is a string of bytes.                            *)
LEMMA ReadIsString ==
  ASSUME NEW t \in Seq(Unit), NEW r, r = decodeString(t), r.verdict = "ok"
  PROVE  r.string \in Seq(Byte) /\ r = Decoded(r.string)
<1> DEFINE K == Len(t)
<1>0. K \in Nat /\ Len(t) <= K
  BY LenProperties
<1> HIDE DEF K
<1>1. PICK d : IsReaderRun(d, t, K) /\ decodeString(t) = Outcome(d[K])
  BY <1>0, ReaderRuns
<1>2. d[K] \in ReaderState(t)
  BY <1>0, <1>1 DEF IsReaderRun
<1>3. d[K].string \in Seq(Byte)
  BY <1>2 DEF ReaderState
<1>4. d[K].verdict = "ok"
  <2>1. Refused.verdict # "ok"
    BY DEF Refused
  <2> QED
    BY <1>1, <2>1, Zenon DEF Outcome
<1>5. r = Decoded(d[K].string)
  BY <1>1, <1>4, Zenon DEF Outcome
<1>6. r.string = d[K].string
  BY <1>5 DEF Decoded
<1> QED
  BY <1>3, <1>5, <1>6, Zenon

-----------------------------------------------------------------------------
(* The text that has been written only grows.                              *)
IsStart(p, t) == Len(p) <= Len(t) /\ \A k \in 1 .. Len(p) : t[k] = p[k]

LEMMA StartOfStart ==
  ASSUME NEW p \in Seq(Unit), NEW e \in Seq(Unit), NEW t \in Seq(Unit), IsStart(p \o e, t)
  PROVE  IsStart(p, t) /\ HasAt(t, Len(p) + 1, e)
<1>1. Len(p) \in Nat /\ Len(e) \in Nat /\ Len(t) \in Nat
  BY LenProperties
<1>2. Len(p \o e) = Len(p) + Len(e)
  BY ConcatProperties
<1>3. \A k \in 1 .. Len(p) : (p \o e)[k] = p[k]
  BY <1>1, <1>2, ConcatProperties
<1>4. \A k \in 1 .. Len(e) : (p \o e)[Len(p) + k] = e[k]
  <2> SUFFICES ASSUME NEW k \in 1 .. Len(e) PROVE (p \o e)[Len(p) + k] = e[k]
    OBVIOUS
  <2> QED
    BY <1>1, SMT
<1> DEFINE q == p \o e
           l == Len(p)
           m == Len(e)
<1>5. Len(q) = l + m /\ Len(q) <= Len(t) /\ \A k \in 1 .. Len(q) : t[k] = q[k]
  BY <1>2 DEF IsStart
<1> HIDE DEF q, l, m
<1>6. l <= Len(t) /\ \A k \in 1 .. l : t[k] = p[k]
  BY <1>1, <1>3, <1>5 DEF q, l, m
<1>7. Len(t) - (l + 1) + 1 >= m
  BY <1>1, <1>5 DEF l, m
<1>8. \A k \in 1 .. m : t[(l + 1) - 1 + k] = e[k]
  <2> SUFFICES ASSUME NEW k \in 1 .. m PROVE t[(l + 1) - 1 + k] = e[k]
    OBVIOUS
  <2>1. (l + 1) - 1 + k = l + k /\ l + k \in 1 .. Len(q)
    BY <1>1, <1>5 DEF l, m
  <2> QED
    BY <1>4, <1>5, <2>1 DEF q, l, m
<1> QED
  BY <1>6, <1>7, <1>8, Zenon DEF IsStart, HasAt, l, m

LEMMA ResultGrows ==
  ASSUME NEW s \in Seq(Byte), NEW K \in Nat, NEW w, IsWriterRun(w, s, K)
  PROVE  \A n \in 0 .. K : IsStart(w[n].result, w[K].result)
<1> DEFINE T == w[K].result
           I == {n \in 0 .. K : IsStart(w[K - n].result, T)}
<1>1. \A n \in 0 .. K : w[n] \in WriterState(s)
  BY DEF IsWriterRun
<1>2. \A n \in 0 .. K : w[n].result \in Seq(Unit)
  BY <1>1 DEF WriterState
<1>3. 0 \in I
  <2>1. T \in Seq(Unit)
    BY <1>2
  <2>2. Len(T) \in Nat /\ K - 0 = K
    BY <2>1, LenProperties
  <2>3. IsStart(T, T)
    BY <2>2 DEF IsStart
  <2> QED
    BY <2>2, <2>3
<1>4. ASSUME NEW n \in 0 .. K - 1, n \in I PROVE n + 1 \in I
  <2> DEFINE m == K - (n + 1)
             v == w[m]
  <2>1. m \in 0 .. K /\ K - n \in 1 .. K /\ (K - n) - 1 = m /\ n + 1 \in 0 .. K
    OBVIOUS
  <2>2. w[K - n] = WriteTurn(s, v)
    BY <2>1 DEF IsWriterRun
  <2>3. v \in WriterState(s)
    BY <1>1, <2>1
  <2>4. IsStart(w[K - n].result, T) /\ T \in Seq(Unit)
    BY <1>2, <1>4
  <2> HIDE DEF v, m, T
  <2>5. IsStart(v.result, T)
    <3>1. CASE v.at = Len(s)
      <4>1. WriteTurn(s, v) = v
        BY <2>3, <3>1, WriterType
      <4> QED
        BY <2>2, <2>4, <4>1
    <3>2. CASE v.at # Len(s)
      <4>1. v.result \in Seq(Unit)
        BY <2>3 DEF WriterState
      <4>2. PICK e \in Seq(Unit), bytes \in 1 .. 4, cp \in CodePoint : Writes(s, v, e, bytes, cp)
        BY <2>3, <3>2, WriterStep
      <4>3. WriteTurn(s, v) = [at |-> v.at + bytes, result |-> v.result \o e]
        BY <4>2, Zenon DEF Writes
      <4>4. w[K - n].result = v.result \o e
        <5>1. w[K - n] = [at |-> v.at + bytes, result |-> v.result \o e]
          BY <2>2, <4>3, Zenon
        <5> QED
          BY <5>1
      <4> QED
        BY <2>4, <4>1, <4>4, StartOfStart
    <3> QED
      BY <3>1, <3>2
  <2> QED
    BY <2>1, <2>5 DEF v, m
<1> HIDE DEF I
<1>5. 0 .. K \subseteq I
  BY <1>3, <1>4, InductionUpTo
<1> SUFFICES ASSUME NEW n \in 0 .. K PROVE IsStart(w[n].result, w[K].result)
  OBVIOUS
<1>6. K - n \in 0 .. K /\ K - (K - n) = n
  OBVIOUS
<1> QED
  BY <1>5, <1>6 DEF I

-----------------------------------------------------------------------------
(* Facts about parts of strings.                                           *)
LEMMA PartsJoin ==
  ASSUME NEW s \in Seq(Byte), NEW a \in Nat, NEW n \in Nat, a <= n, n <= Len(s)
  PROVE  SubSeq(s, 1, a) \o SubSeq(s, a + 1, n) = SubSeq(s, 1, n)
<1>0. Len(s) \in Nat
  BY LenProperties
<1> DEFINE x == SubSeq(s, 1, a)
           y == SubSeq(s, a + 1, n)
           z == SubSeq(s, 1, n)
<1>1. x \in Seq(Byte) /\ Len(x) = a /\ \A k \in 1 .. a : x[k] = s[k]
  BY <1>0, SMT
<1>2. y \in Seq(Byte) /\ Len(y) = n - a /\ \A k \in 1 .. n - a : y[k] = s[a + k]
  BY <1>0, SMT
<1>3. z \in Seq(Byte) /\ Len(z) = n /\ \A k \in 1 .. n : z[k] = s[k]
  BY <1>0, SMT
<1> HIDE DEF x, y, z
<1> DEFINE q == x \o y
<1>4. q \in Seq(Byte) /\ Len(q) = Len(x) + Len(y)
  BY <1>1, <1>2, ConcatProperties
<1>5. \A k \in 1 .. Len(x) + Len(y) : q[k] = IF k <= Len(x) THEN x[k] ELSE y[k - Len(x)]
  BY <1>1, <1>2, ConcatProperties
<1> HIDE DEF q
<1>6. Len(q) = n
  BY <1>1, <1>2, <1>4
<1>7. ASSUME NEW k \in 1 .. n PROVE q[k] = z[k]
  <2>1. CASE k <= a
    BY <1>1, <1>2, <1>3, <1>5, <2>1
  <2>2. CASE ~(k <= a)
    <3>1. k - a \in 1 .. n - a /\ a + (k - a) = k
      BY <2>2
    <3>2. q[k] = y[k - a]
      BY <1>1, <1>2, <1>5, <2>2
    <3>3. y[k - a] = s[k]
      BY <1>2, <3>1
    <3> QED
      BY <1>3, <3>2, <3>3
  <2> QED
    BY <2>1, <2>2
<1>8. q = z
  BY <1>3, <1>4, <1>6, <1>7, SeqEqual
<1> QED
  BY <1>8 DEF q, x, y, z

LEMMA PartsOfWhole ==
  ASSUME NEW s \in Seq(Byte)
  PROVE  SubSeq(s, 1, 0) = <<>> /\ SubSeq(s, 1, Len(s)) = s
<1>0. Len(s) \in Nat
  BY LenProperties
<1>1. SubSeq(s, 1, 0) = <<>>
  BY SMT
<1>2. SubSeq(s, 1, Len(s)) = s
  BY <1>0, SMT
<1> QED
  BY <1>1, <1>2

LEMMA PartsOfJoin ==
  ASSUME NEW x \in Seq(Byte), NEW y \in Seq(Byte)
  PROVE  /\ \A m, n \in Nat : n <= Len(x) => SubSeq(x \o y, m + 1, n) = SubSeq(x, m + 1, n)
         /\ SubSeq(x \o y, Len(x) + 1, Len(x) + Len(y)) = y
<1> DEFINE q == x \o y
           l == Len(x)
           h == Len(y)
<1>0. l \in Nat /\ h \in Nat
  BY LenProperties
<1>1. q \in Seq(Byte) /\ Len(q) = l + h
  BY ConcatProperties
<1>2. \A k \in 1 .. l + h : q[k] = IF k <= l THEN x[k] ELSE y[k - l]
  BY ConcatProperties
<1>3. \A k \in 1 .. h : q[l + k] = y[k]
  <2> SUFFICES ASSUME NEW k \in 1 .. h PROVE q[l + k] = y[k]
    OBVIOUS
  <2>1. l + k \in 1 .. l + h /\ ~(l + k <= l) /\ (l + k) - l = k
    BY <1>0
  <2> HIDE DEF q, l, h
  <2> QED
    BY <1>2, <2>1
<1>3a. \A k \in 1 .. l : q[k] = x[k]
  BY <1>0, <1>2
<1> HIDE DEF q
<1>4. ASSUME NEW m \in Nat, NEW n \in Nat, n <= l
      PROVE  SubSeq(q, m + 1, n) = SubSeq(x, m + 1, n)
  <2> DEFINE a == SubSeq(q, m + 1, n)
             b == SubSeq(x, m + 1, n)
             j == IF m + 1 <= n THEN n - m ELSE 0
  <2>1. /\ a \in Seq(Byte) /\ Len(a) = j
        /\ \A k \in 1 .. j : a[k] = q[m + k]
    BY <1>0, <1>1, <1>4, SMT
  <2>2. /\ b \in Seq(Byte) /\ Len(b) = j
        /\ \A k \in 1 .. j : b[k] = x[m + k]
    BY <1>0, <1>4, SMT
  <2>3. \A k \in 1 .. j : m + k \in 1 .. l
    BY <1>0, <1>4
  <2> HIDE DEF a, b, j
  <2>4. \A k \in 1 .. j : a[k] = b[k]
    BY <1>3a, <2>1, <2>2, <2>3
  <2>5. a = b
    BY <2>1, <2>2, <2>4, SeqEqual
  <2> QED
    BY <2>5 DEF a, b
<1>5. SubSeq(q, l + 1, l + h) = y
  <2> DEFINE a == SubSeq(q, l + 1, l + h)
  <2>1. a \in Seq(Byte) /\ Len(a) = h /\ \A k \in 1 .. h : a[k] = q[l + k]
    BY <1>0, <1>1, SMT
  <2> HIDE DEF a
  <2>2. \A k \in 1 .. h : a[k] = y[k]
    BY <1>3, <2>1
  <2>3. a = y
    BY <2>1, <2>2, SeqEqual
  <2> QED
    BY <2>3 DEF a
<1> QED
  BY <1>4, <1>5 DEF q

(* UTF-8 that is followed by one more code point is UTF-8.                 *)
LEMMA EmptyIsUTF8 == IsUTF8(<<>>)
<1> DEFINE s == <<>>
<1>1. Len(s) = 0
  OBVIOUS
<1> HIDE DEF s
<1>2. IsCutUp(s, {0}) /\ {0} \in SUBSET (0 .. Len(s))
  BY <1>1 DEF IsCutUp
<1>3. IsUTF8(s)
  BY <1>2, Zenon DEF IsUTF8
<1> QED
  BY <1>3 DEF s

LEMMA UTF8Grows ==
  ASSUME NEW x \in Seq(Byte), NEW y \in Seq(Byte), IsUTF8(x), IsOneCodePoint(y), Len(y) > 0
  PROVE  IsUTF8(x \o y)
<1> DEFINE q == x \o y
           l == Len(x)
           h == Len(y)
<1>0. l \in Nat /\ h \in Nat /\ h > 0
  BY LenProperties
<1>1. Len(q) = l + h
  BY ConcatProperties
<1>2. \A m, n \in Nat : n <= l => SubSeq(q, m + 1, n) = SubSeq(x, m + 1, n)
  BY PartsOfJoin
<1>3. SubSeq(q, l + 1, l + h) = y
  BY PartsOfJoin
<1>4. PICK cuts \in SUBSET (0 .. l) : IsCutUp(x, cuts)
  BY Zenon DEF IsUTF8
<1>5. /\ 0 \in cuts /\ l \in cuts
      /\ \A m \in cuts \ {l} : \E n \in cuts : m < n /\ IsOneCodePoint(SubSeq(x, m + 1, n))
  BY <1>4 DEF IsCutUp
<1> HIDE DEF q, l, h
<1> DEFINE more == cuts \cup {l + h}
<1>6. more \in SUBSET (0 .. Len(q)) /\ {0, Len(q)} \subseteq more
  BY <1>0, <1>1, <1>5
<1>7. ASSUME NEW m \in more \ {Len(q)}
      PROVE  \E n \in more : m < n /\ IsOneCodePoint(SubSeq(q, m + 1, n))
  <2>1. m \in cuts /\ m \in Nat
    BY <1>0, <1>1
  <2>2. CASE m = l
    <3>1. l + h \in more /\ m < l + h
      BY <1>0, <2>2
    <3>2. IsOneCodePoint(SubSeq(q, m + 1, l + h))
      BY <1>3, <2>2, Zenon
    <3> QED
      BY <3>1, <3>2, Zenon
  <2>3. CASE m # l
    <3>1. PICK n \in cuts : m < n /\ IsOneCodePoint(SubSeq(x, m + 1, n))
      BY <1>5, <2>1, <2>3
    <3>2. n \in Nat /\ n <= l
      BY <1>0
    <3>3. IsOneCodePoint(SubSeq(q, m + 1, n))
      BY <1>2, <2>1, <3>1, <3>2
    <3> QED
      BY <3>1, <3>3
  <2> QED
    BY <2>2, <2>3
<1>8. IsCutUp(q, more)
  BY <1>6, <1>7, Zenon DEF IsCutUp
<1>9. IsUTF8(q)
  BY <1>6, <1>8, Zenon DEF IsUTF8
<1> QED
  BY <1>9 DEF q

-----------------------------------------------------------------------------
(* The writer and the reader of what it writes, turn by turn: the reader   *)
(* has read what the writer had written, and has UTF-8; if the bytes that  *)
(* are written can be cut up into code points, it has those bytes.         *)
Paired(s, cuts, v, x) ==
  /\ x.verdict = "ok" /\ x.at = Len(v.result) /\ IsUTF8(x.string)
  /\ IsCutUp(s, cuts) => v.at \in cuts /\ x.string = SubSeq(s, 1, v.at)

LEMMA PairedTurn ==
  ASSUME NEW s \in Seq(Byte), NEW t \in Seq(Unit), NEW cuts \in SUBSET (0 .. Len(s)),
         NEW v \in WriterState(s), NEW x \in ReaderState(t), Paired(s, cuts, v, x),
         IsStart(WriteTurn(s, v).result, t), v.at = Len(s) => v.result = t
  PROVE  Paired(s, cuts, WriteTurn(s, v), DecodeTurn(t, x))
<1>0. Len(s) \in Nat /\ v.at \in 0 .. Len(s) /\ v.result \in Seq(Unit) /\ Len(v.result) \in Nat
  BY LenProperties DEF WriterState
<1>1. x.string \in Seq(Byte) /\ x = [verdict |-> x.verdict, at |-> x.at, string |-> x.string]
  BY DEF ReaderState
<1>2. x.verdict = "ok" /\ x.at = Len(v.result) /\ IsUTF8(x.string)
  BY Zenon DEF Paired
<1>3. CASE v.at = Len(s)
  <2>1. WriteTurn(s, v) = v
    BY <1>3, WriterType
  <2>2. IsHalted(t, x)
    BY <1>2, <1>3, Zenon DEF IsHalted
  <2>3. DecodeTurn(t, x) = x
    BY <2>2, ReaderType
  <2> QED
    BY <2>1, <2>3, Zenon
<1>4. CASE v.at # Len(s)
  <2>1. PICK e \in Seq(Unit), bytes \in 1 .. 4, cp \in CodePoint : Writes(s, v, e, bytes, cp)
    BY <1>4, WriterStep
  <2> DEFINE a == v.at
             r == v.result
             n == a + bytes
             y == codePointToUTF8(cp)
             g == x.string
  <2>2. WriteTurn(s, v) = [at |-> n, result |-> r \o e]
    BY <2>1, Zenon DEF Writes
  <2>3. n <= Len(s) /\ Len(e) \in Nat \ {0} /\ StandFor(e, cp)
    BY <2>1, Zenon DEF Writes
  <2>4. n \in Nat /\ a \in Nat /\ a < n /\ n \in 1 .. Len(s)
    BY <1>0, <2>3, SMT
  <2>5. WriteTurn(s, v).at = n /\ WriteTurn(s, v).result = r \o e
    BY <2>2, SMT
  <2>6. HasAt(t, Len(r) + 1, e)
    BY <1>0, <2>5, StartOfStart, SMT
  <2>7. DecodeTurn(t, [verdict |-> "ok", at |-> Len(r), string |-> g]) =
          [verdict |-> "ok", at |-> Len(r) + Len(e), string |-> g \o y]
    <3> DEFINE p == Len(r)
    <3>1. p \in Nat /\ g \in Seq(Byte) /\ IsNext(t, p, e, cp)
      BY <1>0, <1>1, <2>3, <2>6, Zenon DEF IsNext
    <3> HIDE DEF p, g
    <3>2. IsReadNext(t, p, g, e, cp)
      BY <3>1, ReaderTurn, Zenon
    <3> QED
      BY <3>2, Zenon DEF p, IsReadNext
  <2>8. x = [verdict |-> "ok", at |-> Len(r), string |-> g]
    BY <1>1, <1>2, Zenon
  <2> HIDE DEF y
  <2>9. DecodeTurn(t, x) = [verdict |-> "ok", at |-> Len(r) + Len(e), string |-> g \o y]
    BY <2>7, <2>8, Zenon
  <2> DEFINE z == DecodeTurn(t, x)
  <2>10. z.verdict = "ok" /\ z.at = Len(r) + Len(e) /\ z.string = g \o y
    BY <2>9, SMT
  <2>11. Len(r \o e) = Len(r) + Len(e)
    BY <1>0, ConcatProperties
  <2>12. y \in Seq(Byte) /\ Len(y) > 0 /\ IsOneCodePoint(y)
    BY EncodedIsOne DEF y
  <2>13. IsUTF8(g \o y)
    BY <1>1, <1>2, <2>12, UTF8Grows, Zenon
  <2>14. ASSUME IsCutUp(s, cuts) PROVE n \in cuts /\ g \o y = SubSeq(s, 1, n)
    <3>1. a \in cuts /\ g = SubSeq(s, 1, a)
      BY <2>14, Zenon DEF Paired
    <3>2. PICK m \in cuts : a < m /\ IsOneCodePoint(SubSeq(s, a + 1, m))
      BY <1>4, <2>14, <3>1, Zenon DEF IsCutUp
    <3>3. m \in 1 .. Len(s)
      BY <1>0, <2>4, <3>2, SMT
    <3>4. n = m /\ y = SubSeq(s, a + 1, m)
      BY <2>1, <3>2, <3>3, Zenon DEF Writes, y
    <3>5. SubSeq(s, 1, a) \o SubSeq(s, a + 1, n) = SubSeq(s, 1, n)
      <4>1. a \in Nat /\ n \in Nat /\ a <= n /\ n <= Len(s)
        BY <2>3, <2>4, SMT
      <4> HIDE DEF a, n
      <4> QED
        BY <4>1, PartsJoin, Zenon
    <3> QED
      BY <3>1, <3>4, <3>5, Zenon
  <2> HIDE DEF z, n, g
  <2> QED
    BY <2>5, <2>10, <2>11, <2>13, <2>14, Zenon DEF Paired, z
<1> QED
  BY <1>3, <1>4

(* What the writer makes of a string of bytes is read, and what is read is *)
(* UTF-8; of a string that is UTF-8 it is the string.                      *)
LEMMA WrittenIsRead ==
  ASSUME NEW s \in Seq(Byte), NEW cuts \in SUBSET (0 .. Len(s))
  PROVE  /\ valueToQuotedStringN(s) \in Seq(Unit)
         /\ \E z \in Seq(Byte) :
              /\ decodeString(valueToQuotedStringN(s)) = Decoded(z) /\ IsUTF8(z)
              /\ IsCutUp(s, cuts) => z = s
<1> DEFINE t == valueToQuotedStringN(s)
           N == Len(s)
<1>0. N \in Nat
  BY LenProperties
<1>1. t \in Seq(Unit)
  <2> HIDE DEF N
  <2>1. PICK w : IsWriterRun(w, s, N) /\ valueToQuotedStringN(s) = w[N].result
    BY <1>0, WriterRuns DEF N
  <2>2. w[N] \in WriterState(s)
    BY <1>0, <2>1 DEF IsWriterRun
  <2> QED
    BY <2>1, <2>2 DEF WriterState
<1> HIDE DEF t
<1> DEFINE K == N + Len(t)
<1>2. Len(t) \in Nat
  BY <1>1, LenProperties
<1>3. K \in Nat /\ Len(s) <= K /\ Len(t) <= K
  BY <1>0, <1>2
<1> HIDE DEF K, N
<1>4. PICK w : IsWriterRun(w, s, K) /\ w[K].at = Len(s) /\ t = w[K].result
  BY <1>3, WriterRuns DEF t
<1>5. PICK d : IsReaderRun(d, t, K) /\ decodeString(t) = Outcome(d[K])
  BY <1>1, <1>3, ReaderRuns
<1>6. /\ \A n \in 0 .. K : w[n] \in WriterState(s) /\ d[n] \in ReaderState(t)
      /\ w[0] = [at |-> 0, result |-> <<>>]
      /\ d[0] = [verdict |-> "ok", at |-> 0, string |-> <<>>]
      /\ \A n \in 1 .. K : w[n] = WriteTurn(s, w[n - 1]) /\ d[n] = DecodeTurn(t, d[n - 1])
  BY <1>4, <1>5 DEF IsWriterRun, IsReaderRun
<1>7. \A n \in 0 .. K : IsStart(w[n].result, t)
  BY <1>3, <1>4, ResultGrows
<1>8. ASSUME NEW n \in 0 .. K, w[n].at = Len(s) PROVE w[n].result = t
  <2> DEFINE M == K - n
             J == {i \in 0 .. M : w[n + i] = w[n]}
  <2>1. M \in Nat /\ 0 \in J
    BY <1>3
  <2>2. ASSUME NEW i \in 0 .. M - 1, i \in J PROVE i + 1 \in J
    <3>1. n + (i + 1) \in 1 .. K /\ (n + (i + 1)) - 1 = n + i /\ i + 1 \in 0 .. M
      BY <1>3
    <3>2. w[n + (i + 1)] = WriteTurn(s, w[n + i]) /\ w[n + i] = w[n]
      BY <1>6, <2>2, <3>1
    <3>3. WriteTurn(s, w[n]) = w[n]
      BY <1>6, <1>8, WriterType
    <3> QED
      BY <3>1, <3>2, <3>3
  <2> HIDE DEF J
  <2>3. 0 .. M \subseteq J
    BY <2>1, <2>2, InductionUpTo
  <2>4. M \in 0 .. M /\ n + M = K
    BY <1>3
  <2>5. w[K] = w[n]
    BY <2>3, <2>4 DEF J
  <2> QED
    BY <1>4, <2>5
<1> DEFINE I == {n \in 0 .. K : Paired(s, cuts, w[n], d[n])}
<1>9. 0 \in I
  <2> DEFINE v == w[0]
             x == d[0]
  <2>1. v.at = 0 /\ v.result = <<>> /\ x.verdict = "ok" /\ x.at = 0 /\ x.string = <<>>
    BY <1>6
  <2>2. Len(v.result) = 0
    BY <2>1
  <2>3. IsCutUp(s, cuts) => 0 \in cuts
    BY DEF IsCutUp
  <2>4. SubSeq(s, 1, 0) = <<>>
    BY PartsOfWhole
  <2> HIDE DEF v, x
  <2>5. Paired(s, cuts, v, x)
    BY <2>1, <2>2, <2>3, <2>4, EmptyIsUTF8, Zenon DEF Paired
  <2> QED
    BY <1>3, <2>5 DEF v, x
<1>10. ASSUME NEW n \in 0 .. K - 1, n \in I PROVE n + 1 \in I
  <2> DEFINE v == w[n]
             x == d[n]
  <2>1. n + 1 \in 1 .. K /\ n + 1 \in 0 .. K /\ (n + 1) - 1 = n /\ n \in 0 .. K
    BY <1>3
  <2>2. w[n + 1] = WriteTurn(s, v) /\ d[n + 1] = DecodeTurn(t, x)
    BY <1>6, <2>1
  <2>3. v \in WriterState(s) /\ x \in ReaderState(t) /\ Paired(s, cuts, v, x)
    BY <1>6, <1>10, <2>1
  <2>4. IsStart(WriteTurn(s, v).result, t)
    BY <1>7, <2>1, <2>2
  <2>5. v.at = Len(s) => v.result = t
    BY <1>8, <2>1
  <2> HIDE DEF v, x
  <2>6. Paired(s, cuts, WriteTurn(s, v), DecodeTurn(t, x))
    BY <1>1, <2>3, <2>4, <2>5, PairedTurn, SMT
  <2> QED
    BY <2>1, <2>2, <2>6
<1> HIDE DEF I
<1>11. 0 .. K \subseteq I
  BY <1>3, <1>9, <1>10, InductionUpTo
<1>12. Paired(s, cuts, w[K], d[K]) /\ d[K] \in ReaderState(t)
  BY <1>3, <1>6, <1>11 DEF I
<1> DEFINE z == d[K].string
<1>13. z \in Seq(Byte)
  BY <1>12 DEF ReaderState
<1>14. IsUTF8(z) /\ d[K].verdict = "ok"
  BY <1>12, Zenon DEF Paired
<1>15. decodeString(t) = Decoded(z)
  BY <1>5, <1>14, Zenon DEF Outcome
<1>16. IsCutUp(s, cuts) => z = s
  <2>1. SubSeq(s, 1, Len(s)) = s
    BY PartsOfWhole
  <2> QED
    BY <1>4, <1>12, <2>1, Zenon DEF Paired
<1> HIDE DEF z
<1> QED
  BY <1>1, <1>13, <1>14, <1>15, <1>16, Zenon DEF t

(* Both facts about a string of bytes.                                     *)
LEMMA WritingAndReading ==
  ASSUME NEW s \in Seq(Byte)
  PROVE  /\ \E z \in Seq(Byte) : decodeString(valueToQuotedStringN(s)) = Decoded(z) /\ IsUTF8(z)
         /\ IsUTF8(s) => decodeString(valueToQuotedStringN(s)) = Decoded(s)
<1>1. \E z \in Seq(Byte) : decodeString(valueToQuotedStringN(s)) = Decoded(z) /\ IsUTF8(z)
  <2>1. {} \in SUBSET (0 .. Len(s))
    OBVIOUS
  <2> QED
    BY <2>1, WrittenIsRead, Zenon
<1>2. ASSUME IsUTF8(s) PROVE decodeString(valueToQuotedStringN(s)) = Decoded(s)
  <2>1. PICK cuts \in SUBSET (0 .. Len(s)) : IsCutUp(s, cuts)
    BY <1>2, Zenon DEF IsUTF8
  <2> QED
    BY <2>1, WrittenIsRead, Zenon
<1> QED
  BY <1>1, <1>2

-----------------------------------------------------------------------------
StringInv ==
  /\ text.kind = "string" /\ text.of \in Seq(Unit)
  /\ result # NotYet => result = decodeString(text.of)

LEMMA StringIsRead == StringSpec => []StringInv
<1>1. StringGiven => StringInv
  BY QuotedAssumption DEF StringGiven, Given, QuotedAssumption, StringInv
<1>2. StringInv /\ [DecodeString \/ Done]_rvars => StringInv'
  BY DEF DecodeString, Read, Done, rvars, StringInv
<1> QED
  BY <1>1, <1>2, PTL DEF StringSpec

(* What one client sends as a string of UTF-8, in whichever way it escapes *)
(* it, is what decodeString() of the other reads in the message that the   *)
(* server has written anew with valueToQuotedStringN(): byte by byte, for  *)
(* strings of any length.                                                  *)
THEOREM UTF8IsReadBack == StringSpec => []UTF8ReadsBack
<1>1. StringInv => UTF8ReadsBack
  <2> SUFFICES ASSUME StringInv, StringRead, IsUTF8(result.string)
               PROVE  decodeString(valueToQuotedStringN(result.string)) = result
    BY Zenon DEF UTF8ReadsBack
  <2>1. text.of \in Seq(Unit) /\ result = decodeString(text.of) /\ result.verdict = "ok"
    BY Zenon DEF StringInv, StringRead, WasRead
  <2>2. result.string \in Seq(Byte) /\ result = Decoded(result.string)
    BY <2>1, ReadIsString
  <2>3. decodeString(valueToQuotedStringN(result.string)) = Decoded(result.string)
    BY <2>2, WritingAndReading, Zenon
  <2> QED
    BY <2>2, <2>3
<1> QED
  BY <1>1, StringIsRead, PTL

(* Whatever valueToQuotedStringN() writes for a string that was read, also *)
(* for one that is not UTF-8, decodeString() accepts; and what it reads is *)
(* UTF-8, so that relaying it once more does not change it.                *)
THEOREM WrittenStringsAreAccepted == StringSpec => []WrittenIsAccepted
<1>1. StringInv => WrittenIsAccepted
  <2> DEFINE again == decodeString(valueToQuotedStringN(result.string))
  <2> SUFFICES ASSUME StringInv, StringRead
               PROVE  /\ again.verdict = "ok"
                      /\ decodeString(valueToQuotedStringN(again.string)) = again
    BY Zenon DEF WrittenIsAccepted
  <2>1. text.of \in Seq(Unit) /\ result = decodeString(text.of) /\ result.verdict = "ok"
    BY Zenon DEF StringInv, StringRead, WasRead
  <2>2. result.string \in Seq(Byte)
    BY <2>1, ReadIsString
  <2>3. PICK z \in Seq(Byte) : again = Decoded(z) /\ IsUTF8(z)
    BY <2>2, WritingAndReading, Zenon
  <2> HIDE DEF again
  <2>4. again.verdict = "ok" /\ again.string = z
    BY <2>3 DEF Decoded
  <2>5. decodeString(valueToQuotedStringN(z)) = Decoded(z)
    BY <2>3, WritingAndReading, Zenon
  <2> QED
    BY <2>3, <2>4, <2>5, Zenon
<1> QED
  BY <1>1, StringIsRead, PTL
============================================================================
