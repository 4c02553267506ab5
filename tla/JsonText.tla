------------------------------ MODULE JsonText ------------------------------
(***************************************************************************)
(* How a text becomes a Json::Value and a text again: Reader::parse() of   *)
(* jsoncpp, with which OnReceive() reads what a client sends and main()    *)
(* the configuration file, and the writer behind toStyledString(), with    *)
(* which ProcessMessage() relays it.  A text is a sequence of tokens as    *)
(* readToken() cuts them; a string or a number that does not decode is a   *)
(* token "bad", what is no token at all is "error", a NUL is "eos".  Of a  *)
(* comment there is only that it is there, and of white space nothing.     *)
(***************************************************************************)
EXTENDS Reading, Integers, Sequences, SequencesExt, FiniteSetsExt

CONSTANTS
  Str,         \* the strings, the empty one among them: values and names
  Scalar,      \* numbers, true, false and null
  StackLimit,  \* stackLimit_g: how deep readValue() may call itself
  MaxDepth,    \* bound on the depth of the values considered
  CommentRuns, \* the comments that may stand in one place, <<>> among them
  Documents,   \* the texts that are read
  Values       \* the values whose texts are compared with what is read

(* The types of the tokens that stand for themselves.                      *)
tokenObjectBegin     == "{"
tokenObjectEnd       == "}"
tokenArrayBegin      == "["
tokenArrayEnd        == "]"
tokenArraySeparator  == ","
tokenMemberSeparator == ":"
tokenComment         == "comment"
tokenEndOfStream     == "eos"

EmptyName == ""

Mark ==
  {tokenObjectBegin, tokenObjectEnd, tokenArrayBegin, tokenArrayEnd, tokenArraySeparator,
   tokenMemberSeparator, tokenComment, tokenEndOfStream, "bad", "error"}

Token == Str \cup Scalar \cup Mark

Ok(next, value) == [verdict |-> "ok", next |-> next, value |-> value]
Failed(next)    == [verdict |-> "error", next |-> next]
Throws          == [verdict |-> "throws"]

ScalarValue(token) == [type |-> "scalar", of |-> token]
ArrayOf(elements)  == [type |-> "arrayValue", of |-> elements]
ObjectOf(members)  == [type |-> "objectValue", of |-> members]

(* An object is a map from the strings, with NoMember for no member.       *)
NoMember       == [type |-> "none"]
NoMembers      == [name \in Str |-> NoMember]
Names(members) == {name \in Str : members[name] # NoMember}

(* The values whose elements and members are in V, and so the values that  *)
(* are nested at most d deep.                                              *)
ValuesOver(V) ==
  [type : {"scalar"}, of : Str \cup Scalar]
    \cup [type : {"arrayValue"}, of : Seq(V)]
    \cup [type : {"objectValue"}, of : {m \in [Str -> V \cup {NoMember}] : IsFiniteSet(Names(m))}]

Value[d \in 0 .. MaxDepth] == IF d = 0 THEN {} ELSE ValuesOver(Value[d - 1])

ASSUME TextAssumption ==
  /\ EmptyName \in Str
  /\ (Str \cup Scalar) \cap Mark = {}
  /\ StackLimit \in Nat /\ MaxDepth \in Nat /\ StackLimit <= MaxDepth
  /\ CommentRuns \subseteq Seq({tokenComment}) /\ <<>> \in CommentRuns
  /\ Documents \subseteq Seq(Token)
  /\ Values \subseteq Value[MaxDepth]

-----------------------------------------------------------------------------
(* The reader.  Position i is current_; past the end there is tokenEndOf-  *)
(* Stream for ever.                                                        *)
readToken(t, i) == IF i <= Len(t) THEN t[i] ELSE tokenEndOfStream

(* The first token at or after i that is no comment.                       *)
skipCommentTokens(t, i) == Min({j \in i .. i + Len(t) : readToken(t, j) # tokenComment})

(* Up to and over the next closing bracket of the kind, nesting ignored;   *)
(* the verdict is false whatever follows.                                  *)
recoverFromError(t, i, until) ==
  Failed(1 + Min({j \in i .. i + Len(t) : readToken(t, j) \in {until, tokenEndOfStream}}))

(* Mutant: an array is not asked whether it is empty.                      *)
IsEmptyArray_Never(t, i) == FALSE

(* What readArray() finds behind a "[" and behind an element, readObject() *)
(* behind a member.  After a comment any token passes for the comma.       *)
IsEmptyArray(t, i) == readToken(t, i) = tokenArrayEnd

AfterElement(t, i) ==
  LET token == readToken(t, skipCommentTokens(t, i)) IN
  IF token \in {tokenArrayEnd, tokenArraySeparator} THEN token ELSE "error"

(* Mutant: any token passes for the comma.                                 *)
AfterMember_Any(t, i) ==
  IF readToken(t, skipCommentTokens(t, i)) = tokenObjectEnd
  THEN tokenObjectEnd ELSE tokenArraySeparator

AfterMember(t, i) ==
  IF readToken(t, i) \notin {tokenObjectEnd, tokenArraySeparator, tokenComment} THEN "error"
  ELSE IF readToken(t, skipCommentTokens(t, i)) = tokenObjectEnd THEN tokenObjectEnd
  ELSE tokenArraySeparator

(* One round of the loop of readObject(), unless the loop has ended.  What *)
(* readValue() does with the next node on the stack is inner, at every     *)
(* position.  x.name is the name read before: if it is empty, a "}" after  *)
(* a comma ends the object.                                                *)
MemberRound(t, inner, x) ==
  LET j     == skipCommentTokens(t, x.next)
      token == readToken(t, j)
      v     == inner[j + 2]
      after == AfterMember(t, v.next)
      k     == skipCommentTokens(t, v.next)
      more  == [x.value EXCEPT ![token] = v.value]
  IN  IF x.verdict # "reading" THEN x
      ELSE IF token = tokenObjectEnd /\ x.name = EmptyName THEN Ok(j + 1, ObjectOf(x.value))
      ELSE IF token \notin Str THEN recoverFromError(t, j + 1, tokenObjectEnd)
      ELSE IF readToken(t, j + 1) # tokenMemberSeparator THEN recoverFromError(t, j + 2, tokenObjectEnd)
      ELSE IF v.verdict = "throws" THEN Throws
      ELSE IF v.verdict # "ok" THEN recoverFromError(t, v.next, tokenObjectEnd)
      ELSE IF after = "error" THEN recoverFromError(t, v.next + 1, tokenObjectEnd)
      ELSE IF after = tokenObjectEnd THEN Ok(k + 1, ObjectOf(more))
      ELSE [verdict |-> "reading", next |-> k + 1, name |-> token, value |-> more]

(* A round takes a token at least, so the loop has ended after Len(t).     *)
readObject(t, inner, i) ==
  LET x[n \in 0 .. Len(t)] ==
        IF n = 0 THEN [verdict |-> "reading", next |-> i, name |-> EmptyName, value |-> NoMembers]
        ELSE MemberRound(t, inner, x[n - 1])
  IN  x[Len(t)]

(* The same of readArray().                                                *)
ElementRound(t, inner, x) ==
  LET v     == inner[x.next]
      after == AfterElement(t, v.next)
      k     == skipCommentTokens(t, v.next)
      more  == Append(x.value, v.value)
  IN  IF x.verdict # "reading" THEN x
      ELSE IF v.verdict = "throws" THEN Throws
      ELSE IF v.verdict # "ok" THEN recoverFromError(t, v.next, tokenArrayEnd)
      ELSE IF after = "error" THEN recoverFromError(t, k + 1, tokenArrayEnd)
      ELSE IF after = tokenArrayEnd THEN Ok(k + 1, ArrayOf(more))
      ELSE [verdict |-> "reading", next |-> k + 1, value |-> more]

readArray(t, inner, i) ==
  LET x[n \in 0 .. Len(t)] ==
        IF n = 0 THEN [verdict |-> "reading", next |-> i, value |-> <<>>]
        ELSE ElementRound(t, inner, x[n - 1])
  IN  IF IsEmptyArray(t, i) THEN Ok(i + 1, ArrayOf(<<>>)) ELSE x[Len(t)]

readValue(t, inner, i) ==
  LET j     == skipCommentTokens(t, i)
      token == readToken(t, j)
  IN  IF token \in Str \cup Scalar THEN Ok(j + 1, ScalarValue(token))
      ELSE IF token = tokenObjectBegin THEN readObject(t, inner, j + 1)
      ELSE IF token = tokenArrayBegin THEN readArray(t, inner, j + 1)
      ELSE Failed(j + 1)

(* readValue() at every position, when left more nodes fit on the stack.   *)
Reader(t) ==
  LET read[left \in 0 .. StackLimit] ==
        [i \in Nat |-> IF left = 0 THEN Throws ELSE readValue(t, read[left - 1], i)]
  IN  read

(* What follows the value is not looked at.                                *)
parse(t) == Reader(t)[StackLimit][1]

-----------------------------------------------------------------------------
(* The writer.  A value carries the comments that parse() found next to it *)
(* and they are written with it: before an element or a name, behind its   *)
(* comma, or before the bracket that closes.  Which of them stands where   *)
(* is left open: in each of these places any of the runs given.            *)
InArray(t)      == <<tokenArrayBegin>> \o (t \o <<tokenArrayEnd>>)
InObject(t)     == <<tokenObjectBegin>> \o (t \o <<tokenObjectEnd>>)
Member(name, t) == <<name, tokenMemberSeparator>> \o t
WithComma(t)    == <<tokenArraySeparator>> \o t

Joined(texts) ==
  FlattenSeq([n \in 1 .. Len(texts) |-> IF n = 1 THEN texts[n] ELSE WithComma(texts[n])])

(* Mutant: no comma before the last.                                       *)
Separated_NotLast(texts) == Joined(Front(texts)) \o Last(texts)

Separated(texts) == Joined(texts)

OneOfEach(sets) == {f \in [DOMAIN sets -> UNION Range(sets)] : \A n \in DOMAIN sets : f[n] \in sets[n]}

NoComment == {<<>>}

(* A comment before a value, and one behind the last; none in "[]", "{}".  *)
Commented(runs, texts) == {c \o t : c \in runs, t \in texts}

Inside(texts, after) == IF texts = <<>> THEN <<>> ELSE Separated(texts) \o after

Insides(runs, choices) == {Inside(texts, after) : texts \in choices, after \in runs}

(* The members come in the order of getMemberNames(), some fixed order.    *)
WriteWith(runs, write, value) ==
  LET names    == SetToSeq(Names(value.of))
      Elements == OneOfEach([n \in DOMAIN value.of |-> Commented(runs, write[value.of[n]])])
      Members  == OneOfEach([n \in DOMAIN names |->
                    Commented(runs, {Member(names[n], t) : t \in write[value.of[names[n]]]})])
  IN  IF value.type = "scalar" THEN {<<value.of>>}
      ELSE IF value.type = "arrayValue" THEN {InArray(t) : t \in Insides(runs, Elements)}
      ELSE {InObject(t) : t \in Insides(runs, Members)}

(* For the values that are nested at most d deep.                          *)
writeValue(runs) ==
  LET write[d \in 0 .. MaxDepth] == [value \in Value[d] |-> WriteWith(runs, write[d - 1], value)]
  IN  write

toStyledString(runs, value) ==
  {t \o after : t \in Commented(runs, writeValue(runs)[StackLimit][value]), after \in runs}

(* A value that is read from a text without comments carries none.         *)
CommentsOf(t) == IF tokenComment \in Range(t) THEN CommentRuns ELSE NoComment

-----------------------------------------------------------------------------
DocumentGiven == \E t \in Documents : Given("document", t)

Parse == Read("document", parse)

DocumentSpec == DocumentGiven /\ [][Parse \/ Done]_rvars

document == text.of

Accepted == WasRead("document") /\ result.verdict = "ok"

-----------------------------------------------------------------------------
(* The texts that JSON has for a value, by its grammar: those of its       *)
(* elements in their order, those of its members in any order; with        *)
(* comments before a value or a name, and before a bracket that closes.    *)
Body(texts, after) == IF texts = <<>> THEN <<>> ELSE Joined(texts) \o after

Bodies(runs, choices) == {Body(texts, after) : texts \in choices, after \in runs}

TextsWith(runs, texts, value) ==
  LET Elements == OneOfEach([n \in DOMAIN value.of |-> texts[value.of[n]]])
      Members  == UNION {OneOfEach([n \in DOMAIN names |->
                           Commented(runs, {Member(names[n], t) : t \in texts[value.of[names[n]]]})]) :
                         names \in SetToSeqs(Names(value.of))}
  IN  Commented(runs,
        IF value.type = "scalar" THEN {<<value.of>>}
        ELSE IF value.type = "arrayValue" THEN {InArray(t) : t \in Bodies(runs, Elements)}
        ELSE {InObject(t) : t \in Bodies(runs, Members)})

(* For the values that are nested at most d deep.                          *)
Texts(runs) ==
  LET texts[d \in 0 .. MaxDepth] == [value \in Value[d] |-> TextsWith(runs, texts[d - 1], value)]
  IN  texts

NamesIn(t) == {i \in 1 .. Len(t) : t[i] \in Str /\ readToken(t, i + 1) = tokenMemberSeparator}

(* No comments, and no name twice or empty, with which parse() is lenient. *)
Plain(t) ==
  /\ tokenComment \notin Range(t)
  /\ \A i, j \in NamesIn(t) : t[i] # EmptyName /\ (t[i] = t[j] => i = j)

(* A plain text is accepted only if it begins with a text of the value it  *)
(* is taken for, whatever was recovered from on the way.                   *)
AcceptedIsJson ==
  Accepted /\ Plain(document) =>
    \E t \in Texts(NoComment)[StackLimit][result.value] : IsPrefix(t, document)

TextsOf == [value \in Values |-> Texts(CommentRuns)[MaxDepth][value]]

(* Every JSON text of a value, with comments or without, is taken for that *)
(* value, to its end, unless the value is nested too deeply: then, and     *)
(* among JSON texts only then, parse() throws.                             *)
JsonIsAccepted ==
  WasRead("document") =>
    \A value \in Values :
      document \in TextsOf[value] =>
        result = IF value \in Value[StackLimit] THEN Ok(Len(document) + 1, value) ELSE Throws

(* What ProcessMessage() relays is read by the addressee as the value that *)
(* the server read, up to the comments at its end: also if the sender's    *)
(* text was lenient, and whichever of its comments are written with it.    *)
RelayedReadsTheSame ==
  Accepted =>
    \A t \in toStyledString(CommentsOf(document), result.value) :
      LET relayed == parse(t) IN
      /\ relayed.verdict = "ok" /\ relayed.value = result.value
      /\ skipCommentTokens(t, relayed.next) = Len(t) + 1
=============================================================================
