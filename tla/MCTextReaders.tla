--------------------------- MODULE MCTextReaders ---------------------------
(* Texts for TLC.                                                          *)
EXTENDS TextReaders

-----------------------------------------------------------------------------
(* JSON: all the short texts, those of some values with one token put in,  *)
(* left out or replaced, and those of flat values with many comments.      *)

MCStr    == {"", "a", "b"}
MCScalar == {"1"}

MCCommentRuns == {<<>>, <<tokenComment>>}

One  == ScalarValue("1")
Flat == {One} \cup {ArrayOf(s) : s \in BoundedSeq({One}, 2)}
              \cup {ObjectOf([n \in MCStr |-> IF n \in D THEN One ELSE NoMember]) : D \in SUBSET {"a", "b"}}
MCValues ==
  Flat \cup {ArrayOf(<<v, ScalarValue("a")>>) : v \in Flat} \cup {ArrayOf(<<ArrayOf(<<v>>)>>) : v \in Flat}
       \cup {ObjectOf([NoMembers EXCEPT !["a"] = v, ![""] = One]) : v \in Flat}

Edits(t) ==
  {t} \cup {RemoveAt(t, i) : i \in DOMAIN t}
      \cup {[t EXCEPT ![i] = c] : i \in DOMAIN t, c \in Token}
      \cup {InsertAt(t, i, c) : i \in 1 .. Len(t) + 1, c \in Token}

MCDocuments ==
  BoundedSeq({"{", "}", "[", "]", ",", ":", "comment", "", "a"}, 4)
    \cup UNION {Edits(t) : t \in UNION {Texts(NoComment)[MaxDepth][v] : v \in MCValues}}
    \cup UNION {Texts(CommentRuns)[MaxDepth][v] : v \in Flat}

-----------------------------------------------------------------------------
(* Quoted strings: bytes and code points at the edges of UTF-8.            *)

MCByte == {0, 31, 65, 127, 128, 191, 194, 223, 224, 239, 240, 244, 247, 248, 255}
MCCode == {0, 65, 127, 128, 2047, 2048, 55295, 55296, 56319, 56320, 57343, 57344, 65533, 65535}

MCUnit == {Raw(b) : b \in MCByte} \cup {Escape(b) : b \in {10, 34, 92}}
          \cup {Hex(c) : c \in MCCode} \cup {BadEscape}

Lead  == {Raw(b) : b \in {128, 194, 223, 224, 237, 240, 241, 244, 247}}
Trail == {Raw(b) : b \in {65, 128, 143, 144, 159, 160, 191}} \cup {Hex(56320)}

MCQuotedStrings ==
  BoundedSeq(MCUnit, 3) \cup {<<a>> \o s : a \in Lead, s \in [1 .. 3 -> Trail]}

-----------------------------------------------------------------------------
(* The ICE string: the separators and a letter.                            *)
MCChar == {" ", "[", "]", ":", "a"}
=============================================================================
