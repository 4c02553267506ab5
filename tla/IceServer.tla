----------------------------- MODULE IceServer -----------------------------
(***************************************************************************)
(* How main() takes the ICE server apart: "uri [username:password]" from   *)
(* the option -i or the configuration file goes into g_ice_server, which   *)
(* ProcessSignIn() copies into its replies.  A string is a sequence of     *)
(* characters; std::string counts from 0 and in size_t.                    *)
(***************************************************************************)
EXTENDS Reading, Integers, Sequences, SequencesExt

CONSTANTS
  Char,      \* the characters of the strings, the four separators among them
  MaxLength  \* bound on the length of the string

(* What main() looks for.                                                  *)
Space        == " "
OpenBracket  == "["
Colon        == ":"
CloseBracket == "]"

IceString == BoundedSeq(Char, MaxLength)

npos == -1

find(s, c) == SelectInSeq(s, LAMBDA d : d = c) - 1

(* substr(pos, n): a negative n is a huge size_t, up to the end.  pos is   *)
(* never behind the end, where substr would throw: it is the place of a    *)
(* character that was found, or the one after it.                          *)
substr(s, pos, n) == SubSeq(s, pos + 1, IF n < 0 \/ pos + n > Len(s) THEN Len(s) ELSE pos + n)

(* The constructor ICE(): a built-in server and its credentials.           *)
BuiltIn == [uri |-> <<"b", "u">>, username |-> <<"b", "n">>, password |-> <<"b", "p">>]

(* Mutant: the password is taken up to the end of the string.              *)
Credentials_ToEnd(s, i1, i2, i3) ==
  <<substr(s, i1 + 1, i3 - i1 - 1), substr(s, i3 + 1, npos)>>

Credentials(s, i1, i2, i3) ==
  <<substr(s, i1 + 1, i3 - i1 - 1), substr(s, i3 + 1, i2 - i3 - 1)>>

-----------------------------------------------------------------------------
IceGiven == \E s \in IceString : Given("ice", s)

(* What g_ice_server is afterwards.  Without a space the built-in server   *)
(* stays; without one of the other separators the new uri is announced     *)
(* with the built-in credentials.                                          *)
parseIce(s) ==
  LET ef   == find(s, Space)
      rest == substr(s, ef, npos)
      i1   == find(rest, OpenBracket)
      i2   == find(rest, CloseBracket)
      i3   == find(rest, Colon)
      uri  == substr(s, 0, ef)
      c    == Credentials(rest, i1, i2, i3)
  IN  CASE ef = npos -> BuiltIn
        [] ef # npos /\ npos \in {i1, i2, i3} -> [BuiltIn EXCEPT !.uri = uri]
        [] ef # npos /\ npos \notin {i1, i2, i3} ->
             [uri |-> uri, username |-> c[1], password |-> c[2]]

ParseIce == Read("ice", parseIce)

ISpec == IceGiven /\ [][ParseIce \/ Done]_rvars

ice_server == text.of

-----------------------------------------------------------------------------
Without(s, separators) == Range(s) \cap separators = {}

(* A string of the form the comment in main() shows is taken apart where   *)
(* its author meant it: with a space, a colon and the closing bracket at   *)
(* i, j and k, and none of them earlier, main() announces the three parts  *)
(* between, also when the password holds colons or the username brackets.  *)
WellFormedIsParsed ==
  WasRead("ice") =>
    \A i, j, k \in 1 .. Len(ice_server) :
      LET uri      == SubSeq(ice_server, 1, i - 1)
          username == SubSeq(ice_server, i + 2, j - 1)
          password == SubSeq(ice_server, j + 1, k - 1)
      IN  /\ i + 1 < j /\ j < k
          /\ SubSeq(ice_server, i, i + 1) = <<Space, OpenBracket>>
          /\ ice_server[j] = Colon /\ ice_server[k] = CloseBracket
          /\ Without(uri, {Space}) /\ Without(username, {Colon, CloseBracket})
          /\ Without(password, {CloseBracket})
          => result = [uri |-> uri, username |-> username, password |-> password]
=============================================================================
