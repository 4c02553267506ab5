------------------------------ MODULE Reading ------------------------------
(***************************************************************************)
(* A text the program is given, and what one of its readers makes of it.   *)
(* Reading is sequential and touches nothing else, so it is one step.      *)
(***************************************************************************)

VARIABLES
  text,    \* what is read: its kind and its content
  result   \* what the reader makes of it, NotYet before

rvars == <<text, result>>

NotYet == [verdict |-> "none"]

Given(kind, content) ==
  /\ text = [kind |-> kind, of |-> content]
  /\ result = NotYet

Read(kind, reader(_)) ==
  /\ text.kind = kind
  /\ result = NotYet
  /\ result' = reader(text.of)
  /\ UNCHANGED text

WasRead(kind) == text.kind = kind /\ result # NotYet

Done == result # NotYet /\ UNCHANGED rvars
=============================================================================
