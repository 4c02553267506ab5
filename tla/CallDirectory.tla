--------------------------- MODULE CallDirectory ---------------------------
(***************************************************************************)
(* What the signalling server promises its clients, without ids to issue,  *)
(* lists to search or JSON: who is present, who is in a call with whom,    *)
(* and that whoever leaves a call by leaving the server has its partner,   *)
(* and nobody else, told so once.                                          *)
(***************************************************************************)
CONSTANTS Conn, Id

VARIABLES
  present, \* connection -> id, for the connections signed in
  calls,   \* the calls, each the set of its two connections
  told     \* the notices <<recipient, id that left>> of the last step

dvars == <<present, calls, told>>

Busy(c) == \E call \in calls : c \in call

Init ==
  /\ present = [c \in {} |-> {}]
  /\ calls = {}
  /\ told = {}

Join(c) ==
  /\ c \notin DOMAIN present
  /\ \E id \in Id :
       /\ \A d \in DOMAIN present : present[d] # id
       /\ present' = [d \in DOMAIN present \cup {c} |-> IF d = c THEN id ELSE present[d]]
  /\ told' = {}
  /\ UNCHANGED calls

Call(c, d) ==
  /\ {c, d} \subseteq DOMAIN present
  /\ c # d
  /\ ~Busy(c) /\ ~Busy(d)
  /\ calls' = calls \cup {{c, d}}
  /\ told' = {}
  /\ UNCHANGED present

Leave(c) ==
  /\ c \in DOMAIN present
  /\ present' = [d \in DOMAIN present \ {c} |-> present[d]]
  /\ calls' = {call \in calls : c \notin call}
  /\ told' = {<<d, present[c]>> : d \in {e \in DOMAIN present \ {c} : {c, e} \in calls}}

(* Relaying a message, answering a question, ignoring a text.              *)
Converse == told' = {} /\ UNCHANGED <<present, calls>>

Next ==
  \/ \E c \in Conn : Join(c) \/ Leave(c)
  \/ \E c, d \in Conn : Call(c, d)
  \/ Converse

Spec == Init /\ [][Next]_dvars
=============================================================================
