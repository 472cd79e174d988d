------------------------------ MODULE Exchange ------------------------------
(***************************************************************************)
(* What the two loops of antarc-sample amount to, told without phases,     *)
(* maps or lists: one word goes back and forth.  An end that has heard the *)
(* other speaks once, and then listens; a word that is lost ends the talk. *)
(***************************************************************************)
EXTENDS Naturals

CONSTANTS client, server

VARIABLES
  speaker,  \* the ends that have something to say
  flying    \* how many packets are on their way to an end

Ends == {client, server}
Other(e) == IF e = client THEN server ELSE client

Init ==
  /\ speaker = {client}
  /\ flying = [e \in Ends |-> 0]

Speak(e) ==
  /\ speaker = {e}
  /\ speaker' = {}
  /\ flying' = [flying EXCEPT ![Other(e)] = 1]

Hear(e) ==
  /\ flying[e] = 1
  /\ flying' = [flying EXCEPT ![e] = 0]
  /\ speaker' = {e}

Lose(e) ==
  /\ flying[e] = 1
  /\ flying' = [flying EXCEPT ![e] = 0]
  /\ UNCHANGED speaker

Next == \E e \in Ends : Speak(e) \/ Hear(e) \/ Lose(e)

Spec == Init /\ [][Next]_<<speaker, flying>>
=============================================================================
