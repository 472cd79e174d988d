----------------------------- MODULE Handshake ------------------------------
(***************************************************************************)
(* What the connection handshake promises, told without packets, queues or *)
(* polls.  The link between a client and a server passes its stages one by *)
(* one and never goes back; the server grants it one id, that no other of  *)
(* its links has and that the link keeps; and a client opens a link only   *)
(* under an id that tells its open links apart.                            *)
(***************************************************************************)
CONSTANTS Clients, Servers, ConnectionId

VARIABLES
  stage,    \* how far each link has come
  granted   \* the id its server gave a link, 0 before

Stage == {"idle", "requesting", "requested", "granted", "offered", "open",
          "established"}

Init ==
  /\ stage = [c \in Clients |-> [s \in Servers |-> "idle"]]
  /\ granted = [c \in Clients |-> [s \in Servers |-> 0]]

Advance(c, s, from, to) ==
  /\ stage[c][s] = from
  /\ stage' = [stage EXCEPT ![c][s] = to]

\* The client has this link open under this id.
Open(c, s, id) == stage[c][s] \in {"open", "established"} /\ granted[c][s] = id

\* The application asks for the link; the request goes out.
Connect(c, s) == Advance(c, s, "idle", "requesting") /\ UNCHANGED granted
SendRequest(c, s) == Advance(c, s, "requesting", "requested") /\ UNCHANGED granted

\* The server grants an id; its answer goes out.
Grant(c, s) ==
  /\ Advance(c, s, "requested", "granted")
  /\ \E id \in ConnectionId :
       /\ \A other \in Clients : granted[other][s] # id
       /\ granted' = [granted EXCEPT ![c][s] = id]
SendAccepted(c, s) == Advance(c, s, "granted", "offered") /\ UNCHANGED granted

\* The answer reaches the client, then a packet of the client the server.
OpenLink(c, s) ==
  /\ Advance(c, s, "offered", "open")
  /\ \A other \in Servers : ~Open(c, other, granted[c][s])
  /\ UNCHANGED granted
Establish(c, s) == Advance(c, s, "open", "established") /\ UNCHANGED granted

Next ==
  \E c \in Clients, s \in Servers :
     \/ Connect(c, s)
     \/ SendRequest(c, s)
     \/ Grant(c, s)
     \/ SendAccepted(c, s)
     \/ OpenLink(c, s)
     \/ Establish(c, s)

Spec == Init /\ [][Next]_<<stage, granted>>
=============================================================================
