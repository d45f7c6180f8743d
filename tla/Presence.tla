------------------------------ MODULE Presence ------------------------------
(***************************************************************************)
(* What keeping track of presence promises: which connections there are,   *)
(* and at which of them, at most one, each user can be reached.  No code   *)
(* has this state; sessionid, online and m_connections together stand for  *)
(* it, and Server gives the mapping.                                       *)
(***************************************************************************)
CONSTANTS User, Conn

VARIABLES
  present,   \* the connections
  loc        \* loc[u]: the connection u is reached at, if any

Init ==
  /\ present = {}
  /\ loc = [u \in User |-> {}]

Connect(c) ==
  /\ c \notin present
  /\ present' = present \cup {c}
  /\ UNCHANGED loc

\* u arrives at a connection that nobody else uses, from nowhere or elsewhere.
Arrive(u, c) ==
  /\ c \in present
  /\ \A v \in User \ {u} : c \notin loc[v]
  /\ loc' = [loc EXCEPT ![u] = {c}]
  /\ UNCHANGED present

Leave(u) ==
  /\ loc[u] # {}
  /\ loc' = [loc EXCEPT ![u] = {}]
  /\ UNCHANGED present

\* Only a connection that nobody is at goes away ...
Disconnect(c) ==
  /\ c \in present
  /\ \A u \in User : c \notin loc[u]
  /\ present' = present \ {c}
  /\ UNCHANGED loc

\* ... unless all of them go, with the process.
Shutdown ==
  /\ present' = {}
  /\ loc' = [u \in User |-> {}]

Next ==
  \/ \E c \in Conn : Connect(c) \/ Disconnect(c)
  \/ \E u \in User : Leave(u) \/ \E c \in Conn : Arrive(u, c)
  \/ Shutdown

Spec == Init /\ [][Next]_<<present, loc>>
=============================================================================
