--------------------------- MODULE HandlerContract ---------------------------
(***************************************************************************)
(* What the server takes for granted of one websocket connection: the open *)
(* handler first and once, messages and sends only while the connection is *)
(* open, and the close handler once, last, and only after the open handler. *)
(* Sessions is written against this contract (its cstate), WsConnection is *)
(* shown to keep it.                                                       *)
(***************************************************************************)
EXTENDS Naturals

VARIABLES
  cstate,    \* as in Sessions; "gone" is "absent" again, for good
  handled,   \* messages given to on_message
  sent       \* messages taken by send

contract == <<cstate, handled, sent>>

Init == cstate = "absent" /\ handled = 0 /\ sent = 0

\* on_open is called.
Open == cstate = "absent" /\ cstate' = "open" /\ UNCHANGED <<handled, sent>>

\* The handshake comes to nothing; no handler of the server is called.
Fail == cstate = "absent" /\ cstate' = "gone" /\ UNCHANGED <<handled, sent>>

Message == cstate = "open" /\ handled' = handled + 1 /\ UNCHANGED <<cstate, sent>>

Send == cstate = "open" /\ sent' = sent + 1 /\ UNCHANGED <<cstate, handled>>

\* The connection is lost or being closed, and on_close is still to come.
Lose == cstate = "open" /\ cstate' = "closing" /\ UNCHANGED <<handled, sent>>

\* on_close is called.
Close ==
  /\ cstate \in {"open", "closing"}
  /\ cstate' = "gone"
  /\ UNCHANGED <<handled, sent>>

Next == Open \/ Fail \/ Message \/ Send \/ Lose \/ Close

Spec == Init /\ [][Next]_contract

\* The promise as a whole: a connection that is being closed is closed.
Promise == Spec /\ WF_contract(Close /\ cstate = "closing")

=============================================================================
