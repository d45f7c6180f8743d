------------------------------- MODULE Server -------------------------------
(***************************************************************************)
(* WSServer: the handlers of Sessions, Friends and Messages over one event *)
(* loop and one database, and what they must establish together.           *)
(***************************************************************************)
EXTENDS Friends, Messages

vars == <<procVars, task, historyVars, dbVars>>

Init == SessionsInit

SessionStep ==
  \/ CloseSession \/ Return
  \/ LoginSession \/ LoginLists \/ LoginChats
  \/ LogoutSession \/ LogoutEmail \/ LogoutDone
  \/ \E f \in User : LoginNotify(f) \/ LogoutNotify(f)

FriendStep ==
  \/ AddFriendPush
  \/ AcceptChat \/ AcceptSelf \/ AcceptPeer \/ AcceptPush
  \/ removeRequest \/ removeFriend

MessageStep ==
  \/ MsgEcho \/ MsgDirect \/ MsgFlag \/ MsgRoomDone
  \/ \E v \in User : MsgRoom(v)

\* A handler in progress goes on.
HandlerStep == SessionStep \/ FriendStep \/ MessageStep

\* A request arrives on an open connection.
Request(c) ==
  \/ Refuse(c)
  \/ \E u \in User : Register(c, u) \/ Login(c, u)
  \/ Logout(c)
  \/ \E email \in User : \/ AddFriend(c, email)
                         \/ AcceptFriend(c, email)
                         \/ DeclineFriend(c, email)
                         \/ RemoveFriend(c, email)
  \/ \E cid \in 1..MaxChats : NewMessage(c, cid)

Next ==
  \/ Start
  \/ Kill
  \/ DbFault
  \/ \E c \in Conn : on_open(c) \/ PeerCloses(c) \/ on_close(c) \/ Request(c)
  \/ HandlerStep

Spec == Init /\ [][Next]_vars

\* A handler once begun is run to its end by the only thread.  The event loop
\* is a FIFO queue, so a posted close handler is not overtaken for ever.
Fairness == WF_vars(HandlerStep) /\ \A c \in Conn : SF_vars(on_close(c))

FairSpec == Spec /\ Fairness

-----------------------------------------------------------------------------
TypeOK == DatabaseTypeOK /\ SessionsTypeOK

Live(c)  == cstate[c] # "absent"
Bound(u, c) == Live(c) /\ sessionid[u] = Session(c)     \* u's session is c's
At(u, c) == Bound(u, c) /\ online[u]

\* A connection is in the map exactly as long as it lives, and two connections
\* never share a session: what get_data_from_hdl and get_hdl_from_session
\* presume, and what makes a session id name one client.
SessionsDistinct ==
  \A c \in Conn :
    /\ Live(c) <=> Session(c) # 0
    /\ \A d \in Conn \ {c} : Live(c) => Session(c) # Session(d)

\* Whoever acts as u on a connection (and receives what is addressed to u) has
\* presented u's password on that very connection: session ids start at 1 again
\* after every restart, so a row that outlived its process or its connection
\* would hand the account to a stranger.
SessionAuthentic ==
  \A c \in Conn, u \in User : Bound(u, c) => u \in authed[c]

\* Two users are related by at most one row of friends, whoever asked first:
\* acceptFriendRequest updates the pair in both directions and relies on it.
FriendsPairUnique ==
  \A r, q \in friends : SamePair(r, q.uid, q.fid) => r = q

\* Whoever is marked online has a live connection under the recorded session
\* (except between the two statements of a login), so that every lookup of an
\* online user's connection in get_hdl_from_session finds one.  A login whose
\* second statement failed leaves the user under no session at all, but never
\* under one that is not its own.
PresenceSound ==
  \A u \in User :
    up /\ online[u] => \/ \E c \in Conn : At(u, c)
                       \/ task.at = "login.session" /\ task.uid = u
                       \/ "db" \in Faults /\ sessionid[u] = NoSession

\* A client that was sent its chat list and still holds its session has on its
\* wire every message stored in its chats: the list and the later deliveries
\* leave no gap between them.
ConnectedSeesAll ==
  \A c \in Conn, u \in User :
    up /\ task.at = "idle" /\ listed[c] = u /\ Bound(u, c)
      => getChatsByUid(u) \subseteq seen[c]

\* A message goes only to connections of its author and of the members of its
\* chat, whatever id a client names and however sessions have moved.
OnlyMembersSee ==
  [][\A c \in Conn : \A m \in seen'[c] \ seen[c] :
       \E u \in authed[c] : u = messages[m].uid \/ InChat(u, messages[m].cid)]_vars

\* A message is marked transmitted only when a member other than its author has
\* been handed it.
TransmittedIsHanded ==
  [][\A m \in DOMAIN messages :
       ~messages[m].transmitted /\ messages'[m].transmitted =>
         \E c \in Conn, u \in User :
           /\ Bound(u, c) /\ m \in seen[c]
           /\ u # messages[m].uid /\ InChat(u, messages[m].cid)]_vars

\* Befriended users have a chat together: friend lists, notifications and
\* messages are all derived from chats, never from friends.
AcceptedHaveChat ==
  \A r \in friends :
    r.accepted /\ task.at \notin {"accept.chat", "accept.self", "accept.peer"} =>
      \E cid \in DOMAIN chatlist : InChat(r.uid, cid) /\ InChat(r.fid, cid)

\* A user whose connection is gone does not stay online there: sooner or later
\* the row says offline, or holds the session of another connection.
DepartedGoOffline ==
  \A c \in Conn, u \in User :
    (cstate[c] = "closing" /\ At(u, c)) ~>
      (~up \/ ~online[u] \/ \E d \in Conn \ {c} : At(u, d))

-----------------------------------------------------------------------------
(* The bookkeeping of sessionid, online and m_connections implements Presence. *)

Whereabouts ==
  INSTANCE Presence WITH
    present <- {c \in Conn : Live(c)},
    loc     <- [u \in User |-> {c \in Conn : At(u, c)}]

\* Users come, move and go as Presence promises; above all a connection is
\* forgotten only after its user has left it.
PresenceKept == Whereabouts!Spec

-----------------------------------------------------------------------------
(* What the documentation says and the code does not do.                    *)

\* Declining a request and removing a friend delete the row, and the server stays.
DeletionsDelete ==
  [][task.at \in {"decline.delete", "remove.delete"} =>
       up' /\ ~ \E r \in friends' : SamePair(r, task.uid, task.fid)]_vars

\* A push that the other client's connection refuses is reported like any error:
\* the server goes on, and so does a login, which ends with chats and messages.
PushFailureContained ==
  [][/\ task.at \in {"logout.notify", "add.push", "accept.push", "msg.direct"} => up'
     /\ task.at = "login.notify" /\ task'.at = "return" => listed' # listed]_vars
=============================================================================
