------------------------------- MODULE System -------------------------------
(***************************************************************************)
(* The server and its web clients.  Every action is one of Server with     *)
(* what it puts on the wires, or one of WebClient; requests reach the      *)
(* server in the order in which a tab sent them.                           *)
(***************************************************************************)
EXTENDS Server, FiniteSets

CONSTANTS
  Asked, MaxOut, Patient,
  MaxWire      \* bound: messages a page may not have processed when the
               \* server reads the next request

\* With keys no chat has more than two members; statements and templates are
\* taken to succeed (Server has both otherwise).
ASSUME SystemAssumption ==
  /\ SchemaKeys /\ Faults = {}
  /\ Asked \subseteq {"registration", "login", "logout", "searchUser", "addFriend",
                   "acceptFriend", "newMessage"}
  /\ MaxOut \in Nat /\ Patient \in BOOLEAN /\ MaxWire \in Nat

VARIABLES tab, wire, outbox

INSTANCE WebClient

sysVars == <<vars, tab, wire, outbox>>

-----------------------------------------------------------------------------
(* The messages: what the functions that build JSON take from the database. *)

\* Mutant: a request somebody made is not listed for whom it was made to.
getFriendRequestsMade(u) ==
  {v \in registered : \E r \in friends : ~r.accepted /\ r.uid = u /\ r.fid = v}

\* Both directions, by the UNION of the two selects.
getFriendRequests(u) ==
  {v \in registered : \E r \in friends : ~r.accepted /\ SamePair(r, u, v)}

\* Rows in no particular order, and rows in the order of their ids.
Rows(S) == CHOOSE s \in [1..Cardinality(S) -> S] : \A x \in S : \E i \in DOMAIN s : s[i] = x
Ordered(S) ==
  CHOOSE s \in [1..Cardinality(S) -> S] : \A i, j \in DOMAIN s : i < j => s[i] < s[j]

FriendRowOf(f) == [email |-> f, online |-> online[f]]

sendFriendlist(u) ==
  LET fs == Rows(getFrindIds(u)) IN
  [kind |-> "friendlist", values |-> [i \in DOMAIN fs |-> FriendRowOf(fs[i])]]

\* A chat with its messages, and the chats of a user.
ChatRow(cid) ==
  [id |-> cid,
   messages |-> Ordered({m \in DOMAIN messages :
                           messages[m].cid = cid /\ messages[m].uid \in registered})]

ChatsOf(u) ==
  LET cids == Ordered({cid \in DOMAIN chatlist : InChat(u, cid)})
  IN  [i \in DOMAIN cids |-> ChatRow(cids[i])]

Requests(s)  == [kind |-> "friendRequest", values |-> s]
Notify(u, b) == [kind |-> "notifyOnline", email |-> u, online |-> b]
NewFriend(f) == [kind |-> "newFriendListUser", values |-> <<FriendRowOf(f)>>]
NewChat(cid) == [kind |-> "newchat", values |-> <<[id |-> cid, messages |-> <<>>]>>]
Message      == [kind |-> "newMessage", id |-> task.mid, messageTo |-> task.cid]
Plain(k)     == [kind |-> k]

-----------------------------------------------------------------------------
(* Sending.                                                                 *)

None     == [d \in Conn |-> <<>>]
To(c, s) == [None EXCEPT ![c] = s]

\* A step of the server puts msgs on the wires; if it was its last, they end.
Post(msgs) ==
  IF up' THEN Put(msgs) /\ UNCHANGED <<tab, outbox>> ELSE SocketsEnd

\* s goes to wherever user f is reached, and own to the caller.
Push(f, s, own) ==
  \E h \in get_hdl_from_session(sessionid[f]) :
    CanSend(h) /\ Post([To(h, s) EXCEPT ![task.hdl] = @ \o own])

\* The step sent to f, unless it found it offline or failed.
PushIfOnline(f, s, own) ==
  IF up' /\ f # NoUser /\ online[f] THEN Push(f, s, own) ELSE Post(To(task.hdl, own))

-----------------------------------------------------------------------------
(* The steps of a handler.                                                  *)

Silent ==
  /\ \/ CloseSession \/ Return \/ LoginSession \/ LogoutEmail \/ LogoutDone
     \/ AcceptChat \/ AcceptSelf \/ AcceptPeer
     \/ MsgFlag \/ MsgRoomDone \/ removeRequest
  /\ Post(None)

LoginListsSent ==
  LET u == Caller(task.hdl) IN
  /\ LoginLists
  /\ Post(To(task.hdl,
       IF task'.at = "login.notify"
       THEN <<Plain("login"), sendFriendlist(u), Requests(Rows(getFriendRequests(u)))>>
       ELSE <<Plain("error")>>))

\* Mutant: the friends are told on logout only.
LoginNotifyUnsent(f) == LoginNotify(f) /\ Post(None)

LoginNotifySent(f) ==
  /\ LoginNotify(f)
  /\ IF up' /\ task'.at = "return"
     THEN Post(To(task.hdl, <<Plain("error")>>))
     ELSE PushIfOnline(f, <<Notify(task.uid, TRUE)>>, <<>>)

LoginChatsSent ==
  /\ LoginChats
  /\ Post(To(task.hdl, <<[kind |-> "chatlist", values |-> ChatsOf(Caller(task.hdl))]>>))

LogoutSessionSent ==
  /\ LogoutSession
  /\ Post(To(task.hdl, <<Plain("logout")>>))

LogoutNotifySent(f) ==
  /\ LogoutNotify(f)
  /\ PushIfOnline(f, <<Notify(task.uid, FALSE)>>, <<>>)

AddFriendPushSent ==
  /\ AddFriendPush
  /\ PushIfOnline(task.fid, <<Requests(<<task.uid>>)>>,
                  IF online[task.fid] THEN <<Plain("addFriend")>> ELSE <<>>)

\* Mutant: the new chat goes to the one who accepted only.
AcceptPushOneSided ==
  LET pushed(f) == <<NewFriend(f), NewChat(task.cid)>> IN
  AcceptPush /\ PushIfOnline(task.fid, <<NewFriend(task.uid)>>, pushed(task.fid))

AcceptPushSent ==
  /\ AcceptPush
  /\ IF up' THEN PushIfOnline(task.fid, <<NewFriend(task.uid), NewChat(task.cid)>>,
                              <<NewFriend(task.fid), NewChat(task.cid)>>)
     ELSE Post(None)

MsgEchoSent ==
  /\ MsgEcho
  /\ Post(To(task.hdl, IF PeerRows = {} THEN <<Message, Plain("error")>> ELSE <<Message>>))

\* Mutant: the other member sees the message at its next login.
MsgDirectUnsent == MsgDirect /\ Post(None)

MsgDirectSent == MsgDirect /\ PushIfOnline(task.fid, <<Message>>, <<>>)

Handle ==
  \/ Silent
  \/ LoginListsSent \/ LoginChatsSent \/ LogoutSessionSent
  \/ AddFriendPushSent \/ AcceptPushSent
  \/ MsgEchoSent \/ MsgDirectSent
  \/ \E f \in User : LoginNotifySent(f) \/ LogoutNotifySent(f)

-----------------------------------------------------------------------------
(* The server reads the next request of a tab.                              *)

\* msgs answer it at once.
Read(c, msgs) ==
  /\ IF up' THEN Put(To(c, msgs)) /\ outbox' = [outbox EXCEPT ![c] = Tail(@)]
                 /\ UNCHANGED tab
     ELSE SocketsEnd

Serve(c) ==
  /\ outbox[c] # <<>>
  /\ \A d \in Conn : Len(wire[d]) <= MaxWire
  /\ LET r == Head(outbox[c]) IN
     \/ /\ r.request = "registration"
        /\ \/ Register(c, r.email)
           \/ r.email \in registered /\ Refuse(c)
        /\ Read(c, <<Plain("registration")>>)
     \/ /\ r.request = "login"
        /\ \/ Login(c, r.email) /\ Read(c, <<>>)
           \/ Refuse(c) /\ Read(c, <<Plain("loginFailed")>>)
     \/ r.request = "logout" /\ Logout(c) /\ Read(c, <<>>)
     \/ /\ r.request = "searchUser" /\ Refuse(c)
        /\ \E S \in SUBSET (registered \ {Caller(c)}) :
             Read(c, <<[kind |-> "searchUser", values |-> S]>>)
     \/ /\ r.request = "addFriend" /\ AddFriend(c, r.email)
        /\ Read(c, IF task'.at = "return" THEN <<Plain("failed")>> ELSE <<>>)
     \/ /\ r.request = "acceptFriend"
        /\ \/ r.answer /\ AcceptFriend(c, r.email)
              /\ Read(c, <<[kind |-> "acceptFriend", friendMail |-> r.email]>>)
           \/ ~r.answer /\ DeclineFriend(c, r.email) /\ Read(c, <<>>)
     \/ r.request = "newMessage" /\ NewMessage(c, r.cid) /\ Read(c, <<>>)

-----------------------------------------------------------------------------
SystemInit == Init /\ ClientInit

\* A page acts.  What happens on a page while a handler runs could as well
\* happen after it: neither reads what the other writes, and a message sent to
\* a page that is being closed is lost either way.  So pages wait for it.
Browser(c) ==
  /\ task.at = "idle"
  /\ onmessage(c) \/ CloseTab(c) \/ UserStep(c)
  /\ UNCHANGED vars

SystemNext ==
  \/ Start /\ UNCHANGED <<tab, wire, outbox>>
  \/ Kill /\ SocketsEnd
  \/ Handle
  \/ \E c \in Conn :
       \/ on_open(c) /\ onopen(c)
       \/ /\ PeerCloses(c) /\ tab[c].page = "closed"
          /\ outbox' = [outbox EXCEPT ![c] = <<>>] /\ UNCHANGED <<tab, wire>>
       \/ on_close(c) /\ Post(None)
       \/ Serve(c)
       \/ Browser(c)

SystemSpec == SystemInit /\ [][SystemNext]_sysVars

\* The thread works, and browsers process what they receive.
SystemFairness ==
  /\ WF_sysVars(Handle)
  /\ \A c \in Conn : SF_sysVars(task.at = "idle" /\ onmessage(c) /\ UNCHANGED vars)

-----------------------------------------------------------------------------
\* c's page is u's and has processed everything the server ever sent it.
UpToDate(c, u) ==
  /\ up /\ task.at = "idle" /\ Bound(u, c) /\ cstate[c] = "open"
  /\ tab[c].page = "intern" /\ wire[c] = <<>> /\ listed[c] = u

\* A page that has caught up shows exactly the chats and messages of its user
\* that are stored, each once and in order, although they came in a list and
\* in pushes of other clients' handlers.
PageShowsChats ==
  \A c \in Conn, u \in User : UpToDate(c, u) => tab[c].chats = ChatsOf(u)

\* It shows every open request made to its user, whether it was made before or
\* after the login.
PageShowsRequests ==
  \A c \in Conn, u \in User : UpToDate(c, u) =>
    \A r \in friends : r.fid = u /\ ~r.accepted =>
      \E i \in DOMAIN tab[c].requests : tab[c].requests[i] = r.uid

\* f's login ran to its end: a push that fails cuts it short, and then friends
\* whose turn had not come are not told.
LoginDone(f) == online[f] /\ \E d \in Conn : Bound(f, d) /\ listed[d] = f

\* It shows every friend, and none as offline who is online and whose login ran
\* to its end.
PageShowsOnline ==
  \A c \in Conn, u \in User : UpToDate(c, u) =>
    \A f \in getFrindIds(u) :
      \E i \in DOMAIN tab[c].friends :
        tab[c].friends[i].email = f /\ (LoginDone(f) => tab[c].friends[i].online)

\* c's page is u's and has its chat list, whatever is still under way to it.
Viewing(c, u) ==
  up /\ Bound(u, c) /\ cstate[c] = "open" /\ tab[c].page = "intern" /\ listed[c] = u

\* A stored message reaches the page of every member who is online, unless that
\* page goes away or the user moves to another one first: no page stays for ever
\* in front of its user without a message that is stored in a chat of the user.
MessageShown ==
  \A c \in Conn :
    []<>(\A u \in User, m \in DOMAIN messages :
           Viewing(c, u) /\ InChat(u, messages[m].cid)
             => \E i \in DOMAIN tab[c].chats, j \in DOMAIN messages :
                  j \in DOMAIN tab[c].chats[i].messages /\ tab[c].chats[i].messages[j] = m)
=============================================================================
