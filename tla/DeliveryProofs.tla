--------------------------- MODULE DeliveryProofs ---------------------------
(***************************************************************************)
(* Where messages go: OnlyMembersSee, TransmittedIsHanded and              *)
(* ConnectedSeesAll, for any number of users, connections, chats and       *)
(* messages.  A message leaves in up to four handler steps, and which      *)
(* connection a step writes to depends on sessions read at that step; the  *)
(* invariants say what the handler still knows of them.                    *)
(*                                                                         *)
(* Assumed are what UserProofs needs for presence, no second account on a  *)
(* connection, and that no statement fails: a login whose second statement *)
(* failed leaves a user online without a session, and the lookup of its    *)
(* connection returns whatever the stack holds.                            *)
(***************************************************************************)
EXTENDS UserProofs

MessageLabels == {"msg.echo", "msg.direct", "msg.flag", "msg.room"}
LoginLabels   == {"login.session", "login.lists", "login.notify"}

\* The row the handler inserted says what its locals say.
OwnMessage ==
  task.at \in MessageLabels =>
    /\ task.mid \in DOMAIN messages
    /\ messages[task.mid].uid = task.uid /\ messages[task.mid].cid = task.cid

\* The caller was found by the session of the connection, and stays there while
\* the handler runs.
CallerStays ==
  /\ task.at = "msg.echo" => task.uid = NoUser \/ Bound(task.uid, task.hdl)
  /\ task.at \in {"login.lists", "login.notify"} =>
       task.uid \in User /\ Bound(task.uid, task.hdl)
  /\ task.at \in LoginLabels => online[task.uid]

\* Whom the message is for, and who was handed it before it is flagged.
Addressed ==
  /\ task.at \in {"msg.direct", "msg.flag"} =>
       task.fid # task.uid /\ InChat(task.fid, task.cid)
  /\ task.at = "msg.flag" =>
       task.fid \in User /\ \E c \in Conn : Bound(task.fid, c) /\ task.mid \in seen[c]
  /\ task.at = "msg.room" => \A v \in task.todo : online[v] /\ InChat(v, task.cid)

HandedInv == OwnMessage /\ CallerStays /\ Addressed

DInv == PInv /\ HandedInv

LEMMA DTypes ==
  ASSUME PInv
  PROVE  /\ TInv /\ task \in Task /\ (task.at # "idle" => task.hdl \in Conn)
         /\ seen \in [Conn -> SUBSET Nat] /\ listed \in [Conn -> AnyUser]
         /\ chatlist \in Seq(Seq(AnyUser)) /\ messages \in Seq(MessageRow)
  BY DEF PInv, AuthInv, TInv, HasHandle, TypeOK, DatabaseTypeOK, SessionsTypeOK

\* The connection of an online user is found, and no other.
LEMMA HandleFound ==
  ASSUME PInv, "db" \notin Faults, up, NEW v \in User, online[v], task.at # "login.session",
         NEW h \in get_hdl_from_session(sessionid[v])
  PROVE  h \in Conn /\ Bound(v, h)
  <1>1. sessionid[v] # NoSession
    BY DEF PInv, PresenceInv, Unreached
  <1>2. PICK c \in Conn : Bound(v, c)
    BY <1>1 DEF PInv, PresenceInv, SessionLive
  <1>3. Session(c) # 0 /\ Session(c) = sessionid[v]
    BY <1>2 DEF Bound, PInv, AuthInv, SessionsDistinct
  <1>4. h \in Conn /\ Session(h) # 0 /\ Session(h) = sessionid[v]
    BY <1>3 DEF get_hdl_from_session
  <1>5. Live(h)
    BY <1>4 DEF PInv, AuthInv, SessionsDistinct
  <1> QED BY <1>4, <1>5 DEF Bound

-----------------------------------------------------------------------------
(* Most steps store no message, send none and begin no login.               *)

Other ==
  /\ UNCHANGED messages
  /\ \A c \in Conn : seen'[c] \subseteq seen[c]
  /\ task'.at \notin MessageLabels \cup LoginLabels

LEMMA OtherHanded == Other => HandedInv'
  BY DEF Other, HandedInv, OwnMessage, CallerStays, Addressed, MessageLabels, LoginLabels

LEMMA DieOther == PInv /\ Die => Other
  BY DTypes DEF Die, Idle, Other, MessageLabels, LoginLabels, dbVars, chatVars

LEMMA OtherRequests ==
  ASSUME PInv, NEW c \in Conn
  PROVE  /\ Refuse(c) \/ Logout(c) => Other
         /\ \A u \in User : Register(c, u) => Other
         /\ \A e \in User : \/ AddFriend(c, e) \/ AcceptFriend(c, e)
                            \/ DeclineFriend(c, e) \/ RemoveFriend(c, e)
                            => Other
         /\ on_open(c) \/ PeerCloses(c) \/ on_close(c) => Other
  <1> USE NextLabels, DieOther, DTypes DEF Other, MessageLabels, LoginLabels, dbVars, userVars,
          chatVars, historyVars, Receives
  <1>1. Refuse(c) \/ Logout(c) => Other
    BY DEF Refuse, Logout, setOnline, Idle
  <1>2. \A u \in User : Register(c, u) => Other
    BY DEF Register, registerClient
  <1>3. ASSUME NEW e \in User, AddFriend(c, e), ~Die PROVE Other
    <2>1. task'.at \in {"add.push", "return"}
      BY <1>3 DEF AddFriend, Idle
    <2>2. UNCHANGED <<messages, seen>>
      BY <1>3 DEF AddFriend, insertFriendRequest
    <2> QED BY <2>1, <2>2
  <1>4. ASSUME NEW e \in User, AcceptFriend(c, e) PROVE Other
    BY <1>4 DEF AcceptFriend, acceptFriendRequest, Idle
  <1>5. \A e \in User : DeclineFriend(c, e) \/ RemoveFriend(c, e) => Other
    BY DEF DeclineFriend, RemoveFriend, Idle
  <1>6. on_open(c) \/ PeerCloses(c) => Other
    BY DEF on_open, PeerCloses
  <1>7. ASSUME on_close(c), ~Die PROVE Other
    BY <1>7 DEF on_close, setOnline, Idle
  <1> QED BY <1>1, <1>2, <1>3, <1>4, <1>5, <1>6, <1>7

LEMMA OtherSteps ==
  ASSUME PInv
  PROVE  /\ Start \/ Kill \/ DbFault => Other
         /\ CloseSession \/ Return \/ LogoutSession \/ LogoutEmail \/ LogoutDone => Other
         /\ \A f \in User : LogoutNotify(f) => Other
         /\ FriendStep \/ MsgRoomDone => Other
  <1> USE NextLabels, DieOther, DTypes DEF Other, MessageLabels, LoginLabels, dbVars, userVars,
          chatVars, historyVars
  <1>1. Start \/ Kill \/ DbFault => Other
    <2>1. Start => Other
      BY DEF Start, resetPresence, PInv, AuthInv, DownIsEmpty
    <2>2. Kill \/ DbFault => Other
      BY DEF Kill, DbFault
    <2> QED BY <2>1, <2>2
  <1>2. CloseSession => Other
    <2>1. ASSUME CloseSession
          PROVE  /\ UNCHANGED messages /\ task' = Idle
                 /\ \A d \in Conn : seen'[d] = {} \/ seen'[d] = seen[d]
      BY <2>1 DEF CloseSession, setSessionID
    <2> QED BY <2>1 DEF Idle
  <1>3. Return => Other
    BY DEF Return, Idle
  <1>4. ASSUME LogoutSession PROVE Other
    BY <1>4 DEF LogoutSession, setSessionID, Task
  <1>5. ASSUME LogoutEmail, ~Die PROVE Other
    BY <1>5 DEF LogoutEmail, Task
  <1>6. LogoutDone \/ MsgRoomDone => Other
    BY DEF LogoutDone, MsgRoomDone
  <1>7. ASSUME NEW f \in User, LogoutNotify(f), ~Die PROVE Other
    BY <1>7 DEF LogoutNotify, Task
  <1>8. ASSUME FriendStep, ~Die PROVE Other
    <2>1. AddFriendPush \/ AcceptPush => Other
      BY DEF AddFriendPush, AcceptPush
    <2>2. AcceptChat => Other
      BY DEF AcceptChat, insertChat, Task
    <2>3. AcceptSelf \/ AcceptPeer => Other
      BY DEF AcceptSelf, AcceptPeer, insertChatlist
    <2> QED BY <1>8, <2>1, <2>2, <2>3 DEF FriendStep, removeRequest, removeFriend
  <1> QED BY <1>1, <1>2, <1>3, <1>4, <1>5, <1>6, <1>7, <1>8

-----------------------------------------------------------------------------
(* A login: from its second statement on the user is at the connection.     *)

LEMMA LoginHanded ==
  ASSUME NEW c \in Conn, NEW u \in User, Login(c, u) PROVE HandedInv'
  <1>1. task'.at = "login.session" /\ task'.uid = u /\ online'[u]
    BY DEF Login, setOnline, Idle
  <1> QED BY <1>1 DEF HandedInv, OwnMessage, CallerStays, Addressed, MessageLabels, LoginLabels

LEMMA LoginSessionHanded == ASSUME DInv, LoginSession PROVE HandedInv'
  <1>1. PICK c \in Conn, u \in User : c = task.hdl /\ u = task.uid /\ Live(c)
    BY PTypes DEF DInv, LoginSession, PInv, AuthInv, TInv, HasHandle, TaskConnected,
       LoginAuthentic
  <1>2. /\ UNCHANGED <<cstate, m_connections, online>>
        /\ sessionid' = [v \in User |-> IF v = u THEN Session(c) ELSE sessionid[v]]
    BY <1>1 DEF LoginSession, setSessionID, procVars
  <1>3. task'.at = "login.lists" /\ task'.hdl = c /\ task'.uid = u
    BY <1>1, DTypes DEF DInv, LoginSession, Goto, Task
  <1>4. Bound(u, c)' /\ online[u]
    BY <1>1, <1>2 DEF Bound, Live, Session, DInv, HandedInv, CallerStays, LoginLabels,
       LoginSession
  <1>5. CallerStays'
    BY <1>2, <1>3, <1>4 DEF CallerStays, LoginLabels, Bound, Live, Session
  <1> QED BY <1>3, <1>5 DEF HandedInv, OwnMessage, Addressed, MessageLabels, LoginLabels

\* Lists and notifications change nothing but what the handler has left to do.
LEMMA LoginGoesOn ==
  ASSUME DInv, LoginLists \/ (\E f \in User : LoginNotify(f)), ~Other
  PROVE  /\ UNCHANGED <<procVars, historyVars, dbVars>>
         /\ task.at \in {"login.lists", "login.notify"} /\ task'.at = "login.notify"
         /\ task'.uid = task.uid /\ task'.hdl = task.hdl
  <1>1. ~Die
    BY DieOther DEF DInv
  <1>2. \A c : Reply(c) => ~UNCHANGED <<procVars, historyVars, dbVars>>
    BY NextLabels, DTypes DEF DInv, Other, MessageLabels, LoginLabels, historyVars, dbVars,
       chatVars
  <1> QED BY <1>1, <1>2, DTypes DEF DInv, LoginLists, LoginNotify, Task

LEMMA LoginListsHanded ==
  ASSUME DInv, LoginLists \/ (\E f \in User : LoginNotify(f)) PROVE HandedInv'
  <1>1. SUFFICES ASSUME ~Other PROVE HandedInv'
    BY OtherHanded
  <1>2. /\ UNCHANGED <<procVars, historyVars, dbVars>>
        /\ task.at \in {"login.lists", "login.notify"} /\ task'.at = "login.notify"
        /\ task'.uid = task.uid /\ task'.hdl = task.hdl
    BY <1>1, LoginGoesOn
  <1>3. CallerStays'
    BY <1>2 DEF DInv, HandedInv, CallerStays, LoginLabels, Bound, Live, Session, procVars,
       dbVars, userVars
  <1> QED BY <1>2, <1>3 DEF HandedInv, OwnMessage, Addressed, MessageLabels

LEMMA LoginChatsHanded == ASSUME LoginChats, DInv PROVE HandedInv'
  <1>1. task'.at = "return"
    BY NextLabels, DTypes DEF DInv, LoginChats
  <1> QED BY <1>1 DEF HandedInv, OwnMessage, CallerStays, Addressed, MessageLabels, LoginLabels

-----------------------------------------------------------------------------
(* A message: stored, echoed, handed to the peer and flagged, or to a room. *)

LEMMA NewMessageHanded ==
  ASSUME DInv, NEW c \in Conn, NEW cid \in 1..MaxChats, NewMessage(c, cid) PROVE HandedInv'
  <1>1. SUFFICES ASSUME ~Die PROVE HandedInv'
    BY DieOther, OtherHanded DEF DInv
  <1> DEFINE row == [uid |-> Caller(c), cid |-> cid, transmitted |-> FALSE]
  <1>2. /\ messages' = Append(messages, row) /\ UNCHANGED <<cstate, m_connections, sessionid>>
        /\ task'.at = "msg.echo" /\ task'.hdl = c /\ task'.uid = Caller(c)
        /\ task'.cid = cid /\ task'.mid = Len(messages) + 1
        /\ Live(c)
    BY <1>1 DEF NewMessage, newMessage, Idle, procVars, userVars, Receives, Live
  <1>3. Caller(c) \in AnyUser
    BY CallerType DEF Caller
  <1>4. row \in MessageRow /\ messages \in Seq(MessageRow)
    BY <1>3, DTypes DEF MessageRow, DInv
  <1>5. task'.mid \in DOMAIN messages' /\ messages'[task'.mid] = row
    <2> HIDE DEF row
    <2> QED BY <1>2, <1>4, AppendProperties, LenProperties
  <1>6. OwnMessage'
    BY <1>2, <1>5 DEF OwnMessage
  <1>7. CallerStays'
    <2>1. Caller(c) = NoUser \/ Bound(Caller(c), c)
      BY <1>2, <1>3, CallerBound DEF DInv, AnyUser
    <2> QED BY <1>2, <2>1 DEF CallerStays, LoginLabels, Bound, Live, Session
  <1> QED BY <1>2, <1>6, <1>7 DEF HandedInv, Addressed

\* What a step that goes on with the message leaves alone.
LEMMA SameMessage ==
  ASSUME OwnMessage, UNCHANGED messages, task.at \in MessageLabels,
         task'.mid = task.mid, task'.uid = task.uid, task'.cid = task.cid
  PROVE  OwnMessage'
  BY DEF OwnMessage

LEMMA MsgEchoHanded == ASSUME DInv, MsgEcho PROVE HandedInv'
  <1>1. SUFFICES ASSUME ~Die, task'.at \in MessageLabels PROVE HandedInv'
    <2>1. Die => HandedInv'
      BY DieOther, OtherHanded DEF DInv
    <2>2. task'.at \in {"msg.direct", "msg.room", "return"} \/ Die
      BY NextLabels, DTypes DEF DInv, MsgEcho, Task
    <2> QED BY <2>1, <2>2 DEF HandedInv, OwnMessage, CallerStays, Addressed, MessageLabels,
            LoginLabels
  <1>2. ~Reply(task.hdl)
    BY <1>1, NextLabels, DTypes DEF DInv, MessageLabels
  <1>3. /\ task.at = "msg.echo" /\ UNCHANGED <<messages, chatlist, online>>
        /\ task'.mid = task.mid /\ task'.uid = task.uid /\ task'.cid = task.cid
    BY <1>1, <1>2, DTypes DEF DInv, MsgEcho, Task, dbVars, userVars, chatVars
  <1>4. \/ /\ task'.at = "msg.direct"
           /\ \E i \in PeerRows : task'.fid = chatlist[task.cid][i]
        \/ task'.at = "msg.room" /\ task'.todo = getAllOnlineUsersOfChatroom(task.cid)
    BY <1>1, <1>2, DTypes DEF DInv, MsgEcho, Task
  <1>5. OwnMessage'
    BY <1>3, SameMessage DEF DInv, HandedInv, MessageLabels
  <1>6. Addressed'
    <2>1. CASE task'.at = "msg.direct"
      <3>1. task'.fid # task.uid /\ InChat(task'.fid, task.cid)
        BY <1>4, <2>1 DEF PeerRows, getPeersOfChat, InChat
      <3> QED BY <1>3, <2>1, <3>1 DEF Addressed, InChat
    <2>2. CASE task'.at = "msg.room"
      <3>1. \A v \in task'.todo : online[v] /\ InChat(v, task.cid)
        BY <1>4, <2>2 DEF getAllOnlineUsersOfChatroom
      <3> QED BY <1>3, <2>2, <3>1 DEF Addressed, InChat
    <2> QED BY <1>4, <2>1, <2>2
  <1> QED BY <1>4, <1>5, <1>6 DEF HandedInv, CallerStays, LoginLabels

\* The connection a message is handed to is that of the user it is for.
LEMMA HandedOver ==
  ASSUME PInv, "db" \notin Faults, task.at \in MessageLabels, NEW v \in User, online[v],
         NEW h \in get_hdl_from_session(sessionid[v]), HandTo(h)
  PROVE  /\ h \in Conn /\ Bound(v, h)
         /\ seen' = [seen EXCEPT ![h] = @ \cup {task.mid}] /\ task.mid \in seen'[h]
  <1>1. up /\ task.at # "login.session"
    BY DEF MessageLabels, PInv, AuthInv, DownIsEmpty
  <1>2. h \in Conn /\ Bound(v, h)
    BY <1>1, HandleFound
  <1> QED BY <1>2, DTypes DEF HandTo

LEMMA MsgDirectSteps ==
  ASSUME PInv, MsgDirect, ~Die, task'.at # "return"
  PROVE  /\ task.at = "msg.direct" /\ task'.at = "msg.flag"
         /\ task' = [task EXCEPT !.at = "msg.flag"]
         /\ UNCHANGED <<procVars, authed, listed, dbVars>>
         /\ task.fid \in User /\ online[task.fid]
         /\ \E h \in get_hdl_from_session(sessionid[task.fid]) : HandTo(h)
  <1>1. ~Finish
    BY NextLabels, DTypes
  <1> QED BY <1>1, DTypes DEF MsgDirect, Goto, Task, AnyUser

LEMMA MsgDirectHanded == ASSUME DInv, "db" \notin Faults, MsgDirect PROVE HandedInv'
  <1>1. SUFFICES ASSUME ~Die, task'.at # "return" PROVE HandedInv'
    BY DieOther, OtherHanded DEF DInv, HandedInv, OwnMessage, CallerStays, Addressed,
       MessageLabels, LoginLabels
  <1>2. /\ task.at = "msg.direct" /\ task' = [task EXCEPT !.at = "msg.flag"]
        /\ UNCHANGED <<procVars, authed, listed, dbVars>>
        /\ task.fid \in User /\ online[task.fid]
        /\ \E h \in get_hdl_from_session(sessionid[task.fid]) : HandTo(h)
    BY <1>1, MsgDirectSteps DEF DInv
  <1>3. /\ task'.at = "msg.flag" /\ task'.mid = task.mid /\ task'.uid = task.uid
        /\ task'.cid = task.cid /\ task'.fid = task.fid
    BY <1>2, DTypes DEF DInv, Task
  <1>4. PICK h \in get_hdl_from_session(sessionid[task.fid]) :
          h \in Conn /\ Bound(task.fid, h) /\ task.mid \in seen'[h]
    BY <1>2, HandedOver DEF DInv, MessageLabels
  <1>5. OwnMessage'
    BY <1>2, <1>3, SameMessage DEF DInv, HandedInv, MessageLabels, dbVars, chatVars
  <1>6. task.fid # task.uid /\ InChat(task.fid, task.cid)
    BY <1>2 DEF DInv, HandedInv, Addressed
  <1>7. Addressed'
    BY <1>2, <1>3, <1>4, <1>6 DEF Addressed, InChat, Bound, Live, Session, procVars, dbVars,
       userVars, chatVars
  <1> QED BY <1>3, <1>5, <1>7 DEF HandedInv, CallerStays, LoginLabels

LEMMA MsgFlagHanded == ASSUME DInv, MsgFlag PROVE HandedInv'
  <1>1. task'.at = "return"
    BY NextLabels, DTypes DEF DInv, MsgFlag
  <1> QED BY <1>1 DEF HandedInv, OwnMessage, CallerStays, Addressed, MessageLabels, LoginLabels

LEMMA MsgRoomHanded ==
  ASSUME DInv, NEW v \in User, MsgRoom(v) PROVE HandedInv'
  <1>1. SUFFICES ASSUME ~Die PROVE HandedInv'
    BY DieOther, OtherHanded DEF DInv
  <1>2. task.at = "msg.room" /\ UNCHANGED <<messages, chatlist, online>>
    BY <1>1 DEF MsgRoom, dbVars, userVars, chatVars
  <1>3. /\ task'.at = "msg.room" /\ task'.mid = task.mid /\ task'.uid = task.uid
        /\ task'.cid = task.cid /\ task'.todo = task.todo \ {v}
    BY <1>1, DTypes DEF DInv, MsgRoom, Task
  <1>4. OwnMessage'
    BY <1>2, <1>3, SameMessage DEF DInv, HandedInv, MessageLabels
  <1>5. Addressed'
    BY <1>2, <1>3 DEF DInv, HandedInv, Addressed, InChat
  <1> QED BY <1>3, <1>4, <1>5 DEF HandedInv, CallerStays, LoginLabels

LEMMA NextHanded ==
  ASSUME ~AccountSwitch, "db" \notin Faults PROVE DInv /\ [Next]_vars => DInv'
  <1> SUFFICES ASSUME DInv, [Next]_vars PROVE HandedInv'
    BY NextPresence DEF DInv
  <1> USE OtherHanded
  <1>1. CASE UNCHANGED vars
    BY <1>1 DEF vars, procVars, historyVars, dbVars, userVars, chatVars, DInv, HandedInv,
       OwnMessage, CallerStays, Addressed, InChat, Bound, Live, Session
  <1>2. ASSUME NEW c \in Conn, Request(c) \/ on_open(c) \/ PeerCloses(c) \/ on_close(c)
        PROVE  HandedInv'
    BY <1>2, OtherRequests, LoginHanded, NewMessageHanded DEF Request, DInv
  <1>3. CASE SessionStep
    BY <1>3, OtherSteps, LoginSessionHanded, LoginListsHanded, LoginChatsHanded
    DEF SessionStep, DInv
  <1>4. CASE MessageStep
    BY <1>4, OtherSteps, MsgEchoHanded, MsgDirectHanded, MsgFlagHanded, MsgRoomHanded
    DEF MessageStep, DInv
  <1> QED BY <1>1, <1>2, <1>3, <1>4, OtherSteps DEF Next, HandlerStep, DInv

LEMMA InitHanded == Init => DInv
  <1> SUFFICES ASSUME Init PROVE HandedInv
    BY InitPresence DEF DInv
  <1> QED BY DEF Init, SessionsInit, Idle, HandedInv, OwnMessage, CallerStays, Addressed,
             MessageLabels, LoginLabels

-----------------------------------------------------------------------------
(* The action properties, step by step.                                     *)

MembersStep ==
  \A c \in Conn : \A m \in seen'[c] \ seen[c] :
    \E u \in authed[c] : u = messages[m].uid \/ InChat(u, messages[m].cid)

TransmittedStep ==
  \A m \in DOMAIN messages :
    ~messages[m].transmitted /\ messages'[m].transmitted =>
      \E c \in Conn, u \in User :
        /\ Bound(u, c) /\ m \in seen[c]
        /\ u # messages[m].uid /\ InChat(u, messages[m].cid)

\* Nothing is sent.
NoneSeen == \A c \in Conn : seen'[c] \subseteq seen[c]

\* No row of messages changes.
RowsKept == \A m \in DOMAIN messages : messages'[m] = messages[m]

LEMMA QuietStep ==
  /\ NoneSeen => MembersStep
  /\ RowsKept => TransmittedStep
  /\ Other => NoneSeen /\ RowsKept
  BY DEF NoneSeen, MembersStep, RowsKept, TransmittedStep, Other

LEMMA LoginQuiet ==
  ASSUME DInv
  PROVE  /\ \A c \in Conn, u \in User : Login(c, u) => NoneSeen /\ RowsKept
         /\ LoginSession \/ LoginLists => NoneSeen /\ RowsKept
         /\ \A f \in User : LoginNotify(f) => NoneSeen /\ RowsKept
  <1> USE QuietStep DEF NoneSeen, RowsKept, historyVars, dbVars, chatVars
  <1>1. \A c \in Conn, u \in User : Login(c, u) => NoneSeen /\ RowsKept
    BY DEF Login, setOnline
  <1>2. LoginSession \/ LoginLists => NoneSeen /\ RowsKept
    BY DEF LoginSession, setSessionID, LoginLists
  <1>3. \A f \in User : LoginNotify(f) => NoneSeen /\ RowsKept
    BY DieOther DEF DInv, LoginNotify
  <1> QED BY <1>1, <1>2, <1>3

LEMMA NewMessageQuiet ==
  ASSUME DInv, NEW c \in Conn, NEW cid \in 1..MaxChats, NewMessage(c, cid)
  PROVE  NoneSeen /\ RowsKept
  <1>1. CASE Die
    BY <1>1, DieOther, QuietStep DEF DInv
  <1>2. CASE ~Die
    <2> DEFINE row == [uid |-> Caller(c), cid |-> cid, transmitted |-> FALSE]
    <2>1. messages' = Append(messages, row) /\ UNCHANGED seen
      BY <1>2 DEF NewMessage, newMessage, historyVars
    <2>2. row \in MessageRow /\ messages \in Seq(MessageRow)
      BY CallerType, DTypes DEF Caller, MessageRow, DInv
    <2>3. RowsKept
      <3> HIDE DEF row
      <3> QED BY <2>1, <2>2, AppendProperties, LenProperties DEF RowsKept
    <2> QED BY <2>1, <2>3 DEF NoneSeen
  <1> QED BY <1>1, <1>2

\* The list goes to the user at the connection.
LEMMA LoginChatsMembers == ASSUME DInv, LoginChats PROVE MembersStep /\ RowsKept
  <1>1. PICK c \in Conn, u \in User : c = task.hdl /\ u = task.uid /\ Bound(u, c)
    BY DTypes DEF DInv, LoginChats, HandedInv, CallerStays
  <1>2. /\ seen' = [seen EXCEPT ![c] = @ \cup getChatsByUid(u)] /\ UNCHANGED messages
    BY <1>1, CallerFound DEF DInv, LoginChats, dbVars, chatVars
  <1>3. u \in authed[c]
    BY <1>1 DEF DInv, PInv, AuthInv, SessionAuthentic
  <1>4. \A m \in getChatsByUid(u) : InChat(u, messages[m].cid)
    BY DEF getChatsByUid
  <1>5. MembersStep
    BY <1>2, <1>3, <1>4, DTypes DEF DInv, MembersStep
  <1> QED BY <1>2, <1>5 DEF RowsKept

\* The echo goes to the author.
LEMMA MsgEchoMembers == ASSUME DInv, MsgEcho PROVE MembersStep /\ RowsKept
  <1>1. CASE Die
    BY <1>1, DieOther, QuietStep DEF DInv
  <1>2. CASE ~Die
    <2>1. PICK c \in Conn, u \in User : c = task.hdl /\ u = task.uid /\ Bound(u, c)
      BY <1>2, DTypes DEF DInv, MsgEcho, HandedInv, CallerStays, Task, AnyUser
    <2>2. /\ seen' = [seen EXCEPT ![c] = @ \cup {task.mid}] /\ UNCHANGED messages
          /\ task.at = "msg.echo"
      BY <1>2, <2>1 DEF MsgEcho, dbVars, chatVars
    <2>3. u \in authed[c] /\ messages[task.mid].uid = u
      BY <2>1, <2>2 DEF DInv, PInv, AuthInv, SessionAuthentic, HandedInv, OwnMessage,
         MessageLabels
    <2>4. MembersStep
      BY <2>2, <2>3, DTypes DEF DInv, MembersStep
    <2> QED BY <2>2, <2>4 DEF RowsKept
  <1> QED BY <1>1, <1>2

\* What is handed on goes to a member of the chat.
LEMMA HandMembers ==
  ASSUME DInv, "db" \notin Faults, task.at \in MessageLabels, NEW v \in User, online[v],
         InChat(v, task.cid), NEW h \in get_hdl_from_session(sessionid[v]), HandTo(h)
  PROVE  MembersStep
  <1>1. h \in Conn /\ Bound(v, h) /\ seen' = [seen EXCEPT ![h] = @ \cup {task.mid}]
    BY HandedOver DEF DInv
  <1>2. v \in authed[h] /\ messages[task.mid].cid = task.cid
    BY <1>1 DEF DInv, PInv, AuthInv, SessionAuthentic, HandedInv, OwnMessage
  <1> QED BY <1>1, <1>2, DTypes DEF DInv, MembersStep

LEMMA MsgHandMembers ==
  ASSUME DInv, "db" \notin Faults, MsgDirect \/ (\E v \in User : MsgRoom(v))
  PROVE  MembersStep /\ RowsKept
  <1>1. CASE Die
    BY <1>1, DieOther, QuietStep DEF DInv
  <1>2. CASE ~Die /\ MsgDirect
    <2>1. RowsKept
      BY <1>2 DEF MsgDirect, dbVars, chatVars, RowsKept
    <2>2. CASE task'.at = "return"
      <3>1. UNCHANGED seen
        BY <1>2, <2>2, DTypes DEF DInv, MsgDirect, Goto, Task, historyVars
      <3> QED BY <2>1, <3>1, QuietStep DEF NoneSeen
    <2>3. CASE task'.at # "return"
      <3>1. /\ task.at = "msg.direct" /\ task.fid \in User /\ online[task.fid]
            /\ \E h \in get_hdl_from_session(sessionid[task.fid]) : HandTo(h)
        BY <1>2, <2>3, MsgDirectSteps DEF DInv
      <3>2. InChat(task.fid, task.cid)
        BY <3>1 DEF DInv, HandedInv, Addressed
      <3> QED BY <2>1, <3>1, <3>2, HandMembers DEF MessageLabels
    <2> QED BY <2>2, <2>3
  <1>3. ASSUME NEW v \in User, MsgRoom(v), ~Die PROVE MembersStep /\ RowsKept
    <2>1. /\ task.at = "msg.room" /\ v \in task.todo /\ UNCHANGED messages
          /\ \E h \in get_hdl_from_session(sessionid[v]) : HandTo(h)
      BY <1>3 DEF MsgRoom, dbVars, chatVars
    <2>2. online[v] /\ InChat(v, task.cid)
      BY <2>1 DEF DInv, HandedInv, Addressed
    <2> QED BY <2>1, <2>2, HandMembers DEF MessageLabels, RowsKept
  <1> QED BY <1>1, <1>2, <1>3

\* The flag is set on the row of a message its peer was handed.
LEMMA MsgFlagTransmitted == ASSUME DInv, MsgFlag PROVE NoneSeen /\ TransmittedStep
  <1>1. /\ task.at = "msg.flag" /\ UNCHANGED seen
        /\ messages' = [messages EXCEPT ![task.mid].transmitted = TRUE]
    BY DEF MsgFlag, setMessageTransmitted, historyVars
  <1>2. /\ messages[task.mid].uid = task.uid /\ messages[task.mid].cid = task.cid
        /\ task.fid # task.uid /\ InChat(task.fid, task.cid) /\ task.fid \in User
        /\ \E c \in Conn : Bound(task.fid, c) /\ task.mid \in seen[c]
    BY <1>1 DEF DInv, HandedInv, OwnMessage, Addressed, MessageLabels
  <1>3. \A m \in DOMAIN messages : m # task.mid => messages'[m] = messages[m]
    BY <1>1
  <1> QED BY <1>1, <1>2, <1>3 DEF NoneSeen, TransmittedStep

LEMMA NextDelivers ==
  ASSUME "db" \notin Faults, DInv, [Next]_vars PROVE MembersStep /\ TransmittedStep
  <1> USE QuietStep DEF DInv
  <1>1. CASE UNCHANGED vars
    BY <1>1 DEF vars, historyVars, dbVars, chatVars, NoneSeen, RowsKept
  <1>2. ASSUME NEW c \in Conn, Request(c) \/ on_open(c) \/ PeerCloses(c) \/ on_close(c)
        PROVE  MembersStep /\ TransmittedStep
    BY <1>2, OtherRequests, LoginQuiet, NewMessageQuiet DEF Request
  <1>3. CASE SessionStep
    BY <1>3, OtherSteps, LoginQuiet, LoginChatsMembers DEF SessionStep
  <1>4. CASE MessageStep
    BY <1>4, OtherSteps, MsgEchoMembers, MsgHandMembers, MsgFlagTransmitted DEF MessageStep
  <1> QED BY <1>1, <1>2, <1>3, <1>4, OtherSteps DEF Next, HandlerStep

\* A message goes only to connections of its author and of the members of its
\* chat: each of the up to four steps that send it looks the connection up anew,
\* whatever chat id the client named and wherever sessions have moved.
THEOREM OnlyMembersHeld ==
  ASSUME ~AccountSwitch, "db" \notin Faults PROVE Spec => OnlyMembersSee
  <1>1. DInv /\ [Next]_vars => [MembersStep]_vars
    BY NextDelivers
  <1> QED BY <1>1, InitHanded, NextHanded, PTL DEF Spec, OnlyMembersSee, MembersStep

\* A message is marked transmitted only when a member other than its author has
\* been handed it on a connection that is still its own.
THEOREM TransmittedHeld ==
  ASSUME ~AccountSwitch, "db" \notin Faults PROVE Spec => TransmittedIsHanded
  <1>1. DInv /\ [Next]_vars => [TransmittedStep]_vars
    BY NextDelivers
  <1> QED BY <1>1, InitHanded, NextHanded, PTL DEF Spec, TransmittedIsHanded, TransmittedStep

-----------------------------------------------------------------------------
(* ConnectedSeesAll, under a schema with keys: every message a listed user  *)
(* may read is on its wire, or the handler in progress will put it there.   *)

\* Messages have an author and a chat the tables know; the chat createChat is
\* still filling has none.
KeyedRows ==
  /\ \A m \in DOMAIN messages :
       messages[m].uid \in registered /\ messages[m].cid \in DOMAIN chatlist
  /\ task.at \in {"accept.self", "accept.peer"} =>
       task.cid \in DOMAIN chatlist /\ \A m \in DOMAIN messages : messages[m].cid # task.cid

\* u was sent its chats on c and still holds its session.
Listening(c, u) == up /\ listed[c] = u /\ Bound(u, c)

\* c is being closed or logged out.
Leaving(c) == task.at \in {"close.session", "logout.session"} /\ task.hdl = c

\* m is on its way to u.
Pending(u, m) ==
  /\ m = task.mid
  /\ \/ task.at = "msg.echo"
     \/ task.at = "msg.direct" /\ u = task.fid
     \/ task.at = "msg.room" /\ u \in task.todo

ListedOnline ==
  \A c \in Conn, u \in User : Listening(c, u) => online[u] \/ Leaving(c)

ListedSees ==
  \A c \in Conn, u \in User : Listening(c, u) =>
    \A m \in getChatsByUid(u) : m \in seen[c] \/ Pending(u, m)

SeesInv == KeyedRows /\ ListedOnline /\ ListedSees

SInv == DInv /\ SeesInv

Delivering == {"msg.echo", "msg.direct", "msg.room"}

\* Who listens after the step did before, and has lost nothing.
Kept ==
  \A c \in Conn, u \in User :
    Listening(c, u)' => Listening(c, u) /\ seen[c] \subseteq seen'[c]

\* A step that has nothing to do with chats and messages.
Apart ==
  /\ UNCHANGED <<messages, chatlist>> /\ registered \subseteq registered'
  /\ task'.at \notin {"accept.self", "accept.peer"}

LEMMA ApartRows == KeyedRows /\ Apart => KeyedRows'
  BY DEF KeyedRows, Apart

LEMMA ApartSees ==
  ASSUME SInv, Apart, Kept, task.at \notin Delivering PROVE ListedSees'
  <1> SUFFICES ASSUME NEW c \in Conn, NEW u \in User, Listening(c, u)',
                      NEW m \in getChatsByUid(u)'
               PROVE  m \in seen'[c]
    BY DEF ListedSees
  <1>1. Listening(c, u) /\ seen[c] \subseteq seen'[c]
    BY DEF Kept
  <1>2. m \in getChatsByUid(u)
    BY DEF SInv, SeesInv, KeyedRows, Apart, getChatsByUid, InChat
  <1>3. ~Pending(u, m)
    BY DEF Pending, Delivering
  <1> QED BY <1>1, <1>2, <1>3 DEF SInv, SeesInv, ListedSees

\* Nobody listens at a connection that is going.
OnlineKept ==
  \A c \in Conn, u \in User :
    Listening(c, u)' => ~Leaving(c) /\ (online[u] => online'[u])

LEMMA KeptOnline == ListedOnline /\ Kept /\ OnlineKept => ListedOnline'
  BY DEF ListedOnline, Kept, OnlineKept

LEMMA DieSees == SInv /\ Die => SeesInv'
  <1> SUFFICES ASSUME SInv, Die PROVE SeesInv'
    OBVIOUS
  <1>1. ~up' /\ Apart
    BY DEF Die, Idle, Apart, dbVars, userVars, chatVars
  <1> QED BY <1>1, ApartRows DEF SInv, SeesInv, ListedOnline, ListedSees, Listening

\* The usual step: neither sessions nor lists nor wires change.
Steady ==
  /\ UNCHANGED <<up, cstate, m_connections, sessionid, online, listed, seen>>
  /\ task.at \notin {"close.session", "logout.session"}

LEMMA SteadyKept == Steady => Kept /\ OnlineKept
  <1> SUFFICES ASSUME Steady PROVE Kept /\ OnlineKept
    OBVIOUS
  <1>1. \A c \in Conn, u \in User : Listening(c, u)' => Listening(c, u)
    BY DEF Steady, Listening, Bound, Live, Session
  <1> QED BY <1>1 DEF Steady, Kept, OnlineKept, Leaving

Calm == Apart /\ Steady /\ task.at \notin Delivering

LEMMA CalmSees == SInv /\ (Calm \/ Die) => SeesInv'
  BY SteadyKept, KeptOnline, ApartRows, ApartSees, DieSees DEF Calm, SInv, SeesInv

LEMMA CalmRequests ==
  ASSUME TInv, NEW c \in Conn
  PROVE  /\ Refuse(c) \/ (\E u \in User : Register(c, u)) => Calm
         /\ \A e \in User : \/ AddFriend(c, e) \/ AcceptFriend(c, e)
                            \/ DeclineFriend(c, e) \/ RemoveFriend(c, e)
                            => Calm \/ Die
  <1> USE NextLabels DEF Calm, Apart, Steady, Delivering, Receives, procVars, historyVars,
          dbVars, userVars, chatVars
  <1>1. Refuse(c) => Calm
    BY DEF Refuse
  <1>2. ASSUME NEW u \in User, Register(c, u) PROVE Calm
    BY <1>2 DEF Register, registerClient
  <1>3. ASSUME NEW e \in User, AddFriend(c, e), ~Die PROVE Calm
    <2>1. task.at = "idle" /\ task'.at \in {"add.push", "return"}
      BY <1>3 DEF AddFriend, Idle
    <2>2. UNCHANGED <<procVars, historyVars, userVars, chatlist, messages>>
      BY <1>3 DEF AddFriend, insertFriendRequest
    <2> QED BY <2>1, <2>2
  <1>4. ASSUME NEW e \in User, AcceptFriend(c, e) PROVE Calm
    BY <1>4 DEF AcceptFriend, acceptFriendRequest, Idle
  <1>5. ASSUME NEW e \in User, DeclineFriend(c, e) \/ RemoveFriend(c, e) PROVE Calm
    BY <1>5 DEF DeclineFriend, RemoveFriend, Idle
  <1> QED BY <1>1, <1>2, <1>3, <1>4, <1>5

LEMMA CalmSteps ==
  ASSUME PInv
  PROVE  /\ Return \/ LoginLists \/ LogoutEmail \/ LogoutDone => Calm \/ Die
         /\ \A f \in User : LoginNotify(f) \/ LogoutNotify(f) => Calm \/ Die
         /\ AddFriendPush \/ AcceptPush \/ removeRequest \/ removeFriend => Calm \/ Die
  <1> USE NextLabels, DTypes DEF Calm, Apart, Steady, Delivering, procVars, historyVars,
          dbVars, userVars, chatVars
  <1>1. Return => Calm
    BY DEF Return, Idle
  <1>2. ASSUME LoginLists PROVE Calm
    BY <1>2 DEF LoginLists, Task
  <1>3. ASSUME LogoutEmail, ~Die PROVE Calm
    BY <1>3 DEF LogoutEmail, Task
  <1>4. LogoutDone => Calm
    BY DEF LogoutDone
  <1>5. ASSUME NEW f \in User, LoginNotify(f) \/ LogoutNotify(f), ~Die PROVE Calm
    BY <1>5 DEF LoginNotify, LogoutNotify, Task
  <1>6. ASSUME AddFriendPush \/ AcceptPush \/ removeRequest \/ removeFriend, ~Die PROVE Calm
    BY <1>6 DEF AddFriendPush, AcceptPush, removeRequest, removeFriend
  <1> QED BY <1>1, <1>2, <1>3, <1>4, <1>5, <1>6

-----------------------------------------------------------------------------
(* Connections and sessions come and go.                                    *)

LEMMA StartSees == ASSUME SInv, Start PROVE SeesInv'
  <1>1. /\ UNCHANGED <<cstate, task, messages, chatlist, registered>> /\ task.at = "idle"
        /\ \A c \in Conn : ~Live(c)
    BY DEF Start, resetPresence, userVars, chatVars, SInv, DInv, PInv, AuthInv, DownIsEmpty
  <1>2. Apart /\ \A c \in Conn, u \in User : ~Listening(c, u)'
    BY <1>1 DEF Apart, Listening, Bound, Live
  <1> QED BY <1>2, ApartRows DEF SInv, SeesInv, ListedOnline, ListedSees

\* The new connection has an id no row holds; a closing one keeps its own.
LEMMA ConnectionSees ==
  ASSUME SInv, NEW c \in Conn, on_open(c) \/ PeerCloses(c) PROVE SeesInv' /\ Kept
  <1>1. /\ UNCHANGED <<up, online, sessionid, listed, seen, messages, chatlist, registered, task>>
        /\ up /\ task.at = "idle"
    BY DEF on_open, PeerCloses, Receives, historyVars, dbVars, userVars, chatVars
  <1>2. \A d \in Conn, u \in User : Bound(u, d)' => Bound(u, d)
    <2>1. CASE on_open(c)
      <3>1. /\ cstate' = [cstate EXCEPT ![c] = "open"]
            /\ m_connections' = [m_connections EXCEPT ![c] = m_next_sessionid]
        BY <2>1 DEF on_open
      <3>2. \A u \in User : ~Bound(u, c)'
        BY <1>1, <3>1, PTypes DEF SInv, DInv, PInv, AuthInv, FreshIds, Bound, Live, Session
      <3>3. \A d \in Conn \ {c}, u \in User : Bound(u, d)' => Bound(u, d)
        BY <1>1, <3>1 DEF Bound, Live, Session
      <3> QED BY <3>2, <3>3
    <2>2. CASE PeerCloses(c)
      <3>1. cstate' = [cstate EXCEPT ![c] = "closing"] /\ UNCHANGED m_connections /\ Live(c)
        BY <2>2 DEF PeerCloses, Receives, Live
      <3> QED BY <1>1, <3>1 DEF Bound, Live, Session
    <2> QED BY <2>1, <2>2
  <1>3. Kept /\ OnlineKept /\ Apart
    BY <1>1, <1>2 DEF Kept, OnlineKept, Apart, Listening, Leaving
  <1> QED BY <1>1, <1>3, KeptOnline, ApartRows, ApartSees DEF SInv, SeesInv, Delivering

\* The user taken offline is the one listening on the connection that leaves.
LEMMA LeaveSees ==
  ASSUME SInv, NEW c \in Conn, Live(c), task.at = "idle",
         UNCHANGED <<up, cstate, m_connections, sessionid, registered, listed, seen,
                     messages, chatlist>>,
         online' = [v \in User |-> IF v = Caller(c) THEN FALSE ELSE online[v]],
         task'.at \in {"close.session", "logout.session"}, task'.hdl = c
  PROVE  SeesInv'
  <1>1. \A d \in Conn, u \in User : Listening(d, u)' <=> Listening(d, u)
    BY DEF Listening, Bound, Live, Session
  <1>2. Kept /\ Apart
    BY <1>1 DEF Kept, Apart
  <1>3. ASSUME NEW d \in Conn, NEW u \in User, Listening(d, u) PROVE online'[u] \/ d = c
    <2>1. CASE u = Caller(c)
      BY <1>3, <2>1, CallerBound, AtOnePlace DEF SInv, DInv, Listening
    <2>2. CASE u # Caller(c)
      BY <1>3, <2>2 DEF SInv, SeesInv, ListedOnline, Leaving
    <2> QED BY <2>1, <2>2
  <1>4. ListedOnline'
    BY <1>1, <1>3 DEF ListedOnline, Leaving
  <1> QED BY <1>2, <1>4, ApartRows, ApartSees DEF SInv, SeesInv, Delivering

LEMMA LeavesSee ==
  ASSUME SInv, NEW c \in Conn, on_close(c) \/ Logout(c) PROVE SeesInv'
  <1>1. CASE Die
    BY <1>1, DieSees
  <1>2. CASE ~Die
    BY <1>2, LeaveSees DEF on_close, Logout, Receives, Live, setOnline, Idle, procVars,
       historyVars, chatVars
  <1> QED BY <1>1, <1>2

\* Once erased, nobody listens there; others are not touched.
LEMMA CloseSessionSees == ASSUME SInv, CloseSession PROVE SeesInv' /\ Kept
  <1>1. PICK c \in Conn : c = task.hdl /\ task.at = "close.session"
    BY DTypes DEF SInv, DInv, CloseSession
  <1>2. /\ UNCHANGED <<up, online, messages, chatlist, registered>> /\ task' = Idle
        /\ sessionid' = [v \in User |-> IF v = Caller(c) THEN NoSession ELSE sessionid[v]]
        /\ cstate' = [cstate EXCEPT ![c] = "absent"]
        /\ m_connections' = [m_connections EXCEPT ![c] = 0]
        /\ listed' = [listed EXCEPT ![c] = NoUser] /\ seen' = [seen EXCEPT ![c] = {}]
    BY <1>1 DEF CloseSession, setSessionID, chatVars
  <1>3. \A u \in User : ~Listening(c, u)'
    BY <1>2, DTypes, DatabaseAssumption DEF SInv, DInv, Listening
  <1>4. ASSUME NEW d \in Conn \ {c}, NEW u \in User, Listening(d, u)'
        PROVE  Listening(d, u)
    <2>1. u # Caller(c)
      BY <1>2, <1>4, PTypes DEF SInv, DInv, PInv, Listening, Bound, Session, NoSession
    <2> QED BY <1>2, <1>4, <2>1 DEF Listening, Bound, Live, Session
  <1>5. Kept
    BY <1>2, <1>3, <1>4 DEF Kept
  <1>6. OnlineKept
    BY <1>1, <1>2, <1>3 DEF OnlineKept, Leaving
  <1>7. Apart
    BY <1>2 DEF Apart, Idle
  <1> QED BY <1>1, <1>5, <1>6, <1>7, KeptOnline, ApartRows, ApartSees DEF SInv, SeesInv, Delivering


LEMMA LoginSees ==
  ASSUME SInv, NEW c \in Conn, NEW u \in User, Login(c, u) PROVE SeesInv'
  <1>1. /\ UNCHANGED <<up, cstate, m_connections, registered, sessionid, listed, seen, messages,
                       chatlist>>
        /\ online' = [v \in User |-> IF v = u THEN TRUE ELSE online[v]]
        /\ task.at = "idle" /\ task'.at = "login.session"
    BY DEF Login, Receives, setOnline, Idle, procVars, chatVars
  <1>2. \A d \in Conn, v \in User : Listening(d, v)' <=> Listening(d, v)
    BY <1>1 DEF Listening, Bound, Live, Session
  <1>3. Kept /\ OnlineKept /\ Apart
    BY <1>1, <1>2 DEF Kept, OnlineKept, Apart, Leaving
  <1> QED BY <1>1, <1>3, KeptOnline, ApartRows, ApartSees DEF SInv, SeesInv, Delivering

\* A user who moves stops listening where it was, and has no list yet where it is.
LEMMA LoginSessionSees == ASSUME SInv, LoginSession PROVE SeesInv' /\ Kept
  <1>1. PICK c \in Conn, u \in User : c = task.hdl /\ u = task.uid /\ Live(c)
    BY PTypes DEF SInv, DInv, LoginSession, PInv, AuthInv, TInv, HasHandle, TaskConnected,
       LoginAuthentic
  <1>2. /\ UNCHANGED <<up, cstate, m_connections, registered, online, seen, messages, chatlist>>
        /\ sessionid' = [v \in User |-> IF v = u THEN Session(c) ELSE sessionid[v]]
        /\ listed' = [listed EXCEPT ![c] = NoUser] /\ task.at = "login.session"
    BY <1>1 DEF LoginSession, setSessionID, procVars, chatVars
  <1>3. task'.at = "login.lists"
    BY DTypes DEF SInv, DInv, LoginSession, Goto, Task
  <1>4. \A v \in User : ~Listening(c, v)'
    BY <1>2, DTypes, DatabaseAssumption DEF SInv, DInv, Listening
  <1>5. ASSUME NEW d \in Conn \ {c}, NEW v \in User, Listening(d, v)' PROVE Listening(d, v)
    <2>1. v # u
      BY <1>1, <1>2, <1>5 DEF SInv, DInv, PInv, AuthInv, SessionsDistinct, Listening, Bound,
         Live, Session
    <2> QED BY <1>2, <1>5, <2>1 DEF Listening, Bound, Live, Session
  <1>6. Kept /\ OnlineKept /\ Apart
    BY <1>2, <1>3, <1>4, <1>5 DEF Kept, OnlineKept, Apart, Leaving
  <1> QED BY <1>2, <1>6, KeptOnline, ApartRows, ApartSees DEF SInv, SeesInv, Delivering

LEMMA LogoutSessionSees == ASSUME SInv, LogoutSession PROVE SeesInv' /\ Kept
  <1>1. PICK c \in Conn : c = task.hdl /\ task.at = "logout.session"
    BY DTypes DEF SInv, DInv, LogoutSession
  <1>2. /\ UNCHANGED <<up, cstate, m_connections, registered, online, seen, messages, chatlist>>
        /\ sessionid' = [v \in User |-> IF v = task.uid THEN NoSession ELSE sessionid[v]]
        /\ listed' = [listed EXCEPT ![c] = NoUser]
    BY <1>1 DEF LogoutSession, setSessionID, procVars, chatVars
  <1>3. task'.at = "logout.email"
    BY DTypes DEF SInv, DInv, LogoutSession, Task
  <1>4. \A v \in User : ~Listening(c, v)'
    BY <1>2, DTypes, DatabaseAssumption DEF SInv, DInv, Listening
  <1>5. ASSUME NEW d \in Conn \ {c}, NEW v \in User, Listening(d, v)' PROVE Listening(d, v)
    <2>1. v # task.uid
      BY <1>2, <1>5, PTypes DEF SInv, DInv, PInv, Listening, Bound, Session, NoSession
    <2> QED BY <1>2, <1>5, <2>1 DEF Listening, Bound, Live, Session
  <1>6. Kept /\ OnlineKept /\ Apart
    BY <1>1, <1>2, <1>3, <1>4, <1>5 DEF Kept, OnlineKept, Apart, Leaving
  <1> QED BY <1>1, <1>6, KeptOnline, ApartRows, ApartSees DEF SInv, SeesInv, Delivering

\* The list is complete when it is sent.
LEMMA LoginChatsSees == ASSUME SInv, LoginChats PROVE SeesInv'
  <1>1. PICK c \in Conn, u \in User :
          c = task.hdl /\ u = task.uid /\ Bound(u, c) /\ online[u]
    BY DTypes DEF SInv, DInv, LoginChats, HandedInv, CallerStays, LoginLabels
  <1>2. /\ UNCHANGED <<up, cstate, m_connections, registered, online, sessionid, messages,
                       chatlist>>
        /\ seen' = [seen EXCEPT ![c] = @ \cup getChatsByUid(u)]
        /\ listed' = [listed EXCEPT ![c] = u] /\ task.at = "login.notify"
    BY <1>1, CallerFound DEF SInv, DInv, LoginChats, procVars, dbVars, userVars, chatVars
  <1>3. task'.at = "return"
    BY NextLabels, DTypes DEF SInv, DInv, LoginChats
  <1>4. ASSUME NEW d \in Conn, NEW v \in User, Listening(d, v)'
        PROVE  (d = c /\ v = u) \/ (Listening(d, v) /\ seen[d] \subseteq seen'[d])
    <2>1. CASE d = c
      <3>1. listed'[d] = u
        BY <1>2, <2>1, DTypes DEF SInv, DInv
      <3> QED BY <1>4, <2>1, <3>1 DEF Listening
    <2>2. CASE d # c
      BY <1>2, <1>4, <2>2, DTypes DEF SInv, DInv, Listening, Bound, Live, Session
    <2> QED BY <2>1, <2>2
  <1>5. ListedOnline'
    <2>1. ASSUME NEW d \in Conn, NEW v \in User, Listening(d, v)' PROVE online[v]
      BY <1>1, <1>2, <1>4, <2>1 DEF SInv, SeesInv, ListedOnline, Leaving
    <2> QED BY <1>2, <2>1 DEF ListedOnline
  <1>6. ListedSees'
    <2> SUFFICES ASSUME NEW d \in Conn, NEW v \in User, Listening(d, v)',
                        NEW m \in getChatsByUid(v)'
                 PROVE  m \in seen'[d]
      BY DEF ListedSees
    <2>1. m \in getChatsByUid(v)
      BY <1>2 DEF getChatsByUid, InChat
    <2>2. CASE d = c /\ v = u
      BY <1>2, <2>1, <2>2, DTypes DEF SInv, DInv
    <2>3. CASE Listening(d, v) /\ seen[d] \subseteq seen'[d]
      BY <1>2, <2>1, <2>3 DEF SInv, SeesInv, ListedSees, Pending
    <2> QED BY <1>4, <2>2, <2>3
  <1>7. KeyedRows'
    BY <1>2, <1>3, ApartRows DEF Apart, SInv, SeesInv
  <1> QED BY <1>5, <1>6, <1>7 DEF SeesInv

-----------------------------------------------------------------------------
(* createChat adds members to a chat before there is a message in it.       *)

LEMMA FillSees ==
  ASSUME SInv, Steady, task.at \notin Delivering, UNCHANGED <<messages, registered>>,
         \A m \in DOMAIN messages : /\ messages[m].cid \in DOMAIN chatlist'
                                   /\ chatlist'[messages[m].cid] = chatlist[messages[m].cid]
  PROVE  ListedOnline' /\ ListedSees'
  <1>1. Kept /\ OnlineKept
    BY SteadyKept
  <1>2. ASSUME NEW c \in Conn, NEW u \in User, Listening(c, u)', NEW m \in getChatsByUid(u)'
        PROVE  m \in seen'[c]
    <2>1. m \in getChatsByUid(u)
      BY <1>2 DEF getChatsByUid, InChat, SInv, SeesInv, KeyedRows
    <2>2. ~Pending(u, m)
      BY DEF Pending, Delivering
    <2> QED BY <1>1, <1>2, <2>1, <2>2 DEF Kept, SInv, SeesInv, ListedSees
  <1> QED BY <1>1, <1>2, KeptOnline DEF SInv, SeesInv, ListedSees

LEMMA AcceptChatSees == ASSUME SInv, AcceptChat PROVE SeesInv'
  <1>1. /\ task.at = "accept.chat" /\ chatlist' = Append(chatlist, <<>>) /\ Steady
        /\ UNCHANGED <<messages, registered>>
    BY DEF AcceptChat, insertChat, Steady, procVars, historyVars, userVars
  <1>2. task'.at = "accept.self" /\ task'.cid = Len(chatlist) + 1
    BY DTypes DEF SInv, DInv, AcceptChat, Task
  <1>3. /\ DOMAIN chatlist' = 1..(Len(chatlist) + 1)
        /\ \A i \in DOMAIN chatlist : chatlist'[i] = chatlist[i]
    BY <1>1, DTypes, AppendProperties, LenProperties DEF SInv, DInv
  <1>4. DOMAIN chatlist = 1..Len(chatlist) /\ Len(chatlist) \in Nat
    BY DTypes, LenProperties DEF SInv, DInv
  <1>5. ListedOnline' /\ ListedSees'
    BY <1>1, <1>3, <1>4, FillSees DEF Delivering, SInv, SeesInv, KeyedRows
  <1>6. KeyedRows'
    BY <1>1, <1>2, <1>3, <1>4 DEF SInv, SeesInv, KeyedRows
  <1> QED BY <1>5, <1>6 DEF SeesInv

LEMMA AcceptRowSees == ASSUME SInv, AcceptSelf \/ AcceptPeer PROVE SeesInv'
  <1>1. CASE Die
    BY <1>1, DieSees
  <1>2. CASE ~Die
    <2>1. /\ task.at \in {"accept.self", "accept.peer"} /\ Steady
          /\ UNCHANGED <<messages, registered>>
          /\ \E u : chatlist' = [chatlist EXCEPT ![task.cid] = Append(@, u)]
      BY <1>2 DEF AcceptSelf, AcceptPeer, insertChatlist, Steady, procVars, historyVars,
         userVars
    <2>2. task'.at \in {"accept.peer", "accept.push"} /\ task'.cid = task.cid
      BY <1>2, DTypes DEF SInv, DInv, AcceptSelf, AcceptPeer, Goto, Task
    <2>3. /\ DOMAIN chatlist' = DOMAIN chatlist
          /\ \A i \in DOMAIN chatlist : i # task.cid => chatlist'[i] = chatlist[i]
      BY <2>1
    <2>4. /\ task.cid \in DOMAIN chatlist
          /\ \A m \in DOMAIN messages :
               /\ messages[m].uid \in registered
               /\ messages[m].cid \in DOMAIN chatlist /\ messages[m].cid # task.cid
      BY <2>1 DEF SInv, SeesInv, KeyedRows
    <2>5. ListedOnline' /\ ListedSees'
      BY <2>1, <2>3, <2>4, FillSees DEF Delivering
    <2>6. KeyedRows'
      BY <2>1, <2>2, <2>3, <2>4 DEF KeyedRows
    <2> QED BY <2>5, <2>6 DEF SeesInv
  <1> QED BY <1>1, <1>2

-----------------------------------------------------------------------------
(* The steps of a message.                                                  *)

\* From now on it is pending for every member.
LEMMA NewMessageSees ==
  ASSUME SchemaKeys, SInv, NEW c \in Conn, NEW cid \in 1..MaxChats, NewMessage(c, cid)
  PROVE  SeesInv'
  <1>1. CASE Die
    BY <1>1, DieSees
  <1>2. CASE ~Die
    <2> DEFINE row == [uid |-> Caller(c), cid |-> cid, transmitted |-> FALSE]
    <2>1. /\ messages' = Append(messages, row) /\ UNCHANGED <<chatlist, registered>>
          /\ task.at = "idle" /\ Steady /\ Caller(c) # NoUser /\ cid \in DOMAIN chatlist
          /\ task'.at = "msg.echo" /\ task'.mid = Len(messages) + 1
      BY <1>2 DEF NewMessage, newMessage, refusesMessage, Idle, Steady, procVars, historyVars,
         userVars, Receives
    <2>2. row \in MessageRow /\ messages \in Seq(MessageRow)
      BY CallerType, DTypes DEF Caller, MessageRow, SInv, DInv
    <2>3. /\ row.uid \in registered /\ row.cid \in DOMAIN chatlist
      BY <2>1, CallerRegistered, DTypes DEF SInv, DInv, TInv, TypeOK
    <2>4. /\ DOMAIN messages = 1..Len(messages) /\ Len(messages) \in Nat
          /\ DOMAIN messages' = 1..(Len(messages) + 1)
          /\ \A m \in DOMAIN messages : messages'[m] = messages[m]
          /\ messages'[Len(messages) + 1] = row
      <3> HIDE DEF row
      <3> QED BY <2>1, <2>2, AppendProperties, LenProperties
    <2> HIDE DEF row
    <2>5. \A m \in DOMAIN messages' : m \in DOMAIN messages \/ m = Len(messages) + 1
      BY <2>4
    <2>6. KeyedRows'
      BY <2>1, <2>3, <2>4, <2>5 DEF SInv, SeesInv, KeyedRows
    <2>7. Kept /\ ListedOnline'
      BY <2>1, SteadyKept, KeptOnline DEF SInv, SeesInv
    <2>8. ASSUME NEW d \in Conn, NEW u \in User, Listening(d, u)', NEW m \in getChatsByUid(u)',
                 m # Len(messages) + 1
          PROVE  m \in seen'[d]
      <3>1. m \in getChatsByUid(u)
        BY <2>1, <2>4, <2>5, <2>8 DEF getChatsByUid, InChat
      <3>2. ~Pending(u, m)
        BY <2>1 DEF Pending
      <3> QED BY <2>7, <2>8, <3>1, <3>2 DEF Kept, SInv, SeesInv, ListedSees
    <2>9. ListedSees'
      BY <2>1, <2>8 DEF ListedSees, Pending
    <2> QED BY <2>6, <2>7, <2>9 DEF SeesInv
  <1> QED BY <1>1, <1>2

\* The steps after it: who listens still does, and so the tables say.
MessageGoesOn ==
  /\ UNCHANGED <<up, cstate, m_connections, sessionid, online, registered, listed, messages,
                 chatlist>>
  /\ task.at \in Delivering
  /\ task'.at \in Delivering \cup {"msg.flag", "return"}

LEMMA GoesOn ==
  ASSUME SInv, MessageGoesOn, \A c \in Conn : seen[c] \subseteq seen'[c]
  PROVE  /\ Kept /\ ListedOnline' /\ KeyedRows'
         /\ \A c \in Conn, u \in User : Listening(c, u)' => online[u] /\ u \in registered
         /\ \A u \in User : getChatsByUid(u)' = getChatsByUid(u)
  <1>1. \A c \in Conn, u \in User : Listening(c, u)' <=> Listening(c, u)
    BY DEF MessageGoesOn, Listening, Bound, Live, Session
  <1>2. Kept
    BY <1>1 DEF Kept
  <1>3. \A c \in Conn : ~Leaving(c)
    BY DEF MessageGoesOn, Leaving, Delivering
  <1>4. ListedOnline'
    BY <1>1, <1>3 DEF MessageGoesOn, SInv, SeesInv, ListedOnline
  <1>5. KeyedRows'
    BY ApartRows DEF MessageGoesOn, Apart, Delivering, SInv, SeesInv
  <1>6. ASSUME NEW c \in Conn, NEW u \in User, Listening(c, u)'
        PROVE  online[u] /\ u \in registered
    <2>1. Listening(c, u)
      BY <1>1, <1>6
    <2>2. u \in authed[c]
      BY <2>1 DEF Listening, SInv, DInv, PInv, AuthInv, SessionAuthentic
    <2> QED BY <1>3, <2>1, <2>2 DEF SInv, SeesInv, ListedOnline, DInv, PInv, PresenceInv, OneAccount
  <1>7. \A u \in User : getChatsByUid(u)' = getChatsByUid(u)
    BY DEF MessageGoesOn, getChatsByUid, InChat
  <1> QED BY <1>2, <1>4, <1>5, <1>6, <1>7

\* What MsgEcho has left to do depends on the other members of the chat.
LEMMA EchoSteps ==
  ASSUME SInv, MsgEcho, ~Die
  PROVE  /\ MessageGoesOn /\ task.at = "msg.echo"
         /\ seen' = [seen EXCEPT ![task.hdl] = @ \cup {task.mid}]
         /\ task.uid \in User /\ Bound(task.uid, task.hdl)
         /\ \/ /\ task'.at = "msg.direct" /\ task'.mid = task.mid
               /\ \E i \in PeerRows : PeerRows = {i} /\ task'.fid = chatlist[task.cid][i]
            \/ /\ task'.at = "msg.room" /\ task'.mid = task.mid
               /\ task'.todo = getAllOnlineUsersOfChatroom(task.cid)
            \/ task'.at = "return" /\ PeerRows = {}
  <1>1. \/ /\ task'.at = "msg.direct" /\ task'.mid = task.mid
           /\ \E i \in PeerRows : PeerRows = {i} /\ task'.fid = chatlist[task.cid][i]
        \/ /\ task'.at = "msg.room" /\ task'.mid = task.mid
           /\ task'.todo = getAllOnlineUsersOfChatroom(task.cid)
        \/ task'.at = "return" /\ PeerRows = {}
    BY NextLabels, DTypes DEF SInv, DInv, MsgEcho, Task
  <1>2. /\ task.at = "msg.echo" /\ seen' = [seen EXCEPT ![task.hdl] = @ \cup {task.mid}]
        /\ task.uid # NoUser /\ UNCHANGED <<procVars, authed, listed, dbVars>>
    BY DEF MsgEcho
  <1>3. task.uid \in User /\ Bound(task.uid, task.hdl)
    BY <1>2, DTypes DEF SInv, DInv, HandedInv, CallerStays, Task, AnyUser
  <1>4. MessageGoesOn
    BY <1>1, <1>2 DEF MessageGoesOn, Delivering, procVars, dbVars, userVars, chatVars
  <1> QED BY <1>1, <1>2, <1>3, <1>4

LEMMA MsgEchoSees == ASSUME SInv, MsgEcho PROVE SeesInv'
  <1>1. SUFFICES ASSUME ~Die PROVE SeesInv'
    BY DieSees
  <1>2. /\ MessageGoesOn /\ task.at = "msg.echo"
        /\ seen' = [seen EXCEPT ![task.hdl] = @ \cup {task.mid}]
        /\ task.uid \in User /\ Bound(task.uid, task.hdl) /\ task.hdl \in Conn
    BY <1>1, EchoSteps, DTypes DEF SInv, DInv
  <1>3. \A c \in Conn : seen[c] \subseteq seen'[c]
    BY <1>2, DTypes DEF SInv, DInv
  <1>4. task.mid \in seen'[task.hdl] /\ messages[task.mid].cid = task.cid
    BY <1>2, DTypes DEF SInv, DInv, HandedInv, OwnMessage, MessageLabels
  <1>5. ASSUME NEW c \in Conn, NEW u \in User, Listening(c, u)', InChat(u, task.cid),
               NEW m, m = task.mid, m \notin seen'[c]
        PROVE  Pending(u, m)'
    <2>1. Bound(u, c)
      BY <1>2, <1>3, <1>5, GoesOn DEF Kept, Listening
    <2>2. u # task.uid
      BY <1>2, <1>4, <1>5, <2>1, AtOnePlace DEF SInv, DInv
    <2>3. PICK i \in PeerRows : chatlist[task.cid][i] = u
      BY <1>5, <2>2 DEF InChat, PeerRows, getPeersOfChat
    <2>4. u \in getAllOnlineUsersOfChatroom(task.cid)
      BY <1>2, <1>3, <1>5, GoesOn DEF getAllOnlineUsersOfChatroom
    <2>5. \/ task'.at = "msg.direct" /\ task'.mid = task.mid /\ task'.fid = u
          \/ task'.at = "msg.room" /\ task'.mid = task.mid /\ u \in task'.todo
      BY <1>1, <2>3, <2>4, EchoSteps
    <2> QED BY <1>5, <2>5 DEF Pending
  <1>6. ASSUME NEW c \in Conn, NEW u \in User, Listening(c, u)', NEW m \in getChatsByUid(u)'
        PROVE  m \in seen'[c] \/ Pending(u, m)'
    <2>1. Listening(c, u) /\ m \in getChatsByUid(u)
      BY <1>2, <1>3, <1>6, GoesOn DEF Kept
    <2>2. m \in seen[c] \/ m = task.mid
      BY <2>1 DEF SInv, SeesInv, ListedSees, Pending
    <2>3. m = task.mid => InChat(u, task.cid)
      BY <1>4, <2>1 DEF getChatsByUid
    <2> QED BY <1>3, <1>5, <1>6, <2>2, <2>3
  <1>7. ListedSees'
    BY <1>6 DEF ListedSees
  <1> QED BY <1>2, <1>3, <1>7, GoesOn DEF SeesInv

\* Handed on the connection of the user it is for, it is no longer pending there.
LEMMA HandSees ==
  ASSUME SInv, "db" \notin Faults, MessageGoesOn, NEW v \in User, online[v],
         NEW h \in get_hdl_from_session(sessionid[v]), HandTo(h),
         \A u \in User : \A m : Pending(u, m) => Pending(u, m)' \/ (u = v /\ m = task.mid)
  PROVE  SeesInv'
  <1>1. /\ h \in Conn /\ Bound(v, h)
        /\ seen' = [seen EXCEPT ![h] = @ \cup {task.mid}] /\ task.mid \in seen'[h]
    BY HandedOver DEF SInv, DInv, MessageGoesOn, Delivering, MessageLabels
  <1>2. \A c \in Conn : seen[c] \subseteq seen'[c]
    BY <1>1, DTypes DEF SInv, DInv
  <1>3. ASSUME NEW c \in Conn, NEW u \in User, Listening(c, u)', NEW m \in getChatsByUid(u)'
        PROVE  m \in seen'[c] \/ Pending(u, m)'
    <2>1. Listening(c, u) /\ m \in getChatsByUid(u)
      BY <1>2, <1>3, GoesOn DEF Kept
    <2>2. m \in seen[c] \/ Pending(u, m)
      BY <2>1 DEF SInv, SeesInv, ListedSees
    <2>3. u = v => c = h
      BY <1>1, <2>1, AtOnePlace DEF SInv, DInv, Listening
    <2> QED BY <1>1, <1>2, <2>2, <2>3
  <1>4. ListedSees'
    BY <1>3 DEF ListedSees
  <1> QED BY <1>2, <1>4, GoesOn DEF SeesInv

\* Nobody who listens waits for it any longer.
LEMMA DoneSees ==
  ASSUME SInv, MessageGoesOn, UNCHANGED seen,
         \A u \in User : \A m : Pending(u, m) => ~online[u]
  PROVE  SeesInv'
  <1>1. ASSUME NEW c \in Conn, NEW u \in User, Listening(c, u)', NEW m \in getChatsByUid(u)'
        PROVE  m \in seen'[c]
    <2>1. Listening(c, u) /\ m \in getChatsByUid(u) /\ online[u]
      BY <1>1, GoesOn DEF Kept
    <2> QED BY <2>1 DEF SInv, SeesInv, ListedSees
  <1>2. ListedSees'
    BY <1>1 DEF ListedSees
  <1> QED BY <1>2, GoesOn DEF SeesInv

LEMMA MsgDirectSees == ASSUME SInv, "db" \notin Faults, MsgDirect PROVE SeesInv'
  <1>1. CASE Die
    BY <1>1, DieSees
  <1>2. CASE ~Die /\ task'.at # "return"
    <2>1. /\ task.at = "msg.direct" /\ task'.at = "msg.flag"
          /\ UNCHANGED <<procVars, authed, listed, dbVars>>
          /\ task.fid \in User /\ online[task.fid]
      BY <1>2, MsgDirectSteps DEF SInv, DInv
    <2>2. PICK h \in get_hdl_from_session(sessionid[task.fid]) : HandTo(h)
      BY <1>2, MsgDirectSteps DEF SInv, DInv
    <2>3. MessageGoesOn
      BY <2>1 DEF MessageGoesOn, Delivering, procVars, dbVars, userVars, chatVars
    <2>4. \A u \in User : \A m : Pending(u, m) => u = task.fid /\ m = task.mid
      BY <2>1 DEF Pending
    <2> QED BY <2>1, <2>2, <2>3, <2>4, HandSees
  <1>3. CASE ~Die /\ task'.at = "return"
    <2>1. /\ task.at = "msg.direct" /\ ~online[task.fid]
          /\ UNCHANGED <<procVars, historyVars, dbVars>>
      BY <1>3, DTypes DEF SInv, DInv, MsgDirect, Goto, Task
    <2>2. MessageGoesOn /\ UNCHANGED seen
      BY <1>3, <2>1 DEF MessageGoesOn, Delivering, procVars, historyVars, dbVars, userVars, chatVars
    <2>3. \A u \in User : \A m : Pending(u, m) => ~online[u]
      BY <2>1 DEF Pending
    <2> QED BY <2>2, <2>3, DoneSees
  <1> QED BY <1>1, <1>2, <1>3

LEMMA MsgRoomSees ==
  ASSUME SInv, "db" \notin Faults, NEW v \in User, MsgRoom(v) PROVE SeesInv'
  <1>1. SUFFICES ASSUME ~Die PROVE SeesInv'
    BY DieSees
  <1>2. /\ task.at = "msg.room" /\ v \in task.todo
        /\ UNCHANGED <<procVars, authed, listed, dbVars>>
    BY <1>1 DEF MsgRoom
  <1>3. task'.at = "msg.room" /\ task'.mid = task.mid /\ task'.todo = task.todo \ {v}
    BY <1>1, DTypes DEF SInv, DInv, MsgRoom, Task
  <1>4. PICK h \in get_hdl_from_session(sessionid[v]) : HandTo(h)
    BY <1>1 DEF MsgRoom
  <1>5. MessageGoesOn
    BY <1>2, <1>3 DEF MessageGoesOn, Delivering, procVars, dbVars, userVars, chatVars
  <1>6. online[v]
    BY <1>2 DEF SInv, DInv, HandedInv, Addressed
  <1>7. \A u \in User : \A m : Pending(u, m) => Pending(u, m)' \/ (u = v /\ m = task.mid)
    BY <1>2, <1>3 DEF Pending
  <1> QED BY <1>4, <1>5, <1>6, <1>7, HandSees

LEMMA MsgRoomDoneSees == ASSUME SInv, MsgRoomDone PROVE SeesInv'
  <1>1. /\ task.at = "msg.room" /\ task.todo = {} /\ task'.at = "return"
        /\ UNCHANGED <<procVars, historyVars, dbVars>>
    BY NextLabels, DTypes DEF SInv, DInv, MsgRoomDone
  <1>2. MessageGoesOn /\ UNCHANGED seen
    BY <1>1 DEF MessageGoesOn, Delivering, procVars, historyVars, dbVars, userVars, chatVars
  <1>3. \A u \in User : \A m : ~Pending(u, m)
    BY <1>1 DEF Pending
  <1> QED BY <1>2, <1>3, DoneSees

\* The flag changes neither author nor chat.
LEMMA MsgFlagSees == ASSUME SInv, MsgFlag PROVE SeesInv'
  <1>1. /\ task.at = "msg.flag" /\ UNCHANGED <<chatlist, registered>> /\ Steady
        /\ messages' = [messages EXCEPT ![task.mid].transmitted = TRUE]
    BY DEF MsgFlag, setMessageTransmitted, Steady, procVars, historyVars, userVars
  <1>2. task'.at = "return"
    BY NextLabels, DTypes DEF SInv, DInv, MsgFlag
  <1>3. /\ DOMAIN messages' = DOMAIN messages
        /\ \A m \in DOMAIN messages : /\ messages'[m].uid = messages[m].uid
                                     /\ messages'[m].cid = messages[m].cid
    <2>1. \A m \in DOMAIN messages : messages[m] \in MessageRow
      BY DTypes DEF SInv, DInv
    <2> QED BY <1>1, <2>1 DEF MessageRow
  <1>4. Kept /\ ListedOnline'
    BY <1>1, SteadyKept, KeptOnline DEF SInv, SeesInv
  <1>5. KeyedRows'
    BY <1>1, <1>2, <1>3 DEF SInv, SeesInv, KeyedRows
  <1>6. ASSUME NEW c \in Conn, NEW u \in User, Listening(c, u)', NEW m \in getChatsByUid(u)'
        PROVE  m \in seen'[c]
    <2>1. Listening(c, u) /\ m \in getChatsByUid(u)
      BY <1>1, <1>3, <1>4, <1>6 DEF Kept, getChatsByUid, InChat
    <2> QED BY <1>1, <1>4, <1>6, <2>1 DEF Kept, SInv, SeesInv, ListedSees, Pending
  <1>7. ListedSees'
    BY <1>6 DEF ListedSees
  <1> QED BY <1>4, <1>5, <1>7 DEF SeesInv

-----------------------------------------------------------------------------
LEMMA NextSees ==
  ASSUME ~AccountSwitch, "db" \notin Faults, SchemaKeys PROVE SInv /\ [Next]_vars => SInv'
  <1> SUFFICES ASSUME SInv, [Next]_vars PROVE SeesInv'
    BY NextHanded DEF SInv
  <1>0. PInv /\ TInv
    BY DTypes DEF SInv, DInv
  <1>1. CASE UNCHANGED vars
    BY <1>1 DEF vars, procVars, historyVars, dbVars, userVars, chatVars, SInv, SeesInv, KeyedRows,
       ListedOnline, ListedSees, Listening, Leaving, Pending, getChatsByUid, InChat, Bound, Live,
       Session
  <1>2. ASSUME NEW c \in Conn, Request(c) PROVE SeesInv'
    BY <1>0, <1>2, CalmRequests, CalmSees, LoginSees, LeavesSee, NewMessageSees DEF Request
  <1>3. ASSUME NEW c \in Conn, on_open(c) \/ PeerCloses(c) \/ on_close(c) PROVE SeesInv'
    BY <1>3, ConnectionSees, LeavesSee
  <1>4. CASE SessionStep
    BY <1>0, <1>4, CalmSteps, CalmSees, CloseSessionSees, LoginSessionSees, LoginChatsSees,
       LogoutSessionSees DEF SessionStep
  <1>5. CASE FriendStep
    BY <1>0, <1>5, CalmSteps, CalmSees, AcceptChatSees, AcceptRowSees DEF FriendStep
  <1>6. CASE MessageStep
    BY <1>6, MsgEchoSees, MsgDirectSees, MsgFlagSees, MsgRoomSees, MsgRoomDoneSees
    DEF MessageStep
  <1>7. CASE Kill \/ DbFault
    BY <1>7, DieSees DEF Kill, DbFault
  <1> QED BY <1>1, <1>2, <1>3, <1>4, <1>5, <1>6, <1>7, StartSees DEF Next, HandlerStep

LEMMA InitSees == Init => SInv
  <1> SUFFICES ASSUME Init PROVE SeesInv
    BY InitHanded DEF SInv
  <1> QED BY DEF Init, SessionsInit, DatabaseInit, Idle, SeesInv, KeyedRows, ListedOnline,
             ListedSees, Listening

\* Nobody begins to listen but at the end of a login.
Stays == \A c \in Conn, u \in User : Listening(c, u)' => Listening(c, u)

LEMMA NextStays == SInv /\ [Next]_vars => Stays \/ LoginChats
  <1> SUFFICES ASSUME SInv, [Next]_vars, ~LoginChats PROVE Stays
    OBVIOUS
  <1>1. ~up' => Stays
    BY DEF Stays, Listening
  <1>2. UNCHANGED <<up, cstate, m_connections, sessionid, listed>> => Stays
    BY DEF Stays, Listening, Bound, Live, Session
  <1>3. Die => Stays
    BY <1>1 DEF Die
  <1>4. Kept => Stays
    BY DEF Kept, Stays
  <1> USE <1>2, <1>3 DEF procVars, historyVars, dbVars, userVars, chatVars
  <1>5. CASE UNCHANGED vars
    BY <1>5 DEF vars
  <1>6. CASE Start
    BY <1>6 DEF Start, resetPresence, Stays, Listening, SInv, DInv, PInv, AuthInv, DownIsEmpty,
       Bound, Live
  <1>7. CASE Kill \/ DbFault
    BY <1>7 DEF Kill, DbFault
  <1>8. ASSUME NEW c \in Conn, on_open(c) \/ PeerCloses(c) PROVE Stays
    BY <1>4, <1>8, ConnectionSees
  <1>9. ASSUME NEW c \in Conn, on_close(c) PROVE Stays
    BY <1>9 DEF on_close, setOnline
  <1>10. ASSUME NEW c \in Conn, Request(c) PROVE Stays
    <2>1. Refuse(c) \/ Logout(c) => Stays
      BY DEF Refuse, Logout, setOnline
    <2>2. \A u \in User : Register(c, u) \/ Login(c, u) => Stays
      BY DEF Register, registerClient, Login, setOnline
    <2>3. \A e \in User : AddFriend(c, e) => Stays
      BY DEF AddFriend, insertFriendRequest
    <2>4. \A e \in User : AcceptFriend(c, e) \/ DeclineFriend(c, e) \/ RemoveFriend(c, e) => Stays
      BY DEF AcceptFriend, acceptFriendRequest, DeclineFriend, RemoveFriend
    <2>5. \A cid \in 1..MaxChats : NewMessage(c, cid) => Stays
      BY DEF NewMessage, newMessage
    <2> QED BY <1>10, <2>1, <2>2, <2>3, <2>4, <2>5 DEF Request
  <1>11. CASE SessionStep
    <2>1. CloseSession \/ LoginSession \/ LogoutSession => Stays
      BY <1>4, CloseSessionSees, LoginSessionSees, LogoutSessionSees
    <2>2. Return \/ LoginLists \/ LogoutEmail \/ LogoutDone => Stays
      BY DEF Return, LoginLists, LogoutEmail, LogoutDone
    <2>3. \A f \in User : LoginNotify(f) \/ LogoutNotify(f) => Stays
      BY DEF LoginNotify, LogoutNotify
    <2> QED BY <1>11, <2>1, <2>2, <2>3 DEF SessionStep
  <1>12. CASE FriendStep
    BY <1>12 DEF FriendStep, AddFriendPush, AcceptChat, AcceptSelf, AcceptPeer, AcceptPush,
       removeRequest, removeFriend, insertChat, insertChatlist
  <1>13. CASE MessageStep
    BY <1>13 DEF MessageStep, MsgEcho, MsgDirect, MsgFlag, MsgRoomDone, MsgRoom,
       setMessageTransmitted
  <1> QED BY <1>5, <1>6, <1>7, <1>8, <1>9, <1>10, <1>11, <1>12, <1>13 DEF Next, HandlerStep

\* A client that was sent its chat list and still holds its session has every
\* message of its chats on its wire whenever no handler runs: neither the list
\* and the deliveries after it nor a chat created later leave a gap.
THEOREM ListedSeesAllHeld ==
  ASSUME ~AccountSwitch, "db" \notin Faults, SchemaKeys PROVE Spec => []ConnectedSeesAll
  <1>1. SInv => ConnectedSeesAll
    BY DEF SInv, SeesInv, ListedSees, Listening, Pending, ConnectedSeesAll
  <1> QED BY <1>1, InitSees, NextSees, PTL DEF Spec
=============================================================================
