----------------------------- MODULE UserProofs -----------------------------
(***************************************************************************)
(* Whose session is whose, who is where, and who is whose friend.          *)
(*                                                                         *)
(* First the types of Server, SessionsDistinct and SessionAuthentic, for   *)
(* any number of users and connections, any schema, all faults, and        *)
(* several accounts per connection.                                        *)
(*                                                                         *)
(* Whoever is marked online can be reached: PresenceSound, for any number  *)
(* of users and connections and all faults, when no connection logs in a   *)
(* second account (with two users of one session, getUserIDFromSession     *)
(* finds neither, and the close handler leaves both online).  Under the    *)
(* same assumption sessions, flags and connections implement Presence:     *)
(* each step of the server is a step of Presence or none.                  *)
(*                                                                         *)
(* FriendsPairUnique is inductive with the types of the rows:              *)
(* friendRequest looks for the pair in both directions before it inserts,  *)
(* in one handler that no other interrupts, and acceptFriendRequest        *)
(* changes no names.  AcceptedHaveChat, which four handler steps bring     *)
(* about and any death of the process between them would break, is proved  *)
(* for a process that is not killed within a handler and statements that   *)
(* do not fail.                                                            *)
(***************************************************************************)
EXTENDS Server, SequenceTheorems, TLAPS

(* Queries return what their callers expect.                                *)

\* getUserIDFromSession returns a user or the -1 of the callers' tests.
LEMMA CallerType == \A s : getUserIDFromSession(s) \in AnyUser
  BY DEF getUserIDFromSession, AnyUser

\* The ids of friends and of a room's online members are ids of users.
LEMMA FriendsType ==
  ASSUME DatabaseTypeOK
  PROVE  /\ \A u : getFrindIds(u) \subseteq User
         /\ \A cid : getAllOnlineUsersOfChatroom(cid) \subseteq User
  BY DEF DatabaseTypeOK, getFrindIds, getAllOnlineUsersOfChatroom

\* The messages a login lists are ids of rows.
LEMMA ChatsType ==
  ASSUME DatabaseTypeOK
  PROVE  \A u : getChatsByUid(u) \subseteq Nat
  BY DEF DatabaseTypeOK, getChatsByUid

(* Every SQL statement keeps the tables well typed.                         *)

LEMMA PresenceStatements ==
  ASSUME DatabaseTypeOK
  PROVE  /\ resetPresence => DatabaseTypeOK'
         /\ \A u \in User : registerClient(u) => DatabaseTypeOK'
         /\ \A u : \A b \in BOOLEAN : setOnline(u, b) => DatabaseTypeOK'
         /\ \A u : \A s \in Int : setSessionID(u, s) => DatabaseTypeOK'
  <1> USE DEF DatabaseTypeOK, userVars, chatVars, dbVars
  <1>1. resetPresence => DatabaseTypeOK'
    BY DEF resetPresence, NoSession
  <1>2. \A u \in User : registerClient(u) => DatabaseTypeOK'
    BY DEF registerClient
  <1>3. \A u : \A b \in BOOLEAN : setOnline(u, b) => DatabaseTypeOK'
    BY DEF setOnline
  <1>4. \A u : \A s \in Int : setSessionID(u, s) => DatabaseTypeOK'
    BY DEF setSessionID
  <1> QED BY <1>1, <1>2, <1>3, <1>4

LEMMA FriendStatements ==
  ASSUME DatabaseTypeOK, NEW u \in AnyUser, NEW f \in AnyUser
  PROVE  /\ insertFriendRequest(u, f) => DatabaseTypeOK'
         /\ acceptFriendRequest(u, f) => DatabaseTypeOK'
  <1> USE DEF DatabaseTypeOK, userVars, chatVars, dbVars
  <1>1. [uid |-> u, fid |-> f, accepted |-> FALSE] \in FriendRow
    BY DEF FriendRow
  <1>2. insertFriendRequest(u, f) => DatabaseTypeOK'
    BY <1>1 DEF insertFriendRequest
  <1>3. \A r \in FriendRow : [r EXCEPT !.accepted = TRUE] \in FriendRow
    BY DEF FriendRow
  <1>4. acceptFriendRequest(u, f) => DatabaseTypeOK'
    BY <1>3 DEF acceptFriendRequest
  <1> QED BY <1>2, <1>4

\* Updating an element of a sequence, or none at all, keeps its type.
LEMMA UpdateType ==
  ASSUME NEW S, NEW s \in Seq(S), NEW i, NEW e, i \in DOMAIN s => e \in S
  PROVE  [s EXCEPT ![i] = e] \in Seq(S)
  <1>1. CASE i \in DOMAIN s
    <2>1. i \in 1..Len(s)
      BY <1>1
    <2> QED BY <1>1, <2>1, ExceptSeq
  <1>2. CASE i \notin DOMAIN s
    <2>1. [s EXCEPT ![i] = e] = s
      BY <1>2
    <2> QED BY <2>1
  <1> QED BY <1>1, <1>2

LEMMA ChatStatements ==
  ASSUME DatabaseTypeOK, NEW u \in AnyUser, NEW i \in Nat
  PROVE  /\ insertChat => DatabaseTypeOK'
         /\ insertChatlist(u, i) => DatabaseTypeOK'
         /\ newMessage(u, i) => DatabaseTypeOK'
         /\ setMessageTransmitted(i) => DatabaseTypeOK'
  <1> USE DEF userVars, chatVars, dbVars
  <1>1. insertChat => DatabaseTypeOK'
    <2>1. Append(chatlist, <<>>) \in Seq(Seq(AnyUser))
      BY DEF DatabaseTypeOK
    <2> QED BY <2>1 DEF insertChat, DatabaseTypeOK
  <1>2. insertChatlist(u, i) => DatabaseTypeOK'
    <2>1. ASSUME i \in DOMAIN chatlist
          PROVE  Append(chatlist[i], u) \in Seq(AnyUser)
      <3>1. chatlist[i] \in Seq(AnyUser)
        BY <2>1, ElementOfSeq DEF DatabaseTypeOK
      <3> QED BY <3>1, AppendProperties
    <2>2. [chatlist EXCEPT ![i] = Append(chatlist[i], u)] \in Seq(Seq(AnyUser))
      <3>1. chatlist \in Seq(Seq(AnyUser))
        BY DEF DatabaseTypeOK
      <3> QED BY <2>1, <3>1, UpdateType
    <2> QED BY <2>2 DEF insertChatlist, DatabaseTypeOK
  <1>3. newMessage(u, i) => DatabaseTypeOK'
    <2>1. [uid |-> u, cid |-> i, transmitted |-> FALSE] \in MessageRow
      BY DEF MessageRow
    <2> QED BY <2>1 DEF newMessage, DatabaseTypeOK
  <1>4. setMessageTransmitted(i) => DatabaseTypeOK'
    <2>1. ASSUME i \in DOMAIN messages
          PROVE  [messages[i] EXCEPT !.transmitted = TRUE] \in MessageRow
      <3>1. messages[i] \in MessageRow
        BY <2>1, ElementOfSeq DEF DatabaseTypeOK
      <3> QED BY <3>1 DEF MessageRow
    <2>2. [messages EXCEPT ![i] = [messages[i] EXCEPT !.transmitted = TRUE]]
            \in Seq(MessageRow)
      <3>1. messages \in Seq(MessageRow)
        BY DEF DatabaseTypeOK
      <3> QED BY <2>1, <3>1, UpdateType
    <2> QED BY <2>2 DEF setMessageTransmitted, DatabaseTypeOK
  <1> QED BY <1>1, <1>2, <1>3, <1>4

-----------------------------------------------------------------------------
(* Type correctness.                                                        *)

\* A handler in progress was called for a connection: every label reads
\* m_connections[task.hdl] or sends to it, so types alone are not inductive.
HasHandle == task.at # "idle" => task.hdl \in Conn

TInv == TypeOK /\ HasHandle

\* What task becomes is well typed.
LEMMA TaskTypes ==
  ASSUME TInv
  PROVE  /\ Idle \in Task
         /\ \A c \in Conn : Reply(c) => task' \in Task /\ HasHandle'
         /\ task.at # "idle" /\ Finish => task' \in Task /\ HasHandle'
         /\ \A l \in Labels : task.at # "idle" /\ Goto(l) => task' \in Task /\ HasHandle'
  <1> USE DEF TInv, TypeOK, SessionsTypeOK, HasHandle, Task
  <1>1. Idle \in Task
    BY DEF Idle, AnyUser, Labels
  <1>2. \A c \in Conn : Reply(c) => task' \in Task /\ HasHandle'
    BY <1>1 DEF Reply, Idle, Labels
  <1>3. task.at # "idle" /\ Finish => task' \in Task /\ HasHandle'
    BY <1>1 DEF Finish, Idle, Labels
  <1>4. \A l \in Labels : task.at # "idle" /\ Goto(l) => task' \in Task /\ HasHandle'
    BY DEF Goto
  <1> QED BY <1>1, <1>2, <1>3, <1>4

\* Nothing but rows survives the process.
LEMMA DieTypes == TInv /\ Die => TInv'
  <1> SUFFICES ASSUME TInv, Die PROVE TInv'
    OBVIOUS
  <1>1. DatabaseTypeOK'
    BY DEF Die, TInv, TypeOK, DatabaseTypeOK, dbVars, userVars, chatVars
  <1>2. task' = Idle /\ Idle \in Task
    BY TaskTypes DEF Die
  <1>3. SessionsTypeOK'
    BY <1>2 DEF Die, SessionsTypeOK, AnyUser
  <1>4. HasHandle'
    BY <1>2 DEF HasHandle, Idle
  <1> QED BY <1>1, <1>3, <1>4 DEF TInv, TypeOK

\* A step that only moves the handler on.
LEMMA QuietTypes ==
  ASSUME TInv, UNCHANGED <<procVars, historyVars, dbVars>>, task' \in Task, HasHandle'
  PROVE  TInv'
  BY DEF TInv, TypeOK, SessionsTypeOK, DatabaseTypeOK, procVars, historyVars,
         dbVars, userVars, chatVars

\* A step that writes rows and moves the handler on.
LEMMA WriteTypes ==
  ASSUME TInv, UNCHANGED <<procVars, historyVars>>, DatabaseTypeOK',
         task' \in Task, HasHandle'
  PROVE  TInv'
  BY DEF TInv, TypeOK, SessionsTypeOK, procVars, historyVars

\* Connections and the process.
LEMMA ConnectionTypes ==
  ASSUME TInv
  PROVE  /\ Start => TInv'
         /\ Kill => TInv'
         /\ DbFault => TInv'
         /\ Return => TInv'
         /\ \A c \in Conn : on_open(c) \/ PeerCloses(c) \/ on_close(c) => TInv'
         /\ CloseSession => TInv'
  <1>1. ASSUME Start PROVE TInv'
    <2>1. DatabaseTypeOK'
      BY <1>1, PresenceStatements DEF Start, TInv, TypeOK
    <2> QED BY <1>1, <2>1 DEF Start, TInv, TypeOK, SessionsTypeOK, HasHandle, historyVars
  <1>2. ASSUME Kill PROVE TInv'
    BY <1>2, DieTypes DEF Kill
  <1>3. ASSUME DbFault PROVE TInv'
    <2>1. CASE Die
      BY <2>1, DieTypes
    <2>2. CASE task.at # "idle" /\ Reply(task.hdl) /\ UNCHANGED <<procVars, dbVars, historyVars>>
      BY <2>2, TaskTypes, QuietTypes DEF TInv, HasHandle
    <2> QED BY <1>3, <2>1, <2>2 DEF DbFault
  <1>4. ASSUME Return PROVE TInv'
    BY <1>4, TaskTypes, QuietTypes DEF Return, HasHandle, Idle
  <1>5. ASSUME NEW c \in Conn, on_open(c) PROVE TInv'
    <2>1. DatabaseTypeOK'
      BY <1>5 DEF on_open, TInv, TypeOK, DatabaseTypeOK, dbVars, userVars, chatVars
    <2>2. SessionsTypeOK'
      BY <1>5 DEF on_open, TInv, TypeOK, SessionsTypeOK, historyVars
    <2> QED BY <1>5, <2>1, <2>2 DEF on_open, TInv, TypeOK, HasHandle
  <1>6. ASSUME NEW c \in Conn, PeerCloses(c) PROVE TInv'
    <2>1. DatabaseTypeOK'
      BY <1>6 DEF PeerCloses, TInv, TypeOK, DatabaseTypeOK, dbVars, userVars, chatVars
    <2>2. SessionsTypeOK'
      BY <1>6 DEF PeerCloses, TInv, TypeOK, SessionsTypeOK, historyVars
    <2> QED BY <1>6, <2>1, <2>2 DEF PeerCloses, TInv, TypeOK, HasHandle
  <1>7. ASSUME NEW c \in Conn, on_close(c) PROVE TInv'
    <2>1. CASE Die
      BY <2>1, DieTypes
    <2>2. CASE ~Die
      <3>1. DatabaseTypeOK'
        BY <1>7, <2>2, PresenceStatements DEF on_close, TInv, TypeOK
      <3>2. task' \in Task /\ HasHandle'
        BY <1>7, <2>2, TaskTypes DEF on_close, Task, HasHandle, Idle, Labels
      <3> QED BY <1>7, <2>2, <3>1, <3>2, WriteTypes DEF on_close
    <2> QED BY <2>1, <2>2
  <1>8. ASSUME CloseSession PROVE TInv'
    <2>1. DatabaseTypeOK'
      BY <1>8, PresenceStatements DEF CloseSession, NoSession, TInv, TypeOK
    <2>2. SessionsTypeOK'
      BY <1>8, TaskTypes DEF CloseSession, TInv, TypeOK, SessionsTypeOK, AnyUser
    <2>3. HasHandle'
      BY <1>8 DEF CloseSession, HasHandle, Idle
    <2> QED BY <2>1, <2>2, <2>3 DEF TInv, TypeOK
  <1> QED BY <1>1, <1>2, <1>3, <1>4, <1>5, <1>6, <1>7, <1>8

\* Registration, login and logout.
LEMMA LoginTypes ==
  ASSUME TInv
  PROVE  /\ \A c \in Conn : Refuse(c) => TInv'
         /\ \A c \in Conn, u \in User : Register(c, u) \/ Login(c, u) => TInv'
         /\ LoginSession \/ LoginLists \/ LoginChats => TInv'
         /\ \A f \in User : LoginNotify(f) => TInv'
  <1>1. ASSUME NEW c \in Conn, Refuse(c) PROVE TInv'
    BY <1>1, TaskTypes, QuietTypes DEF Refuse
  <1>2. ASSUME NEW c \in Conn, NEW u \in User, Register(c, u) PROVE TInv'
    <2>1. DatabaseTypeOK'
      BY <1>2, PresenceStatements DEF Register, TInv, TypeOK
    <2> QED BY <1>2, <2>1, TaskTypes, WriteTypes DEF Register
  <1>3. ASSUME NEW c \in Conn, NEW u \in User, Login(c, u) PROVE TInv'
    <2>1. DatabaseTypeOK'
      BY <1>3, PresenceStatements DEF Login, TInv, TypeOK
    <2>2. task' \in Task /\ HasHandle'
      BY <1>3, TaskTypes DEF Login, Task, HasHandle, Idle, Labels, AnyUser
    <2>3. SessionsTypeOK'
      BY <1>3, <2>2 DEF Login, TInv, TypeOK, SessionsTypeOK, procVars
    <2> QED BY <2>1, <2>2, <2>3 DEF TInv, TypeOK
  <1>4. ASSUME LoginSession PROVE TInv'
    <2>1. task.hdl \in Conn /\ Session(task.hdl) \in Int
      BY <1>4 DEF LoginSession, TInv, HasHandle, TypeOK, SessionsTypeOK, Session
    <2>2. DatabaseTypeOK'
      BY <1>4, <2>1, PresenceStatements DEF LoginSession, TInv, TypeOK
    <2>3. task' \in Task /\ HasHandle'
      BY <1>4, TaskTypes DEF LoginSession, Labels
    <2>4. SessionsTypeOK'
      BY <1>4, <2>3 DEF LoginSession, TInv, TypeOK, SessionsTypeOK, procVars, AnyUser
    <2> QED BY <2>2, <2>3, <2>4 DEF TInv, TypeOK
  <1>5. ASSUME LoginLists PROVE TInv'
    <2>1. getFrindIds(Caller(task.hdl)) \in SUBSET User
      BY FriendsType DEF TInv, TypeOK
    <2>2. task' \in Task /\ HasHandle'
      BY <1>5, <2>1, TaskTypes
      DEF LoginLists, TInv, TypeOK, SessionsTypeOK, HasHandle, Task, Labels
    <2> QED BY <1>5, <2>2, QuietTypes DEF LoginLists
  <1>6. ASSUME LoginChats PROVE TInv'
    <2>1. task.hdl \in Conn
      BY <1>6 DEF LoginChats, TInv, HasHandle
    <2>2. /\ getChatsByUid(Caller(task.hdl)) \subseteq Nat
          /\ Caller(task.hdl) \in AnyUser
      BY ChatsType, CallerType DEF TInv, TypeOK, Caller
    <2>3. task' \in Task /\ HasHandle'
      BY <1>6, <2>1, TaskTypes DEF LoginChats
    <2>4. DatabaseTypeOK'
      BY <1>6 DEF LoginChats, TInv, TypeOK, DatabaseTypeOK, dbVars, userVars, chatVars
    <2>5. SessionsTypeOK'
      BY <1>6, <2>1, <2>2, <2>3 DEF LoginChats, TInv, TypeOK, SessionsTypeOK, procVars
    <2> QED BY <2>3, <2>4, <2>5 DEF TInv, TypeOK
  <1>7. ASSUME NEW f \in User, LoginNotify(f) PROVE TInv'
    <2>1. CASE Die
      BY <2>1, DieTypes
    <2>2. CASE ~Die
      <3>1. task.hdl \in Conn
        BY <1>7 DEF LoginNotify, TInv, HasHandle
      <3>2. CASE Reply(task.hdl)
        BY <1>7, <2>2, <3>1, <3>2, TaskTypes, QuietTypes DEF LoginNotify
      <3>3. CASE task' = [task EXCEPT !.todo = @ \ {f}]
        <4>1. task' \in Task /\ HasHandle'
          BY <3>1, <3>3 DEF TInv, TypeOK, SessionsTypeOK, HasHandle, Task
        <4> QED BY <1>7, <2>2, <4>1, QuietTypes DEF LoginNotify
      <3> QED BY <1>7, <2>2, <3>2, <3>3 DEF LoginNotify
    <2> QED BY <2>1, <2>2
  <1> QED BY <1>1, <1>2, <1>3, <1>4, <1>5, <1>6, <1>7

LEMMA LogoutTypes ==
  ASSUME TInv
  PROVE  /\ \A c \in Conn : Logout(c) => TInv'
         /\ LogoutSession \/ LogoutEmail \/ LogoutDone => TInv'
         /\ \A f \in User : LogoutNotify(f) => TInv'
  <1>1. ASSUME NEW c \in Conn, Logout(c) PROVE TInv'
    <2>1. DatabaseTypeOK'
      BY <1>1, PresenceStatements DEF Logout, TInv, TypeOK
    <2>2. task' \in Task /\ HasHandle'
      BY <1>1, TaskTypes, CallerType DEF Logout, Caller, Task, HasHandle, Idle, Labels
    <2> QED BY <1>1, <2>1, <2>2, WriteTypes DEF Logout
  <1>2. ASSUME LogoutSession PROVE TInv'
    <2>1. DatabaseTypeOK'
      BY <1>2, PresenceStatements DEF LogoutSession, NoSession, TInv, TypeOK
    <2>2. task' \in Task /\ HasHandle'
      BY <1>2 DEF LogoutSession, TInv, TypeOK, SessionsTypeOK, HasHandle, Task, Labels
    <2>3. SessionsTypeOK'
      BY <1>2, <2>2 DEF LogoutSession, TInv, TypeOK, SessionsTypeOK, procVars, AnyUser
    <2> QED BY <2>1, <2>2, <2>3 DEF TInv, TypeOK
  <1>3. ASSUME LogoutEmail PROVE TInv'
    <2>1. CASE Die
      BY <2>1, DieTypes
    <2>2. CASE ~Die
      <3>1. getFrindIds(task.uid) \in SUBSET User
        BY FriendsType DEF TInv, TypeOK
      <3>2. "logout.notify" \in Labels
        BY DEF Labels
      <3>3. /\ task.at # "idle"
            /\ task' = [task EXCEPT !.at = "logout.notify", !.todo = getFrindIds(task.uid)]
        BY <1>3, <2>2 DEF LogoutEmail
      <3>4. task' \in Task /\ HasHandle'
        BY <3>1, <3>2, <3>3 DEF TInv, TypeOK, SessionsTypeOK, HasHandle, Task
      <3> QED BY <1>3, <2>2, <3>4, QuietTypes DEF LogoutEmail
    <2> QED BY <2>1, <2>2
  <1>4. ASSUME LogoutDone PROVE TInv'
    BY <1>4, TaskTypes, QuietTypes DEF LogoutDone
  <1>5. ASSUME NEW f \in User, LogoutNotify(f) PROVE TInv'
    <2>1. CASE Die
      BY <2>1, DieTypes
    <2>2. CASE ~Die
      <3>1. task' \in Task /\ HasHandle'
        BY <1>5, <2>2 DEF LogoutNotify, TInv, TypeOK, SessionsTypeOK, HasHandle, Task
      <3> QED BY <1>5, <2>2, <3>1, QuietTypes DEF LogoutNotify
    <2> QED BY <2>1, <2>2
  <1> QED BY <1>1, <1>2, <1>3, <1>4, <1>5

\* Friendships.
LEMMA FriendTypes ==
  ASSUME TInv
  PROVE  /\ \A c \in Conn, e \in User : \/ AddFriend(c, e) \/ AcceptFriend(c, e)
                                       \/ DeclineFriend(c, e) \/ RemoveFriend(c, e)
                                       => TInv'
         /\ FriendStep => TInv'
  <1>0. /\ \A c : Caller(c) \in AnyUser
        /\ \A e \in User : getUserID(e) \in AnyUser
        /\ \A e \in User : e \in AnyUser
        /\ task.uid \in AnyUser /\ task.fid \in AnyUser /\ task.cid \in Nat
    <2>1. \A c : Caller(c) \in AnyUser
      BY CallerType DEF Caller
    <2>2. \A e \in User : e \in AnyUser /\ getUserID(e) \in AnyUser
      BY DEF getUserID, AnyUser
    <2>3. task.uid \in AnyUser /\ task.fid \in AnyUser /\ task.cid \in Nat
      BY DEF TInv, TypeOK, SessionsTypeOK, Task
    <2> QED BY <2>1, <2>2, <2>3
  <1>1. ASSUME NEW c \in Conn, NEW e \in User, AddFriend(c, e) PROVE TInv'
    <2>1. CASE Die
      BY <2>1, DieTypes
    <2>2. CASE Reply(c) /\ UNCHANGED <<procVars, historyVars, dbVars>>
      BY <2>2, TaskTypes, QuietTypes
    <2>3. CASE /\ insertFriendRequest(Caller(c), e)
               /\ task' = [Idle EXCEPT !.at = "add.push", !.hdl = c,
                                       !.uid = Caller(c), !.fid = e]
               /\ UNCHANGED <<procVars, historyVars>>
      <3>1. DatabaseTypeOK'
        BY <1>0, <2>3, FriendStatements DEF TInv, TypeOK
      <3>2. task' \in Task /\ HasHandle'
        BY <1>0, <2>3, TaskTypes DEF Task, HasHandle, Idle, Labels
      <3> QED BY <2>3, <3>1, <3>2, WriteTypes
    <2> QED BY <1>1, <2>1, <2>2, <2>3 DEF AddFriend
  <1>2. ASSUME NEW c \in Conn, NEW e \in User, AcceptFriend(c, e) PROVE TInv'
    <2>1. DatabaseTypeOK'
      BY <1>0, <1>2, FriendStatements DEF AcceptFriend, TInv, TypeOK
    <2>2. task' \in Task /\ HasHandle'
      BY <1>0, <1>2, TaskTypes DEF AcceptFriend, Task, HasHandle, Idle, Labels
    <2> QED BY <1>2, <2>1, <2>2, WriteTypes DEF AcceptFriend
  <1>3. ASSUME NEW c \in Conn, NEW e \in User, DeclineFriend(c, e) \/ RemoveFriend(c, e)
        PROVE  TInv'
    <2>1. "decline.delete" \in Labels /\ "remove.delete" \in Labels
      BY DEF Labels
    <2>2. CASE DeclineFriend(c, e)
      <3>1. task' = [Idle EXCEPT !.at = "decline.delete", !.hdl = c,
                                 !.uid = Caller(c), !.fid = getUserID(e)]
        BY <2>2 DEF DeclineFriend
      <3>2. task' \in Task /\ HasHandle'
        BY <1>0, <2>1, <3>1 DEF Task, Idle, HasHandle
      <3> QED BY <2>2, <3>2, QuietTypes DEF DeclineFriend
    <2>3. CASE RemoveFriend(c, e)
      <3>1. task' = [Idle EXCEPT !.at = "remove.delete", !.hdl = c,
                                 !.uid = Caller(c), !.fid = getUserID(e)]
        BY <2>3 DEF RemoveFriend
      <3>2. task' \in Task /\ HasHandle'
        BY <1>0, <2>1, <3>1 DEF Task, Idle, HasHandle
      <3> QED BY <2>3, <3>2, QuietTypes DEF RemoveFriend
    <2> QED BY <1>3, <2>2, <2>3
  <1>4. ASSUME AddFriendPush \/ AcceptPush PROVE TInv'
    <2>1. CASE Die
      BY <2>1, DieTypes
    <2>2. CASE ~Die
      <3>1. task' \in Task /\ HasHandle'
        BY <1>4, <2>2, TaskTypes DEF AddFriendPush, AcceptPush, TInv, HasHandle
      <3> QED BY <1>4, <2>2, <3>1, QuietTypes DEF AddFriendPush, AcceptPush
    <2> QED BY <2>1, <2>2
  <1>5. ASSUME AcceptChat PROVE TInv'
    <2>1. DatabaseTypeOK'
      BY <1>0, <1>5, ChatStatements DEF AcceptChat, TInv, TypeOK
    <2>2. Len(chatlist) + 1 \in Nat
      BY DEF TInv, TypeOK, DatabaseTypeOK
    <2>3. task' \in Task /\ HasHandle'
      BY <1>5, <2>2 DEF AcceptChat, TInv, TypeOK, SessionsTypeOK, HasHandle, Task, Labels
    <2> QED BY <1>5, <2>1, <2>3, WriteTypes DEF AcceptChat
  <1>6. ASSUME AcceptSelf \/ AcceptPeer PROVE TInv'
    <2>1. CASE Die
      BY <2>1, DieTypes
    <2>2. CASE ~Die
      <3>1. DatabaseTypeOK'
        BY <1>0, <1>6, <2>2, ChatStatements DEF AcceptSelf, AcceptPeer, TInv, TypeOK
      <3>2. task' \in Task /\ HasHandle'
        BY <1>6, <2>2, TaskTypes DEF AcceptSelf, AcceptPeer, Labels
      <3> QED BY <1>6, <2>2, <3>1, <3>2, WriteTypes DEF AcceptSelf, AcceptPeer
    <2> QED BY <2>1, <2>2
  <1>7. ASSUME removeRequest \/ removeFriend PROVE TInv'
    BY <1>7, DieTypes DEF removeRequest, removeFriend
  <1> QED BY <1>1, <1>2, <1>3, <1>4, <1>5, <1>6, <1>7 DEF FriendStep

\* Messages.
LEMMA MessageTypes ==
  ASSUME TInv
  PROVE  /\ \A c \in Conn, cid \in Nat : NewMessage(c, cid) => TInv'
         /\ MessageStep => TInv'
  <1>0. task.uid \in AnyUser /\ task.mid \in Nat
    BY DEF TInv, TypeOK, SessionsTypeOK, Task
  <1>1. ASSUME NEW c \in Conn, NEW cid \in Nat, NewMessage(c, cid) PROVE TInv'
    <2>1. CASE Die
      BY <2>1, DieTypes
    <2>2. CASE ~Die
      <3>1. Caller(c) \in AnyUser
        BY CallerType DEF Caller
      <3>2. DatabaseTypeOK'
        BY <1>1, <2>2, <3>1, ChatStatements DEF NewMessage, TInv, TypeOK
      <3>3. Len(messages) + 1 \in Nat
        BY DEF TInv, TypeOK, DatabaseTypeOK
      <3>4. task' \in Task /\ HasHandle'
        BY <1>1, <2>2, <3>1, <3>3, TaskTypes
        DEF NewMessage, Task, HasHandle, Idle, Labels
      <3> QED BY <1>1, <2>2, <3>2, <3>4, WriteTypes DEF NewMessage
    <2> QED BY <2>1, <2>2
  <1>2. ASSUME UNCHANGED <<procVars, authed, listed, dbVars>>,
               task' \in Task, HasHandle', seen' \in [Conn -> SUBSET Nat]
        PROVE  TInv'
    BY <1>2 DEF TInv, TypeOK, SessionsTypeOK, DatabaseTypeOK, procVars, dbVars,
                userVars, chatVars
  <1>3. \A h \in Conn : HandTo(h) => seen' \in [Conn -> SUBSET Nat]
    BY <1>0 DEF HandTo, TInv, TypeOK, SessionsTypeOK
  <1>4. ASSUME MsgEcho PROVE TInv'
    <2>1. CASE Die
      BY <2>1, DieTypes
    <2>2. CASE ~Die
      <3>1. seen' \in [Conn -> SUBSET Nat]
        <4>1. seen' = [seen EXCEPT ![task.hdl] = @ \cup {task.mid}]
          BY <1>4, <2>2 DEF MsgEcho
        <4> QED BY <1>0, <4>1 DEF TInv, TypeOK, SessionsTypeOK
      <3>2. task.hdl \in Conn
        BY <1>4 DEF MsgEcho, TInv, HasHandle
      <3>3. CASE Reply(task.hdl)
        BY <1>2, <1>4, <2>2, <3>1, <3>2, <3>3, TaskTypes DEF MsgEcho
      <3>4. ASSUME NEW i \in PeerRows,
                   task' = [task EXCEPT !.at = "msg.direct", !.answered = TRUE,
                                        !.fid = chatlist[task.cid][i]]
            PROVE  TInv'
        <4>1. task.cid \in DOMAIN chatlist /\ i \in DOMAIN chatlist[task.cid]
          BY DEF PeerRows, getPeersOfChat
        <4>2. chatlist[task.cid] \in Seq(AnyUser)
          BY <4>1, ElementOfSeq DEF TInv, TypeOK, DatabaseTypeOK
        <4>3. chatlist[task.cid][i] \in AnyUser
          BY <4>1, <4>2, ElementOfSeq
        <4>4. task' \in Task /\ HasHandle'
          BY <3>2, <3>4, <4>3 DEF TInv, TypeOK, SessionsTypeOK, HasHandle, Task, Labels
        <4> QED BY <1>2, <1>4, <2>2, <3>1, <4>4 DEF MsgEcho
      <3>5. CASE task' = [task EXCEPT !.at = "msg.room", !.answered = TRUE,
                                      !.todo = getAllOnlineUsersOfChatroom(task.cid)]
        <4>1. getAllOnlineUsersOfChatroom(task.cid) \in SUBSET User
          BY FriendsType DEF TInv, TypeOK
        <4>2. task' \in Task /\ HasHandle'
          BY <3>2, <3>5, <4>1 DEF TInv, TypeOK, SessionsTypeOK, HasHandle, Task, Labels
        <4> QED BY <1>2, <1>4, <2>2, <3>1, <4>2 DEF MsgEcho
      <3> QED BY <1>4, <2>2, <3>3, <3>4, <3>5 DEF MsgEcho
    <2> QED BY <2>1, <2>2
  <1>5. ASSUME MsgDirect PROVE TInv'
    <2>1. CASE Die
      BY <2>1, DieTypes
    <2>2. CASE task.at # "idle" /\ Finish /\ UNCHANGED <<procVars, historyVars, dbVars>>
      BY <2>2, TaskTypes, QuietTypes
    <2>3. ASSUME NEW h \in Conn, HandTo(h), task.at # "idle", Goto("msg.flag"),
                 UNCHANGED <<procVars, authed, listed, dbVars>>
          PROVE  TInv'
      BY <1>2, <1>3, <2>3, TaskTypes DEF Labels
    <2> QED BY <1>5, <2>1, <2>2, <2>3 DEF MsgDirect, CanSend
  <1>6. ASSUME MsgFlag PROVE TInv'
    <2>1. DatabaseTypeOK'
      BY <1>0, <1>6, ChatStatements DEF MsgFlag, TInv, TypeOK
    <2> QED BY <1>6, <2>1, TaskTypes, WriteTypes DEF MsgFlag
  <1>7. ASSUME NEW v \in User, MsgRoom(v) PROVE TInv'
    <2>1. CASE Die
      BY <2>1, DieTypes
    <2>2. ASSUME NEW h \in Conn, HandTo(h), task' = [task EXCEPT !.todo = @ \ {v}],
                 UNCHANGED <<procVars, authed, listed, dbVars>>
          PROVE  TInv'
      <3>1. task' \in Task /\ HasHandle'
        BY <2>2 DEF TInv, TypeOK, SessionsTypeOK, HasHandle, Task
      <3> QED BY <1>2, <1>3, <2>2, <3>1
    <2> QED BY <1>7, <2>1, <2>2 DEF MsgRoom, CanSend
  <1>8. ASSUME MsgRoomDone PROVE TInv'
    BY <1>8, TaskTypes, QuietTypes DEF MsgRoomDone
  <1> QED BY <1>1, <1>4, <1>5, <1>6, <1>7, <1>8 DEF MessageStep

LEMMA InitTypes == Init => TInv
  <1>1. Idle \in Task
    BY DEF Idle, Task, AnyUser, Labels
  <1>2. Init => DatabaseTypeOK
    BY DEF Init, SessionsInit, DatabaseInit, DatabaseTypeOK, NoSession
  <1>3. Init => SessionsTypeOK
    <2>1. NoUser \in AnyUser
      BY DEF AnyUser
    <2>2. ASSUME Init PROVE SessionsTypeOK
      <3>1. /\ up = FALSE /\ m_next_sessionid = 1 /\ task = Idle
            /\ cstate = [c \in Conn |-> "absent"]
            /\ m_connections = [c \in Conn |-> 0]
            /\ authed = [c \in Conn |-> {}]
            /\ seen = [c \in Conn |-> {}]
            /\ listed = [c \in Conn |-> NoUser]
        BY <2>2 DEF Init, SessionsInit
      <3> QED BY <1>1, <2>1, <3>1 DEF SessionsTypeOK
    <2> QED BY <2>2
  <1>4. Init => HasHandle
    BY DEF Init, SessionsInit, HasHandle, Idle
  <1> QED BY <1>2, <1>3, <1>4 DEF TInv, TypeOK

LEMMA NextTypes == TInv /\ [Next]_vars => TInv'
  <1> SUFFICES ASSUME TInv, [Next]_vars PROVE TInv'
    OBVIOUS
  <1>1. CASE UNCHANGED vars
    BY <1>1, QuietTypes DEF vars, TInv, TypeOK, SessionsTypeOK, HasHandle
  <1>2. ASSUME NEW c \in Conn, Request(c) PROVE TInv'
    BY <1>2, LoginTypes, LogoutTypes, FriendTypes, MessageTypes,
       DatabaseAssumption DEF Request
  <1>3. CASE HandlerStep
    BY <1>3, ConnectionTypes, LoginTypes, LogoutTypes, FriendTypes, MessageTypes
    DEF HandlerStep, SessionStep
  <1> QED BY <1>1, <1>2, <1>3, ConnectionTypes DEF Next

\* Every variable, row and local of a handler keeps its type: in particular no
\* handler runs without a connection, and ids are those of rows.
THEOREM TypeCorrect == Spec => []TypeOK
  <1>1. TInv => TypeOK
    BY DEF TInv
  <1> QED BY <1>1, InitTypes, NextTypes, PTL DEF Spec

-----------------------------------------------------------------------------
(* A session names one connection, and only a connection that presented the *)
(* password.  Neither SessionsDistinct nor SessionAuthentic is inductive    *)
(* alone.  That a new connection gets an id no row holds needs FreshIds;    *)
(* that the second statement of a login writes the id of the connection     *)
(* that presented the password needs TaskConnected and LoginAuthentic.      *)

\* No id at or above the counter is in use, in memory or in a row.
FreshIds ==
  /\ 0 < m_next_sessionid
  /\ \A c \in Conn : Session(c) < m_next_sessionid
  /\ up => \A u \in User : sessionid[u] < m_next_sessionid

DownIsEmpty == ~up => task.at = "idle" /\ \A c \in Conn : ~Live(c)

TaskConnected == task.at # "idle" => Live(task.hdl)

LoginAuthentic == task.at = "login.session" => task.uid \in authed[task.hdl]

AuthInv ==
  /\ TInv
  /\ SessionsDistinct
  /\ SessionAuthentic
  /\ FreshIds
  /\ DownIsEmpty
  /\ TaskConnected
  /\ LoginAuthentic

\* A step that touches no session and begins or continues some handler.
Quiet ==
  /\ up
  /\ UNCHANGED <<procVars, sessionid, authed>>
  /\ task'.at # "login.session"
  /\ task'.at # "idle" => Live(task'.hdl)

LEMMA QuietAuth == AuthInv /\ TInv' /\ Quiet => AuthInv'
  <1> SUFFICES ASSUME AuthInv, TInv', Quiet PROVE AuthInv'
    OBVIOUS
  <1> USE DEF AuthInv, Quiet, procVars
  <1>1. SessionsDistinct'
    BY DEF SessionsDistinct, Live, Session
  <1>2. SessionAuthentic'
    BY DEF SessionAuthentic, Bound, Live, Session
  <1>3. FreshIds'
    BY DEF FreshIds, Session
  <1>4. DownIsEmpty' /\ TaskConnected' /\ LoginAuthentic'
    BY DEF DownIsEmpty, TaskConnected, LoginAuthentic, Live
  <1> QED BY <1>1, <1>2, <1>3, <1>4

LEMMA DieAuth == TInv' /\ Die => AuthInv'
  <1> SUFFICES ASSUME TInv', Die PROVE AuthInv'
    OBVIOUS
  <1>1. /\ ~up' /\ m_next_sessionid' = 1 /\ task' = Idle
        /\ \A c \in Conn : cstate'[c] = "absent" /\ m_connections'[c] = 0
    BY DEF Die
  <1>2. SessionsDistinct' /\ SessionAuthentic'
    BY <1>1 DEF SessionsDistinct, SessionAuthentic, Bound, Live, Session
  <1>3. FreshIds' /\ DownIsEmpty' /\ TaskConnected' /\ LoginAuthentic'
    BY <1>1 DEF FreshIds, DownIsEmpty, TaskConnected, LoginAuthentic, Live, Session, Idle
  <1> QED BY <1>2, <1>3 DEF AuthInv

\* What the quiet lemma asks of an answer, a return and a next step.
LEMMA QuietTasks ==
  ASSUME AuthInv
  PROVE  /\ task.at # "idle" => up /\ Live(task.hdl)
         /\ \A c \in Conn : Receives(c) => up /\ Live(c)
         /\ \A c : Live(c) /\ Reply(c) => task'.at = "return" /\ Live(task'.hdl)
         /\ task.at # "idle" /\ Finish => task'.at = "return" /\ Live(task'.hdl)
         /\ \A l : task.at # "idle" /\ Goto(l) => task'.at = l /\ Live(task'.hdl)
  <1>1. task.at # "idle" => up /\ Live(task.hdl)
    BY DEF AuthInv, DownIsEmpty, TaskConnected
  <1>2. \A c \in Conn : Receives(c) => up /\ Live(c)
    BY DEF Receives, Live
  <1>3. \A c : Live(c) /\ Reply(c) => task'.at = "return" /\ Live(task'.hdl)
    BY DEF Reply, Idle, Live, AuthInv
  <1>4. task \in Task
    BY DEF AuthInv, TInv, TypeOK, SessionsTypeOK
  <1>5. task.at # "idle" /\ Finish => task'.at = "return" /\ Live(task'.hdl)
    BY <1>1 DEF Finish, Idle, Live
  <1>6. \A l : task.at # "idle" /\ Goto(l) => task'.at = l /\ Live(task'.hdl)
    BY <1>1, <1>4 DEF Goto, Task, Live
  <1> QED BY <1>1, <1>2, <1>3, <1>5, <1>6

-----------------------------------------------------------------------------
(* Most steps are quiet.                                                    *)

LEMMA QuietRequests ==
  ASSUME AuthInv, NEW c \in Conn
  PROVE  /\ Refuse(c) => Quiet
         /\ \A u \in User : Register(c, u) => Quiet
         /\ Logout(c) => Quiet
         /\ \A e \in User : \/ AddFriend(c, e) \/ AcceptFriend(c, e)
                          \/ DeclineFriend(c, e) \/ RemoveFriend(c, e)
                          => Quiet \/ Die
         /\ \A cid : NewMessage(c, cid) => Quiet \/ Die
  <1> USE DEF Quiet, dbVars, userVars, historyVars
  <1>1. Refuse(c) => Quiet
    BY QuietTasks DEF Refuse
  <1>2. \A u \in User : Register(c, u) => Quiet
    BY QuietTasks DEF Register, registerClient
  <1>3. Logout(c) => Quiet
    BY QuietTasks DEF Logout, setOnline, Idle
  <1>4. ASSUME NEW e \in User, AddFriend(c, e) PROVE Quiet \/ Die
    <2>1. CASE Reply(c) /\ Receives(c) /\ UNCHANGED <<procVars, historyVars, dbVars>>
      BY <2>1, QuietTasks
    <2>2. CASE /\ Receives(c)
               /\ insertFriendRequest(Caller(c), e)
               /\ task' = [Idle EXCEPT !.at = "add.push", !.hdl = c,
                                       !.uid = Caller(c), !.fid = e]
               /\ UNCHANGED <<procVars, historyVars>>
      BY <2>2, QuietTasks DEF insertFriendRequest, Idle
    <2> QED BY <1>4, <2>1, <2>2 DEF AddFriend
  <1>5. \A e \in User : AcceptFriend(c, e) => Quiet
    BY QuietTasks DEF AcceptFriend, acceptFriendRequest, Idle
  <1>6. \A e \in User : DeclineFriend(c, e) \/ RemoveFriend(c, e) => Quiet
    BY QuietTasks DEF DeclineFriend, RemoveFriend, Idle
  <1>7. ASSUME NEW cid, NewMessage(c, cid) PROVE Quiet \/ Die
    <2>1. CASE ~Die
      BY <1>7, <2>1, QuietTasks DEF NewMessage, newMessage, Idle
    <2> QED BY <2>1
  <1> QED BY <1>1, <1>2, <1>3, <1>4, <1>5, <1>6, <1>7

LEMMA QuietLoginSteps ==
  ASSUME AuthInv
  PROVE  /\ Return => Quiet
         /\ DbFault => Quiet \/ Die
         /\ LoginLists \/ LoginChats \/ LogoutEmail \/ LogoutDone => Quiet \/ Die
         /\ \A f \in User : LoginNotify(f) \/ LogoutNotify(f) => Quiet \/ Die
         /\ \A c \in Conn : on_close(c) => Quiet \/ Die
  <1> USE DEF Quiet, dbVars, userVars, historyVars
  <1>0. task \in Task
    BY DEF AuthInv, TInv, TypeOK, SessionsTypeOK
  <1>1. Return => Quiet
    BY QuietTasks DEF Return, Idle
  <1>2. DbFault => Quiet \/ Die
    BY QuietTasks DEF DbFault
  <1>3. LoginLists => Quiet
    BY <1>0, QuietTasks DEF LoginLists, Task
  <1>4. LoginChats => Quiet
    BY QuietTasks DEF LoginChats
  <1>5. LogoutEmail => Quiet \/ Die
    BY <1>0, QuietTasks DEF LogoutEmail, Task
  <1>6. LogoutDone => Quiet
    BY QuietTasks DEF LogoutDone
  <1>7. \A f \in User : LoginNotify(f) => Quiet \/ Die
    BY <1>0, QuietTasks DEF LoginNotify, Task
  <1>8. \A f \in User : LogoutNotify(f) => Quiet \/ Die
    BY <1>0, QuietTasks DEF LogoutNotify, Task
  <1>9. \A c \in Conn : on_close(c) => Quiet \/ Die
    BY DEF on_close, setOnline, Idle, Live
  <1> QED BY <1>1, <1>2, <1>3, <1>4, <1>5, <1>6, <1>7, <1>8, <1>9

LEMMA QuietFriendSteps == AuthInv /\ FriendStep => Quiet \/ Die
  <1> SUFFICES ASSUME AuthInv, FriendStep, ~Die PROVE Quiet
    OBVIOUS
  <1> USE DEF Quiet, dbVars, userVars, historyVars
  <1>0. task \in Task
    BY DEF AuthInv, TInv, TypeOK, SessionsTypeOK
  <1>1. CASE AddFriendPush
    BY <1>1, QuietTasks DEF AddFriendPush
  <1>2. CASE AcceptChat
    BY <1>0, <1>2, QuietTasks DEF AcceptChat, insertChat, Task
  <1>3. CASE AcceptSelf
    BY <1>3, QuietTasks DEF AcceptSelf, insertChatlist
  <1>4. CASE AcceptPeer
    BY <1>4, QuietTasks DEF AcceptPeer, insertChatlist
  <1>5. CASE AcceptPush
    BY <1>5, QuietTasks DEF AcceptPush
  <1> QED BY <1>1, <1>2, <1>3, <1>4, <1>5 DEF FriendStep, removeRequest, removeFriend

LEMMA QuietMessageSteps == AuthInv /\ MessageStep => Quiet \/ Die
  <1> SUFFICES ASSUME AuthInv, MessageStep, ~Die PROVE Quiet
    OBVIOUS
  <1> USE DEF Quiet, dbVars, userVars, historyVars
  <1>0. task \in Task
    BY DEF AuthInv, TInv, TypeOK, SessionsTypeOK
  <1>1. CASE MsgEcho
    <2>1. task.at # "idle" /\ UNCHANGED <<procVars, sessionid, authed>>
      BY <1>1 DEF MsgEcho
    <2>2. CASE Reply(task.hdl)
      BY <2>1, <2>2, QuietTasks
    <2>3. CASE \E i \in PeerRows :
                 task' = [task EXCEPT !.at = "msg.direct", !.answered = TRUE,
                                      !.fid = chatlist[task.cid][i]]
      BY <1>0, <2>1, <2>3, QuietTasks DEF Task
    <2>4. CASE task' = [task EXCEPT !.at = "msg.room", !.answered = TRUE,
                                    !.todo = getAllOnlineUsersOfChatroom(task.cid)]
      BY <1>0, <2>1, <2>4, QuietTasks DEF Task
    <2> QED BY <1>1, <2>2, <2>3, <2>4 DEF MsgEcho
  <1>2. CASE MsgDirect
    BY <1>2, QuietTasks DEF MsgDirect
  <1>3. CASE MsgFlag
    BY <1>3, QuietTasks DEF MsgFlag, setMessageTransmitted
  <1>4. CASE MsgRoomDone
    BY <1>4, QuietTasks DEF MsgRoomDone
  <1>5. CASE \E v \in User : MsgRoom(v)
    BY <1>0, <1>5, QuietTasks DEF MsgRoom, Task
  <1> QED BY <1>1, <1>2, <1>3, <1>4, <1>5 DEF MessageStep

-----------------------------------------------------------------------------
(* The steps that move sessions.                                            *)

LEMMA StartAuth == AuthInv /\ TInv' /\ Start => AuthInv'
  <1> SUFFICES ASSUME AuthInv, TInv', Start PROVE AuthInv'
    OBVIOUS
  <1>1. /\ UNCHANGED <<cstate, m_connections, m_next_sessionid, task, authed>>
        /\ ~up /\ up'
        /\ \A u \in User : sessionid'[u] = -1
    BY DEF Start, resetPresence, NoSession, historyVars
  <1>2. task.at = "idle" /\ \A c \in Conn : cstate[c] = "absent"
    BY <1>1 DEF AuthInv, DownIsEmpty, Live
  <1>3. SessionsDistinct' /\ SessionAuthentic'
    BY <1>1, <1>2 DEF AuthInv, SessionsDistinct, SessionAuthentic, Bound, Live, Session
  <1>4. m_next_sessionid \in Nat
    BY DEF AuthInv, TInv, TypeOK, SessionsTypeOK
  <1>5. FreshIds'
    BY <1>1, <1>4 DEF AuthInv, FreshIds, Session
  <1> QED BY <1>1, <1>2, <1>3, <1>5 DEF AuthInv, DownIsEmpty, TaskConnected, LoginAuthentic

\* The new id is above every id in use.
LEMMA OpenAuth == ASSUME NEW c \in Conn PROVE AuthInv /\ TInv' /\ on_open(c) => AuthInv'
  <1> SUFFICES ASSUME AuthInv, TInv', on_open(c) PROVE AuthInv'
    OBVIOUS
  <1>1. /\ up /\ up' /\ task.at = "idle"
        /\ UNCHANGED <<task, authed, sessionid>>
        /\ cstate' = [cstate EXCEPT ![c] = "open"]
        /\ m_connections' = [m_connections EXCEPT ![c] = m_next_sessionid]
        /\ m_next_sessionid' = m_next_sessionid + 1
    BY DEF on_open, historyVars, dbVars, userVars
  <1>2. /\ cstate \in [Conn -> {"absent", "open", "closing"}]
        /\ m_connections \in [Conn -> Nat]
        /\ m_next_sessionid \in Nat
        /\ sessionid \in [User -> Int]
    BY DEF AuthInv, TInv, TypeOK, SessionsTypeOK, DatabaseTypeOK
  <1>3. /\ 0 < m_next_sessionid
        /\ \A d \in Conn : m_connections[d] < m_next_sessionid
        /\ \A u \in User : sessionid[u] < m_next_sessionid
    BY <1>1 DEF AuthInv, FreshIds, Session
  <1>4. SessionsDistinct'
    BY <1>1, <1>2, <1>3 DEF AuthInv, SessionsDistinct, Live, Session
  <1>5. SessionAuthentic'
    BY <1>1, <1>2, <1>3 DEF AuthInv, SessionAuthentic, Bound, Live, Session
  <1>6. FreshIds'
    BY <1>1, <1>2, <1>3 DEF FreshIds, Session
  <1> QED BY <1>1, <1>4, <1>5, <1>6 DEF AuthInv, DownIsEmpty, TaskConnected, LoginAuthentic

LEMMA PeerClosesAuth ==
  ASSUME NEW c \in Conn PROVE AuthInv /\ TInv' /\ PeerCloses(c) => AuthInv'
  <1> SUFFICES ASSUME AuthInv, TInv', PeerCloses(c) PROVE AuthInv'
    OBVIOUS
  <1>1. /\ up /\ task.at = "idle"
        /\ UNCHANGED <<up, m_connections, m_next_sessionid, task, authed, sessionid>>
        /\ \A d \in Conn : Live(d)' <=> Live(d)
    BY DEF PeerCloses, Receives, Live, historyVars, dbVars, userVars,
           AuthInv, TInv, TypeOK, SessionsTypeOK
  <1>2. SessionsDistinct' /\ SessionAuthentic' /\ FreshIds'
    BY <1>1 DEF AuthInv, SessionsDistinct, SessionAuthentic, Bound, FreshIds, Session
  <1> QED BY <1>1, <1>2 DEF AuthInv, DownIsEmpty, TaskConnected, LoginAuthentic

LEMMA CloseAuth == AuthInv /\ TInv' /\ CloseSession => AuthInv'
  <1> SUFFICES ASSUME AuthInv, TInv', CloseSession PROVE AuthInv'
    OBVIOUS
  <1> DEFINE c == task.hdl
  <1>1. c \in Conn /\ up
    BY DEF CloseSession, AuthInv, TInv, HasHandle, DownIsEmpty
  <1>2. /\ UNCHANGED <<up, m_next_sessionid>>
        /\ task' = Idle
        /\ cstate' = [cstate EXCEPT ![c] = "absent"]
        /\ m_connections' = [m_connections EXCEPT ![c] = 0]
        /\ authed' = [authed EXCEPT ![c] = {}]
        /\ sessionid' = [v \in User |-> IF v = Caller(c) THEN -1 ELSE sessionid[v]]
    BY DEF CloseSession, setSessionID, NoSession
  <1>3. /\ cstate \in [Conn -> {"absent", "open", "closing"}]
        /\ m_connections \in [Conn -> Nat]
        /\ m_next_sessionid \in Nat
        /\ authed \in [Conn -> SUBSET User]
    BY DEF AuthInv, TInv, TypeOK, SessionsTypeOK
  <1>4. SessionsDistinct'
    BY <1>1, <1>2, <1>3 DEF AuthInv, SessionsDistinct, Live, Session
  <1>5. SessionAuthentic'
    BY <1>1, <1>2, <1>3 DEF AuthInv, SessionAuthentic, Bound, Live, Session
  <1>6. FreshIds'
    BY <1>1, <1>2, <1>3 DEF AuthInv, FreshIds, Session
  <1> QED BY <1>1, <1>2, <1>4, <1>5, <1>6
          DEF AuthInv, DownIsEmpty, TaskConnected, LoginAuthentic, Idle

LEMMA LoginAuth ==
  ASSUME NEW c \in Conn, NEW u \in User PROVE AuthInv /\ TInv' /\ Login(c, u) => AuthInv'
  <1> SUFFICES ASSUME AuthInv, TInv', Login(c, u) PROVE AuthInv'
    OBVIOUS
  <1>1. /\ up /\ cstate[c] = "open"
        /\ UNCHANGED <<up, cstate, m_connections, m_next_sessionid, sessionid>>
        /\ authed' = [authed EXCEPT ![c] = @ \cup {u}]
        /\ task'.at = "login.session" /\ task'.hdl = c /\ task'.uid = u
    BY DEF Login, Receives, setOnline, Idle, procVars
  <1>2. authed \in [Conn -> SUBSET User]
    BY DEF AuthInv, TInv, TypeOK, SessionsTypeOK
  <1>3. SessionsDistinct' /\ SessionAuthentic' /\ FreshIds'
    BY <1>1, <1>2 DEF AuthInv, SessionsDistinct, SessionAuthentic, Bound, Live,
                      FreshIds, Session
  <1>4. LoginAuthentic' /\ TaskConnected' /\ DownIsEmpty'
    BY <1>1, <1>2 DEF LoginAuthentic, TaskConnected, DownIsEmpty, Live
  <1> QED BY <1>3, <1>4 DEF AuthInv

\* The id written is the one of the connection that presented the password,
\* and no other connection has it.
LEMMA LoginSessionAuth == AuthInv /\ TInv' /\ LoginSession => AuthInv'
  <1> SUFFICES ASSUME AuthInv, TInv', LoginSession PROVE AuthInv'
    OBVIOUS
  <1> DEFINE c == task.hdl
             u == task.uid
  <1>1. /\ c \in Conn /\ up /\ Live(c) /\ u \in authed[c]
    BY DEF LoginSession, AuthInv, TInv, HasHandle, DownIsEmpty, TaskConnected,
           LoginAuthentic
  <1>2. task \in Task /\ "login.lists" \in Labels
    BY DEF AuthInv, TInv, TypeOK, SessionsTypeOK, Labels
  <1>3. /\ UNCHANGED <<up, cstate, m_connections, m_next_sessionid, authed>>
        /\ sessionid' = [v \in User |-> IF v = u THEN Session(c) ELSE sessionid[v]]
    BY DEF LoginSession, setSessionID, procVars
  <1>4. task'.at = "login.lists" /\ task'.hdl = c
    BY <1>2 DEF LoginSession, Goto, Task
  <1>5. SessionsDistinct' /\ FreshIds'
    BY <1>1, <1>3 DEF AuthInv, SessionsDistinct, FreshIds, Live, Session
  <1>6. SessionAuthentic'
    BY <1>1, <1>3 DEF AuthInv, SessionsDistinct, SessionAuthentic, Bound, Live, Session
  <1>7. LoginAuthentic' /\ TaskConnected' /\ DownIsEmpty'
    BY <1>1, <1>3, <1>4 DEF LoginAuthentic, TaskConnected, DownIsEmpty, Live
  <1> QED BY <1>5, <1>6, <1>7 DEF AuthInv

LEMMA LogoutSessionAuth == AuthInv /\ TInv' /\ LogoutSession => AuthInv'
  <1> SUFFICES ASSUME AuthInv, TInv', LogoutSession PROVE AuthInv'
    OBVIOUS
  <1> DEFINE c == task.hdl
             u == task.uid
  <1>1. /\ c \in Conn /\ up /\ Live(c)
    BY DEF LogoutSession, AuthInv, TInv, HasHandle, DownIsEmpty, TaskConnected
  <1>2. /\ task \in Task
        /\ m_connections \in [Conn -> Nat] /\ m_next_sessionid \in Nat
        /\ authed \in [Conn -> SUBSET User]
    BY DEF AuthInv, TInv, TypeOK, SessionsTypeOK
  <1>3. /\ UNCHANGED <<up, cstate, m_connections, m_next_sessionid>>
        /\ sessionid' = [v \in User |-> IF v = u THEN -1 ELSE sessionid[v]]
        /\ authed' = [authed EXCEPT ![c] = @ \ {u}]
    BY DEF LogoutSession, setSessionID, NoSession, procVars
  <1>4. task'.at = "logout.email" /\ task'.hdl = c
    BY <1>2 DEF LogoutSession, Task
  <1>5. SessionsDistinct' /\ FreshIds'
    BY <1>1, <1>2, <1>3 DEF AuthInv, SessionsDistinct, FreshIds, Live, Session
  <1>6. SessionAuthentic'
    BY <1>1, <1>2, <1>3 DEF AuthInv, SessionAuthentic, Bound, Live, Session
  <1>7. LoginAuthentic' /\ TaskConnected' /\ DownIsEmpty'
    BY <1>1, <1>3, <1>4 DEF LoginAuthentic, TaskConnected, DownIsEmpty, Live
  <1> QED BY <1>5, <1>6, <1>7 DEF AuthInv

-----------------------------------------------------------------------------
LEMMA InitAuth == Init => AuthInv
  <1> SUFFICES ASSUME Init PROVE AuthInv
    OBVIOUS
  <1>1. /\ up = FALSE /\ m_next_sessionid = 1 /\ task = Idle
        /\ \A c \in Conn : cstate[c] = "absent" /\ m_connections[c] = 0
    BY DEF Init, SessionsInit
  <1>2. SessionsDistinct /\ SessionAuthentic
    BY <1>1 DEF SessionsDistinct, SessionAuthentic, Bound, Live, Session
  <1>3. FreshIds /\ DownIsEmpty /\ TaskConnected /\ LoginAuthentic
    BY <1>1 DEF FreshIds, DownIsEmpty, TaskConnected, LoginAuthentic, Live, Session, Idle
  <1> QED BY <1>2, <1>3, InitTypes DEF AuthInv

LEMMA NextAuth == AuthInv /\ [Next]_vars => AuthInv'
  <1> SUFFICES ASSUME AuthInv, [Next]_vars PROVE AuthInv'
    OBVIOUS
  <1>1. TInv'
    BY NextTypes DEF AuthInv
  <1>2. Quiet \/ Die => AuthInv'
    BY <1>1, QuietAuth, DieAuth
  <1>3. CASE UNCHANGED vars
    BY <1>1, <1>3 DEF vars, procVars, historyVars, dbVars, userVars, AuthInv,
       SessionsDistinct, SessionAuthentic, Bound, FreshIds, DownIsEmpty,
       TaskConnected, LoginAuthentic, Live, Session
  <1>4. ASSUME NEW c \in Conn, Request(c) PROVE AuthInv'
    BY <1>1, <1>2, <1>4, QuietRequests, LoginAuth DEF Request
  <1>5. CASE SessionStep
    BY <1>1, <1>2, <1>5, QuietLoginSteps, CloseAuth, LoginSessionAuth, LogoutSessionAuth
    DEF SessionStep
  <1>6. CASE FriendStep \/ MessageStep
    BY <1>2, <1>6, QuietFriendSteps, QuietMessageSteps
  <1>7. CASE Start
    BY <1>1, <1>7, StartAuth
  <1>8. CASE Kill \/ DbFault
    BY <1>2, <1>8, QuietLoginSteps DEF Kill
  <1>9. ASSUME NEW c \in Conn, on_open(c) \/ PeerCloses(c) \/ on_close(c) PROVE AuthInv'
    BY <1>1, <1>2, <1>9, OpenAuth, PeerClosesAuth, QuietLoginSteps
  <1> QED BY <1>3, <1>4, <1>5, <1>6, <1>7, <1>8, <1>9 DEF Next, HandlerStep

\* A connection is in the map exactly while it lives and no two connections
\* share a session id, so get_hdl_from_session finds the one it means.
THEOREM DistinctSessions == Spec => []SessionsDistinct
  <1>1. AuthInv => SessionsDistinct
    BY DEF AuthInv
  <1> QED BY <1>1, InitAuth, NextAuth, PTL DEF Spec

\* Whoever acts as u on a connection has presented u's password on it, across
\* reconnections, second logins, failures and restarts.
THEOREM AuthenticSessions == Spec => []SessionAuthentic
  <1>1. AuthInv => SessionAuthentic
    BY DEF AuthInv
  <1> QED BY <1>1, InitAuth, NextAuth, PTL DEF Spec

-----------------------------------------------------------------------------
(* Presence.                                                                *)

\* A connection has presented the password of one user at a time, who has a row.
OneAccount ==
  \A c \in Conn : /\ authed[c] \subseteq registered
                  /\ \A u, v \in authed[c] : u = v

\* A row holds no session, or that of a connection.
SessionLive ==
  up => \A u \in User : sessionid[u] = NoSession \/ \E c \in Conn : Bound(u, c)

\* Between the two statements of a login, or after the second one failed, and
\* only then, is somebody online who has no session.
Unreached ==
  up => \A u \in User : online[u] /\ sessionid[u] = NoSession =>
          (task.at = "login.session" /\ task.uid = u) \/ "db" \in Faults

\* Between their two statements close handler and logout have done the first.
FirstOffline ==
  /\ task.at = "close.session" => \A u \in User : Bound(u, task.hdl) => ~online[u]
  /\ task.at = "logout.session" => \A u \in User : u = task.uid => ~online[u]

PresenceInv == OneAccount /\ SessionLive /\ Unreached /\ FirstOffline
PInv == AuthInv /\ PresenceInv

LEMMA PTypes ==
  ASSUME AuthInv
  PROVE  /\ registered \subseteq User
         /\ online \in [User -> BOOLEAN] /\ sessionid \in [User -> Int]
         /\ cstate \in [Conn -> {"absent", "open", "closing"}]
         /\ m_connections \in [Conn -> Nat] /\ m_next_sessionid \in Nat
         /\ task \in Task /\ authed \in [Conn -> SUBSET User]
  BY DEF AuthInv, TInv, TypeOK, DatabaseTypeOK, SessionsTypeOK

\* getUserIDFromSession finds the user of a session,
LEMMA CallerFound ==
  ASSUME PInv, NEW u \in User, NEW c \in Conn, Bound(u, c)
  PROVE  Caller(c) = u
  <1> DEFINE holders == {v \in registered : sessionid[v] = Session(c)}
  <1>1. \A v \in User : Bound(v, c) => v \in authed[c]
    BY DEF PInv, AuthInv, SessionAuthentic
  <1>2. \A v \in holders : v = u
    BY <1>1, PTypes DEF PInv, PresenceInv, OneAccount, Bound
  <1>3. u \in holders
    BY <1>1 DEF PInv, PresenceInv, OneAccount, Bound
  <1>4. holders = {u}
    BY <1>2, <1>3
  <1>5. Caller(c) = CHOOSE v \in User : holders = {v}
    BY <1>3, <1>4 DEF Caller, getUserIDFromSession
  <1>6. \A v \in User : holders = {v} => v = u
    BY <1>4
  <1> QED BY <1>4, <1>5, <1>6

\* and nobody else.
LEMMA CallerBound ==
  ASSUME PInv, NEW c \in Conn, Live(c), Caller(c) \in User
  PROVE  Bound(Caller(c), c)
  <1> DEFINE holders == {v \in registered : sessionid[v] = Session(c)}
  <1>1. CASE \E u \in holders : holders = {u}
    <2>1. Caller(c) = CHOOSE v \in User : holders = {v}
      BY <1>1 DEF Caller, getUserIDFromSession
    <2>2. \E v \in User : holders = {v}
      BY <1>1, PTypes DEF PInv
    <2>3. holders = {Caller(c)}
      BY <2>1, <2>2
    <2> QED BY <2>3 DEF Bound
  <1>2. CASE ~ \E u \in holders : holders = {u}
    BY <1>2, DatabaseAssumption DEF Caller, getUserIDFromSession
  <1> QED BY <1>1, <1>2

-----------------------------------------------------------------------------
(* Most steps are still: they touch neither rows of users nor connections.  *)

Still ==
  /\ UNCHANGED <<up, cstate, m_connections, authed, sessionid, online>>
  /\ registered \subseteq registered'
  /\ task'.at \notin {"close.session", "logout.session"}
  /\ task.at = "login.session" => "db" \in Faults

LEMMA StillPresence == PInv /\ Still => PresenceInv'
  <1> SUFFICES ASSUME PInv, Still PROVE PresenceInv'
    OBVIOUS
  <1>1. OneAccount'
    BY DEF PInv, PresenceInv, Still, OneAccount
  <1>2. SessionLive' /\ Unreached'
    BY DEF PInv, PresenceInv, Still, SessionLive, Unreached, Bound, Live, Session
  <1>3. FirstOffline'
    BY DEF Still, FirstOffline
  <1> QED BY <1>1, <1>2, <1>3 DEF PresenceInv

LEMMA DiePresence == Die => PresenceInv'
  BY DEF Die, Idle, PresenceInv, OneAccount, SessionLive, Unreached, FirstOffline

LEMMA StillRequests ==
  ASSUME PInv, NEW c \in Conn
  PROVE  /\ Refuse(c) \/ (\E u \in User : Register(c, u)) => Still
         /\ \A e \in User : \/ AddFriend(c, e) \/ AcceptFriend(c, e)
                            \/ DeclineFriend(c, e) \/ RemoveFriend(c, e)
                            => Still \/ Die
         /\ \A cid : NewMessage(c, cid) => Still \/ Die
  <1> USE DEF Still, dbVars, userVars, historyVars, procVars, Receives, Reply, Idle
  <1>1. Refuse(c) => Still
    BY DEF Refuse
  <1>2. ASSUME NEW u \in User, Register(c, u) PROVE Still
    BY <1>2 DEF Register, registerClient
  <1>3. ASSUME NEW e \in User, AddFriend(c, e), ~Die PROVE Still
    BY <1>3 DEF AddFriend, insertFriendRequest
  <1>4. ASSUME NEW e \in User, AcceptFriend(c, e) PROVE Still
    BY <1>4 DEF AcceptFriend, acceptFriendRequest
  <1>5. ASSUME NEW e \in User, DeclineFriend(c, e) \/ RemoveFriend(c, e) PROVE Still
    BY <1>5 DEF DeclineFriend, RemoveFriend
  <1>6. ASSUME NEW cid, NewMessage(c, cid), ~Die PROVE Still
    BY <1>6 DEF NewMessage, newMessage
  <1> QED BY <1>1, <1>2, <1>3, <1>4, <1>5, <1>6

LEMMA StillSteps ==
  ASSUME PInv
  PROVE  /\ Return \/ LoginLists \/ LoginChats \/ LogoutEmail \/ LogoutDone => Still \/ Die
         /\ \A f \in User : LoginNotify(f) \/ LogoutNotify(f) => Still \/ Die
         /\ DbFault \/ Kill => Still \/ Die
         /\ FriendStep \/ MessageStep => Still \/ Die
  <1> USE DEF Still, dbVars, userVars, historyVars, procVars, Reply, Idle, Finish, Goto
  <1>0. task \in Task
    BY PTypes DEF PInv
  <1>1. Return \/ LoginLists \/ LoginChats \/ LogoutEmail \/ LogoutDone => Still \/ Die
    <2>1. Return => Still
      BY DEF Return
    <2>5. ASSUME LogoutDone PROVE Still
      <3>1. task.at = "logout.notify" /\ UNCHANGED <<procVars, historyVars, dbVars>>
        BY <2>5 DEF LogoutDone
      <3>2. task'.at = "return"
        BY <1>0, <2>5 DEF LogoutDone, Task
      <3> QED BY <3>1, <3>2 DEF historyVars
    <2>4. ASSUME LoginChats PROVE Still
      <3>1. /\ task.at = "login.notify" /\ UNCHANGED <<procVars, authed, dbVars>>
        BY <2>4 DEF LoginChats
      <3>2. task'.at = "return"
        BY <1>0, <2>4 DEF LoginChats, Task
      <3> QED BY <3>1, <3>2
    <2>2. LoginLists => Still
      BY <1>0 DEF LoginLists, Task
    <2>3. ASSUME LogoutEmail, ~Die PROVE Still
      BY <1>0, <2>3 DEF LogoutEmail, Task
    <2> QED BY <2>1, <2>2, <2>3, <2>4, <2>5
  <1>2. ASSUME NEW f \in User, LoginNotify(f) \/ LogoutNotify(f) PROVE Still \/ Die
    BY <1>0, <1>2 DEF LoginNotify, LogoutNotify, Task
  <1>3. DbFault \/ Kill => Still \/ Die
    BY DEF DbFault, Kill
  <1>4. ASSUME FriendStep, ~Die PROVE Still
    BY <1>0, <1>4 DEF FriendStep, AddFriendPush, AcceptChat, AcceptSelf, AcceptPeer, AcceptPush,
         insertChat, insertChatlist, removeRequest, removeFriend, Task
  <1>5. ASSUME MsgEcho, ~Die PROVE Still
    <2>1. task.at = "msg.echo" /\ UNCHANGED <<procVars, authed, dbVars>>
      BY <1>5 DEF MsgEcho
    <2>2. task'.at \in {"msg.direct", "msg.room", "return"}
      BY <1>0, <1>5 DEF MsgEcho, Task
    <2> QED BY <2>1, <2>2
  <1>6. ASSUME MsgDirect \/ MsgFlag \/ MsgRoomDone, ~Die PROVE Still
    BY <1>0, <1>6 DEF MsgDirect, MsgFlag, MsgRoomDone, setMessageTransmitted, Task
  <1>7. ASSUME NEW v \in User, MsgRoom(v), ~Die PROVE Still
    BY <1>0, <1>7 DEF MsgRoom, Task
  <1> QED BY <1>1, <1>2, <1>3, <1>4, <1>5, <1>6, <1>7 DEF MessageStep

-----------------------------------------------------------------------------
(* The others.                                                              *)

LEMMA StartPresence == PInv /\ Start => PresenceInv'
  <1> SUFFICES ASSUME PInv, Start PROVE PresenceInv'
    OBVIOUS
  <1>1. /\ UNCHANGED <<task, authed, registered>> /\ task.at = "idle"
        /\ online' = [u \in User |-> FALSE] /\ sessionid' = [u \in User |-> NoSession]
    BY DEF Start, resetPresence, historyVars, PInv, AuthInv, DownIsEmpty
  <1> QED BY <1>1 DEF PInv, PresenceInv, OneAccount, SessionLive, Unreached, FirstOffline

LEMMA ConnectionPresence ==
  ASSUME NEW c \in Conn PROVE PInv /\ (on_open(c) \/ PeerCloses(c)) => PresenceInv'
  <1> SUFFICES ASSUME PInv, on_open(c) \/ PeerCloses(c) PROVE PresenceInv'
    OBVIOUS
  <1>1. /\ task.at = "idle" /\ UNCHANGED <<up, task, authed, registered, online, sessionid>>
        /\ \A d \in Conn : Live(d) => Live(d)' /\ Session(d)' = Session(d)
    BY PTypes DEF on_open, PeerCloses, Receives, historyVars, dbVars, userVars, PInv, Live, Session
  <1>2. \A u \in User, d \in Conn : Bound(u, d) => Bound(u, d)'
    BY <1>1 DEF Bound
  <1> QED BY <1>1, <1>2 DEF PInv, PresenceInv, OneAccount, SessionLive, Unreached, FirstOffline

LEMMA OnClosePresence == ASSUME NEW c \in Conn PROVE PInv /\ on_close(c) => PresenceInv'
  <1> SUFFICES ASSUME PInv, on_close(c), ~Die PROVE PresenceInv'
    BY DiePresence
  <1>1. /\ UNCHANGED <<up, cstate, m_connections, authed, registered, sessionid>>
        /\ online' = [v \in User |-> IF v = Caller(c) THEN FALSE ELSE online[v]]
        /\ task'.at = "close.session" /\ task'.hdl = c /\ task.at = "idle"
    BY DEF on_close, setOnline, Idle, procVars, historyVars
  <1>2. \A u \in User, d \in Conn : Bound(u, d)' <=> Bound(u, d)
    BY <1>1 DEF Bound, Live, Session
  <1>3. FirstOffline'
    BY <1>1, <1>2, CallerFound DEF FirstOffline
  <1> QED BY <1>1, <1>2, <1>3 DEF PInv, PresenceInv, OneAccount, SessionLive, Unreached

\* The row of the user at the connection, offline by now, loses its session.
LEMMA CloseSessionPresence == PInv /\ CloseSession => PresenceInv'
  <1> SUFFICES ASSUME PInv, CloseSession PROVE PresenceInv'
    OBVIOUS
  <1> DEFINE c == task.hdl
  <1>1. c \in Conn /\ Live(c) /\ task.at = "close.session"
    BY DEF CloseSession, PInv, AuthInv, TInv, HasHandle, TaskConnected
  <1>2. /\ UNCHANGED <<up, registered, online>> /\ task'.at = "idle"
        /\ sessionid' = [v \in User |-> IF v = Caller(c) THEN NoSession ELSE sessionid[v]]
        /\ cstate' = [cstate EXCEPT ![c] = "absent"]
        /\ m_connections' = [m_connections EXCEPT ![c] = 0]
        /\ authed' = [authed EXCEPT ![c] = {}]
    BY DEF CloseSession, setSessionID, Idle
  <1>3. ASSUME NEW u \in User, NEW d \in Conn, Bound(u, d), u # Caller(c) PROVE Bound(u, d)'
    <2>1. d # c
      BY <1>3, CallerFound
    <2> QED BY <1>2, <1>3, <2>1, PTypes DEF PInv, Bound, Live, Session
  <1>4. Caller(c) \in User => ~online[Caller(c)]
    BY <1>1, CallerBound DEF PInv, PresenceInv, FirstOffline
  <1>5. SessionLive'
    BY <1>2, <1>3 DEF PInv, PresenceInv, SessionLive
  <1>6. Unreached'
    BY <1>1, <1>2, <1>4 DEF PInv, PresenceInv, Unreached
  <1>7. OneAccount'
    BY <1>1, <1>2, PTypes DEF PInv, PresenceInv, OneAccount
  <1> QED BY <1>2, <1>5, <1>6, <1>7 DEF PresenceInv, FirstOffline

LEMMA LoginPresence ==
  ASSUME ~AccountSwitch, NEW c \in Conn, NEW u \in User
  PROVE  PInv /\ Login(c, u) => PresenceInv'
  <1> SUFFICES ASSUME PInv, Login(c, u) PROVE PresenceInv'
    OBVIOUS
  <1>1. /\ UNCHANGED <<up, cstate, m_connections, registered, sessionid>>
        /\ u \in registered /\ authed[c] \subseteq {u}
        /\ online' = [v \in User |-> IF v = u THEN TRUE ELSE online[v]]
        /\ authed' = [authed EXCEPT ![c] = @ \cup {u}]
        /\ task'.at = "login.session" /\ task'.uid = u /\ task.at = "idle"
    BY DEF Login, Receives, setOnline, Idle, procVars
  <1>2. OneAccount'
    BY <1>1, PTypes DEF PInv, PresenceInv, OneAccount
  <1>3. SessionLive' /\ Unreached' /\ FirstOffline'
    BY <1>1 DEF PInv, PresenceInv, SessionLive, Unreached, FirstOffline, Bound, Live, Session
  <1> QED BY <1>2, <1>3 DEF PresenceInv

LEMMA LoginSessionPresence == PInv /\ LoginSession => PresenceInv'
  <1> SUFFICES ASSUME PInv, LoginSession PROVE PresenceInv'
    OBVIOUS
  <1> DEFINE c == task.hdl
             u == task.uid
  <1>1. c \in Conn /\ Live(c) /\ task.at = "login.session"
    BY DEF LoginSession, PInv, AuthInv, TInv, HasHandle, TaskConnected
  <1>2. /\ UNCHANGED <<up, cstate, m_connections, authed, registered, online>>
        /\ sessionid' = [v \in User |-> IF v = u THEN Session(c) ELSE sessionid[v]]
    BY DEF LoginSession, setSessionID, procVars
  <1>3. task'.at = "login.lists"
    BY PTypes DEF LoginSession, Goto, Task, PInv
  <1>4. Session(c) # NoSession
    BY <1>1, PTypes DEF PInv, Session, NoSession
  <1>5. SessionLive'
    BY <1>1, <1>2 DEF PInv, PresenceInv, SessionLive, Bound, Live, Session
  <1>6. Unreached'
    BY <1>2, <1>4 DEF PInv, PresenceInv, Unreached
  <1> QED BY <1>2, <1>3, <1>5, <1>6 DEF PInv, PresenceInv, OneAccount, FirstOffline

LEMMA LogoutPresence ==
  ASSUME NEW c \in Conn PROVE PInv /\ Logout(c) => PresenceInv'
  <1> SUFFICES ASSUME PInv, Logout(c) PROVE PresenceInv'
    OBVIOUS
  <1>1. /\ UNCHANGED <<up, cstate, m_connections, authed, registered, sessionid>>
        /\ online' = [v \in User |-> IF v = Caller(c) THEN FALSE ELSE online[v]]
        /\ task'.at = "logout.session" /\ task'.uid = Caller(c) /\ task.at = "idle"
    BY DEF Logout, Receives, setOnline, Idle, procVars, historyVars
  <1> QED BY <1>1 DEF PInv, PresenceInv, OneAccount, SessionLive, Unreached, FirstOffline, Bound,
                   Live, Session

LEMMA LogoutSessionPresence == PInv /\ LogoutSession => PresenceInv'
  <1> SUFFICES ASSUME PInv, LogoutSession PROVE PresenceInv'
    OBVIOUS
  <1>1. task.hdl \in Conn /\ task.at = "logout.session" /\ task'.at = "logout.email"
    BY PTypes DEF LogoutSession, PInv, AuthInv, TInv, HasHandle, Task
  <1>2. /\ UNCHANGED <<up, cstate, m_connections, registered, online>>
        /\ sessionid' = [v \in User |-> IF v = task.uid THEN NoSession ELSE sessionid[v]]
        /\ authed' = [authed EXCEPT ![task.hdl] = @ \ {task.uid}]
    BY DEF LogoutSession, setSessionID, procVars
  <1>3. OneAccount'
    BY <1>1, <1>2, PTypes DEF PInv, PresenceInv, OneAccount
  <1>4. SessionLive'
    BY <1>2 DEF PInv, PresenceInv, SessionLive, Bound, Live, Session
  <1>5. Unreached'
    BY <1>1, <1>2 DEF PInv, PresenceInv, Unreached, FirstOffline
  <1> QED BY <1>1, <1>3, <1>4, <1>5 DEF PresenceInv, FirstOffline

-----------------------------------------------------------------------------
LEMMA NextPresence == ASSUME ~AccountSwitch PROVE PInv /\ [Next]_vars => PInv'
  <1> SUFFICES ASSUME PInv, [Next]_vars PROVE PresenceInv'
    BY NextAuth DEF PInv
  <1>1. Still \/ Die => PresenceInv'
    BY StillPresence, DiePresence
  <1>2. CASE UNCHANGED vars
    BY <1>2 DEF vars, procVars, historyVars, dbVars, userVars, PInv, PresenceInv, OneAccount,
         SessionLive, Unreached, FirstOffline, Bound, Live, Session
  <1>3. ASSUME NEW c \in Conn, Request(c) PROVE PresenceInv'
    BY <1>1, <1>3, StillRequests, LoginPresence, LogoutPresence DEF Request
  <1>4. ASSUME NEW c \in Conn, on_open(c) \/ PeerCloses(c) \/ on_close(c) PROVE PresenceInv'
    BY <1>4, ConnectionPresence, OnClosePresence
  <1>5. CASE HandlerStep
    BY <1>1, <1>5, StillSteps, CloseSessionPresence, LoginSessionPresence, LogoutSessionPresence
    DEF HandlerStep, SessionStep
  <1> QED BY <1>1, <1>2, <1>3, <1>4, <1>5, StillSteps, StartPresence DEF Next

LEMMA InitPresence == Init => PInv
  <1> SUFFICES ASSUME Init PROVE PresenceInv
    BY InitAuth DEF PInv
  <1>1. ~up /\ task = Idle /\ \A c \in Conn : authed[c] = {}
    BY DEF Init, SessionsInit
  <1> QED BY <1>1 DEF PresenceInv, OneAccount, SessionLive, Unreached, FirstOffline, Idle

\* Whoever is marked online has a live connection under the recorded session,
\* except while a login is between its statements or after its second one failed.
THEOREM PresenceHeld == ASSUME ~AccountSwitch PROVE Spec => []PresenceSound
  <1>1. PInv => PresenceSound
    BY DEF PInv, PresenceInv, SessionLive, Unreached, PresenceSound, At
  <1> QED BY <1>1, InitPresence, NextPresence, PTL DEF Spec

-----------------------------------------------------------------------------
(* The refinement of Presence: every step is one of its steps or none.      *)

Present == {c \in Conn : Live(c)}
Loc     == [u \in User |-> {c \in Conn : At(u, c)}]

PresenceStep == [Whereabouts!Next]_<<Present, Loc>>

\* A user is at one connection, and nobody else is there.
LEMMA AtOnePlace ==
  ASSUME PInv, NEW u \in User, NEW v \in User, NEW c \in Conn, NEW d \in Conn,
         Bound(u, c), Bound(v, d)
  PROVE  u = v <=> c = d
  <1>1. u = v => c = d
    BY DEF PInv, AuthInv, SessionsDistinct, Bound
  <1>2. c = d => u = v
    BY DEF PInv, AuthInv, SessionAuthentic, PresenceInv, OneAccount
  <1> QED BY <1>1, <1>2

\* Nobody is anywhere else when neither connections nor rows changed.
LEMMA StayStep == UNCHANGED <<cstate, m_connections, sessionid, online>> => PresenceStep
  <1> SUFFICES ASSUME UNCHANGED <<cstate, m_connections, sessionid, online>>
               PROVE  PresenceStep
    OBVIOUS
  <1>1. Present' = Present
    BY DEF Present, Live
  <1>2. Loc' = Loc
    BY DEF Loc, At, Bound, Live, Session
  <1> QED BY <1>1, <1>2 DEF PresenceStep

LEMMA DieStep == Die => PresenceStep
  <1> SUFFICES ASSUME Die PROVE Whereabouts!Shutdown
    BY DEF PresenceStep, Whereabouts!Next
  <1> QED BY DEF Die, Whereabouts!Shutdown, Live, At, Bound

LEMMA StartStep == PInv /\ Start => PresenceStep
  <1> SUFFICES ASSUME PInv, Start PROVE PresenceStep
    OBVIOUS
  <1>1. \A c \in Conn : ~Live(c) /\ ~Live(c)'
    BY DEF Start, PInv, AuthInv, DownIsEmpty, Live
  <1>2. Present' = Present /\ Loc' = Loc
    BY <1>1 DEF Present, Loc, At, Bound
  <1> QED BY <1>2 DEF PresenceStep

\* The new connection has an id no row holds.
LEMMA OpenStep == ASSUME NEW c \in Conn PROVE PInv /\ on_open(c) => PresenceStep
  <1> SUFFICES ASSUME PInv, on_open(c) PROVE Whereabouts!Connect(c)
    BY DEF PresenceStep, Whereabouts!Next
  <1>1. /\ up /\ cstate[c] = "absent" /\ UNCHANGED <<sessionid, online>>
        /\ cstate' = [cstate EXCEPT ![c] = "open"]
        /\ m_connections' = [m_connections EXCEPT ![c] = m_next_sessionid]
    BY DEF on_open, dbVars, userVars
  <1>2. \A u \in User : ~At(u, c) /\ ~At(u, c)'
    BY <1>1, PTypes DEF PInv, AuthInv, FreshIds, At, Bound, Live, Session
  <1>3. \A u \in User, d \in Conn \ {c} : At(u, d)' <=> At(u, d)
    BY <1>1, PTypes DEF PInv, At, Bound, Live, Session
  <1>4. \A u \in User, d \in Conn : At(u, d)' <=> At(u, d)
    BY <1>2, <1>3
  <1>5. Present' = Present \cup {c} /\ c \notin Present
    BY <1>1, PTypes DEF PInv, Present, Live
  <1>6. Loc' = Loc
    BY <1>4 DEF Loc
  <1> QED BY <1>5, <1>6 DEF Whereabouts!Connect, Present, Loc

LEMMA PeerClosesStep == ASSUME NEW c \in Conn PROVE PInv /\ PeerCloses(c) => PresenceStep
  <1> SUFFICES ASSUME PInv, PeerCloses(c) PROVE PresenceStep
    OBVIOUS
  <1>1. /\ UNCHANGED <<m_connections, sessionid, online>>
        /\ \A d \in Conn : Live(d)' <=> Live(d)
    BY PTypes DEF PeerCloses, Receives, PInv, Live, dbVars, userVars
  <1>2. Present' = Present /\ Loc' = Loc
    BY <1>1 DEF Present, Loc, At, Bound, Session
  <1> QED BY <1>2 DEF PresenceStep

\* A user who goes offline leaves the place it was at, if any.
LEMMA LeaveStep ==
  ASSUME NEW u, UNCHANGED <<cstate, m_connections, sessionid>>,
         online' = [v \in User |-> IF v = u THEN FALSE ELSE online[v]]
  PROVE  PresenceStep
  <1>1. Present' = Present
    BY DEF Present, Live
  <1>2. \A v \in User, c \in Conn : At(v, c)' <=> At(v, c) /\ v # u
    BY DEF At, Bound, Live, Session
  <1>3. CASE u \in User /\ Loc[u] # {}
    <2>1. Loc' = [Loc EXCEPT ![u] = {}]
      BY <1>2, <1>3 DEF Loc
    <2>2. Whereabouts!Leave(u)
      BY <1>1, <1>3, <2>1 DEF Whereabouts!Leave, Present, Loc
    <2> QED BY <1>3, <2>2 DEF PresenceStep, Whereabouts!Next
  <1>4. CASE ~(u \in User /\ Loc[u] # {})
    <2>1. Loc' = Loc
      BY <1>2, <1>4 DEF Loc
    <2> QED BY <1>1, <2>1 DEF PresenceStep
  <1> QED BY <1>3, <1>4

\* By the time the entry is erased nobody is at the connection.
LEMMA CloseSessionStep == PInv /\ CloseSession => PresenceStep
  <1> SUFFICES ASSUME PInv, CloseSession PROVE PresenceStep
    OBVIOUS
  <1>1. PICK c \in Conn : c = task.hdl /\ Live(c) /\ task.at = "close.session"
    BY DEF CloseSession, PInv, AuthInv, TInv, HasHandle, TaskConnected
  <1>2. /\ UNCHANGED online
        /\ sessionid' = [v \in User |-> IF v = Caller(c) THEN NoSession ELSE sessionid[v]]
        /\ cstate' = [cstate EXCEPT ![c] = "absent"]
        /\ m_connections' = [m_connections EXCEPT ![c] = 0]
    BY <1>1 DEF CloseSession, setSessionID
  <1>3. \A v \in User : ~At(v, c)
    BY <1>1 DEF PInv, PresenceInv, FirstOffline, At
  <1>4. \A v \in User : ~At(v, c)'
    BY <1>1, <1>2, PTypes DEF PInv, At, Bound, Live
  <1>5. ASSUME NEW v \in User, NEW d \in Conn \ {c} PROVE At(v, d)' <=> At(v, d)
    <2>1. CASE v = Caller(c)
      <3>1. ~Bound(v, d)
        BY <1>1, <1>5, <2>1, CallerBound, AtOnePlace
      <3>2. ~Bound(v, d)'
        BY <1>2, <1>5, <2>1, PTypes DEF PInv, Bound, Session, NoSession
      <3> QED BY <3>1, <3>2 DEF At
    <2>2. CASE v # Caller(c)
      BY <1>2, <1>5, <2>2, PTypes DEF PInv, At, Bound, Live, Session
    <2> QED BY <2>1, <2>2
  <1>6. Present' = Present \ {c} /\ c \in Present
    BY <1>1, <1>2, PTypes DEF PInv, Present, Live
  <1>7. Loc' = Loc
    <2>1. \A v \in User, d \in Conn : At(v, d)' <=> At(v, d)
      BY <1>3, <1>4, <1>5
    <2> QED BY <2>1 DEF Loc
  <1>8. Whereabouts!Disconnect(c)
    BY <1>3, <1>6, <1>7 DEF Whereabouts!Disconnect, Present, Loc
  <1> QED BY <1>1, <1>8 DEF PresenceStep, Whereabouts!Next

\* A step after which u is at c or nowhere, and nobody else has moved.
LEMMA ArriveStep ==
  ASSUME PInv, PInv', NEW u \in User, NEW c \in Conn, Live(c),
         UNCHANGED <<cstate, m_connections>>,
         Bound(u, c)',
         \A v \in User \ {u} : sessionid'[v] = sessionid[v] /\ online'[v] = online[v]
  PROVE  PresenceStep
  <1>1. Present' = Present
    BY DEF Present, Live
  <1>2. \A v \in User \ {u}, d \in Conn : At(v, d)' <=> At(v, d)
    BY DEF At, Bound, Live, Session
  <1>3. \A d \in Conn : Bound(u, d)' <=> d = c
    BY DEF PInv, AuthInv, SessionsDistinct, Bound
  <1>4. CASE online'[u]
    <2>1. Loc' = [Loc EXCEPT ![u] = {c}]
      BY <1>2, <1>3, <1>4 DEF Loc, At
    <2>2. \A v \in User \ {u} : ~At(v, c)
      <3>1. \A v \in User \ {u} : ~Bound(v, c)'
        BY DEF PInv, AuthInv, SessionAuthentic, PresenceInv, OneAccount
      <3> QED BY <1>2, <3>1 DEF At
    <2>3. Whereabouts!Arrive(u, c)
      BY <1>1, <2>1, <2>2 DEF Whereabouts!Arrive, Present, Loc
    <2> QED BY <2>3 DEF PresenceStep, Whereabouts!Next
  <1>5. CASE ~online'[u]
    <2>1. Loc' = [Loc EXCEPT ![u] = {}]
      BY <1>2, <1>5 DEF Loc, At
    <2>2. CASE Loc[u] = {}
      BY <1>1, <2>1, <2>2 DEF PresenceStep, Loc
    <2>3. CASE Loc[u] # {}
      <3>1. Whereabouts!Leave(u)
        BY <1>1, <2>1, <2>3 DEF Whereabouts!Leave, Present, Loc
      <3> QED BY <3>1 DEF PresenceStep, Whereabouts!Next
    <2> QED BY <2>2, <2>3
  <1> QED BY <1>4, <1>5

\* A user who comes online is where its old session still is, or nowhere yet.
LEMMA LoginStep ==
  ASSUME PInv, PInv', NEW c \in Conn, NEW u \in User, Login(c, u)
  PROVE  PresenceStep
  <1>1. /\ UNCHANGED <<up, cstate, m_connections, sessionid>> /\ up
        /\ online' = [v \in User |-> IF v = u THEN TRUE ELSE online[v]]
    BY DEF Login, Receives, setOnline, procVars
  <1>2. CASE \E d \in Conn : Bound(u, d)
    <2>1. PICK d \in Conn : Bound(u, d)
      BY <1>2
    <2>2. Bound(u, d)' /\ Live(d)
      BY <1>1, <2>1 DEF Bound, Live, Session
    <2> QED BY <1>1, <2>2, ArriveStep
  <1>3. CASE ~ \E d \in Conn : Bound(u, d)
    <2>1. \A v \in User, d \in Conn : At(v, d)' <=> At(v, d)
      BY <1>1, <1>3 DEF At, Bound, Live, Session
    <2>2. Present' = Present /\ Loc' = Loc
      BY <1>1, <2>1 DEF Present, Loc, Live
    <2> QED BY <2>2 DEF PresenceStep
  <1> QED BY <1>2, <1>3

\* The second statement brings the user here, from wherever it was.
LEMMA LoginSessionStep == ASSUME PInv, PInv', LoginSession PROVE PresenceStep
  <1>1. PICK c \in Conn, u \in User : c = task.hdl /\ u = task.uid /\ Live(c)
    BY PTypes DEF LoginSession, PInv, AuthInv, TInv, HasHandle, TaskConnected, LoginAuthentic
  <1>2. /\ UNCHANGED <<cstate, m_connections, online>>
        /\ sessionid' = [v \in User |-> IF v = u THEN Session(c) ELSE sessionid[v]]
    BY <1>1 DEF LoginSession, setSessionID, procVars
  <1>3. Bound(u, c)'
    BY <1>1, <1>2 DEF Bound, Live, Session
  <1> QED BY <1>1, <1>2, <1>3, ArriveStep

\* The session of a user offline already is taken away: nobody moves.
LEMMA LogoutSessionStep == PInv /\ LogoutSession => PresenceStep
  <1> SUFFICES ASSUME PInv, LogoutSession PROVE PresenceStep
    OBVIOUS
  <1>1. /\ UNCHANGED <<cstate, m_connections, online>> /\ task.at = "logout.session"
        /\ sessionid' = [v \in User |-> IF v = task.uid THEN NoSession ELSE sessionid[v]]
    BY DEF LogoutSession, setSessionID, procVars
  <1>2. \A v \in User, d \in Conn : At(v, d)' <=> At(v, d)
    BY <1>1 DEF PInv, PresenceInv, FirstOffline, At, Bound, Live, Session
  <1>3. Present' = Present /\ Loc' = Loc
    BY <1>1, <1>2 DEF Present, Loc, Live
  <1> QED BY <1>3 DEF PresenceStep

LEMMA NextStep ==
  ASSUME ~AccountSwitch, PInv, PInv', [Next]_vars
  PROVE  PresenceStep
  <1>1. Still => PresenceStep
    BY StayStep DEF Still
  <1>2. CASE UNCHANGED vars
    BY <1>2, StayStep DEF vars, procVars, dbVars, userVars
  <1>3. ASSUME NEW c \in Conn, Request(c) PROVE PresenceStep
    <2>1. CASE Logout(c)
      BY <2>1, LeaveStep DEF Logout, setOnline, procVars
    <2> QED BY <1>1, <1>3, <2>1, StillRequests, LoginStep, DieStep DEF Request
  <1>4. ASSUME NEW c \in Conn, on_open(c) \/ PeerCloses(c) \/ on_close(c) PROVE PresenceStep
    <2>1. CASE on_close(c)
      BY <2>1, LeaveStep, DieStep DEF on_close, setOnline, procVars
    <2> QED BY <1>4, <2>1, OpenStep, PeerClosesStep
  <1>5. CASE HandlerStep
    BY <1>1, <1>5, StillSteps, DieStep, CloseSessionStep, LoginSessionStep, LogoutSessionStep
    DEF HandlerStep, SessionStep
  <1> QED BY <1>1, <1>2, <1>3, <1>4, <1>5, StillSteps, StartStep, DieStep DEF Next

\* Sessions, flags and the map, three statements apart, together keep track of
\* users as Presence promises: nobody is at two connections or at one that is
\* gone, no two users are at one, and a connection is forgotten only after its
\* user left it; statement failures and restarts included.
THEOREM PresenceImplemented == ASSUME ~AccountSwitch PROVE Spec => PresenceKept
  <1>1. Init => PInv /\ Whereabouts!Init
    <2> SUFFICES ASSUME Init PROVE Whereabouts!Init
      BY InitPresence
    <2> QED BY DEF Init, SessionsInit, Whereabouts!Init, Live, At, Bound
  <1>2. PInv /\ [Next]_vars => PInv'
    BY NextPresence
  <1>3. PInv /\ PInv' /\ [Next]_vars => PresenceStep
    BY NextStep
  <1> QED BY <1>1, <1>2, <1>3, PTL DEF Spec, PresenceKept, Whereabouts!Spec, PresenceStep,
             Present, Loc

-----------------------------------------------------------------------------
(* Friendships and their chats.                                             *)

PairInv == TInv /\ FriendsPairUnique

\* The check and the insert of friendRequest together keep pairs unique.
LEMMA InsertUnique ==
  ASSUME FriendsPairUnique, NEW uid, NEW fid,
         mayRequest(uid, fid), insertFriendRequest(uid, fid)
  PROVE  FriendsPairUnique'
  <1> DEFINE row == [uid |-> uid, fid |-> fid, accepted |-> FALSE]
  <1>1. friends' = friends \cup {row}
    BY DEF insertFriendRequest
  <1>2. \A r \in friends : ~SamePair(r, uid, fid)
    BY DEF mayRequest
  <1>3. \A r \in friends : ~SamePair(r, row.uid, row.fid) /\ ~SamePair(row, r.uid, r.fid)
    BY <1>2 DEF SamePair
  <1> QED BY <1>1, <1>3 DEF FriendsPairUnique, SamePair

\* Accepting maps rows to rows of the same pair, so no two of them meet.
LEMMA AcceptUnique ==
  ASSUME friends \subseteq FriendRow, FriendsPairUnique,
         NEW uid, NEW fid, acceptFriendRequest(uid, fid)
  PROVE  FriendsPairUnique'
  <1> DEFINE Accepted(r) ==
               IF SamePair(r, uid, fid) THEN [r EXCEPT !.accepted = TRUE] ELSE r
  <1>1. friends' = {Accepted(r) : r \in friends}
    BY DEF acceptFriendRequest
  <1>2. \A r \in friends : Accepted(r).uid = r.uid /\ Accepted(r).fid = r.fid
    BY DEF FriendRow
  <1>3. ASSUME NEW r \in friends, NEW q \in friends,
               SamePair(Accepted(r), Accepted(q).uid, Accepted(q).fid)
        PROVE  r = q
    <2>1. SamePair(r, q.uid, q.fid)
      BY <1>2, <1>3 DEF SamePair
    <2> QED BY <2>1 DEF FriendsPairUnique
  <1>4. ASSUME NEW x \in friends', NEW y \in friends', SamePair(x, y.uid, y.fid)
        PROVE  x = y
    <2>1. PICK r \in friends : x = Accepted(r)
      BY <1>1
    <2>2. PICK q \in friends : y = Accepted(q)
      BY <1>1
    <2>3. r = q
      BY <1>3, <1>4, <2>1, <2>2
    <2> QED BY <2>1, <2>2, <2>3
  <1> QED BY <1>4 DEF FriendsPairUnique, SamePair

-----------------------------------------------------------------------------
(* No other step writes the table.                                          *)

LEMMA DieKeepsFriends == Die => UNCHANGED friends
  BY DEF Die, dbVars, chatVars

LEMMA RequestKeepsFriends ==
  ASSUME NEW c \in Conn
  PROVE  /\ Refuse(c) => UNCHANGED friends
         /\ \A u \in User : Register(c, u) \/ Login(c, u) => UNCHANGED friends
         /\ Logout(c) => UNCHANGED friends
         /\ \A e \in User : DeclineFriend(c, e) \/ RemoveFriend(c, e) => UNCHANGED friends
         /\ \A cid : NewMessage(c, cid) => UNCHANGED friends
  <1> USE DieKeepsFriends DEF dbVars, chatVars
  <1>1. Refuse(c) => UNCHANGED friends
    BY DEF Refuse
  <1>2. \A u \in User : Register(c, u) \/ Login(c, u) => UNCHANGED friends
    BY DEF Register, Login, registerClient, setOnline
  <1>3. Logout(c) => UNCHANGED friends
    BY DEF Logout, setOnline
  <1>4. \A e \in User : DeclineFriend(c, e) \/ RemoveFriend(c, e) => UNCHANGED friends
    BY DEF DeclineFriend, RemoveFriend
  <1>5. \A cid : NewMessage(c, cid) => UNCHANGED friends
    BY DEF NewMessage, newMessage
  <1> QED BY <1>1, <1>2, <1>3, <1>4, <1>5

LEMMA ConnectionKeepsFriends ==
  /\ Start \/ Kill \/ DbFault => UNCHANGED friends
  /\ \A c \in Conn : on_open(c) \/ PeerCloses(c) \/ on_close(c) => UNCHANGED friends
  <1> USE DieKeepsFriends DEF dbVars, chatVars
  <1>1. Start \/ Kill \/ DbFault => UNCHANGED friends
    BY DEF Start, resetPresence, Kill, DbFault
  <1>2. \A c \in Conn : on_open(c) \/ PeerCloses(c) \/ on_close(c) => UNCHANGED friends
    BY DEF on_open, PeerCloses, on_close, setOnline
  <1> QED BY <1>1, <1>2

LEMMA HandlerKeepsFriends == HandlerStep => UNCHANGED friends
  <1> USE DieKeepsFriends DEF dbVars, chatVars
  <1>1. SessionStep => UNCHANGED friends
    BY DEF SessionStep, CloseSession, Return, LoginSession, LoginLists, LoginChats,
       LogoutSession, LogoutEmail, LogoutDone, LoginNotify, LogoutNotify, setSessionID
  <1>2. FriendStep => UNCHANGED friends
    BY DEF FriendStep, AddFriendPush, AcceptChat, AcceptSelf, AcceptPeer, AcceptPush,
       removeRequest, removeFriend, insertChat, insertChatlist
  <1>3. MessageStep => UNCHANGED friends
    BY DEF MessageStep, MsgEcho, MsgDirect, MsgFlag, MsgRoomDone, MsgRoom,
       setMessageTransmitted
  <1> QED BY <1>1, <1>2, <1>3 DEF HandlerStep

-----------------------------------------------------------------------------
LEMMA NextPairs == PairInv /\ [Next]_vars => PairInv'
  <1> SUFFICES ASSUME PairInv, [Next]_vars PROVE FriendsPairUnique'
    BY NextTypes DEF PairInv
  <1>1. UNCHANGED friends => FriendsPairUnique'
    BY DEF PairInv, FriendsPairUnique, SamePair
  <1>2. friends \subseteq FriendRow
    BY DEF PairInv, TInv, TypeOK, DatabaseTypeOK
  <1>3. CASE UNCHANGED vars
    BY <1>1, <1>3 DEF vars, dbVars, chatVars
  <1>4. ASSUME NEW c \in Conn, NEW e \in User, AddFriend(c, e)
        PROVE  FriendsPairUnique'
    <2>1. CASE mayRequest(Caller(c), e) /\ insertFriendRequest(Caller(c), e)
      BY <2>1, InsertUnique DEF PairInv
    <2>2. CASE UNCHANGED friends
      BY <1>1, <2>2
    <2> QED BY <1>4, <2>1, <2>2, DieKeepsFriends DEF AddFriend, dbVars, chatVars
  <1>5. ASSUME NEW c \in Conn, NEW e \in User, AcceptFriend(c, e)
        PROVE  FriendsPairUnique'
    <2>1. acceptFriendRequest(Caller(c), getUserID(e))
      BY <1>5 DEF AcceptFriend
    <2> QED BY <1>2, <2>1, AcceptUnique DEF PairInv
  <1>6. ASSUME NEW c \in Conn, Request(c) PROVE FriendsPairUnique'
    BY <1>1, <1>4, <1>5, <1>6, RequestKeepsFriends DEF Request
  <1> QED BY <1>1, <1>3, <1>6, ConnectionKeepsFriends, HandlerKeepsFriends DEF Next

\* At most one row relates two users, however requests, acceptances, failures
\* and restarts interleave and whatever keys the schema declares: the pair that
\* acceptFriendRequest updates in both directions is one row.
THEOREM UniquePairs == Spec => []FriendsPairUnique
  <1>1. Init => PairInv
    BY InitTypes DEF Init, SessionsInit, DatabaseInit, PairInv, FriendsPairUnique
  <1>2. PairInv => FriendsPairUnique
    BY DEF PairInv
  <1> QED BY <1>1, <1>2, NextPairs, PTL DEF Spec

-----------------------------------------------------------------------------
(* AcceptedHaveChat.  acceptFriend marks the row first and creates the chat *)
(* in three further statements; that it gets that far needs a process that  *)
(* is neither killed nor loses a statement in between, and a schema that    *)
(* refuses neither row.                                                     *)

CreatesChat == {"accept.chat", "accept.self", "accept.peer"}

\* friends relates two users, whom the schema's keys know.
RowsNamed ==
  \A r \in friends :
    r.uid # r.fid /\ (SchemaKeys => r.uid \in registered /\ r.fid \in registered)

\* What createChat has inserted so far.
ChatSoFar ==
  /\ task.at = "accept.self" =>
       task.cid \in DOMAIN chatlist /\ chatlist[task.cid] = <<>>
  /\ task.at = "accept.peer" =>
       task.cid \in DOMAIN chatlist /\ chatlist[task.cid] = <<task.uid>>

HaveChat(r) == \E cid \in DOMAIN chatlist : InChat(r.uid, cid) /\ InChat(r.fid, cid)

\* Whoever is accepted and has no chat yet is the pair the handler befriends.
ChatComes ==
  \A r \in friends : r.accepted =>
    HaveChat(r) \/ (task.at \in CreatesChat /\ SamePair(r, task.uid, task.fid))

ChatInv == TInv /\ RowsNamed /\ ChatSoFar /\ ChatComes

\* Most steps have nothing to do with any of it.
Aside ==
  /\ UNCHANGED <<friends, chatlist>>
  /\ registered \subseteq registered'
  /\ \/ task.at \notin CreatesChat /\ task'.at \notin CreatesChat
     \/ UNCHANGED task

LEMMA AsideChats == ChatInv /\ Aside => RowsNamed' /\ ChatSoFar' /\ ChatComes'
  <1> SUFFICES ASSUME ChatInv, Aside PROVE RowsNamed' /\ ChatSoFar' /\ ChatComes'
    OBVIOUS
  <1>1. RowsNamed'
    BY DEF ChatInv, RowsNamed, Aside
  <1>2. ChatSoFar'
    BY DEF ChatInv, ChatSoFar, Aside, CreatesChat
  <1>3. ChatComes'
    BY DEF ChatInv, ChatComes, Aside, HaveChat, InChat
  <1> QED BY <1>1, <1>2, <1>3

LEMMA DieAside == Die /\ task.at \notin CreatesChat => Aside
  BY DEF Die, Idle, Aside, CreatesChat, dbVars, userVars, chatVars

LEMMA NextLabels ==
  ASSUME TInv
  PROVE  /\ \A c : Reply(c) => task'.at = "return"
         /\ Finish => task'.at = "return"
         /\ \A l : Goto(l) => task'.at = l
  <1>1. task \in Task
    BY DEF TInv, TypeOK, SessionsTypeOK
  <1>2. \A c : Reply(c) => task'.at = "return"
    BY DEF Reply, Idle
  <1>3. Finish => task'.at = "return"
    BY DEF Finish, Idle
  <1>4. \A l : Goto(l) => task'.at = l
    BY <1>1 DEF Goto, Task
  <1> QED BY <1>2, <1>3, <1>4

LEMMA AsideRequests ==
  ASSUME TInv, NEW c \in Conn
  PROVE  /\ Refuse(c) \/ Logout(c) => Aside
         /\ \A u \in User : Register(c, u) \/ Login(c, u) => Aside
         /\ \A e \in User : DeclineFriend(c, e) \/ RemoveFriend(c, e) => Aside
         /\ \A cid : NewMessage(c, cid) => Aside
         /\ on_open(c) \/ PeerCloses(c) \/ on_close(c) => Aside
  <1> USE NextLabels DEF Aside, CreatesChat, dbVars, userVars, chatVars, Receives
  <1>1. Refuse(c) \/ Logout(c) => Aside
    BY DEF Refuse, Logout, setOnline, Idle
  <1>2. \A u \in User : Register(c, u) \/ Login(c, u) => Aside
    BY DEF Register, Login, registerClient, setOnline, Idle
  <1>3. \A e \in User : DeclineFriend(c, e) \/ RemoveFriend(c, e) => Aside
    BY DEF DeclineFriend, RemoveFriend, Idle
  <1>4. ASSUME NEW cid, NewMessage(c, cid) PROVE Aside
    <2>1. task.at = "idle" /\ (~Die => task'.at = "msg.echo" /\ newMessage(Caller(c), cid))
      BY <1>4 DEF NewMessage, Idle
    <2> QED BY <2>1, DieAside DEF newMessage
  <1>5. ASSUME on_open(c) \/ PeerCloses(c) \/ on_close(c) PROVE Aside
    <2>1. CASE on_open(c) \/ PeerCloses(c)
      BY <2>1 DEF on_open, PeerCloses
    <2>2. CASE on_close(c)
      <3>1. task.at = "idle" /\ (~Die => task'.at = "close.session" /\ setOnline(Caller(c), FALSE))
        BY <2>2 DEF on_close, Idle
      <3> QED BY <3>1, DieAside DEF setOnline
    <2> QED BY <1>5, <2>1, <2>2
  <1> QED BY <1>1, <1>2, <1>3, <1>4, <1>5

LEMMA AsideSteps ==
  ASSUME TInv
  PROVE  /\ SessionStep => Aside
         /\ MessageStep => Aside
         /\ AddFriendPush \/ AcceptPush \/ removeRequest \/ removeFriend => Aside
  <1> USE NextLabels, DieAside DEF Aside, CreatesChat, dbVars, userVars, chatVars
  <1>0. task \in Task
    BY DEF TInv, TypeOK, SessionsTypeOK
  <1>1. CloseSession \/ Return \/ LoginSession => Aside
    BY DEF CloseSession, Return, LoginSession, setSessionID, Idle
  <1>2. LogoutSession \/ LogoutEmail => Aside
    BY <1>0 DEF LogoutSession, LogoutEmail, setSessionID, Task
  <1>3. LoginLists \/ LoginChats \/ LogoutDone => Aside
    BY <1>0 DEF LoginLists, LoginChats, LogoutDone, Task
  <1>4. \A f \in User : LoginNotify(f) \/ LogoutNotify(f) => Aside
    BY <1>0 DEF LoginNotify, LogoutNotify, Task
  <1>5. MsgEcho => Aside
    <2>1. ASSUME MsgEcho, ~Die PROVE task'.at \in {"msg.direct", "msg.room", "return"}
      BY <1>0, <2>1 DEF MsgEcho, Task
    <2> QED BY <2>1 DEF MsgEcho
  <1>6. MsgDirect \/ MsgFlag \/ MsgRoomDone => Aside
    BY DEF MsgDirect, MsgFlag, MsgRoomDone, setMessageTransmitted
  <1>7. \A v \in User : MsgRoom(v) => Aside
    BY <1>0 DEF MsgRoom, Task
  <1>8. AddFriendPush \/ AcceptPush \/ removeRequest \/ removeFriend => Aside
    BY DEF AddFriendPush, AcceptPush, removeRequest, removeFriend
  <1> QED BY <1>1, <1>2, <1>3, <1>4, <1>5, <1>6, <1>7, <1>8 DEF SessionStep, MessageStep

\* Whoever is found by its session has a row.
LEMMA CallerRegistered ==
  ASSUME DatabaseTypeOK, NEW c PROVE Caller(c) = NoUser \/ Caller(c) \in registered
  <1> DEFINE holders == {u \in registered : sessionid[u] = Session(c)}
  <1>1. CASE \E u \in holders : holders = {u}
    <2>1. PICK u \in User : u \in registered /\ holders = {u}
      BY <1>1 DEF DatabaseTypeOK
    <2>2. holders = {CHOOSE v \in User : holders = {v}}
      BY <2>1
    <2> QED BY <1>1, <2>1, <2>2 DEF Caller, getUserIDFromSession
  <1>2. CASE ~ \E u \in holders : holders = {u}
    BY <1>2 DEF Caller, getUserIDFromSession
  <1> QED BY <1>1, <1>2

\* A request is recorded between two users, and is not accepted.
LEMMA AddFriendChats ==
  ASSUME ChatInv, NEW c \in Conn, NEW e \in User, AddFriend(c, e)
  PROVE  RowsNamed' /\ ChatSoFar' /\ ChatComes'
  <1>1. CASE Aside
    BY <1>1, AsideChats
  <1>2. CASE ~Aside
    <2> DEFINE row == [uid |-> Caller(c), fid |-> e, accepted |-> FALSE]
    <2>1. /\ friends' = friends \cup {row} /\ UNCHANGED <<chatlist, registered>>
          /\ task.at = "idle" /\ task'.at = "add.push"
          /\ Caller(c) # e /\ e \in registered /\ (SchemaKeys => Caller(c) # NoUser)
      <3>1. task.at = "idle"
        BY DEF AddFriend, Receives
      <3>2. ~Die /\ ~(Reply(c) /\ UNCHANGED dbVars)
        BY <1>2, <3>1, NextLabels, DieAside DEF ChatInv, CreatesChat, Aside, dbVars, userVars,
           chatVars
      <3> QED BY <3>2, <3>1 DEF AddFriend, Idle, insertFriendRequest, userVars, getUserID,
               mayRequest
    <2>2. Caller(c) = NoUser \/ Caller(c) \in registered
      BY CallerRegistered DEF ChatInv, TInv, TypeOK
    <2>3. RowsNamed'
      BY <2>1, <2>2 DEF ChatInv, RowsNamed
    <2>4. ChatSoFar' /\ ChatComes'
      BY <2>1 DEF ChatInv, ChatSoFar, ChatComes, CreatesChat, HaveChat, InChat
    <2> QED BY <2>3, <2>4
  <1> QED BY <1>1, <1>2

\* The rows that get accepted are those of the pair the handler is about.
LEMMA AcceptFriendChats ==
  ASSUME ChatInv, NEW c \in Conn, NEW e \in User, AcceptFriend(c, e)
  PROVE  RowsNamed' /\ ChatSoFar' /\ ChatComes'
  <1> DEFINE fid == getUserID(e)
             Accepted(r) ==
               IF SamePair(r, Caller(c), fid) THEN [r EXCEPT !.accepted = TRUE] ELSE r
  <1>1. /\ friends' = {Accepted(r) : r \in friends} /\ UNCHANGED <<chatlist, registered>>
        /\ task.at = "idle" /\ task'.at = "accept.chat"
        /\ task'.uid = Caller(c) /\ task'.fid = fid
    BY DEF AcceptFriend, acceptFriendRequest, Receives, Idle, userVars
  <1>2. \A r \in friends : /\ Accepted(r).uid = r.uid /\ Accepted(r).fid = r.fid
                           /\ Accepted(r) = r \/ SamePair(r, Caller(c), fid)
    BY DEF ChatInv, TInv, TypeOK, DatabaseTypeOK, FriendRow
  <1>3. RowsNamed'
    <2>1. ASSUME NEW r \in friends
          PROVE  LET q == Accepted(r) IN
                 q.uid # q.fid /\ (SchemaKeys => q.uid \in registered /\ q.fid \in registered)
      BY <1>2 DEF ChatInv, RowsNamed
    <2> HIDE DEF Accepted
    <2> QED BY <1>1, <2>1 DEF RowsNamed
  <1>4. ChatSoFar'
    BY <1>1 DEF ChatSoFar
  <1>5. ASSUME NEW q \in friends', q.accepted
        PROVE  HaveChat(q)' \/ (task'.at \in CreatesChat /\ SamePair(q, task'.uid, task'.fid))
    <2>1. PICK r \in friends : q = Accepted(r)
      BY <1>1
    <2>2. CASE SamePair(r, Caller(c), fid)
      BY <1>1, <1>2, <2>1, <2>2 DEF SamePair, CreatesChat
    <2>3. CASE q = r
      BY <1>1, <1>5, <2>3 DEF ChatInv, ChatComes, CreatesChat, HaveChat, InChat
    <2> QED BY <1>2, <2>1, <2>2, <2>3
  <1>6. ChatComes'
    BY <1>5 DEF ChatComes
  <1> QED BY <1>3, <1>4, <1>6

\* Members are only added, so whoever has a chat keeps it.
LEMMA ChatsKept ==
  ASSUME DatabaseTypeOK,
         \/ insertChat
         \/ \E u, i : insertChatlist(u, i)
  PROVE  \A r : HaveChat(r) => HaveChat(r)'
  <1> SUFFICES ASSUME NEW u, NEW cid \in DOMAIN chatlist, InChat(u, cid)
               PROVE  cid \in DOMAIN chatlist' /\ InChat(u, cid)'
    BY DEF HaveChat
  <1>1. chatlist \in Seq(Seq(AnyUser)) /\ chatlist[cid] \in Seq(AnyUser)
    BY ElementOfSeq DEF DatabaseTypeOK
  <1>2. PICK i \in DOMAIN chatlist[cid] : chatlist[cid][i] = u
    BY DEF InChat
  <1>3. CASE insertChat
    BY <1>1, <1>2, <1>3, AppendProperties DEF insertChat, InChat
  <1>4. CASE \E v, j : insertChatlist(v, j)
    <2>1. PICK v, j : insertChatlist(v, j)
      BY <1>4
    <2>2. chatlist' = [chatlist EXCEPT ![j] = Append(@, v)]
      BY <2>1 DEF insertChatlist
    <2>3. cid \in DOMAIN chatlist'
      BY <1>1, <2>2
    <2>4. CASE j = cid
      <3>1. chatlist'[cid] = Append(chatlist[cid], v)
        BY <1>1, <2>2, <2>4
      <3>2. /\ i \in DOMAIN Append(chatlist[cid], v)
            /\ Append(chatlist[cid], v)[i] = chatlist[cid][i]
        BY <1>1, <1>2
      <3> QED BY <1>2, <2>3, <3>1, <3>2 DEF InChat
    <2>5. CASE j # cid
      BY <1>1, <1>2, <2>2, <2>3, <2>5 DEF InChat
    <2> QED BY <2>4, <2>5
  <1> QED BY <1>3, <1>4

LEMMA AcceptChatChats == ASSUME ChatInv, AcceptChat PROVE RowsNamed' /\ ChatSoFar' /\ ChatComes'
  <1>1. /\ UNCHANGED <<friends, registered>> /\ insertChat
        /\ task.at = "accept.chat"
        /\ task' = [task EXCEPT !.at = "accept.self", !.cid = Len(chatlist) + 1]
    BY DEF AcceptChat, insertChat, userVars
  <1>2. task \in Task /\ DatabaseTypeOK /\ chatlist \in Seq(Seq(AnyUser))
    BY DEF ChatInv, TInv, TypeOK, SessionsTypeOK, DatabaseTypeOK
  <1>3. RowsNamed'
    BY <1>1 DEF ChatInv, RowsNamed
  <1>4. ChatSoFar'
    BY <1>1, <1>2, AppendProperties DEF ChatSoFar, insertChat, Task
  <1>5. ChatComes'
    BY <1>1, <1>2, ChatsKept DEF ChatInv, ChatComes, CreatesChat, Task, SamePair
  <1> QED BY <1>3, <1>4, <1>5

\* The two rows of a chat as createChat inserts them.
LEMMA AppendEmpty == \A x : Append(<<>>, x) = <<x>>
  OBVIOUS

LEMMA AppendTwo ==
  ASSUME NEW S, NEW t \in Seq(S), NEW y \in S, Len(t) = 1
  PROVE  LET s == Append(t, y)
         IN  1 \in DOMAIN s /\ 2 \in DOMAIN s /\ s[1] = t[1] /\ s[2] = y
  <1>1. Len(Append(t, y)) = 2 /\ Append(t, y) \in Seq(S)
    OBVIOUS
  <1>2. Append(t, y)[1] = t[1]
    OBVIOUS
  <1>3. Append(t, y)[2] = y
    BY AppendProperties
  <1> QED BY <1>1, <1>2, <1>3, LenProperties

\* A schema with keys refuses the row of somebody it does not know; but then no
\* row of friends was accepted.
LEMMA AcceptSelfChats == ASSUME ChatInv, AcceptSelf PROVE RowsNamed' /\ ChatSoFar' /\ ChatComes'
  <1>1. task.at = "accept.self" /\ UNCHANGED <<friends, registered>>
    BY DEF AcceptSelf, insertChatlist, userVars, Die, dbVars, chatVars
  <1>2. task \in Task /\ DatabaseTypeOK /\ chatlist \in Seq(Seq(AnyUser))
    BY DEF ChatInv, TInv, TypeOK, SessionsTypeOK, DatabaseTypeOK
  <1>3. RowsNamed'
    BY <1>1 DEF ChatInv, RowsNamed
  <1>4. CASE ~Die
    <2>1. insertChatlist(task.uid, task.cid) /\ task' = [task EXCEPT !.at = "accept.peer"]
      BY <1>4 DEF AcceptSelf, Goto
    <2>2. ChatSoFar'
      <3>1. task.cid \in DOMAIN chatlist /\ chatlist[task.cid] = <<>>
        BY <1>1 DEF ChatInv, ChatSoFar
      <3>2. /\ chatlist' = [chatlist EXCEPT ![task.cid] = <<task.uid>>]
            /\ task.cid \in DOMAIN chatlist'
        BY <3>1, <2>1, <1>2, AppendEmpty DEF insertChatlist
      <3>3. task'.at = "accept.peer" /\ task'.cid = task.cid /\ task'.uid = task.uid
        BY <1>2, <2>1 DEF Task
      <3> QED BY <3>1, <3>2, <3>3 DEF ChatSoFar
    <2>3. ChatComes'
      BY <1>1, <1>2, <2>1, ChatsKept DEF ChatInv, ChatComes, CreatesChat, Task, SamePair
    <2> QED BY <1>3, <2>2, <2>3
  <1>5. CASE Die
    <2>1. refusesChatlist(task.uid, task.cid) /\ task'.at = "idle" /\ UNCHANGED chatlist
      BY <1>5, <1>1, <1>2 DEF AcceptSelf, Die, Idle, dbVars, chatVars, Goto, Task
    <2>2. SchemaKeys /\ task.uid \notin registered
      BY <1>1, <2>1 DEF ChatInv, ChatSoFar, refusesChatlist, InChat
    <2>3. \A r \in friends : ~SamePair(r, task.uid, task.fid)
      BY <2>2 DEF ChatInv, RowsNamed, SamePair
    <2>4. ChatComes'
      BY <1>1, <2>1, <2>3 DEF ChatInv, ChatComes, HaveChat, InChat
    <2> QED BY <1>3, <2>1, <2>4 DEF ChatSoFar
  <1> QED BY <1>4, <1>5

\* With the second member's row the pair has its chat.
LEMMA AcceptPeerChats == ASSUME ChatInv, AcceptPeer PROVE RowsNamed' /\ ChatSoFar' /\ ChatComes'
  <1>1. task.at = "accept.peer" /\ UNCHANGED <<friends, registered>>
    BY DEF AcceptPeer, insertChatlist, userVars, Die, dbVars, chatVars
  <1>2. task \in Task /\ DatabaseTypeOK /\ chatlist \in Seq(Seq(AnyUser))
    BY DEF ChatInv, TInv, TypeOK, SessionsTypeOK, DatabaseTypeOK
  <1>3. RowsNamed'
    BY <1>1 DEF ChatInv, RowsNamed
  <1>4. task.cid \in DOMAIN chatlist /\ chatlist[task.cid] = <<task.uid>>
    BY <1>1 DEF ChatInv, ChatSoFar
  <1>5. CASE ~Die
    <2>1. insertChatlist(task.fid, task.cid) /\ task'.at = "accept.push"
      BY <1>2, <1>5 DEF AcceptPeer, Goto, Task
    <2>2. ChatSoFar'
      BY <2>1 DEF ChatSoFar
    <2>3. /\ chatlist'[task.cid] = Append(chatlist[task.cid], task.fid)
          /\ task.cid \in DOMAIN chatlist'
      BY <1>2, <1>4, <2>1 DEF insertChatlist
    <2>4. \A r : SamePair(r, task.uid, task.fid) => HaveChat(r)'
      <3> DEFINE cid == task.cid
                 rows == chatlist'[cid]
      <3>1. chatlist[cid] \in Seq(AnyUser) /\ Len(chatlist[cid]) = 1 /\ task.fid \in AnyUser
        BY <1>2, <1>4 DEF Task
      <3>2. 1 \in DOMAIN rows /\ 2 \in DOMAIN rows /\ rows[1] = task.uid /\ rows[2] = task.fid
        BY <1>4, <2>3, <3>1, AppendTwo
      <3> QED BY <2>3, <3>2 DEF SamePair, HaveChat, InChat
    <2>5. ChatComes'
      BY <1>1, <1>2, <2>1, <2>4, ChatsKept DEF ChatInv, ChatComes
    <2> QED BY <1>3, <2>2, <2>5
  <1>6. CASE Die
    <2>1. refusesChatlist(task.fid, task.cid) /\ task'.at = "idle" /\ UNCHANGED chatlist
      BY <1>6, <1>1, <1>2 DEF AcceptPeer, Die, Idle, dbVars, chatVars, Goto, Task
    <2>2. SchemaKeys /\ (task.fid \notin registered \/ task.fid = task.uid)
      BY <1>4, <2>1 DEF refusesChatlist, InChat
    <2>3. \A r \in friends : ~SamePair(r, task.uid, task.fid)
      BY <2>2 DEF ChatInv, RowsNamed, SamePair
    <2>4. ChatComes'
      BY <1>1, <2>1, <2>3 DEF ChatInv, ChatComes, HaveChat, InChat
    <2> QED BY <1>3, <2>1, <2>4 DEF ChatSoFar
  <1> QED BY <1>5, <1>6

LEMMA NextChats ==
  ASSUME "kill" \notin Faults, "db" \notin Faults
  PROVE  ChatInv /\ [Next]_vars => ChatInv'
  <1> SUFFICES ASSUME ChatInv, [Next]_vars PROVE RowsNamed' /\ ChatSoFar' /\ ChatComes'
    BY NextTypes DEF ChatInv
  <1> USE AsideChats DEF ChatInv
  <1>1. CASE UNCHANGED vars
    BY <1>1 DEF vars, dbVars, userVars, chatVars, RowsNamed, ChatSoFar, ChatComes, HaveChat, InChat
  <1>2. ASSUME NEW c \in Conn, Request(c) \/ on_open(c) \/ PeerCloses(c) \/ on_close(c)
        PROVE  RowsNamed' /\ ChatSoFar' /\ ChatComes'
    BY <1>2, AsideRequests, AddFriendChats, AcceptFriendChats DEF Request
  <1>3. CASE Start \/ Kill \/ DbFault
    <2>1. Aside
      BY <1>3 DEF Start, resetPresence, Kill, DbFault, Die, Aside, CreatesChat, Idle,
         dbVars, userVars, chatVars
    <2> QED BY <2>1
  <1>4. CASE HandlerStep
    BY <1>4, AsideSteps, AcceptChatChats, AcceptSelfChats, AcceptPeerChats
    DEF HandlerStep, FriendStep
  <1> QED BY <1>1, <1>2, <1>3, <1>4 DEF Next

LEMMA InitChats == Init => ChatInv
  BY InitTypes DEF Init, SessionsInit, DatabaseInit, Idle, ChatInv, RowsNamed, ChatSoFar,
     ChatComes

\* Befriended users have a chat together whenever acceptFriend is not just about
\* to give them one, with any schema and any number of requests, crossed, repeated
\* or of clients without an account; only a process that dies within the handler
\* leaves friends without a chat.
THEOREM FriendsHaveChat ==
  ASSUME "kill" \notin Faults, "db" \notin Faults
  PROVE  Spec => []AcceptedHaveChat
  <1>1. ChatInv => AcceptedHaveChat
    BY DEF ChatInv, ChatComes, AcceptedHaveChat, CreatesChat, HaveChat
  <1> QED BY <1>1, InitChats, NextChats, PTL DEF Spec
=============================================================================
