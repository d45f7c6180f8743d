---------------------------- MODULE SystemProofs ----------------------------
(***************************************************************************)
(* The server with its web clients does what the server alone may do, and  *)
(* what pages hold and show.  Induction over the naturals and over lists   *)
(* of messages is by sets of naturals (NatSteps), as no operator is given  *)
(* to a theorem.                                                           *)
(***************************************************************************)
EXTENDS System, DeliveryProofs, FiniteSetTheorems, WellFoundedInduction

-----------------------------------------------------------------------------
(* Naturals and the two ways of listing rows.                               *)

LEMMA NatLeast ==
  ASSUME NEW S, S \subseteq Nat, S # {} PROVE \E x \in S : \A y \in S : x <= y
  <1> DEFINE R == OpToRel(<, Nat)
  <1>1. IsWellFoundedOn(R, Nat)
    BY NatLessThanWellFounded
  <1> HIDE DEF R
  <1>2. PICK x \in S : \A y \in S : <<y, x>> \notin R
    BY <1>1, WFMin
  <1>3. ASSUME NEW y \in S PROVE x <= y
    <2>1. x \in Nat /\ y \in Nat
      OBVIOUS
    <2>2. y < x => <<y, x>> \in R
      BY <2>1 DEF R, OpToRel
    <2> QED BY <1>2, <2>1, <2>2
  <1> QED BY <1>2, <1>3

LEMMA NatSteps ==
  ASSUME NEW S, 0 \in S, \A n \in Nat : n \in S => n + 1 \in S PROVE Nat \subseteq S
  <1> SUFFICES ASSUME Nat \ S # {} PROVE FALSE
    OBVIOUS
  <1>1. PICK x \in Nat \ S : \A y \in Nat \ S : x <= y
    BY NatLeast
  <1>2. x # 0 /\ x - 1 \in Nat /\ (x - 1) + 1 = x
    BY <1>1
  <1>3. x - 1 \in Nat \ S
    BY <1>2
  <1> QED BY <1>1, <1>2, <1>3

\* Rows lists every element,
LEMMA RowsList ==
  ASSUME NEW S, IsFiniteSet(S)
  PROVE  /\ Rows(S) \in Seq(S)
         /\ \A x \in S : \E i \in DOMAIN Rows(S) : Rows(S)[i] = x
  <1> DEFINE n == Cardinality(S)
  <1>1. n \in Nat /\ ExistsBijection(1..n, S)
    BY FS_CardinalityType
  <1>2. \E s \in [1..n -> S] : \A x \in S : \E i \in DOMAIN s : s[i] = x
    BY <1>1 DEF ExistsBijection, Bijection, Surjection
  <1> HIDE DEF n
  <1>3. /\ Rows(S) \in [1..n -> S]
        /\ \A x \in S : \E i \in DOMAIN Rows(S) : Rows(S)[i] = x
    BY <1>2 DEF Rows, n
  <1> QED BY <1>1, <1>3

Ascending(s) == \A i, j \in DOMAIN s : i < j => s[i] < s[j]

\* and a finite set of naturals can be put in order.
LEMMA OrderExists ==
  ASSUME NEW S, S \subseteq Nat, IsFiniteSet(S)
  PROVE  \E s \in [1..Cardinality(S) -> S] : Ascending(s)
  <1> DEFINE Orderly(T) == \E s \in [1..Cardinality(T) -> T] : Ascending(s)
             Fine == {n \in Nat : \A T \in SUBSET Nat :
                        IsFiniteSet(T) /\ Cardinality(T) = n => Orderly(T)}
  <1>1. 0 \in Fine
    <2> SUFFICES ASSUME NEW T \in SUBSET Nat, IsFiniteSet(T), Cardinality(T) = 0
                 PROVE  Orderly(T)
      OBVIOUS
    <2>1. 1..0 = {}
      OBVIOUS
    <2>2. <<>> \in [1..0 -> T] /\ Ascending(<<>>)
      BY <2>1 DEF Ascending
    <2> QED BY <2>2
  <1>2. ASSUME NEW n \in Nat, n \in Fine PROVE n + 1 \in Fine
    <2> SUFFICES ASSUME NEW T \in SUBSET Nat, IsFiniteSet(T), Cardinality(T) = n + 1
                 PROVE  Orderly(T)
      OBVIOUS
    <2>1. PICK x \in T : \A y \in T : x <= y
      <3>1. T # {}
        BY FS_EmptySet
      <3> QED BY <3>1, NatLeast
    <2> DEFINE U == T \ {x}
    <2>2. IsFiniteSet(U) /\ Cardinality(U) = n
      <3>1. IsFiniteSet(U) /\ Cardinality(U) = IF x \in T THEN Cardinality(T) - 1
                                              ELSE Cardinality(T)
        BY FS_RemoveElement
      <3> HIDE DEF U
      <3>2. Cardinality(U) = (n + 1) - 1
        BY <3>1
      <3> QED BY <3>1, <3>2
    <2>3. PICK s \in [1..n -> U] : Ascending(s)
      <3>1. U \in SUBSET Nat
        OBVIOUS
      <3> HIDE DEF U
      <3>2. Orderly(U)
        BY <1>2, <2>2, <3>1
      <3> QED BY <2>2, <3>2
    <2> DEFINE t == [i \in 1..(n + 1) |-> IF i = 1 THEN x ELSE s[i - 1]]
    <2>4. \A i \in 1..(n + 1) : i # 1 => i - 1 \in 1..n /\ s[i - 1] \in U
      BY <2>3
    <2>5. t \in [1..(n + 1) -> T]
      BY <2>4
    <2>6. ASSUME NEW i \in 1..(n + 1), NEW j \in 1..(n + 1), i < j PROVE t[i] < t[j]
      <3>1. j # 1 /\ t[j] = s[j - 1] /\ s[j - 1] \in U
        BY <2>4, <2>6
      <3>2. CASE i = 1
        <4>1. t[i] = x
          BY <3>2
        <4>2. x \in Nat /\ t[j] \in Nat /\ t[j] \in T /\ t[j] # x
          BY <3>1
        <4> HIDE DEF t
        <4> QED BY <2>1, <4>1, <4>2
      <3>3. CASE i # 1
        <4>1. t[i] = s[i - 1]
          BY <3>3
        <4>2. i - 1 \in DOMAIN s /\ j - 1 \in DOMAIN s /\ i - 1 < j - 1
          BY <2>3, <2>4, <2>6, <3>1, <3>3
        <4> HIDE DEF t
        <4> QED BY <2>3, <3>1, <4>1, <4>2 DEF Ascending
      <3> QED BY <3>2, <3>3
    <2> HIDE DEF t
    <2> QED BY <2>5, <2>6 DEF Ascending
  <1>3. Cardinality(S) \in Nat
    BY FS_CardinalityType
  <1>4. Nat \subseteq Fine
    <2> HIDE DEF Fine
    <2> QED BY <1>1, <1>2, NatSteps
  <1>5. Cardinality(S) \in Fine
    <2> HIDE DEF Fine
    <2> QED BY <1>3, <1>4
  <1>6. Orderly(S)
    BY <1>5
  <1> QED BY <1>6

LEMMA OrderedList ==
  ASSUME NEW S, S \subseteq Nat, IsFiniteSet(S)
  PROVE  /\ Ordered(S) \in [1..Cardinality(S) -> S]
         /\ Ordered(S) \in Seq(S)
         /\ Ascending(Ordered(S))
  <1>1. \E s \in [1..Cardinality(S) -> S] : \A i, j \in DOMAIN s : i < j => s[i] < s[j]
    BY OrderExists DEF Ascending
  <1>2. /\ Ordered(S) \in [1..Cardinality(S) -> S]
        /\ \A i, j \in DOMAIN Ordered(S) : i < j => Ordered(S)[i] < Ordered(S)[j]
    BY <1>1 DEF Ordered
  <1>3. Cardinality(S) \in Nat
    BY FS_CardinalityType
  <1> QED BY <1>2, <1>3 DEF Ascending

-----------------------------------------------------------------------------
(* What the handlers' locals name, as far as messages are made of them.     *)

ByUser  == {"login.session", "login.lists", "login.notify", "logout.notify", "add.push",
            "accept.peer", "accept.push"}
InChats == {"accept.self", "accept.peer", "accept.push"}

Named ==
  /\ IsFiniteSet(registered)
  /\ Len(chatlist) <= MaxChats
  /\ task.at = "accept.chat" => Len(chatlist) < MaxChats
  /\ task.at \in ByUser => task.uid \in User
  /\ task.at \in {"add.push", "accept.push"} => task.fid \in User
  /\ task.at \in InChats => task.cid \in 1..MaxChats

\* A step that inserts no user and no chat, and begins nothing of the above.
Unnamed ==
  /\ UNCHANGED <<registered, chatlist>>
  /\ task'.at \notin ByUser \cup InChats \cup {"accept.chat"}

LEMMA UnnamedKeeps == Named /\ Unnamed => Named'
  BY DEF Named, Unnamed, ByUser, InChats

LEMMA UnnamedRequests ==
  ASSUME TInv, NEW c \in Conn
  PROVE  /\ Refuse(c) \/ Logout(c) => Unnamed
         /\ \A e \in User : DeclineFriend(c, e) \/ RemoveFriend(c, e) => Unnamed
         /\ \A cid : NewMessage(c, cid) => Unnamed
         /\ on_close(c) => Unnamed
  <1> USE NextLabels DEF Unnamed, ByUser, InChats, dbVars, userVars, chatVars
  <1>1. Refuse(c) \/ Logout(c) => Unnamed
    BY DEF Refuse, Logout, setOnline, Idle
  <1>2. \A e \in User : DeclineFriend(c, e) \/ RemoveFriend(c, e) => Unnamed
    BY DEF DeclineFriend, RemoveFriend, Idle
  <1>0. Die => Unnamed
    BY DEF Die, Idle
  <1>3. ASSUME NEW cid, NewMessage(c, cid) PROVE Unnamed
    <2>1. ~Die => task'.at = "msg.echo" /\ newMessage(Caller(c), cid)
      BY <1>3 DEF NewMessage, Idle
    <2> QED BY <1>0, <2>1 DEF newMessage
  <1>4. on_close(c) => Unnamed
    <2>1. on_close(c) /\ ~Die => task'.at = "close.session" /\ setOnline(Caller(c), FALSE)
      BY DEF on_close, Idle
    <2> QED BY <1>0, <2>1 DEF setOnline
  <1> QED BY <1>1, <1>2, <1>3, <1>4

LEMMA UnnamedSteps ==
  ASSUME TInv
  PROVE  /\ Start \/ Kill \/ DbFault => Unnamed \/ UNCHANGED <<registered, chatlist, task>>
         /\ CloseSession \/ Return \/ LoginChats \/ LogoutSession \/ LogoutDone => Unnamed
         /\ MessageStep => Unnamed
         /\ AddFriendPush \/ AcceptPush \/ removeRequest \/ removeFriend => Unnamed
  <1> USE NextLabels DEF Unnamed, ByUser, InChats, dbVars, userVars, chatVars
  <1>0. task \in Task
    BY DEF TInv, TypeOK, SessionsTypeOK
  <1>1. Die => Unnamed
    BY DEF Die, Idle
  <1>2. Start \/ Kill \/ DbFault => Unnamed \/ UNCHANGED <<registered, chatlist, task>>
    BY <1>1 DEF Start, resetPresence, Kill, DbFault
  <1>3. CloseSession \/ Return \/ LoginChats \/ LogoutSession \/ LogoutDone => Unnamed
    <2>1. CloseSession \/ Return => Unnamed
      BY DEF CloseSession, Return, setSessionID, Idle
    <2>2. LoginChats \/ LogoutDone => Unnamed
      BY DEF LoginChats, LogoutDone
    <2>3. LogoutSession => Unnamed
      BY <1>0 DEF LogoutSession, setSessionID, Task
    <2> QED BY <2>1, <2>2, <2>3
  <1>4. MessageStep => Unnamed
    <2>1. MsgEcho => Unnamed
      <3>1. ASSUME MsgEcho, ~Die PROVE task'.at \in {"msg.direct", "msg.room", "return"}
        BY <1>0, <3>1 DEF MsgEcho, Task
      <3> QED BY <1>1, <3>1 DEF MsgEcho
    <2>2. MsgDirect \/ MsgFlag \/ MsgRoomDone => Unnamed
      BY <1>1 DEF MsgDirect, MsgFlag, MsgRoomDone, setMessageTransmitted
    <2>3. \A v \in User : MsgRoom(v) => Unnamed
      BY <1>0, <1>1 DEF MsgRoom, Task
    <2> QED BY <2>1, <2>2, <2>3 DEF MessageStep
  <1>5. AddFriendPush \/ AcceptPush \/ removeRequest \/ removeFriend => Unnamed
    BY <1>1 DEF AddFriendPush, AcceptPush, removeRequest, removeFriend
  <1> QED BY <1>2, <1>3, <1>4, <1>5

\* The steps that go on with what they have.
LEMMA GoOnNamed ==
  ASSUME TInv, Named
  PROVE  /\ LoginSession \/ LoginLists \/ LogoutEmail => Named'
         /\ \A f \in User : LoginNotify(f) \/ LogoutNotify(f) => Named'
         /\ \A c \in Conn : on_open(c) \/ PeerCloses(c) => Named'
         /\ \A c \in Conn, u \in User : Register(c, u) \/ Login(c, u) => Named'
         /\ \A c \in Conn, e \in User : AddFriend(c, e) \/ AcceptFriend(c, e) => Named'
  <1>0. task \in Task /\ \A s : getUserIDFromSession(s) \in AnyUser
    BY CallerType DEF TInv, TypeOK, SessionsTypeOK
  <1>d. Die => Named'
    BY UnnamedKeeps DEF Die, Idle, Unnamed, ByUser, InChats, dbVars, userVars, chatVars
  <1> USE DEF dbVars, userVars, chatVars, ByUser, InChats
  <1>1. LoginSession => Named'
    BY <1>0 DEF LoginSession, setSessionID, Goto, Task, Named
  <1>2. LoginLists => Named'
    BY <1>0 DEF LoginLists, Reply, Idle, Task, Named
  <1>3. LogoutEmail => Named'
    <2>1. CASE LogoutEmail /\ ~Die
      <3>1. task.uid \in User /\ UNCHANGED dbVars
        BY <1>0, <2>1 DEF LogoutEmail, Task, AnyUser
      <3>2. task'.at = "logout.notify" /\ task'.uid = task.uid
        BY <1>0, <2>1 DEF LogoutEmail, Task
      <3> QED BY <3>1, <3>2 DEF Named
    <2> QED BY <1>d, <2>1
  <1>4. ASSUME NEW f \in User, LoginNotify(f) \/ LogoutNotify(f) PROVE Named'
    <2>1. CASE ~Die
      <3>1. UNCHANGED dbVars
        BY <1>4, <2>1 DEF LoginNotify, LogoutNotify
      <3>2. task'.at = "return" \/ (task'.at = task.at /\ task'.uid = task.uid)
        BY <1>0, <1>4, <2>1 DEF LoginNotify, LogoutNotify, Reply, Idle, Task
      <3>3. task.at \in {"login.notify", "logout.notify"}
        BY <1>4 DEF LoginNotify, LogoutNotify
      <3> QED BY <3>1, <3>2, <3>3 DEF Named
    <2> QED BY <1>d, <2>1
  <1>5. \A c \in Conn : on_open(c) \/ PeerCloses(c) => Named'
    BY DEF on_open, PeerCloses, Named
  <1>6. ASSUME NEW c \in Conn, NEW u \in User, Register(c, u) PROVE Named'
    <2>1. IsFiniteSet(registered')
      BY <1>6, FS_AddElement DEF Named, Register, registerClient
    <2> QED BY <1>6, <2>1 DEF Named, Register, registerClient, Reply, Idle
  <1>7. \A c \in Conn, u \in User : Login(c, u) => Named'
    BY DEF Login, setOnline, Idle, Named
  <1>8. ASSUME NEW c \in Conn, NEW e \in User, AddFriend(c, e) PROVE Named'
    <2>1. CASE ~Die
      <3>1. UNCHANGED <<registered, chatlist>>
        BY <1>8, <2>1 DEF AddFriend, insertFriendRequest
      <3>2. \/ task'.at = "return"
            \/ task'.at = "add.push" /\ task'.uid = Caller(c) /\ task'.fid = e
               /\ (SchemaKeys => Caller(c) # NoUser)
        BY <1>8, <2>1 DEF AddFriend, Reply, Idle
      <3>3. Caller(c) # NoUser => Caller(c) \in User
        BY <1>0 DEF Caller, AnyUser
      <3> QED BY <3>1, <3>2, <3>3, SystemAssumption DEF Named
    <2> QED BY <1>d, <2>1
  <1>9. ASSUME NEW c \in Conn, NEW e \in User, AcceptFriend(c, e) PROVE Named'
    BY <1>9 DEF AcceptFriend, acceptFriendRequest, Idle, Named
  <1> QED BY <1>1, <1>2, <1>3, <1>4, <1>5, <1>6, <1>7, <1>8, <1>9

\* createChat: the schema refuses members without a row.
LEMMA CreateNamed ==
  ASSUME TInv, Named
  PROVE  AcceptChat \/ AcceptSelf \/ AcceptPeer => Named'
  <1>0. /\ task \in Task /\ registered \subseteq User
        /\ chatlist \in Seq(Seq(AnyUser)) /\ Len(chatlist) \in Nat /\ MaxChats \in Nat
    BY DatabaseAssumption DEF TInv, TypeOK, SessionsTypeOK, DatabaseTypeOK
  <1>d. Die => Named'
    BY UnnamedKeeps DEF Die, Idle, Unnamed, ByUser, InChats, dbVars, userVars, chatVars
  <1> USE DEF dbVars, userVars, chatVars, ByUser, InChats
  <1>1. ASSUME AcceptChat PROVE Named'
    <2>1. chatlist' = Append(chatlist, <<>>) /\ UNCHANGED registered
      BY <1>1 DEF AcceptChat, insertChat
    <2>2. Len(chatlist') = Len(chatlist) + 1
      BY <1>0, <2>1, AppendProperties
    <2>3. task'.at = "accept.self" /\ task'.cid = Len(chatlist) + 1
      BY <1>0, <1>1 DEF AcceptChat, Task
    <2>4. Len(chatlist) < MaxChats
      BY <1>1 DEF AcceptChat, Named
    <2> QED BY <1>0, <2>1, <2>2, <2>3, <2>4 DEF Named
  <1>2. ASSUME NEW u, insertChatlist(u, task.cid)
        PROVE  Len(chatlist') = Len(chatlist) /\ UNCHANGED registered
    <2>1. chatlist' = [chatlist EXCEPT ![task.cid] = Append(chatlist[task.cid], u)]
      BY <1>2 DEF insertChatlist
    <2>2. DOMAIN chatlist' = DOMAIN chatlist
      BY <2>1
    <2> QED BY <1>0, <1>2, <2>1, <2>2 DEF insertChatlist
  <1>3. ASSUME AcceptSelf, ~Die PROVE Named'
    <2>1. ~refusesChatlist(task.uid, task.cid) /\ insertChatlist(task.uid, task.cid)
          /\ Goto("accept.peer")
      BY <1>3 DEF AcceptSelf
    <2>2. task.uid \in User
      BY <1>0, <2>1, SystemAssumption DEF refusesChatlist
    <2>3. task'.at = "accept.peer" /\ task'.uid = task.uid /\ task'.cid = task.cid
      BY <1>0, <2>1 DEF Goto, Task
    <2> QED BY <1>2, <1>3, <2>1, <2>2, <2>3 DEF Named, AcceptSelf
  <1>4. ASSUME AcceptPeer, ~Die PROVE Named'
    <2>1. ~refusesChatlist(task.fid, task.cid) /\ insertChatlist(task.fid, task.cid)
          /\ Goto("accept.push")
      BY <1>4 DEF AcceptPeer
    <2>2. task.fid \in User
      BY <1>0, <2>1, SystemAssumption DEF refusesChatlist
    <2>3. /\ task'.at = "accept.push"
          /\ task'.uid = task.uid /\ task'.fid = task.fid /\ task'.cid = task.cid
      BY <1>0, <2>1 DEF Goto, Task
    <2> QED BY <1>2, <1>4, <2>1, <2>2, <2>3 DEF Named, AcceptPeer
  <1> QED BY <1>d, <1>1, <1>3, <1>4

LEMMA NextNamed == TInv /\ Named /\ [Next]_vars => Named'
  <1> SUFFICES ASSUME TInv, Named, [Next]_vars PROVE Named'
    OBVIOUS
  <1> USE UnnamedKeeps
  <1>1. CASE UNCHANGED vars
    BY <1>1 DEF vars, dbVars, userVars, chatVars, Named
  <1>2. ASSUME NEW c \in Conn, Request(c) PROVE Named'
    BY <1>2, UnnamedRequests, GoOnNamed DEF Request
  <1>3. ASSUME NEW c \in Conn, on_open(c) \/ PeerCloses(c) \/ on_close(c) PROVE Named'
    BY <1>3, UnnamedRequests, GoOnNamed
  <1>4. CASE Start \/ Kill \/ DbFault
    BY <1>4, UnnamedSteps DEF Named
  <1>5. CASE SessionStep
    BY <1>5, UnnamedSteps, GoOnNamed DEF SessionStep
  <1>6. CASE FriendStep
    BY <1>6, UnnamedSteps, CreateNamed DEF FriendStep
  <1>7. CASE MessageStep
    BY <1>7, UnnamedSteps
  <1> QED BY <1>1, <1>2, <1>3, <1>4, <1>5, <1>6, <1>7 DEF Next, HandlerStep

-----------------------------------------------------------------------------
(* What is on the wires, and that pages can process it.                     *)

FriendEntry == [email : User, online : BOOLEAN]
ChatEntry   == [id : 1..MaxChats, messages : Seq(Nat)]

Msg ==
  [kind : {"registration", "login", "loginFailed", "logout", "addFriend", "failed", "error"}]
  \cup [kind : {"acceptFriend"}, friendMail : User]
  \cup [kind : {"searchUser"}, values : SUBSET User]
  \cup [kind : {"friendRequest"}, values : Seq(User)]
  \cup [kind : {"friendlist", "newFriendListUser"}, values : Seq(FriendEntry)]
  \cup [kind : {"chatlist", "newchat"}, values : Seq(ChatEntry)]
  \cup [kind : {"newMessage"}, id : Nat, messageTo : Nat]
  \cup [kind : {"notifyOnline"}, email : User, online : BOOLEAN]

\* All but word of somebody who has gone offline.
Glad == {m \in Msg : m.kind = "notifyOnline" => m.online}

\* What neither answers a login nor tells of chats or messages.
Dull == {m \in Glad : m.kind \notin {"login", "loginFailed", "chatlist", "newchat", "newMessage"}}

Ask ==
  [request : {"registration", "login", "addFriend"}, email : User]
  \cup [request : {"logout", "searchUser"}]
  \cup [request : {"acceptFriend"}, email : User, answer : BOOLEAN]
  \cup [request : {"newMessage"}, cid : 1..MaxChats]

\* A tab whose chats are chats of the server.
Page == {t \in Tab : t.chats \in Seq(ChatEntry)}

LEMMA ChatEntries == Seq(ChatEntry) \subseteq Seq([id : Nat, messages : Seq(Nat)])
  <1>1. MaxChats \in Nat
    BY DatabaseAssumption
  <1>2. ChatEntry \subseteq [id : Nat, messages : Seq(Nat)]
    BY <1>1 DEF ChatEntry
  <1> QED BY <1>2, SeqMonotonic

LEMMA NoPage == NoTab \in Page
  <1>1. NoTab \in Tab
    BY DEF NoTab, Tab
  <1>2. NoTab.chats \in Seq(ChatEntry)
    BY EmptySeq DEF NoTab
  <1> QED BY <1>1, <1>2 DEF Page

LEMMA MessageAdded ==
  ASSUME NEW t \in Page, NEW m, m.id \in Nat PROVE addMessageToChat(t, m) \in Page
  <1> DEFINE row(i) ==
               IF t.chats[i].id = m.messageTo /\ \A j \in 1..(i - 1) : t.chats[j].id # m.messageTo
               THEN [t.chats[i] EXCEPT !.messages = Append(@, m.id)]
               ELSE t.chats[i]
             rows == [i \in DOMAIN t.chats |-> row(i)]
  <1>1. t.chats \in Seq(ChatEntry) /\ t \in Tab
    BY DEF Page
  <1>2. ASSUME NEW i \in DOMAIN t.chats PROVE row(i) \in ChatEntry
    <2>1. t.chats[i] \in ChatEntry
      BY <1>1, <1>2, ElementOfSeq
    <2>2. t.chats[i].messages \in Seq(Nat)
      BY <2>1 DEF ChatEntry
    <2>3. Append(t.chats[i].messages, m.id) \in Seq(Nat)
      BY <2>2, AppendProperties
    <2> QED BY <2>1, <2>3 DEF ChatEntry
  <1> HIDE DEF row
  <1>3. rows \in [1..Len(t.chats) -> ChatEntry]
    BY <1>1, <1>2
  <1>4. rows \in Seq(ChatEntry)
    <2> HIDE DEF rows
    <2> QED BY <1>1, <1>3
  <1>5. addMessageToChat(t, m) = [t EXCEPT !.chats = rows]
    BY DEF addMessageToChat, row
  <1> HIDE DEF rows
  <1>6. rows \in Seq([id : Nat, messages : Seq(Nat)])
    BY <1>4, ChatEntries
  <1> QED BY <1>1, <1>4, <1>5, <1>6 DEF Page, Tab

LEMMA FriendNotified ==
  ASSUME NEW t \in Page, NEW m, m.online \in BOOLEAN PROVE notifyOnline(t, m) \in Page
  <1> DEFINE row(i) == IF t.friends[i].email = m.email
                       THEN [t.friends[i] EXCEPT !.online = m.online] ELSE t.friends[i]
             rows == [i \in DOMAIN t.friends |-> row(i)]
  <1>1. t.friends \in Seq(FriendEntry) /\ t \in Tab
    BY DEF Page, Tab, FriendEntry
  <1>2. ASSUME NEW i \in DOMAIN t.friends PROVE row(i) \in FriendEntry
    <2>1. t.friends[i] \in FriendEntry
      BY <1>1, <1>2, ElementOfSeq
    <2> QED BY <2>1 DEF FriendEntry
  <1> HIDE DEF row
  <1>3. rows \in [1..Len(t.friends) -> FriendEntry]
    BY <1>1, <1>2
  <1>4. rows \in Seq(FriendEntry)
    <2> HIDE DEF rows
    <2> QED BY <1>1, <1>3
  <1>5. notifyOnline(t, m) = [t EXCEPT !.friends = rows]
    BY DEF notifyOnline, row
  <1> HIDE DEF rows
  <1> QED BY <1>1, <1>4, <1>5 DEF Page, Tab, FriendEntry

\* Processing a message leaves a page well typed.
LEMMA Processed ==
  ASSUME NEW t \in Page, NEW m \in Msg PROVE processMessage(t, m) \in Page
  <1>0. t \in Tab /\ t.chats \in Seq(ChatEntry)
    BY DEF Page
  <1>1. CASE m.kind = "newMessage"
    <2>1. m.id \in Nat
      BY <1>1 DEF Msg
    <2> QED BY <1>1, <2>1, MessageAdded DEF processMessage
  <1>2. CASE m.kind = "notifyOnline"
    <2>1. m.online \in BOOLEAN
      BY <1>2 DEF Msg
    <2> QED BY <1>2, <2>1, FriendNotified DEF processMessage
  <1>3. CASE m.kind = "friendRequest"
    <2>1. m.values \in Seq(User) /\ t.requests \in Seq(User)
      BY <1>0, <1>3 DEF Msg, Tab
    <2>2. t.requests \o m.values \in Seq(User)
      BY <2>1, ConcatProperties
    <2>3. processMessage(t, m) = [t EXCEPT !.requests = t.requests \o m.values]
      BY <1>3 DEF processMessage
    <2> QED BY <1>0, <2>2, <2>3 DEF Page, Tab
  <1>4. CASE m.kind \in {"friendlist", "newFriendListUser"}
    <2>1. m.values \in Seq(FriendEntry) /\ t.friends \in Seq(FriendEntry)
      BY <1>0, <1>4 DEF Msg, Tab, FriendEntry
    <2>2. t.friends \o m.values \in Seq(FriendEntry)
      BY <2>1, ConcatProperties
    <2>3. processMessage(t, m) = [t EXCEPT !.friends = t.friends \o m.values]
      BY <1>4 DEF processMessage
    <2> QED BY <1>0, <2>2, <2>3 DEF Page, Tab, FriendEntry
  <1>5. CASE m.kind \in {"chatlist", "newchat"}
    <2>1. m.values \in Seq(ChatEntry)
      BY <1>5 DEF Msg
    <2>2. t.chats \o m.values \in Seq(ChatEntry)
      BY <1>0, <2>1, ConcatProperties
    <2>3. processMessage(t, m) = [t EXCEPT !.chats = t.chats \o m.values]
      BY <1>5 DEF processMessage
    <2>4. t.chats \o m.values \in Seq([id : Nat, messages : Seq(Nat)])
      BY <2>2, ChatEntries
    <2> QED BY <1>0, <2>2, <2>3, <2>4 DEF Page, Tab
  <1>6. CASE m.kind = "searchUser"
    <2>1. m.values \subseteq User
      BY <1>6 DEF Msg
    <2>2. processMessage(t, m) = [t EXCEPT !.users = m.values]
      BY <1>6 DEF processMessage
    <2> QED BY <1>0, <2>1, <2>2 DEF Page, Tab
  <1>7. CASE m.kind = "login"
    <2> DEFINE p == [t EXCEPT !.page = "intern"]
               q == [p EXCEPT !.waiting = FALSE]
    <2>1. p \in Page
      BY <1>0 DEF Page, Tab
    <2>2. q \in Page
      <3> HIDE DEF p
      <3> QED BY <2>1 DEF Page, Tab
    <2>3. processMessage(t, m) = [q EXCEPT !.requestsShown = TRUE]
      BY <1>7 DEF processMessage
    <2> HIDE DEF q
    <2> QED BY <2>2, <2>3 DEF Page, Tab
  <1>8. CASE m.kind \in {"loginFailed", "addFriend", "acceptFriend"}
    BY <1>0, <1>8 DEF processMessage, deleteRequest, Page, Tab
  <1>9. CASE m.kind = "logout"
    BY <1>9, NoPage DEF processMessage
  <1>10. CASE m.kind \in {"registration", "failed", "error"}
    BY <1>10 DEF processMessage
  <1>11. m.kind \in {"registration", "login", "loginFailed", "logout", "addFriend", "failed",
                     "error", "acceptFriend", "searchUser", "friendRequest", "friendlist",
                     "newFriendListUser", "chatlist", "newchat", "newMessage", "notifyOnline"}
    BY DEF Msg
  <1> QED BY <1>1, <1>2, <1>3, <1>4, <1>5, <1>6, <1>7, <1>8, <1>9, <1>10, <1>11

-----------------------------------------------------------------------------
(* The invariant of pages, wires and requests.                              *)

PagesInv ==
  /\ tab \in [Conn -> Page]
  /\ wire \in [Conn -> Seq(Msg)]
  /\ outbox \in [Conn -> Seq(Ask)]
  /\ \A c \in Conn : wire[c] # <<>> => tab[c].page \in {"login", "intern"}

SysInv == TInv /\ Named /\ PagesInv

LEMMA STypes ==
  ASSUME SysInv
  PROVE  /\ registered \subseteq User /\ IsFiniteSet(registered)
         /\ online \in [User -> BOOLEAN] /\ sessionid \in [User -> Int]
         /\ chatlist \in Seq(Seq(AnyUser)) /\ messages \in Seq(MessageRow)
         /\ task \in Task /\ (task.at # "idle" => task.hdl \in Conn)
         /\ MaxChats \in Nat /\ Len(chatlist) <= MaxChats
  BY DatabaseAssumption
  DEF SysInv, TInv, HasHandle, TypeOK, DatabaseTypeOK, SessionsTypeOK, Named

LEMMA EndKeeps == SocketsEnd => PagesInv'
  <1> SUFFICES ASSUME SocketsEnd PROVE PagesInv'
    OBVIOUS
  <1>1. PICK ok \in BOOLEAN :
          tab' = [c \in Conn |-> IF tab[c].page = "closed" THEN NoTab
                   ELSE [NoTab EXCEPT !.page = "lost",
                                      !.websocketOk = ok /\ tab[c].websocketOk]]
    BY DEF SocketsEnd
  <1>2. NoTab \in Page
    BY NoPage
  <1>3. \A b \in BOOLEAN : [NoTab EXCEPT !.page = "lost", !.websocketOk = b] \in Page
    BY <1>2 DEF Page, Tab, NoTab
  <1>4. \A c \in Conn : (ok /\ tab[c].websocketOk) \in BOOLEAN
    OBVIOUS
  <1>5. tab' \in [Conn -> Page]
    BY <1>1, <1>2, <1>3, <1>4
  <1>6. wire' = [c \in Conn |-> <<>>] /\ outbox' = [c \in Conn |-> <<>>]
    BY DEF SocketsEnd
  <1>7. <<>> \in Seq(Msg) /\ <<>> \in Seq(Ask)
    BY EmptySeq
  <1> QED BY <1>5, <1>6, <1>7 DEF PagesInv

\* A step puts messages from M on the wires, or the wires end with the server.
Sends(M) ==
  \E msgs \in [Conn -> Seq(M)] : IF up' THEN Put(msgs) /\ UNCHANGED tab ELSE SocketsEnd

LEMMA SendsKeep ==
  ASSUME PagesInv, Sends(Msg), up' => outbox' \in [Conn -> Seq(Ask)] PROVE PagesInv'
  <1>1. CASE up'
    <2>1. PICK msgs \in [Conn -> Seq(Msg)] : Put(msgs) /\ UNCHANGED tab
      BY <1>1 DEF Sends
    <2>2. \A c \in Conn : wire[c] \o msgs[c] \in Seq(Msg)
      BY ConcatProperties DEF PagesInv
    <2>3. <<>> \in Seq(Msg)
      BY EmptySeq
    <2>4. wire' = [c \in Conn |-> IF tab[c].page \in {"login", "intern"}
                                  THEN wire[c] \o msgs[c] ELSE <<>>]
      BY <2>1 DEF Put
    <2> QED BY <1>1, <2>1, <2>2, <2>3, <2>4 DEF PagesInv
  <1>2. CASE ~up'
    BY <1>2, EndKeeps DEF Sends
  <1> QED BY <1>1, <1>2

LEMMA SendsMore == ASSUME NEW M, NEW N, M \subseteq N, Sends(M) PROVE Sends(N)
  <1>1. Seq(M) \subseteq Seq(N)
    BY SeqMonotonic
  <1>2. [Conn -> Seq(M)] \subseteq [Conn -> Seq(N)]
    BY <1>1
  <1> QED BY <1>2 DEF Sends

LEMMA ToType ==
  ASSUME NEW M, NEW c \in Conn, NEW s \in Seq(M) PROVE To(c, s) \in [Conn -> Seq(M)]
  <1>1. <<>> \in Seq(M)
    BY EmptySeq
  <1> QED BY <1>1 DEF To, None

LEMMA NoneType == ASSUME NEW M PROVE None \in [Conn -> Seq(M)]
  <1>1. <<>> \in Seq(M)
    BY EmptySeq
  <1> QED BY <1>1 DEF None

LEMMA PostSends ==
  ASSUME NEW M, NEW msgs, up' => msgs \in [Conn -> Seq(M)], Post(msgs) PROVE Sends(M)
  BY NoneType DEF Post, Sends

LEMMA PushSends ==
  ASSUME NEW M, task.hdl \in Conn, NEW f, NEW s \in Seq(M), NEW own \in Seq(M),
         PushIfOnline(f, s, own)
  PROVE  Sends(M)
  <1>1. CASE Post(To(task.hdl, own))
    BY <1>1, ToType, PostSends
  <1>2. CASE Push(f, s, own)
    <2>1. PICK h \in Conn : Post([To(h, s) EXCEPT ![task.hdl] = @ \o own])
      BY <1>2 DEF Push, CanSend
    <2> DEFINE msgs == [To(h, s) EXCEPT ![task.hdl] = @ \o own]
    <2>2. To(h, s) \in [Conn -> Seq(M)]
      BY ToType
    <2>3. To(h, s)[task.hdl] \o own \in Seq(M)
      BY <2>2, ConcatProperties
    <2>4. msgs \in [Conn -> Seq(M)]
      BY <2>2, <2>3
    <2> HIDE DEF msgs
    <2> QED BY <2>1, <2>4, PostSends DEF msgs
  <1> QED BY <1>1, <1>2 DEF PushIfOnline

\* What the server says is well typed.
LEMMA FriendRows ==
  ASSUME SysInv
  PROVE  /\ \A f \in User : FriendRowOf(f) \in FriendEntry
         /\ \A u : sendFriendlist(u) \in Glad
         /\ \A u : Requests(Rows(getFriendRequests(u))) \in Glad
  <1>1. \A f \in User : FriendRowOf(f) \in FriendEntry
    BY STypes DEF FriendRowOf, FriendEntry
  <1>2. ASSUME NEW S, S \subseteq registered PROVE Rows(S) \in Seq(User)
    <2>1. IsFiniteSet(S)
      BY <1>2, STypes, FS_Subset
    <2>2. Rows(S) \in Seq(S)
      BY <2>1, RowsList
    <2>3. S \subseteq User
      BY <1>2, STypes
    <2> QED BY <2>2, <2>3, SeqMonotonic
  <1>3. ASSUME NEW u PROVE sendFriendlist(u) \in Glad
    <2> DEFINE fs == Rows(getFrindIds(u))
               rows == [i \in DOMAIN fs |-> FriendRowOf(fs[i])]
    <2>1. getFrindIds(u) \subseteq registered
      BY DEF getFrindIds
    <2>2. fs \in Seq(User)
      BY <1>2, <2>1
    <2>3. sendFriendlist(u) = [kind |-> "friendlist", values |-> rows]
      BY DEF sendFriendlist
    <2> HIDE DEF fs
    <2>4. \A i \in 1..Len(fs) : FriendRowOf(fs[i]) \in FriendEntry
      BY <1>1, <2>2, ElementOfSeq
    <2>5. rows \in [1..Len(fs) -> FriendEntry] /\ Len(fs) \in Nat
      BY <2>2, <2>4
    <2> HIDE DEF rows
    <2>6. rows \in Seq(FriendEntry)
      BY <2>5
    <2> QED BY <2>3, <2>6 DEF Msg, Glad
  <1>4. ASSUME NEW u PROVE Requests(Rows(getFriendRequests(u))) \in Glad
    <2>1. getFriendRequests(u) \subseteq registered
      BY DEF getFriendRequests
    <2> QED BY <1>2, <2>1 DEF Requests, Msg, Glad
  <1> QED BY <1>1, <1>3, <1>4

LEMMA ChatRows == ASSUME SysInv PROVE \A u : ChatsOf(u) \in Seq(ChatEntry)
  <1>1. /\ DOMAIN chatlist = 1..Len(chatlist) /\ Len(chatlist) \in Nat
        /\ DOMAIN messages = 1..Len(messages) /\ Len(messages) \in Nat
        /\ Len(chatlist) <= MaxChats /\ MaxChats \in Nat
    BY STypes
  <1>f. ASSUME NEW n \in Nat, NEW S \in SUBSET (1..n) PROVE S \subseteq Nat /\ IsFiniteSet(S)
    <2>1. IsFiniteSet(1..n)
      BY FS_Interval
    <2>2. IsFiniteSet(S)
      BY <2>1, FS_Subset
    <2> QED BY <2>2
  <1>2. ASSUME NEW cid \in 1..MaxChats PROVE ChatRow(cid) \in ChatEntry
    <2> DEFINE mids == {m \in DOMAIN messages :
                          messages[m].cid = cid /\ messages[m].uid \in registered}
    <2>1. mids \subseteq Nat /\ IsFiniteSet(mids)
      <3>1. mids \in SUBSET (1..Len(messages))
        BY <1>1
      <3> HIDE DEF mids
      <3> QED BY <1>1, <1>f, <3>1
    <2>2. ChatRow(cid) = [id |-> cid, messages |-> Ordered(mids)]
      BY DEF ChatRow
    <2> HIDE DEF mids
    <2>3. Ordered(mids) \in Seq(Nat)
      BY <2>1, OrderedList, SeqMonotonic
    <2> QED BY <2>2, <2>3 DEF ChatEntry
  <1>3. ASSUME NEW u PROVE ChatsOf(u) \in Seq(ChatEntry)
    <2> DEFINE cidset == {cid \in DOMAIN chatlist : InChat(u, cid)}
               cids == Ordered(cidset)
               rows == [i \in DOMAIN cids |-> ChatRow(cids[i])]
    <2>1. cidset \subseteq Nat /\ IsFiniteSet(cidset) /\ cidset \subseteq 1..MaxChats
      <3>1. cidset \in SUBSET (1..Len(chatlist))
        BY <1>1
      <3> HIDE DEF cidset, cids, rows
      <3>2. cidset \subseteq Nat /\ IsFiniteSet(cidset)
        BY <1>1, <1>f, <3>1
      <3>3. 1..Len(chatlist) \subseteq 1..MaxChats
        BY <1>1
      <3> QED BY <3>1, <3>2, <3>3
    <2> HIDE DEF cidset
    <2>2. cids \in Seq(1..MaxChats)
      BY <2>1, OrderedList, SeqMonotonic
    <2>3. ChatsOf(u) = rows
      BY DEF ChatsOf, cidset
    <2> HIDE DEF cids
    <2>4. \A i \in 1..Len(cids) : ChatRow(cids[i]) \in ChatEntry
      BY <1>2, <2>2, ElementOfSeq
    <2>5. rows \in [1..Len(cids) -> ChatEntry] /\ Len(cids) \in Nat
      BY <2>2, <2>4
    <2> HIDE DEF rows
    <2> QED BY <2>3, <2>5
  <1> QED BY <1>3

LEMMA Spoken ==
  ASSUME SysInv
  PROVE  /\ Plain("login") \in Glad /\ Plain("error") \in Glad /\ Plain("logout") \in Glad
         /\ Plain("addFriend") \in Glad /\ Plain("failed") \in Glad
         /\ Plain("registration") \in Glad /\ Plain("loginFailed") \in Glad
         /\ Message \in Glad
         /\ \A u \in User : Notify(u, TRUE) \in Glad /\ Notify(u, FALSE) \in Msg
         /\ \A u \in User : Requests(<<u>>) \in Glad /\ NewFriend(u) \in Glad
         /\ \A cid \in 1..MaxChats : NewChat(cid) \in Glad
  <1>1. /\ Plain("login") \in Glad /\ Plain("error") \in Glad /\ Plain("logout") \in Glad
        /\ Plain("addFriend") \in Glad /\ Plain("failed") \in Glad
        /\ Plain("registration") \in Glad /\ Plain("loginFailed") \in Glad
    BY DEF Plain, Msg, Glad
  <1>2. Message \in Glad
    BY STypes DEF Message, Msg, Glad, Task
  <1>3. \A u \in User : Notify(u, TRUE) \in Glad /\ Notify(u, FALSE) \in Msg
    BY DEF Notify, Msg, Glad
  <1>4. ASSUME NEW u \in User PROVE Requests(<<u>>) \in Glad
    <2>1. <<u>> \in Seq(User)
      OBVIOUS
    <2> QED BY <2>1 DEF Requests, Msg, Glad
  <1>5. ASSUME NEW u \in User PROVE NewFriend(u) \in Glad
    <2>1. <<FriendRowOf(u)>> \in Seq(FriendEntry)
      BY FriendRows
    <2> QED BY <2>1 DEF NewFriend, Msg, Glad
  <1>6. ASSUME NEW cid \in 1..MaxChats PROVE NewChat(cid) \in Glad
    <2>1. [id |-> cid, messages |-> <<>>] \in ChatEntry
      BY EmptySeq DEF ChatEntry
    <2>2. <<[id |-> cid, messages |-> <<>>]>> \in Seq(ChatEntry)
      BY <2>1
    <2> QED BY <2>2 DEF NewChat, Msg, Glad
  <1> QED BY <1>1, <1>2, <1>3, <1>4, <1>5, <1>6

\* What the steps of a handler say that neither answer a login nor tell of chats
\* or messages; word of who has gone offline only in a logout.
LEMMA HandleDull ==
  ASSUME SysInv, NEW M, Dull \subseteq M,
         task.at = "logout.notify" => Notify(task.uid, FALSE) \in M,
         Silent \/ LogoutSessionSent \/ AddFriendPushSent
           \/ \E f \in User : LoginNotifySent(f) \/ LogoutNotifySent(f)
  PROVE  Sends(M)
  <1>0. <<>> \in Seq(M) /\ \A m \in M : <<m>> \in Seq(M)
    BY EmptySeq
  <1>n. /\ task.at \in ByUser => task.uid \in User
        /\ task.at # "idle" => task.hdl \in Conn
    BY STypes DEF SysInv, Named
  <1>m. /\ Plain("error") \in M /\ Plain("logout") \in M /\ Plain("addFriend") \in M
        /\ \A u \in User : Requests(<<u>>) \in M /\ Notify(u, TRUE) \in M
    BY Spoken DEF Dull, Plain, Requests, Notify
  <1> USE DEF ByUser
  <1>1. CASE Silent
    BY <1>1, NoneType, PostSends DEF Silent
  <1>2. CASE LogoutSessionSent
    <2>1. task.hdl \in Conn
      BY <1>2, <1>n DEF LogoutSessionSent, LogoutSession
    <2> QED BY <1>0, <1>2, <2>1, <1>m, ToType, PostSends DEF LogoutSessionSent
  <1>3. CASE AddFriendPushSent
    <2>1. task.at = "add.push"
      BY <1>3 DEF AddFriendPushSent, AddFriendPush
    <2>2. task.hdl \in Conn /\ task.uid \in User
      BY <1>n, <2>1
    <2>3. PICK own \in {<<>>, <<Plain("addFriend")>>} :
            PushIfOnline(task.fid, <<Requests(<<task.uid>>)>>, own)
      BY <1>3 DEF AddFriendPushSent
    <2>4. own \in Seq(M) /\ <<Requests(<<task.uid>>)>> \in Seq(M)
      BY <1>0, <2>2, <1>m
    <2> QED BY <1>0, <2>2, <2>3, <2>4, PushSends
  <1>4. ASSUME NEW f \in User, LoginNotifySent(f) PROVE Sends(M)
    <2>1. task.at = "login.notify"
      BY <1>4 DEF LoginNotifySent, LoginNotify
    <2>2. task.hdl \in Conn /\ task.uid \in User
      BY <1>n, <2>1
    <2>3. <<Notify(task.uid, TRUE)>> \in Seq(M) /\ <<Plain("error")>> \in Seq(M)
      BY <1>0, <2>2, <1>m
    <2>4. \/ Post(To(task.hdl, <<Plain("error")>>))
          \/ PushIfOnline(f, <<Notify(task.uid, TRUE)>>, <<>>)
      BY <1>4 DEF LoginNotifySent
    <2> QED BY <1>0, <2>2, <2>3, <2>4, ToType, PostSends, PushSends
  <1>5. ASSUME NEW f \in User, LogoutNotifySent(f) PROVE Sends(M)
    <2>1. task.at = "logout.notify"
      BY <1>5 DEF LogoutNotifySent, LogoutNotify
    <2>2. task.hdl \in Conn /\ task.uid \in User
      BY <1>n, <2>1
    <2>3. <<Notify(task.uid, FALSE)>> \in Seq(M)
      BY <1>0, <2>1
    <2> QED BY <1>0, <1>5, <2>2, <2>3, PushSends DEF LogoutNotifySent
  <1> QED BY <1>1, <1>2, <1>3, <1>4, <1>5

\* What all of them say.
LEMMA HandleSays ==
  ASSUME SysInv, Handle, NEW M, Dull \subseteq M,
         task.at = "logout.notify" => Notify(task.uid, FALSE) \in M,
         LoginListsSent => Plain("login") \in M,
         LoginChatsSent => [kind |-> "chatlist", values |-> ChatsOf(Caller(task.hdl))] \in M,
         AcceptPushSent => NewChat(task.cid) \in M,
         MsgEchoSent \/ MsgDirectSent => Message \in M
  PROVE  Sends(M)
  <1>0. <<>> \in Seq(M) /\ (\A m \in M : <<m>> \in Seq(M)) /\ \A m, n \in M : <<m, n>> \in Seq(M)
    BY EmptySeq
  <1>n. /\ task.at \in ByUser => task.uid \in User
        /\ task.at \in {"add.push", "accept.push"} => task.fid \in User
        /\ task.at # "idle" => task.hdl \in Conn
    BY STypes DEF SysInv, Named
  <1>e. Plain("error") \in M
    BY Spoken DEF Dull, Plain
  <1> USE DEF ByUser
  <1>1. CASE Silent \/ LogoutSessionSent \/ AddFriendPushSent
                \/ \E f \in User : LoginNotifySent(f) \/ LogoutNotifySent(f)
    BY <1>1, HandleDull
  <1>2. CASE LoginListsSent
    <2>1. task.hdl \in Conn
      BY <1>2, <1>n DEF LoginListsSent, LoginLists
    <2> DEFINE lists == <<Plain("login"), sendFriendlist(Caller(task.hdl)),
                          Requests(Rows(getFriendRequests(Caller(task.hdl))))>>
    <2>2. /\ Plain("login") \in M /\ sendFriendlist(Caller(task.hdl)) \in M
          /\ Requests(Rows(getFriendRequests(Caller(task.hdl)))) \in M
      BY <1>2, FriendRows DEF Dull, sendFriendlist, Requests
    <2>3. lists \in Seq(M) /\ <<Plain("error")>> \in Seq(M)
      BY <1>0, <1>e, <2>2
    <2>4. \/ Post(To(task.hdl, lists)) \/ Post(To(task.hdl, <<Plain("error")>>))
      BY <1>2 DEF LoginListsSent
    <2> HIDE DEF lists
    <2> QED BY <2>1, <2>3, <2>4, ToType, PostSends
  <1>3. CASE LoginChatsSent
    <2>1. task.hdl \in Conn
      BY <1>3, <1>n DEF LoginChatsSent, LoginChats
    <2> DEFINE m == [kind |-> "chatlist", values |-> ChatsOf(Caller(task.hdl))]
    <2>2. m \in M
      BY <1>3
    <2>3. Post(To(task.hdl, <<m>>))
      BY <1>3 DEF LoginChatsSent
    <2> HIDE DEF m
    <2> QED BY <1>0, <2>1, <2>2, <2>3, ToType, PostSends
  <1>4. CASE AcceptPushSent
    <2>1. task.hdl \in Conn /\ task.uid \in User /\ task.fid \in User
      BY <1>4, <1>n DEF AcceptPushSent, AcceptPush
    <2>2. NewFriend(task.uid) \in M /\ NewFriend(task.fid) \in M /\ NewChat(task.cid) \in M
      BY <1>4, <2>1, Spoken DEF Dull, NewFriend
    <2>3. /\ <<NewFriend(task.uid), NewChat(task.cid)>> \in Seq(M)
          /\ <<NewFriend(task.fid), NewChat(task.cid)>> \in Seq(M)
      BY <1>0, <2>2
    <2>4. \/ PushIfOnline(task.fid, <<NewFriend(task.uid), NewChat(task.cid)>>,
                          <<NewFriend(task.fid), NewChat(task.cid)>>)
          \/ Post(None)
      BY <1>4 DEF AcceptPushSent
    <2> QED BY <2>1, <2>3, <2>4, NoneType, PostSends, PushSends
  <1>5. CASE MsgEchoSent
    <2>1. task.hdl \in Conn
      BY <1>5, <1>n DEF MsgEchoSent, MsgEcho
    <2>2. <<Message, Plain("error")>> \in Seq(M) /\ <<Message>> \in Seq(M)
      BY <1>0, <1>5, <1>e
    <2>3. \/ Post(To(task.hdl, <<Message, Plain("error")>>)) \/ Post(To(task.hdl, <<Message>>))
      BY <1>5 DEF MsgEchoSent
    <2> QED BY <2>1, <2>2, <2>3, ToType, PostSends
  <1>6. CASE MsgDirectSent
    <2>1. task.hdl \in Conn
      BY <1>6, <1>n DEF MsgDirectSent, MsgDirect
    <2>2. PushIfOnline(task.fid, <<Message>>, <<>>) /\ <<Message>> \in Seq(M)
      BY <1>0, <1>6 DEF MsgDirectSent
    <2> QED BY <1>0, <2>1, <2>2, PushSends
  <1> QED BY <1>1, <1>2, <1>3, <1>4, <1>5, <1>6 DEF Handle

LEMMA HandleSends ==
  ASSUME SysInv, Handle, NEW M, Glad \subseteq M,
         task.at = "logout.notify" => Notify(task.uid, FALSE) \in M
  PROVE  Sends(M)
  <1>1. [kind |-> "chatlist", values |-> ChatsOf(Caller(task.hdl))] \in M
    BY ChatRows DEF Msg, Glad
  <1>2. AcceptPushSent => NewChat(task.cid) \in M
    BY Spoken DEF AcceptPushSent, AcceptPush, SysInv, Named, InChats
  <1>3. Plain("login") \in M /\ Message \in M /\ Dull \subseteq M
    BY Spoken DEF Dull
  <1> QED BY <1>1, <1>2, <1>3, HandleSays

LEMMA HandleKeeps == SysInv /\ Handle => PagesInv'
  <1> SUFFICES ASSUME SysInv, Handle PROVE PagesInv'
    OBVIOUS
  <1>1. task.at = "logout.notify" => Notify(task.uid, FALSE) \in Msg
    BY Spoken DEF SysInv, Named, ByUser
  <1>2. Sends(Msg)
    BY <1>1, HandleSends DEF Glad
  <1>3. \A msgs : Post(msgs) /\ up' => UNCHANGED outbox
    BY DEF Post
  <1>4. up' => UNCHANGED outbox
    BY <1>3 DEF Handle, Silent, LoginListsSent, LoginChatsSent, LogoutSessionSent,
       AddFriendPushSent, AcceptPushSent, MsgEchoSent, MsgDirectSent, LoginNotifySent,
       LogoutNotifySent, PushIfOnline, Push
  <1> QED BY <1>2, <1>4, SendsKeep DEF SysInv, PagesInv

\* The next request of a tab is read.
LEMMA ReadSends ==
  ASSUME PagesInv, NEW c \in Conn, outbox[c] # <<>>, NEW s \in Seq(Glad), Read(c, s)
  PROVE  PagesInv' /\ Sends(Glad)
  <1>1. Sends(Glad)
    BY ToType, NoneType DEF Read, Sends
  <1>2. ASSUME up' PROVE outbox' \in [Conn -> Seq(Ask)]
    <2>1. Tail(outbox[c]) \in Seq(Ask)
      BY HeadTailProperties DEF PagesInv
    <2> QED BY <1>2, <2>1 DEF Read, PagesInv
  <1>3. Sends(Msg)
    BY <1>1, SendsMore DEF Glad
  <1> QED BY <1>1, <1>2, <1>3, SendsKeep

LEMMA AskTypes ==
  ASSUME NEW r \in Ask
  PROVE  /\ r.request \in {"registration", "login", "addFriend", "acceptFriend"} => r.email \in User
         /\ r.request = "newMessage" => r.cid \in 1..MaxChats
  BY DEF Ask

\* A request is one that Server knows, and is answered at once or later; only one
\* that is not a login is never answered as a login.
LEMMA ServeReads ==
  ASSUME SysInv, NEW c \in Conn, Serve(c)
  PROVE  /\ Request(c) /\ outbox[c] # <<>>
         /\ \/ /\ Head(outbox[c]).request # "login"
               /\ \A u \in User : ~Login(c, u)
               /\ \E s \in Seq(Dull) : Read(c, s)
            \/ /\ Head(outbox[c]).request = "login"
               /\ \/ (\E u \in User : Login(c, u)) /\ Read(c, <<>>)
                  \/ Refuse(c) /\ Read(c, <<Plain("loginFailed")>>)
  <1> DEFINE r == Head(outbox[c])
             L == /\ r.request = "login"
                  /\ \/ (\E u \in User : Login(c, u)) /\ Read(c, <<>>)
                     \/ Refuse(c) /\ Read(c, <<Plain("loginFailed")>>)
             D == /\ r.request # "login"
                  /\ \A u \in User : ~Login(c, u)
                  /\ \E s \in Seq(Dull) : Read(c, s)
  <1>1. PagesInv /\ outbox[c] # <<>> /\ <<>> \in Seq(Dull) /\ \A m \in Dull : <<m>> \in Seq(Dull)
    BY EmptySeq DEF SysInv, Serve
  <1>2. r \in Ask
    BY <1>1, HeadTailProperties DEF PagesInv
  <1>3. r.request \in {"registration", "login", "addFriend", "acceptFriend"} => r.email \in User
    BY <1>2, AskTypes
  <1>4. r.request = "newMessage" => r.cid \in 1..MaxChats
    BY <1>2, AskTypes
  <1>5. Plain("registration") \in Dull /\ Plain("failed") \in Dull
    BY Spoken DEF Dull, Plain
  <1>t. task \in Task
    BY STypes
  <1>l. task'.at # "login.session" => \A u \in User : ~Login(c, u)
    BY DEF Login, Idle
  <1>d. Die => task'.at = "idle"
    BY DEF Die, Idle
  <1>a. \A e : AddFriend(c, e) => task'.at \in {"return", "add.push", "idle"}
    BY <1>d DEF AddFriend, Reply, Idle
  <1>b. \A cid : NewMessage(c, cid) => task'.at \in {"msg.echo", "idle"}
    BY <1>d DEF NewMessage, Idle
  <1> SUFFICES Request(c) /\ (L \/ D)
    BY <1>1
  <1> HIDE DEF r
  <1>6. CASE /\ r.request = "registration"
             /\ Register(c, r.email) \/ Refuse(c)
             /\ Read(c, <<Plain("registration")>>)
    <2>1. task'.at = "return"
      BY <1>6 DEF Register, Refuse, Reply, Idle
    <2> QED BY <1>1, <1>3, <1>5, <1>6, <1>l, <2>1 DEF Request
  <1>7. CASE /\ r.request = "login"
             /\ \/ Login(c, r.email) /\ Read(c, <<>>)
                \/ Refuse(c) /\ Read(c, <<Plain("loginFailed")>>)
    BY <1>3, <1>7 DEF Request
  <1>8. CASE r.request = "logout" /\ Logout(c) /\ Read(c, <<>>)
    <2>1. task'.at = "logout.session"
      BY <1>8 DEF Logout, Idle
    <2> QED BY <1>1, <1>8, <1>l, <2>1 DEF Request
  <1>9. CASE /\ r.request = "searchUser" /\ Refuse(c)
             /\ \E S \in SUBSET (registered \ {Caller(c)}) :
                  Read(c, <<[kind |-> "searchUser", values |-> S]>>)
    <2>1. PICK S \in SUBSET registered : Read(c, <<[kind |-> "searchUser", values |-> S]>>)
      BY <1>9
    <2>2. [kind |-> "searchUser", values |-> S] \in Dull
      BY STypes DEF Msg, Glad, Dull
    <2>3. task'.at = "return"
      BY <1>9 DEF Refuse, Reply, Idle
    <2> QED BY <1>1, <1>9, <1>l, <2>1, <2>2, <2>3 DEF Request
  <1>10. CASE /\ r.request = "addFriend" /\ AddFriend(c, r.email)
              /\ Read(c, IF task'.at = "return" THEN <<Plain("failed")>> ELSE <<>>)
    <2>1. task'.at \in {"return", "add.push", "idle"}
      BY <1>10, <1>a
    <2> QED BY <1>1, <1>3, <1>5, <1>10, <1>l, <2>1 DEF Request
  <1>11. CASE /\ r.request = "acceptFriend" /\ AcceptFriend(c, r.email)
              /\ Read(c, <<[kind |-> "acceptFriend", friendMail |-> r.email]>>)
    <2>1. [kind |-> "acceptFriend", friendMail |-> r.email] \in Dull
      BY <1>3, <1>11 DEF Msg, Glad, Dull
    <2>2. task'.at = "accept.chat"
      BY <1>11 DEF AcceptFriend, Idle
    <2>3. <<[kind |-> "acceptFriend", friendMail |-> r.email]>> \in Seq(Dull)
      BY <1>1, <2>1
    <2>4. Request(c)
      BY <1>3, <1>11 DEF Request
    <2> QED BY <1>11, <1>l, <2>2, <2>3, <2>4
  <1>12. CASE r.request = "acceptFriend" /\ DeclineFriend(c, r.email) /\ Read(c, <<>>)
    <2>1. task'.at = "decline.delete"
      BY <1>12 DEF DeclineFriend, Idle
    <2> QED BY <1>1, <1>3, <1>12, <1>l, <2>1 DEF Request
  <1>13. CASE r.request = "newMessage" /\ NewMessage(c, r.cid) /\ Read(c, <<>>)
    <2>1. task'.at \in {"msg.echo", "idle"}
      BY <1>13, <1>b
    <2> QED BY <1>1, <1>4, <1>13, <1>l, <2>1 DEF Request
  <1> HIDE DEF L, D
  <1> QED BY <1>6, <1>7, <1>8, <1>9, <1>10, <1>11, <1>12, <1>13 DEF Serve, r

LEMMA ServeSteps ==
  ASSUME SysInv, NEW c \in Conn, Serve(c)
  PROVE  PagesInv' /\ Request(c) /\ Sends(Glad)
  <1>1. Plain("loginFailed") \in Glad /\ PagesInv
    BY Spoken DEF SysInv
  <1>2. /\ <<>> \in Seq(Glad) /\ <<Plain("loginFailed")>> \in Seq(Glad)
        /\ Seq(Dull) \subseteq Seq(Glad)
    <2>1. Seq(Dull) \subseteq Seq(Glad)
      BY SeqMonotonic DEF Dull
    <2>2. \A m \in Glad : <<m>> \in Seq(Glad)
      OBVIOUS
    <2> QED BY <1>1, <2>1, <2>2, EmptySeq
  <1>3. Request(c) /\ outbox[c] # <<>> /\ \E s \in Seq(Glad) : Read(c, s)
    BY <1>2, ServeReads
  <1> QED BY <1>1, <1>3, ReadSends

LEMMA Asking ==
  ASSUME PagesInv, NEW c \in Conn, NEW r \in Ask, sendMessage(c, r)
  PROVE  outbox' \in [Conn -> Seq(Ask)] /\ UNCHANGED wire
  <1>1. outbox' = [outbox EXCEPT ![c] = Append(outbox[c], r)] /\ UNCHANGED wire
    BY DEF sendMessage
  <1>2. Append(outbox[c], r) \in Seq(Ask)
    BY AppendProperties DEF PagesInv
  <1> QED BY <1>1, <1>2 DEF PagesInv

LEMMA UserKeeps == ASSUME SysInv, NEW c \in Conn, UserStep(c) PROVE PagesInv'
  <1>0. PagesInv /\ tab[c] \in Page
    BY DEF SysInv, PagesInv
  <1>1. ASSUME NEW r \in Ask, sendMessage(c, r), UNCHANGED tab PROVE PagesInv'
    BY <1>0, <1>1, Asking DEF PagesInv
  <1>2. ASSUME NEW u \in User, SubmitRegistration(c, u) \/ ClickAdd(c, u) PROVE PagesInv'
    <2>1. [request |-> "registration", email |-> u] \in Ask
          /\ [request |-> "addFriend", email |-> u] \in Ask
      BY DEF Ask
    <2> QED BY <1>1, <1>2, <2>1 DEF SubmitRegistration, ClickAdd
  <1>3. ASSUME NEW u \in User, SubmitLogin(c, u) PROVE PagesInv'
    <2>1. [request |-> "login", email |-> u] \in Ask
      BY DEF Ask
    <2>2. outbox' \in [Conn -> Seq(Ask)] /\ UNCHANGED wire
      BY <1>0, <1>3, <2>1, Asking DEF SubmitLogin
    <2>3. tab' = [tab EXCEPT ![c] = [tab[c] EXCEPT !.waiting = TRUE]]
      BY <1>3 DEF SubmitLogin
    <2>4. [tab[c] EXCEPT !.waiting = TRUE] \in Page
          /\ [tab[c] EXCEPT !.waiting = TRUE].page = tab[c].page
      BY <1>0 DEF Page, Tab
    <2> QED BY <1>0, <2>2, <2>3, <2>4 DEF PagesInv
  <1>4. CASE ClickLogout(c) \/ SubmitSearch(c)
    <2>1. [request |-> "logout"] \in Ask /\ [request |-> "searchUser"] \in Ask
      BY DEF Ask
    <2> QED BY <1>1, <1>4, <2>1 DEF ClickLogout, SubmitSearch
  <1>5. ASSUME NEW i \in DOMAIN tab[c].requests, NEW a \in BOOLEAN, ClickRequest(c, i, a)
        PROVE  PagesInv'
    <2>1. tab[c].requests[i] \in User
      BY <1>0, ElementOfSeq DEF Page, Tab
    <2>2. [request |-> "acceptFriend", email |-> tab[c].requests[i], answer |-> a] \in Ask
      BY <2>1 DEF Ask
    <2> QED BY <1>1, <1>5, <2>2 DEF ClickRequest
  <1>6. ASSUME NEW i \in DOMAIN tab[c].chats, SubmitMessage(c, i) PROVE PagesInv'
    <2>1. tab[c].chats[i] \in ChatEntry
      BY <1>0, ElementOfSeq DEF Page
    <2>2. [request |-> "newMessage", cid |-> tab[c].chats[i].id] \in Ask
      BY <2>1 DEF Ask, ChatEntry
    <2> QED BY <1>1, <1>6, <2>2 DEF SubmitMessage
  <1> QED BY <1>2, <1>3, <1>4, <1>5, <1>6 DEF UserStep

LEMMA BrowserKeeps ==
  ASSUME SysInv, NEW c \in Conn
  PROVE  /\ onmessage(c) => PagesInv'
         /\ CloseTab(c) => PagesInv'
         /\ onopen(c) => PagesInv'
  <1>0. PagesInv /\ tab[c] \in Page /\ wire[c] \in Seq(Msg) /\ NoTab \in Page
        /\ <<>> \in Seq(Msg) /\ <<>> \in Seq(Ask)
    BY NoPage, EmptySeq DEF SysInv, PagesInv
  <1>1. ASSUME onmessage(c) PROVE PagesInv'
    <2> DEFINE m == Head(wire[c])
               p == processMessage(tab[c], m)
    <2>1. m \in Msg /\ Tail(wire[c]) \in Seq(Msg)
      BY <1>0, <1>1, HeadTailProperties DEF onmessage
    <2>2. p \in Page
      BY <1>0, <2>1, Processed
    <2>3. m.kind # "logout" => p.page \in {tab[c].page, "intern"}
      BY <1>0, <2>1
      DEF processMessage, addMessageToChat, notifyOnline, deleteRequest, Page, Tab, Msg
    <2>4. /\ tab' = [tab EXCEPT ![c] = p] /\ UNCHANGED outbox
          /\ wire' = [wire EXCEPT ![c] = IF m.kind = "logout" THEN <<>> ELSE Tail(wire[c])]
          /\ tab[c].page \in {"login", "intern"}
      BY <1>0, <1>1 DEF onmessage, PagesInv
    <2> HIDE DEF m, p
    <2> QED BY <1>0, <2>1, <2>2, <2>3, <2>4 DEF PagesInv
  <1>2. CloseTab(c) => PagesInv'
    BY <1>0 DEF CloseTab, PagesInv
  <1>3. ASSUME onopen(c) PROVE PagesInv'
    <2>1. [NoTab EXCEPT !.page = "login", !.websocketOk = TRUE] \in Page
      BY <1>0 DEF Page, Tab, NoTab
    <2> QED BY <1>0, <1>3, <2>1 DEF onopen, PagesInv
  <1> QED BY <1>1, <1>2, <1>3

-----------------------------------------------------------------------------
(* System implements Server: its steps are steps of the server or none.     *)

LEMMA HandleSteps == Handle => HandlerStep
  BY DEF Handle, Silent, LoginListsSent, LoginChatsSent, LogoutSessionSent, AddFriendPushSent,
     AcceptPushSent, MsgEchoSent, MsgDirectSent, LoginNotifySent, LogoutNotifySent,
     HandlerStep, SessionStep, FriendStep, MessageStep

LEMMA SystemSteps == SysInv /\ [SystemNext]_sysVars => [Next]_vars /\ PagesInv'
  <1> SUFFICES ASSUME SysInv, [SystemNext]_sysVars PROVE [Next]_vars /\ PagesInv'
    OBVIOUS
  <1>0. PagesInv
    BY DEF SysInv
  <1>u. UNCHANGED <<tab, wire, outbox>> => PagesInv'
    BY <1>0 DEF PagesInv
  <1>1. CASE UNCHANGED sysVars
    BY <1>1, <1>u DEF sysVars
  <1>2. CASE Start /\ UNCHANGED <<tab, wire, outbox>>
    BY <1>2, <1>u DEF Next
  <1>3. CASE Kill /\ SocketsEnd
    BY <1>3, EndKeeps DEF Next
  <1>4. CASE Handle
    BY <1>4, HandleKeeps, HandleSteps DEF Next
  <1>5. ASSUME NEW c \in Conn, on_open(c) /\ onopen(c) PROVE [Next]_vars /\ PagesInv'
    BY <1>5, BrowserKeeps DEF Next
  <1>6. ASSUME NEW c \in Conn, PeerCloses(c), outbox' = [outbox EXCEPT ![c] = <<>>],
               UNCHANGED <<tab, wire>>
        PROVE  [Next]_vars /\ PagesInv'
    BY <1>0, <1>6, EmptySeq DEF PagesInv, Next
  <1>7. ASSUME NEW c \in Conn, on_close(c) /\ Post(None) PROVE [Next]_vars /\ PagesInv'
    <2>1. Sends(Msg) /\ (up' => UNCHANGED outbox)
      BY <1>7, NoneType, PostSends DEF Post
    <2> QED BY <1>0, <1>7, <2>1, SendsKeep DEF Next, PagesInv
  <1>8. ASSUME NEW c \in Conn, Serve(c) PROVE [Next]_vars /\ PagesInv'
    BY <1>8, ServeSteps DEF Next
  <1>9. ASSUME NEW c \in Conn, Browser(c) PROVE [Next]_vars /\ PagesInv'
    BY <1>9, BrowserKeeps, UserKeeps DEF Browser
  <1> QED BY <1>1, <1>2, <1>3, <1>4, <1>5, <1>6, <1>7, <1>8, <1>9 DEF SystemNext

LEMMA SystemNextKeeps == SysInv /\ [SystemNext]_sysVars => SysInv'
  BY SystemSteps, NextTypes, NextNamed DEF SysInv

LEMMA SystemInitKeeps == SystemInit => Init /\ SysInv
  <1> SUFFICES ASSUME SystemInit PROVE Init /\ SysInv
    OBVIOUS
  <1>1. Init /\ TInv
    BY InitTypes DEF SystemInit
  <1>2. Named
    BY <1>1, DatabaseAssumption, FS_EmptySet
    DEF Init, SessionsInit, DatabaseInit, Idle, Named, ByUser, InChats
  <1>3. PagesInv
    BY NoPage, EmptySeq DEF SystemInit, ClientInit, PagesInv
  <1> QED BY <1>1, <1>2, <1>3 DEF SysInv

\* Whatever pages send and however far they are behind, the server behind them
\* does only what Server allows: every property of Server holds with its web
\* clients.  A page asks about users and chats the server knows.
THEOREM ServerImplemented == SystemSpec => Spec
  <1>1. SysInv /\ [SystemNext]_sysVars => [Next]_vars
    BY SystemSteps
  <1> QED BY <1>1, SystemInitKeeps, SystemNextKeeps, PTL DEF SystemSpec, Spec

\* A page holds what its templates can show, whatever messages come and in what
\* order, and nothing is on its way to a page that has no socket.
THEOREM PagesTyped == SystemSpec => []ClientTypeOK
  <1>1. SysInv => ClientTypeOK
    BY DEF SysInv, PagesInv, Page, ClientTypeOK
  <1> QED BY <1>1, SystemInitKeeps, SystemNextKeeps, PTL DEF SystemSpec

\* Friends have a chat together, from whatever pages they befriended.
THEOREM PagesFriendsHaveChat == SystemSpec => []AcceptedHaveChat
  <1>1. "kill" \notin Faults /\ "db" \notin Faults
    BY SystemAssumption
  <1> QED BY <1>1, ServerImplemented, FriendsHaveChat, PTL

=============================================================================
