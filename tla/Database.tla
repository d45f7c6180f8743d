------------------------------ MODULE Database ------------------------------
(***************************************************************************)
(* The tables behind Database.cpp and the SQL statements it executes.      *)
(* Each statement is its own transaction (pqxx::nontransaction), so a      *)
(* handler that issues several of them can be cut off between any two.     *)
(*                                                                         *)
(* An e-mail address and the id of its users row are one and the same      *)
(* member of User: registration inserts one row per address.  NoUser is    *)
(* the -1 that the lookups return when they find no row (or several).      *)
(*                                                                         *)
(* The schema is not in the repository.  SchemaKeys says whether it        *)
(* declares the foreign keys and the primary keys that the joins presume;  *)
(* without them a row may name the user -1.                                *)
(***************************************************************************)
EXTENDS Integers, Sequences

CONSTANTS User, NoUser, SchemaKeys,
          MaxChats, MaxMessages     \* bounds on the rows ever inserted

ASSUME DatabaseAssumption ==
  /\ NoUser \notin User
  /\ SchemaKeys \in BOOLEAN
  /\ MaxChats \in Nat
  /\ MaxMessages \in Nat

VARIABLES
  registered,   \* users: the rows that exist
  online,       \* users.online
  sessionid,    \* users.sessionid
  friends,      \* friends: rows (uid asked fid, accepted)
  chatlist,     \* chatlist[cid]: the uids of the rows of chats row cid
  messages      \* messages[mid]: author, chat, transmitted

userVars == <<registered, online, sessionid>>
chatVars == <<friends, chatlist, messages>>
dbVars   == <<userVars, chatVars>>

AnyUser   == User \cup {NoUser}
NoSession == -1

FriendRow  == [uid : AnyUser, fid : AnyUser, accepted : BOOLEAN]
MessageRow == [uid : AnyUser, cid : Nat, transmitted : BOOLEAN]

DatabaseTypeOK ==
  /\ registered \subseteq User
  /\ online \in [User -> BOOLEAN]
  /\ sessionid \in [User -> Int]
  /\ friends \subseteq FriendRow
  /\ chatlist \in Seq(Seq(AnyUser))
  /\ messages \in Seq(MessageRow)

DatabaseInit ==
  /\ registered = {}
  /\ online = [u \in User |-> FALSE]
  /\ sessionid = [u \in User |-> NoSession]
  /\ friends = {}
  /\ chatlist = <<>>
  /\ messages = <<>>

-----------------------------------------------------------------------------
(* Queries.  "NOT uid = x" filters keep row order and multiplicity.         *)

\* The one user whose row carries session s; NoUser if none or several do.
getUserIDFromSession(s) ==
  LET holders == {u \in registered : sessionid[u] = s}
  IN  IF \E u \in holders : holders = {u}
      THEN CHOOSE u \in User : holders = {u}
      ELSE NoUser

\* Has chatlist a row with this uid and cid?
InChat(u, cid) ==
  cid \in DOMAIN chatlist /\ \E i \in DOMAIN chatlist[cid] : chatlist[cid][i] = u

\* getUserID(uid, cid): the rows of the chat, by position, that are not uid's.
getPeersOfChat(uid, cid) ==
  {i \in DOMAIN chatlist[cid] : chatlist[cid][i] # uid}

\* getFriendlist and getFrindIds: users that share a chat with uid.
getFrindIds(uid) ==
  {u \in registered \ {uid} :
     \E cid \in DOMAIN chatlist : InChat(u, cid) /\ InChat(uid, cid)}

\* Mutant: every message, the join with chatlist forgotten.
getChatsOfAll(uid) == {m \in DOMAIN messages : messages[m].uid \in registered}

\* The messages in the chats of uid; the join drops authors without a row.
getChatsByUid(uid) ==
  {m \in DOMAIN messages :
     messages[m].uid \in registered /\ InChat(uid, messages[m].cid)}

getAllOnlineUsersOfChatroom(cid) ==
  {u \in registered : online[u] /\ InChat(u, cid)}

SamePair(r, uid, fid) ==
  \/ r.uid = uid /\ r.fid = fid
  \/ r.uid = fid /\ r.fid = uid

\* Mutant: looks for a row in the direction of the request only.
mayRequestOneWay(uid, fid) ==
  /\ uid # fid
  /\ ~ \E r \in friends : r.uid = uid /\ r.fid = fid

\* The check of friendRequest: may uid ask fid?
mayRequest(uid, fid) ==
  /\ uid # fid
  /\ ~ \E r \in friends : SamePair(r, uid, fid)

-----------------------------------------------------------------------------
(* Statements.  An UPDATE whose WHERE matches no row changes nothing.       *)

\* Mutant: the sessions of the last process stay.
resetOnline ==
  /\ online' = [u \in User |-> FALSE]
  /\ UNCHANGED <<registered, sessionid, chatVars>>

\* connect(): run once by every start of the process.
resetPresence ==
  /\ online' = [u \in User |-> FALSE]
  /\ sessionid' = [u \in User |-> NoSession]
  /\ UNCHANGED <<registered, chatVars>>

registerClient(u) ==
  /\ registered' = registered \cup {u}
  /\ UNCHANGED <<online, sessionid, chatVars>>

setOnline(u, b) ==
  /\ online' = [v \in User |-> IF v = u THEN b ELSE online[v]]
  /\ UNCHANGED <<registered, sessionid, chatVars>>

setSessionID(u, s) ==
  /\ sessionid' = [v \in User |-> IF v = u THEN s ELSE sessionid[v]]
  /\ UNCHANGED <<registered, online, chatVars>>

insertFriendRequest(uid, fid) ==
  /\ friends' = friends \cup {[uid |-> uid, fid |-> fid, accepted |-> FALSE]}
  /\ UNCHANGED <<userVars, chatlist, messages>>

\* Both directions: the row is accepted whoever of the two answers.
acceptFriendRequest(uid, fid) ==
  /\ friends' = {IF SamePair(r, uid, fid) THEN [r EXCEPT !.accepted = TRUE] ELSE r :
                   r \in friends}
  /\ UNCHANGED <<userVars, chatlist, messages>>

insertChat ==
  /\ chatlist' = Append(chatlist, <<>>)
  /\ UNCHANGED <<userVars, friends, messages>>

insertChatlist(uid, cid) ==
  /\ chatlist' = [chatlist EXCEPT ![cid] = Append(@, uid)]
  /\ UNCHANGED <<userVars, friends, messages>>

\* Would the schema refuse the chatlist row (foreign key or duplicate key)?
refusesChatlist(uid, cid) ==
  SchemaKeys /\ (uid \notin registered \/ InChat(uid, cid))

newMessage(uid, cid) ==
  /\ messages' = Append(messages, [uid |-> uid, cid |-> cid, transmitted |-> FALSE])
  /\ UNCHANGED <<userVars, friends, chatlist>>

setMessageTransmitted(mid) ==
  /\ messages' = [messages EXCEPT ![mid].transmitted = TRUE]
  /\ UNCHANGED <<userVars, friends, chatlist>>
=============================================================================
