------------------------------ MODULE Sessions ------------------------------
(***************************************************************************)
(* The server process: websocket connections, the m_connections map, and   *)
(* the handlers that bind a user to a connection (open, close,             *)
(* registration, login, logout), plus start, death and statement failures. *)
(*                                                                         *)
(* ios.run() executes one handler at a time, so task holds the handler in  *)
(* progress and a new one begins only when it is idle.  A handler is split *)
(* into steps, one per SQL write or send to another connection, because    *)
(* the process can die, a statement can fail and a send can throw between  *)
(* them.  A send on the handler's own connection cannot fail.              *)
(***************************************************************************)
EXTENDS Database

CONSTANTS
  Conn, NoConn,
  MaxSession,      \* bound: connections accepted in one life of the process
  Faults,          \* "kill": the process may be killed within a handler,
                   \* "db": a statement may fail, "template": file unreadable
  AccountSwitch    \* may a connection log in a second account on top of one?

ASSUME SessionsAssumption ==
  /\ NoConn \notin Conn
  /\ MaxSession \in Nat
  /\ Faults \subseteq {"kill", "db", "template"}
  /\ AccountSwitch \in BOOLEAN

VARIABLES
  up,                 \* is the process running?
  cstate,             \* "absent", "open", "closing" (peer gone, on_close due)
  m_connections,      \* the sessionid of the map's entry; 0 is no entry
  m_next_sessionid,
  task,               \* the handler in progress
  authed,             \* history: users whose password c presented
  seen,               \* history: messages put on the wire of c
  listed              \* history: whose chat list the last login on c sent

procVars    == <<up, cstate, m_connections, m_next_sessionid>>
historyVars == <<authed, seen, listed>>

Labels == {"idle", "return", "close.session",
           "login.session", "login.lists", "login.notify",
           "logout.session", "logout.email", "logout.notify",
           "add.push",
           "accept.chat", "accept.self", "accept.peer", "accept.push",
           "decline.delete", "remove.delete",
           "msg.echo", "msg.direct", "msg.flag", "msg.room"}

\* The locals a handler carries across its steps.
Task == [at : Labels, hdl : Conn \cup {NoConn}, uid : AnyUser, fid : AnyUser,
         cid : Nat, mid : Nat, todo : SUBSET User, answered : BOOLEAN]

Idle == [at |-> "idle", hdl |-> NoConn, uid |-> NoUser, fid |-> NoUser,
         cid |-> 0, mid |-> 0, todo |-> {}, answered |-> FALSE]

SessionsTypeOK ==
  /\ up \in BOOLEAN
  /\ cstate \in [Conn -> {"absent", "open", "closing"}]
  /\ m_connections \in [Conn -> Nat]
  /\ m_next_sessionid \in Nat
  /\ task \in Task
  /\ authed \in [Conn -> SUBSET User]
  /\ seen \in [Conn -> SUBSET Nat]
  /\ listed \in [Conn -> AnyUser]

SessionsInit ==
  /\ DatabaseInit
  /\ up = FALSE
  /\ cstate = [c \in Conn |-> "absent"]
  /\ m_connections = [c \in Conn |-> 0]
  /\ m_next_sessionid = 1
  /\ task = Idle
  /\ authed = [c \in Conn |-> {}]
  /\ seen = [c \in Conn |-> {}]
  /\ listed = [c \in Conn |-> NoUser]

-----------------------------------------------------------------------------
(* What every handler is made of.                                           *)

\* The process dies: an exception leaves a handler (on_message catches only
\* error_code), or r[0] of an empty result is dereferenced.  Rows survive.
Die ==
  /\ up' = FALSE
  /\ cstate' = [c \in Conn |-> "absent"]
  /\ m_connections' = [c \in Conn |-> 0]
  /\ m_next_sessionid' = 1
  /\ task' = Idle
  /\ authed' = [c \in Conn |-> {}]
  /\ seen' = [c \in Conn |-> {}]
  /\ listed' = [c \in Conn |-> NoUser]
  /\ UNCHANGED dbVars

Receives(c) == up /\ task.at = "idle" /\ cstate[c] = "open"

Session(c) == m_connections[c]
Caller(c)  == getUserIDFromSession(Session(c))

Goto(label) == task' = [task EXCEPT !.at = label]

\* Send on the own connection as the handler's last act.
Reply(c) == task' = [Idle EXCEPT !.at = "return", !.hdl = c, !.answered = TRUE]

\* The handler's last act was something else; answered says if it replied before.
Finish ==
  task' = [Idle EXCEPT !.at = "return", !.hdl = task.hdl, !.answered = task.answered]

\* get_hdl_from_session.  Control runs off its end when nothing matches, so the
\* caller gets whatever the stack holds: a stale handle or garbage (NoConn).
get_hdl_from_session(s) ==
  LET matching == {c \in Conn : Session(c) # 0 /\ Session(c) = s}
  IN  IF matching # {} THEN matching ELSE Conn \cup {NoConn}

\* endpoint::send throws unless the connection is open.
CanSend(h) == h \in Conn /\ cstate[h] = "open"

\* What a send to user f's connection may do.
MaySend(f)  == \E h \in get_hdl_from_session(sessionid[f]) : CanSend(h)
MayThrow(f) == \E h \in get_hdl_from_session(sessionid[f]) : ~CanSend(h)
MayBreak(f) == NoConn \in get_hdl_from_session(sessionid[f])

-----------------------------------------------------------------------------
(* Process and connections.                                                 *)

\* The constructor: connect() resets what the previous process left online.
Start ==
  /\ ~up
  /\ resetPresence
  /\ up' = TRUE
  /\ UNCHANGED <<cstate, m_connections, m_next_sessionid, task, historyVars>>

\* SIGINT: main.cpp's handler stops the server and exits, whatever is going on.
\* Without the fault it is only sent between handlers.
Kill ==
  /\ up
  /\ task.at = "idle" \/ "kill" \in Faults
  /\ Die

\* A statement fails.  Only login and logout (and registration) catch it.
DbFault ==
  /\ "db" \in Faults
  /\ \/ /\ task.at \in {"login.session", "login.lists", "login.notify",
                        "logout.session", "logout.email", "logout.notify"}
        /\ Reply(task.hdl)
        /\ UNCHANGED <<procVars, dbVars, historyVars>>
     \/ /\ task.at \in {"close.session", "add.push", "accept.chat", "accept.self",
                        "accept.peer", "accept.push", "msg.echo", "msg.direct",
                        "msg.flag", "msg.room"}
        /\ Die

\* Mutant: every connection gets the same session id.
on_openSameId(c) ==
  /\ up /\ task.at = "idle" /\ cstate[c] = "absent"
  /\ m_next_sessionid <= MaxSession
  /\ cstate' = [cstate EXCEPT ![c] = "open"]
  /\ m_connections' = [m_connections EXCEPT ![c] = m_next_sessionid]
  /\ UNCHANGED <<up, m_next_sessionid, task, historyVars, dbVars>>

\* The handshake is done: a map entry with a fresh session id.
on_open(c) ==
  /\ up /\ task.at = "idle" /\ cstate[c] = "absent"
  /\ m_next_sessionid <= MaxSession
  /\ cstate' = [cstate EXCEPT ![c] = "open"]
  /\ m_connections' = [m_connections EXCEPT ![c] = m_next_sessionid]
  /\ m_next_sessionid' = m_next_sessionid + 1
  /\ UNCHANGED <<up, task, historyVars, dbVars>>

\* The library reads a close frame or an end of file: nothing can be sent on c
\* any more, but on_close runs only after the asynchronous shutdown.
PeerCloses(c) ==
  /\ Receives(c)
  /\ cstate' = [cstate EXCEPT ![c] = "closing"]
  /\ UNCHANGED <<up, m_connections, m_next_sessionid, task, historyVars, dbVars>>

\* Mutant: the row keeps its online flag.
on_closeNoLogout(c) ==
  /\ up /\ task.at = "idle" /\ cstate[c] = "closing"
  /\ task' = [Idle EXCEPT !.at = "close.session", !.hdl = c]
  /\ UNCHANGED <<procVars, historyVars, dbVars>>

\* Mutant: the two updates swapped, so that the second finds no user any more.
on_closeSwapped(c) ==
  /\ up /\ task.at = "idle" /\ cstate[c] = "closing"
  /\ setSessionID(Caller(c), NoSession)
  /\ task' = [Idle EXCEPT !.at = "close.session", !.hdl = c]
  /\ UNCHANGED <<procVars, historyVars>>

\* Mutant: the entry is erased and the row forgotten.
on_closeErases(c) ==
  /\ up /\ task.at = "idle" /\ cstate[c] = "closing"
  /\ m_connections' = [m_connections EXCEPT ![c] = 0]
  /\ cstate' = [cstate EXCEPT ![c] = "absent"]
  /\ UNCHANGED <<up, m_next_sessionid, task, historyVars, dbVars>>

\* on_close up to logoutClient; get_data_from_hdl throws for an unknown handle.
on_close(c) ==
  /\ up /\ task.at = "idle" /\ cstate[c] = "closing"
  /\ IF Session(c) = 0
     THEN Die
     ELSE /\ setOnline(Caller(c), FALSE)
          /\ task' = [Idle EXCEPT !.at = "close.session", !.hdl = c]
          /\ UNCHANGED <<procVars, historyVars>>

\* Mutant: the entry's session is reset like the row's instead of erased.
CloseSessionKeepsEntry ==
  LET c == task.hdl IN
  /\ task.at = "close.session"
  /\ setSessionID(Caller(c), NoSession)
  /\ m_connections' = [m_connections EXCEPT ![c] = NoSession]
  /\ cstate' = [cstate EXCEPT ![c] = "absent"]
  /\ task' = Idle
  /\ UNCHANGED <<up, m_next_sessionid, historyVars>>

\* The rest of it.  The user is looked up again from the same session.
CloseSession ==
  LET c == task.hdl IN
  /\ task.at = "close.session"
  /\ setSessionID(Caller(c), NoSession)
  /\ m_connections' = [m_connections EXCEPT ![c] = 0]
  /\ cstate' = [cstate EXCEPT ![c] = "absent"]
  /\ task' = Idle
  /\ authed' = [authed EXCEPT ![c] = {}]
  /\ seen' = [seen EXCEPT ![c] = {}]
  /\ listed' = [listed EXCEPT ![c] = NoUser]
  /\ UNCHANGED <<up, m_next_sessionid>>

\* The handler of a request returns to the event loop.
Return ==
  /\ task.at = "return"
  /\ task' = Idle
  /\ UNCHANGED <<procVars, historyVars, dbVars>>

-----------------------------------------------------------------------------
(* Registration and login.                                                  *)

\* An address already taken, or a field missing, is refused.
Register(c, u) ==
  /\ Receives(c)
  /\ u \notin registered
  /\ registerClient(u)
  /\ Reply(c)
  /\ UNCHANGED <<procVars, historyVars>>

\* Any request turned down without a change: a registration of a taken address
\* or without its fields, a login with a wrong address or password, a search, a
\* malformed acceptFriend or newMessage.
Refuse(c) ==
  /\ Receives(c)
  /\ Reply(c)
  /\ UNCHANGED <<procVars, historyVars, dbVars>>

\* loginClient with the right password.  Nothing asks whether u is online
\* already or whether somebody else is logged in on c.
Login(c, u) ==
  /\ Receives(c)
  /\ u \in registered
  /\ AccountSwitch \/ authed[c] \subseteq {u}
  /\ setOnline(u, TRUE)
  /\ authed' = [authed EXCEPT ![c] = @ \cup {u}]
  /\ task' = [Idle EXCEPT !.at = "login.session", !.hdl = c, !.uid = u]
  /\ UNCHANGED <<procVars, seen, listed>>

LoginSession ==
  /\ task.at = "login.session"
  /\ setSessionID(task.uid, Session(task.hdl))
  /\ listed' = [listed EXCEPT ![task.hdl] = NoUser]
  /\ Goto("login.lists")
  /\ UNCHANGED <<procVars, authed, seen>>

\* User data, friend list and open requests go to the client itself; todo is
\* whom to notify.  An unreadable template is caught and answered as an error.
LoginLists ==
  /\ task.at = "login.lists"
  /\ \/ task' = [task EXCEPT !.at = "login.notify", !.answered = TRUE,
                             !.todo = getFrindIds(Caller(task.hdl))]
     \/ "template" \in Faults /\ Reply(task.hdl)
  /\ UNCHANGED <<procVars, historyVars, dbVars>>

\* notifyOnline to one friend.  What send throws is caught by the login branch:
\* the client gets an error and the rest of the login is skipped.
LoginNotify(f) ==
  /\ task.at = "login.notify" /\ f \in task.todo
  /\ \/ /\ ~online[f] \/ MaySend(f)
        /\ task' = [task EXCEPT !.todo = @ \ {f}]
        /\ UNCHANGED <<procVars, historyVars, dbVars>>
     \/ /\ online[f] /\ MayThrow(f)
        /\ Reply(task.hdl)
        /\ UNCHANGED <<procVars, historyVars, dbVars>>
     \/ online[f] /\ MayBreak(f) /\ Die

\* Mutant: only the messages not delivered before.
LoginChatsUndelivered ==
  LET c == task.hdl IN
  /\ task.at = "login.notify" /\ task.todo = {}
  /\ seen' = [seen EXCEPT ![c] = @ \cup
                {m \in getChatsByUid(Caller(c)) : ~messages[m].transmitted}]
  /\ listed' = [listed EXCEPT ![c] = Caller(c)]
  /\ Reply(c)
  /\ UNCHANGED <<procVars, authed, dbVars>>

\* The chats and their messages, of whoever the session stands for.
LoginChats ==
  LET c == task.hdl IN
  /\ task.at = "login.notify" /\ task.todo = {}
  /\ seen' = [seen EXCEPT ![c] = @ \cup getChatsByUid(Caller(c))]
  /\ listed' = [listed EXCEPT ![c] = Caller(c)]
  /\ Reply(c)
  /\ UNCHANGED <<procVars, authed, dbVars>>

-----------------------------------------------------------------------------
(* Logout.                                                                  *)

Logout(c) ==
  /\ Receives(c)
  /\ setOnline(Caller(c), FALSE)
  /\ task' = [Idle EXCEPT !.at = "logout.session", !.hdl = c, !.uid = Caller(c)]
  /\ UNCHANGED <<procVars, historyVars>>

\* The session goes and the client is told.
LogoutSession ==
  /\ task.at = "logout.session"
  /\ setSessionID(task.uid, NoSession)
  /\ authed' = [authed EXCEPT ![task.hdl] = @ \ {task.uid}]
  /\ listed' = [listed EXCEPT ![task.hdl] = NoUser]
  /\ task' = [task EXCEPT !.at = "logout.email", !.answered = TRUE]
  /\ UNCHANGED <<procVars, seen>>

\* getEmail(-1) reads the first row of an empty result.
LogoutEmail ==
  /\ task.at = "logout.email"
  /\ IF task.uid = NoUser
     THEN Die
     ELSE /\ task' = [task EXCEPT !.at = "logout.notify", !.todo = getFrindIds(task.uid)]
          /\ UNCHANGED <<procVars, historyVars, dbVars>>

\* notifyOnline (offline) to one friend; only pqxx exceptions are caught here.
LogoutNotify(f) ==
  /\ task.at = "logout.notify" /\ f \in task.todo
  /\ \/ /\ ~online[f] \/ MaySend(f)
        /\ task' = [task EXCEPT !.todo = @ \ {f}]
        /\ UNCHANGED <<procVars, historyVars, dbVars>>
     \/ online[f] /\ MayThrow(f) /\ Die

LogoutDone ==
  /\ task.at = "logout.notify" /\ task.todo = {}
  /\ Finish
  /\ UNCHANGED <<procVars, historyVars, dbVars>>
=============================================================================
