----------------------------- MODULE WebClient -----------------------------
(***************************************************************************)
(* The browser's side of a connection: one tab per connection, what its    *)
(* page shows (websocket.js over the templates), the messages on their way *)
(* to it and the requests on their way to the server.  TCP keeps both in   *)
(* order.  A message is its kind and the values a property looks at.       *)
(***************************************************************************)
EXTENDS Integers, Sequences, Functions

CONSTANTS User, Conn,
          Asked,       \* bound: the kinds of requests users make
          MaxOut,      \* bound: requests of all tabs the server has not read yet
          Patient      \* is a login submitted only when none is unanswered?

VARIABLES
  tab,      \* what each page holds
  wire,     \* messages sent to it and not yet processed
  outbox    \* requests it sent and the server has not handled

clientVars == <<tab, wire, outbox>>

\* page: no tab, a tab whose socket has closed, before and after a login.
Tab == [page : {"closed", "lost", "login", "intern"},
        websocketOk : BOOLEAN,
        waiting : BOOLEAN,            \* was a login submitted and not answered?
        friends : Seq([email : User, online : BOOLEAN]),
        requests : Seq(User),
        requestsShown : BOOLEAN,      \* is <div id="requests"> in the page?
        users : SUBSET User,          \* the search result
        chats : Seq([id : Nat, messages : Seq(Nat)])]

NoTab == [page |-> "closed", websocketOk |-> FALSE, waiting |-> FALSE,
          friends |-> <<>>, requests |-> <<>>, requestsShown |-> TRUE,
          users |-> {}, chats |-> <<>>]

ClientTypeOK ==
  /\ tab \in [Conn -> Tab]
  /\ \A c \in Conn : wire[c] # <<>> => tab[c].page \in {"login", "intern"}

ClientInit ==
  /\ tab = [c \in Conn |-> NoTab]
  /\ wire = [c \in Conn |-> <<>>]
  /\ outbox = [c \in Conn |-> <<>>]

-----------------------------------------------------------------------------
(* What a message does to the page that processes it.                       *)

\* Mutant: newer messages first.
addMessageInFront(t, m) ==
  [t EXCEPT !.chats = [i \in DOMAIN t.chats |->
     IF t.chats[i].id = m.messageTo /\ \A j \in 1..(i - 1) : t.chats[j].id # m.messageTo
     THEN [t.chats[i] EXCEPT !.messages = <<m.id>> \o @]
     ELSE t.chats[i]]]

\* The first chat with the id.  Without one the handler throws and the page
\* stays as it is.
addMessageToChat(t, m) ==
  [t EXCEPT !.chats = [i \in DOMAIN t.chats |->
     IF t.chats[i].id = m.messageTo /\ \A j \in 1..(i - 1) : t.chats[j].id # m.messageTo
     THEN [t.chats[i] EXCEPT !.messages = Append(@, m.id)]
     ELSE t.chats[i]]]

\* Every entry of the friend, however often it is listed.
notifyOnline(t, m) ==
  [t EXCEPT !.friends = [i \in DOMAIN t.friends |->
     IF t.friends[i].email = m.email THEN [t.friends[i] EXCEPT !.online = m.online]
     ELSE t.friends[i]]]

\* "requests" is no variable of the script but the window's name for the
\* element of that id, whose remove() takes it out of the page and ignores the
\* predicate; the list behind it is untouched.  Later calls find no element.
deleteRequest(t, email) == [t EXCEPT !.requestsShown = FALSE]

processMessage(t, m) ==
  CASE m.kind = "login"        -> [t EXCEPT !.page = "intern", !.waiting = FALSE,
                                             !.requestsShown = TRUE]
    [] m.kind = "loginFailed"  -> [t EXCEPT !.waiting = FALSE]
    [] m.kind = "searchUser"   -> [t EXCEPT !.users = m.values]
    [] m.kind = "addFriend"    -> [t EXCEPT !.users = {}]
    [] m.kind = "acceptFriend" -> deleteRequest(t, m.friendMail)
    [] m.kind = "newMessage"   -> addMessageToChat(t, m)
    [] m.kind = "friendRequest" -> [t EXCEPT !.requests = @ \o m.values]
    [] m.kind \in {"friendlist", "newFriendListUser"}
                               -> [t EXCEPT !.friends = @ \o m.values]
    [] m.kind \in {"chatlist", "newchat"} -> [t EXCEPT !.chats = @ \o m.values]
    [] m.kind = "notifyOnline" -> notifyOnline(t, m)
    [] m.kind = "logout"       -> NoTab       \* close() and reload
    [] OTHER -> t                             \* registration, failures, errors

\* onmessage.  A page that closed its socket hears nothing more.
onmessage(c) ==
  /\ wire[c] # <<>>
  /\ tab' = [tab EXCEPT ![c] = processMessage(@, Head(wire[c]))]
  /\ wire' = [wire EXCEPT ![c] = IF Head(wire[c]).kind = "logout" THEN <<>> ELSE Tail(@)]
  /\ UNCHANGED outbox

\* Messages the server puts on the wires, one sequence per connection.
Put(msgs) ==
  wire' = [c \in Conn |-> IF tab[c].page \in {"login", "intern"}
                          THEN wire[c] \o msgs[c] ELSE <<>>]

-----------------------------------------------------------------------------
(* The life of a tab.                                                       *)

\* The page is loaded and its socket opens.
onopen(c) ==
  /\ tab[c].page \in {"closed", "lost"}
  /\ tab' = [tab EXCEPT ![c] = [NoTab EXCEPT !.page = "login", !.websocketOk = TRUE]]
  /\ wire' = [wire EXCEPT ![c] = <<>>]
  /\ outbox' = [outbox EXCEPT ![c] = <<>>]

\* Mutant: what was on its way stays for the next page.
CloseTabOnly(c) ==
  /\ tab[c].page # "closed"
  /\ tab' = [tab EXCEPT ![c] = NoTab]
  /\ UNCHANGED <<wire, outbox>>

\* The user closes or reloads it; requests already sent are still on their way.
CloseTab(c) ==
  /\ tab[c].page # "closed"
  /\ tab' = [tab EXCEPT ![c] = NoTab]
  /\ wire' = [wire EXCEPT ![c] = <<>>]
  /\ UNCHANGED outbox

\* The sockets of all tabs end with the server.  The page has no handler for
\* close; whether the browser reports an error before it is the browser's affair.
SocketsEnd ==
  /\ \E ok \in BOOLEAN :
       tab' = [c \in Conn |-> IF tab[c].page = "closed" THEN NoTab
                ELSE [NoTab EXCEPT !.page = "lost",
                                   !.websocketOk = ok /\ tab[c].websocketOk]]
  /\ wire' = [c \in Conn |-> <<>>]
  /\ outbox' = [c \in Conn |-> <<>>]

-----------------------------------------------------------------------------
(* What the user can do on a page; each sends one request.                  *)

\* Requests of all tabs that the server has not read.
Unread == FoldFunction(LAMBDA q, n : n + Len(q), 0, outbox)

sendMessage(c, r) ==
  /\ r.request \in Asked
  /\ Unread < MaxOut
  /\ outbox' = [outbox EXCEPT ![c] = Append(@, r)]
  /\ UNCHANGED wire

SubmitRegistration(c, u) ==
  /\ tab[c].page = "login"
  /\ sendMessage(c, [request |-> "registration", email |-> u])
  /\ UNCHANGED tab

SubmitLogin(c, u) ==
  /\ tab[c].page = "login"
  /\ Patient => ~tab[c].waiting
  /\ sendMessage(c, [request |-> "login", email |-> u])
  /\ tab' = [tab EXCEPT ![c].waiting = TRUE]

ClickLogout(c) ==
  /\ tab[c].page = "intern"
  /\ sendMessage(c, [request |-> "logout"])
  /\ UNCHANGED tab

SubmitSearch(c) ==
  /\ tab[c].page = "intern"
  /\ sendMessage(c, [request |-> "searchUser"])
  /\ UNCHANGED tab

ClickAdd(c, u) ==
  /\ tab[c].page = "intern" /\ u \in tab[c].users
  /\ sendMessage(c, [request |-> "addFriend", email |-> u])
  /\ UNCHANGED tab

\* The entry of the list whose button is clicked, Annehmen or Ablehnen.
ClickRequest(c, i, answer) ==
  /\ tab[c].page = "intern" /\ tab[c].requestsShown
  /\ sendMessage(c, [request |-> "acceptFriend", email |-> tab[c].requests[i],
                     answer |-> answer])
  /\ UNCHANGED tab

SubmitMessage(c, i) ==
  /\ tab[c].page = "intern"
  /\ sendMessage(c, [request |-> "newMessage", cid |-> tab[c].chats[i].id])
  /\ UNCHANGED tab

UserStep(c) ==
  \/ \E u \in User : SubmitRegistration(c, u) \/ SubmitLogin(c, u) \/ ClickAdd(c, u)
  \/ ClickLogout(c) \/ SubmitSearch(c)
  \/ \E i \in DOMAIN tab[c].requests : ClickRequest(c, i, TRUE) \/ ClickRequest(c, i, FALSE)
  \/ \E i \in DOMAIN tab[c].chats : SubmitMessage(c, i)
=============================================================================
