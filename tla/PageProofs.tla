----------------------------- MODULE PageProofs -----------------------------
(***************************************************************************)
(* What a page that has caught up shows its user: every open request made  *)
(* to the user and every friend.  Other clients' handlers push to a page   *)
(* while its own login is answered and while it works off what came        *)
(* before, so the invariants speak of where all messages on its wire will  *)
(* lead it, not of what it shows at the moment.                            *)
(*                                                                         *)
(* Assumed is what DeliveryProofs assumes of the server: no second account *)
(* on a connection; SystemAssumption has the rest.                         *)
(***************************************************************************)
EXTENDS SystemProofs

-----------------------------------------------------------------------------
(* What a page will show: where the messages on its wire lead.  Whether it  *)
(* waits for an answer is left out, so that clicks do not matter; a page    *)
(* that hears "logout" is gone, which is not what is asked here.            *)

Unasked(t) == [t EXCEPT !.waiting = FALSE]

After(t, m) == IF m.kind = "logout" THEN t ELSE processMessage(t, m)

Leads(p, w, t) ==
  \E g \in [0..Len(w) -> Page] :
    /\ g[0] = p /\ g[Len(w)] = t
    /\ \A i \in 1..Len(w) : g[i] = After(g[i - 1], w[i])

Coming(c, t) == Leads(Unasked(tab[c]), wire[c], t)

LEMMA AfterPage == ASSUME NEW t \in Page, NEW m \in Msg PROVE After(t, m) \in Page
  BY Processed DEF After

LEMMA LeadsNone ==
  ASSUME NEW p \in Page PROVE Leads(p, <<>>, p) /\ \A t : Leads(p, <<>>, t) => t = p
  <1>1. Len(<<>>) = 0 /\ 1..0 = {} /\ 0..0 = {0}
    BY EmptySeq
  <1>2. Leads(p, <<>>, p)
    <2> DEFINE g == [i \in 0..0 |-> p]
    <2>1. g \in [0..0 -> Page] /\ g[0] = p
      OBVIOUS
    <2> HIDE DEF g
    <2> QED BY <1>1, <2>1 DEF Leads
  <1>3. \A t : Leads(p, <<>>, t) => t = p
    BY <1>1 DEF Leads
  <1> QED BY <1>2, <1>3

\* What leads through two parts leads through the first and then the second.
LEMMA LeadsOn ==
  ASSUME NEW p, NEW w \in Seq(Msg), NEW s \in Seq(Msg), NEW t, Leads(p, w \o s, t)
  PROVE  \E q \in Page : Leads(p, w, q) /\ Leads(q, s, t)
  <1> DEFINE n == Len(w)
             k == Len(s)
  <1>0. /\ n \in Nat /\ k \in Nat /\ Len(w \o s) = n + k
        /\ \A i \in 1..n : (w \o s)[i] = w[i]
        /\ \A i \in 1..k : (w \o s)[n + i] = s[i]
    BY ConcatProperties
  <1>1. PICK g \in [0..(n + k) -> Page] :
          /\ g[0] = p /\ g[n + k] = t
          /\ \A i \in 1..(n + k) : g[i] = After(g[i - 1], (w \o s)[i])
    BY <1>0 DEF Leads
  <1> HIDE DEF n, k
  <1>2. g[n] \in Page
    BY <1>0, <1>1
  <1>3. Leads(p, w, g[n])
    <2> DEFINE a == [i \in 0..n |-> g[i]]
    <2>1. a \in [0..n -> Page] /\ a[0] = p /\ a[n] = g[n]
      BY <1>0, <1>1
    <2>2. ASSUME NEW i \in 1..n PROVE a[i] = After(a[i - 1], w[i])
      <3>1. i \in 1..(n + k) /\ i \in 0..n /\ i - 1 \in 0..n
        BY <1>0
      <3>2. a[i] = g[i] /\ a[i - 1] = g[i - 1]
        BY <3>1
      <3> QED BY <1>0, <1>1, <3>1, <3>2
    <2> HIDE DEF a
    <2> QED BY <2>1, <2>2 DEF Leads, n
  <1>4. Leads(g[n], s, t)
    <2> DEFINE b == [i \in 0..k |-> g[n + i]]
    <2>1. b \in [0..k -> Page] /\ b[0] = g[n] /\ b[k] = t
      BY <1>0, <1>1
    <2>2. ASSUME NEW i \in 1..k PROVE b[i] = After(b[i - 1], s[i])
      <3>1. n + i \in 1..(n + k) /\ i \in 0..k /\ i - 1 \in 0..k /\ (n + i) - 1 = n + (i - 1)
        BY <1>0
      <3>2. b[i] = g[n + i] /\ b[i - 1] = g[(n + i) - 1]
        BY <3>1
      <3> QED BY <1>0, <1>1, <3>1, <3>2
    <2> HIDE DEF b
    <2> QED BY <2>1, <2>2 DEF Leads, k
  <1> QED BY <1>2, <1>3, <1>4

\* The first message can be processed now or later.
LEMMA LeadsFirst ==
  ASSUME NEW p \in Page, NEW w \in Seq(Msg), w # <<>>, NEW t, Leads(After(p, Head(w)), Tail(w), t)
  PROVE  Leads(p, w, t)
  <1> DEFINE k == Len(Tail(w))
             q == After(p, Head(w))
  <1>0. /\ Len(w) = k + 1 /\ k \in Nat /\ w[1] = Head(w)
        /\ \A i \in 1..k : Tail(w)[i] = w[i + 1]
    BY HeadTailProperties, EmptySeq
  <1>1. PICK g \in [0..k -> Page] :
          g[0] = q /\ g[k] = t /\ \A i \in 1..k : g[i] = After(g[i - 1], Tail(w)[i])
    BY DEF Leads
  <1> HIDE DEF k, q
  <1> DEFINE a == [i \in 0..(k + 1) |-> IF i = 0 THEN p ELSE g[i - 1]]
  <1>2. a \in [0..(k + 1) -> Page]
    BY <1>0, <1>1
  <1>3. a[0] = p /\ a[k + 1] = t
    BY <1>0, <1>1
  <1>4. ASSUME NEW i \in 1..(k + 1) PROVE a[i] = After(a[i - 1], w[i])
    <2>1. i \in 0..(k + 1) /\ i - 1 \in 0..(k + 1) /\ i # 0
      BY <1>0
    <2>2. a[i] = g[i - 1]
      BY <2>1
    <2>3. CASE i = 1
      <3>1. a[i - 1] = p /\ g[i - 1] = q /\ w[i] = Head(w)
        BY <1>0, <1>1, <2>3
      <3> HIDE DEF a
      <3> QED BY <2>2, <3>1 DEF q
    <2>4. CASE i # 1
      <3>1. i - 1 \in 1..k /\ (i - 1) + 1 = i
        BY <1>0, <2>4
      <3>2. a[i - 1] = g[(i - 1) - 1]
        BY <2>1, <2>4
      <3>3. Tail(w)[i - 1] = w[i]
        BY <1>0, <3>1
      <3> HIDE DEF a
      <3> QED BY <1>1, <2>2, <3>1, <3>2, <3>3
    <2> QED BY <2>3, <2>4
  <1> HIDE DEF a
  <1> QED BY <1>0, <1>2, <1>3, <1>4 DEF Leads

\* One message leads to what it makes of the page.
LEMMA LeadsOne ==
  ASSUME NEW p \in Page, NEW m \in Msg, NEW t, Leads(p, <<m>>, t) PROVE t = After(p, m)
  <1>1. Len(<<m>>) = 1 /\ <<m>>[1] = m /\ 1 \in 1..1 /\ 1 - 1 = 0
    OBVIOUS
  <1> QED BY <1>1 DEF Leads
\* What every message keeps, from some point on, is there in the end.
LEMMA LeadsFrom ==
  ASSUME NEW P, NEW w \in Seq(Msg), NEW g \in [0..Len(w) -> Page], NEW k \in 0..Len(w),
         \A i \in 1..Len(w) : g[i] = After(g[i - 1], w[i]),
         g[k] \in P, \A p \in P : \A i \in 1..Len(w) : After(p, w[i]) \in P
  PROVE  g[Len(w)] \in P
  <1> DEFINE S == {n \in Nat : k + n <= Len(w) => g[k + n] \in P}
  <1>0. Len(w) \in Nat /\ k \in Nat
    OBVIOUS
  <1>1. 0 \in S
    BY <1>0
  <1>2. ASSUME NEW n \in Nat, n \in S PROVE n + 1 \in S
    <2> SUFFICES ASSUME k + (n + 1) <= Len(w) PROVE g[k + (n + 1)] \in P
      OBVIOUS
    <2>1. k + n <= Len(w) /\ k + (n + 1) \in 1..Len(w) /\ (k + (n + 1)) - 1 = k + n
      BY <1>0
    <2>2. g[k + n] \in P
      BY <1>2, <2>1
    <2> QED BY <2>1, <2>2
  <1>3. Nat \subseteq S
    <2> HIDE DEF S
    <2> QED BY <1>1, <1>2, NatSteps
  <1>4. Len(w) - k \in Nat /\ k + (Len(w) - k) = Len(w)
    BY <1>0
  <1>5. Len(w) - k \in S
    <2> HIDE DEF S
    <2> QED BY <1>3, <1>4
  <1> QED BY <1>4, <1>5

LEMMA LeadsStay ==
  ASSUME NEW P, NEW w \in Seq(Msg), NEW p \in P, NEW t, Leads(p, w, t),
         \A q \in P : \A i \in 1..Len(w) : After(q, w[i]) \in P
  PROVE  t \in P
  <1>1. PICK g \in [0..Len(w) -> Page] :
          g[0] = p /\ g[Len(w)] = t /\ \A i \in 1..Len(w) : g[i] = After(g[i - 1], w[i])
    BY DEF Leads
  <1>2. 0 \in 0..Len(w)
    OBVIOUS
  <1> QED BY <1>1, <1>2, LeadsFrom

\* What one of the messages brings about and all keep is there in the end.
LEMMA LeadsGains ==
  ASSUME NEW P, NEW w \in Seq(Msg), NEW p, NEW t, Leads(p, w, t), NEW k \in 1..Len(w),
         \A q \in Page : After(q, w[k]) \in P,
         \A q \in P : \A i \in 1..Len(w) : After(q, w[i]) \in P
  PROVE  t \in P
  <1>1. PICK g \in [0..Len(w) -> Page] :
          g[0] = p /\ g[Len(w)] = t /\ \A i \in 1..Len(w) : g[i] = After(g[i - 1], w[i])
    BY DEF Leads
  <1>2. k \in 0..Len(w) /\ k - 1 \in 0..Len(w)
    OBVIOUS
  <1>3. g[k] \in P
    BY <1>1, <1>2
  <1> QED BY <1>1, <1>2, <1>3, LeadsFrom

LEMMA LeadsType == ASSUME NEW p, NEW w \in Seq(Msg), NEW t, Leads(p, w, t) PROVE t \in Page
  BY DEF Leads

-----------------------------------------------------------------------------
(* What a step adds to the wire of a page.                                  *)

On(c) == tab[c].page \in {"login", "intern"}

\* Where page c is going is reached by w from where it was going.
Sent(c, w) ==
  On(c)' => /\ On(c)
            /\ \A t : Coming(c, t)' => \E q : Coming(c, q) /\ Leads(q, w, t)

LEMMA ComingType == ASSUME PagesInv, NEW c \in Conn, NEW t, Coming(c, t) PROVE t \in Page
  BY LeadsType DEF Coming, PagesInv

LEMMA PutSent ==
  ASSUME PagesInv, NEW msgs \in [Conn -> Seq(Msg)], Put(msgs), UNCHANGED tab, NEW c \in Conn
  PROVE  Sent(c, msgs[c])
  <1> SUFFICES ASSUME On(c)', NEW t, Coming(c, t)'
               PROVE  On(c) /\ \E q : Coming(c, q) /\ Leads(q, msgs[c], t)
    BY DEF Sent, On
  <1>1. On(c) /\ wire'[c] = wire[c] \o msgs[c]
    BY DEF On, Put
  <1>2. Leads(Unasked(tab[c]), wire[c] \o msgs[c], t)
    BY <1>1 DEF Coming
  <1>3. wire[c] \in Seq(Msg) /\ msgs[c] \in Seq(Msg)
    BY DEF PagesInv
  <1>4. \E q \in Page : Leads(Unasked(tab[c]), wire[c], q) /\ Leads(q, msgs[c], t)
    BY <1>2, <1>3, LeadsOn
  <1> QED BY <1>1, <1>4 DEF Coming

\* Whether it waits for an answer does not change what a message does to a page.
LEMMA UnaskedProcess ==
  ASSUME NEW x \in Page, NEW m \in Msg, m.kind # "logout"
  PROVE  Unasked(processMessage(x, m)) = After(Unasked(x), m)
  <1>0. x \in Tab
    BY DEF Page
  <1>1. CASE m.kind = "newMessage"
    <2>1. addMessageToChat(Unasked(x), m).chats = addMessageToChat(x, m).chats
      BY <1>0 DEF addMessageToChat, Unasked, Tab
    <2> QED BY <1>0, <1>1, <2>1 DEF processMessage, addMessageToChat, Unasked, After, Tab
  <1>2. CASE m.kind = "notifyOnline"
    <2>1. notifyOnline(Unasked(x), m).friends = notifyOnline(x, m).friends
      BY <1>0 DEF notifyOnline, Unasked, Tab
    <2> QED BY <1>0, <1>2, <2>1 DEF processMessage, notifyOnline, Unasked, After, Tab
  <1>3. CASE m.kind = "friendRequest"
    BY <1>0, <1>3 DEF processMessage, Unasked, After, Tab
  <1>4. CASE m.kind \in {"friendlist", "newFriendListUser"}
    BY <1>0, <1>4 DEF processMessage, Unasked, After, Tab
  <1>5. CASE m.kind \in {"chatlist", "newchat"}
    BY <1>0, <1>5 DEF processMessage, Unasked, After, Tab
  <1>6. CASE m.kind = "login"
    BY <1>0, <1>6 DEF processMessage, Unasked, After, Tab
  <1>7. CASE m.kind \in {"loginFailed", "addFriend", "acceptFriend", "searchUser"}
    BY <1>0, <1>7 DEF processMessage, deleteRequest, Unasked, After, Tab
  <1>8. CASE m.kind \in {"registration", "failed", "error"}
    BY <1>8 DEF processMessage, After
  <1>9. m.kind \in {"registration", "login", "loginFailed", "addFriend", "failed",
                    "error", "acceptFriend", "searchUser", "friendRequest", "friendlist",
                    "newFriendListUser", "chatlist", "newchat", "newMessage", "notifyOnline"}
    BY DEF Msg
  <1> QED BY <1>1, <1>2, <1>3, <1>4, <1>5, <1>6, <1>7, <1>8, <1>9

\* The same with messages from M, whatever step it is; a page whose connection is
\* only opening has nothing to go on from.
Onward(c, M) ==
  On(c)' /\ Live(c) =>
    /\ On(c)
    /\ \A t : Coming(c, t)' => \E q : \E w \in Seq(M) : Coming(c, q) /\ Leads(q, w, t)

LEMMA SameOnward ==
  ASSUME PagesInv, NEW c \in Conn, NEW M, wire'[c] = wire[c],
         Unasked(tab[c])' = Unasked(tab[c]), tab'[c].page = tab[c].page
  PROVE  Onward(c, M)
  <1> SUFFICES ASSUME On(c)', NEW t, Coming(c, t)'
               PROVE  On(c) /\ \E q : \E w \in Seq(M) : Coming(c, q) /\ Leads(q, w, t)
    BY DEF Onward, On
  <1>1. On(c) /\ Coming(c, t)
    BY DEF On, Coming
  <1>2. t \in Page
    BY <1>1, ComingType
  <1>3. Leads(t, <<>>, t) /\ <<>> \in Seq(M)
    BY <1>2, LeadsNone, EmptySeq
  <1> QED BY <1>1, <1>3

LEMMA EndOnward == ASSUME SocketsEnd, NEW c \in Conn, NEW M PROVE Onward(c, M)
  <1>1. PICK ok \in BOOLEAN :
          tab' = [d \in Conn |-> IF tab[d].page = "closed" THEN NoTab
                   ELSE [NoTab EXCEPT !.page = "lost",
                                      !.websocketOk = ok /\ tab[d].websocketOk]]
    BY DEF SocketsEnd
  <1>2. \A b : [NoTab EXCEPT !.page = "lost", !.websocketOk = b].page = "lost"
    BY DEF NoTab
  <1>3. tab'[c] = NoTab \/ tab'[c].page = "lost"
    BY <1>1, <1>2
  <1> QED BY <1>3 DEF Onward, On, NoTab

LEMMA SendsOnward ==
  ASSUME PagesInv, NEW M, M \subseteq Msg, Sends(M), NEW c \in Conn PROVE Onward(c, M)
  <1>1. CASE up'
    <2>1. PICK msgs \in [Conn -> Seq(M)] : Put(msgs) /\ UNCHANGED tab
      BY <1>1 DEF Sends
    <2>2. msgs \in [Conn -> Seq(Msg)]
      BY <2>1, SeqMonotonic
    <2>3. Sent(c, msgs[c])
      BY <2>1, <2>2, PutSent
    <2> QED BY <2>1, <2>3 DEF Sent, Onward
  <1>2. CASE ~up'
    BY <1>2, EndOnward DEF Sends
  <1> QED BY <1>1, <1>2

LEMMA UserOnward ==
  ASSUME PagesInv, NEW c \in Conn, NEW d \in Conn, UserStep(d), NEW M PROVE Onward(c, M)
  <1>1. /\ UNCHANGED wire
        /\ UNCHANGED tab \/ tab' = [tab EXCEPT ![d] = [tab[d] EXCEPT !.waiting = TRUE]]
    BY DEF UserStep, SubmitRegistration, SubmitLogin, ClickAdd, ClickLogout, SubmitSearch,
       ClickRequest, SubmitMessage, sendMessage
  <1>2. tab[c] \in Tab /\ tab[d] \in Tab
    BY DEF PagesInv, Page
  <1>3. CASE tab'[c] = tab[c]
    BY <1>1, <1>3, SameOnward DEF Unasked
  <1>4. CASE d = c /\ tab'[c] = [tab[c] EXCEPT !.waiting = TRUE]
    <2>1. Unasked(tab'[c]) = Unasked(tab[c]) /\ tab'[c].page = tab[c].page
      BY <1>2, <1>4 DEF Unasked, Tab
    <2> QED BY <1>1, <2>1, SameOnward DEF Unasked
  <1> QED BY <1>1, <1>3, <1>4 DEF PagesInv

LEMMA MessageOnward ==
  ASSUME PagesInv, NEW c \in Conn, NEW d \in Conn, onmessage(d), NEW M PROVE Onward(c, M)
  <1>1. CASE c # d
    <2>1. wire'[c] = wire[c] /\ tab'[c] = tab[c]
      BY <1>1 DEF onmessage, PagesInv
    <2> QED BY <2>1, SameOnward DEF Unasked
  <1>2. CASE c = d
    <2> DEFINE m == Head(wire[c])
    <2>1. /\ wire[c] # <<>> /\ wire[c] \in Seq(Msg) /\ tab[c] \in Page /\ m \in Msg
          /\ tab'[c] = processMessage(tab[c], m) /\ On(c)
      BY <1>2, HeadTailProperties DEF onmessage, PagesInv, On
    <2>2. CASE m.kind = "logout"
      <3>1. tab'[c].page = "closed"
        BY <2>1, <2>2 DEF processMessage, NoTab
      <3> QED BY <3>1 DEF Onward, On
    <2>3. CASE m.kind # "logout"
      <3>1. wire'[c] = Tail(wire[c])
        BY <1>2, <2>3 DEF onmessage, PagesInv
      <3>2. Unasked(tab'[c]) = After(Unasked(tab[c]), m)
        BY <2>1, <2>3, UnaskedProcess
      <3>3. Unasked(tab[c]) \in Page
        BY <2>1 DEF Unasked, Page, Tab
      <3>4. ASSUME NEW t, Coming(c, t)'
            PROVE  \E q : \E w \in Seq(M) : Coming(c, q) /\ Leads(q, w, t)
        <4>1. Leads(After(Unasked(tab[c]), m), Tail(wire[c]), t)
          BY <3>1, <3>2, <3>4 DEF Coming, Unasked
        <4>2. Coming(c, t)
          BY <2>1, <3>3, <4>1, LeadsFirst DEF Coming
        <4>3. t \in Page
          BY <4>2, ComingType
        <4> QED BY <4>2, <4>3, LeadsNone, EmptySeq
      <3> QED BY <2>1, <3>4 DEF Onward
    <2> QED BY <2>2, <2>3
  <1> QED BY <1>1, <1>2

LEMMA TabOnward ==
  ASSUME PagesInv, NEW c \in Conn, NEW d \in Conn, NEW M
  PROVE  /\ CloseTab(d) => Onward(c, M)
         /\ on_open(d) /\ onopen(d) => Onward(c, M)
  <1>1. CASE c # d
    <2>1. CloseTab(d) \/ onopen(d) => wire'[c] = wire[c] /\ tab'[c] = tab[c]
      BY <1>1 DEF CloseTab, onopen, PagesInv
    <2> QED BY <2>1, SameOnward DEF Unasked
  <1>2. CASE c = d
    <2>1. CloseTab(c) => tab'[c].page = "closed"
      BY DEF CloseTab, NoTab, PagesInv
    <2>2. on_open(c) => ~Live(c)
      BY DEF on_open, Live
    <2> QED BY <1>2, <2>1, <2>2 DEF Onward, On
  <1> QED BY <1>1, <1>2

LEMMA SystemOnward ==
  ASSUME SysInv, [SystemNext]_sysVars, NEW c \in Conn, NEW M, Glad \subseteq M, M \subseteq Msg,
         task.at = "logout.notify" => Notify(task.uid, FALSE) \in M
  PROVE  Onward(c, M)
  <1>0. PagesInv
    BY DEF SysInv
  <1>1. CASE UNCHANGED <<tab, wire>>
    BY <1>0, <1>1, SameOnward DEF Unasked
  <1>2. CASE Kill /\ SocketsEnd
    BY <1>2, EndOnward
  <1>3. CASE Handle
    BY <1>0, <1>3, HandleSends, SendsOnward
  <1>4. ASSUME NEW d \in Conn, on_open(d) /\ onopen(d) PROVE Onward(c, M)
    BY <1>0, <1>4, TabOnward
  <1>5. ASSUME NEW d \in Conn, on_close(d) /\ Post(None) PROVE Onward(c, M)
    BY <1>0, <1>5, NoneType, PostSends, SendsOnward
  <1>6. ASSUME NEW d \in Conn, Serve(d) PROVE Onward(c, M)
    BY <1>0, <1>6, ServeSteps, SendsMore, SendsOnward
  <1>7. ASSUME NEW d \in Conn, Browser(d) PROVE Onward(c, M)
    BY <1>0, <1>7, MessageOnward, TabOnward, UserOnward DEF Browser
  <1> QED BY <1>1, <1>2, <1>3, <1>4, <1>5, <1>6, <1>7 DEF SystemNext, sysVars

-----------------------------------------------------------------------------
(* What holds on the server's side while pages are served.                  *)

AllInv == SysInv /\ SInv /\ ChatInv

LEMMA InitAll == SystemInit => AllInv
  BY SystemInitKeeps, InitSees, InitChats DEF AllInv

LEMMA NextAll ==
  ASSUME ~AccountSwitch PROVE AllInv /\ [SystemNext]_sysVars => AllInv' /\ [Next]_vars
  <1>1. "kill" \notin Faults /\ "db" \notin Faults /\ SchemaKeys
    BY SystemAssumption
  <1> QED BY <1>1, SystemSteps, SystemNextKeeps, NextSees, NextChats DEF AllInv

\* A busy server goes on with its handler, whose label says how.
LEMMA Busy ==
  ASSUME AllInv, SystemNext, up', task.at # "idle" PROVE Handle
  <1>1. SysInv /\ up
    BY DEF AllInv, SInv, DInv, PInv, AuthInv, DownIsEmpty
  <1>2. \A c \in Conn : ~Request(c)
    BY DEF Request, Refuse, Register, Login, Logout, AddFriend, AcceptFriend, DeclineFriend,
       RemoveFriend, NewMessage, Receives
  <1>3. \A c \in Conn : ~on_open(c) /\ ~PeerCloses(c) /\ ~on_close(c) /\ ~Browser(c)
    BY DEF on_open, PeerCloses, on_close, Receives, Browser
  <1>4. \A c \in Conn : ~Serve(c)
    BY <1>1, <1>2, ServeSteps
  <1> QED BY <1>1, <1>3, <1>4 DEF SystemNext, Start, Kill, Die

LEMMA BusyAt ==
  ASSUME AllInv, SystemNext, up'
  PROVE  /\ task.at = "login.lists" => LoginListsSent
         /\ task.at = "login.notify" => LoginChatsSent \/ \E f \in User : LoginNotifySent(f)
         /\ task.at = "logout.notify" => Silent \/ \E f \in User : LogoutNotifySent(f)
         /\ task.at = "add.push" => AddFriendPushSent
         /\ task.at = "accept.push" => AcceptPushSent
  <1> USE DEF Handle, LoginListsSent, LoginChatsSent, LogoutSessionSent, AddFriendPushSent,
          AcceptPushSent, MsgEchoSent, MsgDirectSent, LoginNotifySent, LogoutNotifySent,
          LoginLists, LoginChats, LogoutSession, AddFriendPush, AcceptPush, MsgEcho, MsgDirect,
          LoginNotify, LogoutNotify
  <1>1. task.at # "idle" => Handle
    BY Busy
  <1>2. Silent => task.at \notin {"login.lists", "login.notify", "add.push", "accept.push"}
    BY DEF Silent, CloseSession, Return, LoginSession, LogoutEmail, LogoutDone, AcceptChat,
       AcceptSelf, AcceptPeer, MsgFlag, MsgRoomDone, removeRequest
  <1> QED BY <1>1, <1>2

-----------------------------------------------------------------------------
(* Whom a push reaches.                                                     *)

LEMMA PostReaches ==
  ASSUME PagesInv, NEW c \in Conn, NEW w \in Seq(Msg), Post(To(c, w)), up' PROVE Sent(c, w)
  <1>1. To(c, w) \in [Conn -> Seq(Msg)] /\ To(c, w)[c] = w
    BY ToType DEF To, None
  <1>2. Put(To(c, w)) /\ UNCHANGED tab
    BY DEF Post
  <1>3. Sent(c, To(c, w)[c])
    BY <1>1, <1>2, PutSent
  <1> QED BY <1>1, <1>3

\* Who listens is online, unless its connection is leaving, and is reached there.
LEMMA PushReaches ==
  ASSUME AllInv, NEW c \in Conn, NEW u \in User, Listening(c, u), ~Leaving(c),
         task.at # "login.session", task.hdl \in Conn,
         NEW s \in Seq(Msg), NEW own \in Seq(Msg), PushIfOnline(u, s, own), up'
  PROVE  Sent(c, s) \/ Sent(c, s \o own)
  <1>0. PagesInv /\ PInv /\ up /\ Bound(u, c) /\ "db" \notin Faults
    BY SystemAssumption DEF AllInv, SysInv, SInv, DInv, Listening
  <1>1. online[u] /\ u # NoUser
    BY DatabaseAssumption DEF AllInv, SInv, SeesInv, ListedOnline
  <1>2. PICK h \in get_hdl_from_session(sessionid[u]) :
          Post([To(h, s) EXCEPT ![task.hdl] = @ \o own])
    BY <1>1 DEF PushIfOnline, Push
  <1>3. h \in Conn /\ Bound(u, h)
    BY <1>0, <1>1, <1>2, HandleFound
  <1>4. h = c
    BY <1>0, <1>3, AtOnePlace
  <1> DEFINE msgs == [To(h, s) EXCEPT ![task.hdl] = @ \o own]
  <1>5. To(h, s) \in [Conn -> Seq(Msg)] /\ To(h, s)[c] = s
    BY <1>3, <1>4, ToType DEF To, None
  <1>6. To(h, s)[task.hdl] \o own \in Seq(Msg)
    BY <1>5, ConcatProperties
  <1>7. msgs \in [Conn -> Seq(Msg)] /\ (msgs[c] = s \/ msgs[c] = s \o own)
    BY <1>5, <1>6
  <1>8. Put(msgs) /\ UNCHANGED tab
    BY <1>2 DEF Post
  <1> HIDE DEF msgs
  <1>9. Sent(c, msgs[c])
    BY <1>0, <1>7, <1>8, PutSent
  <1> QED BY <1>7, <1>9

\* The caller gets what is for itself, alone or after what was pushed.
LEMMA OwnReaches ==
  ASSUME AllInv, task.hdl \in Conn, NEW f, NEW s \in Seq(Msg), NEW own \in Seq(Msg),
         PushIfOnline(f, s, own), up'
  PROVE  Sent(task.hdl, own) \/ Sent(task.hdl, s \o own)
  <1>0. PagesInv
    BY DEF AllInv, SysInv
  <1>1. CASE Post(To(task.hdl, own))
    BY <1>0, <1>1, PostReaches
  <1>2. CASE Push(f, s, own)
    <2>1. PICK h \in Conn : Post([To(h, s) EXCEPT ![task.hdl] = @ \o own])
      BY <1>2 DEF Push, CanSend
    <2> DEFINE msgs == [To(h, s) EXCEPT ![task.hdl] = @ \o own]
    <2>2. To(h, s) \in [Conn -> Seq(Msg)]
      BY ToType
    <2>3. To(h, s)[task.hdl] \o own \in Seq(Msg)
      BY <2>2, ConcatProperties
    <2>4. To(h, s)[task.hdl] = s \/ To(h, s)[task.hdl] = <<>>
      BY DEF To, None
    <2>5. <<>> \o own = own
      BY ConcatEmptySeq
    <2>6. msgs \in [Conn -> Seq(Msg)] /\ msgs[task.hdl] \in {own, s \o own}
      BY <2>2, <2>3, <2>4, <2>5
    <2>7. Put(msgs) /\ UNCHANGED tab
      BY <2>1 DEF Post
    <2> HIDE DEF msgs
    <2>8. Sent(task.hdl, msgs[task.hdl])
      BY <1>0, <2>6, <2>7, PutSent
    <2> QED BY <2>6, <2>8
  <1> QED BY <1>1, <1>2 DEF PushIfOnline

-----------------------------------------------------------------------------
(* The open requests.                                                       *)

\* Pages that list v among the requests, and that c will be one of P.
Lists(v) == {t \in Page : \E i \in DOMAIN t.requests : t.requests[i] = v}

Shows(c, P) == \A t : Coming(c, t) => t \in P

\* u has an open request of v.
OpenFrom(u, v) == \E r \in friends : r.fid = u /\ r.uid = v /\ ~r.accepted

\* u is about to be told of v's request.
Awaits(u, v) == task.at = "add.push" /\ task.fid = u /\ task.uid = v

Looking(c, u) == Listening(c, u) /\ On(c)

\* u has been logged in there, and its friends are being told.
Greeting(c, u) == task.at = "login.notify" /\ task.hdl = c /\ task.uid = u /\ On(c)

RequestsComing ==
  \A c \in Conn, u \in User : Looking(c, u) =>
    \A v \in User : OpenFrom(u, v) => Shows(c, Lists(v)) \/ Awaits(u, v)

\* A page that is being logged in was sent them first.
RequestsAtLogin ==
  \A c \in Conn, u \in User : Greeting(c, u) =>
    \A v \in User : OpenFrom(u, v) => Shows(c, Lists(v))

RequestsInv == RequestsComing /\ RequestsAtLogin

LEMMA SeqAppended ==
  ASSUME NEW S, NEW a \in Seq(S), NEW b \in Seq(S)
  PROVE  /\ \A i \in DOMAIN a : i \in DOMAIN (a \o b) /\ (a \o b)[i] = a[i]
         /\ \A i \in DOMAIN b : Len(a) + i \in DOMAIN (a \o b) /\ (a \o b)[Len(a) + i] = b[i]
  <1>1. /\ Len(a) \in Nat /\ Len(b) \in Nat /\ a \o b \in Seq(S)
        /\ Len(a \o b) = Len(a) + Len(b)
        /\ \A i \in 1..Len(a) : (a \o b)[i] = a[i]
        /\ \A i \in 1..Len(b) : (a \o b)[Len(a) + i] = b[i]
    BY ConcatProperties
  <1>2. DOMAIN a = 1..Len(a) /\ DOMAIN b = 1..Len(b) /\ DOMAIN (a \o b) = 1..(Len(a) + Len(b))
    BY <1>1
  <1> QED BY <1>1, <1>2

LEMMA ListsStay ==
  ASSUME NEW v, NEW p \in Lists(v), NEW m \in Msg PROVE After(p, m) \in Lists(v)
  <1>1. p \in Page /\ After(p, m) \in Page
    BY AfterPage DEF Lists
  <1>2. CASE m.kind = "friendRequest"
    <2>1. p.requests \in Seq(User) /\ m.values \in Seq(User)
      BY <1>1, <1>2 DEF Page, Tab, Msg
    <2>2. After(p, m).requests = p.requests \o m.values
      BY <1>1, <1>2 DEF After, processMessage, Page, Tab
    <2>3. PICK i \in DOMAIN p.requests : p.requests[i] = v
      BY DEF Lists
    <2>4. i \in DOMAIN (p.requests \o m.values) /\ (p.requests \o m.values)[i] = v
      BY <2>1, <2>3, SeqAppended
    <2> QED BY <1>1, <2>2, <2>4 DEF Lists
  <1>3. CASE m.kind # "friendRequest"
    <2>1. After(p, m).requests = p.requests
      BY <1>1, <1>3 DEF After, processMessage, addMessageToChat, notifyOnline, deleteRequest,
         Page, Tab, Msg
    <2> QED BY <1>1, <2>1 DEF Lists
  <1> QED BY <1>2, <1>3

LEMMA ListsGain ==
  ASSUME NEW v, NEW p \in Page, NEW m \in Msg, m.kind = "friendRequest",
         NEW i \in DOMAIN m.values, m.values[i] = v
  PROVE  After(p, m) \in Lists(v)
  <1>1. p.requests \in Seq(User) /\ m.values \in Seq(User)
    BY DEF Page, Tab, Msg
  <1>2. After(p, m).requests = p.requests \o m.values
    BY DEF After, processMessage, Page, Tab
  <1>3. \E j \in DOMAIN (p.requests \o m.values) : (p.requests \o m.values)[j] = v
    <2> DEFINE a == p.requests
               b == m.values
    <2>1. i \in DOMAIN b /\ b[i] = v
      OBVIOUS
    <2> HIDE DEF a, b
    <2>2. a \in Seq(User) /\ b \in Seq(User)
      BY <1>1 DEF a, b
    <2>a. \A j \in DOMAIN b : Len(a) + j \in DOMAIN (a \o b) /\ (a \o b)[Len(a) + j] = b[j]
      BY <2>2, SeqAppended
    <2>3. \E j \in DOMAIN (a \o b) : (a \o b)[j] = v
      BY <2>1, <2>a
    <2> QED BY <2>3 DEF a, b
  <1> QED BY <1>2, <1>3, AfterPage DEF Lists

\* What a page will show stays, if no message takes it back.
LEMMA ShowsStay ==
  ASSUME NEW P, NEW M, M \subseteq Msg, \A p \in P : \A m \in M : After(p, m) \in P,
         NEW c \in Conn, Onward(c, M), Shows(c, P), On(c)', Live(c)
  PROVE  Shows(c, P)'
  <1> SUFFICES ASSUME NEW t, Coming(c, t)' PROVE t \in P
    BY DEF Shows
  <1>0. PICK q : \E w \in Seq(M) : Coming(c, q) /\ Leads(q, w, t)
    BY DEF Onward
  <1>1. PICK w \in Seq(M) : Coming(c, q) /\ Leads(q, w, t)
    BY <1>0
  <1>2. q \in P
    BY <1>1 DEF Shows
  <1>3. w \in Seq(Msg)
    BY <1>1, SeqMonotonic
  <1>4. \A i \in 1..Len(w) : w[i] \in M
    BY <1>1, ElementOfSeq
  <1> QED BY <1>1, <1>2, <1>3, <1>4, LeadsStay

LEMMA SentShows ==
  ASSUME NEW P, NEW M, M \subseteq Msg, NEW c \in Conn, NEW w \in Seq(M), Sent(c, w), On(c)',
         NEW k \in 1..Len(w), \A p \in Page : After(p, w[k]) \in P,
         \A p \in P : \A m \in M : After(p, m) \in P
  PROVE  Shows(c, P)'
  <1> SUFFICES ASSUME NEW t, Coming(c, t)' PROVE t \in P
    BY DEF Shows
  <1>1. PICK q : Coming(c, q) /\ Leads(q, w, t)
    BY DEF Sent
  <1>2. w \in Seq(Msg) /\ \A i \in 1..Len(w) : w[i] \in M
    BY ElementOfSeq, SeqMonotonic
  <1> QED BY <1>1, <1>2, LeadsGains

\* A request is new only when whom it is made to is about to be told.
LEMMA OpenNext ==
  ASSUME AllInv, [Next]_vars, NEW u \in User, NEW v \in User, OpenFrom(u, v)'
  PROVE  OpenFrom(u, v) \/ Awaits(u, v)'
  <1>0. UNCHANGED friends => OpenFrom(u, v)
    BY DEF OpenFrom
  <1>1. ASSUME NEW c \in Conn, NEW e \in User, AddFriend(c, e) PROVE OpenFrom(u, v) \/ Awaits(u, v)'
    <2>1. CASE UNCHANGED friends
      BY <1>0, <2>1
    <2>2. CASE ~UNCHANGED friends
      <3>1. /\ friends' = friends \cup {[uid |-> Caller(c), fid |-> e, accepted |-> FALSE]}
            /\ task'.at = "add.push" /\ task'.uid = Caller(c) /\ task'.fid = e
        BY <1>1, <2>2 DEF AddFriend, insertFriendRequest, Die, dbVars, chatVars, Idle
      <3> QED BY <3>1 DEF OpenFrom, Awaits
    <2> QED BY <2>1, <2>2
  <1>2. ASSUME NEW c \in Conn, NEW e \in User, AcceptFriend(c, e) PROVE OpenFrom(u, v)
    <2>1. friends' = {IF SamePair(r, Caller(c), getUserID(e)) THEN [r EXCEPT !.accepted = TRUE]
                      ELSE r : r \in friends}
      BY <1>2 DEF AcceptFriend, acceptFriendRequest
    <2>2. PICK q \in friends' : q.fid = u /\ q.uid = v /\ ~q.accepted
      BY DEF OpenFrom
    <2>3. PICK r \in friends : q = IF SamePair(r, Caller(c), getUserID(e))
                                   THEN [r EXCEPT !.accepted = TRUE] ELSE r
      BY <2>1, <2>2
    <2>4. r \in FriendRow
      BY DEF AllInv, SysInv, TInv, TypeOK, DatabaseTypeOK
    <2>5. q = r
      BY <2>2, <2>3, <2>4 DEF FriendRow
    <2> QED BY <2>2, <2>5 DEF OpenFrom
  <1>3. CASE UNCHANGED vars
    BY <1>0, <1>3 DEF vars, dbVars, chatVars
  <1>4. ASSUME NEW c \in Conn, Request(c) \/ on_open(c) \/ PeerCloses(c) \/ on_close(c)
        PROVE  OpenFrom(u, v) \/ Awaits(u, v)'
    BY <1>0, <1>1, <1>2, <1>4, RequestKeepsFriends, ConnectionKeepsFriends DEF Request
  <1> QED BY <1>0, <1>3, <1>4, ConnectionKeepsFriends, HandlerKeepsFriends DEF Next

\* Nothing changes on the server while it tells friends about a login.
LEMMA NotifyNext ==
  ASSUME AllInv, [Next]_vars, task'.at = "login.notify"
  PROVE  \/ LoginLists
         \/ /\ task.at = "login.notify" /\ task'.hdl = task.hdl /\ task'.uid = task.uid
            /\ UNCHANGED <<procVars, historyVars, dbVars>>
            /\ UNCHANGED task \/ \E f \in User : LoginNotify(f) /\ task'.todo = task.todo \ {f}
  <1>0. PInv /\ DInv /\ TInv /\ task \in Task
    BY STypes DEF AllInv, SysInv, SInv, DInv
  <1>1. ~Other
    BY DEF Other, LoginLabels
  <1>2. ~Die
    BY DEF Die, Idle
  <1>3. CASE UNCHANGED vars
    BY <1>3 DEF vars
  <1>4. ASSUME NEW c \in Conn, Request(c) PROVE FALSE
    <2>1. \A u \in User : ~Login(c, u)
      BY DEF Login, Idle
    <2>2. \A cid \in 1..MaxChats : ~NewMessage(c, cid)
      BY <1>2 DEF NewMessage, Idle
    <2> QED BY <1>0, <1>1, <1>4, <2>1, <2>2, OtherRequests DEF Request
  <1>5. ~MessageStep
    <2>1. ~MsgEcho
      BY <1>0, <1>2, NextLabels DEF MsgEcho, Task
    <2>2. ~MsgDirect /\ ~MsgFlag /\ ~MsgRoomDone
      BY <1>0, <1>2, NextLabels DEF MsgDirect, MsgFlag, MsgRoomDone
    <2>3. \A v \in User : ~MsgRoom(v)
      BY <1>0, <1>2 DEF MsgRoom, Task
    <2> QED BY <2>1, <2>2, <2>3 DEF MessageStep
  <1>6. ~LoginSession /\ ~LoginChats
    BY <1>0, NextLabels DEF LoginSession, LoginChats
  <1>7. ASSUME NEW f \in User, LoginNotify(f)
        PROVE  /\ task.at = "login.notify" /\ task'.hdl = task.hdl /\ task'.uid = task.uid
               /\ UNCHANGED <<procVars, historyVars, dbVars>> /\ task'.todo = task.todo \ {f}
    <2>1. ~Reply(task.hdl)
      BY <1>0, NextLabels
    <2> QED BY <1>0, <1>2, <1>7, <2>1 DEF LoginNotify, Task
  <1> QED BY <1>0, <1>1, <1>3, <1>4, <1>5, <1>6, <1>7, OtherRequests, OtherSteps
      DEF Next, HandlerStep, SessionStep

\* The push lists the request, whatever else is sent with it.
LEMMA AddPushShows ==
  ASSUME AllInv, NEW c \in Conn, NEW u \in User, NEW v \in User, Listening(c, u),
         Awaits(u, v), AddFriendPushSent, up', On(c)'
  PROVE  Shows(c, Lists(v))'
  <1> DEFINE m == Requests(<<v>>)
             s == <<m>>
  <1>1. m \in Msg /\ m.kind = "friendRequest" /\ 1 \in DOMAIN m.values /\ m.values[1] = v
    BY Spoken DEF AllInv, Glad, Requests
  <1>2. PICK own \in {<<>>, <<Plain("addFriend")>>} : PushIfOnline(u, s, own)
    BY DEF AddFriendPushSent, Awaits
  <1>3. Plain("addFriend") \in Msg
    BY Spoken DEF AllInv, Glad
  <1>4. own \in Seq(Msg)
    <2>1. \A x \in Msg : <<x>> \in Seq(Msg)
      OBVIOUS
    <2>2. <<Plain("addFriend")>> \in Seq(Msg)
      BY <1>3, <2>1
    <2> QED BY <1>2, <2>2, EmptySeq
  <1>5. task.hdl \in Conn /\ ~Leaving(c) /\ task.at # "login.session"
    BY STypes DEF AllInv, Awaits, Leaving
  <1> HIDE DEF m
  <1>6. s \in Seq(Msg) /\ Len(s) = 1 /\ s[1] = m
    BY <1>1
  <1> HIDE DEF s
  <1>7. Sent(c, s) \/ Sent(c, s \o own)
    BY <1>2, <1>4, <1>5, <1>6, PushReaches
  <1>8. /\ s \o own \in Seq(Msg) /\ (s \o own)[1] = m /\ 1 \in 1..Len(s \o own)
        /\ 1 \in 1..Len(s)
    <2>1. 1 \in 1..Len(s) /\ 1 \in DOMAIN s
      BY <1>6
    <2>2. 1 \in DOMAIN (s \o own) /\ (s \o own)[1] = s[1]
      BY <1>4, <1>6, <2>1, SeqAppended
    <2>3. s \o own \in Seq(Msg)
      BY <1>4, <1>6, ConcatProperties
    <2>4. DOMAIN (s \o own) = 1..Len(s \o own)
      BY <2>3
    <2> QED BY <1>6, <2>1, <2>2, <2>3, <2>4
  <1>9. \A p \in Page : After(p, m) \in Lists(v)
    BY <1>1, ListsGain
  <1>10. \A p \in Lists(v) : \A x \in Msg : After(p, x) \in Lists(v)
    BY ListsStay
  <1>11. CASE Sent(c, s)
    BY <1>6, <1>8, <1>9, <1>10, <1>11, SentShows
  <1>12. CASE Sent(c, s \o own)
    BY <1>8, <1>9, <1>10, <1>12, SentShows
  <1> QED BY <1>7, <1>11, <1>12

\* The answer to a login lists all of them.
LEMMA LoginListsShows ==
  ASSUME AllInv, LoginListsSent, up', task'.at = "login.notify", NEW c \in Conn, NEW u \in User,
         c = task.hdl, u = task.uid, On(c)', NEW v \in User, OpenFrom(u, v)
  PROVE  Shows(c, Lists(v))'
  <1>1. task.at = "login.lists" /\ Bound(task.uid, task.hdl) /\ PInv /\ PagesInv
    BY DTypes DEF LoginListsSent, LoginLists, AllInv, SysInv, SInv, DInv, HandedInv, CallerStays
  <1>2. c = task.hdl /\ u = task.uid
    OBVIOUS
  <1>3. Caller(c) = u
    BY <1>1, <1>2, CallerFound
  <1> DEFINE R == getFriendRequests(u)
             a == Plain("login")
             b == sendFriendlist(u)
             m == Requests(Rows(R))
             w == <<a, b, m>>
  <1>4. Post(To(c, w))
    BY <1>2, <1>3 DEF LoginListsSent
  <1>5. a \in Msg /\ b \in Msg /\ m \in Msg
    BY Spoken, FriendRows DEF AllInv, Glad
  <1>6. v \in R
    BY SystemAssumption DEF OpenFrom, getFriendRequests, SamePair, AllInv, ChatInv, RowsNamed
  <1>7. R \subseteq registered /\ IsFiniteSet(registered)
    BY STypes DEF getFriendRequests, AllInv
  <1>8. m.kind = "friendRequest" /\ m.values = Rows(R)
    BY DEF Requests
  <1> HIDE DEF R, a, b, m
  <1>9. \E i \in DOMAIN Rows(R) : Rows(R)[i] = v
    BY <1>6, <1>7, FS_Subset, RowsList
  <1>10. w \in Seq(Msg) /\ 3 \in 1..Len(w) /\ w[3] = m
    BY <1>5
  <1> HIDE DEF w
  <1>11. Sent(c, w)
    BY <1>1, <1>4, <1>10, PostReaches
  <1>12. \A p \in Page : After(p, m) \in Lists(v)
    BY <1>5, <1>8, <1>9, ListsGain
  <1>13. \A p \in Lists(v) : \A x \in Msg : After(p, x) \in Lists(v)
    BY ListsStay
  <1> QED BY <1>10, <1>11, <1>12, <1>13, SentShows

\* Who begins to look has just been logged in there.
LEMMA NewlyListening ==
  ASSUME AllInv, LoginChats, NEW c \in Conn, NEW u \in User, Listening(c, u)', ~Listening(c, u)
  PROVE  c = task.hdl /\ u = task.uid /\ Live(c) /\ task.at = "login.notify"
  <1>1. /\ task.hdl \in Conn /\ task.uid \in User /\ task.at = "login.notify"
        /\ Bound(task.uid, task.hdl) /\ PInv /\ listed \in [Conn -> AnyUser]
    BY STypes, DTypes DEF LoginChats, AllInv, SInv, DInv, HandedInv, CallerStays
  <1>2. listed' = [listed EXCEPT ![task.hdl] = task.uid]
        /\ UNCHANGED <<up, cstate, m_connections, sessionid>>
    BY <1>1, CallerFound DEF LoginChats, procVars, dbVars, userVars
  <1>3. c = task.hdl
    BY <1>1, <1>2 DEF Listening, Bound, Live, Session
  <1>4. u = task.uid
    BY <1>1, <1>2, <1>3 DEF Listening
  <1> QED BY <1>1, <1>3, <1>4 DEF Bound

LEMMA AnyOnward ==
  ASSUME SysInv, [SystemNext]_sysVars, NEW c \in Conn PROVE Onward(c, Msg)
  <1>1. task.at = "logout.notify" => Notify(task.uid, FALSE) \in Msg
    BY Spoken DEF SysInv, Named, ByUser
  <1> QED BY <1>1, SystemOnward DEF Glad

\* A login goes through these two steps with the same user at the same place.
LEMMA GreetingNext ==
  ASSUME AllInv, AllInv', [SystemNext]_sysVars, [Next]_vars,
         NEW c \in Conn, NEW u \in User, Greeting(c, u)'
  PROVE  /\ c = task.hdl /\ u = task.uid /\ Bound(u, c) /\ Live(c) /\ On(c) /\ UNCHANGED dbVars
         /\ \/ LoginListsSent /\ up'
            \/ /\ Greeting(c, u)
               /\ UNCHANGED task \/ \E f \in User : LoginNotify(f) /\ task'.todo = task.todo \ {f}
  <1>1. task'.at = "login.notify" /\ task'.hdl = c /\ task'.uid = u /\ On(c)'
    BY DEF Greeting
  <1>2. up'
    BY <1>1 DEF AllInv, SInv, DInv, PInv, AuthInv, DownIsEmpty
  <1>3. /\ task.at \in {"login.lists", "login.notify"} /\ c = task.hdl /\ u = task.uid
        /\ UNCHANGED dbVars
    <2>1. task \in Task /\ "template" \notin Faults
      BY STypes, SystemAssumption DEF AllInv
    <2>2. LoginLists => /\ task.at = "login.lists" /\ task'.hdl = task.hdl
                        /\ task'.uid = task.uid /\ UNCHANGED dbVars
      BY <2>1 DEF LoginLists, Task
    <2> QED BY <1>1, <2>2, NotifyNext
  <1>4. Bound(u, c) /\ Live(c)
    BY <1>3 DEF AllInv, SInv, DInv, HandedInv, CallerStays, Bound
  <1>5. On(c)
    BY <1>1, <1>4, AnyOnward DEF Onward, AllInv
  <1>6. LoginLists => LoginListsSent
    <2>1. LoginLists => task' # task
      BY <1>1 DEF LoginLists
    <2> QED BY <1>2, <2>1, BusyAt DEF LoginLists, sysVars, vars
  <1> QED BY <1>1, <1>2, <1>3, <1>4, <1>5, <1>6, NotifyNext DEF Greeting

LEMMA RequestsComingNext ==
  ASSUME AllInv, RequestsInv, [SystemNext]_sysVars, [Next]_vars,
         NEW c \in Conn, NEW u \in User, Looking(c, u)',
         NEW v \in User, OpenFrom(u, v)', ~Awaits(u, v)'
  PROVE  Shows(c, Lists(v))'
  <1>0. OpenFrom(u, v) /\ On(c)' /\ Listening(c, u)' /\ up'
    BY OpenNext DEF Looking, Listening
  <1>1. Onward(c, Msg)
    BY AnyOnward DEF AllInv
  <1>2. \A p \in Lists(v) : \A m \in Msg : After(p, m) \in Lists(v)
    BY ListsStay
  <1>3. CASE Listening(c, u)
    <2>1. Live(c) /\ On(c)
      BY <1>0, <1>1, <1>3 DEF Listening, Bound, Onward
    <2>2. CASE Shows(c, Lists(v))
      BY <1>0, <1>1, <1>2, <2>1, <2>2, ShowsStay
    <2>3. CASE Awaits(u, v)
      <3>1. ~UNCHANGED sysVars
        BY <2>3 DEF Awaits, sysVars, vars
      <3>2. AddFriendPushSent
        BY <1>0, <2>3, <3>1, BusyAt DEF Awaits
      <3> QED BY <1>0, <1>3, <2>3, <3>2, AddPushShows
    <2> QED BY <1>0, <1>3, <2>1, <2>2, <2>3 DEF RequestsInv, RequestsComing, Looking
  <1>4. CASE ~Listening(c, u)
    <2>1. LoginChats
      BY <1>0, <1>4, NextStays DEF AllInv, Stays
    <2>2. c = task.hdl /\ u = task.uid /\ Live(c) /\ task.at = "login.notify"
      BY <1>0, <1>4, <2>1, NewlyListening
    <2>3. Greeting(c, u)
      BY <1>0, <1>1, <2>2 DEF Onward, Greeting
    <2>4. Shows(c, Lists(v))
      BY <1>0, <2>3 DEF RequestsInv, RequestsAtLogin
    <2> QED BY <1>0, <1>1, <1>2, <2>2, <2>4, ShowsStay
  <1> QED BY <1>3, <1>4

LEMMA RequestsAtLoginNext ==
  ASSUME AllInv, AllInv', RequestsInv, [SystemNext]_sysVars, [Next]_vars,
         NEW c \in Conn, NEW u \in User, Greeting(c, u)', NEW v \in User, OpenFrom(u, v)'
  PROVE  Shows(c, Lists(v))'
  <1>0. On(c)' /\ task'.at = "login.notify" /\ OpenFrom(u, v)
    BY OpenNext DEF Greeting, Awaits
  <1>1. CASE LoginListsSent /\ up'
    BY <1>0, <1>1, GreetingNext, LoginListsShows
  <1>2. CASE Greeting(c, u)
    <2>1. Shows(c, Lists(v)) /\ Live(c)
      BY <1>0, <1>2, GreetingNext DEF RequestsInv, RequestsAtLogin
    <2>2. Onward(c, Msg)
      BY AnyOnward DEF AllInv
    <2>3. \A p \in Lists(v) : \A m \in Msg : After(p, m) \in Lists(v)
      BY ListsStay
    <2> QED BY <1>0, <2>1, <2>2, <2>3, ShowsStay
  <1> QED BY <1>1, <1>2, GreetingNext

LEMMA NextRequests ==
  ASSUME ~AccountSwitch PROVE AllInv /\ RequestsInv /\ [SystemNext]_sysVars => RequestsInv'
  <1> SUFFICES ASSUME AllInv, RequestsInv, [SystemNext]_sysVars PROVE RequestsInv'
    OBVIOUS
  <1>0. AllInv' /\ [Next]_vars
    BY NextAll
  <1>1. RequestsComing'
    BY <1>0, RequestsComingNext DEF RequestsComing
  <1>2. RequestsAtLogin'
    BY <1>0, RequestsAtLoginNext DEF RequestsAtLogin
  <1> QED BY <1>1, <1>2 DEF RequestsInv

LEMMA InitRequests == SystemInit => RequestsInv
  BY DEF SystemInit, Init, SessionsInit, ClientInit, NoTab, RequestsInv, RequestsComing,
     RequestsAtLogin, Looking, Greeting, On

\* What is still to come to a page that has caught up is what it shows.
LEMMA CaughtUp ==
  ASSUME AllInv, NEW c \in Conn, NEW u \in User, UpToDate(c, u)
  PROVE  Looking(c, u) /\ Coming(c, Unasked(tab[c]))
  <1>1. Unasked(tab[c]) \in Page
    BY DEF AllInv, SysInv, PagesInv, Unasked, Page, Tab
  <1>2. Leads(Unasked(tab[c]), <<>>, Unasked(tab[c]))
    BY <1>1, LeadsNone
  <1> QED BY <1>2 DEF UpToDate, Looking, Listening, On, Coming

\* A page that has caught up shows its user every open request made to the user,
\* whether it came in the list the login is answered with or in a push of the
\* other client's handler, before or after that.
THEOREM PagesShowRequests ==
  ASSUME ~AccountSwitch PROVE SystemSpec => []PageShowsRequests
  <1>1. SystemInit => AllInv /\ RequestsInv
    BY InitAll, InitRequests
  <1>2. AllInv /\ RequestsInv /\ [SystemNext]_sysVars => (AllInv /\ RequestsInv)'
    BY NextAll, NextRequests
  <1>3. AllInv /\ RequestsInv => PageShowsRequests
    <2> SUFFICES ASSUME AllInv, RequestsInv, NEW c \in Conn, NEW u \in User, UpToDate(c, u),
                        NEW r \in friends, r.fid = u, ~r.accepted
                 PROVE  \E i \in DOMAIN tab[c].requests : tab[c].requests[i] = r.uid
      BY DEF PageShowsRequests
    <2>1. r.uid \in User
      BY STypes, SystemAssumption DEF AllInv, ChatInv, RowsNamed
    <2>2. Looking(c, u) /\ Coming(c, Unasked(tab[c]))
      BY CaughtUp
    <2>3. OpenFrom(u, r.uid) /\ ~Awaits(u, r.uid)
      BY DEF OpenFrom, Awaits, UpToDate
    <2>4. Shows(c, Lists(r.uid))
      BY <2>1, <2>2, <2>3 DEF RequestsInv, RequestsComing
    <2>5. Unasked(tab[c]) \in Lists(r.uid)
      BY <2>2, <2>4 DEF Shows
    <2>6. Unasked(tab[c]).requests = tab[c].requests
      BY DEF AllInv, SysInv, PagesInv, Unasked, Page, Tab
    <2> QED BY <2>5, <2>6 DEF Lists
  <1> QED BY <1>1, <1>2, <1>3, PTL DEF SystemSpec

-----------------------------------------------------------------------------
(* The friends.                                                             *)

\* Pages that list f as a friend, and as online if b.
Has(f, b) ==
  {t \in Page : \E i \in DOMAIN t.friends :
                 t.friends[i].email = f /\ (b => t.friends[i].online)}

\* All messages, but if b not word that f has gone offline.
Spares(f, b) ==
  {m \in Msg : b /\ m.kind = "notifyOnline" /\ m.email = f => m.online}

LEMMA FriendsOf == ASSUME NEW p \in Page PROVE p.friends \in Seq(FriendEntry)
  BY DEF Page, Tab, FriendEntry

LEMMA HasStay ==
  ASSUME NEW f, NEW b \in BOOLEAN, NEW p \in Has(f, b), NEW m \in Spares(f, b)
  PROVE  After(p, m) \in Has(f, b)
  <1>0. p \in Page /\ m \in Msg
    BY DEF Has, Spares
  <1>1. After(p, m) \in Page
    BY <1>0, AfterPage
  <1>2. PICK i \in DOMAIN p.friends : p.friends[i].email = f /\ (b => p.friends[i].online)
    BY DEF Has
  <1>3. p.friends \in Seq(FriendEntry)
    BY <1>0, FriendsOf
  <1>4. CASE m.kind \in {"friendlist", "newFriendListUser"}
    <2>1. m.values \in Seq(FriendEntry)
      BY <1>0, <1>4 DEF Msg
    <2>2. After(p, m).friends = p.friends \o m.values
      BY <1>0, <1>4 DEF After, processMessage, Page, Tab
    <2>3. /\ i \in DOMAIN (p.friends \o m.values)
          /\ (p.friends \o m.values)[i] = p.friends[i]
      BY <1>2, <1>3, <2>1, SeqAppended
    <2> QED BY <1>1, <1>2, <2>2, <2>3 DEF Has
  <1>5. CASE m.kind = "notifyOnline"
    <2>1. After(p, m).friends = [j \in DOMAIN p.friends |->
            IF p.friends[j].email = m.email THEN [p.friends[j] EXCEPT !.online = m.online]
            ELSE p.friends[j]]
      BY <1>0, <1>5 DEF After, processMessage, notifyOnline, Page, Tab
    <2>2. p.friends[i] \in FriendEntry
      BY <1>2, <1>3, ElementOfSeq
    <2>3. b /\ f = m.email => m.online
      BY <1>5 DEF Spares
    <2>4. /\ i \in DOMAIN After(p, m).friends
          /\ After(p, m).friends[i].email = f
          /\ b => After(p, m).friends[i].online
      BY <1>2, <2>1, <2>2, <2>3 DEF FriendEntry
    <2> QED BY <1>1, <2>4 DEF Has
  <1>6. CASE m.kind \notin {"friendlist", "newFriendListUser", "notifyOnline"}
    <2>1. After(p, m).friends = p.friends
      BY <1>0, <1>6 DEF After, processMessage, addMessageToChat, deleteRequest, Page, Tab, Msg
    <2> QED BY <1>1, <1>2, <2>1 DEF Has
  <1> QED BY <1>4, <1>5, <1>6

LEMMA HasGains ==
  ASSUME NEW f, NEW b \in BOOLEAN, NEW p \in Page, NEW m \in Msg,
         m.kind \in {"friendlist", "newFriendListUser"},
         NEW i \in DOMAIN m.values, m.values[i].email = f, b => m.values[i].online
  PROVE  After(p, m) \in Has(f, b)
  <1>1. p.friends \in Seq(FriendEntry) /\ m.values \in Seq(FriendEntry)
    BY FriendsOf DEF Msg
  <1>2. After(p, m).friends = p.friends \o m.values
    BY DEF After, processMessage, Page, Tab
  <1>3. /\ Len(p.friends) + i \in DOMAIN (p.friends \o m.values)
        /\ (p.friends \o m.values)[Len(p.friends) + i] = m.values[i]
    <2> DEFINE x == p.friends
               y == m.values
    <2>1. i \in DOMAIN y
      OBVIOUS
    <2> HIDE DEF x, y
    <2>2. x \in Seq(FriendEntry) /\ y \in Seq(FriendEntry)
      BY <1>1 DEF x, y
    <2>3. Len(x) + i \in DOMAIN (x \o y) /\ (x \o y)[Len(x) + i] = y[i]
      BY <2>1, <2>2, SeqAppended
    <2> QED BY <2>3 DEF x, y
  <1>4. After(p, m) \in Page
    BY AfterPage
  <1> QED BY <1>2, <1>3, <1>4 DEF Has

\* A friend that is listed is listed as online after word of it.
LEMMA HasTold ==
  ASSUME NEW f \in User, NEW p \in Has(f, FALSE), Notify(f, TRUE) \in Msg
  PROVE  After(p, Notify(f, TRUE)) \in Has(f, TRUE)
  <1> DEFINE m == Notify(f, TRUE)
  <1>1. p \in Page /\ m.kind = "notifyOnline" /\ m.email = f /\ m.online = TRUE /\ m \in Msg
    BY DEF Has, Notify
  <1> HIDE DEF m
  <1>2. After(p, m) \in Page
    BY <1>1, AfterPage
  <1>3. PICK i \in DOMAIN p.friends : p.friends[i].email = f
    BY DEF Has
  <1>4. p.friends[i] \in FriendEntry
    BY <1>1, <1>3, FriendsOf, ElementOfSeq
  <1>5. After(p, m).friends = [j \in DOMAIN p.friends |->
          IF p.friends[j].email = m.email THEN [p.friends[j] EXCEPT !.online = m.online]
          ELSE p.friends[j]]
    BY <1>1 DEF After, processMessage, notifyOnline, Page, Tab
  <1>6. /\ i \in DOMAIN After(p, m).friends /\ After(p, m).friends[i].email = f
        /\ After(p, m).friends[i].online
    BY <1>1, <1>3, <1>4, <1>5 DEF FriendEntry
  <1>7. After(p, m) \in Has(f, TRUE)
    BY <1>2, <1>6 DEF Has
  <1> QED BY <1>7 DEF m

-----------------------------------------------------------------------------
(* What the pushes of a login, a logout and an acceptance rest on.          *)

LogoutLabels == {"logout.session", "logout.email", "logout.notify"}
AcceptLabels == CreatesChat \cup {"accept.push"}

\* Friends are told that a user is gone when its row says so.
GoneOffline ==
  task.at \in LogoutLabels => \A u \in User : u = task.uid => ~online[u]

\* Who accepts was found by the session of the connection, and stays there.
AccepterStays ==
  task.at \in AcceptLabels => task.uid = NoUser \/ Bound(task.uid, task.hdl)

\* The schema's keys keep strangers out of chats.
MembersKnown == \A u : (\E cid \in DOMAIN chatlist : InChat(u, cid)) => u \in registered

PushInv == GoneOffline /\ AccepterStays /\ MembersKnown

\* A handler of the two kinds is begun by its request and goes on by its own steps.
LEMMA StepLabels ==
  ASSUME PInv, [Next]_vars
  PROVE  \/ UNCHANGED vars
         \/ task'.at \notin LogoutLabels \cup AcceptLabels
         \/ \E c \in Conn : Logout(c) \/ \E e \in User : AcceptFriend(c, e)
         \/ LogoutSession \/ LogoutEmail \/ \E f \in User : LogoutNotify(f)
         \/ AcceptChat \/ AcceptSelf \/ AcceptPeer
  <1> DEFINE Apt == task'.at \notin LogoutLabels \cup AcceptLabels
  <1>0. TInv /\ task \in Task
    BY DTypes
  <1> USE <1>0, NextLabels DEF LogoutLabels, AcceptLabels, CreatesChat
  <1>1. Die => Apt
    BY DEF Die, Idle
  <1>2. CASE Start \/ Kill \/ DbFault
    <2>1. Start => Apt
      BY DEF Start, PInv, AuthInv, DownIsEmpty
    <2> QED BY <1>1, <1>2, <2>1 DEF Kill, DbFault
  <1>3. ASSUME NEW c \in Conn, on_open(c) \/ PeerCloses(c) \/ on_close(c) PROVE Apt
    BY <1>1, <1>3 DEF on_open, PeerCloses, Receives, on_close, Idle
  <1>4. ASSUME NEW c \in Conn, Request(c), ~Logout(c), \A e \in User : ~AcceptFriend(c, e)
        PROVE  Apt
    <2>1. Refuse(c) => Apt
      BY DEF Refuse
    <2>2. \A u \in User : Register(c, u) \/ Login(c, u) => Apt
      BY DEF Register, Login, Idle
    <2>3. \A e \in User : AddFriend(c, e) => Apt
      BY <1>1 DEF AddFriend, Idle
    <2>4. \A e \in User : DeclineFriend(c, e) \/ RemoveFriend(c, e) => Apt
      BY DEF DeclineFriend, RemoveFriend, Idle
    <2>5. \A cid \in 1..MaxChats : NewMessage(c, cid) => Apt
      BY <1>1 DEF NewMessage, Idle
    <2> QED BY <1>4, <2>1, <2>2, <2>3, <2>4, <2>5 DEF Request
  <1>5. CASE SessionStep
    <2>1. CloseSession \/ Return \/ LoginSession \/ LoginChats \/ LogoutDone => Apt
      BY DEF CloseSession, Return, LoginSession, LoginChats, LogoutDone, Idle
    <2>2. LoginLists => Apt
      BY <1>0 DEF LoginLists, Task
    <2>3. \A f \in User : LoginNotify(f) => Apt
      BY <1>0, <1>1 DEF LoginNotify, Task
    <2> QED BY <1>5, <2>1, <2>2, <2>3 DEF SessionStep
  <1>6. CASE FriendStep
    BY <1>1, <1>6 DEF FriendStep, AddFriendPush, AcceptPush, removeRequest, removeFriend
  <1>7. CASE MessageStep
    <2>1. MsgEcho => Apt
      <3>1. MsgEcho /\ ~Die => task'.at \in {"msg.direct", "msg.room", "return"}
        BY <1>0 DEF MsgEcho, Task
      <3> QED BY <1>1, <3>1
    <2>2. MsgDirect \/ MsgFlag \/ MsgRoomDone => Apt
      BY <1>1 DEF MsgDirect, MsgFlag, MsgRoomDone
    <2>3. \A v \in User : MsgRoom(v) => Apt
      BY <1>0, <1>1 DEF MsgRoom, Task
    <2> QED BY <1>7, <2>1, <2>2, <2>3 DEF MessageStep
  <1> QED BY <1>2, <1>3, <1>4, <1>5, <1>6, <1>7 DEF Next, HandlerStep

LEMMA GoneNext == ASSUME PInv, GoneOffline, [Next]_vars PROVE GoneOffline'
  <1> USE DTypes DEF LogoutLabels, AcceptLabels, CreatesChat
  <1>0. TInv /\ task \in Task
    OBVIOUS
  <1>1. CASE UNCHANGED vars
    BY <1>1 DEF vars, dbVars, userVars, GoneOffline
  <1>2. CASE task'.at \notin LogoutLabels
    BY <1>2 DEF GoneOffline
  <1>3. ASSUME NEW c \in Conn, Logout(c) PROVE GoneOffline'
    BY <1>3 DEF Logout, setOnline, Idle, GoneOffline
  <1>4. CASE LogoutSession \/ LogoutEmail \/ \E f \in User : LogoutNotify(f)
    <2>1. task.at \in LogoutLabels /\ UNCHANGED online
      BY <1>4 DEF LogoutSession, LogoutEmail, LogoutNotify, setSessionID, Die, dbVars, userVars
    <2>2. ~Die => task'.uid = task.uid
      BY <1>0, <1>4 DEF LogoutSession, LogoutEmail, LogoutNotify, Task
    <2>3. Die => task'.at = "idle"
      BY DEF Die, Idle
    <2> QED BY <2>1, <2>2, <2>3 DEF GoneOffline
  <1>5. ASSUME NEW c \in Conn, NEW e \in User, AcceptFriend(c, e) PROVE task'.at = "accept.chat"
    BY <1>5 DEF AcceptFriend, Idle
  <1>6. AcceptChat \/ AcceptSelf \/ AcceptPeer => task'.at \notin LogoutLabels
    <2>1. AcceptChat => task'.at = "accept.self"
      BY <1>0 DEF AcceptChat, Task
    <2>2. AcceptSelf /\ ~Die => task'.at = "accept.peer"
      BY <1>0, NextLabels DEF AcceptSelf
    <2>3. AcceptPeer /\ ~Die => task'.at = "accept.push"
      BY <1>0, NextLabels DEF AcceptPeer
    <2>4. Die => task'.at = "idle"
      BY DEF Die, Idle
    <2> QED BY <2>1, <2>2, <2>3, <2>4
  <1> QED BY <1>0, <1>1, <1>2, <1>3, <1>4, <1>5, <1>6, StepLabels

LEMMA AccepterNext == ASSUME PInv, AccepterStays, [Next]_vars PROVE AccepterStays'
  <1> USE DTypes DEF LogoutLabels, AcceptLabels, CreatesChat
  <1>0. TInv /\ task \in Task
    OBVIOUS
  <1>1. CASE UNCHANGED vars
    BY <1>1 DEF vars, procVars, dbVars, userVars, AccepterStays, Bound, Live, Session
  <1>2. CASE task'.at \notin AcceptLabels
    BY <1>2 DEF AccepterStays
  <1>3. ASSUME NEW c \in Conn, NEW e \in User, AcceptFriend(c, e) PROVE AccepterStays'
    <2>1. Live(c) /\ task'.uid = Caller(c) /\ task'.hdl = c
          /\ UNCHANGED <<cstate, m_connections, sessionid>>
      BY <1>3 DEF AcceptFriend, acceptFriendRequest, Receives, Live, Idle, procVars, userVars
    <2>2. Caller(c) = NoUser \/ Bound(Caller(c), c)
      BY <2>1, CallerType, CallerBound DEF Caller, AnyUser
    <2> QED BY <2>1, <2>2 DEF AccepterStays, Bound, Live, Session
  <1>4. CASE AcceptChat \/ AcceptSelf \/ AcceptPeer
    <2>1. CASE Die
      BY <2>1 DEF Die, Idle, AccepterStays
    <2>2. CASE ~Die
      <3>1. task.at \in AcceptLabels /\ task'.uid = task.uid /\ task'.hdl = task.hdl
            /\ UNCHANGED <<cstate, m_connections, sessionid>>
        BY <1>0, <1>4, <2>2 DEF AcceptChat, AcceptSelf, AcceptPeer, Goto, Task, insertChat,
           insertChatlist, procVars, userVars
      <3> QED BY <3>1 DEF AccepterStays, Bound, Live, Session
    <2> QED BY <2>1, <2>2
  <1>5. ASSUME NEW c \in Conn, Logout(c) PROVE task'.at = "logout.session"
    BY <1>5 DEF Logout, Idle
  <1>6. LogoutSession \/ LogoutEmail => task'.at \notin AcceptLabels
    <2>1. LogoutSession => task'.at = "logout.email"
      BY <1>0 DEF LogoutSession, Task
    <2>2. LogoutEmail /\ ~Die => task'.at = "logout.notify"
      BY <1>0 DEF LogoutEmail, Task
    <2>3. Die => task'.at = "idle"
      BY DEF Die, Idle
    <2> QED BY <2>1, <2>2, <2>3
  <1>7. \A f \in User : LogoutNotify(f) => task'.at \notin AcceptLabels
    BY <1>0 DEF LogoutNotify, Die, Idle, Task
  <1> QED BY <1>0, <1>1, <1>2, <1>3, <1>4, <1>5, <1>6, <1>7, StepLabels

\* Chats get members only in createChat.
LEMMA ChatlistNext ==
  ASSUME TInv, [Next]_vars
  PROVE  \/ UNCHANGED chatlist /\ registered \subseteq registered'
         \/ AcceptChat \/ AcceptSelf \/ AcceptPeer
  <1> USE AsideRequests, AsideSteps DEF Aside
  <1>1. CASE UNCHANGED vars
    BY <1>1 DEF vars, dbVars, userVars, chatVars
  <1>2. CASE Start \/ Kill \/ DbFault
    BY <1>2 DEF Start, resetPresence, Kill, DbFault, Die, dbVars, userVars, chatVars
  <1>3. ASSUME NEW c \in Conn, on_open(c) \/ PeerCloses(c) \/ on_close(c)
        PROVE  UNCHANGED chatlist /\ registered \subseteq registered'
    BY <1>3
  <1>4. ASSUME NEW c \in Conn, Request(c)
        PROVE  UNCHANGED chatlist /\ registered \subseteq registered'
    <2>1. \A e \in User : AddFriend(c, e) =>
            UNCHANGED chatlist /\ registered \subseteq registered'
      BY DEF AddFriend, insertFriendRequest, Die, dbVars, userVars, chatVars
    <2>2. \A e \in User : AcceptFriend(c, e) =>
            UNCHANGED chatlist /\ registered \subseteq registered'
      BY DEF AcceptFriend, acceptFriendRequest, userVars
    <2> QED BY <1>4, <2>1, <2>2 DEF Request
  <1>5. CASE HandlerStep
    BY <1>5 DEF HandlerStep, FriendStep
  <1> QED BY <1>1, <1>2, <1>3, <1>4, <1>5 DEF Next

\* What a row added to a chat makes of its members.
LEMMA InAppended ==
  ASSUME DatabaseTypeOK, NEW v \in AnyUser, NEW k \in DOMAIN chatlist,
         chatlist' = [chatlist EXCEPT ![k] = Append(@, v)]
  PROVE  \A u, cid : InChat(u, cid)' <=> InChat(u, cid) \/ (u = v /\ cid = k)
  <1>1. chatlist \in Seq(Seq(AnyUser)) /\ chatlist[k] \in Seq(AnyUser)
    BY ElementOfSeq DEF DatabaseTypeOK
  <1>2. DOMAIN chatlist' = DOMAIN chatlist /\ chatlist'[k] = Append(chatlist[k], v)
    BY <1>1
  <1>3. \A cid \in DOMAIN chatlist : cid # k => chatlist'[cid] = chatlist[cid]
    BY <1>1
  <1> DEFINE s == chatlist[k]
             n == Len(s)
  <1>4. n \in Nat /\ DOMAIN s = 1..n /\ DOMAIN Append(s, v) = 1..(n + 1)
        /\ \A i \in 1..n : Append(s, v)[i] = s[i]
    BY <1>1, AppendProperties, LenProperties
  <1>5. Append(s, v)[n + 1] = v
    BY <1>1, AppendProperties
  <1> HIDE DEF s, n
  <1>6. \A u : (\E i \in DOMAIN Append(s, v) : Append(s, v)[i] = u)
                <=> (\E i \in DOMAIN s : s[i] = u) \/ u = v
    BY <1>4, <1>5
  <1> QED BY <1>2, <1>3, <1>6 DEF InChat, s

LEMMA MembersNext ==
  ASSUME AllInv, MembersKnown, [Next]_vars PROVE MembersKnown'
  <1>0. TInv /\ task \in Task /\ DatabaseTypeOK /\ ChatSoFar
    BY STypes DEF AllInv, SysInv, TInv, TypeOK, ChatInv
  <1>1. CASE UNCHANGED chatlist /\ registered \subseteq registered'
    BY <1>1 DEF MembersKnown, InChat
  <1>2. CASE AcceptChat
    <2>1. chatlist' = Append(chatlist, <<>>) /\ UNCHANGED registered
      BY <1>2 DEF AcceptChat, insertChat, userVars
    <2>2. \A u, cid : InChat(u, cid)' => InChat(u, cid)
      <3>1. chatlist \in Seq(Seq(AnyUser)) /\ <<>> \in Seq(AnyUser)
        BY <1>0 DEF DatabaseTypeOK
      <3>2. /\ Len(chatlist) \in Nat /\ DOMAIN chatlist = 1..Len(chatlist)
            /\ DOMAIN chatlist' = 1..(Len(chatlist) + 1)
            /\ \A i \in 1..Len(chatlist) : chatlist'[i] = chatlist[i]
        BY <2>1, <3>1, AppendProperties, LenProperties
      <3>3. chatlist'[Len(chatlist) + 1] = <<>>
        BY <2>1, <3>1, AppendProperties
      <3> QED BY <3>2, <3>3 DEF InChat
    <2> QED BY <2>1, <2>2 DEF MembersKnown, InChat
  <1>3. CASE (AcceptSelf \/ AcceptPeer) /\ ~Die
    <2>1. PICK v \in AnyUser :
            /\ chatlist' = [chatlist EXCEPT ![task.cid] = Append(@, v)] /\ v \in registered
            /\ UNCHANGED registered /\ task.cid \in DOMAIN chatlist
      BY <1>0, <1>3, SystemAssumption DEF AcceptSelf, AcceptPeer, insertChatlist,
         refusesChatlist, userVars, Task, ChatSoFar
    <2> QED BY <1>0, <2>1, InAppended DEF MembersKnown, InChat
  <1>4. CASE Die
    BY <1>4 DEF Die, dbVars, userVars, chatVars, MembersKnown, InChat
  <1> QED BY <1>0, <1>1, <1>2, <1>3, <1>4, ChatlistNext

LEMMA NextPush == AllInv /\ PushInv /\ [Next]_vars => PushInv'
  <1> SUFFICES ASSUME AllInv, PushInv, [Next]_vars PROVE PushInv'
    OBVIOUS
  <1>1. PInv
    BY DEF AllInv, SInv, DInv
  <1> QED BY <1>1, GoneNext, AccepterNext, MembersNext DEF PushInv

LEMMA InitPush == Init => PushInv
  BY DEF Init, SessionsInit, DatabaseInit, Idle, PushInv, GoneOffline, AccepterStays,
     MembersKnown, LogoutLabels, AcceptLabels, CreatesChat, InChat

\* The two whom createChat has just given a chat, and who are about to hear of it.
Hearing(u, f) ==
  /\ task.at = "accept.push"
  /\ (u = task.uid /\ f = task.fid) \/ (u = task.fid /\ f = task.uid)

\* A friend is new only when both are about to be told.
LEMMA FriendsNext ==
  ASSUME AllInv, MembersKnown, [Next]_vars, NEW u \in User, NEW f \in getFrindIds(u)'
  PROVE  f \in getFrindIds(u) \/ Hearing(u, f)'
  <1>0. task \in Task /\ DatabaseTypeOK /\ ChatSoFar /\ TInv
    BY STypes DEF AllInv, SysInv, TInv, TypeOK, ChatInv
  <1>1. f # u /\ \E cid : InChat(f, cid)' /\ InChat(u, cid)'
    BY DEF getFrindIds
  <1>2. PICK cid : InChat(f, cid)' /\ InChat(u, cid)'
    BY <1>1
  <1>3. InChat(f, cid) /\ InChat(u, cid) => f \in getFrindIds(u)
    BY <1>1 DEF MembersKnown, getFrindIds, InChat
  <1>4. CASE UNCHANGED chatlist
    BY <1>2, <1>3, <1>4 DEF InChat
  <1>5. CASE AcceptChat
    <2>1. chatlist' = Append(chatlist, <<>>)
      BY <1>5 DEF AcceptChat, insertChat
    <2>2. chatlist \in Seq(Seq(AnyUser)) /\ <<>> \in Seq(AnyUser)
      BY <1>0 DEF DatabaseTypeOK
    <2>3. /\ Len(chatlist) \in Nat /\ DOMAIN chatlist = 1..Len(chatlist)
          /\ DOMAIN chatlist' = 1..(Len(chatlist) + 1)
          /\ \A i \in 1..Len(chatlist) : chatlist'[i] = chatlist[i]
      BY <2>1, <2>2, AppendProperties, LenProperties
    <2>4. chatlist'[Len(chatlist) + 1] = <<>>
      BY <2>1, <2>2, AppendProperties
    <2> QED BY <1>2, <1>3, <2>3, <2>4 DEF InChat
  <1>6. CASE AcceptSelf /\ ~Die
    <2>1. /\ chatlist' = [chatlist EXCEPT ![task.cid] = Append(@, task.uid)]
          /\ task.cid \in DOMAIN chatlist /\ chatlist[task.cid] = <<>> /\ task.uid \in AnyUser
      BY <1>0, <1>6 DEF AcceptSelf, insertChatlist, Task, ChatSoFar
    <2>2. \A v, k : InChat(v, k)' <=> InChat(v, k) \/ (v = task.uid /\ k = task.cid)
      BY <1>0, <2>1, InAppended
    <2>3. \A v : ~InChat(v, task.cid)
      BY <2>1 DEF InChat
    <2> QED BY <1>1, <1>2, <1>3, <2>2, <2>3
  <1>7. CASE AcceptPeer /\ ~Die
    <2>1. /\ chatlist' = [chatlist EXCEPT ![task.cid] = Append(@, task.fid)]
          /\ task.cid \in DOMAIN chatlist /\ chatlist[task.cid] = <<task.uid>>
          /\ task.fid \in AnyUser /\ task' = [task EXCEPT !.at = "accept.push"]
      BY <1>0, <1>7 DEF AcceptPeer, insertChatlist, Task, ChatSoFar, Goto
    <2>2. \A v, k : InChat(v, k)' <=> InChat(v, k) \/ (v = task.fid /\ k = task.cid)
      BY <1>0, <2>1, InAppended
    <2>3. \A v : InChat(v, task.cid) => v = task.uid
      BY <2>1 DEF InChat
    <2>4. task'.at = "accept.push" /\ task'.uid = task.uid /\ task'.fid = task.fid
      BY <1>0, <2>1 DEF Task
    <2>5. CASE cid = task.cid
      BY <1>1, <1>2, <2>2, <2>3, <2>4, <2>5 DEF Hearing
    <2>6. CASE cid # task.cid
      BY <1>2, <1>3, <2>2, <2>6
    <2> QED BY <2>5, <2>6
  <1>8. Die => UNCHANGED chatlist
    BY DEF Die, dbVars, chatVars
  <1> QED BY <1>0, <1>4, <1>5, <1>6, <1>7, <1>8, ChatlistNext

\* Friends are friends of each other.
LEMMA FriendsMutual ==
  ASSUME MembersKnown, NEW u \in User, NEW f \in getFrindIds(u)
  PROVE  f # u /\ f \in registered /\ u \in getFrindIds(f)
  BY DEF MembersKnown, getFrindIds

\* Somebody comes online by a login only.
LEMMA OnlineNext ==
  ASSUME TInv, [Next]_vars, NEW f \in User, ~online[f], online'[f] PROVE task.at = "idle"
  <1> SUFFICES ASSUME task.at # "idle" PROVE online' = online \/ ~online'[f]
    OBVIOUS
  <1>1. Die \/ UNCHANGED vars => online' = online
    BY DEF Die, vars, dbVars, userVars
  <1>2. Start => ~online'[f]
    BY DEF Start, resetPresence
  <1>3. Kill \/ DbFault => online' = online
    BY <1>1 DEF Kill, DbFault, dbVars, userVars
  <1>4. \A c \in Conn : ~Request(c)
    BY DEF Request, Refuse, Register, Login, Logout, AddFriend, AcceptFriend, DeclineFriend,
       RemoveFriend, NewMessage, Receives
  <1>5. \A c \in Conn : ~on_open(c) /\ ~PeerCloses(c) /\ ~on_close(c)
    BY DEF on_open, PeerCloses, on_close, Receives
  <1>6. SessionStep => online' = online
    BY <1>1 DEF SessionStep, CloseSession, Return, LoginSession, LoginLists, LoginChats,
       LogoutSession, LogoutEmail, LogoutDone, LoginNotify, LogoutNotify, setSessionID, dbVars,
       userVars
  <1>7. FriendStep => online' = online
    BY <1>1 DEF FriendStep, AddFriendPush, AcceptChat, AcceptSelf, AcceptPeer, AcceptPush,
       removeRequest, removeFriend, insertChat, insertChatlist, dbVars, userVars
  <1>8. MessageStep => online' = online
    BY <1>1 DEF MessageStep, MsgEcho, MsgDirect, MsgFlag, MsgRoomDone, MsgRoom,
       setMessageTransmitted, dbVars, userVars
  <1> QED BY <1>1, <1>2, <1>3, <1>4, <1>5, <1>6, <1>7, <1>8 DEF Next, HandlerStep

\* u has been told that f is online, or has it in the list it was sent.
Told(f, u) ==
  LoginDone(f) \/ (task.at = "login.notify" /\ task.uid = f /\ u \notin task.todo)

LEMMA DoneNext ==
  ASSUME AllInv, AllInv', [Next]_vars, NEW f \in User, LoginDone(f)'
  PROVE  LoginDone(f) \/ (LoginChats /\ f = task.uid /\ task.at = "login.notify")
  <1>1. PICK d \in Conn : Bound(f, d)' /\ listed'[d] = f
    BY DEF LoginDone
  <1>2. Listening(d, f)' /\ online'[f]
    BY <1>1 DEF LoginDone, Listening, AllInv, SInv, DInv, PInv, AuthInv, DownIsEmpty, Bound, Live
  <1>3. Listening(d, f) /\ online[f] => LoginDone(f)
    BY DEF Listening, LoginDone
  <1>4. CASE Listening(d, f)
    <2>1. online[f] \/ Leaving(d)
      BY <1>4 DEF AllInv, SInv, SeesInv, ListedOnline
    <2>2. online[f]
      BY <1>2, <2>1, OnlineNext DEF Leaving, AllInv, SysInv
    <2> QED BY <1>3, <1>4, <2>2
  <1>5. CASE ~Listening(d, f)
    <2>1. LoginChats
      BY <1>2, <1>5, NextStays DEF AllInv, Stays
    <2> QED BY <1>2, <1>5, <2>1, NewlyListening
  <1> QED BY <1>4, <1>5

LEMMA ToldNext ==
  ASSUME AllInv, AllInv', PushInv, [Next]_vars, NEW u \in User, NEW f \in getFrindIds(u),
         Told(f, u)'
  PROVE  \/ Told(f, u)
         \/ /\ task.at = "login.notify" /\ task.uid = f /\ u \in task.todo
            /\ task'.at = "login.notify" /\ u \notin task'.todo
  <1>0. /\ f \in User /\ f # u /\ u \in getFrindIds(f) /\ task \in Task
        /\ "template" \notin Faults
    BY FriendsMutual, STypes, SystemAssumption DEF PushInv, AllInv
  <1>1. CASE LoginDone(f)'
    <2>1. LoginChats => task.todo = {}
      BY DEF LoginChats
    <2> QED BY <1>0, <1>1, <2>1, DoneNext DEF Told
  <1>2. CASE task'.at = "login.notify" /\ task'.uid = f /\ u \notin task'.todo
    <2>1. CASE LoginLists
      <3>1. task' = [task EXCEPT !.at = "login.notify", !.answered = TRUE,
                                 !.todo = getFrindIds(Caller(task.hdl))]
        BY <1>0, <2>1 DEF LoginLists
      <3>2. task'.uid = task.uid /\ task'.todo = getFrindIds(Caller(task.hdl))
        BY <1>0, <3>1 DEF Task
      <3>3. Caller(task.hdl) = task.uid
        BY <2>1, DTypes, CallerFound
        DEF LoginLists, AllInv, SInv, DInv, HandedInv, CallerStays
      <3> QED BY <1>0, <1>2, <3>2, <3>3
    <2>2. CASE ~LoginLists
      BY <1>2, <2>2, NotifyNext DEF Told
    <2> QED BY <2>1, <2>2
  <1> QED BY <1>1, <1>2 DEF Told

-----------------------------------------------------------------------------
(* What pages are told of friends.                                          *)

\* c will show u's friend f, and as online if u has been told.
Shown(c, u, f) == \A b \in BOOLEAN : (b => Told(f, u)) => Shows(c, Has(f, b))

FriendsComing ==
  \A c \in Conn, u \in User : Looking(c, u) =>
    \A f \in getFrindIds(u) : Shown(c, u, f) \/ Hearing(u, f)

\* A page that is being logged in was sent them first.
FriendsAtLogin ==
  \A c \in Conn, u \in User : Greeting(c, u) =>
    \A f \in getFrindIds(u) : Shown(c, u, f)

FriendsInv == FriendsComing /\ FriendsAtLogin

\* Only in f's logout is anybody told that f is gone, and then f is not online.
LEMMA FriendOnward ==
  ASSUME SysInv, PushInv, [SystemNext]_sysVars, NEW c \in Conn, NEW u, NEW f \in User,
         NEW b \in BOOLEAN, b => Told(f, u)
  PROVE  Onward(c, Spares(f, b))
  <1>1. Glad \subseteq Spares(f, b) /\ Spares(f, b) \subseteq Msg
    BY DEF Glad, Spares
  <1>2. ASSUME task.at = "logout.notify" PROVE Notify(task.uid, FALSE) \in Spares(f, b)
    <2>1. task.uid \in User /\ Notify(task.uid, FALSE) \in Msg
      BY <1>2, Spoken DEF SysInv, Named, ByUser
    <2>2. b => f # task.uid
      BY <1>2, <2>1 DEF Told, LoginDone, PushInv, GoneOffline, LogoutLabels
    <2>3. Notify(task.uid, FALSE).email = task.uid
      BY DEF Notify
    <2> QED BY <2>1, <2>2, <2>3 DEF Spares
  <1> QED BY <1>1, <1>2, SystemOnward

LEMMA SparesStay ==
  ASSUME SysInv, PushInv, [SystemNext]_sysVars, NEW c \in Conn, NEW u, NEW f \in User,
         NEW b \in BOOLEAN, b => Told(f, u), Shows(c, Has(f, b)), On(c)', Live(c)
  PROVE  Shows(c, Has(f, b))'
  <1>1. Onward(c, Spares(f, b))
    BY FriendOnward
  <1>2. \A p \in Has(f, b) : \A m \in Spares(f, b) : After(p, m) \in Has(f, b)
    BY HasStay
  <1>3. Spares(f, b) \subseteq Msg
    BY DEF Spares
  <1> QED BY <1>1, <1>2, <1>3, ShowsStay

LEMMA NewFriendShows ==
  ASSUME SysInv, NEW c \in Conn, NEW f \in User, NEW b \in BOOLEAN, b => online[f], On(c)',
         NEW w \in Seq(Spares(f, b)), NEW k \in 1..Len(w), w[k] = NewFriend(f), Sent(c, w)
  PROVE  Shows(c, Has(f, b))'
  <1> DEFINE m == NewFriend(f)
  <1>1. m \in Msg /\ m.kind = "newFriendListUser" /\ m.values = <<FriendRowOf(f)>>
    BY Spoken DEF NewFriend, Glad
  <1>2. m.values[1] = FriendRowOf(f) /\ 1 \in DOMAIN m.values
    BY <1>1
  <1>3. FriendRowOf(f).email = f /\ FriendRowOf(f).online = online[f]
    BY DEF FriendRowOf
  <1> HIDE DEF m
  <1>4. \A p \in Page : After(p, m) \in Has(f, b)
    BY <1>1, <1>2, <1>3, HasGains
  <1>5. \A p \in Has(f, b) : \A x \in Spares(f, b) : After(p, x) \in Has(f, b)
    BY HasStay
  <1>6. w[k] = m /\ Spares(f, b) \subseteq Msg
    BY DEF m, Spares
  <1> QED BY <1>4, <1>5, <1>6, SentShows

\* Two pairs of messages, one after the other.
LEMMA PairsAppended ==
  ASSUME NEW S, NEW a \in S, NEW b \in S, NEW d \in S, NEW e \in S
  PROVE  /\ <<a, b>> \o <<d, e>> \in Seq(S)
         /\ 1 \in 1..Len(<<a, b>> \o <<d, e>>) /\ (<<a, b>> \o <<d, e>>)[1] = a
         /\ 3 \in 1..Len(<<a, b>> \o <<d, e>>) /\ (<<a, b>> \o <<d, e>>)[3] = d
  <1> DEFINE s == <<a, b>>
             t == <<d, e>>
  <1>1. s \in Seq(S) /\ Len(s) = 2 /\ s[1] = a /\ t \in Seq(S) /\ Len(t) = 2 /\ t[1] = d
    OBVIOUS
  <1> HIDE DEF s, t
  <1>2. s \o t \in Seq(S) /\ Len(s \o t) = Len(s) + Len(t)
        /\ \A i \in 1..(Len(s) + Len(t)) :
              (s \o t)[i] = IF i <= Len(s) THEN s[i] ELSE t[i - Len(s)]
    BY <1>1, ConcatProperties
  <1>3. Len(s) = 2 /\ Len(t) = 2 /\ s[1] = a /\ t[1] = d
    BY <1>1
  <1> DEFINE st == s \o t
  <1>4. /\ st \in Seq(S) /\ Len(st) = 4
        /\ \A i \in 1..4 : st[i] = IF i <= 2 THEN s[i] ELSE t[i - 2]
    BY <1>2, <1>3
  <1> HIDE DEF st
  <1>5. st[1] = a
    BY <1>3, <1>4
  <1>6. st[3] = d
    BY <1>3, <1>4
  <1>7. st \in Seq(S) /\ 1 \in 1..Len(st) /\ 3 \in 1..Len(st)
    BY <1>4
  <1> QED BY <1>5, <1>6, <1>7 DEF s, t, st

\* Both friends get the other one's row, whoever of them accepted.
LEMMA AcceptPushShows ==
  ASSUME AllInv, PushInv, NEW c \in Conn, NEW u \in User, NEW f \in User, f # u,
         Listening(c, u), Hearing(u, f), AcceptPushSent, up', On(c)',
         NEW b \in BOOLEAN, b => online[f]
  PROVE  Shows(c, Has(f, b))'
  <1> DEFINE x == NewFriend(task.uid)
             y == NewFriend(task.fid)
             n == NewChat(task.cid)
             s == <<x, n>>
             own == <<y, n>>
             M == Spares(f, b)
  <1>0. /\ task.at = "accept.push" /\ SysInv /\ task.hdl \in Conn /\ PInv
        /\ task.uid \in User /\ task.fid \in User
    BY STypes DEF AllInv, SInv, DInv, SysInv, Hearing
  <1>1. PushIfOnline(task.fid, s, own)
    BY DEF AcceptPushSent
  <1>2. x \in M /\ y \in M /\ n \in M /\ M \subseteq Msg
    <2>1. x \in Glad /\ y \in Glad /\ n \in Glad
      BY <1>0, Spoken DEF SysInv, Named, InChats
    <2> QED BY <2>1 DEF Glad, Spares
  <1> HIDE DEF x, y, n, M
  <1>3. /\ s \in Seq(M) /\ 1 \in 1..Len(s) /\ s[1] = x
        /\ own \in Seq(M) /\ 1 \in 1..Len(own) /\ own[1] = y
    BY <1>2
  <1>5. s \o own \in Seq(M) /\ 1 \in 1..Len(s \o own) /\ 3 \in 1..Len(s \o own)
    BY <1>2, PairsAppended
  <1>6. (s \o own)[1] = x /\ (s \o own)[3] = y
    BY <1>2, PairsAppended
  <1> HIDE DEF s, own
  <1>4. s \in Seq(Msg) /\ own \in Seq(Msg)
    BY <1>2, <1>3, SeqMonotonic
  <1>7. CASE u = task.fid /\ f = task.uid
    <2>1. ~Leaving(c) /\ task.at # "login.session"
      BY <1>0 DEF Leaving
    <2>2. Sent(c, s) \/ Sent(c, s \o own)
      BY <1>0, <1>1, <1>4, <1>7, <2>1, PushReaches
    <2>3. s[1] = NewFriend(f) /\ (s \o own)[1] = NewFriend(f)
      BY <1>3, <1>6, <1>7 DEF x
    <2>4. CASE Sent(c, s)
      BY <1>0, <1>3, <2>3, <2>4, NewFriendShows DEF M
    <2>5. CASE Sent(c, s \o own)
      BY <1>0, <1>5, <2>3, <2>5, NewFriendShows DEF M
    <2> QED BY <2>2, <2>4, <2>5
  <1>8. CASE u = task.uid /\ f = task.fid
    <2>1. Bound(u, task.hdl) /\ Bound(u, c)
      BY <1>0, <1>8, DatabaseAssumption DEF PushInv, AccepterStays, AcceptLabels, Listening
    <2>2. c = task.hdl
      BY <1>0, <2>1, AtOnePlace
    <2>3. Sent(c, own) \/ Sent(c, s \o own)
      BY <1>0, <1>1, <1>4, <2>2, OwnReaches
    <2>4. own[1] = NewFriend(f) /\ (s \o own)[3] = NewFriend(f)
      BY <1>3, <1>6, <1>8 DEF y
    <2>5. CASE Sent(c, own)
      BY <1>0, <1>3, <2>4, <2>5, NewFriendShows DEF M
    <2>6. CASE Sent(c, s \o own)
      BY <1>0, <1>5, <2>4, <2>6, NewFriendShows DEF M
    <2> QED BY <2>3, <2>5, <2>6
  <1> QED BY <1>7, <1>8 DEF Hearing

\* Who lists the friend lists it as online once it is told so.
LEMMA LoginNotifyShows ==
  ASSUME AllInv, NEW c \in Conn, NEW u \in User, NEW f \in User, Listening(c, u),
         task.uid = f, LoginNotifySent(u), task'.at = "login.notify", up', On(c)',
         Shows(c, Has(f, FALSE))
  PROVE  Shows(c, Has(f, TRUE))'
  <1> DEFINE m == Notify(f, TRUE)
             s == <<m>>
  <1>1. PushIfOnline(u, s, <<>>) /\ task.at = "login.notify"
    BY DEF LoginNotifySent, LoginNotify
  <1>2. task.hdl \in Conn /\ ~Leaving(c) /\ m \in Msg
    BY <1>1, STypes, Spoken DEF AllInv, Leaving, Glad
  <1> HIDE DEF m
  <1>3. s \in Seq(Msg) /\ <<>> \in Seq(Msg) /\ s \o <<>> = s
    BY <1>2, ConcatEmptySeq
  <1> HIDE DEF s
  <1>4. Sent(c, s)
    BY <1>1, <1>2, <1>3, PushReaches
  <1> SUFFICES ASSUME NEW t, Coming(c, t)' PROVE t \in Has(f, TRUE)
    BY DEF Shows
  <1>5. PICK q : Coming(c, q) /\ Leads(q, s, t)
    BY <1>4 DEF Sent
  <1>6. q \in Has(f, FALSE) /\ q \in Page
    BY <1>5 DEF Shows, Has
  <1>7. t = After(q, m)
    BY <1>2, <1>5, <1>6, LeadsOne DEF s
  <1>8. After(q, m) \in Has(f, TRUE)
    BY <1>2, <1>6, HasTold DEF m
  <1> QED BY <1>7, <1>8

\* The answer to a login lists all friends, as online who is.
LEMMA LoginListsFriends ==
  ASSUME AllInv, LoginListsSent, up', task'.at = "login.notify", NEW c \in Conn, NEW u \in User,
         c = task.hdl, u = task.uid, On(c)', NEW f \in getFrindIds(u),
         NEW b \in BOOLEAN, b => online[f]
  PROVE  Shows(c, Has(f, b))'
  <1>1. task.at = "login.lists" /\ Bound(task.uid, task.hdl) /\ PInv /\ PagesInv /\ SysInv
    BY DTypes DEF LoginListsSent, LoginLists, AllInv, SysInv, SInv, DInv, HandedInv, CallerStays
  <1>2. c = task.hdl /\ u = task.uid
    OBVIOUS
  <1>3. Caller(c) = u
    BY <1>1, <1>2, CallerFound
  <1> DEFINE F == getFrindIds(u)
             x == Plain("login")
             m == sendFriendlist(u)
             y == Requests(Rows(getFriendRequests(u)))
             w == <<x, m, y>>
             M == Spares(f, b)
  <1>4. Post(To(c, w))
    BY <1>2, <1>3 DEF LoginListsSent
  <1>5. x \in M /\ m \in M /\ y \in M /\ M \subseteq Msg /\ m \in Msg
    <2>1. x \in Glad /\ m \in Glad /\ y \in Glad
      BY <1>1, Spoken, FriendRows
    <2> QED BY <2>1 DEF Glad, Spares
  <1>6. F \subseteq registered /\ IsFiniteSet(registered)
    BY <1>1, STypes DEF getFrindIds, AllInv
  <1>7. PICK i \in DOMAIN Rows(F) : Rows(F)[i] = f
    BY <1>6, FS_Subset, RowsList
  <1>8. /\ m.kind = "friendlist" /\ i \in DOMAIN m.values
        /\ m.values[i].email = f /\ m.values[i].online = online[f]
    <2>1. m.values = [j \in DOMAIN Rows(F) |-> FriendRowOf(Rows(F)[j])] /\ m.kind = "friendlist"
      BY DEF sendFriendlist
    <2> HIDE DEF m
    <2> QED BY <1>7, <2>1 DEF FriendRowOf
  <1> HIDE DEF F, x, m, y, M
  <1>9. w \in Seq(M) /\ 2 \in 1..Len(w) /\ w[2] = m
    BY <1>5
  <1> HIDE DEF w
  <1>10. Sent(c, w)
    BY <1>1, <1>4, <1>5, <1>9, SeqMonotonic, PostReaches
  <1>11. \A p \in Page : After(p, m) \in Has(f, b)
    BY <1>5, <1>8, HasGains
  <1>12. \A p \in Has(f, b) : \A z \in M : After(p, z) \in Has(f, b)
    BY HasStay DEF M
  <1> QED BY <1>5, <1>9, <1>10, <1>11, <1>12, SentShows

\* A friend who comes online while u is waiting to be told is shown once u is told.
LEMMA NotifyShows ==
  ASSUME AllInv, PushInv, SystemNext, NEW c \in Conn, NEW u \in User, Listening(c, u),
         NEW f \in User, task.at = "login.notify", task.uid = f, u \in task.todo,
         task'.at = "login.notify", u \notin task'.todo, up', On(c)', Shows(c, Has(f, FALSE))
  PROVE  Shows(c, Has(f, TRUE))'
  <1>1. task \in Task /\ "template" \notin Faults
    BY STypes, SystemAssumption DEF AllInv
  <1>2. ~LoginChatsSent
    BY DEF LoginChatsSent, LoginChats
  <1>3. PICK g \in User : LoginNotifySent(g)
    BY <1>2, BusyAt
  <1>4. task' = [task EXCEPT !.todo = @ \ {g}]
    <2>1. ~Reply(task.hdl) /\ ~Die
      BY DTypes, NextLabels DEF AllInv, SysInv, Die, Idle
    <2> QED BY <1>3, <2>1 DEF LoginNotifySent, LoginNotify
  <1>5. g = u
    BY <1>1, <1>4 DEF Task
  <1> QED BY <1>3, <1>5, LoginNotifyShows

LEMMA FriendsComingNext ==
  ASSUME AllInv, AllInv', PushInv, FriendsInv, [SystemNext]_sysVars, [Next]_vars,
         NEW c \in Conn, NEW u \in User, Looking(c, u)', NEW f \in getFrindIds(u)',
         ~Hearing(u, f)', NEW b \in BOOLEAN, b => Told(f, u)'
  PROVE  Shows(c, Has(f, b))'
  <1>0. /\ On(c)' /\ Listening(c, u)' /\ up' /\ SysInv
    BY DEF Looking, Listening, AllInv
  <1>1. f \in getFrindIds(u)
    BY FriendsNext DEF PushInv
  <1>2. f \in User /\ f # u /\ u # NoUser
    BY <1>1, FriendsMutual, STypes, DatabaseAssumption DEF PushInv, AllInv
  <1>3. \/ b => Told(f, u)
        \/ /\ task.at = "login.notify" /\ task.uid = f /\ u \in task.todo
           /\ task'.at = "login.notify" /\ u \notin task'.todo
    BY <1>1, ToldNext
  <1>4. CASE Listening(c, u)
    <2>1. Live(c) /\ On(c)
      BY <1>0, <1>4, AnyOnward DEF Listening, Bound, Onward
    <2>2. CASE Hearing(u, f)
      <3>1. ~UNCHANGED sysVars
        BY <2>2 DEF Hearing, sysVars, vars
      <3>2. AcceptPushSent
        BY <1>0, <2>2, <3>1, BusyAt DEF Hearing
      <3>3. b => online[f]
        BY <1>3, <2>2 DEF Hearing, Told, LoginDone
      <3> QED BY <1>0, <1>2, <1>4, <2>2, <3>2, <3>3, AcceptPushShows
    <2>3. CASE Shown(c, u, f)
      <3>1. CASE b => Told(f, u)
        BY <1>0, <1>2, <2>1, <2>3, <3>1, SparesStay DEF Shown
      <3>2. CASE ~(b => Told(f, u))
        <4>1. /\ task.at = "login.notify" /\ task.uid = f /\ u \in task.todo
              /\ task'.at = "login.notify" /\ u \notin task'.todo
          BY <1>3, <3>2
        <4>2. SystemNext
          BY <4>1 DEF sysVars, vars
        <4>3. b = TRUE /\ Shows(c, Has(f, FALSE))
          BY <2>3, <3>2 DEF Shown
        <4>4. Shows(c, Has(f, TRUE))'
          BY <1>0, <1>2, <1>4, <4>1, <4>2, <4>3, NotifyShows
        <4> QED BY <4>3, <4>4
      <3> QED BY <3>1, <3>2
    <2> QED BY <1>1, <1>4, <2>1, <2>2, <2>3 DEF FriendsInv, FriendsComing, Looking
  <1>5. CASE ~Listening(c, u)
    <2>1. LoginChats
      BY <1>0, <1>5, NextStays DEF AllInv, Stays
    <2>2. c = task.hdl /\ u = task.uid /\ Live(c) /\ task.at = "login.notify"
      BY <1>0, <1>5, <2>1, NewlyListening
    <2>3. Greeting(c, u)
      BY <1>0, <2>2, AnyOnward DEF Onward, Greeting
    <2>4. b => Told(f, u)
      BY <1>2, <1>3, <2>2
    <2>5. Shows(c, Has(f, b))
      BY <1>1, <2>3, <2>4 DEF FriendsInv, FriendsAtLogin, Shown
    <2> QED BY <1>0, <1>2, <2>2, <2>4, <2>5, SparesStay
  <1> QED BY <1>4, <1>5

LEMMA FriendsAtLoginNext ==
  ASSUME AllInv, AllInv', PushInv, FriendsInv, [SystemNext]_sysVars, [Next]_vars,
         NEW c \in Conn, NEW u \in User, Greeting(c, u)', NEW f \in getFrindIds(u)',
         NEW b \in BOOLEAN, b => Told(f, u)'
  PROVE  Shows(c, Has(f, b))'
  <1>0. On(c)' /\ task'.at = "login.notify" /\ SysInv /\ Live(c) /\ u = task.uid /\ c = task.hdl
    BY GreetingNext DEF Greeting, AllInv
  <1>1. f \in getFrindIds(u)
    BY GreetingNext DEF getFrindIds, InChat, dbVars, userVars, chatVars
  <1>2. f \in User /\ f # u
    BY <1>1, FriendsMutual, STypes DEF PushInv, AllInv
  <1>3. b => Told(f, u)
    BY <1>0, <1>1, <1>2, ToldNext
  <1>4. CASE LoginListsSent /\ up'
    <2>1. b => online[f]
      BY <1>3, <1>4 DEF Told, LoginDone, LoginListsSent, LoginLists
    <2> QED BY <1>0, <1>1, <1>4, <2>1, LoginListsFriends
  <1>5. CASE Greeting(c, u)
    <2>1. Shows(c, Has(f, b))
      BY <1>1, <1>3, <1>5 DEF FriendsInv, FriendsAtLogin, Shown
    <2> QED BY <1>0, <1>2, <1>3, <2>1, SparesStay
  <1> QED BY <1>4, <1>5, GreetingNext

LEMMA NextFriends ==
  ASSUME ~AccountSwitch
  PROVE  AllInv /\ PushInv /\ FriendsInv /\ [SystemNext]_sysVars => PushInv' /\ FriendsInv'
  <1> SUFFICES ASSUME AllInv, PushInv, FriendsInv, [SystemNext]_sysVars
               PROVE  PushInv' /\ FriendsInv'
    OBVIOUS
  <1>0. AllInv' /\ [Next]_vars
    BY NextAll
  <1>1. FriendsComing'
    <2> SUFFICES ASSUME NEW c \in Conn, NEW u \in User, Looking(c, u)',
                        NEW f \in getFrindIds(u)', ~Hearing(u, f)',
                        NEW b \in BOOLEAN, b => Told(f, u)'
                 PROVE  Shows(c, Has(f, b))'
      BY DEF FriendsComing, Shown
    <2> QED BY <1>0, FriendsComingNext
  <1>2. FriendsAtLogin'
    <2> SUFFICES ASSUME NEW c \in Conn, NEW u \in User, Greeting(c, u)',
                        NEW f \in getFrindIds(u)', NEW b \in BOOLEAN, b => Told(f, u)'
                 PROVE  Shows(c, Has(f, b))'
      BY DEF FriendsAtLogin, Shown
    <2> QED BY <1>0, FriendsAtLoginNext
  <1>3. PushInv'
    BY <1>0, NextPush
  <1> QED BY <1>1, <1>2, <1>3 DEF FriendsInv

LEMMA InitFriends == SystemInit => PushInv /\ FriendsInv
  <1> SUFFICES ASSUME SystemInit PROVE PushInv /\ FriendsInv
    OBVIOUS
  <1>1. PushInv
    BY InitPush DEF SystemInit
  <1>2. FriendsInv
    BY DEF SystemInit, Init, SessionsInit, ClientInit, NoTab, FriendsInv, FriendsComing,
       FriendsAtLogin, Looking, Greeting, On
  <1> QED BY <1>1, <1>2

\* A page that has caught up lists every friend of its user, and as online every
\* friend whose login is done, in whatever order the two came online and whichever
\* of them accepted the other.
THEOREM PagesShowOnline ==
  ASSUME ~AccountSwitch PROVE SystemSpec => []PageShowsOnline
  <1>1. SystemInit => AllInv /\ PushInv /\ FriendsInv
    BY InitAll, InitFriends
  <1>2. /\ AllInv /\ PushInv /\ FriendsInv /\ [SystemNext]_sysVars
        => (AllInv /\ PushInv /\ FriendsInv)'
    BY NextAll, NextFriends
  <1>3. AllInv /\ PushInv /\ FriendsInv => PageShowsOnline
    <2> SUFFICES ASSUME AllInv, FriendsInv, NEW c \in Conn, NEW u \in User, UpToDate(c, u),
                        NEW f \in getFrindIds(u)
                 PROVE  \E i \in DOMAIN tab[c].friends :
                          /\ tab[c].friends[i].email = f
                          /\ LoginDone(f) => tab[c].friends[i].online
      BY DEF PageShowsOnline
    <2> DEFINE t == Unasked(tab[c])
    <2>1. Looking(c, u) /\ Coming(c, t)
      BY CaughtUp
    <2>2. Shown(c, u, f)
      BY <2>1 DEF FriendsInv, FriendsComing, Hearing, UpToDate
    <2>3. t.friends = tab[c].friends
      BY DEF AllInv, SysInv, PagesInv, Unasked, Page, Tab
    <2> HIDE DEF t
    <2>4. CASE LoginDone(f)
      <3>1. t \in Has(f, TRUE)
        BY <2>1, <2>2, <2>4 DEF Shown, Shows, Told
      <3> QED BY <2>3, <3>1 DEF Has
    <2>5. CASE ~LoginDone(f)
      <3>1. t \in Has(f, FALSE)
        BY <2>1, <2>2 DEF Shown, Shows
      <3> QED BY <2>3, <2>5, <3>1 DEF Has
    <2> QED BY <2>4, <2>5
  <1> QED BY <1>1, <1>2, <1>3, PTL DEF SystemSpec
=============================================================================
