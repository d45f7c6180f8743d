----------------------------- MODULE ChatProofs -----------------------------
(***************************************************************************)
(* What a page that has caught up shows of chats: those of its user and    *)
(* their messages, each once and in order, as they are stored.  A page     *)
(* gets them in three ways: in the list that answers its login, in the     *)
(* push of a new chat and in the push of a new message; and other clients' *)
(* handlers push while its own login is served.  The argument: what is     *)
(* coming to a page fits what its user has been told, at every step, and   *)
(* what is told later is newer than all that was told before.              *)
(*                                                                         *)
(* Assumed is what PageProofs assumes, and Patient: no second login is     *)
(* submitted before the first is answered.  A page that gets two chat      *)
(* lists shows every chat twice.                                           *)
(***************************************************************************)
EXTENDS PageProofs

-----------------------------------------------------------------------------
(* Rows in the order of their ids.                                          *)

\* Every element of S is somewhere in s.
Covers(s, S) == \A x \in S : \E i \in DOMAIN s : s[i] = x

\* At the first place where two lists of the same numbers differ, neither has
\* the smaller one: the other list would have it nowhere.
LEMMA NotSmaller ==
  ASSUME NEW S, S \subseteq Nat, NEW n \in Nat,
         NEW a \in [1..n -> S], Ascending(a), NEW b \in [1..n -> S], Ascending(b), Covers(b, S),
         NEW i \in 1..n, \A j \in 1..n : j < i => a[j] = b[j]
  PROVE  ~(a[i] < b[i])
  <1> SUFFICES ASSUME a[i] < b[i] PROVE FALSE
    OBVIOUS
  <1>1. PICK j \in 1..n : b[j] = a[i]
    BY DEF Covers
  <1>2. a[i] \in Nat /\ b[i] \in Nat /\ a[j] \in Nat /\ b[j] \in Nat
    OBVIOUS
  <1>3. CASE j < i
    <2>1. a[j] = b[j] /\ a[j] < a[i]
      BY <1>3 DEF Ascending
    <2> QED BY <1>1, <1>2, <2>1
  <1>4. CASE i < j
    <2>1. b[i] < b[j]
      BY <1>4 DEF Ascending
    <2> QED BY <1>1, <1>2, <2>1
  <1>5. CASE i = j
    BY <1>1, <1>2, <1>5
  <1> QED BY <1>3, <1>4, <1>5

LEMMA SameOrder ==
  ASSUME NEW S, S \subseteq Nat, NEW n \in Nat,
         NEW a \in [1..n -> S], Ascending(a), Covers(a, S),
         NEW b \in [1..n -> S], Ascending(b), Covers(b, S)
  PROVE  a = b
  <1> DEFINE D == {i \in 1..n : a[i] # b[i]}
  <1> SUFFICES ASSUME D # {} PROVE FALSE
    OBVIOUS
  <1>1. PICK i \in D : \A j \in D : i <= j
    <2>1. D \subseteq Nat
      OBVIOUS
    <2> HIDE DEF D
    <2> QED BY <2>1, NatLeast
  <1>2. i \in 1..n /\ a[i] # b[i]
    OBVIOUS
  <1>3. \A j \in 1..n : j < i => a[j] = b[j]
    BY <1>1
  <1> HIDE DEF D
  <1>4. ~(a[i] < b[i])
    BY <1>2, <1>3, NotSmaller
  <1>5. ~(b[i] < a[i])
    BY <1>2, <1>3, NotSmaller
  <1>6. a[i] \in Nat /\ b[i] \in Nat
    BY <1>2
  <1> QED BY <1>2, <1>4, <1>5, <1>6

LEMMA AscendingInjective ==
  ASSUME NEW S, S \subseteq Nat, NEW n \in Nat, NEW s \in [1..n -> S], Ascending(s)
  PROVE  s \in Injection(1..n, S)
  <1>1. ASSUME NEW i \in 1..n, NEW j \in 1..n, s[i] = s[j] PROVE i = j
    <2>1. s[i] \in Nat
      OBVIOUS
    <2>2. ~(i < j) /\ ~(j < i)
      BY <1>1, <2>1 DEF Ascending
    <2> QED BY <2>2
  <1> QED BY <1>1 DEF Injection, IsInjective

\* A finite set of numbers has all of them in its list,
LEMMA OrderedCovers ==
  ASSUME NEW S, S \subseteq Nat, IsFiniteSet(S) PROVE Covers(Ordered(S), S)
  <1> DEFINE n == Cardinality(S)
  <1>1. n \in Nat /\ IsFiniteSet(1..n) /\ Cardinality(1..n) = n
    <2>1. n \in Nat
      BY FS_CardinalityType
    <2> HIDE DEF n
    <2>2. IsFiniteSet(1..n) /\ Cardinality(1..n) = IF 1 > n THEN 0 ELSE n - 1 + 1
      BY <2>1, FS_Interval
    <2> QED BY <2>1, <2>2
  <1>2. Ordered(S) \in [1..n -> S] /\ Ascending(Ordered(S))
    BY OrderedList
  <1>3. Ordered(S) \in Injection(1..n, S)
    <2> HIDE DEF n
    <2> QED BY <1>1, <1>2, AscendingInjective
  <1>4. Ordered(S) \in Surjection(1..n, S)
    BY <1>1, <1>3, FS_Injection
  <1> QED BY <1>2, <1>4 DEF Surjection, Covers

\* and a list of them in order is that list.
LEMMA OrderedIs ==
  ASSUME NEW S, S \subseteq Nat, NEW n \in Nat, NEW s \in [1..n -> S],
         Ascending(s), Covers(s, S)
  PROVE  Ordered(S) = s
  <1>1. s \in Injection(1..n, S)
    BY AscendingInjective
  <1>2. s \in Surjection(1..n, S)
    BY DEF Covers, Surjection
  <1>3. ExistsBijection(1..n, S)
    BY <1>1, <1>2 DEF ExistsBijection, Bijection
  <1>4. IsFiniteSet(S) /\ Cardinality(S) = n
    BY <1>3, FS_NatBijection, FS_CountingElements
  <1>5. Ordered(S) \in [1..n -> S] /\ Ascending(Ordered(S)) /\ Covers(Ordered(S), S)
    BY <1>4, OrderedList, OrderedCovers
  <1> QED BY <1>5, SameOrder

-----------------------------------------------------------------------------
(* The chats a page has been told of.  A chat counts from the push that     *)
(* ends createChat, a message for its author from the echo, for the other   *)
(* member from the push after it.                                           *)

\* A chat that is stored and that its members are yet to be told of.
UntoldChat(cid) == task.at \in {"accept.peer", "accept.push"} /\ cid = task.cid

\* A message being delivered that u may not have been sent.
UntoldTo(u, m) ==
  /\ task.at \in Delivering /\ m = task.mid
  /\ task.at # "msg.echo" => u # task.uid

ToldChats(u) == {cid \in DOMAIN chatlist : InChat(u, cid) /\ ~UntoldChat(cid)}

ToldIn(u, cid) ==
  {m \in DOMAIN messages :
     messages[m].cid = cid /\ messages[m].uid \in registered /\ ~UntoldTo(u, m)}

\* x lists these chats of u with these messages, in order.
Fits(x, u) ==
  /\ \A i, j \in DOMAIN x : i < j => x[i].id < x[j].id
  /\ \A i \in DOMAIN x : x[i].id \in ToldChats(u)
  /\ \A cid \in ToldChats(u) : \E i \in DOMAIN x : x[i].id = cid
  /\ \A i \in DOMAIN x : Ascending(x[i].messages)
  /\ \A i \in DOMAIN x : \A j \in DOMAIN x[i].messages :
       x[i].messages[j] \in ToldIn(u, x[i].id)
  /\ \A i \in DOMAIN x : \A m \in ToldIn(u, x[i].id) :
       \E j \in DOMAIN x[i].messages : x[i].messages[j] = m

\* A step that tells u nothing new.
SameNews(u) ==
  /\ ToldChats(u)' = ToldChats(u)
  /\ \A cid \in ToldChats(u) : ToldIn(u, cid)' = ToldIn(u, cid)

LEMMA FitsSame == ASSUME NEW x, NEW u, Fits(x, u), SameNews(u) PROVE Fits(x, u)'
  BY DEF Fits, SameNews

\* The ids of a list are found in it once.
LEMMA FitsOnce ==
  ASSUME NEW x \in Seq(ChatEntry), NEW u, Fits(x, u),
         NEW i \in DOMAIN x, NEW j \in DOMAIN x, x[i].id = x[j].id
  PROVE  i = j
  <1>1. i \in Nat /\ j \in Nat /\ x[i] \in ChatEntry /\ MaxChats \in Nat
    BY DatabaseAssumption, ElementOfSeq
  <1>2. x[i].id \in Nat
    BY <1>1 DEF ChatEntry
  <1>3. ~(i < j) /\ ~(j < i)
    BY <1>2 DEF Fits
  <1> QED BY <1>1, <1>3

\* A new chat goes to the end.
LEMMA FitsNewChat ==
  ASSUME NEW x \in Seq(ChatEntry), NEW u, Fits(x, u), NEW k \in Nat,
         ToldChats(u)' = ToldChats(u) \cup {k}, \A cid \in ToldChats(u) : cid < k,
         \A cid \in ToldChats(u) : ToldIn(u, cid)' = ToldIn(u, cid), ToldIn(u, k)' = {}
  PROVE  Fits(x \o <<[id |-> k, messages |-> <<>>]>>, u)'
  <1> DEFINE e == [id |-> k, messages |-> <<>>]
             y == x \o <<e>>
             n == Len(x)
  <1>1. /\ n \in Nat /\ DOMAIN x = 1..n /\ DOMAIN y = 1..(n + 1)
        /\ \A i \in 1..n : y[i] = x[i]
        /\ y[n + 1] = e
    <2>1. x \in Seq(ChatEntry \cup {e}) /\ <<e>> \in Seq(ChatEntry \cup {e})
      <3>1. x \in Seq(ChatEntry \cup {e})
        BY SeqMonotonic
      <3> HIDE DEF e
      <3> QED BY <3>1
    <2> HIDE DEF e
    <2>2. Len(<<e>>) = 1 /\ <<e>>[1] = e
      OBVIOUS
    <2>3. /\ x \o <<e>> \in Seq(ChatEntry \cup {e}) /\ Len(x \o <<e>>) = Len(x) + Len(<<e>>)
          /\ \A i \in 1..(Len(x) + Len(<<e>>)) :
               (x \o <<e>>)[i] = IF i <= Len(x) THEN x[i] ELSE <<e>>[i - Len(x)]
      BY <2>1, ConcatProperties
    <2>4. n \in Nat /\ DOMAIN x = 1..n
      OBVIOUS
    <2>5. Len(y) = n + 1 /\ DOMAIN y = 1..Len(y)
      BY <2>2, <2>3
    <2>6. \A i \in 1..(n + 1) : y[i] = IF i <= n THEN x[i] ELSE <<e>>[i - n]
      BY <2>2, <2>3
    <2> HIDE DEF y, n
    <2>7. (n + 1) - n = 1 /\ n + 1 \in 1..(n + 1) /\ ~(n + 1 <= n)
      BY <2>4
    <2>8. y[n + 1] = e
      BY <2>2, <2>6, <2>7
    <2>9. \A i \in 1..n : y[i] = x[i]
      BY <2>4, <2>6
    <2> QED BY <2>4, <2>5, <2>8, <2>9
  <1>2. e.id = k /\ e.messages = <<>> /\ DOMAIN e.messages = {}
    BY EmptySeq
  <1> HIDE DEF e, y, n
  <1>3. \A i \in DOMAIN y : i \in 1..n \/ i = n + 1
    BY <1>1
  <1>4. \A i \in 1..n : x[i].id < k /\ x[i].id \in ToldChats(u)
    BY <1>1 DEF Fits
  <1>5. ASSUME NEW i \in DOMAIN y, NEW j \in DOMAIN y, i < j PROVE y[i].id < y[j].id
    <2>1. i \in 1..n
      BY <1>1, <1>5
    <2>2. CASE j \in 1..n
      BY <1>1, <1>5, <2>1, <2>2 DEF Fits
    <2>3. CASE j = n + 1
      BY <1>1, <1>2, <1>4, <2>1, <2>3
    <2> QED BY <1>3, <2>2, <2>3
  <1>6. \A i \in DOMAIN y : y[i].id \in ToldChats(u) \cup {k}
    BY <1>1, <1>2, <1>3, <1>4
  <1>7. \A cid \in ToldChats(u) \cup {k} : \E i \in DOMAIN y : y[i].id = cid
    <2>1. n + 1 \in DOMAIN y /\ \A i \in 1..n : i \in DOMAIN y
      BY <1>1
    <2>2. \A cid \in ToldChats(u) : \E i \in 1..n : x[i].id = cid
      BY <1>1 DEF Fits
    <2> QED BY <1>1, <1>2, <2>1, <2>2
  <1>8. ASSUME NEW i \in DOMAIN y
        PROVE  /\ Ascending(y[i].messages)
               /\ \A j \in DOMAIN y[i].messages : y[i].messages[j] \in ToldIn(u, y[i].id)'
               /\ \A m \in ToldIn(u, y[i].id)' :
                    \E j \in DOMAIN y[i].messages : y[i].messages[j] = m
    <2>1. CASE i \in 1..n
      <3>1. y[i] = x[i] /\ i \in DOMAIN x /\ ToldIn(u, x[i].id)' = ToldIn(u, x[i].id)
        BY <1>1, <1>4, <2>1
      <3> DEFINE z == x[i]
      <3>2. PICK cid : cid = z.id /\ ToldIn(u, cid)' = ToldIn(u, cid)
        BY <3>1
      <3>3. /\ Ascending(z.messages)
            /\ \A j \in DOMAIN z.messages : z.messages[j] \in ToldIn(u, cid)
            /\ \A m \in ToldIn(u, cid) : \E j \in DOMAIN z.messages : z.messages[j] = m
        BY <3>1, <3>2 DEF Fits
      <3> HIDE DEF z
      <3>4. y[i] = z
        BY <3>1 DEF z
      <3>5. ToldIn(u, y[i].id)' = ToldIn(u, cid)
        BY <3>2, <3>4
      <3> QED BY <3>3, <3>4, <3>5
    <2>2. CASE i = n + 1
      <3>1. y[i].id = k /\ DOMAIN y[i].messages = {}
        BY <1>1, <1>2, <2>2
      <3> QED BY <3>1 DEF Ascending
    <2> QED BY <1>3, <2>1, <2>2
  <1>9. Fits(y, u)'
    BY <1>5, <1>6, <1>7, <1>8 DEF Fits
  <1> QED BY <1>9 DEF y, e

-----------------------------------------------------------------------------
(* What exactly a step adds to a wire.                                      *)

\* A tab that is there after the step was there before, and got w.
Adds(c, w) == On(c)' => On(c) /\ tab'[c] = tab[c] /\ wire'[c] = wire[c] \o w

LEMMA EndAdds == ASSUME SocketsEnd, NEW c \in Conn PROVE ~On(c)'
  <1>1. PICK ok \in BOOLEAN :
          tab' = [d \in Conn |-> IF tab[d].page = "closed" THEN NoTab
                   ELSE [NoTab EXCEPT !.page = "lost",
                                      !.websocketOk = ok /\ tab[d].websocketOk]]
    BY DEF SocketsEnd
  <1>2. \A b : [NoTab EXCEPT !.page = "lost", !.websocketOk = b].page = "lost"
    BY DEF NoTab
  <1>3. tab'[c] = NoTab \/ tab'[c].page = "lost"
    BY <1>1, <1>2
  <1> QED BY <1>3 DEF On, NoTab

LEMMA SendsAdds ==
  ASSUME NEW M, Sends(M), NEW c \in Conn PROVE \E w \in Seq(M) : Adds(c, w)
  <1>1. CASE up'
    <2>1. PICK msgs \in [Conn -> Seq(M)] : Put(msgs) /\ UNCHANGED tab
      BY <1>1 DEF Sends
    <2>2. Adds(c, msgs[c])
      BY <2>1 DEF Adds, On, Put
    <2> QED BY <2>1, <2>2
  <1>2. CASE ~up'
    BY <1>2, EndAdds, EmptySeq DEF Sends, Adds
  <1> QED BY <1>1, <1>2

LEMMA AddsSent ==
  ASSUME PagesInv, NEW c \in Conn, NEW w \in Seq(Msg), Adds(c, w) PROVE Sent(c, w)
  <1> SUFFICES ASSUME On(c)', NEW t, Coming(c, t)'
               PROVE  On(c) /\ \E q : Coming(c, q) /\ Leads(q, w, t)
    BY DEF Sent, Adds
  <1>1. On(c) /\ wire'[c] = wire[c] \o w /\ tab'[c] = tab[c]
    BY DEF Adds
  <1>2. Leads(Unasked(tab[c]), wire[c] \o w, t)
    BY <1>1 DEF Coming, Unasked
  <1>3. wire[c] \in Seq(Msg)
    BY DEF PagesInv
  <1>4. \E q \in Page : Leads(Unasked(tab[c]), wire[c], q) /\ Leads(q, w, t)
    BY <1>2, <1>3, LeadsOn
  <1> QED BY <1>1, <1>4 DEF Coming

LEMMA AddsOnward ==
  ASSUME PagesInv, NEW M, M \subseteq Msg, NEW c \in Conn, NEW w \in Seq(M), Adds(c, w)
  PROVE  Onward(c, M)
  <1>1. w \in Seq(Msg)
    BY SeqMonotonic
  <1> QED BY <1>1, AddsSent DEF Sent, Onward

\* What is meant for one connection only.
Mine(c, own) == IF c = task.hdl THEN own ELSE <<>>

LEMMA PostAdds ==
  ASSUME PagesInv, task.hdl \in Conn, NEW w \in Seq(Msg), Post(To(task.hdl, w)), NEW c \in Conn
  PROVE  Adds(c, Mine(c, w))
  <1>1. CASE up'
    <2>1. To(task.hdl, w)[c] = Mine(c, w)
      BY DEF To, None, Mine
    <2>2. Put(To(task.hdl, w)) /\ UNCHANGED tab
      BY <1>1 DEF Post
    <2> QED BY <2>1, <2>2 DEF Adds, On, Put
  <1>2. CASE ~up'
    BY <1>2, EndAdds DEF Post, Adds
  <1> QED BY <1>1, <1>2

\* A push reaches the connection of its user and no other one's.
LEMMA PushAdds ==
  ASSUME AllInv, up, up', task.at # "login.session", task.hdl \in Conn, NEW f \in User,
         NEW s \in Seq(Msg), NEW own \in Seq(Msg), PushIfOnline(f, s, own), NEW c \in Conn
  PROVE  \/ Bound(f, c) /\ online[f] /\ Adds(c, s \o Mine(c, own))
         \/ (Listening(c, f) => Leaving(c)) /\ Adds(c, Mine(c, own))
  <1>0. PagesInv /\ PInv /\ "db" \notin Faults /\ f # NoUser
    BY DatabaseAssumption, SystemAssumption DEF AllInv, SysInv, SInv, DInv
  <1>1. CASE online[f]
    <2>1. PICK h \in get_hdl_from_session(sessionid[f]) :
            CanSend(h) /\ Post([To(h, s) EXCEPT ![task.hdl] = @ \o own])
      BY <1>0, <1>1 DEF PushIfOnline, Push
    <2>2. h \in Conn /\ Bound(f, h)
      BY <1>0, <1>1, <2>1, HandleFound
    <2> DEFINE msgs == [To(h, s) EXCEPT ![task.hdl] = @ \o own]
               x == IF c = h THEN s ELSE <<>>
    <2>3. To(h, s)[c] = x
      BY <2>2 DEF To, None
    <2>4. msgs[c] = IF c = task.hdl THEN To(h, s)[c] \o own ELSE To(h, s)[c]
      BY <2>2 DEF To, None
    <2>5. \A y \in Seq(Msg) : <<>> \o y = y /\ y \o <<>> = y
      BY ConcatEmptySeq
    <2>6. x \in Seq(Msg) /\ <<>> \in Seq(Msg)
      BY EmptySeq
    <2>7. msgs[c] = x \o Mine(c, own)
      BY <2>3, <2>4, <2>5, <2>6 DEF Mine
    <2>8. Put(msgs) /\ UNCHANGED tab
      BY <2>1 DEF Post
    <2> HIDE DEF msgs
    <2>9. Adds(c, x \o Mine(c, own))
      BY <2>7, <2>8 DEF Adds, On, Put
    <2>10. CASE c = h
      BY <1>1, <2>2, <2>9, <2>10
    <2>11. CASE c # h
      <3>1. ~Bound(f, c)
        BY <1>0, <2>2, <2>11, AtOnePlace
      <3>2. Mine(c, own) \in Seq(Msg)
        BY <2>6 DEF Mine
      <3> QED BY <2>5, <2>9, <2>11, <3>1, <3>2 DEF Listening
    <2> QED BY <2>10, <2>11
  <1>2. CASE ~online[f]
    <2>1. Post(To(task.hdl, own))
      BY <1>0, <1>2 DEF PushIfOnline
    <2>2. Listening(c, f) => Leaving(c)
      BY <1>2 DEF AllInv, SInv, SeesInv, ListedOnline
    <2> QED BY <1>0, <2>1, <2>2, PostAdds
  <1> QED BY <1>1, <1>2

-----------------------------------------------------------------------------
(* How often a list has something of a kind: never, or once.                *)

Never(s, P) == \A i \in DOMAIN s : s[i] \notin P
Once(s, P) == \E i \in DOMAIN s : s[i] \in P /\ \A j \in DOMAIN s : s[j] \in P => j = i

LEMMA CountConcat ==
  ASSUME NEW S, NEW P, NEW a \in Seq(S), NEW b \in Seq(S)
  PROVE  /\ Never(a, P) /\ Never(b, P) => Never(a \o b, P)
         /\ Once(a, P) /\ Never(b, P) => Once(a \o b, P)
         /\ Never(a, P) /\ Once(b, P) => Once(a \o b, P)
  <1>1. /\ Len(a) \in Nat /\ Len(b) \in Nat /\ Len(a \o b) = Len(a) + Len(b)
        /\ DOMAIN a = 1..Len(a) /\ DOMAIN b = 1..Len(b)
        /\ a \o b \in Seq(S)
        /\ \A i \in 1..(Len(a) + Len(b)) :
             (a \o b)[i] = IF i <= Len(a) THEN a[i] ELSE b[i - Len(a)]
    BY ConcatProperties, LenProperties
  <1> DEFINE n == Len(a)
             k == Len(b)
             d == a \o b
  <1>2. DOMAIN d = 1..(n + k)
    BY <1>1
  <1>3. \A i \in 1..n : i \in 1..(n + k) /\ d[i] = a[i]
    BY <1>1
  <1>4. \A i \in 1..k : n + i \in 1..(n + k) /\ d[n + i] = b[i]
    BY <1>1
  <1>5. \A i \in 1..(n + k) : i \in 1..n \/ \E j \in 1..k : i = n + j
    <2> SUFFICES ASSUME NEW i \in 1..(n + k), i \notin 1..n PROVE \E j \in 1..k : i = n + j
      OBVIOUS
    <2>1. i - n \in 1..k /\ i = n + (i - n)
      BY <1>1
    <2> QED BY <2>1
  <1>6. n \in Nat /\ k \in Nat /\ DOMAIN a = 1..n /\ DOMAIN b = 1..k
    BY <1>1
  <1> HIDE DEF n, k, d
  <1>7. Never(a, P) /\ Never(b, P) => Never(d, P)
    <2> SUFFICES ASSUME Never(a, P), Never(b, P), NEW i \in 1..(n + k) PROVE d[i] \notin P
      BY <1>2 DEF Never
    <2>1. CASE i \in 1..n
      BY <1>3, <1>6, <2>1 DEF Never
    <2>2. ASSUME NEW j \in 1..k, i = n + j PROVE d[i] \notin P
      BY <1>4, <1>6, <2>2 DEF Never
    <2> QED BY <1>5, <2>1, <2>2
  <1>8. ASSUME Once(a, P), Never(b, P) PROVE Once(d, P)
    <2>1. PICK i \in 1..n : a[i] \in P /\ \A j \in 1..n : a[j] \in P => j = i
      BY <1>6, <1>8 DEF Once
    <2>2. \A j \in 1..(n + k) : d[j] \in P => j = i
      BY <1>3, <1>4, <1>5, <1>6, <1>8, <2>1 DEF Never
    <2> QED BY <1>2, <1>3, <2>1, <2>2 DEF Once
  <1>9. ASSUME Never(a, P), Once(b, P) PROVE Once(d, P)
    <2>1. PICK i \in 1..k : b[i] \in P /\ \A j \in 1..k : b[j] \in P => j = i
      BY <1>6, <1>9 DEF Once
    <2>2. \A j \in 1..(n + k) : d[j] \in P => j = n + i
      BY <1>3, <1>4, <1>5, <1>6, <1>9, <2>1 DEF Never
    <2> QED BY <1>2, <1>4, <2>1, <2>2 DEF Once
  <1> QED BY <1>7, <1>8, <1>9 DEF d

LEMMA CountAppend ==
  ASSUME NEW S, NEW P, NEW a \in Seq(S), NEW e \in S
  PROVE  /\ Never(a, P) /\ e \notin P => Never(Append(a, e), P)
         /\ Once(a, P) /\ e \notin P => Once(Append(a, e), P)
         /\ Never(a, P) /\ e \in P => Once(Append(a, e), P)
  <1> DEFINE n == Len(a)
             d == Append(a, e)
  <1>1. n \in Nat /\ DOMAIN a = 1..n /\ DOMAIN d = 1..(n + 1) /\ \A i \in 1..n : d[i] = a[i]
    BY AppendProperties, LenProperties
  <1>2. d[n + 1] = e
    BY AppendProperties
  <1> HIDE DEF n, d
  <1>3. n + 1 \in 1..(n + 1) /\ \A i \in 1..(n + 1) : i \in 1..n \/ i = n + 1
    BY <1>1
  <1>4. \A i \in 1..n : i \in 1..(n + 1)
    BY <1>1
  <1>5. Never(a, P) /\ e \notin P => Never(d, P)
    BY <1>1, <1>2, <1>3 DEF Never
  <1>6. Once(a, P) /\ e \notin P => Once(d, P)
    BY <1>1, <1>2, <1>3, <1>4 DEF Once
  <1>7. Never(a, P) /\ e \in P => Once(d, P)
    BY <1>1, <1>2, <1>3 DEF Never, Once
  <1> QED BY <1>5, <1>6, <1>7 DEF d

LEMMA CountTail ==
  ASSUME NEW S, NEW P, NEW a \in Seq(S), a # <<>>
  PROVE  /\ Never(a, P) => Never(Tail(a), P) /\ Head(a) \notin P
         /\ Once(a, P) /\ Head(a) \in P => Never(Tail(a), P)
         /\ Once(a, P) /\ Head(a) \notin P => Once(Tail(a), P)
  <1> DEFINE k == Len(Tail(a))
             d == Tail(a)
  <1>1. /\ k \in Nat /\ DOMAIN a = 1..(k + 1) /\ DOMAIN d = 1..k /\ a[1] = Head(a)
        /\ \A i \in 1..k : d[i] = a[i + 1]
    BY HeadTailProperties, EmptySeq
  <1> HIDE DEF k, d
  <1>2. 1 \in 1..(k + 1) /\ \A i \in 1..k : i + 1 \in 1..(k + 1) /\ i + 1 # 1
    BY <1>1
  <1>3. Never(a, P) => Never(d, P) /\ Head(a) \notin P
    BY <1>1, <1>2 DEF Never
  <1>4. Once(a, P) /\ Head(a) \in P => Never(d, P)
    BY <1>1, <1>2 DEF Never, Once
  <1>5. ASSUME Once(a, P), Head(a) \notin P PROVE Once(d, P)
    <2>1. PICK i \in 1..(k + 1) : a[i] \in P /\ \A j \in 1..(k + 1) : a[j] \in P => j = i
      BY <1>1, <1>5 DEF Once
    <2>2. i # 1 /\ i - 1 \in 1..k /\ (i - 1) + 1 = i
      BY <1>1, <1>5, <2>1
    <2>3. d[i - 1] \in P
      BY <1>1, <2>1, <2>2
    <2>4. \A j \in 1..k : d[j] \in P => j = i - 1
      BY <1>1, <1>2, <2>1, <2>2
    <2> QED BY <1>1, <2>2, <2>3, <2>4 DEF Once
  <1> QED BY <1>3, <1>4, <1>5 DEF d

-----------------------------------------------------------------------------
(* What a message makes of a list of chats.                                 *)

LEMMA AppendElements ==
  ASSUME NEW S, NEW s \in Seq(S), NEW e \in S
  PROVE  /\ Append(s, e) \in Seq(S) /\ Len(s) \in Nat /\ DOMAIN s = 1..Len(s)
         /\ DOMAIN Append(s, e) = 1..(Len(s) + 1)
         /\ \A i \in 1..Len(s) : Append(s, e)[i] = s[i]
         /\ Append(s, e)[Len(s) + 1] = e
  <1>1. /\ Append(s, e) \in Seq(S) /\ Len(s) \in Nat /\ DOMAIN s = 1..Len(s)
        /\ Len(Append(s, e)) = Len(s) + 1
        /\ \A i \in 1..Len(s) : Append(s, e)[i] = s[i]
        /\ Append(s, e)[Len(s) + 1] = e
    BY AppendProperties, LenProperties
  <1>2. DOMAIN Append(s, e) = 1..Len(Append(s, e))
    BY <1>1, LenProperties
  <1> QED BY <1>1, <1>2

\* s lists the numbers in S in order.
InOrder(s, S) ==
  /\ Ascending(s)
  /\ \A i \in DOMAIN s : s[i] \in S
  /\ \A m \in S : \E i \in DOMAIN s : s[i] = m

\* A number above all others goes to the end.
LEMMA ListAppend ==
  ASSUME NEW s \in Seq(Nat), NEW S, InOrder(s, S), NEW n \in Nat, \A m \in S : m < n
  PROVE  InOrder(Append(s, n), S \cup {n})
  <1> DEFINE k == Len(s)
             d == Append(s, n)
  <1>1. /\ k \in Nat /\ DOMAIN s = 1..k /\ DOMAIN d = 1..(k + 1)
        /\ \A i \in 1..k : d[i] = s[i]
        /\ d[k + 1] = n
    BY AppendElements
  <1> HIDE DEF k, d
  <1>2. \A i \in 1..(k + 1) : i \in 1..k \/ i = k + 1
    BY <1>1
  <1>3. k + 1 \in 1..(k + 1) /\ \A i \in 1..k : i \in 1..(k + 1)
    BY <1>1
  <1>4. ASSUME NEW i \in 1..(k + 1), NEW j \in 1..(k + 1), i < j PROVE d[i] < d[j]
    <2>1. i \in 1..k
      BY <1>1, <1>4
    <2>2. CASE j \in 1..k
      BY <1>1, <1>4, <2>1, <2>2 DEF InOrder, Ascending
    <2>3. CASE j = k + 1
      BY <1>1, <2>1, <2>3 DEF InOrder
    <2> QED BY <1>2, <2>2, <2>3
  <1>5. \A i \in 1..(k + 1) : d[i] \in S \cup {n}
    BY <1>1, <1>2 DEF InOrder
  <1>6. \A m \in S \cup {n} : \E i \in 1..(k + 1) : d[i] = m
    BY <1>1, <1>3 DEF InOrder
  <1> QED BY <1>1, <1>4, <1>5, <1>6 DEF InOrder, Ascending, d

\* The message is added to the chat it names, if that is listed once.
LEMMA AddedTo ==
  ASSUME NEW t \in Page, NEW m, NEW y, y = addMessageToChat(t, m).chats,
         \A i, j \in DOMAIN t.chats : t.chats[i].id = t.chats[j].id => i = j
  PROVE  /\ DOMAIN y = DOMAIN t.chats
         /\ \A i \in DOMAIN y :
              /\ y[i].id = t.chats[i].id
              /\ y[i].messages = IF t.chats[i].id = m.messageTo
                                 THEN Append(t.chats[i].messages, m.id) ELSE t.chats[i].messages
  <1> DEFINE x == t.chats
             z == [i \in DOMAIN x |->
                     IF x[i].id = m.messageTo /\ \A j \in 1..(i - 1) : x[j].id # m.messageTo
                     THEN [x[i] EXCEPT !.messages = Append(@, m.id)] ELSE x[i]]
  <1>1. y = z
    BY DEF addMessageToChat, Page, Tab
  <1>2. x \in Seq(ChatEntry)
    BY DEF Page
  <1> HIDE DEF x
  <1>3. ASSUME NEW i \in DOMAIN x
        PROVE  /\ z[i].id = x[i].id
               /\ z[i].messages = IF x[i].id = m.messageTo
                                  THEN Append(x[i].messages, m.id) ELSE x[i].messages
    <2>1. x[i] \in ChatEntry /\ DOMAIN x = 1..Len(x) /\ Len(x) \in Nat
      BY <1>2, ElementOfSeq, LenProperties
    <2>2. \A j \in 1..(i - 1) : j \in DOMAIN x /\ j # i
      BY <2>1
    <2>3. \A j \in 1..(i - 1) : x[i].id = m.messageTo => x[j].id # m.messageTo
      BY <2>2 DEF x
    <2>4. z[i] = IF x[i].id = m.messageTo
                 THEN [x[i] EXCEPT !.messages = Append(@, m.id)] ELSE x[i]
      BY <2>3
    <2> QED BY <2>1, <2>4 DEF ChatEntry
  <1> QED BY <1>1, <1>3 DEF x

LEMMA FitsNewMessage ==
  ASSUME NEW t \in Page, NEW u, Fits(t.chats, u), NEW m \in Msg, m.kind = "newMessage",
         NEW k, k = m.messageTo, ToldChats(u)' = ToldChats(u),
         \A cid \in ToldChats(u) : cid # k => ToldIn(u, cid)' = ToldIn(u, cid),
         k \in ToldChats(u) => /\ ToldIn(u, k)' = ToldIn(u, k) \cup {m.id}
                               /\ \A n \in ToldIn(u, k) : n < m.id
  PROVE  Fits(After(t, m).chats, u)'
  <1> DEFINE x == t.chats
             y == After(t, m).chats
  <1>1. x \in Seq(ChatEntry)
    BY DEF Page
  <1>2. m.id \in Nat
    BY DEF Msg
  <1>3. \A i, j \in DOMAIN x : x[i].id = x[j].id => i = j
    BY <1>1, FitsOnce
  <1>4. y = addMessageToChat(t, m).chats
    BY DEF After, processMessage
  <1> HIDE DEF y
  <1>5. /\ DOMAIN y = DOMAIN x
        /\ \A i \in DOMAIN y :
             /\ y[i].id = x[i].id
             /\ y[i].messages = IF x[i].id = m.messageTo
                                THEN Append(x[i].messages, m.id) ELSE x[i].messages
    BY <1>3, <1>4, AddedTo
  <1>6. Fits(x, u)
    OBVIOUS
  <1> HIDE DEF x
  <1>7. ASSUME NEW i \in DOMAIN x
        PROVE  /\ Ascending(y[i].messages)
               /\ \A j \in DOMAIN y[i].messages : y[i].messages[j] \in ToldIn(u, y[i].id)'
               /\ \A n \in ToldIn(u, y[i].id)' :
                    \E j \in DOMAIN y[i].messages : y[i].messages[j] = n
    <2>1. PICK cid : cid = x[i].id /\ cid \in ToldChats(u) /\ y[i].id = cid
      BY <1>5, <1>6 DEF Fits
    <2>2. PICK s : s = x[i].messages
      OBVIOUS
    <2>3. PICK r : r = y[i].messages
      OBVIOUS
    <2>4. /\ Ascending(s)
          /\ \A j \in DOMAIN s : s[j] \in ToldIn(u, cid)
          /\ \A n \in ToldIn(u, cid) : \E j \in DOMAIN s : s[j] = n
      BY <1>6, <2>1, <2>2 DEF Fits
    <2>5. s \in Seq(Nat)
      <3>1. x[i] \in ChatEntry
        BY <1>1, ElementOfSeq
      <3> QED BY <2>2, <3>1 DEF ChatEntry
    <2>6. CASE cid = k
      <3>1. r = Append(s, m.id)
        BY <1>5, <2>1, <2>2, <2>3, <2>6
      <3>2. /\ ToldIn(u, cid)' = ToldIn(u, cid) \cup {m.id}
            /\ \A n \in ToldIn(u, cid) : n < m.id
        BY <2>1, <2>6
      <3>3. PICK S : S = ToldIn(u, cid)
        OBVIOUS
      <3>4. PICK e \in Nat : e = m.id
        BY <1>2
      <3>5. InOrder(s, S) /\ \A n \in S : n < e
        BY <2>4, <3>2, <3>3, <3>4 DEF InOrder
      <3>6. InOrder(Append(s, e), S \cup {e})
        BY <2>5, <3>5, ListAppend
      <3>7. InOrder(r, S \cup {e}) /\ ToldIn(u, y[i].id)' = S \cup {e}
        BY <2>1, <3>1, <3>2, <3>3, <3>4, <3>6
      <3> QED BY <2>3, <3>7 DEF InOrder
    <2>7. CASE cid # k
      <3>1. r = s /\ ToldIn(u, cid)' = ToldIn(u, cid)
        BY <1>5, <2>1, <2>2, <2>3, <2>7
      <3> QED BY <2>1, <2>3, <2>4, <3>1
    <2> QED BY <2>6, <2>7
  <1>8. /\ \A i, j \in DOMAIN y : i < j => y[i].id < y[j].id
        /\ \A i \in DOMAIN y : y[i].id \in ToldChats(u)'
        /\ \A cid \in ToldChats(u)' : \E i \in DOMAIN y : y[i].id = cid
    BY <1>5, <1>6 DEF Fits
  <1>9. Fits(y, u)'
    BY <1>5, <1>7, <1>8 DEF Fits
  <1> QED BY <1>9 DEF y

-----------------------------------------------------------------------------
(* The rows the server lists are those in order, when nobody is to be told  *)
(* of any.                                                                  *)

LEMMA OrderedOnly ==
  ASSUME NEW S, S \subseteq Nat, IsFiniteSet(S)
  PROVE  /\ InOrder(Ordered(S), S) /\ Ordered(S) \in Seq(Nat)
         /\ \A s \in Seq(Nat) : InOrder(s, S) => s = Ordered(S)
  <1>1. InOrder(Ordered(S), S) /\ Ordered(S) \in Seq(Nat)
    <2>1. Ordered(S) \in [1..Cardinality(S) -> S] /\ Ordered(S) \in Seq(S)
      BY OrderedList
    <2>2. Ordered(S) \in Seq(Nat)
      BY <2>1, SeqMonotonic
    <2>3. \A i \in DOMAIN Ordered(S) : Ordered(S)[i] \in S
      BY <2>1
    <2> QED BY <2>2, <2>3, OrderedList, OrderedCovers DEF InOrder, Covers
  <1>2. ASSUME NEW s \in Seq(Nat), InOrder(s, S) PROVE s = Ordered(S)
    <2>1. PICK n \in Nat : s \in [1..n -> Nat]
      BY LenProperties
    <2>2. s \in [1..n -> S] /\ Ascending(s) /\ Covers(s, S)
      BY <1>2, <2>1 DEF InOrder, Covers
    <2> QED BY <2>2, OrderedIs
  <1> QED BY <1>1, <1>2

\* The rows the chat list of u is made of.
ChatIds(u) == {cid \in DOMAIN chatlist : InChat(u, cid)}

Stored(cid) ==
  {m \in DOMAIN messages : messages[m].cid = cid /\ messages[m].uid \in registered}

\* No handler is between a row of chats or messages and its pushes.
AllTold == task.at \notin {"accept.peer", "accept.push"} \cup Delivering

LEMMA NoneUntold ==
  ASSUME AllTold, NEW u
  PROVE  ToldChats(u) = ChatIds(u) /\ \A cid : ToldIn(u, cid) = Stored(cid)
  BY DEF AllTold, ToldChats, UntoldChat, ToldIn, UntoldTo, ChatIds, Stored

LEMMA IdsFinite ==
  ASSUME SysInv
  PROVE  /\ \A u : ChatIds(u) \subseteq Nat /\ IsFiniteSet(ChatIds(u))
         /\ \A cid : Stored(cid) \subseteq Nat /\ IsFiniteSet(Stored(cid))
  <1>1. /\ DOMAIN chatlist = 1..Len(chatlist) /\ Len(chatlist) \in Nat
        /\ DOMAIN messages = 1..Len(messages) /\ Len(messages) \in Nat
    BY STypes
  <1>2. ASSUME NEW n \in Nat, NEW S \in SUBSET (1..n) PROVE S \subseteq Nat /\ IsFiniteSet(S)
    <2>1. IsFiniteSet(1..n)
      BY FS_Interval
    <2>2. IsFiniteSet(S)
      BY <2>1, FS_Subset
    <2> QED BY <2>2
  <1>3. \A u : ChatIds(u) \in SUBSET (1..Len(chatlist))
    BY <1>1 DEF ChatIds
  <1>4. \A cid : Stored(cid) \in SUBSET (1..Len(messages))
    BY <1>1 DEF Stored
  <1> QED BY <1>1, <1>2, <1>3, <1>4

LEMMA RowsInOrder ==
  ASSUME SysInv, NEW u
  PROVE  /\ DOMAIN ChatsOf(u) = DOMAIN Ordered(ChatIds(u))
         /\ \A i \in DOMAIN ChatsOf(u) :
              LET k == Ordered(ChatIds(u))[i]
              IN  ChatsOf(u)[i] = [id |-> k, messages |-> Ordered(Stored(k))]
  BY DEF ChatsOf, ChatRow, ChatIds, Stored

LEMMA StoredFit == ASSUME SysInv, AllTold, NEW u PROVE Fits(ChatsOf(u), u)
  <1> DEFINE x == ChatsOf(u)
             ids == Ordered(ChatIds(u))
  <1>1. ToldChats(u) = ChatIds(u) /\ \A cid : ToldIn(u, cid) = Stored(cid)
    BY NoneUntold
  <1>2. InOrder(ids, ChatIds(u)) /\ \A cid : InOrder(Ordered(Stored(cid)), Stored(cid))
    BY IdsFinite, OrderedOnly
  <1>3. DOMAIN x = DOMAIN ids
    BY RowsInOrder
  <1>4. \A i \in DOMAIN x : x[i].id = ids[i] /\ x[i].messages = Ordered(Stored(ids[i]))
    BY RowsInOrder
  <1> HIDE DEF x, ids
  <1>5. /\ \A i, j \in DOMAIN x : i < j => x[i].id < x[j].id
        /\ \A i \in DOMAIN x : x[i].id \in ToldChats(u)
        /\ \A cid \in ToldChats(u) : \E i \in DOMAIN x : x[i].id = cid
    BY <1>1, <1>2, <1>3, <1>4 DEF InOrder, Ascending
  <1>6. \A i \in DOMAIN x : InOrder(x[i].messages, ToldIn(u, x[i].id))
    BY <1>1, <1>2, <1>4
  <1>7. Fits(x, u)
    BY <1>5, <1>6 DEF Fits, InOrder
  <1> QED BY <1>7 DEF x

LEMMA OnlyStoredFit ==
  ASSUME SysInv, AllTold, NEW u, NEW x \in Seq(ChatEntry), Fits(x, u) PROVE x = ChatsOf(u)
  <1> DEFINE ids == Ordered(ChatIds(u))
             s == [i \in DOMAIN x |-> x[i].id]
  <1>1. ToldChats(u) = ChatIds(u) /\ \A cid : ToldIn(u, cid) = Stored(cid)
    BY NoneUntold
  <1>2. /\ DOMAIN x = 1..Len(x) /\ Len(x) \in Nat
        /\ \A i \in DOMAIN x : x[i] \in ChatEntry
    BY LenProperties, ElementOfSeq
  <1>3. \A i \in DOMAIN x : x[i].id \in Nat /\ x[i].messages \in Seq(Nat)
    BY <1>2, STypes DEF ChatEntry
  <1>4. s = ids
    <2>1. s \in Seq(Nat)
      BY <1>2, <1>3
    <2>2. DOMAIN s = DOMAIN x /\ \A i \in DOMAIN x : s[i] = x[i].id
      OBVIOUS
    <2> HIDE DEF s
    <2>3. InOrder(s, ChatIds(u))
      BY <1>1, <2>2 DEF InOrder, Ascending, Fits
    <2> QED BY <2>1, <2>3, IdsFinite, OrderedOnly
  <1>5. DOMAIN x = DOMAIN ids /\ \A i \in DOMAIN x : ids[i] = x[i].id
    BY <1>4
  <1> HIDE DEF ids, s
  <1>6. ASSUME NEW i \in DOMAIN x
        PROVE  x[i] = [id |-> ids[i], messages |-> Ordered(Stored(ids[i]))]
    <2>1. PICK k : k = ids[i]
      OBVIOUS
    <2>2. PICK ms \in Seq(Nat) : ms = x[i].messages
      BY <1>3
    <2>3. InOrder(ms, Stored(k))
      <3>1. k = x[i].id /\ ToldIn(u, k) = Stored(k)
        BY <1>1, <1>5, <2>1
      <3>2. /\ Ascending(ms)
            /\ \A j \in DOMAIN ms : ms[j] \in ToldIn(u, k)
            /\ \A m \in ToldIn(u, k) : \E j \in DOMAIN ms : ms[j] = m
        BY <2>2, <3>1 DEF Fits
      <3> QED BY <3>1, <3>2 DEF InOrder
    <2>4. ms = Ordered(Stored(k))
      BY <2>3, IdsFinite, OrderedOnly
    <2>5. x[i] = [id |-> x[i].id, messages |-> x[i].messages]
      BY <1>2 DEF ChatEntry
    <2> QED BY <1>5, <2>1, <2>2, <2>4, <2>5
  <1>7. DOMAIN ChatsOf(u) = DOMAIN x /\ \A i \in DOMAIN x : ChatsOf(u)[i] = x[i]
    BY <1>5, <1>6, RowsInOrder DEF ids
  <1>8. ChatsOf(u) \in Seq(ChatEntry)
    BY ChatRows
  <1>9. /\ ChatsOf(u) = [i \in DOMAIN ChatsOf(u) |-> ChatsOf(u)[i]]
        /\ x = [i \in DOMAIN x |-> x[i]]
    BY <1>2, <1>8
  <1> QED BY <1>7, <1>9

-----------------------------------------------------------------------------
(* What a step changes of what users are told.                              *)

Telling == {"accept.peer", "accept.push"} \cup Delivering

\* A step that has nothing to do with it: no member, no message.
NoNews ==
  /\ UNCHANGED chatlist /\ registered \subseteq registered'
  /\ DOMAIN messages' = DOMAIN messages
  /\ \A m \in DOMAIN messages :
       messages'[m].uid = messages[m].uid /\ messages'[m].cid = messages[m].cid
  /\ task.at \notin Telling /\ task'.at \notin Telling \cup {"accept.self"}

\* The steps that have.
NewsStep ==
  \/ AcceptChat \/ AcceptSelf \/ AcceptPeer \/ AcceptPush
  \/ \E c \in Conn : \E cid \in 1..MaxChats : NewMessage(c, cid)
  \/ MsgEcho \/ MsgDirect \/ MsgRoomDone \/ \E v \in User : MsgRoom(v)

LEMMA RequestNews ==
  ASSUME AllInv, NEW c \in Conn, Request(c), up'
  PROVE  NoNews \/ \E cid \in 1..MaxChats : NewMessage(c, cid)
  <1>0. TInv /\ task \in Task
    BY STypes DEF AllInv, SysInv
  <1> USE NextLabels, <1>0 DEF NoNews, Telling, Delivering, Receives, dbVars, userVars, chatVars
  <1>1. ~Die
    BY DEF Die
  <1>2. Refuse(c) \/ Logout(c) => NoNews
    BY DEF Refuse, Logout, setOnline, Idle
  <1>3. \A u \in User : Register(c, u) \/ Login(c, u) => NoNews
    BY DEF Register, registerClient, Login, setOnline, Idle
  <1>4. ASSUME NEW e \in User, AddFriend(c, e) PROVE NoNews
    <2>1. task'.at \in {"add.push", "return"} /\ task.at = "idle"
      BY <1>1, <1>4 DEF AddFriend, Idle
    <2>2. UNCHANGED <<chatlist, messages, registered>>
      BY <1>1, <1>4 DEF AddFriend, insertFriendRequest
    <2> QED BY <2>1, <2>2
  <1>5. \A e \in User : AcceptFriend(c, e) => NoNews
    BY DEF AcceptFriend, acceptFriendRequest, Idle
  <1>6. \A e \in User : DeclineFriend(c, e) \/ RemoveFriend(c, e) => NoNews
    BY DEF DeclineFriend, RemoveFriend, Idle
  <1> QED BY <1>2, <1>3, <1>4, <1>5, <1>6 DEF Request

LEMMA ProcessNews ==
  ASSUME AllInv, up',
         Start \/ Kill \/ DbFault \/ \E c \in Conn : on_open(c) \/ PeerCloses(c) \/ on_close(c)
  PROVE  NoNews
  <1> USE DEF NoNews, Telling, Delivering, Receives, dbVars, userVars, chatVars
  <1>1. ~Die
    BY DEF Die
  <1>2. Start => NoNews
    BY DEF Start, resetPresence, AllInv, SInv, DInv, PInv, AuthInv, DownIsEmpty
  <1>3. ~Kill /\ ~DbFault
    BY <1>1, SystemAssumption DEF Kill, DbFault
  <1>4. \A c \in Conn : on_open(c) \/ PeerCloses(c) => NoNews
    BY DEF on_open, PeerCloses
  <1>5. \A c \in Conn : on_close(c) => NoNews
    BY <1>1 DEF on_close, setOnline, Idle
  <1> QED BY <1>2, <1>3, <1>4, <1>5

LEMMA HandlerNews == ASSUME AllInv, HandlerStep, up' PROVE NoNews \/ NewsStep
  <1>0. TInv /\ task \in Task /\ messages \in Seq(MessageRow)
    BY STypes DEF AllInv, SysInv
  <1>1. ~Die
    BY DEF Die
  <1> USE <1>0, <1>1, NextLabels DEF NoNews, Telling, Delivering, dbVars, userVars, chatVars
  <1>2. CASE SessionStep
    <2>0. CloseSession \/ Return => NoNews
      <3>1. ASSUME CloseSession PROVE NoNews
        <4>1. task.at = "close.session" /\ task'.at = "idle"
              /\ UNCHANGED <<messages, chatlist, registered>>
          BY <3>1 DEF CloseSession, setSessionID, Idle
        <4> QED BY <4>1
      <3>2. Return => NoNews
        BY DEF Return, Idle
      <3> QED BY <3>1, <3>2
    <2>1. LoginSession \/ LoginChats => NoNews
      BY DEF LoginSession, LoginChats, setSessionID
    <2>2. LogoutSession => NoNews
      BY DEF LogoutSession, setSessionID, Task
    <2>3. LogoutEmail => NoNews
      BY DEF LogoutEmail, Task
    <2>4. LogoutDone => NoNews
      BY DEF LogoutDone
    <2>5. LoginLists => NoNews
      BY DEF LoginLists, Task
    <2>6. \A f \in User : LoginNotify(f) => NoNews
      BY DEF LoginNotify, Task
    <2>7. \A f \in User : LogoutNotify(f) => NoNews
      BY DEF LogoutNotify, Task
    <2> QED BY <1>2, <2>0, <2>1, <2>2, <2>3, <2>4, <2>5, <2>6, <2>7 DEF SessionStep
  <1>3. CASE FriendStep
    <2>1. AddFriendPush => NoNews
      BY DEF AddFriendPush
    <2>2. ~removeRequest /\ ~removeFriend
      BY DEF removeRequest, removeFriend
    <2> QED BY <1>3, <2>1, <2>2 DEF FriendStep, NewsStep
  <1>4. CASE MessageStep
    <2>1. ASSUME MsgFlag PROVE NoNews
      <3>1. /\ task.at = "msg.flag" /\ task'.at = "return"
            /\ messages' = [messages EXCEPT ![task.mid].transmitted = TRUE]
            /\ UNCHANGED <<chatlist, registered>>
        BY <2>1 DEF MsgFlag, setMessageTransmitted
      <3>2. DOMAIN messages' = DOMAIN messages
        BY <3>1
      <3>3. ASSUME NEW m \in DOMAIN messages
            PROVE  messages'[m].uid = messages[m].uid /\ messages'[m].cid = messages[m].cid
        <4>1. messages[m] \in MessageRow
          BY ElementOfSeq
        <4> QED BY <3>1, <4>1 DEF MessageRow
      <3> QED BY <3>1, <3>2, <3>3
    <2> QED BY <1>4, <2>1 DEF MessageStep, NewsStep
  <1> QED BY <1>2, <1>3, <1>4 DEF HandlerStep

LEMMA NextNews ==
  ASSUME AllInv, [SystemNext]_sysVars, [Next]_vars, up'
  PROVE  UNCHANGED vars \/ NoNews \/ (NewsStep /\ ~ \E v \in User : MsgRoom(v))
  <1>1. CASE UNCHANGED vars
    BY <1>1
  <1>2. CASE Next /\ ~UNCHANGED vars
    <2>1. NoNews \/ NewsStep
      BY <1>2, RequestNews, ProcessNews, HandlerNews DEF Next, NewsStep
    <2>2. ASSUME NEW v \in User, MsgRoom(v) PROVE FALSE
      <3>1. task.at = "msg.room" /\ task.todo # {}
        BY <2>2 DEF MsgRoom
      <3>2. SystemNext
        BY <1>2 DEF sysVars
      <3>3. Handle
        BY <3>1, <3>2, Busy
      <3> USE DEF LoginListsSent, LoginChatsSent, LogoutSessionSent, AddFriendPushSent,
              AcceptPushSent, MsgEchoSent, MsgDirectSent, LoginNotifySent, LogoutNotifySent,
              LoginLists, LoginChats, LogoutSession, AddFriendPush, AcceptPush, MsgEcho,
              MsgDirect, LoginNotify, LogoutNotify
      <3>4. Silent
        BY <3>1, <3>3 DEF Handle
      <3> QED BY <3>1, <3>4 DEF Silent, CloseSession, Return, LoginSession, LogoutEmail,
             LogoutDone, AcceptChat, AcceptSelf, AcceptPeer, MsgFlag, MsgRoomDone, removeRequest
    <2> QED BY <2>1, <2>2
  <1> QED BY <1>1, <1>2

-----------------------------------------------------------------------------
(* What createChat does to chats and their members.                         *)

LEMMA CreateSteps ==
  ASSUME AllInv, up'
  PROVE  /\ AcceptChat =>
              /\ task'.at = "accept.self" /\ task'.cid = Len(chatlist) + 1
              /\ Len(chatlist') = Len(chatlist) + 1
              /\ \A u, cid : InChat(u, cid)' <=> InChat(u, cid)
              /\ UNCHANGED <<messages, registered>>
         /\ AcceptSelf =>
              /\ task.at = "accept.self" /\ task' = [task EXCEPT !.at = "accept.peer"]
              /\ Len(chatlist') = Len(chatlist)
              /\ \A u, cid : InChat(u, cid)' <=> InChat(u, cid) \/ (u = task.uid /\ cid = task.cid)
              /\ \A u : ~InChat(u, task.cid)
              /\ UNCHANGED <<messages, registered>>
         /\ AcceptPeer =>
              /\ task.at = "accept.peer" /\ task' = [task EXCEPT !.at = "accept.push"]
              /\ Len(chatlist') = Len(chatlist)
              /\ \A u, cid : InChat(u, cid)' <=> InChat(u, cid) \/ (u = task.fid /\ cid = task.cid)
              /\ \A u : InChat(u, task.cid) <=> u = task.uid
              /\ task.uid # task.fid
              /\ UNCHANGED <<messages, registered>>
  <1>0. /\ TInv /\ task \in Task /\ DatabaseTypeOK /\ ChatSoFar /\ ~Die
        /\ chatlist \in Seq(Seq(AnyUser)) /\ <<>> \in Seq(AnyUser)
    BY STypes, EmptySeq DEF AllInv, SysInv, TInv, TypeOK, ChatInv, Die, DatabaseTypeOK
  <1>1. ASSUME AcceptChat
        PROVE  /\ task'.at = "accept.self" /\ task'.cid = Len(chatlist) + 1
               /\ Len(chatlist') = Len(chatlist) + 1
               /\ \A u, cid : InChat(u, cid)' <=> InChat(u, cid)
               /\ UNCHANGED <<messages, registered>>
    <2>1. /\ chatlist' = Append(chatlist, <<>>) /\ UNCHANGED <<messages, registered>>
          /\ task'.at = "accept.self" /\ task'.cid = Len(chatlist) + 1
      BY <1>0, <1>1 DEF AcceptChat, insertChat, userVars, Task
    <2>2. /\ Len(chatlist) \in Nat /\ DOMAIN chatlist = 1..Len(chatlist)
          /\ Len(chatlist') = Len(chatlist) + 1
          /\ DOMAIN chatlist' = 1..(Len(chatlist) + 1)
          /\ \A i \in 1..Len(chatlist) : chatlist'[i] = chatlist[i]
      BY <1>0, <2>1, AppendProperties, LenProperties
    <2>3. chatlist'[Len(chatlist) + 1] = <<>>
      BY <1>0, <2>1, AppendProperties
    <2>4. \A cid \in DOMAIN chatlist' : cid \in DOMAIN chatlist \/ cid = Len(chatlist) + 1
      BY <2>2
    <2>5. DOMAIN chatlist \subseteq DOMAIN chatlist'
      BY <2>2
    <2>6. ASSUME NEW u, NEW cid PROVE InChat(u, cid)' <=> InChat(u, cid)
      <3>1. InChat(u, cid) => InChat(u, cid)'
        BY <2>2, <2>5 DEF InChat
      <3>2. ASSUME InChat(u, cid)' PROVE InChat(u, cid)
        <4>1. CASE cid \in DOMAIN chatlist
          BY <2>2, <3>2, <4>1 DEF InChat
        <4>2. CASE cid = Len(chatlist) + 1
          BY <2>3, <3>2, <4>2, EmptySeq DEF InChat
        <4> QED BY <2>4, <3>2, <4>1, <4>2 DEF InChat
      <3> QED BY <3>1, <3>2
    <2> QED BY <2>1, <2>2, <2>6
  <1>2. ASSUME NEW v \in AnyUser, task.cid \in DOMAIN chatlist,
               chatlist' = [chatlist EXCEPT ![task.cid] = Append(@, v)]
        PROVE  /\ Len(chatlist') = Len(chatlist)
               /\ \A u, cid : InChat(u, cid)' <=> InChat(u, cid) \/ (u = v /\ cid = task.cid)
    <2>1. Len(chatlist') = Len(chatlist)
      BY <1>0, <1>2
    <2> QED BY <1>0, <1>2, <2>1, InAppended
  <1>3. ASSUME AcceptSelf
        PROVE  /\ task.at = "accept.self" /\ task' = [task EXCEPT !.at = "accept.peer"]
               /\ chatlist' = [chatlist EXCEPT ![task.cid] = Append(@, task.uid)]
               /\ task.uid \in AnyUser /\ task.cid \in DOMAIN chatlist
               /\ \A u : ~InChat(u, task.cid)
               /\ UNCHANGED <<messages, registered>>
    BY <1>0, <1>3 DEF AcceptSelf, insertChatlist, Goto, userVars, ChatSoFar, Task, InChat
  <1>4. ASSUME AcceptPeer
        PROVE  /\ task.at = "accept.peer" /\ task' = [task EXCEPT !.at = "accept.push"]
               /\ chatlist' = [chatlist EXCEPT ![task.cid] = Append(@, task.fid)]
               /\ task.fid \in AnyUser /\ task.cid \in DOMAIN chatlist
               /\ \A u : InChat(u, task.cid) <=> u = task.uid
               /\ task.uid # task.fid
               /\ UNCHANGED <<messages, registered>>
    <2>1. /\ task.at = "accept.peer" /\ task' = [task EXCEPT !.at = "accept.push"]
          /\ chatlist' = [chatlist EXCEPT ![task.cid] = Append(@, task.fid)]
          /\ task.fid \in AnyUser /\ UNCHANGED <<messages, registered>>
          /\ ~InChat(task.fid, task.cid)
      BY <1>0, <1>4, SystemAssumption DEF AcceptPeer, insertChatlist, Goto, userVars, Task,
         refusesChatlist
    <2>2. task.cid \in DOMAIN chatlist /\ chatlist[task.cid] = <<task.uid>>
      BY <1>0, <2>1 DEF ChatSoFar
    <2>3. \A u : InChat(u, task.cid) <=> u = task.uid
      <3>1. DOMAIN <<task.uid>> = {1} /\ <<task.uid>>[1] = task.uid
        OBVIOUS
      <3> QED BY <2>2, <3>1 DEF InChat
    <2> QED BY <2>1, <2>2, <2>3
  <1>5. AcceptSelf => /\ Len(chatlist') = Len(chatlist)
                      /\ \A u, cid : InChat(u, cid)' <=>
                           InChat(u, cid) \/ (u = task.uid /\ cid = task.cid)
    <2> SUFFICES ASSUME AcceptSelf
                 PROVE  /\ Len(chatlist') = Len(chatlist)
                        /\ \A u, cid : InChat(u, cid)' <=>
                             InChat(u, cid) \/ (u = task.uid /\ cid = task.cid)
      OBVIOUS
    <2>1. PICK v : v = task.uid
      OBVIOUS
    <2> QED BY <1>2, <1>3, <2>1
  <1>6. AcceptPeer => /\ Len(chatlist') = Len(chatlist)
                      /\ \A u, cid : InChat(u, cid)' <=>
                           InChat(u, cid) \/ (u = task.fid /\ cid = task.cid)
    <2> SUFFICES ASSUME AcceptPeer
                 PROVE  /\ Len(chatlist') = Len(chatlist)
                        /\ \A u, cid : InChat(u, cid)' <=>
                             InChat(u, cid) \/ (u = task.fid /\ cid = task.cid)
      OBVIOUS
    <2>1. PICK v : v = task.fid
      OBVIOUS
    <2> QED BY <1>2, <1>4, <2>1
  <1>7. AcceptChat =>
          /\ task'.at = "accept.self" /\ task'.cid = Len(chatlist) + 1
          /\ Len(chatlist') = Len(chatlist) + 1
          /\ \A u, cid : InChat(u, cid)' <=> InChat(u, cid)
          /\ UNCHANGED <<messages, registered>>
    BY <1>1
  <1> QED BY <1>3, <1>4, <1>5, <1>6, <1>7

-----------------------------------------------------------------------------
(* What is being told is the newest, and whom it concerns.                  *)

\* The row a handler is telling of is the last of its table.
Newest ==
  /\ task.at \in InChats => task.cid = Len(chatlist)
  /\ task.at \in Delivering => task.mid = Len(messages)

Concerned ==
  /\ task.at = "accept.push" =>
       /\ task.uid # task.fid
       /\ \A u : InChat(u, task.cid) <=> u \in {task.uid, task.fid}
       /\ \A m \in DOMAIN messages : messages[m].cid # task.cid
  /\ task.at = "msg.direct" => \A u : InChat(u, task.cid) => u \in {task.uid, task.fid}
  /\ task.at = "msg.room" =>
       \A u \in registered : online[u] /\ InChat(u, task.cid) => u \in task.todo

NewsInv == Newest /\ Concerned

\* What the steps of a message do.
LEMMA TellSteps ==
  ASSUME AllInv, up'
  PROVE  /\ \A c \in Conn : \A cid \in 1..MaxChats : NewMessage(c, cid) =>
              /\ task.at = "idle" /\ task'.at = "msg.echo" /\ task'.mid = Len(messages) + 1
              /\ messages' = Append(messages, [uid |-> Caller(c), cid |-> cid,
                                               transmitted |-> FALSE])
              /\ UNCHANGED <<chatlist, registered>>
         /\ MsgEcho =>
              /\ task.at = "msg.echo"
              /\ UNCHANGED <<chatlist, messages, registered, online>>
              /\ \/ /\ task'.at \in {"msg.direct", "msg.room"} /\ task'.mid = task.mid
                    /\ task'.uid = task.uid /\ task'.cid = task.cid
                 \/ task'.at = "return" /\ PeerRows = {}
         /\ MsgDirect =>
              /\ task.at = "msg.direct" /\ task.fid # NoUser
              /\ UNCHANGED <<chatlist, messages, registered>>
              /\ \/ task'.at = "return" /\ ~online[task.fid]
                 \/ task'.at = "msg.flag" /\ online[task.fid]
         /\ MsgRoomDone =>
              /\ task.at = "msg.room" /\ task.todo = {} /\ task'.at = "return"
              /\ UNCHANGED <<chatlist, messages, registered>>
         /\ AcceptPush =>
              /\ task.at = "accept.push" /\ task'.at = "return"
              /\ UNCHANGED <<chatlist, messages, registered>>
  <1>0. TInv /\ task \in Task /\ ~Die
    BY STypes DEF AllInv, SysInv, Die
  <1> USE <1>0, NextLabels DEF dbVars, userVars, chatVars
  <1>1. ASSUME NEW c \in Conn, NEW cid \in 1..MaxChats, NewMessage(c, cid)
        PROVE  /\ task.at = "idle" /\ task'.at = "msg.echo" /\ task'.mid = Len(messages) + 1
               /\ messages' = Append(messages, [uid |-> Caller(c), cid |-> cid,
                                                transmitted |-> FALSE])
               /\ UNCHANGED <<chatlist, registered>>
    BY <1>1 DEF NewMessage, newMessage, Receives, Idle
  <1>2. MsgEcho =>
          /\ task.at = "msg.echo" /\ UNCHANGED <<chatlist, messages, registered, online>>
          /\ \/ /\ task'.at \in {"msg.direct", "msg.room"} /\ task'.mid = task.mid
                /\ task'.uid = task.uid /\ task'.cid = task.cid
             \/ task'.at = "return" /\ PeerRows = {}
    BY DEF MsgEcho, Task
  <1>3. MsgDirect =>
          /\ task.at = "msg.direct" /\ task.fid # NoUser
          /\ UNCHANGED <<chatlist, messages, registered>>
          /\ \/ task'.at = "return" /\ ~online[task.fid]
             \/ task'.at = "msg.flag" /\ online[task.fid]
    BY DEF MsgDirect
  <1>4. MsgRoomDone =>
          /\ task.at = "msg.room" /\ task.todo = {} /\ task'.at = "return"
          /\ UNCHANGED <<chatlist, messages, registered>>
    BY DEF MsgRoomDone
  <1>5. AcceptPush =>
          /\ task.at = "accept.push" /\ task'.at = "return"
          /\ UNCHANGED <<chatlist, messages, registered>>
    BY DEF AcceptPush
  <1> QED BY <1>1, <1>2, <1>3, <1>4, <1>5

\* The other members are those of PeerRows.
LEMMA Peers ==
  ASSUME NEW u, InChat(u, task.cid), u # task.uid
  PROVE  \E i \in PeerRows : chatlist[task.cid][i] = u
  BY DEF PeerRows, getPeersOfChat, InChat

LEMMA NewestNext ==
  ASSUME AllInv, AllInv', NewsInv, [SystemNext]_sysVars, [Next]_vars PROVE Newest'
  <1>0. /\ task \in Task /\ messages \in Seq(MessageRow) /\ chatlist \in Seq(Seq(AnyUser))
        /\ Len(messages) \in Nat /\ Len(chatlist) \in Nat
    BY STypes, LenProperties DEF AllInv
  <1> USE DEF Newest, InChats, Delivering
  <1>1. CASE ~up'
    <2>1. task'.at = "idle"
      BY <1>1 DEF AllInv, SInv, DInv, PInv, AuthInv, DownIsEmpty
    <2> QED BY <2>1
  <1>2. CASE UNCHANGED vars
    BY <1>2 DEF vars, dbVars, chatVars, NewsInv
  <1>3. CASE NoNews
    BY <1>3 DEF NoNews, Telling
  <1>4. CASE up' /\ (AcceptChat \/ AcceptSelf \/ AcceptPeer)
    <2>1. AcceptChat => Newest'
      BY <1>0, <1>4, CreateSteps
    <2>2. AcceptSelf \/ AcceptPeer => Newest'
      BY <1>0, <1>4, CreateSteps DEF NewsInv, Task
    <2> QED BY <1>4, <2>1, <2>2
  <1>5. CASE up' /\ (AcceptPush \/ MsgDirect \/ MsgRoomDone)
    BY <1>5, TellSteps
  <1>6. CASE up' /\ MsgEcho
    BY <1>6, TellSteps DEF NewsInv
  <1>7. ASSUME up', NEW c \in Conn, NEW cid \in 1..MaxChats, NewMessage(c, cid)
        PROVE  Newest'
    <2>1. Len(messages') = Len(messages) + 1
      <3>1. PICK r : messages' = Append(messages, r)
        BY <1>7, TellSteps
      <3> QED BY <1>0, <3>1
    <2> QED BY <1>7, <2>1, TellSteps
  <1> QED BY <1>1, <1>2, <1>3, <1>4, <1>5, <1>6, <1>7, NextNews DEF NewsStep

LEMMA ConcernedNext ==
  ASSUME AllInv, AllInv', NewsInv, [SystemNext]_sysVars, [Next]_vars PROVE Concerned'
  <1>0. /\ task \in Task /\ KeyedRows
    BY STypes DEF AllInv, SInv, SeesInv
  <1> USE DEF InChats, Delivering
  <1>1. CASE ~up'
    <2>1. task'.at = "idle"
      BY <1>1 DEF AllInv, SInv, DInv, PInv, AuthInv, DownIsEmpty
    <2> QED BY <2>1 DEF Concerned
  <1>2. CASE UNCHANGED vars
    BY <1>2 DEF vars, dbVars, chatVars, userVars, NewsInv, Concerned, InChat
  <1>3. CASE NoNews
    BY <1>3 DEF NoNews, Telling, Concerned
  <1>4. CASE up' /\ (AcceptChat \/ AcceptSelf)
    <2>1. task'.at \in {"accept.self", "accept.peer"}
      BY <1>0, <1>4, CreateSteps DEF Task
    <2> QED BY <2>1 DEF Concerned
  <1>5. CASE up' /\ AcceptPeer
    <2>1. /\ task.at = "accept.peer" /\ task' = [task EXCEPT !.at = "accept.push"]
          /\ task.uid # task.fid /\ UNCHANGED messages
          /\ \A u : InChat(u, task.cid) <=> u = task.uid
      BY <1>5, CreateSteps
    <2>2. PICK k : k = task.cid
      OBVIOUS
    <2>3. \A u : InChat(u, k)' <=> InChat(u, k) \/ (u = task.fid /\ k = task.cid)
      BY <1>5, CreateSteps
    <2>4. \A u : InChat(u, k)' <=> u \in {task.uid, task.fid}
      BY <2>1, <2>2, <2>3
    <2>5. /\ task'.at = "accept.push" /\ task'.cid = k
          /\ task'.uid = task.uid /\ task'.fid = task.fid
      BY <1>0, <2>1, <2>2 DEF Task
    <2>6. \A u : InChat(u, task.cid)' <=> InChat(u, k)'
      BY <2>5 DEF InChat
    <2>7. \A m \in DOMAIN messages' : messages'[m].cid # task'.cid
      BY <1>0, <2>1, <2>2, <2>5 DEF KeyedRows
    <2> QED BY <2>1, <2>4, <2>5, <2>6, <2>7 DEF Concerned
  <1>6. CASE up' /\ (AcceptPush \/ MsgDirect \/ MsgRoomDone)
    BY <1>6, TellSteps DEF Concerned
  <1>7. CASE up' /\ MsgEcho
    <2>1. /\ task.at = "msg.echo" /\ UNCHANGED <<chatlist, messages, registered, online>>
          /\ task'.at = "return" \/ (task'.uid = task.uid /\ task'.cid = task.cid)
          /\ task'.at # "accept.push"
      BY <1>7, TellSteps
    <2>2. \A u, cid : InChat(u, cid)' <=> InChat(u, cid)
      BY <2>1 DEF InChat
    <2>3. /\ task'.at = "msg.direct" =>
                \E i \in PeerRows : PeerRows = {i} /\ task'.fid = chatlist[task.cid][i]
          /\ task'.at = "msg.room" => task'.todo = getAllOnlineUsersOfChatroom(task.cid)
      <3>1. ~Die
        BY <1>7 DEF Die
      <3> QED BY <1>7, <3>1, EchoSteps DEF AllInv
    <2>4. ASSUME task'.at = "msg.direct", NEW u, InChat(u, task.cid)'
          PROVE  u \in {task'.uid, task'.fid}
      <3>1. InChat(u, task.cid) /\ task'.uid = task.uid
        BY <2>1, <2>4 DEF InChat
      <3> QED BY <2>3, <2>4, <3>1, Peers
    <2>5. ASSUME task'.at = "msg.room", NEW u \in registered', online'[u], InChat(u, task.cid)'
          PROVE  u \in task'.todo
      BY <2>1, <2>3, <2>5 DEF InChat, getAllOnlineUsersOfChatroom
    <2> QED BY <2>1, <2>4, <2>5 DEF Concerned
  <1>8. ASSUME up', NEW c \in Conn, NEW cid \in 1..MaxChats, NewMessage(c, cid)
        PROVE  Concerned'
    BY <1>8, TellSteps DEF Concerned
  <1> QED BY <1>1, <1>2, <1>3, <1>4, <1>5, <1>6, <1>7, <1>8, NextNews DEF NewsStep

LEMMA InitNews == Init => NewsInv
  BY DEF Init, SessionsInit, Idle, NewsInv, Newest, Concerned, InChats, Delivering

-----------------------------------------------------------------------------
(* Steps that tell u nothing new.                                           *)

\* The same chats and the same messages are told, seen chat by chat.
LEMMA SameNewsIf ==
  ASSUME NEW u,
         \A cid : (InChat(u, cid) /\ ~UntoldChat(cid))' <=> InChat(u, cid) /\ ~UntoldChat(cid),
         \A cid \in ToldChats(u) : \A m :
           (/\ m \in DOMAIN messages /\ messages[m].cid = cid /\ messages[m].uid \in registered
            /\ ~UntoldTo(u, m))'
           <=> /\ m \in DOMAIN messages /\ messages[m].cid = cid
               /\ messages[m].uid \in registered /\ ~UntoldTo(u, m)
  PROVE  SameNews(u)
  <1>1. \A cid : cid \in ToldChats(u)' <=> cid \in ToldChats(u)
    BY DEF ToldChats, InChat
  <1>2. \A cid \in ToldChats(u) : \A m : m \in ToldIn(u, cid)' <=> m \in ToldIn(u, cid)
    BY DEF ToldIn
  <1>3. ToldChats(u)' = ToldChats(u)
    BY <1>1
  <1>4. \A cid \in ToldChats(u) : ToldIn(u, cid)' = ToldIn(u, cid)
    BY <1>2
  <1> QED BY <1>3, <1>4 DEF SameNews

\* A message has been told to all it concerns but perhaps its author, who had it.
LEMMA ToldAll ==
  ASSUME OwnMessage, UNCHANGED <<chatlist, messages, registered>>, task.at \in Delivering,
         task'.at \notin Telling, NEW u,
         InChat(u, task.cid) => u = task.uid /\ task.at # "msg.echo"
  PROVE  SameNews(u)
  <1>1. \A cid : InChat(u, cid)' <=> InChat(u, cid)
    BY DEF InChat
  <1>2. \A cid : ~UntoldChat(cid) /\ ~UntoldChat(cid)'
    BY DEF UntoldChat, Delivering, Telling
  <1>3. \A m : ~UntoldTo(u, m)'
    BY DEF UntoldTo, Telling
  <1>4. ASSUME NEW cid \in ToldChats(u), NEW m \in DOMAIN messages, messages[m].cid = cid
        PROVE  ~UntoldTo(u, m)
    <2>1. InChat(u, cid)
      BY DEF ToldChats
    <2>2. m = task.mid => cid = task.cid
      BY <1>4 DEF OwnMessage, MessageLabels, Delivering
    <2> QED BY <2>1, <2>2 DEF UntoldTo
  <1> QED BY <1>1, <1>2, <1>3, <1>4, SameNewsIf

LEMMA CreateSame ==
  ASSUME AllInv, NewsInv, up', AcceptChat \/ AcceptSelf \/ AcceptPeer, NEW u PROVE SameNews(u)
  <1>0. task \in Task
    BY STypes DEF AllInv
  <1>1. UNCHANGED <<messages, registered>>
    BY CreateSteps
  <1>2. task.at \notin Delivering /\ task'.at \notin Delivering
    BY <1>0, CreateSteps DEF AcceptChat, Delivering, Task
  <1>3. \A m : ~UntoldTo(u, m) /\ ~UntoldTo(u, m)'
    BY <1>2 DEF UntoldTo
  <1>4. CASE AcceptChat
    <2>1. \A cid : InChat(u, cid)' <=> InChat(u, cid)
      BY <1>4, CreateSteps
    <2>2. \A cid : ~UntoldChat(cid) /\ ~UntoldChat(cid)'
      BY <1>4, CreateSteps DEF AcceptChat, UntoldChat
    <2> QED BY <1>1, <1>3, <2>1, <2>2, SameNewsIf
  <1>5. CASE AcceptSelf \/ AcceptPeer
    <2>1. PICK v : \A cid : InChat(u, cid)' <=> InChat(u, cid) \/ (u = v /\ cid = task.cid)
      BY <1>5, CreateSteps
    <2>2. \A cid : UntoldChat(cid)' <=> cid = task.cid
      BY <1>0, <1>5, CreateSteps DEF UntoldChat, Task
    <2>3. \A cid : UntoldChat(cid) => cid = task.cid
      BY DEF UntoldChat
    <2>4. UntoldChat(task.cid) \/ ~InChat(u, task.cid)
      BY <1>5, CreateSteps DEF UntoldChat
    <2>5. \A cid : (InChat(u, cid) /\ ~UntoldChat(cid))' <=> InChat(u, cid) /\ ~UntoldChat(cid)
      BY <2>1, <2>2, <2>3, <2>4
    <2> QED BY <1>1, <1>3, <2>5, SameNewsIf
  <1> QED BY <1>4, <1>5

LEMMA StoreSame ==
  ASSUME AllInv, up', NEW c \in Conn, NEW k \in 1..MaxChats, NewMessage(c, k), NEW u
  PROVE  SameNews(u)
  <1>1. /\ task.at = "idle" /\ task'.at = "msg.echo" /\ task'.mid = Len(messages) + 1
        /\ UNCHANGED <<chatlist, registered>>
    BY TellSteps
  <1>2. PICK r : messages' = Append(messages, r)
    BY TellSteps
  <1>3. messages \in Seq(MessageRow) /\ KeyedRows
    BY STypes DEF AllInv, SInv, SeesInv
  <1>4. /\ Len(messages) \in Nat /\ DOMAIN messages = 1..Len(messages)
        /\ DOMAIN messages' = 1..(Len(messages) + 1)
        /\ \A m \in DOMAIN messages : messages'[m] = messages[m]
    BY <1>2, <1>3
  <1>5. \A cid : InChat(u, cid)' <=> InChat(u, cid)
    BY <1>1 DEF InChat
  <1>6. \A cid : ~UntoldChat(cid) /\ ~UntoldChat(cid)'
    BY <1>1 DEF UntoldChat
  <1>7. \A m : ~UntoldTo(u, m)
    BY <1>1 DEF UntoldTo, Delivering
  <1>8. \A m : UntoldTo(u, m)' <=> m = Len(messages) + 1
    BY <1>1 DEF UntoldTo, Delivering
  <1>9. \A m : m \in DOMAIN messages <=> m \in DOMAIN messages' /\ m # Len(messages) + 1
    BY <1>4
  <1> QED BY <1>1, <1>4, <1>5, <1>6, <1>7, <1>8, <1>9, SameNewsIf

LEMMA NoNewsSame == ASSUME AllInv, NoNews, NEW u PROVE SameNews(u)
  <1>1. KeyedRows
    BY DEF AllInv, SInv, SeesInv
  <1>2. \A cid : InChat(u, cid)' <=> InChat(u, cid)
    BY DEF NoNews, InChat
  <1>3. \A cid : ~UntoldChat(cid) /\ ~UntoldChat(cid)'
    BY DEF NoNews, UntoldChat, Telling
  <1>4. \A m : ~UntoldTo(u, m) /\ ~UntoldTo(u, m)'
    BY DEF NoNews, UntoldTo, Telling
  <1>5. \A m \in DOMAIN messages : messages[m].uid \in registered
    BY <1>1 DEF KeyedRows
  <1> QED BY <1>2, <1>3, <1>4, <1>5, SameNewsIf DEF NoNews

\* Whom a step tells of a chat or a message.
Tells(u) ==
  \/ task.at = "accept.push" /\ u \in {task.uid, task.fid}
  \/ task.at = "msg.echo" /\ u = task.uid
  \/ task.at = "msg.direct" /\ u = task.fid

LEMMA SameNewsNext ==
  ASSUME AllInv, NewsInv, [SystemNext]_sysVars, [Next]_vars, up',
         NEW c \in Conn, NEW u \in User, Listening(c, u), UNCHANGED vars \/ ~Tells(u)
  PROVE  SameNews(u)
  <1>0. OwnMessage /\ Concerned
    BY DEF AllInv, SInv, DInv, HandedInv, NewsInv
  <1>1. CASE UNCHANGED vars
    BY <1>1 DEF vars, dbVars, userVars, chatVars, SameNews, ToldChats, ToldIn, UntoldChat,
       UntoldTo, InChat
  <1>2. CASE NoNews
    BY <1>2, NoNewsSame
  <1>3. CASE AcceptChat \/ AcceptSelf \/ AcceptPeer
    BY <1>3, CreateSame
  <1>4. CASE AcceptPush /\ ~UNCHANGED vars
    <2>1. /\ task.at = "accept.push" /\ task'.at = "return"
          /\ UNCHANGED <<chatlist, messages, registered>>
      BY <1>4, TellSteps
    <2>2. ~InChat(u, task.cid)
      BY <1>0, <1>4, <2>1 DEF Tells, Concerned
    <2>3. \A cid : InChat(u, cid)' <=> InChat(u, cid)
      BY <2>1 DEF InChat
    <2>4. \A cid : ~UntoldChat(cid)' /\ (UntoldChat(cid) => cid = task.cid)
      BY <2>1 DEF UntoldChat
    <2>5. \A m : ~UntoldTo(u, m) /\ ~UntoldTo(u, m)'
      BY <2>1 DEF UntoldTo, Delivering
    <2> QED BY <2>1, <2>2, <2>3, <2>4, <2>5, SameNewsIf
  <1>5. ASSUME NEW d \in Conn, NEW k \in 1..MaxChats, NewMessage(d, k) PROVE SameNews(u)
    BY <1>5, StoreSame
  <1>6. CASE MsgEcho /\ ~UNCHANGED vars
    <2>1. /\ task.at = "msg.echo" /\ UNCHANGED <<chatlist, messages, registered>>
          /\ \/ /\ task'.at \in {"msg.direct", "msg.room"} /\ task'.mid = task.mid
                /\ task'.uid = task.uid
             \/ task'.at = "return" /\ PeerRows = {}
      BY <1>6, TellSteps
    <2>2. u # task.uid
      BY <1>6, <2>1 DEF Tells
    <2>3. CASE task'.at = "return" /\ PeerRows = {}
      <3>1. ~InChat(u, task.cid)
        BY <2>2, <2>3, Peers
      <3> QED BY <1>0, <2>1, <2>3, <3>1, ToldAll DEF Delivering, Telling
    <2>4. CASE task'.at \in {"msg.direct", "msg.room"} /\ task'.mid = task.mid
               /\ task'.uid = task.uid
      <3>1. \A cid : InChat(u, cid)' <=> InChat(u, cid)
        BY <2>1 DEF InChat
      <3>2. \A cid : ~UntoldChat(cid) /\ ~UntoldChat(cid)'
        BY <2>1, <2>4 DEF UntoldChat
      <3>3. \A m : UntoldTo(u, m)' <=> UntoldTo(u, m)
        BY <2>1, <2>2, <2>4 DEF UntoldTo, Delivering
      <3> QED BY <2>1, <3>1, <3>2, <3>3, SameNewsIf
    <2> QED BY <2>1, <2>3, <2>4
  <1>7. CASE (MsgDirect \/ MsgRoomDone) /\ ~UNCHANGED vars
    <2>1. /\ task.at \in {"msg.direct", "msg.room"} /\ UNCHANGED <<chatlist, messages, registered>>
          /\ task'.at \notin Telling
      BY <1>7, TellSteps DEF Telling, Delivering
    <2>2. online[u] /\ u \in registered
      <3>1. online[u]
        BY <2>1 DEF AllInv, SInv, SeesInv, ListedOnline, Leaving
      <3>2. u \in authed[c]
        BY DEF AllInv, SInv, DInv, PInv, AuthInv, SessionAuthentic, Listening
      <3>3. u \in registered
        BY <3>2 DEF AllInv, SInv, DInv, PInv, PresenceInv, OneAccount
      <3> QED BY <3>1, <3>3
    <2>3. InChat(u, task.cid) => u = task.uid
      <3>1. CASE MsgDirect
        <4>1. task.at = "msg.direct"
          BY <3>1 DEF MsgDirect
        <4> QED BY <1>0, <1>7, <4>1 DEF Concerned, Tells
      <3>2. CASE MsgRoomDone
        <4>1. task.at = "msg.room" /\ task.todo = {}
          BY <3>2 DEF MsgRoomDone
        <4> QED BY <1>0, <2>2, <4>1 DEF Concerned
      <3> QED BY <1>7, <3>1, <3>2
    <2> QED BY <1>0, <2>1, <2>3, ToldAll DEF Delivering
  <1> QED BY <1>1, <1>2, <1>3, <1>4, <1>5, <1>6, <1>7, NextNews DEF NewsStep

-----------------------------------------------------------------------------
(* What the others tell.                                                    *)

LEMMA ChatTold ==
  ASSUME AllInv, NewsInv, up', AcceptPush, NEW u \in {task.uid, task.fid}, NEW k, k = task.cid
  PROVE  /\ ToldChats(u)' = ToldChats(u) \cup {k} /\ ToldIn(u, k)' = {}
         /\ \A cid \in ToldChats(u) : cid < k /\ ToldIn(u, cid)' = ToldIn(u, cid)
  <1>1. /\ task.at = "accept.push" /\ task'.at = "return"
        /\ UNCHANGED <<chatlist, messages, registered>>
    BY TellSteps
  <1>2. InChat(u, k) /\ k = Len(chatlist) /\ \A m \in DOMAIN messages : messages[m].cid # k
    BY <1>1 DEF NewsInv, Newest, Concerned, InChats
  <1>3. \A cid : InChat(u, cid)' <=> InChat(u, cid)
    BY <1>1 DEF InChat
  <1>4. \A cid : ~UntoldChat(cid)' /\ (UntoldChat(cid) <=> cid = k)
    BY <1>1 DEF UntoldChat
  <1>5. \A m : ~UntoldTo(u, m) /\ ~UntoldTo(u, m)'
    BY <1>1 DEF UntoldTo, Delivering
  <1>6. \A cid : cid \in ToldChats(u)' <=> cid \in ToldChats(u) \cup {k}
    BY <1>1, <1>2, <1>3, <1>4 DEF ToldChats, InChat
  <1>7. \A cid : ToldIn(u, cid)' = ToldIn(u, cid)
    BY <1>1, <1>5 DEF ToldIn
  <1>8. ToldIn(u, k) = {}
    BY <1>2 DEF ToldIn
  <1>9. \A cid \in ToldChats(u) : cid < k
    <2>1. DOMAIN chatlist = 1..Len(chatlist) /\ Len(chatlist) \in Nat
      BY STypes DEF AllInv
    <2> QED BY <1>2, <1>4, <2>1 DEF ToldChats
  <1> QED BY <1>6, <1>7, <1>8, <1>9

LEMMA MessageTold ==
  ASSUME AllInv, NewsInv, up', NEW u, (MsgEcho /\ u = task.uid) \/ (MsgDirect /\ u = task.fid),
         NEW k, k = task.cid, NEW n, n = task.mid
  PROVE  /\ ToldChats(u)' = ToldChats(u)
         /\ \A cid : cid # k => ToldIn(u, cid)' = ToldIn(u, cid)
         /\ ToldIn(u, k)' = ToldIn(u, k) \cup {n}
         /\ \A m \in ToldIn(u, k) : m < n
  <1>1. /\ task.at \in {"msg.echo", "msg.direct"} /\ (task.at = "msg.direct" => u = task.fid)
        /\ task'.at \notin {"accept.peer", "accept.push"}
        /\ task'.at \in Delivering => task'.at # "msg.echo" /\ task'.uid = u
        /\ UNCHANGED <<chatlist, messages, registered>>
    <2>1. MsgEcho => task.at = "msg.echo"
      BY DEF MsgEcho
    <2>2. MsgDirect => task.at = "msg.direct"
      BY DEF MsgDirect
    <2> QED BY <2>1, <2>2, TellSteps DEF Delivering
  <1>2. /\ n = Len(messages) /\ n \in DOMAIN messages /\ messages[n].cid = k
        /\ messages[n].uid \in registered
        /\ task.at = "msg.direct" => u # task.uid
    BY <1>1 DEF AllInv, SInv, SeesInv, KeyedRows, DInv, HandedInv, OwnMessage, Addressed,
       MessageLabels, NewsInv, Newest, Delivering
  <1>3. \A cid : InChat(u, cid)' <=> InChat(u, cid)
    BY <1>1 DEF InChat
  <1>4. \A cid : ~UntoldChat(cid) /\ ~UntoldChat(cid)'
    BY <1>1 DEF UntoldChat
  <1>5. \A m : ~UntoldTo(u, m)' /\ (UntoldTo(u, m) <=> m = n)
    BY <1>1, <1>2 DEF UntoldTo, Delivering
  <1>6. \A cid : cid \in ToldChats(u)' <=> cid \in ToldChats(u)
    BY <1>1, <1>3, <1>4 DEF ToldChats
  <1>7. ASSUME NEW cid, cid # k PROVE ToldIn(u, cid)' = ToldIn(u, cid)
    <2>1. \A m : m \in ToldIn(u, cid)' <=> m \in ToldIn(u, cid)
      BY <1>1, <1>2, <1>5, <1>7 DEF ToldIn
    <2> QED BY <2>1
  <1>8. \A m : m \in ToldIn(u, k)' <=> m \in ToldIn(u, k) \cup {n}
    BY <1>1, <1>2, <1>5 DEF ToldIn
  <1>9. \A m \in ToldIn(u, k) : m < n
    <2>1. DOMAIN messages = 1..Len(messages) /\ Len(messages) \in Nat
      BY STypes DEF AllInv
    <2> QED BY <1>2, <1>5, <2>1 DEF ToldIn
  <1> QED BY <1>6, <1>7, <1>8, <1>9

-----------------------------------------------------------------------------
(* Messages that leave the chats of a page alone, and steps that send only  *)
(* such messages.                                                           *)

\* What processMessage leaves the chats of any page alone for.
Mute == {m \in Msg : m.kind \notin {"chatlist", "newchat", "newMessage"}}

LEMMA MuteKeeps == ASSUME NEW t \in Page, NEW m \in Mute PROVE After(t, m).chats = t.chats
  <1>0. t \in Tab /\ m \in Msg /\ m.kind \notin {"chatlist", "newchat", "newMessage"}
    BY DEF Page, Mute
  <1>1. m.kind \in {"registration", "login", "loginFailed", "addFriend", "failed", "logout",
                    "error", "acceptFriend", "searchUser", "friendRequest", "friendlist",
                    "newFriendListUser", "notifyOnline"}
    BY <1>0 DEF Msg
  <1>2. CASE m.kind \in {"registration", "failed", "error", "logout"}
    BY <1>2 DEF processMessage, After
  <1>3. CASE m.kind \in {"login", "loginFailed", "addFriend", "searchUser"}
    BY <1>0, <1>3 DEF processMessage, After, Tab
  <1>4. CASE m.kind \in {"acceptFriend", "friendRequest", "friendlist", "newFriendListUser"}
    BY <1>0, <1>4 DEF processMessage, After, Tab, deleteRequest
  <1>5. CASE m.kind = "notifyOnline"
    BY <1>0, <1>5 DEF processMessage, After, Tab, notifyOnline
  <1> QED BY <1>1, <1>2, <1>3, <1>4, <1>5

LEMMA HushSends ==
  ASSUME SysInv, Handle, NEW M, Mute \subseteq M, ~AcceptPushSent, ~LoginChatsSent,
         MsgEchoSent \/ MsgDirectSent => Message \in M
  PROVE  Sends(M)
  <1>1. Dull \subseteq M /\ Plain("login") \in M
    BY Spoken DEF Dull, Glad, Mute, Plain
  <1>2. task.at = "logout.notify" => Notify(task.uid, FALSE) \in M
    BY Spoken DEF SysInv, Named, ByUser, Mute, Notify
  <1> QED BY <1>1, <1>2, HandleSays

LEMMA HushOnward ==
  ASSUME SysInv, [SystemNext]_sysVars, NEW c \in Conn, NEW M, Mute \subseteq M, M \subseteq Msg,
         ~AcceptPushSent, ~LoginChatsSent, MsgEchoSent \/ MsgDirectSent => Message \in M
  PROVE  Onward(c, M)
  <1>0. PagesInv
    BY DEF SysInv
  <1>1. CASE UNCHANGED <<tab, wire>>
    BY <1>0, <1>1, SameOnward DEF Unasked
  <1>2. CASE Kill /\ SocketsEnd
    BY <1>2, EndOnward
  <1>3. CASE Handle
    BY <1>0, <1>3, HushSends, SendsOnward
  <1>4. ASSUME NEW d \in Conn, on_open(d) /\ onopen(d) PROVE Onward(c, M)
    BY <1>0, <1>4, TabOnward
  <1>5. ASSUME NEW d \in Conn, on_close(d) /\ Post(None) PROVE Onward(c, M)
    BY <1>0, <1>5, NoneType, PostSends, SendsOnward
  <1>6. ASSUME NEW d \in Conn, Serve(d) PROVE Onward(c, M)
    <2>1. Dull \subseteq M /\ Plain("loginFailed") \in M
      BY Spoken DEF Dull, Glad, Mute, Plain
    <2>2. <<>> \in Seq(M) /\ <<Plain("loginFailed")>> \in Seq(M) /\ Seq(Dull) \subseteq Seq(M)
      BY <2>1, SeqMonotonic, EmptySeq
    <2>3. \E s \in Seq(M) : Read(d, s)
      BY <1>6, <2>2, ServeReads
    <2>4. Sends(M)
      BY <2>3, ToType, NoneType DEF Read, Sends
    <2> QED BY <1>0, <2>4, SendsOnward
  <1>7. ASSUME NEW d \in Conn, Browser(d) PROVE Onward(c, M)
    BY <1>0, <1>7, MessageOnward, TabOnward, UserOnward DEF Browser
  <1> QED BY <1>1, <1>2, <1>3, <1>4, <1>5, <1>6, <1>7 DEF SystemNext, sysVars

-----------------------------------------------------------------------------
(* A patient user's page has at most one login under way: asked for, being  *)
(* served, or answered.                                                     *)

Asks    == {r \in Ask : r.request = "login"}
Answers == {m \in Msg : m.kind \in {"login", "loginFailed"}}

\* The login of c is being served.
Logging(c) == task.at \in {"login.session", "login.lists"} /\ task.hdl = c

\* No login is under way on c.
Settled(c) == Never(outbox[c], Asks) /\ ~Logging(c) /\ Never(wire[c], Answers)

\* One is: the request, its handler or the answer, and nothing else of it.
Unsettled(c) ==
  /\ tab[c].page = "login" /\ tab[c].waiting
  /\ \/ Once(outbox[c], Asks) /\ ~Logging(c) /\ Never(wire[c], Answers)
     \/ Never(outbox[c], Asks) /\ Logging(c) /\ Never(wire[c], Answers)
     \/ Never(outbox[c], Asks) /\ ~Logging(c) /\ Once(wire[c], Answers)

OneLogin == \A c \in Conn : On(c) => Settled(c) \/ Unsettled(c)

\* What the server sends, and what it leaves alone.
LEMMA QuietLogin ==
  ASSUME PagesInv, OneLogin, NEW c \in Conn, On(c), tab'[c] = tab[c], outbox'[c] = outbox[c],
         NEW w \in Seq(Msg), Never(w, Answers), wire'[c] = wire[c] \o w, Logging(c)' <=> Logging(c)
  PROVE  (Settled(c) \/ Unsettled(c))'
  <1>1. wire[c] \in Seq(Msg)
    BY DEF PagesInv
  <1>2. /\ Never(wire[c], Answers) => Never(wire[c] \o w, Answers)
        /\ Once(wire[c], Answers) => Once(wire[c] \o w, Answers)
    BY <1>1, CountConcat
  <1>3. /\ Never(wire[c], Answers) => Never(wire[c], Answers)'
        /\ Once(wire[c], Answers) => Once(wire[c], Answers)'
    BY <1>2 DEF Never, Once
  <1>4. /\ Never(outbox[c], Asks)' <=> Never(outbox[c], Asks)
        /\ Once(outbox[c], Asks)' <=> Once(outbox[c], Asks)
    BY DEF Never, Once, Asks
  <1> QED BY <1>3, <1>4 DEF OneLogin, Settled, Unsettled

LEMMA SameLogin ==
  ASSUME PagesInv, OneLogin, NEW c \in Conn, On(c), tab'[c] = tab[c], outbox'[c] = outbox[c],
         wire'[c] = wire[c], Logging(c)' <=> Logging(c)
  PROVE  (Settled(c) \/ Unsettled(c))'
  BY DEF OneLogin, Settled, Unsettled, Never, Once, Asks, Answers

\* When the server is in a login.
LEMMA ServeLogging ==
  ASSUME AllInv, NEW d \in Conn, Serve(d)
  PROVE  /\ \A c \in Conn : ~Logging(c)
         /\ \A c \in Conn : Logging(c)' => c = d /\ \E u \in User : Login(d, u)
         /\ (\E u \in User : Login(d, u)) => Logging(d)'
         /\ Refuse(d) => ~Logging(d)'
  <1>0. PInv /\ SysInv
    BY DEF AllInv, SInv, DInv
  <1>1. Request(d)
    BY <1>0, ServeReads
  <1>2. task.at = "idle"
    BY <1>1 DEF Request, Refuse, Register, Login, Logout, AddFriend, AcceptFriend, DeclineFriend,
       RemoveFriend, NewMessage, Receives
  <1>3. ASSUME \A u \in User : ~Login(d, u) PROVE task'.at \notin {"login.session", "login.lists"}
    <2>1. Other => task'.at \notin {"login.session", "login.lists"}
      BY DEF Other, LoginLabels
    <2>2. Die => task'.at = "idle"
      BY DEF Die, Idle
    <2>3. \A cid : NewMessage(d, cid) => task'.at \in {"msg.echo", "idle"}
      BY <2>2 DEF NewMessage, Idle
    <2> QED BY <1>0, <1>1, <1>3, <2>1, <2>3, OtherRequests DEF Request
  <1>4. \A u \in User : Login(d, u) => task'.hdl = d /\ task'.at = "login.session"
    BY DEF Login, Idle
  <1>5. Refuse(d) => task'.at = "return"
    BY DEF Refuse, Reply, Idle
  <1> QED BY <1>2, <1>3, <1>4, <1>5 DEF Logging

LEMMA HandleLogging ==
  ASSUME AllInv, Handle, up', NEW c \in Conn
  PROVE  /\ LoginListsSent => ~Logging(c)'
         /\ ~LoginListsSent => (Logging(c)' <=> Logging(c))
  <1>0. PInv /\ DInv /\ TInv /\ task \in Task /\ "template" \notin Faults
    BY STypes, SystemAssumption DEF AllInv, SysInv, SInv, DInv
  <1>1. LoginListsSent => task'.at = "login.notify"
    BY <1>0 DEF LoginListsSent, LoginLists, Task
  <1>2. LoginSession => (Logging(c)' <=> Logging(c))
    BY <1>0 DEF LoginSession, Goto, Logging, Task
  <1>3. ASSUME ~LoginListsSent, ~LoginSession
        PROVE  /\ task.at \notin {"login.session", "login.lists"}
               /\ task'.at \notin {"login.session", "login.lists"}
    <2>1. task.at \notin {"login.session", "login.lists"}
      BY <1>3 DEF Handle, Silent, LoginChatsSent, LogoutSessionSent, AddFriendPushSent,
         AcceptPushSent, MsgEchoSent, MsgDirectSent, LoginNotifySent, LogoutNotifySent,
         CloseSession, Return, LogoutEmail, LogoutDone, AcceptChat, AcceptSelf, AcceptPeer,
         MsgFlag, MsgRoomDone, removeRequest, LoginChats, LogoutSession, AddFriendPush,
         AcceptPush, MsgEcho, MsgDirect, LoginNotify, LogoutNotify
    <2>2. ~Die
      BY DEF Die
    <2>3. Other => task'.at \notin {"login.session", "login.lists"}
      BY DEF Other, LoginLabels
    <2>4. MsgEcho \/ MsgDirect \/ MsgFlag => task'.at \notin {"login.session", "login.lists"}
      BY <1>0, <2>2, NextLabels DEF MsgEcho, MsgDirect, MsgFlag, Task
    <2>5. LoginChats => task'.at = "return"
      BY <1>0, NextLabels DEF LoginChats
    <2>6. \A f \in User : LoginNotify(f) => task'.at \in {"login.notify", "return"}
      BY <1>0, <2>2, NextLabels DEF LoginNotify, Task
    <2> QED BY <1>0, <1>3, <2>1, <2>3, <2>4, <2>5, <2>6, OtherSteps
        DEF Handle, Silent, LoginChatsSent, LogoutSessionSent, AddFriendPushSent, AcceptPushSent,
            MsgEchoSent, MsgDirectSent, LoginNotifySent, LogoutNotifySent, FriendStep
  <1> QED BY <1>1, <1>2, <1>3 DEF Logging

LEMMA HandleOutbox == ASSUME Handle, up' PROVE UNCHANGED outbox
  <1>1. \A msgs : Post(msgs) => UNCHANGED outbox
    BY DEF Post
  <1> QED BY <1>1 DEF Handle, Silent, LoginListsSent, LoginChatsSent, LogoutSessionSent,
          AddFriendPushSent, AcceptPushSent, MsgEchoSent, MsgDirectSent, LoginNotifySent,
          LogoutNotifySent, PushIfOnline, Push

LEMMA HandleLogin ==
  ASSUME AllInv, OneLogin, Handle, NEW c \in Conn, On(c)' PROVE (Settled(c) \/ Unsettled(c))'
  <1>i. PagesInv /\ SysInv
    BY DEF AllInv, SysInv
  <1>0. task.at = "logout.notify" => Notify(task.uid, FALSE) \in Msg
    BY <1>i, Spoken DEF SysInv, Named, ByUser
  <1>u. up'
    <2>1. Sends(Msg)
      BY <1>0, <1>i, HandleSends DEF Glad
    <2> QED BY <2>1, EndAdds DEF Sends
  <1>o. outbox'[c] = outbox[c]
    BY <1>u, HandleOutbox
  <1>1. CASE ~LoginListsSent
    <2> DEFINE M == Msg \ Answers
    <2>1. Dull \subseteq M
      BY DEF Dull, Glad, Answers
    <2>2. /\ task.at = "logout.notify" => Notify(task.uid, FALSE) \in M
          /\ AcceptPushSent => NewChat(task.cid) \in M
          /\ Message \in M
      BY <1>i, Spoken DEF AcceptPushSent, AcceptPush, SysInv, Named, ByUser, InChats, Answers,
         Glad, Notify, NewChat, Message
    <2>3. [kind |-> "chatlist", values |-> ChatsOf(Caller(task.hdl))] \in M
      BY <1>i, ChatRows DEF Msg, Answers
    <2> HIDE DEF M
    <2>4. Sends(M)
      BY <1>1, <1>i, <2>1, <2>2, <2>3, HandleSays
    <2>5. PICK w \in Seq(M) : Adds(c, w)
      BY <2>4, SendsAdds
    <2>6. M \subseteq Msg
      BY DEF M
    <2>7. w \in Seq(Msg)
      BY <2>6, SeqMonotonic
    <2>8. Never(w, Answers)
      <3>1. \A i \in DOMAIN w : w[i] \in M
        BY ElementOfSeq, LenProperties
      <3> QED BY <3>1 DEF Never, M
    <2>9. Logging(c)' <=> Logging(c)
      BY <1>1, <1>u, HandleLogging
    <2> QED BY <1>i, <1>o, <2>5, <2>7, <2>8, <2>9, QuietLogin DEF Adds
  <1>2. CASE LoginListsSent
    <2>1. task.at = "login.lists" /\ task.hdl \in Conn /\ task \in Task /\ "template" \notin Faults
      BY <1>2, <1>i, STypes, SystemAssumption DEF LoginListsSent, LoginLists
    <2>2. task'.at = "login.notify"
      BY <1>2, <2>1 DEF LoginListsSent, LoginLists, Task
    <2> DEFINE a == Plain("login")
               b == sendFriendlist(Caller(task.hdl))
               d == Requests(Rows(getFriendRequests(Caller(task.hdl))))
               w == <<a, b, d>>
    <2>3. /\ a \in Msg /\ b \in Msg /\ d \in Msg
          /\ a \in Answers /\ b \notin Answers /\ d \notin Answers
      BY <1>i, Spoken, FriendRows DEF Glad, Answers, Plain, sendFriendlist, Requests
    <2>4. Post(To(task.hdl, w))
      BY <1>2, <2>2 DEF LoginListsSent
    <2> HIDE DEF a, b, d
    <2>5. w \in Seq(Msg) /\ DOMAIN w = 1..3 /\ w[1] = a /\ w[2] = b /\ w[3] = d
      BY <2>3
    <2> HIDE DEF w
    <2>6. Adds(c, Mine(c, w))
      BY <1>i, <2>1, <2>4, <2>5, PostAdds
    <2>7. On(c) /\ tab'[c] = tab[c] /\ wire'[c] = wire[c] \o Mine(c, w) /\ wire[c] \in Seq(Msg)
      BY <1>i, <2>6 DEF Adds, PagesInv
    <2>8. ~Logging(c)'
      BY <1>2, <1>u, HandleLogging
    <2>9. CASE c = task.hdl
      <3>1. Logging(c) /\ Mine(c, w) = w
        BY <2>1, <2>9 DEF Logging, Mine
      <3>2. /\ tab[c].page = "login" /\ tab[c].waiting
            /\ Never(outbox[c], Asks) /\ Never(wire[c], Answers)
        BY <2>7, <3>1 DEF OneLogin, Settled, Unsettled
      <3>3. Once(w, Answers)
        <4>1. 1 \in 1..3 /\ \A j \in 1..3 : j = 1 \/ j = 2 \/ j = 3
          OBVIOUS
        <4>2. 1 \in DOMAIN w /\ w[1] \in Answers /\ \A j \in DOMAIN w : w[j] \in Answers => j = 1
          BY <2>3, <2>5, <4>1
        <4> QED BY <4>2 DEF Once
      <3>4. Once(wire[c] \o w, Answers)
        BY <2>5, <2>7, <3>2, <3>3, CountConcat
      <3>5. Once(wire[c], Answers)'
        BY <2>7, <3>1, <3>4 DEF Once
      <3>6. Never(outbox[c], Asks)'
        BY <1>o, <3>2 DEF Never, Asks
      <3> QED BY <2>7, <2>8, <3>2, <3>5, <3>6 DEF Unsettled
    <2>10. CASE c # task.hdl
      <3>1. Mine(c, w) = <<>> /\ ~Logging(c)
        BY <2>10 DEF Mine, Logging
      <3>2. wire'[c] = wire[c]
        BY <2>7, <3>1, ConcatEmptySeq
      <3> QED BY <1>i, <1>o, <2>7, <2>8, <3>1, <3>2, SameLogin
    <2> QED BY <2>9, <2>10
  <1> QED BY <1>1, <1>2

LEMMA ServeLogin ==
  ASSUME AllInv, OneLogin, NEW d \in Conn, Serve(d), NEW c \in Conn, On(c)'
  PROVE  (Settled(c) \/ Unsettled(c))'
  <1>i. PagesInv /\ SysInv
    BY DEF AllInv, SysInv
  <1>1. PICK s \in Seq(Msg) :
          /\ Read(d, s) /\ outbox[d] # <<>>
          /\ \/ /\ Head(outbox[d]).request # "login"
                /\ \A u \in User : ~Login(d, u)
                /\ Never(s, Answers)
             \/ /\ Head(outbox[d]).request = "login"
                /\ \/ (\E u \in User : Login(d, u)) /\ s = <<>>
                   \/ Refuse(d) /\ Once(s, Answers)
    <2>1. Plain("loginFailed") \in Msg /\ Plain("loginFailed") \in Answers
      BY <1>i, Spoken DEF Glad, Answers, Plain
    <2>2. <<>> \in Seq(Msg) /\ <<Plain("loginFailed")>> \in Seq(Msg)
      BY <2>1, EmptySeq
    <2>3. Once(<<Plain("loginFailed")>>, Answers)
      <3> DEFINE e == Plain("loginFailed")
      <3> HIDE DEF e
      <3>1. DOMAIN <<e>> = {1} /\ <<e>>[1] = e
        OBVIOUS
      <3>2. Once(<<e>>, Answers)
        BY <2>1, <3>1 DEF Once, e
      <3> QED BY <3>2 DEF e
    <2>4. ASSUME NEW s \in Seq(Dull) PROVE s \in Seq(Msg) /\ Never(s, Answers)
      <3>1. s \in Seq(Msg)
        BY SeqMonotonic DEF Dull, Glad
      <3>2. \A i \in DOMAIN s : s[i] \in Dull
        BY ElementOfSeq, LenProperties
      <3> QED BY <3>1, <3>2 DEF Never, Dull, Answers
    <2> QED BY <1>i, <2>2, <2>3, <2>4, ServeReads
  <1>2. /\ On(c) /\ tab'[c] = tab[c]
        /\ wire'[c] = wire[c] \o To(d, s)[c]
        /\ outbox' = [outbox EXCEPT ![d] = Tail(outbox[d])]
    <2>1. up'
      BY <1>1, EndAdds DEF Read
    <2> QED BY <1>1, <2>1 DEF Read, Put, On
  <1>3. wire[c] \in Seq(Msg) /\ outbox[c] \in Seq(Ask) /\ outbox \in [Conn -> Seq(Ask)]
    BY <1>i DEF PagesInv
  <1>4. ~Logging(c)
    BY ServeLogging
  <1>5. CASE c # d
    <2>1. To(d, s)[c] = <<>>
      BY <1>5 DEF To, None
    <2>2. wire'[c] = wire[c]
      BY <1>2, <1>3, <2>1, ConcatEmptySeq
    <2>3. outbox'[c] = outbox[c]
      BY <1>2, <1>3, <1>5
    <2>4. ~Logging(c)'
      BY <1>5, ServeLogging
    <2> QED BY <1>i, <1>2, <1>4, <2>2, <2>3, <2>4, SameLogin
  <1>6. CASE c = d
    <2>1. To(d, s)[c] = s
      BY <1>6 DEF To, None
    <2> DEFINE w == wire[c] \o s
               b == Tail(outbox[c])
               r == Head(outbox[c])
    <2>2. wire'[c] = w /\ outbox'[c] = b
      BY <1>2, <1>3, <1>6, <2>1
    <2>3. r \in Ask /\ (r \in Asks <=> r.request = "login")
      BY <1>1, <1>3, <1>6, HeadTailProperties DEF Asks
    <2>4. /\ Never(wire[c], Answers) /\ Never(s, Answers) => Never(w, Answers)
          /\ Once(wire[c], Answers) /\ Never(s, Answers) => Once(w, Answers)
          /\ Never(wire[c], Answers) /\ Once(s, Answers) => Once(w, Answers)
      BY <1>3, CountConcat
    <2>5. /\ Never(outbox[c], Asks) => Never(b, Asks) /\ r \notin Asks
          /\ Once(outbox[c], Asks) /\ r \in Asks => Never(b, Asks)
          /\ Once(outbox[c], Asks) /\ r \notin Asks => Once(b, Asks)
      BY <1>1, <1>3, <1>6, CountTail
    <2> HIDE DEF w, b, r
    <2>6. /\ Never(b, Asks) => Never(outbox[c], Asks)'
          /\ Once(b, Asks) => Once(outbox[c], Asks)'
          /\ Never(w, Answers) => Never(wire[c], Answers)'
          /\ Once(w, Answers) => Once(wire[c], Answers)'
      BY <2>2 DEF Never, Once, Asks, Answers
    <2>7. Never(<<>>, Answers)
      BY DEF Never
    <2>8. /\ (\E u \in User : Login(d, u)) => Logging(c)'
          /\ Refuse(d) => ~Logging(c)'
          /\ (\A u \in User : ~Login(d, u)) => ~Logging(c)'
      BY <1>6, ServeLogging
    <2>9. Settled(c) \/ Unsettled(c)
      BY <1>2 DEF OneLogin
    <2>10. CASE r.request # "login"
      <3>1. Never(s, Answers) /\ ~Logging(c)'
        BY <1>1, <1>6, <2>8, <2>10 DEF r
      <3> QED BY <1>2, <1>4, <2>3, <2>4, <2>5, <2>6, <2>9, <2>10, <3>1 DEF Settled, Unsettled
    <2>11. CASE r.request = "login"
      <3>1. /\ tab[c].page = "login" /\ tab[c].waiting
            /\ Never(wire[c], Answers) /\ Never(outbox[c], Asks)'
        BY <2>3, <2>5, <2>6, <2>9, <2>11 DEF Settled, Unsettled
      <3>2. \/ Never(s, Answers) /\ Logging(c)'
            \/ Once(s, Answers) /\ ~Logging(c)'
        BY <1>1, <1>6, <2>7, <2>8, <2>11 DEF r
      <3> QED BY <1>2, <2>4, <2>6, <3>1, <3>2 DEF Unsettled
    <2> QED BY <2>10, <2>11
  <1> QED BY <1>5, <1>6

LEMMA MessageLogin ==
  ASSUME AllInv, OneLogin, NEW c \in Conn, onmessage(c), UNCHANGED vars, On(c)'
  PROVE  (Settled(c) \/ Unsettled(c))'
  <1>1. /\ wire[c] \in Seq(Msg) /\ wire[c] # <<>> /\ tab[c] \in Page /\ On(c)
        /\ tab \in [Conn -> Page] /\ wire \in [Conn -> Seq(Msg)]
    BY DEF AllInv, SysInv, PagesInv, onmessage, On
  <1> DEFINE m == Head(wire[c])
             w == Tail(wire[c])
             p == processMessage(tab[c], m)
  <1>2. m \in Msg /\ tab'[c] = p /\ UNCHANGED outbox /\ (Logging(c)' <=> Logging(c))
    BY <1>1, HeadTailProperties DEF onmessage, vars, Logging
  <1>3. m.kind # "logout"
    BY <1>1, <1>2 DEF processMessage, NoTab, On
  <1>4. wire'[c] = w
    BY <1>1, <1>3 DEF onmessage
  <1>5. /\ Never(wire[c], Answers) => Never(w, Answers) /\ m \notin Answers
        /\ Once(wire[c], Answers) /\ m \in Answers => Never(w, Answers)
        /\ Once(wire[c], Answers) /\ m \notin Answers => Once(w, Answers)
    BY <1>1, CountTail
  <1>6. m \notin Answers => p.page = tab[c].page /\ p.waiting = tab[c].waiting
    BY <1>1, <1>2, <1>3
    DEF processMessage, addMessageToChat, notifyOnline, deleteRequest, Page, Tab, Msg, Answers
  <1> HIDE DEF m, w, p
  <1>7. /\ Never(w, Answers) => Never(wire[c], Answers)'
        /\ Once(w, Answers) => Once(wire[c], Answers)'
        /\ Never(outbox[c], Asks) => Never(outbox[c], Asks)'
        /\ Once(outbox[c], Asks) => Once(outbox[c], Asks)'
    BY <1>2, <1>4 DEF Never, Once, Asks, Answers
  <1>8. Settled(c) \/ Unsettled(c)
    BY <1>1 DEF OneLogin
  <1>9. CASE m \in Answers
    BY <1>2, <1>5, <1>7, <1>8, <1>9 DEF Settled, Unsettled
  <1>10. CASE m \notin Answers
    BY <1>2, <1>5, <1>6, <1>7, <1>8, <1>10 DEF Settled, Unsettled
  <1> QED BY <1>9, <1>10

\* A patient user asks for a login only when none is under way.
LEMMA UserAsks ==
  ASSUME AllInv, Patient, NEW c \in Conn, UserStep(c)
  PROVE  \E r \in Ask :
           /\ outbox' = [outbox EXCEPT ![c] = Append(@, r)] /\ UNCHANGED wire
           /\ \/ r \notin Asks /\ UNCHANGED tab
              \/ /\ r \in Asks /\ tab[c].page = "login" /\ ~tab[c].waiting
                 /\ tab' = [tab EXCEPT ![c] = [@ EXCEPT !.waiting = TRUE]]
  <1> DEFINE Goal == \E r \in Ask :
           /\ outbox' = [outbox EXCEPT ![c] = Append(@, r)] /\ UNCHANGED wire
           /\ \/ r \notin Asks /\ UNCHANGED tab
              \/ /\ r \in Asks /\ tab[c].page = "login" /\ ~tab[c].waiting
                 /\ tab' = [tab EXCEPT ![c] = [@ EXCEPT !.waiting = TRUE]]
  <1>0. tab[c] \in Page
    BY DEF AllInv, SysInv, PagesInv
  <1>1. ASSUME NEW r \in Ask, r.request # "login", sendMessage(c, r), UNCHANGED tab PROVE Goal
    BY <1>1 DEF sendMessage, Asks
  <1>2. ASSUME NEW u \in User, SubmitLogin(c, u) PROVE Goal
    <2>1. [request |-> "login", email |-> u] \in Asks
      BY DEF Ask, Asks
    <2> QED BY <1>2, <2>1 DEF SubmitLogin, sendMessage, Asks
  <1> SUFFICES Goal
    OBVIOUS
  <1> HIDE DEF Goal
  <1>3. ASSUME NEW u \in User, SubmitRegistration(c, u) \/ ClickAdd(c, u) PROVE Goal
    <2>1. [request |-> "registration", email |-> u] \in Ask
          /\ [request |-> "addFriend", email |-> u] \in Ask
      BY DEF Ask
    <2> QED BY <1>1, <1>3, <2>1 DEF SubmitRegistration, ClickAdd
  <1>4. CASE ClickLogout(c) \/ SubmitSearch(c)
    <2>1. [request |-> "logout"] \in Ask /\ [request |-> "searchUser"] \in Ask
      BY DEF Ask
    <2>2. [request |-> "logout"].request # "login" /\ [request |-> "searchUser"].request # "login"
      OBVIOUS
    <2>3. \/ sendMessage(c, [request |-> "logout"]) /\ UNCHANGED tab
          \/ sendMessage(c, [request |-> "searchUser"]) /\ UNCHANGED tab
      BY <1>4 DEF ClickLogout, SubmitSearch
    <2> QED BY <1>1, <2>1, <2>2, <2>3
  <1>5. ASSUME NEW i \in DOMAIN tab[c].requests, NEW a \in BOOLEAN, ClickRequest(c, i, a)
        PROVE  Goal
    <2>1. tab[c].requests[i] \in User
      BY <1>0, ElementOfSeq DEF Page, Tab
    <2>2. [request |-> "acceptFriend", email |-> tab[c].requests[i], answer |-> a] \in Ask
      BY <2>1 DEF Ask
    <2> QED BY <1>1, <1>5, <2>2 DEF ClickRequest
  <1>6. ASSUME NEW i \in DOMAIN tab[c].chats, SubmitMessage(c, i) PROVE Goal
    <2>1. tab[c].chats[i] \in ChatEntry
      BY <1>0, ElementOfSeq DEF Page
    <2>2. [request |-> "newMessage", cid |-> tab[c].chats[i].id] \in Ask
      BY <2>1 DEF Ask, ChatEntry
    <2> QED BY <1>1, <1>6, <2>2 DEF SubmitMessage
  <1> QED BY <1>2, <1>3, <1>4, <1>5, <1>6 DEF UserStep

LEMMA UserLogin ==
  ASSUME AllInv, OneLogin, Patient, NEW c \in Conn, UserStep(c), UNCHANGED vars, On(c)'
  PROVE  (Settled(c) \/ Unsettled(c))'
  <1>0. /\ tab \in [Conn -> Page] /\ outbox \in [Conn -> Seq(Ask)] /\ tab[c] \in Tab
    BY DEF AllInv, SysInv, PagesInv, Page
  <1>1. PICK r \in Ask :
           /\ outbox' = [outbox EXCEPT ![c] = Append(@, r)] /\ UNCHANGED wire
           /\ \/ r \notin Asks /\ UNCHANGED tab
              \/ /\ r \in Asks /\ tab[c].page = "login" /\ ~tab[c].waiting
                 /\ tab' = [tab EXCEPT ![c] = [@ EXCEPT !.waiting = TRUE]]
    BY UserAsks
  <1>2. outbox'[c] = Append(outbox[c], r) /\ UNCHANGED wire /\ (Logging(c)' <=> Logging(c))
    BY <1>0, <1>1 DEF vars, Logging
  <1>3. /\ Never(outbox[c], Asks) /\ r \notin Asks => Never(outbox[c], Asks)'
        /\ Once(outbox[c], Asks) /\ r \notin Asks => Once(outbox[c], Asks)'
        /\ Never(outbox[c], Asks) /\ r \in Asks => Once(outbox[c], Asks)'
    <2>1. /\ Never(outbox[c], Asks) /\ r \notin Asks => Never(Append(outbox[c], r), Asks)
          /\ Once(outbox[c], Asks) /\ r \notin Asks => Once(Append(outbox[c], r), Asks)
          /\ Never(outbox[c], Asks) /\ r \in Asks => Once(Append(outbox[c], r), Asks)
      BY <1>0, CountAppend
    <2> QED BY <1>2, <2>1 DEF Never, Once, Asks
  <1>4. /\ Never(wire[c], Answers) => Never(wire[c], Answers)'
        /\ Once(wire[c], Answers) => Once(wire[c], Answers)'
    BY <1>2 DEF Never, Once, Answers
  <1>5. CASE r \notin Asks /\ UNCHANGED tab
    <2>1. Settled(c) \/ Unsettled(c)
      BY <1>5 DEF OneLogin, On
    <2> QED BY <1>2, <1>3, <1>4, <1>5, <2>1 DEF Settled, Unsettled
  <1>6. CASE /\ r \in Asks /\ tab[c].page = "login" /\ ~tab[c].waiting
             /\ tab' = [tab EXCEPT ![c] = [@ EXCEPT !.waiting = TRUE]]
    <2>1. Settled(c)
      BY <1>6 DEF OneLogin, On, Unsettled
    <2>2. tab'[c].page = "login" /\ tab'[c].waiting
      BY <1>0, <1>6 DEF Tab
    <2> QED BY <1>2, <1>3, <1>4, <1>6, <2>1, <2>2 DEF Settled, Unsettled
  <1> QED BY <1>1, <1>5, <1>6

LEMMA OneLoginNext ==
  ASSUME AllInv, OneLogin, Patient, [SystemNext]_sysVars PROVE OneLogin'
  <1> SUFFICES ASSUME NEW c \in Conn, On(c)' PROVE (Settled(c) \/ Unsettled(c))'
    BY DEF OneLogin
  <1>i. PagesInv
    BY DEF AllInv, SysInv
  <1>0. ASSUME tab'[c] = tab[c], outbox'[c] = outbox[c], wire'[c] = wire[c], UNCHANGED task
        PROVE  (Settled(c) \/ Unsettled(c))'
    BY <1>i, <1>0, SameLogin DEF On, Logging
  <1>1. CASE UNCHANGED sysVars
    BY <1>0, <1>1 DEF sysVars, vars
  <1>2. CASE Start /\ UNCHANGED <<tab, wire, outbox>>
    BY <1>0, <1>2 DEF Start
  <1>3. CASE Kill /\ SocketsEnd
    BY <1>3, EndAdds
  <1>4. CASE Handle
    BY <1>4, HandleLogin
  <1>5. ASSUME NEW d \in Conn, on_open(d), onopen(d) PROVE (Settled(c) \/ Unsettled(c))'
    <2>1. UNCHANGED task /\ task.at = "idle"
      BY <1>5 DEF on_open
    <2>2. CASE c # d
      BY <1>0, <1>i, <1>5, <2>1, <2>2 DEF onopen, PagesInv
    <2>3. CASE c = d
      <3>1. outbox'[c] = <<>> /\ wire'[c] = <<>> /\ ~Logging(c)'
        BY <1>i, <1>5, <2>1, <2>3 DEF onopen, PagesInv, Logging
      <3> QED BY <3>1 DEF Settled, Never
    <2> QED BY <2>2, <2>3
  <1>6. ASSUME NEW d \in Conn, PeerCloses(d), tab[d].page = "closed",
               outbox' = [outbox EXCEPT ![d] = <<>>], UNCHANGED <<tab, wire>>
        PROVE  (Settled(c) \/ Unsettled(c))'
    <2>1. c # d
      BY <1>6 DEF On
    <2> QED BY <1>0, <1>i, <1>6, <2>1 DEF PeerCloses, PagesInv
  <1>7. ASSUME NEW d \in Conn, on_close(d), Post(None) PROVE (Settled(c) \/ Unsettled(c))'
    <2>1. up'
      BY <1>7, EndAdds DEF Post
    <2>2. UNCHANGED <<tab, outbox>> /\ Put(None) /\ On(c) /\ wire[c] \in Seq(Msg)
      BY <1>i, <1>7, <2>1 DEF Post, On, PagesInv
    <2>3. wire'[c] = wire[c] \o <<>>
      BY <2>2 DEF Put, On, None
    <2>4. wire'[c] = wire[c]
      BY <2>2, <2>3, ConcatEmptySeq
    <2>5. Logging(c)' <=> Logging(c)
      <3>1. Die => task'.at = "idle"
        BY DEF Die, Idle
      <3>2. task.at = "idle" /\ task'.at \in {"idle", "close.session"}
        BY <1>7, <3>1 DEF on_close, Idle
      <3> QED BY <3>2 DEF Logging
    <2>6. tab'[c] = tab[c] /\ outbox'[c] = outbox[c] /\ On(c)
      BY <2>2
    <2> QED BY <1>i, <2>4, <2>5, <2>6, SameLogin
  <1>8. ASSUME NEW d \in Conn, Serve(d) PROVE (Settled(c) \/ Unsettled(c))'
    BY <1>8, ServeLogin
  <1>9. ASSUME NEW d \in Conn, Browser(d) PROVE (Settled(c) \/ Unsettled(c))'
    <2>1. UNCHANGED vars /\ UNCHANGED task
      BY <1>9 DEF Browser, vars
    <2>2. CASE c = d
      <3>1. CloseTab(c) => ~On(c)'
        BY <1>i DEF CloseTab, NoTab, On, PagesInv
      <3> QED BY <1>9, <2>1, <2>2, <3>1, MessageLogin, UserLogin DEF Browser
    <2>3. CASE c # d
      <3>1. onmessage(d) \/ CloseTab(d) =>
              tab'[c] = tab[c] /\ outbox'[c] = outbox[c] /\ wire'[c] = wire[c]
        BY <1>i, <2>3 DEF onmessage, CloseTab, PagesInv
      <3>2. UserStep(d) => tab'[c] = tab[c] /\ outbox'[c] = outbox[c] /\ wire'[c] = wire[c]
        BY <1>i, <2>3, UserAsks DEF PagesInv
      <3> QED BY <1>0, <1>9, <2>1, <3>1, <3>2 DEF Browser
    <2> QED BY <2>2, <2>3
  <1> QED BY <1>1, <1>2, <1>3, <1>4, <1>5, <1>6, <1>7, <1>8, <1>9 DEF SystemNext

-----------------------------------------------------------------------------
(* The steps that change who is where.                                      *)

LEMMA BindSteps ==
  ASSUME AllInv, [SystemNext]_sysVars, up'
  PROVE  \/ UNCHANGED <<cstate, m_connections, sessionid>>
         \/ \E d \in Conn : (on_open(d) /\ onopen(d)) \/ PeerCloses(d)
         \/ CloseSession \/ LoginSession \/ LogoutSession \/ Start
  <1>0. PInv /\ SysInv /\ ~Die
    BY DEF AllInv, SInv, DInv, Die
  <1>s. Still => UNCHANGED <<cstate, m_connections, sessionid>>
    BY DEF Still
  <1>1. CASE UNCHANGED sysVars
    BY <1>1 DEF sysVars, vars, procVars, dbVars, userVars
  <1>2. CASE Kill /\ SocketsEnd
    BY <1>0, <1>2 DEF Kill
  <1>3. CASE Handle
    <2>1. HandlerStep
      BY <1>3, HandleSteps
    <2> QED BY <1>0, <1>s, <2>1, StillSteps DEF HandlerStep, SessionStep
  <1>4. ASSUME NEW d \in Conn, on_close(d) PROVE UNCHANGED <<cstate, m_connections, sessionid>>
    BY <1>0, <1>4 DEF on_close, setOnline, procVars
  <1>5. ASSUME NEW d \in Conn, Serve(d) PROVE UNCHANGED <<cstate, m_connections, sessionid>>
    <2>1. Request(d)
      BY <1>0, <1>5, ServeReads
    <2>2. \A u \in User : Login(d, u) => UNCHANGED <<cstate, m_connections, sessionid>>
      BY DEF Login, setOnline, procVars
    <2>3. Logout(d) => UNCHANGED <<cstate, m_connections, sessionid>>
      BY DEF Logout, setOnline, procVars
    <2> QED BY <1>0, <1>s, <2>1, <2>2, <2>3, StillRequests DEF Request
  <1>6. ASSUME NEW d \in Conn, Browser(d) PROVE UNCHANGED <<cstate, m_connections, sessionid>>
    BY <1>6 DEF Browser, vars, procVars, dbVars, userVars
  <1> QED BY <1>1, <1>2, <1>3, <1>4, <1>5, <1>6 DEF SystemNext

LEMMA LiveNext ==
  ASSUME AllInv, [SystemNext]_sysVars, up', NEW c \in Conn, Live(c)', ~Live(c)
  PROVE  on_open(c) /\ onopen(c)
  <1>0. cstate \in [Conn -> {"absent", "open", "closing"}]
    BY PTypes DEF AllInv, SInv, DInv, PInv
  <1>1. ASSUME NEW d \in Conn, PeerCloses(d) PROVE FALSE
    BY <1>0, <1>1 DEF PeerCloses, Receives, Live
  <1>2. ASSUME NEW d \in Conn, on_open(d) PROVE c = d
    BY <1>0, <1>2 DEF on_open, Live
  <1>3. CloseSession => FALSE
    BY <1>0 DEF CloseSession, Live
  <1>4. LoginSession \/ LogoutSession \/ Start => UNCHANGED cstate
    BY DEF LoginSession, LogoutSession, Start, procVars
  <1> QED BY <1>1, <1>2, <1>3, <1>4, BindSteps DEF Live

LEMMA BoundNext ==
  ASSUME AllInv, [SystemNext]_sysVars, up', NEW c \in Conn, NEW u \in User,
         Bound(u, c)', ~Bound(u, c)
  PROVE  LoginSession /\ task.hdl = c
  <1>0. /\ cstate \in [Conn -> {"absent", "open", "closing"}]
        /\ m_connections \in [Conn -> Nat] /\ sessionid \in [User -> Int]
        /\ m_next_sessionid \in Nat /\ task \in Task
        /\ AuthInv
    BY PTypes DEF AllInv, SInv, DInv, PInv
  <1>1. UNCHANGED <<cstate, m_connections, sessionid>> => FALSE
    BY DEF Bound, Live, Session
  <1>2. ASSUME NEW d \in Conn, on_open(d) PROVE FALSE
    <2>1. sessionid'[u] < m_next_sessionid
      BY <1>0, <1>2 DEF AuthInv, FreshIds, on_open, dbVars, userVars
    <2>2. CASE c = d
      <3>1. m_connections'[c] = m_next_sessionid
        BY <1>0, <1>2, <2>2 DEF on_open
      <3> QED BY <1>0, <1>2, <2>1, <3>1 DEF Bound, Session, on_open, dbVars, userVars
    <2>3. CASE c # d
      BY <1>0, <1>2, <2>3 DEF on_open, dbVars, userVars, Bound, Live, Session
    <2> QED BY <2>2, <2>3
  <1>3. ASSUME NEW d \in Conn, PeerCloses(d) PROVE FALSE
    BY <1>0, <1>3 DEF PeerCloses, Receives, dbVars, userVars, Bound, Live, Session
  <1>4. CloseSession => FALSE
    <2> SUFFICES ASSUME CloseSession PROVE FALSE
      OBVIOUS
    <2>1. task.hdl \in Conn
      BY <1>0 DEF CloseSession, AuthInv, TInv, HasHandle
    <2>2. sessionid'[u] = sessionid[u] \/ sessionid'[u] = NoSession
      BY <1>0 DEF CloseSession, setSessionID
    <2>3. c # task.hdl /\ cstate'[c] = cstate[c] /\ m_connections'[c] = m_connections[c]
      BY <1>0, <2>1 DEF CloseSession, Bound, Live
    <2> QED BY <1>0, <2>2, <2>3 DEF Bound, Live, Session, NoSession
  <1>5. LogoutSession => FALSE
    <2> SUFFICES ASSUME LogoutSession PROVE FALSE
      OBVIOUS
    <2>1. sessionid'[u] = sessionid[u] \/ sessionid'[u] = NoSession
      BY <1>0 DEF LogoutSession, setSessionID
    <2> QED BY <1>0, <2>1 DEF LogoutSession, procVars, Bound, Live, Session, NoSession
  <1>6. Start => FALSE
    BY <1>0 DEF Start, AuthInv, DownIsEmpty, Bound, Live
  <1>7. LoginSession => task.hdl = c
    <2> SUFFICES ASSUME LoginSession PROVE task.hdl = c
      OBVIOUS
    <2>1. task.hdl \in Conn /\ Live(task.hdl)
      BY <1>0 DEF LoginSession, AuthInv, TInv, HasHandle, TaskConnected
    <2>2. sessionid'[u] = sessionid[u] \/ sessionid'[u] = Session(task.hdl)
      BY <1>0 DEF LoginSession, setSessionID
    <2>3. Session(c)' = Session(c) /\ (Live(c)' <=> Live(c))
      BY DEF LoginSession, procVars, Session, Live
    <2> QED BY <1>0, <2>1, <2>2, <2>3 DEF Bound, AuthInv, SessionsDistinct
  <1> QED BY <1>1, <1>2, <1>3, <1>4, <1>5, <1>6, <1>7, BindSteps

-----------------------------------------------------------------------------
(* A page that has not been told of a login shows no chat, and nobody is    *)
(* where it is but who is logging in there.                                 *)

Logins == {m \in Msg : m.kind = "login"}

\* A page in use that shows the login form and will not leave it by what is on
\* its wire.
Fresh(c) == Live(c) /\ tab[c].page = "login" /\ Never(wire[c], Logins)

Blank == {t \in Page : t.chats = <<>>}

FreshInv ==
  \A c \in Conn : Fresh(c) => (\A u \in User : Bound(u, c) => Logging(c)) /\ Shows(c, Blank)

LEMMA SameAdds ==
  ASSUME PagesInv, NEW c \in Conn, tab'[c] = tab[c], wire'[c] = wire[c]
  PROVE  \E w \in Seq(Msg) : Adds(c, w)
  <1>1. wire[c] \in Seq(Msg) /\ <<>> \in Seq(Msg)
    BY EmptySeq DEF PagesInv
  <1>2. Adds(c, <<>>)
    BY <1>1, ConcatEmptySeq DEF Adds, On
  <1> QED BY <1>1, <1>2

\* What a step does to a page and its wire.
LEMMA WireSteps ==
  ASSUME AllInv, Patient, [SystemNext]_sysVars, NEW c \in Conn, On(c)', Live(c)
  PROVE  \/ \E w \in Seq(Msg) : Adds(c, w)
         \/ onmessage(c)
         \/ UserStep(c)
  <1>i. SysInv /\ PagesInv /\ tab \in [Conn -> Page] /\ wire \in [Conn -> Seq(Msg)]
    BY DEF AllInv, SysInv, PagesInv
  <1>1. CASE UNCHANGED <<tab, wire>>
    BY <1>i, <1>1, SameAdds
  <1>2. CASE Kill /\ SocketsEnd
    BY <1>2, EndAdds
  <1>3. CASE Handle
    <2>1. task.at = "logout.notify" => Notify(task.uid, FALSE) \in Msg
      BY <1>i, Spoken DEF SysInv, Named, ByUser
    <2>2. Sends(Msg)
      BY <1>i, <1>3, <2>1, HandleSends DEF Glad
    <2> QED BY <2>2, SendsAdds
  <1>4. ASSUME NEW d \in Conn, on_open(d), onopen(d) PROVE \E w \in Seq(Msg) : Adds(c, w)
    <2>1. c # d
      BY <1>4 DEF on_open, Live
    <2>2. tab'[c] = tab[c] /\ wire'[c] = wire[c]
      BY <1>i, <1>4, <2>1 DEF onopen
    <2> QED BY <1>i, <2>2, SameAdds
  <1>5. ASSUME NEW d \in Conn, Post(None) PROVE \E w \in Seq(Msg) : Adds(c, w)
    BY <1>5, NoneType, PostSends, SendsAdds
  <1>6. ASSUME NEW d \in Conn, Serve(d) PROVE \E w \in Seq(Msg) : Adds(c, w)
    <2>1. Sends(Glad)
      BY <1>i, <1>6, ServeSteps
    <2>2. Sends(Msg)
      BY <2>1, SendsMore DEF Glad
    <2> QED BY <2>2, SendsAdds
  <1>7. ASSUME NEW d \in Conn, Browser(d)
        PROVE  (\E w \in Seq(Msg) : Adds(c, w)) \/ onmessage(c) \/ UserStep(c)
    <2>1. CASE c = d
      <3>1. CloseTab(c) => ~On(c)'
        BY <1>i DEF CloseTab, NoTab, On
      <3> QED BY <1>7, <2>1, <3>1 DEF Browser
    <2>2. CASE c # d
      <3>1. onmessage(d) \/ CloseTab(d) => tab'[c] = tab[c] /\ wire'[c] = wire[c]
        BY <1>i, <2>2 DEF onmessage, CloseTab
      <3>2. UserStep(d) => tab'[c] = tab[c] /\ wire'[c] = wire[c]
        BY <1>i, <2>2, UserAsks
      <3> QED BY <1>i, <1>7, <3>1, <3>2, SameAdds DEF Browser
    <2> QED BY <2>1, <2>2
  <1> QED BY <1>1, <1>2, <1>3, <1>4, <1>5, <1>6, <1>7 DEF SystemNext, sysVars

LEMMA FreshBack ==
  ASSUME AllInv, Patient, [SystemNext]_sysVars, NEW c \in Conn, Fresh(c)', Live(c) PROVE Fresh(c)
  <1>i. /\ wire[c] \in Seq(Msg) /\ tab[c] \in Page
        /\ tab \in [Conn -> Page] /\ wire \in [Conn -> Seq(Msg)]
    BY DEF AllInv, SysInv, PagesInv
  <1>0. On(c)' /\ tab'[c].page = "login" /\ Never(wire'[c], Logins)
    BY DEF Fresh, On, Never, Logins
  <1>1. ASSUME NEW w \in Seq(Msg), Adds(c, w) PROVE Fresh(c)
    <2>1. tab[c].page = "login" /\ Never(wire[c] \o w, Logins)
      BY <1>0, <1>1 DEF Adds
    <2>2. \A i \in DOMAIN wire[c] : i \in DOMAIN (wire[c] \o w) /\ (wire[c] \o w)[i] = wire[c][i]
      BY <1>i, SeqAppended
    <2>3. Never(wire[c], Logins)
      BY <2>1, <2>2 DEF Never
    <2> QED BY <2>1, <2>3 DEF Fresh
  <1>2. ASSUME onmessage(c) PROVE Fresh(c)
    <2> DEFINE m == Head(wire[c])
    <2>1. m \in Msg /\ wire[c] # <<>> /\ tab'[c] = processMessage(tab[c], m)
      BY <1>i, <1>2, HeadTailProperties DEF onmessage
    <2>2. m.kind # "logout" /\ m.kind # "login"
      BY <1>0, <1>i, <2>1 DEF processMessage, NoTab, Page, Tab
    <2>3. processMessage(tab[c], m).page = tab[c].page
      BY <1>i, <2>1, <2>2
      DEF processMessage, addMessageToChat, notifyOnline, deleteRequest, Page, Tab, Msg
    <2>4. Never(Tail(wire[c]), Logins)
      BY <1>0, <1>2, <1>i, <2>2 DEF onmessage
    <2>5. \A i \in DOMAIN wire[c] : i = 1 \/ (i - 1 \in DOMAIN Tail(wire[c])
                                            /\ Tail(wire[c])[i - 1] = wire[c][i])
      <3>1. /\ Len(Tail(wire[c])) \in Nat
            /\ DOMAIN wire[c] = 1..(Len(Tail(wire[c])) + 1)
            /\ DOMAIN Tail(wire[c]) = 1..Len(Tail(wire[c]))
            /\ \A i \in 1..Len(Tail(wire[c])) : Tail(wire[c])[i] = wire[c][i + 1]
        BY <1>i, <2>1, HeadTailProperties
      <3> QED BY <3>1
    <2>6. wire[c][1] \notin Logins
      BY <1>i, <2>1, <2>2, HeadTailProperties DEF Logins
    <2>7. Never(wire[c], Logins)
      BY <2>4, <2>5, <2>6 DEF Never
    <2> QED BY <1>0, <2>1, <2>3, <2>7 DEF Fresh
  <1>3. ASSUME UserStep(c) PROVE Fresh(c)
    <2>1. UNCHANGED wire
      BY <1>3, UserAsks
    <2>2. tab'[c] = tab[c] \/ tab'[c] = [tab[c] EXCEPT !.waiting = TRUE]
      BY <1>3, <1>i, UserAsks
    <2>3. tab'[c].page = tab[c].page
      BY <1>i, <2>2 DEF Page, Tab
    <2> QED BY <1>0, <2>1, <2>3 DEF Fresh
  <1> QED BY <1>0, <1>1, <1>2, <1>3, WireSteps

\* What the three steps that send chats put on the wires.
LEMMA LoginListsAdds ==
  ASSUME AllInv, LoginListsSent, up'
  PROVE  /\ task.at = "login.lists" /\ task.hdl \in Conn
         /\ \E w \in Seq(Mute) : /\ 1 \in DOMAIN w /\ w[1] \in Logins
                                 /\ \A c \in Conn : Adds(c, Mine(c, w))
  <1>0. PagesInv /\ SysInv
    BY DEF AllInv, SysInv
  <1>1. task.at = "login.lists" /\ task.hdl \in Conn /\ task \in Task /\ "template" \notin Faults
    BY <1>0, STypes, SystemAssumption DEF LoginListsSent, LoginLists
  <1>2. task'.at = "login.notify"
    BY <1>1 DEF LoginListsSent, LoginLists, Task
  <1> DEFINE a == Plain("login")
             b == sendFriendlist(Caller(task.hdl))
             d == Requests(Rows(getFriendRequests(Caller(task.hdl))))
             w == <<a, b, d>>
  <1>3. a \in Mute /\ b \in Mute /\ d \in Mute /\ a \in Logins
    BY <1>0, Spoken, FriendRows DEF Glad, Mute, Logins, Plain, sendFriendlist, Requests
  <1>4. Post(To(task.hdl, w))
    BY <1>2 DEF LoginListsSent
  <1> HIDE DEF a, b, d
  <1>5. w \in Seq(Mute) /\ DOMAIN w = 1..3 /\ w[1] = a
    BY <1>3
  <1> HIDE DEF w
  <1>6. w \in Seq(Msg)
    BY <1>5, SeqMonotonic DEF Mute
  <1>7. \A c \in Conn : Adds(c, Mine(c, w))
    BY <1>0, <1>1, <1>4, <1>6, PostAdds
  <1> QED BY <1>1, <1>3, <1>5, <1>7

LEMMA LoginChatsAdds ==
  ASSUME AllInv, LoginChatsSent, up', NEW m,
         m = [kind |-> "chatlist", values |-> ChatsOf(Caller(task.hdl))]
  PROVE  /\ task.at = "login.notify" /\ task'.at = "return" /\ UNCHANGED dbVars
         /\ m \in Msg /\ task.uid \in User /\ Bound(task.uid, task.hdl) /\ task.hdl \in Conn
         /\ \A c \in Conn : Adds(c, Mine(c, <<m>>))
  <1>0. PagesInv /\ SysInv /\ DInv /\ TInv
    BY DEF AllInv, SysInv, SInv
  <1>1. LoginChats /\ Post(To(task.hdl, <<m>>))
    BY DEF LoginChatsSent
  <1>2. task.at = "login.notify" /\ task'.at = "return" /\ UNCHANGED dbVars
    BY <1>0, <1>1, NextLabels DEF LoginChats
  <1>3. task.uid \in User /\ Bound(task.uid, task.hdl) /\ task.hdl \in Conn
    BY <1>0, <1>2, STypes DEF DInv, HandedInv, CallerStays
  <1>4. m \in Msg
    BY <1>0, ChatRows DEF Msg
  <1>5. <<m>> \in Seq(Msg)
    BY <1>4
  <1>6. \A c \in Conn : Adds(c, Mine(c, <<m>>))
    BY <1>0, <1>1, <1>3, <1>5, PostAdds
  <1> QED BY <1>2, <1>3, <1>4, <1>6

LEMMA AcceptPushAdds ==
  ASSUME AllInv, PushInv, AcceptPushSent, up', NEW x, x = NewChat(task.cid),
         NEW s, s = <<NewFriend(task.uid), x>>, NEW own, own = <<NewFriend(task.fid), x>>,
         NEW c \in Conn
  PROVE  /\ AcceptPush /\ task.at = "accept.push"
         /\ task.uid \in User /\ task.fid \in User /\ task.hdl \in Conn
         /\ Bound(task.uid, task.hdl)
         /\ x \in Msg /\ NewFriend(task.uid) \in Mute /\ NewFriend(task.fid) \in Mute
         /\ \/ Bound(task.fid, c) /\ online[task.fid] /\ Adds(c, s \o Mine(c, own))
            \/ (Listening(c, task.fid) => Leaving(c)) /\ Adds(c, Mine(c, own))
  <1>0. SysInv /\ PInv /\ TInv /\ PagesInv
    BY DEF AllInv, SysInv, SInv, DInv
  <1>1. AcceptPush /\ task.at = "accept.push"
    BY DEF AcceptPushSent, AcceptPush
  <1>2. /\ task.uid \in User /\ task.fid \in User /\ task.hdl \in Conn
        /\ task.cid \in 1..MaxChats /\ up
    BY <1>0, <1>1, STypes
    DEF SysInv, Named, ByUser, InChats, PInv, AuthInv, DownIsEmpty
  <1>3. Bound(task.uid, task.hdl)
    BY <1>1, <1>2, DatabaseAssumption DEF PushInv, AccepterStays, AcceptLabels
  <1>4. x \in Msg /\ NewFriend(task.uid) \in Mute /\ NewFriend(task.fid) \in Mute
    BY <1>0, <1>2, Spoken DEF Glad, Mute, NewFriend, NewChat
  <1>5. s \in Seq(Msg) /\ own \in Seq(Msg)
    BY <1>4 DEF Mute
  <1>6. PushIfOnline(task.fid, s, own)
    BY DEF AcceptPushSent
  <1>7. \/ Bound(task.fid, c) /\ online[task.fid] /\ Adds(c, s \o Mine(c, own))
        \/ (Listening(c, task.fid) => Leaving(c)) /\ Adds(c, Mine(c, own))
    BY <1>1, <1>2, <1>5, <1>6, PushAdds
  <1> QED BY <1>1, <1>2, <1>3, <1>4, <1>7

\* What leaves a page that shows no chat without any.
Unlisting == {m \in Msg : m.kind \notin {"chatlist", "newchat"}}

LEMMA BlankStay == ASSUME NEW p \in Blank, NEW m \in Unlisting PROVE After(p, m) \in Blank
  <1>0. p \in Page /\ m \in Msg /\ p.chats = <<>> /\ m.kind \notin {"chatlist", "newchat"}
    BY DEF Blank, Unlisting
  <1>1. After(p, m) \in Page
    BY <1>0, AfterPage
  <1>2. CASE m.kind = "newMessage"
    <2>1. After(p, m).chats = <<>>
      BY <1>0, <1>2 DEF After, processMessage, addMessageToChat, Page, Tab
    <2> QED BY <1>1, <2>1 DEF Blank
  <1>3. CASE m.kind # "newMessage"
    BY <1>0, <1>1, <1>3, MuteKeeps DEF Blank, Mute
  <1> QED BY <1>2, <1>3

\* A page nobody is at is sent no chat.
LEMMA LonelyOnward ==
  ASSUME AllInv, PushInv, [SystemNext]_sysVars, up', NEW c \in Conn,
         \A u \in User : Bound(u, c) => Logging(c)
  PROVE  Onward(c, Unlisting)
  <1>0. /\ SysInv /\ PagesInv
        /\ Unlisting \subseteq Msg /\ Mute \subseteq Unlisting /\ Message \in Unlisting
    BY Spoken DEF AllInv, SysInv, Unlisting, Mute, Message, Glad
  <1>1. ASSUME Adds(c, <<>>) PROVE Onward(c, Unlisting)
    <2>1. <<>> \in Seq(Unlisting)
      BY EmptySeq
    <2> QED BY <1>0, <1>1, <2>1, AddsOnward
  <1>2. CASE AcceptPushSent
    <2> DEFINE x == NewChat(task.cid)
               s == <<NewFriend(task.uid), x>>
               own == <<NewFriend(task.fid), x>>
    <2>1. /\ task.at = "accept.push" /\ task.uid \in User /\ task.fid \in User
          /\ Bound(task.uid, task.hdl)
          /\ \/ Bound(task.fid, c)
             \/ Adds(c, Mine(c, own))
      BY <1>2, AcceptPushAdds
    <2>2. ~Logging(c)
      BY <2>1 DEF Logging
    <2>3. c # task.hdl /\ ~Bound(task.fid, c)
      BY <2>1, <2>2
    <2>4. Mine(c, own) = <<>>
      BY <2>3 DEF Mine
    <2> QED BY <1>1, <2>1, <2>3, <2>4
  <1>3. CASE LoginChatsSent
    <2> DEFINE m == [kind |-> "chatlist", values |-> ChatsOf(Caller(task.hdl))]
    <2>1. /\ task.at = "login.notify" /\ task.uid \in User /\ Bound(task.uid, task.hdl)
          /\ Adds(c, Mine(c, <<m>>))
      BY <1>3, LoginChatsAdds
    <2>2. ~Logging(c)
      BY <2>1 DEF Logging
    <2>3. Mine(c, <<m>>) = <<>>
      BY <2>1, <2>2 DEF Mine
    <2> QED BY <1>1, <2>1, <2>3
  <1>4. CASE ~AcceptPushSent /\ ~LoginChatsSent
    BY <1>0, <1>4, HushOnward
  <1> QED BY <1>2, <1>3, <1>4

LEMMA OpenedFresh ==
  ASSUME AllInv, [SystemNext]_sysVars, up', NEW c \in Conn, ~Live(c), Live(c)'
  PROVE  (\A u \in User : ~Bound(u, c)') /\ Shows(c, Blank)'
  <1>0. on_open(c) /\ onopen(c)
    BY LiveNext
  <1>1. \A u \in User : ~Bound(u, c)'
    <2>1. ~LoginSession
      BY <1>0 DEF on_open, LoginSession
    <2> QED BY <2>1, BoundNext DEF Bound
  <1>2. tab \in [Conn -> Page] /\ wire \in [Conn -> Seq(Msg)]
    BY DEF AllInv, SysInv, PagesInv
  <1>3. tab'[c] = [NoTab EXCEPT !.page = "login", !.websocketOk = TRUE] /\ wire'[c] = <<>>
    BY <1>0, <1>2 DEF onopen
  <1> DEFINE p == Unasked(tab'[c])
  <1>4. p \in Page /\ p.chats = <<>>
    <2>1. NoTab \in Page /\ NoTab.chats = <<>>
      BY NoPage DEF NoTab
    <2>2. tab'[c] \in Page /\ tab'[c].chats = <<>>
      BY <1>3, <2>1 DEF Page, Tab
    <2> QED BY <2>2 DEF Unasked, Page, Tab
  <1>5. ASSUME NEW t, Coming(c, t)' PROVE t \in Blank
    <2>1. Leads(p, <<>>, t)
      BY <1>3, <1>5 DEF Coming, Unasked, Leads
    <2> HIDE DEF p
    <2>2. t = p
      BY <1>4, <2>1, LeadsNone
    <2> QED BY <1>4, <2>2 DEF Blank
  <1>6. Shows(c, Blank)'
    BY <1>5 DEF Shows, Blank
  <1> QED BY <1>1, <1>6

LEMMA FreshNext ==
  ASSUME AllInv, AllInv', PushInv, FreshInv, Patient, [SystemNext]_sysVars,
         NEW c \in Conn, Fresh(c)'
  PROVE  (\A u \in User : Bound(u, c)' => Logging(c)') /\ Shows(c, Blank)'
  <1>0. up' /\ On(c)' /\ Live(c)'
    BY DEF Fresh, On, AllInv, SInv, DInv, PInv, AuthInv, DownIsEmpty
  <1>1. CASE ~Live(c)
    BY <1>0, <1>1, OpenedFresh
  <1>2. CASE Live(c)
    <2>1. Fresh(c)
      BY <1>2, FreshBack
    <2>2. (\A u \in User : Bound(u, c) => Logging(c)) /\ Shows(c, Blank)
      BY <2>1 DEF FreshInv
    <2>3. Shows(c, Blank)'
      <3>1. Onward(c, Unlisting)
        BY <1>0, <2>2, LonelyOnward
      <3>2. Unlisting \subseteq Msg /\ \A p \in Blank : \A m \in Unlisting : After(p, m) \in Blank
        BY BlankStay DEF Unlisting
      <3> QED BY <1>0, <1>2, <2>2, <3>1, <3>2, ShowsStay
    <2>4. ASSUME NEW u \in User, Bound(u, c)', ~Bound(u, c) PROVE Logging(c)'
      <3>1. LoginSession /\ task.hdl = c /\ task \in Task
        BY <1>0, <2>4, BoundNext, STypes DEF AllInv
      <3> QED BY <3>1 DEF LoginSession, Goto, Logging, Task
    <2>5. ASSUME NEW u \in User, Bound(u, c) PROVE Logging(c)'
      <3>1. Logging(c)
        BY <2>2, <2>5
      <3>2. CASE UNCHANGED sysVars
        BY <3>1, <3>2 DEF sysVars, vars, Logging
      <3>3. CASE SystemNext
        <4>1. Handle
          BY <1>0, <3>1, <3>3, Busy DEF Logging
        <4>2. LoginListsSent => FALSE
          <5> SUFFICES ASSUME LoginListsSent PROVE FALSE
            OBVIOUS
          <5>1. PICK w \in Seq(Mute) : 1 \in DOMAIN w /\ w[1] \in Logins /\ Adds(c, Mine(c, w))
            BY <1>0, LoginListsAdds
          <5>2. wire'[c] = wire[c] \o w /\ wire[c] \in Seq(Msg) /\ w \in Seq(Msg)
            BY <1>0, <3>1, <5>1, SeqMonotonic
               DEF Adds, Mine, Logging, Mute, AllInv, SysInv, PagesInv
          <5>3. /\ Len(wire[c]) + 1 \in DOMAIN (wire[c] \o w)
                /\ (wire[c] \o w)[Len(wire[c]) + 1] = w[1]
            BY <5>1, <5>2, SeqAppended
          <5>4. Never(wire'[c], Logins)
            BY DEF Fresh, Never, Logins
          <5> QED BY <5>1, <5>2, <5>3, <5>4 DEF Never
        <4> QED BY <1>0, <3>1, <4>1, <4>2, HandleLogging
      <3> QED BY <3>2, <3>3
    <2> QED BY <2>3, <2>4, <2>5
  <1> QED BY <1>1, <1>2

LEMMA FreshKept ==
  ASSUME AllInv, AllInv', PushInv, FreshInv, Patient, [SystemNext]_sysVars PROVE FreshInv'
  BY FreshNext DEF FreshInv

-----------------------------------------------------------------------------
(* What a page shows when the chat list is about to be sent to it: no chat. *)

\* Nothing that comes before the chat list gives the page a chat.
AtLogin == \A c \in Conn, u \in User : Greeting(c, u) => Shows(c, Blank)

LEMMA AtLoginNext ==
  ASSUME AllInv, AllInv', FreshInv, OneLogin, AtLogin, [SystemNext]_sysVars, [Next]_vars
  PROVE  AtLogin'
  <1> SUFFICES ASSUME NEW c \in Conn, NEW u \in User, Greeting(c, u)' PROVE Shows(c, Blank)'
    BY DEF AtLogin, Blank
  <1>0. SysInv /\ TInv
    BY DEF AllInv, SysInv
  <1>1. /\ c = task.hdl /\ Bound(u, c) /\ Live(c) /\ On(c)
        /\ \/ LoginListsSent
           \/ Greeting(c, u)
    BY GreetingNext
  <1>a. On(c)' /\ task'.at = "login.notify"
    BY DEF Greeting
  <1>2. task.at \in {"login.lists", "login.notify"}
    BY <1>1 DEF LoginListsSent, LoginLists, Greeting
  <1>3. ~AcceptPushSent /\ ~MsgEchoSent /\ ~MsgDirectSent
    BY <1>2 DEF AcceptPushSent, AcceptPush, MsgEchoSent, MsgEcho, MsgDirectSent, MsgDirect
  <1>4. ~LoginChatsSent
    BY <1>0, <1>a, NextLabels DEF LoginChatsSent, LoginChats
  <1>5. Onward(c, Mute)
    BY <1>0, <1>3, <1>4, HushOnward DEF Mute
  <1>6. Shows(c, Blank)
    <2>1. CASE Greeting(c, u)
      BY <2>1 DEF AtLogin
    <2>2. CASE LoginListsSent
      <3>1. Logging(c)
        BY <1>1, <2>2 DEF Logging, LoginListsSent, LoginLists
      <3>2. tab[c].page = "login" /\ Never(wire[c], Answers)
        BY <1>1, <3>1 DEF OneLogin, Settled, Unsettled
      <3>3. Fresh(c)
        BY <1>1, <3>2 DEF Fresh, Never, Answers, Logins
      <3> QED BY <3>3 DEF FreshInv
    <2> QED BY <1>1, <2>1, <2>2
  <1>7. Mute \subseteq Msg /\ \A p \in Blank : \A m \in Mute : After(p, m) \in Blank
    BY BlankStay DEF Mute, Unlisting
  <1> QED BY <1>1, <1>a, <1>5, <1>6, <1>7, ShowsStay

-----------------------------------------------------------------------------
(* The chats: what is coming to a page fits what its user was told.         *)

\* Whatever the page shows on working off its wire, it fits.
Fitting(c, u) == \A t : Coming(c, t) => Fits(t.chats, u)

ChatsComing == \A c \in Conn, u \in User : Looking(c, u) => Fitting(c, u)

\* Nothing is sent about chats, and there is nothing to tell.
LEMMA HushFits ==
  ASSUME NEW c \in Conn, NEW u, Fitting(c, u), SameNews(u), Onward(c, Mute), On(c)', Live(c)
  PROVE  Fitting(c, u)'
  <1> SUFFICES ASSUME NEW t, Coming(c, t)' PROVE Fits(t.chats, u)'
    BY DEF Fitting
  <1>1. PICK q : \E w \in Seq(Mute) : Coming(c, q) /\ Leads(q, w, t)
    BY DEF Onward
  <1>2. PICK w \in Seq(Mute) : Leads(q, w, t)
    BY <1>1
  <1> DEFINE P == {p \in Page : p.chats = q.chats}
  <1>3. w \in Seq(Msg)
    BY SeqMonotonic DEF Mute
  <1>4. q \in P
    <2>1. q \in Page
      BY <1>2 DEF Leads
    <2> QED BY <2>1
  <1>5. \A p \in P : \A i \in 1..Len(w) : After(p, w[i]) \in P
    <2> SUFFICES ASSUME NEW p \in P, NEW i \in 1..Len(w) PROVE After(p, w[i]) \in P
      OBVIOUS
    <2>1. w[i] \in Mute
      BY ElementOfSeq
    <2>2. p \in Page /\ p.chats = q.chats
      OBVIOUS
    <2>3. After(p, w[i]) \in Page
      BY <2>1, <2>2, AfterPage DEF Mute
    <2>4. After(p, w[i]).chats = p.chats
      BY <2>1, <2>2, MuteKeeps
    <2> QED BY <2>2, <2>3, <2>4
  <1> HIDE DEF P
  <1>6. t \in P
    BY <1>2, <1>3, <1>4, <1>5, LeadsStay
  <1>7. t.chats = q.chats
    BY <1>6 DEF P
  <1>8. Fits(q.chats, u)
    BY <1>1 DEF Fitting
  <1>9. PICK x : x = q.chats
    OBVIOUS
  <1>10. Fits(x, u)'
    BY <1>8, <1>9, FitsSame
  <1> QED BY <1>7, <1>9, <1>10

LEMMA NothingFits ==
  ASSUME PagesInv, NEW c \in Conn, NEW u, Fitting(c, u), SameNews(u), Adds(c, <<>>), On(c)', Live(c)
  PROVE  Fitting(c, u)'
  <1>1. <<>> \in Seq(Mute) /\ Mute \subseteq Msg
    BY EmptySeq DEF Mute
  <1>2. Onward(c, Mute)
    BY <1>1, AddsOnward
  <1> QED BY <1>2, HushFits

\* What two messages lead to.
LEMMA LeadsTwo ==
  ASSUME NEW p \in Page, NEW a \in Msg, NEW b \in Msg, NEW t, Leads(p, <<a, b>>, t)
  PROVE  t = After(After(p, a), b)
  <1> DEFINE w == <<a, b>>
  <1>1. Len(w) = 2 /\ w[1] = a /\ w[2] = b
    OBVIOUS
  <1> HIDE DEF w
  <1>2. PICK g \in [0..Len(w) -> Page] :
          g[0] = p /\ g[Len(w)] = t /\ \A i \in 1..Len(w) : g[i] = After(g[i - 1], w[i])
    BY DEF Leads, w
  <1>3. 1 \in 1..2 /\ 2 \in 1..2 /\ 1 - 1 = 0 /\ 2 - 1 = 1
    OBVIOUS
  <1>4. g[1] = After(g[0], w[1]) /\ g[2] = After(g[1], w[2])
    BY <1>1, <1>2, <1>3
  <1> QED BY <1>1, <1>2, <1>4

\* What a step adds is what the page still has to process.
LEMMA AddsLeads ==
  ASSUME PagesInv, NEW c \in Conn, NEW u, Fitting(c, u), NEW w \in Seq(Msg), Adds(c, w), On(c)',
         NEW t, Coming(c, t)'
  PROVE  \E q \in Page : Coming(c, q) /\ Leads(q, w, t) /\ Fits(q.chats, u)
  <1>1. Sent(c, w)
    BY AddsSent
  <1>2. PICK q : Coming(c, q) /\ Leads(q, w, t)
    BY <1>1 DEF Sent
  <1>3. q \in Page
    BY <1>2, ComingType
  <1> QED BY <1>2, <1>3 DEF Fitting

\* To a page whose user is told nothing, nothing is sent about chats.
LEMMA UntoldFits ==
  ASSUME AllInv, PushInv, NewsInv, [SystemNext]_sysVars, [Next]_vars, up',
         NEW c \in Conn, NEW u \in User,
         Listening(c, u), On(c)', UNCHANGED vars \/ ~Tells(u), ~(LoginChatsSent /\ task.hdl = c),
         Fitting(c, u)
  PROVE  Fitting(c, u)'
  <1>0. SysInv /\ PagesInv /\ PInv /\ DInv /\ Bound(u, c) /\ Live(c) /\ up
    BY DEF AllInv, SysInv, SInv, DInv, Listening, Bound
  <1>1. SameNews(u)
    BY SameNewsNext
  <1>2. Adds(c, <<>>) => Fitting(c, u)'
    BY <1>0, <1>1, NothingFits
  <1>3. CASE AcceptPushSent
    <2> DEFINE x == NewChat(task.cid)
               s == <<NewFriend(task.uid), x>>
               own == <<NewFriend(task.fid), x>>
    <2>1. /\ AcceptPush /\ task.at = "accept.push" /\ task.uid \in User /\ task.fid \in User
          /\ task.hdl \in Conn /\ Bound(task.uid, task.hdl)
          /\ Bound(task.fid, c) \/ Adds(c, Mine(c, own))
      BY <1>3, AcceptPushAdds
    <2>2. ~UNCHANGED vars
      BY <2>1, TellSteps DEF vars
    <2>3. u # task.uid /\ u # task.fid
      BY <2>1, <2>2 DEF Tells
    <2>4. c # task.hdl /\ ~Bound(task.fid, c)
      BY <1>0, <2>1, <2>3, AtOnePlace
    <2>5. Mine(c, own) = <<>>
      BY <2>4 DEF Mine
    <2> QED BY <1>2, <2>1, <2>4, <2>5
  <1>4. CASE LoginChatsSent
    <2> DEFINE m == [kind |-> "chatlist", values |-> ChatsOf(Caller(task.hdl))]
    <2>1. Adds(c, Mine(c, <<m>>))
      BY <1>4, LoginChatsAdds
    <2>2. Mine(c, <<m>>) = <<>>
      BY <1>4 DEF Mine
    <2> QED BY <1>2, <2>1, <2>2
  <1>5. CASE MsgEchoSent
    <2> DEFINE w == IF PeerRows = {} THEN <<Message, Plain("error")>> ELSE <<Message>>
    <2>1. MsgEcho /\ task.at = "msg.echo" /\ Post(To(task.hdl, w)) /\ task.hdl \in Conn
      BY <1>0, <1>5, STypes DEF MsgEchoSent, MsgEcho
    <2>2. ~UNCHANGED vars
      BY <2>1, TellSteps DEF vars
    <2>3. u # task.uid
      BY <2>1, <2>2 DEF Tells
    <2>4. task.uid # NoUser
      BY <2>1 DEF MsgEcho, Die
    <2>5. task.uid \in User /\ Bound(task.uid, task.hdl)
      BY <1>0, <2>1, <2>4, STypes DEF DInv, HandedInv, CallerStays, Task, AnyUser
    <2>6. c # task.hdl
      BY <1>0, <2>1, <2>3, <2>5, AtOnePlace
    <2>7. Message \in Msg /\ Plain("error") \in Msg
      BY <1>0, Spoken DEF Glad
    <2>8. w \in Seq(Msg)
      BY <2>7
    <2> HIDE DEF w
    <2>9. Adds(c, Mine(c, w))
      BY <1>0, <2>1, <2>8, PostAdds
    <2>10. Mine(c, w) = <<>>
      BY <2>6 DEF Mine
    <2> QED BY <1>2, <2>9, <2>10
  <1>6. CASE MsgDirectSent
    <2>1. /\ MsgDirect /\ task.at = "msg.direct" /\ task.fid # NoUser
          /\ PushIfOnline(task.fid, <<Message>>, <<>>)
      BY <1>6, TellSteps DEF MsgDirectSent
    <2>2. task.fid \in User /\ task.hdl \in Conn
      BY <1>0, <2>1, STypes DEF Task, AnyUser
    <2>3. ~UNCHANGED vars
      BY <2>1, TellSteps DEF vars
    <2>4. u # task.fid
      BY <2>1, <2>3 DEF Tells
    <2>5. Message \in Msg
      BY <1>0, Spoken DEF Glad
    <2>6. <<Message>> \in Seq(Msg) /\ <<>> \in Seq(Msg)
      BY <2>5, EmptySeq
    <2>7. Bound(task.fid, c) \/ Adds(c, Mine(c, <<>>))
      BY <1>0, <2>1, <2>2, <2>6, PushAdds
    <2>8. ~Bound(task.fid, c)
      BY <1>0, <2>2, <2>4, AtOnePlace
    <2> QED BY <1>2, <2>7, <2>8 DEF Mine
  <1>7. CASE ~AcceptPushSent /\ ~LoginChatsSent /\ ~MsgEchoSent /\ ~MsgDirectSent
    <2>1. Onward(c, Mute)
      BY <1>0, <1>7, HushOnward DEF Mute
    <2> QED BY <1>0, <1>1, <2>1, HushFits
  <1> QED BY <1>3, <1>4, <1>5, <1>6, <1>7

\* The list a login ends with is what is stored.
LEMMA LoginChatsFits ==
  ASSUME AllInv, AtLogin, LoginChatsSent, up', NEW c \in Conn, c = task.hdl, On(c)',
         NEW u \in User, Listening(c, u)'
  PROVE  Fitting(c, u)'
  <1> SUFFICES ASSUME NEW t, Coming(c, t)' PROVE Fits(t.chats, u)'
    BY DEF Fitting
  <1>0. SysInv /\ PagesInv /\ PInv /\ TInv
    BY DEF AllInv, SysInv, SInv, DInv
  <1> DEFINE m == [kind |-> "chatlist", values |-> ChatsOf(Caller(task.hdl))]
  <1>1. /\ task.at = "login.notify" /\ task'.at = "return" /\ UNCHANGED dbVars
        /\ m \in Msg /\ task.uid \in User /\ Bound(task.uid, c)
        /\ Adds(c, Mine(c, <<m>>))
    BY LoginChatsAdds
  <1>2. Bound(u, c)
    <2>1. UNCHANGED <<cstate, m_connections, sessionid>>
      BY <1>1 DEF LoginChatsSent, LoginChats, procVars, dbVars, userVars
    <2> QED BY <2>1 DEF Listening, Bound, Live, Session
  <1>3. u = task.uid /\ Caller(c) = u
    BY <1>0, <1>1, <1>2, AtOnePlace, CallerFound
  <1>4. On(c)
    BY <1>1 DEF Adds
  <1>5. Shows(c, Blank)
    BY <1>1, <1>3, <1>4 DEF AtLogin, Greeting
  <1>6. Sent(c, <<m>>)
    <2>1. <<m>> \in Seq(Msg)
      BY <1>1
    <2>2. Adds(c, <<m>>)
      BY <1>1 DEF Mine
    <2> QED BY <1>0, <2>1, <2>2, AddsSent
  <1>7. PICK q : Coming(c, q) /\ Leads(q, <<m>>, t)
    BY <1>6 DEF Sent
  <1>8. q \in Page /\ q.chats = <<>>
    BY <1>5, <1>7 DEF Shows, Blank
  <1>9. t = After(q, m)
    BY <1>1, <1>7, <1>8, LeadsOne
  <1>10. After(q, m).chats = q.chats \o ChatsOf(u)
    BY <1>3, <1>8 DEF After, processMessage, Page, Tab
  <1>11. ChatsOf(u) \in Seq(ChatEntry)
    BY <1>0, ChatRows
  <1>12. t.chats = ChatsOf(u)
    BY <1>8, <1>9, <1>10, <1>11, ConcatEmptySeq
  <1>13. Fits(ChatsOf(u), u)
    BY <1>0, <1>1, StoredFit DEF AllTold, Delivering
  <1>14. SameNews(u)
    <2>1. NoNews
      BY <1>1 DEF NoNews, Telling, Delivering, dbVars, userVars, chatVars
    <2> QED BY <2>1, NoNewsSame
  <1>15. PICK x : x = ChatsOf(u)
    OBVIOUS
  <1>16. Fits(x, u)'
    BY <1>13, <1>14, <1>15, FitsSame
  <1> QED BY <1>12, <1>15, <1>16

\* A new chat comes after the others, and empty, to both of its members.
LEMMA NewChatFits ==
  ASSUME AllInv, PushInv, NewsInv, AcceptPushSent, up', NEW c \in Conn, NEW u \in User,
         Listening(c, u), u \in {task.uid, task.fid}, On(c)', Fitting(c, u)
  PROVE  Fitting(c, u)'
  <1> SUFFICES ASSUME NEW t, Coming(c, t)' PROVE Fits(t.chats, u)'
    BY DEF Fitting
  <1>0. SysInv /\ PagesInv /\ PInv /\ Bound(u, c)
    BY DEF AllInv, SysInv, SInv, DInv, Listening
  <1> DEFINE x == NewChat(task.cid)
             a == NewFriend(task.uid)
             b == NewFriend(task.fid)
             s == <<a, x>>
             own == <<b, x>>
  <1>1. /\ AcceptPush /\ task.at = "accept.push" /\ task.uid \in User /\ task.fid \in User
        /\ task.hdl \in Conn /\ Bound(task.uid, task.hdl)
        /\ x \in Msg /\ a \in Mute /\ b \in Mute
        /\ \/ Bound(task.fid, c) /\ Adds(c, s \o Mine(c, own))
           \/ (Listening(c, task.fid) => Leaving(c)) /\ Adds(c, Mine(c, own))
    BY AcceptPushAdds
  <1>2. task.uid # task.fid /\ task.cid \in Nat
    BY <1>0, <1>1, STypes DEF NewsInv, Concerned, Task
  <1>3. \E e \in Mute : Adds(c, <<e, x>>)
    <2>1. CASE u = task.fid
      <3>1. c # task.hdl
        BY <1>0, <1>1, <1>2, <2>1, AtOnePlace
      <3>2. Adds(c, s \o <<>>)
        BY <1>1, <2>1, <3>1 DEF Leaving, Mine
      <3>3. s \in Seq(Msg)
        BY <1>1 DEF Mute
      <3> HIDE DEF s
      <3>4. s \o <<>> = s
        BY <3>3, ConcatEmptySeq
      <3> QED BY <1>1, <3>2, <3>4 DEF s
    <2>2. CASE u = task.uid
      <3>1. c = task.hdl /\ ~Bound(task.fid, c)
        BY <1>0, <1>1, <1>2, <2>2, AtOnePlace
      <3> QED BY <1>1, <3>1 DEF Mine
    <2> QED BY <2>1, <2>2
  <1>4. PICK k : k = task.cid
    OBVIOUS
  <1>5. x = [kind |-> "newchat", values |-> <<[id |-> k, messages |-> <<>>]>>]
    BY <1>4 DEF NewChat
  <1> HIDE DEF x, a, b
  <1>6. PICK e \in Mute : Adds(c, <<e, x>>)
    BY <1>3
  <1>7. e \in Msg /\ <<e, x>> \in Seq(Msg)
    BY <1>1 DEF Mute
  <1>8. PICK q \in Page : Coming(c, q) /\ Leads(q, <<e, x>>, t) /\ Fits(q.chats, u)
    BY <1>0, <1>6, <1>7, AddsLeads
  <1>9. t = After(After(q, e), x)
    BY <1>1, <1>7, <1>8, LeadsTwo
  <1>10. After(q, e) \in Page /\ After(q, e).chats = q.chats
    BY <1>6, <1>7, AfterPage, MuteKeeps
  <1>11. \A p \in Page : After(p, x).chats = p.chats \o <<[id |-> k, messages |-> <<>>]>>
    BY <1>5 DEF After, processMessage, Page, Tab
  <1>12. t.chats = q.chats \o <<[id |-> k, messages |-> <<>>]>>
    BY <1>9, <1>10, <1>11
  <1>13. q.chats \in Seq(ChatEntry)
    BY DEF Page
  <1>14. PICK y : y = q.chats
    OBVIOUS
  <1>15. /\ ToldChats(u)' = ToldChats(u) \cup {k} /\ ToldIn(u, k)' = {}
         /\ \A cid \in ToldChats(u) : cid < k /\ ToldIn(u, cid)' = ToldIn(u, cid)
    BY <1>1, <1>4, ChatTold
  <1>16. Fits(y \o <<[id |-> k, messages |-> <<>>]>>, u)'
    BY <1>2, <1>4, <1>8, <1>13, <1>14, <1>15, FitsNewChat
  <1> QED BY <1>12, <1>14, <1>16

\* A message, and whatever mute follows it.
LEMMA NewMessageFits ==
  ASSUME AllInv, NewsInv, up', NEW c \in Conn, NEW u \in User, On(c)', Fitting(c, u),
         (MsgEcho /\ u = task.uid) \/ (MsgDirect /\ u = task.fid),
         NEW m, m = Message, \/ Adds(c, <<m>>)
                             \/ \E e \in Mute : Adds(c, <<m, e>>)
  PROVE  Fitting(c, u)'
  <1> SUFFICES ASSUME NEW t, Coming(c, t)' PROVE Fits(t.chats, u)'
    BY DEF Fitting
  <1>0. SysInv /\ PagesInv
    BY DEF AllInv, SysInv
  <1>1. m \in Msg /\ m.kind = "newMessage" /\ m.messageTo = task.cid /\ m.id = task.mid
    BY <1>0, Spoken DEF Message, Glad
  <1>2. \E q \in Page : Fits(q.chats, u) /\ t.chats = After(q, m).chats
    <2>1. CASE Adds(c, <<m>>)
      <3>1. <<m>> \in Seq(Msg)
        BY <1>1
      <3>2. PICK q \in Page : Coming(c, q) /\ Leads(q, <<m>>, t) /\ Fits(q.chats, u)
        BY <1>0, <2>1, <3>1, AddsLeads
      <3>3. t = After(q, m)
        BY <1>1, <3>2, LeadsOne
      <3> QED BY <3>2, <3>3
    <2>2. ASSUME NEW e \in Mute, Adds(c, <<m, e>>)
          PROVE  \E q \in Page : Fits(q.chats, u) /\ t.chats = After(q, m).chats
      <3>1. e \in Msg /\ <<m, e>> \in Seq(Msg)
        BY <1>1 DEF Mute
      <3>2. PICK q \in Page : Coming(c, q) /\ Leads(q, <<m, e>>, t) /\ Fits(q.chats, u)
        BY <1>0, <2>2, <3>1, AddsLeads
      <3>3. t = After(After(q, m), e) /\ After(q, m) \in Page
        BY <1>1, <3>1, <3>2, LeadsTwo, AfterPage
      <3>4. t.chats = After(q, m).chats
        BY <3>3, MuteKeeps
      <3> QED BY <3>2, <3>4
    <2> QED BY <2>1, <2>2
  <1>3. PICK q \in Page : Fits(q.chats, u) /\ t.chats = After(q, m).chats
    BY <1>2
  <1>4. PICK k : k = task.cid
    OBVIOUS
  <1>5. PICK n : n = task.mid
    OBVIOUS
  <1>6. /\ ToldChats(u)' = ToldChats(u)
        /\ \A cid : cid # k => ToldIn(u, cid)' = ToldIn(u, cid)
        /\ ToldIn(u, k)' = ToldIn(u, k) \cup {n}
        /\ \A i \in ToldIn(u, k) : i < n
    BY <1>4, <1>5, MessageTold
  <1>7. k = m.messageTo /\ n = m.id
    BY <1>1, <1>4, <1>5
  <1>8. PICK y : y = After(q, m).chats
    OBVIOUS
  <1>9. Fits(After(q, m).chats, u)'
    BY <1>1, <1>3, <1>6, <1>7, FitsNewMessage
  <1> QED BY <1>3, <1>9

\* The steps that tell a user of a chat or a message.
LEMMA TellingSent ==
  ASSUME AllInv, SystemNext, up', NEW u, Tells(u)
  PROVE  \/ AcceptPushSent /\ u \in {task.uid, task.fid}
         \/ MsgEchoSent /\ u = task.uid
         \/ MsgDirectSent /\ u = task.fid
  <1>1. Handle
    BY Busy DEF Tells
  <1>2. CASE task.at = "accept.push"
    BY <1>2, BusyAt DEF Tells
  <1>3. CASE task.at \in {"msg.echo", "msg.direct"}
    <2>1. ~Silent /\ ~LoginListsSent /\ ~LoginChatsSent /\ ~LogoutSessionSent
      BY <1>3
      DEF Silent, LoginListsSent, LoginChatsSent, LogoutSessionSent, CloseSession, Return,
          LoginSession, LogoutEmail, LogoutDone, AcceptChat, AcceptSelf, AcceptPeer, MsgFlag,
          MsgRoomDone, removeRequest, LoginLists, LoginChats, LogoutSession
    <2>2. /\ ~AddFriendPushSent /\ ~AcceptPushSent
          /\ \A f \in User : ~LoginNotifySent(f) /\ ~LogoutNotifySent(f)
      BY <1>3 DEF AddFriendPushSent, AcceptPushSent, LoginNotifySent, LogoutNotifySent,
         AddFriendPush, AcceptPush, LoginNotify, LogoutNotify
    <2>3. (MsgEchoSent /\ task.at = "msg.echo") \/ (MsgDirectSent /\ task.at = "msg.direct")
      BY <1>1, <2>1, <2>2 DEF Handle, MsgEchoSent, MsgEcho, MsgDirectSent, MsgDirect
    <2> QED BY <2>3 DEF Tells
  <1> QED BY <1>2, <1>3 DEF Tells

LEMMA EchoFits ==
  ASSUME AllInv, NewsInv, MsgEchoSent, up', NEW c \in Conn, NEW u \in User, u = task.uid,
         Bound(u, c), On(c)', Fitting(c, u)
  PROVE  Fitting(c, u)'
  <1>0. SysInv /\ PagesInv /\ PInv /\ DInv
    BY DEF AllInv, SysInv, SInv, DInv
  <1>1. PICK m : m = Message
    OBVIOUS
  <1>2. PICK e : e = Plain("error")
    OBVIOUS
  <1> DEFINE w == IF PeerRows = {} THEN <<m, e>> ELSE <<m>>
  <1>3. MsgEcho /\ task.at = "msg.echo" /\ task.hdl \in Conn /\ Post(To(task.hdl, w))
    <2>1. MsgEcho /\ Post(To(task.hdl, w))
      BY <1>1, <1>2 DEF MsgEchoSent
    <2>2. task.at = "msg.echo"
      BY <2>1 DEF MsgEcho
    <2> QED BY <1>0, <2>1, <2>2, STypes
  <1>4. Bound(u, task.hdl)
    BY <1>0, <1>3, DatabaseAssumption DEF DInv, HandedInv, CallerStays
  <1>5. c = task.hdl
    BY <1>0, <1>3, <1>4, AtOnePlace
  <1>6. m \in Msg /\ e \in Mute
    BY <1>0, <1>1, <1>2, Spoken DEF Glad, Mute, Plain
  <1>7. w \in Seq(Msg)
    BY <1>6 DEF Mute
  <1> HIDE DEF w
  <1>8. Adds(c, Mine(c, w))
    BY <1>0, <1>3, <1>7, PostAdds
  <1>9. Adds(c, w)
    BY <1>5, <1>8 DEF Mine
  <1>10. Adds(c, <<m>>) \/ Adds(c, <<m, e>>)
    BY <1>9 DEF w
  <1> QED BY <1>1, <1>3, <1>6, <1>10, NewMessageFits

LEMMA DirectFits ==
  ASSUME AllInv, NewsInv, MsgDirectSent, up', NEW c \in Conn, NEW u \in User, u = task.fid,
         Listening(c, u), On(c)', Fitting(c, u)
  PROVE  Fitting(c, u)'
  <1>0. SysInv /\ up
    BY DEF AllInv, Listening
  <1>1. PICK m : m = Message
    OBVIOUS
  <1>2. /\ MsgDirect /\ task.at = "msg.direct" /\ task.hdl \in Conn
        /\ PushIfOnline(u, <<m>>, <<>>)
    BY <1>0, <1>1, STypes DEF MsgDirectSent, MsgDirect
  <1>3. m \in Msg
    BY <1>0, <1>1, Spoken DEF Glad
  <1>4. <<m>> \in Seq(Msg) /\ <<>> \in Seq(Msg)
    BY <1>3, EmptySeq
  <1>5. Adds(c, <<m>> \o Mine(c, <<>>))
    <2>1. ~Leaving(c)
      BY <1>2 DEF Leaving
    <2> QED BY <1>0, <1>2, <1>4, <2>1, PushAdds
  <1>6. Mine(c, <<>>) = <<>>
    BY DEF Mine
  <1>7. <<m>> \o <<>> = <<m>>
    BY <1>4, ConcatEmptySeq
  <1>8. Adds(c, <<m>>)
    BY <1>5, <1>6, <1>7
  <1> QED BY <1>1, <1>2, <1>8, NewMessageFits

LEMMA ChatsComingNext ==
  ASSUME AllInv, PushInv, NewsInv, AtLogin, ChatsComing, [SystemNext]_sysVars, [Next]_vars
  PROVE  ChatsComing'
  <1> SUFFICES ASSUME NEW c \in Conn, NEW u \in User, Looking(c, u)' PROVE Fitting(c, u)'
    BY DEF ChatsComing
  <1>0. On(c)' /\ Listening(c, u)' /\ up'
    BY DEF Looking, Listening
  <1>1. Onward(c, Msg)
    BY AnyOnward DEF AllInv
  <1>2. CASE LoginChatsSent /\ task.hdl = c
    BY <1>0, <1>2, LoginChatsFits
  <1>3. CASE ~(LoginChatsSent /\ task.hdl = c) /\ Listening(c, u)
    <2>1. Live(c) /\ Bound(u, c)
      BY <1>3 DEF Listening, Bound
    <2>2. Fitting(c, u)
      BY <1>0, <1>1, <1>3, <2>1 DEF Onward, Looking, ChatsComing
    <2>3. CASE UNCHANGED vars \/ ~Tells(u)
      BY <1>0, <1>3, <2>2, <2>3, UntoldFits
    <2>4. CASE ~UNCHANGED vars /\ Tells(u)
      <3>1. SystemNext
        BY <2>4 DEF sysVars
      <3>2. CASE AcceptPushSent /\ u \in {task.uid, task.fid}
        BY <1>0, <1>3, <2>2, <3>2, NewChatFits
      <3>3. CASE MsgEchoSent /\ u = task.uid
        BY <1>0, <2>1, <2>2, <3>3, EchoFits
      <3>4. CASE MsgDirectSent /\ u = task.fid
        BY <1>0, <1>3, <2>2, <3>4, DirectFits
      <3> QED BY <1>0, <2>4, <3>1, <3>2, <3>3, <3>4, TellingSent
    <2> QED BY <2>3, <2>4
  <1>4. CASE ~(LoginChatsSent /\ task.hdl = c) /\ ~Listening(c, u)
    <2>1. LoginChats
      BY <1>0, <1>4, NextStays DEF AllInv, Stays
    <2>2. c = task.hdl /\ task.at = "login.notify"
      BY <1>0, <1>4, <2>1, NewlyListening
    <2>3. UNCHANGED vars => FALSE
      BY <1>0, <1>4 DEF vars, procVars, historyVars, dbVars, userVars, Listening, Bound, Live,
         Session
    <2>4. SystemNext
      BY <2>3 DEF sysVars
    <2>5. \A f \in User : LoginNotifySent(f) => FALSE
      <3> SUFFICES ASSUME NEW f \in User, LoginNotifySent(f) PROVE FALSE
        OBVIOUS
      <3>1. UNCHANGED <<up, cstate, m_connections, sessionid, listed>>
        BY <1>0 DEF LoginNotifySent, LoginNotify, Die, procVars, historyVars, dbVars, userVars
      <3> QED BY <1>0, <1>4, <3>1 DEF Listening, Bound, Live, Session
    <2>6. LoginChatsSent
      BY <1>0, <2>2, <2>4, <2>5, BusyAt
    <2> QED BY <1>4, <2>2, <2>6
  <1> QED BY <1>2, <1>3, <1>4

\* What is coming to every page fits, and the invariants that takes.
CatchUpInv == NewsInv /\ OneLogin /\ FreshInv /\ AtLogin /\ ChatsComing

LEMMA NextCatchUp ==
  ASSUME ~AccountSwitch, Patient
  PROVE  AllInv /\ PushInv /\ CatchUpInv /\ [SystemNext]_sysVars => PushInv' /\ CatchUpInv'
  <1> SUFFICES ASSUME AllInv, PushInv, CatchUpInv, [SystemNext]_sysVars
               PROVE  PushInv' /\ CatchUpInv'
    OBVIOUS
  <1>0. AllInv' /\ [Next]_vars
    BY NextAll
  <1>1. PushInv'
    BY <1>0, NextPush
  <1>2. NewsInv'
    BY <1>0, NewestNext, ConcernedNext DEF CatchUpInv, NewsInv
  <1>3. OneLogin'
    BY OneLoginNext DEF CatchUpInv
  <1>4. FreshInv'
    BY <1>0, FreshKept DEF CatchUpInv
  <1>5. AtLogin'
    BY <1>0, AtLoginNext DEF CatchUpInv
  <1>6. ChatsComing'
    BY <1>0, ChatsComingNext DEF CatchUpInv
  <1> QED BY <1>1, <1>2, <1>3, <1>4, <1>5, <1>6 DEF CatchUpInv

LEMMA InitCatchUp == SystemInit => PushInv /\ CatchUpInv
  <1> SUFFICES ASSUME SystemInit PROVE PushInv /\ CatchUpInv
    OBVIOUS
  <1>1. PushInv /\ NewsInv
    BY InitPush, InitNews DEF SystemInit
  <1>2. \A c \in Conn : ~On(c) /\ tab[c].page # "login"
    BY DEF SystemInit, ClientInit, NoTab, On
  <1>3. OneLogin /\ FreshInv /\ AtLogin /\ ChatsComing
    BY <1>2 DEF OneLogin, FreshInv, Fresh, AtLogin, Greeting, ChatsComing, Looking
  <1> QED BY <1>1, <1>3 DEF CatchUpInv

\* A page that has caught up shows exactly the chats and messages of its user
\* that are stored, each once and in order, although they came in a list and in
\* pushes of other clients' handlers; provided its user submits no second login
\* before the first is answered.
THEOREM PagesShowChats ==
  ASSUME ~AccountSwitch, Patient PROVE SystemSpec => []PageShowsChats
  <1>1. SystemInit => AllInv /\ PushInv /\ CatchUpInv
    BY InitAll, InitCatchUp
  <1>2. /\ AllInv /\ PushInv /\ CatchUpInv /\ [SystemNext]_sysVars
        => (AllInv /\ PushInv /\ CatchUpInv)'
    BY NextAll, NextCatchUp
  <1>3. AllInv /\ PushInv /\ CatchUpInv => PageShowsChats
    <2> SUFFICES ASSUME AllInv, CatchUpInv, NEW c \in Conn, NEW u \in User, UpToDate(c, u)
                 PROVE  tab[c].chats = ChatsOf(u)
      BY DEF PageShowsChats
    <2>1. Looking(c, u) /\ Coming(c, Unasked(tab[c]))
      BY CaughtUp
    <2>2. Unasked(tab[c]).chats = tab[c].chats /\ tab[c].chats \in Seq(ChatEntry)
      BY DEF AllInv, SysInv, PagesInv, Unasked, Page, Tab
    <2>3. Fits(tab[c].chats, u)
      BY <2>1, <2>2 DEF CatchUpInv, ChatsComing, Fitting
    <2>4. SysInv /\ AllTold
      BY DEF AllInv, UpToDate, AllTold, Delivering
    <2> QED BY <2>2, <2>3, <2>4, OnlyStoredFit
  <1> QED BY <1>1, <1>2, <1>3, PTL DEF SystemSpec
=============================================================================
