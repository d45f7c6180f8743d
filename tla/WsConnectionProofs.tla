------------------------- MODULE WsConnectionProofs -------------------------
(***************************************************************************)
(* A websocket connection keeps the contract of handlers the server is     *)
(* written against, for both socket policies, any close codes and any      *)
(* number of frames.  Then what it reads and writes: one read at a time    *)
(* and none missing, frames in order and none lost, silence after a close  *)
(* frame.                                                                  *)
(***************************************************************************)
EXTENDS WsConnection, SequenceTheorems, WellFoundedInduction, TLAPS

At     == {"armed", "off", "expired", "fired"}
Record == [for : TimerKind, at : At]

\* Types, as far as the argument needs them.
TypeInv ==
  /\ m_state \in {"connecting", "open", "closing", "closed"}
  /\ timers \in Seq(Record)
  /\ tstat \in {"unknown", "failed", "closed"}
  /\ calls \in [{"open", "message", "close", "fail"} -> Nat]

\* Which state of the session goes with which stage of the opening handshake:
\* nobody has the thread for frames before the connection was opened, and it is
\* opened only by the response that the handshake wrote.
StageInv ==
  /\ initing => m_internal_state = "TRANSPORT_INIT"
  /\ writing = "response" => m_internal_state = "PROCESS_HTTP_REQUEST"
  /\ m_state \in {"open", "closing"} => m_internal_state = "PROCESS_CONNECTION"
  /\ m_internal_state = "PROCESS_CONNECTION" => m_state # "connecting"
  /\ pc # "idle" => m_state # "connecting"

\* Neither the close nor the fail handler was called.
Unended == calls["close"] = 0 /\ calls["fail"] = 0

\* Which handlers were called, by state; tstat remembers how it ended.
CallInv ==
  /\ cleared <=> m_state = "closed"
  /\ m_state = "connecting" => calls["open"] = 0 /\ Unended
  /\ m_state \in {"open", "closing"} => calls["open"] = 1 /\ Unended
  /\ m_state = "closed" => \/ tstat = "failed" /\ calls["open"] = 0
                           \/ tstat = "closed" /\ calls["open"] = 1

\* There is no shutdown before the end, nor on a plain socket.  On a TLS socket
\* there is one timer for it, and as long as that may still lead to a call of the
\* close handler none was made.
ShutdownInv ==
  /\ m_state # "closed" \/ ~Secure => Timer("shutdown") = {} /\ ~shutting
  /\ \A i, j \in Timer("shutdown") : i = j
  /\ \A i \in Timer("shutdown") :
       /\ timers[i].at \in {"armed", "expired"} => Unended
       /\ timers[i].at = "off" => ~shutting

EndInv == CallInv /\ ShutdownInv
CInv == TypeInv /\ StageInv /\ EndInv

CStep == [Contract!Next]_(Contract!contract)

-----------------------------------------------------------------------------
(* Timers.                                                                  *)

\* ts has the shutdown timers of timers, in the state they are in, and no more.
Keeps(ts) ==
  /\ ts \in Seq(Record)
  /\ \A i \in DOMAIN ts : ts[i].for = "shutdown" => i \in DOMAIN timers /\ ts[i] = timers[i]

\* ts with timer i in state a.
Changed(ts, i, a) == [ts EXCEPT ![i].at = a]

LEMMA ChangedTimers ==
  ASSUME NEW ts \in Seq(Record), NEW i, NEW a \in At
  PROVE  /\ Changed(ts, i, a) \in Seq(Record) /\ DOMAIN Changed(ts, i, a) = DOMAIN ts
         /\ \A j \in DOMAIN ts : /\ Changed(ts, i, a)[j].for = ts[j].for
                                 /\ j # i => Changed(ts, i, a)[j] = ts[j]
                                 /\ j = i => Changed(ts, i, a)[j].at = a
  <1>1. DOMAIN ts = 1 .. Len(ts) /\ Len(ts) \in Nat /\ \A j \in DOMAIN ts : ts[j] \in Record
    BY LenProperties, ElementOfSeq
  <1>2. CASE i \in DOMAIN ts
    <2> DEFINE r == [ts[i] EXCEPT !.at = a]
    <2>1. r \in Record /\ r.at = a /\ r.for = ts[i].for
      BY <1>1, <1>2 DEF Record
    <2>2. Changed(ts, i, a) = [ts EXCEPT ![i] = r]
      BY DEF Changed
    <2> HIDE DEF r
    <2>3. Changed(ts, i, a) \in Seq(Record) /\ DOMAIN Changed(ts, i, a) = DOMAIN ts
      BY <1>1, <1>2, <2>1, <2>2, ExceptSeq
    <2>4. \A j \in DOMAIN ts : Changed(ts, i, a)[j] = IF j = i THEN r ELSE ts[j]
      BY <1>2, <2>2
    <2>5. \A j \in DOMAIN ts : Changed(ts, i, a)[j].for = ts[j].for
      BY <2>1, <2>4
    <2>6. \A j \in DOMAIN ts :
            /\ j # i => Changed(ts, i, a)[j] = ts[j]
            /\ j = i => Changed(ts, i, a)[j].at = a
      BY <2>1, <2>4
    <2> QED BY <2>3, <2>5, <2>6
  <1>3. CASE i \notin DOMAIN ts
    <2>1. Changed(ts, i, a) = ts
      <3>1. Changed(ts, i, a) = [j \in DOMAIN ts |-> ts[j]]
        BY <1>3 DEF Changed
      <3> QED BY <1>1, <3>1, LenProperties
    <2> QED BY <1>3, <2>1
  <1> QED BY <1>2, <1>3

\* A timer is set that is not one of a shutdown.
LEMMA SetKeeps ==
  ASSUME NEW ts, Keeps(ts), NEW for \in TimerKind \ {"shutdown"}
  PROVE  Keeps(Append(ts, Armed(for)))
  <1>1. Armed(for) \in Record /\ Armed(for).for = for
    BY DEF Armed, Record, At
  <1>2. ts \in Seq(Record) /\ DOMAIN ts = 1 .. Len(ts) /\ Len(ts) \in Nat
    BY LenProperties DEF Keeps
  <1>3. /\ Append(ts, Armed(for)) \in Seq(Record)
        /\ DOMAIN Append(ts, Armed(for)) = 1 .. Len(ts) + 1
        /\ \A j \in 1 .. Len(ts) : Append(ts, Armed(for))[j] = ts[j]
        /\ Append(ts, Armed(for))[Len(ts) + 1] = Armed(for)
    BY <1>1, <1>2, AppendProperties, LenProperties
  <1> QED BY <1>1, <1>2, <1>3 DEF Keeps

\* One is changed that is not one of a shutdown.
LEMMA ChangeKeeps ==
  ASSUME NEW ts, Keeps(ts), NEW i, NEW a \in At,
         i \in DOMAIN ts => ts[i].for # "shutdown"
  PROVE  Keeps(Changed(ts, i, a))
  BY ChangedTimers DEF Keeps

LEMMA CancelKeeps ==
  ASSUME TypeInv, NEW i, i \in DOMAIN timers => timers[i].for # "shutdown"
  PROVE  Keeps(Cancel(i))
  <1>1. Keeps(timers)
    BY DEF TypeInv, Keeps
  <1>2. Keeps(Changed(timers, i, "off"))
    BY <1>1, ChangeKeeps DEF At
  <1>3. Cancel(i) \in {timers, Changed(timers, i, "off")}
    BY DEF Cancel, Changed
  <1> QED BY <1>1, <1>2, <1>3

LEMMA FiredKeeps ==
  ASSUME TypeInv, NEW i \in DOMAIN timers, timers[i].for # "shutdown"
  PROVE  Keeps(Fired(i))
  <1>1. Keeps(timers)
    BY DEF TypeInv, Keeps
  <1>2. Keeps(Changed(timers, i, "fired"))
    BY <1>1, ChangeKeeps DEF At
  <1> QED BY <1>2 DEF Fired, Changed

-----------------------------------------------------------------------------
(* Steps that end nothing, and terminate.                                   *)

LEMMA QuietStep ==
  ASSUME CInv, Keeps(timers'), UNCHANGED <<m_state, calls, cleared, tstat, shutting, sent>>
  PROVE  TypeInv' /\ EndInv' /\ CStep
  <1>1. TypeInv'
    BY DEF CInv, TypeInv, Keeps
  <1>2. CallInv'
    BY DEF CInv, EndInv, CallInv, Unended
  <1>3. ShutdownInv'
    BY DEF CInv, EndInv, ShutdownInv, Timer, Keeps, Unended
  <1>4. CStep
    BY DEF CStep, Contract!contract, cstate
  <1> QED BY <1>1, <1>2, <1>3, <1>4 DEF EndInv

LEMMA CalledType ==
  ASSUME TypeInv, NEW t
  PROVE  /\ Called(t) \in [{"open", "message", "close", "fail"} -> Nat]
         /\ Called(t)["open"] = calls["open"] /\ Called(t)["message"] = calls["message"]
         /\ Called(t)["close"] + Called(t)["fail"] = calls["close"] + calls["fail"] + 1
  BY DEF TypeInv, Called

\* terminate ends the connection, or finds it ended, whatever timers are running.
LEMMA TerminateStep ==
  ASSUME CInv, NEW ts, Keeps(ts), terminate(ts), UNCHANGED sent
  PROVE  m_state' = "closed" /\ TypeInv' /\ EndInv' /\ CStep
  <1>1. CASE m_state = "closed"
    BY <1>1, QuietStep DEF terminate
  <1>2. CASE m_state # "closed"
    <2> DEFINE t     == IF m_state = "connecting" THEN "failed" ELSE "closed"
               i     == m_handshake_timer
               quiet == IF i # 0 /\ ts[i].at = "armed" THEN [ts EXCEPT ![i].at = "off"] ELSE ts
    <2>1. /\ m_state' = "closed" /\ cleared' = TRUE /\ tstat' = t
          /\ IF Secure THEN timers' = Append(quiet, Armed("shutdown")) /\ shutting' = TRUE
                            /\ UNCHANGED calls
             ELSE timers' = quiet /\ calls' = Called(t) /\ UNCHANGED shutting
      BY <1>2 DEF terminate
    <2>2. Timer("shutdown") = {} /\ ~shutting /\ Unended
      BY <1>2 DEF CInv, TypeInv, EndInv, CallInv, ShutdownInv
    <2>3. ts \in Seq(Record) /\ \A j \in DOMAIN ts : ts[j].for # "shutdown"
      BY <2>2 DEF Keeps, Timer
    <2>4. quiet \in Seq(Record) /\ \A j \in DOMAIN quiet : quiet[j].for # "shutdown"
      <3>1. LET us == Changed(ts, i, "off") IN
              us \in Seq(Record) /\ \A j \in DOMAIN us : us[j].for # "shutdown"
        BY <2>3, ChangedTimers DEF At
      <3>2. quiet \in {ts, Changed(ts, i, "off")}
        BY DEF Changed
      <3> QED BY <2>3, <3>1, <3>2
    <2>5. t \in {"failed", "closed"} /\ (t = "failed" <=> m_state = "connecting")
      OBVIOUS
    <2> HIDE DEF quiet, t
    <2>6. CASE Secure
      <3>1. timers' = Append(quiet, Armed("shutdown")) /\ shutting' = TRUE /\ UNCHANGED calls
        BY <2>1, <2>6
      <3>2. Armed("shutdown") \in Record /\ Armed("shutdown") = [for |-> "shutdown", at |-> "armed"]
        BY DEF Armed, Record, At, TimerKind
      <3>3. /\ timers' \in Seq(Record) /\ DOMAIN (timers') = 1 .. Len(quiet) + 1
            /\ \A j \in 1 .. Len(quiet) : timers'[j] = quiet[j]
            /\ timers'[Len(quiet) + 1] = Armed("shutdown")
            /\ Len(quiet) \in Nat /\ DOMAIN quiet = 1 .. Len(quiet)
        BY <2>4, <3>1, <3>2, AppendProperties, LenProperties
      <3>4. Timer("shutdown")' = {Len(quiet) + 1}
        BY <2>4, <3>2, <3>3 DEF Timer
      <3>5. Unended'
        BY <2>2, <3>1 DEF Unended
      <3>6. ShutdownInv'
        <4>1. timers'[Len(quiet) + 1].at = "armed"
          BY <3>2, <3>3
        <4> QED BY <2>1, <2>6, <3>4, <3>5, <4>1, WsConnectionAssumption DEF ShutdownInv
      <3>7. CallInv'
        BY <1>2, <2>1, <2>5, <3>1 DEF CInv, TypeInv, EndInv, CallInv
      <3>8. TypeInv'
        BY <2>1, <2>5, <3>1, <3>3 DEF CInv, TypeInv
      <3>9. CStep
        BY <1>2, <2>1, <2>2, <3>1 DEF CInv, TypeInv, EndInv, CallInv, CStep, Unended,
             Contract!Next, Contract!Lose, Contract!contract, cstate
      <3> QED BY <2>1, <3>6, <3>7, <3>8, <3>9 DEF EndInv
    <2>7. CASE ~Secure
      <3>1. timers' = quiet /\ calls' = Called(t) /\ UNCHANGED shutting
        BY <2>1, <2>7
      <3>2. /\ calls' \in [{"open", "message", "close", "fail"} -> Nat]
            /\ calls'["open"] = calls["open"] /\ calls'["message"] = calls["message"]
            /\ calls'["close"] + calls'["fail"] = 1
        BY <2>2, <3>1, CalledType DEF CInv, Unended
      <3>3. ShutdownInv'
        BY <2>2, <2>4, <3>1 DEF ShutdownInv, Timer
      <3>4. CallInv'
        BY <1>2, <2>1, <2>5, <3>2 DEF CInv, TypeInv, EndInv, CallInv
      <3>5. TypeInv'
        BY <2>1, <2>4, <2>5, <3>1, <3>2 DEF CInv, TypeInv
      <3>6. CStep
        BY <1>2, <2>1, <2>2, <3>2 DEF CInv, TypeInv, EndInv, CallInv, CStep, Unended,
             Contract!Next, Contract!Close, Contract!Fail, Contract!contract, cstate
      <3> QED BY <2>1, <3>3, <3>4, <3>5, <3>6 DEF EndInv
    <2> QED BY <2>6, <2>7
  <1> QED BY <1>1, <1>2

\* A step that ends nothing and starts no stage of the handshake.
LEMMA QuietInv ==
  ASSUME CInv, Keeps(timers'),
         UNCHANGED <<m_state, calls, cleared, tstat, shutting, sent, openVars>>,
         writing' = writing \/ writing' # "response",
         pc' = pc \/ m_state # "connecting"
  PROVE  CInv' /\ CStep
  <1>1. TypeInv' /\ EndInv' /\ CStep
    BY QuietStep
  <1>2. StageInv'
    BY DEF CInv, StageInv, openVars
  <1> QED BY <1>1, <1>2 DEF CInv

LEMMA SameTimers == ASSUME CInv, UNCHANGED timers PROVE Keeps(timers')
  BY DEF CInv, TypeInv, Keeps

\* A step that ends the connection starts no stage either.
LEMMA TerminateInv ==
  ASSUME CInv, NEW ts, Keeps(ts), terminate(ts), UNCHANGED <<sent, m_internal_state>>,
         initing' => initing, writing' = writing \/ writing' # "response"
  PROVE  CInv' /\ CStep
  <1>1. m_state' = "closed" /\ TypeInv' /\ EndInv' /\ CStep
    BY TerminateStep
  <1>2. StageInv'
    BY <1>1 DEF CInv, StageInv
  <1> QED BY <1>1, <1>2 DEF CInv

LEMMA CloseFrameInv ==
  ASSUME CInv, m_state \in {"open", "closing"}, NEW ack, NEW last,
         send_close_frame(ack, last), UNCHANGED openVars
  PROVE  CInv' /\ CStep
  <1>1. /\ m_state' = "closing" /\ timers' = Append(timers, Armed("close"))
        /\ UNCHANGED <<sent, cleared, shutting, tstat, calls, writing>>
    BY DEF send_close_frame, write_push
  <1>2. Keeps(timers')
    BY <1>1, SetKeeps DEF CInv, TypeInv, Keeps, TimerKind
  <1>3. TypeInv'
    BY <1>1, <1>2 DEF CInv, TypeInv, Keeps
  <1>4. StageInv'
    BY <1>1 DEF CInv, StageInv, openVars
  <1>5. CallInv'
    BY <1>1 DEF CInv, EndInv, CallInv, Unended
  <1>6. ShutdownInv'
    BY <1>1, <1>2 DEF CInv, EndInv, ShutdownInv, Timer, Keeps, Unended
  <1>7. CStep
    BY <1>1 DEF CInv, EndInv, CallInv, Unended, CStep, Contract!Next, Contract!Lose,
         Contract!contract, cstate
  <1> QED BY <1>3, <1>4, <1>5, <1>6, <1>7 DEF CInv, EndInv

-----------------------------------------------------------------------------
(* The operations of a connection, one after the other.                     *)

LEMMA ExpireInv == ASSUME CInv, Expire PROVE CInv' /\ CStep
  <1>1. PICK i \in DOMAIN timers :
          /\ timers[i].at = "armed" /\ timers' = Changed(timers, i, "expired")
          /\ UNCHANGED <<m_state, cleared, shutting, tstat, calls, openVars, readVars, writeVars>>
    BY DEF Expire, Changed
  <1>2. /\ timers' \in Seq(Record) /\ DOMAIN (timers') = DOMAIN timers
        /\ \A j \in DOMAIN timers : /\ timers'[j].for = timers[j].for
                                    /\ j # i => timers'[j] = timers[j]
                                    /\ j = i => timers'[j].at = "expired"
    BY <1>1, ChangedTimers DEF CInv, TypeInv, At
  <1>3. TypeInv'
    BY <1>1, <1>2 DEF CInv, TypeInv
  <1>4. StageInv'
    BY <1>1 DEF CInv, StageInv, openVars, readVars, writeVars
  <1>5. CallInv'
    BY <1>1 DEF CInv, EndInv, CallInv, Unended
  <1>6. Timer("shutdown")' = Timer("shutdown")
    BY <1>2 DEF Timer
  <1>7. ShutdownInv'
    <2>1. \A j \in Timer("shutdown") :
            /\ timers'[j].at \in {"armed", "expired"} => timers[j].at \in {"armed", "expired"}
            /\ timers'[j].at = "off" => timers[j].at = "off"
      BY <1>1, <1>2 DEF Timer
    <2> QED BY <1>1, <1>6, <2>1 DEF CInv, EndInv, ShutdownInv, Unended
  <1>8. CStep
    BY <1>1 DEF CStep, Contract!contract, cstate, writeVars
  <1> QED BY <1>3, <1>4, <1>5, <1>7, <1>8 DEF CInv, EndInv

\* What the two handlers of a shutdown do when they call: it had not been done.
LEMMA EndCalled ==
  ASSUME CInv, NEW i \in Timer("shutdown"), Unended, calls' = Called(tstat),
         \/ timers' = Changed(timers, i, "off") /\ ~shutting'
         \/ timers' = Changed(timers, i, "fired"),
         UNCHANGED <<m_state, cleared, tstat, sent, openVars, readVars, writeVars>>,
         shutting' => shutting
  PROVE  CInv' /\ CStep
  <1>1. i \in DOMAIN timers /\ Secure /\ m_state = "closed"
    BY DEF CInv, EndInv, ShutdownInv, Timer
  <1>2. /\ timers' \in Seq(Record) /\ DOMAIN (timers') = DOMAIN timers
        /\ \A j \in DOMAIN timers : timers'[j].for = timers[j].for
        /\ timers'[i].at \in {"off", "fired"} /\ (timers'[i].at = "off" => ~shutting')
    BY <1>1, ChangedTimers DEF CInv, TypeInv, At
  <1>3. /\ calls' \in [{"open", "message", "close", "fail"} -> Nat]
        /\ calls'["open"] = calls["open"] /\ calls'["message"] = calls["message"]
        /\ calls'["close"] + calls'["fail"] = 1
    BY CalledType DEF CInv, Unended
  <1>4. TypeInv'
    BY <1>2, <1>3 DEF CInv, TypeInv
  <1>5. StageInv'
    BY DEF CInv, StageInv, openVars, readVars, writeVars
  <1>6. CallInv'
    BY <1>1, <1>3 DEF CInv, EndInv, CallInv
  <1>7. Timer("shutdown")' = Timer("shutdown")
    BY <1>2 DEF Timer
  <1>8. \A j \in Timer("shutdown") : j = i
    BY DEF CInv, EndInv, ShutdownInv
  <1>9. ShutdownInv'
    BY <1>1, <1>2, <1>7, <1>8 DEF ShutdownInv
  <1>10. CStep
    BY <1>1, <1>3 DEF CInv, TypeInv, EndInv, CallInv, Unended, CStep, Contract!Next, Contract!Close,
         Contract!Fail, Contract!contract, cstate
  <1> QED BY <1>4, <1>5, <1>6, <1>9, <1>10 DEF CInv, EndInv

LEMMA ShutdownEndInv == ASSUME CInv, handle_async_shutdown PROVE CInv' /\ CStep
  <1>1. PICK i \in Timer("shutdown") :
          IF Late(i) THEN UNCHANGED <<timers, calls>>
          ELSE timers' = Cancel(i) /\ calls' = Called(tstat)
    BY DEF handle_async_shutdown
  <1>2. /\ shutting /\ shutting' = FALSE
        /\ UNCHANGED <<m_state, cleared, tstat, openVars, readVars, writeVars>>
    BY DEF handle_async_shutdown
  <1>3. i \in DOMAIN timers /\ timers[i].at \in At
    <2>1. i \in DOMAIN timers /\ timers \in Seq(Record)
      BY DEF Timer, CInv, TypeInv
    <2>2. timers[i] \in Record
      BY <2>1, ElementOfSeq, LenProperties
    <2> QED BY <2>1, <2>2 DEF Record
  <1>4. CASE Late(i)
    <2>1. timers[i].at \in {"expired", "fired"} /\ \A j \in Timer("shutdown") : j = i
      BY <1>4 DEF Late, CInv, EndInv, ShutdownInv
    <2>2. TypeInv' /\ StageInv' /\ CallInv'
      BY <1>1, <1>2, <1>4 DEF CInv, TypeInv, StageInv, EndInv, CallInv, Unended,
           openVars, readVars, writeVars
    <2>3. ShutdownInv'
      BY <1>1, <1>2, <1>4, <2>1 DEF CInv, EndInv, ShutdownInv, Unended, Timer
    <2>4. CStep
      BY <1>1, <1>2, <1>4 DEF CStep, Contract!contract, cstate, writeVars
    <2> QED BY <2>2, <2>3, <2>4 DEF CInv, EndInv
  <1>5. CASE ~Late(i)
    <2>1. timers[i].at = "armed"
      BY <1>2, <1>3, <1>5 DEF Late, At, CInv, EndInv, ShutdownInv
    <2>2. Unended
      BY <2>1 DEF CInv, EndInv, ShutdownInv
    <2>3. Cancel(i) = Changed(timers, i, "off")
      <3>1. i # 0
        BY <1>3, LenProperties DEF CInv, TypeInv
      <3> QED BY <2>1, <3>1 DEF Cancel, Changed
    <2> QED BY <1>1, <1>2, <1>5, <2>2, <2>3, EndCalled DEF writeVars
  <1> QED BY <1>4, <1>5

LEMMA ShutdownTimeoutInv == ASSUME CInv, handle_async_shutdown_timeout PROVE CInv' /\ CStep
  <1>1. PICK i \in Timer("shutdown") :
          timers[i].at = "expired" /\ timers' = Fired(i) /\ calls' = Called(tstat)
    BY DEF handle_async_shutdown_timeout
  <1>2. UNCHANGED <<m_state, cleared, shutting, tstat, openVars, readVars, writeVars>>
    BY DEF handle_async_shutdown_timeout
  <1>3. Unended
    BY <1>1 DEF CInv, EndInv, ShutdownInv
  <1>4. timers' = Changed(timers, i, "fired")
    BY <1>1 DEF Fired, Changed
  <1> QED BY <1>1, <1>2, <1>3, <1>4, EndCalled DEF writeVars

LEMMA HandshakeTimeoutInv ==
  ASSUME CInv, NEW for \in TimerKind \ {"shutdown"}, NEW i \in Timer(for),
         terminate(Fired(i)), UNCHANGED <<openVars, readVars, writeVars>>
  PROVE  CInv' /\ CStep
  <1>1. i \in DOMAIN timers /\ timers[i].for # "shutdown"
    BY DEF Timer
  <1>2. Keeps(Fired(i))
    BY <1>1, FiredKeeps DEF CInv
  <1> QED BY <1>2, TerminateInv DEF openVars, writeVars

LEMMA TimeoutsInv == ASSUME CInv, Timeouts PROVE CInv' /\ CStep
  <1>1. ASSUME handle_post_init_timeout PROVE CInv' /\ CStep
    BY <1>1, HandshakeTimeoutInv DEF handle_post_init_timeout, TimerKind
  <1>2. ASSUME handle_open_handshake_timeout PROVE CInv' /\ CStep
    BY <1>2, HandshakeTimeoutInv
       DEF handle_open_handshake_timeout, handle_handshake_timeout, TimerKind
  <1>3. ASSUME handle_close_handshake_timeout PROVE CInv' /\ CStep
    BY <1>3, HandshakeTimeoutInv
       DEF handle_close_handshake_timeout, handle_handshake_timeout, TimerKind
  <1> QED BY <1>1, <1>2, <1>3, ShutdownTimeoutInv DEF Timeouts

\* read_handshake sets the timer of the open handshake.
LEMMA ReadHandshakeKeeps ==
  ASSUME NEW ts, Keeps(ts), read_handshake(ts)
  PROVE  Keeps(timers') /\ m_internal_state' = "READ_HTTP_REQUEST"
  BY SetKeeps DEF read_handshake, TimerKind

LEMMA StartInv == ASSUME CInv, start PROVE CInv' /\ CStep
  <1>1. Keeps(timers)
    BY DEF CInv, TypeInv, Keeps
  <1>2. /\ m_internal_state = "USER_INIT"
        /\ UNCHANGED <<m_state, cleared, shutting, tstat, calls, pc, sent, writing>>
    BY DEF start, writeVars
  <1>3. CASE Secure
    <2>1. m_internal_state' = "TRANSPORT_INIT" /\ timers' = Append(timers, Armed("post_init"))
      BY <1>3 DEF start
    <2>2. Keeps(timers')
      BY <1>1, <2>1, SetKeeps DEF TimerKind
    <2>3. TypeInv' /\ EndInv' /\ CStep
      BY <1>2, <2>2, QuietStep
    <2>4. StageInv'
      BY <1>2, <2>1 DEF CInv, TypeInv, StageInv
    <2> QED BY <2>3, <2>4 DEF CInv
  <1>4. CASE ~Secure
    <2>1. read_handshake(timers) /\ UNCHANGED initing
      BY <1>4 DEF start
    <2>2. Keeps(timers') /\ m_internal_state' = "READ_HTTP_REQUEST"
      BY <1>1, <2>1, ReadHandshakeKeeps
    <2>3. TypeInv' /\ EndInv' /\ CStep
      BY <1>2, <2>2, QuietStep
    <2>4. StageInv'
      BY <1>2, <2>1, <2>2 DEF CInv, StageInv
    <2> QED BY <2>3, <2>4 DEF CInv
  <1> QED BY <1>3, <1>4

LEMMA PostInitInv == ASSUME CInv, handle_post_init PROVE CInv' /\ CStep
  <1>1. /\ initing /\ initing' = FALSE
        /\ UNCHANGED <<pc, sent, writing>>
    BY DEF handle_post_init, writeVars
  <1>2. PICK i \in Timer("post_init") :
          \/ UNCHANGED <<endVars, m_internal_state>>
          \/ read_handshake(Cancel(i)) /\ UNCHANGED <<m_state, cleared, shutting, tstat, calls>>
          \/ terminate(Cancel(i)) /\ UNCHANGED m_internal_state
    BY DEF handle_post_init
  <1>3. Keeps(Cancel(i))
    BY CancelKeeps DEF CInv, Timer
  <1>4. CASE UNCHANGED <<endVars, m_internal_state>>
    <2>1. TypeInv' /\ EndInv' /\ CStep
      BY <1>1, <1>4, QuietStep, SameTimers DEF endVars
    <2>2. StageInv'
      BY <1>1, <1>4 DEF CInv, StageInv, endVars
    <2> QED BY <2>1, <2>2 DEF CInv
  <1>5. CASE read_handshake(Cancel(i)) /\ UNCHANGED <<m_state, cleared, shutting, tstat, calls>>
    <2>1. Keeps(timers') /\ m_internal_state' = "READ_HTTP_REQUEST"
      BY <1>3, <1>5, ReadHandshakeKeeps
    <2>2. TypeInv' /\ EndInv' /\ CStep
      BY <1>1, <1>5, <2>1, QuietStep
    <2>3. StageInv'
      BY <1>1, <1>5, <2>1 DEF CInv, TypeInv, StageInv
    <2> QED BY <2>2, <2>3 DEF CInv
  <1>6. CASE terminate(Cancel(i)) /\ UNCHANGED m_internal_state
    BY <1>1, <1>3, <1>6, TerminateInv
  <1> QED BY <1>2, <1>4, <1>5, <1>6

LEMMA ReadHandshakeInv == ASSUME CInv, handle_read_handshake PROVE CInv' /\ CStep
  <1>1. /\ m_internal_state = "READ_HTTP_REQUEST"
        /\ UNCHANGED <<initing, pc, sent>>
    BY DEF handle_read_handshake
  <1>2. Keeps(timers)
    BY DEF CInv, TypeInv, Keeps
  <1>3. CASE UNCHANGED <<endVars, m_internal_state, writing>>
    <2>1. TypeInv' /\ EndInv' /\ CStep
      BY <1>1, <1>3, QuietStep, SameTimers DEF endVars
    <2>2. StageInv'
      BY <1>1, <1>3 DEF CInv, StageInv, endVars
    <2> QED BY <2>1, <2>2 DEF CInv
  <1>4. CASE terminate(timers) /\ UNCHANGED <<m_internal_state, writing>>
    BY <1>1, <1>2, <1>4, TerminateInv
  <1>5. CASE /\ m_internal_state' = "PROCESS_HTTP_REQUEST" /\ writing' = "response"
             /\ UNCHANGED endVars
    <2>1. TypeInv' /\ EndInv' /\ CStep
      BY <1>1, <1>5, QuietStep, SameTimers DEF endVars
    <2>2. StageInv'
      BY <1>1, <1>5 DEF CInv, TypeInv, StageInv, endVars
    <2> QED BY <2>1, <2>2 DEF CInv
  <1> QED BY <1>3, <1>4, <1>5 DEF handle_read_handshake

\* The connection opens: nothing was called before.
LEMMA WriteResponseInv == ASSUME CInv, handle_write_http_response PROVE CInv' /\ CStep
  <1>1. /\ writing = "response" /\ writing' = "none"
        /\ m_internal_state = "PROCESS_HTTP_REQUEST"
        /\ UNCHANGED <<initing, sent>>
    BY DEF handle_write_http_response, CInv, StageInv
  <1>2. Keeps(timers)
    BY DEF CInv, TypeInv, Keeps
  <1>3. CASE UNCHANGED <<endVars, m_internal_state, pc>>
    <2>1. TypeInv' /\ EndInv' /\ CStep
      BY <1>1, <1>3, QuietStep, SameTimers DEF endVars
    <2>2. StageInv'
      BY <1>1, <1>3 DEF CInv, StageInv, endVars
    <2> QED BY <2>1, <2>2 DEF CInv
  <1>4. CASE terminate(timers) /\ UNCHANGED <<m_internal_state, pc>>
    BY <1>1, <1>2, <1>4, TerminateInv
  <1>5. CASE /\ ~cleared /\ timers' = Cancel(m_handshake_timer)
             /\ m_internal_state' = "PROCESS_CONNECTION" /\ m_state' = "open"
             /\ calls' = [calls EXCEPT !["open"] = @ + 1] /\ pc' = "handler"
             /\ UNCHANGED <<cleared, shutting, tstat>>
    <2>1. m_state = "connecting"
      BY <1>1, <1>5 DEF CInv, TypeInv, StageInv, EndInv, CallInv
    <2>2. Timer("shutdown") = {} /\ ~shutting /\ Unended /\ calls["open"] = 0
      BY <2>1 DEF CInv, EndInv, CallInv, ShutdownInv
    <2>3. Keeps(timers')
      BY <1>5, <2>2, CancelKeeps DEF CInv, Timer
    <2>4. /\ calls' \in [{"open", "message", "close", "fail"} -> Nat]
          /\ calls'["open"] = 1 /\ Unended' /\ calls'["message"] = calls["message"]
      BY <1>5, <2>2 DEF CInv, TypeInv, Unended
    <2>5. TypeInv' /\ StageInv'
      BY <1>1, <1>5, <2>1, <2>3, <2>4 DEF CInv, TypeInv, StageInv, Keeps
    <2>6. CallInv'
      BY <1>5, <2>1, <2>4 DEF CInv, EndInv, CallInv
    <2>7. ShutdownInv'
      BY <1>5, <2>2, <2>3 DEF ShutdownInv, Timer, Keeps
    <2>8. CStep
      BY <1>1, <1>5, <2>2, <2>4 DEF CStep, Contract!Next, Contract!Open, Contract!contract,
           cstate, Unended
    <2> QED BY <2>5, <2>6, <2>7, <2>8 DEF CInv, EndInv
  <1> QED BY <1>3, <1>4, <1>5 DEF handle_write_http_response

LEMMA CallsInv == ASSUME CInv, Calls PROVE CInv' /\ CStep
  <1>1. ASSUME send PROVE CInv' /\ CStep
    <2>1. /\ m_state = "open" /\ sent' = sent + 1 /\ UNCHANGED <<endVars, openVars, pc, writing>>
      BY <1>1 DEF send, MaySend, readVars, write_push
    <2>2. TypeInv' /\ StageInv' /\ CallInv' /\ ShutdownInv'
      BY <2>1 DEF CInv, TypeInv, StageInv, EndInv, CallInv, ShutdownInv, Timer, Unended,
           endVars, openVars
    <2>3. CStep
      BY <2>1 DEF CInv, EndInv, CallInv, Unended, CStep, Contract!Next, Contract!Send,
           Contract!contract, cstate, endVars
    <2> QED BY <2>2, <2>3 DEF CInv, EndInv
  <1>2. ASSUME ping PROVE CInv' /\ CStep
    BY <1>2, QuietInv, SameTimers DEF ping, write_push, endVars, readVars
  <1>3. ASSUME NEW code, close(code) PROVE CInv' /\ CStep
    BY <1>3, CloseFrameInv DEF close
  <1> QED BY <1>1, <1>2, <1>3 DEF Calls

LEMMA WriteFrameInv == ASSUME CInv, write_frame PROVE CInv' /\ CStep
  <1>1. writing' = writing \/ writing' = "frames"
    BY DEF write_frame
  <1>2. UNCHANGED <<endVars, openVars, pc, sent>>
    BY DEF write_frame, readVars
  <1> QED BY <1>1, <1>2, QuietInv, SameTimers DEF endVars

LEMMA HandleWriteFrameInv == ASSUME CInv, handle_write_frame PROVE CInv' /\ CStep
  <1>1. writing' = "none" /\ UNCHANGED <<openVars, pc, sent>>
    BY DEF handle_write_frame, readVars
  <1>2. UNCHANGED endVars \/ terminate(timers)
    BY DEF handle_write_frame
  <1>3. Keeps(timers)
    BY DEF CInv, TypeInv, Keeps
  <1>4. CASE UNCHANGED endVars
    BY <1>1, <1>4, QuietInv, SameTimers DEF endVars
  <1>5. CASE terminate(timers)
    BY <1>1, <1>3, <1>5, TerminateInv DEF openVars
  <1> QED BY <1>2, <1>4, <1>5

LEMMA HandleReadFrameInv == ASSUME CInv, handle_read_frame PROVE CInv' /\ CStep
  <1>1. UNCHANGED <<openVars, writing, sent>> /\ m_state # "connecting"
    BY DEF handle_read_frame, writeVars, CInv, StageInv
  <1>2. \/ UNCHANGED endVars
        \/ terminate(timers)
    BY DEF handle_read_frame
  <1>3. Keeps(timers)
    BY DEF CInv, TypeInv, Keeps
  <1>4. CASE UNCHANGED endVars
    BY <1>1, <1>4, QuietInv, SameTimers DEF endVars
  <1>5. CASE terminate(timers)
    BY <1>1, <1>3, <1>5, TerminateInv DEF openVars
  <1> QED BY <1>2, <1>4, <1>5

LEMMA CompletionsInv == ASSUME CInv, Completions PROVE CInv' /\ CStep
  BY PostInitInv, ReadHandshakeInv, WriteResponseInv, HandleReadFrameInv, HandleWriteFrameInv,
     ShutdownEndInv DEF Completions

\* The loop over the frames of a read runs only on a connection that was opened.
LEMMA ReadLoopInv == ASSUME CInv, ReadLoop PROVE CInv' /\ CStep
  <1>1. pc # "idle" /\ m_state # "connecting" /\ m_state \in {"open", "closing", "closed"}
    BY DEF ReadLoop, Return, EndOfChunk, HandleData, HandlePingPong, HandleClose, HandleBadClose,
         HandleMalformed, NextIs, CInv, TypeInv, StageInv
  <1>2. Keeps(timers)
    BY DEF CInv, TypeInv, Keeps
  <1>3. ASSUME UNCHANGED <<endVars, openVars, writing, sent>> PROVE CInv' /\ CStep
    BY <1>1, <1>3, QuietInv, SameTimers DEF endVars
  <1>4. ASSUME Return \/ EndOfChunk PROVE CInv' /\ CStep
    BY <1>3, <1>4 DEF Return, EndOfChunk, writeVars
  <1>5. ASSUME Dropped PROVE CInv' /\ CStep
    BY <1>3, <1>5 DEF Dropped, writeVars
  <1>6. ASSUME HandleData, m_state = "open" PROVE CInv' /\ CStep
    <2>1. /\ calls' = [calls EXCEPT !["message"] = @ + 1]
          /\ UNCHANGED <<m_state, timers, cleared, shutting, tstat, openVars, writing, sent>>
      BY <1>6 DEF HandleData, writeVars
    <2>2. /\ calls' \in [{"open", "message", "close", "fail"} -> Nat]
          /\ calls'["message"] = calls["message"] + 1 /\ calls'["open"] = calls["open"]
          /\ calls'["close"] = calls["close"] /\ calls'["fail"] = calls["fail"]
      BY <2>1 DEF CInv, TypeInv
    <2>3. TypeInv' /\ StageInv' /\ CallInv'
      BY <1>6, <2>1, <2>2 DEF CInv, TypeInv, StageInv, EndInv, CallInv, Unended, openVars
    <2>4. ShutdownInv'
      BY <1>6, <2>1, <2>2 DEF CInv, EndInv, ShutdownInv, Timer, Unended
    <2>5. CStep
      BY <1>6, <2>1, <2>2 DEF CInv, EndInv, CallInv, Unended, CStep, Contract!Next,
           Contract!Message, Contract!contract, cstate
    <2> QED BY <2>3, <2>4, <2>5 DEF CInv, EndInv
  <1>7. ASSUME HandlePingPong PROVE CInv' /\ CStep
    BY <1>3, <1>5, <1>7 DEF HandlePingPong, write_push
  <1>8. ASSUME NEW ack, NEW last, send_close_frame(ack, last), UNCHANGED openVars,
               m_state # "closed"
        PROVE  CInv' /\ CStep
    BY <1>1, <1>8, CloseFrameInv
  <1>9. ASSUME terminate(timers), UNCHANGED openVars, UNCHANGED writeVars
        PROVE  CInv' /\ CStep
    BY <1>2, <1>9, TerminateInv DEF openVars, writeVars
  <1>10. ASSUME HandleClose PROVE CInv' /\ CStep
    BY <1>5, <1>8, <1>9, <1>10 DEF HandleClose
  <1>11. ASSUME HandleBadClose PROVE CInv' /\ CStep
    BY <1>5, <1>8, <1>11 DEF HandleBadClose
  <1>12. ASSUME HandleMalformed PROVE CInv' /\ CStep
    BY <1>8, <1>9, <1>12 DEF HandleMalformed
  <1>13. ASSUME HandleData, m_state # "open" PROVE CInv' /\ CStep
    BY <1>5, <1>13 DEF HandleData
  <1> QED BY <1>4, <1>6, <1>7, <1>10, <1>11, <1>12, <1>13 DEF ReadLoop

-----------------------------------------------------------------------------
LEMMA InitInv == ASSUME WsInit PROVE CInv /\ Contract!Init
  <1>1. timers \in Seq(Record) /\ DOMAIN timers = {}
    BY EmptySeq DEF WsInit
  <1>2. TypeInv
    BY <1>1 DEF WsInit, TypeInv
  <1>3. StageInv /\ CallInv
    BY DEF WsInit, StageInv, CallInv, Unended
  <1>4. ShutdownInv
    BY <1>1 DEF WsInit, ShutdownInv, Timer
  <1>5. Contract!Init
    BY DEF WsInit, Contract!Init, cstate
  <1> QED BY <1>2, <1>3, <1>4, <1>5 DEF CInv, EndInv

LEMMA NextInv == ASSUME CInv, [WsNext]_wsVars PROVE CInv' /\ CStep
  <1>1. CASE UNCHANGED wsVars
    <2>1. UNCHANGED <<endVars, openVars, writing, sent, pc>>
      BY <1>1 DEF wsVars, readVars, writeVars
    <2> QED BY <2>1, QuietInv, SameTimers DEF endVars
  <1>2. CASE WsNext
    BY <1>2, StartInv, ExpireInv, ReadLoopInv, TimeoutsInv, WriteFrameInv, CompletionsInv,
       CallsInv DEF WsNext
  <1> QED BY <1>1, <1>2

\* A connection calls the server's handlers in order, once each, and takes sends
\* only while it is open, whichever way it ends: it implements HandlerContract.
\* The stages of the handshake decide that it is opened once; the timer of a TLS
\* shutdown and its completion, of which either may come first, that it is closed
\* once.
THEOREM ContractKept == WsSpec => KeepsContract
  <1>1. WsInit => CInv /\ Contract!Init
    BY InitInv
  <1>2. CInv /\ [WsNext]_wsVars => CInv' /\ [Contract!Next]_(Contract!contract)
    BY NextInv DEF CStep
  <1> QED BY <1>1, <1>2, PTL DEF WsSpec, KeepsContract, Contract!Spec

-----------------------------------------------------------------------------
(* Sequences.                                                               *)

\* t begins with s.
Begins(s, t) == Len(s) <= Len(t) /\ \A i \in 1 .. Len(s) : s[i] = t[i]

LEMMA BeginsConcat ==
  ASSUME NEW S, NEW s \in Seq(S), NEW t \in Seq(S)
  PROVE  Begins(s, s \o t)
  BY ConcatProperties, LenProperties DEF Begins

LEMMA BeginsAppend ==
  ASSUME NEW S, NEW s \in Seq(S), NEW t \in Seq(S), NEW e \in S, Begins(s, t)
  PROVE  Begins(s, Append(t, e))
  BY AppendProperties, LenProperties DEF Begins

LEMMA BeginsPart ==
  ASSUME NEW S, NEW s \in Seq(S), NEW c \in Seq(S), NEW t \in Seq(S),
         NEW k \in 0 .. Len(c), Begins(s \o c, t)
  PROVE  SubSeq(c, 1, k) \in Seq(S) /\ Begins(s \o SubSeq(c, 1, k), t)
  <1>1. /\ SubSeq(c, 1, k) \in Seq(S) /\ Len(SubSeq(c, 1, k)) = k
        /\ \A i \in 1 .. k : SubSeq(c, 1, k)[i] = c[i]
    BY SubSeqProperties, ElementOfSeq, LenProperties
  <1> DEFINE p == SubSeq(c, 1, k)
  <1> HIDE DEF p
  <1>2. Len(s) \in Nat /\ Len(c) \in Nat /\ Len(t) \in Nat
    BY LenProperties
  <1>3. /\ Len(s \o p) = Len(s) + k
        /\ \A i \in 1 .. Len(s) + k : (s \o p)[i] = IF i <= Len(s) THEN s[i] ELSE p[i - Len(s)]
    BY <1>1, ConcatProperties DEF p
  <1>4. /\ Len(s \o c) = Len(s) + Len(c)
        /\ \A i \in 1 .. Len(s) + Len(c) :
             (s \o c)[i] = IF i <= Len(s) THEN s[i] ELSE c[i - Len(s)]
    BY ConcatProperties
  <1>5. \A i \in 1 .. Len(s) + k : (s \o p)[i] = (s \o c)[i]
    BY <1>1, <1>2, <1>3, <1>4 DEF p
  <1>6. Begins(s \o p, t)
    BY <1>2, <1>3, <1>4, <1>5 DEF Begins
  <1> QED BY <1>1, <1>6 DEF p

LEMMA BeginsIsPart ==
  ASSUME NEW S, NEW s \in Seq(S), NEW t \in Seq(S), Begins(s, t)
  PROVE  \E k \in 0 .. Len(t) : s = SubSeq(t, 1, k)
  <1>1. Len(s) \in 0 .. Len(t)
    BY LenProperties DEF Begins
  <1>2. /\ SubSeq(t, 1, Len(s)) \in Seq(S) /\ Len(SubSeq(t, 1, Len(s))) = Len(s)
        /\ \A i \in 1 .. Len(s) : SubSeq(t, 1, Len(s))[i] = t[i]
    BY <1>1, SubSeqProperties, ElementOfSeq, LenProperties
  <1>3. s = SubSeq(t, 1, Len(s))
    BY <1>2, SeqEqual DEF Begins
  <1> QED BY <1>1, <1>3

\* A sequence falls into its first n elements and the rest.
LEMMA SplitSeq ==
  ASSUME NEW S, NEW q \in Seq(S), NEW n \in 1 .. Len(q)
  PROVE  /\ SubSeq(q, 1, n) \in Seq(S) /\ SubSeq(q, n + 1, Len(q)) \in Seq(S)
         /\ Len(SubSeq(q, 1, n)) = n /\ \A i \in 1 .. n : SubSeq(q, 1, n)[i] = q[i]
         /\ SubSeq(q, 1, n) \o SubSeq(q, n + 1, Len(q)) = q
  <1>1. Len(q) \in Nat /\ \A i \in 1 .. Len(q) : q[i] \in S
    BY LenProperties, ElementOfSeq
  <1>2. SubSeq(q, 1, n) \in Seq(S) /\ Len(SubSeq(q, 1, n)) = n
        /\ \A i \in 1 .. n : SubSeq(q, 1, n)[i] = q[i]
    BY <1>1, SubSeqProperties
  <1>3. SubSeq(q, n + 1, Len(q)) \in Seq(S)
    BY <1>1, SubSeqProperties
  <1>4. SubSeq(q, 1, n) \o SubSeq(q, n + 1, Len(q)) = q
    BY <1>1, ConcatAdjacentSubSeq, SubSeqFull
  <1> QED BY <1>2, <1>3, <1>4

LEMMA AppendLast ==
  ASSUME NEW S, NEW s \in Seq(S), NEW t \in Seq(S), NEW u \in Seq(S), NEW e \in S
  PROVE  (s \o t) \o Append(u, e) = Append((s \o t) \o u, e)
  <1>1. <<e>> \in Seq(S) /\ s \o t \in Seq(S) /\ (s \o t) \o u \in Seq(S)
    BY ConcatProperties
  <1> QED BY <1>1, AppendIsConcat, ConcatAssociative

LEMMA Concat3 ==
  \A S : \A s, t, u \in Seq(S) : (s \o t) \o u = s \o (t \o u)
  BY ConcatAssociative

LEMMA LeastOf ==
  ASSUME NEW T \in SUBSET Nat, T # {}
  PROVE  \E x \in T : \A y \in T : x <= y
  <1> DEFINE R == OpToRel(<, Nat)
  <1>1. IsWellFoundedOn(R, Nat)
    BY NatLessThanWellFounded
  <1>2. \A x, y \in Nat : x < y => <<x, y>> \in R
    BY DEF OpToRel
  <1> HIDE DEF R
  <1>3. PICK x \in T : \A y \in T : ~ (<<y, x>> \in R)
    BY <1>1, WFMin
  <1>4. \A y \in T : ~ (y < x)
    BY <1>2, <1>3, Zenon
  <1> QED BY <1>4

-----------------------------------------------------------------------------
(* The invariant CInv, for use in what follows.                             *)

LEMMA ContractInv == WsSpec => []CInv
  BY InitInv, NextInv, PTL DEF WsSpec

-----------------------------------------------------------------------------
(* Reading.                                                                 *)

\* Whoever has the thread for frames has ended the read, and starts the next one
\* when it gives it back; before the handshake is read nothing else is.
ReadInv ==
  /\ reads \in 0 .. 1
  /\ pc # "idle" => reads = 0 /\ m_internal_state = "PROCESS_CONNECTION"
  /\ m_internal_state \in {"USER_INIT", "TRANSPORT_INIT", "PROCESS_HTTP_REQUEST"} => reads = 0

LEMMA OpeningReads ==
  ASSUME CInv, ReadInv,
         start \/ handle_post_init \/ handle_read_handshake \/ handle_write_http_response
  PROVE  ReadInv'
  <1>1. CASE start
    BY <1>1 DEF start, read_handshake, ReadInv
  <1>2. CASE handle_post_init
    BY <1>2 DEF handle_post_init, read_handshake, CInv, StageInv, ReadInv
  <1>3. CASE handle_read_handshake
    BY <1>3 DEF handle_read_handshake, ReadInv
  <1>4. CASE handle_write_http_response
    BY <1>4 DEF handle_write_http_response, CInv, StageInv, ReadInv
  <1> QED BY <1>1, <1>2, <1>3, <1>4

LEMMA LoopReads ==
  ASSUME CInv, ReadInv, handle_read_frame \/ ReadLoop
  PROVE  ReadInv'
  <1>1. CASE handle_read_frame
    BY <1>1 DEF handle_read_frame, openVars, ReadInv
  <1>2. CASE EndOfChunk
    BY <1>2 DEF EndOfChunk, read_frame, openVars, ReadInv
  <1>3. CASE Return \/ HandleMalformed
    BY <1>3 DEF Return, HandleMalformed, NextIs, openVars, ReadInv
  <1>4. CASE HandleData \/ HandlePingPong \/ HandleClose \/ HandleBadClose
    <2>1. pc # "idle" /\ UNCHANGED <<reads, m_internal_state>>
      BY <1>4 DEF HandleData, HandlePingPong, HandleClose, HandleBadClose, NextIs, ReadOn,
           Dropped, openVars
    <2> QED BY <2>1 DEF ReadInv
  <1> QED BY <1>1, <1>2, <1>3, <1>4 DEF ReadLoop

LEMMA NextReads == ASSUME CInv, ReadInv, [WsNext]_wsVars PROVE ReadInv'
  <1>1. CASE Calls \/ Expire \/ Timeouts \/ write_frame \/ handle_write_frame
             \/ handle_async_shutdown \/ UNCHANGED wsVars
    <2>1. UNCHANGED <<reads, pc, m_internal_state>>
      BY <1>1 DEF Calls, send, ping, close, Expire, Timeouts, handle_post_init_timeout,
           handle_open_handshake_timeout, handle_close_handshake_timeout,
           handle_handshake_timeout, handle_async_shutdown_timeout, write_frame,
           handle_write_frame, handle_async_shutdown, wsVars, openVars, readVars
    <2> QED BY <2>1 DEF ReadInv
  <1> QED BY <1>1, OpeningReads, LoopReads DEF WsNext, Completions

\* Nobody reads into m_buf while somebody else does, whoever sends, closes or
\* times out in between.
THEOREM OneReadHeld == WsSpec => []OneRead
  <1>1. WsInit => ReadInv
    BY DEF WsInit, ReadInv
  <1>2. ReadInv => OneRead
    BY DEF ReadInv, OneRead
  <1> QED BY <1>1, <1>2, NextReads, ContractInv, PTL DEF WsSpec

-----------------------------------------------------------------------------
(* The kinds of steps, as far as writing goes.                              *)

Live == m_state \in {"open", "closing"}

\* A frame is taken: while the connection is open, or a close frame.
Pushes ==
  /\ Live
  /\ \E f \in Outgoing :
       /\ write_push(f)
       /\ \/ m_state = "open" /\ m_state' = "open" /\ f.op # "close" /\ ~f.terminal
          \/ m_state' = "closing" /\ f.op = "close"

\* The connection is opened.
Opens ==
  /\ m_state = "connecting" /\ m_state' = "open" /\ writing' = "none"
  /\ UNCHANGED <<m_send_queue, m_current_msgs, m_write_flag, posted, accepted, out>>

\* Nothing is taken or written, but the connection may end.
Ends == m_state' \in {m_state, "closed"}

Quiet ==
  /\ Ends
  /\ UNCHANGED <<m_send_queue, m_current_msgs, m_write_flag, posted, accepted, out>>
  /\ writing' = writing \/ (m_internal_state # "PROCESS_CONNECTION" /\ writing' # "frames")

\* A connection stays in PROCESS_CONNECTION.
Stays == m_internal_state = "PROCESS_CONNECTION" => m_internal_state' = "PROCESS_CONNECTION"

LEMMA TerminateEnds == ASSUME NEW ts, terminate(ts) PROVE m_state' = "closed"
  <1>1. CASE m_state = "closed"
    BY <1>1 DEF terminate
  <1>2. CASE m_state # "closed"
    BY <1>2 DEF terminate
  <1> QED BY <1>1, <1>2

LEMMA SendCloseFramePushes ==
  ASSUME Live, NEW ack \in BOOLEAN, NEW last \in BOOLEAN, send_close_frame(ack, last)
  PROVE  Pushes
  <1>1. Frame("close", last) \in Outgoing /\ Frame("close", last).op = "close"
    BY DEF Frame, Outgoing
  <1>2. write_push(Frame("close", last)) /\ m_state' = "closing"
    BY DEF send_close_frame
  <1> QED BY <1>1, <1>2 DEF Pushes

LEMMA SendPushes ==
  ASSUME m_state = "open", NEW op \in {"data", "ping", "pong"}, write_push(Frame(op, FALSE)),
         UNCHANGED endVars
  PROVE  Pushes
  <1>1. Frame(op, FALSE) \in Outgoing /\ Frame(op, FALSE).op # "close"
        /\ ~Frame(op, FALSE).terminal
    BY DEF Frame, Outgoing
  <1>2. m_state' = "open"
    BY DEF endVars
  <1> QED BY <1>1, <1>2 DEF Pushes, Live

LEMMA CallSteps == ASSUME Calls PROVE Pushes /\ Stays
  <1>1. ASSUME NEW op \in {"data", "ping"}, m_state = "open", write_push(Frame(op, FALSE)),
               UNCHANGED <<endVars, openVars>>
        PROVE  Pushes /\ Stays
    BY <1>1, SendPushes DEF openVars, Stays
  <1>2. ASSUME NEW code \in CloseCodes, close(code) PROVE Pushes /\ Stays
    <2>1. terminal(code) \in BOOLEAN
      BY DEF terminal
    <2>2. Live /\ send_close_frame(FALSE, terminal(code)) /\ UNCHANGED openVars
      BY <1>2 DEF close, Live
    <2> QED BY <2>1, <2>2, SendCloseFramePushes DEF openVars, Stays
  <1> QED BY <1>1, <1>2 DEF Calls, send, ping, MaySend

LEMMA LoopSteps == ASSUME CInv, ReadLoop PROVE (Pushes \/ Quiet) /\ Stays
  <1>1. CASE Return \/ EndOfChunk \/ HandleData
    BY <1>1 DEF Return, EndOfChunk, HandleData, Dropped, Quiet, Ends, Stays, endVars, openVars,
         writeVars
  <1>2. CASE HandlePingPong
    <2>1. CASE m_state = "open" /\ Head(m_buf) = "ping"
      BY <1>2, <2>1, SendPushes DEF HandlePingPong, openVars, Stays
    <2>2. CASE ~(m_state = "open" /\ Head(m_buf) = "ping")
      BY <1>2, <2>2 DEF HandlePingPong, Dropped, Quiet, Ends, Stays, endVars, openVars, writeVars
    <2> QED BY <2>1, <2>2
  <1>3. CASE HandleClose
    <2>1. CASE m_state = "open" /\ send_close_frame(TRUE, TRUE) /\ UNCHANGED openVars
      BY <2>1, SendCloseFramePushes DEF Live, openVars, Stays
    <2>2. CASE terminate(timers) /\ UNCHANGED <<openVars, writeVars>>
      BY <2>2, TerminateEnds DEF Quiet, Ends, Stays, openVars, writeVars
    <2>3. CASE Dropped
      BY <2>3 DEF Dropped, Quiet, Ends, Stays, endVars, openVars, writeVars
    <2> QED BY <1>3, <2>1, <2>2, <2>3 DEF HandleClose
  <1>4. CASE HandleBadClose
    <2>1. CASE m_state = "closed"
      BY <1>4, <2>1 DEF HandleBadClose, Dropped, Quiet, Ends, Stays, endVars, openVars, writeVars
    <2>2. CASE m_state # "closed"
      <3>1. Live /\ send_close_frame(TRUE, TRUE) /\ UNCHANGED openVars
        BY <1>4, <2>2 DEF HandleBadClose, NextIs, CInv, TypeInv, StageInv, Live
      <3> QED BY <3>1, SendCloseFramePushes DEF openVars, Stays
    <2> QED BY <2>1, <2>2
  <1>5. CASE HandleMalformed
    <2>1. CASE m_state = "open"
      BY <1>5, <2>1, SendCloseFramePushes DEF HandleMalformed, Live, terminal, openVars, Stays
    <2>2. CASE m_state # "open"
      BY <1>5, <2>2, TerminateEnds DEF HandleMalformed, Quiet, Ends, Stays, openVars, writeVars
    <2> QED BY <2>1, <2>2
  <1> QED BY <1>1, <1>2, <1>3, <1>4, <1>5 DEF ReadLoop

LEMMA TimeoutSteps == ASSUME Timeouts \/ Expire \/ UNCHANGED wsVars PROVE Quiet /\ Stays
  BY TerminateEnds DEF Timeouts, handle_post_init_timeout, handle_open_handshake_timeout,
       handle_close_handshake_timeout, handle_handshake_timeout, handle_async_shutdown_timeout,
       Expire, Quiet, Ends, Stays, wsVars, endVars, openVars, readVars, writeVars

LEMMA OpeningSteps ==
  ASSUME CInv,
         start \/ handle_post_init \/ handle_read_handshake \/ handle_write_http_response
  PROVE  (Opens \/ Quiet) /\ Stays
  <1>1. CASE start
    BY <1>1 DEF start, Quiet, Ends, Stays, writeVars
  <1>2. CASE handle_post_init
    <2>1. m_state' \in {m_state, "closed"} /\ UNCHANGED writeVars
      BY <1>2, TerminateEnds DEF handle_post_init, endVars
    <2>2. m_internal_state = "TRANSPORT_INIT"
      BY <1>2 DEF handle_post_init, CInv, StageInv
    <2> QED BY <2>1, <2>2 DEF Quiet, Ends, Stays, writeVars
  <1>3. CASE handle_read_handshake
    <2>1. m_state' \in {m_state, "closed"} /\ writing' \in {writing, "response"}
      BY <1>3, TerminateEnds DEF handle_read_handshake, endVars
    <2>2. m_internal_state = "READ_HTTP_REQUEST"
          /\ UNCHANGED <<m_send_queue, m_current_msgs, m_write_flag, posted, accepted, out>>
      BY <1>3 DEF handle_read_handshake
    <2> QED BY <2>1, <2>2 DEF Quiet, Ends, Stays
  <1>4. CASE handle_write_http_response
    <2>1. m_internal_state = "PROCESS_HTTP_REQUEST" /\ writing' = "none"
          /\ UNCHANGED <<m_send_queue, m_current_msgs, m_write_flag, posted, accepted, out>>
      BY <1>4 DEF handle_write_http_response, CInv, StageInv
    <2>2. m_state' \in {m_state, "closed"} \/ (~cleared /\ m_state' = "open")
      <3>1. UNCHANGED endVars \/ terminate(timers) \/ (~cleared /\ m_state' = "open")
        BY <1>4 DEF handle_write_http_response
      <3> QED BY <3>1, TerminateEnds DEF endVars
    <2>3. ~cleared => m_state = "connecting"
      BY <2>1 DEF CInv, TypeInv, StageInv, EndInv, CallInv
    <2> QED BY <2>1, <2>2, <2>3 DEF Opens, Quiet, Ends, Stays
  <1> QED BY <1>1, <1>2, <1>3, <1>4

LEMMA Steps ==
  ASSUME CInv, [WsNext]_wsVars
  PROVE  /\ Pushes \/ Opens \/ Quiet \/ write_frame \/ handle_write_frame
         /\ Stays
  <1>1. CASE handle_read_frame \/ handle_async_shutdown
    BY <1>1, TerminateEnds DEF handle_read_frame, handle_async_shutdown, Quiet, Ends, Stays,
         endVars, openVars, readVars, writeVars
  <1>2. CASE write_frame \/ handle_write_frame
    BY <1>2 DEF write_frame, handle_write_frame, openVars, Stays
  <1> QED BY <1>1, <1>2, CallSteps, LoopSteps, TimeoutSteps, OpeningSteps DEF WsNext, Completions

-----------------------------------------------------------------------------
(* Writing.                                                                 *)

NoTerminal(s) == \A i \in 1 .. Len(s) : ~s[i].terminal
OnlyLast(s)   == \A i \in 1 .. Len(s) : i < Len(s) => ~s[i].terminal

\* Types; and nothing is taken before the connection is opened.
BaseInv ==
  /\ m_send_queue \in Seq(Outgoing) /\ m_current_msgs \in Seq(Outgoing)
  /\ accepted \in Seq(Outgoing) /\ out \in Seq(Outgoing)
  /\ posted \in Nat
  /\ writing = "frames" => m_internal_state = "PROCESS_CONNECTION"
  /\ m_state = "connecting" =>
       /\ m_send_queue = <<>> /\ m_current_msgs = <<>> /\ accepted = <<>> /\ out = <<>>
       /\ ~m_write_flag

\* m_write_flag tells of a write, until the connection ends; without one a posted
\* write_frame is to come when something waits.
QueueInv ==
  Live => /\ m_write_flag => writing = "frames"
          /\ m_send_queue # <<>> => m_write_flag \/ posted > 0

\* Where the frames taken are, until the connection ends; and what a write that
\* was begun before its end may still put on the wire.
OrderInv ==
  /\ Begins(out, accepted)
  /\ writing = "frames" => Begins(out \o m_current_msgs, accepted)
  /\ Live => /\ out \o m_current_msgs \o m_send_queue = accepted
             /\ ~m_write_flag => m_current_msgs = <<>>

\* A terminal frame ends its write, and nothing is written when it went out.
SilentInv ==
  /\ OnlyLast(out)
  /\ writing = "frames" => NoTerminal(out) /\ OnlyLast(m_current_msgs) /\ m_current_msgs # <<>>
  /\ Live => NoTerminal(out)
  /\ \A i, j \in 1 .. Len(accepted) :
       i < j /\ accepted[i].op = "close" => accepted[j].op = "close"
  /\ m_state = "open" => \A i \in 1 .. Len(accepted) : accepted[i].op # "close"

WriteInv == BaseInv /\ QueueInv /\ OrderInv /\ SilentInv

LEMMA PushWrites == ASSUME CInv, WriteInv, Pushes, Stays PROVE WriteInv'
  <1>1. PICK f \in Outgoing :
          /\ write_push(f)
          /\ \/ m_state = "open" /\ m_state' = "open" /\ f.op # "close" /\ ~f.terminal
             \/ m_state' = "closing" /\ f.op = "close"
    BY DEF Pushes
  <1>2. /\ m_send_queue' = Append(m_send_queue, f) /\ accepted' = Append(accepted, f)
        /\ posted' = IF m_write_flag THEN posted ELSE posted + 1
        /\ UNCHANGED <<m_current_msgs, m_write_flag, writing, out>>
    BY <1>1 DEF write_push
  <1>3. Live /\ Live' /\ (m_state' = "open" => m_state = "open") /\ m_state' # "connecting"
    BY <1>1 DEF Pushes, Live
  <1>4. /\ m_send_queue \in Seq(Outgoing) /\ m_current_msgs \in Seq(Outgoing)
        /\ accepted \in Seq(Outgoing) /\ out \in Seq(Outgoing) /\ posted \in Nat
    BY DEF WriteInv, BaseInv
  <1>5. /\ accepted' \in Seq(Outgoing) /\ Len(accepted') = Len(accepted) + 1
        /\ \A i \in 1 .. Len(accepted) : accepted'[i] = accepted[i]
        /\ accepted'[Len(accepted) + 1] = f
        /\ m_send_queue' \in Seq(Outgoing) /\ Len(accepted) \in Nat
    BY <1>2, <1>4, AppendProperties, LenProperties
  <1>6. BaseInv'
    BY <1>2, <1>3, <1>4, <1>5 DEF WriteInv, BaseInv, Stays
  <1>7. QueueInv'
    BY <1>2, <1>3, <1>4 DEF WriteInv, QueueInv
  <1>8. OrderInv'
    <2>1. Begins(out, accepted)'
      BY <1>2, <1>4, BeginsAppend DEF WriteInv, OrderInv
    <2>2. writing' = "frames" => Begins(out \o m_current_msgs, accepted)'
      <3>1. out \o m_current_msgs \in Seq(Outgoing)
        BY <1>4, ConcatProperties
      <3> QED BY <1>2, <1>4, <3>1, BeginsAppend DEF WriteInv, OrderInv
    <2>3. (out \o m_current_msgs \o m_send_queue)' = accepted'
      <3>1. (out \o m_current_msgs \o m_send_queue)'
              = (out \o m_current_msgs) \o Append(m_send_queue, f)
        BY <1>2
      <3>2. (out \o m_current_msgs) \o Append(m_send_queue, f)
              = Append((out \o m_current_msgs) \o m_send_queue, f)
        BY <1>4, AppendLast
      <3>3. (out \o m_current_msgs) \o m_send_queue = accepted
        BY <1>3 DEF WriteInv, OrderInv
      <3> QED BY <1>2, <3>1, <3>2, <3>3
    <2>4. ~m_write_flag' => m_current_msgs' = <<>>
      BY <1>2, <1>3 DEF WriteInv, OrderInv
    <2> QED BY <2>1, <2>2, <2>3, <2>4 DEF OrderInv
  <1>9. SilentInv'
    <2>1. /\ OnlyLast(out)' /\ NoTerminal(out)'
          /\ writing' = "frames" => OnlyLast(m_current_msgs)' /\ m_current_msgs' # <<>>
      BY <1>2, <1>3 DEF WriteInv, SilentInv, OnlyLast, NoTerminal
    <2>2. \A i, j \in 1 .. Len(accepted') :
            i < j /\ accepted'[i].op = "close" => accepted'[j].op = "close"
      <3> SUFFICES ASSUME NEW i \in 1 .. Len(accepted), NEW j \in 1 .. Len(accepted) + 1, i < j,
                          accepted[i].op = "close"
                   PROVE  accepted'[j].op = "close"
        BY <1>5
      <3>1. m_state # "open" /\ f.op = "close"
        BY <1>1 DEF WriteInv, SilentInv
      <3>2. CASE j \in 1 .. Len(accepted)
        BY <1>5, <3>2 DEF WriteInv, SilentInv
      <3>3. CASE j = Len(accepted) + 1
        BY <1>5, <3>1, <3>3
      <3> QED BY <1>5, <3>2, <3>3
    <2>3. m_state' = "open" => \A i \in 1 .. Len(accepted') : accepted'[i].op # "close"
      BY <1>1, <1>5 DEF WriteInv, SilentInv
    <2> QED BY <2>1, <2>2, <2>3 DEF SilentInv
  <1> QED BY <1>6, <1>7, <1>8, <1>9 DEF WriteInv

LEMMA QuietWrites == ASSUME CInv, WriteInv, Quiet \/ Opens, Stays PROVE WriteInv'
  <1>1. UNCHANGED <<m_send_queue, m_current_msgs, m_write_flag, posted, accepted, out>>
    BY DEF Quiet, Opens
  <1>2. CASE Quiet
    <2>1. /\ m_state' \in {m_state, "closed"} /\ (Live' => Live)
          /\ writing' = "frames" => writing = "frames"
          /\ Live => writing' = writing
      BY <1>2 DEF Quiet, Ends, Live, CInv, StageInv
    <2> QED BY <1>1, <2>1 DEF WriteInv, BaseInv, QueueInv, OrderInv, SilentInv, Stays, Begins,
              NoTerminal, OnlyLast, Live
  <1>3. CASE Opens
    <2>1. m_state = "connecting" /\ m_state' = "open" /\ writing # "frames"
      BY <1>3 DEF Opens, CInv, StageInv, WriteInv, BaseInv
    <2>2. m_send_queue' = <<>> /\ m_current_msgs' = <<>> /\ accepted' = <<>> /\ out' = <<>>
          /\ ~m_write_flag'
      BY <1>1, <2>1 DEF WriteInv, BaseInv
    <2>3. writing' = "none"
      BY <1>3 DEF Opens
    <2>4. <<>> \in Seq(Outgoing) /\ Len(<<>>) = 0 /\ <<>> \o <<>> \o <<>> = <<>>
      BY EmptySeq, ConcatEmptySeq
    <2>5. BaseInv'
      BY <1>1, <2>1, <2>3 DEF WriteInv, BaseInv
    <2>6. QueueInv' /\ OrderInv'
      BY <2>2, <2>3, <2>4 DEF QueueInv, OrderInv, Begins
    <2>7. SilentInv'
      BY <2>2, <2>3, <2>4 DEF SilentInv, OnlyLast, NoTerminal
    <2> QED BY <2>5, <2>6, <2>7 DEF WriteInv
  <1> QED BY <1>2, <1>3

\* A batch is not empty, and at most its last frame is terminal.
LEMMA BatchIs ==
  ASSUME m_send_queue \in Seq(Outgoing), m_send_queue # <<>>
  PROVE  /\ Batch \in 1 .. Len(m_send_queue)
         /\ \A i \in 1 .. Len(m_send_queue) : i < Batch => ~m_send_queue[i].terminal
  <1> DEFINE ends == {i \in DOMAIN m_send_queue : m_send_queue[i].terminal}
  <1>1. Len(m_send_queue) \in Nat \ {0} /\ DOMAIN m_send_queue = 1 .. Len(m_send_queue)
    BY EmptySeq, LenProperties
  <1>2. CASE ends = {}
    BY <1>1, <1>2 DEF Batch
  <1>3. CASE ends # {}
    <2>1. \E i \in ends : \A j \in ends : i <= j
      <3>1. ends \in SUBSET Nat
        BY <1>1
      <3> HIDE DEF ends
      <3> QED BY <1>3, <3>1, LeastOf
    <2>2. Batch = CHOOSE i \in ends : \A j \in ends : i <= j
      BY <1>3 DEF Batch
    <2>3. Batch \in ends /\ \A j \in ends : Batch <= j
      BY <2>1, <2>2
    <2> QED BY <1>1, <2>3
  <1> QED BY <1>2, <1>3

LEMMA FetchWrites == ASSUME CInv, WriteInv, write_frame, Stays PROVE WriteInv'
  <1>1. posted \in Nat /\ posted > 0 /\ posted' = posted - 1
        /\ UNCHANGED <<accepted, out, m_state, m_internal_state>>
    BY DEF write_frame, endVars, openVars, WriteInv, BaseInv
  <1>2. CASE m_write_flag \/ m_send_queue = <<>>
    <2>1. UNCHANGED <<m_send_queue, m_current_msgs, m_write_flag, writing>>
      BY <1>2 DEF write_frame
    <2> QED BY <1>1, <1>2, <2>1 DEF WriteInv, BaseInv, QueueInv, OrderInv, SilentInv, Live, Begins,
              NoTerminal, OnlyLast
  <1>3. CASE ~m_write_flag /\ m_send_queue # <<>>
    <2>1. /\ m_send_queue' = SubSeq(m_send_queue, Batch + 1, Len(m_send_queue))
          /\ m_write_flag' = TRUE
          /\ IF cleared
             THEN UNCHANGED <<m_current_msgs, writing>>
             ELSE m_current_msgs' = SubSeq(m_send_queue, 1, Batch) /\ writing' = "frames"
      BY <1>3 DEF write_frame
    <2>2. /\ m_send_queue \in Seq(Outgoing) /\ m_current_msgs \in Seq(Outgoing)
          /\ accepted \in Seq(Outgoing) /\ out \in Seq(Outgoing) /\ m_state # "connecting"
      BY <1>3 DEF WriteInv, BaseInv
    <2>3. /\ Batch \in 1 .. Len(m_send_queue)
          /\ \A i \in 1 .. Len(m_send_queue) : i < Batch => ~m_send_queue[i].terminal
      BY <1>3, <2>2, BatchIs
    <2> DEFINE msgs == SubSeq(m_send_queue, 1, Batch)
    <2>4. /\ msgs \in Seq(Outgoing) /\ m_send_queue' \in Seq(Outgoing)
          /\ Len(msgs) = Batch /\ \A i \in 1 .. Batch : msgs[i] = m_send_queue[i]
          /\ msgs \o m_send_queue' = m_send_queue
      BY <2>1, <2>2, <2>3, SplitSeq
    <2>5. msgs # <<>> /\ OnlyLast(msgs)
      <3>1. Len(m_send_queue) \in Nat /\ Len(msgs) # 0 /\ Len(<<>>) = 0
        BY <2>2, <2>3, <2>4, LenProperties, EmptySeq
      <3>2. msgs # <<>>
        BY <3>1
      <3>3. OnlyLast(msgs)
        BY <2>3, <2>4, <3>1 DEF OnlyLast
      <3> QED BY <3>2, <3>3
    <2> HIDE DEF msgs
    <2>6. CASE cleared
      <3>1. ~Live' /\ UNCHANGED <<m_current_msgs, writing>>
        BY <1>1, <2>1, <2>6 DEF CInv, EndInv, CallInv, Live
      <3>2. BaseInv'
        BY <1>1, <2>2, <2>4, <3>1 DEF WriteInv, BaseInv
      <3>3. OrderInv' /\ SilentInv' /\ QueueInv'
        BY <1>1, <3>1
           DEF WriteInv, OrderInv, SilentInv, QueueInv, Live, Begins, NoTerminal, OnlyLast
      <3> QED BY <3>2, <3>3 DEF WriteInv
    <2>7. CASE ~cleared
      <3>1. Live /\ m_current_msgs' = msgs /\ writing' = "frames"
        BY <2>1, <2>2, <2>7 DEF CInv, TypeInv, EndInv, CallInv, Live, msgs
      <3>2. m_current_msgs = <<>> /\ out \o m_current_msgs = out
        BY <1>3, <2>2, <3>1, ConcatEmptySeq DEF WriteInv, OrderInv
      <3>3. out \o msgs \o m_send_queue' = accepted
        <4>1. out \o m_send_queue = accepted
          BY <3>1, <3>2 DEF WriteInv, OrderInv
        <4>2. (out \o msgs) \o m_send_queue' = out \o (msgs \o m_send_queue')
          <5>1. msgs \in Seq(Outgoing) /\ m_send_queue' \in Seq(Outgoing)
            BY <2>4
          <5> QED BY <2>2, <5>1, Concat3
        <4> QED BY <2>4, <4>1, <4>2
      <3>4. Begins(out \o msgs, accepted)
        <4>1. out \o msgs \in Seq(Outgoing)
          BY <2>2, <2>4, ConcatProperties
        <4>2. Begins(out \o msgs, (out \o msgs) \o m_send_queue')
          BY <2>4, <4>1, BeginsConcat
        <4> QED BY <3>3, <4>2
      <3>5. BaseInv'
        BY <1>1, <2>2, <2>4, <3>1 DEF WriteInv, BaseInv, CInv, StageInv, Live
      <3>6. QueueInv'
        BY <2>1, <3>1 DEF QueueInv
      <3>7. OrderInv'
        <4>1. Begins(out, accepted)'
          BY <1>1 DEF WriteInv, OrderInv
        <4>2. Begins(out \o m_current_msgs, accepted)'
          BY <1>1, <3>1, <3>4
        <4>3. (out \o m_current_msgs \o m_send_queue)' = accepted'
          BY <1>1, <3>1, <3>3
        <4> QED BY <2>1, <4>1, <4>2, <4>3 DEF OrderInv
      <3>8. SilentInv'
        BY <1>1, <2>5, <3>1 DEF WriteInv, SilentInv, Live, NoTerminal, OnlyLast
      <3> QED BY <3>5, <3>6, <3>7, <3>8 DEF WriteInv
    <2> QED BY <2>6, <2>7
  <1> QED BY <1>2, <1>3

\* What part of a batch goes out behind frames of which none is terminal.
LEMMA PartOnlyLast ==
  ASSUME NEW s \in Seq(Outgoing), NEW c \in Seq(Outgoing), NoTerminal(s), OnlyLast(c),
         NEW k \in 0 .. Len(c)
  PROVE  OnlyLast(s \o SubSeq(c, 1, k))
  <1> DEFINE p == SubSeq(c, 1, k)
  <1>1. Len(s) \in Nat /\ Len(c) \in Nat /\ \A i \in 1 .. Len(c) : c[i] \in Outgoing
    BY LenProperties, ElementOfSeq
  <1>2. p \in Seq(Outgoing) /\ Len(p) = k /\ \A i \in 1 .. k : p[i] = c[i]
    BY <1>1, SubSeqProperties
  <1> HIDE DEF p
  <1>3. /\ Len(s \o p) = Len(s) + k
        /\ \A i \in 1 .. Len(s) + k : (s \o p)[i] = IF i <= Len(s) THEN s[i] ELSE p[i - Len(s)]
    BY <1>2, ConcatProperties
  <1>4. ASSUME NEW i \in 1 .. Len(s) + k, i < Len(s) + k PROVE ~(s \o p)[i].terminal
    <2>1. CASE i <= Len(s)
      BY <1>1, <1>3, <2>1 DEF NoTerminal
    <2>2. CASE i > Len(s)
      <3>1. i - Len(s) \in 1 .. k /\ i - Len(s) < Len(c)
        BY <1>1, <1>4, <2>2
      <3>2. (s \o p)[i] = c[i - Len(s)]
        BY <1>1, <1>2, <1>3, <2>2, <3>1
      <3>3. i - Len(s) \in 1 .. Len(c)
        BY <1>1, <3>1
      <3>4. ~c[i - Len(s)].terminal
        BY <3>1, <3>3 DEF OnlyLast
      <3> QED BY <3>2, <3>4
    <2>3. i <= Len(s) \/ i > Len(s)
      BY <1>1
    <2> QED BY <2>1, <2>2, <2>3, Zenon
  <1>5. OnlyLast(s \o p)
    BY <1>3, <1>4 DEF OnlyLast
  <1> QED BY <1>5 DEF p

\* All of a batch whose last frame is not terminal.
LEMMA AllNoTerminal ==
  ASSUME NEW s \in Seq(Outgoing), NEW c \in Seq(Outgoing), NoTerminal(s), OnlyLast(c),
         ~c[Len(c)].terminal
  PROVE  NoTerminal(s \o c)
  <1>1. Len(s) \in Nat /\ Len(c) \in Nat
    BY LenProperties
  <1>2. \A i \in 1 .. Len(c) : ~c[i].terminal
    BY <1>1 DEF OnlyLast
  <1>3. /\ Len(s \o c) = Len(s) + Len(c)
        /\ \A i \in 1 .. Len(s) + Len(c) : (s \o c)[i] = IF i <= Len(s) THEN s[i] ELSE c[i - Len(s)]
    BY ConcatProperties
  <1> QED BY <1>1, <1>2, <1>3 DEF NoTerminal

LEMMA WrittenWrites == ASSUME CInv, WriteInv, handle_write_frame, Stays PROVE WriteInv'
  <1>1. /\ writing = "frames" /\ writing' = "none"
        /\ UNCHANGED <<m_send_queue, accepted, m_internal_state>>
    BY DEF handle_write_frame, openVars
  <1>2. /\ m_send_queue \in Seq(Outgoing) /\ m_current_msgs \in Seq(Outgoing)
        /\ accepted \in Seq(Outgoing) /\ out \in Seq(Outgoing) /\ posted \in Nat
        /\ Begins(out \o m_current_msgs, accepted)
        /\ NoTerminal(out) /\ OnlyLast(m_current_msgs)
        /\ m_state # "connecting"
    BY <1>1 DEF WriteInv, BaseInv, OrderInv, SilentInv, CInv, StageInv
  <1>3. /\ m_send_queue' \in Seq(Outgoing) /\ accepted' \in Seq(Outgoing) /\ <<>> \in Seq(Outgoing)
        /\ \A i, j \in 1 .. Len(accepted') :
             i < j /\ accepted'[i].op = "close" => accepted'[j].op = "close"
    BY <1>1, <1>2, EmptySeq DEF WriteInv, SilentInv
  \* The connection has ended, and some of the batch is on the wire.
  <1>4. ASSUME NEW k \in 0 .. Len(m_current_msgs), out' = out \o SubSeq(m_current_msgs, 1, k),
               m_state' = "closed", m_current_msgs' \in {m_current_msgs, <<>>}, UNCHANGED posted
        PROVE  WriteInv'
    <2>1. SubSeq(m_current_msgs, 1, k) \in Seq(Outgoing) /\ Begins(out, accepted)'
      BY <1>1, <1>2, <1>4, BeginsPart
    <2>2. out' \in Seq(Outgoing)
      BY <1>2, <1>4, <2>1, ConcatProperties
    <2>3. OnlyLast(out)'
      BY <1>2, <1>4, PartOnlyLast
    <2>4. BaseInv'
      BY <1>1, <1>2, <1>3, <1>4, <2>2 DEF BaseInv
    <2>5. QueueInv' /\ OrderInv' /\ SilentInv'
      BY <1>1, <1>3, <1>4, <2>1, <2>3 DEF QueueInv, OrderInv, SilentInv, Live
    <2> QED BY <2>4, <2>5 DEF WriteInv
  \* It goes on, and all of it is.
  <1>5. ASSUME ~cleared, out' = out \o m_current_msgs, m_current_msgs' = <<>>,
               ~m_current_msgs[Len(m_current_msgs)].terminal, m_write_flag' = FALSE,
               posted' = (IF m_send_queue = <<>> THEN posted ELSE posted + 1), UNCHANGED m_state
        PROVE  WriteInv'
    <2>1. Live
      BY <1>2, <1>5 DEF CInv, TypeInv, EndInv, CallInv, Live
    <2>2. NoTerminal(out)' /\ out' \in Seq(Outgoing)
      BY <1>2, <1>5, AllNoTerminal, ConcatProperties
    <2>3. BaseInv'
      BY <1>1, <1>2, <1>3, <1>5, <2>2 DEF BaseInv
    <2>4. QueueInv'
      BY <1>1, <1>2, <1>5 DEF QueueInv
    <2>5. OrderInv'
      <3>1. (out \o m_current_msgs)' = out \o m_current_msgs
        BY <1>5, <2>2, ConcatEmptySeq
      <3>2. out \o m_current_msgs \o m_send_queue = accepted
        BY <2>1 DEF WriteInv, OrderInv
      <3>3. Begins(out, accepted)'
        BY <1>1, <1>2, <1>5
      <3> QED BY <1>1, <1>5, <3>1, <3>2, <3>3 DEF OrderInv
    <2>6. SilentInv'
      BY <1>1, <1>3, <1>5, <2>2 DEF WriteInv, SilentInv, NoTerminal, OnlyLast
    <2> QED BY <2>3, <2>4, <2>5, <2>6 DEF WriteInv
  <1>6. CASE \E k \in 0 .. Len(m_current_msgs) :
               /\ out' = out \o SubSeq(m_current_msgs, 1, k)
               /\ IF cleared THEN UNCHANGED <<endVars, m_current_msgs>>
                  ELSE terminate(timers) /\ m_current_msgs' = <<>>
               /\ UNCHANGED posted
    <2>1. m_state' = "closed" /\ m_current_msgs' \in {m_current_msgs, <<>>}
      BY <1>6, TerminateEnds DEF endVars, CInv, EndInv, CallInv
    <2> QED BY <1>4, <1>6, <2>1
  <1>7. CASE /\ ~cleared /\ out' = out \o m_current_msgs /\ m_current_msgs' = <<>>
             /\ m_current_msgs[Len(m_current_msgs)].terminal
             /\ terminate(timers) /\ UNCHANGED posted
    <2>1. Len(m_current_msgs) \in 0 .. Len(m_current_msgs)
          /\ SubSeq(m_current_msgs, 1, Len(m_current_msgs)) = m_current_msgs
      BY <1>2, LenProperties, SubSeqFull
    <2> QED BY <1>4, <1>7, <2>1, TerminateEnds
  <1> QED BY <1>5, <1>6, <1>7 DEF handle_write_frame, endVars

LEMMA NextWrites == ASSUME CInv, WriteInv, [WsNext]_wsVars PROVE WriteInv'
  BY Steps, PushWrites, QuietWrites, FetchWrites, WrittenWrites

LEMMA InitWrites == ASSUME WsInit PROVE WriteInv
  <1>1. <<>> \in Seq(Outgoing) /\ Len(<<>>) = 0
    BY EmptySeq
  <1> QED BY <1>1 DEF WsInit, WriteInv, BaseInv, QueueInv, OrderInv, SilentInv, Live, Begins,
            NoTerminal, OnlyLast

LEMMA WritesInv == WsSpec => []WriteInv
  BY InitWrites, NextWrites, ContractInv, PTL DEF WsSpec

\* What a connection has taken to send leaves in that order, and as long as the
\* connection lives all of it is on the wire, in the write or in the queue.
THEOREM InOrderHeld == WsSpec => []InOrder
  <1>1. WriteInv => InOrder
    BY BeginsIsPart DEF WriteInv, BaseInv, OrderInv, Live, InOrder
  <1> QED BY <1>1, WritesInv, PTL

\* A frame never waits with nobody coming for it: send only posts write_frame if
\* no write is under way, and that write's completion looks at the queue again.
THEOREM QueueMovesHeld == WsSpec => []QueueMoves
  <1>1. WriteInv => QueueMoves
    BY DEF WriteInv, QueueInv, Live, QueueMoves
  <1> QED BY <1>1, WritesInv, PTL

\* After a close frame nothing but close frames is written, and nothing at all
\* after the one that ends the connection, whatever was queued behind it.
THEOREM SilentHeld == WsSpec => []SilentAfterClose
  <1>1. WriteInv => SilentAfterClose
    <2> SUFFICES ASSUME WriteInv, NEW i \in DOMAIN out, NEW j \in DOMAIN out, i < j
                 PROVE  ~out[i].terminal /\ (out[i].op = "close" => out[j].op = "close")
      BY DEF SilentAfterClose
    <2>1. /\ DOMAIN out = 1 .. Len(out) /\ Len(out) \in Nat /\ Len(accepted) \in Nat
          /\ Begins(out, accepted) /\ OnlyLast(out)
      BY LenProperties DEF WriteInv, BaseInv, OrderInv, SilentInv
    <2>2. ~out[i].terminal
      BY <2>1 DEF OnlyLast
    <2>3. i \in 1 .. Len(accepted) /\ j \in 1 .. Len(accepted)
          /\ out[i] = accepted[i] /\ out[j] = accepted[j]
      BY <2>1 DEF Begins
    <2> QED BY <2>2, <2>3 DEF WriteInv, SilentInv
  <1> QED BY <1>1, WritesInv, PTL

-----------------------------------------------------------------------------
(* Listening.                                                               *)

\* A frame was taken after which the connection is dropped.
LastTaken == \E i \in 1 .. Len(accepted) : accepted[i].terminal

\* Between handlers a read is under way, unless the connection is about to end.
ListenInv == Live /\ pc = "idle" => reads = 1 \/ LastTaken

\* What was taken stays taken.
LEMMA LastStays == ASSUME CInv, WriteInv, [WsNext]_wsVars, LastTaken PROVE LastTaken'
  <1>1. CASE UNCHANGED accepted
    BY <1>1 DEF LastTaken
  <1>2. ASSUME NEW f \in Outgoing, write_push(f) PROVE LastTaken'
    <2>1. /\ Len(accepted') = Len(accepted) + 1 /\ Len(accepted) \in Nat
          /\ \A i \in 1 .. Len(accepted) : accepted'[i] = accepted[i]
      BY <1>2, AppendProperties, LenProperties DEF write_push, WriteInv, BaseInv
    <2> QED BY <2>1 DEF LastTaken
  <1> QED BY <1>1, <1>2, Steps DEF Pushes, Opens, Quiet, write_frame, handle_write_frame

LEMMA LastAppended ==
  ASSUME NEW s \in Seq(Outgoing), NEW f \in Outgoing, f.terminal
  PROVE  \E i \in 1 .. Len(Append(s, f)) : Append(s, f)[i].terminal
  <1>1. Len(Append(s, f)) = Len(s) + 1 /\ Append(s, f)[Len(s) + 1] = f /\ Len(s) \in Nat
    BY AppendProperties, LenProperties
  <1>2. Len(s) + 1 \in 1 .. Len(Append(s, f))
    BY <1>1
  <1> QED BY <1>1, <1>2, Zenon

LEMMA CloseFrameTaken ==
  ASSUME WriteInv, NEW ack \in BOOLEAN, send_close_frame(ack, TRUE)
  PROVE  LastTaken'
  <1>1. Frame("close", TRUE) \in Outgoing /\ Frame("close", TRUE).terminal
    BY DEF Frame, Outgoing
  <1>2. accepted' = Append(accepted, Frame("close", TRUE)) /\ accepted \in Seq(Outgoing)
    BY DEF send_close_frame, write_push, WriteInv, BaseInv
  <1>3. \E i \in 1 .. Len(accepted') : accepted'[i].terminal
    BY <1>1, <1>2, LastAppended
  <1> QED BY <1>3 DEF LastTaken

LEMMA NextListens ==
  ASSUME CInv, ReadInv, WriteInv, ListenInv, [WsNext]_wsVars
  PROVE  ListenInv'
  <1>1. CASE /\ UNCHANGED <<reads, pc>>
             /\ (Live' => Live)
    BY <1>1, LastStays DEF ListenInv
  <1>2. CASE pc' # "idle" \/ ~Live'
    BY <1>2 DEF ListenInv
  <1>3. CASE EndOfChunk
    <2>1. ~Live' \/ reads' = 1
      BY <1>3 DEF EndOfChunk, read_frame, endVars, ReadInv, CInv, EndInv, CallInv, Live
    <2> QED BY <2>1 DEF ListenInv
  <1>4. CASE HandleMalformed
    <2>1. CASE m_state = "open"
      <3>1. LastTaken'
        BY <1>4, <2>1, CloseFrameTaken DEF HandleMalformed, terminal
      <3> QED BY <3>1 DEF ListenInv
    <2>2. CASE m_state # "open"
      BY <1>4, <2>2, <1>2, TerminateEnds DEF HandleMalformed, Live
    <2> QED BY <2>1, <2>2
  <1>5. CASE handle_read_frame
    <2>1. pc' # "idle" \/ m_state' = "closed"
      BY <1>5, TerminateEnds DEF handle_read_frame, CInv, EndInv, CallInv, endVars
    <2> QED BY <1>2, <2>1 DEF Live
  <1>6. CASE HandleData \/ HandlePingPong \/ HandleClose \/ HandleBadClose \/ Return
    <2>1. pc' # "idle"
      BY <1>6 DEF HandleData, HandlePingPong, HandleClose, HandleBadClose, Return, NextIs, Dropped
    <2> QED BY <1>2, <2>1
  <1>7. CASE start \/ handle_post_init \/ handle_read_handshake \/ handle_write_http_response
    <2>1. ((Live' => Live) /\ m_internal_state # "PROCESS_CONNECTION") \/ pc' # "idle"
      BY <1>7, TerminateEnds DEF start, handle_post_init, handle_read_handshake,
           handle_write_http_response, CInv, StageInv, Live, endVars
    <2>2. Live => m_internal_state = "PROCESS_CONNECTION"
      BY DEF CInv, StageInv, Live
    <2> QED BY <1>2, <2>1, <2>2
  <1>8. CASE Calls \/ Expire \/ Timeouts \/ write_frame \/ handle_write_frame
             \/ handle_async_shutdown \/ UNCHANGED wsVars
    <2>1. UNCHANGED <<reads, pc>>
      BY <1>8 DEF Calls, send, ping, close, Expire, Timeouts, handle_post_init_timeout,
           handle_open_handshake_timeout, handle_close_handshake_timeout,
           handle_handshake_timeout, handle_async_shutdown_timeout, write_frame,
           handle_write_frame, handle_async_shutdown, wsVars, openVars, readVars
    <2>2. ~Opens
      BY <1>8, TerminateEnds, CallSteps, TimeoutSteps
         DEF Opens, Pushes, Live, Quiet, Ends, write_frame, handle_write_frame,
             handle_async_shutdown, endVars
    <2>3. Live' => Live
      BY <2>2, <1>8, Steps, TerminateEnds DEF Pushes, Quiet, Ends, Live, write_frame,
           handle_write_frame, endVars
    <2> QED BY <1>1, <2>1, <2>3
  <1> QED BY <1>3, <1>4, <1>5, <1>6, <1>7, <1>8 DEF WsNext, Completions, ReadLoop

\* A connection that must hear of its peer listens, or is about to be dropped.
THEOREM StillReadingHeld == WsSpec => []StillReading
  <1>1. WsInit => ReadInv /\ ListenInv
    BY DEF WsInit, ReadInv, ListenInv, Live
  <1>2. WriteInv /\ ListenInv => StillReading
    BY LenProperties DEF WriteInv, BaseInv, ListenInv, LastTaken, Live, StillReading
  <1> QED BY <1>1, <1>2, NextReads, NextListens, ContractInv, WritesInv, PTL DEF WsSpec

-----------------------------------------------------------------------------
(* Types.                                                                   *)

\* The types the other invariants do not have.
RestInv ==
  /\ m_internal_state \in {"USER_INIT", "TRANSPORT_INIT", "READ_HTTP_REQUEST",
                           "PROCESS_HTTP_REQUEST", "PROCESS_CONNECTION"}
  /\ m_was_clean \in BOOLEAN /\ m_write_flag \in BOOLEAN
  /\ m_buf \in Seq(Arriving) /\ received \in Nat /\ sent \in Nat
  /\ response \in {"none", "accept", "reject"}
  /\ writing \in {"none", "response", "frames"}
  /\ initing \in BOOLEAN /\ shutting \in BOOLEAN /\ cleared \in BOOLEAN
  /\ pc \in {"idle", "frames", "handler"}
  /\ m_handshake_timer \in {0} \cup DOMAIN timers

\* Timers are not forgotten, and only a timer is remembered.
Refers == m_handshake_timer' \in {0} \cup DOMAIN timers'

LEMMA CancelDomain == ASSUME NEW i PROVE DOMAIN Cancel(i) = DOMAIN timers
  BY DEF Cancel

LEMMA TerminateRefers ==
  ASSUME CInv, RestInv, NEW ts, terminate(ts), DOMAIN ts = DOMAIN timers
  PROVE  Refers /\ shutting' \in BOOLEAN /\ cleared' \in BOOLEAN
  <1>1. CASE m_state = "closed"
    BY <1>1 DEF terminate, RestInv, Refers
  <1>2. CASE m_state # "closed"
    BY <1>2 DEF terminate, RestInv, Refers
  <1> QED BY <1>1, <1>2

LEMMA AppendRefers ==
  ASSUME NEW ts \in Seq(Record), NEW for \in TimerKind
  PROVE  Len(ts) + 1 \in DOMAIN Append(ts, Armed(for))
  <1>1. Armed(for) \in Record
    BY DEF Armed, Record, At
  <1>2. Append(ts, Armed(for)) \in Seq(Record) /\ Len(Append(ts, Armed(for))) = Len(ts) + 1
        /\ Len(ts) \in Nat
    BY <1>1, AppendProperties, LenProperties
  <1>3. DOMAIN Append(ts, Armed(for)) = 1 .. Len(ts) + 1
    BY <1>2, LenProperties
  <1> QED BY <1>2, <1>3

LEMMA ChunksAre == \A b \in Chunks : b \in Seq(Arriving) /\ Len(b) \in Nat
  <1> SUFFICES ASSUME NEW n \in 0 .. MaxFrames - received, NEW b \in [1 .. n -> Arriving]
               PROVE  b \in Seq(Arriving) /\ Len(b) \in Nat
    BY DEF Chunks
  <1>1. n \in Nat
    OBVIOUS
  <1>2. b \in Seq(Arriving)
    BY <1>1
  <1> QED BY <1>2, LenProperties

\* RestInv, but for what only reading and opening change.
OtherTypes ==
  /\ m_internal_state \in {"USER_INIT", "TRANSPORT_INIT", "READ_HTTP_REQUEST",
                           "PROCESS_HTTP_REQUEST", "PROCESS_CONNECTION"}
  /\ m_was_clean \in BOOLEAN /\ m_write_flag \in BOOLEAN /\ sent \in Nat
  /\ response \in {"none", "accept", "reject"}
  /\ writing \in {"none", "response", "frames"}
  /\ initing \in BOOLEAN /\ shutting \in BOOLEAN /\ cleared \in BOOLEAN
  /\ m_handshake_timer \in {0} \cup DOMAIN timers

LEMMA SendCloseFrameTypes ==
  ASSUME CInv, RestInv, NEW ack \in BOOLEAN, NEW last, send_close_frame(ack, last),
         UNCHANGED openVars
  PROVE  OtherTypes'
  <1>1. m_handshake_timer' \in DOMAIN timers'
    BY AppendRefers DEF send_close_frame, CInv, TypeInv, TimerKind
  <1>2. /\ m_was_clean' \in BOOLEAN
        /\ UNCHANGED <<sent, cleared, shutting, m_write_flag, writing, openVars>>
    BY DEF send_close_frame, write_push, RestInv
  <1> QED BY <1>1, <1>2 DEF RestInv, OtherTypes, openVars

LEMMA CallTypes == ASSUME CInv, RestInv, Calls PROVE RestInv'
  <1>1. CASE send \/ ping
    <2>1. /\ sent' \in {sent, sent + 1} /\ UNCHANGED <<m_write_flag, writing>>
          /\ UNCHANGED <<endVars, openVars, readVars>>
      BY <1>1 DEF send, ping, write_push
    <2>2. sent' \in Nat
      BY <2>1 DEF RestInv
    <2> QED BY <2>1, <2>2 DEF endVars, openVars, readVars, RestInv
  <1>2. ASSUME NEW code \in CloseCodes, close(code) PROVE RestInv'
    <2>1. OtherTypes'
      BY <1>2, SendCloseFrameTypes DEF close
    <2>2. UNCHANGED <<m_buf, pc, received>>
      BY <1>2 DEF close
    <2> QED BY <2>1, <2>2 DEF RestInv, OtherTypes
  <1> QED BY <1>1, <1>2 DEF Calls

LEMMA TimeoutTypes ==
  ASSUME CInv, RestInv, Timeouts \/ Expire \/ handle_async_shutdown \/ UNCHANGED wsVars
  PROVE  RestInv'
  <1>1. CASE UNCHANGED wsVars
    BY <1>1 DEF wsVars, endVars, openVars, readVars, writeVars, RestInv
  <1>2. CASE Expire \/ handle_async_shutdown \/ handle_async_shutdown_timeout
    <2>1. /\ DOMAIN timers' = DOMAIN timers /\ shutting' \in BOOLEAN
          /\ UNCHANGED <<m_handshake_timer, cleared, openVars, readVars, writeVars>>
      <3>1. CASE Expire
        BY <3>1 DEF Expire, RestInv
      <3>2. CASE handle_async_shutdown
        BY <3>2, CancelDomain DEF handle_async_shutdown, RestInv
      <3>3. CASE handle_async_shutdown_timeout
        BY <3>3 DEF handle_async_shutdown_timeout, Fired, RestInv
      <3> QED BY <1>2, <3>1, <3>2, <3>3
    <2> QED BY <2>1 DEF RestInv, openVars, readVars, writeVars
  <1>3. ASSUME NEW i, terminate(Fired(i)), UNCHANGED <<openVars, readVars, writeVars>>
        PROVE  RestInv'
    <2>1. DOMAIN Fired(i) = DOMAIN timers
      BY DEF Fired
    <2>2. Refers /\ shutting' \in BOOLEAN /\ cleared' \in BOOLEAN
      BY <1>3, <2>1, TerminateRefers
    <2> QED BY <1>3, <2>2 DEF RestInv, Refers, openVars, readVars, writeVars
  <1> QED BY <1>1, <1>2, <1>3 DEF Timeouts, handle_post_init_timeout, handle_open_handshake_timeout,
            handle_close_handshake_timeout, handle_handshake_timeout

LEMMA OpeningTypes ==
  ASSUME CInv, RestInv,
         start \/ handle_post_init \/ handle_read_handshake \/ handle_write_http_response
  PROVE  RestInv'
  <1> USE DEF RestInv
  <1>1. ASSUME NEW ts \in Seq(Record), read_handshake(ts)
        PROVE  Refers /\ m_internal_state' = "READ_HTTP_REQUEST"
    BY <1>1, AppendRefers DEF read_handshake, Refers, TimerKind
  <1>2. CASE start
    <2>1. UNCHANGED <<shutting, cleared, response, m_was_clean, m_buf, pc, received, writeVars>>
      BY <1>2 DEF start
    <2>2. Refers /\ m_internal_state' \in {"READ_HTTP_REQUEST", "TRANSPORT_INIT"}
          /\ initing' \in BOOLEAN
      <3>1. CASE Secure
        <4>1. timers' = Append(timers, Armed("post_init")) /\ UNCHANGED m_handshake_timer
              /\ m_internal_state' = "TRANSPORT_INIT" /\ initing' = TRUE
          BY <1>2, <3>1 DEF start
        <4>2. /\ Armed("post_init") \in Record /\ timers \in Seq(Record)
              /\ DOMAIN timers = 1 .. Len(timers) /\ Len(timers) \in Nat
          BY LenProperties DEF CInv, TypeInv, Armed, Record, At, TimerKind
        <4>3. timers' \in Seq(Record) /\ Len(timers') = Len(timers) + 1
          BY <4>1, <4>2, AppendProperties
        <4>4. DOMAIN timers' = 1 .. Len(timers) + 1
          BY <4>3, LenProperties
        <4> QED BY <4>1, <4>2, <4>4 DEF Refers
      <3>2. CASE ~Secure
        BY <1>1, <1>2, <3>2 DEF start, CInv, TypeInv
      <3> QED BY <3>1, <3>2
    <2> QED BY <2>1, <2>2 DEF Refers, writeVars
  <1>3. CASE handle_post_init
    <2>1. /\ initing' = FALSE
          /\ UNCHANGED <<response, m_was_clean, m_buf, pc, received, writeVars>>
      BY <1>3 DEF handle_post_init
    <2>2. PICK i \in Timer("post_init") :
            \/ UNCHANGED <<endVars, m_internal_state, reads>>
            \/ read_handshake(Cancel(i)) /\ UNCHANGED <<cleared, shutting>>
            \/ terminate(Cancel(i)) /\ UNCHANGED m_internal_state
      BY <1>3 DEF handle_post_init
    <2>3. Cancel(i) \in Seq(Record) /\ DOMAIN Cancel(i) = DOMAIN timers
      BY CancelDomain, CancelKeeps DEF CInv, Keeps, Timer
    <2>4. /\ Refers /\ shutting' \in BOOLEAN /\ cleared' \in BOOLEAN
          /\ m_internal_state' \in {m_internal_state, "READ_HTTP_REQUEST"}
      BY <1>1, <2>2, <2>3, TerminateRefers DEF endVars, Refers
    <2> QED BY <2>1, <2>4 DEF Refers, writeVars
  <1>4. CASE handle_read_handshake
    <2>1. /\ Refers /\ shutting' \in BOOLEAN /\ cleared' \in BOOLEAN
      <3>1. UNCHANGED endVars \/ terminate(timers)
        BY <1>4 DEF handle_read_handshake
      <3> QED BY <3>1, TerminateRefers DEF endVars, Refers
    <2>2. m_buf' \in Seq(Arriving) /\ received' \in Nat
      BY <1>4, ChunksAre DEF handle_read_handshake
    <2>3. /\ m_internal_state' \in {m_internal_state, "PROCESS_HTTP_REQUEST"}
          /\ response' \in {response, "reject", "accept"} /\ writing' \in {writing, "response"}
          /\ UNCHANGED <<initing, m_was_clean, pc, m_write_flag, sent>>
      BY <1>4 DEF handle_read_handshake
    <2> QED BY <2>1, <2>2, <2>3 DEF Refers
  <1>5. CASE handle_write_http_response
    <2>1. /\ Refers /\ shutting' \in BOOLEAN /\ cleared' \in BOOLEAN
      <3>1. \/ UNCHANGED endVars \/ terminate(timers)
            \/ m_handshake_timer' = 0 /\ UNCHANGED <<cleared, shutting>>
        BY <1>5 DEF handle_write_http_response
      <3> QED BY <3>1, TerminateRefers DEF endVars, Refers
    <2>2. /\ m_internal_state' \in {m_internal_state, "PROCESS_CONNECTION"}
          /\ pc' \in {pc, "handler"} /\ writing' = "none"
          /\ UNCHANGED <<response, initing, m_was_clean, m_buf, received, m_write_flag, sent>>
      BY <1>5 DEF handle_write_http_response
    <2> QED BY <2>1, <2>2 DEF Refers
  <1> QED BY <1>2, <1>3, <1>4, <1>5

LEMMA WriteTypes == ASSUME CInv, RestInv, write_frame \/ handle_write_frame PROVE RestInv'
  <1>1. CASE write_frame
    <2>1. /\ m_write_flag' \in BOOLEAN /\ writing' \in {writing, "frames"}
          /\ UNCHANGED <<sent, endVars, openVars, readVars>>
      BY <1>1 DEF write_frame, RestInv
    <2> QED BY <2>1 DEF RestInv, endVars, openVars, readVars
  <1>2. CASE handle_write_frame
    <2>1. UNCHANGED endVars \/ terminate(timers)
      BY <1>2 DEF handle_write_frame
    <2>2. Refers /\ shutting' \in BOOLEAN /\ cleared' \in BOOLEAN
      BY <2>1, TerminateRefers DEF endVars, Refers, RestInv
    <2>3. /\ m_write_flag' \in {m_write_flag, FALSE} /\ writing' = "none"
          /\ UNCHANGED <<sent, openVars, readVars>>
      BY <1>2 DEF handle_write_frame
    <2> QED BY <2>2, <2>3 DEF RestInv, Refers, openVars, readVars
  <1> QED BY <1>1, <1>2

LEMMA ReadFrameTypes == ASSUME CInv, RestInv, handle_read_frame PROVE RestInv'
  <1>1. UNCHANGED endVars \/ terminate(timers)
    BY DEF handle_read_frame
  <1>2. Refers /\ shutting' \in BOOLEAN /\ cleared' \in BOOLEAN
    BY <1>1, TerminateRefers DEF endVars, Refers, RestInv
  <1>3. m_buf' \in Seq(Arriving) /\ received' \in Nat /\ pc' \in {pc, "frames"}
    BY ChunksAre DEF handle_read_frame, RestInv
  <1>4. UNCHANGED <<openVars, m_was_clean, writeVars>>
    BY DEF handle_read_frame
  <1> QED BY <1>2, <1>3, <1>4 DEF RestInv, Refers, openVars, writeVars

LEMMA LoopTypes == ASSUME CInv, RestInv, ReadLoop PROVE RestInv'
  <1>1. CASE Return \/ EndOfChunk
    <2>1. pc' \in {"idle", "frames"} /\ UNCHANGED <<endVars, openVars, m_was_clean, m_buf,
                                                    received, writeVars>>
      BY <1>1 DEF Return, EndOfChunk
    <2> QED BY <2>1 DEF RestInv, endVars, openVars, writeVars
  <1>2. ASSUME m_buf # <<>>, ReadOn PROVE m_buf' \in Seq(Arriving) /\ received' \in Nat
    BY <1>2, HeadTailProperties DEF ReadOn, RestInv
  <1>3. CASE HandleData \/ HandlePingPong
    <2>1. /\ pc' \in {pc, "handler"}
          /\ UNCHANGED <<m_internal_state, m_was_clean, m_write_flag, sent, response, writing,
                         initing, shutting, cleared, m_handshake_timer, timers>>
      BY <1>3 DEF HandleData, HandlePingPong, write_push, Dropped, endVars, openVars, writeVars
    <2>2. m_buf # <<>> /\ ReadOn
      BY <1>3 DEF HandleData, HandlePingPong, NextIs
    <2> QED BY <1>2, <2>1, <2>2 DEF RestInv
  <1>4. ASSUME m_buf # <<>>, ReadOn, UNCHANGED <<openVars, pc>>,
               \/ send_close_frame(TRUE, TRUE)
               \/ terminate(timers) /\ m_was_clean' = TRUE /\ UNCHANGED writeVars
               \/ UNCHANGED <<endVars, m_was_clean, writeVars>>
        PROVE  RestInv'
    <2>1. m_buf' \in Seq(Arriving) /\ received' \in Nat
      BY <1>2, <1>4
    <2>2. CASE send_close_frame(TRUE, TRUE)
      <3>1. OtherTypes'
        BY <1>4, <2>2, SendCloseFrameTypes
      <3> QED BY <1>4, <2>1, <3>1 DEF RestInv, OtherTypes
    <2>3. CASE terminate(timers) /\ m_was_clean' = TRUE /\ UNCHANGED writeVars
      <3>1. Refers /\ shutting' \in BOOLEAN /\ cleared' \in BOOLEAN
        BY <2>3, TerminateRefers
      <3> QED BY <1>4, <2>1, <2>3, <3>1 DEF RestInv, Refers, openVars, writeVars
    <2>4. CASE UNCHANGED <<endVars, m_was_clean, writeVars>>
      BY <1>4, <2>1, <2>4 DEF RestInv, endVars, openVars, writeVars
    <2> QED BY <1>4, <2>2, <2>3, <2>4
  <1>5. CASE HandleClose \/ HandleBadClose
    BY <1>4, <1>5 DEF HandleClose, HandleBadClose, NextIs, Dropped
  <1>6. CASE HandleMalformed
    <2>1. m_buf' = <<>> /\ pc' = "idle" /\ UNCHANGED <<openVars, received>>
      BY <1>6 DEF HandleMalformed
    <2>2. CASE m_state = "open"
      <3>1. OtherTypes'
        BY <1>6, <2>1, <2>2, SendCloseFrameTypes DEF HandleMalformed
      <3> QED BY <2>1, <3>1, EmptySeq DEF RestInv, OtherTypes
    <2>3. CASE m_state # "open"
      <3>1. terminate(timers) /\ UNCHANGED <<m_was_clean, writeVars>>
        BY <1>6, <2>3 DEF HandleMalformed
      <3>2. Refers /\ shutting' \in BOOLEAN /\ cleared' \in BOOLEAN
        BY <3>1, TerminateRefers
      <3> QED BY <2>1, <3>1, <3>2, EmptySeq DEF RestInv, Refers, openVars, writeVars
    <2> QED BY <2>2, <2>3
  <1> QED BY <1>1, <1>3, <1>5, <1>6 DEF ReadLoop

\* A connection's variables keep their types; so no read is completed and no
\* write_frame taken from the io_service that was not begun or posted before.
THEOREM WsTypes == WsSpec => []WsTypeOK
  <1>1. WsInit => RestInv /\ ReadInv
    <2>1. <<>> \in Seq(Arriving)
      BY EmptySeq
    <2>2. WsInit => /\ m_was_clean \in BOOLEAN /\ m_write_flag \in BOOLEAN /\ initing \in BOOLEAN
                    /\ shutting \in BOOLEAN /\ cleared \in BOOLEAN
      BY Zenon DEF WsInit
    <2> QED BY <2>1, <2>2 DEF WsInit, RestInv, ReadInv
  <1>2. CInv /\ RestInv /\ [WsNext]_wsVars => RestInv'
    BY CallTypes, TimeoutTypes, OpeningTypes, WriteTypes, ReadFrameTypes, LoopTypes
       DEF WsNext, Completions
  <1>3. CInv /\ RestInv /\ ReadInv /\ WriteInv => WsTypeOK
    BY DEF CInv, TypeInv, RestInv, ReadInv, WriteInv, BaseInv, WsTypeOK, Record, At
  <1> QED BY <1>1, <1>2, <1>3, ContractInv, WritesInv, NextReads, PTL DEF WsSpec

=============================================================================
