---------------------------- MODULE WsConnection ----------------------------
(***************************************************************************)
(* One server-side websocketpp connection on the asio transport, from      *)
(* start() to the termination handler.  The io_service has one thread, so  *)
(* every completion handler is one action, except that the loop over the   *)
(* frames of a read gives control to the application once per message; pc  *)
(* says who has it.  A read delivers frames, parsed elsewhere (WsFrames);  *)
(* a partial frame is a read of no frame.                                  *)
(***************************************************************************)
EXTENDS Naturals, Sequences, FiniteSets

CONSTANTS
  Secure,          \* the TLS socket policy (asynchronous init and shutdown)?
  CloseCodes,      \* codes the application may close with
  MaxFrames,       \* bound: frames received
  MaxTaken         \* bound: frames taken when the application sends another

ASSUME WsConnectionAssumption ==
  /\ Secure \in BOOLEAN
  /\ CloseCodes \subseteq {"going_away", "policy_violation"}
  /\ MaxFrames \in Nat /\ MaxTaken \in Nat

VARIABLES
  m_state,            \* session::state
  m_internal_state,   \* istate
  m_was_clean,
  m_handshake_timer,  \* index into timers, 0 is null
  m_send_queue, m_current_msgs, m_write_flag,
  m_buf,              \* frames read and not consumed
  response,           \* the HTTP response being written
  timers,             \* every timer set, in order; never forgotten
  cleared,            \* async_shutdown has dropped the transport's handlers
  initing, reads, writing, shutting,   \* asynchronous operations under way
  tstat,              \* what handle_terminate is bound to
  posted,             \* calls of write_frame posted to the io_service
  pc,                 \* "idle", "frames" (the read loop) or "handler"
  received, calls, accepted, sent, out \* history: frames received, handlers
                                       \* called, frames and messages taken,
                                       \* frames on the wire

\* What terminate changes, what only the opening, reading and writing change.
endVars   == <<m_state, m_handshake_timer, timers, cleared, shutting, tstat, calls>>
openVars  == <<m_internal_state, response, initing>>
readVars  == <<m_was_clean, m_buf, reads, pc, received>>
writeVars == <<m_send_queue, m_current_msgs, m_write_flag, writing, posted,
               accepted, sent, out>>
wsVars    == <<endVars, openVars, readVars, writeVars>>

Arriving  == {"data", "ping", "pong", "close", "badclose", "malformed"}
Outgoing  == [op : {"data", "ping", "pong", "close"}, terminal : BOOLEAN]
TimerKind == {"post_init", "open", "close", "shutdown"}

\* Is a code one that drops the connection once the close frame is written?
terminal(code) == code \in {"protocol_error", "policy_violation"}

WsTypeOK ==
  /\ m_state \in {"connecting", "open", "closing", "closed"}
  /\ m_internal_state \in {"USER_INIT", "TRANSPORT_INIT", "READ_HTTP_REQUEST",
                           "PROCESS_HTTP_REQUEST", "PROCESS_CONNECTION"}
  /\ m_was_clean \in BOOLEAN /\ m_write_flag \in BOOLEAN
  /\ m_send_queue \in Seq(Outgoing) /\ m_current_msgs \in Seq(Outgoing)
  /\ accepted \in Seq(Outgoing) /\ out \in Seq(Outgoing)
  /\ m_buf \in Seq(Arriving)
  /\ response \in {"none", "accept", "reject"}
  /\ timers \in Seq([for : TimerKind, at : {"armed", "off", "expired", "fired"}])
  /\ m_handshake_timer \in {0} \cup DOMAIN timers
  /\ cleared \in BOOLEAN /\ initing \in BOOLEAN /\ shutting \in BOOLEAN
  /\ reads \in Nat /\ received \in Nat /\ sent \in Nat
  /\ writing \in {"none", "response", "frames"}
  /\ tstat \in {"unknown", "failed", "closed"}
  /\ posted \in Nat
  /\ pc \in {"idle", "frames", "handler"}
  /\ calls \in [{"open", "message", "close", "fail"} -> Nat]

WsInit ==
  /\ m_state = "connecting" /\ m_internal_state = "USER_INIT"
  /\ m_was_clean = FALSE /\ m_handshake_timer = 0
  /\ m_send_queue = <<>> /\ m_current_msgs = <<>> /\ m_write_flag = FALSE
  /\ m_buf = <<>> /\ response = "none" /\ timers = <<>>
  /\ cleared = FALSE /\ initing = FALSE /\ reads = 0
  /\ writing = "none" /\ shutting = FALSE /\ tstat = "unknown"
  /\ posted = 0 /\ pc = "idle" /\ received = 0
  /\ calls = [h \in {"open", "message", "close", "fail"} |-> 0]
  /\ accepted = <<>> /\ sent = 0 /\ out = <<>>

-----------------------------------------------------------------------------
(* Timers.  cancel() stops a timer that is running; one that has expired is *)
(* in the io_service's queue already and its handler will run all the same. *)

Armed(for) == [for |-> for, at |-> "armed"]
Cancel(i)  == IF i # 0 /\ timers[i].at = "armed"
              THEN [timers EXCEPT ![i].at = "off"] ELSE timers
Late(i)    == timers[i].at \in {"expired", "fired"}   \* expires_from_now() < 0
Timer(for) == {i \in DOMAIN timers : timers[i].for = for}

Expire ==
  \E i \in DOMAIN timers :
    /\ timers[i].at = "armed"
    /\ timers' = [timers EXCEPT ![i].at = "expired"]
    /\ UNCHANGED <<m_state, m_handshake_timer, cleared, shutting, tstat, calls,
                   openVars, readVars, writeVars>>

Fired(i) == [timers EXCEPT ![i].at = "fired"]

-----------------------------------------------------------------------------
(* Ending.                                                                  *)

\* The application's handler, as handle_terminate chooses it.
Called(t) == [calls EXCEPT ![IF t = "failed" THEN "fail" ELSE "close"] = @ + 1]

\* terminate(ec), ts being the timers as the caller leaves them.  A plain socket
\* shuts down at once, so its handlers run before terminate returns.
terminate(ts) ==
  IF m_state = "closed"
  THEN timers' = ts /\ UNCHANGED <<m_state, m_handshake_timer, cleared, shutting, tstat, calls>>
  ELSE LET t     == IF m_state = "connecting" THEN "failed" ELSE "closed"
           i     == m_handshake_timer
           quiet == IF i # 0 /\ ts[i].at = "armed" THEN [ts EXCEPT ![i].at = "off"] ELSE ts
       IN  /\ m_state' = "closed"
           /\ m_handshake_timer' = 0
           /\ cleared' = TRUE
           /\ tstat' = t
           /\ IF Secure
              THEN /\ timers' = Append(quiet, Armed("shutdown"))
                   /\ shutting' = TRUE
                   /\ UNCHANGED calls
              ELSE /\ timers' = quiet
                   /\ calls' = Called(t)
                   /\ UNCHANGED shutting

\* The socket's shutdown has come to an end, with or without an error.
handle_async_shutdown ==
  /\ pc = "idle" /\ shutting
  /\ shutting' = FALSE
  /\ \E i \in Timer("shutdown") :
       IF Late(i) THEN UNCHANGED <<timers, calls>>
       ELSE timers' = Cancel(i) /\ calls' = Called(tstat)
  /\ UNCHANGED <<m_state, m_handshake_timer, cleared, tstat, openVars, readVars, writeVars>>

handle_async_shutdown_timeout ==
  /\ pc = "idle"
  /\ \E i \in Timer("shutdown") :
       /\ timers[i].at = "expired"
       /\ timers' = Fired(i)
       /\ calls' = Called(tstat)
  /\ UNCHANGED <<m_state, m_handshake_timer, cleared, shutting, tstat,
                 openVars, readVars, writeVars>>

-----------------------------------------------------------------------------
(* Opening.                                                                 *)

\* Mutant: no timer watches over the handshake.
read_handshakeNoTimer(ts) ==
  /\ m_internal_state' = "READ_HTTP_REQUEST"
  /\ timers' = ts
  /\ m_handshake_timer' = 0
  /\ reads' = reads + 1

\* read_handshake(1), ts being the timers before.
read_handshake(ts) ==
  /\ m_internal_state' = "READ_HTTP_REQUEST"
  /\ timers' = Append(ts, Armed("open"))
  /\ m_handshake_timer' = Len(ts) + 1
  /\ reads' = reads + 1

\* start(): a plain socket needs no initialisation of its own, a TLS one shakes
\* hands first.
start ==
  /\ pc = "idle" /\ m_internal_state = "USER_INIT"
  /\ IF Secure
     THEN /\ m_internal_state' = "TRANSPORT_INIT"
          /\ timers' = Append(timers, Armed("post_init"))
          /\ initing' = TRUE
          /\ UNCHANGED <<m_handshake_timer, reads>>
     ELSE read_handshake(timers) /\ UNCHANGED initing
  /\ UNCHANGED <<m_state, cleared, shutting, tstat, calls, response,
                 m_was_clean, m_buf, pc, received, writeVars>>

\* handle_post_init and handle_transport_init.
handle_post_init ==
  /\ pc = "idle" /\ initing
  /\ initing' = FALSE
  /\ \E i \in Timer("post_init") :
       \/ Late(i) /\ UNCHANGED <<endVars, m_internal_state, reads>>
       \/ /\ ~Late(i)
          /\ read_handshake(Cancel(i))
          /\ UNCHANGED <<m_state, cleared, shutting, tstat, calls>>
       \/ /\ ~Late(i)                            \* the TLS handshake failed
          /\ terminate(Cancel(i))
          /\ UNCHANGED <<m_internal_state, reads>>
  /\ UNCHANGED <<response, m_was_clean, m_buf, pc, received, writeVars>>

handle_post_init_timeout ==
  /\ pc = "idle"
  /\ \E i \in Timer("post_init") : timers[i].at = "expired" /\ terminate(Fired(i))
  /\ UNCHANGED <<openVars, readVars, writeVars>>

\* A chunk of bytes: the frames it completes.
Chunks == UNION {[1 .. n -> Arriving] : n \in 0 .. MaxFrames - received}

\* An incomplete request is read on, with the timer running: not a step.  With
\* a complete one the response is written, whatever is wrong with the request.
handle_read_handshake ==
  /\ pc = "idle" /\ reads = 1 /\ m_internal_state = "READ_HTTP_REQUEST"
  /\ reads' = 0
  /\ \/ cleared /\ UNCHANGED <<endVars, m_internal_state, response, writing, m_buf, received>>
     \/ /\ ~cleared
        /\ terminate(timers)                     \* end of file or an error
        /\ UNCHANGED <<m_internal_state, response, writing, m_buf, received>>
     \/ /\ ~cleared
        /\ m_internal_state' = "PROCESS_HTTP_REQUEST"
        /\ writing' = "response"
        /\ \/ response' = "reject" /\ UNCHANGED <<m_buf, received>>
           \/ /\ response' = "accept"
              /\ m_buf' \in Chunks               \* frames behind the request
              /\ received' = received + Len(m_buf')
        /\ UNCHANGED endVars
  /\ UNCHANGED <<initing, m_was_clean, pc, m_send_queue, m_current_msgs,
                 m_write_flag, posted, accepted, sent, out>>

handle_write_http_response ==
  /\ pc = "idle" /\ writing = "response"
  /\ writing' = "none"
  /\ \/ cleared /\ UNCHANGED <<endVars, m_internal_state, pc>>
     \/ ~cleared /\ terminate(timers) /\ UNCHANGED <<m_internal_state, pc>>   \* an error
     \/ /\ ~cleared /\ response = "reject"
        /\ terminate(timers)
        /\ UNCHANGED <<m_internal_state, pc>>
     \/ /\ ~cleared /\ response = "accept"
        /\ timers' = Cancel(m_handshake_timer)
        /\ m_handshake_timer' = 0
        /\ m_internal_state' = "PROCESS_CONNECTION"
        /\ m_state' = "open"
        /\ calls' = [calls EXCEPT !["open"] = @ + 1]
        /\ pc' = "handler"
        /\ UNCHANGED <<cleared, shutting, tstat>>
  /\ UNCHANGED <<response, initing, m_was_clean, m_buf, reads, received,
                 m_send_queue, m_current_msgs, m_write_flag, posted, accepted, sent, out>>

\* The handlers of both handshake timers: an expired one terminates.
handle_handshake_timeout(for) ==
  /\ pc = "idle"
  /\ \E i \in Timer(for) : timers[i].at = "expired" /\ terminate(Fired(i))
  /\ UNCHANGED <<openVars, readVars, writeVars>>

handle_open_handshake_timeout  == handle_handshake_timeout("open")
handle_close_handshake_timeout == handle_handshake_timeout("close")

-----------------------------------------------------------------------------
(* Writing.                                                                 *)

Frame(op, last) == [op |-> op, terminal |-> last]

\* write_push, and the post of write_frame unless a write is outstanding.
write_push(f) ==
  /\ m_send_queue' = Append(m_send_queue, f)
  /\ accepted' = Append(accepted, f)
  /\ posted' = IF m_write_flag THEN posted ELSE posted + 1
  /\ UNCHANGED <<m_current_msgs, m_write_flag, writing, out>>

\* The application has the thread: a handler of this connection or another one.
Application == pc \in {"idle", "handler"}

\* Every call below is refused (invalid_state) unless the connection is open.
MaySend == Application /\ m_state = "open" /\ Len(accepted) < MaxTaken

send ==
  /\ MaySend
  /\ write_push(Frame("data", FALSE))
  /\ sent' = sent + 1
  /\ UNCHANGED <<endVars, openVars, readVars>>

\* Mutant: only a closed connection refuses.
pingWhileClosing ==
  /\ Application /\ m_state \in {"open", "closing"} /\ Len(accepted) < MaxTaken
  /\ write_push(Frame("ping", FALSE))
  /\ UNCHANGED <<sent, endVars, openVars, readVars>>

ping ==
  /\ MaySend
  /\ write_push(Frame("ping", FALSE))
  /\ UNCHANGED <<sent, endVars, openVars, readVars>>

\* Mutant: no timer watches over the close handshake.
send_close_frameNoTimer(ack, last) ==
  /\ m_state' = "closing"
  /\ m_was_clean' = (m_was_clean \/ ack)
  /\ write_push(Frame("close", last))
  /\ UNCHANGED <<sent, m_handshake_timer, timers, cleared, shutting, tstat, calls>>

\* send_close_frame(code, reason, ack, last)
send_close_frame(ack, last) ==
  /\ m_state' = "closing"
  /\ m_was_clean' = (m_was_clean \/ ack)
  /\ timers' = Append(timers, Armed("close"))
  /\ m_handshake_timer' = Len(timers) + 1
  /\ write_push(Frame("close", last))
  /\ UNCHANGED <<sent, cleared, shutting, tstat, calls>>

close(code) ==
  /\ Application /\ m_state = "open"
  /\ send_close_frame(FALSE, terminal(code))
  /\ UNCHANGED <<openVars, m_buf, reads, pc, received>>

\* write_frame takes everything up to a terminal message in one write.  After
\* async_shutdown the write is refused, and handle_write_frame terminates again.
Batch == LET ends == {i \in DOMAIN m_send_queue : m_send_queue[i].terminal} IN
         IF ends = {} THEN Len(m_send_queue) ELSE CHOOSE i \in ends : \A j \in ends : i <= j

\* Mutant: an outstanding write is not waited for.
write_frameAlways ==
  /\ pc = "idle" /\ posted > 0
  /\ posted' = posted - 1
  /\ IF m_send_queue = <<>> \/ cleared
     THEN UNCHANGED <<m_send_queue, m_current_msgs, m_write_flag, writing>>
     ELSE /\ m_send_queue' = SubSeq(m_send_queue, Batch + 1, Len(m_send_queue))
          /\ m_write_flag' = TRUE
          /\ m_current_msgs' = SubSeq(m_send_queue, 1, Batch) /\ writing' = "frames"
  /\ UNCHANGED <<accepted, sent, out, endVars, openVars, readVars>>

write_frame ==
  /\ pc = "idle" /\ posted > 0
  /\ posted' = posted - 1
  /\ IF m_write_flag \/ m_send_queue = <<>>
     THEN UNCHANGED <<m_send_queue, m_current_msgs, m_write_flag, writing>>
     ELSE /\ m_send_queue' = SubSeq(m_send_queue, Batch + 1, Len(m_send_queue))
          /\ m_write_flag' = TRUE
          /\ IF cleared
             THEN UNCHANGED <<m_current_msgs, writing>>
             ELSE m_current_msgs' = SubSeq(m_send_queue, 1, Batch) /\ writing' = "frames"
  /\ UNCHANGED <<accepted, sent, out, endVars, openVars, readVars>>

\* Mutant: what was queued during the write is left for the next send.
handle_write_frameNoMore ==
  /\ pc = "idle" /\ writing = "frames"
  /\ writing' = "none"
  /\ out' = out \o m_current_msgs
  /\ m_current_msgs' = <<>>
  /\ m_write_flag' = FALSE
  /\ IF cleared THEN UNCHANGED endVars
     ELSE IF m_current_msgs[Len(m_current_msgs)].terminal THEN terminate(timers)
     ELSE UNCHANGED endVars
  /\ UNCHANGED <<m_send_queue, posted, accepted, sent, openVars, readVars>>

\* The write completes; an error leaves any part of it on the wire.
handle_write_frame ==
  /\ pc = "idle" /\ writing = "frames"
  /\ writing' = "none"
  /\ \/ /\ \E k \in 0 .. Len(m_current_msgs) : out' = out \o SubSeq(m_current_msgs, 1, k)
        /\ IF cleared
           THEN UNCHANGED <<endVars, m_current_msgs>>
           ELSE terminate(timers) /\ m_current_msgs' = <<>>
        /\ UNCHANGED <<m_write_flag, posted>>
     \/ /\ ~cleared
        /\ out' = out \o m_current_msgs
        /\ m_current_msgs' = <<>>
        /\ IF m_current_msgs[Len(m_current_msgs)].terminal
           THEN terminate(timers) /\ UNCHANGED <<m_write_flag, posted>>
           ELSE /\ m_write_flag' = FALSE
                /\ posted' = IF m_send_queue = <<>> THEN posted
                             ELSE posted + 1
                /\ UNCHANGED endVars
  /\ UNCHANGED <<m_send_queue, accepted, sent, openVars, readVars>>

-----------------------------------------------------------------------------
(* Reading.                                                                 *)

\* read_frame: one more read (the server never pauses reading); refused after
\* async_shutdown.
read_frame == reads' = IF ~cleared THEN reads + 1 ELSE reads

\* Mutant: the handler runs without a read that was started.
handle_read_frameUnasked ==
  /\ pc = "idle" /\ m_internal_state = "PROCESS_CONNECTION" /\ ~cleared
  /\ reads' = reads - 1
  /\ terminate(timers)
  /\ UNCHANGED <<openVars, m_was_clean, m_buf, pc, received, writeVars>>

\* The read completes: with frames, which the loop then takes one by one, or
\* with end of file or an error.
handle_read_frame ==
  /\ pc = "idle" /\ reads > 0 /\ m_internal_state = "PROCESS_CONNECTION"
  /\ \/ cleared /\ reads' = reads - 1 /\ UNCHANGED <<endVars, m_buf, pc, received>>
     \/ /\ ~cleared /\ reads' = reads - 1
        /\ terminate(timers)
        /\ UNCHANGED <<m_buf, pc, received>>
     \/ /\ ~cleared /\ reads' = reads - 1
        /\ m_buf' \in Chunks /\ m_buf' # <<>>
        /\ received' = received + Len(m_buf')
        /\ pc' = "frames"
        /\ UNCHANGED endVars
  /\ UNCHANGED <<openVars, m_was_clean, writeVars>>

\* Mutant: the handler has started a read of its own.
ReturnReading ==
  /\ pc = "handler" /\ pc' = "frames"
  /\ read_frame
  /\ UNCHANGED <<endVars, openVars, m_was_clean, m_buf, received, writeVars>>

\* A handler of the application returns to the loop.
Return ==
  /\ pc = "handler" /\ pc' = "frames"
  /\ UNCHANGED <<endVars, openVars, m_was_clean, m_buf, reads, received, writeVars>>

\* Mutant: only an open connection reads on.
EndOfChunkIfOpen ==
  /\ pc = "frames" /\ m_buf = <<>>
  /\ IF m_state = "open" THEN read_frame ELSE UNCHANGED reads
  /\ pc' = "idle"
  /\ UNCHANGED <<endVars, openVars, m_was_clean, m_buf, received, writeVars>>

EndOfChunk ==
  /\ pc = "frames" /\ m_buf = <<>>
  /\ read_frame
  /\ pc' = "idle"
  /\ UNCHANGED <<endVars, openVars, m_was_clean, m_buf, received, writeVars>>

\* The next frame is of one of these kinds.
NextIs(kinds) == pc = "frames" /\ m_buf # <<>> /\ Head(m_buf) \in kinds

Dropped == UNCHANGED <<endVars, openVars, m_was_clean, pc, writeVars>>

ReadOn == m_buf' = Tail(m_buf) /\ UNCHANGED <<reads, received>>

\* Mutant: messages are dispatched whatever the state.
HandleDataAlways ==
  /\ NextIs({"data"}) /\ ReadOn
  /\ calls' = [calls EXCEPT !["message"] = @ + 1]
  /\ pc' = "handler"
  /\ UNCHANGED <<m_state, m_handshake_timer, timers, cleared, shutting, tstat,
                 openVars, m_was_clean, writeVars>>

HandleData ==
  /\ NextIs({"data"}) /\ ReadOn
  /\ IF m_state = "open"
     THEN /\ calls' = [calls EXCEPT !["message"] = @ + 1]
          /\ pc' = "handler"
          /\ UNCHANGED <<m_state, m_handshake_timer, timers, cleared, shutting, tstat,
                         openVars, m_was_clean, writeVars>>
     ELSE Dropped

HandlePingPong ==
  /\ NextIs({"ping", "pong"}) /\ ReadOn
  /\ IF m_state = "open" /\ Head(m_buf) = "ping"
     THEN write_push(Frame("pong", FALSE)) /\ UNCHANGED <<sent, endVars, openVars, m_was_clean, pc>>
     ELSE Dropped

\* A close frame: answered when open, the answer to ours when closing, else ignored.
HandleClose ==
  /\ NextIs({"close"}) /\ ReadOn
  /\ \/ m_state = "open" /\ send_close_frame(TRUE, TRUE) /\ UNCHANGED <<openVars, pc>>
     \/ /\ m_state = "closing" /\ ~m_was_clean
        /\ m_was_clean' = TRUE
        /\ terminate(timers)
        /\ UNCHANGED <<openVars, pc, writeVars>>
     \/ (m_state = "closed" \/ (m_state = "closing" /\ m_was_clean)) /\ Dropped

\* A close frame with an invalid code or reason is answered in every state but closed.
HandleBadClose ==
  /\ NextIs({"badclose"}) /\ ReadOn
  /\ IF m_state = "closed" THEN Dropped
     ELSE send_close_frame(TRUE, TRUE) /\ UNCHANGED <<openVars, pc>>

\* consume found a protocol error: the rest of the chunk is dropped, and the
\* connection closed or, if it was being closed already, terminated.
HandleMalformed ==
  /\ NextIs({"malformed"})
  /\ m_buf' = <<>> /\ pc' = "idle"
  /\ IF m_state = "open"
     THEN send_close_frame(FALSE, terminal("protocol_error"))
     ELSE terminate(timers) /\ UNCHANGED <<m_was_clean, writeVars>>
  /\ UNCHANGED <<openVars, reads, received>>

-----------------------------------------------------------------------------
ReadLoop == Return \/ EndOfChunk \/ HandleData \/ HandlePingPong \/ HandleClose
            \/ HandleBadClose \/ HandleMalformed

Timeouts == handle_post_init_timeout \/ handle_open_handshake_timeout
            \/ handle_close_handshake_timeout \/ handle_async_shutdown_timeout

Completions == handle_post_init \/ handle_read_handshake \/ handle_write_http_response
               \/ handle_read_frame \/ handle_write_frame \/ handle_async_shutdown

Calls == send \/ ping \/ \E code \in CloseCodes : close(code)

WsNext == start \/ Expire \/ ReadLoop \/ Timeouts \/ write_frame \/ Completions \/ Calls

WsSpec == WsInit /\ [][WsNext]_wsVars

\* The thread goes on, timers expire, and what is in the io_service's queue is
\* run in turn.  No read, write, TLS handshake or shutdown need ever complete.
WsFairness ==
  /\ WF_wsVars(ReadLoop) /\ WF_wsVars(Expire)
  /\ SF_wsVars(Timeouts) /\ SF_wsVars(write_frame)

WsFair == WsSpec /\ WsFairness

-----------------------------------------------------------------------------
(* What it promises.                                                        *)

cstate == IF calls["close"] + calls["fail"] > 0 THEN "gone"
          ELSE IF calls["open"] = 0 THEN "absent"
          ELSE IF m_state = "open" THEN "open" ELSE "closing"

Contract == INSTANCE HandlerContract WITH handled <- calls["message"]

\* The contract Sessions is written against: handlers in order, once each, no
\* message and no accepted send outside the time the connection is open.
KeepsContract == Contract!Spec

\* A connection that is being closed is closed, whatever peer and network do.
KeepsPromise == Contract!Promise

\* A handshake ends, one way or the other, even with a peer that says nothing.
HandshakeEnds == m_internal_state # "USER_INIT" ~> m_state # "connecting"

\* Frames leave in the order they were taken and none is lost while the
\* connection lives, although sends, writes and their completions interleave.
InOrder ==
  /\ \E k \in 0 .. Len(accepted) : out = SubSeq(accepted, 1, k)
  /\ m_state \in {"open", "closing"} => out \o m_current_msgs \o m_send_queue = accepted

\* No lost wake-up: frames that wait are being fetched by a write under way, or
\* by a posted write_frame.
QueueMoves ==
  m_state \in {"open", "closing"} /\ m_send_queue # <<>> =>
    writing = "frames" \/ posted > 0

\* At most one read is under way: there is one m_buf to read into.
OneRead == reads <= 1

\* The connection listens whenever it must hear of the peer (a message, the answer
\* to its close frame, the end), unless it is busy or about to be dropped.
StillReading ==
  m_state \in {"open", "closing"} /\ pc = "idle" =>
    reads > 0 \/ \E i \in DOMAIN accepted : accepted[i].terminal

\* Nothing but further close frames is sent after a close frame, and nothing at
\* all after the one that ends the connection.
SilentAfterClose ==
  \A i, j \in DOMAIN out : i < j =>
    ~out[i].terminal /\ (out[i].op = "close" => out[j].op = "close")

=============================================================================
