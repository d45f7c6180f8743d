------------------------------ MODULE WsFrames ------------------------------
(***************************************************************************)
(* How bytes become messages and messages bytes: the loop of               *)
(* connection::handle_read_frame over hybi13::consume, the UTF-8 validator, *)
(* what control frames and malformed ones are answered with, and how frames *)
(* are prepared.  TCP hands over the client's bytes in pieces of any size.  *)
(* WsConnection has the connection around it; there a frame is one symbol.  *)
(***************************************************************************)
EXTENDS Integers, SequencesExt

CONSTANTS
  ClientFrame,            \* the frames a client sends
  MaxFrames,              \* bound: how many of them
  Reads,                  \* bound: how many bytes a read may return
  Answers,                \* payloads the message handler sends back
  payload_size_basic,     \* 125 in the code
  payload_size_extended,  \* 65535
  max_message_size        \* 32000000

ASSUME WsFramesAssumption ==
  /\ MaxFrames \in Nat /\ Reads \subseteq Nat \ {0} /\ Reads # {}
  /\ payload_size_basic \in 3 .. 125
  /\ payload_size_extended \in (payload_size_basic + 1) .. 65535
  /\ max_message_size \in Nat

VARIABLES
  meant,             \* what the client's frames mean, for the properties
  wire,              \* their bytes not yet read
  m_buf,             \* bytes read and not yet consumed
  m_parse,           \* hybi13::m_state
  m_bytes_needed, m_cursor, m_basic_header, m_extended_header,
  m_data_msg, m_control_msg, m_current_msg,
  m_state, m_was_clean,  \* of the connection
  pc,                \* a read is under way, handle_read_frame runs, or neither
  delivered,         \* messages acted on
  prepared           \* the last frame prepared: for which message, and its bytes

headerVars == <<m_basic_header, m_extended_header, m_cursor>>
msgVars    == <<m_data_msg, m_control_msg, m_current_msg>>
conVars    == <<m_state, m_was_clean, delivered, prepared>>
frVars     == <<meant, wire, m_buf, m_parse, m_bytes_needed, headerVars, msgVars, conVars, pc>>

Byte == 0 .. 255

\* Frames as clients may send them: the length takes one, two or eight bytes,
\* which can hold it.
FrameSent ==
  [opcode : 0 .. 15, fin : BOOLEAN, rsv : 0 .. 7, masked : BOOLEAN, length : {1, 2, 8},
   payload : Seq(Byte)]

ASSUME FramesAssumption ==
  /\ ClientFrame \subseteq FrameSent /\ Answers \subseteq Seq(Byte)
  /\ \A f \in ClientFrame :
       /\ f.length = 1 => Len(f.payload) <= payload_size_basic
       /\ f.length = 2 => Len(f.payload) <= payload_size_extended
       /\ f.length = 8 => Len(f.payload) <= 2147483647
  /\ \A a \in Answers : Len(a) <= 2147483647

CONTINUATION == 0
TEXT == 1
BINARY == 2
CLOSE == 8
PING == 9
PONG == 10

is_control(op) == op >= 8
reserved(op)   == op \in (3 .. 7) \cup (11 .. 15)

\* Close codes.
normal == 1000
protocol_error == 1002
no_status == 1005
abnormal_close == 1006
invalid_payload == 1007
message_too_big == 1009
internal_endpoint_error == 1011
tls_handshake == 1015
reservedCode(code) == code \in (1016 .. 2999) \cup {1004, 1014}
invalidCode(code)  == code <= 999 \/ code >= 5000
                      \/ code \in {no_status, abnormal_close, tls_handshake}

Reason == <<63>>     \* stands for the text that comes with a code

MinOf(a, b)  == IF a < b THEN a ELSE b
Take(s, n)   == SubSeq(s, 1, n)
Drop(s, n)   == SubSeq(s, n + 1, Len(s))
Zeros(n)     == [i \in 1 .. n |-> 0]

\* std::copy of t into s from position at (0 for the first).
Copied(t, s, at) == [i \in DOMAIN s |-> IF i - at \in DOMAIN t THEN t[i - at] ELSE s[i]]

\* Bytes in network order; the sizes here need four at most.
Number(s) ==
  LET v[i \in 0 .. Len(s)] == IF i = 0 THEN 0 ELSE 256 * v[i - 1] + s[i] IN v[Len(s)]
Bytes(n, k) ==
  [i \in 1 .. k |->
     IF k - i > 3 THEN 0 ELSE (n \div <<1, 256, 65536, 16777216>>[k - i + 1]) % 256]

\* Exclusive or of bytes.
Bit(b, w) == (b \div w) % 2
Xor(a, b) ==
  LET at(w) == w * ((Bit(a, w) + Bit(b, w)) % 2)
  IN  at(1) + at(2) + at(4) + at(8) + at(16) + at(32) + at(64) + at(128)

-----------------------------------------------------------------------------
(* The UTF-8 validator: a state and the type of a byte give the next state. *)

utf8_accept == 0
utf8_reject == 1

Type(b) ==
  CASE b < 128 -> 0           [] b \in 128..143 -> 1   [] b \in 144..159 -> 9
    [] b \in 160..191 -> 7    [] b \in {192, 193} -> 8 [] b \in 194..223 -> 2
    [] b = 224 -> 10          [] b = 237 -> 4
    [] b \in (225..236) \cup {238, 239} -> 3
    [] b = 240 -> 11          [] b \in 241..243 -> 6   [] b = 244 -> 5
    [] OTHER -> 8

\* The states: 2, 3, 7 expect one, two, three more bytes of any continuation
\* type; 4, 5, 6 and 8 are 2 and 3 with a restricted next byte.
utf8d(state, type) ==
  CASE state = 0 -> <<0,1,2,3,5,8,7,1,1,1,4,6>>[type + 1]
    [] state = 2 -> IF type \in {1, 7, 9} THEN 0 ELSE 1
    [] state = 3 -> IF type \in {1, 7, 9} THEN 2 ELSE 1
    [] state = 4 -> IF type = 7 THEN 2 ELSE 1
    [] state = 5 -> IF type \in {1, 9} THEN 2 ELSE 1
    [] state = 6 -> IF type \in {7, 9} THEN 3 ELSE 1
    [] state = 7 -> IF type \in {1, 7, 9} THEN 3 ELSE 1
    [] state = 8 -> IF type = 1 THEN 3 ELSE 1
    [] OTHER -> utf8_reject

decode(state, s) ==
  LET q[i \in 0 .. Len(s)] == IF i = 0 THEN state ELSE utf8d(q[i - 1], Type(s[i]))
  IN  q[Len(s)]
validate(s) == decode(utf8_accept, s) = utf8_accept

-----------------------------------------------------------------------------
(* Headers.                                                                 *)

payload_size_code_16bit == 126
payload_size_code_64bit == 127

get_fin(h)        == h[1] >= 128
get_rsv(h)        == (h[1] \div 16) % 8
get_opcode(h)     == h[1] % 16
get_masked(h)     == h[2] >= 128
get_basic_size(h) == h[2] % 128

get_masking_key_offset(h) ==
  CASE get_basic_size(h) = payload_size_code_16bit -> 2
    [] get_basic_size(h) = payload_size_code_64bit -> 8
    [] OTHER -> 0

get_header_len(h)     == 2 + get_masking_key_offset(h) + IF get_masked(h) THEN 4 ELSE 0
get_masking_key(h, e) == SubSeq(e, get_masking_key_offset(h) + 1, get_masking_key_offset(h) + 4)

get_payload_size(h, e) ==
  CASE get_basic_size(h) <= payload_size_basic -> get_basic_size(h)
    [] get_basic_size(h) = payload_size_code_16bit -> Number(Take(e, 2))
    [] OTHER -> Number(Take(e, 8))

\* Servers do not mask.
basic_header(op, size, fin) ==
  << op + IF fin THEN 128 ELSE 0,
     IF size <= payload_size_basic THEN size
     ELSE IF size <= payload_size_extended THEN payload_size_code_16bit
     ELSE payload_size_code_64bit >>

\* Mutant: the first bytes of the number instead of the last.
extended_headerUnshifted(size) == Copied(Bytes(size, 8), Zeros(12), 0)

extended_header(size) ==
  IF size <= payload_size_extended /\ size > payload_size_basic
  THEN Copied(Bytes(size, 2), Zeros(12), 0)
  ELSE IF size > payload_size_extended THEN Copied(Bytes(size, 8), Zeros(12), 0)
  ELSE Zeros(12)

prepare_header(h, e) == h \o Take(e, get_header_len(h) - 2)

\* Masking: the key fills a machine word of eight bytes, which is turned by
\* what was left over of the last word.
prepare_masking_key(key) == key \o key
circshift_prepared_key(key, offset) == Drop(key, offset) \o Take(key, offset)
word_mask(s, key) == [i \in DOMAIN s |-> Xor(s[i], key[((i - 1) % 8) + 1])]

\* Mutant: the next piece starts again at the first byte of the key.
word_mask_circFixed(key, length) == key

word_mask_circ(key, length) == circshift_prepared_key(key, length % 8)

-----------------------------------------------------------------------------
(* What the peer means.  Nothing below knows of bytes of a header, of keys or *)
(* of how the stream was cut.                                                *)

\* UTF-8 by the numbers: a code point is not encoded longer than needed, is no
\* surrogate and at most 16#10FFFF.
Value(s) ==
  CASE Len(s) = 1 -> s[1]
    [] Len(s) = 2 -> (s[1] - 192) * 64 + (s[2] - 128)
    [] Len(s) = 3 -> (s[1] - 224) * 4096 + (s[2] - 128) * 64 + (s[3] - 128)
    [] Len(s) = 4 -> (s[1] - 240) * 262144 + (s[2] - 128) * 4096 + (s[3] - 128) * 64
                       + (s[4] - 128)

Between(n, a, b) == a <= n /\ n <= b

CodePoint(s) ==
  /\ Len(s) \in 1 .. 4
  /\ \A i \in 2 .. Len(s) : Between(s[i], 128, 191)
  /\ LET n == Value(s) IN
     \/ Len(s) = 1 /\ Between(n, 0, 127)
     \/ Len(s) = 2 /\ Between(n, 128, 2047)
     \/ Len(s) = 3 /\ Between(n, 2048, 65535) /\ ~Between(n, 55296, 57343)
     \/ Len(s) = 4 /\ Between(n, 65536, 1114111)

\* A sequence of code points: cuts[i] is where one ends in the first i bytes.
IsUtf8(s) ==
  LET cuts[i \in 0 .. Len(s)] ==
        IF i = 0 THEN {0}
        ELSE LET before == cuts[i - 1]
             IN  IF \E n \in 1 .. MinOf(4, i) :
                      i - n \in before /\ CodePoint(SubSeq(s, i - n + 1, i))
                 THEN before \cup {i} ELSE before
  IN  Len(s) \in cuts[Len(s)]

\* Can s be continued to UTF-8?  By the rest of one code point at most.
Rests == UNION {[1 .. n -> {128, 144, 159, 160, 191}] : n \in 1 .. 3}

BeginsUtf8(s) ==
  \/ IsUtf8(s)
  \/ \E n \in 1 .. MinOf(3, Len(s)) :
       /\ IsUtf8(Take(s, Len(s) - n))
       /\ \E t \in Rests : n + Len(t) <= 4 /\ CodePoint(Drop(s, Len(s) - n) \o t)

\* The messages and the close code that frames amount to: after some of them the
\* messages complete, the one begun, the code once a frame was bad, and whether a
\* close frame was among them.
None == [messages |-> <<>>, partial |-> <<>>, code |-> 0, closed |-> FALSE]

Broken(acc, f) ==
  \/ f.opcode \notin {CONTINUATION, TEXT, BINARY, CLOSE, PING, PONG}
  \/ f.rsv # 0 \/ ~f.masked
  \/ is_control(f.opcode) /\ (~f.fin \/ f.length # 1)
  \/ ~is_control(f.opcode) /\ (f.opcode = CONTINUATION <=> acc.partial = <<>>)

Shortest(f) ==
  f.length = IF Len(f.payload) <= payload_size_basic THEN 1
             ELSE IF Len(f.payload) <= payload_size_extended THEN 2 ELSE 8

\* The message a data frame belongs to, up to its end.
Whole(acc, f) ==
  IF f.opcode = CONTINUATION
  THEN [acc.partial[1] EXCEPT !.payload = @ \o f.payload]
  ELSE [opcode |-> f.opcode, payload |-> f.payload]

\* A fragmented text need not end with a whole code point: only a last frame that
\* says TEXT is asked.
BadText(acc, f) ==
  /\ Whole(acc, f).opcode = TEXT
  /\ \/ ~BeginsUtf8(Whole(acc, f).payload)
     \/ f.opcode = TEXT /\ f.fin /\ ~IsUtf8(f.payload)

\* Nothing counts after a close frame.
Says(acc, f) ==
  LET more(m) == IF acc.closed THEN acc.messages ELSE Append(acc.messages, m) IN
  IF is_control(f.opcode)
  THEN [acc EXCEPT !.messages = more([opcode |-> f.opcode, payload |-> f.payload]),
                   !.closed = @ \/ f.opcode = CLOSE]
  ELSE IF ~f.fin THEN [acc EXCEPT !.partial = <<Whole(acc, f)>>]
  ELSE [acc EXCEPT !.partial = <<>>, !.messages = more(Whole(acc, f))]

Then(acc, f) ==
  LET data == ~is_control(f.opcode)
      ends(code) == [acc EXCEPT !.code = code]
  IN  IF acc.code # 0 THEN acc
      ELSE IF Broken(acc, f) THEN ends(protocol_error)
      ELSE IF ~Shortest(f) THEN ends(internal_endpoint_error)
      ELSE IF data /\ Len(Whole(acc, f).payload) > max_message_size THEN ends(message_too_big)
      ELSE IF data /\ BadText(acc, f) THEN ends(invalid_payload)
      ELSE Says(acc, f)

Meaning(frames) ==
  LET m[k \in 0 .. Len(frames)] ==
        IF k = 0 THEN None ELSE LET acc == m[k - 1] IN Then(acc, frames[k])
  IN  m[Len(frames)]

-----------------------------------------------------------------------------
(* The bytes of a client's frame: the key of every second one differs.      *)

Key(k) == IF k % 2 = 1 THEN <<1, 2, 4, 8>> ELSE <<16, 32, 64, 128>>

Encoded(f, k) ==
  LET size == Len(f.payload)
      h == << f.opcode + 16 * f.rsv + IF f.fin THEN 128 ELSE 0,
              (IF f.masked THEN 128 ELSE 0) +
              CASE f.length = 1 -> size
                [] f.length = 2 -> payload_size_code_16bit
                [] f.length = 8 -> payload_size_code_64bit >>
      l == IF f.length = 1 THEN <<>> ELSE Bytes(size, f.length)
  IN  IF f.masked
      THEN h \o l \o Key(k) \o [i \in 1 .. size |-> Xor(f.payload[i], Key(k)[((i - 1) % 4) + 1])]
  ELSE h \o l \o f.payload

\* One after the other; rest[j] are the last j of them.
Stream(frames) ==
  LET n == Len(frames)
      rest[j \in 0 .. n] ==
        IF j = 0 THEN <<>> ELSE Encoded(frames[n - j + 1], n - j + 1) \o rest[j - 1]
  IN  rest[n]

NoMsg      == [opcode |-> -1, payload |-> <<>>, prepared_key |-> <<>>, utf8 |-> utf8_accept]
msg_metadata(op, key) ==
  [opcode |-> op, payload |-> <<>>, prepared_key |-> prepare_masking_key(key),
   utf8 |-> utf8_accept]

Opcodes  == {TEXT, BINARY, CLOSE, PING, PONG}    \* of messages
Message  == [opcode : Opcodes, payload : Seq(Byte)]
Prepared == [asked : Message, bytes : Seq(Byte)]
Nothing  == [asked |-> [opcode |-> TEXT, payload |-> <<>>], bytes |-> <<>>]

Metadata ==
  [opcode : Opcodes, payload : Seq(Byte), prepared_key : [1 .. 8 -> Byte], utf8 : 0 .. 8]

FramesTypeOK ==
  /\ wire \in Seq(Byte) /\ m_buf \in Seq(Byte)
  /\ m_parse \in {"HEADER_BASIC", "HEADER_EXTENDED", "APPLICATION", "READY"}
  /\ m_bytes_needed \in Nat /\ m_cursor \in 0 .. 12
  /\ m_basic_header \in [1 .. 2 -> Byte] /\ m_extended_header \in [1 .. 12 -> Byte]
  /\ {m_data_msg, m_control_msg} \subseteq Metadata \cup {NoMsg}
  /\ m_current_msg \in {"none", "data", "control"}
  /\ m_state \in {"open", "closing", "closed"} /\ m_was_clean \in BOOLEAN
  /\ pc \in {"read", "consume", "stopped"}
  /\ delivered \in Seq(Message) /\ prepared \in Prepared

FramesInit ==
  /\ \E frames \in BoundedSeq(ClientFrame, MaxFrames) :
       /\ meant = Meaning(frames)
       /\ wire = Stream(frames)
  /\ m_buf = <<>>
  /\ m_parse = "HEADER_BASIC" /\ m_bytes_needed = 2 /\ m_cursor = 0
  /\ m_basic_header = Zeros(2) /\ m_extended_header = Zeros(12)
  /\ m_data_msg = NoMsg /\ m_control_msg = NoMsg /\ m_current_msg = "none"
  /\ m_state = "open" /\ m_was_clean = FALSE /\ pc = "read"
  /\ delivered = <<>> /\ prepared = Nothing

-----------------------------------------------------------------------------
(* Preparing frames.                                                        *)

Frame(op, payload) ==
  [asked |-> [opcode |-> op, payload |-> payload],
   bytes |-> prepare_header(basic_header(op, Len(payload), TRUE),
                            extended_header(Len(payload))) \o payload]

\* Text that is no UTF-8 is refused, as is a control frame that is too large.
prepare_data_frame(op, payload) ==
  IF op = TEXT /\ ~validate(payload) THEN UNCHANGED prepared
  ELSE prepared' = Frame(op, payload)

prepare_control(op, payload) ==
  IF Len(payload) > payload_size_basic THEN UNCHANGED prepared
  ELSE prepared' = Frame(op, payload)

\* Mutant: room for three bytes beside the reason.
send_close_frameShort(code, reason, ack) ==
  IF Len(reason) > payload_size_basic - 3 THEN UNCHANGED <<prepared, m_state, m_was_clean>>
  ELSE /\ prepare_control(CLOSE, IF code = no_status THEN <<>> ELSE Bytes(code, 2) \o reason)
       /\ m_state' = "closing" /\ m_was_clean' = (ack \/ m_was_clean)

\* send_close_frame and prepare_close.  A code or reason that may not be sent
\* leaves everything as it is.
send_close_frame(code, reason, ack) ==
  IF \/ reservedCode(code)
     \/ invalidCode(code) /\ code # no_status
     \/ code = no_status /\ reason # <<>>
     \/ Len(reason) > payload_size_basic - 2
  THEN UNCHANGED <<prepared, m_state, m_was_clean>>
  ELSE /\ prepare_control(CLOSE, IF code = no_status THEN <<>> ELSE Bytes(code, 2) \o reason)
       /\ m_state' = "closing"
       /\ m_was_clean' = (ack \/ m_was_clean)

\* What is malformed closes the connection with the code of its error and ends
\* the reading; a connection that is closing already is terminated.
Fail(code) ==
  /\ IF m_state = "open" THEN send_close_frame(code, Reason, FALSE)
     ELSE m_state' = "closed" /\ UNCHANGED <<m_was_clean, prepared>>
  /\ pc' = "stopped"
  /\ UNCHANGED delivered

-----------------------------------------------------------------------------
(* Reading and parsing.                                                     *)

handle_read_frame ==
  /\ pc = "read" /\ wire # <<>> /\ m_state # "closed"
  /\ \E n \in Reads : /\ m_buf' = Take(wire, MinOf(n, Len(wire)))
                      /\ wire' = Drop(wire, MinOf(n, Len(wire)))
  /\ pc' = "consume"
  /\ UNCHANGED <<meant, m_parse, m_bytes_needed, headerVars, msgVars, conVars>>

Looping == pc = "consume" /\ (m_buf # <<>> \/ m_bytes_needed = 0)
Taken   == MinOf(m_bytes_needed, Len(m_buf))
Consume == m_buf' = Drop(m_buf, Taken) /\ UNCHANGED <<meant, wire>>
Waiting == m_bytes_needed' = m_bytes_needed - Taken

\* Mutant: a continuation may begin a message.
validate_incoming_basic_headerLax(h, new_msg) ==
  /\ is_control(get_opcode(h)) => (get_basic_size(h) <= payload_size_basic /\ get_fin(h))
  /\ get_rsv(h) = 0 /\ ~reserved(get_opcode(h)) /\ get_masked(h)
  /\ ~new_msg => is_control(get_opcode(h)) \/ get_opcode(h) = CONTINUATION

validate_incoming_basic_header(h, new_msg) ==
  LET op == get_opcode(h) IN
  /\ is_control(op) => (get_basic_size(h) <= payload_size_basic /\ get_fin(h))
  /\ get_rsv(h) = 0
  /\ ~reserved(op)
  /\ new_msg => op # CONTINUATION
  /\ ~new_msg => is_control(op) \/ op = CONTINUATION
  /\ get_masked(h)

copy_basic_header_bytes ==
  /\ Looping /\ m_parse = "HEADER_BASIC"
  /\ Consume
  /\ LET h == Copied(Take(m_buf, Taken), m_basic_header, 2 - m_bytes_needed) IN
     /\ m_basic_header' = h
     /\ IF Taken < m_bytes_needed
        THEN Waiting /\ UNCHANGED <<m_parse, m_cursor, conVars, pc>>
        ELSE IF validate_incoming_basic_header(h, m_data_msg = NoMsg)
        THEN /\ m_parse' = "HEADER_EXTENDED" /\ m_cursor' = 0
             /\ m_bytes_needed' = get_header_len(h) - 2
             /\ UNCHANGED <<conVars, pc>>
        ELSE Fail(protocol_error) /\ Waiting /\ UNCHANGED <<m_parse, m_cursor>>
  /\ UNCHANGED <<m_extended_header, msgVars>>

\* The shortest encoding of the size must have been used.
validate_incoming_extended_header(h, e) ==
  /\ get_basic_size(h) = payload_size_code_16bit => get_payload_size(h, e) > payload_size_basic
  /\ get_basic_size(h) = payload_size_code_64bit => get_payload_size(h, e) > payload_size_extended

TooBig(size) == Len(m_data_msg.payload) + size > max_message_size

\* A new message, or the next frame of one, which brings its own key.
BeginPayload(h, e) ==
  LET op == get_opcode(h)  key == get_masking_key(h, e) IN
  IF is_control(op)
  THEN /\ m_control_msg' = msg_metadata(op, key) /\ m_current_msg' = "control"
       /\ UNCHANGED <<m_data_msg, conVars, pc>>
  ELSE IF TooBig(get_payload_size(h, e))
  THEN Fail(message_too_big) /\ UNCHANGED msgVars
  ELSE /\ m_data_msg' = IF m_data_msg = NoMsg THEN msg_metadata(op, key)
                        ELSE [m_data_msg EXCEPT !.prepared_key = prepare_masking_key(key)]
       /\ m_current_msg' = "data"
       /\ UNCHANGED <<m_control_msg, conVars, pc>>

copy_extended_header_bytes ==
  /\ Looping /\ m_parse = "HEADER_EXTENDED"
  /\ Consume
  /\ LET e == Copied(Take(m_buf, Taken), m_extended_header, m_cursor)
         h == m_basic_header IN
     /\ m_extended_header' = e /\ m_cursor' = m_cursor + Taken
     /\ IF Taken < m_bytes_needed
        THEN Waiting /\ UNCHANGED <<m_parse, msgVars, conVars, pc>>
        ELSE IF validate_incoming_extended_header(h, e)
        THEN /\ m_parse' = "APPLICATION" /\ m_bytes_needed' = get_payload_size(h, e)
             /\ BeginPayload(h, e)
        ELSE /\ Fail(internal_endpoint_error) /\ Waiting
             /\ UNCHANGED <<m_parse, msgVars>>
  /\ UNCHANGED m_basic_header

reset_headers ==
  /\ m_parse' = "HEADER_BASIC" /\ m_bytes_needed' = 2
  /\ m_basic_header' = Zeros(2) /\ m_extended_header' = Zeros(12)
  /\ UNCHANGED m_cursor

Current == IF m_current_msg = "control" THEN m_control_msg ELSE m_data_msg

\* The message with the next n bytes of its payload.
Grown(m, n) ==
  LET plain == word_mask(Take(m_buf, n), m.prepared_key) IN
  [m EXCEPT !.payload = @ \o plain,
            !.prepared_key = word_mask_circ(@, n),
            !.utf8 = IF m.opcode = TEXT THEN decode(@, plain) ELSE @]

\* The end of a frame: of a message if it is the last one.
EndOfFrame(m) ==
  IF ~get_fin(m_basic_header) THEN reset_headers /\ UNCHANGED <<conVars, pc>>
  ELSE IF get_opcode(m_basic_header) = TEXT /\ m.utf8 # utf8_accept
  THEN Fail(invalid_payload) /\ UNCHANGED <<m_parse, headerVars>> /\ Waiting
  ELSE m_parse' = "READY" /\ Waiting /\ UNCHANGED <<headerVars, conVars, pc>>

process_payload_bytes ==
  /\ Looping /\ m_parse = "APPLICATION"
  /\ Consume
  /\ LET m == Grown(Current, Taken) IN
     /\ IF m_current_msg = "control" THEN m_control_msg' = m /\ UNCHANGED m_data_msg
        ELSE m_data_msg' = m /\ UNCHANGED m_control_msg
     /\ IF m.utf8 = utf8_reject
        THEN Fail(invalid_payload) /\ UNCHANGED <<m_parse, m_bytes_needed, headerVars>>
        ELSE IF Taken < m_bytes_needed
        THEN Waiting /\ UNCHANGED <<m_parse, headerVars, conVars, pc>>
        ELSE EndOfFrame(m)
  /\ UNCHANGED m_current_msg

-----------------------------------------------------------------------------
(* What is done with a message.                                             *)

\* Acted on: kept for the properties.
Acted(m) == delivered' = Append(delivered, [opcode |-> m.opcode, payload |-> m.payload])

\* The message handler, which may send an answer.
HandleMessage(m) ==
  /\ Acted(m)
  /\ \/ UNCHANGED prepared
     \/ \E a \in Answers : prepare_data_frame(TEXT, a)
  /\ UNCHANGED <<m_state, m_was_clean>>

extract_code(payload) == IF payload = <<>> THEN no_status ELSE Number(Take(payload, 2))
BadClose(payload) ==
  \/ Len(payload) = 1
  \/ payload # <<>> /\ (invalidCode(extract_code(payload)) \/ reservedCode(extract_code(payload)))
  \/ ~validate(Drop(payload, 2))

\* A close frame is answered with the code and reason it came with.
HandleClose(m) ==
  LET code == extract_code(m.payload)  reason == Drop(m.payload, 2) IN
  IF BadClose(m.payload)
  THEN /\ send_close_frame(protocol_error, Reason, TRUE)
       /\ IF m_state = "open" THEN Acted(m) ELSE UNCHANGED delivered
  ELSE IF m_state = "open"
  THEN Acted(m) /\ send_close_frame(IF code = no_status THEN normal ELSE code, reason, TRUE)
  ELSE IF ~m_was_clean
  THEN m_was_clean' = TRUE /\ m_state' = "closed" /\ UNCHANGED <<delivered, prepared>>
  ELSE UNCHANGED conVars

process_control_frame(m) ==
  IF m_state = "closed" \/ (m.opcode # CLOSE /\ m_state # "open") THEN UNCHANGED conVars
  ELSE CASE m.opcode = PING -> /\ Acted(m) /\ prepare_control(PONG, m.payload)
                               /\ UNCHANGED <<m_state, m_was_clean>>
         [] m.opcode = PONG -> Acted(m) /\ UNCHANGED <<m_state, m_was_clean, prepared>>
         [] m.opcode = CLOSE -> HandleClose(m)

\* get_message, and what follows; then the loop goes on, or reading does.
get_message ==
  /\ pc = "consume" /\ m_parse = "READY"
  /\ IF is_control(Current.opcode) THEN m_control_msg' = NoMsg /\ UNCHANGED m_data_msg
     ELSE m_data_msg' = NoMsg /\ UNCHANGED m_control_msg
  /\ reset_headers
  /\ IF is_control(Current.opcode) THEN process_control_frame(Current)
     ELSE IF m_state = "open" THEN HandleMessage(Current) ELSE UNCHANGED conVars
  /\ pc' = IF m_buf = <<>> THEN "read" ELSE "consume"
  /\ UNCHANGED <<meant, wire, m_buf, m_current_msg>>

read_frame ==
  /\ pc = "consume" /\ m_parse # "READY" /\ m_buf = <<>> /\ m_bytes_needed > 0
  /\ pc' = "read"
  /\ UNCHANGED <<meant, wire, m_buf, m_parse, m_bytes_needed, headerVars, msgVars, conVars>>

\* Nothing more comes, or nothing more is read.
Rest ==
  /\ pc = "stopped" \/ (pc = "read" /\ (wire = <<>> \/ m_state = "closed"))
  /\ UNCHANGED frVars

FramesNext ==
  \/ handle_read_frame
  \/ copy_basic_header_bytes \/ copy_extended_header_bytes \/ process_payload_bytes
  \/ get_message
  \/ read_frame
  \/ Rest

FramesSpec == FramesInit /\ [][FramesNext]_frVars

-----------------------------------------------------------------------------
(* Properties.                                                              *)

\* However the stream is cut into reads, the messages acted on are those the
\* peer sent, in order and no others: all of them once everything is read and
\* the next read is under way, and all before the first malformed frame when
\* reading has ended, which the close code then says (unless a close frame had
\* been answered already).
AsSent ==
  LET r == meant IN
  /\ IsPrefix(delivered, r.messages)
  /\ (pc = "read" /\ wire = <<>>) => delivered = r.messages /\ r.code = 0
  /\ pc = "stopped" =>
       /\ delivered = r.messages /\ r.code # 0
       /\ r.closed \/ prepared.asked = [opcode |-> CLOSE, payload |-> Bytes(r.code, 2) \o Reason]

\* What is prepared reads, by the rules of the protocol, as the message it was
\* prepared for: final, unmasked, its size encoded as shortly as possible.
PreparedReads ==
  prepared # Nothing =>
    LET b == prepared.bytes
        n == Len(prepared.asked.payload)
        k == CASE b[2] = 126 -> 2 [] b[2] = 127 -> 8 [] OTHER -> 0
    IN  /\ b[1] = 128 + prepared.asked.opcode /\ b[2] < 128
        /\ n = IF k = 0 THEN b[2] ELSE Number(SubSeq(b, 3, 2 + k))
        /\ k = IF n <= payload_size_basic THEN 0 ELSE IF n <= payload_size_extended THEN 2 ELSE 8
        /\ Drop(b, 2 + k) = prepared.asked.payload

\* A close frame acted on is answered, whatever code and reason it came with:
\* what extract_code and extract_reason accept, prepare_close must accept.
CloseAnswered ==
  delivered # <<>> /\ Last(delivered).opcode = CLOSE
    => m_state # "open" /\ prepared.asked.opcode = CLOSE
=============================================================================
