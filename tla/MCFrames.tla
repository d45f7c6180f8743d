------------------------------ MODULE MCFrames ------------------------------
\* Frames a client may send: whole and fragmented, of each encoding of the size
\* and of sizes around the limits, with text around the edges of UTF-8, control
\* frames between the parts of a message, and each kind of malformed frame.
EXTENDS WsFrames

f(opcode, fin, payload) ==
  [opcode |-> opcode, fin |-> fin, rsv |-> 0, masked |-> TRUE, length |-> 1,
   payload |-> payload]
g(length, opcode, payload) == [f(opcode, TRUE, payload) EXCEPT !.length = length]
As(n) == [i \in 1 .. n |-> 64 + i]

MCWhole ==
  { f(TEXT, TRUE, <<>>), f(TEXT, TRUE, <<65, 195, 169>>), f(TEXT, TRUE, <<237, 159, 191>>),
    f(TEXT, TRUE, <<244, 143, 191, 191>>), f(TEXT, TRUE, <<195>>), f(TEXT, TRUE, <<237, 160, 128>>),
    f(TEXT, TRUE, <<224, 159, 128>>), f(TEXT, TRUE, <<240, 143, 128, 128>>),
    g(2, TEXT, As(6)), g(8, BINARY, As(8)), g(2, BINARY, As(5)), g(8, BINARY, As(7)),
    g(8, BINARY, As(10)), f(7, TRUE, <<>>),
    [f(TEXT, TRUE, <<65>>) EXCEPT !.rsv = 4], [f(TEXT, TRUE, <<65>>) EXCEPT !.masked = FALSE] }

MCParts ==
  { f(TEXT, FALSE, <<226, 130>>), f(TEXT, FALSE, <<65>>), f(BINARY, FALSE, As(5)),
    f(CONTINUATION, FALSE, <<>>), f(CONTINUATION, FALSE, <<172>>),
    f(CONTINUATION, TRUE, <<172, 66>>), f(CONTINUATION, TRUE, <<>>), g(2, CONTINUATION, As(6)),
    f(TEXT, TRUE, <<67>>) }

MCControls ==
  { f(PING, TRUE, <<80, 81>>), f(PING, FALSE, <<>>), g(2, PING, As(6)), f(PONG, TRUE, <<>>),
    f(CLOSE, TRUE, <<>>), f(CLOSE, TRUE, <<3>>), f(CLOSE, TRUE, <<3, 232, 65, 66, 67>>),
    f(CLOSE, TRUE, <<3, 236>>), f(CLOSE, TRUE, <<3, 233, 195>>) }

MCFrame   == MCWhole \cup MCParts \cup MCControls
MCAnswers == {As(5), As(6), As(8), <<195>>}
=============================================================================
