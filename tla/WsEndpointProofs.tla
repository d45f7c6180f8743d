-------------------------- MODULE WsEndpointProofs --------------------------
(***************************************************************************)
(* Types and OneAccept of the endpoints, for any number of connections and *)
(* any backlog.                                                            *)
(***************************************************************************)
EXTENDS WsEndpoint, TLAPS

\* Where main is before an endpoint listens, and before its first accept.
BeforeListen(e) ==
  {"construct", "listen.plain"}
    \cup IF e = "tls" THEN {"accept.plain", "listen.tls"} ELSE {}
BeforeAccept(e) ==
  BeforeListen(e) \cup IF e = "tls" THEN {"accept.tls"} ELSE {"accept.plain"}

\* Nothing listens or accepts before main gets there, and from the first accept
\* on there is one as long as the endpoint listens.  A completed accept that was
\* not handled yet still counts.
LoopInv ==
  \A e \in Endpoint :
    /\ at \in BeforeListen(e) => m_state[e] # "LISTENING"
    /\ at \in BeforeAccept(e) => accepting[e] = 0
    /\ at \in Main \ (BeforeAccept(e) \cup {"exited", "died"}) /\ m_state[e] = "LISTENING"
         => accepting[e] = 1
    /\ accepted[e] # {} => accepting[e] > 0

EInv == EndpointTypeOK /\ LoopInv

\* A step that touches neither accepts nor main, but may stop an endpoint.
LEMMA QuietLoop ==
  ASSUME EInv, UNCHANGED <<accepting, accepted, at>>,
         \A e \in Endpoint : m_state'[e] = "LISTENING" => m_state[e] = "LISTENING"
  PROVE  LoopInv'
  BY DEF EInv, LoopInv

LEMMA StartLoop == ASSUME EInv, Start PROVE EInv'
  <1>1. CASE Construct
    <2>1. EndpointTypeOK'
      BY <1>1 DEF EInv, EndpointTypeOK, Construct, conVars, Main
    <2>2. m_state' \in [Endpoint -> {"UNINITIALIZED", "READY", "LISTENING"}]
          /\ \A e \in Endpoint : m_state'[e] # "LISTENING"
      BY <1>1 DEF EInv, EndpointTypeOK, LoopInv, BeforeListen, Construct
    <2>3. LoopInv'
      BY <1>1, <2>2 DEF EInv, LoopInv, Construct, Endpoint, BeforeListen, BeforeAccept
    <2> QED BY <2>1, <2>3 DEF EInv
  <1>2. ASSUME NEW e \in Endpoint, NEW here, NEW next \in Main, listen(e, here, next),
               \/ e = "m_server" /\ here = "listen.plain" /\ next = "accept.plain"
               \/ e = "tls" /\ here = "listen.tls" /\ next = "accept.tls"
        PROVE  EInv'
    <2>1. CASE Die
      <3>1. EndpointTypeOK'
        BY <2>1 DEF EInv, EndpointTypeOK, Die, Main, acceptVars, conVars
      <3>2. LoopInv'
        BY <2>1 DEF EInv, LoopInv, Die, acceptVars, BeforeListen, BeforeAccept
      <3> QED BY <3>1, <3>2 DEF EInv
    <2>2. CASE ~Die
      <3>1. /\ at = here /\ at' = next /\ m_state' = [m_state EXCEPT ![e] = "LISTENING"]
            /\ UNCHANGED <<accepting, accepted, backlog, conVars, holding, signal>>
        BY <1>2, <2>2 DEF listen
      <3>2. EndpointTypeOK'
        BY <3>1 DEF EInv, EndpointTypeOK, conVars
      <3>3. LoopInv'
        BY <1>2, <3>1 DEF EInv, EndpointTypeOK, LoopInv, Endpoint, BeforeListen, BeforeAccept
      <3> QED BY <3>2, <3>3 DEF EInv
    <2> QED BY <2>1, <2>2
  <1>3. ASSUME NEW e \in Endpoint, NEW here, NEW next \in Main, StartAccept(e, here, next),
               \/ e = "m_server" /\ here = "accept.plain" /\ next = "listen.tls"
               \/ e = "tls" /\ here = "accept.tls" /\ next = "run"
        PROVE  EInv'
    <2>1. /\ at = here /\ at' = next
          /\ accepting' = IF m_state[e] = "LISTENING" THEN [accepting EXCEPT ![e] = @ + 1]
                          ELSE accepting
          /\ UNCHANGED <<m_state, accepted, backlog, conVars, holding, signal>>
      BY <1>3 DEF StartAccept, start_accept
    <2>2. accepting[e] = 0
      BY <1>3, <2>1 DEF EInv, LoopInv, BeforeAccept
    <2>3. EndpointTypeOK'
      BY <2>1 DEF EInv, EndpointTypeOK, conVars
    <2>4. LoopInv'
      BY <1>3, <2>1, <2>2 DEF EInv, EndpointTypeOK, LoopInv, Endpoint, BeforeListen, BeforeAccept
    <2> QED BY <2>3, <2>4 DEF EInv
  <1> QED BY <1>1, <1>2, <1>3 DEF Start, Endpoint, Main

LEMMA CompletesLoop ==
  ASSUME EInv, NEW e \in Endpoint, NEW how \in {"ok", "error"}, Completes(e, how)
  PROVE  EInv'
  <1>1. EndpointTypeOK'
    BY WsEndpointAssumption DEF EInv, EndpointTypeOK, Completes, conVars, mainVars
  <1>2. LoopInv'
    BY DEF EInv, EndpointTypeOK, LoopInv, Completes, conVars, mainVars
  <1> QED BY <1>1, <1>2 DEF EInv

LEMMA HandleAcceptLoop ==
  ASSUME EInv, NEW e \in Endpoint, handle_accept(e)
  PROVE  EInv'
  <1>1. /\ at = "run" /\ accepting[e] \in Nat /\ accepting[e] > 0
        /\ UNCHANGED <<m_state, backlog, m_connections, lost, closing, mainVars>>
    BY DEF EInv, EndpointTypeOK, LoopInv, handle_accept, Idle
  <1>2. accepted' = [accepted EXCEPT ![e] = {}]
    BY DEF handle_accept
  <1>3. accepting' = IF m_state[e] = "LISTENING" THEN [accepting EXCEPT ![e] = @ - 1 + 1]
                     ELSE [accepting EXCEPT ![e] = @ - 1]
    BY <1>1 DEF handle_accept, EInv, EndpointTypeOK
  <1>4. started' \in [Conn -> Endpoint \cup {"new", "gone"}]
    BY DEF handle_accept, EInv, EndpointTypeOK
  <1>5. EndpointTypeOK'
    BY <1>1, <1>2, <1>3, <1>4 DEF EInv, EndpointTypeOK, mainVars
  <1>6. LoopInv'
    BY <1>1, <1>2, <1>3 DEF EInv, EndpointTypeOK, LoopInv, mainVars, BeforeListen, BeforeAccept
  <1> QED BY <1>5, <1>6 DEF EInv

LEMMA OtherLoop ==
  ASSUME EInv,
         Network \/ Handlers \/ Interrupt \/ \E c \in Conn : Lose(c) \/ SendChecks(c)
  PROVE  EInv'
  <1>1. UNCHANGED <<m_state, accepting, accepted, at>>
    BY DEF Network, Knock, Handlers, Interrupt, Lose, SendChecks, MapChanged, on_open, on_close,
         SendQueues, SendReturns, Enter, In, acceptVars, conVars, mainVars
  <1>2. LoopInv'
    BY <1>1, QuietLoop
  <1>3. ASSUME NEW e \in Endpoint, Knock(e) PROVE EndpointTypeOK'
    <2>1. backlog[e] + 1 \in 0 .. MaxBacklog
      BY <1>3, WsEndpointAssumption DEF Knock, EInv, EndpointTypeOK
    <2>2. backlog' = [backlog EXCEPT ![e] = backlog[e] + 1]
          /\ UNCHANGED <<m_state, accepting, accepted, conVars, mainVars>>
      BY <1>3 DEF Knock
    <2> QED BY <2>1, <2>2 DEF EInv, EndpointTypeOK, conVars, mainVars
  <1>4. ASSUME MapChanged \/ Interrupt PROVE EndpointTypeOK'
    <2>1. Nothing \in Holds /\ "stop.plain" \in Signal
      BY DEF Holds, Signal
    <2> QED BY <1>4, <2>1 DEF MapChanged, In, Interrupt, EInv, EndpointTypeOK, acceptVars, conVars
  <1>5. ASSUME NEW c \in Conn, on_open(c) \/ on_close(c) PROVE EndpointTypeOK'
    BY <1>5 DEF on_open, on_close, Enter, Map, EInv, EndpointTypeOK, acceptVars, Holds
  <1>6. ASSUME NEW c \in Conn, SendQueues(c) \/ SendReturns(c) \/ SendChecks(c) \/ Lose(c)
        PROVE  EndpointTypeOK'
    <2>1. State(c) \in Holds /\ Write(c) \in Holds /\ Nothing \in Holds
      BY DEF Holds, State, Write
    <2> QED BY <1>6, <2>1 DEF SendQueues, SendReturns, SendChecks, Lose, Enter, In, EInv,
              EndpointTypeOK, acceptVars, conVars, mainVars
  <1> QED BY <1>2, <1>3, <1>4, <1>5, <1>6 DEF Handlers, Network, EInv

LEMMA StopLoop == ASSUME EInv, StopServer PROVE EInv'
  <1>1. ASSUME NEW e \in Endpoint, NEW here, NEW next \in Signal, stop_listening(e, here, next)
        PROVE  EInv'
    <2>1. EndpointTypeOK'
      BY <1>1 DEF stop_listening, EInv, EndpointTypeOK, conVars, Signal
    <2>2. LoopInv'
      BY <1>1, QuietLoop DEF stop_listening, EInv, EndpointTypeOK
    <2> QED BY <2>1, <2>2 DEF EInv
  <1>2. CASE CloseNext
    <2>1. EndpointTypeOK'
      BY <1>2 DEF CloseNext, EInv, EndpointTypeOK, acceptVars, conVars, Main, Signal
    <2>2. LoopInv'
      BY <1>2 DEF CloseNext, EInv, LoopInv, acceptVars, BeforeListen, BeforeAccept
    <2> QED BY <2>1, <2>2 DEF EInv
  <1>3. CASE Stop \/ Exit
    <2>1. EndpointTypeOK'
      BY <1>3 DEF Stop, Exit, EInv, EndpointTypeOK, acceptVars, conVars, Main, Signal
    <2>2. LoopInv'
      BY <1>3 DEF Stop, Exit, EInv, LoopInv, acceptVars, BeforeListen, BeforeAccept
    <2> QED BY <2>1, <2>2 DEF EInv
  <1> QED BY <1>1, <1>2, <1>3 DEF StopServer, Endpoint, Signal

LEMMA EndpointInvariant == EndpointSpec => []EInv
  <1>1. EndpointInit => EInv
    <2> SUFFICES ASSUME EndpointInit PROVE EInv
      OBVIOUS
    <2>1. EndpointTypeOK
      BY WsEndpointAssumption DEF EndpointInit, EndpointTypeOK, Main, Holds, Signal
    <2>2. LoopInv
      BY DEF EndpointInit, LoopInv, BeforeListen, BeforeAccept
    <2> QED BY <2>1, <2>2 DEF EInv
  <1>2. EInv /\ [EndpointNext]_epVars => EInv'
    <2> SUFFICES ASSUME EInv, [EndpointNext]_epVars PROVE EInv'
      OBVIOUS
    <2>1. CASE UNCHANGED epVars
      BY <2>1 DEF epVars, acceptVars, conVars, mainVars, EInv, EndpointTypeOK, LoopInv
    <2>2. CASE EndpointNext
      BY <2>2, StartLoop, CompletesLoop, HandleAcceptLoop, OtherLoop, StopLoop DEF EndpointNext
    <2> QED BY <2>1, <2>2
  <1> QED BY <1>1, <1>2, PTL DEF EndpointSpec

\* What the endpoints and the signal handler hold keeps its type; above all no
\* accept is handled that was not under way.
THEOREM EndpointTypes == EndpointSpec => []EndpointTypeOK
  BY EndpointInvariant, PTL DEF EInv

\* While the io_service runs, each accept loop holds exactly one accept until its
\* endpoint stops listening, whatever accepts come to and whenever SIGINT strikes.
THEOREM OneAcceptHeld == EndpointSpec => []OneAccept
  <1>1. EInv => OneAccept
    BY DEF EInv, LoopInv, OneAccept, BeforeAccept, BeforeListen, Main
  <1> QED BY <1>1, EndpointInvariant, PTL
=============================================================================
