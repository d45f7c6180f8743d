----------------------------- MODULE WsEndpoint -----------------------------
(***************************************************************************)
(* The two endpoints of the server on their one io_service: listening, the *)
(* accept loops, and the SIGINT handler, which runs stopServer and exit on *)
(* the same thread between any two instructions of whatever it was doing.  *)
(* WsConnection has the life of one connection; here it is only started,   *)
(* open (in m_connections, if plain) or gone.  The frames it has queued are  *)
(* left out: stopServer posts its close frames and stops the io_service, so *)
(* that none of them is ever written.                                      *)
(***************************************************************************)
EXTENDS Naturals, FiniteSets

CONSTANTS
  Conn,         \* bound: connections accepted in one life of the process
  MaxBacklog    \* bound: clients of one port waiting to be accepted

ASSUME WsEndpointAssumption == IsFiniteSet(Conn) /\ MaxBacklog \in Nat

Endpoint == {"m_server", "tls"}
Nothing  == [of |-> "nothing"]

VARIABLES
  m_state,      \* transport::asio::endpoint's state, per endpoint
  accepting,    \* accepts under way, per endpoint
  accepted,     \* their results not yet handled: a set of "ok", "error", per endpoint
  backlog,      \* clients waiting in the kernel, per endpoint
  started,      \* connections started and not ended, with their endpoint
  m_connections,
  lost,         \* open plain connections that are gone, on_close still to come
  closing,      \* connections stopServer has called close for
  at,           \* where main is
  holding,      \* the mutex, or the map, the thread is in the middle of
  signal        \* where the SIGINT handler is

acceptVars == <<m_state, accepting, accepted, backlog>>
conVars    == <<started, m_connections, lost, closing>>
mainVars   == <<at, holding, signal>>
epVars     == <<acceptVars, conVars, mainVars>>

Main   == {"construct", "listen.plain", "accept.plain", "listen.tls", "accept.tls",
           "run", "exited", "died"}
Signal == {"none", "stop.plain", "stop.tls", "close", "stop", "exit"}
Holds  == {Nothing} \cup [of : {"m_connections"}]
          \cup [of : {"m_connection_state_lock", "m_write_lock"}, con : Conn]

EndpointTypeOK ==
  /\ m_state \in [Endpoint -> {"UNINITIALIZED", "READY", "LISTENING"}]
  /\ accepting \in [Endpoint -> Nat]
  /\ accepted \in [Endpoint -> SUBSET {"ok", "error"}]
  /\ backlog \in [Endpoint -> 0 .. MaxBacklog]
  /\ started \in [Conn -> Endpoint \cup {"new", "gone"}]
  /\ m_connections \subseteq Conn /\ lost \subseteq Conn
  /\ closing \subseteq Conn
  /\ at \in Main /\ holding \in Holds /\ signal \in Signal

EndpointInit ==
  /\ m_state = [e \in Endpoint |-> "UNINITIALIZED"]
  /\ accepting = [e \in Endpoint |-> 0]
  /\ accepted = [e \in Endpoint |-> {}]
  /\ backlog = [e \in Endpoint |-> 0]
  /\ started = [c \in Conn |-> "new"]
  /\ m_connections = {} /\ lost = {} /\ closing = {}
  /\ at = "construct" /\ holding = Nothing /\ signal = "none"

\* The thread executes the program and not the signal handler.
Main_ == signal = "none" /\ at \notin {"exited", "died"}

\* It is in ios.run() and between two handlers.
Idle == Main_ /\ at = "run" /\ holding = Nothing

Die == at' = "died" /\ UNCHANGED <<acceptVars, conVars, holding, signal>>

-----------------------------------------------------------------------------
(* Starting: the constructor, and run().                                    *)

\* init_asio of both, or nothing when the database does not answer.
Construct ==
  /\ Main_ /\ at = "construct"
  /\ m_state' \in {m_state, [e \in Endpoint |-> "READY"]}
  /\ at' = "listen.plain"
  /\ UNCHANGED <<accepting, accepted, backlog, conVars, holding, signal>>

\* listen throws when not READY, or when the port is taken; nothing catches it.
listen(e, here, next) ==
  /\ Main_ /\ at = here
  /\ \/ /\ m_state[e] = "READY"
        /\ m_state' = [m_state EXCEPT ![e] = "LISTENING"]
        /\ at' = next
        /\ UNCHANGED <<accepting, accepted, backlog, conVars, holding, signal>>
     \/ Die

\* start_accept: a new connection waits for a client.
start_accept(e) ==
  IF m_state[e] = "LISTENING" THEN accepting' = [accepting EXCEPT ![e] = @ + 1]
  ELSE UNCHANGED accepting

StartAccept(e, here, next) ==
  /\ Main_ /\ at = here
  /\ start_accept(e)
  /\ at' = next
  /\ UNCHANGED <<m_state, accepted, backlog, conVars, holding, signal>>

Start ==
  \/ Construct
  \/ listen("m_server", "listen.plain", "accept.plain")
  \/ StartAccept("m_server", "accept.plain", "listen.tls")
  \/ listen("tls", "listen.tls", "accept.tls")
  \/ StartAccept("tls", "accept.tls", "run")

-----------------------------------------------------------------------------
(* Accepting.                                                               *)

\* Clients that will need a connection.
Coming == LET Of(e) == backlog[e] + Cardinality(accepted[e] \cap {"ok"})
          IN  Of("m_server") + Of("tls")

\* A client connects; the kernel holds it until it is accepted.
Knock(e) ==
  /\ m_state[e] = "LISTENING" /\ backlog[e] < MaxBacklog
  /\ Coming < Cardinality({c \in Conn : started[c] = "new"})
  /\ at \notin {"exited", "died"}
  /\ backlog' = [backlog EXCEPT ![e] = @ + 1]
  /\ UNCHANGED <<m_state, accepting, accepted, conVars, mainVars>>

\* Mutant: an accept completes without a client.
CompletesEarly(e, how) ==
  /\ accepting[e] > 0 /\ accepted[e] = {} /\ m_state[e] = "LISTENING"
  /\ accepted' = [accepted EXCEPT ![e] = {how}]
  /\ backlog' = IF how = "ok" THEN [backlog EXCEPT ![e] = @ - 1] ELSE backlog
  /\ UNCHANGED <<m_state, accepting, conVars, mainVars>>

\* The accept completes, with a client or with an error (no descriptor left).
Completes(e, how) ==
  /\ accepting[e] > 0 /\ backlog[e] > 0 /\ accepted[e] = {} /\ m_state[e] = "LISTENING"
  /\ accepted' = [accepted EXCEPT ![e] = {how}]
  /\ backlog' = IF how = "ok" THEN [backlog EXCEPT ![e] = @ - 1] ELSE backlog
  /\ UNCHANGED <<m_state, accepting, conVars, mainVars>>

\* Mutant: a failed accept ends the loop.
handle_acceptOnce(e) ==
  /\ Idle /\ accepted[e] # {}
  /\ accepted' = [accepted EXCEPT ![e] = {}]
  /\ IF "ok" \in accepted[e]
     THEN /\ \E c \in Conn : started[c] = "new" /\ started' = [started EXCEPT ![c] = e]
          /\ UNCHANGED accepting
     ELSE accepting' = [accepting EXCEPT ![e] = @ - 1] /\ UNCHANGED started
  /\ UNCHANGED <<m_state, backlog, m_connections, lost, closing, mainVars>>

\* handle_accept: the connection is started or, after an error, terminated; the
\* loop goes on in either case.
handle_accept(e) ==
  /\ Idle /\ accepted[e] # {}
  /\ accepted' = [accepted EXCEPT ![e] = {}]
  /\ LET rest == [accepting EXCEPT ![e] = @ - 1] IN
     accepting' = IF m_state[e] = "LISTENING" THEN [rest EXCEPT ![e] = @ + 1] ELSE rest
  /\ IF "ok" \in accepted[e]
     THEN \E c \in Conn : started[c] = "new" /\ started' = [started EXCEPT ![c] = e]
     ELSE UNCHANGED started
  /\ UNCHANGED <<m_state, backlog, m_connections, lost, closing, mainVars>>

-----------------------------------------------------------------------------
(* The other handlers, as far as they hold something while they run.        *)

Enter(thing) == Idle /\ holding' = thing /\ UNCHANGED <<acceptVars, at, signal>>
In(thing)    == Main_ /\ holding = thing /\ holding' = Nothing
                /\ UNCHANGED <<acceptVars, at, signal>>

Map       == [of |-> "m_connections"]
State(c)  == [of |-> "m_connection_state_lock", con |-> c]
Write(c)  == [of |-> "m_write_lock", con |-> c]

\* on_open and on_close of the plain endpoint change the map.
on_open(c) ==
  /\ Enter(Map) /\ started[c] = "m_server" /\ c \notin m_connections
  /\ m_connections' = m_connections \cup {c}
  /\ UNCHANGED <<started, lost, closing>>

Lose(c) ==
  /\ at = "run" /\ c \in m_connections \ lost
  /\ lost' = lost \cup {c}
  /\ UNCHANGED <<acceptVars, started, m_connections, closing, mainVars>>

on_close(c) ==
  /\ Enter(Map) /\ c \in lost /\ c \in m_connections
  /\ m_connections' = m_connections \ {c}
  /\ started' = [started EXCEPT ![c] = "gone"]
  /\ UNCHANGED <<lost, closing>>

MapChanged == In(Map) /\ UNCHANGED conVars

\* send looks at the state under one mutex, then queues under the other.
SendChecks(c) ==
  /\ Enter(State(c)) /\ c \in m_connections \ lost
  /\ UNCHANGED conVars
SendQueues(c) ==
  /\ Main_ /\ holding = State(c) /\ holding' = Write(c)
  /\ UNCHANGED <<acceptVars, at, signal, conVars>>
SendReturns(c) == In(Write(c)) /\ UNCHANGED conVars

-----------------------------------------------------------------------------
(* SIGINT.                                                                  *)

Interrupt ==
  /\ Main_ /\ signal' = "stop.plain"
  /\ UNCHANGED <<acceptVars, conVars, at, holding>>

\* stop_listening: fails when not listening, and stopServer returns to exit.
stop_listening(e, here, next) ==
  /\ signal = here /\ at \notin {"exited", "died"}
  /\ IF m_state[e] = "LISTENING"
     THEN /\ m_state' = [m_state EXCEPT ![e] = "READY"]
          /\ signal' = next
     ELSE signal' = "exit" /\ UNCHANGED m_state
  /\ UNCHANGED <<accepting, accepted, backlog, conVars, at, holding>>

\* close() locks the state, send_close_frame the write mutex: if the interrupted
\* code holds it, nothing will ever release it.  Of a map caught in the middle of
\* a change nothing can be said.
Blocked(c) == holding \in {State(c), Write(c)}

\* Mutant: it waits until whoever it closed is gone.
CloseNextWaiting ==
  /\ signal = "close" /\ at \notin {"exited", "died"}
  /\ \/ /\ holding = Map /\ at' = "died"
        /\ UNCHANGED <<conVars, signal>>
     \/ \E c \in m_connections \ closing :
          /\ ~Blocked(c)
          /\ closing' = closing \cup {c}
          /\ UNCHANGED <<started, m_connections, lost, at, signal>>
     \/ /\ m_connections = {} /\ signal' = "stop"
        /\ UNCHANGED <<conVars, at>>
  /\ UNCHANGED <<acceptVars, holding>>

CloseNext ==
  /\ signal = "close" /\ at \notin {"exited", "died"}
  /\ \/ /\ holding = Map /\ at' = "died"
        /\ UNCHANGED <<conVars, signal>>
     \/ \E c \in m_connections \ closing :
          /\ ~Blocked(c)
          /\ closing' = closing \cup {c}
          /\ UNCHANGED <<started, m_connections, lost, at, signal>>
     \/ /\ m_connections \subseteq closing /\ signal' = "stop"
        /\ UNCHANGED <<conVars, at>>
  /\ UNCHANGED <<acceptVars, holding>>

\* m_server.stop(), tls.stop(), ios.stop(): no further handler would be run.
Stop ==
  /\ signal = "stop" /\ at \notin {"exited", "died"} /\ signal' = "exit"
  /\ UNCHANGED <<acceptVars, conVars, at, holding>>

Exit ==
  /\ signal = "exit" /\ at \notin {"exited", "died"}
  /\ at' = "exited"
  /\ UNCHANGED <<acceptVars, conVars, holding, signal>>

StopServer ==
  \/ stop_listening("m_server", "stop.plain", "stop.tls")
  \/ stop_listening("tls", "stop.tls", "close")
  \/ CloseNext \/ Stop \/ Exit

-----------------------------------------------------------------------------
Handlers ==
  \/ MapChanged
  \/ \E c \in Conn : on_open(c) \/ on_close(c) \/ SendQueues(c) \/ SendReturns(c)

Network == \E e \in Endpoint : Knock(e)

EndpointNext ==
  \/ Start \/ Network \/ Handlers \/ Interrupt \/ StopServer
  \/ \E e \in Endpoint : handle_accept(e) \/ \E how \in {"ok", "error"} : Completes(e, how)
  \/ \E c \in Conn : Lose(c) \/ SendChecks(c)

EndpointSpec == EndpointInit /\ [][EndpointNext]_epVars

\* Main and its signal handler go on, queued handlers are run in turn, and
\* accepts do not fail for ever.
EndpointFair ==
  /\ EndpointSpec
  /\ WF_epVars(Start) /\ WF_epVars(StopServer)
  /\ SF_epVars(Handlers)
  /\ \A e \in Endpoint : SF_epVars(handle_accept(e)) /\ SF_epVars(Completes(e, "ok"))

-----------------------------------------------------------------------------
(* The accept loop holds exactly one accept, as long as it listens, whatever *)
(* becomes of the clients: neither lost after a failure nor doubled.         *)
OneAccept ==
  at = "run" => \A e \in Endpoint : m_state[e] = "LISTENING" => accepting[e] = 1

\* Every client that knocks is taken from the backlog or finds the process gone,
\* although accepts fail in between.
AllAccepted ==
  \A e \in Endpoint :
    backlog[e] > 0 ~> backlog[e] < MaxBacklog \/ at # "run" \/ signal # "none"

\* After SIGINT the process comes to an end, wherever in the program it struck,
\* unless that was inside a send: close() then waits for a mutex that the thread
\* it runs on holds (std::mutex is not recursive).
SigintEnds ==
  signal # "none" ~> at \in {"exited", "died"} \/ \E c \in Conn : Blocked(c)

=============================================================================
