------------------------------- MODULE MCWires ------------------------------
(* TLC instance of the programs that are about connections.  They are      *)
(* separate programs: in a behaviour one of them runs, and the others stay *)
(* as they were before their start.                                        *)
EXTENDS Tunnel, Relay, Acceptor, GracefulShutdown, EventStream

VARIABLE program

\* "acceptor" is the accept loop of examples/low-level-native-tls or http-proxy.
Programs == {"http-proxy", "relays", "acceptor", "deep-axum", "sse"}
vars == <<program, tunnelVars, relayVars, acceptorVars, shutdownVars, eventVars>>

Init == /\ program \in Programs
        /\ TunnelInit /\ RelayInit /\ AcceptorInit /\ ShutdownInit /\ EventInit
        /\ program # "relays" => relay = "reqwest-response"
        /\ program # "acceptor" => certs = "missing"

Next ==
  /\ UNCHANGED program
  /\ \/ /\ program = "http-proxy" /\ TunnelNext
        /\ UNCHANGED <<relayVars, acceptorVars, shutdownVars, eventVars>>
     \/ /\ program = "relays" /\ RelayNext
        /\ UNCHANGED <<tunnelVars, acceptorVars, shutdownVars, eventVars>>
     \/ /\ program = "acceptor" /\ AcceptorNext
        /\ UNCHANGED <<tunnelVars, relayVars, shutdownVars, eventVars>>
     \/ /\ program = "deep-axum" /\ ShutdownNext
        /\ UNCHANGED <<tunnelVars, relayVars, acceptorVars, eventVars>>
     \/ /\ program = "sse" /\ EventNext
        /\ UNCHANGED <<tunnelVars, relayVars, acceptorVars, shutdownVars>>

\* The producer runs, and the client reads what it is sent.  The other programs
\* owe no step before somebody connects.
EventFairness == /\ WF_eventVars(program = "sse" /\ Produces)
                 /\ WF_eventVars(program = "sse" /\ Yield)

Spec == /\ Init /\ [][Next]_vars
        /\ TunnelFairness /\ AcceptorFairness /\ ShutdownFairness
        /\ EventFairness
=============================================================================
