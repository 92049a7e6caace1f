------------------------------ MODULE Acceptor ------------------------------
(***************************************************************************)
(* The loop that examples/low-level-native-tls and examples/http-proxy     *)
(* accept connections in: each gets a task of its own, which does the TLS  *)
(* handshake (the proxy has none) and serves requests.  Nothing times a    *)
(* handshake.  accept() is unwrapped: where it fails, main panics and the  *)
(* runtime takes every task with it.  Before the loop the TLS program      *)
(* reads its key and its certificate, which it does not find where they    *)
(* are kept and would not accept under their names: it has never got to    *)
(* the loop unless somebody has moved the files and exchanged them.        *)
(***************************************************************************)
EXTENDS Naturals, FiniteSets

CONSTANTS Peers,      \* the clients
          MaxFiles    \* descriptors the process may have for connections

ASSUME AcceptorAssumption == IsFiniteSet(Peers) /\ MaxFiles \in Nat \ {0}

VARIABLES
  peer,   \* where each client's connection is
  main,   \* the program: "starting", "accepting" or "panicked"
  certs   \* what the program finds as certs/key.pem and certs/cert.pem

acceptorVars == <<peer, main, certs>>

Open == {p \in Peers : peer[p] \in {"handshaking", "serving"}}

\* "not needed": the proxy; "missing": the repository as it is, which has them in
\* src/certs; "as named": the key in key.pem; "exchanged": the key in cert.pem.
Files == {"not needed", "missing", "as named", "exchanged"}

AcceptorInit == /\ peer = [p \in Peers |-> "absent"]
                /\ main = "starting"
                /\ certs \in Files

\* The identity is made of key.pem and cert.pem, in this order, by a function
\* that takes the certificate first; every failure is unwrapped.
native_tls_acceptor == certs = "exchanged"

\* From the start to the loop, or to a panic: of native_tls_acceptor, or because
\* the address is taken.
StartUp == /\ main = "starting"
           /\ \/ main' = "accepting" /\ (certs = "not needed" \/ native_tls_acceptor)
              \/ main' = "panicked"
           /\ UNCHANGED <<peer, certs>>

Step(p, from, to) == peer[p] \in from /\ peer' = [peer EXCEPT ![p] = to]

\* The kernel completes the connection and queues it.
Dial(p) == /\ main = "accepting"
           /\ Step(p, {"absent", "closed"}, "queued")
           /\ UNCHANGED <<main, certs>>

\* A client resets the connection while it is queued.
Abort(p) == /\ Step(p, {"queued"}, "aborted")
            /\ UNCHANGED <<main, certs>>

\* Mutant: the handshake is awaited before the next accept.
AcceptOneByOne(p) == /\ main = "accepting"
                     /\ Cardinality(Open) < MaxFiles
                     /\ \A q \in Peers : peer[q] # "handshaking"
                     /\ Step(p, {"queued", "aborted"}, "handshaking")
                     /\ UNCHANGED <<main, certs>>

\* accept() and spawn; an aborted connection may still be handed over.
AcceptPeer(p) == /\ main = "accepting"
                 /\ Cardinality(Open) < MaxFiles
                 /\ Step(p, {"queued", "aborted"}, "handshaking")
                 /\ UNCHANGED <<main, certs>>

\* accept() fails, and its unwrap() panics: no descriptor is left (EMFILE), or the
\* connection was aborted before it was accepted (ECONNABORTED).
Exhausted == Cardinality(Open) >= MaxFiles /\ \E p \in Peers : peer[p] = "queued"
Aborted == \E p \in Peers : peer[p] = "aborted"
AcceptFails == /\ main = "accepting"
               /\ Exhausted \/ Aborted
               /\ main' = "panicked"
               /\ peer' = [p \in Peers |-> "closed"]
               /\ UNCHANGED certs

\* tls_acceptor.accept(conn): done when the client has done its part ...
Handshake(p) == /\ Step(p, {"handshaking"}, "serving")
                /\ UNCHANGED <<main, certs>>

\* ... and an error of it, or of the connection, ends this task only.
Close(p) == /\ Step(p, {"handshaking", "serving"}, "closed")
            /\ UNCHANGED <<main, certs>>

AcceptorDown == main = "panicked" /\ UNCHANGED acceptorVars
AcceptorNext ==
  \/ StartUp
  \/ \E p \in Peers : Dial(p) \/ Abort(p) \/ AcceptPeer(p) \/ Handshake(p) \/ Close(p)
  \/ AcceptFails \/ AcceptorDown

AcceptorSpec == AcceptorInit /\ [][AcceptorNext]_acceptorVars

\* The loop is polled.  Clients owe nothing, not even their handshake.
AcceptorFairness == \A p \in Peers : WF_acceptorVars(AcceptPeer(p) \/ AcceptFails)

-----------------------------------------------------------------------------
\* Every variable has its type (examples/low-level-native-tls, main.rs 42-68).
AcceptorTypeOK ==
  /\ peer \in [Peers -> {"absent", "queued", "aborted", "handshaking", "serving", "closed"}]
  /\ main \in {"starting", "accepting", "panicked"}
  /\ certs \in Files

\* A client that has connected gets its task, however many others never go on
\* with their handshakes or fail in them.  Only two things keep it from that, and
\* then end the whole process: all descriptors are in use, or a connection is
\* aborted while it waits to be accepted (main.rs 46-52).
QueuedAreAccepted ==
  \A p \in Peers : peer[p] = "queued" ~> peer[p] \in {"handshaking", "serving"} \/ Exhausted \/ Aborted
=============================================================================
