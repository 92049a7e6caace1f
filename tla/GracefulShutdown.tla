-------------------------- MODULE GracefulShutdown --------------------------
(***************************************************************************)
(* examples/deep-axum: a server that POST /shutdown stops.  The sender of  *)
(* a oneshot channel waits in the shared state; the first such request     *)
(* takes it and sends, which ends the future that axum::serve was given    *)
(* with with_graceful_shutdown.  axum (external) then accepts no more,     *)
(* lets open requests finish, closes idle connections, and returns; main   *)
(* ends, and with it whatever would still run.  A connection whose first   *)
(* request has come in half is neither: it is waited for, and nothing      *)
(* limits the time it may take.                                            *)
(***************************************************************************)
EXTENDS Naturals, FiniteSets

CONSTANTS Conns,    \* the connections ever made
          Tokens,   \* the tokens clients send
          NoUser    \* no user in the request's extensions

ASSUME GracefulShutdownAssumption == NoUser \notin Tokens

VARIABLES
  shutdown,   \* AppState.shutdown is Some
  sent,       \* the oneshot channel has its message
  server,     \* axum::serve: "serving", "closing" or "returned"
  conn,       \* where each connection is
  told,       \* the connections whose task knows of the shutdown
  request,    \* its present or last request
  status      \* the answer to it

shutdownVars == <<shutdown, sent, server, conn, told, request, status>>

\* The Authorization header: none, one that is not text, one word, or a scheme
\* and a token.
Headers == {"none", "bytes", "word"} \cup Tokens
Requests == [path : {"/"}, authorization : Headers] \cup [path : {"/shutdown"}]
NoRequest == [path |-> "none"]

\* "reading": a part of the head of a connection's first request has come.  On a
\* connection that has served a request, such a part leaves it idle.
States == {"absent", "idle", "reading", "handling", "answering", "closed"}
Answers == [code : {0, 200, 400, 401, 500}, user : Tokens \cup {NoUser}]
Code(n) == [code |-> n, user |-> NoUser]

ShutdownInit == /\ shutdown = TRUE
                /\ sent = FALSE
                /\ server = "serving"
                /\ conn = [c \in Conns |-> "absent"]
                /\ told = {}
                /\ request = [c \in Conns |-> NoRequest]
                /\ status = [c \in Conns |-> Code(0)]

Move(c, from, to) == conn[c] \in from /\ conn' = [conn EXCEPT ![c] = to]

-----------------------------------------------------------------------------
(* The handlers.                                                           *)

\* AuthToken::from_request_parts: a token, and a user with that token in the
\* extensions of the request, or a refusal.
Refusal(h) == IF h = "none" THEN Code(401) ELSE Code(400)
ExtensionsAfter(h) == IF h \in Tokens THEN h ELSE NoUser

\* What index makes of the extensions it finds.
Greeting(user) == IF user = NoUser THEN Code(500) ELSE [code |-> 200, user |-> user]

\* Mutant: the arguments of index in the other order.
ExtensionFirst(h) == Greeting(NoUser)

\* The arguments of index are extracted in their order.
Extracted(h) == IF h \in Tokens THEN Greeting(ExtensionsAfter(h)) ELSE Refusal(h)

\* Both middlewares run before and do nothing to a request but set an
\* extension of another type.
index(c) == /\ request[c].path = "/"
            /\ Move(c, {"handling"}, "answering")
            /\ status' = [status EXCEPT ![c] = Extracted(request[c].authorization)]
            /\ UNCHANGED <<shutdown, sent, server, told, request>>

\* Mutant: take() without send().
TakeOnly(c) == shutdown' = FALSE /\ UNCHANGED sent

\* Under the lock: Option::take, and send on what was taken.
Take(c) == /\ sent' = (sent \/ shutdown)
           /\ shutdown' = FALSE

on_shutdown(c) == /\ request[c].path = "/shutdown"
                  /\ Move(c, {"handling"}, "answering")
                  /\ Take(c)
                  /\ status' = [status EXCEPT ![c] = Code(200)]
                  /\ UNCHANGED <<server, told, request>>

-----------------------------------------------------------------------------
(* axum::serve and hyper.                                                  *)

Closed(c) == /\ request' = [request EXCEPT ![c] = NoRequest]
             /\ status' = [status EXCEPT ![c] = Code(0)]

Accept(c) == /\ server = "serving"
             /\ Move(c, {"absent", "closed"}, "idle")
             /\ Closed(c)
             /\ UNCHANGED <<shutdown, sent, server, told>>

ReadPart(c) == /\ c \notin told /\ request[c] = NoRequest
               /\ Move(c, {"idle"}, "reading")
               /\ UNCHANGED <<shutdown, sent, server, told, request, status>>

\* A request may still come in while its connection's task is not told, and the
\* rest of one even then.
Receive(c, q) == /\ c \in told => conn[c] = "reading"
                 /\ Move(c, {"idle", "reading"}, "handling")
                 /\ request' = [request EXCEPT ![c] = q]
                 /\ status' = [status EXCEPT ![c] = Code(0)]
                 /\ UNCHANGED <<shutdown, sent, server, told>>

\* The client has read its answer.
Written(c) == /\ Move(c, {"answering"}, IF c \in told THEN "closed" ELSE "idle")
              /\ UNCHANGED <<shutdown, sent, server, told, request, status>>

\* The connection's task sees the signal: an idle connection is closed, another
\* one after its answer, for which the rest of its request must come.
Tell(c) == /\ server = "closing"
           /\ c \notin told
           /\ told' = told \cup {c}
           /\ Move(c, {"idle", "reading", "handling", "answering"},
                   IF conn[c] = "idle" THEN "closed" ELSE conn[c])
           /\ UNCHANGED <<shutdown, sent, server, request, status>>

ClientCloses(c) == /\ Move(c, {"idle", "reading", "handling", "answering"}, "closed")
                   /\ Closed(c)
                   /\ UNCHANGED <<shutdown, sent, server, told>>

-----------------------------------------------------------------------------
(* main.                                                                   *)

\* The future given to with_graceful_shutdown ends: rx has the message.
ShutdownSignal == /\ server = "serving"
                  /\ sent
                  /\ server' = "closing"
                  /\ UNCHANGED <<shutdown, sent, conn, told, request, status>>

\* The last connection is closed: serve returns, main ends.
Return == /\ server = "closing"
          /\ \A c \in Conns : conn[c] \in {"absent", "closed"}
          /\ server' = "returned"
          /\ UNCHANGED <<shutdown, sent, conn, told, request, status>>

Stopped == server = "returned" /\ UNCHANGED shutdownVars

Serve(c) == index(c) \/ on_shutdown(c) \/ Tell(c)
Client(c) == \/ Accept(c) \/ ReadPart(c) \/ ClientCloses(c)
             \/ \E q \in Requests : Receive(c, q)
ShutdownNext == \/ \E c \in Conns : Serve(c) \/ Written(c) \/ Client(c)
                \/ ShutdownSignal \/ Return \/ Stopped

ShutdownSpec == ShutdownInit /\ [][ShutdownNext]_shutdownVars

\* The runtime polls what can go on, and clients read their answers.  They need
\* not finish what they have begun to send.
ShutdownFairness == /\ \A c \in Conns : /\ WF_shutdownVars(index(c) \/ on_shutdown(c))
                                       /\ WF_shutdownVars(Tell(c))
                                       /\ WF_shutdownVars(Written(c))
                    /\ WF_shutdownVars(ShutdownSignal \/ Return)

-----------------------------------------------------------------------------
\* Every variable has its type; the message is in the channel exactly when the
\* sender is gone from the state, and nothing stops without it
\* (examples/deep-axum, main.rs 22-44 and 82-107).
ShutdownTypeOK == /\ shutdown \in BOOLEAN
                  /\ sent = ~shutdown
                  /\ server \in {"serving", "closing", "returned"}
                  /\ server # "serving" => sent
                  /\ conn \in [Conns -> States]
                  /\ told \subseteq Conns
                  /\ request \in [Conns -> Requests \cup {NoRequest}]
                  /\ status \in [Conns -> Answers]

\* One request to /shutdown is enough, whatever other requests are open or come
\* in between: "When this future returns, the server will shutdown".  That takes
\* clients that finish the heads they have begun, or go: for one that does not,
\* the server waits for ever (main.rs 84 and 103-107).
HeadsAreFinished == \A c \in Conns : conn[c] = "reading" ~> conn[c] # "reading"
ShutdownCompletes ==
  HeadsAreFinished =>
    \A c \in Conns : (request[c].path = "/shutdown" /\ status[c].code = 200)
                        ~> server = "returned"

\* An answer to "/" greets the caller with his own token and is never the error
\* of an extension that was not set (main.rs 94-101, extractors/mod.rs 18-39).
CallersAreGreeted ==
  \A c \in Conns : request[c].path = "/" /\ status[c].code # 0 =>
    \/ status[c] = [code |-> 200, user |-> request[c].authorization]
    \/ request[c].authorization \notin Tokens /\ status[c].code \in {400, 401}
=============================================================================
