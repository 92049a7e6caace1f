------------------------------- MODULE Relay --------------------------------
(***************************************************************************)
(* Three programs that pass bodies on.  examples/print-request-response    *)
(* collects the request's body, hands it to the router in one piece, and   *)
(* collects the response's likewise.  examples/reqwest-response asks       *)
(* another route for a slow stream of ten chunks, and examples/            *)
(* reverse-proxy a second server that a spawned task starts; both forward  *)
(* the head of the answer at once and every chunk as it comes.             *)
(***************************************************************************)
EXTENDS Naturals

CONSTANT MaxChunks   \* bound on the chunks of a body

ASSUME RelayAssumption == MaxChunks \in Nat \ {0}

VARIABLES
  relay,       \* the program
  upstream,    \* whether what it asks for the response listens
  leg,         \* "absent", the body that is on its way, or "done"
  produced,    \* chunks of each body its source has made
  source,      \* "writing", "finished" or "failed"
  passed,      \* chunks its sink has got
  sink,        \* "open", "ended" or "broken"
  reply        \* the status sent to the client

relayVars == <<relay, upstream, leg, produced, source, passed, sink, reply>>

Bodies == {"request", "response"}
Collects == relay = "print-request-response"

RelayInit == /\ relay \in {"print-request-response", "reqwest-response", "reverse-proxy"}
             /\ upstream = (relay # "reverse-proxy")
             /\ leg = "absent"
             /\ produced = [b \in Bodies |-> 0]
             /\ source = [b \in Bodies |-> "writing"]
             /\ passed = [b \in Bodies |-> 0]
             /\ sink = [b \in Bodies |-> "open"]
             /\ reply = 0

\* tokio::spawn(server()): the backend is bound.
Listen == /\ ~upstream
          /\ upstream' = TRUE
          /\ UNCHANGED <<relay, leg, produced, source, passed, sink, reply>>

Begin == /\ leg = "absent"
         /\ leg' = "request"
         /\ UNCHANGED <<relay, upstream, produced, source, passed, sink, reply>>

\* The route "/*" has no wildcard in the syntax of axum 0.8: any other path is
\* not found, not even the one the backend knows.
NoRoute == /\ relay = "reverse-proxy"
           /\ leg = "request"
           /\ leg' = "done"
           /\ reply' = 404
           /\ UNCHANGED <<relay, upstream, produced, source, passed, sink>>

-----------------------------------------------------------------------------
(* The sources: the client, and the handler or upstream server.            *)

Produce(b) == /\ leg = b /\ source[b] = "writing"
              /\ produced[b] < MaxChunks
              /\ produced' = [produced EXCEPT ![b] = @ + 1]
              /\ UNCHANGED <<relay, upstream, leg, source, passed, sink, reply>>

\* The answer of the logger's router is in memory and cannot fail; a connection
\* can.
Ends(b) == IF Collects /\ b = "response" THEN {"finished"} ELSE {"finished", "failed"}
EndBody(b) == /\ leg = b /\ source[b] = "writing"
              /\ \E s \in Ends(b) : source' = [source EXCEPT ![b] = s]
              /\ UNCHANGED <<relay, upstream, leg, produced, passed, sink, reply>>

\* Every chunk that is missing, and the end.
PassAll(b) == /\ passed' = [passed EXCEPT ![b] = produced[b]]
              /\ sink' = [sink EXCEPT ![b] = "ended"]

-----------------------------------------------------------------------------
(* logger.                                                                 *)

\* print_body("request"): then next.run gets the whole body.
CollectRequest == /\ Collects
                  /\ leg = "request" /\ source[leg] = "finished"
                  /\ PassAll(leg)
                  /\ leg' = "response"
                  /\ UNCHANGED <<relay, upstream, produced, source, reply>>

\* print_body("response"): then the answer has the whole body.
CollectResponse == /\ Collects
                   /\ leg = "response" /\ source[leg] = "finished"
                   /\ PassAll(leg)
                   /\ leg' = "done"
                   /\ reply' = 200
                   /\ UNCHANGED <<relay, upstream, produced, source>>

\* Mutant: the status is that of the response's head.
CollectFailsOk == /\ Collects
                  /\ leg \in Bodies /\ source[leg] = "failed"
                  /\ leg' = "done"
                  /\ reply' = 200
                  /\ UNCHANGED <<relay, upstream, produced, source, passed, sink>>

\* BAD_GATEWAY, whichever body it was.
CollectFails == /\ Collects
                /\ leg \in Bodies /\ source[leg] = "failed"
                /\ leg' = "done"
                /\ reply' = 502
                /\ UNCHANGED <<relay, upstream, produced, source, passed, sink>>

-----------------------------------------------------------------------------
(* reqwest_response and the proxy's handler.  Both are GET routes: what    *)
(* there is of a request is sent with its head.                            *)

\* The upstream's head is there: it is the head of the answer.  The backend of
\* the proxy has no route "/*" and answers 404.
ForwardHead == /\ ~Collects
               /\ leg = "request" /\ upstream
               /\ leg' = "response"
               /\ reply' = IF relay = "reverse-proxy" THEN 404 ELSE 200
               /\ UNCHANGED <<relay, upstream, produced, source, passed, sink>>

\* Nothing listens, or the connection breaks before the head: BAD_REQUEST.
AskFails == /\ ~Collects
            /\ leg = "request"
            /\ leg' = "done"
            /\ reply' = 400
            /\ UNCHANGED <<relay, upstream, produced, source, passed, sink>>

ForwardChunk == /\ ~Collects
                /\ leg = "response" /\ passed[leg] < produced[leg]
                /\ passed' = [passed EXCEPT ![leg] = @ + 1]
                /\ UNCHANGED <<relay, upstream, leg, produced, source, sink, reply>>

\* Mutant: an error of the stream is taken for its end.
ForwardAnyEnd == /\ ~Collects
                 /\ leg = "response" /\ source[leg] # "writing"
                 /\ passed[leg] = produced[leg]
                 /\ sink' = [sink EXCEPT ![leg] = "ended"]
                 /\ leg' = "done"
                 /\ UNCHANGED <<relay, upstream, produced, source, passed, reply>>

\* The stream's end, or its error: hyper then aborts the chunked body.
ForwardEnd == /\ ~Collects
              /\ leg = "response" /\ source[leg] # "writing"
              /\ passed[leg] = produced[leg] \/ source[leg] = "failed"
              /\ sink' = [sink EXCEPT ![leg] =
                            IF source[leg] = "finished" THEN "ended" ELSE "broken"]
              /\ leg' = "done"
              /\ UNCHANGED <<relay, upstream, produced, source, passed, reply>>

RelayQuiet == leg = "done" /\ upstream /\ UNCHANGED relayVars
RelayNext == \/ Listen \/ Begin \/ NoRoute \/ CollectRequest \/ CollectResponse \/ CollectFails
             \/ ForwardHead \/ AskFails \/ ForwardChunk \/ ForwardEnd \/ RelayQuiet
             \/ \E b \in Bodies : (Collects \/ b = "response") /\ (Produce(b) \/ EndBody(b))

RelaySpec == RelayInit /\ [][RelayNext]_relayVars

-----------------------------------------------------------------------------
\* Every variable has its type (print-request-response 41-76, reqwest-response
\* 43-76, reverse-proxy 40-65).
RelayTypeOK ==
  /\ relay \in {"print-request-response", "reqwest-response", "reverse-proxy"}
  /\ upstream \in BOOLEAN
  /\ leg \in {"absent", "done"} \cup Bodies
  /\ produced \in [Bodies -> 0..MaxChunks]
  /\ source \in [Bodies -> {"writing", "finished", "failed"}]
  /\ passed \in [Bodies -> 0..MaxChunks]
  /\ \A b \in Bodies : passed[b] <= produced[b]
  /\ sink \in [Bodies -> {"open", "ended", "broken"}]
  /\ reply \in {0, 200, 400, 404, 502}

\* Whoever sees the end of a body has all of it: a source that fails, before or
\* after the head was forwarded, never looks like a shorter body
\* (print-request-response 62-69, reqwest-response 58-60, reverse-proxy 52-56).
RequestBody == INSTANCE Pipe
  WITH FaultsLookLikeEnds <- FALSE, written <- produced["request"],
       finished <- source["request"] = "finished", got <- passed["request"],
       reader <- sink["request"], fault <- source["request"] = "failed"
ResponseBody == INSTANCE Pipe
  WITH FaultsLookLikeEnds <- FALSE, written <- produced["response"],
       finished <- source["response"] = "finished", got <- passed["response"],
       reader <- sink["response"], fault <- source["response"] = "failed"

BodiesArePipes == RequestBody!Spec /\ ResponseBody!Spec

\* The logger's status covers both bodies: its handler only ever runs on a whole
\* request, a 200 comes with the whole response, and a 502 means that no handler
\* has run (print-request-response 47-58).
LoggedAnswersAreWhole ==
  Collects =>
    /\ leg = "response" => sink["request"] = "ended"
    /\ reply = 200 => \A b \in Bodies : sink[b] = "ended" /\ passed[b] = produced[b]
    /\ reply = 502 => produced["response"] = 0 /\ sink["request"] = "open"
=============================================================================
