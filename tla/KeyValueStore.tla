--------------------------- MODULE KeyValueStore ---------------------------
(***************************************************************************)
(* examples/key-value-store: a HashMap behind an RwLock, served by one     *)
(* handler per route behind load shedding, a limit on concurrent requests  *)
(* (Router::layer wraps every endpoint on its own, so each has a semaphore *)
(* of its own) and a timeout.  A handler runs in one go from its admission *)
(* to its answer, except kv_set, which waits for the request's body: only  *)
(* there can it be timed out or dropped with its connection.               *)
(***************************************************************************)
EXTENDS Naturals, FiniteSets

CONSTANTS Requests,      \* the requests ever made
          Keys, Values,
          KeysSegment,   \* the key spelled "keys", as the path /keys
          Absent,        \* no value
          Limit          \* concurrency_limit(1024)

ASSUME KVAssumption == /\ IsFiniteSet(Requests)
                       /\ KeysSegment \in Keys
                       /\ Absent \notin Values
                       /\ Limit \in Nat \ {0}

VARIABLES db,       \* AppState.db
          used,     \* permits taken from each endpoint's semaphore
          phase,    \* where the request is
          request,  \* what it asks
          status,   \* what it is answered ...
          result    \* ... and the body of a successful answer

vars == <<db, used, phase, request, status, result>>

Heads == [path : {"/{key}"}, method : {"GET", "DELETE"}, key : Keys]
         \cup [path : {"/{key}"}, method : {"POST"}, key : Keys, body : Values, fits : BOOLEAN]
         \cup [path : {"/admin/keys"}, method : {"DELETE"}, token : BOOLEAN]
         \cup [path : {"/admin/key/{key}"}, method : {"DELETE"}, key : Keys, token : BOOLEAN]
NoHead == [path |-> "none"]

\* What answers the methods a path has no handler for.
Fallbacks == {"key_fallback", "keys_fallback"}
Endpoints == {"kv_get", "kv_set", "list_keys", "delete_all_keys", "remove_key"} \cup Fallbacks
Phases == {"idle", "arrived", "admitted", "answering", "done", "dropped"}
Statuses == {"none", "ok", "created", "not_found", "unauthorized", "not_allowed",
             "timeout", "too_large", "bad_body", "overloaded"}

\* Mutant: the methods /keys does not have fall through to /{key}.
EndpointFallsThrough(q) ==
  CASE q.path = "/admin/keys" -> "delete_all_keys"
    [] q.path = "/admin/key/{key}" -> "remove_key"
    [] q.path = "/{key}" /\ q.key = KeysSegment /\ q.method = "GET" -> "list_keys"
    [] q.path = "/{key}" /\ q.key # KeysSegment /\ q.method = "GET" -> "kv_get"
    [] q.path = "/{key}" /\ q.method = "POST" -> "kv_set"
    [] q.path = "/{key}" /\ q.method = "DELETE" -> "key_fallback"
    [] OTHER -> "none"

\* The routing table.  A static segment wins over a parameter, so GET /keys
\* lists the keys and no other method is allowed there.
Endpoint(q) ==
  CASE q.path = "/admin/keys" -> "delete_all_keys"
    [] q.path = "/admin/key/{key}" -> "remove_key"
    [] q.path = "/{key}" /\ q.key = KeysSegment /\ q.method = "GET" -> "list_keys"
    [] q.path = "/{key}" /\ q.key # KeysSegment /\ q.method = "GET" -> "kv_get"
    [] q.path = "/{key}" /\ q.key # KeysSegment /\ q.method = "POST" -> "kv_set"
    [] q.path = "/{key}" /\ q.key = KeysSegment /\ q.method # "GET" -> "keys_fallback"
    [] q.path = "/{key}" /\ q.key # KeysSegment /\ q.method = "DELETE" -> "key_fallback"
    [] OTHER -> "none"

At(r, p, e) == phase[r] = p /\ Endpoint(request[r]) = e

Init == /\ db = [k \in Keys |-> Absent]
        /\ used = [e \in Endpoints |-> 0]
        /\ phase = [r \in Requests |-> "idle"]
        /\ request = [r \in Requests |-> NoHead]
        /\ status = [r \in Requests |-> "none"]
        /\ result = [r \in Requests |-> Absent]

Arrive(r, q) == /\ phase[r] = "idle"
                /\ phase' = [phase EXCEPT ![r] = "arrived"]
                /\ request' = [request EXCEPT ![r] = q]
                /\ UNCHANGED <<db, used, status, result>>

-----------------------------------------------------------------------------
(* The layers: a request is admitted or answered at once.                  *)

Answer(r, p, s, x) == /\ phase' = [phase EXCEPT ![r] = p]
                      /\ status' = [status EXCEPT ![r] = s]
                      /\ result' = [result EXCEPT ![r] = x]
                      /\ UNCHANGED request

\* load_shed: no permit is free, so the request is not queued but refused.
Shed(r) == \E e \in Endpoints :
             /\ At(r, "arrived", e)
             /\ used[e] = Limit
             /\ Answer(r, "done", "overloaded", Absent)
             /\ UNCHANGED <<db, used>>

Admit(r) == \E e \in Endpoints :
              /\ At(r, "arrived", e)
              /\ used[e] < Limit
              /\ used' = [used EXCEPT ![e] = @ + 1]
              /\ phase' = [phase EXCEPT ![r] = "admitted"]
              /\ UNCHANGED <<db, request, status, result>>

\* ValidateRequestHeaderLayer::bearer on the admin routes.
Unauthorized(r) == /\ \E e \in {"delete_all_keys", "remove_key"} : At(r, "admitted", e)
                   /\ ~request[r].token
                   /\ Answer(r, "answering", "unauthorized", Absent)
                   /\ UNCHANGED <<db, used>>

\* A path without a handler for the method: a fallback, behind the same layers.
NotAllowed(r) == /\ \E e \in Fallbacks : At(r, "admitted", e)
                 /\ Answer(r, "answering", "not_allowed", Absent)
                 /\ UNCHANGED <<db, used>>

-----------------------------------------------------------------------------
(* The handlers.  Each takes the lock, acts and releases it without await. *)

Stored == {k \in Keys : db[k] # Absent}

kv_get(r) == /\ At(r, "admitted", "kv_get")
             /\ Answer(r, "answering",
                       IF request[r].key \in Stored THEN "ok" ELSE "not_found",
                       db[request[r].key])
             /\ UNCHANGED <<db, used>>

\* The body is complete.
kv_set(r) == /\ At(r, "admitted", "kv_set")
             /\ request[r].fits
             /\ db' = [db EXCEPT ![request[r].key] = request[r].body]
             /\ Answer(r, "answering", "created", Absent)
             /\ UNCHANGED used

list_keys(r) == /\ At(r, "admitted", "list_keys")
                /\ Answer(r, "answering", "ok", Stored)
                /\ UNCHANGED <<db, used>>

delete_all_keys(r) == /\ At(r, "admitted", "delete_all_keys")
                      /\ request[r].token
                      /\ db' = [k \in Keys |-> Absent]
                      /\ Answer(r, "answering", "ok", Absent)
                      /\ UNCHANGED used

remove_key(r) == /\ At(r, "admitted", "remove_key")
                 /\ request[r].token
                 /\ db' = [db EXCEPT ![request[r].key] = Absent]
                 /\ Answer(r, "answering", "ok", Absent)
                 /\ UNCHANGED used

-----------------------------------------------------------------------------
(* The ways out of kv_set's wait for the body.                             *)

\* Mutant: what fits of the body is stored.
TooLargeStores(r) == /\ At(r, "admitted", "kv_set")
                     /\ ~request[r].fits
                     /\ db' = [db EXCEPT ![request[r].key] = request[r].body]
                     /\ Answer(r, "answering", "too_large", Absent)
                     /\ UNCHANGED used

\* RequestBodyLimitLayer: more than 5 MB, and Bytes is refused.
TooLarge(r) == /\ At(r, "admitted", "kv_set")
               /\ ~request[r].fits
               /\ Answer(r, "answering", "too_large", Absent)
               /\ UNCHANGED <<db, used>>

\* The body breaks off, or its framing is wrong, on a connection that can still
\* be answered: Bytes is refused.
BadBody(r) == /\ At(r, "admitted", "kv_set")
              /\ Answer(r, "answering", "bad_body", Absent)
              /\ UNCHANGED <<db, used>>

\* Mutant: the request is not subject to the timeout.
NoTimeOut(r) == FALSE /\ UNCHANGED vars

\* The 10 seconds are over before the body is.
TimeOut(r) == /\ At(r, "admitted", "kv_set")
              /\ Answer(r, "answering", "timeout", Absent)
              /\ UNCHANGED <<db, used>>

\* Mutant: the permit is not given back with the dropped future.
DropKeepsPermit(r) == /\ At(r, "admitted", "kv_set")
                      /\ Answer(r, "dropped", "none", Absent)
                      /\ UNCHANGED <<db, used>>

Release(r) == used' = [used EXCEPT ![Endpoint(request[r])] = @ - 1]

\* The connection is lost and the future dropped, with its permit.
Drop(r) == /\ At(r, "admitted", "kv_set")
           /\ Answer(r, "dropped", "none", Absent)
           /\ Release(r)
           /\ UNCHANGED db

\* The future has resolved: its permit is free and the client answered.
Finish(r) == /\ phase[r] = "answering"
             /\ phase' = [phase EXCEPT ![r] = "done"]
             /\ Release(r)
             /\ UNCHANGED <<db, request, status, result>>

-----------------------------------------------------------------------------
\* What the server does by itself, the body of kv_set excepted.
Serve(r) == \/ NotAllowed(r) \/ Shed(r) \/ Admit(r) \/ Unauthorized(r)
            \/ kv_get(r) \/ list_keys(r) \/ delete_all_keys(r) \/ remove_key(r)
            \/ TimeOut(r) \/ Finish(r)
Client(r) == \/ \E q \in Heads : Arrive(r, q)
             \/ kv_set(r) \/ TooLarge(r) \/ BadBody(r) \/ Drop(r)

\* Every request made has been dealt with.
Quiet == (\A r \in Requests : phase[r] \in {"done", "dropped"}) /\ UNCHANGED vars

Next == (\E r \in Requests : Serve(r) \/ Client(r)) \/ Quiet

Spec == Init /\ [][Next]_vars

\* tokio polls what can go on and its timer fires; clients owe nothing.
FairSpec == Spec /\ \A r \in Requests : WF_vars(Serve(r))
=============================================================================
