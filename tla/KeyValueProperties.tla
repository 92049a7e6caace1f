------------------------- MODULE KeyValueProperties -------------------------
(***************************************************************************)
(* What the key-value store of module KeyValueStore has to guarantee.      *)
(***************************************************************************)
EXTENDS KeyValueStore

\* Every variable has its type, and no semaphore lends more than it has
\* (examples/key-value-store, main.rs 54-76).
TypeOK == /\ db \in [Keys -> Values \cup {Absent}]
          /\ used \in [Endpoints -> 0..Limit]
          /\ phase \in [Requests -> Phases]
          /\ request \in [Requests -> Heads \cup {NoHead}]
          /\ status \in [Requests -> Statuses]
          /\ result \in [Requests -> Values \cup {Absent} \cup SUBSET Keys]

\* The permits taken are those of the requests in progress: none is lost or
\* given back twice on any way out, be it an answer, a refusal by the inner
\* layers, a timeout or a dropped connection (main.rs 54-61).
InProgress(e) == {r \in Requests : \E p \in {"admitted", "answering"} : At(r, p, e)}
PermitsAreAccounted == \A e \in Endpoints : used[e] = Cardinality(InProgress(e))

\* No request can store a value under "keys", whose path belongs to the
\* listing: what is listed can be fetched (main.rs 41-52).
ListedKeysAreReachable ==
  \A k \in Stored : Endpoint([path |-> "/{key}", method |-> "GET", key |-> k]) = "kv_get"

\* The server implements the dictionary: a request takes effect once, at one
\* instant and only if its answer says so (main.rs 78-125).
OperationOf(q) == CASE Endpoint(q) = "kv_get" -> [op |-> "get", key |-> q.key]
                    [] Endpoint(q) = "kv_set" -> [op |-> "set", key |-> q.key, value |-> q.body]
                    [] Endpoint(q) = "list_keys" -> [op |-> "list"]
                    [] Endpoint(q) = "delete_all_keys" -> [op |-> "clear"]
                    [] Endpoint(q) = "remove_key" -> [op |-> "remove", key |-> q.key]
Succeeded(r) == status[r] \in {"ok", "created", "not_found"}
Received(r) == phase[r] \in {"arrived", "admitted"}
ForFallback(r) == Endpoint(request[r]) \in Fallbacks
CallOf(r) == CASE phase[r] = "idle" \/ (Received(r) /\ ForFallback(r)) -> [state |-> "idle"]
               [] Received(r) /\ ~ForFallback(r) -> [state |-> "pending", op |-> OperationOf(request[r])]
               [] Succeeded(r) -> [state |-> "applied", result |-> result[r]]
               [] OTHER -> [state |-> "refused"]
Dict == INSTANCE Dictionary WITH dict <- db, call <- [r \in Requests |-> CallOf(r)]

ImplementsDictionary == Dict!Spec

\* An endpoint that refuses requests because it is full does not stay full,
\* even when the clients that fill it never send their bodies (main.rs 57-59).
FullEndpointsDrain == \A e \in Endpoints : used[e] = Limit ~> used[e] < Limit
=============================================================================
