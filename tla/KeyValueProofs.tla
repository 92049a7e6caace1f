---------------------------- MODULE KeyValueProofs ----------------------------
(***************************************************************************)
(* Proofs about the key-value store, for any number of requests, keys and  *)
(* values and any limit on concurrent requests.                            *)
(***************************************************************************)
EXTENDS KeyValueProperties, FiniteSetTheorems, TLAPS

\* A request's head is there from its arrival on, and its status not before it
\* is answered.
Unanswered == {"idle", "arrived", "admitted"}
HeadsAreThere == \A r \in Requests : phase[r] # "idle" => request[r] \in Heads
NoEarlyAnswer == \A r \in Requests : phase[r] \in Unanswered => status[r] = "none"

\* Only requests with a handler are admitted.
Busy == {"admitted", "answering"}
AdmittedHaveEndpoint ==
  \A r \in Requests : phase[r] \in Busy => Endpoint(request[r]) \in Endpoints

RequestInv == HeadsAreThere /\ NoEarlyAnswer /\ AdmittedHaveEndpoint
StoreInv == TypeOK /\ RequestInv /\ PermitsAreAccounted /\ ListedKeysAreReachable

-----------------------------------------------------------------------------
(* The routing table.                                                      *)

LEMMA EndpointTypes ==
  ASSUME NEW q \in Heads
  PROVE  /\ Endpoint(q) \in Endpoints
         /\ Endpoint(q) = "kv_get" => q.path = "/{key}" /\ q.key \in Keys
         /\ Endpoint(q) = "kv_set" => /\ q.path = "/{key}" /\ q.key \in Keys \ {KeysSegment}
                                      /\ q.body \in Values /\ q.fits \in BOOLEAN
         /\ Endpoint(q) = "remove_key" => q.key \in Keys /\ q.token \in BOOLEAN
         /\ Endpoint(q) = "delete_all_keys" => q.token \in BOOLEAN
<1>1. CASE q \in [path : {"/{key}"}, method : {"GET", "DELETE"}, key : Keys]
  BY <1>1 DEF Endpoint, Endpoints, Fallbacks
<1>2. CASE q \in [path : {"/{key}"}, method : {"POST"}, key : Keys, body : Values, fits : BOOLEAN]
  BY <1>2 DEF Endpoint, Endpoints, Fallbacks
<1>3. CASE q \in [path : {"/admin/keys"}, method : {"DELETE"}, token : BOOLEAN]
  BY <1>3 DEF Endpoint, Endpoints, Fallbacks
<1>4. CASE q \in [path : {"/admin/key/{key}"}, method : {"DELETE"}, key : Keys, token : BOOLEAN]
  BY <1>4 DEF Endpoint, Endpoints, Fallbacks
<1> QED  BY <1>1, <1>2, <1>3, <1>4 DEF Heads

\* All keys can be fetched but the one spelled "keys".
LEMMA ReachableKeys ==
  ASSUME db \in [Keys -> Values \cup {Absent}]
  PROVE  ListedKeysAreReachable <=> db[KeysSegment] = Absent
<1>1. \A k \in Keys : Endpoint([path |-> "/{key}", method |-> "GET", key |-> k]) = "kv_get"
                        <=> k # KeysSegment
  BY DEF Endpoint
<1> QED  BY <1>1, KVAssumption DEF ListedKeysAreReachable, Stored

-----------------------------------------------------------------------------
(* The semaphores.                                                         *)

LEMMA InProgressIsFinite ==
  ASSUME NEW e
  PROVE  IsFiniteSet(InProgress(e)) /\ Cardinality(InProgress(e)) \in Nat
<1>1. InProgress(e) \subseteq Requests  BY DEF InProgress
<1> QED  BY <1>1, KVAssumption, FS_Subset, FS_CardinalityType

\* A request enters the work in progress with a permit ...
LEMMA TakePermit ==
  ASSUME TypeOK, PermitsAreAccounted, NEW e \in Endpoints, NEW r,
         r \notin InProgress(e),
         used' = [used EXCEPT ![e] = @ + 1],
         \A f \in Endpoints : InProgress(f)' = IF f = e THEN InProgress(e) \cup {r} ELSE InProgress(f)
  PROVE  PermitsAreAccounted'
<1>1. Cardinality(InProgress(e) \cup {r}) = Cardinality(InProgress(e)) + 1
  BY InProgressIsFinite, FS_AddElement
<1>2. \A f \in Endpoints : used'[f] = IF f = e THEN used[e] + 1 ELSE used[f]
  BY DEF TypeOK
<1> QED  BY <1>1, <1>2 DEF PermitsAreAccounted

\* ... and leaves it with one.
LEMMA GivePermit ==
  ASSUME TypeOK, PermitsAreAccounted, NEW e \in Endpoints, NEW r,
         r \in InProgress(e),
         used' = [used EXCEPT ![e] = @ - 1],
         \A f \in Endpoints : InProgress(f)' = IF f = e THEN InProgress(e) \ {r} ELSE InProgress(f)
  PROVE  /\ PermitsAreAccounted'
         /\ used' \in [Endpoints -> 0..Limit]
<1>1. /\ Cardinality(InProgress(e) \ {r}) = Cardinality(InProgress(e)) - 1
      /\ Cardinality(InProgress(e) \ {r}) \in Nat
  <2>1. IsFiniteSet(InProgress(e))  BY InProgressIsFinite
  <2> QED  BY <2>1, FS_RemoveElement, FS_CardinalityType
<1>2. \A f \in Endpoints : used'[f] = IF f = e THEN used[e] - 1 ELSE used[f]
  BY DEF TypeOK
<1>3. used[e] - 1 \in 0..Limit
  BY <1>1, KVAssumption DEF TypeOK, PermitsAreAccounted
<1> QED  BY <1>1, <1>2, <1>3 DEF PermitsAreAccounted, TypeOK

-----------------------------------------------------------------------------
(* The invariant.                                                          *)

LEMMA InitStoreInv == Init => StoreInv
<1> SUFFICES ASSUME Init PROVE StoreInv  OBVIOUS
<1>1. TypeOK  BY KVAssumption DEF Init, TypeOK, Phases, Statuses
<1>2. RequestInv
  BY DEF Init, RequestInv, HeadsAreThere, NoEarlyAnswer, AdmittedHaveEndpoint, Busy
<1>3. PermitsAreAccounted
  <2>1. \A e \in Endpoints : InProgress(e) = {}  BY DEF Init, InProgress, At
  <2> QED  BY <2>1, FS_EmptySet DEF Init, PermitsAreAccounted
<1>4. ListedKeysAreReachable
  BY <1>1, ReachableKeys, KVAssumption DEF Init, TypeOK
<1> QED  BY <1>1, <1>2, <1>3, <1>4 DEF StoreInv

Results == Values \cup {Absent} \cup SUBSET Keys

\* A request is answered without passing through a semaphore: from where it was
\* refused, or from its handler.
LEMMA AnswerStep ==
  ASSUME StoreInv, NEW r \in Requests,
         NEW p \in {"answering", "done"}, NEW s \in Statuses, NEW x \in Results,
         Answer(r, p, s, x), UNCHANGED used,
         phase[r] = (IF p = "done" THEN "arrived" ELSE "admitted"),
         db' \in [Keys -> Values \cup {Absent}], db'[KeysSegment] = Absent
  PROVE  StoreInv'
<1> USE DEF StoreInv, Answer
<1>1. \A q \in Requests : /\ phase'[q] = IF q = r THEN p ELSE phase[q]
                          /\ status'[q] = IF q = r THEN s ELSE status[q]
  BY DEF TypeOK
<1>2. TypeOK'  BY DEF TypeOK, Phases, Results
<1>3. RequestInv'
  BY <1>1 DEF RequestInv, HeadsAreThere, NoEarlyAnswer, AdmittedHaveEndpoint, Unanswered, Busy
<1>4. PermitsAreAccounted'
  <2>1. \A e \in Endpoints : InProgress(e)' = InProgress(e)
    BY <1>1 DEF InProgress, At
  <2> QED  BY <2>1 DEF PermitsAreAccounted
<1>5. ListedKeysAreReachable'
  <2>1. \A k \in Keys : Endpoint([path |-> "/{key}", method |-> "GET", key |-> k]) = "kv_get"
                          <=> k # KeysSegment
    BY DEF Endpoint
  <2> QED  BY <2>1, KVAssumption DEF ListedKeysAreReachable, Stored
<1> QED  BY <1>2, <1>3, <1>4, <1>5

\* A request's future ends, in an answer or not, and its permit is given back.
LEMMA EndStep ==
  ASSUME StoreInv, NEW r \in Requests, phase[r] \in Busy, NEW p \in {"done", "dropped"},
         NEW s \in Statuses, NEW x \in Results,
         phase' = [phase EXCEPT ![r] = p],
         status' = [status EXCEPT ![r] = s],
         result' = [result EXCEPT ![r] = x],
         Release(r), UNCHANGED <<db, request>>
  PROVE  StoreInv'
<1> USE DEF StoreInv
<1> DEFINE e == Endpoint(request[r])
<1>1. \A q \in Requests : /\ phase'[q] = IF q = r THEN p ELSE phase[q]
                          /\ status'[q] = IF q = r THEN s ELSE status[q]
  BY DEF TypeOK
<1>2. e \in Endpoints  BY DEF RequestInv, AdmittedHaveEndpoint
<1>3. r \in InProgress(e)  BY DEF InProgress, At, Busy
<1>4. \A f \in Endpoints : InProgress(f)' = IF f = e THEN InProgress(e) \ {r} ELSE InProgress(f)
  BY <1>1 DEF InProgress, At
<1>5. PermitsAreAccounted' /\ used' \in [Endpoints -> 0..Limit]
  BY <1>2, <1>3, <1>4, GivePermit DEF Release
<1>6. TypeOK'  BY <1>5 DEF TypeOK, Phases, Results
<1>7. RequestInv'
  BY <1>1 DEF RequestInv, HeadsAreThere, NoEarlyAnswer, AdmittedHaveEndpoint, Unanswered, Busy
<1>8. ListedKeysAreReachable'  BY DEF ListedKeysAreReachable, Stored
<1> QED  BY <1>5, <1>6, <1>7, <1>8

LEMMA ArriveStep ==
  ASSUME StoreInv, NEW r \in Requests, NEW q \in Heads, Arrive(r, q)
  PROVE  StoreInv'
<1> USE DEF StoreInv, Arrive
<1>1. \A o \in Requests : /\ phase'[o] = IF o = r THEN "arrived" ELSE phase[o]
                          /\ request'[o] = IF o = r THEN q ELSE request[o]
  BY DEF TypeOK
<1>2. TypeOK'  BY DEF TypeOK, Phases
<1>3. RequestInv'
  BY <1>1 DEF RequestInv, HeadsAreThere, NoEarlyAnswer, AdmittedHaveEndpoint, Unanswered, Busy
<1>4. PermitsAreAccounted'
  <2>1. \A e \in Endpoints : InProgress(e)' = InProgress(e)
    BY <1>1 DEF InProgress, At
  <2> QED  BY <2>1 DEF PermitsAreAccounted
<1>5. ListedKeysAreReachable'  BY DEF ListedKeysAreReachable, Stored
<1> QED  BY <1>2, <1>3, <1>4, <1>5

LEMMA AdmitStep ==
  ASSUME StoreInv, NEW r \in Requests, Admit(r)
  PROVE  StoreInv'
<1> USE DEF StoreInv
<1>1. PICK e \in Endpoints :
        /\ At(r, "arrived", e)
        /\ used[e] < Limit
        /\ used' = [used EXCEPT ![e] = @ + 1]
  BY DEF Admit
<1>2. /\ phase' = [phase EXCEPT ![r] = "admitted"]
      /\ UNCHANGED <<db, request, status, result>>
  BY DEF Admit
<1>3. \A q \in Requests : phase'[q] = IF q = r THEN "admitted" ELSE phase[q]
  BY <1>2 DEF TypeOK
<1>4. TypeOK'
  <2>1. used' \in [Endpoints -> 0..Limit]  BY <1>1, KVAssumption DEF TypeOK
  <2> QED  BY <1>2, <2>1 DEF TypeOK, Phases
<1>5. RequestInv'
  BY <1>1, <1>2, <1>3
  DEF RequestInv, HeadsAreThere, NoEarlyAnswer, AdmittedHaveEndpoint, Unanswered, Busy, At
<1>6. PermitsAreAccounted'
  <2>1. r \notin InProgress(e)  BY <1>1 DEF InProgress, At
  <2>2. \A f \in Endpoints : InProgress(f)' = IF f = e THEN InProgress(e) \cup {r} ELSE InProgress(f)
    BY <1>1, <1>2, <1>3 DEF InProgress, At
  <2> QED  BY <1>1, <2>1, <2>2, TakePermit
<1>7. ListedKeysAreReachable'  BY <1>2 DEF ListedKeysAreReachable, Stored
<1> QED  BY <1>4, <1>5, <1>6, <1>7

\* What an admitted request asks of its handler.
LEMMA AdmittedTypes ==
  ASSUME StoreInv, NEW r \in Requests, NEW e, At(r, "admitted", e)
  PROVE  /\ e = "kv_get" => request[r].path = "/{key}" /\ request[r].key \in Keys
         /\ e = "kv_set" => /\ request[r].key \in Keys \ {KeysSegment}
                            /\ request[r].body \in Values
         /\ e = "remove_key" => request[r].key \in Keys
<1>1. request[r] \in Heads  BY DEF StoreInv, RequestInv, HeadsAreThere, At
<1> QED  BY <1>1, EndpointTypes DEF At

LEMMA NextStoreInv == StoreInv /\ [Next]_vars => StoreInv'
<1> SUFFICES ASSUME StoreInv, [Next]_vars PROVE StoreInv'  OBVIOUS
<1>a. /\ db \in [Keys -> Values \cup {Absent}] /\ db[KeysSegment] = Absent
      /\ phase \in [Requests -> Phases] /\ result \in [Requests -> Results]
  BY ReachableKeys DEF StoreInv, TypeOK, Results
<1>b. Absent \in Results /\ Stored \in Results /\ \A k \in Keys : db[k] \in Results
  BY <1>a DEF Results, Stored
<1>1. ASSUME NEW r \in Requests, NotAllowed(r) PROVE StoreInv'
  BY <1>1, <1>a, <1>b, AnswerStep DEF NotAllowed, At, Statuses
<1>2. ASSUME NEW r \in Requests, Shed(r) PROVE StoreInv'
  BY <1>2, <1>a, <1>b, AnswerStep DEF Shed, At, Statuses
<1>3. ASSUME NEW r \in Requests, Admit(r) PROVE StoreInv'
  BY <1>3, AdmitStep
<1>4. ASSUME NEW r \in Requests, Unauthorized(r) PROVE StoreInv'
  BY <1>4, <1>a, <1>b, AnswerStep DEF Unauthorized, At, Statuses
<1>5. ASSUME NEW r \in Requests, kv_get(r) PROVE StoreInv'
  <2>1. request[r].key \in Keys  BY <1>5, AdmittedTypes DEF kv_get
  <2>2. PICK s \in {"ok", "not_found"} : Answer(r, "answering", s, db[request[r].key])
    BY <1>5 DEF kv_get
  <2> QED  BY <1>5, <1>a, <1>b, <2>1, <2>2, AnswerStep DEF kv_get, At, Statuses
<1>6. ASSUME NEW r \in Requests, kv_set(r) PROVE StoreInv'
  <2>1. request[r].key \in Keys \ {KeysSegment} /\ request[r].body \in Values
    BY <1>6, AdmittedTypes DEF kv_set
  <2>2. db' \in [Keys -> Values \cup {Absent}] /\ db'[KeysSegment] = Absent
    BY <1>6, <1>a, <2>1 DEF kv_set
  <2> QED  BY <1>6, <1>b, <2>2, AnswerStep DEF kv_set, At, Statuses
<1>7. ASSUME NEW r \in Requests, list_keys(r) PROVE StoreInv'
  BY <1>7, <1>a, <1>b, AnswerStep DEF list_keys, At, Statuses
<1>8. ASSUME NEW r \in Requests, delete_all_keys(r) PROVE StoreInv'
  <2>1. db' \in [Keys -> Values \cup {Absent}] /\ db'[KeysSegment] = Absent
    BY <1>8, KVAssumption DEF delete_all_keys
  <2> QED  BY <1>8, <1>b, <2>1, AnswerStep DEF delete_all_keys, At, Statuses
<1>9. ASSUME NEW r \in Requests, remove_key(r) PROVE StoreInv'
  <2>1. request[r].key \in Keys  BY <1>9, AdmittedTypes DEF remove_key
  <2>2. db' \in [Keys -> Values \cup {Absent}] /\ db'[KeysSegment] = Absent
    BY <1>9, <1>a, <2>1 DEF remove_key
  <2> QED  BY <1>9, <1>b, <2>2, AnswerStep DEF remove_key, At, Statuses
<1>10. ASSUME NEW r \in Requests, TooLarge(r) \/ BadBody(r) \/ TimeOut(r) PROVE StoreInv'
  BY <1>10, <1>a, <1>b, AnswerStep DEF TooLarge, BadBody, TimeOut, At, Statuses
<1>11. ASSUME NEW r \in Requests, Drop(r) PROVE StoreInv'
  BY <1>11, <1>b, EndStep DEF Drop, Answer, At, Busy, Statuses
<1>12. ASSUME NEW r \in Requests, Finish(r) PROVE StoreInv'
  <2>1. status[r] \in Statuses /\ result[r] \in Results
    BY <1>a DEF StoreInv, TypeOK
  <2>2. status' = [status EXCEPT ![r] = status[r]] /\ result' = [result EXCEPT ![r] = result[r]]
    BY <1>12 DEF Finish, StoreInv, TypeOK
  <2> QED  BY <1>12, <2>1, <2>2, EndStep DEF Finish, Busy
<1>13. ASSUME NEW r \in Requests, NEW q \in Heads, Arrive(r, q) PROVE StoreInv'
  BY <1>13, ArriveStep
<1>14. CASE UNCHANGED vars
  BY <1>14 DEF vars, StoreInv, TypeOK, RequestInv, HeadsAreThere, NoEarlyAnswer,
               AdmittedHaveEndpoint, PermitsAreAccounted, InProgress, At,
               ListedKeysAreReachable, Stored
<1> QED
  BY <1>1, <1>2, <1>3, <1>4, <1>5, <1>6, <1>7, <1>8, <1>9, <1>10, <1>11, <1>12, <1>13, <1>14
  DEF Next, Serve, Client, Quiet

LEMMA StoreInvariant == Spec => []StoreInv
<1> QED  BY InitStoreInv, NextStoreInv, PTL DEF Spec

\* Every variable keeps its type, and no semaphore lends more than its limit.
THEOREM TypeCorrect == Spec => []TypeOK
<1>1. StoreInv => TypeOK  BY DEF StoreInv
<1> QED  BY StoreInvariant, <1>1, PTL

\* No permit is lost or given back twice (main.rs 54-61).
THEOREM PermitsAccounted == Spec => []PermitsAreAccounted
<1>1. StoreInv => PermitsAreAccounted  BY DEF StoreInv
<1> QED  BY StoreInvariant, <1>1, PTL

\* Every key that is listed can be fetched (main.rs 41-52).
THEOREM KeysReachable == Spec => []ListedKeysAreReachable
<1>1. StoreInv => ListedKeysAreReachable  BY DEF StoreInv
<1> QED  BY StoreInvariant, <1>1, PTL

-----------------------------------------------------------------------------
(* The refinement of the dictionary.                                       *)

Calls == [r \in Requests |-> CallOf(r)]
DictStep == Dict!Next \/ UNCHANGED <<db, Calls>>

\* What a request looks like to its client, phase by phase.
LEMMA CallsByPhase ==
  ASSUME StoreInv, NEW r \in Requests
  PROVE  /\ phase[r] = "idle" \/ (Received(r) /\ ForFallback(r)) => CallOf(r) = [state |-> "idle"]
         /\ Received(r) /\ ~ForFallback(r)
              => CallOf(r) = [state |-> "pending", op |-> OperationOf(request[r])]
         /\ phase[r] \notin Unanswered /\ Succeeded(r)
              => CallOf(r) = [state |-> "applied", result |-> result[r]]
         /\ phase[r] \notin Unanswered /\ ~Succeeded(r) => CallOf(r) = [state |-> "refused"]
BY DEF StoreInv, RequestInv, NoEarlyAnswer, Unanswered, Received, CallOf, Succeeded

LEMMA OperationTypes ==
  ASSUME NEW q \in Heads, Endpoint(q) \notin Fallbacks
  PROVE  OperationOf(q) \in Dict!Operations
<1>1. CASE Endpoint(q) = "kv_get"  BY <1>1, EndpointTypes DEF OperationOf, Dict!Operations
<1>2. CASE Endpoint(q) = "kv_set"  BY <1>2, EndpointTypes DEF OperationOf, Dict!Operations
<1>3. CASE Endpoint(q) = "remove_key"  BY <1>3, EndpointTypes DEF OperationOf, Dict!Operations
<1>4. CASE Endpoint(q) \in {"list_keys", "delete_all_keys"}
  BY <1>4 DEF OperationOf, Dict!Operations
<1> QED  BY <1>1, <1>2, <1>3, <1>4, EndpointTypes DEF Endpoints

\* A step of one request leaves the calls of the others.
LEMMA OneCallChanges ==
  ASSUME StoreInv, NEW r \in Requests,
         \A q \in Requests \ {r} : /\ phase'[q] = phase[q] /\ request'[q] = request[q]
                                  /\ status'[q] = status[q] /\ result'[q] = result[q]
  PROVE  Calls' = [Calls EXCEPT ![r] = CallOf(r)']
<1>1. \A q \in Requests \ {r} : CallOf(q)' = CallOf(q)
  BY DEF CallOf, Received, ForFallback, Succeeded
<1> QED  BY <1>1 DEF Calls

\* An answered request was refused, and had no effect ...
LEMMA RefuseStep ==
  ASSUME StoreInv, StoreInv', NEW r \in Requests, phase[r] \in {"arrived", "admitted"},
         NEW p \in {"answering", "done", "dropped"},
         NEW s \in Statuses \ {"ok", "created", "not_found"}, NEW x,
         Answer(r, p, s, x), UNCHANGED db
  PROVE  Dict!Next
<1> USE DEF Answer
<1>1. \A q \in Requests : /\ phase'[q] = IF q = r THEN p ELSE phase[q]
                          /\ status'[q] = IF q = r THEN s ELSE status[q]
                          /\ result'[q] = IF q = r THEN x ELSE result[q]
  BY DEF StoreInv, TypeOK
<1>2. Calls' = [Calls EXCEPT ![r] = CallOf(r)']  BY <1>1, OneCallChanges
<1>3. CallOf(r)' = [state |-> "refused"]
  BY <1>1 DEF CallOf, Received, ForFallback, Succeeded
<1>4. Calls[r].state \in {"idle", "pending"}
  BY CallsByPhase DEF Calls, Received
<1>5. Dict!Refuse(r)  BY <1>2, <1>3, <1>4 DEF Dict!Refuse, Dict!Refused, Calls
<1> QED  BY <1>5 DEF Dict!Next

\* ... or accepted by its handler, with the effect and the result of its operation.
LEMMA ApplyStep ==
  ASSUME StoreInv, NEW r \in Requests, phase[r] = "admitted", ~ForFallback(r),
         NEW s \in {"ok", "created", "not_found"}, NEW x,
         Answer(r, "answering", s, x),
         NEW o \in Dict!Operations, o = OperationOf(request[r]),
         db' = Dict!Effect(o), x = Dict!Result(o)
  PROVE  Dict!Next
<1> USE DEF Answer
<1>1. \A q \in Requests : /\ phase'[q] = IF q = r THEN "answering" ELSE phase[q]
                          /\ status'[q] = IF q = r THEN s ELSE status[q]
                          /\ result'[q] = IF q = r THEN x ELSE result[q]
  BY DEF StoreInv, TypeOK
<1>2. Calls' = [Calls EXCEPT ![r] = CallOf(r)']  BY <1>1, OneCallChanges
<1>3. CallOf(r)' = [state |-> "applied", result |-> x]
  BY <1>1 DEF CallOf, Received, ForFallback, Succeeded
<1>4. Calls[r] = [state |-> "pending", op |-> o]  BY CallsByPhase DEF Calls, Received
<1>5. Dict!Apply(r, o)
  BY <1>2, <1>3, <1>4 DEF Dict!Apply, Dict!Pending, Dict!Applied, Calls
<1> QED  BY <1>5 DEF Dict!Next

\* A step that leaves the dictionary and what every client sees.
LEMMA SilentStep ==
  ASSUME StoreInv, NEW r \in Requests,
         \A q \in Requests \ {r} : /\ phase'[q] = phase[q] /\ request'[q] = request[q]
                                  /\ status'[q] = status[q] /\ result'[q] = result[q],
         CallOf(r)' = CallOf(r), UNCHANGED db
  PROVE  UNCHANGED <<db, Calls>>
<1>1. Calls' = [Calls EXCEPT ![r] = CallOf(r)]  BY OneCallChanges
<1> QED  BY <1>1 DEF Calls

LEMMA NextRefines == StoreInv /\ StoreInv' /\ [Next]_vars => DictStep
<1> SUFFICES ASSUME StoreInv, StoreInv', [Next]_vars PROVE DictStep  OBVIOUS
<1> USE DEF DictStep
<1>a. /\ phase \in [Requests -> Phases] /\ request \in [Requests -> Heads \cup {NoHead}]
      /\ \A r \in Requests : phase[r] # "idle" => request[r] \in Heads
  BY DEF StoreInv, TypeOK, RequestInv, HeadsAreThere
<1>1. ASSUME NEW r \in Requests, NotAllowed(r) \/ Shed(r) \/ Unauthorized(r) \/ TooLarge(r)
                                  \/ BadBody(r) \/ TimeOut(r) \/ Drop(r)
      PROVE  DictStep
  <2>1. phase[r] \in {"arrived", "admitted"} /\ UNCHANGED db
    BY <1>1 DEF NotAllowed, Shed, Unauthorized, TooLarge, BadBody, TimeOut, Drop, At
  <2>2. PICK p \in {"answering", "done", "dropped"},
             s \in {"not_allowed", "overloaded", "unauthorized", "too_large", "bad_body", "timeout", "none"} :
               Answer(r, p, s, Absent)
    BY <1>1 DEF NotAllowed, Shed, Unauthorized, TooLarge, BadBody, TimeOut, Drop
  <2>3. s \in Statuses \ {"ok", "created", "not_found"}  BY DEF Statuses
  <2> QED  BY <2>1, <2>2, <2>3, RefuseStep
<1>2. ASSUME NEW r \in Requests, Admit(r) PROVE DictStep
  <2>1. phase[r] = "arrived" /\ phase' = [phase EXCEPT ![r] = "admitted"]
        /\ UNCHANGED <<db, request, status, result>>
    BY <1>2 DEF Admit, At
  <2>2. \A q \in Requests : phase'[q] = IF q = r THEN "admitted" ELSE phase[q]  BY <1>a, <2>1
  <2>3. /\ phase[r] = "arrived" /\ phase'[r] = "admitted" /\ request'[r] = request[r]
        /\ status'[r] = "none"
    BY <2>1, <2>2 DEF StoreInv, RequestInv, NoEarlyAnswer, Unanswered
  <2>4. CallOf(r)' = CallOf(r)
    <3>1. CASE Endpoint(request[r]) \in Fallbacks
      <4>1. CallOf(r) = [state |-> "idle"]
        BY <2>3, <3>1, CallsByPhase DEF Received, ForFallback
      <4>2. CallOf(r)' = [state |-> "idle"]
        BY <2>3, <3>1 DEF CallOf, Received, ForFallback, Succeeded
      <4> QED  BY <4>1, <4>2
    <3>2. CASE Endpoint(request[r]) \notin Fallbacks
      <4>1. CallOf(r) = [state |-> "pending", op |-> OperationOf(request[r])]
        BY <2>3, <3>2, CallsByPhase DEF Received, ForFallback
      <4>2. CallOf(r)' = [state |-> "pending", op |-> OperationOf(request[r])]
        BY <2>3, <3>2 DEF CallOf, Received, ForFallback, Succeeded, OperationOf
      <4> QED  BY <4>1, <4>2
    <3> QED  BY <3>1, <3>2
  <2> QED  BY <2>1, <2>2, <2>4, SilentStep
<1>3. ASSUME NEW r \in Requests, Finish(r) PROVE DictStep
  <2>1. phase[r] = "answering" /\ phase' = [phase EXCEPT ![r] = "done"]
        /\ UNCHANGED <<db, request, status, result>>
    BY <1>3 DEF Finish
  <2>2. \A q \in Requests : phase'[q] = IF q = r THEN "done" ELSE phase[q]  BY <1>a, <2>1
  <2>3. CallOf(r)' = CallOf(r)  BY <2>1, <2>2 DEF CallOf, Received, ForFallback, Succeeded
  <2> QED  BY <2>1, <2>2, <2>3, SilentStep
<1>4. ASSUME NEW r \in Requests, NEW q \in Heads, Arrive(r, q) PROVE DictStep
  <2>1. \A o \in Requests : /\ phase'[o] = IF o = r THEN "arrived" ELSE phase[o]
                            /\ request'[o] = IF o = r THEN q ELSE request[o]
    BY <1>4 DEF Arrive, StoreInv, TypeOK
  <2>2. phase[r] = "idle" /\ UNCHANGED <<db, status, result>>  BY <1>4 DEF Arrive
  <2>3. CallOf(r) = [state |-> "idle"]  BY <2>2, CallsByPhase
  <2>4. status'[r] = "none"
    BY <2>2 DEF StoreInv, RequestInv, NoEarlyAnswer, Unanswered
  <2>5. CASE Endpoint(q) \in Fallbacks
    <3>1. CallOf(r)' = [state |-> "idle"]
      BY <2>1, <2>4, <2>5 DEF CallOf, Received, ForFallback, Succeeded
    <3> QED  BY <2>1, <2>2, <2>3, <3>1, SilentStep
  <2>6. CASE Endpoint(q) \notin Fallbacks
    <3>1. CallOf(r)' = [state |-> "pending", op |-> OperationOf(q)]
      BY <2>1, <2>4, <2>6 DEF CallOf, Received, ForFallback, Succeeded, OperationOf
    <3>2. Calls' = [Calls EXCEPT ![r] = CallOf(r)']  BY <2>1, <2>2, OneCallChanges
    <3>3. Dict!Invoke(r, OperationOf(q))
      BY <2>2, <2>3, <3>1, <3>2 DEF Dict!Invoke, Dict!Idle, Dict!Pending, Calls
    <3> QED  BY <2>6, <3>3, OperationTypes DEF Dict!Next
  <2> QED  BY <2>5, <2>6
<1>5. ASSUME NEW r \in Requests, kv_get(r) PROVE DictStep
  <2> DEFINE o == [op |-> "get", key |-> request[r].key]
  <2>1. phase[r] = "admitted" /\ Endpoint(request[r]) = "kv_get" /\ ~ForFallback(r)
        /\ request[r] \in Heads
    BY <1>5, <1>a DEF kv_get, At, ForFallback, Fallbacks
  <2>2. o = OperationOf(request[r])  BY <2>1 DEF OperationOf
  <2>3. o \in Dict!Operations  BY <2>1, <2>2, OperationTypes DEF ForFallback
  <2>4. db' = Dict!Effect(o) /\ db[request[r].key] = Dict!Result(o)
    BY <1>5 DEF kv_get, Dict!Effect, Dict!Result
  <2>5. PICK s \in {"ok", "not_found"} : Answer(r, "answering", s, db[request[r].key])
    BY <1>5 DEF kv_get
  <2> QED  BY <2>1, <2>2, <2>3, <2>4, <2>5, ApplyStep
<1>6. ASSUME NEW r \in Requests, kv_set(r) PROVE DictStep
  <2> DEFINE o == [op |-> "set", key |-> request[r].key, value |-> request[r].body]
  <2>1. phase[r] = "admitted" /\ Endpoint(request[r]) = "kv_set" /\ ~ForFallback(r)
        /\ request[r] \in Heads
    BY <1>6, <1>a DEF kv_set, At, ForFallback, Fallbacks
  <2>2. o = OperationOf(request[r])  BY <2>1 DEF OperationOf
  <2>3. o \in Dict!Operations  BY <2>1, <2>2, OperationTypes DEF ForFallback
  <2>4. db' = Dict!Effect(o) /\ Absent = Dict!Result(o)
    BY <1>6 DEF kv_set, Dict!Effect, Dict!Result
  <2> QED  BY <1>6, <2>1, <2>2, <2>3, <2>4, ApplyStep DEF kv_set
<1>7. ASSUME NEW r \in Requests, list_keys(r) PROVE DictStep
  <2> DEFINE o == [op |-> "list"]
  <2>1. phase[r] = "admitted" /\ Endpoint(request[r]) = "list_keys" /\ ~ForFallback(r)
        /\ request[r] \in Heads
    BY <1>7, <1>a DEF list_keys, At, ForFallback, Fallbacks
  <2>2. o = OperationOf(request[r])  BY <2>1 DEF OperationOf
  <2>3. o \in Dict!Operations  BY <2>1, <2>2, OperationTypes DEF ForFallback
  <2>4. db' = Dict!Effect(o) /\ Stored = Dict!Result(o)
    BY <1>7 DEF list_keys, Dict!Effect, Dict!Result, Stored
  <2> QED  BY <1>7, <2>1, <2>2, <2>3, <2>4, ApplyStep DEF list_keys
<1>8. ASSUME NEW r \in Requests, delete_all_keys(r) PROVE DictStep
  <2> DEFINE o == [op |-> "clear"]
  <2>1. phase[r] = "admitted" /\ Endpoint(request[r]) = "delete_all_keys" /\ ~ForFallback(r)
        /\ request[r] \in Heads
    BY <1>8, <1>a DEF delete_all_keys, At, ForFallback, Fallbacks
  <2>2. o = OperationOf(request[r])  BY <2>1 DEF OperationOf
  <2>3. o \in Dict!Operations  BY <2>1, <2>2, OperationTypes DEF ForFallback
  <2>4. db' = Dict!Effect(o) /\ Absent = Dict!Result(o)
    BY <1>8 DEF delete_all_keys, Dict!Effect, Dict!Result
  <2> QED  BY <1>8, <2>1, <2>2, <2>3, <2>4, ApplyStep DEF delete_all_keys
<1>9. ASSUME NEW r \in Requests, remove_key(r) PROVE DictStep
  <2> DEFINE o == [op |-> "remove", key |-> request[r].key]
  <2>1. phase[r] = "admitted" /\ Endpoint(request[r]) = "remove_key" /\ ~ForFallback(r)
        /\ request[r] \in Heads
    BY <1>9, <1>a DEF remove_key, At, ForFallback, Fallbacks
  <2>2. o = OperationOf(request[r])  BY <2>1 DEF OperationOf
  <2>3. o \in Dict!Operations  BY <2>1, <2>2, OperationTypes DEF ForFallback
  <2>4. db' = Dict!Effect(o) /\ Absent = Dict!Result(o)
    BY <1>9 DEF remove_key, Dict!Effect, Dict!Result
  <2> QED  BY <1>9, <2>1, <2>2, <2>3, <2>4, ApplyStep DEF remove_key
<1>10. CASE UNCHANGED vars
  BY <1>10 DEF vars, Calls, CallOf, Received, ForFallback, Succeeded, OperationOf
<1> QED
  BY <1>1, <1>2, <1>3, <1>4, <1>5, <1>6, <1>7, <1>8, <1>9, <1>10
  DEF Next, Serve, Client, Quiet

\* The server is an atomic dictionary: every request takes effect once, at one
\* instant, and only when its answer says so (main.rs 78-125).
THEOREM DictionaryImplemented == Spec => ImplementsDictionary
<1>1. Init => Dict!Init
  <2> SUFFICES ASSUME Init PROVE Dict!Init  OBVIOUS
  <2>1. \A r \in Requests : CallOf(r) = [state |-> "idle"]
    BY InitStoreInv, CallsByPhase DEF Init
  <2> QED  BY <2>1 DEF Init, Dict!Init, Dict!Idle
<1>2. StoreInv /\ StoreInv' /\ [Next]_vars => [Dict!Next]_(Dict!vars)
  BY NextRefines DEF DictStep, Calls, Dict!vars
<1> QED  BY <1>1, <1>2, StoreInvariant, PTL DEF Spec, ImplementsDictionary, Dict!Spec
=============================================================================
