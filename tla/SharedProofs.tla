---------------------------- MODULE SharedProofs ----------------------------
(***************************************************************************)
(* What holds of the programs that share one piece of state, for any       *)
(* number of requests, identifiers and connections.                        *)
(***************************************************************************)
EXTENDS MCShared, FiniteSetTheorems, TLAPS

-----------------------------------------------------------------------------
(* The user registry: who has drawn an identifier is the only one who has. *)

HasDrawn(r) == creation[r] = "drawn" \/ answer[r] = 200

RegistryInv ==
  /\ RegistryTypeOK
  /\ \A r \in Creations : answer[r] = 200 => creation[r] = "done"
  /\ draws <= IdSpace =>
       /\ next_id = IF draws = IdSpace THEN 0 ELSE draws
       /\ \A r \in Creations : HasDrawn(r) => id[r] < draws
       /\ \A r, s \in Creations : HasDrawn(r) /\ HasDrawn(s) /\ id[r] = id[s] => r = s
       /\ AnsweredAreStored
       /\ \A i \in Ids : users[i] # Nobody => answer[users[i]] = 200 /\ id[users[i]] = i
       /\ \A i \in 0..draws - 1 :
            users[i] # Nobody \/ \E r \in Creations : creation[r] = "drawn" /\ id[r] = i

\* Nobody has an identifier at the start (examples/error-handling, main.rs 45).
LEMMA RegistryStarts == RegistryInit => RegistryInv
BY RegistryAssumption DEF RegistryInit, RegistryInv, RegistryTypeOK, HasDrawn,
                          AnsweredAreStored, Ids

\* No step of any handler gives two users one identifier, or loses a user
\* (main.rs 72-87).
LEMMA RegistrySteps == RegistryInv /\ [RegistryNext]_registryVars => RegistryInv'
<1> SUFFICES ASSUME RegistryInv, [RegistryNext]_registryVars PROVE RegistryInv'
  OBVIOUS
<1> USE RegistryAssumption DEF RegistryInv, RegistryTypeOK, HasDrawn, Ids, Rejections
<1>1. ASSUME NEW r \in Creations, Post(r) \/ Reject(r) \/ HangUp(r)  PROVE RegistryInv'
  <2>1. /\ creation[r] \in {"absent", "reading"} /\ answer[r] # 200
        /\ \E p \in {"reading", "done", "dropped"} : creation' = [creation EXCEPT ![r] = p]
        /\ answer' = answer \/ \E s \in Rejections : answer' = [answer EXCEPT ![r] = s]
        /\ UNCHANGED <<next_id, users, id, draws>>
    BY <1>1 DEF Post, Reject, HangUp
  <2>2. RegistryTypeOK'
    <3>1. RegistryTypeOK  OBVIOUS
    <3> HIDE DEF RegistryInv, HasDrawn
    <3>2. creation' \in [Creations -> {"absent", "reading", "drawn", "done", "dropped"}]
      BY <2>1, <3>1
    <3>3. answer' \in [Creations -> {0, 200} \cup Rejections]  BY <2>1, <3>1
    <3> QED  BY <2>1, <3>1, <3>2, <3>3
  <2>3. \A s \in Creations : HasDrawn(s)' <=> HasDrawn(s)  BY <2>1
  <2>4. \A s \in Creations : answer'[s] = 200 <=> answer[s] = 200  BY <2>1
  <2>5. \A s \in Creations : creation'[s] = "drawn" <=> creation[s] = "drawn"  BY <2>1
  <2>6. \A s \in Creations : answer'[s] = 200 => creation'[s] = "done"  BY <2>1
  <2> HIDE DEF HasDrawn
  <2>7. AnsweredAreStored' <=> AnsweredAreStored  BY <2>1, <2>4 DEF AnsweredAreStored
  <2>8. ASSUME draws <= IdSpace
        PROVE  \A i \in Ids : users'[i] # Nobody => answer'[users'[i]] = 200 /\ id'[users'[i]] = i
    BY <2>1, <2>4, <2>8
  <2> QED  BY <2>1, <2>2, <2>3, <2>5, <2>6, <2>7, <2>8
<1>2. ASSUME NEW r \in Creations, DrawId(r)  PROVE RegistryInv'
  <2> USE <1>2 DEF DrawId, TakeId
  <2>1. RegistryTypeOK' /\ \A s \in Creations : answer'[s] = 200 => creation'[s] = "done"
    OBVIOUS
  <2>2. ASSUME draws' <= IdSpace
        PROVE  /\ next_id' = IF draws' = IdSpace THEN 0 ELSE draws'
               /\ draws = next_id /\ draws \in Ids /\ draws' = draws + 1
    BY <2>2
  <2>3. ASSUME draws' <= IdSpace
        PROVE  /\ \A s \in Creations : HasDrawn(s)' => id'[s] < draws'
               /\ \A s, t \in Creations :
                    HasDrawn(s)' /\ HasDrawn(t)' /\ id'[s] = id'[t] => s = t
    BY <2>2, <2>3
  <2>4. ASSUME draws' <= IdSpace
        PROVE  /\ AnsweredAreStored'
               /\ \A i \in Ids : users'[i] # Nobody =>
                    answer'[users'[i]] = 200 /\ id'[users'[i]] = i
    BY <2>2, <2>4 DEF AnsweredAreStored
  <2>5. ASSUME draws' <= IdSpace, NEW i \in 0..draws' - 1
        PROVE  users'[i] # Nobody \/ \E s \in Creations : creation'[s] = "drawn" /\ id'[s] = i
    <3>1. CASE i = draws
      BY <3>1, <2>2, <2>5
    <3>2. CASE i \in 0..draws - 1
      <4>1. CASE users[i] # Nobody  BY <4>1
      <4>2. CASE users[i] = Nobody
        <5>1. PICK s \in Creations : creation[s] = "drawn" /\ id[s] = i
          BY <4>2, <3>2, <2>2, <2>5
        <5>2. s # r  BY <5>1
        <5> QED  BY <5>1, <5>2
      <4> QED  BY <4>1, <4>2
    <3> QED  BY <2>5, <2>2, <3>1, <3>2
  <2> QED  BY <2>1, <2>2, <2>3, <2>4, <2>5
<1>3. ASSUME NEW r \in Creations, Insert(r)  PROVE RegistryInv'
  <2> USE <1>3 DEF Insert
  <2>1. RegistryTypeOK' /\ \A s \in Creations : answer'[s] = 200 => creation'[s] = "done"
    OBVIOUS
  <2>2. ASSUME draws' <= IdSpace
        PROVE  /\ next_id' = IF draws' = IdSpace THEN 0 ELSE draws'
               /\ \A s \in Creations : HasDrawn(s)' => id'[s] < draws'
               /\ \A s, t \in Creations :
                    HasDrawn(s)' /\ HasDrawn(t)' /\ id'[s] = id'[t] => s = t
    BY <2>2
  <2>3. ASSUME draws' <= IdSpace PROVE AnsweredAreStored'
    BY <2>3 DEF AnsweredAreStored
  <2>4. ASSUME draws' <= IdSpace
        PROVE  \A i \in Ids : users'[i] # Nobody =>
                 answer'[users'[i]] = 200 /\ id'[users'[i]] = i
    BY <2>4
  <2>5. ASSUME draws' <= IdSpace, NEW i \in 0..draws' - 1
        PROVE  users'[i] # Nobody \/ \E s \in Creations : creation'[s] = "drawn" /\ id'[s] = i
    <3>1. i \in Ids  BY <2>5
    <3>2. CASE i = id[r]  BY <3>1, <3>2
    <3>3. CASE i # id[r]
      <4>1. CASE users[i] # Nobody  BY <4>1, <3>1, <3>3
      <4>2. CASE users[i] = Nobody
        <5>1. PICK s \in Creations : creation[s] = "drawn" /\ id[s] = i
          BY <4>2, <2>5
        <5> QED  BY <5>1, <3>3
      <4> QED  BY <4>1, <4>2
    <3> QED  BY <3>2, <3>3
  <2> QED  BY <2>1, <2>2, <2>3, <2>4, <2>5
<1>4. CASE RegistryQuiet \/ UNCHANGED registryVars
  BY <1>4 DEF RegistryQuiet, registryVars, AnsweredAreStored
<1> QED  BY <1>1, <1>2, <1>3, <1>4 DEF RegistryNext

LEMMA RegistryInvariant == RegistrySpec => []RegistryInv
BY RegistryStarts, RegistrySteps, PTL DEF RegistrySpec

\* What the invariant says of the map (main.rs 76-87).
LEMMA RegistryTells == RegistryInv => UsersAreKept
<1> SUFFICES ASSUME RegistryInv, draws <= IdSpace
             PROVE  AnsweredAreStored /\ (NobodyIsBetween => IdsInUse = 0..draws - 1)
  BY DEF UsersAreKept
<1>1. AnsweredAreStored  BY DEF RegistryInv
<1>2. ASSUME NobodyIsBetween PROVE IdsInUse = 0..draws - 1
  <2>1. ASSUME NEW i \in IdsInUse PROVE i \in 0..draws - 1
    <3>1. i \in Ids /\ users[i] \in Creations /\ id[users[i]] = i /\ HasDrawn(users[i])
      BY <2>1 DEF IdsInUse, RegistryInv, RegistryTypeOK, HasDrawn
    <3> QED  BY <3>1, RegistryAssumption DEF RegistryInv, RegistryTypeOK, Ids
  <2>2. ASSUME NEW i \in 0..draws - 1 PROVE i \in IdsInUse
    BY <1>2, <2>2, RegistryAssumption
       DEF NobodyIsBetween, IdsInUse, RegistryInv, RegistryTypeOK, Ids
  <2> QED  BY <2>1, <2>2
<1> QED  BY <1>1, <1>2

\* A user whose creation was answered stays under his own identifier, and the
\* identifiers have no holes, for any number of requests (main.rs 72-87).
THEOREM UsersKept == RegistrySpec => []UsersAreKept
BY RegistryInvariant, RegistryTells, PTL

-----------------------------------------------------------------------------
(* The repository: who is inside holds the lock, so the map changes under  *)
(* one request at a time.                                                  *)

RepoInv ==
  /\ RepoTypeOK
  /\ \A r \in RepoRequests :
       /\ step[r] \in {"inState", "inMap", "returned"} <=> state_lock = r
       /\ step[r] = "inMap" <=> map_lock = r
       /\ step[r] # "absent" => asked[r] \in RepoCalls

\* Both mutexes are free at the start (examples/dependency-injection, main.rs
\* 26-33).
LEMMA RepoStarts == RepoInit => RepoInv
BY RepoAssumption DEF RepoInit, RepoInv, RepoTypeOK

\* Each guard is taken and dropped by the request that holds it (main.rs 47-86).
LEMMA RepoSteps == RepoInv /\ [RepoNext]_repoVars => RepoInv'
<1> SUFFICES ASSUME RepoInv, [RepoNext]_repoVars PROVE RepoInv'  OBVIOUS
<1> USE RepoAssumption DEF RepoInv, RepoTypeOK, Go
<1>1. ASSUME NEW r \in RepoRequests, NEW q \in RepoCalls, Ask(r, q) PROVE RepoInv'
  BY <1>1 DEF Ask
<1>2. ASSUME NEW r \in RepoRequests, Abandon(r) PROVE RepoInv'
  BY <1>2 DEF Abandon
<1>3. ASSUME NEW r \in RepoRequests, LockState(r) PROVE RepoInv'
  BY <1>3 DEF LockState
<1>4. ASSUME NEW r \in RepoRequests, CallRepo(r) PROVE RepoInv'
  <2>1. asked[r] \in RepoCalls  BY <1>4 DEF CallRepo
  <2>2. CASE asked[r].method = "get_users"
    BY <1>4, <2>2 DEF CallRepo
  <2>3. CASE asked[r].method # "get_users"
    <3>1. asked[r].id \in UserIds /\ asked[r].name \in UserNames  BY <2>1, <2>3 DEF RepoCalls
    <3>2. map' \in [UserIds -> UserNames \cup {NoUser}]
      BY <1>4, <2>3, <3>1 DEF CallRepo, Inserted
    <3> QED  BY <1>4, <2>3, <3>2 DEF CallRepo
  <2> QED  BY <2>2, <2>3
<1>5. ASSUME NEW r \in RepoRequests, LeaveMap(r) PROVE RepoInv'
  BY <1>5 DEF LeaveMap
<1>6. ASSUME NEW r \in RepoRequests, LeaveState(r) PROVE RepoInv'
  BY <1>6 DEF LeaveState
<1>7. CASE RepoQuiet \/ UNCHANGED repoVars
  BY <1>7 DEF RepoQuiet, repoVars
<1> QED  BY <1>1, <1>2, <1>3, <1>4, <1>5, <1>6, <1>7 DEF RepoNext, Handle

LEMMA RepoInvariant == RepoSpec => []RepoInv
BY RepoStarts, RepoSteps, PTL DEF RepoSpec

\* Whoever reaches the repository finds its map unlocked: the second lock never
\* blocks a thread that holds the first (main.rs 48, 57, 79 and 83).
THEOREM MapIsNeverContended ==
  RepoSpec => [](\A r \in RepoRequests : step[r] = "inState" => map_lock = Unlocked)
<1>1. RepoInv => \A r \in RepoRequests : step[r] = "inState" => map_lock = Unlocked
  BY DEF RepoInv, RepoTypeOK
<1> QED  BY RepoInvariant, <1>1, PTL

\* What the clients see of their calls.
RepoView == [r \in RepoRequests |-> RepoCall(r)]
RepoDictStep == UserDict!Next \/ UNCHANGED <<map, RepoView>>

\* A step of one request leaves what the others see.
LEMMA OthersSeeNothing ==
  ASSUME NEW r \in RepoRequests,
         \A q \in RepoRequests \ {r} : /\ step'[q] = step[q] /\ asked'[q] = asked[q]
                                      /\ returned'[q] = returned[q]
  PROVE  RepoView' = [RepoView EXCEPT ![r] = RepoCall(r)']
<1>1. \A q \in RepoRequests \ {r} : RepoCall(q)' = RepoCall(q)
  BY DEF RepoCall, RepoResult
<1> QED  BY <1>1 DEF RepoView

\* Every step of the program is a step of the dictionary, or none (main.rs 47-86).
LEMMA RepoStepsRefine == RepoInv /\ RepoInv' /\ [RepoNext]_repoVars => RepoDictStep
<1> SUFFICES ASSUME RepoInv, RepoInv', [RepoNext]_repoVars PROVE RepoDictStep  OBVIOUS
<1> USE DEF RepoDictStep
<1>a. /\ step \in [RepoRequests -> {"absent", "waiting", "inState", "inMap", "returned",
                                    "answered", "abandoned"}]
      /\ asked \in [RepoRequests -> RepoCalls \cup {NoCall}]
      /\ returned \in [RepoRequests -> {NoUser} \cup [UserIds -> UserNames \cup {NoUser}]]
      /\ \A r \in RepoRequests : step[r] # "absent" => asked[r] \in RepoCalls
  BY DEF RepoInv, RepoTypeOK
<1>1. ASSUME NEW r \in RepoRequests, NEW q \in RepoCalls, Ask(r, q) PROVE RepoDictStep
  <2>1. step[r] = "absent" /\ step'[r] = "waiting" /\ asked'[r] = q /\ UNCHANGED map
    BY <1>1, <1>a DEF Ask, Go
  <2>2. RepoView' = [RepoView EXCEPT ![r] = RepoCall(r)']
    BY <1>1, <1>a, OthersSeeNothing DEF Ask, Go
  <2>3. RepoCall(r) = [state |-> "idle"]  BY <2>1 DEF RepoCall
  <2>4. RepoCall(r)' = [state |-> "pending", op |-> RepoOperation(q)]
    BY <2>1 DEF RepoCall, RepoOperation
  <2>5. RepoOperation(q) \in UserDict!Operations
    BY DEF RepoOperation, RepoCalls, UserDict!Operations
  <2>6. UserDict!Invoke(r, RepoOperation(q))
    BY <2>1, <2>2, <2>3, <2>4 DEF UserDict!Invoke, UserDict!Idle, UserDict!Pending, RepoView
  <2> QED  BY <2>5, <2>6 DEF UserDict!Next
<1>2. ASSUME NEW r \in RepoRequests, Abandon(r) PROVE RepoDictStep
  <2>1. step[r] = "waiting" /\ step'[r] = "abandoned" /\ UNCHANGED map
    BY <1>2, <1>a DEF Abandon, Go
  <2>2. RepoView' = [RepoView EXCEPT ![r] = RepoCall(r)']
    BY <1>2, <1>a, OthersSeeNothing DEF Abandon, Go
  <2>3. RepoCall(r).state = "pending"  BY <2>1 DEF RepoCall
  <2>4. RepoCall(r)' = [state |-> "refused"]  BY <2>1 DEF RepoCall
  <2>5. UserDict!Refuse(r)
    BY <2>1, <2>2, <2>3, <2>4 DEF UserDict!Refuse, UserDict!Refused, RepoView
  <2> QED  BY <2>5 DEF UserDict!Next
<1>3. ASSUME NEW r \in RepoRequests, CallRepo(r) PROVE RepoDictStep
  <2> DEFINE o == RepoOperation(asked[r])
  <2>1. step[r] = "inState" /\ step'[r] = "inMap" /\ UNCHANGED asked /\ asked[r] \in RepoCalls
    BY <1>3, <1>a DEF CallRepo, Go
  <2>2. RepoView' = [RepoView EXCEPT ![r] = RepoCall(r)']
    BY <1>3, <1>a, OthersSeeNothing DEF CallRepo, Go
  <2>3. RepoCall(r) = [state |-> "pending", op |-> o]  BY <2>1 DEF RepoCall
  <2>4. o \in UserDict!Operations  BY <2>1 DEF RepoOperation, RepoCalls, UserDict!Operations
  <2>5. RepoCall(r)' = [state |-> "applied", result |-> RepoResult(r)']
    BY <2>1 DEF RepoCall
  <2>6. map' = UserDict!Effect(o) /\ RepoResult(r)' = UserDict!Result(o)
    <3>1. CASE asked[r].method = "get_users"
      <4>1. returned'[r] = map /\ map' = map  BY <1>3, <3>1, <1>a DEF CallRepo
      <4> QED  BY <4>1, <3>1, <2>1
               DEF UserDict!Effect, UserDict!Result, RepoResult, RepoOperation
    <3>2. CASE asked[r].method # "get_users"
      <4>1. map' = Inserted(asked[r])  BY <1>3, <3>2 DEF CallRepo
      <4> QED  BY <4>1, <3>2, <2>1
               DEF UserDict!Effect, UserDict!Result, RepoResult, RepoOperation, Inserted
    <3> QED  BY <3>1, <3>2
  <2>7. UserDict!Apply(r, o)
    BY <2>2, <2>3, <2>5, <2>6 DEF UserDict!Apply, UserDict!Pending, UserDict!Applied, RepoView
  <2> QED  BY <2>4, <2>7 DEF UserDict!Next
<1>4. ASSUME NEW r \in RepoRequests, LockState(r) \/ LeaveMap(r) \/ LeaveState(r)
      PROVE  RepoDictStep
  <2>1. UNCHANGED <<map, asked, returned>> /\ \E f, t \in
          {"waiting", "inState", "inMap", "returned", "answered"} :
            /\ step[r] = f /\ step' = [step EXCEPT ![r] = t]
            /\ f \in {"waiting", "inState"} <=> t \in {"waiting", "inState"}
    BY <1>4 DEF LockState, LeaveMap, LeaveState, Go
  <2>2. RepoCall(r)' = RepoCall(r)  BY <2>1, <1>a DEF RepoCall, RepoResult
  <2>3. RepoView' = [RepoView EXCEPT ![r] = RepoCall(r)']
    BY <2>1, <1>a, OthersSeeNothing
  <2>4. RepoView' = RepoView  BY <2>2, <2>3 DEF RepoView
  <2> QED  BY <2>1, <2>4
<1>5. CASE RepoQuiet \/ UNCHANGED repoVars
  <2>1. UNCHANGED <<map, step, asked, returned>>  BY <1>5 DEF RepoQuiet, repoVars
  <2> QED  BY <2>1 DEF RepoView, RepoCall, RepoResult, RepoOperation
<1> QED  BY <1>1, <1>2, <1>3, <1>4, <1>5 DEF RepoNext, Handle

LEMMA RepoStartsRefined == RepoInit => UserDict!Init
BY DEF RepoInit, UserDict!Init, UserDict!Idle, RepoCall

\* The repository behind its two mutexes implements the atomic dictionary
\* (main.rs 47-86).
THEOREM RepoImplementsDictionary == RepoSpec => RepoIsDictionary
<1>1. RepoDictStep => [UserDict!Next]_(UserDict!vars)
  BY DEF RepoDictStep, RepoView, UserDict!vars
<1> QED  BY RepoInvariant, RepoStepsRefine, RepoStartsRefined, <1>1, PTL
         DEF RepoSpec, RepoIsDictionary, UserDict!Spec

-----------------------------------------------------------------------------
(* The pool: a connection is free or lent to one request.                  *)

Borrowers == {r \in Queries : query[r] = "querying"}
PoolInv == PoolTypeOK /\ ConnectionsAreAccounted

\* Cardinalities of the sets of requests in a given state.
LEMMA OneMore ==
  ASSUME NEW S, NEW T, NEW x, IsFiniteSet(S), x \notin S, T = S \cup {x}
  PROVE  IsFiniteSet(T) /\ Cardinality(S) \in Nat /\ Cardinality(T) = Cardinality(S) + 1
BY FS_AddElement, FS_CardinalityType

LEMMA OneLess ==
  ASSUME NEW S, NEW T, NEW x, IsFiniteSet(S), x \in S, T = S \ {x}
  PROVE  /\ IsFiniteSet(T) /\ Cardinality(S) \in Nat /\ Cardinality(T) \in Nat
         /\ Cardinality(T) = Cardinality(S) - 1
BY FS_RemoveElement, FS_CardinalityType

\* Every way out of a handler gives back what it had, and no more
\* (sqlx-postgres 49-53, diesel-async-postgres 53-80).
LEMMA PoolSteps == PoolInv /\ [PoolNext]_poolVars => PoolInv'
<1> SUFFICES ASSUME PoolInv, [PoolNext]_poolVars PROVE PoolInv'  OBVIOUS
<1> USE PoolAssumption DEF PoolInv, PoolTypeOK, Become, Ended
<1>a. IsFiniteSet(Borrowers) /\ Cardinality(Borrowers) \in Nat
  <2>1. Borrowers \in SUBSET Queries  BY DEF Borrowers
  <2>2. IsFiniteSet(Borrowers)  BY <2>1, FS_Subset
  <2> QED  BY <2>2, FS_CardinalityType
<1>b. free + Cardinality(Borrowers) = MaxConns  BY DEF ConnectionsAreAccounted, Borrowers
<1>c. PoolTypeOK' /\ free' + Cardinality(Borrowers') = MaxConns => PoolInv'
  BY DEF ConnectionsAreAccounted, Borrowers
<1> HIDE DEF PoolInv
<1>t. PoolTypeOK  BY DEF PoolInv
<1>1. ASSUME NEW r \in Queries, Acquire(r) PROVE PoolInv'
  <2>1. PoolTypeOK'  BY <1>1, <1>t DEF Acquire, Handlers
  <2>2. r \notin Borrowers /\ Borrowers' = Borrowers \cup {r}
    BY <1>1, <1>t DEF Acquire, Borrowers
  <2>3. Cardinality(Borrowers') = Cardinality(Borrowers) + 1  BY <2>2, <1>a, OneMore
  <2> QED  BY <1>1, <1>t, <2>1, <2>3, <1>a, <1>b, <1>c DEF Acquire
<1>2. ASSUME NEW r \in Queries, query[r] = "querying", free' = free + 1,
             NEW p \in Ended, query' = [query EXCEPT ![r] = p],
             UNCHANGED <<driver, handler, statement>>
      PROVE  PoolInv'
  <2>1. r \in Borrowers /\ Borrowers' = Borrowers \ {r}  BY <1>2, <1>t DEF Borrowers
  <2>2. Cardinality(Borrowers') \in Nat /\ Cardinality(Borrowers') = Cardinality(Borrowers) - 1
    BY <2>1, <1>a, OneLess
  <2>3. free' \in 0..MaxConns  BY <1>2, <1>t, <1>a, <1>b, <2>2
  <2>4. PoolTypeOK'  BY <1>2, <1>t, <2>3 DEF Handlers
  <2> QED  BY <1>2, <1>t, <2>2, <2>4, <1>a, <1>b, <1>c
<1>3. ASSUME PoolTypeOK', UNCHANGED free,
             \A q \in Queries : query'[q] = "querying" <=> query[q] = "querying"
      PROVE  PoolInv'
  <2>1. Borrowers' = Borrowers  BY <1>3 DEF Borrowers
  <2> QED  BY <1>3, <2>1, <1>b, <1>c
<1>4. ASSUME NEW r \in Queries, AcquireFails(r) \/ ReadPost(r) \/ RejectPost(r) PROVE PoolInv'
  <2>1. PoolTypeOK'  BY <1>4, <1>t DEF AcquireFails, ReadPost, RejectPost, Failure, Handlers
  <2> QED  BY <1>4, <1>t, <2>1, <1>3 DEF AcquireFails, ReadPost, RejectPost, Failure
<1>5. ASSUME NEW r \in Queries, Execute(r) \/ LoseStatement(r) PROVE PoolInv'
  <2>1. PoolTypeOK'  BY <1>5, <1>t DEF Execute, LoseStatement, Handlers
  <2> QED  BY <1>5, <1>t, <2>1, <1>3 DEF Execute, LoseStatement
<1>6. ASSUME NEW r \in Queries, Fetch(r) \/ QueryFails(r) PROVE PoolInv'
  BY <1>6, <1>2 DEF Fetch, QueryFails, Failure
<1>7. ASSUME NEW r \in Queries, Cancel(r) PROVE PoolInv'
  <2>1. CASE query[r] = "querying"  BY <1>7, <2>1, <1>2 DEF Cancel
  <2>2. CASE query[r] # "querying"
    <3>1. PoolTypeOK'  BY <1>7, <2>2, <1>t DEF Cancel, Handlers
    <3> QED  BY <1>7, <2>2, <1>t, <3>1, <1>3 DEF Cancel
  <2> QED  BY <2>1, <2>2
<1>8. ASSUME NEW r \in Queries, NEW h \in Handlers, Request(r, h) PROVE PoolInv'
  <2>1. PoolTypeOK'  BY <1>8, <1>t DEF Request, Handlers
  <2> QED  BY <1>8, <1>t, <2>1, <1>3 DEF Request
<1>9. CASE PoolQuiet \/ UNCHANGED poolVars
  <2>1. PoolTypeOK'  BY <1>9, <1>t DEF PoolQuiet, poolVars, Handlers
  <2> QED  BY <1>9, <2>1, <1>3 DEF PoolQuiet, poolVars
<1> QED  BY <1>1, <1>4, <1>5, <1>6, <1>7, <1>8, <1>9 DEF PoolNext, Obtain

LEMMA PoolInvariant == PoolSpec => []PoolInv
<1>1. PoolInit => PoolInv
  <2> SUFFICES ASSUME PoolInit PROVE PoolInv  OBVIOUS
  <2>1. Borrowers = {}  BY DEF PoolInit, Borrowers
  <2>2. Cardinality(Borrowers) = 0  BY <2>1, FS_EmptySet
  <2> QED  BY <2>2, PoolAssumption
           DEF PoolInit, PoolInv, PoolTypeOK, ConnectionsAreAccounted, Borrowers
<1> QED  BY <1>1, PoolSteps, PTL DEF PoolSpec

\* No connection of the pool is lost or lent twice, for any number of requests
\* and connections (sqlx-postgres 30-53, diesel-async-postgres 38-80).
THEOREM ConnectionsAccounted == PoolSpec => []ConnectionsAreAccounted
BY PoolInvariant, PTL DEF PoolInv

-----------------------------------------------------------------------------
(* The metrics: two figures that are updated one after the other.          *)

Answered == {r \in Slow : slow[r] = "answered"}
MetricsInv ==
  /\ MetricsTypeOK
  /\ FiguresAreTheAnswers
  /\ ~scrape.done => scrape.total <= durations + scrape.between

\* Only the two updates change the figures, each with the state of its request
\* (examples/prometheus-metrics, main.rs 90-98).
LEMMA MetricsSteps == MetricsInv /\ [MetricsNext]_metricsVars => MetricsInv'
<1> SUFFICES ASSUME MetricsInv, [MetricsNext]_metricsVars PROVE MetricsInv'  OBVIOUS
<1> USE MetricsAssumption DEF Pass
<1>t. MetricsTypeOK  BY DEF MetricsInv
<1>a. /\ IsFiniteSet(Answered) /\ Cardinality(Answered) \in Nat
      /\ IsFiniteSet(Between) /\ Cardinality(Between) \in Nat
  BY FS_Subset, FS_CardinalityType DEF Answered, Between
<1>b. /\ durations = Cardinality(Answered)
      /\ requests_total = Cardinality(Answered) + Cardinality(Between)
      /\ scrape.done => scrape.total <= scrape.durations + scrape.between
      /\ ~scrape.done => scrape.total <= durations + scrape.between
  BY DEF MetricsInv, FiguresAreTheAnswers, Answered
<1>c. ASSUME MetricsTypeOK',
             durations' = Cardinality(Answered'),
             requests_total' = Cardinality(Answered') + Cardinality(Between'),
             (scrape.done => scrape.total <= scrape.durations + scrape.between)',
             (~scrape.done => scrape.total <= durations + scrape.between)'
      PROVE  MetricsInv'
  BY <1>c DEF MetricsInv, FiguresAreTheAnswers, Answered
<1> USE DEF MetricsTypeOK
<1>1. ASSUME NEW r \in Slow, Start(r) \/ DropSlow(r) PROVE MetricsInv'
  <2>1. UNCHANGED <<requests_total, durations, scrape, scrapes>>
    BY <1>1 DEF Start, DropSlow
  <2>2. MetricsTypeOK'  BY <1>1, <1>t, <2>1 DEF Start, DropSlow
  <2>3. Answered' = Answered /\ Between' = Between
    BY <1>1, <1>t DEF Start, DropSlow, Answered, Between
  <2> QED  BY <2>1, <2>2, <2>3, <1>b, <1>c
<1>2. ASSUME NEW r \in Slow, Count(r) PROVE MetricsInv'
  <2>1. MetricsTypeOK'  BY <1>2, <1>t DEF Count
  <2>2. Answered' = Answered /\ r \notin Between /\ Between' = Between \cup {r}
    BY <1>2, <1>t DEF Count, Answered, Between
  <2>3. Cardinality(Between') = Cardinality(Between) + 1  BY <2>2, <1>a, OneMore
  <2> QED  BY <1>2, <2>1, <2>2, <2>3, <1>a, <1>b, <1>c DEF Count
<1>3. ASSUME NEW r \in Slow, Record(r) PROVE MetricsInv'
  <2>1. /\ r \in Between /\ Between' = Between \ {r}
        /\ r \notin Answered /\ Answered' = Answered \cup {r}
    BY <1>3, <1>t DEF Record, Answered, Between
  <2>2. Cardinality(Between') = Cardinality(Between) - 1 /\ Cardinality(Between') \in Nat
    BY <2>1, <1>a, OneLess
  <2>3. Cardinality(Answered') = Cardinality(Answered) + 1  BY <2>1, <1>a, OneMore
  <2>4. MetricsTypeOK'  BY <1>3, <1>t, <1>a, <1>b, <2>2 DEF Record
  <2> QED  BY <1>3, <1>t, <2>2, <2>3, <2>4, <1>a, <1>b, <1>c DEF Record
<1>4. CASE ReadCounters
  <2>1. Answered' = Answered /\ Between' = Between  BY <1>4 DEF ReadCounters, Answered, Between
  <2>2. MetricsTypeOK'  BY <1>4, <1>t, <1>a DEF ReadCounters
  <2> QED  BY <1>4, <2>1, <2>2, <1>a, <1>b, <1>c DEF ReadCounters
<1>5. CASE ReadHistograms
  <2>1. Answered' = Answered /\ Between' = Between  BY <1>5 DEF ReadHistograms, Answered, Between
  <2>2. scrape' = [done |-> TRUE, total |-> scrape.total, durations |-> durations,
                   between |-> scrape.between]
    BY <1>5, <1>t DEF ReadHistograms
  <2>3. MetricsTypeOK'
    <3>1. scrape.total \in Nat /\ scrape.between \in Nat /\ durations \in Nat
      BY <1>t
    <3>2. scrape' \in [done : BOOLEAN, total : Nat, durations : Nat, between : Nat]
      BY <2>2, <3>1
    <3>3. UNCHANGED <<slow, requests_total, durations, scrapes>>  BY <1>5 DEF ReadHistograms
    <3> QED  BY <1>t, <3>2, <3>3
  <2> QED  BY <1>5, <1>t, <2>1, <2>2, <2>3, <1>b, <1>c DEF ReadHistograms
<1>6. CASE MetricsQuiet \/ UNCHANGED metricsVars
  <2>1. Answered' = Answered /\ Between' = Between
    BY <1>6 DEF MetricsQuiet, metricsVars, Answered, Between
  <2>2. MetricsTypeOK'  BY <1>6, <1>t DEF MetricsQuiet, metricsVars
  <2> QED  BY <1>6, <2>1, <2>2, <1>b, <1>c DEF MetricsQuiet, metricsVars
<1> QED  BY <1>1, <1>2, <1>3, <1>4, <1>5, <1>6 DEF MetricsNext

LEMMA MetricsInvariant == MetricsSpec => []MetricsInv
<1>1. MetricsInit => MetricsInv
  <2> SUFFICES ASSUME MetricsInit PROVE MetricsInv  OBVIOUS
  <2>1. Answered = {} /\ Between = {}  BY DEF MetricsInit, Answered, Between
  <2>2. Cardinality(Answered) = 0 /\ Cardinality(Between) = 0  BY <2>1, FS_EmptySet
  <2> QED  BY <2>2, MetricsAssumption
           DEF MetricsInit, MetricsInv, MetricsTypeOK, FiguresAreTheAnswers, Answered
<1> QED  BY <1>1, MetricsSteps, PTL DEF MetricsSpec

\* The figures are those of the answers, and a scrape is wrong by no more than
\* the requests in between, for any number of requests (main.rs 62 and 90-98).
THEOREM FiguresTrue == MetricsSpec => []FiguresAreTheAnswers
BY MetricsInvariant, PTL DEF MetricsInv

-----------------------------------------------------------------------------
(* The tokens: what the cut to whole seconds costs, for any clock.         *)

TokenRight(t) == /\ t.at \in Nat
                 /\ t.exp = Seconds(t.at) + Lifetime
\* The last answer about a token was right when it was given.
ReplyRight ==
  /\ TokenRight(reply.token)
  /\ reply.age \in Nat
  /\ reply.kind = "welcome" <=>
       /\ reply.token.key = secret
       /\ reply.token.exp >= Seconds(reply.token.at + reply.age)

AboutToken == reply.kind \in {"welcome", "invalid token"}
IssuedRight == \A t \in issued : TokenRight(t) /\ t.at <= now

TokenInv == now \in Nat /\ IssuedRight /\ (AboutToken => ReplyRight)

\* What \div returns.
LEMMA DivBounds ==
  ASSUME NEW t \in Nat, NEW d \in Nat \ {0}
  PROVE  t \div d \in Nat /\ d * (t \div d) <= t /\ t < d * (t \div d) + d
BY SMT

LEMMA TimesMonotone ==
  ASSUME NEW d \in Nat, NEW a \in Int, NEW b \in Int, a <= b
  PROVE  d * a <= d * b
BY SMT

\* An age in ticks against a lifetime in seconds.
LEMMA AgeInSeconds ==
  ASSUME NEW a \in Nat, NEW g \in Nat
  PROVE  /\ Seconds(a) + Lifetime >= Seconds(a + g) => g < (Lifetime + 1) * TicksPerSecond
         /\ Seconds(a) + Lifetime < Seconds(a + g) => g > Lifetime * TicksPerSecond
<1> DEFINE T == TicksPerSecond
           x == Seconds(a)
           y == Seconds(a + g)
<1>1. T \in Nat \ {0} /\ Lifetime \in Nat  BY TokenAssumption
<1>2. x \in Nat /\ T * x <= a /\ a < T * x + T  BY <1>1, DivBounds DEF Seconds
<1>3. y \in Nat /\ T * y <= a + g /\ a + g < T * y + T  BY <1>1, DivBounds DEF Seconds
<1>4. (Lifetime + 1) * T = T * Lifetime + T /\ Lifetime * T = T * Lifetime
      /\ T * (x + Lifetime) = T * x + T * Lifetime
      /\ T * (x + Lifetime + 1) = T * x + T * Lifetime + T
  BY <1>1, <1>2
<1>5. T * x \in Nat /\ T * y \in Nat /\ T * Lifetime \in Nat  BY <1>1, <1>2, <1>3
<1>6. ASSUME x + Lifetime >= y PROVE g < (Lifetime + 1) * T
  <2>1. T * y <= T * (x + Lifetime)  BY <1>1, <1>2, <1>3, <1>6, TimesMonotone
  <2> HIDE DEF T, x, y
  <2> QED  BY <1>1, <1>2, <1>3, <1>4, <1>5, <2>1
<1>7. ASSUME x + Lifetime < y PROVE g > Lifetime * T
  <2>1. T * (x + Lifetime + 1) <= T * y  BY <1>1, <1>2, <1>3, <1>7, TimesMonotone
  <2> HIDE DEF T, x, y
  <2> QED  BY <1>1, <1>2, <1>3, <1>4, <1>5, <2>1
<1> QED  BY <1>6, <1>7

\* No step issues a token or gives an answer that is not right, and a restart
\* forgets the answer (examples/jwt, main.rs 60-111).
LEMMA TokenSteps == TokenInv /\ [TokenNext]_tokenVars => TokenInv'
<1> SUFFICES ASSUME now \in Nat, IssuedRight, AboutToken => ReplyRight,
                    [TokenNext]_tokenVars
             PROVE  now' \in Nat /\ IssuedRight' /\ (AboutToken' => ReplyRight')
  BY DEF TokenInv
<1>a. UNCHANGED <<now, issued>> => now' \in Nat /\ IssuedRight'
  BY DEF IssuedRight, TokenRight, Seconds
<1>b. ASSUME NEW k \in {"none", "panic", "4xx", "missing credentials", "token"},
             reply' = [kind |-> k]
      PROVE  ~AboutToken'
  BY <1>b DEF AboutToken
<1>c. UNCHANGED <<secret, reply>> => (AboutToken' => ReplyRight')
  BY DEF AboutToken, ReplyRight, TokenRight, Seconds
<1>1. CASE Tick
  <2>1. now' = now + 1 /\ UNCHANGED <<issued, secret, reply>>  BY <1>1 DEF Tick
  <2>2. IssuedRight'  BY <2>1 DEF IssuedRight, TokenRight, Seconds
  <2> QED  BY <2>1, <2>2, <1>c
<1>2. ASSUME NEW s \in Secrets \cup {Unset}, Restart(s)
      PROVE  now' \in Nat /\ IssuedRight' /\ (AboutToken' => ReplyRight')
  BY <1>2, <1>a, <1>b DEF Restart, NoReply
<1>3. CASE Refuse \/ NoBearer
  BY <1>3, <1>a, <1>b DEF Refuse, NoBearer
<1>4. CASE Authorize
  <2>1. now' = now  BY <1>4 DEF Authorize
  <2>2. CASE secret = Unset
    BY <1>4, <2>2, <1>a, <1>b DEF Authorize, Panic
  <2>3. CASE secret # Unset
    <3>1. issued' = issued \cup {Claim} /\ reply' = [kind |-> "token"]
      BY <1>4, <2>3 DEF Authorize
    <3>2. TokenRight(Claim) /\ Claim.at <= now  BY DEF TokenRight, Claim
    <3>3. IssuedRight'  BY <2>1, <3>1, <3>2 DEF IssuedRight, TokenRight, Seconds
    <3> QED  BY <2>1, <3>1, <3>3, <1>b
  <2> QED  BY <2>2, <2>3
<1>5. ASSUME NEW t \in issued, Protected(t)
      PROVE  now' \in Nat /\ IssuedRight' /\ (AboutToken' => ReplyRight')
  <2>1. UNCHANGED <<now, secret, issued>>
    BY <1>5 DEF Protected, Panic
  <2>2. CASE secret = Unset
    BY <1>5, <2>1, <2>2, <1>a, <1>b DEF Protected, Panic
  <2>3. CASE secret # Unset
    <3> DEFINE k == IF t.key = secret /\ Live(t) THEN "welcome" ELSE "invalid token"
    <3>0. reply' = [kind |-> k, token |-> t, age |-> now - t.at]
      BY <1>5, <2>3 DEF Protected
    <3>1. /\ reply'.token = t /\ reply'.age = now - t.at /\ reply'.kind = k
          /\ k = "welcome" <=> t.key = secret /\ t.exp >= Seconds(now)
      <4>1. k = "welcome" <=> t.key = secret /\ t.exp >= Seconds(now)  BY DEF Live
      <4> HIDE DEF k
      <4> QED  BY <3>0, <4>1
    <3>2. TokenRight(t) /\ now - t.at \in Nat /\ t.at + (now - t.at) = now
      BY DEF IssuedRight, TokenRight
    <3>3. ReplyRight'  BY <2>1, <3>1, <3>2 DEF ReplyRight, TokenRight, Seconds
    <3> QED  BY <2>1, <3>3, <1>a
  <2> QED  BY <2>2, <2>3
<1>6. CASE UNCHANGED tokenVars
  BY <1>6, <1>a, <1>c DEF tokenVars
<1> QED  BY <1>1, <1>2, <1>3, <1>4, <1>5, <1>6 DEF TokenNext

\* A token lives for its lifetime at least and less than a second more, for any
\* resolution of the clock, any lifetime and any restarts (main.rs 65-73 and
\* 101-108).
THEOREM TokensLive == TokenSpec => []TokensLiveTenSeconds
<1>1. TokenInit => TokenInv
  BY DEF TokenInit, TokenInv, NoReply, IssuedRight, AboutToken
<1>2. TokenInv => TokensLiveTenSeconds
  <2> SUFFICES ASSUME TokenInv PROVE TokensLiveTenSeconds  OBVIOUS
  <2>1. CASE ~AboutToken  BY <2>1 DEF TokensLiveTenSeconds, AboutToken
  <2>2. CASE AboutToken
    <3> DEFINE a == reply.token.at
               x == Seconds(a)
               y == Seconds(a + reply.age)
    <3>1. ReplyRight  BY <2>2 DEF TokenInv
    <3>2. /\ a \in Nat /\ reply.age \in Nat /\ a + reply.age \in Nat
          /\ reply.token.exp = x + Lifetime
      BY <3>1 DEF ReplyRight, TokenRight
    <3>3. x \in Nat /\ y \in Nat
      BY <3>2, TokenAssumption, DivBounds DEF Seconds
    <3>4. /\ x + Lifetime >= y => reply.age < (Lifetime + 1) * TicksPerSecond
          /\ x + Lifetime < y => reply.age > Lifetime * TicksPerSecond
      BY <3>2, AgeInSeconds
    <3>5. reply.kind = "welcome" <=> reply.token.key = secret /\ x + Lifetime >= y
      BY <3>1, <3>2 DEF ReplyRight
    <3>6. x + Lifetime >= y \/ x + Lifetime < y  BY <3>3, TokenAssumption
    <3> HIDE DEF a, x, y
    <3>7. reply.kind = "invalid token" => reply.kind # "welcome"  OBVIOUS
    <3> QED  BY <3>4, <3>5, <3>6, <3>7 DEF TokensLiveTenSeconds
  <2> QED  BY <2>1, <2>2
<1> QED  BY <1>1, <1>2, TokenSteps, PTL DEF TokenSpec

\* Whole seconds keep the order of the clock.
LEMMA SecondsMonotone ==
  ASSUME NEW s \in Nat, NEW t \in Nat, s <= t
  PROVE  Seconds(s) \in Nat /\ Seconds(t) \in Nat /\ Seconds(s) <= Seconds(t)
<1> DEFINE T == TicksPerSecond
           x == Seconds(s)
           y == Seconds(t)
<1>1. T \in Nat \ {0}  BY TokenAssumption
<1>2. x \in Nat /\ T * x <= s /\ s < T * x + T  BY <1>1, DivBounds DEF Seconds
<1>3. y \in Nat /\ T * y <= t /\ t < T * y + T  BY <1>1, DivBounds DEF Seconds
<1>4. ASSUME y < x PROVE FALSE
  <2>1. T * (y + 1) <= T * x  BY <1>1, <1>2, <1>3, <1>4, TimesMonotone
  <2>2. T * (y + 1) = T * y + T /\ T * y \in Nat /\ T * x \in Nat  BY <1>1, <1>2, <1>3
  <2> HIDE DEF T, x, y
  <2> QED  BY <1>1, <1>2, <1>3, <2>1, <2>2
<1> QED  BY <1>2, <1>3, <1>4

\* The keys are there only where the environment has a secret, every token ever
\* issued is of a time the clock has shown, and so are the ages in the answers
\* (main.rs 20-24, 65-73 and 152-157).
LEMMA TokenTypeSteps ==
  TokenInv /\ TokenTypeOK /\ [TokenNext]_tokenVars => TokenTypeOK'
<1> DEFINE Replies == [kind : {"none", "panic", "4xx", "missing credentials", "token"}]
                      \cup [kind : {"welcome", "invalid token"}, token : Tokens, age : Nat]
           Keys == {"uninitialised", IF secret = Unset THEN "poisoned" ELSE "ready"}
<1> SUFFICES ASSUME IssuedRight, now \in 0..MaxTime, secret \in Secrets \cup {Unset},
                    keys \in Keys, issued \subseteq Tokens, reply \in Replies,
                    [TokenNext]_tokenVars
             PROVE  /\ now' \in 0..MaxTime /\ secret' \in Secrets \cup {Unset}
                    /\ keys' \in Keys' /\ issued' \subseteq Tokens /\ reply' \in Replies
  BY DEF TokenInv, TokenTypeOK
<1> HIDE DEF Replies
<1>a. ASSUME NEW k \in {"none", "panic", "4xx", "missing credentials", "token"}
      PROVE  [kind |-> k] \in Replies
  BY DEF Replies
<1>1. CASE Tick
  BY <1>1, TokenAssumption DEF Tick
<1>2. ASSUME NEW s \in Secrets \cup {Unset}, Restart(s)
      PROVE  /\ now' = now /\ secret' = s /\ keys' = "uninitialised"
             /\ issued' = issued /\ reply' \in Replies
  BY <1>2, <1>a DEF Restart, NoReply
<1>3. CASE Refuse \/ NoBearer
  BY <1>3, <1>a DEF Refuse, NoBearer
<1>4. CASE Authorize
  <2>1. now' = now /\ secret' = secret /\ keys' \in Keys'  BY <1>4 DEF Authorize, InitKeys
  <2>2. CASE secret = Unset  BY <1>4, <2>1, <2>2, <1>a DEF Authorize, Panic
  <2>3. CASE secret # Unset
    <3>1. Seconds(now) \in Nat /\ Seconds(MaxTime) \in Nat /\ Seconds(now) <= Seconds(MaxTime)
      BY SecondsMonotone, TokenAssumption
    <3>2. Claim \in Tokens  BY <3>1, <2>3, TokenAssumption DEF Claim, Tokens
    <3> QED  BY <1>4, <2>1, <2>3, <3>2, <1>a DEF Authorize
  <2> QED  BY <2>2, <2>3
<1>5. ASSUME NEW t \in issued, Protected(t)
      PROVE  /\ now' = now /\ secret' = secret /\ keys' \in Keys'
             /\ issued' = issued /\ reply' \in Replies
  <2>1. now' = now /\ secret' = secret /\ keys' \in Keys'  BY <1>5 DEF Protected, InitKeys
  <2>2. CASE secret = Unset  BY <1>5, <2>1, <2>2, <1>a DEF Protected, Panic
  <2>3. CASE secret # Unset
    <3> DEFINE k == IF t.key = secret /\ Live(t) THEN "welcome" ELSE "invalid token"
    <3>1. now - t.at \in Nat  BY DEF IssuedRight, TokenRight
    <3>2. issued' = issued /\ reply' = [kind |-> k, token |-> t, age |-> now - t.at]
      BY <1>5, <2>3 DEF Protected
    <3>3. k \in {"welcome", "invalid token"} /\ t \in Tokens  OBVIOUS
    <3> HIDE DEF k
    <3> QED  BY <2>1, <3>1, <3>2, <3>3 DEF Replies
  <2> QED  BY <2>2, <2>3
<1>6. CASE UNCHANGED tokenVars  BY <1>6 DEF tokenVars
<1> QED  BY <1>1, <1>2, <1>3, <1>4, <1>5, <1>6 DEF TokenNext

\* Every variable of the token program has its type (examples/jwt, main.rs).
THEOREM TokenTypeCorrect == TokenSpec => []TokenTypeOK
<1>1. TokenInit => TokenInv /\ TokenTypeOK
  BY TokenAssumption DEF TokenInit, TokenInv, NoReply, IssuedRight, AboutToken, TokenTypeOK
<1> QED  BY <1>1, TokenSteps, TokenTypeSteps, PTL DEF TokenSpec

-----------------------------------------------------------------------------
(* The programs side by side: a behaviour of all is one of each, so what   *)
(* holds of each holds of all.                                             *)

\* One program runs and the others stay as they were: their behaviours are those
\* of the specifications above, with steps that change nothing.
THEOREM EachIsItself ==
  Spec => RegistrySpec /\ RepoSpec /\ PoolSpec /\ MetricsSpec /\ TokenSpec
<1>1. Init => RegistryInit /\ RepoInit /\ PoolInit /\ MetricsInit /\ TokenInit
  BY DEF Init
<1>2. [Next]_vars => /\ [RegistryNext]_registryVars
                     /\ [RepoNext]_repoVars
                     /\ [PoolNext]_poolVars
                     /\ [MetricsNext]_metricsVars
                     /\ [TokenNext]_tokenVars
  BY DEF Next, vars
<1> QED  BY <1>1, <1>2, PTL DEF Spec, RegistrySpec, RepoSpec, PoolSpec, MetricsSpec, TokenSpec

\* The variables of all five programs have their types (examples/error-handling,
\* dependency-injection, sqlx-postgres, diesel-async-postgres,
\* prometheus-metrics and jwt).
THEOREM SharedTypeCorrect == Spec => []TypeOK
<1>1. RegistryInv => RegistryTypeOK  BY DEF RegistryInv
<1>2. RepoInv => RepoTypeOK  BY DEF RepoInv
<1>3. PoolInv => PoolTypeOK  BY DEF PoolInv
<1>4. MetricsInv => MetricsTypeOK  BY DEF MetricsInv
<1>5. Spec => []RegistryInv /\ []RepoInv /\ []PoolInv /\ []MetricsInv
  BY EachIsItself, RegistryInvariant, RepoInvariant, PoolInvariant, MetricsInvariant
<1>6. Spec => []TokenTypeOK  BY EachIsItself, TokenTypeCorrect
<1> QED  BY <1>1, <1>2, <1>3, <1>4, <1>5, <1>6, PTL DEF TypeOK

\* What the passing run checks of the composition, for every value of the
\* constants (the same sources).
THEOREM SharedSafe ==
  Spec => /\ [](/\ UsersAreKept /\ ConnectionsAreAccounted
                /\ FiguresAreTheAnswers /\ TokensLiveTenSeconds)
          /\ RepoIsDictionary
BY EachIsItself, UsersKept, ConnectionsAccounted, FiguresTrue, TokensLive,
   RepoImplementsDictionary, PTL
=============================================================================
