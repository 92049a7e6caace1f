------------------------------ MODULE UserRepo ------------------------------
(***************************************************************************)
(* examples/dependency-injection: a repository behind two mutexes, that of *)
(* the application's state and, inside, that of the repository's map.      *)
(* Both guards are temporaries: the map's lives until the method returns,  *)
(* the state's until the handler's statement ends.                         *)
(***************************************************************************)
EXTENDS Naturals

CONSTANTS RepoRequests,        \* the requests ever made
          UserIds, UserNames,
          NoUser,              \* no user under an id
          Unlocked             \* no request

ASSUME RepoAssumption == /\ NoUser \notin UserNames
                         /\ Unlocked \notin RepoRequests

VARIABLES
  state_lock,   \* the request that holds Mutex<AppState>
  map_lock,     \* the request that holds InMemoryUserRepo.map
  map,          \* the map: the name under each id
  step,         \* where each request is
  asked,        \* what it asks
  returned      \* the users returned (create_user returns true, whatever it replaced)

repoVars == <<state_lock, map_lock, map, step, asked, returned>>

RepoCalls == [method : {"get_users"}]
             \cup [method : {"create_user"}, id : UserIds, name : UserNames]
NoCall == [method |-> "none"]

RepoInit == /\ state_lock = Unlocked
            /\ map_lock = Unlocked
            /\ map = [k \in UserIds |-> NoUser]
            /\ step = [r \in RepoRequests |-> "absent"]
            /\ asked = [r \in RepoRequests |-> NoCall]
            /\ returned = [r \in RepoRequests |-> NoUser]

Go(r, from, to) == step[r] \in from /\ step' = [step EXCEPT ![r] = to]

Ask(r, q) == /\ Go(r, {"absent"}, "waiting")
             /\ asked' = [asked EXCEPT ![r] = q]
             /\ UNCHANGED <<state_lock, map_lock, map, returned>>

\* Json<User> refuses the body, or the connection is lost while it is read.
Abandon(r) == /\ asked[r].method = "create_user"
              /\ Go(r, {"waiting"}, "abandoned")
              /\ UNCHANGED <<state_lock, map_lock, map, asked, returned>>

LockState(r) == /\ state_lock = Unlocked
                /\ Go(r, {"waiting"}, "inState")
                /\ state_lock' = r
                /\ UNCHANGED <<map_lock, map, asked, returned>>

\* Mutant: entry().or_insert(): the first user under an id stays.
InsertedIfAbsent(q) == [map EXCEPT ![q.id] = IF @ = NoUser THEN q.name ELSE @]

\* HashMap::insert
Inserted(q) == [map EXCEPT ![q.id] = q.name]

\* The repository's method: it takes the map's lock, and reads or writes.
CallRepo(r) ==
  /\ map_lock = Unlocked
  /\ Go(r, {"inState"}, "inMap")
  /\ map_lock' = r
  /\ IF asked[r].method = "get_users"
     THEN /\ returned' = [returned EXCEPT ![r] = map]
          /\ UNCHANGED map
     ELSE /\ map' = Inserted(asked[r])
          /\ UNCHANGED returned
  /\ UNCHANGED <<state_lock, asked>>

\* The method returns: the map's guard is dropped ...
LeaveMap(r) == /\ Go(r, {"inMap"}, "returned")
               /\ map_lock' = Unlocked
               /\ UNCHANGED <<state_lock, map, asked, returned>>

\* ... then the statement ends: the state's guard is, and the answer made.
LeaveState(r) == /\ Go(r, {"returned"}, "answered")
                 /\ state_lock' = Unlocked
                 /\ UNCHANGED <<map_lock, map, asked, returned>>

RepoQuiet == /\ \A r \in RepoRequests : step[r] \in {"answered", "abandoned"}
             /\ UNCHANGED repoVars
Handle(r) == LockState(r) \/ CallRepo(r) \/ LeaveMap(r) \/ LeaveState(r)
RepoNext == \/ \E r \in RepoRequests : \/ Handle(r) \/ Abandon(r)
                                       \/ \E q \in RepoCalls : Ask(r, q)
            \/ RepoQuiet

RepoSpec == RepoInit /\ [][RepoNext]_repoVars

-----------------------------------------------------------------------------
\* Every variable has its type (examples/dependency-injection, main.rs 42-86).
RepoTypeOK ==
  /\ state_lock \in RepoRequests \cup {Unlocked}
  /\ map_lock \in RepoRequests \cup {Unlocked}
  /\ map \in [UserIds -> UserNames \cup {NoUser}]
  /\ step \in [RepoRequests -> {"absent", "waiting", "inState", "inMap", "returned",
                               "answered", "abandoned"}]
  /\ asked \in [RepoRequests -> RepoCalls \cup {NoCall}]
  /\ returned \in [RepoRequests -> {NoUser} \cup [UserIds -> UserNames \cup {NoUser}]]

\* The repository is a dictionary: each call takes effect at one instant
\* between its arrival and its answer, the last user created under an id is
\* the one that stays, and an abandoned call has no effect (main.rs 47-86).
RepoOperation(q) == IF q.method = "get_users" THEN [op |-> "list"]
                    ELSE [op |-> "set", key |-> q.id, value |-> q.name]
RepoResult(r) == IF asked[r].method = "get_users"
                 THEN {k \in UserIds : returned[r][k] # NoUser} ELSE NoUser
RepoCall(r) ==
  CASE step[r] = "absent" -> [state |-> "idle"]
    [] step[r] \in {"waiting", "inState"} -> [state |-> "pending", op |-> RepoOperation(asked[r])]
    [] step[r] = "abandoned" -> [state |-> "refused"]
    [] OTHER -> [state |-> "applied", result |-> RepoResult(r)]
UserDict == INSTANCE Dictionary
  WITH Requests <- RepoRequests, Keys <- UserIds, Values <- UserNames, Absent <- NoUser,
       dict <- map, call <- [r \in RepoRequests |-> RepoCall(r)]

RepoIsDictionary == UserDict!Spec
=============================================================================
