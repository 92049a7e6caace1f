---------------------------- MODULE UserRegistry ----------------------------
(***************************************************************************)
(* examples/error-handling: POST /users.  A handler reads the body, draws  *)
(* an identifier from an atomic counter and only then takes the lock of    *)
(* the map: identifiers are drawn in one order and stored in another.      *)
(***************************************************************************)
EXTENDS Naturals, FiniteSets

CONSTANTS Creations,   \* the requests ever made
          IdSpace,     \* 2^64: fetch_add wraps around
          Nobody       \* no user

ASSUME RegistryAssumption == /\ IdSpace \in Nat \ {0}
                             /\ Nobody \notin Creations

VARIABLES
  next_id,    \* AppState.next_id
  users,      \* AppState.users: the request that made each user
  creation,   \* where each request is
  id,         \* the identifier it has drawn
  answer,     \* the status it is answered
  draws       \* history: the identifiers drawn so far

registryVars == <<next_id, users, creation, id, answer, draws>>

Ids == 0..IdSpace - 1

\* JsonRejection::status(): a body that is no JSON, too large, of another
\* content type, or without the name.
Rejections == {400, 413, 415, 422}

RegistryInit == /\ next_id = 0
                /\ users = [i \in Ids |-> Nobody]
                /\ creation = [r \in Creations |-> "absent"]
                /\ id = [r \in Creations |-> 0]
                /\ answer = [r \in Creations |-> 0]
                /\ draws = 0

Post(r) == /\ creation[r] = "absent"
           /\ creation' = [creation EXCEPT ![r] = "reading"]
           /\ UNCHANGED <<next_id, users, id, answer, draws>>

\* Mutant: the identifier is the size of the map.
TakeIdOfSize(r) == /\ id' = [id EXCEPT ![r] = Cardinality({i \in Ids : users[i] # Nobody}) % IdSpace]
                   /\ draws' = draws + 1
                   /\ UNCHANGED next_id

\* fetch_add(1, SeqCst)
TakeId(r) == /\ id' = [id EXCEPT ![r] = next_id]
             /\ next_id' = IF next_id + 1 = IdSpace THEN 0 ELSE next_id + 1
             /\ draws' = draws + 1

\* AppJson refuses the body: AppError::JsonRejection is the answer.
Reject(r) == /\ creation[r] = "reading"
             /\ creation' = [creation EXCEPT ![r] = "done"]
             /\ \E s \in Rejections : answer' = [answer EXCEPT ![r] = s]
             /\ UNCHANGED <<next_id, users, id, draws>>

\* The connection is lost while the body is read: the only await.
HangUp(r) == /\ creation[r] = "reading"
             /\ creation' = [creation EXCEPT ![r] = "dropped"]
             /\ UNCHANGED <<next_id, users, id, answer, draws>>

DrawId(r) == /\ creation[r] = "reading"
             /\ creation' = [creation EXCEPT ![r] = "drawn"]
             /\ TakeId(r)
             /\ UNCHANGED <<users, answer>>

\* Under the lock, which nothing else holds for longer than this.
Insert(r) == /\ creation[r] = "drawn"
             /\ users' = [users EXCEPT ![id[r]] = r]
             /\ creation' = [creation EXCEPT ![r] = "done"]
             /\ answer' = [answer EXCEPT ![r] = 200]
             /\ UNCHANGED <<next_id, id, draws>>

RegistryQuiet == /\ \A r \in Creations : creation[r] \in {"done", "dropped"}
                 /\ UNCHANGED registryVars
RegistryNext ==
  \/ \E r \in Creations : Post(r) \/ Reject(r) \/ HangUp(r) \/ DrawId(r) \/ Insert(r)
  \/ RegistryQuiet

RegistrySpec == RegistryInit /\ [][RegistryNext]_registryVars

-----------------------------------------------------------------------------
\* Every variable has its type (examples/error-handling, main.rs 54-88).
RegistryTypeOK == /\ next_id \in Ids
                  /\ users \in [Ids -> Creations \cup {Nobody}]
                  /\ creation \in [Creations -> {"absent", "reading", "drawn", "done", "dropped"}]
                  /\ id \in [Creations -> Ids]
                  /\ answer \in [Creations -> {0, 200} \cup Rejections]
                  /\ draws \in Nat

\* A user whose creation was answered 200 stays in the map under his own
\* identifier, whatever creations overtake each other between the counter and
\* the lock, until the counter has wrapped around; and when no handler is
\* between the two, the identifiers in use have no holes, for refused and
\* abandoned requests draw none (main.rs 72-87).
AnsweredAreStored == \A r \in Creations : answer[r] = 200 => users[id[r]] = r
NobodyIsBetween == \A r \in Creations : creation[r] # "drawn"
IdsInUse == {i \in Ids : users[i] # Nobody}

UsersAreKept ==
  draws <= IdSpace => /\ AnsweredAreStored
                      /\ NobodyIsBetween => IdsInUse = 0..draws - 1
=============================================================================
