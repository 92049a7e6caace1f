--------------------------- MODULE UserCollection ---------------------------
(***************************************************************************)
(* examples/mongodb: users in a collection whose names and email addresses *)
(* are to be unique.  The database outlives the server (docker-compose     *)
(* runs it apart); each operation on it is atomic.  A task spawned at the  *)
(* start of the server creates the unique indexes while requests are       *)
(* already served, and a server that stops may be started again.           *)
(***************************************************************************)
EXTENDS Naturals, FiniteSets

CONSTANTS Names, Emails,
          Blank,        \* the empty display name
          Ids,          \* the documents ever inserted
          MaxStarts     \* bound: how often the server is started

ASSUME UserCollectionAssumption == /\ IsFiniteSet(Ids)
                                   /\ Blank \in Names
                                   /\ MaxStarts \in Nat \ {0}

VARIABLES
  users,      \* the documents: a function from some of Ids to users
  indexed,    \* the unique indexes exist
  setup,      \* where the spawned task is
  starts,     \* how often the server has been started
  answer      \* the last request and what it was answered

vars == <<users, indexed, setup, starts, answer>>

User == [displayName : Names, email : Emails]
Statuses == {"none", "ok", "not_found", "bad_request", "error", "panicked"}
NoAnswer == [to |-> "none", status |-> "none"]
Answers == {NoAnswer}
           \cup [to : {"create"}, status : {"ok", "panicked"}]
           \cup [to : {"get", "delete"}, name : Names, status : {"ok", "not_found"}]
           \cup [to : {"update"}, name : Names, new : Names,
                 status : {"ok", "not_found", "bad_request", "error"}]

Stored == DOMAIN users
Named(n) == {i \in Stored : users[i].displayName = n}
Clash(u, v) == u.displayName = v.displayName \/ u.email = v.email
Unique(coll) == \A i, j \in DOMAIN coll : Clash(coll[i], coll[j]) => i = j

With(i, u) == [j \in Stored \cup {i} |-> IF j = i THEN u ELSE users[j]]
Without(i) == [j \in Stored \ {i} |-> users[j]]

Init == /\ users = [i \in {} |-> NoAnswer]
        /\ indexed = FALSE
        /\ setup = "creating"
        /\ starts = 1
        /\ answer = NoAnswer

Running == setup # "stopped"
Reply(a) == /\ Running
            /\ answer' = a
            /\ UNCHANGED <<indexed, setup, starts>>

-----------------------------------------------------------------------------
\* insert_one, whose error the handler unwraps.
create_user ==
  \E i \in Ids \ Stored, u \in User :
    IF indexed => Unique(With(i, u))
    THEN users' = With(i, u) /\ Reply([to |-> "create", status |-> "ok"])
    ELSE Reply([to |-> "create", status |-> "panicked"]) /\ UNCHANGED users

\* find_one: any of the documents with the name.
get_user ==
  \E n \in Names :
    /\ Reply([to |-> "get", name |-> n,
              status |-> IF Named(n) # {} THEN "ok" ELSE "not_found"])
    /\ UNCHANGED users

\* Mutant: the document is replaced under the old name as well.
update_copy ==
  \E n, new \in Names, e \in Emails :
    LET says(s) == Reply([to |-> "update", name |-> n, new |-> new, status |-> s])
    IN  \/ Named(n) = {} /\ says("not_found") /\ UNCHANGED users
        \/ \E i \in Ids \ Stored :
             /\ Named(n) # {}
             /\ users' = With(i, [displayName |-> new, email |-> e])
             /\ says("ok")

\* find_one_and_update: the name is set in one of the documents that have the
\* old one, unless an index forbids it.
update_user ==
  \E n, new \in Names :
    LET says(s) == Reply([to |-> "update", name |-> n, new |-> new, status |-> s])
    IN  \/ new = Blank /\ says("bad_request") /\ UNCHANGED users
        \/ new # Blank /\ Named(n) = {} /\ says("not_found") /\ UNCHANGED users
        \/ /\ new # Blank
           /\ \E i \in Named(n) :
                LET coll == With(i, [users[i] EXCEPT !.displayName = new])
                IN  IF indexed => Unique(coll)
                    THEN users' = coll /\ says("ok")
                    ELSE says("error") /\ UNCHANGED users

\* find_one_and_delete
delete_user ==
  \E n \in Names :
    LET says(s) == Reply([to |-> "delete", name |-> n, status |-> s])
    IN  \/ Named(n) = {} /\ says("not_found") /\ UNCHANGED users
        \/ \E i \in Named(n) : users' = Without(i) /\ says("ok")

-----------------------------------------------------------------------------
\* Mutant: the options of the indexes are forgotten.
setup_unchecked == /\ setup = "creating"
                   /\ setup' = "finished"
                   /\ indexed' = TRUE
                   /\ UNCHANGED <<users, starts, answer>>

\* create_indexes: both or, when the documents forbid it, neither and a panic,
\* which ends the task and nothing else.
setup_collection ==
  /\ setup = "creating"
  /\ IF indexed \/ Unique(users)
     THEN setup' = "finished" /\ indexed' = TRUE
     ELSE setup' = "panicked" /\ UNCHANGED indexed
  /\ UNCHANGED <<users, starts, answer>>

\* The server stops, whatever its task has done ...
Stop == /\ Running
        /\ setup' = "stopped"
        /\ UNCHANGED <<users, indexed, starts, answer>>

\* Mutant: the collection is indexed anew.
StartAfresh == /\ setup = "stopped"
               /\ starts < MaxStarts
               /\ starts' = starts + 1
               /\ setup' = "creating"
               /\ indexed' = FALSE
               /\ answer' = NoAnswer
               /\ UNCHANGED users

\* ... and is started again on the same database.
Start == /\ setup = "stopped"
         /\ starts < MaxStarts
         /\ starts' = starts + 1
         /\ setup' = "creating"
         /\ answer' = NoAnswer
         /\ UNCHANGED <<users, indexed>>

Handler == create_user \/ get_user \/ update_user \/ delete_user
Next == Handler \/ setup_collection \/ Stop \/ Start

Spec == Init /\ [][Next]_vars

-----------------------------------------------------------------------------
\* Every variable has its type, and the task reports success only when the
\* indexes exist (examples/mongodb, main.rs 61-64 and 219-221).
TypeOK == /\ Stored \subseteq Ids
          /\ \A i \in Stored : users[i] \in User
          /\ indexed \in BOOLEAN
          /\ setup \in {"creating", "finished", "panicked", "stopped"}
          /\ starts \in 1..MaxStarts
          /\ answer \in Answers
          /\ setup = "finished" => indexed

\* Once a server has created the indexes, no request, restart or failing task
\* makes two users share a name or an address again (main.rs 202-219).
UniqueForGood ==
  [][(indexed => indexed') /\ (indexed' => Unique(users)')]_vars

\* With the indexes in place a name names one user: who was deleted cannot be
\* fetched any more, an update moves one user from the old name to the new one,
\* nobody is left under the old, nobody else has the new, and all addresses
\* stay (main.rs 133-199).
Addresses == {users[i].email : i \in Stored}
DeletesByName(a) == a.to = "delete" => Named(a.name)' = {}
RenamesByName(a) ==
  a.to = "update" => /\ Cardinality(Named(a.new)') = 1
                     /\ a.name # a.new => Named(a.name)' = {}
                     /\ Addresses' = Addresses
NamesIdentify ==
  [][indexed /\ users' # users => \A a \in {answer'} : DeletesByName(a) /\ RenamesByName(a)]_vars

-----------------------------------------------------------------------------
\* What the program asserts and does not keep: the task unwraps the result of
\* create_indexes, as if it could not fail (main.rs 219).
IndexesAreCreated == setup # "panicked"
=============================================================================
