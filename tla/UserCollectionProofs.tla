------------------------- MODULE UserCollectionProofs -------------------------
(***************************************************************************)
(* Proofs about the collection of users, for any names, addresses and      *)
(* documents and any number of starts.                                     *)
(***************************************************************************)
EXTENDS UserCollection, FiniteSetTheorems, TLAPS

\* What makes the uniqueness of one step that of all: the indexes never exist
\* over a collection that contradicts them.
IndexInv == indexed => Unique(users)
CollectionInv == TypeOK /\ IndexInv

\* The documents a handler leaves.
LEMMA WithTypes ==
  ASSUME TypeOK, NEW i \in Ids, NEW u \in User
  PROVE  /\ DOMAIN With(i, u) \subseteq Ids
         /\ \A j \in DOMAIN With(i, u) : With(i, u)[j] \in User
BY DEF With, TypeOK, Stored

LEMMA WithoutTypes ==
  ASSUME TypeOK, NEW i
  PROVE  /\ DOMAIN Without(i) \subseteq Ids
         /\ \A j \in DOMAIN Without(i) : Without(i)[j] \in User
BY DEF Without, TypeOK, Stored

LEMMA WithoutIsUnique ==
  ASSUME NEW i, Unique(users)
  PROVE  Unique(Without(i))
BY DEF Without, Unique, Clash, Stored

LEMMA InitCollectionInv == Init => CollectionInv
<1> SUFFICES ASSUME Init PROVE CollectionInv  OBVIOUS
<1>1. DOMAIN users = {}  BY DEF Init
<1>2. TypeOK
  <2>1. 1 \in 1..MaxStarts  BY UserCollectionAssumption
  <2>2. NoAnswer \in Answers  BY DEF Answers
  <2> QED  BY <1>1, <2>1, <2>2 DEF Init, TypeOK, Stored
<1>3. IndexInv  BY DEF Init, IndexInv
<1> QED  BY <1>2, <1>3 DEF CollectionInv

\* A handler keeps the types if it stores users, and answers, of theirs.
LEMMA HandlerStep ==
  ASSUME TypeOK, NEW a \in Answers, Reply(a),
         DOMAIN users' \subseteq Ids, \A j \in DOMAIN users' : users'[j] \in User
  PROVE  TypeOK'
BY DEF Reply, TypeOK, Stored

LEMMA CreateStep == CollectionInv /\ create_user => CollectionInv'
<1> SUFFICES ASSUME CollectionInv, create_user PROVE CollectionInv'  OBVIOUS
<1> USE DEF CollectionInv
<1>1. PICK i \in Ids \ Stored, u \in User :
        IF indexed => Unique(With(i, u))
        THEN users' = With(i, u) /\ Reply([to |-> "create", status |-> "ok"])
        ELSE Reply([to |-> "create", status |-> "panicked"]) /\ UNCHANGED users
  BY DEF create_user
<1>2. CASE indexed => Unique(With(i, u))
  <2>1. users' = With(i, u) /\ Reply([to |-> "create", status |-> "ok"])  BY <1>1, <1>2
  <2>2. [to |-> "create", status |-> "ok"] \in Answers  BY DEF Answers
  <2>3. TypeOK'  BY <2>1, <2>2, WithTypes, HandlerStep
  <2>4. IndexInv'  BY <1>2, <2>1 DEF IndexInv, Reply, Unique
  <2> QED  BY <2>3, <2>4
<1>3. CASE ~(indexed => Unique(With(i, u)))
  <2>1. UNCHANGED users /\ Reply([to |-> "create", status |-> "panicked"])  BY <1>1, <1>3
  <2>2. [to |-> "create", status |-> "panicked"] \in Answers  BY DEF Answers
  <2>3. TypeOK'  BY <2>1, <2>2, HandlerStep DEF TypeOK, Stored
  <2>4. IndexInv'  BY <2>1 DEF IndexInv, Reply, Unique
  <2> QED  BY <2>3, <2>4
<1> QED  BY <1>2, <1>3

LEMMA GetStep == CollectionInv /\ get_user => CollectionInv'
<1> SUFFICES ASSUME CollectionInv, get_user PROVE CollectionInv'  OBVIOUS
<1> USE DEF CollectionInv
<1>1. PICK n \in Names, s \in {"ok", "not_found"} :
        Reply([to |-> "get", name |-> n, status |-> s]) /\ UNCHANGED users
  BY DEF get_user
<1>2. [to |-> "get", name |-> n, status |-> s] \in Answers  BY DEF Answers
<1>3. TypeOK'  BY <1>1, <1>2, HandlerStep DEF TypeOK, Stored
<1>4. IndexInv'  BY <1>1 DEF IndexInv, Reply, Unique
<1> QED  BY <1>3, <1>4

LEMMA UpdateStep == CollectionInv /\ update_user => CollectionInv'
<1> SUFFICES ASSUME CollectionInv, update_user PROVE CollectionInv'  OBVIOUS
<1> USE DEF CollectionInv
<1>1. PICK n \in Names, new \in Names, s \in {"ok", "not_found", "bad_request", "error"} :
        /\ Reply([to |-> "update", name |-> n, new |-> new, status |-> s])
        /\ \/ UNCHANGED users
           \/ \E i \in Named(n) :
                /\ users' = With(i, [users[i] EXCEPT !.displayName = new])
                /\ indexed => Unique(users')
  <2>1. PICK n \in Names, new \in Names :
          LET says(s) == Reply([to |-> "update", name |-> n, new |-> new, status |-> s])
          IN  \/ new = Blank /\ says("bad_request") /\ UNCHANGED users
              \/ new # Blank /\ Named(n) = {} /\ says("not_found") /\ UNCHANGED users
              \/ /\ new # Blank
                 /\ \E i \in Named(n) :
                      LET coll == With(i, [users[i] EXCEPT !.displayName = new])
                      IN  IF indexed => Unique(coll)
                          THEN users' = coll /\ says("ok")
                          ELSE says("error") /\ UNCHANGED users
    BY DEF update_user
  <2> QED  BY <2>1
<1>2. [to |-> "update", name |-> n, new |-> new, status |-> s] \in Answers  BY DEF Answers
<1>3. CASE UNCHANGED users
  <2>1. TypeOK'  BY <1>1, <1>2, <1>3, HandlerStep DEF TypeOK, Stored
  <2>2. IndexInv'  BY <1>1, <1>3 DEF IndexInv, Reply, Unique
  <2> QED  BY <2>1, <2>2
<1>4. ASSUME NEW i \in Named(n),
             users' = With(i, [users[i] EXCEPT !.displayName = new]),
             indexed => Unique(users')
      PROVE  CollectionInv'
  <2>1. i \in Ids /\ [users[i] EXCEPT !.displayName = new] \in User
    BY DEF Named, TypeOK, Stored, User
  <2>2. TypeOK'  BY <1>1, <1>2, <1>4, <2>1, WithTypes, HandlerStep
  <2>3. IndexInv'  BY <1>1, <1>4 DEF IndexInv, Reply, Unique
  <2> QED  BY <2>2, <2>3
<1> QED  BY <1>1, <1>3, <1>4

LEMMA DeleteStep == CollectionInv /\ delete_user => CollectionInv'
<1> SUFFICES ASSUME CollectionInv, delete_user PROVE CollectionInv'  OBVIOUS
<1> USE DEF CollectionInv
<1>1. PICK n \in Names, s \in {"ok", "not_found"} :
        /\ Reply([to |-> "delete", name |-> n, status |-> s])
        /\ UNCHANGED users \/ \E i \in Named(n) : users' = Without(i)
  BY DEF delete_user
<1>2. [to |-> "delete", name |-> n, status |-> s] \in Answers  BY DEF Answers
<1>3. CASE UNCHANGED users
  <2>1. TypeOK'  BY <1>1, <1>2, <1>3, HandlerStep DEF TypeOK, Stored
  <2>2. IndexInv'  BY <1>1, <1>3 DEF IndexInv, Reply, Unique
  <2> QED  BY <2>1, <2>2
<1>4. ASSUME NEW i \in Named(n), users' = Without(i) PROVE CollectionInv'
  <2>1. TypeOK'  BY <1>1, <1>2, <1>4, WithoutTypes, HandlerStep
  <2>2. IndexInv'
    <3>1. Unique(users) => Unique(users')  BY <1>4, WithoutIsUnique
    <3> QED  BY <1>1, <3>1 DEF IndexInv, Reply, Unique
  <2> QED  BY <2>1, <2>2
<1> QED  BY <1>1, <1>3, <1>4

LEMMA NextCollectionInv == CollectionInv /\ [Next]_vars => CollectionInv'
<1> SUFFICES ASSUME CollectionInv, [Next]_vars PROVE CollectionInv'  OBVIOUS
<1> USE DEF CollectionInv, TypeOK, IndexInv, Stored
<1>1. CASE Handler
  BY <1>1, CreateStep, GetStep, UpdateStep, DeleteStep DEF Handler
<1>2. CASE setup_collection  BY <1>2 DEF setup_collection, Unique
<1>3. CASE Stop  BY <1>3 DEF Stop, Unique
<1>4. CASE Start
  <2>1. starts' \in 1..MaxStarts  BY <1>4, UserCollectionAssumption DEF Start
  <2>2. NoAnswer \in Answers  BY DEF Answers
  <2> QED  BY <1>4, <2>1, <2>2 DEF Start, Unique
<1>5. CASE UNCHANGED vars  BY <1>5 DEF vars, Unique
<1> QED  BY <1>1, <1>2, <1>3, <1>4, <1>5 DEF Next

LEMMA CollectionInvariant == Spec => []CollectionInv
<1> QED  BY InitCollectionInv, NextCollectionInv, PTL DEF Spec

\* Every variable keeps its type, and success of the task means indexes.
THEOREM TypeCorrect == Spec => []TypeOK
<1>1. CollectionInv => TypeOK  BY DEF CollectionInv
<1> QED  BY CollectionInvariant, <1>1, PTL

\* Once the indexes exist they exist for good, and no step leaves two users with
\* one name or one address (main.rs 202-219).
THEOREM UniqueOnceIndexed == Spec => UniqueForGood
<1>1. [Next]_vars => (indexed => indexed')
  <2> SUFFICES ASSUME [Next]_vars, indexed PROVE indexed'  OBVIOUS
  <2>1. CASE Handler
    BY <2>1 DEF Handler, create_user, get_user, update_user, delete_user, Reply
  <2> QED
    BY <2>1 DEF Next, setup_collection, Stop, Start, vars
<1>2. CollectionInv' => (indexed' => Unique(users)')
  BY DEF CollectionInv, IndexInv, Unique
<1>3. CollectionInv' /\ [Next]_vars
        => [(indexed => indexed') /\ (indexed' => Unique(users)')]_vars
  BY <1>1, <1>2
<1> QED  BY <1>3, CollectionInvariant, PTL DEF Spec, UniqueForGood

-----------------------------------------------------------------------------
(* What a change of the collection means for the names.                    *)

\* In a collection without clashes a name that is deleted is gone.
LEMMA DeletedIsGone ==
  ASSUME Unique(users), NEW n, NEW i \in Named(n), users' = Without(i)
  PROVE  Named(n)' = {}
<1>1. \A j \in Stored : users[j].displayName = n => j = i
  BY DEF Unique, Clash, Named, Stored
<1>2. Stored' = Stored \ {i} /\ \A j \in Stored' : users'[j] = users[j]
  BY DEF Without, Stored
<1> QED  BY <1>1, <1>2 DEF Named

\* An update leaves every address where it is and takes one user from a name to
\* another.
LEMMA UpdatedIsRenamed ==
  ASSUME TypeOK, Unique(users), Unique(users)', NEW n, NEW new \in Names,
         NEW i \in Named(n), users' = With(i, [users[i] EXCEPT !.displayName = new])
  PROVE  /\ Cardinality(Named(new)') = 1
         /\ n # new => Named(n)' = {}
         /\ Addresses' = Addresses
<1> DEFINE u == [users[i] EXCEPT !.displayName = new]
<1>1. i \in Stored /\ users[i] \in User /\ users[i].displayName = n  BY DEF Named, TypeOK
<1>2. u.displayName = new /\ u.email = users[i].email  BY <1>1 DEF User
<1> HIDE DEF u
<1>3. /\ Stored' = Stored /\ users'[i] = u
      /\ \A j \in Stored : j # i => users'[j] = users[j]
  BY <1>1 DEF With, Stored, u
<1>4. Named(new)' = {i}
  <2>1. \A j \in Stored : users'[j].displayName = new => j = i
    BY <1>1, <1>2, <1>3 DEF Unique, Clash, Stored
  <2> QED  BY <1>1, <1>2, <1>3, <2>1 DEF Named
<1>5. Cardinality(Named(new)') = 1  BY <1>4, FS_Singleton
<1>6. ASSUME n # new PROVE Named(n)' = {}
  <2>1. \A j \in Stored : users[j].displayName = n => j = i
    BY <1>1 DEF Unique, Clash, Stored
  <2> QED  BY <1>2, <1>3, <1>6, <2>1 DEF Named
<1>7. Addresses' = Addresses
  <2>1. \A j \in Stored : users'[j].email = users[j].email  BY <1>2, <1>3
  <2> QED  BY <1>3, <2>1 DEF Addresses
<1> QED  BY <1>5, <1>6, <1>7

\* With the indexes in place a name names one user, before and after each change
\* (main.rs 133-199).
THEOREM NamesAreIdentities == Spec => NamesIdentify
<1> DEFINE Right(a) == DeletesByName(a) /\ RenamesByName(a)
<1>1. CollectionInv /\ CollectionInv' /\ [Next]_vars
        => [indexed /\ users' # users => \A a \in {answer'} : Right(a)]_vars
  <2> SUFFICES ASSUME CollectionInv, CollectionInv', Next, indexed, users' # users,
                      NEW CONSTANT a \in {answer'}
               PROVE  Right(a)
    OBVIOUS
  <2>1. Handler  BY DEF Next, setup_collection, Stop, Start
  <2>2. indexed'
    BY <2>1 DEF Handler, create_user, get_user, update_user, delete_user, Reply
  <2>3. TypeOK /\ Unique(users) /\ Unique(users)'
    BY <2>2 DEF CollectionInv, IndexInv, Unique
  <2>4. CASE create_user
    <3>1. PICK s \in {"ok", "panicked"} : answer' = [to |-> "create", status |-> s]
      BY <2>4 DEF create_user, Reply
    <3>2. a.to = "create"  BY <3>1
    <3> QED  BY <3>2 DEF DeletesByName, RenamesByName
  <2>5. CASE update_user
    <3>1. PICK n \in Names, new \in Names :
            /\ \E i \in Named(n) : users' = With(i, [users[i] EXCEPT !.displayName = new])
            /\ answer' = [to |-> "update", name |-> n, new |-> new, status |-> "ok"]
      BY <2>5 DEF update_user, Reply
    <3>2. PICK i \in Named(n) : users' = With(i, [users[i] EXCEPT !.displayName = new])
      BY <3>1
    <3>3. a.to = "update" /\ a.name = n /\ a.new = new  BY <3>1
    <3> QED  BY <2>3, <3>2, <3>3, UpdatedIsRenamed DEF DeletesByName, RenamesByName
  <2>6. CASE delete_user
    <3>1. PICK n \in Names :
            /\ \E i \in Named(n) : users' = Without(i)
            /\ answer' = [to |-> "delete", name |-> n, status |-> "ok"]
      BY <2>6 DEF delete_user, Reply
    <3>2. PICK i \in Named(n) : users' = Without(i)  BY <3>1
    <3>3. a.to = "delete" /\ a.name = n  BY <3>1
    <3> QED  BY <2>3, <3>2, <3>3, DeletedIsGone DEF DeletesByName, RenamesByName
  <2>7. ~get_user  BY DEF get_user
  <2> QED  BY <2>1, <2>4, <2>5, <2>6, <2>7 DEF Handler
<1> QED  BY <1>1, CollectionInvariant, PTL DEF Spec, NamesIdentify
=============================================================================
