--------------------------- MODULE ConnectionPool ---------------------------
(***************************************************************************)
(* examples/sqlx-postgres and examples/diesel-async-postgres: handlers     *)
(* that borrow a connection from a pool, wait for it no longer than the    *)
(* pool's time-out, and run one statement that nothing times.  The two     *)
(* differ in what a failure becomes: sqlx-postgres answers 500, the bb8    *)
(* example unwraps, so the request's task panics and nothing is answered.  *)
(* The pools (sqlx, bb8) and PostgreSQL are external.                      *)
(***************************************************************************)
EXTENDS Naturals, FiniteSets

CONSTANTS Queries,    \* the requests ever made
          MaxConns    \* max_connections(10), which is also bb8's default

ASSUME PoolAssumption == /\ IsFiniteSet(Queries)
                         /\ MaxConns \in Nat \ {0}

VARIABLES
  driver,       \* which of the two programs runs
  free,         \* connections the pool may still lend
  query,        \* where each request is
  handler,      \* the handler it is for
  statement     \* what has become of its statement in the database

poolVars == <<driver, free, query, handler, statement>>

Handlers == IF driver = "sqlx" THEN {"index"} ELSE {"get_posts", "create_post"}

\* What a handler makes of an error of the pool or of the database: map_err, or
\* unwrap().
Failure == IF driver = "sqlx" THEN "500" ELSE "panic"

\* "4xx": create_post's body is no NewPost; "dropped": the client has gone.
Ended == {"200", "500", "panic", "4xx", "dropped"}

PoolInit == /\ driver \in {"sqlx", "bb8"}
            /\ free = MaxConns
            /\ query = [r \in Queries |-> "absent"]
            /\ handler = [r \in Queries |-> "none"]
            /\ statement = [r \in Queries |-> "none"]

Become(r, from, to) == query[r] \in from /\ query' = [query EXCEPT ![r] = to]

\* create_post's extractors come first, and wait for the body.
Request(r, h) == /\ Become(r, {"absent"}, IF h = "create_post" THEN "reading" ELSE "waiting")
                 /\ handler' = [handler EXCEPT ![r] = h]
                 /\ UNCHANGED <<driver, free, statement>>

ReadPost(r) == /\ Become(r, {"reading"}, "waiting")
               /\ UNCHANGED <<driver, free, handler, statement>>

\* Json<NewPost> refuses the body, or it breaks off.
RejectPost(r) == /\ Become(r, {"reading"}, "4xx")
                 /\ UNCHANGED <<driver, free, handler, statement>>

Acquire(r) == /\ free > 0
              /\ Become(r, {"waiting"}, "querying")
              /\ free' = free - 1
              /\ statement' = [statement EXCEPT ![r] = "sent"]
              /\ UNCHANGED <<driver, handler>>

\* Mutant: get() waits for as long as it takes.
WaitForEver(r) == FALSE /\ UNCHANGED poolVars

\* The pool's time-out, or a connection that cannot be opened.
AcquireFails(r) == /\ Become(r, {"waiting"}, Failure)
                   /\ UNCHANGED <<driver, free, handler, statement>>

-----------------------------------------------------------------------------
(* The database.                                                           *)

Execute(r) == /\ statement[r] = "sent"
              /\ statement' = [statement EXCEPT ![r] = "executed"]
              /\ UNCHANGED <<driver, free, query, handler>>

\* An error, or a broken connection, that the handler is told or has not waited
\* for.
LoseStatement(r) == /\ statement[r] = "sent"
                    /\ query[r] # "querying"
                    /\ statement' = [statement EXCEPT ![r] = "lost"]
                    /\ UNCHANGED <<driver, free, query, handler>>

-----------------------------------------------------------------------------
(* The end of a request gives the connection back: its guard is dropped,   *)
(* with the future or by unwinding.                                        *)

\* The rows have come: 200.
Fetch(r) == /\ statement[r] = "executed"
            /\ Become(r, {"querying"}, "200")
            /\ free' = free + 1
            /\ UNCHANGED <<driver, handler, statement>>

\* Mutant: the panic of unwrap() leaks the connection.
QueryFailsLeaking(r) == /\ Become(r, {"querying"}, Failure)
                        /\ free' = IF Failure = "panic" THEN free ELSE free + 1
                        /\ UNCHANGED <<driver, handler, statement>>

\* An error instead of rows.  Whether the statement is, or will be, executed is
\* not known.
QueryFails(r) == /\ Become(r, {"querying"}, Failure)
                 /\ free' = free + 1
                 /\ UNCHANGED <<driver, handler, statement>>

\* The client has gone: hyper drops the future.
Cancel(r) == /\ Become(r, {"reading", "waiting", "querying"}, "dropped")
             /\ free' = IF query[r] = "querying" THEN free + 1 ELSE free
             /\ UNCHANGED <<driver, handler, statement>>

PoolQuiet == /\ \A r \in Queries : query[r] \in Ended /\ statement[r] # "sent"
             /\ UNCHANGED poolVars
Obtain(r) == Acquire(r) \/ AcquireFails(r)
PoolNext == \/ \E r \in Queries : \/ Obtain(r) \/ Fetch(r) \/ QueryFails(r)
                                  \/ Execute(r) \/ LoseStatement(r)
                                  \/ ReadPost(r) \/ RejectPost(r) \/ Cancel(r)
                                  \/ \E h \in Handlers : Request(r, h)
            \/ PoolQuiet

PoolSpec == PoolInit /\ [][PoolNext]_poolVars

\* Timers fire.  The database owes nothing: no statement is timed.
PoolFairness == \A r \in Queries : WF_poolVars(Obtain(r))

-----------------------------------------------------------------------------
\* Every variable has its type (examples/sqlx-postgres, main.rs 30-56, and
\* examples/diesel-async-postgres, main.rs 38-80).
PoolTypeOK ==
  /\ driver \in {"sqlx", "bb8"}
  /\ free \in 0..MaxConns
  /\ query \in [Queries -> {"absent", "reading", "waiting", "querying"} \cup Ended]
  /\ handler \in [Queries -> Handlers \cup {"none"}]
  /\ statement \in [Queries -> {"none", "sent", "executed", "lost"}]

\* Every connection that is not free is lent to one live request: none is lost
\* on any way out of a handler, a panic and a dropped future included
\* (sqlx-postgres 50-53, diesel-async-postgres 54-60 and 70-77).
ConnectionsAreAccounted ==
  free + Cardinality({r \in Queries : query[r] = "querying"}) = MaxConns

\* A request that waits for a connection ends or gets one, even if the database
\* never answers the statements that hold them all (sqlx-postgres 32).
WaitersEnd == \A r \in Queries : query[r] = "waiting" ~> query[r] # "waiting"
=============================================================================
