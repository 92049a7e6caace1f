----------------------------- MODULE TokenLife ------------------------------
(***************************************************************************)
(* examples/jwt: POST /authorize issues a signed token that expires, GET   *)
(* /protected wants one.  Nothing is stored: a token is its claims and its *)
(* signature.  The expiry is in whole seconds while the clock is not, and  *)
(* the key comes from the environment of the process, at its first use.    *)
(***************************************************************************)
EXTENDS Integers, FiniteSets

CONSTANTS Secrets,          \* values of JWT_SECRET
          Unset,            \* JWT_SECRET is not set
          TicksPerSecond,   \* the clock's resolution
          Lifetime,         \* the 10 seconds of a token
          MaxTime,          \* bound on the clock, in ticks
          MaxIssued         \* bound on the tokens issued

ASSUME TokenAssumption == /\ Unset \notin Secrets
                          /\ TicksPerSecond \in Nat \ {0}
                          /\ Lifetime \in Nat
                          /\ MaxTime \in Nat /\ MaxIssued \in Nat

VARIABLES
  now,        \* SystemTime::now() since the epoch
  secret,     \* JWT_SECRET of the running process
  keys,       \* the LazyLock KEYS
  issued,     \* the tokens ever issued, with the time of issue
  reply       \* the last answer

tokenVars == <<now, secret, keys, issued, reply>>

Seconds(t) == t \div TicksPerSecond

\* A token: its claim and signature, and as history when it was issued.
Tokens == [exp : 0..Seconds(MaxTime) + Lifetime, key : Secrets, at : 0..MaxTime]
NoReply == [kind |-> "none"]

TokenInit == /\ now = 0
             /\ secret \in Secrets \cup {Unset}
             /\ keys = "uninitialised"
             /\ issued = {}
             /\ reply = NoReply

Tick == /\ now < MaxTime
        /\ now' = now + 1
        /\ UNCHANGED <<secret, keys, issued, reply>>

\* Another process, perhaps with another secret: nothing else is lost.
Restart(s) == /\ secret' = s
              /\ keys' = "uninitialised"
              /\ reply' = NoReply
              /\ UNCHANGED <<now, issued>>

\* The first use of KEYS reads the environment; expect() poisons it for good.
InitKeys == keys' = IF secret = Unset THEN "poisoned" ELSE "ready"

Panic == reply' = [kind |-> "panic"] /\ UNCHANGED issued

\* Json refuses the body, or authorize an empty client_id or client_secret; any
\* others will do.
Refuse == /\ \E k \in {"4xx", "missing credentials"} : reply' = [kind |-> k]
          /\ UNCHANGED <<now, secret, keys, issued>>

Claim == [exp |-> Seconds(now) + Lifetime, key |-> secret, at |-> now]

Authorize == /\ Cardinality(issued) < MaxIssued
             /\ InitKeys
             /\ IF secret = Unset THEN Panic
                ELSE issued' = issued \cup {Claim} /\ reply' = [kind |-> "token"]
             /\ UNCHANGED <<now, secret>>

\* Mutant: Validation::default(), with its leeway of 60 seconds.
LiveWithLeeway(t) == t.exp + 60 >= Seconds(now)

\* jsonwebtoken: refused if exp < now - leeway, with leeway = 0.
Live(t) == t.exp >= Seconds(now)

\* Without a bearer token the extractor's unwrap() panics.
NoBearer == /\ reply' = [kind |-> "panic"]
            /\ UNCHANGED <<now, secret, keys, issued>>

\* A forged token is one under another key: as good as one of another secret.
Protected(t) ==
  /\ InitKeys
  /\ IF secret = Unset THEN Panic
     ELSE /\ reply' = [kind |-> IF t.key = secret /\ Live(t) THEN "welcome" ELSE "invalid token",
                       token |-> t, age |-> now - t.at]
          /\ UNCHANGED issued
  /\ UNCHANGED <<now, secret>>

TokenNext == \/ Tick \/ Authorize \/ Refuse \/ NoBearer
             \/ \E s \in Secrets \cup {Unset} : Restart(s)
             \/ \E t \in issued : Protected(t)

TokenSpec == TokenInit /\ [][TokenNext]_tokenVars

-----------------------------------------------------------------------------
\* Every variable has its type; the keys are there only where the environment
\* has a secret, and then they hold until the process ends (examples/jwt,
\* main.rs 20-24 and 152-157).
TokenTypeOK ==
  /\ now \in 0..MaxTime
  /\ secret \in Secrets \cup {Unset}
  /\ keys \in {"uninitialised", IF secret = Unset THEN "poisoned" ELSE "ready"}
  /\ issued \subseteq Tokens
  /\ reply \in [kind : {"none", "panic", "4xx", "missing credentials", "token"}]
              \cup [kind : {"welcome", "invalid token"}, token : Tokens, age : Nat]

\* A token under the process's secret, even one issued before a restart, opens
\* the protected route for its ten seconds at least and never for eleven; one
\* under another secret never does (main.rs 65-73 and 101-108).
TokensLiveTenSeconds ==
  /\ reply.kind = "welcome" =>
       reply.token.key = secret /\ reply.age < (Lifetime + 1) * TicksPerSecond
  /\ reply.kind = "invalid token" /\ reply.token.key = secret =>
       reply.age > Lifetime * TicksPerSecond
=============================================================================
