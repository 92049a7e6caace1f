# Verification of deep-rust

TLA+ models of the example servers of this repository, TLC runs on small
instances of them, and TLAPS proofs that hold for instances of every size.

The repository is a cargo workspace of independent axum/tokio servers under
`src/examples/`; nothing is shared between them but the libraries they use. Each
server is a component here. What they have in common, and what makes them hard to
test, is the runtime: handlers run on several threads, a future may be dropped
wherever it awaits, a task that is aborted goes on to its next await, and clients
may stop reading, stop sending or vanish at any moment.

## Inventory

| component | state | operations | what is hard | what makes it correct |
|---|---|---|---|---|
| `chat` | set of names under a mutex, broadcast channel, per session: handler, send task, receive task | claim a name, subscribe, announce, relay, lag, abort, depart | three threads of control per session that end in any order; a channel that overwrites; a name that passes from one session to the next | names exclusive and never lost, gap-free delivery, joins and departures alternate, true counts, sessions end |
| `key-value-store` | `HashMap` under an `RwLock`, a semaphore per endpoint | get, set, list, clear, remove, each behind load shedding, concurrency limit, timeout, body limit, token | permits on every way out; the wait for a body; timeouts | permits accounted for, atomic dictionary, refused requests without effect, full endpoints drain |
| `websockets` | one connection's counter and its sink | send the next number, receive a frame, close | `select!` drops the sending future at each await | no number lost or overtaken, repetitions only through frames, the numbers go on |
| `sse` | producer task, bounded channel, response stream | sample, send, yield, keep-alive, disconnect | back pressure; the producer learns of the departure late | no sample lost, repeated or overtaken, the producer ends |
| `oauth` | session store, cookie of each browser | index, protected, auth_github, auth_github_callback, logout, the `User` extractor | several requests with one cookie; failure between two calls to the store; answers out of order | a callback that comes after its token was spent is refused; a failure never logs anybody in; a refusal has a cause |
| `mongodb` | collection and its unique indexes | create, get, update, delete, index creation in the background | requests served before the indexes exist | uniqueness |
| `deep-axum` | the shutdown sender under a mutex, extension state | shutdown, hello, extractors | two shutdown requests; open requests and half-sent ones at shutdown | the server stops, and only when asked |
| `error-handling` | user map under a mutex, atomic counter | create a user | identifier drawn outside the lock | identifiers unique and without holes, nothing overwritten |
| `dependency-injection` | map in a mutex inside a repository in a mutex | create, get users | two locks | the second lock never blocks; an atomic dictionary |
| `jwt` | none but the key, initialised once; the clock | authorize, protected | the second of the expiry; restarts | a token is accepted for exactly its life |
| `prometheus-metrics` | counters and histograms | slow, scrape | requests dropped half-way; a scrape between two updates | histogram and counter agree |
| `http-proxy` | a task and two buffers per CONNECT | upgrade, connect, copy | the answer precedes the connection; half-closes; errors in one direction | bytes in order, both directions served to their end |
| `sqlx-postgres`, `diesel-async-postgres` | a pool of connections | acquire, query, return | exhaustion, time-out, panics | no connection lost or lent twice; nobody waits for ever |
| `print-request-response` | none; the bodies in transit | collect and print both bodies | a body that breaks off | the status covers both bodies |
| `reqwest-response`, `reverse-proxy` | none; the body in transit | forward an answer | failure after the head; the backend may not listen yet | no failure looks like a shorter body |
| `low-level-native-tls` | a task per connection | start, accept, handshake, serve | clients that never finish their handshake or abort; descriptors; the files it starts from | once the program has started, a connection is accepted whatever handshakes the others leave unfinished |
| `multipart`, `custom-deserializer`, `anyhow-error-response`, `auto-reload`, `askama-templates`, `minijinja-templates` | none | | not modelled, see the end | |

## Modules

| module | what it is | of |
|---|---|---|
| `BroadcastChannel` | `tokio::sync::broadcast` as the chat uses it: a log, a cursor per receiver, lag (external) | `chat` |
| `ChatRoom` | abstract specification: exclusive names and a private FIFO queue per listening session | |
| `Chat` | the server: one action per step of the handler and of its two tasks between two points at which another thread can be seen to act | `src/examples/chat/src/main.rs` |
| `ChatProperties` | properties of `Chat`, the refinement mapping, the inductive strengthenings | |
| `ChatProofs` | proofs about `Chat` | |
| `PromiseProofs` | what the abstract specifications `Pipe`, `ChatRoom` and `Dictionary` mean | |
| `Dictionary` | abstract specification: a dictionary whose operations take effect at one instant or not at all | |
| `KeyValueStore` | routing, layers and handlers | `src/examples/key-value-store/src/main.rs` |
| `KeyValueProperties` | properties and refinement mapping | |
| `KeyValueProofs` | proofs about `KeyValueStore`, its refinement of `Dictionary` among them | |
| `OAuth` | the server's login routes and a browser with several requests in flight | `src/examples/oauth/src/main.rs` |
| `OAuthProperties`, `OAuthProofs` | properties with their inductive strengthenings, and the proofs | |
| `UserCollection` | handlers, the index task, restarts; with its properties | `src/examples/mongodb/src/main.rs` |
| `UserCollectionProofs` | proofs about it | |
| `GracefulShutdown` | handlers, extractors, connections and the shutdown, with their properties | `src/examples/deep-axum/src/main.rs`, `extractors/mod.rs` |
| `CountStream` | one connection's handler, with its properties | `src/examples/websockets/src/main.rs` |
| `CountStreamProofs` | proofs about it | |
| `EventStream` | one request's producer, channel and stream, with their properties | `src/examples/sse/src/main.rs` |
| `UserRegistry` | the counter, the map and `create_user` | `src/examples/error-handling/src/main.rs` |
| `UserRepo` | handlers and repository behind two mutexes; refines `Dictionary` | `src/examples/dependency-injection/src/main.rs` |
| `ConnectionPool` | handlers that borrow a connection, in both programs | `src/examples/sqlx-postgres/src/main.rs`, `diesel-async-postgres/src/main.rs` |
| `TrackMetrics` | the middleware's figures and their scrapes | `src/examples/prometheus-metrics/src/main.rs` |
| `TokenLife` | tokens, clock, key and restarts | `src/examples/jwt/src/main.rs` |
| `SharedProofs` | proofs about these five, and about `MCShared`, which runs them side by side | |
| `Pipe` | abstract specification: one direction of a relay | |
| `Tunnel` | a CONNECT from its answer to its end; both directions refine `Pipe` | `src/examples/http-proxy/src/main.rs` |
| `Relay` | bodies passed on whole or chunk by chunk; each refines `Pipe` | `src/examples/print-request-response/src/main.rs`, `reqwest-response/src/main.rs`, `reverse-proxy/src/main.rs` |
| `Acceptor` | the accept loop, handshakes and descriptors | `src/examples/low-level-native-tls/src/main.rs` |
| `WiresProofs` | proofs about `Tunnel`, `Relay`, `Acceptor`, `GracefulShutdown` and `EventStream`, and about `MCWires`, which runs them side by side | |
| `MCShared`, `MCWires` | TLC instances of several programs side by side: a behaviour is one of one program, while the others rest | |
| `MCChat`, `MCOAuth` | symmetry sets for TLC | |

The programs share no state and no channel: an execution of two of them is any
interleaving of an execution of each, and no property speaks of two. So `MCShared` and
`MCWires` choose the program at the start and check the properties of all in one run;
nothing is lost by running one at a time: that a behaviour of the composition is a
behaviour of each program is proved (`EachIsItself`, in both proof modules).

Definitions keep the source's names where they stand for a variable or a function
(`users`, `check_username` as `CheckUsername`, `kv_set`, ...). A definition whose
comment begins with "Mutant:" is never part of a specification: it is the
definition that follows it with a plausible bug, and says what the bug is.

### How the chat corresponds to its code

`phase[c]` is the position of the handler `websocket` (60-125): "naming" is the loop
at 67-87, "named" is before `subscribe()` at 89, "subscribed" before the `send` at
91, "chatting" the `select!` at 112, "leaving" before the `send` at 119, "left"
before the lock at 122, "counting" with the guard held before the `send` at 124.
`guard` is the mutex of `users`, held across a step only there: `check_username`
(127-134) takes, uses and drops it without a call in between, so it is one action.
`sendTask` and `recvTask` are the spawned loops at 94-100 and 105-110; "holding"
is a message received and not yet written, or a text read and not yet relayed. A
send task is cancelled at either of its awaits. A receive task awaits only the
socket: between reading and relaying it cannot be cancelled, which is why `RelayText`
is enabled after an abort. `log` is the history of the channel; the buffer of the
channel is its suffix of length `Capacity` (16 in the code).

### How the key-value store corresponds to its code

`phase[r]` is "arrived" when the router has the request, "admitted" when the load
shedder and the semaphore of its endpoint have let it in (54-61), "answering" when
its handler or an inner layer has decided the answer, "done" when its future has
resolved and given the permit back. `Router::layer` wraps each endpoint on its own,
so `used` counts per endpoint. What answers 405 on a path without a handler for the
method (`Fallbacks`) is an endpoint of that kind too: it is shed and limited like the
others. Only `kv_set` awaits anything (its `Bytes` argument, 94), so only there can a
request time out, be refused for its size (`TooLarge`) or because its body breaks off
(`BadBody`), or be dropped.

### How the streams correspond to their code

`CountStream`: "feeding" and "flushing" are the two awaits inside `sender.send` (99),
"sleeping" the one at 109; `Receive` is the other branch of `select!` (62), which
drops the future at whichever of them it stands. `queue` is what the sink has
accepted and the socket has not; it survives the future.
`EventStream`: `channel` is the mpsc channel of 32 (49), "sending" the await at 68,
`open` the life of the response stream with `rx` (77).

### How the login corresponds to its code

A session is named by its position in the order in which identifiers are drawn
(`issued`); that identifiers do not repeat is the library's promise. A CSRF session's
token is told by its identifier, so `DestroyAndVerify` compares the cookie with the
`state` the callback brings. The handlers are cut where they await the store or
GitHub: `validate_csrf_token` (188-222) into `LoadCsrfSession` and `DestroyAndVerify`,
`auth_github_callback` after it (230-281) into `Exchange` and `LogIn`, `logout` (283-317) into
`LoadForLogout` and `Logout`. A callback without a `code`, as GitHub sends after a
refusal, is answered 400 by the `Query` extractor before anything else
(`RejectQuery`, 225). `index` and `protected` load the session once and change
nothing. `Drop` is a handler dropped at one of these awaits, or an answer that gets lost.
The browser sends the cookie it has when a request starts and takes the cookie of an
answer when it arrives (`jar`, `Deliver`).

### How the collection corresponds to its code

Each MongoDB operation is atomic and is one action. `setup` is the task spawned at 61:
"creating" until `create_indexes` (219) returns, then "finished" or "panicked" by its
`unwrap`. The database outlives the server: `Stop` and `Start` leave `users` and
`indexed` alone. `answer` is the last request with its answer, for the properties.

### How the shutdown corresponds to its code

`shutdown` is `AppState.shutdown` (28) being `Some`, `sent` the oneshot channel. The
steps of axum and hyper are external: `Tell` is a connection's task seeing the signal,
after which it takes no further request, but for the rest of a first one of which a part
has come ("reading"): hyper counts such a connection neither as idle nor as done. `index`
stands for its two middlewares, the
`AuthToken` extractor and the handler, which have no await between them at which
anything else could see them.

### How the programs with one shared state correspond to their code

`UserRegistry`: "reading" is the await on the body (`AppJson`, 72), "drawn" lies between
`fetch_add` (76) and the lock; the identifier wraps at `IdSpace` (2^64).
`UserRepo`: "inState" holds the outer guard, "inMap" the inner one as well; both are
temporaries, so they go in the opposite order, at the end of the method and at the end of
the handler's statement.
`ConnectionPool`: "reading" is the await on the body of `create_post`, "waiting" the one on
the pool, "querying" the one on the database.
`driver` says which of the two programs runs; they differ in what becomes of an error
(`Failure`: 500, or the panic of an `unwrap`). `statement` is what the database makes of a
statement whether or not anybody waits for it any more.
`TrackMetrics`: "running" is the await in `next.run` (92), the only place where a request
can be dropped; "counted" lies between the updates at 97 and 98, where another thread
may render. A rendering reads the counters and then the histograms.
`TokenLife`: `now` has a finer resolution than the seconds of `exp`; `keys` is the
`LazyLock`, whose initialiser panics without `JWT_SECRET`, once and for all. A restart may
bring another secret and forgets nothing else, since nothing else is kept.

### How the programs on the wire correspond to their code

`Tunnel`: "answered" until `upgrade::on` returns (74), "connecting" until
`TcpStream::connect` does (97), "open" while `copy_bidirectional` (101) runs. `buffer` is what
the copy holds in each direction, `closing` who has shut down his writing, `eof` who has
been told. Bytes sent before "open" count like the others: they wait in the client's
connection.
`Relay`: `leg` is the body that is on its way. The logger collects each (`CollectRequest`,
`CollectResponse`, or `CollectFails` and 502); the other two send the head
(`ForwardHead`) and then each chunk. The proxy's only route is written "/*", which the
router of axum 0.8 takes literally, as does the backend's: what comes back is the
backend's 404, a 404 of its own, or 400 while the backend does not listen.
`Acceptor`: before the loop (46-68) the program reads `certs/key.pem` and `certs/cert.pem`
under its own directory (25-32), where they are not (they are in `src/certs`), and gives them
in this order to `Identity::from_pkcs8` (79), which takes the certificate first. Every error is
unwrapped, so as committed it panics in `StartUp`. `certs` is what it finds: only with the
files moved and exchanged ("exchanged"), or in `http-proxy`, whose loop is the same without
files and handshake ("not needed"), does it get to the loop. The loop takes a queued
connection while a descriptor is free; each has a task in which the handshake comes first. If
`accept()` fails, because no descriptor is free or the connection was aborted in the queue,
its `unwrap` panics and ends everything (`AcceptFails`).

## Runs

| run | instance | question |
|---|---|---|
| `ChatSafety` | 2 sessions, the name `a` or "", 1 text, capacity 2 | do names, departures, counts, delivery and the end of the tasks stay consistent in every interleaving? |
| `ChatRefinement` | 2 sessions, 2 names or "", capacity 1 | is the server a room with exclusive names and private queues? |
| `ChatLiveness` | 2 sessions, 1 name or "", capacity 1 | does a session always come to its end? |
| `ChatRefusal` | as `ChatSafety`, no texts | finding: a refusal although the name was free |
| `ChatLeft` | as `ChatSafety` | finding: a text after its author's departure |
| `KeyValue` | 2 requests, 2 keys of which one is spelled `keys`, 2 values, 1 permit | are permits accounted for, is the server an atomic dictionary, and does every full endpoint drain? |
| `OAuth` | one browser with 4 requests | is a late callback with a spent token refused, a refusal always somebody's doing, a logout final, and nobody logged in unverified? |
| `UserCollection` | 3 documents, 3 names (one blank), 2 addresses, 2 starts | what holds once the indexes exist, whatever ran before and between restarts? |
| `UserIndexes` | the same | finding: the indexes are never created |
| `CountStream` | numbers -3..2, 2 messages in the sink, 4 frames | what do the cancellations of `select!` do to the numbers? |
| `Shared` | 4 creations with 3 identifiers; 3 requests to the repository, 2 ids, 2 names; 3 queries on 1 connection; 3 slow requests and 2 scrapes; 2 secrets, 2 tokens of 2 seconds, 2 ticks to the second, 8 ticks | do the programs with one shared state keep it consistent, and does whoever waits for a connection stop waiting? |
| `Wires` | 3 bytes each way; 3 chunks a body; 4 peers with 3 descriptors; 2 connections with 2 tokens; channel of 3, samples numbered modulo 7 | are bytes, bodies and samples passed on whole and in order, is a connection accepted whatever handshakes are unfinished, and do the server and the producer come to their end when asked? |

**Why the bounds are enough.** The properties of the chat relate a session to at most
one other, for each name by itself; two sessions that may offer the same name make
the contested claim, the hand-over of a name and the lost lock happen. Each session
sends at least three messages, so a capacity of 1 or 2 makes receivers lag by any
amount. One text suffices for the relay that races an abort. What is proved (below)
is proved without these bounds. In the key-value store one permit makes an endpoint
full with one request, and the second is refused, waits or acts between the first one's
steps; every safety property there is also proved, for any number. Four requests of a browser
are two logins side by side, or a login, a use of it and a logout. Three documents allow
a clash on either index and a bystander; two starts, a restart before and after the
task. In
`CountStream` the numbers wrap after six steps (`MaxCount` stands for `i32::MAX`), the
sink's two places hold a number twice, and four frames interrupt each await.

In `Shared`, four creations go past the third identifier, so the counter wraps in the
run as it may in the code, and `UsersAreKept` speaks of the time before; two requests hold
or wait for the repository while the third comes; one connection is exhausted by one
query, and two others wait, time out or are dropped; three slow requests stand before,
between and after the two updates while a scrape is rendered; eight ticks are four
seconds, more than the life of a token of two, at either half of a second, and there is
time for a restart. In `Wires`, of three bytes one is read, one is in the buffer and one
is not sent yet; likewise the chunks; three silent peers take the descriptors and a
fourth is queued, or one is silent or aborts and another is taken. Requests on a connection are not counted, so two connections already
interleave a shutdown with any number of other requests. The samples are numbered
modulo 7, which tells apart every backlog the channel allows, so nothing bounds the
length of that run.

**Fairness.** tokio polls every task that can make progress and its timers fire:
weak fairness of a handler, of each of its tasks and of the server's own steps for a
request. In the chat nothing is assumed of clients: they need neither send nor read.
In the key-value store nothing is assumed of them either; the timeout is the
server's. In the streams the client reads (otherwise nothing need arrive), but may
leave at any moment. In `GracefulShutdown` the client reads the answer it waits for or
closes its connection: axum waits for it without limit. `ShutdownCompletes` has one
assumption more, as its antecedent (`HeadsAreFinished`): a client that has sent a part of its
first request sends the rest or closes. Without it the property is false, since `axum::serve`
sets no time limit for the head of a request. In `Tunnel` both sides read and
an attempt to connect ends, as the kernel's does; they need not write or finish. In
`ConnectionPool` the time-out of the pool fires, but the database need never answer. In
`Acceptor` the loop is polled, and peers owe nothing, not even their handshake; the start
is not assumed to succeed, nor to be made. The
fairness of `EventStream` in `MCWires` applies when that program is the one that runs.

## What the checks show

All stated properties hold but three, each the subject of a run of its own.

- **`ChatRefusal`** (`main.rs:130`, `main.rs:80`). The empty string is inserted into
  `users` like any other name, and then taken for the sign of a refusal: the client is
  told "Username already taken" though it was free, and "" stays in the set until some
  session without a name departs, counted in "N users in chat". For this reason
  `UsersAreHeld` exempts "" and `CountIsTrue` adds it.
- **`ChatLeft`** (`main.rs:113`, `main.rs:119`). `abort()` does not wait. A receive task
  on another thread that has read a text goes on to broadcast it after the handler has
  broadcast "a left the chat".
- **`UserIndexes`** (`main.rs:61`, `main.rs:219` of `mongodb`). The task that creates the
  unique indexes runs beside the server. Two equal users inserted before it make
  `create_indexes` fail; its `unwrap` ends the task and nothing else, and the server goes
  on without either index, at this start and at every later one while the two are there.

Four more things came to light of which the repository promises nothing, so that no run
contradicts them.

- `oauth`, 198 and 207: the session is looked up and destroyed in two awaits. Two callbacks
  with one cookie and one `state` that both look it up before either destroys it are both let
  through, and what becomes of the second is GitHub's decision, who may take a `code` once
  only; in the model it may log in. `LateCallbacksAreRefused` says what the code does achieve.
- `deep-axum`, 84: one client that has sent half of its first request and stays holds up the
  shutdown for ever.
- `low-level-native-tls`, 25-32 and 79: as committed, the program panics at its start.
- `low-level-native-tls`, 46: a connection that is aborted while it is queued may end the
  process, as running out of descriptors does. `QueuedAreAccepted` names both cases.

## What is proved

Eight modules hold proofs, each for any value of the constants its modules' assumptions
allow. Every safety property of a passing run is the subject of a theorem. Type
invariants are proved and therefore in no run.

`ChatProofs` proves the safety properties of `ChatSafety`, and the refinement of
`ChatRefinement`, for any set of connections, any finite set of names, any capacity and any
number of texts. The assumptions are those of the modules: `ConstantsAssumption` (names are
finitely many, "" is not among `Names`, `Nobody` is no connection) and
`CapacityAssumption` (at least 1).

| theorem | property | inductive invariant |
|---|---|---|
| `TypeCorrect` | `TypeOK` | `TypeInv`: also `HeldIsReceived`, for a send task delivers the message before its cursor |
| `UsersHeld`, `NamesUnique` | `UsersAreHeld`, `NamesAreUnique` | `NameInv`: both together with `UnnamedHasNoName`. A departure removes one name from the set; that this leaves the names of the others needs uniqueness, and uniqueness at a claim needs that the set has all names |
| `NoGapsInDelivery`, `OwnJoinSeen` | `NoGaps`, `SeesOwnJoin` | `TasksAreSpawned` and `DeliveryInv`: `NoGaps` and `JoinIsInReach`, which follows the joined message from the log to what was delivered |
| `JoinsAlternate` | `JoinsAndLeavesAlternate` | `PresenceInv`: that the last movement of a name tells whether a session has announced it; with `NameInv`, at most one has |
| `CountsAreTrue` | `CountIsTrue` | `CountingInv`: while a handler holds the lock, `usersLeft` is the size of `users`; with `UsersAreHeld`, that of the holders |
| `TornDown` | `SessionsAreTornDown` | itself, with `TypeInv`: who holds the lock is read off `phase`, since only the removal of a name takes it across a step; the two branches of `select!` abort the task that did not end |
| `TextsFollow` | `TextsFollowJoins` | `SpeakersHaveJoined`: whoever has a receive task is announced in the log. The text of a task that outlives its handler is covered, as a log only grows |
| `RoomImplemented` | `ImplementsRoom` | `TypeInv`, `NameInv`, `TasksAreSpawned`. A session's queue is the piece of the log after what it was written: a send makes it longer by one (`SuffixGrows`, `RoomPosts`), a delivery takes its head (`RoomDelivers`), the end of the send task gives it up (`RoomHangsUp`). That a claimed name is nobody's is `UsersAreHeld` |

`KeyValueProofs` proves `TypeOK`, `PermitsAreAccounted`, `ListedKeysAreReachable` and the
refinement `ImplementsDictionary` for any finite set of requests, any keys and values and
any limit (`KVAssumption`). The invariant `StoreInv` adds `RequestInv`: a request has its
head once it has arrived, no status before it is answered, and an endpoint once it is
admitted. The first is needed to know the operation of a call, the second to know that
a call is pending, the third to know whose permit is given back. The refinement then has
three kinds of steps: a refusal (`RefuseStep`), an operation (`ApplyStep`) and a stutter
(`SilentStep`); `Arrive` invokes the operation.

`OAuthProofs` proves `TypeOK`, `LateCallbacksAreRefused`, `LogoutIsFinal`, `LoginsAreVerified`,
`OnlyLogoutEndsASession` and `RefusalsAreDisturbances` for any finite set of requests of a
browser. The invariant `LoginInv` adds `IssuedByOne` and `IssuersAreCounted`, from which a
fresh identifier is always left and differs from every cookie in use, `LoadedIsCsrf`, from
which a callback that resumes never destroys a user session, `LogoutHasCookie`, and
`TokensAreSpent`: the session of a callback that was let through is gone, and as its
identifier is not drawn again, whoever loads it later finds nothing. Actions
are grouped by what they do to the store: `QuietStep`, `SendStep`, `DestroyStep`,
`StoreStep`. `RefusalsAreDisturbances` needs the history as well (`HistoryInv`): the cookie
in the jar came with an answer, what a callback brings was issued to somebody, and a
session that is gone was destroyed by a request that is on record.

`UserCollectionProofs` proves `TypeOK`, `UniqueForGood` and `NamesIdentify` from `IndexInv`:
the indexes never exist over a collection that contradicts them. With them a name has
one document, so that deleting or renaming it leaves nobody behind.

`CountStreamProofs` proves the safety properties of `CountStream` for any `MaxCount`, room
and number of frames. `PhaseInv` says when the present count has been accepted by the
sink before, and `InterruptInv` that then a frame has come since, which is what makes
repetitions countable.

`SharedProofs`:

| theorem | property | argument |
|---|---|---|
| `UsersKept` | `UsersAreKept` | until the counter wraps, identifiers drawn are below it and differ (`RegistryInv`); the absence of holes is a fact about which requests have drawn |
| `MapIsNeverContended` | `[]` of its own formula | whoever is about to take the inner lock holds the outer one, and the inner one is held only below it (`RepoInv`) |
| `RepoImplementsDictionary` | `RepoIsDictionary` | the call takes effect where the inner lock is taken |
| `ConnectionsAccounted` | `ConnectionsAreAccounted` | `PoolInv`; each step moves at most one request in or out of the borrowers |
| `FiguresTrue` | `FiguresAreTheAnswers` | `MetricsInv`: while a scrape is rendered, its count is at most the observations so far and the requests that were between the updates |
| `TokensLive`, `TokenTypeCorrect` | `TokensLiveTenSeconds`, `TokenTypeOK` | `TokenInv`, and what rounding down to seconds does to a difference (`DivBounds`); that it is monotone (`SecondsMonotone`) bounds the expiries that are ever issued |
| `EachIsItself` | | a step of the composition is a step of one program and leaves the variables of the others alone |
| `SharedTypeCorrect`, `SharedSafe` | all safety properties of the run `Shared` | `EachIsItself` and the theorems above: what they say of each program holds of the run's own `Spec` |

`WiresProofs`:

| theorem | property | argument |
|---|---|---|
| `TunnelTypeCorrect`, `TunnelIsTwoPipes` | `DirectionsArePipes` | `TunnelInv`: before the tunnel is open nothing has moved, and while it is open only a direction that was read to its end has been ended |
| `TunnelEndsAreHonest` | `[]EndsAreHonest` | part of `TunnelInv`: while the tunnel is open, an end follows all bytes even if a fault was seen in the other direction |
| `EventsInOrder` | `NoSampleIsSkipped` | `EventInv`: from what is shown through the channel to the producer's count, each number follows the one before it; so whatever is yielded is the sample after the one before, also where it would look the same as that |
| `RelaysArePipes`, `LoggedAnswers` | `BodiesArePipes`, `LoggedAnswersAreWhole` | `RelayInv`: where each body stands for each `leg`, and that a collected body has passed whole or not at all |
| `ShutdownTypeCorrect`, `CallersGreeted` | `CallersAreGreeted` | `ServerInv`; what `index` can answer to a header (`AnswersOfIndex`) |
| `EachIsItself`, `WiresSafe` | all safety properties of the run `Wires` | as in `SharedProofs` |

`PromiseProofs` says what it is worth to implement one of the abstract specifications, for
any values of their constants:

| theorem | of | what it says |
|---|---|---|
| `PipesAreHonest` | `Pipe` | nobody is given more than was written; an end means that all of it was given, unless there was a fault that looks like an end; a reported fault happened |
| `RoomKeepsOrder` | `ChatRoom` | `NamesAreExclusive` in both directions, and `ListenersAgree`: of what two listeners are told (delivered or in their queues), one is the end of the other, so that they are told the same messages in the same order from when the later one began to listen |
| `DictionaryAnswersOnce` | `Dictionary` | an answer is final, and the dictionary changes only in the step that answers the one call that changes it |

With the refinement theorems these carry over, under the refinement mappings, to the
tunnel, the relays, the chat, the key-value store and the repository.

Only model-checked is what needs fairness (`SessionsEnd`, `FullEndpointsDrain`,
`NumbersGoOn`, `WaitersEnd`, `TunnelsServe`, `QueuedAreAccepted`, `ShutdownCompletes`,
`ProducerEnds`, `SamplesArrive`), which is out of the prover's reach. In the other
direction, `TextsFollowJoins`, the types, and what `PromiseProofs` says are proved and
not part of a run.

## Not modelled

Logging, HTML, tracing, compression, headers and time stamps of the modelled servers, and
their static files. Of hazards, two have no property: sessions of `oauth` that nothing ever
removes, of whose number the code promises nothing, and `updatedAt` in `mongodb`, a field
nobody reads.

- `multipart`: one handler logs the bounds of the pieces of a field that it holds in
  memory. It keeps no state and answers every form alike.
- `custom-deserializer`: a pure conversion of one parameter, by the standard library's
  parser except for the empty string; its own test exercises both.
- `anyhow-error-response`: a handler that always fails, and the conversion of its error.
- `auto-reload`: one static answer; the reloading is done by development tools.
- `askama-templates`, `minijinja-templates`: templates loaded at the start and rendered;
  formatting only.
- `TestService` of `deep-axum` (`services/mod.rs`) is used by no program.

## Plan

What is left is depth rather than breadth: a second browser in `OAuth`, so that a
`state` meets another browser's cookie, and several connections of `http-proxy` in
one run with the `Acceptor` that admits them. Among proofs, the safety cores of the
liveness properties: that in every state that is not final some action of the program
itself is enabled can be stated without `ENABLED`, by the guards.
