--------------------------- MODULE ChatProperties ---------------------------
(***************************************************************************)
(* What the chat server of module Chat has to guarantee.                   *)
(***************************************************************************)
EXTENDS Chat

\* A session owns its name from the moment check_username has inserted it
\* until the handler removes it.
Named == {"named", "subscribed", "chatting", "leaving", "left"}
Holds(c) == phase[c] \in Named /\ username[c] # Empty
Holders == {c \in Conns : Holds(c)}

\* A session is subscribed while its receiver rx exists.
Writing(c) == sendTask[c] \in {"recv", "holding"}
Listening(c) == phase[c] = "subscribed" \/ Writing(c)

\* Every variable has its type; the cursors are positions of the log or the
\* one after it (the state of examples/chat, main.rs 20-24 and 60-125).
TypeOK ==
  /\ users \in SUBSET AnyName
  /\ guard \in Conns \cup {Nobody}
  /\ log \in Seq(Messages)
  /\ phase \in [Conns -> Phases]
  /\ username \in [Conns -> AnyName]
  /\ usersLeft \in [Conns -> 0..Cardinality(AnyName)]
  /\ cursor \in [Conns -> Nat \ {0}]
  /\ \A c \in Conns : cursor[c] <= Len(log) + 1
  /\ sendTask \in [Conns -> TaskStates]
  /\ delivered \in [Conns -> Seq(Messages)]
  /\ recvTask \in [Conns -> TaskStates]
  /\ aborted \in [Conns -> {"none", "send", "recv"}]
  /\ texts \in 0..MaxTexts
  /\ gone \in SUBSET Conns

\* The set `users` is exactly the names of the live sessions: a name is never
\* left behind by a session that ended by whatever path (lag, broken socket,
\* closed stream), nor taken from one that is still chatting.  "" is exempt:
\* see RefusalMeansTaken.
UsersAreHeld == users \ {Empty} = {username[c] : c \in Holders}

\* No two live sessions have the same name, however their checks, departures
\* and reconnections interleave.
NamesAreUnique ==
  \A c, d \in Holders : username[c] = username[d] => c = d

\* What a client has been written is a gap-free, in-order piece of what was
\* broadcast, ending where its receiver stands: a receiver that lags is cut
\* off, it never resumes after the messages it lost (main.rs 94-100).
Written(c) == IF sendTask[c] = "holding" THEN cursor[c] - 2 ELSE cursor[c] - 1
NoGaps ==
  \A c \in Conns : Writing(c) =>
    /\ Len(delivered[c]) <= Written(c)
    /\ \A i \in 1..Len(delivered[c]) :
         delivered[c][i] = log[Written(c) - Len(delivered[c]) + i]

\* A client that has been written everything broadcast so far has seen its own
\* joined message: the handler subscribes before it announces.
SeesOwnJoin ==
  \A c \in Conns : sendTask[c] = "recv" /\ cursor[c] > Len(log) =>
    \E i \in DOMAIN delivered[c] : delivered[c][i] = Joined(username[c])

\* For every name the joined and left messages alternate in the broadcast
\* order, starting with joined, whichever sessions held the name in turn: the
\* name is given back only after the departure is announced (main.rs 117-123).
Moves(n) == {i \in DOMAIN log : log[i] \in {Joined(n), Left(n)}}
LastMoveBefore(n, i, j) == i \in Moves(n) /\ i < j /\ \A k \in Moves(n) : k < j => k <= i
Alternates(n) ==
  \A j \in Moves(n) :
    IF log[j] = Joined(n)
    THEN \A i \in Moves(n) : LastMoveBefore(n, i, j) => log[i] = Left(n)
    ELSE \E i \in Moves(n) : LastMoveBefore(n, i, j) /\ log[i] = Joined(n)
JoinsAndLeavesAlternate == \A n \in Names : Alternates(n)

\* "N users in chat" is true when it is sent: N is the number of sessions that
\* hold a name at that moment (and one more once "" has got into the set), as
\* the lock is held from the removal to the broadcast, so that no claim or
\* departure comes in between (main.rs 122-124).
CountIsTrue ==
  [][\A c \in Conns : phase[c] = "counting" /\ phase'[c] = "done" =>
       log'[Len(log')] = Count(Cardinality(Holders) + Cardinality(users \cap {Empty}))]_vars

\* A session comes apart in order: once its handler is past select!, a task that
\* still runs is the one that was aborted, never both; nobody is aborted before;
\* and the lock is held exactly from the removal of a name to the broadcast of
\* the count, so that whoever waits for it waits for one send (main.rs 112-125).
Running(task, c) == task[c] \in {"recv", "holding"}
Departing == {"leaving", "left", "counting", "done"}
SessionsAreTornDown ==
  \A c \in Conns :
    /\ phase[c] \in Departing =>
         /\ (Running(sendTask, c) => aborted[c] = "send")
         /\ (Running(recvTask, c) => aborted[c] = "recv")
    /\ phase[c] \notin Departing => aborted[c] = "none"
    /\ guard = c <=> phase[c] = "counting"

\* Nobody is heard who has not been announced: before every text there is the
\* joined message of its name.  (That a left message may lie in between is what
\* LeftMeansLeft shows; main.rs 89-109.)
TextsFollowJoins ==
  \A j \in DOMAIN log : \A n \in AnyName :
    log[j] = Text(n) => \E i \in 1..j - 1 : log[i] = Joined(n)

\* When a client is gone, or one of its tasks has ended (for lagging behind, a
\* broken socket or an odd frame), the whole session ends: both tasks are over,
\* the name is free again and the lock released (main.rs 112-124).
SessionsEnd ==
  \A c \in Conns : (c \in gone \/ "ended" \in {sendTask[c], recvTask[c]})
                     ~> /\ phase[c] \in {"refused", "done"}
                        /\ {sendTask[c], recvTask[c]} \subseteq {"none", "ended"}
                        /\ guard # c

\* The server implements the room: private queues in one common order, and
\* exclusive names.
Room == INSTANCE ChatRoom WITH
  members <- {<<c, username[c]>> : c \in Holders},
  listening <- {c \in Conns : Listening(c)},
  queue <- [c \in Conns |-> IF ~Listening(c) THEN <<>>
                            ELSE SubSeq(log, Written(c) + 1, Len(log))],
  feed <- delivered

ImplementsRoom == Room!Spec

-----------------------------------------------------------------------------
(* The inductive strengthening of the safety invariants: what links the    *)
(* handler's position to its name, its receiver and the log.               *)

Unnamed == {"idle", "naming", "refused"}
UnnamedHasNoName == \A c \in Conns : phase[c] \in Unnamed => username[c] = Empty

\* The tasks exist only once the handler has announced the session.
TasksAreSpawned ==
  \A c \in Conns : phase[c] \in Unnamed \cup {"named", "subscribed"} =>
    sendTask[c] = "none" /\ recvTask[c] = "none" /\ delivered[c] = <<>>

\* Whoever has a receive task has been announced.
SpeakersHaveJoined ==
  \A c \in Conns : recvTask[c] # "none" =>
    \E i \in DOMAIN log : log[i] = Joined(username[c])

\* The message a send task holds is in the log, before its cursor.
HeldIsReceived == \A c \in Conns : sendTask[c] = "holding" => cursor[c] > 1

\* A session's own joined message is among what it has been or will be written.
JoinIsInReach ==
  \A c \in Conns : Writing(c) =>
    \E p \in DOMAIN log : /\ p > Written(c) - Len(delivered[c])
                          /\ log[p] = Joined(username[c])

\* The last movement of a name tells whether a session has announced it.
Present(n) == \E c \in Conns : phase[c] \in {"chatting", "leaving"} /\ username[c] = n
LastMove(n, i) == i \in Moves(n) /\ \A k \in Moves(n) : k <= i
TellsPresence(n) == IF Present(n)
                    THEN \E i \in Moves(n) : LastMove(n, i) /\ log[i] = Joined(n)
                    ELSE \A i \in Moves(n) : LastMove(n, i) => log[i] = Left(n)
LastMoveTellsPresence == \A n \in Names : TellsPresence(n)

-----------------------------------------------------------------------------
(* What the program says of itself and does not keep.                      *)

\* A client is told "Username already taken" only when its name was taken, so
\* a refusal leaves the set of users as it was.
RefusalMeansTaken ==
  [][\A c \in Conns : phase[c] = "naming" /\ phase'[c] = "refused"
       => users' = users]_vars

\* After "n left the chat" the room hears nothing of n until n joins again.
LeftMeansLeft ==
  \A i, j \in DOMAIN log : \A n \in Names :
    i < j /\ log[i] = Left(n) /\ log[j] = Text(n) =>
      \E k \in i..j : log[k] = Joined(n)
=============================================================================
