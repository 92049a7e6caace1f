-------------------------------- MODULE Chat --------------------------------
(***************************************************************************)
(* examples/chat: the websocket chat server.  A session is one websocket   *)
(* connection; its handler `websocket` claims a name in the mutex-guarded  *)
(* set `users`, subscribes to the broadcast channel, spawns a send task    *)
(* (channel to socket) and a receive task (socket to channel), waits for   *)
(* either to end, aborts the other, announces the departure and gives the  *)
(* name back.  Handlers and tasks run on several worker threads: a step    *)
(* here is what one of them does between two points at which another       *)
(* thread can be seen to act.                                              *)
(***************************************************************************)
EXTENDS BroadcastChannel, FiniteSets

CONSTANTS Conns,      \* the websocket connections ever made
          Names,      \* the user names clients offer, other than ""
          Empty,      \* the name ""
          Nobody,     \* no connection: the mutex is free
          MaxTexts    \* bound: text frames sent in all, names excluded

ASSUME ConstantsAssumption == /\ IsFiniteSet(Names)
                              /\ Empty \notin Names
                              /\ Nobody \notin Conns
                              /\ MaxTexts \in Nat

VARIABLES
  users,      \* AppState.users
  guard,      \* the connection whose handler holds the lock on users
  log,        \* everything sent on AppState.tx
  phase,      \* where the handler is
  username,   \* the handler's local of that name
  usersLeft,  \* users.len() as the departing handler read it
  cursor,     \* the position of the handler's receiver rx
  sendTask,   \* the spawned send task; "holding": a message received, not yet written
  delivered,  \* what it has written to the socket
  recvTask,   \* the spawned receive task; "holding": a text read, not yet relayed
  aborted,    \* the task the handler has called abort() on
  texts,      \* how many text frames have been read after the names
  gone        \* the clients whose socket is closed or broken

shared == <<users, guard, log>>
handlerVars == <<phase, username, usersLeft>>
sending == <<cursor, sendTask, delivered>>
receiving == <<recvTask, texts>>
signals == <<aborted, gone>>
vars == <<shared, handlerVars, sending, receiving, signals>>

AnyName == Names \cup {Empty}
Notices == [kind : {"joined", "left", "text"}, name : AnyName]
Messages == Notices \cup [kind : {"count"}, size : 0..Cardinality(AnyName)]

Joined(n) == [kind |-> "joined", name |-> n]
Left(n) == [kind |-> "left", name |-> n]
Text(n) == [kind |-> "text", name |-> n]
Count(k) == [kind |-> "count", size |-> k]

Phases == {"idle", "naming", "named", "subscribed", "chatting",
           "leaving", "left", "counting", "refused", "done"}
TaskStates == {"none", "recv", "holding", "ended"}

Init == /\ users = {}
        /\ guard = Nobody
        /\ log = <<>>
        /\ phase = [c \in Conns |-> "idle"]
        /\ username = [c \in Conns |-> Empty]
        /\ usersLeft = [c \in Conns |-> 0]
        /\ cursor = [c \in Conns |-> 1]
        /\ sendTask = [c \in Conns |-> "none"]
        /\ delivered = [c \in Conns |-> <<>>]
        /\ recvTask = [c \in Conns |-> "none"]
        /\ aborted = [c \in Conns |-> "none"]
        /\ texts = 0
        /\ gone = {}

Enter(c, from, to) == phase[c] = from /\ phase' = [phase EXCEPT ![c] = to]

-----------------------------------------------------------------------------
(* The handler up to the spawning of its tasks.                            *)

\* websocket_handler: the upgrade succeeds and `websocket` starts.
Connect(c) == /\ Enter(c, "idle", "naming")
              /\ UNCHANGED <<shared, username, usersLeft, sending, receiving, signals>>

\* Mutant: insert() without contains().
CheckUsernameUnchecked(c, n) == /\ guard = Nobody
                                /\ users' = users \cup {n}
                                /\ username' = [username EXCEPT ![c] = n]

\* check_username: the lock is taken, used and released without an await.
CheckUsername(c, n) ==
  /\ guard = Nobody
  /\ IF n \in users
     THEN UNCHANGED <<users, username>>
     ELSE /\ users' = users \cup {n}
          /\ username' = [username EXCEPT ![c] = n]

\* The first text frame carries the name; without one in `username` after the
\* check the client is told "Username already taken" and the handler returns.
\* Frames of other types before it are skipped, which changes nothing.
ReceiveName(c, n) ==
  /\ CheckUsername(c, n)
  /\ Enter(c, "naming", IF username'[c] # Empty THEN "named" ELSE "refused")
  /\ UNCHANGED <<guard, log, usersLeft, sending, receiving, signals>>

\* The stream ends before a name came: the loop ends, the handler goes on.
StreamEnds(c) == /\ c \in gone
                 /\ Enter(c, "naming", "named")
                 /\ UNCHANGED <<shared, username, usersLeft, sending, receiving, signals>>

Subscribe(c) ==
  /\ Enter(c, "named", "subscribed")
  /\ cursor' = [cursor EXCEPT ![c] = SubscribeAt(log)]
  /\ UNCHANGED <<shared, username, usersLeft, sendTask, delivered, receiving, signals>>

\* Mutant: the joined message is sent before the subscription.
AnnounceThenSubscribe(c) ==
  /\ Enter(c, "subscribed", "chatting")
  /\ log' = Sent(log, Joined(username[c]))
  /\ cursor' = [cursor EXCEPT ![c] = SubscribeAt(log')]
  /\ sendTask' = [sendTask EXCEPT ![c] = "recv"]
  /\ recvTask' = [recvTask EXCEPT ![c] = "recv"]
  /\ UNCHANGED <<users, guard, username, usersLeft, delivered, texts, signals>>

\* The joined message, then both tasks are spawned.
AnnounceJoin(c) ==
  /\ Enter(c, "subscribed", "chatting")
  /\ log' = Sent(log, Joined(username[c]))
  /\ sendTask' = [sendTask EXCEPT ![c] = "recv"]
  /\ recvTask' = [recvTask EXCEPT ![c] = "recv"]
  /\ UNCHANGED <<users, guard, username, usersLeft, cursor, delivered, texts, signals>>

-----------------------------------------------------------------------------
(* The send task.  It may be cancelled wherever it awaits, that is both     *)
(* while it waits for a message and while it writes one.                   *)

SendTaskStep(c, from, to) == /\ sendTask[c] \in from
                             /\ sendTask' = [sendTask EXCEPT ![c] = to]
                             /\ UNCHANGED <<shared, handlerVars, receiving, signals>>

TaskReceive(c) == /\ Ready(log, cursor[c])
                  /\ cursor' = [cursor EXCEPT ![c] = @ + 1]
                  /\ SendTaskStep(c, {"recv"}, "holding")
                  /\ UNCHANGED delivered

\* The message it holds is the one before its cursor.
TaskDeliver(c) == /\ SendTaskStep(c, {"holding"}, "recv")
                  /\ delivered' = [delivered EXCEPT ![c] = Append(@, log[cursor[c] - 1])]
                  /\ UNCHANGED cursor

\* Mutant: the loop goes on after Lagged, with the oldest message kept.
TaskResumes(c) == /\ Lagged(log, cursor[c])
                  /\ cursor' = [cursor EXCEPT ![c] = Len(log) - Capacity + 1]
                  /\ SendTaskStep(c, {"recv"}, "recv")
                  /\ UNCHANGED delivered

\* recv() returns Lagged, which is not Ok: the loop ends.
TaskLagged(c) == /\ Lagged(log, cursor[c])
                 /\ SendTaskStep(c, {"recv"}, "ended")
                 /\ UNCHANGED <<cursor, delivered>>

\* The socket refuses the write: break.
TaskFails(c) == /\ c \in gone
                /\ SendTaskStep(c, {"holding"}, "ended")
                /\ UNCHANGED <<cursor, delivered>>

SendTaskCancelled(c) == /\ aborted[c] = "send"
                        /\ SendTaskStep(c, {"recv", "holding"}, "ended")
                        /\ UNCHANGED <<cursor, delivered>>

-----------------------------------------------------------------------------
(* The receive task.  Its only await is on the socket: holding a text it   *)
(* goes on to relay it even if it has been aborted meanwhile.              *)

RecvTaskStep(c, from, to) == /\ recvTask[c] = from
                             /\ recvTask' = [recvTask EXCEPT ![c] = to]
                             /\ UNCHANGED <<users, guard, handlerVars, sending, signals>>

ReadText(c) == /\ texts < MaxTexts
               /\ texts' = texts + 1
               /\ RecvTaskStep(c, "recv", "holding")
               /\ UNCHANGED log

RelayText(c) == /\ RecvTaskStep(c, "holding", "recv")
                /\ log' = Sent(log, Text(username[c]))
                /\ UNCHANGED texts

RecvTaskEnds(c) == RecvTaskStep(c, "recv", "ended") /\ UNCHANGED <<log, texts>>

\* A frame that is not a text frame (ping, binary, close) ends the loop ...
ReadOther(c) == c \notin gone /\ RecvTaskEnds(c)

\* ... and so does the end of the stream or an error on it.
ReadEnd(c) == c \in gone /\ RecvTaskEnds(c)

RecvTaskCancelled(c) == aborted[c] = "recv" /\ RecvTaskEnds(c)

-----------------------------------------------------------------------------
(* The handler from select! to its end.                                    *)

\* Mutant: the other task is not aborted.
SelectOnly(c, task, other) ==
  /\ task[c] = "ended"
  /\ Enter(c, "chatting", "leaving")
  /\ UNCHANGED <<shared, username, usersLeft, sending, receiving, signals>>

\* Mutant: the name is freed before the departure is announced.
SelectAndFree(c, task, other) ==
  /\ task[c] = "ended"
  /\ guard = Nobody
  /\ users' = users \ {username[c]}
  /\ Enter(c, "chatting", "leaving")
  /\ aborted' = [aborted EXCEPT ![c] = other]
  /\ UNCHANGED <<guard, log, username, usersLeft, sending, receiving, gone>>

\* One branch of select!: a task has ended, the other one is aborted.
Select(c, task, other) ==
  /\ task[c] = "ended"
  /\ Enter(c, "chatting", "leaving")
  /\ aborted' = [aborted EXCEPT ![c] = other]
  /\ UNCHANGED <<shared, username, usersLeft, sending, receiving, gone>>

SendTaskDone(c) == Select(c, sendTask, "recv")
RecvTaskDone(c) == Select(c, recvTask, "send")

AnnounceLeft(c) ==
  /\ Enter(c, "leaving", "left")
  /\ log' = Sent(log, Left(username[c]))
  /\ UNCHANGED <<users, guard, username, usersLeft, sending, receiving, signals>>

\* Mutant: the lock is released before the count is sent.
RemoveUserUnlocked(c) ==
  /\ guard = Nobody
  /\ Enter(c, "left", "counting")
  /\ users' = users \ {username[c]}
  /\ usersLeft' = [usersLeft EXCEPT ![c] = Cardinality(users')]
  /\ UNCHANGED <<guard, log, username, sending, receiving, signals>>

\* Mutant: the name is not given back.
RemoveNobody(c) ==
  /\ guard = Nobody
  /\ guard' = c
  /\ Enter(c, "left", "counting")
  /\ usersLeft' = [usersLeft EXCEPT ![c] = Cardinality(users)]
  /\ UNCHANGED <<users, log, username, sending, receiving, signals>>

\* users.lock(), users.remove(&name) and users.len(); the guard stays alive
\* until the handler returns, after the last send.
RemoveUser(c) ==
  /\ guard = Nobody
  /\ guard' = c
  /\ Enter(c, "left", "counting")
  /\ users' = users \ {username[c]}
  /\ usersLeft' = [usersLeft EXCEPT ![c] = Cardinality(users')]
  /\ UNCHANGED <<log, username, sending, receiving, signals>>

AnnounceCount(c) ==
  /\ Enter(c, "counting", "done")
  /\ log' = Sent(log, Count(usersLeft[c]))
  /\ guard' = Nobody
  /\ UNCHANGED <<users, username, usersLeft, sending, receiving, signals>>

-----------------------------------------------------------------------------
\* The client closes its socket, or the network does.
ClientGone(c) == /\ phase[c] # "idle"
                 /\ c \notin gone
                 /\ gone' = gone \cup {c}
                 /\ UNCHANGED <<shared, handlerVars, sending, receiving, aborted>>

\* Every connection has been served and its tasks are over.
Finished == /\ \A c \in Conns : /\ phase[c] \in {"refused", "done"}
                                /\ {sendTask[c], recvTask[c]} \subseteq {"none", "ended"}
                                /\ c \in gone
            /\ UNCHANGED vars

Handler(c) == \/ StreamEnds(c) \/ Subscribe(c) \/ AnnounceJoin(c)
              \/ SendTaskDone(c) \/ RecvTaskDone(c)
              \/ AnnounceLeft(c) \/ RemoveUser(c) \/ AnnounceCount(c)
SendTask(c) == \/ TaskReceive(c) \/ TaskLagged(c) \/ TaskFails(c)
               \/ SendTaskCancelled(c)
RecvTask(c) == RelayText(c) \/ ReadEnd(c) \/ RecvTaskCancelled(c)
Client(c) == \/ Connect(c) \/ ReadText(c) \/ ReadOther(c) \/ TaskDeliver(c)
             \/ ClientGone(c) \/ \E n \in AnyName : ReceiveName(c, n)

Next == \/ \E c \in Conns : Handler(c) \/ SendTask(c) \/ RecvTask(c) \/ Client(c)
        \/ Finished

Spec == Init /\ [][Next]_vars

(***************************************************************************)
(* tokio polls every task that can go on, so what the handler and its      *)
(* tasks can do by themselves they eventually do.  What waits for the      *)
(* client (its frames, its reading of ours) is under no obligation.        *)
(***************************************************************************)
Fairness == \A c \in Conns : /\ WF_vars(Handler(c))
                             /\ WF_vars(SendTask(c))
                             /\ WF_vars(RecvTask(c))
FairSpec == Spec /\ Fairness
=============================================================================
