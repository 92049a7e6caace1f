----------------------------- MODULE CountStream -----------------------------
(***************************************************************************)
(* examples/websockets: one connection, to which the handler sends the     *)
(* numbers 0, 1, 2, ..., one every 300 ms, while it listens to the client. *)
(* select! races the next frame against send_count, and the loser's future *)
(* is dropped wherever it stands: before its message was accepted by the   *)
(* sink, after (the sink keeps the message, `count` is not advanced), or   *)
(* in the sleep.                                                           *)
(***************************************************************************)
EXTENDS Integers, Sequences

CONSTANTS MaxCount,    \* i32::MAX
          Room,        \* messages the sink holds: its slot and the write buffer
          NoNumber,    \* no number shown yet
          MaxFrames    \* bound: frames the client sends

ASSUME CountStreamAssumption == /\ MaxCount \in Nat
                                /\ Room \in Nat \ {0}
                                /\ NoNumber \notin Int
                                /\ MaxFrames \in Nat

VARIABLES
  phase,      \* "hello", "select", "feeding", "flushing", "sleeping" or "ended"
  count,      \* the handler's count
  queue,      \* what the sink has accepted and the socket has not
  shown,      \* the last number the socket has taken, or NoNumber
  repeats,    \* how often that was the number before it again
  received    \* frames received

vars == <<phase, count, queue, shown, repeats, received>>

MinCount == -MaxCount - 1
Counts == MinCount..MaxCount
Live == {"select", "feeding", "flushing", "sleeping"}

\* count += 1 on an i32: what a release build does at the end of the range.
Successor(n) == IF n = MaxCount THEN MinCount ELSE n + 1

Init == /\ phase = "hello"
        /\ count = 0
        /\ queue = <<>>
        /\ shown = NoNumber
        /\ repeats = 0
        /\ received = 0

\* ws.send("Hi from server"): the client gets it, or the handler returns.
Greet == /\ phase = "hello"
         /\ phase' \in {"select", "ended"}
         /\ UNCHANGED <<count, queue, shown, repeats, received>>

-----------------------------------------------------------------------------
(* The send_count branch.                                                  *)

Poll == /\ phase = "select"
        /\ phase' = "feeding"
        /\ UNCHANGED <<count, queue, shown, repeats, received>>

\* Mutant: the number is advanced before it is sent.
FeedAdvancing == /\ phase = "feeding"
                 /\ Len(queue) < Room
                 /\ queue' = Append(queue, count)
                 /\ count' = Successor(count)
                 /\ phase' = "flushing"
                 /\ UNCHANGED <<shown, repeats, received>>

Feed == /\ phase = "feeding"
        /\ Len(queue) < Room
        /\ queue' = Append(queue, count)
        /\ phase' = "flushing"
        /\ UNCHANGED <<count, shown, repeats, received>>

\* Mutant: the sink is flushed only when it is full.
TakeFromFull == /\ phase \in Live
                /\ Len(queue) = Room
                /\ queue' = Tail(queue)
                /\ shown' = Head(queue)
                /\ repeats' = IF Head(queue) = shown THEN repeats + 1 ELSE repeats
                /\ UNCHANGED <<phase, count, received>>

\* The socket takes the oldest message, whenever the connection is polled.
Take == /\ phase \in Live
        /\ queue # <<>>
        /\ queue' = Tail(queue)
        /\ shown' = Head(queue)
        /\ repeats' = IF Head(queue) = shown THEN repeats + 1 ELSE repeats
        /\ UNCHANGED <<phase, count, received>>

\* Mutant: the count is not advanced.
SentSame == /\ phase = "flushing"
            /\ queue = <<>>
            /\ phase' = "sleeping"
            /\ UNCHANGED <<count, queue, shown, repeats, received>>

\* The flush is over: the number is advanced, or a debug build panics.
Sent == /\ phase = "flushing"
        /\ queue = <<>>
        /\ \/ count' = Successor(count) /\ phase' = "sleeping"
           \/ count = MaxCount /\ phase' = "ended" /\ UNCHANGED count
        /\ UNCHANGED <<queue, shown, repeats, received>>

SleepEnds == /\ phase = "sleeping"
             /\ phase' = "select"
             /\ UNCHANGED <<count, queue, shown, repeats, received>>

SendFails == /\ phase \in {"feeding", "flushing"}
             /\ phase' = "ended"
             /\ UNCHANGED <<count, queue, shown, repeats, received>>

-----------------------------------------------------------------------------
(* The receiver branch: it wins, and the send_count future is dropped.     *)

\* Mutant: a frame drops what is queued as well.
ReceiveDropping == /\ phase \in Live
                   /\ received < MaxFrames
                   /\ received' = received + 1
                   /\ phase' = "select"
                   /\ queue' = <<>>
                   /\ count' = IF queue = <<>> THEN count ELSE Successor(count)
                   /\ UNCHANGED <<shown, repeats>>

Receive == /\ phase \in Live
           /\ received < MaxFrames
           /\ received' = received + 1
           /\ phase' = "select"
           /\ UNCHANGED <<count, queue, shown, repeats>>

\* A close frame, an error or the end of the stream.
Close == /\ phase \in Live
         /\ phase' = "ended"
         /\ UNCHANGED <<count, queue, shown, repeats, received>>

Ended == phase = "ended" /\ UNCHANGED vars

Handler == Greet \/ Poll \/ Feed \/ Take \/ Sent \/ SleepEnds
Next == Handler \/ SendFails \/ Receive \/ Close \/ Ended

Spec == Init /\ [][Next]_vars

\* A client that reads: the socket takes what it is offered.
FairSpec == Spec /\ WF_vars(Handler)

-----------------------------------------------------------------------------
\* Every variable has its type (examples/websockets, main.rs 57-61).
TypeOK == /\ phase \in Live \cup {"hello", "ended"}
          /\ count \in Counts
          /\ queue \in Seq(Counts) /\ Len(queue) <= Room
          /\ shown \in Counts \cup {NoNumber}
          /\ repeats \in Nat
          /\ received \in 0..MaxFrames

\* No cancellation loses a number or lets one overtake another: what the client
\* is shown next is the number it saw last or its successor (main.rs 84-108).
NoNumberIsSkipped ==
  [][shown' # shown => IF shown = NoNumber THEN shown' = 0
                                           ELSE shown' = Successor(shown)]_shown

\* When `count` is advanced, everything before it has been shown, and nothing
\* but its present value is waiting: a message dropped with its future is never
\* taken for sent (main.rs 99-107).
CountFollowsShown ==
  /\ \A i \in DOMAIN queue : queue[i] = count
  /\ \/ shown = NoNumber /\ count = 0
     \/ shown # NoNumber /\ (count = shown \/ count = Successor(shown))

\* A number is repeated only because a frame interrupted its sending: there
\* are no more repetitions, shown or waiting, than frames (main.rs 62-84).
Waiting == Len(queue) - (IF queue # <<>> /\ shown # count THEN 1 ELSE 0)
RepeatsAreInterruptions == repeats + Waiting <= received

\* Once the client is silent, as the bound on frames makes it, the numbers go
\* on for as long as the connection does.
NumbersGoOn ==
  \A n \in Counts : count = n ~> count # n \/ phase = "ended"
=============================================================================
