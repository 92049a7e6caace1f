------------------------------ MODULE ChatRoom ------------------------------
(***************************************************************************)
(* What examples/chat promises its users, without tasks, cursors or locks: *)
(* a name belongs to one session at a time, and every listening session    *)
(* has a queue of its own that receives everything posted while it         *)
(* listens, in the one order of the room, and is drained first in, first   *)
(* out.  A session may hang up, which loses its queue, but while it        *)
(* listens nothing is skipped, repeated or reordered.                      *)
(***************************************************************************)
EXTENDS Naturals, Sequences

CONSTANTS Conns,      \* the sessions
          Names,      \* the names a session can hold
          Messages    \* what can be posted

VARIABLES members,    \* the pairs <<session, name>> of the sessions with a name
          listening,  \* the sessions with a queue
          queue,      \* queue[c]: posted to c and not yet delivered
          feed        \* feed[c]: delivered to c, in order

vars == <<members, listening, queue, feed>>

Init == /\ members = {}
        /\ listening = {}
        /\ queue = [c \in Conns |-> <<>>]
        /\ feed = [c \in Conns |-> <<>>]

Enter(c, n) == /\ \A m \in members : m[1] # c /\ m[2] # n
               /\ members' = members \cup {<<c, n>>}
               /\ UNCHANGED <<listening, queue, feed>>

Listen(c) == /\ c \notin listening
             /\ feed[c] = <<>>
             /\ listening' = listening \cup {c}
             /\ UNCHANGED <<members, queue, feed>>

Post(m) == /\ queue' = [c \in Conns |-> IF c \in listening THEN Append(queue[c], m)
                                                           ELSE queue[c]]
           /\ UNCHANGED <<members, listening, feed>>

Deliver(c) == /\ queue[c] # <<>>
              /\ feed' = [feed EXCEPT ![c] = Append(@, Head(queue[c]))]
              /\ queue' = [queue EXCEPT ![c] = Tail(@)]
              /\ UNCHANGED <<members, listening>>

HangUp(c) == /\ c \in listening
             /\ listening' = listening \ {c}
             /\ queue' = [queue EXCEPT ![c] = <<>>]
             /\ UNCHANGED <<members, feed>>

Exit(c) == /\ \E n \in Names : <<c, n>> \in members
           /\ members' = {m \in members : m[1] # c}
           /\ UNCHANGED <<listening, queue, feed>>

Next == \/ \E c \in Conns : \/ \E n \in Names : Enter(c, n)
                            \/ Listen(c) \/ Deliver(c) \/ HangUp(c) \/ Exit(c)
        \/ \E m \in Messages : Post(m)

Spec == Init /\ [][Next]_vars
=============================================================================
