-------------------------- MODULE BroadcastChannel --------------------------
(***************************************************************************)
(* tokio::sync::broadcast as examples/chat uses it (an external library).  *)
(* The channel keeps the last Capacity messages; every receiver has its    *)
(* own cursor, the position of the message it will receive next.  A sender *)
(* never waits: the message that does not fit overwrites the oldest one,   *)
(* and a receiver whose next message was overwritten has lagged.           *)
(*                                                                         *)
(* The log is the history of everything ever sent; the channel's buffer is *)
(* its suffix of length Capacity.  Positions start at 1.                   *)
(***************************************************************************)
EXTENDS Naturals, Sequences

CONSTANT Capacity   \* broadcast::channel(16) in the code

ASSUME CapacityAssumption == Capacity \in Nat \ {0}

(* Sender::send, when at least one receiver exists: main keeps `_rx`. *)
Sent(log, m) == Append(log, m)

(* Sender::subscribe: the new receiver sees only what is sent from now on. *)
SubscribeAt(log) == Len(log) + 1

(* The message at the cursor has been overwritten: RecvError::Lagged. *)
Lagged(log, cursor) == cursor + Capacity <= Len(log)

(* recv() has a message to return. *)
Ready(log, cursor) == cursor <= Len(log) /\ ~Lagged(log, cursor)
=============================================================================
