----------------------------- MODULE Dictionary -----------------------------
(***************************************************************************)
(* What examples/key-value-store promises its clients: a dictionary on     *)
(* which every accepted request takes effect at one instant between its    *)
(* arrival and its answer, and a refused one (overload, timeout, bad       *)
(* token, oversized body, lost connection) has no effect at all.           *)
(***************************************************************************)
EXTENDS Naturals

CONSTANTS Requests,   \* the requests ever made
          Keys, Values,
          Absent      \* no value

VARIABLES dict,       \* [Keys -> Values or Absent]
          call        \* call[r]: the state of a request

vars == <<dict, call>>

Operations == [op : {"get", "remove"}, key : Keys]
              \cup [op : {"set"}, key : Keys, value : Values]
              \cup [op : {"list", "clear"}]

Idle == [state |-> "idle"]
Pending(o) == [state |-> "pending", op |-> o]
Applied(x) == [state |-> "applied", result |-> x]
Refused == [state |-> "refused"]

\* The dictionary an operation leaves, and what it answers.
Effect(o) == CASE o.op \in {"get", "list"} -> dict
               [] o.op = "set" -> [dict EXCEPT ![o.key] = o.value]
               [] o.op = "remove" -> [dict EXCEPT ![o.key] = Absent]
               [] o.op = "clear" -> [k \in Keys |-> Absent]
Result(o) == CASE o.op = "get" -> dict[o.key]
               [] o.op = "list" -> {k \in Keys : dict[k] # Absent}
               [] OTHER -> Absent

Init == /\ dict = [k \in Keys |-> Absent]
        /\ call = [r \in Requests |-> Idle]

Invoke(r, o) == /\ call[r] = Idle
                /\ call' = [call EXCEPT ![r] = Pending(o)]
                /\ UNCHANGED dict

Apply(r, o) == /\ call[r] = Pending(o)
               /\ dict' = Effect(o)
               /\ call' = [call EXCEPT ![r] = Applied(Result(o))]

Refuse(r) == /\ call[r].state \in {"idle", "pending"}
             /\ call' = [call EXCEPT ![r] = Refused]
             /\ UNCHANGED dict

Next == \E r \in Requests : \/ Refuse(r)
                            \/ \E o \in Operations : Invoke(r, o) \/ Apply(r, o)

Spec == Init /\ [][Next]_vars
=============================================================================
