-------------------------------- MODULE Pipe --------------------------------
(***************************************************************************)
(* What a relay promises for one direction: the reader gets what the       *)
(* writer wrote, in order and from the start (so that a count of pieces is *)
(* all there is to say), and sees the end only after all of it; unless     *)
(* something failed.  Then the rest is lost, and the reader is told so, or *)
(* where the relay cannot tell him (FaultsLookLikeEnds), sees just an end. *)
(***************************************************************************)
EXTENDS Naturals

CONSTANT FaultsLookLikeEnds

VARIABLES written,    \* pieces written so far
          finished,   \* the writer has closed
          got,        \* pieces the reader has
          reader,     \* "open", "ended" or "broken"
          fault       \* something failed

vars == <<written, finished, got, reader, fault>>

Init == /\ written = 0
        /\ finished = FALSE
        /\ got = 0
        /\ reader = "open"
        /\ fault = FALSE

Write == /\ ~finished
         /\ written' = written + 1
         /\ UNCHANGED <<finished, got, reader, fault>>

Finish == /\ finished' = TRUE
          /\ UNCHANGED <<written, got, reader, fault>>

\* Any number of pieces at a time.
Read == /\ reader = "open"
        /\ got' \in got + 1..written
        /\ UNCHANGED <<written, finished, reader, fault>>

ReadAll == /\ reader = "open" /\ finished
           /\ got' = written
           /\ reader' = "ended"
           /\ UNCHANGED <<written, finished, fault>>

Fail == /\ fault' = TRUE
        /\ UNCHANGED <<written, finished, got, reader>>

\* The reader finds out, at the fault or later.
Break == /\ reader = "open"
         /\ fault'
         /\ reader' = IF FaultsLookLikeEnds THEN "ended" ELSE "broken"
         /\ UNCHANGED <<written, finished, got>>

Next == Write \/ Finish \/ Read \/ ReadAll \/ Fail \/ Break

Spec == Init /\ [][Next]_vars
=============================================================================
