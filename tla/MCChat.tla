------------------------------- MODULE MCChat -------------------------------
(* TLC instances of the chat server.                                       *)
EXTENDS ChatProperties, TLC

\* The server treats all sessions, and all names but "", alike.
Symmetry == Permutations(Conns) \cup Permutations(Names)
=============================================================================
