------------------------------- MODULE MCOAuth -------------------------------
(* TLC instances of the login.                                             *)
EXTENDS OAuthProperties, TLC

\* Requests differ only in what they ask.
Symmetry == Permutations(Requests)
=============================================================================
