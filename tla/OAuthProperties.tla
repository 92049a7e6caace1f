--------------------------- MODULE OAuthProperties ---------------------------
(***************************************************************************)
(* What the login of module OAuth has to guarantee.                        *)
(***************************************************************************)
EXTENDS OAuth

Callback(r) == request[r].path = "/auth/callback"

\* Every variable has its type, and the cookies in use have been issued
\* (examples/oauth, main.rs 37-51).
TypeOK == /\ store \in [Ids -> Sessions \cup {None}]
          /\ issued \in 0..Cardinality(Requests)
          /\ jar \in 1..issued \cup {None}
          /\ phase \in [Requests -> Phases]
          /\ request \in [Requests -> Heads \cup {NoHead}]
          /\ setCookie \in [Requests -> 1..issued \cup {None}]
          /\ \A k \in Ids : k > issued => store[k] = None
          /\ \A r \in Requests : Carried(r) \in 1..issued \cup {None}

\* Callbacks that were let through with the token of the session they carry.
Verified(r) == /\ Callback(r)
               /\ phase[r] \in {"verified", "approved", "failed", "answered", "delivered"}

\* Once a callback was let through with a token, one that comes later with the
\* same token, its link reloaded or its answer lost, is not.  Only callbacks that
\* all had loaded the session before one of them destroyed it get through
\* together: looking the session up and destroying it are two awaits
\* (main.rs 198-219).
LateCallbacksAreRefused ==
  [][\A q, r \in Requests :
       Verified(q) /\ At(r, "/auth/callback", "arrived") /\ Carried(r) = request[q].state
         => phase'[r] \in {"arrived", "refused", "denied", "dropped"}]_vars

\* A callback in which nothing was forged is refused only because of another
\* request of the same browser: one whose answer replaced or removed the
\* cookie, or one that carried the same cookie and destroyed its session.  A
\* login that nothing disturbs is not refused (main.rs 164-178 and 198-219).
Disturbs(q, r) ==
  LET k == request[r].state
  IN  \/ /\ phase[q] = "delivered" /\ request[q].path \notin Pages
         /\ Carried(r) # k /\ setCookie[q] = Carried(r)
      \/ Carried(r) = k /\ Carried(q) = k /\ request[q].path \in {"/auth/callback", "/logout"}
RefusalsAreDisturbances ==
  \A r \in Requests : Callback(r) /\ phase[r] = "refused" =>
    \E q \in Requests \ {r} : Disturbs(q, r)

\* A user stays logged in until a logout with the session's own cookie: no
\* callback, repeated, late or refused, destroys a user session (main.rs 207-214).
OnlyLogoutEndsASession ==
  [][\A k \in Ids : store[k] = "user" /\ store'[k] # "user" =>
       \E r \in Requests : At(r, "/logout", "loaded") /\ Carried(r) = k]_vars

\* A session that was logged out is over for every request that still carries
\* its cookie, and for good (main.rs 289-301).
LogoutIsFinal ==
  \A r \in Requests : At(r, "/logout", "answered") \/ At(r, "/logout", "delivered") =>
    store[Carried(r)] = None

\* Nobody is logged in who has not come back from GitHub with the token he left
\* with: every user session was stored by such a callback (main.rs 230-270).
UserSessions == {k \in Ids : store[k] = "user"}
LoginsAreVerified ==
  \A k \in UserSessions : \E r \in Requests :
    Callback(r) /\ setCookie[r] = k /\ Carried(r) = request[r].state

-----------------------------------------------------------------------------
(* The inductive strengthening of these invariants.                        *)

\* Identifiers are drawn by requests that then answer, one by each.
Unissued == {"idle", "arrived", "loaded", "verified", "approved", "refused", "denied", "failed"}
IssuedByOne == \A r \in Requests : phase[r] \in Unissued => setCookie[r] = None
Issuers == {r \in Requests : setCookie[r] # None}
IssuersAreCounted == issued = Cardinality(Issuers)

\* A callback that was let through carries the session of its token, and has
\* destroyed it.
TokensAreSpent ==
  \A r \in Requests : Verified(r) => /\ Carried(r) = request[r].state /\ Carried(r) # None
                                     /\ store[Carried(r)] = None

\* Between its two awaits validate_csrf_token has a session with a token, or one
\* that another request has destroyed meanwhile.
LoadedIsCsrf ==
  \A r \in Requests : At(r, "/auth/callback", "loaded") =>
    Carried(r) # None /\ store[Carried(r)] # "user"
=============================================================================
