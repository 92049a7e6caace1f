-------------------------------- MODULE OAuth --------------------------------
(***************************************************************************)
(* examples/oauth: logging in with GitHub.  The server keeps sessions in a *)
(* store and their identifiers in the browser's one SESSION cookie: a CSRF *)
(* session from /auth/github to the callback, a user session from there to *)
(* /logout.  A browser with several tabs has several requests in flight,   *)
(* each carrying the cookie it was sent with; the answers come in any      *)
(* order.  Every access to the store is an await, between two of which     *)
(* other requests run and a handler may be dropped with its connection.    *)
(***************************************************************************)
EXTENDS Naturals, FiniteSets

CONSTANTS Requests,   \* the requests ever made by one browser
          None        \* no cookie, no session, no query

ASSUME OAuthAssumption == IsFiniteSet(Requests) /\ None \notin Nat \cup {"csrf", "user"}

VARIABLES
  store,      \* the MemoryStore: session identifier -> session
  issued,     \* how many identifiers have been drawn: they never repeat
  jar,        \* the browser's cookie
  phase,      \* where a request is
  request,    \* its path, the cookie it carries, the `state` of its query
  setCookie   \* the session its answer puts into the cookie, or None

vars == <<store, issued, jar, phase, request, setCookie>>

\* A request issues one session at most.
Ids == 1..Cardinality(Requests)

\* The CSRF token drawn for session k is told by k, so that a session need not
\* repeat it.
Sessions == {"csrf", "user"}

\* The pages only look the user up; the other answers set or remove the cookie.
Pages == {"/", "/protected"}
Paths == Pages \cup {"/auth/github", "/auth/callback", "/logout"}
Heads == [path : Paths, cookie : Ids \cup {None}, state : Ids \cup {None}]
NoHead == [path |-> "none", cookie |-> None, state |-> None]

\* "loaded": the session of the cookie was found; "verified": the CSRF token
\* matched; "approved": GitHub has told the user; "answered": the answer is on
\* its way; "denied": the callback's query had no code.
Phases == {"idle", "arrived", "loaded", "verified", "approved", "answered",
           "delivered", "refused", "denied", "failed", "dropped"}

At(r, path, p) == request[r].path = path /\ phase[r] = p
Goto(r, p) == phase' = [phase EXCEPT ![r] = p]
Carried(r) == request[r].cookie
Found(r) == Carried(r) # None /\ store[Carried(r)] # None

Init == /\ store = [k \in Ids |-> None]
        /\ issued = 0
        /\ jar = None
        /\ phase = [r \in Requests |-> "idle"]
        /\ request = [r \in Requests |-> NoHead]
        /\ setCookie = [r \in Requests |-> None]

-----------------------------------------------------------------------------
(* The browser.                                                            *)

Send(r, path, state) ==
  /\ phase[r] = "idle"
  /\ Goto(r, "arrived")
  /\ request' = [request EXCEPT ![r] = [path |-> path, cookie |-> jar, state |-> state]]
  /\ UNCHANGED <<store, issued, jar, setCookie>>

Visit(r) == \E path \in Paths \ {"/auth/callback"} : Send(r, path, None)

\* GitHub sends the browser back with the `state` it was sent with, once or,
\* as pages are reloaded, more often.
Redirected(k) == \E q \in Requests : At(q, "/auth/github", "delivered") /\ setCookie[q] = k
ComeBack(r) == \E k \in Ids : Redirected(k) /\ Send(r, "/auth/callback", k)

\* The answer arrives: its Set-Cookie replaces the cookie, logout's removes it.
Deliver(r) ==
  /\ phase[r] = "answered"
  /\ Goto(r, "delivered")
  /\ jar' = IF request[r].path \in Pages THEN jar ELSE setCookie[r]
  /\ UNCHANGED <<store, issued, request, setCookie>>

\* The tab is closed: the handler is dropped at an await, or its answer lost.
Drop(r) == /\ phase[r] \in {"arrived", "loaded", "verified", "approved", "answered"}
           /\ Goto(r, "dropped")
           /\ UNCHANGED <<store, issued, jar, request, setCookie>>

-----------------------------------------------------------------------------
(* The server.                                                             *)

\* Mutant: the answer does not wait for the session to be stored.
StoreNothing(r, session) == /\ issued' = issued + 1
                            /\ setCookie' = [setCookie EXCEPT ![r] = issued']
                            /\ UNCHANGED store

\* store_session, and the Set-Cookie header for the answer.
StoreSession(r, session) == /\ issued' = issued + 1
                            /\ store' = [store EXCEPT ![issued'] = session]
                            /\ setCookie' = [setCookie EXCEPT ![r] = issued']

auth_github(r) == /\ At(r, "/auth/github", "arrived")
                  /\ StoreSession(r, "csrf")
                  /\ Goto(r, "answered")
                  /\ UNCHANGED <<jar, request>>

Quietly(r, p) == Goto(r, p) /\ UNCHANGED <<store, issued, jar, request, setCookie>>

\* The Query extractor, before the handler: GitHub sends a browser whose user did
\* not agree back without a code, which is answered 400; the session stays.
RejectQuery(r) == At(r, "/auth/callback", "arrived") /\ Quietly(r, "denied")

\* Mutant: whatever session is found is good for going on.
LoadAnySession(r) ==
  /\ At(r, "/auth/callback", "arrived")
  /\ Quietly(r, IF Found(r) THEN "loaded" ELSE "refused")

\* validate_csrf_token up to the second await: without a cookie, without its
\* session or without a CSRF token in it the callback is refused.
LoadCsrfSession(r) ==
  /\ At(r, "/auth/callback", "arrived")
  /\ Quietly(r, IF Found(r) /\ store[Carried(r)] = "csrf" THEN "loaded" ELSE "refused")

\* Mutant: the session stays when the tokens match.
VerifyOnly(r) ==
  /\ At(r, "/auth/callback", "loaded")
  /\ Quietly(r, IF Carried(r) = request[r].state THEN "verified" ELSE "refused")

\* Mutant: the tokens are not compared.
DestroyOnly(r) ==
  /\ At(r, "/auth/callback", "loaded")
  /\ store' = [store EXCEPT ![Carried(r)] = None]
  /\ Goto(r, "verified")
  /\ UNCHANGED <<issued, jar, request, setCookie>>

\* The rest of it: the session is destroyed, which says nothing where another
\* request has destroyed it since it was loaded; then its token, read before,
\* the one drawn with the session the cookie names, is compared.
DestroyAndVerify(r) ==
  /\ At(r, "/auth/callback", "loaded")
  /\ store' = [store EXCEPT ![Carried(r)] = None]
  /\ Goto(r, IF Carried(r) = request[r].state THEN "verified" ELSE "refused")
  /\ UNCHANGED <<issued, jar, request, setCookie>>

\* exchange_code and the user's data; every failure is answered 500, except
\* the unwrap of what does not parse, which panics.
Exchange(r) == /\ At(r, "/auth/callback", "verified")
               /\ \E p \in {"approved", "failed"} : Quietly(r, p)

\* The user's session is stored and the cookie names it from now on.
LogIn(r) == /\ At(r, "/auth/callback", "approved")
            /\ StoreSession(r, "user")
            /\ Goto(r, "answered")
            /\ UNCHANGED <<jar, request>>

\* The User extractor: served, or redirected to /auth/github.
Protected(r) == /\ At(r, "/protected", "arrived")
                /\ Quietly(r, IF Found(r) /\ store[Carried(r)] = "user" THEN "answered"
                                                                      ELSE "refused")

\* Option<User>: greeted by name or told to log in, never redirected.
index(r) == At(r, "/", "arrived") /\ Quietly(r, "answered")

\* logout without a session: redirected to "/" with the cookie as it was.
LoadForLogout(r) == /\ At(r, "/logout", "arrived")
                    /\ Quietly(r, IF Found(r) THEN "loaded" ELSE "refused")

\* Mutant: only the cookie is removed.
LogoutCookie(r) == /\ At(r, "/logout", "loaded")
                   /\ Quietly(r, "answered")

Logout(r) == /\ At(r, "/logout", "loaded")
             /\ store' = [store EXCEPT ![Carried(r)] = None]
             /\ Goto(r, "answered")
             /\ UNCHANGED <<issued, jar, request, setCookie>>

-----------------------------------------------------------------------------
Browser(r) == Visit(r) \/ ComeBack(r) \/ Deliver(r) \/ Drop(r)
Server(r) == \/ auth_github(r) \/ RejectQuery(r) \/ LoadCsrfSession(r) \/ DestroyAndVerify(r)
             \/ Exchange(r) \/ LogIn(r) \/ index(r) \/ Protected(r) \/ LoadForLogout(r) \/ Logout(r)

\* Every request made has come to an end.
Quiet == /\ \A r \in Requests : phase[r] \in {"delivered", "refused", "denied", "failed", "dropped"}
         /\ UNCHANGED vars

Next == (\E r \in Requests : Browser(r) \/ Server(r)) \/ Quiet

Spec == Init /\ [][Next]_vars
=============================================================================
