----------------------------- MODULE OAuthProofs -----------------------------
(***************************************************************************)
(* Proofs about the login, for any number of requests.                     *)
(***************************************************************************)
EXTENDS OAuthProperties, FiniteSetTheorems, TLAPS

LogoutHasCookie ==
  \A r \in Requests : request[r].path = "/logout" /\ phase[r] \in {"loaded", "answered", "delivered"}
     => Carried(r) # None

IssueInv == IssuedByOne /\ IssuersAreCounted
StoreInv == /\ TokensAreSpent /\ LoadedIsCsrf
            /\ LogoutHasCookie /\ LogoutIsFinal
LoginInv == TypeOK /\ IssueInv /\ StoreInv /\ LoginsAreVerified

\* What a request that has not drawn an identifier yet leaves for it to draw.
LEMMA AnIdentifierIsLeft ==
  ASSUME LoginInv, NEW r \in Requests, setCookie[r] = None
  PROVE  /\ issued + 1 \in Ids
         /\ IsFiniteSet(Issuers) /\ Cardinality(Issuers \cup {r}) = issued + 1
<1>1. IsFiniteSet(Requests)  BY OAuthAssumption
<1>2. Issuers \subseteq Requests /\ r \notin Issuers  BY DEF Issuers
<1>3. IsFiniteSet(Issuers)  BY <1>1, <1>2, FS_Subset
<1>4. Cardinality(Issuers \cup {r}) = Cardinality(Issuers) + 1
  BY <1>2, <1>3, FS_AddElement
<1>5. Cardinality(Issuers \cup {r}) <= Cardinality(Requests)
  BY <1>1, <1>2, FS_Subset
<1>6. issued = Cardinality(Issuers) /\ issued \in Nat /\ Cardinality(Requests) \in Nat
  BY <1>1, FS_CardinalityType DEF LoginInv, IssueInv, IssuersAreCounted, TypeOK
<1> QED  BY <1>3, <1>4, <1>5, <1>6 DEF Ids

LEMMA InitLoginInv == Init => LoginInv
<1> SUFFICES ASSUME Init PROVE LoginInv  OBVIOUS
<1> USE DEF Init
<1>1. Cardinality(Requests) \in Nat  BY OAuthAssumption, FS_CardinalityType
<1>2. NoHead \in Heads \cup {NoHead} /\ NoHead.cookie = None /\ NoHead.path = "none"
  BY DEF NoHead
<1>3. TypeOK  BY <1>1, <1>2 DEF TypeOK, Phases, Carried
<1>4. IssueInv
  <2>1. Issuers = {}  BY DEF Issuers
  <2> QED  BY <2>1, FS_EmptySet DEF IssueInv, IssuedByOne, IssuersAreCounted
<1>5. StoreInv
  BY <1>2 DEF StoreInv, TokensAreSpent, LoadedIsCsrf, LogoutHasCookie, LogoutIsFinal,
              Verified, Callback, At
<1>6. LoginsAreVerified
  BY OAuthAssumption DEF LoginsAreVerified, UserSessions, Ids
<1> QED  BY <1>3, <1>4, <1>5, <1>6 DEF LoginInv

-----------------------------------------------------------------------------
\* Steps of a request that leave the store alone.
LEMMA QuietStep ==
  ASSUME LoginInv, NEW r \in Requests, NEW p \in Phases,
         phase' = [phase EXCEPT ![r] = p],
         UNCHANGED <<store, issued, request, setCookie>>,
         jar' \in 1..issued \cup {None},
         p \in Unissued => phase[r] \in Unissued,
         Verified(r)' => Verified(r),
         Callback(r) /\ p = "loaded" => Carried(r) # None /\ store[Carried(r)] # "user",
         request[r].path = "/logout" =>
           /\ p = "loaded" => Carried(r) # None
           /\ p \in {"answered", "delivered"} => phase[r] = "answered"
  PROVE  LoginInv'
<1> USE DEF LoginInv, Carried, Callback, At
<1>1. \A q \in Requests : phase'[q] = IF q = r THEN p ELSE phase[q]  BY DEF TypeOK
<1>2. TypeOK'  BY DEF TypeOK
<1>3. IssueInv'
  BY <1>1 DEF IssueInv, IssuedByOne, IssuersAreCounted, Issuers
<1>4. TokensAreSpent'
  BY <1>1 DEF StoreInv, TokensAreSpent, Verified
<1>5. LoadedIsCsrf'  BY <1>1 DEF StoreInv, LoadedIsCsrf
<1>6. LogoutHasCookie'  BY <1>1 DEF StoreInv, LogoutHasCookie
<1>7. LogoutIsFinal'  BY <1>1 DEF StoreInv, LogoutIsFinal
<1>8. LoginsAreVerified'  BY DEF LoginsAreVerified, UserSessions
<1> QED  BY <1>2, <1>3, <1>4, <1>5, <1>6, <1>7, <1>8 DEF StoreInv

\* A request that has not been sent has drawn no identifier.
LEMMA SendStep ==
  ASSUME LoginInv, NEW r \in Requests, NEW path \in Paths, NEW state \in Ids \cup {None},
         Send(r, path, state)
  PROVE  LoginInv'
<1> USE DEF LoginInv, Carried, Callback, At, Send, Goto
<1> DEFINE head == [path |-> path, cookie |-> jar, state |-> state]
<1>1. Cardinality(Requests) \in Nat  BY OAuthAssumption, FS_CardinalityType
<1>2. jar \in Ids \cup {None}  BY <1>1 DEF TypeOK, Ids
<1>3. head \in Heads  BY <1>2 DEF Heads
<1>4. \A q \in Requests : /\ phase'[q] = IF q = r THEN "arrived" ELSE phase[q]
                          /\ request'[q] = IF q = r THEN head ELSE request[q]
  BY DEF TypeOK
<1>5. setCookie[r] = None  BY DEF IssueInv, IssuedByOne, Unissued
<1>6. TypeOK'
  <2>1. \A q \in Requests : request'[q].cookie \in 1..issued \cup {None}
    BY <1>4 DEF TypeOK
  <2> QED  BY <1>3, <1>4, <2>1 DEF TypeOK, Phases
<1>7. IssueInv'
  BY <1>4, <1>5 DEF IssueInv, IssuedByOne, IssuersAreCounted, Issuers
<1>8. TokensAreSpent'  BY <1>4 DEF StoreInv, TokensAreSpent, Verified
<1>9. LoadedIsCsrf'  BY <1>4 DEF StoreInv, LoadedIsCsrf
<1>10. LogoutHasCookie'  BY <1>4 DEF StoreInv, LogoutHasCookie
<1>11. LogoutIsFinal'  BY <1>4 DEF StoreInv, LogoutIsFinal
<1>12. LoginsAreVerified'
  <2> SUFFICES ASSUME NEW k \in UserSessions' 
               PROVE  \E q \in Requests : /\ request'[q].path = "/auth/callback"
                                          /\ setCookie'[q] = k
                                          /\ request'[q].cookie = request'[q].state
    BY DEF LoginsAreVerified
  <2>1. k \in UserSessions /\ k # None
    BY OAuthAssumption DEF UserSessions, Ids
  <2>2. PICK q \in Requests : /\ request[q].path = "/auth/callback"
                              /\ setCookie[q] = k
                              /\ request[q].cookie = request[q].state
    BY <2>1 DEF LoginsAreVerified
  <2>3. q # r  BY <1>5, <2>1, <2>2
  <2> QED  BY <1>4, <2>2, <2>3
<1> QED  BY <1>6, <1>7, <1>8, <1>9, <1>10, <1>11, <1>12 DEF StoreInv

\* Steps that destroy the session a request carries.
LEMMA DestroyStep ==
  ASSUME LoginInv, NEW r \in Requests, NEW p \in {"verified", "refused", "answered"},
         phase[r] = "loaded", Carried(r) # None,
         store' = [store EXCEPT ![Carried(r)] = None],
         phase' = [phase EXCEPT ![r] = p],
         UNCHANGED <<issued, jar, request, setCookie>>,
         Callback(r) /\ p = "verified" => Carried(r) = request[r].state,
         Callback(r) => p # "answered"
  PROVE  LoginInv'
<1> USE DEF LoginInv, Carried, Callback, At
<1>1. \A q \in Requests : phase'[q] = IF q = r THEN p ELSE phase[q]  BY DEF TypeOK
<1>2. Cardinality(Requests) \in Nat  BY OAuthAssumption, FS_CardinalityType
<1>3. request[r].cookie \in Ids  BY <1>2 DEF TypeOK, Ids
<1>4. \A k \in Ids : store'[k] = IF k = request[r].cookie THEN None ELSE store[k]
  BY <1>3 DEF TypeOK
<1>5. \A q \in Requests : request[q].cookie \in Ids \cup {None}  BY <1>2 DEF TypeOK, Ids
<1>6. TypeOK'
  <2>1. p \in Phases  BY DEF Phases
  <2> QED  BY <1>3, <1>4, <2>1 DEF TypeOK
<1>7. IssueInv'
  BY <1>1 DEF IssueInv, IssuedByOne, IssuersAreCounted, Issuers, Unissued
<1>8. TokensAreSpent'
  BY <1>1, <1>3, <1>4, <1>5 DEF StoreInv, TokensAreSpent, Verified
<1>9. LoadedIsCsrf'
  BY <1>1, <1>4, <1>5, OAuthAssumption DEF StoreInv, LoadedIsCsrf
<1>10. LogoutHasCookie'  BY <1>1 DEF StoreInv, LogoutHasCookie
<1>11. LogoutIsFinal'
  BY <1>1, <1>3, <1>4, <1>5 DEF StoreInv, LogoutIsFinal, LogoutHasCookie
<1>12. LoginsAreVerified'
  <2>1. UserSessions' \subseteq UserSessions
    BY <1>4, OAuthAssumption DEF UserSessions
  <2> QED  BY <2>1 DEF LoginsAreVerified
<1> QED  BY <1>6, <1>7, <1>8, <1>9, <1>10, <1>11, <1>12 DEF StoreInv

\* Steps that draw an identifier, store a session under it and answer.
LEMMA StoreStep ==
  ASSUME LoginInv, NEW r \in Requests, NEW session \in Sessions,
         phase[r] \in Unissued,
         StoreSession(r, session),
         phase' = [phase EXCEPT ![r] = "answered"],
         UNCHANGED <<jar, request>>,
         request[r].path # "/logout",
         Callback(r) => phase[r] = "approved",
         session = "user" => Callback(r)
  PROVE  LoginInv'
<1> USE DEF LoginInv, Carried, Callback, At, StoreSession
<1>1. \A q \in Requests : phase'[q] = IF q = r THEN "answered" ELSE phase[q]  BY DEF TypeOK
<1>2. setCookie[r] = None  BY DEF IssueInv, IssuedByOne
<1>3. issued + 1 \in Ids /\ issued \in Nat /\ Cardinality(Requests) \in Nat
  <2>1. issued + 1 \in Ids  BY ONLY LoginInv, <1>2, AnIdentifierIsLeft
  <2>2. Cardinality(Requests) \in Nat  BY OAuthAssumption, FS_CardinalityType
  <2>3. issued \in 0..Cardinality(Requests)  BY DEF TypeOK
  <2> QED  BY <2>1, <2>2, <2>3
<1>4. \A k \in Ids : store'[k] = IF k = issued + 1 THEN session ELSE store[k]
  <2>1. store \in [Ids -> Sessions \cup {None}]  BY DEF TypeOK
  <2>2. store' = [store EXCEPT ![issued + 1] = session]  OBVIOUS
  <2> QED  BY ONLY <1>3, <2>1, <2>2
<1>5. \A q \in Requests : setCookie'[q] = IF q = r THEN issued + 1 ELSE setCookie[q]
  BY DEF TypeOK
<1>6. \A q \in Requests : request[q].cookie # issued + 1
  BY <1>3, OAuthAssumption DEF TypeOK
<1>7. \A q \in Requests : request[q].cookie \in Ids \cup {None}
  BY <1>3 DEF TypeOK, Ids
<1>8. TypeOK'
  <2>1. issued' \in 0..Cardinality(Requests) /\ issued' = issued + 1  BY <1>3 DEF Ids
  <2>2. 1..issued \subseteq 1..issued' /\ issued' \in 1..issued'  BY <1>3, <2>1
  <2>3. store' \in [Ids -> Sessions \cup {None}]
        /\ \A k \in Ids : k > issued' => store'[k] = None
    BY <1>3, <1>4, <2>1 DEF TypeOK, Ids
  <2>4. jar' \in 1..issued' \cup {None} /\ request' \in [Requests -> Heads \cup {NoHead}]
        /\ \A q \in Requests : request'[q].cookie \in 1..issued' \cup {None}
    BY <2>2 DEF TypeOK
  <2>5. setCookie' \in [Requests -> 1..issued' \cup {None}]
    BY <1>5, <2>1, <2>2 DEF TypeOK
  <2>6. phase' \in [Requests -> Phases]  BY DEF TypeOK, Phases
  <2> QED  BY <2>1, <2>3, <2>4, <2>5, <2>6 DEF TypeOK
<1>9. IssueInv'
  <2>1. IssuedByOne'
    BY <1>1, <1>5 DEF IssueInv, IssuedByOne, Unissued
  <2>2. Issuers' = Issuers \cup {r}
    BY <1>3, <1>5, OAuthAssumption DEF Issuers
  <2> QED  BY <1>2, <2>1, <2>2, AnIdentifierIsLeft DEF IssueInv, IssuersAreCounted
<1>10. TokensAreSpent'
  BY <1>1, <1>4, <1>6, <1>7 DEF StoreInv, TokensAreSpent, Verified
<1>11. LoadedIsCsrf'
  BY <1>1, <1>4, <1>6, <1>7 DEF StoreInv, LoadedIsCsrf
<1>12. LogoutHasCookie'  BY <1>1 DEF StoreInv, LogoutHasCookie
<1>13. LogoutIsFinal'
  BY <1>1, <1>4, <1>6, <1>7 DEF StoreInv, LogoutIsFinal, LogoutHasCookie
<1>14. LoginsAreVerified'
  <2> SUFFICES ASSUME NEW k \in UserSessions'
               PROVE  \E q \in Requests : /\ request[q].path = "/auth/callback"
                                          /\ setCookie'[q] = k
                                          /\ request[q].cookie = request[q].state
    BY DEF LoginsAreVerified
  <2>1. k \in Ids  BY DEF UserSessions
  <2>2. CASE k = issued + 1
    <3>1. session = "user"  BY <1>4, <2>1, <2>2 DEF UserSessions
    <3>2. Verified(r)  BY <3>1 DEF Verified
    <3>3. request[r].path = "/auth/callback" /\ request[r].cookie = request[r].state
      BY <3>1, <3>2 DEF StoreInv, TokensAreSpent
    <3>4. setCookie'[r] = k  BY <1>5, <2>2
    <3> QED  BY <3>3, <3>4
  <2>3. CASE k # issued + 1
    <3>1. k \in UserSessions  BY <1>4, <2>1, <2>3 DEF UserSessions
    <3>2. PICK q \in Requests : /\ request[q].path = "/auth/callback"
                                /\ setCookie[q] = k
                                /\ request[q].cookie = request[q].state
      BY <3>1 DEF LoginsAreVerified
    <3>3. q # r  BY <1>2, <2>1, <3>2, OAuthAssumption DEF Ids
    <3> QED  BY <1>5, <3>2, <3>3
  <2> QED  BY <2>2, <2>3
<1> QED  BY <1>8, <1>9, <1>10, <1>11, <1>12, <1>13, <1>14 DEF StoreInv

-----------------------------------------------------------------------------
LEMMA NextLoginInv == LoginInv /\ [Next]_vars => LoginInv'
<1> SUFFICES ASSUME LoginInv, [Next]_vars PROVE LoginInv'  OBVIOUS
<1> USE DEF At, Goto, Quietly, Carried
<1>a. /\ jar \in 1..issued \cup {None}
      /\ \A r \in Requests : setCookie[r] \in 1..issued \cup {None}
      /\ phase \in [Requests -> Phases]
  BY DEF LoginInv, TypeOK
<1>b. ASSUME NEW r \in Requests, NEW p, Goto(r, p) PROVE phase'[r] = p
  BY <1>a, <1>b
<1>1. ASSUME NEW r \in Requests, Visit(r) \/ ComeBack(r) PROVE LoginInv'
  BY <1>1, SendStep DEF Visit, ComeBack, Paths, Pages
<1>2. ASSUME NEW r \in Requests, Deliver(r) PROVE LoginInv'
  <2>1. jar' \in 1..issued \cup {None}  BY <1>a, <1>2 DEF Deliver
  <2> QED
    BY <1>2, <2>1, QuietStep DEF Deliver, Phases, Unissued, Verified, Callback
<1>3. ASSUME NEW r \in Requests, Drop(r) PROVE LoginInv'
  <2>1. phase'[r] = "dropped" /\ jar' \in 1..issued \cup {None}
    BY <1>a, <1>b, <1>3 DEF Drop
  <2>2. ~Verified(r)'  BY <2>1 DEF Verified
  <2> QED  BY <1>3, <2>1, <2>2, QuietStep DEF Drop, Phases, Unissued
<1>4. ASSUME NEW r \in Requests, auth_github(r) PROVE LoginInv'
  BY <1>4, StoreStep DEF auth_github, Sessions, Unissued, Callback
<1>5. ASSUME NEW r \in Requests, LoadCsrfSession(r) PROVE LoginInv'
  <2>1. PICK p \in {"loaded", "refused"} :
          Quietly(r, p) /\ (p = "loaded" => Carried(r) # None /\ store[Carried(r)] = "csrf")
    BY <1>5 DEF LoadCsrfSession, Found
  <2>2. phase'[r] = p /\ jar' \in 1..issued \cup {None}  BY <1>a, <1>b, <2>1
  <2>3. ~Verified(r)'  BY <2>2 DEF Verified
  <2>4. request[r].path = "/auth/callback" /\ phase[r] \in Unissued
    BY <1>5 DEF LoadCsrfSession, Unissued
  <2> QED  BY <2>1, <2>2, <2>3, <2>4, QuietStep DEF Phases
<1>13. ASSUME NEW r \in Requests, RejectQuery(r) PROVE LoginInv'
  <2>1. phase'[r] = "denied" /\ jar' \in 1..issued \cup {None}
    BY <1>a, <1>b, <1>13 DEF RejectQuery
  <2>2. ~Verified(r)'  BY <2>1 DEF Verified
  <2>3. request[r].path = "/auth/callback"  BY <1>13 DEF RejectQuery
  <2> QED  BY <1>13, <2>1, <2>2, <2>3, QuietStep DEF RejectQuery, Phases, Unissued
<1>6. ASSUME NEW r \in Requests, DestroyAndVerify(r) PROVE LoginInv'
  <2>1. Carried(r) # None  BY <1>6 DEF DestroyAndVerify, LoginInv, StoreInv, LoadedIsCsrf
  <2> QED  BY <1>6, <2>1, DestroyStep DEF DestroyAndVerify, Callback
<1>7. ASSUME NEW r \in Requests, Exchange(r) PROVE LoginInv'
  <2>1. PICK p \in {"approved", "failed"} : Quietly(r, p)  BY <1>7 DEF Exchange
  <2>2. phase'[r] = p /\ jar' \in 1..issued \cup {None}  BY <1>a, <1>b, <2>1
  <2>3. request[r].path = "/auth/callback" /\ phase[r] = "verified" /\ phase[r] \in Unissued
    BY <1>7 DEF Exchange, Unissued
  <2>4. Verified(r)  BY <2>3 DEF Verified, Callback
  <2> QED  BY <2>1, <2>2, <2>3, <2>4, QuietStep DEF Phases
<1>8. ASSUME NEW r \in Requests, LogIn(r) PROVE LoginInv'
  BY <1>8, StoreStep DEF LogIn, Sessions, Unissued, Callback
<1>9. ASSUME NEW r \in Requests, index(r) \/ Protected(r) PROVE LoginInv'
  BY <1>a, <1>9, QuietStep DEF index, Protected, Phases, Unissued, Verified, Callback
<1>10. ASSUME NEW r \in Requests, LoadForLogout(r) PROVE LoginInv'
  <2>1. PICK p \in {"loaded", "refused"} :
          Quietly(r, p) /\ (p = "loaded" => Carried(r) # None)
    BY <1>10 DEF LoadForLogout, Found
  <2>2. phase'[r] = p /\ jar' \in 1..issued \cup {None}  BY <1>a, <1>b, <2>1
  <2>3. ~Verified(r)'  BY <2>2 DEF Verified
  <2>4. request[r].path = "/logout" /\ phase[r] \in Unissued
    BY <1>10 DEF LoadForLogout, Unissued
  <2> QED  BY <2>1, <2>2, <2>3, <2>4, QuietStep DEF Phases, Callback
<1>11. ASSUME NEW r \in Requests, Logout(r) PROVE LoginInv'
  <2>1. Carried(r) # None  BY <1>11 DEF Logout, LoginInv, StoreInv, LogoutHasCookie
  <2> QED  BY <1>11, <2>1, DestroyStep DEF Logout, Callback
<1>12. CASE UNCHANGED vars
  BY <1>12 DEF vars, LoginInv, TypeOK, IssueInv, IssuedByOne, IssuersAreCounted, Issuers,
               StoreInv, TokensAreSpent, LoadedIsCsrf, LogoutHasCookie, LogoutIsFinal,
               LoginsAreVerified, UserSessions, Verified, Callback
<1> QED
  BY <1>1, <1>2, <1>3, <1>4, <1>5, <1>6, <1>7, <1>8, <1>9, <1>10, <1>11, <1>12, <1>13
  DEF Next, Browser, Server, Quiet

LEMMA LoginInvariant == Spec => []LoginInv
<1> QED  BY InitLoginInv, NextLoginInv, PTL DEF Spec

\* Every variable keeps its type; identifiers suffice for all requests.
THEOREM TypeCorrect == Spec => []TypeOK
<1>1. LoginInv => TypeOK  BY DEF LoginInv
<1> QED  BY LoginInvariant, <1>1, PTL

\* Once a callback was let through with a token, one that comes later with the
\* same token is not: the session it would need is gone for good, so that only
\* callbacks which had loaded it before can still go on (main.rs 198-219).
THEOREM LateCallbacksRefused == Spec => LateCallbacksAreRefused
<1> DEFINE Stays(q, r) ==
      Verified(q) /\ At(r, "/auth/callback", "arrived") /\ Carried(r) = request[q].state
        => phase'[r] \in {"arrived", "refused", "denied", "dropped"}
<1>1. ASSUME LoginInv, [Next]_vars, NEW q \in Requests, NEW r \in Requests PROVE Stays(q, r)
  <2> SUFFICES ASSUME Verified(q), At(r, "/auth/callback", "arrived"),
                      Carried(r) = request[q].state
               PROVE  phase'[r] \in {"arrived", "refused", "denied", "dropped"}
    OBVIOUS
  <2>1. ~Found(r)
    BY <1>1 DEF LoginInv, StoreInv, TokensAreSpent, Found, Carried
  <2>2. phase \in [Requests -> Phases] /\ phase[r] = "arrived" /\ request[r].path = "/auth/callback"
    BY <1>1 DEF LoginInv, TypeOK, At
  <2>3. CASE LoadCsrfSession(r)
    BY <2>1, <2>2, <2>3 DEF LoadCsrfSession, Quietly, Goto
  <2>4. CASE RejectQuery(r) \/ Drop(r)
    BY <2>2, <2>4 DEF RejectQuery, Drop, Quietly, Goto
  <2>5. ASSUME NEW c \in Requests, Browser(c) \/ Server(c), c # r PROVE phase'[r] = phase[r]
    BY <2>2, <2>5 DEF Browser, Server, Visit, ComeBack, Send, Deliver, Drop, auth_github,
       RejectQuery, LoadCsrfSession, DestroyAndVerify, Exchange, LogIn, index, Protected,
       LoadForLogout, Logout, Quietly, Goto
  <2>6. CASE Browser(r) /\ ~Drop(r)
    BY <2>2, <2>6 DEF Browser, Visit, ComeBack, Send, Deliver
  <2>7. CASE Server(r) /\ ~LoadCsrfSession(r) /\ ~RejectQuery(r)
    BY <2>2, <2>7 DEF Server, auth_github, DestroyAndVerify, Exchange, LogIn, index,
       Protected, LoadForLogout, Logout, At
  <2>8. CASE Quiet \/ UNCHANGED vars
    BY <2>2, <2>8 DEF Quiet, vars
  <2> QED  BY <1>1, <2>2, <2>3, <2>4, <2>5, <2>6, <2>7, <2>8 DEF Next
<1>2. LoginInv /\ [Next]_vars => [\A q, r \in Requests : Stays(q, r)]_vars
  BY <1>1
<1> QED  BY LoginInvariant, <1>2, PTL DEF Spec, LateCallbacksAreRefused

\* A session that was logged out is over for good (main.rs 289-301).
THEOREM LogoutFinal == Spec => []LogoutIsFinal
<1>1. LoginInv => LogoutIsFinal  BY DEF LoginInv, StoreInv
<1> QED  BY LoginInvariant, <1>1, PTL

\* Every user session was stored by a callback with its token (main.rs 230-270).
THEOREM LoginsVerified == Spec => []LoginsAreVerified
<1>1. LoginInv => LoginsAreVerified  BY DEF LoginInv
<1> QED  BY LoginInvariant, <1>1, PTL

\* A user session is destroyed by a logout with its own cookie and by nothing
\* else: a callback destroys only what it has loaded (main.rs 207-214).
THEOREM OnlyLogoutEnds == Spec => OnlyLogoutEndsASession
<1> DEFINE Ended(k) == store[k] = "user" /\ store'[k] # "user" =>
              \E r \in Requests : At(r, "/logout", "loaded") /\ Carried(r) = k
<1>1. ASSUME LoginInv, Next, NEW k \in Ids PROVE Ended(k)
  <2> SUFFICES ASSUME store[k] = "user", store'[k] # "user"
               PROVE  \E r \in Requests : At(r, "/logout", "loaded") /\ Carried(r) = k
    OBVIOUS
  <2>1. store' # store  OBVIOUS
  <2>2. store \in [Ids -> Sessions \cup {None}] /\ issued \in Nat /\ k <= issued
    BY <1>1, OAuthAssumption, FS_CardinalityType DEF LoginInv, TypeOK, Ids
  <2>3. ASSUME NEW r \in Requests, auth_github(r) \/ LogIn(r) PROVE FALSE
    <3>1. PICK session \in Sessions : store' = [store EXCEPT ![issued + 1] = session]
      BY <2>3 DEF auth_github, LogIn, StoreSession, Sessions
    <3>2. k # issued + 1  BY <2>2 DEF Ids
    <3>3. store'[k] = store[k]  BY <2>2, <3>1, <3>2
    <3> QED  BY <3>3
  <2>4. ASSUME NEW r \in Requests, DestroyAndVerify(r) PROVE FALSE
    <3>1. Carried(r) = k  BY <2>2, <2>4 DEF DestroyAndVerify
    <3> QED
      BY <1>1, <2>4, <3>1 DEF DestroyAndVerify, LoginInv, StoreInv, LoadedIsCsrf
  <2>5. ASSUME NEW r \in Requests, Logout(r) PROVE At(r, "/logout", "loaded") /\ Carried(r) = k
    BY <2>2, <2>5 DEF Logout
  <2>6. PICK r \in Requests : Logout(r)
    <3>1. ~Quiet  BY <2>1 DEF Quiet, vars
    <3>2. \A r \in Requests : ~Browser(r)
      BY <2>1 DEF Browser, Visit, ComeBack, Send, Deliver, Drop
    <3>3. \A r \in Requests : ~(\/ RejectQuery(r) \/ LoadCsrfSession(r) \/ Exchange(r)
                               \/ index(r) \/ Protected(r) \/ LoadForLogout(r))
      BY <2>1 DEF RejectQuery, LoadCsrfSession, Exchange, index, Protected, LoadForLogout, Quietly
    <3> QED  BY <1>1, <2>3, <2>4, <3>1, <3>2, <3>3 DEF Next, Server
  <2> QED  BY <2>5, <2>6
<1>2. LoginInv /\ [Next]_vars => [\A k \in Ids : Ended(k)]_vars
  BY <1>1
<1> QED  BY LoginInvariant, <1>2, PTL DEF Spec, OnlyLogoutEndsASession

-----------------------------------------------------------------------------
(* Why a callback is refused: what is known of the requests before it.     *)

\* An answer that has set or removed the browser's cookie.
Landed(q) == phase[q] = "delivered" /\ request[q].path \notin Pages
Spends(q, k) == Carried(q) = k /\ request[q].path \in {"/auth/callback", "/logout"}

UnsentIsEmpty == \A q \in Requests : phase[q] = "idle" => request[q] = NoHead
JarIsLanded == \/ jar = None /\ \A q \in Requests : ~Landed(q)
               \/ \E q \in Requests : Landed(q) /\ setCookie[q] = jar
\* What a callback brings was drawn for it; what it carries, if it is something
\* else, came from an answer.
Brought(r) ==
  /\ \E q \in Requests : At(q, "/auth/github", "delivered") /\ setCookie[q] = request[r].state
  /\ request[r].state # None
  /\ Carried(r) # request[r].state =>
       \E q \in Requests \ {r} : Landed(q) /\ setCookie[q] = Carried(r)
CallbacksBring == \A r \in Requests : Callback(r) => Brought(r)
OneForEach == \A q, r \in Requests : setCookie[q] = setCookie[r] /\ setCookie[q] # None => q = r
DestroyedBySomeone ==
  \A k \in 1..issued : store[k] = None =>
    \E q \in Requests : Spends(q, k) /\ phase[q] \notin {"idle", "arrived", "loaded"}
SpentMeanwhile(r) == Carried(r) = request[r].state =>
                       \E q \in Requests \ {r} : Spends(q, request[r].state)
RefusedForAReason == \A r \in Requests : Callback(r) /\ phase[r] = "refused" => SpentMeanwhile(r)
HistoryInv == /\ UnsentIsEmpty /\ JarIsLanded /\ CallbacksBring
              /\ OneForEach /\ DestroyedBySomeone /\ RefusedForAReason

\* At the start nothing has been sent, and no identifier drawn.
LEMMA InitHistory == Init => HistoryInv
<1> SUFFICES ASSUME Init PROVE HistoryInv  OBVIOUS
<1> USE DEF Init, NoHead
<1>1. \A q \in Requests : phase[q] = "idle" /\ request[q] = NoHead /\ setCookie[q] = None
  OBVIOUS
<1>2. ~\E k \in 1..issued : TRUE  OBVIOUS
<1> QED
  BY <1>1, <1>2 DEF HistoryInv, UnsentIsEmpty, JarIsLanded, CallbacksBring, OneForEach,
     DestroyedBySomeone, RefusedForAReason, Landed, Callback

\* What was sent, what has landed and what was drawn stays as it is when one
\* request goes on.
Others(r) == \A q \in Requests \ {r} : /\ phase'[q] = phase[q] /\ request'[q] = request[q]
                                       /\ setCookie'[q] = setCookie[q]
GoesOn(r) == /\ Others(r) /\ request'[r] = request[r]
             /\ phase[r] \notin {"idle", "delivered", "refused", "failed", "dropped"}
             /\ phase'[r] \notin {"idle", "arrived"}

LEMMA BroughtStays ==
  ASSUME HistoryInv, NEW r \in Requests, GoesOn(r), NEW c \in Requests, Callback(c)'
  PROVE  Brought(c)'
<1> USE DEF GoesOn, Others
<1>1. Brought(c) /\ request'[c] = request[c]
  BY DEF HistoryInv, CallbacksBring, Callback
<1>2. ASSUME NEW q \in Requests, phase[q] = "delivered"
      PROVE  /\ q # r /\ phase'[q] = phase[q] /\ request'[q] = request[q]
             /\ setCookie'[q] = setCookie[q]
  BY <1>2
<1>3. \E q \in Requests : At(q, "/auth/github", "delivered")' /\ setCookie'[q] = request'[c].state
  BY <1>1, <1>2 DEF Brought, At
<1>4. Carried(c)' # request'[c].state =>
        \E q \in Requests \ {c} : Landed(q)' /\ setCookie'[q] = Carried(c)'
  BY <1>1, <1>2 DEF Brought, Landed, Carried
<1> QED  BY <1>1, <1>3, <1>4 DEF Brought

\* A reason that was there once is there for good.
LEMMA ReasonsStay ==
  ASSUME HistoryInv, NEW r \in Requests, GoesOn(r),
         Callback(r) /\ phase'[r] = "refused" => SpentMeanwhile(r)
  PROVE  RefusedForAReason'
<1> USE DEF GoesOn, Others
<1>1. \A q \in Requests : request'[q] = request[q]  OBVIOUS
<1>2. \A c \in Requests : SpentMeanwhile(c) => SpentMeanwhile(c)'
  BY <1>1 DEF SpentMeanwhile, Spends, Carried
<1>3. \A c \in Requests : Callback(c)' /\ phase'[c] = "refused" => SpentMeanwhile(c)
  BY <1>1 DEF HistoryInv, RefusedForAReason, Callback
<1> QED  BY <1>2, <1>3 DEF RefusedForAReason

\* Steps of a request that leave store and cookies alone, and the delivery of
\* an answer.
LEMMA HistoryOfQuiet ==
  ASSUME LoginInv, HistoryInv, NEW r \in Requests, NEW p \in Phases \ {"idle", "arrived"},
         phase[r] \in {"arrived", "loaded", "verified", "approved", "answered"},
         phase' = [phase EXCEPT ![r] = p],
         p = "loaded" => phase[r] = "arrived",
         UNCHANGED <<store, issued, request, setCookie>>,
         jar' = IF p = "delivered" /\ request[r].path \notin Pages THEN setCookie[r] ELSE jar,
         Callback(r) /\ p = "refused" => SpentMeanwhile(r)
  PROVE  HistoryInv'
<1>1. \A q \in Requests : phase'[q] = IF q = r THEN p ELSE phase[q]  BY DEF LoginInv, TypeOK
<1>2. GoesOn(r)  BY <1>1 DEF GoesOn, Others
<1>3. UnsentIsEmpty'  BY <1>1 DEF HistoryInv, UnsentIsEmpty
<1>4. JarIsLanded'
  <2>1. \A q \in Requests : Landed(q) => Landed(q)'
    BY <1>1 DEF Landed
  <2>2. CASE p = "delivered" /\ request[r].path \notin Pages
    <3>1. Landed(r)' /\ setCookie'[r] = jar'  BY <1>1, <2>2 DEF Landed
    <3> QED  BY <3>1 DEF JarIsLanded
  <2>3. CASE ~(p = "delivered" /\ request[r].path \notin Pages)
    <3>1. \A q \in Requests : Landed(q)' => Landed(q)  BY <1>1, <2>3 DEF Landed
    <3> QED  BY <2>1, <2>3, <3>1 DEF HistoryInv, JarIsLanded
  <2> QED  BY <2>2, <2>3
<1>5. CallbacksBring'  BY <1>2, BroughtStays DEF CallbacksBring
<1>6. OneForEach'  BY DEF HistoryInv, OneForEach
<1>7. DestroyedBySomeone'
  BY <1>1 DEF HistoryInv, DestroyedBySomeone, Spends, Carried
<1>8. RefusedForAReason'  BY <1>1, <1>2, ReasonsStay
<1> QED  BY <1>3, <1>4, <1>5, <1>6, <1>7, <1>8 DEF HistoryInv

\* Steps that destroy the session a request carries.
LEMMA HistoryOfDestroy ==
  ASSUME LoginInv, HistoryInv, NEW r \in Requests, NEW p \in {"verified", "refused", "answered"},
         phase[r] = "loaded", request[r].path \in {"/auth/callback", "/logout"},
         Carried(r) # None,
         store' = [store EXCEPT ![Carried(r)] = None],
         phase' = [phase EXCEPT ![r] = p],
         UNCHANGED <<issued, jar, request, setCookie>>,
         p = "refused" => Carried(r) # request[r].state
  PROVE  HistoryInv'
<1>1. \A q \in Requests : phase'[q] = IF q = r THEN p ELSE phase[q]  BY DEF LoginInv, TypeOK
<1>2. GoesOn(r)  BY <1>1 DEF GoesOn, Others
<1>3. UnsentIsEmpty'  BY <1>1 DEF HistoryInv, UnsentIsEmpty
<1>4. JarIsLanded'
  <2>1. \A q \in Requests : Landed(q)' <=> Landed(q)  BY <1>1 DEF Landed
  <2> QED  BY <2>1 DEF HistoryInv, JarIsLanded
<1>5. CallbacksBring'  BY <1>2, BroughtStays DEF CallbacksBring
<1>6. OneForEach'  BY DEF HistoryInv, OneForEach
<1>7. DestroyedBySomeone'
  <2> SUFFICES ASSUME NEW k \in 1..issued, store'[k] = None
               PROVE  \E q \in Requests : Spends(q, k) /\ phase'[q] \notin {"idle", "arrived", "loaded"}
    BY DEF DestroyedBySomeone, Spends, Carried
  <2>1. CASE k = Carried(r)
    <3>1. Spends(r, k) /\ phase'[r] \notin {"idle", "arrived", "loaded"}
      BY <1>1, <2>1 DEF Spends
    <3> QED  BY <3>1
  <2>2. CASE k # Carried(r)
    <3>1. store[k] = None  BY <2>2 DEF LoginInv, TypeOK
    <3>2. PICK q \in Requests : Spends(q, k) /\ phase[q] \notin {"idle", "arrived", "loaded"}
      BY <3>1 DEF HistoryInv, DestroyedBySomeone
    <3>3. q # r  BY <3>2
    <3> QED  BY <1>1, <3>2, <3>3
  <2> QED  BY <2>1, <2>2
<1>8. RefusedForAReason'  BY <1>1, <1>2, ReasonsStay DEF SpentMeanwhile
<1> QED  BY <1>3, <1>4, <1>5, <1>6, <1>7, <1>8 DEF HistoryInv

\* Steps that store a session: its identifier is a new one.
LEMMA HistoryOfStore ==
  ASSUME LoginInv, HistoryInv, NEW r \in Requests, NEW session \in Sessions,
         phase[r] \in {"arrived", "approved"},
         StoreSession(r, session),
         phase' = [phase EXCEPT ![r] = "answered"],
         UNCHANGED <<jar, request>>
  PROVE  HistoryInv'
<1>1. \A q \in Requests : phase'[q] = IF q = r THEN "answered" ELSE phase[q]
  BY DEF LoginInv, TypeOK
<1>2. issued \in Nat /\ None \notin Nat
  BY OAuthAssumption, FS_CardinalityType DEF LoginInv, TypeOK
<1>3. \A q \in Requests : setCookie[q] \in 1..issued \cup {None}  BY DEF LoginInv, TypeOK
<1>4. \A q \in Requests : setCookie'[q] = IF q = r THEN issued + 1 ELSE setCookie[q]
  BY DEF LoginInv, TypeOK, StoreSession
<1>5. GoesOn(r)  BY <1>1, <1>4 DEF GoesOn, Others
<1>6. UnsentIsEmpty'  BY <1>1 DEF HistoryInv, UnsentIsEmpty
<1>7. JarIsLanded'
  <2>1. \A q \in Requests : /\ Landed(q)' <=> Landed(q)
                            /\ Landed(q) => setCookie'[q] = setCookie[q]
    BY <1>1, <1>4 DEF Landed
  <2> QED  BY <2>1 DEF HistoryInv, JarIsLanded
<1>8. CallbacksBring'  BY <1>5, BroughtStays DEF CallbacksBring
<1>9. OneForEach'
  <2>1. \A q \in Requests : setCookie[q] # issued + 1  BY <1>2, <1>3
  <2> QED  BY <1>4, <2>1 DEF HistoryInv, OneForEach
<1>10. DestroyedBySomeone'
  <2> SUFFICES ASSUME NEW k \in 1..issued', store'[k] = None
               PROVE  \E q \in Requests : Spends(q, k) /\ phase'[q] \notin {"idle", "arrived", "loaded"}
    BY DEF DestroyedBySomeone, Spends, Carried
  <2>1. issued' = issued + 1 /\ store' = [store EXCEPT ![issued + 1] = session]
    BY DEF StoreSession
  <2>2. issued + 1 \in Ids
    <3>1. setCookie[r] = None  BY DEF LoginInv, IssueInv, IssuedByOne, Unissued
    <3> QED  BY <3>1, AnIdentifierIsLeft
  <2>3. k # issued + 1
    <3>1. store'[issued + 1] = session  BY <2>1, <2>2 DEF LoginInv, TypeOK
    <3> QED  BY <3>1, OAuthAssumption DEF Sessions
  <2>4. k \in 1..issued /\ store[k] = None
    BY <1>2, <2>1, <2>2, <2>3 DEF LoginInv, TypeOK, Ids
  <2>5. PICK q \in Requests : Spends(q, k) /\ phase[q] \notin {"idle", "arrived", "loaded"}
    BY <2>4 DEF HistoryInv, DestroyedBySomeone
  <2> QED  BY <1>1, <2>5
<1>11. RefusedForAReason'  BY <1>1, <1>5, ReasonsStay
<1> QED  BY <1>6, <1>7, <1>8, <1>9, <1>10, <1>11 DEF HistoryInv

\* What a request carries when it is sent is what the browser's cookie is.
LEMMA HistoryOfSend ==
  ASSUME LoginInv, HistoryInv, NEW r \in Requests, NEW path \in Paths, NEW state,
         Send(r, path, state),
         path = "/auth/callback" => Redirected(state) /\ state # None
  PROVE  HistoryInv'
<1>1. \A q \in Requests : phase'[q] = IF q = r THEN "arrived" ELSE phase[q]
  BY DEF LoginInv, TypeOK, Send, Goto
<1>2. \A q \in Requests :
        request'[q] = IF q = r THEN [path |-> path, cookie |-> jar, state |-> state] ELSE request[q]
  BY DEF LoginInv, TypeOK, Send
<1>3. phase[r] = "idle" /\ request[r].path = "none"
  BY DEF Send, HistoryInv, UnsentIsEmpty, NoHead
<1>4. UNCHANGED <<store, issued, jar, setCookie>>  BY DEF Send
<1>5. \A q \in Requests : /\ Landed(q)' <=> Landed(q)
                          /\ At(q, "/auth/github", "delivered") => At(q, "/auth/github", "delivered")'
                          /\ Landed(q) => q # r
  BY <1>1, <1>2, <1>3 DEF Landed, At
<1>6. UnsentIsEmpty'  BY <1>1, <1>2 DEF HistoryInv, UnsentIsEmpty
<1>7. JarIsLanded'  BY <1>4, <1>5 DEF HistoryInv, JarIsLanded
<1>8. CallbacksBring'
  <2> SUFFICES ASSUME NEW c \in Requests, Callback(c)' PROVE Brought(c)'
    BY DEF CallbacksBring
  <2>1. CASE c = r
    <3>1. path = "/auth/callback" /\ Carried(c)' = jar /\ request'[c].state = state
      BY <1>2, <2>1 DEF Callback, Carried
    <3>2. PICK q0 \in Requests : At(q0, "/auth/github", "delivered") /\ setCookie[q0] = state
      BY <3>1 DEF Redirected
    <3>3. Landed(q0)  BY <3>2 DEF Landed, At, Pages
    <3>4. PICK q \in Requests : Landed(q) /\ setCookie[q] = jar
      BY <3>3 DEF HistoryInv, JarIsLanded
    <3>5. q \in Requests \ {c} /\ Landed(q)' /\ setCookie'[q] = Carried(c)'
      BY <1>4, <1>5, <2>1, <3>1, <3>4
    <3>6. At(q0, "/auth/github", "delivered")' /\ setCookie'[q0] = request'[c].state
      BY <1>4, <1>5, <3>1, <3>2
    <3> QED  BY <3>1, <3>5, <3>6 DEF Brought
  <2>2. CASE c # r
    <3>1. Brought(c) /\ request'[c] = request[c]
      BY <1>2, <2>2 DEF HistoryInv, CallbacksBring, Callback
    <3>2. \E q \in Requests : At(q, "/auth/github", "delivered")' /\ setCookie'[q] = request'[c].state
      BY <3>1, <1>4, <1>5 DEF Brought
    <3>3. Carried(c)' # request'[c].state =>
            \E q \in Requests \ {c} : Landed(q)' /\ setCookie'[q] = Carried(c)'
      BY <3>1, <1>4, <1>5 DEF Brought, Carried
    <3> QED  BY <3>1, <3>2, <3>3 DEF Brought
  <2> QED  BY <2>1, <2>2
<1>9. OneForEach'  BY <1>4 DEF HistoryInv, OneForEach
<1>10. \A q \in Requests : \A k : Spends(q, k) => q # r /\ Spends(q, k)'
  BY <1>2, <1>3 DEF Spends, Carried
<1>11. DestroyedBySomeone'
  <2> SUFFICES ASSUME NEW k \in 1..issued, store[k] = None
               PROVE  \E q \in Requests : Spends(q, k)' /\ phase'[q] \notin {"idle", "arrived", "loaded"}
    BY <1>4 DEF DestroyedBySomeone, Spends, Carried
  <2>1. PICK q \in Requests : Spends(q, k) /\ phase[q] \notin {"idle", "arrived", "loaded"}
    BY DEF HistoryInv, DestroyedBySomeone
  <2> QED  BY <1>1, <1>10, <2>1
<1>12. RefusedForAReason'
  <2> SUFFICES ASSUME NEW c \in Requests, Callback(c)', phase'[c] = "refused"
               PROVE  SpentMeanwhile(c)'
    BY DEF RefusedForAReason
  <2>1. c # r /\ request'[c] = request[c]  BY <1>1, <1>2
  <2>2. SpentMeanwhile(c)
    BY <1>1, <2>1 DEF HistoryInv, RefusedForAReason, Callback
  <2> QED  BY <1>10, <2>1, <2>2 DEF SpentMeanwhile, Carried
<1> QED  BY <1>6, <1>7, <1>8, <1>9, <1>11, <1>12 DEF HistoryInv

\* A callback that carries the session it was sent for finds it unless another
\* request has destroyed it: nobody else's session has its identifier.
LEMMA MissingIsSpent ==
  ASSUME LoginInv, HistoryInv, NEW r \in Requests, At(r, "/auth/callback", "arrived"),
         ~(Found(r) /\ store[Carried(r)] = "csrf")
  PROVE  SpentMeanwhile(r)
<1> SUFFICES ASSUME Carried(r) = request[r].state
             PROVE  \E q \in Requests \ {r} : Spends(q, request[r].state)
  BY DEF SpentMeanwhile
<1> DEFINE k == request[r].state
<1>1. PICK q0 \in Requests : At(q0, "/auth/github", "delivered") /\ setCookie[q0] = k
  BY DEF HistoryInv, CallbacksBring, Callback, At, Brought
<1>2. k # None  BY DEF HistoryInv, CallbacksBring, Callback, At, Brought
<1>3. k \in 1..issued  BY <1>1, <1>2 DEF LoginInv, TypeOK
<1>4. k \in Ids
  <2>1. issued \in 0..Cardinality(Requests) /\ Cardinality(Requests) \in Nat
    BY OAuthAssumption, FS_CardinalityType DEF LoginInv, TypeOK
  <2> QED  BY <1>3, <2>1 DEF Ids
<1>5. store[k] # "user"
  <2> SUFFICES ASSUME store[k] = "user" PROVE FALSE  OBVIOUS
  <2>1. PICK c \in Requests : Callback(c) /\ setCookie[c] = k
    BY <1>4 DEF LoginInv, LoginsAreVerified, UserSessions
  <2>2. c = q0  BY <1>1, <1>2, <2>1 DEF HistoryInv, OneForEach
  <2> QED  BY <1>1, <2>1, <2>2 DEF Callback, At
<1>6. store[k] = None
  <2>1. store[k] \in Sessions \cup {None}  BY <1>4 DEF LoginInv, TypeOK
  <2> QED  BY <1>2, <1>5, <2>1 DEF Found, Sessions
<1>7. PICK q \in Requests : Spends(q, k) /\ phase[q] \notin {"idle", "arrived", "loaded"}
  BY <1>3, <1>6 DEF HistoryInv, DestroyedBySomeone
<1>8. q # r  BY <1>7 DEF At
<1> QED  BY <1>7, <1>8

LEMMA NextHistory == LoginInv /\ HistoryInv /\ [Next]_vars => HistoryInv'
<1> SUFFICES ASSUME LoginInv, HistoryInv, [Next]_vars PROVE HistoryInv'  OBVIOUS
<1> USE DEF At, Goto, Quietly
<1>1. ASSUME NEW r \in Requests, Visit(r) PROVE HistoryInv'
  <2>1. PICK path \in Paths \ {"/auth/callback"} : Send(r, path, None)  BY <1>1 DEF Visit
  <2> QED  BY <2>1, HistoryOfSend
<1>2. ASSUME NEW r \in Requests, ComeBack(r) PROVE HistoryInv'
  <2>1. PICK k \in Ids : Redirected(k) /\ Send(r, "/auth/callback", k)  BY <1>2 DEF ComeBack
  <2>2. k # None /\ "/auth/callback" \in Paths  BY OAuthAssumption DEF Ids, Paths
  <2> QED  BY <2>1, <2>2, HistoryOfSend
<1>3. ASSUME NEW r \in Requests, Deliver(r) PROVE HistoryInv'
  <2>1. /\ phase[r] = "answered" /\ phase' = [phase EXCEPT ![r] = "delivered"]
        /\ jar' = IF request[r].path \in Pages THEN jar ELSE setCookie[r]
        /\ UNCHANGED <<store, issued, request, setCookie>>
    BY <1>3 DEF Deliver
  <2>2. "delivered" \in Phases \ {"idle", "arrived"}  BY DEF Phases
  <2> QED  BY <2>1, <2>2, HistoryOfQuiet
<1>4. ASSUME NEW r \in Requests, Drop(r) PROVE HistoryInv'
  <2>1. "dropped" \in Phases \ {"idle", "arrived"}  BY DEF Phases
  <2> QED  BY <1>4, <2>1, HistoryOfQuiet DEF Drop
<1>5. ASSUME NEW r \in Requests, auth_github(r) PROVE HistoryInv'
  BY <1>5, HistoryOfStore DEF auth_github, Sessions
<1>6. ASSUME NEW r \in Requests, LogIn(r) PROVE HistoryInv'
  BY <1>6, HistoryOfStore DEF LogIn, Sessions
<1>7. ASSUME NEW r \in Requests, LoadCsrfSession(r) PROVE HistoryInv'
  <2>1. PICK p \in {"loaded", "refused"} :
          Quietly(r, p) /\ (p = "refused" => ~(Found(r) /\ store[Carried(r)] = "csrf"))
    BY <1>7 DEF LoadCsrfSession
  <2>2. At(r, "/auth/callback", "arrived")  BY <1>7 DEF LoadCsrfSession
  <2>3. p = "refused" => SpentMeanwhile(r)  BY <2>1, <2>2, MissingIsSpent
  <2>4. p \in Phases \ {"idle", "arrived"}  BY DEF Phases
  <2> QED  BY <2>1, <2>2, <2>3, <2>4, HistoryOfQuiet
<1>8. ASSUME NEW r \in Requests, DestroyAndVerify(r) PROVE HistoryInv'
  <2>1. PICK p \in {"verified", "refused"} :
          Goto(r, p) /\ (p = "refused" => Carried(r) # request[r].state)
    BY <1>8 DEF DestroyAndVerify
  <2>2. Carried(r) # None  BY <1>8 DEF DestroyAndVerify, LoginInv, StoreInv, LoadedIsCsrf
  <2> QED  BY <1>8, <2>1, <2>2, HistoryOfDestroy DEF DestroyAndVerify
<1>9. ASSUME NEW r \in Requests, Logout(r) PROVE HistoryInv'
  <2>1. Carried(r) # None  BY <1>9 DEF Logout, LoginInv, StoreInv, LogoutHasCookie
  <2> QED  BY <1>9, <2>1, HistoryOfDestroy DEF Logout
<1>10. ASSUME NEW r \in Requests,
              \/ RejectQuery(r) \/ Exchange(r) \/ index(r) \/ Protected(r) \/ LoadForLogout(r)
       PROVE  HistoryInv'
  <2>1. PICK p \in {"denied", "approved", "failed", "answered", "refused", "loaded"} :
          /\ Quietly(r, p)
          /\ p = "loaded" => phase[r] = "arrived"
          /\ p = "refused" => ~Callback(r)
    BY <1>10 DEF RejectQuery, Exchange, index, Protected, LoadForLogout, Callback
  <2>2. phase[r] \in {"arrived", "verified"}
    BY <1>10 DEF RejectQuery, Exchange, index, Protected, LoadForLogout
  <2>3. p \in Phases \ {"idle", "arrived"}  BY DEF Phases
  <2> QED  BY <2>1, <2>2, <2>3, HistoryOfQuiet
<1>11. CASE Quiet \/ UNCHANGED vars
  BY <1>11 DEF Quiet, vars, HistoryInv, UnsentIsEmpty, JarIsLanded, CallbacksBring, Brought,
     OneForEach, DestroyedBySomeone, RefusedForAReason, SpentMeanwhile, Spends, Landed,
     Carried, Callback
<1> QED
  BY <1>1, <1>2, <1>3, <1>4, <1>5, <1>6, <1>7, <1>8, <1>9, <1>10, <1>11 DEF Next, Browser, Server

\* A login that no other request of the browser disturbs is not refused, for any
\* number of requests and any order of their answers (main.rs 164-178, 198-219).
THEOREM RefusalsHaveCauses == Spec => []RefusalsAreDisturbances
<1>1. HistoryInv => RefusalsAreDisturbances
  BY DEF HistoryInv, RefusalsAreDisturbances, CallbacksBring, Brought, RefusedForAReason,
     SpentMeanwhile, Spends, Disturbs, Landed
<1> QED  BY <1>1, InitHistory, NextHistory, LoginInvariant, PTL DEF Spec
=============================================================================
