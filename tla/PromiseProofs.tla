--------------------------- MODULE PromiseProofs ----------------------------
(***************************************************************************)
(* What the abstract specifications promise, for whoever is shown to       *)
(* implement them: the pipe (the tunnel of http-proxy and the relays), the *)
(* room (chat) and the dictionary (key-value-store and                     *)
(* dependency-injection).                                                  *)
(***************************************************************************)
EXTENDS Naturals, Sequences, SequenceTheorems, TLAPS

CONSTANTS FaultsLookLikeEnds,
          Conns, Names, Messages,
          Requests, Keys, Values, Absent

VARIABLES written, finished, got, reader, fault,
          members, listening, queue, feed,
          dict, call

P == INSTANCE Pipe
R == INSTANCE ChatRoom
D == INSTANCE Dictionary

-----------------------------------------------------------------------------
(* The pipe.                                                               *)

\* Nobody is given more than was written.  Whoever sees the end has all of it,
\* and the writer is done; where faults look like ends, unless there was one.
\* Whoever is told of a fault is told the truth.
PipeKeepsItsWord ==
  /\ written \in Nat /\ got \in 0..written
  /\ reader = "ended" /\ (FaultsLookLikeEnds => ~fault) => finished /\ got = written
  /\ reader = "broken" => fault

PipeInv == /\ PipeKeepsItsWord
           /\ finished \in BOOLEAN /\ fault \in BOOLEAN

\* The pipe keeps its word, whatever is written and wherever it fails (http-proxy
\* 72-112, print-request-response 62-69, reqwest-response 58-60, reverse-proxy
\* 52-56).
THEOREM PipesAreHonest == P!Spec => []PipeKeepsItsWord
<1>1. P!Init => PipeInv
  <2> SUFFICES ASSUME P!Init PROVE PipeInv  OBVIOUS
  <2>1. written = 0 /\ got = 0 /\ finished = FALSE /\ reader = "open" /\ fault = FALSE
    BY DEF P!Init
  <2>2. 0 \in 0..0  OBVIOUS
  <2>3. written \in Nat /\ got \in 0..written  BY <2>1, <2>2
  <2> QED  BY <2>1, <2>3 DEF PipeInv, PipeKeepsItsWord
<1>2. PipeInv /\ [P!Next]_(P!vars) => PipeInv'
  <2> SUFFICES ASSUME PipeInv, [P!Next]_(P!vars) PROVE PipeInv'  OBVIOUS
  <2> USE DEF PipeInv, PipeKeepsItsWord
  <2>1. CASE P!Write  BY <2>1 DEF P!Write
  <2>2. CASE P!Finish  BY <2>2 DEF P!Finish
  <2>3. CASE P!Read
    <3>1. got' \in 0..written /\ reader = "open"  BY <2>3 DEF P!Read
    <3> QED  BY <2>3, <3>1 DEF P!Read
  <2>4. CASE P!ReadAll  BY <2>4 DEF P!ReadAll
  <2>5. CASE P!Fail  BY <2>5 DEF P!Fail
  <2>6. CASE P!Break  BY <2>6 DEF P!Break
  <2>7. CASE UNCHANGED P!vars  BY <2>7 DEF P!vars
  <2> QED  BY <2>1, <2>2, <2>3, <2>4, <2>5, <2>6, <2>7 DEF P!Next
<1>3. PipeInv => PipeKeepsItsWord  BY DEF PipeInv
<1> QED  BY <1>1, <1>2, <1>3, PTL DEF P!Spec

-----------------------------------------------------------------------------
(* The room.                                                               *)

\* What a session has been or will be given.
Heard(c) == feed[c] \o queue[c]

\* The shorter of two sequences is the end of the longer one.
SameEnd(s, t) == \A i \in Nat : i < Len(s) /\ i < Len(t) => s[Len(s) - i] = t[Len(t) - i]

\* A name belongs to one session and a session has one name; and any two
\* sessions that listen are told the same things in the same order, from the
\* moment the later of the two began to listen.
NamesAreExclusive == \A m, n \in members : m[1] = n[1] \/ m[2] = n[2] => m = n
ListenersAgree == \A c, d \in listening : SameEnd(Heard(c), Heard(d))

RoomInv ==
  /\ queue \in [Conns -> Seq(Messages)]
  /\ feed \in [Conns -> Seq(Messages)]
  /\ \A c \in Conns \ listening : queue[c] = <<>>
  /\ listening \subseteq Conns /\ members \subseteq Conns \X Names
  /\ NamesAreExclusive
  /\ ListenersAgree

LEMMA PostedToBoth ==
  ASSUME NEW s \in Seq(Messages), NEW t \in Seq(Messages), NEW m \in Messages, SameEnd(s, t)
  PROVE  SameEnd(Append(s, m), Append(t, m))
<1> DEFINE u == Append(s, m)
           v == Append(t, m)
<1>1. /\ Len(u) = Len(s) + 1 /\ Len(v) = Len(t) + 1 /\ Len(s) \in Nat /\ Len(t) \in Nat
      /\ u[Len(s) + 1] = m /\ v[Len(t) + 1] = m
      /\ \A i \in 1..Len(s) : u[i] = s[i]
      /\ \A i \in 1..Len(t) : v[i] = t[i]
  OBVIOUS
<1> HIDE DEF u, v
<1>2. ASSUME NEW i \in Nat, i < Len(u), i < Len(v) PROVE u[Len(u) - i] = v[Len(v) - i]
  <2>1. CASE i = 0  BY <1>1, <2>1
  <2>2. CASE i # 0
    <3>1. i - 1 \in Nat /\ i - 1 < Len(s) /\ i - 1 < Len(t)  BY <1>1, <1>2, <2>2
    <3>2. s[Len(s) - (i - 1)] = t[Len(t) - (i - 1)]  BY <3>1 DEF SameEnd
    <3>3. /\ Len(u) - i = Len(s) - (i - 1) /\ Len(s) - (i - 1) \in 1..Len(s)
          /\ Len(v) - i = Len(t) - (i - 1) /\ Len(t) - (i - 1) \in 1..Len(t)
      BY <1>1, <3>1
    <3> QED  BY <1>1, <3>2, <3>3
  <2> QED  BY <2>1, <2>2
<1> QED  BY <1>2 DEF SameEnd, u, v

\* Two facts of sequences that the library does not state.
LEMMA AppendToTheEnd ==
  ASSUME NEW S, NEW s \in Seq(S), NEW t \in Seq(S), NEW m \in S
  PROVE  s \o Append(t, m) = Append(s \o t, m)
<1> DEFINE h == <<m>>
           u == s \o t
<1>1. h \in Seq(S)  OBVIOUS
<1>2. u \in Seq(S)  BY ConcatProperties
<1>3. Append(t, m) = t \o h  BY AppendIsConcat
<1>4. Append(u, m) = u \o h
  <2> HIDE DEF u
  <2> QED  BY <1>2, AppendIsConcat
<1>5. u \o h = s \o (t \o h)
  <2> HIDE DEF h
  <2> QED  BY <1>1, ConcatAssociative
<1> HIDE DEF u, h
<1>6. s \o Append(t, m) = Append(u, m)  BY <1>3, <1>4, <1>5
<1> QED  BY <1>6 DEF u

LEMMA HeadChangesSides ==
  ASSUME NEW S, NEW s \in Seq(S), NEW t \in Seq(S), t # <<>>
  PROVE  Append(s, Head(t)) \o Tail(t) = s \o t
<1> DEFINE h == <<Head(t)>>
           v == Tail(t)
           w == h \o v
<1>1. /\ Head(t) \in S /\ Head(t) = t[1] /\ Len(t) \in Nat \ {0}
      /\ v \in Seq(S) /\ Len(v) = Len(t) - 1
      /\ \A i \in 1..Len(t) - 1 : v[i] = t[i + 1]
  BY HeadTailProperties
<1>2. h \in Seq(S) /\ Len(h) = 1 /\ h[1] = t[1]  BY <1>1
<1>3. Append(s, Head(t)) = s \o h  BY <1>1, AppendIsConcat
<1>4. w = t
  <2> HIDE DEF v, h
  <2>1. /\ w \in Seq(S) /\ Len(w) = Len(h) + Len(v)
        /\ \A i \in 1..Len(h) + Len(v) : w[i] = IF i <= Len(h) THEN h[i] ELSE v[i - Len(h)]
    BY <1>1, <1>2, ConcatProperties
  <2> HIDE DEF w
  <2>2. Len(w) = Len(t)  BY <1>1, <1>2, <2>1
  <2>3. ASSUME NEW i \in 1..Len(w) PROVE w[i] = t[i]
    <3>1. CASE i = 1
      <4>1. w[i] = h[1]  BY <1>1, <1>2, <2>1, <2>2, <3>1
      <4> QED  BY <4>1, <1>2, <3>1
    <3>2. CASE i # 1
      <4>1. i - 1 \in 1..Len(t) - 1 /\ (i - 1) + 1 = i  BY <1>1, <2>2, <3>2
      <4>2. w[i] = v[i - 1]  BY <1>1, <1>2, <2>1, <2>2, <3>2
      <4> QED  BY <4>1, <4>2, <1>1
    <3> QED  BY <3>1, <3>2
  <2> QED  BY <2>1, <2>2, <2>3, SeqEqual
<1>5. (s \o h) \o v = s \o w
  <2>1. h \in Seq(S) /\ v \in Seq(S)  BY <1>1, <1>2
  <2> HIDE DEF v, h
  <2>2. (s \o h) \o v = s \o (h \o v)  BY <2>1, ConcatAssociative
  <2> QED  BY <2>2 DEF w
<1> HIDE DEF h, w
<1> QED  BY <1>3, <1>4, <1>5

\* What is posted ends what everybody who listens has heard.
LEMMA PostIsHeard ==
  ASSUME RoomInv, NEW m \in Messages, R!Post(m), NEW c \in listening
  PROVE  Heard(c)' = Append(Heard(c), m) /\ Heard(c) \in Seq(Messages)
<1>1. c \in Conns /\ feed[c] \in Seq(Messages) /\ queue[c] \in Seq(Messages)  BY DEF RoomInv
<1>2. feed'[c] = feed[c] /\ queue'[c] = Append(queue[c], m)  BY <1>1 DEF R!Post
<1>3. feed[c] \o queue[c] \in Seq(Messages)  BY <1>1, ConcatProperties
<1>4. feed[c] \o Append(queue[c], m) = Append(feed[c] \o queue[c], m)
  <2> DEFINE s == feed[c]
             t == queue[c]
  <2>1. s \in Seq(Messages) /\ t \in Seq(Messages)  BY <1>1
  <2> HIDE DEF s, t
  <2>2. s \o Append(t, m) = Append(s \o t, m)  BY <2>1, AppendToTheEnd
  <2> QED  BY <2>2 DEF s, t
<1>5. Heard(c)' = feed[c] \o Append(queue[c], m)  BY <1>2 DEF Heard
<1> QED  BY <1>3, <1>4, <1>5 DEF Heard

\* What is delivered was heard already.
LEMMA DeliveryIsHeard ==
  ASSUME RoomInv, NEW c \in Conns, R!Deliver(c), NEW d \in Conns
  PROVE  /\ Heard(d)' = Heard(d)
         /\ feed' \in [Conns -> Seq(Messages)] /\ queue' \in [Conns -> Seq(Messages)]
<1>1. feed[c] \in Seq(Messages) /\ queue[c] \in Seq(Messages) /\ queue[c] # <<>>
  BY DEF RoomInv, R!Deliver
<1>2. Head(queue[c]) \in Messages /\ Tail(queue[c]) \in Seq(Messages)  BY <1>1
<1>3. Append(feed[c], Head(queue[c])) \o Tail(queue[c]) = feed[c] \o queue[c]
  BY <1>1, HeadChangesSides
<1>4. Append(feed[c], Head(queue[c])) \in Seq(Messages)  BY <1>1, <1>2
<1>5. /\ feed' = [feed EXCEPT ![c] = Append(@, Head(queue[c]))]
      /\ queue' = [queue EXCEPT ![c] = Tail(@)]
  BY DEF R!Deliver
<1>6. feed' \in [Conns -> Seq(Messages)] /\ queue' \in [Conns -> Seq(Messages)]
  BY <1>2, <1>4, <1>5 DEF RoomInv
<1>7. CASE d = c
  <2>1. feed'[c] = Append(feed[c], Head(queue[c])) /\ queue'[c] = Tail(queue[c])
    BY <1>5 DEF RoomInv
  <2> QED  BY <1>3, <1>6, <1>7, <2>1 DEF Heard
<1>8. CASE d # c
  <2>1. feed'[d] = feed[d] /\ queue'[d] = queue[d]  BY <1>5, <1>8 DEF RoomInv
  <2> QED  BY <1>6, <2>1 DEF Heard
<1> QED  BY <1>6, <1>7, <1>8

\* The room keeps its names apart and its listeners in agreement, for any number
\* of sessions, names and messages (examples/chat, main.rs 89-110 and 127-134).
THEOREM RoomKeepsOrder == R!Spec => [](NamesAreExclusive /\ ListenersAgree)
<1>1. R!Init => RoomInv
  BY DEF R!Init, RoomInv, NamesAreExclusive, ListenersAgree
<1>2. RoomInv /\ [R!Next]_(R!vars) => RoomInv'
  <2> SUFFICES ASSUME RoomInv, [R!Next]_(R!vars) PROVE RoomInv'  OBVIOUS
  <2>0. /\ queue \in [Conns -> Seq(Messages)] /\ feed \in [Conns -> Seq(Messages)]
        /\ listening \subseteq Conns
        /\ \A c \in Conns \ listening : queue[c] = <<>>
    BY DEF RoomInv
  <2>a. ASSUME UNCHANGED <<listening, queue, feed>>, NamesAreExclusive',
               members' \subseteq Conns \X Names
        PROVE  RoomInv'
    BY <2>a DEF RoomInv, ListenersAgree, Heard
  <2>b. UNCHANGED members => NamesAreExclusive' /\ members' \subseteq Conns \X Names
    BY DEF RoomInv, NamesAreExclusive
  <2>1. ASSUME NEW c \in Conns, NEW n \in Names, R!Enter(c, n) PROVE RoomInv'
    <3> DEFINE p == <<c, n>>
    <3>1. /\ \A m \in members : m[1] # c /\ m[2] # n
          /\ members' = members \cup {p}
      BY <2>1 DEF R!Enter
    <3>2. p[1] = c /\ p[2] = n /\ p \in Conns \X Names  OBVIOUS
    <3> HIDE DEF p
    <3>3. NamesAreExclusive'
      BY <3>1, <3>2 DEF RoomInv, NamesAreExclusive
    <3>4. members' \subseteq Conns \X Names  BY <3>1, <3>2 DEF RoomInv
    <3> QED  BY <2>1, <3>3, <3>4, <2>a DEF R!Enter
  <2>2. ASSUME NEW c \in Conns, R!Exit(c) PROVE RoomInv'
    <3>1. NamesAreExclusive' /\ members' \subseteq Conns \X Names
      BY <2>2 DEF R!Exit, RoomInv, NamesAreExclusive
    <3> QED  BY <2>2, <3>1, <2>a DEF R!Exit
  <2>3. ASSUME NEW c \in Conns, R!Listen(c) PROVE RoomInv'
    <3>1. /\ c \notin listening /\ listening' = listening \cup {c} /\ feed[c] = <<>>
          /\ UNCHANGED <<members, queue, feed>>
      BY <2>3 DEF R!Listen
    <3>2. queue[c] = <<>>  BY <2>0, <3>1
    <3>3. Len(Heard(c)) = 0  BY <3>1, <3>2 DEF Heard
    <3>4. \A d \in Conns : Heard(d)' = Heard(d)  BY <3>1 DEF Heard
    <3>5. \A d \in Conns : Len(Heard(d)) \in Nat  BY <2>0 DEF Heard
    <3>6. ASSUME NEW d \in listening', NEW e \in listening' PROVE SameEnd(Heard(d), Heard(e))
      <4>1. CASE d = c \/ e = c  BY <4>1, <3>3 DEF SameEnd
      <4>2. CASE d # c /\ e # c
        BY <4>2, <3>1, <3>6 DEF RoomInv, ListenersAgree
      <4> QED  BY <4>1, <4>2
    <3>7. ListenersAgree'
      BY <3>6, <3>4, <3>1, <2>0 DEF ListenersAgree, SameEnd
    <3> QED  BY <2>0, <2>b, <3>1, <3>7 DEF RoomInv
  <2>4. ASSUME NEW c \in Conns, R!HangUp(c) PROVE RoomInv'
    <3>1. /\ listening' = listening \ {c} /\ queue' = [queue EXCEPT ![c] = <<>>]
          /\ UNCHANGED <<members, feed>>
      BY <2>4 DEF R!HangUp
    <3>2. queue' \in [Conns -> Seq(Messages)]  BY <2>0, <3>1
    <3>3. \A d \in listening' : d \in listening /\ Heard(d)' = Heard(d)
      BY <2>0, <3>1 DEF Heard
    <3>4. ListenersAgree'
      BY <3>3 DEF RoomInv, ListenersAgree, SameEnd
    <3>5. \A d \in Conns \ listening' : queue'[d] = <<>>  BY <2>0, <3>1
    <3> QED  BY <2>0, <2>b, <3>1, <3>2, <3>4, <3>5 DEF RoomInv
  <2>5. ASSUME NEW c \in Conns, R!Deliver(c) PROVE RoomInv'
    <3>1. UNCHANGED <<members, listening>>  BY <2>5 DEF R!Deliver
    <3>2. /\ feed' \in [Conns -> Seq(Messages)] /\ queue' \in [Conns -> Seq(Messages)]
          /\ \A d \in Conns : Heard(d)' = Heard(d)
      BY <2>5, DeliveryIsHeard
    <3>3. ListenersAgree'
      BY <2>0, <3>1, <3>2 DEF RoomInv, ListenersAgree, SameEnd
    <3>4. \A d \in Conns \ listening' : queue'[d] = <<>>
      BY <2>0, <2>5, <3>1 DEF R!Deliver
    <3> QED  BY <2>0, <2>b, <3>1, <3>2, <3>3, <3>4 DEF RoomInv
  <2>6. ASSUME NEW m \in Messages, R!Post(m) PROVE RoomInv'
    <3>1. /\ UNCHANGED <<members, listening, feed>>
          /\ queue' = [c \in Conns |-> IF c \in listening THEN Append(queue[c], m)
                                                          ELSE queue[c]]
      BY <2>6 DEF R!Post
    <3>2. queue' \in [Conns -> Seq(Messages)]  BY <2>0, <3>1
    <3>3. ASSUME NEW d \in listening, NEW e \in listening PROVE SameEnd(Heard(d)', Heard(e)')
      <4>1. SameEnd(Heard(d), Heard(e))  BY DEF RoomInv, ListenersAgree
      <4> QED  BY <2>6, <4>1, PostIsHeard, PostedToBoth
    <3>4. ListenersAgree'  BY <3>1, <3>3 DEF ListenersAgree, SameEnd
    <3>5. \A d \in Conns \ listening' : queue'[d] = <<>>  BY <2>0, <3>1
    <3> QED  BY <2>0, <2>b, <3>1, <3>2, <3>4, <3>5 DEF RoomInv
  <2>7. CASE UNCHANGED R!vars  BY <2>7, <2>a, <2>b DEF R!vars
  <2> QED  BY <2>1, <2>2, <2>3, <2>4, <2>5, <2>6, <2>7 DEF R!Next
<1>3. RoomInv => NamesAreExclusive /\ ListenersAgree  BY DEF RoomInv
<1> QED  BY <1>1, <1>2, <1>3, PTL DEF R!Spec

-----------------------------------------------------------------------------
(* The dictionary.                                                         *)

Results == Values \cup {Absent} \cup SUBSET Keys
Calls == {D!Idle, D!Refused} \cup {D!Pending(o) : o \in D!Operations}
         \cup {D!Applied(x) : x \in Results}
DictionaryTypes == /\ dict \in [Keys -> Values \cup {Absent}]
                   /\ call \in [Requests -> Calls]

\* An answer is final, and the dictionary changes only with the one request that
\* is answered in the same step: no call has an effect twice, and one that is
\* refused has none, then or later.
AnswersAreFinal ==
  [][/\ \A r \in Requests : call[r].state \in {"applied", "refused"} => call'[r] = call[r]
     /\ dict' # dict => \E r \in Requests :
          /\ call[r].state = "pending" /\ call'[r].state = "applied"
          /\ \A q \in Requests \ {r} : call'[q] = call[q]]_<<dict, call>>

\* Each call is answered at most once and takes effect with its answer only, for
\* any number of calls, keys and values (key-value-store 78-125,
\* dependency-injection 47-86).
THEOREM DictionaryAnswersOnce == D!Spec => []DictionaryTypes /\ AnswersAreFinal
<1> DEFINE Step == /\ \A r \in Requests : call[r].state \in {"applied", "refused"} => call'[r] = call[r]
                   /\ dict' # dict => \E r \in Requests :
                        /\ call[r].state = "pending" /\ call'[r].state = "applied"
                        /\ \A q \in Requests \ {r} : call'[q] = call[q]
<1>1. D!Init => DictionaryTypes
  BY DEF D!Init, DictionaryTypes, Calls
<1>2. ASSUME DictionaryTypes, [D!Next]_(D!vars) PROVE DictionaryTypes' /\ Step
  <2>1. dict \in [Keys -> Values \cup {Absent}] /\ call \in [Requests -> Calls]
    BY <1>2 DEF DictionaryTypes
  <2>2. ASSUME NEW r \in Requests, D!Refuse(r) PROVE DictionaryTypes' /\ Step
    <3>1. /\ call[r].state \in {"idle", "pending"} /\ dict' = dict
          /\ call' = [call EXCEPT ![r] = D!Refused]
      BY <2>2 DEF D!Refuse
    <3>2. D!Refused \in Calls  BY DEF Calls
    <3> QED  BY <2>1, <3>1, <3>2 DEF DictionaryTypes
  <2>3. ASSUME NEW r \in Requests, NEW o \in D!Operations, D!Invoke(r, o)
        PROVE  DictionaryTypes' /\ Step
    <3>1. call[r] = D!Idle /\ dict' = dict /\ call' = [call EXCEPT ![r] = D!Pending(o)]
      BY <2>3 DEF D!Invoke
    <3>2. D!Pending(o) \in Calls  BY DEF Calls
    <3>3. call[r].state = "idle"  BY <3>1 DEF D!Idle
    <3> QED  BY <2>1, <3>1, <3>2, <3>3 DEF DictionaryTypes
  <2>4. ASSUME NEW r \in Requests, NEW o \in D!Operations, D!Apply(r, o)
        PROVE  DictionaryTypes' /\ Step
    <3> DEFINE x == D!Result(o)
    <3>1. /\ call[r] = D!Pending(o) /\ dict' = D!Effect(o)
          /\ call' = [call EXCEPT ![r] = D!Applied(x)]
      BY <2>4 DEF D!Apply
    <3>2. x \in Results /\ D!Effect(o) \in [Keys -> Values \cup {Absent}]
      BY <2>1 DEF D!Operations, D!Result, D!Effect, Results
    <3> HIDE DEF x
    <3>3. D!Applied(x) \in Calls  BY <3>2 DEF Calls
    <3>4. call[r].state = "pending" /\ call'[r].state = "applied"
      BY <2>1, <3>1 DEF D!Pending, D!Applied
    <3>5. \A q \in Requests \ {r} : call'[q] = call[q]  BY <2>1, <3>1
    <3> QED  BY <2>1, <3>1, <3>2, <3>3, <3>4, <3>5 DEF DictionaryTypes
  <2>5. CASE UNCHANGED D!vars  BY <2>5, <1>2 DEF D!vars, DictionaryTypes
  <2> QED  BY <1>2, <2>2, <2>3, <2>4, <2>5 DEF D!Next
<1>3. DictionaryTypes /\ [D!Next]_(D!vars) => DictionaryTypes' /\ [Step]_<<dict, call>>
  BY <1>2 DEF D!vars
<1> QED  BY <1>1, <1>3, PTL DEF D!Spec, AnswersAreFinal
=============================================================================
