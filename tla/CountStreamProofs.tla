-------------------------- MODULE CountStreamProofs --------------------------
(***************************************************************************)
(* Proofs about the numbers of one connection, for any range of the count, *)
(* any room in the sink and any number of frames.                          *)
(***************************************************************************)
EXTENDS CountStream, TLAPS

\* The present count has been accepted by the sink before.
Accepted == queue # <<>> \/ shown = count

\* While its message is on its way it has; in the sleep the next count has not.
PhaseInv == /\ phase = "flushing" => Accepted
            /\ phase = "sleeping" => ~Accepted
            /\ phase = "hello" => shown = NoNumber /\ queue = <<>>

\* A count about to be sent was accepted before only if a frame came then.
InterruptInv == /\ RepeatsAreInterruptions
                /\ phase \in {"select", "feeding"} /\ Accepted => repeats + Waiting + 1 <= received

CountInv == TypeOK /\ CountFollowsShown /\ PhaseInv /\ InterruptInv

LEMMA Successors ==
  ASSUME NEW n \in Counts
  PROVE  /\ Successor(n) \in Counts /\ Successor(n) # n
         /\ n # NoNumber /\ 0 \in Counts
BY CountStreamAssumption DEF Successor, Counts, MinCount

LEMMA InitCountInv == Init => CountInv
<1> SUFFICES ASSUME Init PROVE CountInv  OBVIOUS
<1>1. 0 \in Counts /\ NoNumber # 0
  BY CountStreamAssumption DEF Counts, MinCount
<1>2. TypeOK  BY <1>1, CountStreamAssumption DEF Init, TypeOK, Live
<1>3. CountFollowsShown  BY DEF Init, CountFollowsShown
<1>4. PhaseInv  BY DEF Init, PhaseInv
<1>5. InterruptInv
  BY DEF Init, InterruptInv, RepeatsAreInterruptions, Waiting, Accepted
<1> QED  BY <1>2, <1>3, <1>4, <1>5 DEF CountInv

\* The handler moves on; sink, count and client stay as they are.
LEMMA QuietStep ==
  ASSUME CountInv, UNCHANGED <<count, queue, shown, repeats>>,
         phase' \in Live \cup {"hello", "ended"}, received' \in 0..MaxFrames,
         received' >= received,
         phase' = "hello" => phase = "hello",
         phase' = "flushing" => Accepted,
         phase' = "sleeping" => ~Accepted,
         phase' \in {"select", "feeding"} /\ Accepted => repeats + Waiting + 1 <= received'
  PROVE  CountInv'
<1> USE DEF CountInv
<1>1. TypeOK'  BY DEF TypeOK
<1>2. CountFollowsShown'  BY DEF CountFollowsShown
<1>3. PhaseInv'  BY DEF PhaseInv, Accepted
<1>4. InterruptInv'
  <2>1. Waiting' = Waiting /\ (Accepted' <=> Accepted)  BY DEF Waiting, Accepted
  <2>2. repeats + Waiting <= received' 
    BY DEF InterruptInv, RepeatsAreInterruptions, TypeOK, Waiting
  <2> QED  BY <2>1, <2>2 DEF InterruptInv, RepeatsAreInterruptions
<1> QED  BY <1>1, <1>2, <1>3, <1>4

LEMMA FeedStep == CountInv /\ Feed => CountInv'
<1> SUFFICES ASSUME CountInv, Feed PROVE CountInv'  OBVIOUS
<1> USE DEF CountInv, Feed
<1>1. queue \in Seq(Counts) /\ count \in Counts /\ Len(queue) < Room  BY DEF TypeOK
<1>2. /\ queue' = Append(queue, count) /\ queue' # <<>> /\ Len(queue') = Len(queue) + 1
      /\ queue' \in Seq(Counts)
  BY <1>1
<1>3. TypeOK'  BY <1>1, <1>2, CountStreamAssumption DEF TypeOK, Live
<1>4. CountFollowsShown'  BY <1>1, <1>2 DEF CountFollowsShown
<1>5. PhaseInv'  BY <1>2 DEF PhaseInv, Accepted
<1>6. InterruptInv'
  <2>1. repeats \in Nat /\ received \in Nat /\ Len(queue) \in Nat /\ (queue = <<>> => Len(queue) = 0)
    BY <1>1, CountStreamAssumption DEF TypeOK
  <2>2. CASE Accepted
    BY <1>2, <2>1, <2>2 DEF InterruptInv, RepeatsAreInterruptions, Waiting, Accepted
  <2>3. CASE ~Accepted
    BY <1>2, <2>1, <2>3 DEF InterruptInv, RepeatsAreInterruptions, Waiting, Accepted
  <2> QED  BY <2>2, <2>3
<1> QED  BY <1>3, <1>4, <1>5, <1>6

LEMMA TakeStep == CountInv /\ Take => CountInv'
<1> SUFFICES ASSUME CountInv, Take PROVE CountInv'  OBVIOUS
<1> USE DEF CountInv, Take
<1>1. queue \in Seq(Counts) /\ queue # <<>> /\ Len(queue) <= Room /\ count \in Counts
  BY DEF TypeOK
<1>2. /\ Tail(queue) \in Seq(Counts) /\ Len(Tail(queue)) = Len(queue) - 1 /\ Len(queue) \in Nat
      /\ \A i \in DOMAIN Tail(queue) : Tail(queue)[i] = queue[i + 1] /\ i + 1 \in DOMAIN queue
  BY <1>1
<1>3. shown' = count /\ count # NoNumber  BY <1>1, Successors DEF CountFollowsShown
<1>4. TypeOK'  BY <1>1, <1>2, <1>3, CountStreamAssumption DEF TypeOK
<1>5. CountFollowsShown'  BY <1>2, <1>3 DEF CountFollowsShown
<1>6. PhaseInv'  BY <1>3 DEF PhaseInv, Accepted, Live
<1>7. InterruptInv'
  <2>1. repeats \in Nat /\ received \in Nat  BY CountStreamAssumption DEF TypeOK
  <2>2. repeats' = IF shown = count THEN repeats + 1 ELSE repeats
    BY <1>1, <1>3
  <2>3. Waiting' = Len(queue) - 1
    <3>1. queue' = Tail(queue) /\ count' = shown'  BY <1>3
    <3> QED  BY ONLY <1>2, <3>1 DEF Waiting
  <2>4. repeats' + Waiting' = repeats + Waiting
    <3>1. Waiting = Len(queue) - (IF shown # count THEN 1 ELSE 0)  BY ONLY <1>1 DEF Waiting
    <3>2. repeats' = repeats + (IF shown # count THEN 0 ELSE 1)  BY ONLY <2>1, <2>2
    <3>3. Len(queue) \in Int  BY <1>2
    <3>4. CASE shown = count  BY ONLY <2>1, <2>3, <3>1, <3>2, <3>3, <3>4
    <3>5. CASE shown # count  BY ONLY <2>1, <2>3, <3>1, <3>2, <3>3, <3>5
    <3> QED  BY <3>4, <3>5
  <2> QED  BY <1>1, <2>4 DEF InterruptInv, RepeatsAreInterruptions, Accepted
<1> QED  BY <1>4, <1>5, <1>6, <1>7

LEMMA SentStep == CountInv /\ Sent => CountInv'
<1> SUFFICES ASSUME CountInv, Sent PROVE CountInv'  OBVIOUS
<1> USE DEF CountInv, Sent
<1>1. shown = count /\ count \in Counts /\ queue = <<>>  BY DEF PhaseInv, Accepted, TypeOK
<1>2. count' \in {count, Successor(count)} /\ count' \in Counts  BY <1>1, Successors
<1>3. TypeOK'  BY <1>2 DEF TypeOK, Live
<1>4. CountFollowsShown'  BY <1>1, <1>2, Successors DEF CountFollowsShown
<1>5. PhaseInv'  BY <1>1, <1>2, Successors DEF PhaseInv, Accepted
<1>6. InterruptInv'
  BY <1>1 DEF InterruptInv, RepeatsAreInterruptions, Waiting, Accepted
<1> QED  BY <1>3, <1>4, <1>5, <1>6

LEMMA NextCountInv == CountInv /\ [Next]_vars => CountInv'
<1> SUFFICES ASSUME CountInv, [Next]_vars PROVE CountInv'  OBVIOUS
<1>a. /\ received \in 0..MaxFrames /\ repeats \in Nat /\ Waiting \in Int
      /\ phase \in Live \cup {"hello", "ended"}
      /\ MaxFrames \in Nat
  BY CountStreamAssumption DEF CountInv, TypeOK, Waiting
<1>b. repeats + Waiting <= received  BY DEF CountInv, InterruptInv, RepeatsAreInterruptions
<1>1. CASE Greet
  <2>1. ~Accepted  BY <1>1, CountStreamAssumption
                   DEF Greet, CountInv, PhaseInv, Accepted, TypeOK, Counts, MinCount
  <2> QED  BY <1>a, <1>1, <2>1, QuietStep DEF Greet, Live
<1>2. CASE Poll
  BY <1>a, <1>2, QuietStep DEF Poll, Live, CountInv, InterruptInv
<1>3. CASE Feed  BY <1>3, FeedStep
<1>4. CASE Take  BY <1>4, TakeStep
<1>5. CASE Sent  BY <1>5, SentStep
<1>6. CASE SleepEnds
  BY <1>a, <1>6, QuietStep DEF SleepEnds, Live, CountInv, PhaseInv
<1>7. CASE SendFails \/ Close
  BY <1>a, <1>7, QuietStep DEF SendFails, Close, Live
<1>8. CASE Receive
  <2>1. received' = received + 1 /\ received' \in 0..MaxFrames /\ received' >= received
        /\ repeats + Waiting + 1 <= received'
    BY <1>a, <1>b, <1>8 DEF Receive
  <2> QED  BY <1>8, <2>1, QuietStep DEF Receive, Live
<1>9. CASE UNCHANGED vars
  BY <1>9 DEF vars, CountInv, TypeOK, CountFollowsShown, PhaseInv, InterruptInv,
              RepeatsAreInterruptions, Waiting, Accepted
<1> QED
  BY <1>1, <1>2, <1>3, <1>4, <1>5, <1>6, <1>7, <1>8, <1>9 DEF Next, Handler, Ended

LEMMA CountInvariant == Spec => []CountInv
<1> QED  BY InitCountInv, NextCountInv, PTL DEF Spec

\* Every variable keeps its type.
THEOREM TypeCorrect == Spec => []TypeOK
<1>1. CountInv => TypeOK  BY DEF CountInv
<1> QED  BY CountInvariant, <1>1, PTL

\* The count never runs ahead of what the client was shown (main.rs 99-107).
THEOREM CountFollows == Spec => []CountFollowsShown
<1>1. CountInv => CountFollowsShown  BY DEF CountInv
<1> QED  BY CountInvariant, <1>1, PTL

\* Each repetition has a frame of its own to blame (main.rs 62-84).
THEOREM RepeatsInterrupted == Spec => []RepeatsAreInterruptions
<1>1. CountInv => RepeatsAreInterruptions  BY DEF CountInv, InterruptInv
<1> QED  BY CountInvariant, <1>1, PTL

\* The client is shown 0, 1, 2, ..., each at least once (main.rs 84-108).
THEOREM NothingSkipped == Spec => NoNumberIsSkipped
<1> DEFINE Step == shown' # shown => IF shown = NoNumber THEN shown' = 0
                                                        ELSE shown' = Successor(shown)
<1>1. ASSUME CountInv, Next PROVE [Step]_shown
  <2> SUFFICES ASSUME shown' # shown PROVE Step  OBVIOUS
  <2>1. Take
    BY <1>1 DEF Next, Handler, Greet, Poll, Feed, Sent, SleepEnds, SendFails, Receive, Close,
                Ended, vars
  <2>2. shown' = queue[1] /\ 1 \in DOMAIN queue
    BY <1>1, <2>1 DEF Take, CountInv, TypeOK
  <2>3. shown' = count  BY <1>1, <2>2 DEF CountInv, CountFollowsShown
  <2> QED  BY <1>1, <2>3 DEF CountInv, CountFollowsShown
<1>2. CountInv /\ [Next]_vars => [Step]_shown
  BY <1>1 DEF vars
<1> QED  BY <1>2, CountInvariant, PTL DEF Spec, NoNumberIsSkipped
=============================================================================
