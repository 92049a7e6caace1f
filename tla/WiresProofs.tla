----------------------------- MODULE WiresProofs -----------------------------
(***************************************************************************)
(* What holds of the programs that are about connections, for any number   *)
(* of bytes, chunks, connections and events.                               *)
(***************************************************************************)
EXTENDS MCWires, TLAPS

-----------------------------------------------------------------------------
(* The tunnel: an open one has passed on no end before all the bytes.      *)

TunnelInv ==
  /\ TunnelTypeOK
  /\ tunnel \in {"absent", "answered", "connecting"} =>
       eof = {} /\ \A d \in Directions : received[d] = 0 /\ buffer[d] = 0
  /\ ~trouble \/ tunnel = "open" => \A d \in eof : d \in closing /\ received[d] = wrote[d]

\* Nothing is open at the start (examples/http-proxy, main.rs 41-46).
LEMMA TunnelStarts == TunnelInit => TunnelInv
<1> SUFFICES ASSUME TunnelInit PROVE TunnelInv  OBVIOUS
<1>1. TunnelTypeOK
  <2>1. wrote \in [Directions -> 0..MaxBytes]  BY TunnelAssumption DEF TunnelInit
  <2>2. buffer \in [Directions -> Nat] /\ received \in [Directions -> Nat]  BY DEF TunnelInit
  <2>3. \A d \in Directions : received[d] + buffer[d] <= wrote[d]  BY DEF TunnelInit
  <2>4. tunnel = "absent" /\ closing = {} /\ eof = {} /\ trouble = FALSE  BY DEF TunnelInit
  <2> QED  BY <2>1, <2>2, <2>3, <2>4 DEF TunnelTypeOK
<1>2. tunnel = "absent" /\ eof = {} /\ \A d \in Directions : received[d] = 0 /\ buffer[d] = 0
  BY DEF TunnelInit
<1> QED  BY <1>1, <1>2 DEF TunnelInv

\* Copying and closing keep the two directions apart (examples/http-proxy,
\* main.rs 66-112).
LEMMA TunnelSteps == TunnelInv /\ [TunnelNext]_tunnelVars => TunnelInv'
<1> SUFFICES ASSUME TunnelInv, [TunnelNext]_tunnelVars PROVE TunnelInv'  OBVIOUS
<1> USE TunnelAssumption DEF TunnelInv, TunnelTypeOK, Turn, Copies
<1>1. CASE Accepted \/ NotTunnelled  BY <1>1 DEF Accepted, NotTunnelled
<1>2. CASE Upgraded \/ Connected  BY <1>2 DEF Upgraded, Connected
<1>3. CASE UpgradeFails \/ ConnectFails  BY <1>3 DEF UpgradeFails, ConnectFails, Drop
<1>4. CASE BothDone \/ CopyFails  BY <1>4 DEF BothDone, CopyFails, Drop
<1>5. CASE Reset  BY <1>5 DEF Reset
<1>6. ASSUME NEW d \in Directions, Send(d) PROVE TunnelInv'
  BY <1>6 DEF Send
<1>7. ASSUME NEW d \in Directions, ShutDown(d) PROVE TunnelInv'
  BY <1>7 DEF ShutDown
<1>8. ASSUME NEW d \in Directions, Fill(d) PROVE TunnelInv'
  BY <1>8 DEF Fill
<1>9. ASSUME NEW d \in Directions, Flush(d) PROVE TunnelInv'
  BY <1>9 DEF Flush
<1>10. ASSUME NEW d \in Directions, PassEof(d) PROVE TunnelInv'
  BY <1>10 DEF PassEof
<1>11. CASE TunnelQuiet \/ UNCHANGED tunnelVars
  BY <1>11 DEF TunnelQuiet, tunnelVars
<1> QED  BY <1>1, <1>2, <1>3, <1>4, <1>5, <1>6, <1>7, <1>8, <1>9, <1>10, <1>11
         DEF TunnelNext, Establish, Copy

LEMMA TunnelInvariant == TunnelSpec => []TunnelInv
BY TunnelStarts, TunnelSteps, PTL DEF TunnelSpec

\* Nothing is received or held that was not written, for any number of bytes
\* (main.rs 97-112).
THEOREM TunnelTypeCorrect == TunnelSpec => []TunnelTypeOK
BY TunnelInvariant, PTL DEF TunnelInv

\* Whoever sees the end of his direction has all that the other side wrote
\* before it finished, unless there was trouble; in an open tunnel even then
\* (main.rs 101-112).
EndsAreHonest ==
  \A d \in eof : ~trouble \/ tunnel = "open" => d \in closing /\ received[d] = wrote[d]
THEOREM TunnelEndsAreHonest == TunnelSpec => []EndsAreHonest
<1>1. TunnelInv => EndsAreHonest  BY DEF TunnelInv, EndsAreHonest
<1> QED  BY <1>1, TunnelInvariant, PTL


\* One direction of the tunnel, as a step of module Pipe would have it.
Keeps(d) == wrote'[d] = wrote[d] /\ (d \in closing' <=> d \in closing)
Same(d) == Keeps(d) /\ received'[d] = received[d] /\ Reader(d)' = Reader(d) /\ trouble' = trouble
Writes(d) == /\ d \notin closing /\ d \notin closing' /\ wrote'[d] = wrote[d] + 1
             /\ received'[d] = received[d] /\ Reader(d)' = Reader(d) /\ trouble' = trouble
Finishes(d) == /\ d \in closing' /\ wrote'[d] = wrote[d]
               /\ received'[d] = received[d] /\ Reader(d)' = Reader(d) /\ trouble' = trouble
Reads(d) == /\ Keeps(d) /\ Reader(d) = "open" /\ received'[d] \in received[d] + 1..wrote[d]
            /\ Reader(d)' = Reader(d) /\ trouble' = trouble
ReadsAll(d) == /\ Keeps(d) /\ Reader(d) = "open" /\ d \in closing
               /\ received'[d] = wrote[d] /\ Reader(d)' = "ended" /\ trouble' = trouble
Fails(d) == /\ Keeps(d) /\ received'[d] = received[d] /\ trouble' = TRUE
            /\ Reader(d)' = Reader(d)
Breaks(d) == /\ Keeps(d) /\ received'[d] = received[d] /\ trouble' = TRUE
             /\ Reader(d) = "open" /\ Reader(d)' = "ended"
Moves(d) == \/ Same(d) \/ Writes(d) \/ Finishes(d) \/ Reads(d) \/ ReadsAll(d)
            \/ Fails(d) \/ Breaks(d)

\* Whatever the tunnel does, each direction moves as a pipe (main.rs 97-112).
LEMMA DirectionsMove ==
  ASSUME TunnelInv, [TunnelNext]_tunnelVars, NEW d \in Directions
  PROVE  Moves(d)
<1> USE DEF Moves, Keeps, Reader
<1>t. TunnelTypeOK  BY DEF TunnelInv
<1>1. CASE Accepted \/ NotTunnelled \/ Upgraded \/ Connected
  BY <1>1 DEF Accepted, NotTunnelled, Upgraded, Connected, Copies, Same
<1>2. CASE Reset
  BY <1>2 DEF Reset, Copies, Fails
<1>3. CASE UpgradeFails \/ ConnectFails \/ CopyFails
  <2>1. trouble' = TRUE /\ Drop
    BY <1>3, <1>t DEF UpgradeFails, ConnectFails, CopyFails, TunnelTypeOK
  <2>2. d \in eof => Fails(d)  BY <2>1 DEF Drop, Fails
  <2>3. d \notin eof => Breaks(d)  BY <2>1 DEF Drop, Breaks
  <2> QED  BY <2>2, <2>3
<1>4. CASE BothDone
  BY <1>4 DEF BothDone, Drop, Same
<1>5. ASSUME NEW e \in Directions, Send(e) PROVE Moves(d)
  <2>1. e = d => Writes(d)  BY <1>5, <1>t DEF Send, Writes, TunnelTypeOK
  <2>2. e # d => Same(d)  BY <1>5, <1>t DEF Send, Same, TunnelTypeOK
  <2> QED  BY <2>1, <2>2
<1>6. ASSUME NEW e \in Directions, ShutDown(e) PROVE Moves(d)
  <2>1. e = d => Finishes(d)  BY <1>6, <1>t DEF ShutDown, Finishes, TunnelTypeOK
  <2>2. e # d => Same(d)  BY <1>6, <1>t DEF ShutDown, Same, TunnelTypeOK
  <2> QED  BY <2>1, <2>2
<1>7. ASSUME NEW e \in Directions, Fill(e) PROVE Moves(d)
  BY <1>7 DEF Fill, Same
<1>8. ASSUME NEW e \in Directions, Flush(e) PROVE Moves(d)
  <2>1. e = d => Reads(d)
    <3> SUFFICES ASSUME e = d PROVE Reads(d)  OBVIOUS
    <3>1. d \notin eof
      BY <1>8, <1>t DEF Flush, TunnelInv, TunnelTypeOK
    <3>2. received'[d] = received[d] + 1 /\ received[d] + 1 <= wrote[d]
      BY <1>8, <1>t DEF Flush, TunnelTypeOK
    <3> QED  BY <1>8, <1>t, <3>1, <3>2 DEF Flush, Reads, TunnelTypeOK
  <2>2. e # d => Same(d)  BY <1>8, <1>t DEF Flush, Same, TunnelTypeOK
  <2> QED  BY <2>1, <2>2
<1>9. ASSUME NEW e \in Directions, PassEof(e) PROVE Moves(d)
  <2>1. e = d => ReadsAll(d)  BY <1>9, <1>t DEF PassEof, ReadsAll, TunnelTypeOK
  <2>2. e # d => Same(d)  BY <1>9, <1>t DEF PassEof, Same, TunnelTypeOK
  <2> QED  BY <2>1, <2>2
<1>10. CASE TunnelQuiet \/ UNCHANGED tunnelVars
  BY <1>10 DEF TunnelQuiet, tunnelVars, Same
<1> QED  BY <1>1, <1>2, <1>3, <1>4, <1>5, <1>6, <1>7, <1>8, <1>9, <1>10
         DEF TunnelNext, Establish, Copy

LEMMA UpMoves == Moves("up") => [Up!Next]_(Up!vars)
BY DEF Moves, Keeps, Same, Writes, Finishes, Reads, ReadsAll, Fails, Breaks, Up!Next, Up!vars,
       Up!Write, Up!Finish, Up!Read, Up!ReadAll, Up!Fail, Up!Break

LEMMA DownMoves == Moves("down") => [Down!Next]_(Down!vars)
BY DEF Moves, Keeps, Same, Writes, Finishes, Reads, ReadsAll, Fails, Breaks, Down!Next,
       Down!vars, Down!Write, Down!Finish, Down!Read, Down!ReadAll, Down!Fail, Down!Break

\* Both directions of the tunnel implement module Pipe: nothing is lost or made
\* up without trouble, and no end is passed on too early, for any number of
\* bytes (main.rs 72-103).
THEOREM TunnelIsTwoPipes == TunnelSpec => DirectionsArePipes
<1>1. TunnelInit => Up!Init /\ Down!Init
  BY DEF TunnelInit, Up!Init, Down!Init, Reader, Directions
<1>2. TunnelInv /\ [TunnelNext]_tunnelVars => [Up!Next]_(Up!vars) /\ [Down!Next]_(Down!vars)
  BY DirectionsMove, UpMoves, DownMoves DEF Directions
<1> QED  BY <1>1, <1>2, TunnelInvariant, PTL
         DEF TunnelSpec, DirectionsArePipes, Up!Spec, Down!Spec

-----------------------------------------------------------------------------
(* Events: what the client has been shown, what waits in the channel and   *)
(* what the producer has just taken are consecutive numbers.               *)

Numbers == 0..Cycle - 1
LastSent == IF channel = <<>> THEN shown ELSE channel[Len(channel)]
Chained == /\ channel # <<>> => channel[1] = After(shown)
           /\ \A i \in 1..Len(channel) - 1 : channel[i + 1] = After(channel[i])
EventInv ==
  /\ EventTypeOK
  /\ open => /\ producer # "ended" /\ shown \in Numbers
             /\ Chained
             /\ samples = IF producer = "sending" THEN After(LastSent) ELSE LastSent

\* The number of a sample is one of those it can have (examples/sse, main.rs
\* 44-63).
LEMMA AfterNumbers == ASSUME NEW n \in Numbers PROVE After(n) \in Numbers
BY EventStreamAssumption DEF After, Numbers

\* Nothing is sampled at the start (main.rs 40-44).
LEMMA EventsStart == EventInit => EventInv
<1> SUFFICES ASSUME EventInit PROVE EventInv  OBVIOUS
<1>1. channel = <<>> /\ Len(channel) = 0 /\ channel \in Seq(0..Cycle - 1)  BY DEF EventInit
<1>2. 0 \in Numbers  BY EventStreamAssumption DEF Numbers
<1>3. EventTypeOK
  <2>1. Len(channel) <= Capacity  BY <1>1, EventStreamAssumption
  <2>2. samples \in Numbers /\ shown \in Numbers  BY <1>2 DEF EventInit
  <2>3. producer = "sampling" /\ open = TRUE /\ comments = FALSE  BY DEF EventInit
  <2> QED  BY <2>1, <2>2, <2>3, <1>1 DEF EventTypeOK, Numbers
<1>4. Chained /\ LastSent = shown  BY <1>1 DEF Chained, LastSent
<1> QED  BY <1>2, <1>3, <1>4 DEF EventInit, EventInv

\* What is taken from a channel without gaps leaves one without gaps, and is
\* the next event (main.rs 77-80).
LEMMA YieldIsNext ==
  ASSUME EventInv, Yield
  PROVE  EventInv' /\ shown' = After(shown)
<1>1. open /\ channel # <<>> /\ shown' = Head(channel) /\ channel' = Tail(channel)
  BY DEF EventInv, Yield
<1>t. EventTypeOK /\ Chained /\ shown \in Numbers  BY <1>1 DEF EventInv
<1>2. channel \in Seq(Numbers) /\ Len(channel) \in Nat \ {0}
  BY <1>1, <1>t DEF EventTypeOK, Numbers
<1>3. /\ channel' \in Seq(Numbers) /\ Len(channel') = Len(channel) - 1
      /\ \A i \in 1..Len(channel') : channel'[i] = channel[i + 1]
  BY <1>1, <1>2
<1>4. shown' = channel[1] /\ shown' \in Numbers  BY <1>1, <1>2
<1>5. Chained'
  <2>1. channel' # <<>> => channel'[1] = After(shown')
    <3> SUFFICES ASSUME channel' # <<>> PROVE channel[2] = After(channel[1])  BY <1>3, <1>4
    <3> QED  BY <1>2, <1>3, <1>t DEF Chained
  <2>2. \A i \in 1..Len(channel') - 1 : channel'[i + 1] = After(channel'[i])
    BY <1>2, <1>3, <1>t DEF Chained
  <2> QED  BY <2>1, <2>2 DEF Chained, After
<1>6. LastSent' = LastSent
  <2>1. CASE Len(channel) = 1
    BY <2>1, <1>1, <1>2, <1>3, <1>4 DEF LastSent
  <2>2. CASE Len(channel) # 1
    <3>1. channel' # <<>>  BY <2>2, <1>2, <1>3
    <3>2. channel'[Len(channel')] = channel[Len(channel)]  BY <2>2, <1>2, <1>3
    <3> QED  BY <3>1, <3>2, <1>1 DEF LastSent
  <2> QED  BY <2>1, <2>2
<1>7. EventTypeOK'
  <2>1. Len(channel') <= Capacity
    BY <1>2, <1>3, <1>t, EventStreamAssumption DEF EventTypeOK
  <2>2. /\ producer' = producer /\ samples' = samples /\ open' = open /\ comments' = FALSE
    BY DEF Yield
  <2> QED  BY <2>1, <2>2, <1>3, <1>4, <1>t DEF EventTypeOK, Numbers
<1>8. producer' = producer /\ samples' = samples /\ open' = open  BY DEF Yield
<1>9. EventInv'
  BY <1>1, <1>4, <1>5, <1>6, <1>7, <1>8 DEF EventInv, After
<1>10. shown' = After(shown)  BY <1>1, <1>4, <1>t DEF Chained
<1> QED  BY <1>9, <1>10

\* A sample that is sent goes behind the one before it (main.rs 65-71).
LEMMA SendKeepsOrder == ASSUME EventInv, SendSample PROVE EventInv'
<1>1. open /\ channel' = Append(channel, samples) /\ Len(channel) < Capacity
  BY DEF SendSample
<1>t. EventTypeOK /\ Chained /\ shown \in Numbers /\ samples = After(LastSent)
  BY <1>1 DEF EventInv, SendSample
<1>2. channel \in Seq(Numbers) /\ Len(channel) \in Nat /\ samples \in Numbers
  BY <1>t DEF EventTypeOK, Numbers
<1>3. /\ channel' \in Seq(Numbers) /\ Len(channel') = Len(channel) + 1
      /\ \A i \in 1..Len(channel) : channel'[i] = channel[i]
      /\ channel'[Len(channel) + 1] = samples
  BY <1>1, <1>2
<1>4. Chained'
  <2>1. channel'[1] = After(shown)
    <3>1. CASE channel = <<>>  BY <3>1, <1>3, <1>t DEF LastSent
    <3>2. CASE channel # <<>>  BY <3>2, <1>2, <1>3, <1>t DEF Chained
    <3> QED  BY <3>1, <3>2
  <2>2. ASSUME NEW i \in 1..Len(channel') - 1
        PROVE  channel'[i + 1] = After(channel'[i])
    <3>1. CASE i = Len(channel)
      <4>1. channel # <<>> /\ channel'[i] = channel[Len(channel)]  BY <2>2, <3>1, <1>2, <1>3
      <4> QED  BY <3>1, <4>1, <1>3, <1>t DEF LastSent
    <3>2. CASE i # Len(channel)
      <4>1. i \in 1..Len(channel) - 1 /\ i \in 1..Len(channel) /\ i + 1 \in 1..Len(channel)
        BY <2>2, <3>2, <1>2, <1>3
      <4> QED  BY <4>1, <1>3, <1>t DEF Chained
    <3> QED  BY <3>1, <3>2
  <2>3. shown' = shown  BY DEF SendSample
  <2> QED  BY <2>1, <2>2, <2>3 DEF Chained, After
<1>5. LastSent' = samples
  <2>1. channel' # <<>>  BY <1>2, <1>3
  <2> QED  BY <2>1, <1>3, <1>2 DEF LastSent
<1>6. EventTypeOK'
  BY <1>1, <1>2, <1>3, <1>t, EventStreamAssumption DEF EventTypeOK, SendSample, Numbers
<1> QED  BY <1>4, <1>5, <1>6, <1>t DEF EventInv, SendSample

\* The producer, the client and the keep-alive leave no gap (main.rs 40-96).
LEMMA EventSteps == EventInv /\ [EventNext]_eventVars => EventInv'
<1> SUFFICES ASSUME EventInv, [EventNext]_eventVars PROVE EventInv'  OBVIOUS
<1>t. EventTypeOK  BY DEF EventInv
<1>1. CASE Sample
  <2>1. samples' \in Numbers
    BY <1>1, <1>t, AfterNumbers DEF Sample, EventTypeOK, Numbers
  <2>2. channel' = channel /\ shown' = shown /\ open' = open /\ comments' = comments
        /\ producer = "sampling" /\ producer' = "sending" /\ samples' = After(samples)
    BY <1>1 DEF Sample
  <2>3. EventTypeOK'  BY <2>1, <2>2, <1>t DEF EventTypeOK, Numbers
  <2>4. LastSent' = LastSent /\ (Chained' <=> Chained)  BY <2>2 DEF LastSent, Chained, After
  <2>5. open => samples = LastSent  BY <2>2 DEF EventInv
  <2>6. open' => samples' = After(LastSent')  BY <2>2, <2>4, <2>5
  <2> QED  BY <2>2, <2>3, <2>4, <2>6 DEF EventInv
<1>2. CASE SendSample
  BY <1>2, SendKeepsOrder DEF SendSample
<1>3. CASE SendSampleFails
  BY <1>3, <1>t DEF SendSampleFails, EventInv, EventTypeOK
<1>4. CASE Wake
  <2>1. channel' = channel /\ shown' = shown /\ open' = open /\ comments' = comments
        /\ producer = "sleeping" /\ producer' = "sampling" /\ samples' = samples
    BY <1>4 DEF Wake
  <2>2. LastSent' = LastSent /\ (Chained' <=> Chained)  BY <2>1 DEF LastSent, Chained, After
  <2>3. EventTypeOK'  BY <2>1, <1>t DEF EventTypeOK
  <2> QED  BY <2>1, <2>2, <2>3 DEF EventInv
<1>5. CASE Yield
  BY <1>5, YieldIsNext
<1>6. CASE KeepAlive
  <2>1. channel' = channel /\ shown' = shown /\ open' = open /\ producer' = producer
        /\ samples' = samples /\ comments' = TRUE
    BY <1>6 DEF KeepAlive
  <2>2. LastSent' = LastSent /\ (Chained' <=> Chained)  BY <2>1 DEF LastSent, Chained, After
  <2>3. EventTypeOK'  BY <2>1, <1>t DEF EventTypeOK
  <2> QED  BY <2>1, <2>2, <2>3 DEF EventInv
<1>7. CASE Disconnect
  <2>1. channel' = <<>> /\ Len(channel') = 0 /\ channel' \in Seq(0..Cycle - 1)
    BY <1>7 DEF Disconnect
  <2>2. EventTypeOK'
    <3>1. /\ producer' = producer /\ samples' = samples /\ shown' = shown
          /\ open' = FALSE /\ comments' = comments
      BY <1>7 DEF Disconnect
    <3>2. Len(channel') <= Capacity  BY <2>1, EventStreamAssumption
    <3> QED  BY <2>1, <3>1, <3>2, <1>t DEF EventTypeOK
  <2> QED  BY <1>7, <2>2 DEF Disconnect, EventInv
<1>8. CASE EventRest \/ UNCHANGED eventVars
  <2>1. UNCHANGED eventVars  BY <1>8 DEF EventRest
  <2>2. LastSent' = LastSent /\ (Chained' <=> Chained)
    BY <2>1 DEF eventVars, LastSent, Chained, After
  <2>3. EventTypeOK'  BY <2>1, <1>t DEF eventVars, EventTypeOK
  <2> QED  BY <2>1, <2>2, <2>3 DEF EventInv, eventVars
<1> QED  BY <1>1, <1>2, <1>3, <1>4, <1>5, <1>6, <1>7, <1>8 DEF EventNext, Produces

LEMMA EventInvariant == EventSpec => []EventInv
BY EventsStart, EventSteps, PTL DEF EventSpec

\* Each event is the sample after the one before, none skipped and none shown
\* twice, for a channel of any capacity (main.rs 68-80).
THEOREM EventsInOrder == EventSpec => NoSampleIsSkipped
<1>1. EventInv /\ [EventNext]_eventVars => [Yield => shown' = After(shown)]_eventVars
  BY YieldIsNext
<1> QED  BY <1>1, EventInvariant, PTL DEF EventSpec, NoSampleIsSkipped

-----------------------------------------------------------------------------
(* Relayed bodies: the one that is on its way is open, the others are      *)
(* untouched or complete.                                                  *)

Fresh(b) == produced[b] = 0 /\ passed[b] = 0 /\ source[b] = "writing" /\ sink[b] = "open"
Whole(b) == sink[b] = "ended" /\ passed[b] = produced[b] /\ source[b] = "finished"
StagesOK == /\ leg = "absent" => Fresh("request") /\ Fresh("response")
            /\ leg = "request" => sink["request"] = "open" /\ Fresh("response")
            /\ leg = "response" => sink["response"] = "open"
            /\ ~Collects => Fresh("request")
CollectedOK == Collects =>
  /\ leg = "response" => Whole("request")
  /\ source["response"] # "failed"
  /\ leg # "done" => reply = 0
  /\ reply = 200 => Whole("request") /\ Whole("response")
  /\ reply = 502 => Fresh("response") /\ sink["request"] = "open"
RelayInv == RelayTypeOK /\ StagesOK /\ CollectedOK

\* One body, as a step of module Pipe would have it.
Stays(b) == /\ produced'[b] = produced[b] /\ source'[b] = source[b]
            /\ passed'[b] = passed[b] /\ sink'[b] = sink[b]
Grows(b) == /\ source[b] = "writing" /\ produced'[b] = produced[b] + 1 /\ source'[b] = source[b]
            /\ passed'[b] = passed[b] /\ sink'[b] = sink[b]
Settles(b) == /\ source[b] = "writing" /\ source'[b] \in {"finished", "failed"}
              /\ produced'[b] = produced[b] /\ passed'[b] = passed[b] /\ sink'[b] = sink[b]
Advances(b) == /\ sink[b] = "open" /\ passed'[b] \in passed[b] + 1..produced[b]
               /\ produced'[b] = produced[b] /\ source'[b] = source[b] /\ sink'[b] = sink[b]
Completes(b) == /\ sink[b] = "open" /\ source[b] = "finished"
                /\ passed'[b] = produced[b] /\ sink'[b] = "ended"
                /\ produced'[b] = produced[b] /\ source'[b] = source[b]
Aborts(b) == /\ sink[b] = "open" /\ source[b] = "failed" /\ sink'[b] = "broken"
             /\ produced'[b] = produced[b] /\ source'[b] = source[b] /\ passed'[b] = passed[b]
Flows(b) == \/ Stays(b) \/ Grows(b) \/ Settles(b) \/ Advances(b) \/ Completes(b) \/ Aborts(b)

\* Nothing is on its way at the start.
LEMMA RelayStarts == RelayInit => RelayInv
<1> SUFFICES ASSUME RelayInit PROVE RelayInv  OBVIOUS
<1> USE RelayAssumption DEF Bodies
<1>1. Fresh("request") /\ Fresh("response")  BY DEF RelayInit, Fresh
<1>2. produced \in [Bodies -> 0..MaxChunks] /\ passed \in [Bodies -> 0..MaxChunks]
  BY DEF RelayInit
<1>3. source \in [Bodies -> {"writing", "finished", "failed"}]
      /\ sink \in [Bodies -> {"open", "ended", "broken"}]
  BY DEF RelayInit
<1>4. leg = "absent" /\ reply = 0 /\ upstream \in BOOLEAN
      /\ relay \in {"print-request-response", "reqwest-response", "reverse-proxy"}
  BY DEF RelayInit
<1>5. \A b \in Bodies : passed[b] <= produced[b]  BY DEF RelayInit
<1>6. RelayTypeOK  BY <1>2, <1>3, <1>4, <1>5 DEF RelayTypeOK
<1> QED  BY <1>1, <1>4, <1>6 DEF RelayInv, StagesOK, CollectedOK, Fresh

\* What every step but Begin, which touches no body, has to respect.
LEMMA RelaySteps ==
  RelayInv /\ [RelayNext]_relayVars => RelayInv' /\ \A b \in Bodies : Flows(b)
<1> SUFFICES ASSUME RelayInv, [RelayNext]_relayVars
             PROVE  RelayInv' /\ \A b \in Bodies : Flows(b)
  OBVIOUS
<1> USE RelayAssumption DEF Bodies, Collects
<1>t. RelayTypeOK /\ StagesOK /\ CollectedOK  BY DEF RelayInv
<1>1. CASE Listen \/ Begin \/ NoRoute \/ CollectFails \/ ForwardHead \/ AskFails
           \/ RelayQuiet \/ UNCHANGED relayVars
  <2>1. UNCHANGED <<relay, produced, source, passed, sink>>
    BY <1>1 DEF Listen, Begin, NoRoute, CollectFails, ForwardHead, AskFails, RelayQuiet, relayVars
  <2>2. \A b \in Bodies : Stays(b)  BY <2>1 DEF Stays
  <2>3. \A b \in Bodies : (Fresh(b)' <=> Fresh(b)) /\ (Whole(b)' <=> Whole(b))
    BY <2>1 DEF Fresh, Whole
  <2>4. RelayTypeOK'
    <3>1. upstream' \in BOOLEAN
      BY <1>1, <1>t DEF RelayTypeOK, Listen, Begin, NoRoute, CollectFails, ForwardHead, AskFails,
         RelayQuiet, relayVars
    <3>2. leg' \in {"absent", "done"} \cup Bodies
      BY <1>1, <1>t DEF RelayTypeOK, Listen, Begin, NoRoute, CollectFails, ForwardHead, AskFails,
         RelayQuiet, relayVars
    <3>3. reply' \in {0, 200, 400, 404, 502}
      BY <1>1, <1>t DEF RelayTypeOK, Listen, Begin, NoRoute, CollectFails, ForwardHead, AskFails,
         RelayQuiet, relayVars
    <3> QED  BY <3>1, <3>2, <3>3, <2>1, <1>t DEF RelayTypeOK
  <2>5. CASE Listen \/ Begin \/ RelayQuiet \/ UNCHANGED relayVars
    <3>1. reply' = reply /\ (leg' = leg \/ (leg = "absent" /\ leg' = "request"))
      BY <2>5 DEF Listen, Begin, RelayQuiet, relayVars
    <3>2. StagesOK'  BY <3>1, <2>1, <2>3, <1>t DEF StagesOK, Fresh
    <3>3. CollectedOK'  BY <3>1, <2>1, <2>3, <1>t DEF CollectedOK
    <3> QED  BY <3>2, <3>3, <2>2, <2>4 DEF RelayInv, Flows
  <2>6. CASE NoRoute \/ ForwardHead \/ AskFails
    <3>1. ~Collects /\ leg = "request" /\ leg' \in {"done", "response"}
      BY <2>6 DEF NoRoute, ForwardHead, AskFails
    <3>2. StagesOK'  BY <3>1, <2>1, <2>3, <1>t DEF StagesOK, Fresh
    <3>3. CollectedOK'  BY <3>1, <2>1 DEF CollectedOK
    <3> QED  BY <3>2, <3>3, <2>2, <2>4 DEF RelayInv, Flows
  <2>7. CASE CollectFails
    <3>1. Collects /\ leg \in Bodies /\ source[leg] = "failed" /\ leg' = "done" /\ reply' = 502
      BY <2>7 DEF CollectFails
    <3>2. leg = "request" /\ Fresh("response") /\ sink["request"] = "open"
      BY <3>1, <1>t DEF CollectedOK, StagesOK
    <3>3. StagesOK'  BY <3>1, <2>1 DEF StagesOK
    <3>4. CollectedOK'  BY <3>1, <3>2, <2>1, <2>3, <1>t DEF CollectedOK
    <3> QED  BY <3>3, <3>4, <2>2, <2>4 DEF RelayInv, Flows
  <2> QED  BY <1>1, <2>5, <2>6, <2>7
<1>2. ASSUME NEW b \in Bodies, Collects \/ b = "response", Produce(b)
      PROVE  RelayInv' /\ \A c \in Bodies : Flows(c)
  <2>1. /\ leg = b /\ source[b] = "writing" /\ produced[b] < MaxChunks
        /\ produced' = [produced EXCEPT ![b] = @ + 1]
        /\ UNCHANGED <<relay, upstream, leg, source, passed, sink, reply>>
    BY <1>2 DEF Produce
  <2>2. /\ produced' \in [Bodies -> 0..MaxChunks] /\ produced'[b] = produced[b] + 1
        /\ \A c \in Bodies : c # b => produced'[c] = produced[c]
    BY <2>1, <1>t DEF RelayTypeOK
  <2>3. RelayTypeOK'
    <3>1. \A c \in Bodies : passed'[c] <= produced'[c]
      BY <2>1, <2>2, <1>t DEF RelayTypeOK
    <3> QED  BY <3>1, <2>1, <2>2, <1>t DEF RelayTypeOK
  <2>4. StagesOK'  BY <2>1, <2>2, <1>2, <1>t DEF StagesOK, Fresh
  <2>5. CollectedOK'  BY <2>1, <2>2, <1>t DEF CollectedOK, Fresh, Whole
  <2>6. \A c \in Bodies : Flows(c)  BY <2>1, <2>2 DEF Flows, Grows, Stays
  <2> QED  BY <2>3, <2>4, <2>5, <2>6 DEF RelayInv
<1>3. ASSUME NEW b \in Bodies, Collects \/ b = "response", EndBody(b)
      PROVE  RelayInv' /\ \A c \in Bodies : Flows(c)
  <2> PICK s \in Ends(b) : source' = [source EXCEPT ![b] = s]
    BY <1>3 DEF EndBody
  <2>1. /\ leg = b /\ source[b] = "writing"
        /\ s \in {"finished", "failed"} /\ (Collects /\ b = "response" => s = "finished")
        /\ UNCHANGED <<relay, upstream, leg, produced, passed, sink, reply>>
    BY <1>3 DEF EndBody, Ends
  <2>2. /\ source' \in [Bodies -> {"writing", "finished", "failed"}] /\ source'[b] = s
        /\ \A c \in Bodies : c # b => source'[c] = source[c]
    BY <2>1, <1>t DEF RelayTypeOK
  <2>3. RelayTypeOK'  BY <2>1, <2>2, <1>t DEF RelayTypeOK
  <2>4. StagesOK'  BY <2>1, <2>2, <1>3, <1>t DEF StagesOK, Fresh
  <2>5. CollectedOK'  BY <2>1, <2>2, <1>t DEF CollectedOK, Fresh, Whole
  <2>6. \A c \in Bodies : Flows(c)  BY <2>1, <2>2 DEF Flows, Settles, Stays
  <2> QED  BY <2>3, <2>4, <2>5, <2>6 DEF RelayInv
<1>4. CASE CollectRequest \/ CollectResponse
  <2>1. /\ Collects /\ leg \in Bodies /\ source[leg] = "finished"
        /\ passed' = [passed EXCEPT ![leg] = produced[leg]]
        /\ sink' = [sink EXCEPT ![leg] = "ended"]
        /\ UNCHANGED <<relay, upstream, produced, source>>
    BY <1>4 DEF CollectRequest, CollectResponse, PassAll
  <2>2. /\ passed' \in [Bodies -> 0..MaxChunks] /\ sink' \in [Bodies -> {"open", "ended", "broken"}]
        /\ passed'[leg] = produced[leg] /\ sink'[leg] = "ended"
        /\ \A c \in Bodies : c # leg => passed'[c] = passed[c] /\ sink'[c] = sink[c]
    BY <2>1, <1>t DEF RelayTypeOK
  <2>3. sink[leg] = "open"  BY <2>1, <1>t DEF StagesOK
  <2>4. \A c \in Bodies : Flows(c)  BY <2>1, <2>2, <2>3 DEF Flows, Completes, Stays
  <2>5. \/ leg = "request" /\ leg' = "response" /\ reply' = reply
        \/ leg = "response" /\ leg' = "done" /\ reply' = 200
    BY <1>4 DEF CollectRequest, CollectResponse
  <2>6. RelayTypeOK'
    <3>1. \A c \in Bodies : passed'[c] <= produced'[c]
      BY <2>1, <2>2, <1>t DEF RelayTypeOK
    <3> QED  BY <3>1, <2>1, <2>2, <2>5, <1>t DEF RelayTypeOK
  <2>7. StagesOK'  BY <2>1, <2>2, <2>5, <1>t DEF StagesOK, Fresh
  <2>8. CollectedOK'  BY <2>1, <2>2, <2>5, <1>t DEF CollectedOK, Whole
  <2> QED  BY <2>4, <2>6, <2>7, <2>8 DEF RelayInv
<1>5. CASE ForwardChunk
  <2>1. /\ ~Collects /\ leg = "response" /\ passed[leg] < produced[leg]
        /\ passed' = [passed EXCEPT ![leg] = @ + 1]
        /\ UNCHANGED <<relay, upstream, leg, produced, source, sink, reply>>
    BY <1>5 DEF ForwardChunk
  <2>2. /\ passed' \in [Bodies -> 0..MaxChunks] /\ passed'[leg] = passed[leg] + 1
        /\ passed'["request"] = passed["request"]
        /\ passed'[leg] \in passed[leg] + 1..produced[leg]
    BY <2>1, <1>t DEF RelayTypeOK
  <2>3. RelayTypeOK'
    <3>1. \A c \in Bodies : passed'[c] <= produced'[c]
      BY <2>1, <2>2, <1>t DEF RelayTypeOK
    <3> QED  BY <3>1, <2>1, <2>2, <1>t DEF RelayTypeOK
  <2>4. StagesOK'  BY <2>1, <2>2, <1>t DEF StagesOK, Fresh
  <2>5. CollectedOK'  BY <2>1 DEF CollectedOK
  <2>6. \A c \in Bodies : Flows(c)  BY <2>1, <2>2, <1>t DEF Flows, Advances, Stays, StagesOK
  <2> QED  BY <2>3, <2>4, <2>5, <2>6 DEF RelayInv
<1>6. CASE ForwardEnd
  <2>1. /\ ~Collects /\ leg = "response" /\ leg' = "done" /\ source[leg] \in {"finished", "failed"}
        /\ passed[leg] = produced[leg] \/ source[leg] = "failed"
        /\ sink' = [sink EXCEPT ![leg] = IF source[leg] = "finished" THEN "ended" ELSE "broken"]
        /\ UNCHANGED <<relay, upstream, produced, source, passed, reply>>
    BY <1>6, <1>t DEF ForwardEnd, RelayTypeOK
  <2>2. /\ sink' \in [Bodies -> {"open", "ended", "broken"}]
        /\ sink'["request"] = sink["request"]
        /\ sink'[leg] = IF source[leg] = "finished" THEN "ended" ELSE "broken"
    BY <2>1, <1>t DEF RelayTypeOK
  <2>3. RelayTypeOK'  BY <2>1, <2>2, <1>t DEF RelayTypeOK
  <2>4. StagesOK'  BY <2>1, <2>2, <1>t DEF StagesOK, Fresh
  <2>5. CollectedOK'  BY <2>1 DEF CollectedOK
  <2>6. \A c \in Bodies : Flows(c)
    BY <2>1, <2>2, <1>t DEF Flows, Completes, Aborts, Stays, StagesOK
  <2> QED  BY <2>3, <2>4, <2>5, <2>6 DEF RelayInv
<1> QED  BY <1>1, <1>2, <1>3, <1>4, <1>5, <1>6 DEF RelayNext

LEMMA RelayInvariant == RelaySpec => []RelayInv
BY RelayStarts, RelaySteps, PTL DEF RelaySpec

LEMMA RequestMoves == RelayInv /\ Flows("request") => [RequestBody!Next]_(RequestBody!vars)
BY DEF RelayInv, RelayTypeOK, Bodies, Flows, Stays, Grows, Settles, Advances, Completes, Aborts,
       RequestBody!Next, RequestBody!vars, RequestBody!Write, RequestBody!Finish,
       RequestBody!Read, RequestBody!ReadAll, RequestBody!Fail, RequestBody!Break

LEMMA ResponseMoves == RelayInv /\ Flows("response") => [ResponseBody!Next]_(ResponseBody!vars)
BY DEF RelayInv, RelayTypeOK, Bodies, Flows, Stays, Grows, Settles, Advances, Completes, Aborts,
       ResponseBody!Next, ResponseBody!vars, ResponseBody!Write, ResponseBody!Finish,
       ResponseBody!Read, ResponseBody!ReadAll, ResponseBody!Fail, ResponseBody!Break

\* Every body that is relayed, at once or chunk by chunk, implements module
\* Pipe, for any number of chunks (print-request-response 62-69,
\* reqwest-response 58-60, reverse-proxy 52-56).
THEOREM RelaysArePipes == RelaySpec => BodiesArePipes
<1>1. RelayInit => RequestBody!Init /\ ResponseBody!Init
  BY DEF RelayInit, RequestBody!Init, ResponseBody!Init, Bodies
<1>2. RelayInv /\ [RelayNext]_relayVars =>
        [RequestBody!Next]_(RequestBody!vars) /\ [ResponseBody!Next]_(ResponseBody!vars)
  BY RelaySteps, RequestMoves, ResponseMoves DEF Bodies
<1> QED  BY <1>1, <1>2, RelayInvariant, PTL
         DEF RelaySpec, BodiesArePipes, RequestBody!Spec, ResponseBody!Spec

\* The logger's 200 stands for two whole bodies, and its 502 for a handler that
\* has not run (print-request-response 47-58).
THEOREM LoggedAnswers == RelaySpec => []LoggedAnswersAreWhole
<1>1. RelayInv => LoggedAnswersAreWhole
  BY DEF RelayInv, CollectedOK, LoggedAnswersAreWhole, Whole, Fresh, Bodies
<1> QED  BY <1>1, RelayInvariant, PTL

-----------------------------------------------------------------------------
(* The server that can be shut down.                                       *)

ServerInv == ShutdownTypeOK /\ CallersAreGreeted

\* What index answers a caller: his own greeting, or the refusal of a header
\* without a token (examples/deep-axum, main.rs 94-101).
LEMMA AnswersOfIndex ==
  ASSUME NEW h \in Headers
  PROVE  /\ Extracted(h) \in Answers
         /\ \/ Extracted(h) = [code |-> 200, user |-> h]
            \/ h \notin Tokens /\ Extracted(h).code \in {400, 401}
<1>1. CASE h \in Tokens
  BY <1>1, GracefulShutdownAssumption
     DEF Extracted, Greeting, ExtensionsAfter, Answers
<1>2. CASE h \notin Tokens
  BY <1>2 DEF Extracted, Refusal, Code, Answers
<1> QED  BY <1>1, <1>2

\* A step that changes no request and no answer but those it forgets.
LEMMA GreetedStay ==
  ASSUME ServerInv,
         \A c \in Conns : \/ request'[c] = request[c] /\ status'[c] = status[c]
                          \/ status'[c] = Code(0)
  PROVE  CallersAreGreeted'
BY DEF ServerInv, CallersAreGreeted, Code

\* A handler's answer is one the caller is due (main.rs 94-107).
LEMMA HandlersGreet ==
  ASSUME ServerInv, NEW c \in Conns, Serve(c)
  PROVE  ServerInv'
<1>t. ShutdownTypeOK  BY DEF ServerInv
<1>1. CASE index(c)
  <2> DEFINE h == request[c].authorization
  <2>1. /\ request[c].path = "/" /\ conn' = [conn EXCEPT ![c] = "answering"]
        /\ status' = [status EXCEPT ![c] = Extracted(h)]
        /\ UNCHANGED <<shutdown, sent, server, told, request>>
    BY <1>1 DEF index, Move
  <2>2. h \in Headers
    <3>1. request[c] \in Requests \cup {NoRequest}  BY <1>t DEF ShutdownTypeOK
    <3> QED  BY <2>1, <3>1 DEF Requests, NoRequest
  <2> HIDE DEF h
  <2>3. Extracted(h) \in Answers /\ status' \in [Conns -> Answers] /\ status'[c] = Extracted(h)
        /\ \A d \in Conns : d # c => status'[d] = status[d]
    BY <2>1, <2>2, <1>t, AnswersOfIndex DEF ShutdownTypeOK
  <2>4. ShutdownTypeOK'  BY <2>1, <2>3, <1>t DEF ShutdownTypeOK, States
  <2>5. CallersAreGreeted'
    <3> SUFFICES ASSUME NEW d \in Conns, request'[d].path = "/" /\ status'[d].code # 0
                 PROVE  \/ status'[d] = [code |-> 200, user |-> request'[d].authorization]
                        \/ request'[d].authorization \notin Tokens /\ status'[d].code \in {400, 401}
      BY DEF CallersAreGreeted
    <3>1. CASE d = c  BY <3>1, <2>1, <2>2, <2>3, AnswersOfIndex DEF h
    <3>2. CASE d # c  BY <3>2, <2>1, <2>3 DEF ServerInv, CallersAreGreeted
    <3> QED  BY <3>1, <3>2
  <2> QED  BY <2>4, <2>5 DEF ServerInv
<1>2. CASE on_shutdown(c)
  <2>1. /\ request[c].path = "/shutdown" /\ conn' = [conn EXCEPT ![c] = "answering"]
        /\ sent' = (sent \/ shutdown) /\ shutdown' = FALSE
        /\ status' = [status EXCEPT ![c] = Code(200)]
        /\ UNCHANGED <<server, told, request>>
    BY <1>2 DEF on_shutdown, Move, Take
  <2>2. Code(200) \in Answers  BY DEF Code, Answers
  <2>3. status' \in [Conns -> Answers] /\ \A d \in Conns : d # c => status'[d] = status[d]
    BY <2>1, <2>2, <1>t DEF ShutdownTypeOK
  <2>4. sent' = TRUE  BY <2>1, <1>t DEF ShutdownTypeOK
  <2>5. ShutdownTypeOK'  BY <2>1, <2>3, <2>4, <1>t DEF ShutdownTypeOK, States
  <2>6. CallersAreGreeted'
    BY <2>1, <2>3 DEF ServerInv, CallersAreGreeted
  <2> QED  BY <2>5, <2>6 DEF ServerInv
<1>3. CASE Tell(c)
  <2>1. /\ told' = told \cup {c} /\ conn[c] \in {"idle", "reading", "handling", "answering"}
        /\ conn' = [conn EXCEPT ![c] = IF conn[c] = "idle" THEN "closed" ELSE conn[c]]
        /\ UNCHANGED <<shutdown, sent, server, request, status>>
    BY <1>3 DEF Tell, Move
  <2>2. ShutdownTypeOK'  BY <2>1, <1>t DEF ShutdownTypeOK, States
  <2>3. CallersAreGreeted'  BY <2>1, GreetedStay
  <2> QED  BY <2>2, <2>3 DEF ServerInv
<1> QED  BY <1>1, <1>2, <1>3 DEF Serve

\* Neither do connections that come and go (axum::serve, external).
LEMMA ClientsStayGreeted ==
  ASSUME ServerInv, NEW c \in Conns, Client(c) \/ Written(c)
  PROVE  ServerInv'
<1>t. ShutdownTypeOK  BY DEF ServerInv
<1>0. Code(0) \in Answers /\ NoRequest \in Requests \cup {NoRequest}  BY DEF Code, Answers
<1>1. CASE Accept(c) \/ ClientCloses(c)
  <2>1. /\ request' = [request EXCEPT ![c] = NoRequest] /\ status' = [status EXCEPT ![c] = Code(0)]
        /\ \E k \in {"idle", "closed"} : conn' = [conn EXCEPT ![c] = k]
        /\ UNCHANGED <<shutdown, sent, server, told>>
    BY <1>1 DEF Accept, ClientCloses, Move, Closed
  <2>2. /\ request' \in [Conns -> Requests \cup {NoRequest}] /\ status' \in [Conns -> Answers]
        /\ conn' \in [Conns -> States] /\ status'[c] = Code(0)
        /\ \A d \in Conns : d # c => request'[d] = request[d] /\ status'[d] = status[d]
    BY <2>1, <1>0, <1>t DEF ShutdownTypeOK, States
  <2>3. ShutdownTypeOK'  BY <2>1, <2>2, <1>t DEF ShutdownTypeOK
  <2>4. CallersAreGreeted'  BY <2>2, GreetedStay
  <2> QED  BY <2>3, <2>4 DEF ServerInv
<1>2. ASSUME NEW q \in Requests, Receive(c, q) PROVE ServerInv'
  <2>1. /\ request' = [request EXCEPT ![c] = q] /\ status' = [status EXCEPT ![c] = Code(0)]
        /\ conn' = [conn EXCEPT ![c] = "handling"]
        /\ UNCHANGED <<shutdown, sent, server, told>>
    BY <1>2 DEF Receive, Move
  <2>2. /\ request' \in [Conns -> Requests \cup {NoRequest}] /\ status' \in [Conns -> Answers]
        /\ conn' \in [Conns -> States] /\ status'[c] = Code(0)
        /\ \A d \in Conns : d # c => request'[d] = request[d] /\ status'[d] = status[d]
    BY <2>1, <1>0, <1>t DEF ShutdownTypeOK, States
  <2>3. ShutdownTypeOK'  BY <2>1, <2>2, <1>t DEF ShutdownTypeOK
  <2>4. CallersAreGreeted'  BY <2>2, GreetedStay
  <2> QED  BY <2>3, <2>4 DEF ServerInv
<1>3. CASE Written(c)
  <2>1. /\ conn' = [conn EXCEPT ![c] = IF c \in told THEN "closed" ELSE "idle"]
        /\ UNCHANGED <<shutdown, sent, server, told, request, status>>
    BY <1>3 DEF Written, Move
  <2>2. ShutdownTypeOK'  BY <2>1, <1>t DEF ShutdownTypeOK, States
  <2>3. CallersAreGreeted'  BY <2>1, GreetedStay
  <2> QED  BY <2>2, <2>3 DEF ServerInv
<1>4. CASE ReadPart(c)
  <2>1. /\ conn' = [conn EXCEPT ![c] = "reading"]
        /\ UNCHANGED <<shutdown, sent, server, told, request, status>>
    BY <1>4 DEF ReadPart, Move
  <2>2. ShutdownTypeOK'  BY <2>1, <1>t DEF ShutdownTypeOK, States
  <2>3. CallersAreGreeted'  BY <2>1, GreetedStay
  <2> QED  BY <2>2, <2>3 DEF ServerInv
<1> QED  BY <1>1, <1>2, <1>3, <1>4 DEF Client

LEMMA ServerInvariant == ShutdownSpec => []ServerInv
<1>1. ShutdownInit => ServerInv
  <2> SUFFICES ASSUME ShutdownInit PROVE ServerInv  OBVIOUS
  <2>1. Code(0) \in Answers  BY DEF Code, Answers
  <2>2. ShutdownTypeOK  BY <2>1 DEF ShutdownInit, ShutdownTypeOK, States
  <2>3. CallersAreGreeted  BY DEF ShutdownInit, CallersAreGreeted, Code
  <2> QED  BY <2>2, <2>3 DEF ServerInv
<1>2. ServerInv /\ [ShutdownNext]_shutdownVars => ServerInv'
  <2> SUFFICES ASSUME ServerInv, [ShutdownNext]_shutdownVars PROVE ServerInv'  OBVIOUS
  <2>t. ShutdownTypeOK  BY DEF ServerInv
  <2>1. ASSUME NEW c \in Conns, Serve(c) \/ Written(c) \/ Client(c) PROVE ServerInv'
    BY <2>1, HandlersGreet, ClientsStayGreeted
  <2>2. CASE ShutdownSignal \/ Return
    <3>1. UNCHANGED <<shutdown, sent, conn, told, request, status>>
          /\ server' \in {"closing", "returned"} /\ sent
      BY <2>2, <2>t DEF ShutdownSignal, Return, ShutdownTypeOK
    <3>2. ShutdownTypeOK'  BY <3>1, <2>t DEF ShutdownTypeOK
    <3>3. CallersAreGreeted'  BY <3>1, GreetedStay
    <3> QED  BY <3>2, <3>3 DEF ServerInv
  <2>3. CASE Stopped \/ UNCHANGED shutdownVars
    <3>1. UNCHANGED shutdownVars  BY <2>3 DEF Stopped
    <3>2. ShutdownTypeOK'  BY <3>1, <2>t DEF shutdownVars, ShutdownTypeOK
    <3>3. CallersAreGreeted'  BY <3>1, GreetedStay DEF shutdownVars
    <3> QED  BY <3>2, <3>3 DEF ServerInv
  <2> QED  BY <2>1, <2>2, <2>3 DEF ShutdownNext
<1> QED  BY <1>1, <1>2, PTL DEF ShutdownSpec

\* Nobody is greeted by another's name, and the extension a handler needs was
\* always set before it, for any set of tokens and connections (main.rs 94-101).
THEOREM CallersGreeted == ShutdownSpec => []CallersAreGreeted
BY ServerInvariant, PTL DEF ServerInv

\* Nothing stops without the message, which is sent exactly when the sender is
\* gone from the state (main.rs 82-107).
THEOREM ShutdownTypeCorrect == ShutdownSpec => []ShutdownTypeOK
BY ServerInvariant, PTL DEF ServerInv

-----------------------------------------------------------------------------
\* The accept loop keeps its variables' types, whatever its files are
\* (examples/low-level-native-tls, main.rs 25-68).
LEMMA AcceptorTypes == AcceptorSpec => []AcceptorTypeOK
<1>1. AcceptorInit => AcceptorTypeOK  BY DEF AcceptorInit, AcceptorTypeOK
<1>2. AcceptorTypeOK /\ [AcceptorNext]_acceptorVars => AcceptorTypeOK'
  BY DEF AcceptorTypeOK, AcceptorNext, acceptorVars, StartUp, Dial, Abort, AcceptPeer, Handshake,
         Close, AcceptFails, AcceptorDown, Step
<1> QED  BY <1>1, <1>2, PTL DEF AcceptorSpec

-----------------------------------------------------------------------------
(* The programs side by side: a behaviour of all is one of each, so what   *)
(* holds of each holds of all.                                             *)

\* One program runs and the others stay as they were: their behaviours are those
\* of the specifications above, with steps that change nothing.
THEOREM EachIsItself ==
  Spec => TunnelSpec /\ RelaySpec /\ AcceptorSpec /\ ShutdownSpec /\ EventSpec
<1>1. Init => TunnelInit /\ RelayInit /\ AcceptorInit /\ ShutdownInit /\ EventInit
  BY DEF Init
<1>2. [Next]_vars => /\ [TunnelNext]_tunnelVars
                     /\ [RelayNext]_relayVars
                     /\ [AcceptorNext]_acceptorVars
                     /\ [ShutdownNext]_shutdownVars
                     /\ [EventNext]_eventVars
  BY DEF Next, vars
<1> QED  BY <1>1, <1>2, PTL
         DEF Spec, TunnelSpec, RelaySpec, AcceptorSpec, ShutdownSpec, EventSpec

\* What the passing run checks of the composition, up to its liveness, for every
\* value of the constants (the sources of the five programs).
THEOREM WiresSafe ==
  Spec => /\ [](LoggedAnswersAreWhole /\ CallersAreGreeted)
          /\ DirectionsArePipes /\ BodiesArePipes /\ NoSampleIsSkipped
BY EachIsItself, LoggedAnswers, CallersGreeted, TunnelIsTwoPipes, RelaysArePipes,
   EventsInOrder, PTL
=============================================================================
