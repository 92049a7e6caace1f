----------------------------- MODULE EventStream -----------------------------
(***************************************************************************)
(* examples/sse: one request to /sse.  The handler spawns a producer that  *)
(* samples the machine every 500 ms into an mpsc channel of 32 messages,   *)
(* and answers with a stream that turns each message into an event, and    *)
(* the end of the channel into an "error" event.  The producer learns that *)
(* the client is gone only from its next send.                             *)
(***************************************************************************)
EXTENDS Naturals, Sequences

CONSTANTS Capacity,     \* mpsc::channel(32)
          Cycle,        \* bound: samples are numbered modulo Cycle
          ErrorEvent    \* Event::default().event("error")

ASSUME EventStreamAssumption == /\ Capacity \in Nat \ {0}
                                /\ Cycle \in Nat /\ Cycle > Capacity + 2
                                /\ ErrorEvent \notin Nat

VARIABLES
  producer,   \* where the spawned task is
  samples,    \* the number of the last sample it has taken
  channel,    \* the messages between tx and rx
  open,       \* the response's stream, with rx, exists
  shown,      \* the last event the stream has yielded
  comments    \* whether a keep-alive comment followed it

eventVars == <<producer, samples, channel, open, shown, comments>>

After(n) == (n + 1) % Cycle

EventInit == /\ producer = "sampling"
             /\ samples = 0
             /\ channel = <<>>
             /\ open = TRUE
             /\ shown = 0
             /\ comments = FALSE

Sample == /\ producer = "sampling"
          /\ samples' = After(samples)
          /\ producer' = "sending"
          /\ UNCHANGED <<channel, open, shown, comments>>

\* Mutant: a full channel loses its oldest message, as a broadcast would.
SendOverwriting == /\ producer = "sending"
                   /\ open
                   /\ channel' = Append(IF Len(channel) < Capacity THEN channel
                                                                   ELSE Tail(channel), samples)
                   /\ producer' = "sleeping"
                   /\ UNCHANGED <<samples, open, shown, comments>>

\* tx.send waits for room.
SendSample == /\ producer = "sending"
              /\ open
              /\ Len(channel) < Capacity
              /\ channel' = Append(channel, samples)
              /\ producer' = "sleeping"
              /\ UNCHANGED <<samples, open, shown, comments>>

\* Mutant: the error is logged and the loop goes on.
SendSampleFailsOn == /\ producer = "sending"
                     /\ ~open
                     /\ producer' = "sleeping"
                     /\ UNCHANGED <<samples, channel, open, shown, comments>>

\* rx is gone: the send fails, the loop ends.
SendSampleFails == /\ producer = "sending"
                   /\ ~open
                   /\ producer' = "ended"
                   /\ UNCHANGED <<samples, channel, open, shown, comments>>

\* Mutant: the machine is sampled once, before the loop.
WakeResending == /\ producer = "sleeping"
                 /\ producer' = "sending"
                 /\ UNCHANGED <<samples, channel, open, shown, comments>>

Wake == /\ producer = "sleeping"
        /\ producer' = "sampling"
        /\ UNCHANGED <<samples, channel, open, shown, comments>>

\* unfold: a message, or None once the channel is empty and tx is gone.
Yield == /\ open
         /\ channel # <<>> \/ producer = "ended"
         /\ IF channel # <<>>
            THEN shown' = Head(channel) /\ channel' = Tail(channel)
            ELSE shown' = ErrorEvent /\ UNCHANGED channel
         /\ comments' = FALSE
         /\ UNCHANGED <<producer, samples, open>>

\* Nothing for 500 ms: a comment, which is no event.
KeepAlive == /\ open
             /\ channel = <<>> /\ producer # "ended"
             /\ ~comments
             /\ comments' = TRUE
             /\ UNCHANGED <<producer, samples, channel, open, shown>>

\* The client goes: the response is dropped, and rx with it.
Disconnect == /\ open
              /\ open' = FALSE
              /\ channel' = <<>>
              /\ UNCHANGED <<producer, samples, shown, comments>>

\* The client and the producer are gone.
EventRest == producer = "ended" /\ ~open /\ UNCHANGED eventVars

Produces == Sample \/ SendSample \/ SendSampleFails \/ Wake
EventNext == Produces \/ Yield \/ KeepAlive \/ Disconnect \/ EventRest

EventSpec == EventInit /\ [][EventNext]_eventVars

-----------------------------------------------------------------------------
\* Every variable has its type (examples/sse, main.rs 44-96).
EventTypeOK == /\ producer \in {"sampling", "sending", "sleeping", "ended"}
               /\ samples \in 0..Cycle - 1
               /\ channel \in Seq(0..Cycle - 1) /\ Len(channel) <= Capacity
               /\ open \in BOOLEAN
               /\ shown = ErrorEvent \/ shown \in 0..Cycle - 1
               /\ comments \in BOOLEAN

\* The events are the samples, in order, none skipped or repeated: each that the
\* stream hands out is the sample after the one before (main.rs 68-80).
NoSampleIsSkipped == [][Yield => shown' = After(shown)]_eventVars

\* When the client is gone, the producer ends, wherever it was (main.rs 68-71).
ProducerEnds == ~open ~> producer = "ended"

\* Every sample reaches a client that stays and reads (main.rs 77-80).
SamplesArrive == \A n \in 0..Cycle - 1 : samples = n ~> shown = n \/ ~open
=============================================================================
