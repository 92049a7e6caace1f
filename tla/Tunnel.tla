------------------------------- MODULE Tunnel -------------------------------
(***************************************************************************)
(* examples/http-proxy: CONNECT is answered 200 by the handler, while a    *)
(* task it has spawned waits for the connection to be upgraded and only    *)
(* then tries the server; bytes the client has sent meanwhile wait in its  *)
(* connection.  copy_bidirectional (tokio, external) then copies both ways *)
(* with a buffer each, passes an end of file on once its buffer is empty,  *)
(* returns after both ends, or at the first error: both connections are    *)
(* dropped then, with what the buffers hold.                               *)
(***************************************************************************)
EXTENDS Naturals

CONSTANT MaxBytes   \* bound on the bytes each side writes

ASSUME TunnelAssumption == MaxBytes \in Nat

VARIABLES
  tunnel,    \* where the connection and its task are
  wrote,     \* bytes written at each direction's source
  closing,   \* the directions whose source has shut down its writing
  buffer,    \* bytes held by the copy in each direction
  received,  \* bytes its destination has got
  eof,       \* the directions whose destination has seen the end
  trouble    \* a side has reset its connection, or the server is not there

tunnelVars == <<tunnel, wrote, closing, buffer, received, eof, trouble>>

\* From the client to the server, and back.
Directions == {"up", "down"}

TunnelInit == /\ tunnel = "absent"
              /\ wrote = [d \in Directions |-> 0]
              /\ closing = {}
              /\ buffer = [d \in Directions |-> 0]
              /\ received = [d \in Directions |-> 0]
              /\ eof = {}
              /\ trouble = FALSE

Turn(from, to) == tunnel = from /\ tunnel' = to
Copies == UNCHANGED <<wrote, closing, buffer, received, eof>>

\* The request's target is an authority: 200, and a task is spawned.
Accepted == Turn("absent", "answered") /\ Copies /\ UNCHANGED trouble

\* No authority (400), or another method, which the router answers.
NotTunnelled == Turn("absent", "done") /\ Copies /\ UNCHANGED trouble

-----------------------------------------------------------------------------
(* The two sides.  The server is there once it is connected.               *)

Present(d) == d = "up" \/ tunnel = "open"

Send(d) == /\ tunnel \in {"answered", "connecting", "open"} /\ Present(d)
           /\ d \notin closing
           /\ wrote[d] < MaxBytes
           /\ wrote' = [wrote EXCEPT ![d] = @ + 1]
           /\ UNCHANGED <<tunnel, closing, buffer, received, eof, trouble>>

ShutDown(d) == /\ tunnel \in {"answered", "connecting", "open"} /\ Present(d)
               /\ closing' = closing \cup {d}
               /\ UNCHANGED <<tunnel, wrote, buffer, received, eof, trouble>>

Reset == /\ tunnel \in {"answered", "connecting", "open"}
         /\ trouble' = TRUE
         /\ UNCHANGED tunnel /\ Copies

-----------------------------------------------------------------------------
(* The spawned task.                                                       *)

\* Whoever still looks sees the end of his connection.
Drop == /\ eof' = Directions
        /\ UNCHANGED <<wrote, closing, buffer, received>>

\* The 200 has been sent.
Upgraded == Turn("answered", "connecting") /\ Copies /\ UNCHANGED trouble

\* The client has gone before: hyper::upgrade::on fails.
UpgradeFails == /\ trouble
                /\ Turn("answered", "done") /\ Drop /\ UNCHANGED trouble

Connected == Turn("connecting", "open") /\ Copies /\ UNCHANGED trouble

\* The server refuses, or there is none: an error after the 200.
ConnectFails == /\ Turn("connecting", "done") /\ Drop
                /\ trouble' = TRUE

Fill(d) == /\ tunnel = "open"
           /\ received[d] + buffer[d] < wrote[d]
           /\ buffer' = [buffer EXCEPT ![d] = @ + 1]
           /\ UNCHANGED <<tunnel, wrote, closing, received, eof, trouble>>

Flush(d) == /\ tunnel = "open"
            /\ buffer[d] > 0
            /\ buffer' = [buffer EXCEPT ![d] = @ - 1]
            /\ received' = [received EXCEPT ![d] = @ + 1]
            /\ UNCHANGED <<tunnel, wrote, closing, eof, trouble>>

\* Mutant: shutdown() without waiting for the buffer.
PassUnflushed(d) == /\ tunnel = "open"
                    /\ d \in closing \ eof
                    /\ received[d] + buffer[d] = wrote[d]
                    /\ eof' = eof \cup {d}
                    /\ UNCHANGED <<tunnel, wrote, closing, buffer, received, trouble>>

\* End of file was read and the buffer is empty: shutdown() of the other side.
PassEof(d) == /\ tunnel = "open"
              /\ d \in closing \ eof
              /\ received[d] = wrote[d]
              /\ eof' = eof \cup {d}
              /\ UNCHANGED <<tunnel, wrote, closing, buffer, received, trouble>>

\* Mutant: the first direction that ends ends the tunnel (select! of two copies).
FirstDone == /\ eof # {}
             /\ Turn("open", "done") /\ Drop /\ UNCHANGED trouble

\* Ok((from_client, from_server))
BothDone == /\ eof = Directions
            /\ Turn("open", "done") /\ Drop /\ UNCHANGED trouble

\* A read or a write fails: Err.
CopyFails == /\ trouble
             /\ Turn("open", "done") /\ Drop /\ UNCHANGED trouble

TunnelQuiet == tunnel = "done" /\ UNCHANGED tunnelVars
Copy(d) == Fill(d) \/ Flush(d) \/ PassEof(d)
Establish == Upgraded \/ UpgradeFails \/ Connected \/ ConnectFails
TunnelNext == \/ Accepted \/ NotTunnelled \/ Establish \/ BothDone \/ CopyFails \/ Reset
              \/ \E d \in Directions : Send(d) \/ ShutDown(d) \/ Copy(d)
              \/ TunnelQuiet

TunnelSpec == TunnelInit /\ [][TunnelNext]_tunnelVars

\* The task is polled, attempts to connect end, and both sides read.
TunnelFairness == /\ WF_tunnelVars(Establish) /\ WF_tunnelVars(BothDone \/ CopyFails)
                  /\ \A d \in Directions : WF_tunnelVars(Copy(d))

-----------------------------------------------------------------------------
\* Every variable has its type; nothing is received or held that was not
\* written (examples/http-proxy, main.rs 66-112).
TunnelTypeOK ==
  /\ tunnel \in {"absent", "answered", "connecting", "open", "done"}
  /\ wrote \in [Directions -> 0..MaxBytes]
  /\ closing \subseteq Directions
  /\ buffer \in [Directions -> Nat]
  /\ received \in [Directions -> Nat]
  /\ \A d \in Directions : received[d] + buffer[d] <= wrote[d]
  /\ eof \subseteq Directions
  /\ trouble \in BOOLEAN

\* Each direction is a pipe of its own: bytes sent before the server was even
\* tried arrive like the others, a side that has finished still gets all that
\* the other one sends, and an end that comes earlier means trouble, which the
\* tunnel makes look like an end (main.rs 72-103).
Reader(d) == IF d \in eof THEN "ended" ELSE "open"
Up == INSTANCE Pipe
  WITH FaultsLookLikeEnds <- TRUE, written <- wrote["up"], finished <- "up" \in closing,
       got <- received["up"], reader <- Reader("up"), fault <- trouble
Down == INSTANCE Pipe
  WITH FaultsLookLikeEnds <- TRUE, written <- wrote["down"], finished <- "down" \in closing,
       got <- received["down"], reader <- Reader("down"), fault <- trouble

DirectionsArePipes == Up!Spec /\ Down!Spec

\* What either side writes arrives, or there was trouble; and a tunnel both
\* sides have finished with ends (main.rs 101-112).
BytesArrive == \A d \in Directions : \A n \in 1..MaxBytes :
                 wrote[d] = n ~> received[d] >= n \/ trouble

TunnelsServe == BytesArrive /\ (closing = Directions ~> tunnel = "done")
=============================================================================
