---------------------------- MODULE TrackMetrics ----------------------------
(***************************************************************************)
(* examples/prometheus-metrics: the middleware around GET /slow updates a  *)
(* counter and then a histogram once the handler has answered; the second  *)
(* server renders both, counters first, at any moment.  /fast and unknown  *)
(* paths are not measured, being outside the route_layer.  The recorder is *)
(* installed in the first poll of main, seconds before a handler of /slow  *)
(* can be done.                                                            *)
(***************************************************************************)
EXTENDS Naturals, FiniteSets

CONSTANTS Slow,       \* the requests for /slow ever made
          MaxScrapes  \* bound on the requests for /metrics

ASSUME MetricsAssumption == IsFiniteSet(Slow) /\ MaxScrapes \in Nat

VARIABLES
  slow,               \* where each request is
  requests_total,     \* the counter http_requests_total
  durations,          \* the observations in http_requests_duration_seconds
  scrape,             \* the rendering in progress, or the last one
  scrapes             \* how many there have been

metricsVars == <<slow, requests_total, durations, scrape, scrapes>>

\* The requests between the two updates.
Between == {r \in Slow : slow[r] = "counted"}

MetricsInit == /\ slow = [r \in Slow |-> "absent"]
               /\ requests_total = 0
               /\ durations = 0
               /\ scrape = [done |-> TRUE, total |-> 0, durations |-> 0, between |-> 0]
               /\ scrapes = 0

Pass(r, from, to) == slow[r] = from /\ slow' = [slow EXCEPT ![r] = to]

\* track_metrics up to next.run(req).await, which sleeps.
Start(r) == /\ Pass(r, "absent", "running")
            /\ UNCHANGED <<requests_total, durations, scrape, scrapes>>

\* Mutant: an await between the updates, where the request can be dropped too.
DropAnywhere(r) == /\ slow[r] \in {"running", "counted"}
                   /\ slow' = [slow EXCEPT ![r] = "dropped"]
                   /\ UNCHANGED <<requests_total, durations, scrape, scrapes>>

\* The client has gone: hyper drops the future, which nothing measures.
DropSlow(r) == /\ Pass(r, "running", "dropped")
               /\ UNCHANGED <<requests_total, durations, scrape, scrapes>>

\* The handler has answered: counter!(..).increment(1) ...
Count(r) == /\ Pass(r, "running", "counted")
            /\ requests_total' = requests_total + 1
            /\ UNCHANGED <<durations, scrape, scrapes>>

\* ... and histogram!(..).record(latency), and the answer, without an await.
Record(r) == /\ Pass(r, "counted", "answered")
             /\ durations' = durations + 1
             /\ UNCHANGED <<requests_total, scrape, scrapes>>

\* GET /metrics: render() reads the counters ...
ReadCounters == /\ scrape.done /\ scrapes < MaxScrapes
                /\ scrape' = [done |-> FALSE, total |-> requests_total, durations |-> 0,
                              between |-> Cardinality(Between)]
                /\ scrapes' = scrapes + 1
                /\ UNCHANGED <<slow, requests_total, durations>>

\* ... and then the histograms.
ReadHistograms == /\ ~scrape.done
                  /\ scrape' = [scrape EXCEPT !.done = TRUE, !.durations = durations]
                  /\ UNCHANGED <<slow, requests_total, durations, scrapes>>

MetricsQuiet == /\ \A r \in Slow : slow[r] \in {"answered", "dropped"}
                /\ scrape.done
                /\ UNCHANGED metricsVars
MetricsNext == \/ \E r \in Slow : Start(r) \/ DropSlow(r) \/ Count(r) \/ Record(r)
               \/ ReadCounters \/ ReadHistograms \/ MetricsQuiet

MetricsSpec == MetricsInit /\ [][MetricsNext]_metricsVars

-----------------------------------------------------------------------------
\* Every variable has its type; no request is in the histogram and not in the
\* counter (examples/prometheus-metrics, main.rs 50-101).
MetricsTypeOK ==
  /\ slow \in [Slow -> {"absent", "running", "counted", "answered", "dropped"}]
  /\ requests_total \in Nat /\ durations \in 0..requests_total /\ scrapes \in 0..MaxScrapes
  /\ scrape \in [done : BOOLEAN, total : Nat, durations : Nat, between : Nat]

\* The figures are the answers: a request that was answered is in both, one
\* whose client left in neither, and they differ by the requests that are
\* between the two updates.  So a scrape shows too few observations at most for
\* the requests that were between them when it began, however many others
\* finished while it was rendered (main.rs 62 and 90-98).
FiguresAreTheAnswers ==
  LET answered == Cardinality({r \in Slow : slow[r] = "answered"})
  IN  /\ durations = answered
      /\ requests_total = answered + Cardinality(Between)
      /\ scrape.done => scrape.total <= scrape.durations + scrape.between
=============================================================================
