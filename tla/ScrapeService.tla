---------------------------- MODULE ScrapeService ----------------------------
(***************************************************************************)
(* The exporter as Prometheus sees it: run (cmd/freepbx-exporter/main.go)  *)
(* serving concurrent requests for /metrics, each of which gathers both    *)
(* collectors, and stopping on a signal.                                   *)
(*                                                                         *)
(* The scrape collector works under its mutex on a fresh connection; what  *)
(* happens on the connection is Scrape's matter, here a scrape only takes  *)
(* time and fails or not.  The aggregator's metrics and the error counters *)
(* are handed to the registry as references: their values are read when    *)
(* the registry gets to them, after the mutex has been released and while  *)
(* the event stream goes on counting.  The error counters of the phases    *)
(* are read as their total, at one moment.  One histogram stands for       *)
(* either of the aggregator's, jitter and round-trip time: both are        *)
(* observed and collected in the same way, and neither knows of the other. *)
(*                                                                         *)
(* Time is kept in timers that count down; only waiting takes time, and no *)
(* timer is overdue.                                                       *)
(***************************************************************************)
EXTENDS Integers, FiniteSets

CONSTANTS
    Clients,        \* Prometheus servers, each with one request at a time
    Timeout,        \* Config.Timeout
    Grace,          \* the ten seconds of srv.Shutdown
    MaxRequests,    \* bound: requests served
    MaxEvents       \* bound: RTCP events

ASSUME TimeoutAssumption == Timeout \in Nat \ {0} /\ Grace \in Nat \ {0}
ASSUME BoundAssumption == MaxRequests \in Nat /\ MaxEvents \in Nat

VARIABLES
    server,     \* "serving", "draining" (in Shutdown), "stopped" or "failed"
    ctxDone,    \* the signal context is cancelled
    grace,      \* time left to Shutdown
    job,        \* each client's request
    requests,   \* requests accepted so far
    errors,     \* scrape_errors_total, over all phases
    mutex,      \* Collector.mu: {} or the client whose scrape holds it
    published,  \* history: the highest errors value in a finished response
    owed,       \* history: clients past the mutex when Shutdown began, unanswered
    counters,   \* rtcp_events_total and the observations of a histogram
    handling    \* what handleRTCP still has to count for its event

process == <<server, ctxDone, grace>>
aggregator == <<counters, handling>>
history == <<published, owed>>
vars == <<process, job, mutex, requests, errors, history, aggregator>>

Metrics == {"events", "observations"}
Places == {"none", "wait", "connect", "banner", "session", "report", "sent", "read"}

\* at: the place of the scrape collector's goroutine; ctx, banner: timers of the
\* scrape's context and of the banner read; held: time the mutex was held;
\* failed: firstErr; up: asterisk_up; shown: the error total in the response;
\* base: history, what had been published when the request came; got: how many
\* of the aggregator's metrics were read, seen: their values.
NoJob == [at |-> "none", ctx |-> 0, banner |-> 0, held |-> 0,
          failed |-> FALSE, up |-> TRUE, shown |-> 0, base |-> 0,
          got |-> 0, seen |-> [m \in Metrics |-> 0]]

Init ==
    /\ server = "serving" /\ ctxDone = FALSE /\ grace = Grace
    /\ job = [c \in Clients |-> NoJob]
    /\ mutex = {} /\ requests = 0 /\ errors = 0
    /\ published = 0 /\ owed = {}
    /\ counters = [m \in Metrics |-> 0] /\ handling = {}

Running == server \in {"serving", "draining"}
At(c, place) == Running /\ job[c].at = place

-----------------------------------------------------------------------------
(* A request: the registry's Gather starts both Collects *)

Request(c) ==
    /\ server = "serving" /\ job[c].at = "none" /\ requests < MaxRequests
    /\ requests' = requests + 1
    /\ job' = [job EXCEPT ![c] = [NoJob EXCEPT !.at = "wait", !.base = published]]
    /\ UNCHANGED <<process, mutex, errors, history, aggregator>>

-----------------------------------------------------------------------------
(* Collector.Collect *)

Go(c, next) == job' = [job EXCEPT ![c] = next]

LockMissing == TRUE
LockFree == mutex = {}

Lock(c) ==
    /\ At(c, "wait") /\ LockFree
    /\ mutex' = {c}
    /\ Go(c, [job[c] EXCEPT !.at = "connect", !.ctx = Timeout])
    /\ UNCHANGED <<process, requests, errors, history, aggregator>>

Connected(c) ==
    /\ At(c, "connect")
    /\ Go(c, [job[c] EXCEPT !.at = "banner", !.banner = Timeout])
    /\ UNCHANGED <<process, mutex, requests, errors, history, aggregator>>

\* The counter of a failed step.
Uncounted(n) == n
Counted(n) == n + 1

\* The dial or the banner read fails or times out.
DialFails(c) ==
    /\ At(c, "connect") \/ At(c, "banner")
    /\ errors' = Counted(errors)
    /\ Go(c, [job[c] EXCEPT !.at = "report", !.failed = TRUE])
    /\ UNCHANGED <<process, mutex, requests, history, aggregator>>

\* The deadline of the calls after the dial is the one of the scrape's context,
\* whatever the banner has taken.
FreshDeadline(c) == Timeout
CallDeadline(c) == job[c].ctx

BannerRead(c) ==
    /\ At(c, "banner")
    /\ Go(c, [job[c] EXCEPT !.at = "session", !.ctx = CallDeadline(c)])
    /\ UNCHANGED <<process, mutex, requests, errors, history, aggregator>>

\* The first failure of a scrape: after a failed login it is over, after a failed
\* phase it goes on.  Later ones count too, which nothing here tells apart.
SessionFails(c) ==
    /\ At(c, "session") /\ ~job[c].failed
    /\ errors' = Counted(errors)
    /\ \E next \in {"session", "report"} :
          Go(c, [job[c] EXCEPT !.at = next, !.failed = TRUE])
    /\ UNCHANGED <<process, mutex, requests, history, aggregator>>

\* The last phase is over, and the Logoff, which may take what is left of the
\* time and whose error is dropped.
SessionEnds(c) ==
    /\ At(c, "session")
    /\ Go(c, [job[c] EXCEPT !.at = "report"])
    /\ UNCHANGED <<process, mutex, requests, errors, history, aggregator>>

\* The deferred Unlock.
UnlockedOnSuccess(c) == IF job[c].failed THEN mutex ELSE {}
Unlocked(c) == {}

\* asterisk_up and the references of the error counters are sent, the mutex is
\* released.
Report(c) ==
    /\ At(c, "report")
    /\ Go(c, [job[c] EXCEPT !.at = "sent", !.up = ~job[c].failed,
                            !.ctx = 0, !.banner = 0, !.held = 0])
    /\ mutex' = Unlocked(c)
    /\ UNCHANGED <<process, requests, errors, history, aggregator>>

\* The registry reads the error counters.
ErrorsRead(c) ==
    /\ At(c, "sent")
    /\ Go(c, [job[c] EXCEPT !.at = "read", !.shown = errors])
    /\ UNCHANGED <<process, mutex, requests, errors, history, aggregator>>

-----------------------------------------------------------------------------
(* Aggregator: Collect against handleRTCP *)

EventsFirst == <<"events", "observations">>
CollectOrder == <<"observations", "events">>

\* The registry reads the next of the aggregator's metrics.
MetricRead(c) ==
    /\ Running /\ job[c].at # "none" /\ job[c].got < 2
    /\ LET m == CollectOrder[job[c].got + 1]
       IN  Go(c, [job[c] EXCEPT !.got = @ + 1, !.seen[m] = counters[m]])
    /\ UNCHANGED <<process, mutex, requests, errors, history, aggregator>>

\* handleRTCP counts the event, then observes its measurement if it has one.
EventArrives ==
    /\ Running /\ handling = {} /\ counters["events"] < MaxEvents
    /\ counters' = [counters EXCEPT !["events"] = @ + 1]
    /\ handling' \in {{}, {"observations"}}
    /\ UNCHANGED <<process, job, mutex, requests, errors, history>>

Observed ==
    /\ Running /\ handling = {"observations"}
    /\ counters' = [counters EXCEPT !["observations"] = @ + 1]
    /\ handling' = {}
    /\ UNCHANGED <<process, job, mutex, requests, errors, history>>

-----------------------------------------------------------------------------
(* The response, the process, time *)

Gathered(c) == At(c, "read") /\ job[c].got = 2

Respond(c) ==
    /\ Gathered(c)
    /\ published' = IF job[c].shown > published THEN job[c].shown ELSE published
    /\ owed' = owed \ {c}
    /\ Go(c, NoJob)
    /\ UNCHANGED <<process, mutex, requests, errors, aggregator>>

Signal ==
    /\ Running /\ ~ctxDone
    /\ ctxDone' = TRUE
    /\ UNCHANGED <<server, grace, job, mutex, requests, errors, history, aggregator>>

\* select: ListenAndServe returned an error, or the context is done.
ListenFails ==
    /\ server = "serving"
    /\ server' = "failed"
    /\ UNCHANGED <<ctxDone, grace, job, mutex, requests, errors, history, aggregator>>

DrainStarts ==
    /\ server = "serving" /\ ctxDone
    /\ server' = "draining"
    /\ owed' = {c \in Clients : job[c].at \notin {"none", "wait"}}
    /\ UNCHANGED <<ctxDone, grace, job, mutex, requests, errors, published, aggregator>>

\* Shutdown returns when no request is in flight ...
Drained ==
    /\ server = "draining" /\ \A c \in Clients : job[c].at = "none"
    /\ server' = "stopped"
    /\ UNCHANGED <<ctxDone, grace, job, mutex, requests, errors, history, aggregator>>

\* ... or with an error at its deadline; the requests die with the process.
GivesUpOnSignal == ctxDone
GivesUp == grace = 0

GraceOver ==
    /\ server = "draining" /\ GivesUp
    /\ server' = "failed"
    /\ UNCHANGED <<ctxDone, grace, job, mutex, requests, errors, history, aggregator>>

Overdue ==
    \/ server = "draining" /\ grace = 0
    \/ \E c \in Clients : \/ job[c].at \in {"connect", "session"} /\ job[c].ctx = 0
                          \/ job[c].at = "banner" /\ job[c].banner = 0
                          \/ job[c].at \in {"report", "sent", "read"}

Less(n) == IF n > 0 THEN n - 1 ELSE 0

Tick ==
    /\ Running /\ ~Overdue
    /\ grace' = IF server = "draining" THEN Less(grace) ELSE grace
    /\ job' = [c \in Clients |->
                 IF job[c].at \in {"connect", "banner", "session"}
                   THEN [job[c] EXCEPT !.ctx = Less(@), !.banner = Less(@), !.held = @ + 1]
                   ELSE job[c]]
    /\ UNCHANGED <<server, ctxDone, mutex, requests, errors, history, aggregator>>

Exited == ~Running /\ UNCHANGED vars

-----------------------------------------------------------------------------
Scrapes(c) ==
    \/ Connected(c) \/ DialFails(c) \/ BannerRead(c)
    \/ SessionFails(c) \/ SessionEnds(c) \/ Report(c)
Answers(c) == ErrorsRead(c) \/ Respond(c)
Handles == EventArrives \/ Observed
Stops == DrainStarts \/ Drained \/ GraceOver

Next ==
    \/ \E c \in Clients : Request(c) \/ Lock(c) \/ Scrapes(c) \/ Answers(c) \/ MetricRead(c)
    \/ Handles \/ Signal \/ ListenFails \/ Stops \/ Tick \/ Exited

Spec == Init /\ [][Next]_vars

\* Goroutines run and timers expire; Go's mutex starves no waiter.  Requests,
\* events and the signal may stay away.
FairSpec ==
    /\ Spec
    /\ \A c \in Clients : /\ SF_vars(Lock(c))
                          /\ WF_vars(SessionFails(c) \/ SessionEnds(c) \/ Report(c))
                          /\ WF_vars(DialFails(c))
                          /\ WF_vars(Answers(c)) /\ WF_vars(MetricRead(c))
    /\ WF_vars(Stops) /\ WF_vars(Tick)

-----------------------------------------------------------------------------
(* Properties *)

Job == [at : Places, ctx : 0..Timeout, banner : 0..Timeout, held : Nat,
        failed : BOOLEAN, up : BOOLEAN, shown : Nat, base : Nat,
        got : 0..2, seen : [Metrics -> Nat]]

\* Where a scrape is under way.
Scraping == {"connect", "banner", "session", "report"}

\* The mutex is held by the one client whose scrape is under way.
MutexHeldByScrape ==
    /\ mutex = {c \in Clients : job[c].at \in Scraping}
    /\ \A c, d \in mutex : c = d

TypeOK ==
    /\ MutexHeldByScrape
    /\ server \in {"serving", "draining", "stopped", "failed"}
    /\ ctxDone \in BOOLEAN /\ grace \in 0..Grace
    /\ job \in [Clients -> Job]
    /\ mutex \in SUBSET Clients /\ requests \in Nat /\ errors \in Nat
    /\ published \in Nat /\ owed \in SUBSET Clients
    /\ counters \in [Metrics -> Nat] /\ handling \in {{}, {"observations"}}

\* A response with asterisk_up 0 shows an error total above every response that
\* was complete when its request came: although the counters are read after
\* the mutex is released and other scrapes count too, no failed scrape goes
\* without a rise of the sum of all phases.  (A phase's own counter first appears
\* with its first failure, at 1, where a query on its increase sees no rise.)
FailureVisible ==
    \A c \in Clients : Gathered(c) /\ ~job[c].up => job[c].shown > job[c].base

\* No response holds more observations of jitter, or of round-trip times, than
\* events, however the stream's handler and the registry's reads interleave.
ObservationsWithinEvents ==
    \A c \in Clients : Gathered(c) => job[c].seen["observations"] <= job[c].seen["events"]

\* A scrape holds the mutex for at most twice the timeout: the banner read has a
\* deadline of its own, everything after it shares the context's.
MutexHeldBounded == \A c \in Clients : job[c].held <= 2 * Timeout

\* Every request is answered unless the process ends: no failure of a scrape
\* leaves the mutex locked for those that queue behind it.
RequestsAnswered ==
    \A c \in Clients : job[c].at # "none" ~> job[c].at = "none" \/ ~Running

\* A scrape that had the mutex when Shutdown began is answered before the process
\* ends, if the grace is more than twice the timeout.  (With the defaults, ten
\* seconds both, it is not.)
OwedAnswered ==
    Grace > 2 * Timeout /\ server \in {"stopped", "failed"} => owed = {}
=============================================================================
