# Verification of freepbx-exporter

TLA+ models of the exporter's concurrent and protocol logic, the TLC runs that
check them on small instances, and TLAPS proofs of the safety properties for
every instance. `PROJECT.json` maps each definition to the source lines it
models and lists the runs, the mutated definitions that show each property can
fail, the hazards, the findings and the theorems.

    tlc -workers 4 -config EventStream.cfg EventStream.tla
    tlapm EventStream_proofs.tla

## The system

The exporter serves Prometheus metrics about an Asterisk PBX. It talks to the
Asterisk Manager Interface (AMI) in two ways: every scrape opens its own
connection, and one goroutine keeps a connection for events.

| Component | State | Operations | What is hard |
|---|---|---|---|
| AMI client `ami/client.go` | `conn` (nil once closed), the buffered reader, the ActionID counter | `Dial`, `Login`, `Action`, `ListAction`, `NextEvent`, `Logoff`, `Close` | no lock; replies matched only in part; one deadline shared by all calls of a scrape; a read cut by a deadline |
| Event stream `ami/eventstream.go` | backoff, first attempt, the session's `closeOnce` and watchdog goroutine | `Run`, `runOnce`, hooks `OnUp`, `OnReconnect` | `Close` from another goroutine; failures at any step; shutdown at any step; no read deadline |
| Message framing `ami/message.go` | none | `ReadMessage`, `Encode`, `Get`, `Set` | partial messages, free-form output, duplicate keys |
| RTCP aggregator `rtcp/aggregator.go` | `channels` map behind `mu`, Prometheus vectors | `Handle` (RTCP, Hangup), `Collect` (with the TTL sweep), `SetStreamUp`, `IncReconnects` | events against sweeps from several scrapes; clock read before the lock; verdict after the unlock; reused channel names |
| RTCP parser `rtcp/parser.go` | none | `Parse` | unit heuristics and their boundaries |
| Collector `collector/*.go` | mutex, `scrapeErrors` | `Collect`, `scrape`, five phases | one step of several failing; errors told apart by their text; concurrent scrapes |
| Configuration `config/config.go` | none | `Load`, `validate`, `Redact` | precedence, validation gaps |
| Process `cmd/freepbx-exporter/main.go` | signal context, HTTP server, error channel | `run` | shutdown order against in-flight scrapes |

Interactions: the event stream calls the aggregator's `Handle`, `SetStreamUp`
and `IncReconnects` on its own goroutine; the registry calls both `Collect`
methods on the goroutine of each HTTP request; the collector dials, uses and
closes an AMI client of its own per scrape; the signal context stops the event
stream through its watchdog, and the process through `srv.Shutdown`.

What makes each correct: the client returns to a call its own answer or an
error, in time; the stream's gauge and counters follow its sessions, it accounts
for every message, leaks no socket, reconnects, and stops when told to; the
aggregator's verdicts concern the call that ended, and it forgets only what is
idle; a scrape ends, tries every phase, and reports failures consistently.

## Modules

### EventStream

`Run`, `runOnce`, the client calls they make, and the watchdogs. `pc` names the
point the stream goroutine has reached; the variables `first`, `backoff`,
`cleared` (`c.conn == nil`), `once` (`closeOnce`) and `socket` are the code's.
Every use of `c.conn` is two steps, the nil check and the use, because the
watchdog's `Close` runs unlocked in between; the result of the use after a
concurrent clear is a choice (`UseOutcomes`: nil dereference, or the stale
value). In `write`, the two uses after the check (deadline, then `Write`) are
one step: they can fail in the same ways. `closeOnce.Do` is modelled as Go
defines it: a second caller waits for the first (`Release` waits while the
watchdog's Close is running). The deferred calls run in their order,
`OnUp(false)` first, as actions `Unwind` and `Release`.

Asterisk accepts or refuses a login, sends messages with and without an Event
header, dies (and may take the unread messages with it), or falls silent. Each
failure costs one of `MaxFaults`; a login timeout costs nothing when the peer is
silent, since the silence was paid for, and one like any other failure when it
passes with the reply already on the socket. A cancelled context never costs
anything. `Cancel` is the signal.

Watchdogs of earlier sessions are only counted (`parked`): their `closeOnce` is
spent, so all they do is end. After a panic the process is gone and no goroutine
moves.

### Session

What those who use the stream may rely on, without connections, goroutines,
failures or backoff: attempts, sessions, and messages that are handled in order,
each at most once, only while their session lasts. `ImplementsSession` is
`S!Spec` under a refinement mapping: the abstract state is computed from `pc`
(`SessionState`), an attempt is under way between the counting of the attempt
and the outcome of the login (`Trying`), `unread` is `inbox`, and the counters
are the code's. Several properties follow from it alone, such as that no message
of one session is read in the next, and CallQuality uses Session in the place of
the whole stream.

### Aggregator

`Handle` as the steps the lock leaves visible: the event is parsed and the clock
read; the map is changed under `mu`; after a Hangup the verdict is counted after
the unlock. `gcStaleChannels` likewise reads the clock, then sweeps. The two
packet counters of an entry are only compared with zero, so an entry keeps the
set of directions heard; an absent entry is one that has heard none. An event
that names no channel can set the loss gauge and leaves the map alone
(`RtcpUnnamed`). The clock ticks between any two steps.

`told` is what the events of the current call of a channel said; it is updated
when `Handle` reads the clock, and reset by the Hangup. `cut` is the set of
channels of whose current call a sweep has discarded something, `blind` counts
the ended calls among them, and `due` counts the verdicts `told` calls for.
These are history: no action reads them. What a call calls for is `Deserved`: it
lasted at least `MinCall`, and one direction was heard and the other not. That is
said in the words of the option and of the metric, apart from the code's
comparisons in `Verdict`, so a wrong boundary in the latter is an error that the
properties see. A call lasts from its first RTCP event to its Hangup.

Left out here: the event counter and the histograms, which are in ScrapeService,
and the two stream metrics, which are the `up` and `reconnects` of EventStream.

### CallQuality

The one-way counter end to end: calls in Asterisk on reused channel names, their
events on the stream, the aggregator and its sweeps. It extends Aggregator and
instantiates Session; `Handed` is the handler call that ties the two, and no
other step of the session happens while `Handle` runs, because it runs on the
stream's goroutine. An event reported while there is no session is gone, and so
is what a broken session had not read. `truth` is what the call in progress has
reported, `meant` the verdicts an exporter that missed nothing would have
counted (by `Deserved` of Aggregator), and `spoilt` the calls that lost an event
or follow a lost Hangup; no action of the exporter reads them. A session goes on
to another state only when the handler has returned (`HandlerDone`); that a
message is handled only while its session is up is a part of `TypeOKCalls`, which
fails if the stream does not wait for it.

The clock advances only when everything sent has been handled: a message takes
milliseconds, a tick of this clock is seconds. The end of `Run` and of the
process (Session's `Stop` and `Die`) is left out, since the counter ends with
it.

### AmiClient

`Action`, `ListAction` and `Login` on one connection, in any order, with
responses, list items, completions, unsolicited events anywhere, a peer that may
die with any suffix of its output unread, and a context with one deadline. A
message is its kind, its ActionID and an item number. Messages lie on `wire`
from the moment Asterisk decides to send them, and a deadline may pass with
messages on the wire, which covers every delay; it may then have consumed part
of a message (`torn`). `said` is Asterisk's answer to the last request. The one
deadline is `deadlineFromCtx` under the scrape's context: a call has what the
dial and earlier calls have left of the timeout, although client.go:26 calls it
per action.

### Scrape

Extends AmiClient: `Collect` and `scrape` choose the next call and interpret its
result; every step of a call, of Asterisk and of the clock is AmiClient's.
Phases are modelled by what they decide: emit, skip (`isUnknownActionErr`), or
fail. What they compute from the items is ListMetrics'.

### ListMetrics

What a phase makes of the rows of its answer. The rows come one at a time and in
any number up to `MaxRows`; `groups` is the phase's map of counts (a function from
label values to how many rows had them), `linkedids` the set of calls, `sent`
what went to the registry. Rows hold the headers the code reads; texts are members of small sets: a SIP
status is its first word and whether a latency follows, a queue's figure is a
number, not a number or missing. `GroupsAgree` compares the groups with the series
sent for the same rows or, where rows have no series of their own (channels, queue
members), with the rows. `CallsCountedOnce` gives `calls_active` exactly: the
Linkedids, and the Uniqueids of the channels that have none. `Send` is
`MustNewConstMetric`: a label in `Invalid` (not UTF-8) ends the process, since the registry runs `Collect` on a
goroutine of its own. A run is one phase; the phases share nothing but the
registry.

### AmiMessage

`ReadMessage`, called until the first error, on any lines and with a stream that
ends between messages, inside one or inside a line, or breaks. A line is blank,
free text, or a key and a value. `Frames` says at once what the messages in some
lines are: the one that ends with the n-th last line is the n-th returned. The
loop is compared with it after every line.

### RtcpParse

`Parse` for one measurement at a time: the header names it tries in order,
`Get`, which sees the first header of a name, and the unit it guesses. `Numbers`
are in fixed point, thousandths or 256ths, and TLC takes them on both sides of
each boundary (`BoundaryNumbers`, in Inputs); the proof is for any. Each number
knows the unit it was sent in. `Chosen` is the header that counts: the first of
its name, of the earliest name in the code's list that says something.
`SampleFaithful` says that the sample is what this header said, whatever the
others hold, unless its own number is in `Misread`, exactly where the heuristics
are wrong: more than 1 s of jitter sent in seconds or at most 1 ms of it sent in
milliseconds, 10 s of round-trip time or more sent in seconds or less than 10 ms
sent in milliseconds, and the byte 1 as a loss. Then the sample is this number in
the other unit (`AsOtherUnit`) and nothing else.

### ConfigLoad

`Load` and the route registrations of `run`. One setting stands for all of its
kind. `EnvCounts` is the quiet fallback to the default of a variable that does
not parse; `FlagDefault` is what a flag's registration leaves in its setting, the
value applied from the environment; `TakeWord` is `flag.FlagSet`, which stops at
the first word that is no flag. `Routes` registers the telemetry path and then the
exporter's own routes with `http.ServeMux`, which is modelled as far as one path
of each kind needs: it panics on what is no pattern (`WellFormed`: an unclosed
wildcard, or a blank, before which it expects a method) and on two patterns that
overlap without one being the narrower (`Conflict`, over the `Requests` they
match). The patterns are `/`, `/healthz`, a plain path, one that is not clean, a
wildcard for one segment and one for all the rest.

`StartsAsConfigured` compares the result with a direct definition of precedence
(`Resolved`). `Fatal` lists the paths that `Load` accepts and that then kill the
process, which the mux's rules must come to; and for a path that the mux takes, a
request for `/healthz` or the index still goes there (`RoutesKept`), and one for
the telemetry path gets the metrics (`MetricsExposed`), unless the path has a
wildcard or is one the mux redirects.

### Inputs

The four sequential modules (ListMetrics, AmiMessage, RtcpParse, ConfigLoad)
side by side for one TLC run: each behaviour gives one of them an input and runs
it to its end.

### ScrapeService

`run` with several requests for `/metrics` in flight, each with both `Collect`s.
`job[c]` is client c's request: `at` is the place of the collector's goroutine,
`ctx` and `banner` the time left on the scrape's context and on the banner read,
`failed` is `firstErr`. `mutex` is `Collector.mu`, taken only when free
(`LockFree`); that exactly the one scrape that is under way holds it is a part of
`TypeOK`. What happens on the
connection is Scrape's; here a scrape takes time and fails or not. `errors` is
the total of `scrape_errors_total`: the counters are sent as references inside
the mutex (`Report`) and read by the registry after it (`ErrorsRead`), when
other scrapes may have counted. The aggregator's metrics are read in the order
`Collect` sends them (`MetricRead`), while `handleRTCP` counts an event first
and observes what it measured after (`EventArrives`, `Observed`). One histogram
stands for both: jitter and round-trip time are observed after the count and
sent before it, and nothing relates the two to each other.

`server` follows `run`: serving, then `select` on the listener's error or the
signal, then `Shutdown`, which waits for the requests or gives up after `Grace`;
when `run` returns, the requests die with the process. Requests that come after
`Shutdown` began are not accepted. The idle connections `Shutdown` closes, the
other two routes and logging are left out.

Timers count down, and `Tick` is disabled while one that guards the current step
is at zero or a goroutine could run: only waiting takes time. This is what makes
the bounds in `MutexHeldBounded` and `OwedAnswered` exact; a loaded machine adds
its scheduling delays to them. `published` (the largest error total in a
finished response), `base` and `owed` are history. `FailureVisible` is about the
sum of the error counters as it is shown; the counter of one phase first appears
with its first failure, at 1, where a query on its increase sees no rise.

## Runs

| Run | Shows | Bounds |
|---|---|---|
| `event_stream` | Types, up gauge, panic only at shutdown, backoff, message conservation and loss, late events, socket leaks; implements Session; shutdown completes; the stream keeps reconnecting | 4 failures, 2 messages, backoff 1 to 6 |
| `event_stream_panic` | **Violated**: shutdown may panic the process | same |
| `event_stream_silent` | **Violated**: `event_stream_up` 1 does not mean healthy | same |
| `aggregator` | Entries tell their own call; verdict error is bounded by the calls swept; sweeps take only idle channels, and all of them | 2 reused channel names, 1 scraper, times 0..3, TTL 1, MinCall 1, 1 hangup |
| `aggregator_series` | **Violated**: per-channel series outlive their channels | same |
| `ami_client` | Lists hold their own items; quiet connections give each call its answer; the rest of a torn message is never read; calls return | 3 calls of any kind, 2 items, 1 stray event, deadline at 1 of times 0..2 |
| `scrape` | `asterisk_up` and the error counters agree; phases are isolated; failures are Asterisk's; scrapes end | all phases but chan_sip, 1 item, 1 stray event |
| `call_quality` | The one-way counter is off by no more than the calls that lost an event or follow a lost Hangup, and those a sweep cut | 1 reused channel name, 3 calls, 4 messages, 1 reconnect, 1 scraper, times 0..2, TTL 1, MinCall 1 |
| `inputs` | Phases: no two series coincide, for which the registry would refuse the response; grouped series agree with single ones and with the members of queues; every call is counted, once for all its legs. Framing: messages stay whole, wherever the stream ends. Parser: samples say what the header that counts said. Configuration: what is served is what was configured, and which paths are not | 3 rows, 2 names of which one not UTF-8, 2 call ids; 5 lines of 1 key and 2 values; 2 headers; 2 arguments |
| `list_metrics_panic` | **Violated**: a name that is not UTF-8 ends the process | 3 rows as above |
| `scrape_service` | A failed scrape shows in its own response; observations stay within events; the mutex is held at most two timeouts; every request is answered; Shutdown cuts no scrape that had the mutex if its grace is above two timeouts | 2 clients, 2 requests, timeout 1, grace 3, 1 event |
| `scrape_refused` | **Violated**: a refused CoreSettings or CoreStatus still gives `asterisk_up` 1 | as `scrape` |

Why the bounds are enough. EventStream: four failures give the backoff its cap
after 1, 2, 4 (cap 6, not a power of two, so capping differs from doubling) and
let sessions fail in different places one after the other; two messages let one
be pending while the other is lost, and an event follow a skipped message.
Aggregator: a hangup makes one of two names free for reuse while the other
channel is live; four instants let an event, a clock read and a sweep fall at
different times on both sides of the TTL and of MinCall, so that a call is
swept, heard again and judged. More hangups and more scrapers are covered by the
proofs. AmiClient: three calls let an off-by-one reply shift past one call into
the next. Scrape: seven calls are issued; `MaxCalls` 8 never blocks. chan_sip's
phase has the same form as the other two optional ones, and being disabled
exercises the passing over of a phase; the proofs cover any of them disabled.
CallQuality: three calls on one name let the error of a lost Hangup be absorbed
by the next call and the one after be judged free of it; four messages let two
calls report and end, or one be lost among those of another; one reconnect gives
two sessions with a gap between them. Inputs: three rows let two fall into one
group and the third into another, or have a default coincide with a value; five
lines hold two messages, free text and a part of a third; two headers let a
malformed one hide or not hide a good one, and a name be repeated; two arguments
let one override the other or follow the word that stops the parser.
ScrapeService: two clients make one queue behind the other and read the counters
between the other's failures; a timeout of 1 lets a scrape use up the connect,
the banner and the session timers one after the other; a grace of 3 is the least
above two timeouts. More clients, longer timers and more events are covered by
the proofs.

The findings, in short. `ReturnsCleanly`: cancel the context while `NextEvent`
is between its nil check and `SetReadDeadline`. `UpMeansHealthy`: Asterisk falls
silent after the login. `SeriesOnlyOfActive`: an RTCP event with a loss figure,
then the Hangup. `UpMeansAccepted`: CoreSettings answered with `Response:
Error`. `NeverPanics`: any label in Latin-1.

### Fairness

EventStream: the stream goroutine and the watchdogs are scheduled (the Go
scheduler), timers and the login deadline expire, and a peer that is not silent
answers a login. Neither messages, failures nor the signal are forced. With
these, `KeepsReconnecting` rests on the failures being finitely many, which
`MaxFaults` expresses, and it counts a session on a peer that has gone silent,
as the code does: `UpMeansHealthy` is the run that shows what that hides.
Aggregator: `Handle` returns and each scraper keeps scraping, which is what
`IdleForgotten` needs: pruning happens only in `Collect`. AmiClient and Scrape:
the caller's steps are taken and time reaches the deadline; nothing makes
Asterisk answer. `AmiClient.Terminated`, `Scrape.Done` and
`EventStream.Terminated` are the states where the system may stop; deadlock is
checked in every run. ScrapeService: each goroutine runs, timers run, the
registry reads what it was sent, and a scrape that waits for the mutex gets it
(strong fairness of `Lock`: a Go mutex hands itself to a waiter it has starved
for a millisecond). Requests, events, the signal and a listener error may never
come, nor need a dial or a banner succeed. The exited process stutters
(`Exited`). In Aggregator some scraper can always take a step. CallQuality and
Inputs state safety only, without fairness.

## Proofs

For every value of the constants that satisfies the named assumptions
(`BackoffAssumption`, `BoundAssumption`, `OptionsAssumption`,
`NoChannelAssumption`, `TimeoutAssumption`, `DisabledAssumption`,
`CallBoundsAssumption`, `NamesAssumption`, `HeaderAssumption`,
`NumbersAssumption`, `InputsAssumption`), however many calls, rows,
lines, headers, arguments, clients or failures there are:

EventStream_proofs
: `TypeCorrect` (types; the backoff stays within its bounds), `GaugeCorrect`,
  `PanicCorrect`, `SocketCorrect`, `ReconnectsCorrect`, `DeliveryCorrect`,
  `LateCorrect`. The invariants are layered. `SessionInv` says who may have
  cleared and closed the connection: the session is untouched while `once` is
  new, cleared only by a cancelled watchdog or by `Release`, and closed whenever
  the goroutine is between sessions; the panic and socket theorems follow.
  `FaultInv` says that from the moment a session or an attempt is bound to fail
  until the retry is counted there is at least one more failure than there are
  reconnects, unless the context was cancelled; so each reconnect is paid for.
  `LossInv` makes conservation inductive by saying where messages can be unread.
  `LateInv` says that after a late event the goroutine can no longer pass a nil
  check, hence at most one. `UpTracksSession` is inductive given types.

  `BackoffCorrect`: the backoff at every dial is `BaseBackoff` doubled once per
  reconnect and capped. `BackoffInv` says between which steps the backoff is one
  doubling ahead of the counter. That capping after each doubling is the same as
  capping the power (`CappedDoubles`) needs what the recursive function `Doubled`
  computes, so that it exists at all (`DoubledExists`) is proved from finite
  prefixes (`UpTo`) and the least number on which two of them would differ.

  `RefinementCorrect`: EventStream implements Session. Each step of `Run`, a
  watchdog, the peer or the signal is one abstract step or a stutter:
  `NextRefines` goes through them place by place. It needs `UpTracksSession`
  (the abstract state says whether the gauge is up), `LossInv` (an attempt
  starts with nothing unread) and that `Run`'s `first` is set only before the
  first attempt, so that the first attempt is the only one that is not a
  `Retry`.

Aggregator_proofs
: `TypeCorrect`, `EntriesTellCalls`, `VerdictsCorrect`, `ForgettingCorrect`.
  `EntryInv` relates map and history while `Handle` is between its clock read
  and the lock, when `told` is one event ahead of the entry. `VerdictInv`
  carries the bound of the counter error through the window between unlock and
  count, by adding the pending verdict to the counter. `VerdictDeserved` shows the
  code's verdict of an entry to be the one it deserves. `SweepInv` says that a
  cutoff in flight is never later than the present cutoff, and entries are no
  later than what was told, so a sweep that uses an old cutoff still takes only
  idle channels.

CallQuality_proofs
: `CallsUseAggregator`, `CallsUseSession`, `CallsTypeCorrect`. The composition
  adds nothing to its parts: every step of it is a step of Aggregator or leaves
  the aggregator alone, and likewise for Session, so the theorems about each
  (`VerdictsCorrect`, `EntriesTellCalls`) hold of the two together. The first needs
  `StreamInv`: what is on the stream are reports about known channels.
  `HandlerInv`: a message is handled only while its session is up.

  `ErrorsCorrect` is the property of the composition that neither part has: the
  counter is off by no more than the spoilt calls and those a sweep cut. Its
  inductive invariant `CallsInv` looks ahead, over the messages on the way.
  `OrderInv`: the messages of a channel are in the order of its calls, and a
  Hangup is the last of its call. `FollowInv`: behind a message of a call come
  the Hangups of that call and of the later ones, unless they were lost, so that
  no call takes over what was said of the one before without being spoilt.
  `WillTell` is what will be known of a call once its messages have arrived, and
  `TruthInv` says that of the call in progress this is the truth, unless it is
  spoilt. `CountInv` keeps the account: for each verdict, those reached and those
  still `coming` are those `meant`, but for the `wrong` calls, of which only the
  `settled` ones can have added a verdict. Every way a message is sent, lost,
  handed over or taken in moves a call from one of these sets to another
  (`QuietStep`, `TimeStep`, `RtcpSeenStep`, `HangsUpStep`, `RtcpHandedStep`,
  `HangupHandedStep`, `LosesStep`). `VerdictsCorrect` gives the rest of the bound.
  TLC has checked `CallsInv` on one channel with three calls and four messages,
  and on two channels with two calls and two messages.

AmiClient_proofs
: `TypeCorrect`, `TornCorrect`, `QuietCorrect`, `ListCorrect`. A message is only
  torn by the deadline, which is the same for every later call (`TornInv`); with
  a deadline per call this would fail, which is the property's mutant.
  `QuietInv`: without unsolicited events either the deadline has ended a call
  and so all later ones, or what is on the wire is exactly the rest of the
  answer to the present call, hence nothing between calls. `ListInv` needs no
  quiet wire: on any wire, own items are in order, those unread follow those the
  list holds, and behind an own completion none is missing; a new call begins
  with an ActionID that is on no message. Each way the wire changes (a reply
  appended, the first message read, an event inserted, the tail lost) has a
  lemma.

Scrape_proofs
: `ScrapeIsClient` (a scrape's connection only takes steps of AmiClient, so its
  theorems apply), `ScrapeTypeCorrect`, `UpCorrect`, `PhasesCorrect`,
  `FailuresCorrect`. `PhaseAfterIs` computes the order for every choice of
  disabled phases; `TriedInv` says that the enabled phases that are not ahead of
  the scrape have each ended in one way; `AnswerInv` relates what Asterisk has
  answered to what has failed or was skipped, with the present phase apart, and
  rests on `QuietCorrect`.

ScrapeService_proofs
: `TypeCorrect`, `FailuresShow`, `ObservationsCorrect`, `HeldCorrect`,
  `OwedCorrect`. A request's step changes its own job only, so each invariant is
  a statement about one job, proved step by step for that job, and kept for the
  others because errors and counters only grow. `MutexKept` follows the mutex through
  the places of a scrape. `FailInv`: once a scrape has
  failed, the total is above what was published when its request came, and
  nothing published exceeds the total. `SeenInv`: the observations are at most
  the events counted, one fewer while `handleRTCP` is between the two, and a
  value read first is at most the present one. `HeldInv`: time held plus time
  left on the context's timer is at most one timeout, on the banner's two.
  `OwedInv`: during Shutdown the grace left exceeds every timer a scrape that is
  owed an answer still has to wait for.

ListMetrics_proofs
: `MetricsUnique`, `MetricsAgree`, `MetricsCalls`: for any rows of a list. The
  invariant `MetricsInv` says while the rows are taken that each series sent is
  one of a row of an object (`SentByRows`), so that two equal ones would be two
  rows of one object; that the groups count exactly the labels of the rows or
  series they will be compared with (`GroupsCount`; `CountStep` is one more of
  them); and that `linkedids` are the calls of the rows (`CallsSeen`). `CallsCounted`
  is what `calls_active` becomes at the end: the number of Linkedids and of the
  Uniqueids of channels without one.

Inputs_proofs
: `ConfigCorrect`, `ParseCorrect`, `FramingCorrect`, `InputsMetricsCorrect`,
  `InputsTypeCorrect`: the four sequential parts, each under an invariant that
  every behaviour of the others leaves alone. `ConfigInv`: after k arguments every
  setting has the value that its last of these k gives it, or the environment, or
  the default (`SoFar`), which after the last argument is the precedence the
  property states; `MuxTakes` and `MuxServes` are the mux's rules on each path.
  `ParserInv`: the header names tried so far said nothing usable (`Tried`), so a
  sample came from the first that did, and `GuessRight` says what the unit
  heuristics make of a number, in and outside `Misread`. `FramingInv`: the messages
  returned are those that end at the blank lines passed (`Returned`), and the one
  under way is made of the lines since (`FrameTo`, which `FrameGrows` follows line
  by line).

Every invariant and every action property of the passing runs is stated by one
of these theorems, and so is the refinement. Only model-checked: the six liveness
properties `ShutdownCompletes`, `KeepsReconnecting`, `IdleForgotten`,
`CallsReturn`, `ScrapeEnds` and `RequestsAnswered`, since fairness and ENABLED are
out of the prover's reach; and the violation runs, whose results are
counterexamples.

## Not modelled, and why

- Shell scripts, packaging, CI: no part of the running exporter.
- The Go runtime, TCP and the Prometheus library: used through what the code
  assumes of them; the parts that matter (closing a socket ends its read,
  `sync.Once` blocks the second caller, mutexes) are in the actions.
- Metric text, help texts and log lines: no property depends on them.
- NaN as a header's number: `ParseFloat` accepts it, but Asterisk has no reason to
  send it, and it has no place in fixed point.
- `Encode`, `Set` and `Has` of a message, `Redact` of a configuration, the version
  flag, the index and health pages: they build or show a value and change no
  state. Of the mux's pattern syntax, the forms of wildcards beyond the two
  modelled are left out; hosts and methods do not begin with a slash, so `Load`
  refuses them.
- The parts of Go that only timing could show (a scheduler that delays a
  goroutine by seconds) in ScrapeService, as said there.

## Plan

Done: EventStream and Session with the refinement, Aggregator, CallQuality,
AmiClient, Scrape, ListMetrics, AmiMessage, RtcpParse, ConfigLoad,
ScrapeService, and eight proof modules.

Left:

1. An abstract scrape, one report per phase, which Scrape implements and
   ScrapeService can use in the place of its own scrapes.
