------------------------ MODULE ScrapeService_proofs ------------------------
(***************************************************************************)
(* Proofs about ScrapeService, for any number of clients, any timeouts and *)
(* any number of requests and events: failures are visible, observations   *)
(* stay within events, the mutex is not held beyond two timeouts, and a    *)
(* Shutdown with a long enough grace cuts no scrape that had the mutex.    *)
(***************************************************************************)
EXTENDS ScrapeService, TLAPS

USE TimeoutAssumption, BoundAssumption
USE DEF process, aggregator, history, Metrics, At, Running, Go

-----------------------------------------------------------------------------
(* Types.  A step sets a few fields of one job; one lemma for each field. *)

\* A job with another place is a job.
LEMMA AtType ==
    ASSUME NEW j \in Job, NEW x \in Places PROVE [j EXCEPT !.at = x] \in Job
BY DEF Job

\* A job with another context timer is a job.
LEMMA CtxType ==
    ASSUME NEW j \in Job, NEW x \in 0..Timeout PROVE [j EXCEPT !.ctx = x] \in Job
BY DEF Job

\* A job with another banner timer is a job.
LEMMA BannerType ==
    ASSUME NEW j \in Job, NEW x \in 0..Timeout PROVE [j EXCEPT !.banner = x] \in Job
BY DEF Job

\* A job with another time held is a job.
LEMMA HeldType ==
    ASSUME NEW j \in Job, NEW x \in Nat PROVE [j EXCEPT !.held = x] \in Job
BY DEF Job

\* A job with another failure flag is a job.
LEMMA FailedType ==
    ASSUME NEW j \in Job, NEW x \in BOOLEAN PROVE [j EXCEPT !.failed = x] \in Job
BY DEF Job

\* A job with another gauge is a job.
LEMMA UpType ==
    ASSUME NEW j \in Job, NEW x \in BOOLEAN PROVE [j EXCEPT !.up = x] \in Job
BY DEF Job

\* A job with another error total shown is a job.
LEMMA ShownType ==
    ASSUME NEW j \in Job, NEW x \in Nat PROVE [j EXCEPT !.shown = x] \in Job
BY DEF Job

\* A job with another base is a job.
LEMMA BaseType ==
    ASSUME NEW j \in Job, NEW x \in Nat PROVE [j EXCEPT !.base = x] \in Job
BY DEF Job

\* A job with another metric count is a job.
LEMMA GotType ==
    ASSUME NEW j \in Job, NEW x \in 0..2 PROVE [j EXCEPT !.got = x] \in Job
BY DEF Job

\* A job with another metric values is a job.
LEMMA SeenType ==
    ASSUME NEW j \in Job, NEW x \in [Metrics -> Nat] PROVE [j EXCEPT !.seen = x] \in Job
BY DEF Job

\* No request is a job too.
LEMMA NoJobType == NoJob \in Job
<1>1. 0 \in 0..Timeout /\ 0 \in Nat /\ 0 \in 0..2
  BY TimeoutAssumption
<1>2. "none" \in Places
  BY DEF Places
<1>3. [m \in Metrics |-> 0] \in [Metrics -> Nat]
  OBVIOUS
<1> QED
  BY <1>1, <1>2, <1>3, Zenon DEF NoJob, Job

\* The fields of a job.
LEMMA JobFields ==
    ASSUME NEW j \in Job
    PROVE  /\ j.at \in Places /\ j.ctx \in 0..Timeout /\ j.banner \in 0..Timeout
           /\ j.held \in Nat /\ j.failed \in BOOLEAN /\ j.up \in BOOLEAN
           /\ j.shown \in Nat /\ j.base \in Nat
           /\ j.got \in 0..2 /\ j.seen \in [Metrics -> Nat]
BY DEF Job

\* A timer that goes down stays in its range.
LEMMA LessType == ASSUME NEW n \in Nat PROVE Less(n) \in Nat /\ Less(n) <= n
BY DEF Less

\* The map of jobs stays one when a client's job is replaced by a job.
LEMMA GoType ==
    ASSUME job \in [Clients -> Job], NEW c \in Clients, NEW next \in Job, Go(c, next)
    PROVE  job' \in [Clients -> Job]
OBVIOUS

\* Every step of a client's request leaves it with a job.
LEMMA RequestStepType ==
    ASSUME TypeOK, NEW c \in Clients,
           \/ Request(c) \/ Lock(c) \/ Scrapes(c) \/ Answers(c) \/ MetricRead(c)
    PROVE  job' \in [Clients -> Job]
<1>0. job \in [Clients -> Job] /\ job[c] \in Job /\ published \in Nat /\ errors \in Nat
      /\ counters \in [Metrics -> Nat] /\ 0 \in Nat /\ 0 \in 0..Timeout /\ Timeout \in 0..Timeout
  BY DEF TypeOK
<1>p. "wait" \in Places /\ "connect" \in Places /\ "banner" \in Places /\ "session" \in Places
      /\ "report" \in Places /\ "sent" \in Places /\ "read" \in Places
  BY DEF Places
<1>1. CASE Request(c)
  <2>1. [NoJob EXCEPT !.at = "wait"] \in Job
    BY <1>p, NoJobType, AtType
  <2>2. [NoJob EXCEPT !.at = "wait", !.base = published] \in Job
    BY <1>0, <2>1, BaseType
  <2> QED
    BY <1>0, <1>1, <2>2 DEF Request
<1>2. CASE Lock(c)
  <2>1. [job[c] EXCEPT !.at = "connect"] \in Job
    BY <1>0, <1>p, AtType
  <2>2. [job[c] EXCEPT !.at = "connect", !.ctx = Timeout] \in Job
    BY <1>0, <2>1, <1>p, CtxType
  <2> QED
    BY <1>0, <1>2, <2>2 DEF Lock
<1>3. CASE Connected(c)
  <2>1. [job[c] EXCEPT !.at = "banner"] \in Job
    BY <1>0, <1>p, AtType
  <2>2. [job[c] EXCEPT !.at = "banner", !.banner = Timeout] \in Job
    BY <1>0, <2>1, <1>p, BannerType
  <2> QED
    BY <1>0, <1>3, <2>2 DEF Connected
<1>4. CASE DialFails(c)
  <2>1. [job[c] EXCEPT !.at = "report"] \in Job
    BY <1>0, <1>p, AtType
  <2>2. [job[c] EXCEPT !.at = "report", !.failed = TRUE] \in Job
    BY <1>0, <2>1, <1>p, FailedType
  <2> QED
    BY <1>0, <1>4, <2>2 DEF DialFails
<1>5. CASE BannerRead(c)
  <2>1. [job[c] EXCEPT !.at = "session"] \in Job
    BY <1>0, <1>p, AtType
  <2>2. [job[c] EXCEPT !.at = "session", !.ctx = job[c].ctx] \in Job
    BY <1>0, <2>1, <1>p, CtxType, JobFields
  <2> QED
    BY <1>0, <1>5, <2>2 DEF BannerRead, CallDeadline
<1>6. CASE SessionFails(c)
  <2>1. PICK next \in {"session", "report"} :
              Go(c, [job[c] EXCEPT !.at = next, !.failed = TRUE])
    BY <1>6 DEF SessionFails
  <2>2. [job[c] EXCEPT !.at = next] \in Job
    BY <1>0, <1>p, AtType
  <2>3. [job[c] EXCEPT !.at = next, !.failed = TRUE] \in Job
    BY <2>2, FailedType
  <2> QED
    BY <1>0, <2>1, <2>3
<1>7. CASE SessionEnds(c)
  <2>1. [job[c] EXCEPT !.at = "report"] \in Job
    BY <1>0, <1>p, AtType
  <2> QED
    BY <1>0, <1>7, <2>1 DEF SessionEnds
<1>8. CASE Report(c)
  <2>1. [job[c] EXCEPT !.at = "sent"] \in Job
    BY <1>0, <1>p, AtType
  <2>2. [job[c] EXCEPT !.at = "sent", !.up = ~job[c].failed] \in Job
    <3>1. (~job[c].failed) \in BOOLEAN
      OBVIOUS
    <3> QED
      BY <2>1, <3>1, UpType
  <2>3. [job[c] EXCEPT !.at = "sent", !.up = ~job[c].failed, !.ctx = 0] \in Job
    BY <1>0, <2>2, <1>p, CtxType
  <2>4. [job[c] EXCEPT !.at = "sent", !.up = ~job[c].failed, !.ctx = 0, !.banner = 0] \in Job
    BY <1>0, <2>3, <1>p, BannerType
  <2>5. [job[c] EXCEPT !.at = "sent", !.up = ~job[c].failed, !.ctx = 0, !.banner = 0, !.held = 0] \in Job
    BY <1>0, <2>4, <1>p, HeldType
  <2> QED
    BY <1>0, <1>8, <2>5 DEF Report
<1>9. CASE ErrorsRead(c)
  <2>1. [job[c] EXCEPT !.at = "read"] \in Job
    BY <1>0, <1>p, AtType
  <2>2. [job[c] EXCEPT !.at = "read", !.shown = errors] \in Job
    BY <1>0, <2>1, <1>p, ShownType
  <2> QED
    BY <1>0, <1>9, <2>2 DEF ErrorsRead
<1>10. CASE MetricRead(c)
  <2> DEFINE m == CollectOrder[job[c].got + 1]
  <2>1. job[c].got \in {0, 1}
    BY <1>0, <1>10, JobFields DEF MetricRead
  <2>2. m \in Metrics /\ job[c].got + 1 \in 0..2
    BY <2>1 DEF CollectOrder
  <2>3. [job[c].seen EXCEPT ![m] = counters[m]] \in [Metrics -> Nat]
    BY <1>0, <2>2, JobFields
  <2>4. [job[c] EXCEPT !.got = job[c].got + 1] \in Job
    BY <1>0, <2>2, GotType
  <2>5. [job[c] EXCEPT !.got = @ + 1, !.seen[m] = counters[m]]
          = [[job[c] EXCEPT !.got = job[c].got + 1]
                EXCEPT !.seen = [job[c].seen EXCEPT ![m] = counters[m]]]
    BY <1>0 DEF Job
  <2>6. [job[c] EXCEPT !.got = @ + 1, !.seen[m] = counters[m]] \in Job
    BY <2>3, <2>4, <2>5, SeenType
  <2> QED
    BY <1>0, <1>10, <2>6 DEF MetricRead
<1>11. CASE Respond(c)
  BY <1>0, <1>11, NoJobType DEF Respond
<1> QED
  BY <1>1, <1>2, <1>3, <1>4, <1>5, <1>6, <1>7, <1>8, <1>9, <1>10, <1>11
  DEF Scrapes, Answers

\* A tick leaves every client with a job.
LEMMA TickType == ASSUME TypeOK, Tick PROVE job' \in [Clients -> Job]
<1>1. ASSUME NEW c \in Clients PROVE job'[c] \in Job
  <2>1. job[c] \in Job
    BY DEF TypeOK
  <2>2. /\ Less(job[c].ctx) \in 0..Timeout /\ Less(job[c].banner) \in 0..Timeout
        /\ job[c].held + 1 \in Nat
    BY <2>1, JobFields, LessType
  <2>3. [job[c] EXCEPT !.ctx = Less(job[c].ctx)] \in Job
    BY <2>1, <2>2, CtxType
  <2>4. [job[c] EXCEPT !.ctx = Less(job[c].ctx), !.banner = Less(job[c].banner)] \in Job
    BY <2>2, <2>3, BannerType
  <2>5. [job[c] EXCEPT !.ctx = Less(job[c].ctx), !.banner = Less(job[c].banner),
                       !.held = job[c].held + 1] \in Job
    BY <2>2, <2>4, HeldType
  <2> QED
    BY <2>1, <2>5, Zenon DEF Tick
<1> QED
  BY <1>1 DEF Tick

\* The mutex goes with the scrape: taken when it starts, released when it reports.
LEMMA MutexKept ==
    ASSUME TypeOK, [Next]_vars
    PROVE  MutexHeldByScrape'
<1>1. /\ job \in [Clients -> Job] /\ mutex = {c \in Clients : job[c].at \in Scraping}
      /\ \A c, d \in mutex : c = d
  BY DEF TypeOK, MutexHeldByScrape
<1>2. ASSUME NEW c \in Clients, Lock(c) PROVE MutexHeldByScrape'
  <2>1. /\ mutex = {} /\ mutex' = {c} /\ job'[c].at = "connect"
        /\ \A d \in Clients \ {c} : job'[d] = job[d]
    BY <1>1, <1>2 DEF Lock, LockFree, Go, Job
  <2>2. \A d \in Clients : job'[d].at \in Scraping <=> d = c
    BY <1>1, <2>1 DEF Scraping
  <2> QED
    BY <2>1, <2>2 DEF MutexHeldByScrape
<1>3. ASSUME NEW c \in Clients, Report(c) PROVE MutexHeldByScrape'
  <2>1. /\ c \in mutex /\ mutex' = {} /\ job'[c].at = "sent"
        /\ \A d \in Clients \ {c} : job'[d] = job[d]
    BY <1>1, <1>3 DEF Report, Unlocked, At, Go, Job, Scraping
  <2>2. \A d \in Clients : job'[d].at \notin Scraping
    BY <1>1, <2>1 DEF Scraping
  <2> QED
    BY <2>1, <2>2 DEF MutexHeldByScrape
<1>4. ASSUME UNCHANGED mutex, \A c \in Clients : job'[c].at \in Scraping <=> job[c].at \in Scraping
      PROVE  MutexHeldByScrape'
  BY <1>1, <1>4 DEF MutexHeldByScrape
<1>5. ASSUME NEW c \in Clients, Request(c) \/ Scrapes(c) \/ Answers(c) \/ MetricRead(c), ~Report(c)
      PROVE  MutexHeldByScrape'
  <2>1. /\ UNCHANGED mutex
        /\ \A d \in Clients \ {c} : job'[d] = job[d]
        /\ job'[c].at \in Scraping <=> job[c].at \in Scraping
    <3>1. CASE Request(c)
      BY <1>1, <3>1 DEF Request, NoJob, Scraping
    <3>2. CASE Connected(c)
      BY <1>1, <3>2 DEF Connected, At, Go, Job, Scraping
    <3>3. CASE DialFails(c)
      BY <1>1, <3>3 DEF DialFails, At, Go, Job, Scraping
    <3>4. CASE BannerRead(c)
      BY <1>1, <3>4 DEF BannerRead, At, Go, Job, Scraping
    <3>6. CASE SessionFails(c)
      <4>1. PICK next \in {"session", "report"} :
                  Go(c, [job[c] EXCEPT !.at = next, !.failed = TRUE])
        BY <3>6 DEF SessionFails
      <4>2. job'[c].at = next /\ job[c].at = "session"
        <5>1. job'[c] = [job[c] EXCEPT !.at = next, !.failed = TRUE]
          BY <1>1, <4>1 DEF Go
        <5>2. [job[c] EXCEPT !.at = next, !.failed = TRUE].at = next
          BY <1>1 DEF Job
        <5> QED
          BY <3>6, <5>1, <5>2 DEF SessionFails, At
      <4> QED
        BY <1>1, <3>6, <4>1, <4>2 DEF SessionFails, Go, Scraping
    <3>7. CASE SessionEnds(c)
      BY <1>1, <3>7 DEF SessionEnds, At, Go, Job, Scraping
    <3>8. CASE ErrorsRead(c)
      BY <1>1, <3>8 DEF ErrorsRead, At, Go, Job, Scraping
    <3>9. CASE Respond(c)
      BY <1>1, <3>9 DEF Respond, Gathered, At, NoJob, Go, Job, Scraping
    <3>5. CASE MetricRead(c)
      BY <1>1, <3>5 DEF MetricRead, Go, Job
    <3> QED
      BY <1>5, <3>1, <3>2, <3>3, <3>4, <3>5, <3>6, <3>7, <3>8, <3>9 DEF Scrapes, Answers
  <2> QED
    BY <1>4, <2>1
<1>6. CASE Handles \/ Signal \/ ListenFails \/ Stops \/ UNCHANGED vars
  <2>1. UNCHANGED <<mutex, job>>
    BY <1>6 DEF Handles, EventArrives, Observed, Signal, ListenFails, Stops, DrainStarts, Drained,
                GraceOver, vars
  <2> QED
    BY <1>4, <2>1
<1>7. CASE Tick
  <2>1. UNCHANGED mutex /\ \A c \in Clients : job'[c].at = job[c].at
    BY <1>1, <1>7 DEF Tick, Job
  <2> QED
    BY <1>4, <2>1
<1> QED
  BY <1>2, <1>3, <1>5, <1>6, <1>7 DEF Next, Scrapes, Exited

\* Every step keeps the types.
LEMMA NextTypeOK == TypeOK /\ [Next]_vars => TypeOK'
<1> SUFFICES ASSUME TypeOK, [Next]_vars PROVE TypeOK'
    OBVIOUS
<1>0. MutexHeldByScrape'
  BY MutexKept
<1>1. ASSUME NEW c \in Clients,
             Request(c) \/ Lock(c) \/ Scrapes(c) \/ Answers(c) \/ MetricRead(c)
      PROVE  TypeOK'
  <2>1. job' \in [Clients -> Job]
    BY <1>1, RequestStepType
  <2>2. /\ UNCHANGED <<process, aggregator>>
        /\ requests' \in Nat /\ errors' \in Nat /\ mutex' \in SUBSET Clients
    BY <1>1 DEF TypeOK, Request, Lock, Scrapes, Connected, DialFails, BannerRead, SessionFails,
                SessionEnds, Report, Answers, ErrorsRead, Respond, MetricRead, Counted, Unlocked
  <2>3. published' \in Nat /\ owed' \in SUBSET Clients
    <3>1. CASE Respond(c)
      <4>1. job[c].shown \in Nat
        BY JobFields DEF TypeOK
      <4> QED
        BY <3>1, <4>1 DEF TypeOK, Respond
    <3>2. CASE ~Respond(c)
      BY <1>1, <3>2 DEF TypeOK, Request, Lock, Scrapes, Connected, DialFails, BannerRead,
                SessionFails, SessionEnds, Report, Answers, ErrorsRead, MetricRead
    <3> QED
      BY <3>1, <3>2
  <2> QED
    BY <1>0, <2>1, <2>2, <2>3 DEF TypeOK
<1>2. CASE Handles
  BY <1>0, <1>2 DEF TypeOK, Handles, EventArrives, Observed
<1>3. CASE Signal \/ ListenFails \/ Stops
  BY <1>0, <1>3 DEF TypeOK, Signal, ListenFails, Stops, DrainStarts, Drained, GraceOver
<1>4. CASE Tick
  <2>1. job' \in [Clients -> Job]
    BY <1>4, TickType
  <2>2. grace' \in 0..Grace
    <3>1. grace \in 0..Grace
      BY DEF TypeOK
    <3>2. Less(grace) \in 0..Grace
      BY <3>1, LessType
    <3> QED
      BY <1>4, <3>1, <3>2 DEF Tick
  <2> QED
    BY <1>0, <1>4, <2>1, <2>2 DEF Tick, TypeOK
<1>5. CASE UNCHANGED vars
  BY <1>0, <1>5 DEF vars, TypeOK
<1> QED
  BY <1>1, <1>2, <1>3, <1>4, <1>5 DEF Next, Exited

\* The state stays in its types, with any number of clients and requests.
THEOREM TypeCorrect == Spec => []TypeOK
<1>1. Init => TypeOK
  <2> SUFFICES ASSUME Init PROVE TypeOK
    OBVIOUS
  <2>1. job \in [Clients -> Job]
    BY NoJobType DEF Init
  <2>2. grace \in 0..Grace /\ counters \in [Metrics -> Nat]
    BY DEF Init
  <2>3. MutexHeldByScrape
    BY DEF Init, NoJob, MutexHeldByScrape, Scraping
  <2> QED
    BY <2>1, <2>2, <2>3 DEF Init, TypeOK
<1> QED
  BY <1>1, NextTypeOK, PTL DEF Spec

-----------------------------------------------------------------------------
(* A step of a client's request concerns its own job only *)

RequestStep(c) == Request(c) \/ Lock(c) \/ Scrapes(c) \/ Answers(c) \/ MetricRead(c)

\* The other clients' jobs stay, and the error counters only grow.
LEMMA OthersStay ==
    ASSUME TypeOK, NEW c \in Clients, RequestStep(c)
    PROVE  /\ \A d \in Clients \ {c} : job'[d] = job[d]
           /\ errors \in Nat /\ errors <= errors'
           /\ UNCHANGED aggregator
BY DEF TypeOK, RequestStep, Request, Lock, Scrapes, Connected, DialFails, BannerRead, SessionFails,
       SessionEnds, Report, Answers, ErrorsRead, MetricRead, Respond, Counted

-----------------------------------------------------------------------------
(* Failures are visible *)

\* What is known of a job and the error total e: once it has failed, the total is
\* above what had been published when its request came.
FailOf(j, e) ==
    /\ j.base <= e /\ j.shown <= e
    /\ j.at \in {"wait", "connect", "banner"} => ~j.failed
    /\ j.at \in {"session", "report"} /\ j.failed => j.base < e
    /\ j.at = "sent" /\ ~j.up => j.base < e
    /\ j.at = "read" /\ ~j.up => j.base < j.shown

FailInv == published <= errors /\ \A c \in Clients : FailOf(job[c], errors)

\* It remains true while the total grows.
LEMMA FailOfGrows ==
    ASSUME NEW j \in Job, NEW e \in Nat, NEW f \in Nat, e <= f, FailOf(j, e)
    PROVE  FailOf(j, f)
<1>1. j.base \in Nat /\ j.shown \in Nat
  BY JobFields
<1> QED
  BY <1>1 DEF FailOf

\* A client's step keeps it for the client.
LEMMA FailOfStep ==
    ASSUME TypeOK, FailInv, NEW c \in Clients, RequestStep(c)
    PROVE  FailOf(job'[c], errors') /\ published' <= errors'
<1>0. /\ job \in [Clients -> Job] /\ job[c] \in Job /\ errors \in Nat /\ published \in Nat
      /\ job[c].base \in Nat /\ job[c].shown \in Nat
      /\ FailOf(job[c], errors) /\ published <= errors
  BY JobFields DEF TypeOK, FailInv
<1>1. CASE Request(c)
  BY <1>0, <1>1 DEF Request, NoJob, FailOf, Job
<1>2. CASE Lock(c)
  BY <1>0, <1>2 DEF Lock, FailOf, Job
<1>3. CASE Connected(c)
  BY <1>0, <1>3 DEF Connected, FailOf, Job
<1>4. CASE DialFails(c)
  BY <1>0, <1>4 DEF DialFails, Counted, FailOf, Job
<1>5. CASE BannerRead(c)
  BY <1>0, <1>5 DEF BannerRead, CallDeadline, FailOf, Job
<1>6. CASE SessionFails(c)
  BY <1>0, <1>6 DEF SessionFails, Counted, FailOf, Job
<1>7. CASE SessionEnds(c)
  BY <1>0, <1>7 DEF SessionEnds, FailOf, Job
<1>8. CASE Report(c)
  BY <1>0, <1>8 DEF Report, Unlocked, FailOf, Job
<1>9. CASE ErrorsRead(c)
  BY <1>0, <1>9 DEF ErrorsRead, FailOf, Job
<1>10. CASE MetricRead(c)
  BY <1>0, <1>10 DEF MetricRead, CollectOrder, FailOf, Job
<1>11. CASE Respond(c)
  BY <1>0, <1>11 DEF Respond, NoJob, FailOf, Job
<1> QED
  BY <1>1, <1>2, <1>3, <1>4, <1>5, <1>6, <1>7, <1>8, <1>9, <1>10, <1>11 DEF RequestStep, Scrapes, Answers

\* No step breaks FailInv.
LEMMA NextFailInv == TypeOK /\ FailInv /\ [Next]_vars => FailInv'
<1> SUFFICES ASSUME TypeOK, FailInv, [Next]_vars PROVE FailInv'
    OBVIOUS
<1>1. ASSUME NEW c \in Clients, RequestStep(c) PROVE FailInv'
  <2>1. errors \in Nat /\ errors' \in Nat /\ errors <= errors' /\ \A d \in Clients \ {c} : job'[d] = job[d]
    BY <1>1, OthersStay, NextTypeOK DEF TypeOK
  <2>2. FailOf(job'[c], errors') /\ published' <= errors'
    BY <1>1, FailOfStep
  <2>3. ASSUME NEW d \in Clients \ {c} PROVE FailOf(job'[d], errors')
    BY <2>1, FailOfGrows DEF TypeOK, FailInv
  <2> QED
    BY <2>2, <2>3 DEF FailInv
<1>2. CASE Tick
  <2>1. published' <= errors' /\ errors' = errors
    BY <1>2 DEF Tick, FailInv
  <2>2. ASSUME NEW c \in Clients PROVE FailOf(job'[c], errors)
    <3>1. job[c] \in Job /\ FailOf(job[c], errors)
      BY DEF TypeOK, FailInv
    <3> QED
      BY <1>2, <3>1 DEF Tick, FailOf, Job
  <2> QED
    BY <2>1, <2>2 DEF FailInv
<1>3. CASE UNCHANGED <<job, errors, published>>
  BY <1>3 DEF FailInv
<1> QED
  BY <1>1, <1>2, <1>3 DEF Next, RequestStep, Handles, EventArrives, Observed, Signal,
     ListenFails, Stops, DrainStarts, Drained, GraceOver, Exited, vars

\* With any number of concurrent scrapes, a failed one shows in its own response.
THEOREM FailuresShow == Spec => []FailureVisible
<1>1. Init => FailInv
  BY DEF Init, NoJob, FailInv, FailOf
<1>2. FailInv => FailureVisible
  BY DEF FailInv, FailOf, FailureVisible, Gathered
<1> QED
  BY <1>1, <1>2, TypeCorrect, NextFailInv, PTL DEF Spec

-----------------------------------------------------------------------------
(* Observations stay within events *)

\* An event is counted before its measurement is observed.
CountedFirst ==
    \/ handling = {} /\ counters["observations"] <= counters["events"]
    \/ handling = {"observations"} /\ counters["observations"] < counters["events"]

\* What a job has seen, against the counters n.
SeenOf(j, n) ==
    /\ j.got = 1 => j.seen["observations"] <= n["events"]
    /\ j.got = 2 => j.seen["observations"] <= j.seen["events"]

SeenInv == CountedFirst /\ \A c \in Clients : SeenOf(job[c], counters)

\* A client's step keeps it: the observations are read first.
LEMMA SeenOfStep ==
    ASSUME TypeOK, SeenInv, NEW c \in Clients, RequestStep(c)
    PROVE  SeenOf(job'[c], counters)
<1>0. /\ job \in [Clients -> Job] /\ job[c] \in Job /\ counters \in [Metrics -> Nat]
      /\ job[c].got \in 0..2 /\ job[c].seen \in [Metrics -> Nat]
      /\ SeenOf(job[c], counters) /\ CountedFirst
  BY JobFields DEF TypeOK, SeenInv
<1>1. CASE Request(c)
  BY <1>0, <1>1 DEF Request, NoJob, SeenOf, Job
<1>2. CASE Lock(c)
  BY <1>0, <1>2 DEF Lock, SeenOf, Job
<1>3. CASE Connected(c)
  BY <1>0, <1>3 DEF Connected, SeenOf, Job
<1>4. CASE DialFails(c)
  BY <1>0, <1>4 DEF DialFails, Counted, SeenOf, Job
<1>5. CASE BannerRead(c)
  BY <1>0, <1>5 DEF BannerRead, CallDeadline, SeenOf, Job
<1>6. CASE SessionFails(c)
  BY <1>0, <1>6 DEF SessionFails, Counted, SeenOf, Job
<1>7. CASE SessionEnds(c)
  BY <1>0, <1>7 DEF SessionEnds, SeenOf, Job
<1>8. CASE Report(c)
  BY <1>0, <1>8 DEF Report, Unlocked, SeenOf, Job
<1>9. CASE ErrorsRead(c)
  BY <1>0, <1>9 DEF ErrorsRead, SeenOf, Job
<1>10. CASE MetricRead(c)
  BY <1>0, <1>10 DEF MetricRead, CollectOrder, SeenOf, CountedFirst, Job
<1>11. CASE Respond(c)
  BY <1>0, <1>11 DEF Respond, NoJob, SeenOf, Job
<1> QED
  BY <1>1, <1>2, <1>3, <1>4, <1>5, <1>6, <1>7, <1>8, <1>9, <1>10, <1>11 DEF RequestStep, Scrapes, Answers

\* No step breaks SeenInv.
LEMMA NextSeenInv == TypeOK /\ SeenInv /\ [Next]_vars => SeenInv'
<1> SUFFICES ASSUME TypeOK, SeenInv, [Next]_vars PROVE SeenInv'
    OBVIOUS
<1>1. ASSUME NEW c \in Clients, RequestStep(c) PROVE SeenInv'
  <2>1. UNCHANGED aggregator /\ \A d \in Clients \ {c} : job'[d] = job[d]
    BY <1>1, OthersStay
  <2>2. SeenOf(job'[c], counters)
    BY <1>1, SeenOfStep
  <2> QED
    BY <2>1, <2>2 DEF SeenInv, CountedFirst
<1>2. CASE Handles
  <2>1. counters \in [Metrics -> Nat]
    BY DEF TypeOK
  <2>2. /\ CountedFirst' /\ job' = job
        /\ counters["events"] <= counters'["events"] /\ counters'["events"] \in Nat
    BY <1>2, <2>1 DEF Handles, EventArrives, Observed, SeenInv, CountedFirst
  <2>3. ASSUME NEW c \in Clients PROVE SeenOf(job[c], counters')
    <3>1. job[c].seen \in [Metrics -> Nat] /\ SeenOf(job[c], counters)
      BY JobFields DEF TypeOK, SeenInv
    <3> QED
      BY <2>1, <2>2, <3>1 DEF SeenOf
  <2> QED
    BY <2>2, <2>3 DEF SeenInv
<1>3. CASE Tick
  <2>1. ASSUME NEW c \in Clients PROVE SeenOf(job'[c], counters)
    <3>1. job[c] \in Job /\ SeenOf(job[c], counters)
      BY DEF TypeOK, SeenInv
    <3> QED
      BY <1>3, <3>1 DEF Tick, SeenOf, Job
  <2> QED
    BY <1>3, <2>1 DEF Tick, SeenInv, CountedFirst
<1>4. CASE UNCHANGED <<job, aggregator>>
  BY <1>4 DEF SeenInv, CountedFirst
<1> QED
  BY <1>1, <1>2, <1>3, <1>4 DEF Next, RequestStep, Signal, ListenFails, Stops, DrainStarts,
     Drained, GraceOver, Exited, vars

\* In no response are there more observations than events.
THEOREM ObservationsCorrect == Spec => []ObservationsWithinEvents
<1>1. Init => SeenInv
  BY DEF Init, NoJob, SeenInv, SeenOf, CountedFirst
<1>2. SeenInv => ObservationsWithinEvents
  BY DEF SeenInv, SeenOf, ObservationsWithinEvents, Gathered
<1> QED
  BY <1>1, <1>2, TypeCorrect, NextSeenInv, PTL DEF Spec

-----------------------------------------------------------------------------
(* The mutex is held for at most two timeouts *)

\* The time held and the timers: the context's runs from the lock, the banner's
\* from the connection.
HeldOf(j) ==
    /\ j.at \in {"none", "wait", "sent", "read"} => j.held = 0
    /\ j.at = "connect" => j.held + j.ctx <= Timeout
    /\ j.at \in {"banner", "session"} => j.ctx = 0 \/ j.held + j.ctx <= Timeout
    /\ j.at = "banner" => j.held + j.banner <= 2 * Timeout
    /\ j.held <= 2 * Timeout

HeldInv == \A c \in Clients : HeldOf(job[c])

\* A client's step takes no time.
LEMMA HeldOfStep ==
    ASSUME TypeOK, HeldInv, NEW c \in Clients, RequestStep(c)
    PROVE  HeldOf(job'[c])
<1>0. /\ job \in [Clients -> Job] /\ job[c] \in Job
      /\ job[c].held \in Nat /\ job[c].ctx \in 0..Timeout /\ job[c].banner \in 0..Timeout
      /\ HeldOf(job[c])
  BY JobFields DEF TypeOK, HeldInv
<1>1. CASE Request(c)
  BY <1>0, <1>1 DEF Request, NoJob, HeldOf, Job
<1>2. CASE Lock(c)
  BY <1>0, <1>2 DEF Lock, HeldOf, Job
<1>3. CASE Connected(c)
  BY <1>0, <1>3 DEF Connected, HeldOf, Job
<1>4. CASE DialFails(c)
  BY <1>0, <1>4 DEF DialFails, Counted, HeldOf, Job
<1>5. CASE BannerRead(c)
  BY <1>0, <1>5 DEF BannerRead, CallDeadline, HeldOf, Job
<1>6. CASE SessionFails(c)
  BY <1>0, <1>6 DEF SessionFails, Counted, HeldOf, Job
<1>7. CASE SessionEnds(c)
  BY <1>0, <1>7 DEF SessionEnds, HeldOf, Job
<1>8. CASE Report(c)
  BY <1>0, <1>8 DEF Report, Unlocked, HeldOf, Job
<1>9. CASE ErrorsRead(c)
  BY <1>0, <1>9 DEF ErrorsRead, HeldOf, Job
<1>10. CASE MetricRead(c)
  BY <1>0, <1>10 DEF MetricRead, CollectOrder, HeldOf, Job
<1>11. CASE Respond(c)
  BY <1>0, <1>11 DEF Respond, NoJob, HeldOf, Job
<1> QED
  BY <1>1, <1>2, <1>3, <1>4, <1>5, <1>6, <1>7, <1>8, <1>9, <1>10, <1>11 DEF RequestStep, Scrapes, Answers

\* No step breaks HeldInv.
LEMMA NextHeldInv == TypeOK /\ HeldInv /\ [Next]_vars => HeldInv'
<1> SUFFICES ASSUME TypeOK, HeldInv, [Next]_vars PROVE HeldInv'
    OBVIOUS
<1>1. ASSUME NEW c \in Clients, RequestStep(c) PROVE HeldInv'
  BY <1>1, OthersStay, HeldOfStep DEF HeldInv
<1>2. CASE Tick
  <2>1. ASSUME NEW c \in Clients PROVE HeldOf(job'[c])
    <3>1. /\ job[c] \in Job /\ HeldOf(job[c])
          /\ job[c].held \in Nat /\ job[c].ctx \in 0..Timeout /\ job[c].banner \in 0..Timeout
      BY JobFields DEF TypeOK, HeldInv
    <3>2. /\ job[c].at \in {"connect", "session"} => job[c].ctx > 0
          /\ job[c].at = "banner" => job[c].banner > 0
      <4>1. ~Overdue
        BY <1>2 DEF Tick
      <4>2. /\ job[c].at \in {"connect", "session"} => job[c].ctx # 0
            /\ job[c].at = "banner" => job[c].banner # 0
        BY <4>1, Zenon DEF Overdue
      <4> QED
        BY <3>1, <4>2, TimeoutAssumption
    <3>3. CASE job[c].at \in {"connect", "banner", "session"}
      <4>1. /\ job'[c].at = job[c].at /\ job'[c].held = job[c].held + 1
            /\ job'[c].ctx = Less(job[c].ctx) /\ job'[c].banner = Less(job[c].banner)
        BY <1>2, <3>1, <3>3 DEF Tick, Job
      <4> QED
        BY <3>1, <3>2, <3>3, <4>1 DEF HeldOf, Less
    <3>4. CASE job[c].at \notin {"connect", "banner", "session"}
      BY <1>2, <3>1, <3>4 DEF Tick
    <3> QED
      BY <3>3, <3>4
  <2> QED
    BY <2>1 DEF HeldInv
<1>3. CASE UNCHANGED job
  BY <1>3 DEF HeldInv
<1> QED
  BY <1>1, <1>2, <1>3 DEF Next, RequestStep, Handles, EventArrives, Observed, Signal,
     ListenFails, Stops, DrainStarts, Drained, GraceOver, Exited, vars

\* Whatever Asterisk does to the dial, the banner or the calls after it.
THEOREM HeldCorrect == Spec => []MutexHeldBounded
<1>1. Init => HeldInv
  BY DEF Init, NoJob, HeldInv, HeldOf
<1>2. HeldInv => MutexHeldBounded
  BY DEF HeldInv, HeldOf, MutexHeldBounded
<1> QED
  BY <1>1, <1>2, TypeCorrect, NextHeldInv, PTL DEF Spec

-----------------------------------------------------------------------------
(* Shutdown answers the scrapes that had the mutex *)

\* The time left, g, is enough for a job that is owed an answer.
OwedOf(j, g) ==
    /\ j.at \notin {"none", "wait"} /\ g > 0
    /\ j.at = "connect" => g > j.ctx + Timeout
    /\ j.at \in {"banner", "session"} => g > j.ctx
    /\ j.at = "banner" => g > j.banner

\* Before Shutdown its time has not begun; after it nothing is owed.
OwedInv ==
    /\ server = "serving" => grace = Grace
    /\ server # "draining" => owed = {}
    /\ server = "draining" => \A c \in owed : OwedOf(job[c], grace)

\* The step of a client that is owed an answer: it answers, or there is still
\* time enough.
LEMMA OwedOfStep ==
    ASSUME TypeOK, NEW c \in Clients, RequestStep(c), OwedOf(job[c], grace), c \in owed'
    PROVE  OwedOf(job'[c], grace)
<1>0. /\ job \in [Clients -> Job] /\ job[c] \in Job
      /\ job[c].ctx \in 0..Timeout /\ job[c].banner \in 0..Timeout /\ grace \in 0..Grace
      /\ OwedOf(job[c], grace)
  BY JobFields DEF TypeOK
<1>1. CASE Request(c)
  BY <1>0, <1>1 DEF Request, OwedOf
<1>2. CASE Lock(c)
  BY <1>0, <1>2 DEF Lock, OwedOf
<1>3. CASE Connected(c)
  BY <1>0, <1>3 DEF Connected, OwedOf, Job
<1>4. CASE DialFails(c)
  BY <1>0, <1>4 DEF DialFails, OwedOf, Job
<1>5. CASE BannerRead(c)
  BY <1>0, <1>5 DEF BannerRead, CallDeadline, OwedOf, Job
<1>6. CASE SessionFails(c)
  BY <1>0, <1>6 DEF SessionFails, OwedOf, Job
<1>7. CASE SessionEnds(c)
  BY <1>0, <1>7 DEF SessionEnds, OwedOf, Job
<1>8. CASE Report(c)
  BY <1>0, <1>8 DEF Report, OwedOf, Job
<1>9. CASE ErrorsRead(c)
  BY <1>0, <1>9 DEF ErrorsRead, OwedOf, Job
<1>10. CASE MetricRead(c)
  BY <1>0, <1>10 DEF MetricRead, CollectOrder, OwedOf, Job
<1>11. CASE Respond(c)
  BY <1>0, <1>11 DEF Respond
<1> QED
  BY <1>1, <1>2, <1>3, <1>4, <1>5, <1>6, <1>7, <1>8, <1>9, <1>10, <1>11 DEF RequestStep, Scrapes, Answers

\* A client's step leaves the server alone and adds nobody who is owed.
LEMMA OwedShrinks ==
    ASSUME NEW c \in Clients, RequestStep(c)
    PROVE  server' = server /\ grace' = grace /\ owed' \subseteq owed
BY DEF RequestStep, Request, Lock, Scrapes, Connected, DialFails, BannerRead, SessionFails,
       SessionEnds, Report, Answers, ErrorsRead, MetricRead, Respond

\* Nobody waits longer than the timers allow.
LEMMA TimersRun ==
    ASSUME TypeOK, Tick, NEW c \in Clients
    PROVE  /\ job[c].at \in {"connect", "session"} => job[c].ctx > 0
           /\ job[c].at = "banner" => job[c].banner > 0
           /\ job[c].at \notin {"report", "sent", "read"}
<1>1. ~Overdue
  BY DEF Tick
<1>2. /\ job[c].at \in {"connect", "session"} => job[c].ctx # 0
      /\ job[c].at = "banner" => job[c].banner # 0
      /\ job[c].at \notin {"report", "sent", "read"}
  BY <1>1, Zenon DEF Overdue
<1>3. job[c].ctx \in 0..Timeout /\ job[c].banner \in 0..Timeout
  BY JobFields DEF TypeOK
<1> QED
  BY <1>2, <1>3

\* No step breaks OwedInv.
LEMMA NextOwedInv == Grace > 2 * Timeout /\ TypeOK /\ OwedInv /\ [Next]_vars => OwedInv'
<1> SUFFICES ASSUME Grace > 2 * Timeout, TypeOK, OwedInv, [Next]_vars PROVE OwedInv'
    OBVIOUS
<1>1. ASSUME NEW c \in Clients, RequestStep(c) PROVE OwedInv'
  <2>1. /\ server' = server /\ grace' = grace /\ owed' \subseteq owed
        /\ \A d \in Clients \ {c} : job'[d] = job[d]
    BY <1>1, OwedShrinks, OthersStay
  <2>2. ASSUME server = "draining", NEW d \in owed' PROVE OwedOf(job'[d], grace')
    <3>1. d \in Clients /\ OwedOf(job[d], grace)
      BY <2>1, <2>2 DEF TypeOK, OwedInv
    <3>2. CASE d = c
      BY <1>1, <2>1, <2>2, <3>1, <3>2, OwedOfStep
    <3>3. CASE d # c
      BY <2>1, <3>1, <3>3
    <3> QED
      BY <3>2, <3>3
  <2> QED
    BY <2>1, <2>2 DEF OwedInv
<1>2. CASE Tick
  <2>1. server' = server /\ owed' = owed /\ (server # "draining" => grace' = grace)
    BY <1>2 DEF Tick
  <2>2. ASSUME server = "draining", NEW c \in owed PROVE OwedOf(job'[c], grace')
    <3>1. /\ c \in Clients /\ OwedOf(job[c], grace) /\ job[c] \in Job /\ grace \in 0..Grace
          /\ job[c].ctx \in 0..Timeout /\ job[c].banner \in 0..Timeout
      BY <2>2, JobFields DEF TypeOK, OwedInv
    <3>2. /\ job[c].at \in {"connect", "session"} => job[c].ctx > 0
          /\ job[c].at = "banner" => job[c].banner > 0
          /\ job[c].at \notin {"report", "sent", "read"}
      BY <1>2, <3>1, TimersRun
    <3>3. job[c].at \in {"connect", "banner", "session"}
      <4>1. job[c].at \in Places /\ job[c].at \notin {"none", "wait"}
        BY <3>1 DEF Job, OwedOf
      <4> QED
        BY <3>2, <4>1 DEF Places
    <3>4. /\ job'[c].at = job[c].at /\ grace' = Less(grace)
          /\ job'[c].ctx = Less(job[c].ctx) /\ job'[c].banner = Less(job[c].banner)
      BY <1>2, <2>2, <3>1, <3>3 DEF Tick, Job
    <3> QED
      BY <3>1, <3>2, <3>3, <3>4 DEF OwedOf, Less
  <2> QED
    BY <2>1, <2>2 DEF OwedInv
<1>3. CASE DrainStarts
  <2>1. /\ server = "serving" /\ server' = "draining" /\ grace' = grace /\ job' = job
        /\ owed' = {c \in Clients : job[c].at \notin {"none", "wait"}} /\ grace = Grace
    BY <1>3 DEF DrainStarts, OwedInv
  <2>2. ASSUME NEW c \in owed' PROVE OwedOf(job'[c], grace')
    <3>1. /\ c \in Clients /\ job[c].at \notin {"none", "wait"}
          /\ job[c].ctx \in 0..Timeout /\ job[c].banner \in 0..Timeout
      BY <2>1, JobFields DEF TypeOK
    <3> QED
      BY <2>1, <3>1 DEF OwedOf
  <2> QED
    BY <2>1, <2>2 DEF OwedInv
<1>4. CASE Drained
  BY <1>4 DEF Drained, OwedInv, OwedOf, TypeOK
<1>5. CASE GraceOver
  BY <1>5 DEF GraceOver, GivesUp, OwedInv, OwedOf
<1>6. CASE ListenFails
  BY <1>6 DEF ListenFails, OwedInv
<1>7. CASE UNCHANGED <<server, grace, owed, job>>
  BY <1>7 DEF OwedInv
<1> QED
  BY <1>1, <1>2, <1>3, <1>4, <1>5, <1>6, <1>7 DEF Next, RequestStep, Handles, EventArrives,
     Observed, Signal, Stops, Exited, vars

\* With a grace of more than two timeouts, Shutdown cuts no scrape that had the
\* mutex, whatever the other clients do.
THEOREM OwedCorrect == Spec => []OwedAnswered
<1>1. CASE Grace > 2 * Timeout
  <2>1. Init => OwedInv
    BY DEF Init, OwedInv
  <2>2. OwedInv => OwedAnswered
    BY DEF OwedInv, OwedAnswered
  <2>3. TypeOK /\ OwedInv /\ [Next]_vars => OwedInv'
    BY <1>1, NextOwedInv
  <2> QED
    BY <2>1, <2>2, <2>3, TypeCorrect, PTL DEF Spec
<1>2. CASE ~(Grace > 2 * Timeout)
  <2>1. TypeOK => OwedAnswered
    BY <1>2 DEF OwedAnswered
  <2> QED
    BY <2>1, TypeCorrect, PTL
<1> QED
  BY <1>1, <1>2
=============================================================================
