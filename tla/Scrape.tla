-------------------------------- MODULE Scrape --------------------------------
(***************************************************************************)
(* One scrape: Collector.Collect and scrape with the five collect phases   *)
(* (internal/collector), composed with the connection of AmiClient.  The   *)
(* scrape decides which call comes next and what its result means; every   *)
(* step of a call, of Asterisk and of the clock is AmiClient's.            *)
(*                                                                         *)
(* What a phase computes from its items is left out: emitted is the set of *)
(* phases that sent their metrics.  failed is the set of labels whose      *)
(* scrape_errors_total this scrape incremented.                            *)
(***************************************************************************)
EXTENDS AmiClient

CONSTANT Disabled   \* phases switched off by ScrapeOptions

Optional == {"sip_peers", "pjsip_endpoints", "queues"}
ListPhases == {"channels"} \cup Optional
ASSUME DisabledAssumption == Disabled \subseteq Optional

VARIABLES
    at,         \* where scrape is
    failed,     \* error labels counted by this scrape
    emitted,    \* phases that emitted metrics
    skipped,    \* phases dropped because Asterisk lacks the action
    firstErr,   \* scrape's firstErr: "none" or the phase it came from
    up,         \* the asterisk_up sample: -1 before it is sent, then 0 or 1
    refused, unsupported    \* history: phases Asterisk answered so

result == <<failed, emitted, skipped, firstErr>>
scrapeVars == <<at, result, up, refused, unsupported>>
allVars == <<vars, scrapeVars>>

CallKind(s) == CASE s = "login" -> "login"
                 [] s \in ListPhases -> "list"
                 [] OTHER -> "action"
CallSteps == {"login", "settings", "status", "logoff"} \cup ListPhases

\* collectCore is one phase of two actions.
ActionLabel(s) == s
PhaseOf(s) == IF s \in {"settings", "status"} THEN "core_status" ELSE s

InitScrape ==
    /\ Init
    /\ at = "dial" /\ failed = {} /\ emitted = {} /\ skipped = {}
    /\ firstErr = "none" /\ up = -1 /\ refused = {} /\ unsupported = {}

-----------------------------------------------------------------------------
\* The order of the phases; a disabled one is passed over, and the deferred
\* Logoff and Close come last.
Order == <<"settings", "channels", "sip_peers", "pjsip_endpoints", "queues", "logoff">>

FirstFrom(i) ==
    Order[CHOOSE k \in i..Len(Order) :
             Order[k] \notin Disabled /\ \A j \in i..k - 1 : Order[j] \in Disabled]
PhaseAfter(p) ==
    FirstFrom(1 + CHOOSE i \in 1..Len(Order) : PhaseOf(Order[i]) = p)

Fail(phase) == failed' = failed \cup {phase}

\* firstErr keeps the first error.
FirstError(phase) == IF firstErr = "none" THEN phase ELSE firstErr

Dial ==
    /\ at = "dial"
    /\ \/ link = "up" /\ at' = "login" /\ UNCHANGED <<failed, firstErr>>
       \/ at' = "report" /\ Fail("dial") /\ firstErr' = "dial"
    /\ UNCHANGED <<vars, emitted, skipped, up, refused, unsupported>>

Issue ==
    /\ at \in CallSteps
    /\ Begin(CallKind(at))
    /\ UNCHANGED scrapeVars

\* Asterisk's answer to a phase is noted when it is settled.
Remember ==
    /\ refused' = IF said'.type = "Error" THEN refused \cup {PhaseOf(at)} ELSE refused
    /\ unsupported' = IF said'.type = "Unknown" THEN unsupported \cup {PhaseOf(at)}
                                                ELSE unsupported

CallWrites == WriteReaches /\ Remember /\ UNCHANGED <<at, result, up>>
CallGoesOn ==
    (WriteVanishes \/ WriteFails \/ Read) /\ UNCHANGED scrapeVars

-----------------------------------------------------------------------------
(* What the scrape makes of a call's result *)

LoginDone ==
    /\ at = "login" /\ Return
    /\ IF outcome = "ok"
         THEN at' = "settings" /\ UNCHANGED result
         ELSE /\ at' = "close" /\ Fail("login") /\ firstErr' = "login"
              /\ UNCHANGED <<emitted, skipped>>
    /\ UNCHANGED <<up, refused, unsupported>>

\* collect: a failed phase is counted, and the next one runs all the same.
StopsAtFailure(phase) == "logoff"
GoesOnAfter(phase) == PhaseAfter(phase)

PhaseFails ==
    /\ Fail(PhaseOf(at)) /\ firstErr' = FirstError(PhaseOf(at))
    /\ at' = GoesOnAfter(PhaseOf(at))
    /\ UNCHANGED <<emitted, skipped>>

PhaseEmitsAndClears ==
    /\ emitted' = emitted \cup {PhaseOf(at)}
    /\ at' = PhaseAfter(PhaseOf(at))
    /\ firstErr' = "none"
    /\ UNCHANGED <<failed, skipped>>
PhaseEmits ==
    /\ emitted' = emitted \cup {PhaseOf(at)}
    /\ at' = PhaseAfter(PhaseOf(at))
    /\ UNCHANGED <<failed, skipped, firstErr>>

\* isUnknownActionErr: Asterisk does not have the module.
SkipsAnyRejection == outcome \in {"unknown", "rejected"} /\ at \in Optional
Skips == outcome = "unknown" /\ at \in Optional

PhaseSkips ==
    /\ skipped' = skipped \cup {at}
    /\ at' = PhaseAfter(at)
    /\ UNCHANGED <<failed, emitted, firstErr>>

\* CoreSettings succeeded: CoreStatus is next.
CoreHalfDone == at' = "status" /\ UNCHANGED result

PhaseDone ==
    /\ at \in {"settings", "status"} \cup ListPhases /\ Return
    /\ \/ outcome = "ok" /\ at = "settings" /\ CoreHalfDone
       \/ outcome = "ok" /\ at # "settings" /\ PhaseEmits
       \/ outcome # "ok" /\ Skips /\ PhaseSkips
       \/ outcome # "ok" /\ ~Skips /\ PhaseFails
    /\ UNCHANGED <<up, refused, unsupported>>

\* Logoff's error is dropped.
LogoffDone ==
    /\ at = "logoff" /\ Return
    /\ at' = "close"
    /\ UNCHANGED <<result, up, refused, unsupported>>

CloseConn ==
    /\ at = "close"
    /\ at' = "report"
    /\ UNCHANGED <<vars, result, up, refused, unsupported>>

\* scrape has returned: Collect emits asterisk_up and the error counters.
Report ==
    /\ at = "report"
    /\ at' = "done"
    /\ up' = IF firstErr = "none" THEN 1 ELSE 0
    /\ UNCHANGED <<vars, result, refused, unsupported>>

-----------------------------------------------------------------------------
ScrapeStep ==
    \/ Dial \/ Issue \/ CallWrites \/ LoginDone \/ PhaseDone \/ LogoffDone
    \/ CloseConn \/ Report
World == at \notin {"report", "done"} /\ Environment /\ UNCHANGED scrapeVars
Done == at = "done" /\ UNCHANGED allVars

NextScrape == ScrapeStep \/ CallGoesOn \/ World \/ Done

SpecScrape == InitScrape /\ [][NextScrape]_allVars

\* The scrape's goroutine runs, and time passes up to the deadline.
FairSpecScrape ==
    /\ SpecScrape
    /\ WF_allVars(ScrapeStep)
    /\ WF_allVars(CallGoesOn)
    /\ WF_allVars(World /\ Tick)

-----------------------------------------------------------------------------
(* Properties *)

Phases == {"core_status"} \cup ListPhases
Labels == Phases \cup {"dial", "login"}

TypeOKScrape ==
    /\ at \in {"dial", "close", "report", "done"} \cup CallSteps
    /\ failed \subseteq Labels /\ emitted \subseteq Phases /\ skipped \subseteq Optional
    /\ firstErr \in {"none"} \cup Labels
    /\ up \in {-1, 0, 1}
    /\ refused \subseteq Phases \cup {"login", "logoff"}
    /\ unsupported \subseteq Phases \cup {"login", "logoff"}

\* asterisk_up and scrape_errors_total agree: 0 exactly when this scrape counted
\* an error, whichever phase failed and whatever succeeded after it.
UpAgreesWithErrors == at = "done" => (up = 0 <=> failed # {})

\* After a login each enabled phase is tried and ends in exactly one way:
\* emitted, counted as an error, or skipped; no failure hides a later phase.
PhasesIsolated ==
    at = "done" /\ failed \cap {"dial", "login"} = {} =>
        /\ emitted \cup failed \cup skipped = Phases \ Disabled
        /\ emitted \cap failed = {} /\ emitted \cap skipped = {} /\ failed \cap skipped = {}

\* On a connection without stray events that did not break or run into the
\* deadline, list phases fail exactly where Asterisk refused them, and are
\* skipped exactly where it does not know the action.
FailuresAreAsterisks ==
    at = "done" /\ noise = 0 /\ link = "up" /\ ~Expired
        /\ failed \cap {"dial", "login"} = {} =>
        /\ failed = (refused \cup (unsupported \ Optional)) \cap ListPhases
        /\ skipped = unsupported \cap Optional

\* Every scrape ends, however Asterisk behaves.
ScrapeEnds == <>(at = "done")

\* README.md:12: asterisk_up is "1 if the last AMI scrape succeeded".  Action
\* does not look at the Response header, so a refused CoreSettings or CoreStatus
\* is taken for an answer without fields.
UpMeansAccepted == up = 1 => refused \subseteq {"logoff"}
=============================================================================
