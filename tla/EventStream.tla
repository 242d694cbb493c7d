----------------------------- MODULE EventStream -----------------------------
(***************************************************************************)
(* The persistent AMI event stream: EventStream.Run and runOnce            *)
(* (internal/ami/eventstream.go) over the client calls they make (Login,   *)
(* NextEvent, write, read, Close in internal/ami/client.go), with the      *)
(* watchdog goroutine every session starts, and an Asterisk that accepts,  *)
(* refuses, breaks off or falls silent.                                    *)
(*                                                                         *)
(* A client call that touches c.conn is two steps, the nil check and the   *)
(* use, because the watchdog's Close clears c.conn from another goroutine  *)
(* without a lock.  What the data race can yield is a choice in UseOutcomes.   *)
(*                                                                         *)
(* Every failure that Asterisk, the network or a deadline causes costs one *)
(* unit of MaxFaults; shutdown (ctx) and its consequences cost nothing.    *)
(***************************************************************************)
EXTENDS Integers, Sequences

CONSTANTS
    BaseBackoff,    \* EventStream.BaseBackoff
    MaxBackoff,     \* EventStream.MaxBackoff
    MaxFaults,      \* bound: failures the environment may inject
    MaxEvents       \* bound: messages Asterisk sends after the login replies

ASSUME BackoffAssumption ==
    /\ BaseBackoff \in Nat \ {0}
    /\ MaxBackoff \in Nat
    /\ BaseBackoff <= MaxBackoff
ASSUME BoundAssumption == MaxFaults \in Nat /\ MaxEvents \in Nat

VARIABLES
    pc,         \* where Run / runOnce is
    ctxDone,    \* ctx was cancelled (SIGINT, SIGTERM)
    first,      \* Run's local: no attempt made yet
    backoff,    \* Run's local
    reconnects, \* calls of hooks.OnReconnect
    up,         \* last value given to hooks.OnUp
    phase,      \* "login" until Login returned, then "events"
    cleared,    \* this session's c.conn is nil
    socket,     \* "none", "open", "eof" (the peer is gone) or "closed" (by us)
    once,       \* closeOnce: "new", "watchdog" (its Close is running) or "done"
    watchdog,   \* this session's goroutine: "none", "parked", "closing", "done"
    parked,     \* goroutines of earlier sessions still waiting for ctx
    server,     \* login at the peer: "none", "asked", "accepted", "rejected"
    hung,       \* the peer keeps the connection but answers nothing
    inbox,      \* messages of this session not read yet
    sent, handled, ignored, lost, late,  \* message counts
    faults      \* failures injected so far

loop == <<first, backoff, reconnects, up>>
conn == <<cleared, socket, once, watchdog, parked>>
peer == <<server, hung, inbox>>
tally == <<sent, handled, ignored, lost, late>>
vars == <<pc, ctxDone, loop, phase, conn, peer, tally, faults>>

Kinds == {"event", "other"}
SessionPcs == {"wCheck", "wUse", "rCheck", "rUse", "rWait"}
Pcs == SessionPcs \cup {"top", "attempt", "dial", "unwind", "close", "after",
                        "sleep", "stopped", "panicked"}

Alive == pc \notin {"stopped", "panicked"}
InSession == pc \in SessionPcs
Goto(next) ==
    pc' = next /\ UNCHANGED <<ctxDone, loop, phase, conn, peer, tally, faults>>
Fault == faults < MaxFaults /\ faults' = faults + 1

Init ==
    /\ pc = "top" /\ ctxDone = FALSE
    /\ first = TRUE /\ backoff = BaseBackoff /\ reconnects = 0 /\ up = 0
    /\ phase = "login" /\ cleared = FALSE /\ socket = "none" /\ once = "new"
    /\ watchdog = "none" /\ parked = 0
    /\ server = "none" /\ hung = FALSE /\ inbox = <<>>
    /\ sent = 0 /\ handled = 0 /\ ignored = 0 /\ lost = 0 /\ late = 0
    /\ faults = 0

-----------------------------------------------------------------------------
(* Run *)

\* for { if ctx.Err() != nil { return } ...
Top == pc = "top" /\ Goto(IF ctxDone THEN "stopped" ELSE "attempt")

\* ... if !first { OnReconnect() }; first = false; runOnce(ctx)
CountsAlways == TRUE
Counts == ~first

Attempt ==
    /\ pc = "attempt"
    /\ pc' = "dial"
    /\ first' = FALSE
    /\ reconnects' = IF Counts THEN reconnects + 1 ELSE reconnects
    /\ UNCHANGED <<ctxDone, backoff, up, phase, conn, peer, tally, faults>>

\* After runOnce: return on shutdown, otherwise wait.
StopsAfterOneFailure == TRUE
StopsAfter == ctxDone

After == pc = "after" /\ Goto(IF StopsAfter THEN "stopped" ELSE "sleep")

AddedBackoff(b) == IF b + BaseBackoff > MaxBackoff THEN MaxBackoff ELSE b + BaseBackoff
UncappedBackoff(b) == 2 * b
NextBackoff(b) == IF 2 * b > MaxBackoff THEN MaxBackoff ELSE 2 * b

\* select { <-ctx.Done(): return; <-time.After(backoff) }: either may be taken
\* when both are ready.
SleepInterrupted == pc = "sleep" /\ ctxDone /\ Goto("stopped")

SleepEnds ==
    /\ pc = "sleep"
    /\ pc' = "top"
    /\ backoff' = NextBackoff(backoff)
    /\ UNCHANGED <<ctxDone, first, reconnects, up, phase, conn, peer, tally, faults>>

-----------------------------------------------------------------------------
(* runOnce *)

\* Dial fails: refused, timed out, no banner, or ctx cancelled under it.
DialFails ==
    /\ pc = "dial"
    /\ pc' = "after"
    /\ \/ ctxDone /\ UNCHANGED faults
       \/ Fault
    /\ UNCHANGED <<ctxDone, loop, phase, conn, peer, tally>>

\* Dial succeeds (the banner read does not watch ctx, so even after a
\* cancel): a new session with its own closeOnce and watchdog.  The watchdog
\* of the previous session is only released by ctx.
DialSucceeds ==
    /\ pc = "dial"
    /\ pc' = "wCheck"
    /\ phase' = "login" /\ cleared' = FALSE /\ socket' = "open" /\ once' = "new"
    /\ watchdog' = "parked"
    /\ parked' = IF watchdog = "parked" THEN parked + 1 ELSE parked
    /\ server' = "none" /\ hung' = FALSE /\ inbox' = <<>>
    /\ UNCHANGED <<ctxDone, loop, tally, faults>>

\* if c.conn == nil { return "connection closed" }  (write, read, NextEvent)
CheckConn ==
    /\ pc \in {"wCheck", "rCheck"}
    /\ Goto(CASE cleared -> "unwind"
              [] ~cleared /\ pc = "wCheck" -> "wUse"
              [] OTHER -> "rUse")

\* The use of c.conn after the check: it finds nil if the watchdog cleared it
\* in between, fails if the socket is closed, and otherwise goes through (also
\* on the stale value of a cleared c.conn).
UseOutcomes(next) ==
    (IF cleared THEN {"panicked"} ELSE {})
        \cup {IF socket = "closed" THEN "unwind" ELSE next}

WriteLogin ==
    /\ pc = "wUse"
    /\ \E next \in UseOutcomes("rCheck") :
          /\ pc' = next
          /\ server' = IF next = "rCheck" /\ socket = "open" THEN "asked" ELSE server
    /\ UNCHANGED <<ctxDone, loop, phase, conn, hung, inbox, tally, faults>>

\* A peer that is gone can already fail the write.
WriteFails == pc = "wUse" /\ socket = "eof" /\ Goto("unwind")

SetDeadline == pc = "rUse" /\ \E next \in UseOutcomes("rWait") : Goto(next)

Deliverable == server \in {"accepted", "rejected"}

\* The login reply is read: OnUp(true), or back with an error.
LoginReply ==
    /\ pc = "rWait" /\ phase = "login" /\ Deliverable
    /\ IF server = "accepted"
         THEN pc' = "rCheck" /\ phase' = "events" /\ up' = 1
         ELSE pc' = "unwind" /\ UNCHANGED <<phase, up>>
    /\ UNCHANGED <<ctxDone, first, backoff, reconnects, conn, peer, tally, faults>>

\* loginCtx's deadline; only the login has one.  It can pass with the reply already
\* on the socket.
LoginTimeout ==
    /\ pc = "rWait" /\ phase = "login"
    /\ pc' = "unwind"
    /\ IF hung THEN UNCHANGED faults ELSE Fault
    /\ UNCHANGED <<ctxDone, loop, phase, conn, peer, tally>>

\* Where the loop goes on after a message it has dealt with.
NextReadUnchecked == "rWait"
NextReadLeaves == IF Head(inbox) = "other" THEN "unwind" ELSE "rCheck"
NextRead == "rCheck"

HandlesUnlessDone == ~ctxDone
Handles == TRUE

\* NextEvent returns a message: an event goes to the handler, the rest is skipped.
\* The reader's buffer can yield one even after Close.
ReceiveMessage ==
    /\ pc = "rWait" /\ phase = "events" /\ inbox # <<>>
    /\ pc' = NextRead
    /\ inbox' = Tail(inbox)
    /\ IF Head(inbox) = "event"
         THEN /\ handled' = IF Handles THEN handled + 1 ELSE handled
              /\ late' = IF cleared THEN late + 1 ELSE late
              /\ UNCHANGED ignored
         ELSE ignored' = ignored + 1 /\ UNCHANGED <<handled, late>>
    /\ UNCHANGED <<ctxDone, loop, phase, conn, server, hung, sent, lost, faults>>

\* The pending read ends: the socket was closed here, or the peer is gone and
\* everything it delivered has been read.
ReadFails ==
    /\ pc = "rWait"
    /\ \/ socket = "closed"
       \/ socket = "eof" /\ inbox = <<>> /\ (phase = "login" => ~Deliverable)
    /\ Goto("unwind")

\* The deferred calls run last in, first out: OnUp(false) if it was deferred ...
UpStays == up
UpAfterUnwind == IF phase = "events" THEN 0 ELSE up

Unwind ==
    /\ pc = "unwind"
    /\ pc' = "close"
    /\ up' = UpAfterUnwind
    /\ UNCHANGED <<ctxDone, first, backoff, reconnects, phase, conn, peer, tally, faults>>

\* ... then closeConn: once.Do waits for a Close the watchdog has begun.
ClosesOnlySessions == once = "new" /\ phase = "events"
ClosesNow == once = "new"

Release ==
    /\ pc = "close" /\ once # "watchdog"
    /\ pc' = "after"
    /\ once' = "done"
    /\ cleared' = (cleared \/ ClosesNow)
    /\ socket' = IF ClosesNow THEN "closed" ELSE socket
    /\ inbox' = <<>> /\ lost' = lost + Len(inbox)
    /\ UNCHANGED <<ctxDone, loop, phase, watchdog, parked, server, hung,
                   sent, handled, ignored, late, faults>>

-----------------------------------------------------------------------------
(* The watchdog goroutines *)

\* <-ctx.Done(); closeConn(): the first to enter Do sets c.conn = nil ...
WatchdogWakesOnEOF == ctxDone \/ socket = "eof"
WatchdogWakes == ctxDone

WatchdogFires ==
    /\ pc # "panicked"
    /\ watchdog = "parked" /\ WatchdogWakes
    /\ IF once = "new"
         THEN watchdog' = "closing" /\ once' = "watchdog" /\ cleared' = TRUE
         ELSE watchdog' = "done" /\ UNCHANGED <<once, cleared>>
    /\ UNCHANGED <<pc, ctxDone, loop, phase, socket, parked, peer, tally, faults>>

\* ... and closes the socket, which ends a pending read.
SocketKept == socket
SocketAfterClose == "closed"

WatchdogCloses ==
    /\ pc # "panicked"
    /\ watchdog = "closing"
    /\ watchdog' = "done" /\ once' = "done" /\ socket' = SocketAfterClose
    /\ UNCHANGED <<pc, ctxDone, loop, phase, cleared, parked, peer, tally, faults>>

\* A watchdog of an earlier session: its closeOnce is spent, it just ends.
ParkedEnds ==
    /\ pc # "panicked"
    /\ ctxDone /\ parked > 0
    /\ parked' = parked - 1
    /\ UNCHANGED <<pc, ctxDone, loop, phase, cleared, socket, once, watchdog,
                   peer, tally, faults>>

-----------------------------------------------------------------------------
(* Asterisk, the network and the operator *)

AcceptLogin ==
    /\ InSession /\ socket = "open" /\ server = "asked" /\ ~hung
    /\ server' = "accepted"
    /\ UNCHANGED <<pc, ctxDone, loop, phase, conn, hung, inbox, tally, faults>>

RejectLogin ==
    /\ InSession /\ socket = "open" /\ server = "asked" /\ ~hung
    /\ server' = "rejected"
    /\ Fault
    /\ UNCHANGED <<pc, ctxDone, loop, phase, conn, hung, inbox, tally>>

\* Asterisk sends an event, or a message without an Event header.
Emit(kind) ==
    /\ InSession /\ socket = "open" /\ server = "accepted" /\ ~hung
    /\ sent < MaxEvents
    /\ sent' = sent + 1
    /\ inbox' = Append(inbox, kind)
    /\ UNCHANGED <<pc, ctxDone, loop, phase, conn, server, hung,
                   handled, ignored, lost, late, faults>>

\* The peer goes away.  What is on the wire can go with it: a login reply not
\* read yet, and any suffix of the unread messages.
Break ==
    /\ InSession /\ socket = "open"
    /\ Fault
    /\ socket' = "eof" /\ hung' = FALSE
    /\ \E kept \in 0..Len(inbox), reply \in {server, "none"} :
          /\ phase = "events" => reply = server
          /\ kept > 0 => reply = server
          /\ server' = reply
          /\ inbox' = SubSeq(inbox, 1, kept)
          /\ lost' = lost + (Len(inbox) - kept)
    /\ UNCHANGED <<pc, ctxDone, loop, phase, cleared, once, watchdog, parked,
                   sent, handled, ignored, late>>

Hang ==
    /\ InSession /\ socket = "open" /\ ~hung
    /\ Fault
    /\ hung' = TRUE
    /\ UNCHANGED <<pc, ctxDone, loop, phase, conn, server, inbox, tally>>

Cancel ==
    /\ Alive /\ ~ctxDone
    /\ ctxDone' = TRUE
    /\ UNCHANGED <<pc, loop, phase, conn, peer, tally, faults>>

\* Run has returned and the goroutines have ended, or the process is gone.
Terminated ==
    /\ \/ pc = "panicked"
       \/ pc = "stopped" /\ watchdog \in {"none", "done"} /\ parked = 0
    /\ UNCHANGED vars

-----------------------------------------------------------------------------
RunStep ==
    \/ Top \/ Attempt \/ After \/ SleepInterrupted \/ SleepEnds
    \/ DialFails \/ DialSucceeds
    \/ CheckConn \/ WriteLogin \/ WriteFails \/ SetDeadline
    \/ LoginReply \/ LoginTimeout \/ ReceiveMessage \/ ReadFails
    \/ Unwind \/ Release

WatchdogStep == WatchdogFires \/ WatchdogCloses \/ ParkedEnds

PeerStep ==
    \/ AcceptLogin \/ RejectLogin \/ Break \/ Hang
    \/ \E kind \in Kinds : Emit(kind)

Next == RunStep \/ WatchdogStep \/ PeerStep \/ Cancel \/ Terminated

Spec == Init /\ [][Next]_vars

\* The goroutines are scheduled, the login deadline passes, and a peer that
\* answers at all answers a login.  Nothing forces a message, a failure or a
\* shutdown to happen.
FairSpec ==
    /\ Spec
    /\ WF_vars(RunStep)
    /\ WF_vars(WatchdogFires) /\ WF_vars(WatchdogCloses) /\ WF_vars(ParkedEnds)
    /\ WF_vars(AcceptLogin)

-----------------------------------------------------------------------------
(* What Run's callers see of all this *)

SessionState ==
    CASE pc = "panicked" -> "dead"
      [] pc = "stopped" -> "over"
      [] pc = "close" /\ phase = "events" -> "ending"
      [] pc \notin {"panicked", "stopped", "close"} /\ up = 1 -> "up"
      [] OTHER -> "down"

Trying == \/ pc \in {"top", "attempt"} /\ first
          \/ pc = "dial"
          \/ InSession /\ phase = "login"

S == INSTANCE Session WITH Messages <- Kinds, Events <- {"event"},
                           state <- SessionState, trying <- Trying, unread <- inbox

-----------------------------------------------------------------------------
(* Properties *)

ControlTypeOK ==
    /\ pc \in Pcs
    /\ ctxDone \in BOOLEAN /\ first \in BOOLEAN
    /\ phase \in {"login", "events"}
    /\ cleared \in BOOLEAN
    /\ socket \in {"none", "open", "eof", "closed"}
    /\ once \in {"new", "watchdog", "done"}
    /\ watchdog \in {"none", "parked", "closing", "done"}
    /\ server \in {"none", "asked", "accepted", "rejected"}
    /\ hung \in BOOLEAN

CountTypeOK ==
    /\ backoff \in BaseBackoff..MaxBackoff
    /\ reconnects \in Nat /\ up \in {0, 1} /\ parked \in Nat
    /\ inbox \in Seq(Kinds)
    /\ sent \in Nat /\ handled \in Nat /\ ignored \in Nat
    /\ lost \in Nat /\ late \in Nat /\ faults \in Nat

\* The state stays inside its types; in particular the wait before the next
\* attempt never leaves BaseBackoff..MaxBackoff (Run's doubling and cap).
TypeOK == ControlTypeOK /\ CountTypeOK

\* The gauge is 1 exactly from the accepted login of a session until that
\* session has unwound, whichever of the many ways it ended: the deferred
\* OnUp(false) of runOnce misses no exit.
UpTracksSession ==
    pc # "panicked" =>
        (up = 1 <=> phase = "events" /\ pc \in SessionPcs \cup {"unwind"})

\* Only the shutdown watchdog clears c.conn under a running client call: no
\* failure of Asterisk or the network can make runOnce dereference nil.
PanicOnlyAtShutdown == pc = "panicked" => ctxDone

\* Seen from outside, Run is the abstract Session, in spite of the watchdog,
\* the data race on c.conn and failures at every step: the gauge is up for a
\* whole session and nothing else, every attempt but the first counts as one
\* reconnect, messages are handled in order and at most once and never after
\* their session, and no session leaves an unread message to the next.
ImplementsSession == S!Spec

\* hooks.OnReconnect counts attempts that follow a failure: shutdown, and the
\* very first attempt, add none.
NoSpuriousReconnect == reconnects <= faults

\* BaseBackoff doubled n times, and capped only then.
Doubled[n \in Nat] == IF n = 0 THEN BaseBackoff ELSE 2 * Doubled[n - 1]
Capped(n) == IF Doubled[n] > MaxBackoff THEN MaxBackoff ELSE Doubled[n]

\* Whenever the stream dials, the wait it has accumulated is BaseBackoff
\* doubled once per reconnect and capped; successful sessions in between do
\* not reset it.
BackoffFollowsReconnects == pc = "dial" => backoff = Capped(reconnects)

\* Each message of an accepted session is handled once, skipped once, lost
\* with its session, or still unread; none is handled twice or forgotten.  One
\* is lost only with a broken connection or a shutdown, never because of a
\* message before it.
EventConservation ==
    /\ sent = handled + ignored + lost + Len(inbox)
    /\ lost > 0 => faults > 0 \/ ctxDone

\* After the watchdog has closed the client, at most the read that was already
\* pending still reaches the handler.
AtMostOneLateEvent == late <= 1

\* Between sessions, and after Run has returned, no socket stays open: every
\* exit of runOnce passes the deferred closeConn.
NothingLeftOpen ==
    pc \in {"top", "attempt", "dial", "after", "sleep", "stopped"} =>
        socket \in {"none", "closed"}

\* After ctx is cancelled, Run returns and every watchdog goroutine ends, or
\* the process has died of the nil dereference; a silent Asterisk does not
\* hold it up, because the watchdog closes the socket under the pending read.
ShutdownCompletes ==
    ctxDone ~> \/ pc = "panicked"
               \/ pc = "stopped" /\ watchdog \in {"none", "done"} /\ parked = 0

\* However often it was refused or broken off, the stream gets a session
\* again, until shutdown.  (A session it merely believes in counts too: see
\* UpMeansHealthy.)
KeepsReconnecting == []<>(up = 1 \/ ctxDone)

\* eventstream.go:110: "closing the connection unblocks any pending read and
\* lets runOnce return cleanly".  It can panic instead: Close clears c.conn
\* between a client call's nil check and its use.
ReturnsCleanly == pc # "panicked"

\* aggregator.go:115: the gauge is "1 if the persistent AMI event-stream
\* connection is healthy".  NextEvent reads without a deadline and nothing
\* probes the peer, so after Asterisk fell silent the gauge can stay 1 for ever.
UpMeansHealthy == (up = 1 /\ hung) ~> (up = 0 \/ ~hung \/ ctxDone)
=============================================================================
