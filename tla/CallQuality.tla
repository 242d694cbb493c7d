----------------------------- MODULE CallQuality -----------------------------
(***************************************************************************)
(* The one-way-audio counter end to end: calls in Asterisk, their events   *)
(* on the event stream (Session, which EventStream implements), and the    *)
(* Aggregator that handles what arrives.                                   *)
(*                                                                         *)
(* Nothing replays events: what Asterisk reports while the stream is down, *)
(* or what a broken session had not read, is gone, and the aggregator is   *)
(* not told.  A Hangup that is gone leaves the entry of its call behind,   *)
(* for the next call that has the channel's name.                          *)
(*                                                                         *)
(* truth, meant and spoilt are history: what the call in progress reported,*)
(* the verdicts a lossless exporter would have counted, and the calls that *)
(* lost an event or follow a lost Hangup.                                  *)
(* The clock advances only when the stream has caught up: a message takes  *)
(* milliseconds to arrive, a tick of this clock is seconds.  The end of    *)
(* Run or of the process is left out: the counter ends with it.            *)
(***************************************************************************)
EXTENDS Aggregator, Sequences

CONSTANTS
    MaxCalls,       \* bound: calls on each channel name
    MaxMessages,    \* bound: messages Asterisk sends
    MaxReconnects   \* bound: attempts after the first

ASSUME CallBoundsAssumption == MaxCalls \in Nat /\ MaxMessages \in Nat /\ MaxReconnects \in Nat

VARIABLES
    state, trying, reconnects, unread, handled, ignored, lost,  \* Session
    calls,          \* calls begun on each channel name
    talking,        \* channels with a call in progress
    truth, meant, spoilt

session == <<state, trying, reconnects, unread, handled, ignored, lost>>
pbx == <<calls, talking, truth, meant, spoilt>>
allVars == <<vars, session, pbx>>

Report == [chan : Channels, call : 1..MaxCalls, what : Directions \cup {"hangup"}]
S == INSTANCE Session WITH Messages <- Report, Events <- Report

\* A lost event spoils its call; a lost Hangup also the next call of the name.
SpoiltBy(m) == {<<m.chan, m.call>>} \cup
               (IF m.what = "hangup" THEN {<<m.chan, m.call + 1>>} ELSE {})
SpoiltByAll(ms) == UNION {SpoiltBy(ms[i]) : i \in DOMAIN ms}

InitCalls ==
    /\ Init /\ S!Init
    /\ calls = [c \in Channels |-> 0] /\ talking = {}
    /\ truth = [c \in Channels |-> Absent]
    /\ meant = [r \in Reasons |-> 0] /\ spoilt = {}

-----------------------------------------------------------------------------
(* Asterisk *)

Rings(c) ==
    /\ c \notin talking /\ calls[c] < MaxCalls
    /\ calls' = [calls EXCEPT ![c] = @ + 1]
    /\ talking' = talking \cup {c}
    /\ UNCHANGED <<vars, session, truth, meant, spoilt>>

\* The event goes out on the stream's connection, or there is none to send it on
\* (or it is broken, and neither side has noticed).
Reports(c, what) ==
    LET m == [chan |-> c, call |-> calls[c], what |-> what]
    IN  \/ /\ handled + lost + Len(unread) < MaxMessages
           /\ S!Send(m)
           /\ UNCHANGED spoilt
        \/ spoilt' = spoilt \cup SpoiltBy(m) /\ UNCHANGED session

RtcpSeen(c, d) ==
    /\ c \in talking
    /\ Reports(c, d)
    /\ truth' = [truth EXCEPT ![c] = Heard(@, d, now)]
    /\ UNCHANGED <<vars, calls, talking, meant>>

HangsUp(c) ==
    /\ c \in talking
    /\ Reports(c, "hangup")
    /\ talking' = talking \ {c}
    /\ truth' = [truth EXCEPT ![c] = Absent]
    /\ meant' = Counted(meant, Deserved(truth[c], now))
    /\ UNCHANGED <<vars, calls>>

-----------------------------------------------------------------------------
(* The stream *)

\* Handle is called on the goroutine of the session and has returned, so that the
\* session can go on or end.
HandlerDetached == TRUE
HandlerDone == at = "idle"

\* It takes the next message only when it is done with the last.
Handed ==
    /\ S!Deliver
    /\ LET m == Head(unread)
       IN  IF m.what = "hangup" THEN HangupArrives(m.chan) ELSE RtcpArrives(m.chan, m.what)
    /\ UNCHANGED pbx

Reconnects ==
    /\ HandlerDone
    /\ \/ S!Retry /\ reconnects < MaxReconnects
       \/ S!GivesUp \/ S!Connect \/ S!Drop
    /\ UNCHANGED <<vars, pbx>>

\* The connection breaks, or the session is released with messages unread.
Loses(kept) ==
    /\ \/ S!Lose(kept)
       \/ kept = 0 /\ HandlerDone /\ S!Release
    /\ spoilt' = spoilt \cup SpoiltByAll(SubSeq(unread, kept + 1, Len(unread)))
    /\ UNCHANGED <<vars, calls, talking, truth, meant>>

-----------------------------------------------------------------------------
(* The aggregator *)

Handles == Handling /\ UNCHANGED <<session, pbx>>

Scraped(s) == Sweeping(s) /\ UNCHANGED <<session, pbx>>

TimePasses ==
    /\ unread = <<>> /\ at = "idle"
    /\ Tick
    /\ UNCHANGED <<session, pbx>>

-----------------------------------------------------------------------------
NextCalls ==
    \/ \E c \in Channels :
          \/ Rings(c) \/ HangsUp(c)
          \/ \E d \in Directions : RtcpSeen(c, d)
    \/ Handed \/ Reconnects
    \/ \E kept \in 0..Len(unread) : Loses(kept)
    \/ Handles \/ TimePasses
    \/ \E s \in Scrapers : Scraped(s)

SpecCalls == InitCalls /\ [][NextCalls]_allVars

-----------------------------------------------------------------------------
(* Properties *)

\* The calls that are over.
Ended == {id \in Channels \X (1..MaxCalls) :
              id[2] < calls[id[1]] \/ (id[2] = calls[id[1]] /\ id[1] \notin talking)}

\* Also: Handle runs only while the session whose message it has is up.
TypeOKCalls ==
    /\ at # "idle" => state = "up"
    /\ state \in {"down", "up", "ending"} /\ trying \in BOOLEAN
    /\ unread \in Seq(Report)
    /\ calls \in [Channels -> 0..MaxCalls] /\ talking \subseteq Channels
    /\ truth \in [Channels -> Entry] /\ meant \in [Reasons -> Nat]
    /\ spoilt \subseteq Channels \X (1..(MaxCalls + 1))

\* However events are lost, the one-way counter is wrong by no more than the
\* ended calls that were spoilt and the Hangups that came after a sweep had cut
\* the entry: a lost Hangup is absorbed by the next call of the same channel
\* name, and no error is carried further.
ErrorsAreSpoiltCalls ==
    at = "idle" /\ unread = <<>> =>
        LET wrong == Cardinality(spoilt \cap Ended) + blind
        IN  \A r \in Reasons : oneWay[r] - meant[r] <= wrong /\ meant[r] - oneWay[r] <= wrong
=============================================================================
