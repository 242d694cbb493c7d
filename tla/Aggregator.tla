------------------------------ MODULE Aggregator ------------------------------
(***************************************************************************)
(* The RTCP aggregator (internal/rtcp/aggregator.go): the map of channels  *)
(* behind a.mu, written by Handle on the event-stream goroutine and swept  *)
(* by gcStaleChannels on every goroutine that serves a scrape, and the     *)
(* one-way verdicts reached at Hangup.                                     *)
(*                                                                         *)
(* Handle and gcStaleChannels read the clock before they lock, and a       *)
(* verdict is counted after the unlock, so each is several steps.  The two *)
(* packet counts of chanState are only compared with 0: an entry keeps the *)
(* set of directions seen, and an absent entry has seen none.  The         *)
(* counters and histograms that Handle only adds to are left out.          *)
(*                                                                         *)
(* told, cut, due and blind are history: what the events of a call said,   *)
(* whether a sweep discarded part of it, and what should be counted.       *)
(***************************************************************************)
EXTENDS Integers, FiniteSets

CONSTANTS
    Channels,   \* names Asterisk gives to channels; it may reuse them
    NoChannel,  \* not a name: Handle is not running, or the event names no channel
    Scrapers,   \* goroutines that may serve /metrics at the same time
    MinCall,    \* Options.MinCallSecondsForOneWay
    TTL,        \* Options.ChannelTTL
    PerChannel, \* Options.PerChannel
    MaxTime,    \* bound on the clock
    MaxHangups  \* bound on the calls that end

ASSUME OptionsAssumption == MinCall \in Nat /\ TTL \in Nat /\ PerChannel \in BOOLEAN
ASSUME NoChannelAssumption == NoChannel \notin Channels
ASSUME BoundAssumption == MaxTime \in Nat /\ MaxHangups \in Nat

VARIABLES
    now,            \* the clock, Options.Now
    entries,        \* a.channels
    loss,           \* channels that have a packet_loss_ratio series
    oneWay,         \* one_way_audio_total by reason
    at, chan, dir, read, taken, \* Handle: place, event, clock value, entry taken
    sweeping, cutoff,           \* gcStaleChannels: scrapers inside, their cutoffs
    told, cut, due, blind, hangups

handler == <<at, chan, dir, read, taken>>
gc == <<sweeping, cutoff>>
history == <<told, cut, due, blind, hangups>>
vars == <<now, entries, loss, oneWay, handler, gc, history>>

Directions == {"sent", "received"}
Reasons == {"no_inbound_rtcp", "no_outbound_rtcp"}
Time == 0..MaxTime
Entry == [first : Time, last : Time, seen : SUBSET Directions]
Absent == [first |-> 0, last |-> 0, seen |-> {}]

Init ==
    /\ now = 0
    /\ entries = [c \in Channels |-> Absent]
    /\ loss = {}
    /\ oneWay = [r \in Reasons |-> 0]
    /\ at = "idle" /\ chan = NoChannel /\ dir = "sent" /\ read = 0 /\ taken = Absent
    /\ sweeping = {} /\ cutoff = [s \in Scrapers |-> 0]
    /\ told = [c \in Channels |-> Absent] /\ cut = {}
    /\ due = [r \in Reasons |-> 0] /\ blind = 0 /\ hangups = 0

\* What one more event in direction d at time t adds to what is known of a call.
Heard(st, d, t) == [first |-> IF st.seen = {} THEN t ELSE st.first,
                    last |-> t, seen |-> st.seen \cup {d}]

\* Handle returns; its locals are gone.
HandleReturns ==
    at' = "idle" /\ chan' = NoChannel /\ dir' = "sent" /\ read' = 0 /\ taken' = Absent

-----------------------------------------------------------------------------
(* handleRTCP *)

\* A new entry starts now; st.lastSeen = now; the direction's count goes up.
RecordedAnew(st, d, t) == [first |-> t, last |-> t, seen |-> st.seen \cup {d}]
RecordedExpiry(st, d, t) == [Heard(st, d, t) EXCEPT !.last = t + TTL]
Recorded(st, d, t) == Heard(st, d, t)

\* An event with no channel sets its metrics and leaves the map alone.
RtcpUnnamed ==
    /\ at = "idle"
    /\ \E hasLoss \in BOOLEAN :
          loss' = IF hasLoss /\ PerChannel THEN loss \cup {NoChannel} ELSE loss
    /\ UNCHANGED <<now, entries, oneWay, handler, gc, history>>

\* The event is parsed and its metrics are set, then the clock is read.
RtcpArrives(c, d) ==
    /\ at = "idle"
    /\ at' = "rtcp" /\ chan' = c /\ dir' = d /\ read' = now
    /\ \E hasLoss \in BOOLEAN :
          loss' = IF hasLoss /\ PerChannel THEN loss \cup {c} ELSE loss
    /\ told' = [told EXCEPT ![c] = Heard(@, d, now)]
    /\ UNCHANGED <<now, entries, oneWay, taken, gc, cut, due, blind, hangups>>

\* The update under a.mu.
RtcpRecorded ==
    /\ at = "rtcp"
    /\ entries' = [entries EXCEPT ![chan] = Recorded(@, dir, read)]
    /\ HandleReturns
    /\ UNCHANGED <<now, loss, oneWay, gc, history>>

-----------------------------------------------------------------------------
(* handleHangup *)

\* The one direction that was heard, by reason.
HeardOnly == [no_inbound_rtcp |-> {"sent"}, no_outbound_rtcp |-> {"received"}]

\* The reason to count for a call with entry st that ends at t: at most one.
VerdictAboveFloor(st, t) == {r \in Reasons : t - st.first > MinCall /\ st.seen = HeardOnly[r]}
Verdict(st, t) == {r \in Reasons : t - st.first >= MinCall /\ st.seen = HeardOnly[r]}

\* What the call deserves, from the option's own words and apart from Verdict: it
\* did not end below the floor, and one side was heard and the other never.
Missing == [no_inbound_rtcp |-> "received", no_outbound_rtcp |-> "sent"]
Deserved(st, t) ==
    IF t < st.first + MinCall THEN {}
    ELSE {r \in Reasons : st.seen # {} /\ Missing[r] \notin st.seen}

Counted(counts, rs) ==
    [r \in Reasons |-> IF r \in rs THEN counts[r] + 1 ELSE counts[r]]

HangupArrives(c) ==
    /\ at = "idle" /\ hangups < MaxHangups
    /\ at' = "hangup" /\ chan' = c /\ read' = now
    /\ hangups' = hangups + 1
    /\ UNCHANGED <<now, entries, loss, oneWay, dir, taken, gc, told, cut, due, blind>>

RemainsAfterHangup(c) == entries
RemovedAtHangup(c) == [entries EXCEPT ![c] = Absent]

\* The entry is taken out of the map under a.mu; without one, or too soon
\* after its first event, there is nothing to count.
HangupTaken ==
    /\ at = "hangup"
    /\ entries' = RemovedAtHangup(chan)
    /\ IF Verdict(entries[chan], read) = {}
         THEN HandleReturns
         ELSE at' = "judge" /\ taken' = entries[chan] /\ UNCHANGED <<chan, dir, read>>
    /\ told' = [told EXCEPT ![chan] = Absent]
    /\ due' = Counted(due, Deserved(told[chan], read))
    /\ blind' = IF chan \in cut THEN blind + 1 ELSE blind
    /\ cut' = cut \ {chan}
    /\ UNCHANGED <<now, loss, oneWay, gc, hangups>>

HangupJudged ==
    /\ at = "judge"
    /\ oneWay' = Counted(oneWay, Verdict(taken, read))
    /\ HandleReturns
    /\ UNCHANGED <<now, entries, loss, gc, history>>

-----------------------------------------------------------------------------
(* gcStaleChannels, at the end of every Collect *)

CutoffTooEarly == now - 2 * TTL
Cutoff == now - TTL

GcReadsClock(s) ==
    /\ s \notin sweeping
    /\ sweeping' = sweeping \cup {s}
    /\ cutoff' = [cutoff EXCEPT ![s] = Cutoff]
    /\ UNCHANGED <<now, entries, loss, oneWay, handler, history>>

StaleByFirst(st, limit) == st.seen # {} /\ st.first < limit
Stale(st, limit) == st.seen # {} /\ st.last < limit

\* The sweep under a.mu.
GcSweeps(s) ==
    /\ s \in sweeping
    /\ sweeping' = sweeping \ {s}
    /\ entries' = [c \in Channels |->
                      IF Stale(entries[c], cutoff[s]) THEN Absent ELSE entries[c]]
    /\ cut' = cut \cup {c \in Channels : Stale(entries[c], cutoff[s])}
    /\ cutoff' = [cutoff EXCEPT ![s] = 0]
    /\ UNCHANGED <<now, loss, oneWay, handler, told, due, blind, hangups>>

Tick ==
    /\ now < MaxTime
    /\ now' = now + 1
    /\ UNCHANGED <<entries, loss, oneWay, handler, gc, history>>

-----------------------------------------------------------------------------
Arrives ==
    \/ RtcpUnnamed
    \/ \E c \in Channels : HangupArrives(c) \/ \E d \in Directions : RtcpArrives(c, d)
Handling == RtcpRecorded \/ HangupTaken \/ HangupJudged
Sweeping(s) == GcReadsClock(s) \/ GcSweeps(s)

Next == Arrives \/ Handling \/ Tick \/ \E s \in Scrapers : Sweeping(s)

Spec == Init /\ [][Next]_vars

\* Handle returns, and Prometheus keeps scraping.  No event need ever arrive.
FairSpec == Spec /\ WF_vars(Handling) /\ \A s \in Scrapers : WF_vars(Sweeping(s))

-----------------------------------------------------------------------------
(* Properties *)

TypeOK ==
    /\ now \in Time
    /\ entries \in [Channels -> Entry]
    /\ loss \in SUBSET (Channels \cup {NoChannel})
    /\ oneWay \in [Reasons -> Nat]
    /\ at \in {"idle", "rtcp", "hangup", "judge"}
    /\ chan \in Channels \cup {NoChannel} /\ (at # "idle" => chan \in Channels)
    /\ dir \in Directions /\ read \in Time /\ taken \in Entry
    /\ sweeping \in SUBSET Scrapers
    /\ cutoff \in [Scrapers -> Int]
    /\ told \in [Channels -> Entry]
    /\ cut \in SUBSET Channels
    /\ due \in [Reasons -> Nat] /\ blind \in Nat /\ hangups \in Nat

\* Unless a sweep cut a call short, its entry says exactly what the events of
\* this call said, and nothing of an earlier call of the same channel name:
\* Hangup forgets, and no interleaving with a sweep or a reused name mixes two.
EntryTellsCall ==
    \A c \in Channels \ cut : (at = "rtcp" => chan # c) => entries[c] = told[c]

\* Between events the one-way counter differs from what the calls' events
\* called for (Deserved) by at most the number of ended calls a sweep had cut short.
VerdictErrorBounded ==
    at = "idle" => \A r \in Reasons : /\ oneWay[r] - due[r] <= blind
                                      /\ due[r] - oneWay[r] <= blind

\* An entry disappears only by its own Hangup, or when a sweep finds that its
\* channel has been silent for more than the TTL.  (An event that has read the
\* clock but waits for the lock does not count as heard yet.)
ForgetsOnlyIdle ==
    [][\A c \in Channels :
          entries[c].seen # {} /\ entries'[c].seen = {} =>
              \/ at = "hangup" /\ chan = c
              \/ at = "rtcp" /\ chan = c
              \/ told[c].last < now - TTL]_vars

Idle(c) == entries[c].seen # {} /\ entries[c].last < now - TTL

\* While scrapes keep coming, a channel that never hangs up does not stay in
\* the map: it is heard again or swept.
IdleForgotten == \A c \in Channels : Idle(c) ~> ~Idle(c)

\* README.md:102: per-channel mode has one time-series per active channel.
\* Nothing deletes a series after the channel's Hangup.
SeriesOnlyOfActive ==
    at = "idle" => \A c \in loss \ {NoChannel} : told[c].seen # {}
=============================================================================
