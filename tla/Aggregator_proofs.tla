-------------------------- MODULE Aggregator_proofs --------------------------
(***************************************************************************)
(* Proofs about Aggregator, for any channels, any number of concurrent     *)
(* scrapes and any options: the map tells each call's own history, and the *)
(* one-way counter is off by no more than the calls a sweep cut short.     *)
(***************************************************************************)
EXTENDS Aggregator, TLAPS

USE OptionsAssumption, BoundAssumption, NoChannelAssumption
USE DEF handler, gc, history, Directions, Reasons, Time

-----------------------------------------------------------------------------
(* Types *)

\* Recording an event in an entry gives an entry.
LEMMA HeardType ==
    ASSUME NEW st \in Entry, NEW d \in Directions, NEW t \in Time
    PROVE  Heard(st, d, t) \in Entry
BY DEF Heard, Entry

\* Counting verdicts keeps the counters natural numbers.
LEMMA CountedType ==
    ASSUME NEW counts \in [Reasons -> Nat], NEW rs
    PROVE  Counted(counts, rs) \in [Reasons -> Nat]
BY DEF Counted

\* An absent entry is an entry.
LEMMA AbsentType == Absent \in Entry
BY DEF Absent, Entry

\* Every step of Handle, of a sweep and of the clock keeps the types.
LEMMA NextTypeOK == TypeOK /\ [Next]_vars => TypeOK'
<1> SUFFICES ASSUME TypeOK, [Next]_vars PROVE TypeOK'
    OBVIOUS
<1> USE AbsentType DEF TypeOK
<1>1. ASSUME NEW c \in Channels, NEW d \in Directions, RtcpArrives(c, d)
      PROVE  TypeOK'
  <2>1. Heard(told[c], d, now) \in Entry
    BY HeardType
  <2>2. told' \in [Channels -> Entry]
    BY <1>1, <2>1 DEF RtcpArrives
  <2>3. loss' \in SUBSET (Channels \cup {NoChannel})
    BY <1>1 DEF RtcpArrives
  <2> QED
    BY <1>1, <2>2, <2>3 DEF RtcpArrives
<1>2. ASSUME NEW c \in Channels, HangupArrives(c) PROVE TypeOK'
  BY <1>2 DEF HangupArrives
<1>3. CASE RtcpRecorded
  <2>1. Recorded(entries[chan], dir, read) \in Entry
    BY <1>3, HeardType DEF RtcpRecorded, Recorded
  <2>2. entries' \in [Channels -> Entry]
    BY <1>3, <2>1 DEF RtcpRecorded
  <2> QED
    BY <1>3, <2>2 DEF RtcpRecorded, HandleReturns
<1>4. CASE HangupTaken
  <2>1. due' \in [Reasons -> Nat]
    BY <1>4, CountedType DEF HangupTaken
  <2>2. entries' \in [Channels -> Entry] /\ told' \in [Channels -> Entry]
    BY <1>4 DEF HangupTaken, RemovedAtHangup
  <2>3. /\ at' \in {"idle", "judge"} /\ taken' \in Entry /\ read' \in Time
        /\ dir' \in Directions
        /\ chan' \in Channels \cup {NoChannel} /\ (at' # "idle" => chan' \in Channels)
    BY <1>4 DEF HangupTaken, HandleReturns
  <2>4. cut' \in SUBSET Channels /\ blind' \in Nat
    BY <1>4 DEF HangupTaken
  <2> QED
    BY <1>4, <2>1, <2>2, <2>3, <2>4 DEF HangupTaken
<1>5. CASE HangupJudged
  <2>1. oneWay' \in [Reasons -> Nat]
    BY <1>5, CountedType DEF HangupJudged
  <2> QED
    BY <1>5, <2>1 DEF HangupJudged, HandleReturns
<1>6. ASSUME NEW s \in Scrapers, GcReadsClock(s) PROVE TypeOK'
  BY <1>6 DEF GcReadsClock, Cutoff
<1>7. ASSUME NEW s \in Scrapers, GcSweeps(s) PROVE TypeOK'
  <2>1. entries' \in [Channels -> Entry]
    BY <1>7 DEF GcSweeps
  <2>2. cutoff' \in [Scrapers -> Int]
    BY <1>7 DEF GcSweeps
  <2> QED
    BY <1>7, <2>1, <2>2 DEF GcSweeps
<1>8. CASE Tick
  BY <1>8 DEF Tick
<1>9. CASE UNCHANGED vars
  BY <1>9 DEF vars
<1>10. CASE RtcpUnnamed
  BY <1>10 DEF RtcpUnnamed
<1> QED
  BY <1>1, <1>2, <1>3, <1>4, <1>5, <1>6, <1>7, <1>8, <1>9, <1>10
  DEF Next, Arrives, Handling, Sweeping

\* Every reachable state of the aggregator is well typed.
THEOREM TypeCorrect == Spec => []TypeOK
<1>1. Init => TypeOK
  BY AbsentType DEF Init, TypeOK
<1> QED
  BY <1>1, NextTypeOK, PTL DEF Spec

-----------------------------------------------------------------------------
(* The map tells each call's own history *)

\* An entry no sweep has cut is what the events of its call said, or lacks
\* exactly the one event whose handler waits for the lock.
EntryInv ==
    \A c \in Channels \ cut :
        IF at = "rtcp" /\ chan = c THEN told[c] = Heard(entries[c], dir, read)
                                   ELSE entries[c] = told[c]

\* No interleaving of Handle with sweeps breaks EntryInv.
LEMMA NextEntryInv == TypeOK /\ EntryInv /\ [Next]_vars => EntryInv'
<1> SUFFICES ASSUME TypeOK, EntryInv, [Next]_vars PROVE EntryInv'
    OBVIOUS
<1> USE DEF TypeOK, EntryInv
<1>1. ASSUME NEW c \in Channels, NEW d \in Directions, RtcpArrives(c, d)
      PROVE  EntryInv'
  BY <1>1 DEF RtcpArrives
<1>2. ASSUME NEW c \in Channels, HangupArrives(c) PROVE EntryInv'
  BY <1>2 DEF HangupArrives
<1>3. CASE RtcpRecorded
  BY <1>3 DEF RtcpRecorded, Recorded, HandleReturns
<1>4. CASE HangupTaken
  <2>1. /\ entries' = [entries EXCEPT ![chan] = Absent]
        /\ told' = [told EXCEPT ![chan] = Absent]
        /\ cut' = cut \ {chan} /\ at' # "rtcp" /\ at = "hangup"
    BY <1>4 DEF HangupTaken, RemovedAtHangup, HandleReturns
  <2> QED
    BY <2>1
<1>5. CASE HangupJudged
  BY <1>5 DEF HangupJudged, HandleReturns
<1>6. ASSUME NEW s \in Scrapers, GcReadsClock(s) PROVE EntryInv'
  BY <1>6 DEF GcReadsClock
<1>7. ASSUME NEW s \in Scrapers, GcSweeps(s) PROVE EntryInv'
  <2>1. \A c \in Channels \ cut' : c \notin cut /\ entries'[c] = entries[c]
    BY <1>7 DEF GcSweeps
  <2> QED
    BY <1>7, <2>1 DEF GcSweeps
<1>8. CASE Tick
  BY <1>8 DEF Tick
<1>9. CASE UNCHANGED vars
  BY <1>9 DEF vars
<1>10. CASE RtcpUnnamed
  BY <1>10 DEF RtcpUnnamed
<1> QED
  BY <1>1, <1>2, <1>3, <1>4, <1>5, <1>6, <1>7, <1>8, <1>9, <1>10
  DEF Next, Arrives, Handling, Sweeping

\* EntryInv holds in every reachable state.
LEMMA EntryCorrect == Spec => []EntryInv
<1>1. Init => EntryInv
  BY DEF Init, EntryInv
<1> QED
  BY <1>1, TypeCorrect, NextEntryInv, PTL DEF Spec

\* However Handle interleaves with any number of concurrent sweeps, and however
\* Asterisk reuses channel names, an entry no sweep has cut holds the events
\* since its own channel's last Hangup and no others.
THEOREM EntriesTellCalls == Spec => []EntryTellsCall
<1>1. EntryInv => EntryTellsCall
  BY DEF EntryInv, EntryTellsCall
<1> QED
  BY <1>1, EntryCorrect, PTL

-----------------------------------------------------------------------------
(* The one-way counter *)

\* handleHangup's two comparisons and its switch reach the verdict the options
\* promise: nothing below the floor, then the direction that was never heard.
LEMMA VerdictDeserved ==
    ASSUME NEW st \in Entry, NEW t \in Time
    PROVE  Verdict(st, t) = Deserved(st, t)
<1> SUFFICES ASSUME NEW r \in Reasons
             PROVE  r \in Verdict(st, t) <=> r \in Deserved(st, t)
    BY DEF Verdict, Deserved
<1>1. t - st.first >= MinCall <=> ~(t < st.first + MinCall)
  BY DEF Entry
<1>2. st.seen = HeardOnly[r] <=> st.seen # {} /\ Missing[r] \notin st.seen
  BY DEF Entry, HeardOnly, Missing
<1> QED
  BY <1>1, <1>2 DEF Verdict, Deserved

\* Counting a verdict adds 1 to its reasons and nothing to the others.
LEMMA CountedValue ==
    ASSUME NEW counts \in [Reasons -> Nat], NEW rs, NEW r \in Reasons
    PROVE  Counted(counts, rs)[r] = IF r \in rs THEN counts[r] + 1 ELSE counts[r]
BY DEF Counted

\* The verdict Handle has reached and not yet counted.
Pending(r) == at = "judge" /\ r \in Verdict(taken, read)
Reached(r) == IF Pending(r) THEN oneWay[r] + 1 ELSE oneWay[r]

\* Counted and pending verdicts differ from the due ones by at most blind.
VerdictInv ==
    \A r \in Reasons : Reached(r) - due[r] <= blind /\ due[r] - Reached(r) <= blind

\* No step lets the two counts drift apart without a call cut by a sweep.
LEMMA NextVerdictInv ==
    TypeOK /\ EntryInv /\ VerdictInv /\ [Next]_vars => VerdictInv'
<1> SUFFICES ASSUME TypeOK, EntryInv, VerdictInv, [Next]_vars PROVE VerdictInv'
    OBVIOUS
<1> USE DEF TypeOK, VerdictInv, Reached, Pending
<1>1. ASSUME NEW c \in Channels, NEW d \in Directions, RtcpArrives(c, d)
      PROVE  VerdictInv'
  BY <1>1 DEF RtcpArrives
<1>2. ASSUME NEW c \in Channels, HangupArrives(c) PROVE VerdictInv'
  BY <1>2 DEF HangupArrives
<1>3. CASE RtcpRecorded
  BY <1>3 DEF RtcpRecorded, HandleReturns
<1>4. CASE HangupTaken
  <2> SUFFICES ASSUME NEW r \in Reasons
               PROVE  /\ Reached(r)' - due'[r] <= blind'
                      /\ due'[r] - Reached(r)' <= blind'
    OBVIOUS
  <2>1. Reached(r)' = IF r \in Verdict(entries[chan], read) THEN oneWay[r] + 1
                                                            ELSE oneWay[r]
    <3>1. CASE Verdict(entries[chan], read) = {}
      BY <1>4, <3>1 DEF HangupTaken, HandleReturns
    <3>2. CASE Verdict(entries[chan], read) # {}
      <4>1. at' = "judge" /\ taken' = entries[chan] /\ read' = read /\ oneWay' = oneWay
        BY <1>4, <3>2 DEF HangupTaken
      <4> QED
        BY <4>1 DEF Verdict
    <3> QED
      BY <3>1, <3>2
  <2>2. due'[r] = IF r \in Verdict(told[chan], read) THEN due[r] + 1 ELSE due[r]
    BY <1>4, CountedValue, VerdictDeserved DEF HangupTaken
  <2>3. Reached(r) = oneWay[r]
    BY <1>4 DEF HangupTaken
  <2>4. CASE chan \in cut
    <3>1. blind' = blind + 1
      BY <1>4, <2>4 DEF HangupTaken
    <3> HIDE DEF Reached
    <3> QED
      BY <2>1, <2>2, <2>3, <3>1
  <2>5. CASE chan \notin cut
    <3>1. blind' = blind
      BY <1>4, <2>5 DEF HangupTaken
    <3>2. entries[chan] = told[chan]
      BY <1>4, <2>5 DEF HangupTaken, EntryInv
    <3> HIDE DEF Reached
    <3> QED
      BY <2>1, <2>2, <2>3, <3>1, <3>2
  <2> QED
    BY <2>4, <2>5
<1>5. CASE HangupJudged
  <2> SUFFICES ASSUME NEW r \in Reasons
               PROVE  Reached(r)' = Reached(r) /\ due' = due /\ blind' = blind
    OBVIOUS
  <2>1. oneWay'[r] = IF r \in Verdict(taken, read) THEN oneWay[r] + 1 ELSE oneWay[r]
    BY <1>5, CountedValue DEF HangupJudged
  <2> QED
    BY <1>5, <2>1 DEF HangupJudged, HandleReturns
<1>6. ASSUME NEW s \in Scrapers, GcReadsClock(s) PROVE VerdictInv'
  BY <1>6 DEF GcReadsClock, Verdict
<1>7. ASSUME NEW s \in Scrapers, GcSweeps(s) PROVE VerdictInv'
  BY <1>7 DEF GcSweeps, Verdict
<1>8. CASE Tick
  BY <1>8 DEF Tick, Verdict
<1>9. CASE UNCHANGED vars
  BY <1>9 DEF vars, Verdict
<1>10. CASE RtcpUnnamed
  BY <1>10 DEF RtcpUnnamed, Verdict
<1> QED
  BY <1>1, <1>2, <1>3, <1>4, <1>5, <1>6, <1>7, <1>8, <1>9, <1>10
  DEF Next, Arrives, Handling, Sweeping

\* For any channels, options and concurrent scrapes, the one-way counter is off
\* by at most the number of ended calls that a TTL sweep had cut short; with no
\* such call it is exact.
THEOREM VerdictsCorrect == Spec => []VerdictErrorBounded
<1>1. Init => VerdictInv
  BY DEF Init, VerdictInv, Reached, Pending
<1>2. VerdictInv => VerdictErrorBounded
  BY DEF VerdictInv, VerdictErrorBounded, Reached, Pending
<1> QED
  BY <1>1, <1>2, TypeCorrect, EntryCorrect, NextVerdictInv, PTL DEF Spec

-----------------------------------------------------------------------------
(* What a sweep may forget *)

\* A cutoff is never younger than the TTL allows, however long the sweep waits
\* for the lock; and an entry's lastSeen is its channel's last event.
SweepInv ==
    /\ \A s \in sweeping : cutoff[s] <= now - TTL
    /\ \A c \in Channels : entries[c].seen # {} /\ ~(at = "rtcp" /\ chan = c)
                              => entries[c].last = told[c].last
    /\ at = "rtcp" => told[chan].last = read

\* No step breaks SweepInv: the clock only moves forward.
LEMMA NextSweepInv == TypeOK /\ SweepInv /\ [Next]_vars => SweepInv'
<1> SUFFICES ASSUME TypeOK, SweepInv, [Next]_vars PROVE SweepInv'
    OBVIOUS
<1> USE DEF TypeOK, SweepInv
<1>1. ASSUME NEW c \in Channels, NEW d \in Directions, RtcpArrives(c, d)
      PROVE  SweepInv'
  BY <1>1 DEF RtcpArrives, Heard
<1>2. ASSUME NEW c \in Channels, HangupArrives(c) PROVE SweepInv'
  BY <1>2 DEF HangupArrives
<1>3. CASE RtcpRecorded
  <2>1. entries' = [entries EXCEPT ![chan] = Heard(@, dir, read)]
    BY <1>3 DEF RtcpRecorded, Recorded
  <2> QED
    BY <1>3, <2>1 DEF RtcpRecorded, HandleReturns, Heard
<1>4. CASE HangupTaken
  BY <1>4 DEF HangupTaken, HandleReturns, RemovedAtHangup, Absent
<1>5. CASE HangupJudged
  BY <1>5 DEF HangupJudged, HandleReturns
<1>6. ASSUME NEW s \in Scrapers, GcReadsClock(s) PROVE SweepInv'
  BY <1>6 DEF GcReadsClock, Cutoff
<1>7. ASSUME NEW s \in Scrapers, GcSweeps(s) PROVE SweepInv'
  BY <1>7 DEF GcSweeps, Absent
<1>8. CASE Tick
  BY <1>8 DEF Tick
<1>9. CASE UNCHANGED vars
  BY <1>9 DEF vars
<1>10. CASE RtcpUnnamed
  BY <1>10 DEF RtcpUnnamed
<1> QED
  BY <1>1, <1>2, <1>3, <1>4, <1>5, <1>6, <1>7, <1>8, <1>9, <1>10
  DEF Next, Arrives, Handling, Sweeping

\* However long a sweep is held up between its clock reading and the lock, and
\* whatever other scrapes do meanwhile, it deletes only channels silent for
\* more than the TTL.
THEOREM ForgettingCorrect == Spec => ForgetsOnlyIdle
<1> DEFINE Forgets ==
      \A c \in Channels :
          entries[c].seen # {} /\ entries'[c].seen = {} =>
              \/ at = "hangup" /\ chan = c
              \/ at = "rtcp" /\ chan = c
              \/ told[c].last < now - TTL
<1>1. Init => SweepInv
  BY DEF Init, SweepInv, Absent
<1>2. TypeOK /\ SweepInv /\ [Next]_vars => [Forgets]_vars
  <2> SUFFICES ASSUME TypeOK, SweepInv, Next PROVE Forgets
      OBVIOUS
  <2> USE DEF TypeOK
  <2>1. ASSUME NEW c \in Channels, NEW d \in Directions, RtcpArrives(c, d)
        PROVE  Forgets
    BY <2>1 DEF RtcpArrives
  <2>2. CASE RtcpRecorded
    BY <2>2 DEF RtcpRecorded
  <2>3. CASE HangupTaken
    BY <2>3 DEF HangupTaken, RemovedAtHangup
  <2>4. CASE HangupJudged
    BY <2>4 DEF HangupJudged
  <2>5. ASSUME NEW s \in Scrapers, GcReadsClock(s) PROVE Forgets
    BY <2>5 DEF GcReadsClock
  <2>6. ASSUME NEW s \in Scrapers, GcSweeps(s) PROVE Forgets
    <3> SUFFICES ASSUME NEW c \in Channels, entries[c].seen # {},
                        entries'[c].seen = {}, ~(at = "rtcp" /\ chan = c)
                 PROVE  told[c].last < now - TTL
        OBVIOUS
    <3>1. entries[c].last < cutoff[s]
      BY <2>6 DEF GcSweeps, Stale
    <3>2. cutoff[s] <= now - TTL /\ entries[c].last = told[c].last
      BY <2>6 DEF GcSweeps, SweepInv
    <3> QED
      BY <3>1, <3>2 DEF Entry
  <2>7. CASE Tick
    BY <2>7 DEF Tick
  <2>8. ASSUME NEW c \in Channels, HangupArrives(c) PROVE Forgets
    BY <2>8 DEF HangupArrives
  <2>9. CASE RtcpUnnamed
    BY <2>9 DEF RtcpUnnamed
  <2> QED
    BY <2>1, <2>2, <2>3, <2>4, <2>5, <2>6, <2>7, <2>8, <2>9
    DEF Next, Arrives, Handling, Sweeping
<1> QED
  BY <1>1, <1>2, TypeCorrect, NextSweepInv, PTL DEF Spec, ForgetsOnlyIdle
=============================================================================
