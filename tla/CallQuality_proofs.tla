-------------------------- MODULE CallQuality_proofs --------------------------
(***************************************************************************)
(* Proofs about CallQuality: it is a composition.  What the aggregator and *)
(* the session do in it are steps of Aggregator and of Session, so what is *)
(* proved of each holds of the two together, for any channels and calls.   *)
(***************************************************************************)
EXTENDS CallQuality, Aggregator_proofs, FiniteSetTheorems, SequenceTheorems

USE OptionsAssumption, BoundAssumption, NoChannelAssumption, CallBoundsAssumption
USE DEF session, pbx, Directions

-----------------------------------------------------------------------------
(* Messages and calls *)

\* Only calls that have begun are on the stream, and talk.
StreamInv ==
    /\ unread \in Seq(Report)
    /\ calls \in [Channels -> 0..MaxCalls] /\ talking \subseteq Channels
    /\ \A c \in talking : calls[c] > 0
    /\ state \in {"down", "up", "ending"} /\ trying \in BOOLEAN

\* What is reported is a message of a call in progress.
LEMMA ReportType ==
    ASSUME StreamInv, NEW c \in talking, NEW what \in Directions \cup {"hangup"}
    PROVE  [chan |-> c, call |-> calls[c], what |-> what] \in Report
  BY DEF StreamInv, Report

\* A report leaves messages on the stream as they should be.
LEMMA ReportsKeepsType ==
    ASSUME StreamInv, NEW c \in talking, NEW what \in Directions \cup {"hangup"}, Reports(c, what)
    PROVE  unread' \in Seq(Report) /\ state' = state /\ trying' = trying
<1> DEFINE m == [chan |-> c, call |-> calls[c], what |-> what]
<1>1. m \in Report
  BY ReportType
<1> HIDE DEF m
<1>2. S!Send(m) \/ UNCHANGED session
  BY DEF Reports, m
<1>3. Append(unread, m) \in Seq(Report)
  BY <1>1, AppendProperties DEF StreamInv
<1> QED
  BY <1>2, <1>3 DEF S!Send, StreamInv

\* Every step keeps StreamInv.
LEMMA NextStreamInv == StreamInv /\ [NextCalls]_allVars => StreamInv'
<1> SUFFICES ASSUME StreamInv, [NextCalls]_allVars PROVE StreamInv'
    OBVIOUS
<1>1. ASSUME NEW c \in Channels, Rings(c) PROVE StreamInv'
  BY <1>1 DEF Rings, StreamInv
<1>2. ASSUME NEW c \in Channels, HangsUp(c) PROVE StreamInv'
  BY <1>2, ReportsKeepsType DEF HangsUp, StreamInv
<1>3. ASSUME NEW c \in Channels, NEW d \in Directions, RtcpSeen(c, d) PROVE StreamInv'
  BY <1>3, ReportsKeepsType DEF RtcpSeen, StreamInv
<1>4. CASE Handed
  <2>1. unread # <<>> /\ unread' = Tail(unread) /\ state' = state /\ trying' = trying
    BY <1>4 DEF Handed, S!Deliver
  <2>2. Tail(unread) \in Seq(Report)
    BY <2>1, HeadTailProperties DEF StreamInv
  <2> QED
    BY <1>4, <2>1, <2>2 DEF Handed, StreamInv
<1>5. CASE Reconnects
  BY <1>5 DEF Reconnects, S!Retry, S!GivesUp, S!Connect, S!Drop, S!counts, StreamInv
<1>6. ASSUME NEW kept \in 0..Len(unread), Loses(kept) PROVE StreamInv'
  <2>1. SubSeq(unread, 1, kept) \in Seq(Report)
    <3>1. \A j \in 1..kept : unread[j] \in Report
      BY DEF StreamInv
    <3> QED
      BY <3>1, SubSeqProperties DEF StreamInv
  <2>2. unread' \in Seq(Report) /\ state' \in {"down", "up", "ending"} /\ trying' = trying
    <3>1. CASE S!Lose(kept)
      <4>1. unread' = SubSeq(unread, 1, kept) /\ state' = state /\ trying' = trying
        BY <3>1 DEF S!Lose
      <4> QED
        BY <2>1, <4>1 DEF StreamInv
    <3>2. CASE S!Release
      <4>1. unread' = <<>> /\ state' = "down" /\ trying' = trying
        BY <3>2 DEF S!Release
      <4> QED
        BY <4>1
    <3> QED
      BY <1>6, <3>1, <3>2 DEF Loses
  <2> QED
    BY <1>6, <2>2 DEF Loses, StreamInv
<1>7. CASE Handles \/ TimePasses \/ \E s \in Scrapers : Scraped(s)
  BY <1>7 DEF Handles, TimePasses, Scraped, StreamInv
<1>8. CASE UNCHANGED allVars
  BY <1>8 DEF allVars, StreamInv
<1> QED
  BY <1>1, <1>2, <1>3, <1>4, <1>5, <1>6, <1>7, <1>8 DEF NextCalls

\* It holds from the start.
LEMMA StreamCorrect == SpecCalls => []StreamInv
<1>1. InitCalls => StreamInv
  BY DEF InitCalls, S!Init, StreamInv
<1> QED
  BY <1>1, NextStreamInv, PTL DEF SpecCalls

-----------------------------------------------------------------------------
(* The parts of the composition *)

\* The aggregator takes a step of its own, or none.
LEMMA StepsOfAggregator == StreamInv /\ [NextCalls]_allVars => [Next]_vars
<1> SUFFICES ASSUME StreamInv, [NextCalls]_allVars PROVE [Next]_vars
    OBVIOUS
<1>1. CASE \/ \E c \in Channels : Rings(c) \/ HangsUp(c) \/ \E d \in Directions : RtcpSeen(c, d)
           \/ Reconnects \/ \E kept \in 0..Len(unread) : Loses(kept)
           \/ UNCHANGED allVars
  BY <1>1 DEF Rings, HangsUp, RtcpSeen, Reconnects, Loses, allVars
<1>2. CASE Handed
  <2> DEFINE m == Head(unread)
  <2>1. m \in Report
    BY <1>2, HeadTailProperties DEF Handed, S!Deliver, StreamInv
  <2>2. m.chan \in Channels /\ m.what \in Directions \cup {"hangup"}
    BY <2>1 DEF Report
  <2>3. IF m.what = "hangup" THEN HangupArrives(m.chan) ELSE RtcpArrives(m.chan, m.what)
    BY <1>2 DEF Handed
  <2> HIDE DEF m
  <2>4. CASE m.what = "hangup"
    BY <2>2, <2>3, <2>4 DEF Next, Arrives
  <2>5. CASE m.what # "hangup"
    <3>1. m.what \in Directions
      BY <2>2, <2>5
    <3> QED
      BY <2>2, <2>3, <2>5, <3>1 DEF Next, Arrives
  <2> QED
    BY <2>4, <2>5
<1>3. CASE Handles \/ TimePasses \/ \E s \in Scrapers : Scraped(s)
  BY <1>3 DEF Handles, TimePasses, Scraped, Next
<1> QED
  BY <1>1, <1>2, <1>3 DEF NextCalls

\* Whatever the stream loses, the aggregator in the composition is Aggregator.
THEOREM CallsUseAggregator == SpecCalls => Spec
<1>1. InitCalls => Init
  BY DEF InitCalls
<1> QED
  BY <1>1, StreamCorrect, StepsOfAggregator, PTL DEF SpecCalls, Spec

\* The stream takes a step of Session, or none.
LEMMA StepsOfSession == StreamInv /\ [NextCalls]_allVars => [S!Next]_S!vars
<1> SUFFICES ASSUME StreamInv, [NextCalls]_allVars PROVE [S!Next]_S!vars
    OBVIOUS
<1> USE DEF S!vars, S!counts
<1>r. ASSUME NEW c \in talking, NEW what \in Directions \cup {"hangup"}, Reports(c, what)
      PROVE  [S!Next]_S!vars
  <2>1. [chan |-> c, call |-> calls[c], what |-> what] \in Report
    BY ReportType
  <2> QED
    BY <1>r, <2>1 DEF Reports, S!Next
<1>1. CASE \E c \in Channels : HangsUp(c) \/ \E d \in Directions : RtcpSeen(c, d)
  <2>1. PICK c \in Channels : HangsUp(c) \/ \E d \in Directions : RtcpSeen(c, d)
    BY <1>1
  <2>2. PICK what \in Directions \cup {"hangup"} : c \in talking /\ Reports(c, what)
    BY <2>1 DEF HangsUp, RtcpSeen
  <2> QED
    BY <1>r, <2>2
<1>2. CASE Handed
  BY <1>2 DEF Handed, S!Next
<1>3. CASE Reconnects
  BY <1>3 DEF Reconnects, S!Next
<1>4. ASSUME NEW kept \in 0..Len(unread), Loses(kept) PROVE [S!Next]_S!vars
  BY <1>4 DEF Loses, S!Next
<1>5. CASE \/ \E c \in Channels : Rings(c)
           \/ Handles \/ TimePasses \/ (\E s \in Scrapers : Scraped(s)) \/ UNCHANGED allVars
  BY <1>5 DEF Rings, Handles, TimePasses, Scraped, allVars
<1> QED
  BY <1>1, <1>2, <1>3, <1>4, <1>5 DEF NextCalls

\* The stream in the composition is Session, which EventStream implements.
THEOREM CallsUseSession == SpecCalls => S!Spec
<1>1. InitCalls => S!Init
  BY DEF InitCalls
<1> QED
  BY <1>1, StreamCorrect, StepsOfSession, PTL DEF SpecCalls, S!Spec

-----------------------------------------------------------------------------
(* Types *)

\* The history's types.
HistoryTypeOK ==
    /\ truth \in [Channels -> Entry] /\ meant \in [Reasons -> Nat]
    /\ spoilt \subseteq Channels \X (1..(MaxCalls + 1))

\* A message spoils calls of its channel.
LEMMA SpoiltByType ==
    ASSUME NEW m \in Report
    PROVE  SpoiltBy(m) \subseteq Channels \X (1..(MaxCalls + 1))
  BY DEF SpoiltBy, Report

\* Every step keeps them.
LEMMA NextHistoryType ==
    TypeOK /\ StreamInv /\ HistoryTypeOK /\ [NextCalls]_allVars => HistoryTypeOK'
<1> SUFFICES ASSUME TypeOK, StreamInv, HistoryTypeOK, [NextCalls]_allVars PROVE HistoryTypeOK'
    OBVIOUS
<1>r. ASSUME NEW c \in talking, NEW what \in Directions \cup {"hangup"}, Reports(c, what)
      PROVE  spoilt' \subseteq Channels \X (1..(MaxCalls + 1))
  <2> DEFINE m == [chan |-> c, call |-> calls[c], what |-> what]
  <2>1. SpoiltBy(m) \subseteq Channels \X (1..(MaxCalls + 1))
    BY ReportType, SpoiltByType
  <2>2. spoilt' = spoilt \/ spoilt' = spoilt \cup SpoiltBy(m)
    BY <1>r DEF Reports
  <2> HIDE DEF m
  <2> QED
    BY <2>1, <2>2 DEF HistoryTypeOK
<1>1. ASSUME NEW c \in Channels, HangsUp(c) PROVE HistoryTypeOK'
  <2>1. Counted(meant, Deserved(truth[c], now)) \in [Reasons -> Nat]
    BY CountedType DEF HistoryTypeOK
  <2>2. truth' \in [Channels -> Entry]
    BY <1>1, AbsentType DEF HangsUp, HistoryTypeOK
  <2>3. spoilt' \subseteq Channels \X (1..(MaxCalls + 1))
    BY <1>1, <1>r DEF HangsUp
  <2> QED
    BY <1>1, <2>1, <2>2, <2>3 DEF HangsUp, HistoryTypeOK
<1>2. ASSUME NEW c \in Channels, NEW d \in Directions, RtcpSeen(c, d) PROVE HistoryTypeOK'
  <2>1. Heard(truth[c], d, now) \in Entry
    BY HeardType DEF HistoryTypeOK, TypeOK
  <2>2. truth' \in [Channels -> Entry]
    BY <1>2, <2>1 DEF RtcpSeen, HistoryTypeOK
  <2>3. spoilt' \subseteq Channels \X (1..(MaxCalls + 1))
    BY <1>2, <1>r DEF RtcpSeen
  <2> QED
    BY <1>2, <2>2, <2>3 DEF RtcpSeen, HistoryTypeOK
<1>3. ASSUME NEW kept \in 0..Len(unread), Loses(kept) PROVE HistoryTypeOK'
  <2> DEFINE gone == SubSeq(unread, kept + 1, Len(unread))
  <2>1. gone \in Seq(Report)
    <3>1. \A j \in kept + 1..Len(unread) : unread[j] \in Report
      BY DEF StreamInv
    <3> QED
      BY <3>1, SubSeqProperties DEF StreamInv
  <2>2. SpoiltByAll(gone) \subseteq Channels \X (1..(MaxCalls + 1))
    <3> HIDE DEF gone
    <3>1. \A i \in DOMAIN gone : SpoiltBy(gone[i]) \subseteq Channels \X (1..(MaxCalls + 1))
      BY <2>1, SpoiltByType
    <3> QED
      BY <3>1 DEF SpoiltByAll
  <2>3. spoilt' = spoilt \cup SpoiltByAll(gone) /\ UNCHANGED <<truth, meant>>
    BY <1>3 DEF Loses
  <2> HIDE DEF gone
  <2> QED
    BY <2>2, <2>3 DEF HistoryTypeOK
<1>4. CASE \/ \E c \in Channels : Rings(c)
           \/ Handed \/ Reconnects \/ Handles \/ TimePasses
           \/ (\E s \in Scrapers : Scraped(s)) \/ UNCHANGED allVars
  BY <1>4 DEF Rings, Handed, Reconnects, Handles, TimePasses, Scraped, allVars, HistoryTypeOK
<1> QED
  BY <1>1, <1>2, <1>3, <1>4 DEF NextCalls

\* Handle runs in its session.
HandlerInv == at # "idle" => state = "up"

\* Nothing ends a session while Handle runs, and only an open one hands it a message.
LEMMA NextHandlerInv == HandlerInv /\ [NextCalls]_allVars => HandlerInv'
<1> SUFFICES ASSUME HandlerInv, [NextCalls]_allVars PROVE HandlerInv'
    OBVIOUS
<1> USE DEF HandlerInv, handler, gc, history, vars
<1>1. ASSUME NEW c \in Channels, NEW what, Reports(c, what) PROVE state' = state
  BY <1>1 DEF Reports, S!Send
<1>2. CASE \E c \in Channels : Rings(c) \/ HangsUp(c) \/ \E d \in Directions : RtcpSeen(c, d)
  BY <1>1, <1>2 DEF Rings, HangsUp, RtcpSeen
<1>3. CASE Handed
  BY <1>3 DEF Handed, S!Deliver
<1>4. CASE Reconnects
  BY <1>4 DEF Reconnects, HandlerDone
<1>5. ASSUME NEW kept \in 0..Len(unread), Loses(kept) PROVE HandlerInv'
  BY <1>5 DEF Loses, HandlerDone, S!Lose
<1>6. CASE Handles
  BY <1>6 DEF Handles, Handling, RtcpRecorded, HangupTaken, HangupJudged, HandleReturns
<1>7. CASE TimePasses \/ \E s \in Scrapers : Scraped(s)
  BY <1>7 DEF TimePasses, Tick, Scraped, Sweeping, GcReadsClock, GcSweeps
<1>8. CASE UNCHANGED allVars
  BY <1>8 DEF allVars
<1> QED
  BY <1>2, <1>3, <1>4, <1>5, <1>6, <1>7, <1>8 DEF NextCalls

\* Calls, messages and history stay what they are declared to be, and Handle runs
\* only while the session that handed it its message is up.
THEOREM CallsTypeCorrect == SpecCalls => []TypeOKCalls
<1>1. InitCalls => HistoryTypeOK /\ HandlerInv
  BY AbsentType DEF InitCalls, Init, HistoryTypeOK, HandlerInv
<1>2. StreamInv /\ HistoryTypeOK /\ HandlerInv => TypeOKCalls
  BY DEF TypeOKCalls, StreamInv, HistoryTypeOK, HandlerInv
<1> QED
  BY <1>1, <1>2, NextHistoryType, NextHandlerInv, StreamCorrect, CallsUseAggregator, TypeCorrect, PTL
  DEF SpecCalls

-----------------------------------------------------------------------------
(* What the messages on the way still say of each call.  They arrive when  *)
(* they are sent, as far as the clock tells, so an entry and the unread    *)
(* messages of q together tell a call's whole history.                     *)

Has(q, c, k, w) == \E i \in DOMAIN q : q[i].chan = c /\ q[i].call = k /\ q[i].what = w
Earlier(q, c, k) == \E i \in DOMAIN q : q[i].chan = c /\ q[i].call < k

\* What will be known of call k of c when its messages have arrived.  What is known
\* of c, st, is of call k unless messages of an earlier call are on the way.
WillTell(q, st, t, c, k) ==
    [seen |-> {d \in Directions : Has(q, c, k, d)}
                  \cup (IF Earlier(q, c, k) THEN {} ELSE st.seen),
     first |-> IF ~Earlier(q, c, k) /\ st.seen # {} THEN st.first ELSE t]

\* Two entries that say the same of a call.
Alike(a, b) == a.seen = b.seen /\ (a.seen # {} => a.first = b.first)

\* What the aggregator knows of c, and what will have been due.  A Hangup counts from
\* its arrival: nothing can come between it and the verdict.
known == [c \in Channels |-> IF at = "hangup" /\ chan = c THEN Absent ELSE told[c]]
dueSoon == IF at = "hangup" THEN Counted(due, Verdict(told[chan], read)) ELSE due

\* The call in progress on c, or the next one.
nextCall == [c \in Channels |-> IF c \in talking THEN calls[c] ELSE calls[c] + 1]

-----------------------------------------------------------------------------
(* The inductive invariant *)

\* The messages of a channel are in the order of its calls, a Hangup last.
OrderInv ==
    /\ \A i \in DOMAIN unread :
          /\ unread[i].call <= calls[unread[i].chan]
          /\ unread[i].what = "hangup" => unread[i].call < nextCall[unread[i].chan]
    /\ \A i, j \in DOMAIN unread :
          i < j /\ unread[i].chan = unread[j].chan =>
              /\ unread[i].call <= unread[j].call
              /\ unread[i].what = "hangup" => unread[i].call < unread[j].call

\* Behind a message of a call, the Hangups of that call and of the later ones are
\* on the way, unless they were lost.
FollowInv ==
    \A i \in DOMAIN unread, k \in 1..MaxCalls :
        LET c == unread[i].chan
        IN  /\ unread[i].call <= k /\ k < nextCall[c]
            /\ <<c, k>> \notin spoilt \/ <<c, k + 1>> \notin spoilt
            => Has(unread, c, k, "hangup")

\* Of the call in progress the aggregator will know the truth, unless it is spoilt.
TruthInv ==
    \A c \in Channels :
        <<c, nextCall[c]>> \notin spoilt =>
            Alike(WillTell(unread, known[c], now, c, nextCall[c]), truth[c])

\* The calls that will be judged, by verdict; those that will not be judged as they
\* should; and among these the ones that have been judged or never will.
coming == [r \in Reasons |->
    {id \in Ended \ spoilt :
        /\ Has(unread, id[1], id[2], "hangup")
        /\ r \in Verdict(WillTell(unread, known[id[1]], now, id[1], id[2]), now)}]
wrong == spoilt \cap Ended
settled == {id \in wrong : ~Has(unread, id[1], id[2], "hangup")}

\* d verdicts are reached, m meant, and the calls of C still to be judged so.
Balanced(d, m, C, done, off) ==
    /\ IsFiniteSet(C)
    /\ d - m + Cardinality(C) <= Cardinality(done)
    /\ m - d - Cardinality(C) <= Cardinality(off)

\* The verdicts reached and those to come are the ones meant, but for the calls spoilt.
CountInv ==
    /\ IsFiniteSet(spoilt)
    /\ \A r \in Reasons : Balanced(dueSoon[r], meant[r], coming[r], settled, wrong)

\* The clock stands still while Handle runs.
ReadInv == at # "idle" => read = now

CallsInv == OrderInv /\ FollowInv /\ TruthInv /\ CountInv /\ ReadInv

-----------------------------------------------------------------------------
(* Messages sent, taken and lost *)

\* What is on the way when one more message is sent.
LEMMA HasAppend ==
    ASSUME NEW q \in Seq(Report), NEW m \in Report
    PROVE  /\ \A c, k, w : Has(Append(q, m), c, k, w) <=>
                              Has(q, c, k, w) \/ (m.chan = c /\ m.call = k /\ m.what = w)
           /\ \A c, k : Earlier(Append(q, m), c, k) <=> Earlier(q, c, k) \/ (m.chan = c /\ m.call < k)
<1>1. /\ DOMAIN Append(q, m) = 1..(Len(q) + 1) /\ DOMAIN q = 1..Len(q) /\ Len(q) \in Nat
      /\ \A i \in DOMAIN q : Append(q, m)[i] = q[i]
      /\ Append(q, m)[Len(q) + 1] = m
  BY AppendProperties, LenProperties
<1> DEFINE a == Append(q, m)
<1>2. \A i \in DOMAIN a : i \in DOMAIN q \/ (i = Len(q) + 1 /\ a[i] = m)
  BY <1>1
<1>3. DOMAIN q \subseteq DOMAIN a /\ Len(q) + 1 \in DOMAIN a /\ a[Len(q) + 1] = m
      /\ \A i \in DOMAIN q : a[i] = q[i]
  BY <1>1
<1> HIDE DEF a
<1>4. \A c, k, w : Has(a, c, k, w) <=> Has(q, c, k, w) \/ (m.chan = c /\ m.call = k /\ m.what = w)
  BY <1>2, <1>3 DEF Has
<1>5. \A c, k : Earlier(a, c, k) <=> Earlier(q, c, k) \/ (m.chan = c /\ m.call < k)
  BY <1>2, <1>3 DEF Earlier
<1> QED
  BY <1>4, <1>5 DEF a

\* What is on the way when the oldest message has been taken.
LEMMA HasTail ==
    ASSUME NEW q \in Seq(Report), q # <<>>
    PROVE  /\ \A c, k, w : Has(q, c, k, w) <=> \/ Has(Tail(q), c, k, w)
                                               \/ q[1].chan = c /\ q[1].call = k /\ q[1].what = w
           /\ \A c, k : Earlier(q, c, k) <=> Earlier(Tail(q), c, k) \/ (q[1].chan = c /\ q[1].call < k)
<1> DEFINE t == Tail(q)
<1>1. /\ DOMAIN q = 1..Len(q) /\ Len(q) \in Nat \ {0} /\ DOMAIN t = 1..(Len(q) - 1)
      /\ \A i \in DOMAIN t : t[i] = q[i + 1]
  BY HeadTailProperties, LenProperties
<1> HIDE DEF t
<1>2. \A i \in DOMAIN q : i = 1 \/ (i - 1 \in DOMAIN t /\ t[i - 1] = q[i])
  BY <1>1
<1>3. 1 \in DOMAIN q /\ \A i \in DOMAIN t : i + 1 \in DOMAIN q /\ t[i] = q[i + 1]
  BY <1>1
<1>4. \A c, k, w : Has(q, c, k, w) <=> Has(t, c, k, w) \/ (q[1].chan = c /\ q[1].call = k /\ q[1].what = w)
  BY <1>2, <1>3 DEF Has
<1>5. \A c, k : Earlier(q, c, k) <=> Earlier(t, c, k) \/ (q[1].chan = c /\ q[1].call < k)
  BY <1>2, <1>3 DEF Earlier
<1> QED
  BY <1>4, <1>5 DEF t

\* The messages kept are the oldest.
LEMMA Keeping ==
    ASSUME NEW q \in Seq(Report), NEW kept \in 0..Len(q)
    PROVE  /\ DOMAIN q = 1..Len(q) /\ Len(q) \in Nat
           /\ DOMAIN SubSeq(q, 1, kept) = 1..kept
           /\ \A i \in 1..kept : SubSeq(q, 1, kept)[i] = q[i]
  BY SubSeqProperties, LenProperties

-----------------------------------------------------------------------------
(* Entries *)

\* Entries that say the same have the same verdict.
LEMMA AlikeVerdict ==
    ASSUME NEW a, NEW b, Alike(a, b), NEW t
    PROVE  Verdict(a, t) = Verdict(b, t)
<1>1. HeardOnly.no_inbound_rtcp # {} /\ HeardOnly.no_outbound_rtcp # {}
  BY DEF HeardOnly
<1>2. \A r \in Reasons : HeardOnly[r] # {}
  BY <1>1 DEF Reasons
<1> QED
  BY <1>2 DEF Alike, Verdict

\* They still do after one more event.
LEMMA AlikeHeard ==
    ASSUME NEW a, NEW b, Alike(a, b), NEW d, NEW t
    PROVE  Alike(Heard(a, d, t), Heard(b, d, t))
  BY DEF Alike, Heard

\* Saying the same is an equivalence.
LEMMA AlikeSymmetric ==
    ASSUME NEW a, NEW b, Alike(a, b)
    PROVE  Alike(b, a)
  BY DEF Alike

\* And transitive.
LEMMA AlikeTransitive ==
    ASSUME NEW a, NEW b, NEW c, Alike(a, b), Alike(b, c)
    PROVE  Alike(a, c)
  BY DEF Alike

\* What will be known of a call depends only on the messages about its channel.
LEMMA WillTellSame ==
    ASSUME NEW q, NEW p, NEW st, NEW t, NEW c, NEW k,
           \A d \in Directions : Has(p, c, k, d) <=> Has(q, c, k, d),
           Earlier(p, c, k) <=> Earlier(q, c, k)
    PROVE  WillTell(p, st, t, c, k) = WillTell(q, st, t, c, k)
  BY DEF WillTell

\* An RTCP event is heard when it arrives, and when it is sent will have been heard.
LEMMA WillTellSent ==
    ASSUME NEW q, NEW p, NEW st, NEW t, NEW c, NEW k, NEW d \in Directions,
           \A e \in Directions : Has(p, c, k, e) <=> Has(q, c, k, e) \/ e = d,
           Earlier(p, c, k) <=> Earlier(q, c, k)
    PROVE  Alike(WillTell(p, st, t, c, k), Heard(WillTell(q, st, t, c, k), d, t))
  BY DEF WillTell, Alike, Heard

\* An RTCP event that has been taken in is no longer to come, and already heard.
LEMMA WillTellTaken ==
    ASSUME NEW q, NEW p, NEW st, NEW t, NEW c, NEW k, NEW d \in Directions,
           \A e \in Directions : Has(q, c, k, e) <=> Has(p, c, k, e) \/ e = d,
           ~Earlier(p, c, k), ~Earlier(q, c, k)
    PROVE  Alike(WillTell(p, Heard(st, d, t), t, c, k), WillTell(q, st, t, c, k))
  BY DEF WillTell, Alike, Heard

\* Of a call whose earlier calls are not over, nothing is known yet.
LEMMA WillTellLater ==
    ASSUME NEW q, NEW p, NEW st, NEW ts, NEW t, NEW c, NEW k,
           \A e \in Directions : Has(p, c, k, e) <=> Has(q, c, k, e),
           Earlier(q, c, k), Earlier(p, c, k) \/ ts.seen = {}
    PROVE  WillTell(p, ts, t, c, k) = WillTell(q, st, t, c, k)
  BY DEF WillTell

\* With nothing more on the way about it, what is known of a call is all.
LEMMA WillTellKnown ==
    ASSUME NEW q, NEW st, NEW t, NEW c, NEW k,
           \A e \in Directions : ~Has(q, c, k, e), ~Earlier(q, c, k)
    PROVE  Alike(WillTell(q, st, t, c, k), st)
  BY DEF WillTell, Alike

-----------------------------------------------------------------------------
(* Keeping count *)

\* The balance over sets of calls: those that are off are finitely many.
Accounted(d, m, C, done, off) ==
    /\ d \in Nat /\ m \in Nat /\ IsFiniteSet(off) /\ done \subseteq off
    /\ Balanced(d, m, C, done, off)

\* A call ends with a verdict still to come.
LEMMA CallEndsDue ==
    ASSUME NEW d, NEW m, NEW C, NEW done, NEW off, Accounted(d, m, C, done, off), NEW x, x \notin C
    PROVE  Balanced(d, m + 1, C \cup {x}, done, off)
<1> USE DEF Accounted, Balanced
<1>1. Cardinality(C) \in Nat /\ Cardinality(done) \in Nat /\ Cardinality(off) \in Nat
  BY FS_Subset, FS_CardinalityType
<1>2. IsFiniteSet(C \cup {x}) /\ Cardinality(C \cup {x}) = Cardinality(C) + 1
  BY FS_AddElement
<1> QED
  BY <1>1, <1>2

\* It ends as one that is off, meant to have a verdict or not, over for the aggregator or not.
LEMMA CallEndsOff ==
    ASSUME NEW d, NEW m, NEW C, NEW done, NEW off, Accounted(d, m, C, done, off), NEW x, x \notin off,
           NEW n \in {m, m + 1}, NEW more \in {done, done \cup {x}}
    PROVE  Balanced(d, n, C, more, off \cup {x})
<1> USE DEF Accounted, Balanced
<1>1. IsFiniteSet(done) /\ x \notin done
  BY FS_Subset
<1>2. Cardinality(C) \in Nat /\ Cardinality(done) \in Nat /\ Cardinality(off) \in Nat
  BY <1>1, FS_CardinalityType
<1>3. Cardinality(off \cup {x}) = Cardinality(off) + 1 /\ Cardinality(done \cup {x}) = Cardinality(done) + 1
  BY <1>1, FS_AddElement
<1> QED
  BY <1>2, <1>3

\* A call is judged as it should be.
LEMMA CallJudgedDue ==
    ASSUME NEW d, NEW m, NEW C, NEW done, NEW off, Accounted(d, m, C, done, off), NEW x \in C
    PROVE  Balanced(d + 1, m, C \ {x}, done, off)
<1> USE DEF Accounted, Balanced
<1>1. Cardinality(C) \in Nat /\ Cardinality(done) \in Nat /\ Cardinality(off) \in Nat
  BY FS_Subset, FS_CardinalityType
<1>2. IsFiniteSet(C \ {x}) /\ Cardinality(C \ {x}) = Cardinality(C) - 1
  BY FS_RemoveElement
<1> QED
  BY <1>1, <1>2

\* It is judged as one that is off.
LEMMA CallJudgedOff ==
    ASSUME NEW d, NEW m, NEW C, NEW done, NEW off, Accounted(d, m, C, done, off), NEW x \in off \ done,
           NEW n \in {d, d + 1}
    PROVE  Balanced(n, m, C, done \cup {x}, off)
<1> USE DEF Accounted, Balanced
<1>1. IsFiniteSet(done)
  BY FS_Subset
<1>2. Cardinality(C) \in Nat /\ Cardinality(done) \in Nat /\ Cardinality(off) \in Nat
  BY <1>1, FS_CardinalityType
<1>3. Cardinality(done \cup {x}) = Cardinality(done) + 1
  BY <1>1, FS_AddElement
<1> QED
  BY <1>2, <1>3

\* Calls lose their messages: those of C that will not be judged are off.
LEMMA CallsSpoilt ==
    ASSUME NEW d, NEW m, NEW C, NEW done, NEW off, Accounted(d, m, C, done, off),
           NEW D, NEW dones, NEW offs, IsFiniteSet(offs),
           D \subseteq C, C \ D \subseteq offs \ off, off \subseteq offs,
           done \subseteq dones, dones \subseteq offs
    PROVE  Balanced(d, m, D, dones, offs)
<1> USE DEF Accounted, Balanced
<1>1. IsFiniteSet(D) /\ IsFiniteSet(dones) /\ IsFiniteSet(done) /\ IsFiniteSet(offs \ off)
  BY FS_Subset, FS_Difference
<1>2. /\ Cardinality(C) \in Nat /\ Cardinality(done) \in Nat /\ Cardinality(off) \in Nat
      /\ Cardinality(D) \in Nat /\ Cardinality(dones) \in Nat /\ Cardinality(offs) \in Nat
  BY <1>1, FS_CardinalityType
<1>3. Cardinality(D) <= Cardinality(C) /\ Cardinality(done) <= Cardinality(dones)
  BY <1>1, FS_Subset
<1>4. Cardinality(C \ D) <= Cardinality(offs \ off)
  BY <1>1, FS_Subset
<1>5. Cardinality(C \ D) = Cardinality(C) - Cardinality(D)
  <2>1. C \cap D = D
    OBVIOUS
  <2> QED
    BY <2>1, FS_Difference
<1>6. Cardinality(offs \ off) = Cardinality(offs) - Cardinality(off)
  <2>1. offs \cap off = off
    OBVIOUS
  <2> QED
    BY <2>1, FS_Difference
<1> QED
  BY <1>1, <1>2, <1>3, <1>4, <1>5, <1>6

\* One message spoils two calls at most, and finitely many spoil finitely many.
LEMMA SpoiltFinite ==
    ASSUME NEW q \in Seq(Report)
    PROVE  IsFiniteSet(SpoiltByAll(q))
<1> DEFINE T == {SpoiltBy(q[i]) : i \in DOMAIN q}
           f == [i \in DOMAIN q |-> SpoiltBy(q[i])]
<1>1. f \in Surjection(DOMAIN q, T)
  BY DEF Surjection
<1>2. IsFiniteSet(DOMAIN q)
  BY LenProperties, FS_Interval
<1>3. IsFiniteSet(T)
  <2> HIDE DEF f, T
  <2> QED
    BY <1>1, <1>2, FS_Surjection, Zenon
<1>4. \A m : IsFiniteSet(SpoiltBy(m))
  <2> TAKE m
  <2>1. IsFiniteSet({}) /\ IsFiniteSet({<<m.chan, m.call>>}) /\ IsFiniteSet({<<m.chan, m.call + 1>>})
    BY FS_EmptySet, FS_Singleton, Zenon
  <2> QED
    BY <2>1, FS_Union DEF SpoiltBy
<1>5. \A t \in T : IsFiniteSet(t)
  BY <1>4
<1> QED
  <2> HIDE DEF T
  <2>1. IsFiniteSet(UNION T)
    BY <1>3, <1>5, FS_UNION, Zenon
  <2> QED
    BY <2>1 DEF SpoiltByAll, T

-----------------------------------------------------------------------------
(* Which calls are where *)

\* A call in the sets of the invariant, by what makes it one of them.
Members ==
    \A c \in Channels, k \in 1..MaxCalls :
        /\ <<c, k>> \in wrong <=> <<c, k>> \in spoilt /\ k < nextCall[c]
        /\ <<c, k>> \in settled <=> <<c, k>> \in wrong /\ ~Has(unread, c, k, "hangup")
        /\ \A r \in Reasons : <<c, k>> \in coming[r] <=>
               /\ k < nextCall[c] /\ <<c, k>> \notin spoilt
               /\ Has(unread, c, k, "hangup")
               /\ r \in Verdict(WillTell(unread, known[c], now, c, k), now)

\* They are sets of calls.
Places ==
    /\ settled \subseteq wrong /\ wrong \subseteq Channels \X (1..MaxCalls)
    /\ \A r \in Reasons : coming[r] \subseteq Channels \X (1..MaxCalls)

\* The calls that are over come before the next call of their channel.
LEMMA MembersAre == StreamInv => Members /\ Places
<1> SUFFICES ASSUME StreamInv PROVE Members /\ Places
    OBVIOUS
<1>1. ASSUME NEW c \in Channels, NEW k \in 1..MaxCalls
      PROVE  <<c, k>> \in Ended <=> k < nextCall[c]
  BY DEF Ended, nextCall, StreamInv
<1>2. Members
  BY <1>1 DEF Members, wrong, settled, coming
<1>3. Places
  BY DEF Places, wrong, settled, coming, Ended
<1> QED
  BY <1>2, <1>3

\* The same, after a step.
LEMMA MembersAreNext == StreamInv' => Members' /\ Places'
<1> SUFFICES ASSUME StreamInv' PROVE Members' /\ Places'
    OBVIOUS
<1>1. ASSUME NEW c \in Channels, NEW k \in 1..MaxCalls
      PROVE  <<c, k>> \in Ended' <=> k < nextCall'[c]
  BY DEF Ended, nextCall, StreamInv
<1>2. Members'
  BY <1>1 DEF Members, wrong, settled, coming
<1>3. Places'
  BY DEF Places, wrong, settled, coming, Ended
<1> QED
  BY <1>2, <1>3

-----------------------------------------------------------------------------
(* The steps *)

Ready == TypeOK /\ StreamInv /\ HistoryTypeOK /\ CallsInv
Counts == OrderInv /\ FollowInv /\ TruthInv /\ CountInv

\* What the invariant gives the counting lemmas.
LEMMA ReadyCounts ==
    ASSUME Ready
    PROVE  /\ IsFiniteSet(spoilt) /\ IsFiniteSet(wrong) /\ Members /\ Places
           /\ \A r \in Reasons : Accounted(dueSoon[r], meant[r], coming[r], settled, wrong)
<1>1. IsFiniteSet(spoilt) /\ \A r \in Reasons : Balanced(dueSoon[r], meant[r], coming[r], settled, wrong)
  BY DEF Ready, CallsInv, CountInv
<1>2. IsFiniteSet(wrong)
  BY <1>1, FS_Intersection DEF wrong
<1>3. Members /\ Places
  BY MembersAre DEF Ready
<1>4. dueSoon \in [Reasons -> Nat] /\ meant \in [Reasons -> Nat]
  BY CountedType DEF Ready, TypeOK, HistoryTypeOK, dueSoon
<1> QED
  BY <1>1, <1>2, <1>3, <1>4 DEF Accounted, Places

\* The messages on the way.
LEMMA OnTheWay ==
    ASSUME StreamInv
    PROVE  /\ DOMAIN unread = 1..Len(unread) /\ Len(unread) \in Nat
           /\ \A i \in DOMAIN unread : /\ unread[i] \in Report /\ unread[i].chan \in Channels
                                       /\ unread[i].call \in 1..MaxCalls /\ unread[i].call \in Nat
<1>1. DOMAIN unread = 1..Len(unread) /\ Len(unread) \in Nat
  BY LenProperties DEF StreamInv
<1>2. \A i \in DOMAIN unread : unread[i] \in Report
  BY <1>1, ElementOfSeq DEF StreamInv
<1> QED
  BY <1>1, <1>2 DEF Report

\* Two sets of calls with the same members.
LEMMA SameCalls ==
    ASSUME NEW X, NEW Y, X \subseteq Channels \X (1..MaxCalls), Y \subseteq Channels \X (1..MaxCalls),
           \A c \in Channels, k \in 1..MaxCalls : <<c, k>> \in X <=> <<c, k>> \in Y
    PROVE  X = Y
<1> SUFFICES ASSUME NEW x \in Channels \X (1..MaxCalls) PROVE x \in X <=> x \in Y
    OBVIOUS
<1>1. PICK c \in Channels, k \in 1..MaxCalls : x = <<c, k>>
  OBVIOUS
<1> QED
  BY <1>1

\* Nothing happens to the messages on the way and to what is known of their calls.
Quiet ==
    /\ unread' = unread /\ now' = now /\ spoilt' = spoilt /\ truth' = truth /\ meant' = meant
    /\ known' = known /\ dueSoon' = dueSoon /\ nextCall' = nextCall
    /\ \A c \in Channels : calls[c] <= calls'[c]

\* What the calls are in depends on nothing else.
LEMMA QuietStep ==
    ASSUME Ready, StreamInv', Quiet
    PROVE  Counts'
<1> USE DEF Quiet
<1>1. OrderInv'
  <2>1. /\ OrderInv /\ calls \in [Channels -> Nat] /\ calls' \in [Channels -> Nat]
        /\ \A i \in DOMAIN unread : unread[i].chan \in Channels /\ unread[i].call \in Nat
    BY OnTheWay DEF Ready, CallsInv, StreamInv
  <2> QED
    BY <2>1 DEF OrderInv
<1>2. FollowInv'
  BY DEF Ready, CallsInv, FollowInv
<1>3. TruthInv'
  BY DEF Ready, CallsInv, TruthInv
<1>4. CountInv'
  <2>1. Members /\ Places /\ Members' /\ Places'
    BY ReadyCounts, MembersAreNext
  <2>2. wrong' = wrong
    <3>1. \A c \in Channels, k \in 1..MaxCalls : <<c, k>> \in wrong' <=> <<c, k>> \in wrong
      BY <2>1 DEF Members
    <3> QED
      BY <2>1, <3>1, SameCalls DEF Places
  <2>3. settled' = settled
    <3>1. \A c \in Channels, k \in 1..MaxCalls : <<c, k>> \in settled' <=> <<c, k>> \in settled
      BY <2>1, <2>2 DEF Members
    <3>2. settled \subseteq Channels \X (1..MaxCalls) /\ settled' \subseteq Channels \X (1..MaxCalls)
      BY <2>1 DEF Places
    <3> QED
      BY <3>1, <3>2, SameCalls
  <2>4. ASSUME NEW r \in Reasons PROVE coming'[r] = coming[r]
    <3>1. \A c \in Channels, k \in 1..MaxCalls : <<c, k>> \in coming'[r] <=> <<c, k>> \in coming[r]
      BY <2>1 DEF Members
    <3> QED
      BY <2>1, <3>1, SameCalls DEF Places
  <2> QED
    BY <2>2, <2>3, <2>4 DEF Ready, CallsInv, CountInv
<1> QED
  BY <1>1, <1>2, <1>3, <1>4 DEF Counts

\* A call that begins is the next call of its channel already; Handle's own steps
\* and the sweeps change nothing that is known from the events.
LEMMA QuietSteps ==
    ASSUME Ready,
           \/ \E c \in Channels : Rings(c)
           \/ Reconnects \/ Handles \/ (\E s \in Scrapers : Scraped(s)) \/ UNCHANGED allVars
    PROVE  Quiet
<1> USE DEF handler, gc, history
<1>1. ASSUME NEW c \in Channels, Rings(c) PROVE Quiet
  BY <1>1 DEF Quiet, Rings, known, dueSoon, nextCall, vars, Ready, StreamInv
<1>2. CASE Reconnects
  BY <1>2 DEF Quiet, Reconnects, S!Retry, S!GivesUp, S!Connect, S!Drop, known, dueSoon, nextCall, vars,
              Ready, StreamInv
<1>3. ASSUME NEW s \in Scrapers, Scraped(s) PROVE Quiet
  BY <1>3 DEF Quiet, Scraped, Sweeping, GcReadsClock, GcSweeps, known, dueSoon, nextCall, Ready, StreamInv
<1>4. CASE UNCHANGED allVars
  BY <1>4 DEF Quiet, allVars, known, dueSoon, nextCall, vars, Ready, StreamInv
<1>5. CASE Handles
  <2>1. UNCHANGED <<session, pbx, now>>
    BY <1>5 DEF Handles, Handling, RtcpRecorded, HangupTaken, HangupJudged
  <2>2. known' = known /\ dueSoon' = dueSoon
    <3>1. CASE RtcpRecorded
      BY <3>1 DEF RtcpRecorded, HandleReturns, known, dueSoon
    <3>2. CASE HangupTaken
      <4>1. /\ at = "hangup" /\ chan \in Channels /\ at' # "hangup"
            /\ told' = [told EXCEPT ![chan] = Absent]
            /\ due' = Counted(due, Verdict(told[chan], read))
        BY <3>2, VerdictDeserved DEF HangupTaken, HandleReturns, Ready, TypeOK
      <4> QED
        BY <4>1 DEF known, dueSoon, Ready, TypeOK
    <3>3. CASE HangupJudged
      BY <3>3 DEF HangupJudged, HandleReturns, known, dueSoon
    <3> QED
      BY <1>5, <3>1, <3>2, <3>3 DEF Handles, Handling
  <2> QED
    BY <2>1, <2>2 DEF Quiet, nextCall, Ready, StreamInv
<1> QED
  BY <1>1, <1>2, <1>3, <1>4, <1>5

\* Time passes when nothing is on the way.
LEMMA TimeStep ==
    ASSUME Ready, StreamInv', TimePasses
    PROVE  Counts'
<1>1. /\ unread = <<>> /\ unread' = unread /\ at = "idle" /\ at' = at
      /\ UNCHANGED <<spoilt, truth, meant, calls, talking, told, due>>
  BY DEF TimePasses, Tick, handler, gc, history
<1>2. known' = known /\ dueSoon' = dueSoon /\ nextCall' = nextCall /\ known = told
  BY <1>1 DEF known, dueSoon, nextCall, Ready, TypeOK
<1>3. \A c, k, w : ~Has(unread, c, k, w) /\ ~Earlier(unread, c, k)
  BY <1>1 DEF Has, Earlier
<1>4. OrderInv' /\ FollowInv'
  BY <1>1, <1>2 DEF OrderInv, FollowInv
<1>5. TruthInv'
  <2>1. \A c, k, t : Alike(WillTell(unread, known[c], t, c, k), known[c])
    BY <1>3, WillTellKnown, Zenon
  <2>2. \A c \in Channels : <<c, nextCall[c]>> \notin spoilt =>
            Alike(WillTell(unread, known[c], now, c, nextCall[c]), truth[c])
    BY DEF Ready, CallsInv, TruthInv
  <2>3. ASSUME NEW c \in Channels, <<c, nextCall[c]>> \notin spoilt
        PROVE  Alike(WillTell(unread, known[c], now', c, nextCall[c]), truth[c])
    <3>1. /\ Alike(WillTell(unread, known[c], now, c, nextCall[c]), known[c])
          /\ Alike(WillTell(unread, known[c], now', c, nextCall[c]), known[c])
      BY <2>1, Zenon
    <3>2. Alike(WillTell(unread, known[c], now, c, nextCall[c]), truth[c])
      BY <2>2, <2>3, Zenon
    <3>3. Alike(known[c], WillTell(unread, known[c], now, c, nextCall[c]))
      BY <3>1, AlikeSymmetric, Zenon
    <3>4. Alike(known[c], truth[c])
      BY <3>2, <3>3, AlikeTransitive, Zenon
    <3> QED
      BY <3>1, <3>4, AlikeTransitive, Zenon
  <2> QED
    BY <1>1, <1>2, <2>3 DEF TruthInv
<1>6. CountInv'
  <2>1. Members /\ Places /\ Members' /\ Places'
    BY ReadyCounts, MembersAreNext
  <2>2. wrong' = wrong
    BY <1>1 DEF wrong, Ended
  <2>3. settled' = settled
    BY <1>1, <2>2 DEF settled
  <2>4. ASSUME NEW r \in Reasons PROVE coming'[r] = coming[r]
    <3>1. \A c \in Channels, k \in 1..MaxCalls : <<c, k>> \in coming'[r] <=> <<c, k>> \in coming[r]
      BY <1>1, <1>3, <2>1 DEF Members
    <3> QED
      BY <2>1, <3>1, SameCalls DEF Places
  <2> QED
    BY <1>1, <1>2, <2>2, <2>3, <2>4 DEF Ready, CallsInv, CountInv
<1> QED
  BY <1>4, <1>5, <1>6 DEF Counts

-----------------------------------------------------------------------------
(* Asterisk reports *)

\* A message m of a call in progress is sent, or lost with the connection.
Sends(c, what) ==
    LET m == [chan |-> c, call |-> calls[c], what |-> what]
    IN  unread' = Append(unread, m) /\ spoilt' = spoilt
Misses(c, what) ==
    LET m == [chan |-> c, call |-> calls[c], what |-> what]
    IN  unread' = unread /\ spoilt' = spoilt \cup SpoiltBy(m)

\* Asterisk's report of an event reaches the stream or is lost.
LEMMA SendsOrMisses ==
    ASSUME NEW c, NEW what, Reports(c, what)
    PROVE  Sends(c, what) \/ Misses(c, what)
  BY DEF Reports, S!Send, Sends, Misses

\* What is on the way then.
LEMMA SendsHas ==
    ASSUME StreamInv, NEW c \in talking, NEW what \in Directions \cup {"hangup"}, Sends(c, what)
    PROVE  /\ \A b, k, w : Has(unread', b, k, w) <=>
                              Has(unread, b, k, w) \/ (b = c /\ k = calls[c] /\ w = what)
           /\ \A b, k : Earlier(unread', b, k) <=> Earlier(unread, b, k) \/ (b = c /\ calls[c] < k)
<1> DEFINE m == [chan |-> c, call |-> calls[c], what |-> what]
<1>1. m \in Report /\ m.chan = c /\ m.call = calls[c] /\ m.what = what
  BY ReportType
<1>2. unread' = Append(unread, m) /\ unread \in Seq(Report)
  BY DEF Sends, StreamInv
<1> HIDE DEF m
<1> QED
  BY <1>1, <1>2, HasAppend

\* The last message of its channel is of the call in progress.
LEMMA SendsInOrder ==
    ASSUME Ready, NEW c \in talking, NEW what \in Directions \cup {"hangup"}, Sends(c, what),
           UNCHANGED calls, nextCall \in [Channels -> Nat], nextCall' \in [Channels -> Nat],
           \A b \in Channels : nextCall[b] <= nextCall'[b],
           what = "hangup" => calls[c] < nextCall'[c]
    PROVE  OrderInv'
<1> DEFINE m == [chan |-> c, call |-> calls[c], what |-> what]
           n == Len(unread)
<1>1. m \in Report /\ m.chan = c /\ m.call = calls[c] /\ m.what = what /\ c \in Channels
  BY ReportType DEF Ready, StreamInv
<1>2. unread' = Append(unread, m) /\ unread \in Seq(Report)
  BY DEF Sends, Ready, StreamInv
<1> HIDE DEF m
<1>3. /\ DOMAIN unread' = 1..(n + 1) /\ DOMAIN unread = 1..n /\ n \in Nat
      /\ \A i \in 1..n : unread'[i] = unread[i]
      /\ unread'[n + 1] = m
  BY <1>1, <1>2, AppendProperties, LenProperties
<1>4. \A i \in 1..n : unread[i].chan \in Channels /\ unread[i].call \in Nat
  BY <1>3, OnTheWay DEF Ready
<1>5. calls \in [Channels -> Nat] /\ nextCall[c] = calls[c]
  BY <1>1 DEF Ready, StreamInv, nextCall
<1>6. OrderInv
  BY DEF Ready, CallsInv
<1> HIDE DEF n
<1>7. \A i \in DOMAIN unread' : i \in 1..n \/ i = n + 1
  BY <1>3
<1>8. ASSUME NEW i \in DOMAIN unread'
      PROVE  /\ unread'[i].call <= calls[unread'[i].chan]
             /\ unread'[i].what = "hangup" => unread'[i].call < nextCall'[unread'[i].chan]
  <2>1. CASE i \in 1..n
    BY <1>3, <1>4, <1>5, <1>6, <2>1 DEF OrderInv
  <2>2. CASE i = n + 1
    BY <1>1, <1>3, <1>5, <2>2
  <2> QED
    BY <1>7, <2>1, <2>2
<1>9. ASSUME NEW i \in DOMAIN unread', NEW j \in DOMAIN unread', i < j, unread'[i].chan = unread'[j].chan
      PROVE  /\ unread'[i].call <= unread'[j].call
             /\ unread'[i].what = "hangup" => unread'[i].call < unread'[j].call
  <2>1. i \in 1..n
    BY <1>3, <1>9
  <2>2. CASE j \in 1..n
    BY <1>3, <1>6, <1>9, <2>1, <2>2 DEF OrderInv
  <2>3. CASE j = n + 1
    BY <1>1, <1>3, <1>4, <1>5, <1>6, <1>9, <2>1, <2>3 DEF OrderInv
  <2> QED
    BY <1>7, <2>2, <2>3
<1> QED
  BY <1>8, <1>9 DEF OrderInv

\* Behind the new message, only the Hangup of its own call can be wanted.
LEMMA SendsFollows ==
    ASSUME Ready, NEW c \in talking, NEW what \in Directions \cup {"hangup"}, Sends(c, what),
           \A b \in Channels \ {c} : nextCall'[b] = nextCall[b],
           nextCall'[c] = IF what = "hangup" THEN calls[c] + 1 ELSE calls[c]
    PROVE  FollowInv'
<1>1. /\ \A b, k, w : Has(unread', b, k, w) <=> Has(unread, b, k, w) \/ (b = c /\ k = calls[c] /\ w = what)
      /\ spoilt' = spoilt
  BY SendsHas DEF Ready, Sends
<1>2. /\ calls[c] \in Nat /\ nextCall[c] = calls[c] /\ c \in Channels
  BY DEF Ready, StreamInv, nextCall
<1>3. /\ DOMAIN unread' = 1..(Len(unread) + 1) /\ DOMAIN unread = 1..Len(unread) /\ Len(unread) \in Nat
      /\ \A i \in 1..Len(unread) : unread'[i] = unread[i]
      /\ unread'[Len(unread) + 1].chan = c /\ unread'[Len(unread) + 1].call = calls[c]
  <2> DEFINE m == [chan |-> c, call |-> calls[c], what |-> what]
  <2>1. m \in Report /\ m.chan = c /\ m.call = calls[c]
    BY ReportType DEF Ready
  <2>2. unread' = Append(unread, m) /\ unread \in Seq(Report)
    BY DEF Sends, Ready, StreamInv
  <2> HIDE DEF m
  <2> QED
    BY <2>1, <2>2, AppendProperties, LenProperties
<1>4. FollowInv /\ \A i \in 1..Len(unread) : unread[i].chan \in Channels
  BY <1>3, OnTheWay DEF Ready, CallsInv
<1>5. ASSUME NEW i \in DOMAIN unread', NEW k \in 1..MaxCalls,
             unread'[i].call <= k, k < nextCall'[unread'[i].chan],
             <<unread'[i].chan, k>> \notin spoilt \/ <<unread'[i].chan, k + 1>> \notin spoilt
      PROVE  Has(unread', unread'[i].chan, k, "hangup")
  <2>1. CASE unread'[i].chan = c /\ k >= calls[c]
    BY <1>1, <1>2, <1>5, <2>1
  <2>2. CASE ~(unread'[i].chan = c /\ k >= calls[c])
    <3>1. i \in 1..Len(unread) /\ unread'[i] = unread[i]
      BY <1>2, <1>3, <1>5, <2>2
    <3>2. k < nextCall[unread[i].chan]
      BY <1>2, <1>4, <1>5, <2>2, <3>1
    <3>3. Has(unread, unread[i].chan, k, "hangup")
      BY <1>3, <1>4, <1>5, <3>1, <3>2 DEF FollowInv
    <3> QED
      BY <1>1, <3>1, <3>3
  <2> QED
    BY <2>1, <2>2
<1> QED
  BY <1>1, <1>5 DEF FollowInv

\* Nothing changes for the calls that are over.
LEMMA CountKept ==
    ASSUME Ready, StreamInv', IsFiniteSet(spoilt'),
           now' = now, dueSoon' = dueSoon, nextCall' = nextCall, meant' = meant,
           \A c \in Channels, k \in 1..MaxCalls : k < nextCall[c] =>
               /\ <<c, k>> \in spoilt' <=> <<c, k>> \in spoilt
               /\ Has(unread', c, k, "hangup") <=> Has(unread, c, k, "hangup")
               /\ <<c, k>> \notin spoilt /\ Has(unread, c, k, "hangup") =>
                      Verdict(WillTell(unread', known'[c], now, c, k), now)
                          = Verdict(WillTell(unread, known[c], now, c, k), now)
    PROVE  CountInv'
<1>1. Members /\ Places /\ Members' /\ Places'
  BY ReadyCounts, MembersAreNext
<1>2. wrong' = wrong
  <2>1. \A c \in Channels, k \in 1..MaxCalls : <<c, k>> \in wrong' <=> <<c, k>> \in wrong
    BY <1>1 DEF Members
  <2> QED
    BY <1>1, <2>1, SameCalls DEF Places
<1>3. settled' = settled
  <2>1. \A c \in Channels, k \in 1..MaxCalls : <<c, k>> \in settled' <=> <<c, k>> \in settled
    BY <1>1, <1>2 DEF Members
  <2>2. settled \subseteq Channels \X (1..MaxCalls) /\ settled' \subseteq Channels \X (1..MaxCalls)
    BY <1>1 DEF Places
  <2> QED
    BY <2>1, <2>2, SameCalls
<1>4. ASSUME NEW r \in Reasons PROVE coming'[r] = coming[r]
  <2>1. \A c \in Channels, k \in 1..MaxCalls : <<c, k>> \in coming'[r] <=> <<c, k>> \in coming[r]
    BY <1>1 DEF Members
  <2> QED
    BY <1>1, <2>1, SameCalls DEF Places
<1> QED
  BY <1>2, <1>3, <1>4 DEF Ready, CallsInv, CountInv

\* An RTCP event of a call in progress: it will be heard, or the call is spoilt.
LEMMA RtcpSeenStep ==
    ASSUME Ready, StreamInv', NEW c \in Channels, NEW d \in Directions, RtcpSeen(c, d)
    PROVE  Counts'
<1> DEFINE n == calls[c]
<1>1. /\ c \in talking /\ n \in 1..MaxCalls /\ nextCall[c] = n
      /\ truth \in [Channels -> Entry] /\ truth' = [truth EXCEPT ![c] = Heard(@, d, now)]
      /\ nextCall \in [Channels -> Nat]
  BY DEF RtcpSeen, Ready, HistoryTypeOK, StreamInv, nextCall
<1>2. now' = now /\ known' = known /\ dueSoon' = dueSoon /\ nextCall' = nextCall
      /\ UNCHANGED <<meant, calls>>
  BY DEF RtcpSeen, vars, handler, history, known, dueSoon, nextCall
<1>3. Sends(c, d) \/ Misses(c, d)
  BY SendsOrMisses DEF RtcpSeen
<1>4. /\ OrderInv /\ FollowInv /\ TruthInv /\ CountInv
      /\ Members /\ Places /\ Members' /\ Places' /\ IsFiniteSet(spoilt)
  BY ReadyCounts, MembersAreNext DEF Ready, CallsInv
<1> HIDE DEF n
<1>5. CASE Sends(c, d)
  <2>1. spoilt' = spoilt
    BY <1>5 DEF Sends
  <2>2. /\ \A b, k, w : Has(unread', b, k, w) <=> Has(unread, b, k, w) \/ (b = c /\ k = n /\ w = d)
        /\ \A b, k : Earlier(unread', b, k) <=> Earlier(unread, b, k) \/ (b = c /\ n < k)
    BY <1>1, <1>5, SendsHas DEF Ready, n
  <2>3. OrderInv'
    BY <1>1, <1>2, <1>5, SendsInOrder
  <2>4. FollowInv'
    <3>1. d # "hangup" /\ d \in Directions \cup {"hangup"}
      OBVIOUS
    <3> QED
      BY <1>1, <1>2, <1>5, <3>1, SendsFollows DEF n
  <2>5. TruthInv'
    <3> SUFFICES ASSUME NEW b \in Channels, <<b, nextCall[b]>> \notin spoilt
                 PROVE  Alike(WillTell(unread', known[b], now, b, nextCall[b]), truth'[b])
      BY <1>2, <2>1 DEF TruthInv
    <3>1. Alike(WillTell(unread, known[b], now, b, nextCall[b]), truth[b])
      BY <1>4 DEF TruthInv
    <3>2. CASE b = c
      <4>1. Alike(WillTell(unread', known[c], now, c, n), Heard(WillTell(unread, known[c], now, c, n), d, now))
        BY <1>1, <2>2, WillTellSent
      <4>2. Alike(Heard(WillTell(unread, known[c], now, c, n), d, now), Heard(truth[c], d, now))
        BY <1>1, <3>1, <3>2, AlikeHeard
      <4>3. truth'[c] = Heard(truth[c], d, now)
        BY <1>1
      <4> QED
        BY <1>1, <3>2, <4>1, <4>2, <4>3, AlikeTransitive
    <3>3. CASE b # c
      <4>1. WillTell(unread', known[b], now, b, nextCall[b]) = WillTell(unread, known[b], now, b, nextCall[b])
        BY <2>2, <3>3, WillTellSame
      <4> QED
        BY <1>1, <3>1, <3>3, <4>1
    <3> QED
      BY <3>2, <3>3
  <2>6. CountInv'
    <3>1. ASSUME NEW b \in Channels, NEW k \in 1..MaxCalls, k < nextCall[b]
          PROVE  /\ Has(unread', b, k, "hangup") <=> Has(unread, b, k, "hangup")
                 /\ WillTell(unread', known[b], now, b, k) = WillTell(unread, known[b], now, b, k)
      <4>1. ~(b = c /\ k = n) /\ ~(b = c /\ n < k)
        BY <1>1, <3>1
      <4> QED
        BY <2>2, <4>1, WillTellSame
    <3> QED
      BY <1>2, <1>4, <2>1, <3>1, CountKept
  <2> QED
    BY <2>3, <2>4, <2>5, <2>6 DEF Counts
<1>6. CASE Misses(c, d)
  <2>1. unread' = unread /\ spoilt' = spoilt \cup {<<c, n>>}
    BY <1>6 DEF Misses, SpoiltBy, n
  <2>2. OrderInv' /\ FollowInv'
    BY <1>2, <1>4, <2>1 DEF OrderInv, FollowInv
  <2>3. TruthInv'
    BY <1>1, <1>2, <1>4, <2>1 DEF TruthInv
  <2>4. CountInv'
    <3>1. \A b \in Channels, k \in 1..MaxCalls : k < nextCall[b] => <<b, k>> # <<c, n>>
      BY <1>1
    <3>2. IsFiniteSet(spoilt')
      BY <1>4, <2>1, FS_AddElement DEF CountInv
    <3>3. \A b \in Channels, k \in 1..MaxCalls :
              k < nextCall[b] => (<<b, k>> \in spoilt' <=> <<b, k>> \in spoilt)
      BY <2>1, <3>1
    <3> QED
      BY <1>2, <2>1, <3>2, <3>3, CountKept
  <2> QED
    BY <2>2, <2>3, <2>4 DEF Counts
<1> QED
  BY <1>3, <1>5, <1>6

\* The verdict meant is 1 more for the reasons of what is true of the call.
LEMMA MeantCounted ==
    ASSUME Ready, NEW c \in Channels, HangsUp(c), NEW r \in Reasons
    PROVE  meant'[r] = IF r \in Verdict(truth[c], now) THEN meant[r] + 1 ELSE meant[r]
<1>1. Verdict(truth[c], now) = Deserved(truth[c], now)
  BY VerdictDeserved DEF Ready, HistoryTypeOK, TypeOK
<1> QED
  BY <1>1, CountedValue DEF HangsUp, Ready, HistoryTypeOK

\* A Hangup: its call is one to judge, or one that is off.
LEMMA HangsUpStep ==
    ASSUME Ready, StreamInv', NEW c \in Channels, HangsUp(c)
    PROVE  Counts'
<1> DEFINE n == calls[c]
           id == <<c, n>>
<1>1. /\ c \in talking /\ n \in 1..MaxCalls /\ nextCall[c] = n /\ nextCall'[c] = n + 1
      /\ \A b \in Channels \ {c} : nextCall'[b] = nextCall[b]
      /\ truth' = [truth EXCEPT ![c] = Absent] /\ truth \in [Channels -> Entry]
      /\ nextCall \in [Channels -> Nat] /\ nextCall' \in [Channels -> Nat]
  BY DEF HangsUp, Ready, HistoryTypeOK, StreamInv, nextCall
<1>2. now' = now /\ known' = known /\ dueSoon' = dueSoon /\ UNCHANGED calls
  BY DEF HangsUp, vars, handler, history, known, dueSoon
<1>3. Sends(c, "hangup") \/ Misses(c, "hangup")
  BY SendsOrMisses DEF HangsUp
<1>4. /\ OrderInv /\ FollowInv /\ TruthInv /\ CountInv
      /\ Members /\ Places /\ Members' /\ Places' /\ IsFiniteSet(spoilt)
      /\ \A r \in Reasons : Accounted(dueSoon[r], meant[r], coming[r], settled, wrong)
  BY ReadyCounts, MembersAreNext DEF Ready, CallsInv
<1>5. ~Has(unread, c, n, "hangup") /\ \A w : ~Has(unread, c, n + 1, w)
  <2>1. calls \in [Channels -> Nat] /\ \A i \in DOMAIN unread : unread[i].call \in Nat
    BY OnTheWay DEF Ready, StreamInv
  <2> QED
    BY <1>1, <1>4, <2>1 DEF Has, OrderInv
<1>6. \A r \in Reasons : id \notin wrong /\ id \notin coming[r]
  BY <1>1, <1>4 DEF Members
<1>7. \A r \in Reasons :
          meant'[r] = IF r \in Verdict(truth[c], now) THEN meant[r] + 1 ELSE meant[r]
  BY MeantCounted
<1>8. \A b \in Channels, k \in 1..MaxCalls : k < nextCall'[b] <=> k < nextCall[b] \/ <<b, k>> = id
  BY <1>1
<1>n. /\ \A b \in Channels, k \in 1..MaxCalls : k < nextCall[b] => <<b, k>> # id
      /\ \A b \in Channels, k \in 1..MaxCalls : k < nextCall[b] => ~(b = c /\ k = n) /\ ~(b = c /\ n < k)
  BY <1>1
<1> HIDE DEF n
<1>9. CASE Sends(c, "hangup")
  <2>1. spoilt' = spoilt
    BY <1>9 DEF Sends
  <2>2. /\ \A b, k, w : Has(unread', b, k, w) <=> Has(unread, b, k, w) \/ (b = c /\ k = n /\ w = "hangup")
        /\ \A b, k : Earlier(unread', b, k) <=> Earlier(unread, b, k) \/ (b = c /\ n < k)
    BY <1>1, <1>9, SendsHas DEF Ready, n
  <2>3. OrderInv'
    <3>1. \A b \in Channels : nextCall[b] <= nextCall'[b]
      BY <1>1
    <3> QED
      BY <1>1, <1>2, <1>9, <3>1, SendsInOrder DEF n
  <2>4. FollowInv'
    BY <1>1, <1>9, SendsFollows DEF n
  <2>5. \A b \in Channels, k \in 1..MaxCalls :
            k < nextCall[b] \/ <<b, k>> = id =>
                WillTell(unread', known[b], now, b, k) = WillTell(unread, known[b], now, b, k)
    <3> SUFFICES ASSUME NEW b \in Channels, NEW k \in 1..MaxCalls, k < nextCall[b] \/ <<b, k>> = id
                 PROVE  WillTell(unread', known[b], now, b, k) = WillTell(unread, known[b], now, b, k)
      BY Zenon
    <3>1. ~(b = c /\ n < k)
      BY <1>1, <1>n
    <3>2. \A d \in Directions : d # "hangup"
      OBVIOUS
    <3> QED
      BY <2>2, <3>1, <3>2, WillTellSame
  <2>6. TruthInv'
    <3> SUFFICES ASSUME NEW b \in Channels, <<b, nextCall'[b]>> \notin spoilt
                 PROVE  Alike(WillTell(unread', known[b], now, b, nextCall'[b]), truth'[b])
      BY <1>2, <2>1 DEF TruthInv
    <3>1. CASE b = c
      <4>1. truth'[c] = Absent /\ nextCall'[c] = n + 1 /\ Earlier(unread', c, n + 1)
        BY <1>1, <2>2
      <4>2. \A d \in Directions : ~Has(unread', c, n + 1, d)
        BY <1>1, <1>5, <2>2
      <4> QED
        BY <3>1, <4>1, <4>2 DEF Alike, WillTell, Absent
    <3>2. CASE b # c
      <4>1. nextCall'[b] = nextCall[b] /\ truth'[b] = truth[b]
        BY <1>1, <3>2
      <4>2. Alike(WillTell(unread, known[b], now, b, nextCall[b]), truth[b])
        BY <1>4, <4>1 DEF TruthInv
      <4>3. WillTell(unread', known[b], now, b, nextCall[b]) = WillTell(unread, known[b], now, b, nextCall[b])
        BY <2>2, <3>2, WillTellSame
      <4> QED
        BY <4>1, <4>2, <4>3
    <3> QED
      BY <3>1, <3>2
  <2>7. CountInv'
    <3>1. settled' = settled
      <4>1. ASSUME NEW b \in Channels, NEW k \in 1..MaxCalls
            PROVE  <<b, k>> \in settled' <=> <<b, k>> \in settled
        <5>1. /\ <<b, k>> \in settled' <=> /\ <<b, k>> \in spoilt /\ k < nextCall'[b]
                                            /\ ~Has(unread', b, k, "hangup")
              /\ <<b, k>> \in settled <=> /\ <<b, k>> \in spoilt /\ k < nextCall[b]
                                           /\ ~Has(unread, b, k, "hangup")
          BY <1>4, <2>1 DEF Members
        <5> QED
          BY <1>8, <1>n, <2>2, <5>1
      <4>2. settled \subseteq Channels \X (1..MaxCalls) /\ settled' \subseteq Channels \X (1..MaxCalls)
        BY <1>4 DEF Places
      <4> QED
        BY <4>1, <4>2, SameCalls
    <3>2. wrong' = IF id \in spoilt THEN wrong \cup {id} ELSE wrong
      <4> DEFINE W == IF id \in spoilt THEN wrong \cup {id} ELSE wrong
      <4>1. \A b \in Channels, k \in 1..MaxCalls : <<b, k>> \in wrong' <=> <<b, k>> \in W
        BY <1>4, <1>8, <2>1 DEF Members
      <4>2. W \subseteq Channels \X (1..MaxCalls) /\ wrong' \subseteq Channels \X (1..MaxCalls)
        BY <1>1, <1>4 DEF Places
      <4> HIDE DEF W
      <4>3. wrong' = W
        BY <4>1, <4>2, SameCalls
      <4> QED
        BY <4>3 DEF W
    <3>3. ASSUME NEW r \in Reasons
          PROVE  coming'[r] = IF id \notin spoilt /\ r \in Verdict(truth[c], now)
                                THEN coming[r] \cup {id} ELSE coming[r]
      <4> DEFINE C == IF id \notin spoilt /\ r \in Verdict(truth[c], now)
                        THEN coming[r] \cup {id} ELSE coming[r]
      <4>1. id \notin spoilt => Verdict(WillTell(unread, known[c], now, c, n), now) = Verdict(truth[c], now)
        BY <1>1, <1>4, AlikeVerdict DEF TruthInv
      <4>2. ASSUME NEW b \in Channels, NEW k \in 1..MaxCalls PROVE <<b, k>> \in coming'[r] <=> <<b, k>> \in C
        <5>1. /\ <<b, k>> \in coming'[r] <=>
                    /\ k < nextCall[b] \/ <<b, k>> = id
                    /\ <<b, k>> \notin spoilt
                    /\ Has(unread, b, k, "hangup") \/ <<b, k>> = id
                    /\ r \in Verdict(WillTell(unread, known[b], now, b, k), now)
              /\ <<b, k>> \in coming[r] <=>
                    /\ k < nextCall[b] /\ <<b, k>> \notin spoilt /\ Has(unread, b, k, "hangup")
                    /\ r \in Verdict(WillTell(unread, known[b], now, b, k), now)
          BY <1>2, <1>4, <1>8, <2>1, <2>2, <2>5 DEF Members
        <5>2. CASE <<b, k>> = id
          BY <1>6, <4>1, <5>1, <5>2
        <5>3. CASE <<b, k>> # id
          BY <5>1, <5>3
        <5> QED
          BY <5>2, <5>3
      <4>3. C \subseteq Channels \X (1..MaxCalls) /\ coming'[r] \subseteq Channels \X (1..MaxCalls)
        BY <1>1, <1>4 DEF Places
      <4> HIDE DEF C
      <4>4. coming'[r] = C
        BY <4>2, <4>3, SameCalls
      <4> QED
        BY <4>4 DEF C
    <3>4. ASSUME NEW r \in Reasons PROVE Balanced(dueSoon[r], meant'[r], coming'[r], settled, wrong')
      <4>1. Accounted(dueSoon[r], meant[r], coming[r], settled, wrong)
        BY <1>4
      <4>2. id \notin coming[r] /\ id \notin wrong
        BY <1>6
      <4>3. Balanced(dueSoon[r], meant[r] + 1, coming[r] \cup {id}, settled, wrong)
        BY <4>1, <4>2, CallEndsDue
      <4>4. /\ Balanced(dueSoon[r], meant[r], coming[r], settled, wrong \cup {id})
            /\ Balanced(dueSoon[r], meant[r] + 1, coming[r], settled, wrong \cup {id})
        <5>1. /\ settled \in {settled, settled \cup {id}}
              /\ meant[r] \in {meant[r], meant[r] + 1} /\ meant[r] + 1 \in {meant[r], meant[r] + 1}
          OBVIOUS
        <5> HIDE DEF id
        <5>2. Balanced(dueSoon[r], meant[r], coming[r], settled, wrong \cup {id})
          BY <4>1, <4>2, <5>1, CallEndsOff, Zenon
        <5>3. Balanced(dueSoon[r], meant[r] + 1, coming[r], settled, wrong \cup {id})
          BY <4>1, <4>2, <5>1, CallEndsOff, Zenon
        <5> QED
          BY <5>2, <5>3
      <4>5. Balanced(dueSoon[r], meant[r], coming[r], settled, wrong)
        BY <4>1 DEF Accounted
      <4> QED
        BY <1>7, <3>2, <3>3, <4>3, <4>4, <4>5
    <3> QED
      BY <1>2, <1>4, <2>1, <3>1, <3>4 DEF CountInv
  <2> QED
    BY <2>3, <2>4, <2>6, <2>7 DEF Counts
<1>10. CASE Misses(c, "hangup")
  <2>1. unread' = unread /\ spoilt' = spoilt \cup {id, <<c, n + 1>>}
    BY <1>10 DEF Misses, SpoiltBy, n
  <2>2. OrderInv'
    <3>1. calls \in [Channels -> Nat] /\ \A i \in DOMAIN unread : /\ unread[i].chan \in Channels
                                                                /\ unread[i].call \in Nat
      BY OnTheWay DEF Ready, StreamInv
    <3>2. \A b \in Channels : nextCall[b] <= nextCall'[b]
      BY <1>1
    <3> QED
      BY <1>1, <1>2, <1>4, <2>1, <3>1, <3>2 DEF OrderInv
  <2>3. FollowInv'
    <3> SUFFICES ASSUME NEW i \in DOMAIN unread, NEW k \in 1..MaxCalls,
                        unread[i].call <= k, k < nextCall'[unread[i].chan],
                        <<unread[i].chan, k>> \notin spoilt' \/ <<unread[i].chan, k + 1>> \notin spoilt'
                 PROVE  Has(unread, unread[i].chan, k, "hangup")
      BY <2>1 DEF FollowInv
    <3>1. unread[i].chan \in Channels
      BY OnTheWay DEF Ready
    <3>2. <<unread[i].chan, k>> # id
      BY <2>1
    <3>3. k < nextCall[unread[i].chan]
      BY <1>8, <3>1, <3>2
    <3> QED
      BY <1>4, <2>1, <3>3 DEF FollowInv
  <2>4. TruthInv'
    <3> SUFFICES ASSUME NEW b \in Channels, <<b, nextCall'[b]>> \notin spoilt'
                 PROVE  Alike(WillTell(unread, known[b], now, b, nextCall'[b]), truth'[b])
      BY <1>2, <2>1 DEF TruthInv
    <3>1. b # c
      BY <1>1, <2>1
    <3>2. nextCall'[b] = nextCall[b] /\ truth'[b] = truth[b] /\ <<b, nextCall[b]>> \notin spoilt
      BY <1>1, <2>1, <3>1
    <3> QED
      BY <1>4, <3>2 DEF TruthInv
  <2>5. CountInv'
    <3>1. <<c, n + 1>> \notin Ended' /\ \A b \in Channels, k \in 1..MaxCalls :
              k < nextCall'[b] => (<<b, k>> \in spoilt' <=> <<b, k>> \in spoilt \/ <<b, k>> = id)
      <4>1. \A b \in Channels, k \in 1..MaxCalls : k < nextCall'[b] => <<b, k>> # <<c, n + 1>>
        BY <1>1
      <4>2. <<c, n + 1>> \notin Ended'
        BY <1>1, <1>2 DEF Ended, HangsUp, n
      <4> QED
        BY <2>1, <4>1, <4>2
    <3>2. wrong' = wrong \cup {id}
      <4>1. \A b \in Channels, k \in 1..MaxCalls : <<b, k>> \in wrong' <=> <<b, k>> \in wrong \cup {id}
        BY <1>4, <1>8, <3>1 DEF Members
      <4>2. wrong \cup {id} \subseteq Channels \X (1..MaxCalls) /\ wrong' \subseteq Channels \X (1..MaxCalls)
        BY <1>1, <1>4 DEF Places
      <4> QED
        BY <4>1, <4>2, SameCalls
    <3>3. settled' = settled \cup {id}
      <4>1. \A b \in Channels, k \in 1..MaxCalls : <<b, k>> \in settled' <=> <<b, k>> \in settled \cup {id}
        BY <1>4, <1>5, <2>1, <3>2 DEF Members
      <4>2. settled \cup {id} \subseteq Channels \X (1..MaxCalls) /\ settled' \subseteq Channels \X (1..MaxCalls)
        BY <1>1, <1>4 DEF Places
      <4> QED
        BY <4>1, <4>2, SameCalls
    <3>4. ASSUME NEW r \in Reasons PROVE coming'[r] = coming[r]
      <4>1. \A b \in Channels, k \in 1..MaxCalls : <<b, k>> \in coming'[r] <=> <<b, k>> \in coming[r]
        BY <1>2, <1>4, <1>8, <1>n, <2>1, <3>1 DEF Members
      <4> QED
        BY <1>4, <4>1, SameCalls DEF Places
    <3>5. ASSUME NEW r \in Reasons PROVE Balanced(dueSoon[r], meant'[r], coming[r], settled', wrong')
      <4>1. \A m \in {meant[r], meant[r] + 1} :
                Balanced(dueSoon[r], m, coming[r], settled \cup {id}, wrong \cup {id})
        BY <1>4, <1>6, CallEndsOff
      <4> QED
        BY <1>7, <3>2, <3>3, <4>1
    <3>6. IsFiniteSet(spoilt')
      <4>1. spoilt' = (spoilt \cup {id}) \cup {<<c, n + 1>>}
        BY <2>1
      <4> QED
        BY <1>4, <4>1, FS_AddElement
    <3> QED
      BY <1>2, <3>4, <3>5, <3>6 DEF CountInv
  <2> QED
    BY <2>2, <2>3, <2>4, <2>5 DEF Counts
<1> QED
  BY <1>3, <1>9, <1>10

-----------------------------------------------------------------------------
(* The aggregator takes a message *)

\* The message taken is the oldest of its channel.
LEMMA OldestTaken ==
    ASSUME Ready, unread # <<>>, unread' = Tail(unread)
    PROVE  LET m == unread[1]
           IN  /\ m \in Report /\ m.chan \in Channels /\ m.call \in 1..MaxCalls
               /\ m = Head(unread) /\ 1 \in DOMAIN unread
               /\ \A b, k, w : Has(unread, b, k, w) <=> \/ Has(unread', b, k, w)
                                                        \/ m.chan = b /\ m.call = k /\ m.what = w
               /\ \A b, k : Earlier(unread, b, k) <=> Earlier(unread', b, k) \/ (m.chan = b /\ m.call < k)
               /\ \A k \in 1..(MaxCalls + 1) : Earlier(unread, m.chan, k) => m.call < k
               /\ \A k, w : Has(unread, m.chan, k, w) => m.call <= k
               /\ m.what = "hangup" => \A k, w : Has(unread', m.chan, k, w) => m.call < k
<1> DEFINE m == unread[1]
<1>1. /\ DOMAIN unread = 1..Len(unread) /\ Len(unread) \in Nat /\ 1 \in DOMAIN unread
      /\ unread \in Seq(Report) /\ m = Head(unread)
      /\ \A i \in DOMAIN unread : /\ unread[i] \in Report /\ unread[i].chan \in Channels
                                  /\ unread[i].call \in 1..MaxCalls /\ unread[i].call \in Nat
  <2>1. unread \in Seq(Report) /\ Len(unread) \in Nat \ {0} /\ DOMAIN unread = 1..Len(unread)
    BY LenProperties DEF Ready, StreamInv
  <2> QED
    BY <2>1, OnTheWay DEF Ready
<1>2. /\ \A b, k, w : Has(unread, b, k, w) <=> \/ Has(unread', b, k, w)
                                               \/ m.chan = b /\ m.call = k /\ m.what = w
      /\ \A b, k : Earlier(unread, b, k) <=> Earlier(unread', b, k) \/ (m.chan = b /\ m.call < k)
  BY <1>1, HasTail
<1>3. \A i \in DOMAIN unread : unread[i].chan = m.chan =>
          m.call <= unread[i].call /\ (i # 1 /\ m.what = "hangup" => m.call < unread[i].call)
  BY <1>1 DEF Ready, CallsInv, OrderInv
<1>4. \A k \in 1..(MaxCalls + 1) : Earlier(unread, m.chan, k) => m.call < k
  BY <1>1, <1>3 DEF Earlier
<1>5. \A k, w : Has(unread, m.chan, k, w) => m.call <= k
  BY <1>1, <1>3 DEF Has
<1>6. ASSUME m.what = "hangup", NEW k, NEW w, Has(unread', m.chan, k, w) PROVE m.call < k
  <2>1. PICK i \in DOMAIN Tail(unread) : Tail(unread)[i].chan = m.chan /\ Tail(unread)[i].call = k
    BY <1>6 DEF Has
  <2>2. i + 1 \in DOMAIN unread /\ i + 1 # 1 /\ Tail(unread)[i] = unread[i + 1]
    BY <1>1, HeadTailProperties, LenProperties
  <2> QED
    BY <1>3, <1>6, <2>1, <2>2
<1> QED
  BY <1>1, <1>2, <1>4, <1>5, <1>6

\* The rest stays in order.
LEMMA TakenInOrder ==
    ASSUME Ready, unread # <<>>, unread' = Tail(unread), calls' = calls, nextCall' = nextCall
    PROVE  OrderInv'
<1>1. /\ DOMAIN unread = 1..Len(unread) /\ Len(unread) \in Nat \ {0} /\ DOMAIN unread' = 1..(Len(unread) - 1)
      /\ \A i \in DOMAIN unread' : unread'[i] = unread[i + 1]
  BY HeadTailProperties, LenProperties DEF Ready, StreamInv
<1>2. \A i \in DOMAIN unread' : i + 1 \in DOMAIN unread /\ unread'[i] = unread[i + 1]
  BY <1>1
<1>3. \A i, j \in DOMAIN unread' : i < j => i + 1 < j + 1
  BY <1>1
<1> QED
  BY <1>2, <1>3 DEF Ready, CallsInv, OrderInv

\* The Hangups wanted behind the rest are in it.
LEMMA TakenFollows ==
    ASSUME Ready, unread # <<>>, unread' = Tail(unread), spoilt' = spoilt, nextCall' = nextCall
    PROVE  FollowInv'
<1>1. /\ DOMAIN unread = 1..Len(unread) /\ Len(unread) \in Nat \ {0} /\ DOMAIN unread' = 1..(Len(unread) - 1)
      /\ \A i \in DOMAIN unread' : unread'[i] = unread[i + 1]
  BY HeadTailProperties, LenProperties DEF Ready, StreamInv
<1>2. ASSUME NEW i \in DOMAIN unread', NEW k \in 1..MaxCalls,
             unread'[i].call <= k, k < nextCall[unread'[i].chan],
             <<unread'[i].chan, k>> \notin spoilt \/ <<unread'[i].chan, k + 1>> \notin spoilt
      PROVE  Has(unread', unread'[i].chan, k, "hangup")
  <2>1. i + 1 \in DOMAIN unread /\ 1 \in DOMAIN unread /\ 1 < i + 1 /\ unread'[i] = unread[i + 1]
        /\ unread[i + 1].call \in Nat
    BY <1>1, OnTheWay DEF Ready
  <2>2. Has(unread, unread'[i].chan, k, "hangup")
    BY <1>2, <2>1 DEF Ready, CallsInv, FollowInv
  <2>3. CASE unread[1].chan = unread'[i].chan /\ unread[1].call = k /\ unread[1].what = "hangup"
    <3>1. unread[1].call < unread[i + 1].call
      BY <2>1, <2>3 DEF Ready, CallsInv, OrderInv
    <3> QED
      BY <1>2, <2>1, <2>3, <3>1
  <2> QED
    BY <2>2, <2>3, OldestTaken
<1> QED
  BY <1>2 DEF FollowInv

\* An RTCP event: what is known and what is still on the way move by the same step.
LEMMA RtcpHandedStep ==
    ASSUME Ready, StreamInv', Handed, Head(unread).what # "hangup"
    PROVE  Counts'
<1> DEFINE m == unread[1]
           c == m.chan
           d == m.what
<1>1. unread # <<>> /\ unread' = Tail(unread) /\ UNCHANGED pbx
  BY DEF Handed, S!Deliver
<1>2. /\ m \in Report /\ c \in Channels /\ m.call \in 1..MaxCalls /\ m = Head(unread) /\ 1 \in DOMAIN unread
      /\ \A b, k, w : Has(unread, b, k, w) <=> Has(unread', b, k, w) \/ (c = b /\ m.call = k /\ w = d)
      /\ \A b, k : Earlier(unread, b, k) <=> Earlier(unread', b, k) \/ (c = b /\ m.call < k)
      /\ \A k \in 1..(MaxCalls + 1) : Earlier(unread, c, k) => m.call < k
      /\ \A k, w : Has(unread, c, k, w) => m.call <= k
  BY <1>1, OldestTaken
<1>3. d \in Directions /\ d # "hangup"
  BY <1>2 DEF Report
<1>4. at = "idle" /\ at' = "rtcp" /\ told' = [told EXCEPT ![c] = Heard(@, d, now)]
      /\ now' = now /\ due' = due
  BY <1>2 DEF Handed, RtcpArrives
<1> HIDE DEF d, c, m
<1>5. /\ known' = [known EXCEPT ![c] = Heard(@, d, now)] /\ known \in [Channels -> Entry]
      /\ dueSoon' = dueSoon /\ nextCall' = nextCall
      /\ UNCHANGED <<calls, spoilt, truth, meant>>
  BY <1>1, <1>2, <1>4 DEF known, dueSoon, nextCall, Ready, TypeOK
<1>6. /\ OrderInv /\ FollowInv /\ TruthInv
      /\ calls \in [Channels -> 0..MaxCalls] /\ nextCall \in [Channels -> 1..(MaxCalls + 1)]
      /\ \A b \in Channels : calls[b] <= nextCall[b]
  BY DEF Ready, CallsInv, StreamInv, nextCall
<1>7. ASSUME NEW b \in Channels, NEW k \in 1..(MaxCalls + 1), k <= nextCall[b], <<b, k>> \notin spoilt,
             b = c => m.call <= k
      PROVE  Alike(WillTell(unread', known'[b], now, b, k), WillTell(unread, known[b], now, b, k))
  <2>1. CASE b # c
    <3>1. known'[b] = known[b]
      BY <1>5, <2>1
    <3>2. WillTell(unread', known[b], now, b, k) = WillTell(unread, known[b], now, b, k)
      BY <1>2, <2>1, WillTellSame
    <3> QED
      BY <3>1, <3>2 DEF Alike
  <2>2. CASE b = c /\ k = m.call
    <3>1. known'[c] = Heard(known[c], d, now)
      BY <1>2, <1>5
    <3>2. ~Earlier(unread, c, k) /\ ~Earlier(unread', c, k)
      BY <1>2, <2>2
    <3>3. \A e \in Directions : Has(unread, c, k, e) <=> Has(unread', c, k, e) \/ e = d
      BY <1>2, <2>2
    <3>4. Alike(WillTell(unread', Heard(known[c], d, now), now, c, k), WillTell(unread, known[c], now, c, k))
      BY <1>3, <3>2, <3>3, WillTellTaken
    <3> QED
      BY <2>2, <3>1, <3>4
  <2>3. CASE b = c /\ k > m.call
    <3>1. Has(unread, c, k - 1, "hangup")
      <4>1. /\ m.call <= k - 1 /\ k - 1 < nextCall[c] /\ k - 1 \in 1..MaxCalls
            /\ <<c, (k - 1) + 1>> \notin spoilt
        BY <1>2, <1>6, <1>7, <2>3
      <4> QED
        BY <1>2, <1>6, <4>1 DEF FollowInv, c, m
    <3>2. Earlier(unread', c, k)
      <4>1. Has(unread', c, k - 1, "hangup")
        BY <1>2, <1>3, <3>1
      <4> QED
        BY <4>1 DEF Has, Earlier
    <3>3. Earlier(unread, c, k) /\ \A e \in Directions : Has(unread', c, k, e) <=> Has(unread, c, k, e)
      BY <1>2, <2>3, <3>2
    <3>4. WillTell(unread', known'[c], now, c, k) = WillTell(unread, known[c], now, c, k)
      BY <3>2, <3>3, WillTellLater
    <3> QED
      BY <2>3, <3>4 DEF Alike
  <2> QED
    BY <1>2, <1>7, <2>1, <2>2, <2>3
<1>8. OrderInv' /\ FollowInv'
  BY <1>1, <1>5, TakenInOrder, TakenFollows
<1>9. TruthInv'
  <2> SUFFICES ASSUME NEW b \in Channels, <<b, nextCall[b]>> \notin spoilt
               PROVE  Alike(WillTell(unread', known'[b], now, b, nextCall[b]), truth[b])
    BY <1>4, <1>5 DEF TruthInv
  <2>1. b = c => m.call <= nextCall[b]
    BY <1>2, <1>6 DEF OrderInv, c, m
  <2>2. Alike(WillTell(unread', known'[b], now, b, nextCall[b]), WillTell(unread, known[b], now, b, nextCall[b]))
    BY <1>6, <1>7, <2>1
  <2>3. Alike(WillTell(unread, known[b], now, b, nextCall[b]), truth[b])
    BY <1>6 DEF TruthInv
  <2> QED
    BY <2>2, <2>3, AlikeTransitive
<1>10. CountInv'
  <2>1. ASSUME NEW b \in Channels, NEW k \in 1..MaxCalls, k < nextCall[b]
        PROVE  /\ Has(unread', b, k, "hangup") <=> Has(unread, b, k, "hangup")
               /\ <<b, k>> \notin spoilt /\ Has(unread, b, k, "hangup") =>
                      Verdict(WillTell(unread', known'[b], now, b, k), now)
                          = Verdict(WillTell(unread, known[b], now, b, k), now)
    <3>1. Has(unread', b, k, "hangup") <=> Has(unread, b, k, "hangup")
      BY <1>2, <1>3
    <3>2. ASSUME <<b, k>> \notin spoilt, Has(unread, b, k, "hangup")
          PROVE  Verdict(WillTell(unread', known'[b], now, b, k), now)
                     = Verdict(WillTell(unread, known[b], now, b, k), now)
      <4>1. b = c => m.call <= k
        BY <1>2, <3>2
      <4>2. k <= nextCall[b] /\ k \in 1..(MaxCalls + 1)
        BY <1>6, <2>1
      <4> QED
        BY <1>7, <3>2, <4>1, <4>2, AlikeVerdict
    <3> QED
      BY <3>1, <3>2
  <2>2. IsFiniteSet(spoilt')
    BY <1>5, ReadyCounts
  <2> QED
    BY <1>4, <1>5, <2>1, <2>2, CountKept
<1> QED
  BY <1>8, <1>9, <1>10 DEF Counts

\* A Hangup: its call is judged by what is known, which is forgotten.
LEMMA HangupHandedStep ==
    ASSUME Ready, StreamInv', Handed, Head(unread).what = "hangup"
    PROVE  Counts'
<1> DEFINE m == unread[1]
           c == m.chan
           n == m.call
           id == <<c, n>>
<1>1. unread # <<>> /\ unread' = Tail(unread) /\ UNCHANGED pbx
  BY DEF Handed, S!Deliver
<1>2. /\ c \in Channels /\ n \in 1..MaxCalls /\ m = Head(unread) /\ 1 \in DOMAIN unread /\ m.what = "hangup"
      /\ \A b, k, w : Has(unread, b, k, w) <=> Has(unread', b, k, w) \/ (c = b /\ n = k /\ w = "hangup")
      /\ \A b, k : Earlier(unread, b, k) <=> Earlier(unread', b, k) \/ (c = b /\ n < k)
      /\ \A k \in 1..(MaxCalls + 1) : Earlier(unread, c, k) => n < k
      /\ \A k, w : Has(unread, c, k, w) => n <= k
      /\ \A k, w : Has(unread', c, k, w) => n < k
  BY <1>1, OldestTaken
<1>3. \A d \in Directions : d # "hangup"
  OBVIOUS
<1>4. /\ at = "idle" /\ at' = "hangup" /\ chan' = c /\ read' = now /\ UNCHANGED <<told, due, now>>
  BY <1>2 DEF Handed, HangupArrives
<1>5. /\ OrderInv /\ FollowInv /\ TruthInv
      /\ calls \in [Channels -> 0..MaxCalls] /\ nextCall \in [Channels -> 1..(MaxCalls + 1)]
      /\ \A b \in Channels : calls[b] <= nextCall[b]
  BY DEF Ready, CallsInv, StreamInv, nextCall
<1>6. n < nextCall[c]
  BY <1>2, <1>5 DEF OrderInv
<1>7. id \in Channels \X (1..MaxCalls)
  BY <1>2
<1> HIDE DEF c, m, n
<1>8. /\ known' = [known EXCEPT ![c] = Absent] /\ known \in [Channels -> Entry] /\ nextCall' = nextCall
      /\ dueSoon' = Counted(dueSoon, Verdict(known[c], now)) /\ dueSoon \in [Reasons -> Nat]
      /\ UNCHANGED <<calls, spoilt, truth, meant>>
  BY <1>1, <1>2, <1>4 DEF known, dueSoon, nextCall, Ready, TypeOK
<1>9. ASSUME NEW b \in Channels, NEW k \in 1..(MaxCalls + 1), b = c => n < k
      PROVE  WillTell(unread', known'[b], now, b, k) = WillTell(unread, known[b], now, b, k)
  <2>1. CASE b # c
    <3>1. known'[b] = known[b]
      BY <1>8, <2>1
    <3>2. WillTell(unread', known[b], now, b, k) = WillTell(unread, known[b], now, b, k)
      BY <1>2, <2>1, WillTellSame
    <3> QED
      BY <3>1, <3>2
  <2>2. CASE b = c
    <3>1. known'[c].seen = {} /\ Earlier(unread, c, k)
      BY <1>2, <1>8, <1>9, <2>2 DEF Absent
    <3>2. \A e \in Directions : Has(unread', c, k, e) <=> Has(unread, c, k, e)
      BY <1>2, <1>3
    <3>3. WillTell(unread', known'[c], now, c, k) = WillTell(unread, known[c], now, c, k)
      BY <3>1, <3>2, WillTellLater
    <3> QED
      BY <2>2, <3>3
  <2> QED
    BY <2>1, <2>2
<1>10. Verdict(WillTell(unread, known[c], now, c, n), now) = Verdict(known[c], now)
  <2>1. ~Earlier(unread, c, n)
    BY <1>2
  <2>2. \A e \in Directions : ~Has(unread, c, n, e)
    BY <1>2, <1>3
  <2>3. Alike(WillTell(unread, known[c], now, c, n), known[c])
    BY <2>1, <2>2, WillTellKnown
  <2> QED
    BY <2>3, AlikeVerdict
<1>11. OrderInv' /\ FollowInv'
  BY <1>1, <1>8, TakenInOrder, TakenFollows
<1>12. TruthInv'
  <2> SUFFICES ASSUME NEW b \in Channels, <<b, nextCall[b]>> \notin spoilt
               PROVE  Alike(WillTell(unread', known'[b], now, b, nextCall[b]), truth[b])
    BY <1>4, <1>8 DEF TruthInv
  <2>1. WillTell(unread', known'[b], now, b, nextCall[b]) = WillTell(unread, known[b], now, b, nextCall[b])
    BY <1>5, <1>6, <1>9
  <2> QED
    BY <1>5, <2>1 DEF TruthInv
<1>13. CountInv'
  <2>1. /\ Members /\ Places /\ Members' /\ Places' /\ IsFiniteSet(spoilt)
        /\ \A r \in Reasons : Accounted(dueSoon[r], meant[r], coming[r], settled, wrong)
    BY ReadyCounts, MembersAreNext
  <2>2. wrong' = wrong
    <3>1. \A b \in Channels, k \in 1..MaxCalls : <<b, k>> \in wrong' <=> <<b, k>> \in wrong
      BY <1>8, <2>1 DEF Members
    <3> QED
      BY <2>1, <3>1, SameCalls DEF Places
  <2>3. /\ Has(unread, c, n, "hangup") /\ ~Has(unread', c, n, "hangup")
        /\ \A b \in Channels, k \in 1..MaxCalls : <<b, k>> # id =>
              (Has(unread', b, k, "hangup") <=> Has(unread, b, k, "hangup"))
    BY <1>2
  <2>4. id \in wrong <=> id \in spoilt
    BY <1>2, <1>6, <2>1 DEF Members
  <2>5. settled' = IF id \in spoilt THEN settled \cup {id} ELSE settled
    <3> DEFINE D == IF id \in spoilt THEN settled \cup {id} ELSE settled
    <3>1. ASSUME NEW b \in Channels, NEW k \in 1..MaxCalls PROVE <<b, k>> \in settled' <=> <<b, k>> \in D
      <4>1. /\ <<b, k>> \in settled' <=> <<b, k>> \in wrong /\ ~Has(unread', b, k, "hangup")
            /\ <<b, k>> \in settled <=> <<b, k>> \in wrong /\ ~Has(unread, b, k, "hangup")
        BY <2>1, <2>2 DEF Members
      <4>2. CASE <<b, k>> = id
        BY <2>3, <2>4, <4>1, <4>2
      <4>3. CASE <<b, k>> # id
        BY <2>3, <4>1, <4>3
      <4> QED
        BY <4>2, <4>3
    <3>2. D \subseteq Channels \X (1..MaxCalls) /\ settled' \subseteq Channels \X (1..MaxCalls)
      BY <1>7, <2>1 DEF Places
    <3> HIDE DEF D
    <3>3. settled' = D
      BY <3>1, <3>2, SameCalls
    <3> QED
      BY <3>3 DEF D
  <2>6. ASSUME NEW r \in Reasons
        PROVE  /\ coming'[r] = coming[r] \ {id}
               /\ id \in coming[r] <=> id \notin spoilt /\ r \in Verdict(known[c], now)
    <3>1. id \in coming[r] <=> id \notin spoilt /\ r \in Verdict(known[c], now)
      BY <1>2, <1>6, <1>10, <2>1, <2>3 DEF Members
    <3>2. ASSUME NEW b \in Channels, NEW k \in 1..MaxCalls
          PROVE  <<b, k>> \in coming'[r] <=> <<b, k>> \in coming[r] \ {id}
      <4>1. /\ <<b, k>> \in coming'[r] <=>
                  /\ k < nextCall[b] /\ <<b, k>> \notin spoilt /\ Has(unread', b, k, "hangup")
                  /\ r \in Verdict(WillTell(unread', known'[b], now, b, k), now)
            /\ <<b, k>> \in coming[r] <=>
                  /\ k < nextCall[b] /\ <<b, k>> \notin spoilt /\ Has(unread, b, k, "hangup")
                  /\ r \in Verdict(WillTell(unread, known[b], now, b, k), now)
        BY <1>4, <1>8, <2>1 DEF Members
      <4>2. CASE <<b, k>> = id
        BY <2>3, <4>1, <4>2
      <4>3. CASE <<b, k>> # id /\ Has(unread, b, k, "hangup")
        <5>1. b = c => n < k
          BY <1>2, <4>3
        <5>2. k \in 1..(MaxCalls + 1)
          OBVIOUS
        <5>3. WillTell(unread', known'[b], now, b, k) = WillTell(unread, known[b], now, b, k)
          BY <1>9, <5>1, <5>2
        <5> QED
          BY <2>3, <4>1, <4>3, <5>3
      <4>4. CASE <<b, k>> # id /\ ~Has(unread, b, k, "hangup")
        BY <2>3, <4>1, <4>4
      <4> QED
        BY <4>2, <4>3, <4>4
    <3>3. coming[r] \ {id} \subseteq Channels \X (1..MaxCalls) /\ coming'[r] \subseteq Channels \X (1..MaxCalls)
      BY <2>1 DEF Places
    <3>4. coming'[r] = coming[r] \ {id}
      BY <3>2, <3>3, SameCalls
    <3> QED
      BY <3>1, <3>4
  <2>7. ASSUME NEW r \in Reasons PROVE Balanced(dueSoon'[r], meant[r], coming'[r], settled', wrong)
    <3>1. Accounted(dueSoon[r], meant[r], coming[r], settled, wrong)
      BY <2>1
    <3>2. dueSoon'[r] = IF r \in Verdict(known[c], now) THEN dueSoon[r] + 1 ELSE dueSoon[r]
      BY <1>8, CountedValue
    <3> HIDE DEF id
    <3>3. CASE id \in spoilt
      <4>1. id \in wrong \ settled /\ coming'[r] = coming[r] /\ settled' = settled \cup {id}
        <5>1. id \notin settled
          BY <1>2, <2>1, <2>3 DEF Members, id
        <5> QED
          BY <2>4, <2>5, <2>6, <3>3, <5>1
      <4>2. dueSoon'[r] \in {dueSoon[r], dueSoon[r] + 1}
        BY <3>2
      <4>3. Balanced(dueSoon'[r], meant[r], coming[r], settled \cup {id}, wrong)
        BY <3>1, <4>1, <4>2, CallJudgedOff
      <4> QED
        BY <4>1, <4>3
    <3>4. CASE id \in coming[r]
      <4>1. Balanced(dueSoon[r] + 1, meant[r], coming[r] \ {id}, settled, wrong)
        BY <3>1, <3>4, CallJudgedDue, Zenon
      <4> QED
        BY <2>5, <2>6, <3>2, <3>4, <4>1
    <3>5. CASE id \notin spoilt /\ id \notin coming[r]
      <4>1. coming'[r] = coming[r] /\ settled' = settled /\ dueSoon'[r] = dueSoon[r]
        BY <2>5, <2>6, <3>2, <3>5
      <4> QED
        BY <3>1, <4>1 DEF Accounted
    <3> QED
      BY <3>3, <3>4, <3>5
  <2> QED
    BY <1>8, <2>1, <2>2, <2>7 DEF CountInv
<1> QED
  BY <1>11, <1>12, <1>13 DEF Counts

-----------------------------------------------------------------------------
(* The stream loses messages *)

\* What is kept, and what the rest spoils.
LEMMA LosesKept ==
    ASSUME StreamInv, NEW kept \in 0..Len(unread), Loses(kept)
    PROVE  /\ DOMAIN unread' = 1..kept /\ 1..kept \subseteq DOMAIN unread
           /\ \A i \in 1..kept : unread'[i] = unread[i]
           /\ \A i \in DOMAIN unread : i > kept => SpoiltBy(unread[i]) \subseteq spoilt'
           /\ spoilt \subseteq spoilt' /\ (IsFiniteSet(spoilt) => IsFiniteSet(spoilt'))
<1> DEFINE gone == SubSeq(unread, kept + 1, Len(unread))
<1>1. /\ unread \in Seq(Report) /\ DOMAIN unread = 1..Len(unread) /\ Len(unread) \in Nat /\ kept \in Nat
      /\ \A i \in DOMAIN unread : unread[i] \in Report
  BY OnTheWay DEF StreamInv
<1>2. unread' = SubSeq(unread, 1, kept) /\ spoilt' = spoilt \cup SpoiltByAll(gone)
  <2>1. CASE S!Lose(kept)
    BY <2>1 DEF Loses, S!Lose
  <2>2. CASE kept = 0 /\ S!Release
    <3>1. SubSeq(unread, 1, 0) = <<>>
      BY SubSeqEmpty
    <3> QED
      BY <2>2, <3>1 DEF Loses, S!Release
  <2> QED
    BY <2>1, <2>2 DEF Loses
<1>3. /\ gone \in Seq(Report) /\ DOMAIN gone = 1..(Len(unread) - kept)
      /\ \A j \in DOMAIN gone : gone[j] = unread[kept + j]
  <2>1. \A j \in kept + 1..Len(unread) : unread[j] \in Report
    BY <1>1
  <2> QED
    BY <1>1, <2>1, SubSeqProperties, LenProperties
<1> HIDE DEF gone
<1>4. ASSUME NEW i \in DOMAIN unread, i > kept PROVE SpoiltBy(unread[i]) \subseteq spoilt'
  <2>1. i - kept \in DOMAIN gone /\ gone[i - kept] = unread[i]
    BY <1>1, <1>3, <1>4
  <2>2. SpoiltBy(gone[i - kept]) \subseteq SpoiltByAll(gone)
    BY <2>1 DEF SpoiltByAll
  <2> QED
    BY <1>2, <2>1, <2>2
<1>5. IsFiniteSet(spoilt) => IsFiniteSet(spoilt')
  BY <1>2, <1>3, SpoiltFinite, FS_Union
<1> QED
  BY <1>1, <1>2, <1>4, <1>5, Keeping

\* Of a call that is not spoilt now, everything that is needed to judge it is kept.
LEMMA LosesSpares ==
    ASSUME Ready, NEW kept \in 0..Len(unread), Loses(kept),
           NEW c \in Channels, NEW k \in 1..(MaxCalls + 1), <<c, k>> \notin spoilt',
           k = nextCall[c] \/ (k < nextCall[c] /\ Has(unread, c, k, "hangup"))
    PROVE  /\ \A w : Has(unread', c, k, w) <=> Has(unread, c, k, w)
           /\ Earlier(unread', c, k) <=> Earlier(unread, c, k)
<1>1. /\ DOMAIN unread' = 1..kept /\ 1..kept \subseteq DOMAIN unread
      /\ \A i \in 1..kept : unread'[i] = unread[i]
      /\ \A i \in DOMAIN unread : i > kept => SpoiltBy(unread[i]) \subseteq spoilt'
      /\ spoilt \subseteq spoilt'
  BY LosesKept DEF Ready
<1>2. /\ DOMAIN unread = 1..Len(unread) /\ Len(unread) \in Nat /\ kept \in Nat
      /\ \A i \in DOMAIN unread : unread[i].chan \in Channels /\ unread[i].call \in 1..MaxCalls
  BY OnTheWay DEF Ready
<1>3. OrderInv /\ FollowInv /\ nextCall[c] \in Nat /\ calls[c] \in Nat /\ calls[c] <= nextCall[c]
  BY DEF Ready, CallsInv, StreamInv, nextCall
<1>4. ASSUME NEW j \in DOMAIN unread, unread[j].chan = c, unread[j].call <= k PROVE j \in 1..kept
  <2> SUFFICES ASSUME j > kept PROVE FALSE
    BY <1>2
  <2>1. ASSUME NEW i \in DOMAIN unread, i > kept, unread[i].chan = c
        PROVE  unread[i].call # k /\ (unread[i].what = "hangup" => unread[i].call + 1 # k)
    BY <1>1, <2>1 DEF SpoiltBy
  <2>2. unread[j].call < k
    BY <1>2, <1>4, <2>1
  <2>3. CASE k < nextCall[c]
    <3>1. PICK i \in DOMAIN unread : unread[i].chan = c /\ unread[i].call = k
      BY <2>3 DEF Has
    <3>2. i > kept
      BY <1>2, <1>3, <1>4, <2>2, <3>1 DEF OrderInv
    <3> QED
      BY <2>1, <3>1, <3>2
  <2>4. CASE k = nextCall[c]
    <3>1. Has(unread, c, k - 1, "hangup")
      <4>1. /\ unread[j].call <= k - 1 /\ k - 1 < nextCall[c] /\ k - 1 \in 1..MaxCalls
            /\ <<c, (k - 1) + 1>> \notin spoilt
        BY <1>1, <1>2, <2>2, <2>4, SMTT(40)
      <4> QED
        BY <1>3, <1>4, <4>1 DEF FollowInv
    <3>2. PICK i \in DOMAIN unread : unread[i].chan = c /\ unread[i].call = k - 1 /\ unread[i].what = "hangup"
      BY <3>1 DEF Has
    <3>3. i <= kept
      BY <1>2, <2>1, <3>2
    <3>4. unread[i].call < unread[j].call
      BY <1>2, <1>3, <1>4, <3>2, <3>3 DEF OrderInv
    <3> QED
      BY <1>2, <2>2, <3>2, <3>4
  <2> QED
    BY <2>3, <2>4
<1>5. \A w : Has(unread', c, k, w) <=> Has(unread, c, k, w)
  BY <1>1, <1>4 DEF Has
<1>6. Earlier(unread', c, k) <=> Earlier(unread, c, k)
  BY <1>1, <1>2, <1>4 DEF Earlier
<1> QED
  BY <1>5, <1>6

\* However much is lost, the calls it leaves unspoilt are judged as before, and the
\* others are off.
LEMMA LosesStep ==
    ASSUME Ready, StreamInv', NEW kept \in 0..Len(unread), Loses(kept)
    PROVE  Counts'
<1>1. /\ DOMAIN unread' = 1..kept /\ 1..kept \subseteq DOMAIN unread
      /\ \A i \in 1..kept : unread'[i] = unread[i]
      /\ \A i \in DOMAIN unread : i > kept => SpoiltBy(unread[i]) \subseteq spoilt'
      /\ spoilt \subseteq spoilt' /\ IsFiniteSet(spoilt')
  BY LosesKept, ReadyCounts DEF Ready
<1>2. /\ now' = now /\ known' = known /\ dueSoon' = dueSoon /\ nextCall' = nextCall
      /\ UNCHANGED <<calls, truth, meant>>
  BY DEF Loses, vars, handler, history, known, dueSoon, nextCall
<1>3. /\ OrderInv /\ FollowInv /\ TruthInv
      /\ nextCall \in [Channels -> 1..(MaxCalls + 1)]
      /\ \A i \in DOMAIN unread : unread[i].chan \in Channels
  BY OnTheWay DEF Ready, CallsInv, StreamInv, nextCall
<1>4. OrderInv'
  BY <1>1, <1>2, <1>3 DEF OrderInv
<1>5. FollowInv'
  <2> SUFFICES ASSUME NEW i \in 1..kept, NEW k \in 1..MaxCalls,
                      unread[i].call <= k, k < nextCall[unread[i].chan],
                      <<unread[i].chan, k>> \notin spoilt' \/ <<unread[i].chan, k + 1>> \notin spoilt'
               PROVE  Has(unread', unread[i].chan, k, "hangup")
    BY <1>1, <1>2 DEF FollowInv
  <2>1. Has(unread, unread[i].chan, k, "hangup")
    BY <1>1, <1>3 DEF FollowInv
  <2>2. PICK j \in DOMAIN unread : /\ unread[j].chan = unread[i].chan /\ unread[j].call = k
                                   /\ unread[j].what = "hangup"
    BY <2>1 DEF Has
  <2>3. ~(j > kept)
    BY <1>1, <2>2 DEF SpoiltBy
  <2>4. j \in 1..kept
    BY <2>3, OnTheWay DEF Ready
  <2> QED
    BY <1>1, <2>2, <2>4 DEF Has
<1>6. TruthInv'
  <2> SUFFICES ASSUME NEW c \in Channels, <<c, nextCall[c]>> \notin spoilt'
               PROVE  Alike(WillTell(unread', known[c], now, c, nextCall[c]), truth[c])
    BY <1>2 DEF TruthInv
  <2>1. WillTell(unread', known[c], now, c, nextCall[c]) = WillTell(unread, known[c], now, c, nextCall[c])
    BY <1>3, LosesSpares, WillTellSame
  <2> QED
    BY <1>1, <1>3, <2>1 DEF TruthInv
<1>7. CountInv'
  <2>1. /\ Members /\ Places /\ Members' /\ Places'
        /\ \A r \in Reasons : Accounted(dueSoon[r], meant[r], coming[r], settled, wrong)
    BY ReadyCounts, MembersAreNext
  <2>2. ASSUME NEW c \in Channels, NEW k \in 1..MaxCalls, Has(unread', c, k, "hangup")
        PROVE  Has(unread, c, k, "hangup")
    BY <1>1, <2>2 DEF Has
  <2>3. wrong \subseteq wrong' /\ settled \subseteq settled' /\ settled' \subseteq wrong'
    <3>1. ASSUME NEW c \in Channels, NEW k \in 1..MaxCalls
          PROVE  /\ <<c, k>> \in wrong => <<c, k>> \in wrong'
                 /\ <<c, k>> \in settled => <<c, k>> \in settled'
      BY <1>1, <1>2, <2>1, <2>2 DEF Members
    <3>2. \A x \in Channels \X (1..MaxCalls) : \E c \in Channels, k \in 1..MaxCalls : x = <<c, k>>
      OBVIOUS
    <3> QED
      BY <2>1, <3>1, <3>2 DEF Places
  <2>4. ASSUME NEW r \in Reasons
        PROVE  coming'[r] \subseteq coming[r] /\ coming[r] \ coming'[r] \subseteq wrong' \ wrong
    <3>1. ASSUME NEW c \in Channels, NEW k \in 1..MaxCalls
          PROVE  /\ <<c, k>> \in coming'[r] => <<c, k>> \in coming[r]
                 /\ <<c, k>> \in coming[r] => <<c, k>> \in coming'[r] \/ <<c, k>> \in wrong' \ wrong
      <4>1. /\ <<c, k>> \in coming'[r] <=>
                  /\ k < nextCall[c] /\ <<c, k>> \notin spoilt' /\ Has(unread', c, k, "hangup")
                  /\ r \in Verdict(WillTell(unread', known[c], now, c, k), now)
            /\ <<c, k>> \in coming[r] <=>
                  /\ k < nextCall[c] /\ <<c, k>> \notin spoilt /\ Has(unread, c, k, "hangup")
                  /\ r \in Verdict(WillTell(unread, known[c], now, c, k), now)
            /\ <<c, k>> \in wrong' <=> <<c, k>> \in spoilt' /\ k < nextCall[c]
            /\ <<c, k>> \in wrong <=> <<c, k>> \in spoilt /\ k < nextCall[c]
        BY <1>2, <2>1 DEF Members
      <4>2. CASE k < nextCall[c] /\ <<c, k>> \notin spoilt' /\ Has(unread, c, k, "hangup")
        <5>1. /\ \A w : Has(unread', c, k, w) <=> Has(unread, c, k, w)
              /\ Earlier(unread', c, k) <=> Earlier(unread, c, k)
          <6>1. k \in 1..(MaxCalls + 1)
            OBVIOUS
          <6> QED
            BY <4>2, <6>1, LosesSpares
        <5>2. WillTell(unread', known[c], now, c, k) = WillTell(unread, known[c], now, c, k)
          BY <5>1, WillTellSame
        <5> QED
          BY <1>1, <4>1, <4>2, <5>1, <5>2
      <4>3. CASE ~(k < nextCall[c] /\ <<c, k>> \notin spoilt' /\ Has(unread, c, k, "hangup"))
        BY <2>2, <4>1, <4>3
      <4> QED
        BY <4>2, <4>3
    <3>2. \A x \in Channels \X (1..MaxCalls) : \E c \in Channels, k \in 1..MaxCalls : x = <<c, k>>
      OBVIOUS
    <3> QED
      BY <2>1, <3>1, <3>2 DEF Places
  <2>5. IsFiniteSet(wrong')
    BY <1>1, FS_Intersection DEF wrong
  <2>6. ASSUME NEW r \in Reasons PROVE Balanced(dueSoon[r], meant[r], coming'[r], settled', wrong')
    <3>1. Accounted(dueSoon[r], meant[r], coming[r], settled, wrong)
      BY <2>1
    <3> QED
      BY <2>3, <2>4, <2>5, <3>1, CallsSpoilt, Zenon
  <2> QED
    BY <1>1, <1>2, <2>6 DEF CountInv
<1> QED
  BY <1>4, <1>5, <1>6, <1>7 DEF Counts

-----------------------------------------------------------------------------
(* The theorem *)

\* The clock stands still while Handle runs.
LEMMA NextReadInv == Ready /\ [NextCalls]_allVars => ReadInv'
<1> SUFFICES ASSUME Ready, [NextCalls]_allVars PROVE ReadInv'
    OBVIOUS
<1> USE DEF handler, gc, history, vars
<1>1. ReadInv
  BY DEF Ready, CallsInv
<1>2. CASE \/ \E c \in Channels : Rings(c) \/ HangsUp(c) \/ \E d \in Directions : RtcpSeen(c, d)
           \/ Reconnects \/ (\E kept \in 0..Len(unread) : Loses(kept))
           \/ UNCHANGED allVars
  BY <1>1, <1>2 DEF ReadInv, Rings, HangsUp, RtcpSeen, Reconnects, Loses, allVars
<1>3. CASE Handed
  BY <1>3 DEF ReadInv, Handed, HangupArrives, RtcpArrives
<1>4. CASE Handles
  BY <1>1, <1>4 DEF ReadInv, Handles, Handling, RtcpRecorded, HangupTaken, HangupJudged, HandleReturns
<1>5. CASE TimePasses
  BY <1>5 DEF ReadInv, TimePasses, Tick
<1>6. CASE \E s \in Scrapers : Scraped(s)
  BY <1>1, <1>6 DEF ReadInv, Scraped, Sweeping, GcReadsClock, GcSweeps
<1> QED
  BY <1>2, <1>3, <1>4, <1>5, <1>6 DEF NextCalls

\* No step breaks the invariant.
LEMMA NextCallsInv == Ready /\ StreamInv' /\ [NextCalls]_allVars => CallsInv'
<1> SUFFICES ASSUME Ready, StreamInv', [NextCalls]_allVars PROVE CallsInv'
    OBVIOUS
<1>1. Counts'
  <2>1. CASE \/ \E c \in Channels : Rings(c)
             \/ Reconnects \/ Handles \/ (\E s \in Scrapers : Scraped(s)) \/ UNCHANGED allVars
    BY <2>1, QuietSteps, QuietStep
  <2>2. CASE \E c \in Channels : HangsUp(c) \/ \E d \in Directions : RtcpSeen(c, d)
    BY <2>2, HangsUpStep, RtcpSeenStep
  <2>3. CASE Handed
    BY <2>3, HangupHandedStep, RtcpHandedStep
  <2>4. CASE \E kept \in 0..Len(unread) : Loses(kept)
    BY <2>4, LosesStep
  <2>5. CASE TimePasses
    BY <2>5, TimeStep
  <2> QED
    BY <2>1, <2>2, <2>3, <2>4, <2>5 DEF NextCalls
<1>2. ReadInv'
  BY NextReadInv
<1> QED
  BY <1>1, <1>2 DEF Counts, CallsInv

\* It holds before the first call.
LEMMA InitCallsInv == InitCalls /\ StreamInv => CallsInv
<1> SUFFICES ASSUME InitCalls, StreamInv PROVE CallsInv
    OBVIOUS
<1>1. /\ unread = <<>> /\ spoilt = {} /\ talking = {} /\ at = "idle" /\ now = 0
      /\ told = [c \in Channels |-> Absent] /\ truth = [c \in Channels |-> Absent]
      /\ due = [r \in Reasons |-> 0] /\ meant = [r \in Reasons |-> 0]
  BY DEF InitCalls, Init, S!Init
<1>2. \A c, k, w : ~Has(unread, c, k, w) /\ ~Earlier(unread, c, k)
  BY <1>1 DEF Has, Earlier
<1>3. OrderInv /\ FollowInv /\ ReadInv
  BY <1>1 DEF OrderInv, FollowInv, ReadInv
<1>4. TruthInv
  <2>1. known = truth
    BY <1>1 DEF known
  <2> QED
    BY <1>2, <2>1, WillTellKnown DEF TruthInv
<1>5. CountInv
  <2>1. wrong = {} /\ settled = {} /\ IsFiniteSet({}) /\ Cardinality({}) = 0
    BY <1>1, FS_EmptySet DEF wrong, settled
  <2>2. Members /\ Places
    BY MembersAre
  <2>3. ASSUME NEW r \in Reasons PROVE coming[r] = {}
    <3>1. \A c \in Channels, k \in 1..MaxCalls : <<c, k>> \in coming[r] <=> <<c, k>> \in {}
      BY <1>2, <2>2 DEF Members
    <3> QED
      BY <2>2, <3>1, SameCalls DEF Places
  <2>4. \A r \in Reasons : dueSoon[r] = 0 /\ meant[r] = 0
    BY <1>1 DEF dueSoon
  <2>5. Balanced(0, 0, {}, {}, {})
    BY <2>1 DEF Balanced
  <2>6. \A r \in Reasons : Balanced(dueSoon[r], meant[r], coming[r], settled, wrong)
    BY <2>1, <2>3, <2>4, <2>5
  <2> QED
    BY <1>1, <2>1, <2>6 DEF CountInv
<1> QED
  BY <1>3, <1>4, <1>5 DEF CallsInv

\* When nothing is on the way, no call is still to be judged.
LEMMA CallsInvBounds ==
    TypeOK /\ StreamInv /\ HistoryTypeOK /\ CallsInv /\ VerdictErrorBounded => ErrorsAreSpoiltCalls
<1> SUFFICES ASSUME TypeOK, StreamInv, HistoryTypeOK, CallsInv, VerdictErrorBounded,
                    at = "idle", unread = <<>>, NEW r \in Reasons
             PROVE  /\ oneWay[r] - meant[r] <= Cardinality(spoilt \cap Ended) + blind
                    /\ meant[r] - oneWay[r] <= Cardinality(spoilt \cap Ended) + blind
  BY DEF ErrorsAreSpoiltCalls
<1>1. Ready
  BY DEF Ready
<1>2. coming[r] = {}
  <2>1. Members /\ Places
    BY MembersAre
  <2>2. \A c, k, w : ~Has(unread, c, k, w)
    BY DEF Has
  <2>3. \A c \in Channels, k \in 1..MaxCalls : <<c, k>> \in coming[r] <=> <<c, k>> \in {}
    BY <2>1, <2>2 DEF Members
  <2> QED
    BY <2>1, <2>3, SameCalls DEF Places
<1>3. /\ due[r] - meant[r] <= Cardinality(settled) /\ meant[r] - due[r] <= Cardinality(wrong)
      /\ due[r] \in Nat /\ meant[r] \in Nat /\ settled \subseteq wrong /\ IsFiniteSet(wrong)
  <2>1. Accounted(dueSoon[r], meant[r], coming[r], settled, wrong) /\ dueSoon = due
    BY <1>1, ReadyCounts DEF dueSoon
  <2>2. Cardinality(coming[r]) = 0 /\ Cardinality(settled) \in Nat /\ Cardinality(wrong) \in Nat
    BY <1>2, <2>1, FS_EmptySet, FS_Subset, FS_CardinalityType DEF Accounted
  <2> QED
    BY <2>1, <2>2 DEF Accounted, Balanced
<1>4. /\ Cardinality(settled) <= Cardinality(wrong)
      /\ Cardinality(settled) \in Nat /\ Cardinality(wrong) \in Nat
  BY <1>3, FS_Subset, FS_CardinalityType
<1>5. oneWay[r] - due[r] <= blind /\ due[r] - oneWay[r] <= blind /\ blind \in Nat /\ oneWay[r] \in Nat
  BY DEF VerdictErrorBounded, TypeOK
<1> QED
  BY <1>3, <1>4, <1>5 DEF wrong

\* However the connection breaks, however much of a session is lost, and however
\* channel names are reused, the one-way counter is off by no more than the ended
\* calls that lost an event or follow a lost Hangup, and those a sweep cut short.
THEOREM ErrorsCorrect == SpecCalls => []ErrorsAreSpoiltCalls
<1>1. InitCalls /\ StreamInv => CallsInv
  BY InitCallsInv
<1>2. TypeOK /\ StreamInv /\ HistoryTypeOK /\ CallsInv /\ StreamInv' /\ [NextCalls]_allVars => CallsInv'
  BY NextCallsInv DEF Ready
<1>3. InitCalls => HistoryTypeOK
  BY AbsentType DEF InitCalls, HistoryTypeOK
<1> QED
  BY <1>1, <1>2, <1>3, CallsInvBounds, NextHistoryType, StreamCorrect, CallsUseAggregator,
     TypeCorrect, VerdictsCorrect, PTL DEF SpecCalls

=============================================================================
