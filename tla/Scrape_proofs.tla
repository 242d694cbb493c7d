---------------------------- MODULE Scrape_proofs ----------------------------
(***************************************************************************)
(* Proofs about Scrape: a scrape is a caller of the client, asterisk_up    *)
(* agrees with the error counters, phases do not hide each other, and on a *)
(* sound connection the failures are those Asterisk answered.              *)
(***************************************************************************)
EXTENDS Scrape, AmiClient_proofs

USE DisabledAssumption
USE DEF Optional, ListPhases

-----------------------------------------------------------------------------
(* A scrape is a caller of the client *)

\* Whatever the scrape does, the connection takes a step of AmiClient or none.
LEMMA ScrapeStepsAreClientSteps == [NextScrape]_allVars => [Next]_vars
<1> SUFFICES ASSUME [NextScrape]_allVars PROVE [Next]_vars
    OBVIOUS
<1>1. CASE Dial \/ CloseConn \/ Report \/ Done \/ UNCHANGED allVars
  BY <1>1 DEF Dial, CloseConn, Report, Done, allVars
<1>2. CASE Issue
  <2>1. CallKind(at) \in Kinds
    BY DEF CallKind, Kinds
  <2> QED
    BY <1>2, <2>1 DEF Issue, Next
<1>3. CASE CallWrites \/ CallGoesOn
  BY <1>3 DEF CallWrites, CallGoesOn, Next, Progress, Write
<1>4. CASE LoginDone \/ PhaseDone \/ LogoffDone
  BY <1>4 DEF LoginDone, PhaseDone, LogoffDone, Next
<1>5. CASE World
  BY <1>5 DEF World, Next
<1> QED
  BY <1>1, <1>2, <1>3, <1>4, <1>5 DEF NextScrape, ScrapeStep

\* So everything proved of the client holds of the scrape's connection.
THEOREM ScrapeIsClient == SpecScrape => Spec
<1>1. InitScrape => Init
  BY DEF InitScrape
<1> QED
  BY <1>1, ScrapeStepsAreClientSteps, PTL DEF SpecScrape, Spec

-----------------------------------------------------------------------------
(* The order of the phases *)

\* FirstFrom passes over disabled phases only.
LEMMA FirstFromIs ==
    ASSUME NEW i \in 1..6, NEW k \in i..6,
           Order[k] \notin Disabled, \A j \in i..k - 1 : Order[j] \in Disabled
    PROVE  FirstFrom(i) = Order[k]
<1> DEFINE P(n) == Order[n] \notin Disabled /\ \A j \in i..n - 1 : Order[j] \in Disabled
           c == CHOOSE n \in i..6 : P(n)
<1>1. c \in i..6 /\ P(c)
  <2>1. \E n \in i..6 : P(n)
    OBVIOUS
  <2> QED
    BY <2>1
<1> HIDE DEF c
<1>2. c = k
  BY <1>1
<1>3. Len(Order) = 6
  BY DEF Order
<1> QED
  BY <1>2, <1>3 DEF FirstFrom, c

\* Where each phase is followed by which.
LEMMA PhaseAfterIs ==
    /\ PhaseAfter("core_status") = "channels"
    /\ PhaseAfter("channels") =
         IF "sip_peers" \notin Disabled THEN "sip_peers"
         ELSE IF "pjsip_endpoints" \notin Disabled THEN "pjsip_endpoints"
         ELSE IF "queues" \notin Disabled THEN "queues" ELSE "logoff"
    /\ PhaseAfter("sip_peers") =
         IF "pjsip_endpoints" \notin Disabled THEN "pjsip_endpoints"
         ELSE IF "queues" \notin Disabled THEN "queues" ELSE "logoff"
    /\ PhaseAfter("pjsip_endpoints") = IF "queues" \notin Disabled THEN "queues" ELSE "logoff"
    /\ PhaseAfter("queues") = "logoff"
<1>1. /\ Order[1] = "settings" /\ Order[2] = "channels" /\ Order[3] = "sip_peers"
      /\ Order[4] = "pjsip_endpoints" /\ Order[5] = "queues" /\ Order[6] = "logoff"
      /\ Len(Order) = 6
  BY DEF Order
<1>2. /\ PhaseOf(Order[1]) = "core_status"
      /\ \A i \in 2..6 : PhaseOf(Order[i]) = Order[i]
  BY <1>1 DEF PhaseOf
<1>3. ASSUME NEW i \in 1..6, NEW p, PhaseOf(Order[i]) = p
      PROVE  PhaseAfter(p) = FirstFrom(1 + i)
  <2> DEFINE c == CHOOSE n \in 1..6 : PhaseOf(Order[n]) = p
  <2>1. c \in 1..6 /\ PhaseOf(Order[c]) = p
    BY <1>3
  <2> HIDE DEF c
  <2>2. c = i
    BY <1>1, <1>2, <1>3, <2>1
  <2> QED
    BY <1>1, <2>2 DEF PhaseAfter, c
<1>4. /\ PhaseAfter("core_status") = FirstFrom(2) /\ PhaseAfter("channels") = FirstFrom(3)
      /\ PhaseAfter("sip_peers") = FirstFrom(4) /\ PhaseAfter("pjsip_endpoints") = FirstFrom(5)
      /\ PhaseAfter("queues") = FirstFrom(6)
  BY <1>1, <1>2, <1>3
<1>5. Order[2] \notin Disabled /\ Order[6] \notin Disabled
  BY <1>1
<1>6. ASSUME NEW i \in 1..6, Order[i] \notin Disabled PROVE FirstFrom(i) = Order[i]
  BY <1>6, FirstFromIs
<1>7. ASSUME NEW i \in 1..5, Order[i] \in Disabled, Order[i + 1] \notin Disabled
      PROVE  FirstFrom(i) = Order[i + 1]
  <2>1. \A j \in i..(i + 1) - 1 : Order[j] \in Disabled
    BY <1>7
  <2> QED
    BY <1>7, <2>1, FirstFromIs
<1>8. ASSUME NEW i \in 1..4, Order[i] \in Disabled, Order[i + 1] \in Disabled,
             Order[i + 2] \notin Disabled
      PROVE  FirstFrom(i) = Order[i + 2]
  <2>1. \A j \in i..(i + 2) - 1 : Order[j] \in Disabled
    BY <1>8
  <2> QED
    BY <1>8, <2>1, FirstFromIs
<1>9. ASSUME NEW i \in 1..3, Order[i] \in Disabled, Order[i + 1] \in Disabled,
             Order[i + 2] \in Disabled, Order[i + 3] \notin Disabled
      PROVE  FirstFrom(i) = Order[i + 3]
  <2>1. \A j \in i..(i + 3) - 1 : Order[j] \in Disabled
    BY <1>9
  <2> QED
    BY <1>9, <2>1, FirstFromIs
<1>10. FirstFrom(2) = "channels" /\ FirstFrom(6) = "logoff"
  BY <1>1, <1>5, <1>6
<1>11. FirstFrom(5) = IF "queues" \notin Disabled THEN "queues" ELSE "logoff"
  BY <1>1, <1>5, <1>6, <1>7
<1>12. FirstFrom(4) = IF "pjsip_endpoints" \notin Disabled THEN "pjsip_endpoints"
                      ELSE IF "queues" \notin Disabled THEN "queues" ELSE "logoff"
  BY <1>1, <1>5, <1>6, <1>7, <1>8
<1>13. FirstFrom(3) = IF "sip_peers" \notin Disabled THEN "sip_peers"
                      ELSE IF "pjsip_endpoints" \notin Disabled THEN "pjsip_endpoints"
                      ELSE IF "queues" \notin Disabled THEN "queues" ELSE "logoff"
  BY <1>1, <1>5, <1>6, <1>7, <1>8, <1>9
<1> QED
  BY <1>4, <1>10, <1>11, <1>12, <1>13

\* The phases that have not ended when the scrape is at s.
Ahead(s) ==
    CASE s \in {"dial", "login", "settings", "status"} -> Phases \ Disabled
      [] s = "channels" -> ListPhases \ Disabled
      [] s = "sip_peers" -> {"sip_peers", "pjsip_endpoints", "queues"} \ Disabled
      [] s = "pjsip_endpoints" -> {"pjsip_endpoints", "queues"} \ Disabled
      [] s = "queues" -> {"queues"} \ Disabled
      [] OTHER -> {}

PhaseSteps == {"settings", "status"} \cup ListPhases

\* Ending a phase takes it off the phases ahead, and nothing else.
LEMMA AheadAfter ==
    ASSUME NEW s \in PhaseSteps, s \notin Disabled
    PROVE  /\ PhaseAfter(PhaseOf(s)) \in (ListPhases \cup {"logoff"}) \ Disabled
           /\ PhaseOf(s) \in Ahead(s) /\ PhaseOf(s) \in Phases
           /\ Ahead(PhaseAfter(PhaseOf(s))) = Ahead(s) \ {PhaseOf(s)}
<1>1. CASE s \in {"settings", "status"}
  BY <1>1, PhaseAfterIs DEF PhaseOf, Ahead, Phases
<1>2. CASE s = "channels"
  BY <1>2, PhaseAfterIs DEF PhaseOf, Ahead, Phases
<1>3. CASE s = "sip_peers"
  BY <1>3, PhaseAfterIs DEF PhaseOf, Ahead, Phases
<1>4. CASE s = "pjsip_endpoints"
  BY <1>4, PhaseAfterIs DEF PhaseOf, Ahead, Phases
<1>5. CASE s = "queues"
  BY <1>5, PhaseAfterIs DEF PhaseOf, Ahead, Phases
<1> QED
  BY <1>1, <1>2, <1>3, <1>4, <1>5 DEF PhaseSteps

-----------------------------------------------------------------------------
(* What a scrape has recorded *)

\* firstErr is set exactly when an error was counted, and asterisk_up follows it.
UpInv ==
    /\ firstErr = "none" <=> failed = {}
    /\ at = "done" => up = IF firstErr = "none" THEN 1 ELSE 0

\* Each phase that is no longer ahead has ended, in one way.
TriedInv ==
    /\ at \notin Disabled
    /\ failed \cap {"dial", "login"} = {} =>
          /\ emitted \cup failed \cup skipped = (Phases \ Disabled) \ Ahead(at)
          /\ emitted \cap failed = {} /\ emitted \cap skipped = {} /\ failed \cap skipped = {}

\* Not a step that records something.
RecordsNothing == UNCHANGED <<at, result, up>>

\* A step of the client or of the world records nothing.
LEMMA QuietSteps ==
    Issue \/ CallWrites \/ CallGoesOn \/ World \/ Done \/ UNCHANGED allVars => RecordsNothing
  BY DEF Issue, CallWrites, CallGoesOn, World, Done, allVars, scrapeVars, RecordsNothing

\* A call is under way only where the scrape makes one, and of its kind.
CallInv == stage # "none" => at \in CallSteps /\ call.kind = CallKind(at)

\* Every step keeps it so.
LEMMA NextCallInv ==
    ASSUME CallInv, [NextScrape]_allVars
    PROVE  CallInv'
<1> USE DEF CallInv
<1>1. CASE Issue
  BY <1>1 DEF Issue, Begin, scrapeVars
<1>2. CASE CallWrites
  BY <1>2 DEF CallWrites, WriteReaches
<1>3. CASE CallGoesOn
  <2>1. stage # "none" /\ UNCHANGED <<call, at>>
    BY <1>3 DEF CallGoesOn, scrapeVars, WriteVanishes, WriteFails, Read, ActionReply, ListReply,
       ListItem, ListSkipsForeignEnd, ListEnds, ReadTimeout, ReadEOF, Consume
  <2> QED
    BY <2>1 DEF CallKind
<1>4. CASE LoginDone \/ PhaseDone \/ LogoffDone
  BY <1>4 DEF LoginDone, PhaseDone, LogoffDone, Return
<1>5. CASE Dial \/ CloseConn \/ Report
  BY <1>5 DEF Dial, CloseConn, Report, vars, client, CallSteps
<1>6. CASE World
  BY <1>6 DEF World, scrapeVars, Environment, Noise, PeerGoes, Tick, client
<1>7. CASE Done \/ UNCHANGED allVars
  BY <1>7 DEF Done, allVars, vars, client, scrapeVars
<1> QED
  BY <1>1, <1>2, <1>3, <1>4, <1>5, <1>6, <1>7 DEF NextScrape, ScrapeStep

\* What the end of a phase does.
LEMMA PhaseDoneDoes ==
    ASSUME PhaseDone
    PROVE  /\ at \in PhaseSteps /\ up' = up
           /\ \/ /\ at = "settings" /\ at' = "status" /\ outcome = "ok" /\ UNCHANGED result
              \/ /\ at' = PhaseAfter(PhaseOf(at)) /\ outcome = "ok" /\ at # "settings"
                 /\ emitted' = emitted \cup {PhaseOf(at)}
                 /\ UNCHANGED <<failed, skipped, firstErr>>
              \/ /\ at' = PhaseAfter(PhaseOf(at)) /\ outcome = "unknown" /\ at \in Optional
                 /\ skipped' = skipped \cup {PhaseOf(at)}
                 /\ UNCHANGED <<failed, emitted, firstErr>>
              \/ /\ at' = PhaseAfter(PhaseOf(at)) /\ outcome # "ok"
                 /\ ~(outcome = "unknown" /\ at \in Optional)
                 /\ failed' = failed \cup {PhaseOf(at)}
                 /\ firstErr' = IF firstErr = "none" THEN PhaseOf(at) ELSE firstErr
                 /\ UNCHANGED <<emitted, skipped>>
  BY DEF PhaseDone, CoreHalfDone, PhaseEmits, PhaseSkips, PhaseFails, Fail, FirstError, GoesOnAfter,
     Skips, result, PhaseSteps, PhaseOf

\* Each step keeps the types and the two invariants.
LEMMA NextScrapeInv ==
    ASSUME TypeOKScrape, CallInv, UpInv, TriedInv, [NextScrape]_allVars
    PROVE  TypeOKScrape' /\ UpInv' /\ TriedInv'
<1> USE DEF result
<1>r. ASSUME RecordsNothing PROVE UpInv' /\ TriedInv'
  BY <1>r DEF RecordsNothing, UpInv, TriedInv
<1>t. ASSUME RecordsNothing, UNCHANGED <<refused, unsupported>> PROVE TypeOKScrape'
  BY <1>t DEF RecordsNothing, TypeOKScrape
<1>1. CASE Issue \/ CallGoesOn \/ World \/ Done \/ UNCHANGED allVars
  <2>1. RecordsNothing /\ UNCHANGED <<refused, unsupported>>
    BY <1>1 DEF Issue, CallGoesOn, World, Done, allVars, scrapeVars, RecordsNothing
  <2> QED
    BY <2>1, <1>r, <1>t
<1>2. CASE CallWrites
  <2>1. RecordsNothing
    BY <1>2, QuietSteps
  <2>2. PhaseOf(at) \in Phases \cup {"login", "logoff"}
    <3>1. at \in CallSteps
      BY <1>2 DEF CallWrites, WriteReaches, CallInv
    <3> QED
      BY <3>1 DEF CallSteps, PhaseOf, Phases
  <2> QED
    BY <1>r, <1>2, <2>1, <2>2 DEF RecordsNothing, CallWrites, Remember, TypeOKScrape
<1>3. CASE Dial
  BY <1>3 DEF Dial, Fail, TypeOKScrape, UpInv, TriedInv, Ahead, CallSteps, Labels
<1>4. CASE LoginDone
  BY <1>4 DEF LoginDone, Fail, TypeOKScrape, UpInv, TriedInv, Ahead, CallSteps, Labels
<1>5. CASE PhaseDone
  <2>1. /\ PhaseAfter(PhaseOf(at)) \in (ListPhases \cup {"logoff"}) \ Disabled
        /\ PhaseOf(at) \in Ahead(at) /\ PhaseOf(at) \in Phases
        /\ Ahead(PhaseAfter(PhaseOf(at))) = Ahead(at) \ {PhaseOf(at)}
    BY <1>5, PhaseDoneDoes, AheadAfter DEF TriedInv
  <2>2. PhaseOf(at) \in Phases \ Disabled /\ PhaseOf(at) \notin {"dial", "login", "none"}
    <3>1. PhaseOf(at) \notin Disabled
      BY DEF PhaseOf, TriedInv
    <3> QED
      BY <2>1, <3>1 DEF Phases
  <2>3. at \in Optional => PhaseOf(at) \in Optional
    BY DEF PhaseOf
  <2>4. UNCHANGED <<refused, unsupported>>
    BY <1>5 DEF PhaseDone
  <2>5. TypeOKScrape'
    BY <1>5, <2>1, <2>2, <2>3, <2>4, PhaseDoneDoes DEF TypeOKScrape, CallSteps, Labels
  <2>6. UpInv'
    BY <1>5, <2>1, <2>2, PhaseDoneDoes DEF UpInv
  <2>7. TriedInv'
    <3>1. CASE at = "settings" /\ at' = "status" /\ UNCHANGED result
      BY <3>1 DEF TriedInv, Ahead
    <3>2. CASE ~(at = "settings" /\ at' = "status" /\ UNCHANGED result)
      <4>1. at' = PhaseAfter(PhaseOf(at)) /\ Ahead(at') = Ahead(at) \ {PhaseOf(at)}
        BY <1>5, <2>1, <3>2, PhaseDoneDoes
      <4> QED
        BY <1>5, <2>1, <2>2, <3>2, <4>1, PhaseDoneDoes DEF TriedInv
    <3> QED
      BY <3>1, <3>2
  <2> QED
    BY <2>5, <2>6, <2>7
<1>6. CASE LogoffDone \/ CloseConn
  BY <1>6 DEF LogoffDone, CloseConn, TypeOKScrape, UpInv, TriedInv, Ahead
<1>7. CASE Report
  BY <1>7 DEF Report, TypeOKScrape, UpInv, TriedInv, Ahead
<1> QED
  BY <1>1, <1>2, <1>3, <1>4, <1>5, <1>6, <1>7 DEF NextScrape, ScrapeStep

ScrapeInv == TypeOKScrape /\ CallInv /\ UpInv /\ TriedInv

\* The invariant holds in every state of every scrape.
LEMMA ScrapeInvCorrect == SpecScrape => []ScrapeInv
<1>1. InitScrape => ScrapeInv
  BY DEF InitScrape, Init, ScrapeInv, TypeOKScrape, CallInv, UpInv, TriedInv, Ahead
<1>2. ScrapeInv /\ [NextScrape]_allVars => ScrapeInv'
  BY NextCallInv, NextScrapeInv DEF ScrapeInv
<1> QED
  BY <1>1, <1>2, PTL DEF SpecScrape

\* Labels, phases and samples stay what they are declared to be.
THEOREM ScrapeTypeCorrect == SpecScrape => []TypeOKScrape
<1>1. ScrapeInv => TypeOKScrape
  BY DEF ScrapeInv
<1> QED
  BY <1>1, ScrapeInvCorrect, PTL

\* asterisk_up is 0 exactly when the scrape counted an error.
THEOREM UpCorrect == SpecScrape => []UpAgreesWithErrors
<1>1. ScrapeInv => UpAgreesWithErrors
  BY DEF ScrapeInv, UpInv, UpAgreesWithErrors
<1> QED
  BY <1>1, ScrapeInvCorrect, PTL

\* Whichever phases are disabled and whichever fail, each enabled one is tried
\* and ends in one way.
THEOREM PhasesCorrect == SpecScrape => []PhasesIsolated
<1>1. ScrapeInv => PhasesIsolated
  BY DEF ScrapeInv, TriedInv, Ahead, PhasesIsolated
<1> QED
  BY <1>1, ScrapeInvCorrect, PTL

-----------------------------------------------------------------------------
(* Failures on a sound connection *)

\* A call breaks off for a reason, and otherwise Asterisk has answered it.
CauseInv ==
    /\ stage = "done" /\ outcome = "timeout" => Expired
    /\ stage = "done" /\ outcome = "io" => link = "gone"
    /\ stage \in {"reply", "items", "done"} /\ link = "up" /\ ~Expired => said \in Answer

\* The client keeps CauseInv.
LEMMA CauseCorrect == Spec => []CauseInv
<1>1. Init => CauseInv
  BY DEF Init, CauseInv
<1>2. TypeOK /\ CauseInv /\ [Next]_vars => CauseInv'
  <2> SUFFICES ASSUME TypeOK, CauseInv, [Next]_vars PROVE CauseInv'
    OBVIOUS
  <2> USE DEF CauseInv, Expired, Finish, client
  <2>1. CASE (\E kind \in Kinds : Begin(kind)) \/ Return
    BY <2>1 DEF Begin, Return
  <2>2. CASE Write
    BY <2>2 DEF Write, WriteReaches, WriteVanishes, WriteFails
  <2>3. CASE Read
    BY <2>3 DEF Read, ActionReply, ListReply, ListItem, ListSkipsForeignEnd, ListEnds, Consume,
       ReadTimeout, ReadEOF
  <2>4. CASE Noise \/ PeerGoes
    BY <2>4 DEF Noise, PeerGoes
  <2>5. CASE Tick
    BY <2>5, TimeoutAssumption DEF Tick, TypeOK
  <2>6. CASE Terminated \/ UNCHANGED vars
    BY <2>6 DEF Terminated, vars
  <2> QED
    BY <2>1, <2>2, <2>3, <2>4, <2>5, <2>6 DEF Next, Progress, Environment
<1> QED
  BY <1>1, <1>2, TypeCorrect, PTL DEF Spec

\* The scrape got past the login on a connection where nothing stray arrived,
\* nothing broke and the deadline has not passed.
Sound ==
    noise = 0 /\ link = "up" /\ ~Expired /\ failed \cap {"dial", "login"} = {}

Answered == stage \in {"reply", "items", "done"}

\* Of the list phases behind the scrape, those refused have failed, and those
\* not known have failed or were skipped; of those ahead, only the present one
\* can have been answered.
AnswerInv ==
    Sound =>
        /\ failed = ((refused \cup (unsupported \ Optional)) \cap ListPhases) \ {at}
        /\ skipped = (unsupported \cap Optional) \ {at}
        /\ (refused \cup unsupported) \cap ListPhases \cap Ahead(at) \subseteq {at}
        /\ at \in ListPhases => /\ at \in refused <=> Answered /\ said.type = "Error"
                                /\ at \in unsupported <=> Answered /\ said.type = "Unknown"

\* A connection that is sound after a step was so before.
LEMMA SoundBefore ==
    ASSUME TypeOK, TypeOKScrape, [NextScrape]_allVars, Sound'
    PROVE  Sound /\ ~Noise /\ ~PeerGoes /\ ~WriteVanishes /\ ~WriteFails
<1> USE DEF Sound, Expired, client, vars, scrapeVars, result
<1>1. CASE Dial \/ CloseConn \/ Report \/ Done \/ UNCHANGED allVars
  <2>1. noise' = noise /\ link' = link /\ clock' = clock /\ failed \subseteq failed'
        /\ UNCHANGED vars
    BY <1>1 DEF Dial, Fail, CloseConn, Report, Done, allVars
  <2> QED
    BY <2>1 DEF WriteVanishes, WriteFails, Noise, PeerGoes, TypeOK
<1>2. CASE Issue \/ CallWrites
  BY <1>2 DEF Issue, Begin, CallWrites, WriteReaches, WriteVanishes, WriteFails, Noise, PeerGoes,
     TypeOK
<1>3. CASE CallGoesOn
  BY <1>3 DEF CallGoesOn, WriteVanishes, WriteFails, Read, ActionReply, ListReply, ListItem,
     ListSkipsForeignEnd, ListEnds, Consume, ReadTimeout, ReadEOF, Noise, PeerGoes, TypeOK
<1>4. CASE LoginDone \/ PhaseDone \/ LogoffDone
  <2>1. failed \subseteq failed' /\ Return
    BY <1>4 DEF LoginDone, PhaseDone, LogoffDone, Fail, CoreHalfDone, PhaseEmits, PhaseSkips, PhaseFails
  <2> QED
    BY <2>1 DEF Return, WriteVanishes, WriteFails, Noise, PeerGoes, TypeOK
<1>5. CASE World
  <2>1. CASE Tick
    BY <1>5, <2>1, TimeoutAssumption DEF World, Tick, WriteVanishes, WriteFails, Noise, PeerGoes, TypeOK
  <2>2. CASE Noise \/ PeerGoes
    BY <2>2 DEF Noise, PeerGoes, TypeOK
  <2> QED
    BY <1>5, <2>1, <2>2 DEF World, Environment
<1> QED
  BY <1>1, <1>2, <1>3, <1>4, <1>5 DEF NextScrape, ScrapeStep

\* A phase that ends on a sound connection ends as Asterisk answered.
LEMMA OutcomeIs ==
    ASSUME TypeOK, CauseInv, QuietCallsFaithful, CallInv, Sound, PhaseDone
    PROVE  /\ at \in {"settings", "status"} => outcome = "ok"
           /\ at \in ListPhases =>
                 /\ outcome = "ok" <=> said.type = "Success"
                 /\ outcome = "unknown" <=> said.type = "Unknown"
                 /\ said.type \in Responses
           /\ stage = "done"
<1>1. stage = "done" /\ at \in {"settings", "status"} \cup ListPhases
  BY DEF PhaseDone, Return
<1>2. said \in Answer /\ outcome \notin {"io", "timeout"}
  BY <1>1 DEF Sound, CauseInv
<1>3. call.kind = CallKind(at)
  BY <1>1 DEF CallInv
<1>4. at \in ListPhases => call.kind = "list"
  BY <1>3 DEF CallKind
<1>5. at \in {"settings", "status"} => call.kind = "action"
  BY <1>3 DEF CallKind
<1>6. said.type \in Responses
  BY <1>2 DEF Answer
<1> QED
  BY <1>1, <1>2, <1>4, <1>5, <1>6 DEF QuietCallsFaithful, Sound, Responses

\* Each step keeps AnswerInv.
LEMMA NextAnswerInv ==
    ASSUME TypeOK, CauseInv, QuietCallsFaithful, ScrapeInv, AnswerInv, [NextScrape]_allVars
    PROVE  AnswerInv'
<1> SUFFICES ASSUME Sound' PROVE AnswerInv'
    BY DEF AnswerInv
<1> USE DEF scrapeVars, result, Answered
<1>0. Sound /\ ~Noise /\ ~PeerGoes /\ ~WriteVanishes /\ ~WriteFails
  BY SoundBefore DEF ScrapeInv
<1>a. /\ failed = ((refused \cup (unsupported \ Optional)) \cap ListPhases) \ {at}
      /\ skipped = (unsupported \cap Optional) \ {at}
      /\ (refused \cup unsupported) \cap ListPhases \cap Ahead(at) \subseteq {at}
      /\ at \in ListPhases => /\ at \in refused <=> Answered /\ said.type = "Error"
                              /\ at \in unsupported <=> Answered /\ said.type = "Unknown"
  BY <1>0 DEF AnswerInv
<1>u. ASSUME UNCHANGED <<at, result, refused, unsupported, said>>, Answered' <=> Answered
      PROVE  AnswerInv'
  BY <1>a, <1>u DEF AnswerInv
<1>1. CASE Dial
  BY <1>0, <1>1, <1>a DEF Dial, Fail, Sound, AnswerInv, Ahead
<1>2. CASE Issue
  <2>1. stage = "none" /\ stage' = "write" /\ UNCHANGED scrapeVars
    BY <1>2 DEF Issue, Begin
  <2> QED
    BY <1>a, <2>1 DEF AnswerInv
<1>3. CASE CallWrites
  <2>1. /\ stage = "write" /\ stage' = "reply" /\ UNCHANGED <<at, result>>
        /\ refused' = IF said'.type = "Error" THEN refused \cup {PhaseOf(at)} ELSE refused
        /\ unsupported' = IF said'.type = "Unknown" THEN unsupported \cup {PhaseOf(at)}
                                                    ELSE unsupported
    BY <1>3 DEF CallWrites, WriteReaches, Remember
  <2>2. at \in CallSteps
    BY <2>1 DEF ScrapeInv, CallInv
  <2>3. at \in ListPhases => PhaseOf(at) = at
    BY DEF PhaseOf
  <2>4. at \notin ListPhases => PhaseOf(at) \notin ListPhases
    BY <2>2 DEF PhaseOf
  <2>5. CASE at \in ListPhases
    BY <1>a, <2>1, <2>3, <2>5 DEF AnswerInv
  <2>6. CASE at \notin ListPhases
    BY <1>a, <2>1, <2>4, <2>6 DEF AnswerInv
  <2> QED
    BY <2>5, <2>6
<1>4. CASE CallGoesOn
  <2>1. Read /\ UNCHANGED scrapeVars
    BY <1>0, <1>4 DEF CallGoesOn
  <2>2. UNCHANGED said /\ Answered /\ Answered'
    BY <2>1 DEF Read, ActionReply, ListReply, ListItem, ListSkipsForeignEnd, ListEnds, Consume,
       Finish, ReadTimeout, ReadEOF
  <2> QED
    BY <1>u, <2>1, <2>2
<1>5. CASE LoginDone
  BY <1>5, <1>a DEF LoginDone, Fail, Sound, AnswerInv, Ahead
<1>6. CASE PhaseDone
  <2>1. /\ at \in {"settings", "status"} => outcome = "ok"
        /\ at \in ListPhases =>
             /\ outcome = "ok" <=> said.type = "Success"
             /\ outcome = "unknown" <=> said.type = "Unknown"
             /\ said.type \in Responses
        /\ stage = "done"
    BY <1>0, <1>6, OutcomeIs DEF ScrapeInv
  <2>2. /\ PhaseAfter(PhaseOf(at)) \in (ListPhases \cup {"logoff"}) \ Disabled
        /\ PhaseOf(at) \in Ahead(at)
        /\ Ahead(PhaseAfter(PhaseOf(at))) = Ahead(at) \ {PhaseOf(at)}
    BY <1>6, PhaseDoneDoes, AheadAfter DEF ScrapeInv, TriedInv
  <2>3. UNCHANGED <<refused, unsupported, said>> /\ stage' = "none" /\ at \in PhaseSteps
    BY <1>6, PhaseDoneDoes DEF PhaseDone, Return
  <2>4. CASE at = "settings" /\ at' = "status" /\ UNCHANGED result
    BY <1>a, <2>3, <2>4 DEF AnswerInv, Ahead
  <2>5. CASE at' = PhaseAfter(PhaseOf(at))
    <3>1. Ahead(at') = Ahead(at) \ {PhaseOf(at)}
      BY <2>2, <2>5
    <3>2. at' \in ListPhases => at' \in Ahead(at')
      BY <2>2, <2>5 DEF Ahead
    <3>3. at' \in ListPhases => at' \notin refused /\ at' \notin unsupported
      <4>1. at \in ListPhases => PhaseOf(at) = at
        BY DEF PhaseOf
      <4> QED
        BY <1>a, <3>1, <3>2, <4>1
    <3>4. CASE at \in {"settings", "status"}
      <4>1. UNCHANGED <<failed, skipped>>
        BY <1>6, <2>1, <3>4, PhaseDoneDoes
      <4>2. /\ at' = "channels"
        BY <2>5, <3>4, PhaseAfterIs DEF PhaseOf
      <4>3. Ahead(at) = Phases \ Disabled /\ Ahead(at') = ListPhases \ Disabled
        BY <3>4, <4>2 DEF Ahead
      <4>4. (refused \cup unsupported) \cap ListPhases \cap Ahead(at') = {}
        BY <1>a, <3>4, <4>3 DEF Phases
      <4> QED
        BY <1>a, <2>3, <3>3, <3>4, <4>1, <4>2, <4>4 DEF AnswerInv
    <3>5. CASE at \in ListPhases
      <4>1. PhaseOf(at) = at
        BY <3>5 DEF PhaseOf
      <4>2. /\ at \in refused <=> said.type = "Error"
            /\ at \in unsupported <=> said.type = "Unknown"
        BY <1>a, <2>1, <3>5
      <4>3. /\ outcome = "ok" => at \notin refused /\ at \notin unsupported
            /\ outcome = "unknown" => at \in unsupported /\ at \notin refused
            /\ outcome \notin {"ok", "unknown"} => at \in refused /\ at \notin unsupported
        BY <2>1, <3>5, <4>2 DEF Responses
      <4>4. failed' = failed \cup (IF at \in refused \cup (unsupported \ Optional) THEN {at} ELSE {})
        BY <1>6, <3>5, <4>1, <4>3, PhaseDoneDoes
      <4>5. skipped' = skipped \cup (IF at \in unsupported \cap Optional THEN {at} ELSE {})
        BY <1>6, <3>5, <4>1, <4>3, PhaseDoneDoes
      <4>6. failed' = (refused \cup (unsupported \ Optional)) \cap ListPhases
        BY <1>a, <3>5, <4>4
      <4>7. skipped' = unsupported \cap Optional
        BY <1>a, <3>5, <4>5
      <4>8. (refused \cup unsupported) \cap ListPhases \cap Ahead(at') = {}
        BY <1>a, <3>1, <4>1
      <4>9. /\ at' \notin (refused \cup (unsupported \ Optional)) \cap ListPhases
            /\ at' \notin unsupported \cap Optional
        BY <3>3
      <4> QED
        BY <2>3, <3>3, <4>6, <4>7, <4>8, <4>9 DEF AnswerInv
    <3> QED
      BY <2>3, <3>4, <3>5 DEF PhaseSteps
  <2> QED
    BY <1>6, <2>4, <2>5, PhaseDoneDoes
<1>7. CASE LogoffDone \/ CloseConn \/ Report
  <2>1. /\ UNCHANGED <<failed, skipped, refused, unsupported>>
        /\ at \notin ListPhases /\ at' \in {"close", "report", "done"}
    BY <1>7 DEF LogoffDone, CloseConn, Report
  <2> QED
    BY <1>a, <2>1 DEF AnswerInv, Ahead
<1>8. CASE World
  <2>1. Tick /\ UNCHANGED scrapeVars
    BY <1>0, <1>8 DEF World, Environment
  <2> QED
    BY <1>u, <2>1 DEF Tick, client
<1>9. CASE Done \/ UNCHANGED allVars
  BY <1>u, <1>9 DEF Done, allVars, vars, client
<1> QED
  BY <1>1, <1>2, <1>3, <1>4, <1>5, <1>6, <1>7, <1>8, <1>9 DEF NextScrape, ScrapeStep

\* On a sound connection the list phases fail exactly where Asterisk refused
\* them, and optional ones are skipped exactly where it does not know them.
THEOREM FailuresCorrect == SpecScrape => []FailuresAreAsterisks
<1>1. InitScrape => AnswerInv
  BY DEF InitScrape, Init, AnswerInv
<1>2. AnswerInv => FailuresAreAsterisks
  BY DEF AnswerInv, Sound, FailuresAreAsterisks
<1> QED
  BY <1>1, <1>2, NextAnswerInv, ScrapeIsClient, TypeCorrect, CauseCorrect, QuietCorrect,
     ScrapeInvCorrect, PTL DEF SpecScrape
=============================================================================
