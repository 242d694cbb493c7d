-------------------------- MODULE EventStream_proofs --------------------------
(***************************************************************************)
(* Proofs about EventStream, for every backoff range, fault budget and     *)
(* number of messages.  The argument goes in layers: types; who may have   *)
(* cleared and closed the session's connection (SessionInv); and, on top   *)
(* of those, the counters.                                                 *)
(***************************************************************************)
EXTENDS EventStream, WellFoundedInduction, TLAPS

USE DEF loop, conn, peer, tally, Goto, Fault

-----------------------------------------------------------------------------
(* Types *)

\* The control state of the loop, the session and the goroutines stays in its
\* enumerations, whichever goroutine or peer takes the step.
LEMMA NextControlTypeOK == ControlTypeOK /\ [Next]_vars => ControlTypeOK'
<1> SUFFICES ASSUME ControlTypeOK, [Next]_vars PROVE ControlTypeOK'
    OBVIOUS
<1> USE DEF ControlTypeOK, Pcs, SessionPcs
<1>1. CASE RunStep
  <2>1. CASE Top
    BY <2>1, Zenon DEF Top
  <2>2. CASE Attempt
    BY <2>2, Zenon DEF Attempt, Counts
  <2>3. CASE After
    BY <2>3, Zenon DEF After, StopsAfter
  <2>4. CASE SleepInterrupted
    BY <2>4, Zenon DEF SleepInterrupted
  <2>5. CASE SleepEnds
    BY <2>5, Zenon DEF SleepEnds
  <2>6. CASE DialFails
    BY <2>6, Zenon DEF DialFails
  <2>7. CASE DialSucceeds
    BY <2>7, Zenon DEF DialSucceeds
  <2>8. CASE CheckConn
    BY <2>8 DEF CheckConn
  <2>9. CASE WriteLogin
    BY <2>9 DEF WriteLogin, UseOutcomes
  <2>10. CASE WriteFails
    BY <2>10, Zenon DEF WriteFails
  <2>11. CASE SetDeadline
    BY <2>11, Zenon DEF SetDeadline, UseOutcomes
  <2>12. CASE LoginReply
    BY <2>12, Zenon DEF LoginReply
  <2>13. CASE LoginTimeout
    BY <2>13, Zenon DEF LoginTimeout
  <2>14. CASE ReceiveMessage
    BY <2>14, Zenon DEF ReceiveMessage, NextRead
  <2>15. CASE ReadFails
    BY <2>15, Zenon DEF ReadFails
  <2>16. CASE Unwind
    BY <2>16, Zenon DEF Unwind, UpAfterUnwind
  <2>17. CASE Release
    BY <2>17, Zenon DEF Release, ClosesNow
  <2> QED
    BY <1>1, <2>1, <2>2, <2>3, <2>4, <2>5, <2>6, <2>7, <2>8, <2>9, <2>10,
       <2>11, <2>12, <2>13, <2>14, <2>15, <2>16, <2>17 DEF RunStep
<1>2. CASE WatchdogStep
  <2>1. CASE WatchdogFires
    <3>1. cleared' \in BOOLEAN
      BY <2>1 DEF WatchdogFires
    <3>2. once' \in {"new", "watchdog", "done"}
      BY <2>1, Zenon DEF WatchdogFires
    <3>3. watchdog' \in {"none", "parked", "closing", "done"}
      BY <2>1, Zenon DEF WatchdogFires
    <3>4. UNCHANGED <<pc, ctxDone, first, phase, socket, server, hung>>
      BY <2>1, Zenon DEF WatchdogFires
    <3> QED
      BY <3>1, <3>2, <3>3, <3>4, Zenon
  <2>2. CASE WatchdogCloses
    BY <2>2, Zenon DEF WatchdogCloses, SocketAfterClose
  <2>3. CASE ParkedEnds
    BY <2>3 DEF ParkedEnds
  <2> QED
    BY <1>2, <2>1, <2>2, <2>3 DEF WatchdogStep
<1>3. CASE PeerStep
  <2>1. CASE AcceptLogin
    BY <2>1, Zenon DEF AcceptLogin
  <2>2. CASE RejectLogin
    BY <2>2, Zenon DEF RejectLogin
  <2>3. CASE Break
    <3>1. server' \in {"none", "asked", "accepted", "rejected"}
      BY <2>3 DEF Break
    <3>2. /\ socket' = "eof" /\ hung' = FALSE
          /\ UNCHANGED <<pc, ctxDone, first, phase, cleared, once, watchdog>>
      BY <2>3, Zenon DEF Break
    <3> QED
      BY <3>1, <3>2, Zenon
  <2>4. CASE Hang
    <3>1. hung' \in BOOLEAN
      BY <2>4 DEF Hang
    <3>2. UNCHANGED <<pc, ctxDone, first, phase, cleared, socket, once,
                      watchdog, server>>
      BY <2>4, Zenon DEF Hang
    <3> QED
      BY <3>1, <3>2
  <2>5. ASSUME NEW kind \in Kinds, Emit(kind) PROVE ControlTypeOK'
    BY <2>5, Zenon DEF Emit
  <2> QED
    BY <1>3, <2>1, <2>2, <2>3, <2>4, <2>5 DEF PeerStep
<1>4. CASE Cancel
  BY <1>4 DEF Cancel
<1>5. CASE Terminated \/ UNCHANGED vars
  BY <1>5, Zenon DEF Terminated, vars
<1> QED
  BY <1>1, <1>2, <1>3, <1>4, <1>5 DEF Next

\* The backoff range survives a doubling: the cap of Run's loop.
LEMMA NextBackoffType ==
    ASSUME NEW b \in BaseBackoff..MaxBackoff
    PROVE  NextBackoff(b) \in BaseBackoff..MaxBackoff
BY BackoffAssumption DEF NextBackoff

\* The counters stay natural numbers and the backoff in its range.
LEMMA NextCountTypeOK == CountTypeOK /\ [Next]_vars => CountTypeOK'
<1> SUFFICES ASSUME CountTypeOK, [Next]_vars PROVE CountTypeOK'
    OBVIOUS
<1> USE DEF CountTypeOK
<1>1. CASE RunStep
  <2>1. CASE Top
    BY <2>1 DEF Top
  <2>2. CASE Attempt
    BY <2>2 DEF Attempt, Counts
  <2>3. CASE After
    BY <2>3 DEF After, StopsAfter
  <2>4. CASE SleepInterrupted
    BY <2>4 DEF SleepInterrupted
  <2>5. CASE SleepEnds
    BY <2>5, NextBackoffType DEF SleepEnds
  <2>6. CASE DialFails
    BY <2>6 DEF DialFails
  <2>7. CASE DialSucceeds
    BY <2>7 DEF DialSucceeds
  <2>8. CASE CheckConn
    BY <2>8 DEF CheckConn
  <2>9. CASE WriteLogin
    BY <2>9 DEF WriteLogin, UseOutcomes
  <2>10. CASE WriteFails
    BY <2>10 DEF WriteFails
  <2>11. CASE SetDeadline
    BY <2>11 DEF SetDeadline, UseOutcomes
  <2>12. CASE LoginReply
    BY <2>12 DEF LoginReply
  <2>13. CASE LoginTimeout
    BY <2>13 DEF LoginTimeout
  <2>14. CASE ReceiveMessage
    BY <2>14 DEF ReceiveMessage, NextRead
  <2>15. CASE ReadFails
    BY <2>15 DEF ReadFails
  <2>16. CASE Unwind
    BY <2>16 DEF Unwind, UpAfterUnwind
  <2>17. CASE Release
    BY <2>17 DEF Release, ClosesNow
  <2> QED
    BY <1>1, <2>1, <2>2, <2>3, <2>4, <2>5, <2>6, <2>7, <2>8, <2>9, <2>10,
       <2>11, <2>12, <2>13, <2>14, <2>15, <2>16, <2>17 DEF RunStep
<1>2. CASE WatchdogStep
  <2>1. CASE WatchdogFires
    BY <2>1 DEF WatchdogFires
  <2>2. CASE WatchdogCloses
    BY <2>2 DEF WatchdogCloses, SocketAfterClose
  <2>3. CASE ParkedEnds
    BY <2>3 DEF ParkedEnds
  <2> QED
    BY <1>2, <2>1, <2>2, <2>3 DEF WatchdogStep
<1>3. CASE PeerStep
  <2>1. CASE AcceptLogin
    BY <2>1 DEF AcceptLogin
  <2>2. CASE RejectLogin
    BY <2>2 DEF RejectLogin
  <2>3. CASE Break
    <3>1. PICK kept \in 0..Len(inbox), reply \in {server, "none"} :
             /\ inbox' = SubSeq(inbox, 1, kept)
             /\ lost' = lost + (Len(inbox) - kept)
      BY <2>3 DEF Break
    <3>2. inbox' \in Seq(Kinds) /\ lost' \in Nat
      BY <3>1
    <3> QED
      BY <2>3, <3>2 DEF Break
  <2>4. CASE Hang
    BY <2>4 DEF Hang
  <2>5. ASSUME NEW kind \in Kinds, Emit(kind) PROVE CountTypeOK'
    BY <2>5 DEF Emit
  <2> QED
    BY <1>3, <2>1, <2>2, <2>3, <2>4, <2>5 DEF PeerStep
<1>4. CASE Cancel
  BY <1>4 DEF Cancel
<1>5. CASE Terminated \/ UNCHANGED vars
  BY <1>5 DEF Terminated, vars
<1> QED
  BY <1>1, <1>2, <1>3, <1>4, <1>5 DEF Next

\* Every reachable state of the event stream is well typed; the wait between
\* two attempts stays within BaseBackoff..MaxBackoff for every such range.
THEOREM TypeCorrect == Spec => []TypeOK
<1>1. Init => ControlTypeOK
  BY Zenon DEF Init, ControlTypeOK, Pcs, SessionPcs
<1>2. Init => CountTypeOK
  BY BackoffAssumption DEF Init, CountTypeOK, Kinds
<1> QED
  BY <1>1, <1>2, NextControlTypeOK, NextCountTypeOK, PTL DEF Spec, TypeOK

-----------------------------------------------------------------------------
(* Who clears and closes the connection *)

Idle == pc \in {"top", "attempt", "dial", "after", "sleep", "stopped"}
Held == pc \in SessionPcs \cup {"unwind", "close"}

\* While runOnce holds a session, c.conn is cleared exactly when closeOnce has
\* been entered, and only the watchdog, hence only shutdown, can have entered
\* it.  Between sessions closeOnce is spent and the socket closed.
SessionInv ==
    /\ Idle => \/ watchdog = "none" /\ socket = "none"
               \/ once = "done" /\ socket = "closed" /\ watchdog # "closing"
    /\ Held => /\ cleared <=> once # "new"
               /\ socket = "closed" <=> once = "done"
               /\ socket # "none"
               /\ watchdog = "closing" <=> once = "watchdog"
               /\ cleared => ctxDone
    /\ pc = "panicked" => ctxDone

\* No step of the loop, a watchdog or the peer breaks SessionInv.
LEMMA NextSessionInv == TypeOK /\ SessionInv /\ [Next]_vars => SessionInv'
<1> SUFFICES ASSUME ControlTypeOK, SessionInv, [Next]_vars PROVE SessionInv'
    BY DEF TypeOK
<1> USE DEF ControlTypeOK, SessionInv, Idle, Held, Pcs, SessionPcs, InSession, Alive
<1>1. CASE RunStep
  <2>1. CASE Top
    BY <2>1 DEF Top
  <2>2. CASE Attempt
    BY <2>2 DEF Attempt, Counts
  <2>3. CASE After
    BY <2>3 DEF After, StopsAfter
  <2>4. CASE SleepInterrupted
    BY <2>4 DEF SleepInterrupted
  <2>5. CASE SleepEnds
    BY <2>5 DEF SleepEnds
  <2>6. CASE DialFails
    BY <2>6 DEF DialFails
  <2>7. CASE DialSucceeds
    BY <2>7 DEF DialSucceeds
  <2>8. CASE CheckConn
    BY <2>8 DEF CheckConn
  <2>9. CASE WriteLogin
    BY <2>9 DEF WriteLogin, UseOutcomes
  <2>10. CASE WriteFails
    BY <2>10 DEF WriteFails
  <2>11. CASE SetDeadline
    BY <2>11 DEF SetDeadline, UseOutcomes
  <2>12. CASE LoginReply
    BY <2>12 DEF LoginReply
  <2>13. CASE LoginTimeout
    BY <2>13 DEF LoginTimeout
  <2>14. CASE ReceiveMessage
    BY <2>14 DEF ReceiveMessage, NextRead
  <2>15. CASE ReadFails
    BY <2>15 DEF ReadFails
  <2>16. CASE Unwind
    BY <2>16 DEF Unwind, UpAfterUnwind
  <2>17. CASE Release
    BY <2>17 DEF Release, ClosesNow
  <2> QED
    BY <1>1, <2>1, <2>2, <2>3, <2>4, <2>5, <2>6, <2>7, <2>8, <2>9, <2>10,
       <2>11, <2>12, <2>13, <2>14, <2>15, <2>16, <2>17 DEF RunStep
<1>2. CASE WatchdogStep
  <2>1. CASE WatchdogFires
    <3>1. CASE once = "new"
      <4>1. Held /\ ctxDone /\ ctxDone'
        BY <2>1, <3>1 DEF WatchdogFires, WatchdogWakes
      <4> QED
        BY <2>1, <3>1, <4>1 DEF WatchdogFires
    <3>2. CASE once # "new"
      <4>1. watchdog' = "done" /\ UNCHANGED <<pc, ctxDone, cleared, socket, once>>
        BY <2>1, <3>2 DEF WatchdogFires
      <4>2. watchdog = "parked"
        BY <2>1 DEF WatchdogFires
      <4> QED
        BY <4>1, <4>2
    <3> QED
      BY <3>1, <3>2
  <2>2. CASE WatchdogCloses
    BY <2>2 DEF WatchdogCloses, SocketAfterClose
  <2>3. CASE ParkedEnds
    BY <2>3 DEF ParkedEnds
  <2> QED
    BY <1>2, <2>1, <2>2, <2>3 DEF WatchdogStep
<1>3. CASE PeerStep
  <2>1. CASE AcceptLogin
    BY <2>1 DEF AcceptLogin
  <2>2. CASE RejectLogin
    BY <2>2 DEF RejectLogin
  <2>3. CASE Break
    BY <2>3 DEF Break
  <2>4. CASE Hang
    BY <2>4 DEF Hang
  <2>5. ASSUME NEW kind \in Kinds, Emit(kind) PROVE SessionInv'
    BY <2>5 DEF Emit
  <2> QED
    BY <1>3, <2>1, <2>2, <2>3, <2>4, <2>5 DEF PeerStep
<1>4. CASE Cancel
  BY <1>4 DEF Cancel
<1>5. CASE Terminated \/ UNCHANGED vars
  BY <1>5 DEF Terminated, vars
<1> QED
  BY <1>1, <1>2, <1>3, <1>4, <1>5 DEF Next

\* SessionInv holds in every reachable state.
LEMMA SessionCorrect == Spec => []SessionInv
<1>1. Init => SessionInv
  BY DEF Init, SessionInv, Idle, Held, SessionPcs
<1> QED
  BY <1>1, TypeCorrect, NextSessionInv, PTL DEF Spec

\* A nil dereference in a client call happens only after shutdown has begun,
\* whatever Asterisk and the network do.
THEOREM PanicCorrect == Spec => []PanicOnlyAtShutdown
<1>1. SessionInv => PanicOnlyAtShutdown
  BY DEF SessionInv, PanicOnlyAtShutdown
<1> QED
  BY <1>1, SessionCorrect, PTL

\* Every exit of runOnce, and so of Run, leaves the socket closed.
THEOREM SocketCorrect == Spec => []NothingLeftOpen
<1>1. SessionInv => NothingLeftOpen
  BY DEF SessionInv, NothingLeftOpen, Idle
<1> QED
  BY <1>1, SessionCorrect, PTL

-----------------------------------------------------------------------------
(* Reconnects, losses, late events *)

\* A failure that is not yet followed by its OnReconnect leaves reconnects
\* behind faults, unless shutdown will keep it from being followed at all.
FaultInv ==
    /\ reconnects <= faults
    /\ pc = "sleep" \/ (pc \in {"top", "attempt"} /\ ~first) => reconnects < faults
    /\ ~ctxDone => /\ pc \in {"unwind", "close", "after"} => reconnects < faults
                   /\ InSession /\ (socket = "eof" \/ hung \/ server = "rejected")
                          => reconnects < faults

\* No step of the loop, a watchdog or the peer breaks FaultInv.
LEMMA NextFaultInv ==
    TypeOK /\ SessionInv /\ FaultInv /\ [Next]_vars => FaultInv'
<1> SUFFICES ASSUME ControlTypeOK, CountTypeOK, SessionInv, FaultInv, [Next]_vars PROVE FaultInv'
    BY DEF TypeOK
<1> USE DEF FaultInv, InSession, SessionPcs, Alive, CountTypeOK, SessionInv, Held, Deliverable
<1>1. CASE RunStep
  <2>1. CASE Top
    BY <2>1 DEF Top
  <2>2. CASE Attempt
    BY <2>2 DEF Attempt, Counts
  <2>3. CASE After
    BY <2>3 DEF After, StopsAfter
  <2>4. CASE SleepInterrupted
    BY <2>4 DEF SleepInterrupted
  <2>5. CASE SleepEnds
    BY <2>5 DEF SleepEnds
  <2>6. CASE DialFails
    BY <2>6 DEF DialFails
  <2>7. CASE DialSucceeds
    BY <2>7 DEF DialSucceeds
  <2>8. CASE CheckConn
    BY <2>8 DEF CheckConn
  <2>9. CASE WriteLogin
    BY <2>9 DEF WriteLogin, UseOutcomes
  <2>10. CASE WriteFails
    BY <2>10 DEF WriteFails
  <2>11. CASE SetDeadline
    BY <2>11 DEF SetDeadline, UseOutcomes
  <2>12. CASE LoginReply
    BY <2>12 DEF LoginReply
  <2>13. CASE LoginTimeout
    BY <2>13 DEF LoginTimeout
  <2>14. CASE ReceiveMessage
    BY <2>14 DEF ReceiveMessage, NextRead
  <2>15. CASE ReadFails
    BY <2>15 DEF ReadFails
  <2>16. CASE Unwind
    BY <2>16 DEF Unwind, UpAfterUnwind
  <2>17. CASE Release
    BY <2>17 DEF Release, ClosesNow
  <2> QED
    BY <1>1, <2>1, <2>2, <2>3, <2>4, <2>5, <2>6, <2>7, <2>8, <2>9, <2>10,
       <2>11, <2>12, <2>13, <2>14, <2>15, <2>16, <2>17 DEF RunStep
<1>2. CASE WatchdogStep
  <2>1. CASE WatchdogFires
    BY <2>1 DEF WatchdogFires
  <2>2. CASE WatchdogCloses
    BY <2>2 DEF WatchdogCloses, SocketAfterClose
  <2>3. CASE ParkedEnds
    BY <2>3 DEF ParkedEnds
  <2> QED
    BY <1>2, <2>1, <2>2, <2>3 DEF WatchdogStep
<1>3. CASE PeerStep
  <2>1. CASE AcceptLogin
    BY <2>1 DEF AcceptLogin
  <2>2. CASE RejectLogin
    BY <2>2 DEF RejectLogin
  <2>3. CASE Break
    BY <2>3 DEF Break
  <2>4. CASE Hang
    BY <2>4 DEF Hang
  <2>5. ASSUME NEW kind \in Kinds, Emit(kind) PROVE FaultInv'
    BY <2>5 DEF Emit
  <2> QED
    BY <1>3, <2>1, <2>2, <2>3, <2>4, <2>5 DEF PeerStep
<1>4. CASE Cancel
  BY <1>4 DEF Cancel
<1>5. CASE Terminated \/ UNCHANGED vars
  BY <1>5 DEF Terminated, vars
<1> QED
  BY <1>1, <1>2, <1>3, <1>4, <1>5 DEF Next

\* Messages are conserved, none waits between sessions, and a loss has a cause.
LossInv ==
    /\ EventConservation
    /\ Idle => inbox = <<>>

\* No step of the loop, a watchdog or the peer breaks LossInv.
LEMMA NextLossInv ==
    TypeOK /\ FaultInv /\ LossInv /\ [Next]_vars => LossInv'
<1> SUFFICES ASSUME CountTypeOK, FaultInv, LossInv, [Next]_vars PROVE LossInv'
    BY DEF TypeOK
<1> USE DEF LossInv, EventConservation, Idle, CountTypeOK
<1>1. CASE RunStep
  <2>1. CASE Top
    BY <2>1 DEF Top
  <2>2. CASE Attempt
    BY <2>2 DEF Attempt, Counts
  <2>3. CASE After
    BY <2>3 DEF After, StopsAfter
  <2>4. CASE SleepInterrupted
    BY <2>4 DEF SleepInterrupted
  <2>5. CASE SleepEnds
    BY <2>5 DEF SleepEnds
  <2>6. CASE DialFails
    BY <2>6 DEF DialFails
  <2>7. CASE DialSucceeds
    BY <2>7 DEF DialSucceeds
  <2>8. CASE CheckConn
    BY <2>8 DEF CheckConn
  <2>9. CASE WriteLogin
    BY <2>9 DEF WriteLogin, UseOutcomes
  <2>10. CASE WriteFails
    BY <2>10 DEF WriteFails
  <2>11. CASE SetDeadline
    BY <2>11 DEF SetDeadline, UseOutcomes
  <2>12. CASE LoginReply
    BY <2>12 DEF LoginReply
  <2>13. CASE LoginTimeout
    BY <2>13 DEF LoginTimeout
  <2>14. CASE ReceiveMessage
    <3>1. Len(inbox) \in Nat /\ Len(inbox') = Len(inbox) - 1
      BY <2>14 DEF ReceiveMessage
    <3>2. \/ handled' = handled + 1 /\ ignored' = ignored
          \/ handled' = handled /\ ignored' = ignored + 1
      BY <2>14 DEF ReceiveMessage, Handles
    <3>3. ~Idle' /\ UNCHANGED <<sent, lost, faults, ctxDone>>
      BY <2>14 DEF ReceiveMessage, NextRead
    <3> QED
      BY <3>1, <3>2, <3>3
  <2>15. CASE ReadFails
    BY <2>15 DEF ReadFails
  <2>16. CASE Unwind
    BY <2>16 DEF Unwind, UpAfterUnwind
  <2>17. CASE Release
    <3>1. ~ctxDone => faults > 0
      BY <2>17 DEF Release, FaultInv
    <3>2. inbox' = <<>> /\ lost' = lost + Len(inbox) /\ Len(inbox) \in Nat
      BY <2>17 DEF Release
    <3>3. UNCHANGED <<sent, handled, ignored, faults, ctxDone>>
      BY <2>17 DEF Release
    <3> QED
      BY <3>1, <3>2, <3>3
  <2> QED
    BY <1>1, <2>1, <2>2, <2>3, <2>4, <2>5, <2>6, <2>7, <2>8, <2>9, <2>10,
       <2>11, <2>12, <2>13, <2>14, <2>15, <2>16, <2>17 DEF RunStep
<1>2. CASE WatchdogStep
  <2>1. CASE WatchdogFires
    BY <2>1 DEF WatchdogFires
  <2>2. CASE WatchdogCloses
    BY <2>2 DEF WatchdogCloses, SocketAfterClose
  <2>3. CASE ParkedEnds
    BY <2>3 DEF ParkedEnds
  <2> QED
    BY <1>2, <2>1, <2>2, <2>3 DEF WatchdogStep
<1>3. CASE PeerStep
  <2>1. CASE AcceptLogin
    BY <2>1 DEF AcceptLogin
  <2>2. CASE RejectLogin
    BY <2>2 DEF RejectLogin
  <2>3. CASE Break
    BY <2>3 DEF Break
  <2>4. CASE Hang
    BY <2>4 DEF Hang
  <2>5. ASSUME NEW kind \in Kinds, Emit(kind) PROVE LossInv'
    <3>1. inbox' = Append(inbox, kind) /\ Len(inbox') = Len(inbox) + 1
      BY <2>5 DEF Emit
    <3>2. /\ sent' = sent + 1 /\ ~Idle /\ ~Idle'
          /\ UNCHANGED <<handled, ignored, lost, faults, ctxDone>>
      BY <2>5 DEF Emit, InSession, SessionPcs
    <3> QED
      BY <3>1, <3>2
  <2> QED
    BY <1>3, <2>1, <2>2, <2>3, <2>4, <2>5 DEF PeerStep
<1>4. CASE Cancel
  BY <1>4 DEF Cancel
<1>5. CASE Terminated \/ UNCHANGED vars
  BY <1>5 DEF Terminated, vars
<1> QED
  BY <1>1, <1>2, <1>3, <1>4, <1>5 DEF Next

\* The one late event is the last thing this Run hands to the handler.
LateInv ==
    \/ late = 0
    \/ /\ late = 1 /\ ctxDone
       /\ pc \in {"rCheck", "unwind", "close", "after", "stopped"}
       /\ pc = "rCheck" => cleared

\* No step of the loop, a watchdog or the peer breaks LateInv.
LEMMA NextLateInv ==
    TypeOK /\ SessionInv /\ LateInv /\ [Next]_vars => LateInv'
<1> SUFFICES ASSUME ControlTypeOK, CountTypeOK, SessionInv, LateInv, [Next]_vars PROVE LateInv'
    BY DEF TypeOK
<1> USE DEF LateInv, SessionInv, Held, SessionPcs, InSession, Alive, CountTypeOK
<1>1. CASE RunStep
  <2>1. CASE Top
    BY <2>1 DEF Top
  <2>2. CASE Attempt
    BY <2>2 DEF Attempt, Counts
  <2>3. CASE After
    BY <2>3 DEF After, StopsAfter
  <2>4. CASE SleepInterrupted
    BY <2>4 DEF SleepInterrupted
  <2>5. CASE SleepEnds
    BY <2>5 DEF SleepEnds
  <2>6. CASE DialFails
    BY <2>6 DEF DialFails
  <2>7. CASE DialSucceeds
    BY <2>7 DEF DialSucceeds
  <2>8. CASE CheckConn
    BY <2>8 DEF CheckConn
  <2>9. CASE WriteLogin
    BY <2>9 DEF WriteLogin, UseOutcomes
  <2>10. CASE WriteFails
    BY <2>10 DEF WriteFails
  <2>11. CASE SetDeadline
    BY <2>11 DEF SetDeadline, UseOutcomes
  <2>12. CASE LoginReply
    BY <2>12 DEF LoginReply
  <2>13. CASE LoginTimeout
    BY <2>13 DEF LoginTimeout
  <2>14. CASE ReceiveMessage
    BY <2>14 DEF ReceiveMessage, NextRead
  <2>15. CASE ReadFails
    BY <2>15 DEF ReadFails
  <2>16. CASE Unwind
    BY <2>16 DEF Unwind, UpAfterUnwind
  <2>17. CASE Release
    BY <2>17 DEF Release, ClosesNow
  <2> QED
    BY <1>1, <2>1, <2>2, <2>3, <2>4, <2>5, <2>6, <2>7, <2>8, <2>9, <2>10,
       <2>11, <2>12, <2>13, <2>14, <2>15, <2>16, <2>17 DEF RunStep
<1>2. CASE WatchdogStep
  <2>1. CASE WatchdogFires
    BY <2>1 DEF WatchdogFires
  <2>2. CASE WatchdogCloses
    BY <2>2 DEF WatchdogCloses, SocketAfterClose
  <2>3. CASE ParkedEnds
    BY <2>3 DEF ParkedEnds
  <2> QED
    BY <1>2, <2>1, <2>2, <2>3 DEF WatchdogStep
<1>3. CASE PeerStep
  <2>1. CASE AcceptLogin
    BY <2>1 DEF AcceptLogin
  <2>2. CASE RejectLogin
    BY <2>2 DEF RejectLogin
  <2>3. CASE Break
    BY <2>3 DEF Break
  <2>4. CASE Hang
    BY <2>4 DEF Hang
  <2>5. ASSUME NEW kind \in Kinds, Emit(kind) PROVE LateInv'
    BY <2>5 DEF Emit
  <2> QED
    BY <1>3, <2>1, <2>2, <2>3, <2>4, <2>5 DEF PeerStep
<1>4. CASE Cancel
  BY <1>4 DEF Cancel
<1>5. CASE Terminated \/ UNCHANGED vars
  BY <1>5 DEF Terminated, vars
<1> QED
  BY <1>1, <1>2, <1>3, <1>4, <1>5 DEF Next

-----------------------------------------------------------------------------
(* The gauge *)

\* UpTracksSession is inductive as it stands.
LEMMA NextUpTracksSession ==
    TypeOK /\ UpTracksSession /\ [Next]_vars => UpTracksSession'
<1> SUFFICES ASSUME ControlTypeOK, CountTypeOK, UpTracksSession, [Next]_vars
             PROVE  UpTracksSession'
    BY DEF TypeOK
<1> USE DEF UpTracksSession, SessionPcs, InSession, CountTypeOK, ControlTypeOK
<1>1. CASE RunStep
  <2>1. CASE Top
    BY <2>1 DEF Top
  <2>2. CASE Attempt
    BY <2>2 DEF Attempt, Counts
  <2>3. CASE After
    BY <2>3 DEF After, StopsAfter
  <2>4. CASE SleepInterrupted
    BY <2>4 DEF SleepInterrupted
  <2>5. CASE SleepEnds
    BY <2>5 DEF SleepEnds
  <2>6. CASE DialFails
    BY <2>6 DEF DialFails
  <2>7. CASE DialSucceeds
    BY <2>7 DEF DialSucceeds
  <2>8. CASE CheckConn
    BY <2>8 DEF CheckConn
  <2>9. CASE WriteLogin
    BY <2>9 DEF WriteLogin, UseOutcomes
  <2>10. CASE WriteFails
    BY <2>10 DEF WriteFails
  <2>11. CASE SetDeadline
    BY <2>11 DEF SetDeadline, UseOutcomes
  <2>12. CASE LoginReply
    BY <2>12 DEF LoginReply
  <2>13. CASE LoginTimeout
    BY <2>13 DEF LoginTimeout
  <2>14. CASE ReceiveMessage
    BY <2>14 DEF ReceiveMessage, NextRead
  <2>15. CASE ReadFails
    BY <2>15 DEF ReadFails
  <2>16. CASE Unwind
    BY <2>16 DEF Unwind, UpAfterUnwind
  <2>17. CASE Release
    BY <2>17 DEF Release, ClosesNow
  <2> QED
    BY <1>1, <2>1, <2>2, <2>3, <2>4, <2>5, <2>6, <2>7, <2>8, <2>9, <2>10,
       <2>11, <2>12, <2>13, <2>14, <2>15, <2>16, <2>17 DEF RunStep
<1>2. CASE WatchdogStep
  <2>1. CASE WatchdogFires
    BY <2>1 DEF WatchdogFires
  <2>2. CASE WatchdogCloses
    BY <2>2 DEF WatchdogCloses, SocketAfterClose
  <2>3. CASE ParkedEnds
    BY <2>3 DEF ParkedEnds
  <2> QED
    BY <1>2, <2>1, <2>2, <2>3 DEF WatchdogStep
<1>3. CASE PeerStep
  <2>1. CASE AcceptLogin
    BY <2>1 DEF AcceptLogin
  <2>2. CASE RejectLogin
    BY <2>2 DEF RejectLogin
  <2>3. CASE Break
    BY <2>3 DEF Break
  <2>4. CASE Hang
    BY <2>4 DEF Hang
  <2>5. ASSUME NEW kind \in Kinds, Emit(kind) PROVE UpTracksSession'
    BY <2>5 DEF Emit
  <2> QED
    BY <1>3, <2>1, <2>2, <2>3, <2>4, <2>5 DEF PeerStep
<1>4. CASE Cancel
  BY <1>4 DEF Cancel
<1>5. CASE Terminated \/ UNCHANGED vars
  BY <1>5 DEF Terminated, vars
<1> QED
  BY <1>1, <1>2, <1>3, <1>4, <1>5 DEF Next

-----------------------------------------------------------------------------
(* The results *)

\* Whatever the backoff range and however many failures: the health gauge
\* follows the sessions through every exit of runOnce.
THEOREM GaugeCorrect == Spec => []UpTracksSession
<1>1. Init => UpTracksSession
  BY DEF Init, UpTracksSession, SessionPcs
<1> QED
  BY <1>1, TypeCorrect, NextUpTracksSession, PTL DEF Spec

\* OnReconnect is called at most once per failure of Asterisk, the network or
\* the login deadline; shutdown adds none.
THEOREM ReconnectsCorrect == Spec => []NoSpuriousReconnect
<1>1. Init => FaultInv
  BY DEF Init, FaultInv, InSession, SessionPcs
<1>2. FaultInv => NoSpuriousReconnect
  BY DEF FaultInv, NoSpuriousReconnect
<1> QED
  BY <1>1, <1>2, TypeCorrect, SessionCorrect, NextFaultInv, PTL DEF Spec

\* Messages of accepted sessions are conserved, and only a failure or shutdown
\* loses any.
THEOREM DeliveryCorrect == Spec => []EventConservation
<1>1. Init => FaultInv /\ LossInv
  BY DEF Init, FaultInv, LossInv, InSession, SessionPcs, Idle,
         EventConservation
<1>2. LossInv => EventConservation
  BY DEF LossInv
<1> QED
  BY <1>1, <1>2, TypeCorrect, SessionCorrect, NextFaultInv, NextLossInv, PTL
  DEF Spec

\* At most one event reaches the handler after the watchdog's Close.
THEOREM LateCorrect == Spec => []AtMostOneLateEvent
<1>1. Init => LateInv
  BY DEF Init, LateInv
<1>2. LateInv => AtMostOneLateEvent
  BY DEF LateInv, AtMostOneLateEvent
<1> QED
  BY <1>1, <1>2, TypeCorrect, SessionCorrect, NextLateInv, PTL DEF Spec

-----------------------------------------------------------------------------
(* The backoff: Doubled is what its definition says, and Run follows it *)

\* A nonempty set of natural numbers has a least one.
LEMMA LeastNumber ==
    ASSUME NEW N \in SUBSET Nat, N # {}
    PROVE  \E x \in N : \A y \in N : x <= y
<1> DEFINE Less == OpToRel(<, Nat)
<1>1. IsWellFoundedOn(Less, Nat)
  BY NatLessThanWellFounded
<1>2. \A x, y \in Nat : y < x => <<y, x>> \in Less
  BY DEF OpToRel
<1> HIDE DEF Less
<1>3. \E x \in N : \A y \in N : <<y, x>> \notin Less
  BY <1>1, WFMin
<1>4. \E x \in N : \A y \in N : ~(y < x)
  BY <1>2, <1>3, Zenon
<1> QED
  BY <1>4, SMT

\* g doubles BaseBackoff from 0 to m.
UpTo(m, g) ==
    /\ g \in [0..m -> Nat] /\ g[0] = BaseBackoff
    /\ \A k \in 1..m : g[k] = 2 * g[k - 1]

\* There is such a function for every m.
LEMMA UpToExists == \A m \in Nat : \E g : UpTo(m, g)
<1> DEFINE N == {m \in Nat : ~\E g : UpTo(m, g)}
<1> SUFFICES ASSUME N # {} PROVE FALSE
  OBVIOUS
<1>1. PICK m \in N : \A y \in N : m <= y
  BY LeastNumber, Zenon
<1>2. m \in Nat /\ ~\E g : UpTo(m, g)
  BY <1>1
<1>3. m # 0
  <2> DEFINE g == [k \in 0..0 |-> BaseBackoff]
  <2>1. UpTo(0, g)
    BY BackoffAssumption DEF UpTo
  <2> QED
    BY <1>2, <2>1, Zenon
<1>4. m - 1 \in Nat /\ m - 1 \notin N
  BY <1>1, <1>2, <1>3
<1>5. PICK g : UpTo(m - 1, g)
  BY <1>4
<1> DEFINE h == [k \in 0..m |-> IF k < m THEN g[k] ELSE 2 * g[m - 1]]
<1>6. UpTo(m, h)
  <2>1. /\ g \in [0..(m - 1) -> Nat] /\ g[0] = BaseBackoff
        /\ \A k \in 1..(m - 1) : g[k] = 2 * g[k - 1]
    BY <1>5, Zenon DEF UpTo
  <2>2. h \in [0..m -> Nat] /\ h[0] = BaseBackoff
    BY <1>2, <1>3, <2>1
  <2>3. ASSUME NEW k \in 1..m PROVE h[k] = 2 * h[k - 1]
    <3>1. k - 1 \in 0..(m - 1) /\ h[k - 1] = g[k - 1]
      BY <1>2, <2>3
    <3>2. CASE k < m
      BY <1>2, <2>1, <2>3, <3>1, <3>2
    <3>3. CASE k = m
      BY <1>2, <2>3, <3>1, <3>3
    <3> QED
      BY <1>2, <2>3, <3>2, <3>3
  <2> QED
    BY <2>2, <2>3, Zenon DEF UpTo
<1> QED
  BY <1>2, <1>6, Zenon

\* Any two agree as far as both reach.
LEMMA UpToUnique ==
    ASSUME NEW m \in Nat, NEW n \in Nat, NEW g, NEW h, UpTo(m, g), UpTo(n, h)
    PROVE  \A k \in Nat : k <= m /\ k <= n => g[k] = h[k]
<1> DEFINE N == {k \in Nat : k <= m /\ k <= n /\ g[k] # h[k]}
<1> SUFFICES ASSUME N # {} PROVE FALSE
  OBVIOUS
<1>1. PICK k \in N : \A y \in N : k <= y
  BY LeastNumber, Zenon
<1>2. k \in Nat /\ k <= m /\ k <= n /\ g[k] # h[k]
  BY <1>1
<1>3. k # 0
  BY <1>2, Zenon DEF UpTo
<1>4. k - 1 \in Nat /\ k - 1 <= m /\ k - 1 <= n /\ k - 1 \notin N
  BY <1>1, <1>2, <1>3
<1>5. g[k - 1] = h[k - 1]
  BY <1>4
<1>6. g[k] = 2 * g[k - 1] /\ h[k] = 2 * h[k - 1]
  BY <1>2, <1>3 DEF UpTo
<1> QED
  BY <1>2, <1>5, <1>6, Zenon

\* Doubled exists: its recursion has a solution.
LEMMA DoubledExists ==
    \E f : f = [n \in Nat |-> IF n = 0 THEN BaseBackoff ELSE 2 * f[n - 1]]
<1> DEFINE G(n) == CHOOSE g : UpTo(n, g)
           f == [n \in Nat |-> G(n)[n]]
<1>1. \A n \in Nat : UpTo(n, G(n))
  BY UpToExists, Zenon
<1> HIDE DEF G
<1>2. ASSUME NEW n \in Nat PROVE f[n] = IF n = 0 THEN BaseBackoff ELSE 2 * f[n - 1]
  <2>1. CASE n = 0
    <3>1. G(0)[0] = BaseBackoff
      BY <1>1, SMT DEF UpTo
    <3> QED
      BY <2>1, <3>1
  <2>2. CASE n # 0
    <3>1. n - 1 \in Nat /\ n \in 1..n /\ n - 1 <= n /\ n - 1 <= n - 1
      BY <2>2
    <3>2. G(n)[n] = 2 * G(n)[n - 1]
      BY <1>1, <3>1, Zenon DEF UpTo
    <3>3. G(n)[n - 1] = G(n - 1)[n - 1]
      <4> DEFINE p == n - 1
      <4>1. p \in Nat /\ p <= n /\ p <= p
        BY <3>1
      <4> HIDE DEF p
      <4>2. UpTo(n, G(n)) /\ UpTo(p, G(p))
        BY <1>1, <4>1, Zenon
      <4>3. \A k \in Nat : k <= n /\ k <= p => G(n)[k] = G(p)[k]
        BY <4>1, <4>2, UpToUnique
      <4>4. G(n)[p] = G(p)[p]
        BY <4>1, <4>3, Zenon
      <4> QED
        BY <4>4, Zenon DEF p
    <3>4. f[n] = G(n)[n] /\ f[n - 1] = G(n - 1)[n - 1]
      BY <3>1, Zenon
    <3> QED
      BY <2>2, <3>2, <3>3, <3>4, Zenon
  <2> QED
    BY <2>1, <2>2
<1> DEFINE F == [n \in Nat |-> IF n = 0 THEN BaseBackoff ELSE 2 * f[n - 1]]
<1>3. f = F
  <2> DEFINE e(n) == IF n = 0 THEN BaseBackoff ELSE 2 * f[n - 1]
  <2>1. \A n \in Nat : G(n)[n] = e(n)
    BY <1>2, Zenon
  <2> HIDE DEF e
  <2>2. [n \in Nat |-> G(n)[n]] = [n \in Nat |-> e(n)]
    BY <2>1
  <2> QED
    BY <2>2, Zenon DEF e
<1> QED
  BY <1>3, Zenon

\* So Doubled, which their values make up, satisfies its equation.
LEMMA DoubledEquation ==
    ASSUME NEW n \in Nat
    PROVE  Doubled[n] = IF n = 0 THEN BaseBackoff ELSE 2 * Doubled[n - 1]
<1>1. Doubled = [k \in Nat |-> IF k = 0 THEN BaseBackoff ELSE 2 * Doubled[k - 1]]
  BY DoubledExists, Zenon DEF Doubled
<1> DEFINE F == [k \in Nat |-> IF k = 0 THEN BaseBackoff ELSE 2 * Doubled[k - 1]]
<1>2. F[n] = IF n = 0 THEN BaseBackoff ELSE 2 * Doubled[n - 1]
  BY Zenon
<1> QED
  BY <1>1, <1>2, Zenon

\* As the doubling from BaseBackoff that it stands for.
LEMMA DoubledType ==
    /\ \A n \in Nat : Doubled[n] \in Nat
    /\ Doubled[0] = BaseBackoff
    /\ \A n \in Nat : Doubled[n + 1] = 2 * Doubled[n]
<1>1. ASSUME NEW n \in Nat PROVE Doubled[n + 1] = 2 * Doubled[n]
  <2>1. n + 1 \in Nat /\ n + 1 # 0 /\ (n + 1) - 1 = n
    OBVIOUS
  <2>2. Doubled[n + 1] = 2 * Doubled[(n + 1) - 1]
    BY <2>1, DoubledEquation, Zenon
  <2> QED
    BY <2>1, <2>2, Zenon
<1>2. Doubled[0] = BaseBackoff
  <2>1. 0 \in Nat
    OBVIOUS
  <2> QED
    BY <2>1, DoubledEquation, Zenon
<1>3. \A n \in Nat : Doubled[n] \in Nat
  <2> DEFINE N == {n \in Nat : Doubled[n] \notin Nat}
  <2> SUFFICES ASSUME N # {} PROVE FALSE
    OBVIOUS
  <2>1. PICK n \in N : \A y \in N : n <= y
    BY LeastNumber, Zenon
  <2>2. n \in Nat /\ Doubled[n] \notin Nat
    BY <2>1
  <2>3. n # 0
    BY <1>2, <2>2, BackoffAssumption
  <2>4. n - 1 \in Nat /\ n - 1 \notin N /\ (n - 1) + 1 = n
    BY <2>1, <2>2, <2>3
  <2>5. Doubled[n - 1] \in Nat
    BY <2>4
  <2>6. Doubled[(n - 1) + 1] = 2 * Doubled[n - 1]
    BY <1>1, <2>4, Zenon
  <2>7. Doubled[n] = 2 * Doubled[n - 1]
    BY <2>4, <2>6, Zenon
  <2> QED
    BY <2>2, <2>5, <2>7
<1> QED
  BY <1>1, <1>2, <1>3, Zenon

\* Capping at every doubling is capping once.
LEMMA CappedDoubles ==
    /\ Capped(0) = BaseBackoff
    /\ \A n \in Nat : NextBackoff(Capped(n)) = Capped(n + 1)
<1>1. Capped(0) = BaseBackoff
  BY DoubledType, BackoffAssumption DEF Capped
<1>2. ASSUME NEW n \in Nat PROVE NextBackoff(Capped(n)) = Capped(n + 1)
  <2>1. Doubled[n] \in Nat /\ Doubled[n + 1] = 2 * Doubled[n]
    BY DoubledType, Zenon
  <2> QED
    BY <2>1, BackoffAssumption DEF Capped, NextBackoff
<1> QED
  BY <1>1, <1>2

\* The backoff is the one of the attempts counted; of the next one, before Attempt
\* counts it.
BackoffInv ==
    /\ reconnects \in Nat
    /\ first => pc \in {"top", "attempt", "stopped"} /\ reconnects = 0 /\ backoff = BaseBackoff
    /\ ~first /\ pc \in {"top", "attempt"} => backoff = Capped(reconnects + 1)
    /\ ~first /\ pc \notin {"top", "attempt", "stopped"} => backoff = Capped(reconnects)

\* Every step that changes the backoff is the attempt that counts a reconnect, or
\* the end of the sleep that doubles it.
LEMMA NextBackoffInv == BackoffInv /\ [Next]_vars => BackoffInv'
<1> SUFFICES ASSUME BackoffInv, [Next]_vars PROVE BackoffInv'
    OBVIOUS
<1> USE DEF BackoffInv
<1>1. CASE Top \/ After \/ SleepInterrupted
  BY <1>1 DEF Top, After, SleepInterrupted
<1>2. CASE Attempt
  BY <1>2, CappedDoubles DEF Attempt, Counts
<1>3. CASE SleepEnds
  BY <1>3, CappedDoubles DEF SleepEnds
<1>4. CASE DialFails \/ DialSucceeds \/ CheckConn \/ WriteLogin \/ WriteFails \/ SetDeadline
  BY <1>4 DEF DialFails, DialSucceeds, CheckConn, WriteLogin, UseOutcomes, WriteFails, SetDeadline
<1>5. CASE LoginReply \/ LoginTimeout \/ ReceiveMessage \/ ReadFails \/ Unwind \/ Release
  BY <1>5 DEF LoginReply, LoginTimeout, ReceiveMessage, NextRead, ReadFails, Unwind, Release
<1>6. CASE WatchdogStep \/ PeerStep
  BY <1>6 DEF WatchdogStep, WatchdogFires, WatchdogCloses, ParkedEnds, PeerStep,
     AcceptLogin, RejectLogin, Break, Hang, Emit
<1>7. CASE Cancel \/ Terminated \/ UNCHANGED vars
  BY <1>7 DEF Cancel, Terminated, vars
<1> QED
  BY <1>1, <1>2, <1>3, <1>4, <1>5, <1>6, <1>7 DEF Next, RunStep

\* At every dial the backoff is BaseBackoff doubled once per reconnect and capped,
\* whatever sessions there were in between.
THEOREM BackoffCorrect == Spec => []BackoffFollowsReconnects
<1>1. Init => BackoffInv
  BY DEF Init, BackoffInv
<1>2. BackoffInv => BackoffFollowsReconnects
  BY DEF BackoffInv, BackoffFollowsReconnects
<1> QED
  BY <1>1, <1>2, NextBackoffInv, PTL DEF Spec

-----------------------------------------------------------------------------
(* EventStream implements Session: each step of Run, of a watchdog or of   *)
(* the peer is one step of the abstract session, or one it does not see    *)

USE DEF S!counts, S!vars

\* The state Session sees, by the place Run is at.
LEMMA StateHere ==
    ASSUME ControlTypeOK, UpTracksSession
    PROVE  SessionState = IF pc = "panicked" THEN "dead"
                          ELSE IF pc = "stopped" THEN "over"
                          ELSE IF phase = "login" \/ Idle THEN "down"
                          ELSE IF pc = "close" THEN "ending"
                          ELSE "up"
  BY DEF ControlTypeOK, UpTracksSession, SessionState, Idle, Pcs, SessionPcs

\* The same of the state after a step.
LEMMA StateNext ==
    ASSUME ControlTypeOK', UpTracksSession'
    PROVE  SessionState' = IF pc' = "panicked" THEN "dead"
                           ELSE IF pc' = "stopped" THEN "over"
                           ELSE IF phase' = "login" \/ Idle' THEN "down"
                           ELSE IF pc' = "close" THEN "ending"
                           ELSE "up"
  BY DEF ControlTypeOK, UpTracksSession, SessionState, Idle, Pcs, SessionPcs

\* Run's local is only set before the first attempt.
EarlyInv == first => pc \in {"top", "attempt", "stopped"}

\* Every step of EventStream is a step of Session or leaves what it sees alone.
LEMMA NextRefines ==
    /\ TypeOK /\ UpTracksSession /\ LossInv /\ EarlyInv
    /\ TypeOK' /\ UpTracksSession' /\ LossInv'
    /\ [Next]_vars
    => [S!Next]_S!vars
<1> SUFFICES ASSUME ControlTypeOK, UpTracksSession, EarlyInv, inbox \in Seq(Kinds), lost \in Nat,
                    ControlTypeOK', UpTracksSession',
                    Idle => inbox = <<>>, Idle' => inbox' = <<>>, [Next]_vars
             PROVE  [S!Next]_S!vars
    BY DEF TypeOK, CountTypeOK, LossInv
<1> DEFINE Here == IF pc = "panicked" THEN "dead"
                          ELSE IF pc = "stopped" THEN "over"
                          ELSE IF phase = "login" \/ Idle THEN "down"
                          ELSE IF pc = "close" THEN "ending"
                          ELSE "up"
<1>h. SessionState = Here /\ SessionState' = Here'
  BY StateHere, StateNext
<1> HIDE DEF Here
<1> USE DEF ControlTypeOK, Idle, Pcs, SessionPcs, InSession, Trying, Here
<1>1. CASE RunStep
  <2>1. CASE Top
    BY <1>h, <2>1 DEF Top, S!Stop, S!Next
  <2>2. CASE Attempt
    BY <1>h, <2>2 DEF Attempt, Counts, S!Retry, S!Next
  <2>3. CASE After
    BY <1>h, <2>3 DEF After, StopsAfter, S!Stop, S!Next
  <2>4. CASE SleepInterrupted
    BY <1>h, <2>4 DEF SleepInterrupted, S!Stop, S!Next
  <2>5. CASE SleepEnds
    BY <1>h, <2>5 DEF SleepEnds, EarlyInv
  <2>6. CASE DialFails
    BY <1>h, <2>6 DEF DialFails, S!GivesUp, S!Next
  <2>7. CASE DialSucceeds
    BY <1>h, <2>7 DEF DialSucceeds
  <2>8. CASE CheckConn
    BY <1>h, <2>8 DEF CheckConn, S!GivesUp, S!Next
  <2>9. CASE WriteLogin
    BY <1>h, <2>9 DEF WriteLogin, UseOutcomes, S!GivesUp, S!Die, S!Next
  <2>10. CASE WriteFails
    BY <1>h, <2>10 DEF WriteFails, S!GivesUp, S!Next
  <2>11. CASE SetDeadline
    BY <1>h, <2>11 DEF SetDeadline, UseOutcomes, S!GivesUp, S!Die, S!Next
  <2>12. CASE LoginReply
    BY <1>h, <2>12 DEF LoginReply, S!GivesUp, S!Connect, S!Next
  <2>13. CASE LoginTimeout
    BY <1>h, <2>13 DEF LoginTimeout, S!GivesUp, S!Next
  <2>14. CASE ReceiveMessage
    BY <1>h, <2>14 DEF ReceiveMessage, NextRead, Handles, Kinds, S!Deliver, S!Next
  <2>15. CASE ReadFails
    BY <1>h, <2>15 DEF ReadFails, S!GivesUp, S!Next
  <2>16. CASE Unwind
    BY <1>h, <2>16 DEF Unwind, UpAfterUnwind, S!Drop, S!Next
  <2>17. CASE Release
    BY <1>h, <2>17 DEF Release, ClosesNow, S!Release, S!Lose, S!Next
  <2> QED
    BY <1>1, <2>1, <2>2, <2>3, <2>4, <2>5, <2>6, <2>7, <2>8, <2>9, <2>10,
       <2>11, <2>12, <2>13, <2>14, <2>15, <2>16, <2>17 DEF RunStep
<1>2. CASE WatchdogStep
  BY <1>h, <1>2 DEF WatchdogStep, WatchdogFires, WatchdogCloses, ParkedEnds
<1>3. CASE PeerStep
  <2>1. CASE AcceptLogin \/ RejectLogin \/ Hang
    BY <1>h, <2>1 DEF AcceptLogin, RejectLogin, Hang
  <2>2. CASE Break
    BY <1>h, <2>2 DEF Break, S!Lose, S!Next
  <2>3. ASSUME NEW kind \in Kinds, Emit(kind) PROVE S!Next
    BY <1>h, <2>3 DEF Emit, S!Send, S!Next
  <2> QED
    BY <1>3, <2>1, <2>2, <2>3 DEF PeerStep
<1>4. CASE Cancel
  BY <1>h, <1>4 DEF Cancel
<1>5. CASE Terminated \/ UNCHANGED vars
  BY <1>h, <1>5 DEF Terminated, vars
<1> QED
  BY <1>1, <1>2, <1>3, <1>4, <1>5 DEF Next

\* Whoever knows only Session may rely on it: EventStream implements it.
THEOREM RefinementCorrect == Spec => ImplementsSession
<1>1. Init => S!Init
  BY DEF Init, S!Init, SessionState, Trying
<1>2. Init => FaultInv /\ LossInv /\ BackoffInv
  BY DEF Init, FaultInv, LossInv, InSession, SessionPcs, Idle, EventConservation,
         BackoffInv
<1>3. BackoffInv => EarlyInv
  BY DEF BackoffInv, EarlyInv
<1> QED
  BY <1>1, <1>2, <1>3, TypeCorrect, SessionCorrect, GaugeCorrect, NextFaultInv, NextLossInv,
     NextBackoffInv, NextRefines, PTL
  DEF Spec, ImplementsSession, S!Spec
=============================================================================
