------------------------------ MODULE AmiClient ------------------------------
(***************************************************************************)
(* Request and response over one AMI connection: Client.Action, ListAction *)
(* and Login (internal/ami/client.go), on a connection whose context has   *)
(* one deadline, as the scrape's has.  The caller issues any calls, one    *)
(* after the other, and takes each result before the next.                 *)
(*                                                                         *)
(* A message is [type, id, n]: a response by its Response header, a list   *)
(* item (n tells them apart), the event that completes a list, or another  *)
(* event; id 0 stands for no ActionID.  wire holds what Asterisk has sent  *)
(* or will send and the client has not read; when it arrives is open, so a *)
(* deadline may pass while messages are on the wire.                       *)
(*                                                                         *)
(* Asterisk answers requests in order, echoes the ActionID, may insert     *)
(* MaxNoise unsolicited events without one, and may go away.               *)
(***************************************************************************)
EXTENDS Integers, Sequences
Seqs == INSTANCE SequencesExt

CONSTANTS
    Timeout,    \* Config.Timeout, which bounds the context of the scrape
    MaxCalls,   \* bound: calls on one connection
    MaxItems,   \* bound: items in a list
    MaxNoise    \* bound: unsolicited events

ASSUME TimeoutAssumption == Timeout \in Nat \ {0}
ASSUME BoundAssumption == MaxCalls \in Nat /\ MaxItems \in Nat /\ MaxNoise \in Nat

VARIABLES
    clock,      \* time since the context was made
    link,       \* "up", or "gone": the peer has closed or reset it
    wire,       \* messages not read yet
    actions,    \* Client.actions: the last ActionID given out
    call,       \* the call in progress: [kind, start]; its id is actions
    stage,      \* "none", "write", "reply", "items", "done"
    items,      \* ListAction's result so far
    outcome,    \* of the last call
    torn,       \* a deadline cut a message in two: part of it is consumed
    noise,      \* unsolicited events sent
    said        \* history: Asterisk's answer to the last call, [type, n]

client == <<actions, call, stage, items, outcome>>
vars == <<clock, link, wire, client, torn, noise, said>>

Kinds == {"login", "action", "list"}
Responses == {"Success", "Error", "Unknown"}
Events == {"item", "complete", "event"}
Ids == 0..MaxCalls
Message == [type : Responses \cup Events, id : Ids, n : 0..MaxItems]
Answer == [type : Responses, n : 0..MaxItems]
Unanswered == [type |-> "none", n |-> 0]
Outcomes == {"none", "ok", "rejected", "unknown", "mismatch", "io", "timeout"}

Unsolicited == [type |-> "event", id |-> 0, n |-> 0]

Init ==
    /\ clock = 0 /\ link = "up" /\ wire = <<>>
    /\ actions = 0 /\ call = [kind |-> "login", start |-> 0] /\ stage = "none"
    /\ items = <<>> /\ outcome = "none"
    /\ torn = FALSE /\ noise = 0
    /\ said = Unanswered

-----------------------------------------------------------------------------
(* The client *)

\* deadlineFromCtx: the context's deadline, the same for every call.
ExpiredPerCall == clock >= call.start + Timeout
NeverExpired == FALSE
Expired == clock >= Timeout

Finish(result) == stage' = "done" /\ outcome' = result

\* nextActionID: one id for each call, none used twice.
DrawsTwo(id) == id + 2
NextActionID(id) == id + 1

Begin(kind) ==
    /\ stage = "none" /\ actions < MaxCalls
    /\ actions' = NextActionID(actions)
    /\ call' = [kind |-> kind, start |-> clock]
    /\ stage' = "write" /\ items' = <<>> /\ outcome' = "none"
    /\ said' = Unanswered
    /\ UNCHANGED <<clock, link, wire, torn, noise>>

\* What Asterisk sends for a request: a response, and for an accepted list its
\* items and the completion.
Reply(kind, id, a) ==
    <<[type |-> a.type, id |-> id, n |-> 0]>> \o
    (IF kind = "list" /\ a.type = "Success"
       THEN [i \in 1..a.n |-> [type |-> "item", id |-> id, n |-> i]]
              \o <<[type |-> "complete", id |-> id, n |-> 0]>>
       ELSE <<>>)

\* The request reaches Asterisk, which settles its answer.
WriteReaches ==
    /\ stage = "write" /\ ~Expired /\ link = "up"
    /\ stage' = "reply"
    /\ \E a \in Answer :
          /\ a.n > 0 => call.kind = "list" /\ a.type = "Success"
          /\ said' = a
          /\ wire' = wire \o Reply(call.kind, actions, a)
    /\ UNCHANGED <<clock, link, actions, call, items, outcome, torn, noise>>

\* The request disappears in the kernel's buffer.
WriteVanishes ==
    /\ stage = "write" /\ ~Expired /\ link = "gone"
    /\ stage' = "reply"
    /\ UNCHANGED <<clock, link, wire, actions, call, items, outcome, torn, noise, said>>

WriteFails ==
    /\ stage = "write"
    /\ \/ Expired /\ Finish("timeout")
       \/ link = "gone" /\ Finish("io")
    /\ UNCHANGED <<clock, link, wire, actions, call, items, torn, noise, said>>

\* A message with another call's ActionID; one without any is never foreign.
Foreign(m) == m.id # 0 /\ m.id # actions

Consume == wire' = Tail(wire) /\ UNCHANGED <<clock, link, actions, call, torn, noise, said>>

\* Action: whatever message comes next is the response, unless its id differs.
\* Login also wants Success.
ActionReply ==
    /\ stage = "reply" /\ call.kind # "list" /\ wire # <<>>
    /\ Finish(CASE Foreign(Head(wire)) -> "mismatch"
                [] ~Foreign(Head(wire)) /\ call.kind = "login"
                     /\ Head(wire).type # "Success" -> "rejected"
                [] OTHER -> "ok")
    /\ items' = items /\ Consume

\* ListAction's first message: its ActionID is not looked at.
ListReply ==
    /\ stage = "reply" /\ call.kind = "list" /\ wire # <<>>
    /\ CASE Head(wire).type = "Success" -> stage' = "items" /\ UNCHANGED outcome
         [] Head(wire).type = "Unknown" -> Finish("unknown")
         [] OTHER -> Finish("rejected")
    /\ items' = items /\ Consume

\* The loop's skips: foreign ids, and messages without an Event.
SkippedForgettingIds(m) == m.type \in Responses
Skipped(m) == Foreign(m) \/ m.type \in Responses

\* What the reader still holds once the completion has been seen.
CompletionKept == wire
CompletionRead == Tail(wire)

ListItem ==
    /\ stage = "items" /\ wire # <<>> /\ Head(wire).type # "complete"
    /\ items' = IF Skipped(Head(wire)) THEN items ELSE Append(items, Head(wire))
    /\ UNCHANGED <<stage, outcome>> /\ Consume

ListSkipsForeignEnd ==
    /\ stage = "items" /\ wire # <<>> /\ Head(wire).type = "complete" /\ Skipped(Head(wire))
    /\ UNCHANGED <<items, stage, outcome>> /\ Consume

ListEnds ==
    /\ stage = "items" /\ wire # <<>> /\ Head(wire).type = "complete" /\ ~Skipped(Head(wire))
    /\ Finish("ok")
    /\ wire' = CompletionRead
    /\ UNCHANGED <<clock, link, items, actions, call, torn, noise, said>>

\* The read deadline passes, possibly in the middle of a message.
ReadTimeout ==
    /\ stage \in {"reply", "items"} /\ Expired
    /\ Finish("timeout")
    /\ torn' \in {torn, wire # <<>>}
    /\ UNCHANGED <<clock, link, wire, items, actions, call, noise, said>>

ReadEOF ==
    /\ stage \in {"reply", "items"} /\ link = "gone" /\ wire = <<>>
    /\ Finish("io")
    /\ UNCHANGED <<clock, link, wire, items, actions, call, torn, noise, said>>

\* The caller takes the result.
Return ==
    /\ stage = "done"
    /\ stage' = "none"
    /\ UNCHANGED <<clock, link, wire, actions, call, items, outcome, torn, noise, said>>

-----------------------------------------------------------------------------
(* Asterisk and time *)

Noise ==
    /\ link = "up" /\ noise < MaxNoise
    /\ noise' = noise + 1
    /\ \E i \in 1..Len(wire) + 1 : wire' = Seqs!InsertAt(wire, i, Unsolicited)
    /\ UNCHANGED <<clock, link, client, torn, said>>

\* The connection dies; a suffix of what was on the wire dies with it.
PeerGoes ==
    /\ link = "up"
    /\ link' = "gone"
    /\ \E kept \in 0..Len(wire) : wire' = SubSeq(wire, 1, kept)
    /\ UNCHANGED <<clock, client, torn, noise, said>>

\* The clock stops at the bound 2 * Timeout; the context ends at Timeout.
Tick ==
    /\ clock < 2 * Timeout
    /\ clock' = clock + 1
    /\ UNCHANGED <<link, wire, client, torn, noise, said>>

-----------------------------------------------------------------------------
Write == WriteReaches \/ WriteVanishes \/ WriteFails
Read == ActionReply \/ ListReply \/ ListItem \/ ListSkipsForeignEnd \/ ListEnds
            \/ ReadTimeout \/ ReadEOF
Progress == Write \/ Read
Environment == Noise \/ PeerGoes \/ Tick

\* The caller needs no more calls.
Terminated == stage = "none" /\ actions = MaxCalls /\ UNCHANGED vars

Next == (\E kind \in Kinds : Begin(kind)) \/ Progress \/ Return \/ Environment \/ Terminated

Spec == Init /\ [][Next]_vars

\* A call that can go on does, and time passes.  Nothing makes Asterisk answer.
FairSpec == Spec /\ WF_vars(Write) /\ WF_vars(ReadTimeout \/ ReadEOF) /\ WF_vars(Tick)

-----------------------------------------------------------------------------
(* Properties *)

TypeOK ==
    /\ clock \in 0..2 * Timeout
    /\ link \in {"up", "gone"}
    /\ wire \in Seq(Message)
    /\ actions \in Ids
    /\ call \in [kind : Kinds, start : 0..2 * Timeout]
    /\ stage \in {"none", "write", "reply", "items", "done"}
    /\ items \in Seq(Message)
    /\ outcome \in Outcomes
    /\ torn \in BOOLEAN /\ noise \in 0..MaxNoise
    /\ said \in Answer \cup {Unanswered}

\* A list that succeeds holds each item of Asterisk's answer to this request once
\* and in order, and besides them only events without an ActionID: leftovers of
\* earlier calls, after whatever confusion, never get in.
ListReturnsOwnAnswer ==
    stage = "done" /\ call.kind = "list" /\ outcome = "ok" =>
        LET own == {i \in DOMAIN items : items[i].id = actions}
        IN  /\ \A i \in DOMAIN items \ own : items[i].id = 0
            /\ \A i \in own : items[i].type = "item"
            /\ {items[i].n : i \in own} = 1..said.n
            /\ \A i, j \in own : i < j => items[i].n < items[j].n

\* On a connection without unsolicited events, a call that did not break off
\* returns what Asterisk answered to it: replies never shift to another call.
QuietCallsFaithful ==
    stage = "done" /\ noise = 0 /\ outcome \notin {"io", "timeout"} =>
        outcome = CASE call.kind = "action" -> "ok"
                    [] call.kind # "action" /\ said.type = "Success" -> "ok"
                    [] call.kind = "list" /\ said.type = "Unknown" -> "unknown"
                    [] OTHER -> "rejected"

\* Once a deadline has cut a message in two, no later call on the connection
\* takes the rest of it for a message: all of them fail.
TornNeverRead == torn /\ stage = "done" => outcome \in {"io", "timeout"}

\* Every call returns, whatever Asterisk does: the context's deadline ends it.
CallsReturn == stage \in {"write", "reply", "items"} ~> stage = "done"
=============================================================================
