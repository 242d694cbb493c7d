--------------------------- MODULE AmiClient_proofs ---------------------------
(***************************************************************************)
(* Proofs about AmiClient: the types, the rest of a torn message, quiet    *)
(* connections, and lists.  The first lemmas are about the wire: what a    *)
(* reply adds to it, what an unsolicited event moves, what the death of    *)
(* the connection leaves.                                                  *)
(***************************************************************************)
EXTENDS AmiClient, SequenceTheorems, TLAPS

USE TimeoutAssumption, BoundAssumption
USE DEF client, Finish

\* The places of two sequences in their concatenation.
LEMMA ConcatLeft ==
    ASSUME NEW s \in Seq(Message), NEW t \in Seq(Message), NEW i \in 1..Len(s)
    PROVE  (s \o t)[i] = s[i]
<1>1. i \in 1..Len(s) + Len(t) /\ i <= Len(s)
  OBVIOUS
<1> QED
  BY <1>1, ConcatProperties

\* The second follows the first.
LEMMA ConcatRight ==
    ASSUME NEW s \in Seq(Message), NEW t \in Seq(Message), NEW i \in 1..Len(t)
    PROVE  (s \o t)[Len(s) + i] = t[i]
<1>1. Len(s) + i \in 1..Len(s) + Len(t) /\ ~(Len(s) + i <= Len(s)) /\ Len(s) + i - Len(s) = i
  OBVIOUS
<1> QED
  BY <1>1, ConcatProperties

\* Its length.
LEMMA ConcatLen ==
    ASSUME NEW s \in Seq(Message), NEW t \in Seq(Message)
    PROVE  s \o t \in Seq(Message) /\ Len(s \o t) = Len(s) + Len(t)
  BY ConcatProperties

\* A reply is a sequence of messages.
LEMMA ReplyType ==
    ASSUME NEW kind \in Kinds, NEW id \in Ids, NEW a \in Answer
    PROVE  /\ Reply(kind, id, a) \in Seq(Message)
           /\ Len(Reply(kind, id, a)) = IF kind = "list" /\ a.type = "Success" THEN a.n + 2 ELSE 1
           /\ Reply(kind, id, a)[1] = [type |-> a.type, id |-> id, n |-> 0]
           /\ kind = "list" /\ a.type = "Success" =>
                 /\ \A i \in 1..a.n : Reply(kind, id, a)[i + 1] = [type |-> "item", id |-> id, n |-> i]
                 /\ Reply(kind, id, a)[a.n + 2] = [type |-> "complete", id |-> id, n |-> 0]
<1> DEFINE first == <<[type |-> a.type, id |-> id, n |-> 0]>>
           list == [i \in 1..a.n |-> [type |-> "item", id |-> id, n |-> i]]
           end == <<[type |-> "complete", id |-> id, n |-> 0]>>
<1>0. a.n \in 0..MaxItems /\ a.type \in Responses /\ 0 \in 0..MaxItems
  BY DEF Answer
<1>1. first \in Seq(Message) /\ Len(first) = 1 /\ first[1] = [type |-> a.type, id |-> id, n |-> 0]
  BY <1>0 DEF Message, Responses
<1>2. end \in Seq(Message) /\ Len(end) = 1 /\ end[1] = [type |-> "complete", id |-> id, n |-> 0]
  BY <1>0 DEF Message, Events
<1>3. list \in Seq(Message) /\ Len(list) = a.n
  <2>1. \A i \in 1..a.n : [type |-> "item", id |-> id, n |-> i] \in Message
    BY <1>0 DEF Message, Events
  <2> QED
    BY <1>0, <2>1
<1> HIDE DEF first, list, end
<1>n. a.n \in Nat
  BY <1>0
<1>4. /\ list \o end \in Seq(Message) /\ Len(list \o end) = a.n + 1
      /\ \A i \in 1..a.n : (list \o end)[i] = list[i]
      /\ (list \o end)[a.n + 1] = end[1]
  <2>1. list \o end \in Seq(Message) /\ Len(list \o end) = Len(list) + Len(end)
    BY <1>2, <1>3, ConcatLen, Zenon
  <2>2. \A i \in 1..a.n : (list \o end)[i] = list[i]
    BY <1>2, <1>3, ConcatLeft
  <2>3. (list \o end)[Len(list) + 1] = end[1]
    BY <1>2, <1>3, ConcatRight, SMTT(40)
  <2> QED
    BY <1>2, <1>3, <2>1, <2>2, <2>3
<1>5. /\ first \o (list \o end) \in Seq(Message) /\ Len(first \o (list \o end)) = a.n + 2
      /\ (first \o (list \o end))[1] = first[1]
      /\ \A i \in 1..a.n + 1 : (first \o (list \o end))[1 + i] = (list \o end)[i]
  <2>1. /\ first \o (list \o end) \in Seq(Message)
        /\ Len(first \o (list \o end)) = Len(first) + Len(list \o end)
    BY <1>1, <1>4, ConcatLen, Zenon
  <2>2. (first \o (list \o end))[1] = first[1]
    <3>1. 1 \in 1..Len(first)
      BY <1>1
    <3> QED
      BY <1>1, <1>4, <3>1, ConcatLeft
  <2>3. \A i \in 1..a.n + 1 : (first \o (list \o end))[Len(first) + i] = (list \o end)[i]
    BY <1>1, <1>4, ConcatRight
  <2>4. Len(first \o (list \o end)) = a.n + 2
    BY <1>n, <1>1, <1>4, <2>1
  <2> QED
    BY <1>1, <2>1, <2>2, <2>3, <2>4
<1>6. CASE kind = "list" /\ a.type = "Success"
  <2>1. Reply(kind, id, a) = first \o (list \o end)
    BY <1>6 DEF Reply, first, list, end
  <2>2. \A i \in 1..a.n : list[i] = [type |-> "item", id |-> id, n |-> i]
    BY DEF list
  <2>3. (first \o (list \o end))[1] = [type |-> a.type, id |-> id, n |-> 0]
    BY <1>1, <1>5
  <2>4. ASSUME NEW i \in 1..a.n
        PROVE  (first \o (list \o end))[i + 1] = [type |-> "item", id |-> id, n |-> i]
    <3>1. i \in 1..a.n + 1 /\ 1 + i = i + 1
      BY <1>n
    <3> QED
      BY <1>4, <1>5, <2>2, <3>1
  <2>5. (first \o (list \o end))[a.n + 2] = [type |-> "complete", id |-> id, n |-> 0]
    <3>1. 1 + (a.n + 1) = a.n + 2 /\ a.n + 1 \in 1..a.n + 1
      BY <1>n
    <3> QED
      BY <1>2, <1>4, <1>5, <3>1
  <2> QED
    BY <1>5, <1>6, <2>1, <2>3, <2>4, <2>5
<1>7. CASE ~(kind = "list" /\ a.type = "Success")
  <2>1. Reply(kind, id, a) = first \o <<>>
    BY <1>7 DEF Reply, first
  <2>2. first \o <<>> = first
    BY <1>1, ConcatEmptySeq
  <2> QED
    BY <1>1, <1>7, <2>1, <2>2
<1> QED
  BY <1>6, <1>7

\* An unsolicited event moves what follows it on the wire by one place.
LEMMA InsertType ==
    ASSUME NEW w \in Seq(Message), NEW i \in 1..Len(w) + 1
    PROVE  /\ Seqs!InsertAt(w, i, Unsolicited) \in Seq(Message)
           /\ Len(Seqs!InsertAt(w, i, Unsolicited)) = Len(w) + 1
           /\ \A j \in 1..Len(w) + 1 : Seqs!InsertAt(w, i, Unsolicited)[j]
                = IF j < i THEN w[j] ELSE IF j = i THEN Unsolicited ELSE w[j - 1]
<1> DEFINE before == SubSeq(w, 1, i - 1)
           after == SubSeq(w, i, Len(w))
<1>0. Len(w) \in Nat /\ Unsolicited \in Message
  BY DEF Unsolicited, Message, Events, Ids
<1>1. before \in Seq(Message) /\ Len(before) = i - 1 /\ \A j \in 1..i - 1 : before[j] = w[j]
  <2>1. \A j \in 1..i - 1 : w[j] \in Message
    BY <1>0, ElementOfSeq
  <2> QED
    BY <1>0, <2>1, SubSeqProperties
<1>2. after \in Seq(Message) /\ Len(after) = Len(w) - i + 1 /\ \A j \in 1..Len(w) - i + 1 : after[j] = w[i + j - 1]
  <2>1. \A j \in i..Len(w) : w[j] \in Message
    BY <1>0, ElementOfSeq
  <2> QED
    BY <1>0, <2>1, SubSeqProperties
<1> DEFINE one == <<Unsolicited>>
<1>3. one \in Seq(Message) /\ Len(one) = 1 /\ one[1] = Unsolicited
  BY <1>0
<1> HIDE DEF before, after, one
<1>4. /\ before \o one \in Seq(Message) /\ Len(before \o one) = i
      /\ \A j \in 1..i - 1 : (before \o one)[j] = before[j]
      /\ (before \o one)[i] = one[1]
  <2>1. before \o one \in Seq(Message) /\ Len(before \o one) = Len(before) + Len(one)
    BY <1>1, <1>3, ConcatLen, Zenon
  <2>2. \A j \in 1..i - 1 : (before \o one)[j] = before[j]
    BY <1>1, <1>3, ConcatLeft
  <2>3. (before \o one)[Len(before) + 1] = one[1] /\ Len(before) + 1 = i
    BY <1>0, <1>1, <1>3, ConcatRight
  <2>4. Len(before \o one) = i
    BY <1>0, <1>1, <1>3, <2>1
  <2> QED
    BY <2>1, <2>2, <2>3, <2>4
<1>5. /\ (before \o one) \o after \in Seq(Message)
      /\ Len((before \o one) \o after) = Len(w) + 1
      /\ \A j \in 1..i : ((before \o one) \o after)[j] = (before \o one)[j]
      /\ \A j \in 1..Len(w) - i + 1 : ((before \o one) \o after)[i + j] = after[j]
  <2>1. /\ (before \o one) \o after \in Seq(Message)
        /\ Len((before \o one) \o after) = Len(before \o one) + Len(after)
    BY <1>2, <1>4, ConcatLen, Zenon
  <2>2. \A j \in 1..i : ((before \o one) \o after)[j] = (before \o one)[j]
    BY <1>2, <1>4, ConcatLeft
  <2>3. \A j \in 1..Len(after) : ((before \o one) \o after)[Len(before \o one) + j] = after[j]
    BY <1>2, <1>4, ConcatRight, Zenon
  <2>4. Len((before \o one) \o after) = Len(w) + 1
    BY <1>0, <1>2, <1>4, <2>1
  <2> QED
    BY <1>2, <1>4, <2>1, <2>2, <2>3, <2>4
<1>6. Seqs!InsertAt(w, i, Unsolicited) = (before \o one) \o after
  BY DEF Seqs!InsertAt, before, after, one
<1>7. ASSUME NEW j \in 1..Len(w) + 1
      PROVE  ((before \o one) \o after)[j]
                = IF j < i THEN w[j] ELSE IF j = i THEN Unsolicited ELSE w[j - 1]
  <2>1. CASE j < i
    <3>1. j \in 1..i - 1 /\ j \in 1..i
      BY <1>0, <2>1
    <3> QED
      BY <1>1, <1>4, <1>5, <2>1, <3>1
  <2>2. CASE j = i
    BY <1>0, <1>3, <1>4, <1>5, <2>2
  <2>3. CASE j > i
    <3>1. j - i \in 1..Len(w) - i + 1 /\ j = i + (j - i) /\ i + (j - i) - 1 = j - 1
      BY <1>0, <2>3
    <3>2. ((before \o one) \o after)[i + (j - i)] = after[j - i]
      BY <1>5, <3>1
    <3>3. after[j - i] = w[i + (j - i) - 1]
      BY <1>2, <3>1
    <3>4. ((before \o one) \o after)[j] = w[j - 1]
      BY <3>1, <3>2, <3>3
    <3> QED
      BY <1>0, <2>3, <3>4
  <2>4. j < i \/ j = i \/ j > i
    BY <1>0
  <2> QED
    BY <2>1, <2>2, <2>3, <2>4, Zenon
<1> QED
  BY <1>5, <1>6, <1>7

\* What is left of the wire when the connection dies.
LEMMA KeptType ==
    ASSUME NEW w \in Seq(Message), NEW kept \in 0..Len(w)
    PROVE  /\ SubSeq(w, 1, kept) \in Seq(Message) /\ Len(SubSeq(w, 1, kept)) = kept
           /\ \A j \in 1..kept : SubSeq(w, 1, kept)[j] = w[j]
<1>1. \A j \in 1..kept : w[j] \in Message
  BY ElementOfSeq
<1> QED
  BY <1>1, SubSeqProperties

\* Every step keeps the types.
LEMMA NextTypeOK == TypeOK /\ [Next]_vars => TypeOK'
<1> SUFFICES ASSUME TypeOK, [Next]_vars PROVE TypeOK'
    OBVIOUS
<1> USE DEF TypeOK
<1>1. ASSUME NEW kind \in Kinds, Begin(kind) PROVE TypeOK'
  BY <1>1 DEF Begin, NextActionID, Ids, Outcomes
<1>2. CASE WriteReaches
  <2>1. PICK a \in Answer : said' = a /\ wire' = wire \o Reply(call.kind, actions, a)
    BY <1>2 DEF WriteReaches
  <2>2. Reply(call.kind, actions, a) \in Seq(Message)
    BY ReplyType
  <2>3. wire' \in Seq(Message)
    BY <2>1, <2>2, ConcatProperties
  <2> QED
    BY <1>2, <2>1, <2>3 DEF WriteReaches
<1>3. CASE WriteVanishes \/ WriteFails \/ Return
  BY <1>3 DEF WriteVanishes, WriteFails, Return, Outcomes
<1>4. CASE ActionReply \/ ListReply \/ ListItem \/ ListSkipsForeignEnd \/ ListEnds
  <2>1. wire # <<>>
    BY <1>4 DEF ActionReply, ListReply, ListItem, ListSkipsForeignEnd, ListEnds
  <2>2. Head(wire) \in Message /\ Tail(wire) \in Seq(Message)
    BY <2>1, HeadTailProperties
  <2>3. Append(items, Head(wire)) \in Seq(Message)
    BY <2>2, AppendProperties
  <2>4. wire' \in Seq(Message) /\ items' \in Seq(Message)
    BY <1>4, <2>2, <2>3 DEF ActionReply, ListReply, ListItem, ListSkipsForeignEnd, ListEnds,
       Consume, CompletionRead
  <2>5. stage' \in {"items", "done"} /\ outcome' \in Outcomes
    BY <1>4 DEF ActionReply, ListReply, ListItem, ListSkipsForeignEnd, ListEnds, Outcomes
  <2> QED
    BY <1>4, <2>4, <2>5 DEF ActionReply, ListReply, ListItem, ListSkipsForeignEnd, ListEnds, Consume
<1>5. CASE ReadTimeout \/ ReadEOF
  BY <1>5 DEF ReadTimeout, ReadEOF, Outcomes
<1>6. CASE Noise
  <2>1. PICK i \in 1..Len(wire) + 1 : wire' = Seqs!InsertAt(wire, i, Unsolicited)
    BY <1>6 DEF Noise
  <2>2. wire' \in Seq(Message)
    BY <2>1, InsertType
  <2> QED
    BY <1>6, <2>2 DEF Noise
<1>7. CASE PeerGoes
  <2>1. PICK kept \in 0..Len(wire) : wire' = SubSeq(wire, 1, kept)
    BY <1>7 DEF PeerGoes
  <2>2. wire' \in Seq(Message)
    BY <2>1, KeptType
  <2> QED
    BY <1>7, <2>2 DEF PeerGoes
<1>8. CASE Tick
  BY <1>8 DEF Tick
<1>9. CASE Terminated \/ UNCHANGED vars
  BY <1>9 DEF Terminated, vars
<1> QED
  BY <1>1, <1>2, <1>3, <1>4, <1>5, <1>6, <1>7, <1>8, <1>9
  DEF Next, Progress, Write, Read, Environment

\* The state stays in its types, whatever is called and whatever arrives.
THEOREM TypeCorrect == Spec => []TypeOK
<1>1. Init => TypeOK
  <2> SUFFICES ASSUME Init PROVE TypeOK
    OBVIOUS
  <2>1. clock \in 0..2 * Timeout /\ actions \in Ids /\ noise \in 0..MaxNoise
    BY DEF Init, Ids
  <2>2. call \in [kind : Kinds, start : 0..2 * Timeout]
    BY DEF Init, Kinds
  <2>3. wire \in Seq(Message) /\ items \in Seq(Message)
    BY DEF Init
  <2> QED
    BY <2>1, <2>2, <2>3 DEF Init, TypeOK, Outcomes
<1> QED
  BY <1>1, NextTypeOK, PTL DEF Spec

-----------------------------------------------------------------------------
(* The rest of a torn message *)

\* A message is only cut by the deadline, and after the deadline no request goes
\* out and so no read is tried.
TornInv ==
    torn => /\ Expired /\ stage \in {"none", "write", "done"}
            /\ stage = "done" => outcome \in {"io", "timeout"}

\* No step breaks TornInv.
LEMMA NextTornInv == TypeOK /\ TornInv /\ [Next]_vars => TornInv'
<1> SUFFICES ASSUME TypeOK, TornInv, [Next]_vars PROVE TornInv'
    OBVIOUS
<1> USE DEF TornInv, Expired
<1>1. CASE (\E kind \in Kinds : Begin(kind)) \/ Return
  BY <1>1 DEF Begin, Return
<1>2. CASE Write
  BY <1>2 DEF Write, WriteReaches, WriteVanishes, WriteFails
<1>3. CASE ActionReply \/ ListReply \/ ListItem \/ ListSkipsForeignEnd \/ ListEnds \/ ReadEOF
  BY <1>3 DEF ActionReply, ListReply, ListItem, ListSkipsForeignEnd, ListEnds, ReadEOF, Consume
<1>4. CASE ReadTimeout
  BY <1>4 DEF ReadTimeout
<1>5. CASE Noise \/ PeerGoes
  BY <1>5 DEF Noise, PeerGoes
<1>6. CASE Tick
  BY <1>6 DEF Tick, TypeOK
<1>7. CASE Terminated \/ UNCHANGED vars
  BY <1>7 DEF Terminated, vars
<1> QED
  BY <1>1, <1>2, <1>3, <1>4, <1>5, <1>6, <1>7 DEF Next, Progress, Read, Environment

\* However many calls follow, none of them reads what a deadline has cut.
THEOREM TornCorrect == Spec => []TornNeverRead
<1>1. Init => TornInv
  BY DEF Init, TornInv
<1>2. TornInv => TornNeverRead
  BY DEF TornInv, TornNeverRead
<1> QED
  BY <1>1, <1>2, TypeCorrect, NextTornInv, PTL DEF Spec

-----------------------------------------------------------------------------
(* Quiet connections: each call reads the answer to it, and all of it *)

\* After place p there are only items on w, of which only the last may be the
\* completion.
Items(w, p) ==
    \A i \in p + 1..Len(w) : /\ w[i].type \in {"item", "complete"}
                             /\ w[i].type = "complete" => i = Len(w)
AllOwn(w) == \A i \in 1..Len(w) : w[i].id = actions

\* The deadline has ended a call, and with it all later ones.
Broken ==
    /\ Expired /\ stage \in {"none", "write", "done"}
    /\ stage = "done" => outcome \in {"io", "timeout"}

AcceptedList == call.kind = "list" /\ said.type = "Success"

\* What is on the wire is the rest of the answer to the present call.
Faithful ==
    /\ AllOwn(wire)
    /\ stage \in {"none", "write", "done"} => wire = <<>>
    /\ stage = "reply" /\ wire # <<>> =>
          /\ said \in Answer /\ wire[1].type = said.type
          /\ IF AcceptedList THEN Items(wire, 1) ELSE Len(wire) = 1
    /\ stage = "items" => AcceptedList /\ Items(wire, 0)

QuietInv == noise = 0 => Broken \/ (Faithful /\ QuietCallsFaithful)

\* No step breaks QuietInv.
LEMMA NextQuietInv == TypeOK /\ QuietInv /\ [Next]_vars => QuietInv'
<1> SUFFICES ASSUME TypeOK, QuietInv, [Next]_vars, noise' = 0
             PROVE  Broken' \/ (Faithful' /\ QuietCallsFaithful')
    BY DEF QuietInv
<1>0. noise = 0 /\ (Broken \/ (Faithful /\ QuietCallsFaithful))
  BY DEF QuietInv, TypeOK, Next, Progress, Write, Read, Environment, Begin, Return, WriteReaches,
     WriteVanishes, WriteFails, ActionReply, ListReply, ListItem, ListSkipsForeignEnd, ListEnds,
     Consume, ReadTimeout, ReadEOF, Noise, PeerGoes, Tick, Terminated, vars
<1>b. CASE Broken
  <2> USE <1>b DEF Broken, Expired
  <2>1. CASE (\E kind \in Kinds : Begin(kind)) \/ Return
    BY <2>1 DEF Begin, Return
  <2>2. CASE Write
    BY <2>2 DEF Write, WriteReaches, WriteVanishes, WriteFails
  <2>3. CASE Read
    BY <2>3 DEF Read, ActionReply, ListReply, ListItem, ListSkipsForeignEnd, ListEnds,
       ReadTimeout, ReadEOF
  <2>4. CASE Noise \/ PeerGoes
    BY <2>4 DEF Noise, PeerGoes
  <2>5. CASE Tick
    BY <2>5 DEF Tick, TypeOK
  <2>6. CASE Terminated \/ UNCHANGED vars
    BY <2>6 DEF Terminated, vars
  <2> QED
    BY <2>1, <2>2, <2>3, <2>4, <2>5, <2>6 DEF Next, Progress, Environment
<1>f. CASE ~Broken /\ Faithful /\ QuietCallsFaithful
  <2>w. wire \in Seq(Message) /\ actions \in Ids /\ said \in Answer \cup {Unanswered}
        /\ Len(wire) \in Nat
    BY DEF TypeOK
  <2>1. CASE (\E kind \in Kinds : Begin(kind)) \/ Return
    BY <1>f, <2>1 DEF Begin, Return, Faithful, AllOwn, QuietCallsFaithful
  <2>2. CASE WriteReaches
    <3>1. PICK a \in Answer : /\ a.n > 0 => call.kind = "list" /\ a.type = "Success"
                             /\ said' = a /\ wire' = wire \o Reply(call.kind, actions, a)
      BY <2>2 DEF WriteReaches
    <3>2. wire = <<>> /\ stage' = "reply" /\ actions' = actions /\ call' = call
      BY <1>f, <2>2 DEF WriteReaches, Faithful
    <3> DEFINE r == Reply(call.kind, actions, a)
    <3>3. call.kind \in Kinds /\ a.n \in Nat
      BY DEF TypeOK, Answer
    <3>4. /\ r \in Seq(Message)
          /\ Len(r) = IF call.kind = "list" /\ a.type = "Success" THEN a.n + 2 ELSE 1
          /\ r[1] = [type |-> a.type, id |-> actions, n |-> 0]
          /\ call.kind = "list" /\ a.type = "Success" =>
                 /\ \A i \in 1..a.n : r[i + 1] = [type |-> "item", id |-> actions, n |-> i]
                 /\ r[a.n + 2] = [type |-> "complete", id |-> actions, n |-> 0]
      BY <2>w, <3>3, ReplyType
    <3> HIDE DEF r
    <3>5. wire' = r
      BY <3>1, <3>2, <3>4, ConcatEmptySeq DEF r
    <3>6. CASE call.kind = "list" /\ a.type = "Success"
      <4>1. ASSUME NEW i \in 2..Len(r)
            PROVE  /\ r[i].type \in {"item", "complete"} /\ r[i].id = actions
                   /\ r[i].type = "complete" => i = Len(r)
        <5>1. CASE i = a.n + 2
          BY <3>3, <3>4, <3>6, <5>1
        <5>2. CASE i # a.n + 2
          <6>1. i - 1 \in 1..a.n /\ (i - 1) + 1 = i
            BY <3>3, <3>4, <3>6, <5>2
          <6>2. r[i] = [type |-> "item", id |-> actions, n |-> i - 1]
            BY <3>4, <3>6, <6>1
          <6> QED
            BY <6>2
        <5> QED
          BY <5>1, <5>2
      <4>2. AllOwn(r)
        <5>1. ASSUME NEW i \in 1..Len(r) PROVE r[i].id = actions
          <6>1. i = 1 \/ i \in 2..Len(r)
            BY <3>3, <3>4
          <6> QED
            BY <3>4, <4>1, <6>1
        <5> QED
          BY <5>1 DEF AllOwn
      <4>3. Items(r, 1)
        BY <3>3, <3>4, <4>1 DEF Items
      <4>4. r[1].type = a.type
        BY <3>4
      <4> QED
        BY <3>1, <3>2, <3>5, <4>2, <4>3, <4>4, <3>6
        DEF Faithful, QuietCallsFaithful, AcceptedList, AllOwn
    <3>7. CASE ~(call.kind = "list" /\ a.type = "Success")
      <4>1. Len(r) = 1 /\ r[1].id = actions /\ r[1].type = a.type
        BY <3>4, <3>7
      <4>2. AllOwn(r)
        BY <4>1 DEF AllOwn
      <4> QED
        BY <3>1, <3>2, <3>5, <3>7, <4>1, <4>2
        DEF Faithful, QuietCallsFaithful, AcceptedList, AllOwn
    <3> QED
      BY <3>6, <3>7
  <2>3. CASE WriteVanishes \/ WriteFails
    BY <1>f, <2>3 DEF WriteVanishes, WriteFails, Faithful, AllOwn, QuietCallsFaithful
  <2>4. CASE ActionReply \/ ListReply \/ ListItem \/ ListSkipsForeignEnd \/ ListEnds
    <3>1. wire # <<>> /\ Len(wire) > 0 /\ stage \in {"reply", "items"}
      BY <2>w, <2>4 DEF ActionReply, ListReply, ListItem, ListSkipsForeignEnd, ListEnds
    <3>2. /\ Head(wire) = wire[1] /\ Tail(wire) \in Seq(Message) /\ Len(Tail(wire)) = Len(wire) - 1
          /\ \A i \in 1..Len(Tail(wire)) : Tail(wire)[i] = wire[i + 1]
      BY <2>w, <3>1, HeadTailProperties
    <3>3. ~Foreign(Head(wire))
      BY <1>f, <2>w, <3>1, <3>2 DEF Foreign, Faithful, AllOwn
    <3>4. wire' = Tail(wire) /\ UNCHANGED <<actions, call, said>>
      BY <2>4 DEF ActionReply, ListReply, ListItem, ListSkipsForeignEnd, ListEnds, Consume,
         CompletionRead
    <3>5. \A i \in 1..Len(wire') : wire'[i].id = actions'
      <4>1. ASSUME NEW i \in 1..Len(Tail(wire)) PROVE Tail(wire)[i].id = actions
        <5>1. i + 1 \in 1..Len(wire) /\ Tail(wire)[i] = wire[i + 1]
          BY <2>w, <3>2
        <5> QED
          BY <1>f, <5>1 DEF Faithful, AllOwn
      <4> QED
        BY <3>4, <4>1
    <3>6. ASSUME NEW p \in {0, 1}, Items(wire, p)
          PROVE  /\ \A i \in 1..Len(wire') : wire'[i].type \in {"item", "complete"}
                                           /\ wire'[i].type = "complete" => i = Len(wire')
      <4>1. ASSUME NEW i \in 1..Len(Tail(wire))
            PROVE  /\ Tail(wire)[i].type \in {"item", "complete"}
                   /\ Tail(wire)[i].type = "complete" => i = Len(Tail(wire))
        <5>1. i + 1 \in p + 1..Len(wire) /\ Tail(wire)[i] = wire[i + 1]
          <6>1. i + 1 \in p + 1..Len(wire)
            BY <2>w, <3>2
          <6> QED
            BY <3>2, <6>1
        <5>2. /\ wire[i + 1].type \in {"item", "complete"}
              /\ wire[i + 1].type = "complete" => i + 1 = Len(wire)
          BY <3>6, <5>1 DEF Items
        <5>3. i + 1 = Len(wire) => i = Len(Tail(wire))
          <6>1. i \in Int /\ Len(Tail(wire)) = Len(wire) - 1 /\ Len(wire) \in Nat
            BY <2>w, <3>2
          <6> QED
            BY <6>1
        <5> QED
          BY <5>1, <5>2, <5>3
      <4> QED
        BY <3>4, <4>1
    <3>7. Len(wire) = 1 => wire' = <<>>
      BY <3>2, <3>4
    <3>8. CASE ActionReply
      <4>1. /\ said \in Answer /\ Head(wire).type = said.type /\ wire' = <<>> /\ call.kind # "list"
        BY <1>f, <3>1, <3>2, <3>7, <3>8 DEF ActionReply, Faithful, AcceptedList
      <4>2. stage' = "done" /\ call.kind \in Kinds
        BY <3>8 DEF ActionReply, TypeOK
      <4>3. outcome' = IF call.kind = "login" /\ said.type # "Success" THEN "rejected" ELSE "ok"
        BY <3>3, <3>8, <4>1 DEF ActionReply
      <4> QED
        BY <3>4, <4>1, <4>2, <4>3 DEF Faithful, AllOwn, QuietCallsFaithful, Kinds
    <3>9. CASE ListReply
      <4>1. /\ said \in Answer /\ Head(wire).type = said.type /\ call.kind = "list"
            /\ said.type = "Success" => Items(wire, 1)
            /\ said.type # "Success" => wire' = <<>>
        BY <1>f, <3>1, <3>2, <3>7, <3>9 DEF ListReply, Faithful, AcceptedList
      <4>2. CASE said.type = "Success"
        <5>1. stage' = "items"
          BY <3>9, <4>1, <4>2 DEF ListReply
        <5>2. Items(wire, 1)
          BY <4>1, <4>2
        <5> QED
          BY <3>4, <3>5, <3>6, <4>1, <4>2, <5>1, <5>2
          DEF Faithful, AllOwn, AcceptedList, Items, QuietCallsFaithful
      <4>3. CASE said.type # "Success"
        <5>1. stage' = "done" /\ outcome' = IF said.type = "Unknown" THEN "unknown" ELSE "rejected"
          BY <3>9, <4>1, <4>3 DEF ListReply
        <5> QED
          BY <3>4, <4>1, <4>3, <5>1 DEF Faithful, AllOwn, QuietCallsFaithful
      <4> QED
        BY <4>2, <4>3
    <3>10. CASE ListItem
      <4>1. AcceptedList /\ Items(wire, 0)
        BY <1>f, <3>10 DEF ListItem, Faithful
      <4> QED
        BY <3>4, <3>5, <3>6, <3>10, <4>1
        DEF ListItem, Faithful, AllOwn, AcceptedList, Items, QuietCallsFaithful
    <3>11. CASE ListSkipsForeignEnd
      BY <3>3, <3>11 DEF ListSkipsForeignEnd, Skipped, Responses
    <3>12. CASE ListEnds
      <4>1. AcceptedList /\ Items(wire, 0) /\ wire[1].type = "complete"
        BY <1>f, <3>2, <3>12 DEF ListEnds, Faithful
      <4>2. wire' = <<>>
        <5>1. 1 \in 0 + 1..Len(wire)
          BY <2>w, <3>1
        <5>2. 1 = Len(wire)
          BY <4>1, <5>1 DEF Items
        <5> QED
          BY <3>7, <5>2
      <4> QED
        BY <3>4, <3>12, <4>1, <4>2
        DEF ListEnds, Faithful, AllOwn, AcceptedList, QuietCallsFaithful
    <3> QED
      BY <2>4, <3>8, <3>9, <3>10, <3>11, <3>12
  <2>5. CASE ReadTimeout
    BY <2>5 DEF ReadTimeout, Broken, Expired
  <2>6. CASE ReadEOF
    BY <1>f, <2>6 DEF ReadEOF, Faithful, AllOwn, QuietCallsFaithful
  <2>7. CASE PeerGoes
    <3>1. PICK kept \in 0..Len(wire) : wire' = SubSeq(wire, 1, kept)
      BY <2>7 DEF PeerGoes
    <3>2. /\ wire' \in Seq(Message) /\ Len(wire') = kept
          /\ \A j \in 1..kept : wire'[j] = wire[j]
      BY <2>w, <3>1, KeptType
    <3>3. \A i \in 1..Len(wire') : wire'[i].id = actions
      BY <1>f, <2>w, <3>2 DEF Faithful, AllOwn
    <3>4. wire = <<>> => wire' = <<>>
      BY <3>2
    <3>5. ASSUME NEW p \in {0, 1}, Items(wire, p) PROVE Items(wire', p)
      BY <2>w, <3>2, <3>5 DEF Items
    <3>6. wire' # <<>> => wire # <<>> /\ wire'[1] = wire[1] /\ (Len(wire) = 1 => Len(wire') = 1)
      BY <2>w, <3>2
    <3>7. /\ UNCHANGED <<actions, call, stage, outcome, said, noise>>
      BY <2>7 DEF PeerGoes
    <3> QED
      BY <1>f, <3>3, <3>4, <3>5, <3>6, <3>7
      DEF Faithful, AllOwn, AcceptedList, QuietCallsFaithful
  <2>8. CASE Tick
    BY <1>f, <2>8 DEF Tick, Faithful, AllOwn, Items, AcceptedList, QuietCallsFaithful
  <2>9. CASE Terminated \/ UNCHANGED vars
    BY <1>f, <2>9 DEF Terminated, vars, Faithful, AllOwn, Items, AcceptedList, QuietCallsFaithful
  <2>10. ~Noise
    BY <1>0 DEF Noise
  <2> QED
    BY <2>1, <2>2, <2>3, <2>4, <2>5, <2>6, <2>7, <2>8, <2>9, <2>10
    DEF Next, Progress, Write, Read, Environment
<1> QED
  BY <1>0, <1>b, <1>f

\* On a connection without unsolicited events no call ever gets the answer to
\* another, for any number of calls, items and failures.
THEOREM QuietCorrect == Spec => []QuietCallsFaithful
<1>1. Init => QuietInv
  BY DEF Init, QuietInv, Faithful, AllOwn, QuietCallsFaithful
<1>2. QuietInv => QuietCallsFaithful
  BY DEF QuietInv, Broken, QuietCallsFaithful
<1> QED
  BY <1>1, <1>2, TypeCorrect, NextQuietInv, PTL DEF Spec

-----------------------------------------------------------------------------
(* Lists hold the items of their own answer *)

OwnItem(m) == m.id = actions /\ m.type = "item"
OwnEnd(m) == m.id = actions /\ m.type = "complete"

\* What the list holds is its own, or has no ActionID.
ItemsTold ==
    \A i \in 1..Len(items) :
        items[i].id = 0 \/ (OwnItem(items[i]) /\ items[i].n \in 1..said.n)

\* No message on the wire answers a request still to come, and events without
\* an ActionID are all that Asterisk sends unasked.
WireTold ==
    \A j \in 1..Len(wire) :
        /\ wire[j].id <= actions
        /\ wire[j].type = "event" <=> wire[j].id = 0
        /\ OwnItem(wire[j]) => wire[j].n \in 1..said.n

\* The items of the present answer are in order on s.
Rises(s) ==
    \A i, j \in 1..Len(s) : i < j /\ OwnItem(s[i]) /\ OwnItem(s[j]) => s[i].n < s[j].n

\* Those still to be read come after those the list holds.
Follows ==
    \A i \in 1..Len(items), j \in 1..Len(wire) :
        OwnItem(items[i]) /\ OwnItem(wire[j]) => items[i].n < wire[j].n

Held(n) == \E i \in 1..Len(items) : OwnItem(items[i]) /\ items[i].n = n
OnWireBefore(n, j) == \E i \in 1..j - 1 : OwnItem(wire[i]) /\ wire[i].n = n

\* Behind its completion none of the items is missing.
EndIsLast ==
    stage \in {"reply", "items"} /\ call.kind = "list" =>
        \A j \in 1..Len(wire) : OwnEnd(wire[j]) =>
            \A n \in 1..said.n : Held(n) \/ OnWireBefore(n, j)

\* A call starts with an empty list, and an ActionID that is on no message.
Fresh ==
    /\ stage # "none" => actions > 0
    /\ stage \in {"write", "reply"} => items = <<>>
    /\ stage = "write" => \A j \in 1..Len(wire) : wire[j].id # actions

AllHeld ==
    stage = "done" /\ call.kind = "list" /\ outcome = "ok" => \A n \in 1..said.n : Held(n)

ListInv ==
    ItemsTold /\ WireTold /\ Rises(items) /\ Rises(wire) /\ Follows /\ EndIsLast /\ Fresh /\ AllHeld

\* ListInv says what the property does.
LEMMA ListInvImplies == TypeOK /\ ListInv => ListReturnsOwnAnswer
<1> SUFFICES ASSUME TypeOK, ListInv, stage = "done", call.kind = "list", outcome = "ok"
             PROVE  LET own == {i \in DOMAIN items : items[i].id = actions}
                    IN  /\ \A i \in DOMAIN items \ own : items[i].id = 0
                        /\ \A i \in own : items[i].type = "item"
                        /\ {items[i].n : i \in own} = 1..said.n
                        /\ \A i, j \in own : i < j => items[i].n < items[j].n
    BY DEF ListReturnsOwnAnswer
<1>1. DOMAIN items = 1..Len(items)
  BY DEF TypeOK
<1>2. \A i \in 1..Len(items) : items[i].id = actions => OwnItem(items[i]) /\ items[i].n \in 1..said.n
  BY DEF ListInv, ItemsTold, Fresh, TypeOK, Ids
<1>3. \A i \in 1..Len(items) : items[i].id # actions => items[i].id = 0
  BY DEF ListInv, ItemsTold, OwnItem
<1>4. \A n \in 1..said.n : \E i \in 1..Len(items) : items[i].id = actions /\ items[i].n = n
  BY DEF ListInv, AllHeld, Held, OwnItem
<1>5. \A i, j \in 1..Len(items) :
        i < j /\ items[i].id = actions /\ items[j].id = actions => items[i].n < items[j].n
  BY <1>2 DEF ListInv, Rises
<1> QED
  BY <1>1, <1>2, <1>3, <1>4, <1>5 DEF OwnItem

\* Every step that leaves the wire alone keeps ListInv.
LEMMA ListInvOffWire ==
    ASSUME TypeOK, ListInv, UNCHANGED wire, UNCHANGED <<actions, call, items, said>>,
           stage' = "reply" => stage \in {"write", "reply"},
           stage' = "items" => stage = "items",
           stage' = "write" => stage = "write",
           stage' # "none" => stage # "none",
           stage' = "done" /\ outcome' = "ok" => stage = "done" /\ outcome = "ok"
    PROVE  ListInv'
<1>1. ItemsTold' /\ WireTold' /\ Rises(items)' /\ Rises(wire)' /\ Follows'
  BY DEF ListInv, ItemsTold, WireTold, Rises, Follows, OwnItem
<1>2. Fresh' /\ AllHeld'
  BY DEF ListInv, Fresh, AllHeld, Held, OwnItem
<1>3. EndIsLast'
  BY DEF ListInv, EndIsLast, Fresh, Held, OnWireBefore, OwnItem, OwnEnd
<1> QED
  BY <1>1, <1>2, <1>3 DEF ListInv
\* Reading a message moves the others up by one place.
LEMMA ListInvRead ==
    ASSUME TypeOK, ListInv, ActionReply \/ ListReply \/ ListItem \/ ListSkipsForeignEnd \/ ListEnds
    PROVE  ListInv'
<1>1. /\ wire \in Seq(Message) /\ items \in Seq(Message) /\ wire # <<>> /\ actions \in Nat
      /\ Len(wire) \in Nat /\ Len(wire) > 0 /\ Len(items) \in Nat /\ said.n \in Nat
      /\ \A i \in 1..Len(wire) : wire[i].n \in Nat /\ wire[i].id \in Nat
  <2>1. \A i \in 1..Len(wire) : wire[i] \in Message
    BY DEF TypeOK
  <2>2. wire # <<>>
    BY DEF ActionReply, ListReply, ListItem, ListSkipsForeignEnd, ListEnds
  <2>3. said.n \in Nat
    BY DEF TypeOK, Answer, Unanswered
  <2> QED
    BY <2>1, <2>2, <2>3 DEF TypeOK, Ids, Message
<1>2. /\ wire' = Tail(wire) /\ UNCHANGED <<actions, call, said>>
      /\ stage \in {"reply", "items"} /\ stage' \in {"items", "done"}
      /\ stage = "reply" => items = <<>>
  BY DEF ActionReply, ListReply, ListItem, ListSkipsForeignEnd, ListEnds, Consume, CompletionRead,
     ListInv, Fresh
<1>3. /\ Head(wire) = wire[1] /\ Len(wire') = Len(wire) - 1
      /\ \A i \in 1..Len(wire') : i + 1 \in 1..Len(wire) /\ wire'[i] = wire[i + 1]
  BY <1>1, <1>2, HeadTailProperties
<1>4. WireTold'
  BY <1>1, <1>2, <1>3 DEF ListInv, WireTold, OwnItem
<1>5. Rises(wire)'
  <2>1. ASSUME NEW i \in 1..Len(wire'), NEW j \in 1..Len(wire'), i < j,
               OwnItem(wire'[i]), OwnItem(wire'[j])
        PROVE  wire'[i].n < wire'[j].n
    <3>1. i + 1 < j + 1
      BY <1>1, <1>3, <2>1
    <3> QED
      BY <1>3, <2>1, <3>1 DEF ListInv, Rises
  <2> QED
    BY <1>2, <2>1 DEF Rises, OwnItem
<1>6. Fresh'
  BY <1>2 DEF ListInv, Fresh
<1>7. CASE items' = items
  <2>1. ItemsTold' /\ Rises(items)' /\ Follows'
    BY <1>2, <1>3, <1>7 DEF ListInv, ItemsTold, Rises, Follows, OwnItem
  <2>2. AllHeld'
    <3>1. CASE ListEnds
      <4>1. OwnEnd(wire[1]) /\ 1 \in 1..Len(wire)
        BY <1>1, <1>3, <3>1 DEF ListEnds, Skipped, Foreign, ListInv, WireTold, OwnEnd
      <4>2. call.kind = "list" => \A n \in 1..said.n : Held(n) \/ OnWireBefore(n, 1)
        BY <1>2, <4>1 DEF ListInv, EndIsLast
      <4>3. \A n \in 1..said.n : ~OnWireBefore(n, 1)
        BY DEF OnWireBefore
      <4> QED
        BY <1>2, <1>7, <4>2, <4>3 DEF AllHeld, Held, OwnItem
    <3>2. CASE ~ListEnds
      BY <1>2, <3>2 DEF ActionReply, ListReply, ListItem, ListSkipsForeignEnd, AllHeld
    <3> QED
      BY <3>1, <3>2
  <2>3. EndIsLast'
    <3>1. SUFFICES ASSUME stage' = "items", call.kind = "list", NEW j \in 1..Len(wire'),
                          OwnEnd(wire'[j]), NEW n \in 1..said.n, ~Held(n)
                   PROVE  OnWireBefore(n, j)'
      BY <1>2, <1>7 DEF EndIsLast, Held, OwnItem, OwnEnd
    <3>2. ~OwnItem(wire[1])
      BY <1>1, <1>3, <1>7, <3>1 DEF ActionReply, ListReply, ListItem, ListSkipsForeignEnd, ListEnds, Skipped,
         Foreign, OwnItem, Finish, Responses
    <3>3. PICK i \in 1..(j + 1) - 1 : OwnItem(wire[i]) /\ wire[i].n = n
      <4>1. OwnEnd(wire[j + 1])
        BY <1>3, <3>1
      <4> QED
        BY <1>2, <1>3, <3>1, <4>1 DEF ListInv, EndIsLast, OnWireBefore
    <3>4. i # 1 /\ i - 1 \in 1..j - 1 /\ i - 1 \in 1..Len(wire') /\ (i - 1) + 1 = i
      BY <1>1, <1>3, <3>2, <3>3
    <3>5. wire'[i - 1] = wire[i]
      BY <1>3, <3>4
    <3> QED
      BY <1>2, <3>3, <3>4, <3>5 DEF OnWireBefore, OwnItem
  <2> QED
    BY <1>4, <1>5, <1>6, <2>1, <2>2, <2>3 DEF ListInv
<1>8. CASE items' # items
  <2>0. ListItem /\ ~Skipped(wire[1])
    BY <1>3, <1>8 DEF ActionReply, ListReply, ListItem, ListSkipsForeignEnd, ListEnds
  <2>1. /\ items' = Append(items, wire[1]) /\ stage' = "items" /\ stage = "items"
        /\ wire[1].type # "complete" /\ wire[1].type \notin Responses
        /\ 1 \in 1..Len(wire) /\ wire[1] \in Message
    BY <1>1, <1>3, <2>0 DEF ListItem, Skipped
  <2>2. wire[1].id = 0 \/ (OwnItem(wire[1]) /\ wire[1].n \in 1..said.n)
    BY <2>0, <2>1 DEF ListInv, WireTold, Skipped, Foreign, OwnItem, Message, Events
  <2>3. /\ Len(items') = Len(items) + 1 /\ items'[Len(items) + 1] = wire[1]
        /\ \A i \in 1..Len(items) : items'[i] = items[i]
    BY <1>1, <2>1, AppendProperties
  <2>4. \A i \in 1..Len(items') : i \in 1..Len(items) \/ i = Len(items) + 1
    BY <1>1, <2>3
  <2>5. ItemsTold'
    BY <1>2, <2>2, <2>3, <2>4 DEF ListInv, ItemsTold, OwnItem
  <2>6. Rises(items)'
    <3>1. ASSUME NEW i \in 1..Len(items'), NEW j \in 1..Len(items'), i < j,
                 OwnItem(items'[i]), OwnItem(items'[j])
          PROVE  items'[i].n < items'[j].n
      <4>1. i \in 1..Len(items) /\ items'[i] = items[i]
        BY <1>1, <2>3, <2>4, <3>1
      <4>2. CASE j \in 1..Len(items)
        BY <2>3, <3>1, <4>1, <4>2 DEF ListInv, Rises
      <4>3. CASE j = Len(items) + 1
        BY <2>1, <2>3, <3>1, <4>1, <4>3 DEF ListInv, Follows
      <4> QED
        BY <2>4, <4>2, <4>3
    <3> QED
      BY <1>2, <3>1 DEF Rises, OwnItem
  <2>7. Follows'
    <3>1. ASSUME NEW i \in 1..Len(items'), NEW j \in 1..Len(wire'),
                 OwnItem(items'[i]), OwnItem(wire'[j])
          PROVE  items'[i].n < wire'[j].n
      <4>1. CASE i \in 1..Len(items)
        BY <1>3, <2>3, <3>1, <4>1 DEF ListInv, Follows
      <4>2. CASE i = Len(items) + 1
        <5>1. 1 < j + 1
          OBVIOUS
        <5> QED
          BY <1>3, <2>1, <2>3, <3>1, <4>2, <5>1 DEF ListInv, Rises
      <4> QED
        BY <2>4, <4>1, <4>2
    <3> QED
      BY <1>2, <3>1 DEF Follows, OwnItem
  <2>8. \A n \in 1..said.n : Held(n) \/ (OwnItem(wire[1]) /\ wire[1].n = n) => Held(n)'
    <3>1. SUFFICES ASSUME NEW n \in 1..said.n, Held(n) \/ (OwnItem(wire[1]) /\ wire[1].n = n)
                   PROVE  \E i \in 1..Len(items') : OwnItem(items'[i]) /\ items'[i].n = n
      BY <1>2 DEF Held, OwnItem
    <3>2. CASE Held(n)
      <4>1. PICK i \in 1..Len(items) : OwnItem(items[i]) /\ items[i].n = n
        BY <3>2 DEF Held
      <4> QED
        BY <1>1, <2>3, <4>1
    <3>3. CASE OwnItem(wire[1]) /\ wire[1].n = n
      BY <1>1, <2>3, <3>3
    <3> QED
      BY <3>1, <3>2, <3>3
  <2>9. EndIsLast'
    <3>1. SUFFICES ASSUME call.kind = "list", NEW j \in 1..Len(wire'),
                          OwnEnd(wire'[j]), NEW n \in 1..said.n, ~Held(n)'
                   PROVE  OnWireBefore(n, j)'
      BY <1>2 DEF EndIsLast, OwnEnd
    <3>2. ~Held(n) /\ ~(OwnItem(wire[1]) /\ wire[1].n = n)
      BY <2>8, <3>1
    <3>3. PICK i \in 1..(j + 1) - 1 : OwnItem(wire[i]) /\ wire[i].n = n
      <4>1. OwnEnd(wire[j + 1])
        BY <1>2, <1>3, <3>1 DEF OwnEnd
      <4> QED
        BY <1>2, <1>3, <3>1, <3>2, <4>1 DEF ListInv, EndIsLast, OnWireBefore
    <3>4. i # 1 /\ i - 1 \in 1..j - 1 /\ i - 1 \in 1..Len(wire') /\ (i - 1) + 1 = i
      BY <1>1, <1>3, <3>2, <3>3
    <3>5. wire'[i - 1] = wire[i]
      BY <1>3, <3>4
    <3> QED
      BY <1>2, <3>3, <3>4, <3>5 DEF OnWireBefore, OwnItem
  <2> QED
    BY <1>4, <1>5, <1>6, <2>1, <2>5, <2>6, <2>7, <2>9 DEF ListInv, AllHeld
<1> QED
  BY <1>7, <1>8
\* A new call begins with nothing of its own anywhere.
LEMMA ListInvBegin ==
    ASSUME TypeOK, ListInv, NEW kind \in Kinds, Begin(kind)
    PROVE  ListInv'
<1>1. /\ actions' = actions + 1 /\ actions \in Nat /\ wire' = wire /\ items' = <<>> /\ stage' = "write"
      /\ \A j \in 1..Len(wire) : wire[j].id \in Nat
  <2>1. \A j \in 1..Len(wire) : wire[j] \in Message
    BY DEF TypeOK
  <2> QED
    BY <2>1 DEF Begin, NextActionID, TypeOK, Message, Ids
<1>2. \A j \in 1..Len(wire') : wire'[j].id # actions' /\ wire'[j].id <= actions'
  BY <1>1 DEF ListInv, WireTold
<1> QED
  BY <1>1, <1>2
  DEF ListInv, ItemsTold, WireTold, Rises, Follows, EndIsLast, Fresh, AllHeld, OwnItem, OwnEnd

\* The reply comes behind whatever is on the wire, its items in order and its
\* completion last.
LEMMA ListInvReply ==
    ASSUME TypeOK, ListInv, WriteReaches
    PROVE  ListInv'
<1>1. PICK a \in Answer : /\ a.n > 0 => call.kind = "list" /\ a.type = "Success"
                         /\ said' = a /\ wire' = wire \o Reply(call.kind, actions, a)
  BY DEF WriteReaches
<1> DEFINE r == Reply(call.kind, actions, a)
<1>2. /\ stage = "write" /\ stage' = "reply" /\ UNCHANGED <<actions, call, items>>
      /\ items' = <<>> /\ actions \in Nat /\ actions > 0 /\ actions \in Ids /\ call.kind \in Kinds
      /\ \A j \in 1..Len(wire) : wire[j].id # actions
  BY DEF WriteReaches, ListInv, Fresh, TypeOK, Ids
<1>3. wire \in Seq(Message) /\ Len(wire) \in Nat /\ a.n \in Nat /\ a.type \in Responses
  BY DEF TypeOK, Answer
<1>4. /\ r \in Seq(Message)
      /\ Len(r) = IF call.kind = "list" /\ a.type = "Success" THEN a.n + 2 ELSE 1
      /\ r[1] = [type |-> a.type, id |-> actions, n |-> 0]
      /\ call.kind = "list" /\ a.type = "Success" =>
             /\ \A i \in 1..a.n : r[i + 1] = [type |-> "item", id |-> actions, n |-> i]
             /\ r[a.n + 2] = [type |-> "complete", id |-> actions, n |-> 0]
  BY <1>2, ReplyType
<1> HIDE DEF r
<1>5. /\ Len(wire') = Len(wire) + Len(r)
      /\ \A i \in 1..Len(wire) : wire'[i] = wire[i]
      /\ \A i \in 1..Len(r) : wire'[Len(wire) + i] = r[i]
  <2>1. wire' = wire \o r
    BY <1>1 DEF r
  <2>2. Len(wire \o r) = Len(wire) + Len(r)
    BY <1>3, <1>4, ConcatLen, Zenon
  <2>3. \A i \in 1..Len(wire) : (wire \o r)[i] = wire[i]
    BY <1>3, <1>4, ConcatLeft, Zenon
  <2>4. \A i \in 1..Len(r) : (wire \o r)[Len(wire) + i] = r[i]
    BY <1>3, <1>4, ConcatRight, Zenon
  <2> QED
    BY <2>1, <2>2, <2>3, <2>4
<1>6. ASSUME NEW i \in 1..Len(r)
      PROVE  /\ r[i].id = actions /\ r[i].type # "event"
             /\ r[i].type = "item" => i \in 2..Len(r) - 1 /\ r[i].n = i - 1 /\ r[i].n \in 1..a.n
             /\ r[i].type = "complete" => i = a.n + 2
  <2>1. CASE i = 1
    BY <1>3, <1>4, <2>1 DEF Responses
  <2>2. CASE i # 1
    <3>1. call.kind = "list" /\ a.type = "Success" /\ Len(r) = a.n + 2
      BY <1>4, <2>2
    <3>2. CASE i = a.n + 2
      BY <1>3, <1>4, <3>1, <3>2
    <3>3. CASE i # a.n + 2
      <4>1. i - 1 \in 1..a.n /\ (i - 1) + 1 = i
        BY <1>3, <2>2, <3>1, <3>3
      <4>2. r[i] = [type |-> "item", id |-> actions, n |-> i - 1]
        BY <1>4, <3>1, <4>1
      <4> QED
        BY <1>3, <3>1, <4>1, <4>2
    <3> QED
      BY <3>2, <3>3
  <2> QED
    BY <2>1, <2>2
\* A message of the new wire is on the old one, where none is own, or in the reply.
<1>7. ASSUME NEW j \in 1..Len(wire')
      PROVE  \/ j \in 1..Len(wire) /\ wire'[j] = wire[j]
             \/ j - Len(wire) \in 1..Len(r) /\ wire'[j] = r[j - Len(wire)]
  <2>1. j \in 1..Len(wire) \/ (j - Len(wire) \in 1..Len(r) /\ Len(wire) + (j - Len(wire)) = j)
    <3>1. Len(r) \in Nat
      BY <1>4
    <3> QED
      BY <1>3, <1>5, <3>1
  <2> QED
    BY <1>5, <2>1
<1>8. WireTold'
  <2>1. ASSUME NEW j \in 1..Len(wire')
        PROVE  /\ wire'[j].id <= actions
               /\ wire'[j].type = "event" <=> wire'[j].id = 0
               /\ OwnItem(wire'[j]) => wire'[j].n \in 1..a.n
    <3>1. CASE j \in 1..Len(wire) /\ wire'[j] = wire[j]
      BY <1>2, <3>1 DEF ListInv, WireTold, OwnItem
    <3>2. CASE j - Len(wire) \in 1..Len(r) /\ wire'[j] = r[j - Len(wire)]
      <4> DEFINE l == j - Len(wire)
      <4>1. l \in 1..Len(r) /\ wire'[j] = r[l]
        BY <3>2
      <4> HIDE DEF l
      <4> QED
        BY <1>2, <1>6, <4>1 DEF OwnItem
    <3> QED
      BY <1>7, <3>1, <3>2
  <2> QED
    BY <1>1, <1>2, <2>1 DEF WireTold, OwnItem
<1>9. Rises(wire)'
  <2>1. ASSUME NEW i \in 1..Len(wire'), NEW j \in 1..Len(wire'), i < j,
               OwnItem(wire'[i]), OwnItem(wire'[j])
        PROVE  wire'[i].n < wire'[j].n
    <3>1. /\ i - Len(wire) \in 1..Len(r) /\ wire'[i] = r[i - Len(wire)]
          /\ j - Len(wire) \in 1..Len(r) /\ wire'[j] = r[j - Len(wire)]
      BY <1>2, <1>7, <2>1 DEF OwnItem
    <3>2. wire'[i].n = (i - Len(wire)) - 1 /\ wire'[j].n = (j - Len(wire)) - 1
      BY <1>6, <2>1, <3>1 DEF OwnItem
    <3> QED
      BY <1>3, <2>1, <3>2
  <2> QED
    BY <1>2, <2>1 DEF Rises, OwnItem
<1>10. EndIsLast'
  <2>1. SUFFICES ASSUME NEW j \in 1..Len(wire'), OwnEnd(wire'[j]), NEW n \in 1..a.n
                 PROVE  \E i \in 1..j - 1 : OwnItem(wire'[i]) /\ wire'[i].n = n
    <3>1. said' = a /\ actions' = actions
      BY <1>1, <1>2
    <3> QED
      BY <3>1 DEF EndIsLast, OnWireBefore, OwnItem, OwnEnd
  <2>2. j - Len(wire) = a.n + 2
    BY <1>2, <1>6, <1>7, <2>1 DEF OwnEnd
  <2>3. n + 1 \in 1..Len(r) /\ Len(wire) + (n + 1) \in 1..j - 1
    BY <1>1, <1>3, <1>4, <2>2
  <2>4. wire'[Len(wire) + (n + 1)] = r[n + 1]
    BY <1>5, <2>3
  <2>5. r[n + 1] = [type |-> "item", id |-> actions, n |-> n]
    BY <1>1, <1>3, <1>4
  <2> QED
    BY <2>3, <2>4, <2>5, SMTT(40) DEF OwnItem
<1> QED
  BY <1>2, <1>8, <1>9, <1>10 DEF ListInv, ItemsTold, Rises, Follows, Fresh, AllHeld

\* An event from elsewhere is on no list's account, and moves the rest apart.
LEMMA ListInvNoise ==
    ASSUME TypeOK, ListInv, Noise
    PROVE  ListInv'
<1>1. PICK i \in 1..Len(wire) + 1 : wire' = Seqs!InsertAt(wire, i, Unsolicited)
  BY DEF Noise
<1>2. /\ wire \in Seq(Message) /\ Len(wire) \in Nat /\ actions \in Nat /\ items \in Seq(Message)
      /\ UNCHANGED <<actions, call, stage, items, outcome, said>>
  BY DEF TypeOK, Ids, Noise
<1>3. /\ Len(wire') = Len(wire) + 1
      /\ \A j \in 1..Len(wire') : wire'[j] = IF j < i THEN wire[j] ELSE IF j = i THEN Unsolicited ELSE wire[j - 1]
  BY <1>1, <1>2, InsertType
<1> DEFINE old(j) == IF j < i THEN j ELSE j - 1
           new(j) == IF j < i THEN j ELSE j + 1
<1>4. ASSUME NEW j \in 1..Len(wire'), wire'[j].type # "event"
      PROVE  j # i /\ old(j) \in 1..Len(wire) /\ wire'[j] = wire[old(j)]
  <2>1. j # i
    BY <1>3, <1>4 DEF Unsolicited
  <2>2. CASE j < i
    BY <1>2, <1>3, <2>2
  <2>3. CASE j > i
    BY <1>2, <1>3, <2>3
  <2> QED
    BY <1>2, <2>1, <2>2, <2>3
<1>5. WireTold'
  <2>1. ASSUME NEW j \in 1..Len(wire')
        PROVE  \/ wire'[j] = Unsolicited
               \/ \E l \in 1..Len(wire) : wire'[j] = wire[l]
    <3>1. CASE j < i
      BY <1>2, <1>3, <3>1
    <3>2. CASE j = i
      BY <1>3, <3>2
    <3>3. CASE j > i
      <4>1. j - 1 \in 1..Len(wire)
        BY <1>2, <1>3, <3>3
      <4> QED
        BY <1>3, <3>3, <4>1
    <3> QED
      BY <1>2, <3>1, <3>2, <3>3
  <2> QED
    BY <1>2, <2>1, SMTT(40) DEF ListInv, WireTold, OwnItem, Unsolicited
<1>6. Rises(wire)'
  <2>1. ASSUME NEW j \in 1..Len(wire'), NEW l \in 1..Len(wire'), j < l,
               OwnItem(wire'[j]), OwnItem(wire'[l])
        PROVE  wire'[j].n < wire'[l].n
    <3>1. /\ j # i /\ old(j) \in 1..Len(wire) /\ wire'[j] = wire[old(j)]
          /\ l # i /\ old(l) \in 1..Len(wire) /\ wire'[l] = wire[old(l)]
      BY <1>4, <2>1 DEF OwnItem
    <3>2. old(j) < old(l)
      BY <1>2, <2>1, <3>1
    <3> QED
      BY <2>1, <3>1, <3>2 DEF ListInv, Rises
  <2> QED
    BY <1>2, <2>1 DEF Rises, OwnItem
<1>7. Follows'
  BY <1>2, <1>4 DEF ListInv, Follows, OwnItem
<1>8. EndIsLast'
  <2>1. SUFFICES ASSUME stage \in {"reply", "items"}, call.kind = "list", NEW j \in 1..Len(wire'),
                        OwnEnd(wire'[j]), NEW n \in 1..said.n, ~Held(n)
                 PROVE  \E l \in 1..j - 1 : OwnItem(wire'[l]) /\ wire'[l].n = n
    BY <1>2 DEF EndIsLast, OnWireBefore, Held, OwnItem, OwnEnd
  <2>2. j # i /\ old(j) \in 1..Len(wire) /\ wire'[j] = wire[old(j)]
    BY <1>4, <2>1 DEF OwnEnd
  <2>3. PICK l \in 1..old(j) - 1 : OwnItem(wire[l]) /\ wire[l].n = n
    BY <2>1, <2>2 DEF ListInv, EndIsLast, OnWireBefore
  <2>4. new(l) \in 1..j - 1 /\ new(l) \in 1..Len(wire')
    BY <1>2, <1>3, <2>2
  <2>5. wire'[new(l)] = wire[l]
    BY <1>2, <1>3, <2>4
  <2> QED
    BY <2>3, <2>4, <2>5
<1>9. ItemsTold' /\ Rises(items)' /\ AllHeld'
  BY <1>2 DEF ListInv, Rises, ItemsTold, AllHeld, Held, OwnItem
<1>10. Fresh'
  <2>1. stage = "write" => \A j \in 1..Len(wire') : wire'[j].id # actions
    <3>1. ASSUME stage = "write", NEW j \in 1..Len(wire') PROVE wire'[j].id # actions
      <4>1. actions > 0
        BY <3>1 DEF ListInv, Fresh
      <4>2. CASE j < i
        BY <1>2, <1>3, <3>1, <4>2 DEF ListInv, Fresh
      <4>3. CASE j = i
        BY <1>2, <1>3, <4>1, <4>3 DEF Unsolicited
      <4>4. CASE j > i
        <5>1. j - 1 \in 1..Len(wire)
          BY <1>2, <1>3, <4>4
        <5> QED
          BY <1>3, <3>1, <4>4, <5>1 DEF ListInv, Fresh
      <4> QED
        BY <1>2, <4>2, <4>3, <4>4
    <3> QED
      BY <3>1
  <2> QED
    BY <1>2, <2>1 DEF ListInv, Fresh
<1> QED
  BY <1>5, <1>6, <1>7, <1>8, <1>9, <1>10 DEF ListInv

\* When the connection dies, what is left of the wire is where it was.
LEMMA ListInvGone ==
    ASSUME TypeOK, ListInv, PeerGoes
    PROVE  ListInv'
<1>1. PICK kept \in 0..Len(wire) : wire' = SubSeq(wire, 1, kept)
  BY DEF PeerGoes
<1>2. wire \in Seq(Message) /\ Len(wire) \in Nat
      /\ UNCHANGED <<actions, call, stage, items, outcome, said>>
  BY DEF TypeOK, PeerGoes
<1>3. Len(wire') = kept /\ \A j \in 1..Len(wire') : wire'[j] = wire[j] /\ j \in 1..Len(wire)
  BY <1>1, <1>2, KeptType
<1>4. WireTold' /\ Rises(wire)' /\ Follows'
  BY <1>2, <1>3 DEF ListInv, WireTold, Rises, Follows, OwnItem
<1>6. ItemsTold' /\ Rises(items)' /\ AllHeld'
  BY <1>2 DEF ListInv, Rises, ItemsTold, AllHeld, Held, OwnItem
<1>7. Fresh'
  BY <1>2, <1>3 DEF ListInv, Fresh
<1>5. EndIsLast'
  <2>1. SUFFICES ASSUME stage \in {"reply", "items"}, call.kind = "list", NEW j \in 1..Len(wire'),
                        OwnEnd(wire'[j]), NEW n \in 1..said.n, ~Held(n)
                 PROVE  \E i \in 1..j - 1 : OwnItem(wire'[i]) /\ wire'[i].n = n
    BY <1>2, SMTT(40) DEF EndIsLast, OnWireBefore, Held, OwnItem, OwnEnd
  <2>2. PICK i \in 1..j - 1 : OwnItem(wire[i]) /\ wire[i].n = n
    BY <1>3, <2>1 DEF ListInv, EndIsLast, OnWireBefore
  <2>3. i \in 1..Len(wire')
    BY <1>3
  <2> QED
    BY <1>3, <2>2, <2>3
<1> QED
  BY <1>4, <1>5, <1>6, <1>7 DEF ListInv

\* Whatever went wrong before on the connection, a list that succeeds is the
\* one asked for, complete and in order.
THEOREM ListCorrect == Spec => []ListReturnsOwnAnswer
<1>1. Init => ListInv
  BY DEF Init, ListInv, ItemsTold, WireTold, Rises, Follows, EndIsLast, Fresh, AllHeld
<1>2. TypeOK /\ ListInv /\ [Next]_vars => ListInv'
  <2> SUFFICES ASSUME TypeOK, ListInv, [Next]_vars PROVE ListInv'
    OBVIOUS
  <2>1. CASE \E kind \in Kinds : Begin(kind)
    BY <2>1, ListInvBegin
  <2>2. CASE WriteReaches
    BY <2>2, ListInvReply
  <2>3. CASE ActionReply \/ ListReply \/ ListItem \/ ListSkipsForeignEnd \/ ListEnds
    BY <2>3, ListInvRead
  <2>4. CASE Noise
    BY <2>4, ListInvNoise
  <2>5. CASE PeerGoes
    BY <2>5, ListInvGone
  <2>6. CASE WriteVanishes \/ WriteFails \/ ReadTimeout \/ ReadEOF \/ Return \/ Tick \/ Terminated
               \/ UNCHANGED vars
    <3>1. /\ UNCHANGED wire /\ UNCHANGED <<actions, call, items, said>>
          /\ stage' = "reply" => stage \in {"write", "reply"}
          /\ stage' = "items" => stage = "items"
          /\ stage' = "write" => stage = "write"
          /\ stage' # "none" => stage # "none"
          /\ stage' = "done" /\ outcome' = "ok" => stage = "done" /\ outcome = "ok"
      BY <2>6 DEF WriteVanishes, WriteFails, ReadTimeout, ReadEOF, Return, Tick, Terminated, vars
    <3> QED
      BY <3>1, ListInvOffWire
  <2> QED
    BY <2>1, <2>2, <2>3, <2>4, <2>5, <2>6 DEF Next, Progress, Write, Read, Environment
<1> QED
  BY <1>1, <1>2, ListInvImplies, TypeCorrect, PTL DEF Spec
=============================================================================
