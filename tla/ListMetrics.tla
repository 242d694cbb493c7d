----------------------------- MODULE ListMetrics -----------------------------
(***************************************************************************)
(* What a phase of the scrape makes of Asterisk's answer (collectCore,     *)
(* collectChannels, collectSIPPeers, collectPJSIPEndpoints, collectQueues  *)
(* in internal/collector): the rows of a list are taken one by one, some   *)
(* send a series each, all are counted into groups, and the groups are     *)
(* sent at the end.  Whether the phase gets an answer is Scrape's matter.  *)
(*                                                                         *)
(* A header the row does not have is "".  Names are the names of peers,    *)
(* endpoints, queues and of the system, as Asterisk's administrator chose  *)
(* them; those in Invalid are not UTF-8, those in Numeric are digits.      *)
(***************************************************************************)
EXTENDS Integers, Sequences, FiniteSets
Seqs == INSTANCE SequencesExt

CONSTANTS
    Names, Invalid, Numeric,
    Ids,        \* Linkedids and Uniqueids
    MaxRows     \* bound: rows of a list

ASSUME NamesAssumption == Invalid \subseteq Names /\ Numeric \subseteq Names
ASSUME HeaderAssumption == "" \notin Names \cup Ids
ASSUME BoundAssumption == MaxRows \in Nat

VARIABLES
    phase,
    taken,      \* the rows taken so far
    groups,     \* byState, byStatus, memberCounts: how many rows of each labels
    linkedids,  \* collectChannels: the calls seen
    sent,       \* series sent to the registry: [desc, labels, value]
    status      \* "running", "done" or "crashed"

vars == <<phase, taken, groups, linkedids, sent, status>>

Phases == {"core", "channels", "sip_peers", "pjsip_endpoints", "queues"}
NamesOrNone == Names \cup {""}
IdsOrNone == Ids \cup {""}

\* Rows as far as the code reads them.  word and ms: the state in a peer's Status
\* and whether a latency follows; object: the name came in ObjectName, not in its
\* substitute.
ChannelRows == [state : {"Up", "Ringing", ""}, linked : IdsOrNone, unique : IdsOrNone]
PeerRows == [name : NamesOrNone, word : {"OK", "LAGGED"}, ms : BOOLEAN]
            \cup [name : NamesOrNone, word : {""}, ms : {FALSE}]
EndpointRows ==
    [event : {"EndpointList"}, name : NamesOrNone, object : BOOLEAN,
     state : {"In use", "Unavailable", ""}, auth : {"outbound", "inbound", "none"}]
    \cup [event : {"AorList"}]
QueueRows ==
    [event : {"queueparams"}, name : NamesOrNone, calls : {"2", "many", ""}]
    \cup [event : {"queuemember"}, name : NamesOrNone, state : {"0", "1", "9", ""}]
    \cup [event : {"queueentry"}]

NoGroups == [l \in {} |-> 0]

Init ==
    /\ phase \in Phases /\ status = "running"
    /\ taken = <<>> /\ groups = NoGroups /\ linkedids = {} /\ sent = <<>>

-----------------------------------------------------------------------------
(* Sending: MustNewConstMetric panics on a label that is not UTF-8, on a   *)
(* goroutine of the registry's, where nothing recovers                     *)

Series(d, l, v) == [desc |-> d, labels |-> l, value |-> v]

Panics(new) == \E i \in DOMAIN new : Seqs!ToSet(new[i].labels) \cap Invalid # {}

Send(new, next) ==
    IF Panics(new) THEN status' = "crashed" /\ sent' = sent
                   ELSE status' = next /\ sent' = sent \o new

FirstNonEmpty(v, w) == IF v # "" THEN v ELSE w
When(condition, s) == IF condition THEN <<s>> ELSE <<>>

Running(p) == phase = p /\ status = "running"
Takes(p, r) == Running(p) /\ Len(taken) < MaxRows /\ taken' = Append(taken, r)

\* A phase that groups rows under their labels: counts[l]++, and a series each.
Count(l) == IF l \in DOMAIN groups THEN groups[l] ELSE 0
AddTo(l) == groups' = [k \in DOMAIN groups \cup {l} |-> Count(k) + (IF k = l THEN 1 ELSE 0)]

GroupSeries(desc) == Seqs!SetToSeq({Series(desc, l, groups[l]) : l \in DOMAIN groups})

-----------------------------------------------------------------------------
(* collectCore *)

CoreMetrics ==
    /\ Running("core")
    /\ \E system \in NamesOrNone, dated \in SUBSET {"uptime_seconds", "last_reload_seconds"},
          counted \in BOOLEAN :
          Send(<<Series("info", <<"version", system>>, 1)>>
               \o When(counted, Series("current_calls", <<>>, 1))
               \o Seqs!SetToSeq({Series(d, <<>>, 1) : d \in dated}), "done")
    /\ UNCHANGED <<phase, taken, groups, linkedids>>

-----------------------------------------------------------------------------
(* collectChannels *)

CallIdByLeg(r) == FirstNonEmpty(r.unique, r.linked)
CallId(r) == FirstNonEmpty(r.linked, r.unique)

AnyCall(r) == {CallId(r)}
CallsOf(r) == {CallId(r)} \ {""}

ChannelGroup(r) == <<FirstNonEmpty(r.state, "Unknown")>>

ChannelRow(r) ==
    /\ Takes("channels", r)
    /\ AddTo(ChannelGroup(r))
    /\ linkedids' = linkedids \cup CallsOf(r)
    /\ UNCHANGED <<phase, sent, status>>

ChannelsEnd ==
    /\ Running("channels")
    /\ Send(<<Series("channels_active", <<>>, Len(taken))>> \o GroupSeries("channels_by_state")
            \o <<Series("calls_active", <<>>, Cardinality(linkedids))>>, "done")
    /\ UNCHANGED <<phase, taken, groups, linkedids>>

-----------------------------------------------------------------------------
(* collectSIPPeers *)

StatusKey(r) == FirstNonEmpty(r.word, "UNKNOWN")

PeerRow(r) ==
    /\ Takes("sip_peers", r)
    /\ AddTo(<<StatusKey(r)>>)
    /\ Send(<<Series("peer_up", <<r.name, StatusKey(r)>>, IF StatusKey(r) = "OK" THEN 1 ELSE 0)>>
            \o When(r.ms, Series("peer_latency", <<r.name>>, 12)), "running")
    /\ UNCHANGED <<phase, linkedids>>

PeersEnd ==
    /\ Running("sip_peers")
    /\ Send(GroupSeries("peers"), "done")
    /\ UNCHANGED <<phase, taken, groups, linkedids>>

-----------------------------------------------------------------------------
(* collectPJSIPEndpoints *)

\* Whatever the inbound authentication of an endpoint that has an outbound one;
\* without either, classifyEndpoint looks at ObjectName only.
Kind(r) ==
    IF r.auth = "inbound" \/ (r.auth = "none" /\ r.object /\ r.name \in Numeric)
      THEN "extension" ELSE "trunk"

StateLabel(r) == FirstNonEmpty(r.state, "Unknown")
RawGroup(r) == <<r.state, Kind(r)>>
EndpointGroup(r) == <<StateLabel(r), Kind(r)>>

EndpointRow(r) ==
    /\ Takes("pjsip_endpoints", r)
    /\ IF r.event = "EndpointList"
         THEN /\ AddTo(EndpointGroup(r))
              /\ Send(<<Series("endpoint_up", <<r.name, StateLabel(r), Kind(r)>>,
                               IF r.state = "In use" THEN 1 ELSE 0)>>, "running")
         ELSE UNCHANGED <<groups, sent, status>>
    /\ UNCHANGED <<phase, linkedids>>

EndpointsEnd ==
    /\ Running("pjsip_endpoints")
    /\ Send(GroupSeries("endpoints"), "done")
    /\ UNCHANGED <<phase, taken, groups, linkedids>>

-----------------------------------------------------------------------------
(* collectQueues *)

MemberStatus(s) == CASE s = "" \/ s = "0" -> "unknown" [] s = "1" -> "not_in_use" [] OTHER -> s

AnyQueue(r) == TRUE
HasQueue(r) == r.name # ""

\* emitFloat sends nothing for a value that is no number.  The two counters of
\* a queue are sent as its callers are.
QueueRow(r) ==
    /\ Takes("queues", r)
    /\ IF r.event = "queuemember" /\ HasQueue(r)
         THEN AddTo(<<r.name, MemberStatus(r.state)>>) ELSE UNCHANGED groups
    /\ Send(When(r.event = "queueparams" /\ HasQueue(r) /\ r.calls = "2",
                 Series("callers", <<r.name>>, 2)), "running")
    /\ UNCHANGED <<phase, linkedids>>

QueuesEnd ==
    /\ Running("queues")
    /\ Send(GroupSeries("members"), "done")
    /\ UNCHANGED <<phase, taken, groups, linkedids>>

-----------------------------------------------------------------------------
Terminated == status # "running" /\ UNCHANGED vars

Next ==
    \/ CoreMetrics
    \/ \E r \in ChannelRows : ChannelRow(r)
    \/ \E r \in PeerRows : PeerRow(r)
    \/ \E r \in EndpointRows : EndpointRow(r)
    \/ \E r \in QueueRows : QueueRow(r)
    \/ ChannelsEnd \/ PeersEnd \/ EndpointsEnd \/ QueuesEnd
    \/ Terminated

Spec == Init /\ [][Next]_vars

-----------------------------------------------------------------------------
(* Properties *)

Descs == {"info", "current_calls", "uptime_seconds", "last_reload_seconds", "channels_active",
          "channels_by_state", "calls_active", "peer_up", "peer_latency", "peers", "endpoint_up",
          "endpoints", "callers", "members"}
Words == {"version", "Up", "Ringing", "OK", "LAGGED", "UNKNOWN", "In use", "Unavailable", "Unknown",
          "extension", "trunk", "unknown", "not_in_use", "9"}
Labels == NamesOrNone \cup Words
AllSeries == [desc : Descs, labels : Seq(Labels), value : Nat]

TypeOK ==
    /\ phase \in Phases /\ status \in {"running", "done", "crashed"}
    /\ taken \in Seq(ChannelRows \cup PeerRows \cup EndpointRows \cup QueueRows)
    /\ groups \in [DOMAIN groups -> Nat \ {0}] /\ DOMAIN groups \subseteq Seq(Labels)
    /\ linkedids \subseteq Ids
    /\ sent \in Seq(AllSeries)

Sent(d) == {i \in DOMAIN sent : sent[i].desc = d}

\* Rows of objects that Asterisk lists once each.
Object(r) ==
    \/ phase = "sip_peers"
    \/ phase = "pjsip_endpoints" /\ r.event = "EndpointList"
    \/ phase = "queues" /\ r.event = "queueparams" /\ r.name # ""

ListedOnce ==
    \A i, j \in DOMAIN taken :
        i # j /\ Object(taken[i]) /\ Object(taken[j]) => taken[i].name # taken[j].name

\* No two series of a phase have the same name and labels, for which the registry
\* would refuse the whole response, as long as Asterisk lists no object twice:
\* defaults for missing headers and rows without a queue make none coincide.
SeriesUnique ==
    ListedOnce => \A i, j \in DOMAIN sent :
        sent[i].desc = sent[j].desc /\ sent[i].labels = sent[j].labels => i = j

\* The series of d count what has those labels, and leave none of it out.
Counts(d, labels) ==
    /\ \A g \in Sent(d) :
          sent[g].value = Cardinality({i \in DOMAIN labels : labels[i] = sent[g].labels})
    /\ \A i \in DOMAIN labels : \E g \in Sent(d) : sent[g].labels = labels[i]

ChannelLabels == [k \in DOMAIN taken |-> ChannelGroup(taken[k])]
PeerLabels == [i \in Sent("peer_up") |-> <<sent[i].labels[2]>>]
EndpointLabels == [i \in Sent("endpoint_up") |-> Tail(sent[i].labels)]

\* The members of queues have no series of their own: their groups answer to the
\* rows that name a queue.
Members == {k \in DOMAIN taken : taken[k].event = "queuemember" /\ taken[k].name # ""}
MemberLabels == [k \in Members |-> <<taken[k].name, MemberStatus(taken[k].state)>>]

\* The grouped series agree with the single ones: the groups of a phase cover
\* every row once, under the labels its own series has.
GroupsAgree ==
    status = "done" =>
        /\ phase = "channels" =>
             /\ Counts("channels_by_state", ChannelLabels)
             /\ \E i \in Sent("channels_active") : sent[i].value = Len(taken)
        /\ Counts("peers", PeerLabels) /\ Counts("endpoints", EndpointLabels)
        /\ phase = "queues" => Counts("members", MemberLabels)

Linked == {taken[i].linked : i \in DOMAIN taken} \ {""}
Loose == {taken[i].unique : i \in {j \in DOMAIN taken : taken[j].linked = ""}} \ {""}

\* calls_active counts the legs of one Linkedid once.  A channel without one is a
\* call by its Uniqueid, unless that call is counted already, because it is another
\* leg's Linkedid; only a channel with neither is no call.
CallsCountedOnce ==
    phase = "channels" /\ status = "done" =>
        \E i \in Sent("calls_active") : sent[i].value = Cardinality(Linked \cup Loose)

\* Collect's comment: "we never panic".
NeverPanics == status # "crashed"
=============================================================================
