------------------------------ MODULE RtcpParse ------------------------------
(***************************************************************************)
(* Parse (internal/rtcp/parser.go): one measurement of an RTCP event, from *)
(* the first of several headers that holds a usable number, and in a unit  *)
(* that Parse has to guess from the number itself.                         *)
(*                                                                         *)
(* Numbers are in fixed point: thousandths for jitter and round-trip time, *)
(* 256ths for the loss, of the unit the header has.  A header is           *)
(* [key, unit, n]: the number n as sent in that unit, or no number at all. *)
(* NaN, which ParseFloat accepts and Asterisk has no reason to send, is    *)
(* left out.                                                               *)
(***************************************************************************)
EXTENDS Integers, Sequences
Sets == INSTANCE FiniteSetsExt

CONSTANTS
    Numbers,    \* the numbers sent, of each measurement and in each unit
    Measures,   \* the measurements looked at, of "jitter", "loss", "rtt", "packets"
    MaxHeaders  \* bound: headers of an event, besides Event

VARIABLES
    event,      \* the Event header
    measure,    \* the measurement looked at
    headers,    \* the other headers, in order
    variant,    \* position in the list of header names
    sample,     \* the value, None without one
    ok          \* "parsing", "yes" or "no"

vars == <<event, measure, headers, variant, sample, ok>>

None == -1000000

Variants ==
    [jitter |-> <<"IAJitter", "ReportBlockIAJitter0", "ReportBlock0IAJitter", "Jitter">>,
     loss |-> <<"FractionLost", "ReportBlockFractionLost0", "ReportBlock0FractionLost">>,
     rtt |-> <<"RTT", "RoundTripTime">>,
     packets |-> <<"SentPackets">>]

Malformed == [unit |-> "none", n |-> None]

HeadersOf(m) ==
    {[key |-> Variants[m][i], unit |-> u, n |-> n] : i \in DOMAIN Variants[m],
         u \in DOMAIN Numbers[m], n \in UNION {Numbers[m][w] : w \in DOMAIN Numbers[m]}}
Sendable(m) ==
    {h \in HeadersOf(m) : h.n \in Numbers[m][h.unit]}
        \cup {[key |-> Variants[m][i], unit |-> "none", n |-> None] : i \in DOMAIN Variants[m]}

Start(e, m, hs) ==
    /\ event = e /\ measure = m /\ headers = hs
    /\ variant = 1 /\ sample = None /\ ok = "parsing"

Init == \E e \in {"RTCPSent", "RTCPReceived", "Hangup"}, m \in Measures, k \in 0..MaxHeaders :
            \E hs \in [1..k -> Sendable(m)] : Start(e, m, hs)

-----------------------------------------------------------------------------
(* Message.Get: the first header of that name *)

Hits(key) == {i \in DOMAIN headers : headers[i].key = key}
Get(key) == headers[Sets!Min(Hits(key))]

(* The units *)

JitterMS(f) == IF f > 1000 THEN f ELSE f * 1000

ByteOf(f) == IF f >= 256 THEN f \div 256 ELSE f
LossOf(f) == IF f > 256 THEN f \div 256 ELSE f
Clamped(f) == CASE f < 0 -> 0 [] f > 256 -> 256 [] OTHER -> f

RTTMS(f) == IF f > 0 /\ f < 10000 THEN f * 1000 ELSE f

Converted(f) ==
    CASE measure = "jitter" -> JitterMS(f)
      [] measure = "loss" -> Clamped(LossOf(f))
      [] measure = "rtt" -> RTTMS(f)
      [] OTHER -> f

\* A round-trip time that is not positive is no measurement.
Usable(f) == f # None /\ (measure = "rtt" => f > 0)

-----------------------------------------------------------------------------
NotRtcp ==
    /\ ok = "parsing" /\ event \notin {"RTCPSent", "RTCPReceived"}
    /\ ok' = "no"
    /\ UNCHANGED <<event, measure, headers, variant, sample>>

Trying == ok = "parsing" /\ event \in {"RTCPSent", "RTCPReceived"}
Remaining == variant <= Len(Variants[measure])
Here == Variants[measure][variant]
Found == Remaining /\ Hits(Here) # {} /\ Usable(Get(Here).n)

Takes ==
    /\ Trying /\ Found
    /\ sample' = Converted(Get(Here).n) /\ ok' = "yes"
    /\ UNCHANGED <<event, measure, headers, variant>>

TriesNext ==
    /\ Trying /\ Remaining /\ ~Found
    /\ variant' = variant + 1
    /\ UNCHANGED <<event, measure, headers, sample, ok>>

NothingFound ==
    /\ Trying /\ ~Remaining
    /\ ok' = "yes"
    /\ UNCHANGED <<event, measure, headers, variant, sample>>

Next == NotRtcp \/ Takes \/ TriesNext \/ NothingFound

-----------------------------------------------------------------------------
(* Properties *)

TypeOK ==
    /\ event \in {"RTCPSent", "RTCPReceived", "Hangup"} /\ measure \in DOMAIN Variants
    /\ headers \in Seq(Sendable(measure))
    /\ variant \in 1..(Len(Variants[measure]) + 1)
    /\ sample \in Int /\ ok \in {"parsing", "yes", "no"}

\* What a header says, in thousandths of milliseconds or 256ths.
Meant(h) == CASE h.unit = "s" -> h.n * 1000
              [] h.unit = "byte" -> h.n \div 256
              [] OTHER -> h.n

\* The numbers that read as the other unit: more than a second of jitter or at
\* most a millisecond sent as such, ten seconds of round trip or less than ten
\* milliseconds sent as such, and the loss byte 1.
Misread(h) ==
    \/ measure = "jitter" /\ h.n # 0 /\ (h.unit = "s" <=> h.n > 1000)
    \/ measure = "rtt" /\ (h.unit = "s" <=> h.n >= 10000)
    \/ measure = "loss" /\ h.unit = "byte" /\ h.n = 256

Says(h) == h.n # None /\ (measure = "rtt" => h.n > 0)

InRange(h) == IF measure = "loss" THEN Clamped(Meant(h)) ELSE Meant(h)

\* A misread number taken for the other unit: ms for s, s for ms, a ratio for a byte.
AsOtherUnit(h) == IF h.unit = "ms" THEN h.n * 1000 ELSE h.n

\* Of the headers with the same name the first counts, and of those that say
\* something the one whose name is listed first.
First(i) == \A j \in 1..(i - 1) : headers[j].key # headers[i].key
Before(key, other) ==
    \E v, w \in DOMAIN Variants[measure] :
        v < w /\ Variants[measure][v] = key /\ Variants[measure][w] = other
Chosen(i) ==
    /\ First(i) /\ Says(headers[i])
    /\ \A j \in DOMAIN headers :
          First(j) /\ Says(headers[j]) => ~Before(headers[j].key, headers[i].key)

\* A sample is what one particular header of the event said, whatever the others
\* hold, in the unit it was sent in; if that header has one of the numbers that can
\* be taken for the other unit, the sample is that number in the other unit and
\* nothing else.  A loss ratio stays in 0..1 whatever was sent.  A measurement is
\* missing only if no header, the first of its name, gives it.
SampleFaithful ==
    /\ sample # None =>
          /\ \E i \in DOMAIN headers :
                /\ Chosen(i)
                /\ sample = IF Misread(headers[i]) THEN AsOtherUnit(headers[i]) ELSE InRange(headers[i])
          /\ measure = "loss" => sample \in 0..256
    /\ ok = "yes" /\ sample = None => \A i \in DOMAIN headers : First(i) => ~Says(headers[i])
=============================================================================
