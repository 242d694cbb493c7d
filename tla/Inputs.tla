-------------------------------- MODULE Inputs --------------------------------
(***************************************************************************)
(* The sequential parts of the exporter side by side, for TLC: a behaviour *)
(* gives one of them any of its inputs and runs it to the end, while the   *)
(* others rest.  Each part is a module of its own: ListMetrics, AmiMessage,*)
(* RtcpParse, ConfigLoad.                                                  *)
(***************************************************************************)
EXTENDS ListMetrics

CONSTANTS Keys, Values, MaxLines, Numbers, Measures, MaxHeaders, MaxArgs

ASSUME InputsAssumption ==
    /\ MaxLines \in Nat /\ MaxHeaders \in Nat /\ MaxArgs \in Nat
    /\ Measures \subseteq {"jitter", "loss", "rtt", "packets"}

\* What an Asterisk may send: jitter and round-trip time in seconds or in
\* milliseconds, the loss as a ratio or as RTCP's byte.
ASSUME NumbersAssumption ==
    /\ DOMAIN Numbers = {"jitter", "loss", "rtt", "packets"}
    /\ DOMAIN Numbers["jitter"] = {"s", "ms"} /\ DOMAIN Numbers["loss"] = {"ratio", "byte"}
    /\ DOMAIN Numbers["rtt"] = {"s", "ms"} /\ DOMAIN Numbers["packets"] = {"count"}
    /\ Numbers["jitter"]["s"] \subseteq Nat /\ Numbers["jitter"]["ms"] \subseteq Nat
    /\ \A n \in Numbers["loss"]["ratio"] : n \in Int /\ n <= 256
    /\ \A n \in Numbers["loss"]["byte"] : n \in Nat /\ n % 256 = 0
    /\ Numbers["rtt"]["s"] \subseteq Int /\ Numbers["rtt"]["ms"] \subseteq Int
    /\ Numbers["packets"]["count"] \subseteq Nat

\* Those TLC tries: on both sides of every boundary.
BoundaryNumbers ==
    [jitter |-> [s |-> {0, 12, 1000, 1001}, ms |-> {0, 1000, 1001, 12000}],
     loss |-> [ratio |-> {-256, 0, 13, 256}, byte |-> {256 * b : b \in {0, 1, 2, 128, 255, 300}}],
     rtt |-> [s |-> {-45, 0, 45, 9999, 10000}, ms |-> {0, 9999, 10000, 45000}],
     packets |-> [count |-> {0, 120}]]

VARIABLES
    part,                                           \* the part that runs
    wire, ending, next, fields, returned, result,   \* AmiMessage
    event, measure, headers, variant, sample, ok,   \* RtcpParse
    env, args, arg, cfg, place                      \* ConfigLoad

Framing == INSTANCE AmiMessage
Parser == INSTANCE RtcpParse
Config == INSTANCE ConfigLoad

framing == <<wire, ending, next, fields, returned, result>>
parser == <<event, measure, headers, variant, sample, ok>>
config == <<env, args, arg, cfg, place>>
allVars == <<vars, part, framing, parser, config>>

Parts == {"metrics", "framing", "parser", "config"}
Unset == [s \in Config!Settings |-> ""]

InitInputs ==
    /\ part \in Parts
    /\ IF part = "metrics" THEN Init
         ELSE /\ phase = "core" /\ status = "done" /\ taken = <<>>
              /\ groups = NoGroups /\ linkedids = {} /\ sent = <<>>
    /\ IF part = "framing" THEN Framing!Init ELSE Framing!Start(<<>>, "clean")
    /\ IF part = "parser" THEN Parser!Init ELSE Parser!Start("Hangup", "jitter", <<>>)
    /\ IF part = "config" THEN Config!Init ELSE Config!Start(Unset, <<>>)

Ended ==
    CASE part = "metrics" -> status # "running"
      [] part = "framing" -> result # "reading"
      [] part = "parser" -> ok # "parsing"
      [] part = "config" -> place \in {"serving", "refused", "crashed"}

AllEnded == Ended /\ UNCHANGED allVars

NextInputs ==
    \/ part = "metrics" /\ Next /\ UNCHANGED <<part, framing, parser, config>>
    \/ part = "framing" /\ Framing!Next /\ UNCHANGED <<vars, part, parser, config>>
    \/ part = "parser" /\ Parser!Next /\ UNCHANGED <<vars, part, framing, config>>
    \/ part = "config" /\ Config!Next /\ UNCHANGED <<vars, part, framing, parser>>
    \/ AllEnded

SpecInputs == InitInputs /\ [][NextInputs]_allVars

-----------------------------------------------------------------------------
\* The variables of every part stay inside their types.
TypeOKInputs ==
    /\ part \in Parts
    /\ TypeOK /\ Framing!TypeOK /\ Parser!TypeOK /\ Config!TypeOK

\* Of ReadMessage, Parse and Load with run, in the modules that model them.
FramesIntact == Framing!FramesIntact
SampleFaithful == Parser!SampleFaithful
StartsAsConfigured == Config!StartsAsConfigured
=============================================================================
