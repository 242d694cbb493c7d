------------------------------ MODULE AmiMessage ------------------------------
(***************************************************************************)
(* Framing (ReadMessage, internal/ami/message.go): messages are runs of    *)
(* lines ended by a blank one, and are read line by line until the stream  *)
(* ends, between messages, within one or within a line, or a read fails.   *)
(* The caller reads on until the first error; AmiClient shows that it      *)
(* reads no more after one.                                                *)
(*                                                                         *)
(* A line is <<>> when blank, <<text>> without a colon, else <<key, value>>*)
(* cut at the first colon.  Line ends and the blanks before a value are    *)
(* left out.                                                               *)
(***************************************************************************)
EXTENDS Integers, Sequences, FiniteSets
Sets == INSTANCE FiniteSetsExt

CONSTANTS
    Keys, Values,
    MaxLines    \* bound: lines before the stream ends

VARIABLES
    wire,       \* the lines the peer sends before the stream ends
    ending,     \* how it ends: "clean", "partial" (in a line) or "failure"
    next,       \* the next line to read
    fields,     \* ReadMessage's msg.fields
    returned,   \* messages returned so far
    result      \* "reading", then what the last ReadMessage returned

vars == <<wire, ending, next, fields, returned, result>>

Lines == {<<>>} \cup {<<v>> : v \in Values} \cup (Keys \X Values)

Start(lines, how) ==
    /\ wire = lines /\ ending = how
    /\ next = 1 /\ fields = <<>> /\ returned = <<>> /\ result = "reading"

Init == \E n \in 0..MaxLines, how \in {"clean", "partial", "failure"} :
            \E lines \in [1..n -> Lines] : Start(lines, how)

-----------------------------------------------------------------------------
HasLine == result = "reading" /\ next <= Len(wire)

\* Free text is kept under a key of its own.
Field(line) == IF Len(line) = 1 THEN <<"Output", line[1]>> ELSE line

FieldLine ==
    /\ HasLine /\ wire[next] # <<>>
    /\ fields' = Append(fields, Field(wire[next]))
    /\ next' = next + 1
    /\ UNCHANGED <<wire, ending, returned, result>>

ReturnsEmpty == TRUE
Complete == fields # <<>>

\* A blank line ends a message, or is skipped between two.
BlankLine ==
    /\ HasLine /\ wire[next] = <<>>
    /\ returned' = IF Complete THEN Append(returned, fields) ELSE returned
    /\ fields' = <<>> /\ next' = next + 1
    /\ UNCHANGED <<wire, ending, result>>

\* The error, and with it what was read of a message.
CutOff == CASE ending = "failure" -> "error"
            [] ending = "clean" /\ fields = <<>> -> "EOF"
            [] OTHER -> "ErrUnexpectedEOF"

StreamEnds ==
    /\ result = "reading" /\ next > Len(wire)
    /\ result' = CutOff
    /\ fields' = <<>>
    /\ UNCHANGED <<wire, ending, next, returned>>

Next == FieldLine \/ BlankLine \/ StreamEnds

-----------------------------------------------------------------------------
(* Properties *)

Fields == Seq((Keys \cup {"Output"}) \X Values)

TypeOK ==
    /\ wire \in Seq(Lines) /\ next \in 1..(Len(wire) + 1)
    /\ fields \in Fields /\ returned \in Seq(Fields)
    /\ result \in {"reading", "EOF", "ErrUnexpectedEOF", "error"}

\* The messages in some lines, said at once: one for each blank line after one
\* that is not, of all the lines since the blank line before.
LastLines(lines) == {i \in 1..(Len(lines) - 1) : lines[i] # <<>> /\ lines[i + 1] = <<>>}
FrameTo(lines, last) ==
    LET begin == Sets!Max({j \in 0..last : j = 0 \/ lines[j] = <<>>}) + 1
    IN  [i \in 1..(last - begin + 1) |-> Field(lines[begin + i - 1])]
Frames(lines, messages) ==
    /\ Len(messages) = Cardinality(LastLines(lines))
    /\ \A last \in LastLines(lines) :
          messages[Cardinality(LastLines(lines) \cap 1..last)] = FrameTo(lines, last)

\* Wherever the stream ends: exactly the messages that were complete have been
\* returned, with all their lines and none of another's, and a clean EOF is
\* reported only if no part of a message is dropped.
FramesIntact ==
    /\ Frames(SubSeq(wire, 1, next - 1), returned)
    /\ result = "EOF" <=> /\ result # "reading" /\ ending = "clean"
                          /\ wire = <<>> \/ wire[Len(wire)] = <<>>
=============================================================================
