------------------------------- MODULE Session -------------------------------
(***************************************************************************)
(* What the event stream promises to those who use it: to the aggregator's *)
(* Handle, SetStreamUp and IncReconnects, and to whoever reads the metrics *)
(* they set.  EventStream (internal/ami/eventstream.go) implements it.     *)
(*                                                                         *)
(* An attempt may become a session; sessions end; messages of a session    *)
(* are handled in order, each at most once, and only while it lasts; what  *)
(* is lost is always the rest of a session; nothing unread outlives the    *)
(* session, so that the next attempt starts with nothing of the last.      *)
(***************************************************************************)
EXTENDS Integers, Sequences

CONSTANTS
    Messages,   \* what Asterisk may send
    Events      \* those of them that carry an Event header

VARIABLES
    state,      \* "down", "up", "ending", "over" (Run is back) or "dead"
    trying,     \* an attempt is being made
    reconnects, \* event_stream_reconnects_total
    unread,     \* messages Asterisk sent in this session, not read yet
    handled, ignored, lost

counts == <<handled, ignored, lost>>
vars == <<state, trying, reconnects, unread, counts>>

Init ==
    /\ state = "down" /\ trying = TRUE /\ reconnects = 0 /\ unread = <<>>
    /\ handled = 0 /\ ignored = 0 /\ lost = 0

\* Another attempt: the only thing that counts as a reconnect.
Retry ==
    /\ state = "down" /\ ~trying /\ unread = <<>>
    /\ trying' = TRUE /\ reconnects' = reconnects + 1
    /\ UNCHANGED <<state, unread, counts>>

\* The attempt fails.
GivesUp ==
    /\ state = "down" /\ trying
    /\ trying' = FALSE
    /\ UNCHANGED <<state, reconnects, unread, counts>>

\* It succeeds: event_stream_up is 1.
Connect ==
    /\ state = "down" /\ trying
    /\ state' = "up" /\ trying' = FALSE
    /\ UNCHANGED <<reconnects, unread, counts>>

\* Asterisk sends a message, perhaps before its login reply has been read.
Send(m) ==
    /\ state = "up" \/ (state = "down" /\ trying)
    /\ unread' = Append(unread, m)
    /\ UNCHANGED <<state, trying, reconnects, counts>>

\* The oldest message reaches the handler, or is skipped if it is no event.
Deliver ==
    /\ state = "up" /\ unread # <<>>
    /\ unread' = Tail(unread)
    /\ IF Head(unread) \in Events
         THEN handled' = handled + 1 /\ UNCHANGED ignored
         ELSE ignored' = ignored + 1 /\ UNCHANGED handled
    /\ UNCHANGED <<state, trying, reconnects, lost>>

\* All but the oldest are lost, with the connection or with the session.
Lose(kept) ==
    /\ state \in {"down", "up", "ending"} /\ kept \in 0..Len(unread)
    /\ unread' = SubSeq(unread, 1, kept)
    /\ lost' = lost + (Len(unread) - kept)
    /\ UNCHANGED <<state, trying, reconnects, handled, ignored>>

\* event_stream_up is 0 again ...
Drop ==
    /\ state = "up"
    /\ state' = "ending"
    /\ UNCHANGED <<trying, reconnects, unread, counts>>

\* ... and the session's connection and reader are gone.
Release ==
    /\ state = "ending"
    /\ state' = "down" /\ unread' = <<>> /\ lost' = lost + Len(unread)
    /\ UNCHANGED <<trying, reconnects, handled, ignored>>

\* Run is back: never with a session open.
Stop ==
    /\ state = "down" /\ unread = <<>>
    /\ state' = "over" /\ trying' = FALSE
    /\ UNCHANGED <<reconnects, unread, counts>>

\* The process dies under it.
Die ==
    /\ state \in {"down", "up"}
    /\ state' = "dead" /\ trying' = FALSE
    /\ UNCHANGED <<reconnects, unread, counts>>

Next ==
    \/ Retry \/ GivesUp \/ Connect \/ Deliver \/ Drop \/ Release \/ Stop \/ Die
    \/ \E m \in Messages : Send(m)
    \/ \E kept \in 0..Len(unread) : Lose(kept)

Spec == Init /\ [][Next]_vars
=============================================================================
