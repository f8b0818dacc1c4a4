---------------------------- MODULE ReplyStream -----------------------------
(***************************************************************************)
(* Reading one generated answer: parsePelicanReply of                      *)
(* service/pelican_gateway.go, over the three protocols it speaks.  The    *)
(* answer is a sequence of chunks; the upstream sends them, says why it    *)
(* stopped and closes the stream, and the connection may end before, after *)
(* or in the middle of any event.                                          *)
(***************************************************************************)
EXTENDS Integers, Sequences

CONSTANT Length   \* chunks of the whole answer

ReplyAssumption == Length \in Nat

Whole == [n \in 1..Length |-> n]

VARIABLES
    protocol,   \* "messages", "responses", "chat"
    sent,       \* chunks the upstream has produced
    reason,     \* why it stopped: "", "stop" (end_turn, stop, completed) or "length"
    text, stopped, done, complete,  \* pelicanReply
    verdict     \* "reading", "ok", "failed"

replyVars == <<protocol, sent, reason, text, stopped, done, complete, verdict>>

Init ==
    /\ protocol \in {"messages", "responses", "chat"}
    /\ sent = 0 /\ reason = "" /\ text = <<>>
    /\ stopped = FALSE /\ done = FALSE /\ complete = FALSE
    /\ verdict = "reading"

Reading == verdict = "reading"
Fail == verdict' = "failed"

\* A delta; a gateway of the responses protocol may leave deltas out.
Delta ==
    /\ Reading /\ reason = "" /\ sent < Length
    /\ sent' = sent + 1
    /\ \/ text' = Append(text, sent + 1)
       \/ protocol = "responses" /\ UNCHANGED text
    /\ UNCHANGED <<protocol, reason, stopped, done, complete, verdict>>

\* message_delta with a stop_reason, a choice with a finish_reason: any but the
\* natural ones is a failure.
StopReason ==
    /\ Reading /\ protocol # "responses" /\ reason = ""
    /\ \/ sent = Length /\ reason' = "stop" /\ stopped' = TRUE /\ UNCHANGED verdict
       \/ reason' = "length" /\ Fail /\ UNCHANGED stopped
    /\ UNCHANGED <<protocol, sent, text, done, complete>>

\* message_stop counts only after a good stop_reason.
AnyStop == complete' = TRUE

MessageStop == complete' = stopped

\* [DONE] is looked at when the stream has ended.
DoneSentinel == done' = TRUE /\ UNCHANGED complete

Close ==
    /\ Reading
    /\ \/ protocol = "messages" /\ MessageStop /\ UNCHANGED done
       \/ protocol = "chat" /\ DoneSentinel
    /\ UNCHANGED <<protocol, sent, reason, text, stopped, verdict>>

\* response.completed: its own text, where it has one, replaces what was streamed.
Authoritative(final) == text' = IF final = <<>> THEN text ELSE final

ResponseCompleted ==
    /\ Reading /\ protocol = "responses" /\ reason = ""
    /\ \/ /\ sent = Length /\ reason' = "stop" /\ complete' = TRUE
          /\ \/ Authoritative(Whole)
             \/ text = Whole /\ Authoritative(<<>>)
          /\ UNCHANGED verdict
       \/ reason' = "length" /\ Fail /\ UNCHANGED <<text, complete>>
    /\ UNCHANGED <<protocol, sent, stopped, done>>

\* An error event, an event that is no JSON, an answer past the limit.
BadEvent ==
    /\ Reading /\ Fail
    /\ UNCHANGED <<protocol, sent, reason, text, stopped, done, complete>>

\* The end of the stream, wherever it comes: a torn last event is no JSON.
Ended == IF protocol = "chat" THEN stopped /\ done ELSE complete

EndOfStream ==
    /\ Reading
    /\ complete' = Ended
    /\ verdict' = IF Ended /\ text # <<>> THEN "ok" ELSE "failed"
    /\ UNCHANGED <<protocol, sent, reason, text, stopped, done>>

Next ==
    \/ Delta \/ StopReason \/ Close \/ ResponseCompleted \/ BadEvent \/ EndOfStream

Spec == Init /\ [][Next]_replyVars
-----------------------------------------------------------------------------
\* A stream that was cut short, stopped at the token limit or closed out of order
\* is never taken for a finished answer: what is accepted is the whole text.
AcceptedIsWhole == verdict = "ok" => text = Whole /\ reason = "stop"
=============================================================================
