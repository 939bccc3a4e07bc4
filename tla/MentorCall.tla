----------------------------- MODULE MentorCall -----------------------------
(***************************************************************************)
(* A mentor call: call_mentor of the agent with its waits, around complete *)
(* of the adapter with its own retries, around one streamed attempt and    *)
(* the assembly of what arrives.  The API is external: an attempt is       *)
(* answered with an error or with the events of one of Replies, and the    *)
(* stream may break between any two.                                       *)
(*                                                                         *)
(* A block is [kind, id, pieces, sent]: text, or a tool call whose input   *)
(* is in pieces, of which fewer may be sent when max_tokens cuts it off.   *)
(***************************************************************************)
EXTENDS TurnState

MentorOnly == UNCHANGED <<loop, batch, exec, log, history, proc>>

\* The tool calls of a reply, by their ids.
CallsOf(reply) ==
    LET uses == SelectSeq(reply, LAMBDA b : b.kind = "tool")
    IN [i \in DOMAIN uses |-> uses[i].id]

ASSUME RepliesAssumption == \A reply \in Replies : CallsOf(reply) \in Seq(Calls)

\* The events of a reply's stream.
BlockEvents(b, i) ==
    <<[ev |-> "start", block |-> i]>>
        \o [k \in 1 .. b.sent |-> [ev |-> "delta", block |-> i]]
        \o <<[ev |-> "stop", block |-> i]>>
EventsOf(reply) ==
    FlattenSeq([i \in DOMAIN reply |-> BlockEvents(reply[i], i)])
        \o <<[ev |-> "end", block |-> 0]>>

-----------------------------------------------------------------------------
(* The assembler. *)

\* finish: a tool's input is parsed when its block stops; none at all is {}.
Finishes(b, part) == b.kind = "tool" => part.got \in {0, b.pieces}

Started(asm) == asm.parts # << >>

\* feed, of an event that is well-formed in itself.
Feed(asm, e) ==
    CASE e.ev = "start" ->
            [asm EXCEPT !.parts = Append(@, [got |-> 0, done |-> FALSE])]
      [] e.ev = "delta" -> [asm EXCEPT !.parts[e.block].got = @ + 1]
      [] e.ev = "stop" -> [asm EXCEPT !.parts[e.block].done = TRUE]
      [] OTHER -> [asm EXCEPT !.finished = TRUE]

FeedFails(asm, e, reply) ==
    e.ev = "stop" /\ ~ Finishes(reply[e.block], asm.parts[e.block])

-----------------------------------------------------------------------------
(* call_mentor: what becomes of the adapter's final word. *)

WaitFor(err) ==
    CASE err.kind = "rate_limited" /\ err.after # NoTime -> err.after
      [] err.kind \in {"rate_limited", "overloaded"} /\ err.after = NoTime ->
            DefaultWait
      [] OTHER -> 0

GivesUp(err) ==
    \/ err.kind \notin {"rate_limited", "overloaded", "interrupted"}
    \/ err.kind = "interrupted" /\ call.interrupted
    \/ call.waited + WaitFor(err) > MaxWait

\* The call as it is once complete has returned err.
Returned(err) ==
    IF GivesUp(err) THEN [call EXCEPT !.at = "failed", !.err = err]
    ELSE [call EXCEPT !.at = "note", !.err = err,
                      !.wait = WaitFor(err),
                      !.interrupted = @ \/ err.kind = "interrupted"]

-----------------------------------------------------------------------------
(* complete. *)

IsRetryable(err) ==
    err.kind \in {"rate_limited", "overloaded", "timeout", "disconnected",
                  "network", "server", "stream"}

\* Faulty: a stream that broke is tried again whatever it had shown.
RetriesAll(err) ==
    (IsRetryable(err) \/ err.kind = "interrupted") /\ call.attempt < MaxRetries

Retries(err) == IsRetryable(err) /\ call.attempt < MaxRetries

\* An attempt ended with err.
Attempted(err) ==
    IF Retries(err) THEN [call EXCEPT !.at = "backoff", !.err = err]
    ELSE Returned(err)

\* The API gives each tool call an id of its own.
Fresh(reply) ==
    \A h \in ToSet(history) : ToSet(CallsOf(reply)) \cap ToSet(h.calls) = {}

\* attempt: the request is sent, and answered with a stream or an error.
Answered ==
    /\ call.at = "send"
    /\ \E r \in Replies :
        /\ Fresh(r)
        /\ call' = [call EXCEPT !.at = "stream", !.reply = r, !.pos = 0,
                                !.asm = NewAssembler]
    /\ UNCHANGED <<cancelled, refusals>> /\ MentorOnly

Rejected ==
    /\ call.at = "send"
    /\ Faulty
    /\ \E e \in HttpErrors :
        call' = [Attempted(e) EXCEPT !.faults = @ + 1]
    /\ UNCHANGED <<cancelled, refusals>> /\ MentorOnly

\* The next event arrives; what it says is told at once.  The response is
\* whole when message_stop is in.
Receive ==
    LET e == EventsOf(call.reply)[call.pos + 1]
        next == [call EXCEPT !.pos = @ + 1, !.asm = Feed(@, e)]
    IN
    /\ call.at = "stream"
    /\ call' =
        IF FeedFails(call.asm, e, call.reply) THEN Attempted(Err("protocol"))
        ELSE IF e.ev = "end" THEN [next EXCEPT !.at = "answered"]
        ELSE IF e.ev = "start" /\ ~ Started(call.asm)
        THEN [next EXCEPT !.shown = @ + 1]
        ELSE next
    /\ UNCHANGED <<cancelled, refusals>> /\ MentorOnly

\* The connection breaks, or an error event arrives: before any content it
\* may be tried again, after it is an interruption.
Break ==
    /\ call.at = "stream"
    /\ Faulty
    /\ LET err == Err(IF Started(call.asm) THEN "interrupted" ELSE "disconnected")
       IN call' = [Attempted(err) EXCEPT !.faults = @ + 1]
    /\ UNCHANGED <<cancelled, refusals>> /\ MentorOnly

\* backoff.
BackedOff ==
    /\ call.at = "backoff"
    /\ call' = [call EXCEPT !.at = "send", !.attempt = @ + 1]
    /\ UNCHANGED <<cancelled, refusals>> /\ MentorOnly

\* The selects of attempt and backoff are not biased: with the token
\* cancelled the other branch may still be taken.
CancelAttempt ==
    /\ call.at \in {"send", "stream", "backoff"}
    /\ cancelled
    /\ call' = Returned(Err("cancelled"))
    /\ UNCHANGED <<cancelled, refusals>> /\ MentorOnly

-----------------------------------------------------------------------------
(* call_mentor. *)

\* The request is recorded before it is sent, an error before the wait.
Record(from, next) ==
    /\ call.at = from
    /\ \/ Stored /\ call' = next
       \/ Refused /\ call' = [call EXCEPT !.at = "broken"]
    /\ UNCHANGED cancelled /\ MentorOnly

RecordRequest == Record("request", [call EXCEPT !.at = "send"])

\* The next call of the adapter counts its retries anew.
Again == [call EXCEPT !.at = "send", !.attempt = 0]

\* Without a wait the user is warned that what was shown is discarded.
NoteError ==
    Record("note", IF call.wait = 0 THEN [Again EXCEPT !.warned = @ + 1]
                   ELSE [call EXCEPT !.at = "wait"])

Waited ==
    /\ call.at = "wait"
    /\ ~ cancelled
    /\ call' = [Again EXCEPT !.waited = @ + call.wait]
    /\ UNCHANGED <<cancelled, refusals>> /\ MentorOnly

CancelWait ==
    /\ call.at = "wait"
    /\ cancelled
    /\ call' = [call EXCEPT !.at = "failed", !.err = Err("cancelled")]
    /\ UNCHANGED <<cancelled, refusals>> /\ MentorOnly

MentorSteps ==
    \/ RecordRequest \/ NoteError \/ Waited \/ CancelWait
    \/ Answered \/ Rejected \/ Receive \/ Break \/ BackedOff \/ CancelAttempt
=============================================================================
