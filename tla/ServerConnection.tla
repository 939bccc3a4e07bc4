-------------------------- MODULE ServerConnection ---------------------------
(***************************************************************************)
(* One connection between a client and the daemon: the byte stream in both *)
(* directions, the server's side of it (crates/api/src/server.rs), the     *)
(* agent whose events it carries (crates/core/src/runtime/rpc.rs) and the  *)
(* client's side (crates/client/src/lib.rs).  The modules                  *)
(* ServerConnection, EventStream and ClientConnection are their steps;     *)
(* DaemonConnection composes them.                                         *)
(*                                                                         *)
(* The server's side of a connection: Router::serve_with_shutdown with     *)
(* read_frame, handle_line and dispatch, and the writer task.  The select! *)
(* of the loop drops the future of read_frame whenever another branch is   *)
(* taken; with it goes what it had read of an incomplete line.             *)
(***************************************************************************)
EXTENDS Naturals, Sequences, FiniteSets, SequencesExt

CONSTANTS
    Requests,      \* the calls a client makes; a call is its request
    Streamer,      \* the one of them that opens the agent's event stream
    Askings,       \* what they ask for: functions from Requests to Kinds
    Split,         \* requests whose line may arrive in two pieces
    Eager,         \* requests that do not wait for the handshake's answer
    NoRequest,
    MaxEvents,     \* events of the agent before its last
    OutCapacity,   \* the connection's outgoing queue (4096)
    Broadcast,     \* the agent's broadcast channel
    Buffer,        \* the client's buffer of a stream (event_buffer)
    PendingCap     \* unclaimed events the client holds (PENDING_EVENT_CAP)

Kinds == {"hello", "plain", "run", "subscribe", "shutdown", "unknown", "long"}

ASSUME RequestsAssumption ==
    /\ Streamer \in Requests /\ NoRequest \notin Requests
    /\ Askings \subseteq [Requests -> Kinds]
    /\ \A k \in Askings : \A r \in Requests :
          r = Streamer <=> k[r] \in {"run", "subscribe"}
    /\ Split \subseteq Requests /\ Eager \subseteq Requests
ASSUME BoundsAssumption ==
    /\ MaxEvents \in Nat
    /\ {OutCapacity, Broadcast, Buffer, PendingCap} \subseteq Nat \ {0}

VARIABLES
    kind,        \* what each request asks for
    up,          \* pieces of lines on their way to the server
    upEnd,       \* the client has closed its end
    down,        \* messages on their way to the client
    downEnd,     \* the server has closed its end
    loop,        \* serve_with_shutdown: where its loop is
    partial,     \* read_frame's buffer: the request whose line has begun
    authed,      \* Connection::authenticated
    handler,     \* the task of each request
    ran,         \* history: requests whose handler ran
    outq,        \* Connection::outgoing
    writerUp,    \* the writer task holds the queue's receiver
    stop,        \* the daemon's shutdown token
    agent,       \* where the agent's task is
    emitted,     \* events it has broadcast
    receiver,    \* what the streamer's receiver has seen, or NoReceiver
    attached,    \* attach_finished has still to send the terminal event
    pc,          \* where each call of the client is
    answer,      \* the oneshot of each call
    result,      \* how each call returned
    pending,     \* Inner::pending
    closing,     \* Inner::close: how far it is
    routing,     \* an event the reader found no subscription for
    unclaimed,   \* Inner::unclaimed
    sub,         \* Inner::subs has the subscription
    dropped,     \* Subscription::dropped
    chan,        \* the stream's channel
    delivering,  \* what the task of deliver_terminal has still to send
    got,         \* what the consumer has read from the stream
    streaming    \* the stream: not opened, open, or at its end

wire   == <<up, upEnd, down, downEnd>>
server == <<loop, partial, authed, handler, ran, outq, writerUp, stop>>
events == <<agent, emitted, receiver, attached>>
calls  == <<pc, answer, result, pending>>
stream == <<routing, unclaimed, sub, dropped, chan, delivering, got, streaming>>
client == <<calls, closing, stream>>
vars   == <<kind, wire, server, events, client>>

NoReceiver == MaxEvents + 2
Terminal   == MaxEvents + 1       \* agent.finished
Warning    == 0                   \* events were dropped
Says       == {"ok", "error", "refused"}

ReplyTo(r, says) == [is |-> "reply", req |-> r, says |-> says]
EventNo(n)       == [is |-> "event", no |-> n]
Messages == [is : {"reply"}, req : Requests \cup {NoRequest}, says : Says]
            \cup [is : {"event"}, no : Warning .. Terminal]

\* One line, whole or in pieces.
Pieces(r, split) ==
    IF split THEN <<[req |-> r, part |-> "head"], [req |-> r, part |-> "tail"]>>
    ELSE <<[req |-> r, part |-> "whole"]>>

TypeOK ==
    /\ kind \in [Requests -> Kinds]
    /\ up \in Seq([req : Requests, part : {"whole", "head", "tail"}])
    /\ down \in Seq(Messages) /\ outq \in Seq(Messages)
    /\ {upEnd, downEnd, authed, writerUp, stop, attached} \subseteq BOOLEAN
    /\ loop \in {"reading", "draining", "closing", "closed"}
    /\ partial \in Requests \cup {NoRequest}
    /\ handler \in [Requests -> {"none", "running", "found", "subscribed", "ok",
                                 "error", "finished", "ended"}]
    /\ ran \subseteq Requests /\ pending \subseteq Requests
    /\ agent \in {"none", "running", "removed", "finished", "told"}
    /\ emitted \in 0 .. MaxEvents
    /\ receiver \in 0 .. NoReceiver
    /\ pc \in [Requests -> {"idle", "insert", "send", "waiting", "take", "register",
                            "done"}]
    /\ answer \in [Requests -> Says \cup {"none"}]
    /\ result \in [Requests -> Says \cup {"none", "unknown"}]
    /\ closing \in {"open", "flag", "pending", "done", "left"}
    /\ routing \in 0 .. NoReceiver /\ sub \in BOOLEAN
    /\ {unclaimed, chan, delivering, got} \subseteq Seq(Warning .. Terminal)
    /\ Len(unclaimed) <= PendingCap /\ Len(chan) <= Buffer
    /\ dropped \in 0 .. MaxEvents + 1
    /\ streaming \in {"no", "open", "ended"}

Init ==
    /\ kind \in Askings
    /\ up = << >> /\ upEnd = FALSE /\ down = << >> /\ downEnd = FALSE
    /\ loop = "reading" /\ partial = NoRequest /\ authed = FALSE
    /\ handler = [r \in Requests |-> "none"] /\ ran = {}
    /\ outq = << >> /\ writerUp = TRUE /\ stop = FALSE
    /\ agent = IF kind[Streamer] = "run" THEN "none" ELSE "running"
    /\ emitted = 0 /\ receiver = NoReceiver /\ attached = FALSE
    /\ pc = [r \in Requests |-> "idle"]
    /\ answer = [r \in Requests |-> "none"] /\ result = [r \in Requests |-> "none"]
    /\ pending = {} /\ closing = "open"
    /\ routing = NoReceiver /\ unclaimed = << >> /\ sub = FALSE /\ dropped = 0
    /\ chan = << >> /\ delivering = << >> /\ got = << >> /\ streaming = "no"

-----------------------------------------------------------------------------
HandlerGoes(r, l) == handler' = [handler EXCEPT ![r] = l]

\* A send on the outgoing queue: it waits for room, and fails without effect
\* once the writer task is gone.
Post(m) ==
    IF writerUp THEN Len(outq) < OutCapacity /\ outq' = Append(outq, m)
    ELSE UNCHANGED outq

-----------------------------------------------------------------------------
(* read_frame. *)

\* More of a line than before, but not its end.
ReadHead ==
    /\ loop = "reading"
    /\ up # << >> /\ Head(up).part = "head"
    /\ partial' = Head(up).req
    /\ up' = Tail(up)
    /\ UNCHANGED <<kind, upEnd, down, downEnd, loop, authed, handler, ran, outq,
                   writerUp, stop, events, client>>

LineEnds(r) ==
    /\ loop = "reading"
    /\ up # << >> /\ Head(up).req = r
    /\ Head(up).part = "whole" \/ (Head(up).part = "tail" /\ partial = r)
    /\ up' = Tail(up)
    /\ partial' = NoRequest

\* A line whose head was dropped does not parse, and says no id to answer;
\* a line over the limit is not parsed.
ReadUnparsed ==
    /\ \/ /\ loop = "reading"
          /\ up # << >> /\ Head(up).part = "tail" /\ partial # Head(up).req
          /\ up' = Tail(up)
          /\ UNCHANGED partial
       \/ \E r \in Requests : kind[r] = "long" /\ LineEnds(r)
    /\ Post(ReplyTo(NoRequest, "refused"))
    /\ UNCHANGED <<kind, upEnd, down, downEnd, loop, authed, handler, ran,
                   writerUp, stop, events, client>>

\* End of file: what is there of a line is one, then the loop ends; the tasks
\* that answer are aborted, the handlers they wait for are not.
ReadEof ==
    /\ loop = "reading"
    /\ up = << >> /\ upEnd
    /\ IF partial # NoRequest
       THEN /\ Post(ReplyTo(NoRequest, "refused"))
            /\ partial' = NoRequest
            /\ UNCHANGED loop
       ELSE loop' = "closing" /\ UNCHANGED <<partial, outq>>
    /\ UNCHANGED <<kind, wire, authed, handler, ran, writerUp, stop, events,
                   client>>

-----------------------------------------------------------------------------
(* dispatch. *)

\* Faulty: the answer goes out before the handler is done.
DispatchAnswering(r) ==
    /\ kind[r] \notin {"hello", "long", "unknown"}
    /\ authed
    /\ LineEnds(r)
    /\ HandlerGoes(r, "running")
    /\ Post(ReplyTo(r, "ok"))
    /\ UNCHANGED <<kind, upEnd, down, downEnd, loop, authed, ran, writerUp, stop,
                   events, client>>

\* daemon.hello is answered by the loop itself: welcome, or another version
\* or token.
Hello(r) ==
    /\ kind[r] = "hello"
    /\ LineEnds(r)
    /\ \/ authed' = TRUE /\ Post(ReplyTo(r, "ok")) /\ ran' = ran \cup {r}
       \/ Post(ReplyTo(r, "refused")) /\ UNCHANGED <<authed, ran>>
    /\ UNCHANGED <<kind, upEnd, down, downEnd, loop, handler, writerUp, stop,
                   events, client>>

\* daemon.shutdown with the daemon's token needs no handshake.
Admitted(r) == authed \/ kind[r] = "shutdown"

Refuse(r) ==
    /\ kind[r] \notin {"hello", "long"}
    /\ ~Admitted(r) \/ kind[r] = "unknown"
    /\ LineEnds(r)
    /\ Post(ReplyTo(r, "refused"))
    /\ UNCHANGED <<kind, upEnd, down, downEnd, loop, authed, handler, ran,
                   writerUp, stop, events, client>>

\* Any other method has a task of its own.
Dispatch(r) ==
    /\ kind[r] \notin {"hello", "long", "unknown"}
    /\ Admitted(r)
    /\ LineEnds(r)
    /\ HandlerGoes(r, "running")
    /\ UNCHANGED <<kind, upEnd, down, downEnd, loop, authed, ran, outq, writerUp,
                   stop, events, client>>

\* A handler that neither starts nor follows an agent; it may fail or panic.
HandlerReturns(r) ==
    /\ kind[r] \in {"plain", "shutdown"}
    /\ handler[r] = "running"
    /\ \E says \in {"ok", "error"} : HandlerGoes(r, says)
    /\ stop' = (stop \/ kind[r] = "shutdown")
    /\ ran' = ran \cup {r}
    /\ UNCHANGED <<kind, wire, loop, partial, authed, outq, writerUp, events,
                   client>>

\* The task answers; after the loop has ended on end of file it was aborted.
Respond(r) ==
    /\ handler[r] \in {"ok", "error"}
    /\ IF loop = "closing"
       THEN HandlerGoes(r, "ended") /\ UNCHANGED outq
       ELSE HandlerGoes(r, "finished") /\ Post(ReplyTo(r, handler[r]))
    /\ UNCHANGED <<kind, wire, loop, partial, authed, ran, writerUp, stop, events,
                   client>>

\* tasks.join_next wins the select!: the future of read_frame is dropped.
Join(r) ==
    /\ handler[r] = "finished"
    /\ loop \in {"reading", "draining"}
    /\ HandlerGoes(r, "ended")
    /\ partial' = NoRequest
    /\ UNCHANGED <<kind, wire, loop, authed, ran, outq, writerUp, stop, events,
                   client>>

-----------------------------------------------------------------------------
(* The end of a connection. *)

\* Some other client, a signal or the idle timer stops the daemon.  (Bound:
\* not in a behaviour where this client may do so.)
Stop ==
    /\ ~stop
    /\ \A r \in Requests : kind[r] # "shutdown"
    /\ stop' = TRUE
    /\ UNCHANGED <<kind, wire, loop, partial, authed, handler, ran, outq, writerUp,
                   events, client>>

SeeShutdown ==
    /\ loop = "reading"
    /\ stop
    /\ loop' = "draining"
    /\ partial' = NoRequest
    /\ UNCHANGED <<kind, wire, authed, handler, ran, outq, writerUp, stop, events,
                   client>>

\* Faulty: the connection is closed with tasks still at work.
DrainedAtOnce ==
    /\ loop = "draining"
    /\ loop' = "closing"
    /\ UNCHANGED <<kind, wire, partial, authed, handler, ran, outq, writerUp, stop,
                   events, client>>

\* Every task has been joined.
Drained ==
    /\ loop = "draining"
    /\ \A r \in Requests : handler[r] \in {"none", "ended"}
    /\ loop' = "closing"
    /\ UNCHANGED <<kind, wire, partial, authed, handler, ran, outq, writerUp, stop,
                   events, client>>

\* The writer task: the next message goes out, or the client is gone and so
\* is the queue.
WriteOut ==
    /\ writerUp /\ outq # << >>
    /\ IF upEnd
       THEN writerUp' = FALSE /\ outq' = << >> /\ UNCHANGED down
       ELSE outq' = Tail(outq) /\ down' = Append(down, Head(outq)) /\ UNCHANGED writerUp
    /\ UNCHANGED <<kind, up, upEnd, downEnd, loop, partial, authed, handler, ran,
                   stop, events, client>>

\* The writer task ends when nobody holds the connection any more: the loop,
\* a handler, a forwarder.
Held ==
    \/ \E r \in Requests : handler[r] \notin {"none", "finished", "ended"}
    \/ receiver # NoReceiver
    \/ attached

Close ==
    /\ loop = "closing"
    /\ ~Held
    /\ writerUp => outq = << >>
    /\ loop' = "closed"
    /\ downEnd' = TRUE
    /\ writerUp' = FALSE
    /\ UNCHANGED <<kind, up, upEnd, down, partial, authed, handler, ran, outq, stop,
                   events, client>>

ServerSteps ==
    \/ ReadHead \/ ReadUnparsed \/ ReadEof
    \/ \E r \in Requests :
          \/ Hello(r) \/ Refuse(r) \/ Dispatch(r)
          \/ Respond(r) \/ Join(r)
    \/ SeeShutdown \/ Drained \/ WriteOut \/ Close
=============================================================================
