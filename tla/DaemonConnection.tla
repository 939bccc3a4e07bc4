-------------------------- MODULE DaemonConnection --------------------------
(***************************************************************************)
(* A client, its connection, the server's side of it and an agent whose    *)
(* events it carries, together.                                            *)
(***************************************************************************)
EXTENDS ClientConnection

\* Every call has returned or was never made, the stream is at its end, and
\* the connection is idle or closed.
Quiescent ==
    /\ \A c \in Requests : pc[c] \in {"idle", "done"}
    /\ streaming # "open" \/ sub
    /\ loop = "closed" \/ (up = << >> /\ ~upEnd /\ ~stop)
    /\ agent \in {"none", "told"}
    /\ UNCHANGED vars

\* What goes on of itself: the runtimes of both processes poll what is ready,
\* an agent ends, a consumer reads its stream.
Proceeds ==
    \/ ServerSteps \/ HandlerSteps \/ EventSteps \/ Ends
    \/ \E c \in Requests : CallerSteps(c)
    \/ ReaderSteps \/ Deliver \/ Consume

\* What nobody has to do: a call, an event, a shutdown, leaving.
Next ==
    \/ Proceeds
    \/ \E c \in Requests : Begin(c)
    \/ Emit \/ Stop \/ Leave
    \/ Quiescent

\* No step can be undone, so no behaviour has infinitely many; that one of
\* them is always taken is the fairness of each.
Fairness == WF_vars(Proceeds)

Spec == Init /\ [][Next]_vars /\ Fairness

-----------------------------------------------------------------------------
(* Properties. *)

Calls == INSTANCE RemoteCall

\* call_raw with dispatch: the two sides together carry out a call at most
\* once and never answer it falsely, whatever is torn, late or cut off.
ImplementsCalls == Calls!Spec

\* dispatch: no handler runs for a client that has not shown the handshake,
\* but daemon.shutdown with its token.
HandshakeFirst ==
    \A r \in ran \cup {q \in Requests : handler[q] # "none"} :
        authed \/ kind[r] = "shutdown"

\* route_event, deliver_terminal, forward: a stream has its events in order
\* and at most one terminal event, as the last.
StreamInOrder ==
    \A i, j \in 1 .. Len(got) :
        i < j /\ got[j] # Warning => got[i] < got[j]

\* deliver_terminal, forward, subscribe: a client that ran the agent has at
\* the end of the stream seen each event, or knows that some were dropped; as
\* long as its backlog is shorter than PendingCap, and but for an event that
\* stayed in it (Stranded has the same cause).
GapsAnnounced ==
    /\ streaming = "ended" /\ Terminal \in ToSet(got)
    /\ kind[Streamer] = "run" /\ emitted < PendingCap /\ unclaimed = << >>
    => Warning \in ToSet(got) \/ 1 .. emitted \subseteq ToSet(got)

\* serve_with_shutdown: a shutdown closes the connection only after every
\* request that was read is answered and the answers are written.
ShutdownAnswers ==
    loop = "closed" /\ ~upEnd =>
        \A r \in Requests :
            handler[r] # "none" =>
                \/ r \notin pending
                \/ \E m \in ToSet(down) : m.is = "reply" /\ m.req = r

\* call_raw: the calls under way return, answered, timed out or failed by the
\* close; none is left waiting on an entry that close has missed.
CallsReturn == []<>(\A c \in Requests : pc[c] \in {"idle", "done"})

\* subscribe and route_event take two locks one after the other; an event or
\* a close between them leaves a subscription nobody will end.
Stranded ==
    sub /\ (Terminal \in ToSet(unclaimed) \/ routing = Terminal
            \/ closing = "done")

\* An open stream comes to its end: by the terminal event, the close or the
\* last handle; but for a stream that was stranded when it was opened.
StreamsEnd == streaming = "open" ~> (streaming = "ended" \/ Stranded)

\* serve_with_shutdown: on a shutdown, or when the client is gone, the
\* connection is closed.
ConnectionCloses == (stop \/ upEnd) ~> loop = "closed"

\* dispatch and serve_with_shutdown: who may call, and what is answered before
\* a close.
AnswersKeep == HandshakeFirst /\ ShutdownAnswers

\* forward, route_event and deliver_terminal: what a stream has told so far.
StreamKeeps == TypeOK /\ StreamInOrder /\ GapsAnnounced

\* Calls, streams and the connection itself come to an end.
EverythingEnds == CallsReturn /\ StreamsEnd /\ ConnectionCloses
=============================================================================
