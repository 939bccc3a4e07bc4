----------------------------- MODULE EventStream -----------------------------
(***************************************************************************)
(* An agent's events on their way to one connection: the handle and the    *)
(* end of the agent's task (runtime/mod.rs), the handlers of agent.run and *)
(* agent.subscribe, and forward (runtime/rpc.rs).  The agent is a client's *)
(* own (agent.run) or one that runs already (agent.subscribe).             *)
(***************************************************************************)
EXTENDS ServerConnection

-----------------------------------------------------------------------------
(* The agent. *)

Emit ==
    /\ agent = "running"
    /\ emitted < MaxEvents
    /\ emitted' = emitted + 1
    /\ UNCHANGED <<kind, wire, server, agent, receiver, attached, client>>

\* The run is over and recorded: the registry forgets it, then the handle
\* knows the terminal event, then the subscribers are told.
Ends ==
    /\ \/ agent = "running" /\ agent' = "removed"
       \/ agent = "removed" /\ agent' = "finished"
       \/ agent = "finished" /\ agent' = "told"
    /\ UNCHANGED <<kind, wire, server, emitted, receiver, attached, client>>

-----------------------------------------------------------------------------
(* The handlers. *)

\* agent.run: the receiver is made before the agent's task is spawned.
HandleRun(r) ==
    /\ kind[r] = "run"
    /\ handler[r] = "running"
    /\ \/ /\ HandlerGoes(r, "ok")
          /\ agent' = "running" /\ receiver' = 0
       \/ /\ HandlerGoes(r, "error")
          /\ UNCHANGED <<agent, receiver>>
    /\ ran' = ran \cup {r}
    /\ UNCHANGED <<kind, wire, loop, partial, authed, outq, writerUp, stop, emitted,
                   attached, client>>

\* agent.subscribe: the registry has the agent, or the store knows its end.
Find(r) ==
    /\ kind[r] = "subscribe"
    /\ handler[r] = "running"
    /\ IF agent = "running"
       THEN HandlerGoes(r, "found") /\ UNCHANGED attached
       ELSE HandlerGoes(r, "ok") /\ attached' = TRUE
    /\ ran' = ran \cup {r}
    /\ UNCHANGED <<kind, wire, loop, partial, authed, outq, writerUp, stop, agent,
                   emitted, receiver, client>>

\* handle.subscribe: what was sent before is not replayed.
Subscribe(r) ==
    /\ handler[r] = "found"
    /\ HandlerGoes(r, "subscribed")
    /\ receiver' = IF agent = "told" THEN Terminal ELSE emitted
    /\ UNCHANGED <<kind, wire, loop, partial, authed, ran, outq, writerUp, stop,
                   agent, emitted, attached, client>>

\* Faulty: an agent found in the registry is taken to be running.
CheckNothing(r) ==
    /\ handler[r] = "subscribed"
    /\ HandlerGoes(r, "ok")
    /\ UNCHANGED <<kind, wire, loop, partial, authed, ran, outq, writerUp, stop,
                   agent, emitted, receiver, attached, client>>

\* handle.finished_event: an agent that has ended sends nothing more.
CheckFinished(r) ==
    /\ handler[r] = "subscribed"
    /\ HandlerGoes(r, "ok")
    /\ IF agent \in {"finished", "told"}
       THEN attached' = TRUE /\ receiver' = NoReceiver
       ELSE UNCHANGED <<attached, receiver>>
    /\ UNCHANGED <<kind, wire, loop, partial, authed, ran, outq, writerUp, stop,
                   agent, emitted, client>>

\* attach_finished: a task of its own, before or after the reply.
NotifyFinished ==
    /\ attached
    /\ attached' = FALSE
    /\ Post(EventNo(Terminal))
    /\ UNCHANGED <<kind, wire, loop, partial, authed, handler, ran, writerUp, stop,
                   agent, emitted, receiver, client>>

-----------------------------------------------------------------------------
(* forward. *)

Forwarding ==
    /\ receiver # NoReceiver
    /\ handler[Streamer] \notin {"found", "subscribed"}

\* A receiver that fell behind the channel loses the oldest events.
Lags ==
    /\ emitted + (IF agent = "told" THEN 1 ELSE 0) > receiver + Broadcast
    /\ receiver < Terminal

\* Faulty: the lost events are passed over in silence.
ForwardSilent ==
    /\ Forwarding /\ writerUp
    /\ \/ /\ Lags
          /\ receiver' = emitted + (IF agent = "told" THEN 1 ELSE 0) - Broadcast
          /\ UNCHANGED outq
       \/ /\ ~Lags /\ receiver < emitted
          /\ Post(EventNo(receiver + 1))
          /\ receiver' = receiver + 1
       \/ /\ receiver = emitted /\ agent = "told"
          /\ Post(EventNo(Terminal))
          /\ receiver' = NoReceiver
    /\ UNCHANGED <<kind, wire, loop, partial, authed, handler, ran, writerUp, stop,
                   agent, emitted, attached, client>>

\* One event, a warning for the lost ones, or the terminal event, after which
\* it ends; it ends too when the connection is gone or nobody can send.
Forward ==
    /\ Forwarding
    /\ \/ /\ Lags
          /\ Post(EventNo(Warning))
          /\ receiver' = IF ~writerUp THEN NoReceiver
                         ELSE emitted + (IF agent = "told" THEN 1 ELSE 0) - Broadcast
       \/ /\ ~Lags /\ receiver < emitted
          /\ Post(EventNo(receiver + 1))
          /\ receiver' = IF writerUp THEN receiver + 1 ELSE NoReceiver
       \/ /\ receiver = emitted /\ agent = "told"
          /\ Post(EventNo(Terminal))
          /\ receiver' = NoReceiver
       \/ /\ receiver = Terminal
          /\ receiver' = NoReceiver
          /\ UNCHANGED outq
    /\ UNCHANGED <<kind, wire, loop, partial, authed, handler, ran, writerUp, stop,
                   agent, emitted, attached, client>>

HandlerSteps ==
    \E r \in Requests :
        HandlerReturns(r) \/ HandleRun(r) \/ Find(r) \/ Subscribe(r) \/ CheckFinished(r)

EventSteps == NotifyFinished \/ Forward
=============================================================================
