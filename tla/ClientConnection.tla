-------------------------- MODULE ClientConnection --------------------------
(***************************************************************************)
(* The client's side of a connection (DaemonClient): call_raw and          *)
(* subscribe in the callers' tasks, the reader task with handle_line,      *)
(* route_event and close, and the tasks deliver_terminal spawns.  The maps *)
(* of Inner have a lock each; a step ends where one is released.           *)
(***************************************************************************)
EXTENDS EventStream

Goes(c, l) == pc' = [pc EXCEPT ![c] = l]
Returns(c, how) == Goes(c, "done") /\ result' = [result EXCEPT ![c] = how]

IsClosed == closing \in {"flag", "pending", "done"}

-----------------------------------------------------------------------------
(* call_raw. *)

\* connect makes the first call, daemon.hello, and hands the client out when it
\* was answered; a client of another make need not wait.
Begin(c) ==
    /\ pc[c] = "idle"
    /\ closing # "left"
    /\ c \in Eager \/ \E h \in Requests : kind[h] = "hello" /\ result[h] = "ok"
    /\ IF IsClosed THEN Returns(c, "unknown")
       ELSE Goes(c, "insert") /\ UNCHANGED result
    /\ UNCHANGED <<kind, wire, server, events, answer, pending, closing, stream>>

InsertPending(c) ==
    /\ pc[c] = "insert"
    /\ pending' = pending \cup {c}
    /\ Goes(c, "send")
    /\ UNCHANGED <<kind, wire, server, events, answer, result, closing, stream>>

\* The line is written whole; how it arrives is up to the transport.  To a
\* server that is gone it is lost, or found to be.
Send(c) ==
    /\ pc[c] = "send"
    /\ IF ~downEnd
       THEN /\ \E split \in BOOLEAN :
                   /\ split => c \in Split
                   /\ up' = up \o Pieces(c, split)
            /\ Goes(c, "waiting")
            /\ UNCHANGED <<result, pending>>
       ELSE /\ UNCHANGED up
            /\ \/ Goes(c, "waiting") /\ UNCHANGED <<result, pending>>
               \/ Returns(c, "unknown") /\ pending' = pending \ {c}
    /\ UNCHANGED <<kind, upEnd, down, downEnd, server, events, answer, closing,
                   stream>>

\* The answer; of a streaming call, call_streaming goes on to subscribe.
TakeAnswer(c) ==
    /\ pc[c] = "waiting" /\ answer[c] # "none"
    /\ result' = [result EXCEPT ![c] = answer[c]]
    /\ Goes(c, IF c = Streamer /\ answer[c] = "ok" THEN "take" ELSE "done")
    /\ UNCHANGED <<kind, wire, server, events, answer, pending, closing, stream>>

\* Its sender was dropped by close.
TakeClosed(c) ==
    /\ pc[c] = "waiting" /\ answer[c] = "none" /\ c \notin pending
    /\ Returns(c, "unknown")
    /\ UNCHANGED <<kind, wire, server, events, answer, pending, closing, stream>>

TimeOut(c) ==
    /\ pc[c] = "waiting" /\ answer[c] = "none" /\ c \in pending
    /\ pending' = pending \ {c}
    /\ Returns(c, "unknown")
    /\ UNCHANGED <<kind, wire, server, events, answer, closing, stream>>

-----------------------------------------------------------------------------
(* subscribe. *)

Ending(missed) == IF missed > 0 THEN <<Warning, Terminal>> ELSE <<Terminal>>

\* The backlog up to a terminal event goes into the stream's channel as far as
\* it fits.  When it has one, or the connection is closed, nothing is registered.
TakeBacklog(c) ==
    LET live   == CHOOSE k \in 0 .. Len(unclaimed) :
                     /\ k < Len(unclaimed) => unclaimed[k + 1] = Terminal
                     /\ \A i \in 1 .. k : unclaimed[i] # Terminal
        ended  == live < Len(unclaimed)
        fits   == IF live < Buffer THEN live ELSE Buffer
        missed == live - fits
    IN
    /\ pc[c] = "take"
    /\ unclaimed' = << >>
    /\ chan' = SubSeq(unclaimed, 1, fits)
    /\ streaming' = "open"
    /\ delivering' = IF ended THEN Ending(missed) ELSE << >>
    /\ dropped' = missed
    /\ Goes(c, IF ended \/ IsClosed THEN "done" ELSE "register")
    /\ UNCHANGED <<kind, wire, server, events, answer, result, pending, closing,
                   routing, sub, got>>

Register(c) ==
    /\ pc[c] = "register"
    /\ sub' = TRUE
    /\ Goes(c, "done")
    /\ UNCHANGED <<kind, wire, server, events, answer, result, pending, closing,
                   routing, unclaimed, dropped, chan, delivering, got, streaming>>

-----------------------------------------------------------------------------
(* The reader task. *)

Reads == routing = NoReceiver /\ closing = "open" /\ down # << >>

ReadReply ==
    LET m == Head(down) IN
    /\ Reads /\ m.is = "reply"
    /\ down' = Tail(down)
    /\ IF m.req \in pending
       THEN /\ pending' = pending \ {m.req}
            /\ answer' = [answer EXCEPT ![m.req] = m.says]
       ELSE UNCHANGED <<pending, answer>>
    /\ UNCHANGED <<kind, up, upEnd, downEnd, server, events, pc, result, closing,
                   stream>>

\* try_send of each event that has room; the others are counted.
RouteEvent ==
    LET n     == Head(down).no
        warn  == dropped > 0 /\ Len(chan) < Buffer
        held  == IF warn THEN Append(chan, Warning) ELSE chan
        count == IF warn THEN 0 ELSE dropped
        fits  == Len(held) < Buffer
    IN
    /\ Reads /\ Head(down).is = "event"
    /\ down' = Tail(down)
    /\ CASE ~sub ->
              routing' = n /\ UNCHANGED <<sub, dropped, chan, delivering>>
         [] sub /\ n = Terminal ->
              sub' = FALSE /\ delivering' = Ending(dropped)
              /\ UNCHANGED <<routing, dropped, chan>>
         [] OTHER ->
              chan' = (IF fits THEN Append(held, n) ELSE held)
              /\ dropped' = (IF fits THEN count ELSE count + 1)
              /\ UNCHANGED <<routing, sub, delivering>>
    /\ UNCHANGED <<kind, up, upEnd, downEnd, server, events, calls, closing,
                   unclaimed, got, streaming>>

\* No subscription was there: the event is kept, the oldest making room.
Unclaimed ==
    /\ routing # NoReceiver
    /\ unclaimed' = Append(IF Len(unclaimed) >= PendingCap THEN Tail(unclaimed)
                           ELSE unclaimed, routing)
    /\ routing' = NoReceiver
    /\ UNCHANGED <<kind, wire, server, events, calls, closing, sub, dropped, chan,
                   delivering, got, streaming>>

\* close, at the end of file.
CloseStep ==
    /\ \/ /\ closing = "open" /\ routing = NoReceiver
          /\ down = << >> /\ downEnd
          /\ closing' = "flag" /\ UNCHANGED <<pending, sub>>
       \/ /\ closing = "flag"
          /\ closing' = "pending" /\ pending' = {} /\ UNCHANGED sub
       \/ /\ closing = "pending"
          /\ closing' = "done" /\ sub' = FALSE /\ UNCHANGED pending
    /\ UNCHANGED <<kind, wire, server, events, pc, answer, result, routing,
                   unclaimed, dropped, chan, delivering, got, streaming>>

-----------------------------------------------------------------------------
(* deliver_terminal's task, the consumer, and the last handle going away. *)

Deliver ==
    /\ delivering # << >>
    /\ Len(chan) < Buffer
    /\ chan' = Append(chan, Head(delivering))
    /\ delivering' = Tail(delivering)
    /\ UNCHANGED <<kind, wire, server, events, calls, closing, routing, unclaimed,
                   sub, dropped, got, streaming>>

\* EventStream::next.
Consume ==
    /\ streaming = "open"
    /\ \/ /\ chan # << >>
          /\ got' = Append(got, Head(chan)) /\ chan' = Tail(chan)
          /\ UNCHANGED streaming
       \/ /\ chan = << >> /\ delivering = << >>
          /\ ~sub /\ pc[Streamer] # "register"
          /\ streaming' = "ended" /\ UNCHANGED <<got, chan>>
    /\ UNCHANGED <<kind, wire, server, events, calls, closing, routing, unclaimed,
                   sub, dropped, delivering>>

\* Inner::drop: the reader is aborted, the writer ends the client's half.
Leave ==
    /\ closing = "open"
    /\ \A c \in Requests : pc[c] \in {"idle", "done"}
    /\ closing' = "left" /\ upEnd' = TRUE
    /\ sub' = FALSE /\ routing' = NoReceiver
    /\ UNCHANGED <<kind, up, down, downEnd, server, events, calls, unclaimed,
                   dropped, chan, delivering, got, streaming>>

CallerSteps(c) ==
    \/ InsertPending(c) \/ Send(c) \/ TakeAnswer(c) \/ TakeClosed(c)
    \/ TimeOut(c) \/ TakeBacklog(c) \/ Register(c)

ReaderSteps == ReadReply \/ RouteEvent \/ Unclaimed \/ CloseStep
=============================================================================
