------------------------------ MODULE ChatDaemon ------------------------------
(***************************************************************************)
(* What the window sees of the daemon: runs that store rows and emit       *)
(* events, session.get answering from rows and agents it reads one after   *)
(* the other, subscriptions, and the bridge that re-emits their events on  *)
(* a channel of the window (apps/gui/src-tauri/src/bridge.rs).  The runs   *)
(* themselves are AgentRuntime's and AgentTurn's, the connection           *)
(* DaemonConnection's; here a run is what its rows and events show.        *)
(***************************************************************************)
EXTENDS Transcript

NoRun == [session |-> CHOOSE s \in Sessions : TRUE, status |-> "none",
          at |-> "none", step |-> 0, cancelled |-> FALSE]
Places == {"none", "begin", "mentor", "called", "spoken", "tools", "asking",
           "allowed", "denied", "ending", "recorded", "told"}

\* AgentRegistry: the agent is registered until its end is recorded.
Registered(a) == agents[a].at \notin {"none", "recorded", "told"}
RunningOn(s) == {a \in Agents : Registered(a) /\ agents[a].session = s}
Unborn == {a \in Agents : agents[a].at = "none"}
NextAgent == CHOOSE a \in Unborn : \A b \in Unborn : a <= b

\* forward, in the daemon and in the bridge: each subscription of the agent puts
\* its copy of the event on the agent's channel, for who listens there.  How far
\* the window has got is the flush's choice.
Hear(q, c, evs) ==
    [s \in Sessions |-> IF <<c, s>> \in heard THEN q[s] \o evs ELSE q[s]]
Emit(a, t, n, st) ==
    /\ queued' = Hear(queued, stream[a], [i \in 1 .. copies[a] |-> Event(a, t, n, st)])
    /\ UNCHANGED <<wire, listeners, heard>>

Store(a, role) ==
    rows' = [rows EXCEPT ![agents[a].session] = Append(@, Row(role, a, 1))]

-----------------------------------------------------------------------------
(* A run. *)

\* run_agent stores the prompt before it answers: a user turn without an answer
\* grows, and belongs to the new agent from then on.
Started(a, s) ==
    /\ agents' = [agents EXCEPT ![a] =
          [session |-> s, status |-> "running", at |-> "begin", step |-> 0,
           cancelled |-> FALSE]]
    /\ rows' = [rows EXCEPT ![s] =
          IF @ # << >> /\ Last(@).role = "user"
          THEN [@ EXCEPT ![Len(@)] = Row("user", a, @.turns + 1)]
          ELSE Append(@, Row("user", a, 1))]

Goes(a, at) == agents' = [agents EXCEPT ![a].at = at]

\* run_loop: one step, and how the mentor answers it.
StartStep(a) ==
    /\ agents[a].at = "begin" /\ ~agents[a].cancelled
    /\ agents' = [agents EXCEPT ![a].at = "mentor", ![a].step = @ + 1]
    /\ Emit(a, "step", agents[a].step + 1, "none")
    /\ UNCHANGED rows

MentorStreams(a) ==
    /\ agents[a].at = "mentor"
    /\ \/ Emit(a, "part", agents[a].step, "text") /\ Goes(a, "spoken")
       \/ /\ agents[a].step < left.steps
          /\ Emit(a, "part", agents[a].step, "call") /\ Goes(a, "called")
    /\ UNCHANGED rows

Record(a, st) ==
    agents' = [agents EXCEPT ![a].at = "recorded", ![a].status = st]

\* The mentor fails, or is cancelled: the run ends without an answer.
MentorEnds(a) ==
    /\ \/ agents[a].at \in {"begin", "mentor", "called", "spoken"}
          /\ agents[a].cancelled
          /\ Record(a, "cancelled")
       \/ agents[a].at = "mentor" /\ Record(a, "error")
    /\ UNCHANGED <<rows, wire, ears>>

\* record_mentor_response and the assistant's row; a text ends the run.
StoreAnswer(a) ==
    /\ agents[a].at \in {"called", "spoken"}
    /\ Store(a, "assistant")
    /\ Goes(a, IF agents[a].at = "called" THEN "tools" ELSE "ending")
    /\ UNCHANGED <<wire, ears>>

\* run_tools: the step's call, perhaps after a permission request; then the
\* results' row.
Ask(a) ==
    /\ agents[a].at = "tools"
    /\ Spend("asks")
    /\ Goes(a, "asking")
    /\ Emit(a, "request", agents[a].step, "none")
    /\ UNCHANGED rows

Decided(a, st) ==
    /\ Goes(a, st)
    /\ Emit(a, "decision", agents[a].step, st)
    /\ UNCHANGED rows

\* Another client answers, or the time is out.
DecideElsewhere(a) == agents[a].at = "asking" /\ Decided(a, "denied")

StoreResults(a) ==
    /\ agents[a].at \in {"tools", "allowed", "denied"}
    /\ Store(a, "user")
    /\ Emit(a, "result", agents[a].step,
            IF agents[a].at = "denied" THEN "error" ELSE "ok")
    /\ Goes(a, "begin")

\* The end is recorded, the agent leaves the registry, then everyone is told.
RecordEnd(a) ==
    /\ agents[a].at = "ending"
    /\ Record(a, IF agents[a].cancelled THEN "cancelled" ELSE "ok")
    /\ UNCHANGED <<rows, wire, ears>>

\* Faulty: the subscriptions go first.
TellEndUnheard(a) ==
    /\ agents[a].at = "recorded"
    /\ Goes(a, "told")
    /\ stream' = [stream EXCEPT ![a] = NoChannel]
    /\ copies' = [copies EXCEPT ![a] = 0]
    /\ UNCHANGED <<rows, connected, ears>>

\* The terminal event ends the stream; what else was subscribed to it is lost.
TellEnd(a) ==
    /\ agents[a].at = "recorded"
    /\ Goes(a, "told")
    /\ queued' = Hear(queued, stream[a], <<Finished(a, agents[a].status)>>)
    /\ stream' = [stream EXCEPT ![a] = NoChannel]
    /\ copies' = [copies EXCEPT ![a] = 0]
    /\ UNCHANGED <<rows, connected, listeners, heard>>

RunSteps(a) ==
    /\ \/ /\ \/ StartStep(a) \/ MentorStreams(a) \/ MentorEnds(a)
             \/ StoreAnswer(a) \/ StoreResults(a) \/ DecideElsewhere(a)
             \/ RecordEnd(a) \/ TellEnd(a)
          /\ UNCHANGED left
       \/ Ask(a)
    /\ UNCHANGED <<requests, view>>

\* Another client begins a run on a session.
RunElsewhere(s) ==
    /\ Spend("elsewhere")
    /\ Unborn # {} /\ RunningOn(s) = {}
    /\ Started(NextAgent, s)
    /\ UNCHANGED <<wire, requests, view, ears>>

-----------------------------------------------------------------------------
(* Subscriptions and the bridge. *)

\* rpc_stream: the agent's events go to channel c from now on.  A stream that
\* this replaces ends without a terminal event, and forward makes one up.
Attach(a, c) ==
    /\ copies' = [copies EXCEPT ![a] = @ + 1]
    /\ stream' = [stream EXCEPT ![a] = c]
    /\ queued' = Hear(queued, stream[a], <<Finished(a, "error")>>)
    /\ UNCHANGED <<connected, listeners, heard>>

-----------------------------------------------------------------------------
(* Calls. *)

Becomes(r, p) == requests' = (requests \ {r}) \cup {p}

\* What becomes of a request whose page is gone: nothing waits for it.
Answered(r, p) ==
    requests' = (requests \ {r}) \cup
        (IF r.here THEN {[p EXCEPT !.stage = "answered"]} ELSE {})
Refused(r) ==
    requests' = (requests \ {r}) \cup
        (IF r.here THEN {[r EXCEPT !.stage = "failed"]} ELSE {})

ServeRun(r) ==
    /\ r.kind = "run" /\ r.stage = "sent"
    /\ IF RunningOn(r.session) # {}
       THEN Refused(r) /\ UNCHANGED <<daemon, wire, ears>>
       ELSE /\ Unborn # {}
            /\ Started(NextAgent, r.session)
            /\ Attach(NextAgent, r.channel)
            /\ Answered(r, [r EXCEPT !.agent = NextAgent])
    /\ UNCHANGED <<left, view>>

\* agent.subscribe: what the agent emits from now on; of one that has ended,
\* its terminal event.
ServeSubscribe(r) ==
    /\ r.kind = "subscribe" /\ r.stage = "sent"
    /\ IF Registered(r.agent)
       THEN Attach(r.agent, r.channel)
       ELSE /\ queued' = Hear(queued, r.channel,
                             <<Finished(r.agent, agents[r.agent].status)>>)
            /\ UNCHANGED <<wire, listeners, heard>>
    /\ Answered(r, r)
    /\ UNCHANGED <<left, daemon, view>>

ServeCancel(r) ==
    /\ r.kind = "cancel" /\ r.stage = "sent"
    /\ agents' = [agents EXCEPT ![r.agent].cancelled = @ \/ Registered(r.agent)]
    /\ Answered(r, r)
    /\ UNCHANGED <<left, rows, wire, view, ears>>

\* permission.respond: the first answer decides, a later one is not_found.
ServeRespond(r) ==
    /\ r.kind = "respond" /\ r.stage = "sent"
    /\ IF agents[r.agent].at = "asking"
       THEN Decided(r.agent, "allowed")
       ELSE UNCHANGED <<daemon, wire, ears>>
    /\ Answered(r, r)
    /\ UNCHANGED <<left, view>>

\* session.get reads a page of rows: the newest, those before from, or those
\* after it.
PageOf(kind, s, from) ==
    LET all == DOMAIN rows[s]
        match == CASE kind = "newest" -> all
                   [] kind = "older" -> {q \in all : q < from}
                   [] kind = "refresh" -> {q \in all : q > from}
        some == IF kind = "refresh"
                THEN {q \in match : Cardinality({p \in match : p < q}) < Page}
                ELSE {q \in match : Cardinality({p \in match : p > q}) < Page}
    IN  [rows |-> [q \in some |-> rows[s][q]], more |-> some # match,
         statuses |-> << >>]

StatusesOf(s) ==
    LET known == {a \in Agents : agents[a].at # "none" /\ agents[a].session = s}
    IN  [a \in known |-> agents[a].status]

\* The rows of a refresh and the agents are read one right after the other.
ReadPage(r) ==
    /\ r.kind \in {"older", "refresh"} /\ r.stage = "sent"
    /\ Answered(r, [r EXCEPT !.answer =
          [PageOf(r.kind, r.session, r.from) EXCEPT !.statuses = StatusesOf(r.session)]])
    /\ UNCHANGED <<left, daemon, wire, view, ears>>

\* When a session is loaded, a run may go on, or end, between the two.
ReadRows(r) ==
    /\ r.kind = "newest" /\ r.stage = "sent" /\ r.here
    /\ Becomes(r, [r EXCEPT !.stage = "read",
                       !.answer = PageOf(r.kind, r.session, r.from)])
    /\ UNCHANGED <<left, daemon, wire, view, ears>>

ReadAgents(r) ==
    /\ r.stage = "read"
    /\ Answered(r, [r EXCEPT !.answer.statuses = StatusesOf(r.session)])
    /\ UNCHANGED <<left, daemon, wire, view, ears>>

Serve(r) ==
    \/ ServeRun(r) \/ ServeSubscribe(r) \/ ServeCancel(r) \/ ServeRespond(r)
    \/ ReadPage(r) \/ ReadRows(r) \/ ReadAgents(r)

-----------------------------------------------------------------------------
(* The connection is lost, and events on their way with it; each stream    *)
(* without its terminal event ends with one the bridge makes up, each call *)
(* under way fails.  The daemon may have died with it: the next one ends   *)
(* its agents.                                                             *)

Lose ==
    LET streams == SelectSeq(SetToSeq(Agents), LAMBDA a : stream[a] # NoChannel)
        unanswered == {r \in requests : r.stage \in {"sent", "read"}}
    IN  /\ connected /\ connected' = FALSE
        /\ Spend("losses")
        /\ copies' = [a \in Agents |-> 0]
        /\ stream' = [a \in Agents |-> NoChannel]
        /\ \E arrived \in [Sessions -> 0 .. Newest({Len(queued[s]) : s \in Sessions})] :
              LET cut(ev) == IF ev.type = "finished"
                                THEN <<Finished(ev.agent, "error")>> ELSE << >>
                  got == [s \in Sessions |->
                      SubSeq(queued[s], 1, arrived[s])
                         \o FlattenSeq([i \in 1 .. Len(queued[s]) - arrived[s] |->
                                          cut(queued[s][arrived[s] + i])])]
              IN  /\ \A s \in Sessions : arrived[s] <= Len(queued[s])
                  /\ queued' = FoldLeft(
                        LAMBDA q, a : Hear(q, stream[a], <<Finished(a, "error")>>),
                        got, streams)
        /\ requests' = (requests \ unanswered) \cup
              {[r EXCEPT !.stage = "failed", !.answer = NoAnswer] :
                  r \in {q \in unanswered : q.here}}
        /\ \/ UNCHANGED agents
           \/ agents' = [a \in Agents |->
                 IF agents[a].status = "running"
                 THEN [agents[a] EXCEPT !.at = "told", !.status = "error"]
                 ELSE agents[a]]
        /\ sawEnd' = {}
        /\ UNCHANGED <<rows, transcripts, order, chats, pending, listeners, heard>>

\* manage: the backend connects again.
Regain ==
    /\ ~connected /\ connected' = TRUE
    /\ UNCHANGED <<left, daemon, copies, stream, requests, view, ears>>
=============================================================================
