---------------------------- MODULE AgentRuntime ----------------------------
(***************************************************************************)
(* The agent runtime around one session: agent.run from the request to its *)
(* terminal event, the requests that change the session meanwhile, and the *)
(* daemon's end and start.  Translated from crates/core/src/runtime        *)
(* (mod.rs, agent.rs) and crates/core/src/trace (store.rs, sessions.rs).   *)
(*                                                                         *)
(* One session is modelled: conversations, rows and the busy check are all *)
(* keyed by session, so sessions share nothing that this module modifies.  *)
(* An agent is identified with the agent.run call that creates it.         *)
(*                                                                         *)
(* An action is the code from one suspension point to the next: a change   *)
(* of the locked conversation and the awaited write that mirrors it are    *)
(* one step when nothing can look at the conversation between the two (a   *)
(* crash between them loses the memory and has written nothing).           *)
(***************************************************************************)
EXTENDS Integers, Sequences, FiniteSets

CONSTANTS
    Agents,          \* the agent.run calls clients may make
    NoAgent,         \* no conversation, no lock holder
    ToolSets,        \* the tool sets the configuration may enable
    NoTools,         \* the session's prefix is not recorded yet
    NOTE,            \* TOOLS_CHANGED_NOTE
    CONTINUE,        \* CONTINUE_MESSAGE
    MaxIterations,   \* runtime.max_iterations
    Replies,         \* the mentor's replies, [stop, calls]
    SerialClients,   \* clients send one request at a time for the session
    Mutations,       \* the session mutations clients ask for
    MaxFailures,     \* bound: writes the store refuses
    MaxCrashes       \* bound: times the daemon dies

\* The stop reasons the loop tells apart; end_turn stands for stop_sequence
\* and unknown reasons too.
StopReasons == {"tool_use", "max_tokens", "refusal", "pause_turn",
                "context_window", "end_turn"}

Reply == [stop : StopReasons, calls : BOOLEAN]

ASSUME AgentsAssumption == NoAgent \notin Agents
ASSUME ToolSetsAssumption == NoTools \notin ToolSets
ASSUME IterationsAssumption == MaxIterations \in Nat \ {0}
ASSUME BoundsAssumption == MaxFailures \in Nat /\ MaxCrashes \in Nat
ASSUME ClientsAssumption ==
    SerialClients \in BOOLEAN /\ Mutations \subseteq {"archive", "delete"}

\* A turn that stops for its tool calls has some; a server-side tool loop
\* (pause_turn) leaves none for the client.
ASSUME RepliesAssumption ==
    /\ Replies \subseteq Reply
    /\ \A r \in Replies :
          /\ r.stop = "tool_use" => r.calls
          /\ r.stop = "pause_turn" => ~r.calls

INSTANCE Conversation WITH Texts <- Agents \cup {NOTE, CONTINUE}

VARIABLES
  (* the trace store *)
    session,         \* the session's status; "purged" when the row is gone
    rows,            \* its session_messages
    prefix,          \* sessions.tools_hash
    agentRow,        \* agents.status, "none" without a row
    openSteps,       \* the agents with a step still running
    openCalls,       \* the agents with a mentor call still running
    finishedEvents,  \* how many agent.finished events each agent has
  (* the daemon *)
    daemon,          \* "up", "stopping", "down" or "recovering"
    registry,        \* AgentRegistry::agents
    loaded,          \* AgentRegistry::conversations: whose copy is held
    conv,            \* the copy each agent.run loaded, while alive
    lock,            \* who holds the tokio mutex of each copy
    cancelled,       \* the agents whose token is cancelled
    stalled,         \* the agents the watchdog gave up on
  (* the requests and tasks *)
    pc,              \* where each agent.run and its task are
    mine,            \* the conversation copy each one works on
    iter,            \* mentor calls started by the loop
    continued,       \* the agents that asked the mentor to go on once
    next,            \* what follows the step, or how the run ends
    told,            \* the agents whose terminal event was emitted
    admin,           \* the session.archive or session.delete under way
  (* the bounds *)
    failures, crashes

store   == <<session, rows, prefix, agentRow, openSteps, openCalls, finishedEvents>>
memory  == <<registry, loaded, conv, lock, cancelled, stalled>>
tasks   == <<pc, mine, iter, continued, next, told>>
bounds  == <<failures, crashes>>
vars    == <<store, daemon, memory, tasks, admin, bounds>>

SessionStatus == {"open", "archived", "deleted", "purged"}
Terminal      == {"ok", "error", "cancelled"}

\* Before the agent exists for anyone else; between its task's first and
\* last access to the conversation; after both.
RequestPcs == {"load", "repair", "insert", "start", "register", "turn"}
LoopPcs    == {"loop", "request", "mentor", "tools", "close", "continue", "end"}
TaskPcs    == {"spawned", "setup", "finish", "release", "tell"} \cup LoopPcs
EndedPcs   == {"done", "rejected", "gone"}
Pcs        == {"idle"} \cup RequestPcs \cup TaskPcs \cup EndedPcs

TypeOK ==
    /\ session \in SessionStatus
    /\ rows \in Table
    /\ prefix \in ToolSets \cup {NoTools}
    /\ agentRow \in [Agents -> Terminal \cup {"none", "running"}]
    /\ openSteps \subseteq Agents
    /\ openCalls \subseteq Agents
    /\ finishedEvents \in [Agents -> Nat]
    /\ daemon \in {"up", "stopping", "down", "recovering"}
    /\ registry \subseteq Agents
    /\ loaded \in Agents \cup {NoAgent}
    /\ conv \in [Agents -> History]
    /\ lock \in [Agents -> Agents \cup {NoAgent}]
    /\ cancelled \subseteq Agents
    /\ stalled \subseteq Agents
    /\ pc \in [Agents -> Pcs]
    /\ mine \in [Agents -> Agents \cup {NoAgent}]
    /\ iter \in [Agents -> 0 .. MaxIterations]
    /\ continued \subseteq Agents
    /\ next \in [Agents -> Terminal \cup {"loop", "continue"}]
    /\ told \subseteq Agents
    /\ admin \in {"idle", "archive", "unarchive", "forget", "delete"}
    /\ failures \in 0 .. MaxFailures
    /\ crashes \in 0 .. MaxCrashes

-----------------------------------------------------------------------------
(* Every write is one command of the store's writer thread, and the caller *)
(* awaits it.  It is refused when the session row is gone, or when the     *)
(* database cannot take it (disk full, I/O error: at most MaxFailures).    *)

Committed == session # "purged" /\ UNCHANGED failures

Refused ==
    \/ session = "purged" /\ UNCHANGED failures
    \/ /\ session # "purged"
       /\ failures < MaxFailures
       /\ failures' = failures + 1

Conversing(a) == conv[mine[a]]
Goto(a, l)    == pc' = [pc EXCEPT ![a] = l]

\* The run ends with n; EndRun does what is left.
Stop(a, n) == Goto(a, "end") /\ next' = [next EXCEPT ![a] = n]

\* The conversation a works on becomes h.
SetConversing(a, h) == conv' = [conv EXCEPT ![mine[a]] = h]

\* Is an agent of the session in the registry (AgentRegistry::running_on)?
Busy == registry # {}

\* A request on the session that has not been answered yet.
RequestOpen == admin # "idle" \/ \E a \in Agents : pc[a] \in RequestPcs

-----------------------------------------------------------------------------
(* Faulty variants of actions: what a plausible mistake in the code would  *)
(* make of them.  Nothing below uses them; one of them in the place of the *)
(* action it is a variant of breaks a property, which shows that the       *)
(* property depends on what the code does there.                           *)

\* LoadRepair: the turn is dropped in memory but stays in the store.
LoadRepairInMemory(a) ==
    /\ pc[a] = "repair"
    /\ Committed
    /\ Goto(a, "insert")
    /\ UNCHANGED <<store, daemon, memory, mine, iter, continued, next, told,
                   admin, crashes>>

\* BeginStep: one mentor call too many.
BeginStepOnceMore(a) ==
    /\ pc[a] = "loop"
    /\ a \notin cancelled
    /\ iter[a] <= MaxIterations
    /\ iter' = [iter EXCEPT ![a] = @ + 1]
    /\ Committed
    /\ openSteps' = openSteps \cup {a}
    /\ Goto(a, "request")
    /\ UNCHANGED <<session, rows, prefix, agentRow, openCalls, finishedEvents,
                   daemon, memory, mine, continued, next, told, admin, crashes>>

\* MentorFails: the step is left running.
MentorFailsInStep(a) ==
    /\ pc[a] = "mentor"
    /\ Committed
    /\ openCalls' = openCalls \ {a}
    /\ Stop(a, "error")
    /\ UNCHANGED <<session, rows, prefix, agentRow, openSteps, finishedEvents,
                   daemon, memory, mine, iter, continued, told, admin, crashes>>

\* EndRun: the tool calls without results stay in memory.
EndRunUnrepaired(a) ==
    /\ pc[a] = "end"
    /\ next' = [next EXCEPT ![a] = IF a \in stalled THEN "error" ELSE @]
    /\ Goto(a, "finish")
    /\ UNCHANGED <<store, daemon, memory, mine, iter, continued, told, admin,
                   bounds>>

\* Release: the conversation stays locked.
ReleaseLocked(a) ==
    /\ pc[a] = "release"
    /\ registry' = registry \ {a}
    /\ Goto(a, "tell")
    /\ UNCHANGED <<store, daemon, loaded, conv, lock, cancelled, stalled, mine,
                   iter, continued, next, told, admin, bounds>>

\* Recover: agents that had ended are ended again.
RecoverAll(a) ==
    /\ daemon = "recovering"
    /\ agentRow[a] # "none"
    /\ finishedEvents[a] < 2
    /\ agentRow' = [agentRow EXCEPT ![a] = "error"]
    /\ openSteps' = openSteps \ {a}
    /\ openCalls' = openCalls \ {a}
    /\ finishedEvents' = [finishedEvents EXCEPT ![a] = @ + 1]
    /\ UNCHANGED <<session, rows, prefix, daemon, memory, tasks, admin, bounds>>

-----------------------------------------------------------------------------
(* The system. *)

Init ==
    /\ session = "open"
    /\ rows = << >>
    /\ prefix = NoTools
    /\ agentRow = [a \in Agents |-> "none"]
    /\ openSteps = {}
    /\ openCalls = {}
    /\ finishedEvents = [a \in Agents |-> 0]
    /\ daemon = "up"
    /\ registry = {}
    /\ loaded = NoAgent
    /\ conv = [a \in Agents |-> << >>]
    /\ lock = [a \in Agents |-> NoAgent]
    /\ cancelled = {}
    /\ stalled = {}
    /\ pc = [a \in Agents |-> "idle"]
    /\ mine = [a \in Agents |-> NoAgent]
    /\ iter = [a \in Agents |-> 0]
    /\ continued = {}
    /\ next = [a \in Agents |-> "loop"]
    /\ told = {}
    /\ admin = "idle"
    /\ failures = 0
    /\ crashes = 0

-----------------------------------------------------------------------------
(* The agent.run request (run_agent_with, load_conversation).              *)

\* The session exists, is not deleted and no agent is registered on it; a
\* request that fails here is answered with an error and changes nothing.
Request(a) ==
    /\ daemon = "up"
    /\ pc[a] = "idle"
    /\ session \in {"open", "archived"}
    /\ ~Busy
    /\ SerialClients => ~RequestOpen
    /\ Goto(a, "load")
    /\ UNCHANGED <<store, daemon, memory, mine, iter, continued, next, told,
                   admin, bounds>>

\* load_conversation, when the daemon holds the session's conversation.
LoadHeld(a) ==
    /\ pc[a] = "load"
    /\ loaded # NoAgent
    /\ mine' = [mine EXCEPT ![a] = loaded]
    /\ Goto(a, "start")
    /\ UNCHANGED <<store, daemon, memory, iter, continued, next, told, admin,
                   bounds>>

\* load_conversation, from the store: the rows as they are now.
LoadRows(a) ==
    /\ pc[a] = "load"
    /\ loaded = NoAgent
    /\ session # "purged"
    /\ conv' = [conv EXCEPT ![a] = Repair(Stored(rows))]
    /\ Goto(a, IF PendingToolUses(Stored(rows)) THEN "repair" ELSE "insert")
    /\ UNCHANGED <<store, daemon, registry, loaded, lock, cancelled, stalled,
                   mine, iter, continued, next, told, admin, bounds>>

LoadGone(a) ==
    /\ pc[a] = "load"
    /\ loaded = NoAgent
    /\ session = "purged"
    /\ Goto(a, "rejected")
    /\ UNCHANGED <<store, daemon, memory, mine, iter, continued, next, told,
                   admin, bounds>>

\* The dropped turn leaves the store too, then session.repaired is appended:
\* one command of two transactions, of which a refused one may be the second.
LoadRepair(a) ==
    /\ pc[a] = "repair"
    /\ \/ /\ Committed
          /\ rows' = TruncateMessages(rows, Len(conv[a]))
          /\ Goto(a, "insert")
       \/ /\ Refused
          /\ rows' \in {rows, TruncateMessages(rows, Len(conv[a]))}
          /\ session = "purged" => rows' = rows
          /\ Goto(a, "rejected")
    /\ UNCHANGED <<session, prefix, agentRow, openSteps, openCalls,
                   finishedEvents, daemon, memory, mine, iter, continued, next,
                   told, admin, crashes>>

\* A history the API would reject is refused; when another request brought
\* the conversation in first, that copy is used.
LoadInsert(a) ==
    /\ pc[a] = "insert"
    /\ IF Validate(conv[a])
       THEN /\ loaded' = IF loaded = NoAgent THEN a ELSE loaded
            /\ mine' = [mine EXCEPT ![a] = loaded']
            /\ Goto(a, "start")
       ELSE /\ Goto(a, "rejected")
            /\ UNCHANGED <<loaded, mine>>
    /\ UNCHANGED <<store, daemon, registry, conv, lock, cancelled, stalled,
                   iter, continued, next, told, admin, bounds>>

\* start_agent: the row and its agent.started.
StartAgent(a) ==
    /\ pc[a] = "start"
    /\ \/ /\ Committed
          /\ agentRow' = [agentRow EXCEPT ![a] = "running"]
          /\ Goto(a, "register")
       \/ /\ Refused
          /\ Goto(a, "rejected")
          /\ UNCHANGED agentRow
    /\ UNCHANGED <<session, rows, prefix, openSteps, openCalls, finishedEvents,
                   daemon, memory, mine, iter, continued, next, told, admin,
                   crashes>>

\* From here on a second agent.run on the session is a conflict.  The token
\* is a child of the daemon's shutdown token.
Register(a) ==
    /\ pc[a] = "register"
    /\ registry' = registry \cup {a}
    /\ cancelled' = IF daemon = "stopping" THEN cancelled \cup {a} ELSE cancelled
    /\ Goto(a, "turn")
    /\ UNCHANGED <<store, daemon, loaded, conv, lock, stalled, mine, iter,
                   continued, next, told, admin, bounds>>

\* The prompt joins the conversation, under its lock, and its row and
\* user.message are stored; the task is spawned.  When they cannot be stored
\* the agent leaves the registry and agent.run answers with the error.
RecordUserTurn(a) ==
    LET h == PushUserText(Conversing(a), a) IN
    /\ pc[a] = "turn"
    /\ lock[mine[a]] = NoAgent
    /\ SetConversing(a, h)
    /\ \/ /\ Committed
          /\ rows' = PutLast(rows, h)
          /\ Goto(a, "spawned")
          /\ UNCHANGED registry
       \/ /\ Refused
          /\ registry' = registry \ {a}
          /\ Goto(a, "rejected")
          /\ UNCHANGED rows
    /\ UNCHANGED <<session, prefix, agentRow, openSteps, openCalls,
                   finishedEvents, daemon, loaded, lock, cancelled, stalled,
                   mine, iter, continued, next, told, admin, crashes>>

-----------------------------------------------------------------------------
(* The agent's task (agent::execute), which holds the conversation's lock  *)
(* from its first step to its last.                                        *)

TaskBegin(a) ==
    /\ pc[a] = "spawned"
    /\ lock[mine[a]] = NoAgent
    /\ lock' = [lock EXCEPT ![mine[a]] = a]
    /\ Goto(a, "setup")
    /\ UNCHANGED <<store, daemon, registry, loaded, conv, cancelled, stalled,
                   mine, iter, continued, next, told, admin, bounds>>

\* Unknown workspace, invalid configuration, no API key.
SetupFails(a) ==
    /\ pc[a] = "setup"
    /\ Stop(a, "error")
    /\ UNCHANGED <<store, daemon, memory, mine, iter, continued, told, admin,
                   bounds>>

\* The session's first run records the tool set; a later run under another
\* one records the new set with a note to the mentor (record_prefix): three
\* transactions of one command, of which the first to be refused ends it.
Setup(a, tools) ==
    LET changed == prefix \notin {NoTools, tools}
        h == IF changed THEN PushUserText(Conversing(a), NOTE) ELSE Conversing(a)
    IN
    /\ pc[a] = "setup"
    /\ SetConversing(a, h)
    /\ \/ /\ prefix = tools
          /\ Goto(a, "loop")
          /\ UNCHANGED <<rows, prefix, next, failures>>
       \/ /\ prefix # tools
          /\ Committed
          /\ prefix' = tools
          /\ rows' = IF changed THEN PutLast(rows, h) ELSE rows
          /\ Goto(a, "loop")
          /\ UNCHANGED next
       \/ /\ prefix # tools
          /\ Refused
          /\ Stop(a, "error")
          /\ \/ UNCHANGED <<rows, prefix>>
             \/ /\ changed
                /\ session # "purged"
                /\ prefix' = tools
                /\ rows' \in {rows, PutLast(rows, h)}
    /\ UNCHANGED <<session, agentRow, openSteps, openCalls, finishedEvents,
                   daemon, registry, loaded, lock, cancelled, stalled, mine,
                   iter, continued, told, admin, crashes>>

\* The top of the loop: cancelled, out of iterations, or over the context
\* limit, which needs a size: an answer earlier, or a history to count.
LoopStops(a) ==
    /\ pc[a] = "loop"
    /\ \/ a \in cancelled /\ iter[a] < MaxIterations /\ Stop(a, "cancelled")
       \/ iter[a] = MaxIterations /\ Stop(a, "error")
       \/ /\ a \notin cancelled
          /\ iter[a] < MaxIterations
          /\ Len(Conversing(a)) > 1
          /\ Stop(a, "error")
    /\ UNCHANGED <<store, daemon, memory, mine, iter, continued, told, admin,
                   bounds>>

BeginStep(a) ==
    /\ pc[a] = "loop"
    /\ a \notin cancelled
    /\ iter[a] < MaxIterations
    /\ iter' = [iter EXCEPT ![a] = @ + 1]
    /\ \/ /\ Committed
          /\ openSteps' = openSteps \cup {a}
          /\ Goto(a, "request")
          /\ UNCHANGED next
       \/ /\ Refused
          /\ Stop(a, "error")
          /\ UNCHANGED openSteps
    /\ UNCHANGED <<session, rows, prefix, agentRow, openCalls, finishedEvents,
                   daemon, memory, mine, continued, told, admin, crashes>>

\* record_mentor_request; the call then goes out (MentorCall has its
\* retries).
SendRequest(a) ==
    /\ pc[a] = "request"
    /\ \/ /\ Committed
          /\ openCalls' = openCalls \cup {a}
          /\ Goto(a, "mentor")
          /\ UNCHANGED next
       \/ /\ Refused
          /\ Stop(a, "error")
          /\ UNCHANGED openCalls
    /\ UNCHANGED <<session, rows, prefix, agentRow, openSteps, finishedEvents,
                   daemon, memory, mine, iter, continued, told, admin, crashes>>

\* The mentor failed for good, or the cancelled call returned.
MentorFails(a) ==
    /\ pc[a] = "mentor"
    /\ \/ /\ Committed
          /\ openCalls' = openCalls \ {a}
          /\ openSteps' = openSteps \ {a}
          /\ \/ Stop(a, "error")
             \/ a \in cancelled /\ Stop(a, "cancelled")
       \/ /\ Refused
          /\ openCalls' \in {openCalls, openCalls \ {a}}
          /\ session = "purged" => openCalls' = openCalls
          /\ Stop(a, "error")
          /\ UNCHANGED openSteps
    /\ UNCHANGED <<session, rows, prefix, agentRow, finishedEvents, daemon,
                   memory, mine, iter, continued, told, admin, crashes>>

\* What the loop does once the step of reply r is over.
AfterReply(a, r) ==
    CASE r.stop \in {"refusal", "context_window"}       -> "error"
      [] r.stop = "pause_turn"                          -> "loop"
      [] r.stop = "max_tokens" /\ a \notin continued    -> "continue"
      [] OTHER                                          -> "ok"

RunsTools(r) == r.stop = "tool_use" \/ (r.stop = "max_tokens" /\ r.calls)

\* after_response: the assistant turn joins the conversation; the call is
\* completed and the turn stored, in two transactions of one command.
MentorAnswers(a, r) ==
    LET h == PushAssistant(Conversing(a), r.calls) IN
    /\ pc[a] = "mentor"
    /\ SetConversing(a, h)
    /\ \/ /\ Committed
          /\ openCalls' = openCalls \ {a}
          /\ rows' = PutLast(rows, h)
          /\ IF RunsTools(r)
             THEN Goto(a, "tools") /\ UNCHANGED next
             ELSE /\ Goto(a, "close")
                  /\ next' = [next EXCEPT ![a] = AfterReply(a, r)]
       \/ /\ Refused
          /\ openCalls' \in {openCalls, openCalls \ {a}}
          /\ session = "purged" => openCalls' = openCalls
          /\ Stop(a, "error")
          /\ UNCHANGED rows
    /\ UNCHANGED <<session, prefix, agentRow, openSteps, finishedEvents, daemon,
                   registry, loaded, lock, cancelled, stalled, mine, iter,
                   continued, told, admin, crashes>>

\* run_tools, when the executor is back: a result for every call, the calls
\* a cancellation stopped included.
ToolsReturn(a) ==
    LET h == PushToolResults(Conversing(a)) IN
    /\ pc[a] = "tools"
    /\ SetConversing(a, h)
    /\ \/ /\ Committed
          /\ rows' = PutLast(rows, h)
          /\ Goto(a, "close")
          /\ next' = [next EXCEPT ![a] = IF a \in cancelled THEN "cancelled"
                                         ELSE "loop"]
       \/ /\ Refused
          /\ Stop(a, "error")
          /\ UNCHANGED rows
    /\ UNCHANGED <<session, prefix, agentRow, openSteps, openCalls,
                   finishedEvents, daemon, registry, loaded, lock, cancelled,
                   stalled, mine, iter, continued, told, admin, crashes>>

CloseStep(a) ==
    /\ pc[a] = "close"
    /\ \/ /\ Committed
          /\ openSteps' = openSteps \ {a}
          /\ Goto(a, IF next[a] \in {"loop", "continue"} THEN next[a] ELSE "end")
          /\ UNCHANGED next
       \/ /\ Refused
          /\ Stop(a, "error")
          /\ UNCHANGED openSteps
    /\ UNCHANGED <<session, rows, prefix, agentRow, openCalls, finishedEvents,
                   daemon, memory, mine, iter, continued, told, admin, crashes>>

\* Cut off by max_tokens: the mentor is asked, once a run, to go on.
AskToContinue(a) ==
    LET h == PushUserText(Conversing(a), CONTINUE) IN
    /\ pc[a] = "continue"
    /\ continued' = continued \cup {a}
    /\ SetConversing(a, h)
    /\ \/ /\ Committed
          /\ rows' = PutLast(rows, h)
          /\ Goto(a, "loop")
          /\ next' = [next EXCEPT ![a] = "loop"]
       \/ /\ Refused
          /\ Stop(a, "error")
          /\ UNCHANGED rows
    /\ UNCHANGED <<session, prefix, agentRow, openSteps, openCalls,
                   finishedEvents, daemon, registry, loaded, lock, cancelled,
                   stalled, mine, iter, told, admin, crashes>>

\* After the loop: a run the watchdog ended is an error whatever the loop
\* returned, and a turn whose tool calls have no results is dropped.  That
\* the rows could not be cut is only logged.
EndRun(a) ==
    LET h == Conversing(a) IN
    /\ pc[a] = "end"
    /\ SetConversing(a, Repair(h))
    /\ next' = [next EXCEPT ![a] = IF a \in stalled THEN "error" ELSE @]
    /\ Goto(a, "finish")
    /\ IF ~PendingToolUses(h)
       THEN UNCHANGED <<rows, failures>>
       ELSE \/ Committed /\ rows' = TruncateMessages(rows, Len(Repair(h)))
            \/ /\ Refused
               /\ rows' \in {rows, TruncateMessages(rows, Len(Repair(h)))}
               /\ session = "purged" => rows' = rows
    /\ UNCHANGED <<session, prefix, agentRow, openSteps, openCalls,
                   finishedEvents, daemon, registry, loaded, lock, cancelled,
                   stalled, mine, iter, continued, told, admin, crashes>>

\* finish_agent; a refused write is only logged.
FinishAgent(a) ==
    /\ pc[a] = "finish"
    /\ \/ /\ Committed
          /\ agentRow' = [agentRow EXCEPT ![a] = next[a]]
          /\ finishedEvents' = [finishedEvents EXCEPT ![a] = @ + 1]
       \/ Refused /\ UNCHANGED <<agentRow, finishedEvents>>
    /\ Goto(a, "release")
    /\ UNCHANGED <<session, rows, prefix, openSteps, openCalls, daemon, memory,
                   mine, iter, continued, next, told, admin, crashes>>

\* The conversation is unlocked and the registry drops the agent ...
Release(a) ==
    /\ pc[a] = "release"
    /\ lock' = [lock EXCEPT ![mine[a]] = NoAgent]
    /\ registry' = registry \ {a}
    /\ Goto(a, "tell")
    /\ UNCHANGED <<store, daemon, loaded, conv, cancelled, stalled, mine, iter,
                   continued, next, told, admin, bounds>>

\* ... and then the handle and the subscribers learn of the end; the task's
\* locals go with it.
Tell(a) ==
    /\ pc[a] = "tell"
    /\ told' = told \cup {a}
    /\ Goto(a, "done")
    /\ mine' = [mine EXCEPT ![a] = NoAgent]
    /\ iter' = [iter EXCEPT ![a] = 0]
    /\ continued' = continued \ {a}
    /\ next' = [next EXCEPT ![a] = "loop"]
    /\ cancelled' = cancelled \ {a}
    /\ stalled' = stalled \ {a}
    /\ UNCHANGED <<store, daemon, registry, loaded, conv, lock, admin, bounds>>

-----------------------------------------------------------------------------
(* What may happen to a run from outside.                                  *)

\* agent.cancel of a running agent; of one that is over it changes nothing.
Cancel(a) ==
    /\ a \in registry
    /\ a \notin cancelled
    /\ cancelled' = cancelled \cup {a}
    /\ UNCHANGED <<store, daemon, registry, loaded, conv, lock, stalled, tasks,
                   admin, bounds>>

\* The watchdog saw no sign of life for the window; it lives until run_loop
\* has returned and leaves a cancelled run alone.
Stall(a) ==
    /\ pc[a] \in LoopPcs
    /\ a \notin cancelled
    /\ stalled' = stalled \cup {a}
    /\ cancelled' = cancelled \cup {a}
    /\ UNCHANGED <<store, daemon, registry, loaded, conv, lock, tasks, admin,
                   bounds>>

-----------------------------------------------------------------------------
(* session.archive and session.delete (sessions/mod.rs).                   *)

\* ensure_idle: no agent is registered on the session.
ArchiveRequest(archived) ==
    /\ "archive" \in Mutations
    /\ daemon = "up"
    /\ admin = "idle"
    /\ session # "purged"
    /\ ~Busy
    /\ SerialClients => ~RequestOpen
    /\ admin' = IF archived THEN "archive" ELSE "unarchive"
    /\ UNCHANGED <<store, daemon, memory, tasks, bounds>>

ArchiveCommit ==
    /\ admin \in {"archive", "unarchive"}
    /\ \/ /\ Committed
          /\ session \in {"open", "archived"}
          /\ session' = IF admin = "archive" THEN "archived" ELSE "open"
          /\ admin' = IF admin = "archive" THEN "forget" ELSE "idle"
       \/ /\ session = "deleted"
          /\ admin' = "idle"
          /\ UNCHANGED <<session, failures>>
       \/ /\ Refused
          /\ admin' = "idle"
          /\ UNCHANGED session
    /\ UNCHANGED <<rows, prefix, agentRow, openSteps, openCalls, finishedEvents,
                   daemon, memory, tasks, crashes>>

\* An archived session's conversation leaves memory.
ArchiveForget ==
    /\ admin = "forget"
    /\ loaded' = NoAgent
    /\ admin' = "idle"
    /\ UNCHANGED <<store, daemon, registry, conv, lock, cancelled, stalled,
                   tasks, bounds>>

\* session.delete forgets the conversation before it asks the store.
DeleteRequest ==
    /\ "delete" \in Mutations
    /\ daemon = "up"
    /\ admin = "idle"
    /\ session # "purged"
    /\ ~Busy
    /\ SerialClients => ~RequestOpen
    /\ loaded' = NoAgent
    /\ admin' = "delete"
    /\ UNCHANGED <<store, daemon, registry, conv, lock, cancelled, stalled,
                   tasks, bounds>>

\* The messages go; with purge_traces so does everything about the session.
DeleteCommit(purge) ==
    /\ admin = "delete"
    /\ admin' = "idle"
    /\ \/ /\ Committed
          /\ rows' = << >>
          /\ IF purge
             THEN /\ session' = "purged"
                  /\ agentRow' = [a \in Agents |-> "none"]
                  /\ openSteps' = {}
                  /\ openCalls' = {}
                  /\ finishedEvents' = [a \in Agents |-> 0]
             ELSE /\ session' = "deleted"
                  /\ UNCHANGED <<agentRow, openSteps, openCalls, finishedEvents>>
          /\ UNCHANGED prefix
       \/ Refused /\ UNCHANGED store
    /\ UNCHANGED <<daemon, memory, tasks, crashes>>

-----------------------------------------------------------------------------
(* The daemon's end and start (app.rs, trace/outcomes.rs).                 *)

\* The shutdown token cancels every agent's token.
BeginShutdown ==
    /\ daemon = "up"
    /\ daemon' = "stopping"
    /\ cancelled' = cancelled \cup registry
    /\ UNCHANGED <<store, registry, loaded, conv, lock, stalled, tasks, admin,
                   bounds>>

\* The process is gone: memory, requests and tasks with it.
LoseMemory ==
    /\ daemon' = "down"
    /\ registry' = {}
    /\ loaded' = NoAgent
    /\ conv' = [a \in Agents |-> << >>]
    /\ lock' = [a \in Agents |-> NoAgent]
    /\ cancelled' = {}
    /\ stalled' = {}
    /\ pc' = [a \in Agents |->
                 IF pc[a] \in {"idle"} \cup EndedPcs THEN pc[a] ELSE "gone"]
    /\ mine' = [a \in Agents |-> NoAgent]
    /\ iter' = [a \in Agents |-> 0]
    /\ continued' = {}
    /\ next' = [a \in Agents |-> "loop"]
    /\ admin' = "idle"
    /\ UNCHANGED <<store, told, failures>>

\* AppState::close: the tasks have drained, the writer is shut down.  A drain
\* that runs out of time ends the process as a crash does.
FinishShutdown ==
    /\ daemon = "stopping"
    /\ \A a \in Agents : pc[a] \notin TaskPcs
    /\ LoseMemory
    /\ UNCHANGED crashes

Crash ==
    /\ daemon # "down"
    /\ crashes < MaxCrashes
    /\ crashes' = crashes + 1
    /\ LoseMemory

Start ==
    /\ daemon = "down"
    /\ daemon' = "recovering"
    /\ UNCHANGED <<store, memory, tasks, admin, bounds>>

\* recover_orphaned_agents: one transaction an agent, before anything is
\* served.
Recover(a) ==
    /\ daemon = "recovering"
    /\ agentRow[a] = "running"
    /\ agentRow' = [agentRow EXCEPT ![a] = "error"]
    /\ openSteps' = openSteps \ {a}
    /\ openCalls' = openCalls \ {a}
    /\ finishedEvents' = [finishedEvents EXCEPT ![a] = @ + 1]
    /\ UNCHANGED <<session, rows, prefix, daemon, memory, tasks, admin, bounds>>

Serve ==
    /\ daemon = "recovering"
    /\ \A a \in Agents : agentRow[a] # "running"
    /\ daemon' = "up"
    /\ UNCHANGED <<store, memory, tasks, admin, bounds>>

-----------------------------------------------------------------------------
(* The loading of a conversation, the run's task, and everything a request *)
(* or task does of itself, once started.                                   *)

Loads(a) == LoadHeld(a) \/ LoadRows(a) \/ LoadGone(a) \/ LoadRepair(a) \/ LoadInsert(a)

Begins(a) == Loads(a) \/ StartAgent(a) \/ Register(a) \/ RecordUserTurn(a)

Loops(a) ==
    \/ LoopStops(a) \/ BeginStep(a) \/ SendRequest(a) \/ MentorFails(a)
    \/ \E r \in Replies : MentorAnswers(a, r)
    \/ ToolsReturn(a) \/ CloseStep(a) \/ AskToContinue(a)

Runs(a) ==
    \/ TaskBegin(a) \/ SetupFails(a) \/ (\E t \in ToolSets : Setup(a, t))
    \/ Loops(a)
    \/ EndRun(a) \/ FinishAgent(a) \/ Release(a) \/ Tell(a)

Administers ==
    \/ ArchiveCommit \/ ArchiveForget
    \/ \E purge \in BOOLEAN : DeleteCommit(purge)

Asks ==
    \/ \E a \in Agents : Request(a) \/ Cancel(a)
    \/ \E archived \in BOOLEAN : ArchiveRequest(archived)
    \/ DeleteRequest

Restarts == Start \/ (\E a \in Agents : Recover(a)) \/ Serve

\* Every call has been made or cannot be, and nothing is under way.
Quiescent ==
    /\ daemon = "up"
    /\ ~RequestOpen
    /\ \A a \in Agents :
          \/ pc[a] \in EndedPcs
          \/ pc[a] = "idle" /\ session \in {"deleted", "purged"}
    /\ UNCHANGED vars

Next ==
    \/ \E a \in Agents : Begins(a) \/ Runs(a) \/ Stall(a)
    \/ Asks
    \/ Administers
    \/ BeginShutdown \/ FinishShutdown \/ Crash
    \/ Restarts
    \/ Quiescent

\* A request or task goes on when it can: the runtime polls every task that
\* is ready, the mentor call and each tool end by their timeouts, and the
\* writer serves its queue.  Clients owe nothing, the daemon may stay down.
Fairness ==
    /\ \A a \in Agents : WF_vars(Begins(a)) /\ WF_vars(Runs(a))
    /\ WF_vars(Administers)
    /\ WF_vars(FinishShutdown)

Spec == Init /\ [][Next]_vars /\ Fairness

-----------------------------------------------------------------------------
(* Properties. *)

\* Row number i holds message i, and says what it says.
Numbered(h) == [i \in 1 .. Len(h) |-> [seq |-> i, msg |-> h[i]]]

\* Every request that goes to the mentor (call_mentor) is a history its API
\* accepts and waits for an answer, whatever runs, cancellations, refused
\* writes, crashes and reloads came before.
RequestsValid ==
    \A a \in Agents : pc[a] = "mentor" =>
        LET h == Conversing(a) IN
        Validate(h) /\ h # << >> /\ IsUser(LastMsg(h))

\* trace/sessions.rs:1-4: the rows mirror the in-memory conversation, row seq
\* is message index + 1; here as long as no write was refused.
StoreMirrorsMemory ==
    failures = 0 /\ loaded # NoAgent => rows = Numbered(conv[loaded])

\* Whenever the daemon dies, the rows it leaves are a history that
\* load_conversation accepts, after at most the repair of the last turn.
StoredHistoryLoads ==
    failures = 0 => Validate(Repair(Stored(rows)))

\* The store calls an agent running exactly while the daemon still owes its
\* agent.finished (run_agent_with, execute, recover_orphaned_agents): no run
\* is forgotten, and none is closed under a task that still works.
RunningIsAlive ==
    failures = 0 /\ daemon \in {"up", "stopping"} /\ session # "purged" =>
        \A a \in Agents :
            agentRow[a] = "running" <=>
                pc[a] \in {"register", "turn", "spawned", "setup", "finish"} \cup LoopPcs

\* A client that hears of the end (Tell) finds it recorded, once, its steps
\* and calls closed, and the session free for the next agent.run.
ToldIsRecorded ==
    failures = 0 /\ session # "purged" =>
        \A a \in told :
            /\ agentRow[a] \in Terminal
            /\ finishedEvents[a] = 1
            /\ a \notin registry \cup openSteps \cup openCalls

\* finish_agent and recover_orphaned_agents never both end an agent, and how
\* an agent ended never changes, until the session is purged.
EndsOnce ==
    [][\A a \in Agents :
          agentRow[a] \in Terminal /\ session' # "purged" =>
              agentRow'[a] = agentRow[a] /\ finishedEvents'[a] = finishedEvents[a]]_vars

\* A daemon repairs a table in which a refused row left a gap: messages get
\* other numbers in its memory than their rows have.
RepairsGap ==
    \E a \in Agents :
        /\ pc[a] = "repair" /\ pc'[a] # "repair"
        /\ \E i \in 1 .. Len(rows) : rows[i].seq # i

\* Until the session is deleted the stored history only grows: a message
\* keeps its place, its kind and its texts.  The exceptions are a last turn
\* that called tools nobody answered (repair) and what the repair of a table
\* with a gap takes with it (RepairDropsOneTurn).
HistoryKept ==
    [][\/ session' \in {"deleted", "purged"}
       \/ RepairsGap
       \/ \A i \in 1 .. Len(rows) :
             \/ i = Len(rows) /\ rows[i].msg.kind = "tooluse"
             \/ /\ i <= Len(rows')
                /\ rows'[i].seq = rows[i].seq
                /\ rows'[i].msg.kind = rows[i].msg.kind
                /\ rows[i].msg.texts \subseteq rows'[i].msg.texts]_vars

\* trace/sessions.rs:217-218, runtime/mod.rs:443-445: the rows that a repair
\* at load drops are one trailing assistant turn whose calls had no answer.
RepairDropsOneTurn ==
    [][\A a \in Agents :
          pc[a] = "repair" /\ pc'[a] # "repair" /\ rows' # rows =>
              Len(rows') = Len(rows) - 1]_vars

\* mod.rs:7-9: one agent runs per session at a time.
OneAgentPerSession == Cardinality(registry) <= 1

\* A registered run leaves the registry, and its end is told: neither the
\* mentor, a tool, the lock nor a refused write keeps it there.
RunsEnd ==
    \A a \in Agents :
        a \in registry ~> (a \notin registry /\ (pc[a] \in EndedPcs))

\* An agent the store calls running is given its end by its task, as long as
\* the daemon lives and no write was refused.
RunningEnds ==
    \A a \in Agents :
        agentRow[a] = "running" ~>
            (agentRow[a] # "running" \/ daemon # "up" \/ failures > 0)

\* Memory and rows tell the same history, and a new daemon can go on from it.
RowsTell == StoreMirrorsMemory /\ StoredHistoryLoads

\* The store, the registry, the handle and the event stream agree about which
\* agents have ended.
EndsAgree == RunningIsAlive /\ ToldIsRecorded

\* Both ways in which a run could be left open.
EveryRunEnds == RunsEnd /\ RunningEnds
=============================================================================
