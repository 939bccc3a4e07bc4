----------------------------- MODULE SessionRuns -----------------------------
(***************************************************************************)
(* Who writes to the store: the run of an agent, as the sequence of its    *)
(* store commands (crates/core/src/runtime), the title task that may       *)
(* follow it (crates/core/src/sessions/title.rs), the session requests     *)
(* (crates/core/src/sessions/mod.rs) and the recovery at the next start.   *)
(*                                                                         *)
(* A command is one step, except the one that stores a reply: it is three  *)
(* transactions and a crash may fall between them.  While it is under way  *)
(* the writer thread serves nobody else; readers and imports use the       *)
(* connection directly and do get between.                                 *)
(***************************************************************************)
EXTENDS StoreTables

CONSTANTS Prompts,      \* what users ask
          Replies,      \* how the mentor may reply: subset of {Answer, Uses}
          MaxRuns, MaxToolRuns, MaxSteps, MaxTitles, MaxRequests, MaxCrashes,  \* bounds
          MaxOutside    \* bounds runs and what happens besides them, taken together

VARIABLES db,           \* the committed tables
          used,         \* the session ids ever generated
          daemon,       \* "up", or "recovering" after a crash
          run,          \* the agent under way
          title,        \* the title task under way
          lost,         \* blobs put and never named by an event
          runs, titles, requests, crashes,    \* counters of the bounds
          bundles, exports, imports

counters == <<runs, titles, requests, crashes>>

NoRun   == [at |-> "idle", session |-> None, agent |-> None, step |-> None,
            prompt |-> None, reply |-> None]
NoTitle == [at |-> "idle", session |-> None, agent |-> None, step |-> None, prompt |-> None]

Up == daemon = "up"
Outside == runs + titles + requests + crashes + bundles + imports < MaxOutside
WriterFree == run.at \notin {"complete", "store"} /\ title.at # "complete"

RunAt(where) == Up /\ run.at = where /\ (where \notin {"complete", "store"} => WriterFree)
RunTo(where) == run' = [run EXCEPT !.at = where]
TitleAt(where) == Up /\ title.at = where /\ (where # "complete" => WriterFree)
TitleTo(where) == title' = [title EXCEPT !.at = where]

RunOnly   == UNCHANGED <<used, daemon, title, lost, counters>>
TitleOnly == UNCHANGED <<used, daemon, run, counters>>

-----------------------------------------------------------------------------
(* A run.  Requests on one session come one after another here, so the     *)
(* conversation in memory is the stored one (AgentRuntime has the races).  *)

RunLoad(s, p) ==
    /\ Up /\ run.at = "idle" /\ runs < MaxRuns
    /\ Exists(db, s) /\ SessionRow(db, s).status # "deleted"
    /\ runs' = runs + 1
    /\ run' = [NoRun EXCEPT !.at = IF Pending(db, s) THEN "repair" ELSE "start",
                            !.session = s, !.prompt = p, !.agent = <<s, runs + 1>>]
    /\ UNCHANGED <<db, used, daemon, title, lost, titles, requests, crashes>>

\* load_conversation: an unanswered turn of tool calls goes.
RunRepair ==
    /\ RunAt("repair")
    /\ db' = InsertEvent(Truncate(db, run.session, Len(Messages(db, run.session)) - 1),
                         run.session, Event("session.repaired", None))
    /\ RunTo("start") /\ RunOnly

RunStart ==
    /\ RunAt("start")
    /\ db' = StartAgent(db, run.session, run.agent)
    /\ RunTo("turn") /\ RunOnly

\* The user turn with its event, and a provisional title at the first.
RunTurn ==
    LET first == SessionRow(db, run.session).source = "none" /\ Messages(db, run.session) = << >>
        d     == IF first THEN SetTitle(db, run.session, "prompt") ELSE db
    IN
    /\ RunAt("turn")
    /\ db' = PutUserText(InsertEvent(d, run.session,
                 WithBody(Event("user.message", run.agent), TextBlob(run.prompt))),
                 run.session, run.prompt)
    /\ RunTo("step") /\ RunOnly

RunStep ==
    /\ RunAt("step")
    /\ db' = StartStep(db, run.agent)
    /\ run' = [run EXCEPT !.at = "request", !.step = NextStep(db, run.agent)]
    /\ RunOnly

RunRequest ==
    LET ms == Conversation(db, run.session) IN
    /\ RunAt("request")
    /\ db' = RecordRequest(db, run.session, run.agent, run.step, "step", RequestBlob(ms), Len(ms))
    /\ RunTo("mentor") /\ RunOnly

\* The call failed or was cancelled: the error, the call and the step.
RunFail ==
    /\ RunAt("mentor")
    /\ db' = FinishStep(RecordError(db, run.session, run.agent, run.step), run.step, "error")
    /\ run' = [run EXCEPT !.at = "finish", !.reply = None]
    /\ RunOnly

\* A reply: one command puts the stream, ...
RunReply(r) ==
    /\ RunAt("mentor")
    /\ r = Uses => Last(run.step) < MaxSteps /\ runs <= MaxToolRuns
    /\ db' = PutBlob(db, StreamBlob(run.step))
    /\ run' = [run EXCEPT !.at = "complete", !.reply = r]
    /\ RunOnly

\* ... completes the call, ...
RunComplete ==
    /\ RunAt("complete")
    /\ db' = RecordResponse(db, run.session, run.agent, run.step, run.reply)
    /\ RunTo("store") /\ RunOnly

\* ... and stores the assistant's turn.
RunStore ==
    /\ RunAt("store")
    /\ db' = PutNext(InsertEvent(db, run.session,
                 WithBody(Event("assistant.message", run.agent), TextBlob(run.reply))),
                 run.session, "assistant", run.reply, run.step)
    /\ RunTo(IF run.reply = Uses THEN "results" ELSE "close") /\ RunOnly

RunResults ==
    /\ RunAt("results")
    /\ db' = PutNext(db, run.session, "user", Results, run.step)
    /\ RunTo("close") /\ RunOnly

RunClose ==
    /\ RunAt("close")
    /\ db' = FinishStep(db, run.step, "ok")
    /\ RunTo(IF run.reply = Uses THEN "step" ELSE "finish") /\ RunOnly

\* maybe_generate: an answered run whose session has a provisional title.
TitleDue(d) ==
    /\ run.reply = Answer
    /\ SessionRow(d, run.session).source = "prompt"
    /\ titles < MaxTitles /\ Outside /\ title.at = "idle"

RunFinish ==
    /\ RunAt("finish")
    /\ db' = FinishAgent(db, run.session, run.agent, IF run.reply = Answer THEN "ok" ELSE "error")
    /\ run' = NoRun
    /\ IF TitleDue(db)
       THEN /\ titles' = titles + 1
            /\ title' = [at |-> "step", session |-> run.session, agent |-> run.agent,
                         step |-> None, prompt |-> run.prompt]
       ELSE UNCHANGED <<titles, title>>
    /\ UNCHANGED <<used, daemon, lost, runs, requests, crashes>>

-----------------------------------------------------------------------------
(* The title task.  The session may be renamed, deleted or purged while it *)
(* works; the store then refuses what names a row that is gone.            *)

CallExists(step) == step \in Ids(db.calls)

TitleStep ==
    /\ TitleAt("step")
    /\ IF AgentExists(db, title.agent)
       THEN /\ db' = StartStep(db, title.agent)
            /\ title' = [title EXCEPT !.at = "request", !.step = NextStep(db, title.agent)]
       ELSE title' = NoTitle /\ UNCHANGED db
    /\ UNCHANGED lost /\ TitleOnly

TitleRequest ==
    /\ TitleAt("request")
    /\ IF Exists(db, title.session)
       THEN /\ db' = RecordRequest(db, title.session, title.agent, title.step, "title",
                                   TitleBlob(title.prompt), 1)
            /\ TitleTo("mentor")
       ELSE title' = NoTitle /\ UNCHANGED db
    /\ UNCHANGED lost /\ TitleOnly

TitleFail ==
    /\ TitleAt("mentor")
    /\ db' = IF Exists(db, title.session) /\ CallExists(title.step)
             THEN FinishStep(RecordError(db, title.session, title.agent, title.step),
                             title.step, "error")
             ELSE db
    /\ title' = NoTitle
    /\ UNCHANGED lost /\ TitleOnly

TitleReply ==
    /\ TitleAt("mentor")
    /\ db' = PutBlob(db, StreamBlob(title.step))
    /\ TitleTo("complete") /\ UNCHANGED lost /\ TitleOnly

\* The rest of the command; what it put stays when the call is gone.  The
\* model may answer nothing usable.
TitleComplete ==
    /\ TitleAt("complete")
    /\ IF Exists(db, title.session) /\ CallExists(title.step)
       THEN /\ db' = FinishStep(RecordResponse(db, title.session, title.agent, title.step, Answer),
                                title.step, "ok")
            /\ TitleTo("set") \/ title' = NoTitle
            /\ UNCHANGED lost
       ELSE /\ lost' = lost \cup {StreamBlob(title.step)}
            /\ title' = NoTitle /\ UNCHANGED db
    /\ TitleOnly

TitleSet ==
    /\ TitleAt("set")
    /\ LET d == SetTitle(db, title.session, "generated") IN
       db' = IF Exists(db, title.session) /\ SessionRow(d, title.session).source = "generated"
             THEN InsertEvent(d, title.session, Event("session.title", title.agent))
             ELSE db
    /\ title' = NoTitle
    /\ UNCHANGED lost /\ TitleOnly

-----------------------------------------------------------------------------
(* Session requests. *)

Idle(s) == run.session # s

Asked == /\ Up /\ WriterFree /\ requests < MaxRequests /\ Outside
         /\ requests' = requests + 1
         /\ UNCHANGED <<daemon, run, title, lost, runs, titles, crashes>>

\* The first session; more come from imports.
Create ==
    /\ Up /\ used = {}
    /\ LET s == CHOOSE s \in Sessions : TRUE IN db' = CreateSession(db, s) /\ used' = {s}
    /\ UNCHANGED <<daemon, run, title, lost, counters>>

Rename(s) ==
    /\ Asked /\ Exists(db, s)
    /\ db' = InsertEvent(SetTitle(db, s, "user"), s, Event("session.title", None))
    /\ UNCHANGED used

Archive(s, status) ==
    /\ Asked /\ Exists(db, s) /\ Idle(s) /\ SessionRow(db, s).status # "deleted"
    /\ db' = SetStatus(db, s, status)
    /\ UNCHANGED used

Delete(s) ==
    /\ Asked /\ Exists(db, s) /\ Idle(s)
    /\ db' = DeleteSession(db, s) \/ db' = PurgeSession(db, s)
    /\ UNCHANGED used

-----------------------------------------------------------------------------
(* The daemon dies and the next one ends what was running before it serves.*)

Crash ==
    /\ Up /\ crashes < MaxCrashes /\ Outside
    /\ daemon' = "recovering" /\ crashes' = crashes + 1
    /\ lost' = lost \cup (IF run.at = "complete" THEN {StreamBlob(run.step)} ELSE {})
                    \cup (IF title.at = "complete" THEN {StreamBlob(title.step)} ELSE {})
    /\ run' = NoRun /\ title' = NoTitle
    /\ UNCHANGED <<db, used, runs, titles, requests>>

Orphans == {r.id : r \in {r \in db.agents : r.status = "running"}}

Recover(a) ==
    /\ daemon = "recovering" /\ a \in Orphans
    /\ db' = RecoverAgent(db, a)
    /\ UNCHANGED <<used, daemon, run, title, lost, counters>>

Serve ==
    /\ daemon = "recovering" /\ Orphans = {}
    /\ daemon' = "up"
    /\ UNCHANGED <<db, used, run, title, lost, counters>>
=============================================================================
