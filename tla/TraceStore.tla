------------------------------ MODULE TraceStore ------------------------------
(***************************************************************************)
(* The store with all that writes to it: runs, the title task, session     *)
(* requests, crashes with their recovery, exports and imports.             *)
(***************************************************************************)
EXTENDS TraceBundle

vars == <<db, used, daemon, run, title, lost, counters, transfers>>

Init ==
    /\ db = EmptyStore /\ used = {} /\ daemon = "up"
    /\ run = NoRun /\ title = NoTitle /\ lost = {}
    /\ runs = 0 /\ titles = 0 /\ requests = 0 /\ crashes = 0
    /\ file = NoFile /\ bundles = 0 /\ exports = 0 /\ imports = 0

Runs == \/ \E s \in Sessions, p \in Prompts : RunLoad(s, p)
        \/ RunRepair \/ RunStart \/ RunTurn \/ RunStep \/ RunRequest \/ RunFail
        \/ \E r \in Replies : RunReply(r)
        \/ RunComplete \/ RunStore \/ RunResults \/ RunClose \/ RunFinish

Titles == TitleStep \/ TitleRequest \/ TitleFail \/ TitleReply \/ TitleComplete \/ TitleSet

Asks == \/ Create
        \/ \E s \in Sessions : Rename(s) \/ Delete(s)
        \/ \E s \in Sessions, status \in {"open", "archived"} : Archive(s, status)

Restarts == Crash \/ (\E a \in Orphans : Recover(a)) \/ Serve

Transfers == \/ \E ss \in SUBSET Sessions, redact \in Redactions : Export(ss, redact)
             \/ \E s \in Sessions : ExportSession(s)
             \/ ImportBundle \/ ImportSession

Next == \/ (Runs \/ Titles \/ Asks \/ Restarts) /\ UNCHANGED transfers
        \/ Transfers

Spec == Init /\ [][Next]_vars

-----------------------------------------------------------------------------

Ended == {"ok", "error"}

TypeOK ==
    /\ \A r \in db.sessions : /\ r.id \in used /\ r.status \in {"open", "archived", "deleted"}
                              /\ r.source \in {"none", "prompt", "generated", "user"}
    /\ \A r \in db.agents \cup db.steps \cup db.calls : r.status \in {"running"} \cup Ended
    /\ \A r \in db.messages : r.role \in {"user", "assistant"} /\ r.seq \in Nat \ {0}
    /\ \A c \in DOMAIN db.refs : db.refs[c] \in Nat
    /\ used \subseteq Sessions
    /\ daemon \in {"up", "recovering"}
    /\ file.kind \in {"none", "bundle", "session"}

(* A blob's refcount is exactly the number of events that name it: over    *)
(* puts, appends, crashes between the two, purges, and imports of rows the *)
(* store partly has (register_blob, release_blobs, import_bundle_rows).  A *)
(* blob whose put was never followed by its event keeps that reference.    *)
RefcountExact ==
    LET held == lost \cup (IF run.at = "complete" THEN {StreamBlob(run.step)} ELSE {})
                     \cup (IF title.at = "complete" THEN {StreamBlob(title.step)} ELSE {})
    IN  \A c \in DOMAIN db.refs :
            db.refs[c] = Names(db.events, c) + (IF c \in held THEN 1 ELSE 0)

(* The events a call points at are its own: a request of its session and   *)
(* agent, and a response where it has one.  Ids under a session whose own  *)
(* is taken are all made fresh by an import.                               *)
CallsPointHome ==
    \A c \in db.calls :
        /\ \E e \in db.events : /\ e.id = c.request /\ e.kind = "mentor.request"
                                /\ e.session = c.session /\ e.agent = c.agent
        /\ c.response # None =>
              \E e \in db.events : /\ e.id = c.response /\ e.kind = "mentor.response"
                                   /\ e.session = c.session /\ e.agent = c.agent

(* Of a purged session nothing is left, whatever was still being written   *)
(* for it: mentor_calls and steps too, which no foreign key protects.      *)
NothingOfPurged ==
    /\ \A r \in db.agents \cup db.events \cup db.calls \cup db.messages : Exists(db, r.session)
    /\ \A r \in db.steps : AgentExists(db, r.agent)

(* An agent has ended exactly when its one agent.finished is recorded: by  *)
(* its run, or by the recovery after a crash, in its session and in every  *)
(* copy of it, one exported while it ran included.                         *)
EndedOnce ==
    \A a \in db.agents :
        Cardinality({e \in db.events : e.agent = a.id /\ e.kind = "agent.finished"})
            = IF a.status = "running" THEN 0 ELSE 1

(* No call of the loop is left open by an agent that has ended, not by a   *)
(* crash either (recover_orphaned_agents).  A title call may be: its agent *)
(* had ended before it began.                                              *)
OpenCallsHaveAgents ==
    \A c \in db.calls, a \in db.agents :
        c.agent = a.id /\ c.kind = "step" /\ c.status = "running" => a.status = "running"

(* The request of a call whose answer the conversation still holds can be  *)
(* built again from the stored messages, byte for byte: rows below an      *)
(* answer are final.  So it is in a copy, redacted or not.                 *)
AnsweredCallsReplay ==
    \A c \in db.calls : \A e \in db.events :
        /\ c.kind = "step" /\ c.status = "ok" /\ e.id = c.request /\ e.body # None
        /\ \E m \in db.messages : /\ m.session = c.session /\ m.seq = e.count + 1
                                  /\ m.role = "assistant" /\ m.step = c.step
        => Replay(c) = "ok"

(* A bundle resolves by itself: it holds every blob its events name, and a *)
(* redacted one holds no text with a secret in it.                         *)
BundleWhole ==
    file.kind = "bundle" =>
        /\ NamedIn(file.rows.events) \subseteq file.rows.blobs
        /\ file.redacted =>
              /\ \A m \in file.rows.messages : ToSet(m.texts) \cap Secrets = {}
              /\ \A c \in file.rows.blobs : HideBlob(c) = c

(* The title a user gave stays the user's, whatever title task was under   *)
(* way when it was given (set_session_title).                              *)
UserTitleKept ==
    [][\A s \in Sessions :
          Exists(db, s) /\ Exists(db, s)' /\ SessionRow(db, s).source = "user"
              => SessionRow(db, s)'.source = "user"]_vars

(* Every reference between the tables leads to what it names, and what is  *)
(* counted or closed is so exactly once.                                   *)
TablesWhole ==
    /\ TypeOK /\ RefcountExact /\ CallsPointHome /\ NothingOfPurged
    /\ EndedOnce /\ OpenCallsHaveAgents

(* What was asked of the mentor can be built again, here and in a copy.    *)
CallsReplay == AnsweredCallsReplay /\ BundleWhole
=============================================================================
