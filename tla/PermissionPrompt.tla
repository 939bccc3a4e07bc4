-------------------------- MODULE PermissionPrompt --------------------------
(***************************************************************************)
(* Asking whether tool calls may run: PermissionGate::permit,              *)
(* Engine::decide, AgentPrompter and PermissionBroker                      *)
(* (crates/core/src/permissions), the rule files they read and write, the  *)
(* clients that answer and the timeout and cancellation that end the wait. *)
(*                                                                         *)
(* The calls belong to runs, each on a session and with an Engine of its   *)
(* own.  One task polls the calls of a run (join_all), so between two      *)
(* awaits of one call no other call of the run moves; clients and other    *)
(* runs are on other threads.  A poll that finds the run's token cancelled *)
(* drops the call; a cancellation during a poll counts as after it.        *)
(***************************************************************************)
EXTENDS PermissionRules

CONSTANTS
    Runs,            \* agent runs, each on a session of its own
    Calls,           \* the tool calls they make
    RunOf,           \* the run of each call
    RequestOf,       \* what each call asks for
    HeadlessPolicy,  \* permissions.headless: "allow_readonly" or "deny"
    Scenes,          \* the settings examined, see SceneShape
    MaxRules         \* bound: the rules of a file

AllAnswers == {"allow_once", "allow_session", "allow_workspace",
               "allow_always", "deny_once", "deny_always"}

ASSUME RunsAssumption     == RunOf \in [Calls -> Runs]
ASSUME RequestsAssumption == RequestOf \in [Calls -> Request]
\* A setting: the runs under way and the calls they still make, the modes a run
\* may have, what the two files may hold at first, the answers clients give, the
\* requests an answer's rule may cover ({}: no usable rule), the rules
\* tools.allow and tools.deny add, and how often clients come and go (a bound).
SceneShape(s) ==
    /\ DOMAIN s = {"runs", "calls", "modes", "user", "workspace", "answers", "scopes",
                   "edits", "toggles"}
    /\ s.runs \subseteq Runs
    /\ s.calls \subseteq {c \in Calls : RunOf[c] \in s.runs}
    /\ "default" \in s.modes /\ s.modes \subseteq {"default", "plan", "auto"}
    /\ s.answers \subseteq AllAnswers
    /\ s.toggles \in Nat

ASSUME ScenesAssumption   == \A s \in Scenes : SceneShape(s)
ASSUME HeadlessAssumption == HeadlessPolicy \in {"allow_readonly", "deny"}
ASSUME BoundsAssumption   == MaxRules \in Nat

VARIABLES
    mode,        \* the mode of each run
    cancelled,   \* the runs whose token is cancelled
    remembered,  \* SessionRules: what each run's session may do unasked
    file,        \* the rules files, "workspace" and "user"
    pc,          \* where each call is
    verdict,     \* what was decided of it, and by whom
    pending,     \* PermissionBroker::pending
    inbox,       \* the answer in each call's channel
    draft,       \* the file each call is about to write
    editor,      \* the tools.allow or tools.deny under way
    listening,   \* the runs whose events a client receives
    accepted,    \* history: answers clients were told count
    written,     \* history: calls whose answer wrote a rule
    toggles,     \* the bound's counter
    scene        \* the setting; never changes

files   == <<file, draft, editor, written>>
broker  == <<pending, inbox, accepted>>
clients == <<listening, toggles, scene>>
vars    == <<mode, cancelled, remembered, files, broker, pc, verdict, clients>>

Undecided == Verdict("none", "none")
NoDraft   == [to |-> "none", layer |-> Missing]
Answer(a, on) == [answer |-> a, on |-> on]
NoAnswer  == Answer("none", {})

Layers == <<file["workspace"], file["user"]>>
Of(r)  == {c \in Calls : RunOf[c] = r}
Req(c) == RequestOf[c]

TypeOK ==
    /\ mode \in [Runs -> scene.modes]
    /\ cancelled \subseteq Runs
    /\ remembered \in [Runs -> SUBSET UNION scene.scopes]
    /\ pc \in [Calls -> {"idle", "asking", "expired", "write", "record",
                         "done", "stopped"}]
    /\ \A c \in Calls : verdict[c].decision \in {"none", "allow", "deny"}
    /\ pending \cup written \subseteq Calls
    /\ \A f \in {"workspace", "user"} : Len(file[f].rules) <= MaxRules
    /\ listening \subseteq Runs
    /\ toggles \in 0 .. scene.toggles

Init ==
    /\ scene \in Scenes
    /\ mode \in {m \in [Runs -> scene.modes] :
                   \A r \in Runs \ scene.runs : m[r] = "default"}
    /\ cancelled = {}
    /\ remembered = [r \in Runs |-> {}]
    /\ \E u \in scene.user, w \in scene.workspace :
          file = [f \in {"workspace", "user"} |-> IF f = "user" THEN u ELSE w]
    /\ pc = [c \in Calls |-> IF c \in scene.calls THEN "idle" ELSE "done"]
    /\ verdict = [c \in Calls |-> Undecided]
    /\ pending = {} /\ accepted = {}
    /\ inbox = [c \in Calls |-> NoAnswer]
    /\ draft = [c \in Calls |-> NoDraft] /\ editor = NoDraft /\ written = {}
    /\ listening = Runs
    /\ toggles = 0

Goto(c, l) == pc' = [pc EXCEPT ![c] = l]
Settle(c, v) == verdict' = [verdict EXCEPT ![c] = v]

-----------------------------------------------------------------------------
(* One call through the gate.                                              *)

\* No other call of the run is between two awaits.
Undisturbed(c) ==
    \A d \in Of(RunOf[c]) \ {c} : pc[d] \notin {"write", "expired"}

\* execute_all: calls that change nothing run together, a mutating one alone.
UnderWay(r) == {c \in Of(r) : pc[c] \notin {"idle", "done", "stopped"}}
MayStart(c) ==
    /\ pc[c] = "idle"
    /\ RunOf[c] \notin cancelled
    /\ IF Mutating(Req(c))
       THEN UnderWay(RunOf[c]) = {}
       ELSE \A d \in UnderWay(RunOf[c]) : ~Mutating(Req(d))

\* Engine::decide: settled without asking, headless, or a pending prompt
\* whose event went out.
DecideCall(c) ==
    LET v == Decide(mode[RunOf[c]], Layers, remembered[RunOf[c]], Req(c)) IN
    /\ MayStart(c)
    /\ CASE v # Prompt ->
              Settle(c, v) /\ Goto(c, "record") /\ UNCHANGED pending
         [] v = Prompt /\ RunOf[c] \notin listening ->
              /\ Settle(c, Headless(HeadlessPolicy, Req(c)))
              /\ Goto(c, "record")
              /\ UNCHANGED pending
         [] OTHER ->
              /\ pending' = pending \cup {c}
              /\ Goto(c, "asking")
              /\ UNCHANGED verdict
    /\ UNCHANGED <<mode, cancelled, remembered, files, inbox, accepted,
                   clients>>

\* Faulty: an answer settles every prompt of the run.
RespondToRun(c, a, on) ==
    /\ c \in pending
    /\ pending' = pending \ Of(RunOf[c])
    /\ accepted' = accepted \cup {[call |-> c, ans |-> Answer(a, on)]}
    /\ inbox' = [d \in Calls |-> IF d \in pending /\ RunOf[d] = RunOf[c]
                                  THEN Answer(a, on) ELSE inbox[d]]
    /\ UNCHANGED <<mode, cancelled, remembered, files, pc, verdict, clients>>

\* permission.respond to a pending prompt, with the rule its answer may
\* write; to any other it is not_found and changes nothing.
Respond(c, a, on) ==
    /\ c \in pending
    /\ pending' = pending \ {c}
    /\ accepted' = accepted \cup {[call |-> c, ans |-> Answer(a, on)]}
    /\ inbox' = [inbox EXCEPT ![c] = IF pc[c] = "asking" THEN Answer(a, on) ELSE @]
    /\ UNCHANGED <<mode, cancelled, remembered, files, pc, verdict, clients>>

\* The file an answer's rule goes to, and the rule.
Target(a) == IF a = "allow_workspace" THEN "workspace" ELSE "user"
RuleOf(x) == Rule(IF x.answer = "deny_always" THEN "deny" ELSE "allow", x.on)

WithRule(layer, rule) == Loaded(Append(layer.rules, rule), layer.default)

\* append_rule refuses a file that does not parse (and MaxRules).
Appendable(f) == file[f].state # "broken" /\ Len(file[f].rules) < MaxRules

\* Faulty: the remembered answers of a session count for every session.
TakeAnswerEverywhere(c) ==
    LET x == inbox[c] IN
    /\ pc[c] = "asking" /\ RunOf[c] \notin cancelled
    /\ x.answer = "allow_session"
    /\ Settle(c, Verdict("allow", "user"))
    /\ remembered' = [r \in Runs |-> remembered[r] \cup x.on]
    /\ Goto(c, "record")
    /\ UNCHANGED <<mode, cancelled, files, broker, clients>>

\* The answer arrives (Engine::answered).  Of one that changes a file the
\* file is read here (append_rule); when it cannot be changed the answer
\* counts all the same.
TakeAnswer(c) ==
    LET x == inbox[c]
        writes == /\ x.answer \in {"allow_workspace", "allow_always", "deny_always"}
                  /\ x.on # {}
    IN
    /\ pc[c] = "asking" /\ RunOf[c] \notin cancelled
    /\ x # NoAnswer
    /\ Settle(c, Verdict(IF x.answer \in {"deny_once", "deny_always"}
                         THEN "deny" ELSE "allow", "user"))
    /\ remembered' = IF x.answer = "allow_session"
                     THEN [remembered EXCEPT ![RunOf[c]] = @ \cup x.on]
                     ELSE remembered
    /\ IF writes /\ Appendable(Target(x.answer))
       THEN /\ draft' = [draft EXCEPT ![c] =
                            [to    |-> Target(x.answer),
                             layer |-> WithRule(file[Target(x.answer)], RuleOf(x))]]
            /\ Goto(c, "write")
       ELSE Goto(c, "record") /\ UNCHANGED draft
    /\ UNCHANGED <<mode, cancelled, file, editor, written, broker, clients>>

\* write_atomic: the file is replaced.
WriteRule(c) ==
    /\ pc[c] = "write"
    /\ file' = [file EXCEPT ![draft[c].to] = draft[c].layer]
    /\ draft' = [draft EXCEPT ![c] = NoDraft]
    /\ written' = written \cup {c}
    /\ Goto(c, "record")
    /\ UNCHANGED <<mode, cancelled, remembered, editor, broker, verdict,
                   clients>>

\* Faulty: the prompt waits for an answer as long as a client is there.
TimeOutAlone(c) ==
    /\ pc[c] = "asking" /\ RunOf[c] \notin cancelled
    /\ inbox[c] = NoAnswer
    /\ RunOf[c] \notin listening
    /\ Settle(c, Verdict("deny", "timeout"))
    /\ Goto(c, "expired")
    /\ UNCHANGED <<mode, cancelled, remembered, files, broker, clients>>

\* permissions.ask_timeout_s is over; an answer that is there is taken
\* first.  The receiver is gone ...
TimeOut(c) ==
    /\ pc[c] = "asking" /\ RunOf[c] \notin cancelled
    /\ inbox[c] = NoAnswer
    /\ Settle(c, Verdict("deny", "timeout"))
    /\ Goto(c, "expired")
    /\ UNCHANGED <<mode, cancelled, remembered, files, broker, clients>>

\* ... and then the pending entry (Forget).
ForgetExpired(c) ==
    /\ pc[c] = "expired"
    /\ pending' = pending \ {c}
    /\ Goto(c, "record")
    /\ UNCHANGED <<mode, cancelled, remembered, files, inbox, accepted,
                   verdict, clients>>

\* permit after the decision: the append of it to the trace returns, with
\* success or not, the decision is announced and the executor goes on.
RecordDecision(c) ==
    /\ pc[c] = "record" /\ RunOf[c] \notin cancelled
    /\ Goto(c, "done")
    /\ UNCHANGED <<mode, cancelled, remembered, files, broker, verdict, clients>>

\* Not inside a poll of the run.
Cancel(r) ==
    /\ r \notin cancelled
    /\ \A c \in Of(r) : pc[c] \notin {"write", "expired"}
    /\ cancelled' = cancelled \cup {r}
    /\ UNCHANGED <<mode, remembered, files, broker, pc, verdict, clients>>

\* Faulty: the pending entry outlives the wait.
StopCallPending(c) ==
    /\ RunOf[c] \in cancelled
    /\ pc[c] \in {"idle", "asking", "record"}
    /\ Goto(c, "stopped")
    /\ UNCHANGED <<mode, cancelled, remembered, files, broker, verdict,
                   clients>>

\* The executor does not ask, or drops permit at the await it is at: the
\* answer, or the append of the decision.
StopCall(c) ==
    /\ RunOf[c] \in cancelled
    /\ pc[c] \in {"idle", "asking", "record"}
    /\ Goto(c, "stopped")
    /\ pending' = pending \ {c}
    /\ UNCHANGED <<mode, cancelled, remembered, files, inbox, accepted,
                   verdict, clients>>

-----------------------------------------------------------------------------
(* Outside the run: clients subscribe and leave; tools.allow and           *)
(* tools.deny read a file and write it back (PermissionService::add_rule). *)

\* agent.subscribe by the first client of a run; the last one leaves.
ToggleListening(r) ==
    /\ toggles < scene.toggles
    /\ toggles' = toggles + 1
    /\ listening' = IF r \in listening THEN listening \ {r} ELSE listening \cup {r}
    /\ UNCHANGED <<mode, cancelled, remembered, files, broker, pc, verdict, scene>>

ReadForEdit(f, rule) ==
    /\ editor = NoDraft
    /\ Appendable(f)
    /\ editor' = [to |-> f, layer |-> WithRule(file[f], rule)]
    /\ UNCHANGED <<mode, cancelled, remembered, file, draft, written, broker, pc,
                   verdict, clients>>

WriteEdit ==
    /\ editor # NoDraft
    /\ file' = [file EXCEPT ![editor.to] = editor.layer]
    /\ editor' = NoDraft
    /\ UNCHANGED <<mode, cancelled, remembered, draft, written, broker, pc,
                   verdict, clients>>

-----------------------------------------------------------------------------

Proceeds(c) ==
    /\ Undisturbed(c)
    /\ \/ DecideCall(c) \/ TakeAnswer(c) \/ WriteRule(c) \/ TimeOut(c)
       \/ ForgetExpired(c) \/ RecordDecision(c) \/ StopCall(c)

\* Every call has been decided or dropped.
Quiescent ==
    /\ \A c \in Calls : pc[c] \in {"done", "stopped"}
    /\ UNCHANGED vars

Next ==
    \/ \E c \in Calls : Proceeds(c)
    \/ \E c \in Calls, a \in scene.answers, on \in scene.scopes : Respond(c, a, on)
    \/ \E r \in scene.runs : Cancel(r) \/ ToggleListening(r)
    \/ \E f \in {"workspace", "user"}, rule \in scene.edits : ReadForEdit(f, rule)
    \/ WriteEdit
    \/ Quiescent

\* The timer fires and the task is polled; nobody has to answer.
Fairness == \A c \in Calls : WF_vars(Proceeds(c))

Spec == Init /\ [][Next]_vars /\ Fairness

-----------------------------------------------------------------------------
(* Properties. *)

AcceptedFor(c) == {x.ans : x \in {y \in accepted : y.call = c}}

\* broker.rs respond: the first answer settles the request.  At most one
\* answer to a prompt counts, and a decision said to be the user's is that
\* answer's.
FirstAnswerDecides ==
    \A c \in Calls :
        /\ Cardinality(AcceptedFor(c)) <= 1
        /\ verdict[c].source = "user" =>
              \E x \in AcceptedFor(c) :
                 verdict[c].decision =
                    IF x.answer \in {"deny_once", "deny_always"} THEN "deny" ELSE "allow"

\* broker.rs Forget: a prompt is answerable exactly while a call waits for
\* the answer; none outlives its call, however the wait ended.
NoPromptOutlivesItsCall ==
    \A c \in pending : pc[c] \in {"asking", "expired"}

\* A call that may change something runs only with somebody's consent: a
\* rule of a file, the run's auto mode inside the workspace, this call's own
\* answer, or an earlier allow_session of the same session that covers it.
MutatesByConsent ==
    \A c \in Calls : verdict[c].decision = "allow" /\ Mutating(Req(c)) =>
        /\ mode[RunOf[c]] # "plan"
        /\ \/ verdict[c].source = "rule"
           \/ /\ verdict[c].source = "mode"
              /\ mode[RunOf[c]] = "auto" /\ ~Req(c).outside
           \/ verdict[c].source = "user" /\ AcceptedFor(c) # {}
           \/ /\ verdict[c].source = "session"
              /\ \E x \in accepted :
                    /\ RunOf[x.call] = RunOf[c]
                    /\ x.ans.answer = "allow_session"
                    /\ Req(c) \in x.ans.on

\* rules.rs: a deny of any file stands, whatever other files say and
\* whatever the session remembers; a file that does not parse allows nothing.
DeniedStaysDenied ==
    [][\A c \in Calls :
          LET denies == \E f \in {"workspace", "user"} : Says(file[f], Req(c), "deny")
              broken == \E f \in {"workspace", "user"} : file[f].state = "broken"
          IN  verdict[c] = Undecided /\ verdict'[c].decision = "allow" =>
                 /\ denies => verdict'[c].source = "user"
                 /\ broken => verdict'[c].source # "rule"]_vars

\* A prompt ends: answered, timed out, or with its run.
PromptsEnd == \A c \in Calls : pc[c] = "asking" ~> pc[c] \in {"done", "stopped"}

\* permissions/mod.rs:13-15: the rule an answer wrote spares the next call it
\* covers the prompt.  Only three things void it: a file that asks about the
\* call (the new rule goes behind the others), a file that does not parse, and
\* another writer that put back the file it had read before.
AnswerSpares ==
    [][\A c \in pending' \ pending : \A d \in written : \A x \in AcceptedFor(d) :
          Req(c) \in x.on =>
              \E f \in DOMAIN file :
                  \/ Says(file[f], Req(c), "ask")
                  \/ file[f].state = "broken"
                  \/ /\ f = Target(x.answer)
                     /\ \A i \in 1 .. Len(file[f].rules) :
                           file[f].rules[i] # RuleOf(x)]_vars
=============================================================================
