----------------------------- MODULE Transcript ------------------------------
(***************************************************************************)
(* The chats of the desktop application and what they look at: the rows    *)
(* and agents a daemon keeps of some sessions, the connection its events   *)
(* come over, and the view state of the window.  Transcript has the        *)
(* reducers (apps/gui/src/lib/transcript.ts), ChatDaemon the daemon and    *)
(* the bridge as the window sees them, ChatEffects the effects of          *)
(* lib/chat.ts and lib/sessions.ts; Chat composes them.                    *)
(*                                                                         *)
(* The transcript of one session and its reducers, after                   *)
(* apps/gui/src/lib/transcript.ts: stored rows, and the live overlay of    *)
(* the run in progress.  A row's content, notes, usage and outcomes are    *)
(* left out; of the calls of a run the status of the last is kept.         *)
(***************************************************************************)
EXTENDS Naturals, Sequences, FiniteSets, SequencesExt, TLC

CONSTANTS
    Sessions,
    Scenes,     \* what may happen, see SceneShape
    Page,       \* PAGE: rows of one session.get
    Keep,       \* KEEP: idle transcripts in memory
    MaxChats,   \* MAX_CHATS: session chats open
    MaxAgents   \* bound: runs

\* Bounds of one behaviour: the prompts this window sends, the runs begun by
\* another client, the times a session is shown, reloaded or scrolled back,
\* cancels, permission requests, reloads of the webview, losses of the
\* connection, the mentor calls of a run; the sessions of the runs that are
\* over, one prompt and answer each, but the last when it is unanswered; open
\* are the chats that are shown and loaded at first.
SceneShape ==
    [sends : Nat, elsewhere : Nat, shows : Nat, reloads : Nat, olders : Nat,
     cancels : Nat, asks : Nat, webviews : Nat, losses : Nat, steps : Nat,
     past : Seq(Sessions), unanswered : BOOLEAN, open : Seq(Sessions)]

ASSUME ChatAssumption ==
    /\ Scenes \subseteq SceneShape
    /\ {Page, Keep, MaxChats, MaxAgents} \subseteq Nat \ {0}

VARIABLES
    left,        \* what of the scene may still happen
    rows,        \* session_messages of each session, by seq
    agents,      \* each agent: its row, and where its task is
    connected,   \* the backend has a connection
    copies,      \* subscriptions of the connection to each agent's events
    stream,      \* the channel the bridge re-emits each agent's events on
    requests,    \* async functions of the window that await something
    transcripts, \* useTranscripts: transcripts
    order,       \* useTranscripts: order, least recently shown first
    chats,       \* useStore: sessions with a chat, oldest first
    queued,      \* events on their way to the next flush
    listeners,   \* the channel each session listens on, 0 if none
    heard,       \* <<channel, session>>: Tauri listeners
    pending,     \* usePermissions: agents whose request is shown
    sawEnd       \* history: agents whose end the transcript in memory was told of

daemon == <<rows, agents>>
wire   == <<connected, copies, stream>>
tabs   == <<order, chats, sawEnd>>
view   == <<transcripts, tabs, pending>>
ears   == <<queued, listeners, heard>>
vars   == <<left, daemon, wire, requests, view, ears>>

Agents == 1 .. MaxAgents
NoAgent == 0
NoChannel == 0

Ended == {"ok", "error", "cancelled"}

\* One use of an allowance of the scene.
Spend(f) == left[f] > 0 /\ left' = [left EXCEPT ![f] = @ - 1]

-----------------------------------------------------------------------------
(* Events and rows. *)

\* An event of agent.run's subscription; n is its step, status how it ended.
Event(a, t, n, st) == [agent |-> a, type |-> t, n |-> n, status |-> st]
Finished(a, st) == Event(a, "finished", 0, st)
EventTypes == {"step", "part", "request", "decision", "result", "finished"}

\* A row of a session; turns counts the prompts a user row has joined.
Row(role, a, turns) == [role |-> role, agent |-> a, turns |-> turns]

\* The newest row a chat or a session has, 0 if none.
Newest(seqs) == IF seqs = {} THEN 0 ELSE CHOOSE q \in seqs : \A p \in seqs : p <= q
Oldest(seqs) == CHOOSE q \in seqs : \A p \in seqs : q <= p

\* The least number that is not used.
Least(used) == CHOOSE n \in 0 .. Cardinality(used) :
                  n \notin used /\ \A m \in 0 .. n - 1 : m \in used

\* What session.get answers.
NoRows == [q \in {} |-> Row("user", NoAgent, 0)]
NoAnswer == [rows |-> NoRows, more |-> FALSE, statuses |-> << >>]

-----------------------------------------------------------------------------
(* The async functions of the window, as requests. *)

Kinds == {"newest", "older", "refresh", "run", "subscribe", "cancel", "respond"}

\* stage is listen (subscribe(channel) is awaited), sent, read (session.get has
\* read the rows, not yet the agents), answered or failed; from is the seq a
\* page starts at; closing is finish awaiting its refresh; here is false once
\* the page that asked is gone.
Request(kind, s) ==
    [kind |-> kind, session |-> s, stage |-> "sent", from |-> 0,
     closing |-> FALSE, channel |-> NoChannel, agent |-> NoAgent,
     answer |-> NoAnswer, here |-> TRUE, id |-> 0]

Asked(r) ==
    [r EXCEPT !.id = Least({q.id : q \in
        {p \in requests : p.kind = r.kind /\ p.session = r.session}})]

\* client(): without a connection a call fails at once.
Sent(r) == Asked([r EXCEPT !.stage = IF connected THEN "sent" ELSE "failed"])

\* newChannel.
FreshChannel ==
    Least({NoChannel} \cup {h[1] : h \in heard} \cup {r.channel : r \in requests}
             \cup {stream[a] : a \in Agents})

-----------------------------------------------------------------------------
\* The overlay: prompt says whether the typed prompt is still shown, steps are
\* the mentor calls whose assistant row is not stored, each with what streamed.
NoLive == [phase |-> "none", agent |-> NoAgent, sub |-> NoAgent,
           prompt |-> FALSE, steps |-> << >>, error |-> FALSE]
Phases == {"none", "starting", "running", "cancelling", "done"}

NoTranscript == [known |-> FALSE]
EmptyTranscript ==
    [known |-> TRUE, info |-> FALSE, messages |-> NoRows, hasOlder |-> FALSE,
     turns |-> [a \in Agents |-> "none"], calls |-> [a \in Agents |-> "none"],
     live |-> NoLive, loading |-> FALSE]

isBusy(t) == t.known /\ t.live.phase \in {"starting", "running", "cancelling"}
maxSeq(t) == Newest(DOMAIN t.messages)

-----------------------------------------------------------------------------
(* Stored rows. *)

\* A finished run is never shown as running again.
turnFromSummary(stored, shown) ==
    IF shown \in Ended /\ stored = "running" THEN shown ELSE stored

\* The overlay once page is stored: the prompt goes with a user row of the live
\* agent, a step with each assistant row that was not known before.
Shrunk(live, page, before) ==
    LET mine == {q \in DOMAIN page.rows : page.rows[q].agent = live.agent}
        stored == Cardinality({q \in mine :
                     page.rows[q].role = "assistant" /\ q > before})
    IN  IF live.agent = NoAgent
        THEN live
        ELSE [live EXCEPT
                !.prompt = @ /\ \A q \in mine : page.rows[q].role # "user",
                !.steps = SubSeq(@, stored + 1, Len(@))]

mergeStored(t, page, mode) ==
    [t EXCEPT
        !.info = TRUE,
        !.messages = page.rows @@ @,
        !.hasOlder = IF mode = "refresh" THEN @ ELSE page.more,
        !.turns = [a \in Agents |->
                      IF a \in DOMAIN page.statuses
                      THEN turnFromSummary(page.statuses[a], @[a])
                      ELSE @[a]],
        !.loading = FALSE,
        !.live = Shrunk(@, page, maxSeq(t))]

loadingTranscript(t) == [t EXCEPT !.loading = TRUE]
failedLoad(t) == [t EXCEPT !.loading = FALSE]

-----------------------------------------------------------------------------
(* The live run. *)

\* Forgets a finished overlay with nothing left to show.
clearLive(t) ==
    IF t.live.phase = "done" /\ ~t.live.error /\ ~t.live.prompt
       /\ t.live.steps = << >>
    THEN [t EXCEPT !.live = NoLive]
    ELSE t

startLive(t) ==
    [t EXCEPT !.live = [NoLive EXCEPT !.phase = "starting", !.prompt = TRUE]]

\* Faulty: it takes the agent to be running.
attachRunning(t, a, sub) ==
    [t EXCEPT
        !.turns[a] = "running",
        !.live = [@ EXCEPT
            !.phase = IF @ \in {"none", "starting"} THEN "running" ELSE @,
            !.agent = a,
            !.sub = IF sub = NoAgent THEN @ ELSE sub]]

\* agent.run or agent.subscribe answered; sub is NoAgent while it is not known.
attachLive(t, a, sub) ==
    [t EXCEPT
        !.turns[a] = IF @ = "none" THEN "running" ELSE @,
        !.live = [@ EXCEPT
            !.phase = IF @ \in {"none", "starting"} THEN "running" ELSE @,
            !.agent = a,
            !.sub = IF sub = NoAgent THEN @ ELSE sub]]

failLive(t) == [t EXCEPT !.live.phase = "done", !.live.error = TRUE]

cancellingLive(t) ==
    IF t.live.phase = "running" THEN [t EXCEPT !.live.phase = "cancelling"] ELSE t
resumedLive(t) ==
    IF t.live.phase = "cancelling" THEN [t EXCEPT !.live.phase = "running"] ELSE t

-----------------------------------------------------------------------------
(* One event. *)

Step(n, parts) == [seq |-> n, parts |-> parts]

\* currentStep and patchStep: what streams goes to the last step, or to a first.
Streamed(steps) ==
    IF steps = << >>
    THEN <<Step(1, 1)>>
    ELSE [steps EXCEPT ![Len(steps)].parts = @ + 1]

\* A call whose agent has ended is not running.
Over(status) == IF status = "running" THEN "error" ELSE status

\* Nothing is folded in without a live run, after its end, or of another
\* subscription; the first event names the subscription and the agent.
applyEvent(t, ev) ==
    LET a == ev.agent
        seen == [t EXCEPT
            !.turns[a] = IF @ = "none" THEN "running" ELSE @,
            !.live = [@ EXCEPT
                !.phase = IF @ = "starting" THEN "running" ELSE @,
                !.sub = a,
                !.agent = IF @ = NoAgent THEN a ELSE @]]
        steps == t.live.steps
    IN  CASE \/ t.live.phase \in {"none", "done"}
             \/ t.live.sub \notin {NoAgent, a} -> t
          [] ev.type = "step" /\ (steps = << >> \/ Last(steps).seq # ev.n) ->
                [seen EXCEPT !.live.steps = Append(@, Step(ev.n, 0))]
          [] ev.type = "part" ->
                [seen EXCEPT !.live.steps = Streamed(@),
                             !.calls[a] = IF ev.status = "call" THEN "running" ELSE @]
          [] ev.type = "result" ->
                [seen EXCEPT !.calls[a] =
                    IF ev.status = "error" /\ @ = "denied" THEN @ ELSE ev.status]
          [] ev.type = "decision" /\ ev.status = "denied" ->
                [seen EXCEPT !.calls[a] = "denied"]
          [] ev.type = "finished" ->
                [seen EXCEPT !.turns[a] = ev.status,
                             !.calls = [b \in Agents |-> Over(@[b])],
                             !.live.phase = "done"]
          [] OTHER -> seen
=============================================================================
