----------------------------- MODULE StoreTables -----------------------------
(***************************************************************************)
(* The tables of the trace store and the transactions on them, from        *)
(* crates/core/src/trace (store.rs, sessions.rs, schema.rs).               *)
(*                                                                         *)
(* A database is a record of tables, a table a set of rows, a transaction  *)
(* an operator from a database to the next.  Rows keep the columns that    *)
(* name other rows and the ones the properties are about.                  *)
(*                                                                         *)
(* A generated id is a tuple that starts with the session it was generated *)
(* for: <<s, k>> the k-th run's agent, <<s, k, n>> that agent's n-th step  *)
(* and the call it makes, <<s, q>> also the event with seq q.  A blob's id *)
(* is the hash of its content, so the content stands for it.               *)
(***************************************************************************)
EXTENDS Integers, Sequences, FiniteSetsExt, SequencesExt, TLC

CONSTANT Sessions      \* the ids SessionId::generate may yield

ASSUME SessionsAssumption == Sessions # {}

None == << >>

Answer  == "answer"       \* the text of an assistant turn
Uses    == "uses"         \* ... that calls tools
Results == "results"      \* a user turn of tool results

\* Contents: what a message adds, a request of messages, a reply, a stream.
TextBlob(t)      == <<"text", <<t>>>>
RequestBlob(ms)  == <<"request", ms>>
TitleBlob(t)     == <<"title", <<t, Answer>>>>
ReplyBlob(r)     == <<"reply", <<r>>>>
StreamBlob(step) == <<"stream", step>>

EmptyStore == [sessions |-> {}, agents |-> {}, steps |-> {}, calls |-> {},
               events |-> {}, messages |-> {}, refs |-> << >>]

-----------------------------------------------------------------------------

Exists(d, s)      == \E r \in d.sessions : r.id = s
SessionRow(d, s)  == CHOOSE r \in d.sessions : r.id = s
AgentExists(d, a) == \E r \in d.agents : r.id = a
In(rows, s)       == {r \in rows : r.session = s}
Ids(rows)         == {r.id : r \in rows}

Set(rows, id, f(_)) == {IF r.id = id THEN f(r) ELSE r : r \in rows}

\* session_messages: the rows in the order of seq.
Messages(d, s) ==
    LET ms == In(d.messages, s) IN
    [i \in 1 .. Cardinality(ms) |->
        CHOOSE m \in ms : Cardinality({x \in ms : x.seq <= m.seq}) = i]
Wire(ms)       == [i \in DOMAIN ms |-> <<ms[i].role, ms[i].texts>>]
Conversation(d, s) == Wire(Messages(d, s))

-----------------------------------------------------------------------------
(* Events and blobs. *)

Event(kind, agent) == [kind |-> kind, agent |-> agent, body |-> None, raw |-> None, count |-> 0]
WithBody(e, c)     == [e EXCEPT !.body = c]

\* register_blob: a row, or one reference more.
Count(refs, c) == IF c \in DOMAIN refs THEN refs[c] ELSE 0
Register(refs, c) ==
    IF c = None THEN refs
    ELSE [x \in DOMAIN refs \cup {c} |-> Count(refs, x) + IF x = c THEN 1 ELSE 0]

PutBlob(d, c) == [d EXCEPT !.refs = Register(@, c)]

\* insert_event: the session's next seq; the body is registered with it.
LastSeq(d, s) == Max({0} \cup {x.seq : x \in In(d.events, s)})
EventRow(s, q, e) ==
    [id |-> <<s, q>>, session |-> s, seq |-> q, kind |-> e.kind, agent |-> e.agent,
     body |-> e.body, raw |-> e.raw, count |-> e.count]
InsertEvent(d, s, e) ==
    [d EXCEPT !.events = @ \cup {EventRow(s, LastSeq(d, s) + 1, e)},
              !.refs = Register(@, e.body)]
NextEvent(d, s) == <<s, LastSeq(d, s) + 1>>

\* How often the events of es name the blob c: as the body or in the payload.
Names(es, c) == Cardinality({x \in es : x.body = c}) + Cardinality({x \in es : x.raw = c})

NamedIn(es) == ({x.body : x \in es} \cup {x.raw : x \in es}) \ {None}

\* Faulty: a reference in a payload is not given back.
ReleaseBodies(d, s) ==
    [d EXCEPT !.refs = [c \in DOMAIN @ |->
        LET n == Cardinality({x \in In(d.events, s) : x.body = c}) IN Max({@[c] - n, 0})]]

\* release_blobs: what the events of s name is given back.
ReleaseBlobs(d, s) ==
    [d EXCEPT !.refs = [c \in DOMAIN @ |-> Max({@[c] - Names(In(d.events, s), c), 0})]]

-----------------------------------------------------------------------------
(* Messages. *)

PutMessage(d, m) ==
    [d EXCEPT !.messages = {x \in @ : ~ (x.session = m.session /\ x.seq = m.seq)} \cup {m}]

Message(s, n, role, texts, step) ==
    [session |-> s, seq |-> n, role |-> role, texts |-> texts, step |-> step]

\* A user text joins a user turn that is last, the row then names no step.
PutUserText(d, s, t) ==
    LET ms == Messages(d, s)
        n  == Len(ms)
    IN  IF n > 0 /\ ms[n].role = "user"
        THEN PutMessage(d, Message(s, n, "user", Append(ms[n].texts, t), None))
        ELSE PutMessage(d, Message(s, n + 1, "user", <<t>>, None))

PutNext(d, s, role, text, step) ==
    PutMessage(d, Message(s, Len(Messages(d, s)) + 1, role, <<text>>, step))

Truncate(d, s, keep) ==
    [d EXCEPT !.messages = {m \in @ : m.session # s \/ m.seq <= keep}]

\* The last turn called tools nobody answered.
Pending(d, s) ==
    LET ms == Messages(d, s) IN ms # << >> /\ Last(ms).texts = <<Uses>>

-----------------------------------------------------------------------------
(* Sessions, agents, steps and calls. *)

CreateSession(d, s) ==
    InsertEvent([d EXCEPT !.sessions = @ \cup {[id |-> s, status |-> "open", source |-> "none"]}],
                s, Event("session.created", None))

SetSession(d, s, f(_)) == [d EXCEPT !.sessions = Set(@, s, f)]

\* Faulty: whatever came last.
SetTitleAlways(d, s, source) == SetSession(d, s, LAMBDA r : [r EXCEPT !.source = source])

\* set_session_title: a title of the user is only replaced by the user.
SetTitle(d, s, source) ==
    IF SessionRow(d, s).source = "user" /\ source # "user" THEN d
    ELSE SetSession(d, s, LAMBDA r : [r EXCEPT !.source = source])

StartAgent(d, s, a) ==
    InsertEvent([d EXCEPT !.agents = @ \cup {[id |-> a, session |-> s, status |-> "running"]}],
                s, Event("agent.started", a))

FinishAgent(d, s, a, status) ==
    InsertEvent([d EXCEPT !.agents = Set(@, a, LAMBDA r : [r EXCEPT !.status = status])],
                s, Event("agent.finished", a))

\* The next step of a: its seq follows the largest.
NextStep(d, a) == Append(a, 1 + Cardinality({r \in d.steps : r.agent = a}))

StartStep(d, a) ==
    [d EXCEPT !.steps = @ \cup {[id |-> NextStep(d, a), agent |-> a, status |-> "running"]}]

FinishStep(d, step, status) ==
    [d EXCEPT !.steps = Set(@, step, LAMBDA r : [r EXCEPT !.status = status])]

\* append_with_call: the request event and the row that points at it.
RecordRequest(d, s, a, step, kind, body, count) ==
    LET e == [WithBody(Event("mentor.request", a), body) EXCEPT !.count = count] IN
    [InsertEvent(d, s, e) EXCEPT !.calls = @ \cup
        {[id |-> step, session |-> s, agent |-> a, step |-> step, request |-> NextEvent(d, s),
          response |-> None, kind |-> kind, status |-> "running"]}]

\* append_with_completion after record_mentor_response.
RecordResponse(d, s, a, step, r) ==
    LET e == [WithBody(Event("mentor.response", a), ReplyBlob(r)) EXCEPT !.raw = StreamBlob(step)]
    IN  [InsertEvent(d, s, e) EXCEPT
            !.calls = Set(@, step, LAMBDA c : [c EXCEPT !.status = "ok",
                                                        !.response = NextEvent(d, s)])]

\* append_with_completion after record_mentor_error.
RecordError(d, s, a, step) ==
    [InsertEvent(d, s, Event("mentor.error", a)) EXCEPT
        !.calls = Set(@, step, LAMBDA c : [c EXCEPT !.status = "error"])]

\* recover_orphaned_agents, one agent: one transaction.
RecoverAgent(d, a) ==
    LET s  == (CHOOSE r \in d.agents : r.id = a).session
        d2 == [d EXCEPT !.steps = {IF r.agent = a /\ r.status = "running"
                                   THEN [r EXCEPT !.status = "error"] ELSE r : r \in @},
                        !.calls = {IF r.agent = a /\ r.status = "running"
                                   THEN [r EXCEPT !.status = "error"] ELSE r : r \in @}]
    IN  InsertEvent(FinishAgent(d2, s, a, "error"), s, Event("outcome", a))

-----------------------------------------------------------------------------
(* Lifecycle. *)

SetStatus(d, s, status) ==
    InsertEvent(SetSession(d, s, LAMBDA r : [r EXCEPT !.status = status]),
                s, Event("session.status", None))

DeleteSession(d, s) == SetStatus(Truncate(d, s, 0), s, "deleted")

\* With purge_traces: every row of the session, and its own.
PurgeSession(d, s) ==
    [ReleaseBlobs(Truncate(d, s, 0), s) EXCEPT
        !.calls    = {r \in @ : r.session # s},
        !.events   = {r \in @ : r.session # s},
        !.steps    = {r \in @ : \A a \in In(d.agents, s) : r.agent # a.id},
        !.agents   = {r \in @ : r.session # s},
        !.sessions = {r \in @ : r.id # s}]
=============================================================================
