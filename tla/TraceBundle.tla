----------------------------- MODULE TraceBundle -----------------------------
(***************************************************************************)
(* Leaving the store and coming back: trace bundles (crates/core/src/      *)
(* bundle and trace/bundle.rs) with their redaction, session exports       *)
(* (trace/sessions.rs) and the replay check of what came back.             *)
(*                                                                         *)
(* An export reads its rows under the store's lock and an import writes    *)
(* them in one transaction; the blob files in between are immutable and    *)
(* nothing in the daemon removes one, so each is one step.                 *)
(***************************************************************************)
EXTENDS SessionRuns

CONSTANTS Secrets,       \* the texts a redaction rule finds a secret in
          Hidden,        \* such a text with a token in the secret's place
          Redactions,    \* whether bundles are redacted: subset of BOOLEAN
          MaxExports, MaxImports      \* bounds

\* redact_str keeps what stands around a secret and writes the rule's name
\* and a number for it: nothing of the secret is left.
ASSUME HiddenIsNoSecret == Hidden \notin Secrets

VARIABLE file           \* what was exported last

NoFile == [kind |-> "none"]

transfers == <<file, bundles, exports, imports>>
StoreOnly == UNCHANGED <<daemon, run, title, lost, counters>>

-----------------------------------------------------------------------------
(* Redaction: the same rules over messages, payloads and text blobs.       *)

Hide(t)      == IF t \in Secrets THEN Hidden ELSE t
HideAll(ts)  == [i \in DOMAIN ts |-> Hide(ts[i])]
HideWire(ms) == [i \in DOMAIN ms |-> <<ms[i][1], HideAll(ms[i][2])>>]

\* Faulty: the messages of requests stay as they were.
HideTextBlob(c) ==
    IF c # None /\ c[1] \in {"text", "title"} THEN <<c[1], HideAll(c[2])>> ELSE c

HideBlob(c) ==
    CASE c = None                  -> None
      [] c # None /\ c[1] = "request" -> RequestBlob(HideWire(c[2]))
      [] c # None /\ c[1] \in {"text", "title"} -> <<c[1], HideAll(c[2])>>
      [] OTHER                     -> c

\* A redacted blob has another id, and the events name that.
RedactRows(rows) ==
    [rows EXCEPT
        !.events   = {[e EXCEPT !.body = HideBlob(@), !.raw = HideBlob(@)] : e \in @},
        !.messages = {[m EXCEPT !.texts = HideAll(@)] : m \in @},
        !.blobs    = {HideBlob(c) : c \in @}]

-----------------------------------------------------------------------------
(* Bundles. *)

\* bundle_rows: every row of the sessions ss and of the blobs they name.
BundleRows(ss) ==
    LET agents == {r \in db.agents : r.session \in ss}
        events == {r \in db.events : r.session \in ss}
    IN  [sessions |-> {r \in db.sessions : r.id \in ss},
         agents   |-> agents,
         steps    |-> {r \in db.steps : r.agent \in Ids(agents)},
         events   |-> events,
         calls    |-> {r \in db.calls : r.session \in ss},
         messages |-> {r \in db.messages : r.session \in ss},
         blobs    |-> {c \in NamedIn(events) : c \in DOMAIN db.refs}]

Export(ss, redact) ==
    /\ Up /\ bundles + exports < MaxExports /\ Outside
    /\ ss # {} /\ ss \subseteq Ids(db.sessions)
    /\ file' = [kind |-> "bundle", redacted |-> redact,
                rows |-> IF redact THEN RedactRows(BundleRows(ss)) ELSE BundleRows(ss)]
    /\ bundles' = bundles + 1
    /\ UNCHANGED <<db, used, exports, imports>> /\ StoreOnly

\* The ids for the sessions whose own are taken: fresh ones.
FreshIds(taken)  == CHOOSE f \in Injection(taken, Sessions \ used) : TRUE
CanRename(taken) == Injection(taken, Sessions \ used) # {}

\* An id of a renamed session, or of anything under it, in that session.
Renamed(f, id) == IF id # None /\ id[1] \in DOMAIN f THEN [id EXCEPT ![1] = f[@]] ELSE id
SessionOf(f, s) == IF s \in DOMAIN f THEN f[s] ELSE s

RenameSession(f, r) == [r EXCEPT !.id = SessionOf(f, @)]
RenameAgent(f, r)   == [r EXCEPT !.id = Renamed(f, @), !.session = SessionOf(f, @)]
RenameStep(f, r)    == [r EXCEPT !.id = Renamed(f, @), !.agent = Renamed(f, @)]
RenameEvent(f, r)   == [r EXCEPT !.id = Renamed(f, @), !.session = SessionOf(f, @),
                                 !.agent = Renamed(f, @)]
RenameMessage(f, r) == [r EXCEPT !.session = SessionOf(f, @), !.step = Renamed(f, @)]

RenameCall(f, r) ==
    [r EXCEPT !.id = Renamed(f, @), !.session = SessionOf(f, @),
              !.agent = Renamed(f, @), !.step = Renamed(f, @),
              !.request = Renamed(f, @), !.response = Renamed(f, @)]

RenameRows(rows, f) ==
    [rows EXCEPT
        !.sessions = {RenameSession(f, r) : r \in @},
        !.agents   = {RenameAgent(f, r) : r \in @},
        !.steps    = {RenameStep(f, r) : r \in @},
        !.events   = {RenameEvent(f, r) : r \in @},
        !.calls    = {RenameCall(f, r) : r \in @},
        !.messages = {RenameMessage(f, r) : r \in @}]

\* One reference per event that names the blob.
CountBlobs(refs, rows) ==
    [c \in DOMAIN refs \cup rows.blobs |->
        Count(refs, c) + (IF c \in rows.blobs THEN Max({1, Names(rows.events, c)}) ELSE 0)]

\* import_bundle_rows.  With keep_ids an id that is taken is a conflict and
\* nothing is written; nothing else differs.
ImportBundle ==
    LET taken == Ids(file.rows.sessions) \cap Ids(db.sessions) IN
    /\ Up /\ imports < MaxImports /\ Outside
    /\ file.kind = "bundle"
    /\ CanRename(taken)
    /\ LET f    == FreshIds(taken)
           rows == RenameRows(file.rows, f)
       IN  /\ db' = [sessions |-> db.sessions \cup rows.sessions,
                     agents   |-> db.agents \cup rows.agents,
                     steps    |-> db.steps \cup rows.steps,
                     events   |-> db.events \cup rows.events,
                     calls    |-> db.calls \cup rows.calls,
                     messages |-> db.messages \cup rows.messages,
                     refs     |-> CountBlobs(db.refs, rows)]
           /\ used' = used \cup Ids(rows.sessions)
    /\ imports' = imports + 1
    /\ UNCHANGED <<file, bundles, exports>> /\ StoreOnly

-----------------------------------------------------------------------------
(* Session exports: the row, the messages and the calls without bodies.    *)

ExportSession(s) ==
    /\ Up /\ bundles + exports < MaxExports /\ Exists(db, s)
    /\ file' = [kind |-> "session", row |-> SessionRow(db, s),
                messages |-> In(db.messages, s), calls |-> In(db.calls, s)]
    /\ exports' = exports + 1
    /\ UNCHANGED <<db, used, bundles, imports>> /\ StoreOnly

\* import_call of one after the other: a request event of its own for each.
ImportCalls(d, s, cs) ==
    LET seq(i) == LastSeq(d, s) + i IN
    [d EXCEPT
        !.events = @ \cup {EventRow(s, seq(i), Event("mentor.request", cs[i].agent))
                             : i \in DOMAIN cs},
        !.calls  = @ \cup {[cs[i] EXCEPT !.request = <<s, seq(i)>>, !.response = None]
                             : i \in DOMAIN cs}]

\* import_session: a conflict when the id exists.
ImportSession ==
    /\ Up /\ imports < MaxImports /\ Outside
    /\ file.kind = "session" /\ ~ Exists(db, file.row.id)
    /\ db' = ImportCalls([db EXCEPT !.sessions = @ \cup {file.row},
                                     !.messages = @ \cup file.messages],
                          file.row.id, SetToSeq(file.calls))
    /\ imports' = imports + 1
    /\ UNCHANGED <<used, file, bundles, exports>> /\ StoreOnly

-----------------------------------------------------------------------------
(* replay_check --rebuild of one call.                                     *)

Replay(c) ==
    LET found == {e \in db.events : e.id = c.request}
        e     == CHOOSE e \in found : TRUE
        ms    == Conversation(db, c.session)
    IN  CASE found = {} -> "failed"
          [] found # {} /\ (e.kind # "mentor.request" \/ e.body = None) -> "failed"
          [] found # {} /\ e.body # None /\ c.kind # "step" -> "skipped"
          [] OTHER -> IF Len(ms) >= e.count /\ e.body = RequestBlob(SubSeq(ms, 1, e.count))
                      THEN "ok" ELSE "failed"
=============================================================================
