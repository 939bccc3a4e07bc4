--------------------------- MODULE TraceStoreProofs ---------------------------
(***************************************************************************)
(* TraceStore for every value of its constants: the references between the *)
(* tables and what they count (TablesWhole), the title a user gave, and    *)
(* that what the mentor was asked can be built again (CallsReplay).        *)
(***************************************************************************)
EXTENDS TraceStore, FiniteSetTheorems, SequenceTheorems, TLAPS

-----------------------------------------------------------------------------
(* The tables.  What is said of them holds of the store's and of those in  *)
(* an exported bundle.  An agent's number is at most n.                    *)

Statuses == {"running"} \cup Ended

SessionsOK(sessions) ==
    /\ \A r \in sessions :
          /\ DOMAIN r = {"id", "status", "source"}
          /\ r.id \in Sessions
          /\ r.status \in {"open", "archived", "deleted"}
          /\ r.source \in {"none", "prompt", "generated", "user"}
    /\ \A r, q \in sessions : r.id = q.id => r = q

AgentOf(a, s, n) == \E k \in 1 .. n : a = <<s, k>>

AgentsOK(agents, ss, n) ==
    /\ \A r \in agents :
          /\ DOMAIN r = {"id", "session", "status"}
          /\ r.session \in ss /\ AgentOf(r.id, r.session, n)
          /\ r.status \in Statuses
    /\ \A r, q \in agents : r.id = q.id => r = q

StepsOK(steps, as) ==
    /\ IsFiniteSet(steps)
    /\ \A r \in steps :
          /\ DOMAIN r = {"id", "agent", "status"}
          /\ r.agent \in as
          /\ r.status \in Statuses

EventFields == {"id", "session", "seq", "kind", "agent", "body", "raw", "count"}

\* The events of a session are numbered from 1.
Counted(events, s) == \E n \in Nat : {e.seq : e \in In(events, s)} = 1 .. n

EventsOK(events, ss, n) ==
    /\ IsFiniteSet(events)
    /\ \A e \in events :
          /\ DOMAIN e = EventFields
          /\ e.session \in ss /\ e.id = <<e.session, e.seq>>
          /\ e.agent = None \/ AgentOf(e.agent, e.session, n)
    /\ \A s \in ss : Counted(events, s)
    /\ \A d, e \in events : d.id = e.id => d = e

CallFields == {"id", "session", "agent", "step", "request", "response", "kind", "status"}

\* A call's id is its step's, and begins with its agent.
CallNamed(c, n) ==
    \E k \in 1 .. n, m \in Nat : c.agent = <<c.session, k>> /\ c.id = <<c.session, k, m>>

IsHome(e, c, id, kind) ==
    e.id = id /\ e.kind = kind /\ e.session = c.session /\ e.agent = c.agent

CallsOK(calls, events, ss, n) ==
    /\ IsFiniteSet(calls)
    /\ \A c \in calls :
          /\ DOMAIN c = CallFields
          /\ c.session \in ss /\ CallNamed(c, n)
          /\ c.status \in Statuses
          /\ \E e \in events : IsHome(e, c, c.request, "mentor.request")
          /\ c.response # None => \E e \in events : IsHome(e, c, c.response, "mentor.response")

MessagesOK(messages, ss) ==
    /\ IsFiniteSet(messages)
    /\ \A m \in messages :
          /\ DOMAIN m = {"session", "seq", "role", "texts", "step"}
          /\ m.session \in ss
          /\ m.role \in {"user", "assistant"}
          /\ m.seq \in Nat \ {0}

\* An agent that runs has no end recorded, any other exactly one.
Ends(events, a) == {e \in events : e.agent = a /\ e.kind = "agent.finished"}
EndsOK(agents, events) ==
    \A a \in agents :
        IF a.status = "running" THEN Ends(events, a.id) = {}
        ELSE \E e \in events : Ends(events, a.id) = {e}

OpenOK(calls, agents) ==
    \A c \in calls, a \in agents :
        c.agent = a.id /\ c.kind = "step" /\ c.status = "running" => a.status = "running"

\* What a table refers to is there.
Linked(t, n) ==
    /\ SessionsOK(t.sessions)
    /\ AgentsOK(t.agents, Ids(t.sessions), n)
    /\ StepsOK(t.steps, Ids(t.agents))
    /\ EventsOK(t.events, Ids(t.sessions), n)
    /\ CallsOK(t.calls, t.events, Ids(t.sessions), n)
    /\ MessagesOK(t.messages, Ids(t.sessions))

Closed(t) == EndsOK(t.agents, t.events) /\ OpenOK(t.calls, t.agents)

Tables(t, n) == Linked(t, n) /\ Closed(t)

-----------------------------------------------------------------------------
(* The invariant. *)

DbFields == {"sessions", "agents", "steps", "calls", "events", "messages", "refs"}

\* The numbers given to agents so far.
Given == IF run.at \in {"repair", "start"} THEN runs - 1 ELSE runs

\* The blobs whose event is still to come, or never came.
Held == lost \cup (IF run.at = "complete" THEN {StreamBlob(run.step)} ELSE {})
             \cup (IF title.at = "complete" THEN {StreamBlob(title.step)} ELSE {})

RefsOK(refs, events, held) ==
    /\ NamedIn(events) \subseteq DOMAIN refs /\ held \subseteq DOMAIN refs
    /\ \A c \in DOMAIN refs :
          /\ c # None
          /\ refs[c] = Names(events, c) + (IF c \in held THEN 1 ELSE 0)

RunPlaces == {"idle", "repair", "start", "turn", "step", "request", "mentor", "complete",
              "store", "results", "close", "finish"}

RunFits ==
    /\ DOMAIN run = {"at", "session", "agent", "step", "prompt", "reply"}
    /\ run.at \in RunPlaces
    /\ run.at # "idle" =>
          /\ runs \in Nat \ {0}
          /\ run.session \in Ids(db.sessions)
          /\ run.agent = <<run.session, runs>>
    /\ run.at \in RunPlaces \ {"idle", "repair", "start"} =>
          \E a \in db.agents : a.id = run.agent /\ a.status = "running"
    /\ run.at \in {"request", "mentor", "complete", "store", "results", "close"} =>
          \E m \in Nat : run.step = <<run.session, runs, m>>
    \* Only the call under way may be open.
    /\ run.at # "idle" =>
          \A c \in db.calls :
              c.agent = run.agent /\ c.kind = "step" /\ c.status = "running" =>
                  run.at \in {"mentor", "complete"} /\ c.id = run.step

TitleFits ==
    /\ DOMAIN title = {"at", "session", "agent", "step", "prompt"}
    /\ title.at \in {"idle", "step", "request", "mentor", "complete", "set"}
    /\ title.at # "idle" =>
          title.session \in used /\ AgentOf(title.agent, title.session, Given)
    /\ title.at # "idle" /\ run.at # "idle" => title.agent # run.agent
    /\ title.at \in {"request", "mentor", "complete"} =>
          \E m \in Nat : title.step = Append(title.agent, m)

\* What was lost is of an agent nobody works for any more.
LostFits ==
    \A c \in lost :
        \E s \in used, k \in 1 .. runs, m \in Nat :
            /\ c = StreamBlob(<<s, k, m>>)
            /\ run.at # "idle" => <<s, k>> # run.agent
            /\ title.at # "idle" => <<s, k>> # title.agent

UsedFits == Ids(db.sessions) \subseteq used /\ used \subseteq Sessions

BundleFields == {"sessions", "agents", "steps", "events", "calls", "messages", "blobs"}

FileFits ==
    /\ file.kind \in {"none", "bundle", "session"}
    /\ file.kind = "bundle" =>
          /\ DOMAIN file.rows = BundleFields
          /\ Tables(file.rows, Given)
          /\ Ids(file.rows.sessions) \subseteq used
          /\ file.rows.blobs = NamedIn(file.rows.events)
    /\ file.kind = "session" =>
          /\ SessionsOK({file.row}) /\ file.row.id \in used
          /\ MessagesOK(file.messages, {file.row.id})
          /\ IsFiniteSet(file.calls)
          /\ \A c \in file.calls :
                /\ DOMAIN c = CallFields
                /\ c.session = file.row.id /\ CallNamed(c, Given) /\ c.status \in Statuses

Whole(d, n, held) ==
    /\ DOMAIN d = DbFields
    /\ Linked(d, n)
    /\ RefsOK(d.refs, d.events, held)

Sound(d, n, held) == Whole(d, n, held) /\ Closed(d)

StoreInv ==
    /\ Sound(db, Given, Held)
    /\ runs \in Nat /\ daemon \in {"up", "recovering"}
    /\ daemon = "recovering" => run.at = "idle" /\ title.at = "idle"
    /\ RunFits /\ TitleFits /\ LostFits /\ UsedFits /\ FileFits

-----------------------------------------------------------------------------
(* Sets and numbers. *)

LEMMA MaxOfInterval ==
    ASSUME NEW n \in Nat
    PROVE  Max({0} \cup 1 .. n) = n
<1> DEFINE S == {0} \cup 1 .. n
<1>1. /\ n \in S /\ \A x \in S : n >= x
      /\ \A x \in S : (\A y \in S : x >= y) => x = n
  OBVIOUS
<1> HIDE DEF S
<1>2. (CHOOSE x \in S : \A y \in S : x >= y) = n
  BY <1>1
<1> QED
  BY <1>2 DEF Max, S

LEMMA MaxWithZero ==
    ASSUME NEW i \in Nat, NEW k \in Nat, k <= i
    PROVE  Max({i - k, 0}) = i - k
<1>1. i - k \in Nat
  OBVIOUS
<1>2. (CHOOSE x \in {i - k, 0} : \A y \in {i - k, 0} : x >= y) = i - k
  BY <1>1
<1> QED
  BY <1>2 DEF Max

LEMMA AppendToPair ==
    ASSUME NEW a, NEW b, NEW m
    PROVE  Append(<<a, b>>, m) = <<a, b, m>>
<1> DEFINE S == {a, b, m}
<1>1. /\ <<a, b>> \in Seq(S) /\ m \in S /\ Len(<<a, b>>) = 2
      /\ <<a, b, m>> \in Seq(S) /\ Len(<<a, b, m>>) = 3
  OBVIOUS
<1>2. /\ Append(<<a, b>>, m) \in Seq(S) /\ Len(Append(<<a, b>>, m)) = 3
      /\ \A i \in 1 .. 2 : Append(<<a, b>>, m)[i] = <<a, b>>[i]
      /\ Append(<<a, b>>, m)[3] = m
  BY <1>1, AppendProperties
<1>3. \A i \in 1 .. 3 : Append(<<a, b>>, m)[i] = <<a, b, m>>[i]
  BY <1>2
<1> HIDE DEF S
<1> QED
  BY <1>1, <1>2, <1>3, SeqEqual

LEMMA DisjointUnion ==
    ASSUME NEW A, NEW B, IsFiniteSet(A), IsFiniteSet(B), A \cap B = {}
    PROVE  Cardinality(A \cup B) = Cardinality(A) + Cardinality(B)
<1>1. Cardinality(A \cup B) = Cardinality(A) + Cardinality(B) - 0
  BY FS_Union, FS_EmptySet
<1>2. Cardinality(A) \in Nat /\ Cardinality(B) \in Nat
  BY FS_CardinalityType
<1> QED
  BY <1>1, <1>2

\* What is counted of two sets apart.
LEMMA NamesOfUnion ==
    ASSUME NEW A, NEW B, IsFiniteSet(A), IsFiniteSet(B), A \cap B = {}, NEW c
    PROVE  /\ Names(A, c) \in Nat /\ Names(B, c) \in Nat
           /\ Names(A \cup B, c) = Names(A, c) + Names(B, c)
<1> DEFINE Body(es) == {x \in es : x.body = c}
           Raw(es)  == {x \in es : x.raw = c}
<1>1. /\ IsFiniteSet(Body(A)) /\ IsFiniteSet(Body(B)) /\ IsFiniteSet(Raw(A)) /\ IsFiniteSet(Raw(B))
      /\ Body(A) \cap Body(B) = {} /\ Raw(A) \cap Raw(B) = {}
      /\ Body(A \cup B) = Body(A) \cup Body(B) /\ Raw(A \cup B) = Raw(A) \cup Raw(B)
  <2>1. Body(A) \in SUBSET A /\ Body(B) \in SUBSET B /\ Raw(A) \in SUBSET A /\ Raw(B) \in SUBSET B
    OBVIOUS
  <2>2. /\ Body(A) \cap Body(B) = {} /\ Raw(A) \cap Raw(B) = {}
        /\ Body(A \cup B) = Body(A) \cup Body(B) /\ Raw(A \cup B) = Raw(A) \cup Raw(B)
    OBVIOUS
  <2> HIDE DEF Body, Raw
  <2> QED
    BY <2>1, <2>2, FS_Subset
<1> HIDE DEF Body, Raw
<1>2. /\ Cardinality(Body(A)) \in Nat /\ Cardinality(Body(B)) \in Nat
      /\ Cardinality(Raw(A)) \in Nat /\ Cardinality(Raw(B)) \in Nat
  BY <1>1, FS_CardinalityType
<1>3. Cardinality(Body(A \cup B)) = Cardinality(Body(A)) + Cardinality(Body(B))
  BY <1>1, <1>2, DisjointUnion
<1>4. Cardinality(Raw(A \cup B)) = Cardinality(Raw(A)) + Cardinality(Raw(B))
  BY <1>1, <1>2, DisjointUnion
<1>5. \A es : Names(es, c) = Cardinality(Body(es)) + Cardinality(Raw(es))
  BY DEF Names, Body, Raw
<1> QED
  BY <1>2, <1>3, <1>4, <1>5

LEMMA NamesOfOne ==
    ASSUME NEW x, NEW c
    PROVE  Names({x}, c) = (IF x.body = c THEN 1 ELSE 0) + (IF x.raw = c THEN 1 ELSE 0)
<1>1. /\ {y \in {x} : y.body = c} = IF x.body = c THEN {x} ELSE {}
      /\ {y \in {x} : y.raw = c} = IF x.raw = c THEN {x} ELSE {}
  OBVIOUS
<1>2. Cardinality({x}) = 1 /\ Cardinality({}) = 0
  BY FS_Singleton, FS_EmptySet
<1> QED
  BY <1>1, <1>2 DEF Names

\* Only what is named counts.
LEMMA UnnamedIsZero ==
    ASSUME NEW es, NEW c, c \notin NamedIn(es), c # None
    PROVE  Names(es, c) = 0
<1>1. {y \in es : y.body = c} = {} /\ {y \in es : y.raw = c} = {}
  BY DEF NamedIn
<1> QED
  BY <1>1, FS_EmptySet DEF Names

\* What is named counts.
LEMMA NamedCounts ==
    ASSUME NEW es, IsFiniteSet(es), NEW c \in NamedIn(es)
    PROVE  Names(es, c) >= 1
<1> DEFINE body == {x \in es : x.body = c}
           raw  == {x \in es : x.raw = c}
<1>1. body # {} \/ raw # {}
  BY DEF NamedIn
<1>2. body \in SUBSET es /\ raw \in SUBSET es
  OBVIOUS
<1> HIDE DEF body, raw
<1>3. IsFiniteSet(body) /\ IsFiniteSet(raw)
  BY <1>2, FS_Subset
<1>4. Cardinality(body) \in Nat /\ Cardinality(raw) \in Nat
  BY <1>3, FS_CardinalityType
<1>5. Cardinality(body) # 0 \/ Cardinality(raw) # 0
  BY <1>1, <1>3, FS_EmptySet
<1>6. Names(es, c) = Cardinality(body) + Cardinality(raw)
  BY DEF Names, body, raw
<1> QED
  BY <1>4, <1>5, <1>6

LEMMA MaxWithOne ==
    ASSUME NEW i \in Nat, i >= 1
    PROVE  Max({1, i}) = i
<1>1. (CHOOSE x \in {1, i} : \A y \in {1, i} : x >= y) = i
  OBVIOUS
<1> QED
  BY <1>1 DEF Max

-----------------------------------------------------------------------------
(* An event more. *)

NewEvent(x, events, s) ==
    /\ DOMAIN x = EventFields
    /\ x.seq = Max({0} \cup {y.seq : y \in In(events, s)}) + 1
    /\ x.session = s /\ x.id = <<s, x.seq>>

LEMMA EventsGrow ==
    ASSUME NEW events, NEW ss, NEW n, EventsOK(events, ss, n), NEW s \in ss,
           NEW x, NewEvent(x, events, s), x.agent = None \/ AgentOf(x.agent, s, n)
    PROVE  EventsOK(events \cup {x}, ss, n) /\ x \notin events
<1>1. PICK m \in Nat : {y.seq : y \in In(events, s)} = 1 .. m
  BY DEF EventsOK, Counted
<1>2. x.seq = m + 1
  BY <1>1, MaxOfInterval DEF NewEvent
<1>3. ASSUME NEW e \in events
      PROVE  e.id # x.id
  <2>1. e.id = <<e.session, e.seq>> /\ x.id = <<s, x.seq>>
    BY DEF EventsOK, NewEvent
  <2>2. e.session = s => e.seq \in 1 .. m
    BY <1>1 DEF In
  <2> QED
    BY <1>2, <2>1, <2>2
<1>4. ASSUME NEW t \in ss
      PROVE  Counted(events \cup {x}, t)
  <2>1. CASE t = s
    <3>1. {y.seq : y \in In(events \cup {x}, s)} = {y.seq : y \in In(events, s)} \cup {x.seq}
      BY DEF In, NewEvent
    <3>2. (1 .. m) \cup {m + 1} = 1 .. (m + 1)
      OBVIOUS
    <3>3. m + 1 \in Nat
      OBVIOUS
    <3> QED
      BY <1>1, <1>2, <2>1, <3>1, <3>2, <3>3 DEF Counted
  <2>2. CASE t # s
    <3>1. In(events \cup {x}, t) = In(events, t)
      BY <2>2 DEF In, NewEvent
    <3> QED
      BY <3>1 DEF EventsOK, Counted
  <2> QED
    BY <2>1, <2>2
<1>5. IsFiniteSet(events \cup {x})
  BY FS_AddElement DEF EventsOK
<1>6. \A e \in events \cup {x} :
          /\ DOMAIN e = EventFields
          /\ e.session \in ss /\ e.id = <<e.session, e.seq>>
          /\ e.agent = None \/ AgentOf(e.agent, e.session, n)
  BY DEF EventsOK, NewEvent
<1>7. \A d, e \in events \cup {x} : d.id = e.id => d = e
  BY <1>3 DEF EventsOK
<1> QED
  BY <1>3, <1>4, <1>5, <1>6, <1>7 DEF EventsOK

\* The event x registers its body; the blob in its payload was held for it.
LEMMA RefsGrow ==
    ASSUME NEW refs, NEW events, NEW held, RefsOK(refs, events, held), IsFiniteSet(events),
           NEW x, x \notin events, NEW held2,
           \/ x.raw = None /\ held2 = held
           \/ x.raw \in held /\ x.raw # x.body /\ held2 = held \ {x.raw}
    PROVE  RefsOK(Register(refs, x.body), events \cup {x}, held2)
<1> DEFINE refs2 == Register(refs, x.body)
           es2   == events \cup {x}
<1>1. DOMAIN refs2 = DOMAIN refs \cup ({x.body} \ {None})
  BY DEF Register
<1>2. NamedIn(es2) = NamedIn(events) \cup ({x.body, x.raw} \ {None})
  BY DEF NamedIn
<1>3. held \subseteq DOMAIN refs /\ NamedIn(events) \subseteq DOMAIN refs /\ None \notin DOMAIN refs
  BY DEF RefsOK
<1>4. /\ NamedIn(es2) \subseteq DOMAIN refs2 /\ held2 \subseteq DOMAIN refs2
      /\ \A c \in DOMAIN refs2 : c # None
  <2> HIDE DEF refs2, es2
  <2> QED
    BY <1>1, <1>2, <1>3
<1>5. ASSUME NEW c \in DOMAIN refs2
      PROVE  refs2[c] = Names(es2, c) + (IF c \in held2 THEN 1 ELSE 0)
  <2>1. /\ Names(events, c) \in Nat
        /\ Names(es2, c) = Names(events, c) + ((IF x.body = c THEN 1 ELSE 0) + (IF x.raw = c THEN 1 ELSE 0))
    <3>1. IsFiniteSet({x}) /\ events \cap {x} = {}
      BY FS_Singleton
    <3>2. /\ Names(events, c) \in Nat
          /\ Names(events \cup {x}, c) = Names(events, c) + Names({x}, c)
      BY <3>1, NamesOfUnion
    <3> QED
      BY <3>2, NamesOfOne
  <2>2. c # None
    BY <1>4
  <2>3. Count(refs, c) = Names(events, c) + (IF c \in held THEN 1 ELSE 0)
    <3>1. CASE c \in DOMAIN refs
      BY <3>1 DEF RefsOK, Count
    <3>2. CASE c \notin DOMAIN refs
      BY <1>3, <2>2, <3>2, UnnamedIsZero DEF Count
    <3> QED
      BY <3>1, <3>2
  <2>4. refs2[c] = Count(refs, c) + (IF x.body = c THEN 1 ELSE 0)
    <3>1. CASE x.body = None
      <4>1. refs2 = refs /\ x.body # c
        BY <2>2, <3>1 DEF Register
      <4>2. Count(refs, c) = refs[c]
        BY <4>1 DEF Count
      <4> QED
        BY <2>1, <2>3, <4>1, <4>2
    <3>2. CASE x.body # None
      BY <3>2 DEF Register
    <3> QED
      BY <3>1, <3>2
  <2> HIDE DEF refs2, es2
  <2>5. CASE x.raw = c
    BY <2>1, <2>2, <2>3, <2>4, <2>5
  <2>6. CASE x.raw # c
    BY <2>1, <2>2, <2>3, <2>4, <2>6
  <2> QED
    BY <2>5, <2>6
<1> HIDE DEF refs2, es2
<1>6. RefsOK(refs2, es2, held2)
  BY <1>4, <1>5 DEF RefsOK
<1> QED
  BY <1>6 DEF refs2, es2

-----------------------------------------------------------------------------
(* What a transaction writes, table by table. *)

RowFields == {"kind", "agent", "body", "raw", "count"}

LEMMA InsertWrites ==
    ASSUME NEW d, DOMAIN d = DbFields, NEW s, NEW e
    PROVE  LET t == InsertEvent(d, s, e)
               x == EventRow(s, LastSeq(d, s) + 1, e)
           IN  /\ DOMAIN t = DbFields
               /\ t.sessions = d.sessions /\ t.agents = d.agents /\ t.steps = d.steps
               /\ t.calls = d.calls /\ t.messages = d.messages
               /\ t.events = d.events \cup {x} /\ t.refs = Register(d.refs, e.body)
               /\ NewEvent(x, d.events, s) /\ x.id = NextEvent(d, s)
               /\ x.kind = e.kind /\ x.agent = e.agent /\ x.body = e.body /\ x.raw = e.raw
<1>1. NewEvent(EventRow(s, LastSeq(d, s) + 1, e), d.events, s)
  BY DEF NewEvent, EventRow, LastSeq, EventFields
<1> QED
  BY <1>1 DEF InsertEvent, DbFields, EventRow, NextEvent

LEMMA InsertKeepsWhole ==
    ASSUME NEW d, NEW n, NEW held, Whole(d, n, held), NEW s \in Ids(d.sessions),
           NEW e, e.agent = None \/ AgentOf(e.agent, s, n), NEW held2,
           \/ e.raw = None /\ held2 = held
           \/ e.raw \in held /\ e.raw # e.body /\ held2 = held \ {e.raw}
    PROVE  Whole(InsertEvent(d, s, e), n, held2)
<1> DEFINE t == InsertEvent(d, s, e)
           x == EventRow(s, LastSeq(d, s) + 1, e)
<1>1. /\ DOMAIN t = DbFields
      /\ t.sessions = d.sessions /\ t.agents = d.agents /\ t.steps = d.steps
      /\ t.calls = d.calls /\ t.messages = d.messages
      /\ t.events = d.events \cup {x} /\ t.refs = Register(d.refs, e.body)
      /\ NewEvent(x, d.events, s)
      /\ x.agent = e.agent /\ x.body = e.body /\ x.raw = e.raw
  BY InsertWrites DEF Whole
<1> HIDE DEF t, x
<1>2. EventsOK(d.events \cup {x}, Ids(d.sessions), n) /\ x \notin d.events
  BY <1>1, EventsGrow DEF Whole, Linked
<1>3. RefsOK(Register(d.refs, x.body), d.events \cup {x}, held2)
  <2>1. RefsOK(d.refs, d.events, held) /\ IsFiniteSet(d.events)
    BY DEF Whole, Linked, EventsOK
  <2>2. \/ x.raw = None /\ held2 = held
        \/ x.raw \in held /\ x.raw # x.body /\ held2 = held \ {x.raw}
    BY <1>1
  <2> QED
    BY <1>2, <2>1, <2>2, RefsGrow
<1>4. CallsOK(d.calls, d.events \cup {x}, Ids(d.sessions), n)
  BY DEF Whole, Linked, CallsOK
<1>5. Linked(t, n)
  BY <1>1, <1>2, <1>4 DEF Whole, Linked
<1>6. Whole(t, n, held2)
  BY <1>1, <1>3, <1>5 DEF Whole
<1> QED
  BY <1>6 DEF t

\* An event that ends nobody who has a row.
LEMMA InsertKeepsEnds ==
    ASSUME NEW agents, NEW events, EndsOK(agents, events), NEW x,
           x.kind # "agent.finished" \/ \A a \in agents : a.id # x.agent
    PROVE  EndsOK(agents, events \cup {x})
<1>1. \A a \in agents : Ends(events \cup {x}, a.id) = Ends(events, a.id)
  BY DEF Ends
<1> QED
  BY <1>1 DEF EndsOK

LEMMA InsertKeepsSound ==
    ASSUME NEW d, NEW n, NEW held, Sound(d, n, held), NEW s \in Ids(d.sessions),
           NEW e, e.agent = None \/ AgentOf(e.agent, s, n), NEW held2,
           \/ e.raw = None /\ held2 = held
           \/ e.raw \in held /\ e.raw # e.body /\ held2 = held \ {e.raw},
           e.kind # "agent.finished"
    PROVE  Sound(InsertEvent(d, s, e), n, held2)
<1> DEFINE t == InsertEvent(d, s, e)
           x == EventRow(s, LastSeq(d, s) + 1, e)
<1>1. /\ t.agents = d.agents /\ t.calls = d.calls /\ t.events = d.events \cup {x}
      /\ x.kind = e.kind
  BY InsertWrites DEF Sound, Whole
<1>2. Whole(t, n, held2)
  BY InsertKeepsWhole DEF Sound
<1> HIDE DEF t, x
<1>3. Closed(t)
  BY <1>1, InsertKeepsEnds DEF Sound, Closed
<1>4. Sound(t, n, held2)
  BY <1>2, <1>3 DEF Sound
<1> QED
  BY <1>4 DEF t

\* One table is written, and is as it should be.
LEMMA SessionsWritten ==
    ASSUME NEW d, NEW n, NEW held, Sound(d, n, held), NEW rows,
           SessionsOK(rows), Ids(rows) = Ids(d.sessions)
    PROVE  Sound([d EXCEPT !.sessions = rows], n, held)
<1> DEFINE t == [d EXCEPT !.sessions = rows]
<1>1. /\ DOMAIN t = DbFields
      /\ t.sessions = rows /\ t.agents = d.agents /\ t.steps = d.steps /\ t.calls = d.calls
      /\ t.messages = d.messages /\ t.events = d.events /\ t.refs = d.refs
  BY DEF Sound, Whole, DbFields
<1> HIDE DEF t
<1>2. Sound(t, n, held)
  BY <1>1 DEF Sound, Whole, Linked, Closed
<1> QED
  BY <1>2 DEF t

LEMMA StepsWritten ==
    ASSUME NEW d, NEW n, NEW held, Sound(d, n, held), NEW rows, StepsOK(rows, Ids(d.agents))
    PROVE  Sound([d EXCEPT !.steps = rows], n, held)
<1> DEFINE t == [d EXCEPT !.steps = rows]
<1>1. /\ DOMAIN t = DbFields
      /\ t.sessions = d.sessions /\ t.agents = d.agents /\ t.steps = rows /\ t.calls = d.calls
      /\ t.messages = d.messages /\ t.events = d.events /\ t.refs = d.refs
  BY DEF Sound, Whole, DbFields
<1> HIDE DEF t
<1>2. Sound(t, n, held)
  BY <1>1 DEF Sound, Whole, Linked, Closed
<1> QED
  BY <1>2 DEF t

LEMMA MessagesWritten ==
    ASSUME NEW d, NEW n, NEW held, Sound(d, n, held), NEW rows,
           MessagesOK(rows, Ids(d.sessions))
    PROVE  Sound([d EXCEPT !.messages = rows], n, held)
<1> DEFINE t == [d EXCEPT !.messages = rows]
<1>1. /\ DOMAIN t = DbFields
      /\ t.sessions = d.sessions /\ t.agents = d.agents /\ t.steps = d.steps /\ t.calls = d.calls
      /\ t.messages = rows /\ t.events = d.events /\ t.refs = d.refs
  BY DEF Sound, Whole, DbFields
<1> HIDE DEF t
<1>2. Sound(t, n, held)
  BY <1>1 DEF Sound, Whole, Linked, Closed
<1> QED
  BY <1>2 DEF t

LEMMA CallsWritten ==
    ASSUME NEW d, NEW n, NEW held, Sound(d, n, held), NEW rows,
           CallsOK(rows, d.events, Ids(d.sessions), n), OpenOK(rows, d.agents)
    PROVE  Sound([d EXCEPT !.calls = rows], n, held)
<1> DEFINE t == [d EXCEPT !.calls = rows]
<1>1. /\ DOMAIN t = DbFields
      /\ t.sessions = d.sessions /\ t.agents = d.agents /\ t.steps = d.steps /\ t.calls = rows
      /\ t.messages = d.messages /\ t.events = d.events /\ t.refs = d.refs
  BY DEF Sound, Whole, DbFields
<1> HIDE DEF t
<1>2. Sound(t, n, held)
  BY <1>1 DEF Sound, Whole, Linked, Closed
<1> QED
  BY <1>2 DEF t

-----------------------------------------------------------------------------
(* Sessions. *)

LEMMA ExistsById == \A d, s : Exists(d, s) <=> s \in Ids(d.sessions)
  BY DEF Exists, Ids

LEMMA SetSessionKeeps ==
    ASSUME NEW d, NEW n, NEW held, Sound(d, n, held), NEW rows, Ids(rows) = Ids(d.sessions),
           \A q \in rows : \E r \in d.sessions :
               /\ DOMAIN q = DOMAIN r /\ q.id = r.id
               /\ q.status \in {"open", "archived", "deleted"}
               /\ q.source \in {"none", "prompt", "generated", "user"},
           \A q1, q2 \in rows : q1.id = q2.id => q1 = q2
    PROVE  Sound([d EXCEPT !.sessions = rows], n, held)
<1>1. SessionsOK(rows)
  BY DEF Sound, Whole, Linked, SessionsOK
<1> QED
  BY <1>1, SessionsWritten

LEMMA SetTitleKeeps ==
    ASSUME NEW d, NEW n, NEW held, Sound(d, n, held), NEW s,
           NEW source \in {"prompt", "generated", "user"}
    PROVE  LET t == SetTitle(d, s, source)
           IN  /\ Sound(t, n, held) /\ Ids(t.sessions) = Ids(d.sessions)
               /\ t.agents = d.agents /\ t.steps = d.steps /\ t.calls = d.calls
               /\ t.messages = d.messages /\ t.events = d.events
<1>1. CASE SetTitle(d, s, source) = d
  BY <1>1
<1>2. CASE SetTitle(d, s, source) # d
  <2> DEFINE rows == {IF r.id = s THEN [r EXCEPT !.source = source] ELSE r : r \in d.sessions}
  <2>1. SetTitle(d, s, source) = [d EXCEPT !.sessions = rows]
    BY <1>2 DEF SetTitle, SetSession, Set
  <2>2. SessionsOK(d.sessions) /\ DOMAIN d = DbFields
    BY DEF Sound, Whole, Linked
  <2>3. \A q \in rows : \E r \in d.sessions :
            /\ DOMAIN q = DOMAIN r /\ q.id = r.id
            /\ q.status \in {"open", "archived", "deleted"}
            /\ q.source \in {"none", "prompt", "generated", "user"}
    BY <2>2 DEF SessionsOK
  <2>4. \A q1, q2 \in rows : q1.id = q2.id => q1 = q2
    BY <2>2 DEF SessionsOK
  <2>5. ASSUME NEW r \in d.sessions
        PROVE  \E q \in rows : q.id = r.id
    <3>1. (IF r.id = s THEN [r EXCEPT !.source = source] ELSE r).id = r.id
      BY <2>2 DEF SessionsOK
    <3> QED
      BY <3>1
  <2>6. Ids(rows) = Ids(d.sessions)
    <3> HIDE DEF rows
    <3> QED
      BY <2>3, <2>5 DEF Ids
  <2> HIDE DEF rows
  <2>7. Sound([d EXCEPT !.sessions = rows], n, held)
    BY <2>3, <2>4, <2>6, SetSessionKeeps
  <2> QED
    BY <2>1, <2>2, <2>6, <2>7 DEF DbFields
<1> QED
  BY <1>1, <1>2

LEMMA SetStatusKeeps ==
    ASSUME NEW d, NEW n, NEW held, Sound(d, n, held), NEW s \in Ids(d.sessions),
           NEW status \in {"open", "archived", "deleted"}
    PROVE  LET t == SetStatus(d, s, status)
           IN  /\ Sound(t, n, held) /\ Ids(t.sessions) = Ids(d.sessions)
               /\ t.agents = d.agents /\ t.calls = d.calls
<1> DEFINE rows == {IF r.id = s THEN [r EXCEPT !.status = status] ELSE r : r \in d.sessions}
           d2   == [d EXCEPT !.sessions = rows]
           e    == Event("session.status", None)
<1>1. SetStatus(d, s, status) = InsertEvent(d2, s, e)
  BY DEF SetStatus, SetSession, Set
<1>2. SessionsOK(d.sessions) /\ DOMAIN d = DbFields
  BY DEF Sound, Whole, Linked
<1>3. \A q \in rows : \E r \in d.sessions :
          /\ DOMAIN q = DOMAIN r /\ q.id = r.id
          /\ q.status \in {"open", "archived", "deleted"}
          /\ q.source \in {"none", "prompt", "generated", "user"}
  BY <1>2 DEF SessionsOK
<1>4. \A q1, q2 \in rows : q1.id = q2.id => q1 = q2
  BY <1>2 DEF SessionsOK
<1>5. ASSUME NEW r \in d.sessions
      PROVE  \E q \in rows : q.id = r.id
  <2>1. (IF r.id = s THEN [r EXCEPT !.status = status] ELSE r).id = r.id
    BY <1>2 DEF SessionsOK
  <2> QED
    BY <2>1
<1>6. Ids(rows) = Ids(d.sessions)
  <2> HIDE DEF rows
  <2> QED
    BY <1>3, <1>5 DEF Ids
<1> HIDE DEF rows
<1>7. Sound(d2, n, held)
  BY <1>3, <1>4, <1>6, SetSessionKeeps
<1>8. /\ DOMAIN d2 = DbFields /\ d2.sessions = rows
      /\ d2.agents = d.agents /\ d2.calls = d.calls
  BY <1>2 DEF DbFields
<1>9. e.agent = None /\ e.raw = None /\ e.kind # "agent.finished"
  BY DEF Event
<1> HIDE DEF d2, e
<1>10. Sound(InsertEvent(d2, s, e), n, held)
  BY <1>6, <1>7, <1>8, <1>9, InsertKeepsSound
<1> QED
  BY <1>1, <1>6, <1>8, <1>10, InsertWrites

LEMMA CreateKeeps ==
    ASSUME NEW d, NEW n, NEW held, Sound(d, n, held), NEW s \in Sessions, s \notin Ids(d.sessions)
    PROVE  LET t == CreateSession(d, s)
           IN  /\ Sound(t, n, held) /\ Ids(t.sessions) = Ids(d.sessions) \cup {s}
               /\ t.agents = d.agents /\ t.calls = d.calls
<1> DEFINE row == [id |-> s, status |-> "open", source |-> "none"]
           d2  == [d EXCEPT !.sessions = @ \cup {row}]
           e   == Event("session.created", None)
<1>1. CreateSession(d, s) = InsertEvent(d2, s, e)
  BY DEF CreateSession
<1>2. DOMAIN d = DbFields /\ Linked(d, n) /\ RefsOK(d.refs, d.events, held) /\ Closed(d)
  BY DEF Sound, Whole
<1>3. /\ DOMAIN d2 = DbFields
      /\ d2.sessions = d.sessions \cup {row} /\ d2.agents = d.agents /\ d2.steps = d.steps
      /\ d2.calls = d.calls /\ d2.messages = d.messages /\ d2.events = d.events
      /\ d2.refs = d.refs
  BY <1>2 DEF DbFields
<1>4. /\ row.id = s /\ DOMAIN row = {"id", "status", "source"}
      /\ row.status = "open" /\ row.source = "none"
  OBVIOUS
<1>5. e.agent = None /\ e.raw = None /\ e.kind # "agent.finished"
  BY DEF Event
<1> HIDE DEF d2, e, row
<1>6. SessionsOK(d2.sessions) /\ Ids(d2.sessions) = Ids(d.sessions) \cup {s}
  BY <1>2, <1>3, <1>4 DEF Linked, SessionsOK, Ids
<1>7. EventsOK(d.events, Ids(d2.sessions), n)
  <2>1. EventsOK(d.events, Ids(d.sessions), n)
    BY <1>2 DEF Linked
  <2>2. {e1.seq : e1 \in In(d.events, s)} = 1 .. 0
    BY <2>1 DEF EventsOK, In
  <2>3. Counted(d.events, s)
    BY <2>2 DEF Counted
  <2> QED
    BY <1>6, <2>1, <2>3 DEF EventsOK
<1>8. Linked(d2, n)
  BY <1>2, <1>3, <1>6, <1>7 DEF Linked, AgentsOK, CallsOK, MessagesOK
<1>9. Sound(d2, n, held)
  BY <1>2, <1>3, <1>8 DEF Sound, Whole, Closed
<1>10. Sound(InsertEvent(d2, s, e), n, held)
  BY <1>5, <1>6, <1>9, InsertKeepsSound
<1>11. /\ InsertEvent(d2, s, e).sessions = d2.sessions
       /\ InsertEvent(d2, s, e).agents = d2.agents /\ InsertEvent(d2, s, e).calls = d2.calls
  BY <1>3, InsertWrites
<1> QED
  BY <1>1, <1>3, <1>6, <1>10, <1>11

-----------------------------------------------------------------------------
(* Agents. *)

\* An image is finite.
LEMMA FiniteImage ==
    ASSUME NEW S, IsFiniteSet(S), NEW g, DOMAIN g = S, NEW T, T = {g[x] : x \in S}
    PROVE  IsFiniteSet(T)
<1>1. [x \in S |-> g[x]] \in Surjection(S, T)
  BY DEF Surjection
<1> QED
  BY <1>1, FS_Surjection

\* More agents may have been numbered.
LEMMA MoreNumbers ==
    ASSUME NEW d, NEW n \in Nat, NEW m \in Nat, n <= m
    PROVE  /\ Linked(d, n) => Linked(d, m)
           /\ \A a, s : AgentOf(a, s, n) => AgentOf(a, s, m)
           /\ \A c : CallNamed(c, n) => CallNamed(c, m)
<1>1. 1 .. n \subseteq 1 .. m
  OBVIOUS
<1>2. \A a, s : AgentOf(a, s, n) => AgentOf(a, s, m)
  BY <1>1 DEF AgentOf
<1>3. \A c : CallNamed(c, n) => CallNamed(c, m)
  BY <1>1 DEF CallNamed
<1>4. ASSUME Linked(d, n)
      PROVE  Linked(d, m)
  <2>1. AgentsOK(d.agents, Ids(d.sessions), m)
    BY <1>2, <1>4 DEF Linked, AgentsOK
  <2>2. EventsOK(d.events, Ids(d.sessions), m)
    BY <1>2, <1>4 DEF Linked, EventsOK
  <2>3. CallsOK(d.calls, d.events, Ids(d.sessions), m)
    BY <1>3, <1>4 DEF Linked, CallsOK
  <2> QED
    BY <1>4, <2>1, <2>2, <2>3 DEF Linked
<1> QED
  BY <1>2, <1>3, <1>4

LEMMA SoundWithMore ==
    ASSUME NEW d, NEW held, NEW n \in Nat, NEW m \in Nat, n <= m, Sound(d, n, held)
    PROVE  Sound(d, m, held)
  BY MoreNumbers DEF Sound, Whole

LEMMA StartAgentKeeps ==
    ASSUME NEW d, NEW n \in Nat, NEW held, Sound(d, n, held), NEW s \in Ids(d.sessions)
    PROVE  LET a == <<s, n + 1>>
               t == StartAgent(d, s, a)
           IN  /\ Sound(t, n + 1, held)
               /\ t.sessions = d.sessions /\ t.calls = d.calls
               /\ \E r \in t.agents : r.id = a /\ r.status = "running"
<1> DEFINE a   == <<s, n + 1>>
           row == [id |-> a, session |-> s, status |-> "running"]
           d2  == [d EXCEPT !.agents = @ \cup {row}]
           e   == Event("agent.started", a)
<1>1. StartAgent(d, s, a) = InsertEvent(d2, s, e)
  BY DEF StartAgent
<1>2. Sound(d, n + 1, held) /\ n + 1 \in Nat /\ n + 1 \notin 1 .. n /\ n + 1 \in 1 .. n + 1
  BY SoundWithMore
<1>3. /\ DOMAIN d2 = DbFields
      /\ d2.sessions = d.sessions /\ d2.agents = d.agents \cup {row} /\ d2.steps = d.steps
      /\ d2.calls = d.calls /\ d2.messages = d.messages /\ d2.events = d.events
      /\ d2.refs = d.refs
  BY DEF Sound, Whole, DbFields
<1>4. /\ row.id = a /\ DOMAIN row = {"id", "session", "status"}
      /\ row.status = "running" /\ row.session = s
  OBVIOUS
<1>5. e.agent = a /\ e.raw = None /\ e.kind # "agent.finished"
  BY DEF Event
<1>6. AgentOf(a, s, n + 1) /\ \A t : ~ AgentOf(a, t, n)
  BY <1>2 DEF AgentOf
<1> HIDE DEF d2, e, row
<1>7. a # None
  BY DEF None
<1>8. Linked(d, n) /\ Linked(d, n + 1)
  BY <1>2 DEF Sound, Whole
<1>9. AgentsOK(d2.agents, Ids(d.sessions), n + 1)
  <2>1. \A r \in d.agents : r.id # a
    BY <1>6, <1>8 DEF Linked, AgentsOK
  <2> QED
    BY <1>3, <1>4, <1>6, <1>8, <2>1 DEF Linked, AgentsOK, Statuses
<1>10. StepsOK(d2.steps, Ids(d2.agents))
  BY <1>3, <1>8 DEF Linked, StepsOK, Ids
<1>11. Linked(d2, n + 1)
  BY <1>3, <1>8, <1>9, <1>10 DEF Linked
<1>12. EndsOK(d2.agents, d2.events)
  <2>1. Ends(d.events, a) = {}
    BY <1>6, <1>7, <1>8 DEF Linked, EventsOK, Ends
  <2>2. EndsOK(d.agents, d.events)
    BY DEF Sound, Closed
  <2> SUFFICES ASSUME NEW r \in d.agents \cup {row}
               PROVE  IF r.status = "running" THEN Ends(d.events, r.id) = {}
                      ELSE \E f \in d.events : Ends(d.events, r.id) = {f}
    BY <1>3 DEF EndsOK
  <2>3. CASE r \in d.agents
    BY <2>2, <2>3 DEF EndsOK
  <2>4. CASE r = row
    BY <1>4, <2>1, <2>4
  <2> QED
    BY <2>3, <2>4
<1>13. OpenOK(d2.calls, d2.agents)
  BY <1>3, <1>4 DEF Sound, Closed, OpenOK
<1>14. Sound(d2, n + 1, held)
  BY <1>2, <1>3, <1>11, <1>12, <1>13 DEF Sound, Whole, Closed
<1> HIDE DEF a
<1>15. Sound(InsertEvent(d2, s, e), n + 1, held)
  BY <1>3, <1>5, <1>6, <1>14, InsertKeepsSound
<1>16. /\ InsertEvent(d2, s, e).sessions = d.sessions
       /\ InsertEvent(d2, s, e).agents = d2.agents
       /\ InsertEvent(d2, s, e).calls = d.calls
  BY <1>3, InsertWrites
<1>17. row \in d2.agents
  BY <1>3
<1>18. a = <<s, n + 1>>
  BY DEF a
<1> QED
  BY <1>1, <1>4, <1>15, <1>16, <1>17, <1>18

\* No call of the loop is open any more when an agent ends.
NoneOpen(d, a) == \A c \in d.calls : ~ (c.agent = a /\ c.kind = "step" /\ c.status = "running")

LEMMA FinishAgentKeeps ==
    ASSUME NEW d, NEW n, NEW held, Sound(d, n, held), NEW row \in d.agents,
           row.status = "running", NoneOpen(d, row.id), NEW status \in Ended
    PROVE  LET t == FinishAgent(d, row.session, row.id, status)
           IN  /\ Sound(t, n, held)
               /\ t.sessions = d.sessions /\ t.calls = d.calls /\ Ids(t.agents) = Ids(d.agents)
<1> DEFINE a    == row.id
           s    == row.session
           rows == {IF r.id = a THEN [r EXCEPT !.status = status] ELSE r : r \in d.agents}
           d2   == [d EXCEPT !.agents = rows]
           e    == Event("agent.finished", a)
           t    == InsertEvent(d2, s, e)
           x    == EventRow(s, LastSeq(d2, s) + 1, e)
<1>1. FinishAgent(d, s, a, status) = t
  BY DEF FinishAgent, Set
<1>2. /\ DOMAIN d2 = DbFields
      /\ d2.sessions = d.sessions /\ d2.agents = rows /\ d2.steps = d.steps
      /\ d2.calls = d.calls /\ d2.messages = d.messages /\ d2.events = d.events
      /\ d2.refs = d.refs
  BY DEF Sound, Whole, DbFields
<1>3. e.agent = a /\ e.raw = None /\ e.kind = "agent.finished"
  BY DEF Event
<1>4. AgentsOK(d.agents, Ids(d.sessions), n)
  BY DEF Sound, Whole, Linked
<1>5. AgentOf(a, s, n) /\ s \in Ids(d.sessions)
  BY <1>4 DEF AgentsOK
<1>6. \A q \in rows : \E r \in d.agents :
          /\ DOMAIN q = DOMAIN r /\ q.id = r.id /\ q.session = r.session
          /\ q.status = IF r.id = a THEN status ELSE r.status
  BY <1>4 DEF AgentsOK
<1>7. ASSUME NEW r \in d.agents
      PROVE  \E q \in rows : q.id = r.id
  <2>1. (IF r.id = a THEN [r EXCEPT !.status = status] ELSE r).id = r.id
    BY <1>4 DEF AgentsOK
  <2> QED
    BY <2>1
<1>8. \A q1, q2 \in rows : q1.id = q2.id => q1 = q2
  BY <1>4 DEF AgentsOK
<1> HIDE DEF rows
<1>9. Ids(rows) = Ids(d.agents)
  BY <1>6, <1>7 DEF Ids
<1>10. AgentsOK(rows, Ids(d.sessions), n)
  BY <1>4, <1>6, <1>8 DEF AgentsOK, Statuses
<1> HIDE DEF d2, e
<1>11. Linked(d2, n)
  BY <1>2, <1>9, <1>10 DEF Sound, Whole, Linked
<1>12. Whole(d2, n, held)
  BY <1>2, <1>11 DEF Sound, Whole
<1>13. Whole(t, n, held)
  BY <1>2, <1>3, <1>5, <1>12, InsertKeepsWhole
<1>14. /\ t.agents = rows /\ t.sessions = d.sessions /\ t.calls = d.calls
       /\ t.events = d.events \cup {x} /\ x.kind = "agent.finished" /\ x.agent = a
  BY <1>2, <1>3, InsertWrites
<1> HIDE DEF t, x
<1>15. EndsOK(t.agents, t.events)
  <2> SUFFICES ASSUME NEW q \in rows
               PROVE  IF q.status = "running" THEN Ends(t.events, q.id) = {}
                      ELSE \E y \in t.events : Ends(t.events, q.id) = {y}
    BY <1>14 DEF EndsOK
  <2>1. PICK r \in d.agents : q.id = r.id /\ q.status = IF r.id = a THEN status ELSE r.status
    BY <1>6
  <2>2. EndsOK(d.agents, d.events)
    BY DEF Sound, Closed
  <2>3. CASE r.id = a
    <3>1. Ends(d.events, a) = {}
      BY <2>2 DEF EndsOK
    <3>2. Ends(t.events, a) = {x}
      BY <1>14, <3>1 DEF Ends
    <3>3. q.status # "running" /\ x \in t.events
      BY <1>14, <2>1, <2>3 DEF Ended
    <3> QED
      BY <2>1, <2>3, <3>2, <3>3
  <2>4. CASE r.id # a
    <3>1. Ends(t.events, r.id) = Ends(d.events, r.id)
      BY <1>14, <2>4 DEF Ends
    <3>2. q.status = r.status /\ q.id = r.id
      BY <2>1, <2>4
    <3> QED
      BY <1>14, <2>2, <3>1, <3>2 DEF EndsOK
  <2> QED
    BY <2>3, <2>4
<1>16. OpenOK(t.calls, t.agents)
  BY <1>6, <1>14 DEF Sound, Closed, OpenOK, NoneOpen
<1>17. Sound(t, n, held)
  BY <1>13, <1>15, <1>16 DEF Sound, Closed
<1> QED
  BY <1>1, <1>9, <1>14, <1>17

-----------------------------------------------------------------------------
(* Steps and calls. *)

LEMMA NextStepNamed ==
    ASSUME NEW d, IsFiniteSet(d.steps), NEW s, NEW k
    PROVE  \E m \in Nat : NextStep(d, <<s, k>>) = <<s, k, m>>
<1> DEFINE own == {r \in d.steps : r.agent = <<s, k>>}
<1>1. IsFiniteSet(own)
  BY FS_Subset
<1>2. Cardinality(own) \in Nat
  BY <1>1, FS_CardinalityType
<1>3. 1 + Cardinality(own) \in Nat
  BY <1>2
<1>4. NextStep(d, <<s, k>>) = <<s, k, 1 + Cardinality(own)>>
  BY AppendToPair DEF NextStep
<1> QED
  BY <1>3, <1>4

LEMMA StartStepKeeps ==
    ASSUME NEW d, NEW n, NEW held, Sound(d, n, held), NEW a \in Ids(d.agents)
    PROVE  LET t == StartStep(d, a)
           IN  /\ Sound(t, n, held) /\ t.sessions = d.sessions
               /\ t.agents = d.agents /\ t.calls = d.calls
<1> DEFINE row  == [id |-> NextStep(d, a), agent |-> a, status |-> "running"]
           rows == d.steps \cup {row}
<1>1. StartStep(d, a) = [d EXCEPT !.steps = rows]
  BY DEF StartStep
<1>2. DOMAIN row = {"id", "agent", "status"} /\ row.agent = a /\ row.status = "running"
  OBVIOUS
<1>3. StepsOK(d.steps, Ids(d.agents)) /\ DOMAIN d = DbFields
  BY DEF Sound, Whole, Linked
<1> HIDE DEF row
<1>4. StepsOK(rows, Ids(d.agents))
  BY <1>2, <1>3, FS_AddElement DEF StepsOK, Statuses
<1> HIDE DEF rows
<1>5. Sound([d EXCEPT !.steps = rows], n, held)
  BY <1>4, StepsWritten
<1> QED
  BY <1>1, <1>3, <1>5 DEF DbFields

LEMMA FinishStepKeeps ==
    ASSUME NEW d, NEW n, NEW held, Sound(d, n, held), NEW step, NEW status \in Ended
    PROVE  LET t == FinishStep(d, step, status)
           IN  /\ Sound(t, n, held) /\ t.sessions = d.sessions
               /\ t.agents = d.agents /\ t.calls = d.calls
<1> DEFINE g    == [r \in d.steps |-> IF r.id = step THEN [r EXCEPT !.status = status] ELSE r]
           rows == {IF r.id = step THEN [r EXCEPT !.status = status] ELSE r : r \in d.steps}
<1>1. FinishStep(d, step, status) = [d EXCEPT !.steps = rows]
  BY DEF FinishStep, Set
<1>2. StepsOK(d.steps, Ids(d.agents)) /\ DOMAIN d = DbFields
  BY DEF Sound, Whole, Linked
<1>3. \A q \in rows : /\ DOMAIN q = {"id", "agent", "status"} /\ q.agent \in Ids(d.agents)
                      /\ q.status \in Statuses
  BY <1>2 DEF StepsOK, Statuses
<1>4. DOMAIN g = d.steps /\ rows = {g[r] : r \in d.steps}
  OBVIOUS
<1> HIDE DEF rows, g
<1>5. IsFiniteSet(rows)
  BY <1>2, <1>4, FiniteImage DEF StepsOK
<1>6. Sound([d EXCEPT !.steps = rows], n, held)
  BY <1>3, <1>5, StepsWritten DEF StepsOK
<1> QED
  BY <1>1, <1>2, <1>6 DEF DbFields

\* The open calls of the loop in t are such in d.
OpenIn(d, c) == c \in d.calls /\ c.kind = "step" /\ c.status = "running"
NoneOpened(d, t) == \A c \in t.calls : OpenIn(t, c) => OpenIn(d, c)

LEMMA RecordRequestKeeps ==
    ASSUME NEW d, NEW n, NEW held, Sound(d, n, held), NEW s \in Ids(d.sessions),
           NEW k \in 1 .. n, NEW m \in Nat, NEW kind \in {"step", "title"}, NEW body, NEW count,
           kind = "step" => \E a \in d.agents : a.id = <<s, k>> /\ a.status = "running"
    PROVE  LET t == RecordRequest(d, s, <<s, k>>, <<s, k, m>>, kind, body, count)
           IN  /\ Sound(t, n, held) /\ t.sessions = d.sessions /\ t.agents = d.agents
               /\ \A c \in t.calls : OpenIn(t, c) =>
                     OpenIn(d, c) \/ (kind = "step" /\ c.id = <<s, k, m>>)
<1> DEFINE a   == <<s, k>>
           id  == <<s, k, m>>
           e   == [WithBody(Event("mentor.request", a), body) EXCEPT !.count = count]
           d2  == InsertEvent(d, s, e)
           x   == EventRow(s, LastSeq(d, s) + 1, e)
           row == [id |-> id, session |-> s, agent |-> a, step |-> id, request |-> NextEvent(d, s),
                   response |-> None, kind |-> kind, status |-> "running"]
           rows == d.calls \cup {row}
           t   == RecordRequest(d, s, a, id, kind, body, count)
<1>1. DOMAIN d = DbFields
  BY DEF Sound, Whole
<1>2. /\ DOMAIN d2 = DbFields
      /\ d2.sessions = d.sessions /\ d2.agents = d.agents /\ d2.calls = d.calls
      /\ d2.events = d.events \cup {x} /\ x.id = NextEvent(d, s)
      /\ x.kind = e.kind /\ x.agent = e.agent /\ x.session = s
  <2>1. x.session = s
    BY DEF EventRow
  <2> HIDE DEF e
  <2> QED
    BY <1>1, <2>1, InsertWrites
<1>3. t = [d2 EXCEPT !.calls = rows]
  BY <1>2 DEF RecordRequest
<1>4. e.agent = a /\ e.raw = None /\ e.kind = "mentor.request"
  BY DEF Event, WithBody
<1>5. /\ DOMAIN row = CallFields
      /\ row.id = id /\ row.session = s /\ row.agent = a /\ row.request = NextEvent(d, s)
      /\ row.response = None /\ row.kind = kind /\ row.status = "running"
  BY DEF CallFields
<1> HIDE DEF e, x, row, t
<1>6. AgentOf(a, s, n)
  BY DEF AgentOf
<1>7. Sound(d2, n, held)
  BY <1>4, <1>6, InsertKeepsSound
<1> HIDE DEF d2
<1>8. CallsOK(d.calls, d2.events, Ids(d.sessions), n) /\ OpenOK(d.calls, d.agents)
      /\ AgentsOK(d.agents, Ids(d.sessions), n)
  BY <1>2, <1>7 DEF Sound, Whole, Linked, Closed
<1>9. CallNamed(row, n)
  BY <1>5 DEF CallNamed
<1>10. IsHome(x, row, row.request, "mentor.request") /\ x \in d2.events
  BY <1>2, <1>4, <1>5 DEF IsHome
<1>11. CallsOK(rows, d2.events, Ids(d.sessions), n)
  BY <1>5, <1>8, <1>9, <1>10, FS_AddElement DEF CallsOK, Statuses
<1>12. OpenOK(rows, d.agents)
  BY <1>5, <1>8 DEF OpenOK, AgentsOK
<1>13. Sound(t, n, held)
  <2> HIDE DEF rows
  <2> QED
    BY <1>2, <1>3, <1>7, <1>11, <1>12, CallsWritten
<1>14. t.sessions = d.sessions /\ t.agents = d.agents /\ t.calls = rows
  BY <1>2, <1>3 DEF DbFields
<1>15. ASSUME NEW c \in t.calls, OpenIn(t, c)
       PROVE  OpenIn(d, c) \/ (kind = "step" /\ c.id = id)
  <2>1. c \in d.calls \/ c = row
    BY <1>14
  <2>2. CASE c \in d.calls
    <3>1. c.kind = "step" /\ c.status = "running"
      BY <1>15 DEF OpenIn
    <3>2. OpenIn(d, c)
      BY <2>2, <3>1 DEF OpenIn
    <3> QED
      BY <3>2
  <2>3. CASE c = row
    BY <1>5, <1>15, <2>3 DEF OpenIn
  <2> QED
    BY <2>1, <2>2, <2>3
<1> QED
  BY <1>13, <1>14, <1>15 DEF t

\* The call id is completed: of c, r is the row.
Completed(c, r, id, status, response) ==
    /\ DOMAIN r = CallFields /\ r.id = c.id /\ r.session = c.session
    /\ r.agent = c.agent /\ r.request = c.request /\ r.kind = c.kind
    /\ IF c.id = id THEN r.status = status /\ r.response \in {c.response, response}
       ELSE r.status = c.status /\ r.response = c.response

Image(g) == {g[c] : c \in DOMAIN g}

\* So is every call by g, and q is an event of that call's agent.
Completes(calls, g, events, s, k, m, status, q) ==
    /\ DOMAIN g = calls
    /\ \A c \in calls : Completed(c, g[c], <<s, k, m>>, status, q)
    /\ q # None => \E x \in events : /\ x.id = q /\ x.kind = "mentor.response"
                                     /\ x.session = s /\ x.agent = <<s, k>>

FromCalls(rows, calls, id, status) ==
    \A r \in rows : \E c \in calls :
        /\ r.id = c.id /\ r.agent = c.agent /\ r.kind = c.kind
        /\ r.status = IF c.id = id THEN status ELSE c.status

LEMMA CallCompleted ==
    ASSUME NEW calls, NEW events, NEW agents, NEW ss, NEW n,
           CallsOK(calls, events, ss, n), OpenOK(calls, agents),
           NEW s, NEW k, NEW m, NEW status \in Ended, NEW q,
           NEW g, Completes(calls, g, events, s, k, m, status, q),
           NEW rows, rows = Image(g)
    PROVE  /\ CallsOK(rows, events, ss, n) /\ OpenOK(rows, agents)
           /\ FromCalls(rows, calls, <<s, k, m>>, status)
<1> DEFINE id == <<s, k, m>>
<1> USE DEF Completes, Image
<1>1. IsFiniteSet(rows)
  <2>1. IsFiniteSet(calls) /\ DOMAIN g = calls
    BY DEF CallsOK
  <2> QED
    BY <2>1, FiniteImage
<1>2. ASSUME NEW c \in calls, NEW r, Completed(c, r, id, status, q)
      PROVE  /\ DOMAIN r = CallFields
             /\ r.session \in ss /\ CallNamed(r, n) /\ r.status \in Statuses
             /\ \E e \in events : IsHome(e, r, r.request, "mentor.request")
             /\ r.response # None => \E e \in events : IsHome(e, r, r.response, "mentor.response")
  <2>1. /\ c.session \in ss /\ CallNamed(c, n) /\ c.status \in Statuses
        /\ \E e \in events : IsHome(e, c, c.request, "mentor.request")
        /\ c.response # None => \E e \in events : IsHome(e, c, c.response, "mentor.response")
    BY DEF CallsOK
  <2>2. /\ DOMAIN r = CallFields
        /\ CallNamed(r, n) /\ r.session \in ss /\ r.status \in Statuses
    BY <1>2, <2>1 DEF CallNamed, Statuses, Completed
  <2>3. \E e \in events : IsHome(e, r, r.request, "mentor.request")
    BY <1>2, <2>1 DEF IsHome, Completed
  <2>4. ASSUME r.response # None
        PROVE  \E e \in events : IsHome(e, r, r.response, "mentor.response")
    <3>1. CASE r.response = c.response
      BY <1>2, <2>1, <2>4, <3>1 DEF IsHome, Completed
    <3>2. CASE r.response # c.response
      <4>1. c.id = id /\ r.response = q
        BY <1>2, <3>2 DEF Completed
      <4>2. PICK k2 \in 1 .. n, m2 \in Nat :
                c.agent = <<c.session, k2>> /\ c.id = <<c.session, k2, m2>>
        BY <2>1 DEF CallNamed
      <4>3. <<c.session, k2, m2>> = <<s, k, m>>
        BY <4>1, <4>2
      <4>4. c.session = s /\ k2 = k
        BY <4>3
      <4>5. r.session = s /\ r.agent = <<s, k>>
        BY <1>2, <4>2, <4>4 DEF Completed
      <4> QED
        BY <2>4, <4>1, <4>5 DEF IsHome
    <3> QED
      BY <3>1, <3>2
  <2> QED
    BY <2>2, <2>3, <2>4
<1>3. CallsOK(rows, events, ss, n)
  BY <1>1, <1>2 DEF CallsOK
<1>4. OpenOK(rows, agents)
  <2> SUFFICES ASSUME NEW r \in rows, NEW a \in agents,
                      r.agent = a.id, r.kind = "step", r.status = "running"
               PROVE  a.status = "running"
    BY DEF OpenOK
  <2>1. PICK c \in calls : Completed(c, r, id, status, q)
    OBVIOUS
  <2>2. r.agent = c.agent /\ r.kind = c.kind
    BY <2>1 DEF Completed
  <2>3. c.status = "running"
    BY <2>1 DEF Ended, Completed
  <2>4. c.agent = a.id /\ c.kind = "step"
    BY <2>2
  <2> QED
    BY <2>3, <2>4 DEF OpenOK
<1>5. FromCalls(rows, calls, id, status)
  <2> SUFFICES ASSUME NEW r \in rows
               PROVE  \E c \in calls :
                          /\ r.id = c.id /\ r.agent = c.agent /\ r.kind = c.kind
                          /\ r.status = IF c.id = id THEN status ELSE c.status
    BY DEF FromCalls
  <2>1. PICK c \in calls : Completed(c, r, id, status, q)
    OBVIOUS
  <2> QED
    BY <2>1 DEF Completed
<1> QED
  BY <1>3, <1>4, <1>5

LEMMA RecordResponseKeeps ==
    ASSUME NEW d, NEW n, NEW held, NEW s \in Ids(d.sessions), NEW k \in 1 .. n, NEW m \in Nat,
           Sound(d, n, held), StreamBlob(<<s, k, m>>) \in held, NEW reply
    PROVE  LET t == RecordResponse(d, s, <<s, k>>, <<s, k, m>>, reply)
           IN  /\ Sound(t, n, held \ {StreamBlob(<<s, k, m>>)})
               /\ t.sessions = d.sessions /\ t.agents = d.agents
               /\ \A c \in t.calls : OpenIn(t, c) =>
                     \E b \in d.calls : OpenIn(d, b) /\ b.id = c.id /\ b.agent = c.agent
                                        /\ b.id # <<s, k, m>>
<1> DEFINE a   == <<s, k>>
           id  == <<s, k, m>>
           e   == [WithBody(Event("mentor.response", a), ReplyBlob(reply)) EXCEPT !.raw = StreamBlob(id)]
           d2  == InsertEvent(d, s, e)
           x   == EventRow(s, LastSeq(d, s) + 1, e)
           q   == NextEvent(d, s)
           g   == [c \in d.calls |-> IF c.id = id THEN [c EXCEPT !.status = "ok", !.response = q] ELSE c]
           rows == {g[c] : c \in d.calls}
           t   == RecordResponse(d, s, a, id, reply)
           held2 == held \ {StreamBlob(id)}
<1>1. DOMAIN d = DbFields /\ CallsOK(d.calls, d.events, Ids(d.sessions), n)
  BY DEF Sound, Whole, Linked
<1>2. /\ DOMAIN d2 = DbFields
      /\ d2.sessions = d.sessions /\ d2.agents = d.agents /\ d2.calls = d.calls
      /\ d2.events = d.events \cup {x} /\ x.id = q
      /\ x.kind = e.kind /\ x.agent = e.agent /\ x.session = s
  <2>1. x.session = s
    BY DEF EventRow
  <2> HIDE DEF e
  <2> QED
    BY <1>1, <2>1, InsertWrites
<1>3. t = [d2 EXCEPT !.calls = rows]
  <2>1. rows = Set(d.calls, id, LAMBDA c : [c EXCEPT !.status = "ok", !.response = q])
    BY DEF Set
  <2>2. t = [d2 EXCEPT !.calls = Set(d2.calls, id, LAMBDA c : [c EXCEPT !.status = "ok", !.response = q])]
    BY <1>2 DEF RecordResponse
  <2> QED
    BY <1>2, <2>1, <2>2
<1>4. /\ e.agent = a /\ e.kind = "mentor.response" /\ e.raw = StreamBlob(id)
      /\ e.raw # e.body
  BY DEF Event, WithBody, StreamBlob, ReplyBlob
<1>5. ASSUME NEW c \in d.calls
      PROVE  Completed(c, g[c], id, "ok", q)
  <2>1. DOMAIN c = CallFields
    BY <1>1 DEF CallsOK
  <2> DEFINE c2 == [c EXCEPT !.status = "ok", !.response = q]
  <2>2. /\ DOMAIN c2 = CallFields /\ c2.id = c.id /\ c2.session = c.session
        /\ c2.agent = c.agent /\ c2.request = c.request /\ c2.kind = c.kind
        /\ c2.status = "ok" /\ c2.response = q
    BY <2>1 DEF CallFields
  <2>3. g[c] = IF c.id = id THEN c2 ELSE c
    OBVIOUS
  <2> HIDE DEF c2, g, id
  <2> QED
    BY <2>1, <2>2, <2>3 DEF Completed
<1>6. AgentOf(a, s, n)
  BY DEF AgentOf
<1> HIDE DEF e, x, t, g, q
<1>7. Sound(d2, n, held2)
  BY <1>4, <1>6, InsertKeepsSound
<1> HIDE DEF d2
<1>8. CallsOK(d.calls, d2.events, Ids(d.sessions), n) /\ OpenOK(d.calls, d.agents)
  BY <1>2, <1>7 DEF Sound, Whole, Linked, Closed
<1>9. x \in d2.events /\ x.id = q /\ x.kind = "mentor.response" /\ x.session = s /\ x.agent = a
  BY <1>2, <1>4
<1>10. DOMAIN g = d.calls
  BY DEF g
<1>11. /\ CallsOK(rows, d2.events, Ids(d.sessions), n) /\ OpenOK(rows, d.agents)
       /\ FromCalls(rows, d.calls, id, "ok")
  <2>1. "ok" \in Ended
    BY DEF Ended
  <2>2. rows = Image(g)
    BY <1>10 DEF Image
  <2>3. Completes(d.calls, g, d2.events, s, k, m, "ok", q)
    BY <1>5, <1>9, <1>10 DEF Completes
  <2> HIDE DEF rows
  <2> QED
    BY <1>8, <2>1, <2>2, <2>3, CallCompleted
<1> HIDE DEF rows
<1>12. Sound(t, n, held2)
  BY <1>2, <1>3, <1>7, <1>11, CallsWritten
<1>13. t.sessions = d.sessions /\ t.agents = d.agents /\ t.calls = rows
  BY <1>2, <1>3 DEF DbFields
<1>14. ASSUME NEW c \in t.calls, OpenIn(t, c)
       PROVE  \E b \in d.calls : OpenIn(d, b) /\ b.id = c.id /\ b.agent = c.agent /\ b.id # id
  BY <1>11, <1>13, <1>14 DEF OpenIn, FromCalls
<1> QED
  BY <1>12, <1>13, <1>14 DEF t

LEMMA RecordErrorKeeps ==
    ASSUME NEW d, NEW n, NEW held, NEW s \in Ids(d.sessions), NEW k \in 1 .. n, NEW m \in Nat,
           Sound(d, n, held)
    PROVE  LET t == RecordError(d, s, <<s, k>>, <<s, k, m>>)
           IN  /\ Sound(t, n, held)
               /\ t.sessions = d.sessions /\ t.agents = d.agents
               /\ \A c \in t.calls : OpenIn(t, c) =>
                     \E b \in d.calls : OpenIn(d, b) /\ b.id = c.id /\ b.agent = c.agent
                                        /\ b.id # <<s, k, m>>
<1> DEFINE a   == <<s, k>>
           id  == <<s, k, m>>
           e   == Event("mentor.error", a)
           d2  == InsertEvent(d, s, e)
           g   == [c \in d.calls |-> IF c.id = id THEN [c EXCEPT !.status = "error"] ELSE c]
           rows == {g[c] : c \in d.calls}
           t   == RecordError(d, s, a, id)
<1>1. DOMAIN d = DbFields /\ CallsOK(d.calls, d.events, Ids(d.sessions), n)
  BY DEF Sound, Whole, Linked
<1>2. /\ DOMAIN d2 = DbFields
      /\ d2.sessions = d.sessions /\ d2.agents = d.agents /\ d2.calls = d.calls
  <2> HIDE DEF e
  <2> QED
    BY <1>1, InsertWrites
<1>3. t = [d2 EXCEPT !.calls = rows]
  <2>1. rows = Set(d.calls, id, LAMBDA c : [c EXCEPT !.status = "error"])
    BY DEF Set
  <2>2. t = [d2 EXCEPT !.calls = Set(d2.calls, id, LAMBDA c : [c EXCEPT !.status = "error"])]
    BY <1>2 DEF RecordError
  <2> QED
    BY <1>2, <2>1, <2>2
<1>4. e.agent = a /\ e.kind # "agent.finished" /\ e.raw = None
  BY DEF Event
<1>5. ASSUME NEW c \in d.calls
      PROVE  Completed(c, g[c], id, "error", None)
  <2>1. DOMAIN c = CallFields
    BY <1>1 DEF CallsOK
  <2> DEFINE c2 == [c EXCEPT !.status = "error"]
  <2>2. /\ DOMAIN c2 = CallFields /\ c2.id = c.id /\ c2.session = c.session
        /\ c2.agent = c.agent /\ c2.request = c.request /\ c2.kind = c.kind
        /\ c2.status = "error" /\ c2.response = c.response
    BY <2>1 DEF CallFields
  <2>3. g[c] = IF c.id = id THEN c2 ELSE c
    OBVIOUS
  <2> HIDE DEF c2, g, id
  <2> QED
    BY <2>1, <2>2, <2>3 DEF Completed
<1>6. AgentOf(a, s, n)
  BY DEF AgentOf
<1> HIDE DEF e, t, g
<1>7. Sound(d2, n, held)
  BY <1>4, <1>6, InsertKeepsSound
<1> HIDE DEF d2
<1>8. CallsOK(d.calls, d2.events, Ids(d.sessions), n) /\ OpenOK(d.calls, d.agents)
  BY <1>2, <1>7 DEF Sound, Whole, Linked, Closed
<1>9. DOMAIN g = d.calls
  BY DEF g
<1>10. /\ CallsOK(rows, d2.events, Ids(d.sessions), n) /\ OpenOK(rows, d.agents)
       /\ FromCalls(rows, d.calls, id, "error")
  <2>1. "error" \in Ended
    BY DEF Ended
  <2>2. rows = Image(g)
    BY <1>9 DEF Image
  <2>3. Completes(d.calls, g, d2.events, s, k, m, "error", None)
    BY <1>5, <1>9 DEF Completes
  <2> HIDE DEF rows
  <2> QED
    BY <1>8, <2>1, <2>2, <2>3, CallCompleted
<1> HIDE DEF rows
<1>11. Sound(t, n, held)
  BY <1>2, <1>3, <1>7, <1>10, CallsWritten
<1>12. t.sessions = d.sessions /\ t.agents = d.agents /\ t.calls = rows
  BY <1>2, <1>3 DEF DbFields
<1>13. ASSUME NEW c \in t.calls, OpenIn(t, c)
       PROVE  \E b \in d.calls : OpenIn(d, b) /\ b.id = c.id /\ b.agent = c.agent /\ b.id # id
  BY <1>10, <1>12, <1>13 DEF OpenIn, FromCalls
<1> QED
  BY <1>11, <1>12, <1>13 DEF t

-----------------------------------------------------------------------------
(* Messages. *)

LEMMA MessagesCounted ==
    ASSUME NEW d, NEW s, IsFiniteSet(d.messages)
    PROVE  Len(Messages(d, s)) \in Nat
<1> DEFINE ms == In(d.messages, s)
           nth(i) == CHOOSE m \in ms : Cardinality({x \in ms : x.seq <= m.seq}) = i
           c  == Cardinality(ms)
           f  == [i \in 1 .. c |-> nth(i)]
<1>1. Messages(d, s) = f
  BY DEF Messages
<1>2. IsFiniteSet(ms)
  BY FS_Subset DEF In
<1>3. c \in Nat
  BY <1>2, FS_CardinalityType
<1> HIDE DEF c, ms, nth
<1>4. f \in Seq({nth(i) : i \in 1 .. c})
  BY <1>3
<1> HIDE DEF f
<1> QED
  BY <1>1, <1>4

\* What PutMessage and Truncate leave of the others.
MessagesOnly(d, t) ==
    /\ t.sessions = d.sessions /\ t.agents = d.agents /\ t.steps = d.steps
    /\ t.calls = d.calls /\ t.events = d.events /\ t.refs = d.refs

LEMMA PutMessageKeeps ==
    ASSUME NEW d, NEW n, NEW held, Sound(d, n, held), NEW s \in Ids(d.sessions),
           NEW i \in Nat, NEW role \in {"user", "assistant"}, NEW texts, NEW step
    PROVE  LET t == PutMessage(d, Message(s, i + 1, role, texts, step))
           IN  Sound(t, n, held) /\ MessagesOnly(d, t)
<1> DEFINE m    == Message(s, i + 1, role, texts, step)
           kept == {x \in d.messages : ~ (x.session = m.session /\ x.seq = m.seq)}
           rows == kept \cup {m}
<1>1. PutMessage(d, m) = [d EXCEPT !.messages = rows]
  BY DEF PutMessage
<1>2. /\ DOMAIN m = {"session", "seq", "role", "texts", "step"}
      /\ m.session = s /\ m.role = role /\ m.seq = i + 1
  BY DEF Message
<1>3. MessagesOK(d.messages, Ids(d.sessions)) /\ DOMAIN d = DbFields
  BY DEF Sound, Whole, Linked
<1> HIDE DEF m
<1>4. IsFiniteSet(kept)
  BY <1>3, FS_Subset DEF MessagesOK
<1>5. IsFiniteSet(rows)
  BY <1>4, FS_AddElement
<1>6. \A x \in rows : x \in d.messages \/ x = m
  OBVIOUS
<1> HIDE DEF rows, kept
<1>7. i + 1 \in Nat \ {0}
  OBVIOUS
<1>8. MessagesOK(rows, Ids(d.sessions))
  BY <1>2, <1>3, <1>5, <1>6, <1>7 DEF MessagesOK
<1>9. Sound([d EXCEPT !.messages = rows], n, held)
  BY <1>8, MessagesWritten
<1>10. MessagesOnly(d, [d EXCEPT !.messages = rows])
  BY <1>3 DEF MessagesOnly, DbFields
<1> QED
  BY <1>1, <1>9, <1>10 DEF m

LEMMA PutNextKeeps ==
    ASSUME NEW d, NEW n, NEW held, Sound(d, n, held), NEW s \in Ids(d.sessions),
           NEW role \in {"user", "assistant"}, NEW text, NEW step
    PROVE  LET t == PutNext(d, s, role, text, step)
           IN  Sound(t, n, held) /\ MessagesOnly(d, t)
<1>1. IsFiniteSet(d.messages)
  BY DEF Sound, Whole, Linked, MessagesOK
<1>2. Len(Messages(d, s)) \in Nat
  BY <1>1, MessagesCounted
<1> QED
  BY <1>2, PutMessageKeeps DEF PutNext

LEMMA PutUserTextKeeps ==
    ASSUME NEW d, NEW n, NEW held, Sound(d, n, held), NEW s \in Ids(d.sessions), NEW text
    PROVE  LET t == PutUserText(d, s, text)
           IN  Sound(t, n, held) /\ MessagesOnly(d, t)
<1> DEFINE ms == Messages(d, s)
<1>1. IsFiniteSet(d.messages)
  BY DEF Sound, Whole, Linked, MessagesOK
<1>2. Len(ms) \in Nat
  BY <1>1, MessagesCounted
<1>3. CASE Len(ms) > 0 /\ ms[Len(ms)].role = "user"
  <2> DEFINE texts == Append(ms[Len(ms)].texts, text)
  <2>1. PutUserText(d, s, text) = PutMessage(d, Message(s, Len(ms), "user", texts, None))
    BY <1>3 DEF PutUserText
  <2> HIDE DEF ms, texts
  <2>2. Len(ms) - 1 \in Nat /\ (Len(ms) - 1) + 1 = Len(ms)
    BY <1>2, <1>3
  <2>3. \A i \in Nat : i + 1 = Len(ms) =>
            LET t == PutMessage(d, Message(s, Len(ms), "user", texts, None))
            IN  Sound(t, n, held) /\ MessagesOnly(d, t)
    BY PutMessageKeeps
  <2> QED
    BY <2>1, <2>2, <2>3
<1>4. CASE ~ (Len(ms) > 0 /\ ms[Len(ms)].role = "user")
  <2>1. PutUserText(d, s, text) = PutMessage(d, Message(s, Len(ms) + 1, "user", <<text>>, None))
    BY <1>4 DEF PutUserText
  <2> HIDE DEF ms
  <2> QED
    BY <1>2, <2>1, PutMessageKeeps
<1> QED
  BY <1>3, <1>4

LEMMA TruncateKeeps ==
    ASSUME NEW d, NEW n, NEW held, Sound(d, n, held), NEW s, NEW keep
    PROVE  LET t == Truncate(d, s, keep)
           IN  Sound(t, n, held) /\ MessagesOnly(d, t)
<1> DEFINE rows == {m \in d.messages : m.session # s \/ m.seq <= keep}
<1>1. Truncate(d, s, keep) = [d EXCEPT !.messages = rows]
  BY DEF Truncate
<1>2. MessagesOK(d.messages, Ids(d.sessions)) /\ DOMAIN d = DbFields
  BY DEF Sound, Whole, Linked
<1>3. MessagesOK(rows, Ids(d.sessions))
  BY <1>2, FS_Subset DEF MessagesOK
<1> HIDE DEF rows
<1>4. Sound([d EXCEPT !.messages = rows], n, held)
  BY <1>3, MessagesWritten
<1>5. MessagesOnly(d, [d EXCEPT !.messages = rows])
  BY <1>2 DEF MessagesOnly, DbFields
<1> QED
  BY <1>1, <1>4, <1>5

-----------------------------------------------------------------------------
(* A blob put, a recovery, a purge. *)

LEMMA PutBlobKeeps ==
    ASSUME NEW d, NEW n, NEW held, Sound(d, n, held), NEW b, b # None, b \notin held
    PROVE  LET t == PutBlob(d, b)
           IN  /\ Sound(t, n, held \cup {b})
               /\ t.sessions = d.sessions /\ t.agents = d.agents /\ t.calls = d.calls
<1> DEFINE t     == PutBlob(d, b)
           refs2 == Register(d.refs, b)
<1>1. /\ DOMAIN t = DbFields
      /\ t.sessions = d.sessions /\ t.agents = d.agents /\ t.steps = d.steps
      /\ t.calls = d.calls /\ t.messages = d.messages /\ t.events = d.events /\ t.refs = refs2
  BY DEF PutBlob, Sound, Whole, DbFields
<1>2. RefsOK(d.refs, d.events, held) /\ IsFiniteSet(d.events)
  BY DEF Sound, Whole, Linked, EventsOK
<1>3. DOMAIN refs2 = DOMAIN d.refs \cup {b}
  BY DEF Register
<1>4. \A c \in DOMAIN refs2 : refs2[c] = Count(d.refs, c) + IF c = b THEN 1 ELSE 0
  BY DEF Register, Count
<1> HIDE DEF t, refs2
<1>5. ASSUME NEW c \in DOMAIN refs2
      PROVE  c # None /\ refs2[c] = Names(d.events, c) + (IF c \in held \cup {b} THEN 1 ELSE 0)
  <2>1. c # None
    BY <1>2, <1>3 DEF RefsOK
  <2>2. Names(d.events, c) \in Nat
    <3>1. IsFiniteSet({}) /\ d.events \cap {} = {}
      BY FS_EmptySet
    <3> QED
      BY <1>2, <3>1, NamesOfUnion
  <2>3. Count(d.refs, c) = Names(d.events, c) + (IF c \in held THEN 1 ELSE 0)
    <3>1. CASE c \in DOMAIN d.refs
      BY <1>2, <3>1 DEF RefsOK, Count
    <3>2. CASE c \notin DOMAIN d.refs
      <4>1. c \notin NamedIn(d.events) /\ c \notin held
        BY <1>2, <3>2 DEF RefsOK
      <4>2. Names(d.events, c) = 0
        BY <2>1, <4>1, UnnamedIsZero
      <4> QED
        BY <3>2, <4>1, <4>2 DEF Count
    <3> QED
      BY <3>1, <3>2
  <2> QED
    BY <1>4, <2>1, <2>2, <2>3
<1>6. RefsOK(refs2, d.events, held \cup {b})
  BY <1>2, <1>3, <1>5 DEF RefsOK
<1>7. Sound(t, n, held \cup {b})
  BY <1>1, <1>6 DEF Sound, Whole, Linked, Closed
<1> QED
  BY <1>1, <1>7 DEF t

\* The calls of the agent a that run are ended by g.
EndsCalls(calls, g, a) ==
    /\ DOMAIN g = calls
    /\ \A c \in calls :
          /\ DOMAIN g[c] = CallFields /\ g[c].id = c.id /\ g[c].session = c.session
          /\ g[c].agent = c.agent /\ g[c].kind = c.kind
          /\ g[c].request = c.request /\ g[c].response = c.response
          /\ g[c].status = IF c.agent = a /\ c.status = "running" THEN "error" ELSE c.status

LEMMA CallsEnded ==
    ASSUME NEW calls, NEW events, NEW agents, NEW ss, NEW n,
           CallsOK(calls, events, ss, n), OpenOK(calls, agents),
           NEW a, NEW g, EndsCalls(calls, g, a), NEW rows, rows = Image(g)
    PROVE  /\ CallsOK(rows, events, ss, n) /\ OpenOK(rows, agents)
           /\ \A r \in rows : r.agent = a => r.status # "running"
<1> USE DEF EndsCalls, Image
<1>1. IsFiniteSet(rows)
  <2>1. IsFiniteSet(calls) /\ DOMAIN g = calls
    BY DEF CallsOK
  <2> QED
    BY <2>1, FiniteImage
<1>2. ASSUME NEW r \in rows
      PROVE  \E c \in calls :
                 /\ DOMAIN r = CallFields /\ r.id = c.id /\ r.session = c.session
                 /\ r.agent = c.agent /\ r.kind = c.kind
                 /\ r.request = c.request /\ r.response = c.response
                 /\ r.status = IF c.agent = a /\ c.status = "running" THEN "error" ELSE c.status
  OBVIOUS
<1>3. CallsOK(rows, events, ss, n)
  <2> SUFFICES ASSUME NEW r \in rows
               PROVE  /\ DOMAIN r = CallFields
                      /\ r.session \in ss /\ CallNamed(r, n) /\ r.status \in Statuses
                      /\ \E e \in events : IsHome(e, r, r.request, "mentor.request")
                      /\ r.response # None =>
                            \E e \in events : IsHome(e, r, r.response, "mentor.response")
    BY <1>1 DEF CallsOK
  <2>1. PICK c \in calls :
            /\ DOMAIN r = CallFields /\ r.id = c.id /\ r.session = c.session
            /\ r.agent = c.agent /\ r.kind = c.kind
            /\ r.request = c.request /\ r.response = c.response
            /\ r.status = IF c.agent = a /\ c.status = "running" THEN "error" ELSE c.status
    BY <1>2
  <2>2. /\ c.session \in ss /\ CallNamed(c, n) /\ c.status \in Statuses
        /\ \E e \in events : IsHome(e, c, c.request, "mentor.request")
        /\ c.response # None => \E e \in events : IsHome(e, c, c.response, "mentor.response")
    BY DEF CallsOK
  <2>3. CallNamed(r, n) /\ r.session \in ss /\ r.status \in Statuses
    BY <2>1, <2>2 DEF CallNamed, Statuses, Ended
  <2>4. /\ \E e \in events : IsHome(e, r, r.request, "mentor.request")
        /\ r.response # None => \E e \in events : IsHome(e, r, r.response, "mentor.response")
    BY <2>1, <2>2 DEF IsHome
  <2> QED
    BY <2>1, <2>3, <2>4
<1>4. OpenOK(rows, agents)
  BY <1>2 DEF OpenOK
<1>5. \A r \in rows : r.agent = a => r.status # "running"
  BY <1>2
<1> QED
  BY <1>3, <1>4, <1>5

LEMMA RecoverAgentKeeps ==
    ASSUME NEW d, NEW n, NEW held, Sound(d, n, held), NEW row \in d.agents,
           row.status = "running"
    PROVE  LET t == RecoverAgent(d, row.id)
           IN  Sound(t, n, held) /\ t.sessions = d.sessions
<1> DEFINE a     == row.id
           s     == row.session
           h     == [r \in d.steps |-> IF r.agent = a /\ r.status = "running"
                                       THEN [r EXCEPT !.status = "error"] ELSE r]
           g     == [r \in d.calls |-> IF r.agent = a /\ r.status = "running"
                                       THEN [r EXCEPT !.status = "error"] ELSE r]
           steps == {IF r.agent = a /\ r.status = "running"
                     THEN [r EXCEPT !.status = "error"] ELSE r : r \in d.steps}
           calls == {IF r.agent = a /\ r.status = "running"
                     THEN [r EXCEPT !.status = "error"] ELSE r : r \in d.calls}
           d1    == [d EXCEPT !.steps = steps]
           d2    == [d EXCEPT !.steps = steps, !.calls = calls]
           d3    == FinishAgent(d2, s, a, "error")
           e     == Event("outcome", a)
<1>1. /\ DOMAIN d = DbFields /\ AgentsOK(d.agents, Ids(d.sessions), n)
      /\ StepsOK(d.steps, Ids(d.agents)) /\ CallsOK(d.calls, d.events, Ids(d.sessions), n)
      /\ OpenOK(d.calls, d.agents)
  BY DEF Sound, Whole, Linked, Closed
<1>2. RecoverAgent(d, a) = InsertEvent(d3, s, e)
  <2>1. (CHOOSE r \in d.agents : r.id = a) = row
    BY <1>1 DEF AgentsOK
  <2> QED
    BY <2>1 DEF RecoverAgent
<1>3. StepsOK(steps, Ids(d.agents))
  <2>1. \A q \in steps : /\ DOMAIN q = {"id", "agent", "status"} /\ q.agent \in Ids(d.agents)
                         /\ q.status \in Statuses
    BY <1>1 DEF StepsOK, Statuses, Ended
  <2>2. DOMAIN h = d.steps /\ steps = {h[r] : r \in d.steps}
    OBVIOUS
  <2>3. IsFiniteSet(d.steps)
    BY <1>1 DEF StepsOK
  <2> HIDE DEF steps, h
  <2>4. IsFiniteSet(steps)
    BY <2>2, <2>3, FiniteImage
  <2> QED
    BY <2>1, <2>4 DEF StepsOK
<1>4. calls = Image(g)
  BY DEF Image
<1>5. EndsCalls(d.calls, g, a)
  <2>1. ASSUME NEW c \in d.calls
        PROVE  /\ DOMAIN g[c] = CallFields /\ g[c].id = c.id /\ g[c].session = c.session
               /\ g[c].agent = c.agent /\ g[c].kind = c.kind
               /\ g[c].request = c.request /\ g[c].response = c.response
               /\ g[c].status = IF c.agent = a /\ c.status = "running" THEN "error" ELSE c.status
    <3>1. DOMAIN c = CallFields
      BY <1>1 DEF CallsOK
    <3> QED
      BY <3>1 DEF CallFields
  <2>2. DOMAIN g = d.calls
    OBVIOUS
  <2> HIDE DEF g
  <2> QED
    BY <2>1, <2>2 DEF EndsCalls
<1> HIDE DEF g, calls, steps
<1>6. Sound(d1, n, held)
  BY <1>3, StepsWritten
<1>7. /\ d1.calls = d.calls /\ d1.events = d.events /\ d1.sessions = d.sessions
      /\ d1.agents = d.agents /\ DOMAIN d1 = DbFields
      /\ d2 = [d1 EXCEPT !.calls = calls]
  BY <1>1 DEF DbFields
<1> HIDE DEF d1, d2
<1>8. /\ CallsOK(calls, d.events, Ids(d.sessions), n) /\ OpenOK(calls, d.agents)
      /\ \A r \in calls : r.agent = a => r.status # "running"
  BY <1>1, <1>4, <1>5, CallsEnded
<1>9. Sound(d2, n, held)
  BY <1>6, <1>7, <1>8, CallsWritten
<1>10. d2.agents = d.agents /\ d2.calls = calls /\ d2.sessions = d.sessions
  BY <1>7 DEF DbFields
<1>11. NoneOpen(d2, a) /\ row \in d2.agents /\ "error" \in Ended
  BY <1>8, <1>10 DEF NoneOpen, Ended
<1>12. Sound(d3, n, held) /\ d3.sessions = d.sessions
  BY <1>9, <1>10, <1>11, FinishAgentKeeps
<1>13. s \in Ids(d.sessions) /\ AgentOf(a, s, n)
  BY <1>1 DEF AgentsOK
<1>14. e.agent = a /\ e.raw = None /\ e.kind # "agent.finished"
  BY DEF Event
<1> HIDE DEF d3, e
<1>15. Sound(InsertEvent(d3, s, e), n, held)
  BY <1>12, <1>13, <1>14, InsertKeepsSound
<1>16. InsertEvent(d3, s, e).sessions = d3.sessions
  BY <1>12, InsertWrites DEF Sound, Whole
<1> QED
  BY <1>2, <1>12, <1>15, <1>16

\* An agent's events are in its session.
LEMMA AgentsSession ==
    ASSUME NEW a, NEW s, NEW t, NEW n, NEW m, AgentOf(a, s, n), AgentOf(a, t, m)
    PROVE  s = t
<1>1. PICK k \in 1 .. n : a = <<s, k>>
  BY DEF AgentOf
<1>2. PICK l \in 1 .. m : a = <<t, l>>
  BY DEF AgentOf
<1>3. <<s, k>> = <<t, l>>
  BY <1>1, <1>2
<1> QED
  BY <1>3

\* The rows of the sessions ss, with what they need.
Restricted(d, t, ss) ==
    /\ t.sessions = {r \in d.sessions : r.id \in ss}
    /\ t.agents = {r \in d.agents : r.session \in ss}
    /\ t.steps \subseteq d.steps /\ \A r \in t.steps : r.agent \in Ids(t.agents)
    /\ t.calls = {r \in d.calls : r.session \in ss}
    /\ t.events = {r \in d.events : r.session \in ss}
    /\ t.messages \subseteq d.messages /\ \A m \in t.messages : m.session \in ss

LEMMA RestrictedLinked ==
    ASSUME NEW d, NEW n, NEW ss, NEW t, Linked(d, n), Restricted(d, t, ss)
    PROVE  Linked(t, n) /\ Ids(t.sessions) = Ids(d.sessions) \cap ss
<1> USE DEF Restricted
<1>1. Ids(t.sessions) = Ids(d.sessions) \cap ss
  BY DEF Ids
<1>2. SessionsOK(t.sessions)
  BY DEF Linked, SessionsOK
<1>3. AgentsOK(t.agents, Ids(t.sessions), n)
  BY <1>1 DEF Linked, AgentsOK
<1>4. StepsOK(t.steps, Ids(t.agents))
  <2>1. IsFiniteSet(t.steps)
    BY FS_Subset DEF Linked, StepsOK
  <2> QED
    BY <2>1 DEF Linked, StepsOK
<1>5. EventsOK(t.events, Ids(t.sessions), n)
  <2>1. EventsOK(d.events, Ids(d.sessions), n)
    BY DEF Linked
  <2>2. IsFiniteSet(t.events)
    BY <2>1, FS_Subset DEF EventsOK
  <2>3. ASSUME NEW u \in Ids(t.sessions)
        PROVE  Counted(t.events, u)
    <3>1. In(t.events, u) = In(d.events, u) /\ u \in Ids(d.sessions)
      BY <1>1 DEF In
    <3>2. Counted(d.events, u)
      BY <2>1, <3>1 DEF EventsOK
    <3> QED
      BY <3>1, <3>2 DEF Counted
  <2> QED
    BY <1>1, <2>1, <2>2, <2>3 DEF EventsOK
<1>6. CallsOK(t.calls, t.events, Ids(t.sessions), n)
  <2>1. CallsOK(d.calls, d.events, Ids(d.sessions), n)
    BY DEF Linked
  <2>2. IsFiniteSet(t.calls)
    BY <2>1, FS_Subset DEF CallsOK
  <2>3. ASSUME NEW c \in t.calls
        PROVE  /\ \E e \in t.events : IsHome(e, c, c.request, "mentor.request")
               /\ c.response # None =>
                     \E e \in t.events : IsHome(e, c, c.response, "mentor.response")
    BY <2>1 DEF CallsOK, IsHome
  <2> QED
    BY <1>1, <2>1, <2>2, <2>3 DEF CallsOK
<1>7. MessagesOK(t.messages, Ids(t.sessions))
  <2>1. IsFiniteSet(t.messages)
    BY FS_Subset DEF Linked, MessagesOK
  <2> QED
    BY <1>1, <2>1 DEF Linked, MessagesOK
<1> QED
  BY <1>1, <1>2, <1>3, <1>4, <1>5, <1>6, <1>7 DEF Linked

LEMMA RestrictedClosed ==
    ASSUME NEW d, NEW n, NEW ss, NEW t, Tables(d, n), Restricted(d, t, ss)
    PROVE  Closed(t)
<1>1. Linked(d, n) /\ EndsOK(d.agents, d.events) /\ OpenOK(d.calls, d.agents)
  BY DEF Tables, Closed
<1>2. EndsOK(t.agents, t.events)
  <2> SUFFICES ASSUME NEW a \in t.agents
               PROVE  IF a.status = "running" THEN Ends(t.events, a.id) = {}
                      ELSE \E e \in t.events : Ends(t.events, a.id) = {e}
    BY DEF EndsOK
  <2>1. a \in d.agents /\ a.session \in ss /\ AgentOf(a.id, a.session, n)
    BY <1>1 DEF Restricted, Linked, AgentsOK
  <2>2. ASSUME NEW e \in d.events, e.agent = a.id
        PROVE  e.session \in ss
    <3>1. a.id # None
      BY <2>1 DEF AgentOf, None
    <3>2. AgentOf(a.id, e.session, n)
      BY <1>1, <2>2, <3>1 DEF Linked, EventsOK
    <3> QED
      BY <2>1, <3>2, AgentsSession
  <2>3. Ends(t.events, a.id) = Ends(d.events, a.id)
    BY <2>2 DEF Ends, Restricted
  <2>4. \A e : Ends(t.events, a.id) = {e} => e \in t.events
    BY DEF Ends
  <2> QED
    BY <1>1, <2>1, <2>3, <2>4 DEF EndsOK
<1>3. OpenOK(t.calls, t.agents)
  BY <1>1 DEF OpenOK, Restricted
<1> QED
  BY <1>2, <1>3 DEF Closed

LEMMA PurgedRefs ==
    ASSUME NEW refs, NEW events, NEW held, RefsOK(refs, events, held), IsFiniteSet(events),
           NEW s, NEW refs2, DOMAIN refs2 = DOMAIN refs,
           \A c \in DOMAIN refs : refs2[c] = Max({refs[c] - Names(In(events, s), c), 0})
    PROVE  RefsOK(refs2, {r \in events : r.session # s}, held)
<1> DEFINE own  == In(events, s)
           rest == {r \in events : r.session # s}
<1>1. /\ IsFiniteSet(own) /\ IsFiniteSet(rest)
      /\ own \cap rest = {} /\ events = own \cup rest
  BY FS_Subset DEF In
<1>2. NamedIn(rest) \subseteq NamedIn(events)
  BY DEF NamedIn
<1> HIDE DEF own, rest
<1>3. ASSUME NEW c \in DOMAIN refs
      PROVE  refs2[c] = Names(rest, c) + (IF c \in held THEN 1 ELSE 0)
  <2>1. /\ Names(own, c) \in Nat /\ Names(rest, c) \in Nat
        /\ Names(own \cup rest, c) = Names(own, c) + Names(rest, c)
    <3>1. IsFiniteSet(own) /\ IsFiniteSet(rest) /\ own \cap rest = {}
      BY <1>1
    <3> QED
      BY <3>1, NamesOfUnion
  <2>2. refs[c] = Names(own \cup rest, c) + (IF c \in held THEN 1 ELSE 0)
    BY <1>1 DEF RefsOK
  <2>3. refs[c] \in Nat /\ Names(own, c) <= refs[c]
    BY <2>1, <2>2
  <2>4. refs2[c] = refs[c] - Names(own, c)
    BY <2>1, <2>3, MaxWithZero DEF own
  <2> QED
    BY <2>1, <2>2, <2>4
<1>4. RefsOK(refs2, rest, held)
  BY <1>2, <1>3 DEF RefsOK
<1> QED
  BY <1>4 DEF rest

LEMMA PurgeKeeps ==
    ASSUME NEW d, NEW n, NEW held, Sound(d, n, held), NEW s
    PROVE  LET t == PurgeSession(d, s)
           IN  /\ Sound(t, n, held)
               /\ t.sessions = {r \in d.sessions : r.id # s}
               /\ t.agents = {r \in d.agents : r.session # s}
               /\ t.calls = {r \in d.calls : r.session # s}
               /\ t.events = {r \in d.events : r.session # s}
               /\ t.messages = {m \in d.messages : m.session # s \/ m.seq <= 0}
<1> DEFINE t == PurgeSession(d, s)
           d2 == Truncate(d, s, 0)
           d3 == ReleaseBlobs(d2, s)
           ss == Ids(d.sessions) \ {s}
<1>1. DOMAIN d = DbFields /\ Linked(d, n) /\ RefsOK(d.refs, d.events, held) /\ Closed(d)
  BY DEF Sound, Whole
<1>2. /\ DOMAIN t = DbFields
      /\ t.sessions = {r \in d.sessions : r.id # s}
      /\ t.agents = {r \in d.agents : r.session # s}
      /\ t.steps = {r \in d.steps : \A a \in In(d.agents, s) : r.agent # a.id}
      /\ t.calls = {r \in d.calls : r.session # s}
      /\ t.events = {r \in d.events : r.session # s}
      /\ t.messages = {m \in d.messages : m.session # s \/ m.seq <= 0}
      /\ DOMAIN t.refs = DOMAIN d.refs
      /\ \A c \in DOMAIN d.refs :
            t.refs[c] = Max({d.refs[c] - Names(In(d.events, s), c), 0})
  <2>1. /\ DOMAIN d2 = DbFields
        /\ d2.sessions = d.sessions /\ d2.agents = d.agents /\ d2.steps = d.steps
        /\ d2.calls = d.calls /\ d2.events = d.events /\ d2.refs = d.refs
        /\ d2.messages = {m \in d.messages : m.session # s \/ m.seq <= 0}
    BY <1>1 DEF Truncate, DbFields
  <2> HIDE DEF d2
  <2>2. /\ DOMAIN d3 = DbFields
        /\ d3.sessions = d2.sessions /\ d3.agents = d2.agents /\ d3.steps = d2.steps
        /\ d3.calls = d2.calls /\ d3.events = d2.events /\ d3.messages = d2.messages
        /\ DOMAIN d3.refs = DOMAIN d2.refs
        /\ \A c \in DOMAIN d2.refs :
              d3.refs[c] = Max({d2.refs[c] - Names(In(d2.events, s), c), 0})
    BY <2>1 DEF ReleaseBlobs, DbFields
  <2>3. t = [d3 EXCEPT !.calls    = {r \in @ : r.session # s},
                       !.events   = {r \in @ : r.session # s},
                       !.steps    = {r \in @ : \A a \in In(d.agents, s) : r.agent # a.id},
                       !.agents   = {r \in @ : r.session # s},
                       !.sessions = {r \in @ : r.id # s}]
    BY DEF PurgeSession, d2
  <2> HIDE DEF d3, t
  <2>4. /\ DOMAIN t = DbFields
        /\ t.sessions = {r \in d3.sessions : r.id # s}
        /\ t.agents = {r \in d3.agents : r.session # s}
        /\ t.steps = {r \in d3.steps : \A a \in In(d.agents, s) : r.agent # a.id}
        /\ t.calls = {r \in d3.calls : r.session # s}
        /\ t.events = {r \in d3.events : r.session # s}
        /\ t.messages = d3.messages /\ t.refs = d3.refs
    BY <2>2, <2>3 DEF DbFields
  <2> QED
    BY <2>1, <2>2, <2>4
<1> HIDE DEF t, d2, d3, ss
<1>3. Restricted(d, t, ss)
  <2>1. /\ t.sessions = {r \in d.sessions : r.id \in ss}
        /\ t.agents = {r \in d.agents : r.session \in ss}
        /\ t.calls = {r \in d.calls : r.session \in ss}
        /\ t.events = {r \in d.events : r.session \in ss}
    BY <1>1, <1>2 DEF Linked, Ids, AgentsOK, CallsOK, EventsOK, ss
  <2>2. ASSUME NEW r \in t.steps
        PROVE  r.agent \in Ids(t.agents)
    <3>1. PICK a \in d.agents : a.id = r.agent
      BY <1>1, <1>2 DEF Linked, StepsOK, Ids
    <3>2. a.session # s
      BY <1>2, <3>1 DEF In
    <3> QED
      BY <1>2, <3>1, <3>2 DEF Ids
  <2>3. \A m \in t.messages : m.session \in ss
    BY <1>1, <1>2 DEF Linked, MessagesOK, ss
  <2>4. t.steps \subseteq d.steps /\ t.messages \subseteq d.messages
    BY <1>2
  <2> QED
    BY <2>1, <2>2, <2>3, <2>4 DEF Restricted
<1>4. Linked(t, n) /\ Closed(t)
  BY <1>1, <1>3, RestrictedLinked, RestrictedClosed DEF Tables
<1>5. RefsOK(t.refs, t.events, held)
  <2>1. IsFiniteSet(d.events)
    BY <1>1 DEF Linked, EventsOK
  <2> QED
    BY <1>1, <1>2, <2>1, PurgedRefs
<1>6. Sound(t, n, held)
  BY <1>2, <1>4, <1>5 DEF Sound, Whole
<1> QED
  BY <1>2, <1>6 DEF t

-----------------------------------------------------------------------------
(* A copy of the tables under other session ids. *)

LEMMA RenamedIds ==
    ASSUME NEW f
    PROVE  /\ Renamed(f, None) = None
           /\ \A s, k : Renamed(f, <<s, k>>) = <<SessionOf(f, s), k>>
           /\ \A s, k, m : Renamed(f, <<s, k, m>>) = <<SessionOf(f, s), k, m>>
<1>1. Renamed(f, None) = None
  BY DEF Renamed
<1>2. ASSUME NEW s, NEW k
      PROVE  Renamed(f, <<s, k>>) = <<SessionOf(f, s), k>>
  <2>1. <<s, k>> # None /\ <<s, k>>[1] = s
    BY DEF None
  <2>2. [<<s, k>> EXCEPT ![1] = f[@]] = <<f[s], k>>
    OBVIOUS
  <2> QED
    BY <2>1, <2>2 DEF Renamed, SessionOf
<1>3. ASSUME NEW s, NEW k, NEW m
      PROVE  Renamed(f, <<s, k, m>>) = <<SessionOf(f, s), k, m>>
  <2>1. <<s, k, m>> # None /\ <<s, k, m>>[1] = s
    BY DEF None
  <2>2. [<<s, k, m>> EXCEPT ![1] = f[@]] = <<f[s], k, m>>
    OBVIOUS
  <2> QED
    BY <2>1, <2>2 DEF Renamed, SessionOf
<1> QED
  BY <1>1, <1>2, <1>3

\* The row q is the copy of r.
SessionCopy(f, r, q) ==
    DOMAIN q = DOMAIN r /\ q.id = SessionOf(f, r.id) /\ q.status = r.status /\ q.source = r.source
AgentCopy(f, r, q) ==
    /\ DOMAIN q = DOMAIN r /\ q.id = Renamed(f, r.id)
    /\ q.session = SessionOf(f, r.session) /\ q.status = r.status
StepCopy(f, r, q) ==
    DOMAIN q = DOMAIN r /\ q.agent = Renamed(f, r.agent) /\ q.status = r.status
EventCopy(f, r, q) ==
    /\ DOMAIN q = DOMAIN r /\ q.id = Renamed(f, r.id) /\ q.session = SessionOf(f, r.session)
    /\ q.seq = r.seq /\ q.kind = r.kind /\ q.agent = Renamed(f, r.agent)
CallCopy(f, r, q) ==
    /\ DOMAIN q = DOMAIN r /\ q.id = Renamed(f, r.id) /\ q.session = SessionOf(f, r.session)
    /\ q.agent = Renamed(f, r.agent) /\ q.kind = r.kind /\ q.status = r.status
    /\ q.request = Renamed(f, r.request) /\ q.response = Renamed(f, r.response)
MessageCopy(f, r, q) ==
    /\ DOMAIN q = DOMAIN r /\ q.session = SessionOf(f, r.session)
    /\ q.seq = r.seq /\ q.role = r.role

\* g copies the rows of a table to those of another.
Copies(rows, g, rows2) == DOMAIN g = rows /\ rows2 = Image(g)
CopySessions(rows, f, rows2) ==
    \E g : Copies(rows, g, rows2) /\ \A r \in rows : SessionCopy(f, r, g[r])
CopyAgents(rows, f, rows2) ==
    \E g : Copies(rows, g, rows2) /\ \A r \in rows : AgentCopy(f, r, g[r])
CopySteps(rows, f, rows2) ==
    \E g : Copies(rows, g, rows2) /\ \A r \in rows : StepCopy(f, r, g[r])
CopyEvents(rows, f, rows2) ==
    \E g : Copies(rows, g, rows2) /\ \A r \in rows : EventCopy(f, r, g[r])
CopyCalls(rows, f, rows2) ==
    \E g : Copies(rows, g, rows2) /\ \A r \in rows : CallCopy(f, r, g[r])
CopyMessages(rows, f, rows2) ==
    \E g : Copies(rows, g, rows2) /\ \A r \in rows : MessageCopy(f, r, g[r])

Copy(d, f, t) ==
    /\ CopySessions(d.sessions, f, t.sessions) /\ CopyAgents(d.agents, f, t.agents)
    /\ CopySteps(d.steps, f, t.steps) /\ CopyEvents(d.events, f, t.events)
    /\ CopyCalls(d.calls, f, t.calls) /\ CopyMessages(d.messages, f, t.messages)

\* No two sessions of ss get the same id.
Apart(f, ss) == \A s, t \in ss : SessionOf(f, s) = SessionOf(f, t) => s = t

LEMMA RenamedApart ==
    ASSUME NEW f, NEW ss, Apart(f, ss), NEW s \in ss, NEW t \in ss, NEW n, NEW m,
           NEW a, NEW b, AgentOf(a, s, n), AgentOf(b, t, m), Renamed(f, a) = Renamed(f, b)
    PROVE  a = b
<1>1. PICK k \in 1 .. n : a = <<s, k>>
  BY DEF AgentOf
<1>2. PICK l \in 1 .. m : b = <<t, l>>
  BY DEF AgentOf
<1>3. <<SessionOf(f, s), k>> = <<SessionOf(f, t), l>>
  BY <1>1, <1>2, RenamedIds
<1>4. SessionOf(f, s) = SessionOf(f, t) /\ k = l
  BY <1>3
<1> QED
  BY <1>1, <1>2, <1>4 DEF Apart

LEMMA RenamedAgentOf ==
    ASSUME NEW f, NEW a, NEW s, NEW n, AgentOf(a, s, n)
    PROVE  AgentOf(Renamed(f, a), SessionOf(f, s), n) /\ a # None /\ Renamed(f, a) # None
<1>1. PICK k \in 1 .. n : a = <<s, k>>
  BY DEF AgentOf
<1>2. Renamed(f, a) = <<SessionOf(f, s), k>>
  BY <1>1, RenamedIds
<1> QED
  BY <1>1, <1>2 DEF AgentOf, None

LEMMA CopiedSessions ==
    ASSUME NEW rows, NEW f, NEW rows2, SessionsOK(rows), CopySessions(rows, f, rows2),
           Apart(f, Ids(rows)), \A s \in Ids(rows) : SessionOf(f, s) \in Sessions
    PROVE  SessionsOK(rows2) /\ Ids(rows2) = {SessionOf(f, s) : s \in Ids(rows)}
<1>1. PICK g : Copies(rows, g, rows2) /\ \A r \in rows : SessionCopy(f, r, g[r])
  BY DEF CopySessions
<1>2. \A q \in rows2 : \E r \in rows : q = g[r] /\ SessionCopy(f, r, q)
  BY <1>1 DEF Copies, Image
<1>3. \A r \in rows : g[r] \in rows2 /\ SessionCopy(f, r, g[r])
  BY <1>1 DEF Copies, Image
<1>4. Ids(rows2) = {SessionOf(f, s) : s \in Ids(rows)}
  BY <1>2, <1>3 DEF Ids, SessionCopy
<1>5. ASSUME NEW q1 \in rows2, NEW q2 \in rows2, q1.id = q2.id
      PROVE  q1 = q2
  <2>1. PICK r1 \in rows : q1 = g[r1] /\ q1.id = SessionOf(f, r1.id)
    BY <1>2 DEF SessionCopy
  <2>2. PICK r2 \in rows : q2 = g[r2] /\ q2.id = SessionOf(f, r2.id)
    BY <1>2 DEF SessionCopy
  <2>3. r1.id = r2.id
    BY <1>5, <2>1, <2>2 DEF Apart, Ids
  <2> QED
    BY <2>1, <2>2, <2>3 DEF SessionsOK
<1>6. \A q \in rows2 : /\ DOMAIN q = {"id", "status", "source"} /\ q.id \in Sessions
                       /\ q.status \in {"open", "archived", "deleted"}
                       /\ q.source \in {"none", "prompt", "generated", "user"}
  BY <1>2 DEF SessionCopy, SessionsOK, Ids
<1> QED
  BY <1>4, <1>5, <1>6 DEF SessionsOK

LEMMA CopiedAgents ==
    ASSUME NEW rows, NEW f, NEW rows2, NEW ss, NEW ss2, NEW n, AgentsOK(rows, ss, n),
           CopyAgents(rows, f, rows2), Apart(f, ss), ss2 = {SessionOf(f, s) : s \in ss}
    PROVE  AgentsOK(rows2, ss2, n) /\ Ids(rows2) = {Renamed(f, a) : a \in Ids(rows)}
<1>1. PICK g : Copies(rows, g, rows2) /\ \A r \in rows : AgentCopy(f, r, g[r])
  BY DEF CopyAgents
<1>2. \A q \in rows2 : \E r \in rows : q = g[r] /\ AgentCopy(f, r, q)
  BY <1>1 DEF Copies, Image
<1>3. \A r \in rows : g[r] \in rows2 /\ AgentCopy(f, r, g[r])
  BY <1>1 DEF Copies, Image
<1>4. Ids(rows2) = {Renamed(f, a) : a \in Ids(rows)}
  BY <1>2, <1>3 DEF Ids, AgentCopy
<1>5. ASSUME NEW q1 \in rows2, NEW q2 \in rows2, q1.id = q2.id
      PROVE  q1 = q2
  <2>1. PICK r1 \in rows : q1 = g[r1] /\ q1.id = Renamed(f, r1.id)
    BY <1>2 DEF AgentCopy
  <2>2. PICK r2 \in rows : q2 = g[r2] /\ q2.id = Renamed(f, r2.id)
    BY <1>2 DEF AgentCopy
  <2>3. /\ AgentOf(r1.id, r1.session, n) /\ AgentOf(r2.id, r2.session, n)
        /\ r1.session \in ss /\ r2.session \in ss
    BY DEF AgentsOK
  <2>4. r1.id = r2.id
    BY <1>5, <2>1, <2>2, <2>3, RenamedApart
  <2> QED
    BY <2>1, <2>2, <2>4 DEF AgentsOK
<1>6. ASSUME NEW q \in rows2
      PROVE  /\ DOMAIN q = {"id", "session", "status"}
             /\ q.session \in ss2 /\ AgentOf(q.id, q.session, n)
             /\ q.status \in Statuses
  <2>1. PICK r \in rows : AgentCopy(f, r, q)
    BY <1>2
  <2>2. /\ DOMAIN r = {"id", "session", "status"} /\ r.session \in ss
        /\ AgentOf(r.id, r.session, n) /\ r.status \in Statuses
    BY DEF AgentsOK
  <2>3. AgentOf(Renamed(f, r.id), SessionOf(f, r.session), n)
    BY <2>2, RenamedAgentOf
  <2> QED
    BY <2>1, <2>2, <2>3 DEF AgentCopy
<1> QED
  BY <1>4, <1>5, <1>6 DEF AgentsOK

LEMMA CopiedSteps ==
    ASSUME NEW rows, NEW f, NEW rows2, NEW as, NEW as2, StepsOK(rows, as),
           CopySteps(rows, f, rows2), as2 = {Renamed(f, a) : a \in as}
    PROVE  StepsOK(rows2, as2)
<1>1. PICK g : Copies(rows, g, rows2) /\ \A r \in rows : StepCopy(f, r, g[r])
  BY DEF CopySteps
<1>2. \A q \in rows2 : \E r \in rows : q = g[r] /\ StepCopy(f, r, q)
  BY <1>1 DEF Copies, Image
<1>3. IsFiniteSet(rows2)
  BY <1>1, FiniteImage DEF Copies, Image, StepsOK
<1>4. \A q \in rows2 : DOMAIN q = {"id", "agent", "status"} /\ q.agent \in as2 /\ q.status \in Statuses
  BY <1>2 DEF StepCopy, StepsOK
<1> QED
  BY <1>3, <1>4 DEF StepsOK

LEMMA CopiedEvents ==
    ASSUME NEW rows, NEW f, NEW rows2, NEW ss, NEW ss2, NEW n, EventsOK(rows, ss, n),
           CopyEvents(rows, f, rows2), Apart(f, ss), ss2 = {SessionOf(f, s) : s \in ss}
    PROVE  EventsOK(rows2, ss2, n)
<1>1. PICK g : Copies(rows, g, rows2) /\ \A r \in rows : EventCopy(f, r, g[r])
  BY DEF CopyEvents
<1>2. \A q \in rows2 : \E r \in rows : q = g[r] /\ EventCopy(f, r, q)
  BY <1>1 DEF Copies, Image
<1>3. \A r \in rows : g[r] \in rows2 /\ EventCopy(f, r, g[r])
  BY <1>1 DEF Copies, Image
<1>4. IsFiniteSet(rows2)
  BY <1>1, FiniteImage DEF Copies, Image, EventsOK
<1>5. ASSUME NEW q1 \in rows2, NEW q2 \in rows2, q1.id = q2.id
      PROVE  q1 = q2
  <2>1. PICK r1 \in rows : q1 = g[r1] /\ q1.id = Renamed(f, r1.id)
    BY <1>2 DEF EventCopy
  <2>2. PICK r2 \in rows : q2 = g[r2] /\ q2.id = Renamed(f, r2.id)
    BY <1>2 DEF EventCopy
  <2>3. /\ r1.id = <<r1.session, r1.seq>> /\ r2.id = <<r2.session, r2.seq>>
        /\ r1.session \in ss /\ r2.session \in ss
    BY DEF EventsOK
  <2>4. <<SessionOf(f, r1.session), r1.seq>> = <<SessionOf(f, r2.session), r2.seq>>
    BY <1>5, <2>1, <2>2, <2>3, RenamedIds
  <2>5. SessionOf(f, r1.session) = SessionOf(f, r2.session) /\ r1.seq = r2.seq
    BY <2>4
  <2>6. r1.id = r2.id
    BY <2>3, <2>5 DEF Apart
  <2> QED
    BY <2>1, <2>2, <2>6 DEF EventsOK
<1>6. ASSUME NEW q \in rows2
      PROVE  /\ DOMAIN q = EventFields
             /\ q.session \in ss2 /\ q.id = <<q.session, q.seq>>
             /\ q.agent = None \/ AgentOf(q.agent, q.session, n)
  <2>1. PICK r \in rows : EventCopy(f, r, q)
    BY <1>2
  <2>2. /\ DOMAIN r = EventFields /\ r.session \in ss /\ r.id = <<r.session, r.seq>>
        /\ r.agent = None \/ AgentOf(r.agent, r.session, n)
    BY DEF EventsOK
  <2>3. q.id = <<q.session, q.seq>>
    BY <2>1, <2>2, RenamedIds DEF EventCopy
  <2>4. q.agent = None \/ AgentOf(q.agent, q.session, n)
    BY <2>1, <2>2, RenamedIds, RenamedAgentOf DEF EventCopy
  <2> QED
    BY <2>1, <2>2, <2>3, <2>4 DEF EventCopy
<1>7. ASSUME NEW u \in ss2
      PROVE  Counted(rows2, u)
  <2>1. PICK s \in ss : u = SessionOf(f, s)
    OBVIOUS
  <2>2. \A q \in rows2 : q.session = u =>
            \E r \in rows : r.session = s /\ r.seq = q.seq
    BY <1>2, <2>1 DEF EventCopy, Apart, EventsOK
  <2>3. \A r \in rows : r.session = s => \E q \in rows2 : q.session = u /\ q.seq = r.seq
    BY <1>3, <2>1 DEF EventCopy
  <2>4. {q.seq : q \in In(rows2, u)} = {r.seq : r \in In(rows, s)}
    BY <2>2, <2>3 DEF In
  <2> QED
    BY <2>4 DEF EventsOK, Counted
<1> QED
  BY <1>4, <1>5, <1>6, <1>7 DEF EventsOK

LEMMA CopiedCalls ==
    ASSUME NEW rows, NEW events, NEW f, NEW rows2, NEW events2, NEW ss, NEW ss2, NEW n,
           CallsOK(rows, events, ss, n), CopyCalls(rows, f, rows2),
           CopyEvents(events, f, events2), ss2 = {SessionOf(f, s) : s \in ss}
    PROVE  CallsOK(rows2, events2, ss2, n)
<1>1. PICK g : Copies(rows, g, rows2) /\ \A r \in rows : CallCopy(f, r, g[r])
  BY DEF CopyCalls
<1>2. \A q \in rows2 : \E r \in rows : CallCopy(f, r, q)
  BY <1>1 DEF Copies, Image
<1>3. \A e \in events : \E x \in events2 : EventCopy(f, e, x)
  BY DEF CopyEvents, Copies, Image
<1>4. IsFiniteSet(rows2)
  BY <1>1, FiniteImage DEF Copies, Image, CallsOK
<1>5. ASSUME NEW q \in rows2
      PROVE  /\ DOMAIN q = CallFields
             /\ q.session \in ss2 /\ CallNamed(q, n) /\ q.status \in Statuses
             /\ \E e \in events2 : IsHome(e, q, q.request, "mentor.request")
             /\ q.response # None => \E e \in events2 : IsHome(e, q, q.response, "mentor.response")
  <2>1. PICK r \in rows : CallCopy(f, r, q)
    BY <1>2
  <2>2. /\ DOMAIN r = CallFields /\ r.session \in ss /\ CallNamed(r, n) /\ r.status \in Statuses
        /\ \E e \in events : IsHome(e, r, r.request, "mentor.request")
        /\ r.response # None => \E e \in events : IsHome(e, r, r.response, "mentor.response")
    BY DEF CallsOK
  <2>3. CallNamed(q, n)
    <3>1. PICK k \in 1 .. n, m \in Nat :
              r.agent = <<r.session, k>> /\ r.id = <<r.session, k, m>>
      BY <2>2 DEF CallNamed
    <3>2. /\ Renamed(f, r.agent) = <<SessionOf(f, r.session), k>>
          /\ Renamed(f, r.id) = <<SessionOf(f, r.session), k, m>>
      <4>1. /\ Renamed(f, <<r.session, k>>) = <<SessionOf(f, r.session), k>>
            /\ Renamed(f, <<r.session, k, m>>) = <<SessionOf(f, r.session), k, m>>
        BY RenamedIds
      <4> QED
        BY <3>1, <4>1
    <3>3. q.agent = <<q.session, k>> /\ q.id = <<q.session, k, m>>
      BY <2>1, <3>2 DEF CallCopy
    <3> QED
      BY <3>3 DEF CallNamed
  <2>4. \A id, kind : \A e \in events, x \in events2 :
            EventCopy(f, e, x) /\ IsHome(e, r, id, kind) => IsHome(x, q, Renamed(f, id), kind)
    BY <2>1 DEF EventCopy, CallCopy, IsHome
  <2>5. \E e \in events2 : IsHome(e, q, q.request, "mentor.request")
    BY <1>3, <2>1, <2>2, <2>4 DEF CallCopy
  <2>6. q.response # None => r.response # None
    BY <2>1, RenamedIds DEF CallCopy
  <2>7. q.response # None => \E e \in events2 : IsHome(e, q, q.response, "mentor.response")
    BY <1>3, <2>1, <2>2, <2>4, <2>6 DEF CallCopy
  <2>8. DOMAIN q = CallFields /\ q.session \in ss2 /\ q.status \in Statuses
    BY <2>1, <2>2 DEF CallCopy
  <2> QED
    BY <2>3, <2>5, <2>7, <2>8
<1> QED
  BY <1>4, <1>5 DEF CallsOK

LEMMA CopiedMessages ==
    ASSUME NEW rows, NEW f, NEW rows2, NEW ss, NEW ss2, MessagesOK(rows, ss),
           CopyMessages(rows, f, rows2), ss2 = {SessionOf(f, s) : s \in ss}
    PROVE  MessagesOK(rows2, ss2)
<1>1. PICK g : Copies(rows, g, rows2) /\ \A r \in rows : MessageCopy(f, r, g[r])
  BY DEF CopyMessages
<1>2. \A q \in rows2 : \E r \in rows : MessageCopy(f, r, q)
  BY <1>1 DEF Copies, Image
<1>3. IsFiniteSet(rows2)
  BY <1>1, FiniteImage DEF Copies, Image, MessagesOK
<1>4. \A q \in rows2 : /\ DOMAIN q = {"session", "seq", "role", "texts", "step"}
                       /\ q.session \in ss2 /\ q.role \in {"user", "assistant"}
                       /\ q.seq \in Nat \ {0}
  BY <1>2 DEF MessageCopy, MessagesOK
<1> QED
  BY <1>3, <1>4 DEF MessagesOK

LEMMA CopiedEnds ==
    ASSUME NEW agents, NEW agents2, NEW events, NEW events2, NEW f, NEW ss, NEW n,
           AgentsOK(agents, ss, n), EventsOK(events, ss, n), Apart(f, ss),
           CopyAgents(agents, f, agents2), CopyEvents(events, f, events2),
           EndsOK(agents, events)
    PROVE  EndsOK(agents2, events2)
<1>1. PICK g : Copies(events, g, events2) /\ \A r \in events : EventCopy(f, r, g[r])
  BY DEF CopyEvents
<1>2. \A q \in events2 : \E r \in events : q = g[r] /\ EventCopy(f, r, q)
  BY <1>1 DEF Copies, Image
<1>3. \A r \in events : g[r] \in events2 /\ EventCopy(f, r, g[r])
  BY <1>1 DEF Copies, Image
<1> SUFFICES ASSUME NEW b \in agents2
             PROVE  IF b.status = "running" THEN Ends(events2, b.id) = {}
                    ELSE \E x \in events2 : Ends(events2, b.id) = {x}
  BY DEF EndsOK
<1>4. PICK a \in agents : AgentCopy(f, a, b)
  BY DEF CopyAgents, Copies, Image
<1>5. a.session \in ss /\ AgentOf(a.id, a.session, n)
  BY DEF AgentsOK
<1>6. ASSUME NEW e \in events
      PROVE  Renamed(f, e.agent) = b.id <=> e.agent = a.id
  <2>1. b.id = Renamed(f, a.id) /\ b.id # None
    BY <1>4, <1>5, RenamedAgentOf DEF AgentCopy
  <2>2. e.session \in ss /\ (e.agent = None \/ AgentOf(e.agent, e.session, n))
    BY DEF EventsOK
  <2>3. CASE e.agent = None
    BY <1>5, <2>1, <2>3, RenamedIds, RenamedAgentOf
  <2>4. CASE AgentOf(e.agent, e.session, n)
    BY <1>5, <2>1, <2>2, <2>4, RenamedApart
  <2> QED
    BY <2>2, <2>3, <2>4
<1>7. \A q \in Ends(events2, b.id) : \E r \in Ends(events, a.id) : q = g[r]
  BY <1>2, <1>6 DEF Ends, EventCopy
<1>8. \A r \in Ends(events, a.id) : g[r] \in Ends(events2, b.id)
  BY <1>3, <1>6 DEF Ends, EventCopy
<1>9. CASE b.status = "running"
  <2>1. Ends(events, a.id) = {}
    BY <1>4, <1>9 DEF EndsOK, AgentCopy
  <2> QED
    BY <1>7, <1>9, <2>1
<1>10. CASE b.status # "running"
  <2>1. PICK e \in events : Ends(events, a.id) = {e}
    BY <1>4, <1>10 DEF EndsOK, AgentCopy
  <2>2. Ends(events2, b.id) = {g[e]}
    BY <1>7, <1>8, <2>1
  <2> QED
    BY <1>3, <1>10, <2>2
<1> QED
  BY <1>9, <1>10

LEMMA CopiedOpen ==
    ASSUME NEW agents, NEW agents2, NEW calls, NEW calls2, NEW events, NEW f, NEW ss, NEW n,
           AgentsOK(agents, ss, n), CallsOK(calls, events, ss, n), Apart(f, ss),
           CopyAgents(agents, f, agents2), CopyCalls(calls, f, calls2),
           OpenOK(calls, agents)
    PROVE  OpenOK(calls2, agents2)
<1> SUFFICES ASSUME NEW q \in calls2, NEW b \in agents2,
                    q.agent = b.id, q.kind = "step", q.status = "running"
             PROVE  b.status = "running"
  BY DEF OpenOK
<1>1. PICK a \in agents : AgentCopy(f, a, b)
  BY DEF CopyAgents, Copies, Image
<1>2. PICK c \in calls : CallCopy(f, c, q)
  BY DEF CopyCalls, Copies, Image
<1>3. a.session \in ss /\ AgentOf(a.id, a.session, n)
  BY DEF AgentsOK
<1>4. c.session \in ss /\ AgentOf(c.agent, c.session, n)
  BY DEF CallsOK, CallNamed, AgentOf
<1>5. Renamed(f, c.agent) = Renamed(f, a.id)
  BY <1>1, <1>2 DEF AgentCopy, CallCopy
<1>6. c.agent = a.id
  BY <1>3, <1>4, <1>5, RenamedApart
<1>7. a.status = "running"
  BY <1>2, <1>6 DEF OpenOK, CallCopy
<1> QED
  BY <1>1, <1>7 DEF AgentCopy

LEMMA CopiedTables ==
    ASSUME NEW d, NEW f, NEW t, NEW n, Tables(d, n), Copy(d, f, t),
           Apart(f, Ids(d.sessions)), \A s \in Ids(d.sessions) : SessionOf(f, s) \in Sessions
    PROVE  Tables(t, n) /\ Ids(t.sessions) = {SessionOf(f, s) : s \in Ids(d.sessions)}
<1> DEFINE ss  == Ids(d.sessions)
           ss2 == {SessionOf(f, s) : s \in ss}
<1>1. SessionsOK(t.sessions) /\ Ids(t.sessions) = ss2
  BY CopiedSessions DEF Tables, Linked, Copy
<1>2. /\ AgentsOK(t.agents, Ids(t.sessions), n)
      /\ Ids(t.agents) = {Renamed(f, a) : a \in Ids(d.agents)}
  BY <1>1, CopiedAgents DEF Tables, Linked, Copy
<1>3. StepsOK(t.steps, Ids(t.agents))
  BY <1>2, CopiedSteps DEF Tables, Linked, Copy
<1>4. EventsOK(t.events, Ids(t.sessions), n)
  BY <1>1, CopiedEvents DEF Tables, Linked, Copy
<1>5. CallsOK(t.calls, t.events, Ids(t.sessions), n)
  BY <1>1, CopiedCalls DEF Tables, Linked, Copy
<1>6. MessagesOK(t.messages, Ids(t.sessions))
  BY <1>1, CopiedMessages DEF Tables, Linked, Copy
<1>7. EndsOK(t.agents, t.events)
  BY CopiedEnds DEF Tables, Linked, Copy, Closed
<1>8. OpenOK(t.calls, t.agents)
  BY CopiedOpen DEF Tables, Linked, Copy, Closed
<1> QED
  BY <1>1, <1>2, <1>3, <1>4, <1>5, <1>6, <1>7, <1>8 DEF Tables, Linked, Closed

-----------------------------------------------------------------------------
(* An export. *)

LEMMA ExportedRows ==
    ASSUME NEW n, NEW held, Sound(db, n, held), NEW ss, ss \subseteq Ids(db.sessions)
    PROVE  LET t == BundleRows(ss)
           IN  /\ DOMAIN t = BundleFields /\ Tables(t, n) /\ Ids(t.sessions) = ss
               /\ t.blobs = NamedIn(t.events)
<1> DEFINE t == BundleRows(ss)
<1>1. Linked(db, n) /\ Closed(db) /\ RefsOK(db.refs, db.events, held)
  BY DEF Sound, Whole
<1>2. /\ DOMAIN t = BundleFields
      /\ t.sessions = {r \in db.sessions : r.id \in ss}
      /\ t.agents = {r \in db.agents : r.session \in ss}
      /\ t.steps = {r \in db.steps : r.agent \in Ids(t.agents)}
      /\ t.events = {r \in db.events : r.session \in ss}
      /\ t.calls = {r \in db.calls : r.session \in ss}
      /\ t.messages = {r \in db.messages : r.session \in ss}
      /\ t.blobs = {c \in NamedIn(t.events) : c \in DOMAIN db.refs}
  <2> DEFINE agents == {r \in db.agents : r.session \in ss}
             events == {r \in db.events : r.session \in ss}
             sessions == {r \in db.sessions : r.id \in ss}
             steps == {r \in db.steps : r.agent \in Ids(agents)}
             calls == {r \in db.calls : r.session \in ss}
             messages == {r \in db.messages : r.session \in ss}
             blobs == {c \in NamedIn(events) : c \in DOMAIN db.refs}
  <2>1. t = [sessions |-> sessions, agents |-> agents, steps |-> steps, events |-> events,
             calls |-> calls, messages |-> messages, blobs |-> blobs]
    BY DEF BundleRows
  <2> HIDE DEF t, agents, events, sessions, steps, calls, messages, blobs
  <2>2. DOMAIN t = BundleFields
    BY <2>1 DEF BundleFields
  <2>3. /\ t.sessions = sessions /\ t.agents = agents /\ t.steps = steps /\ t.events = events
        /\ t.calls = calls /\ t.messages = messages /\ t.blobs = blobs
    BY <2>1
  <2> QED
    BY <2>2, <2>3 DEF agents, events, sessions, steps, calls, messages, blobs
<1> HIDE DEF t
<1>3. Restricted(db, t, ss)
  BY <1>2 DEF Restricted
<1>4. NamedIn(t.events) \subseteq NamedIn(db.events)
  BY <1>2 DEF NamedIn
<1>5. t.blobs = NamedIn(t.events)
  BY <1>1, <1>2, <1>4 DEF RefsOK
<1>6. Tables(t, n) /\ Ids(t.sessions) = ss
  BY <1>1, <1>3, RestrictedLinked, RestrictedClosed DEF Tables
<1> QED
  BY <1>2, <1>5, <1>6 DEF t

\* Hiding makes no content of none, and none of a content.
LEMMA HiddenBlobs == HideBlob(None) = None /\ \A c : c # None => HideBlob(c) # None
<1>1. HideBlob(None) = None
  BY DEF HideBlob
<1>2. ASSUME NEW c, c # None
      PROVE  HideBlob(c) # None
  <2>1. CASE c[1] = "request"
    <3>1. HideBlob(c) = RequestBlob(HideWire(c[2]))
      BY <1>2, <2>1 DEF HideBlob
    <3> QED
      BY <3>1 DEF RequestBlob, None
  <2>2. CASE c[1] \in {"text", "title"}
    <3>1. HideBlob(c) = <<c[1], HideAll(c[2])>>
      BY <1>2, <2>2 DEF HideBlob
    <3> QED
      BY <3>1 DEF None
  <2>3. CASE c[1] \notin {"request", "text", "title"}
    <3>1. HideBlob(c) = c
      BY <1>2, <2>3 DEF HideBlob
    <3> QED
      BY <1>2, <3>1
  <2> QED
    BY <2>1, <2>2, <2>3
<1> QED
  BY <1>1, <1>2

\* Without new ids a table is its own copy.
LEMMA SameIds == \A id : SessionOf(<< >>, id) = id /\ Renamed(<< >>, id) = id
<1>1. DOMAIN << >> = {}
  OBVIOUS
<1> QED
  BY <1>1 DEF SessionOf, Renamed

LEMMA SameRows ==
    ASSUME NEW rows
    PROVE  /\ CopySessions(rows, << >>, rows) /\ CopyAgents(rows, << >>, rows)
           /\ CopySteps(rows, << >>, rows) /\ CopyCalls(rows, << >>, rows)
<1> DEFINE g == [r \in rows |-> r]
<1>1. Copies(rows, g, rows) /\ \A r \in rows : g[r] = r
  BY DEF Copies, Image
<1> HIDE DEF g
<1>2. CopySessions(rows, << >>, rows)
  BY <1>1, SameIds DEF CopySessions, SessionCopy
<1>3. CopyAgents(rows, << >>, rows)
  BY <1>1, SameIds DEF CopyAgents, AgentCopy
<1>4. CopySteps(rows, << >>, rows)
  BY <1>1, SameIds DEF CopySteps, StepCopy
<1>5. CopyCalls(rows, << >>, rows)
  BY <1>1, SameIds DEF CopyCalls, CallCopy
<1> QED
  BY <1>2, <1>3, <1>4, <1>5

LEMMA RedactedRows ==
    ASSUME NEW rows, NEW n, DOMAIN rows = BundleFields, Tables(rows, n),
           rows.blobs = NamedIn(rows.events)
    PROVE  LET t == RedactRows(rows)
           IN  /\ DOMAIN t = BundleFields /\ Tables(t, n) /\ Ids(t.sessions) = Ids(rows.sessions)
               /\ t.blobs = NamedIn(t.events)
<1> DEFINE t  == RedactRows(rows)
           g  == [e \in rows.events |-> [e EXCEPT !.body = HideBlob(@), !.raw = HideBlob(@)]]
           h  == [m \in rows.messages |-> [m EXCEPT !.texts = HideAll(@)]]
<1>1. EventsOK(rows.events, Ids(rows.sessions), n) /\ MessagesOK(rows.messages, Ids(rows.sessions))
      /\ SessionsOK(rows.sessions)
  BY DEF Tables, Linked
<1>2. /\ DOMAIN t = BundleFields
      /\ t.sessions = rows.sessions /\ t.agents = rows.agents /\ t.steps = rows.steps
      /\ t.calls = rows.calls
      /\ t.events = Image(g) /\ t.messages = Image(h)
      /\ t.blobs = {HideBlob(c) : c \in rows.blobs}
  <2> DEFINE events   == {[e EXCEPT !.body = HideBlob(@), !.raw = HideBlob(@)] : e \in rows.events}
             messages == {[m EXCEPT !.texts = HideAll(@)] : m \in rows.messages}
             blobs    == {HideBlob(c) : c \in rows.blobs}
  <2>1. t = [rows EXCEPT !.events = events, !.messages = messages, !.blobs = blobs]
    BY DEF RedactRows
  <2>2. events = Image(g) /\ messages = Image(h)
    BY DEF Image
  <2> HIDE DEF t, g, h, events, messages
  <2>3. /\ DOMAIN t = BundleFields
        /\ t.sessions = rows.sessions /\ t.agents = rows.agents /\ t.steps = rows.steps
        /\ t.calls = rows.calls
        /\ t.events = events /\ t.messages = messages /\ t.blobs = blobs
    BY <2>1 DEF BundleFields
  <2> QED
    BY <2>2, <2>3
<1>3. DOMAIN g = rows.events
      /\ \A e \in rows.events : EventCopy(<< >>, e, g[e])
                                /\ g[e].body = HideBlob(e.body) /\ g[e].raw = HideBlob(e.raw)
  <2>1. ASSUME NEW e \in rows.events
        PROVE  /\ DOMAIN g[e] = DOMAIN e /\ g[e].id = e.id /\ g[e].session = e.session
               /\ g[e].seq = e.seq /\ g[e].kind = e.kind /\ g[e].agent = e.agent
               /\ g[e].body = HideBlob(e.body) /\ g[e].raw = HideBlob(e.raw)
    <3>1. DOMAIN e = EventFields
      BY <1>1 DEF EventsOK
    <3> QED
      BY <3>1 DEF EventFields
  <2>2. DOMAIN g = rows.events
    OBVIOUS
  <2> HIDE DEF g
  <2> QED
    BY <2>1, <2>2, SameIds DEF EventCopy
<1>4. DOMAIN h = rows.messages /\ \A m \in rows.messages : MessageCopy(<< >>, m, h[m])
  <2>1. ASSUME NEW m \in rows.messages
        PROVE  /\ DOMAIN h[m] = DOMAIN m /\ h[m].session = m.session
               /\ h[m].seq = m.seq /\ h[m].role = m.role
    <3>1. DOMAIN m = {"session", "seq", "role", "texts", "step"}
      BY <1>1 DEF MessagesOK
    <3> QED
      BY <3>1
  <2>2. DOMAIN h = rows.messages
    OBVIOUS
  <2> HIDE DEF h
  <2> QED
    BY <2>1, <2>2, SameIds DEF MessageCopy
<1> HIDE DEF t, g, h
<1>5. Copy(rows, << >>, t)
  <2>1. CopyEvents(rows.events, << >>, t.events)
    BY <1>2, <1>3 DEF CopyEvents, Copies
  <2>2. CopyMessages(rows.messages, << >>, t.messages)
    BY <1>2, <1>4 DEF CopyMessages, Copies
  <2> QED
    BY <1>2, <2>1, <2>2, SameRows DEF Copy
<1>6. Apart(<< >>, Ids(rows.sessions))
      /\ \A s \in Ids(rows.sessions) : SessionOf(<< >>, s) \in Sessions
  BY <1>1, SameIds DEF Apart, SessionsOK, Ids
<1>7. Tables(t, n)
  BY <1>5, <1>6, CopiedTables
<1>8. t.blobs = NamedIn(t.events)
  <2>1. t.events = {g[e] : e \in rows.events}
    BY <1>2, <1>3 DEF Image
  <2>2. NamedIn(t.events) =
            ({HideBlob(e.body) : e \in rows.events} \cup {HideBlob(e.raw) : e \in rows.events})
                \ {None}
    BY <1>3, <2>1 DEF NamedIn
  <2>3. t.blobs = {HideBlob(c) : c \in NamedIn(rows.events)}
    BY <1>2
  <2>4. \A c : c = None <=> HideBlob(c) = None
    BY HiddenBlobs
  <2>5. ASSUME NEW b
        PROVE  b \in NamedIn(t.events) <=> b \in t.blobs
    <3>1. b \in NamedIn(t.events)
              <=> b # None /\ \E e \in rows.events : b = HideBlob(e.body) \/ b = HideBlob(e.raw)
      BY <2>2
    <3>2. b \in t.blobs <=> \E c : /\ c # None /\ b = HideBlob(c)
                                  /\ \E e \in rows.events : c = e.body \/ c = e.raw
      BY <2>3 DEF NamedIn
    <3> QED
      BY <2>4, <3>1, <3>2
  <2> QED
    BY <2>5
<1> QED
  BY <1>2, <1>7, <1>8 DEF t

-----------------------------------------------------------------------------
(* An import of a bundle. *)

LEMMA RenamedTables ==
    ASSUME NEW rows, NEW f, NEW n, Linked(rows, n)
    PROVE  /\ CopySessions(rows.sessions, f, {RenameSession(f, r) : r \in rows.sessions})
           /\ CopyAgents(rows.agents, f, {RenameAgent(f, r) : r \in rows.agents})
           /\ CopySteps(rows.steps, f, {RenameStep(f, r) : r \in rows.steps})
           /\ CopyCalls(rows.calls, f, {RenameCall(f, r) : r \in rows.calls})
           /\ CopyMessages(rows.messages, f, {RenameMessage(f, r) : r \in rows.messages})
<1>1. CopySessions(rows.sessions, f, {RenameSession(f, r) : r \in rows.sessions})
  <2> DEFINE g == [r \in rows.sessions |-> RenameSession(f, r)]
  <2>1. Copies(rows.sessions, g, {RenameSession(f, r) : r \in rows.sessions})
    BY DEF Copies, Image
  <2>2. ASSUME NEW r \in rows.sessions
        PROVE  SessionCopy(f, r, g[r])
    <3>1. DOMAIN r = {"id", "status", "source"}
      BY DEF Linked, SessionsOK
    <3> QED
      BY <3>1 DEF SessionCopy, RenameSession
  <2> QED
    BY <2>1, <2>2 DEF CopySessions
<1>2. CopyAgents(rows.agents, f, {RenameAgent(f, r) : r \in rows.agents})
  <2> DEFINE g == [r \in rows.agents |-> RenameAgent(f, r)]
  <2>1. Copies(rows.agents, g, {RenameAgent(f, r) : r \in rows.agents})
    BY DEF Copies, Image
  <2>2. ASSUME NEW r \in rows.agents
        PROVE  AgentCopy(f, r, g[r])
    <3>1. DOMAIN r = {"id", "session", "status"}
      BY DEF Linked, AgentsOK
    <3> QED
      BY <3>1 DEF AgentCopy, RenameAgent
  <2> QED
    BY <2>1, <2>2 DEF CopyAgents
<1>3. CopySteps(rows.steps, f, {RenameStep(f, r) : r \in rows.steps})
  <2> DEFINE g == [r \in rows.steps |-> RenameStep(f, r)]
  <2>1. Copies(rows.steps, g, {RenameStep(f, r) : r \in rows.steps})
    BY DEF Copies, Image
  <2>2. ASSUME NEW r \in rows.steps
        PROVE  StepCopy(f, r, g[r])
    <3>1. DOMAIN r = {"id", "agent", "status"}
      BY DEF Linked, StepsOK
    <3> QED
      BY <3>1 DEF StepCopy, RenameStep
  <2> QED
    BY <2>1, <2>2 DEF CopySteps
<1>4. CopyCalls(rows.calls, f, {RenameCall(f, r) : r \in rows.calls})
  <2> DEFINE g == [r \in rows.calls |-> RenameCall(f, r)]
  <2>1. Copies(rows.calls, g, {RenameCall(f, r) : r \in rows.calls})
    BY DEF Copies, Image
  <2>2. ASSUME NEW r \in rows.calls
        PROVE  CallCopy(f, r, g[r])
    <3>1. DOMAIN r = CallFields
      BY DEF Linked, CallsOK
    <3> QED
      BY <3>1 DEF CallCopy, RenameCall, CallFields
  <2> QED
    BY <2>1, <2>2 DEF CopyCalls
<1>5. CopyMessages(rows.messages, f, {RenameMessage(f, r) : r \in rows.messages})
  <2> DEFINE g == [r \in rows.messages |-> RenameMessage(f, r)]
  <2>1. Copies(rows.messages, g, {RenameMessage(f, r) : r \in rows.messages})
    BY DEF Copies, Image
  <2>2. ASSUME NEW r \in rows.messages
        PROVE  MessageCopy(f, r, g[r])
    <3>1. DOMAIN r = {"session", "seq", "role", "texts", "step"}
      BY DEF Linked, MessagesOK
    <3> QED
      BY <3>1 DEF MessageCopy, RenameMessage
  <2> QED
    BY <2>1, <2>2 DEF CopyMessages
<1> QED
  BY <1>1, <1>2, <1>3, <1>4, <1>5

\* The events of a copy name the same blobs.
LEMMA RenamedEvents ==
    ASSUME NEW rows, NEW f, NEW ss, NEW n, EventsOK(rows, ss, n),
           NEW rows2, rows2 = {RenameEvent(f, r) : r \in rows}
    PROVE  CopyEvents(rows, f, rows2) /\ NamedIn(rows2) = NamedIn(rows)
<1> DEFINE g == [r \in rows |-> RenameEvent(f, r)]
<1>1. Copies(rows, g, rows2)
  BY DEF Copies, Image
<1>2. ASSUME NEW r \in rows
      PROVE  EventCopy(f, r, g[r]) /\ g[r].body = r.body /\ g[r].raw = r.raw
  <2>1. DOMAIN r = EventFields
    BY DEF EventsOK
  <2> QED
    BY <2>1 DEF EventCopy, RenameEvent, EventFields
<1> HIDE DEF g
<1>3. CopyEvents(rows, f, rows2)
  BY <1>1, <1>2 DEF CopyEvents
<1>4. \A q \in rows2 : \E r \in rows : q = g[r]
  BY <1>1 DEF Copies, Image
<1>5. \A r \in rows : g[r] \in rows2
  BY <1>1 DEF Copies, Image
<1>6. NamedIn(rows2) = NamedIn(rows)
  <2>1. ASSUME NEW b
        PROVE  (\E q \in rows2 : q.body = b \/ q.raw = b) <=> (\E r \in rows : r.body = b \/ r.raw = b)
    BY <1>2, <1>4, <1>5
  <2>2. ASSUME NEW b
        PROVE  b \in NamedIn(rows2) <=> b \in NamedIn(rows)
    <3>1. \A es : b \in NamedIn(es) <=> b # None /\ \E e \in es : e.body = b \/ e.raw = b
      BY DEF NamedIn
    <3> QED
      BY <2>1, <3>1
  <2> QED
    BY <2>2
<1> QED
  BY <1>3, <1>6

LEMMA RenamedRows ==
    ASSUME NEW rows, NEW f, NEW n, DOMAIN rows = BundleFields, Tables(rows, n),
           rows.blobs = NamedIn(rows.events), Apart(f, Ids(rows.sessions)),
           \A s \in Ids(rows.sessions) : SessionOf(f, s) \in Sessions
    PROVE  LET t == RenameRows(rows, f)
           IN  /\ Tables(t, n) /\ t.blobs = NamedIn(t.events)
               /\ Ids(t.sessions) = {SessionOf(f, s) : s \in Ids(rows.sessions)}
<1> DEFINE t == RenameRows(rows, f)
           sessions == {RenameSession(f, r) : r \in rows.sessions}
           agents == {RenameAgent(f, r) : r \in rows.agents}
           steps == {RenameStep(f, r) : r \in rows.steps}
           events == {RenameEvent(f, r) : r \in rows.events}
           calls == {RenameCall(f, r) : r \in rows.calls}
           messages == {RenameMessage(f, r) : r \in rows.messages}
<1>1. Linked(rows, n) /\ EventsOK(rows.events, Ids(rows.sessions), n)
  BY DEF Tables, Linked
<1>2. /\ CopySessions(rows.sessions, f, sessions) /\ CopyAgents(rows.agents, f, agents)
      /\ CopySteps(rows.steps, f, steps) /\ CopyCalls(rows.calls, f, calls)
      /\ CopyMessages(rows.messages, f, messages)
  BY <1>1, RenamedTables
<1>3. CopyEvents(rows.events, f, events) /\ NamedIn(events) = NamedIn(rows.events)
  <2>1. events = {RenameEvent(f, r) : r \in rows.events}
    OBVIOUS
  <2> HIDE DEF events
  <2> QED
    BY <1>1, <2>1, RenamedEvents
<1>4. t = [rows EXCEPT !.sessions = sessions, !.agents = agents, !.steps = steps,
                       !.events = events, !.calls = calls, !.messages = messages]
  BY DEF RenameRows
<1> HIDE DEF t, sessions, agents, steps, events, calls, messages
<1>5. /\ t.sessions = sessions /\ t.agents = agents /\ t.steps = steps /\ t.events = events
      /\ t.calls = calls /\ t.messages = messages /\ t.blobs = rows.blobs
  BY <1>4 DEF BundleFields
<1>6. Copy(rows, f, t)
  BY <1>2, <1>3, <1>5 DEF Copy
<1>7. Tables(t, n) /\ Ids(t.sessions) = {SessionOf(f, s) : s \in Ids(rows.sessions)}
  BY <1>6, CopiedTables
<1> QED
  BY <1>3, <1>5, <1>7 DEF t

\* The tables u hold the rows of d and of t.
Joined(d, t, u) ==
    /\ u.sessions = d.sessions \cup t.sessions /\ u.agents = d.agents \cup t.agents
    /\ u.steps = d.steps \cup t.steps /\ u.events = d.events \cup t.events
    /\ u.calls = d.calls \cup t.calls /\ u.messages = d.messages \cup t.messages

LEMMA JoinedEvents ==
    ASSUME NEW es, NEW fs, NEW ss, NEW tt, NEW n, EventsOK(es, ss, n), EventsOK(fs, tt, n),
           ss \cap tt = {}
    PROVE  EventsOK(es \cup fs, ss \cup tt, n) /\ es \cap fs = {}
<1>1. es \cap fs = {}
  BY DEF EventsOK
<1>2. IsFiniteSet(es \cup fs)
  BY FS_Union DEF EventsOK
<1>3. ASSUME NEW s \in ss \cup tt
      PROVE  Counted(es \cup fs, s)
  <2>1. CASE s \in ss
    <3>1. In(es \cup fs, s) = In(es, s)
      BY <2>1 DEF In, EventsOK
    <3> QED
      BY <2>1, <3>1 DEF EventsOK, Counted
  <2>2. CASE s \in tt
    <3>1. In(es \cup fs, s) = In(fs, s)
      BY <2>2 DEF In, EventsOK
    <3> QED
      BY <2>2, <3>1 DEF EventsOK, Counted
  <2> QED
    BY <2>1, <2>2
<1>4. ASSUME NEW d \in es \cup fs, NEW e \in es \cup fs, d.id = e.id
      PROVE  d = e
  <2>1. d.id = <<d.session, d.seq>> /\ e.id = <<e.session, e.seq>>
    BY DEF EventsOK
  <2>2. d.session = e.session
    <3>1. <<d.session, d.seq>> = <<e.session, e.seq>>
      BY <1>4, <2>1
    <3> QED
      BY <3>1
  <2>3. (d \in es /\ e \in es) \/ (d \in fs /\ e \in fs)
    BY <2>2 DEF EventsOK
  <2> QED
    BY <1>4, <2>3 DEF EventsOK
<1>5. \A e \in es \cup fs :
          /\ DOMAIN e = EventFields
          /\ e.session \in ss \cup tt /\ e.id = <<e.session, e.seq>>
          /\ e.agent = None \/ AgentOf(e.agent, e.session, n)
  BY DEF EventsOK
<1> QED
  BY <1>1, <1>2, <1>3, <1>4, <1>5 DEF EventsOK

LEMMA JoinedLinked ==
    ASSUME NEW d, NEW t, NEW u, NEW n, Linked(d, n), Linked(t, n), Joined(d, t, u),
           Ids(d.sessions) \cap Ids(t.sessions) = {}
    PROVE  Linked(u, n) /\ Ids(u.sessions) = Ids(d.sessions) \cup Ids(t.sessions)
<1>1. Ids(u.sessions) = Ids(d.sessions) \cup Ids(t.sessions)
  BY DEF Ids, Joined
<1>2. SessionsOK(u.sessions)
  <2>1. \A r \in d.sessions, q \in t.sessions : r.id # q.id
    BY DEF Ids
  <2>2. SessionsOK(d.sessions) /\ SessionsOK(t.sessions)
    BY DEF Linked
  <2> QED
    BY <2>1, <2>2 DEF SessionsOK, Joined
<1>3. AgentsOK(u.agents, Ids(u.sessions), n)
  <2>1. AgentsOK(d.agents, Ids(d.sessions), n) /\ AgentsOK(t.agents, Ids(t.sessions), n)
    BY DEF Linked
  <2>2. ASSUME NEW r \in d.agents, NEW q \in t.agents
        PROVE  r.id # q.id
    BY <2>1, AgentsSession DEF AgentsOK
  <2>3. \A r, q \in d.agents \cup t.agents : r.id = q.id => r = q
    BY <2>1, <2>2 DEF AgentsOK
  <2>4. \A r \in d.agents \cup t.agents :
            /\ DOMAIN r = {"id", "session", "status"}
            /\ r.session \in Ids(u.sessions) /\ AgentOf(r.id, r.session, n)
            /\ r.status \in Statuses
    BY <1>1, <2>1 DEF AgentsOK
  <2> QED
    BY <2>3, <2>4 DEF AgentsOK, Joined
<1>4. StepsOK(u.steps, Ids(u.agents))
  <2>1. StepsOK(d.steps, Ids(d.agents)) /\ StepsOK(t.steps, Ids(t.agents))
    BY DEF Linked
  <2>2. Ids(u.agents) = Ids(d.agents) \cup Ids(t.agents)
    BY DEF Ids, Joined
  <2>3. IsFiniteSet(d.steps \cup t.steps)
    BY <2>1, FS_Union DEF StepsOK
  <2>4. \A r \in d.steps \cup t.steps :
            DOMAIN r = {"id", "agent", "status"} /\ r.agent \in Ids(u.agents) /\ r.status \in Statuses
    BY <2>1, <2>2 DEF StepsOK
  <2> QED
    BY <2>3, <2>4 DEF StepsOK, Joined
<1>5. EventsOK(u.events, Ids(u.sessions), n)
  <2>1. /\ EventsOK(d.events, Ids(d.sessions), n) /\ EventsOK(t.events, Ids(t.sessions), n)
        /\ u.events = d.events \cup t.events
    BY DEF Linked, Joined
  <2>2. EventsOK(d.events \cup t.events, Ids(d.sessions) \cup Ids(t.sessions), n)
    BY <2>1, JoinedEvents
  <2> QED
    BY <1>1, <2>1, <2>2
<1>6. CallsOK(u.calls, u.events, Ids(u.sessions), n)
  <2>1. /\ CallsOK(d.calls, d.events, Ids(d.sessions), n)
        /\ CallsOK(t.calls, t.events, Ids(t.sessions), n)
    BY DEF Linked
  <2>2. IsFiniteSet(d.calls \cup t.calls)
    BY <2>1, FS_Union DEF CallsOK
  <2>3. ASSUME NEW c \in d.calls \cup t.calls
        PROVE  /\ DOMAIN c = CallFields
               /\ c.session \in Ids(u.sessions) /\ CallNamed(c, n) /\ c.status \in Statuses
               /\ \E e \in u.events : IsHome(e, c, c.request, "mentor.request")
               /\ c.response # None =>
                     \E e \in u.events : IsHome(e, c, c.response, "mentor.response")
    <3>1. CASE c \in d.calls
      BY <1>1, <2>1, <3>1 DEF CallsOK, Joined
    <3>2. CASE c \in t.calls
      BY <1>1, <2>1, <3>2 DEF CallsOK, Joined
    <3> QED
      BY <3>1, <3>2
  <2> QED
    BY <2>2, <2>3 DEF CallsOK, Joined
<1>7. MessagesOK(u.messages, Ids(u.sessions))
  <2>1. /\ MessagesOK(d.messages, Ids(d.sessions)) /\ MessagesOK(t.messages, Ids(t.sessions))
        /\ u.messages = d.messages \cup t.messages
    BY DEF Linked, Joined
  <2>2. IsFiniteSet(d.messages \cup t.messages)
    BY <2>1, FS_Union DEF MessagesOK
  <2> QED
    BY <1>1, <2>1, <2>2 DEF MessagesOK
<1> QED
  BY <1>1, <1>2, <1>3, <1>4, <1>5, <1>6, <1>7 DEF Linked

\* The rows of a call or an event of t do not concern an agent of d.
LEMMA JoinedApart ==
    ASSUME NEW d, NEW t, NEW n, Linked(d, n), Linked(t, n),
           Ids(d.sessions) \cap Ids(t.sessions) = {}, NEW a \in d.agents
    PROVE  /\ \A e \in t.events : e.agent # a.id
           /\ \A c \in t.calls : c.agent # a.id
<1>1. a.session \in Ids(d.sessions) /\ AgentOf(a.id, a.session, n) /\ a.id # None
  <2>1. a.session \in Ids(d.sessions) /\ AgentOf(a.id, a.session, n)
    BY DEF Linked, AgentsOK
  <2> QED
    BY <2>1 DEF AgentOf, None
<1>2. ASSUME NEW e \in t.events
      PROVE  e.agent # a.id
  <2>1. e.session \in Ids(t.sessions) /\ (e.agent = None \/ AgentOf(e.agent, e.session, n))
    BY DEF Linked, EventsOK
  <2> QED
    BY <1>1, <2>1, AgentsSession
<1>3. ASSUME NEW c \in t.calls
      PROVE  c.agent # a.id
  <2>1. c.session \in Ids(t.sessions) /\ AgentOf(c.agent, c.session, n)
    BY DEF Linked, CallsOK, CallNamed, AgentOf
  <2> QED
    BY <1>1, <2>1, AgentsSession
<1> QED
  BY <1>2, <1>3

LEMMA JoinedClosed ==
    ASSUME NEW d, NEW t, NEW u, NEW n, Tables(d, n), Tables(t, n), Joined(d, t, u),
           Ids(d.sessions) \cap Ids(t.sessions) = {}
    PROVE  Closed(u)
<1>1. /\ Linked(d, n) /\ Linked(t, n)
      /\ EndsOK(d.agents, d.events) /\ EndsOK(t.agents, t.events)
      /\ OpenOK(d.calls, d.agents) /\ OpenOK(t.calls, t.agents)
  BY DEF Tables, Closed
<1>2. \A a \in d.agents : /\ \A e \in t.events : e.agent # a.id
                          /\ \A c \in t.calls : c.agent # a.id
  BY <1>1, JoinedApart
<1>3. \A a \in t.agents : /\ \A e \in d.events : e.agent # a.id
                          /\ \A c \in d.calls : c.agent # a.id
  <2>1. Ids(t.sessions) \cap Ids(d.sessions) = {}
    OBVIOUS
  <2> QED
    BY <1>1, <2>1, JoinedApart
<1>4. /\ \A a \in d.agents : Ends(u.events, a.id) = Ends(d.events, a.id)
      /\ \A a \in t.agents : Ends(u.events, a.id) = Ends(t.events, a.id)
  BY <1>2, <1>3 DEF Ends, Joined
<1>5. EndsOK(u.agents, u.events)
  BY <1>1, <1>4 DEF EndsOK, Joined
<1>6. OpenOK(u.calls, u.agents)
  BY <1>1, <1>2, <1>3 DEF OpenOK, Joined
<1> QED
  BY <1>5, <1>6 DEF Closed

\* One reference more for each event that names the blob.
LEMMA JoinedRefs ==
    ASSUME NEW refs, NEW es, NEW fs, NEW held, RefsOK(refs, es, held),
           IsFiniteSet(es), IsFiniteSet(fs), es \cap fs = {},
           NEW rows, rows.events = fs, rows.blobs = NamedIn(fs)
    PROVE  RefsOK(CountBlobs(refs, rows), es \cup fs, held)
<1> DEFINE refs2 == CountBlobs(refs, rows)
<1>1. /\ DOMAIN refs2 = DOMAIN refs \cup NamedIn(fs)
      /\ \A c \in DOMAIN refs2 :
            refs2[c] = Count(refs, c) + (IF c \in NamedIn(fs) THEN Max({1, Names(fs, c)}) ELSE 0)
  BY DEF CountBlobs
<1> HIDE DEF refs2
<1>2. NamedIn(es \cup fs) = NamedIn(es) \cup NamedIn(fs)
  BY DEF NamedIn
<1>3. None \notin NamedIn(fs)
  BY DEF NamedIn
<1>4. ASSUME NEW c \in DOMAIN refs2
      PROVE  c # None /\ refs2[c] = Names(es \cup fs, c) + (IF c \in held THEN 1 ELSE 0)
  <2>1. /\ Names(es, c) \in Nat /\ Names(fs, c) \in Nat
        /\ Names(es \cup fs, c) = Names(es, c) + Names(fs, c)
    BY NamesOfUnion
  <2>2. c # None
    BY <1>1, <1>3 DEF RefsOK
  <2>3. Count(refs, c) = Names(es, c) + (IF c \in held THEN 1 ELSE 0)
    <3>1. CASE c \in DOMAIN refs
      BY <3>1 DEF RefsOK, Count
    <3>2. CASE c \notin DOMAIN refs
      <4>1. c \notin NamedIn(es) /\ c \notin held
        BY <3>2 DEF RefsOK
      <4> QED
        BY <2>2, <3>2, <4>1, UnnamedIsZero DEF Count
    <3> QED
      BY <3>1, <3>2
  <2>4. (IF c \in NamedIn(fs) THEN Max({1, Names(fs, c)}) ELSE 0) = Names(fs, c)
    <3>1. CASE c \in NamedIn(fs)
      <4>1. Names(fs, c) >= 1
        BY <3>1, NamedCounts
      <4> QED
        BY <2>1, <3>1, <4>1, MaxWithOne
    <3>2. CASE c \notin NamedIn(fs)
      BY <2>2, <3>2, UnnamedIsZero
    <3> QED
      BY <3>1, <3>2
  <2> QED
    BY <1>1, <2>1, <2>2, <2>3, <2>4
<1>5. NamedIn(es \cup fs) \subseteq DOMAIN refs2 /\ held \subseteq DOMAIN refs2
  BY <1>1, <1>2 DEF RefsOK
<1> QED
  BY <1>4, <1>5 DEF RefsOK, refs2

-----------------------------------------------------------------------------
(* What a step leaves alone. *)

GivenIsNat == Given \in Nat /\ Given <= runs

LEMMA GivenNumbers == ASSUME RunFits, runs \in Nat PROVE GivenIsNat
  BY DEF RunFits, Given, GivenIsNat

\* The rows a run relies on are still there.
RunRows(d, t) ==
    run.at # "idle" =>
        /\ run.session \in Ids(t.sessions)
        /\ \A a \in d.agents : a.id = run.agent /\ a.status = "running" =>
               \E b \in t.agents : b.id = run.agent /\ b.status = "running"
        /\ \A c \in t.calls : c.agent = run.agent /\ OpenIn(t, c) =>
               \E b \in d.calls : OpenIn(d, b) /\ b.id = c.id /\ b.agent = c.agent

LEMMA RunStays ==
    ASSUME RunFits, UNCHANGED <<run, runs>>, RunRows(db, db')
    PROVE  RunFits'
<1>1. /\ DOMAIN run' = {"at", "session", "agent", "step", "prompt", "reply"}
      /\ run'.at \in RunPlaces
      /\ run'.at # "idle" =>
            /\ runs' \in Nat \ {0}
            /\ run'.session \in Ids(db'.sessions)
            /\ run'.agent = <<run'.session, runs'>>
  BY DEF RunFits, RunRows
<1>2. run'.at \in RunPlaces \ {"idle", "repair", "start"} =>
          \E a \in db'.agents : a.id = run'.agent /\ a.status = "running"
  BY DEF RunFits, RunRows
<1>3. run'.at \in {"request", "mentor", "complete", "store", "results", "close"} =>
          \E m \in Nat : run'.step = <<run'.session, runs', m>>
  BY DEF RunFits
<1>4. run'.at # "idle" =>
          \A c \in db'.calls :
              c.agent = run'.agent /\ c.kind = "step" /\ c.status = "running" =>
                  run'.at \in {"mentor", "complete"} /\ c.id = run'.step
  BY DEF RunFits, RunRows, OpenIn
<1> QED
  BY <1>1, <1>2, <1>3, <1>4 DEF RunFits

LEMMA TitleStays ==
    ASSUME TitleFits, UNCHANGED title, used \subseteq used',
           Given \in Nat, Given' \in Nat, Given <= Given',
           run'.at # "idle" /\ title.at # "idle" => title.agent # run'.agent
    PROVE  TitleFits'
<1>1. \A a, s : AgentOf(a, s, Given) => AgentOf(a, s, Given')
  BY DEF AgentOf
<1> QED
  BY <1>1 DEF TitleFits

LEMMA LostStays ==
    ASSUME LostFits, UNCHANGED lost, used \subseteq used', runs \in Nat, runs' \in Nat, runs <= runs',
           \A s \in used, k \in 1 .. runs :
               /\ run.at # "idle" => <<s, k>> # run.agent
               /\ title.at # "idle" => <<s, k>> # title.agent
               => /\ run'.at # "idle" => <<s, k>> # run'.agent
                  /\ title'.at # "idle" => <<s, k>> # title'.agent
    PROVE  LostFits'
<1> SUFFICES ASSUME NEW c \in lost
             PROVE  \E s \in used', k \in 1 .. runs', m \in Nat :
                        /\ c = StreamBlob(<<s, k, m>>)
                        /\ run'.at # "idle" => <<s, k>> # run'.agent
                        /\ title'.at # "idle" => <<s, k>> # title'.agent
  BY DEF LostFits
<1>1. PICK s \in used, k \in 1 .. runs, m \in Nat :
          /\ c = StreamBlob(<<s, k, m>>)
          /\ run.at # "idle" => <<s, k>> # run.agent
          /\ title.at # "idle" => <<s, k>> # title.agent
  BY DEF LostFits
<1>2. s \in used' /\ k \in 1 .. runs'
  OBVIOUS
<1>3. /\ run'.at # "idle" => <<s, k>> # run'.agent
      /\ title'.at # "idle" => <<s, k>> # title'.agent
  BY <1>1
<1> QED
  BY <1>1, <1>2, <1>3

LEMMA FileStays ==
    ASSUME FileFits, UNCHANGED file, used \subseteq used',
           Given \in Nat, Given' \in Nat, Given <= Given'
    PROVE  FileFits'
<1>1. \A t : Linked(t, Given) => Linked(t, Given')
  BY MoreNumbers
<1>2. \A t : Tables(t, Given) => Tables(t, Given')
  BY <1>1 DEF Tables
<1>3. \A c : CallNamed(c, Given) => CallNamed(c, Given')
  BY MoreNumbers
<1> QED
  BY <1>2, <1>3 DEF FileFits

-----------------------------------------------------------------------------
(* The steps of a run. *)

\* Only the call under way is open, of the calls of the run's agent.
OpenIsStep(t, r) ==
    \A c \in t.calls : c.agent = r.agent /\ OpenIn(t, c) =>
        r.at \in {"mentor", "complete"} /\ c.id = r.step

\* r is where the run goes from here.
Follows(r) ==
    /\ DOMAIN r = {"at", "session", "agent", "step", "prompt", "reply"}
    /\ r.at \in RunPlaces \ {"idle", "repair"}
    /\ r.session = run.session /\ r.agent = run.agent
    /\ r.at \in {"request", "mentor", "complete", "store", "results", "close"} =>
          \E m \in Nat : r.step = <<run.session, runs, m>>

RunsOn(t, r) ==
    /\ Follows(r)
    /\ Ids(t.sessions) = Ids(db.sessions)
    /\ r.at # "start" => \E a \in t.agents : a.id = run.agent /\ a.status = "running"
    /\ OpenIsStep(t, r)

LEMMA RunMoves ==
    ASSUME StoreInv, run.at # "idle", RunOnly, UNCHANGED transfers,
           RunsOn(db', run'), Sound(db', Given', Held'), Given <= Given'
    PROVE  StoreInv'
<1>1. UNCHANGED <<used, daemon, title, lost, runs, file>>
  BY DEF RunOnly, counters, transfers
<1>2. /\ runs \in Nat /\ daemon \in {"up", "recovering"} /\ daemon # "recovering"
      /\ RunFits /\ TitleFits /\ LostFits /\ UsedFits /\ FileFits
  BY DEF StoreInv
<1>3. run'.at # "idle" /\ run'.agent = run.agent
  BY DEF RunsOn, Follows
<1>4. RunFits'
  <2>1. /\ DOMAIN run' = {"at", "session", "agent", "step", "prompt", "reply"}
        /\ run'.at \in RunPlaces
        /\ runs' \in Nat \ {0} /\ run'.session \in Ids(db'.sessions)
        /\ run'.agent = <<run'.session, runs'>>
    BY <1>1, <1>2 DEF RunFits, RunsOn, Follows
  <2>2. run'.at \in RunPlaces \ {"idle", "repair", "start"} =>
            \E a \in db'.agents : a.id = run'.agent /\ a.status = "running"
    BY <1>3 DEF RunsOn
  <2>3. run'.at \in {"request", "mentor", "complete", "store", "results", "close"} =>
            \E m \in Nat : run'.step = <<run'.session, runs', m>>
    BY <1>1 DEF RunsOn, Follows
  <2>4. \A c \in db'.calls :
            c.agent = run'.agent /\ c.kind = "step" /\ c.status = "running" =>
                run'.at \in {"mentor", "complete"} /\ c.id = run'.step
    BY DEF RunsOn, OpenIsStep, OpenIn
  <2> QED
    BY <2>1, <2>2, <2>3, <2>4 DEF RunFits
<1>5. Given \in Nat /\ Given' \in Nat /\ used \subseteq used'
  BY <1>1, <1>2, <1>4, GivenNumbers DEF Given, RunFits
<1>6. TitleFits'
  BY <1>1, <1>2, <1>3, <1>5, TitleStays DEF TitleFits
<1>7. LostFits'
  BY <1>1, <1>2, <1>3, <1>5, LostStays
<1>8. UsedFits'
  BY <1>1, <1>2 DEF UsedFits, RunsOn
<1>9. FileFits'
  BY <1>1, <1>2, <1>5, FileStays
<1> QED
  BY <1>1, <1>2, <1>4, <1>6, <1>7, <1>8, <1>9 DEF StoreInv

InRun == {"request", "mentor", "complete", "store", "results", "close"}

RunFacts ==
    /\ Sound(db, Given, Held) /\ Given \in Nat /\ Given <= runs /\ runs \in Nat \ {0}
    /\ DOMAIN run = {"at", "session", "agent", "step", "prompt", "reply"}
    /\ run.session \in Ids(db.sessions) /\ run.agent = <<run.session, runs>>
    /\ run.at \in InRun => \E m \in Nat : run.step = <<run.session, runs, m>>
    /\ run.at \notin {"repair", "start"} =>
          /\ Given = runs /\ AgentOf(run.agent, run.session, Given)
          /\ \E a \in db.agents : a.id = run.agent /\ a.status = "running"
    /\ OpenIsStep(db, run)

LEMMA InRunFacts == ASSUME StoreInv, run.at # "idle" PROVE RunFacts
<1>1. Sound(db, Given, Held) /\ RunFits /\ runs \in Nat
  BY DEF StoreInv
<1>2. Given \in Nat /\ Given <= runs
  BY <1>1, GivenNumbers DEF GivenIsNat
<1>3. /\ runs \in Nat \ {0}
      /\ DOMAIN run = {"at", "session", "agent", "step", "prompt", "reply"}
      /\ run.session \in Ids(db.sessions) /\ run.agent = <<run.session, runs>>
      /\ run.at \in InRun => \E m \in Nat : run.step = <<run.session, runs, m>>
  BY <1>1 DEF RunFits, InRun
<1>4. ASSUME run.at \notin {"repair", "start"}
      PROVE  /\ Given = runs /\ AgentOf(run.agent, run.session, Given)
             /\ \E a \in db.agents : a.id = run.agent /\ a.status = "running"
  <2>1. Given = runs
    BY <1>4 DEF Given
  <2>2. runs \in 1 .. Given
    BY <1>3, <2>1
  <2>3. AgentOf(run.agent, run.session, Given)
    BY <1>3, <2>2 DEF AgentOf
  <2> QED
    BY <1>1, <1>4, <2>1, <2>3 DEF RunFits
<1>5. OpenIsStep(db, run)
  BY <1>1 DEF RunFits, OpenIsStep, OpenIn
<1> QED
  BY <1>1, <1>2, <1>3, <1>4, <1>5 DEF RunFacts

LEMMA RunToFollows ==
    ASSUME RunFacts, NEW where \in RunPlaces \ {"idle", "repair"}, RunTo(where),
           where \in InRun => run.at \in InRun
    PROVE  Follows(run') /\ run'.at = where /\ run'.step = run.step
<1>1. run' = [run EXCEPT !.at = where]
  BY DEF RunTo
<1>2. /\ DOMAIN run' = {"at", "session", "agent", "step", "prompt", "reply"}
      /\ run'.at = where /\ run'.session = run.session /\ run'.agent = run.agent
      /\ run'.step = run.step
  BY <1>1 DEF RunFacts
<1> QED
  BY <1>2 DEF Follows, RunFacts, InRun

\* Nothing is put, and nothing put is named.
LEMMA HeldStays ==
    ASSUME UNCHANGED <<lost, title>>, run.at # "complete", run'.at # "complete"
    PROVE  Held' = Held
  BY DEF Held

\* An event that ends no agent and names no blob in its payload.
LEMMA InsertAdds ==
    ASSUME NEW d, NEW n, NEW held, Sound(d, n, held), NEW s \in Ids(d.sessions),
           NEW e, e.agent = None \/ AgentOf(e.agent, s, n), e.raw = None,
           e.kind # "agent.finished"
    PROVE  LET t == InsertEvent(d, s, e)
           IN  /\ Sound(t, n, held) /\ t.sessions = d.sessions
               /\ t.agents = d.agents /\ t.calls = d.calls
<1>1. Sound(InsertEvent(d, s, e), n, held)
  BY InsertKeepsSound
<1>2. DOMAIN d = DbFields
  BY DEF Sound, Whole
<1> QED
  BY <1>1, <1>2, InsertWrites

\* The rows a run relies on are the same.
SameRun(d, t) == Ids(t.sessions) = Ids(d.sessions) /\ t.agents = d.agents /\ t.calls = d.calls

LEMMA OpenStays ==
    ASSUME NEW t, NEW r, RunFacts, SameRun(db, t), Follows(r),
           r.at = "start" \/ run.at \notin {"repair", "start"},
           run.at \in {"mentor", "complete"} => r.at \in {"mentor", "complete"} /\ r.step = run.step
    PROVE  RunsOn(t, r)
<1>1. OpenIsStep(t, r)
  BY DEF OpenIsStep, OpenIn, SameRun, RunFacts, Follows
<1>2. r.at # "start" => \E a \in t.agents : a.id = run.agent /\ a.status = "running"
  BY DEF SameRun, RunFacts
<1> QED
  BY <1>1, <1>2 DEF RunsOn, SameRun

LEMMA RunRepairKeeps ==
    ASSUME StoreInv, RunRepair, UNCHANGED transfers
    PROVE  StoreInv'
<1> DEFINE d == Truncate(db, run.session, Len(Messages(db, run.session)) - 1)
           e == Event("session.repaired", None)
<1>1. run.at = "repair" /\ RunOnly /\ RunTo("start")
  BY DEF RunRepair, RunAt
<1>2. RunFacts
  BY <1>1, InRunFacts
<1>3. Sound(d, Given, Held) /\ MessagesOnly(db, d)
  BY <1>2, TruncateKeeps DEF RunFacts
<1>4. e.agent = None /\ e.raw = None /\ e.kind # "agent.finished"
  BY DEF Event
<1>5. db' = InsertEvent(d, run.session, e)
  BY DEF RunRepair
<1> HIDE DEF d, e
<1>6. Sound(db', Given, Held) /\ SameRun(db, db')
  <2>1. run.session \in Ids(d.sessions)
    BY <1>2, <1>3 DEF RunFacts, MessagesOnly
  <2> QED
    BY <1>3, <1>4, <1>5, <2>1, InsertAdds DEF SameRun, MessagesOnly
<1>7. Follows(run') /\ run'.at = "start"
  BY <1>1, <1>2, RunToFollows DEF InRun, RunPlaces
<1>8. RunsOn(db', run')
  BY <1>1, <1>2, <1>6, <1>7, OpenStays
<1>9. Held' = Held /\ Given' = Given /\ Given <= Given'
  <2>1. UNCHANGED <<lost, title, runs>>
    BY <1>1 DEF RunOnly, counters
  <2>2. Held' = Held
    BY <1>1, <1>7, <2>1, HeldStays
  <2> QED
    BY <1>1, <1>2, <1>7, <2>1, <2>2 DEF Given, RunFacts
<1> QED
  BY <1>1, <1>6, <1>8, <1>9, RunMoves

LEMMA RunStartKeeps ==
    ASSUME StoreInv, RunStart, UNCHANGED transfers
    PROVE  StoreInv'
<1>1. /\ run.at = "start" /\ RunOnly /\ RunTo("turn")
      /\ db' = StartAgent(db, run.session, run.agent)
  BY DEF RunStart, RunAt
<1>2. RunFacts
  BY <1>1, InRunFacts
<1>3. Follows(run') /\ run'.at = "turn"
  BY <1>1, <1>2, RunToFollows DEF InRun, RunPlaces
<1>4. UNCHANGED <<lost, title, runs>>
  BY <1>1 DEF RunOnly, counters
<1>5. Held' = Held /\ Given' = Given + 1 /\ Given <= Given' /\ runs = Given + 1
  <2>1. Held' = Held
    BY <1>1, <1>3, <1>4, HeldStays
  <2>2. Given = runs - 1 /\ Given' = runs
    BY <1>1, <1>3, <1>4 DEF Given
  <2> QED
    BY <1>2, <2>1, <2>2 DEF RunFacts
<1>6. /\ Sound(db', Given', Held')
      /\ db'.sessions = db.sessions /\ db'.calls = db.calls
      /\ \E r \in db'.agents : r.id = run.agent /\ r.status = "running"
  <2>1. run.agent = <<run.session, Given + 1>>
    BY <1>2, <1>5 DEF RunFacts
  <2> QED
    BY <1>1, <1>2, <1>5, <2>1, StartAgentKeeps DEF RunFacts
<1>7. OpenIsStep(db', run')
  BY <1>1, <1>2, <1>3, <1>6 DEF OpenIsStep, OpenIn, RunFacts, Follows
<1>8. RunsOn(db', run')
  BY <1>3, <1>6, <1>7 DEF RunsOn
<1> QED
  BY <1>1, <1>5, <1>6, <1>8, RunMoves

\* Between the places where the numbers of agents and the blobs held stay.
LEMMA NumbersStay ==
    ASSUME RunFacts, RunOnly, run.at \notin {"repair", "start", "complete"},
           run'.at \notin {"repair", "start", "complete"}
    PROVE  Held' = Held /\ Given' = Given /\ Given <= Given'
<1>1. UNCHANGED <<lost, title, runs>>
  BY DEF RunOnly, counters
<1> QED
  BY <1>1, HeldStays DEF Given, RunFacts

LEMMA RunTurnKeeps ==
    ASSUME StoreInv, RunTurn, UNCHANGED transfers
    PROVE  StoreInv'
<1> DEFINE first == SessionRow(db, run.session).source = "none"
                    /\ Messages(db, run.session) = << >>
           d == IF first THEN SetTitle(db, run.session, "prompt") ELSE db
           e == WithBody(Event("user.message", run.agent), TextBlob(run.prompt))
           d2 == InsertEvent(d, run.session, e)
<1>1. /\ run.at = "turn" /\ RunOnly /\ RunTo("step")
      /\ db' = PutUserText(d2, run.session, run.prompt)
  BY DEF RunTurn, RunAt
<1>2. RunFacts
  BY <1>1, InRunFacts
<1>3. /\ Sound(d, Given, Held) /\ Ids(d.sessions) = Ids(db.sessions)
      /\ d.agents = db.agents /\ d.calls = db.calls
  BY <1>2, SetTitleKeeps DEF RunFacts
<1>4. e.agent = run.agent /\ e.raw = None /\ e.kind # "agent.finished"
  BY DEF Event, WithBody
<1>5. AgentOf(run.agent, run.session, Given)
  BY <1>1, <1>2 DEF RunFacts
<1> HIDE DEF d, e
<1>6. /\ Sound(d2, Given, Held) /\ d2.sessions = d.sessions
      /\ d2.agents = d.agents /\ d2.calls = d.calls
  <2>1. run.session \in Ids(d.sessions)
    BY <1>2, <1>3 DEF RunFacts
  <2> QED
    BY <1>3, <1>4, <1>5, <2>1, InsertAdds
<1> HIDE DEF d2
<1>7. Sound(db', Given, Held) /\ SameRun(db, db')
  <2>1. run.session \in Ids(d2.sessions)
    BY <1>2, <1>3, <1>6 DEF RunFacts
  <2>2. Sound(db', Given, Held) /\ MessagesOnly(d2, db')
    BY <1>1, <1>6, <2>1, PutUserTextKeeps
  <2> QED
    BY <1>3, <1>6, <2>2 DEF SameRun, MessagesOnly
<1>8. Follows(run') /\ run'.at = "step"
  BY <1>1, <1>2, RunToFollows DEF InRun, RunPlaces
<1>9. RunsOn(db', run')
  BY <1>1, <1>2, <1>7, <1>8, OpenStays
<1>10. Held' = Held /\ Given' = Given /\ Given <= Given'
  BY <1>1, <1>2, <1>8, NumbersStay
<1> QED
  BY <1>1, <1>7, <1>9, <1>10, RunMoves

LEMMA RunStepKeeps ==
    ASSUME StoreInv, RunStep, UNCHANGED transfers
    PROVE  StoreInv'
<1>1. /\ run.at = "step" /\ RunOnly /\ db' = StartStep(db, run.agent)
      /\ run' = [run EXCEPT !.at = "request", !.step = NextStep(db, run.agent)]
  BY DEF RunStep, RunAt
<1>2. RunFacts
  BY <1>1, InRunFacts
<1>3. run.agent \in Ids(db.agents)
  BY <1>1, <1>2 DEF RunFacts, Ids
<1>4. Sound(db', Given, Held) /\ SameRun(db, db')
  BY <1>1, <1>2, <1>3, StartStepKeeps DEF RunFacts, SameRun
<1>5. \E m \in Nat : NextStep(db, run.agent) = <<run.session, runs, m>>
  <2>1. IsFiniteSet(db.steps)
    BY <1>2 DEF RunFacts, Sound, Whole, Linked, StepsOK
  <2> QED
    BY <1>2, <2>1, NextStepNamed DEF RunFacts
<1>6. Follows(run') /\ run'.at = "request"
  <2>1. /\ DOMAIN run' = {"at", "session", "agent", "step", "prompt", "reply"}
        /\ run'.at = "request" /\ run'.session = run.session /\ run'.agent = run.agent
        /\ run'.step = NextStep(db, run.agent)
    BY <1>1, <1>2 DEF RunFacts
  <2> QED
    BY <1>5, <2>1 DEF Follows, RunPlaces
<1>7. RunsOn(db', run')
  BY <1>1, <1>2, <1>4, <1>6, OpenStays
<1>8. Held' = Held /\ Given' = Given /\ Given <= Given'
  BY <1>1, <1>2, <1>6, NumbersStay
<1> QED
  BY <1>1, <1>4, <1>7, <1>8, RunMoves

LEMMA RunRequestKeeps ==
    ASSUME StoreInv, RunRequest, UNCHANGED transfers
    PROVE  StoreInv'
<1> DEFINE ms == Conversation(db, run.session)
<1>1. /\ run.at = "request" /\ RunOnly /\ RunTo("mentor")
      /\ db' = RecordRequest(db, run.session, run.agent, run.step, "step",
                             RequestBlob(ms), Len(ms))
  BY DEF RunRequest, RunAt
<1> HIDE DEF ms
<1>2. RunFacts
  BY <1>1, InRunFacts
<1>3. PICK m \in Nat : run.step = <<run.session, runs, m>>
  BY <1>1, <1>2 DEF RunFacts, InRun
<1>4. /\ run.agent = <<run.session, runs>> /\ runs \in 1 .. Given
      /\ \E a \in db.agents : a.id = <<run.session, runs>> /\ a.status = "running"
  BY <1>1, <1>2 DEF RunFacts
<1>5. /\ Sound(db', Given, Held) /\ db'.sessions = db.sessions /\ db'.agents = db.agents
      /\ \A c \in db'.calls : OpenIn(db', c) => OpenIn(db, c) \/ c.id = run.step
  <2> DEFINE t == RecordRequest(db, run.session, <<run.session, runs>>,
                                <<run.session, runs, m>>, "step", RequestBlob(ms), Len(ms))
  <2>1. db' = t
    BY <1>1, <1>3, <1>4
  <2>2. Sound(db, Given, Held) /\ run.session \in Ids(db.sessions)
    BY <1>2 DEF RunFacts
  <2>3. /\ Sound(t, Given, Held) /\ t.sessions = db.sessions /\ t.agents = db.agents
        /\ \A c \in t.calls : OpenIn(t, c) =>
              OpenIn(db, c) \/ c.id = <<run.session, runs, m>>
    <3> DEFINE kind  == "step"
               count == Len(ms)
               body  == RequestBlob(ms)
               s     == run.session
               n     == Given
               held  == Held
    <3>1. /\ Sound(db, n, held) /\ s \in Ids(db.sessions) /\ runs \in 1 .. n
          /\ kind \in {"step", "title"}
          /\ \E a \in db.agents : a.id = <<s, runs>> /\ a.status = "running"
      BY <1>4, <2>2
    <3>2. t = RecordRequest(db, s, <<s, runs>>, <<s, runs, m>>, kind, body, count)
      OBVIOUS
    <3> HIDE DEF kind, count, body, s, n, held, t
    <3>3. /\ Sound(t, n, held) /\ t.sessions = db.sessions /\ t.agents = db.agents
          /\ \A c \in t.calls : OpenIn(t, c) =>
                OpenIn(db, c) \/ (kind = "step" /\ c.id = <<s, runs, m>>)
      BY <1>3, <3>1, <3>2, RecordRequestKeeps, SMTT(60)
    <3> QED
      BY <3>3 DEF s, n, held
  <2> HIDE DEF t
  <2> QED
    BY <1>3, <2>1, <2>3
<1>6. Follows(run') /\ run'.at = "mentor" /\ run'.step = run.step
  BY <1>1, <1>2, RunToFollows DEF InRun, RunPlaces
<1>7. OpenIsStep(db', run')
  <2>1. \A c : OpenIn(db, c) => c \in db.calls
    BY DEF OpenIn
  <2> QED
    BY <1>1, <1>2, <1>5, <1>6, <2>1 DEF OpenIsStep, RunFacts, Follows
<1>8. RunsOn(db', run')
  BY <1>1, <1>2, <1>5, <1>6, <1>7 DEF RunsOn, RunFacts
<1>9. Held' = Held /\ Given' = Given /\ Given <= Given'
  BY <1>1, <1>2, <1>6, NumbersStay
<1> QED
  BY <1>1, <1>5, <1>8, <1>9, RunMoves

LEMMA RunFailKeeps ==
    ASSUME StoreInv, RunFail, UNCHANGED transfers
    PROVE  StoreInv'
<1> DEFINE d == RecordError(db, run.session, run.agent, run.step)
<1>1. /\ run.at = "mentor" /\ RunOnly /\ db' = FinishStep(d, run.step, "error")
      /\ run' = [run EXCEPT !.at = "finish", !.reply = None]
  BY DEF RunFail, RunAt
<1>2. RunFacts
  BY <1>1, InRunFacts
<1>3. PICK m \in Nat : run.step = <<run.session, runs, m>>
  BY <1>1, <1>2 DEF RunFacts, InRun
<1>4. run.agent = <<run.session, runs>> /\ runs \in 1 .. Given
  BY <1>1, <1>2 DEF RunFacts
<1>5. /\ Sound(d, Given, Held) /\ d.sessions = db.sessions /\ d.agents = db.agents
      /\ \A c \in d.calls : OpenIn(d, c) =>
            \E b \in db.calls : OpenIn(db, b) /\ b.id = c.id /\ b.agent = c.agent
                                /\ b.id # run.step
  <2> DEFINE t == RecordError(db, run.session, <<run.session, runs>>, <<run.session, runs, m>>)
  <2>1. d = t
    BY <1>3, <1>4
  <2>2. Sound(db, Given, Held) /\ run.session \in Ids(db.sessions)
    BY <1>2 DEF RunFacts
  <2>3. /\ Sound(t, Given, Held) /\ t.sessions = db.sessions /\ t.agents = db.agents
        /\ \A c \in t.calls : OpenIn(t, c) =>
              \E b \in db.calls : OpenIn(db, b) /\ b.id = c.id /\ b.agent = c.agent
                                  /\ b.id # <<run.session, runs, m>>
    BY <1>3, <1>4, <2>2, RecordErrorKeeps
  <2> HIDE DEF t, d
  <2> QED
    BY <1>3, <2>1, <2>3
<1> HIDE DEF d
<1>6. /\ Sound(db', Given, Held) /\ db'.sessions = d.sessions
      /\ db'.agents = d.agents /\ db'.calls = d.calls
  BY <1>1, <1>5, FinishStepKeeps DEF Ended
<1>7. Follows(run') /\ run'.at = "finish"
  <2>1. /\ DOMAIN run' = {"at", "session", "agent", "step", "prompt", "reply"}
        /\ run'.at = "finish" /\ run'.session = run.session /\ run'.agent = run.agent
    BY <1>1, <1>2 DEF RunFacts
  <2> QED
    BY <2>1 DEF Follows, RunPlaces
<1>8. OpenIsStep(db', run')
  <2> SUFFICES ASSUME NEW c \in db'.calls, c.agent = run.agent, OpenIn(db', c)
               PROVE  FALSE
    BY <1>7 DEF OpenIsStep, Follows
  <2>1. OpenIn(d, c)
    BY <1>6 DEF OpenIn
  <2>2. PICK b \in db.calls : OpenIn(db, b) /\ b.agent = run.agent /\ b.id # run.step
    BY <1>5, <1>6, <2>1
  <2> QED
    BY <1>2, <2>2 DEF RunFacts, OpenIsStep
<1>9. RunsOn(db', run')
  BY <1>1, <1>2, <1>5, <1>6, <1>7, <1>8 DEF RunsOn, RunFacts
<1>10. Held' = Held /\ Given' = Given /\ Given <= Given'
  BY <1>1, <1>2, <1>7, NumbersStay
<1> QED
  BY <1>1, <1>6, <1>9, <1>10, RunMoves

LEMMA TitlesStep ==
    ASSUME TitleFits, Given \in Nat, title.at \in {"request", "mentor", "complete"}
    PROVE  \E s \in used, k \in 1 .. Given, m \in Nat :
              title.session = s /\ title.agent = <<s, k>> /\ title.step = <<s, k, m>>
<1>1. PICK k \in 1 .. Given : title.agent = <<title.session, k>>
  BY DEF TitleFits, AgentOf
<1>2. PICK m \in Nat : title.step = Append(title.agent, m)
  BY DEF TitleFits
<1>3. title.step = <<title.session, k, m>>
  BY <1>1, <1>2, AppendToPair
<1>4. title.session \in used
  BY DEF TitleFits
<1> QED
  BY <1>1, <1>3, <1>4

LEMMA StreamsDiffer ==
    ASSUME NEW s, NEW k, NEW m, NEW s2, NEW k2, NEW m2, <<s, k>> # <<s2, k2>>
    PROVE  StreamBlob(<<s, k, m>>) # StreamBlob(<<s2, k2, m2>>)
<1>1. <<"stream", <<s, k, m>>>> = <<"stream", <<s2, k2, m2>>>>
          => <<s, k, m>> = <<s2, k2, m2>>
  OBVIOUS
<1>2. <<s, k, m>> = <<s2, k2, m2>> => s = s2 /\ k = k2
  OBVIOUS
<1> QED
  BY <1>1, <1>2 DEF StreamBlob

\* Nobody else holds the stream of a run's call.
LEMMA RunsStream ==
    ASSUME StoreInv, run.at \in InRun
    PROVE  /\ StreamBlob(run.step) \notin lost
           /\ title.at = "complete" => StreamBlob(title.step) # StreamBlob(run.step)
<1>1. RunFacts /\ LostFits /\ TitleFits
  BY InRunFacts DEF StoreInv, InRun
<1>2. PICK m \in Nat : run.step = <<run.session, runs, m>>
  BY <1>1 DEF RunFacts
<1>3. run.agent = <<run.session, runs>> /\ run.at # "idle"
  BY <1>1 DEF RunFacts, InRun
<1>4. ASSUME NEW c \in lost
      PROVE  c # StreamBlob(run.step)
  <2>1. PICK s \in used, k \in 1 .. runs, i \in Nat :
            c = StreamBlob(<<s, k, i>>) /\ <<s, k>> # run.agent
    BY <1>1, <1>3 DEF LostFits
  <2>2. StreamBlob(<<s, k, i>>) # StreamBlob(<<run.session, runs, m>>)
    BY <1>3, <2>1, StreamsDiffer
  <2> QED
    BY <1>2, <2>1, <2>2
<1>5. ASSUME title.at = "complete"
      PROVE  StreamBlob(title.step) # StreamBlob(run.step)
  <2>1. PICK s \in used, k \in 1 .. Given, i \in Nat :
            title.agent = <<s, k>> /\ title.step = <<s, k, i>>
    BY <1>1, <1>5, TitlesStep DEF RunFacts
  <2>2. title.agent # run.agent
    BY <1>1, <1>3, <1>5 DEF TitleFits
  <2>3. StreamBlob(<<s, k, i>>) # StreamBlob(<<run.session, runs, m>>)
    BY <1>3, <2>1, <2>2, StreamsDiffer
  <2> QED
    BY <1>2, <2>1, <2>3
<1> QED
  BY <1>4, <1>5

\* ... nor that of a title's.
LEMMA TitlesStream ==
    ASSUME StoreInv, title.at \in {"mentor", "complete"}
    PROVE  /\ StreamBlob(title.step) \notin lost
           /\ run.at = "complete" => StreamBlob(title.step) # StreamBlob(run.step)
<1>1. LostFits /\ TitleFits /\ Given \in Nat
  BY GivenNumbers DEF StoreInv, GivenIsNat
<1>2. PICK s \in used, k \in 1 .. Given, m \in Nat :
          title.agent = <<s, k>> /\ title.step = <<s, k, m>>
  BY <1>1, TitlesStep
<1>3. ASSUME NEW c \in lost
      PROVE  c # StreamBlob(title.step)
  <2>1. PICK s2 \in used, k2 \in 1 .. runs, i \in Nat :
            c = StreamBlob(<<s2, k2, i>>) /\ <<s2, k2>> # title.agent
    BY <1>1 DEF LostFits
  <2>2. StreamBlob(<<s2, k2, i>>) # StreamBlob(<<s, k, m>>)
    BY <1>2, <2>1, StreamsDiffer
  <2> QED
    BY <1>2, <2>1, <2>2
<1>4. ASSUME run.at = "complete"
      PROVE  StreamBlob(title.step) # StreamBlob(run.step)
  <2>1. RunFacts /\ run.at \in InRun
    BY <1>4, InRunFacts DEF InRun
  <2>2. PICK i \in Nat : run.step = <<run.session, runs, i>>
    BY <2>1 DEF RunFacts
  <2>3. run.agent = <<run.session, runs>> /\ title.agent # run.agent
    BY <1>1, <1>4, <2>1 DEF RunFacts, TitleFits
  <2>4. StreamBlob(<<s, k, m>>) # StreamBlob(<<run.session, runs, i>>)
    BY <1>2, <2>3, StreamsDiffer
  <2> QED
    BY <1>2, <2>2, <2>4
<1> QED
  BY <1>3, <1>4

LEMMA RunReplyKeeps ==
    ASSUME StoreInv, NEW r, RunReply(r), UNCHANGED transfers
    PROVE  StoreInv'
<1> DEFINE b == StreamBlob(run.step)
<1>1. /\ run.at = "mentor" /\ RunOnly /\ db' = PutBlob(db, b)
      /\ run' = [run EXCEPT !.at = "complete", !.reply = r]
  BY DEF RunReply, RunAt
<1>2. RunFacts
  BY <1>1, InRunFacts
<1>3. b # None /\ b \notin Held
  <2>1. b \notin lost /\ (title.at = "complete" => StreamBlob(title.step) # b)
    BY <1>1, RunsStream DEF InRun
  <2> QED
    BY <1>1, <2>1 DEF Held, StreamBlob, None
<1>4. Follows(run') /\ run'.at = "complete" /\ run'.step = run.step
  <2>1. /\ DOMAIN run' = {"at", "session", "agent", "step", "prompt", "reply"}
        /\ run'.at = "complete" /\ run'.session = run.session /\ run'.agent = run.agent
        /\ run'.step = run.step
    BY <1>1, <1>2 DEF RunFacts
  <2> QED
    BY <1>1, <1>2, <2>1 DEF Follows, RunPlaces, RunFacts, InRun
<1>5. Held' = Held \cup {b} /\ Given' = Given /\ Given <= Given'
  <2>1. UNCHANGED <<lost, title, runs>>
    BY <1>1 DEF RunOnly, counters
  <2> QED
    BY <1>1, <1>2, <1>4, <2>1 DEF Held, Given, RunFacts
<1> HIDE DEF b
<1>6. Sound(db', Given', Held') /\ SameRun(db, db')
  BY <1>1, <1>2, <1>3, <1>5, PutBlobKeeps DEF RunFacts, SameRun
<1>7. RunsOn(db', run')
  BY <1>1, <1>2, <1>4, <1>6, OpenStays
<1> QED
  BY <1>1, <1>5, <1>6, <1>7, RunMoves

LEMMA RunCompleteKeeps ==
    ASSUME StoreInv, RunComplete, UNCHANGED transfers
    PROVE  StoreInv'
<1> DEFINE b == StreamBlob(run.step)
<1>1. /\ run.at = "complete" /\ RunOnly /\ RunTo("store")
      /\ db' = RecordResponse(db, run.session, run.agent, run.step, run.reply)
  BY DEF RunComplete, RunAt
<1>2. RunFacts
  BY <1>1, InRunFacts
<1>3. PICK m \in Nat : run.step = <<run.session, runs, m>>
  BY <1>1, <1>2 DEF RunFacts, InRun
<1>4. run.agent = <<run.session, runs>> /\ runs \in 1 .. Given
  BY <1>1, <1>2 DEF RunFacts
<1>5. Follows(run') /\ run'.at = "store" /\ run'.step = run.step
  BY <1>1, <1>2, RunToFollows DEF InRun, RunPlaces
<1>6. Held' = Held \ {b} /\ b \in Held /\ Given' = Given /\ Given <= Given'
  <2>1. UNCHANGED <<lost, title, runs>>
    BY <1>1 DEF RunOnly, counters
  <2>2. b \notin lost /\ (title.at = "complete" => StreamBlob(title.step) # b)
    BY <1>1, RunsStream DEF InRun
  <2>3. b \in Held /\ Held' = Held \ {b}
    BY <1>1, <1>5, <2>1, <2>2 DEF Held
  <2> QED
    BY <1>1, <1>2, <1>5, <2>1, <2>3 DEF Given, RunFacts
<1>7. /\ Sound(db', Given, Held') /\ db'.sessions = db.sessions /\ db'.agents = db.agents
      /\ \A c \in db'.calls : OpenIn(db', c) =>
            \E x \in db.calls : OpenIn(db, x) /\ x.id = c.id /\ x.agent = c.agent
                                /\ x.id # run.step
  <2> DEFINE t == RecordResponse(db, run.session, <<run.session, runs>>,
                                 <<run.session, runs, m>>, run.reply)
  <2>1. db' = t
    BY <1>1, <1>3, <1>4
  <2>2. /\ Sound(db, Given, Held) /\ run.session \in Ids(db.sessions)
        /\ StreamBlob(<<run.session, runs, m>>) \in Held
    BY <1>2, <1>3, <1>6 DEF RunFacts
  <2>3. /\ Sound(t, Given, Held \ {StreamBlob(<<run.session, runs, m>>)})
        /\ t.sessions = db.sessions /\ t.agents = db.agents
        /\ \A c \in t.calls : OpenIn(t, c) =>
              \E x \in db.calls : OpenIn(db, x) /\ x.id = c.id /\ x.agent = c.agent
                                  /\ x.id # <<run.session, runs, m>>
    <3> DEFINE s == run.session
               reply == run.reply
               n == Given
               held == Held
    <3>1. /\ Sound(db, n, held) /\ s \in Ids(db.sessions) /\ runs \in 1 .. n /\ m \in Nat
          /\ StreamBlob(<<s, runs, m>>) \in held
          /\ t = RecordResponse(db, s, <<s, runs>>, <<s, runs, m>>, reply)
      BY <1>3, <1>4, <2>2
    <3> HIDE DEF s, reply, n, held, t
    <3>2. /\ Sound(t, n, held \ {StreamBlob(<<s, runs, m>>)})
          /\ t.sessions = db.sessions /\ t.agents = db.agents
          /\ \A c \in t.calls : OpenIn(t, c) =>
                \E x \in db.calls : OpenIn(db, x) /\ x.id = c.id /\ x.agent = c.agent
                                    /\ x.id # <<s, runs, m>>
      BY <3>1, RecordResponseKeeps
    <3> QED
      BY <3>2 DEF s, n, held
  <2> HIDE DEF t
  <2> QED
    BY <1>3, <1>6, <2>1, <2>3
<1>8. OpenIsStep(db', run')
  <2> SUFFICES ASSUME NEW c \in db'.calls, c.agent = run.agent, OpenIn(db', c)
               PROVE  FALSE
    BY <1>5 DEF OpenIsStep, Follows
  <2>1. PICK x \in db.calls : OpenIn(db, x) /\ x.agent = run.agent /\ x.id # run.step
    BY <1>7
  <2> QED
    BY <1>2, <2>1 DEF RunFacts, OpenIsStep
<1>9. RunsOn(db', run')
  BY <1>1, <1>2, <1>5, <1>7, <1>8 DEF RunsOn, RunFacts
<1> QED
  BY <1>1, <1>6, <1>7, <1>9, RunMoves

LEMMA RunStoreKeeps ==
    ASSUME StoreInv, RunStore, UNCHANGED transfers
    PROVE  StoreInv'
<1> DEFINE e == WithBody(Event("assistant.message", run.agent), TextBlob(run.reply))
           d == InsertEvent(db, run.session, e)
           where == IF run.reply = Uses THEN "results" ELSE "close"
<1>1. /\ run.at = "store" /\ RunOnly /\ RunTo(where)
      /\ db' = PutNext(d, run.session, "assistant", run.reply, run.step)
  BY DEF RunStore, RunAt
<1>2. RunFacts
  BY <1>1, InRunFacts
<1>3. e.agent = run.agent /\ e.raw = None /\ e.kind # "agent.finished"
  BY DEF Event, WithBody
<1>4. where \in {"results", "close"}
  OBVIOUS
<1> HIDE DEF e, where
<1>5. Sound(d, Given, Held) /\ d.sessions = db.sessions /\ d.agents = db.agents /\ d.calls = db.calls
  <2>1. AgentOf(run.agent, run.session, Given)
    BY <1>1, <1>2 DEF RunFacts
  <2> QED
    BY <1>2, <1>3, <2>1, InsertAdds DEF RunFacts
<1> HIDE DEF d
<1>6. Sound(db', Given, Held) /\ SameRun(db, db')
  <2>1. run.session \in Ids(d.sessions)
    BY <1>2, <1>5 DEF RunFacts
  <2>2. Sound(db', Given, Held) /\ MessagesOnly(d, db')
    BY <1>1, <1>5, <2>1, PutNextKeeps
  <2> QED
    BY <1>5, <2>2 DEF SameRun, MessagesOnly
<1>7. Follows(run') /\ run'.at = where
  <2>1. where \in RunPlaces \ {"idle", "repair"} /\ run.at \in InRun
    BY <1>1, <1>4 DEF RunPlaces, InRun
  <2> QED
    BY <1>1, <1>2, <2>1, RunToFollows
<1>8. RunsOn(db', run')
  BY <1>1, <1>2, <1>6, <1>7, OpenStays
<1>9. Held' = Held /\ Given' = Given /\ Given <= Given'
  BY <1>1, <1>2, <1>4, <1>7, NumbersStay
<1> QED
  BY <1>1, <1>6, <1>8, <1>9, RunMoves

LEMMA RunResultsKeeps ==
    ASSUME StoreInv, RunResults, UNCHANGED transfers
    PROVE  StoreInv'
<1>1. /\ run.at = "results" /\ RunOnly /\ RunTo("close")
      /\ db' = PutNext(db, run.session, "user", Results, run.step)
  BY DEF RunResults, RunAt
<1>2. RunFacts
  BY <1>1, InRunFacts
<1>3. Sound(db', Given, Held) /\ SameRun(db, db')
  <2>1. Sound(db', Given, Held) /\ MessagesOnly(db, db')
    BY <1>1, <1>2, PutNextKeeps DEF RunFacts
  <2> QED
    BY <2>1 DEF SameRun, MessagesOnly
<1>4. Follows(run') /\ run'.at = "close"
  BY <1>1, <1>2, RunToFollows DEF InRun, RunPlaces
<1>5. RunsOn(db', run')
  BY <1>1, <1>2, <1>3, <1>4, OpenStays
<1>6. Held' = Held /\ Given' = Given /\ Given <= Given'
  BY <1>1, <1>2, <1>4, NumbersStay
<1> QED
  BY <1>1, <1>3, <1>5, <1>6, RunMoves

LEMMA RunCloseKeeps ==
    ASSUME StoreInv, RunClose, UNCHANGED transfers
    PROVE  StoreInv'
<1> DEFINE where == IF run.reply = Uses THEN "step" ELSE "finish"
<1>1. /\ run.at = "close" /\ RunOnly /\ RunTo(where)
      /\ db' = FinishStep(db, run.step, "ok")
  BY DEF RunClose, RunAt
<1>2. RunFacts
  BY <1>1, InRunFacts
<1>3. where \in {"step", "finish"}
  OBVIOUS
<1> HIDE DEF where
<1>4. Sound(db', Given, Held) /\ SameRun(db, db')
  BY <1>1, <1>2, FinishStepKeeps DEF RunFacts, SameRun, Ended
<1>5. Follows(run') /\ run'.at = where
  <2>1. where \in RunPlaces \ {"idle", "repair"} /\ where \notin InRun
    BY <1>3 DEF RunPlaces, InRun
  <2> QED
    BY <1>1, <1>2, <2>1, RunToFollows
<1>6. RunsOn(db', run')
  BY <1>1, <1>2, <1>4, <1>5, OpenStays
<1>7. Held' = Held /\ Given' = Given /\ Given <= Given'
  BY <1>1, <1>2, <1>3, <1>5, NumbersStay
<1> QED
  BY <1>1, <1>4, <1>6, <1>7, RunMoves

LEMMA RunFinishKeeps ==
    ASSUME StoreInv, RunFinish, UNCHANGED transfers
    PROVE  StoreInv'
<1> DEFINE status == IF run.reply = Answer THEN "ok" ELSE "error"
<1>1. /\ run.at = "finish" /\ run' = NoRun
      /\ db' = FinishAgent(db, run.session, run.agent, status)
      /\ \/ title' = [at |-> "step", session |-> run.session, agent |-> run.agent,
                      step |-> None, prompt |-> run.prompt]
            /\ title.at = "idle"
         \/ title' = title
      /\ UNCHANGED <<used, daemon, lost, runs, file>>
  BY DEF RunFinish, RunAt, TitleDue, transfers
<1>2. RunFacts /\ StoreInv
  BY <1>1, InRunFacts
<1>3. status \in Ended
  BY DEF Ended
<1> HIDE DEF status
<1>4. PICK row \in db.agents : row.id = run.agent /\ row.status = "running"
  BY <1>1, <1>2 DEF RunFacts
<1>5. row.session = run.session
  <2>1. AgentOf(row.id, row.session, Given)
    BY <1>2 DEF RunFacts, Sound, Whole, Linked, AgentsOK
  <2>2. AgentOf(run.agent, run.session, Given)
    BY <1>1, <1>2 DEF RunFacts
  <2> QED
    BY <1>4, <2>1, <2>2, AgentsSession
<1>6. NoneOpen(db, row.id)
  BY <1>1, <1>2, <1>4 DEF RunFacts, OpenIsStep, OpenIn, NoneOpen
<1>7. Sound(db', Given, Held) /\ db'.sessions = db.sessions
  <2>1. db' = FinishAgent(db, row.session, row.id, status)
    BY <1>1, <1>4, <1>5
  <2>2. Sound(db, Given, Held)
    BY <1>2 DEF RunFacts
  <2> QED
    BY <1>3, <1>4, <1>6, <2>1, <2>2, FinishAgentKeeps
<1>8. run'.at = "idle" /\ DOMAIN run' = {"at", "session", "agent", "step", "prompt", "reply"}
  BY <1>1 DEF NoRun
<1>9. Given = runs /\ Given' = runs /\ Given \in Nat /\ Given' \in Nat /\ runs \in Nat
  BY <1>1, <1>2, <1>8 DEF RunFacts, Given
<1>10. Held' = Held
  BY <1>1, <1>8 DEF Held
<1>11. RunFits'
  BY <1>8 DEF RunFits, RunPlaces
<1>12. TitleFits' /\ LostFits'
  <2>1. CASE title' = title
    <3>1. TitleFits'
      BY <1>1, <1>2, <1>8, <1>9, <2>1, TitleStays DEF StoreInv
    <3>2. LostFits'
      BY <1>1, <1>2, <1>8, <1>9, <2>1, LostStays DEF StoreInv
    <3> QED
      BY <3>1, <3>2
  <2>2. CASE title' = [at |-> "step", session |-> run.session, agent |-> run.agent,
                       step |-> None, prompt |-> run.prompt] /\ title.at = "idle"
    <3>1. /\ DOMAIN title' = {"at", "session", "agent", "step", "prompt"}
          /\ title'.at = "step" /\ title'.session = run.session /\ title'.agent = run.agent
      BY <2>2
    <3>2. run.session \in used' /\ AgentOf(run.agent, run.session, Given')
      BY <1>1, <1>2, <1>9 DEF RunFacts, StoreInv, UsedFits
    <3>3. TitleFits'
      BY <1>8, <3>1, <3>2 DEF TitleFits
    <3>4. LostFits'
      BY <1>1, <1>2, <1>8, <1>9, <2>2, <3>1, LostStays DEF StoreInv
    <3> QED
      BY <3>3, <3>4
  <2> QED
    BY <1>1, <2>1, <2>2
<1>13. UsedFits'
  BY <1>1, <1>2, <1>7 DEF StoreInv, UsedFits
<1>14. FileFits'
  BY <1>1, <1>2, <1>9, FileStays DEF StoreInv
<1>15. Sound(db', Given', Held') /\ daemon' \in {"up", "recovering"} /\ daemon' # "recovering"
  BY <1>1, <1>2, <1>7, <1>9, <1>10 DEF StoreInv
<1> QED
  BY <1>1, <1>2, <1>11, <1>12, <1>13, <1>14, <1>15 DEF StoreInv

LEMMA RunLoadKeeps ==
    ASSUME StoreInv, NEW s \in Sessions, NEW p, RunLoad(s, p), UNCHANGED transfers
    PROVE  StoreInv'
<1>1. /\ daemon = "up" /\ run.at = "idle" /\ Exists(db, s) /\ runs' = runs + 1
      /\ run' = [NoRun EXCEPT !.at = IF Pending(db, s) THEN "repair" ELSE "start",
                              !.session = s, !.prompt = p, !.agent = <<s, runs + 1>>]
      /\ UNCHANGED <<db, used, daemon, title, lost, file>>
  BY DEF RunLoad, Up, transfers
<1>2. /\ DOMAIN run' = {"at", "session", "agent", "step", "prompt", "reply"}
      /\ run'.at \in {"repair", "start"} /\ run'.session = s /\ run'.agent = <<s, runs + 1>>
  BY <1>1 DEF NoRun
<1>3. /\ Sound(db, Given, Held) /\ runs \in Nat
      /\ RunFits /\ TitleFits /\ LostFits /\ UsedFits /\ FileFits
  BY DEF StoreInv
<1>4. Given = runs /\ Given' = runs /\ Given \in Nat /\ Given' \in Nat /\ runs' \in Nat \ {0}
  BY <1>1, <1>2, <1>3 DEF Given
<1>5. Held' = Held
  BY <1>1, <1>2 DEF Held
<1>6. \A t : \A k \in 1 .. runs : <<t, k>> # <<s, runs + 1>>
  BY <1>3
<1>7. RunFits'
  <2>1. s \in Ids(db'.sessions)
    BY <1>1, ExistsById
  <2>2. \A c \in db'.calls : c.agent # run'.agent
    <3> SUFFICES ASSUME NEW c \in db.calls
                 PROVE  c.agent # <<s, runs + 1>>
      BY <1>1, <1>2
    <3>1. PICK k \in 1 .. runs : c.agent = <<c.session, k>>
      BY <1>3, <1>4 DEF Sound, Whole, Linked, CallsOK, CallNamed
    <3> QED
      BY <1>6, <3>1
  <2> QED
    BY <1>1, <1>2, <1>4, <2>1, <2>2 DEF RunFits, RunPlaces
<1>8. TitleFits'
  <2>1. title.at # "idle" => title.agent # run'.agent
    <3> SUFFICES ASSUME title.at # "idle"
                 PROVE  title.agent # run'.agent
      OBVIOUS
    <3>1. PICK k \in 1 .. runs : title.agent = <<title.session, k>>
      BY <1>3, <1>4 DEF TitleFits, AgentOf
    <3> QED
      BY <1>2, <1>6, <3>1
  <2> QED
    BY <1>1, <1>3, <1>4, <2>1, TitleStays
<1>9. LostFits'
  BY <1>1, <1>2, <1>3, <1>4, <1>6, LostStays
<1>10. UsedFits'
  BY <1>1, <1>3 DEF UsedFits
<1>11. FileFits'
  BY <1>1, <1>3, <1>4, FileStays
<1> QED
  BY <1>1, <1>3, <1>4, <1>5, <1>7, <1>8, <1>9, <1>10, <1>11 DEF StoreInv

-----------------------------------------------------------------------------
(* The steps of a title task. *)

TitleFacts ==
    /\ Sound(db, Given, Held) /\ Given \in Nat /\ Given <= runs /\ runs \in Nat
    /\ RunFits /\ TitleFits /\ LostFits /\ UsedFits /\ FileFits
    /\ title.session \in used /\ AgentOf(title.agent, title.session, Given)

LEMMA InTitleFacts == ASSUME StoreInv, title.at # "idle" PROVE TitleFacts
  BY GivenNumbers DEF StoreInv, TitleFits, TitleFacts, GivenIsNat

\* t is where the task goes from here.
TitleFollows(t) ==
    \/ t = NoTitle
    \/ /\ DOMAIN t = {"at", "session", "agent", "step", "prompt"}
       /\ t.at \in {"request", "mentor", "complete", "set"}
       /\ t.session = title.session /\ t.agent = title.agent
       /\ t.at # "set" => \E m \in Nat : t.step = Append(title.agent, m)

LEMMA TitleMoves ==
    ASSUME StoreInv, title.at # "idle", TitleOnly, UNCHANGED transfers,
           TitleFollows(title'), RunRows(db, db'), Ids(db'.sessions) = Ids(db.sessions),
           lost' = lost \/ (title' = NoTitle /\ title.at = "complete"
                            /\ lost' = lost \cup {StreamBlob(title.step)}),
           Sound(db', Given, Held')
    PROVE  StoreInv'
<1>1. UNCHANGED <<used, daemon, run, runs, file>>
  BY DEF TitleOnly, counters, transfers
<1>2. TitleFacts /\ daemon \in {"up", "recovering"} /\ daemon # "recovering"
  BY InTitleFacts DEF StoreInv
<1>3. RunFits'
  BY <1>1, <1>2, RunStays DEF TitleFacts
<1>4. Given' = Given
  BY <1>1 DEF Given
<1>5. title'.at # "idle" => title'.agent = title.agent
  BY DEF TitleFollows, NoTitle
<1>6. TitleFits'
  <2>1. CASE title' = NoTitle
    <3>1. DOMAIN title' = {"at", "session", "agent", "step", "prompt"} /\ title'.at = "idle"
      BY <2>1 DEF NoTitle
    <3> QED
      BY <3>1 DEF TitleFits
  <2>2. CASE title' # NoTitle
    <3>1. run.at # "idle" => title.agent # run.agent
      BY <1>2 DEF TitleFacts, TitleFits
    <3> QED
      BY <1>1, <1>2, <1>4, <2>2, <3>1 DEF TitleFollows, TitleFits, TitleFacts
  <2> QED
    BY <2>1, <2>2
<1>7. LostFits'
  <2>1. CASE lost' = lost
    BY <1>1, <1>2, <1>5, <2>1, LostStays DEF TitleFacts
  <2>2. CASE title' = NoTitle /\ title.at = "complete" /\ lost' = lost \cup {StreamBlob(title.step)}
    <3>1. title'.at = "idle"
      BY <2>2 DEF NoTitle
    <3> SUFFICES ASSUME NEW c \in lost'
                 PROVE  \E s \in used', k \in 1 .. runs', m \in Nat :
                            /\ c = StreamBlob(<<s, k, m>>)
                            /\ run'.at # "idle" => <<s, k>> # run'.agent
      BY <3>1 DEF LostFits
    <3>2. CASE c \in lost
      BY <1>1, <1>2, <3>2 DEF TitleFacts, LostFits
    <3>3. CASE c = StreamBlob(title.step)
      <4>1. PICK s \in used, k \in 1 .. Given, m \in Nat :
                title.agent = <<s, k>> /\ title.step = <<s, k, m>>
        BY <1>2, <2>2, TitlesStep DEF TitleFacts
      <4>2. run.at # "idle" => <<s, k>> # run.agent
        BY <1>2, <2>2, <4>1 DEF TitleFacts, TitleFits
      <4>3. k \in 1 .. runs'
        BY <1>1, <1>2 DEF TitleFacts
      <4> QED
        BY <1>1, <3>3, <4>1, <4>2, <4>3
    <3> QED
      BY <2>2, <3>2, <3>3
  <2> QED
    BY <2>1, <2>2
<1>8. UsedFits'
  BY <1>1, <1>2 DEF UsedFits, TitleFacts
<1>9. FileFits'
  BY <1>1, <1>2, <1>4, FileStays DEF TitleFacts
<1> QED
  BY <1>1, <1>2, <1>3, <1>4, <1>6, <1>7, <1>8, <1>9 DEF StoreInv, TitleFacts

LEMMA SameRunRows == ASSUME RunFits, NEW t, SameRun(db, t) PROVE RunRows(db, t)
  BY DEF RunFits, SameRun, RunRows, OpenIn

\* The next place of the task; its step stays.
LEMMA TitleToFollows ==
    ASSUME TitleFacts, title.at \in {"request", "mentor", "complete"},
           NEW where \in {"mentor", "complete", "set"}, TitleTo(where)
    PROVE  TitleFollows(title') /\ title'.at = where /\ title'.step = title.step
<1>1. title' = [title EXCEPT !.at = where]
  BY DEF TitleTo
<1>2. /\ DOMAIN title' = {"at", "session", "agent", "step", "prompt"}
      /\ title'.at = where /\ title'.session = title.session /\ title'.agent = title.agent
      /\ title'.step = title.step
  BY <1>1 DEF TitleFacts, TitleFits
<1> QED
  BY <1>2 DEF TitleFollows, TitleFacts, TitleFits

LEMMA TitleStepKeeps ==
    ASSUME StoreInv, TitleStep, UNCHANGED transfers
    PROVE  StoreInv'
<1>1. title.at = "step" /\ TitleOnly /\ UNCHANGED lost
  BY DEF TitleStep, TitleAt
<1>2. TitleFacts
  BY <1>1, InTitleFacts
<1>3. CASE AgentExists(db, title.agent)
  <2>1. /\ db' = StartStep(db, title.agent)
        /\ title' = [title EXCEPT !.at = "request", !.step = NextStep(db, title.agent)]
    BY <1>3 DEF TitleStep
  <2>2. title.agent \in Ids(db.agents)
    BY <1>3 DEF AgentExists, Ids
  <2>3. Sound(db', Given, Held) /\ SameRun(db, db')
    BY <1>2, <2>1, <2>2, StartStepKeeps DEF TitleFacts, SameRun
  <2>4. \E m \in Nat : NextStep(db, title.agent) = Append(title.agent, m)
    <3>1. PICK k \in 1 .. Given : title.agent = <<title.session, k>>
      BY <1>2 DEF TitleFacts, AgentOf
    <3>2. IsFiniteSet(db.steps)
      BY <1>2 DEF TitleFacts, Sound, Whole, Linked, StepsOK
    <3>3. PICK m \in Nat : NextStep(db, <<title.session, k>>) = <<title.session, k, m>>
      BY <3>2, NextStepNamed
    <3> QED
      BY <3>1, <3>3, AppendToPair
  <2>5. /\ DOMAIN title' = {"at", "session", "agent", "step", "prompt"}
        /\ title'.at = "request" /\ title'.session = title.session
        /\ title'.agent = title.agent /\ title'.step = NextStep(db, title.agent)
    BY <1>2, <2>1 DEF TitleFacts, TitleFits
  <2>6. TitleFollows(title')
    BY <2>4, <2>5 DEF TitleFollows
  <2>7. Held' = Held
    BY <1>1, <2>5 DEF Held, TitleOnly
  <2> QED
    BY <1>1, <1>2, <2>3, <2>6, <2>7, SameRunRows, TitleMoves DEF TitleFacts, SameRun
<1>4. CASE ~ AgentExists(db, title.agent)
  <2>1. title' = NoTitle /\ UNCHANGED db
    BY <1>4 DEF TitleStep
  <2>2. Held' = Held /\ SameRun(db, db') /\ TitleFollows(title')
    BY <1>1, <2>1 DEF Held, TitleOnly, NoTitle, SameRun, TitleFollows
  <2> QED
    BY <1>1, <1>2, <2>1, <2>2, SameRunRows, TitleMoves DEF TitleFacts
<1> QED
  BY <1>3, <1>4

\* The open calls in t are such in d, by their ids.
OpenFrom(d, t) ==
    \A c \in t.calls : OpenIn(t, c) =>
        \E b \in d.calls : OpenIn(d, b) /\ b.id = c.id /\ b.agent = c.agent

LEMMA OpenFromRows ==
    ASSUME RunFits, NEW t, t.sessions = db.sessions, t.agents = db.agents, OpenFrom(db, t)
    PROVE  RunRows(db, t)
  BY DEF RunFits, RunRows, OpenFrom

LEMMA TitleRequestKeeps ==
    ASSUME StoreInv, TitleRequest, UNCHANGED transfers
    PROVE  StoreInv'
<1>1. title.at = "request" /\ TitleOnly /\ UNCHANGED lost
  BY DEF TitleRequest, TitleAt
<1>2. TitleFacts
  BY <1>1, InTitleFacts
<1>3. CASE Exists(db, title.session)
  <2> DEFINE s == title.session
             kind == "title"
             body == TitleBlob(title.prompt)
             n == Given
             held == Held
  <2>1. db' = RecordRequest(db, s, title.agent, title.step, kind, body, 1) /\ TitleTo("mentor")
    BY <1>3 DEF TitleRequest
  <2>2. PICK k \in 1 .. n, m \in Nat : title.agent = <<s, k>> /\ title.step = <<s, k, m>>
    BY <1>1, <1>2, TitlesStep DEF TitleFacts
  <2>3. Sound(db, n, held) /\ s \in Ids(db.sessions) /\ kind \in {"step", "title"} /\ kind # "step"
    BY <1>2, <1>3, ExistsById DEF TitleFacts
  <2> DEFINE t == RecordRequest(db, s, <<s, k>>, <<s, k, m>>, kind, body, 1)
  <2>4. db' = t
    BY <2>1, <2>2
  <2> HIDE DEF s, kind, body, n, held
  <2>5. /\ Sound(t, n, held) /\ t.sessions = db.sessions /\ t.agents = db.agents
        /\ \A c \in t.calls : OpenIn(t, c) => OpenIn(db, c)
    BY <2>2, <2>3, RecordRequestKeeps
  <2> HIDE DEF t
  <2>6. TitleFollows(title') /\ title'.at = "mentor"
    BY <1>1, <1>2, <2>1, TitleToFollows
  <2>7. Held' = Held
    BY <1>1, <2>6 DEF Held, TitleOnly
  <2>8. RunRows(db, db')
    <3>1. OpenFrom(db, db')
      BY <2>4, <2>5 DEF OpenFrom, OpenIn
    <3> QED
      BY <1>2, <2>4, <2>5, <3>1, OpenFromRows DEF TitleFacts
  <2> QED
    BY <1>1, <2>4, <2>5, <2>6, <2>7, <2>8, TitleMoves DEF n, held
<1>4. CASE ~ Exists(db, title.session)
  <2>1. title' = NoTitle /\ UNCHANGED db
    BY <1>4 DEF TitleRequest
  <2>2. Held' = Held /\ SameRun(db, db') /\ TitleFollows(title')
    BY <1>1, <2>1 DEF Held, TitleOnly, NoTitle, SameRun, TitleFollows
  <2> QED
    BY <1>1, <1>2, <2>1, <2>2, SameRunRows, TitleMoves DEF TitleFacts
<1> QED
  BY <1>3, <1>4

LEMMA TitleFailKeeps ==
    ASSUME StoreInv, TitleFail, UNCHANGED transfers
    PROVE  StoreInv'
<1>1. title.at = "mentor" /\ TitleOnly /\ UNCHANGED lost /\ title' = NoTitle
  BY DEF TitleFail, TitleAt
<1>2. TitleFacts
  BY <1>1, InTitleFacts
<1>3. Held' = Held /\ TitleFollows(title')
  BY <1>1 DEF Held, TitleOnly, NoTitle, TitleFollows
<1>4. CASE Exists(db, title.session) /\ CallExists(title.step)
  <2> DEFINE s == title.session
             n == Given
             held == Held
  <2>1. db' = FinishStep(RecordError(db, s, title.agent, title.step), title.step, "error")
    BY <1>4 DEF TitleFail
  <2>2. PICK k \in 1 .. n, m \in Nat : title.agent = <<s, k>> /\ title.step = <<s, k, m>>
    BY <1>1, <1>2, TitlesStep DEF TitleFacts
  <2>3. Sound(db, n, held) /\ s \in Ids(db.sessions)
    BY <1>2, <1>4, ExistsById DEF TitleFacts
  <2> DEFINE t == RecordError(db, s, <<s, k>>, <<s, k, m>>)
  <2>4. db' = FinishStep(t, title.step, "error") /\ "error" \in Ended
    BY <2>1, <2>2 DEF Ended
  <2> HIDE DEF s, n, held
  <2>5. /\ Sound(t, n, held) /\ t.sessions = db.sessions /\ t.agents = db.agents
        /\ \A c \in t.calls : OpenIn(t, c) =>
              \E b \in db.calls : OpenIn(db, b) /\ b.id = c.id /\ b.agent = c.agent
                                  /\ b.id # <<s, k, m>>
    BY <2>2, <2>3, RecordErrorKeeps
  <2> HIDE DEF t
  <2>6. /\ Sound(db', n, held) /\ db'.sessions = t.sessions
        /\ db'.agents = t.agents /\ db'.calls = t.calls
    BY <2>4, <2>5, FinishStepKeeps
  <2>7. OpenFrom(db, db')
    BY <2>5, <2>6 DEF OpenFrom, OpenIn
  <2>8. RunRows(db, db')
    BY <1>2, <2>5, <2>6, <2>7, OpenFromRows DEF TitleFacts
  <2> QED
    BY <1>1, <1>3, <2>5, <2>6, <2>8, TitleMoves DEF n, held
<1>5. CASE ~ (Exists(db, title.session) /\ CallExists(title.step))
  <2>1. UNCHANGED db /\ SameRun(db, db')
    BY <1>5 DEF TitleFail, SameRun
  <2> QED
    BY <1>1, <1>2, <1>3, <2>1, SameRunRows, TitleMoves DEF TitleFacts
<1> QED
  BY <1>4, <1>5

LEMMA TitleReplyKeeps ==
    ASSUME StoreInv, TitleReply, UNCHANGED transfers
    PROVE  StoreInv'
<1> DEFINE b == StreamBlob(title.step)
<1>1. /\ title.at = "mentor" /\ TitleOnly /\ UNCHANGED lost
      /\ db' = PutBlob(db, b) /\ TitleTo("complete")
  BY DEF TitleReply, TitleAt
<1>2. TitleFacts
  BY <1>1, InTitleFacts
<1>3. TitleFollows(title') /\ title'.at = "complete" /\ title'.step = title.step
  BY <1>1, <1>2, TitleToFollows
<1>4. b # None /\ b \notin Held
  <2>1. b \notin lost /\ (run.at = "complete" => b # StreamBlob(run.step))
    BY <1>1, TitlesStream
  <2> QED
    BY <1>1, <2>1 DEF Held, StreamBlob, None
<1>5. Held' = Held \cup {b}
  BY <1>1, <1>3 DEF Held, TitleOnly
<1> HIDE DEF b
<1>6. Sound(db', Given, Held') /\ SameRun(db, db')
  BY <1>1, <1>2, <1>4, <1>5, PutBlobKeeps DEF TitleFacts, SameRun
<1> QED
  BY <1>1, <1>2, <1>3, <1>6, SameRunRows, TitleMoves DEF TitleFacts, SameRun

LEMMA TitleCompleteKeeps ==
    ASSUME StoreInv, TitleComplete, UNCHANGED transfers
    PROVE  StoreInv'
<1> DEFINE stream == StreamBlob(title.step)
<1>1. title.at = "complete" /\ TitleOnly
  BY DEF TitleComplete, TitleAt
<1>2. TitleFacts
  BY <1>1, InTitleFacts
<1>3. stream \notin lost /\ (run.at = "complete" => stream # StreamBlob(run.step))
  BY <1>1, TitlesStream
<1>4. CASE Exists(db, title.session) /\ CallExists(title.step)
  <2> DEFINE s == title.session
             n == Given
             held == Held
             reply == Answer
  <2>1. /\ db' = FinishStep(RecordResponse(db, s, title.agent, title.step, reply), title.step, "ok")
        /\ TitleTo("set") \/ title' = NoTitle
        /\ UNCHANGED lost
    BY <1>4 DEF TitleComplete
  <2>2. PICK k \in 1 .. n, m \in Nat : title.agent = <<s, k>> /\ title.step = <<s, k, m>>
    BY <1>1, <1>2, TitlesStep DEF TitleFacts
  <2>3. /\ Sound(db, n, held) /\ s \in Ids(db.sessions)
        /\ StreamBlob(<<s, k, m>>) \in held
    BY <1>1, <1>2, <1>4, <2>2, ExistsById DEF TitleFacts, Held
  <2> DEFINE t == RecordResponse(db, s, <<s, k>>, <<s, k, m>>, reply)
  <2>4. db' = FinishStep(t, title.step, "ok") /\ "ok" \in Ended
    BY <2>1, <2>2 DEF Ended
  <2> HIDE DEF s, n, held, reply
  <2>5. /\ Sound(t, n, held \ {StreamBlob(<<s, k, m>>)})
        /\ t.sessions = db.sessions /\ t.agents = db.agents
        /\ \A c \in t.calls : OpenIn(t, c) =>
              \E b \in db.calls : OpenIn(db, b) /\ b.id = c.id /\ b.agent = c.agent
                                  /\ b.id # <<s, k, m>>
    BY <2>2, <2>3, RecordResponseKeeps, SMTT(60)
  <2> HIDE DEF t
  <2>6. /\ Sound(db', n, held \ {stream}) /\ db'.sessions = t.sessions
        /\ db'.agents = t.agents /\ db'.calls = t.calls
    BY <2>2, <2>4, <2>5, FinishStepKeeps
  <2>7. OpenFrom(db, db')
    BY <2>5, <2>6 DEF OpenFrom, OpenIn
  <2>8. RunRows(db, db')
    BY <1>2, <2>5, <2>6, <2>7, OpenFromRows DEF TitleFacts
  <2>9. TitleFollows(title') /\ title'.at # "complete"
    <3>1. CASE TitleTo("set")
      BY <1>1, <1>2, <3>1, TitleToFollows
    <3>2. CASE title' = NoTitle
      BY <3>2 DEF TitleFollows, NoTitle
    <3> QED
      BY <2>1, <3>1, <3>2
  <2>10. Held' = held \ {stream}
    BY <1>1, <1>3, <2>1, <2>9 DEF Held, TitleOnly, held
  <2> QED
    BY <1>1, <2>1, <2>5, <2>6, <2>8, <2>9, <2>10, TitleMoves DEF n
<1>5. CASE ~ (Exists(db, title.session) /\ CallExists(title.step))
  <2>1. lost' = lost \cup {stream} /\ title' = NoTitle /\ UNCHANGED db
    BY <1>5 DEF TitleComplete
  <2>2. Held' = Held /\ SameRun(db, db') /\ TitleFollows(title')
    BY <1>1, <2>1 DEF Held, TitleOnly, NoTitle, SameRun, TitleFollows
  <2> QED
    BY <1>1, <1>2, <2>1, <2>2, SameRunRows, TitleMoves DEF TitleFacts
<1> QED
  BY <1>4, <1>5

LEMMA TitleSetKeeps ==
    ASSUME StoreInv, TitleSet, UNCHANGED transfers
    PROVE  StoreInv'
<1> DEFINE d == SetTitle(db, title.session, "generated")
           e == Event("session.title", title.agent)
<1>1. title.at = "set" /\ TitleOnly /\ UNCHANGED lost /\ title' = NoTitle
  BY DEF TitleSet, TitleAt
<1>2. TitleFacts
  BY <1>1, InTitleFacts
<1>3. Held' = Held /\ TitleFollows(title')
  BY <1>1 DEF Held, TitleOnly, NoTitle, TitleFollows
<1>4. (db' = InsertEvent(d, title.session, e) /\ Exists(db, title.session)) \/ db' = db
  BY DEF TitleSet
<1>5. e.agent = title.agent /\ e.raw = None /\ e.kind # "agent.finished"
  BY DEF Event
<1>6. /\ Sound(d, Given, Held) /\ Ids(d.sessions) = Ids(db.sessions)
      /\ d.agents = db.agents /\ d.calls = db.calls
  BY <1>2, SetTitleKeeps DEF TitleFacts
<1> HIDE DEF d, e
<1>7. Sound(db', Given, Held) /\ SameRun(db, db')
  <2>1. CASE db' = InsertEvent(d, title.session, e) /\ Exists(db, title.session)
    <3>1. title.session \in Ids(d.sessions)
      BY <1>6, <2>1, ExistsById
    <3>2. AgentOf(title.agent, title.session, Given)
      BY <1>2 DEF TitleFacts
    <3> QED
      BY <1>5, <1>6, <2>1, <3>1, <3>2, InsertAdds DEF SameRun
  <2>2. CASE db' = db
    BY <1>2, <2>2 DEF TitleFacts, SameRun
  <2> QED
    BY <1>4, <2>1, <2>2
<1> QED
  BY <1>1, <1>2, <1>3, <1>7, SameRunRows, TitleMoves DEF TitleFacts, SameRun

-----------------------------------------------------------------------------
(* The session requests, and a restart. *)

LEMMA RowsMove ==
    ASSUME StoreInv, UNCHANGED <<daemon, run, title, lost, runs, file>>, used \subseteq used',
           RunRows(db, db'), UsedFits', Sound(db', Given, Held)
    PROVE  StoreInv'
<1>1. /\ runs \in Nat /\ daemon \in {"up", "recovering"}
      /\ daemon = "recovering" => run.at = "idle" /\ title.at = "idle"
      /\ RunFits /\ TitleFits /\ LostFits /\ FileFits
  BY DEF StoreInv
<1>2. Given' = Given /\ Held' = Held /\ Given \in Nat
  BY <1>1, GivenNumbers DEF Given, Held, GivenIsNat
<1>3. RunFits'
  BY <1>1, RunStays
<1>4. TitleFits'
  BY <1>1, <1>2, TitleStays DEF TitleFits
<1>5. LostFits'
  BY <1>1, LostStays
<1>6. FileFits'
  BY <1>1, <1>2, FileStays
<1> QED
  BY <1>1, <1>2, <1>3, <1>4, <1>5, <1>6 DEF StoreInv

\* The same sessions, agents and calls.
LEMMA RequestMoves ==
    ASSUME StoreInv, Asked, UNCHANGED used, UNCHANGED transfers, SameRun(db, db'), Sound(db', Given, Held)
    PROVE  StoreInv'
<1>1. UNCHANGED <<used, daemon, run, title, lost, runs, file>>
  BY DEF Asked, transfers
<1>2. RunRows(db, db')
  BY SameRunRows DEF StoreInv
<1>3. UsedFits'
  BY <1>1 DEF StoreInv, UsedFits, SameRun
<1> QED
  BY <1>1, <1>2, <1>3, RowsMove

LEMMA CreateKeepsInv ==
    ASSUME StoreInv, Create, UNCHANGED transfers
    PROVE  StoreInv'
<1> DEFINE s == CHOOSE s \in Sessions : TRUE
<1>1. /\ used = {} /\ db' = CreateSession(db, s) /\ used' = {s}
      /\ UNCHANGED <<daemon, run, title, lost, runs, file>>
  BY DEF Create, counters, transfers
<1>2. s \in Sessions
  BY SessionsAssumption
<1> HIDE DEF s
<1>3. /\ Sound(db, Given, Held) /\ RunFits /\ Ids(db.sessions) = {}
  BY <1>1 DEF StoreInv, UsedFits
<1>4. /\ Sound(db', Given, Held) /\ Ids(db'.sessions) = {s}
  BY <1>1, <1>2, <1>3, CreateKeeps
<1>5. RunRows(db, db')
  BY <1>3 DEF RunFits, RunRows
<1>6. UsedFits'
  BY <1>1, <1>2, <1>4 DEF UsedFits
<1>7. used \subseteq used'
  BY <1>1
<1> QED
  BY <1>1, <1>4, <1>5, <1>6, <1>7, RowsMove

LEMMA RenameKeeps ==
    ASSUME StoreInv, NEW s, Rename(s), UNCHANGED transfers
    PROVE  StoreInv'
<1> DEFINE d == SetTitle(db, s, "user")
           e == Event("session.title", None)
<1>1. Asked /\ UNCHANGED used /\ Exists(db, s) /\ db' = InsertEvent(d, s, e)
  BY DEF Rename
<1>2. Sound(db, Given, Held)
  BY DEF StoreInv
<1>3. /\ Sound(d, Given, Held) /\ Ids(d.sessions) = Ids(db.sessions)
      /\ d.agents = db.agents /\ d.calls = db.calls
  BY <1>2, SetTitleKeeps
<1>4. e.agent = None /\ e.raw = None /\ e.kind # "agent.finished"
  BY DEF Event
<1> HIDE DEF d, e
<1>5. s \in Ids(d.sessions)
  BY <1>1, <1>3, ExistsById
<1>6. Sound(db', Given, Held) /\ SameRun(db, db')
  BY <1>1, <1>3, <1>4, <1>5, InsertAdds DEF SameRun
<1> QED
  BY <1>1, <1>6, RequestMoves

LEMMA ArchiveKeeps ==
    ASSUME StoreInv, NEW s, NEW status \in {"open", "archived"}, Archive(s, status),
           UNCHANGED transfers
    PROVE  StoreInv'
<1>1. Asked /\ UNCHANGED used /\ Exists(db, s) /\ db' = SetStatus(db, s, status)
  BY DEF Archive
<1>2. Sound(db, Given, Held) /\ s \in Ids(db.sessions)
  BY <1>1, ExistsById DEF StoreInv
<1>3. Sound(db', Given, Held) /\ SameRun(db, db')
  BY <1>1, <1>2, SetStatusKeeps DEF SameRun
<1> QED
  BY <1>1, <1>3, RequestMoves

LEMMA DeleteKeeps ==
    ASSUME StoreInv, NEW s, Delete(s), UNCHANGED transfers
    PROVE  StoreInv'
<1>1. /\ Asked /\ UNCHANGED used /\ Exists(db, s) /\ Idle(s)
      /\ db' = DeleteSession(db, s) \/ db' = PurgeSession(db, s)
  BY DEF Delete
<1>2. Sound(db, Given, Held) /\ s \in Ids(db.sessions) /\ RunFits /\ UsedFits
  BY <1>1, ExistsById DEF StoreInv
<1>3. CASE db' = DeleteSession(db, s)
  <2> DEFINE d == Truncate(db, s, 0)
  <2>1. Sound(d, Given, Held) /\ MessagesOnly(db, d)
    BY <1>2, TruncateKeeps
  <2>2. db' = SetStatus(d, s, "deleted")
    BY <1>3 DEF DeleteSession
  <2> HIDE DEF d
  <2>3. s \in Ids(d.sessions)
    BY <1>2, <2>1 DEF MessagesOnly
  <2>4. Sound(db', Given, Held) /\ SameRun(d, db')
    BY <2>1, <2>2, <2>3, SetStatusKeeps DEF SameRun
  <2>5. SameRun(db, db')
    BY <2>1, <2>4 DEF SameRun, MessagesOnly
  <2> QED
    BY <1>1, <2>4, <2>5, RequestMoves
<1>4. CASE db' = PurgeSession(db, s)
  <2>1. /\ Sound(db', Given, Held)
        /\ db'.sessions = {r \in db.sessions : r.id # s}
        /\ db'.agents = {r \in db.agents : r.session # s}
        /\ db'.calls = {r \in db.calls : r.session # s}
    BY <1>2, <1>4, PurgeKeeps
  <2>2. RunRows(db, db')
    <3> SUFFICES ASSUME run.at # "idle"
                 PROVE  /\ run.session \in Ids(db'.sessions)
                        /\ \A a \in db.agents : a.id = run.agent /\ a.status = "running" =>
                               \E b \in db'.agents : b.id = run.agent /\ b.status = "running"
                        /\ \A c \in db'.calls : c.agent = run.agent /\ OpenIn(db', c) =>
                               \E b \in db.calls : OpenIn(db, b) /\ b.id = c.id /\ b.agent = c.agent
      BY DEF RunRows
    <3>1. run.session # s /\ run.session \in Ids(db'.sessions)
      BY <1>1, <1>2, <2>1 DEF Idle, RunFits, Ids
    <3>2. ASSUME NEW a \in db.agents, a.id = run.agent
          PROVE  a \in db'.agents
      <4>1. AgentOf(a.id, a.session, Given)
        BY <1>2 DEF Sound, Whole, Linked, AgentsOK
      <4>2. AgentOf(run.agent, run.session, runs)
        BY <1>2 DEF RunFits, AgentOf
      <4>3. a.session = run.session
        BY <3>2, <4>1, <4>2, AgentsSession
      <4> QED
        BY <2>1, <3>1, <4>3
    <3>3. \A c \in db'.calls : OpenIn(db', c) => OpenIn(db, c)
      BY <2>1 DEF OpenIn
    <3> QED
      BY <3>1, <3>2, <3>3 DEF OpenIn
  <2>3. UNCHANGED <<daemon, run, title, lost, runs, file>>
    BY <1>1 DEF Asked, transfers
  <2>4. UsedFits'
    BY <1>1, <1>2, <2>1 DEF UsedFits, Ids
  <2> QED
    BY <1>1, <2>1, <2>2, <2>3, <2>4, RowsMove
<1> QED
  BY <1>1, <1>3, <1>4

LEMMA CrashKeeps ==
    ASSUME StoreInv, Crash, UNCHANGED transfers
    PROVE  StoreInv'
<1>1. /\ daemon' = "recovering" /\ run' = NoRun /\ title' = NoTitle /\ lost' = Held
      /\ UNCHANGED <<db, used, runs, file>>
  BY DEF Crash, Held, transfers
<1>2. /\ DOMAIN run' = {"at", "session", "agent", "step", "prompt", "reply"} /\ run'.at = "idle"
      /\ DOMAIN title' = {"at", "session", "agent", "step", "prompt"} /\ title'.at = "idle"
  BY <1>1 DEF NoRun, NoTitle
<1>3. /\ Sound(db, Given, Held) /\ runs \in Nat
      /\ RunFits /\ TitleFits /\ LostFits /\ UsedFits /\ FileFits
  BY DEF StoreInv
<1>4. Given \in Nat /\ Given <= runs /\ Given' = runs
  BY <1>1, <1>2, <1>3, GivenNumbers DEF Given, GivenIsNat
<1>5. Held' = Held
  BY <1>1, <1>2 DEF Held
<1>6. Sound(db', Given', Held')
  BY <1>1, <1>3, <1>4, <1>5, SoundWithMore
<1>7. RunFits' /\ TitleFits'
  BY <1>2 DEF RunFits, TitleFits, RunPlaces
<1>8. LostFits'
  <2> SUFFICES ASSUME NEW c \in Held
               PROVE  \E s \in used, k \in 1 .. runs, m \in Nat : c = StreamBlob(<<s, k, m>>)
    BY <1>1, <1>2 DEF LostFits
  <2>1. CASE c \in lost
    BY <1>3, <2>1 DEF LostFits
  <2>2. CASE run.at = "complete" /\ c = StreamBlob(run.step)
    <3>1. RunFacts /\ run.at \in InRun
      BY <2>2, InRunFacts DEF InRun
    <3>2. PICK m \in Nat : run.step = <<run.session, runs, m>>
      BY <3>1 DEF RunFacts
    <3>3. run.session \in used /\ runs \in 1 .. runs
      BY <1>3, <3>1 DEF RunFacts, UsedFits
    <3> QED
      BY <2>2, <3>2, <3>3
  <2>3. CASE title.at = "complete" /\ c = StreamBlob(title.step)
    <3>1. PICK s \in used, k \in 1 .. Given, m \in Nat : title.step = <<s, k, m>>
      BY <1>3, <1>4, <2>3, TitlesStep
    <3>2. k \in 1 .. runs
      BY <1>3, <1>4
    <3> QED
      BY <2>3, <3>1, <3>2
  <2> QED
    BY <2>1, <2>2, <2>3 DEF Held
<1>9. UsedFits' /\ FileFits'
  BY <1>1, <1>3, <1>4, FileStays DEF UsedFits
<1> QED
  BY <1>1, <1>2, <1>3, <1>6, <1>7, <1>8, <1>9 DEF StoreInv

LEMMA RecoverKeeps ==
    ASSUME StoreInv, NEW a \in Orphans, Recover(a), UNCHANGED transfers
    PROVE  StoreInv'
<1>1. /\ daemon = "recovering" /\ db' = RecoverAgent(db, a)
      /\ UNCHANGED <<used, daemon, run, title, lost, runs, file>>
  BY DEF Recover, counters, transfers
<1>2. Sound(db, Given, Held) /\ UsedFits /\ run.at = "idle"
  BY <1>1 DEF StoreInv
<1>3. PICK row \in db.agents : row.id = a /\ row.status = "running"
  BY DEF Orphans
<1>4. Sound(db', Given, Held) /\ db'.sessions = db.sessions
  BY <1>1, <1>2, <1>3, RecoverAgentKeeps
<1>5. RunRows(db, db') /\ UsedFits'
  BY <1>1, <1>2, <1>4 DEF RunRows, UsedFits
<1> QED
  BY <1>1, <1>4, <1>5, RowsMove

LEMMA ServeKeeps ==
    ASSUME StoreInv, Serve, UNCHANGED transfers
    PROVE  StoreInv'
<1>1. /\ daemon' = "up" /\ UNCHANGED <<db, used, run, title, lost, runs, file>>
  BY DEF Serve, counters, transfers
<1>2. /\ Given' = Given /\ Held' = Held /\ RunFits' = RunFits /\ TitleFits' = TitleFits
      /\ LostFits' = LostFits /\ UsedFits' = UsedFits /\ FileFits' = FileFits
  BY <1>1 DEF Given, Held, RunFits, TitleFits, LostFits, UsedFits, FileFits
<1> QED
  BY <1>1, <1>2 DEF StoreInv

-----------------------------------------------------------------------------
(* Exports and imports. *)

LEMMA FileMoves ==
    ASSUME StoreInv, UNCHANGED <<db, used>>, StoreOnly, FileFits'
    PROVE  StoreInv'
<1>1. UNCHANGED <<db, used, daemon, run, title, lost, runs>>
  BY DEF StoreOnly, counters
<1>2. /\ Given' = Given /\ Held' = Held /\ RunFits' = RunFits /\ TitleFits' = TitleFits
      /\ LostFits' = LostFits /\ UsedFits' = UsedFits
  BY <1>1 DEF Given, Held, RunFits, TitleFits, LostFits, UsedFits
<1> QED
  BY <1>1, <1>2 DEF StoreInv

LEMMA ExportKeeps ==
    ASSUME StoreInv, NEW ss, NEW redact, Export(ss, redact)
    PROVE  StoreInv'
<1> DEFINE bundle == BundleRows(ss)
           hidden == RedactRows(bundle)
           rows   == IF redact THEN hidden ELSE bundle
<1>1. /\ ss \subseteq Ids(db.sessions) /\ UNCHANGED <<db, used>> /\ StoreOnly
      /\ file' = [kind |-> "bundle", redacted |-> redact, rows |-> rows]
  BY DEF Export
<1>2. Sound(db, Given, Held) /\ UsedFits
  BY DEF StoreInv
<1>3. /\ DOMAIN bundle = BundleFields /\ Tables(bundle, Given) /\ Ids(bundle.sessions) = ss
      /\ bundle.blobs = NamedIn(bundle.events)
  BY <1>1, <1>2, ExportedRows
<1> HIDE DEF bundle
<1>4. /\ DOMAIN hidden = BundleFields /\ Tables(hidden, Given) /\ Ids(hidden.sessions) = ss
      /\ hidden.blobs = NamedIn(hidden.events)
  BY <1>3, RedactedRows
<1> HIDE DEF hidden
<1>5. /\ DOMAIN rows = BundleFields /\ Tables(rows, Given) /\ Ids(rows.sessions) = ss
      /\ rows.blobs = NamedIn(rows.events)
  BY <1>3, <1>4
<1> HIDE DEF rows
<1>6. file'.kind = "bundle" /\ file'.rows = rows
  BY <1>1
<1>7. Given' = Given /\ Ids(rows.sessions) \subseteq used'
  BY <1>1, <1>2, <1>5 DEF Given, StoreOnly, counters, UsedFits
<1>8. FileFits'
  BY <1>5, <1>6, <1>7 DEF FileFits
<1> QED
  BY <1>1, <1>8, FileMoves

LEMMA ExportSessionKeeps ==
    ASSUME StoreInv, NEW s, ExportSession(s)
    PROVE  StoreInv'
<1> DEFINE row == SessionRow(db, s)
<1>1. /\ Exists(db, s) /\ UNCHANGED <<db, used>> /\ StoreOnly
      /\ file' = [kind |-> "session", row |-> row,
                  messages |-> In(db.messages, s), calls |-> In(db.calls, s)]
  BY DEF ExportSession
<1>2. row \in db.sessions /\ row.id = s
  BY <1>1 DEF Exists, SessionRow
<1> HIDE DEF row
<1>3. Linked(db, Given) /\ UsedFits
  BY DEF StoreInv, Sound, Whole
<1>4. /\ file'.kind = "session" /\ file'.row = row
      /\ file'.messages = In(db.messages, s) /\ file'.calls = In(db.calls, s)
  BY <1>1
<1>5. Given' = Given
  BY <1>1 DEF Given, StoreOnly, counters
<1>6. SessionsOK({row}) /\ row.id \in used'
  BY <1>1, <1>2, <1>3 DEF Linked, SessionsOK, UsedFits, Ids
<1>7. MessagesOK(In(db.messages, s), {row.id})
  <2>1. In(db.messages, s) \in SUBSET db.messages /\ MessagesOK(db.messages, Ids(db.sessions))
    BY <1>3 DEF In, Linked
  <2>2. IsFiniteSet(In(db.messages, s))
    BY <2>1, FS_Subset DEF MessagesOK
  <2> QED
    BY <1>2, <2>1, <2>2 DEF MessagesOK, In
<1>8. /\ IsFiniteSet(In(db.calls, s))
      /\ \A c \in In(db.calls, s) :
            /\ DOMAIN c = CallFields
            /\ c.session = row.id /\ CallNamed(c, Given) /\ c.status \in Statuses
  <2>1. In(db.calls, s) \in SUBSET db.calls
        /\ CallsOK(db.calls, db.events, Ids(db.sessions), Given)
    BY <1>3 DEF In, Linked
  <2>2. IsFiniteSet(In(db.calls, s))
    BY <2>1, FS_Subset DEF CallsOK
  <2> QED
    BY <1>2, <2>1, <2>2 DEF CallsOK, In
<1>9. FileFits'
  BY <1>4, <1>5, <1>6, <1>7, <1>8 DEF FileFits
<1> QED
  BY <1>1, <1>9, FileMoves

\* The ids an import gives: apart from each other and from any used before.
LEMMA FreshIdsApart ==
    ASSUME UsedFits, NEW ids, ids \subseteq used,
           NEW taken, taken = ids \cap Ids(db.sessions), CanRename(taken)
    PROVE  LET f == FreshIds(taken)
           IN  /\ Apart(f, ids)
               /\ \A s \in ids : SessionOf(f, s) \in Sessions /\ SessionOf(f, s) \notin Ids(db.sessions)
<1> DEFINE f == FreshIds(taken)
<1>1. f \in Injection(taken, Sessions \ used)
  BY DEF FreshIds, CanRename
<1>2. /\ DOMAIN f = taken /\ \A s \in taken : f[s] \in Sessions \ used
      /\ \A s, t \in taken : f[s] = f[t] => s = t
  <2> HIDE DEF f
  <2> QED
    BY <1>1 DEF Injection, IsInjective
<1> HIDE DEF f
<1>3. /\ \A s \in taken : SessionOf(f, s) = f[s]
      /\ \A s \in ids \ taken : SessionOf(f, s) = s
  BY <1>2 DEF SessionOf
<1>4. Ids(db.sessions) \subseteq used /\ used \subseteq Sessions
  BY DEF UsedFits
<1>5. Apart(f, ids)
  <2> SUFFICES ASSUME NEW s \in ids, NEW t \in ids, SessionOf(f, s) = SessionOf(f, t)
               PROVE  s = t
    BY DEF Apart
  <2>1. CASE s \in taken /\ t \in taken
    BY <1>2, <1>3, <2>1
  <2>2. CASE s \in taken /\ t \notin taken
    BY <1>2, <1>3, <2>2
  <2>3. CASE s \notin taken /\ t \in taken
    BY <1>2, <1>3, <2>3
  <2>4. CASE s \notin taken /\ t \notin taken
    BY <1>3, <2>4
  <2> QED
    BY <2>1, <2>2, <2>3, <2>4
<1>6. ASSUME NEW s \in ids
      PROVE  SessionOf(f, s) \in Sessions /\ SessionOf(f, s) \notin Ids(db.sessions)
  <2>1. CASE s \in taken
    BY <1>2, <1>3, <1>4, <2>1
  <2>2. CASE s \notin taken
    BY <1>3, <1>4, <2>2
  <2> QED
    BY <2>1, <2>2
<1> QED
  BY <1>5, <1>6 DEF f

LEMMA ImportBundleKeeps ==
    ASSUME StoreInv, ImportBundle
    PROVE  StoreInv'
<1> DEFINE ids   == Ids(file.rows.sessions)
           taken == ids \cap Ids(db.sessions)
           f     == FreshIds(taken)
           rows  == RenameRows(file.rows, f)
<1>1. /\ file.kind = "bundle" /\ CanRename(taken)
      /\ db' = [sessions |-> db.sessions \cup rows.sessions,
                agents   |-> db.agents \cup rows.agents,
                steps    |-> db.steps \cup rows.steps,
                events   |-> db.events \cup rows.events,
                calls    |-> db.calls \cup rows.calls,
                messages |-> db.messages \cup rows.messages,
                refs     |-> CountBlobs(db.refs, rows)]
      /\ used' = used \cup Ids(rows.sessions)
      /\ UNCHANGED <<file, daemon, run, title, lost, runs>>
  BY DEF ImportBundle, StoreOnly, counters
<1>2. /\ Sound(db, Given, Held) /\ RunFits /\ UsedFits /\ FileFits
  BY DEF StoreInv
<1>3. /\ DOMAIN file.rows = BundleFields /\ Tables(file.rows, Given)
      /\ ids \subseteq used /\ file.rows.blobs = NamedIn(file.rows.events)
  BY <1>1, <1>2 DEF FileFits
<1> HIDE DEF taken, ids
<1>4. /\ Apart(f, ids)
      /\ \A s \in ids : SessionOf(f, s) \in Sessions /\ SessionOf(f, s) \notin Ids(db.sessions)
  BY <1>1, <1>2, <1>3, FreshIdsApart DEF taken
<1> HIDE DEF f
<1>5. /\ Tables(rows, Given) /\ rows.blobs = NamedIn(rows.events)
      /\ Ids(rows.sessions) = {SessionOf(f, s) : s \in ids}
  BY <1>3, <1>4, RenamedRows DEF ids
<1> HIDE DEF rows
<1>6. Ids(db.sessions) \cap Ids(rows.sessions) = {} /\ Ids(rows.sessions) \subseteq Sessions
  BY <1>4, <1>5
<1>7. /\ DOMAIN db' = DbFields /\ Joined(db, rows, db') /\ db'.refs = CountBlobs(db.refs, rows)
  BY <1>1 DEF DbFields, Joined
<1>8. Linked(db, Given) /\ Tables(db, Given) /\ Linked(rows, Given) /\ RefsOK(db.refs, db.events, Held)
  BY <1>2, <1>5 DEF Sound, Whole, Tables
<1>9. Linked(db', Given) /\ Ids(db'.sessions) = Ids(db.sessions) \cup Ids(rows.sessions)
  BY <1>6, <1>7, <1>8, JoinedLinked
<1>10. Closed(db')
  BY <1>5, <1>6, <1>7, <1>8, JoinedClosed
<1>11. RefsOK(db'.refs, db'.events, Held)
  <2>1. /\ EventsOK(db.events, Ids(db.sessions), Given)
        /\ EventsOK(rows.events, Ids(rows.sessions), Given)
        /\ db'.events = db.events \cup rows.events
    BY <1>7, <1>8 DEF Linked, Joined
  <2>2. /\ IsFiniteSet(db.events) /\ IsFiniteSet(rows.events)
    BY <2>1 DEF EventsOK
  <2>3. db.events \cap rows.events = {}
    BY <1>6, <2>1, JoinedEvents
  <2>4. RefsOK(CountBlobs(db.refs, rows), db.events \cup rows.events, Held)
    BY <1>5, <1>8, <2>2, <2>3, JoinedRefs
  <2> QED
    BY <1>7, <2>1, <2>4
<1>12. Sound(db', Given, Held)
  BY <1>7, <1>9, <1>10, <1>11 DEF Sound, Whole
<1>13. RunRows(db, db')
  <2> SUFFICES ASSUME run.at # "idle"
               PROVE  /\ run.session \in Ids(db'.sessions)
                      /\ \A a \in db.agents : a.id = run.agent /\ a.status = "running" =>
                             \E b \in db'.agents : b.id = run.agent /\ b.status = "running"
                      /\ \A c \in db'.calls : c.agent = run.agent /\ OpenIn(db', c) =>
                             \E b \in db.calls : OpenIn(db, b) /\ b.id = c.id /\ b.agent = c.agent
    BY DEF RunRows
  <2>1. run.session \in Ids(db.sessions) /\ AgentOf(run.agent, run.session, runs)
    BY <1>2 DEF RunFits, AgentOf
  <2>2. ASSUME NEW c \in rows.calls
        PROVE  c.agent # run.agent
    <3>1. c.session \in Ids(rows.sessions) /\ AgentOf(c.agent, c.session, Given)
      BY <1>8 DEF Linked, CallsOK, CallNamed, AgentOf
    <3> QED
      BY <1>6, <2>1, <3>1, AgentsSession
  <2> QED
    BY <1>7, <1>9, <2>1, <2>2 DEF Joined, OpenIn
<1>14. UsedFits' /\ used \subseteq used'
  BY <1>1, <1>2, <1>6, <1>9 DEF UsedFits
<1> QED
  BY <1>1, <1>12, <1>13, <1>14, RowsMove

LEMMA SequenceOfSet ==
    ASSUME NEW S, IsFiniteSet(S)
    PROVE  \E n \in Nat : SetToSeq(S) \in [1 .. n -> S]
<1> DEFINE n == Cardinality(S)
<1>1. n \in Nat /\ ExistsBijection(1 .. n, S)
  BY FS_CardinalityType
<1> HIDE DEF n
<1>2. \E f \in [1 .. n -> S] : IsInjective(f)
  BY <1>1 DEF ExistsBijection, Bijection, Injection
<1>3. (CHOOSE f \in [1 .. n -> S] : IsInjective(f)) \in [1 .. n -> S]
  BY <1>2
<1> QED
  BY <1>1, <1>3 DEF SetToSeq, n

\* The request events an import adds for the calls cs of a session without events.
ImportedEvents(s, cs) ==
    {EventRow(s, i, Event("mentor.request", cs[i].agent)) : i \in DOMAIN cs}

LEMMA ImportedEventsOK ==
    ASSUME NEW s, NEW n, NEW l \in Nat, NEW cs, DOMAIN cs = 1 .. l,
           \A i \in 1 .. l : AgentOf(cs[i].agent, s, n)
    PROVE  /\ EventsOK(ImportedEvents(s, cs), {s}, n)
           /\ \A c : c # None => c \notin NamedIn(ImportedEvents(s, cs))
<1> DEFINE g  == [i \in 1 .. l |-> EventRow(s, i, Event("mentor.request", cs[i].agent))]
           es == ImportedEvents(s, cs)
<1>1. es = {g[i] : i \in 1 .. l}
  BY DEF ImportedEvents
<1>2. \A i \in 1 .. l : /\ DOMAIN g[i] = EventFields /\ g[i].id = <<s, i>> /\ g[i].session = s
                        /\ g[i].seq = i /\ g[i].agent = cs[i].agent
                        /\ g[i].body = None /\ g[i].raw = None
  BY DEF EventRow, Event, EventFields
<1>3. DOMAIN g = 1 .. l
  OBVIOUS
<1> HIDE DEF es, g
<1>4. IsFiniteSet(es)
  <2>1. IsFiniteSet(1 .. l)
    BY FS_Interval
  <2> QED
    BY <1>1, <1>3, <2>1, FiniteImage
<1>5. Counted(es, s)
  <2>1. {e.seq : e \in In(es, s)} = 1 .. l
    BY <1>1, <1>2 DEF In
  <2> QED
    BY <2>1 DEF Counted
<1>6. \A e \in es : /\ DOMAIN e = EventFields
                    /\ e.session \in {s} /\ e.id = <<e.session, e.seq>>
                    /\ e.agent = None \/ AgentOf(e.agent, e.session, n)
  BY <1>1, <1>2
<1>7. \A d, e \in es : d.id = e.id => d = e
  <2> SUFFICES ASSUME NEW i \in 1 .. l, NEW j \in 1 .. l, g[i].id = g[j].id
               PROVE  g[i] = g[j]
    BY <1>1
  <2>1. <<s, i>> = <<s, j>>
    BY <1>2
  <2> QED
    BY <2>1
<1>8. \A c : c # None => c \notin NamedIn(es)
  BY <1>1, <1>2 DEF NamedIn
<1>9. EventsOK(es, {s}, n)
  BY <1>4, <1>5, <1>6, <1>7 DEF EventsOK
<1> QED
  BY <1>8, <1>9 DEF es

ImportedCalls(s, cs) ==
    {[cs[i] EXCEPT !.request = <<s, i>>, !.response = None] : i \in DOMAIN cs}

LEMMA ImportedCallsOK ==
    ASSUME NEW s, NEW n, NEW l \in Nat, NEW cs, DOMAIN cs = 1 .. l,
           \A i \in 1 .. l : /\ DOMAIN cs[i] = CallFields /\ cs[i].session = s
                             /\ CallNamed(cs[i], n) /\ cs[i].status \in Statuses
    PROVE  CallsOK(ImportedCalls(s, cs), ImportedEvents(s, cs), {s}, n)
<1> DEFINE h  == [i \in 1 .. l |-> [cs[i] EXCEPT !.request = <<s, i>>, !.response = None]]
           es == ImportedEvents(s, cs)
<1>1. ImportedCalls(s, cs) = {h[i] : i \in 1 .. l}
  BY DEF ImportedCalls
<1>2. ASSUME NEW i \in 1 .. l
      PROVE  /\ DOMAIN h[i] = CallFields /\ h[i].session = s /\ h[i].id = cs[i].id
             /\ h[i].agent = cs[i].agent /\ h[i].status = cs[i].status
             /\ h[i].request = <<s, i>> /\ h[i].response = None
  <2>1. DOMAIN cs[i] = CallFields /\ cs[i].session = s
    OBVIOUS
  <2> QED
    BY <2>1 DEF CallFields
<1>3. DOMAIN h = 1 .. l
  OBVIOUS
<1>4. ASSUME NEW i \in 1 .. l
      PROVE  \E e \in es : /\ e.id = <<s, i>> /\ e.kind = "mentor.request" /\ e.session = s
                           /\ e.agent = cs[i].agent
  <2> DEFINE e == EventRow(s, i, Event("mentor.request", cs[i].agent))
  <2>1. e \in es
    BY DEF ImportedEvents
  <2>2. /\ e.id = <<s, i>> /\ e.kind = "mentor.request" /\ e.session = s
        /\ e.agent = cs[i].agent
    BY DEF EventRow, Event
  <2> HIDE DEF e, es
  <2> QED
    BY <2>1, <2>2
<1> HIDE DEF h, es
<1>5. IsFiniteSet(ImportedCalls(s, cs))
  <2>1. IsFiniteSet(1 .. l)
    BY FS_Interval
  <2> QED
    BY <1>1, <1>3, <2>1, FiniteImage
<1>6. ASSUME NEW c \in ImportedCalls(s, cs)
      PROVE  /\ DOMAIN c = CallFields
             /\ c.session \in {s} /\ CallNamed(c, n) /\ c.status \in Statuses
             /\ \E e \in es : IsHome(e, c, c.request, "mentor.request")
             /\ c.response = None
  <2>1. PICK i \in 1 .. l : c = h[i]
    BY <1>1
  <2>2. CallNamed(cs[i], n) /\ cs[i].session = s /\ cs[i].status \in Statuses
    OBVIOUS
  <2>3. CallNamed(c, n)
    BY <1>2, <2>1, <2>2 DEF CallNamed
  <2>4. \E e \in es : IsHome(e, c, c.request, "mentor.request")
    <3>1. c.request = <<s, i>> /\ c.session = s /\ c.agent = cs[i].agent
      BY <1>2, <2>1
    <3>2. PICK e \in es : /\ e.id = <<s, i>> /\ e.kind = "mentor.request" /\ e.session = s
                          /\ e.agent = cs[i].agent
      BY <1>4
    <3>3. IsHome(e, c, c.request, "mentor.request")
      BY <3>1, <3>2 DEF IsHome
    <3> QED
      BY <3>3
  <2> QED
    BY <1>2, <2>1, <2>2, <2>3, <2>4
<1> QED
  BY <1>5, <1>6 DEF CallsOK, es

LEMMA ImportSessionKeeps ==
    ASSUME StoreInv, ImportSession
    PROVE  StoreInv'
<1> DEFINE s  == file.row.id
           cs == SetToSeq(file.calls)
           d  == [db EXCEPT !.sessions = @ \cup {file.row}, !.messages = @ \cup file.messages]
           es == ImportedEvents(s, cs)
           calls == ImportedCalls(s, cs)
           t  == [sessions |-> {file.row}, agents |-> {}, steps |-> {}, events |-> es,
                  calls |-> calls, messages |-> file.messages]
<1>1. /\ file.kind = "session" /\ s \notin Ids(db.sessions)
      /\ db' = ImportCalls(d, s, cs)
      /\ UNCHANGED <<used, file, daemon, run, title, lost, runs>>
  BY ExistsById DEF ImportSession, StoreOnly, counters
<1>2. /\ Sound(db, Given, Held) /\ RunFits /\ UsedFits /\ FileFits
  BY DEF StoreInv
<1>3. /\ SessionsOK({file.row}) /\ s \in used /\ MessagesOK(file.messages, {s})
      /\ IsFiniteSet(file.calls)
      /\ \A c \in file.calls :
            /\ DOMAIN c = CallFields
            /\ c.session = s /\ CallNamed(c, Given) /\ c.status \in Statuses
  BY <1>1, <1>2 DEF FileFits
<1>4. PICK l \in Nat : cs \in [1 .. l -> file.calls]
  BY <1>3, SequenceOfSet
<1> HIDE DEF cs
<1>5. DOMAIN cs = 1 .. l
      /\ \A i \in 1 .. l : /\ DOMAIN cs[i] = CallFields /\ cs[i].session = s
                           /\ CallNamed(cs[i], Given) /\ cs[i].status \in Statuses
                           /\ AgentOf(cs[i].agent, s, Given)
  BY <1>3, <1>4 DEF CallNamed, AgentOf
<1>6. DOMAIN db = DbFields /\ Linked(db, Given) /\ Closed(db) /\ RefsOK(db.refs, db.events, Held)
  BY <1>2 DEF Sound, Whole
<1>7. /\ DOMAIN d = DbFields /\ d.sessions = db.sessions \cup {file.row}
      /\ d.messages = db.messages \cup file.messages /\ d.events = db.events
      /\ d.calls = db.calls /\ d.agents = db.agents /\ d.steps = db.steps /\ d.refs = db.refs
  BY <1>6 DEF DbFields
<1> HIDE DEF d
<1>8. LastSeq(d, s) = 0
  <2>1. In(d.events, s) = {}
    BY <1>1, <1>6, <1>7 DEF In, Linked, EventsOK
  <2>2. {0} \cup {x.seq : x \in In(d.events, s)} = {0} \cup 1 .. 0
    BY <2>1
  <2> QED
    BY <2>2, MaxOfInterval DEF LastSeq
<1>9. /\ DOMAIN db' = DbFields /\ db'.sessions = d.sessions /\ db'.messages = d.messages
      /\ db'.agents = d.agents /\ db'.steps = d.steps /\ db'.refs = d.refs
      /\ db'.events = d.events \cup es /\ db'.calls = d.calls \cup calls
  <2> DEFINE seq(i) == LastSeq(d, s) + i
             es2 == {EventRow(s, seq(i), Event("mentor.request", cs[i].agent)) : i \in DOMAIN cs}
             calls2 == {[cs[i] EXCEPT !.request = <<s, seq(i)>>, !.response = None] : i \in DOMAIN cs}
  <2>1. \A i \in DOMAIN cs : seq(i) = i
    BY <1>5, <1>8
  <2>2. es2 = es /\ calls2 = calls
    BY <2>1 DEF ImportedEvents, ImportedCalls
  <2>3. db' = [d EXCEPT !.events = @ \cup es2, !.calls = @ \cup calls2]
    BY <1>1 DEF ImportCalls
  <2> HIDE DEF es2, calls2
  <2> QED
    BY <1>7, <2>2, <2>3 DEF DbFields
<1>10. /\ EventsOK(es, {s}, Given) /\ CallsOK(calls, es, {s}, Given)
       /\ \A c : c # None => c \notin NamedIn(es)
  BY <1>5, ImportedEventsOK, ImportedCallsOK
<1> HIDE DEF es, calls
<1>11. Tables(t, Given) /\ Ids(t.sessions) = {s}
  <2>1. Ids({file.row}) = {s}
    BY DEF Ids
  <2>2. AgentsOK({}, {s}, Given) /\ StepsOK({}, Ids({}))
    BY FS_EmptySet DEF AgentsOK, StepsOK
  <2>3. EndsOK({}, es) /\ OpenOK(calls, {})
    BY DEF EndsOK, OpenOK
  <2> QED
    BY <1>3, <1>10, <2>1, <2>2, <2>3 DEF Tables, Linked, Closed
<1>12. Joined(db, t, db')
  BY <1>7, <1>9 DEF Joined
<1>13. t.events = es /\ t.calls = calls
  OBVIOUS
<1> HIDE DEF t, s
<1>14. Tables(db, Given) /\ Linked(t, Given) /\ Ids(db.sessions) \cap Ids(t.sessions) = {}
  BY <1>1, <1>6, <1>11 DEF Tables
<1>15. Linked(db', Given) /\ Ids(db'.sessions) = Ids(db.sessions) \cup {s}
  BY <1>6, <1>11, <1>12, <1>14, JoinedLinked
<1>16. Closed(db')
  BY <1>11, <1>12, <1>14, JoinedClosed
<1>17. RefsOK(db'.refs, db'.events, Held)
  <2>1. EventsOK(db.events, Ids(db.sessions), Given) /\ EventsOK(es, Ids(t.sessions), Given)
    BY <1>6, <1>10, <1>11 DEF Linked
  <2>2. db.events \cap es = {}
    BY <1>14, <2>1, JoinedEvents
  <2>3. IsFiniteSet(db.events) /\ IsFiniteSet(es)
    BY <2>1 DEF EventsOK
  <2>4. db'.refs = db.refs /\ db'.events = db.events \cup es
    BY <1>7, <1>9
  <2>5. ASSUME NEW c, c # None
        PROVE  Names(db.events \cup es, c) = Names(db.events, c)
    <3>1. /\ Names(db.events, c) \in Nat
          /\ Names(db.events \cup es, c) = Names(db.events, c) + Names(es, c)
      BY <2>2, <2>3, NamesOfUnion
    <3>2. Names(es, c) = 0
      BY <1>10, <2>5, UnnamedIsZero
    <3> QED
      BY <3>1, <3>2
  <2>6. NamedIn(db.events \cup es) \subseteq NamedIn(db.events)
    BY <1>10 DEF NamedIn
  <2> QED
    BY <1>6, <2>4, <2>5, <2>6 DEF RefsOK
<1>18. Sound(db', Given, Held)
  BY <1>9, <1>15, <1>16, <1>17 DEF Sound, Whole
<1>19. RunRows(db, db')
  <2> SUFFICES ASSUME run.at # "idle"
               PROVE  /\ run.session \in Ids(db'.sessions)
                      /\ \A a \in db.agents : a.id = run.agent /\ a.status = "running" =>
                             \E b \in db'.agents : b.id = run.agent /\ b.status = "running"
                      /\ \A c \in db'.calls : c.agent = run.agent /\ OpenIn(db', c) =>
                             \E b \in db.calls : OpenIn(db, b) /\ b.id = c.id /\ b.agent = c.agent
    BY DEF RunRows
  <2>1. run.session \in Ids(db.sessions) /\ AgentOf(run.agent, run.session, runs)
    BY <1>2 DEF RunFits, AgentOf
  <2>2. ASSUME NEW c \in calls
        PROVE  c.agent # run.agent
    <3>1. c.session = s /\ AgentOf(c.agent, c.session, Given)
      BY <1>10 DEF CallsOK, CallNamed, AgentOf
    <3> QED
      BY <1>1, <2>1, <3>1, AgentsSession
  <2> QED
    BY <1>7, <1>9, <1>15, <2>1, <2>2 DEF OpenIn
<1>20. UsedFits' /\ used \subseteq used'
  BY <1>1, <1>2, <1>3, <1>15 DEF UsedFits, s
<1> QED
  BY <1>1, <1>18, <1>19, <1>20, RowsMove

-----------------------------------------------------------------------------
(* The whole. *)

\* Nothing is stored, and nobody writes.
LEMMA InitOK == Init => StoreInv
<1> SUFFICES ASSUME Init
             PROVE  StoreInv
  OBVIOUS
<1>1. /\ db.sessions = {} /\ db.agents = {} /\ db.steps = {} /\ db.calls = {}
      /\ db.events = {} /\ db.messages = {} /\ DOMAIN db.refs = {} /\ DOMAIN db = DbFields
  BY DEF Init, EmptyStore, DbFields
<1>2. IsFiniteSet({})
  BY FS_EmptySet
<1>3. Given = 0 /\ Held = {}
  BY DEF Init, Given, Held, NoRun, NoTitle
<1>4. Linked(db, Given)
  BY <1>1, <1>2 DEF Linked, SessionsOK, AgentsOK, StepsOK, EventsOK, CallsOK, MessagesOK, Ids
<1>5. Closed(db)
  BY <1>1 DEF Closed, EndsOK, OpenOK
<1>6. RefsOK(db.refs, db.events, Held)
  BY <1>1, <1>3 DEF RefsOK, NamedIn
<1>7. Sound(db, Given, Held)
  BY <1>1, <1>4, <1>5, <1>6 DEF Sound, Whole
<1>8. RunFits /\ TitleFits
  BY DEF Init, RunFits, TitleFits, NoRun, NoTitle, RunPlaces
<1>9. LostFits /\ UsedFits /\ FileFits
  BY <1>1 DEF Init, LostFits, UsedFits, FileFits, NoFile, Ids
<1>10. runs = 0 /\ daemon = "up"
  BY DEF Init
<1> QED
  BY <1>7, <1>8, <1>9, <1>10 DEF StoreInv

LEMMA StutterKeeps == ASSUME StoreInv, UNCHANGED vars PROVE StoreInv'
<1>1. UNCHANGED <<daemon, run, title, lost, runs, file, db, used>>
  BY DEF vars, counters, transfers
<1>2. Given' = Given /\ Held' = Held
  BY <1>1 DEF Given, Held
<1>3. RunFits' /\ TitleFits' /\ LostFits'
  BY <1>1, <1>2 DEF StoreInv, RunFits, TitleFits, LostFits
<1>4. UsedFits' /\ FileFits'
  BY <1>1, <1>2 DEF StoreInv, UsedFits, FileFits
<1> QED
  BY <1>1, <1>2, <1>3, <1>4 DEF StoreInv

LEMMA StepKeeps == StoreInv /\ [Next]_vars => StoreInv'
<1> SUFFICES ASSUME StoreInv, [Next]_vars
             PROVE  StoreInv'
  OBVIOUS
<1>1. CASE Runs /\ UNCHANGED transfers
  <2>1. ASSUME NEW s \in Sessions, NEW p \in Prompts, RunLoad(s, p)
        PROVE  StoreInv'
    BY <1>1, <2>1, RunLoadKeeps
  <2>2. ASSUME NEW r \in Replies, RunReply(r)
        PROVE  StoreInv'
    BY <1>1, <2>2, RunReplyKeeps
  <2>3. ASSUME RunRepair \/ RunStart \/ RunTurn \/ RunStep \/ RunRequest \/ RunFail
        PROVE  StoreInv'
    BY <1>1, <2>3, RunRepairKeeps, RunStartKeeps, RunTurnKeeps, RunStepKeeps,
       RunRequestKeeps, RunFailKeeps
  <2>4. ASSUME RunComplete \/ RunStore \/ RunResults \/ RunClose \/ RunFinish
        PROVE  StoreInv'
    BY <1>1, <2>4, RunCompleteKeeps, RunStoreKeeps, RunResultsKeeps, RunCloseKeeps,
       RunFinishKeeps
  <2> QED
    BY <1>1, <2>1, <2>2, <2>3, <2>4 DEF Runs
<1>2. CASE Titles /\ UNCHANGED transfers
  BY <1>2, TitleStepKeeps, TitleRequestKeeps, TitleFailKeeps, TitleReplyKeeps,
     TitleCompleteKeeps, TitleSetKeeps DEF Titles
<1>3. CASE Asks /\ UNCHANGED transfers
  <2>1. ASSUME NEW s \in Sessions, NEW status \in {"open", "archived"}, Archive(s, status)
        PROVE  StoreInv'
    BY <1>3, <2>1, ArchiveKeeps
  <2>2. ASSUME NEW s \in Sessions, Rename(s) \/ Delete(s)
        PROVE  StoreInv'
    BY <1>3, <2>2, RenameKeeps, DeleteKeeps
  <2> QED
    BY <1>3, <2>1, <2>2, CreateKeepsInv DEF Asks
<1>4. CASE Restarts /\ UNCHANGED transfers
  BY <1>4, CrashKeeps, RecoverKeeps, ServeKeeps DEF Restarts
<1>5. CASE Transfers
  BY <1>5, ExportKeeps, ExportSessionKeeps, ImportBundleKeeps, ImportSessionKeeps DEF Transfers
<1>6. CASE UNCHANGED vars
  BY <1>6, StutterKeeps
<1> QED
  BY <1>1, <1>2, <1>3, <1>4, <1>5, <1>6 DEF Next

\* The tables and whoever writes to them agree with each other at every
\* moment, for any number of sessions, runs, crashes and imports: this is
\* what the transactions of store.rs, sessions.rs and bundle.rs leave to
\* one another, a put whose event never came included.
THEOREM StoreIsSound == Spec => []StoreInv
<1>1. Init => StoreInv
  BY InitOK
<1>2. StoreInv /\ [Next]_vars => StoreInv'
  BY StepKeeps
<1> QED
  BY <1>1, <1>2, PTL DEF Spec

-----------------------------------------------------------------------------
(* TablesWhole follows. *)

LEMMA NamesIsNat ==
    ASSUME NEW es, IsFiniteSet(es), NEW c
    PROVE  Names(es, c) \in Nat
<1>1. IsFiniteSet({}) /\ es \cap {} = {}
  BY FS_EmptySet
<1> QED
  BY <1>1, NamesOfUnion

LEMMA InvTypes == ASSUME StoreInv PROVE TypeOK
<1>1. Linked(db, Given) /\ RefsOK(db.refs, db.events, Held) /\ UsedFits /\ FileFits
  BY DEF StoreInv, Sound, Whole
<1>2. /\ SessionsOK(db.sessions) /\ AgentsOK(db.agents, Ids(db.sessions), Given)
      /\ StepsOK(db.steps, Ids(db.agents)) /\ IsFiniteSet(db.events)
      /\ CallsOK(db.calls, db.events, Ids(db.sessions), Given)
      /\ MessagesOK(db.messages, Ids(db.sessions))
  BY <1>1 DEF Linked, EventsOK
<1>3. \A r \in db.sessions : /\ r.id \in used /\ r.status \in {"open", "archived", "deleted"}
                             /\ r.source \in {"none", "prompt", "generated", "user"}
  BY <1>1, <1>2 DEF SessionsOK, UsedFits, Ids
<1>4. \A r \in db.agents \cup db.steps \cup db.calls : r.status \in {"running"} \cup Ended
  BY <1>2 DEF AgentsOK, StepsOK, CallsOK, Statuses
<1>5. \A r \in db.messages : r.role \in {"user", "assistant"} /\ r.seq \in Nat \ {0}
  BY <1>2 DEF MessagesOK
<1>6. ASSUME NEW c \in DOMAIN db.refs
      PROVE  db.refs[c] \in Nat
  <2>1. Names(db.events, c) \in Nat
    BY <1>2, NamesIsNat
  <2>2. db.refs[c] = Names(db.events, c) + (IF c \in Held THEN 1 ELSE 0)
    BY <1>1 DEF RefsOK
  <2> QED
    BY <2>1, <2>2
<1>7. used \subseteq Sessions /\ daemon \in {"up", "recovering"}
      /\ file.kind \in {"none", "bundle", "session"}
  BY <1>1 DEF StoreInv, UsedFits, FileFits
<1> QED
  BY <1>3, <1>4, <1>5, <1>6, <1>7 DEF TypeOK

LEMMA InvEnds == ASSUME StoreInv PROVE EndedOnce
<1> SUFFICES ASSUME NEW a \in db.agents
             PROVE  Cardinality({e \in db.events : e.agent = a.id /\ e.kind = "agent.finished"})
                        = IF a.status = "running" THEN 0 ELSE 1
  BY DEF EndedOnce
<1> DEFINE ends == {e \in db.events : e.agent = a.id /\ e.kind = "agent.finished"}
<1>1. EndsOK(db.agents, db.events) /\ ends = Ends(db.events, a.id)
  BY DEF StoreInv, Sound, Closed, Ends
<1> HIDE DEF ends
<1>2. CASE a.status = "running"
  <2>1. ends = {}
    BY <1>1, <1>2 DEF EndsOK
  <2> QED
    BY <1>2, <2>1, FS_EmptySet DEF ends
<1>3. CASE a.status # "running"
  <2>1. PICK e \in db.events : ends = {e}
    BY <1>1, <1>3 DEF EndsOK
  <2>2. Cardinality({e}) = 1
    BY FS_Singleton
  <2> QED
    BY <1>3, <2>1, <2>2 DEF ends
<1> QED
  BY <1>2, <1>3

LEMMA InvIsWhole == StoreInv => TablesWhole
<1> SUFFICES ASSUME StoreInv
             PROVE  TablesWhole
  OBVIOUS
<1>1. /\ Linked(db, Given) /\ OpenOK(db.calls, db.agents)
      /\ RefsOK(db.refs, db.events, Held)
  BY DEF StoreInv, Sound, Whole, Closed
<1>2. RefcountExact
  BY <1>1 DEF RefcountExact, RefsOK, Held
<1>3. CallsOK(db.calls, db.events, Ids(db.sessions), Given)
  BY <1>1 DEF Linked
<1>4. CallsPointHome
  BY <1>3 DEF CallsPointHome, CallsOK, IsHome
<1>5. NothingOfPurged
  <2>1. \A r \in db.agents \cup db.events \cup db.calls \cup db.messages :
            r.session \in Ids(db.sessions)
    BY <1>1 DEF Linked, AgentsOK, EventsOK, CallsOK, MessagesOK
  <2>2. \A r \in db.steps : r.agent \in Ids(db.agents)
    BY <1>1 DEF Linked, StepsOK
  <2> QED
    BY <2>1, <2>2 DEF NothingOfPurged, Exists, AgentExists, Ids
<1>6. OpenCallsHaveAgents
  BY <1>1 DEF OpenCallsHaveAgents, OpenOK
<1> QED
  BY <1>2, <1>4, <1>5, <1>6, InvTypes, InvEnds DEF TablesWhole

\* TablesWhole: refcounts equal the events that name a blob, a call points
\* at events of its own, nothing of a purged session is left, an agent has
\* one end and no open call after it: whatever runs, title tasks, purges,
\* crashes and imports do to the tables (register_blob, release_blobs,
\* purge, recover_orphaned_agents, import_bundle_rows).
THEOREM TablesAreWhole == Spec => []TablesWhole
<1>1. StoreInv => TablesWhole
  BY InvIsWhole
<1> QED
  BY <1>1, StoreIsSound, PTL

-----------------------------------------------------------------------------
(* The user's title. *)

SameSessions(d, t) == DOMAIN t = DbFields /\ t.sessions = d.sessions

TitlesStay(d, t) ==
    \A r \in d.sessions, q \in t.sessions : r.id = q.id /\ r.source = "user" => q.source = "user"

LEMMA OtherTables ==
    ASSUME NEW d, DOMAIN d = DbFields
    PROVE  /\ \A s, e : SameSessions(d, InsertEvent(d, s, e))
           /\ \A s, keep : SameSessions(d, Truncate(d, s, keep))
           /\ \A m : SameSessions(d, PutMessage(d, m))
           /\ \A c : SameSessions(d, PutBlob(d, c))
           /\ \A a : SameSessions(d, StartStep(d, a))
           /\ \A step, status : SameSessions(d, FinishStep(d, step, status))
<1>1. \A s, e : SameSessions(d, InsertEvent(d, s, e))
  BY InsertWrites DEF SameSessions
<1>2. \A s, keep : SameSessions(d, Truncate(d, s, keep))
  BY DEF SameSessions, Truncate, DbFields
<1>3. \A m : SameSessions(d, PutMessage(d, m))
  BY DEF SameSessions, PutMessage, DbFields
<1>4. \A c : SameSessions(d, PutBlob(d, c))
  BY DEF SameSessions, PutBlob, DbFields
<1>5. \A a : SameSessions(d, StartStep(d, a))
  BY DEF SameSessions, StartStep, DbFields
<1>6. \A step, status : SameSessions(d, FinishStep(d, step, status))
  BY DEF SameSessions, FinishStep, DbFields
<1> QED
  BY <1>1, <1>2, <1>3, <1>4, <1>5, <1>6

LEMMA MessagesBeside ==
    ASSUME NEW d, DOMAIN d = DbFields
    PROVE  /\ \A s, t : SameSessions(d, PutUserText(d, s, t))
           /\ \A s, role, text, step : SameSessions(d, PutNext(d, s, role, text, step))
<1>1. \A m : SameSessions(d, PutMessage(d, m))
  BY OtherTables
<1> QED
  BY <1>1 DEF PutUserText, PutNext

LEMMA AgentsBeside ==
    ASSUME NEW d, DOMAIN d = DbFields, NEW s, NEW a
    PROVE  /\ SameSessions(d, StartAgent(d, s, a))
           /\ \A status : SameSessions(d, FinishAgent(d, s, a, status))
<1>1. SameSessions(d, StartAgent(d, s, a))
  <2> DEFINE t == [d EXCEPT !.agents = @ \cup {[id |-> a, session |-> s, status |-> "running"]}]
             e == Event("agent.started", a)
  <2>1. DOMAIN t = DbFields /\ t.sessions = d.sessions
    BY DEF DbFields
  <2>2. StartAgent(d, s, a) = InsertEvent(t, s, e)
    BY DEF StartAgent
  <2> HIDE DEF t, e
  <2> QED
    BY <2>1, <2>2, OtherTables DEF SameSessions
<1>2. ASSUME NEW status
      PROVE  SameSessions(d, FinishAgent(d, s, a, status))
  <2> DEFINE t == [d EXCEPT !.agents = Set(@, a, LAMBDA r : [r EXCEPT !.status = status])]
             e == Event("agent.finished", a)
  <2>1. DOMAIN t = DbFields /\ t.sessions = d.sessions
    BY DEF DbFields
  <2>2. FinishAgent(d, s, a, status) = InsertEvent(t, s, e)
    BY DEF FinishAgent
  <2> HIDE DEF t, e
  <2> QED
    BY <2>1, <2>2, OtherTables DEF SameSessions
<1> QED
  BY <1>1, <1>2

LEMMA CallsBeside ==
    ASSUME NEW d, DOMAIN d = DbFields, NEW s, NEW a, NEW step
    PROVE  /\ \A kind, body, count :
                  SameSessions(d, RecordRequest(d, s, a, step, kind, body, count))
           /\ \A r : SameSessions(d, RecordResponse(d, s, a, step, r))
           /\ SameSessions(d, RecordError(d, s, a, step))
<1>1. ASSUME NEW e, NEW rows
      PROVE  SameSessions(d, [InsertEvent(d, s, e) EXCEPT !.calls = rows])
  <2> DEFINE t == InsertEvent(d, s, e)
  <2>1. DOMAIN t = DbFields /\ t.sessions = d.sessions
    BY OtherTables DEF SameSessions
  <2> HIDE DEF t
  <2>2. SameSessions(d, [t EXCEPT !.calls = rows])
    BY <2>1 DEF SameSessions, DbFields
  <2> QED
    BY <2>2 DEF t
<1>2. ASSUME NEW kind, NEW body, NEW count
      PROVE  SameSessions(d, RecordRequest(d, s, a, step, kind, body, count))
  BY <1>1 DEF RecordRequest
<1>3. ASSUME NEW r
      PROVE  SameSessions(d, RecordResponse(d, s, a, step, r))
  BY <1>1 DEF RecordResponse
<1>4. SameSessions(d, RecordError(d, s, a, step))
  BY <1>1 DEF RecordError
<1> QED
  BY <1>2, <1>3, <1>4

LEMMA RecoveryBeside ==
    ASSUME NEW d, DOMAIN d = DbFields, NEW a
    PROVE  SameSessions(d, RecoverAgent(d, a))
<1> DEFINE s  == (CHOOSE r \in d.agents : r.id = a).session
           d2 == [d EXCEPT !.steps = {IF r.agent = a /\ r.status = "running"
                                      THEN [r EXCEPT !.status = "error"] ELSE r : r \in @},
                           !.calls = {IF r.agent = a /\ r.status = "running"
                                      THEN [r EXCEPT !.status = "error"] ELSE r : r \in @}]
           d3 == FinishAgent(d2, s, a, "error")
           e  == Event("outcome", a)
<1>1. RecoverAgent(d, a) = InsertEvent(d3, s, e)
  BY DEF RecoverAgent
<1>2. DOMAIN d2 = DbFields /\ d2.sessions = d.sessions
  BY DEF DbFields
<1> HIDE DEF d2, s
<1>3. DOMAIN d3 = DbFields /\ d3.sessions = d.sessions
  <2>1. \A status : SameSessions(d2, FinishAgent(d2, s, a, status))
    BY <1>2, AgentsBeside
  <2> QED
    BY <1>2, <2>1 DEF SameSessions
<1> HIDE DEF d3, e
<1> QED
  BY <1>1, <1>3, OtherTables DEF SameSessions

LEMMA TitlesUntouched ==
    ASSUME NEW d, SessionsOK(d.sessions), NEW t,
           \A q \in t.sessions : q \in d.sessions \/ \A r \in d.sessions : r.id # q.id
    PROVE  TitlesStay(d, t)
BY DEF TitlesStay, SessionsOK

LEMMA SameTitles ==
    ASSUME NEW d, SessionsOK(d.sessions), NEW t, SameSessions(d, t)
    PROVE  TitlesStay(d, t)
BY TitlesUntouched DEF SameSessions

\* set_session_title: only the user replaces what the user gave.
LEMMA TitleSetByRank ==
    ASSUME NEW d, DOMAIN d = DbFields, SessionsOK(d.sessions), NEW s, NEW source
    PROVE  DOMAIN SetTitle(d, s, source) = DbFields /\ TitlesStay(d, SetTitle(d, s, source))
<1>1. CASE SetTitle(d, s, source) = d
  BY <1>1, SameTitles DEF SameSessions
<1>2. CASE SetTitle(d, s, source) # d
  <2> DEFINE rows == {IF r.id = s THEN [r EXCEPT !.source = source] ELSE r : r \in d.sessions}
             t    == [d EXCEPT !.sessions = rows]
  <2>1. /\ SetTitle(d, s, source) = t
        /\ SessionRow(d, s).source # "user" \/ source = "user"
    BY <1>2 DEF SetTitle, SetSession, Set
  <2>2. DOMAIN t = DbFields /\ t.sessions = rows
    BY DEF DbFields
  <2>3. ASSUME NEW r \in d.sessions, NEW q \in rows, r.id = q.id, r.source = "user"
        PROVE  q.source = "user"
    <3>1. PICK p \in d.sessions : q = IF p.id = s THEN [p EXCEPT !.source = source] ELSE p
      BY <2>3
    <3>2. p.id = q.id /\ (p.id = s => q.source = source) /\ (p.id # s => q = p)
      BY <3>1 DEF SessionsOK
    <3>3. p = r
      BY <2>3, <3>2 DEF SessionsOK
    <3>4. CASE p.id = s
      <4>1. SessionRow(d, s) = r
        BY <3>3, <3>4 DEF SessionRow, SessionsOK
      <4> QED
        BY <2>1, <2>3, <3>2, <3>4, <4>1
    <3> QED
      BY <2>3, <3>2, <3>3, <3>4
  <2> HIDE DEF rows, t
  <2> QED
    BY <2>1, <2>2, <2>3 DEF TitlesStay
<1> QED
  BY <1>1, <1>2

LEMMA StatusBesideTitle ==
    ASSUME NEW d, DOMAIN d = DbFields, SessionsOK(d.sessions), NEW s, NEW status
    PROVE  TitlesStay(d, SetStatus(d, s, status))
<1> DEFINE rows == {IF r.id = s THEN [r EXCEPT !.status = status] ELSE r : r \in d.sessions}
           t    == [d EXCEPT !.sessions = rows]
           e    == Event("session.status", None)
<1>1. SetStatus(d, s, status) = InsertEvent(t, s, e)
  BY DEF SetStatus, SetSession, Set
<1>2. DOMAIN t = DbFields /\ t.sessions = rows
  BY DEF DbFields
<1>3. \A q \in rows : \E p \in d.sessions : p.id = q.id /\ p.source = q.source
  BY DEF SessionsOK
<1> HIDE DEF rows, t, e
<1>4. InsertEvent(t, s, e).sessions = rows
  BY <1>2, OtherTables DEF SameSessions
<1> QED
  BY <1>1, <1>3, <1>4 DEF TitlesStay, SessionsOK

LEMMA StaysTrans ==
    ASSUME NEW d, NEW t, NEW u, TitlesStay(d, t), SameSessions(t, u)
    PROVE  TitlesStay(d, u)
BY DEF TitlesStay, SameSessions

\* What the invariant says of the session rows.
LEMMA RowsKnown == ASSUME StoreInv PROVE DOMAIN db = DbFields /\ SessionsOK(db.sessions)
BY DEF StoreInv, Sound, Whole, Linked

LEMMA RunsLeaveTitles == ASSUME StoreInv, Runs PROVE TitlesStay(db, db')
<1>1. DOMAIN db = DbFields /\ SessionsOK(db.sessions)
  BY RowsKnown
<1>2. SameSessions(db, db) /\ \A t : SameSessions(db, t) => TitlesStay(db, t)
  BY <1>1, SameTitles DEF SameSessions
<1>3. ASSUME NEW s, NEW p, RunLoad(s, p)
      PROVE  TitlesStay(db, db')
  BY <1>2, <1>3 DEF RunLoad
<1>4. CASE RunRepair
  <2> DEFINE t == Truncate(db, run.session, Len(Messages(db, run.session)) - 1)
  <2>1. SameSessions(db, t) /\ db' = InsertEvent(t, run.session, Event("session.repaired", None))
    BY <1>1, <1>4, OtherTables DEF RunRepair
  <2> HIDE DEF t
  <2>2. SameSessions(t, db')
    BY <2>1, OtherTables DEF SameSessions
  <2> QED
    BY <1>2, <2>1, <2>2 DEF SameSessions
<1>5. CASE RunStart
  BY <1>1, <1>2, <1>5, AgentsBeside DEF RunStart
<1>6. CASE RunTurn
  <2>1. PICK d \in {db, SetTitle(db, run.session, "prompt")} :
            db' = PutUserText(InsertEvent(d, run.session,
                      WithBody(Event("user.message", run.agent), TextBlob(run.prompt))),
                      run.session, run.prompt)
    BY <1>6 DEF RunTurn
  <2>2. DOMAIN d = DbFields /\ TitlesStay(db, d)
    BY <1>1, <1>2, <2>1, TitleSetByRank
  <2> DEFINE e == WithBody(Event("user.message", run.agent), TextBlob(run.prompt))
             t == InsertEvent(d, run.session, e)
  <2>3. SameSessions(d, t)
    <3> HIDE DEF e
    <3> QED
      BY <2>2, OtherTables
  <2>4. db' = PutUserText(t, run.session, run.prompt)
    BY <2>1
  <2> HIDE DEF t
  <2>5. SameSessions(t, db')
    BY <2>3, <2>4, MessagesBeside DEF SameSessions
  <2> QED
    BY <2>2, <2>3, <2>5, StaysTrans
<1>7. CASE RunStep
  BY <1>1, <1>2, <1>7, OtherTables DEF RunStep
<1>8. CASE RunRequest
  BY <1>1, <1>2, <1>8, CallsBeside DEF RunRequest
<1>9. CASE RunFail
  <2> DEFINE t == RecordError(db, run.session, run.agent, run.step)
  <2>1. SameSessions(db, t) /\ db' = FinishStep(t, run.step, "error")
    BY <1>1, <1>9, CallsBeside DEF RunFail
  <2> HIDE DEF t
  <2>2. SameSessions(t, db')
    BY <2>1, OtherTables DEF SameSessions
  <2> QED
    BY <1>2, <2>1, <2>2 DEF SameSessions
<1>10. ASSUME NEW r, RunReply(r)
       PROVE  TitlesStay(db, db')
  BY <1>1, <1>2, <1>10, OtherTables DEF RunReply
<1>11. CASE RunComplete
  BY <1>1, <1>2, <1>11, CallsBeside DEF RunComplete
<1>12. CASE RunStore
  <2> DEFINE e == WithBody(Event("assistant.message", run.agent), TextBlob(run.reply))
             t == InsertEvent(db, run.session, e)
  <2>1. SameSessions(db, t)
    <3> HIDE DEF e
    <3> QED
      BY <1>1, OtherTables
  <2>2. db' = PutNext(t, run.session, "assistant", run.reply, run.step)
    BY <1>12 DEF RunStore
  <2> HIDE DEF t
  <2>3. SameSessions(t, db')
    BY <2>1, <2>2, MessagesBeside DEF SameSessions
  <2> QED
    BY <1>2, <2>1, <2>3 DEF SameSessions
<1>13. CASE RunResults
  BY <1>1, <1>2, <1>13, MessagesBeside DEF RunResults
<1>14. CASE RunClose
  BY <1>1, <1>2, <1>14, OtherTables DEF RunClose
<1>15. CASE RunFinish
  BY <1>1, <1>2, <1>15, AgentsBeside DEF RunFinish
<1>16. CASE RunRepair \/ RunStart \/ RunTurn \/ RunStep \/ RunRequest \/ RunFail
  BY <1>4, <1>5, <1>6, <1>7, <1>8, <1>9, <1>16
<1>17. CASE RunComplete \/ RunStore \/ RunResults \/ RunClose \/ RunFinish
  BY <1>11, <1>12, <1>13, <1>14, <1>15, <1>17
<1> QED
  BY <1>3, <1>10, <1>16, <1>17 DEF Runs

LEMMA TitlesLeaveTitles == ASSUME StoreInv, Titles PROVE TitlesStay(db, db')
<1>1. DOMAIN db = DbFields /\ SessionsOK(db.sessions)
  BY RowsKnown
<1>2. SameSessions(db, db) /\ \A t : SameSessions(db, t) => TitlesStay(db, t)
  BY <1>1, SameTitles DEF SameSessions
<1>3. CASE TitleStep
  BY <1>1, <1>2, <1>3, OtherTables DEF TitleStep
<1>4. CASE TitleRequest
  BY <1>1, <1>2, <1>4, CallsBeside DEF TitleRequest
<1>5. CASE TitleFail
  <2> DEFINE t == RecordError(db, title.session, title.agent, title.step)
  <2>1. SameSessions(db, t) /\ db' \in {db, FinishStep(t, title.step, "error")}
    BY <1>1, <1>5, CallsBeside DEF TitleFail
  <2> HIDE DEF t
  <2>2. db' = db \/ SameSessions(t, db')
    BY <2>1, OtherTables DEF SameSessions
  <2> QED
    BY <1>2, <2>1, <2>2 DEF SameSessions
<1>6. CASE TitleReply
  BY <1>1, <1>2, <1>6, OtherTables DEF TitleReply
<1>7. CASE TitleComplete
  <2> DEFINE t == RecordResponse(db, title.session, title.agent, title.step, Answer)
  <2>1. SameSessions(db, t) /\ db' \in {db, FinishStep(t, title.step, "ok")}
    BY <1>1, <1>7, CallsBeside DEF TitleComplete
  <2> HIDE DEF t
  <2>2. db' = db \/ SameSessions(t, db')
    BY <2>1, OtherTables DEF SameSessions
  <2> QED
    BY <1>2, <2>1, <2>2 DEF SameSessions
<1>8. CASE TitleSet
  <2> DEFINE t == SetTitle(db, title.session, "generated")
             e == Event("session.title", title.agent)
  <2>1. DOMAIN t = DbFields /\ TitlesStay(db, t)
    BY <1>1, TitleSetByRank
  <2>2. db' \in {db, InsertEvent(t, title.session, e)}
    BY <1>8 DEF TitleSet
  <2> HIDE DEF t, e
  <2>3. SameSessions(t, InsertEvent(t, title.session, e))
    BY <2>1, OtherTables
  <2> QED
    BY <1>2, <2>1, <2>2, <2>3, StaysTrans
<1> QED
  BY <1>3, <1>4, <1>5, <1>6, <1>7, <1>8 DEF Titles

LEMMA AsksLeaveTitles == ASSUME StoreInv, Asks PROVE TitlesStay(db, db')
<1>1. DOMAIN db = DbFields /\ SessionsOK(db.sessions)
  BY RowsKnown
<1>2. CASE Create
  <2>1. used = {} /\ Ids(db.sessions) \subseteq used
    BY <1>2 DEF Create, StoreInv, UsedFits
  <2> QED
    BY <2>1 DEF TitlesStay, Ids
<1>3. ASSUME NEW s, Rename(s)
      PROVE  TitlesStay(db, db')
  <2> DEFINE t == SetTitle(db, s, "user")
             e == Event("session.title", None)
  <2>1. DOMAIN t = DbFields /\ TitlesStay(db, t)
    BY <1>1, TitleSetByRank
  <2>2. db' = InsertEvent(t, s, e)
    BY <1>3 DEF Rename
  <2> HIDE DEF t, e
  <2>3. SameSessions(t, db')
    BY <2>1, <2>2, OtherTables
  <2> QED
    BY <2>1, <2>3, StaysTrans
<1>4. ASSUME NEW s, NEW status, Archive(s, status)
      PROVE  TitlesStay(db, db')
  BY <1>1, <1>4, StatusBesideTitle DEF Archive
<1>5. ASSUME NEW s, Delete(s)
      PROVE  TitlesStay(db, db')
  <2>1. CASE db' = DeleteSession(db, s)
    <3> DEFINE t == Truncate(db, s, 0)
    <3>1. DOMAIN t = DbFields /\ t.sessions = db.sessions
      BY <1>1, OtherTables DEF SameSessions
    <3>2. db' = SetStatus(t, s, "deleted")
      BY <2>1 DEF DeleteSession
    <3> HIDE DEF t
    <3>3. TitlesStay(t, db')
      BY <1>1, <3>1, <3>2, StatusBesideTitle
    <3> QED
      BY <3>1, <3>3 DEF TitlesStay
  <2>2. CASE db' = PurgeSession(db, s)
    <3>1. Sound(db, Given, Held)
      BY DEF StoreInv
    <3>2. db'.sessions = {r \in db.sessions : r.id # s}
      BY <2>2, <3>1, PurgeKeeps
    <3> QED
      BY <1>1, <3>2, TitlesUntouched
  <2> QED
    BY <1>5, <2>1, <2>2 DEF Delete
<1> QED
  BY <1>2, <1>3, <1>4, <1>5 DEF Asks

LEMMA RestartsLeaveTitles == ASSUME StoreInv, Restarts PROVE TitlesStay(db, db')
<1>1. DOMAIN db = DbFields /\ SessionsOK(db.sessions)
  BY RowsKnown
<1>2. CASE UNCHANGED db
  BY <1>1, <1>2, SameTitles DEF SameSessions
<1>3. ASSUME NEW a, Recover(a)
      PROVE  TitlesStay(db, db')
  BY <1>1, <1>3, RecoveryBeside, SameTitles DEF Recover
<1> QED
  BY <1>2, <1>3 DEF Restarts, Crash, Serve

LEMMA TransfersLeaveTitles == ASSUME StoreInv, Transfers PROVE TitlesStay(db, db')
<1>1. DOMAIN db = DbFields /\ SessionsOK(db.sessions)
  BY RowsKnown
<1>2. CASE UNCHANGED db
  BY <1>1, <1>2, SameTitles DEF SameSessions
<1>3. CASE ImportBundle
  <2> DEFINE ids   == Ids(file.rows.sessions)
             taken == ids \cap Ids(db.sessions)
             f     == FreshIds(taken)
             rows  == RenameRows(file.rows, f)
  <2>1. /\ file.kind = "bundle" /\ CanRename(taken)
        /\ db'.sessions = db.sessions \cup rows.sessions
    BY <1>3 DEF ImportBundle
  <2>2. UsedFits /\ FileFits
    BY DEF StoreInv
  <2>3. /\ DOMAIN file.rows = BundleFields /\ Tables(file.rows, Given)
        /\ ids \subseteq used /\ file.rows.blobs = NamedIn(file.rows.events)
    BY <2>1, <2>2 DEF FileFits
  <2> HIDE DEF taken, ids
  <2>4. /\ Apart(f, ids)
        /\ \A s \in ids : SessionOf(f, s) \in Sessions /\ SessionOf(f, s) \notin Ids(db.sessions)
    BY <2>1, <2>2, <2>3, FreshIdsApart DEF taken
  <2> HIDE DEF f
  <2>5. Ids(rows.sessions) = {SessionOf(f, s) : s \in ids}
    BY <2>3, <2>4, RenamedRows DEF ids
  <2> HIDE DEF rows
  <2>6. \A q \in rows.sessions : q.id \notin Ids(db.sessions)
    BY <2>4, <2>5 DEF Ids
  <2>7. \A q \in db'.sessions : q \in db.sessions \/ \A r \in db.sessions : r.id # q.id
    BY <2>1, <2>6 DEF Ids
  <2> QED
    BY <1>1, <2>7, TitlesUntouched
<1>4. CASE ImportSession
  <2> DEFINE s == file.row.id
             d == [db EXCEPT !.sessions = @ \cup {file.row}, !.messages = @ \cup file.messages]
  <2>1. db' = ImportCalls(d, s, SetToSeq(file.calls)) /\ \A r \in db.sessions : r.id # s
    BY <1>4 DEF ImportSession, Exists
  <2>2. DOMAIN d = DbFields /\ d.sessions = db.sessions \cup {file.row}
    BY <1>1 DEF DbFields
  <2> HIDE DEF d
  <2>3. db'.sessions = db.sessions \cup {file.row}
    BY <2>1, <2>2 DEF ImportCalls, DbFields
  <2> QED
    BY <1>1, <2>1, <2>3, TitlesUntouched
<1> QED
  BY <1>2, <1>3, <1>4 DEF Transfers, Export, ExportSession

LEMMA StepLeavesTitles == StoreInv /\ [Next]_vars => TitlesStay(db, db')
<1> SUFFICES ASSUME StoreInv, [Next]_vars
             PROVE  TitlesStay(db, db')
  OBVIOUS
<1>1. CASE UNCHANGED vars
  <2>1. DOMAIN db = DbFields /\ SessionsOK(db.sessions) /\ db' = db
    BY <1>1, RowsKnown DEF vars
  <2> QED
    BY <2>1, SameTitles DEF SameSessions
<1>2. CASE Next
  BY <1>2, RunsLeaveTitles, TitlesLeaveTitles, AsksLeaveTitles, RestartsLeaveTitles,
     TransfersLeaveTitles DEF Next
<1> QED
  BY <1>1, <1>2

\* UserTitleKept: no step puts anything over the title a user gave, the
\* title task that was under way when it was given included
\* (set_session_title), nor an import of a session of the same id.
THEOREM UserTitlesStay == Spec => UserTitleKept
<1>1. ASSUME TitlesStay(db, db')
      PROVE  \A s \in Sessions :
                Exists(db, s) /\ Exists(db, s)' /\ SessionRow(db, s).source = "user"
                    => SessionRow(db, s)'.source = "user"
  <2>1. \A d, s : Exists(d, s) => SessionRow(d, s) \in d.sessions /\ SessionRow(d, s).id = s
    BY DEF Exists, SessionRow
  <2> SUFFICES ASSUME NEW s \in Sessions, Exists(db, s), Exists(db, s)',
                      SessionRow(db, s).source = "user"
               PROVE  SessionRow(db', s).source = "user"
    BY DEF SessionRow
  <2>2. Exists(db', s)
    BY DEF Exists
  <2> QED
    BY <1>1, <2>1, <2>2 DEF TitlesStay
<1>2. StoreInv /\ [Next]_vars =>
          [\A s \in Sessions :
              Exists(db, s) /\ Exists(db, s)' /\ SessionRow(db, s).source = "user"
                  => SessionRow(db, s)'.source = "user"]_vars
  BY <1>1, StepLeavesTitles
<1> QED
  BY <1>2, StoreIsSound, PTL DEF Spec, UserTitleKept

-----------------------------------------------------------------------------
(* What the mentor was asked, and the messages that asked it.  Here cs, es *)
(* and ms are the calls, the events and the messages of one session.       *)

At(ms, i)    == {m \in ms : m.seq = i}
Row(ms, i)   == CHOOSE m \in At(ms, i) : TRUE
Wired(ms, n) == [i \in 1 .. n |-> <<Row(ms, i).role, Row(ms, i).texts>>]

\* The messages are numbered from 1 without a gap, one row each.
NumberedTo(ms, n) ==
    /\ \A i \in 1 .. n : \E m \in ms : At(ms, i) = {m}
    /\ \A m \in ms : m.seq \in 1 .. n
Numbered(ms) == \E n \in Nat : NumberedTo(ms, n)

\* The request e is made of the first messages there are.
Built(e, ms) ==
    /\ e.count \in Nat
    /\ \A i \in 1 .. e.count : At(ms, i) # {}
    /\ e.body = RequestBlob(Wired(ms, e.count))

Requests(c, e) == c.kind = "step" /\ e.id = c.request /\ e.body # None
AnswerOf(m, c, e) == m.seq = e.count + 1 /\ m.role = "assistant" /\ m.step = c.step

Told(cs, es, ms) ==
    \A c \in cs, e \in es :
        Requests(c, e) /\ (\E m \in ms : AnswerOf(m, c, e)) => Built(e, ms)

Kept(t, s) ==
    /\ Numbered(In(t.messages, s))
    /\ Told(In(t.calls, s), In(t.events, s), In(t.messages, s))

\* A call is one of its step, and an answer is one of its session's steps.
CallsStepped(calls) == \A c \in calls : c.step = c.id
StepsNamed(messages) ==
    \A m \in messages : m.role = "assistant" => \E k, j : m.step = <<m.session, k, j>>

Answers(t) == CallsStepped(t.calls) /\ StepsNamed(t.messages) /\ \A s : Kept(t, s)

LEMMA NumberedCount ==
    ASSUME NEW ms, NEW n \in Nat, NumberedTo(ms, n)
    PROVE  IsFiniteSet(ms) /\ Cardinality(ms) = n
<1> DEFINE f == [i \in 1 .. n |-> Row(ms, i)]
<1>1. \A i \in 1 .. n : Row(ms, i) \in ms /\ Row(ms, i).seq = i
  BY DEF NumberedTo, At, Row
<1>2. \A m \in ms : Row(ms, m.seq) = m
  <2> SUFFICES ASSUME NEW m \in ms PROVE Row(ms, m.seq) = m
    OBVIOUS
  <2>1. m.seq \in 1 .. n /\ m \in At(ms, m.seq)
    BY DEF NumberedTo, At
  <2>2. PICK x : At(ms, m.seq) = {x}
    BY <2>1 DEF NumberedTo
  <2> QED
    BY <2>1, <2>2 DEF Row
<1>3. ExistsBijection(1 .. n, ms)
  <2>1. f \in [1 .. n -> ms]
    BY <1>1
  <2>2. \A i, j \in 1 .. n : f[i] = f[j] => i = j
    BY <1>1
  <2>3. \A m \in ms : \E i \in 1 .. n : f[i] = m
    BY <1>2 DEF NumberedTo
  <2> HIDE DEF f
  <2>4. f \in Bijection(1 .. n, ms)
    BY <2>1, <2>2, <2>3 DEF Bijection, Injection, Surjection, IsInjective
  <2> QED
    BY <2>4 DEF ExistsBijection
<1>4. IsFiniteSet(1 .. n) /\ Cardinality(1 .. n) = n
  BY FS_Interval
<1> QED
  BY <1>3, <1>4, FS_Bijection

\* The messages in the order of seq are the rows in the order of seq.
LEMMA MessagesAre ==
    ASSUME NEW d, NEW s, NEW n \in Nat, NumberedTo(In(d.messages, s), n)
    PROVE  /\ Messages(d, s) = [i \in 1 .. n |-> Row(In(d.messages, s), i)]
           /\ Len(Messages(d, s)) = n
           /\ Conversation(d, s) = Wired(In(d.messages, s), n)
           /\ Len(Conversation(d, s)) = n
<1> DEFINE ms     == In(d.messages, s)
           upto(m) == {x \in ms : x.seq <= m.seq}
           nth(i) == CHOOSE m \in ms : Cardinality(upto(m)) = i
<1>1. NumberedTo(ms, n)
  OBVIOUS
<1> HIDE DEF ms
<1>2. ASSUME NEW m \in ms
      PROVE  Cardinality(upto(m)) = m.seq
  <2>1. m.seq \in 1 .. n
    BY <1>1 DEF NumberedTo
  <2>2. NumberedTo(upto(m), m.seq)
    <3>1. ASSUME NEW i \in 1 .. m.seq
          PROVE  \E x \in upto(m) : At(upto(m), i) = {x}
      <4>1. i \in 1 .. n
        BY <2>1
      <4>2. PICK x \in ms : At(ms, i) = {x}
        BY <1>1, <4>1 DEF NumberedTo
      <4>3. At(upto(m), i) = At(ms, i) /\ x \in upto(m)
        BY <2>1, <4>2 DEF At
      <4> QED
        BY <4>2, <4>3
    <3>2. \A x \in upto(m) : x.seq \in 1 .. m.seq
      BY <1>1, <2>1 DEF NumberedTo
    <3> QED
      BY <3>1, <3>2 DEF NumberedTo
  <2>3. m.seq \in Nat
    BY <2>1
  <2> HIDE DEF upto
  <2> QED
    BY <2>2, <2>3, NumberedCount
<1>3. ASSUME NEW i \in 1 .. n
      PROVE  nth(i) = Row(ms, i)
  <2>1. PICK x \in ms : At(ms, i) = {x}
    BY <1>1 DEF NumberedTo
  <2>2. Row(ms, i) = x
    BY <2>1 DEF Row
  <2>3. \A m \in ms : Cardinality(upto(m)) = i <=> m = x
    BY <1>2, <2>1 DEF At
  <2> HIDE DEF upto
  <2> QED
    BY <2>2, <2>3
<1>4. Cardinality(ms) = n
  BY <1>1, NumberedCount
<1>5. Messages(d, s) = [i \in 1 .. Cardinality(ms) |-> nth(i)]
  BY DEF Messages, ms
<1> HIDE DEF nth
<1>6. Messages(d, s) = [i \in 1 .. n |-> Row(ms, i)]
  BY <1>3, <1>4, <1>5
<1>7. Conversation(d, s) = Wired(ms, n)
  BY <1>6 DEF Conversation, Wire, Wired
<1>8. Len(Messages(d, s)) = n /\ Len(Conversation(d, s)) = n
  BY <1>6, <1>7 DEF Wired
<1> QED
  BY <1>6, <1>7, <1>8 DEF ms

\* What is asked stays what it was when the rows it is made of do.
LEMMA BuiltStays ==
    ASSUME NEW e, NEW ms, NEW ms2, Built(e, ms), \A i \in 1 .. e.count : At(ms2, i) = At(ms, i)
    PROVE  Built(e, ms2)
<1>1. \A i \in 1 .. e.count : Row(ms2, i) = Row(ms, i)
  BY DEF Row
<1>2. Wired(ms2, e.count) = Wired(ms, e.count)
  BY <1>1 DEF Wired
<1> QED
  BY <1>2 DEF Built

\* So an answered call replays.
LEMMA BuiltReplays ==
    ASSUME NEW c, NEW e \in db.events, IsFiniteSet(db.events),
           \A x \in db.events : x.id = e.id => x = e,
           Requests(c, e), e.kind = "mentor.request", Numbered(In(db.messages, c.session)),
           Built(e, In(db.messages, c.session))
    PROVE  Replay(c) = "ok"
<1> DEFINE ms == In(db.messages, c.session)
<1>1. PICK n \in Nat : NumberedTo(ms, n)
  BY DEF Numbered
<1>2. {x \in db.events : x.id = c.request} = {e}
  BY DEF Requests
<1>3. Conversation(db, c.session) = Wired(ms, n) /\ Len(Wired(ms, n)) = n
  BY <1>1, MessagesAre
<1>4. e.count \in Nat /\ e.count <= n
  <2>1. e.count # 0 => \E m \in ms : m.seq = e.count
    BY DEF Built, At
  <2> QED
    BY <1>1, <2>1 DEF Built, NumberedTo
<1>5. SubSeq(Wired(ms, n), 1, e.count) = Wired(ms, e.count)
  BY <1>4 DEF Wired
<1>6. e.body = RequestBlob(Wired(ms, e.count))
  BY DEF Built
<1> HIDE DEF ms
<1> QED
  BY <1>2, <1>3, <1>4, <1>5, <1>6 DEF Replay, Requests

-----------------------------------------------------------------------------
(* Messages put and cut. *)

\* The row m is put after the others, or in the place of the last by a user.
PutAt(m, n) ==
    \/ m.seq = n + 1
    \/ m.seq = n /\ n # 0 /\ m.role = "user"

\* What m answers, if anything, was asked by what is there.
AnswersAsked(d, m) ==
    m.role = "assistant" =>
        /\ \E k, j : m.step = <<m.session, k, j>>
        /\ \A c \in In(d.calls, m.session), e \in In(d.events, m.session) :
               Requests(c, e) /\ AnswerOf(m, c, e) => Built(e, In(d.messages, m.session))

LEMMA PutTells ==
    ASSUME NEW cs, NEW es, NEW ms, NEW n \in Nat, NumberedTo(ms, n), Told(cs, es, ms),
           NEW m, PutAt(m, n),
           \A c \in cs, e \in es : Requests(c, e) /\ AnswerOf(m, c, e) => Built(e, ms),
           NEW ms2, ms2 = {x \in ms : x.seq # m.seq} \cup {m}
    PROVE  /\ Numbered(ms2) /\ Told(cs, es, ms2)
           /\ \A e : Built(e, ms) /\ (m.seq = n => e.count < n) => Built(e, ms2)
<1>1. m.seq \in Nat /\ m.seq <= n + 1 /\ n <= m.seq /\ m.seq # 0
  BY DEF PutAt
<1>2. \A i : i # m.seq => At(ms2, i) = At(ms, i)
  BY DEF At
<1>3. At(ms2, m.seq) = {m}
  BY DEF At
<1>4. NumberedTo(ms2, m.seq)
  <2>1. ASSUME NEW i \in 1 .. m.seq
        PROVE  \E x \in ms2 : At(ms2, i) = {x}
    <3>1. CASE i = m.seq
      BY <1>3, <3>1
    <3>2. CASE i # m.seq
      <4>1. i \in 1 .. n
        BY <1>1, <3>2
      <4>2. PICK x \in ms : At(ms, i) = {x}
        BY <4>1 DEF NumberedTo
      <4>3. x \in ms2
        BY <3>2, <4>2 DEF At
      <4> QED
        BY <1>2, <3>2, <4>2, <4>3
    <3> QED
      BY <3>1, <3>2
  <2>2. \A x \in ms2 : x.seq \in 1 .. m.seq
    BY <1>1 DEF NumberedTo
  <2> QED
    BY <2>1, <2>2 DEF NumberedTo
<1>5. ASSUME NEW e, Built(e, ms)
      PROVE  e.count \in Nat /\ e.count <= n
  <2>1. e.count # 0 => \E x \in ms : x.seq = e.count
    BY <1>5 DEF Built, At
  <2> QED
    BY <1>5, <2>1 DEF Built, NumberedTo
<1>6. ASSUME NEW e, Built(e, ms), m.seq = n => e.count < n
      PROVE  Built(e, ms2)
  <2>1. \A i \in 1 .. e.count : i # m.seq
    BY <1>1, <1>5, <1>6
  <2>2. \A i \in 1 .. e.count : At(ms2, i) = At(ms, i)
    BY <1>2, <2>1
  <2> QED
    BY <1>6, <2>2, BuiltStays
<1>7. ASSUME NEW c \in cs, NEW e \in es, Requests(c, e), NEW x \in ms2, AnswerOf(x, c, e)
      PROVE  Built(e, ms2)
  <2>1. CASE x = m
    <3>1. Built(e, ms) /\ m.seq = e.count + 1 /\ m.role = "assistant"
      BY <1>7, <2>1 DEF AnswerOf
    <3> QED
      BY <1>5, <1>6, <3>1
  <2>2. CASE x # m
    <3>1. x \in ms /\ x.seq # m.seq
      BY <2>2
    <3>2. Built(e, ms)
      BY <1>7, <3>1 DEF Told
    <3>3. x.seq \in 1 .. n /\ x.seq = e.count + 1
      BY <1>7, <3>1 DEF NumberedTo, AnswerOf
    <3>4. e.count \in Nat
      BY <1>5, <3>2
    <3> QED
      BY <1>6, <3>1, <3>2, <3>3, <3>4
  <2> QED
    BY <2>1, <2>2
<1>8. Told(cs, es, ms2)
  BY <1>7 DEF Told
<1>9. Numbered(ms2)
  BY <1>1, <1>4 DEF Numbered
<1> QED
  BY <1>6, <1>8, <1>9

LEMMA PutAnswers ==
    ASSUME NEW d, Answers(d), NEW m, NEW n \in Nat,
           NumberedTo(In(d.messages, m.session), n), PutAt(m, n), AnswersAsked(d, m),
           NEW t, t.calls = d.calls, t.events = d.events,
           t.messages = {x \in d.messages : ~ (x.session = m.session /\ x.seq = m.seq)} \cup {m}
    PROVE  /\ Answers(t)
           /\ \A e : m.seq = n + 1 /\ Built(e, In(d.messages, m.session))
                     => Built(e, In(t.messages, m.session))
<1> DEFINE ms  == In(d.messages, m.session)
           ms2 == {x \in ms : x.seq # m.seq} \cup {m}
           cs  == In(d.calls, m.session)
           es  == In(d.events, m.session)
<1>1. In(t.messages, m.session) = ms2
  BY DEF In
<1>2. \A c \in cs, e \in es : Requests(c, e) /\ AnswerOf(m, c, e) => Built(e, ms)
  BY DEF AnswersAsked, AnswerOf
<1>3. Told(cs, es, ms)
  BY DEF Answers, Kept
<1>4. NumberedTo(ms, n)
  OBVIOUS
<1>5. \A s : s # m.session => In(t.messages, s) = In(d.messages, s)
  BY DEF In
<1>6. StepsNamed(t.messages)
  BY DEF AnswersAsked, Answers, StepsNamed
<1> HIDE DEF cs, es, ms
<1>7. /\ Numbered(ms2) /\ Told(cs, es, ms2)
      /\ \A e : Built(e, ms) /\ (m.seq = n => e.count < n) => Built(e, ms2)
  BY <1>2, <1>3, <1>4, PutTells
<1> HIDE DEF ms2
<1>8. ASSUME NEW s
      PROVE  Kept(t, s)
  <2>1. CASE s = m.session
    BY <1>1, <1>7, <2>1 DEF Kept, cs, es
  <2>2. CASE s # m.session
    BY <1>5, <2>2 DEF Answers, Kept
  <2> QED
    BY <2>1, <2>2
<1>9. Answers(t)
  BY <1>6, <1>8 DEF Answers
<1>10. m.seq = n + 1 => m.seq # n
  OBVIOUS
<1> QED
  BY <1>1, <1>7, <1>9, <1>10 DEF ms

LEMMA CutTells ==
    ASSUME NEW cs, NEW es, NEW ms, NEW n \in Nat, NumberedTo(ms, n), Told(cs, es, ms),
           NEW keep \in Int, NEW ms2, ms2 = {x \in ms : x.seq <= keep}
    PROVE  Numbered(ms2) /\ Told(cs, es, ms2)
<1>1. \A i \in Int : i <= keep => At(ms2, i) = At(ms, i)
  BY DEF At
<1>2. Numbered(ms2)
  <2> DEFINE k == IF keep < 0 THEN 0 ELSE IF n <= keep THEN n ELSE keep
  <2>1. k \in Nat /\ (\A i \in 1 .. k : i \in 1 .. n /\ i <= keep)
        /\ (\A i \in 1 .. n : i <= keep => i \in 1 .. k)
    OBVIOUS
  <2> HIDE DEF k
  <2>2. ASSUME NEW i \in 1 .. k
        PROVE  \E x \in ms2 : At(ms2, i) = {x}
    <3>1. PICK x \in ms : At(ms, i) = {x}
      BY <2>1 DEF NumberedTo
    <3>2. At(ms2, i) = {x}
      BY <1>1, <2>1, <3>1
    <3> QED
      BY <3>2 DEF At
  <2>3. \A x \in ms2 : x.seq \in 1 .. k
    BY <2>1 DEF NumberedTo
  <2> QED
    BY <2>1, <2>2, <2>3 DEF Numbered, NumberedTo
<1>3. ASSUME NEW c \in cs, NEW e \in es, Requests(c, e), NEW x \in ms2, AnswerOf(x, c, e)
      PROVE  Built(e, ms2)
  <2>1. Built(e, ms)
    BY <1>3 DEF Told
  <2>2. x.seq = e.count + 1 /\ x.seq <= keep /\ e.count \in Nat
    BY <1>3, <2>1 DEF AnswerOf, Built
  <2>3. \A i \in 1 .. e.count : At(ms2, i) = At(ms, i)
    BY <1>1, <2>2
  <2> QED
    BY <2>1, <2>3, BuiltStays
<1> QED
  BY <1>2, <1>3 DEF Told

LEMMA CutAnswers ==
    ASSUME NEW d, Answers(d), DOMAIN d = DbFields, NEW s, NEW keep \in Int
    PROVE  LET t == Truncate(d, s, keep)
           IN  /\ Answers(t) /\ t.calls = d.calls /\ t.events = d.events
               /\ \A u : u # s => In(t.messages, u) = In(d.messages, u)
<1> DEFINE t == Truncate(d, s, keep)
           ms == In(d.messages, s)
<1>1. /\ t.calls = d.calls /\ t.events = d.events
      /\ t.messages = {m \in d.messages : m.session # s \/ m.seq <= keep}
  BY DEF Truncate, DbFields
<1> HIDE DEF t
<1>2. /\ In(t.messages, s) = {x \in ms : x.seq <= keep}
      /\ \A u : u # s => In(t.messages, u) = In(d.messages, u)
  BY <1>1 DEF In
<1>3. PICK n \in Nat : NumberedTo(ms, n)
  BY DEF Answers, Kept, Numbered
<1>4. Told(In(d.calls, s), In(d.events, s), ms)
  BY DEF Answers, Kept
<1> HIDE DEF ms
<1>5. /\ Numbered(In(t.messages, s))
      /\ Told(In(d.calls, s), In(d.events, s), In(t.messages, s))
  BY <1>2, <1>3, <1>4, CutTells
<1>6. ASSUME NEW u
      PROVE  Kept(t, u)
  <2>1. CASE u = s
    BY <1>1, <1>5, <2>1 DEF Kept
  <2>2. CASE u # s
    BY <1>1, <1>2, <2>2 DEF Answers, Kept
  <2> QED
    BY <2>1, <2>2
<1>7. CallsStepped(t.calls) /\ StepsNamed(t.messages)
  BY <1>1 DEF Answers, StepsNamed
<1>8. Answers(t)
  BY <1>6, <1>7 DEF Answers
<1> QED
  BY <1>1, <1>2, <1>8 DEF t

-----------------------------------------------------------------------------
(* Transactions that change nothing about what was asked. *)

SameCall(b, c) ==
    /\ c.id = b.id /\ c.step = b.step /\ c.kind = b.kind
    /\ c.session = b.session /\ c.agent = b.agent /\ c.request = b.request

\* t has the messages of d, its steps' calls, and the requests of those.
Follow(d, t) ==
    /\ t.messages = d.messages
    /\ \A c \in t.calls :
          c.step = c.id /\ (c.kind = "step" => \E b \in d.calls : SameCall(b, c))
    /\ \A c \in t.calls, e \in t.events : Requests(c, e) => e \in d.events

\* While a run asks, all its requests are of the messages there are.
Asking == {"step", "request", "mentor", "complete", "store", "results", "close"}

RunAsks(d, r) ==
    /\ r.at = "turn" => \A c \in d.calls : c.agent = r.agent => c.kind # "step"
    /\ r.at \in Asking =>
          \A c \in In(d.calls, r.session), e \in In(d.events, r.session) :
              c.agent = r.agent /\ Requests(c, e) => Built(e, In(d.messages, r.session))

LEMMA FollowAnswers ==
    ASSUME NEW d, Answers(d), NEW t, Follow(d, t)
    PROVE  Answers(t)
<1>1. ASSUME NEW s
      PROVE  Kept(t, s)
  <2>1. In(t.messages, s) = In(d.messages, s)
    BY DEF Follow
  <2>2. Numbered(In(d.messages, s)) /\ Told(In(d.calls, s), In(d.events, s), In(d.messages, s))
    BY DEF Answers, Kept
  <2>3. ASSUME NEW c \in In(t.calls, s), NEW e \in In(t.events, s), Requests(c, e),
               NEW m \in In(d.messages, s), AnswerOf(m, c, e)
        PROVE  Built(e, In(d.messages, s))
    <3>1. PICK b \in d.calls : SameCall(b, c)
      BY <2>3 DEF Follow, In, Requests
    <3>2. b \in In(d.calls, s) /\ Requests(b, e) /\ AnswerOf(m, b, e)
      BY <2>3, <3>1 DEF SameCall, In, Requests, AnswerOf
    <3>3. e \in In(d.events, s)
      BY <2>3 DEF Follow, In
    <3> QED
      BY <2>2, <2>3, <3>2, <3>3 DEF Told
  <2>4. Told(In(t.calls, s), In(t.events, s), In(d.messages, s))
    BY <2>3 DEF Told
  <2> QED
    BY <2>1, <2>2, <2>4 DEF Kept
<1>2. CallsStepped(t.calls) /\ StepsNamed(t.messages)
  BY DEF Follow, Answers, CallsStepped
<1> QED
  BY <1>1, <1>2 DEF Answers

LEMMA FollowAsks ==
    ASSUME NEW d, NEW t, Follow(d, t), NEW r, NEW q, RunAsks(d, r),
           q.at \in Asking \cup {"turn"} => q.session = r.session /\ q.agent = r.agent,
           q.at = "turn" => r.at = "turn", q.at \in Asking => r.at \in Asking
    PROVE  RunAsks(t, q)
<1>1. ASSUME q.at = "turn", NEW c \in t.calls, c.agent = q.agent
      PROVE  c.kind # "step"
  BY <1>1 DEF Follow, SameCall, RunAsks
<1>2. ASSUME q.at \in Asking, NEW c \in In(t.calls, q.session), NEW e \in In(t.events, q.session),
             c.agent = q.agent, Requests(c, e)
      PROVE  Built(e, In(t.messages, q.session))
  <2>1. q.session = r.session /\ q.agent = r.agent /\ r.at \in Asking
    BY <1>2
  <2>2. PICK b \in d.calls : SameCall(b, c)
    BY <1>2 DEF Follow, In, Requests
  <2>3. b \in In(d.calls, r.session) /\ Requests(b, e) /\ b.agent = r.agent
    BY <1>2, <2>1, <2>2 DEF SameCall, In, Requests
  <2>4. e \in In(d.events, r.session) /\ In(t.messages, q.session) = In(d.messages, r.session)
    BY <1>2, <2>1 DEF Follow, In
  <2> QED
    BY <2>1, <2>3, <2>4 DEF RunAsks
<1> QED
  BY <1>1, <1>2 DEF RunAsks

\* t is d with more events, and with calls written again or a title's added.
Wrote(d, t) ==
    /\ t.messages = d.messages /\ d.events \subseteq t.events
    /\ \A c \in t.calls : \/ \E b \in d.calls : SameCall(b, c)
                          \/ c.kind # "step" /\ c.step = c.id

OwnIds(events) == \A x, y \in events : x.id = y.id => x = y

\* Every call's request is recorded.
CallsAsked(d) == \A c \in d.calls : \E e \in d.events : e.id = c.request

LEMMA WroteFollows ==
    ASSUME NEW d, CallsAsked(d), CallsStepped(d.calls), NEW t, Wrote(d, t), OwnIds(t.events)
    PROVE  Follow(d, t)
<1>1. ASSUME NEW c \in t.calls, NEW e \in t.events, Requests(c, e)
      PROVE  e \in d.events
  <2>1. PICK b \in d.calls : SameCall(b, c)
    BY <1>1 DEF Requests, Wrote
  <2>2. PICK x \in d.events : x.id = b.request
    BY DEF CallsAsked
  <2>3. x \in t.events /\ x.id = e.id
    BY <1>1, <2>1, <2>2 DEF Wrote, SameCall, Requests
  <2> QED
    BY <2>3 DEF OwnIds
<1>2. \A c \in t.calls :
          c.step = c.id /\ (c.kind = "step" => \E b \in d.calls : SameCall(b, c))
  BY DEF CallsStepped, SameCall, Wrote
<1> QED
  BY <1>1, <1>2 DEF Follow, Wrote

LEMMA WroteTwice ==
    ASSUME NEW d, NEW t, NEW u, Wrote(d, t), Wrote(t, u)
    PROVE  Wrote(d, u)
<1>1. ASSUME NEW c \in u.calls
      PROVE  (\E b \in d.calls : SameCall(b, c)) \/ (c.kind # "step" /\ c.step = c.id)
  <2>1. CASE c.kind # "step" /\ c.step = c.id
    BY <2>1
  <2>2. CASE \E b \in t.calls : SameCall(b, c)
    <3>1. PICK a \in t.calls : SameCall(a, c)
      BY <2>2
    <3>2. CASE \E b \in d.calls : SameCall(b, a)
      BY <3>1, <3>2 DEF SameCall
    <3>3. CASE a.kind # "step" /\ a.step = a.id
      BY <3>1, <3>3 DEF SameCall
    <3> QED
      BY <3>2, <3>3 DEF Wrote
  <2> QED
    BY <2>1, <2>2 DEF Wrote
<1> QED
  BY <1>1 DEF Wrote

\* The tables that say it are as they were.
Untouched(d, t) == t.messages = d.messages /\ t.calls = d.calls /\ t.events = d.events

LEMMA UntouchedWrote ==
    ASSUME NEW d, NEW t, Untouched(d, t)
    PROVE  Wrote(d, t)
BY DEF Wrote, Untouched, SameCall

LEMMA InsertWrote ==
    ASSUME NEW d, NEW d2, DOMAIN d2 = DbFields, Untouched(d, d2), NEW s, NEW e
    PROVE  LET t == InsertEvent(d2, s, e)
           IN  Wrote(d, t) /\ DOMAIN t = DbFields /\ t.calls = d.calls
<1> DEFINE t == InsertEvent(d2, s, e)
           x == EventRow(s, LastSeq(d2, s) + 1, e)
<1>1. /\ t.messages = d2.messages /\ t.calls = d2.calls /\ t.events = d2.events \cup {x}
      /\ DOMAIN t = DbFields
  BY InsertWrites
<1> HIDE DEF t, x
<1>2. Wrote(d, t) /\ t.calls = d.calls
  BY <1>1 DEF Wrote, Untouched, SameCall
<1> QED
  BY <1>1, <1>2 DEF t

\* Sessions, agents and steps say nothing of it, nor do counts.
LEMMA TablesApart ==
    ASSUME NEW d, DOMAIN d = DbFields
    PROVE  \A rows :
               /\ Untouched(d, [d EXCEPT !.sessions = rows]) /\ Untouched(d, [d EXCEPT !.agents = rows])
               /\ Untouched(d, [d EXCEPT !.steps = rows]) /\ Untouched(d, [d EXCEPT !.refs = rows])
               /\ DOMAIN [d EXCEPT !.sessions = rows] = DbFields
               /\ DOMAIN [d EXCEPT !.agents = rows] = DbFields
               /\ DOMAIN [d EXCEPT !.steps = rows] = DbFields
               /\ DOMAIN [d EXCEPT !.refs = rows] = DbFields
BY DEF Untouched, DbFields

LEMMA PlainWrites ==
    ASSUME NEW d, DOMAIN d = DbFields, NEW s, NEW a
    PROVE  /\ \A source : Untouched(d, SetTitle(d, s, source)) /\ DOMAIN SetTitle(d, s, source) = DbFields
           /\ \A status : Wrote(d, SetStatus(d, s, status))
           /\ Wrote(d, CreateSession(d, s)) /\ Wrote(d, StartAgent(d, s, a))
           /\ \A status : Wrote(d, FinishAgent(d, s, a, status))
           /\ Wrote(d, StartStep(d, a))
           /\ \A status : Wrote(d, FinishStep(d, a, status))
           /\ \A c : Wrote(d, PutBlob(d, c))
<1>1. ASSUME NEW source
      PROVE  Untouched(d, SetTitle(d, s, source)) /\ DOMAIN SetTitle(d, s, source) = DbFields
  BY TablesApart DEF SetTitle, SetSession, Untouched
<1>2. ASSUME NEW status
      PROVE  Wrote(d, SetStatus(d, s, status))
  BY TablesApart, InsertWrote DEF SetStatus, SetSession
<1>3. Wrote(d, CreateSession(d, s)) /\ Wrote(d, StartAgent(d, s, a))
  BY TablesApart, InsertWrote DEF CreateSession, StartAgent
<1>4. ASSUME NEW status
      PROVE  Wrote(d, FinishAgent(d, s, a, status))
  BY TablesApart, InsertWrote DEF FinishAgent
<1>5. Wrote(d, StartStep(d, a))
  BY TablesApart, UntouchedWrote DEF StartStep
<1>6. ASSUME NEW status
      PROVE  Wrote(d, FinishStep(d, a, status))
  BY TablesApart, UntouchedWrote DEF FinishStep
<1>7. ASSUME NEW c
      PROVE  Wrote(d, PutBlob(d, c))
  BY TablesApart, UntouchedWrote DEF PutBlob
<1> QED
  BY <1>1, <1>2, <1>3, <1>4, <1>5, <1>6, <1>7

LEMMA ResponseWrites ==
    ASSUME NEW d, DOMAIN d = DbFields, \A c \in d.calls : DOMAIN c = CallFields,
           NEW s, NEW a, NEW step, NEW r
    PROVE  /\ Wrote(d, RecordResponse(d, s, a, step, r)) /\ Wrote(d, RecordError(d, s, a, step))
           /\ DOMAIN RecordResponse(d, s, a, step, r) = DbFields
           /\ DOMAIN RecordError(d, s, a, step) = DbFields
<1>1. ASSUME NEW e, NEW calls, \A c \in calls : \E b \in d.calls : SameCall(b, c)
      PROVE  LET t == [InsertEvent(d, s, e) EXCEPT !.calls = calls]
             IN  Wrote(d, t) /\ DOMAIN t = DbFields
  <2> DEFINE d2 == InsertEvent(d, s, e)
             t  == [d2 EXCEPT !.calls = calls]
  <2>1. DOMAIN d2 = DbFields /\ Wrote(d, d2)
    BY InsertWrote DEF Untouched
  <2> HIDE DEF d2
  <2>2. t.messages = d2.messages /\ t.events = d2.events /\ t.calls = calls /\ DOMAIN t = DbFields
    BY <2>1 DEF DbFields
  <2> HIDE DEF t
  <2>3. Wrote(d, t)
    BY <1>1, <2>1, <2>2 DEF Wrote
  <2> QED
    BY <2>2, <2>3 DEF t, d2
<1>2. \A e : InsertEvent(d, s, e).calls = d.calls
  BY InsertWrites
<1>3. Wrote(d, RecordResponse(d, s, a, step, r)) /\ DOMAIN RecordResponse(d, s, a, step, r) = DbFields
  <2> DEFINE e == [WithBody(Event("mentor.response", a), ReplyBlob(r)) EXCEPT !.raw = StreamBlob(step)]
             next == NextEvent(d, s)
             calls == {IF c.id = step THEN [c EXCEPT !.status = "ok", !.response = next] ELSE c
                         : c \in d.calls}
  <2> HIDE DEF next
  <2>1. ASSUME NEW q \in calls
        PROVE  \E b \in d.calls : SameCall(b, q)
    <3>1. PICK c \in d.calls :
              q = IF c.id = step THEN [c EXCEPT !.status = "ok", !.response = next] ELSE c
      OBVIOUS
    <3>2. DOMAIN c = CallFields
      OBVIOUS
    <3> QED
      BY <3>1, <3>2 DEF SameCall, CallFields
  <2>2. RecordResponse(d, s, a, step, r) = [InsertEvent(d, s, e) EXCEPT !.calls = calls]
    BY <1>2 DEF RecordResponse, next, Set
  <2> HIDE DEF e, calls
  <2> DEFINE t == [InsertEvent(d, s, e) EXCEPT !.calls = calls]
  <2>3. Wrote(d, t) /\ DOMAIN t = DbFields
    BY <1>1, <2>1
  <2> HIDE DEF t
  <2> QED
    BY <2>2, <2>3 DEF t
<1>4. Wrote(d, RecordError(d, s, a, step)) /\ DOMAIN RecordError(d, s, a, step) = DbFields
  <2> DEFINE e == Event("mentor.error", a)
             calls == {IF c.id = step THEN [c EXCEPT !.status = "error"] ELSE c : c \in d.calls}
  <2>1. ASSUME NEW q \in calls
        PROVE  \E b \in d.calls : SameCall(b, q)
    <3>1. PICK c \in d.calls : q = IF c.id = step THEN [c EXCEPT !.status = "error"] ELSE c
      OBVIOUS
    <3>2. DOMAIN c = CallFields
      OBVIOUS
    <3> QED
      BY <3>1, <3>2 DEF SameCall, CallFields
  <2>2. RecordError(d, s, a, step) = [InsertEvent(d, s, e) EXCEPT !.calls = calls]
    BY <1>2 DEF RecordError, Set
  <2> HIDE DEF e, calls
  <2> QED
    BY <1>1, <2>1, <2>2
<1> QED
  BY <1>3, <1>4

\* What a request writes: the event, the call, nothing else of these.
LEMMA RequestWrites ==
    ASSUME NEW d, DOMAIN d = DbFields, NEW s, NEW a, NEW step, NEW kind, NEW body, NEW count
    PROVE  LET t == RecordRequest(d, s, a, step, kind, body, count)
           IN  /\ t.messages = d.messages /\ DOMAIN t = DbFields
               /\ \E e : /\ t.events = d.events \cup {e} /\ e.id = NextEvent(d, s)
                         /\ e.session = s /\ e.body = body /\ e.count = count
               /\ \E c : /\ t.calls = d.calls \cup {c} /\ c.id = step /\ c.step = step
                         /\ c.kind = kind /\ c.session = s /\ c.agent = a
                         /\ c.request = NextEvent(d, s)
<1> DEFINE e  == [WithBody(Event("mentor.request", a), body) EXCEPT !.count = count]
           x  == EventRow(s, LastSeq(d, s) + 1, e)
           d2 == InsertEvent(d, s, e)
           c  == [id |-> step, session |-> s, agent |-> a, step |-> step, request |-> NextEvent(d, s),
                  response |-> None, kind |-> kind, status |-> "running"]
           t  == [d2 EXCEPT !.calls = @ \cup {c}]
<1>1. e.body = body /\ e.count = count
  BY DEF WithBody, Event
<1> HIDE DEF e
<1>2. /\ DOMAIN d2 = DbFields /\ d2.messages = d.messages /\ d2.calls = d.calls
      /\ d2.events = d.events \cup {x} /\ x.id = NextEvent(d, s) /\ x.body = e.body
  BY InsertWrites
<1>3. x.session = s /\ x.count = e.count
  BY DEF EventRow
<1>4. /\ c.id = step /\ c.step = step /\ c.kind = kind /\ c.session = s /\ c.agent = a
      /\ c.request = NextEvent(d, s)
  OBVIOUS
<1>5. RecordRequest(d, s, a, step, kind, body, count) = t
  BY DEF RecordRequest, e
<1> HIDE DEF d2, c, x
<1>6. /\ t.messages = d2.messages /\ t.events = d2.events /\ t.calls = d2.calls \cup {c}
      /\ DOMAIN t = DbFields
  BY <1>2 DEF DbFields
<1> HIDE DEF t
<1> QED
  BY <1>1, <1>2, <1>3, <1>4, <1>5, <1>6

LEMMA RecoverWrites ==
    ASSUME NEW d, DOMAIN d = DbFields, \A c \in d.calls : DOMAIN c = CallFields, NEW a
    PROVE  Wrote(d, RecoverAgent(d, a))
<1> DEFINE s     == (CHOOSE r \in d.agents : r.id = a).session
           steps == {IF r.agent = a /\ r.status = "running"
                     THEN [r EXCEPT !.status = "error"] ELSE r : r \in d.steps}
           calls == {IF r.agent = a /\ r.status = "running"
                     THEN [r EXCEPT !.status = "error"] ELSE r : r \in d.calls}
           d2    == [d EXCEPT !.steps = steps, !.calls = calls]
           d3    == FinishAgent(d2, s, a, "error")
<1>1. ASSUME NEW q \in calls
      PROVE  \E b \in d.calls : SameCall(b, q)
  <2>1. PICK c \in d.calls : q = IF c.agent = a /\ c.status = "running"
                                 THEN [c EXCEPT !.status = "error"] ELSE c
    OBVIOUS
  <2>2. DOMAIN c = CallFields
    OBVIOUS
  <2> QED
    BY <2>1, <2>2 DEF SameCall, CallFields
<1>2. RecoverAgent(d, a) = InsertEvent(d3, s, Event("outcome", a))
  BY DEF RecoverAgent
<1> HIDE DEF steps, calls, s
<1>3. DOMAIN d2 = DbFields /\ d2.messages = d.messages /\ d2.events = d.events /\ d2.calls = calls
  BY DEF DbFields
<1> HIDE DEF d2
<1>4. Wrote(d, d2)
  BY <1>1, <1>3 DEF Wrote
<1>5. Wrote(d2, d3) /\ DOMAIN d3 = DbFields
  <2>1. \A rows : Untouched(d2, [d2 EXCEPT !.agents = rows]) /\ DOMAIN [d2 EXCEPT !.agents = rows] = DbFields
    BY <1>3, TablesApart
  <2> QED
    BY <2>1, InsertWrote DEF FinishAgent
<1> HIDE DEF d3
<1>6. Wrote(d3, InsertEvent(d3, s, Event("outcome", a)))
  BY <1>5, InsertWrote DEF Untouched
<1> QED
  BY <1>2, <1>4, <1>5, <1>6, WroteTwice

-----------------------------------------------------------------------------
(* The actions. *)

\* No text of a redacted table has a secret in it.
NothingSecret(t) ==
    /\ \A m \in t.messages : ToSet(m.texts) \cap Secrets = {}
    /\ \A c \in t.blobs : HideBlob(c) = c

FileAnswers ==
    /\ file.kind = "bundle" =>
          Answers(file.rows) /\ (file.redacted => NothingSecret(file.rows))
    /\ file.kind = "session" =>
          CallsStepped(file.calls) /\ StepsNamed(file.messages) /\ Numbered(file.messages)

ReplayInv == Answers(db) /\ RunAsks(db, run) /\ FileAnswers

\* What the tables give: the store's, before and after.
LEMMA TablesGive ==
    ASSUME StoreInv
    PROVE  /\ DOMAIN db = DbFields /\ OwnIds(db.events) /\ CallsAsked(db)
           /\ \A c \in db.calls : DOMAIN c = CallFields /\ CallNamed(c, Given)
BY DEF StoreInv, Sound, Whole, Linked, EventsOK, CallsOK, OwnIds, CallsAsked, IsHome

LEMMA TablesGiveNext ==
    ASSUME StoreInv'
    PROVE  OwnIds(db'.events)
BY DEF StoreInv, Sound, Whole, Linked, EventsOK, OwnIds

LEMMA WroteAnswers ==
    ASSUME StoreInv, StoreInv', Answers(db), Wrote(db, db')
    PROVE  Follow(db, db') /\ Answers(db')
<1>1. CallsAsked(db) /\ OwnIds(db'.events)
  BY TablesGive, TablesGiveNext
<1>2. Follow(db, db')
  BY <1>1, WroteFollows DEF Answers
<1> QED
  BY <1>2, FollowAnswers

LEMMA WroteKeeps ==
    ASSUME StoreInv, StoreInv', ReplayInv, UNCHANGED file, Wrote(db, db'),
           run'.at \in Asking \cup {"turn"} => run'.session = run.session /\ run'.agent = run.agent,
           run'.at = "turn" => run.at = "turn", run'.at \in Asking => run.at \in Asking
    PROVE  ReplayInv'
<1>1. Follow(db, db') /\ Answers(db')
  BY WroteAnswers DEF ReplayInv
<1>2. RunAsks(db', run')
  BY <1>1, FollowAsks DEF ReplayInv
<1>3. FileAnswers'
  BY DEF ReplayInv, FileAnswers
<1> QED
  BY <1>1, <1>2, <1>3 DEF ReplayInv

\* Where the run goes when it goes on asking, or ends.
RunGoes ==
    /\ run'.at \in Asking => run.at \in Asking
    /\ run'.at # "turn"
    /\ run'.at \in Asking => run'.session = run.session /\ run'.agent = run.agent

LEMMA PlainRunSteps ==
    ASSUME StoreInv, StoreInv', ReplayInv, UNCHANGED transfers,
           \/ RunStep \/ RunFail \/ (\E r \in Replies : RunReply(r)) \/ RunComplete
           \/ RunClose \/ RunFinish \/ (\E s \in Sessions, p \in Prompts : RunLoad(s, p))
    PROVE  ReplayInv'
<1> SUFFICES Wrote(db, db') /\ RunGoes
  BY WroteKeeps DEF RunGoes, transfers
<1>1. /\ DOMAIN run = {"at", "session", "agent", "step", "prompt", "reply"}
      /\ DOMAIN db = DbFields /\ \A c \in db.calls : DOMAIN c = CallFields
  BY TablesGive DEF StoreInv, RunFits
<1>2. ASSUME NEW where, RunTo(where), run.at \in Asking, where # "turn"
      PROVE  RunGoes
  BY <1>1, <1>2 DEF RunTo, RunGoes
<1>3. CASE RunStep
  <2>1. Wrote(db, db')
    BY <1>1, <1>3, PlainWrites DEF RunStep
  <2>2. RunGoes
    BY <1>1, <1>3 DEF RunStep, RunAt, RunGoes, Asking
  <2> QED
    BY <2>1, <2>2
<1>4. CASE RunFail
  <2> DEFINE u == RecordError(db, run.session, run.agent, run.step)
  <2>1. Wrote(db, u) /\ DOMAIN u = DbFields
    BY <1>1, ResponseWrites
  <2>2. db' = FinishStep(u, run.step, "error")
    BY <1>4 DEF RunFail
  <2> HIDE DEF u
  <2>3. Wrote(u, db')
    BY <2>1, <2>2, PlainWrites
  <2>4. RunGoes
    BY <1>1, <1>4 DEF RunFail, RunAt, RunGoes, Asking
  <2> QED
    BY <2>1, <2>3, <2>4, WroteTwice
<1>5. ASSUME NEW r \in Replies, RunReply(r)
      PROVE  Wrote(db, db') /\ RunGoes
  <2>1. Wrote(db, db')
    BY <1>1, <1>5, PlainWrites DEF RunReply
  <2>2. RunGoes
    BY <1>1, <1>5 DEF RunReply, RunAt, RunGoes, Asking
  <2> QED
    BY <2>1, <2>2
<1>6. CASE RunComplete
  <2>1. Wrote(db, db')
    BY <1>1, <1>6, ResponseWrites DEF RunComplete
  <2>2. RunGoes
    BY <1>2, <1>6 DEF RunComplete, RunAt, Asking
  <2> QED
    BY <2>1, <2>2
<1>7. CASE RunClose
  <2>1. Wrote(db, db')
    BY <1>1, <1>7, PlainWrites DEF RunClose
  <2>2. RunGoes
    <3>1. run.at \in Asking
      BY <1>7 DEF RunClose, RunAt, Asking
    <3>2. RunTo(IF run.reply = Uses THEN "step" ELSE "finish")
      BY <1>7 DEF RunClose
    <3>3. (IF run.reply = Uses THEN "step" ELSE "finish") # "turn"
      OBVIOUS
    <3> QED
      BY <1>2, <3>1, <3>2, <3>3
  <2> QED
    BY <2>1, <2>2
<1>8. CASE RunFinish
  <2>1. Wrote(db, db')
    BY <1>1, <1>8, PlainWrites DEF RunFinish
  <2>2. RunGoes
    BY <1>8 DEF RunFinish, RunGoes, NoRun, Asking
  <2> QED
    BY <2>1, <2>2
<1>9. ASSUME NEW s \in Sessions, NEW p \in Prompts, RunLoad(s, p)
      PROVE  Wrote(db, db') /\ RunGoes
  <2>1. Wrote(db, db')
    BY <1>9, UntouchedWrote DEF RunLoad, Untouched
  <2>2. RunGoes
    BY <1>9 DEF RunLoad, RunGoes, NoRun, Asking
  <2> QED
    BY <2>1, <2>2
<1> QED
  BY <1>3, <1>4, <1>5, <1>6, <1>7, <1>8, <1>9

\* The run stays where it is, or a crash ends it.
LEMMA RestSteps ==
    ASSUME StoreInv, StoreInv', ReplayInv, UNCHANGED file, Wrote(db, db'),
           UNCHANGED run \/ run' = NoRun
    PROVE  ReplayInv'
<1>1. /\ run'.at \in Asking \cup {"turn"} => run'.session = run.session /\ run'.agent = run.agent
      /\ run'.at = "turn" => run.at = "turn"
      /\ run'.at \in Asking => run.at \in Asking
  BY DEF NoRun, Asking
<1> QED
  BY <1>1, WroteKeeps

LEMMA TitleSteps ==
    ASSUME StoreInv, StoreInv', ReplayInv, UNCHANGED transfers, Titles
    PROVE  ReplayInv'
<1> SUFFICES Wrote(db, db') /\ UNCHANGED run
  BY RestSteps DEF transfers
<1>1. DOMAIN db = DbFields /\ \A c \in db.calls : DOMAIN c = CallFields
  BY TablesGive
<1>2. Wrote(db, db)
  BY UntouchedWrote DEF Untouched
<1>3. UNCHANGED run
  BY DEF Titles, TitleStep, TitleRequest, TitleFail, TitleReply, TitleComplete, TitleSet, TitleOnly
<1>4. CASE TitleStep
  BY <1>1, <1>2, <1>3, <1>4, PlainWrites DEF TitleStep
<1>5. CASE TitleRequest
  <2>1. CASE db' = RecordRequest(db, title.session, title.agent, title.step, "title",
                                 TitleBlob(title.prompt), 1)
    <3> DEFINE kind  == "title"
               body  == TitleBlob(title.prompt)
               count == 1
               t     == RecordRequest(db, title.session, title.agent, title.step, kind, body, count)
    <3> HIDE DEF kind, body, count
    <3>1. /\ t.messages = db.messages /\ DOMAIN t = DbFields
          /\ \E e : /\ t.events = db.events \cup {e} /\ e.id = NextEvent(db, title.session)
                    /\ e.session = title.session /\ e.body = body /\ e.count = count
          /\ \E c : /\ t.calls = db.calls \cup {c} /\ c.id = title.step /\ c.step = title.step
                    /\ c.kind = kind /\ c.session = title.session /\ c.agent = title.agent
                    /\ c.request = NextEvent(db, title.session)
      BY <1>1, RequestWrites
    <3> HIDE DEF t
    <3>2. Wrote(db, t)
      BY <3>1 DEF Wrote, SameCall, kind
    <3> QED
      BY <1>3, <2>1, <3>2 DEF t, kind, body, count
  <2> QED
    BY <1>2, <1>3, <1>5, <2>1 DEF TitleRequest
<1>6. CASE TitleFail
  <2> DEFINE u == RecordError(db, title.session, title.agent, title.step)
  <2>1. Wrote(db, u) /\ DOMAIN u = DbFields
    BY <1>1, ResponseWrites
  <2>2. db' = FinishStep(u, title.step, "error") \/ db' = db
    BY <1>6 DEF TitleFail
  <2> HIDE DEF u
  <2>3. Wrote(u, FinishStep(u, title.step, "error"))
    BY <2>1, PlainWrites
  <2> QED
    BY <1>2, <1>3, <2>1, <2>2, <2>3, WroteTwice
<1>7. CASE TitleReply
  BY <1>1, <1>3, <1>7, PlainWrites DEF TitleReply
<1>8. CASE TitleComplete
  <2> DEFINE u == RecordResponse(db, title.session, title.agent, title.step, Answer)
  <2>1. Wrote(db, u) /\ DOMAIN u = DbFields
    BY <1>1, ResponseWrites
  <2>2. db' = FinishStep(u, title.step, "ok") \/ db' = db
    BY <1>8 DEF TitleComplete
  <2> HIDE DEF u
  <2>3. Wrote(u, FinishStep(u, title.step, "ok"))
    BY <2>1, PlainWrites
  <2> QED
    BY <1>2, <1>3, <2>1, <2>2, <2>3, WroteTwice
<1>9. CASE TitleSet
  <2> DEFINE u == SetTitle(db, title.session, "generated")
  <2>1. Untouched(db, u) /\ DOMAIN u = DbFields
    BY <1>1, PlainWrites
  <2>2. db' = InsertEvent(u, title.session, Event("session.title", title.agent)) \/ db' = db
    BY <1>9 DEF TitleSet
  <2> HIDE DEF u
  <2> QED
    BY <1>2, <1>3, <2>1, <2>2, InsertWrote
<1> QED
  BY <1>3, <1>4, <1>5, <1>6, <1>7, <1>8, <1>9 DEF Titles

LEMMA RestartSteps ==
    ASSUME StoreInv, StoreInv', ReplayInv, UNCHANGED transfers, Restarts
    PROVE  ReplayInv'
<1> SUFFICES Wrote(db, db') /\ (UNCHANGED run \/ run' = NoRun)
  BY RestSteps DEF transfers
<1>1. DOMAIN db = DbFields /\ \A c \in db.calls : DOMAIN c = CallFields
  BY TablesGive
<1>2. Wrote(db, db)
  BY UntouchedWrote DEF Untouched
<1>3. ASSUME NEW a \in Orphans, Recover(a)
      PROVE  Wrote(db, db') /\ UNCHANGED run
  BY <1>1, <1>3, RecoverWrites DEF Recover
<1> QED
  BY <1>2, <1>3 DEF Restarts, Crash, Serve

-----------------------------------------------------------------------------
(* Where a message is put or cut. *)

LEMMA PutFields ==
    ASSUME NEW d, DOMAIN d = DbFields, NEW m
    PROVE  LET t == PutMessage(d, m)
           IN  /\ DOMAIN t = DbFields /\ t.calls = d.calls /\ t.events = d.events
               /\ t.messages = {x \in d.messages : ~ (x.session = m.session /\ x.seq = m.seq)} \cup {m}
BY DEF PutMessage, DbFields

LEMMA PutUserFields ==
    ASSUME NEW d, DOMAIN d = DbFields, NEW s, NEW text
    PROVE  LET t == PutUserText(d, s, text)
           IN  DOMAIN t = DbFields /\ t.calls = d.calls /\ t.events = d.events
<1>1. \A m : LET t == PutMessage(d, m)
             IN  DOMAIN t = DbFields /\ t.calls = d.calls /\ t.events = d.events
  BY PutFields
<1>2. \E m : PutUserText(d, s, text) = PutMessage(d, m)
  BY DEF PutUserText
<1> QED
  BY <1>1, <1>2

LEMMA PutUserAnswers ==
    ASSUME NEW d, DOMAIN d = DbFields, Answers(d), NEW s, NEW text
    PROVE  Answers(PutUserText(d, s, text))
<1>1. PICK n \in Nat : NumberedTo(In(d.messages, s), n)
  BY DEF Answers, Kept, Numbered
<1>2. Len(Messages(d, s)) = n
  BY <1>1, MessagesAre
<1>3. ASSUME NEW m, m.session = s, m.role = "user", PutAt(m, n)
      PROVE  Answers(PutMessage(d, m))
  <2> DEFINE t == PutMessage(d, m)
  <2>1. /\ t.calls = d.calls /\ t.events = d.events
        /\ t.messages = {x \in d.messages : ~ (x.session = m.session /\ x.seq = m.seq)} \cup {m}
    BY PutFields
  <2> HIDE DEF t
  <2>2. AnswersAsked(d, m)
    BY <1>3 DEF AnswersAsked
  <2>3. NumberedTo(In(d.messages, m.session), n)
    BY <1>1, <1>3
  <2>4. Answers(t)
    BY <1>3, <2>1, <2>2, <2>3, PutAnswers
  <2> QED
    BY <2>4 DEF t
<1>4. PICK m : /\ PutUserText(d, s, text) = PutMessage(d, m)
               /\ m.session = s /\ m.role = "user" /\ PutAt(m, n)
  <2>1. CASE n > 0 /\ Messages(d, s)[n].role = "user"
    <3> DEFINE m == Message(s, n, "user", Append(Messages(d, s)[n].texts, text), None)
    <3>1. m.session = s /\ m.role = "user" /\ PutAt(m, n)
      BY <2>1 DEF Message, PutAt
    <3>2. PutUserText(d, s, text) = PutMessage(d, m)
      BY <1>2, <2>1 DEF PutUserText
    <3> QED
      BY <3>1, <3>2
  <2>2. CASE ~ (n > 0 /\ Messages(d, s)[n].role = "user")
    <3> DEFINE m == Message(s, n + 1, "user", <<text>>, None)
    <3>1. m.session = s /\ m.role = "user" /\ PutAt(m, n)
      BY DEF Message, PutAt
    <3>2. PutUserText(d, s, text) = PutMessage(d, m)
      BY <1>2, <2>2 DEF PutUserText
    <3> QED
      BY <3>1, <3>2
  <2> QED
    BY <2>1, <2>2
<1> QED
  BY <1>3, <1>4

LEMMA PutNextAnswers ==
    ASSUME NEW d, DOMAIN d = DbFields, Answers(d), NEW s, NEW role, NEW text, NEW step,
           \A n : AnswersAsked(d, Message(s, n, role, <<text>>, step))
    PROVE  LET t == PutNext(d, s, role, text, step)
           IN  /\ Answers(t) /\ t.calls = d.calls /\ t.events = d.events
               /\ \A e : Built(e, In(d.messages, s)) => Built(e, In(t.messages, s))
<1> DEFINE m == Message(s, Len(Messages(d, s)) + 1, role, <<text>>, step)
           t == PutMessage(d, m)
<1>1. PICK n \in Nat : NumberedTo(In(d.messages, s), n)
  BY DEF Answers, Kept, Numbered
<1>2. Len(Messages(d, s)) = n
  BY <1>1, MessagesAre
<1>3. m.session = s /\ m.seq = n + 1 /\ PutAt(m, n) /\ AnswersAsked(d, m)
  BY <1>2 DEF Message, PutAt
<1>4. PutNext(d, s, role, text, step) = t
  BY DEF PutNext
<1> HIDE DEF m
<1>5. /\ t.calls = d.calls /\ t.events = d.events
      /\ t.messages = {x \in d.messages : ~ (x.session = m.session /\ x.seq = m.seq)} \cup {m}
  BY PutFields
<1> HIDE DEF t
<1>6. NumberedTo(In(d.messages, m.session), n)
  BY <1>1, <1>3
<1>7. /\ Answers(t)
      /\ \A e : m.seq = n + 1 /\ Built(e, In(d.messages, m.session))
                => Built(e, In(t.messages, m.session))
  BY <1>3, <1>5, <1>6, PutAnswers
<1> QED
  BY <1>3, <1>4, <1>5, <1>7

-----------------------------------------------------------------------------
(* The run's own actions. *)

LEMMA FileSame ==
    ASSUME ReplayInv, UNCHANGED transfers
    PROVE  FileAnswers'
BY DEF ReplayInv, FileAnswers, transfers

LEMMA RunStartAnswers ==
    ASSUME StoreInv, StoreInv', ReplayInv, UNCHANGED transfers, RunStart
    PROVE  ReplayInv'
<1>1. DOMAIN db = DbFields /\ (\A c \in db.calls : CallNamed(c, Given))
  BY TablesGive
<1>2. run.at = "start" /\ db' = StartAgent(db, run.session, run.agent) /\ RunTo("turn")
  BY DEF RunStart, RunAt
<1> DEFINE rows == db.agents \cup {[id |-> run.agent, session |-> run.session, status |-> "running"]}
           d2   == [db EXCEPT !.agents = rows]
           e    == Event("agent.started", run.agent)
<1>3. Wrote(db, db') /\ db'.calls = db.calls
  <2> HIDE DEF rows, e
  <2>1. Untouched(db, d2) /\ DOMAIN d2 = DbFields
    BY <1>1, TablesApart
  <2>2. db' = InsertEvent(d2, run.session, e)
    BY <1>2 DEF StartAgent, rows, e
  <2> HIDE DEF d2
  <2> QED
    BY <2>1, <2>2, InsertWrote
<1>4. Answers(db')
  BY <1>3, WroteAnswers DEF ReplayInv
<1>5. Given = runs - 1 /\ run.agent = <<run.session, runs>> /\ runs \in Nat
  BY <1>2 DEF StoreInv, RunFits, Given
<1>6. ASSUME NEW c \in db.calls
      PROVE  c.agent # run.agent
  <2>1. PICK k \in 1 .. Given : c.agent = <<c.session, k>>
    BY <1>1 DEF CallNamed
  <2>2. k # runs
    BY <1>5
  <2> QED
    BY <1>5, <2>1, <2>2
<1>7. run'.at = "turn" /\ run'.agent = run.agent
  BY <1>2 DEF RunTo, StoreInv, RunFits
<1>8. RunAsks(db', run')
  BY <1>3, <1>6, <1>7 DEF RunAsks, Asking
<1> QED
  BY <1>4, <1>8, FileSame DEF ReplayInv

LEMMA RunRepairAnswers ==
    ASSUME StoreInv, StoreInv', ReplayInv, UNCHANGED transfers, RunRepair
    PROVE  ReplayInv'
<1> DEFINE keep == Len(Messages(db, run.session)) - 1
           u    == Truncate(db, run.session, keep)
<1>1. DOMAIN db = DbFields /\ CallsAsked(db) /\ CallsStepped(db.calls)
  BY TablesGive DEF ReplayInv, Answers
<1>2. keep \in Int
  <2>1. PICK n \in Nat : NumberedTo(In(db.messages, run.session), n)
    BY DEF ReplayInv, Answers, Kept, Numbered
  <2> QED
    BY <2>1, MessagesAre
<1>3. db' = InsertEvent(u, run.session, Event("session.repaired", None)) /\ RunTo("start")
  BY DEF RunRepair
<1> HIDE DEF keep
<1>4. Answers(u) /\ u.calls = db.calls /\ u.events = db.events
  BY <1>1, <1>2, CutAnswers DEF ReplayInv
<1>5. DOMAIN u = DbFields
  BY <1>1 DEF Truncate, DbFields
<1> HIDE DEF u
<1>6. Wrote(u, db')
  BY <1>3, <1>5, InsertWrote DEF Untouched
<1>7. Follow(u, db')
  BY <1>1, <1>4, <1>6, TablesGiveNext, WroteFollows DEF CallsAsked
<1>8. Answers(db')
  BY <1>4, <1>7, FollowAnswers
<1>9. RunAsks(db', run')
  BY <1>3 DEF RunTo, StoreInv, RunFits, RunAsks, Asking
<1> QED
  BY <1>8, <1>9, FileSame DEF ReplayInv

LEMMA RunTurnAnswers ==
    ASSUME StoreInv, StoreInv', ReplayInv, UNCHANGED transfers, RunTurn
    PROVE  ReplayInv'
<1>1. DOMAIN db = DbFields /\ CallsAsked(db) /\ CallsStepped(db.calls)
  BY TablesGive DEF ReplayInv, Answers
<1>2. PICK d : /\ d = db \/ d = SetTitle(db, run.session, "prompt")
               /\ db' = PutUserText(InsertEvent(d, run.session,
                            WithBody(Event("user.message", run.agent), TextBlob(run.prompt))),
                            run.session, run.prompt)
  BY DEF RunTurn
<1> DEFINE e == WithBody(Event("user.message", run.agent), TextBlob(run.prompt))
           u == InsertEvent(d, run.session, e)
<1>3. Untouched(db, d) /\ DOMAIN d = DbFields
  <2>1. CASE d = db
    BY <1>1, <2>1 DEF Untouched
  <2>2. CASE d = SetTitle(db, run.session, "prompt")
    BY <1>1, <2>2, PlainWrites
  <2> QED
    BY <1>2, <2>1, <2>2
<1> HIDE DEF e
<1>4. Wrote(db, u) /\ DOMAIN u = DbFields /\ u.calls = db.calls
  BY <1>3, InsertWrote
<1>5. db' = PutUserText(u, run.session, run.prompt)
  BY <1>2 DEF e
<1> HIDE DEF u
<1>6. db'.calls = db.calls /\ db'.events = u.events
  BY <1>4, <1>5, PutUserFields
<1>7. Answers(u)
  <2>1. OwnIds(u.events)
    BY <1>6, TablesGiveNext
  <2>2. Follow(db, u)
    BY <1>1, <1>4, <2>1, WroteFollows
  <2> QED
    BY <2>2, FollowAnswers DEF ReplayInv
<1>8. Answers(db')
  BY <1>4, <1>5, <1>7, PutUserAnswers
<1>9. RunAsks(db', run')
  <2>1. run.at = "turn" /\ run'.at = "step" /\ run'.agent = run.agent
    BY DEF RunTurn, RunAt, RunTo, StoreInv, RunFits
  <2>2. \A c \in db'.calls : c.agent = run.agent => c.kind # "step"
    BY <1>6, <2>1 DEF ReplayInv, RunAsks
  <2> QED
    BY <2>1, <2>2 DEF RunAsks, In, Requests
<1> QED
  BY <1>8, <1>9, FileSame DEF ReplayInv

LEMMA RunRequestAnswers ==
    ASSUME StoreInv, StoreInv', ReplayInv, UNCHANGED transfers, RunRequest
    PROVE  ReplayInv'
<1> DEFINE s    == run.session
           ms   == In(db.messages, s)
           kind == "step"
<1>1. /\ DOMAIN db = DbFields /\ CallsAsked(db) /\ OwnIds(db'.events)
      /\ CallsStepped(db.calls) /\ StepsNamed(db.messages)
  BY TablesGive, TablesGiveNext DEF ReplayInv, Answers
<1>2. PICK n \in Nat : NumberedTo(ms, n)
  BY DEF ReplayInv, Answers, Kept, Numbered
<1>3. Conversation(db, s) = Wired(ms, n) /\ Len(Conversation(db, s)) = n
  BY <1>2, MessagesAre
<1> DEFINE body == RequestBlob(Wired(ms, n))
<1>4. db' = RecordRequest(db, s, run.agent, run.step, kind, body, n)
  BY <1>3 DEF RunRequest
<1>5. run.at = "request" /\ run'.at = "mentor" /\ run'.session = s /\ run'.agent = run.agent
  BY DEF RunRequest, RunAt, RunTo, StoreInv, RunFits
<1> HIDE DEF kind, body
<1>6. /\ db'.messages = db.messages /\ DOMAIN db' = DbFields
      /\ \E e : /\ db'.events = db.events \cup {e} /\ e.id = NextEvent(db, s)
                /\ e.session = s /\ e.body = body /\ e.count = n
      /\ \E c : /\ db'.calls = db.calls \cup {c} /\ c.id = run.step /\ c.step = run.step
                /\ c.kind = kind /\ c.session = s /\ c.agent = run.agent
                /\ c.request = NextEvent(db, s)
  BY <1>1, <1>4, RequestWrites
<1>7. PICK e : /\ db'.events = db.events \cup {e} /\ e.id = NextEvent(db, s)
               /\ e.session = s /\ e.body = body /\ e.count = n
  BY <1>6
<1>8. PICK c : /\ db'.calls = db.calls \cup {c} /\ c.id = run.step /\ c.step = run.step
               /\ c.session = s /\ c.request = NextEvent(db, s)
  BY <1>6
<1>9. Built(e, ms)
  BY <1>2, <1>7 DEF Built, NumberedTo, body
<1> HIDE DEF ms
<1>10. ASSUME NEW b \in db'.calls, NEW x \in db'.events, Requests(b, x)
       PROVE  (b \in db.calls /\ x \in db.events) \/ (b = c /\ x = e)
  <2>1. CASE b \in db.calls
    <3>1. PICK y \in db.events : y.id = b.request
      BY <1>1, <2>1 DEF CallsAsked
    <3>2. y = x
      BY <1>1, <1>7, <1>10, <3>1 DEF OwnIds, Requests
    <3> QED
      BY <2>1, <3>1, <3>2
  <2>2. CASE b = c
    <3>1. x.id = e.id /\ e \in db'.events
      BY <1>7, <1>8, <1>10, <2>2 DEF Requests
    <3> QED
      BY <1>1, <1>10, <2>2, <3>1 DEF OwnIds
  <2> QED
    BY <1>8, <2>1, <2>2
<1>11. ASSUME NEW u
       PROVE  Kept(db', u)
  <2>1. Numbered(In(db.messages, u)) /\ Told(In(db.calls, u), In(db.events, u), In(db.messages, u))
    BY DEF ReplayInv, Answers, Kept
  <2>2. ASSUME NEW b \in In(db'.calls, u), NEW x \in In(db'.events, u), Requests(b, x),
               NEW m \in In(db.messages, u), AnswerOf(m, b, x)
        PROVE  Built(x, In(db.messages, u))
    <3>1. CASE b \in db.calls /\ x \in db.events
      BY <2>1, <2>2, <3>1 DEF Told, In
    <3>2. CASE b = c /\ x = e
      BY <1>8, <1>9, <2>2, <3>2 DEF In, ms
    <3> QED
      BY <1>10, <2>2, <3>1, <3>2 DEF In
  <2> QED
    BY <1>6, <2>1, <2>2 DEF Kept, Told
<1>12. Answers(db')
  BY <1>1, <1>6, <1>8, <1>11 DEF Answers, CallsStepped
<1>13. RunAsks(db', run')
  <2>1. ASSUME NEW b \in In(db'.calls, s), NEW x \in In(db'.events, s), b.agent = run.agent,
               Requests(b, x)
        PROVE  Built(x, ms)
    <3>1. CASE b \in db.calls /\ x \in db.events
      BY <1>5, <2>1, <3>1 DEF ReplayInv, RunAsks, Asking, In, ms
    <3> QED
      BY <1>9, <1>10, <2>1, <3>1 DEF In
  <2> QED
    BY <1>5, <1>6, <2>1 DEF RunAsks, ms
<1> QED
  BY <1>12, <1>13, FileSame DEF ReplayInv

\* What the run is told is an answer to what it asked.
LEMMA RunsAnswer ==
    ASSUME StoreInv, RunAsks(db, run), run.at = "store", CallsStepped(db.calls),
           NEW u, u.calls = db.calls, u.messages = db.messages,
           Follow(db, u), NEW text, NEW n
    PROVE  AnswersAsked(u, Message(run.session, n, "assistant", <<text>>, run.step))
<1> DEFINE m == Message(run.session, n, "assistant", <<text>>, run.step)
<1>1. m.session = run.session /\ m.step = run.step
  BY DEF Message
<1>2. PICK j \in Nat : run.step = <<run.session, runs, j>> /\ run.agent = <<run.session, runs>>
  BY DEF StoreInv, RunFits
<1>3. ASSUME NEW c \in In(u.calls, run.session), NEW e \in In(u.events, run.session),
             Requests(c, e), c.step = run.step
      PROVE  Built(e, In(u.messages, run.session))
  <2>1. c \in db.calls /\ c.session = run.session /\ e \in In(db.events, run.session)
    BY <1>3 DEF In, Follow
  <2>2. PICK k \in 1 .. Given, i \in Nat : c.agent = <<c.session, k>> /\ c.id = <<c.session, k, i>>
    BY <2>1, TablesGive DEF CallNamed
  <2>3. <<c.session, k, i>> = <<run.session, runs, j>>
    BY <1>2, <1>3, <2>1, <2>2 DEF CallsStepped
  <2>4. k = runs
    BY <2>3
  <2>5. c.agent = run.agent
    BY <1>2, <2>1, <2>2, <2>4
  <2> QED
    BY <1>3, <2>1, <2>5 DEF RunAsks, Asking, In
<1> HIDE DEF m
<1>4. AnswersAsked(u, m)
  BY <1>1, <1>2, <1>3 DEF AnswersAsked, AnswerOf
<1> QED
  BY <1>4 DEF m

LEMMA RunStoreAnswers ==
    ASSUME StoreInv, StoreInv', ReplayInv, UNCHANGED transfers, RunStore
    PROVE  ReplayInv'
<1> DEFINE s == run.session
           e == WithBody(Event("assistant.message", run.agent), TextBlob(run.reply))
           u == InsertEvent(db, s, e)
<1>1. DOMAIN db = DbFields /\ CallsAsked(db) /\ CallsStepped(db.calls)
  BY TablesGive DEF ReplayInv, Answers
<1>2. run.at = "store" /\ db' = PutNext(u, s, "assistant", run.reply, run.step)
  BY DEF RunStore, RunAt
<1> HIDE DEF e
<1>3. Wrote(db, u) /\ DOMAIN u = DbFields /\ u.calls = db.calls /\ u.messages = db.messages
  BY <1>1, InsertWrote DEF Untouched, Wrote
<1> HIDE DEF u
<1>4. db'.events = u.events
  <2>1. \A m : PutMessage(u, m).events = u.events
    BY <1>3, PutFields
  <2> QED
    BY <1>2, <2>1 DEF PutNext
<1>5. Follow(db, u)
  BY <1>1, <1>3, <1>4, TablesGiveNext, WroteFollows
<1>6. Answers(u)
  BY <1>5, FollowAnswers DEF ReplayInv
<1>7. \A n : AnswersAsked(u, Message(s, n, "assistant", <<run.reply>>, run.step))
  BY <1>1, <1>2, <1>3, <1>5, RunsAnswer DEF ReplayInv
<1>8. /\ Answers(db') /\ db'.calls = db.calls
      /\ \A x : Built(x, In(db.messages, s)) => Built(x, In(db'.messages, s))
  BY <1>2, <1>3, <1>6, <1>7, PutNextAnswers
<1>9. RunAsks(db', run')
  <2>1. /\ run'.session = run.session /\ run'.agent = run.agent /\ run'.at # "turn"
    BY DEF RunStore, RunTo, StoreInv, RunFits
  <2>2. RunAsks(u, run)
    BY <1>5, FollowAsks DEF ReplayInv
  <2>3. RunAsks(db', run)
    BY <1>2, <1>3, <1>4, <1>8, <2>2 DEF RunAsks
  <2> QED
    BY <1>2, <2>1, <2>3 DEF RunAsks, Asking
<1> QED
  BY <1>8, <1>9, FileSame DEF ReplayInv

LEMMA RunResultsAnswers ==
    ASSUME StoreInv, StoreInv', ReplayInv, UNCHANGED transfers, RunResults
    PROVE  ReplayInv'
<1> DEFINE s == run.session
<1>1. DOMAIN db = DbFields /\ Answers(db)
  BY TablesGive DEF ReplayInv
<1>2. /\ run.at = "results" /\ run'.at = "close" /\ run'.session = s /\ run'.agent = run.agent
      /\ db' = PutNext(db, s, "user", Results, run.step)
  BY DEF RunResults, RunAt, RunTo, StoreInv, RunFits
<1>3. \A n : AnswersAsked(db, Message(s, n, "user", <<Results>>, run.step))
  BY DEF AnswersAsked, Message
<1>4. /\ Answers(db') /\ db'.calls = db.calls /\ db'.events = db.events
      /\ \A x : Built(x, In(db.messages, s)) => Built(x, In(db'.messages, s))
  BY <1>1, <1>2, <1>3, PutNextAnswers
<1>5. RunAsks(db', run')
  BY <1>2, <1>4 DEF RunAsks, ReplayInv, Asking
<1> QED
  BY <1>4, <1>5, FileSame DEF ReplayInv

-----------------------------------------------------------------------------
(* Session requests, and tables made of the rows of others. *)

\* The rows of s are the same ones, or there are none.
SameIn(d, t, s) ==
    /\ In(t.calls, s) = In(d.calls, s) /\ In(t.events, s) = In(d.events, s)
    /\ In(t.messages, s) = In(d.messages, s)
NothingIn(t, s) == In(t.calls, s) = {} /\ In(t.messages, s) = {}

LEMMA NothingKept == ASSUME NEW t, NEW s, NothingIn(t, s) PROVE Kept(t, s)
<1>1. NumberedTo({}, 0)
  BY DEF NumberedTo
<1> QED
  BY <1>1 DEF NothingIn, Kept, Numbered, Told

LEMMA PartsAnswer ==
    ASSUME NEW d, NEW t, Answers(d), Answers(t), NEW u,
           u.calls \subseteq d.calls \cup t.calls,
           u.messages \subseteq d.messages \cup t.messages,
           \A s : SameIn(d, u, s) \/ SameIn(t, u, s) \/ NothingIn(u, s)
    PROVE  Answers(u)
<1>1. ASSUME NEW s
      PROVE  Kept(u, s)
  <2>1. Kept(d, s) /\ Kept(t, s)
    BY DEF Answers
  <2> QED
    BY <2>1, NothingKept DEF SameIn, Kept
<1>2. CallsStepped(u.calls) /\ StepsNamed(u.messages)
  BY DEF Answers, CallsStepped, StepsNamed
<1> QED
  BY <1>1, <1>2 DEF Answers

\* What is written beside the run's session is not the run's.
LEMMA ApartAsks ==
    ASSUME StoreInv, StoreInv', RunAsks(db, run), UNCHANGED run,
           run.at # "idle" => SameIn(db, db', run.session)
    PROVE  RunAsks(db', run')
<1>1. CASE run.at = "idle"
  BY <1>1 DEF RunAsks, Asking
<1>2. CASE run.at # "idle"
  <2>1. run.agent = <<run.session, runs>>
    BY <1>2 DEF StoreInv, RunFits
  <2>2. ASSUME NEW c \in db'.calls, c.agent = run.agent
        PROVE  c.session = run.session
    <3>1. CallNamed(c, Given')
      BY DEF StoreInv, Sound, Whole, Linked, CallsOK
    <3>2. PICK k : c.agent = <<c.session, k>>
      BY <3>1 DEF CallNamed
    <3>3. <<c.session, k>> = <<run.session, runs>>
      BY <2>1, <2>2, <3>2
    <3> QED
      BY <3>3
  <2>3. run.at = "turn" => \A c \in db'.calls : c.agent = run.agent => c.kind # "step"
    BY <1>2, <2>2 DEF SameIn, In, RunAsks
  <2>4. run.at \in Asking =>
            \A c \in In(db'.calls, run.session), e \in In(db'.events, run.session) :
                c.agent = run.agent /\ Requests(c, e) => Built(e, In(db'.messages, run.session))
    BY <1>2 DEF SameIn, RunAsks
  <2> QED
    BY <2>3, <2>4 DEF RunAsks
<1> QED
  BY <1>1, <1>2

LEMMA DeleteAnswers ==
    ASSUME StoreInv, StoreInv', ReplayInv, UNCHANGED transfers, NEW s, Delete(s)
    PROVE  ReplayInv'
<1>1. /\ UNCHANGED run /\ run.session # s
      /\ db' = DeleteSession(db, s) \/ db' = PurgeSession(db, s)
  BY DEF Delete, Idle, Asked
<1>2. DOMAIN db = DbFields /\ CallsAsked(db) /\ CallsStepped(db.calls) /\ OwnIds(db'.events)
  BY TablesGive, TablesGiveNext DEF ReplayInv, Answers
<1>3. CASE db' = DeleteSession(db, s)
  <2> DEFINE u == Truncate(db, s, 0)
  <2>1. 0 \in Int /\ db' = SetStatus(u, s, "deleted")
    BY <1>3 DEF DeleteSession
  <2>2. /\ Answers(u) /\ u.calls = db.calls /\ u.events = db.events
        /\ \A x : x # s => In(u.messages, x) = In(db.messages, x)
    BY <1>2, <2>1, CutAnswers DEF ReplayInv
  <2>3. DOMAIN u = DbFields
    BY <1>2 DEF Truncate, DbFields
  <2> HIDE DEF u
  <2>4. Wrote(u, db')
    BY <2>1, <2>3, PlainWrites
  <2>5. Follow(u, db')
    BY <1>2, <2>2, <2>4, WroteFollows DEF CallsAsked
  <2>6. Answers(db')
    BY <2>2, <2>5, FollowAnswers
  <2>7. RunAsks(u, run)
    <3>1. In(u.messages, run.session) = In(db.messages, run.session)
      BY <1>1, <2>2
    <3> QED
      BY <2>2, <3>1 DEF ReplayInv, RunAsks
  <2>8. RunAsks(db', run')
    BY <1>1, <2>5, <2>7, FollowAsks
  <2> QED
    BY <2>6, <2>8, FileSame DEF ReplayInv
<1>4. CASE db' = PurgeSession(db, s)
  <2>1. Sound(db, Given, Held)
    BY DEF StoreInv
  <2>2. /\ db'.calls = {r \in db.calls : r.session # s}
        /\ db'.events = {r \in db.events : r.session # s}
        /\ db'.messages = {m \in db.messages : m.session # s \/ m.seq <= 0}
    BY <1>4, <2>1, PurgeKeeps
  <2>3. \A x : x # s => SameIn(db, db', x)
    BY <2>2 DEF SameIn, In
  <2>4. NothingIn(db', s)
    <3>1. PICK n \in Nat : NumberedTo(In(db.messages, s), n)
      BY DEF ReplayInv, Answers, Kept, Numbered
    <3>2. \A m \in In(db.messages, s) : m.seq \in 1 .. n
      BY <3>1 DEF NumberedTo
    <3> QED
      BY <2>2, <3>2 DEF NothingIn, In
  <2>5. Answers(db')
    BY <2>2, <2>3, <2>4, PartsAnswer DEF ReplayInv
  <2>6. RunAsks(db', run')
    BY <1>1, <2>3, ApartAsks DEF ReplayInv
  <2> QED
    BY <2>5, <2>6, FileSame DEF ReplayInv
<1> QED
  BY <1>1, <1>3, <1>4

LEMMA AskSteps ==
    ASSUME StoreInv, StoreInv', ReplayInv, UNCHANGED transfers, Asks
    PROVE  ReplayInv'
<1>1. DOMAIN db = DbFields
  BY TablesGive
<1>2. CASE Create
  <2>1. Wrote(db, db') /\ UNCHANGED run
    BY <1>1, <1>2, PlainWrites DEF Create
  <2> QED
    BY <2>1, RestSteps DEF transfers
<1>3. ASSUME NEW s \in Sessions, Rename(s)
      PROVE  ReplayInv'
  <2> DEFINE u == SetTitle(db, s, "user")
             e == Event("session.title", None)
  <2>1. Untouched(db, u) /\ DOMAIN u = DbFields
    BY <1>1, PlainWrites
  <2>2. db' = InsertEvent(u, s, e) /\ UNCHANGED run
    BY <1>3 DEF Rename, Asked
  <2> HIDE DEF u, e
  <2>3. Wrote(db, db')
    BY <2>1, <2>2, InsertWrote
  <2> QED
    BY <2>2, <2>3, RestSteps DEF transfers
<1>4. ASSUME NEW s \in Sessions, NEW status \in {"open", "archived"}, Archive(s, status)
      PROVE  ReplayInv'
  <2>1. Wrote(db, db') /\ UNCHANGED run
    BY <1>1, <1>4, PlainWrites DEF Archive, Asked
  <2> QED
    BY <2>1, RestSteps DEF transfers
<1> QED
  BY <1>2, <1>3, <1>4, DeleteAnswers DEF Asks

-----------------------------------------------------------------------------
(* Copies: g of the messages, h of the events and k of the calls.  A copy  *)
(* of a request is the request of the copied messages.                     *)

CopiedRequest(e, q, ms, g) ==
    /\ q.count = e.count
    /\ q.body = RequestBlob([i \in 1 .. e.count |-> <<g[Row(ms, i)].role, g[Row(ms, i)].texts>>])

LEMMA CopyTells ==
    ASSUME NEW g, NEW h, NEW k, NEW ms, NEW es, NEW cs,
           DOMAIN g = ms, DOMAIN h = es, DOMAIN k = cs,
           Numbered(ms), Told(cs, es, ms),
           \A m \in ms : g[m].seq = m.seq,
           \A c \in cs, e \in es : Requests(k[c], h[e]) => Requests(c, e),
           \A c \in cs, e \in es, m \in ms :
               Requests(c, e) /\ AnswerOf(g[m], k[c], h[e]) => AnswerOf(m, c, e),
           \A e \in es : Built(e, ms) => CopiedRequest(e, h[e], ms, g)
    PROVE  Numbered(Image(g)) /\ Told(Image(k), Image(h), Image(g))
<1> DEFINE ms2 == Image(g)
<1>1. ms2 = {g[m] : m \in ms}
  BY DEF Image
<1> HIDE DEF ms2
<1>2. PICK n \in Nat : NumberedTo(ms, n)
  BY DEF Numbered
<1>3. ASSUME NEW i \in 1 .. n
      PROVE  At(ms2, i) = {g[Row(ms, i)]} /\ Row(ms, i) \in ms
  <2>1. PICK m \in ms : At(ms, i) = {m}
    BY <1>2 DEF NumberedTo
  <2>2. Row(ms, i) = m
    BY <2>1 DEF Row
  <2>3. m.seq = i /\ \A x \in ms : x.seq = i => x = m
    BY <2>1 DEF At
  <2>4. At(ms2, i) = {g[m]}
    BY <1>1, <2>3 DEF At
  <2> QED
    BY <2>2, <2>4
<1>4. NumberedTo(ms2, n)
  <2>1. ASSUME NEW i \in 1 .. n
        PROVE  \E x \in ms2 : At(ms2, i) = {x}
    BY <1>1, <1>3
  <2>2. \A x \in ms2 : x.seq \in 1 .. n
    BY <1>1, <1>2 DEF NumberedTo
  <2> QED
    BY <2>1, <2>2 DEF NumberedTo
<1>5. ASSUME NEW e \in es, Built(e, ms)
      PROVE  Built(h[e], ms2)
  <2>1. h[e].count = e.count /\ e.count \in Nat
    BY <1>5 DEF Built, CopiedRequest
  <2>2. \A i \in 1 .. e.count : i \in 1 .. n
    <3>1. \A i \in 1 .. e.count : \E x \in ms : x.seq = i
      BY <1>5 DEF Built, At
    <3> QED
      BY <1>2, <3>1 DEF NumberedTo
  <2>3. \A i \in 1 .. e.count : At(ms2, i) # {} /\ Row(ms2, i) = g[Row(ms, i)]
    BY <1>3, <2>2 DEF Row
  <2>4. Wired(ms2, e.count)
           = [i \in 1 .. e.count |-> <<g[Row(ms, i)].role, g[Row(ms, i)].texts>>]
    BY <2>3 DEF Wired
  <2>5. h[e].body = RequestBlob(Wired(ms2, e.count))
    BY <1>5, <2>4 DEF CopiedRequest
  <2> QED
    BY <2>1, <2>3, <2>5 DEF Built
<1>6. ASSUME NEW c \in cs, NEW e \in es, NEW m \in ms,
             Requests(k[c], h[e]), AnswerOf(g[m], k[c], h[e])
      PROVE  Built(h[e], ms2)
  <2>1. Requests(c, e) /\ AnswerOf(m, c, e)
    BY <1>6
  <2>2. Built(e, ms)
    BY <2>1 DEF Told
  <2> QED
    BY <1>5, <2>2
<1>7. Told(Image(k), Image(h), ms2)
  <2>1. Image(k) = {k[c] : c \in cs} /\ Image(h) = {h[e] : e \in es}
    BY DEF Image
  <2> QED
    BY <1>1, <1>6, <2>1 DEF Told
<1> QED
  BY <1>4, <1>7 DEF Numbered, ms2

\* Hiding hides what is in a request too, and nothing is left to hide.
LEMMA HidesWire ==
    \A ms : HideBlob(RequestBlob(ms)) = RequestBlob(HideWire(ms))
<1> SUFFICES ASSUME NEW ms PROVE HideBlob(RequestBlob(ms)) = RequestBlob(HideWire(ms))
  OBVIOUS
<1> DEFINE c == RequestBlob(ms)
<1>1. c # None /\ c[1] = "request" /\ c[2] = ms
  BY DEF RequestBlob, None
<1> HIDE DEF c
<1>2. HideBlob(c) = RequestBlob(HideWire(c[2]))
  BY <1>1 DEF HideBlob
<1> QED
  BY <1>1, <1>2 DEF c

LEMMA HiddenStays ==
    /\ \A ts : HideAll(HideAll(ts)) = HideAll(ts)
    /\ \A c : HideBlob(HideBlob(c)) = HideBlob(c)
<1>1. \A t : Hide(Hide(t)) = Hide(t)
  BY DEF Hide
<1>2. ASSUME NEW ts
      PROVE  HideAll(HideAll(ts)) = HideAll(ts)
  <2> DEFINE hs == HideAll(ts)
  <2>1. DOMAIN hs = DOMAIN ts /\ \A i \in DOMAIN ts : hs[i] = Hide(ts[i])
    BY DEF HideAll
  <2>2. hs = [i \in DOMAIN ts |-> Hide(ts[i])]
    BY DEF HideAll
  <2> HIDE DEF hs
  <2>3. \A i \in DOMAIN ts : Hide(hs[i]) = Hide(ts[i])
    BY <1>1, <2>1
  <2>4. HideAll(hs) = [i \in DOMAIN ts |-> Hide(ts[i])]
    BY <2>1, <2>3 DEF HideAll
  <2> QED
    BY <2>2, <2>4 DEF hs
<1>3. ASSUME NEW ms
      PROVE  HideWire(HideWire(ms)) = HideWire(ms)
  <2> DEFINE hs == HideWire(ms)
             h(i) == <<ms[i][1], HideAll(ms[i][2])>>
  <2>1. hs = [i \in DOMAIN ms |-> h(i)]
    BY DEF HideWire
  <2>2. \A i \in DOMAIN ms : hs[i] = h(i)
    BY <2>1
  <2>3. DOMAIN hs = DOMAIN ms
    BY <2>1
  <2> HIDE DEF hs
  <2>4. \A i \in DOMAIN ms : <<hs[i][1], HideAll(hs[i][2])>> = h(i)
    BY <1>2, <2>2
  <2>5. HideWire(hs) = [i \in DOMAIN ms |-> h(i)]
    BY <2>3, <2>4 DEF HideWire
  <2> QED
    BY <2>1, <2>5 DEF hs
<1>4. ASSUME NEW c
      PROVE  HideBlob(HideBlob(c)) = HideBlob(c)
  <2>1. CASE c = None
    BY <2>1, HiddenBlobs
  <2>2. CASE c # None /\ c[1] = "request"
    <3>1. HideBlob(c) = RequestBlob(HideWire(c[2]))
      BY <2>2 DEF HideBlob
    <3> QED
      BY <1>3, <3>1, HidesWire
  <2>3. CASE c # None /\ c[1] \in {"text", "title"}
    <3> DEFINE b == HideBlob(c)
    <3>1. b = <<c[1], HideAll(c[2])>>
      BY <2>3 DEF HideBlob
    <3>2. b # None /\ b[1] \in {"text", "title"} /\ b[1] = c[1] /\ b[2] = HideAll(c[2])
      BY <2>3, <3>1 DEF None
    <3> HIDE DEF b
    <3>3. HideBlob(b) = <<b[1], HideAll(b[2])>>
      BY <3>2 DEF HideBlob
    <3> QED
      BY <1>2, <3>1, <3>2, <3>3 DEF b
  <2>4. CASE c # None /\ c[1] \notin {"request", "text", "title"}
    <3>1. HideBlob(c) = c
      BY <2>4 DEF HideBlob
    <3> QED
      BY <3>1
  <2> QED
    BY <2>1, <2>2, <2>3, <2>4
<1> QED
  BY <1>2, <1>4

LEMMA RedactedAnswers ==
    ASSUME NEW rows, NEW n, DOMAIN rows = BundleFields, Linked(rows, n), Answers(rows)
    PROVE  LET t == RedactRows(rows) IN Answers(t) /\ NothingSecret(t)
<1> DEFINE t    == RedactRows(rows)
           he(e) == [e EXCEPT !.body = HideBlob(@), !.raw = HideBlob(@)]
           hm(m) == [m EXCEPT !.texts = HideAll(@)]
<1>1. /\ t.calls = rows.calls
      /\ t.events = {he(e) : e \in rows.events} /\ t.messages = {hm(m) : m \in rows.messages}
      /\ t.blobs = {HideBlob(c) : c \in rows.blobs}
  <2> DEFINE events   == {he(e) : e \in rows.events}
             messages == {hm(m) : m \in rows.messages}
             blobs    == {HideBlob(c) : c \in rows.blobs}
  <2>1. t = [rows EXCEPT !.events = events, !.messages = messages, !.blobs = blobs]
    BY DEF RedactRows
  <2> HIDE DEF t, events, messages, blobs
  <2>2. t.calls = rows.calls /\ t.events = events /\ t.messages = messages /\ t.blobs = blobs
    BY <2>1 DEF BundleFields
  <2> QED
    BY <2>2 DEF events, messages, blobs
<1>2. ASSUME NEW e \in rows.events
      PROVE  /\ he(e).id = e.id /\ he(e).session = e.session /\ he(e).count = e.count
             /\ he(e).body = HideBlob(e.body)
  <2>1. DOMAIN e = EventFields
    BY DEF Linked, EventsOK
  <2> QED
    BY <2>1 DEF EventFields
<1>3. ASSUME NEW m \in rows.messages
      PROVE  /\ hm(m).session = m.session /\ hm(m).seq = m.seq /\ hm(m).role = m.role
             /\ hm(m).step = m.step /\ hm(m).texts = HideAll(m.texts)
  <2>1. DOMAIN m = {"session", "seq", "role", "texts", "step"}
    BY DEF Linked, MessagesOK
  <2> QED
    BY <2>1
<1> HIDE DEF t, he, hm
<1>4. ASSUME NEW s
      PROVE  Kept(t, s)
  <2> DEFINE ms == In(rows.messages, s)
             es == In(rows.events, s)
             cs == In(rows.calls, s)
             g  == [m \in ms |-> hm(m)]
             h  == [e \in es |-> he(e)]
             k  == [c \in cs |-> c]
  <2>1. Numbered(ms) /\ Told(cs, es, ms)
    BY DEF Answers, Kept
  <2>2. ms \subseteq rows.messages /\ es \subseteq rows.events
    BY DEF In
  <2>3. /\ In(t.messages, s) = Image(g) /\ In(t.events, s) = Image(h) /\ In(t.calls, s) = Image(k)
    <3>1. Image(g) = {hm(m) : m \in ms} /\ Image(h) = {he(e) : e \in es} /\ Image(k) = cs
      BY DEF Image
    <3> QED
      BY <1>1, <1>2, <1>3, <3>1 DEF In
  <2> HIDE DEF ms, es, cs
  <2>4. DOMAIN g = ms /\ DOMAIN h = es /\ DOMAIN k = cs
    OBVIOUS
  <2>5. /\ \A m \in ms : g[m].seq = m.seq /\ g[m].role = m.role /\ g[m].step = m.step
                         /\ g[m].texts = HideAll(m.texts)
        /\ \A e \in es : h[e].id = e.id /\ h[e].count = e.count /\ h[e].body = HideBlob(e.body)
        /\ \A c \in cs : k[c] = c
    BY <1>2, <1>3, <2>2
  <2> HIDE DEF g, h, k
  <2>6. \A c \in cs, e \in es : Requests(k[c], h[e]) => Requests(c, e)
    BY <2>5, HiddenBlobs DEF Requests
  <2>7. \A c \in cs, e \in es, m \in ms :
            Requests(c, e) /\ AnswerOf(g[m], k[c], h[e]) => AnswerOf(m, c, e)
    BY <2>5 DEF AnswerOf
  <2>8. ASSUME NEW e \in es, Built(e, ms)
        PROVE  CopiedRequest(e, h[e], ms, g)
    <3> DEFINE w == Wired(ms, e.count)
               row(i) == Row(ms, i)
    <3>1. e.count \in Nat /\ \A i \in 1 .. e.count : row(i) \in ms
      BY <2>8 DEF Built, Row, At
    <3>2. h[e].body = RequestBlob(HideWire(w))
      BY <2>5, <2>8, HidesWire DEF Built
    <3>3. DOMAIN w = 1 .. e.count
          /\ \A i \in 1 .. e.count : w[i] = <<row(i).role, row(i).texts>>
      BY DEF Wired
    <3> HIDE DEF w, row
    <3>4. \A i \in 1 .. e.count : /\ w[i][1] = g[row(i)].role
                                  /\ HideAll(w[i][2]) = g[row(i)].texts
      BY <2>5, <3>1, <3>3
    <3>5. HideWire(w) = [i \in 1 .. e.count |-> <<g[row(i)].role, g[row(i)].texts>>]
      BY <3>3, <3>4 DEF HideWire
    <3> QED
      BY <2>5, <3>2, <3>5 DEF CopiedRequest, row
  <2>9. Numbered(Image(g)) /\ Told(Image(k), Image(h), Image(g))
    BY <2>1, <2>4, <2>5, <2>6, <2>7, <2>8, CopyTells
  <2> QED
    BY <2>3, <2>9 DEF Kept
<1>5. CallsStepped(t.calls) /\ StepsNamed(t.messages)
  BY <1>1, <1>3 DEF Answers, StepsNamed
<1>6. NothingSecret(t)
  <2>1. ASSUME NEW ts
        PROVE  ToSet(HideAll(ts)) \cap Secrets = {}
    BY HiddenIsNoSecret DEF HideAll, Hide, ToSet
  <2>2. \A m \in t.messages : ToSet(m.texts) \cap Secrets = {}
    BY <1>1, <1>3, <2>1
  <2>3. \A c \in t.blobs : HideBlob(c) = c
    BY <1>1, HiddenStays
  <2> QED
    BY <2>2, <2>3 DEF NothingSecret
<1> QED
  BY <1>4, <1>5, <1>6 DEF Answers, t

\* A copy under other ids.
LEMMA RenamedAnswers ==
    ASSUME NEW rows, NEW f, NEW n, DOMAIN rows = BundleFields, Linked(rows, n), Answers(rows),
           Apart(f, Ids(rows.sessions))
    PROVE  Answers(RenameRows(rows, f))
<1> DEFINE t     == RenameRows(rows, f)
           re(e) == RenameEvent(f, e)
           rm(m) == RenameMessage(f, m)
           rc(c) == RenameCall(f, c)
           ss    == Ids(rows.sessions)
<1>1. /\ t.events = {re(e) : e \in rows.events} /\ t.messages = {rm(m) : m \in rows.messages}
      /\ t.calls = {rc(c) : c \in rows.calls}
  <2> DEFINE sessions == {RenameSession(f, r) : r \in rows.sessions}
             agents == {RenameAgent(f, r) : r \in rows.agents}
             steps == {RenameStep(f, r) : r \in rows.steps}
             events == {re(r) : r \in rows.events}
             calls == {rc(r) : r \in rows.calls}
             messages == {rm(r) : r \in rows.messages}
  <2>1. t = [rows EXCEPT !.sessions = sessions, !.agents = agents, !.steps = steps,
                         !.events = events, !.calls = calls, !.messages = messages]
    BY DEF RenameRows
  <2> HIDE DEF t, sessions, agents, steps, events, calls, messages
  <2>2. t.events = events /\ t.calls = calls /\ t.messages = messages
    BY <2>1 DEF BundleFields
  <2> QED
    BY <2>2 DEF events, calls, messages
<1>2. ASSUME NEW e \in rows.events
      PROVE  /\ re(e).id = <<SessionOf(f, e.session), e.seq>> /\ e.id = <<e.session, e.seq>>
             /\ re(e).session = SessionOf(f, e.session) /\ e.session \in ss
             /\ re(e).count = e.count /\ re(e).body = e.body
  <2>1. DOMAIN e = EventFields /\ e.id = <<e.session, e.seq>> /\ e.session \in ss
    BY DEF Linked, EventsOK
  <2>2. Renamed(f, e.id) = <<SessionOf(f, e.session), e.seq>>
    BY <2>1, RenamedIds
  <2> QED
    BY <2>1, <2>2 DEF EventFields, RenameEvent
<1>3. ASSUME NEW m \in rows.messages
      PROVE  /\ rm(m).session = SessionOf(f, m.session) /\ m.session \in ss
             /\ rm(m).seq = m.seq /\ rm(m).role = m.role
             /\ rm(m).texts = m.texts /\ rm(m).step = Renamed(f, m.step)
  <2>1. DOMAIN m = {"session", "seq", "role", "texts", "step"} /\ m.session \in ss
    BY DEF Linked, MessagesOK
  <2> QED
    BY <2>1 DEF RenameMessage
<1>4. ASSUME NEW c \in rows.calls
      PROVE  /\ rc(c).session = SessionOf(f, c.session) /\ c.session \in ss
             /\ rc(c).kind = c.kind /\ rc(c).id = Renamed(f, c.id) /\ rc(c).step = Renamed(f, c.step)
             /\ rc(c).request = Renamed(f, c.request)
             /\ (\E k, j : c.id = <<c.session, k, j>>) /\ (\E q : c.request = <<c.session, q>>)
  <2>1. /\ DOMAIN c = CallFields /\ c.session \in ss /\ CallNamed(c, n)
        /\ \E e \in rows.events : IsHome(e, c, c.request, "mentor.request")
    BY DEF Linked, CallsOK
  <2>2. \E k, j : c.id = <<c.session, k, j>>
    BY <2>1 DEF CallNamed
  <2>3. \E q : c.request = <<c.session, q>>
    BY <1>2, <2>1 DEF IsHome
  <2>4. /\ rc(c).session = SessionOf(f, c.session)
        /\ rc(c).kind = c.kind /\ rc(c).id = Renamed(f, c.id) /\ rc(c).step = Renamed(f, c.step)
        /\ rc(c).request = Renamed(f, c.request)
    BY <2>1 DEF CallFields, RenameCall
  <2> QED
    BY <2>1, <2>2, <2>3, <2>4
<1> HIDE DEF t, re, rm, rc, ss
<1>5. ASSUME NEW s \in ss
      PROVE  Kept(t, SessionOf(f, s))
  <2> DEFINE u  == SessionOf(f, s)
             ms == In(rows.messages, s)
             es == In(rows.events, s)
             cs == In(rows.calls, s)
             g  == [m \in ms |-> rm(m)]
             h  == [e \in es |-> re(e)]
             k  == [c \in cs |-> rc(c)]
  <2>1. Numbered(ms) /\ Told(cs, es, ms)
    BY DEF Answers, Kept
  <2>2. /\ \A m \in ms : m \in rows.messages /\ m.session = s
        /\ \A e \in es : e \in rows.events /\ e.session = s
        /\ \A c \in cs : c \in rows.calls /\ c.session = s
    BY DEF In
  <2>3. \A x \in ss : SessionOf(f, x) = u => x = s
    BY DEF Apart, ss
  <2>4. /\ In(t.messages, u) = Image(g) /\ In(t.events, u) = Image(h) /\ In(t.calls, u) = Image(k)
    <3>1. Image(g) = {rm(m) : m \in ms} /\ Image(h) = {re(e) : e \in es} /\ Image(k) = {rc(c) : c \in cs}
      BY DEF Image
    <3> HIDE DEF u
    <3>2. In(t.messages, u) = {rm(m) : m \in ms}
      BY <1>1, <1>3, <2>3 DEF In, u
    <3>3. In(t.events, u) = {re(e) : e \in es}
      BY <1>1, <1>2, <2>3 DEF In, u
    <3>4. In(t.calls, u) = {rc(c) : c \in cs}
      BY <1>1, <1>4, <2>3 DEF In, u
    <3> QED
      BY <3>1, <3>2, <3>3, <3>4
  <2> HIDE DEF ms, es, cs
  <2>5. DOMAIN g = ms /\ DOMAIN h = es /\ DOMAIN k = cs
    OBVIOUS
  <2>6. /\ \A m \in ms : g[m].seq = m.seq /\ g[m].role = m.role /\ g[m].texts = m.texts
                         /\ g[m].step = Renamed(f, m.step)
        /\ \A e \in es : /\ h[e].id = <<u, e.seq>> /\ e.id = <<s, e.seq>>
                         /\ h[e].count = e.count /\ h[e].body = e.body
        /\ \A c \in cs : /\ k[c].kind = c.kind /\ k[c].step = Renamed(f, c.step)
                         /\ k[c].request = Renamed(f, c.request)
                         /\ (\E x, j : c.id = <<s, x, j>>) /\ (\E q : c.request = <<s, q>>)
    BY <1>2, <1>3, <1>4, <2>2
  <2>7. /\ \A c \in cs : c.step = c.id
        /\ \A m \in ms : m.role = "assistant" => \E x, j : m.step = <<s, x, j>>
    BY <2>2 DEF Answers, CallsStepped, StepsNamed
  <2> HIDE DEF g, h, k
  <2>8. ASSUME NEW c \in cs, NEW e \in es, Requests(k[c], h[e])
        PROVE  Requests(c, e)
    <3>1. PICK q : c.request = <<s, q>>
      BY <2>6
    <3>2. k[c].request = <<u, q>>
      <4>1. Renamed(f, <<s, q>>) = <<SessionOf(f, s), q>>
        BY RenamedIds
      <4> QED
        BY <2>6, <3>1, <4>1
    <3>3. <<u, q>> = <<u, e.seq>>
      BY <2>6, <2>8, <3>2 DEF Requests
    <3>4. q = e.seq
      BY <3>3
    <3> QED
      BY <2>6, <2>8, <3>1, <3>4 DEF Requests
  <2>9. ASSUME NEW c \in cs, NEW e \in es, NEW m \in ms, AnswerOf(g[m], k[c], h[e])
        PROVE  AnswerOf(m, c, e)
    <3>1. m.role = "assistant" /\ m.seq = e.count + 1 /\ Renamed(f, m.step) = Renamed(f, c.step)
      BY <2>6, <2>9 DEF AnswerOf
    <3>2. PICK x, j : m.step = <<s, x, j>>
      BY <2>7, <3>1
    <3>3. PICK y, l : c.step = <<s, y, l>>
      BY <2>6, <2>7
    <3>4. <<u, x, j>> = <<u, y, l>>
      <4>1. /\ Renamed(f, <<s, x, j>>) = <<SessionOf(f, s), x, j>>
            /\ Renamed(f, <<s, y, l>>) = <<SessionOf(f, s), y, l>>
        BY RenamedIds
      <4> QED
        BY <3>1, <3>2, <3>3, <4>1
    <3>5. x = y /\ j = l
      BY <3>4
    <3> QED
      BY <3>1, <3>2, <3>3, <3>5 DEF AnswerOf
  <2>10. ASSUME NEW e \in es, Built(e, ms)
         PROVE  CopiedRequest(e, h[e], ms, g)
    <3> DEFINE row(i) == Row(ms, i)
    <3>1. e.count \in Nat /\ \A i \in 1 .. e.count : row(i) \in ms
      BY <2>10 DEF Built, Row, At
    <3>2. e.body = RequestBlob([i \in 1 .. e.count |-> <<row(i).role, row(i).texts>>])
      BY <2>10 DEF Built, Wired
    <3> HIDE DEF row
    <3>3. [i \in 1 .. e.count |-> <<row(i).role, row(i).texts>>]
              = [i \in 1 .. e.count |-> <<g[row(i)].role, g[row(i)].texts>>]
      BY <2>6, <3>1
    <3> QED
      BY <2>6, <3>2, <3>3 DEF CopiedRequest, row
  <2>11. /\ \A m \in ms : g[m].seq = m.seq
         /\ \A c \in cs, e \in es : Requests(k[c], h[e]) => Requests(c, e)
         /\ \A c \in cs, e \in es, m \in ms :
                Requests(c, e) /\ AnswerOf(g[m], k[c], h[e]) => AnswerOf(m, c, e)
         /\ \A e \in es : Built(e, ms) => CopiedRequest(e, h[e], ms, g)
    BY <2>6, <2>8, <2>9, <2>10
  <2>12. Numbered(Image(g)) /\ Told(Image(k), Image(h), Image(g))
    BY <2>1, <2>5, <2>11, CopyTells
  <2> QED
    BY <2>4, <2>12 DEF Kept
<1>6. ASSUME NEW u, \A s \in ss : u # SessionOf(f, s)
      PROVE  NothingIn(t, u)
  BY <1>1, <1>3, <1>4, <1>6 DEF NothingIn, In
<1>7. \A u : Kept(t, u)
  BY <1>5, <1>6, NothingKept
<1>8. CallsStepped(t.calls)
  BY <1>1, <1>4 DEF Answers, CallsStepped
<1>9. StepsNamed(t.messages)
  <2>1. ASSUME NEW m \in rows.messages, rm(m).role = "assistant"
        PROVE  \E x, j : rm(m).step = <<rm(m).session, x, j>>
    <3>1. PICK x, j : m.step = <<m.session, x, j>>
      BY <1>3, <2>1 DEF Answers, StepsNamed
    <3>2. Renamed(f, <<m.session, x, j>>) = <<SessionOf(f, m.session), x, j>>
      BY RenamedIds
    <3>3. rm(m).step = <<rm(m).session, x, j>>
      BY <1>3, <3>1, <3>2
    <3> QED
      BY <3>3
  <2> QED
    BY <1>1, <2>1 DEF StepsNamed
<1> QED
  BY <1>7, <1>8, <1>9 DEF Answers, t

-----------------------------------------------------------------------------
(* Exports and imports. *)

LEMMA ExportAnswers ==
    ASSUME StoreInv, ReplayInv, NEW ss, NEW redact, Export(ss, redact)
    PROVE  ReplayInv'
<1> DEFINE bundle == BundleRows(ss)
           hidden == RedactRows(bundle)
           rows   == IF redact THEN hidden ELSE bundle
<1>1. /\ ss \subseteq Ids(db.sessions) /\ UNCHANGED <<db, run>>
      /\ file' = [kind |-> "bundle", redacted |-> redact, rows |-> rows]
  BY DEF Export, StoreOnly
<1>2. Sound(db, Given, Held)
  BY DEF StoreInv
<1>3. DOMAIN bundle = BundleFields /\ Linked(bundle, Given)
  BY <1>1, <1>2, ExportedRows DEF Tables
<1>4. /\ bundle.calls = {r \in db.calls : r.session \in ss}
      /\ bundle.events = {r \in db.events : r.session \in ss}
      /\ bundle.messages = {r \in db.messages : r.session \in ss}
  BY DEF BundleRows
<1> HIDE DEF bundle
<1>5. Answers(bundle)
  <2>1. \A s \in ss : SameIn(db, bundle, s)
    BY <1>4 DEF SameIn, In
  <2>2. \A s : s \notin ss => NothingIn(bundle, s)
    BY <1>4 DEF NothingIn, In
  <2>3. bundle.calls \subseteq db.calls /\ bundle.messages \subseteq db.messages
    BY <1>4
  <2> QED
    BY <2>1, <2>2, <2>3, PartsAnswer DEF ReplayInv
<1>6. Answers(hidden) /\ NothingSecret(hidden)
  BY <1>3, <1>5, RedactedAnswers
<1> HIDE DEF hidden
<1>7. Answers(rows) /\ (redact => NothingSecret(rows))
  BY <1>5, <1>6
<1> HIDE DEF rows
<1>8. file'.kind = "bundle" /\ file'.rows = rows /\ file'.redacted = redact
  BY <1>1
<1>9. FileAnswers'
  BY <1>7, <1>8 DEF FileAnswers
<1> QED
  BY <1>1, <1>9 DEF ReplayInv

LEMMA ExportSessionAnswers ==
    ASSUME StoreInv, ReplayInv, NEW s, ExportSession(s)
    PROVE  ReplayInv'
<1> DEFINE row == SessionRow(db, s)
<1>1. /\ UNCHANGED <<db, run>>
      /\ file' = [kind |-> "session", row |-> row,
                  messages |-> In(db.messages, s), calls |-> In(db.calls, s)]
  BY DEF ExportSession, StoreOnly
<1> HIDE DEF row
<1>2. /\ file'.kind = "session"
      /\ file'.messages = In(db.messages, s) /\ file'.calls = In(db.calls, s)
  BY <1>1
<1>3. /\ CallsStepped(In(db.calls, s)) /\ StepsNamed(In(db.messages, s))
      /\ Numbered(In(db.messages, s))
  BY DEF ReplayInv, Answers, Kept, CallsStepped, StepsNamed, In
<1>4. FileAnswers'
  BY <1>2, <1>3 DEF FileAnswers
<1> QED
  BY <1>1, <1>4 DEF ReplayInv

\* Tables of other sessions beside the store's.
LEMMA JoinedAnswers ==
    ASSUME StoreInv, StoreInv', ReplayInv, UNCHANGED <<run, file>>, NEW t, Answers(t),
           NEW ss, ss \cap Ids(db.sessions) = {},
           \A r \in t.calls \cup t.events \cup t.messages : r.session \in ss,
           db'.calls = db.calls \cup t.calls, db'.events = db.events \cup t.events,
           db'.messages = db.messages \cup t.messages
    PROVE  ReplayInv'
<1>1. \A r \in db.calls \cup db.events \cup db.messages : r.session \in Ids(db.sessions)
  BY DEF StoreInv, Sound, Whole, Linked, CallsOK, EventsOK, MessagesOK
<1>2. ASSUME NEW s, s \notin ss
      PROVE  SameIn(db, db', s)
  BY <1>2 DEF SameIn, In
<1>3. ASSUME NEW s \in ss
      PROVE  SameIn(t, db', s)
  <2>1. s \notin Ids(db.sessions)
    OBVIOUS
  <2> QED
    BY <1>1, <2>1 DEF SameIn, In
<1>4. Answers(db')
  BY <1>2, <1>3, PartsAnswer DEF ReplayInv
<1>5. RunAsks(db', run')
  <2>1. run.at # "idle" => run.session \notin ss
    BY DEF StoreInv, RunFits
  <2> QED
    BY <1>2, <2>1, ApartAsks DEF ReplayInv
<1>6. FileAnswers'
  BY DEF ReplayInv, FileAnswers
<1> QED
  BY <1>4, <1>5, <1>6 DEF ReplayInv

LEMMA ImportBundleAnswers ==
    ASSUME StoreInv, StoreInv', ReplayInv, ImportBundle
    PROVE  ReplayInv'
<1> DEFINE ids   == Ids(file.rows.sessions)
           taken == ids \cap Ids(db.sessions)
           f     == FreshIds(taken)
           rows  == RenameRows(file.rows, f)
<1>1. /\ file.kind = "bundle" /\ CanRename(taken) /\ UNCHANGED <<file, run>>
      /\ db'.calls = db.calls \cup rows.calls /\ db'.events = db.events \cup rows.events
      /\ db'.messages = db.messages \cup rows.messages
  BY DEF ImportBundle, StoreOnly
<1>2. UsedFits /\ FileFits
  BY DEF StoreInv
<1>3. /\ DOMAIN file.rows = BundleFields /\ Tables(file.rows, Given)
      /\ ids \subseteq used /\ file.rows.blobs = NamedIn(file.rows.events)
  BY <1>1, <1>2 DEF FileFits
<1> HIDE DEF taken, ids
<1>4. /\ Apart(f, ids)
      /\ \A s \in ids : SessionOf(f, s) \in Sessions /\ SessionOf(f, s) \notin Ids(db.sessions)
  BY <1>1, <1>2, <1>3, FreshIdsApart DEF taken
<1> HIDE DEF f
<1>5. /\ Tables(rows, Given)
      /\ Ids(rows.sessions) = {SessionOf(f, s) : s \in ids}
  BY <1>3, <1>4, RenamedRows DEF ids
<1>6. Answers(rows)
  <2>1. Linked(file.rows, Given) /\ Answers(file.rows)
    BY <1>1, <1>3 DEF Tables, ReplayInv, FileAnswers
  <2> QED
    BY <1>3, <1>4, <2>1, RenamedAnswers DEF ids
<1> HIDE DEF rows
<1>7. Ids(rows.sessions) \cap Ids(db.sessions) = {}
  BY <1>4, <1>5
<1>8. \A r \in rows.calls \cup rows.events \cup rows.messages : r.session \in Ids(rows.sessions)
  BY <1>5 DEF Tables, Linked, CallsOK, EventsOK, MessagesOK
<1> QED
  BY <1>1, <1>6, <1>7, <1>8, JoinedAnswers

\* What a session export brings: no request has a body.
LEMMA ImportSessionAnswers ==
    ASSUME StoreInv, StoreInv', ReplayInv, ImportSession
    PROVE  ReplayInv'
<1> DEFINE s   == file.row.id
           cs  == SetToSeq(file.calls)
           d   == [db EXCEPT !.sessions = @ \cup {file.row}, !.messages = @ \cup file.messages]
           seq(i) == LastSeq(d, s) + i
           es    == {EventRow(s, seq(i), Event("mentor.request", cs[i].agent)) : i \in DOMAIN cs}
           calls == {[cs[i] EXCEPT !.request = <<s, seq(i)>>, !.response = None] : i \in DOMAIN cs}
           t     == [calls |-> calls, events |-> es, messages |-> file.messages]
<1>1. /\ file.kind = "session" /\ s \notin Ids(db.sessions) /\ UNCHANGED <<file, run>>
      /\ db' = ImportCalls(d, s, cs)
  BY ExistsById DEF ImportSession, StoreOnly
<1>2. /\ MessagesOK(file.messages, {s}) /\ IsFiniteSet(file.calls)
      /\ \A c \in file.calls : DOMAIN c = CallFields /\ c.session = s
  BY <1>1 DEF StoreInv, FileFits
<1>3. CallsStepped(file.calls) /\ StepsNamed(file.messages) /\ Numbered(file.messages)
  BY <1>1 DEF ReplayInv, FileAnswers
<1>4. PICK l \in Nat : cs \in [1 .. l -> file.calls]
  BY <1>2, SequenceOfSet
<1>5. DOMAIN db = DbFields
  BY TablesGive
<1>6. /\ db'.calls = db.calls \cup calls /\ db'.events = db.events \cup es
      /\ db'.messages = db.messages \cup file.messages
  <2>1. /\ DOMAIN d = DbFields /\ d.calls = db.calls /\ d.events = db.events
        /\ d.messages = db.messages \cup file.messages
    BY <1>5 DEF DbFields
  <2>2. db' = [d EXCEPT !.events = @ \cup es, !.calls = @ \cup calls]
    BY <1>1 DEF ImportCalls
  <2> HIDE DEF d, es, calls
  <2> QED
    BY <2>1, <2>2 DEF DbFields
<1> HIDE DEF cs, d, seq
<1>7. \A e \in es : e.session = s /\ e.body = None
  BY DEF EventRow, Event
<1>8. \A c \in calls : c.session = s /\ c.step = c.id
  <2>1. ASSUME NEW i \in DOMAIN cs, NEW c, c = [cs[i] EXCEPT !.request = <<s, seq(i)>>, !.response = None]
        PROVE  c.session = s /\ c.step = c.id
    <3>1. /\ DOMAIN cs[i] = CallFields /\ cs[i].session = s /\ cs[i].step = cs[i].id
      BY <1>2, <1>3, <1>4 DEF CallsStepped
    <3> QED
      BY <2>1, <3>1 DEF CallFields
  <2> QED
    BY <2>1
<1>9. \A m \in file.messages : m.session = s
  BY <1>2 DEF MessagesOK
<1> HIDE DEF es, calls, s
<1>10. t.calls = calls /\ t.events = es /\ t.messages = file.messages
  OBVIOUS
<1> HIDE DEF t
<1>11. Answers(t)
  <2>1. Kept(t, s)
    <3>1. In(t.messages, s) = file.messages
      BY <1>9, <1>10 DEF In
    <3>2. \A c, e : e \in In(t.events, s) => ~ Requests(c, e)
      BY <1>7, <1>10 DEF In, Requests
    <3> QED
      BY <1>3, <3>1, <3>2 DEF Kept, Told
  <2>2. ASSUME NEW u, u # s
        PROVE  Kept(t, u)
    <3>1. NothingIn(t, u)
      BY <1>8, <1>9, <1>10, <2>2 DEF NothingIn, In
    <3> QED
      BY <3>1, NothingKept
  <2>3. CallsStepped(t.calls) /\ StepsNamed(t.messages)
    BY <1>3, <1>8, <1>10 DEF CallsStepped
  <2> QED
    BY <2>1, <2>2, <2>3 DEF Answers
<1>12. {s} \cap Ids(db.sessions) = {}
  BY <1>1
<1>13. \A r \in t.calls \cup t.events \cup t.messages : r.session \in {s}
  BY <1>7, <1>8, <1>9, <1>10
<1>14. /\ db'.calls = db.calls \cup t.calls /\ db'.events = db.events \cup t.events
       /\ db'.messages = db.messages \cup t.messages
  BY <1>6, <1>10
<1> QED
  BY <1>1, <1>11, <1>12, <1>13, <1>14, JoinedAnswers

-----------------------------------------------------------------------------
(* The whole. *)

LEMMA InitAnswers == ASSUME Init PROVE ReplayInv
<1>1. db.calls = {} /\ db.messages = {}
  BY DEF Init, EmptyStore
<1>2. Answers(db)
  <2>1. \A s : NothingIn(db, s)
    BY <1>1 DEF NothingIn, In
  <2> QED
    BY <1>1, <2>1, NothingKept DEF Answers, CallsStepped, StepsNamed
<1>3. RunAsks(db, run) /\ FileAnswers
  BY DEF Init, NoRun, NoFile, RunAsks, Asking, FileAnswers
<1> QED
  BY <1>2, <1>3 DEF ReplayInv

LEMMA StepAnswers == ASSUME StoreInv, StoreInv', ReplayInv, [Next]_vars PROVE ReplayInv'
<1>1. CASE Runs /\ UNCHANGED transfers
  <2>1. CASE RunRepair \/ RunStart \/ RunTurn \/ RunRequest \/ RunStore \/ RunResults
    BY <1>1, <2>1, RunRepairAnswers, RunStartAnswers, RunTurnAnswers, RunRequestAnswers,
       RunStoreAnswers, RunResultsAnswers
  <2>2. CASE \/ RunStep \/ RunFail \/ (\E r \in Replies : RunReply(r)) \/ RunComplete
             \/ RunClose \/ RunFinish \/ (\E s \in Sessions, p \in Prompts : RunLoad(s, p))
    BY <1>1, <2>2, PlainRunSteps
  <2> QED
    BY <1>1, <2>1, <2>2 DEF Runs
<1>2. CASE (Titles \/ Asks \/ Restarts) /\ UNCHANGED transfers
  BY <1>2, TitleSteps, AskSteps, RestartSteps
<1>3. CASE Transfers
  BY <1>3, ExportAnswers, ExportSessionAnswers, ImportBundleAnswers, ImportSessionAnswers
  DEF Transfers
<1>4. CASE UNCHANGED vars
  <2>1. UNCHANGED <<db, run, file>>
    BY <1>4 DEF vars, transfers
  <2> QED
    BY <2>1 DEF ReplayInv, FileAnswers
<1> QED
  BY <1>1, <1>2, <1>3, <1>4 DEF Next

LEMMA InvReplays == ASSUME StoreInv, ReplayInv PROVE CallsReplay
<1>1. AnsweredCallsReplay
  <2> SUFFICES ASSUME NEW c \in db.calls, NEW e \in db.events,
                      c.kind = "step", e.id = c.request, e.body # None,
                      NEW m \in db.messages, m.session = c.session, m.seq = e.count + 1,
                      m.role = "assistant", m.step = c.step
               PROVE  Replay(c) = "ok"
    BY DEF AnsweredCallsReplay
  <2>1. PICK x \in db.events : IsHome(x, c, c.request, "mentor.request")
    BY DEF StoreInv, Sound, Whole, Linked, CallsOK
  <2>2. IsFiniteSet(db.events) /\ \A y \in db.events : y.id = e.id => y = e
    BY DEF StoreInv, Sound, Whole, Linked, EventsOK
  <2>3. e.kind = "mentor.request" /\ e.session = c.session
    BY <2>1, <2>2 DEF IsHome
  <2>4. Requests(c, e) /\ AnswerOf(m, c, e)
    BY DEF Requests, AnswerOf
  <2>5. /\ Numbered(In(db.messages, c.session))
        /\ Told(In(db.calls, c.session), In(db.events, c.session), In(db.messages, c.session))
    BY DEF ReplayInv, Answers, Kept
  <2>6. Built(e, In(db.messages, c.session))
    BY <2>3, <2>4, <2>5 DEF Told, In
  <2> QED
    BY <2>2, <2>3, <2>4, <2>5, <2>6, BuiltReplays
<1>2. BundleWhole
  <2>1. file.kind = "bundle" => file.rows.blobs = NamedIn(file.rows.events)
    BY DEF StoreInv, FileFits
  <2> QED
    BY <2>1 DEF ReplayInv, FileAnswers, NothingSecret, BundleWhole
<1> QED
  BY <1>1, <1>2 DEF CallsReplay

\* What was asked of the mentor and answered can be asked again from the
\* stored messages, byte for byte, and so it can in a copy: for any number
\* of sessions, runs, repairs, title tasks, crashes, purges, redacted
\* bundles and imports under other ids (append_with_call, truncate_session_messages,
\* import_bundle_rows, replay_check).
THEOREM CallsDoReplay == Spec => []CallsReplay
<1>1. Init => StoreInv /\ ReplayInv
  BY InitOK, InitAnswers
<1>2. (StoreInv /\ ReplayInv) /\ [Next]_vars => (StoreInv /\ ReplayInv)'
  BY StepKeeps, StepAnswers
<1>3. StoreInv /\ ReplayInv => CallsReplay
  BY InvReplays
<1> QED
  BY <1>1, <1>2, <1>3, PTL DEF Spec
=============================================================================
