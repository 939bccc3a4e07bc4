-------------------------- MODULE WorkspaceProofs ---------------------------
(***************************************************************************)
(* Safety properties of Workspace for every value of its constants: what   *)
(* the tree and its index hold, what the outcomes of a run tell of it, and *)
(* what an overwrite is told.                                              *)
(***************************************************************************)
EXTENDS Workspace, TLAPS

-----------------------------------------------------------------------------
(* The values of the variables. *)

Text == {NoText, <<"base", 0>>} \cup ({"user"} \X Nat) \cup CallIds
File == [text : Text, stamp : Nat, whole : BOOLEAN]
Temp == [text : Text, whole : BOOLEAN]
Walk == [todo : SUBSET (Paths \cup {"temps"}), got : [Paths -> File],
         temps : SUBSET CallIds, began : Nat, rules : SUBSET Paths,
         held : [Paths -> Text]]
Index == [by : {"none", "index", "refresh"}, got : [Paths -> File],
          temps : SUBSET CallIds, began : Nat, stale : BOOLEAN]
Snap == [index : {"none", "begin", "walk", "done"},
         git : {"none", "status", "diff", "done", "failed"},
         walk : Walk, head : Nat, untracked : SUBSET (Paths \cup CallIds),
         diff : SUBSET Paths, texts : [Paths -> Text], torn : BOOLEAN,
         from : Nat, till : Nat]
Names == SUBSET (Paths \cup CallIds)
Outcome == [known : BOOLEAN, changed : SUBSET Paths, added : Names, deleted : Names,
            start : Snap, end : Snap]
Revert == [path : Paths \cup CallIds, was : Text, now : Text, torn : BOOLEAN]
CallState ==
    [tool : {"none", "read", "write", "edit", "glob"}, path : Paths, run : Nat,
     at : {"free", "index", "walk", "read", "record", "create", "fill", "rename",
           "invalidate", "done", "lost"},
     text : Text, prev : Text, replaced : Text, note : {"none", "unread", "changed"},
     ok : BOOLEAN, cut : BOOLEAN, walk : Walk]

Types ==
    /\ scene \in Scene
    /\ files \in [Paths -> File]
    /\ temps \in [DOMAIN temps -> Temp] /\ DOMAIN temps \subseteq CallIds
    /\ head \in [id : Nat, tree : [Paths -> Text]]
    /\ ignore \subseteq Paths /\ rules \subseteq Paths /\ reruled \subseteq Paths
    /\ slot \in Index
    /\ holder \in CallIds \cup {NoCall}
    /\ runs \in [Sessions -> [n : Nat, at : {"idle", "start", "check", "loop", "end"}]]
    /\ snap \in [Sessions -> Snap] /\ start \in [Sessions -> Snap]
    /\ seen \in [Sessions -> [Paths -> Text]]
    /\ calls \in [CallIds -> CallState]
    /\ outcomes \in [Sessions -> Outcome]
    /\ reverts \in [Sessions -> SUBSET Revert]
    /\ clock \in Nat
    /\ touched \in [Paths -> SUBSET Nat]
    /\ known \in [Paths -> Nat]

-----------------------------------------------------------------------------
(* The invariant. *)

\* A file is Absent or has a text, whole, of the last time it was touched; one
\* whose creation dropped the index is still there.
FilesFit ==
    \A p \in Paths :
        /\ files[p].whole
        /\ files[p].stamp <= clock
        /\ files[p] = Absent \/ files[p].text # NoText
        /\ \A t \in touched[p] : t <= clock /\ (Exists(p) => t <= files[p].stamp)
        /\ known[p] > 0 => Exists(p)

RulesFit == ignore \subseteq reruled /\ rules \subseteq reruled

\* Where a call stands, who has the lock, and the temporary files.
CallFits(c) ==
    /\ Call(c).tool \in {"write", "edit"} => Call(c).text = c
    /\ Call(c).at \in {"create", "fill", "rename", "invalidate"} =>
           Call(c).tool \in {"write", "edit"}
    /\ Call(c).ok => Call(c).at = "done"
    /\ Call(c).at \in {"index", "walk"} => Call(c).tool = "glob"
    /\ Call(c).at \in {"fill", "rename"} => c \in DOMAIN temps
    /\ Call(c).at = "rename" => temps[c].whole
    /\ c \in DOMAIN temps => Call(c).at \in {"fill", "rename", "lost"}
    /\ Call(c).at = "walk" <=> holder = c

CallsFit == \A c \in CallIds : CallFits(c)

\* A walk has files with their texts, or none.
WalkTells(w) ==
    /\ w.rules \subseteq reruled
    /\ \A p \in Paths \ w.todo :
          \/ w.got[p] = Absent /\ (p \notin reruled => w.held[p] = NoText)
          \/ w.got[p].text # NoText /\ w.held[p] = w.got[p].text

\* What the walk w has looked at is still so, or was touched since it began.
WalkFits(w) ==
    /\ WalkTells(w)
    /\ w.began <= clock
    /\ \A p \in Paths \ w.todo :
          /\ w.got[p].stamp <= clock
          /\ w.got[p] # Absent => \A t \in touched[p] : t <= w.began => t <= w.got[p].stamp
          /\ p \notin reruled =>
                /\ files[p] = w.got[p] \/ \E t \in touched[p] : t > w.began
                /\ w.got[p] = Absent =>
                      /\ Exists(p) => files[p].stamp > w.began
                      /\ known[p] > 0 => known[p] > w.began

\* Nobody drops the index while the lock is held.
BuildFits(w) ==
    /\ w.rules \subseteq reruled
    /\ \A p \in Paths \ (w.todo \cup reruled) : known[p] > 0 => w.got[p] # Absent

BuildsFit == \A c \in CallIds : Call(c).at = "walk" => BuildFits(Call(c).walk)

SnapFits(sn) ==
    /\ sn.index # "none" => sn.from <= clock
    /\ sn.index \in {"walk", "done"} => WalkFits(sn.walk) /\ sn.from <= sn.walk.began
    /\ sn.index = "done" => sn.walk.todo = {}

\* A run at at, with the snapshot it takes and the one it began with.
RunFits(at, taking, began) ==
    /\ at \in {"start", "end"} <=> taking.index # "none"
    /\ SnapFits(taking)
    /\ at \in {"check", "loop", "end"} =>
          /\ SnapFits(began) /\ began.index = "done"
          /\ began.from <= began.till /\ began.till <= clock
          /\ \A p \in Paths : began.walk.got[p].stamp <= began.till
    /\ at = "end" => began.till <= taking.from

SnapsFit == \A s \in Sessions : RunFits(runs[s].at, snap[s], start[s])

\* An outcome that is known lists the changes between its snapshots; of the
\* last one it has the names, and the texts.
OutcomeFits(o) ==
    /\ o.added \subseteq NamesIn(o.end.walk)
    /\ o.deleted \cap NamesIn(o.end.walk) = {}
    /\ o.end.walk.todo = {} /\ WalkTells(o.end.walk)
    /\ o.end.from <= clock
    /\ \A p \in Paths \ reruled :
          (\E t \in touched[p] : o.start.till < t /\ t <= o.end.from) =>
              p \in Named(o) \/ p \notin NamesIn(o.start.walk) \cup NamesIn(o.end.walk)
    /\ \A p \in (Named(o) \cap Paths) \ reruled :
          \E t \in touched[p] : o.start.from < t /\ t <= o.end.till

OutcomesFit == \A s \in Sessions : outcomes[s].known => OutcomeFits(outcomes[s])

\* The git half of the snapshot sn is of one HEAD with the tree t.
NewFiles(sn, t) == {p \in Paths : t[p] = NoText /\ sn.texts[p] # NoText}
ChangedFiles(sn, t) == {p \in Paths : t[p] # NoText /\ sn.texts[p] # t[p]}
Sees(sn, t) ==
    sn.untracked \cap Paths = NewFiles(sn, t) /\ sn.diff = ChangedFiles(sn, t)

\* So it is while HEAD is the one the snapshot names.
GitFits(sn) ==
    sn.git = "done" =>
        /\ sn.head <= head.id
        /\ sn.head = head.id => Sees(sn, head.tree)

\* Two snapshots that name one HEAD saw one tree, but for a torn one: what
\* differs from HEAD in the first only is not the same in both.
OneHead(before, after) ==
    before.git = "done" /\ after.git = "done" /\ ~ after.torn /\ before.head = after.head =>
        \A p \in (Dirty(before) \ Dirty(after)) \cap Paths :
            before.texts[p] # after.texts[p]

\* A run at at, after the outcome last, with the snapshot it takes and the one
\* it began with.
HeadFits(at, last, taking, began) ==
    /\ taking.git = "status" => ~ taking.torn
    /\ taking.git = "diff" =>
          IF taking.torn THEN taking.head < head.id
          ELSE /\ taking.head = head.id
               /\ taking.untracked \cap Paths = NewFiles(taking, head.tree)
    /\ GitFits(taking)
    /\ last.known => /\ GitFits(last.end)
                     /\ OneHead(last.end, taking)
                     /\ at = "check" => OneHead(last.end, began)

HeadsFit == \A s \in Sessions : HeadFits(runs[s].at, outcomes[s], snap[s], start[s])

\* The text x of path p is what the call d of run n of session s read or wrote.
Knows(d, s, n, p, x) ==
    /\ d[1] = s /\ Call(d).run = n /\ Call(d).path = p
    /\ x \in {Call(d).prev, Call(d).text}

Over == {"invalidate", "done", "lost"}

\* What a run has seen it has from a call that is over or as good as over.
SeenFits ==
    \A s \in Sessions, p \in Paths :
        seen[s][p] # NoText =>
            \E d \in CallIds :
                /\ Call(d).at \in Over
                /\ Knows(d, s, runs[s].n, p, seen[s][p])

\* The call k has looked at the content it replaces, and has no note of it.
Unnoted(k) ==
    /\ k.tool \in {"write", "edit"} /\ k.note = "none" /\ k.prev # NoText
    /\ k.at \in {"create", "fill", "rename", "record", "invalidate"} \/ k.ok

\* Such a call is one of a run that had seen that content.
NotesFit ==
    \A c \in CallIds : Unnoted(Call(c)) =>
        \E d \in CallIds \ {c} :
            /\ Call(d).at \in Over
            /\ Knows(d, c[1], Call(c).run, Call(c).path, Call(c).prev)

WorkInv ==
    /\ Types /\ FilesFit /\ RulesFit /\ CallsFit /\ BuildsFit /\ IndexKnowsCreated
    /\ SnapsFit /\ OutcomesFit /\ HeadsFit /\ SeenFits /\ NotesFit
    /\ RevertedIsUndone

-----------------------------------------------------------------------------
(* What the operators return. *)

LEMMA TextFacts ==
    /\ NoText \in Text /\ <<"base", 0>> \in Text /\ CallIds \subseteq Text
    /\ \A n \in Nat : <<"user", n>> \in Text
    /\ NoText # <<"base", 0>> /\ \A n \in Nat : n > 0 => <<"user", n>> # NoText
    /\ NoText \notin CallIds /\ NoCall \notin CallIds
  BY CallsAreBounded DEF Text, NoText, NoCall, CallIds

LEMMA AbsentType == Absent \in File /\ Absent.text = NoText /\ Absent.stamp = 0 /\ Absent.whole
  BY TextFacts DEF Absent, File

LEMMA NoWalkType == NoWalk \in Walk
  BY TextFacts, AbsentType DEF NoWalk, Walk

LEMMA NothingTypes ==
    /\ NoIndex \in Index /\ NoIndex.by = "none"
    /\ NoSnap \in Snap /\ NoSnap.index = "none" /\ NoSnap.git = "none"
    /\ NoOutcome \in Outcome /\ NoOutcome.known = FALSE
<1>1. NoIndex \in Index /\ NoIndex.by = "none"
  BY AbsentType DEF NoIndex, Index
<1>2. NoSnap \in Snap /\ NoSnap.index = "none" /\ NoSnap.git = "none"
  BY TextFacts, NoWalkType DEF NoSnap, Snap
<1>3. NoOutcome \in Outcome /\ NoOutcome.known = FALSE
  BY <1>2 DEF NoOutcome, Outcome, Names
<1> QED
  BY <1>1, <1>2, <1>3

LEMMA NoCallYetType ==
    /\ NoCallYet \in CallState
    /\ NoCallYet.at = "free" /\ NoCallYet.tool = "none" /\ NoCallYet.ok = FALSE
    /\ NoCallYet.cut = FALSE
  BY TextFacts, NoWalkType, PathsAreNamed DEF NoCallYet, CallState

LEMMA WalkingType ==
    ASSUME Types, NEW ignored \in SUBSET Paths
    PROVE  LET w == Walking(ignored)
           IN  /\ w \in Walk /\ w.todo = Paths \cup {"temps"}
               /\ w.began = clock /\ w.rules = ignored
  BY NoWalkType DEF Walking, Walk, Types

LEMMA LookedType ==
    ASSUME Types, NEW w \in Walk, NEW x \in w.todo
    PROVE  LET v == Looked(w, x)
           IN  /\ v \in Walk /\ v.todo = w.todo \ {x} /\ v.began = w.began
               /\ v.rules = w.rules
               /\ \A p \in Paths : p # x => v.got[p] = w.got[p] /\ v.held[p] = w.held[p]
               /\ x \in Paths => /\ v.got[x] = IF x \in w.rules THEN Absent ELSE files[x]
                                 /\ v.held[x] = files[x].text
<1>1. /\ w.todo \subseteq Paths \cup {"temps"}
      /\ w.got \in [Paths -> File] /\ w.held \in [Paths -> Text]
      /\ w.temps \subseteq CallIds /\ w.began \in Nat /\ w.rules \subseteq Paths
  BY DEF Walk
<1>2. CASE x = "temps"
  <2> DEFINE v == [w EXCEPT !.todo = @ \ {x}, !.temps = DOMAIN temps]
  <2>1. Looked(w, x) = v /\ x \notin Paths
    BY <1>2, PathsAreNamed DEF Looked
  <2>2. /\ v \in Walk /\ v.todo = w.todo \ {x} /\ v.began = w.began
        /\ v.rules = w.rules /\ v.got = w.got /\ v.held = w.held
    BY <1>1 DEF Walk, Types
  <2> HIDE DEF v
  <2> QED
    BY <2>1, <2>2
<1>3. CASE x # "temps"
  <2> DEFINE f == IF x \in w.rules THEN Absent ELSE files[x]
             g == [w.got EXCEPT ![x] = f]
             h == [w.held EXCEPT ![x] = files[x].text]
             v == [w EXCEPT !.todo = @ \ {x}, !.got = g, !.held = h]
  <2>0. x \in Paths
    BY <1>1, <1>3
  <2>1. Looked(w, x) = v
    BY <1>3 DEF Looked
  <2>2. f \in File /\ files[x].text \in Text
    BY <2>0, AbsentType DEF Types, File
  <2>3. /\ g \in [Paths -> File] /\ h \in [Paths -> Text]
        /\ g[x] = f /\ h[x] = files[x].text
        /\ \A p \in Paths : p # x => g[p] = w.got[p] /\ h[p] = w.held[p]
    BY <1>1, <2>0, <2>2
  <2> HIDE DEF g, h
  <2>4. /\ v \in Walk /\ v.todo = w.todo \ {x} /\ v.began = w.began
        /\ v.rules = w.rules /\ v.got = g /\ v.held = h
    BY <1>1, <2>3 DEF Walk
  <2> HIDE DEF v
  <2> QED
    BY <2>0, <2>1, <2>3, <2>4
<1> QED
  BY <1>2, <1>3

LEMMA BuiltType ==
    ASSUME NEW w \in Walk, NEW by \in {"index", "refresh"}
    PROVE  LET i == Built(w, by)
           IN  /\ i \in Index /\ i # NoIndex /\ i.by = by /\ i.got = w.got
               /\ i.began = w.began
<1>1. Built(w, by) \in Index /\ Built(w, by).by = by
  BY DEF Built, Walk, Index
<1> QED
  BY <1>1, NothingTypes DEF Built

Counted == {"saves", "removes", "restores", "commits", "rerules", "cuts", "failures",
            "gitFailures", "expiries", "crashes"}

LEMMA SpendType ==
    ASSUME Types, NEW what \in Counted, Spend(what)
    PROVE  scene' \in Scene /\ scene'.runs = scene.runs /\ scene'.calls = scene.calls
           /\ scene'.asks = scene.asks
<1>1. scene[what] \in Nat /\ scene[what] - 1 \in Nat
  BY DEF Types, Spend, Counted, Scene
<1> DEFINE n == scene[what] - 1
<1>2. scene' = [scene EXCEPT ![what] = n]
  BY DEF Spend
<1> HIDE DEF n
<1>3. n \in Nat
  BY <1>1 DEF n
<1> QED
  BY <1>2, <1>3 DEF Types, Counted, Scene

LEMMA PutFacts ==
    ASSUME Types, FilesFit, NEW p \in Paths, NEW text \in Text, NEW whole \in BOOLEAN,
           Put(p, text, whole)
    PROVE  /\ clock' = clock + 1 /\ clock \in Nat
           /\ files' \in [Paths -> File] /\ touched' \in [Paths -> SUBSET Nat]
           /\ \A q \in Paths : q # p => files'[q] = files[q] /\ touched'[q] = touched[q]
           /\ touched'[p] = touched[p] \cup {clock + 1}
           /\ text = NoText => files'[p] = Absent
           /\ text # NoText => /\ files'[p].text = text /\ files'[p].stamp = clock + 1
                               /\ files'[p].whole = whole /\ files'[p] # Absent
<1> DEFINE new == [text |-> text, stamp |-> clock + 1, whole |-> whole]
           f == IF text = NoText THEN Absent ELSE new
<1>1. clock \in Nat /\ clock' = clock + 1
  BY DEF Types, Put
<1>2. new \in File /\ new.text = text /\ new.stamp = clock + 1 /\ new.whole = whole
  BY <1>1 DEF File
<1>3. f \in File
  BY <1>2, AbsentType
<1>4. text # NoText => f # Absent
  BY <1>2, AbsentType
<1>5. files' = [files EXCEPT ![p] = f] /\ touched' = [touched EXCEPT ![p] = @ \cup {clock + 1}]
  BY DEF Put
<1> HIDE DEF f
<1>6. files' \in [Paths -> File] /\ files'[p] = f /\ \A q \in Paths : q # p => files'[q] = files[q]
  BY <1>3, <1>5 DEF Types
<1>7. /\ touched' \in [Paths -> SUBSET Nat] /\ touched'[p] = touched[p] \cup {clock + 1}
      /\ \A q \in Paths : q # p => touched'[q] = touched[q]
  BY <1>1, <1>5 DEF Types
<1> HIDE DEF new
<1> QED
  BY <1>1, <1>2, <1>4, <1>6, <1>7 DEF f

-----------------------------------------------------------------------------
(* Types. *)

LEMMA MovesType ==
    ASSUME Types, NEW c \in CallIds, NEW k \in CallState, Moves(c, k)
    PROVE  /\ calls' \in [CallIds -> CallState] /\ calls'[c] = k
           /\ \A d \in CallIds : d # c => calls'[d] = calls[d]
  BY DEF Types, Moves

LEMMA SnapsType ==
    ASSUME Types, NEW s \in Sessions, NEW sn \in Snap, Snaps(s, sn)
    PROVE  /\ snap' \in [Sessions -> Snap] /\ snap'[s] = sn
           /\ \A r \in Sessions : r # s => snap'[r] = snap[r]
  BY DEF Types, Snaps

\* A call of which only where it stands, whether it is over and how change.
LEMMA CallFields ==
    ASSUME NEW k \in CallState,
           NEW l \in {"free", "index", "walk", "read", "record", "create", "fill", "rename",
                      "invalidate", "done", "lost"},
           NEW w \in Walk, NEW x \in Text, NEW n \in {"none", "unread", "changed"}
    PROVE  /\ [k EXCEPT !.at = l] \in CallState
           /\ [k EXCEPT !.at = l, !.ok = TRUE] \in CallState
           /\ [k EXCEPT !.at = l, !.ok = TRUE, !.walk = w] \in CallState
           /\ [k EXCEPT !.at = l, !.prev = x] \in CallState
           /\ [k EXCEPT !.at = l, !.replaced = x] \in CallState
           /\ [k EXCEPT !.at = l, !.prev = x, !.note = n] \in CallState
           /\ [k EXCEPT !.at = l, !.walk = w] \in CallState
           /\ [k EXCEPT !.at = l, !.cut = TRUE, !.walk = w] \in CallState
           /\ [k EXCEPT !.cut = TRUE] \in CallState
<1>1. [k EXCEPT !.at = l] \in CallState
  BY DEF CallState
<1>2. [k EXCEPT !.at = l, !.ok = TRUE] \in CallState
  BY DEF CallState
<1>3. [k EXCEPT !.at = l, !.ok = TRUE, !.walk = w] \in CallState
  BY DEF CallState
<1>4. [k EXCEPT !.at = l, !.prev = x] \in CallState
  BY DEF CallState
<1>5. [k EXCEPT !.at = l, !.replaced = x] \in CallState
  BY DEF CallState
<1>6. [k EXCEPT !.at = l, !.prev = x, !.note = n] \in CallState
  BY DEF CallState
<1>7. [k EXCEPT !.at = l, !.walk = w] \in CallState
  BY DEF CallState
<1>8. [k EXCEPT !.at = l, !.cut = TRUE, !.walk = w] \in CallState
  BY DEF CallState
<1>9. [k EXCEPT !.cut = TRUE] \in CallState
  BY DEF CallState
<1> QED
  BY <1>1, <1>2, <1>3, <1>4, <1>5, <1>6, <1>7, <1>8, <1>9

LEMMA FilesType ==
    ASSUME Types, NEW p \in Paths
    PROVE  files[p] \in File /\ files[p].text \in Text /\ head.tree[p] \in Text
  BY DEF Types, File

LEMMA CallType ==
    ASSUME Types, NEW c \in CallIds
    PROVE  /\ Call(c) \in CallState /\ Call(c).path \in Paths /\ Call(c).walk \in Walk
           /\ Call(c).text \in Text /\ Call(c).prev \in Text /\ c[1] \in Sessions
           /\ files[Call(c).path].text \in Text
<1>1. Call(c) \in CallState /\ c[1] \in Sessions
  BY DEF Types, Call, CallIds
<1>2. Call(c).path \in Paths
  BY <1>1 DEF CallState
<1> QED
  BY <1>1, <1>2, FilesType DEF CallState

LEMMA RecordType ==
    ASSUME Types, NEW c \in CallIds, NEW x \in Text, Record(c, x)
    PROVE  seen' \in [Sessions -> [Paths -> Text]]
<1>1. c[1] \in Sessions /\ Call(c).path \in Paths
  BY CallType
<1> QED
  BY <1>1 DEF Types, Record

\* What the tools' threads do.
LEMMA WorksTypes ==
    ASSUME Types, FilesFit, CallsFit, NEW c \in CallIds, Works(c) \/ WriteFails(c)
    PROVE  Types'
<1> DEFINE k == Call(c)
<1>0. /\ k \in CallState /\ k.path \in Paths /\ k.walk \in Walk /\ k.text \in Text /\ k.prev \in Text
      /\ files[k.path].text \in Text
  BY CallType
<1>1. CASE ReadFile(c)
  <2>1. PICK n \in CallState : Moves(c, n)
    BY <1>0, <1>1, CallFields DEF ReadFile, Fails
  <2> QED
    BY <1>1, <2>1, MovesType DEF ReadFile, Rest, tree, index, trace, Types
<1>2. CASE ReadRecords(c)
  <2>1. PICK n \in CallState : Moves(c, n)
    BY <1>0, <1>2, CallFields DEF ReadRecords
  <2>2. seen' \in [Sessions -> [Paths -> Text]]
    BY <1>0, <1>2, RecordType DEF ReadRecords
  <2> QED
    BY <1>2, <2>1, <2>2, MovesType DEF ReadRecords, tree, index, trace, Types
<1>3. CASE ReadsOld(c)
  <2>1. OverwriteNote(c, files[k.path].text) \in {"none", "unread", "changed"}
    BY DEF OverwriteNote
  <2>2. PICK n \in CallState : Moves(c, n)
    <3> DEFINE x == files[k.path].text
    <3>0. k \in CallState /\ x \in Text
      BY <1>0
    <3>1. ASSUME NEW m \in {"none", "unread", "changed"}
          PROVE  [k EXCEPT !.at = "create", !.prev = x, !.note = m] \in CallState
      <4> HIDE DEF k, x
      <4> QED
        BY <3>0 DEF CallState
    <3>2. [k EXCEPT !.at = "done"] \in CallState
      <4> HIDE DEF k
      <4> QED
        BY <3>0 DEF CallState
    <3>3. (IF x = NoText THEN "none" ELSE OverwriteNote(c, x)) \in {"none", "unread", "changed"}
      BY <2>1
    <3> HIDE DEF x
    <3> QED
      BY <1>3, <3>1, <3>2, <3>3 DEF ReadsOld, Fails, x
  <2> QED
    BY <1>3, <2>2, MovesType DEF ReadsOld, Rest, tree, index, trace, Types
<1>4. CASE CreatesTemp(c)
  <2>1. PICK n \in CallState : Moves(c, n)
    BY <1>0, <1>4, CallFields DEF CreatesTemp
  <2>2. temps' \in [DOMAIN temps' -> Temp] /\ DOMAIN temps' \subseteq CallIds
    BY <1>0, <1>4 DEF CreatesTemp, Types, Temp
  <2> QED
    BY <1>4, <2>1, <2>2, MovesType DEF CreatesTemp, index, trace, Types
<1>5. CASE FillsTemp(c)
  <2>1. PICK n \in CallState : Moves(c, n)
    BY <1>0, <1>5, CallFields DEF FillsTemp
  <2>2. temps' \in [DOMAIN temps' -> Temp] /\ DOMAIN temps' \subseteq CallIds
    <3>1. c \in DOMAIN temps /\ temps[c] \in Temp
      BY <1>5 DEF FillsTemp, CallsFit, CallFits, Types
    <3>2. [temps[c] EXCEPT !.whole = TRUE] \in Temp
      BY <3>1 DEF Temp
    <3> QED
      BY <1>5, <3>1, <3>2 DEF FillsTemp, Types
  <2> QED
    BY <1>5, <2>1, <2>2, MovesType DEF FillsTemp, index, trace, Types
<1>6. CASE Renames(c)
  <2>1. PICK n \in CallState : Moves(c, n)
    BY <1>0, <1>6, CallFields DEF Renames
  <2>2. temps' \in [DOMAIN temps' -> Temp] /\ DOMAIN temps' \subseteq CallIds
    BY <1>6 DEF Renames, Without, Types
  <2>3. temps[c].whole \in BOOLEAN
    BY <1>6 DEF Renames, CallsFit, CallFits, Types, Temp
  <2>4. clock' \in Nat /\ files' \in [Paths -> File] /\ touched' \in [Paths -> SUBSET Nat]
    BY <1>0, <1>6, <2>3, PutFacts DEF Renames
  <2> QED
    BY <1>6, <2>1, <2>2, <2>4, MovesType DEF Renames, index, trace, Types
<1>7. CASE WriteFails(c)
  <2>1. PICK n \in CallState : Moves(c, n)
    BY <1>0, <1>7, CallFields DEF WriteFails, Fails
  <2>2. temps' \in [DOMAIN temps' -> Temp] /\ DOMAIN temps' \subseteq CallIds
    BY <1>7 DEF WriteFails, Without, Types
  <2>3. scene' \in Scene
    BY <1>7, SpendType DEF WriteFails, Counted
  <2> QED
    BY <1>7, <2>1, <2>2, <2>3, MovesType DEF WriteFails, index, trace, Types
<1>8. CASE WriteRecords(c)
  <2>1. PICK n \in CallState : Moves(c, n)
    BY <1>0, <1>8, CallFields DEF WriteRecords
  <2>2. seen' \in [Sessions -> [Paths -> Text]]
    BY <1>0, <1>8, RecordType DEF WriteRecords
  <2> QED
    BY <1>8, <2>1, <2>2, MovesType DEF WriteRecords, tree, index, trace, Types
<1>9. CASE DropsIndex(c)
  <2>1. PICK n \in CallState : Moves(c, n)
    BY <1>0, <1>9, CallFields DEF DropsIndex
  <2>2. files[k.path].stamp \in Nat
    BY <1>0, FilesType DEF File
  <2>3. known' \in [Paths -> Nat] /\ slot' \in Index /\ UNCHANGED <<rules, holder>>
    BY <1>0, <1>9, <2>2, NothingTypes DEF DropsIndex, Invalidate, Types
  <2> QED
    BY <1>9, <2>1, <2>3, MovesType DEF DropsIndex, tree, trace, Types
<1>10. CASE IndexThere(c)
  <2>1. PICK n \in CallState : Moves(c, n)
    BY <1>0, <1>10, CallFields DEF IndexThere, Call
  <2> QED
    BY <1>10, <2>1, MovesType DEF IndexThere, tree, index, trace, Types
<1>11. CASE BuildBegins(c)
  <2>1. Walking(rules) \in Walk
    BY WalkingType DEF Types
  <2>2. PICK n \in CallState : Moves(c, n)
    BY <1>0, <1>11, <2>1, CallFields DEF BuildBegins, Call
  <2> QED
    BY <1>11, <2>2, MovesType DEF BuildBegins, tree, trace, Types
<1>12. CASE BuildLooks(c)
  <2>1. PICK x \in k.walk.todo : Moves(c, [k EXCEPT !.walk = Looked(@, x)])
    BY <1>12 DEF BuildLooks, Call
  <2>2. Looked(k.walk, x) \in Walk
    BY <1>0, LookedType
  <2>3. [k EXCEPT !.walk = Looked(@, x)] \in CallState
    BY <1>0, <2>2 DEF CallState
  <2> QED
    BY <1>12, <2>1, <2>3, MovesType DEF BuildLooks, tree, index, trace, Types
<1>13. CASE BuildEnds(c)
  <2>1. PICK n \in CallState : Moves(c, n)
    BY <1>0, <1>13, NoWalkType, CallFields DEF BuildEnds, Call
  <2>2. slot' \in Index
    BY <1>0, <1>13, BuiltType DEF BuildEnds, Call
  <2> QED
    BY <1>13, <2>1, <2>2, MovesType DEF BuildEnds, tree, trace, Types
<1> QED
  BY <1>1, <1>2, <1>3, <1>4, <1>5, <1>6, <1>7, <1>8, <1>9, <1>10, <1>11, <1>12, <1>13 DEF Works

\* A snapshot of which only one half goes on.
LEMMA SnapFields ==
    ASSUME NEW sn \in Snap, NEW w \in Walk, NEW n \in Nat, NEW x \in [Paths -> Text],
           NEW u \in SUBSET (Paths \cup CallIds), NEW d \in SUBSET Paths, NEW b \in BOOLEAN
    PROVE  /\ [sn EXCEPT !.index = "walk", !.walk = w] \in Snap
           /\ [sn EXCEPT !.walk = w] \in Snap
           /\ [sn EXCEPT !.index = "done"] \in Snap
           /\ [sn EXCEPT !.git = "diff", !.head = n, !.untracked = u, !.texts = x] \in Snap
           /\ [sn EXCEPT !.git = "done", !.diff = d, !.texts = x] \in Snap
           /\ [sn EXCEPT !.git = "failed"] \in Snap
           /\ [sn EXCEPT !.till = n] \in Snap
           /\ [sn EXCEPT !.torn = b] \in Snap
<1>1. [sn EXCEPT !.index = "walk", !.walk = w] \in Snap
  BY DEF Snap
<1>2. [sn EXCEPT !.walk = w] \in Snap
  BY DEF Snap
<1>3. [sn EXCEPT !.index = "done"] \in Snap
  BY DEF Snap
<1>4. [sn EXCEPT !.git = "diff", !.head = n, !.untracked = u, !.texts = x] \in Snap
  BY DEF Snap
<1>5. [sn EXCEPT !.git = "done", !.diff = d, !.texts = x] \in Snap
  BY DEF Snap
<1>6. [sn EXCEPT !.git = "failed"] \in Snap
  BY DEF Snap
<1>7. [sn EXCEPT !.till = n] \in Snap /\ [sn EXCEPT !.torn = b] \in Snap
  BY DEF Snap
<1> QED
  BY <1>1, <1>2, <1>3, <1>4, <1>5, <1>6, <1>7

LEMMA BeginningType ==
    ASSUME Types
    PROVE  /\ Beginning \in Snap /\ Beginning.index = "begin" /\ Beginning.from = clock
           /\ Beginning.git \in {"status", "failed"}
  BY NothingTypes DEF Beginning, Snap, Types

LEMMA ChangedType ==
    ASSUME NEW before \in Snap, NEW after \in Snap
    PROVE  /\ Changed(before, after) \in Outcome
           /\ Changed(before, after).known
           /\ Changed(before, after).start = before /\ Changed(before, after).end = after
           /\ Changed(before, after).changed =
                  {p \in Paths : before.walk.got[p] # Absent /\ after.walk.got[p] # Absent
                                 /\ before.walk.got[p].stamp # after.walk.got[p].stamp}
           /\ Changed(before, after).added = NamesIn(after.walk) \ NamesIn(before.walk)
           /\ Changed(before, after).deleted = NamesIn(before.walk) \ NamesIn(after.walk)
<1>1. \A sn \in Snap : NamesIn(sn.walk) \in Names
  BY DEF Snap, Walk, NamesIn, Names
<1>2. /\ NamesIn(after.walk) \ NamesIn(before.walk) \in Names
      /\ NamesIn(before.walk) \ NamesIn(after.walk) \in Names
  BY <1>1 DEF Names
<1> QED
  BY <1>2 DEF Changed, Outcome

\* What is recorded as reverted.
LEMMA RevertedType ==
    ASSUME Types, NEW s \in Sessions
    PROVE  Reverted(s) \in SUBSET Revert
<1> DEFINE o == outcomes[s]
           now == start[s]
<1>1. /\ o \in Outcome /\ now \in Snap /\ o.end \in Snap /\ now.torn \in BOOLEAN
      /\ o.end.walk \in Walk /\ now.walk \in Walk
  BY DEF Types, Outcome, Snap
<1>2. /\ o.changed \subseteq Paths /\ o.added \subseteq Paths \cup CallIds
      /\ o.deleted \subseteq Paths \cup CallIds
  BY <1>1 DEF Outcome, Names
<1>3. \A p \in Paths : /\ o.end.walk.held[p] \in Text /\ now.walk.got[p].text \in Text
                       /\ o.end.texts[p] \in Text /\ now.texts[p] \in Text
                       /\ files[p].text \in Text
  BY <1>1, FilesType DEF Walk, Snap, File
<1> DEFINE There(x) == IF x \notin Paths THEN x
                       ELSE IF Exists(x) THEN files[x].text ELSE now.walk.got[x].text
           Was(x) == IF x \in Paths THEN o.end.walk.held[x] ELSE x
<1>4. \A x \in Paths \cup CallIds : There(x) \in Text /\ Was(x) \in Text
  BY <1>3, TextFacts
<1> HIDE DEF There, Was
<1>5. \A x \in o.added : [path |-> x, was |-> Was(x), now |-> NoText, torn |-> FALSE] \in Revert
  BY <1>2, <1>4, TextFacts DEF Revert
<1>6. \A x \in o.deleted :
          [path |-> x, was |-> IF x \in Paths THEN Was(x) ELSE NoText,
           now |-> There(x), torn |-> FALSE] \in Revert
  <2> SUFFICES ASSUME NEW x \in o.deleted
               PROVE  [path |-> x, was |-> IF x \in Paths THEN Was(x) ELSE NoText,
                       now |-> There(x), torn |-> FALSE] \in Revert
    OBVIOUS
  <2>1. x \in Paths \cup CallIds /\ There(x) \in Text
        /\ (IF x \in Paths THEN Was(x) ELSE NoText) \in Text
    BY <1>2, <1>4, TextFacts
  <2> QED
    BY <2>1 DEF Revert
<1>7. \A x \in o.changed : [path |-> x, was |-> o.end.texts[x], now |-> now.texts[x],
                            torn |-> now.torn] \in Revert
  BY <1>1, <1>2, <1>3 DEF Revert
<1> QED
  BY <1>5, <1>6, <1>7 DEF Reverted, There, Was

\* What the runs do.
LEMMA ProceedsTypes ==
    ASSUME Types, FilesFit, NEW s \in Sessions, Proceeds(s) \/ RunBegins(s) \/ GitFails(s)
    PROVE  Types'
<1> DEFINE sn == snap[s]
<1>0. /\ sn \in Snap /\ sn.walk \in Walk /\ start[s] \in Snap /\ clock \in Nat
      /\ head.id \in Nat /\ head.tree \in [Paths -> Text] /\ NoSnap \in Snap
  BY NothingTypes DEF Types, Snap
<1>1. CASE RefreshBegins(s)
  <2>1. Walking(ignore) \in Walk
    BY WalkingType DEF Types
  <2>2. PICK n \in Snap : Snaps(s, n)
    BY <1>0, <1>1, <2>1, SnapFields DEF RefreshBegins
  <2> QED
    BY <1>1, <2>2, SnapsType DEF RefreshBegins, tree, tools, Types
<1>2. CASE RefreshLooks(s)
  <2>1. PICK x \in sn.walk.todo : Snaps(s, [sn EXCEPT !.walk = Looked(@, x)])
    BY <1>2 DEF RefreshLooks
  <2>2. Looked(sn.walk, x) \in Walk
    BY <1>0, LookedType
  <2>3. [sn EXCEPT !.walk = Looked(@, x)] \in Snap
    BY <1>0, <2>2 DEF Snap
  <2> QED
    BY <1>2, <2>1, <2>3, SnapsType DEF RefreshLooks, tree, index, tools, Types
<1>3. CASE RefreshStores(s)
  <2>1. [sn EXCEPT !.index = "done"] \in Snap
    BY <1>0 DEF Snap
  <2>2. slot' \in Index
    BY <1>0, <1>3, BuiltType DEF RefreshStores
  <2> QED
    BY <1>3, <2>1, <2>2, SnapsType DEF RefreshStores, tree, tools, Types
<1>4. CASE GitStatus(s)
  <2> DEFINE u == {p \in Paths : Exists(p) /\ ~ Tracked(p)} \cup DOMAIN temps
             x == [p \in Paths |-> files[p].text]
             n == [sn EXCEPT !.git = "diff", !.head = head.id, !.untracked = u, !.texts = x]
  <2>1. u \in SUBSET (Paths \cup CallIds)
    BY DEF Types
  <2>2. x \in [Paths -> Text]
    BY FilesType
  <2> HIDE DEF u, x
  <2>3. n \in Snap
    BY <1>0, <2>1, <2>2 DEF Snap
  <2>4. Snaps(s, n)
    BY <1>4 DEF GitStatus, u, x
  <2> HIDE DEF n
  <2> QED
    BY <1>4, <2>3, <2>4, SnapsType DEF GitStatus, tree, index, tools, Types
<1>5. CASE GitDiff(s)
  <2> DEFINE d == {p \in Paths : Tracked(p) /\ files[p].text # head.tree[p]}
             x == [p \in Paths |-> IF Tracked(p) THEN files[p].text ELSE sn.texts[p]]
             n == [sn EXCEPT !.git = "done", !.diff = d, !.texts = x]
  <2>1. d \in SUBSET Paths
    OBVIOUS
  <2>2. x \in [Paths -> Text]
    BY <1>0, FilesType DEF Snap
  <2> HIDE DEF d, x
  <2>3. n \in Snap
    BY <1>0, <2>1, <2>2 DEF Snap
  <2>4. Snaps(s, n)
    <3>1. sn.texts = snap[s].texts
      OBVIOUS
    <3> QED
      BY <1>5, <1>0 DEF GitDiff, d, x, Snap
  <2> HIDE DEF n
  <2> QED
    BY <1>5, <2>3, <2>4, SnapsType DEF GitDiff, tree, index, tools, Types
<1>6. CASE GitFails(s)
  <2>1. [sn EXCEPT !.git = "failed"] \in Snap
    BY <1>0 DEF Snap
  <2>2. scene' \in Scene
    BY <1>6, SpendType DEF GitFails, Counted
  <2> QED
    BY <1>6, <2>1, <2>2, SnapsType DEF GitFails, tree, index, tools, Types
<1>7. CASE RunBegins(s)
  <2>1. Beginning \in Snap
    BY BeginningType
  <2>2. seen' \in [Sessions -> [Paths -> Text]]
    BY <1>7, TextFacts DEF RunBegins, Types
  <2>3. runs' \in [Sessions -> [n : Nat, at : {"idle", "start", "check", "loop", "end"}]]
    BY <1>7 DEF RunBegins, Types
  <2> QED
    BY <1>7, <2>1, <2>2, <2>3, SnapsType DEF RunBegins, tree, index, Types
<1>8. CASE StartTaken(s)
  <2>1. [sn EXCEPT !.till = clock] \in Snap
    BY <1>0, SnapFields
  <2>2. start' \in [Sessions -> Snap]
    BY <1>8, <2>1 DEF StartTaken, Types
  <2>3. runs' \in [Sessions -> [n : Nat, at : {"idle", "start", "check", "loop", "end"}]]
    BY <1>8 DEF StartTaken, Types
  <2> QED
    BY <1>0, <1>8, <2>2, <2>3, SnapsType DEF StartTaken, tree, index, tools, Types
<1>9. CASE CheckReverted(s)
  <2>1. reverts' \in [Sessions -> SUBSET Revert]
    BY <1>9, RevertedType DEF CheckReverted, Types
  <2>2. runs' \in [Sessions -> [n : Nat, at : {"idle", "start", "check", "loop", "end"}]]
    BY <1>9 DEF CheckReverted, Types
  <2> QED
    BY <1>9, <2>1, <2>2 DEF CheckReverted, tree, index, tools, Types
<1>10. CASE LoopEnds(s)
  <2>1. Beginning \in Snap
    BY BeginningType
  <2>2. runs' \in [Sessions -> [n : Nat, at : {"idle", "start", "check", "loop", "end"}]]
    BY <1>10 DEF LoopEnds, Types
  <2> QED
    BY <1>10, <2>1, <2>2, SnapsType DEF LoopEnds, tree, index, tools, Types
<1>11. CASE EndTaken(s)
  <2>1. [sn EXCEPT !.till = clock] \in Snap
    BY <1>0, SnapFields
  <2>2. outcomes' \in [Sessions -> Outcome]
    BY <1>0, <1>11, <2>1, ChangedType DEF EndTaken, Types
  <2>3. runs' \in [Sessions -> [n : Nat, at : {"idle", "start", "check", "loop", "end"}]]
    BY <1>11 DEF EndTaken, Types
  <2>4. start' \in [Sessions -> Snap]
    BY <1>0, <1>11 DEF EndTaken, Types
  <2> QED
    BY <1>0, <1>11, <2>2, <2>3, <2>4, SnapsType DEF EndTaken, tree, index, tools, Types
<1> QED
  BY <1>1, <1>2, <1>3, <1>4, <1>5, <1>6, <1>7, <1>8, <1>9, <1>10, <1>11 DEF Proceeds

\* The mentor, the user, the machine.
LEMMA OthersTypes ==
    ASSUME Types, FilesFit,
           \/ \E s \in Sessions : Ask(s) \/ CutOff(s)
           \/ \E p \in Paths : Save(p) \/ Remove(p) \/ Restore(p) \/ Rerule(p)
           \/ Commit \/ Crash \/ Expire
    PROVE  Types'
<1>1. CASE \E s \in Sessions : Ask(s)
  <2> PICK s \in Sessions : Ask(s)
    BY <1>1
  <2>1. PICK n \in 1 .. scene.calls[s], ask \in scene.asks[s] :
            Moves(<<s, n>>, [NoCallYet EXCEPT
                !.tool = ask[1], !.path = ask[2], !.run = runs[s].n,
                !.at = IF ask[1] = "glob" THEN "index" ELSE "read",
                !.text = IF ask[1] \in {"write", "edit"} THEN <<s, n>> ELSE NoText])
    BY DEF Ask
  <2>2. <<s, n>> \in CallIds /\ ask \in Asks
    BY CallsAreBounded DEF Types, Scene, CallIds
  <2>3. ask[1] \in {"read", "write", "edit", "glob"} /\ ask[2] \in Paths /\ runs[s].n \in Nat
    BY <2>2 DEF Asks, Types
  <2> DEFINE c == <<s, n>>
             at == IF ask[1] = "glob" THEN "index" ELSE "read"
             text == IF ask[1] \in {"write", "edit"} THEN c ELSE NoText
             k == [NoCallYet EXCEPT !.tool = ask[1], !.path = ask[2], !.run = runs[s].n,
                                    !.at = at, !.text = text]
  <2>4. text \in Text /\ at \in {"index", "read"}
    BY <2>2, TextFacts
  <2> HIDE DEF text, at
  <2>5. k \in CallState
    BY <2>3, <2>4, NoCallYetType DEF CallState
  <2>6. Moves(c, k)
    BY <2>1 DEF text, at
  <2> HIDE DEF k, c
  <2> QED
    BY <2>2, <2>5, <2>6, MovesType DEF Ask, Rest, tree, index, trace, Types, c
<1>2. CASE \E s \in Sessions : CutOff(s)
  <2> PICK s \in Sessions : CutOff(s)
    BY <1>2
  <2>1. PICK c \in CallIds : Moves(c, [Call(c) EXCEPT !.cut = TRUE])
    BY DEF CutOff, CallsOf
  <2>2. [Call(c) EXCEPT !.cut = TRUE] \in CallState
    BY CallType DEF CallState
  <2>3. scene' \in Scene
    BY SpendType DEF CutOff, Counted
  <2> QED
    BY <2>1, <2>2, <2>3, MovesType DEF CutOff, tree, index, trace, Types
<1>3. CASE \E p \in Paths : Save(p)
  <2> PICK p \in Paths : Save(p)
    BY <1>3
  <2>1. <<"user", clock + 1>> \in Text
    BY TextFacts DEF Types
  <2>2. clock' \in Nat /\ files' \in [Paths -> File] /\ touched' \in [Paths -> SUBSET Nat]
    BY <2>1, PutFacts DEF Save
  <2>3. scene' \in Scene
    BY SpendType DEF Save, Counted
  <2> QED
    BY <2>2, <2>3 DEF Save, Daemon, tools, trace, Types
<1>4. CASE \E p \in Paths : Remove(p)
  <2> PICK p \in Paths : Remove(p)
    BY <1>4
  <2>1. clock' \in Nat /\ files' \in [Paths -> File] /\ touched' \in [Paths -> SUBSET Nat]
    BY TextFacts, PutFacts DEF Remove
  <2>2. scene' \in Scene
    BY SpendType DEF Remove, Counted
  <2>3. known' \in [Paths -> Nat]
    BY DEF Remove, Types
  <2> QED
    BY <2>1, <2>2, <2>3 DEF Remove, Daemon, tools, trace, Types
<1>5. CASE \E p \in Paths : Restore(p)
  <2> PICK p \in Paths : Restore(p)
    BY <1>5
  <2>1. clock' \in Nat /\ files' \in [Paths -> File] /\ touched' \in [Paths -> SUBSET Nat]
    BY FilesType, PutFacts DEF Restore
  <2>2. scene' \in Scene
    BY SpendType DEF Restore, Counted
  <2> QED
    BY <2>1, <2>2 DEF Restore, Daemon, tools, trace, Types
<1>6. CASE \E p \in Paths : Rerule(p)
  <2> PICK p \in Paths : Rerule(p)
    BY <1>6
  <2>1. scene' \in Scene
    BY SpendType DEF Rerule, Counted
  <2> QED
    BY <2>1 DEF Rerule, Daemon, tools, trace, Types
<1>7. CASE Commit
  <2>1. scene' \in Scene
    BY <1>7, SpendType DEF Commit, Counted
  <2>2. head' \in [id : Nat, tree : [Paths -> Text]]
    BY <1>7, FilesType DEF Commit, Types
  <2>3. ASSUME NEW s \in Sessions
        PROVE  [snap[s] EXCEPT !.torn = @ \/ snap[s].git = "diff"] \in Snap
    <3> DEFINE b == snap[s].torn \/ snap[s].git = "diff"
    <3>1. snap[s] \in Snap /\ b \in BOOLEAN
      BY DEF Types
    <3> HIDE DEF b
    <3>2. [snap[s] EXCEPT !.torn = b] \in Snap
      BY <3>1 DEF Snap
    <3> QED
      BY <3>2 DEF b
  <2>4. snap' \in [Sessions -> Snap]
    BY <1>7, <2>3 DEF Commit
  <2> QED
    BY <1>7, <2>1, <2>2, <2>4 DEF Commit, index, tools, Types
<1>8. CASE Crash
  <2>1. scene' \in Scene
    BY <1>8, SpendType DEF Crash, Counted
  <2>2. slot' \in Index /\ holder' \in CallIds \cup {NoCall} /\ rules' \subseteq Paths
        /\ known' \in [Paths -> Nat]
    BY <1>8, NothingTypes DEF Crash, Types
  <2>3. runs' \in [Sessions -> [n : Nat, at : {"idle", "start", "check", "loop", "end"}]]
    BY <1>8 DEF Crash, Types
  <2>4. snap' \in [Sessions -> Snap] /\ start' \in [Sessions -> Snap]
    BY <1>8, NothingTypes DEF Crash
  <2>5. seen' \in [Sessions -> [Paths -> Text]]
    BY <1>8, TextFacts DEF Crash
  <2>6. \A c \in CallIds :
            [Call(c) EXCEPT !.at = "lost", !.cut = TRUE, !.walk = NoWalk] \in CallState
    BY CallType, NoWalkType, CallFields, TextFacts
  <2>7. calls' \in [CallIds -> CallState]
    <3>1. \A c \in CallIds : Call(c) \in CallState
      BY CallType
    <3> QED
      BY <1>8, <2>6, <3>1 DEF Crash
  <2>8. outcomes' \in [Sessions -> Outcome]
    BY <1>8, NothingTypes DEF Crash, Types
  <2> QED
    BY <1>8, <2>1, <2>2, <2>3, <2>4, <2>5, <2>7, <2>8 DEF Crash, tree, Types
<1>9. CASE Expire
  <2>1. scene' \in Scene
    BY <1>9, SpendType DEF Expire, Counted
  <2>2. slot' \in Index
    BY <1>9 DEF Expire, Types, Index
  <2> QED
    BY <1>9, <2>1, <2>2 DEF Expire, tree, tools, trace, Types
<1> QED
  BY <1>1, <1>2, <1>3, <1>4, <1>5, <1>6, <1>7, <1>8, <1>9

LEMMA TypesNext ==
    ASSUME Types, FilesFit, CallsFit, [Next]_vars
    PROVE  Types'
<1>1. CASE UNCHANGED vars
  BY <1>1 DEF vars, tree, index, tools, trace, Types
<1> QED
  BY <1>1, WorksTypes, ProceedsTypes, OthersTypes DEF Next

-----------------------------------------------------------------------------
(* What a step does to the files, and to what is known of them. *)

\* Touched, as of now, is what changes; nothing else moves a file.
TreeSteps ==
    /\ clock <= clock' /\ reruled \subseteq reruled'
    /\ \A p \in Paths :
          /\ touched[p] \subseteq touched'[p]
          /\ \A t \in touched'[p] \ touched[p] : t > clock
          /\ \/ files'[p] = files[p]
             \/ /\ \E t \in touched'[p] : t > clock
                /\ files'[p] = Absent \/ files'[p].stamp > clock
          /\ \/ known'[p] \in {known[p], 0}
             \/ known'[p] = files[p].stamp /\ files'[p] = files[p]

\* A file is put: by a write, or by somebody else.
LEMMA PutSteps ==
    ASSUME Types, FilesFit, NEW p \in Paths, NEW text \in Text,
           Put(p, text, TRUE), text = NoText => known' = [known EXCEPT ![p] = 0],
           text # NoText => UNCHANGED known, UNCHANGED reruled
    PROVE  TreeSteps /\ FilesFit'
<1>1. /\ clock' = clock + 1 /\ clock \in Nat
      /\ touched \in [Paths -> SUBSET Nat] /\ known \in [Paths -> Nat]
      /\ \A q \in Paths : q # p => files'[q] = files[q] /\ touched'[q] = touched[q]
      /\ touched'[p] = touched[p] \cup {clock + 1}
      /\ text = NoText => files'[p] = Absent
      /\ text # NoText => /\ files'[p].text = text /\ files'[p].stamp = clock + 1
                          /\ files'[p].whole = TRUE /\ files'[p] # Absent
  BY PutFacts DEF Types
<1>2. \A q \in Paths : q # p => known'[q] = known[q]
  BY <1>1
<1>3. known'[p] \in {known[p], 0} /\ (text = NoText => known'[p] = 0)
  BY <1>1
<1>4. TreeSteps
  BY <1>1, <1>2, <1>3 DEF TreeSteps
<1>5. ASSUME NEW q \in Paths
      PROVE  /\ files'[q].whole
             /\ files'[q].stamp <= clock'
             /\ files'[q] = Absent \/ files'[q].text # NoText
             /\ \A t \in touched'[q] : t <= clock' /\ (Exists(q)' => t <= files'[q].stamp)
             /\ known'[q] > 0 => Exists(q)'
  <2>1. CASE q # p
    <3>1. /\ files[q].whole /\ files[q].stamp <= clock
          /\ files[q] = Absent \/ files[q].text # NoText
          /\ \A t \in touched[q] : t <= clock /\ (Exists(q) => t <= files[q].stamp)
          /\ known[q] > 0 => Exists(q)
      BY DEF FilesFit
    <3>2. files[q].stamp \in Nat /\ touched[q] \subseteq Nat
      BY FilesType DEF File, Types
    <3> QED
      BY <1>1, <1>2, <2>1, <3>1, <3>2 DEF Exists
  <2>2. CASE q = p
    <3>1. \A t \in touched[p] : t <= clock /\ t \in Nat
      BY <1>1 DEF FilesFit
    <3> QED
      BY <1>1, <1>3, <2>2, <3>1, AbsentType DEF Exists
  <2> QED
    BY <2>1, <2>2
<1> QED
  BY <1>4, <1>5 DEF FilesFit

LEMMA QuietTree ==
    ASSUME Types, FilesFit, UNCHANGED <<files, clock, touched>>, reruled \subseteq reruled',
           \A p \in Paths : known'[p] \in {known[p], 0, files[p].stamp}
    PROVE  TreeSteps /\ FilesFit'
<1>1. clock \in Nat /\ \A p \in Paths : files[p].stamp \in Nat
  BY FilesType DEF Types, File
<1>2. TreeSteps
  BY <1>1 DEF TreeSteps
<1>3. \A p \in Paths : known'[p] > 0 => Exists(p)
  BY <1>1, AbsentType DEF FilesFit, Exists
<1> QED
  BY <1>2, <1>3 DEF FilesFit, Exists

LEMMA TreeNext ==
    ASSUME WorkInv, [Next]_vars
    PROVE  TreeSteps /\ FilesFit'
<1> USE DEF WorkInv
<1>1. CASE \E c \in CallIds : Renames(c)
  <2> PICK c \in CallIds : Renames(c)
    BY <1>1
  <2>1. Call(c).path \in Paths /\ Call(c).text \in Text
    BY CallType
  <2>2. temps[c].whole = TRUE /\ Call(c).text # NoText
    <3>1. temps[c] \in Temp /\ temps[c].whole /\ Call(c).text = c
      BY DEF Renames, CallsFit, CallFits, Types
    <3> QED
      BY <3>1, TextFacts DEF Temp
  <2>3. Put(Call(c).path, Call(c).text, TRUE) /\ UNCHANGED <<known, reruled>>
    BY <2>2 DEF Renames, index
  <2> QED
    BY <2>1, <2>2, <2>3, PutSteps
<1>2. CASE \E p \in Paths : Save(p) \/ Remove(p) \/ Restore(p)
  <2> PICK p \in Paths : Save(p) \/ Remove(p) \/ Restore(p)
    BY <1>2
  <2>1. PICK text \in Text : /\ Put(p, text, TRUE) /\ UNCHANGED reruled
                             /\ text = NoText => known' = [known EXCEPT ![p] = 0]
                             /\ text # NoText => UNCHANGED known
    <3>1. clock \in Nat
      BY DEF Types
    <3>2. CASE Save(p)
      <4>1. <<"user", clock + 1>> \in Text /\ <<"user", clock + 1>> # NoText
        BY <3>1, TextFacts
      <4> QED
        BY <3>2, <4>1 DEF Save
    <3>3. CASE Remove(p)
      BY <3>3, TextFacts DEF Remove
    <3>4. CASE Restore(p)
      BY <3>4, FilesType DEF Restore, Tracked
    <3> QED
      BY <3>2, <3>3, <3>4
  <2> QED
    BY <2>1, PutSteps
<1>3. CASE \E c \in CallIds : DropsIndex(c)
  <2> PICK c \in CallIds : DropsIndex(c)
    BY <1>3
  <2>1. Call(c).path \in Paths
    BY CallType
  <2>2. \A p \in Paths : known'[p] \in {known[p], 0, files[p].stamp}
    BY <2>1 DEF DropsIndex, Invalidate, Types
  <2> QED
    BY <2>2, QuietTree DEF DropsIndex, tree
<1>4. CASE Crash
  <2>1. \A p \in Paths : known'[p] = 0
    BY <1>4 DEF Crash
  <2> QED
    BY <1>4, <2>1, QuietTree DEF Crash, tree
<1>5. CASE \/ \E p \in Paths : Rerule(p)
           \/ Commit \/ Expire \/ UNCHANGED vars
           \/ \E s \in Sessions : Proceeds(s) \/ RunBegins(s) \/ Ask(s) \/ CutOff(s) \/ GitFails(s)
  <2>1. UNCHANGED <<files, clock, touched, known>> /\ reruled \subseteq reruled'
    BY <1>5 DEF Rerule, Commit, Expire, Proceeds, RunBegins, Ask, CutOff, GitFails,
       RefreshBegins, RefreshLooks, RefreshStores, GitStatus, GitDiff, StartTaken,
       CheckReverted, LoopEnds, EndTaken, Rest, Daemon, vars, tree, index
  <2> QED
    BY <2>1, QuietTree
<1>6. CASE \E c \in CallIds : ~ Renames(c) /\ ~ DropsIndex(c) /\ (Works(c) \/ WriteFails(c))
  <2>1. UNCHANGED <<files, clock, touched, known, reruled>>
    BY <1>6 DEF Works, WriteFails, ReadFile, ReadRecords, ReadsOld, CreatesTemp, FillsTemp,
       WriteRecords, IndexThere, BuildBegins, BuildLooks, BuildEnds, Rest, tree, index
  <2> QED
    BY <2>1, QuietTree
<1> QED
  BY <1>1, <1>2, <1>3, <1>4, <1>5, <1>6 DEF Next

-----------------------------------------------------------------------------
(* The rules, and where the calls stand. *)

LEMMA RulesNext == WorkInv /\ [Next]_vars => RulesFit'
<1> SUFFICES ASSUME WorkInv, [Next]_vars PROVE RulesFit'
  OBVIOUS
<1> USE DEF WorkInv, RulesFit
<1>1. CASE \E p \in Paths : Rerule(p)
  BY <1>1 DEF Rerule, Daemon
<1>2. CASE \E s \in Sessions : RefreshBegins(s)
  BY <1>2 DEF RefreshBegins, tree
<1>3. CASE Crash
  BY <1>3 DEF Crash, tree
<1>4. CASE \/ \E p \in Paths : Save(p) \/ Remove(p) \/ Restore(p)
           \/ Commit \/ Expire \/ UNCHANGED vars
           \/ \E s \in Sessions : ~ RefreshBegins(s) /\
                  (Proceeds(s) \/ RunBegins(s) \/ Ask(s) \/ CutOff(s) \/ GitFails(s))
  <2>1. UNCHANGED <<ignore, rules, reruled>>
    BY <1>4 DEF Save, Remove, Restore, Commit, Expire, Proceeds, RunBegins, Ask, CutOff, GitFails,
       RefreshLooks, RefreshStores, GitStatus, GitDiff, StartTaken,
       CheckReverted, LoopEnds, EndTaken, Rest, Daemon, vars, tree, index
  <2> QED
    BY <2>1
<1>5. CASE \E c \in CallIds : Works(c) \/ WriteFails(c)
  <2>1. UNCHANGED <<ignore, rules, reruled>>
    BY <1>5 DEF Works, WriteFails, ReadFile, ReadRecords, ReadsOld, CreatesTemp, FillsTemp,
       Renames, DropsIndex, Invalidate,
       WriteRecords, IndexThere, BuildBegins, BuildLooks, BuildEnds, Rest, tree, index
  <2> QED
    BY <2>1
<1> QED
  BY <1>1, <1>2, <1>3, <1>4, <1>5 DEF Next

\* What a step makes of a call, and of what it knows.
GoesOn(k, n) ==
    /\ k.at # "free" => /\ n.at # "free" /\ n.tool = k.tool /\ n.path = k.path
                        /\ n.run = k.run /\ n.text = k.text
    /\ k.at \in Over => n.at \in Over /\ n.prev = k.prev

CallSteps == \A c \in CallIds : GoesOn(Call(c), Call(c)')

\* Only the look at the old content gives a call what it replaces.
Noted(k, n) == Unnoted(n) => Unnoted(k) /\ n.prev = k.prev

\* A step of one call.
LEMMA OneCall ==
    ASSUME Types, CallsFit, NEW c \in CallIds, NEW k \in CallState, Moves(c, k),
           \A d \in CallIds : d # c =>
               /\ d \in DOMAIN temps' <=> d \in DOMAIN temps
               /\ d \in DOMAIN temps => temps'[d] = temps[d]
               /\ holder' = d <=> holder = d,
           CallFits(c)', GoesOn(Call(c), k)
    PROVE  CallsFit' /\ CallSteps
<1>1. calls'[c] = k /\ \A d \in CallIds : d # c => calls'[d] = calls[d]
  BY MovesType
<1>2. ASSUME NEW d \in CallIds, d # c PROVE CallFits(d)'
  <2>1. calls'[d] = calls[d] /\ CallFits(d)
    BY <1>1, <1>2 DEF CallsFit
  <2> QED
    BY <1>2, <2>1 DEF CallFits, Call
<1>3. CallSteps
  BY <1>1 DEF CallSteps, GoesOn, Call
<1> QED
  BY <1>2, <1>3 DEF CallsFit

\* One that leaves the temporary files and the lock alone.
LEMMA QuietCall ==
    ASSUME Types, CallsFit, NEW c \in CallIds, NEW k \in CallState, Moves(c, k),
           UNCHANGED <<temps, holder>>, GoesOn(Call(c), k),
           k.tool \in {"write", "edit"} => k.text = c,
           k.at \in {"create", "invalidate"} => k.tool \in {"write", "edit"},
           k.at = "index" => k.tool = "glob", k.ok => k.at = "done",
           \/ k.at = Call(c).at /\ k.tool = Call(c).tool
           \/ /\ Call(c).at \notin {"walk", "fill", "rename", "lost"}
              /\ k.at \notin {"walk", "fill", "rename"}
    PROVE  CallsFit' /\ CallSteps
<1>1. CallFits(c)
  BY DEF CallsFit
<1>2. Call(c)' = k
  BY MovesType DEF Call
<1>3. CallFits(c)'
  BY <1>1, <1>2 DEF CallFits
<1> QED
  BY <1>3, OneCall

LEMMA WorksCalls ==
    ASSUME WorkInv, NEW c \in CallIds, Works(c) \/ WriteFails(c)
    PROVE  /\ CallsFit' /\ CallSteps
           /\ ~ ReadsOld(c) => Noted(Call(c), Call(c)')
           /\ Call(c)'.at = "walk" => BuildBegins(c) \/ BuildLooks(c)
           /\ \A d \in CallIds : d # c => Call(d)' = Call(d)
<1> USE DEF WorkInv
<1> DEFINE k == Call(c)
           Others == \A d \in CallIds : d # c =>
               /\ d \in DOMAIN temps' <=> d \in DOMAIN temps
               /\ d \in DOMAIN temps => temps'[d] = temps[d]
               /\ holder' = d <=> holder = d
           n == calls'[c]
           Same == /\ n.tool = k.tool /\ n.path = k.path /\ n.run = k.run
                   /\ n.text = k.text /\ n.note = k.note
<1>0. /\ k \in CallState /\ CallFits(c) /\ k = calls[c] /\ c # NoCall
      /\ k.walk \in Walk /\ k.text \in Text /\ k.prev \in Text
      /\ files[k.path].text \in Text
  BY CallType, TextFacts DEF CallsFit, Call
<1>a. /\ n \in CallState /\ Moves(c, n) /\ Call(c)' = n
      /\ \A d \in CallIds : d # c => Call(d)' = Call(d)
  <2>1. PICK m : Moves(c, m)
    BY DEF Works, WriteFails, ReadFile, ReadRecords, ReadsOld, CreatesTemp, FillsTemp, Renames,
       WriteRecords, DropsIndex, IndexThere, BuildBegins, BuildLooks, BuildEnds, Fails
  <2> QED
    BY <2>1, WorksTypes DEF Moves, Types, Call
<1>1. CASE ReadFile(c)
  <2>1. \/ n = [k EXCEPT !.at = "record", !.prev = files[k.path].text]
        \/ n = [k EXCEPT !.at = "done"]
    BY <1>0, <1>1 DEF ReadFile, Fails, Moves, Types, Call
  <2>9. Same /\ n.at \in {"record", "done"} /\ n.ok = k.ok
    BY <1>0, <2>1 DEF CallState
  <2>2. UNCHANGED <<temps, holder>> /\ k.at = "read" /\ k.tool = "read"
    BY <1>1 DEF ReadFile, Rest, tree, index
  <2>3. CallsFit' /\ CallSteps
    BY <1>0, <1>a, <2>9, <2>2, QuietCall DEF GoesOn, Over, CallFits
  <2> QED
    BY <1>a, <2>9, <2>2, <2>3 DEF Noted, Unnoted, Call
<1>2. CASE ReadRecords(c)
  <2>1. n = [k EXCEPT !.at = "done", !.ok = TRUE]
    BY <1>0, <1>2 DEF ReadRecords, Moves, Types, Call
  <2>9. Same /\ n.at = "done"
    BY <1>0, <2>1 DEF CallState
  <2>2. UNCHANGED <<temps, holder>> /\ k.at = "record" /\ k.tool = "read"
    BY <1>2 DEF ReadRecords, tree, index
  <2>3. CallsFit' /\ CallSteps
    BY <1>a, <2>9, <2>2, QuietCall DEF GoesOn, Over
  <2> QED
    BY <1>a, <2>9, <2>2, <2>3 DEF Noted, Unnoted, Call
<1>3. CASE ReadsOld(c)
  <2>0. OverwriteNote(c, files[k.path].text) \in {"none", "unread", "changed"}
    BY DEF OverwriteNote
  <2>1. \/ n = [k EXCEPT !.at = "done"]
        \/ n = [k EXCEPT !.at = "create", !.prev = files[k.path].text,
                                !.note = IF files[k.path].text = NoText THEN "none"
                                         ELSE OverwriteNote(c, files[k.path].text)]
    BY <1>0, <1>3 DEF ReadsOld, Fails, Moves, Types, Call
  <2>9. /\ n.tool = k.tool /\ n.path = k.path /\ n.run = k.run /\ n.text = k.text
        /\ n.at \in {"create", "done"} /\ n.ok = k.ok
    BY <1>0, <2>1 DEF CallState
  <2>2. UNCHANGED <<temps, holder>> /\ k.at = "read" /\ k.tool \in {"write", "edit"}
    BY <1>3 DEF ReadsOld, Rest, tree, index
  <2>3. CallsFit' /\ CallSteps
    BY <1>0, <1>a, <2>9, <2>2, QuietCall DEF GoesOn, Over, CallFits
  <2> QED
    BY <2>9, <1>3, <2>3, <1>a DEF Call
<1>4. CASE CreatesTemp(c)
  <2>1. n = [k EXCEPT !.at = "fill"]
    BY <1>0, <1>4 DEF CreatesTemp, Moves, Types, Call
  <2>9. Same /\ n.at = "fill" /\ n.prev = k.prev /\ n.ok = k.ok
    BY <1>0, <2>1 DEF CallState
  <2>2. k.at = "create" /\ UNCHANGED holder /\ Others /\ c \in DOMAIN temps'
    BY <1>4 DEF CreatesTemp, index
  <2>3. CallFits(c)'
    BY <1>0, <1>a, <2>9, <2>2 DEF CallFits, Call
  <2>5. GoesOn(k, n) /\ Noted(k, n)
    BY <1>a, <2>9, <2>2 DEF GoesOn, Over, Noted, Unnoted
  <2>6. CallsFit' /\ CallSteps
    BY <1>a, <2>9, <2>2, <2>3, <2>5, OneCall
  <2> QED
    BY <2>9, <1>a, <2>5, <2>6 DEF Call
<1>5. CASE FillsTemp(c)
  <2>1. n = [k EXCEPT !.at = "rename"]
    BY <1>0, <1>5 DEF FillsTemp, Moves, Types, Call
  <2>9. Same /\ n.at = "rename" /\ n.prev = k.prev /\ n.ok = k.ok
    BY <1>0, <2>1 DEF CallState
  <2>2. k.at = "fill" /\ UNCHANGED holder /\ c \in DOMAIN temps
    BY <1>0, <1>5 DEF FillsTemp, index, CallFits
  <2>7. Others /\ c \in DOMAIN temps' /\ temps'[c].whole
    <3>1. temps[c] \in Temp
      BY <2>2 DEF Types
    <3>2. [temps[c] EXCEPT !.whole = TRUE].whole
      BY <3>1 DEF Temp
    <3>3. temps' = [temps EXCEPT ![c] = [temps[c] EXCEPT !.whole = TRUE]]
      BY <1>5 DEF FillsTemp
    <3> QED
      BY <2>2, <3>2, <3>3
  <2>3. CallFits(c)'
    BY <1>0, <1>a, <2>9, <2>2, <2>7 DEF CallFits, Call
  <2>5. GoesOn(k, n) /\ Noted(k, n)
    BY <1>a, <2>9, <2>2 DEF GoesOn, Over, Noted, Unnoted
  <2>6. CallsFit' /\ CallSteps
    BY <1>a, <2>9, <2>2, <2>3, <2>5, <2>7, OneCall
  <2> QED
    BY <2>9, <1>a, <2>5, <2>6 DEF Call
<1>6. CASE Renames(c)
  <2>1. n = [k EXCEPT !.at = "record", !.replaced = files[k.path].text]
    BY <1>0, <1>6 DEF Renames, Moves, Types, Call
  <2>9. Same /\ n.at = "record" /\ n.prev = k.prev /\ n.ok = k.ok
    BY <1>0, <2>1 DEF CallState
  <2>2. k.at = "rename" /\ UNCHANGED holder /\ Others /\ c \notin DOMAIN temps'
    BY <1>6 DEF Renames, Without, index
  <2>3. CallFits(c)'
    BY <1>0, <1>a, <2>9, <2>2 DEF CallFits, Call
  <2>5. GoesOn(k, n) /\ Noted(k, n)
    BY <1>a, <2>9, <2>2 DEF GoesOn, Over, Noted, Unnoted
  <2>6. CallsFit' /\ CallSteps
    BY <1>a, <2>9, <2>2, <2>3, <2>5, OneCall
  <2> QED
    BY <2>9, <1>a, <2>5, <2>6 DEF Call
<1>7. CASE WriteFails(c)
  <2>1. n = [k EXCEPT !.at = "done"]
    BY <1>0, <1>7 DEF WriteFails, Fails, Moves, Types, Call
  <2>9. Same /\ n.at = "done" /\ n.prev = k.prev /\ n.ok = k.ok
    BY <1>0, <2>1 DEF CallState
  <2>2. k.at \in {"fill", "rename"} /\ UNCHANGED holder /\ Others /\ c \notin DOMAIN temps'
    BY <1>7 DEF WriteFails, Without, index
  <2>3. CallFits(c)'
    BY <1>0, <1>a, <2>9, <2>2 DEF CallFits, Call
  <2>5. GoesOn(k, n) /\ Noted(k, n)
    BY <1>a, <2>9, <2>2 DEF GoesOn, Over, Noted, Unnoted
  <2>6. CallsFit' /\ CallSteps
    BY <1>a, <2>9, <2>2, <2>3, <2>5, OneCall
  <2> QED
    BY <2>9, <1>a, <2>5, <2>6 DEF Call
<1>8. CASE WriteRecords(c)
  <2>1. \/ n = [k EXCEPT !.at = "invalidate"]
        \/ n = [k EXCEPT !.at = "done", !.ok = TRUE]
    BY <1>0, <1>8 DEF WriteRecords, Moves, Types, Call
  <2>9. Same /\ n.at \in Over /\ n.prev = k.prev /\ (n.ok = k.ok \/ n.at = "done")
    BY <1>0, <2>1 DEF CallState, Over
  <2>2. UNCHANGED <<temps, holder>> /\ k.at = "record" /\ k.tool \in {"write", "edit"}
    BY <1>8 DEF WriteRecords, tree, index
  <2>3. CallsFit' /\ CallSteps
    BY <1>0, <1>a, <2>9, <2>2, QuietCall DEF GoesOn, Over, CallFits
  <2> QED
    BY <1>a, <2>9, <2>2, <2>3 DEF Noted, Unnoted, Call, Over
<1>9. CASE DropsIndex(c)
  <2>1. n = [k EXCEPT !.at = "done", !.ok = TRUE]
    BY <1>0, <1>9 DEF DropsIndex, Moves, Types, Call
  <2>9. Same /\ n.at = "done" /\ n.prev = k.prev
    BY <1>0, <2>1 DEF CallState
  <2>2. UNCHANGED <<temps, holder>> /\ k.at = "invalidate"
    BY <1>9 DEF DropsIndex, Invalidate, tree
  <2>3. CallsFit' /\ CallSteps
    BY <1>0, <1>a, <2>9, <2>2, QuietCall DEF GoesOn, Over, CallFits
  <2> QED
    BY <1>a, <2>9, <2>2, <2>3 DEF Noted, Unnoted, Call
<1>10. CASE IndexThere(c)
  <2>1. n = [k EXCEPT !.at = "done", !.ok = TRUE]
    BY <1>0, <1>10 DEF IndexThere, Moves, Types, Call
  <2>9. Same /\ n.at = "done"
    BY <1>0, <2>1 DEF CallState
  <2>2. UNCHANGED <<temps, holder>> /\ k.at = "index" /\ k.tool = "glob"
    BY <1>0, <1>10 DEF IndexThere, tree, index, CallFits
  <2>3. CallsFit' /\ CallSteps
    BY <1>0, <1>a, <2>9, <2>2, QuietCall DEF GoesOn, Over, CallFits
  <2> QED
    BY <1>a, <2>9, <2>2, <2>3 DEF Noted, Unnoted, Call
<1>11. CASE BuildBegins(c)
  <2>0. Walking(rules) \in Walk
    BY WalkingType DEF Types
  <2>1. n = [k EXCEPT !.at = "walk", !.walk = Walking(rules)]
    BY <1>0, <1>11 DEF BuildBegins, Moves, Types, Call
  <2>9. Same /\ n.at = "walk" /\ n.ok = k.ok
    BY <1>0, <2>1 DEF CallState
  <2>2. k.at = "index" /\ k.tool = "glob" /\ holder' = c /\ UNCHANGED temps /\ holder = NoCall
    BY <1>0, <1>11 DEF BuildBegins, tree, CallFits
  <2>7. Others
    BY <2>2, TextFacts
  <2>3. CallFits(c)'
    BY <1>0, <1>a, <2>9, <2>2 DEF CallFits, Call
  <2>5. GoesOn(k, n) /\ Noted(k, n)
    BY <1>a, <2>9, <2>2 DEF GoesOn, Over, Noted, Unnoted
  <2>6. CallsFit' /\ CallSteps
    BY <1>a, <2>9, <2>7, <2>3, <2>5, OneCall
  <2> QED
    BY <1>11, <2>9, <1>a, <2>5, <2>6 DEF Call
<1>12. CASE BuildLooks(c)
  <2>0. PICK x \in k.walk.todo : Moves(c, [k EXCEPT !.walk = Looked(@, x)])
    BY <1>0, <1>12 DEF BuildLooks
  <2>5. Looked(k.walk, x) \in Walk
    BY <1>0, LookedType
  <2>1. n = [k EXCEPT !.walk = Looked(@, x)]
    BY <1>0, <2>0, <1>12 DEF BuildLooks, Moves, Types, Call
  <2>9. Same /\ n.at = k.at /\ n.ok = k.ok
    BY <1>0, <2>1 DEF CallState
  <2>2. UNCHANGED <<temps, holder>> /\ k.at = "walk" /\ k.tool = "glob"
    BY <1>0, <1>12 DEF BuildLooks, tree, index, CallFits
  <2>3. CallsFit' /\ CallSteps
    BY <1>0, <1>a, <2>9, <2>2, QuietCall DEF GoesOn, Over, CallFits
  <2> QED
    BY <1>12, <1>a, <2>9, <2>2, <2>3 DEF Noted, Unnoted, Call
<1>13. CASE BuildEnds(c)
  <2>1. n = [k EXCEPT !.at = "done", !.ok = TRUE, !.walk = NoWalk]
    BY <1>0, <1>13 DEF BuildEnds, Moves, Types, Call
  <2>9. Same /\ n.at = "done"
    BY <1>0, <2>1 DEF CallState
  <2>2. k.at = "walk" /\ k.tool = "glob" /\ holder' = NoCall /\ UNCHANGED temps /\ holder = c
    BY <1>0, <1>13 DEF BuildEnds, tree, CallFits
  <2>7. Others
    BY <2>2, TextFacts
  <2>3. CallFits(c)'
    BY <1>0, <1>a, <2>9, <2>2 DEF CallFits, Call
  <2>5. GoesOn(k, n) /\ Noted(k, n)
    BY <1>a, <2>9, <2>2 DEF GoesOn, Over, Noted, Unnoted
  <2>6. CallsFit' /\ CallSteps
    BY <1>a, <2>9, <2>7, <2>3, <2>5, OneCall
  <2> QED
    BY <2>9, <1>a, <2>5, <2>6 DEF Call
<1> QED
  BY <1>1, <1>2, <1>3, <1>4, <1>5, <1>6, <1>7, <1>8, <1>9, <1>10, <1>11, <1>12, <1>13 DEF Works

LEMMA CallsNext ==
    ASSUME WorkInv, [Next]_vars
    PROVE  /\ CallsFit' /\ CallSteps
           /\ \A c \in CallIds :
                 /\ ReadsOld(c) \/ Noted(Call(c), Call(c)')
                 /\ Call(c)'.at = "walk" =>
                        \/ BuildBegins(c) \/ BuildLooks(c)
                        \/ Call(c).at = "walk" /\ Call(c)'.walk = Call(c).walk
<1> USE DEF WorkInv
<1>1. CASE \E c \in CallIds : Works(c) \/ WriteFails(c)
  <2> PICK c \in CallIds : Works(c) \/ WriteFails(c)
    BY <1>1
  <2>1. \A d \in CallIds : d # c => Call(d)' = Call(d) /\ Noted(Call(d), Call(d)')
    BY WorksCalls DEF Noted
  <2> QED
    BY <2>1, WorksCalls
<1>2. CASE \E s \in Sessions : Ask(s)
  <2> PICK s \in Sessions : Ask(s)
    BY <1>2
  <2>1. PICK m \in 1 .. scene.calls[s], ask \in scene.asks[s] :
            /\ Call(<<s, m>>).at = "free"
            /\ Moves(<<s, m>>, [NoCallYet EXCEPT
                !.tool = ask[1], !.path = ask[2], !.run = runs[s].n,
                !.at = IF ask[1] = "glob" THEN "index" ELSE "read",
                !.text = IF ask[1] \in {"write", "edit"} THEN <<s, m>> ELSE NoText])
    BY DEF Ask
  <2>2. <<s, m>> \in CallIds /\ ask \in Asks
    BY CallsAreBounded DEF Types, Scene, CallIds
  <2>3. ask[1] \in {"read", "write", "edit", "glob"} /\ ask[2] \in Paths /\ runs[s].n \in Nat
    BY <2>2 DEF Asks, Types
  <2> DEFINE c == <<s, m>>
             at == IF ask[1] = "glob" THEN "index" ELSE "read"
             text == IF ask[1] \in {"write", "edit"} THEN c ELSE NoText
             k == [NoCallYet EXCEPT !.tool = ask[1], !.path = ask[2], !.run = runs[s].n,
                                    !.at = at, !.text = text]
  <2>4. text \in Text /\ at \in {"index", "read"} /\ (at = "index" => ask[1] = "glob")
        /\ (ask[1] \in {"write", "edit"} => text = c)
    BY <2>2, TextFacts
  <2>6. Moves(c, k) /\ c \in CallIds /\ Call(c).at = "free"
    BY <2>1, <2>2 DEF text, at
  <2> HIDE DEF text, at, c
  <2>5. k \in CallState /\ k.at = at /\ k.text = text /\ k.tool = ask[1] /\ k.ok = FALSE
    BY <2>3, <2>4, NoCallYetType DEF CallState
  <2> HIDE DEF k
  <2>7. UNCHANGED <<temps, holder>>
    BY DEF Ask, Rest, tree, index
  <2>8. GoesOn(Call(c), k) /\ Noted(Call(c), k)
    BY <2>4, <2>5, <2>6 DEF GoesOn, Over, Noted, Unnoted
  <2>9. CallsFit' /\ CallSteps
    BY <2>4, <2>5, <2>6, <2>7, <2>8, QuietCall
  <2>10. calls'[c] = k /\ \A d \in CallIds : d # c => calls'[d] = calls[d]
    BY <2>5, <2>6, MovesType
  <2> QED
    BY <2>4, <2>5, <2>8, <2>9, <2>10 DEF Noted, Call
<1>3. CASE \E s \in Sessions : CutOff(s)
  <2> PICK s \in Sessions : CutOff(s)
    BY <1>3
  <2>1. PICK c \in CallIds : Moves(c, [Call(c) EXCEPT !.cut = TRUE])
    BY DEF CutOff, CallsOf
  <2> DEFINE k == [Call(c) EXCEPT !.cut = TRUE]
  <2>2. /\ k \in CallState /\ k.at = Call(c).at /\ k.tool = Call(c).tool /\ k.text = Call(c).text
        /\ k.path = Call(c).path /\ k.run = Call(c).run /\ k.prev = Call(c).prev
        /\ k.ok = Call(c).ok /\ k.note = Call(c).note /\ k.walk = Call(c).walk
    BY CallType DEF CallState
  <2>3. UNCHANGED <<temps, holder>> /\ Moves(c, k)
    BY <2>1 DEF CutOff, tree, index
  <2> HIDE DEF k
  <2>4. GoesOn(Call(c), k) /\ Noted(Call(c), k)
    BY <2>2 DEF GoesOn, Noted, Unnoted
  <2>5. CallFits(c)
    BY DEF CallsFit
  <2>6. CallsFit' /\ CallSteps
    BY <2>2, <2>3, <2>4, <2>5, QuietCall DEF CallFits
  <2>7. calls'[c] = k /\ \A d \in CallIds : d # c => calls'[d] = calls[d]
    BY <2>2, <2>3, MovesType
  <2> QED
    BY <2>2, <2>4, <2>6, <2>7 DEF Noted, Call
<1>4. CASE Crash
  <2> SUFFICES ASSUME NEW c \in CallIds
               PROVE  /\ CallFits(c)' /\ GoesOn(Call(c), Call(c)') /\ Noted(Call(c), Call(c)')
                      /\ Call(c)'.at # "walk"
    BY DEF CallsFit, CallSteps
  <2> DEFINE k == Call(c)
             n == [k EXCEPT !.at = "lost", !.cut = TRUE, !.walk = NoWalk]
  <2>1. k \in CallState /\ CallFits(c)
    BY CallType DEF CallsFit
  <2>2. Call(c)' = IF k.at \in {"free", "done"} THEN k ELSE n
    BY <1>4 DEF Crash, Call
  <2>3. /\ n.at = "lost" /\ n.tool = k.tool /\ n.text = k.text /\ n.path = k.path /\ n.run = k.run
        /\ n.prev = k.prev /\ n.ok = k.ok /\ n.note = k.note
    BY <2>1 DEF CallState
  <2> HIDE DEF k, n
  <2>4. UNCHANGED temps /\ holder' = NoCall /\ c # NoCall
    BY <1>4, TextFacts DEF Crash, tree
  <2>5. CallFits(c)'
    BY <2>1, <2>2, <2>3, <2>4 DEF CallFits, k
  <2> QED
    BY <2>2, <2>3, <2>5 DEF GoesOn, Over, Noted, Unnoted, k
<1>5. CASE \/ \E p \in Paths : Save(p) \/ Remove(p) \/ Restore(p) \/ Rerule(p)
           \/ Commit \/ Expire \/ UNCHANGED vars
           \/ \E s \in Sessions : Proceeds(s) \/ RunBegins(s) \/ GitFails(s)
  <2>1. UNCHANGED <<calls, temps, holder>>
    BY <1>5 DEF Save, Remove, Restore, Rerule, Commit, Expire, Proceeds, RunBegins, GitFails,
       RefreshBegins, RefreshLooks, RefreshStores, GitStatus, GitDiff, StartTaken,
       CheckReverted, LoopEnds, EndTaken, Daemon, vars, tree, index, tools
  <2> QED
    BY <2>1 DEF CallsFit, CallFits, CallSteps, GoesOn, Noted, Call
<1> QED
  BY <1>1, <1>2, <1>3, <1>4, <1>5 DEF Next

-----------------------------------------------------------------------------
(* What a run has seen, and what an overwrite is told. *)

\* What a call that is over knows it knows for good.
LEMMA KnowsStill ==
    ASSUME CallSteps, NEW d \in CallIds, Call(d).at \in Over
    PROVE  /\ Call(d)'.at \in Over /\ Call(d)'.run = Call(d).run /\ Call(d)'.path = Call(d).path
           /\ Call(d)'.prev = Call(d).prev /\ Call(d)'.text = Call(d).text
  BY DEF CallSteps, GoesOn, Over

\* A call notes what it has read, or written.
LEMMA RecordSees ==
    ASSUME WorkInv, NEW c \in CallIds, NEW x, Record(c, x), CallSteps,
           Call(c)'.at \in Over, Call(c).at # "free",
           x \in {Call(c)'.prev, Call(c)'.text}, UNCHANGED runs
    PROVE  SeenFits'
<1> USE DEF WorkInv
<1>1. c[1] \in Sessions /\ Call(c).path \in Paths /\ seen \in [Sessions -> [Paths -> Text]]
  BY CallType DEF Types
<1>2. Call(c)'.path = Call(c).path /\ Call(c)'.run = Call(c).run
  BY DEF CallSteps, GoesOn
<1> SUFFICES ASSUME NEW s \in Sessions, NEW p \in Paths, seen'[s][p] # NoText
             PROVE  \E d \in CallIds :
                        /\ Call(d)'.at \in Over
                        /\ d[1] = s /\ Call(d)'.run = runs[s].n /\ Call(d)'.path = p
                        /\ seen'[s][p] \in {Call(d)'.prev, Call(d)'.text}
  BY DEF SeenFits, Knows
<1>3. CASE OfRun(c) /\ s = c[1] /\ p = Call(c).path
  <2>1. seen'[s][p] = x
    BY <1>1, <1>3 DEF Record
  <2> QED
    BY <1>2, <1>3, <2>1 DEF OfRun
<1>4. CASE ~ (OfRun(c) /\ s = c[1] /\ p = Call(c).path)
  <2>1. seen'[s][p] = seen[s][p]
    BY <1>1, <1>4 DEF Record
  <2>2. PICK d \in CallIds : Call(d).at \in Over /\ Knows(d, s, runs[s].n, p, seen[s][p])
    BY <2>1 DEF SeenFits
  <2> QED
    BY <2>1, <2>2, KnowsStill DEF Knows
<1> QED
  BY <1>3, <1>4

LEMMA SeenNext ==
    ASSUME WorkInv, [Next]_vars
    PROVE  SeenFits'
<1> USE DEF WorkInv
<1>0. CallSteps
  BY CallsNext
<1>a. \A c \in CallIds : Call(c) \in CallState
  BY CallType
<1>1. CASE \E c \in CallIds : ReadRecords(c)
  <2> PICK c \in CallIds : ReadRecords(c)
    BY <1>1
  <2>1. Call(c)' = [Call(c) EXCEPT !.at = "done", !.ok = TRUE]
    BY DEF ReadRecords, Moves, Call, Types
  <2>2. Call(c)'.at \in Over /\ Call(c)'.prev = Call(c).prev
    BY <1>a, <2>1 DEF CallState, Over
  <2> QED
    BY <1>0, <2>2, RecordSees DEF ReadRecords, trace
<1>2. CASE \E c \in CallIds : WriteRecords(c)
  <2> PICK c \in CallIds : WriteRecords(c)
    BY <1>2
  <2>1. \/ Call(c)' = [Call(c) EXCEPT !.at = "done", !.ok = TRUE]
        \/ Call(c)' = [Call(c) EXCEPT !.at = "invalidate"]
    BY DEF WriteRecords, Moves, Call, Types
  <2>2. Call(c)'.at \in Over /\ Call(c)'.text = Call(c).text
    BY <1>a, <2>1 DEF CallState, Over
  <2> QED
    BY <1>0, <2>2, RecordSees DEF WriteRecords, trace
<1>3. CASE Crash
  BY <1>3 DEF Crash, SeenFits
<1>4. CASE \/ \E s \in Sessions : Proceeds(s) \/ RunBegins(s) \/ Ask(s) \/ CutOff(s) \/ GitFails(s)
           \/ \E c \in CallIds : ~ ReadRecords(c) /\ ~ WriteRecords(c) /\ (Works(c) \/ WriteFails(c))
           \/ \E p \in Paths : Save(p) \/ Remove(p) \/ Restore(p) \/ Rerule(p)
           \/ Commit \/ Expire \/ UNCHANGED vars
  <2>1. ASSUME NEW s \in Sessions
        PROVE  \/ seen'[s] = [p \in Paths |-> NoText]
               \/ seen'[s] = seen[s] /\ runs'[s].n = runs[s].n
    <3>0. runs \in [Sessions -> [n : Nat, at : {"idle", "start", "check", "loop", "end"}]]
          /\ seen \in [Sessions -> [Paths -> Text]]
      BY DEF Types
    <3>1. CASE \E r \in Sessions : RunBegins(r)
      BY <3>0, <3>1 DEF RunBegins
    <3>2. CASE \E r \in Sessions : StartTaken(r) \/ CheckReverted(r) \/ LoopEnds(r) \/ EndTaken(r)
      <4> PICK r \in Sessions, l \in {"check", "loop", "end", "idle"} :
              runs' = [runs EXCEPT ![r].at = l] /\ UNCHANGED seen
        BY <3>2 DEF StartTaken, CheckReverted, LoopEnds, EndTaken, tools
      <4> QED
        BY <3>0
    <3>3. CASE UNCHANGED <<runs, seen>>
      BY <3>3
    <3> QED
      BY <1>4, <3>1, <3>2, <3>3 DEF Proceeds, Ask, CutOff, GitFails, RefreshBegins, RefreshLooks,
         RefreshStores, GitStatus, GitDiff, Works, WriteFails, ReadFile, ReadsOld, CreatesTemp,
         FillsTemp, Renames, DropsIndex, IndexThere, BuildBegins, BuildLooks, BuildEnds,
         Save, Remove, Restore, Rerule, Commit, Expire, Rest, Daemon, vars, tools, trace
  <2> SUFFICES ASSUME NEW s \in Sessions, NEW p \in Paths, seen'[s][p] # NoText
               PROVE  \E d \in CallIds :
                          /\ Call(d)'.at \in Over
                          /\ d[1] = s /\ Call(d)'.run = runs'[s].n /\ Call(d)'.path = p
                          /\ seen'[s][p] \in {Call(d)'.prev, Call(d)'.text}
    BY DEF SeenFits, Knows
  <2>2. seen'[s][p] = seen[s][p] /\ runs'[s].n = runs[s].n
    BY <2>1
  <2>3. PICK d \in CallIds : Call(d).at \in Over /\ Knows(d, s, runs[s].n, p, seen[s][p])
    BY <2>2 DEF SeenFits
  <2> QED
    BY <1>0, <2>2, <2>3, KnowsStill DEF Knows
<1> QED
  BY <1>1, <1>2, <1>3, <1>4 DEF Next

LEMMA NotesNext ==
    ASSUME WorkInv, [Next]_vars
    PROVE  NotesFit'
<1> USE DEF WorkInv
<1>0. CallSteps /\ \A c \in CallIds : ReadsOld(c) \/ Noted(Call(c), Call(c)')
  BY CallsNext
<1> SUFFICES ASSUME NEW c \in CallIds, Unnoted(Call(c)')
             PROVE  \E d \in CallIds \ {c} :
                        /\ Call(d)'.at \in Over
                        /\ d[1] = c[1] /\ Call(d)'.run = Call(c)'.run /\ Call(d)'.path = Call(c)'.path
                        /\ Call(c)'.prev \in {Call(d)'.prev, Call(d)'.text}
  BY DEF NotesFit, Knows, Unnoted
<1>1. Call(c).at # "free" => Call(c)'.run = Call(c).run /\ Call(c)'.path = Call(c).path
  BY <1>0 DEF CallSteps, GoesOn
<1>3. CASE Noted(Call(c), Call(c)')
  <2>1. Unnoted(Call(c)) /\ Call(c)'.prev = Call(c).prev /\ Call(c).at # "free"
    BY <1>3 DEF Noted, Unnoted, CallsFit, CallFits
  <2>2. PICK d \in CallIds \ {c} :
            Call(d).at \in Over /\ Knows(d, c[1], Call(c).run, Call(c).path, Call(c).prev)
    BY <2>1 DEF NotesFit
  <2> QED
    BY <1>0, <1>1, <2>1, <2>2, KnowsStill DEF Knows
<1>4. CASE ReadsOld(c)
  <2> DEFINE k == Call(c)
             old == files[k.path].text
  <2>1. k \in CallState /\ c[1] \in Sessions /\ k.path \in Paths
    BY CallType
  <2>2. k.at = "read" /\ k.ok = FALSE
    BY <1>4, <2>1 DEF ReadsOld, CallsFit, CallFits, CallState
  <2>3. \/ Call(c)' = [k EXCEPT !.at = "done"]
        \/ Call(c)' = [k EXCEPT !.at = "create", !.prev = old,
                                !.note = IF old = NoText THEN "none" ELSE OverwriteNote(c, old)]
    BY <1>4 DEF ReadsOld, Fails, Moves, Types, Call
  <2>4. Call(c)'.prev = old /\ old # NoText /\ OverwriteNote(c, old) = "none"
    BY <2>1, <2>2, <2>3 DEF Unnoted, CallState
  <2>5. OfRun(c) /\ seen[c[1]][k.path] = old
    BY <2>4 DEF OverwriteNote, SeenText
  <2>6. PICK d \in CallIds : Call(d).at \in Over /\ Knows(d, c[1], k.run, k.path, old)
    BY <2>1, <2>4, <2>5 DEF SeenFits, OfRun
  <2>7. d # c
    BY <2>2, <2>6 DEF Over
  <2> QED
    BY <1>0, <1>1, <2>2, <2>4, <2>6, <2>7, KnowsStill DEF Knows
<1> QED
  BY <1>0, <1>3, <1>4

-----------------------------------------------------------------------------
(* Walks. *)

\* Where a step only touches files, what a walk has looked at stays so.
LEMMA WalkStill ==
    ASSUME WorkInv, TreeSteps, Types', NEW w \in Walk, WalkFits(w)
    PROVE  WalkFits(w)'
<1> USE DEF WorkInv
<1>0. /\ clock \in Nat /\ clock' \in Nat /\ clock <= clock' /\ reruled \subseteq reruled'
      /\ w.began \in Nat /\ w.began <= clock
      /\ \A p \in Paths : w.got[p] \in File /\ w.got[p].stamp \in Nat
  BY DEF Types, TreeSteps, WalkFits, Walk, File
<1>1. WalkTells(w)'
  BY <1>0 DEF WalkFits, WalkTells
<1>2. w.began <= clock'
  BY <1>0
<1>3. ASSUME NEW p \in Paths \ w.todo
      PROVE  /\ w.got[p].stamp <= clock'
             /\ w.got[p] # Absent =>
                    \A t \in touched'[p] : t <= w.began => t <= w.got[p].stamp
             /\ p \notin reruled' =>
                   /\ files'[p] = w.got[p] \/ \E t \in touched'[p] : t > w.began
                   /\ w.got[p] = Absent =>
                         /\ files'[p] # Absent => files'[p].stamp > w.began
                         /\ known'[p] > 0 => known'[p] > w.began
  <2>1. /\ w.got[p].stamp <= clock
        /\ w.got[p] # Absent => \A t \in touched[p] : t <= w.began => t <= w.got[p].stamp
        /\ p \notin reruled =>
              /\ files[p] = w.got[p] \/ \E t \in touched[p] : t > w.began
              /\ w.got[p] = Absent =>
                    /\ files[p] # Absent => files[p].stamp > w.began
                    /\ known[p] > 0 => known[p] > w.began
    BY DEF WalkFits, Exists
  <2>2. /\ touched[p] \subseteq touched'[p] /\ \A t \in touched'[p] \ touched[p] : t > clock
        /\ \/ files'[p] = files[p]
           \/ /\ \E t \in touched'[p] : t > clock
              /\ files'[p] = Absent \/ files'[p].stamp > clock
        /\ \/ known'[p] \in {known[p], 0}
           \/ known'[p] = files[p].stamp /\ files'[p] = files[p]
    BY DEF TreeSteps
  <2>3. /\ touched[p] \subseteq Nat /\ touched'[p] \subseteq Nat /\ p \in Paths
        /\ files[p].stamp \in Nat /\ files'[p].stamp \in Nat
        /\ known[p] \in Nat /\ known'[p] \in Nat
    BY FilesType DEF Types, File
  <2>4. w.got[p].stamp <= clock'
    BY <1>0, <2>1, <2>3
  <2>5. w.got[p] # Absent => \A t \in touched'[p] : t <= w.began => t <= w.got[p].stamp
    <3> SUFFICES ASSUME w.got[p] # Absent, NEW t \in touched'[p], t <= w.began
                 PROVE  t <= w.got[p].stamp
      OBVIOUS
    <3>1. t \in touched[p]
      BY <1>0, <2>2, <2>3
    <3> QED
      BY <2>1, <3>1
  <2>6. ASSUME p \notin reruled'
        PROVE  files'[p] = w.got[p] \/ \E t \in touched'[p] : t > w.began
    <3>1. p \notin reruled
      BY <1>0, <2>6
    <3>2. CASE files'[p] = files[p]
      BY <2>1, <2>2, <3>1, <3>2
    <3>3. CASE files'[p] # files[p]
      <4>1. PICK t \in touched'[p] : t > clock
        BY <2>2, <3>3
      <4> QED
        BY <1>0, <2>3, <4>1
    <3> QED
      BY <3>2, <3>3
  <2>7. ASSUME p \notin reruled', w.got[p] = Absent
        PROVE  /\ files'[p] # Absent => files'[p].stamp > w.began
               /\ known'[p] > 0 => known'[p] > w.began
    <3>1. p \notin reruled
      BY <1>0, <2>7
    <3>2. files'[p] # Absent => files'[p].stamp > w.began
      BY <1>0, <2>1, <2>2, <2>3, <2>7, <3>1
    <3>3. known'[p] > 0 => known'[p] > w.began
      <4>1. files[p] = Absent => files[p].stamp = 0
        BY AbsentType
      <4> QED
        BY <1>0, <2>1, <2>2, <2>3, <2>7, <3>1, <4>1
    <3> QED
      BY <3>2, <3>3
  <2> QED
    BY <2>4, <2>5, <2>6, <2>7
<1> QED
  BY <1>1, <1>2, <1>3 DEF WalkFits, Exists

\* A walk that begins has looked at nothing.
LEMMA WalkBegins ==
    ASSUME Types, NEW ignored \in SUBSET Paths, ignored \subseteq reruled
    PROVE  WalkFits(Walking(ignored))
<1>1. /\ Walking(ignored).todo = Paths \cup {"temps"} /\ Walking(ignored).began = clock
      /\ Walking(ignored).rules = ignored /\ clock \in Nat
  BY WalkingType DEF Types
<1> QED
  BY <1>1 DEF WalkFits, WalkTells

\* It looks at one name more.
LEMMA WalkLooks ==
    ASSUME WorkInv, NEW w \in Walk, WalkFits(w), NEW x \in w.todo
    PROVE  WalkFits(Looked(w, x))
<1> USE DEF WorkInv
<1> DEFINE v == Looked(w, x)
<1>0. /\ v \in Walk /\ v.todo = w.todo \ {x} /\ v.began = w.began
      /\ v.rules = w.rules
      /\ \A p \in Paths : p # x => v.got[p] = w.got[p] /\ v.held[p] = w.held[p]
      /\ x \in Paths => /\ v.got[x] = IF x \in w.rules THEN Absent ELSE files[x]
                        /\ v.held[x] = files[x].text
  BY LookedType
<1> HIDE DEF v
<1>1. clock \in Nat /\ w.began \in Nat /\ w.began <= clock /\ w.rules \subseteq reruled
  BY DEF Types, Walk, WalkFits, WalkTells
<1>2. ASSUME NEW p \in Paths \ v.todo
      PROVE  /\ \/ v.got[p] = Absent /\ (p \notin reruled => v.held[p] = NoText)
                \/ v.got[p].text # NoText /\ v.held[p] = v.got[p].text
             /\ v.got[p].stamp <= clock
             /\ v.got[p] # Absent => \A t \in touched[p] : t <= v.began => t <= v.got[p].stamp
             /\ p \notin reruled =>
                   /\ files[p] = v.got[p] \/ \E t \in touched[p] : t > v.began
                   /\ v.got[p] = Absent =>
                         /\ Exists(p) => files[p].stamp > v.began
                         /\ known[p] > 0 => known[p] > v.began
  <2>1. CASE p # x
    <3>1. p \in Paths \ w.todo
      BY <1>0, <1>2, <2>1
    <3> QED
      BY <1>0, <2>1, <3>1 DEF WalkFits, WalkTells
  <2>2. CASE p = x
    <3>1. /\ files[p].stamp <= clock
          /\ files[p] = Absent \/ files[p].text # NoText
          /\ \A t \in touched[p] : t <= clock /\ (Exists(p) => t <= files[p].stamp)
          /\ known[p] > 0 => Exists(p)
      BY DEF FilesFit
    <3>2. v.got[p] = (IF p \in w.rules THEN Absent ELSE files[p]) /\ v.held[p] = files[p].text
      BY <1>0, <2>2
    <3>3. Absent.text = NoText /\ Absent.stamp = 0 /\ (p \notin reruled => p \notin w.rules)
      BY <1>1, AbsentType
    <3>4. files[p].stamp \in Nat /\ touched[p] \subseteq Nat
      BY FilesType DEF Types, File
    <3>5. CASE p \in w.rules
      <4>1. v.got[p] = Absent /\ p \in reruled /\ 0 <= clock
        BY <1>1, <3>2, <3>5
      <4> QED
        BY <3>3, <4>1
    <3>6. CASE p \notin w.rules
      <4>1. v.got[p] = files[p]
        BY <3>2, <3>6
      <4>2. files[p] = Absent => v.held[p] = NoText
        BY <3>2, <3>3
      <4>3. files[p] # Absent => files[p].text # NoText /\ v.held[p] = files[p].text
        BY <3>1, <3>2
      <4> QED
        BY <3>1, <4>1, <4>2, <4>3 DEF Exists
    <3> QED
      BY <3>5, <3>6
  <2> QED
    BY <2>1, <2>2
<1>3. v.rules \subseteq reruled /\ v.began <= clock
  BY <1>0, <1>1
<1> QED
  BY <1>2, <1>3 DEF WalkFits, WalkTells, v

-----------------------------------------------------------------------------
(* The index. *)

\* Only a creation tells of a file, and that drops the index.
LEMMA KnownNext ==
    ASSUME WorkInv, [Next]_vars
    PROVE  \/ holder = NoCall /\ slot' = NoIndex
           \/ \A p \in Paths : known'[p] \in {known[p], 0}
<1> USE DEF WorkInv
<1>1. CASE \E c \in CallIds : DropsIndex(c)
  BY <1>1 DEF DropsIndex, Invalidate
<1>2. CASE \E p \in Paths : Remove(p)
  BY <1>2 DEF Remove, Types
<1>3. CASE Crash
  BY <1>3 DEF Crash
<1>4. CASE \/ \E p \in Paths : Save(p) \/ Restore(p) \/ Rerule(p)
           \/ Commit \/ Expire \/ UNCHANGED vars
           \/ \E s \in Sessions : Proceeds(s) \/ RunBegins(s) \/ Ask(s) \/ CutOff(s) \/ GitFails(s)
           \/ \E c \in CallIds : ~ DropsIndex(c) /\ (Works(c) \/ WriteFails(c))
  <2>1. CASE (\E p \in Paths : Save(p) \/ Restore(p) \/ Rerule(p))
             \/ Commit \/ Expire \/ UNCHANGED vars
    BY <2>1 DEF Save, Restore, Rerule, Commit, Expire, vars, index
  <2>2. ASSUME NEW s \in Sessions, RunBegins(s) \/ Ask(s) \/ CutOff(s) \/ GitFails(s)
        PROVE  known' = known
    <3>1. CASE RunBegins(s)
      BY <3>1 DEF RunBegins, index
    <3>2. CASE Ask(s)
      BY <3>2 DEF Ask, Rest, index
    <3>3. CASE CutOff(s)
      BY <3>3 DEF CutOff, index
    <3>4. CASE GitFails(s)
      BY <3>4 DEF GitFails, index
    <3> QED
      BY <2>2, <3>1, <3>2, <3>3, <3>4
  <2>3. ASSUME NEW s \in Sessions, Proceeds(s)
        PROVE  known' = known
    BY <2>3 DEF Proceeds, RefreshBegins, RefreshLooks, RefreshStores, GitStatus, GitDiff,
       StartTaken, CheckReverted, LoopEnds, EndTaken, index
  <2>4. ASSUME NEW c \in CallIds, ~ DropsIndex(c), Works(c) \/ WriteFails(c)
        PROVE  known' = known
    <3>1. CASE WriteFails(c)
      BY <3>1 DEF WriteFails, index
    <3>2. CASE ReadFile(c) \/ ReadRecords(c) \/ ReadsOld(c)
      BY <3>2 DEF ReadFile, ReadRecords, ReadsOld, Rest, index
    <3>3. CASE CreatesTemp(c) \/ FillsTemp(c) \/ Renames(c) \/ WriteRecords(c)
      BY <3>3 DEF CreatesTemp, FillsTemp, Renames, WriteRecords, Rest, index
    <3>4. CASE IndexThere(c) \/ BuildBegins(c) \/ BuildLooks(c) \/ BuildEnds(c)
      BY <3>4 DEF IndexThere, BuildBegins, BuildLooks, BuildEnds, Rest, index
    <3> QED
      BY <2>4, <3>1, <3>2, <3>3, <3>4 DEF Works
  <2> QED
    BY <1>4, <2>1, <2>2, <2>3, <2>4
<1> QED
  BY <1>1, <1>2, <1>3, <1>4 DEF Next

LEMMA BuildsNext ==
    ASSUME WorkInv, [Next]_vars, TreeSteps
    PROVE  BuildsFit'
<1> USE DEF WorkInv
<1> SUFFICES ASSUME NEW c \in CallIds, Call(c)'.at = "walk"
             PROVE  \A w \in {Call(c)'.walk} :
                        /\ w.rules \subseteq reruled'
                        /\ \A p \in Paths \ (w.todo \cup reruled') :
                              known'[p] > 0 => w.got[p] # Absent
  BY DEF BuildsFit, BuildFits
<1>0. /\ Call(c) \in CallState /\ Call(c).walk \in Walk
      /\ reruled \subseteq reruled' /\ ignore \subseteq Paths /\ rules \subseteq Paths
  BY CallType DEF TreeSteps, Types
<1>1. CASE BuildBegins(c)
  <2> DEFINE w == Walking(rules)
  <2>1. w \in Walk /\ w.todo = Paths \cup {"temps"} /\ w.rules = rules
    BY <1>0, WalkingType
  <2> HIDE DEF w
  <2>2. Call(c)' = [Call(c) EXCEPT !.at = "walk", !.walk = w]
    BY <1>1 DEF BuildBegins, Moves, Types, Call, w
  <2>3. Call(c)'.walk = w
    BY <1>0, <2>2 DEF CallState
  <2>4. rules \subseteq reruled'
    BY <1>0 DEF RulesFit
  <2> QED
    BY <2>1, <2>3, <2>4 DEF BuildFits
<1>2. CASE Call(c).at = "walk" /\ (BuildLooks(c) \/ Call(c)'.walk = Call(c).walk)
  <2>1. holder # NoCall
    BY <1>2, TextFacts DEF CallsFit, CallFits
  <2>2. \A p \in Paths : known'[p] \in {known[p], 0}
    BY <2>1, KnownNext
  <2>3. BuildFits(Call(c).walk)
    BY <1>2 DEF BuildsFit
  <2>4. CASE Call(c)'.walk = Call(c).walk
    BY <1>0, <2>2, <2>3, <2>4 DEF BuildFits
  <2>5. CASE BuildLooks(c)
    <3> DEFINE w == Call(c).walk
    <3>1. PICK x \in w.todo : Moves(c, [Call(c) EXCEPT !.walk = Looked(@, x)])
      BY <2>5 DEF BuildLooks, Call
    <3> DEFINE v == Looked(w, x)
    <3>2. /\ v \in Walk /\ v.todo = w.todo \ {x} /\ v.rules = w.rules
          /\ \A p \in Paths : p # x => v.got[p] = w.got[p]
          /\ x \in Paths => v.got[x] = IF x \in w.rules THEN Absent ELSE files[x]
      BY <1>0, LookedType
    <3> HIDE DEF v
    <3>3. Call(c)'.walk = v
      BY <1>0, <3>1 DEF Moves, Types, Call, CallState, v
    <3> HIDE DEF w
    <3>4. w.rules \subseteq reruled /\ \A p \in Paths \ (w.todo \cup reruled) :
                                           known[p] > 0 => w.got[p] # Absent
      BY <2>3 DEF BuildFits, w
    <3>5. UNCHANGED <<known, reruled>>
      BY <2>5 DEF BuildLooks, tree, index
    <3>6. ASSUME NEW p \in Paths \ (v.todo \cup reruled), known[p] > 0
          PROVE  v.got[p] # Absent
      <4>1. CASE p # x
        BY <3>2, <3>4, <3>6, <4>1
      <4>2. CASE p = x
        BY <3>2, <3>4, <3>6, <4>2 DEF FilesFit, Exists
      <4> QED
        BY <4>1, <4>2
    <3> QED
      BY <3>2, <3>3, <3>4, <3>5, <3>6 DEF BuildFits
  <2> QED
    BY <1>2, <2>4, <2>5
<1> QED
  BY <1>1, <1>2, CallsNext DEF BuildLooks, Call

LEMMA IndexNext ==
    ASSUME WorkInv, [Next]_vars, TreeSteps
    PROVE  IndexKnowsCreated'
<1> USE DEF WorkInv
<1>1. CASE slot' = NoIndex
  BY <1>1 DEF IndexKnowsCreated
<1>2. CASE slot' # NoIndex /\ (UNCHANGED slot \/ Expire)
  <2>1. /\ slot'.got = slot.got /\ slot'.by = slot.by /\ slot'.began = slot.began
        /\ slot # NoIndex
    BY <1>2 DEF Types, Index, Expire, Fresh
  <2>2. \A p \in Paths : known'[p] \in {known[p], 0}
    BY <1>2, KnownNext
  <2>3. ASSUME NEW p \in Paths \ reruled', known'[p] > 0, slot'.got[p] = Absent
        PROVE  slot'.by = "refresh" /\ slot'.began < known'[p]
    <3>1. known'[p] = known[p] /\ known[p] > 0 /\ p \notin reruled
      BY <2>2, <2>3 DEF TreeSteps
    <3>2. Exists(p)
      BY <3>1 DEF FilesFit
    <3> QED
      BY <1>2, <2>1, <2>3, <3>1, <3>2 DEF IndexKnowsCreated
  <2> QED
    BY <1>2, <2>3 DEF IndexKnowsCreated
<1>3. CASE \E c \in CallIds : BuildEnds(c)
  <2> PICK c \in CallIds : BuildEnds(c)
    BY <1>3
  <2> DEFINE w == Call(c).walk
  <2>1. w \in Walk /\ w.todo = {} /\ BuildFits(w) /\ slot' = Built(w, "index")
    BY CallType DEF BuildEnds, Call, BuildsFit
  <2>2. UNCHANGED <<known, reruled>>
    BY DEF BuildEnds, tree
  <2> HIDE DEF w
  <2>3. slot'.got = w.got
    BY <2>1, BuiltType
  <2> QED
    BY <2>1, <2>2, <2>3 DEF IndexKnowsCreated, BuildFits
<1>4. CASE \E s \in Sessions : RefreshStores(s)
  <2> PICK s \in Sessions : RefreshStores(s)
    BY <1>4
  <2> DEFINE w == snap[s].walk
  <2>1. w \in Walk /\ w.todo = {} /\ WalkFits(w) /\ slot' = Built(w, "refresh")
    BY DEF RefreshStores, SnapsFit, RunFits, SnapFits, Types, Snap
  <2>2. UNCHANGED <<known, reruled>>
    BY DEF RefreshStores, tree
  <2> HIDE DEF w
  <2>3. slot'.got = w.got /\ slot'.by = "refresh" /\ slot'.began = w.began
    BY <2>1, BuiltType
  <2>4. w.began \in Nat /\ \A p \in Paths : known[p] \in Nat
    BY <2>1 DEF Walk, Types
  <2> QED
    BY <2>1, <2>2, <2>3, <2>4 DEF IndexKnowsCreated, WalkFits
<1>5. slot' = NoIndex \/ UNCHANGED slot \/ Expire
      \/ (\E c \in CallIds : BuildEnds(c)) \/ (\E s \in Sessions : RefreshStores(s))
  BY DEF Next, Save, Remove, Restore, Rerule, Commit, Crash, Proceeds, RunBegins, Ask, CutOff,
     GitFails, RefreshBegins, RefreshLooks, GitStatus, GitDiff, StartTaken,
     CheckReverted, LoopEnds, EndTaken, Works, WriteFails, ReadFile, ReadRecords, ReadsOld,
     CreatesTemp, FillsTemp, Renames, WriteRecords, DropsIndex, Invalidate, IndexThere,
     BuildBegins, BuildLooks, Rest, Daemon, vars, index
<1> QED
  BY <1>1, <1>2, <1>3, <1>4, <1>5

-----------------------------------------------------------------------------
(* Snapshots. *)

\* The run of a session, and what is stored of it, is its own.
Idles(s) ==
    /\ runs'[s] = runs[s] /\ snap'[s] = snap[s] /\ start'[s] = start[s]
    /\ outcomes'[s] = outcomes[s] /\ reverts'[s] = reverts[s]

LEMMA OwnSteps ==
    ASSUME Types, [Next]_vars, NEW s \in Sessions
    PROVE  Idles(s) \/ Commit \/ Crash \/ RunBegins(s) \/ GitFails(s) \/ Proceeds(s)
<1>1. CASE \E r \in Sessions : r # s /\ (Proceeds(r) \/ RunBegins(r) \/ GitFails(r))
  <2> PICK r \in Sessions : r # s /\ (Proceeds(r) \/ RunBegins(r) \/ GitFails(r))
    BY <1>1
  <2>1. snap'[s] = snap[s]
    BY DEF Proceeds, RunBegins, GitFails, RefreshBegins, RefreshLooks, RefreshStores, GitStatus,
       GitDiff, StartTaken, CheckReverted, LoopEnds, EndTaken, Snaps, Types
  <2>2. runs'[s] = runs[s]
    BY DEF Proceeds, RunBegins, GitFails, RefreshBegins, RefreshLooks, RefreshStores, GitStatus,
       GitDiff, StartTaken, CheckReverted, LoopEnds, EndTaken, Types
  <2>3. start'[s] = start[s]
    BY DEF Proceeds, RunBegins, GitFails, RefreshBegins, RefreshLooks, RefreshStores, GitStatus,
       GitDiff, StartTaken, CheckReverted, LoopEnds, EndTaken, Types
  <2>4. outcomes'[s] = outcomes[s]
    BY DEF Proceeds, RunBegins, GitFails, RefreshBegins, RefreshLooks, RefreshStores, GitStatus,
       GitDiff, StartTaken, CheckReverted, LoopEnds, EndTaken, Types
  <2>5. reverts'[s] = reverts[s]
    BY DEF Proceeds, RunBegins, GitFails, RefreshBegins, RefreshLooks, RefreshStores, GitStatus,
       GitDiff, StartTaken, CheckReverted, LoopEnds, EndTaken, Types
  <2> QED
    BY <2>1, <2>2, <2>3, <2>4, <2>5 DEF Idles
<1>2. CASE \/ \E c \in CallIds : Works(c) \/ WriteFails(c)
           \/ \E p \in Paths : Save(p) \/ Remove(p) \/ Restore(p) \/ Rerule(p)
           \/ \E r \in Sessions : Ask(r) \/ CutOff(r)
           \/ Expire \/ UNCHANGED vars
  <2>1. UNCHANGED trace
    BY <1>2 DEF Works, WriteFails, ReadFile, ReadRecords, ReadsOld, CreatesTemp, FillsTemp,
       Renames, WriteRecords, DropsIndex, IndexThere, BuildBegins, BuildLooks, BuildEnds,
       Save, Remove, Restore, Rerule, Ask, CutOff, Expire, Rest, Daemon, vars
  <2> QED
    BY <2>1 DEF Idles, trace
<1> QED
  BY <1>1, <1>2 DEF Next

LEMMA SnapStill ==
    ASSUME WorkInv, TreeSteps, Types', NEW a \in Snap, NEW b \in Snap, SnapFits(a),
           b.index = a.index, b.walk = a.walk, b.from = a.from
    PROVE  SnapFits(b)'
<1>1. clock \in Nat /\ clock' \in Nat /\ clock <= clock' /\ b.from \in Nat /\ b.walk \in Walk
  BY DEF WorkInv, Types, TreeSteps, Snap
<1>2. b.index \in {"walk", "done"} => WalkFits(b.walk)'
  BY <1>1, WalkStill DEF SnapFits
<1> QED
  BY <1>1, <1>2 DEF SnapFits

\* Nothing that a run has to do with changes, but files, and git halves.
LEMMA RunStill ==
    ASSUME WorkInv, TreeSteps, Types', NEW s \in Sessions,
           NEW at, NEW sn \in Snap, NEW st \in Snap,
           at = runs[s].at, st = start[s],
           sn.index = snap[s].index, sn.walk = snap[s].walk, sn.from = snap[s].from
    PROVE  RunFits(at, sn, st)'
<1>1. RunFits(at, snap[s], st) /\ snap[s] \in Snap
  BY DEF WorkInv, SnapsFit, Types
<1>2. /\ clock \in Nat /\ clock' \in Nat /\ clock <= clock' /\ st.till \in Nat /\ st.walk \in Walk
      /\ sn.index \in {"none", "begin", "walk", "done"}
  BY DEF WorkInv, Types, TreeSteps, Snap
<1>3. SnapFits(sn)'
  BY <1>1, SnapStill DEF RunFits
<1>4. at \in {"check", "loop", "end"} => SnapFits(st)'
  BY <1>1, SnapStill DEF RunFits
<1> QED
  BY <1>1, <1>2, <1>3, <1>4 DEF RunFits

LEMMA SnapsNext ==
    ASSUME WorkInv, [Next]_vars, TreeSteps, Types'
    PROVE  SnapsFit'
<1> USE DEF WorkInv
<1> SUFFICES ASSUME NEW s \in Sessions, NEW at, NEW sn \in Snap, NEW st \in Snap,
                    at = runs'[s].at, sn = snap'[s], st = start'[s],
                    NEW old, old = snap[s]
             PROVE  RunFits(at, sn, st)'
  <2>1. ASSUME NEW s \in Sessions
        PROVE  \E at, sn, st : /\ at = runs'[s].at /\ sn = snap'[s] /\ st = start'[s]
                               /\ sn \in Snap /\ st \in Snap
    BY DEF Types
  <2>2. ASSUME NEW s \in Sessions
        PROVE  RunFits(runs[s].at, snap[s], start[s])'
    <3>1. PICK at, sn, st : /\ at = runs'[s].at /\ sn = snap'[s] /\ st = start'[s]
                            /\ sn \in Snap /\ st \in Snap
      BY <2>1
    <3>2. RunFits(at, sn, st)'
      BY <3>1
    <3>3. WalkFits(sn.walk)' => WalkFits(snap[s].walk)'
      BY <3>1 DEF WalkFits, WalkTells, Exists
    <3>4. WalkFits(st.walk)' => WalkFits(start[s].walk)'
      BY <3>1 DEF WalkFits, WalkTells, Exists
    <3>5. SnapFits(sn)' => SnapFits(snap[s])'
      BY <3>1, <3>3 DEF SnapFits
    <3>6. SnapFits(st)' => SnapFits(start[s])'
      BY <3>1, <3>4 DEF SnapFits
    <3> QED
      BY <3>1, <3>2, <3>5, <3>6 DEF RunFits
  <2> QED
    BY <2>2 DEF SnapsFit
<1>0. /\ old \in Snap /\ old.walk \in Walk /\ start[s] \in Snap /\ old.from \in Nat
      /\ runs \in [Sessions -> [n : Nat, at : {"idle", "start", "check", "loop", "end"}]]
      /\ snap \in [Sessions -> Snap] /\ start \in [Sessions -> Snap]
      /\ clock \in Nat /\ clock' \in Nat /\ clock <= clock'
  BY DEF Types, Snap, TreeSteps
<1>a. RunFits(runs[s].at, old, start[s])
  BY DEF SnapsFit
<1>b. at = runs[s].at /\ st = start[s] => RunFits(at, old, st)'
  BY <1>0, RunStill
<1>1. CASE Idles(s)
  BY <1>1, RunStill DEF Idles
<1>2. CASE Commit
  <2>1. sn = [old EXCEPT !.torn = @ \/ old.git = "diff"] /\ at = runs[s].at /\ st = start[s]
    BY <1>2 DEF Commit
  <2>2. sn.index = old.index /\ sn.walk = old.walk /\ sn.from = old.from
    BY <1>0, <2>1 DEF Snap
  <2> QED
    BY <2>1, <2>2, RunStill
<1>3. CASE Crash
  <2>1. sn = NoSnap /\ at = "idle"
    BY <1>0, <1>3 DEF Crash
  <2> QED
    BY <2>1, NothingTypes DEF RunFits, SnapFits
<1>4. CASE GitStatus(s) \/ GitDiff(s) \/ GitFails(s)
  <2>1. at = runs[s].at /\ st = start[s]
    BY <1>4 DEF GitStatus, GitDiff, GitFails
  <2>2. sn.index = old.index /\ sn.walk = old.walk /\ sn.from = old.from
    <3>1. ASSUME GitStatus(s) PROVE sn.index = old.index /\ sn.walk = old.walk /\ sn.from = old.from
      <4>1. \E h, u, x : sn = [old EXCEPT !.git = "diff", !.head = h, !.untracked = u, !.texts = x]
        BY <1>0, <3>1 DEF GitStatus, Snaps
      <4> QED
        BY <1>0, <4>1 DEF Snap
    <3>2. ASSUME GitDiff(s) PROVE sn.index = old.index /\ sn.walk = old.walk /\ sn.from = old.from
      <4>1. \E d, x : sn = [old EXCEPT !.git = "done", !.diff = d, !.texts = x]
        BY <1>0, <3>2 DEF GitDiff, Snaps
      <4> QED
        BY <1>0, <4>1 DEF Snap
    <3>3. ASSUME GitFails(s) PROVE sn.index = old.index /\ sn.walk = old.walk /\ sn.from = old.from
      BY <1>0, <3>3 DEF GitFails, Snaps, Snap
    <3> QED
      BY <1>4, <3>1, <3>2, <3>3
  <2> QED
    BY <2>1, <2>2, RunStill
<1>5. CASE RunBegins(s)
  <2>1. at = "start" /\ sn = Beginning
    BY <1>0, <1>5 DEF RunBegins, Snaps
  <2> QED
    BY <1>0, <2>1, BeginningType DEF RunFits, SnapFits
<1>6. CASE RefreshBegins(s)
  <2>1. /\ sn = [old EXCEPT !.index = "walk", !.walk = Walking(ignore)]
        /\ at = runs[s].at /\ st = start[s] /\ old.index = "begin"
    BY <1>0, <1>6 DEF RefreshBegins, Snaps
  <2>2. sn.index = "walk" /\ sn.walk = Walking(ignore) /\ sn.from = old.from
    BY <1>0, <2>1 DEF Snap
  <2>3. WalkFits(sn.walk) /\ sn.walk.began = clock /\ sn.walk \in Walk
    <3>1. ignore \in SUBSET Paths /\ ignore \subseteq reruled
      BY DEF RulesFit, Types
    <3> QED
      BY <2>2, <3>1, WalkBegins, WalkingType
  <2>4. WalkFits(sn.walk)'
    BY <2>3, WalkStill
  <2>5. SnapFits(sn)'
    BY <1>0, <1>a, <2>1, <2>2, <2>3, <2>4 DEF SnapFits, RunFits
  <2> QED
    BY <1>b, <2>1, <2>2, <2>5 DEF RunFits
<1>7. CASE RefreshLooks(s)
  <2>1. PICK x \in old.walk.todo : sn = [old EXCEPT !.walk = Looked(@, x)]
    BY <1>0, <1>7 DEF RefreshLooks, Snaps
  <2>2. at = runs[s].at /\ st = start[s] /\ old.index = "walk"
    BY <1>7 DEF RefreshLooks
  <2>3. sn.index = "walk" /\ sn.walk = Looked(old.walk, x) /\ sn.from = old.from
    BY <1>0, <2>1, <2>2 DEF Snap
  <2>4. WalkFits(old.walk)
    BY <1>a, <2>2 DEF RunFits, SnapFits
  <2>5. WalkFits(sn.walk) /\ sn.walk.began = old.walk.began /\ sn.walk \in Walk
    BY <1>0, <2>3, <2>4, WalkLooks, LookedType
  <2>6. WalkFits(sn.walk)'
    BY <2>5, WalkStill
  <2>7. SnapFits(sn)'
    BY <1>0, <1>a, <2>2, <2>3, <2>5, <2>6 DEF SnapFits, RunFits
  <2> QED
    BY <1>b, <2>2, <2>3, <2>7 DEF RunFits
<1>8. CASE RefreshStores(s)
  <2>1. /\ sn = [old EXCEPT !.index = "done"] /\ at = runs[s].at /\ st = start[s]
        /\ old.index = "walk" /\ old.walk.todo = {}
    BY <1>0, <1>8 DEF RefreshStores, Snaps
  <2>2. sn.index = "done" /\ sn.walk = old.walk /\ sn.from = old.from
    BY <1>0, <2>1 DEF Snap
  <2>3. WalkFits(sn.walk)'
    BY <1>0, <1>a, <2>1, <2>2, WalkStill DEF RunFits, SnapFits
  <2>4. SnapFits(sn)'
    BY <1>0, <1>a, <2>1, <2>2, <2>3 DEF SnapFits, RunFits
  <2> QED
    BY <1>b, <2>1, <2>2, <2>4 DEF RunFits
<1>9. CASE StartTaken(s)
  <2>1. /\ at = "check" /\ sn = NoSnap /\ st = [old EXCEPT !.till = clock]
        /\ runs[s].at = "start" /\ old.index = "done"
    BY <1>0, <1>9 DEF StartTaken, Snaps, Taken
  <2>2. st.index = "done" /\ st.walk = old.walk /\ st.from = old.from /\ st.till = clock
    BY <1>0, <2>1 DEF Snap
  <2>3. SnapFits(old)
    BY <1>a DEF RunFits
  <2>4. SnapFits(st)'
    BY <1>0, <2>1, <2>2, <2>3, SnapStill
  <2>5. st.from <= clock /\ \A p \in Paths : st.walk.got[p].stamp <= clock
    BY <2>1, <2>2, <2>3 DEF SnapFits, WalkFits
  <2> QED
    BY <1>0, <2>1, <2>2, <2>4, <2>5, NothingTypes DEF RunFits, SnapFits
<1>10. CASE CheckReverted(s)
  <2>1. /\ at = "loop" /\ sn = old /\ st = start[s] /\ runs[s].at = "check"
    BY <1>0, <1>10 DEF CheckReverted
  <2>2. RunFits("check", sn, st)'
    BY <1>0, <2>1, RunStill
  <2> QED
    BY <2>1, <2>2 DEF RunFits
<1>11. CASE LoopEnds(s)
  <2>1. /\ at = "end" /\ sn = Beginning /\ st = start[s] /\ runs[s].at = "loop"
    BY <1>0, <1>11 DEF LoopEnds, Snaps
  <2>2. RunFits("loop", old, st)'
    BY <1>0, <2>1, RunStill
  <2>3. st.till <= clock
    BY <1>a, <2>1 DEF RunFits
  <2> QED
    BY <1>0, <2>1, <2>2, <2>3, BeginningType DEF RunFits, SnapFits
<1>12. CASE EndTaken(s)
  <2>1. at = "idle" /\ sn = NoSnap
    BY <1>0, <1>12 DEF EndTaken, Snaps
  <2> QED
    BY <2>1, NothingTypes DEF RunFits, SnapFits
<1> QED
  BY <1>1, <1>2, <1>3, <1>4, <1>5, <1>6, <1>7, <1>8, <1>9, <1>10, <1>11, <1>12, OwnSteps DEF Proceeds

-----------------------------------------------------------------------------
(* Outcomes. *)

\* The names of a walk that are paths are those of the files it has.
LEMMA NamesAreFiles ==
    ASSUME NEW w \in Walk, NEW p \in Paths
    PROVE  p \in NamesIn(w) <=> w.got[p] # Absent
  BY PathsAreNamed DEF NamesIn, Walk

LEMMA OutcomeStill ==
    ASSUME WorkInv, TreeSteps, Types', NEW o \in Outcome, OutcomeFits(o)
    PROVE  OutcomeFits(o)'
<1>1. /\ clock \in Nat /\ clock' \in Nat /\ clock <= clock' /\ reruled \subseteq reruled'
      /\ o.end \in Snap /\ o.start \in Snap
      /\ \A p \in Paths : /\ touched[p] \subseteq touched'[p] /\ touched'[p] \subseteq Nat
                          /\ \A t \in touched'[p] \ touched[p] : t > clock
  BY DEF WorkInv, Types, TreeSteps, Outcome
<1>2. o.end.from \in Nat /\ o.end.from <= clock
  BY <1>1 DEF OutcomeFits, Snap
<1>3. WalkTells(o.end.walk)'
  BY <1>1 DEF OutcomeFits, WalkTells
<1>4. ASSUME NEW p \in Paths \ reruled', NEW t \in touched'[p],
             o.start.till < t /\ t <= o.end.from
      PROVE  p \in Named(o) \/ p \notin NamesIn(o.start.walk) \cup NamesIn(o.end.walk)
  <2>1. t \in touched[p] /\ p \in Paths \ reruled
    BY <1>1, <1>2, <1>4
  <2> QED
    BY <1>4, <2>1 DEF OutcomeFits
<1>5. ASSUME NEW p \in (Named(o) \cap Paths) \ reruled'
      PROVE  \E t \in touched'[p] : o.start.from < t /\ t <= o.end.till
  BY <1>1, <1>5 DEF OutcomeFits
<1> QED
  BY <1>1, <1>2, <1>3, <1>4, <1>5 DEF OutcomeFits

\* The outcome of a run that has both its snapshots.
LEMMA OutcomeOfRun ==
    ASSUME WorkInv, NEW s \in Sessions, runs[s].at = "end", snap[s].index = "done"
    PROVE  OutcomeFits(Changed(start[s], [snap[s] EXCEPT !.till = clock]))
<1> USE DEF WorkInv
<1> DEFINE before == start[s]
           after == [snap[s] EXCEPT !.till = clock]
           o == Changed(before, after)
<1>0. /\ before \in Snap /\ snap[s] \in Snap /\ clock \in Nat
      /\ \A p \in Paths : touched[p] \subseteq Nat
  BY DEF Types
<1>1. /\ after \in Snap /\ after.walk = snap[s].walk /\ after.from = snap[s].from
      /\ after.till = clock
  BY <1>0 DEF Snap
<1>2. /\ WalkFits(before.walk) /\ before.from <= before.walk.began /\ before.walk.todo = {}
      /\ before.from <= before.till
      /\ \A p \in Paths : before.walk.got[p].stamp <= before.till
      /\ WalkFits(snap[s].walk) /\ snap[s].from <= snap[s].walk.began /\ snap[s].walk.todo = {}
      /\ snap[s].from <= clock /\ before.till <= snap[s].from
  BY DEF SnapsFit, RunFits, SnapFits
<1> HIDE DEF after, before
<1>3. /\ o \in Outcome /\ o.start = before /\ o.end = after
      /\ o.changed = {p \in Paths : before.walk.got[p] # Absent /\ after.walk.got[p] # Absent
                                    /\ before.walk.got[p].stamp # after.walk.got[p].stamp}
      /\ o.added = NamesIn(after.walk) \ NamesIn(before.walk)
      /\ o.deleted = NamesIn(before.walk) \ NamesIn(after.walk)
  BY <1>0, <1>1, ChangedType
<1> HIDE DEF o
<1>4. WalkFits(after.walk) /\ after.from <= after.walk.began /\ after.walk.todo = {}
      /\ after.from <= clock /\ before.till <= after.from
  BY <1>1, <1>2 DEF before
<1>5. /\ before.from \in Nat /\ before.till \in Nat /\ after.from \in Nat
      /\ before.walk \in Walk /\ after.walk \in Walk
      /\ before.walk.began \in Nat /\ after.walk.began \in Nat
      /\ \A p \in Paths : /\ before.walk.got[p].stamp \in Nat
                          /\ after.walk.got[p].stamp \in Nat
  BY <1>0, <1>1 DEF Snap, Walk, File, before
<1>6. \A p \in Paths : /\ p \in NamesIn(before.walk) <=> before.walk.got[p] # Absent
                       /\ p \in NamesIn(after.walk) <=> after.walk.got[p] # Absent
  BY <1>5, NamesAreFiles
<1>7. ASSUME NEW p \in Paths \ reruled, NEW t \in touched[p],
             before.till < t /\ t <= after.from
      PROVE  p \in Named(o) \/ p \notin NamesIn(before.walk) \cup NamesIn(after.walk)
  <2>1. CASE before.walk.got[p] # Absent /\ after.walk.got[p] # Absent
    <3>1. t \in Nat /\ t <= after.walk.began
      BY <1>0, <1>4, <1>5, <1>7
    <3>2. t <= after.walk.got[p].stamp
      BY <1>4, <2>1, <3>1 DEF WalkFits
    <3>3. before.walk.got[p].stamp <= before.till
      BY <1>2 DEF before
    <3> QED
      BY <1>3, <1>5, <1>7, <2>1, <3>1, <3>2, <3>3 DEF Named
  <2>2. CASE ~ (before.walk.got[p] # Absent /\ after.walk.got[p] # Absent)
    BY <1>3, <1>6, <2>2 DEF Named
  <2> QED
    BY <2>1, <2>2
<1>8. ASSUME NEW p \in (Named(o) \cap Paths) \ reruled
      PROVE  \E t \in touched[p] : before.from < t /\ t <= clock
  <2>1. before.walk.got[p] # after.walk.got[p]
    BY <1>3, <1>6, <1>8 DEF Named
  <2>2. /\ files[p] = before.walk.got[p] \/ \E t \in touched[p] : t > before.walk.began
        /\ files[p] = after.walk.got[p] \/ \E t \in touched[p] : t > after.walk.began
    BY <1>2, <1>4, <1>8 DEF WalkFits, before
  <2>3. PICK t \in touched[p] : t > before.walk.began \/ t > after.walk.began
    BY <2>1, <2>2
  <2>4. t \in Nat /\ t <= clock
    BY <1>0 DEF FilesFit
  <2>5. before.from <= before.walk.began /\ before.from <= before.till
    BY <1>2 DEF before
  <2> QED
    BY <1>4, <1>5, <2>3, <2>4, <2>5
<1>9. /\ o.added \subseteq NamesIn(after.walk)
      /\ o.deleted \cap NamesIn(after.walk) = {}
      /\ WalkTells(after.walk)
  BY <1>3, <1>4 DEF WalkFits
<1>10. OutcomeFits(o)
  BY <1>1, <1>3, <1>4, <1>7, <1>8, <1>9 DEF OutcomeFits
<1> QED
  BY <1>10 DEF o, before, after

LEMMA OutcomesNext ==
    ASSUME WorkInv, [Next]_vars, TreeSteps, Types'
    PROVE  OutcomesFit'
<1> USE DEF WorkInv
<1> SUFFICES ASSUME NEW s \in Sessions, NEW o \in Outcome, o = outcomes'[s], o.known
             PROVE  OutcomeFits(o)'
  <2>1. \A s \in Sessions : outcomes'[s] \in Outcome
    BY DEF Types
  <2> QED
    BY <2>1 DEF OutcomesFit, OutcomeFits, WalkTells
<1>0. outcomes \in [Sessions -> Outcome]
  BY DEF Types
<1>1. CASE o = outcomes[s]
  BY <1>1, OutcomeStill DEF OutcomesFit
<1>2. CASE EndTaken(s)
  <2>1. o = Changed(start[s], [snap[s] EXCEPT !.till = clock])
    BY <1>0, <1>2 DEF EndTaken
  <2>2. OutcomeFits(o)
    BY <1>2, <2>1, OutcomeOfRun DEF EndTaken, Taken
  <2> QED
    BY <2>2, OutcomeStill
<1>3. CASE Crash
  <2>1. o = outcomes[s] \/ o = NoOutcome
    BY <1>3 DEF Crash
  <2> QED
    BY <1>1, <2>1, NothingTypes
<1>4. o = outcomes[s] \/ EndTaken(s) \/ Crash
  BY OwnSteps DEF Idles, Commit, RunBegins, GitFails, Proceeds, RefreshBegins, RefreshLooks,
     RefreshStores, GitStatus, GitDiff, StartTaken, CheckReverted, LoopEnds
<1> QED
  BY <1>1, <1>2, <1>3, <1>4

\* What a check of the changes of the run before finds.
LEMMA FoundIsUndone ==
    ASSUME WorkInv, NEW s \in Sessions, runs[s].at = "check", outcomes[s].known,
           NEW r \in Reverted(s)
    PROVE  r.was # r.now \/ r.torn \/ r.path \in reruled
<1> USE DEF WorkInv
<1> DEFINE o == outcomes[s]
           now == start[s]
           There(x) == IF x \notin Paths THEN x
                       ELSE IF Exists(x) THEN files[x].text ELSE now.walk.got[x].text
           Was(x) == IF x \in Paths THEN o.end.walk.held[x] ELSE x
<1>0. /\ o \in Outcome /\ now \in Snap /\ o.end \in Snap
      /\ o.end.walk \in Walk /\ now.walk \in Walk
      /\ o.changed \subseteq Paths /\ o.added \subseteq Paths \cup CallIds
      /\ o.deleted \subseteq Paths \cup CallIds
  BY DEF Types, Outcome, Snap, Names
<1>1. /\ OutcomeFits(o) /\ WalkTells(o.end.walk) /\ o.end.walk.todo = {}
      /\ o.added \subseteq NamesIn(o.end.walk) /\ o.deleted \cap NamesIn(o.end.walk) = {}
      /\ WalkTells(now.walk) /\ now.walk.todo = {}
  BY DEF OutcomesFit, OutcomeFits, SnapsFit, RunFits, SnapFits, WalkFits
<1>2. OneHead(o.end, now)
  BY DEF HeadsFit, HeadFits
<1>3. \A x \in CallIds : x # NoText /\ x \notin Paths
  BY TextFacts, PathsAreNamed
<1>4. CASE \E x \in o.added :
              r = [path |-> x, was |-> Was(x), now |-> NoText, torn |-> FALSE]
  <2> PICK x \in o.added : r = [path |-> x, was |-> Was(x), now |-> NoText, torn |-> FALSE]
    BY <1>4
  <2>1. x \in NamesIn(o.end.walk) /\ x \in Paths \cup CallIds
    BY <1>0, <1>1
  <2>2. Was(x) # NoText
    <3>1. CASE x \in Paths
      <4>1. o.end.walk.got[x] # Absent
        BY <1>0, <2>1, <3>1, NamesAreFiles
      <4> QED
        BY <1>1, <3>1, <4>1 DEF WalkTells
    <3> QED
      BY <1>3, <2>1, <3>1
  <2> QED
    BY <2>2
<1>5. CASE \E x \in o.deleted :
              /\ InTree(x) \/ x \in NamesIn(now.walk)
              /\ r = [path |-> x, was |-> IF x \in Paths THEN Was(x) ELSE NoText,
                      now |-> There(x), torn |-> FALSE]
  <2> PICK x \in o.deleted :
              /\ InTree(x) \/ x \in NamesIn(now.walk)
              /\ r = [path |-> x, was |-> IF x \in Paths THEN Was(x) ELSE NoText,
                      now |-> There(x), torn |-> FALSE]
    BY <1>5
  <2>1. x \notin NamesIn(o.end.walk) /\ x \in Paths \cup CallIds
    BY <1>0, <1>1
  <2>2. There(x) # NoText
    <3>1. CASE x \in Paths /\ Exists(x)
      BY <3>1 DEF FilesFit, Exists
    <3>2. CASE x \in Paths /\ ~ Exists(x)
      <4>1. now.walk.got[x] # Absent
        BY <1>0, <3>2, NamesAreFiles DEF InTree
      <4> QED
        BY <1>1, <3>2, <4>1 DEF WalkTells
    <3> QED
      BY <1>3, <2>1, <3>1, <3>2
  <2>3. x \in Paths \ reruled => Was(x) = NoText
    <3> SUFFICES ASSUME x \in Paths \ reruled PROVE o.end.walk.held[x] = NoText
      OBVIOUS
    <3>1. o.end.walk.got[x] = Absent
      BY <1>0, <2>1, NamesAreFiles
    <3> QED
      BY <1>1, <3>1, AbsentType DEF WalkTells
  <2> HIDE DEF There, Was
  <2> QED
    BY <2>2, <2>3
<1>6. CASE \E x \in o.changed \cap UndoneByGit(o.end, now) :
              r = [path |-> x, was |-> o.end.texts[x], now |-> now.texts[x], torn |-> now.torn]
  <2> PICK x \in o.changed \cap UndoneByGit(o.end, now) :
              r = [path |-> x, was |-> o.end.texts[x], now |-> now.texts[x], torn |-> now.torn]
    BY <1>6
  <2>1. now.torn \/ o.end.texts[x] # now.texts[x]
    BY <1>0, <1>2 DEF UndoneByGit, OneHead
  <2> QED
    BY <2>1
<1>7. \/ \E x \in o.added : r = [path |-> x, was |-> Was(x), now |-> NoText, torn |-> FALSE]
      \/ \E x \in o.deleted :
              /\ InTree(x) \/ x \in NamesIn(now.walk)
              /\ r = [path |-> x, was |-> IF x \in Paths THEN Was(x) ELSE NoText,
                      now |-> There(x), torn |-> FALSE]
      \/ \E x \in o.changed \cap UndoneByGit(o.end, now) :
              r = [path |-> x, was |-> o.end.texts[x], now |-> now.texts[x], torn |-> now.torn]
  BY DEF Reverted
<1> QED
  BY <1>4, <1>5, <1>6, <1>7

LEMMA RevertsNext ==
    ASSUME WorkInv, [Next]_vars, TreeSteps
    PROVE  RevertedIsUndone'
<1> USE DEF WorkInv
<1> SUFFICES ASSUME NEW s \in Sessions, NEW r \in reverts'[s]
             PROVE  r.was # r.now \/ r.torn \/ r.path \in reruled'
  BY DEF RevertedIsUndone
<1>0. reverts \in [Sessions -> SUBSET Revert] /\ reruled \subseteq reruled'
  BY DEF Types, TreeSteps
<1>1. CASE reverts'[s] = reverts[s]
  BY <1>0, <1>1 DEF RevertedIsUndone
<1>2. CASE CheckReverted(s)
  <2>1. outcomes[s].known /\ r \in Reverted(s) /\ runs[s].at = "check"
    BY <1>0, <1>2 DEF CheckReverted
  <2> QED
    BY <1>0, <2>1, FoundIsUndone
<1>3. reverts'[s] = reverts[s] \/ CheckReverted(s)
  BY OwnSteps DEF Idles, Commit, Crash, RunBegins, GitFails, Proceeds, RefreshBegins, RefreshLooks,
     RefreshStores, GitStatus, GitDiff, StartTaken, LoopEnds, EndTaken
<1> QED
  BY <1>1, <1>2, <1>3

-----------------------------------------------------------------------------
(* HEAD, and the git halves of snapshots. *)

\* Two looks at one HEAD differ where one finds a path changed and one does not.
LEMMA SeesTells ==
    ASSUME NEW a, NEW b, NEW t, Sees(a, t), Sees(b, t)
    PROVE  OneHead(a, b)
  BY DEF OneHead, Sees, NewFiles, ChangedFiles, Dirty

\* Two snapshots with the same git half.
GitAlike(a, b) ==
    /\ a.git = b.git /\ a.head = b.head /\ a.untracked = b.untracked /\ a.diff = b.diff
    /\ a.texts = b.texts /\ a.torn = b.torn

LEMMA HeadStill ==
    ASSUME NEW at, NEW o, NEW a, NEW b, NEW x, NEW y, HeadFits(at, o, a, x), GitAlike(a, b),
           at = "check" => GitAlike(x, y)
    PROVE  HeadFits(at, o, b, y)
<1>1. GitFits(a) => GitFits(b)
  BY DEF GitAlike, GitFits, Sees, NewFiles, ChangedFiles
<1>2. OneHead(o.end, a) => OneHead(o.end, b)
  BY DEF GitAlike, OneHead, Dirty
<1>3. at = "check" /\ OneHead(o.end, x) => OneHead(o.end, y)
  BY DEF GitAlike, OneHead, Dirty
<1> QED
  BY <1>1, <1>2, <1>3 DEF HeadFits, GitAlike, NewFiles

\* A snapshot without a git half says nothing of HEAD.
LEMMA NoHead ==
    ASSUME NEW at, NEW o, NEW sn, NEW st, sn.git \in {"none", "status", "failed"},
           sn.git = "status" => ~ sn.torn, at # "check", o.known => GitFits(o.end)
    PROVE  HeadFits(at, o, sn, st)
  BY DEF HeadFits, GitFits, OneHead

\* HEAD moves on, and tears the snapshots between their two looks.
LEMMA HeadMoves ==
    ASSUME WorkInv, NEW s \in Sessions, Commit,
           NEW at, NEW o \in Outcome, NEW sn \in Snap, NEW st \in Snap, NEW old \in Snap,
           at = runs[s].at, o = outcomes[s], st = start[s], old = snap[s],
           sn = [old EXCEPT !.torn = @ \/ old.git = "diff"]
    PROVE  HeadFits(at, o, sn, st)'
<1>1. HeadFits(at, o, old, st)
  BY DEF WorkInv, HeadsFit
<1> DEFINE b == old.torn \/ old.git = "diff"
<1>2. b \in BOOLEAN /\ sn = [old EXCEPT !.torn = b]
  OBVIOUS
<1> HIDE DEF b
<1>3. /\ sn.git = old.git /\ sn.head = old.head /\ sn.untracked = old.untracked
      /\ sn.diff = old.diff /\ sn.texts = old.texts /\ sn.torn = b
  BY <1>2 DEF Snap
<1>4. head.id \in Nat /\ head'.id = head.id + 1 /\ old.head \in Nat /\ o.end.head \in Nat
  BY DEF WorkInv, Types, Commit, Snap, Outcome
<1>5. /\ sn.git = "status" => ~ sn.torn
      /\ sn.git = "diff" => sn.torn /\ sn.head < head'.id
  <2>1. sn.git = "status" => ~ sn.torn
    BY <1>1, <1>3 DEF HeadFits, b
  <2>2. sn.git = "diff" => sn.torn
    BY <1>3 DEF b
  <2>3. sn.git = "diff" => old.head <= head.id
    BY <1>1, <1>3, <1>4 DEF HeadFits
  <2> QED
    BY <1>3, <1>4, <2>1, <2>2, <2>3
<1>6. GitFits(sn)'
  BY <1>1, <1>3, <1>4 DEF HeadFits, GitFits
<1>7. o.known => GitFits(o.end)'
  BY <1>1, <1>4 DEF HeadFits, GitFits
<1>8. OneHead(o.end, old) => OneHead(o.end, sn)
  BY <1>3 DEF OneHead, Dirty, b
<1> QED
  BY <1>1, <1>5, <1>6, <1>7, <1>8 DEF HeadFits

\* The two looks of git at the tree.
LEMMA GitLooks ==
    ASSUME WorkInv, NEW s \in Sessions, GitStatus(s) \/ GitDiff(s),
           NEW sn \in Snap, sn = snap'[s]
    PROVE  HeadFits(runs[s].at, outcomes[s], sn, start[s])
<1> USE DEF WorkInv
<1> DEFINE old == snap[s]
           o == outcomes[s]
<1>0. /\ old \in Snap /\ snap \in [Sessions -> Snap] /\ head.id \in Nat
      /\ HeadFits(runs[s].at, o, old, start[s])
  BY DEF Types, HeadsFit
<1>1. CASE GitStatus(s)
  <2> DEFINE u == {p \in Paths : Exists(p) /\ ~ Tracked(p)} \cup DOMAIN temps
             x == [p \in Paths |-> files[p].text]
  <2>1. sn = [old EXCEPT !.git = "diff", !.head = head.id, !.untracked = u, !.texts = x]
        /\ old.git = "status"
    BY <1>0, <1>1 DEF GitStatus, Snaps
  <2>2. u \cap Paths = {p \in Paths : x[p] # NoText /\ head.tree[p] = NoText}
    <3>1. DOMAIN temps \cap Paths = {}
      BY PathsAreNamed DEF Types
    <3>2. \A p \in Paths : Exists(p) <=> x[p] # NoText
      BY AbsentType DEF FilesFit, Exists
    <3> QED
      BY <3>1, <3>2 DEF Tracked
  <2> HIDE DEF u, x
  <2>3. sn.git = "diff" /\ sn.head = head.id /\ sn.untracked = u /\ sn.texts = x /\ sn.torn = old.torn
    BY <1>0, <2>1 DEF Snap
  <2> QED
    BY <1>0, <2>1, <2>2, <2>3 DEF HeadFits, GitFits, OneHead, NewFiles
<1>2. CASE GitDiff(s)
  <2> DEFINE d == {p \in Paths : Tracked(p) /\ files[p].text # head.tree[p]}
             x == [p \in Paths |-> IF Tracked(p) THEN files[p].text ELSE old.texts[p]]
  <2>1. sn = [old EXCEPT !.git = "done", !.diff = d, !.texts = x] /\ old.git = "diff"
    BY <1>0, <1>2 DEF GitDiff, Snaps, Snap
  <2>2. \A p \in Paths : x[p] = IF Tracked(p) THEN files[p].text ELSE old.texts[p]
    OBVIOUS
  <2>3. \A p \in Paths : p \in d <=> Tracked(p) /\ files[p].text # head.tree[p]
    OBVIOUS
  <2> HIDE DEF d, x
  <2>4. /\ sn.git = "done" /\ sn.head = old.head /\ sn.untracked = old.untracked
        /\ sn.diff = d /\ sn.texts = x /\ sn.torn = old.torn /\ d \subseteq Paths
    BY <1>0, <2>1 DEF Snap, d
  <2>5. ~ sn.torn => sn.head = head.id /\ Sees(sn, head.tree)
    <3> SUFFICES ASSUME ~ sn.torn PROVE sn.head = head.id /\ Sees(sn, head.tree)
      OBVIOUS
    <3>1. old.head = head.id /\ old.untracked \cap Paths = NewFiles(old, head.tree)
      BY <1>0, <2>1, <2>4 DEF HeadFits
    <3>2. NewFiles(old, head.tree) = NewFiles(sn, head.tree)
      BY <2>2, <2>4 DEF NewFiles, Tracked
    <3>3. d = ChangedFiles(sn, head.tree)
      BY <2>2, <2>3, <2>4 DEF ChangedFiles, Tracked
    <3> QED
      BY <2>4, <3>1, <3>2, <3>3 DEF Sees
  <2>6. sn.torn => sn.head < head.id
    BY <1>0, <2>1, <2>4 DEF HeadFits
  <2>7. GitFits(sn)
    <3>1. sn.head \in Nat
      BY DEF Snap
    <3> QED
      BY <1>0, <2>5, <2>6, <3>1 DEF GitFits
  <2>8. o.known => OneHead(o.end, sn)
    <3> SUFFICES ASSUME o.known, o.end.git = "done", ~ sn.torn, o.end.head = sn.head
                 PROVE  OneHead(o.end, sn)
      BY DEF OneHead
    <3>1. Sees(o.end, head.tree)
      BY <1>0, <2>5 DEF HeadFits, GitFits
    <3> QED
      BY <2>5, <3>1, SeesTells
  <2> QED
    BY <1>0, <2>4, <2>7, <2>8 DEF HeadFits
<1> QED
  BY <1>1, <1>2

LEMMA HeadsNext ==
    ASSUME WorkInv, [Next]_vars, Types'
    PROVE  HeadsFit'
<1> USE DEF WorkInv
<1> SUFFICES ASSUME NEW s \in Sessions, NEW at, NEW o \in Outcome, NEW sn \in Snap, NEW st \in Snap,
                    at = runs'[s].at, o = outcomes'[s], sn = snap'[s], st = start'[s],
                    NEW old \in Snap, old = snap[s]
             PROVE  HeadFits(at, o, sn, st)'
  <2>1. ASSUME NEW s \in Sessions
        PROVE  outcomes'[s] \in Outcome /\ snap'[s] \in Snap /\ start'[s] \in Snap /\ snap[s] \in Snap
    BY DEF Types
  <2> QED
    BY <2>1 DEF HeadsFit, HeadFits, GitFits, OneHead, Sees, NewFiles, ChangedFiles, Dirty
<1>0. /\ runs \in [Sessions -> [n : Nat, at : {"idle", "start", "check", "loop", "end"}]]
      /\ snap \in [Sessions -> Snap] /\ start \in [Sessions -> Snap]
      /\ outcomes \in [Sessions -> Outcome]
  BY DEF Types
<1>1. CASE Commit
  <2>1. /\ sn = [old EXCEPT !.torn = @ \/ old.git = "diff"]
        /\ at = runs[s].at /\ st = start[s] /\ o = outcomes[s]
    BY <1>1 DEF Commit
  <2> QED
    BY <1>1, <2>1, HeadMoves
<1> SUFFICES ASSUME ~ Commit PROVE HeadFits(at, o, sn, st)
  <2>1. ~ Commit => UNCHANGED head
    BY DEF Next, Save, Remove, Restore, Rerule, Crash, Expire, Proceeds, RunBegins, Ask, CutOff,
       GitFails, RefreshBegins, RefreshLooks, RefreshStores, GitStatus, GitDiff, StartTaken,
       CheckReverted, LoopEnds, EndTaken, Works, WriteFails, ReadFile, ReadRecords, ReadsOld,
       CreatesTemp, FillsTemp, Renames, WriteRecords, DropsIndex, IndexThere,
       BuildBegins, BuildLooks, BuildEnds, Rest, vars, tree
  <2> QED
    BY <1>1, <2>1 DEF HeadFits, GitFits
<1>a. HeadFits(runs[s].at, outcomes[s], old, start[s])
  BY DEF HeadsFit
<1>b. outcomes[s].known => GitFits(outcomes[s].end)
  BY <1>a DEF HeadFits
<1>2. CASE Idles(s)
  BY <1>2, <1>a DEF Idles
<1>3. CASE Crash
  <2>1. sn = NoSnap /\ at = "idle" /\ o \in {outcomes[s], NoOutcome}
    BY <1>0, <1>3 DEF Crash
  <2> QED
    BY <1>b, <2>1, NoHead, NothingTypes
<1>4. CASE GitStatus(s) \/ GitDiff(s)
  <2>1. at = runs[s].at /\ st = start[s] /\ o = outcomes[s]
    BY <1>4 DEF GitStatus, GitDiff
  <2> QED
    BY <1>4, <2>1, GitLooks
<1>5. CASE GitFails(s)
  <2>1. /\ sn = [old EXCEPT !.git = "failed"]
        /\ at = runs[s].at /\ st = start[s] /\ o = outcomes[s]
    BY <1>0, <1>5 DEF GitFails, Snaps
  <2>2. sn.git = "failed"
    BY <2>1 DEF Snap
  <2> QED
    BY <1>a, <2>1, <2>2 DEF HeadFits, GitFits, OneHead
<1>6. CASE RunBegins(s) \/ LoopEnds(s)
  <2>1. sn = Beginning /\ at \in {"start", "end"} /\ o = outcomes[s]
    BY <1>0, <1>6 DEF RunBegins, LoopEnds, Snaps
  <2>2. sn.git \in {"status", "failed"} /\ ~ sn.torn
    BY <2>1, NothingTypes DEF Beginning, NoSnap
  <2> QED
    BY <1>b, <2>1, <2>2, NoHead
<1>7. CASE RefreshBegins(s) \/ RefreshLooks(s) \/ RefreshStores(s)
  <2>1. at = runs[s].at /\ st = start[s] /\ o = outcomes[s]
    BY <1>7 DEF RefreshBegins, RefreshLooks, RefreshStores
  <2>2. GitAlike(old, sn)
    <3>1. ASSUME RefreshBegins(s) PROVE GitAlike(old, sn)
      BY <1>0, <3>1 DEF RefreshBegins, Snaps, Snap, GitAlike
    <3>2. ASSUME RefreshLooks(s) PROVE GitAlike(old, sn)
      <4> PICK x : sn = [old EXCEPT !.walk = Looked(@, x)]
        BY <1>0, <3>2 DEF RefreshLooks, Snaps
      <4> QED
        BY DEF Snap, GitAlike
    <3>3. ASSUME RefreshStores(s) PROVE GitAlike(old, sn)
      BY <1>0, <3>3 DEF RefreshStores, Snaps, Snap, GitAlike
    <3> QED
      BY <1>7, <3>1, <3>2, <3>3
  <2> QED
    BY <1>a, <2>1, <2>2, HeadStill DEF GitAlike
<1>8. CASE StartTaken(s)
  <2>1. sn = NoSnap /\ at = "check" /\ o = outcomes[s] /\ st = [old EXCEPT !.till = clock]
    BY <1>0, <1>8 DEF StartTaken, Snaps
  <2>2. GitAlike(old, st)
    BY <2>1 DEF Snap, GitAlike
  <2>3. o.known => OneHead(o.end, st)
    BY <1>a, <2>1, <2>2 DEF HeadFits, OneHead, GitAlike, Dirty
  <2> QED
    BY <1>b, <2>1, <2>3, NothingTypes DEF HeadFits, GitFits, OneHead
<1>9. CASE CheckReverted(s)
  <2>1. sn = old /\ at = "loop" /\ o = outcomes[s]
    BY <1>0, <1>9 DEF CheckReverted
  <2> QED
    BY <1>a, <2>1 DEF HeadFits
<1>10. CASE EndTaken(s)
  <2>1. sn = NoSnap /\ at = "idle" /\ o = Changed(start[s], [old EXCEPT !.till = clock])
    BY <1>0, <1>10 DEF EndTaken, Snaps
  <2>2. GitAlike(old, [old EXCEPT !.till = clock]) /\ [old EXCEPT !.till = clock] \in Snap
    BY DEF Snap, GitAlike, Types
  <2>3. o.end = [old EXCEPT !.till = clock]
    BY <1>0, <2>1, <2>2, ChangedType
  <2>4. GitFits(o.end)
    BY <1>a, <2>2, <2>3 DEF HeadFits, GitFits, GitAlike, Sees, NewFiles, ChangedFiles
  <2> QED
    BY <2>1, <2>4, NoHead, NothingTypes
<1> QED
  BY <1>2, <1>3, <1>4, <1>5, <1>6, <1>7, <1>8, <1>9, <1>10, OwnSteps DEF Proceeds

-----------------------------------------------------------------------------
(* The invariant holds. *)

LEMMA InitTypes == Init => Types
<1> SUFFICES ASSUME Init PROVE Types
  OBVIOUS
<1> USE DEF Init
<1>1. scene \in Scene
  BY ScenesAreBounded
<1>2. \A p \in Paths : files[p] = Absent \/ files[p] = [text |-> <<"base", 0>>, stamp |-> 1,
                                                        whole |-> TRUE]
  OBVIOUS
<1>3. files \in [Paths -> File]
  BY AbsentType, TextFacts DEF File
<1>4. head \in [id : Nat, tree : [Paths -> Text]]
  BY <1>3 DEF File
<1>5. temps \in [DOMAIN temps -> Temp] /\ DOMAIN temps \subseteq CallIds
  OBVIOUS
<1>6. slot \in Index /\ holder \in CallIds \cup {NoCall}
  BY NothingTypes
<1>7. runs \in [Sessions -> [n : Nat, at : {"idle", "start", "check", "loop", "end"}]]
  OBVIOUS
<1>8. snap \in [Sessions -> Snap] /\ start \in [Sessions -> Snap]
      /\ outcomes \in [Sessions -> Outcome]
  BY NothingTypes
<1>9. calls \in [CallIds -> CallState]
  BY NoCallYetType
<1>10. seen \in [Sessions -> [Paths -> Text]] /\ reverts \in [Sessions -> SUBSET Revert]
  BY TextFacts
<1> QED
  BY <1>1, <1>3, <1>4, <1>5, <1>6, <1>7, <1>8, <1>9, <1>10 DEF Types

LEMMA InitWork == Init => WorkInv
<1> SUFFICES ASSUME Init PROVE WorkInv
  OBVIOUS
<1> USE DEF Init
<1>1. Types
  BY InitTypes
<1>2. FilesFit
  BY AbsentType, TextFacts DEF FilesFit, Exists
<1>3. RulesFit
  BY DEF RulesFit
<1>4. CallsFit /\ BuildsFit
  BY NoCallYetType, TextFacts DEF CallsFit, CallFits, BuildsFit, Call
<1>5. IndexKnowsCreated
  BY DEF IndexKnowsCreated
<1>6. SnapsFit
  BY NothingTypes DEF SnapsFit, RunFits, SnapFits
<1>7. OutcomesFit
  BY NothingTypes DEF OutcomesFit
<1>8. HeadsFit
  BY NothingTypes DEF HeadsFit, HeadFits, GitFits
<1>9. SeenFits
  BY DEF SeenFits
<1>10. NotesFit
  BY NoCallYetType DEF NotesFit, Unnoted, Call
<1>11. RevertedIsUndone
  BY DEF RevertedIsUndone
<1> QED
  BY <1>1, <1>2, <1>3, <1>4, <1>5, <1>6, <1>7, <1>8, <1>9, <1>10, <1>11 DEF WorkInv

LEMMA NextWork == WorkInv /\ [Next]_vars => WorkInv'
<1> SUFFICES ASSUME WorkInv, [Next]_vars PROVE WorkInv'
  OBVIOUS
<1>1. Types'
  BY TypesNext DEF WorkInv
<1>2. TreeSteps /\ FilesFit'
  BY TreeNext
<1>3. RulesFit' /\ CallsFit'
  BY RulesNext, CallsNext
<1>4. BuildsFit' /\ IndexKnowsCreated'
  BY <1>2, BuildsNext, IndexNext
<1>5. SnapsFit' /\ OutcomesFit' /\ RevertedIsUndone'
  BY <1>1, <1>2, SnapsNext, OutcomesNext, RevertsNext
<1>6. HeadsFit' /\ SeenFits' /\ NotesFit'
  BY <1>1, HeadsNext, SeenNext, NotesNext
<1> QED
  BY <1>1, <1>2, <1>3, <1>4, <1>5, <1>6 DEF WorkInv

LEMMA WorkAlways == Spec => []WorkInv
  BY InitWork, NextWork, PTL DEF Spec

-----------------------------------------------------------------------------
(* The theorems. *)

\* write_atomic, invalidate_index and FileIndex::build: at every moment each
\* path has the whole of some content, temporary files are of a write that
\* goes on or of a daemon that died, and a file that a write created is in the
\* index that is handed out, but for one a snapshot had begun to build before.
THEOREM TreeAndIndexKept == Spec => []FilesKept
<1>1. WorkInv => FilesKept
  <2> SUFFICES ASSUME WorkInv PROVE FilesKept
    OBVIOUS
  <2> USE DEF WorkInv
  <2>1. \A p \in Paths : files[p].stamp \in 0 .. clock /\ files[p].whole \in BOOLEAN
    BY FilesType DEF FilesFit, File, Types
  <2>2. slot.by \in {"none", "index", "refresh"}
    BY DEF Types, Index
  <2>3. holder = NoCall \/ (holder \in CallIds /\ Call(holder).at = "walk")
    BY DEF Types, CallsFit, CallFits
  <2>4. ASSUME NEW s \in Sessions
        PROVE  /\ runs[s].at \in {"idle", "start", "check", "loop", "end"}
               /\ snap[s].index \in {"none", "begin", "walk", "done"}
               /\ snap[s].git \in {"none", "status", "diff", "done", "failed"}
               /\ runs[s].at \in {"start", "end"} <=> snap[s].index # "none"
    BY DEF Types, Snap, SnapsFit, RunFits
  <2>5. ASSUME NEW c \in CallIds
        PROVE  /\ Call(c).tool \in {"none", "read", "write", "edit", "glob"}
               /\ Call(c).note \in {"none", "unread", "changed"}
    BY CallType DEF CallState
  <2>6. TypeOK
    BY <2>1, <2>2, <2>3, <2>4, <2>5 DEF TypeOK, Types
  <2>7. FilesWhole /\ TempsHaveOwners
    BY DEF FilesWhole, FilesFit, TempsHaveOwners, CallsFit, CallFits, Types
  <2> QED
    BY <2>6, <2>7 DEF FilesKept
<1> QED
  BY <1>1, WorkAlways, PTL

\* finish_snapshot and detect: the outcome of a run names every path that was
\* changed between its two snapshots and none that was let alone since it
\* began, and what is recorded as reverted is not as the run before left it.
THEOREM OutcomesTellChanges == Spec => []OutcomesTell
<1>1. WorkInv => OutcomesTell
  BY DEF WorkInv, OutcomesFit, OutcomeFits, OutcomesTell, ListsEveryChange, ListsOnlyChanges
<1> QED
  BY <1>1, WorkAlways, PTL

\* overwrite_note: a write that replaced content and was told nothing of it
\* replaced what the run had seen or written, whatever else goes on, but for a
\* change between its look at the old content and its rename.
THEOREM OverwritesAreNoted == Spec => []UnseenIsNoted
<1>1. WorkInv => UnseenIsNoted
  BY DEF WorkInv, NotesFit, Unnoted, Knows, UnseenIsNoted
<1> QED
  BY <1>1, WorkAlways, PTL
=============================================================================
