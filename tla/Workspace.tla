----------------------------- MODULE Workspace -----------------------------
(***************************************************************************)
(* A workspace shared by the runs of several sessions, by its user, who    *)
(* edits, deletes, restores and commits (and stands for the shell commands *)
(* of the runs and for every other program), and by a daemon that may      *)
(* crash.  Scenes bound what each of them does.                            *)
(***************************************************************************)
EXTENDS RunSnapshots

Init ==
    /\ scene \in Scenes
    /\ files = [p \in Paths |-> IF p \in scene.present
                                THEN [text |-> <<"base", 0>>, stamp |-> 1, whole |-> TRUE]
                                ELSE Absent]
    /\ head = [id |-> 0, tree |-> [p \in Paths |-> files[p].text]]
    /\ temps = << >> /\ ignore = {} /\ rules = {} /\ clock = 1
    /\ slot = NoIndex /\ holder = NoCall
    /\ runs = [s \in Sessions |-> [n |-> 0, at |-> "idle"]]
    /\ snap = [s \in Sessions |-> NoSnap] /\ start = snap
    /\ seen = [s \in Sessions |-> [p \in Paths |-> NoText]]
    /\ calls = [c \in CallIds |-> NoCallYet]
    /\ outcomes = [s \in Sessions |-> NoOutcome] /\ reverts = [s \in Sessions |-> {}]
    /\ touched = [p \in Paths |-> {}] /\ known = [p \in Paths |-> 0] /\ reruled = {}

-----------------------------------------------------------------------------
(* The user and other programs. *)

Daemon == <<rules, slot, holder, tools, trace>>

Save(p) ==
    /\ Spend("saves")
    /\ Put(p, <<"user", clock + 1>>, TRUE)
    /\ UNCHANGED <<temps, head, ignore, reruled, known, Daemon>>

Remove(p) ==
    /\ Spend("removes")
    /\ Exists(p)
    /\ Put(p, NoText, TRUE)
    /\ known' = [known EXCEPT ![p] = 0]
    /\ UNCHANGED <<temps, head, ignore, reruled, Daemon>>

\* git checkout -- p
Restore(p) ==
    /\ Spend("restores")
    /\ Tracked(p) /\ files[p].text # head.tree[p]
    /\ Put(p, head.tree[p], TRUE)
    /\ UNCHANGED <<temps, head, ignore, reruled, known, Daemon>>

\* git add --all and git commit; a snapshot between its two looks is torn.
Commit ==
    /\ Spend("commits")
    /\ head' = [id |-> head.id + 1, tree |-> [p \in Paths |-> files[p].text]]
    /\ snap' = [s \in Sessions |-> [snap[s] EXCEPT !.torn = @ \/ snap[s].git = "diff"]]
    /\ UNCHANGED <<files, temps, ignore, clock, touched, reruled, index, tools,
                   runs, start, outcomes, reverts>>

\* .harness/ignore is edited.
Rerule(p) ==
    /\ Spend("rerules")
    /\ ignore' = (ignore \cup {p}) \ (ignore \cap {p})
    /\ reruled' = reruled \cup {p}
    /\ UNCHANGED <<files, temps, head, clock, touched, known, Daemon>>

\* The daemon dies and is started again: what is on disk and in the store is
\* left, threads stop where they are.
Crash ==
    /\ Spend("crashes")
    /\ slot' = NoIndex /\ holder' = NoCall /\ rules' = ignore
    /\ known' = [p \in Paths |-> 0]
    /\ runs' = [s \in Sessions |-> [runs[s] EXCEPT !.at = "idle"]]
    /\ snap' = [s \in Sessions |-> NoSnap] /\ start' = snap'
    /\ seen' = [s \in Sessions |-> [p \in Paths |-> NoText]]
    /\ calls' = [c \in CallIds |->
                    IF Call(c).at \in {"free", "done"} THEN Call(c)
                    ELSE [Call(c) EXCEPT !.at = "lost", !.cut = TRUE, !.walk = NoWalk]]
    /\ outcomes' = [s \in Sessions |->
                       IF runs[s].at = "idle" THEN outcomes[s] ELSE NoOutcome]
    /\ UNCHANGED <<tree, reverts>>

-----------------------------------------------------------------------------
Next ==
    \/ \E s \in Sessions : Proceeds(s)
    \/ \E s \in Sessions : RunBegins(s) \/ Ask(s) \/ CutOff(s) \/ GitFails(s)
    \/ \E c \in CallIds : Works(c) \/ WriteFails(c)
    \/ \E p \in Paths : Save(p) \/ Remove(p) \/ Restore(p) \/ Rerule(p)
    \/ Commit \/ Crash \/ Expire

\* The executor and the blocking pool get on with what they have.
Fairness ==
    /\ \A s \in Sessions : WF_vars(Proceeds(s))
    /\ \A c \in CallIds : WF_vars(Works(c))

Spec == Init /\ [][Next]_vars /\ Fairness

-----------------------------------------------------------------------------
(* Properties. *)

\* The type invariant: every part of the workspace has a value of its kind.
TypeOK ==
    /\ \A p \in Paths : files[p].stamp \in 0 .. clock /\ files[p].whole \in BOOLEAN
    /\ DOMAIN temps \subseteq CallIds
    /\ ignore \subseteq Paths /\ rules \subseteq Paths
    /\ slot.by \in {"none", "index", "refresh"}
    /\ holder = NoCall \/ (holder \in CallIds /\ Call(holder).at = "walk")
    /\ \A s \in Sessions :
           /\ runs[s].at \in {"idle", "start", "check", "loop", "end"}
           /\ snap[s].index \in {"none", "begin", "walk", "done"}
           /\ snap[s].git \in {"none", "status", "diff", "done", "failed"}
           /\ runs[s].at \in {"start", "end"} <=> snap[s].index # "none"
    /\ \A c \in CallIds :
           /\ Call(c).tool \in {"none", "read", "write", "edit", "glob"}
           /\ Call(c).note \in {"none", "unread", "changed"}

\* write_atomic: whatever fails or crashes, and whoever looks, a path has the
\* whole of some content.
FilesWhole == \A p \in Paths : files[p].whole

\* write_atomic: a temporary file is there only while its write goes on, or
\* since a crash of the daemon.
TempsHaveOwners == \A c \in DOMAIN temps : Call(c).at \in {"fill", "rename", "lost"}

\* invalidate_index: a file that a write created is in every index handed out
\* since, but for one that a snapshot had begun to build before.
IndexKnowsCreated ==
    \A p \in Paths \ reruled :
        slot # NoIndex /\ known[p] > 0 /\ Exists(p) /\ slot.got[p] = Absent =>
            slot.by = "refresh" /\ slot.began < known[p]

Named(o) == o.changed \cup o.added \cup o.deleted

\* finish_snapshot: files_changed names every path that was changed between
\* the two snapshots, by this run or by others, but for one in neither of them.
ListsEveryChange ==
    \A s \in Sessions :
        LET o == outcomes[s]
        IN  o.known => \A p \in Paths \ reruled :
                (\E t \in touched[p] : o.start.till < t /\ t <= o.end.from) =>
                    \/ p \in Named(o)
                    \/ p \notin NamesIn(o.start.walk) \cup NamesIn(o.end.walk)

\* finish_snapshot: files_changed names no path that was let alone since the
\* run began.
ListsOnlyChanges ==
    \A s \in Sessions :
        LET o == outcomes[s]
        IN  o.known => \A p \in (Named(o) \cap Paths) \ reruled :
                \E t \in touched[p] : o.start.from < t /\ t <= o.end.till

\* detect: what is recorded as reverted is not as the run before left it, but
\* for a commit in the middle of the snapshot or another ignore rule.
RevertedIsUndone ==
    \A s \in Sessions : \A r \in reverts[s] :
        r.was # r.now \/ r.torn \/ r.path \in reruled

\* overwrite_note: content that goes without a note was that of another call
\* of the run, or came between the look at the old content and the rename.
UnseenIsNoted ==
    \A c \in CallIds :
        LET k == Call(c)
        IN  k.tool \in {"write", "edit"} /\ k.ok /\ k.note = "none"
                /\ k.replaced # NoText /\ k.replaced = k.prev =>
                \E d \in CallIds \ {c} :
                    /\ d[1] = c[1] /\ Call(d).run = k.run /\ Call(d).path = k.path
                    /\ k.prev \in {Call(d).prev, Call(d).text}

\* execute: a run that began ends, whoever holds the index.
RunsFinish ==
    \A s \in Sessions : runs[s].at # "idle" ~> runs[s].at = "idle"

\* The tree and the index that is handed out for it.
FilesKept == TypeOK /\ FilesWhole /\ TempsHaveOwners /\ IndexKnowsCreated

\* What the outcomes of a run say of the files, of all of them and no more.
OutcomesTell == ListsEveryChange /\ ListsOnlyChanges /\ RevertedIsUndone
=============================================================================
