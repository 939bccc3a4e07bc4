---------------------------- MODULE RunSnapshots ----------------------------
(***************************************************************************)
(* What a run does with the workspace: the snapshot at its start, the      *)
(* check whether the changes of the run before were undone, the loop, the  *)
(* snapshot at its end and the outcome files_changed.  The two halves of a *)
(* snapshot go on at the same time; `git status` and `git diff HEAD` are   *)
(* processes one after the other, each of which sees one state of the      *)
(* tree.  The appends to the trace are taken to succeed.                   *)
(***************************************************************************)
EXTENDS FileTools

NamesIn(w) == {p \in Paths : w.got[p] # Absent} \cup w.temps
InTree(x) == IF x \in Paths THEN Exists(x) ELSE x \in DOMAIN temps
Tracked(p) == head.tree[p] # NoText
Dirty(sn) == sn.diff \cup sn.untracked

\* Repo::open fails where there is no repository.
Beginning == [NoSnap EXCEPT !.index = "begin", !.from = clock,
                            !.git = IF scene.repo THEN "status" ELSE "failed"]
Taken(s) == snap[s].index = "done" /\ snap[s].git \in {"done", "failed"}

-----------------------------------------------------------------------------
(* git_snapshot *)

GitStatus(s) ==
    /\ snap[s].git = "status"
    /\ Snaps(s, [snap[s] EXCEPT
           !.git = "diff",
           !.head = head.id,
           !.untracked = {p \in Paths : Exists(p) /\ ~ Tracked(p)} \cup DOMAIN temps,
           !.texts = [p \in Paths |-> files[p].text]])
    /\ UNCHANGED <<scene, tree, index, tools, runs, start, outcomes, reverts>>

GitDiff(s) ==
    /\ snap[s].git = "diff"
    /\ Snaps(s, [snap[s] EXCEPT
           !.git = "done",
           !.diff = {p \in Paths : Tracked(p) /\ files[p].text # head.tree[p]},
           !.texts = [p \in Paths |-> IF Tracked(p) THEN files[p].text ELSE @[p]]])
    /\ UNCHANGED <<scene, tree, index, tools, runs, start, outcomes, reverts>>

\* One of the two fails: the snapshot has no git half.
GitFails(s) ==
    /\ Spend("gitFailures")
    /\ snap[s].git \in {"status", "diff"}
    /\ Snaps(s, [snap[s] EXCEPT !.git = "failed"])
    /\ UNCHANGED <<tree, index, tools, runs, start, outcomes, reverts>>

-----------------------------------------------------------------------------
(* execute *)

RunBegins(s) ==
    /\ runs[s].at = "idle" /\ runs[s].n < scene.runs[s]
    /\ runs' = [runs EXCEPT ![s] = [n |-> @.n + 1, at |-> "start"]]
    /\ Snaps(s, Beginning)
    /\ seen' = [seen EXCEPT ![s] = [p \in Paths |-> NoText]]
    /\ UNCHANGED <<scene, tree, index, calls, start, outcomes, reverts>>

StartTaken(s) ==
    /\ runs[s].at = "start" /\ Taken(s)
    /\ runs' = [runs EXCEPT ![s].at = "check"]
    /\ start' = [start EXCEPT ![s] = [snap[s] EXCEPT !.till = clock]]
    /\ Snaps(s, NoSnap)
    /\ UNCHANGED <<scene, tree, index, tools, outcomes, reverts>>

\* Faulty: HEAD may have moved.
UndoneWherever(was, now) ==
    IF was.git = "done" /\ now.git = "done" THEN Dirty(was) \ Dirty(now) ELSE {}

\* The paths that differed from HEAD at the end and do not now, on one HEAD.
UndoneByGit(was, now) ==
    IF was.git = "done" /\ now.git = "done" /\ was.head = now.head
    THEN Dirty(was) \ Dirty(now) ELSE {}

\* detect: of what the run before changed, what is undone.  was and now are
\* history, what the path held when the two runs looked at it.
Reverted(s) ==
    LET o == outcomes[s]
        now == start[s]
        gone == {x \in o.added : ~ InTree(x) /\ x \notin NamesIn(now.walk)}
        back == {x \in o.deleted : InTree(x) \/ x \in NamesIn(now.walk)}
        undone == o.changed \cap UndoneByGit(o.end, now)
        There(x) == IF x \notin Paths THEN x
                    ELSE IF Exists(x) THEN files[x].text ELSE now.walk.got[x].text
        Was(x) == IF x \in Paths THEN o.end.walk.held[x] ELSE x
    IN  {[path |-> x, was |-> Was(x), now |-> NoText, torn |-> FALSE] : x \in gone}
        \cup {[path |-> x, was |-> IF x \in Paths THEN Was(x) ELSE NoText,
                now |-> There(x), torn |-> FALSE] : x \in back}
        \cup {[path |-> x, was |-> o.end.texts[x], now |-> now.texts[x],
               torn |-> now.torn] : x \in undone}

CheckReverted(s) ==
    /\ runs[s].at = "check"
    /\ runs' = [runs EXCEPT ![s].at = "loop"]
    /\ reverts' = [reverts EXCEPT ![s] = IF outcomes[s].known THEN Reverted(s) ELSE {}]
    /\ UNCHANGED <<scene, tree, index, tools, snap, start, outcomes>>

\* The loop is left, however it ended.
LoopEnds(s) ==
    /\ runs[s].at = "loop"
    /\ \A c \in CallsOf(s) : ~ Waits(c)
    /\ runs' = [runs EXCEPT ![s].at = "end"]
    /\ Snaps(s, Beginning)
    /\ UNCHANGED <<scene, tree, index, tools, start, outcomes, reverts>>

\* changes_since
Changed(before, after) ==
    [known |-> TRUE,
     changed |-> {p \in Paths : before.walk.got[p] # Absent /\ after.walk.got[p] # Absent
                                /\ before.walk.got[p].stamp # after.walk.got[p].stamp},
     added |-> NamesIn(after.walk) \ NamesIn(before.walk),
     deleted |-> NamesIn(before.walk) \ NamesIn(after.walk),
     start |-> before, end |-> after]

EndTaken(s) ==
    /\ runs[s].at = "end" /\ Taken(s)
    /\ runs' = [runs EXCEPT ![s].at = "idle"]
    /\ outcomes' = [outcomes EXCEPT ![s] =
                        Changed(start[s], [snap[s] EXCEPT !.till = clock])]
    /\ Snaps(s, NoSnap)
    /\ start' = [start EXCEPT ![s] = NoSnap]
    /\ UNCHANGED <<scene, tree, index, tools, reverts>>

-----------------------------------------------------------------------------
\* What a run does unless something fails.
Proceeds(s) ==
    \/ RefreshBegins(s) \/ RefreshLooks(s) \/ RefreshStores(s)
    \/ GitStatus(s) \/ GitDiff(s)
    \/ StartTaken(s) \/ CheckReverted(s) \/ LoopEnds(s) \/ EndTaken(s)
=============================================================================
