--------------------------- MODULE WorkspaceIndex ----------------------------
(***************************************************************************)
(* One open workspace: the files under its root, HEAD of its repository,   *)
(* the index kept by the daemon, and the runs of the sessions attached to  *)
(* it with the blocking-pool threads of their file tools.  A text is the   *)
(* tuple of who wrote it; a stamp stands for size and modification time.   *)
(*                                                                         *)
(* The file index: the walk that builds one, index() which builds under    *)
(* the lock of the slot, refresh() which builds without it, and            *)
(* invalidate_index.  A walk looks at one name after the other, in any     *)
(* order, while files come and go; the names of temporary files in one     *)
(* step.  The limit of 200 000 files is left out.                          *)
(***************************************************************************)
EXTENDS Integers, FiniteSets

CONSTANTS
    Paths,       \* files under the root
    Sessions,    \* sessions attached to the workspace
    MaxCalls,    \* calls of file tools a session makes, over its runs
    Scenes       \* what the runs, the user and the machine may do

VARIABLES
    scene,       \* what is left of the scene
    files,       \* Paths -> file
    temps,       \* temporary files in the tree: id of the call -> text, whole
    head,        \* HEAD: its id, and the text it has of each path
    ignore,      \* .harness/ignore, as the set of paths it hides
    rules,       \* Workspace.rules: the same as last loaded
    slot,        \* Workspace.index
    holder,      \* the call that holds the lock of slot while it builds
    runs,        \* Sessions -> the run it has, or the last one
    snap,        \* Sessions -> the snapshot its run is taking
    start,       \* Sessions -> the start snapshot of its run
    seen,        \* Sessions -> SeenFiles of its run
    calls,       \* CallIds -> a call of a file tool, with its thread
    outcomes,    \* Sessions -> what the store has of its last run
    reverts,     \* Sessions -> the last `reverted` outcome
    clock,       \* the last stamp given
    touched,     \* history: Paths -> the stamps at which it was changed
    known,       \* history: Paths -> its stamp when a creation dropped the index
    reruled      \* history: paths whose ignore rule was changed

tree == <<files, temps, head, ignore, clock, touched, reruled>>
index == <<rules, slot, holder, known>>
tools == <<seen, calls>>
trace == <<runs, snap, start, outcomes, reverts>>
vars == <<scene, tree, index, tools, trace>>

CallIds == Sessions \X (1 .. MaxCalls)

\* The tools a run may ask for, with the file they are for.
Asks == {"read", "write", "edit", "glob"} \X Paths

Scene ==
    [runs : [Sessions -> Nat], calls : [Sessions -> 0 .. MaxCalls],
     asks : [Sessions -> SUBSET Asks], present : SUBSET Paths, repo : BOOLEAN,
     saves : Nat, removes : Nat, restores : Nat, commits : Nat, rerules : Nat,
     cuts : Nat, failures : Nat, gitFailures : Nat, expiries : Nat, crashes : Nat]

ASSUME CallsAreBounded == MaxCalls \in Nat
ASSUME ScenesAreBounded == Scenes \subseteq Scene

\* Temporary files have names of their own.
ASSUME PathsAreNamed == Paths # {} /\ "temps" \notin Paths /\ Paths \cap CallIds = {}

NoText == <<"none", 0>>
Absent == [text |-> NoText, stamp |-> 0, whole |-> TRUE]
Exists(p) == files[p] # Absent

\* No call holds the lock of the index slot.
NoCall == <<"none", 0>>

NoIndex == [by |-> "none", got |-> [p \in Paths |-> Absent], temps |-> {},
            began |-> 0, stale |-> FALSE]

\* A walk that has not begun; todo is what it has still to look at, held is
\* history, what the files held then, hidden or not.
NoWalk == [todo |-> {}, got |-> [p \in Paths |-> Absent], temps |-> {},
           began |-> 0, rules |-> {}, held |-> [p \in Paths |-> NoText]]

\* index and git are how far the two halves of a snapshot are; texts is
\* history, what the files held when git looked at them.
NoSnap == [index |-> "none", git |-> "none", walk |-> NoWalk, head |-> 0,
           untracked |-> {}, diff |-> {}, texts |-> [p \in Paths |-> NoText],
           torn |-> FALSE, from |-> 0, till |-> 0]

NoOutcome == [known |-> FALSE, changed |-> {}, added |-> {}, deleted |-> {},
              start |-> NoSnap, end |-> NoSnap]

NoCallYet == [tool |-> "none", path |-> CHOOSE p \in Paths : TRUE, run |-> 0,
              at |-> "free", text |-> NoText, prev |-> NoText, replaced |-> NoText,
              note |-> "none", ok |-> FALSE, cut |-> FALSE, walk |-> NoWalk]

-----------------------------------------------------------------------------
(* The disk. *)

\* A path gets new content, or loses it.
Put(p, text, whole) ==
    /\ clock' = clock + 1
    /\ files' = [files EXCEPT ![p] =
           IF text = NoText THEN Absent
           ELSE [text |-> text, stamp |-> clock + 1, whole |-> whole]]
    /\ touched' = [touched EXCEPT ![p] = @ \cup {clock + 1}]

\* A resource of the scene is used up.
Spend(what) == /\ scene[what] > 0
               /\ scene' = [scene EXCEPT ![what] = @ - 1]

-----------------------------------------------------------------------------
\* FileIndex::build begins, with the rules as they are loaded then.
Walking(ignored) ==
    [NoWalk EXCEPT !.todo = Paths \cup {"temps"}, !.began = clock, !.rules = ignored]

\* It looks at x: hidden files it does not list, temporary ones it does.
Looked(w, x) ==
    IF x = "temps" THEN [w EXCEPT !.todo = @ \ {x}, !.temps = DOMAIN temps]
    ELSE [w EXCEPT !.todo = @ \ {x},
                   !.got[x] = IF x \in w.rules THEN Absent ELSE files[x],
                   !.held[x] = files[x].text]

Built(w, by) ==
    [by |-> by, got |-> w.got, temps |-> w.temps, began |-> w.began, stale |-> FALSE]

Fresh == slot # NoIndex /\ ~ slot.stale

\* INDEX_TTL has passed.
Expire ==
    /\ Spend("expiries")
    /\ Fresh
    /\ slot' = [slot EXCEPT !.stale = TRUE]
    /\ UNCHANGED <<tree, rules, holder, known, tools, trace>>

\* invalidate_index, after p was created.
Invalidate(p) ==
    /\ holder = NoCall
    /\ slot' = NoIndex
    /\ known' = [known EXCEPT ![p] = files[p].stamp]
    /\ UNCHANGED <<rules, holder>>

-----------------------------------------------------------------------------
(* index(), for a glob. *)

Moves(c, call) == calls' = [calls EXCEPT ![c] = call]

IndexThere(c) ==
    /\ calls[c].at = "index" /\ holder = NoCall /\ Fresh
    /\ Moves(c, [calls[c] EXCEPT !.at = "done", !.ok = TRUE])
    /\ UNCHANGED <<scene, tree, index, seen, trace>>

\* Faulty: the lock is let go before the index is built.
BuildUnlocked(c) ==
    /\ calls[c].at = "index" /\ holder = NoCall /\ ~ Fresh
    /\ Moves(c, [calls[c] EXCEPT !.at = "walk", !.walk = Walking(rules)])
    /\ UNCHANGED <<scene, tree, index, seen, trace>>

BuildBegins(c) ==
    /\ calls[c].at = "index" /\ holder = NoCall /\ ~ Fresh
    /\ holder' = c
    /\ Moves(c, [calls[c] EXCEPT !.at = "walk", !.walk = Walking(rules)])
    /\ UNCHANGED <<scene, tree, rules, slot, known, seen, trace>>

BuildLooks(c) ==
    /\ calls[c].at = "walk"
    /\ \E x \in calls[c].walk.todo :
           Moves(c, [calls[c] EXCEPT !.walk = Looked(@, x)])
    /\ UNCHANGED <<scene, tree, index, seen, trace>>

BuildEnds(c) ==
    /\ calls[c].at = "walk" /\ calls[c].walk.todo = {}
    /\ holder \in {c, NoCall}
    /\ slot' = Built(calls[c].walk, "index")
    /\ holder' = NoCall
    /\ Moves(c, [calls[c] EXCEPT !.at = "done", !.ok = TRUE, !.walk = NoWalk])
    /\ UNCHANGED <<scene, tree, rules, known, seen, trace>>

-----------------------------------------------------------------------------
(* refresh(), the index half of a snapshot. *)

Snaps(s, half) == snap' = [snap EXCEPT ![s] = half]

\* Faulty: the slot is locked from here on; RefreshStores locks it again.
RefreshLocks(s) ==
    /\ snap[s].index = "begin" /\ holder = NoCall
    /\ rules' = ignore
    /\ holder' = <<s, 0>>
    /\ Snaps(s, [snap[s] EXCEPT !.index = "walk", !.walk = Walking(ignore)])
    /\ UNCHANGED <<scene, tree, slot, known, tools, runs, start, outcomes, reverts>>

\* reload_ignore_rules, and the walk begins.
RefreshBegins(s) ==
    /\ snap[s].index = "begin"
    /\ rules' = ignore
    /\ Snaps(s, [snap[s] EXCEPT !.index = "walk", !.walk = Walking(ignore)])
    /\ UNCHANGED <<scene, tree, slot, holder, known, tools, runs, start, outcomes, reverts>>

RefreshLooks(s) ==
    /\ snap[s].index = "walk"
    /\ \E x \in snap[s].walk.todo : Snaps(s, [snap[s] EXCEPT !.walk = Looked(@, x)])
    /\ UNCHANGED <<scene, tree, index, tools, runs, start, outcomes, reverts>>

RefreshStores(s) ==
    /\ snap[s].index = "walk" /\ snap[s].walk.todo = {}
    /\ holder = NoCall
    /\ slot' = Built(snap[s].walk, "refresh")
    /\ Snaps(s, [snap[s] EXCEPT !.index = "done"])
    /\ UNCHANGED <<scene, tree, rules, holder, known, tools, runs, start, outcomes, reverts>>
=============================================================================
