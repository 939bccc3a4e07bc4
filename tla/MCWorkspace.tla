----------------------------- MODULE MCWorkspace -----------------------------
(* Small instances of Workspace for TLC. *)
EXTENDS Workspace, TLC

CONSTANTS a, b, one, other

None == [runs |-> one :> 1 @@ other :> 0, calls |-> one :> 0 @@ other :> 0,
         asks |-> one :> {} @@ other :> {}, present |-> {a}, repo |-> FALSE,
         saves |-> 0, removes |-> 0, restores |-> 0, commits |-> 0, rerules |-> 0,
         cuts |-> 0, failures |-> 0, gitFailures |-> 0, expiries |-> 0, crashes |-> 0]

\* A glob, of an index that may have grown old, while another session creates a
\* file and takes its snapshots.
Globbing == [None EXCEPT !.runs = one :> 1 @@ other :> 1,
                 !.calls = one :> 1 @@ other :> 1,
                 !.asks = one :> {<<"glob", a>>} @@ other :> {<<"write", b>>},
                 !.expiries = 1]

\* Two runs in a repository: what the first did is undone, kept or changed
\* again, and git may fail.
Undoing == [None EXCEPT !.runs[one] = 2, !.calls[one] = 1, !.repo = TRUE,
                !.asks[one] = {<<"edit", a>>},
                !.restores = 1, !.commits = 1, !.gitFailures = 1]
Removing == [None EXCEPT !.runs[one] = 2, !.calls[one] = 1, !.repo = TRUE,
                 !.asks[one] = {<<"write", b>>}, !.removes = 1, !.commits = 1]

\* The user deletes and hides files while two runs are made.
Hiding == [None EXCEPT !.runs[one] = 2, !.rerules = 1, !.removes = 1]

\* Calls that are cut off go on while the run looks at the file again.
CuttingOff == [None EXCEPT !.calls[one] = 2,
                   !.asks[one] = {<<"read", a>>, <<"write", a>>},
                   !.saves = 1, !.cuts = 1]

\* A write is late: it lands in the next run, or after the daemon crashed.
Late == [None EXCEPT !.runs[one] = 2, !.calls[one] = 1,
             !.asks[one] = {<<"write", b>>}, !.cuts = 1]

\* Two sessions write the same file; writes fail and the daemon crashes.
Together == [None EXCEPT !.runs[other] = 1,
                 !.calls = one :> 1 @@ other :> 1,
                 !.asks = one :> {<<"edit", a>>} @@ other :> {<<"write", a>>},
                 !.failures = 1]
Crashing == [None EXCEPT !.runs[one] = 2, !.calls[one] = 2,
                 !.asks[one] = {<<"write", b>>}, !.crashes = 1]

AllScenes == {Globbing, Undoing, Removing, Hiding, CuttingOff, Late,
              Together, Crashing}
=============================================================================
