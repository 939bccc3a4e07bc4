------------------------------ MODULE ShellPump ------------------------------
(***************************************************************************)
(* The command of a shell call: spawn, pump with read_stream, Tree, and    *)
(* Jobs::start for those in the background.  The processes are external:   *)
(* they write, exit, or go on for ever; a kill takes down the group at     *)
(* once.  A pipe and the channel its reader feeds are one queue of chunks. *)
(* Timers are nondeterministic; the select! of the pump is biased.         *)
(***************************************************************************)
EXTENDS TurnState

\* What a command may be: alone, with a process it leaves behind in its
\* group, with one that left the group (setsid), or with its pipes closed.
Shapes == {"plain", "kid", "stray", "mute"}

Commands == {c \in Calls : ToolOf[c] \in {"shell", "job", "detached"}}

Spawned(shape) ==
    [NoProcess EXCEPT !.at = "pumped", !.child = TRUE, !.kid = shape = "kid",
                      !.stray = shape = "stray", !.mute = shape = "mute"]

PipesHeld(p) == (p.child /\ ~ p.mute) \/ p.kid \/ p.stray

\* The token the pump watches: the call's, a child of the agent's, or one of
\* its own for a detached job; `shell_jobs` kill cancels that of a job.
StopsOn(c) == proc[c].stop \/ (cancelled /\ ToolOf[c] # "detached")

\* Tree::kill; a process that left the group is out of its reach.
Kill(p) == [p EXCEPT !.child = FALSE, !.kid = FALSE, !.killed = TRUE]

\* The pump is gone, and its locals with it.
Gone(p, how) == [p EXCEPT !.at = "ended", !.ended = how, !.armed = FALSE,
                          !.seen = FALSE, !.killed = FALSE]

\* The future of the pump is dropped, with the handles on child and tree.
Drop(p) == Gone(Kill(p), "dropped")

\* The loop is left: a child that was not reaped is killed, and the tree of
\* any but a detached job with its handle.
LeaveLoop(c, p) ==
    Gone(IF ~ p.seen \/ ToolOf[c] # "detached" THEN Kill(p) ELSE p,
         IF p.ended = "none" THEN "exited" ELSE p.ended)

Becomes(c, p) ==
    /\ proc' = [proc EXCEPT ![c] = p]
    /\ UNCHANGED <<cancelled, refusals, call, loop, batch, exec, log,
                   history>>

-----------------------------------------------------------------------------
(* The processes. *)

Write(c) ==
    /\ proc[c].at = "pumped" /\ PipesHeld(proc[c])
    /\ proc[c].wrote < MaxOutput
    /\ Becomes(c, [proc[c] EXCEPT !.wrote = @ + 1, !.unread = @ + 1])

ChildExits(c) == proc[c].child /\ Becomes(c, [proc[c] EXCEPT !.child = FALSE])
KidExits(c) ==
    proc[c].kid /\ ~ proc[c].child /\ Becomes(c, [proc[c] EXCEPT !.kid = FALSE])
StrayExits(c) ==
    proc[c].stray /\ ~ proc[c].child /\ Becomes(c, [proc[c] EXCEPT !.stray = FALSE])

-----------------------------------------------------------------------------
(* The pump. *)

Pumping(c) == proc[c].at = "pumped"
StopReady(c) == StopsOn(c) /\ proc[c].ended = "none"
ExitReady(c) == ~ proc[c].child /\ ~ proc[c].seen

KilledFor(c, why) == [Kill(proc[c]) EXCEPT !.ended = why, !.armed = TRUE]

Stopped(c) ==
    /\ Pumping(c) /\ StopReady(c)
    /\ Becomes(c, KilledFor(c, "killed"))

Deadline(c) ==
    /\ Pumping(c) /\ ~ StopReady(c)
    /\ proc[c].ended = "none"
    /\ Becomes(c, KilledFor(c, "timeout"))

Reap(c) ==
    /\ Pumping(c) /\ ~ StopReady(c) /\ ExitReady(c)
    /\ Becomes(c, [proc[c] EXCEPT !.seen = TRUE,
                                  !.armed = @ \/ proc[c].ended = "none"])

\* Faulty: the grace begins again whatever the kill was for.
GraceRearmed(c) ==
    /\ Pumping(c) /\ ~ StopReady(c) /\ ~ ExitReady(c)
    /\ proc[c].armed /\ ~ proc[c].again
    /\ Becomes(c, [Kill(proc[c]) EXCEPT !.orphans = TRUE, !.again = proc[c].killed])

\* After an exit the tree is killed and the grace begins again, however often
\* that was; after a kill for a stop or a timeout the pipes are given up.
GraceOver(c) ==
    /\ Pumping(c) /\ ~ StopReady(c) /\ ~ ExitReady(c)
    /\ proc[c].armed /\ (proc[c].again => proc[c].ended # "none")
    /\ Becomes(c, IF proc[c].ended = "none"
                  THEN [Kill(proc[c]) EXCEPT !.orphans = TRUE,
                                             !.again = proc[c].killed]
                  ELSE LeaveLoop(c, proc[c]))

Sink(c) ==
    /\ Pumping(c) /\ ~ StopReady(c) /\ ~ ExitReady(c)
    /\ proc[c].unread > 0
    /\ Becomes(c, [proc[c] EXCEPT !.unread = @ - 1, !.sunk = @ + 1])

Closed(c) ==
    /\ Pumping(c) /\ ~ StopReady(c) /\ ~ ExitReady(c)
    /\ ~ PipesHeld(proc[c]) /\ proc[c].unread = 0
    /\ Becomes(c, LeaveLoop(c, proc[c]))

\* `shell_jobs` with `kill`, of this agent or another.
KillJob(c) ==
    /\ ToolOf[c] \in {"job", "detached"}
    /\ Pumping(c) /\ ~ proc[c].stop
    /\ Becomes(c, [proc[c] EXCEPT !.stop = TRUE])

PumpSteps(c) ==
    Stopped(c) \/ Deadline(c) \/ Reap(c) \/ GraceOver(c) \/ Sink(c) \/ Closed(c)
ProcessSteps(c) == Write(c) \/ ChildExits(c) \/ KidExits(c) \/ StrayExits(c)
=============================================================================
