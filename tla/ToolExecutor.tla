---------------------------- MODULE ToolExecutor ----------------------------
(***************************************************************************)
(* The executor with the calls of one step: execute_all, execute_one, run  *)
(* and finish.  The permission gate allows or denies (PermissionPrompt has *)
(* it); a tool is external but for the shell, whose command ShellPump has. *)
(* The blob of the raw output is left out: when it cannot be stored the    *)
(* result goes on without one.                                             *)
(***************************************************************************)
EXTENDS ShellPump

\* Registered with Write or Execute risk; an unknown name is not.
Mutating(c) == ToolOf[c] \in {"write", "shell", "job", "detached"}

InBatch == ToSet(batch)
Done(c) == exec[c].at = "done"
Before(c) == {batch[i] : i \in {j \in DOMAIN batch :
                                    \E k \in DOMAIN batch : batch[k] = c /\ j < k}}

Goes(c, at, kind) == exec' = [exec EXCEPT ![c] = [at |-> at, kind |-> kind]]

Elsewhere == UNCHANGED <<cancelled, call, loop, batch, history>>

\* Faulty: a mutating call waits for the mutating ones before it only.
MayStartAmong(c) ==
    Mutating(c) => \A d \in Before(c) : Mutating(d) => Done(d)

\* execute_all: first all that change nothing, together, then the others in
\* their order.
MayStart(c) ==
    Mutating(c) => \A d \in InBatch : ~ Mutating(d) \/ d \in Before(c) => Done(d)

\* execute_one: what a refused tool.call comes to.
AfterRefusal(c) == Goes(c, "finish", "failed")

\* execute_one: the call is recorded, then its name and input are looked at.
RecordCall(c) ==
    /\ c \in InBatch /\ exec[c].at = "queued" /\ MayStart(c)
    /\ \/ /\ Stored
          /\ log' = log \cup {<<"call", c>>}
          /\ IF ToolOf[c] \in {"unknown", "invalid"} THEN Goes(c, "finish", "invalid")
             ELSE Goes(c, "permit", "none")
       \/ Refused /\ UNCHANGED log /\ AfterRefusal(c)
    /\ UNCHANGED proc /\ Elsewhere

-----------------------------------------------------------------------------
(* run: both selects are biased to the agent's token. *)

Deny(c) ==
    /\ exec[c].at = "permit" /\ ~ cancelled
    /\ Goes(c, "finish", "denied")
    /\ UNCHANGED <<refusals, log, proc>> /\ Elsewhere

\* Faulty: an answer that is there is taken before the cancellation is seen.
AllowLate(c) ==
    /\ exec[c].at = "permit" /\ c \notin Commands
    /\ Goes(c, "run", "none")
    /\ UNCHANGED <<refusals, log, proc>> /\ Elsewhere

\* A command is spawned, or cannot be; in the background it is on its own.
Allow(c) ==
    /\ exec[c].at = "permit" /\ ~ cancelled
    /\ IF c \in Commands
       THEN \/ /\ \E s \in Shapes : proc' = [proc EXCEPT ![c] = Spawned(s)]
               /\ IF ToolOf[c] = "shell" THEN Goes(c, "run", "none")
                  ELSE Goes(c, "finish", "ok")
            \/ Goes(c, "finish", "error") /\ UNCHANGED proc
       ELSE Goes(c, "run", "none") /\ UNCHANGED proc
    /\ UNCHANGED <<refusals, log>> /\ Elsewhere

\* The tool returns; a shell call when its pump does, with an error when it
\* timed out.
Return(c) ==
    /\ exec[c].at = "run"
    /\ IF c \in Commands
       THEN /\ proc[c].at = "ended"
            /\ ~ cancelled \/ proc[c].ended = "killed"
            /\ Goes(c, "finish", CASE proc[c].ended = "exited" -> "ok"
                                   [] proc[c].ended = "timeout" -> "error"
                                   [] proc[c].ended = "killed" -> "cancelled")
       ELSE ~ cancelled /\ \E k \in {"ok", "error"} : Goes(c, "finish", k)
    /\ UNCHANGED <<refusals, log, proc>> /\ Elsewhere

\* The timeout of a shell call is longer than its command may run.
Timeout(c) ==
    /\ exec[c].at = "run" /\ ~ cancelled
    /\ c \notin Commands
    /\ Goes(c, "finish", "timeout")
    /\ UNCHANGED <<refusals, log, proc>> /\ Elsewhere

\* The future of the tool is dropped where it is.
CancelCall(c) ==
    /\ exec[c].at \in {"permit", "run"} /\ cancelled
    /\ Goes(c, "finish", "cancelled")
    /\ proc' = IF exec[c].at = "run" /\ Pumping(c)
               THEN [proc EXCEPT ![c] = Drop(@)] ELSE proc
    /\ UNCHANGED <<refusals, log>> /\ Elsewhere

-----------------------------------------------------------------------------

\* finish: the result is recorded, or that is given up.
Finish(c) ==
    /\ exec[c].at = "finish"
    /\ \/ Stored /\ log' = log \cup {<<"result", c>>}
       \/ Refused /\ UNCHANGED log
    /\ Goes(c, "done", exec[c].kind)
    /\ UNCHANGED proc /\ Elsewhere

CallSteps(c) ==
    \/ RecordCall(c) \/ Deny(c) \/ Allow(c) \/ Return(c) \/ Timeout(c)
    \/ CancelCall(c) \/ Finish(c)
=============================================================================
