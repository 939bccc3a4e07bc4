------------------------------ MODULE AgentTurn ------------------------------
(***************************************************************************)
(* The loop of a run: run_loop with call_mentor, after_response and        *)
(* run_tools, over the mentor call, the executor and the commands.  What   *)
(* follows a reply without tool calls is in AgentRuntime; here it ends the *)
(* run.                                                                    *)
(***************************************************************************)
EXTENDS MentorCall, ToolExecutor

At(where) == loop.at = where
Loop(where) == loop' = [loop EXCEPT !.at = where]

LoopOnly == UNCHANGED <<cancelled, log, proc>>

-----------------------------------------------------------------------------

\* The top of the loop: its iterations are up, it was cancelled, or the
\* context is too large.
StopAtTop ==
    /\ At("guard")
    /\ Loop("end")
    /\ UNCHANGED <<refusals, call, batch, exec, history>> /\ LoopOnly

StartStep ==
    /\ At("guard") /\ ~ cancelled /\ loop.step < MaxSteps
    /\ \/ /\ Stored
          /\ loop' = [at |-> "mentor", step |-> loop.step + 1]
          /\ call' = [NewCall EXCEPT !.at = "request"]
       \/ Refused /\ Loop("end") /\ UNCHANGED call
    /\ UNCHANGED <<batch, exec, history>> /\ LoopOnly

\* The error is recorded and the step finished, or that is refused.
MentorFails ==
    /\ At("mentor") /\ call.at \in {"failed", "broken"}
    /\ Stored \/ (call.at = "failed" /\ Refused)
    /\ Loop("end")
    /\ UNCHANGED <<call, batch, exec, history>> /\ LoopOnly

\* after_response: the reply is in memory whether its row is stored or not.
Respond ==
    LET cs == CallsOf(call.reply) IN
    /\ At("mentor") /\ call.at = "answered"
    /\ history' = Append(history, [calls |-> cs, kinds |-> << >>])
    /\ call' = NewCall
    /\ \/ /\ Stored
          /\ IF cs = << >> THEN Loop("end") /\ UNCHANGED <<batch, exec>>
             ELSE /\ Loop("tools")
                  /\ batch' = cs
                  /\ exec' = [c \in Calls |->
                                 IF c \in ToSet(cs) THEN [at |-> "queued", kind |-> "none"]
                                 ELSE exec[c]]
       \/ Refused /\ Loop("end") /\ UNCHANGED <<batch, exec>>
    /\ LoopOnly

\* Faulty: results are given for what the tools returned, not for what was
\* denied or cut short.
ResultsReturned ==
    LET cs == SelectSeq(batch, LAMBDA c : exec[c].kind \in {"ok", "error"}) IN
    [calls |-> cs, kinds |-> [i \in DOMAIN cs |-> exec[cs[i]].kind]]

\* execute_all: the results in the mentor's order.
ResultsOf == [calls |-> batch, kinds |-> [i \in DOMAIN batch |-> exec[batch[i]].kind]]

\* run_tools, once the executor is done: the results, their row, the step.
PushResults ==
    /\ At("tools") /\ \A c \in InBatch : Done(c)
    /\ history' = Append(history, ResultsOf)
    /\ batch' = << >>
    /\ Loop("results")
    /\ UNCHANGED <<refusals, call, exec>> /\ LoopOnly

FinishTools ==
    /\ At("results")
    /\ \/ /\ Stored
          /\ Loop(IF cancelled \/ \E i \in DOMAIN Last(history).kinds :
                                      Last(history).kinds[i] = "cancelled"
                  THEN "end" ELSE "guard")
       \/ Refused /\ Loop("end")
    /\ UNCHANGED <<call, batch, exec, history>> /\ LoopOnly

\* A client, a shutdown or the watchdog; a shutdown after the run, too.
Cancel ==
    /\ ~ cancelled
    /\ cancelled' = TRUE
    /\ UNCHANGED <<refusals, call, loop, batch, exec, log, history,
                   proc>>

-----------------------------------------------------------------------------

LoopSteps ==
    \/ StopAtTop \/ StartStep \/ MentorFails \/ Respond \/ PushResults
    \/ FinishTools

\* What goes on of itself.
Proceeds ==
    \/ LoopSteps \/ MentorSteps
    \/ \E c \in Calls : CallSteps(c) \/ PumpSteps(c)

\* The run is over and no command is pumped.
Quiescent ==
    /\ At("end") /\ \A c \in Calls : ~ Pumping(c)
    /\ UNCHANGED vars

\* Processes write and end, or not; a client may cancel and kill a job.
Next ==
    \/ Proceeds
    \/ Cancel \/ Quiescent
    \/ \E c \in Calls : ProcessSteps(c) \/ KillJob(c)

\* No step can be undone; that one of those that go on of themselves is always
\* taken is the fairness of each.
Spec == Init /\ [][Next]_vars /\ WF_vars(Proceeds)

-----------------------------------------------------------------------------
(* Properties. *)

TypeOK ==
    /\ cancelled \in BOOLEAN
    /\ refusals \in 0 .. MaxRefusals
    /\ call.at \in {"none", "request", "send", "stream", "backoff", "note",
                    "wait", "answered", "failed", "broken"}
    /\ call.attempt \in 0 .. MaxRetries
    /\ loop.at \in {"guard", "mentor", "tools", "results", "end"}
    /\ loop.step \in 0 .. MaxSteps
    /\ batch \in Seq(Calls)
    /\ \A c \in Calls :
        /\ exec[c].at \in {"idle", "queued", "permit", "run", "finish", "done"}
        /\ DOMAIN proc[c] = DOMAIN NoProcess
        /\ proc[c].wrote \in 0 .. MaxOutput
        /\ proc[c].unread + proc[c].sunk = proc[c].wrote
    /\ log \subseteq {"call", "result"} \X Calls

\* call_mentor: what a call has waited is within runtime.max_wait_s, over any
\* sequence of errors, and so is the wait it is in.
WaitsWithinBudget ==
    call.waited + (IF call.at = "wait" THEN call.wait ELSE 0) <= MaxWait

\* attempt, feed, call_mentor: output that was shown and is then discarded is
\* never replaced in silence; each further attempt that shows content was
\* announced by a warning, and there is one further at most.
NothingSilentlyRepeated == call.shown <= call.warned + 1 /\ call.shown <= 2

\* execute_all, run: while a mutating call may change something, no other
\* call of the step is between its permit and its return.
MutatesAlone ==
    \A c, d \in Calls :
        exec[c].at \in {"permit", "run"} /\ Mutating(c)
            => d = c \/ exec[d].at \notin {"permit", "run"}

\* run: once the agent is cancelled no further call passes its permit, be it
\* one that waits for its turn or for a person.
NothingStartsCancelled ==
    [][cancelled =>
        \A c \in Calls : exec'[c].at = "run" => exec[c].at = "run"]_vars

\* execute_one, finish: a call is in the trace before its command runs, and
\* before its result is, unless the store refused it and nothing was run.
TraceTellsCalls ==
    \A c \in Calls :
        /\ <<"result", c>> \in log /\ exec[c].kind # "failed" => <<"call", c>> \in log
        /\ proc[c].at # "none" => <<"call", c>> \in log

\* pump, Tree, CancelCall: a shell call that has come to its result leaves no
\* process of its group behind, however it ended.
NoProcessLeft ==
    \A c \in Calls :
        ToolOf[c] = "shell" /\ exec[c].at \in {"finish", "done"}
            => ~ proc[c].child /\ ~ proc[c].kid

\* pump: of a command that exited every chunk was handed over, those written
\* just before it did too, and those of what it left behind.
OutputWhole ==
    \A c \in Calls : proc[c].ended = "exited" => proc[c].sunk = proc[c].wrote

\* run_loop with execute_all keeps the promise of the conversation.
Outline ==
    INSTANCE LoopOutline WITH recorded <- {c \in Calls : <<"call", c>> \in log},
                              running <- ~ At("end")
ImplementsOutline == Outline!Spec

\* call_mentor, run, pump: the run comes to its end, though commands and waits
\* for a person may not.
LoopEnds == <>At("end")

\* Jobs::start: a job that is not detached does not run on to its timeout
\* once the agent is cancelled, during the run or after it.
JobsDieCancelled ==
    [][\A c \in Calls :
        ToolOf[c] = "job" /\ cancelled /\ proc[c].ended = "none"
            => proc'[c].ended \in {"none", "killed"}]_vars

\* The mentor call keeps to its budget and to what it has shown.
MentorCallKeeps == WaitsWithinBudget /\ NothingSilentlyRepeated

\* The calls of a step: one that mutates is alone, each is in the trace before
\* it acts, and one that is over has its output whole and no process left.
CallsKeep == TypeOK /\ MutatesAlone /\ TraceTellsCalls /\ NoProcessLeft /\ OutputWhole

\* What a cancellation stops.
CancelStops == NothingStartsCancelled /\ JobsDieCancelled
=============================================================================
