------------------------------ MODULE TurnState ------------------------------
(***************************************************************************)
(* One run of an agent between its prompt and its end: the state of the    *)
(* mentor call, of the tool calls of the step, of the processes its shell  *)
(* calls started, and of the loop around them.  MentorCall, ToolExecutor   *)
(* and ShellPump have the actions, AgentTurn puts them together.           *)
(***************************************************************************)
EXTENDS Integers, Sequences, FiniteSets, SequencesExt

CONSTANTS
    Calls,       \* ids of tool calls
    ToolOf,      \* what each call asks for, see Tools
    Replies,     \* what the mentor may answer, each a sequence of blocks
    HttpErrors,  \* errors the API may answer a request with, [kind, after]
    MaxRetries,  \* retries of the adapter
    DefaultWait, \* what the runtime waits when the API names no time
    MaxWait,     \* runtime.max_wait_s
    MaxSteps,    \* runtime.max_iterations
    MaxFaults,   \* bound: failures of the API and its streams in one call
    FaultySteps, \* bound: steps whose mentor call meets them
    MaxRefusals, \* bound: writes the store refuses
    MaxOutput    \* bound: chunks a command writes

Tools == {"read", "write", "shell", "job", "detached", "unknown", "invalid"}

\* No retry-after, or not in seconds.
NoTime == -1

ASSUME TurnConstants ==
    /\ ToolOf \in [Calls -> Tools]
    /\ {MaxRetries, MaxWait, MaxSteps, MaxFaults, FaultySteps,
      MaxRefusals, MaxOutput}
           \subseteq Nat
    /\ DefaultWait \in Nat \ {0}
    /\ \A e \in HttpErrors : e.after \in Nat \cup {NoTime}

VARIABLES
    cancelled,  \* the agent's token
    refusals,   \* writes refused so far
    call,       \* the mentor call, see NewCall
    loop,       \* where run_loop is: [at, step]
    batch,      \* the tool calls of the step, in the mentor's order
    exec,       \* where the executor is with each call: [at, kind]
    log,        \* tool.call and tool.result events stored
    history,    \* the conversation since the prompt
    proc        \* the command of each shell call, see NoProcess

vars == <<cancelled, refusals, call, loop, batch, exec, log, history,
          proc>>

\* A write the store refuses; the other outcome is that it is stored.
Refused == refusals < MaxRefusals /\ refusals' = refusals + 1
Stored == UNCHANGED refusals

\* The API fails.
Faulty == call.faults < MaxFaults /\ loop.step <= FaultySteps

-----------------------------------------------------------------------------
(* The mentor call. *)

NoError == [kind |-> "none", after |-> NoTime]
Err(k) == [kind |-> k, after |-> NoTime]

\* What was received of a response: per block how many pieces of its input,
\* and whether its stop arrived.
NewAssembler == [parts |-> << >>, finished |-> FALSE]

NewCall ==
    [at |-> "none", attempt |-> 0, reply |-> << >>, pos |-> 0,
     asm |-> NewAssembler, waited |-> 0, wait |-> 0, interrupted |-> FALSE,
     err |-> NoError, shown |-> 0, warned |-> 0, faults |-> 0]

-----------------------------------------------------------------------------
(* The command of a shell call. *)

NoProcess ==
    [at |-> "none",      \* none, pumped, ended
     child |-> FALSE,    \* the command's own process is alive
     mute |-> FALSE,     \* and has closed the pipes
     kid |-> FALSE,      \* one it started is alive, and holds the pipes
     stray |-> FALSE,    \* so is one that has left the process group
     wrote |-> 0,        \* chunks written
     unread |-> 0,       \* of them, in a pipe or the reader's channel
     sunk |-> 0,         \* of them, handed to the transcript
     seen |-> FALSE,     \* the pump has the exit status
     ended |-> "none",   \* none, exited, timeout, killed, dropped
     armed |-> FALSE,    \* a grace runs
     killed |-> FALSE,   \* the tree was killed
     orphans |-> FALSE,  \* for holding the pipes after the exit
     again |-> FALSE,    \* a grace after the kill ran out, the pump goes on
     stop |-> FALSE]     \* its own token was cancelled

Init ==
    /\ cancelled = FALSE
    /\ refusals = 0
    /\ call = NewCall
    /\ loop = [at |-> "guard", step |-> 0]
    /\ batch = << >>
    /\ exec = [c \in Calls |-> [at |-> "idle", kind |-> "none"]]
    /\ log = {}
    /\ history = << >>
    /\ proc = [c \in Calls |-> NoProcess]
=============================================================================
