---------------------------- MODULE TraceWriter ----------------------------
(***************************************************************************)
(* The trace writer (crates/core/src/trace/writer.rs): callers put         *)
(* commands in a bounded queue, one thread takes them out, commits         *)
(* neighbouring appends together, and answers each caller.                 *)
(*                                                                         *)
(* A command is named by who gave it and by its number among that caller's *)
(* commands.  What it writes is one entry of the log.                      *)
(***************************************************************************)
EXTENDS Integers, Sequences, FiniteSets

CONSTANTS
    Callers,         \* the tasks that record something
    Closer,          \* AppState::close
    Ops,             \* what callers do: "append", "run", "append_detached"
    QueueCapacity,   \* QUEUE_CAPACITY
    MaxBatch,        \* MAX_BATCH
    MaxCalls,        \* bound: the commands of one caller
    MaxFailures      \* bound: transactions or events the store refuses

ASSUME CloserAssumption   == Closer \notin Callers
ASSUME OpsAssumption      == Ops \subseteq {"append", "run", "append_detached"}
ASSUME CapacityAssumption == QueueCapacity \in Nat \ {0} /\ MaxBatch \in Nat \ {0}
ASSUME CallsAssumption    == MaxCalls \in Nat /\ MaxFailures \in Nat

Cmd  == [op : Ops, by : Callers, n : 1 .. MaxCalls]
Stop == [op |-> "stop", by |-> Closer, n |-> 1]
Cmds == Cmd \cup {Stop}

VARIABLES
    queue,       \* the channel
    senders,     \* sends that wait for room, in the order of the semaphore
    deferred,    \* detached appends whose task has not run yet
    worker,      \* where the thread is
    batch,       \* the appends it has gathered, or the job it runs
    held,        \* the command that ended the gathering
    outcome,     \* for each command of the batch, whether it is committed
    log,         \* the store: what is committed, in order
    calls,       \* how many calls each caller has made
    awaits,      \* the callers that await a send or an answer
    answers,     \* what the awaited calls returned
    closing,     \* the shutdown: not called, joining the thread, returned
    sent,        \* history: what entered the queue
    failures     \* the bound's counter

channel == <<queue, senders, deferred, sent>>
thread  == <<worker, batch, held, outcome, log, failures>>
clients == <<calls, awaits, answers>>
vars    == <<channel, thread, clients, closing>>

TypeOK ==
    /\ queue \in Seq(Cmds) /\ Len(queue) <= QueueCapacity
    /\ senders \in Seq(Cmds)
    /\ deferred \subseteq Cmd
    /\ worker \in {"receive", "gather", "commit", "answer", "stopped"}
    /\ batch \in Seq(Cmd) /\ Len(batch) <= MaxBatch
    /\ held \in Seq(Cmds) /\ Len(held) <= 1
    /\ outcome \in Seq(BOOLEAN)
    /\ log \in Seq(Cmd)
    /\ calls \in [Callers -> 0 .. MaxCalls]
    /\ awaits \subseteq Callers
    /\ answers \subseteq [cmd : Cmd, says : {"ok", "error", "closed"}]
    /\ closing \in {"no", "join", "done"}
    /\ sent \in Seq(Cmds)
    /\ failures \in 0 .. MaxFailures

Init ==
    /\ queue = << >> /\ senders = << >> /\ deferred = {} /\ sent = << >>
    /\ worker = "receive" /\ batch = << >> /\ held = << >> /\ outcome = << >>
    /\ log = << >> /\ failures = 0
    /\ calls = [c \in Callers |-> 0] /\ awaits = {} /\ answers = {}
    /\ closing = "no"

ToSet(s) == {s[i] : i \in 1 .. Len(s)}

-----------------------------------------------------------------------------
(* The channel (tokio::sync::mpsc): closed once the thread has ended.      *)

Closed == worker = "stopped"

\* Room that no waiting send has been given.
Free == ~Closed /\ Len(queue) + Len(senders) < QueueCapacity

Enqueue(cmd) == queue' = Append(queue, cmd) /\ sent' = Append(sent, cmd)

\* tx.send(cmd).await: into the queue, or behind the waiting sends.
Send(cmd) ==
    IF Free
    THEN Enqueue(cmd) /\ UNCHANGED senders
    ELSE senders' = Append(senders, cmd) /\ UNCHANGED <<queue, sent>>

Answer(cmd, says) == [cmd |-> cmd, says |-> says]

\* Room is given to the waiting sends in their order, but the tasks it is
\* given to may run in any.
Admit ==
    /\ ~Closed
    /\ \E i \in 1 .. Len(senders) :
          /\ i <= QueueCapacity - Len(queue)
          /\ Enqueue(senders[i])
          /\ senders' = [j \in 1 .. Len(senders) - 1 |->
                            IF j < i THEN senders[j] ELSE senders[j + 1]]
    /\ UNCHANGED <<deferred, thread, clients, closing>>

-----------------------------------------------------------------------------
(* The callers. *)

NextCmd(c, op) == [op |-> op, by |-> c, n |-> calls[c] + 1]

MayCall(c) == c \notin awaits /\ calls[c] < MaxCalls

Counted(c) == calls' = [calls EXCEPT ![c] = @ + 1]

\* TraceWriter::append and TraceWriter::run, up to their first await.
Call(c, op) ==
    LET cmd == NextCmd(c, op) IN
    /\ op \in {"append", "run"}
    /\ MayCall(c)
    /\ Counted(c)
    /\ IF Closed
       THEN /\ answers' = answers \cup {Answer(cmd, "closed")}
            /\ UNCHANGED <<awaits, queue, senders, sent>>
       ELSE /\ Send(cmd)
            /\ awaits' = awaits \cup {c}
            /\ UNCHANGED answers
    /\ UNCHANGED <<deferred, thread, closing>>

\* TraceWriter::append_detached returns at once: the event is queued, left
\* to a task when there is no room, or dropped with a warning.
AppendDetached(c) ==
    LET cmd == NextCmd(c, "append_detached") IN
    /\ MayCall(c)
    /\ Counted(c)
    /\ CASE Closed -> UNCHANGED <<queue, sent, deferred>>
         [] Free   -> Enqueue(cmd) /\ UNCHANGED deferred
         [] OTHER  -> deferred' = deferred \cup {cmd} /\ UNCHANGED <<queue, sent>>
    /\ UNCHANGED <<senders, thread, awaits, answers, closing>>

\* The deferred task runs; nobody learns when the writer has closed.
SendDeferred(cmd) ==
    /\ cmd \in deferred
    /\ deferred' = deferred \ {cmd}
    /\ IF Closed THEN UNCHANGED <<queue, senders, sent>> ELSE Send(cmd)
    /\ UNCHANGED <<thread, clients, closing>>

-----------------------------------------------------------------------------
(* The thread (worker_loop, run_batch). *)

IsAppend(cmd) == cmd.op \in {"append", "append_detached"}

\* The loop's next command: the one held back, else the head of the queue.
Incoming == held \o queue

\* The loop's head.
Receive ==
    /\ worker = "receive"
    /\ Incoming # << >>
    /\ Head(Incoming) # Stop
    /\ held' = << >>
    /\ queue' = IF held # << >> THEN queue ELSE Tail(queue)
    /\ batch' = <<Head(Incoming)>>
    /\ worker' = IF IsAppend(Head(Incoming)) THEN "gather" ELSE "commit"
    /\ UNCHANGED <<senders, deferred, sent, outcome, log, failures, clients,
                   closing>>

\* Commands of callers that still await.
Awaited(cmds) == {cmd \in cmds : cmd.by \in awaits /\ cmd.op # "append_detached"}

\* Faulty: the channel stays open when the thread ends.
ReceiveStopOpen ==
    LET dropped == Awaited(ToSet(Tail(Incoming))) IN
    /\ worker = "receive"
    /\ Incoming # << >>
    /\ Head(Incoming) = Stop
    /\ worker' = "stopped"
    /\ held' = << >>
    /\ queue' = << >>
    /\ answers' = answers \cup {Answer(cmd, "closed") : cmd \in dropped}
    /\ awaits' = awaits \ {cmd.by : cmd \in dropped}
    /\ UNCHANGED <<senders, deferred, sent, batch, outcome, log, failures, calls,
                   closing>>

\* Everything behind Stop goes with the channel; so do the answers.
ReceiveStop ==
    LET dropped == Awaited(ToSet(Tail(Incoming)) \cup ToSet(senders)) IN
    /\ worker = "receive"
    /\ Incoming # << >>
    /\ Head(Incoming) = Stop
    /\ worker' = "stopped"
    /\ held' = << >>
    /\ queue' = << >>
    /\ senders' = << >>
    /\ answers' = answers \cup {Answer(cmd, "closed") : cmd \in dropped}
    /\ awaits' = awaits \ {cmd.by : cmd \in dropped}
    /\ UNCHANGED <<deferred, sent, batch, outcome, log, failures, calls, closing>>

\* Faulty: the command that ends the batch is run before the batch.
GatherRunsFirst ==
    /\ worker = "gather"
    /\ worker' = "commit"
    /\ IF queue # << >> /\ ~IsAppend(Head(queue)) /\ Head(queue) # Stop
       THEN queue' = Tail(queue) /\ held' = batch /\ batch' = <<Head(queue)>>
       ELSE UNCHANGED <<queue, held, batch>>
    /\ UNCHANGED <<senders, deferred, sent, outcome, log, failures, clients,
                   closing>>

\* rx.try_recv while the batch has room.
Gather ==
    /\ worker = "gather"
    /\ IF Len(batch) = MaxBatch \/ queue = << >>
       THEN worker' = "commit" /\ UNCHANGED <<queue, batch, held>>
       ELSE /\ queue' = Tail(queue)
            /\ IF IsAppend(Head(queue))
               THEN batch' = Append(batch, Head(queue)) /\ UNCHANGED <<held, worker>>
               ELSE /\ held' = <<Head(queue)>>
                    /\ worker' = "commit"
                    /\ UNCHANGED batch
    /\ UNCHANGED <<senders, deferred, sent, outcome, log, failures, clients,
                   closing>>

\* The commands of the batch that are committed, in order.
Kept(ok) ==
    LET Before(i) == Cardinality({j \in 1 .. i : ok[j]}) IN
    [k \in 1 .. Before(Len(batch)) |->
        batch[CHOOSE i \in 1 .. Len(batch) : ok[i] /\ Before(i) = k]]

\* Faulty: a failing event rolls the batch back, the others are answered as
\* if only it had failed.
CommitAllOrNothing ==
    /\ worker = "commit"
    /\ \E ok \in [1 .. Len(batch) -> BOOLEAN] :
          /\ outcome' = ok
          /\ IF \A i \in 1 .. Len(batch) : ok[i]
             THEN log' = log \o Kept(ok) /\ UNCHANGED failures
             ELSE /\ failures < MaxFailures /\ failures' = failures + 1
                  /\ UNCHANGED log
    /\ worker' = "answer"
    /\ UNCHANGED <<channel, batch, held, clients, closing>>

\* store.append_batch (one transaction, a savepoint for every event: a
\* failing event is rolled back alone, a failing commit rolls back all), or
\* store.append of a single event, or the job.
Commit ==
    /\ worker = "commit"
    /\ \E ok \in [1 .. Len(batch) -> BOOLEAN] :
          /\ outcome' = ok
          /\ log' = log \o Kept(ok)
          /\ IF \A i \in 1 .. Len(batch) : ok[i]
             THEN UNCHANGED failures
             ELSE failures < MaxFailures /\ failures' = failures + 1
    /\ worker' = "answer"
    /\ UNCHANGED <<channel, batch, held, clients, closing>>

\* The replies of the batch; the failure of a detached append is logged.
Reply ==
    LET told == {i \in 1 .. Len(batch) : batch[i].op # "append_detached"} IN
    /\ worker = "answer"
    /\ answers' = answers \cup
          {Answer(batch[i], IF outcome[i] THEN "ok" ELSE "error") : i \in told}
    /\ awaits' = awaits \ {batch[i].by : i \in told}
    /\ batch' = << >>
    /\ outcome' = << >>
    /\ worker' = "receive"
    /\ UNCHANGED <<channel, held, log, failures, calls, closing>>

-----------------------------------------------------------------------------
(* TraceWriter::shutdown. *)

Shutdown ==
    /\ closing = "no"
    /\ closing' = "join"
    /\ Send(Stop)
    /\ UNCHANGED <<deferred, thread, clients>>

\* The thread has been joined.
ShutdownReturns ==
    /\ closing = "join"
    /\ Closed
    /\ closing' = "done"
    /\ UNCHANGED <<channel, thread, clients>>

-----------------------------------------------------------------------------

Work == Receive \/ ReceiveStop \/ Gather \/ Commit \/ Reply

\* No call is left to make, none is open.
Quiescent ==
    /\ closing = "done"
    /\ deferred = {}
    /\ \A c \in Callers : calls[c] = MaxCalls
    /\ UNCHANGED vars

Next ==
    \/ \E c \in Callers, op \in Ops : Call(c, op)
    \/ "append_detached" \in Ops /\ \E c \in Callers : AppendDetached(c)
    \/ \E cmd \in deferred : SendDeferred(cmd)
    \/ Admit
    \/ Work
    \/ Shutdown \/ ShutdownReturns
    \/ Quiescent

\* The thread runs; a task that has been given room runs.
Fairness ==
    /\ WF_vars(Work)
    /\ WF_vars(Admit)
    /\ WF_vars(ShutdownReturns)
    /\ WF_vars(\E cmd \in deferred : SendDeferred(cmd))

Spec == Init /\ [][Next]_vars /\ Fairness

-----------------------------------------------------------------------------
(* Properties. *)

\* What callers are promised (TraceLog): every command is written at most
\* once, not before its call and, when awaited, not after its answer; the
\* answer is ok exactly when it is written, whatever it was batched with.
Log == INSTANCE TraceLog WITH
    log      <- [i \in 1 .. Len(log) |-> <<log[i].by, log[i].n>>],
    called   <- UNION {{c} \X (1 .. calls[c]) : c \in Callers},
    returned <- {[cmd |-> <<a.cmd.by, a.cmd.n>>, ok |-> a.says = "ok"] : a \in answers}

ImplementsLog == Log!Spec

\* writer.rs run: commands are executed in queue order, batched or not; one
\* that failed leaves a gap and nothing else.
LogInOrder ==
    \A i, j \in 1 .. Len(log) : i < j =>
        \E k, l \in 1 .. Len(sent) : k < l /\ sent[k] = log[i] /\ sent[l] = log[j]

\* writer.rs shutdown drains the queue: when it returns, all that was in it
\* before Stop is in the store.
ShutdownDrains ==
    closing = "done" /\ failures = 0 =>
        \A i, j \in 1 .. Len(sent) :
            sent[j] = Stop /\ i < j => sent[i] \in ToSet(log)

\* writer.rs flush (a run that writes nothing): once an awaited command is
\* answered, everything queued before it is in the store too, detached
\* appends included.
AnswerFlushes ==
    failures = 0 =>
        \A a \in answers : a.says = "ok" =>
            \A i, j \in 1 .. Len(sent) :
                sent[j] = a.cmd /\ i < j => sent[i] \in ToSet(log)

\* Every awaited call returns, those caught by the shutdown too.
CallsReturn == \A c \in Callers : c \in awaits ~> c \notin awaits

\* The log is the queue, in its order, and an answer or the end of a shutdown
\* vouches for all that was queued before.
LogKeepsQueue == TypeOK /\ LogInOrder /\ ShutdownDrains /\ AnswerFlushes
=============================================================================
