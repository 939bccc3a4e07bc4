------------------------------ MODULE TraceLog ------------------------------
(***************************************************************************)
(* What the trace writer promises its callers, without queue, batches or   *)
(* thread: a log that commands enter between their call and their return.  *)
(***************************************************************************)
EXTENDS Integers, Sequences

CONSTANTS Callers, MaxCalls

VARIABLES
    log,         \* the commands whose writes are committed
    called,      \* the commands that were given
    returned     \* the answers

vars == <<log, called, returned>>

Logged   == {log[i] : i \in 1 .. Len(log)}
Answered == {a.cmd : a \in returned}

Init == log = << >> /\ called = {} /\ returned = {}

\* A call; one that finds the writer closed returns at once.
Call(cmd) ==
    /\ cmd \notin called
    /\ called' = called \cup {cmd}
    /\ returned' \in {returned, returned \cup {[cmd |-> cmd, ok |-> FALSE]}}
    /\ UNCHANGED log

\* A transaction writes some of the commands nobody has been answered about.
Write ==
    /\ Len(log') > Len(log)
    /\ SubSeq(log', 1, Len(log)) = log
    /\ \A i \in Len(log) + 1 .. Len(log') :
          /\ log'[i] \in called \ Answered
          /\ \A j \in 1 .. i - 1 : log'[j] # log'[i]
    /\ UNCHANGED <<called, returned>>

\* Answers, each once and each the truth.
Return ==
    /\ returned \subseteq returned'
    /\ \A a \in returned' \ returned :
          /\ a.cmd \in called \ Answered
          /\ a.ok <=> a.cmd \in Logged
    /\ UNCHANGED <<log, called>>

Next == (\E cmd \in Callers \X (1 .. MaxCalls) : Call(cmd)) \/ Write \/ Return

Spec == Init /\ [][Next]_vars
=============================================================================
