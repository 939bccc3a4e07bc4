----------------------------- MODULE LoopOutline -----------------------------
(***************************************************************************)
(* What a run of the loop promises of the conversation, whatever its calls *)
(* come to: replies and results alternate, the results of a reply are one  *)
(* per tool call, in the order of the calls, and none is claimed to have   *)
(* run that had not been recorded.                                         *)
(***************************************************************************)
EXTENDS Naturals, Sequences

CONSTANT Calls

VARIABLES
    history,   \* [calls, kinds]; a reply has no kinds
    recorded,  \* calls the trace has
    running

\* What a call that ran comes to, and one that may not have.
Ran == {"ok", "error", "timeout"}
Kinds == Ran \cup {"invalid", "denied", "cancelled", "failed"}

\* The last message is a reply whose calls have no results yet.
Open == history # << >> /\ history[Len(history)].kinds = << >>

Init == history = << >> /\ recorded = {} /\ running = TRUE

\* The message a step adds, if it adds one.
Added == history'[Len(history) + 1]
Grows == Len(history') = Len(history) + 1 /\ history' = Append(history, Added)

\* A reply may be the last, with its calls or without.
MentorReplies ==
    /\ running /\ ~ Open
    /\ Grows /\ Added.calls \in Seq(Calls) /\ Added.kinds = << >>
    /\ running' \in BOOLEAN
    /\ UNCHANGED recorded

Records ==
    /\ running
    /\ recorded \subseteq recorded' /\ recorded' \subseteq Calls
    /\ UNCHANGED <<history, running>>

Results ==
    /\ running /\ Open
    /\ Grows /\ Added.calls = history[Len(history)].calls
    /\ Added.kinds \in Seq(Kinds) /\ Len(Added.kinds) = Len(Added.calls)
    /\ \A i \in DOMAIN Added.kinds :
        Added.kinds[i] \in Ran => Added.calls[i] \in recorded
    /\ UNCHANGED <<recorded, running>>

Ends == running /\ ~ running' /\ UNCHANGED <<history, recorded>>

Next == MentorReplies \/ Records \/ Results \/ Ends

Spec == Init /\ [][Next]_<<history, recorded, running>>
=============================================================================
