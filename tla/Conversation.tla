---------------------------- MODULE Conversation ----------------------------
(***************************************************************************)
(* The message history of one session and the table that stores it.        *)
(*                                                                         *)
(* Translated from crates/core/src/runtime/conversation.rs (the history    *)
(* the mentor sees) and crates/core/src/trace/sessions.rs (the             *)
(* session_messages rows it is mirrored to).  A message keeps what the     *)
(* rules of the mentor's API distinguish: who speaks, whether it carries   *)
(* tool calls or their results, and which user texts were merged into it.  *)
(* The executor answers every call of a turn (ToolExecutor), so a message  *)
(* with results answers the whole of the turn before it and the ids of the *)
(* calls need not be told apart.                                           *)
(***************************************************************************)
EXTENDS Integers, Sequences, FiniteSets

CONSTANT Texts    \* the user texts a history may hold: prompts and the
                  \* texts the runtime writes itself

Kinds == {"user",        \* a user turn of texts
          "results",     \* a user turn of tool results, texts may follow
          "assistant",   \* an assistant turn without tool calls
          "tooluse"}     \* an assistant turn that calls tools

Message == [kind : Kinds, texts : SUBSET Texts]
History == Seq(Message)

IsUser(m)      == m.kind \in {"user", "results"}
UserMsg(t)     == [kind |-> "user", texts |-> {t}]
AssistantMsg(calls) == [kind |-> IF calls THEN "tooluse" ELSE "assistant",
                        texts |-> {}]
ResultsMsg     == [kind |-> "results", texts |-> {}]

LastMsg(h) == h[Len(h)]

-----------------------------------------------------------------------------
(* What a run does to the history. *)

\* A user text joins a user turn that is already last: an answer never came
\* (the run failed) or tool results precede it.
PushUserText(h, t) ==
    IF h # << >> /\ IsUser(LastMsg(h))
    THEN [h EXCEPT ![Len(h)].texts = @ \cup {t}]
    ELSE Append(h, UserMsg(t))

PushAssistant(h, calls) == Append(h, AssistantMsg(calls))

PushToolResults(h) == Append(h, ResultsMsg)

\* The last turn called tools nobody answered.
PendingToolUses(h) == h # << >> /\ LastMsg(h).kind = "tooluse"

Repair(h) == IF PendingToolUses(h) THEN SubSeq(h, 1, Len(h) - 1) ELSE h

-----------------------------------------------------------------------------
(* The rules of the API: the roles alternate, tool calls are answered by   *)
(* the next message, results answer the message before, and nothing is     *)
(* left open at the end.                                                   *)

Alternates(h) ==
    \A i \in 1 .. Len(h) - 1 : IsUser(h[i]) # IsUser(h[i + 1])

CallsAnswered(h) ==
    \A i \in 1 .. Len(h) - 1 : h[i].kind = "tooluse" => h[i + 1].kind = "results"

ResultsAnswer(h) ==
    \A i \in 1 .. Len(h) :
        h[i].kind = "results" => i > 1 /\ h[i - 1].kind = "tooluse"

Validate(h) ==
    /\ Alternates(h)
    /\ CallsAnswered(h)
    /\ ResultsAnswer(h)
    /\ ~PendingToolUses(h)

-----------------------------------------------------------------------------
(* The session_messages table: the rows of the session in the order of     *)
(* their seq column, which is the table's key.                             *)

Row   == [seq : Nat, msg : Message]
Table == Seq(Row)

\* How many rows have a seq below n.
RowsBelow(rows, n) == Cardinality({i \in 1 .. Len(rows) : rows[i].seq < n})

\* Insert or update by key.
PutMessage(rows, n, m) ==
    LET k    == RowsBelow(rows, n)
        rest == IF k < Len(rows) /\ rows[k + 1].seq = n THEN k + 2 ELSE k + 1
    IN  SubSeq(rows, 1, k) \o <<[seq |-> n, msg |-> m]>>
            \o SubSeq(rows, rest, Len(rows))

\* Faulty: one row too many goes.
TruncateOneMore(rows, keep) == SubSeq(rows, 1, RowsBelow(rows, keep))

TruncateMessages(rows, keep) == SubSeq(rows, 1, RowsBelow(rows, keep + 1))

\* The history a daemon builds from the rows: positions, not seq numbers.
Stored(rows) == [i \in 1 .. Len(rows) |-> rows[i].msg]

\* The row a message is stored in after a push (Conversation::last_row).
PutLast(rows, h) == PutMessage(rows, Len(h), LastMsg(h))
=============================================================================
