--------------------------- MODULE MCAgentRuntime ---------------------------
(* Small instances of AgentRuntime for TLC. *)
EXTENDS AgentRuntime, TLC

CONSTANTS a1, a2, a3

MCAgents2 == {a1, a2}
MCAgents3 == {a1, a2, a3}

\* Answers, tool turns and the ways a turn is cut off.
RepliesCore ==
    {[stop |-> "end_turn", calls |-> FALSE],
     [stop |-> "tool_use", calls |-> TRUE],
     [stop |-> "max_tokens", calls |-> FALSE],
     [stop |-> "refusal", calls |-> TRUE]}

\* One answer and one tool turn.
RepliesShort ==
    {[stop |-> "end_turn", calls |-> FALSE],
     [stop |-> "tool_use", calls |-> TRUE]}

\* Clients that start a run when the last one has ended, and delete the
\* session between two runs or while one is loading.
OneRun ==
    /\ Cardinality({a \in Agents : pc[a] \in RequestPcs \cup TaskPcs}) <= 1
    /\ admin = "delete" \/ session \in {"deleted", "purged"} =>
           \A a \in Agents : pc[a] \in {"idle", "load"} \cup EndedPcs

Symmetry == Permutations(Agents)
=============================================================================
