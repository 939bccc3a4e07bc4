----------------------------- MODULE MCAgentTurn -----------------------------
(* Small instances of AgentTurn for TLC. *)
EXTENDS AgentTurn, TLC

CONSTANTS look, seek, run, serve, keep

FiveCalls == {look, seek, run, serve, keep}
Asks == look :> "read" @@ seek :> "unknown" @@ run :> "shell" @@ serve :> "job"
            @@ keep :> "detached"

Text == [kind |-> "text", id |-> "none", pieces |-> 1, sent |-> 1]
Use(c) == [kind |-> "tool", id |-> c, pieces |-> 2, sent |-> 2]
Cut(c) == [Use(c) EXCEPT !.sent = 1]

\* Replies with tools share an id: a run has one of them.
Answers == {<<Text>>, <<Use(run), Use(look)>>, <<Use(serve), Use(look)>>,
            <<Use(keep), Use(look)>>, <<Use(look), Use(seek)>>, <<Text, Cut(look)>>}

Errs == {[kind |-> "rate_limited", after |-> 2],
         [kind |-> "overloaded", after |-> NoTime],
         [kind |-> "auth", after |-> NoTime]}
=============================================================================
