------------------------- MODULE MCPermissionPrompt -------------------------
(* Instances of PermissionPrompt for TLC: run r1 makes c1 to c4, run r2     *)
(* makes c5, and each setting leaves some of them to be made.              *)
EXTENDS PermissionPrompt, TLC

CONSTANTS r1, r2, c1, c2, c3, c4, c5

TwoRuns   == {r1, r2}
FiveCalls == {c1, c2, c3, c4, c5}
Owners    == [c \in FiveCalls |-> IF c = c5 THEN r2 ELSE r1]

Req4(name, risk, outside, fatal) ==
    [name |-> name, risk |-> risk, outside |-> outside, fatal |-> fatal]
Fetch       == Req4("fetch", "network", FALSE, FALSE)
ReadOutside == Req4("read", "read_only", TRUE, FALSE)
WriteInside == Req4("write", "write", FALSE, FALSE)
Wipe        == Req4("run", "execute", FALSE, TRUE)

Requests == c1 :> Fetch @@ c2 :> ReadOutside
            @@ c3 :> WriteInside @@ c4 :> Wipe @@ c5 :> WriteInside

With(effect, reqs) == Loaded(<<Rule(effect, reqs)>>, "none")

\* A fetch and a read outside that may wait at once, with clients that leave.
Waiting ==
    [runs |-> {r1}, calls |-> {c1, c2}, modes |-> {"default"},
     user |-> {Missing}, workspace |-> {Missing},
     answers |-> {"allow_session", "deny_always"},
     scopes |-> {{Fetch, ReadOutside}, {}},
     edits |-> {Rule("deny", {Fetch})}, toggles |-> 1]

\* The same write on two sessions, under rules.
TwoSessions ==
    [runs |-> TwoRuns, calls |-> {c3, c5}, modes |-> {"default"},
     user |-> {Missing, Broken, With("deny", {WriteInside}),
               Loaded(<<Rule("ask", {WriteInside})>>, "deny")},
     workspace |-> {Missing, Broken, With("allow", {WriteInside, Wipe})},
     answers |-> {"allow_once", "allow_session", "allow_workspace", "deny_always"},
     scopes |-> {{WriteInside, Wipe}}, edits |-> {}, toggles |-> 0]

\* That write and a catastrophic command on one session in each mode.
EachMode ==
    [TwoSessions EXCEPT !.runs = {r1}, !.calls = {c3, c4},
                        !.modes = {"default", "plan", "auto"},
                        !.edits = {Rule("deny", {WriteInside})}]

ThreeScenes == {Waiting, TwoSessions, EachMode}
=============================================================================
