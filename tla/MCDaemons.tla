------------------------------ MODULE MCDaemons ------------------------------
(* Small instances of Daemons for TLC. *)
EXTENDS Daemons, TLC

CONSTANTS one, other

TwoClients == {one, other}
Role(a, j) == [api |-> a, job |-> j]
Scene(r, s, f, a, t, n) ==
    [cast |-> one :> r @@ other :> s, first |-> f, api |-> a, timer |-> t, faults |-> n]
Alone == Role(2, "none")

\* After a crash; an older daemon with two newer clients, or with the older client
\* that spawned it; a daemon told to stop while it is used; one process with
\* everything that may befall it.
Scenes7 ==
    {Scene(Role(2, "look"), Role(2, "run"), "killed", 1, FALSE, 1),
     Scene(Role(2, "look"), Role(2, "look"), "serving", 1, FALSE, 0),
     Scene(Role(1, "run"), Role(2, "look"), "unborn", 1, FALSE, 0),
     Scene(Role(2, "run"), Role(2, "stop"), "serving", 2, FALSE, 1),
     Scene(Role(2, "app"), Role(2, "stop"), "serving", 2, FALSE, 0),
     Scene(Role(2, "run"), Alone, "serving", 1, TRUE, 1),
     Scene(Role(2, "app"), Alone, "unborn", 1, FALSE, 1)}
=============================================================================
