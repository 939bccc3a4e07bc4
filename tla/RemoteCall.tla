----------------------------- MODULE RemoteCall -----------------------------
(***************************************************************************)
(* What a client may rely on: a call is carried out at most once, and what *)
(* it returns is true.  "ok" and "error" say that it was carried out,      *)
(* "refused" that it was not and will not be; of a call whose return is    *)
(* "unknown" (a timeout, a closed connection) nothing is known.            *)
(***************************************************************************)
CONSTANT Requests

VARIABLES
    ran,      \* calls that were carried out
    result    \* how each returned, or "none"

Outcomes == {"ok", "error", "refused", "unknown"}

Init == ran = {} /\ result = [r \in Requests |-> "none"]

CarryOut(r) ==
    /\ r \notin ran
    /\ result[r] \in {"none", "unknown"}
    /\ ran' = ran \cup {r}
    /\ UNCHANGED result

Return(r, how) ==
    /\ result[r] = "none"
    /\ how \in {"ok", "error"} => r \in ran
    /\ how = "refused" => r \notin ran
    /\ result' = [result EXCEPT ![r] = how]
    /\ UNCHANGED ran

Next == \E r \in Requests : CarryOut(r) \/ \E how \in Outcomes : Return(r, how)

Spec == Init /\ [][Next]_<<ran, result>>
=============================================================================
