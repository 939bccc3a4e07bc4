--------------------------- MODULE PermissionRules ---------------------------
(***************************************************************************)
(* How rule files answer a tool call (crates/core/src/permissions/rules.rs *)
(* and Engine::decide of permissions/mod.rs).                              *)
(*                                                                         *)
(* The conditions of a rule (tool, risk, path, command) are abstracted to  *)
(* the set of the requests they hold for; a request keeps what the         *)
(* built-in rules and the modes look at.  A rules file is read as it is at *)
(* the decision: Layer re-reads it when its stamp changed.                 *)
(***************************************************************************)
EXTENDS Integers, Sequences, FiniteSets

Request == [name    : {"read", "write", "run", "fetch"},      \* tells requests apart
            risk    : {"read_only", "write", "execute", "network"},
            outside : BOOLEAN,     \* a path of it is outside the workspace
            fatal   : BOOLEAN]     \* its command is one of CATASTROPHIC

Mutating(req) == req.risk \in {"write", "execute"}

Rule(effect, on) == [effect |-> effect, on |-> on]

\* A layer is one rules file; its default, when it sets one, is deny or ask.
Missing     == [state |-> "missing", rules |-> << >>, default |-> "none"]
Broken      == [state |-> "broken", rules |-> << >>, default |-> "none"]
Loaded(rules, default) ==
    [state |-> "loaded", rules |-> rules, default |-> default]

\* The numbers of the layer's rules that match; the first one counts.
Matches(layer, req) == {i \in 1 .. Len(layer.rules) : req \in layer.rules[i].on}

FirstMatch(layer, req) ==
    layer.rules[CHOOSE i \in Matches(layer, req) :
                   \A j \in Matches(layer, req) : i <= j].effect

Says(layer, req, effect) ==
    Matches(layer, req) # {} /\ FirstMatch(layer, req) = effect

-----------------------------------------------------------------------------

Builtin(req) ==
    IF req.risk = "read_only" /\ ~req.outside THEN "allow"
    ELSE IF req.fatal THEN "deny" ELSE "none"

\* Faulty: the first match of any layer, deny or not, decides.
EvaluateInOrder(layers, req) ==
    LET matching == {i \in 1 .. Len(layers) : Matches(layers[i], req) # {}} IN
    IF matching # {}
    THEN FirstMatch(layers[CHOOSE i \in matching : \A j \in matching : i <= j], req)
    ELSE IF Builtin(req) # "none" THEN Builtin(req) ELSE "ask"

\* Faulty: where there is a workspace the user's own rules are not looked at.
EvaluateWorkspace(layers, req) ==
    IF layers[1].state = "broken" THEN "ask"
    ELSE IF Matches(layers[1], req) # {} THEN FirstMatch(layers[1], req)
    ELSE IF Builtin(req) # "none" THEN Builtin(req)
    ELSE "ask"

\* evaluate: the layers in order, the workspace's file first.
Evaluate(layers, req) ==
    LET matching  == {i \in 1 .. Len(layers) : Matches(layers[i], req) # {}}
        defaulted == {i \in 1 .. Len(layers) : layers[i].default # "none"}
        Highest(is) == layers[CHOOSE i \in is : \A j \in is : i <= j]
    IN  IF \E i \in matching : FirstMatch(layers[i], req) = "deny" THEN "deny"
        ELSE IF \E i \in 1 .. Len(layers) : layers[i].state = "broken" THEN "ask"
        ELSE IF matching # {} THEN FirstMatch(Highest(matching), req)
        ELSE IF Builtin(req) # "none" THEN Builtin(req)
        ELSE IF defaulted # {} THEN Highest(defaulted).default
        ELSE "ask"

-----------------------------------------------------------------------------
(* Engine::decide up to the prompt: who decides and what, or "prompt".     *)

Verdict(decision, source) == [decision |-> decision, source |-> source]

Prompt == Verdict("none", "prompt")

Decide(mode, layers, remembered, req) ==
    IF mode = "plan" /\ Mutating(req) THEN Verdict("deny", "mode")
    ELSE IF Evaluate(layers, req) # "ask" THEN Verdict(Evaluate(layers, req), "rule")
    ELSE IF req \in remembered THEN Verdict("allow", "session")
    ELSE IF mode = "auto" /\ req.risk = "write" /\ ~req.outside
         THEN Verdict("allow", "mode")
    ELSE Prompt

\* What a prompt nobody is attached to answer comes back with.
Headless(policy, req) ==
    Verdict(IF policy = "allow_readonly" /\ req.risk = "read_only"
            THEN "allow" ELSE "deny", "headless")
=============================================================================
