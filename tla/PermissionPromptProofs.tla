----------------------- MODULE PermissionPromptProofs -----------------------
(***************************************************************************)
(* PermissionPrompt for every value of its constants.  Three invariants: a *)
(* prompt ends with its call, the first answer decides, and nothing that   *)
(* may change something runs without consent.  Two action properties: a    *)
(* deny stands, and a written rule spares the prompts it covers.           *)
(***************************************************************************)
EXTENDS PermissionPrompt, FiniteSetTheorems, TLAPS

-----------------------------------------------------------------------------
(* The inductive invariant.                                                *)

Shape ==
    /\ DOMAIN pc = Calls /\ DOMAIN inbox = Calls /\ DOMAIN verdict = Calls
    /\ DOMAIN remembered = Runs
    /\ pending \subseteq Calls

\* Before its prompt is answered a call has no answer ...
Unanswered ==
    \A c \in Calls : pc[c] = "idle" \/ c \in pending => AcceptedFor(c) = {}

\* ... and what is in its channel is one that was accepted for it.
Delivered == \A c \in Calls : inbox[c] # NoAnswer => inbox[c] \in AcceptedFor(c)

OneAnswer == \A c \in Calls : \A x, y \in AcceptedFor(c) : x = y

\* A decision said to be the user's is an accepted answer's.
ByAnswer ==
    \A c \in Calls :
        verdict[c].source = "user" =>
            \E x \in AcceptedFor(c) :
               verdict[c].decision =
                  IF x.answer \in {"deny_once", "deny_always"} THEN "deny" ELSE "allow"

\* Plan mode never asks about a call that may change something.
AskedOutsidePlan ==
    \A c \in Calls : pc[c] = "asking" => mode[RunOf[c]] # "plan" \/ ~Mutating(Req(c))

\* What a session remembers was allowed by an answer on that session.
Remembered ==
    \A r \in Runs : \A q \in remembered[r] :
        \E x \in accepted :
           RunOf[x.call] = r /\ x.ans.answer = "allow_session" /\ q \in x.ans.on

PromptInv ==
    /\ Shape
    /\ NoPromptOutlivesItsCall
    /\ Unanswered
    /\ Delivered
    /\ OneAnswer
    /\ ByAnswer
    /\ AskedOutsidePlan
    /\ Remembered
    /\ MutatesByConsent

-----------------------------------------------------------------------------

\* The answers of the calls when one more is accepted.
LEMMA AcceptedGrows ==
    ASSUME NEW c \in Calls, NEW x,
           accepted' = accepted \cup {[call |-> c, ans |-> x]}
    PROVE  /\ AcceptedFor(c)' = AcceptedFor(c) \cup {x}
           /\ \A d \in Calls \ {c} : AcceptedFor(d)' = AcceptedFor(d)
<1> DEFINE new == [call |-> c, ans |-> x]
<1>1. \A d \in Calls : \A y :
         y \in AcceptedFor(d) <=> \E z \in accepted : z.call = d /\ y = z.ans
  BY DEF AcceptedFor
<1>2. \A d \in Calls : \A y :
         y \in AcceptedFor(d)' <=> \E z \in accepted' : z.call = d /\ y = z.ans
  BY DEF AcceptedFor
<1>3. \A d \in Calls : \A y :
         y \in AcceptedFor(d)' <=> y \in AcceptedFor(d) \/ (c = d /\ y = x)
  <2>1. new.call = c /\ new.ans = x
    OBVIOUS
  <2> HIDE DEF new
  <2>2. accepted' = accepted \cup {new}
    BY DEF new
  <2> QED
    BY <1>1, <1>2, <2>1, <2>2
<1>4. AcceptedFor(c)' = AcceptedFor(c) \cup {x}
  BY <1>3
<1>5. ASSUME NEW d \in Calls \ {c} PROVE AcceptedFor(d)' = AcceptedFor(d)
  BY <1>3
<1> QED
  BY <1>4, <1>5

LEMMA AcceptedKept ==
    ASSUME UNCHANGED accepted
    PROVE  \A c \in Calls : AcceptedFor(c)' = AcceptedFor(c)
BY DEF AcceptedFor

LEMMA RunOfCalls == \A c \in Calls : RunOf[c] \in Runs
BY RunsAssumption

\* What decide settles by itself.
LEMMA DecideSettles ==
    ASSUME NEW m, NEW layers, NEW rem, NEW q, NEW v,
           v = Decide(m, layers, rem, q)
    PROVE  /\ v.source \in {"mode", "rule", "session", "prompt"}
           /\ v = Prompt \/ v.source # "prompt"
           /\ v.decision = "allow" /\ Mutating(q) =>
                 /\ m # "plan"
                 /\ v.source = "mode" => m = "auto" /\ ~q.outside
                 /\ v.source = "session" => q \in rem
           /\ v = Prompt => m # "plan" \/ ~Mutating(q)
BY DEF Decide, Verdict, Prompt

LEMMA HeadlessSettles ==
    ASSUME NEW policy, NEW q
    PROVE  /\ Headless(policy, q).source = "headless"
           /\ Mutating(q) => Headless(policy, q).decision = "deny"
BY DEF Headless, Verdict, Mutating

-----------------------------------------------------------------------------
(* The steps.                                                              *)

LEMMA InitInv == ASSUME Init PROVE PromptInv
<1>1. accepted = {} => \A c \in Calls : AcceptedFor(c) = {}
  BY DEF AcceptedFor
<1> QED
  BY <1>1, RunOfCalls DEF Init, PromptInv, Shape, NoPromptOutlivesItsCall, Unanswered,
     Delivered, OneAnswer, ByAnswer, AskedOutsidePlan, Remembered, MutatesByConsent,
     Undecided, Verdict, NoAnswer

\* A call is decided with w, goes on to l, and is not waiting any more.
LEMMA SettledInv ==
    ASSUME PromptInv, NEW c \in Calls, NEW w, NEW l \in {"write", "record", "expired"},
           Settle(c, w), Goto(c, l),
           UNCHANGED <<mode, inbox, accepted>>,
           pending' = pending, c \in pending => l = "expired",
           DOMAIN remembered' = Runs, Remembered',
           w.source = "user" =>
              \E x \in AcceptedFor(c) :
                 w.decision = IF x.answer \in {"deny_once", "deny_always"}
                              THEN "deny" ELSE "allow",
           w.decision = "allow" /\ Mutating(Req(c)) =>
              /\ mode[RunOf[c]] # "plan"
              /\ \/ w.source = "rule"
                 \/ w.source = "mode" /\ mode[RunOf[c]] = "auto" /\ ~Req(c).outside
                 \/ w.source = "user" /\ AcceptedFor(c) # {}
                 \/ /\ w.source = "session"
                    /\ \E x \in accepted :
                          /\ RunOf[x.call] = RunOf[c]
                          /\ x.ans.answer = "allow_session"
                          /\ Req(c) \in x.ans.on
    PROVE  PromptInv'
<1> USE DEF PromptInv
<1>1. \A d \in Calls : AcceptedFor(d)' = AcceptedFor(d)
  BY AcceptedKept
<1>2. /\ pc'[c] = l /\ verdict'[c] = w
      /\ \A d \in Calls \ {c} : pc'[d] = pc[d] /\ verdict'[d] = verdict[d]
      /\ Shape'
  BY DEF Shape, Settle, Goto
<1>3. NoPromptOutlivesItsCall'
  BY <1>2 DEF NoPromptOutlivesItsCall, Shape
<1>4. Unanswered' /\ Delivered' /\ OneAnswer'
  BY <1>1, <1>2 DEF Unanswered, Delivered, OneAnswer, NoAnswer, Answer
<1>5. ByAnswer'
  BY <1>1, <1>2 DEF ByAnswer
<1>6. AskedOutsidePlan'
  BY <1>2 DEF AskedOutsidePlan, Req
<1>7. MutatesByConsent'
  BY <1>1, <1>2 DEF MutatesByConsent, Req
<1> QED
  BY <1>2, <1>3, <1>4, <1>5, <1>6, <1>7

\* A call goes on, decided or dropped, and its prompt is gone.
LEMMA MovesInv ==
    ASSUME PromptInv, NEW c \in Calls, NEW l \in {"record", "done", "stopped"},
           Goto(c, l), pending' = pending \ {c},
           UNCHANGED <<mode, remembered, inbox, accepted, verdict>>
    PROVE  PromptInv'
<1> USE DEF PromptInv
<1>1. \A d \in Calls : AcceptedFor(d)' = AcceptedFor(d)
  BY AcceptedKept
<1>2. /\ pc'[c] = l /\ \A d \in Calls \ {c} : pc'[d] = pc[d]
      /\ Shape'
  BY DEF Shape, Goto
<1>3. NoPromptOutlivesItsCall'
  BY <1>2 DEF NoPromptOutlivesItsCall, Shape
<1>4. Unanswered' /\ Delivered' /\ OneAnswer'
  BY <1>1, <1>2 DEF Unanswered, Delivered, OneAnswer, NoAnswer, Answer
<1>5. ByAnswer' /\ MutatesByConsent'
  BY <1>1 DEF ByAnswer, MutatesByConsent, Req
<1>6. AskedOutsidePlan' /\ Remembered'
  BY <1>2 DEF AskedOutsidePlan, Remembered, Req
<1> QED
  BY <1>2, <1>3, <1>4, <1>5, <1>6

LEMMA DecideCallInv ==
    ASSUME PromptInv, NEW c \in Calls, DecideCall(c)
    PROVE  PromptInv'
<1> DEFINE r == RunOf[c]
           v == Decide(mode[r], Layers, remembered[r], Req(c))
<1>1. /\ pc[c] = "idle"
      /\ UNCHANGED <<mode, remembered, inbox, accepted>>
      /\ r \in Runs /\ c \notin pending
  BY RunOfCalls DEF DecideCall, MayStart, PromptInv, NoPromptOutlivesItsCall, broker
<1>2. /\ v.source \in {"mode", "rule", "session", "prompt"}
      /\ v = Prompt \/ v.source # "prompt"
      /\ v.decision = "allow" /\ Mutating(Req(c)) =>
            /\ mode[r] # "plan"
            /\ v.source = "mode" => mode[r] = "auto" /\ ~Req(c).outside
            /\ v.source = "session" => Req(c) \in remembered[r]
      /\ v = Prompt => mode[r] # "plan" \/ ~Mutating(Req(c))
  BY DecideSettles
<1>3. \/ v # Prompt /\ Settle(c, v) /\ Goto(c, "record") /\ UNCHANGED pending
      \/ /\ Settle(c, Headless(HeadlessPolicy, Req(c)))
         /\ Goto(c, "record") /\ UNCHANGED pending
      \/ /\ v = Prompt
         /\ pending' = pending \cup {c} /\ Goto(c, "asking") /\ UNCHANGED verdict
  BY DEF DecideCall
<1> HIDE DEF v
<1>4. DOMAIN remembered' = Runs /\ Remembered'
  BY <1>1 DEF PromptInv, Shape, Remembered
<1>5. CASE v # Prompt /\ Settle(c, v) /\ Goto(c, "record") /\ UNCHANGED pending
  <2>1. Req(c) \in remembered[r] =>
           \E x \in accepted :
              RunOf[x.call] = r /\ x.ans.answer = "allow_session" /\ Req(c) \in x.ans.on
    BY <1>1 DEF PromptInv, Remembered
  <2> QED
    BY <1>1, <1>2, <1>4, <1>5, <2>1, SettledInv
<1>6. CASE /\ Settle(c, Headless(HeadlessPolicy, Req(c)))
           /\ Goto(c, "record") /\ UNCHANGED pending
  <2>1. LET h == Headless(HeadlessPolicy, Req(c)) IN
        h.source = "headless" /\ (Mutating(Req(c)) => h.decision = "deny")
    BY HeadlessSettles
  <2> QED
    BY <1>1, <1>4, <1>6, <2>1, SettledInv
<1>7. CASE /\ v = Prompt
           /\ pending' = pending \cup {c} /\ Goto(c, "asking") /\ UNCHANGED verdict
  <2> USE DEF PromptInv
  <2>1. \A d \in Calls : AcceptedFor(d)' = AcceptedFor(d)
    BY <1>1, AcceptedKept
  <2>2. /\ pc'[c] = "asking" /\ \A d \in Calls \ {c} : pc'[d] = pc[d]
        /\ Shape'
    BY <1>1, <1>7 DEF Shape, Goto
  <2>3. NoPromptOutlivesItsCall'
    BY <1>7, <2>2 DEF NoPromptOutlivesItsCall, Shape
  <2>4. Unanswered' /\ Delivered' /\ OneAnswer'
    BY <1>1, <1>7, <2>1, <2>2 DEF Unanswered, Delivered, OneAnswer, NoAnswer, Answer
  <2>5. ByAnswer' /\ MutatesByConsent'
    BY <1>1, <1>7, <2>1 DEF ByAnswer, MutatesByConsent, Req
  <2>6. AskedOutsidePlan'
    BY <1>1, <1>2, <1>7, <2>2 DEF AskedOutsidePlan, Req
  <2> QED
    BY <1>4, <2>2, <2>3, <2>4, <2>5, <2>6
<1> QED
  BY <1>3, <1>5, <1>6, <1>7

LEMMA TakeAnswerInv ==
    ASSUME PromptInv, NEW c \in Calls, TakeAnswer(c)
    PROVE  PromptInv'
<1> DEFINE x == inbox[c]
           w == Verdict(IF x.answer \in {"deny_once", "deny_always"}
                        THEN "deny" ELSE "allow", "user")
<1>1. /\ pc[c] = "asking" /\ x # NoAnswer
      /\ Settle(c, w)
      /\ Goto(c, "write") \/ Goto(c, "record")
      /\ UNCHANGED <<mode, inbox, accepted, pending>>
  BY DEF TakeAnswer, broker
<1>2. x \in AcceptedFor(c) /\ c \notin pending /\ RunOf[c] \in Runs
  BY <1>1, RunOfCalls DEF PromptInv, Delivered, Unanswered
<1>3. \E z \in accepted : z.call = c /\ z.ans = x
  BY <1>2 DEF AcceptedFor
<1>4. remembered' = IF x.answer = "allow_session"
                    THEN [remembered EXCEPT ![RunOf[c]] = @ \cup x.on]
                    ELSE remembered
  BY DEF TakeAnswer
<1>5. DOMAIN remembered' = Runs /\ Remembered'
  BY <1>1, <1>2, <1>3, <1>4 DEF PromptInv, Shape, Remembered
<1>6. /\ w.source = "user"
      /\ w.decision = IF x.answer \in {"deny_once", "deny_always"} THEN "deny" ELSE "allow"
  BY DEF Verdict
<1>7. Mutating(Req(c)) => mode[RunOf[c]] # "plan"
  BY <1>1 DEF PromptInv, AskedOutsidePlan
<1> HIDE DEF w, x
<1> QED
  BY <1>1, <1>2, <1>5, <1>6, <1>7, SettledInv

LEMMA TimeOutInv ==
    ASSUME PromptInv, NEW c \in Calls, TimeOut(c)
    PROVE  PromptInv'
<1> DEFINE w == Verdict("deny", "timeout")
<1>1. /\ Settle(c, w) /\ Goto(c, "expired")
      /\ UNCHANGED <<mode, remembered, inbox, accepted, pending>>
  BY DEF TimeOut, broker
<1>2. w.source = "timeout" /\ w.decision = "deny"
  BY DEF Verdict
<1>3. DOMAIN remembered' = Runs /\ Remembered'
  BY <1>1 DEF PromptInv, Shape, Remembered
<1> HIDE DEF w
<1> QED
  BY <1>1, <1>2, <1>3, SettledInv

LEMMA EndsInv ==
    ASSUME PromptInv, NEW c \in Calls,
           WriteRule(c) \/ ForgetExpired(c) \/ RecordDecision(c) \/ StopCall(c)
    PROVE  PromptInv'
<1>1. UNCHANGED <<mode, remembered, inbox, accepted, verdict>>
  BY DEF WriteRule, ForgetExpired, RecordDecision, StopCall, broker
<1>2. CASE WriteRule(c) \/ RecordDecision(c)
  <2>1. /\ Goto(c, "record") \/ Goto(c, "done")
        /\ pc[c] \in {"write", "record"} /\ pending' = pending
    BY <1>2 DEF WriteRule, RecordDecision, broker
  <2>2. pending' = pending \ {c}
    BY <2>1 DEF PromptInv, NoPromptOutlivesItsCall
  <2> QED
    BY <1>1, <2>1, <2>2, MovesInv
<1>3. CASE ForgetExpired(c) \/ StopCall(c)
  <2>1. /\ Goto(c, "record") \/ Goto(c, "stopped")
        /\ pending' = pending \ {c}
    BY <1>3 DEF ForgetExpired, StopCall
  <2> QED
    BY <1>1, <2>1, MovesInv
<1> QED
  BY <1>2, <1>3

LEMMA RespondInv ==
    ASSUME PromptInv, NEW c \in Calls, NEW a, NEW on, Respond(c, a, on)
    PROVE  PromptInv'
<1> DEFINE x == Answer(a, on)
<1> USE DEF PromptInv
<1>1. /\ c \in pending /\ pending' = pending \ {c}
      /\ accepted' = accepted \cup {[call |-> c, ans |-> x]}
      /\ inbox' = [inbox EXCEPT ![c] = IF pc[c] = "asking" THEN x ELSE @]
      /\ UNCHANGED <<mode, remembered, pc, verdict>>
  BY DEF Respond
<1> HIDE DEF x
<1>2. /\ AcceptedFor(c)' = AcceptedFor(c) \cup {x}
      /\ \A d \in Calls \ {c} : AcceptedFor(d)' = AcceptedFor(d)
  BY <1>1, AcceptedGrows
<1>3. AcceptedFor(c) = {} /\ pc[c] # "idle"
  BY <1>1 DEF Unanswered, NoPromptOutlivesItsCall
<1>4. Shape' /\ NoPromptOutlivesItsCall' /\ Unanswered'
  BY <1>1, <1>2, <1>3 DEF Shape, NoPromptOutlivesItsCall, Unanswered
<1>5. Delivered'
  <2>1. /\ inbox'[c] = x \/ inbox'[c] = inbox[c]
        /\ \A d \in Calls \ {c} : inbox'[d] = inbox[d]
    BY <1>1 DEF Shape
  <2> QED
    BY <1>2, <2>1 DEF Delivered, NoAnswer, Answer
<1>6. OneAnswer'
  BY <1>2, <1>3 DEF OneAnswer
<1>7. ByAnswer' /\ AskedOutsidePlan'
  BY <1>1, <1>2, <1>3 DEF ByAnswer, AskedOutsidePlan, Req
<1>8. Remembered'
  BY <1>1 DEF Remembered
<1>9. MutatesByConsent'
  BY <1>1, <1>2, <1>3 DEF MutatesByConsent, Req
<1> QED
  BY <1>4, <1>5, <1>6, <1>7, <1>8, <1>9

LEMMA ElsewhereInv ==
    ASSUME PromptInv, UNCHANGED <<mode, remembered, inbox, accepted, pending, pc, verdict>>
    PROVE  PromptInv'
<1> \A d \in Calls : AcceptedFor(d)' = AcceptedFor(d)
  BY AcceptedKept
<1> QED
  BY DEF PromptInv, Shape, NoPromptOutlivesItsCall, Unanswered, Delivered, OneAnswer,
     ByAnswer, AskedOutsidePlan, Remembered, MutatesByConsent, Req, NoAnswer, Answer

LEMMA NextInv == ASSUME PromptInv, [Next]_vars PROVE PromptInv'
<1>1. CASE \E c \in Calls : Proceeds(c)
  BY <1>1, DecideCallInv, TakeAnswerInv, TimeOutInv, EndsInv DEF Proceeds
<1>2. CASE \E c \in Calls, a \in scene.answers, on \in scene.scopes : Respond(c, a, on)
  BY <1>2, RespondInv
<1>3. CASE \/ \E r \in scene.runs : Cancel(r) \/ ToggleListening(r)
           \/ \E f \in {"workspace", "user"}, rule \in scene.edits : ReadForEdit(f, rule)
           \/ WriteEdit \/ Quiescent \/ UNCHANGED vars
  <2>1. UNCHANGED <<mode, remembered, inbox, accepted, pending, pc, verdict>>
    BY <1>3 DEF Cancel, ToggleListening, ReadForEdit, WriteEdit, Quiescent, vars, broker
  <2> QED
    BY <2>1, ElsewhereInv
<1> QED
  BY <1>1, <1>2, <1>3 DEF Next

-----------------------------------------------------------------------------

\* The parts of the invariant hold in every state.
THEOREM PromptsSound == Spec => []PromptInv
<1>1. Init => PromptInv
  BY InitInv
<1>2. PromptInv /\ [Next]_vars => PromptInv'
  BY NextInv
<1> QED
  BY <1>1, <1>2, PTL DEF Spec

\* PermissionBroker and Forget: however a wait ends, its pending entry does
\* not outlive it.
THEOREM PromptsEndWithTheirCalls == Spec => []NoPromptOutlivesItsCall
<1>1. PromptInv => NoPromptOutlivesItsCall
  BY DEF PromptInv
<1> QED
  BY <1>1, PromptsSound, PTL

\* PermissionBroker::respond: one answer at most is accepted for a prompt,
\* and a decision by the user is that answer.
THEOREM TheFirstAnswerDecides == Spec => []FirstAnswerDecides
<1>1. PromptInv => FirstAnswerDecides
  <2> SUFFICES ASSUME PromptInv, NEW c \in Calls
               PROVE  Cardinality(AcceptedFor(c)) <= 1
    BY DEF PromptInv, ByAnswer, FirstAnswerDecides
  <2>1. AcceptedFor(c) = {} \/ \E x \in AcceptedFor(c) : AcceptedFor(c) = {x}
    BY DEF PromptInv, OneAnswer
  <2> QED
    BY <2>1, FS_EmptySet, FS_Singleton
<1> QED
  BY <1>1, PromptsSound, PTL

\* Engine::decide: a call that may change something is allowed by a rule, by
\* auto mode inside the workspace, by its answer or by an earlier answer for
\* the session, and never in plan mode.
THEOREM MutationsAreConsented == Spec => []MutatesByConsent
<1>1. PromptInv => MutatesByConsent
  BY DEF PromptInv
<1> QED
  BY <1>1, PromptsSound, PTL

-----------------------------------------------------------------------------
(* A deny and a file that does not parse.                                  *)

LEMMA EvaluateDenies ==
    ASSUME NEW w, NEW u, NEW q, Says(w, q, "deny") \/ Says(u, q, "deny")
    PROVE  Evaluate(<<w, u>>, q) = "deny"
<1> DEFINE layers == <<w, u>>
           matching == {i \in 1 .. Len(layers) : Matches(layers[i], q) # {}}
<1>1. Len(layers) = 2 /\ layers[1] = w /\ layers[2] = u
  OBVIOUS
<1>2. 1 \in 1 .. 2 /\ 2 \in 1 .. 2
  OBVIOUS
<1> HIDE DEF layers
<1>3. \E i \in matching : FirstMatch(layers[i], q) = "deny"
  BY <1>1, <1>2 DEF Says
<1>4. Evaluate(layers, q) = "deny"
  BY <1>3 DEF Evaluate
<1> QED
  BY <1>4 DEF layers

LEMMA EvaluateBroken ==
    ASSUME NEW w, NEW u, NEW q, w.state = "broken" \/ u.state = "broken"
    PROVE  Evaluate(<<w, u>>, q) \in {"deny", "ask"}
<1> DEFINE layers == <<w, u>>
<1>1. Len(layers) = 2 /\ layers[1] = w /\ layers[2] = u
  OBVIOUS
<1>2. 1 \in 1 .. 2 /\ 2 \in 1 .. 2
  OBVIOUS
<1> HIDE DEF layers
<1>3. \E i \in 1 .. Len(layers) : layers[i].state = "broken"
  BY <1>1, <1>2
<1>4. Evaluate(layers, q) \in {"deny", "ask"}
  BY <1>3 DEF Evaluate
<1> QED
  BY <1>4 DEF layers

\* What decide allows by itself, no file denies, and no rule allows while a
\* file does not parse.
LEMMA DecideAllows ==
    ASSUME NEW c \in Calls, NEW v,
           v = Decide(mode[RunOf[c]], Layers, remembered[RunOf[c]], Req(c)),
           v.decision = "allow" \/ v = Prompt
    PROVE  /\ ~ \E f \in {"workspace", "user"} : Says(file[f], Req(c), "deny")
           /\ v.source = "rule" =>
                 ~ \E f \in {"workspace", "user"} : file[f].state = "broken"
<1>1. (\E f \in {"workspace", "user"} : Says(file[f], Req(c), "deny"))
         => Evaluate(Layers, Req(c)) = "deny"
  BY EvaluateDenies DEF Layers
<1>2. (\E f \in {"workspace", "user"} : file[f].state = "broken")
         => Evaluate(Layers, Req(c)) \in {"deny", "ask"}
  BY EvaluateBroken DEF Layers
<1> QED
  BY <1>1, <1>2 DEF Decide, Verdict, Prompt

\* rules::evaluate and Engine::decide: a call some file denies is allowed by
\* nobody but the user who answers for it, and while a file does not parse no
\* rule allows anything.
THEOREM DeniesHold == Spec => DeniedStaysDenied
<1> DEFINE Holds(c) ==
       verdict[c] = Undecided /\ verdict'[c].decision = "allow" =>
          /\ (\E f \in {"workspace", "user"} : Says(file[f], Req(c), "deny"))
                => verdict'[c].source = "user"
          /\ (\E f \in {"workspace", "user"} : file[f].state = "broken")
                => verdict'[c].source # "rule"
<1>1. ASSUME PromptInv, [Next]_vars, NEW c \in Calls PROVE Holds(c)
  <2>1. CASE verdict'[c] = verdict[c]
    BY <1>1, <2>1 DEF Undecided, Verdict
  <2>2. CASE \E w : Settle(c, w) /\ w.source = "user"
    BY <1>1, <2>2 DEF PromptInv, Shape, Settle
  <2>3. CASE Settle(c, Verdict("deny", "timeout"))
    BY <1>1, <2>3 DEF PromptInv, Shape, Settle, Verdict
  <2>4. CASE DecideCall(c)
    <3> DEFINE v == Decide(mode[RunOf[c]], Layers, remembered[RunOf[c]], Req(c))
    <3>1. \/ v # Prompt /\ Settle(c, v)
          \/ v = Prompt /\ Settle(c, Headless(HeadlessPolicy, Req(c)))
          \/ UNCHANGED verdict
      BY <2>4 DEF DecideCall
    <3>2. v.decision = "allow" \/ v = Prompt =>
            /\ ~ \E f \in {"workspace", "user"} : Says(file[f], Req(c), "deny")
            /\ v.source = "rule" =>
                  ~ \E f \in {"workspace", "user"} : file[f].state = "broken"
      BY DecideAllows
    <3> HIDE DEF v
    <3>3. Headless(HeadlessPolicy, Req(c)).source = "headless"
      BY HeadlessSettles
    <3> QED
      BY <1>1, <2>1, <3>1, <3>2, <3>3 DEF PromptInv, Shape, Settle
  <2>5. CASE \E d \in Calls : DecideCall(d) \/ TakeAnswer(d) \/ TimeOut(d)
    <3>1. PICK d \in Calls : DecideCall(d) \/ TakeAnswer(d) \/ TimeOut(d)
      BY <2>5
    <3>2. CASE d # c
      <4>1. (\E w : Settle(d, w)) \/ UNCHANGED verdict
        BY <3>1 DEF DecideCall, TakeAnswer, TimeOut
      <4> QED
        BY <1>1, <2>1, <3>2, <4>1 DEF PromptInv, Shape, Settle
    <3>3. CASE TakeAnswer(c)
      BY <2>2, <3>3 DEF TakeAnswer, Verdict
    <3>4. CASE TimeOut(c)
      BY <2>3, <3>4 DEF TimeOut
    <3> QED
      BY <2>4, <3>1, <3>2, <3>3, <3>4
  <2>6. CASE ~ \E d \in Calls : DecideCall(d) \/ TakeAnswer(d) \/ TimeOut(d)
    BY <1>1, <2>1, <2>6 DEF Next, Proceeds, WriteRule, ForgetExpired, RecordDecision, StopCall,
       Respond, Cancel, ToggleListening, ReadForEdit, WriteEdit, Quiescent, vars
  <2> QED
    BY <2>5, <2>6
<1>2. PromptInv /\ [Next]_vars => [\A c \in Calls : Holds(c)]_vars
  BY <1>1
<1> QED
  BY <1>2, PromptsSound, PTL DEF Spec, DeniedStaysDenied

-----------------------------------------------------------------------------
(* The prompt that a written rule spares.                                  *)

\* What decides where no file denies and every file parses: the first file with
\* a rule for the request.
LEMMA EvaluateAsks ==
    ASSUME NEW w, NEW u, NEW q, Evaluate(<<w, u>>, q) = "ask",
           w.state # "broken", u.state # "broken",
           Matches(w, q) # {} \/ Matches(u, q) # {}
    PROVE  Says(w, q, "ask") \/ Says(u, q, "ask")
<1> DEFINE layers == <<w, u>>
           matching == {i \in 1 .. Len(layers) : Matches(layers[i], q) # {}}
           first == CHOOSE i \in matching : \A j \in matching : i <= j
<1>1. Len(layers) = 2 /\ layers[1] = w /\ layers[2] = u
  OBVIOUS
<1>2. 1 .. 2 = {1, 2}
  OBVIOUS
<1> HIDE DEF layers
<1>3. matching \subseteq {1, 2} /\ matching # {}
  BY <1>1, <1>2
<1>4. ~ \E i \in 1 .. Len(layers) : layers[i].state = "broken"
  BY <1>1, <1>2
<1>5. FirstMatch(layers[first], q) = "ask"
  BY <1>3, <1>4 DEF Evaluate, layers
<1> HIDE DEF matching
<1>6. \E i \in matching : \A j \in matching : i <= j
  <2>1. CASE 1 \in matching
    <3>1. \A j \in matching : 1 <= j
      BY <1>3
    <3> QED
      BY <2>1, <3>1
  <2>2. CASE 1 \notin matching
    <3>1. matching = {2}
      BY <1>3, <2>2
    <3> QED
      BY <3>1
  <2> QED
    BY <2>1, <2>2
<1>7. first \in matching
  BY <1>6
<1> HIDE DEF first
<1>8. first \in {1, 2} /\ Matches(layers[first], q) # {}
  BY <1>3, <1>7 DEF matching
<1> QED
  BY <1>1, <1>5, <1>8 DEF Says

\* A file with a rule for the request has a match.
LEMMA CoveredMatches ==
    ASSUME NEW layer, NEW q, NEW x, q \in x.on,
           NEW i \in 1 .. Len(layer.rules), layer.rules[i] = RuleOf(x)
    PROVE  Matches(layer, q) # {}
BY DEF Matches, RuleOf, Rule

\* A prompt about a request that some file has a rule for: a file asks, or one
\* does not parse.
LEMMA PromptNeedsAsk ==
    ASSUME NEW m, NEW w, NEW u, NEW rem, NEW q,
           Decide(m, <<w, u>>, rem, q) = Prompt,
           Matches(w, q) # {} \/ Matches(u, q) # {}
    PROVE  \/ Says(w, q, "ask") \/ Says(u, q, "ask")
           \/ w.state = "broken" \/ u.state = "broken"
<1>1. Evaluate(<<w, u>>, q) = "ask"
  BY DEF Decide, Verdict, Prompt
<1> QED
  BY <1>1, EvaluateAsks

TwoFiles == DOMAIN file = {"workspace", "user"}

LEMMA FilesStay == Spec => []TwoFiles
<1>1. Init => TwoFiles
  BY DEF Init, TwoFiles
<1>2. ASSUME [Next]_vars
      PROVE  UNCHANGED file \/ \E f, layer : file' = [file EXCEPT ![f] = layer]
  BY <1>2 DEF Next, Proceeds, DecideCall, TakeAnswer, WriteRule, TimeOut, ForgetExpired,
     RecordDecision, StopCall, Respond, Cancel, ToggleListening, ReadForEdit, WriteEdit,
     Quiescent, vars, files
<1>3. TwoFiles /\ [Next]_vars => TwoFiles'
  BY <1>2 DEF TwoFiles
<1> QED
  BY <1>1, <1>3, PTL DEF Spec

\* Engine::answered and Engine::decide: once the rule of an answer stands in its
\* file, a call it covers is asked about only where a file says to ask or does
\* not parse.
THEOREM WrittenRulesSpare == Spec => AnswerSpares
<1> DEFINE Spares(c, x) ==
       \E f \in DOMAIN file :
          \/ Says(file[f], Req(c), "ask")
          \/ file[f].state = "broken"
          \/ /\ f = Target(x.answer)
             /\ \A i \in 1 .. Len(file[f].rules) : file[f].rules[i] # RuleOf(x)
<1>1. ASSUME TwoFiles, [Next]_vars, NEW c \in pending' \ pending, NEW x, Req(c) \in x.on
      PROVE  Spares(c, x)
  <2>1. pending' = pending \/ (\E d : pending' = pending \ {d})
           \/ \E d \in Calls : /\ pending' = pending \cup {d}
                               /\ Decide(mode[RunOf[d]], Layers, remembered[RunOf[d]], Req(d))
                                     = Prompt
    BY <1>1 DEF Next, Proceeds, DecideCall, TakeAnswer, WriteRule, TimeOut, ForgetExpired,
       RecordDecision, StopCall, Respond, Cancel, ToggleListening, ReadForEdit, WriteEdit,
       Quiescent, vars, broker
  <2>2. Decide(mode[RunOf[c]], Layers, remembered[RunOf[c]], Req(c)) = Prompt
    BY <1>1, <2>1
  <2>3. Target(x.answer) \in {"workspace", "user"}
    BY DEF Target
  <2> DEFINE t == Target(x.answer)
  <2>4. CASE \A i \in 1 .. Len(file[t].rules) : file[t].rules[i] # RuleOf(x)
    BY <1>1, <2>3, <2>4 DEF TwoFiles
  <2>5. CASE \E i \in 1 .. Len(file[t].rules) : file[t].rules[i] = RuleOf(x)
    <3>1. Matches(file[t], Req(c)) # {}
      BY <1>1, <2>5, CoveredMatches
    <3>2. Matches(file["workspace"], Req(c)) # {} \/ Matches(file["user"], Req(c)) # {}
      BY <2>3, <3>1
    <3>3. \/ Says(file["workspace"], Req(c), "ask") \/ Says(file["user"], Req(c), "ask")
          \/ file["workspace"].state = "broken" \/ file["user"].state = "broken"
      BY <2>2, <3>2, PromptNeedsAsk DEF Layers
    <3> QED
      BY <1>1, <3>3 DEF TwoFiles
  <2> QED
    BY <2>4, <2>5
<1> HIDE DEF Spares
<1>2. TwoFiles /\ [Next]_vars
         => [\A c \in pending' \ pending : \A d \in written : \A x \in AcceptedFor(d) :
                Req(c) \in x.on => Spares(c, x)]_vars
  BY <1>1
<1> QED
  BY <1>2, FilesStay, PTL DEF Spec, AnswerSpares, Spares
=============================================================================
