--------------------------- MODULE AgentTurnProofs ---------------------------
(***************************************************************************)
(* What holds of AgentTurn for every value of its constants: the mentor    *)
(* call keeps to its budget and to what it has shown, the calls of a step  *)
(* keep their order and are told by the trace, commands end with their     *)
(* calls, and the loop keeps the promise of LoopOutline.                   *)
(***************************************************************************)
EXTENDS AgentTurn, SequenceTheorems, TLAPS

-----------------------------------------------------------------------------
(* The mentor call. *)

Part == [got : Nat, done : BOOLEAN]

Typed(asm) == DOMAIN asm = DOMAIN NewAssembler /\ asm.parts \in Seq(Part)

CallOK ==
    /\ DOMAIN call = DOMAIN NewCall
    /\ call.at \in {"none", "request", "send", "stream", "backoff", "note",
                    "wait", "answered", "failed", "broken"}
    /\ call.attempt \in 0 .. MaxRetries
    /\ Typed(call.asm)
    /\ call.waited \in Nat /\ call.wait \in Nat
    /\ call.shown \in Nat /\ call.warned \in Nat
    /\ call.interrupted \in BOOLEAN
    /\ call.at \in {"stream", "answered"} => call.reply \in Replies
    /\ call.at = "backoff" => call.attempt < MaxRetries

\* A wait is allowed for when it is announced.
Budgeted ==
    /\ call.waited <= MaxWait
    /\ call.at \in {"note", "wait"} => call.waited + call.wait <= MaxWait

\* An interruption is the one way content is shown and the call goes on, and
\* it happens once.
Shows ==
    LET again == IF call.interrupted THEN 1 ELSE 0
        open  == IF call.at = "stream" /\ Started(call.asm) THEN 1 ELSE 0
    IN /\ call.at \notin {"answered", "failed", "broken"} => call.shown <= again + open
       /\ call.at = "request" => ~call.interrupted
       /\ \/ call.at \in {"send", "stream", "backoff", "wait"}
          \/ call.at = "note" /\ call.wait # 0
          => (call.interrupted => call.warned >= 1)
       /\ NothingSilentlyRepeated

MentorInv == refusals \in 0 .. MaxRefusals /\ CallOK /\ Budgeted /\ Shows

LEMMA NatConstants ==
    /\ MaxRetries \in Nat /\ MaxWait \in Nat /\ MaxSteps \in Nat /\ MaxFaults \in Nat
    /\ FaultySteps \in Nat /\ MaxRefusals \in Nat /\ MaxOutput \in Nat
    /\ DefaultWait \in Nat
    /\ \A e \in HttpErrors : e.after \in Nat \cup {NoTime}
  BY TurnConstants

LEMMA WaitForType ==
    ASSUME NEW err, err.after \in Nat \cup {NoTime}
    PROVE  WaitFor(err) \in Nat /\ (WaitFor(err) # 0 => err.kind # "interrupted")
<1>1. 0 \in Nat /\ DefaultWait \in Nat
  BY NatConstants
<1>2. WaitFor(err) \in Nat
  BY <1>1, Zenon DEF WaitFor
<1>3. err.kind = "interrupted" => WaitFor(err) = 0
  BY Zenon DEF WaitFor
<1> QED
  BY <1>2, <1>3

LEMMA FeedKeeps ==
    ASSUME NEW asm, NEW e, Typed(asm)
    PROVE  /\ Typed(Feed(asm, e))
           /\ Started(asm) => Started(Feed(asm, e))
           /\ Started(Feed(asm, e)) => Started(asm) \/ e.ev = "start"
           /\ e.ev = "start" => Started(Feed(asm, e))
<1> DEFINE new  == [got |-> 0, done |-> FALSE]
           more == [asm.parts[e.block] EXCEPT !.got = @ + 1]
           last == [asm.parts[e.block] EXCEPT !.done = TRUE]
<1>0. new \in Part
  BY DEF Part
<1>1. \/ Feed(asm, e) = [asm EXCEPT !.parts = Append(@, new)] /\ e.ev = "start"
      \/ Feed(asm, e) = [asm EXCEPT !.parts[e.block].got = @ + 1] /\ e.ev # "start"
      \/ Feed(asm, e) = [asm EXCEPT !.parts[e.block].done = TRUE] /\ e.ev # "start"
      \/ Feed(asm, e) = [asm EXCEPT !.finished = TRUE] /\ e.ev # "start"
  <2>1. CASE e.ev = "start"
    BY <2>1, Zenon DEF Feed
  <2>2. CASE e.ev # "start"
    BY <2>2, Zenon DEF Feed
  <2> QED
    BY <2>1, <2>2
<1>2. ASSUME NEW p, Feed(asm, e) = [asm EXCEPT !.parts = p], p \in Seq(Part),
             asm.parts # << >> => p # << >>, p # << >> => asm.parts # << >> \/ e.ev = "start",
             e.ev = "start" => p # << >>
      PROVE  /\ Typed(Feed(asm, e))
             /\ Started(asm) => Started(Feed(asm, e))
             /\ Started(Feed(asm, e)) => Started(asm) \/ e.ev = "start"
             /\ e.ev = "start" => Started(Feed(asm, e))
  BY <1>2 DEF Typed, Started, NewAssembler
<1>3. CASE Feed(asm, e) = [asm EXCEPT !.parts = Append(@, new)] /\ e.ev = "start"
  <2>1. Append(asm.parts, new) \in Seq(Part) /\ Append(asm.parts, new) # << >>
    BY <1>0, AppendProperties DEF Typed
  <2>2. Feed(asm, e) = [asm EXCEPT !.parts = Append(asm.parts, new)]
    BY <1>3 DEF Typed, NewAssembler
  <2> QED
    BY <1>2, <1>3, <2>1, <2>2
<1>4. ASSUME NEW x, Feed(asm, e) = [asm EXCEPT !.parts = [@ EXCEPT ![e.block] = x]],
             e.block \in DOMAIN asm.parts => x \in Part, e.ev # "start"
      PROVE  /\ Typed(Feed(asm, e))
             /\ Started(asm) => Started(Feed(asm, e))
             /\ Started(Feed(asm, e)) => Started(asm) \/ e.ev = "start"
             /\ e.ev = "start" => Started(Feed(asm, e))
  <2> DEFINE p == [asm.parts EXCEPT ![e.block] = x]
  <2>1. Feed(asm, e) = [asm EXCEPT !.parts = p]
    BY <1>4 DEF Typed, NewAssembler
  <2>2. CASE e.block \in DOMAIN asm.parts
    <3>1. e.block \in 1 .. Len(asm.parts) /\ asm.parts \in Seq(Part)
      BY <2>2, LenProperties DEF Typed
    <3>2. p \in Seq(Part) /\ Len(p) = Len(asm.parts)
      BY <1>4, <2>2, <3>1, ExceptSeq
    <3>3. p # << >> /\ asm.parts # << >>
      BY <3>1, <3>2, EmptySeq
    <3> QED
      BY <1>2, <1>4, <2>1, <3>2, <3>3
  <2>3. CASE e.block \notin DOMAIN asm.parts
    <3>1. p = asm.parts
      <4>1. asm.parts \in [1 .. Len(asm.parts) -> Part] /\ DOMAIN asm.parts = 1 .. Len(asm.parts)
        BY LenProperties DEF Typed
      <4> QED
        BY <2>3, <4>1
    <3> QED
      BY <1>2, <1>4, <2>1, <3>1 DEF Typed
  <2> QED
    BY <2>2, <2>3
<1>5. e.block \in DOMAIN asm.parts => asm.parts[e.block] \in Part
  BY ElementOfSeq, LenProperties DEF Typed
<1>6. CASE Feed(asm, e) = [asm EXCEPT !.parts[e.block].got = @ + 1] /\ e.ev # "start"
  <2>1. e.block \in DOMAIN asm.parts => more \in Part
    BY <1>5 DEF Part
  <2>2. Feed(asm, e) = [asm EXCEPT !.parts = [@ EXCEPT ![e.block] = more]]
    BY <1>6 DEF Typed, NewAssembler
  <2> QED
    BY <1>4, <1>6, <2>1, <2>2
<1>7. CASE Feed(asm, e) = [asm EXCEPT !.parts[e.block].done = TRUE] /\ e.ev # "start"
  <2>1. e.block \in DOMAIN asm.parts => last \in Part
    BY <1>5 DEF Part
  <2>2. Feed(asm, e) = [asm EXCEPT !.parts = [@ EXCEPT ![e.block] = last]]
    BY <1>7 DEF Typed, NewAssembler
  <2> QED
    BY <1>4, <1>7, <2>1, <2>2
<1>8. CASE Feed(asm, e) = [asm EXCEPT !.finished = TRUE] /\ e.ev # "start"
  BY <1>8 DEF Typed, Started, NewAssembler
<1> QED
  BY <1>1, <1>3, <1>6, <1>7, <1>8

\* What call' is, but for its faults, from the record r it is set to.
LEMMA FieldsOf ==
    ASSUME NEW r, NEW f, DOMAIN r = DOMAIN NewCall,
           call' = r \/ call' = [r EXCEPT !.faults = f]
    PROVE  /\ DOMAIN call' = DOMAIN NewCall
           /\ call'.at = r.at /\ call'.attempt = r.attempt /\ call'.asm = r.asm
           /\ call'.reply = r.reply /\ call'.waited = r.waited /\ call'.wait = r.wait
           /\ call'.shown = r.shown /\ call'.warned = r.warned
           /\ call'.interrupted = r.interrupted
<1>1. CASE call' = r
  BY <1>1
<1>2. CASE call' = [r EXCEPT !.faults = f]
  BY <1>2 DEF NewCall
<1> QED
  BY <1>1, <1>2

\* An attempt that ends after content was shown is not tried again in silence.
LEMMA ReturnedStep ==
    ASSUME MentorInv, NEW err, err.after \in Nat \cup {NoTime}, NEW f,
           call' = Returned(err) \/ call' = [Returned(err) EXCEPT !.faults = f],
           call.at \in {"send", "stream", "backoff"},
           call.at = "stream" /\ Started(call.asm) =>
               err.kind \in {"interrupted", "protocol", "cancelled"}
    PROVE  (CallOK /\ Budgeted /\ Shows)' /\ call'.at \in {"failed", "note"}
<1> USE DEF MentorInv, CallOK, NewCall, NothingSilentlyRepeated
<1>1. CASE GivesUp(err)
  <2>1. Returned(err) = [call EXCEPT !.at = "failed", !.err = err]
    BY <1>1 DEF Returned
  <2>2. /\ DOMAIN call' = DOMAIN NewCall /\ call'.at = "failed"
        /\ call'.attempt = call.attempt /\ call'.asm = call.asm
        /\ call'.waited = call.waited /\ call'.wait = call.wait /\ call'.shown = call.shown
        /\ call'.warned = call.warned /\ call'.interrupted = call.interrupted
    <3>1. /\ DOMAIN Returned(err) = DOMAIN NewCall /\ Returned(err).at = "failed"
          /\ Returned(err).attempt = call.attempt /\ Returned(err).asm = call.asm
          /\ Returned(err).waited = call.waited /\ Returned(err).wait = call.wait /\ Returned(err).shown = call.shown
          /\ Returned(err).warned = call.warned /\ Returned(err).interrupted = call.interrupted
      BY <2>1
    <3> QED
      BY <3>1, FieldsOf
  <2> QED
    BY <2>2 DEF Budgeted, Shows
<1>2. CASE ~GivesUp(err)
  <2>1. Returned(err) = [call EXCEPT !.at = "note", !.err = err, !.wait = WaitFor(err),
                                     !.interrupted = @ \/ err.kind = "interrupted"]
    BY <1>2 DEF Returned
  <2>2. /\ DOMAIN call' = DOMAIN NewCall /\ call'.at = "note"
        /\ call'.attempt = call.attempt /\ call'.asm = call.asm
        /\ call'.waited = call.waited /\ call'.wait = WaitFor(err)
        /\ call'.shown = call.shown /\ call'.warned = call.warned
        /\ call'.interrupted \in BOOLEAN
        /\ call'.interrupted <=> (call.interrupted \/ err.kind = "interrupted")
    <3>1. /\ DOMAIN Returned(err) = DOMAIN NewCall /\ Returned(err).at = "note"
          /\ Returned(err).attempt = call.attempt /\ Returned(err).asm = call.asm
          /\ Returned(err).waited = call.waited /\ Returned(err).wait = WaitFor(err)
          /\ Returned(err).shown = call.shown /\ Returned(err).warned = call.warned
          /\ Returned(err).interrupted = (call.interrupted \/ err.kind = "interrupted")
      BY <2>1
    <3> QED
      BY <3>1, FieldsOf
  <2>3. /\ WaitFor(err) \in Nat /\ MaxWait \in Nat
        /\ WaitFor(err) # 0 => err.kind # "interrupted"
    BY WaitForType, NatConstants
  <2>4. CallOK'
    BY <2>2, <2>3
  <2>5. Budgeted'
    BY <1>2, <2>2, <2>3 DEF Budgeted, GivesUp
  <2>6. err.kind # "protocol" /\ err.kind # "cancelled" /\ ~(err.kind = "interrupted" /\ call.interrupted)
    BY <1>2 DEF GivesUp
  <2>7. Shows'
    BY <2>2, <2>3, <2>4, <2>6 DEF Shows
  <2> QED
    BY <2>2, <2>4, <2>5, <2>7
<1> QED
  BY <1>1, <1>2

LEMMA AttemptedStep ==
    ASSUME MentorInv, NEW err, err.after \in Nat \cup {NoTime}, NEW f,
           call' = Attempted(err) \/ call' = [Attempted(err) EXCEPT !.faults = f],
           call.at \in {"send", "stream"},
           call.at = "stream" /\ Started(call.asm) => err.kind \in {"interrupted", "protocol"}
    PROVE  (CallOK /\ Budgeted /\ Shows)' /\ call'.at \in {"failed", "note", "backoff"}
<1> USE DEF MentorInv, CallOK, NewCall
<1>1. CASE Retries(err)
  <2>1. Attempted(err) = [call EXCEPT !.at = "backoff", !.err = err]
    BY <1>1 DEF Attempted
  <2>2. /\ DOMAIN call' = DOMAIN NewCall /\ call'.at = "backoff"
        /\ call'.attempt = call.attempt /\ call'.asm = call.asm
        /\ call'.waited = call.waited /\ call'.wait = call.wait /\ call'.shown = call.shown
        /\ call'.warned = call.warned /\ call'.interrupted = call.interrupted
    <3>1. /\ DOMAIN Attempted(err) = DOMAIN NewCall /\ Attempted(err).at = "backoff"
          /\ Attempted(err).attempt = call.attempt /\ Attempted(err).asm = call.asm
          /\ Attempted(err).waited = call.waited /\ Attempted(err).wait = call.wait /\ Attempted(err).shown = call.shown
          /\ Attempted(err).warned = call.warned /\ Attempted(err).interrupted = call.interrupted
      BY <2>1
    <3> QED
      BY <3>1, FieldsOf
  <2>3. ~(call.at = "stream" /\ Started(call.asm))
    BY <1>1 DEF Retries, IsRetryable
  <2>4. CallOK' /\ Budgeted'
    BY <1>1, <2>2 DEF Budgeted, Retries
  <2>5. Shows'
    BY <2>2, <2>3 DEF Shows, NothingSilentlyRepeated
  <2> QED
    BY <2>2, <2>4, <2>5
<1>2. CASE ~Retries(err)
  <2>1. Attempted(err) = Returned(err)
    BY <1>2 DEF Attempted
  <2>2. call.at \in {"send", "stream", "backoff"}
    OBVIOUS
  <2>3. call' = Returned(err) \/ call' = [Returned(err) EXCEPT !.faults = f]
    BY <2>1
  <2>4. call.at = "stream" /\ Started(call.asm) =>
            err.kind \in {"interrupted", "protocol", "cancelled"}
    OBVIOUS
  <2> QED
    BY <2>2, <2>3, <2>4, ReturnedStep
<1> QED
  BY <1>1, <1>2

LEMMA ErrType == ASSUME NEW k PROVE Err(k).after \in Nat \cup {NoTime} /\ Err(k).kind = k
  BY DEF Err

LEMMA MentorStepsInv ==
    ASSUME MentorInv, MentorSteps
    PROVE  MentorInv'
<1> USE DEF MentorInv
<1>1. refusals' \in 0 .. MaxRefusals
  <2>1. \A from, next : Record(from, next) => Stored \/ Refused
    BY DEF Record
  <2>2. UNCHANGED refusals \/ Refused
    BY <2>1 DEF MentorSteps, RecordRequest, NoteError, Waited, CancelWait, Answered,
       Rejected, Receive, Break, BackedOff, CancelAttempt, Stored
  <2> QED
    BY <2>2, NatConstants DEF Refused
<1>2. CASE Answered
  <2>1. PICK r \in Replies : call' = [call EXCEPT !.at = "stream", !.reply = r, !.pos = 0,
                                                  !.asm = NewAssembler]
    BY <1>2 DEF Answered
  <2>2. Typed(NewAssembler) /\ ~Started(NewAssembler)
    BY EmptySeq DEF Typed, NewAssembler, Started
  <2>3. /\ DOMAIN call' = DOMAIN call /\ call'.at = "stream"
        /\ call'.attempt = call.attempt /\ call'.asm = NewAssembler /\ call'.reply = r
        /\ call'.waited = call.waited /\ call'.wait = call.wait /\ call'.shown = call.shown
        /\ call'.warned = call.warned /\ call'.interrupted = call.interrupted
    BY <2>1 DEF CallOK, NewCall
  <2>4. call.at = "send"
    BY <1>2 DEF Answered
  <2>5. CallOK' /\ Budgeted'
    BY <2>2, <2>3 DEF CallOK, Budgeted
  <2>6. Shows'
    BY <2>2, <2>3, <2>4 DEF Shows, CallOK, NothingSilentlyRepeated
  <2> QED
    BY <1>1, <2>5, <2>6
<1>3. CASE Rejected
  <2>1. PICK e \in HttpErrors : call' = [Attempted(e) EXCEPT !.faults = @ + 1]
    BY <1>3 DEF Rejected
  <2>2. e.after \in Nat \cup {NoTime}
    BY NatConstants
  <2>3. call.at = "send" /\ call' = [Attempted(e) EXCEPT !.faults = Attempted(e).faults + 1]
    BY <1>3, <2>1 DEF Rejected
  <2>4. (CallOK /\ Budgeted /\ Shows)'
    BY <2>2, <2>3, AttemptedStep
  <2> QED
    BY <1>1, <2>4
<1>4. CASE Receive
  <2> DEFINE e == EventsOf(call.reply)[call.pos + 1]
             next == [call EXCEPT !.pos = @ + 1, !.asm = Feed(@, e)]
  <2>1. call.at = "stream"
    BY <1>4 DEF Receive
  <2>2. CASE call' = Attempted(Err("protocol"))
    <3>1. (CallOK /\ Budgeted /\ Shows)'
      BY <2>1, <2>2, ErrType, AttemptedStep
    <3> QED
      BY <1>1, <3>1
  <2>3. CASE \/ call' = [next EXCEPT !.at = "answered"]
             \/ call' = [next EXCEPT !.shown = @ + 1] /\ ~Started(call.asm) /\ e.ev = "start"
             \/ call' = next /\ (Started(call.asm) \/ e.ev # "start")
    <3>1. /\ Typed(Feed(call.asm, e))
          /\ Started(call.asm) => Started(Feed(call.asm, e))
          /\ Started(Feed(call.asm, e)) => Started(call.asm) \/ e.ev = "start"
          /\ e.ev = "start" => Started(Feed(call.asm, e))
      BY FeedKeeps DEF CallOK
    <3> DEFINE asm == Feed(call.asm, e)
    <3>2. /\ DOMAIN next = DOMAIN NewCall /\ next.at = "stream"
          /\ next.attempt = call.attempt /\ next.asm = asm /\ next.reply = call.reply
          /\ next.waited = call.waited /\ next.wait = call.wait /\ next.shown = call.shown
          /\ next.warned = call.warned /\ next.interrupted = call.interrupted
      BY <2>1 DEF CallOK, NewCall
    <3> HIDE DEF next, asm, e
    <3>3. /\ DOMAIN call' = DOMAIN NewCall /\ call'.attempt = call.attempt
          /\ call'.asm = asm /\ call'.reply = call.reply
          /\ call'.waited = call.waited /\ call'.wait = call.wait
          /\ call'.warned = call.warned /\ call'.interrupted = call.interrupted
          /\ \/ call'.at = "answered" /\ call'.shown = call.shown
             \/ call'.at = "stream" /\ call'.shown = call.shown + 1 /\ ~Started(call.asm) /\ e.ev = "start"
             \/ /\ call'.at = "stream" /\ call'.shown = call.shown
                /\ Started(call.asm) \/ e.ev # "start"
      BY <2>3, <3>2 DEF NewCall
    <3>4. CallOK' /\ Budgeted'
      BY <2>1, <3>1, <3>3 DEF CallOK, Budgeted, asm
    <3>5. Shows'
      BY <2>1, <3>1, <3>3 DEF CallOK, Shows, NothingSilentlyRepeated, asm
    <3> QED
      BY <1>1, <3>4, <3>5
  <2> QED
    BY <1>4, <2>2, <2>3 DEF Receive
<1>5. CASE Break
  <2> DEFINE err == Err(IF Started(call.asm) THEN "interrupted" ELSE "disconnected")
  <2>1. call.at = "stream" /\ call' = [Attempted(err) EXCEPT !.faults = Attempted(err).faults + 1]
    BY <1>5 DEF Break
  <2>2. err.after \in Nat \cup {NoTime} /\ (Started(call.asm) => err.kind = "interrupted")
    BY ErrType
  <2> HIDE DEF err
  <2>3. (CallOK /\ Budgeted /\ Shows)'
    BY <2>1, <2>2, AttemptedStep
  <2> QED
    BY <1>1, <2>3
<1>6. CASE BackedOff
  <2>1. call.at = "backoff" /\ call' = [call EXCEPT !.at = "send", !.attempt = @ + 1]
    BY <1>6 DEF BackedOff
  <2>2. /\ DOMAIN call' = DOMAIN NewCall /\ call'.at = "send"
        /\ call'.attempt = call.attempt + 1 /\ call'.asm = call.asm
        /\ call'.waited = call.waited /\ call'.wait = call.wait /\ call'.shown = call.shown
        /\ call'.warned = call.warned /\ call'.interrupted = call.interrupted
    BY <2>1 DEF CallOK, NewCall
  <2>3. CallOK' /\ Budgeted'
    BY <2>1, <2>2, NatConstants DEF CallOK, Budgeted
  <2>4. Shows'
    BY <2>1, <2>2 DEF CallOK, Shows, NothingSilentlyRepeated
  <2> QED
    BY <1>1, <2>3, <2>4
<1>7. CASE CancelAttempt
  <2>1. call.at \in {"send", "stream", "backoff"} /\ call' = Returned(Err("cancelled"))
    BY <1>7 DEF CancelAttempt
  <2>2. (CallOK /\ Budgeted /\ Shows)'
    BY <2>1, ErrType, ReturnedStep
  <2> QED
    BY <1>1, <2>2
<1>8. CASE RecordRequest
  <2>1. /\ call.at = "request"
        /\ \E l \in {"send", "broken"} : call' = [call EXCEPT !.at = l]
    BY <1>8 DEF RecordRequest, Record
  <2>2. /\ DOMAIN call' = DOMAIN NewCall /\ call'.at \in {"send", "broken"}
        /\ call'.attempt = call.attempt /\ call'.asm = call.asm
        /\ call'.waited = call.waited /\ call'.wait = call.wait /\ call'.shown = call.shown
        /\ call'.warned = call.warned /\ call'.interrupted = call.interrupted
    BY <2>1 DEF CallOK, NewCall
  <2>3. CallOK' /\ Budgeted'
    BY <2>1, <2>2, NatConstants DEF CallOK, Budgeted
  <2>4. Shows'
    BY <2>1, <2>2 DEF CallOK, Shows, NothingSilentlyRepeated
  <2> QED
    BY <1>1, <2>3, <2>4
<1>9. CASE NoteError
  <2>1. /\ call.at = "note"
        /\ \/ call' = [call EXCEPT !.at = "broken"]
           \/ call' = [call EXCEPT !.at = "wait"] /\ call.wait # 0
           \/ call' = [Again EXCEPT !.warned = @ + 1]
    BY <1>9 DEF NoteError, Record
  <2>2. /\ DOMAIN call' = DOMAIN NewCall /\ call'.asm = call.asm
        /\ call'.waited = call.waited /\ call'.wait = call.wait /\ call'.shown = call.shown
        /\ call'.interrupted = call.interrupted
        /\ \/ /\ call'.warned = call.warned /\ call'.attempt = call.attempt
              /\ call'.at = "broken" \/ (call'.at = "wait" /\ call.wait # 0)
           \/ call'.warned = call.warned + 1 /\ call'.attempt = 0 /\ call'.at = "send"
    BY <2>1 DEF Again, CallOK, NewCall
  <2>3. CallOK' /\ Budgeted'
    BY <2>1, <2>2, NatConstants DEF CallOK, Budgeted
  <2>4. Shows'
    BY <2>1, <2>2 DEF CallOK, Shows, NothingSilentlyRepeated
  <2> QED
    BY <1>1, <2>3, <2>4
<1>10. CASE Waited
  <2>1. call.at = "wait" /\ call' = [Again EXCEPT !.waited = @ + call.wait]
    BY <1>10 DEF Waited
  <2>2. /\ DOMAIN call' = DOMAIN NewCall /\ call'.asm = call.asm
        /\ call'.waited = call.waited + call.wait /\ call'.wait = call.wait
        /\ call'.shown = call.shown /\ call'.warned = call.warned
        /\ call'.interrupted = call.interrupted /\ call'.attempt = 0 /\ call'.at = "send"
    BY <2>1 DEF Again, CallOK, NewCall
  <2>3. CallOK' /\ Budgeted'
    BY <2>1, <2>2, NatConstants DEF CallOK, Budgeted
  <2>4. Shows'
    BY <2>1, <2>2 DEF CallOK, Shows, NothingSilentlyRepeated
  <2> QED
    BY <1>1, <2>3, <2>4
<1>11. CASE CancelWait
  <2>1. call.at = "wait" /\ call' = [call EXCEPT !.at = "failed", !.err = Err("cancelled")]
    BY <1>11 DEF CancelWait
  <2>2. /\ DOMAIN call' = DOMAIN NewCall /\ call'.at = "failed"
        /\ call'.attempt = call.attempt /\ call'.asm = call.asm
        /\ call'.waited = call.waited /\ call'.wait = call.wait /\ call'.shown = call.shown
        /\ call'.warned = call.warned /\ call'.interrupted = call.interrupted
    BY <2>1 DEF CallOK, NewCall
  <2>3. CallOK' /\ Budgeted'
    BY <2>1, <2>2 DEF CallOK, Budgeted
  <2>4. Shows'
    BY <2>1, <2>2 DEF CallOK, Shows, NothingSilentlyRepeated
  <2> QED
    BY <1>1, <2>3, <2>4
<1> QED
  BY <1>2, <1>3, <1>4, <1>5, <1>6, <1>7, <1>8, <1>9, <1>10, <1>11 DEF MentorSteps

-----------------------------------------------------------------------------
(* The commands of the shell calls. *)

Process ==
    [at : {"none", "pumped", "ended"}, child : BOOLEAN, mute : BOOLEAN, kid : BOOLEAN,
     stray : BOOLEAN, wrote : 0 .. MaxOutput, unread : Nat, sunk : Nat, seen : BOOLEAN,
     ended : {"none", "exited", "timeout", "killed", "dropped"}, armed : BOOLEAN,
     killed : BOOLEAN, orphans : BOOLEAN, again : BOOLEAN, stop : BOOLEAN]

\* No chunk is lost between its pipe and the transcript.
Counts(p) == p.unread + p.sunk = p.wrote

\* A command that ended has an end; one that exited is pumped dry.
Ends(p) ==
    /\ p.at = "ended" => p.ended # "none"
    /\ p.ended = "exited" => p.at = "ended" /\ p.unread = 0

Recorded(c) == <<"call", c>> \in log

ProcOK ==
    /\ proc \in [Calls -> Process]
    /\ \A c \in Calls : Counts(proc[c]) /\ Ends(proc[c])

\* A shell call's command is pumped while the call runs, and only then has
\* processes; a job's call does not wait for its command.
CommandsFit ==
    \A c \in Calls :
        /\ proc[c].at # "none" => c \in Commands /\ Recorded(c)
        /\ ToolOf[c] = "shell" =>
              IF Pumping(c) THEN exec[c].at = "run" ELSE ~proc[c].child /\ ~proc[c].kid
        /\ c \in Commands /\ exec[c].at = "run" =>
              ToolOf[c] = "shell" /\ proc[c].ended # "dropped"

LEMMA ProcessTypes ==
    /\ NoProcess \in Process /\ Counts(NoProcess) /\ Ends(NoProcess)
    /\ \A s \in Shapes : LET p == Spawned(s) IN
           p \in Process /\ Counts(p) /\ Ends(p) /\ p.at = "pumped" /\ p.ended = "none"
<1>1. 0 \in 0 .. MaxOutput
  BY NatConstants
<1>2. NoProcess \in Process /\ Counts(NoProcess) /\ Ends(NoProcess)
  BY <1>1 DEF NoProcess, Process, Counts, Ends
<1>3. ASSUME NEW s \in Shapes
      PROVE  /\ Spawned(s) \in Process /\ Counts(Spawned(s)) /\ Ends(Spawned(s))
             /\ Spawned(s).at = "pumped" /\ Spawned(s).ended = "none"
  <2>1. PICK k \in BOOLEAN, x \in BOOLEAN, m \in BOOLEAN :
            Spawned(s) = [NoProcess EXCEPT !.at = "pumped", !.child = TRUE, !.kid = k,
                                           !.stray = x, !.mute = m]
    BY DEF Spawned
  <2> DEFINE p == Spawned(s)
             q == NoProcess
  <2>2. q \in Process /\ q.ended = "none" /\ q.unread + q.sunk = q.wrote
    BY <1>2 DEF NoProcess, Counts
  <2> HIDE DEF q
  <2>3. p = [q EXCEPT !.at = "pumped", !.child = TRUE, !.kid = k, !.stray = x, !.mute = m]
    BY <2>1 DEF q
  <2> HIDE DEF p
  <2>4. p \in Process
    <3> DEFINE q1 == [q EXCEPT !.at = "pumped", !.child = TRUE]
               q2 == [q1 EXCEPT !.kid = k]
               q3 == [q2 EXCEPT !.stray = x]
    <3>1. q1 \in Process
      BY <2>2 DEF Process
    <3>2. p = [q3 EXCEPT !.mute = m]
      BY <2>2, <2>3 DEF Process
    <3> HIDE DEF q1
    <3>3. q2 \in Process
      BY <3>1 DEF Process
    <3> HIDE DEF q2
    <3>4. q3 \in Process
      BY <3>3 DEF Process
    <3> HIDE DEF q3
    <3> QED
      BY <3>2, <3>4 DEF Process
  <2>5. p.at = "pumped" /\ p.ended = q.ended
    BY <2>2, <2>3 DEF Process
  <2>6. p.unread = q.unread /\ p.sunk = q.sunk /\ p.wrote = q.wrote
    BY <2>2, <2>3 DEF Process
  <2> QED
    BY <2>2, <2>4, <2>5, <2>6 DEF Counts, Ends, p
<1> QED
  BY <1>2, <1>3

LEMMA KillType ==
    ASSUME NEW p \in Process, Counts(p), Ends(p)
    PROVE  /\ Kill(p) \in Process /\ Counts(Kill(p)) /\ Ends(Kill(p))
           /\ ~Kill(p).child /\ ~Kill(p).kid
           /\ Kill(p).at = p.at /\ Kill(p).ended = p.ended /\ Kill(p).unread = p.unread
           /\ Kill(p).wrote = p.wrote /\ Kill(p).sunk = p.sunk
  BY DEF Kill, Process, Counts, Ends

LEMMA GoneType ==
    ASSUME NEW p \in Process, Counts(p), Ends(p),
           NEW how \in {"exited", "timeout", "killed", "dropped"}, how = "exited" => p.unread = 0
    PROVE  /\ Gone(p, how) \in Process /\ Counts(Gone(p, how)) /\ Ends(Gone(p, how))
           /\ Gone(p, how).child = p.child /\ Gone(p, how).kid = p.kid
           /\ Gone(p, how).at = "ended" /\ Gone(p, how).ended = how
  BY DEF Gone, Process, Counts, Ends

\* A step of the command of c alone.
LEMMA CommandStep ==
    ASSUME ProcOK, CommandsFit, NEW c \in Calls, NEW p \in Process, Becomes(c, p),
           Counts(p), Ends(p),
           p.at # "none" => proc[c].at # "none",
           ToolOf[c] = "shell" =>
               IF p.at = "pumped" THEN Pumping(c) ELSE ~p.child /\ ~p.kid,
           p.ended = "dropped" => proc[c].ended = "dropped"
    PROVE  (ProcOK /\ CommandsFit)'
<1>1. /\ proc' = [proc EXCEPT ![c] = p] /\ UNCHANGED <<exec, log>>
      /\ proc'[c] = p /\ \A d \in Calls \ {c} : proc'[d] = proc[d]
  BY DEF Becomes, ProcOK
<1>2. ProcOK'
  BY <1>1 DEF ProcOK
<1>3. CommandsFit'
  BY <1>1 DEF CommandsFit, Pumping, Recorded
<1> QED
  BY <1>2, <1>3

LEMMA CommandStepsInv ==
    ASSUME ProcOK, CommandsFit, NEW c \in Calls, PumpSteps(c) \/ ProcessSteps(c) \/ KillJob(c)
    PROVE  (ProcOK /\ CommandsFit)'
<1> DEFINE q == proc[c]
<1>1. q \in Process /\ Counts(q) /\ Ends(q)
  BY DEF ProcOK
<1>2. ToolOf[c] = "shell" => IF q.at = "pumped" THEN TRUE ELSE ~q.child /\ ~q.kid
  BY DEF CommandsFit, Pumping
<1>3. CASE Stopped(c) \/ Deadline(c)
  <2> DEFINE K == Kill(q)
  <2>1. PICK why \in {"killed", "timeout"} :
            Becomes(c, [K EXCEPT !.ended = why, !.armed = TRUE])
    BY <1>3 DEF Stopped, Deadline, KilledFor
  <2> DEFINE p == [K EXCEPT !.ended = why, !.armed = TRUE]
  <2>2. q.at = "pumped"
    BY <1>3 DEF Stopped, Deadline, Pumping
  <2>3. K \in Process /\ Counts(K) /\ Ends(K) /\ ~K.child /\ ~K.kid /\ K.at = q.at
    BY <1>1, KillType
  <2> HIDE DEF K
  <2>4. /\ p \in Process /\ Counts(p) /\ Ends(p) /\ ~p.child /\ ~p.kid
        /\ p.at = "pumped" /\ p.ended = why
    BY <2>2, <2>3 DEF Process, Counts, Ends
  <2> HIDE DEF p
  <2> QED
    BY <2>1, <2>2, <2>4, CommandStep DEF Pumping, p
<1>4. CASE Reap(c)
  <2> DEFINE p == [q EXCEPT !.seen = TRUE, !.armed = @ \/ q.ended = "none"]
  <2>1. Becomes(c, p) /\ q.at = "pumped"
    BY <1>4 DEF Reap, Pumping
  <2>2. /\ p \in Process /\ p.at = q.at /\ p.ended = q.ended /\ p.child = q.child
        /\ p.kid = q.kid /\ p.unread = q.unread /\ p.sunk = q.sunk /\ p.wrote = q.wrote
    BY <1>1 DEF Process
  <2> HIDE DEF p
  <2>3. Counts(p) /\ Ends(p)
    BY <1>1, <2>2 DEF Counts, Ends
  <2> QED
    BY <2>1, <2>2, <2>3, CommandStep DEF Pumping
<1>5. CASE GraceOver(c) \/ Closed(c)
  <2>1. q.at = "pumped"
    BY <1>5 DEF GraceOver, Closed, Pumping
  <2>2. \/ /\ q.ended = "none"
           /\ Becomes(c, [Kill(q) EXCEPT !.orphans = TRUE, !.again = q.killed])
        \/ Becomes(c, LeaveLoop(c, q)) /\ (q.ended = "none" => q.unread = 0)
    BY <1>5 DEF GraceOver, Closed
  <2>3. /\ Kill(q) \in Process /\ Counts(Kill(q)) /\ Ends(Kill(q))
        /\ ~Kill(q).child /\ ~Kill(q).kid /\ Kill(q).at = "pumped" /\ Kill(q).ended = q.ended
        /\ Kill(q).unread = q.unread
    BY <1>1, <2>1, KillType
  <2>4. CASE Becomes(c, [Kill(q) EXCEPT !.orphans = TRUE, !.again = q.killed]) /\ q.ended = "none"
    <3> DEFINE K == Kill(q)
               p == [K EXCEPT !.orphans = TRUE, !.again = q.killed]
    <3>1. q.killed \in BOOLEAN
      BY <1>1 DEF Process
    <3> HIDE DEF K
    <3>2. /\ p \in Process /\ p.at = "pumped" /\ p.ended = "none" /\ ~p.child /\ ~p.kid
          /\ p.unread = K.unread /\ p.sunk = K.sunk /\ p.wrote = K.wrote
      BY <2>3, <2>4, <3>1 DEF Process, K
    <3>3. Counts(p) /\ Ends(p)
      BY <2>3, <3>2 DEF Counts, Ends, K
    <3>4. Becomes(c, p)
      BY <2>4 DEF K
    <3> HIDE DEF p
    <3> QED
      BY <2>1, <3>2, <3>3, <3>4, CommandStep DEF Pumping
  <2>5. CASE Becomes(c, LeaveLoop(c, q)) /\ (q.ended = "none" => q.unread = 0)
    <3> DEFINE how == IF q.ended = "none" THEN "exited" ELSE q.ended
               K == IF ~q.seen \/ ToolOf[c] # "detached" THEN Kill(q) ELSE q
               p == Gone(K, how)
    <3>1. Becomes(c, p)
      BY <2>5 DEF LeaveLoop
    <3>2. /\ K \in Process /\ Counts(K) /\ Ends(K) /\ K.unread = q.unread
          /\ ToolOf[c] = "shell" => ~K.child /\ ~K.kid
      BY <1>1, <2>3
    <3>3. /\ how \in {"exited", "timeout", "killed", "dropped"}
          /\ how = "exited" => q.unread = 0
          /\ how = "dropped" => q.ended = "dropped"
      BY <1>1, <2>1, <2>5 DEF Process, Ends
    <3> HIDE DEF K, how
    <3>4. /\ p \in Process /\ Counts(p) /\ Ends(p) /\ p.child = K.child /\ p.kid = K.kid
          /\ p.at = "ended" /\ p.ended = how
      <4>1. how = "exited" => K.unread = 0
        BY <3>2, <3>3
      <4> QED
        BY <3>2, <3>3, <4>1, GoneType
    <3> HIDE DEF p
    <3> QED
      BY <2>1, <3>1, <3>2, <3>3, <3>4, CommandStep
  <2> QED
    BY <2>2, <2>4, <2>5
<1>6. CASE Sink(c)
  <2> DEFINE p == [q EXCEPT !.unread = @ - 1, !.sunk = @ + 1]
  <2>1. Becomes(c, p) /\ q.at = "pumped" /\ q.unread > 0
    BY <1>6 DEF Sink, Pumping
  <2>0. q.unread - 1 \in Nat /\ q.sunk + 1 \in Nat
    BY <1>1, <2>1 DEF Process
  <2>2. /\ p \in Process /\ p.at = q.at /\ p.ended = q.ended /\ p.child = q.child
        /\ p.kid = q.kid /\ p.unread = q.unread - 1 /\ p.sunk = q.sunk + 1 /\ p.wrote = q.wrote
    BY <1>1, <2>0 DEF Process
  <2> HIDE DEF p
  <2>3. q.unread \in Nat /\ q.sunk \in Nat
    BY <1>1 DEF Process
  <2>4. Counts(p) /\ Ends(p)
    BY <1>1, <2>1, <2>2, <2>3 DEF Counts, Ends
  <2> QED
    BY <2>1, <2>2, <2>4, CommandStep DEF Pumping
<1>7. CASE Write(c)
  <2> DEFINE p == [q EXCEPT !.wrote = @ + 1, !.unread = @ + 1]
  <2>1. Becomes(c, p) /\ q.at = "pumped" /\ q.wrote < MaxOutput
    BY <1>7 DEF Write
  <2>0. q.unread + 1 \in Nat /\ q.wrote + 1 \in 0 .. MaxOutput
    BY <1>1, <2>1, NatConstants DEF Process
  <2>2. /\ p \in Process /\ p.at = q.at /\ p.ended = q.ended /\ p.child = q.child
        /\ p.kid = q.kid /\ p.unread = q.unread + 1 /\ p.sunk = q.sunk /\ p.wrote = q.wrote + 1
    BY <1>1, <2>0 DEF Process
  <2> HIDE DEF p
  <2>3. q.unread \in Nat /\ q.sunk \in Nat /\ q.wrote \in Nat
    BY <1>1, NatConstants DEF Process
  <2>4. Counts(p) /\ Ends(p)
    BY <1>1, <2>1, <2>2, <2>3 DEF Counts, Ends
  <2> QED
    BY <2>1, <2>2, <2>4, CommandStep DEF Pumping
<1>8. CASE ChildExits(c) \/ KidExits(c) \/ StrayExits(c) \/ KillJob(c)
  <2>1. PICK p : /\ Becomes(c, p)
                 /\ \/ p = [q EXCEPT !.child = FALSE]
                    \/ p = [q EXCEPT !.kid = FALSE]
                    \/ p = [q EXCEPT !.stray = FALSE]
                    \/ p = [q EXCEPT !.stop = TRUE]
    BY <1>8 DEF ChildExits, KidExits, StrayExits, KillJob
  <2>2. /\ p \in Process /\ p.at = q.at /\ p.ended = q.ended
        /\ p.child => q.child
        /\ p.kid => q.kid
        /\ p.unread = q.unread /\ p.sunk = q.sunk /\ p.wrote = q.wrote
    <3>0. q \in Process
      BY <1>1
    <3> HIDE DEF q
    <3>1. CASE p = [q EXCEPT !.child = FALSE]
      BY <3>0, <3>1 DEF Process
    <3>2. CASE p = [q EXCEPT !.kid = FALSE]
      BY <3>0, <3>2 DEF Process
    <3>3. CASE p = [q EXCEPT !.stray = FALSE]
      BY <3>0, <3>3 DEF Process
    <3>4. CASE p = [q EXCEPT !.stop = TRUE]
      BY <3>0, <3>4 DEF Process
    <3> QED
      BY <2>1, <3>1, <3>2, <3>3, <3>4
  <2>3. Counts(p) /\ Ends(p)
    BY <1>1, <2>2 DEF Counts, Ends
  <2> QED
    BY <1>2, <2>1, <2>2, <2>3, CommandStep DEF Pumping
<1> QED
  BY <1>3, <1>4, <1>5, <1>6, <1>7, <1>8 DEF PumpSteps, ProcessSteps

-----------------------------------------------------------------------------
(* The calls of a step and the conversation. *)

TurnTypes ==
    /\ cancelled \in BOOLEAN
    /\ loop \in [at : {"guard", "mentor", "tools", "results", "end"}, step : 0 .. MaxSteps]
    /\ batch \in Seq(Calls)
    /\ exec \in [Calls -> [at : {"idle", "queued", "permit", "run", "finish", "done"},
                           kind : Outline!Kinds \cup {"none"}]]
    /\ log \subseteq {"call", "result"} \X Calls
    /\ history \in Seq([calls : Seq(Calls), kinds : Seq(Outline!Kinds)])

\* There is a batch while the tools run, the one of the last reply, and calls
\* are under way in no other.
BatchFits ==
    /\ At("tools") => history # << >> /\ Last(history) = [calls |-> batch, kinds |-> << >>]
    /\ At("tools") <=> batch # << >>
    /\ At("guard") \/ At("mentor") \/ At("results") => ~Outline!Open
    /\ \A c \in Calls : exec[c].at \in {"queued", "permit", "run", "finish"} => c \in InBatch
    /\ call.at \notin {"none", "failed", "broken"} => At("mentor")

\* A mutating call that has started found all done it has to wait for.
InTurn ==
    \A c \in InBatch : Mutating(c) /\ exec[c].at # "queued" =>
        \A d \in InBatch : ~Mutating(d) \/ d \in Before(c) => Done(d)

InHistory(c) == \E h \in ToSet(history) : c \in ToSet(h.calls)

\* The trace, the executor and the conversation tell the same of a call.
TraceFits ==
    \A c \in Calls :
        /\ exec[c].at # "idle" => InHistory(c)
        /\ exec[c].at \in {"permit", "run"} => Recorded(c)
        /\ exec[c].at \in {"finish", "done"} =>
              exec[c].kind \in Outline!Kinds /\ (exec[c].kind # "failed" => Recorded(c))
        /\ <<"result", c>> \in log => exec[c].at = "done"

\* No id of the reply that arrives was used before.
FreshReply == call.at \in {"stream", "answered"} => Fresh(call.reply)

TurnInv ==
    /\ MentorInv /\ ProcOK /\ CommandsFit
    /\ TurnTypes /\ BatchFits /\ InTurn /\ TraceFits /\ FreshReply

LEMMA MentorStepsFresh ==
    ASSUME MentorInv, FreshReply, MentorSteps
    PROVE  FreshReply'
<1> USE DEF MentorInv, CallOK, NewCall
<1>1. CASE Answered
  <2>1. PICK r \in Replies : Fresh(r) /\ call' = [call EXCEPT !.at = "stream", !.reply = r,
                                                      !.pos = 0, !.asm = NewAssembler]
    BY <1>1 DEF Answered
  <2>2. call'.reply = r /\ UNCHANGED history
    BY <1>1, <2>1 DEF Answered, MentorOnly
  <2> QED
    BY <2>1, <2>2 DEF FreshReply, Fresh
<1>2. CASE Receive
  <2> DEFINE e == EventsOf(call.reply)[call.pos + 1]
             next == [call EXCEPT !.pos = @ + 1, !.asm = Feed(@, e)]
  <2>1. call.at = "stream" /\ UNCHANGED history
    BY <1>2 DEF Receive, MentorOnly
  <2>2. CASE call' = Attempted(Err("protocol"))
    <3>1. call'.at \in {"failed", "note", "backoff"}
      BY <2>1, <2>2, ErrType, AttemptedStep
    <3> QED
      BY <3>1 DEF FreshReply
  <2>3. CASE \/ call' = [next EXCEPT !.at = "answered"]
             \/ call' = [next EXCEPT !.shown = @ + 1]
             \/ call' = next
    <3>1. call'.reply = call.reply
      BY <2>3
    <3> QED
      BY <2>1, <3>1 DEF FreshReply, Fresh
  <2> QED
    BY <1>2, <2>2, <2>3 DEF Receive
<1>3. CASE Rejected
  <2>1. PICK e \in HttpErrors : call' = [Attempted(e) EXCEPT !.faults = Attempted(e).faults + 1]
    BY <1>3 DEF Rejected
  <2>2. call.at = "send" /\ e.after \in Nat \cup {NoTime}
    BY <1>3, NatConstants DEF Rejected
  <2>3. call'.at \in {"failed", "note", "backoff"}
    BY <2>1, <2>2, AttemptedStep
  <2> QED
    BY <2>3 DEF FreshReply
<1>4. CASE Break
  <2> DEFINE err == Err(IF Started(call.asm) THEN "interrupted" ELSE "disconnected")
  <2>1. call.at = "stream" /\ call' = [Attempted(err) EXCEPT !.faults = Attempted(err).faults + 1]
    BY <1>4 DEF Break
  <2>2. err.after \in Nat \cup {NoTime} /\ (Started(call.asm) => err.kind = "interrupted")
    BY ErrType
  <2> HIDE DEF err
  <2>3. call'.at \in {"failed", "note", "backoff"}
    BY <2>1, <2>2, AttemptedStep
  <2> QED
    BY <2>3 DEF FreshReply
<1>5. CASE CancelAttempt
  <2>1. call.at \in {"send", "stream", "backoff"} /\ call' = Returned(Err("cancelled"))
    BY <1>5 DEF CancelAttempt
  <2>2. call'.at \in {"failed", "note"}
    BY <2>1, ErrType, ReturnedStep
  <2> QED
    BY <2>2 DEF FreshReply
<1>6. CASE RecordRequest \/ NoteError \/ Waited \/ CancelWait \/ BackedOff
  <2>1. call'.at \in {"broken", "send", "wait", "failed"}
    BY <1>6 DEF RecordRequest, NoteError, Record, Waited, CancelWait, BackedOff, Again
  <2> QED
    BY <2>1 DEF FreshReply
<1> QED
  BY <1>1, <1>2, <1>3, <1>4, <1>5, <1>6 DEF MentorSteps

\* A step of the mentor call leaves the rest alone.
LEMMA MentorStepsTurn ==
    ASSUME TurnInv, MentorSteps
    PROVE  TurnInv'
<1>1. MentorInv' /\ FreshReply'
  BY MentorStepsInv, MentorStepsFresh DEF TurnInv
<1>2. \A from, next : Record(from, next) => call.at = from /\ UNCHANGED cancelled /\ MentorOnly
  BY DEF Record
<1>3. /\ UNCHANGED <<cancelled, loop, batch, exec, log, history, proc>>
      /\ call.at \in {"request", "note", "wait", "send", "stream", "backoff"}
  BY <1>2 DEF MentorSteps, RecordRequest, NoteError, Waited, CancelWait, Answered, Rejected,
     Receive, Break, BackedOff, CancelAttempt, MentorOnly
<1>4. (ProcOK /\ CommandsFit /\ TurnTypes /\ BatchFits)'
  BY <1>3 DEF TurnInv, ProcOK, CommandsFit, Pumping, Recorded, TurnTypes, BatchFits, At,
     InBatch, Outline!Open
<1>5. (InTurn /\ TraceFits)'
  BY <1>3 DEF TurnInv, InTurn, InBatch, Before, Done, TraceFits, InHistory, Recorded
<1> QED
  BY <1>1, <1>4, <1>5 DEF TurnInv

\* A step of the executor with call c.
LEMMA ExecutorStep ==
    ASSUME TurnInv, NEW c \in Calls, NEW l \in {"permit", "run", "finish", "done"},
           NEW k \in Outline!Kinds \cup {"none"}, Goes(c, l, k), Elsewhere,
           exec[c].at \in {"queued", "permit", "run", "finish"},
           exec[c].at = "queued" => MayStart(c),
           log' \in {log, log \cup {<<"call", c>>}, log \cup {<<"result", c>>}},
           l \in {"permit", "run"} => <<"call", c>> \in log',
           l \in {"finish", "done"} =>
               k \in Outline!Kinds /\ (k # "failed" => <<"call", c>> \in log'),
           <<"result", c>> \in log' => l = "done"
    PROVE  (TurnTypes /\ BatchFits /\ InTurn /\ TraceFits /\ FreshReply)'
<1>1. /\ UNCHANGED <<cancelled, call, loop, batch, history>>
      /\ exec' = [exec EXCEPT ![c] = [at |-> l, kind |-> k]]
  BY DEF Elsewhere, Goes
<1>2. exec'[c].at = l /\ exec'[c].kind = k /\ \A d \in Calls \ {c} : exec'[d] = exec[d]
  BY <1>1 DEF TurnInv, TurnTypes
<1>3. c \in InBatch
  BY DEF TurnInv, BatchFits
<1>4. TurnTypes'
  BY <1>1 DEF TurnInv, TurnTypes
<1>5. BatchFits'
  BY <1>1, <1>2, <1>3 DEF TurnInv, BatchFits, At, InBatch, Outline!Open
<1>6. \A d \in Calls : Done(d) => exec'[d].at = "done"
  BY <1>2 DEF Done
<1>7. InBatch \subseteq Calls /\ UNCHANGED InBatch /\ \A d \in Calls : UNCHANGED Before(d)
  BY <1>1 DEF TurnInv, TurnTypes, InBatch, ToSet, Before
<1>8. InTurn'
  <2> SUFFICES ASSUME NEW x \in InBatch, Mutating(x), exec'[x].at # "queued",
                      NEW d \in InBatch, ~Mutating(d) \/ d \in Before(x)
               PROVE  exec'[d].at = "done"
    BY <1>7 DEF InTurn, Done, Mutating
  <2>1. Done(d)
    BY <1>2, <1>7 DEF TurnInv, InTurn, MayStart
  <2> QED
    BY <1>6, <1>7, <2>1
<1>9. TraceFits'
  <2> SUFFICES ASSUME NEW d \in Calls
               PROVE  /\ exec'[d].at # "idle" => InHistory(d)
                      /\ exec'[d].at \in {"permit", "run"} => <<"call", d>> \in log'
                      /\ exec'[d].at \in {"finish", "done"} =>
                            /\ exec'[d].kind \in Outline!Kinds
                            /\ exec'[d].kind # "failed" => <<"call", d>> \in log'
                      /\ <<"result", d>> \in log' => exec'[d].at = "done"
    BY <1>1 DEF TraceFits, InHistory, Recorded
  <2>1. CASE d = c
    BY <1>2, <2>1 DEF TurnInv, TraceFits
  <2>2. CASE d # c
    BY <1>2, <2>2 DEF TurnInv, TraceFits, Recorded
  <2> QED
    BY <2>1, <2>2
<1>10. FreshReply'
  BY <1>1 DEF TurnInv, FreshReply, Fresh
<1> QED
  BY <1>4, <1>5, <1>8, <1>9, <1>10

\* The commands when the call c moves on and no command does.
LEMMA CommandsStay ==
    ASSUME TurnInv, NEW c \in Calls, NEW l, NEW k, Goes(c, l, k), UNCHANGED proc,
           log \subseteq log', ToolOf[c] = "shell" => ~Pumping(c),
           l = "run" => c \notin Commands
    PROVE  (ProcOK /\ CommandsFit)'
<1>1. exec'[c].at = l /\ \A d \in Calls \ {c} : exec'[d] = exec[d]
  BY DEF Goes, TurnInv, TurnTypes
<1>2. ProcOK'
  BY DEF TurnInv, ProcOK
<1>3. CommandsFit'
  <2> SUFFICES ASSUME NEW d \in Calls
               PROVE  /\ proc[d].at # "none" => d \in Commands /\ <<"call", d>> \in log'
                      /\ ToolOf[d] = "shell" =>
                            IF Pumping(d) THEN exec'[d].at = "run"
                            ELSE ~proc[d].child /\ ~proc[d].kid
                      /\ d \in Commands /\ exec'[d].at = "run" =>
                            ToolOf[d] = "shell" /\ proc[d].ended # "dropped"
    BY DEF CommandsFit, Pumping, Recorded
  <2>1. CASE d = c
    BY <1>1, <2>1 DEF TurnInv, CommandsFit, Recorded
  <2>2. CASE d # c
    BY <1>1, <2>2 DEF TurnInv, CommandsFit, Recorded
  <2> QED
    BY <2>1, <2>2
<1> QED
  BY <1>2, <1>3

\* The command of the call c changes with it.
LEMMA CommandMoves ==
    ASSUME TurnInv, NEW c \in Commands, NEW l, NEW k, Goes(c, l, k), UNCHANGED log,
           NEW p \in Process, proc' = [proc EXCEPT ![c] = p], Counts(p), Ends(p),
           p.at # "none" => Recorded(c),
           ToolOf[c] = "shell" =>
               IF p.at = "pumped" THEN l = "run" ELSE ~p.child /\ ~p.kid,
           l = "run" => ToolOf[c] = "shell" /\ p.ended # "dropped"
    PROVE  (ProcOK /\ CommandsFit)'
<1>0. c \in Calls
  BY DEF Commands
<1>1. exec'[c].at = l /\ \A d \in Calls \ {c} : exec'[d] = exec[d]
  BY <1>0 DEF Goes, TurnInv, TurnTypes
<1>2. proc'[c] = p /\ \A d \in Calls \ {c} : proc'[d] = proc[d]
  BY <1>0 DEF TurnInv, ProcOK
<1>3. ProcOK'
  BY <1>2 DEF TurnInv, ProcOK
<1>4. CommandsFit'
  <2> SUFFICES ASSUME NEW d \in Calls
               PROVE  /\ proc'[d].at # "none" => d \in Commands /\ <<"call", d>> \in log
                      /\ ToolOf[d] = "shell" =>
                            IF proc'[d].at = "pumped" THEN exec'[d].at = "run"
                            ELSE ~proc'[d].child /\ ~proc'[d].kid
                      /\ d \in Commands /\ exec'[d].at = "run" =>
                            ToolOf[d] = "shell" /\ proc'[d].ended # "dropped"
    BY DEF CommandsFit, Pumping, Recorded
  <2>1. CASE d = c
    BY <1>1, <1>2, <2>1 DEF Recorded
  <2>2. CASE d # c
    BY <1>1, <1>2, <2>2 DEF TurnInv, CommandsFit, Recorded, Pumping
  <2> QED
    BY <2>1, <2>2
<1> QED
  BY <1>3, <1>4

LEMMA CallStepsInv ==
    ASSUME TurnInv, NEW c \in Calls, CallSteps(c)
    PROVE  TurnInv'
<1>1. /\ Elsewhere
      /\ Stored \/ Refused
      /\ exec[c].at \in {"queued", "permit", "run", "finish"}
  BY DEF CallSteps, RecordCall, Deny, Allow, Return, Timeout, CancelCall, Finish, Stored
<1>2. MentorInv'
  <2>1. UNCHANGED call /\ refusals' \in 0 .. MaxRefusals
    BY <1>1, NatConstants DEF Elsewhere, Stored, Refused, TurnInv, MentorInv
  <2> QED
    BY <2>1 DEF TurnInv, MentorInv, CallOK, Budgeted, Shows, NothingSilentlyRepeated
<1>3. {"invalid", "denied", "ok", "error", "timeout", "cancelled", "failed"} = Outline!Kinds
  BY DEF Outline!Kinds, Outline!Ran
<1>4. /\ exec[c].at \in {"permit", "run"} => Recorded(c)
      /\ exec[c].at = "finish" =>
            exec[c].kind \in Outline!Kinds /\ (exec[c].kind # "failed" => Recorded(c))
      /\ exec[c].at # "done" /\ <<"result", c>> \notin log
  BY <1>1 DEF TurnInv, TraceFits
<1>5. ToolOf[c] = "shell" /\ Pumping(c) => exec[c].at = "run"
  BY DEF TurnInv, CommandsFit
<1> DEFINE Rest == (TurnTypes /\ BatchFits /\ InTurn /\ TraceFits /\ FreshReply)'
           Comm == (ProcOK /\ CommandsFit)'
<1>6. CASE RecordCall(c)
  <2>1. PICK l \in {"permit", "finish"}, k \in {"invalid", "failed", "none"} :
            /\ Goes(c, l, k)
            /\ \/ log' = log \cup {<<"call", c>>} /\ (l = "finish" => k = "invalid")
               \/ log' = log /\ l = "finish" /\ k = "failed"
    BY <1>6 DEF RecordCall, AfterRefusal
  <2>2. exec[c].at = "queued" /\ MayStart(c) /\ UNCHANGED proc /\ log \subseteq log'
    BY <1>6, <2>1 DEF RecordCall
  <2>3. Rest
    <3>1. /\ log' \in {log, log \cup {<<"call", c>>}, log \cup {<<"result", c>>}}
          /\ l \in {"permit", "run"} => <<"call", c>> \in log'
          /\ l \in {"finish", "done"} =>
                k \in Outline!Kinds /\ (k # "failed" => <<"call", c>> \in log')
          /\ <<"result", c>> \in log' => l = "done"
      BY <1>3, <1>4, <2>1
    <3>2. k \in Outline!Kinds \cup {"none"} /\ l \in {"permit", "run", "finish", "done"}
      BY <1>3
    <3> QED
      BY <1>1, <2>1, <2>2, <3>1, <3>2, ExecutorStep
  <2>4. Comm
    BY <1>5, <2>1, <2>2, CommandsStay
  <2> QED
    BY <1>2, <2>3, <2>4 DEF TurnInv
<1>7. CASE Deny(c) \/ Return(c) \/ Timeout(c)
  <2>1. PICK k \in {"denied", "ok", "error", "timeout", "cancelled"} : Goes(c, "finish", k)
    <3>1. CASE Return(c) /\ c \in Commands
      <4>1. /\ proc[c].at = "ended" /\ exec[c].at = "run"
            /\ Goes(c, "finish", CASE proc[c].ended = "exited" -> "ok"
                                   [] proc[c].ended = "timeout" -> "error"
                                   [] proc[c].ended = "killed" -> "cancelled")
        BY <3>1 DEF Return
      <4>2. proc[c].ended \in {"exited", "timeout", "killed"}
        <5>1. proc[c] \in Process /\ Ends(proc[c])
          BY DEF TurnInv, ProcOK
        <5>2. proc[c].ended # "dropped"
          BY <3>1, <4>1 DEF TurnInv, CommandsFit
        <5> QED
          BY <4>1, <5>1, <5>2 DEF Process, Ends
      <4>3. CASE proc[c].ended = "exited"
        BY <4>1, <4>3, Zenon
      <4>4. CASE proc[c].ended = "timeout"
        BY <4>1, <4>4, Zenon
      <4>5. CASE proc[c].ended = "killed"
        BY <4>1, <4>5, Zenon
      <4> QED
        BY <4>2, <4>3, <4>4, <4>5
    <3>2. CASE Return(c) /\ c \notin Commands
      BY <3>2 DEF Return
    <3>3. CASE Deny(c) \/ Timeout(c)
      BY <3>3 DEF Deny, Timeout
    <3> QED
      BY <1>7, <3>1, <3>2, <3>3
  <2>2. /\ UNCHANGED <<log, proc>> /\ exec[c].at \in {"permit", "run"}
        /\ ToolOf[c] = "shell" => ~Pumping(c)
    <3>1. CASE Deny(c)
      BY <1>5, <3>1 DEF Deny
    <3>2. CASE Return(c)
      <4>1. ToolOf[c] = "shell" => c \in Commands
        BY DEF Commands
      <4> QED
        BY <3>2, <4>1 DEF Return, Pumping
    <3>3. CASE Timeout(c)
      BY <3>3 DEF Timeout, Commands
    <3> QED
      BY <1>7, <3>1, <3>2, <3>3
  <2>3. Rest
    <3>1. /\ log' \in {log, log \cup {<<"call", c>>}, log \cup {<<"result", c>>}}
          /\ k \in Outline!Kinds /\ <<"call", c>> \in log' /\ <<"result", c>> \notin log'
      BY <1>3, <1>4, <2>2 DEF Recorded
    <3> QED
      BY <1>1, <2>1, <2>2, <3>1, ExecutorStep
  <2>4. Comm
    BY <2>1, <2>2, CommandsStay
  <2> QED
    BY <1>2, <2>3, <2>4 DEF TurnInv
<1>8. CASE Allow(c)
  <2>1. exec[c].at = "permit" /\ UNCHANGED log /\ Recorded(c)
    BY <1>4, <1>8 DEF Allow
  <2>2. PICK l \in {"run", "finish"}, k \in {"none", "ok", "error"} :
            /\ Goes(c, l, k)
            /\ l = "finish" => k # "none"
            /\ \/ /\ c \in Commands
                  /\ \E s \in Shapes : proc' = [proc EXCEPT ![c] = Spawned(s)]
                  /\ l = "run" <=> ToolOf[c] = "shell"
               \/ UNCHANGED proc /\ (l = "run" => c \notin Commands)
    BY <1>8 DEF Allow
  <2>3. Rest
    <3>1. /\ log' \in {log, log \cup {<<"call", c>>}, log \cup {<<"result", c>>}}
          /\ <<"call", c>> \in log' /\ <<"result", c>> \notin log'
          /\ k \in Outline!Kinds \cup {"none"} /\ (l = "finish" => k \in Outline!Kinds)
      BY <1>3, <1>4, <2>1, <2>2 DEF Recorded
    <3>2. l \in {"permit", "run", "finish", "done"}
      OBVIOUS
    <3> QED
      BY <1>1, <2>1, <2>2, <3>1, <3>2, ExecutorStep
  <2>4. Comm
    <3>1. CASE UNCHANGED proc /\ (l = "run" => c \notin Commands)
      BY <1>5, <2>1, <2>2, <3>1, CommandsStay
    <3>2. CASE /\ c \in Commands
               /\ \E s \in Shapes : proc' = [proc EXCEPT ![c] = Spawned(s)]
               /\ l = "run" <=> ToolOf[c] = "shell"
      <4>1. PICK s \in Shapes : proc' = [proc EXCEPT ![c] = Spawned(s)]
        BY <3>2
      <4> DEFINE p == Spawned(s)
      <4>2. p \in Process /\ Counts(p) /\ Ends(p) /\ p.at = "pumped" /\ p.ended = "none"
        BY ProcessTypes
      <4> HIDE DEF p
      <4>3. proc' = [proc EXCEPT ![c] = p]
        BY <4>1 DEF p
      <4> QED
        BY <2>1, <2>2, <3>2, <4>2, <4>3, CommandMoves
    <3> QED
      BY <2>2, <3>1, <3>2
  <2> QED
    BY <1>2, <2>3, <2>4 DEF TurnInv
<1>9. CASE CancelCall(c)
  <2>1. Goes(c, "finish", "cancelled") /\ UNCHANGED log /\ Recorded(c) /\ exec[c].at \in {"permit", "run"}
    BY <1>4, <1>9 DEF CancelCall
  <2>2. Rest
    <3>1. /\ log' \in {log, log \cup {<<"call", c>>}, log \cup {<<"result", c>>}}
          /\ <<"call", c>> \in log' /\ <<"result", c>> \notin log'
          /\ "cancelled" \in Outline!Kinds
      BY <1>3, <1>4, <2>1 DEF Recorded
    <3> QED
      BY <1>1, <2>1, <3>1, ExecutorStep
  <2>3. Comm
    <3>1. CASE exec[c].at = "run" /\ Pumping(c)
      <4> DEFINE p == Drop(proc[c])
      <4>1. /\ Kill(proc[c]) \in Process /\ Counts(Kill(proc[c])) /\ Ends(Kill(proc[c]))
            /\ ~Kill(proc[c]).child /\ ~Kill(proc[c]).kid
        BY KillType DEF TurnInv, ProcOK
      <4>2. p \in Process /\ Counts(p) /\ Ends(p) /\ ~p.child /\ ~p.kid /\ p.at = "ended"
        BY <4>1, GoneType DEF Drop
      <4>3. proc' = [proc EXCEPT ![c] = p]
        BY <1>9, <3>1 DEF CancelCall, TurnInv, ProcOK
      <4>4. c \in Commands
        BY <3>1 DEF TurnInv, CommandsFit, Pumping
      <4> HIDE DEF p
      <4>5. PICK l \in {"finish"}, k \in {"cancelled"} : Goes(c, l, k)
        BY <2>1
      <4> QED
        BY <2>1, <4>2, <4>3, <4>4, <4>5, CommandMoves
    <3>2. CASE ~(exec[c].at = "run" /\ Pumping(c))
      <4>1. UNCHANGED proc
        BY <1>9, <3>2 DEF CancelCall
      <4> QED
        BY <1>5, <2>1, <3>2, <4>1, CommandsStay
    <3> QED
      BY <3>1, <3>2
  <2> QED
    BY <1>2, <2>2, <2>3 DEF TurnInv
<1>10. CASE Finish(c)
  <2>1. /\ Goes(c, "done", exec[c].kind) /\ UNCHANGED proc /\ exec[c].at = "finish"
        /\ log' = log \/ log' = log \cup {<<"result", c>>}
    BY <1>10 DEF Finish
  <2>2. Rest
    <3>1. /\ exec[c].kind \in Outline!Kinds
          /\ exec[c].kind # "failed" => <<"call", c>> \in log'
      BY <1>4, <2>1 DEF Recorded
    <3> QED
      BY <1>1, <2>1, <3>1, ExecutorStep
  <2>3. Comm
    BY <1>5, <2>1, CommandsStay
  <2> QED
    BY <1>2, <2>2, <2>3 DEF TurnInv
<1> QED
  BY <1>6, <1>7, <1>8, <1>9, <1>10 DEF CallSteps

\* A command moves on by itself, or is killed through `shell_jobs`.
LEMMA CommandStepsTurn ==
    ASSUME TurnInv, NEW c \in Calls, PumpSteps(c) \/ ProcessSteps(c) \/ KillJob(c)
    PROVE  TurnInv'
<1>1. (ProcOK /\ CommandsFit)'
  BY CommandStepsInv DEF TurnInv
<1>2. UNCHANGED <<cancelled, refusals, call, loop, batch, exec, log, history>>
  BY DEF PumpSteps, ProcessSteps, KillJob, Stopped, Deadline, Reap, GraceOver, Sink, Closed,
     Write, ChildExits, KidExits, StrayExits, Becomes
<1>3. (MentorInv /\ TurnTypes /\ BatchFits /\ FreshReply)'
  BY <1>2 DEF TurnInv, MentorInv, CallOK, Budgeted, Shows, NothingSilentlyRepeated, TurnTypes,
     BatchFits, At, InBatch, Outline!Open, FreshReply, Fresh
<1>4. (InTurn /\ TraceFits)'
  BY <1>2 DEF TurnInv, InTurn, InBatch, Before, Done, TraceFits, InHistory, Recorded
<1> QED
  BY <1>1, <1>3, <1>4 DEF TurnInv

-----------------------------------------------------------------------------
(* The loop. *)

Message == [calls : Seq(Calls), kinds : Seq(Outline!Kinds)]

LEMMA AppendedMessage ==
    ASSUME NEW h \in Seq(Message), NEW m \in Message
    PROVE  /\ Append(h, m) \in Seq(Message) /\ Append(h, m) # << >>
           /\ Len(Append(h, m)) = Len(h) + 1
           /\ Append(h, m)[Len(Append(h, m))] = m /\ Last(Append(h, m)) = m
           /\ ToSet(Append(h, m)) = ToSet(h) \cup {m}
<1>1. /\ Append(h, m) \in Seq(Message) /\ Append(h, m) # << >>
      /\ Len(Append(h, m)) = Len(h) + 1
      /\ \A i \in 1 .. Len(h) : Append(h, m)[i] = h[i]
      /\ Append(h, m)[Len(h) + 1] = m /\ Len(h) \in Nat
  BY AppendProperties, LenProperties
<1>2. DOMAIN h = 1 .. Len(h) /\ DOMAIN Append(h, m) = 1 .. Len(h) + 1
  BY <1>1, LenProperties
<1>3. ToSet(Append(h, m)) = ToSet(h) \cup {m}
  BY <1>1, <1>2 DEF ToSet
<1> QED
  BY <1>1, <1>3 DEF Last

LEMMA CallBegins ==
    ASSUME call' = NewCall \/ call' = [NewCall EXCEPT !.at = "request"],
           refusals' \in 0 .. MaxRefusals
    PROVE  MentorInv'
<1>1. /\ DOMAIN call' = DOMAIN NewCall /\ call'.at \in {"none", "request"}
      /\ call'.attempt = 0 /\ call'.asm = NewAssembler /\ call'.waited = 0 /\ call'.wait = 0
      /\ call'.shown = 0 /\ call'.warned = 0 /\ call'.interrupted = FALSE
  BY DEF NewCall
<1>2. Typed(NewAssembler) /\ ~Started(NewAssembler)
  BY EmptySeq DEF Typed, NewAssembler, Started
<1>3. 0 \in 0 .. MaxRetries /\ 0 <= MaxWait
  BY NatConstants
<1>4. CallOK' /\ Budgeted'
  <2>1. call'.attempt \in 0 .. MaxRetries /\ Typed(call'.asm) /\ call'.waited <= MaxWait
    BY <1>1, <1>2, <1>3
  <2>2. /\ call'.waited \in Nat /\ call'.wait \in Nat /\ call'.shown \in Nat
        /\ call'.warned \in Nat
    BY <1>1
  <2>3. call'.interrupted \in BOOLEAN
    BY <1>1, Zenon
  <2> QED
    BY <1>1, <2>1, <2>2, <2>3 DEF CallOK, Budgeted
<1>5. Shows'
  BY <1>1, <1>2 DEF Shows, NothingSilentlyRepeated
<1> QED
  BY <1>4, <1>5 DEF MentorInv

\* A step of the loop alone, out of a place without tools.
LEMMA LoopMoves ==
    ASSUME TurnInv, MentorInv', UNCHANGED <<batch, exec, log, history, proc, cancelled>>,
           loop' \in [at : {"guard", "mentor", "results", "end"}, step : 0 .. MaxSteps],
           ~At("tools"), loop'.at # "end" => ~Outline!Open,
           call'.at \notin {"none", "failed", "broken"} => loop'.at = "mentor",
           call'.at \notin {"stream", "answered"}
    PROVE  TurnInv'
<1>1. (ProcOK /\ CommandsFit /\ TurnTypes)'
  BY DEF TurnInv, ProcOK, CommandsFit, Pumping, Recorded, TurnTypes
<1>2. BatchFits'
  <2>1. Outline!Open' <=> Outline!Open
    BY DEF Outline!Open
  <2> QED
    BY <2>1 DEF TurnInv, BatchFits, At, InBatch
<1>3. (InTurn /\ TraceFits /\ FreshReply)'
  BY DEF TurnInv, InTurn, InBatch, Before, Done, TraceFits, InHistory, Recorded, FreshReply
<1> QED
  BY <1>1, <1>2, <1>3 DEF TurnInv

LEMMA RefusalsType ==
    ASSUME refusals \in 0 .. MaxRefusals, Stored \/ Refused
    PROVE  refusals' \in 0 .. MaxRefusals
  BY NatConstants DEF Stored, Refused

LEMMA RespondStep ==
    ASSUME TurnInv, Respond
    PROVE  TurnInv'
<1> DEFINE cs == CallsOf(call.reply)
           m  == [calls |-> cs, kinds |-> << >>]
<1>1. /\ At("mentor") /\ call.at = "answered" /\ call' = NewCall
      /\ history' = Append(history, m)
      /\ UNCHANGED <<cancelled, log, proc>> /\ (Stored \/ Refused)
  BY DEF Respond, LoopOnly
<1>2. \/ loop' = [loop EXCEPT !.at = "end"] /\ UNCHANGED <<batch, exec>>
      \/ /\ loop' = [loop EXCEPT !.at = "tools"] /\ batch' = cs /\ cs # << >>
         /\ exec' = [c \in Calls |-> IF c \in ToSet(cs) THEN [at |-> "queued", kind |-> "none"]
                                     ELSE exec[c]]
  BY DEF Respond, Loop
<1>3. cs \in Seq(Calls) /\ Fresh(call.reply)
  BY <1>1, RepliesAssumption DEF TurnInv, MentorInv, CallOK, FreshReply
<1>4. m \in Message
  BY <1>3, EmptySeq DEF Message
<1>5. history \in Seq(Message)
  BY DEF TurnInv, TurnTypes, Message
<1>6. batch = << >> /\ \A c \in Calls : exec[c].at \in {"idle", "done"}
  <2>1. batch = << >>
    BY <1>1 DEF TurnInv, BatchFits, At
  <2>2. InBatch = {}
    BY <2>1 DEF InBatch, ToSet
  <2> QED
    BY <2>1, <2>2 DEF TurnInv, BatchFits, TurnTypes
<1>7. ToSet(cs) \subseteq Calls /\ \A c \in ToSet(cs) : ~InHistory(c)
  <2>1. DOMAIN cs = 1 .. Len(cs) /\ \A i \in 1 .. Len(cs) : cs[i] \in Calls
    BY <1>3, ElementOfSeq, LenProperties
  <2>2. \A h \in ToSet(history) : ToSet(cs) \cap ToSet(h.calls) = {}
    BY <1>3 DEF Fresh
  <2> HIDE DEF cs
  <2> QED
    BY <2>1, <2>2 DEF ToSet, InHistory
<1>8. /\ history' \in Seq(Message) /\ history' # << >>
      /\ history'[Len(history')] = m /\ Last(history') = m
      /\ ToSet(history') = ToSet(history) \cup {m}
  BY <1>1, <1>4, <1>5, AppendedMessage
<1> HIDE DEF cs
<1>9. MentorInv'
  <2>1. refusals' \in 0 .. MaxRefusals
    BY <1>1, RefusalsType DEF TurnInv, MentorInv
  <2> QED
    BY <1>1, <2>1, CallBegins
<1>10. FreshReply'
  BY <1>1 DEF FreshReply, NewCall
<1>11. exec' \in [Calls -> [at : {"idle", "queued", "permit", "run", "finish", "done"},
                            kind : Outline!Kinds \cup {"none"}]]
  BY <1>2 DEF TurnInv, TurnTypes
<1>12. TurnTypes'
  BY <1>1, <1>2, <1>3, <1>8, <1>11 DEF TurnInv, TurnTypes, Message
<1>13. \A c \in Calls : \/ exec'[c] = exec[c]
                        \/ exec'[c].at = "queued" /\ c \in ToSet(cs) /\ batch' = cs
  BY <1>2
<1>14. BatchFits'
  <2>1. loop'.at = "end" \/ loop'.at = "tools"
    BY <1>2 DEF TurnInv, TurnTypes
  <2>2. loop'.at = "end" => batch' = << >>
    BY <1>2, <1>6 DEF TurnInv, TurnTypes
  <2>3. loop'.at = "tools" => batch' = cs /\ cs # << >>
    BY <1>2 DEF TurnInv, TurnTypes
  <2>4. \A c \in Calls : exec'[c].at \in {"queued", "permit", "run", "finish"}
            => c \in ToSet(batch')
    BY <1>6, <1>13
  <2>5. call'.at = "none"
    BY <1>1 DEF NewCall
  <2> QED
    BY <1>8, <2>1, <2>2, <2>3, <2>4, <2>5 DEF BatchFits, At, InBatch
<1>15. InTurn'
  <2> SUFFICES ASSUME NEW c \in ToSet(batch'), exec'[c].at # "queued"
               PROVE  FALSE
    BY DEF InTurn, InBatch
  <2>1. batch' = cs
    BY <1>2, <1>6 DEF ToSet
  <2>2. exec' = [d \in Calls |-> IF d \in ToSet(cs) THEN [at |-> "queued", kind |-> "none"]
                                 ELSE exec[d]]
    BY <1>2, <1>6, <2>1 DEF ToSet
  <2> QED
    BY <1>7, <2>1, <2>2
<1>16. TraceFits'
  <2> SUFFICES ASSUME NEW c \in Calls
               PROVE  /\ exec'[c].at # "idle" => \E h \in ToSet(history') : c \in ToSet(h.calls)
                      /\ exec'[c].at \in {"permit", "run"} => Recorded(c)
                      /\ exec'[c].at \in {"finish", "done"} =>
                            /\ exec'[c].kind \in Outline!Kinds
                            /\ exec'[c].kind # "failed" => Recorded(c)
                      /\ <<"result", c>> \in log => exec'[c].at = "done"
    BY <1>1 DEF TraceFits, InHistory, Recorded
  <2>1. CASE exec'[c] = exec[c]
    BY <1>8, <2>1 DEF TurnInv, TraceFits, InHistory
  <2>2. CASE exec'[c].at = "queued" /\ c \in ToSet(cs)
    <3>1. exec[c].at = "idle"
      BY <1>6, <1>7, <2>2 DEF TurnInv, TraceFits
    <3>2. m \in ToSet(history') /\ m.calls = cs
      BY <1>8
    <3> QED
      BY <2>2, <3>1, <3>2 DEF TurnInv, TraceFits
  <2> QED
    BY <1>13, <2>1, <2>2
<1>17. (ProcOK /\ CommandsFit)'
  <2>1. ProcOK'
    BY <1>1 DEF TurnInv, ProcOK
  <2>2. \A c \in Calls : exec[c].at # "run" /\ exec'[c].at # "run"
    BY <1>6, <1>13
  <2> QED
    BY <1>1, <2>1, <2>2 DEF TurnInv, CommandsFit, Pumping, Recorded
<1> QED
  BY <1>9, <1>10, <1>12, <1>14, <1>15, <1>16, <1>17 DEF TurnInv

LEMMA ResultsType ==
    ASSUME TurnInv, \A c \in InBatch : Done(c)
    PROVE  /\ ResultsOf \in Message /\ ResultsOf.calls = batch
           /\ DOMAIN ResultsOf.kinds = 1 .. Len(batch)
           /\ Len(ResultsOf.kinds) = Len(batch)
           /\ \A i \in 1 .. Len(batch) : ResultsOf.kinds[i] = exec[batch[i]].kind
<1>1. batch \in Seq(Calls) /\ DOMAIN batch = 1 .. Len(batch) /\ Len(batch) \in Nat
  BY LenProperties DEF TurnInv, TurnTypes
<1>2. \A i \in 1 .. Len(batch) : batch[i] \in Calls /\ batch[i] \in InBatch
  BY <1>1, ElementOfSeq DEF InBatch, ToSet
<1>3. \A i \in 1 .. Len(batch) : exec[batch[i]].kind \in Outline!Kinds
  BY <1>2 DEF Done, TurnInv, TraceFits
<1> DEFINE ks == [i \in 1 .. Len(batch) |-> exec[batch[i]].kind]
<1>4. ks \in Seq(Outline!Kinds) /\ Len(ks) = Len(batch)
  BY <1>1, <1>3, LenProperties
<1>5. ResultsOf = [calls |-> batch, kinds |-> ks]
  BY <1>1 DEF ResultsOf
<1> QED
  BY <1>1, <1>4, <1>5 DEF Message

LEMMA PushResultsStep ==
    ASSUME TurnInv, PushResults
    PROVE  TurnInv'
<1>1. /\ At("tools") /\ \A c \in InBatch : Done(c)
      /\ history' = Append(history, ResultsOf) /\ batch' = << >>
      /\ loop' = [loop EXCEPT !.at = "results"]
      /\ UNCHANGED <<refusals, call, exec, cancelled, log, proc>>
  BY DEF PushResults, Loop, LoopOnly
<1>2. /\ ResultsOf \in Message /\ ResultsOf.calls = batch
      /\ Len(ResultsOf.kinds) = Len(batch)
  BY <1>1, ResultsType
<1>3. batch \in Seq(Calls) /\ batch # << >>
  BY <1>1 DEF TurnInv, BatchFits, TurnTypes
<1>4. ResultsOf.kinds # << >>
  BY <1>2, <1>3, EmptySeq DEF Message
<1>5. history \in Seq(Message)
  BY DEF TurnInv, TurnTypes, Message
<1>6. /\ history' \in Seq(Message) /\ history'[Len(history')] = ResultsOf
      /\ ToSet(history') = ToSet(history) \cup {ResultsOf}
  BY <1>1, <1>2, <1>5, AppendedMessage
<1>7. \A c \in Calls : exec[c].at \notin {"queued", "permit", "run", "finish"}
  BY <1>1 DEF TurnInv, BatchFits, Done
<1>8. call.at \in {"none", "failed", "broken"}
  BY <1>1 DEF TurnInv, BatchFits, At
<1>9. MentorInv'
  BY <1>1 DEF TurnInv, MentorInv, CallOK, Budgeted, Shows, NothingSilentlyRepeated
<1>10. TurnTypes'
  BY <1>1, <1>6, EmptySeq DEF TurnInv, TurnTypes, Message
<1>11. BatchFits'
  <2>1. loop'.at = "results"
    BY <1>1 DEF TurnInv, TurnTypes
  <2>2. ~Outline!Open'
    BY <1>4, <1>6 DEF Outline!Open
  <2> QED
    BY <1>1, <1>7, <1>8, <2>1, <2>2 DEF BatchFits, At
<1>12. InTurn'
  BY <1>1 DEF InTurn, InBatch, ToSet
<1>13. TraceFits'
  BY <1>1, <1>6 DEF TurnInv, TraceFits, InHistory, Recorded
<1>14. FreshReply'
  BY <1>1, <1>8 DEF FreshReply
<1>15. (ProcOK /\ CommandsFit)'
  BY <1>1 DEF TurnInv, ProcOK, CommandsFit, Pumping, Recorded
<1> QED
  BY <1>9, <1>10, <1>11, <1>12, <1>13, <1>14, <1>15 DEF TurnInv

LEMMA LoopStepsInv ==
    ASSUME TurnInv, LoopSteps
    PROVE  TurnInv'
<1>1. /\ refusals \in 0 .. MaxRefusals
      /\ loop \in [at : {"guard", "mentor", "tools", "results", "end"}, step : 0 .. MaxSteps]
  BY DEF TurnInv, MentorInv, TurnTypes
<1>2. ASSUME UNCHANGED call, Stored \/ Refused
      PROVE  MentorInv'
  BY <1>1, <1>2, RefusalsType DEF TurnInv, MentorInv, CallOK, Budgeted, Shows,
     NothingSilentlyRepeated
<1>3. ASSUME ~At("mentor")
      PROVE  call.at \in {"none", "failed", "broken"}
  BY <1>3 DEF TurnInv, BatchFits
<1>4. CASE StopAtTop
  <2>1. /\ At("guard") /\ loop' = [loop EXCEPT !.at = "end"]
        /\ UNCHANGED <<refusals, call, batch, exec, history, cancelled, log, proc>>
    BY <1>4 DEF StopAtTop, Loop, LoopOnly
  <2>2. /\ loop' \in [at : {"guard", "mentor", "results", "end"}, step : 0 .. MaxSteps]
        /\ loop'.at = "end" /\ ~At("tools") /\ ~At("mentor")
    BY <1>1, <2>1 DEF At
  <2>3. MentorInv' /\ call'.at \in {"none", "failed", "broken"}
    BY <1>2, <1>3, <2>1, <2>2 DEF Stored
  <2> QED
    BY <2>1, <2>2, <2>3, LoopMoves
<1>5. CASE StartStep
  <2>1. /\ At("guard") /\ loop.step < MaxSteps
        /\ \/ /\ loop' = [at |-> "mentor", step |-> loop.step + 1]
              /\ call' = [NewCall EXCEPT !.at = "request"]
           \/ loop' = [loop EXCEPT !.at = "end"] /\ UNCHANGED call
        /\ Stored \/ Refused
        /\ UNCHANGED <<batch, exec, history, cancelled, log, proc>>
    BY <1>5 DEF StartStep, Loop, LoopOnly
  <2>2. loop.step + 1 \in 0 .. MaxSteps
    BY <1>1, <2>1, NatConstants
  <2>3. ~At("tools") /\ ~At("mentor") /\ ~Outline!Open
    BY <2>1 DEF At, TurnInv, BatchFits
  <2>4. CASE /\ loop' = [at |-> "mentor", step |-> loop.step + 1]
             /\ call' = [NewCall EXCEPT !.at = "request"]
    <3>1. MentorInv'
      BY <1>1, <2>1, <2>4, CallBegins, RefusalsType
    <3>2. call'.at = "request"
      BY <2>4 DEF NewCall
    <3> QED
      BY <2>1, <2>2, <2>3, <2>4, <3>1, <3>2, LoopMoves
  <2>5. CASE loop' = [loop EXCEPT !.at = "end"] /\ UNCHANGED call
    <3>1. MentorInv' /\ call'.at \in {"none", "failed", "broken"}
      BY <1>2, <1>3, <2>1, <2>3, <2>5
    <3>2. /\ loop' \in [at : {"guard", "mentor", "results", "end"}, step : 0 .. MaxSteps]
          /\ loop'.at = "end"
      BY <1>1, <2>5
    <3> QED
      BY <2>1, <2>3, <3>1, <3>2, LoopMoves
  <2> QED
    BY <2>1, <2>4, <2>5
<1>6. CASE MentorFails
  <2>1. /\ At("mentor") /\ call.at \in {"failed", "broken"}
        /\ Stored \/ Refused
        /\ loop' = [loop EXCEPT !.at = "end"]
        /\ UNCHANGED <<call, batch, exec, history, cancelled, log, proc>>
    BY <1>6 DEF MentorFails, Loop, LoopOnly
  <2>2. /\ loop' \in [at : {"guard", "mentor", "results", "end"}, step : 0 .. MaxSteps]
        /\ loop'.at = "end" /\ ~At("tools")
    BY <1>1, <2>1 DEF At
  <2>3. MentorInv'
    BY <1>2, <2>1
  <2> QED
    BY <2>1, <2>2, <2>3, LoopMoves
<1>7. CASE Respond
  BY <1>7, RespondStep
<1>8. CASE PushResults
  BY <1>8, PushResultsStep
<1>9. CASE FinishTools
  <2>1. /\ At("results")
        /\ Stored \/ Refused
        /\ \E l \in {"end", "guard"} : loop' = [loop EXCEPT !.at = l]
        /\ UNCHANGED <<call, batch, exec, history, cancelled, log, proc>>
    BY <1>9 DEF FinishTools, Loop, LoopOnly
  <2>2. /\ loop' \in [at : {"guard", "mentor", "results", "end"}, step : 0 .. MaxSteps]
        /\ loop'.at \in {"end", "guard"}
    BY <1>1, <2>1
  <2>4. ~At("tools") /\ ~At("mentor") /\ ~Outline!Open
    <3>1. At("results")
      BY <2>1
    <3> QED
      BY <3>1 DEF At, TurnInv, BatchFits
  <2>3. MentorInv' /\ call'.at \in {"none", "failed", "broken"}
    BY <1>2, <1>3, <1>9, <2>1, <2>4 DEF FinishTools
  <2> QED
    BY <2>1, <2>2, <2>3, <2>4, LoopMoves
<1> QED
  BY <1>4, <1>5, <1>6, <1>7, <1>8, <1>9 DEF LoopSteps

-----------------------------------------------------------------------------
(* The invariant and what follows from it. *)

LEMMA InitTurnInv == ASSUME Init PROVE TurnInv
<1>1. /\ cancelled = FALSE /\ refusals = 0 /\ call = NewCall
      /\ loop = [at |-> "guard", step |-> 0] /\ batch = << >>
      /\ exec = [c \in Calls |-> [at |-> "idle", kind |-> "none"]]
      /\ log = {} /\ history = << >> /\ proc = [c \in Calls |-> NoProcess]
  BY DEF Init
<1>2. MentorInv
  <2>1. /\ DOMAIN call = DOMAIN NewCall /\ call.at = "none"
        /\ call.attempt = 0 /\ call.asm = NewAssembler /\ call.waited = 0 /\ call.wait = 0
        /\ call.shown = 0 /\ call.warned = 0 /\ call.interrupted = FALSE
    BY <1>1 DEF NewCall
  <2>2. Typed(NewAssembler) /\ ~Started(NewAssembler)
    BY EmptySeq DEF Typed, NewAssembler, Started
  <2>3. 0 \in 0 .. MaxRetries /\ 0 <= MaxWait /\ 0 \in 0 .. MaxRefusals
    BY NatConstants
  <2>4. CallOK /\ Budgeted
    <3>1. call.attempt \in 0 .. MaxRetries /\ Typed(call.asm) /\ call.waited <= MaxWait
      BY <2>1, <2>2, <2>3
    <3>2. /\ call.waited \in Nat /\ call.wait \in Nat /\ call.shown \in Nat
          /\ call.warned \in Nat
      BY <2>1
    <3>3. call.interrupted \in BOOLEAN
      BY <2>1, Zenon
    <3> QED
      BY <2>1, <3>1, <3>2, <3>3 DEF CallOK, Budgeted
  <2>5. Shows
    BY <2>1, <2>2 DEF Shows, NothingSilentlyRepeated
  <2> QED
    BY <1>1, <2>3, <2>4, <2>5 DEF MentorInv
<1>3. ProcOK /\ CommandsFit
  <2>1. NoProcess.at = "none" /\ ~NoProcess.child /\ ~NoProcess.kid
    BY DEF NoProcess
  <2>2. \A c \in Calls : proc[c] = NoProcess /\ exec[c].at = "idle"
    BY <1>1
  <2>3. ProcOK
    BY <1>1, ProcessTypes DEF ProcOK
  <2> QED
    BY <2>1, <2>2, <2>3 DEF CommandsFit, Pumping
<1>4. TurnTypes
  <2>1. 0 \in 0 .. MaxSteps
    BY NatConstants
  <2>2. batch \in Seq(Calls) /\ history \in Seq(Message)
    BY <1>1, EmptySeq
  <2>3. /\ loop \in [at : {"guard", "mentor", "tools", "results", "end"}, step : 0 .. MaxSteps]
        /\ exec \in [Calls -> [at : {"idle", "queued", "permit", "run", "finish", "done"},
                               kind : Outline!Kinds \cup {"none"}]]
    BY <1>1, <2>1
  <2> QED
    BY <1>1, <2>2, <2>3 DEF TurnTypes, Message
<1>5. BatchFits
  BY <1>1 DEF BatchFits, At, InBatch, Outline!Open, NewCall
<1>6. InTurn /\ TraceFits /\ FreshReply
  BY <1>1 DEF InTurn, InBatch, ToSet, TraceFits, FreshReply, NewCall
<1> QED
  BY <1>2, <1>3, <1>4, <1>5, <1>6 DEF TurnInv

LEMMA NextTurnInv ==
    ASSUME TurnInv, [Next]_vars
    PROVE  TurnInv'
<1>1. ASSUME UNCHANGED <<refusals, call, loop, batch, exec, log, history, proc>>,
             cancelled' \in BOOLEAN
      PROVE  TurnInv'
  <2>1. (MentorInv /\ ProcOK /\ CommandsFit /\ TurnTypes /\ BatchFits /\ FreshReply)'
    BY <1>1 DEF TurnInv, MentorInv, CallOK, Budgeted, Shows, NothingSilentlyRepeated, ProcOK,
       CommandsFit, Pumping, Recorded, TurnTypes, BatchFits, At, InBatch, Outline!Open,
       FreshReply, Fresh
  <2>2. (InTurn /\ TraceFits)'
    BY <1>1 DEF TurnInv, InTurn, InBatch, Before, Done, TraceFits, InHistory, Recorded
  <2> QED
    BY <2>1, <2>2 DEF TurnInv
<1>2. CASE UNCHANGED vars \/ Quiescent \/ Cancel
  BY <1>1, <1>2 DEF vars, Quiescent, Cancel, TurnInv, TurnTypes
<1>3. CASE LoopSteps
  BY <1>3, LoopStepsInv
<1>4. CASE MentorSteps
  BY <1>4, MentorStepsTurn
<1>5. ASSUME NEW c \in Calls, CallSteps(c)
      PROVE  TurnInv'
  BY <1>5, CallStepsInv
<1>6. ASSUME NEW c \in Calls, PumpSteps(c) \/ ProcessSteps(c) \/ KillJob(c)
      PROVE  TurnInv'
  BY <1>6, CommandStepsTurn
<1> QED
  BY <1>2, <1>3, <1>4, <1>5, <1>6 DEF Next, Proceeds

\* What the store, the executor, the commands and the loop keep at every step.
LEMMA TurnInvHolds == Spec => []TurnInv
<1>1. Init => TurnInv
  BY InitTurnInv
<1>2. TurnInv /\ [Next]_vars => TurnInv'
  BY NextTurnInv
<1> QED
  BY <1>1, <1>2, PTL DEF Spec

\* What a mentor call waits stays within runtime.max_wait_s over any sequence
\* of errors, and output that was shown is never replaced in silence
\* (call_mentor, complete, attempt).
THEOREM MentorCallsKeep == Spec => []MentorCallKeeps
<1>1. TurnInv => MentorCallKeeps
  <2> SUFFICES ASSUME TurnInv
               PROVE  WaitsWithinBudget
    BY DEF MentorCallKeeps, TurnInv, MentorInv, Shows
  <2>1. call.waited \in Nat /\ call.wait \in Nat /\ MaxWait \in Nat
    BY NatConstants DEF TurnInv, MentorInv, CallOK
  <2> QED
    BY <2>1 DEF TurnInv, MentorInv, Budgeted, WaitsWithinBudget
<1> QED
  BY <1>1, TurnInvHolds, PTL

LEMMA AloneInTurn == TurnInv => MutatesAlone
<1> SUFFICES ASSUME TurnInv, NEW c \in Calls, NEW d \in Calls, d # c, Mutating(c),
                    exec[c].at \in {"permit", "run"}, exec[d].at \in {"permit", "run"}
             PROVE  FALSE
  BY DEF MutatesAlone
<1>1. c \in InBatch /\ d \in InBatch /\ ~Done(c) /\ ~Done(d)
  BY DEF TurnInv, BatchFits, Done
<1>2. Mutating(d) /\ d \notin Before(c)
  BY <1>1 DEF TurnInv, InTurn
<1>3. c \notin Before(d)
  BY <1>1, <1>2 DEF TurnInv, InTurn
<1>4. PICK i \in DOMAIN batch, j \in DOMAIN batch : batch[i] = c /\ batch[j] = d
  BY <1>1 DEF InBatch, ToSet
<1>5. i \in Int /\ j \in Int /\ i # j
  BY <1>4, LenProperties DEF TurnInv, TurnTypes
<1>6. CASE i < j
  BY <1>3, <1>4, <1>6 DEF Before
<1>7. CASE j < i
  BY <1>2, <1>4, <1>7 DEF Before
<1> QED
  BY <1>5, <1>6, <1>7

\* While a mutating call may change something no other call of the step is
\* under way; a call is in the trace before its command runs and before its
\* result is; a shell call that is over leaves no process of its group behind,
\* and of a command that exited every chunk was handed over (execute_all,
\* execute_one, finish, pump, Tree).
THEOREM CallsAreKept == Spec => []CallsKeep
<1>1. TurnInv => CallsKeep
  <2> SUFFICES ASSUME TurnInv
               PROVE  CallsKeep
    OBVIOUS
  <2>1. TypeOK
    <3>1. ASSUME NEW c \in Calls
          PROVE  /\ DOMAIN proc[c] = DOMAIN NoProcess
                 /\ proc[c].wrote \in 0 .. MaxOutput
                 /\ proc[c].unread + proc[c].sunk = proc[c].wrote
      <4>1. proc[c] \in Process /\ Counts(proc[c])
        BY DEF TurnInv, ProcOK
      <4> QED
        BY <4>1 DEF Process, Counts, NoProcess
    <3>2. loop.at \in {"guard", "mentor", "tools", "results", "end"} /\ loop.step \in 0 .. MaxSteps
      BY DEF TurnInv, TurnTypes
    <3> QED
      BY <3>1, <3>2 DEF TypeOK, TurnInv, TurnTypes, MentorInv, CallOK
  <2>2. MutatesAlone
    BY AloneInTurn
  <2>3. TraceTellsCalls
    BY DEF TraceTellsCalls, TurnInv, TraceFits, CommandsFit, Recorded
  <2>4. NoProcessLeft
    BY DEF NoProcessLeft, TurnInv, CommandsFit, Pumping
  <2>5. OutputWhole
    <3> SUFFICES ASSUME NEW c \in Calls, proc[c].ended = "exited"
                 PROVE  proc[c].sunk = proc[c].wrote
      BY DEF OutputWhole
    <3>1. proc[c] \in Process /\ Counts(proc[c]) /\ proc[c].unread = 0
      BY DEF TurnInv, ProcOK, Ends
    <3>2. proc[c].sunk \in Nat
      BY <3>1 DEF Process
    <3> QED
      BY <3>1, <3>2 DEF Counts
  <2> QED
    BY <2>1, <2>2, <2>3, <2>4, <2>5 DEF CallsKeep
<1> QED
  BY <1>1, TurnInvHolds, PTL

LEMMA NothingStarts ==
    ASSUME TurnInv, [Next]_vars, cancelled, NEW c \in Calls, exec'[c].at = "run"
    PROVE  exec[c].at = "run"
<1>1. CASE UNCHANGED exec
  BY <1>1
<1>2. ASSUME NEW d \in Calls, CallSteps(d)
      PROVE  exec[c].at = "run"
  <2>1. PICK l, k : Goes(d, l, k) /\ l # "run"
    <3>1. CASE RecordCall(d)
      BY <3>1 DEF RecordCall, AfterRefusal
    <3>2. CASE Deny(d) \/ Timeout(d) \/ CancelCall(d) \/ Finish(d)
      BY <3>2 DEF Deny, Timeout, CancelCall, Finish
    <3>3. CASE Return(d)
      <4>1. \E k : Goes(d, "finish", k)
        BY <3>3, Zenon DEF Return
      <4> QED
        BY <4>1
    <3>4. ~Allow(d)
      BY DEF Allow
    <3> QED
      BY <1>2, <3>1, <3>2, <3>3, <3>4 DEF CallSteps
  <2> QED
    BY <2>1 DEF Goes, TurnInv, TurnTypes
<1>3. CASE Respond
  <2>1. \/ UNCHANGED exec
        \/ exec' = [d \in Calls |-> IF d \in ToSet(CallsOf(call.reply))
                                    THEN [at |-> "queued", kind |-> "none"] ELSE exec[d]]
    BY <1>3 DEF Respond
  <2> QED
    BY <2>1
<1>4. CASE LoopSteps /\ ~Respond
  BY <1>1, <1>4 DEF LoopSteps, StopAtTop, StartStep, MentorFails, PushResults, FinishTools
<1>5. CASE MentorSteps
  <2>1. \A from, next : Record(from, next) => MentorOnly
    BY DEF Record
  <2> QED
    BY <1>1, <1>5, <2>1 DEF MentorSteps, RecordRequest, NoteError, Waited, CancelWait, Answered,
       Rejected, Receive, Break, BackedOff, CancelAttempt, MentorOnly
<1>6. ASSUME NEW d \in Calls, PumpSteps(d) \/ ProcessSteps(d) \/ KillJob(d)
      PROVE  exec[c].at = "run"
  BY <1>1, <1>6 DEF PumpSteps, ProcessSteps, KillJob, Stopped, Deadline, Reap, GraceOver, Sink,
     Closed, Write, ChildExits, KidExits, StrayExits, Becomes
<1>7. CASE UNCHANGED vars \/ Quiescent \/ Cancel
  BY <1>1, <1>7 DEF vars, Quiescent, Cancel
<1> QED
  BY <1>2, <1>3, <1>4, <1>5, <1>6, <1>7 DEF Next, Proceeds

\* How the pump of a cancelled job ends, if it ends.
LEMMA JobStops ==
    ASSUME TurnInv, [Next]_vars, cancelled, NEW c \in Calls, ToolOf[c] = "job",
           proc[c].ended = "none"
    PROVE  proc'[c].ended \in {"none", "killed"}
<1>1. CASE UNCHANGED proc
  BY <1>1
<1>2. ASSUME NEW d \in Calls, NEW p, proc' = [proc EXCEPT ![d] = p],
             d = c => p.ended \in {"none", "killed"}
      PROVE  proc'[c].ended \in {"none", "killed"}
  BY <1>2 DEF TurnInv, ProcOK
<1>3. proc[c] \in Process
  BY DEF TurnInv, ProcOK
<1>4. ASSUME NEW d \in Calls, CallSteps(d)
      PROVE  proc'[c].ended \in {"none", "killed"}
  <2>1. CASE Allow(d)
    <3>1. CASE UNCHANGED proc
      BY <1>1, <3>1
    <3>2. CASE \E s \in Shapes : proc' = [proc EXCEPT ![d] = Spawned(s)]
      BY <1>2, <3>2, ProcessTypes
    <3> QED
      BY <2>1, <3>1, <3>2 DEF Allow
  <2>2. CASE CancelCall(d)
    <3>1. CASE exec[d].at = "run" /\ Pumping(d)
      <4>1. ToolOf[d] = "shell"
        BY <3>1 DEF TurnInv, CommandsFit, Pumping
      <4>2. proc' = [proc EXCEPT ![d] = Drop(proc[d])] /\ d # c
        BY <2>2, <3>1, <4>1 DEF CancelCall, TurnInv, ProcOK
      <4> QED
        BY <1>2, <4>2
    <3>2. CASE ~(exec[d].at = "run" /\ Pumping(d))
      BY <1>1, <2>2, <3>2 DEF CancelCall
    <3> QED
      BY <3>1, <3>2
  <2>3. CASE RecordCall(d) \/ Deny(d) \/ Return(d) \/ Timeout(d) \/ Finish(d)
    BY <1>1, <2>3 DEF RecordCall, Deny, Return, Timeout, Finish
  <2> QED
    BY <1>4, <2>1, <2>2, <2>3 DEF CallSteps
<1>5. ASSUME NEW d \in Calls, PumpSteps(d)
      PROVE  proc'[c].ended \in {"none", "killed"}
  <2>1. CASE d = c
    <3>1. StopReady(c)
      BY DEF StopReady, StopsOn
    <3>2. Stopped(c)
      BY <1>5, <2>1, <3>1 DEF PumpSteps, Deadline, Reap, GraceOver, Sink, Closed
    <3> DEFINE K == Kill(proc[c])
               p == [K EXCEPT !.ended = "killed", !.armed = TRUE]
    <3>3. proc' = [proc EXCEPT ![c] = p]
      BY <3>2 DEF Stopped, KilledFor, Becomes
    <3>4. K \in Process
      BY <1>3, KillType DEF TurnInv, ProcOK
    <3> HIDE DEF K
    <3>5. p.ended = "killed"
      BY <3>4 DEF Process
    <3> HIDE DEF p
    <3> QED
      BY <1>2, <3>3, <3>5
  <2>2. CASE d # c
    <3>1. PICK p : proc' = [proc EXCEPT ![d] = p]
      BY <1>5 DEF PumpSteps, Stopped, Deadline, Reap, GraceOver, Sink, Closed, Becomes
    <3> QED
      BY <1>2, <2>2, <3>1
  <2> QED
    BY <2>1, <2>2
<1>6. ASSUME NEW d \in Calls, ProcessSteps(d) \/ KillJob(d)
      PROVE  proc'[c].ended \in {"none", "killed"}
  <2>1. PICK p : /\ proc' = [proc EXCEPT ![d] = p]
                 /\ \/ p = [proc[d] EXCEPT !.wrote = @ + 1, !.unread = @ + 1]
                    \/ p = [proc[d] EXCEPT !.child = FALSE]
                    \/ p = [proc[d] EXCEPT !.kid = FALSE]
                    \/ p = [proc[d] EXCEPT !.stray = FALSE]
                    \/ p = [proc[d] EXCEPT !.stop = TRUE]
    BY <1>6 DEF ProcessSteps, Write, ChildExits, KidExits, StrayExits, KillJob, Becomes
  <2>2. d = c => p.ended = "none"
    <3> DEFINE q == proc[d]
    <3> HIDE DEF q
    <3> SUFFICES ASSUME d = c
                 PROVE  p.ended = "none"
      OBVIOUS
    <3>1. q \in Process /\ q.ended = "none"
      BY <1>3 DEF q
    <3>2. \/ p = [q EXCEPT !.wrote = @ + 1, !.unread = @ + 1]
          \/ p = [q EXCEPT !.child = FALSE]
          \/ p = [q EXCEPT !.kid = FALSE]
          \/ p = [q EXCEPT !.stray = FALSE]
          \/ p = [q EXCEPT !.stop = TRUE]
      BY <2>1 DEF q
    <3>3. p.ended = q.ended
      BY <3>1, <3>2 DEF Process
    <3> QED
      BY <3>1, <3>3
  <2> QED
    BY <1>2, <2>1, <2>2
<1>7. CASE LoopSteps \/ UNCHANGED vars \/ Quiescent \/ Cancel
  BY <1>1, <1>7 DEF LoopSteps, StopAtTop, StartStep, MentorFails, Respond, PushResults,
     FinishTools, LoopOnly, vars, Quiescent, Cancel
<1>8. CASE MentorSteps
  <2>1. \A from, next : Record(from, next) => MentorOnly
    BY DEF Record
  <2> QED
    BY <1>1, <1>8, <2>1 DEF MentorSteps, RecordRequest, NoteError, Waited, CancelWait, Answered,
       Rejected, Receive, Break, BackedOff, CancelAttempt, MentorOnly
<1> QED
  BY <1>4, <1>5, <1>6, <1>7, <1>8 DEF Next, Proceeds

\* Once the agent is cancelled no further call passes its permit, and a job
\* that is not detached is killed rather than run on to its timeout (run,
\* Jobs::start).
THEOREM CancellationStops == Spec => CancelStops
<1>1. TurnInv /\ [Next]_vars =>
          [cancelled => \A c \in Calls : exec'[c].at = "run" => exec[c].at = "run"]_vars
  BY NothingStarts
<1>2. TurnInv /\ [Next]_vars =>
          [\A c \in Calls : ToolOf[c] = "job" /\ cancelled /\ proc[c].ended = "none"
              => proc'[c].ended \in {"none", "killed"}]_vars
  BY JobStops
<1> QED
  BY <1>1, <1>2, TurnInvHolds, PTL DEF Spec, CancelStops, NothingStartsCancelled, JobsDieCancelled

-----------------------------------------------------------------------------
(* The promise of the loop. *)

InTrace == {c \in Calls : <<"call", c>> \in log}

LEMMA TurnImplementsStep ==
    ASSUME TurnInv, [Next]_vars
    PROVE  [Outline!Next]_<<history, InTrace, ~At("end")>>
<1> DEFINE Goal == [Outline!Next]_<<history, InTrace, ~At("end")>>
<1>1. ASSUME UNCHANGED <<history, log, loop>>
      PROVE  Goal
  BY <1>1 DEF InTrace, At
<1>2. loop \in [at : {"guard", "mentor", "tools", "results", "end"}, step : 0 .. MaxSteps]
  BY DEF TurnInv, TurnTypes
<1>3. ASSUME UNCHANGED <<history, log>>, ~At("end"), loop'.at = "end"
      PROVE  Goal
  BY <1>3 DEF InTrace, At, Outline!Next, Outline!Ends
<1>4. ASSUME UNCHANGED <<history, log>>, ~At("end"), loop'.at # "end"
      PROVE  Goal
  BY <1>4 DEF InTrace, At
<1>5. CASE StopAtTop \/ StartStep \/ MentorFails \/ FinishTools
  <2>1. UNCHANGED <<history, log>> /\ ~At("end")
    BY <1>5 DEF StopAtTop, StartStep, MentorFails, FinishTools, LoopOnly, At
  <2> QED
    BY <1>3, <1>4, <2>1
<1>6. CASE Respond
  <2> DEFINE m == [calls |-> CallsOf(call.reply), kinds |-> << >>]
  <2>1. /\ At("mentor") /\ call.at = "answered"
        /\ history' = Append(history, m) /\ UNCHANGED log
    BY <1>6 DEF Respond, LoopOnly
  <2>2. m.calls \in Seq(Calls) /\ m.kinds = << >>
    BY <2>1, RepliesAssumption DEF TurnInv, MentorInv, CallOK
  <2>3. m \in Message
    BY <2>2, EmptySeq DEF Message
  <2>4. history \in Seq(Message)
    BY DEF TurnInv, TurnTypes, Message
  <2>5. Len(history') = Len(history) + 1 /\ history'[Len(history')] = m
    BY <2>1, <2>3, <2>4, AppendedMessage
  <2>6. ~Outline!Open
    BY <2>1 DEF TurnInv, BatchFits
  <2> HIDE DEF m
  <2>7. Outline!Added = m /\ Outline!Grows
    BY <2>1, <2>5 DEF Outline!Added, Outline!Grows
  <2>8. Outline!MentorReplies
    BY <2>1, <2>2, <2>6, <2>7 DEF Outline!MentorReplies, At
  <2> QED
    BY <2>8 DEF Outline!Next
<1>7. CASE PushResults
  <2>1. /\ At("tools") /\ \A c \in InBatch : Done(c)
        /\ history' = Append(history, ResultsOf) /\ UNCHANGED log
        /\ loop' = [loop EXCEPT !.at = "results"]
    BY <1>7 DEF PushResults, LoopOnly, Loop
  <2>2. /\ ResultsOf \in Message /\ ResultsOf.calls = batch
        /\ Len(ResultsOf.kinds) = Len(batch) /\ DOMAIN ResultsOf.kinds = 1 .. Len(batch)
        /\ \A i \in 1 .. Len(batch) : ResultsOf.kinds[i] = exec[batch[i]].kind
    BY <2>1, ResultsType
  <2>3. history \in Seq(Message) /\ batch \in Seq(Calls)
    BY DEF TurnInv, TurnTypes, Message
  <2>4. Len(history') = Len(history) + 1 /\ history'[Len(history')] = ResultsOf
    BY <2>1, <2>2, <2>3, AppendedMessage
  <2>5. /\ history # << >>
        /\ history[Len(history)].calls = batch /\ history[Len(history)].kinds = << >>
    BY <2>1 DEF TurnInv, BatchFits, Last
  <2>6. Outline!Added = ResultsOf /\ Outline!Grows
    BY <2>1, <2>4 DEF Outline!Added, Outline!Grows
  <2>7. \A i \in DOMAIN ResultsOf.kinds :
            ResultsOf.kinds[i] \in Outline!Ran => ResultsOf.calls[i] \in InTrace
    <3> SUFFICES ASSUME NEW i \in 1 .. Len(batch), exec[batch[i]].kind \in Outline!Ran
                 PROVE  batch[i] \in InTrace
      BY <2>2
    <3>1. batch[i] \in Calls /\ batch[i] \in InBatch
      BY <2>3, ElementOfSeq, LenProperties DEF InBatch, ToSet
    <3>2. exec[batch[i]].at = "done" /\ exec[batch[i]].kind # "failed"
      BY <2>1, <3>1 DEF Done, Outline!Ran
    <3> QED
      BY <3>1, <3>2 DEF TurnInv, TraceFits, Recorded, InTrace
  <2>8. UNCHANGED <<InTrace, At("end")>>
    BY <1>2, <2>1 DEF InTrace, At
  <2>9. ResultsOf.kinds \in Seq(Outline!Kinds)
    BY <2>2 DEF Message
  <2>10. Outline!Results
    BY <2>1, <2>2, <2>5, <2>6, <2>7, <2>8, <2>9
    DEF Outline!Results, Outline!Open, At, InTrace
  <2> QED
    BY <2>10 DEF Outline!Next
<1>8. ASSUME NEW c \in Calls, CallSteps(c)
      PROVE  Goal
  <2>1. /\ exec[c].at \in {"queued", "permit", "run", "finish"} /\ UNCHANGED <<loop, history>>
        /\ log' \in {log, log \cup {<<"call", c>>}, log \cup {<<"result", c>>}}
    BY <1>8 DEF CallSteps, RecordCall, Deny, Allow, Return, Timeout, CancelCall, Finish, Elsewhere
  <2>2. ~At("end")
    <3>1. c \in InBatch
      BY <2>1 DEF TurnInv, BatchFits
    <3>2. batch # << >>
      BY <3>1 DEF InBatch, ToSet
    <3> QED
      BY <3>2 DEF TurnInv, BatchFits, At
  <2>3. InTrace \subseteq InTrace' /\ InTrace' \subseteq Calls
    BY <2>1 DEF InTrace
  <2>4. Outline!Records
    BY <2>1, <2>2, <2>3 DEF Outline!Records, InTrace, At
  <2> QED
    BY <2>4 DEF Outline!Next
<1>9. CASE MentorSteps
  <2>1. \A from, next : Record(from, next) => MentorOnly
    BY DEF Record
  <2> QED
    BY <1>1, <1>9, <2>1 DEF MentorSteps, RecordRequest, NoteError, Waited, CancelWait, Answered,
       Rejected, Receive, Break, BackedOff, CancelAttempt, MentorOnly
<1>10. ASSUME NEW c \in Calls, PumpSteps(c) \/ ProcessSteps(c) \/ KillJob(c)
       PROVE  Goal
  BY <1>1, <1>10 DEF PumpSteps, ProcessSteps, KillJob, Stopped, Deadline, Reap, GraceOver, Sink,
     Closed, Write, ChildExits, KidExits, StrayExits, Becomes
<1>11. CASE UNCHANGED vars \/ Quiescent \/ Cancel
  BY <1>1, <1>11 DEF vars, Quiescent, Cancel
<1> QED
  BY <1>5, <1>6, <1>7, <1>8, <1>9, <1>10, <1>11 DEF Next, Proceeds, LoopSteps

\* The run keeps the promise of LoopOutline (run_loop, execute_all): replies
\* and results alternate, there is one result per tool call in the order of
\* the calls, and none is said to have run that had not been recorded.
THEOREM TurnKeepsThePromise == Spec => ImplementsOutline
<1>1. Init => Outline!Init
  BY DEF Init, Outline!Init, At
<1>2. TurnInv /\ [Next]_vars => [Outline!Next]_<<history, InTrace, ~At("end")>>
  BY TurnImplementsStep
<1> QED
  BY <1>1, <1>2, TurnInvHolds, PTL DEF Spec, ImplementsOutline, Outline!Spec, InTrace
=============================================================================
