----------------------- MODULE DaemonConnectionProofs -----------------------
(***************************************************************************)
(* What holds of DaemonConnection for every value of its constants: the    *)
(* two sides together carry out a call at most once and answer it truly    *)
(* (RemoteCall), nothing runs before the handshake, a shutdown answers     *)
(* what was asked before it closes (CallInv), and a stream of events has   *)
(* them in order and knows of those it has lost (StreamInv).               *)
(***************************************************************************)
EXTENDS DaemonConnection, FiniteSetTheorems, SequenceTheorems, TLAPS

-----------------------------------------------------------------------------
(* Queues. *)

LEMMA TailFacts ==
    ASSUME NEW S, NEW s \in Seq(S), s # << >>
    PROVE  /\ Head(s) \in S /\ Tail(s) \in Seq(S) /\ Len(s) \in Nat \ {0}
           /\ Head(s) = s[1] /\ Len(Tail(s)) = Len(s) - 1
           /\ \A i \in 1 .. Len(Tail(s)) : Tail(s)[i] = s[i + 1]
           /\ ToSet(s) = {Head(s)} \cup ToSet(Tail(s))
<1>1. /\ Head(s) \in S /\ Tail(s) \in Seq(S) /\ Len(Tail(s)) = Len(s) - 1
      /\ \A i \in 1 .. Len(Tail(s)) : Tail(s)[i] = s[i + 1]
  BY HeadTailProperties
<1>2. Len(s) \in Nat \ {0} /\ Head(s) = s[1]
  BY EmptySeq
<1>3. DOMAIN s = 1 .. Len(s) /\ DOMAIN Tail(s) = 1 .. Len(s) - 1
  BY <1>1, LenProperties
<1>4. ToSet(s) = {Head(s)} \cup ToSet(Tail(s))
  <2>1. ASSUME NEW i \in 1 .. Len(s)
        PROVE  s[i] = Head(s) \/ \E j \in 1 .. Len(s) - 1 : s[i] = Tail(s)[j]
    <3>1. CASE i = 1
      BY <1>2, <3>1
    <3>2. CASE i # 1
      <4>1. i - 1 \in 1 .. Len(s) - 1 /\ (i - 1) + 1 = i
        BY <1>2, <3>2
      <4> QED
        BY <1>1, <4>1
    <3> QED
      BY <3>1, <3>2
  <2>2. ASSUME NEW j \in 1 .. Len(s) - 1
        PROVE  j + 1 \in 1 .. Len(s) /\ Tail(s)[j] = s[j + 1]
    BY <1>1, <1>2
  <2>3. 1 \in 1 .. Len(s)
    BY <1>2
  <2>4. /\ ToSet(s) = {s[i] : i \in 1 .. Len(s)}
        /\ ToSet(Tail(s)) = {Tail(s)[j] : j \in 1 .. Len(s) - 1}
    BY <1>3 DEF ToSet
  <2>5. ToSet(s) \subseteq {Head(s)} \cup ToSet(Tail(s))
    BY <2>1, <2>4
  <2>6. Head(s) \in ToSet(s) /\ ToSet(Tail(s)) \subseteq ToSet(s)
    BY <1>2, <2>2, <2>3, <2>4
  <2> QED
    BY <2>5, <2>6
<1> QED
  BY <1>1, <1>2, <1>4

LEMMA AppendFacts ==
    ASSUME NEW S, NEW s \in Seq(S), NEW x \in S
    PROVE  Append(s, x) \in Seq(S) /\ ToSet(Append(s, x)) = ToSet(s) \cup {x}
<1>1. /\ Append(s, x) \in Seq(S) /\ Len(Append(s, x)) = Len(s) + 1
      /\ \A i \in 1 .. Len(s) : Append(s, x)[i] = s[i]
      /\ Append(s, x)[Len(s) + 1] = x /\ Len(s) \in Nat
  BY AppendProperties, LenProperties
<1>2. DOMAIN s = 1 .. Len(s) /\ DOMAIN Append(s, x) = 1 .. Len(s) + 1
  BY <1>1, LenProperties
<1> QED
  BY <1>1, <1>2 DEF ToSet

-----------------------------------------------------------------------------
(* The calls. *)

Piece == [req : Requests, part : {"whole", "head", "tail"}]
Sent  == [is : {"reply"}, req : Requests \cup {NoRequest}, says : Says]
         \cup [is : {"event"}, no : Int]

In(r) == \E i \in 1 .. Len(up) : up[i].req = r
RepliesTo(r) == {m \in ToSet(outq) \cup ToSet(down) : m.is = "reply" /\ m.req = r}

Unsent  == {"idle", "insert", "send"}
Open(r) == result[r] \in {"none", "unknown"}

CallTypes ==
    /\ up \in Seq(Piece) /\ down \in Seq(Sent) /\ outq \in Seq(Sent)
    /\ emitted \in Int /\ receiver \in Int
    /\ handler \in [Requests -> {"none", "running", "found", "subscribed", "ok", "error",
                                 "finished", "ended"}]
    /\ ran \subseteq Requests
    /\ pc \in [Requests -> Unsent \cup {"waiting", "take", "register", "done"}]
    /\ answer \in [Requests -> Says \cup {"none"}]
    /\ result \in [Requests -> Says \cup {"none", "unknown"}]

\* A call has one line, whole or in two pieces.
LinesOnce ==
    \A i, j \in 1 .. Len(up) :
        i < j /\ up[i].req = up[j].req => up[i].part = "head" /\ up[j].part = "tail"

Truly(r, says) ==
    IF says = "refused" THEN r \notin ran /\ handler[r] = "none" ELSE r \in ran

\* Until its line has been read nothing has happened to a call; until it has
\* been answered its result is open; what is answered is true.
CallTold(r) ==
    /\ pc[r] \in Unsent \/ In(r) \/ partial = r =>
          /\ handler[r] = "none" /\ r \notin ran /\ answer[r] = "none"
          /\ RepliesTo(r) = {} /\ Open(r)
    /\ pc[r] \in Unsent => ~In(r) /\ partial # r
    /\ pc[r] \in Unsent \cup {"waiting"} => result[r] = "none"
    /\ handler[r] = "running" => r \notin ran
    /\ handler[r] \notin {"none", "running"} => r \in ran
    /\ handler[r] \notin {"none", "finished", "ended"} =>
          answer[r] = "none" /\ RepliesTo(r) = {} /\ Open(r)
    /\ \A m \in RepliesTo(r) : Truly(r, m.says)
    /\ answer[r] # "none" => Truly(r, answer[r])

\* The writer goes with the connection or its client, and leaves no queue.
WriterEnds ==
    /\ ~writerUp => outq = << >>
    /\ ~writerUp => loop = "closed" \/ upEnd
    /\ loop = "closed" => ~writerUp

\* As long as the client is there, a handler that is done has sent its answer,
\* and the loop waits for all of them.
AnswersSent ==
    ~upEnd =>
        \A r \in Requests :
            /\ handler[r] \in {"finished", "ended"} => r \notin pending \/ RepliesTo(r) # {}
            /\ loop \in {"closing", "closed"} => handler[r] \in {"none", "ended"}

CallInv ==
    /\ CallTypes /\ LinesOnce
    /\ \A r \in Requests : CallTold(r)
    /\ WriterEnds /\ AnswersSent /\ HandshakeFirst

-----------------------------------------------------------------------------
(* A call that a step has nothing to do with. *)

LEMMA NotConcerned ==
    ASSUME NEW r \in Requests, CallTold(r),
           In(r)' => In(r), partial' = r => partial = r, RepliesTo(r)' \subseteq RepliesTo(r),
           pc'[r] = pc[r], handler'[r] = handler[r], r \in ran' <=> r \in ran,
           answer'[r] = answer[r], result'[r] = result[r]
    PROVE  CallTold(r)'
  BY DEF CallTold, Truly, Open

\* Sending: what is posted is queued as long as there is a writer.
LEMMA PostFacts ==
    ASSUME CallTypes, WriterEnds, NEW m \in Sent, Post(m), UNCHANGED down
    PROVE  /\ outq' \in Seq(Sent)
           /\ \A r : m.is # "reply" \/ m.req # r => RepliesTo(r)' = RepliesTo(r)
           /\ \A r : RepliesTo(r) \subseteq RepliesTo(r)'
           /\ \A r : RepliesTo(r)' \subseteq RepliesTo(r) \cup {m}
           /\ ~writerUp => outq' = << >>
           /\ writerUp /\ m.is = "reply" => m \in RepliesTo(m.req)'
<1>1. CASE writerUp
  <2>1. outq' = Append(outq, m)
    BY <1>1 DEF Post
  <2>2. outq' \in Seq(Sent) /\ ToSet(outq') = ToSet(outq) \cup {m}
    BY <2>1, AppendFacts DEF CallTypes
  <2> QED
    BY <1>1, <2>2 DEF RepliesTo
<1>2. CASE ~writerUp
  <2>1. outq' = outq /\ outq = << >>
    BY <1>2 DEF Post, WriterEnds
  <2> QED
    BY <1>2, <2>1 DEF CallTypes, RepliesTo
<1> QED
  BY <1>1, <1>2

LEMMA SentTypes ==
    /\ \A r \in Requests \cup {NoRequest}, s \in Says :
          /\ ReplyTo(r, s) \in Sent /\ ReplyTo(r, s).is = "reply"
          /\ ReplyTo(r, s).req = r /\ ReplyTo(r, s).says = s
    /\ \A n \in Int : EventNo(n) \in Sent /\ EventNo(n).is = "event"
    /\ NoRequest \notin Requests
  BY RequestsAssumption DEF ReplyTo, EventNo, Sent

\* A piece of a line is read.
LEMMA PieceRead ==
    ASSUME CallTypes, LinesOnce, up # << >>, up' = Tail(up)
    PROVE  /\ up' \in Seq(Piece) /\ LinesOnce'
           /\ \A r : In(r)' => In(r)
           /\ Head(up).req \in Requests /\ In(Head(up).req)
           /\ \A r : r = Head(up).req /\ Head(up).part # "head" => ~In(r)'
<1>1. /\ Head(up) \in Piece /\ Tail(up) \in Seq(Piece) /\ Len(up) \in Nat \ {0}
      /\ Head(up) = up[1] /\ Len(Tail(up)) = Len(up) - 1
      /\ \A i \in 1 .. Len(Tail(up)) : Tail(up)[i] = up[i + 1]
  BY TailFacts DEF CallTypes
<1>2. \A i \in 1 .. Len(up') : i + 1 \in 1 .. Len(up) /\ up'[i] = up[i + 1]
  BY <1>1
<1>3. LinesOnce'
  <2> SUFFICES ASSUME NEW i \in 1 .. Len(up'), NEW j \in 1 .. Len(up'), i < j,
                      up'[i].req = up'[j].req
               PROVE  up'[i].part = "head" /\ up'[j].part = "tail"
    BY DEF LinesOnce
  <2>1. i + 1 < j + 1 /\ up[i + 1].req = up[j + 1].req
    BY <1>1, <1>2
  <2> QED
    BY <1>2, <2>1 DEF LinesOnce
<1>4. \A r : In(r)' => In(r)
  BY <1>2 DEF In
<1>5. Head(up).req \in Requests /\ In(Head(up).req)
  <2>1. 1 \in 1 .. Len(up)
    BY <1>1
  <2> QED
    BY <1>1, <2>1 DEF In, Piece
<1>6. ASSUME NEW r, r = Head(up).req, Head(up).part # "head", In(r)'
      PROVE  FALSE
  <2>1. PICK i \in 1 .. Len(up') : up'[i].req = r
    BY <1>6 DEF In
  <2>2. 1 \in 1 .. Len(up) /\ 1 < i + 1
    BY <1>1
  <2> QED
    BY <1>1, <1>2, <1>6, <2>1, <2>2 DEF LinesOnce
<1> QED
  BY <1>1, <1>3, <1>4, <1>5, <1>6

\* As long as no handler moves the answers stay.
LEMMA AnswersStay ==
    ASSUME AnswersSent, upEnd => upEnd', pending' \subseteq pending, UNCHANGED handler,
           \A r \in Requests : RepliesTo(r) \subseteq RepliesTo(r)',
           loop' \in {"closing", "closed"} => loop \in {"closing", "closed"}
    PROVE  AnswersSent'
  BY DEF AnswersSent

\* The head of the line is read, or what is left of one that is given up.
LEMMA ReadingTold ==
    ASSUME CallInv, up # << >>, up' = Tail(up),
           partial' \in {partial, NoRequest, Head(up).req},
           UNCHANGED <<pc, handler, ran, answer, result>>,
           \A r \in Requests : RepliesTo(r)' = RepliesTo(r)
    PROVE  \A r \in Requests : CallTold(r)'
<1> SUFFICES ASSUME NEW r \in Requests
             PROVE  CallTold(r)'
  OBVIOUS
<1>1. In(r)' => In(r)
  BY PieceRead DEF CallInv
<1>2. CASE partial' = r => partial = r
  BY <1>1, <1>2, NotConcerned DEF CallInv
<1>3. CASE partial' = r /\ partial # r
  <2>1. In(r)
    BY <1>3, PieceRead, RequestsAssumption DEF CallInv
  <2> QED
    BY <1>1, <2>1 DEF CallInv, CallTold, Truly, Open
<1> QED
  BY <1>2, <1>3

\* The line of r has been read, and a reply is sent or the handler started.
LEMMA LineRead ==
    ASSUME CallInv, NEW r \in Requests, LineEnds(r)
    PROVE  /\ up' \in Seq(Piece) /\ LinesOnce'
           /\ \A q : In(q)' => In(q)
           /\ ~In(r)' /\ partial' = NoRequest /\ loop = "reading"
           /\ pc[r] \notin Unsent /\ handler[r] = "none" /\ r \notin ran
           /\ answer[r] = "none" /\ RepliesTo(r) = {} /\ Open(r)
<1>1. /\ up # << >> /\ up' = Tail(up) /\ partial' = NoRequest /\ loop = "reading"
      /\ Head(up).req = r /\ Head(up).part # "head"
  BY DEF LineEnds
<1>2. /\ up' \in Seq(Piece) /\ LinesOnce' /\ \A q : In(q)' => In(q)
      /\ In(r) /\ ~In(r)'
  BY <1>1, PieceRead DEF CallInv
<1> QED
  BY <1>1, <1>2 DEF CallInv, CallTold

LEMMA ReadStep ==
    ASSUME CallInv, ReadHead \/ ReadUnparsed \/ ReadEof
    PROVE  CallInv'
<1> DEFINE m == ReplyTo(NoRequest, "refused")
<1>1. /\ UNCHANGED <<handler, ran, pc, answer, result, pending, down, upEnd, authed, kind,
                     writerUp, emitted, receiver>>
      /\ outq' = outq \/ Post(m)
      /\ loop' = loop \/ (loop' = "closing" /\ upEnd /\ loop = "reading")
  <2>1. CASE ReadHead
    BY <2>1 DEF ReadHead, client, calls, events
  <2>2. CASE ReadUnparsed
    BY <2>2 DEF ReadUnparsed, client, calls, events
  <2>3. CASE ReadEof
    BY <2>3 DEF ReadEof, client, calls, events, wire
  <2> QED
    BY <2>1, <2>2, <2>3
<1>2. /\ outq' \in Seq(Sent) /\ (~writerUp => outq' = << >>)
      /\ \A r \in Requests : RepliesTo(r)' = RepliesTo(r)
  <2>1. m \in Sent /\ m.is = "reply" /\ \A r \in Requests : m.req # r
    BY SentTypes DEF Says
  <2>2. CASE Post(m)
    BY <1>1, <2>1, <2>2, PostFacts DEF CallInv
  <2>3. CASE outq' = outq
    BY <1>1, <2>3 DEF CallInv, CallTypes, WriterEnds, RepliesTo
  <2> QED
    BY <1>1, <2>2, <2>3
<1>3. /\ up' \in Seq(Piece) /\ LinesOnce'
      /\ \A r \in Requests : CallTold(r)'
  <2>1. CASE ReadHead
    <3>1. up # << >> /\ up' = Tail(up) /\ partial' = Head(up).req
      BY <2>1 DEF ReadHead
    <3> QED
      BY <1>1, <1>2, <3>1, PieceRead, ReadingTold DEF CallInv
  <2>2. CASE ReadUnparsed
    <3>1. up # << >> /\ up' = Tail(up) /\ partial' \in {partial, NoRequest}
      BY <2>2 DEF ReadUnparsed, LineEnds
    <3> QED
      BY <1>1, <1>2, <3>1, PieceRead, ReadingTold DEF CallInv
  <2>3. CASE ReadEof
    <3>1. UNCHANGED up /\ partial' \in {partial, NoRequest}
      BY <2>3 DEF ReadEof, wire
    <3>2. \A r \in Requests : (In(r)' => In(r)) /\ (partial' = r => partial = r)
      BY <3>1, SentTypes DEF In
    <3>3. \A r \in Requests : CallTold(r)'
      BY <1>1, <1>2, <3>2, NotConcerned DEF CallInv
    <3> QED
      BY <3>1, <3>3 DEF CallInv, CallTypes, LinesOnce
  <2> QED
    BY <2>1, <2>2, <2>3
<1>4. CallTypes'
  BY <1>1, <1>2, <1>3 DEF CallInv, CallTypes
<1>5. WriterEnds' /\ HandshakeFirst'
  BY <1>1, <1>2 DEF CallInv, WriterEnds, HandshakeFirst
<1>6. AnswersSent'
  <2>1. CASE upEnd
    BY <1>1, <2>1 DEF AnswersSent
  <2>2. CASE ~upEnd
    BY <1>1, <1>2, <2>2, AnswersStay DEF CallInv
  <2> QED
    BY <2>1, <2>2
<1> QED
  BY <1>3, <1>4, <1>5, <1>6 DEF CallInv

\* daemon.hello and what is refused are answered by the loop.
LEMMA LoopAnswers ==
    ASSUME CallInv, NEW r \in Requests, Hello(r) \/ Refuse(r)
    PROVE  CallInv'
<1>1. /\ UNCHANGED <<handler, pc, answer, result, pending, down, upEnd, kind, loop,
                     writerUp, emitted, receiver>>
      /\ LineEnds(r)
  BY DEF Hello, Refuse, client, calls, events
<1>2. PICK says \in {"ok", "refused"} :
          /\ Post(ReplyTo(r, says))
          /\ says = "ok" => ran' = ran \cup {r} /\ authed'
          /\ says = "refused" => UNCHANGED <<ran, authed>>
  BY DEF Hello, Refuse
<1> DEFINE m == ReplyTo(r, says)
<1>3. m \in Sent /\ m.is = "reply" /\ m.req = r /\ m.says = says
  BY SentTypes DEF Says
<1> HIDE DEF m
<1>4. /\ outq' \in Seq(Sent) /\ (~writerUp => outq' = << >>)
      /\ \A q : q # r => RepliesTo(q)' = RepliesTo(q)
      /\ \A q : RepliesTo(q) \subseteq RepliesTo(q)'
      /\ RepliesTo(r)' \subseteq RepliesTo(r) \cup {m}
  <2>1. Post(m)
    BY <1>2 DEF m
  <2> QED
    BY <1>1, <1>3, <2>1, PostFacts DEF CallInv
<1>5. /\ up' \in Seq(Piece) /\ LinesOnce' /\ \A q : In(q)' => In(q)
      /\ ~In(r)' /\ partial' = NoRequest /\ loop = "reading"
      /\ pc[r] \notin Unsent /\ handler[r] = "none" /\ r \notin ran
      /\ answer[r] = "none" /\ RepliesTo(r) = {} /\ Open(r)
  BY <1>1, LineRead
<1>6. ASSUME NEW q \in Requests
      PROVE  CallTold(q)'
  <2>1. CASE q = r
    <3>1. partial' # r
      BY <1>5, SentTypes
    <3>2. \A n \in RepliesTo(r)' : n.says = says
      BY <1>3, <1>4, <1>5
    <3>3. \A n \in RepliesTo(r)' : Truly(r, n.says)'
      BY <1>1, <1>2, <1>5, <3>2 DEF Truly
    <3>4. pc'[r] = pc[r] /\ handler'[r] = "none" /\ answer'[r] = "none" /\ result'[r] = result[r]
      BY <1>1, <1>5
    <3>5. pc[r] # "waiting" \/ result[r] = "none"
      BY DEF CallInv, CallTold
    <3> QED
      BY <1>5, <2>1, <3>1, <3>3, <3>4, <3>5 DEF CallTold
  <2>2. CASE q # r
    <3>1. (In(q)' => In(q)) /\ partial' # q /\ RepliesTo(q)' = RepliesTo(q)
      BY <1>4, <1>5, <2>2, SentTypes
    <3>2. q \in ran' <=> q \in ran
      BY <1>2, <2>2
    <3> QED
      BY <1>1, <3>1, <3>2, NotConcerned DEF CallInv
  <2> QED
    BY <2>1, <2>2
<1>7. CallTypes'
  BY <1>1, <1>2, <1>4, <1>5 DEF CallInv, CallTypes
<1>8. WriterEnds' /\ HandshakeFirst'
  BY <1>1, <1>2, <1>4 DEF CallInv, WriterEnds, HandshakeFirst
<1>9. AnswersSent'
  BY <1>1, <1>4, AnswersStay DEF CallInv
<1> QED
  BY <1>5, <1>6, <1>7, <1>8, <1>9 DEF CallInv

LEMMA DispatchStep ==
    ASSUME CallInv, NEW r \in Requests, Dispatch(r)
    PROVE  CallInv'
<1>1. /\ UNCHANGED <<ran, outq, pc, answer, result, pending, down, upEnd, kind, authed, loop,
                     writerUp, emitted, receiver>>
      /\ LineEnds(r) /\ Admitted(r) /\ handler' = [handler EXCEPT ![r] = "running"]
  BY DEF Dispatch, client, calls, events, HandlerGoes
<1>2. /\ up' \in Seq(Piece) /\ LinesOnce' /\ \A q : In(q)' => In(q)
      /\ ~In(r)' /\ partial' = NoRequest /\ loop = "reading"
      /\ pc[r] \notin Unsent /\ handler[r] = "none" /\ r \notin ran
      /\ answer[r] = "none" /\ RepliesTo(r) = {} /\ Open(r)
  BY <1>1, LineRead
<1>3. /\ \A q : RepliesTo(q)' = RepliesTo(q)
      /\ handler'[r] = "running" /\ \A q \in Requests \ {r} : handler'[q] = handler[q]
  BY <1>1 DEF CallInv, CallTypes, RepliesTo
<1>4. ASSUME NEW q \in Requests
      PROVE  CallTold(q)'
  <2>1. CASE q = r
    <3>1. partial' # r
      BY <1>2, SentTypes
    <3> QED
      BY <1>1, <1>2, <1>3, <2>1, <3>1 DEF CallInv, CallTold, Open
  <2>2. CASE q # r
    <3>1. (In(q)' => In(q)) /\ partial' # q /\ RepliesTo(q)' = RepliesTo(q) /\ handler'[q] = handler[q]
      BY <1>2, <1>3, <2>2, SentTypes
    <3> QED
      BY <1>1, <3>1, NotConcerned DEF CallInv
  <2> QED
    BY <2>1, <2>2
<1>5. CallTypes'
  BY <1>1, <1>2 DEF CallInv, CallTypes
<1>6. WriterEnds' /\ HandshakeFirst'
  BY <1>1, <1>3 DEF CallInv, WriterEnds, HandshakeFirst, Admitted
<1>7. AnswersSent'
  BY <1>1, <1>2, <1>3 DEF CallInv, AnswersSent
<1> QED
  BY <1>2, <1>4, <1>5, <1>6, <1>7 DEF CallInv

\* A handler does its work, or looks at the agent.
LEMMA HandlerStep ==
    ASSUME CallInv, NEW r \in Requests,
           HandlerReturns(r) \/ HandleRun(r) \/ Find(r) \/ Subscribe(r) \/ CheckFinished(r)
    PROVE  CallInv'
<1>1. /\ UNCHANGED <<up, partial, outq, pc, answer, result, pending, down, upEnd, kind, authed,
                     loop, writerUp, emitted>>
      /\ receiver' \in {receiver, 0, Terminal, emitted, NoReceiver}
  BY DEF HandlerReturns, HandleRun, Find, Subscribe, CheckFinished, wire, client, calls, events
<1>2. PICK h \in {"found", "subscribed", "ok", "error"} :
          /\ handler' = [handler EXCEPT ![r] = h]
          /\ handler[r] \in {"running", "found", "subscribed"}
          /\ IF handler[r] = "running" THEN ran' = ran \cup {r} ELSE ran' = ran
  BY DEF HandlerReturns, HandleRun, Find, Subscribe, CheckFinished, HandlerGoes
<1>3. /\ \A q : RepliesTo(q)' = RepliesTo(q)
      /\ handler'[r] = h /\ \A q \in Requests \ {r} : handler'[q] = handler[q]
  BY <1>1, <1>2 DEF CallInv, CallTypes, RepliesTo
<1>4. r \in ran' /\ \A q \in Requests \ {r} : q \in ran' <=> q \in ran
  BY <1>2 DEF CallInv, CallTold
<1>5. ASSUME NEW q \in Requests
      PROVE  CallTold(q)'
  <2>1. In(q)' => In(q)
    BY <1>1 DEF In
  <2>2. CASE q = r
    BY <1>1, <1>2, <1>3, <1>4, <2>1, <2>2 DEF CallInv, CallTold, Open
  <2>3. CASE q # r
    BY <1>1, <1>3, <1>4, <2>1, <2>3, NotConcerned DEF CallInv
  <2> QED
    BY <2>2, <2>3
<1>6. CallTypes'
  <2>1. {0, Terminal, NoReceiver} \subseteq Int
    BY BoundsAssumption DEF Terminal, NoReceiver
  <2> QED
    BY <1>1, <1>2, <1>4, <2>1 DEF CallInv, CallTypes
<1>7. WriterEnds' /\ HandshakeFirst' /\ LinesOnce'
  BY <1>1, <1>2, <1>3, <1>4 DEF CallInv, WriterEnds, HandshakeFirst, LinesOnce
<1>8. AnswersSent'
  BY <1>1, <1>2, <1>3 DEF CallInv, AnswersSent
<1> QED
  BY <1>5, <1>6, <1>7, <1>8 DEF CallInv

LEMMA RespondStep ==
    ASSUME CallInv, NEW r \in Requests, Respond(r)
    PROVE  CallInv'
<1>1. /\ UNCHANGED <<up, partial, ran, pc, answer, result, pending, down, upEnd, kind, authed,
                     loop, writerUp, emitted, receiver>>
      /\ handler[r] \in {"ok", "error"}
      /\ IF loop = "closing" THEN handler' = [handler EXCEPT ![r] = "ended"] /\ UNCHANGED outq
         ELSE handler' = [handler EXCEPT ![r] = "finished"] /\ Post(ReplyTo(r, handler[r]))
  BY DEF Respond, HandlerGoes, wire, client, calls, events
<1> DEFINE m == ReplyTo(r, handler[r])
<1>2. m \in Sent /\ m.is = "reply" /\ m.req = r /\ m.says = handler[r]
  BY <1>1, SentTypes DEF Says
<1>3. /\ handler'[r] \in {"finished", "ended"} /\ \A q \in Requests \ {r} : handler'[q] = handler[q]
      /\ handler' \in [Requests -> {"none", "running", "found", "subscribed", "ok", "error",
                                    "finished", "ended"}]
  BY <1>1 DEF CallInv, CallTypes
<1> HIDE DEF m
<1>4. /\ outq' \in Seq(Sent) /\ (~writerUp => outq' = << >>)
      /\ \A q : q # r => RepliesTo(q)' = RepliesTo(q)
      /\ \A q : RepliesTo(q) \subseteq RepliesTo(q)'
      /\ RepliesTo(r)' \subseteq RepliesTo(r) \cup {m}
      /\ loop # "closing" /\ writerUp => m \in RepliesTo(r)'
  <2>1. CASE Post(m) /\ loop # "closing"
    BY <1>1, <1>2, <2>1, PostFacts DEF CallInv
  <2>2. CASE UNCHANGED outq /\ loop = "closing"
    BY <1>1, <2>2 DEF CallInv, CallTypes, WriterEnds, RepliesTo
  <2> QED
    BY <1>1, <2>1, <2>2 DEF m
<1>5. RepliesTo(r) = {} /\ answer[r] = "none" /\ Open(r) /\ r \in ran
  BY <1>1 DEF CallInv, CallTold
<1>6. ASSUME NEW q \in Requests
      PROVE  CallTold(q)'
  <2>1. In(q)' => In(q)
    BY <1>1 DEF In
  <2>2. CASE q = r
    <3>1. \A n \in RepliesTo(r)' : n.says \in {"ok", "error"}
      BY <1>1, <1>2, <1>4, <1>5
    <3>2. \A n \in RepliesTo(r)' : Truly(r, n.says)'
      BY <1>1, <1>5, <3>1 DEF Truly
    <3>3. ~In(r) /\ partial # r /\ pc[r] \notin Unsent
      BY <1>1 DEF CallInv, CallTold
    <3>4. pc[r] # "waiting" \/ result[r] = "none"
      BY DEF CallInv, CallTold
    <3>5. /\ pc'[r] = pc[r] /\ partial' # r /\ ~In(r)' /\ answer'[r] = "none"
          /\ result'[r] = result[r] /\ r \in ran'
      BY <1>1, <1>5, <2>1, <2>2, <3>3
    <3> QED
      BY <1>3, <2>2, <3>2, <3>3, <3>4, <3>5 DEF CallTold
  <2>3. CASE q # r
    BY <1>1, <1>3, <1>4, <2>1, <2>3, NotConcerned DEF CallInv
  <2> QED
    BY <2>2, <2>3
<1>7. CallTypes'
  BY <1>1, <1>3, <1>4 DEF CallInv, CallTypes
<1>8. WriterEnds' /\ HandshakeFirst' /\ LinesOnce'
  BY <1>1, <1>3, <1>4 DEF CallInv, WriterEnds, HandshakeFirst, LinesOnce
<1>9. AnswersSent'
  <2> SUFFICES ASSUME ~upEnd, NEW q \in Requests
               PROVE  /\ handler'[q] \in {"finished", "ended"} =>
                            q \notin pending \/ RepliesTo(q)' # {}
                      /\ loop \in {"closing", "closed"} => handler'[q] \in {"none", "ended"}
    BY <1>1 DEF AnswersSent
  <2>1. loop \notin {"closing", "closed"} /\ writerUp
    BY <1>1 DEF CallInv, AnswersSent, WriterEnds
  <2>2. CASE q = r
    BY <1>4, <2>1, <2>2
  <2>3. CASE q # r
    BY <1>3, <1>4, <2>1, <2>3 DEF CallInv, AnswersSent
  <2> QED
    BY <2>2, <2>3
<1> QED
  BY <1>6, <1>7, <1>8, <1>9 DEF CallInv

LEMMA JoinStep ==
    ASSUME CallInv, NEW r \in Requests, Join(r)
    PROVE  CallInv'
<1>1. /\ UNCHANGED <<up, outq, ran, pc, answer, result, pending, down, upEnd, kind, authed,
                     loop, writerUp, emitted, receiver>>
      /\ handler[r] = "finished" /\ handler' = [handler EXCEPT ![r] = "ended"]
      /\ partial' = NoRequest /\ loop \notin {"closing", "closed"}
  BY DEF Join, HandlerGoes, wire, client, calls, events
<1>2. /\ \A q : RepliesTo(q)' = RepliesTo(q)
      /\ handler'[r] = "ended" /\ \A q \in Requests \ {r} : handler'[q] = handler[q]
      /\ \A q : In(q)' = In(q)
  BY <1>1 DEF CallInv, CallTypes, RepliesTo, In
<1>3. ASSUME NEW q \in Requests
      PROVE  CallTold(q)'
  <2>1. partial' # q
    BY <1>1, SentTypes
  <2>2. CASE q = r
    BY <1>1, <1>2, <2>1, <2>2 DEF CallInv, CallTold, Truly, Open
  <2>3. CASE q # r
    BY <1>1, <1>2, <2>1, <2>3, NotConcerned DEF CallInv
  <2> QED
    BY <2>2, <2>3
<1>4. CallTypes'
  BY <1>1 DEF CallInv, CallTypes
<1>5. WriterEnds' /\ HandshakeFirst' /\ LinesOnce'
  BY <1>1, <1>2 DEF CallInv, WriterEnds, HandshakeFirst, LinesOnce
<1>6. AnswersSent'
  BY <1>1, <1>2 DEF CallInv, AnswersSent
<1> QED
  BY <1>3, <1>4, <1>5, <1>6 DEF CallInv

\* A step on which no call moves.
LEMMA NoCallMoves ==
    ASSUME CallInv, UNCHANGED <<kind, up, authed, handler, ran, pc, answer, result>>,
           partial' \in {partial, NoRequest}, down' \in Seq(Sent), outq' \in Seq(Sent),
           emitted' \in Int, receiver' \in Int, pending' \subseteq pending,
           upEnd => upEnd', WriterEnds',
           \A r : RepliesTo(r)' \subseteq RepliesTo(r),
           ~upEnd' => \A r : RepliesTo(r) \subseteq RepliesTo(r)',
           \/ loop' \in {"closing", "closed"} => loop \in {"closing", "closed"}
           \/ \A r \in Requests : handler[r] \in {"none", "ended"}
    PROVE  CallInv'
<1>1. ASSUME NEW r \in Requests
      PROVE  CallTold(r)'
  <2>1. (In(r)' => In(r)) /\ (partial' = r => partial = r)
    BY SentTypes DEF In
  <2> QED
    BY <2>1, NotConcerned DEF CallInv
<1>2. CallTypes' /\ LinesOnce' /\ HandshakeFirst'
  BY DEF CallInv, CallTypes, LinesOnce, HandshakeFirst
<1>3. AnswersSent'
  BY DEF CallInv, AnswersSent
<1> QED
  BY <1>1, <1>2, <1>3 DEF CallInv

\* The end of the connection on the server's side.
LEMMA ClosingStep ==
    ASSUME CallInv, SeeShutdown \/ Drained \/ Stop \/ Close \/ Leave
    PROVE  CallInv'
<1>1. /\ UNCHANGED <<kind, up, authed, handler, ran, pc, answer, result, pending, down, outq,
                     emitted, receiver>>
      /\ partial' \in {partial, NoRequest} /\ (upEnd => upEnd')
  BY DEF SeeShutdown, Drained, Stop, Close, Leave, wire, server, client, calls, events
<1>2. \A r : RepliesTo(r)' = RepliesTo(r)
  BY <1>1 DEF RepliesTo
<1>3. WriterEnds'
  BY <1>1 DEF CallInv, WriterEnds, SeeShutdown, Drained, Stop, Close, Leave, wire, server
<1>4. \/ loop' \in {"closing", "closed"} => loop \in {"closing", "closed"}
      \/ \A r \in Requests : handler[r] \in {"none", "ended"}
  BY DEF SeeShutdown, Drained, Stop, Close, Leave, server
<1>5. down' \in Seq(Sent) /\ outq' \in Seq(Sent) /\ emitted' \in Int /\ receiver' \in Int
  BY <1>1 DEF CallInv, CallTypes
<1> QED
  BY <1>1, <1>2, <1>3, <1>4, <1>5, NoCallMoves

LEMMA WriteOutStep ==
    ASSUME CallInv, WriteOut
    PROVE  CallInv'
<1>1. /\ UNCHANGED <<kind, up, upEnd, authed, handler, ran, pc, answer, result, pending, partial,
                     loop, emitted, receiver>>
      /\ writerUp /\ outq # << >>
      /\ outq \in Seq(Sent) /\ down \in Seq(Sent) /\ emitted \in Int /\ receiver \in Int
  BY DEF CallInv, CallTypes, WriteOut, client, calls, events
<1>2. CASE upEnd
  <2>1. writerUp' = FALSE /\ outq' = << >> /\ UNCHANGED down
    BY <1>2 DEF WriteOut
  <2>2. outq' \in Seq(Sent) /\ ToSet(outq') = {}
    BY <2>1 DEF ToSet
  <2>3. \A r : RepliesTo(r)' \subseteq RepliesTo(r)
    BY <2>1, <2>2 DEF RepliesTo
  <2>4. WriterEnds'
    BY <1>1, <1>2, <2>1 DEF WriterEnds
  <2> QED
    BY <1>1, <1>2, <2>1, <2>2, <2>3, <2>4, NoCallMoves
<1>3. CASE ~upEnd
  <2>1. outq' = Tail(outq) /\ down' = Append(down, Head(outq)) /\ UNCHANGED writerUp
    BY <1>3 DEF WriteOut
  <2>2. /\ Head(outq) \in Sent /\ Tail(outq) \in Seq(Sent)
        /\ ToSet(outq) = {Head(outq)} \cup ToSet(Tail(outq))
    BY <1>1, TailFacts
  <2>3. down' \in Seq(Sent) /\ ToSet(down') = ToSet(down) \cup {Head(outq)}
    BY <1>1, <2>1, <2>2, AppendFacts
  <2>4. ToSet(outq') \cup ToSet(down') = ToSet(outq) \cup ToSet(down)
    BY <2>1, <2>2, <2>3
  <2>5. \A r : RepliesTo(r)' = RepliesTo(r)
    BY <2>4 DEF RepliesTo
  <2>6. WriterEnds'
    BY <1>1, <2>1 DEF CallInv, WriterEnds
  <2> QED
    BY <1>1, <2>1, <2>2, <2>3, <2>5, <2>6, NoCallMoves
<1> QED
  BY <1>2, <1>3

\* The agent, and what is sent to its stream.
LEMMA EventStep ==
    ASSUME CallInv, Emit \/ Ends \/ NotifyFinished \/ Forward
    PROVE  CallInv'
<1>1. /\ UNCHANGED <<kind, up, down, upEnd, authed, handler, ran, pc, answer, result, pending,
                     partial, loop, writerUp>>
      /\ emitted' \in {emitted, emitted + 1}
  BY DEF Emit, Ends, NotifyFinished, Forward, wire, server, client, calls
<1>2. emitted \in Int /\ receiver \in Int /\ Terminal \in Int /\ NoReceiver \in Int
      /\ Broadcast \in Int /\ Warning \in Int
  BY BoundsAssumption DEF CallInv, CallTypes, Terminal, NoReceiver, Warning
<1>3. receiver' \in Int
  <2>1. receiver' \in {receiver, receiver + 1, NoReceiver, emitted + 0 - Broadcast,
                       emitted + 1 - Broadcast}
    BY DEF Emit, Ends, NotifyFinished, Forward
  <2> QED
    BY <1>2, <2>1
<1>4. UNCHANGED outq \/ \E n \in Int : Post(EventNo(n))
  <2>1. CASE Forward
    <3>1. \/ UNCHANGED outq
          \/ Post(EventNo(Warning)) \/ Post(EventNo(receiver + 1)) \/ Post(EventNo(Terminal))
      BY <2>1 DEF Forward
    <3>2. receiver + 1 \in Int
      BY <1>2
    <3> QED
      BY <1>2, <3>1, <3>2
  <2>2. CASE NotifyFinished
    BY <1>2, <2>2 DEF NotifyFinished
  <2>3. CASE Emit \/ Ends
    BY <2>3 DEF Emit, Ends, server
  <2> QED
    BY <2>1, <2>2, <2>3
<1>5. /\ outq' \in Seq(Sent) /\ (~writerUp => outq' = << >>)
      /\ \A r : RepliesTo(r)' = RepliesTo(r)
  <2>1. CASE UNCHANGED outq
    BY <1>1, <2>1 DEF CallInv, CallTypes, WriterEnds, RepliesTo
  <2>2. ASSUME NEW n \in Int, Post(EventNo(n))
        PROVE  /\ outq' \in Seq(Sent) /\ (~writerUp => outq' = << >>)
               /\ \A r : RepliesTo(r)' = RepliesTo(r)
    <3>1. EventNo(n) \in Sent /\ EventNo(n).is # "reply"
      BY SentTypes
    <3> QED
      BY <1>1, <2>2, <3>1, PostFacts DEF CallInv
  <2> QED
    BY <1>4, <2>1, <2>2
<1>6. down' \in Seq(Sent) /\ emitted' \in Int
  <2>1. emitted + 1 \in Int
    BY <1>2
  <2> QED
    BY <1>1, <1>2, <2>1 DEF CallInv, CallTypes
<1>7. WriterEnds'
  BY <1>1, <1>5 DEF CallInv, WriterEnds
<1> QED
  BY <1>1, <1>3, <1>5, <1>6, <1>7, NoCallMoves

\* The reader with an event or the end of the file, and the stream's consumer.
LEMMA StreamStep ==
    ASSUME CallInv,
           RouteEvent \/ Unclaimed \/ CloseStep \/ Deliver \/ Consume \/ UNCHANGED vars
    PROVE  CallInv'
<1>1. /\ UNCHANGED <<kind, up, upEnd, server, emitted, receiver, pc, answer, result>>
      /\ pending' \subseteq pending
  <2>1. CASE RouteEvent \/ Unclaimed
    BY <2>1 DEF RouteEvent, Unclaimed, events, calls, wire
  <2>2. CASE CloseStep
    BY <2>2 DEF CloseStep, events, wire
  <2>3. CASE Deliver \/ Consume \/ UNCHANGED vars
    BY <2>3 DEF Deliver, Consume, vars, events, calls, wire, client
  <2> QED
    BY <2>1, <2>2, <2>3
<1>2. /\ down' \in Seq(Sent)
      /\ \A r : RepliesTo(r)' = RepliesTo(r)
  <2>1. CASE RouteEvent
    <3>1. down # << >> /\ Head(down).is = "event" /\ down' = Tail(down)
      BY <2>1 DEF RouteEvent, Reads
    <3>2. down' \in Seq(Sent) /\ ToSet(down) = {Head(down)} \cup ToSet(down')
      BY <3>1, TailFacts DEF CallInv, CallTypes
    <3> QED
      BY <1>1, <3>1, <3>2 DEF RepliesTo, server
  <2>2. CASE ~RouteEvent
    <3>1. UNCHANGED down
      BY <2>2 DEF Unclaimed, CloseStep, Deliver, Consume, vars, wire
    <3> QED
      BY <1>1, <3>1 DEF RepliesTo, server, CallInv, CallTypes
  <2> QED
    BY <2>1, <2>2
<1>3. WriterEnds'
  BY <1>1 DEF CallInv, WriterEnds, server
<1>4. outq' \in Seq(Sent) /\ emitted' \in Int /\ receiver' \in Int
  BY <1>1 DEF CallInv, CallTypes, server
<1> QED
  BY <1>1, <1>2, <1>3, <1>4, NoCallMoves DEF server

\* The reader hands an answer to its call, if that still waits.
LEMMA ReadReplyStep ==
    ASSUME CallInv, ReadReply
    PROVE  CallInv'
<1> DEFINE m == Head(down)
<1>1. /\ UNCHANGED <<kind, up, upEnd, server, emitted, receiver, pc, result>>
      /\ down # << >> /\ m.is = "reply" /\ down' = Tail(down)
      /\ IF m.req \in pending
         THEN pending' = pending \ {m.req} /\ answer' = [answer EXCEPT ![m.req] = m.says]
         ELSE UNCHANGED <<pending, answer>>
  BY DEF ReadReply, Reads, events
<1>2. /\ m \in Sent /\ down' \in Seq(Sent) /\ ToSet(down) = {m} \cup ToSet(down')
  BY <1>1, TailFacts DEF CallInv, CallTypes
<1>3. m.req \in Requests \cup {NoRequest} /\ m.says \in Says
  BY <1>1, <1>2 DEF Sent
<1>4. /\ \A r : RepliesTo(r)' \subseteq RepliesTo(r)
      /\ \A r : r # m.req => RepliesTo(r)' = RepliesTo(r)
      /\ m \in RepliesTo(m.req)
  BY <1>1, <1>2 DEF RepliesTo, server
<1> HIDE DEF m
<1>5. /\ answer' \in [Requests -> Says \cup {"none"}]
      /\ \A r \in Requests : r # m.req => answer'[r] = answer[r]
      /\ \A r \in Requests : r = m.req => answer'[r] \in {answer[r], m.says}
  BY <1>1, <1>3 DEF CallInv, CallTypes
<1>6. ASSUME NEW r \in Requests
      PROVE  CallTold(r)'
  <2>1. In(r)' = In(r)
    BY <1>1 DEF In
  <2>2. CASE r # m.req
    <3>1. RepliesTo(r)' = RepliesTo(r) /\ answer'[r] = answer[r]
      BY <1>4, <1>5, <2>2
    <3> QED
      BY <1>1, <2>1, <3>1, NotConcerned DEF CallInv, server
  <2>3. CASE r = m.req
    <3>1. RepliesTo(r) # {} /\ Truly(r, m.says)
      BY <1>4, <2>3 DEF CallInv, CallTold
    <3>2. /\ pc[r] \notin Unsent /\ ~In(r) /\ partial # r
          /\ handler[r] \in {"none", "finished", "ended"}
      BY <3>1 DEF CallInv, CallTold
    <3>3. answer'[r] # "none" => Truly(r, answer'[r])
      BY <1>5, <2>3, <3>1 DEF CallInv, CallTold
    <3>4. UNCHANGED <<pc, handler, ran, result, partial>>
      BY <1>1 DEF server
    <3>5. \A n \in RepliesTo(r)' : Truly(r, n.says)
      BY <1>4 DEF CallInv, CallTold
    <3>6. pc[r] \in {"waiting"} => result[r] = "none"
      BY DEF CallInv, CallTold
    <3>7. handler[r] \in {"finished", "ended"} => r \in ran
      BY DEF CallInv, CallTold
    <3> QED
      BY <2>1, <3>2, <3>3, <3>4, <3>5, <3>6, <3>7 DEF CallTold, Truly
  <2> QED
    BY <2>2, <2>3
<1>7. CallTypes' /\ LinesOnce' /\ HandshakeFirst' /\ WriterEnds'
  BY <1>1, <1>2, <1>5 DEF CallInv, CallTypes, LinesOnce, HandshakeFirst, WriterEnds, server
<1>8. AnswersSent'
  <2>1. ASSUME NEW r \in Requests, r \in pending'
        PROVE  r \in pending /\ RepliesTo(r)' = RepliesTo(r)
    <3>1. r # m.req
      BY <1>1, <2>1
    <3> QED
      BY <1>1, <1>4, <2>1, <3>1
  <2> QED
    BY <1>1, <2>1 DEF CallInv, AnswersSent, server
<1> QED
  BY <1>6, <1>7, <1>8 DEF CallInv

\* A call moves on in its caller's task: only its place, its result and its
\* entry may change.
LEMMA CallMoves ==
    ASSUME CallInv, NEW c \in Requests,
           UNCHANGED <<kind, wire, server, events, answer>>,
           pc' \in [Requests -> Unsent \cup {"waiting", "take", "register", "done"}],
           \A r \in Requests \ {c} : pc'[r] = pc[r] /\ result'[r] = result[r],
           result' \in [Requests -> Says \cup {"none", "unknown"}],
           pc'[c] \in Unsent => pc[c] \in Unsent,
           pc'[c] \in Unsent \cup {"waiting"} => result'[c] = "none",
           \/ result'[c] \in {"unknown", result[c]}
           \/ answer[c] # "none",
           pending' \subseteq pending \cup {r \in {c} : pc[r] \in Unsent}
    PROVE  CallInv'
<1>1. /\ UNCHANGED <<kind, up, down, outq, partial, handler, ran, answer, loop, upEnd, authed,
                     writerUp, emitted, receiver>>
      /\ \A r : RepliesTo(r)' = RepliesTo(r) /\ In(r)' = In(r)
  BY DEF wire, server, events, RepliesTo, In
<1>2. ASSUME NEW r \in Requests
      PROVE  CallTold(r)'
  <2>1. CASE r = c
    <3>1. answer[c] # "none" =>
             /\ pc[c] \notin Unsent /\ ~In(c) /\ partial # c
             /\ handler[c] \in {"none", "finished", "ended"}
      BY DEF CallInv, CallTold
    <3>2. Open(c) => Open(c)' \/ answer[c] # "none"
      BY DEF Open
    <3> QED
      BY <1>1, <2>1, <3>1, <3>2 DEF CallInv, CallTold, Truly
  <2>2. CASE r # c
    BY <1>1, <2>2, NotConcerned DEF CallInv
  <2> QED
    BY <2>1, <2>2
<1>3. CallTypes' /\ LinesOnce' /\ HandshakeFirst' /\ WriterEnds'
  BY <1>1 DEF CallInv, CallTypes, LinesOnce, HandshakeFirst, WriterEnds
<1>4. AnswersSent'
  <2>1. pc[c] \in Unsent => handler[c] = "none"
    BY DEF CallInv, CallTold
  <2> QED
    BY <1>1, <2>1 DEF CallInv, AnswersSent
<1> QED
  BY <1>2, <1>3, <1>4 DEF CallInv

LEMMA CallerStep ==
    ASSUME CallInv, NEW c \in Requests,
           \/ Begin(c) \/ InsertPending(c) \/ TakeAnswer(c) \/ TakeClosed(c) \/ TimeOut(c)
           \/ TakeBacklog(c) \/ Register(c)
    PROVE  CallInv'
<1>1. UNCHANGED <<kind, wire, server, events, answer>>
  BY DEF Begin, InsertPending, TakeAnswer, TakeClosed, TimeOut, TakeBacklog, Register
<1>2. PICK l \in {"insert", "send", "take", "register", "done"} :
          /\ pc' = [pc EXCEPT ![c] = l]
          /\ l = "insert" => pc[c] = "idle" /\ UNCHANGED result
          /\ l = "send" => pc[c] = "insert" /\ UNCHANGED result
  BY DEF Begin, InsertPending, TakeAnswer, TakeClosed, TimeOut, TakeBacklog, Register, Goes,
         Returns
<1>3. PICK how \in Says \cup {"none", "unknown"} :
          /\ result' = [result EXCEPT ![c] = how]
          /\ how \in {"unknown", result[c]} \/ answer[c] # "none"
  <2>1. CASE UNCHANGED result
    <3>1. result[c] \in Says \cup {"none", "unknown"} /\ result' = [result EXCEPT ![c] = result[c]]
      BY <2>1 DEF CallInv, CallTypes
    <3> QED
      BY <3>1
  <2>2. CASE TakeAnswer(c)
    <3>1. answer[c] \in Says \cup {"none"} /\ answer[c] # "none"
      BY <2>2 DEF TakeAnswer, CallInv, CallTypes
    <3> QED
      BY <2>2, <3>1 DEF TakeAnswer
  <2>3. CASE Returns(c, "unknown")
    BY <2>3 DEF Returns
  <2> QED
    BY <2>1, <2>2, <2>3
       DEF Begin, InsertPending, TakeClosed, TimeOut, TakeBacklog, Register
<1>4. pending' \subseteq pending \cup {r \in {c} : pc[r] \in Unsent}
  BY DEF Begin, InsertPending, TakeAnswer, TakeClosed, TimeOut, TakeBacklog, Register, Unsent
<1>5. /\ pc' \in [Requests -> Unsent \cup {"waiting", "take", "register", "done"}]
      /\ pc'[c] = l
      /\ \A r \in Requests \ {c} : pc'[r] = pc[r]
  BY <1>2 DEF CallInv, CallTypes, Unsent
<1>6. /\ result' \in [Requests -> Says \cup {"none", "unknown"}]
      /\ result'[c] = how
      /\ \A r \in Requests \ {c} : result'[r] = result[r]
  BY <1>3 DEF CallInv, CallTypes
<1>7. l \in Unsent => pc[c] \in Unsent /\ result'[c] = "none"
  BY <1>2 DEF Unsent, CallInv, CallTold
<1>8. l # "waiting"
  BY <1>2
<1> QED
  BY <1>1, <1>3, <1>4, <1>5, <1>6, <1>7, <1>8, CallMoves

LEMMA LineSent ==
    ASSUME up \in Seq(Piece), LinesOnce, NEW c \in Requests, ~In(c), NEW split \in BOOLEAN,
           up' = up \o Pieces(c, split)
    PROVE  /\ up' \in Seq(Piece) /\ LinesOnce'
           /\ \A r : r # c => In(r)' = In(r)
<1> DEFINE p == Pieces(c, split)
<1>1. /\ p \in Seq(Piece) /\ Len(p) \in 1 .. 2
      /\ \A i \in 1 .. Len(p) : p[i].req = c
      /\ Len(p) = 2 => p[1].part = "head" /\ p[2].part = "tail"
  <2>1. CASE split
    <3>1. /\ p = <<[req |-> c, part |-> "head"], [req |-> c, part |-> "tail"]>>
          /\ [req |-> c, part |-> "head"] \in Piece /\ [req |-> c, part |-> "tail"] \in Piece
      BY <2>1 DEF Pieces, Piece
    <3>2. \A x, y \in Piece : <<x, y>> \in Seq(Piece) /\ Len(<<x, y>>) = 2
      OBVIOUS
    <3>3. p \in Seq(Piece) /\ Len(p) = 2
      BY <3>1, <3>2
    <3> QED
      BY <3>1, <3>3
  <2>2. CASE ~split
    <3>1. p = <<[req |-> c, part |-> "whole"]>> /\ [req |-> c, part |-> "whole"] \in Piece
      BY <2>2 DEF Pieces, Piece
    <3>2. p \in Seq(Piece) /\ Len(p) = 1
      BY <3>1
    <3> QED
      BY <3>1, <3>2
  <2> QED
    BY <2>1, <2>2
<1> HIDE DEF p
<1>2. /\ up' \in Seq(Piece) /\ Len(up') = Len(up) + Len(p) /\ Len(up) \in Nat
      /\ \A i \in 1 .. Len(up) : up'[i] = up[i]
      /\ \A i \in 1 .. Len(p) : up'[Len(up) + i] = p[i]
  <2>1. up' = up \o p
    BY DEF p
  <2> QED
    BY <1>1, <2>1, ConcatProperties, LenProperties
<1>3. \A i \in 1 .. Len(up') : i \in 1 .. Len(up) \/ (i - Len(up) \in 1 .. Len(p)
                                  /\ Len(up) + (i - Len(up)) = i)
  BY <1>1, <1>2
<1>4. \A i \in 1 .. Len(up') : i \notin 1 .. Len(up) => up'[i] = p[i - Len(up)] /\ up'[i].req = c
  BY <1>1, <1>2, <1>3
<1>5. \A i \in 1 .. Len(up) : up[i].req # c
  BY DEF In
<1>6. LinesOnce'
  <2> SUFFICES ASSUME NEW i \in 1 .. Len(up'), NEW j \in 1 .. Len(up'), i < j,
                      up'[i].req = up'[j].req
               PROVE  up'[i].part = "head" /\ up'[j].part = "tail"
    BY DEF LinesOnce
  <2>1. CASE j \in 1 .. Len(up)
    <3>1. i \in 1 .. Len(up) /\ up[i].req = up[j].req
      BY <1>2, <2>1
    <3> QED
      BY <1>2, <2>1, <3>1 DEF LinesOnce
  <2>2. CASE j \notin 1 .. Len(up)
    <3>1. i \notin 1 .. Len(up)
      BY <1>2, <1>4, <1>5, <2>2
    <3>2. i - Len(up) \in 1 .. Len(p) /\ j - Len(up) \in 1 .. Len(p) /\ i - Len(up) < j - Len(up)
      BY <1>2, <1>3, <2>2, <3>1
    <3>3. Len(p) = 2 /\ i - Len(up) = 1 /\ j - Len(up) = 2
      BY <1>1, <1>2, <3>2
    <3> QED
      BY <1>1, <1>4, <2>2, <3>1, <3>3
  <2> QED
    BY <2>1, <2>2
<1>7. ASSUME NEW r, r # c
      PROVE  In(r)' = In(r)
  <2>1. ASSUME In(r)
        PROVE  In(r)'
    <3>1. PICK i \in 1 .. Len(up) : up[i].req = r
      BY <2>1 DEF In
    <3>2. i \in 1 .. Len(up')
      BY <1>1, <1>2
    <3> QED
      BY <1>2, <3>1, <3>2 DEF In
  <2>2. ASSUME In(r)'
        PROVE  In(r)
    <3>1. PICK i \in 1 .. Len(up') : up'[i].req = r
      BY <2>2 DEF In
    <3> QED
      BY <1>2, <1>4, <1>7, <3>1 DEF In
  <2>3. In(r) \in BOOLEAN /\ In(r)' \in BOOLEAN
    BY DEF In
  <2> QED
    BY <2>1, <2>2, <2>3
<1> QED
  BY <1>2, <1>6, <1>7

LEMMA SendStep ==
    ASSUME CallInv, NEW c \in Requests, Send(c)
    PROVE  CallInv'
<1>1. /\ UNCHANGED <<kind, down, upEnd, server, events, answer>>
      /\ pc[c] = "send"
  BY DEF Send
<1>2. CASE UNCHANGED up
  <2>1. PICK l \in {"waiting", "done"} :
            /\ pc' = [pc EXCEPT ![c] = l]
            /\ l = "waiting" => UNCHANGED result
            /\ l = "done" => result' = [result EXCEPT ![c] = "unknown"]
    BY DEF Send, Goes, Returns
  <2>2. pending' \subseteq pending /\ UNCHANGED <<kind, wire, server, events, answer>>
    BY <1>2 DEF Send, wire
  <2>3. result[c] = "none" /\ "unknown" \in Says \cup {"none", "unknown"}
    BY <1>1 DEF CallInv, CallTold, Unsent
  <2>4. /\ pc' \in [Requests -> Unsent \cup {"waiting", "take", "register", "done"}]
        /\ pc'[c] = l
        /\ \A r \in Requests \ {c} : pc'[r] = pc[r]
    BY <2>1 DEF CallInv, CallTypes
  <2>5. /\ result' \in [Requests -> Says \cup {"none", "unknown"}]
        /\ result'[c] = IF l = "done" THEN "unknown" ELSE "none"
        /\ \A r \in Requests \ {c} : result'[r] = result[r]
    BY <2>1, <2>3 DEF CallInv, CallTypes
  <2> QED
    BY <1>1, <2>1, <2>2, <2>3, <2>4, <2>5, CallMoves DEF Unsent
<1>3. CASE ~UNCHANGED up
  <2>1. PICK split \in BOOLEAN : up' = up \o Pieces(c, split)
    BY <1>3 DEF Send
  <2>2. pc' = [pc EXCEPT ![c] = "waiting"] /\ UNCHANGED <<result, pending>>
    BY <1>3 DEF Send, Goes
  <2>3. /\ handler[c] = "none" /\ c \notin ran /\ answer[c] = "none" /\ RepliesTo(c) = {}
        /\ ~In(c) /\ partial # c /\ result[c] = "none"
    BY <1>1 DEF CallInv, CallTold, Unsent
  <2>4. /\ up' \in Seq(Piece) /\ LinesOnce'
        /\ \A r : r # c => In(r)' = In(r)
    BY <2>1, <2>3, LineSent DEF CallInv, CallTypes
  <2>5. /\ pc' \in [Requests -> Unsent \cup {"waiting", "take", "register", "done"}]
        /\ pc'[c] = "waiting"
        /\ \A r \in Requests \ {c} : pc'[r] = pc[r]
    BY <2>2 DEF CallInv, CallTypes
  <2>6. \A r : RepliesTo(r)' = RepliesTo(r)
    BY <1>1 DEF RepliesTo, server
  <2>7. ASSUME NEW r \in Requests
        PROVE  CallTold(r)'
    <3>1. CASE r = c
      BY <1>1, <2>2, <2>3, <2>5, <2>6, <3>1 DEF CallTold, Open, Unsent, server
    <3>2. CASE r # c
      BY <1>1, <2>2, <2>4, <2>5, <2>6, <3>2, NotConcerned DEF CallInv, server
    <3> QED
      BY <3>1, <3>2
  <2>8. CallTypes'
    BY <1>1, <2>2, <2>4, <2>5 DEF CallInv, CallTypes, server, events
  <2>9. HandshakeFirst' /\ WriterEnds' /\ AnswersSent'
    BY <1>1, <2>2, <2>6 DEF CallInv, HandshakeFirst, WriterEnds, AnswersSent, server
  <2> QED
    BY <2>4, <2>7, <2>8, <2>9 DEF CallInv
<1> QED
  BY <1>2, <1>3

-----------------------------------------------------------------------------
(* The theorems. *)

LEMMA CallStart == Init => CallInv
<1> SUFFICES ASSUME Init
             PROVE  CallInv
  OBVIOUS
<1>1. /\ up = << >> /\ down = << >> /\ outq = << >> /\ partial = NoRequest
      /\ handler = [r \in Requests |-> "none"] /\ ran = {} /\ loop = "reading" /\ writerUp = TRUE
      /\ pc = [r \in Requests |-> "idle"] /\ pending = {}
      /\ answer = [r \in Requests |-> "none"] /\ result = [r \in Requests |-> "none"]
  BY DEF Init
<1>2. CallTypes
  <2>1. emitted \in Int /\ receiver \in Int
    BY BoundsAssumption DEF Init, NoReceiver
  <2> QED
    BY <1>1, <2>1 DEF CallTypes, Unsent
<1>3. \A r \in Requests : CallTold(r)
  <2>1. Len(up) = 0 /\ ToSet(outq) = {} /\ ToSet(down) = {}
    BY <1>1 DEF ToSet
  <2>2. \A r : ~In(r) /\ RepliesTo(r) = {}
    BY <2>1 DEF In, RepliesTo
  <2> QED
    BY <1>1, <2>2, SentTypes DEF CallTold, Unsent, Open
<1>4. LinesOnce
  <2>1. Len(up) = 0
    BY <1>1
  <2> QED
    BY <2>1 DEF LinesOnce
<1>5. WriterEnds /\ AnswersSent /\ HandshakeFirst
  BY <1>1 DEF WriterEnds, AnswersSent, HandshakeFirst
<1> QED
  BY <1>2, <1>3, <1>4, <1>5 DEF CallInv

LEMMA CallNext == CallInv /\ [Next]_vars => CallInv'
<1> SUFFICES ASSUME CallInv, [Next]_vars
             PROVE  CallInv'
  OBVIOUS
<1>1. CASE ServerSteps
  BY <1>1, ReadStep, LoopAnswers, DispatchStep, RespondStep, JoinStep, ClosingStep, WriteOutStep
     DEF ServerSteps
<1>2. CASE HandlerSteps
  BY <1>2, HandlerStep DEF HandlerSteps
<1>3. CASE EventSteps \/ Ends \/ Emit
  BY <1>3, EventStep DEF EventSteps
<1>4. CASE \E c \in Requests : Begin(c) \/ CallerSteps(c)
  BY <1>4, CallerStep, SendStep DEF CallerSteps
<1>5. CASE ReaderSteps \/ Deliver \/ Consume \/ Quiescent \/ UNCHANGED vars
  BY <1>5, ReadReplyStep, StreamStep DEF ReaderSteps, Quiescent
<1>6. CASE Stop \/ Leave
  BY <1>6, ClosingStep
<1> QED
  BY <1>1, <1>2, <1>3, <1>4, <1>5, <1>6 DEF Next, Proceeds

LEMMA CallInvHolds == Spec => []CallInv
  BY CallStart, CallNext, PTL DEF Spec

\* serve_with_shutdown and dispatch: nothing runs for a client before the
\* handshake, but the shutdown its token allows; a shutdown closes the
\* connection of a client that is there only when what was asked is answered
\* and what was answered is written.
THEOREM AnswersAreKept == Spec => []AnswersKeep
<1>1. CallInv => AnswersKeep
  <2> SUFFICES ASSUME CallInv, loop = "closed", ~upEnd, NEW r \in Requests,
                      handler[r] # "none", r \in pending
               PROVE  \E m \in ToSet(down) : m.is = "reply" /\ m.req = r
    BY DEF CallInv, AnswersKeep, ShutdownAnswers
  <2>1. RepliesTo(r) # {}
    BY DEF CallInv, AnswersSent
  <2>2. outq = << >>
    BY DEF CallInv, WriterEnds
  <2>3. ToSet(outq) = {}
    BY <2>2 DEF ToSet
  <2> QED
    BY <2>1, <2>3 DEF RepliesTo
<1> QED
  BY <1>1, CallInvHolds, PTL

\* call_raw, dispatch and the reader: every step carries out one call that was
\* not carried out, or returns one truly, or is none of the caller's business.
LEMMA CallsStep == CallInv /\ [Next]_vars => [Calls!Next]_<<ran, result>>
<1> SUFFICES ASSUME CallInv, Next
             PROVE  Calls!Next \/ UNCHANGED <<ran, result>>
  BY DEF vars, server, client, calls
<1> USE DEF Calls!Next, Calls!CarryOut, Calls!Return, Calls!Outcomes
<1>1. ASSUME NEW r \in Requests, Hello(r)
      PROVE  Calls!Next \/ UNCHANGED <<ran, result>>
  <2>1. r \notin ran /\ Open(r) /\ UNCHANGED result
    BY <1>1, LineRead DEF Hello, client, calls
  <2> QED
    BY <1>1, <2>1 DEF Hello, Open
<1>2. ASSUME NEW r \in Requests, HandlerReturns(r) \/ HandleRun(r) \/ Find(r)
      PROVE  Calls!Next
  <2>1. handler[r] = "running" /\ ran' = ran \cup {r} /\ UNCHANGED result
    BY <1>2 DEF HandlerReturns, HandleRun, Find, client, calls
  <2>2. r \notin ran /\ Open(r)
    BY <2>1 DEF CallInv, CallTold
  <2> QED
    BY <2>1, <2>2 DEF Open
<1>3. ASSUME NEW c \in Requests, CallerSteps(c) \/ Begin(c)
      PROVE  Calls!Next \/ UNCHANGED <<ran, result>>
  <2> UNCHANGED ran
    BY <1>3 DEF CallerSteps, Begin, InsertPending, Send, TakeAnswer, TakeClosed, TimeOut,
                TakeBacklog, Register, server
  <2>1. CASE Returns(c, "unknown") /\ ~UNCHANGED result /\ ~TakeAnswer(c)
    <3>1. Begin(c) \/ Send(c) \/ TakeClosed(c) \/ TimeOut(c)
      BY <1>3, <2>1 DEF CallerSteps, InsertPending, TakeBacklog, Register
    <3>2. pc[c] \in Unsent \cup {"waiting"}
      BY <3>1 DEF Begin, Send, TakeClosed, TimeOut, Unsent
    <3>3. result[c] = "none" /\ result' = [result EXCEPT ![c] = "unknown"]
      BY <2>1, <3>2 DEF CallInv, CallTold, Returns
    <3> QED
      BY <3>3
  <2>2. CASE TakeAnswer(c)
    <3>1. result[c] = "none" /\ answer[c] \in Says /\ Truly(c, answer[c])
      BY <2>2 DEF TakeAnswer, CallInv, CallTypes, CallTold
    <3>2. result' = [result EXCEPT ![c] = answer[c]]
      BY <2>2 DEF TakeAnswer
    <3> QED
      BY <3>1, <3>2 DEF Truly, Says
  <2>3. CASE ~TakeAnswer(c) /\ (UNCHANGED result \/ ~Returns(c, "unknown"))
    BY <1>3, <2>3 DEF CallerSteps, Begin, InsertPending, Send, TakeClosed, TimeOut, TakeBacklog,
                      Register
  <2> QED
    BY <2>1, <2>2, <2>3
<1>4. ASSUME NEW r \in Requests,
             Refuse(r) \/ Dispatch(r) \/ Respond(r) \/ Join(r) \/ Subscribe(r) \/ CheckFinished(r)
      PROVE  UNCHANGED <<ran, result>>
  BY <1>4 DEF Refuse, Dispatch, Respond, Join, Subscribe, CheckFinished, client, calls
<1>5. CASE \/ ReadHead \/ ReadUnparsed \/ ReadEof \/ SeeShutdown \/ Drained \/ WriteOut \/ Close
           \/ EventSteps \/ Emit \/ Ends \/ Stop
  BY <1>5 DEF ReadHead, ReadUnparsed, ReadEof, SeeShutdown, Drained, WriteOut, Close, EventSteps,
              NotifyFinished, Forward, Emit, Ends, Stop, client, calls, server
<1>6. CASE ReaderSteps \/ Deliver \/ Consume \/ Leave \/ Quiescent
  BY <1>6 DEF ReaderSteps, ReadReply, RouteEvent, Unclaimed, CloseStep, Deliver, Consume, Leave,
              Quiescent, vars, server, client, calls
<1> QED
  BY <1>1, <1>2, <1>3, <1>4, <1>5, <1>6 DEF Next, Proceeds, ServerSteps, HandlerSteps

\* call_raw with dispatch: a call is carried out at most once, and never
\* answered falsely, whatever is torn, late or cut off.
THEOREM CallsAreCarriedOutOnce == Spec => ImplementsCalls
<1>1. Init => Calls!Init
  BY DEF Init, Calls!Init
<1> QED
  BY <1>1, CallsStep, CallInvHolds, PTL DEF Spec, ImplementsCalls, Calls!Spec

-----------------------------------------------------------------------------
(* The stream. *)

\* The one event may be followed by the other.
Lt(x, y) == x < Terminal /\ (y # Warning => x < y)

Rises(s) == \A i, j \in 1 .. Len(s) : i < j => Lt(s[i], s[j])
EventsRise(s) ==
    \A i, j \in 1 .. Len(s) :
        i < j /\ s[i].is = "event" /\ s[j].is = "event" => Lt(s[i].no, s[j].no)
Before(A, B) == \A x \in A, y \in B : Lt(x, y)

\* Where the events of a queue of messages stand, and which they are.
Places(s) == {i \in 1 .. Len(s) : s[i].is = "event"}
Numbers(s) == {s[i].no : i \in Places(s)}

\* The events in the stream, those that are kept for it, and those on their way.
Shown  == ToSet(got) \cup ToSet(chan) \cup ToSet(delivering)
Kept   == ToSet(unclaimed) \cup ({routing} \ {NoReceiver})
OnTheWay == Numbers(down) \cup Numbers(outq)
Told == Shown \cup Kept \cup OnTheWay

\* How many events are not in the stream.
Count ==
    dropped + Len(unclaimed) + (IF routing = NoReceiver THEN 0 ELSE 1)
        + Cardinality(Places(down)) + Cardinality(Places(outq))

\* The queues one after the other are in order; what was kept is behind the
\* stream once that is there.
Ordered ==
    /\ Rises(got) /\ Rises(chan) /\ Rises(delivering)
    /\ EventsRise(down) /\ EventsRise(outq)
    /\ Before(ToSet(got), ToSet(chan)) /\ Before(ToSet(got) \cup ToSet(chan), ToSet(delivering))
    /\ Before(Shown, OnTheWay) /\ Before(Numbers(down), Numbers(outq))
    /\ streaming = "no" =>
          /\ Rises(unclaimed) /\ Before(ToSet(unclaimed), {routing} \ {NoReceiver})
          /\ Before(Kept, OnTheWay)

\* What the forwarder has still to tell, and who it is.
Source ==
    /\ emitted \in 0 .. MaxEvents
    /\ receiver \in 0 .. emitted \cup {Terminal, NoReceiver}
    /\ \A x \in Told : x \in Warning .. emitted \/ (x = Terminal /\ agent \in {"removed", "finished", "told"})
    /\ receiver # NoReceiver => \A x \in Told : x <= receiver /\ x # Terminal
    /\ Terminal \in Told => receiver = NoReceiver /\ ~attached
    /\ attached => receiver = NoReceiver /\ agent \in {"removed", "finished", "told"}
    /\ receiver = Terminal => agent = "told" /\ Count = 0
    /\ agent = "none" => kind[Streamer] = "run"
    /\ attached \/ handler[Streamer] \in {"none", "running", "found", "subscribed"} =>
          Count = 0 /\ Told = {}
    /\ handler[Streamer] \in {"none", "running", "found"} => receiver = NoReceiver /\ ~attached
    /\ handler[Streamer] = "subscribed" => ~attached
    /\ \A r \in Requests : handler[r] \in {"found", "subscribed"} => kind[r] = "subscribe"
    /\ kind[Streamer] = "run" => ~attached

\* No more events are under way than were sent.
Counted == Count <= IF receiver = NoReceiver THEN emitted + 1 ELSE receiver

\* Where the stream stands beside its call and its subscription.
Opened ==
    /\ streaming = "no" =>
          got = << >> /\ chan = << >> /\ delivering = << >> /\ ~sub /\ dropped = 0
    /\ streaming # "no" => pc[Streamer] \in {"register", "done"}
    /\ pc[Streamer] = "register" => streaming = "open" /\ ~sub /\ delivering = << >>
    /\ \A c \in Requests : pc[c] \in {"take", "register"} => c = Streamer
    /\ sub => streaming = "open" /\ delivering = << >>
    /\ streaming = "ended" => chan = << >> /\ delivering = << >>

\* Who is gone.
Gone ==
    /\ upEnd <=> closing = "left"
    /\ upEnd => routing = NoReceiver /\ ~sub /\ \A c \in Requests : pc[c] \in {"idle", "done"}
    /\ loop = "closed" => ~Held
    /\ kind[Streamer] = "run" /\ receiver = NoReceiver /\ ~upEnd => agent \in {"none", "told"}
    /\ kind[Streamer] = "run" /\ handler[Streamer] \in {"none", "running"} => agent = "none"
    /\ kind[Streamer] = "run" /\ agent = "none" => emitted = 0

\* Until the terminal event is in the stream nothing is missing unnoticed in
\* all queues together, and then not in the stream.
Sparse == kind[Streamer] = "run" /\ emitted < PendingCap
Complete ==
    Sparse =>
        /\ ~upEnd /\ Terminal \notin Shown /\ (streaming # "no" => unclaimed = << >>) =>
              \/ Warning \in Told \/ dropped > 0
              \/ 1 .. (IF receiver = NoReceiver THEN emitted ELSE receiver) \subseteq Told
        /\ Terminal \in Shown /\ unclaimed = << >> =>
              Warning \in Shown \/ 1 .. emitted \subseteq Shown

Plain ==
    /\ kind \in Askings
    /\ {upEnd, downEnd, authed, writerUp, stop, attached, sub} \subseteq BOOLEAN
    /\ loop \in {"reading", "draining", "closing", "closed"}
    /\ partial \in Requests \cup {NoRequest} /\ pending \subseteq Requests
    /\ agent \in {"none", "running", "removed", "finished", "told"}
    /\ closing \in {"open", "flag", "pending", "done", "left"}
    /\ streaming \in {"no", "open", "ended"}

Queues ==
    /\ got \in Seq(Int) /\ chan \in Seq(Int) /\ delivering \in Seq(Int)
    /\ unclaimed \in Seq(Int) /\ Len(unclaimed) <= PendingCap /\ Len(chan) <= Buffer
    /\ routing \in Int /\ dropped \in Nat

StreamInv ==
    /\ Plain /\ Queues /\ Ordered /\ Source /\ Counted /\ Opened /\ Gone /\ Complete
-----------------------------------------------------------------------------
(* Queues of events. *)

LEMMA EventBounds ==
    /\ MaxEvents \in Nat /\ Terminal = MaxEvents + 1 /\ NoReceiver = MaxEvents + 2 /\ Warning = 0
    /\ PendingCap \in Nat \ {0} /\ Buffer \in Nat \ {0} /\ Broadcast \in Nat \ {0}
  BY BoundsAssumption DEF Terminal, NoReceiver, Warning

LEMMA InSet ==
    ASSUME NEW S, NEW s \in Seq(S)
    PROVE  /\ Len(s) \in Nat /\ ToSet(s) = {s[i] : i \in 1 .. Len(s)} /\ ToSet(s) \subseteq S
           /\ \A i \in 1 .. Len(s) : s[i] \in S /\ s[i] \in ToSet(s)
           /\ \A x \in ToSet(s) : \E i \in 1 .. Len(s) : x = s[i]
           /\ s = << >> <=> ToSet(s) = {}
<1>1. Len(s) \in Nat /\ DOMAIN s = 1 .. Len(s) /\ \A i \in 1 .. Len(s) : s[i] \in S
  BY LenProperties, ElementOfSeq
<1>2. s = << >> <=> Len(s) = 0
  BY EmptySeq
<1>3. ToSet(s) = {s[i] : i \in 1 .. Len(s)}
  BY <1>1 DEF ToSet
<1>4. Len(s) # 0 => 1 \in 1 .. Len(s)
  BY <1>1
<1> QED
  BY <1>1, <1>2, <1>3, <1>4

LEMMA RisesAppend ==
    ASSUME NEW s \in Seq(Int), NEW x \in Int, Rises(s), Before(ToSet(s), {x})
    PROVE  /\ Append(s, x) \in Seq(Int) /\ Rises(Append(s, x))
           /\ ToSet(Append(s, x)) = ToSet(s) \cup {x} /\ Len(Append(s, x)) = Len(s) + 1
<1>1. /\ Append(s, x) \in Seq(Int) /\ Len(Append(s, x)) = Len(s) + 1
      /\ \A i \in 1 .. Len(s) : Append(s, x)[i] = s[i]
      /\ Append(s, x)[Len(s) + 1] = x /\ Len(s) \in Nat
  BY AppendProperties, LenProperties
<1>2. ToSet(Append(s, x)) = ToSet(s) \cup {x}
  BY AppendFacts
<1>3. \A i \in 1 .. Len(s) : s[i] \in ToSet(s)
  BY InSet
<1>4. ASSUME NEW i \in 1 .. Len(s) + 1, NEW j \in 1 .. Len(s) + 1, i < j
      PROVE  Lt(Append(s, x)[i], Append(s, x)[j])
  <2>1. i \in 1 .. Len(s)
    BY <1>1, <1>4
  <2>2. CASE j \in 1 .. Len(s)
    BY <1>1, <1>4, <2>1, <2>2 DEF Rises
  <2>3. CASE j = Len(s) + 1
    BY <1>1, <1>3, <2>1, <2>3 DEF Before
  <2> QED
    BY <1>1, <2>2, <2>3
<1> QED
  BY <1>1, <1>2, <1>4 DEF Rises

LEMMA RisesTail ==
    ASSUME NEW s \in Seq(Int), s # << >>, Rises(s)
    PROVE  /\ Tail(s) \in Seq(Int) /\ Rises(Tail(s)) /\ Head(s) \in Int
           /\ Before({Head(s)}, ToSet(Tail(s)))
           /\ ToSet(s) = {Head(s)} \cup ToSet(Tail(s)) /\ Len(Tail(s)) = Len(s) - 1
<1>1. /\ Head(s) \in Int /\ Tail(s) \in Seq(Int) /\ Len(s) \in Nat \ {0}
      /\ Head(s) = s[1] /\ Len(Tail(s)) = Len(s) - 1
      /\ \A i \in 1 .. Len(Tail(s)) : Tail(s)[i] = s[i + 1]
      /\ ToSet(s) = {Head(s)} \cup ToSet(Tail(s))
  BY TailFacts
<1>2. \A i \in 1 .. Len(Tail(s)) : i + 1 \in 1 .. Len(s)
  BY <1>1
<1>3. Rises(Tail(s))
  <2> SUFFICES ASSUME NEW i \in 1 .. Len(Tail(s)), NEW j \in 1 .. Len(Tail(s)), i < j
               PROVE  Lt(s[i + 1], s[j + 1])
    BY <1>1 DEF Rises
  <2> QED
    BY <1>1, <1>2 DEF Rises
<1>4. Before({Head(s)}, ToSet(Tail(s)))
  <2> SUFFICES ASSUME NEW y \in ToSet(Tail(s))
               PROVE  Lt(s[1], y)
    BY <1>1 DEF Before
  <2>0. \A x \in ToSet(Tail(s)) : \E i \in 1 .. Len(Tail(s)) : x = Tail(s)[i]
    BY <1>1, InSet, Zenon
  <2>1. PICK i \in 1 .. Len(Tail(s)) : y = Tail(s)[i]
    BY <2>0
  <2> QED
    BY <1>1, <1>2, <2>1 DEF Rises
<1> QED
  BY <1>1, <1>3, <1>4

LEMMA RisesPrefix ==
    ASSUME NEW s \in Seq(Int), NEW n \in 0 .. Len(s), Rises(s)
    PROVE  /\ SubSeq(s, 1, n) \in Seq(Int) /\ Rises(SubSeq(s, 1, n))
           /\ Len(SubSeq(s, 1, n)) = n /\ ToSet(SubSeq(s, 1, n)) = {s[i] : i \in 1 .. n}
<1> DEFINE t == SubSeq(s, 1, n)
<1>1. Len(s) \in Nat /\ n \in Nat
  BY LenProperties
<1>2. t \in Seq(Int) /\ Len(t) = n /\ \A i \in 1 .. n : t[i] = s[i]
  <2>1. /\ t \in Seq(Int) /\ Len(t) = IF 1 <= n THEN n - 1 + 1 ELSE 0
        /\ \A i \in 1 .. n - 1 + 1 : t[i] = s[1 + i - 1]
    BY <1>1, SubSeqProperties
  <2> QED
    BY <1>1, <2>1
<1> HIDE DEF t
<1>3. ToSet(t) = {s[i] : i \in 1 .. n}
  <2>1. ToSet(t) = {t[i] : i \in 1 .. Len(t)}
    BY <1>2, InSet
  <2> QED
    BY <1>2, <2>1
<1>4. Rises(t)
  <2> SUFFICES ASSUME NEW i \in 1 .. n, NEW j \in 1 .. n, i < j
               PROVE  Lt(t[i], t[j])
    BY <1>2 DEF Rises
  <2>1. i \in 1 .. Len(s) /\ j \in 1 .. Len(s)
    BY <1>1
  <2>2. Lt(s[i], s[j])
    BY <2>1 DEF Rises
  <2> QED
    BY <1>2, <2>2
<1> QED
  BY <1>2, <1>3, <1>4 DEF t

-----------------------------------------------------------------------------
(* Queues of messages. *)

LEMMA PlacesFinite ==
    ASSUME NEW s \in Seq(Sent)
    PROVE  IsFiniteSet(Places(s)) /\ Cardinality(Places(s)) \in Nat /\ Places(s) \subseteq 1 .. Len(s)
<1>1. Len(s) \in Nat
  BY LenProperties
<1>2. IsFiniteSet(1 .. Len(s)) /\ Places(s) \subseteq 1 .. Len(s)
  BY <1>1, FS_Interval DEF Places
<1> QED
  BY <1>2, FS_Subset, FS_CardinalityType

LEMMA QueueAppend ==
    ASSUME NEW s \in Seq(Sent), NEW m \in Sent, EventsRise(s)
    PROVE  /\ m.is # "event" =>
                 /\ EventsRise(Append(s, m)) /\ Numbers(Append(s, m)) = Numbers(s)
                 /\ Cardinality(Places(Append(s, m))) = Cardinality(Places(s))
           /\ m.is = "event" =>
                 /\ Before(Numbers(s), {m.no}) => EventsRise(Append(s, m))
                 /\ Numbers(Append(s, m)) = Numbers(s) \cup {m.no}
                 /\ Cardinality(Places(Append(s, m))) = Cardinality(Places(s)) + 1
<1> DEFINE t == Append(s, m)
<1>1. /\ t \in Seq(Sent) /\ Len(t) = Len(s) + 1 /\ Len(s) \in Nat
      /\ \A i \in 1 .. Len(s) : t[i] = s[i]
      /\ t[Len(s) + 1] = m
  BY AppendProperties, LenProperties
<1> HIDE DEF t
<1>2. 1 .. Len(t) = (1 .. Len(s)) \cup {Len(s) + 1} /\ Len(s) + 1 \notin 1 .. Len(s)
  BY <1>1
<1>3. CASE m.is # "event"
  <2>1. Places(t) = Places(s)
    BY <1>1, <1>2, <1>3 DEF Places
  <2>2. Numbers(t) = Numbers(s)
    BY <1>1, <2>1 DEF Numbers, Places
  <2>3. EventsRise(t)
    BY <1>1, <1>2, <1>3 DEF EventsRise
  <2> QED
    BY <1>3, <2>1, <2>2, <2>3 DEF t
<1>4. CASE m.is = "event"
  <2>1. Places(t) = Places(s) \cup {Len(s) + 1} /\ Len(s) + 1 \notin Places(s)
    BY <1>1, <1>2, <1>4 DEF Places
  <2>2. Cardinality(Places(t)) = Cardinality(Places(s)) + 1
    BY <2>1, PlacesFinite, FS_AddElement
  <2>3. Numbers(t) = Numbers(s) \cup {m.no}
    BY <1>1, <2>1 DEF Numbers, Places
  <2>4. ASSUME Before(Numbers(s), {m.no})
        PROVE  EventsRise(t)
    <3> SUFFICES ASSUME NEW i \in 1 .. Len(t), NEW j \in 1 .. Len(t), i < j,
                        t[i].is = "event", t[j].is = "event"
                 PROVE  Lt(t[i].no, t[j].no)
      BY DEF EventsRise
    <3>1. i \in 1 .. Len(s) /\ t[i] = s[i]
      BY <1>1
    <3>2. CASE j \in 1 .. Len(s)
      BY <1>1, <3>1, <3>2 DEF EventsRise
    <3>3. CASE j = Len(s) + 1
      BY <1>1, <2>4, <3>1, <3>3 DEF Before, Numbers, Places
    <3> QED
      BY <1>2, <3>2, <3>3
  <2> QED
    BY <1>4, <2>2, <2>3, <2>4 DEF t
<1> QED
  BY <1>3, <1>4

LEMMA QueueTail ==
    ASSUME NEW s \in Seq(Sent), s # << >>, EventsRise(s)
    PROVE  /\ EventsRise(Tail(s)) /\ Tail(s) \in Seq(Sent) /\ Head(s) \in Sent
           /\ Head(s).is # "event" =>
                 /\ Numbers(Tail(s)) = Numbers(s)
                 /\ Cardinality(Places(Tail(s))) = Cardinality(Places(s))
           /\ Head(s).is = "event" =>
                 /\ Numbers(s) = {Head(s).no} \cup Numbers(Tail(s))
                 /\ Before({Head(s).no}, Numbers(Tail(s)))
                 /\ Cardinality(Places(s)) = Cardinality(Places(Tail(s))) + 1
<1> DEFINE t == Tail(s)
<1>1. /\ Head(s) \in Sent /\ t \in Seq(Sent) /\ Len(s) \in Nat \ {0}
      /\ Head(s) = s[1] /\ Len(t) = Len(s) - 1
      /\ \A i \in 1 .. Len(t) : t[i] = s[i + 1]
  BY TailFacts
<1> HIDE DEF t
<1>2. \A i \in 1 .. Len(t) : i + 1 \in 1 .. Len(s) /\ i + 1 # 1
  BY <1>1
<1>3. \A i \in 1 .. Len(s) : i # 1 => i - 1 \in 1 .. Len(t) /\ (i - 1) + 1 = i
  BY <1>1
<1>4. EventsRise(t)
  <2> SUFFICES ASSUME NEW i \in 1 .. Len(t), NEW j \in 1 .. Len(t), i < j,
                      s[i + 1].is = "event", s[j + 1].is = "event"
               PROVE  Lt(s[i + 1].no, s[j + 1].no)
    BY <1>1 DEF EventsRise
  <2>1. i + 1 < j + 1
    BY <1>1
  <2> QED
    BY <1>2, <2>1 DEF EventsRise
<1> DEFINE Next1 == [i \in Places(t) |-> i + 1]
<1>5. Places(s) \ {1} = {i + 1 : i \in Places(t)}
  <2>1. ASSUME NEW i \in Places(s), i # 1
        PROVE  i - 1 \in Places(t) /\ i = (i - 1) + 1
    BY <1>1, <1>3, <2>1 DEF Places
  <2>2. ASSUME NEW i \in Places(t)
        PROVE  i + 1 \in Places(s) /\ i + 1 # 1
    BY <1>1, <1>2 DEF Places
  <2> QED
    BY <2>1, <2>2
<1>6. Cardinality(Places(s) \ {1}) = Cardinality(Places(t))
  <2>1. Next1 \in Bijection(Places(t), Places(s) \ {1})
    <3>1. Next1 \in [Places(t) -> Places(s) \ {1}]
      BY <1>5
    <3>2. \A i, j \in Places(t) : Next1[i] = Next1[j] => i = j
      BY <1>1, PlacesFinite
    <3>3. \A i \in Places(s) \ {1} : \E j \in Places(t) : Next1[j] = i
      BY <1>5
    <3> QED
      BY <3>1, <3>2, <3>3 DEF Bijection, Injection, Surjection, IsInjective
  <2> HIDE DEF Next1
  <2>2. ExistsBijection(Places(t), Places(s) \ {1})
    BY <2>1 DEF ExistsBijection
  <2>3. IsFiniteSet(Places(t))
    BY <1>1, PlacesFinite
  <2> QED
    BY <2>2, <2>3, FS_Bijection
<1>7. Numbers(t) = {s[i].no : i \in Places(s) \ {1}}
  <2>1. \A i \in Places(t) : t[i] = s[i + 1]
    BY <1>1 DEF Places
  <2>2. Numbers(t) = {s[i + 1].no : i \in Places(t)}
    BY <2>1 DEF Numbers
  <2> QED
    BY <1>5, <2>2
<1>8. CASE Head(s).is # "event"
  <2>1. 1 \notin Places(s)
    BY <1>1, <1>8 DEF Places
  <2> QED
    BY <1>1, <1>4, <1>6, <1>7, <1>8, <2>1 DEF Numbers, t
<1>9. CASE Head(s).is = "event"
  <2>1. 1 \in Places(s)
    BY <1>1, <1>9 DEF Places
  <2>2. Cardinality(Places(s)) = Cardinality(Places(t)) + 1
    <3>1. Cardinality(Places(s) \ {1}) = Cardinality(Places(s)) - 1
      BY <2>1, PlacesFinite, FS_RemoveElement
    <3> QED
      BY <1>1, <1>6, <3>1, PlacesFinite
  <2>3. Before({Head(s).no}, Numbers(t))
    <3> SUFFICES ASSUME NEW i \in Places(s) \ {1}
                 PROVE  Lt(s[1].no, s[i].no)
      BY <1>1, <1>7 DEF Before
    <3>1. 1 \in 1 .. Len(s) /\ i \in 1 .. Len(s) /\ 1 < i /\ s[1].is = "event" /\ s[i].is = "event"
      BY <1>1, <1>9 DEF Places
    <3> QED
      BY <3>1 DEF EventsRise
  <2>4. Numbers(s) = {Head(s).no} \cup Numbers(t)
    <3> SUFFICES ASSUME NEW x
                 PROVE  x \in Numbers(s) <=> x = s[1].no \/ x \in Numbers(t)
      BY <1>1, Zenon
    <3>1. x \in Numbers(s) <=> \E i \in Places(s) : x = s[i].no
      BY Zenon DEF Numbers
    <3>2. x \in Numbers(t) <=> \E i \in Places(s) \ {1} : x = s[i].no
      BY <1>7, Zenon
    <3> QED
      BY <2>1, <3>1, <3>2, Zenon
  <2> QED
    BY <1>1, <1>4, <1>9, <2>2, <2>3, <2>4 DEF t
<1> QED
  BY <1>8, <1>9

\* A reply in a queue is none of the stream's business.
LEMMA PostReply ==
    ASSUME NEW m \in Sent, m.is # "event", outq \in Seq(Sent), EventsRise(outq), Post(m)
    PROVE  /\ EventsRise(outq)' /\ Numbers(outq)' = Numbers(outq)
           /\ Cardinality(Places(outq))' = Cardinality(Places(outq))
<1>1. outq' = Append(outq, m) \/ outq' = outq
  BY DEF Post
<1> QED
  BY <1>1, QueueAppend
-----------------------------------------------------------------------------
(* The parts of the state that are not about events. *)

LEMMA PlainStart == Init => Plain
  BY RequestsAssumption DEF Init, Plain

LEMMA PlainServer ==
    ASSUME Plain, CallTypes, ServerSteps \/ HandlerSteps \/ EventSteps \/ Ends \/ Emit \/ Stop
    PROVE  Plain'
<1> USE DEF Plain, client, calls, stream, wire, events, server
<1>1. CASE ReadHead \/ ReadUnparsed \/ ReadEof
  <2>1. up # << >> => Head(up).req \in Requests
    <3>1. up \in Seq(Piece)
      BY DEF CallTypes
    <3>2. up # << >> => Head(up) \in Piece
      BY <3>1, HeadTailProperties
    <3> QED
      BY <3>2 DEF Piece
  <2> QED
    BY <1>1, <2>1 DEF ReadHead, ReadUnparsed, ReadEof, LineEnds
<1>2. ASSUME NEW r \in Requests, Hello(r) \/ Refuse(r) \/ Dispatch(r) \/ Respond(r) \/ Join(r)
      PROVE  Plain'
  BY <1>2 DEF Hello, Refuse, Dispatch, Respond, Join, LineEnds
<1>3. CASE SeeShutdown \/ Drained \/ WriteOut \/ Close \/ Stop
  BY <1>3 DEF SeeShutdown, Drained, WriteOut, Close, Stop
<1>4. ASSUME NEW r \in Requests,
             HandlerReturns(r) \/ HandleRun(r) \/ Find(r) \/ Subscribe(r) \/ CheckFinished(r)
      PROVE  Plain'
  BY <1>4 DEF HandlerReturns, HandleRun, Find, Subscribe, CheckFinished
<1>5. CASE EventSteps \/ Ends \/ Emit
  BY <1>5 DEF EventSteps, NotifyFinished, Forward, Ends, Emit
<1> QED
  BY <1>1, <1>2, <1>3, <1>4, <1>5 DEF ServerSteps, HandlerSteps

LEMMA PlainClient ==
    ASSUME Plain,
           \/ \E c \in Requests : Begin(c) \/ CallerSteps(c)
           \/ ReaderSteps \/ Deliver \/ Consume \/ Leave \/ Quiescent \/ UNCHANGED vars
    PROVE  Plain'
<1> USE DEF Plain, calls, stream, wire, events, server
<1>1. ASSUME NEW c \in Requests, Begin(c) \/ CallerSteps(c)
      PROVE  Plain'
  BY <1>1 DEF Begin, CallerSteps, InsertPending, Send, TakeAnswer, TakeClosed, TimeOut,
              TakeBacklog, Register
<1>2. CASE ReaderSteps
  BY <1>2 DEF ReaderSteps, ReadReply, RouteEvent, Unclaimed, CloseStep
<1>3. CASE Deliver \/ Consume \/ Leave \/ Quiescent \/ UNCHANGED vars
  BY <1>3 DEF Deliver, Consume, Leave, Quiescent, vars, client
<1> QED
  BY <1>1, <1>2, <1>3

LEMMA PlainNext == Plain /\ CallTypes /\ [Next]_vars => Plain'
  BY PlainServer, PlainClient DEF Next, Proceeds

\* There is one request for a stream.
LEMMA OneStreamer ==
    ASSUME Plain
    PROVE  /\ Streamer \in Requests /\ kind[Streamer] \in {"run", "subscribe"}
           /\ \A r \in Requests : r # Streamer => kind[r] \notin {"run", "subscribe"}
  BY RequestsAssumption DEF Plain

-----------------------------------------------------------------------------
(* Steps that move no events. *)

EventsStay ==
    /\ UNCHANGED <<kind, events, routing, unclaimed, sub, dropped, chan, delivering, got,
                   streaming>>
    /\ Numbers(outq)' = Numbers(outq) /\ Numbers(down)' = Numbers(down)
    /\ Cardinality(Places(outq))' = Cardinality(Places(outq))
    /\ Cardinality(Places(down))' = Cardinality(Places(down))
    /\ EventsRise(outq)' /\ EventsRise(down)'

\* A handler starts, or ends without having touched the stream.
HandlersMove ==
    \A r \in Requests :
        \/ handler'[r] = handler[r]
        \/ handler[r] = "none" /\ handler'[r] = "running"
        \/ /\ handler[r] \notin {"none", "found", "subscribed"}
           /\ r # Streamer \/ handler[r] # "running"
           /\ handler'[r] \in {"ok", "error", "finished", "ended"}

\* A call moves, but not to take the stream's backlog or past it.
PcMoves ==
    \A c \in Requests :
        \/ pc'[c] = pc[c]
        \/ /\ pc[c] \in Unsent \cup {"waiting"} /\ ~upEnd
           /\ pc'[c] \in Unsent \cup {"waiting", "done"} \/ (c = Streamer /\ pc'[c] = "take")

LEMMA OthersMove ==
    ASSUME StreamInv, EventsStay, HandlersMove, PcMoves, UNCHANGED upEnd,
           closing' = "left" <=> closing = "left", loop' = "closed" => ~Held'
    PROVE  Queues' /\ Ordered' /\ Source' /\ Counted' /\ Opened' /\ Gone' /\ Complete'
<1> USE DEF EventsStay, events
<1>1. /\ Shown' = Shown /\ Kept' = Kept /\ OnTheWay' = OnTheWay /\ Told' = Told
      /\ Count' = Count
  BY DEF Shown, Kept, OnTheWay, Told, Count
<1>2. Queues'
  BY DEF StreamInv, Queues
<1>3. Ordered'
  BY <1>1 DEF StreamInv, Ordered
<1>4. Source'
  <2>0. Streamer \in Requests
    BY RequestsAssumption
  <2>1. handler'[Streamer] \in {"none", "running", "found", "subscribed"} =>
            handler[Streamer] \in {"none", "running", "found", "subscribed"}
    BY <2>0 DEF HandlersMove
  <2>2. handler'[Streamer] \in {"none", "running", "found"} =>
            handler[Streamer] \in {"none", "running", "found"}
    BY <2>0 DEF HandlersMove
  <2>3. \A r \in Requests : handler'[r] \in {"found", "subscribed"} => handler'[r] = handler[r]
    BY DEF HandlersMove
  <2> QED
    BY <1>1, <2>0, <2>1, <2>2, <2>3 DEF StreamInv, Source
<1>5. Counted'
  BY <1>1 DEF StreamInv, Counted
<1>6. Opened'
  BY RequestsAssumption DEF StreamInv, Opened, PcMoves, Unsent
<1>7. Gone'
  <2>1. handler'[Streamer] \in {"none", "running"} => handler[Streamer] \in {"none", "running"}
    BY RequestsAssumption DEF HandlersMove
  <2> QED
    BY <2>1 DEF StreamInv, Gone, PcMoves
<1>8. Complete'
  BY <1>1 DEF StreamInv, Complete, Sparse
<1> QED
  BY <1>2, <1>3, <1>4, <1>5, <1>6, <1>7, <1>8

\* What the loop, the writer's end and the handlers hold of the connection.
LEMMA HeldFacts ==
    ASSUME StreamInv, CallTypes
    PROVE  loop = "closed" =>
              /\ \A r \in Requests : handler[r] \in {"none", "finished", "ended"}
              /\ receiver = NoReceiver /\ ~attached
  BY DEF StreamInv, Gone, Held

LEMMA ServerStays ==
    ASSUME StreamInv, CallInv,
           \/ ReadHead \/ ReadUnparsed \/ ReadEof \/ SeeShutdown \/ Drained \/ Close \/ Stop
           \/ \E r \in Requests :
                 Hello(r) \/ Refuse(r) \/ Dispatch(r) \/ HandlerReturns(r) \/ Respond(r) \/ Join(r)
    PROVE  Queues' /\ Ordered' /\ Source' /\ Counted' /\ Opened' /\ Gone' /\ Complete'
<1> USE DEF client, calls, stream, wire, events, server
<1>0. outq \in Seq(Sent) /\ down \in Seq(Sent) /\ EventsRise(outq) /\ EventsRise(down)
  BY DEF CallInv, CallTypes, StreamInv, Ordered
<1>1. \/ UNCHANGED outq
      \/ \E r \in Requests \cup {NoRequest}, s \in Says : Post(ReplyTo(r, s))
  <2>1. CASE ReadHead \/ ReadUnparsed \/ ReadEof \/ SeeShutdown \/ Drained \/ Close \/ Stop
    BY <2>1 DEF ReadHead, ReadUnparsed, ReadEof, SeeShutdown, Drained, Close, Stop, Says
  <2>2. ASSUME NEW r \in Requests,
               Hello(r) \/ Refuse(r) \/ Dispatch(r) \/ HandlerReturns(r) \/ Respond(r) \/ Join(r)
        PROVE  UNCHANGED outq \/ \E s \in Says : Post(ReplyTo(r, s))
    BY <2>2 DEF Hello, Refuse, Dispatch, HandlerReturns, Respond, Join, Says
  <2> QED
    BY <2>1, <2>2
<1>2. /\ EventsRise(outq)' /\ Numbers(outq)' = Numbers(outq)
      /\ Cardinality(Places(outq))' = Cardinality(Places(outq))
  <2>1. CASE UNCHANGED outq
    BY <1>0, <2>1
  <2>2. CASE \E r \in Requests \cup {NoRequest}, s \in Says : Post(ReplyTo(r, s))
    <3>1. PICK r \in Requests \cup {NoRequest}, s \in Says : Post(ReplyTo(r, s))
      BY <2>2
    <3>2. ReplyTo(r, s) \in Sent /\ ReplyTo(r, s).is # "event"
      BY SentTypes
    <3> QED
      BY <1>0, <3>1, <3>2, PostReply
  <2> QED
    BY <1>1, <2>1, <2>2
<1>3. /\ UNCHANGED <<kind, events, routing, unclaimed, sub, dropped, chan, delivering, got,
                     streaming, down, pc, upEnd, closing>>
  <2>1. CASE ReadHead \/ ReadUnparsed \/ ReadEof \/ SeeShutdown \/ Drained \/ Close \/ Stop
    BY <2>1 DEF ReadHead, ReadUnparsed, ReadEof, SeeShutdown, Drained, Close, Stop
  <2>2. ASSUME NEW r \in Requests,
               Hello(r) \/ Refuse(r) \/ Dispatch(r) \/ HandlerReturns(r) \/ Respond(r) \/ Join(r)
        PROVE  UNCHANGED <<kind, events, routing, unclaimed, sub, dropped, chan, delivering, got,
                           streaming, down, pc, upEnd, closing>>
    BY <2>2 DEF Hello, Refuse, Dispatch, HandlerReturns, Respond, Join
  <2> QED
    BY <2>1, <2>2
<1>4. HandlersMove
  <2>1. CASE ReadHead \/ ReadUnparsed \/ ReadEof \/ SeeShutdown \/ Drained \/ Close \/ Stop
    BY <2>1 DEF ReadHead, ReadUnparsed, ReadEof, SeeShutdown, Drained, Close, Stop, HandlersMove
  <2>2. ASSUME NEW r \in Requests,
               Hello(r) \/ Refuse(r) \/ Dispatch(r) \/ HandlerReturns(r) \/ Respond(r) \/ Join(r)
        PROVE  HandlersMove
    <3>1. Plain /\ handler \in [Requests -> {"none", "running", "found", "subscribed", "ok",
                                             "error", "finished", "ended"}]
      BY DEF StreamInv, CallInv, CallTypes
    <3>2. CASE Hello(r) \/ Refuse(r)
      BY <3>2 DEF Hello, Refuse, HandlersMove
    <3>3. CASE Dispatch(r)
      <4>1. handler[r] = "none" /\ handler' = [handler EXCEPT ![r] = "running"]
        BY <3>3, LineRead DEF Dispatch, HandlerGoes
      <4> QED
        BY <3>1, <4>1 DEF HandlersMove
    <3>4. CASE HandlerReturns(r) \/ Respond(r) \/ Join(r)
      <4>1. /\ handler[r] \in {"running", "ok", "error", "finished"}
            /\ handler[r] = "running" => r # Streamer
            /\ \E l \in {"ok", "error", "finished", "ended"} : HandlerGoes(r, l)
        BY <3>1, <3>4, OneStreamer DEF HandlerReturns, Respond, Join
      <4> QED
        BY <3>1, <4>1 DEF HandlersMove, HandlerGoes
    <3> QED
      BY <2>2, <3>2, <3>3, <3>4
  <2> QED
    BY <2>1, <2>2
<1>5. loop' = "closed" => ~Held'
  <2>1. CASE Close
    BY <2>1 DEF Close, Held
  <2>2. CASE ~Close
    <3>1. loop' = "closed" => loop = "closed"
      BY <2>2 DEF ReadHead, ReadUnparsed, ReadEof, SeeShutdown, Drained, Stop, Hello, Refuse,
                  Dispatch, HandlerReturns, Respond, Join
    <3>2. loop = "closed" => UNCHANGED handler
      <4>1. ASSUME NEW r \in Requests, loop = "closed",
                   Hello(r) \/ Refuse(r) \/ Dispatch(r) \/ HandlerReturns(r) \/ Respond(r) \/ Join(r)
            PROVE  UNCHANGED handler
        <5>1. handler[r] \in {"none", "finished", "ended"}
          BY <4>1, HeldFacts DEF CallInv
        <5> QED
          BY <4>1, <5>1 DEF Hello, Refuse, Dispatch, HandlerReturns, Respond, Join, LineEnds
      <4> QED
        BY <2>2, <4>1 DEF ReadHead, ReadUnparsed, ReadEof, SeeShutdown, Drained, Stop
    <3> QED
      BY <1>3, <3>1, <3>2 DEF StreamInv, Gone, Held
  <2> QED
    BY <2>1, <2>2
<1>6. EventsStay
  BY <1>0, <1>2, <1>3 DEF EventsStay
<1>7. PcMoves
  BY <1>3 DEF PcMoves
<1> QED
  BY <1>3, <1>4, <1>5, <1>6, <1>7, OthersMove
LEMMA CallersStay ==
    ASSUME StreamInv, CallInv,
           \/ \E c \in Requests : \/ Begin(c) \/ InsertPending(c) \/ Send(c) \/ TakeAnswer(c)
                                  \/ TakeClosed(c) \/ TimeOut(c)
           \/ Quiescent \/ UNCHANGED vars
    PROVE  Queues' /\ Ordered' /\ Source' /\ Counted' /\ Opened' /\ Gone' /\ Complete'
<1> USE DEF client, calls, stream, wire, events, server
<1>1. UNCHANGED <<kind, events, server, routing, unclaimed, sub, dropped, chan, delivering, got,
                  streaming, down, upEnd, closing>>
  BY DEF Begin, InsertPending, Send, TakeAnswer, TakeClosed, TimeOut, Quiescent, vars
<1>2. PcMoves
  <2>1. ASSUME NEW c \in Requests,
               Begin(c) \/ InsertPending(c) \/ Send(c) \/ TakeAnswer(c) \/ TakeClosed(c) \/ TimeOut(c)
        PROVE  PcMoves
    <3>1. pc \in [Requests -> Unsent \cup {"waiting", "take", "register", "done"}]
      BY DEF CallInv, CallTypes
    <3>2. pc[c] \in Unsent \cup {"waiting"} /\ ~upEnd
      BY <2>1 DEF Begin, InsertPending, Send, TakeAnswer, TakeClosed, TimeOut, Unsent, StreamInv,
                  Gone
    <3>3. \/ \E l \in Unsent \cup {"waiting", "done"} : pc' = [pc EXCEPT ![c] = l]
          \/ c = Streamer /\ pc' = [pc EXCEPT ![c] = "take"]
      BY <2>1 DEF Begin, InsertPending, Send, TakeAnswer, TakeClosed, TimeOut, Goes, Returns,
                  Unsent
    <3> QED
      BY <3>1, <3>2, <3>3 DEF PcMoves
  <2> QED
    BY <2>1 DEF Quiescent, vars, PcMoves
<1>3. EventsStay
  BY <1>1 DEF EventsStay, StreamInv, Ordered
<1>4. HandlersMove /\ (loop' = "closed" => ~Held')
  BY <1>1 DEF HandlersMove, StreamInv, Gone, Held
<1> QED
  BY <1>1, <1>2, <1>3, <1>4, OthersMove

LEMMA ReaderStays ==
    ASSUME StreamInv, CallInv, ReadReply \/ (CloseStep /\ UNCHANGED sub)
    PROVE  Queues' /\ Ordered' /\ Source' /\ Counted' /\ Opened' /\ Gone' /\ Complete'
<1> USE DEF client, calls, stream, wire, events, server
<1>1. /\ UNCHANGED <<kind, events, server, routing, unclaimed, sub, dropped, chan, delivering, got,
                     streaming, upEnd, pc>>
      /\ closing' = "left" <=> closing = "left"
  BY DEF ReadReply, CloseStep
<1>2. EventsStay
  <2>0. down \in Seq(Sent) /\ EventsRise(down) /\ EventsRise(outq)
    BY DEF CallInv, CallTypes, StreamInv, Ordered
  <2>1. CASE UNCHANGED down
    BY <1>1, <2>0, <2>1 DEF EventsStay
  <2>2. CASE ReadReply
    <3>1. down # << >> /\ Head(down).is # "event" /\ down' = Tail(down)
      BY <2>2 DEF ReadReply, Reads
    <3> QED
      BY <1>1, <2>0, <3>1, QueueTail DEF EventsStay
  <2> QED
    BY <2>1, <2>2 DEF CloseStep
<1>3. HandlersMove /\ PcMoves /\ (loop' = "closed" => ~Held')
  BY <1>1 DEF HandlersMove, PcMoves, StreamInv, Gone, Held
<1> QED
  BY <1>1, <1>2, <1>3, OthersMove

-----------------------------------------------------------------------------
(* The agent and the handlers of its stream. *)

LEMMA ToldTypes ==
    ASSUME StreamInv
    PROVE  \A x \in Told : x \in Int /\ x <= Terminal /\ 0 <= x
  BY EventBounds DEF StreamInv, Source

LEMMA CountType ==
    ASSUME StreamInv, CallTypes
    PROVE  /\ Count \in Nat /\ dropped \in Nat /\ Len(unclaimed) \in Nat
           /\ Cardinality(Places(down)) \in Nat /\ Cardinality(Places(outq)) \in Nat
           /\ dropped + Len(unclaimed) + (IF routing = NoReceiver THEN 0 ELSE 1) <= Count
<1>1. /\ Cardinality(Places(down)) \in Nat /\ Cardinality(Places(outq)) \in Nat
  BY PlacesFinite DEF CallTypes
<1>2. dropped \in Nat /\ Len(unclaimed) \in Nat
  BY LenProperties DEF StreamInv, Queues
<1> QED
  BY <1>1, <1>2 DEF Count

LEMMA AgentSteps ==
    ASSUME StreamInv, CallInv, Emit \/ Ends
    PROVE  Queues' /\ Ordered' /\ Source' /\ Counted' /\ Opened' /\ Gone' /\ Complete'
<1> USE DEF client, calls, stream, wire, events, server
<1>1. /\ UNCHANGED <<kind, wire, server, receiver, attached, client>>
      /\ \/ /\ agent = "running" /\ emitted < MaxEvents /\ emitted' = emitted + 1
            /\ UNCHANGED agent
         \/ /\ UNCHANGED emitted /\ agent # "none"
            /\ agent' \in {"removed", "finished", "told"}
            /\ agent' = "removed" => agent = "running"
            /\ agent # "told"
  BY DEF Emit, Ends
<1>2. /\ Shown' = Shown /\ Kept' = Kept /\ OnTheWay' = OnTheWay /\ Told' = Told
      /\ Count' = Count
  BY <1>1 DEF Shown, Kept, OnTheWay, Told, Count
<1>3. Queues' /\ Opened'
  BY <1>1 DEF StreamInv, Queues, Opened
<1>4. Ordered'
  BY <1>1, <1>2 DEF StreamInv, Ordered
<1>5. Source'
  BY <1>1, <1>2, EventBounds DEF StreamInv, Source
<1>6. Counted'
  BY <1>1, <1>2, CountType DEF StreamInv, Counted, Source, CallInv
<1>7. Gone'
  BY <1>1 DEF StreamInv, Gone, Held
<1>8. Complete'
  <2>1. CASE UNCHANGED emitted
    BY <1>1, <1>2, <2>1 DEF StreamInv, Complete, Sparse
  <2>2. CASE agent = "running" /\ emitted' = emitted + 1
    <3>1. Terminal \notin Told
      BY <2>2, EventBounds DEF StreamInv, Source
    <3>2. Sparse' => Sparse
      BY <1>1, <2>2, EventBounds DEF StreamInv, Source, Sparse
    <3>3. kind[Streamer] = "run" /\ ~upEnd => receiver # NoReceiver
      BY <2>2 DEF StreamInv, Gone
    <3> QED
      BY <1>1, <1>2, <3>1, <3>2, <3>3 DEF StreamInv, Complete, Sparse, Told
  <2> QED
    BY <1>1, <2>1, <2>2
<1> QED
  BY <1>3, <1>4, <1>5, <1>6, <1>7, <1>8

LEMMA HandlerStarts ==
    ASSUME StreamInv, CallInv, NEW r \in Requests,
           HandleRun(r) \/ Find(r) \/ Subscribe(r) \/ CheckFinished(r)
    PROVE  Queues' /\ Ordered' /\ Source' /\ Counted' /\ Opened' /\ Gone' /\ Complete'
<1> USE DEF client, calls, stream, wire, events, server
<1>1. /\ UNCHANGED <<kind, wire, emitted, client, loop, outq>>
      /\ r = Streamer /\ Plain /\ Streamer \in Requests
      /\ handler \in [Requests -> {"none", "running", "found", "subscribed", "ok", "error",
                                   "finished", "ended"}]
  <2>1. kind[r] \in {"run", "subscribe"}
    BY DEF HandleRun, Find, Subscribe, CheckFinished, StreamInv, Source
  <2> QED
    BY <2>1, OneStreamer DEF HandleRun, Find, Subscribe, CheckFinished, CallInv, CallTypes, StreamInv
<1>2. /\ Shown' = Shown /\ Kept' = Kept /\ OnTheWay' = OnTheWay /\ Told' = Told
      /\ Count' = Count
  BY <1>1 DEF Shown, Kept, OnTheWay, Told, Count
<1>3. Queues' /\ Opened'
  BY <1>1 DEF StreamInv, Queues, Opened
<1>4. Ordered'
  BY <1>1, <1>2 DEF StreamInv, Ordered
<1>5. Count = 0 /\ Told = {} /\ loop # "closed"
  <2>1. handler[r] \in {"running", "found", "subscribed"}
    BY DEF HandleRun, Find, Subscribe, CheckFinished
  <2> QED
    BY <1>1, <2>1, HeldFacts DEF StreamInv, Source, CallInv
<1>6. \E l \in {"ok", "error", "found", "subscribed"} : handler' = [handler EXCEPT ![r] = l]
  BY DEF HandleRun, Find, Subscribe, CheckFinished, HandlerGoes
<1>7. handler'[Streamer] \in {"ok", "error", "found", "subscribed"} /\
      \A q \in Requests : q # Streamer => handler'[q] = handler[q]
  BY <1>1, <1>6
<1>8. /\ receiver' \in 0 .. emitted \cup {Terminal, NoReceiver}
      /\ attached' => receiver' = NoReceiver /\ agent' \in {"removed", "finished", "told"}
      /\ receiver' = Terminal => agent' = "told"
      /\ agent' = "none" => kind[Streamer] = "run"
      /\ handler'[Streamer] = "found" => receiver' = NoReceiver /\ ~attached'
      /\ handler'[Streamer] = "subscribed" => ~attached'
      /\ handler'[Streamer] \in {"found", "subscribed"} => kind[r] = "subscribe"
      /\ kind[Streamer] = "run" => /\ ~attached' /\ handler[r] = "running"
                                   /\ handler'[r] \in {"ok", "error"}
                                   /\ agent' = "running" => receiver' # NoReceiver
                                   /\ agent' \in {"none", "running"} /\ agent = "none"
  <2>1. CASE HandleRun(r)
    <3>1. handler'[r] \in {"ok", "error"}
      BY <1>1, <2>1 DEF HandleRun, HandlerGoes
    <3>2. /\ kind[r] = "run" /\ handler[r] = "running" /\ ~attached /\ receiver = NoReceiver
          /\ agent = "none"
      BY <1>1, <2>1 DEF HandleRun, StreamInv, Source, Gone
    <3>3. /\ UNCHANGED attached
          /\ (agent' = "running" /\ receiver' = 0) \/ UNCHANGED <<agent, receiver>>
      BY <2>1 DEF HandleRun
    <3> QED
      BY <1>1, <3>1, <3>2, <3>3, EventBounds DEF StreamInv, Source, Gone
  <2>2. CASE Find(r)
    <3>1. kind[r] = "subscribe" /\ handler[r] = "running" /\ UNCHANGED <<agent, receiver>>
      BY <2>2 DEF Find
    <3>2. \/ handler'[r] = "found" /\ UNCHANGED attached
          \/ handler'[r] = "ok" /\ agent \in {"removed", "finished", "told"}
      BY <1>1, <2>2, <3>1 DEF Find, HandlerGoes, Plain, StreamInv, Source
    <3> QED
      BY <1>1, <3>1, <3>2 DEF StreamInv, Source
  <2>3. CASE Subscribe(r)
    <3>1. /\ handler[r] = "found" /\ handler'[r] = "subscribed" /\ UNCHANGED <<agent, attached>>
          /\ (receiver' = Terminal /\ agent = "told") \/ receiver' = emitted
      BY <1>1, <2>3 DEF Subscribe, HandlerGoes
    <3> QED
      BY <1>1, <3>1, EventBounds DEF StreamInv, Source
  <2>4. CASE CheckFinished(r)
    <3>1. /\ handler[r] = "subscribed" /\ handler'[r] = "ok" /\ UNCHANGED agent
          /\ \/ /\ attached' = TRUE /\ receiver' = NoReceiver
                /\ agent \in {"finished", "told"}
             \/ UNCHANGED <<attached, receiver>>
      BY <1>1, <2>4 DEF CheckFinished, HandlerGoes
    <3> QED
      BY <1>1, <3>1, EventBounds DEF StreamInv, Source
  <2> QED
    BY <2>1, <2>2, <2>3, <2>4
<1>9. Source'
  BY <1>1, <1>2, <1>5, <1>7, <1>8, EventBounds DEF StreamInv, Source
<1>10. Counted'
  BY <1>1, <1>2, <1>5, <1>8, EventBounds DEF StreamInv, Counted, Source
<1>11. Gone'
  <2>1. kind[Streamer] = "run" /\ agent' = "none" => emitted' = 0
    BY <1>1, <1>8 DEF StreamInv, Gone
  <2> QED
    BY <1>1, <1>5, <1>8, <2>1 DEF StreamInv, Gone
<1>12. Complete'
  <2>1. Terminal \notin Shown'
    BY <1>2, <1>5 DEF Told
  <2>2. kind[Streamer] = "run" => (IF receiver' = NoReceiver THEN emitted' ELSE receiver') = 0
    <3>1. CASE HandleRun(r) /\ receiver' = 0
      BY <3>1, EventBounds
    <3>2. CASE UNCHANGED <<agent, receiver>> /\ HandleRun(r)
      <4>1. handler[r] = "running"
        BY <3>2 DEF HandleRun
      <4>2. kind[Streamer] = "run" => receiver = NoReceiver /\ agent = "none"
        BY <1>1, <4>1 DEF StreamInv, Source, Gone
      <4> QED
        BY <1>1, <3>2, <4>2 DEF StreamInv, Gone
    <3>3. CASE kind[r] = "subscribe"
      BY <1>1, <3>3
    <3> QED
      BY <3>1, <3>2, <3>3 DEF HandleRun, Find, Subscribe, CheckFinished, StreamInv, Source
  <2> QED
    BY <1>1, <1>2, <2>1, <2>2 DEF Complete, Sparse
<1> QED
  BY <1>3, <1>4, <1>9, <1>10, <1>11, <1>12
-----------------------------------------------------------------------------
(* The way of an event out of the daemon. *)

LEMMA WriteOutStays ==
    ASSUME StreamInv, CallInv, WriteOut
    PROVE  Queues' /\ Ordered' /\ Source' /\ Counted' /\ Opened' /\ Gone' /\ Complete'
<1> USE DEF client, calls, stream, wire, events, server
<1>1. /\ UNCHANGED <<kind, events, handler, loop, upEnd, client>> /\ outq # << >>
      /\ \/ upEnd /\ outq' = << >> /\ UNCHANGED down
         \/ ~upEnd /\ outq' = Tail(outq) /\ down' = Append(down, Head(outq))
  BY DEF WriteOut
<1>2. outq \in Seq(Sent) /\ down \in Seq(Sent) /\ EventsRise(outq) /\ EventsRise(down)
  BY DEF CallInv, CallTypes, StreamInv, Ordered
<1>3. /\ Shown' = Shown /\ Kept' = Kept
  BY <1>1 DEF Shown, Kept
<1>4. Queues' /\ Opened' /\ Gone'
  BY <1>1 DEF StreamInv, Queues, Opened, Gone, Held
<1>5. CASE upEnd /\ outq' = << >> /\ UNCHANGED down
  <2>1. Places(outq') = {} /\ Numbers(outq') = {} /\ EventsRise(outq')
    BY <1>5 DEF Places, Numbers, EventsRise
  <2>2. Cardinality(Places(outq))' = 0
    BY <2>1, FS_EmptySet
  <2>3. OnTheWay' \subseteq OnTheWay /\ Told' \subseteq Told /\ Numbers(outq)' = {}
    BY <1>1, <1>3, <1>5, <2>1 DEF OnTheWay, Told
  <2>4. Count' <= Count /\ Count' \in Nat /\ Count \in Nat
    <3>1. Count' = dropped + Len(unclaimed) + (IF routing = NoReceiver THEN 0 ELSE 1)
                       + Cardinality(Places(down)) + 0
      BY <1>1, <1>5, <2>2 DEF Count
    <3> QED
      BY <3>1, CountType DEF CallInv, Count
  <2>5. Ordered'
    BY <1>1, <1>3, <1>5, <2>1, <2>3 DEF StreamInv, Ordered, Before
  <2>6. Source'
    BY <1>1, <2>3, <2>4 DEF StreamInv, Source
  <2>7. Counted'
    BY <1>1, <2>4, EventBounds DEF StreamInv, Counted, Source
  <2>8. Complete'
    BY <1>1, <1>3, <1>5 DEF StreamInv, Complete, Sparse
  <2> QED
    BY <1>4, <2>5, <2>6, <2>7, <2>8
<1>6. CASE ~upEnd /\ outq' = Tail(outq) /\ down' = Append(down, Head(outq))
  <2>1. CASE Head(outq).is # "event"
    <3>1. EventsStay
      BY <1>1, <1>2, <1>6, <2>1, QueueTail, QueueAppend DEF EventsStay
    <3>2. HandlersMove /\ PcMoves /\ (loop' = "closed" => ~Held')
      BY <1>1 DEF HandlersMove, PcMoves, StreamInv, Gone, Held
    <3> QED
      BY <1>1, <3>1, <3>2, OthersMove
  <2>2. CASE Head(outq).is = "event"
    <3> DEFINE n == Head(outq).no
    <3>1. /\ EventsRise(outq') /\ Numbers(outq) = {n} \cup Numbers(outq')
          /\ Before({n}, Numbers(outq')) /\ Head(outq) \in Sent /\ outq' \in Seq(Sent)
          /\ Cardinality(Places(outq)) = Cardinality(Places(outq')) + 1
      BY <1>1, <1>2, <1>6, <2>2, QueueTail
    <3>2. Before(Numbers(down), {n}) /\ Before(Numbers(down), Numbers(outq'))
      BY <3>1 DEF StreamInv, Ordered, Before
    <3>3. /\ EventsRise(down') /\ Numbers(down') = Numbers(down) \cup {n}
          /\ Cardinality(Places(down')) = Cardinality(Places(down)) + 1
      BY <1>2, <1>6, <2>2, <3>1, <3>2, QueueAppend
    <3>4. OnTheWay' = OnTheWay /\ Told' = Told
      BY <1>3, <3>1, <3>3 DEF OnTheWay, Told
    <3>5. Count' = Count
      <4>1. /\ Cardinality(Places(down)) \in Nat /\ Cardinality(Places(outq)) \in Nat
            /\ Cardinality(Places(outq')) \in Nat
        BY <1>2, <3>1, PlacesFinite
      <4>2. dropped \in Nat /\ Len(unclaimed) \in Nat
        BY CountType DEF CallInv
      <4>3. UNCHANGED <<dropped, unclaimed, routing>>
        BY <1>1
      <4>4. (IF routing = NoReceiver THEN 0 ELSE 1) \in Nat
        OBVIOUS
      <4> QED
        BY <3>1, <3>3, <4>1, <4>2, <4>3, <4>4 DEF Count
    <3>6. Before(Numbers(down'), Numbers(outq'))
      BY <3>1, <3>2, <3>3 DEF Before
    <3>7. Ordered'
      BY <1>1, <1>3, <3>1, <3>3, <3>4, <3>6 DEF StreamInv, Ordered
    <3>8. Source' /\ Counted' /\ Complete'
      BY <1>1, <1>3, <3>4, <3>5 DEF StreamInv, Source, Counted, Complete, Sparse
    <3> QED
      BY <1>4, <3>7, <3>8
  <2> QED
    BY <2>1, <2>2
<1> QED
  BY <1>1, <1>5, <1>6

\* An event behind all that were told is sent.
LEMMA EventPosted ==
    ASSUME StreamInv, CallInv, NEW n \in Warning .. Terminal,
           outq' = Append(outq, EventNo(n)), UNCHANGED <<down, stream>>,
           \A x \in Told : Lt(x, n)
    PROVE  /\ Ordered' /\ Shown' = Shown /\ Kept' = Kept /\ OnTheWay' = OnTheWay \cup {n}
           /\ Told' = Told \cup {n} /\ Count' = Count + 1
<1> USE DEF stream
<1>1. outq \in Seq(Sent) /\ down \in Seq(Sent) /\ EventsRise(outq) /\ EventsRise(down)
  BY DEF CallInv, CallTypes, StreamInv, Ordered
<1>2. EventNo(n) \in Sent /\ EventNo(n).is = "event" /\ EventNo(n).no = n
  BY SentTypes, EventBounds DEF EventNo
<1>3. Before(Told, {n})
  BY DEF Before
<1>4. Before(Numbers(outq), {n})
  BY <1>3 DEF Before, Told, OnTheWay
<1>5. /\ EventsRise(outq') /\ Numbers(outq') = Numbers(outq) \cup {n}
      /\ Cardinality(Places(outq')) = Cardinality(Places(outq)) + 1
  BY <1>1, <1>2, <1>4, QueueAppend
<1>6. Shown' = Shown /\ Kept' = Kept /\ OnTheWay' = OnTheWay \cup {n} /\ Told' = Told \cup {n}
  BY <1>5 DEF Shown, Kept, OnTheWay, Told
<1>7. Count' = Count + 1
  <2>1. dropped \in Nat /\ Len(unclaimed) \in Nat
        /\ Cardinality(Places(down)) \in Nat /\ Cardinality(Places(outq)) \in Nat
    BY CountType DEF CallInv
  <2> QED
    BY <1>5, <2>1 DEF Count
<1>8. /\ Before(Shown', OnTheWay') /\ Before(Kept, {n})
      /\ Before(Numbers(down)', Numbers(outq)')
  <2>1. Shown \subseteq Told /\ Numbers(down) \subseteq Told /\ Kept \subseteq Told
    BY DEF Told, OnTheWay
  <2> QED
    BY <1>3, <1>5, <1>6, <2>1 DEF StreamInv, Ordered, Before
<1>9. streaming' = "no" => Before(Kept', OnTheWay')
  BY <1>6, <1>8 DEF StreamInv, Ordered, Before
<1>10. Ordered'
  BY <1>1, <1>5, <1>8, <1>9 DEF StreamInv, Ordered
<1> QED
  BY <1>6, <1>7, <1>10

LEMMA NotifyStays ==
    ASSUME StreamInv, CallInv, NotifyFinished
    PROVE  Queues' /\ Ordered' /\ Source' /\ Counted' /\ Opened' /\ Gone' /\ Complete'
<1> USE DEF client, calls, stream, wire, events, server
<1>1. /\ UNCHANGED <<kind, wire, handler, loop, agent, emitted, receiver, client>>
      /\ attached /\ attached' = FALSE /\ Post(EventNo(Terminal))
  BY DEF NotifyFinished
<1>2. Queues' /\ Opened'
  BY <1>1 DEF StreamInv, Queues, Opened
<1>3. /\ Told = {} /\ Count = 0 /\ receiver = NoReceiver /\ kind[Streamer] # "run"
      /\ agent \in {"removed", "finished", "told"}
      /\ handler[Streamer] \notin {"none", "running", "found", "subscribed"}
  BY <1>1 DEF StreamInv, Source
<1>4. Gone' /\ Complete'
  BY <1>1, <1>3 DEF StreamInv, Gone, Held, Complete, Sparse
<1>5. CASE outq' = Append(outq, EventNo(Terminal))
  <2>1. Terminal \in Warning .. Terminal
    BY EventBounds
  <2>2. Ordered' /\ Told' = {Terminal} /\ Count' = 1
    BY <1>1, <1>3, <1>5, <2>1, EventPosted
  <2>3. Source'
    BY <1>1, <1>3, <2>2, EventBounds DEF StreamInv, Source
  <2>4. Counted'
    BY <1>1, <1>3, <2>2 DEF StreamInv, Source, Counted
  <2> QED
    BY <1>2, <1>4, <2>2, <2>3, <2>4
<1>6. CASE UNCHANGED outq
  <2>1. /\ Shown' = Shown /\ Kept' = Kept /\ OnTheWay' = OnTheWay /\ Told' = Told
        /\ Count' = Count
    BY <1>1, <1>6 DEF Shown, Kept, OnTheWay, Told, Count
  <2> QED
    BY <1>1, <1>2, <1>3, <1>4, <1>6, <2>1 DEF StreamInv, Ordered, Source, Counted
<1> QED
  BY <1>1, <1>5, <1>6 DEF Post

\* The forwarder sends an event, a warning for those it has lost, or the last.
LEMMA ForwardSends ==
    ASSUME StreamInv, CallInv, Forwarding, ~attached, NEW n \in Warning .. Terminal,
           outq' = Append(outq, EventNo(n)),
           UNCHANGED <<kind, wire, handler, loop, agent, emitted, attached, client>>,
           receiver \in 0 .. emitted,
           \/ n = Warning /\ receiver' \in receiver + 1 .. emitted
           \/ n = receiver + 1 /\ n <= emitted /\ receiver' = n
           \/ /\ n = Terminal /\ receiver = emitted /\ agent = "told"
              /\ receiver' = NoReceiver
    PROVE  Queues' /\ Ordered' /\ Source' /\ Counted' /\ Opened' /\ Gone' /\ Complete'
<1> USE DEF client, calls, stream, wire, events, server
<1>1. Queues' /\ Opened'
  BY DEF StreamInv, Queues, Opened
<1>2. /\ emitted \in 0 .. MaxEvents /\ receiver # NoReceiver /\ receiver # Terminal
      /\ \A x \in Told : x \in Warning .. emitted /\ x <= receiver /\ x # Terminal
      /\ handler[Streamer] \notin {"none", "running", "found", "subscribed"}
  BY EventBounds DEF StreamInv, Source, Forwarding
<1>3. \A x \in Told : Lt(x, n)
  BY <1>2, EventBounds DEF Lt
<1>4. /\ Ordered' /\ Shown' = Shown /\ Told' = Told \cup {n} /\ Count' = Count + 1
  BY <1>3, EventPosted
<1>5. receiver' # NoReceiver => receiver' \in 0 .. emitted /\ receiver' > receiver /\ n <= receiver'
  BY <1>2, EventBounds
<1>6. Source'
  <2>1. \A x \in Told' : x \in Warning .. emitted \/ (x = Terminal /\ agent = "told")
    BY <1>2, <1>4, EventBounds
  <2>2. receiver' # NoReceiver => n # Terminal
    BY <1>2, EventBounds
  <2>3. receiver' # NoReceiver => \A x \in Told' : x <= receiver' /\ x # Terminal
    BY <1>2, <1>4, <1>5, <2>2
  <2>4. receiver' # Terminal
    BY <1>2, EventBounds
  <2>5. Terminal \in Told' => receiver' = NoReceiver
    BY <2>3
  <2>6. receiver' \in 0 .. emitted \cup {Terminal, NoReceiver}
    BY <1>5
  <2>7. /\ agent = "none" => kind[Streamer] = "run"
        /\ \A r \in Requests : handler[r] \in {"found", "subscribed"} => kind[r] = "subscribe"
    BY DEF StreamInv, Source
  <2> QED
    BY <1>2, <2>1, <2>3, <2>4, <2>5, <2>6, <2>7 DEF Source
<1>7. Counted'
  <2>1. Count \in Nat /\ Count <= receiver
    BY <1>2, CountType DEF StreamInv, Counted, CallInv
  <2>2. receiver' = NoReceiver => receiver = emitted
    BY <1>2, EventBounds
  <2>3. Count' <= receiver + 1 /\ emitted \in Int /\ receiver \in Int /\ Count' \in Int
    BY <1>2, <1>4, <2>1, EventBounds
  <2>4. CASE receiver' = NoReceiver
    BY <2>2, <2>3, <2>4 DEF Counted
  <2>5. CASE receiver' # NoReceiver
    <3>1. receiver' \in Int /\ receiver' > receiver
      BY <1>5, <2>5
    <3> QED
      BY <2>3, <2>5, <3>1 DEF Counted
  <2> QED
    BY <2>4, <2>5
<1>8. Gone'
  <2>1. loop # "closed"
    BY <1>2, HeldFacts DEF CallInv
  <2>2. receiver' = NoReceiver => agent = "told"
    BY <1>2, EventBounds
  <2> QED
    BY <2>1, <2>2 DEF StreamInv, Gone
<1>9. Complete'
  <2>1. Terminal \notin Shown
    BY <1>2 DEF Told
  <2>2. 1 .. receiver \subseteq Told =>
            Warning \in Told' \/ 1 .. (IF receiver' = NoReceiver THEN emitted ELSE receiver') \subseteq Told'
    BY <1>2, <1>4, EventBounds
  <2>3. Warning \in Told => Warning \in Told'
    BY <1>4
  <2> QED
    BY <1>2, <1>4, <2>1, <2>2, <2>3 DEF StreamInv, Complete, Sparse
<1> QED
  BY <1>1, <1>4, <1>6, <1>7, <1>8, <1>9

\* It ends without a word, when nobody is left to read or nothing was left to tell.
LEMMA ForwardStops ==
    ASSUME StreamInv, CallInv, Forwarding, ~attached, UNCHANGED outq,
           UNCHANGED <<kind, wire, handler, loop, agent, emitted, attached, client>>,
           receiver' = NoReceiver, upEnd \/ receiver = Terminal
    PROVE  Queues' /\ Ordered' /\ Source' /\ Counted' /\ Opened' /\ Gone' /\ Complete'
<1> USE DEF client, calls, stream, wire, events, server
<1>1. Queues' /\ Opened'
  BY DEF StreamInv, Queues, Opened
<1>2. /\ Shown' = Shown /\ Kept' = Kept /\ OnTheWay' = OnTheWay /\ Told' = Told
      /\ Count' = Count
  BY DEF Shown, Kept, OnTheWay, Told, Count
<1>3. Ordered'
  BY <1>2 DEF StreamInv, Ordered
<1>4. /\ receiver # NoReceiver /\ receiver \in 0 .. emitted \cup {Terminal}
      /\ emitted \in 0 .. MaxEvents /\ Terminal \notin Told
      /\ handler[Streamer] \notin {"none", "running", "found", "subscribed"}
      /\ receiver = Terminal => agent = "told" /\ Count = 0
  BY DEF StreamInv, Source, Forwarding
<1>5. Source'
  BY <1>2, <1>4, EventBounds DEF StreamInv, Source
<1>6. Counted'
  <2>1. Count \in Nat /\ Count <= receiver
    BY <1>4, CountType DEF StreamInv, Counted, CallInv
  <2> QED
    BY <1>2, <1>4, <2>1, EventBounds DEF Counted
<1>7. Gone'
  <2>1. loop # "closed"
    BY <1>4, HeldFacts DEF CallInv
  <2> QED
    BY <1>4, <2>1 DEF StreamInv, Gone
<1>8. Complete'
  <2>1. Terminal \notin Shown
    BY <1>4 DEF Told
  <2>2. receiver = Terminal /\ 1 .. receiver \subseteq Told => 1 .. emitted \subseteq Told
    BY <1>4, EventBounds
  <2> QED
    BY <1>2, <1>4, <2>1, <2>2 DEF StreamInv, Complete, Sparse
<1> QED
  BY <1>1, <1>3, <1>5, <1>6, <1>7, <1>8

LEMMA ForwardStays ==
    ASSUME StreamInv, CallInv, Forward
    PROVE  Queues' /\ Ordered' /\ Source' /\ Counted' /\ Opened' /\ Gone' /\ Complete'
<1>1. /\ Forwarding /\ receiver # NoReceiver
      /\ UNCHANGED <<kind, wire, handler, loop, agent, emitted, attached, client>>
  BY DEF Forward, Forwarding
<1>2. /\ ~attached /\ emitted \in 0 .. MaxEvents
      /\ receiver \in 0 .. emitted \cup {Terminal}
  BY <1>1 DEF StreamInv, Source, Plain
<1>3. ~writerUp => upEnd
  <2>1. loop # "closed"
    BY <1>1, HeldFacts DEF CallInv
  <2> QED
    BY <2>1 DEF CallInv, WriterEnds
<1>4. CASE writerUp /\ receiver # Terminal
  <2>1. receiver \in 0 .. emitted
    BY <1>2, <1>4
  <2>2. PICK n \in Warning .. Terminal :
            /\ outq' = Append(outq, EventNo(n))
            /\ \/ n = Warning /\ receiver' \in receiver + 1 .. emitted
               \/ n = receiver + 1 /\ n <= emitted /\ receiver' = n
               \/ /\ n = Terminal /\ receiver = emitted /\ agent = "told"
                  /\ receiver' = NoReceiver
    <3>1. CASE Lags /\ Post(EventNo(Warning)) /\ receiver' = emitted + (IF agent = "told" THEN 1 ELSE 0) - Broadcast
      <4>1. receiver' \in receiver + 1 .. emitted
        BY <1>2, <2>1, <3>1, EventBounds DEF Lags
      <4> QED
        BY <1>4, <3>1, <4>1, EventBounds DEF Post
    <3>2. CASE ~Lags /\ receiver < emitted /\ Post(EventNo(receiver + 1)) /\ receiver' = receiver + 1
      BY <1>2, <1>4, <2>1, <3>2, EventBounds DEF Post
    <3>3. CASE receiver = emitted /\ agent = "told" /\ Post(EventNo(Terminal)) /\ receiver' = NoReceiver
      BY <1>4, <3>3, EventBounds DEF Post
    <3> QED
      BY <1>4, <3>1, <3>2, <3>3 DEF Forward
  <2> QED
    BY <1>1, <1>2, <2>1, <2>2, ForwardSends
<1>5. CASE ~writerUp \/ receiver = Terminal
  <2>1. UNCHANGED outq /\ receiver' = NoReceiver
    <3>1. receiver = Terminal => ~Lags /\ ~(receiver < emitted) /\ receiver # emitted
      BY <1>2, EventBounds DEF Lags
    <3> QED
      BY <1>5, <3>1 DEF Forward, Post
  <2> QED
    BY <1>1, <1>2, <1>3, <1>5, <2>1, ForwardStops
<1> QED
  BY <1>4, <1>5

-----------------------------------------------------------------------------
(* The way of an event into the stream. *)

\* On the client's side events only get fewer; a warning may be added.
LEMMA SourceStays ==
    ASSUME StreamInv, CallInv, UNCHANGED <<kind, events, handler>>,
           Count' \in Nat, Count' <= Count, Told' \subseteq Told \cup {Warning},
           Told = {} => Told' = {}
    PROVE  Source' /\ Counted'
<1> USE DEF events
<1>1. Count \in Nat
  BY CountType DEF CallInv
<1>2. Count = 0 => Count' = 0
  BY <1>1
<1>3. emitted \in Nat /\ receiver # NoReceiver => receiver \in Nat
  BY EventBounds DEF StreamInv, Source
<1>4. Source'
  <2>1. emitted \in 0 .. MaxEvents /\ Warning # Terminal /\ Warning \in Warning .. emitted
    BY EventBounds DEF StreamInv, Source
  <2>2. \A x \in Told' : x \in Warning .. emitted \/ (x = Terminal /\ agent \in {"removed", "finished", "told"})
    BY <2>1 DEF StreamInv, Source
  <2>3. receiver # NoReceiver => \A x \in Told' : x <= receiver /\ x # Terminal
    <3>1. receiver # NoReceiver => receiver \in 0 .. emitted \cup {Terminal}
      BY DEF StreamInv, Source
    <3>2. receiver # NoReceiver => Warning <= receiver
      BY <3>1, EventBounds
    <3> QED
      BY <2>1, <3>2 DEF StreamInv, Source
  <2>4. Terminal \in Told' => Terminal \in Told
    BY <2>1
  <2> QED
    BY <1>2, <2>2, <2>3, <2>4 DEF StreamInv, Source
<1>5. Counted'
  <2>1. Count' <= IF receiver = NoReceiver THEN emitted + 1 ELSE receiver
    BY <1>1, <1>3, EventBounds DEF StreamInv, Counted, Source
  <2> QED
    BY <2>1 DEF Counted
<1> QED
  BY <1>4, <1>5

LEMMA EndingFacts ==
    ASSUME NEW m \in Nat
    PROVE  /\ Ending(m) \in Seq(Int) /\ Rises(Ending(m))
           /\ ToSet(Ending(m)) = {Terminal} \cup (IF m > 0 THEN {Warning} ELSE {})
<1>1. Warning \in Int /\ Terminal \in Int /\ Warning < Terminal /\ Lt(Warning, Terminal)
  BY EventBounds DEF Lt
<1>2. CASE m > 0
  <2>1. /\ Ending(m) = <<Warning, Terminal>> /\ Len(Ending(m)) = 2
        /\ Ending(m)[1] = Warning /\ Ending(m)[2] = Terminal
    BY <1>2 DEF Ending
  <2>2. Ending(m) \in Seq(Int)
    BY <1>1, <2>1
  <2>3. ToSet(Ending(m)) = {Ending(m)[i] : i \in 1 .. 2}
    BY <2>1, <2>2, InSet
  <2>4. 1 .. 2 = {1, 2}
    OBVIOUS
  <2>5. Rises(Ending(m))
    <3>1. \A i, j \in 1 .. 2 : i < j => i = 1 /\ j = 2
      OBVIOUS
    <3> QED
      BY <1>1, <2>1, <3>1 DEF Rises
  <2> QED
    BY <1>2, <2>1, <2>2, <2>3, <2>4, <2>5
<1>3. CASE ~(m > 0)
  <2>1. /\ Ending(m) = <<Terminal>> /\ Len(Ending(m)) = 1 /\ Ending(m)[1] = Terminal
    BY <1>3 DEF Ending
  <2>2. Ending(m) \in Seq(Int)
    BY <1>1, <2>1
  <2>3. ToSet(Ending(m)) = {Ending(m)[i] : i \in 1 .. 1}
    BY <2>1, <2>2, InSet
  <2>4. 1 .. 1 = {1}
    OBVIOUS
  <2>5. Rises(Ending(m))
    BY <2>1 DEF Rises
  <2> QED
    BY <1>3, <2>1, <2>2, <2>3, <2>4, <2>5
<1> QED
  BY <1>2, <1>3

\* Nothing follows the terminal event; whatever is no terminal event may be
\* followed by a warning and by the terminal event.
LEMMA LtFacts ==
    /\ \A y : ~Lt(Terminal, y)
    /\ \A x \in Int : x < Terminal => Lt(x, Terminal) /\ Lt(x, Warning)
    /\ \A y \in Int : 0 <= y => Lt(Warning, y)
    /\ \A x, y : Lt(x, y) => x < Terminal
  BY EventBounds DEF Lt

LEMMA EmptyFacts ==
    /\ << >> \in Seq(Int) /\ Len(<< >>) = 0 /\ ToSet(<< >>) = {} /\ Rises(<< >>)
  <1>1. << >> \in Seq(Int) /\ Len(<< >>) = 0
    OBVIOUS
  <1>2. ToSet(<< >>) = {}
    BY <1>1, InSet
  <1> QED
    BY <1>1, <1>2 DEF Rises

\* No handler, no forwarder, no server: Gone but for the client's part.
LEMMA GoneStays ==
    ASSUME StreamInv, UNCHANGED <<kind, events, handler, loop, upEnd, closing>>,
           upEnd' => routing' = NoReceiver /\ ~sub' /\ \A c \in Requests : pc'[c] \in {"idle", "done"}
    PROVE  Gone'
  BY DEF StreamInv, Gone, Held, events

LEMMA RegisterStays ==
    ASSUME StreamInv, CallInv, NEW c \in Requests, Register(c)
    PROVE  Queues' /\ Ordered' /\ Source' /\ Counted' /\ Opened' /\ Gone' /\ Complete'
<1> USE DEF stream, wire, events, server
<1>1. /\ pc[c] = "register" /\ sub' = TRUE /\ pc' = [pc EXCEPT ![c] = "done"]
      /\ UNCHANGED <<kind, wire, server, events, closing, routing, unclaimed, dropped, chan,
                     delivering, got, streaming>>
  BY DEF Register, Goes
<1>2. /\ Shown' = Shown /\ Kept' = Kept /\ OnTheWay' = OnTheWay /\ Told' = Told
      /\ Count' = Count
  BY <1>1 DEF Shown, Kept, OnTheWay, Told, Count
<1>3. c = Streamer /\ streaming = "open" /\ delivering = << >> /\ ~upEnd
  BY <1>1 DEF StreamInv, Opened, Gone
<1>4. /\ pc'[Streamer] = "done" /\ \A q \in Requests : q # Streamer => pc'[q] = pc[q]
  BY <1>1, <1>3 DEF CallInv, CallTypes
<1>5. Queues' /\ Ordered' /\ Source' /\ Counted' /\ Complete'
  BY <1>1, <1>2 DEF StreamInv, Queues, Ordered, Source, Counted, Complete, Sparse
<1>6. Opened'
  BY <1>1, <1>3, <1>4 DEF StreamInv, Opened
<1>7. Gone'
  BY <1>1, <1>3, GoneStays
<1> QED
  BY <1>5, <1>6, <1>7

LEMMA CloseStays ==
    ASSUME StreamInv, CallInv, CloseStep
    PROVE  Queues' /\ Ordered' /\ Source' /\ Counted' /\ Opened' /\ Gone' /\ Complete'
<1> USE DEF stream, wire, events, server
<1>1. CASE UNCHANGED sub
  BY <1>1, ReaderStays
<1>2. CASE sub' = FALSE
  <2>1. /\ UNCHANGED <<kind, wire, server, events, pc, routing, unclaimed, dropped, chan,
                       delivering, got, streaming>>
        /\ closing' # "left" /\ closing # "left"
    BY DEF CloseStep
  <2>2. /\ Shown' = Shown /\ Kept' = Kept /\ OnTheWay' = OnTheWay /\ Told' = Told
        /\ Count' = Count
    BY <2>1 DEF Shown, Kept, OnTheWay, Told, Count
  <2>3. Queues' /\ Ordered' /\ Source' /\ Counted' /\ Complete'
    BY <2>1, <2>2 DEF StreamInv, Queues, Ordered, Source, Counted, Complete, Sparse
  <2>4. Opened' /\ Gone'
    BY <1>2, <2>1 DEF StreamInv, Opened, Gone, Held
  <2> QED
    BY <2>3, <2>4
<1> QED
  BY <1>1, <1>2 DEF CloseStep

LEMMA LeaveStays ==
    ASSUME StreamInv, CallInv, Leave
    PROVE  Queues' /\ Ordered' /\ Source' /\ Counted' /\ Opened' /\ Gone' /\ Complete'
<1> USE DEF stream, wire, events, server, calls
<1>1. /\ UNCHANGED <<kind, down, server, events, pc, unclaimed, dropped, chan, delivering, got,
                     streaming>>
      /\ closing' = "left" /\ upEnd' = TRUE /\ sub' = FALSE /\ routing' = NoReceiver
      /\ \A c \in Requests : pc[c] \in {"idle", "done"}
  BY DEF Leave
<1>2. /\ Shown' = Shown /\ Kept' \subseteq Kept /\ OnTheWay' = OnTheWay /\ Told' \subseteq Told
  BY <1>1 DEF Shown, Kept, OnTheWay, Told
<1>3. Count' \in Nat /\ Count' <= Count
  <2>1. Count' = dropped + Len(unclaimed) + 0 + Cardinality(Places(down)) + Cardinality(Places(outq))
    BY <1>1 DEF Count
  <2> QED
    BY <2>1, CountType DEF CallInv, Count
<1>4. Source' /\ Counted'
  BY <1>1, <1>2, <1>3, SourceStays
<1>5. Queues' /\ Opened'
  BY <1>1, EventBounds DEF StreamInv, Queues, Opened
<1>6. Ordered'
  BY <1>1, <1>2 DEF StreamInv, Ordered, Before
<1>7. Gone'
  BY <1>1 DEF StreamInv, Gone, Held
<1>8. Complete'
  BY <1>1, <1>2 DEF StreamInv, Complete, Sparse
<1> QED
  BY <1>4, <1>5, <1>6, <1>7, <1>8

LEMMA DeliverStays ==
    ASSUME StreamInv, CallInv, Deliver
    PROVE  Queues' /\ Ordered' /\ Source' /\ Counted' /\ Opened' /\ Gone' /\ Complete'
<1> USE DEF stream, wire, events, server, calls
<1> DEFINE x == Head(delivering)
<1>1. /\ UNCHANGED <<kind, wire, server, events, calls, closing, routing, unclaimed, sub, dropped,
                     got, streaming>>
      /\ delivering # << >> /\ Len(chan) < Buffer
      /\ chan' = Append(chan, x) /\ delivering' = Tail(delivering)
  BY DEF Deliver
<1>2. /\ delivering \in Seq(Int) /\ chan \in Seq(Int) /\ Rises(delivering) /\ Rises(chan)
      /\ Before(ToSet(got) \cup ToSet(chan), ToSet(delivering))
  BY DEF StreamInv, Queues, Ordered
<1>3. /\ x \in Int /\ Tail(delivering) \in Seq(Int) /\ Rises(Tail(delivering))
      /\ Before({x}, ToSet(Tail(delivering)))
      /\ ToSet(delivering) = {x} \cup ToSet(Tail(delivering))
  BY <1>1, <1>2, RisesTail
<1>4. Before(ToSet(chan), {x}) /\ Before(ToSet(got), {x})
  BY <1>2, <1>3 DEF Before
<1>5. /\ chan' \in Seq(Int) /\ Rises(chan') /\ ToSet(chan') = ToSet(chan) \cup {x}
      /\ Len(chan') = Len(chan) + 1
  BY <1>1, <1>2, <1>3, <1>4, RisesAppend
<1>6. /\ Shown' = Shown /\ Kept' = Kept /\ OnTheWay' = OnTheWay /\ Told' = Told
      /\ Count' = Count
  BY <1>1, <1>3, <1>5 DEF Shown, Kept, OnTheWay, Told, Count
<1>7. Queues'
  <2>1. Len(chan') <= Buffer
    BY <1>1, <1>2, <1>5, EventBounds, LenProperties
  <2> QED
    BY <1>1, <1>3, <1>5, <2>1 DEF StreamInv, Queues
<1>8. Ordered'
  <2>1. Before(ToSet(got) \cup ToSet(chan'), ToSet(delivering'))
    BY <1>1, <1>2, <1>3, <1>5 DEF Before
  <2>2. Before(ToSet(got), ToSet(chan'))
    BY <1>4, <1>5 DEF StreamInv, Ordered, Before
  <2> QED
    BY <1>1, <1>3, <1>5, <1>6, <2>1, <2>2 DEF StreamInv, Ordered
<1>9. Source' /\ Counted' /\ Complete'
  BY <1>1, <1>6 DEF StreamInv, Source, Counted, Complete, Sparse
<1>10. Opened' /\ Gone'
  BY <1>1 DEF StreamInv, Opened, Gone, Held
<1> QED
  BY <1>7, <1>8, <1>9, <1>10

LEMMA ConsumeStays ==
    ASSUME StreamInv, CallInv, Consume
    PROVE  Queues' /\ Ordered' /\ Source' /\ Counted' /\ Opened' /\ Gone' /\ Complete'
<1> USE DEF stream, wire, events, server, calls
<1> DEFINE x == Head(chan)
<1>1. /\ UNCHANGED <<kind, wire, server, events, calls, closing, routing, unclaimed, sub, dropped,
                     delivering>>
      /\ streaming = "open"
  BY DEF Consume
<1>2. CASE chan # << >> /\ got' = Append(got, x) /\ chan' = Tail(chan) /\ UNCHANGED streaming
  <2>1. /\ got \in Seq(Int) /\ chan \in Seq(Int) /\ Rises(got) /\ Rises(chan)
        /\ Before(ToSet(got), ToSet(chan))
        /\ Before(ToSet(got) \cup ToSet(chan), ToSet(delivering))
    BY DEF StreamInv, Queues, Ordered
  <2>2. /\ x \in Int /\ Tail(chan) \in Seq(Int) /\ Rises(Tail(chan))
        /\ Before({x}, ToSet(Tail(chan))) /\ ToSet(chan) = {x} \cup ToSet(Tail(chan))
        /\ Len(Tail(chan)) = Len(chan) - 1
    BY <1>2, <2>1, RisesTail
  <2>3. Before(ToSet(got), {x})
    BY <2>1, <2>2 DEF Before
  <2>4. got' \in Seq(Int) /\ Rises(got') /\ ToSet(got') = ToSet(got) \cup {x}
    BY <1>2, <2>1, <2>2, <2>3, RisesAppend
  <2>5. /\ Shown' = Shown /\ Kept' = Kept /\ OnTheWay' = OnTheWay /\ Told' = Told
        /\ Count' = Count
    BY <1>1, <1>2, <2>2, <2>4 DEF Shown, Kept, OnTheWay, Told, Count
  <2>6. Queues'
    <3>1. Len(Tail(chan)) <= Buffer
      BY <2>1, <2>2, EventBounds, LenProperties DEF StreamInv, Queues
    <3> QED
      BY <1>1, <1>2, <2>2, <2>4, <3>1 DEF StreamInv, Queues
  <2>7. Ordered'
    <3>1. Before(ToSet(got'), ToSet(chan'))
      BY <1>2, <2>1, <2>2, <2>4 DEF Before
    <3>2. Before(ToSet(got') \cup ToSet(chan'), ToSet(delivering'))
      BY <1>1, <1>2, <2>1, <2>2, <2>4 DEF Before
    <3> QED
      BY <1>1, <1>2, <2>2, <2>4, <2>5, <3>1, <3>2 DEF StreamInv, Ordered
  <2>8. Source' /\ Counted' /\ Complete'
    BY <1>1, <1>2, <2>5 DEF StreamInv, Source, Counted, Complete, Sparse
  <2>9. Opened' /\ Gone'
    BY <1>1, <1>2 DEF StreamInv, Opened, Gone, Held
  <2> QED
    BY <2>6, <2>7, <2>8, <2>9
<1>3. CASE /\ chan = << >> /\ delivering = << >> /\ ~sub /\ pc[Streamer] # "register"
           /\ streaming' = "ended" /\ UNCHANGED <<got, chan>>
  <2>1. /\ Shown' = Shown /\ Kept' = Kept /\ OnTheWay' = OnTheWay /\ Told' = Told
        /\ Count' = Count
    BY <1>1, <1>3 DEF Shown, Kept, OnTheWay, Told, Count
  <2>2. Queues' /\ Ordered' /\ Source' /\ Counted' /\ Complete'
    BY <1>1, <1>3, <2>1 DEF StreamInv, Queues, Ordered, Source, Counted, Complete, Sparse
  <2>3. Opened' /\ Gone'
    BY <1>1, <1>3 DEF StreamInv, Opened, Gone, Held
  <2> QED
    BY <2>2, <2>3
<1> QED
  BY <1>2, <1>3 DEF Consume

\* A backlog as long as the agent's events finds room for each of them.
LEMMA NoneEvicted ==
    ASSUME StreamInv, CallInv, Sparse, routing # NoReceiver
    PROVE  Len(unclaimed) < PendingCap
<1>1. Len(unclaimed) + 1 <= Count /\ Len(unclaimed) \in Nat /\ Count \in Nat
  BY CountType DEF CallInv
<1>2. Count <= emitted + 1 /\ emitted \in Nat
  BY <1>1, EventBounds DEF StreamInv, Counted, Source
<1> QED
  BY <1>1, <1>2, EventBounds DEF Sparse

LEMMA UnclaimedStays ==
    ASSUME StreamInv, CallInv, Unclaimed
    PROVE  Queues' /\ Ordered' /\ Source' /\ Counted' /\ Opened' /\ Gone' /\ Complete'
<1> USE DEF stream, wire, events, server, calls
<1> DEFINE rest == IF Len(unclaimed) >= PendingCap THEN Tail(unclaimed) ELSE unclaimed
<1>1. /\ UNCHANGED <<kind, wire, server, events, calls, closing, sub, dropped, chan, delivering,
                     got, streaming>>
      /\ routing # NoReceiver /\ routing' = NoReceiver /\ unclaimed' = Append(rest, routing)
  BY DEF Unclaimed
<1>2. /\ unclaimed \in Seq(Int) /\ routing \in Int /\ Len(unclaimed) \in Nat
      /\ Len(unclaimed) <= PendingCap /\ PendingCap \in Nat \ {0}
  BY EventBounds, LenProperties DEF StreamInv, Queues
<1>3. /\ rest \in Seq(Int) /\ ToSet(rest) \subseteq ToSet(unclaimed)
      /\ Len(rest) < PendingCap /\ Len(rest) \in Nat /\ Len(rest) <= Len(unclaimed)
      /\ Rises(unclaimed) => Rises(rest)
      /\ Len(unclaimed) < PendingCap => rest = unclaimed
  <2>1. CASE Len(unclaimed) >= PendingCap
    <3>1. unclaimed # << >> /\ rest = Tail(unclaimed)
      BY <1>2, <2>1
    <3>2. /\ Tail(unclaimed) \in Seq(Int) /\ Len(Tail(unclaimed)) = Len(unclaimed) - 1
          /\ ToSet(Tail(unclaimed)) \subseteq ToSet(unclaimed)
      BY <1>2, <3>1, TailFacts
    <3>3. Rises(unclaimed) => Rises(Tail(unclaimed))
      BY <1>2, <3>1, RisesTail
    <3>4. /\ rest \in Seq(Int) /\ ToSet(rest) \subseteq ToSet(unclaimed)
          /\ Len(rest) = Len(unclaimed) - 1 /\ (Rises(unclaimed) => Rises(rest))
      BY <3>1, <3>2, <3>3
    <3> HIDE DEF rest
    <3>5. Len(rest) < PendingCap /\ Len(rest) \in Nat /\ Len(rest) <= Len(unclaimed)
      BY <1>2, <2>1, <3>4
    <3>6. Rises(unclaimed) => Rises(rest)
      BY <3>4
    <3> QED
      BY <1>2, <2>1, <3>4, <3>5, <3>6
  <2>2. CASE ~(Len(unclaimed) >= PendingCap)
    BY <1>2, <2>2
  <2> QED
    BY <2>1, <2>2
<1> HIDE DEF rest
<1>4. /\ unclaimed' \in Seq(Int) /\ Len(unclaimed') = Len(rest) + 1 /\ unclaimed' # << >>
      /\ ToSet(unclaimed') = ToSet(rest) \cup {routing}
  <2>1. /\ Append(rest, routing) \in Seq(Int) /\ Len(Append(rest, routing)) = Len(rest) + 1
        /\ ToSet(Append(rest, routing)) = ToSet(rest) \cup {routing}
    BY <1>2, <1>3, AppendFacts, AppendProperties
  <2> QED
    BY <1>1, <1>3, <2>1
<1>5. /\ Shown' = Shown /\ Kept' \subseteq Kept /\ OnTheWay' = OnTheWay /\ Told' \subseteq Told
      /\ Len(unclaimed) < PendingCap => Kept' = Kept /\ Told' = Told
  BY <1>1, <1>3, <1>4 DEF Shown, Kept, OnTheWay, Told
<1>6. Count' \in Nat /\ Count' <= Count
  <2>1. Count' = dropped + Len(unclaimed') + 0 + Cardinality(Places(down)) + Cardinality(Places(outq))
    BY <1>1 DEF Count
  <2>2. Count = dropped + Len(unclaimed) + 1 + Cardinality(Places(down)) + Cardinality(Places(outq))
    BY <1>1 DEF Count
  <2>3. /\ dropped \in Nat /\ Cardinality(Places(down)) \in Nat
        /\ Cardinality(Places(outq)) \in Nat
    BY CountType DEF CallInv
  <2>4. Len(unclaimed') \in Nat /\ Len(unclaimed') <= Len(unclaimed) + 1
    BY <1>2, <1>3, <1>4
  <2> QED
    BY <1>2, <2>1, <2>2, <2>3, <2>4
<1>7. Source' /\ Counted'
  BY <1>1, <1>5, <1>6, SourceStays
<1>8. Queues'
  BY <1>1, <1>2, <1>3, <1>4, EventBounds DEF StreamInv, Queues
<1>9. Ordered'
  <2>1. streaming = "no" => Rises(unclaimed') /\ Before(Kept', OnTheWay')
    <3>1. streaming = "no" => Rises(rest) /\ Before(ToSet(rest), {routing})
      BY <1>1, <1>3 DEF StreamInv, Ordered, Before
    <3>2. streaming = "no" => Rises(unclaimed')
      BY <1>1, <1>2, <1>3, <3>1, RisesAppend
    <3> QED
      BY <1>5, <3>2 DEF StreamInv, Ordered, Before
  <2>2. Before(ToSet(unclaimed'), {routing'} \ {NoReceiver})
    BY <1>1 DEF Before
  <2> QED
    BY <1>1, <1>5, <2>1, <2>2 DEF StreamInv, Ordered
<1>10. Opened'
  BY <1>1 DEF StreamInv, Opened
<1>11. Gone'
  BY <1>1, GoneStays DEF StreamInv, Gone
<1>12. Complete'
  BY <1>1, <1>4, <1>5, NoneEvicted DEF StreamInv, Complete, Sparse
<1> QED
  BY <1>7, <1>8, <1>9, <1>10, <1>11, <1>12

\* The reader has an event: it is ahead of all that are still on their way,
\* and behind all that are in the stream.
EventRead(n) ==
    /\ UNCHANGED <<kind, up, upEnd, downEnd, server, events, calls, closing, unclaimed, got, streaming>>
    /\ n \in Told /\ n \in Int /\ 0 <= n /\ n <= Terminal /\ ~upEnd /\ routing = NoReceiver
    /\ OnTheWay = {n} \cup OnTheWay' /\ Before({n}, OnTheWay')
    /\ Before(Shown, {n}) /\ (streaming = "no" => Before(Kept, {n}))
    /\ EventsRise(down') /\ Before(Numbers(down'), Numbers(outq))
    /\ Cardinality(Places(down)) = Cardinality(Places(down')) + 1
    /\ Cardinality(Places(down')) \in Nat

LEMMA EventHead ==
    ASSUME StreamInv, CallInv, RouteEvent
    PROVE  EventRead(Head(down).no)
<1> USE DEF stream, wire, events, server, calls
<1> DEFINE n == Head(down).no
<1>1. /\ UNCHANGED <<kind, up, upEnd, downEnd, server, events, calls, closing, unclaimed, got, streaming>>
      /\ routing = NoReceiver /\ closing = "open" /\ down # << >> /\ down' = Tail(down)
      /\ Head(down).is = "event"
  BY DEF RouteEvent, Reads
<1>2. down \in Seq(Sent) /\ EventsRise(down)
  BY DEF CallInv, CallTypes, StreamInv, Ordered
<1>3. /\ EventsRise(down') /\ down' \in Seq(Sent)
      /\ Numbers(down) = {n} \cup Numbers(down') /\ Before({n}, Numbers(down'))
      /\ Cardinality(Places(down)) = Cardinality(Places(down')) + 1
  BY <1>1, <1>2, QueueTail
<1>4. Before({n}, Numbers(outq)) /\ Before(Numbers(down'), Numbers(outq))
  BY <1>3 DEF StreamInv, Ordered, Before
<1>5. OnTheWay = {n} \cup OnTheWay' /\ Before({n}, OnTheWay')
  BY <1>1, <1>3, <1>4 DEF OnTheWay, Before
<1>6. Before(Shown, {n}) /\ (streaming = "no" => Before(Kept, {n}))
  BY <1>5 DEF StreamInv, Ordered, Before
<1>7. n \in Told /\ n \in Int /\ 0 <= n /\ n <= Terminal
  BY <1>5, ToldTypes DEF Told
<1>8. ~upEnd /\ Cardinality(Places(down')) \in Nat
  BY <1>1, <1>3, PlacesFinite DEF StreamInv, Gone
<1> QED
  BY <1>1, <1>3, <1>4, <1>5, <1>6, <1>7, <1>8 DEF EventRead

\* It is kept.
LEMMA EventKept ==
    ASSUME StreamInv, CallInv, NEW n, EventRead(n), ~sub, routing' = n,
           UNCHANGED <<sub, dropped, chan, delivering>>
    PROVE  Queues' /\ Ordered' /\ Source' /\ Counted' /\ Opened' /\ Gone' /\ Complete'
<1> USE DEF stream, wire, events, server, calls, EventRead
<1>1. routing' # NoReceiver /\ routing' \in Int
  BY EventBounds
<1>2. Shown' = Shown /\ Kept' = Kept \cup {n} /\ Told' = Told
  BY <1>1 DEF Shown, Kept, Told
<1>3. Count' = Count
  <2>1. Len(unclaimed) \in Nat /\ dropped \in Nat /\ Cardinality(Places(outq)) \in Nat
    BY CountType DEF CallInv
  <2> QED
    BY <1>1, <2>1 DEF Count
<1>4. Queues'
  BY <1>1 DEF StreamInv, Queues
<1>5. Ordered'
  <2>1. Before(Shown', OnTheWay')
    BY <1>2 DEF StreamInv, Ordered, Before
  <2>2. streaming = "no" => /\ Before(ToSet(unclaimed), {n}) /\ Before(Kept', OnTheWay')
    BY <1>2 DEF StreamInv, Ordered, Before, Kept
  <2>3. streaming = "no" => Before(ToSet(unclaimed), {routing'} \ {NoReceiver})
    BY <2>2 DEF Before
  <2>4. EventsRise(down') /\ Before(Numbers(down'), Numbers(outq'))
    OBVIOUS
  <2>5. /\ Rises(got) /\ Rises(chan) /\ Rises(delivering) /\ EventsRise(outq)
        /\ Before(ToSet(got), ToSet(chan))
        /\ Before(ToSet(got) \cup ToSet(chan), ToSet(delivering))
        /\ streaming = "no" => Rises(unclaimed)
    BY DEF StreamInv, Ordered
  <2> QED
    BY <2>1, <2>2, <2>3, <2>4, <2>5 DEF Ordered
<1>6. Source' /\ Counted'
  BY <1>2, <1>3 DEF StreamInv, Source, Counted
<1>7. Opened' /\ Gone'
  BY DEF StreamInv, Opened, Gone, Held
<1>8. Complete'
  BY <1>2 DEF StreamInv, Complete, Sparse
<1> QED
  BY <1>4, <1>5, <1>6, <1>7, <1>8

\* It is the last.
LEMMA EventEnds ==
    ASSUME StreamInv, CallInv, NEW n, EventRead(n), sub, n = Terminal, sub' = FALSE,
           delivering' = Ending(dropped), UNCHANGED <<routing, dropped, chan>>
    PROVE  Queues' /\ Ordered' /\ Source' /\ Counted' /\ Opened' /\ Gone' /\ Complete'
<1> USE DEF stream, wire, events, server, calls, EventRead
<1>1. /\ delivering = << >> /\ streaming = "open" /\ dropped \in Nat
      /\ pc[Streamer] # "register" /\ ToSet(delivering) = {}
  BY EmptyFacts DEF StreamInv, Opened, Queues
<1>2. /\ delivering' \in Seq(Int) /\ Rises(delivering')
      /\ ToSet(delivering') = {Terminal} \cup (IF dropped > 0 THEN {Warning} ELSE {})
  BY <1>1, EndingFacts
<1>3. OnTheWay' = {} /\ \A x \in Shown : x \in Int /\ x < Terminal
  BY LtFacts, ToldTypes DEF Before, Told
<1>4. /\ Shown' = Shown \cup {Terminal} \cup (IF dropped > 0 THEN {Warning} ELSE {})
      /\ Kept' = Kept /\ Told' = Told \cup (IF dropped > 0 THEN {Warning} ELSE {})
  BY <1>1, <1>2 DEF Shown, Kept, Told
<1>5. Count' \in Nat /\ Count' <= Count
  <2>1. Len(unclaimed) \in Nat /\ dropped \in Nat /\ Cardinality(Places(outq)) \in Nat
    BY CountType DEF CallInv
  <2> QED
    BY <2>1 DEF Count
<1>6. Queues'
  BY <1>2 DEF StreamInv, Queues
<1>7. Ordered'
  <2>1. Before(ToSet(got) \cup ToSet(chan), ToSet(delivering'))
    BY <1>2, <1>3, LtFacts DEF Before, Shown
  <2>2. Before(Shown', OnTheWay')
    BY <1>3 DEF Before
  <2>3. /\ Rises(got) /\ Rises(chan) /\ EventsRise(outq) /\ Before(ToSet(got), ToSet(chan))
    BY DEF StreamInv, Ordered
  <2> QED
    BY <1>1, <1>2, <2>1, <2>2, <2>3 DEF Ordered
<1>8. Source' /\ Counted'
  BY <1>4, <1>5, SourceStays
<1>9. Opened' /\ Gone'
  BY <1>1 DEF StreamInv, Opened, Gone, Held
<1>10. Complete'
  <2>1. Terminal \in Shown' /\ Terminal \notin Shown /\ Warning # Terminal
    BY <1>3, <1>4, EventBounds
  <2>2. Sparse /\ unclaimed = << >> => Warning \in Shown' \/ 1 .. emitted \subseteq Shown'
    <3> SUFFICES ASSUME Sparse, unclaimed = << >>
                 PROVE  Warning \in Shown' \/ 1 .. emitted \subseteq Shown'
      OBVIOUS
    <3>1. Kept = {} /\ Told = Shown \cup {Terminal}
      BY <1>3, EmptyFacts DEF Kept, Told
    <3>2. receiver = NoReceiver
      BY DEF StreamInv, Source
    <3>3. Warning \in Told \/ dropped > 0 \/ 1 .. emitted \subseteq Told
      BY <2>1, <3>2 DEF StreamInv, Complete
    <3> QED
      BY <1>4, <2>1, <3>1, <3>3
  <2> QED
    BY <2>1, <2>2 DEF Complete, Sparse
<1> QED
  BY <1>6, <1>7, <1>8, <1>9, <1>10

\* One event fewer in the queue makes up for one more that was dropped.
LEMMA OneMoved ==
    ASSUME NEW d \in Nat, NEW e \in Nat, NEW u \in Nat, NEW k \in Nat, NEW o \in Nat, e <= d + 1
    PROVE  e + u + 0 + k + o \in Nat /\ e + u + 0 + k + o <= d + u + 0 + (k + 1) + o
  OBVIOUS

\* It goes into the stream's channel, behind a warning for those that did not.
LEMMA EventStreams ==
    ASSUME StreamInv, CallInv, NEW n, EventRead(n), sub, n # Terminal,
           NEW held, NEW warn \in BOOLEAN,
           warn <=> dropped > 0 /\ Len(chan) < Buffer,
           held = IF warn THEN Append(chan, Warning) ELSE chan,
           IF Len(held) < Buffer
           THEN chan' = Append(held, n) /\ dropped' = IF warn THEN 0 ELSE dropped
           ELSE chan' = held /\ dropped' = (IF warn THEN 0 ELSE dropped) + 1,
           UNCHANGED <<routing, sub, delivering>>
    PROVE  Queues' /\ Ordered' /\ Source' /\ Counted' /\ Opened' /\ Gone' /\ Complete'
<1> USE DEF stream, wire, events, server, calls, EventRead
<1> DEFINE W == IF warn THEN {Warning} ELSE {}
           N == IF Len(held) < Buffer THEN {n} ELSE {}
<1>1. /\ delivering = << >> /\ streaming = "open" /\ dropped \in Nat /\ ToSet(delivering) = {}
      /\ chan \in Seq(Int) /\ Rises(chan) /\ Len(chan) <= Buffer /\ Len(chan) \in Nat
      /\ Buffer \in Nat \ {0}
  BY EmptyFacts, EventBounds, LenProperties DEF StreamInv, Opened, Queues, Ordered
<1>2. /\ \A x \in Shown : x \in Int /\ x < Terminal /\ Lt(x, Warning) /\ Lt(x, n)
      /\ Lt(Warning, n) /\ n < Terminal /\ Warning \in Int
  BY LtFacts, ToldTypes, EventBounds DEF Before, Told
<1>3. /\ held \in Seq(Int) /\ Rises(held) /\ ToSet(held) = ToSet(chan) \cup W
      /\ Len(held) \in Nat /\ Len(held) <= Buffer
  <2>1. CASE warn
    <3>1. Before(ToSet(chan), {Warning})
      BY <1>2 DEF Before, Shown
    <3> QED
      BY <1>1, <1>2, <2>1, <3>1, RisesAppend
  <2>2. CASE ~warn
    BY <1>1, <2>2
  <2> QED
    BY <2>1, <2>2
<1>4. /\ chan' \in Seq(Int) /\ Rises(chan') /\ ToSet(chan') = ToSet(chan) \cup W \cup N
      /\ Len(chan') <= Buffer
  <2>1. CASE Len(held) < Buffer
    <3>1. Before(ToSet(held), {n})
      BY <1>2, <1>3 DEF Before, Shown
    <3>2. chan' = Append(held, n)
      BY <2>1
    <3>3. /\ Append(held, n) \in Seq(Int) /\ Rises(Append(held, n))
          /\ ToSet(Append(held, n)) = ToSet(held) \cup {n}
          /\ Len(Append(held, n)) = Len(held) + 1
      BY <1>3, <3>1, RisesAppend
    <3> QED
      BY <1>1, <1>3, <2>1, <3>2, <3>3
  <2>2. CASE ~(Len(held) < Buffer)
    BY <1>3, <2>2
  <2> QED
    BY <2>1, <2>2
<1>5. /\ dropped' \in Nat /\ dropped' <= dropped + 1
      /\ Len(held) < Buffer \/ dropped' > 0
      /\ Len(held) < Buffer /\ ~warn => dropped' = dropped
  BY <1>1
<1> HIDE DEF W, N
<1>6. Shown' = Shown \cup W \cup N /\ Kept' = Kept
  BY <1>1, <1>4 DEF Shown, Kept
<1>7. W \subseteq {Warning} /\ N \subseteq {n} /\ (warn => Warning \in W)
      /\ (Len(held) < Buffer => n \in N)
  BY DEF W, N
<1>8. Told' \subseteq Told \cup {Warning} /\ Told \subseteq Told' \cup {n}
  BY <1>6, <1>7 DEF Told
<1>9. Count' \in Nat /\ Count' <= Count
  <2> DEFINE u == Len(unclaimed)
             k == Cardinality(Places(down'))
             o == Cardinality(Places(outq))
  <2>1. u \in Nat /\ o \in Nat /\ k \in Nat
    BY CountType DEF CallInv
  <2>2. Count = dropped + u + 0 + (k + 1) + o
    BY DEF Count
  <2>3. Count' = dropped' + u + 0 + k + o
    BY DEF Count
  <2> HIDE DEF u, k, o
  <2>4. dropped \in Nat /\ dropped' \in Nat /\ dropped' <= dropped + 1
    BY <1>1, <1>5
  <2> QED
    BY <2>1, <2>2, <2>3, <2>4, OneMoved
<1>10. Queues'
  BY <1>4, <1>5 DEF StreamInv, Queues
<1>11. Ordered'
  <2>1. Before(ToSet(got), ToSet(chan'))
    BY <1>2, <1>4, <1>7 DEF StreamInv, Ordered, Before, Shown
  <2>2. Before(Shown', OnTheWay')
    <3>1. Before(Shown, OnTheWay') /\ Before(N, OnTheWay')
      BY <1>7 DEF StreamInv, Ordered, Before
    <3>2. \A y \in OnTheWay' : y \in Int /\ 0 <= y
      BY ToldTypes DEF Told
    <3>3. Before(W, OnTheWay')
      BY <1>7, <3>2, LtFacts DEF Before
    <3> QED
      BY <1>6, <3>1, <3>3 DEF Before
  <2>3. Before(ToSet(got') \cup ToSet(chan'), ToSet(delivering'))
    BY <1>1 DEF Before
  <2>4. Rises(got) /\ Rises(delivering) /\ EventsRise(outq)
    BY DEF StreamInv, Ordered
  <2> QED
    BY <1>1, <1>4, <2>1, <2>2, <2>3, <2>4 DEF Ordered
<1>12. Source' /\ Counted'
  BY <1>8, <1>9, SourceStays
<1>13. Opened' /\ Gone'
  BY <1>1 DEF StreamInv, Opened, Gone, Held
<1>14. Complete'
  <2>1. Terminal \notin Shown' /\ Terminal \notin Shown
    BY <1>2, <1>6, <1>7, EventBounds
  <2>2. \/ Warning \in Told' \/ dropped' > 0 \/ (Told \subseteq Told' /\ dropped' = dropped)
    <3>0. Shown' \subseteq Told'
      BY DEF Told
    <3>1. CASE Len(held) < Buffer /\ ~warn
      BY <1>5, <1>6, <1>7, <1>8, <3>0, <3>1
    <3>2. CASE warn
      BY <1>6, <1>7, <3>0, <3>2
    <3> QED
      BY <1>5, <3>1, <3>2
  <2> QED
    BY <2>1, <2>2 DEF StreamInv, Complete, Sparse
<1> QED
  BY <1>10, <1>11, <1>12, <1>13, <1>14

LEMMA RouteStays ==
    ASSUME StreamInv, CallInv, RouteEvent
    PROVE  Queues' /\ Ordered' /\ Source' /\ Counted' /\ Opened' /\ Gone' /\ Complete'
<1> DEFINE n    == Head(down).no
           warn == dropped > 0 /\ Len(chan) < Buffer
           held == IF warn THEN Append(chan, Warning) ELSE chan
<1>1. EventRead(n)
  BY EventHead
<1>2. CASE ~sub
  <2>1. routing' = n /\ UNCHANGED <<sub, dropped, chan, delivering>>
    BY <1>2 DEF RouteEvent
  <2> QED
    BY <1>1, <1>2, <2>1, EventKept
<1>3. CASE sub /\ n = Terminal
  <2>1. /\ sub' = FALSE /\ delivering' = Ending(dropped) /\ UNCHANGED <<routing, dropped, chan>>
    BY <1>3 DEF RouteEvent
  <2> QED
    BY <1>1, <1>3, <2>1, EventEnds
<1>4. CASE sub /\ n # Terminal
  <2>1. /\ chan' = (IF Len(held) < Buffer THEN Append(held, n) ELSE held)
        /\ dropped' = (IF Len(held) < Buffer THEN (IF warn THEN 0 ELSE dropped)
                       ELSE (IF warn THEN 0 ELSE dropped) + 1)
        /\ UNCHANGED <<routing, sub, delivering>>
    BY <1>4 DEF RouteEvent
  <2>2. IF Len(held) < Buffer
        THEN chan' = Append(held, n) /\ dropped' = IF warn THEN 0 ELSE dropped
        ELSE chan' = held /\ dropped' = (IF warn THEN 0 ELSE dropped) + 1
    BY <2>1
  <2>3. warn \in BOOLEAN
    OBVIOUS
  <2> HIDE DEF n
  <2> QED
    BY <1>1, <1>4, <2>1, <2>2, <2>3, EventStreams
<1> QED
  BY <1>2, <1>3, <1>4 DEF Plain, StreamInv

\* Where the backlog ends: the terminal event is the last of it.
LEMMA LiveSplit ==
    ASSUME unclaimed \in Seq(Int), Rises(unclaimed), NEW live \in 0 .. Len(unclaimed),
           live < Len(unclaimed) => unclaimed[live + 1] = Terminal
    PROVE  IF live < Len(unclaimed)
           THEN ToSet(unclaimed) = {unclaimed[i] : i \in 1 .. live} \cup {Terminal}
           ELSE ToSet(unclaimed) = {unclaimed[i] : i \in 1 .. live}
<1>1. Len(unclaimed) \in Nat /\ ToSet(unclaimed) = {unclaimed[i] : i \in 1 .. Len(unclaimed)}
  BY InSet
<1>2. \A i \in 1 .. Len(unclaimed) : i < Len(unclaimed) => unclaimed[i] # Terminal
  BY <1>1, LtFacts DEF Rises
<1>3. CASE live < Len(unclaimed)
  <2>1. unclaimed[live + 1] = Terminal /\ live + 1 \in 1 .. Len(unclaimed)
    BY <1>1, <1>3
  <2>2. live + 1 = Len(unclaimed)
    BY <1>1, <1>2, <2>1
  <2>3. 1 .. Len(unclaimed) = (1 .. live) \cup {live + 1}
    BY <1>1, <2>2
  <2> QED
    BY <1>1, <1>3, <2>1, <2>3
<1>4. CASE ~(live < Len(unclaimed))
  <2>1. live = Len(unclaimed)
    BY <1>1, <1>4
  <2> QED
    BY <1>1, <2>1
<1> QED
  BY <1>3, <1>4

LEMMA LiveExists ==
    ASSUME unclaimed \in Seq(Int), Rises(unclaimed)
    PROVE  \E k \in 0 .. Len(unclaimed) :
               /\ k < Len(unclaimed) => unclaimed[k + 1] = Terminal
               /\ \A i \in 1 .. k : unclaimed[i] # Terminal
<1>1. Len(unclaimed) \in Nat
  BY LenProperties
<1>2. \A i \in 1 .. Len(unclaimed) : i < Len(unclaimed) => unclaimed[i] # Terminal
  BY <1>1, LtFacts DEF Rises
<1>3. CASE Len(unclaimed) = 0
  BY <1>3
<1>4. CASE Len(unclaimed) # 0 /\ unclaimed[Len(unclaimed)] = Terminal
  <2>1. Len(unclaimed) - 1 \in 0 .. Len(unclaimed) /\ (Len(unclaimed) - 1) + 1 = Len(unclaimed)
    BY <1>1, <1>4
  <2>2. \A i \in 1 .. Len(unclaimed) - 1 : unclaimed[i] # Terminal
    BY <1>1, <1>2
  <2> QED
    BY <1>4, <2>1, <2>2
<1>5. CASE Len(unclaimed) # 0 /\ unclaimed[Len(unclaimed)] # Terminal
  <2>1. \A i \in 1 .. Len(unclaimed) : unclaimed[i] # Terminal
    BY <1>1, <1>2, <1>5
  <2>2. Len(unclaimed) \in 0 .. Len(unclaimed) /\ ~(Len(unclaimed) < Len(unclaimed))
    BY <1>1
  <2> QED
    BY <2>1, <2>2
<1> QED
  BY <1>3, <1>4, <1>5

LEMMA BacklogStays ==
    ASSUME StreamInv, CallInv, NEW c \in Requests, TakeBacklog(c)
    PROVE  Queues' /\ Ordered' /\ Source' /\ Counted' /\ Opened' /\ Gone' /\ Complete'
<1> USE DEF stream, wire, events, server
<1> DEFINE N(k)   == {unclaimed[i] : i \in 1 .. k}
           live   == CHOOSE k \in 0 .. Len(unclaimed) :
                        /\ k < Len(unclaimed) => unclaimed[k + 1] = Terminal
                        /\ \A i \in 1 .. k : unclaimed[i] # Terminal
           ended  == live < Len(unclaimed)
           fits   == IF live < Buffer THEN live ELSE Buffer
           missed == live - fits
<1>1. /\ chan' = SubSeq(unclaimed, 1, fits)
      /\ delivering' = IF ended THEN Ending(missed) ELSE << >>
      /\ dropped' = missed
      /\ pc' = [pc EXCEPT ![c] = IF ended \/ IsClosed THEN "done" ELSE "register"]
  BY DEF TakeBacklog, Goes
<1>2. /\ pc[c] = "take" /\ unclaimed' = << >> /\ streaming' = "open"
      /\ UNCHANGED <<kind, wire, server, events, answer, result, pending, closing, routing, sub, got>>
  BY DEF TakeBacklog
<1>3. /\ c = Streamer /\ streaming = "no" /\ ~upEnd /\ ~sub /\ dropped = 0
      /\ got = << >> /\ chan = << >> /\ delivering = << >>
  BY <1>2 DEF StreamInv, Opened, Gone
<1>4. /\ unclaimed \in Seq(Int) /\ Rises(unclaimed) /\ routing \in Int
      /\ Before(ToSet(unclaimed), {routing} \ {NoReceiver}) /\ Before(Kept, OnTheWay)
  BY <1>3 DEF StreamInv, Queues, Ordered
<1>5. /\ live \in 0 .. Len(unclaimed) /\ Len(unclaimed) \in Nat
      /\ ended => unclaimed[live + 1] = Terminal
      /\ \A i \in 1 .. live : unclaimed[i] # Terminal
  BY <1>4, LiveExists, LenProperties
<1> HIDE DEF live
<1>6. /\ fits \in 0 .. live /\ fits <= Buffer /\ missed \in Nat /\ missed <= Len(unclaimed)
      /\ missed = 0 => fits = live
  BY <1>5, EventBounds
<1>6a. ToSet(unclaimed) = N(live) \cup (IF ended THEN {Terminal} ELSE {})
  BY <1>4, <1>5, LiveSplit
<1> HIDE DEF ended, fits, missed
<1>7. /\ chan' \in Seq(Int) /\ Rises(chan') /\ Len(chan') = fits /\ ToSet(chan') = N(fits)
  <2>1. fits \in 0 .. Len(unclaimed)
    BY <1>5, <1>6
  <2> QED
    BY <1>1, <1>4, <2>1, RisesPrefix
<1>8. N(fits) \subseteq N(live) /\ \A x \in N(live) : x \in Int /\ x < Terminal
  <2>1. 1 .. fits \subseteq 1 .. live
    BY <1>5, <1>6
  <2>2. \A i \in 1 .. live : unclaimed[i] \in ToSet(unclaimed) /\ unclaimed[i] # Terminal
    BY <1>5, <1>6a
  <2>3. \A x \in ToSet(unclaimed) : x \in Int /\ x <= Terminal
    BY ToldTypes DEF Told, Kept
  <2> QED
    BY <2>1, <2>2, <2>3, EventBounds
<1> HIDE DEF N
<1> DEFINE E == IF ended THEN {Terminal} \cup (IF missed > 0 THEN {Warning} ELSE {}) ELSE {}
<1>9. delivering' \in Seq(Int) /\ Rises(delivering') /\ ToSet(delivering') = E
  <2>1. CASE ended
    BY <1>1, <1>6, <2>1, EndingFacts
  <2>2. CASE ~ended
    BY <1>1, <2>2, EmptyFacts
  <2> QED
    BY <2>1, <2>2
<1>10. ended => OnTheWay = {} /\ routing = NoReceiver /\ Terminal \in Told
  <2>1. ended => Terminal \in ToSet(unclaimed)
    BY <1>6a
  <2> QED
    BY <1>4, <2>1, LtFacts DEF Kept, Told, Before
<1>11. /\ Shown = {} /\ Shown' = N(fits) \cup E /\ OnTheWay' = OnTheWay
       /\ Kept' = {routing} \ {NoReceiver}
       /\ Told = N(live) \cup (IF ended THEN {Terminal} ELSE {}) \cup Kept' \cup OnTheWay
       /\ Told' = N(fits) \cup E \cup Kept' \cup OnTheWay
  BY <1>2, <1>3, <1>6a, <1>7, <1>9, EmptyFacts DEF Shown, Kept, OnTheWay, Told
<1>12. /\ Told' \subseteq Told \cup {Warning} /\ (Told = {} => Told' = {})
  BY <1>8, <1>10, <1>11
<1>13. Count' \in Nat /\ Count' <= Count
  <2>1. /\ Count' = missed + 0 + (IF routing = NoReceiver THEN 0 ELSE 1)
                        + Cardinality(Places(down)) + Cardinality(Places(outq))
        /\ Count = 0 + Len(unclaimed) + (IF routing = NoReceiver THEN 0 ELSE 1)
                       + Cardinality(Places(down)) + Cardinality(Places(outq))
    BY <1>1, <1>2, <1>3, EmptyFacts DEF Count
  <2>2. Cardinality(Places(down)) \in Nat /\ Cardinality(Places(outq)) \in Nat
    BY CountType DEF CallInv
  <2>3. (IF routing = NoReceiver THEN 0 ELSE 1) \in Nat
    OBVIOUS
  <2>4. missed \in Nat /\ Len(unclaimed) \in Nat /\ missed <= Len(unclaimed)
    BY <1>5, <1>6
  <2> QED
    BY <2>1, <2>2, <2>3, <2>4
<1>14. Source' /\ Counted'
  BY <1>2, <1>12, <1>13, SourceStays
<1>15. Queues'
  BY <1>1, <1>2, <1>6, <1>7, <1>9, EmptyFacts, EventBounds DEF StreamInv, Queues
<1>16. Ordered'
  <2>1. Before(ToSet(chan'), ToSet(delivering'))
    BY <1>7, <1>8, <1>9, LtFacts DEF Before
  <2>2. Before(Shown', OnTheWay')
    <3>1. Before(N(fits), OnTheWay)
      BY <1>4, <1>6a, <1>8 DEF Before, Kept
    <3> QED
      BY <1>10, <1>11, <3>1 DEF Before
  <2>3. ToSet(got') = {} /\ Rises(got')
    BY <1>2, <1>3, EmptyFacts
  <2>4. EventsRise(down') /\ EventsRise(outq') /\ Before(Numbers(down'), Numbers(outq'))
    BY <1>2 DEF StreamInv, Ordered
  <2>5. Before(ToSet(got'), ToSet(chan')) /\ Before(ToSet(got') \cup ToSet(chan'), ToSet(delivering'))
    BY <2>1, <2>3 DEF Before
  <2> QED
    BY <1>2, <1>7, <1>9, <2>2, <2>3, <2>4, <2>5 DEF Ordered
<1>17. Opened'
  <2>1. /\ pc'[Streamer] \in {"register", "done"} /\ (ended => pc'[Streamer] = "done")
        /\ \A q \in Requests : q # Streamer => pc'[q] = pc[q]
    BY <1>1, <1>3 DEF CallInv, CallTypes
  <2>2. ~ended => delivering' = << >>
    BY <1>1
  <2> QED
    BY <1>2, <1>3, <2>1, <2>2 DEF StreamInv, Opened
<1>18. Gone'
  BY <1>2, <1>3, GoneStays
<1>19. Complete'
  <2>1. Sparse' => Sparse /\ Terminal \notin Shown /\ streaming = "no" /\ ~upEnd
    BY <1>2, <1>3, <1>11 DEF Sparse
  <2>2. Sparse' => \/ Warning \in Told
                   \/ 1 .. (IF receiver = NoReceiver THEN emitted ELSE receiver) \subseteq Told
    BY <1>3, <2>1 DEF StreamInv, Complete
  <2>3. CASE ended
    <3>1. Terminal \in Shown' /\ receiver = NoReceiver /\ Terminal \notin N(live)
      BY <1>8, <1>10, <1>11, <2>3, EventBounds DEF StreamInv, Source
    <3>2. missed > 0 => Warning \in Shown'
      BY <1>11, <2>3
    <3>3. missed = 0 => Told \subseteq Shown'
      BY <1>6, <1>10, <1>11, <2>3
    <3>4. missed > 0 \/ missed = 0
      BY <1>6
    <3> QED
      BY <1>2, <2>2, <3>1, <3>2, <3>3, <3>4 DEF Complete, Sparse
  <2>4. CASE ~ended
    <3>1. Terminal \notin Shown'
      BY <1>8, <1>11, <2>4, EventBounds
    <3>2. missed = 0 => Told \subseteq Told'
      BY <1>6, <1>11, <2>4
    <3>3. dropped' > 0 \/ missed = 0
      BY <1>1, <1>6
    <3> QED
      BY <1>2, <2>2, <3>1, <3>2, <3>3 DEF Complete, Sparse
  <2> QED
    BY <2>3, <2>4
<1> QED
  BY <1>14, <1>15, <1>16, <1>17, <1>18, <1>19

-----------------------------------------------------------------------------
(* All steps. *)

LEMMA StreamStart == Init => StreamInv
<1> SUFFICES ASSUME Init
             PROVE  StreamInv
  OBVIOUS
<1>1. Plain
  BY PlainStart
<1>2. /\ got = << >> /\ chan = << >> /\ delivering = << >> /\ unclaimed = << >>
      /\ down = << >> /\ outq = << >> /\ routing = NoReceiver /\ receiver = NoReceiver
      /\ ~attached /\ ~sub /\ dropped = 0 /\ emitted = 0 /\ streaming = "no" /\ ~upEnd
      /\ closing = "open" /\ loop = "reading"
      /\ \A r \in Requests : handler[r] = "none" /\ pc[r] = "idle"
      /\ agent = IF kind[Streamer] = "run" THEN "none" ELSE "running"
  BY DEF Init
<1>3. Places(<< >>) = {} /\ Numbers(<< >>) = {} /\ EventsRise(<< >>)
  BY DEF Places, Numbers, EventsRise
<1>4. Shown = {} /\ Kept = {} /\ OnTheWay = {} /\ Told = {} /\ Count = 0
  BY <1>2, <1>3, EmptyFacts, FS_EmptySet DEF Shown, Kept, OnTheWay, Told, Count
<1>5. Queues
  BY <1>2, EmptyFacts, EventBounds DEF Queues
<1>6. Ordered
  BY <1>2, <1>3, <1>4, EmptyFacts DEF Ordered, Before
<1>7. Source
  BY <1>2, <1>4, EventBounds, RequestsAssumption DEF Source
<1>8. Counted
  BY <1>2, <1>4 DEF Counted
<1>9. Opened /\ Gone
  BY <1>2, RequestsAssumption DEF Opened, Gone, Held
<1>10. Complete
  BY <1>2, <1>4 DEF Complete
<1> QED
  BY <1>1, <1>5, <1>6, <1>7, <1>8, <1>9, <1>10 DEF StreamInv

LEMMA StreamNext == StreamInv /\ CallInv /\ [Next]_vars => StreamInv'
<1> SUFFICES ASSUME StreamInv, CallInv, [Next]_vars
             PROVE  StreamInv'
  OBVIOUS
<1>1. Plain'
  BY PlainNext DEF StreamInv, CallInv
<1> DEFINE Rest == Queues /\ Ordered /\ Source /\ Counted /\ Opened /\ Gone /\ Complete
<1>2. ASSUME ServerSteps \/ Stop
      PROVE  Rest'
  BY <1>2, ServerStays, WriteOutStays DEF ServerSteps
<1>3. ASSUME HandlerSteps
      PROVE  Rest'
  BY <1>3, ServerStays, HandlerStarts DEF HandlerSteps
<1>4. ASSUME EventSteps \/ Ends \/ Emit
      PROVE  Rest'
  BY <1>4, NotifyStays, ForwardStays, AgentSteps DEF EventSteps
<1>5. ASSUME NEW c \in Requests, Begin(c) \/ CallerSteps(c)
      PROVE  Rest'
  BY <1>5, CallersStay, BacklogStays, RegisterStays DEF CallerSteps
<1>6. ASSUME ReaderSteps
      PROVE  Rest'
  BY <1>6, ReaderStays, RouteStays, UnclaimedStays, CloseStays DEF ReaderSteps
<1>7. ASSUME Deliver \/ Consume \/ Leave
      PROVE  Rest'
  BY <1>7, DeliverStays, ConsumeStays, LeaveStays
<1>8. ASSUME Quiescent \/ UNCHANGED vars
      PROVE  Rest'
  BY <1>8, CallersStay
<1>9. Rest'
  BY <1>2, <1>3, <1>4, <1>5, <1>6, <1>7, <1>8 DEF Next, Proceeds
<1> QED
  BY <1>1, <1>9 DEF StreamInv

LEMMA SeqWithin ==
    ASSUME NEW S, NEW s \in Seq(S), NEW T, \A i \in 1 .. Len(s) : s[i] \in T
    PROVE  s \in Seq(T)
<1>1. Len(s) \in Nat /\ s \in [1 .. Len(s) -> S]
  BY LenProperties
<1>2. s \in [1 .. Len(s) -> T]
  BY <1>1
<1> QED
  BY <1>1, <1>2, SeqDef

LEMMA StreamTypes == StreamInv /\ CallInv => TypeOK
<1> SUFFICES ASSUME StreamInv, CallInv
             PROVE  TypeOK
  OBVIOUS
<1>1. \A x \in Told : x \in Warning .. Terminal
  BY ToldTypes, EventBounds
<1>2. ASSUME NEW s \in Seq(Int), ToSet(s) \subseteq Told
      PROVE  s \in Seq(Warning .. Terminal)
  <2>1. \A i \in 1 .. Len(s) : s[i] \in Told
    BY <1>2, InSet
  <2> QED
    BY <1>1, <2>1, SeqWithin
<1>3. {unclaimed, chan, delivering, got} \subseteq Seq(Warning .. Terminal)
  <2>1. /\ ToSet(unclaimed) \subseteq Told /\ ToSet(chan) \subseteq Told
        /\ ToSet(delivering) \subseteq Told /\ ToSet(got) \subseteq Told
    BY DEF Told, Shown, Kept
  <2> QED
    BY <1>2, <2>1 DEF StreamInv, Queues
<1>4. ASSUME NEW s \in Seq(Sent), Numbers(s) \subseteq Told
      PROVE  s \in Seq(Messages)
  <2>1. ASSUME NEW i \in 1 .. Len(s)
        PROVE  s[i] \in Messages
    <3>1. s[i] \in Sent
      BY ElementOfSeq
    <3>2. CASE s[i].is = "event"
      <4>1. i \in Places(s)
        BY <3>2 DEF Places
      <4>2. s[i].no \in Warning .. Terminal
        BY <1>1, <1>4, <4>1 DEF Numbers
      <4> QED
        BY <3>1, <3>2, <4>2 DEF Sent, Messages
    <3>3. CASE s[i].is # "event"
      BY <3>1, <3>3 DEF Sent, Messages
    <3> QED
      BY <3>2, <3>3
  <2> QED
    BY <2>1, SeqWithin
<1>5. down \in Seq(Messages) /\ outq \in Seq(Messages)
  <2>1. Numbers(down) \subseteq Told /\ Numbers(outq) \subseteq Told
    BY DEF Told, OnTheWay
  <2> QED
    BY <1>4, <2>1 DEF CallInv, CallTypes
<1>6. kind \in [Requests -> Kinds]
  BY RequestsAssumption DEF StreamInv, Plain
<1>7. /\ emitted \in 0 .. MaxEvents /\ receiver \in 0 .. NoReceiver /\ routing \in 0 .. NoReceiver
  <2>1. routing # NoReceiver => routing \in Told
    BY DEF Told, Kept
  <2> QED
    BY <1>1, <2>1, EventBounds DEF StreamInv, Source
<1>8. dropped \in 0 .. MaxEvents + 1
  <2>1. dropped \in Nat /\ dropped <= Count /\ Count \in Nat
    BY CountType DEF CallInv, Count
  <2> QED
    BY <2>1, EventBounds DEF StreamInv, Counted, Source
<1>9. up \in Seq([req : Requests, part : {"whole", "head", "tail"}])
  BY DEF CallInv, CallTypes, Piece
<1> QED
  BY <1>3, <1>5, <1>6, <1>7, <1>8, <1>9
  DEF TypeOK, StreamInv, Plain, Queues, CallInv, CallTypes, Unsent

\* forward, route_event, deliver_terminal, subscribe: what the consumer has
\* read of a stream is in order with the terminal event as its last, and with
\* that it has each event or a warning that some are missing, however far the
\* forwarder falls behind and however little room the queues have.
THEOREM StreamsKeep == Spec => []StreamKeeps
<1>1. StreamInv /\ CallInv => StreamKeeps
  <2> SUFFICES ASSUME StreamInv, CallInv
               PROVE  StreamKeeps
    OBVIOUS
  <2>1. StreamInOrder
    BY DEF StreamInv, Ordered, Rises, Lt, StreamInOrder
  <2>2. GapsAnnounced
    <3> SUFFICES ASSUME streaming = "ended", Terminal \in ToSet(got), kind[Streamer] = "run",
                        emitted < PendingCap, unclaimed = << >>
                 PROVE  Warning \in ToSet(got) \/ 1 .. emitted \subseteq ToSet(got)
      BY DEF GapsAnnounced
    <3>1. Shown = ToSet(got)
      BY EmptyFacts DEF StreamInv, Opened, Shown
    <3> QED
      BY <3>1 DEF StreamInv, Complete, Sparse
  <2> QED
    BY <2>1, <2>2, StreamTypes DEF StreamKeeps
<1>2. Spec => []StreamInv
  BY StreamStart, StreamNext, CallInvHolds, PTL DEF Spec
<1> QED
  BY <1>1, <1>2, CallInvHolds, PTL
=============================================================================
