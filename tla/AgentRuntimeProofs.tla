------------------------- MODULE AgentRuntimeProofs -------------------------
(***************************************************************************)
(* Safety properties of AgentRuntime for every value of its constants: an  *)
(* agent ends once, what tells of its end agrees, every request sent to    *)
(* the mentor is valid, the rows tell the history in memory, and what was  *)
(* stored stays stored until the session is deleted.                       *)
(***************************************************************************)
EXTENDS AgentRuntime, SequenceTheorems, FiniteSetTheorems, TLAPS

-----------------------------------------------------------------------------
(* What the operations on histories and tables return. *)

LEMMA FirstNumbers ==
    ASSUME NEW k \in Nat
    PROVE  IsFiniteSet(1 .. k) /\ Cardinality(1 .. k) = k
<1>1. 1 \in Int /\ k \in Int
  OBVIOUS
<1>2. /\ IsFiniteSet(1 .. k)
      /\ Cardinality(1 .. k) = IF 1 > k THEN 0 ELSE k - 1 + 1
  BY <1>1, FS_Interval, Zenon
<1> QED
  BY <1>2

LEMMA RowsBelowType ==
    ASSUME NEW t \in Table, NEW n \in Nat
    PROVE  RowsBelow(t, n) \in 0 .. Len(t)
<1> DEFINE S == {i \in 1 .. Len(t) : t[i].seq < n}
<1>1. Len(t) \in Nat
  BY DEF Table
<1>2. IsFiniteSet(1 .. Len(t)) /\ Cardinality(1 .. Len(t)) = Len(t)
  BY <1>1, FirstNumbers, Zenon
<1>3. S \subseteq 1 .. Len(t)
  OBVIOUS
<1>4. IsFiniteSet(S) /\ Cardinality(S) <= Len(t)
  BY <1>2, <1>3, FS_Subset
<1>5. Cardinality(S) \in Nat
  BY <1>4, FS_CardinalityType
<1> QED
  BY <1>1, <1>4, <1>5 DEF RowsBelow

LEMMA PutMessageType ==
    ASSUME NEW t \in Table, NEW n \in Nat, NEW m \in Message
    PROVE  PutMessage(t, n, m) \in Table
<1> DEFINE k == RowsBelow(t, n)
           rest == IF k < Len(t) /\ t[k + 1].seq = n THEN k + 2 ELSE k + 1
           row == [seq |-> n, msg |-> m]
<1>1. t \in Seq(Row) /\ row \in Row
  BY DEF Table, Row
<1>2. k \in 0 .. Len(t)
  BY RowsBelowType
<1>3. SubSeq(t, 1, k) \in Seq(Row)
  BY <1>1, <1>2, SubSeqProperties
<1>4. SubSeq(t, rest, Len(t)) \in Seq(Row)
  BY <1>1, <1>2, SubSeqProperties
<1>5. SubSeq(t, 1, k) \o <<row>> \o SubSeq(t, rest, Len(t)) \in Seq(Row)
  BY <1>1, <1>3, <1>4, ConcatProperties
<1> QED
  BY <1>5 DEF PutMessage, Table

LEMMA TruncateMessagesType ==
    ASSUME NEW t \in Table, NEW keep \in Nat
    PROVE  TruncateMessages(t, keep) \in Table
<1>1. RowsBelow(t, keep + 1) \in 0 .. Len(t)
  BY RowsBelowType
<1> QED
  BY <1>1, SubSeqProperties DEF TruncateMessages, Table

LEMMA StoredType ==
    ASSUME NEW t \in Table
    PROVE  Stored(t) \in History /\ Len(Stored(t)) = Len(t)
<1> USE DEF Table
<1>1. Len(t) \in Nat /\ \A i \in 1 .. Len(t) : t[i].msg \in Message
  <2>1. Len(t) \in Nat
    BY LenProperties
  <2>2. ASSUME NEW i \in 1 .. Len(t)
        PROVE  t[i].msg \in Message
    <3>1. t[i] \in Row
      BY ElementOfSeq
    <3> QED
      BY <3>1 DEF Row
  <2> QED
    BY <2>1, <2>2
<1>2. Stored(t) \in [1 .. Len(t) -> Message]
  BY <1>1 DEF Stored
<1>3. Stored(t) \in UNION {[1 .. n -> Message] : n \in Nat}
  <2> DEFINE F(n) == [1 .. n -> Message]
  <2>1. F(Len(t)) \in {F(n) : n \in Nat}
    BY <1>1
  <2>2. Stored(t) \in F(Len(t))
    BY <1>2
  <2> QED
    BY <2>1, <2>2
<1>4. Stored(t) \in History
  BY <1>3, SeqDef DEF History
<1>5. Len(Stored(t)) \in Nat /\ DOMAIN Stored(t) = 1 .. Len(Stored(t))
  BY <1>4, LenProperties DEF History
<1> QED
  BY <1>1, <1>2, <1>4, <1>5

LEMMA RepairType ==
    ASSUME NEW h \in History
    PROVE  Repair(h) \in History
  BY SubSeqProperties DEF Repair, History, PendingToolUses

LEMMA AppendedType ==
    ASSUME NEW h \in History, NEW m \in Message
    PROVE  Append(h, m) \in History /\ Append(h, m) # << >>
<1>1. Append(h, m) \in Seq(Message) /\ Len(Append(h, m)) = Len(h) + 1
  BY AppendProperties DEF History
<1>2. Len(h) \in Nat /\ Len(<< >>) = 0
  BY EmptySeq, LenProperties DEF History
<1> QED
  BY <1>1, <1>2 DEF History

LEMMA PushUserTextType ==
    ASSUME NEW h \in History, NEW x \in Agents \cup {NOTE, CONTINUE}
    PROVE  PushUserText(h, x) \in History /\ PushUserText(h, x) # << >>
<1>1. CASE h # << >> /\ IsUser(LastMsg(h))
  <2> DEFINE n == Len(h)
             m == [h[n] EXCEPT !.texts = @ \cup {x}]
  <2>1. n \in 1 .. n
    BY <1>1, EmptySeq DEF History
  <2>2. h[n] \in Message
    BY <2>1, ElementOfSeq DEF History
  <2>3. m \in Message
    BY <2>2 DEF Message
  <2>4. [h EXCEPT ![n] = m] \in Seq(Message) /\ Len([h EXCEPT ![n] = m]) = n
    BY <2>1, <2>3, ExceptSeq DEF History
  <2>5. [h EXCEPT ![n] = m] # << >>
    BY <2>1, <2>4, EmptySeq
  <2>6. PushUserText(h, x) = [h EXCEPT ![n] = m]
    BY <1>1, <2>2 DEF PushUserText
  <2> QED
    BY <2>4, <2>5, <2>6 DEF History
<1>2. CASE ~(h # << >> /\ IsUser(LastMsg(h)))
  BY <1>2, AppendedType DEF PushUserText, UserMsg, Message, Kinds
<1> QED
  BY <1>1, <1>2

LEMMA PushAssistantType ==
    ASSUME NEW h \in History, NEW c \in BOOLEAN
    PROVE  PushAssistant(h, c) \in History /\ PushAssistant(h, c) # << >>
<1>1. AssistantMsg(c) \in Message
  BY DEF AssistantMsg, Message, Kinds
<1> QED
  BY <1>1, AppendedType DEF PushAssistant

LEMMA PushToolResultsType ==
    ASSUME NEW h \in History
    PROVE  PushToolResults(h) \in History /\ PushToolResults(h) # << >>
<1>1. ResultsMsg \in Message
  BY DEF ResultsMsg, Message, Kinds
<1> QED
  BY <1>1, AppendedType DEF PushToolResults

LEMMA PutLastType ==
    ASSUME NEW t \in Table, NEW h \in History, h # << >>
    PROVE  PutLast(t, h) \in Table
<1>1. Len(h) \in Nat /\ LastMsg(h) \in Message
  BY DEF History, LastMsg
<1> QED
  BY <1>1, PutMessageType DEF PutLast
-----------------------------------------------------------------------------
(* Types.  TypeOK is not inductive: a run looks its conversation up where  *)
(* mine says, and finish_agent stores what next says.                      *)

\* A run works on a conversation from its lookup to its end.
Placed ==
    \A a \in Agents :
        pc[a] \in {"start", "register", "turn"} \cup TaskPcs => mine[a] \in Agents

\* A run that leaves the loop knows how it ended.
Closing == \A a \in Agents : pc[a] \in {"end", "finish"} => next[a] \in Terminal

TypeInv == TypeOK /\ Placed /\ Closing

LEMMA InitTypeInv == Init => TypeInv
<1> SUFFICES ASSUME Init PROVE TypeInv
  OBVIOUS
<1>1. << >> \in Table /\ << >> \in History
  BY EmptySeq DEF Table, History
<1>2. TypeOK
  BY <1>1, IterationsAssumption, BoundsAssumption
  DEF Init, TypeOK, SessionStatus, Terminal, RequestPcs, TaskPcs, LoopPcs, EndedPcs, Pcs
<1>3. Placed /\ Closing
  BY DEF Init, Placed, Closing, TaskPcs, LoopPcs
<1> QED
  BY <1>2, <1>3 DEF TypeInv

\* Requests until the agent is started.
LEMMA LoadsTypeInv ==
    ASSUME TypeInv, NEW a \in Agents, Loads(a)
    PROVE  TypeInv'
<1> USE DEF TypeInv, TypeOK, Placed, Closing, Goto, Terminal, RequestPcs, TaskPcs,
            LoopPcs, EndedPcs, Pcs, store, memory, bounds
<1>1. CASE LoadHeld(a)
  BY <1>1 DEF LoadHeld
<1>2. CASE LoadRows(a)
  <2>1. Repair(Stored(rows)) \in History
    BY StoredType, RepairType
  <2> QED
    BY <1>2, <2>1 DEF LoadRows
<1>3. CASE LoadGone(a)
  BY <1>3 DEF LoadGone
<1>4. CASE LoadRepair(a)
  <2>1. TruncateMessages(rows, Len(conv[a])) \in Table
    <3>1. conv[a] \in Seq(Message)
      BY DEF History
    <3>2. Len(conv[a]) \in Nat
      BY <3>1, LenProperties
    <3> QED
      BY <3>2, TruncateMessagesType
  <2>2. rows' \in Table /\ failures' \in 0 .. MaxFailures
    BY <1>4, <2>1, BoundsAssumption DEF LoadRepair, Committed, Refused
  <2>3. PICK l \in {"insert", "rejected"} : Goto(a, l)
    BY <1>4 DEF LoadRepair
  <2>4. pc' \in [Agents -> Pcs] /\ Placed' /\ Closing'
    BY <1>4, <2>3 DEF LoadRepair
  <2> QED
    BY <1>4, <2>2, <2>3, <2>4 DEF LoadRepair
<1>5. CASE LoadInsert(a)
  BY <1>5 DEF LoadInsert
<1> QED
  BY <1>1, <1>2, <1>3, <1>4, <1>5 DEF Loads

LEMMA StartsTypeInv ==
    ASSUME TypeInv, NEW a \in Agents, StartAgent(a) \/ Register(a) \/ RecordUserTurn(a)
    PROVE  TypeInv'
<1> USE BoundsAssumption DEF TypeInv, TypeOK, Placed, Closing, Goto, Terminal,
        RequestPcs, TaskPcs, LoopPcs, EndedPcs, Pcs, memory, bounds
<1>1. CASE StartAgent(a)
  <2>1. PICK l \in {"register", "rejected"} : Goto(a, l)
    BY <1>1 DEF StartAgent
  <2>2. pc' \in [Agents -> Pcs] /\ Placed' /\ Closing'
    BY <1>1, <2>1 DEF StartAgent
  <2>3. agentRow' \in [Agents -> Terminal \cup {"none", "running"}]
    BY <1>1 DEF StartAgent
  <2>4. failures' \in 0 .. MaxFailures
    BY <1>1 DEF StartAgent, Committed, Refused
  <2> QED
    BY <1>1, <2>2, <2>3, <2>4 DEF StartAgent
<1>2. CASE Register(a)
  BY <1>2 DEF Register, store
<1>3. CASE RecordUserTurn(a)
  <2> DEFINE h == PushUserText(Conversing(a), a)
  <2>1. mine[a] \in Agents /\ Conversing(a) \in History
    BY <1>3 DEF RecordUserTurn, Conversing
  <2>2. h \in History /\ h # << >>
    BY <2>1, PushUserTextType
  <2>3. PutLast(rows, h) \in Table
    BY <2>2, PutLastType
  <2>4. conv' \in [Agents -> History]
    BY <1>3, <2>2 DEF RecordUserTurn, SetConversing
  <2>5. rows' \in Table /\ registry' \subseteq Agents
    BY <1>3, <2>3 DEF RecordUserTurn
  <2>6. PICK l \in {"spawned", "rejected"} : Goto(a, l)
    BY <1>3 DEF RecordUserTurn
  <2>7. pc' \in [Agents -> Pcs] /\ Placed' /\ Closing'
    BY <1>3, <2>6 DEF RecordUserTurn
  <2>8. failures' \in 0 .. MaxFailures
    BY <1>3 DEF RecordUserTurn, Committed, Refused
  <2> QED
    BY <1>3, <2>4, <2>5, <2>7, <2>8 DEF RecordUserTurn
<1> QED
  BY <1>1, <1>2, <1>3

\* The run's task before its loop and after it.
LEMMA SetsUpTypeInv ==
    ASSUME TypeInv, NEW a \in Agents,
           TaskBegin(a) \/ SetupFails(a) \/ (\E t \in ToolSets : Setup(a, t))
    PROVE  TypeInv'
<1> USE BoundsAssumption DEF TypeInv, TypeOK, Placed, Closing, Goto, Terminal,
        RequestPcs, TaskPcs, LoopPcs, EndedPcs, Pcs, Stop, store, memory, bounds
<1>1. CASE TaskBegin(a)
  BY <1>1 DEF TaskBegin
<1>2. CASE SetupFails(a)
  BY <1>2 DEF SetupFails
<1>3. CASE \E t \in ToolSets : Setup(a, t)
  <2> PICK tools \in ToolSets : Setup(a, tools)
    BY <1>3
  <2> DEFINE changed == prefix \notin {NoTools, tools}
             h == IF changed THEN PushUserText(Conversing(a), NOTE) ELSE Conversing(a)
  <2>1. mine[a] \in Agents /\ Conversing(a) \in History
    BY DEF Setup, Conversing
  <2>2. h \in History /\ (changed => h # << >>)
    BY <2>1, PushUserTextType
  <2>3. conv' \in [Agents -> History]
    BY <2>2 DEF Setup, SetConversing
  <2>4. changed => PutLast(rows, h) \in Table
    BY <2>2, PutLastType
  <2>5. rows' \in Table /\ prefix' \in ToolSets \cup {NoTools}
    BY <2>4 DEF Setup
  <2>6. PICK l \in {"loop", "end"} : Goto(a, l)
    BY DEF Setup
  <2>7. next' \in [Agents -> Terminal \cup {"loop", "continue"}]
    BY DEF Setup
  <2>8. pc' \in [Agents -> Pcs] /\ Placed'
    BY <2>6 DEF Setup
  <2>9. Closing'
    BY <2>6, <2>7 DEF Setup
  <2>10. failures' \in 0 .. MaxFailures
    BY DEF Setup, Committed, Refused
  <2> QED
    BY <2>3, <2>5, <2>7, <2>8, <2>9, <2>10 DEF Setup
<1> QED
  BY <1>1, <1>2, <1>3

LEMMA EndsTypeInv ==
    ASSUME TypeInv, NEW a \in Agents,
           EndRun(a) \/ FinishAgent(a) \/ Release(a) \/ Tell(a)
    PROVE  TypeInv'
<1> USE BoundsAssumption DEF TypeInv, TypeOK, Placed, Closing, Goto, Terminal,
        RequestPcs, TaskPcs, LoopPcs, EndedPcs, Pcs, Stop, store, memory, bounds
<1>1. CASE EndRun(a)
  <2> DEFINE h == Conversing(a)
  <2>1. mine[a] \in Agents /\ h \in History
    BY <1>1 DEF EndRun, Conversing
  <2>2. Repair(h) \in History
    BY <2>1, RepairType
  <2>3. Len(Repair(h)) \in Nat
    BY <2>2 DEF History
  <2>4. TruncateMessages(rows, Len(Repair(h))) \in Table
    BY <2>3, TruncateMessagesType
  <2>5. conv' \in [Agents -> History]
    BY <1>1, <2>2 DEF EndRun, SetConversing
  <2>6. rows' \in Table
    BY <1>1, <2>4 DEF EndRun
  <2>7. /\ next' \in [Agents -> Terminal \cup {"loop", "continue"}]
        /\ pc' \in [Agents -> Pcs] /\ Placed' /\ Closing'
    BY <1>1 DEF EndRun
  <2>8. failures' \in 0 .. MaxFailures
    BY <1>1 DEF EndRun, Committed, Refused
  <2> QED
    BY <1>1, <2>5, <2>6, <2>7, <2>8 DEF EndRun
<1>2. CASE FinishAgent(a)
  <2>1. pc' \in [Agents -> Pcs] /\ Placed' /\ Closing'
    BY <1>2 DEF FinishAgent
  <2>2. /\ agentRow' \in [Agents -> Terminal \cup {"none", "running"}]
        /\ finishedEvents' \in [Agents -> Nat]
    BY <1>2 DEF FinishAgent
  <2>3. failures' \in 0 .. MaxFailures
    BY <1>2 DEF FinishAgent, Committed, Refused
  <2> QED
    BY <1>2, <2>1, <2>2, <2>3 DEF FinishAgent
<1>3. CASE Release(a)
  BY <1>3 DEF Release
<1>4. CASE Tell(a)
  BY <1>4, IterationsAssumption DEF Tell
<1> QED
  BY <1>1, <1>2, <1>3, <1>4

\* The loop.
LEMMA CallsTypeInv ==
    ASSUME TypeInv, NEW a \in Agents,
           LoopStops(a) \/ BeginStep(a) \/ SendRequest(a) \/ MentorFails(a) \/ CloseStep(a)
    PROVE  TypeInv'
<1> USE BoundsAssumption DEF TypeInv, TypeOK, Placed, Closing, Goto, Terminal,
        RequestPcs, TaskPcs, LoopPcs, EndedPcs, Pcs, Stop, store, memory, bounds
<1>1. CASE LoopStops(a)
  <2>1. PICK n \in {"cancelled", "error"} : Stop(a, n)
    BY <1>1 DEF LoopStops
  <2> QED
    BY <1>1, <2>1 DEF LoopStops
<1>2. CASE BeginStep(a)
  <2>1. \/ Goto(a, "request") /\ UNCHANGED next
        \/ Stop(a, "error")
    BY <1>2 DEF BeginStep
  <2>2. /\ next' \in [Agents -> Terminal \cup {"loop", "continue"}]
        /\ pc' \in [Agents -> Pcs] /\ Placed' /\ Closing'
    BY <1>2, <2>1 DEF BeginStep
  <2>3. iter' \in [Agents -> 0 .. MaxIterations]
    BY <1>2, IterationsAssumption DEF BeginStep
  <2>4. openSteps' \subseteq Agents
    BY <1>2 DEF BeginStep
  <2>5. failures' \in 0 .. MaxFailures
    BY <1>2 DEF BeginStep, Committed, Refused
  <2> QED
    BY <1>2, <2>2, <2>3, <2>4, <2>5 DEF BeginStep
<1>3. CASE SendRequest(a)
  <2>1. \/ Goto(a, "mentor") /\ UNCHANGED next
        \/ Stop(a, "error")
    BY <1>3 DEF SendRequest
  <2>2. /\ next' \in [Agents -> Terminal \cup {"loop", "continue"}]
        /\ pc' \in [Agents -> Pcs] /\ Placed' /\ Closing'
    BY <1>3, <2>1 DEF SendRequest
  <2>3. openCalls' \subseteq Agents
    BY <1>3 DEF SendRequest
  <2>4. failures' \in 0 .. MaxFailures
    BY <1>3 DEF SendRequest, Committed, Refused
  <2> QED
    BY <1>3, <2>2, <2>3, <2>4 DEF SendRequest
<1>4. CASE MentorFails(a)
  <2>1. PICK n \in {"error", "cancelled"} : Stop(a, n)
    BY <1>4 DEF MentorFails
  <2>2. /\ next' \in [Agents -> Terminal \cup {"loop", "continue"}]
        /\ pc' \in [Agents -> Pcs] /\ Placed' /\ Closing'
    BY <1>4, <2>1 DEF MentorFails
  <2>3. openCalls' \subseteq Agents /\ openSteps' \subseteq Agents
    BY <1>4 DEF MentorFails
  <2>4. failures' \in 0 .. MaxFailures
    BY <1>4 DEF MentorFails, Committed, Refused
  <2> QED
    BY <1>4, <2>2, <2>3, <2>4 DEF MentorFails
<1>5. CASE CloseStep(a)
  <2>1. \/ next[a] \in {"loop", "continue"} /\ Goto(a, next[a]) /\ UNCHANGED next
        \/ next[a] \in Terminal /\ Goto(a, "end") /\ UNCHANGED next
        \/ Stop(a, "error")
    BY <1>5 DEF CloseStep
  <2>2. /\ next' \in [Agents -> Terminal \cup {"loop", "continue"}]
        /\ pc' \in [Agents -> Pcs] /\ Placed' /\ Closing'
    BY <1>5, <2>1 DEF CloseStep
  <2>3. openSteps' \subseteq Agents
    BY <1>5 DEF CloseStep
  <2>4. failures' \in 0 .. MaxFailures
    BY <1>5 DEF CloseStep, Committed, Refused
  <2> QED
    BY <1>5, <2>2, <2>3, <2>4 DEF CloseStep
<1> QED
  BY <1>1, <1>2, <1>3, <1>4, <1>5

LEMMA TurnsTypeInv ==
    ASSUME TypeInv, NEW a \in Agents,
           (\E r \in Replies : MentorAnswers(a, r)) \/ ToolsReturn(a) \/ AskToContinue(a)
    PROVE  TypeInv'
<1> USE BoundsAssumption DEF TypeInv, TypeOK, Placed, Closing, Goto, Terminal,
        RequestPcs, TaskPcs, LoopPcs, EndedPcs, Pcs, Stop, store, memory, bounds
<1>1. CASE \E r \in Replies : MentorAnswers(a, r)
  <2> PICK r \in Replies : MentorAnswers(a, r)
    BY <1>1
  <2> DEFINE h == PushAssistant(Conversing(a), r.calls)
  <2>1. mine[a] \in Agents /\ Conversing(a) \in History /\ r.calls \in BOOLEAN
    BY RepliesAssumption DEF MentorAnswers, Conversing, Reply
  <2>2. h \in History /\ h # << >>
    BY <2>1, PushAssistantType
  <2>3. PutLast(rows, h) \in Table
    BY <2>2, PutLastType
  <2>4. conv' \in [Agents -> History]
    BY <2>2 DEF MentorAnswers, SetConversing
  <2>5. rows' \in Table /\ openCalls' \subseteq Agents
    BY <2>3 DEF MentorAnswers
  <2>6. \/ Goto(a, "tools") /\ UNCHANGED next
        \/ Goto(a, "close") /\ next' = [next EXCEPT ![a] = AfterReply(a, r)]
        \/ Stop(a, "error")
    BY DEF MentorAnswers
  <2>7. AfterReply(a, r) \in {"error", "loop", "continue", "ok"}
    BY DEF AfterReply
  <2>8. /\ next' \in [Agents -> Terminal \cup {"loop", "continue"}]
        /\ pc' \in [Agents -> Pcs] /\ Placed' /\ Closing'
    BY <2>6, <2>7 DEF MentorAnswers
  <2>9. failures' \in 0 .. MaxFailures
    BY DEF MentorAnswers, Committed, Refused
  <2> QED
    BY <2>4, <2>5, <2>8, <2>9 DEF MentorAnswers
<1>2. CASE ToolsReturn(a)
  <2> DEFINE h == PushToolResults(Conversing(a))
  <2>1. mine[a] \in Agents /\ Conversing(a) \in History
    BY <1>2 DEF ToolsReturn, Conversing
  <2>2. h \in History /\ h # << >>
    BY <2>1, PushToolResultsType
  <2>3. PutLast(rows, h) \in Table
    BY <2>2, PutLastType
  <2>4. conv' \in [Agents -> History]
    BY <1>2, <2>2 DEF ToolsReturn, SetConversing
  <2>5. rows' \in Table
    BY <1>2, <2>3 DEF ToolsReturn
  <2>6. \/ \E n \in {"cancelled", "loop"} :
               next' = [next EXCEPT ![a] = n] /\ Goto(a, "close")
        \/ Stop(a, "error")
    BY <1>2 DEF ToolsReturn
  <2>7. /\ next' \in [Agents -> Terminal \cup {"loop", "continue"}]
        /\ pc' \in [Agents -> Pcs] /\ Placed' /\ Closing'
    BY <1>2, <2>6 DEF ToolsReturn
  <2>8. failures' \in 0 .. MaxFailures
    BY <1>2 DEF ToolsReturn, Committed, Refused
  <2> QED
    BY <1>2, <2>4, <2>5, <2>7, <2>8 DEF ToolsReturn
<1>3. CASE AskToContinue(a)
  <2> DEFINE h == PushUserText(Conversing(a), CONTINUE)
  <2>1. mine[a] \in Agents /\ Conversing(a) \in History
    BY <1>3 DEF AskToContinue, Conversing
  <2>2. h \in History /\ h # << >>
    BY <2>1, PushUserTextType
  <2>3. PutLast(rows, h) \in Table
    BY <2>2, PutLastType
  <2>4. conv' \in [Agents -> History]
    BY <1>3, <2>2 DEF AskToContinue, SetConversing
  <2>5. rows' \in Table /\ continued' \subseteq Agents
    BY <1>3, <2>3 DEF AskToContinue
  <2>6. \/ next' = [next EXCEPT ![a] = "loop"] /\ Goto(a, "loop")
        \/ Stop(a, "error")
    BY <1>3 DEF AskToContinue
  <2>7. /\ next' \in [Agents -> Terminal \cup {"loop", "continue"}]
        /\ pc' \in [Agents -> Pcs] /\ Placed' /\ Closing'
    BY <1>3, <2>6 DEF AskToContinue
  <2>8. failures' \in 0 .. MaxFailures
    BY <1>3 DEF AskToContinue, Committed, Refused
  <2> QED
    BY <1>3, <2>4, <2>5, <2>7, <2>8 DEF AskToContinue
<1> QED
  BY <1>1, <1>2, <1>3

\* Cancellation, the watchdog and the session's other requests.
LEMMA AsksTypeInv ==
    ASSUME TypeInv, NEW a \in Agents,
           Request(a) \/ Cancel(a) \/ Stall(a)
    PROVE  TypeInv'
<1> USE DEF TypeInv, TypeOK, Placed, Closing, Goto, Terminal, RequestPcs, TaskPcs,
        LoopPcs, EndedPcs, Pcs, store, memory, tasks, bounds
<1>1. CASE Request(a)
  BY <1>1 DEF Request
<1>2. CASE Cancel(a)
  BY <1>2 DEF Cancel
<1>3. CASE Stall(a)
  BY <1>3 DEF Stall
<1> QED
  BY <1>1, <1>2, <1>3

LEMMA AdministersTypeInv ==
    ASSUME TypeInv,
           \/ (\E archived \in BOOLEAN : ArchiveRequest(archived)) \/ DeleteRequest
           \/ Administers
    PROVE  TypeInv'
<1> USE BoundsAssumption DEF TypeInv, TypeOK, Placed, Closing, SessionStatus, Terminal,
        store, memory, tasks, bounds
<1>1. CASE ArchiveCommit
  <2>1. session' \in SessionStatus /\ admin' \in {"forget", "idle"}
    BY <1>1 DEF ArchiveCommit
  <2>2. failures' \in 0 .. MaxFailures
    BY <1>1 DEF ArchiveCommit, Committed, Refused
  <2> QED
    BY <1>1, <2>1, <2>2 DEF ArchiveCommit
<1>2. CASE ArchiveForget
  BY <1>2 DEF ArchiveForget
<1>3. CASE \E purge \in BOOLEAN : DeleteCommit(purge)
  <2>1. << >> \in Table
    BY EmptySeq DEF Table
  <2>2. failures' \in 0 .. MaxFailures
    BY <1>3 DEF DeleteCommit, Committed, Refused
  <2>3. /\ session' \in SessionStatus
        /\ rows' \in Table
        /\ prefix' \in ToolSets \cup {NoTools}
        /\ agentRow' \in [Agents -> Terminal \cup {"none", "running"}]
        /\ openSteps' \subseteq Agents
        /\ openCalls' \subseteq Agents
        /\ finishedEvents' \in [Agents -> Nat]
    BY <1>3, <2>1 DEF DeleteCommit
  <2> QED
    BY <1>3, <2>2, <2>3 DEF DeleteCommit
<1>4. CASE \E archived \in BOOLEAN : ArchiveRequest(archived)
  BY <1>4 DEF ArchiveRequest
<1>5. CASE DeleteRequest
  BY <1>5 DEF DeleteRequest
<1> QED
  BY <1>1, <1>2, <1>3, <1>4, <1>5 DEF Administers

\* The daemon's end and start.
LEMMA LoseMemoryTypeInv ==
    ASSUME TypeInv, LoseMemory, crashes' \in 0 .. MaxCrashes
    PROVE  TypeInv'
<1> USE DEF TypeInv, TypeOK, LoseMemory, store
<1>1. << >> \in History
  BY EmptySeq DEF History
<1>2. \A a \in Agents : pc'[a] \in {"idle"} \cup EndedPcs
  BY DEF EndedPcs
<1>3. pc' \in [Agents -> Pcs]
  BY DEF EndedPcs, Pcs
<1>4. Placed' /\ Closing'
  BY <1>2 DEF Placed, Closing, TaskPcs, LoopPcs, EndedPcs
<1>5. /\ conv' \in [Agents -> History]
      /\ iter' \in [Agents -> 0 .. MaxIterations]
  BY <1>1, IterationsAssumption
<1> QED
  BY <1>3, <1>4, <1>5

LEMMA RestartsTypeInv ==
    ASSUME TypeInv, BeginShutdown \/ FinishShutdown \/ Crash \/ Restarts
    PROVE  TypeInv'
<1> USE DEF TypeInv, TypeOK, Placed, Closing, Terminal, store, memory, tasks, bounds
<1>1. CASE BeginShutdown
  BY <1>1 DEF BeginShutdown
<1>2. CASE FinishShutdown
  BY <1>2, LoseMemoryTypeInv DEF FinishShutdown
<1>3. CASE Crash
  BY <1>3, BoundsAssumption, LoseMemoryTypeInv DEF Crash
<1>4. CASE Start
  BY <1>4 DEF Start
<1>5. CASE \E a \in Agents : Recover(a)
  BY <1>5 DEF Recover
<1>6. CASE Serve
  BY <1>6 DEF Serve
<1> QED
  BY <1>1, <1>2, <1>3, <1>4, <1>5, <1>6 DEF Restarts

LEMMA NextTypeInv == TypeInv /\ [Next]_vars => TypeInv'
<1> SUFFICES ASSUME TypeInv, [Next]_vars PROVE TypeInv'
  OBVIOUS
<1>1. CASE UNCHANGED vars
  BY <1>1 DEF vars, store, memory, tasks, bounds, TypeInv, TypeOK, Placed, Closing
<1>2. CASE \E a \in Agents : Begins(a)
  BY <1>2, LoadsTypeInv, StartsTypeInv DEF Begins
<1>3. CASE \E a \in Agents : Runs(a)
  BY <1>3, SetsUpTypeInv, CallsTypeInv, TurnsTypeInv, EndsTypeInv DEF Runs, Loops
<1>4. CASE \E a \in Agents : Stall(a)
  BY <1>4, AsksTypeInv
<1>5. CASE Asks
  BY <1>5, AsksTypeInv, AdministersTypeInv DEF Asks
<1>6. CASE Administers
  BY <1>6, AdministersTypeInv
<1>7. CASE BeginShutdown \/ FinishShutdown \/ Crash \/ Restarts
  BY <1>7, RestartsTypeInv
<1>8. CASE Quiescent
  BY <1>1, <1>8 DEF Quiescent
<1> QED
  BY <1>1, <1>2, <1>3, <1>4, <1>5, <1>6, <1>7, <1>8 DEF Next

\* Every state is well-typed, and a run always knows its conversation and its
\* end: whatever the agents, the tool sets, the replies and the bounds.
THEOREM TypeCorrect == Spec => [](TypeOK /\ Placed /\ Closing)
<1>1. Init => TypeInv
  BY InitTypeInv
<1>2. TypeInv /\ [Next]_vars => TypeInv'
  BY NextTypeInv
<1>3. TypeInv => TypeOK /\ Placed /\ Closing
  BY DEF TypeInv
<1> QED
  BY <1>1, <1>2, <1>3, PTL DEF Spec

-----------------------------------------------------------------------------
-----------------------------------------------------------------------------
(* EndsOnce.  Whoever ends an agent must find it not ended: the task       *)
(* because it is the only one that runs (Unended), the recovery because no *)
(* task is left (GoneWithDaemon) and no call is made twice (Unrecorded).   *)

Unrecorded ==
    \A a \in Agents :
        pc[a] \in {"idle", "load", "repair", "insert", "start"} => agentRow[a] = "none"

Unended ==
    \A a \in Agents :
        pc[a] \in {"register", "turn", "spawned", "setup", "finish"} \cup LoopPcs =>
            agentRow[a] \notin Terminal

GoneWithDaemon ==
    daemon \in {"down", "recovering"} =>
        \A a \in Agents : pc[a] \in {"idle"} \cup EndedPcs

EndsInv == TypeInv /\ Unrecorded /\ Unended /\ GoneWithDaemon

LEMMA BeginsEndsInv ==
    ASSUME EndsInv, NEW a \in Agents, Begins(a) \/ Request(a)
    PROVE  (Unrecorded /\ Unended /\ GoneWithDaemon)'
<1> USE DEF EndsInv, TypeInv, TypeOK, Unrecorded, Unended, GoneWithDaemon, Goto,
        Terminal, RequestPcs, TaskPcs, LoopPcs, EndedPcs, Pcs, store, memory, bounds
<1>1. CASE StartAgent(a)
  <2>1. \/ Goto(a, "register") /\ agentRow' = [agentRow EXCEPT ![a] = "running"]
        \/ Goto(a, "rejected") /\ UNCHANGED agentRow
    BY <1>1 DEF StartAgent
  <2> QED
    BY <1>1, <2>1 DEF StartAgent
<1>2. CASE Loads(a) \/ Register(a) \/ RecordUserTurn(a) \/ Request(a)
  <2>1. /\ UNCHANGED <<agentRow, daemon>>
        /\ \/ /\ pc[a] \in {"idle", "load", "repair", "insert"}
              /\ \E l \in {"load", "repair", "insert", "start", "rejected"} : Goto(a, l)
           \/ /\ pc[a] \in {"register", "turn"}
              /\ \E l \in {"turn", "spawned", "rejected"} : Goto(a, l)
        /\ pc[a] = "idle" => daemon = "up"
    BY <1>2 DEF Loads, LoadHeld, LoadRows, LoadGone, LoadRepair, LoadInsert, Register,
                RecordUserTurn, Request
  <2> QED
    BY <2>1
<1> QED
  BY <1>1, <1>2 DEF Begins

LEMMA RunsEndsInv ==
    ASSUME EndsInv, NEW a \in Agents, Runs(a)
    PROVE  (Unrecorded /\ Unended /\ GoneWithDaemon)'
<1> USE DEF EndsInv, TypeInv, TypeOK, Unrecorded, Unended, GoneWithDaemon, Goto,
        Terminal, RequestPcs, TaskPcs, LoopPcs, EndedPcs, Pcs, store, memory, bounds
<1>1. CASE TaskBegin(a) \/ SetupFails(a) \/ (\E t \in ToolSets : Setup(a, t))
  <2>1. /\ UNCHANGED <<agentRow, daemon>>
        /\ pc[a] \in {"spawned", "setup"}
        /\ \E l \in {"setup", "loop", "end"} : Goto(a, l)
    BY <1>1 DEF TaskBegin, SetupFails, Setup, Stop
  <2> QED
    BY <2>1
<1>2. CASE Loops(a)
  <2>1. /\ UNCHANGED <<agentRow, daemon>>
        /\ pc[a] \in LoopPcs
        /\ \E l \in LoopPcs : Goto(a, l)
    BY <1>2 DEF Loops, LoopStops, BeginStep, SendRequest, MentorFails, MentorAnswers,
                ToolsReturn, CloseStep, AskToContinue, Stop
  <2> QED
    BY <2>1
<1>3. CASE EndRun(a) \/ Release(a) \/ Tell(a)
  <2>1. /\ UNCHANGED <<agentRow, daemon>>
        /\ \/ pc[a] = "end" /\ Goto(a, "finish")
           \/ pc[a] = "release" /\ Goto(a, "tell")
           \/ pc[a] = "tell" /\ Goto(a, "done")
    BY <1>3 DEF EndRun, Release, Tell
  <2> QED
    BY <2>1
<1>4. CASE FinishAgent(a)
  <2>1. /\ UNCHANGED daemon
        /\ pc[a] = "finish" /\ Goto(a, "release")
        /\ \A b \in Agents \ {a} : agentRow'[b] = agentRow[b]
    BY <1>4 DEF FinishAgent
  <2> QED
    BY <2>1
<1> QED
  BY <1>1, <1>2, <1>3, <1>4 DEF Runs

LEMMA NextEndsInv == EndsInv /\ [Next]_vars => EndsInv'
<1> SUFFICES ASSUME EndsInv, [Next]_vars PROVE EndsInv'
  OBVIOUS
<1>1. TypeInv'
  BY NextTypeInv DEF EndsInv
<1>2. (Unrecorded /\ Unended /\ GoneWithDaemon)'
  <2> USE DEF EndsInv, Unrecorded, Unended, GoneWithDaemon, store, memory, tasks, bounds
  <2>1. CASE UNCHANGED vars
    BY <2>1 DEF vars
  <2>2. CASE \E a \in Agents : Begins(a) \/ Runs(a)
    BY <2>2, BeginsEndsInv, RunsEndsInv
  <2>3. CASE \E a \in Agents : Request(a)
    BY <2>3, BeginsEndsInv
  <2>4. CASE \/ \E a \in Agents : Stall(a) \/ Cancel(a)
             \/ \E archived \in BOOLEAN : ArchiveRequest(archived)
             \/ DeleteRequest \/ BeginShutdown
    BY <2>4 DEF Stall, Cancel, ArchiveRequest, DeleteRequest, BeginShutdown
  <2>5. CASE ArchiveCommit \/ ArchiveForget
    BY <2>5 DEF ArchiveCommit, ArchiveForget
  <2>6. CASE \E purge \in BOOLEAN : DeleteCommit(purge)
    <3>1. /\ UNCHANGED <<pc, daemon>>
          /\ UNCHANGED agentRow \/ agentRow' = [a \in Agents |-> "none"]
      BY <2>6 DEF DeleteCommit
    <3> QED
      BY <3>1 DEF Terminal
  <2>7. CASE FinishShutdown \/ Crash
    <3>1. LoseMemory
      BY <2>7 DEF FinishShutdown, Crash
    <3>2. /\ UNCHANGED agentRow
          /\ \A a \in Agents : pc'[a] = IF pc[a] \in {"idle"} \cup EndedPcs THEN pc[a] ELSE "gone"
      BY <3>1 DEF LoseMemory
    <3> QED
      BY <3>2 DEF EndedPcs, LoopPcs
  <2>8. CASE Start \/ Serve
    BY <2>8 DEF Start, Serve
  <2>9. CASE \E a \in Agents : Recover(a)
    <3> PICK a \in Agents : Recover(a)
      BY <2>9
    <3>1. agentRow[a] = "running" /\ agentRow' = [agentRow EXCEPT ![a] = "error"]
      BY DEF Recover
    <3>2. UNCHANGED <<pc, daemon>> /\ daemon = "recovering"
      BY DEF Recover
    <3>3. pc[a] \in EndedPcs
      BY <3>1, <3>2
    <3> QED
      BY <3>1, <3>2, <3>3 DEF TypeInv, TypeOK, EndedPcs, LoopPcs
  <2>10. CASE Quiescent
    BY <2>1, <2>10 DEF Quiescent
  <2> QED
    BY <2>1, <2>2, <2>3, <2>4, <2>5, <2>6, <2>7, <2>8, <2>9, <2>10
    DEF Next, Asks, Administers, Restarts
<1> QED
  BY <1>1, <1>2 DEF EndsInv
\* finish_agent and recover_orphaned_agents never both end an agent, and how
\* an agent ended never changes, until the session is purged.
THEOREM AgentEndsOnce == Spec => EndsOnce
<1> DEFINE Kept == \A a \in Agents :
              agentRow[a] \in Terminal /\ session' # "purged" =>
                  agentRow'[a] = agentRow[a] /\ finishedEvents'[a] = finishedEvents[a]
<1>1. Init => EndsInv
  <2> SUFFICES ASSUME Init PROVE EndsInv
    OBVIOUS
  <2>1. Unrecorded /\ Unended /\ GoneWithDaemon
    BY DEF Init, Unrecorded, Unended, GoneWithDaemon, LoopPcs
  <2> QED
    BY <2>1, InitTypeInv DEF EndsInv
<1>2. EndsInv /\ [Next]_vars => EndsInv'
  BY NextEndsInv
<1>3. EndsInv /\ [Next]_vars => Kept
  <2> SUFFICES ASSUME EndsInv, [Next]_vars PROVE Kept
    OBVIOUS
  <2> USE DEF EndsInv, TypeInv, TypeOK, Unrecorded, Unended, GoneWithDaemon, store
  <2>1. CASE UNCHANGED <<agentRow, finishedEvents>>
    BY <2>1
  <2>2. CASE \E a \in Agents : StartAgent(a)
    BY <2>2 DEF StartAgent, Terminal
  <2>3. CASE \E a \in Agents : FinishAgent(a)
    BY <2>3 DEF FinishAgent
  <2>4. CASE \E a \in Agents : Recover(a)
    BY <2>4 DEF Recover, Terminal
  <2>5. CASE \E purge \in BOOLEAN : DeleteCommit(purge)
    BY <2>5 DEF DeleteCommit
  <2>6. CASE \E a \in Agents :
               Loads(a) \/ Register(a) \/ RecordUserTurn(a) \/ Request(a) \/ Cancel(a) \/ Stall(a)
    BY <2>1, <2>6
    DEF Loads, LoadHeld, LoadRows, LoadGone, LoadRepair, LoadInsert, Register,
        RecordUserTurn, Request, Cancel, Stall
  <2>7. CASE \E a \in Agents : Loops(a)
    BY <2>1, <2>7
    DEF Loops, LoopStops, BeginStep, SendRequest, MentorFails, MentorAnswers, ToolsReturn,
        CloseStep, AskToContinue
  <2>8. CASE \E a \in Agents :
               \/ TaskBegin(a) \/ SetupFails(a) \/ (\E t \in ToolSets : Setup(a, t))
               \/ EndRun(a) \/ Release(a) \/ Tell(a)
    BY <2>1, <2>8 DEF TaskBegin, SetupFails, Setup, EndRun, Release, Tell
  <2>9. CASE \/ (\E archived \in BOOLEAN : ArchiveRequest(archived))
             \/ DeleteRequest \/ ArchiveCommit \/ ArchiveForget
             \/ BeginShutdown \/ FinishShutdown \/ Crash \/ Start \/ Serve
             \/ Quiescent \/ UNCHANGED vars
    BY <2>1, <2>9
    DEF ArchiveRequest, DeleteRequest, ArchiveCommit, ArchiveForget, BeginShutdown,
        FinishShutdown, Crash, LoseMemory, Start, Serve, Quiescent, vars
  <2> QED
    BY <2>2, <2>3, <2>4, <2>5, <2>6, <2>7, <2>8, <2>9
    DEF Next, Begins, Runs, Asks, Administers, Restarts
<1>4. EndsInv /\ [Next]_vars => [Kept]_vars
  BY <1>3
<1> QED
  BY <1>1, <1>2, <1>4, PTL DEF Spec, EndsOnce

-----------------------------------------------------------------------------
(* EndsAgree.  An agent's finished events count its end (Counted), a step  *)
(* or call stands open only under the run that opened it (OpenInRun), and  *)
(* the registry holds an agent from Register to Release (Listed).  A write *)
(* may have been refused (failures) or the session be purged: both stay.   *)

Counted ==
    \A a \in Agents : finishedEvents[a] = IF agentRow[a] \in Terminal THEN 1 ELSE 0

Listed == \A a \in registry : pc[a] \in {"turn"} \cup (TaskPcs \ {"tell"})

ToldIsDone == \A a \in told : pc[a] = "done"

Intact == failures = 0 /\ session # "purged"

OpenInRun ==
    Intact =>
        /\ \A a \in openSteps : pc[a] \in {"request", "mentor", "tools", "close", "gone"}
        /\ \A a \in openCalls : pc[a] \in {"mentor", "gone"}

EndedIsEnded ==
    Intact => \A a \in Agents : pc[a] \in {"release", "tell", "done"} => agentRow[a] \in Terminal

AgreeInv ==
    EndsInv /\ Counted /\ Listed /\ ToldIsDone /\ OpenInRun /\ EndedIsEnded /\ RunningIsAlive

LEMMA IntactStays ==
    ASSUME TypeInv, [Next]_vars, Intact'
    PROVE  Intact
<1> USE DEF Intact, TypeInv, TypeOK
<1> SUFFICES failures' \in {failures, failures + 1} /\ (session = "purged" => session' = "purged")
  OBVIOUS
<1>1. CASE \E a \in Agents : Begins(a) \/ Request(a) \/ Stall(a) \/ Cancel(a)
  BY <1>1 DEF Begins, Loads, LoadHeld, LoadRows, LoadGone, LoadRepair, LoadInsert, StartAgent,
     Register, RecordUserTurn, Request, Stall, Cancel, Committed, Refused, store, bounds
<1>2. CASE \E a \in Agents : Runs(a)
  <2> PICK a \in Agents : Runs(a)
    BY <1>2
  <2>1. CASE Loops(a)
    BY <2>1 DEF Loops, LoopStops, BeginStep, SendRequest, MentorFails, MentorAnswers, ToolsReturn,
       CloseStep, AskToContinue, Committed, Refused, store, bounds
  <2>2. CASE ~Loops(a)
    BY <2>2 DEF Runs, TaskBegin, SetupFails, Setup, EndRun, FinishAgent, Release, Tell,
       Committed, Refused, store, bounds
  <2> QED
    BY <2>1, <2>2
<1>3. CASE \/ (\E archived \in BOOLEAN : ArchiveRequest(archived)) \/ DeleteRequest \/ Administers
  BY <1>3 DEF ArchiveRequest, DeleteRequest, Administers, ArchiveCommit, ArchiveForget, DeleteCommit,
     Committed, Refused, store, bounds
<1>4. CASE BeginShutdown \/ FinishShutdown \/ Crash \/ Restarts
  BY <1>4 DEF BeginShutdown, FinishShutdown, Crash, LoseMemory, Restarts, Start, Recover, Serve,
     store, bounds
<1>5. CASE UNCHANGED vars \/ Quiescent
  BY <1>5 DEF vars, Quiescent, store, bounds
<1> QED
  BY <1>1, <1>2, <1>3, <1>4, <1>5 DEF Next, Asks

LEMMA CountedStep ==
    ASSUME EndsInv, Counted, [Next]_vars
    PROVE  Counted'
<1> USE DEF EndsInv, TypeInv, TypeOK, Counted, Terminal
<1>1. CASE UNCHANGED <<agentRow, finishedEvents>>
  BY <1>1
<1>2. CASE \E a \in Agents : StartAgent(a)
  <2> PICK a \in Agents : StartAgent(a)
    BY <1>2
  <2>1. agentRow[a] = "none" /\ UNCHANGED finishedEvents
        /\ (agentRow' = [agentRow EXCEPT ![a] = "running"] \/ UNCHANGED agentRow)
    BY DEF StartAgent, Unrecorded
  <2> QED
    BY <2>1
<1>3. CASE \E a \in Agents : FinishAgent(a)
  <2> PICK a \in Agents : FinishAgent(a)
    BY <1>3
  <2>1. agentRow[a] \notin Terminal /\ next[a] \in Terminal
    BY DEF FinishAgent, Unended, Closing
  <2>2. \/ UNCHANGED <<agentRow, finishedEvents>>
        \/ /\ agentRow' = [agentRow EXCEPT ![a] = next[a]]
           /\ finishedEvents' = [finishedEvents EXCEPT ![a] = @ + 1]
    BY DEF FinishAgent
  <2> QED
    BY <2>1, <2>2
<1>4. CASE \E a \in Agents : Recover(a)
  BY <1>4 DEF Recover
<1>5. CASE \E purge \in BOOLEAN : DeleteCommit(purge)
  <2>1. \/ UNCHANGED <<agentRow, finishedEvents>>
        \/ agentRow' = [a \in Agents |-> "none"] /\ finishedEvents' = [a \in Agents |-> 0]
    BY <1>5 DEF DeleteCommit, store
  <2> QED
    BY <2>1
<1>6. CASE \E a \in Agents :
             Loads(a) \/ Register(a) \/ RecordUserTurn(a) \/ Request(a) \/ Cancel(a) \/ Stall(a)
  BY <1>1, <1>6
  DEF Loads, LoadHeld, LoadRows, LoadGone, LoadRepair, LoadInsert, Register,
      RecordUserTurn, Request, Cancel, Stall, store
<1>7. CASE \E a \in Agents : Loops(a)
  BY <1>1, <1>7
  DEF Loops, LoopStops, BeginStep, SendRequest, MentorFails, MentorAnswers, ToolsReturn,
      CloseStep, AskToContinue, store
<1>8. CASE \E a \in Agents :
             \/ TaskBegin(a) \/ SetupFails(a) \/ (\E t \in ToolSets : Setup(a, t))
             \/ EndRun(a) \/ Release(a) \/ Tell(a)
  BY <1>1, <1>8 DEF TaskBegin, SetupFails, Setup, EndRun, Release, Tell, store
<1>9. CASE \/ (\E archived \in BOOLEAN : ArchiveRequest(archived))
           \/ DeleteRequest \/ ArchiveCommit \/ ArchiveForget
           \/ BeginShutdown \/ FinishShutdown \/ Crash \/ Start \/ Serve
           \/ Quiescent \/ UNCHANGED vars
  BY <1>1, <1>9
  DEF ArchiveRequest, DeleteRequest, ArchiveCommit, ArchiveForget, BeginShutdown,
      FinishShutdown, Crash, LoseMemory, Start, Serve, Quiescent, vars, store
<1> QED
  BY <1>2, <1>3, <1>4, <1>5, <1>6, <1>7, <1>8, <1>9
  DEF Next, Begins, Runs, Asks, Administers, Restarts

\* Where an agent's own step may lead, and which writes it may make there.
\* The steps of the runs that write nothing of what EndsAgree is about.
LEMMA QuietSteps ==
    ASSUME TypeInv, NEW a \in Agents,
           Loads(a) \/ TaskBegin(a) \/ SetupFails(a) \/ (\E t \in ToolSets : Setup(a, t))
           \/ EndRun(a) \/ Request(a) \/ LoopStops(a) \/ ToolsReturn(a) \/ AskToContinue(a)
    PROVE  /\ UNCHANGED <<session, agentRow, openSteps, openCalls, registry, told, daemon>>
           /\ \/ /\ pc[a] \in {"idle", "load", "repair", "insert"}
                 /\ \E l \in {"load", "repair", "insert", "start", "rejected"} : Goto(a, l)
              \/ /\ pc[a] \in {"spawned", "setup", "loop", "tools", "continue", "end"}
                 /\ \E l \in {"setup", "loop", "end", "finish"} : Goto(a, l)
                 /\ pc[a] = "tools" /\ Intact' => FALSE
              \/ /\ pc[a] = "tools" /\ Goto(a, "close")
BY DEF Loads, LoadHeld, LoadRows, LoadGone, LoadRepair, LoadInsert, TaskBegin, SetupFails, Setup,
       EndRun, Request, LoopStops, ToolsReturn, AskToContinue, Stop, Intact, Committed, Refused,
       store, memory, bounds, TypeInv, TypeOK

LEMMA ListedStep ==
    ASSUME EndsInv, Listed, ToldIsDone, [Next]_vars
    PROVE  Listed' /\ ToldIsDone'
<1> USE DEF EndsInv, TypeInv, TypeOK, Listed, ToldIsDone, Goto, TaskPcs, LoopPcs, memory, tasks
<1>1. CASE \E a \in Agents :
             Loads(a) \/ TaskBegin(a) \/ SetupFails(a) \/ (\E t \in ToolSets : Setup(a, t))
             \/ EndRun(a) \/ Request(a) \/ LoopStops(a) \/ ToolsReturn(a) \/ AskToContinue(a)
  BY <1>1, QuietSteps
<1>2. CASE \E a \in Agents : StartAgent(a) \/ Register(a) \/ RecordUserTurn(a)
  BY <1>2 DEF StartAgent, Register, RecordUserTurn
<1>3. CASE \E a \in Agents : FinishAgent(a) \/ Release(a) \/ Tell(a)
  BY <1>3 DEF FinishAgent, Release, Tell
<1>4. CASE \E a \in Agents :
             \/ BeginStep(a) \/ SendRequest(a) \/ MentorFails(a)
             \/ (\E r \in Replies : MentorAnswers(a, r)) \/ CloseStep(a)
  <2> PICK a \in Agents :
             \/ BeginStep(a) \/ SendRequest(a) \/ MentorFails(a)
             \/ (\E r \in Replies : MentorAnswers(a, r)) \/ CloseStep(a)
    BY <1>4
  <2>1. /\ pc[a] \in {"loop", "request", "mentor", "close"} /\ UNCHANGED <<registry, told>>
        /\ \E l \in LoopPcs : Goto(a, l)
    BY DEF BeginStep, SendRequest, MentorFails, MentorAnswers, CloseStep, Stop
  <2> QED
    BY <2>1
<1>5. CASE \/ \E a \in Agents : Stall(a) \/ Cancel(a)
           \/ \E archived \in BOOLEAN : ArchiveRequest(archived)
           \/ DeleteRequest \/ BeginShutdown \/ Administers
  BY <1>5 DEF Stall, Cancel, ArchiveRequest, DeleteRequest, BeginShutdown, Administers,
     ArchiveCommit, ArchiveForget, DeleteCommit
<1>6. CASE FinishShutdown \/ Crash
  <2>1. /\ registry' = {} /\ told' = told
        /\ \A a \in Agents : pc'[a] = IF pc[a] \in {"idle"} \cup EndedPcs THEN pc[a] ELSE "gone"
    BY <1>6 DEF FinishShutdown, Crash, LoseMemory
  <2> QED
    BY <2>1 DEF EndedPcs
<1>7. CASE Restarts
  BY <1>7 DEF Restarts, Start, Recover, Serve
<1>8. CASE UNCHANGED vars \/ Quiescent
  BY <1>8 DEF vars, Quiescent
<1> QED
  BY <1>1, <1>2, <1>3, <1>4, <1>5, <1>6, <1>7, <1>8
  DEF Next, Begins, Runs, Loops, Asks

LEMMA AgreeStep ==
    ASSUME AgreeInv, [Next]_vars, Intact'
    PROVE  OpenInRun' /\ EndedIsEnded' /\ RunningIsAlive'
<1> USE DEF AgreeInv, EndsInv, TypeInv, TypeOK, Goto, TaskPcs, LoopPcs, RequestPcs, EndedPcs
<1>0. /\ Intact
      /\ \A a \in openSteps : pc[a] \in {"request", "mentor", "tools", "close", "gone"}
      /\ \A a \in openCalls : pc[a] \in {"mentor", "gone"}
      /\ \A a \in Agents : pc[a] \in {"release", "tell", "done"} => agentRow[a] \in Terminal
  BY IntactStays DEF OpenInRun, EndedIsEnded
<1> DEFINE Alive(p) == p \in {"register", "turn", "spawned", "setup", "finish"} \cup LoopPcs
<1>a. daemon \in {"up", "stopping"} => \A a \in Agents : agentRow[a] = "running" <=> Alive(pc[a])
  BY <1>0 DEF RunningIsAlive, Intact
<1>b. SUFFICES
        /\ \A a \in openSteps' : pc'[a] \in {"request", "mentor", "tools", "close", "gone"}
        /\ \A a \in openCalls' : pc'[a] \in {"mentor", "gone"}
        /\ \A a \in Agents : pc'[a] \in {"release", "tell", "done"} => agentRow'[a] \in Terminal
        /\ daemon' \in {"up", "stopping"} => \A a \in Agents : agentRow'[a] = "running" <=> Alive(pc'[a])
  BY DEF OpenInRun, EndedIsEnded, RunningIsAlive
<1>1. CASE \E a \in Agents :
             Loads(a) \/ TaskBegin(a) \/ SetupFails(a) \/ (\E t \in ToolSets : Setup(a, t))
             \/ EndRun(a) \/ Request(a) \/ LoopStops(a) \/ ToolsReturn(a) \/ AskToContinue(a)
  <2> PICK a \in Agents :
             Loads(a) \/ TaskBegin(a) \/ SetupFails(a) \/ (\E t \in ToolSets : Setup(a, t))
             \/ EndRun(a) \/ Request(a) \/ LoopStops(a) \/ ToolsReturn(a) \/ AskToContinue(a)
    BY <1>1
  <2>1. /\ UNCHANGED <<session, agentRow, openSteps, openCalls, registry, told, daemon>>
        /\ \/ /\ pc[a] \in {"idle", "load", "repair", "insert"}
              /\ \E l \in {"load", "repair", "insert", "start", "rejected"} : Goto(a, l)
           \/ /\ pc[a] \in {"spawned", "setup", "loop", "continue", "end"}
              /\ \E l \in {"setup", "loop", "end", "finish"} : Goto(a, l)
           \/ /\ pc[a] = "tools" /\ Goto(a, "close")
    BY QuietSteps
  <2> QED
    BY <1>0, <1>a, <2>1
<1>2. CASE \E a \in Agents : StartAgent(a) \/ Register(a) \/ RecordUserTurn(a)
  <2> PICK a \in Agents : StartAgent(a) \/ Register(a) \/ RecordUserTurn(a)
    BY <1>2
  <2>1. /\ UNCHANGED <<openSteps, openCalls, daemon>>
        /\ \/ pc[a] = "start" /\ Goto(a, "register") /\ agentRow' = [agentRow EXCEPT ![a] = "running"]
           \/ pc[a] = "register" /\ Goto(a, "turn") /\ UNCHANGED agentRow
           \/ pc[a] = "turn" /\ Goto(a, "spawned") /\ UNCHANGED agentRow
    BY <1>0 DEF StartAgent, Register, RecordUserTurn, Committed, Refused, Intact, store
  <2> QED
    BY <1>0, <1>a, <2>1 DEF Terminal
<1>3. CASE \E a \in Agents : FinishAgent(a) \/ Release(a) \/ Tell(a)
  <2> PICK a \in Agents : FinishAgent(a) \/ Release(a) \/ Tell(a)
    BY <1>3
  <2>1. /\ UNCHANGED <<openSteps, openCalls, daemon>>
        /\ \/ /\ pc[a] = "finish" /\ Goto(a, "release") /\ agentRow' = [agentRow EXCEPT ![a] = next[a]]
              /\ next[a] \in Terminal
           \/ pc[a] = "release" /\ Goto(a, "tell") /\ UNCHANGED agentRow
           \/ pc[a] = "tell" /\ Goto(a, "done") /\ UNCHANGED agentRow
    BY <1>0 DEF FinishAgent, Release, Tell, Committed, Refused, Intact, store, Closing
  <2> QED
    BY <1>0, <1>a, <2>1 DEF Terminal
<1>4. CASE \E a \in Agents :
             \/ BeginStep(a) \/ SendRequest(a) \/ MentorFails(a)
             \/ (\E r \in Replies : MentorAnswers(a, r)) \/ CloseStep(a)
  <2> PICK a \in Agents :
             \/ BeginStep(a) \/ SendRequest(a) \/ MentorFails(a)
             \/ (\E r \in Replies : MentorAnswers(a, r)) \/ CloseStep(a)
    BY <1>4
  <2>1. /\ UNCHANGED <<agentRow, daemon>>
        /\ \/ /\ pc[a] = "loop" /\ Goto(a, "request")
              /\ openSteps' = openSteps \cup {a} /\ UNCHANGED openCalls
           \/ /\ pc[a] = "request" /\ Goto(a, "mentor")
              /\ openCalls' = openCalls \cup {a} /\ UNCHANGED openSteps
           \/ /\ pc[a] = "mentor" /\ Goto(a, "end")
              /\ openSteps' = openSteps \ {a} /\ openCalls' = openCalls \ {a}
           \/ /\ pc[a] = "mentor" /\ (Goto(a, "tools") \/ Goto(a, "close"))
              /\ openCalls' = openCalls \ {a} /\ UNCHANGED openSteps
           \/ /\ pc[a] = "close" /\ (\E l \in {"loop", "continue", "end"} : Goto(a, l))
              /\ openSteps' = openSteps \ {a} /\ UNCHANGED openCalls
    BY <1>0 DEF BeginStep, SendRequest, MentorFails, MentorAnswers, CloseStep, Stop,
       Committed, Refused, Intact, store
  <2> QED
    BY <1>0, <1>a, <2>1
<1>5. CASE \/ \E a \in Agents : Stall(a) \/ Cancel(a)
           \/ \E archived \in BOOLEAN : ArchiveRequest(archived)
           \/ DeleteRequest \/ BeginShutdown \/ Administers
  <2>1. /\ UNCHANGED <<pc, agentRow, openSteps, openCalls>>
        /\ daemon' = daemon \/ (daemon = "up" /\ daemon' = "stopping")
    <3>1. CASE \E purge \in BOOLEAN : DeleteCommit(purge)
      BY <3>1 DEF DeleteCommit, Intact, store, tasks
    <3>2. CASE ArchiveCommit \/ ArchiveForget
      BY <3>2 DEF ArchiveCommit, ArchiveForget, store, tasks
    <3> QED
      BY <1>5, <3>1, <3>2 DEF Stall, Cancel, ArchiveRequest, DeleteRequest, BeginShutdown,
         Administers, store, tasks
  <2> QED
    BY <1>0, <1>a, <2>1
<1>6. CASE FinishShutdown \/ Crash
  <2>1. /\ daemon' = "down" /\ UNCHANGED <<agentRow, openSteps, openCalls>>
        /\ \A a \in Agents : pc'[a] = IF pc[a] \in {"idle"} \cup EndedPcs THEN pc[a] ELSE "gone"
    BY <1>6 DEF FinishShutdown, Crash, LoseMemory, store
  <2> QED
    BY <1>0, <2>1
<1>7. CASE Start \/ Serve
  <2>1. /\ UNCHANGED <<pc, agentRow, openSteps, openCalls>>
        /\ \/ daemon' = "recovering"
           \/ daemon = "recovering" /\ \A a \in Agents : agentRow[a] # "running"
    BY <1>7 DEF Start, Serve, store, tasks
  <2> QED
    BY <1>0, <2>1 DEF GoneWithDaemon
<1>8. CASE \E a \in Agents : Recover(a)
  <2>1. /\ UNCHANGED <<pc, daemon>> /\ daemon = "recovering"
        /\ openSteps' \subseteq openSteps /\ openCalls' \subseteq openCalls
        /\ \A a \in Agents : agentRow'[a] \in {agentRow[a], "error"}
    BY <1>8 DEF Recover, tasks
  <2> QED
    BY <1>0, <2>1 DEF Terminal
<1>9. CASE UNCHANGED vars \/ Quiescent
  BY <1>0, <1>a, <1>9 DEF vars, Quiescent, store, tasks
<1> QED
  BY <1>1, <1>2, <1>3, <1>4, <1>5, <1>6, <1>7, <1>8, <1>9
  DEF Next, Begins, Runs, Loops, Asks, Restarts

\* The store, the registry, the handle and the event stream agree about which
\* agents have ended (run_agent_with, execute, finish_agent,
\* recover_orphaned_agents): the store calls an agent running exactly while
\* the daemon still owes its agent.finished, and a client that is told finds
\* the end recorded, once.
THEOREM EndsAreAgreed == Spec => []EndsAgree
<1>1. Init => AgreeInv
  <2> SUFFICES ASSUME Init PROVE AgreeInv
    OBVIOUS
  <2>1. Unrecorded /\ Unended /\ GoneWithDaemon
    BY DEF Init, Unrecorded, Unended, GoneWithDaemon, LoopPcs
  <2>2. Counted /\ Listed /\ ToldIsDone /\ OpenInRun /\ EndedIsEnded /\ RunningIsAlive
    BY DEF Init, Counted, Listed, ToldIsDone, OpenInRun, EndedIsEnded, RunningIsAlive, Terminal, LoopPcs
  <2> QED
    BY <2>1, <2>2, InitTypeInv DEF AgreeInv, EndsInv
<1>2. AgreeInv /\ [Next]_vars => AgreeInv'
  <2> SUFFICES ASSUME AgreeInv, [Next]_vars PROVE AgreeInv'
    OBVIOUS
  <2>1. EndsInv' /\ Counted' /\ Listed' /\ ToldIsDone'
    BY NextEndsInv, CountedStep, ListedStep DEF AgreeInv
  <2>2. OpenInRun' /\ EndedIsEnded' /\ RunningIsAlive'
    <3>1. CASE Intact'
      BY <3>1, AgreeStep
    <3>2. CASE ~Intact'
      BY <3>2 DEF OpenInRun, EndedIsEnded, RunningIsAlive, Intact
    <3> QED
      BY <3>1, <3>2
  <2> QED
    BY <2>1, <2>2 DEF AgreeInv
<1>3. AgreeInv => EndsAgree
  <2> SUFFICES ASSUME AgreeInv PROVE EndsAgree
    OBVIOUS
  <2>1. ToldIsRecorded
    <3> SUFFICES ASSUME Intact, NEW a \in told
                 PROVE  /\ agentRow[a] \in Terminal /\ finishedEvents[a] = 1
                        /\ a \notin registry \cup openSteps \cup openCalls
      BY DEF ToldIsRecorded, Intact
    <3>1. a \in Agents /\ pc[a] = "done"
      BY DEF AgreeInv, EndsInv, TypeInv, TypeOK, ToldIsDone
    <3> QED
      BY <3>1 DEF AgreeInv, EndedIsEnded, Counted, Listed, OpenInRun, TaskPcs, LoopPcs
  <2> QED
    BY <2>1 DEF AgreeInv, EndsAgree
<1> QED
  BY <1>1, <1>2, <1>3, PTL DEF Spec

-----------------------------------------------------------------------------
(* RequestsValid, for clients that send one request at a time for the      *)
(* session, and a mentor without server-side tools: pause_turn leaves two  *)
(* assistant turns in a row.                                               *)
(*                                                                         *)
(* With such clients at most one run is under way (Alone), so a history is *)
(* changed only by the run that works on it, and what it is like follows   *)
(* from where that run is (Fits).                                          *)

Lively == RequestPcs \cup (TaskPcs \ {"tell"})
Working == {"start", "register", "turn"} \cup (TaskPcs \ {"tell"})
Leaving == {"tools", "close", "end"}

Registered ==
    \A a \in Agents : pc[a] \in {"turn"} \cup (TaskPcs \ {"tell"}) => a \in registry

Alone == \A a, b \in Agents : pc[a] \in Lively /\ pc[b] \in Lively => a = b

\* The rules every turn of a history obeys, answered at its end or not.
WellFormed(h) == Alternates(h) /\ CallsAnswered(h) /\ ResultsAnswer(h)

\* The history ends with the user's turn: it is the mentor's to speak.
Awaits(h) == h # << >> /\ IsUser(LastMsg(h))

\* The history h of a run at p with n next.
Fits(h, p, n) ==
    /\ WellFormed(h)
    /\ p \notin Leaving => ~PendingToolUses(h)
    /\ p = "tools" => PendingToolUses(h)
    /\ p = "close" /\ n \in {"loop", "continue"} => ~PendingToolUses(h)
    /\ p = "close" /\ n = "loop" => Awaits(h)
    /\ p \in {"spawned", "setup", "loop", "request", "mentor"} => Awaits(h)

WorkFits == \A a \in Agents : pc[a] \in Working => Fits(conv[mine[a]], pc[a], next[a])

HeldFits ==
    loaded # NoAgent =>
        /\ WellFormed(conv[loaded])
        /\ \/ ~PendingToolUses(conv[loaded])
           \/ \E a \in Agents : mine[a] = loaded /\ pc[a] \in Leaving

ValidInv == TypeInv /\ Registered /\ Alone /\ WorkFits /\ HeldFits

\* What the operations on a history make of the rules.
LEMMA EmptyFits == WellFormed(<< >>) /\ ~PendingToolUses(<< >>)
<1>1. Len(<< >>) = 0
  BY EmptySeq
<1> QED
  BY <1>1 DEF WellFormed, Alternates, CallsAnswered, ResultsAnswer, PendingToolUses

LEMMA AppendFits ==
    ASSUME NEW h \in History, NEW m \in Message, WellFormed(h),
           h # << >> => IsUser(LastMsg(h)) # IsUser(m),
           PendingToolUses(h) <=> m.kind = "results"
    PROVE  WellFormed(Append(h, m)) /\ LastMsg(Append(h, m)) = m
<1> DEFINE g == Append(h, m)
           n == Len(h)
<1>1. /\ n \in Nat /\ Len(g) = n + 1
      /\ \A i \in 1 .. n : g[i] = h[i]
      /\ g[n + 1] = m
  BY AppendProperties, LenProperties DEF History
<1>2. n = 0 <=> h = << >>
  BY EmptySeq DEF History
<1> HIDE DEF g, n
<1>3. n # 0 => LastMsg(h) = h[n]
  BY DEF LastMsg, n
<1>4. Alternates(g)
  BY <1>1, <1>2, <1>3 DEF Alternates, WellFormed, n
<1>5. CallsAnswered(g)
  BY <1>1, <1>2, <1>3 DEF CallsAnswered, WellFormed, PendingToolUses, n
<1>6. ResultsAnswer(g)
  BY <1>1, <1>2, <1>3 DEF ResultsAnswer, WellFormed, PendingToolUses, n
<1> QED
  BY <1>1, <1>4, <1>5, <1>6 DEF WellFormed, LastMsg, g

LEMMA PushUserTextFits ==
    ASSUME NEW h \in History, NEW x \in Agents \cup {NOTE, CONTINUE},
           WellFormed(h), ~PendingToolUses(h)
    PROVE  LET g == PushUserText(h, x)
           IN  WellFormed(g) /\ ~PendingToolUses(g) /\ Awaits(g)
<1>1. CASE h # << >> /\ IsUser(LastMsg(h))
  <2> DEFINE n == Len(h)
             g == [h EXCEPT ![n].texts = @ \cup {x}]
  <2>1. n \in 1 .. n /\ n \in Nat
    BY <1>1, EmptySeq DEF History
  <2>2. h[n] \in Message
    BY <2>1, ElementOfSeq DEF History
  <2>3. PushUserText(h, x) = g
    BY <1>1 DEF PushUserText
  <2>4. g \in Seq(Message) /\ Len(g) = n /\ g # << >>
    <3> DEFINE m == [h[n] EXCEPT !.texts = @ \cup {x}]
    <3>1. m \in Message
      BY <2>2 DEF Message
    <3>2. [h EXCEPT ![n] = m] \in Seq(Message) /\ Len([h EXCEPT ![n] = m]) = n
      BY <2>1, <3>1, ExceptSeq DEF History
    <3>3. g = [h EXCEPT ![n] = m]
      OBVIOUS
    <3>4. g # << >>
      BY <2>3, PushUserTextType
    <3> QED
      BY <3>2, <3>3, <3>4
  <2>5. \A i \in 1 .. n : g[i].kind = h[i].kind
    BY <2>1, <2>2 DEF History, Message
  <2> HIDE DEF g, n
  <2>6. \A i \in 1 .. n : IsUser(g[i]) = IsUser(h[i])
    BY <2>5 DEF IsUser
  <2>7. Alternates(g) /\ CallsAnswered(g) /\ ResultsAnswer(g)
    BY <2>1, <2>4, <2>5, <2>6
    DEF WellFormed, Alternates, CallsAnswered, ResultsAnswer, n
  <2>8. g[n].kind = h[n].kind /\ IsUser(g[n])
    BY <1>1, <2>1, <2>5, <2>6 DEF LastMsg, n
  <2> QED
    BY <2>3, <2>4, <2>7, <2>8 DEF WellFormed, PendingToolUses, Awaits, LastMsg, IsUser
<1>2. CASE ~(h # << >> /\ IsUser(LastMsg(h)))
  <2> DEFINE m == UserMsg(x)
  <2>1. m \in Message /\ m.kind = "user" /\ IsUser(m)
    BY DEF UserMsg, Message, Kinds, IsUser
  <2>2. PushUserText(h, x) = Append(h, m)
    BY <1>2 DEF PushUserText
  <2>3. WellFormed(Append(h, m)) /\ LastMsg(Append(h, m)) = m
    BY <1>2, <2>1, AppendFits DEF IsUser
  <2>4. Append(h, m) # << >>
    BY <2>1, AppendedType
  <2> QED
    BY <2>1, <2>2, <2>3, <2>4 DEF PendingToolUses, Awaits
<1> QED
  BY <1>1, <1>2

LEMMA PushAssistantFits ==
    ASSUME NEW h \in History, NEW c \in BOOLEAN, WellFormed(h), Awaits(h)
    PROVE  LET g == PushAssistant(h, c) IN WellFormed(g) /\ (PendingToolUses(g) <=> c)
<1> DEFINE m == AssistantMsg(c)
<1>1. m \in Message /\ ~IsUser(m) /\ m.kind # "results" /\ (m.kind = "tooluse" <=> c)
  BY DEF AssistantMsg, Message, Kinds, IsUser
<1>2. ~PendingToolUses(h)
  BY DEF PendingToolUses, Awaits, IsUser
<1>3. WellFormed(Append(h, m)) /\ LastMsg(Append(h, m)) = m
  BY <1>1, <1>2, AppendFits DEF Awaits
<1>4. Append(h, m) # << >>
  BY <1>1, AppendedType
<1> QED
  BY <1>1, <1>3, <1>4 DEF PushAssistant, PendingToolUses

LEMMA PushToolResultsFits ==
    ASSUME NEW h \in History, WellFormed(h), PendingToolUses(h)
    PROVE  LET g == PushToolResults(h)
           IN  WellFormed(g) /\ ~PendingToolUses(g) /\ Awaits(g)
<1> DEFINE m == ResultsMsg
<1>1. m \in Message /\ m.kind = "results" /\ IsUser(m)
  BY DEF ResultsMsg, Message, Kinds, IsUser
<1>2. ~IsUser(LastMsg(h))
  BY DEF PendingToolUses, IsUser
<1>3. WellFormed(Append(h, m)) /\ LastMsg(Append(h, m)) = m
  BY <1>1, <1>2, AppendFits
<1>4. Append(h, m) # << >>
  BY <1>1, AppendedType
<1> QED
  BY <1>1, <1>3, <1>4 DEF PushToolResults, PendingToolUses, Awaits

LEMMA RepairFits ==
    ASSUME NEW h \in History, WellFormed(h)
    PROVE  WellFormed(Repair(h)) /\ ~PendingToolUses(Repair(h))
<1>1. CASE ~PendingToolUses(h)
  BY <1>1 DEF Repair
<1>2. CASE PendingToolUses(h)
  <2> DEFINE n == Len(h)
             g == SubSeq(h, 1, n - 1)
  <2>1. n \in Nat /\ n # 0
    BY <1>2, EmptySeq DEF PendingToolUses, History
  <2>2. /\ g \in Seq(Message) /\ Len(g) = n - 1
        /\ \A i \in 1 .. n - 1 : g[i] = h[i]
    <3>1. \A i \in 1 .. n - 1 : h[i] \in Message
      BY ElementOfSeq DEF History
    <3>2. n - 1 \in Int /\ 1 \in Int
      BY <2>1
    <3>3. /\ g \in Seq(Message)
          /\ Len(g) = IF 1 <= n - 1 THEN n - 1 - 1 + 1 ELSE 0
          /\ \A i \in 1 .. n - 1 - 1 + 1 : g[i] = h[1 + i - 1]
      BY <3>1, <3>2, SubSeqProperties
    <3> HIDE DEF g, n
    <3> QED
      BY <2>1, <3>3
  <2> HIDE DEF g, n
  <2>3. Alternates(g) /\ CallsAnswered(g) /\ ResultsAnswer(g)
    <3>1. Alternates(h) /\ CallsAnswered(h) /\ ResultsAnswer(h)
      BY DEF WellFormed
    <3>2. ASSUME NEW i \in 1 .. Len(g) - 1
          PROVE  i \in 1 .. Len(h) - 1 /\ g[i] = h[i] /\ g[i + 1] = h[i + 1]
      BY <2>1, <2>2 DEF n
    <3>3. ASSUME NEW i \in 1 .. Len(g)
          PROVE  i \in 1 .. Len(h) /\ g[i] = h[i] /\ (i > 1 => g[i - 1] = h[i - 1])
      BY <2>1, <2>2 DEF n
    <3>4. Alternates(g)
      BY <3>1, <3>2 DEF Alternates
    <3>5. CallsAnswered(g)
      BY <3>1, <3>2 DEF CallsAnswered
    <3>6. ResultsAnswer(g)
      BY <3>1, <3>3 DEF ResultsAnswer
    <3> QED
      BY <3>4, <3>5, <3>6
  <2>4. h[n].kind = "tooluse"
    BY <1>2 DEF PendingToolUses, LastMsg, n
  <2>5. n > 1 => IsUser(h[n - 1])
    BY <2>1, <2>4 DEF WellFormed, Alternates, IsUser, n
  <2>6. g # << >> => n > 1
    BY <2>1, <2>2, EmptySeq
  <2>7. ~PendingToolUses(g)
    BY <2>1, <2>2, <2>5, <2>6 DEF PendingToolUses, LastMsg, IsUser
  <2> QED
    BY <1>2, <2>3, <2>7 DEF Repair, WellFormed, g, n
<1> QED
  BY <1>1, <1>2

\* One run at a time: an agent.run is accepted when no other is under way.
LEMMA AloneNext ==
    ASSUME SerialClients, TypeInv, Registered, Alone, [Next]_vars
    PROVE  Registered' /\ Alone'
<1> USE DEF TypeInv, TypeOK, Registered, Alone, Lively, Goto, Stop, RequestPcs, TaskPcs,
        LoopPcs, EndedPcs, Pcs, store, memory, tasks, bounds
<1>1. CASE \E a \in Agents : Loads(a) \/ StartAgent(a)
  <2> PICK a \in Agents : Loads(a) \/ StartAgent(a)
    BY <1>1
  <2>1. /\ pc[a] \in {"load", "repair", "insert", "start"} /\ UNCHANGED registry
        /\ \E l \in {"repair", "insert", "start", "register", "rejected"} : Goto(a, l)
    BY DEF Loads, LoadHeld, LoadRows, LoadGone, LoadRepair, LoadInsert, StartAgent
  <2> QED
    BY <2>1
<1>2. CASE \E a \in Agents : Register(a)
  BY <1>2 DEF Register
<1>3. CASE \E a \in Agents : RecordUserTurn(a)
  <2> PICK a \in Agents : RecordUserTurn(a)
    BY <1>3
  <2>1. /\ pc[a] = "turn"
        /\ \/ Goto(a, "spawned") /\ UNCHANGED registry
           \/ Goto(a, "rejected") /\ registry' = registry \ {a}
    BY DEF RecordUserTurn
  <2> QED
    BY <2>1
<1>4. CASE \E a \in Agents : Release(a)
  BY <1>4 DEF Release
<1>5. CASE \E a \in Agents : Tell(a)
  BY <1>5 DEF Tell
<1>6. CASE \E a \in Agents :
              \/ TaskBegin(a) \/ SetupFails(a) \/ (\E t \in ToolSets : Setup(a, t))
              \/ Loops(a) \/ EndRun(a) \/ FinishAgent(a)
  <2> PICK a \in Agents :
              \/ TaskBegin(a) \/ SetupFails(a) \/ (\E t \in ToolSets : Setup(a, t))
              \/ Loops(a) \/ EndRun(a) \/ FinishAgent(a)
    BY <1>6
  <2>1. CASE Loops(a)
    <3>1. /\ pc[a] \in LoopPcs /\ UNCHANGED registry
          /\ \E l \in LoopPcs : Goto(a, l)
      BY <2>1 DEF Loops, LoopStops, BeginStep, SendRequest, MentorFails, MentorAnswers,
                  ToolsReturn, CloseStep, AskToContinue
    <3> QED
      BY <3>1
  <2>2. CASE ~Loops(a)
    <3>1. /\ pc[a] \in {"spawned", "setup", "end", "finish"} /\ UNCHANGED registry
          /\ \E l \in {"setup", "loop", "end", "finish", "release"} : Goto(a, l)
      BY <2>2 DEF TaskBegin, SetupFails, Setup, EndRun, FinishAgent
    <3> QED
      BY <3>1
  <2> QED
    BY <2>1, <2>2
<1>7. CASE \E a \in Agents : Request(a)
  BY <1>7 DEF Request, Busy, RequestOpen
<1>8. CASE \/ \E a \in Agents : Stall(a) \/ Cancel(a)
           \/ \E archived \in BOOLEAN : ArchiveRequest(archived)
           \/ DeleteRequest \/ BeginShutdown
  BY <1>8 DEF Stall, Cancel, ArchiveRequest, DeleteRequest, BeginShutdown
<1>9. CASE Administers
  BY <1>9 DEF Administers, ArchiveCommit, ArchiveForget, DeleteCommit
<1>10. CASE FinishShutdown \/ Crash
  <2>1. \A a \in Agents : pc'[a] = IF pc[a] \in {"idle"} \cup EndedPcs THEN pc[a] ELSE "gone"
    BY <1>10 DEF FinishShutdown, Crash, LoseMemory
  <2> QED
    BY <2>1
<1>11. CASE Restarts
  BY <1>11 DEF Restarts, Start, Recover, Serve
<1>12. CASE UNCHANGED vars \/ Quiescent
  BY <1>12 DEF vars, Quiescent
<1> QED
  BY <1>1, <1>2, <1>3, <1>4, <1>5, <1>6, <1>7, <1>8, <1>9, <1>10, <1>11, <1>12
  DEF Next, Begins, Runs, Asks

\* A step of the one run that works on a history, from place pc[a] to l.
LEMMA WorkStep ==
    ASSUME ValidInv, NEW a \in Agents, pc[a] \in Working,
           NEW g \in History, NEW l \in Pcs, Goto(a, l),
           conv' = [conv EXCEPT ![mine[a]] = g], UNCHANGED <<loaded, mine>>,
           WellFormed(g), ~PendingToolUses(g) \/ l \in Leaving,
           l \in Working => Fits(g, l, next'[a])
    PROVE  WorkFits' /\ HeldFits'
<1> USE DEF ValidInv, TypeInv, TypeOK, Placed, Goto
<1>1. mine[a] \in Agents /\ mine'[a] = mine[a] /\ conv'[mine[a]] = g /\ pc'[a] = l
  BY DEF Working, TaskPcs
<1>2. \A b \in Agents : pc[b] \in Working => b = a
  BY DEF Alone, Lively, Working, RequestPcs
<1>3. WorkFits'
  <2> SUFFICES ASSUME NEW b \in Agents, pc'[b] \in Working
               PROVE  Fits(conv'[mine'[b]], pc'[b], next'[b])
    BY DEF WorkFits
  <2>1. b = a
    BY <1>2
  <2> QED
    BY <1>1, <2>1
<1>4. HeldFits'
  <2> SUFFICES ASSUME loaded # NoAgent
               PROVE  /\ WellFormed(conv'[loaded])
                      /\ \/ ~PendingToolUses(conv'[loaded])
                         \/ \E b \in Agents : mine'[b] = loaded /\ pc'[b] \in Leaving
    BY DEF HeldFits
  <2>1. CASE mine[a] = loaded
    BY <1>1, <2>1
  <2>2. CASE mine[a] # loaded
    <3>1. conv'[loaded] = conv[loaded]
      BY <2>2
    <3>2. \A b \in Agents : pc[b] \in Leaving => b = a
      BY <1>2 DEF Leaving, Working, TaskPcs, LoopPcs
    <3> QED
      BY <2>2, <3>1, <3>2 DEF HeldFits
  <2> QED
    BY <2>1, <2>2
<1> QED
  BY <1>3, <1>4

\* A step that leaves the histories and the runs that work on them alone.
LEMMA OtherStep ==
    ASSUME ValidInv, UNCHANGED conv, loaded' \in {loaded, NoAgent},
           \A b \in Agents : pc[b] \in Working \/ pc'[b] \in Working =>
               pc'[b] = pc[b] /\ mine'[b] = mine[b] /\ next'[b] = next[b]
    PROVE  WorkFits' /\ HeldFits'
<1>1. WorkFits'
  BY DEF ValidInv, WorkFits
<1>2. Leaving \subseteq Working
  BY DEF Leaving, Working, TaskPcs, LoopPcs
<1>3. HeldFits'
  BY <1>2 DEF ValidInv, HeldFits
<1> QED
  BY <1>1, <1>3

LEMMA LoadsFit ==
    ASSUME ValidInv, NEW a \in Agents, Loads(a)
    PROVE  WorkFits' /\ HeldFits'
<1> USE DEF ValidInv, TypeInv, TypeOK, Goto, Pcs, RequestPcs, EndedPcs, memory, bounds, store
<1>1. pc[a] \in {"load", "repair", "insert"}
  BY DEF Loads, LoadHeld, LoadRows, LoadGone, LoadRepair, LoadInsert
<1>2. \A b \in Agents : pc[b] \notin Working /\ pc[b] \notin Leaving
  BY <1>1 DEF Alone, Lively, Working, Leaving, TaskPcs, LoopPcs
<1>3. loaded # NoAgent => WellFormed(conv[loaded]) /\ ~PendingToolUses(conv[loaded])
  BY <1>2 DEF HeldFits
<1>4. \A h : WellFormed(h) /\ ~PendingToolUses(h) => Fits(h, "start", next[a])
  BY DEF Fits
<1>5. CASE LoadHeld(a)
  <2>1. /\ loaded # NoAgent /\ mine'[a] = loaded /\ UNCHANGED <<conv, loaded, next>>
        /\ pc' = [pc EXCEPT ![a] = "start"]
    BY <1>5 DEF LoadHeld
  <2>2. WorkFits'
    BY <1>2, <1>3, <1>4, <2>1 DEF WorkFits
  <2>3. HeldFits'
    BY <1>3, <2>1 DEF HeldFits
  <2> QED
    BY <2>2, <2>3
<1>6. CASE LoadRows(a)
  <2>1. /\ loaded = NoAgent /\ UNCHANGED loaded
        /\ \E l \in {"repair", "insert"} : Goto(a, l)
    BY <1>6 DEF LoadRows
  <2> QED
    BY <1>2, <2>1 DEF WorkFits, HeldFits, Working, TaskPcs, LoopPcs
<1>7. CASE LoadGone(a) \/ LoadRepair(a)
  <2>1. /\ UNCHANGED <<conv, loaded, mine, next>>
        /\ \E l \in {"insert", "rejected"} : Goto(a, l)
    BY <1>7 DEF LoadGone, LoadRepair
  <2>2. \A b \in Agents : pc'[b] \notin Working
    BY <1>2, <2>1 DEF Working, TaskPcs, LoopPcs
  <2> QED
    BY <1>2, <2>1, <2>2, OtherStep
<1>8. CASE LoadInsert(a) /\ Validate(conv[a])
  <2>1. WellFormed(conv[a]) /\ ~PendingToolUses(conv[a])
    BY <1>8 DEF Validate, WellFormed
  <2>2. /\ loaded' = IF loaded = NoAgent THEN a ELSE loaded
        /\ mine' = [mine EXCEPT ![a] = loaded'] /\ UNCHANGED <<conv, next>>
        /\ pc' = [pc EXCEPT ![a] = "start"]
    BY <1>8 DEF LoadInsert
  <2>3. WellFormed(conv[loaded']) /\ ~PendingToolUses(conv[loaded'])
    BY <1>3, <2>1, <2>2
  <2>4. WorkFits'
    BY <1>2, <1>4, <2>2, <2>3 DEF WorkFits
  <2>5. HeldFits'
    BY <2>2, <2>3 DEF HeldFits
  <2> QED
    BY <2>4, <2>5
<1>9. CASE LoadInsert(a) /\ ~Validate(conv[a])
  <2>1. UNCHANGED <<conv, loaded, mine, next>> /\ Goto(a, "rejected")
    BY <1>9 DEF LoadInsert
  <2>2. \A b \in Agents : pc'[b] \notin Working
    BY <1>2, <2>1 DEF Working, TaskPcs, LoopPcs
  <2> QED
    BY <1>2, <2>1, <2>2, OtherStep
<1> QED
  BY <1>5, <1>6, <1>7, <1>8, <1>9 DEF Loads

\* The steps that leave the history as it is.
LEMMA MovesFit ==
    ASSUME ValidInv, NEW a \in Agents,
           \/ StartAgent(a) \/ Register(a) \/ TaskBegin(a) \/ SetupFails(a)
           \/ LoopStops(a) \/ BeginStep(a) \/ SendRequest(a) \/ MentorFails(a)
           \/ CloseStep(a) \/ FinishAgent(a) \/ Release(a)
    PROVE  WorkFits' /\ HeldFits'
<1> DEFINE h == Conversing(a)
<1> USE DEF ValidInv, TypeInv, TypeOK, Placed, Goto, Stop, memory, store
<1>1. pc[a] \in Working
  BY DEF StartAgent, Register, TaskBegin, SetupFails, LoopStops, BeginStep, SendRequest,
         MentorFails, CloseStep, FinishAgent, Release, Working, TaskPcs, LoopPcs
<1>2. mine[a] \in Agents /\ h \in History
  BY <1>1 DEF Working, TaskPcs, Conversing
<1>3. Fits(h, pc[a], next[a])
  BY <1>1 DEF WorkFits, Conversing
<1>4. conv' = [conv EXCEPT ![mine[a]] = h] /\ UNCHANGED <<loaded, mine>>
  BY <1>2 DEF StartAgent, Register, TaskBegin, SetupFails, LoopStops, BeginStep,
       SendRequest, MentorFails, CloseStep, FinishAgent, Release, Conversing
<1> HIDE DEF h
<1>5. CASE CloseStep(a)
  <2>1. \/ next[a] \in {"loop", "continue"} /\ Goto(a, next[a]) /\ UNCHANGED next
        \/ Goto(a, "end")
    BY <1>5 DEF CloseStep
  <2>2. pc[a] = "close"
    BY <1>5 DEF CloseStep
  <2>3. CASE next[a] \in {"loop", "continue"} /\ Goto(a, next[a]) /\ UNCHANGED next
    <3>1. next[a] \in Pcs /\ Fits(h, next[a], next'[a]) /\ ~PendingToolUses(h)
      BY <1>3, <2>2, <2>3 DEF Fits, Leaving, Pcs, TaskPcs, LoopPcs
    <3> QED
      BY <1>1, <1>2, <1>3, <1>4, <2>3, <3>1, WorkStep DEF Fits
  <2>4. CASE Goto(a, "end")
    <3>1. "end" \in Pcs /\ "end" \in Leaving /\ Fits(h, "end", next'[a])
      BY <1>3 DEF Fits, Leaving, Pcs, TaskPcs, LoopPcs
    <3> QED
      BY <1>1, <1>2, <1>3, <1>4, <2>4, <3>1, WorkStep DEF Fits
  <2> QED
    BY <2>1, <2>3, <2>4
<1>6. CASE ~CloseStep(a)
  <2>1. \/ pc[a] \in {"start", "register"} /\ \E l \in {"register", "turn", "rejected"} : Goto(a, l)
        \/ /\ pc[a] \in {"spawned", "setup", "loop", "request", "mentor"}
           /\ \E l \in {"setup", "request", "mentor", "end"} : Goto(a, l)
        \/ pc[a] \in {"finish", "release"} /\ \E l \in {"release", "tell"} : Goto(a, l)
    BY <1>6 DEF StartAgent, Register, TaskBegin, SetupFails, LoopStops, BeginStep,
         SendRequest, MentorFails, FinishAgent, Release
  <2>2. PICK l \in {"register", "turn", "rejected", "setup", "request", "mentor", "end",
                    "release", "tell"} :
            /\ Goto(a, l)
            /\ l \in {"setup", "request", "mentor"} =>
                   pc[a] \in {"spawned", "setup", "loop", "request", "mentor"}
    BY <2>1
  <2>3. ~PendingToolUses(h) /\ WellFormed(h)
    BY <1>3, <2>1 DEF Fits, Leaving
  <2>4. l \in Pcs /\ Fits(h, l, next'[a])
    BY <1>3, <2>2, <2>3 DEF Fits, Pcs, RequestPcs, TaskPcs, LoopPcs, EndedPcs
  <2> QED
    BY <1>1, <1>2, <1>4, <2>2, <2>3, <2>4, WorkStep
<1> QED
  BY <1>5, <1>6

\* The steps that add to the history, and the one that repairs it.
LEMMA TurnsFit ==
    ASSUME \A r \in Replies : r.stop # "pause_turn",
           ValidInv, NEW a \in Agents,
           \/ RecordUserTurn(a) \/ (\E t \in ToolSets : Setup(a, t))
           \/ (\E r \in Replies : MentorAnswers(a, r)) \/ ToolsReturn(a)
           \/ AskToContinue(a) \/ EndRun(a)
    PROVE  WorkFits' /\ HeldFits'
<1> DEFINE h == Conversing(a)
<1> USE DEF ValidInv, TypeInv, TypeOK, Placed, Goto, Stop
<1>1. pc[a] \in Working
  BY DEF RecordUserTurn, Setup, MentorAnswers, ToolsReturn, AskToContinue, EndRun,
         Working, TaskPcs, LoopPcs
<1>2. mine[a] \in Agents /\ h \in History
  BY <1>1 DEF Working, TaskPcs, Conversing
<1>3. Fits(h, pc[a], next[a])
  BY <1>1 DEF WorkFits, Conversing
<1> USE DEF Leaving, SetConversing
<1>4. CASE RecordUserTurn(a)
  <2> DEFINE g == PushUserText(h, a)
  <2>1. WellFormed(g) /\ ~PendingToolUses(g) /\ Awaits(g) /\ g \in History
    BY <1>2, <1>3, <1>4, PushUserTextFits, PushUserTextType DEF RecordUserTurn, Fits
  <2>2. PICK l \in {"spawned", "rejected"} : Goto(a, l)
    BY <1>4 DEF RecordUserTurn
  <2>3. conv' = [conv EXCEPT ![mine[a]] = g] /\ UNCHANGED <<loaded, mine>>
    BY <1>4 DEF RecordUserTurn
  <2> HIDE DEF g, h
  <2>4. l \in Pcs /\ Fits(g, l, next'[a])
    BY <2>1, <2>2 DEF Fits, Pcs, TaskPcs, EndedPcs
  <2> QED
    BY <1>1, <2>1, <2>2, <2>3, <2>4, WorkStep
<1>5. CASE \E t \in ToolSets : Setup(a, t)
  <2> PICK tools \in ToolSets : Setup(a, tools)
    BY <1>5
  <2> DEFINE changed == prefix \notin {NoTools, tools}
             g == IF changed THEN PushUserText(h, NOTE) ELSE h
  <2>1. WellFormed(g) /\ ~PendingToolUses(g) /\ Awaits(g) /\ g \in History
    BY <1>2, <1>3, PushUserTextFits, PushUserTextType DEF Setup, Fits
  <2>2. PICK l \in {"loop", "end"} : Goto(a, l)
    BY DEF Setup
  <2>3. conv' = [conv EXCEPT ![mine[a]] = g] /\ UNCHANGED <<loaded, mine>>
    BY DEF Setup
  <2> HIDE DEF g, h
  <2>4. l \in Pcs /\ Fits(g, l, next'[a])
    BY <2>1, <2>2 DEF Fits, Pcs, TaskPcs, LoopPcs
  <2> QED
    BY <1>1, <2>1, <2>2, <2>3, <2>4, WorkStep
<1>6. CASE \E r \in Replies : MentorAnswers(a, r)
  <2> PICK r \in Replies : MentorAnswers(a, r)
    BY <1>6
  <2> DEFINE g == PushAssistant(h, r.calls)
  <2>1. /\ r.stop # "pause_turn" /\ r.calls \in BOOLEAN
        /\ r.stop = "tool_use" => r.calls
    BY RepliesAssumption DEF Reply
  <2>2. g \in History /\ WellFormed(g) /\ (PendingToolUses(g) <=> r.calls)
    BY <1>2, <1>3, <2>1, PushAssistantFits, PushAssistantType DEF MentorAnswers, Fits
  <2>3. conv' = [conv EXCEPT ![mine[a]] = g] /\ UNCHANGED <<loaded, mine>>
    BY DEF MentorAnswers
  <2>4. \/ RunsTools(r) /\ Goto(a, "tools")
        \/ /\ ~RunsTools(r) /\ Goto(a, "close")
           /\ next'[a] = AfterReply(a, r)
        \/ Goto(a, "end")
    BY DEF MentorAnswers
  <2>5. /\ RunsTools(r) => r.calls
        /\ AfterReply(a, r) # "loop"
        /\ AfterReply(a, r) = "continue" /\ ~RunsTools(r) => ~r.calls
    BY <2>1 DEF RunsTools, AfterReply
  <2> HIDE DEF g, h
  <2>6. PICK l \in {"tools", "close", "end"} : Goto(a, l) /\ Fits(g, l, next'[a])
    BY <2>2, <2>4, <2>5 DEF Fits
  <2>7. l \in Pcs
    BY DEF Pcs, TaskPcs, LoopPcs
  <2> QED
    BY <1>1, <2>2, <2>3, <2>6, <2>7, WorkStep
<1>7. CASE ToolsReturn(a)
  <2> DEFINE g == PushToolResults(h)
  <2>1. WellFormed(g) /\ ~PendingToolUses(g) /\ Awaits(g) /\ g \in History
    BY <1>2, <1>3, <1>7, PushToolResultsFits, PushToolResultsType DEF ToolsReturn, Fits
  <2>2. PICK l \in {"close", "end"} : Goto(a, l)
    BY <1>7 DEF ToolsReturn
  <2>3. conv' = [conv EXCEPT ![mine[a]] = g] /\ UNCHANGED <<loaded, mine>>
    BY <1>7 DEF ToolsReturn
  <2> HIDE DEF g, h
  <2>4. l \in Pcs /\ Fits(g, l, next'[a])
    BY <2>1, <2>2 DEF Fits, Pcs, TaskPcs, LoopPcs
  <2> QED
    BY <1>1, <2>1, <2>2, <2>3, <2>4, WorkStep
<1>8. CASE AskToContinue(a)
  <2> DEFINE g == PushUserText(h, CONTINUE)
  <2>1. WellFormed(g) /\ ~PendingToolUses(g) /\ Awaits(g) /\ g \in History
    BY <1>2, <1>3, <1>8, PushUserTextFits, PushUserTextType DEF AskToContinue, Fits
  <2>2. PICK l \in {"loop", "end"} : Goto(a, l)
    BY <1>8 DEF AskToContinue
  <2>3. conv' = [conv EXCEPT ![mine[a]] = g] /\ UNCHANGED <<loaded, mine>>
    BY <1>8 DEF AskToContinue
  <2> HIDE DEF g, h
  <2>4. l \in Pcs /\ Fits(g, l, next'[a])
    BY <2>1, <2>2 DEF Fits, Pcs, TaskPcs, LoopPcs
  <2> QED
    BY <1>1, <2>1, <2>2, <2>3, <2>4, WorkStep
<1>9. CASE EndRun(a)
  <2> DEFINE g == Repair(h)
  <2>1. WellFormed(g) /\ ~PendingToolUses(g) /\ g \in History
    BY <1>2, <1>3, RepairFits, RepairType DEF Fits
  <2>2. Goto(a, "finish") /\ conv' = [conv EXCEPT ![mine[a]] = g] /\ UNCHANGED <<loaded, mine>>
    BY <1>9 DEF EndRun
  <2> HIDE DEF g, h
  <2>3. "finish" \in Pcs /\ Fits(g, "finish", next'[a])
    BY <2>1 DEF Fits, Pcs, TaskPcs
  <2> QED
    BY <1>1, <2>1, <2>2, <2>3, WorkStep
<1> QED
  BY <1>4, <1>5, <1>6, <1>7, <1>8, <1>9

LEMMA OthersFit ==
    ASSUME ValidInv, [Next]_vars,
           \A a \in Agents :
               /\ ~Loads(a) /\ ~StartAgent(a) /\ ~Register(a) /\ ~RecordUserTurn(a)
               /\ ~(Runs(a) /\ ~Tell(a))
    PROVE  WorkFits' /\ HeldFits'
<1> USE DEF ValidInv, TypeInv, TypeOK, Goto, memory, tasks, store, bounds
<1>1. CASE FinishShutdown \/ Crash
  <2>1. LoseMemory
    BY <1>1 DEF FinishShutdown, Crash
  <2>2. loaded' = NoAgent /\ \A a \in Agents : pc'[a] \in {"idle"} \cup EndedPcs
    BY <2>1 DEF LoseMemory, EndedPcs
  <2> QED
    BY <2>2 DEF WorkFits, HeldFits, Working, TaskPcs, LoopPcs, EndedPcs
<1>2. CASE \E a \in Agents : Tell(a)
  <2> PICK a \in Agents : Tell(a)
    BY <1>2
  <2>1. pc[a] \notin Working /\ "done" \notin Working
    BY DEF Tell, Working, TaskPcs, LoopPcs
  <2>2. UNCHANGED <<conv, loaded>> /\ pc' = [pc EXCEPT ![a] = "done"]
    BY DEF Tell
  <2>3. \A b \in Agents \ {a} : mine'[b] = mine[b] /\ next'[b] = next[b]
    BY DEF Tell
  <2> QED
    BY <2>1, <2>2, <2>3, OtherStep
<1>3. CASE \E a \in Agents : Request(a)
  BY <1>3, OtherStep DEF Request, Working, TaskPcs, LoopPcs
<1>4. CASE \/ \E a \in Agents : Stall(a) \/ Cancel(a)
           \/ \E archived \in BOOLEAN : ArchiveRequest(archived)
           \/ DeleteRequest \/ BeginShutdown
  BY <1>4, OtherStep DEF Stall, Cancel, ArchiveRequest, DeleteRequest, BeginShutdown
<1>5. CASE Administers
  BY <1>5, OtherStep DEF Administers, ArchiveCommit, ArchiveForget, DeleteCommit
<1>6. CASE Restarts
  BY <1>6, OtherStep DEF Restarts, Start, Recover, Serve
<1>7. CASE UNCHANGED vars \/ Quiescent
  BY <1>7, OtherStep DEF vars, Quiescent
<1> QED
  BY <1>1, <1>2, <1>3, <1>4, <1>5, <1>6, <1>7 DEF Next, Begins, Asks

LEMMA InitValidInv == Init => ValidInv
<1> SUFFICES ASSUME Init PROVE ValidInv
  OBVIOUS
<1>1. Registered /\ Alone /\ WorkFits /\ HeldFits
  BY DEF Init, Registered, Alone, WorkFits, HeldFits, Lively, Working, RequestPcs,
         TaskPcs, LoopPcs
<1> QED
  BY <1>1, InitTypeInv DEF ValidInv

LEMMA NextValidInv ==
    ASSUME SerialClients, \A r \in Replies : r.stop # "pause_turn", ValidInv, [Next]_vars
    PROVE  ValidInv'
<1>1. TypeInv' /\ Registered' /\ Alone'
  BY NextTypeInv, AloneNext DEF ValidInv
<1>2. WorkFits' /\ HeldFits'
  <2>1. CASE \E a \in Agents : Loads(a)
    BY <2>1, LoadsFit
  <2>2. CASE \E a \in Agents :
               \/ StartAgent(a) \/ Register(a) \/ TaskBegin(a) \/ SetupFails(a)
               \/ LoopStops(a) \/ BeginStep(a) \/ SendRequest(a) \/ MentorFails(a)
               \/ CloseStep(a) \/ FinishAgent(a) \/ Release(a)
    BY <2>2, MovesFit
  <2>3. CASE \E a \in Agents :
               \/ RecordUserTurn(a) \/ (\E t \in ToolSets : Setup(a, t))
               \/ (\E r \in Replies : MentorAnswers(a, r)) \/ ToolsReturn(a)
               \/ AskToContinue(a) \/ EndRun(a)
    BY <2>3, TurnsFit
  <2> QED
    BY <2>1, <2>2, <2>3, OthersFit DEF Runs, Loops
<1> QED
  BY <1>1, <1>2 DEF ValidInv

\* Every request that goes to the mentor is a history its API accepts, that
\* waits for an answer, whatever cancellations, refused writes, crashes,
\* reloads and changed tool sets came before, if clients send one request at a
\* time and the mentor has no server-side tools.
THEOREM RequestsAreValid ==
    ASSUME SerialClients, \A r \in Replies : r.stop # "pause_turn"
    PROVE  Spec => []RequestsValid
<1>1. Init => ValidInv
  BY InitValidInv
<1>2. ValidInv /\ [Next]_vars => ValidInv'
  BY NextValidInv
<1>3. ValidInv => RequestsValid
  BY DEF ValidInv, WorkFits, Fits, Leaving, RequestsValid, Conversing, Validate,
         WellFormed, Awaits, Working, TaskPcs, LoopPcs
<1> QED
  BY <1>1, <1>2, <1>3, PTL DEF Spec

-----------------------------------------------------------------------------
(* What the table does with the rows of a whole history: row i is message  *)
(* i (Numbered).                                                           *)

LEMMA NumberedRows ==
    ASSUME NEW h \in History
    PROVE  /\ Numbered(h) \in Table /\ Len(Numbered(h)) = Len(h) /\ Len(h) \in Nat
           /\ \A i \in 1 .. Len(h) : Numbered(h)[i] = [seq |-> i, msg |-> h[i]]
           /\ \A i \in 1 .. Len(h) : Numbered(h)[i].seq = i
           /\ Stored(Numbered(h)) = h
<1>1. h \in Seq(Message) /\ Len(h) \in Nat /\ \A i \in 1 .. Len(h) : h[i] \in Message
  BY LenProperties, ElementOfSeq DEF History
<1>2. \A i \in 1 .. Len(h) : [seq |-> i, msg |-> h[i]] \in Row
  BY <1>1 DEF Row
<1>3. /\ Numbered(h) \in Seq(Row) /\ Len(Numbered(h)) = Len(h)
      /\ \A i \in 1 .. Len(h) : Numbered(h)[i] = [seq |-> i, msg |-> h[i]]
  BY <1>1, <1>2 DEF Numbered
<1>4. \A i \in 1 .. Len(h) : Stored(Numbered(h))[i] = h[i]
  <2>1. \A i \in 1 .. Len(h) : Stored(Numbered(h))[i] = Numbered(h)[i].msg
    BY <1>3 DEF Stored
  <2>2. ASSUME NEW i \in 1 .. Len(h) PROVE Numbered(h)[i].msg = h[i]
    <3>1. Numbered(h)[i] = [seq |-> i, msg |-> h[i]]
      BY <1>3
    <3> QED
      BY <3>1
  <2> QED
    BY <2>1, <2>2
<1>5. Stored(Numbered(h)) \in History /\ Len(Stored(Numbered(h))) = Len(h)
  BY <1>3, StoredType DEF Table
<1>6. Stored(Numbered(h)) = h
  BY <1>1, <1>4, <1>5, SeqEqual DEF History
<1>7. ASSUME NEW i \in 1 .. Len(h) PROVE Numbered(h)[i].seq = i
  <2>1. Numbered(h)[i] = [seq |-> i, msg |-> h[i]]
    BY <1>3
  <2> QED
    BY <2>1
<1> QED
  BY <1>1, <1>3, <1>6, <1>7 DEF Table

LEMMA NumberedBelow ==
    ASSUME NEW h \in History, NEW n \in 1 .. Len(h) + 1
    PROVE  RowsBelow(Numbered(h), n) = n - 1
<1>1. /\ Len(Numbered(h)) = Len(h) /\ Len(h) \in Nat
      /\ \A i \in 1 .. Len(h) : Numbered(h)[i].seq = i
  BY NumberedRows
<1>2. {i \in 1 .. Len(h) : Numbered(h)[i].seq < n} = 1 .. n - 1
  BY <1>1
<1>3. Cardinality(1 .. n - 1) = n - 1
  <2>1. n - 1 \in Nat
    BY <1>1
  <2> QED
    BY <2>1, FirstNumbers, Zenon
<1> QED
  BY <1>1, <1>2, <1>3 DEF RowsBelow

\* The first k messages of a history.
LEMMA NumberedPrefix ==
    ASSUME NEW h \in History, NEW k \in 0 .. Len(h)
    PROVE  /\ SubSeq(Numbered(h), 1, k) \in Seq(Row) /\ Len(SubSeq(Numbered(h), 1, k)) = k
           /\ \A i \in 1 .. k : SubSeq(Numbered(h), 1, k)[i] = [seq |-> i, msg |-> h[i]]
<1>1. /\ Numbered(h) \in Seq(Row) /\ Len(Numbered(h)) = Len(h) /\ Len(h) \in Nat
      /\ \A i \in 1 .. Len(h) : Numbered(h)[i] = [seq |-> i, msg |-> h[i]]
  BY NumberedRows DEF Table
<1>2. \A i \in 1 .. k : Numbered(h)[i] \in Row
  BY <1>1, ElementOfSeq
<1>3. k \in Int /\ 1 \in Int
  BY <1>1
<1>4. /\ SubSeq(Numbered(h), 1, k) \in Seq(Row)
      /\ Len(SubSeq(Numbered(h), 1, k)) = IF 1 <= k THEN k - 1 + 1 ELSE 0
      /\ \A i \in 1 .. k - 1 + 1 : SubSeq(Numbered(h), 1, k)[i] = Numbered(h)[1 + i - 1]
  BY <1>2, <1>3, SubSeqProperties
<1>5. k \in Nat /\ k - 1 + 1 = k /\ \A i \in 1 .. k : 1 + i - 1 = i /\ i \in 1 .. Len(h)
  BY <1>1
<1>6. Len(SubSeq(Numbered(h), 1, k)) = k
  BY <1>4, <1>5
<1>7. \A i \in 1 .. k : SubSeq(Numbered(h), 1, k)[i] = [seq |-> i, msg |-> h[i]]
  BY <1>1, <1>4, <1>5
<1> QED
  BY <1>4, <1>6, <1>7

\* The row of the message behind the first k, or of the last one.
LEMMA NumberedPut ==
    ASSUME NEW h \in History, NEW g \in History, g # << >>,
           Len(h) \in {Len(g) - 1, Len(g)},
           \A i \in 1 .. Len(g) - 1 : g[i] = h[i]
    PROVE  PutLast(Numbered(h), g) = Numbered(g)
<1> DEFINE n == Len(g)
           R == Numbered(h)
           P == SubSeq(R, 1, n - 1)
           row == [seq |-> n, msg |-> g[n]]
           rest == IF n - 1 < Len(R) /\ R[n - 1 + 1].seq = n THEN n - 1 + 2 ELSE n - 1 + 1
<1>1. n \in Nat \ {0} /\ Len(h) \in Nat /\ g \in Seq(Message)
  BY EmptySeq, LenProperties DEF History
<1>2. RowsBelow(R, n) = n - 1
  <2>1. n \in 1 .. Len(h) + 1
    BY <1>1
  <2> QED
    BY <2>1, NumberedBelow
<1>3. /\ P \in Seq(Row) /\ Len(P) = n - 1
      /\ \A i \in 1 .. n - 1 : P[i] = [seq |-> i, msg |-> h[i]]
  <2>1. n - 1 \in 0 .. Len(h)
    BY <1>1
  <2> QED
    BY <2>1, NumberedPrefix
<1>4. SubSeq(R, rest, Len(R)) = << >>
  <2>1. Len(R) = Len(h) /\ \A i \in 1 .. Len(h) : R[i].seq = i
    BY NumberedRows
  <2>2. rest \in Int /\ Len(R) \in Int /\ Len(R) < rest
    BY <1>1, <2>1
  <2> QED
    BY <2>2, SubSeqEmpty
<1>5. row \in Row
  BY <1>1, ElementOfSeq DEF Row
<1>6. PutLast(R, g) = P \o <<row>> \o SubSeq(R, rest, Len(R))
  BY <1>2 DEF PutLast, PutMessage, LastMsg
<1>7. PutLast(R, g) = P \o <<row>>
  <2>1. P \o <<row>> \in Seq(Row)
    BY <1>3, <1>5, ConcatProperties
  <2>2. (P \o <<row>>) \o << >> = P \o <<row>>
    BY <2>1, ConcatEmptySeq
  <2> QED
    BY <1>4, <1>6, <2>2
<1>8. /\ P \o <<row>> \in Seq(Row) /\ Len(P \o <<row>>) = n
      /\ \A i \in 1 .. n : (P \o <<row>>)[i] = [seq |-> i, msg |-> g[i]]
  <2>1. <<row>> \in Seq(Row) /\ Len(<<row>>) = 1 /\ <<row>>[1] = row
    BY <1>5
  <2>2. /\ P \o <<row>> \in Seq(Row) /\ Len(P \o <<row>>) = Len(P) + Len(<<row>>)
        /\ \A i \in 1 .. Len(P) + Len(<<row>>) :
              (P \o <<row>>)[i] = IF i <= Len(P) THEN P[i] ELSE <<row>>[i - Len(P)]
    BY <1>3, <2>1, ConcatProperties
  <2> HIDE DEF P, row
  <2>3. \A i \in 1 .. n : (P \o <<row>>)[i] = IF i <= n - 1 THEN P[i] ELSE <<row>>[i - (n - 1)]
    BY <1>1, <1>3, <2>1, <2>2
  <2>4. ASSUME NEW i \in 1 .. n
        PROVE  (P \o <<row>>)[i] = [seq |-> i, msg |-> g[i]]
    <3>1. CASE i <= n - 1
      <4>1. i \in 1 .. n - 1
        BY <1>1, <3>1
      <4> QED
        BY <1>3, <2>3, <3>1, <4>1
    <3>2. CASE ~(i <= n - 1)
      <4>1. i = n /\ i - (n - 1) = 1
        BY <1>1, <3>2
      <4> QED
        BY <2>1, <2>3, <3>2, <4>1 DEF row
    <3> QED
      BY <3>1, <3>2
  <2> QED
    BY <1>1, <1>3, <2>1, <2>2, <2>4
<1>9. /\ Numbered(g) \in Seq(Row) /\ Len(Numbered(g)) = n
      /\ \A i \in 1 .. n : Numbered(g)[i] = [seq |-> i, msg |-> g[i]]
  BY NumberedRows DEF Table
<1> HIDE DEF n, P, row, R
<1>10. P \o <<row>> = Numbered(g)
  BY <1>1, <1>8, <1>9, SeqEqual
<1> QED
  BY <1>7, <1>10 DEF R

\* What the pushes store is what they make of the history.
LEMMA PushesStored ==
    ASSUME NEW h \in History
    PROVE  /\ \A x \in Agents \cup {NOTE, CONTINUE} :
                 PutLast(Numbered(h), PushUserText(h, x)) = Numbered(PushUserText(h, x))
           /\ \A c \in BOOLEAN : PutLast(Numbered(h), PushAssistant(h, c)) = Numbered(PushAssistant(h, c))
           /\ PutLast(Numbered(h), PushToolResults(h)) = Numbered(PushToolResults(h))
<1>0. Len(h) \in Nat /\ h \in Seq(Message)
  BY LenProperties DEF History
<1>1. ASSUME NEW m \in Message
      PROVE  PutLast(Numbered(h), Append(h, m)) = Numbered(Append(h, m))
  <2>1. Append(h, m) \in History /\ Append(h, m) # << >>
    BY AppendedType
  <2>2. Len(Append(h, m)) = Len(h) + 1 /\ \A i \in 1 .. Len(h) : Append(h, m)[i] = h[i]
    BY <1>0, AppendProperties
  <2>3. Len(h) = Len(Append(h, m)) - 1 /\ \A i \in 1 .. Len(Append(h, m)) - 1 : Append(h, m)[i] = h[i]
    BY <1>0, <2>2
  <2> QED
    BY <2>1, <2>3, NumberedPut
<1>2. ASSUME NEW x \in Agents \cup {NOTE, CONTINUE}
      PROVE  PutLast(Numbered(h), PushUserText(h, x)) = Numbered(PushUserText(h, x))
  <2>1. PushUserText(h, x) \in History /\ PushUserText(h, x) # << >>
    BY PushUserTextType
  <2>2. CASE h # << >> /\ IsUser(LastMsg(h))
    <3> DEFINE e == [h[Len(h)] EXCEPT !.texts = @ \cup {x}]
    <3>1. Len(h) \in 1 .. Len(h)
      BY <1>0, <2>2, EmptySeq
    <3>0. h[Len(h)] \in Message
      BY <1>0, <3>1, ElementOfSeq
    <3>2. e \in Message
      BY <3>0 DEF Message
    <3>3. PushUserText(h, x) = [h EXCEPT ![Len(h)] = e]
      BY <2>2 DEF PushUserText
    <3> HIDE DEF e
    <3>4. /\ Len(PushUserText(h, x)) = Len(h)
          /\ \A i \in 1 .. Len(h) : PushUserText(h, x)[i] = IF i = Len(h) THEN e ELSE h[i]
      BY <1>0, <3>1, <3>2, <3>3, ExceptSeq
    <3>5. \A i \in 1 .. Len(h) - 1 : PushUserText(h, x)[i] = h[i]
      BY <1>0, <3>4
    <3> QED
      BY <2>1, <3>4, <3>5, NumberedPut
  <2>3. CASE ~(h # << >> /\ IsUser(LastMsg(h)))
    BY <1>1, <2>3 DEF PushUserText, UserMsg, Message, Kinds
  <2> QED
    BY <2>2, <2>3
<1>3. ASSUME NEW c \in BOOLEAN
      PROVE  PutLast(Numbered(h), PushAssistant(h, c)) = Numbered(PushAssistant(h, c))
  BY <1>1 DEF PushAssistant, AssistantMsg, Message, Kinds
<1>4. PutLast(Numbered(h), PushToolResults(h)) = Numbered(PushToolResults(h))
  BY <1>1 DEF PushToolResults, ResultsMsg, Message, Kinds
<1> QED
  BY <1>2, <1>3, <1>4

\* The truncated rows are the repaired history.
LEMMA RepairStored ==
    ASSUME NEW h \in History
    PROVE  PendingToolUses(h) => TruncateMessages(Numbered(h), Len(Repair(h))) = Numbered(Repair(h))
<1> SUFFICES ASSUME PendingToolUses(h)
             PROVE  TruncateMessages(Numbered(h), Len(Repair(h))) = Numbered(Repair(h))
  OBVIOUS
<1> DEFINE g == Repair(h)
           n == Len(h) - 1
           P == SubSeq(Numbered(h), 1, n)
<1>1. n \in Nat /\ Len(h) \in Nat /\ h \in Seq(Message)
  BY EmptySeq, LenProperties DEF PendingToolUses, History
<1>2. g \in History /\ Len(g) = n /\ \A i \in 1 .. n : g[i] = h[i]
  <2>1. g = SubSeq(h, 1, n)
    BY DEF Repair
  <2>2. \A i \in 1 .. n : h[i] \in Message
    BY <1>1, ElementOfSeq
  <2>3. n \in Int /\ 1 \in Int
    BY <1>1
  <2>4. /\ SubSeq(h, 1, n) \in Seq(Message)
        /\ Len(SubSeq(h, 1, n)) = IF 1 <= n THEN n - 1 + 1 ELSE 0
        /\ \A i \in 1 .. n - 1 + 1 : SubSeq(h, 1, n)[i] = h[1 + i - 1]
    BY <2>2, <2>3, SubSeqProperties
  <2> HIDE DEF g, n
  <2> QED
    BY <1>1, <2>1, <2>4 DEF History
<1>3. RowsBelow(Numbered(h), n + 1) = n
  <2>1. n + 1 \in 1 .. Len(h) + 1
    BY <1>1
  <2>2. RowsBelow(Numbered(h), n + 1) = n + 1 - 1
    BY <2>1, NumberedBelow
  <2> QED
    BY <1>1, <2>2
<1>4. TruncateMessages(Numbered(h), Len(g)) = P
  BY <1>2, <1>3 DEF TruncateMessages
<1>5. P \in Seq(Row) /\ Len(P) = n /\ \A i \in 1 .. n : P[i] = [seq |-> i, msg |-> h[i]]
  <2>1. n \in 0 .. Len(h)
    BY <1>1
  <2> QED
    BY <2>1, NumberedPrefix
<1>6. /\ Numbered(g) \in Seq(Row) /\ Len(Numbered(g)) = n
      /\ \A i \in 1 .. n : Numbered(g)[i] = [seq |-> i, msg |-> g[i]]
  BY <1>2, NumberedRows DEF Table
<1> HIDE DEF g, n, P
<1>7. P = Numbered(g)
  BY <1>1, <1>2, <1>5, <1>6, SeqEqual
<1> QED
  BY <1>4, <1>7 DEF g

-----------------------------------------------------------------------------
(* RowsTell, for clients that send one request at a time and a mentor      *)
(* without server-side tools.                                              *)

\* Nothing runs while the session is archived or deleted, nor after.
Locked ==
    admin # "idle" \/ session \in {"deleted", "purged"} =>
        \A a \in Agents : pc[a] \notin Lively

Forgotten == admin = "delete" \/ session \in {"deleted", "purged"} => loaded = NoAgent

\* A run works on the copy the daemon holds.
Held == \A a \in Agents : pc[a] \in Working => mine[a] = loaded

\* The rows are a history, the one a request that loads it has read.
Reloads ==
    failures = 0 =>
        /\ rows = Numbered(Stored(rows))
        /\ WellFormed(Stored(rows))
        /\ \A a \in Agents :
              /\ pc[a] = "repair" =>
                    /\ loaded = NoAgent
                    /\ PendingToolUses(Stored(rows))
                    /\ conv[a] = Repair(Stored(rows))
              /\ pc[a] = "insert" => loaded = NoAgent /\ conv[a] = Stored(rows)

RowsInv == ValidInv /\ Locked /\ Forgotten /\ Held /\ StoreMirrorsMemory /\ Reloads

\* Where a run that is under way may stand.
LEMMA LivelyFacts ==
    /\ Working \subseteq Lively
    /\ RequestPcs \subseteq Lively
    /\ {"load", "repair", "insert"} \subseteq Lively \ Working
    /\ "idle" \notin Lively /\ "tell" \notin Lively /\ EndedPcs \cap Lively = {}
    /\ LoopPcs \cup {"spawned", "setup", "finish", "release"} \subseteq Working
  BY DEF Working, Lively, RequestPcs, TaskPcs, LoopPcs, EndedPcs

\* The step of a run: it does not leave the lively places and come back.
LEMMA RunsLock ==
    ASSUME RowsInv, NEW a \in Agents, Begins(a) \/ Runs(a)
    PROVE  /\ (Locked /\ Forgotten)'
           /\ ~(Loads(a)) => Held'
<1> USE DEF RowsInv, ValidInv, TypeInv, TypeOK, Goto, Stop, Locked, Forgotten, Held
<1>1. CASE Tell(a)
  <2>1. /\ pc' = [pc EXCEPT ![a] = "done"] /\ UNCHANGED <<session, admin, loaded>>
        /\ \A b \in Agents \ {a} : mine'[b] = mine[b]
    BY <1>1 DEF Tell, store
  <2>2. "done" \notin Lively /\ "done" \notin Working
    BY DEF Lively, Working, RequestPcs, TaskPcs, LoopPcs
  <2> QED
    BY <2>1, <2>2, <1>1 DEF Tell, Loads, LoadHeld, LoadRows, LoadGone, LoadRepair, LoadInsert
<1>2. CASE Loads(a)
  <2>1. pc[a] \in {"load", "repair", "insert"} /\ UNCHANGED <<session, admin>>
    BY <1>2 DEF Loads, LoadHeld, LoadRows, LoadGone, LoadRepair, LoadInsert, store
  <2>2. pc[a] \in Lively
    BY <2>1, LivelyFacts
  <2> QED
    BY <1>2, <2>1, <2>2
<1>3. CASE ~Tell(a) /\ ~Loads(a)
  <2>1. /\ pc[a] \in Working /\ UNCHANGED <<session, admin, loaded, mine>>
        /\ \A b \in Agents \ {a} : pc'[b] = pc[b]
    BY <1>3 DEF Begins, Runs, Loops, StartAgent, Register, RecordUserTurn, TaskBegin,
        SetupFails, Setup, LoopStops, BeginStep, SendRequest, MentorFails, MentorAnswers,
        ToolsReturn, CloseStep, AskToContinue, EndRun, FinishAgent, Release, Working,
        TaskPcs, LoopPcs, store, memory
  <2>2. pc[a] \in Lively
    BY <2>1, LivelyFacts
  <2> QED
    BY <2>1, <2>2
<1> QED
  BY <1>1, <1>2, <1>3

\* Everything else.
LEMMA OthersLock ==
    ASSUME SerialClients, RowsInv, [Next]_vars, ~\E a \in Agents : Begins(a) \/ Runs(a)
    PROVE  (Locked /\ Forgotten /\ Held)'
<1> USE DEF RowsInv, ValidInv, TypeInv, TypeOK, Locked, Forgotten, Held,
            store, memory, tasks, bounds
<1>1. CASE FinishShutdown \/ Crash
  <2>1. LoseMemory
    BY <1>1 DEF FinishShutdown, Crash
  <2>2. loaded' = NoAgent /\ admin' = "idle" /\ \A a \in Agents : pc'[a] \in {"idle"} \cup EndedPcs
    BY <2>1 DEF LoseMemory, EndedPcs
  <2>3. \A a \in Agents : pc'[a] \notin Lively /\ pc'[a] \notin Working
    BY <2>2, LivelyFacts
  <2> QED
    BY <2>2, <2>3
<1>2. CASE \E a \in Agents : Request(a)
  <2> PICK a \in Agents : Request(a)
    BY <1>2
  <2>1. /\ admin = "idle" /\ session \notin {"deleted", "purged"}
        /\ pc' = [pc EXCEPT ![a] = "load"] /\ UNCHANGED <<session, admin, loaded, mine>>
    BY DEF Request, RequestOpen, Goto
  <2>2. "load" \notin Working
    BY LivelyFacts
  <2> QED
    BY <2>1, <2>2
<1>3. CASE \E a \in Agents : Stall(a) \/ Cancel(a)
  BY <1>3 DEF Stall, Cancel
<1>4. CASE DeleteRequest \/ (\E archived \in BOOLEAN : ArchiveRequest(archived))
  <2>1. /\ registry = {} /\ \A a \in Agents : pc[a] \notin RequestPcs
        /\ UNCHANGED <<session, pc, mine>>
        /\ \/ loaded' = NoAgent
           \/ admin' # "delete" /\ UNCHANGED loaded
    BY <1>4 DEF DeleteRequest, ArchiveRequest, Busy, RequestOpen
  <2>2. \A a \in Agents : pc[a] \notin Lively
    BY <2>1 DEF Registered, Lively
  <2> QED
    BY <2>1, <2>2, LivelyFacts
<1>5. CASE Administers
  <2>1. /\ admin # "idle" /\ UNCHANGED pc
        /\ loaded' \in {loaded, NoAgent}
    BY <1>5 DEF Administers, ArchiveCommit, ArchiveForget, DeleteCommit
  <2>2. /\ admin' = "delete" \/ session' \in {"deleted", "purged"} =>
              admin = "delete" \/ session \in {"deleted", "purged"}
    BY <1>5 DEF Administers, ArchiveCommit, ArchiveForget, DeleteCommit
  <2> QED
    BY <2>1, <2>2, LivelyFacts
<1>6. CASE BeginShutdown \/ Restarts
  BY <1>6 DEF BeginShutdown, Restarts, Start, Recover, Serve
<1>7. CASE UNCHANGED vars \/ Quiescent
  BY <1>7 DEF vars, Quiescent
<1> QED
  BY <1>1, <1>2, <1>3, <1>4, <1>5, <1>6, <1>7 DEF Next, Asks

\* The rows of a held history can be loaded again.
LEMMA HeldReloads ==
    ASSUME TypeOK', HeldFits', StoreMirrorsMemory', loaded' # NoAgent,
           \A a \in Agents : pc'[a] \notin {"repair", "insert"}
    PROVE  Reloads'
<1> SUFFICES ASSUME failures' = 0 PROVE Reloads'
  BY DEF Reloads
<1>1. conv'[loaded'] \in History /\ rows' = Numbered(conv'[loaded']) /\ WellFormed(conv'[loaded'])
  BY DEF TypeOK, StoreMirrorsMemory, HeldFits
<1>2. Stored(rows') = conv'[loaded']
  BY <1>1, NumberedRows
<1> QED
  BY <1>1, <1>2 DEF Reloads

\* A step that leaves the rows and the histories alone.
LEMMA QuietRows ==
    ASSUME RowsInv, UNCHANGED <<rows, conv>>, loaded' \in {loaded, NoAgent},
           failures' = 0 => failures = 0,
           \A b \in Agents : pc'[b] \in {"repair", "insert"} => pc'[b] = pc[b]
    PROVE  (StoreMirrorsMemory /\ Reloads)'
  BY DEF RowsInv, StoreMirrorsMemory, Reloads

\* A step of the run that works on the held history: the rows follow it.
LEMMA WorkRows ==
    ASSUME RowsInv, TypeOK', HeldFits', NEW a \in Agents, pc[a] \in Working, pc[a] # "start",
           NEW g \in History, NEW l \in Pcs \ {"repair", "insert"}, Goto(a, l),
           conv' = [conv EXCEPT ![mine[a]] = g], UNCHANGED loaded,
           failures' = 0 => failures = 0,
           failures' = 0 /\ rows = Numbered(conv[mine[a]]) => rows' = Numbered(g)
    PROVE  (StoreMirrorsMemory /\ Reloads)'
<1>1. mine[a] \in Agents /\ mine[a] = loaded
  BY DEF RowsInv, ValidInv, TypeInv, Placed, Held, Working, TaskPcs
<1>2. loaded # NoAgent /\ conv'[loaded] = g
  BY <1>1, AgentsAssumption DEF RowsInv, ValidInv, TypeInv, TypeOK
<1>3. StoreMirrorsMemory'
  BY <1>1, <1>2 DEF StoreMirrorsMemory, RowsInv
<1>4. \A b \in Agents : pc'[b] \notin {"repair", "insert"}
  <2>1. \A b \in Agents : pc[b] \in {"repair", "insert"} => b = a
    BY LivelyFacts DEF RowsInv, ValidInv, Alone
  <2> QED
    BY <2>1, LivelyFacts DEF RowsInv, ValidInv, TypeInv, TypeOK, Goto
<1>5. Reloads'
  BY <1>2, <1>3, <1>4, HeldReloads
<1> QED
  BY <1>3, <1>5

\* A command that is not refused; nothing is purged under a run.
LEMMA NothingPurged ==
    ASSUME RowsInv, NEW a \in Agents, pc[a] \in Lively
    PROVE  session \notin {"deleted", "purged"} /\ (Refused => failures' # 0)
<1>1. session \notin {"deleted", "purged"}
  BY DEF RowsInv, Locked
<1>2. failures \in Nat
  BY BoundsAssumption DEF RowsInv, ValidInv, TypeInv, TypeOK
<1> QED
  BY <1>1, <1>2 DEF Refused

\* The steps that write a turn, and the one that drops it.
LEMMA TurnsRows ==
    ASSUME RowsInv, TypeOK', HeldFits', NEW a \in Agents,
           \/ RecordUserTurn(a) \/ (\E t \in ToolSets : Setup(a, t))
           \/ (\E r \in Replies : MentorAnswers(a, r)) \/ ToolsReturn(a)
           \/ AskToContinue(a) \/ EndRun(a)
    PROVE  (StoreMirrorsMemory /\ Reloads)'
<1> DEFINE h == Conversing(a)
           Writes(g) == failures' = 0 /\ rows = Numbered(h) => rows' = Numbered(g)
<1>0. pc[a] \in {"turn", "setup", "mentor", "tools", "continue", "end"}
  BY DEF RecordUserTurn, Setup, MentorAnswers, ToolsReturn, AskToContinue, EndRun
<1>1. pc[a] \in Working /\ pc[a] # "start" /\ pc[a] \in Lively
  BY <1>0 DEF Working, TaskPcs, LoopPcs, Lively, RequestPcs
<1>2. mine[a] \in Agents /\ h \in History
  BY <1>1 DEF Working, TaskPcs, Conversing, RowsInv, ValidInv, TypeInv, TypeOK, Placed
<1>3. Refused => failures' # 0
  BY <1>1, NothingPurged
<1>4. failures' = 0 => failures = 0
  BY <1>3 DEF RecordUserTurn, Setup, MentorAnswers, ToolsReturn, AskToContinue, EndRun, Committed
<1>5. PICK g \in History, l \in {"spawned", "rejected", "loop", "end", "close", "tools", "finish"} :
          /\ Goto(a, l)
          /\ conv' = [conv EXCEPT ![mine[a]] = g] /\ UNCHANGED loaded
          /\ Writes(g)
  <2>1. CASE RecordUserTurn(a)
    <3> DEFINE g == PushUserText(h, a)
    <3>1. g \in History /\ PutLast(Numbered(h), g) = Numbered(g)
      BY <1>2, PushUserTextType, PushesStored
    <3>2. conv' = [conv EXCEPT ![mine[a]] = g] /\ UNCHANGED loaded
      BY <2>1 DEF RecordUserTurn, SetConversing
    <3>3. \/ Goto(a, "spawned") /\ rows' = PutLast(rows, g)
          \/ Goto(a, "rejected") /\ Refused
      BY <2>1 DEF RecordUserTurn
    <3> HIDE DEF g, h
    <3>4. Writes(g)
      BY <1>3, <3>1, <3>3
    <3> QED
      BY <3>1, <3>2, <3>3, <3>4
  <2>2. CASE \E t \in ToolSets : Setup(a, t)
    <3> PICK tools \in ToolSets : Setup(a, tools)
      BY <2>2
    <3> DEFINE changed == prefix \notin {NoTools, tools}
               g == IF changed THEN PushUserText(h, NOTE) ELSE h
    <3>1. g \in History /\ (changed => PutLast(Numbered(h), g) = Numbered(g)) /\ (~changed => g = h)
      BY <1>2, PushUserTextType, PushesStored
    <3>2. conv' = [conv EXCEPT ![mine[a]] = g] /\ UNCHANGED loaded
      BY DEF Setup, SetConversing
    <3>3. \/ Goto(a, "loop") /\ UNCHANGED rows /\ prefix = tools
          \/ Goto(a, "loop") /\ rows' = IF changed THEN PutLast(rows, g) ELSE rows
          \/ Goto(a, "end") /\ Refused
      BY DEF Setup, Stop
    <3>4. prefix = tools => ~changed
      OBVIOUS
    <3> HIDE DEF g, h, changed
    <3>5. Writes(g)
      BY <1>3, <3>1, <3>3, <3>4
    <3> QED
      BY <3>1, <3>2, <3>3, <3>5
  <2>3. CASE \E r \in Replies : MentorAnswers(a, r)
    <3> PICK r \in Replies : MentorAnswers(a, r)
      BY <2>3
    <3> DEFINE g == PushAssistant(h, r.calls)
    <3>0. r.calls \in BOOLEAN
      BY RepliesAssumption DEF Reply
    <3>1. g \in History /\ PutLast(Numbered(h), g) = Numbered(g)
      BY <1>2, <3>0, PushAssistantType, PushesStored
    <3>2. conv' = [conv EXCEPT ![mine[a]] = g] /\ UNCHANGED loaded
      BY DEF MentorAnswers, SetConversing
    <3>3. \/ (Goto(a, "tools") \/ Goto(a, "close")) /\ rows' = PutLast(rows, g)
          \/ Goto(a, "end") /\ Refused
      BY DEF MentorAnswers, Stop
    <3> HIDE DEF g, h
    <3>4. Writes(g)
      BY <1>3, <3>1, <3>3
    <3> QED
      BY <3>1, <3>2, <3>3, <3>4
  <2>4. CASE ToolsReturn(a)
    <3> DEFINE g == PushToolResults(h)
    <3>1. g \in History /\ PutLast(Numbered(h), g) = Numbered(g)
      BY <1>2, PushToolResultsType, PushesStored
    <3>2. conv' = [conv EXCEPT ![mine[a]] = g] /\ UNCHANGED loaded
      BY <2>4 DEF ToolsReturn, SetConversing
    <3>3. \/ Goto(a, "close") /\ rows' = PutLast(rows, g)
          \/ Goto(a, "end") /\ Refused
      BY <2>4 DEF ToolsReturn, Stop
    <3> HIDE DEF g, h
    <3>4. Writes(g)
      BY <1>3, <3>1, <3>3
    <3> QED
      BY <3>1, <3>2, <3>3, <3>4
  <2>5. CASE AskToContinue(a)
    <3> DEFINE g == PushUserText(h, CONTINUE)
    <3>1. g \in History /\ PutLast(Numbered(h), g) = Numbered(g)
      BY <1>2, PushUserTextType, PushesStored
    <3>2. conv' = [conv EXCEPT ![mine[a]] = g] /\ UNCHANGED loaded
      BY <2>5 DEF AskToContinue, SetConversing
    <3>3. \/ Goto(a, "loop") /\ rows' = PutLast(rows, g)
          \/ Goto(a, "end") /\ Refused
      BY <2>5 DEF AskToContinue, Stop
    <3> HIDE DEF g, h
    <3>4. Writes(g)
      BY <1>3, <3>1, <3>3
    <3> QED
      BY <3>1, <3>2, <3>3, <3>4
  <2>6. CASE EndRun(a)
    <3> DEFINE g == Repair(h)
    <3>1. /\ g \in History
          /\ PendingToolUses(h) => TruncateMessages(Numbered(h), Len(g)) = Numbered(g)
          /\ ~PendingToolUses(h) => g = h
      BY <1>2, RepairType, RepairStored DEF Repair
    <3>2. conv' = [conv EXCEPT ![mine[a]] = g] /\ UNCHANGED loaded /\ Goto(a, "finish")
      BY <2>6 DEF EndRun, SetConversing
    <3>3. \/ ~PendingToolUses(h) /\ UNCHANGED rows
          \/ PendingToolUses(h) /\ rows' = TruncateMessages(rows, Len(g))
          \/ Refused
      BY <2>6 DEF EndRun
    <3> HIDE DEF g, h
    <3>4. Writes(g)
      BY <1>3, <3>1, <3>3
    <3> QED
      BY <3>1, <3>2, <3>4
  <2> QED
    BY <2>1, <2>2, <2>3, <2>4, <2>5, <2>6
<1>6. l \in Pcs \ {"repair", "insert"}
  BY DEF Pcs, TaskPcs, LoopPcs, EndedPcs, RequestPcs
<1> QED
  BY <1>1, <1>4, <1>5, <1>6, WorkRows DEF Conversing

\* A request that loads the conversation.
LEMMA LoadsRows ==
    ASSUME RowsInv, NEW a \in Agents, Loads(a)
    PROVE  (StoreMirrorsMemory /\ Reloads)' /\ Held'
<1> USE DEF RowsInv, ValidInv, TypeInv, TypeOK, Goto, memory, bounds, store
<1> DEFINE h == Stored(rows)
<1>0. /\ pc[a] \in {"load", "repair", "insert"} /\ pc[a] \in Lively
      /\ \A b \in Agents : pc[b] \notin Working /\ (pc[b] \in Lively => b = a)
  <2>1. pc[a] \in {"load", "repair", "insert"}
    BY DEF Loads, LoadHeld, LoadRows, LoadGone, LoadRepair, LoadInsert
  <2> QED
    BY <2>1, LivelyFacts DEF Alone
<1>1. h \in History
  BY StoredType
<1>2. \A b \in Agents : b # a => pc[b] \notin {"repair", "insert"}
  BY <1>0, LivelyFacts
<1>3. CASE LoadHeld(a)
  <2>1. /\ mine' = [mine EXCEPT ![a] = loaded] /\ pc' = [pc EXCEPT ![a] = "start"]
        /\ UNCHANGED <<rows, conv, loaded, failures>>
    BY <1>3 DEF LoadHeld
  <2>2. Held'
    BY <1>0, <2>1 DEF Held
  <2> QED
    BY <2>1, <2>2, QuietRows
<1>4. CASE LoadGone(a)
  <2>1. /\ pc' = [pc EXCEPT ![a] = "rejected"] /\ UNCHANGED <<rows, conv, loaded, mine, failures>>
    BY <1>4 DEF LoadGone
  <2>2. Held'
    BY <1>0, <2>1, LivelyFacts DEF Held, EndedPcs
  <2> QED
    BY <2>1, <2>2, QuietRows
<1>5. CASE LoadRows(a)
  <2>1. /\ loaded = NoAgent /\ conv' = [conv EXCEPT ![a] = Repair(h)]
        /\ pc' = [pc EXCEPT ![a] = IF PendingToolUses(h) THEN "repair" ELSE "insert"]
        /\ UNCHANGED <<rows, loaded, mine, failures>>
    BY <1>5 DEF LoadRows
  <2>2. Held'
    BY <1>0, <2>1, LivelyFacts DEF Held
  <2>3. StoreMirrorsMemory'
    BY <2>1 DEF StoreMirrorsMemory
  <2>4. ~PendingToolUses(h) => Repair(h) = h
    BY DEF Repair
  <2> HIDE DEF h
  <2>5. \A b \in Agents : /\ pc'[b] = "repair" => PendingToolUses(h) /\ conv'[b] = Repair(h)
                          /\ pc'[b] = "insert" => conv'[b] = h
    BY <1>2, <2>1, <2>4
  <2>6. Reloads'
    BY <2>1, <2>5 DEF Reloads, h
  <2> QED
    BY <2>2, <2>3, <2>6
<1>6. CASE LoadRepair(a)
  <2>1. /\ pc[a] = "repair" /\ UNCHANGED <<conv, loaded, mine>>
        /\ \/ UNCHANGED failures /\ pc' = [pc EXCEPT ![a] = "insert"]
                 /\ rows' = TruncateMessages(rows, Len(conv[a]))
           \/ Refused /\ pc' = [pc EXCEPT ![a] = "rejected"]
    BY <1>6 DEF LoadRepair, Committed
  <2>2. Held'
    BY <1>0, <2>1, LivelyFacts DEF Held, EndedPcs
  <2>3. (StoreMirrorsMemory /\ Reloads)'
    <3> SUFFICES ASSUME failures' = 0 PROVE (StoreMirrorsMemory /\ Reloads)'
      BY DEF StoreMirrorsMemory, Reloads
    <3>1. Refused => failures' # 0
      BY <1>0, NothingPurged
    <3>2. failures = 0 /\ pc' = [pc EXCEPT ![a] = "insert"] /\ rows' = TruncateMessages(rows, Len(conv[a]))
      BY <2>1, <3>1
    <3>3. /\ loaded = NoAgent /\ PendingToolUses(h) /\ conv[a] = Repair(h)
          /\ rows = Numbered(h) /\ WellFormed(h)
      BY <2>1, <3>2 DEF Reloads
    <3>4. rows' = Numbered(Repair(h)) /\ Repair(h) \in History
      BY <1>1, <3>2, <3>3, RepairStored, RepairType
    <3>5. Stored(rows') = Repair(h)
      BY <3>4, NumberedRows
    <3>6. WellFormed(Repair(h))
      BY <1>1, <3>3, RepairFits
    <3>7. StoreMirrorsMemory'
      BY <2>1, <3>3 DEF StoreMirrorsMemory
    <3>8. Reloads'
      BY <1>2, <2>1, <3>2, <3>3, <3>4, <3>5, <3>6 DEF Reloads
    <3> QED
      BY <3>7, <3>8
  <2> QED
    BY <2>2, <2>3
<1>7. CASE LoadInsert(a) /\ Validate(conv[a])
  <2>1. /\ pc[a] = "insert" /\ loaded' = IF loaded = NoAgent THEN a ELSE loaded
        /\ mine' = [mine EXCEPT ![a] = loaded'] /\ pc' = [pc EXCEPT ![a] = "start"]
        /\ UNCHANGED <<rows, conv, failures>>
    BY <1>7 DEF LoadInsert
  <2>2. Held'
    BY <1>0, <2>1 DEF Held
  <2>3. StoreMirrorsMemory' /\ Reloads'
    BY <1>2, <2>1 DEF StoreMirrorsMemory, Reloads
  <2> QED
    BY <2>2, <2>3
<1>8. CASE LoadInsert(a) /\ ~Validate(conv[a])
  <2>1. /\ pc' = [pc EXCEPT ![a] = "rejected"] /\ UNCHANGED <<rows, conv, loaded, mine, failures>>
    BY <1>8 DEF LoadInsert
  <2>2. Held'
    BY <1>0, <2>1, LivelyFacts DEF Held, EndedPcs
  <2> QED
    BY <2>1, <2>2, QuietRows
<1> QED
  BY <1>3, <1>4, <1>5, <1>6, <1>7, <1>8 DEF Loads

\* Everything else leaves the rows to the history they tell, or empties them.
LEMMA OthersRows ==
    ASSUME RowsInv, [Next]_vars,
           \A a \in Agents :
               /\ ~Loads(a) /\ ~RecordUserTurn(a) /\ ~(\E t \in ToolSets : Setup(a, t))
               /\ ~(\E r \in Replies : MentorAnswers(a, r)) /\ ~ToolsReturn(a)
               /\ ~AskToContinue(a) /\ ~EndRun(a)
    PROVE  (StoreMirrorsMemory /\ Reloads)'
<1> USE DEF RowsInv, ValidInv, TypeInv, TypeOK, Goto, Stop, memory, tasks, store, bounds
<1>0. (Committed => (failures' = 0 => failures = 0)) /\ (Refused => (failures' = 0 => failures = 0))
  BY BoundsAssumption DEF Committed, Refused
<1>1. CASE FinishShutdown \/ Crash
  <2>1. LoseMemory
    BY <1>1 DEF FinishShutdown, Crash
  <2>2. /\ loaded' = NoAgent /\ UNCHANGED <<rows, failures>>
        /\ \A a \in Agents : pc'[a] \in {"idle"} \cup EndedPcs
    BY <2>1 DEF LoseMemory, EndedPcs
  <2>3. \A a \in Agents : pc'[a] \notin {"repair", "insert"}
    BY <2>2 DEF EndedPcs
  <2> QED
    BY <2>2, <2>3 DEF StoreMirrorsMemory, Reloads
<1>2. CASE \E purge \in BOOLEAN : DeleteCommit(purge)
  <2> PICK purge \in BOOLEAN : DeleteCommit(purge)
    BY <1>2
  <2>1. /\ admin = "delete" /\ UNCHANGED <<conv, loaded, pc>>
        /\ UNCHANGED rows \/ rows' = << >>
        /\ failures' = 0 => failures = 0
    BY <1>0 DEF DeleteCommit
  <2>2. loaded = NoAgent /\ \A a \in Agents : pc[a] \notin {"repair", "insert"}
    BY <2>1, LivelyFacts DEF Locked, Forgotten
  <2>3. CASE UNCHANGED rows
    BY <2>1, <2>3, QuietRows
  <2>4. CASE rows' = << >>
    <3>1. << >> \in History /\ Len(<< >>) = 0
      BY EmptySeq DEF History
    <3>2. Numbered(<< >>) = << >>
      BY <3>1, NumberedRows, EmptySeq DEF Table
    <3>3. Stored(<< >>) = << >>
      BY <3>1, <3>2, NumberedRows
    <3> QED
      BY <2>1, <2>2, <2>4, <3>2, <3>3, EmptyFits DEF StoreMirrorsMemory, Reloads
  <2> QED
    BY <2>1, <2>3, <2>4
<1>3. CASE \E a \in Agents : StartAgent(a) \/ Register(a) \/ Tell(a) \/ Request(a)
  <2> PICK a \in Agents : StartAgent(a) \/ Register(a) \/ Tell(a) \/ Request(a)
    BY <1>3
  <2>1. /\ UNCHANGED <<rows, conv, loaded>> /\ (failures' = 0 => failures = 0)
        /\ \E l \in {"register", "rejected", "turn", "done", "load"} : Goto(a, l)
    BY <1>0 DEF StartAgent, Register, Tell, Request
  <2> QED
    BY <2>1, QuietRows
<1>4. CASE \E a \in Agents : \/ TaskBegin(a) \/ SetupFails(a) \/ FinishAgent(a) \/ Release(a)
                             \/ LoopStops(a) \/ BeginStep(a) \/ SendRequest(a)
                             \/ MentorFails(a) \/ CloseStep(a)
  <2> PICK a \in Agents : \/ TaskBegin(a) \/ SetupFails(a) \/ FinishAgent(a) \/ Release(a)
                          \/ LoopStops(a) \/ BeginStep(a) \/ SendRequest(a)
                          \/ MentorFails(a) \/ CloseStep(a)
    BY <1>4
  <2>1. /\ UNCHANGED <<rows, conv, loaded>> /\ (failures' = 0 => failures = 0)
        /\ \E l \in {"setup", "end", "release", "tell", "request", "mentor", "loop", "continue"} :
               Goto(a, l)
    BY <1>0 DEF TaskBegin, SetupFails, FinishAgent, Release, LoopStops, BeginStep,
         SendRequest, MentorFails, CloseStep
  <2> QED
    BY <2>1, QuietRows
<1>5. CASE \/ \E a \in Agents : Stall(a) \/ Cancel(a)
           \/ \E archived \in BOOLEAN : ArchiveRequest(archived)
           \/ DeleteRequest \/ BeginShutdown \/ Restarts
  BY <1>5, QuietRows DEF Stall, Cancel, ArchiveRequest, DeleteRequest, BeginShutdown,
     Restarts, Start, Recover, Serve
<1>6. CASE ArchiveCommit \/ ArchiveForget
  BY <1>0, <1>6, QuietRows DEF ArchiveCommit, ArchiveForget
<1>7. CASE UNCHANGED vars \/ Quiescent
  BY <1>7, QuietRows DEF vars, Quiescent
<1> QED
  BY <1>1, <1>2, <1>3, <1>4, <1>5, <1>6, <1>7 DEF Next, Asks, Administers, Begins, Runs, Loops

\* The invariant of rows and memory, at the start and along every step.
LEMMA InitRowsInv == Init => RowsInv
<1> SUFFICES ASSUME Init PROVE RowsInv
  OBVIOUS
<1>1. Locked /\ Forgotten /\ Held /\ StoreMirrorsMemory
  BY LivelyFacts DEF Init, Locked, Forgotten, Held, StoreMirrorsMemory
<1>2. << >> \in History /\ Len(<< >>) = 0
  BY EmptySeq DEF History
<1>3. Numbered(<< >>) = << >>
  BY <1>2, NumberedRows, EmptySeq DEF Table
<1>4. Stored(<< >>) = << >>
  BY <1>2, <1>3, NumberedRows
<1>5. Reloads
  BY <1>3, <1>4, EmptyFits DEF Init, Reloads
<1> QED
  BY <1>1, <1>5, InitValidInv DEF RowsInv

LEMMA NextRowsInv ==
    ASSUME SerialClients, \A r \in Replies : r.stop # "pause_turn", RowsInv, [Next]_vars
    PROVE  RowsInv'
<1>1. ValidInv' /\ TypeOK' /\ HeldFits'
  BY NextValidInv DEF RowsInv, ValidInv, TypeInv
<1>2. CASE \E a \in Agents : Loads(a)
  BY <1>1, <1>2, RunsLock, LoadsRows DEF RowsInv, Begins
<1>3. CASE ~\E a \in Agents : Loads(a)
  <2>1. (Locked /\ Forgotten /\ Held)'
    BY <1>3, RunsLock, OthersLock
  <2>2. (StoreMirrorsMemory /\ Reloads)'
    BY <1>1, <1>3, TurnsRows, OthersRows
  <2> QED
    BY <1>1, <2>1, <2>2 DEF RowsInv
<1> QED
  BY <1>2, <1>3

\* trace/sessions.rs:1-4: the rows tell the history in memory, message by
\* message; and whenever the daemon dies, the rows it leaves are a history that
\* load_conversation accepts, after at most the repair of the last turn.
THEOREM RowsTellTheHistory ==
    ASSUME SerialClients, \A r \in Replies : r.stop # "pause_turn"
    PROVE  Spec => []RowsTell
<1>1. Init => RowsInv
  BY InitRowsInv
<1>2. RowsInv /\ [Next]_vars => RowsInv'
  BY NextRowsInv
<1>3. RowsInv => RowsTell
  <2> SUFFICES ASSUME RowsInv, failures = 0 PROVE Validate(Repair(Stored(rows)))
    BY DEF RowsInv, RowsTell, StoredHistoryLoads
  <2>1. Stored(rows) \in History /\ WellFormed(Stored(rows))
    BY StoredType DEF RowsInv, ValidInv, TypeInv, TypeOK, Reloads
  <2> QED
    BY <2>1, RepairFits DEF Validate, WellFormed
<1> QED
  BY <1>1, <1>2, <1>3, PTL DEF Spec

-----------------------------------------------------------------------------
(* HistoryKept, for the same clients and mentor.  A refused write leaves a *)
(* gap in the rows, so that they no longer mirror the memory; what remains *)
(* true is that they are in order (InOrder) and tell of the held history   *)
(* what they have of it (Tracks).                                          *)

LastSeq(t) == IF t = << >> THEN 0 ELSE t[Len(t)].seq

\* Rows have the numbers of their positions up to a first gap, which is
\* between two rows of the user; an answer is directly behind its question.
InOrder(t) ==
    /\ \A i, j \in 1 .. Len(t) : i < j => t[i].seq < t[j].seq
    /\ \A i \in 1 .. Len(t) :
          \/ t[i].seq = i
          \/ \E j \in 1 .. i - 1 : IsUser(t[j].msg) /\ IsUser(t[j + 1].msg)
    /\ \A i \in 1 .. Len(t) :
          IsUser(t[i].msg) \/ (i > 1 /\ t[i].seq = t[i - 1].seq + 1)

\* A row tells the message of its number, or is what was left of a turn with
\* tool calls that the refused repair could not cut, answered again since.
Tells(r, h) ==
    /\ r.seq <= Len(h)
    /\ \/ r.msg.kind = h[r.seq].kind /\ r.msg.texts \subseteq h[r.seq].texts
       \/ r.msg.kind = "tooluse" /\ ~IsUser(h[r.seq])

\* Such a turn, before it is answered again.
Leftover(r, h) == r.msg.kind = "tooluse" /\ r.seq = Len(h) + 1 /\ Awaits(h)

\* Only the last message may have no row yet, or the last two when the user
\* speaks last.
Tracks(t, h) ==
    /\ h # << >> => IsUser(h[1])
    /\ \A i \in 1 .. Len(t) : Tells(t[i], h) \/ (i = Len(t) /\ Leftover(t[i], h))
    /\ LastSeq(t) >= Len(h) - 1 \/ (LastSeq(t) = Len(h) - 2 /\ IsUser(LastMsg(h)))

\* The rows u keep what the rows t say.
Keeps(t, u) ==
    \A i \in 1 .. Len(t) :
        \/ i = Len(t) /\ t[i].msg.kind = "tooluse"
        \/ /\ i <= Len(u)
           /\ u[i].seq = t[i].seq
           /\ u[i].msg.kind = t[i].msg.kind
           /\ t[i].msg.texts \subseteq u[i].msg.texts

\* What a push makes of the history h: a turn more, or a text more in a last
\* turn of the user.
Pushed(h, g) ==
    /\ g # << >> /\ IsUser(g[1])
    /\ \A i \in 1 .. Len(g) - 1 : g[i] = h[i]
    /\ \/ /\ Len(g) = Len(h) + 1
          /\ h # << >> => IsUser(g[Len(g)]) # IsUser(h[Len(h)])
       \/ /\ Len(g) = Len(h)
          /\ IsUser(h[Len(h)])
          /\ g[Len(g)].kind = h[Len(h)].kind
          /\ h[Len(h)].texts \subseteq g[Len(g)].texts

LEMMA RowsTyped ==
    ASSUME NEW t \in Table
    PROVE  /\ t \in Seq(Row) /\ Len(t) \in Nat
           /\ \A i \in 1 .. Len(t) : t[i] \in Row /\ t[i].seq \in Nat /\ t[i].msg \in Message
<1>1. t \in Seq(Row) /\ Len(t) \in Nat
  BY LenProperties DEF Table
<1>2. ASSUME NEW i \in 1 .. Len(t)
      PROVE  t[i] \in Row /\ t[i].seq \in Nat /\ t[i].msg \in Message
  <2>1. t[i] \in Row
    BY <1>1, ElementOfSeq
  <2> QED
    BY <2>1 DEF Row
<1> QED
  BY <1>1, <1>2

\* The table's put, where no row has the number yet and where row j has it.
LEMMA PutBehind ==
    ASSUME NEW t \in Table, NEW n \in Nat, NEW m \in Message,
           \A i \in 1 .. Len(t) : t[i].seq < n
    PROVE  PutMessage(t, n, m) = Append(t, [seq |-> n, msg |-> m])
<1> DEFINE row == [seq |-> n, msg |-> m]
           N == Len(t)
<1>0. N \in Nat
  BY LenProperties DEF Table
<1>1. t \in Seq(Row) /\ row \in Row
  BY DEF Table, Row
<1>2. {i \in 1 .. N : t[i].seq < n} = 1 .. N
  OBVIOUS
<1>3. RowsBelow(t, n) = N
  <2>1. Cardinality(1 .. N) = N
    BY <1>0, FirstNumbers, Zenon
  <2> QED
    BY <1>2, <2>1 DEF RowsBelow
<1>4. PutMessage(t, n, m) = SubSeq(t, 1, N) \o <<row>> \o SubSeq(t, N + 1, N)
  <2> DEFINE k == RowsBelow(t, n)
             rest == IF k < Len(t) /\ t[k + 1].seq = n THEN k + 2 ELSE k + 1
  <2>1. rest = N + 1
    BY <1>0, <1>3
  <2> HIDE DEF rest
  <2>2. PutMessage(t, n, m) = SubSeq(t, 1, k) \o <<row>> \o SubSeq(t, rest, Len(t))
    BY DEF PutMessage, rest
  <2> QED
    BY <1>3, <2>1, <2>2
<1>5. SubSeq(t, 1, N) = t /\ SubSeq(t, N + 1, N) = << >>
  BY <1>0, <1>1
<1> HIDE DEF row, N
<1>6. t \o <<row>> \in Seq(Row) /\ t \o <<row>> = Append(t, row)
  BY <1>1
<1>7. Append(t, row) \o << >> = Append(t, row)
  BY <1>6, ConcatEmptySeq
<1> QED
  BY <1>4, <1>5, <1>6, <1>7 DEF row

LEMMA PutOn ==
    ASSUME NEW t \in Table, NEW m \in Message, NEW j \in 1 .. Len(t), NEW n \in Nat,
           t[j].seq = n,
           \A i, k \in 1 .. Len(t) : i < k => t[i].seq < t[k].seq
    PROVE  LET u == PutMessage(t, n, m)
           IN  /\ u \in Table /\ Len(u) = Len(t)
               /\ u[j].seq = n /\ u[j].msg = m
               /\ \A i \in 1 .. Len(t) : i # j => u[i] = t[i]
<1> DEFINE row == [seq |-> n, msg |-> m]
           N == Len(t)
           A == SubSeq(t, 1, j - 1)
           B == SubSeq(t, j + 1, N)
           p == A \o <<row>> \o B
<1>0. N \in Nat /\ j \in Nat /\ 1 <= j /\ j <= N
  BY LenProperties DEF Table
<1>1. t \in Seq(Row) /\ \A i \in 1 .. N : t[i] \in Row /\ t[i].seq \in Nat
  BY RowsTyped
<1>2. row \in Row
  BY <1>1 DEF Row
<1>3. {i \in 1 .. N : t[i].seq < n} = 1 .. j - 1
  <2>1. \A i \in 1 .. N : t[i].seq < n <=> i < j
    BY <1>0, <1>1
  <2> HIDE DEF N
  <2> QED
    BY <1>0, <2>1
<1>4. RowsBelow(t, n) = j - 1
  <2>1. j - 1 \in Nat
    BY <1>0
  <2>2. Cardinality(1 .. j - 1) = j - 1
    BY <2>1, FirstNumbers, Zenon
  <2> QED
    BY <1>3, <2>2 DEF RowsBelow
<1>5. PutMessage(t, n, m) = p
  <2>1. j - 1 < N /\ t[j - 1 + 1].seq = n /\ j - 1 + 2 = j + 1
    BY <1>0
  <2> HIDE DEF N
  <2> QED
    BY <1>4, <2>1 DEF PutMessage, N
<1>6. /\ A \in Seq(Row) /\ Len(A) = j - 1
      /\ \A i \in 1 .. j - 1 : A[i] = t[i]
  BY <1>0, <1>1
<1>7. /\ B \in Seq(Row) /\ Len(B) = N - j
      /\ \A i \in 1 .. N - j : B[i] = t[j + i]
  BY <1>0, <1>1
<1> HIDE DEF A, B, row, N
<1>8. /\ p \in Seq(Row) /\ Len(p) = N
      /\ \A i \in 1 .. N : p[i] = IF i < j THEN A[i] ELSE IF i = j THEN row ELSE B[i - j]
  <2> DEFINE q == A \o <<row>>
  <2>1. /\ q \in Seq(Row) /\ Len(q) = j
        /\ \A i \in 1 .. j : q[i] = IF i < j THEN A[i] ELSE row
    BY <1>0, <1>2, <1>6
  <2> HIDE DEF q
  <2>2. /\ q \o B \in Seq(Row) /\ Len(q \o B) = N
        /\ \A i \in 1 .. N : (q \o B)[i] = IF i <= j THEN q[i] ELSE B[i - j]
    <3>1. /\ q \o B \in Seq(Row) /\ Len(q \o B) = Len(q) + Len(B)
          /\ \A i \in 1 .. Len(q) + Len(B) :
                (q \o B)[i] = IF i <= Len(q) THEN q[i] ELSE B[i - Len(q)]
      BY <1>7, <2>1, ConcatProperties
    <3>2. Len(q) = j /\ Len(q) + Len(B) = N
      BY <1>0, <1>7, <2>1
    <3> QED
      BY <3>1, <3>2
  <2> QED
    BY <1>0, <2>1, <2>2 DEF q
<1> HIDE DEF p
<1>9. \A i \in 1 .. N : i # j => p[i] = t[i]
  <2> SUFFICES ASSUME NEW i \in 1 .. N, i # j PROVE p[i] = t[i]
    OBVIOUS
  <2>1. CASE i < j
    BY <1>0, <1>6, <1>8, <2>1
  <2>2. CASE i > j
    <3> DEFINE k == i - j
    <3>1. k \in 1 .. N - j /\ j + k = i /\ ~(i < j) /\ i # j
      BY <1>0, <2>2
    <3>2. p[i] = B[k]
      BY <1>8, <3>1
    <3> HIDE DEF k
    <3>3. B[k] = t[j + k]
      BY <1>7, <3>1
    <3> QED
      BY <3>1, <3>2, <3>3
  <2> QED
    BY <1>0, <2>1, <2>2
<1>10. row.seq = n /\ row.msg = m
  BY DEF row
<1>11. p[j] = row
  BY <1>0, <1>8
<1> QED
  BY <1>5, <1>8, <1>9, <1>10, <1>11 DEF Table, N

\* A row more, a row's message replaced by one of the same speaker, and the
\* first rows of a table are in order.
LEMMA AppendInOrder ==
    ASSUME NEW t \in Table, InOrder(t), NEW row \in Row,
           \A i \in 1 .. Len(t) : t[i].seq < row.seq,
           Len(t) = 0 => row.seq = 1 /\ IsUser(row.msg),
           Len(t) > 0 => \/ row.seq = t[Len(t)].seq + 1
                         \/ IsUser(t[Len(t)].msg) /\ IsUser(row.msg)
    PROVE  InOrder(Append(t, row))
<1> DEFINE N == Len(t)
           u == Append(t, row)
<1>1. /\ N \in Nat /\ Len(u) = N + 1 /\ u[N + 1] = row
      /\ \A i \in 1 .. N : u[i] = t[i] /\ t[i].seq \in Nat
  BY RowsTyped, AppendProperties
<1>2. row.seq \in Nat
  BY DEF Row
<1> HIDE DEF N, u
<1>3. \A i, j \in 1 .. N + 1 : i < j => u[i].seq < u[j].seq
  <2> SUFFICES ASSUME NEW i \in 1 .. N + 1, NEW j \in 1 .. N + 1, i < j
               PROVE  u[i].seq < u[j].seq
    OBVIOUS
  <2>1. i \in 1 .. N
    BY <1>1
  <2>2. CASE j = N + 1
    BY <1>1, <2>1, <2>2 DEF N
  <2>3. CASE j # N + 1
    <3>1. j \in 1 .. N
      BY <1>1, <2>3
    <3> QED
      BY <1>1, <2>1, <3>1 DEF InOrder, N
  <2> QED
    BY <2>2, <2>3
<1>4. ASSUME NEW i \in 1 .. N + 1
      PROVE  \/ u[i].seq = i
             \/ \E j \in 1 .. i - 1 : IsUser(u[j].msg) /\ IsUser(u[j + 1].msg)
  <2>1. CASE i # N + 1
    <3>1. i \in 1 .. N
      BY <1>1, <2>1
    <3>2. CASE t[i].seq = i
      BY <1>1, <3>1, <3>2
    <3>3. CASE t[i].seq # i
      <4>1. PICK j \in 1 .. i - 1 : IsUser(t[j].msg) /\ IsUser(t[j + 1].msg)
        BY <3>1, <3>3 DEF InOrder, N
      <4>2. j \in 1 .. N /\ j + 1 \in 1 .. N
        BY <1>1, <3>1
      <4> QED
        BY <1>1, <4>1, <4>2
    <3> QED
      BY <3>2, <3>3
  <2>2. CASE i = N + 1 /\ N > 0 /\ IsUser(t[N].msg) /\ IsUser(row.msg)
    <3>1. N \in 1 .. i - 1 /\ u[N] = t[N] /\ u[N + 1] = row
      BY <1>1, <2>2
    <3> QED
      BY <2>2, <3>1
  <2>3. CASE i = N + 1 /\ N > 0 /\ row.seq = t[N].seq + 1
    <3>1. CASE t[N].seq = N
      BY <1>1, <2>3, <3>1
    <3>2. CASE t[N].seq # N
      <4>1. N \in 1 .. N
        BY <1>1, <2>3
      <4>2. PICK j \in 1 .. N - 1 : IsUser(t[j].msg) /\ IsUser(t[j + 1].msg)
        BY <3>2, <4>1 DEF InOrder, N
      <4>3. j \in 1 .. N /\ j + 1 \in 1 .. N /\ j \in 1 .. i - 1
        BY <1>1, <2>3
      <4> QED
        BY <1>1, <4>2, <4>3
    <3> QED
      BY <3>1, <3>2
  <2>4. CASE i = N + 1 /\ N = 0
    BY <1>1, <2>4 DEF N
  <2> QED
    BY <1>1, <2>1, <2>2, <2>3, <2>4 DEF N
<1>5. ASSUME NEW i \in 1 .. N + 1
      PROVE  IsUser(u[i].msg) \/ (i > 1 /\ u[i].seq = u[i - 1].seq + 1)
  <2>1. CASE i # N + 1
    <3>1. i \in 1 .. N /\ (i > 1 => i - 1 \in 1 .. N)
      BY <1>1, <2>1
    <3> QED
      BY <1>1, <3>1 DEF InOrder, N
  <2>2. CASE i = N + 1 /\ N > 0
    <3>1. N \in 1 .. N /\ i - 1 = N /\ i > 1
      BY <1>1, <2>2
    <3> QED
      BY <1>1, <2>2, <3>1 DEF N
  <2>3. CASE i = N + 1 /\ N = 0
    BY <1>1, <2>3 DEF N
  <2> QED
    BY <1>1, <2>1, <2>2, <2>3
<1> QED
  BY <1>1, <1>3, <1>4, <1>5 DEF InOrder, u

LEMMA ReplaceInOrder ==
    ASSUME NEW t \in Table, InOrder(t), NEW u, Len(u) = Len(t),
           \A i \in 1 .. Len(t) : u[i].seq = t[i].seq /\ (IsUser(u[i].msg) <=> IsUser(t[i].msg))
    PROVE  InOrder(u)
<1> DEFINE N == Len(t)
<1>1. N \in Nat
  BY RowsTyped
<1> HIDE DEF N
<1>2. \A i \in 1 .. N : /\ i > 1 => i - 1 \in 1 .. N
                        /\ \A k \in 1 .. i - 1 : k \in 1 .. N /\ k + 1 \in 1 .. N
  BY <1>1
<1>3. \A i, k \in 1 .. N : i < k => u[i].seq < u[k].seq
  BY DEF InOrder, N
<1>4. ASSUME NEW i \in 1 .. N, u[i].seq # i
      PROVE  \E k \in 1 .. i - 1 : IsUser(u[k].msg) /\ IsUser(u[k + 1].msg)
  <2>1. t[i].seq # i
    BY <1>4 DEF N
  <2>2. PICK k \in 1 .. i - 1 : IsUser(t[k].msg) /\ IsUser(t[k + 1].msg)
    BY <2>1 DEF InOrder, N
  <2> QED
    BY <1>2, <2>2 DEF N
<1>5. ASSUME NEW i \in 1 .. N
      PROVE  IsUser(u[i].msg) \/ (i > 1 /\ u[i].seq = u[i - 1].seq + 1)
  BY <1>2 DEF InOrder, N
<1> QED
  BY <1>3, <1>4, <1>5 DEF InOrder, N

LEMMA PrefixInOrder ==
    ASSUME NEW t \in Table, InOrder(t), NEW k \in 0 .. Len(t)
    PROVE  LET u == SubSeq(t, 1, k)
           IN  /\ u \in Table /\ Len(u) = k /\ InOrder(u)
               /\ \A i \in 1 .. k : u[i] = t[i]
<1> DEFINE u == SubSeq(t, 1, k)
           N == Len(t)
<1>1. t \in Seq(Row) /\ N \in Nat /\ k \in Nat /\ k <= N
  BY RowsTyped
<1>2. u \in Table /\ Len(u) = k /\ \A i \in 1 .. k : u[i] = t[i]
  BY <1>1 DEF Table
<1> HIDE DEF u
<1>3. \A i \in 1 .. k : /\ i \in 1 .. N
                        /\ i > 1 => i - 1 \in 1 .. k
                        /\ \A j \in 1 .. i - 1 : j \in 1 .. k /\ j + 1 \in 1 .. k
  BY <1>1
<1> HIDE DEF N
<1>4. InOrder(u)
  <2>1. \A i, j \in 1 .. k : i < j => u[i].seq < u[j].seq
    BY <1>2, <1>3 DEF InOrder, N
  <2>2. ASSUME NEW i \in 1 .. k, u[i].seq # i
        PROVE  \E j \in 1 .. i - 1 : IsUser(u[j].msg) /\ IsUser(u[j + 1].msg)
    <3>1. i \in 1 .. N /\ t[i].seq # i
      BY <1>2, <1>3, <2>2
    <3>2. PICK j \in 1 .. i - 1 : IsUser(t[j].msg) /\ IsUser(t[j + 1].msg)
      BY <3>1 DEF InOrder, N
    <3> QED
      BY <1>2, <1>3, <3>2
  <2>3. ASSUME NEW i \in 1 .. k
        PROVE  IsUser(u[i].msg) \/ (i > 1 /\ u[i].seq = u[i - 1].seq + 1)
    BY <1>2, <1>3 DEF InOrder, N
  <2> QED
    BY <1>2, <2>1, <2>2, <2>3 DEF InOrder
<1> QED
  BY <1>2, <1>4 DEF u

\* The numbers of rows in order, and who speaks in a row that tells a message.
LEMMA OrderFacts ==
    ASSUME NEW t \in Table, InOrder(t)
    PROVE  /\ LastSeq(t) \in Nat
           /\ Len(t) = 0 <=> t = << >>
           /\ Len(t) = 0 => LastSeq(t) = 0
           /\ Len(t) > 0 => LastSeq(t) = t[Len(t)].seq /\ t[1].seq = 1 /\ IsUser(t[1].msg)
           /\ \A i \in 1 .. Len(t) : t[i].seq >= 1 /\ t[i].seq <= LastSeq(t)
           /\ \A i \in 1 .. Len(t) : i # Len(t) => t[i].seq < LastSeq(t)
<1> DEFINE N == Len(t)
<1>1. /\ N \in Nat /\ (N = 0 <=> t = << >>)
      /\ \A i \in 1 .. N : t[i].seq \in Nat
  BY RowsTyped, EmptySeq
<1> HIDE DEF N
<1>2. N > 0 => 1 \in 1 .. N /\ N \in 1 .. N
  BY <1>1
<1>3. N > 0 => t[1].seq = 1 /\ IsUser(t[1].msg)
  <2> SUFFICES ASSUME N > 0 PROVE t[1].seq = 1 /\ IsUser(t[1].msg)
    OBVIOUS
  <2>1. ~\E j \in 1 .. 1 - 1 : IsUser(t[j].msg) /\ IsUser(t[j + 1].msg)
    OBVIOUS
  <2> QED
    BY <1>2, <2>1 DEF InOrder, N
<1>4. \A i \in 1 .. N : i # 1 => t[i].seq > 1
  BY <1>1, <1>2, <1>3 DEF InOrder, N
<1>5. \A i \in 1 .. N : i # N => t[i].seq < t[N].seq
  BY <1>1, <1>2 DEF InOrder, N
<1>6. N > 0 => LastSeq(t) = t[N].seq
  BY <1>1 DEF LastSeq, N
<1>7. N = 0 => LastSeq(t) = 0
  BY <1>1 DEF LastSeq
<1> QED
  BY <1>1, <1>2, <1>3, <1>4, <1>5, <1>6, <1>7 DEF N

LEMMA TellsSpeaker ==
    ASSUME NEW r, NEW h, Tells(r, h)
    PROVE  IsUser(r.msg) = IsUser(h[r.seq])
  BY DEF Tells, IsUser

\* The row of the last message of g has its place behind or in t.
Follows(t, g) ==
    LastSeq(t) < Len(g) =>
        IF t = << >>
        THEN Len(g) = 1 /\ IsUser(g[Len(g)])
        ELSE \/ LastSeq(t) + 1 = Len(g)
             \/ IsUser(t[Len(t)].msg) /\ IsUser(g[Len(g)])

\* The rows of a history are rows of what a push makes of it.
LEMMA PushTracks ==
    ASSUME NEW t \in Table, NEW h \in History, NEW g \in History,
           InOrder(t), Alternates(h), Tracks(t, h), Pushed(h, g),
           ~IsUser(g[Len(g)]) => LastSeq(t) >= Len(h)
    PROVE  Tracks(t, g) /\ Follows(t, g)
<1> DEFINE N == Len(t)
           H == Len(h)
           n == Len(g)
           L == LastSeq(t)
<1>1. /\ H \in Nat /\ n \in Nat /\ n > 0 /\ N \in Nat
      /\ (H = 0 <=> h = << >>)
  BY RowsTyped, EmptySeq, LenProperties DEF Pushed, History
<1>2. /\ L \in Nat /\ (N = 0 <=> t = << >>) /\ (N = 0 => L = 0)
      /\ N > 0 => L = t[N].seq
      /\ \A i \in 1 .. N : t[i].seq \in Nat /\ t[i].seq >= 1 /\ t[i].seq <= L
  BY OrderFacts, RowsTyped
<1>3. /\ IsUser(g[1]) /\ (H > 0 => IsUser(h[1]))
      /\ L >= H - 1 \/ (L = H - 2 /\ IsUser(h[H]))
  BY <1>1 DEF Pushed, Tracks, LastMsg
<1>4. \A i \in 1 .. H : i > 1 => (IsUser(h[i]) <=> ~IsUser(h[i - 1]))
  <2> SUFFICES ASSUME NEW i \in 1 .. H, i > 1 PROVE IsUser(h[i]) <=> ~IsUser(h[i - 1])
    OBVIOUS
  <2>1. i - 1 \in 1 .. H - 1 /\ i - 1 + 1 = i
    BY <1>1
  <2> QED
    BY <2>1 DEF Alternates, IsUser
<1>5. CASE n = H + 1
  <2>1. /\ \A i \in 1 .. H : g[i] = h[i]
        /\ H > 0 => (IsUser(g[n]) <=> ~IsUser(h[H]))
    BY <1>1, <1>5 DEF Pushed, IsUser
  <2>2. ASSUME NEW i \in 1 .. N, Tells(t[i], h) PROVE Tells(t[i], g)
    <3>1. t[i].seq \in 1 .. H /\ t[i].seq <= n
      BY <1>1, <1>2, <1>5, <2>2 DEF Tells
    <3>2. g[t[i].seq] = h[t[i].seq]
      BY <2>1, <3>1
    <3> QED
      BY <2>2, <3>1, <3>2 DEF Tells
  <2>3. ASSUME NEW i \in 1 .. N, Leftover(t[i], h) PROVE Tells(t[i], g)
    BY <1>1, <1>5, <2>1, <2>3 DEF Leftover, Tells, Awaits, LastMsg
  <2>4. L >= n - 1 \/ (L = n - 2 /\ IsUser(g[n]))
    BY <1>1, <1>2, <1>3, <1>5, <2>1
  <2>5. Tracks(t, g)
    BY <1>3, <2>2, <2>3, <2>4 DEF Tracks, LastMsg
  <2>6. Follows(t, g)
    <3> SUFFICES ASSUME L < n
                 PROVE  IF N = 0 THEN n = 1 /\ IsUser(g[n])
                        ELSE L + 1 = n \/ (IsUser(t[N].msg) /\ IsUser(g[n]))
      BY <1>2 DEF Follows
    <3>1. CASE N = 0
      BY <1>1, <1>2, <1>3, <1>5, <2>1, <2>4, <3>1
    <3>2. CASE N > 0 /\ L + 1 # n
      <4>1. L = n - 2 /\ IsUser(g[n]) /\ L = H - 1 /\ L >= 1
        BY <1>1, <1>2, <1>5, <2>4, <3>2
      <4>2. ~IsUser(h[H]) /\ H \in 1 .. H /\ H > 1
        BY <1>1, <2>1, <4>1
      <4>3. IsUser(h[L])
        BY <1>4, <4>1, <4>2
      <4>4. Tells(t[N], h)
        BY <1>1, <1>2, <1>5, <3>2, <4>1 DEF Tracks, Leftover
      <4> QED
        BY <1>2, <3>2, <4>1, <4>3, <4>4, TellsSpeaker
    <3> QED
      BY <1>1, <3>1, <3>2
  <2> QED
    BY <2>5, <2>6
<1>6. CASE n = H
  <2>1. /\ \A i \in 1 .. n - 1 : g[i] = h[i]
        /\ IsUser(h[n]) /\ g[n].kind = h[n].kind /\ h[n].texts \subseteq g[n].texts
        /\ IsUser(g[n])
    BY <1>1, <1>6 DEF Pushed, IsUser
  <2>2. ASSUME NEW i \in 1 .. N, Tells(t[i], h) PROVE Tells(t[i], g)
    <3>1. t[i].seq \in 1 .. n
      BY <1>1, <1>2, <1>6, <2>2 DEF Tells
    <3>2. CASE t[i].seq # n
      <4>1. t[i].seq \in 1 .. n - 1
        BY <1>1, <3>1, <3>2
      <4> QED
        BY <1>6, <2>1, <2>2, <4>1 DEF Tells
    <3>3. CASE t[i].seq = n
      BY <1>6, <2>1, <2>2, <3>3 DEF Tells
    <3> QED
      BY <3>2, <3>3
  <2>3. ASSUME NEW i \in 1 .. N, Leftover(t[i], h) PROVE Leftover(t[i], g)
    BY <1>6, <2>1, <2>3 DEF Leftover, Awaits, LastMsg, Pushed
  <2>4. L >= n - 1 \/ (L = n - 2 /\ IsUser(g[n]))
    BY <1>3, <1>6, <2>1
  <2>5. Tracks(t, g)
    BY <1>3, <2>2, <2>3, <2>4 DEF Tracks, LastMsg
  <2>6. Follows(t, g)
    <3> SUFFICES ASSUME L < n
                 PROVE  IF N = 0 THEN n = 1 /\ IsUser(g[n])
                        ELSE L + 1 = n \/ (IsUser(t[N].msg) /\ IsUser(g[n]))
      BY <1>2 DEF Follows
    <3>1. CASE N = 0
      <4>1. n = 2 => (IsUser(h[2]) <=> ~IsUser(h[1]))
        <5>1. n = 2 => 2 \in 1 .. H /\ 2 - 1 = 1
          BY <1>6
        <5> QED
          BY <1>4, <5>1
      <4> QED
        BY <1>1, <1>2, <1>3, <1>6, <2>1, <2>4, <3>1, <4>1
    <3>2. CASE N > 0 /\ L + 1 # n
      <4>1. L = n - 2 /\ L >= 1
        BY <1>1, <1>2, <2>4, <3>2
      <4>2. n \in 1 .. H /\ n > 1 /\ n - 1 \in 1 .. H /\ n - 1 > 1 /\ n - 1 - 1 = L
        BY <1>1, <1>6, <4>1
      <4>3. IsUser(h[L])
        BY <1>4, <2>1, <4>2
      <4>4. Tells(t[N], h)
        BY <1>1, <1>2, <1>6, <3>2, <4>1 DEF Tracks, Leftover
      <4> QED
        BY <1>2, <2>1, <3>2, <4>3, <4>4, TellsSpeaker
    <3> QED
      BY <1>1, <3>1, <3>2
  <2> QED
    BY <2>5, <2>6
<1> QED
  BY <1>5, <1>6 DEF Pushed

\* When the row of its last message is put, the rows tell the history g, and
\* they keep what they said.
LEMMA PutTracks ==
    ASSUME NEW t \in Table, NEW g \in History, g # << >>,
           InOrder(t), Tracks(t, g), Follows(t, g)
    PROVE  LET u == PutLast(t, g)
           IN  InOrder(u) /\ Tracks(u, g) /\ LastSeq(u) >= Len(g) /\ Keeps(t, u)
<1> DEFINE N == Len(t)
           n == Len(g)
           L == LastSeq(t)
           m == g[n]
           row == [seq |-> n, msg |-> m]
           u == PutLast(t, g)
<1>1. n \in Nat /\ n > 0 /\ m \in Message /\ N \in Nat /\ IsUser(g[1])
  <2>1. n \in Nat /\ n > 0
    BY EmptySeq, LenProperties DEF History
  <2>2. m \in Message
    BY <2>1, ElementOfSeq DEF History
  <2> QED
    BY <2>1, <2>2, RowsTyped DEF Tracks
<1>2. /\ L \in Nat /\ (N = 0 <=> t = << >>) /\ (N = 0 => L = 0)
      /\ N > 0 => L = t[N].seq /\ IsUser(t[1].msg)
      /\ \A i \in 1 .. N : t[i].seq \in Nat /\ t[i].seq >= 1 /\ t[i].seq <= L
      /\ \A i \in 1 .. N : i # N => t[i].seq < L
  BY OrderFacts, RowsTyped
<1>3. row \in Row /\ row.seq = n /\ row.msg = m
  BY <1>1 DEF Row
<1>4. u = PutMessage(t, n, m)
  BY DEF PutLast, LastMsg
<1>5. Tells(row, g)
  BY <1>1, <1>3 DEF Tells
<1>6. \A i \in 1 .. N : Tells(t[i], g) \/ (i = N /\ Leftover(t[i], g))
  BY DEF Tracks
<1>7. CASE L < n
  <2>1. \A i \in 1 .. N : t[i].seq < n
    BY <1>1, <1>2, <1>7
  <2>2. u = Append(t, row)
    BY <1>1, <1>4, <2>1, PutBehind
  <2>3. /\ Len(u) = N + 1 /\ u[N + 1] = row
        /\ \A i \in 1 .. N : u[i] = t[i]
    BY <1>3, <2>2, RowsTyped, AppendProperties
  <2>4. InOrder(u)
    <3>1. N = 0 => row.seq = 1 /\ IsUser(row.msg)
      BY <1>2, <1>3, <1>7 DEF Follows
    <3>2. N > 0 => row.seq = t[N].seq + 1 \/ (IsUser(t[N].msg) /\ IsUser(row.msg))
      BY <1>2, <1>3, <1>7 DEF Follows
    <3> HIDE DEF row
    <3> QED
      BY <1>3, <2>1, <2>2, <3>1, <3>2, AppendInOrder
  <2> HIDE DEF u, row
  <2>5. LastSeq(u) = n
    <3>1. u # << >>
      BY <1>1, <2>3, EmptySeq
    <3> QED
      BY <1>3, <2>3, <3>1 DEF LastSeq
  <2>6. \A i \in 1 .. N + 1 : Tells(u[i], g)
    <3> SUFFICES ASSUME NEW i \in 1 .. N + 1 PROVE Tells(u[i], g)
      OBVIOUS
    <3>1. CASE i = N + 1
      BY <1>5, <2>3, <3>1
    <3>2. CASE i # N + 1
      <4>1. i \in 1 .. N
        BY <1>1, <3>2
      <4>2. ~Leftover(t[i], g)
        BY <1>1, <1>2, <2>1, <4>1 DEF Leftover
      <4> QED
        BY <1>6, <2>3, <4>1, <4>2
    <3> QED
      BY <3>1, <3>2
  <2>7. Tracks(u, g)
    BY <1>1, <2>3, <2>5, <2>6 DEF Tracks
  <2>8. Keeps(t, u)
    BY <1>1, <2>3 DEF Keeps
  <2> QED
    BY <1>1, <2>4, <2>5, <2>7, <2>8 DEF u
<1>8. CASE L >= n
  <2>1. N > 0 /\ N \in 1 .. N
    BY <1>1, <1>2, <1>8
  \* The row that has the number already.
  <2>2. PICK j \in 1 .. N : /\ t[j].seq = n /\ Tells(t[j], g)
                            /\ \A i \in 1 .. N : i # j => t[i].seq # n
                            /\ j = N \/ IsUser(m)
    <3>1. CASE L = n
      <4>1. t[N].seq = n /\ Tells(t[N], g)
        BY <1>1, <1>2, <1>6, <2>1, <3>1 DEF Leftover
      <4>2. \A i \in 1 .. N : i # N => t[i].seq # n
        BY <1>1, <1>2, <3>1
      <4> QED
        BY <2>1, <4>1, <4>2
    <3>2. CASE L # n
      <4>1. L > n /\ ~Tells(t[N], g)
        BY <1>1, <1>2, <1>8, <2>1, <3>2 DEF Tells
      <4>2. Leftover(t[N], g)
        BY <1>6, <2>1, <4>1
      <4>3. L = n + 1 /\ ~IsUser(t[N].msg) /\ IsUser(m)
        BY <1>2, <2>1, <4>2 DEF Leftover, Awaits, LastMsg, IsUser
      <4>4. N > 1 /\ t[N].seq = t[N - 1].seq + 1
        BY <2>1, <4>3 DEF InOrder
      <4>5. N - 1 \in 1 .. N /\ N - 1 # N
        BY <1>1, <4>4
      <4>6. t[N - 1].seq = n
        BY <1>1, <1>2, <4>3, <4>4, <4>5
      <4>7. Tells(t[N - 1], g)
        BY <1>6, <4>5
      <4>8. \A i \in 1 .. N : i < N - 1 => t[i].seq < n
        BY <4>5, <4>6 DEF InOrder
      <4>9. \A i \in 1 .. N : i # N - 1 => t[i].seq # n
        BY <1>1, <1>2, <4>3, <4>6, <4>8
      <4> QED
        BY <4>3, <4>5, <4>6, <4>7, <4>9
    <3> QED
      BY <3>1, <3>2
  <2>3. IsUser(m) = IsUser(t[j].msg)
    BY <2>2, TellsSpeaker
  <2>4. /\ u \in Table /\ Len(u) = N /\ u[j].seq = t[j].seq /\ u[j].msg = m
        /\ \A i \in 1 .. N : i # j => u[i] = t[i]
    <3>1. \A i, k \in 1 .. Len(t) : i < k => t[i].seq < t[k].seq
      BY DEF InOrder
    <3> HIDE DEF m, n, u, row
    <3> QED
      BY <1>1, <1>4, <2>2, <3>1, PutOn
  <2> HIDE DEF u, row, m
  <2>5. \A i \in 1 .. N : u[i].seq = t[i].seq /\ (IsUser(u[i].msg) <=> IsUser(t[i].msg))
    BY <2>3, <2>4 DEF IsUser
  <2>10. InOrder(u)
    BY <2>4, <2>5, ReplaceInOrder
  <2>6. LastSeq(u) = L
    <3>1. u # << >>
      BY <2>1, <2>4, EmptySeq
    <3> QED
      BY <1>2, <2>1, <2>4, <2>5, <3>1 DEF LastSeq
  <2>7. Tells(u[j], g)
    BY <1>1, <2>2, <2>4 DEF Tells, m
  <2>8. Tracks(u, g)
    BY <1>1, <1>6, <1>8, <2>4, <2>6, <2>7 DEF Tracks
  <2>9. Keeps(t, u)
    <3> SUFFICES ASSUME NEW i \in 1 .. N, ~(i = N /\ t[i].msg.kind = "tooluse")
                 PROVE  /\ u[i].msg.kind = t[i].msg.kind
                        /\ t[i].msg.texts \subseteq u[i].msg.texts
      BY <1>1, <2>4, <2>5 DEF Keeps
    <3>1. CASE i # j
      BY <2>4, <3>1
    <3>2. CASE i = j
      <4>1. t[j].msg.kind = m.kind /\ t[j].msg.texts \subseteq m.texts
        BY <2>2, <3>2 DEF Tells, m
      <4> QED
        BY <2>4, <3>2, <4>1
    <3> QED
      BY <3>1, <3>2
  <2> QED
    BY <1>8, <2>10, <2>6, <2>8, <2>9 DEF u
<1> QED
  BY <1>1, <1>2, <1>7, <1>8

LEMMA KeepsItself ==
    ASSUME NEW t \in Table
    PROVE  Keeps(t, t)
  BY DEF Keeps

\* What the pushes make of a well-formed history that the user began.
LEMMA AppendPushes ==
    ASSUME NEW h \in History, NEW m \in Message, h # << >> => IsUser(h[1]),
           h = << >> => IsUser(m),
           h # << >> => IsUser(m) # IsUser(LastMsg(h))
    PROVE  Pushed(h, Append(h, m)) /\ LastMsg(Append(h, m)) = m
<1> DEFINE g == Append(h, m)
           n == Len(h)
<1>1. /\ n \in Nat /\ Len(g) = n + 1 /\ g # << >>
      /\ \A i \in 1 .. n : g[i] = h[i]
      /\ g[n + 1] = m
      /\ n = 0 <=> h = << >>
  BY AppendProperties, LenProperties, EmptySeq DEF History
<1>2. IsUser(g[1])
  BY <1>1
<1>3. h # << >> => h[Len(h)] = LastMsg(h)
  BY DEF LastMsg
<1> HIDE DEF g
<1> QED
  BY <1>1, <1>2, <1>3 DEF Pushed, LastMsg, g

LEMMA PushesPush ==
    ASSUME NEW h \in History, h # << >> => IsUser(h[1])
    PROVE  /\ \A x \in Agents \cup {NOTE, CONTINUE} :
                 /\ Pushed(h, PushUserText(h, x))
                 /\ IsUser(LastMsg(PushUserText(h, x)))
           /\ \A c \in BOOLEAN : Awaits(h) => Pushed(h, PushAssistant(h, c))
           /\ PendingToolUses(h) => /\ Pushed(h, PushToolResults(h))
                                    /\ IsUser(LastMsg(PushToolResults(h)))
<1>1. ASSUME NEW x \in Agents \cup {NOTE, CONTINUE}
      PROVE  Pushed(h, PushUserText(h, x)) /\ IsUser(LastMsg(PushUserText(h, x)))
  <2> DEFINE g == PushUserText(h, x)
  <2>1. CASE h # << >> /\ IsUser(LastMsg(h))
    <3> DEFINE n == Len(h)
               m == [h[n] EXCEPT !.texts = @ \cup {x}]
    <3>1. n \in 1 .. n /\ n \in Nat
      BY <2>1, EmptySeq DEF History
    <3>2. h[n] \in Message
      BY <3>1, ElementOfSeq DEF History
    <3>3. m \in Message /\ m.kind = h[n].kind /\ h[n].texts \subseteq m.texts
      BY <3>2 DEF Message
    <3>4. g = [h EXCEPT ![n] = m]
      BY <2>1, <3>2 DEF PushUserText
    <3>5. /\ Len(g) = n /\ g[n] = m
          /\ \A i \in 1 .. n : i # n => g[i] = h[i]
      <4> HIDE DEF m
      <4> QED
        BY <3>1, <3>3, <3>4, ExceptSeq DEF History
    <3>6. g # << >>
      BY PushUserTextType
    <3> HIDE DEF g, m, n
    <3>7. IsUser(h[n]) /\ IsUser(m)
      BY <2>1, <3>3 DEF LastMsg, IsUser, n
    <3>8. IsUser(g[1])
      BY <2>1, <3>1, <3>5, <3>7
    <3>9. \A i \in 1 .. n - 1 : g[i] = h[i]
      BY <3>1, <3>5
    <3> QED
      BY <3>3, <3>5, <3>6, <3>7, <3>8, <3>9 DEF Pushed, LastMsg, g, n
  <2>2. CASE ~(h # << >> /\ IsUser(LastMsg(h)))
    <3>1. UserMsg(x) \in Message /\ IsUser(UserMsg(x))
      BY DEF UserMsg, Message, Kinds, IsUser
    <3>2. g = Append(h, UserMsg(x))
      BY <2>2 DEF PushUserText
    <3>3. h # << >> => IsUser(UserMsg(x)) # IsUser(LastMsg(h))
      BY <2>2, <3>1
    <3> HIDE DEF g
    <3> QED
      BY <3>1, <3>2, <3>3, AppendPushes DEF g
  <2> QED
    BY <2>1, <2>2
<1>2. ASSUME NEW c \in BOOLEAN, Awaits(h)
      PROVE  Pushed(h, PushAssistant(h, c))
  <2>1. AssistantMsg(c) \in Message /\ ~IsUser(AssistantMsg(c))
    BY DEF AssistantMsg, Message, Kinds, IsUser
  <2> QED
    BY <1>2, <2>1, AppendPushes DEF PushAssistant, Awaits
<1>3. ASSUME PendingToolUses(h)
      PROVE  Pushed(h, PushToolResults(h)) /\ IsUser(LastMsg(PushToolResults(h)))
  <2>1. ResultsMsg \in Message /\ IsUser(ResultsMsg)
    BY DEF ResultsMsg, Message, Kinds, IsUser
  <2>2. h # << >> /\ ~IsUser(LastMsg(h))
    BY <1>3 DEF PendingToolUses, IsUser
  <2> QED
    BY <2>1, <2>2, AppendPushes DEF PushToolResults
<1> QED
  BY <1>1, <1>2, <1>3

\* The rows with a number below n, when they are the first k.
LEMMA RowsBelowFirst ==
    ASSUME NEW t \in Table, NEW n, NEW k \in 0 .. Len(t),
           \A i \in 1 .. Len(t) : t[i].seq < n <=> i <= k
    PROVE  RowsBelow(t, n) = k
<1>1. Len(t) \in Nat
  BY RowsTyped
<1>2. {i \in 1 .. Len(t) : t[i].seq < n} = 1 .. k
  BY <1>1
<1>3. k \in Nat
  BY <1>1
<1>4. Cardinality(1 .. k) = k
  BY <1>3, FirstNumbers, Zenon
<1> QED
  BY <1>2, <1>4 DEF RowsBelow

\* A history's last turn is dropped, and the rows cut or not.
LEMMA RepairTracks ==
    ASSUME NEW t \in Table, NEW h \in History, InOrder(t), Alternates(h), Tracks(t, h),
           PendingToolUses(h), NEW u \in {t, TruncateMessages(t, Len(Repair(h)))}
    PROVE  InOrder(u) /\ Tracks(u, Repair(h)) /\ Keeps(t, u)
<1> DEFINE n == Len(h)
           N == Len(t)
           g == Repair(h)
           L == LastSeq(t)
<1>1. n \in Nat /\ n > 0 /\ h # << >> /\ h[n].kind = "tooluse" /\ IsUser(h[1]) /\ N \in Nat
  BY RowsTyped, EmptySeq, LenProperties DEF PendingToolUses, Tracks, LastMsg, History
<1>2. n > 1
  BY <1>1 DEF IsUser
<1>3. Len(g) = n - 1 /\ \A i \in 1 .. n - 1 : g[i] = h[i]
  <2> DEFINE k == n - 1
  <2>1. g = SubSeq(h, 1, k)
    BY DEF Repair
  <2>2. h \in Seq(Message) /\ k \in Nat /\ k <= Len(h)
    BY <1>1 DEF History
  <2> HIDE DEF g, k
  <2>3. Len(g) = k /\ \A i \in 1 .. k : g[i] = h[i]
    BY <2>1, <2>2
  <2> QED
    BY <2>3 DEF k
<1> HIDE DEF g
<1>4. IsUser(g[n - 1]) /\ IsUser(g[1]) /\ Awaits(g)
  <2>1. n - 1 \in 1 .. n - 1 /\ 1 \in 1 .. n - 1
    BY <1>1, <1>2
  <2>2. IsUser(h[n - 1])
    BY <1>1, <2>1 DEF Alternates, IsUser
  <2>3. g # << >>
    BY <1>2, <1>3, EmptySeq
  <2> QED
    BY <1>1, <1>3, <2>1, <2>2, <2>3 DEF Awaits, LastMsg
<1>5. /\ L \in Nat /\ (N = 0 <=> t = << >>) /\ (N = 0 => L = 0)
      /\ N > 0 => L = t[N].seq
      /\ \A i \in 1 .. N : t[i].seq \in Nat /\ t[i].seq >= 1 /\ t[i].seq <= L
      /\ \A i \in 1 .. N : i # N => t[i].seq < L
  BY OrderFacts, RowsTyped
<1>6. ~IsUser(LastMsg(h))
  BY DEF PendingToolUses, IsUser
<1>7. L >= n - 1
  BY <1>6 DEF Tracks
<1>8. \A i \in 1 .. N : Tells(t[i], h)
  BY <1>6 DEF Tracks, Leftover, Awaits
<1>9. \A i \in 1 .. N : t[i].seq < n => Tells(t[i], g)
  <2> SUFFICES ASSUME NEW i \in 1 .. N, t[i].seq < n PROVE Tells(t[i], g)
    OBVIOUS
  <2>1. t[i].seq \in 1 .. n - 1
    BY <1>1, <1>5
  <2> QED
    BY <1>3, <1>8, <2>1 DEF Tells
<1>10. CASE L # n
  <2>1. \A i \in 1 .. N : t[i].seq < n
    <3>1. \A i \in 1 .. N : t[i].seq <= n
      BY <1>8 DEF Tells
    <3> QED
      BY <1>1, <1>5, <1>10, <3>1
  <2>2. TruncateMessages(t, Len(g)) = t
    <3>1. RowsBelow(t, n) = N
      BY <1>1, <2>1, RowsBelowFirst
    <3>2. Len(g) + 1 = n
      BY <1>1, <1>3
    <3>3. SubSeq(t, 1, N) = t
      BY RowsTyped
    <3> QED
      BY <3>1, <3>2, <3>3 DEF TruncateMessages
  <2>3. u = t
    BY <2>2 DEF g
  <2>4. Tracks(t, g)
    BY <1>1, <1>3, <1>4, <1>5, <1>7, <1>9, <2>1 DEF Tracks
  <2> QED
    BY <2>3, <2>4, KeepsItself DEF g
<1>11. CASE L = n
  <2>1. N > 0 /\ N \in 1 .. N /\ t[N].seq = n
    BY <1>1, <1>5, <1>11
  <2>2. t[N].msg.kind = "tooluse" /\ ~IsUser(t[N].msg)
    BY <1>1, <1>8, <2>1 DEF Tells, IsUser
  <2>3. N > 1 /\ t[N].seq = t[N - 1].seq + 1 /\ N - 1 \in 1 .. N
    BY <1>1, <2>1, <2>2 DEF InOrder
  <2>4. \A i \in 1 .. N : t[i].seq < n <=> i <= N - 1
    BY <1>1, <1>5, <1>11, <2>1
  <2>5. CASE u = t
    <3>1. Leftover(t[N], g)
      BY <1>1, <1>3, <1>4, <2>1, <2>2 DEF Leftover
    <3>2. \A i \in 1 .. N : Tells(t[i], g) \/ (i = N /\ Leftover(t[i], g))
      BY <1>1, <1>9, <2>4, <3>1
    <3>3. Tracks(t, g)
      BY <1>1, <1>3, <1>4, <1>5, <1>7, <3>2 DEF Tracks
    <3> QED
      BY <2>5, <3>3, KeepsItself DEF g
  <2>6. CASE u = TruncateMessages(t, Len(g))
    <3>1. RowsBelow(t, n) = N - 1
      <4>1. N - 1 \in 0 .. N
        BY <2>3
      <4> QED
        BY <2>4, <4>1, RowsBelowFirst
    <3>2. u = SubSeq(t, 1, N - 1)
      <4>1. Len(g) + 1 = n
        BY <1>1, <1>3
      <4> QED
        BY <2>6, <3>1, <4>1 DEF TruncateMessages
    <3>3. /\ u \in Table /\ Len(u) = N - 1 /\ InOrder(u)
          /\ \A i \in 1 .. N - 1 : u[i] = t[i]
      <4>1. N - 1 \in 0 .. N
        BY <2>3
      <4> QED
        BY <3>2, <4>1, PrefixInOrder
    <3>4. LastSeq(u) = n - 1
      <4>1. N - 1 \in 1 .. N - 1 /\ u # << >>
        BY <1>1, <2>3, <3>3, EmptySeq
      <4> QED
        BY <1>1, <1>5, <2>1, <2>3, <3>3, <4>1 DEF LastSeq
    <3>5. \A i \in 1 .. N - 1 : Tells(u[i], g)
      <4>1. \A i \in 1 .. N - 1 : i \in 1 .. N /\ i <= N - 1
        BY <1>1
      <4> QED
        BY <1>9, <2>4, <3>3, <4>1
    <3>6. Tracks(u, g)
      BY <1>1, <1>3, <1>4, <3>3, <3>4, <3>5 DEF Tracks
    <3>7. Keeps(t, u)
      <4> SUFFICES ASSUME NEW i \in 1 .. N, i # N
                   PROVE  i <= Len(u) /\ u[i] = t[i]
        BY <2>2, <3>3 DEF Keeps
      <4> QED
        BY <1>1, <3>3
    <3> QED
      BY <3>3, <3>6, <3>7 DEF g
  <2> QED
    BY <2>5, <2>6 DEF g
<1> QED
  BY <1>10, <1>11

\* A request that loads a table whose last turn called tools nobody answered
\* drops that turn.  With a gap in the rows it drops more, and what it has
\* loaded is not a history the API accepts.
LEMMA LoadedRepair ==
    ASSUME NEW t \in Table, InOrder(t), PendingToolUses(Stored(t))
    PROVE  LET g == Repair(Stored(t))
               u == TruncateMessages(t, Len(g))
           IN  /\ u \in Table /\ InOrder(u)
               /\ g = Stored(u) \/ ~Alternates(g)
               /\ (\A i \in 1 .. Len(t) : t[i].seq = i) => Keeps(t, u)
<1> DEFINE N == Len(t)
           h == Stored(t)
           g == Repair(h)
           u == TruncateMessages(t, Len(g))
<1>1. /\ N \in Nat /\ h \in Seq(Message) /\ Len(h) = N
      /\ \A i \in 1 .. N : h[i] = t[i].msg
  BY RowsTyped, StoredType DEF History, Stored
<1>2. N > 0 /\ t[N].msg.kind = "tooluse" /\ ~IsUser(t[N].msg)
  <2>1. h # << >> /\ h[Len(h)].kind = "tooluse"
    BY DEF PendingToolUses, LastMsg
  <2>2. N > 0
    BY <1>1, <2>1, EmptySeq
  <2>3. N \in 1 .. N
    BY <1>1, <2>2
  <2> HIDE DEF h, N
  <2> QED
    BY <1>1, <2>1, <2>2, <2>3 DEF IsUser
<1>3. /\ g \in Seq(Message) /\ Len(g) = N - 1
      /\ \A i \in 1 .. N - 1 : g[i] = t[i].msg
  <2> DEFINE k == N - 1
  <2>1. g = SubSeq(h, 1, k)
    BY <1>1 DEF Repair
  <2>2. k \in Nat /\ k <= Len(h) /\ \A i \in 1 .. k : i \in 1 .. N
    BY <1>1, <1>2
  <2> HIDE DEF g, k, h
  <2>3. g \in Seq(Message) /\ Len(g) = k /\ \A i \in 1 .. k : g[i] = h[i]
    BY <1>1, <2>1, <2>2
  <2>4. \A i \in 1 .. k : g[i] = t[i].msg
    BY <1>1, <2>2, <2>3
  <2> QED
    BY <2>3, <2>4 DEF k
<1> HIDE DEF g, h
<1>4. u \in Table /\ InOrder(u)
  <2>1. Len(g) + 1 \in Nat
    BY <1>1, <1>2, <1>3
  <2>2. RowsBelow(t, Len(g) + 1) \in 0 .. N
    BY <2>1, RowsBelowType
  <2> QED
    BY <2>2, PrefixInOrder DEF TruncateMessages
<1>5. CASE \A i \in 1 .. N : t[i].seq = i
  <2>1. RowsBelow(t, Len(g) + 1) = N - 1
    <3>1. \A i \in 1 .. N : t[i].seq < N <=> i <= N - 1
      BY <1>1, <1>5
    <3>2. N - 1 \in 0 .. N /\ Len(g) + 1 = N
      BY <1>1, <1>2, <1>3
    <3> QED
      BY <3>1, <3>2, RowsBelowFirst
  <2>2. u = SubSeq(t, 1, N - 1)
    BY <2>1 DEF TruncateMessages
  <2>3. Len(u) = N - 1 /\ \A i \in 1 .. N - 1 : u[i] = t[i]
    <3>1. N - 1 \in 0 .. N
      BY <1>1, <1>2
    <3> QED
      BY <2>2, <3>1, PrefixInOrder
  <2> HIDE DEF u
  <2>4. Stored(u) = g
    <3>1. Stored(u) \in Seq(Message) /\ Len(Stored(u)) = N - 1
      BY <1>4, <2>3, StoredType DEF History
    <3>2. \A i \in 1 .. N - 1 : Stored(u)[i] = g[i]
      BY <1>3, <2>3 DEF Stored
    <3> QED
      BY <1>3, <3>1, <3>2, SeqEqual
  <2>5. Keeps(t, u)
    <3> SUFFICES ASSUME NEW i \in 1 .. N, i # N
                 PROVE  i <= Len(u) /\ u[i] = t[i]
      BY <1>2, <2>3 DEF Keeps
    <3> QED
      BY <1>1, <2>3
  <2> QED
    BY <1>4, <2>4, <2>5 DEF u, g, h
<1>6. CASE ~\A i \in 1 .. N : t[i].seq = i
  <2>1. PICK i \in 1 .. N : t[i].seq # i
    BY <1>6
  <2>2. PICK j \in 1 .. i - 1 : IsUser(t[j].msg) /\ IsUser(t[j + 1].msg)
    BY <2>1 DEF InOrder
  <2>3. j + 1 # N
    BY <1>2, <2>2
  <2>4. j \in 1 .. Len(g) - 1 /\ j \in 1 .. N - 1 /\ j + 1 \in 1 .. N - 1
    BY <1>1, <1>3, <2>3
  <2>5. g[j] = t[j].msg /\ g[j + 1] = t[j + 1].msg
    BY <1>3, <2>4
  <2>6. ~Alternates(g)
    BY <2>2, <2>4, <2>5 DEF Alternates, IsUser
  <2> HIDE DEF u
  <2> QED
    BY <1>4, <1>6, <2>6 DEF u, g, h
<1> QED
  BY <1>5, <1>6

\* A loaded history in which the roles alternate has no gap in its rows.
LEMMA LoadedTracks ==
    ASSUME NEW t \in Table, InOrder(t), Alternates(Stored(t))
    PROVE  Tracks(t, Stored(t))
<1> DEFINE N == Len(t)
           h == Stored(t)
<1>1. /\ N \in Nat /\ h \in Seq(Message) /\ Len(h) = N
      /\ \A i \in 1 .. N : h[i] = t[i].msg /\ t[i].msg \in Message
  BY RowsTyped, StoredType DEF History, Stored
<1>2. /\ (N = 0 => h = << >>) /\ (N = 0 => LastSeq(t) = 0)
      /\ N > 0 => LastSeq(t) = t[N].seq /\ IsUser(t[1].msg)
  BY <1>1, OrderFacts, EmptySeq
<1> HIDE DEF h, N
<1>3. ASSUME NEW i \in 1 .. N PROVE t[i].seq = i
  <2> SUFFICES ASSUME t[i].seq # i PROVE FALSE
    OBVIOUS
  <2>1. PICK j \in 1 .. i - 1 : IsUser(t[j].msg) /\ IsUser(t[j + 1].msg)
    BY DEF InOrder, N
  <2>2. j \in 1 .. Len(h) - 1 /\ j \in 1 .. N /\ j + 1 \in 1 .. N
    BY <1>1
  <2>3. h[j] = t[j].msg /\ h[j + 1] = t[j + 1].msg
    BY <1>1, <2>2
  <2> QED
    BY <2>1, <2>2, <2>3 DEF Alternates, h, IsUser
<1>4. ASSUME NEW i \in 1 .. N PROVE Tells(t[i], h)
  BY <1>1, <1>3 DEF Tells
<1>5. h # << >> => IsUser(h[1])
  <2>1. h # << >> => N > 0 /\ 1 \in 1 .. N
    BY <1>1, EmptySeq
  <2> QED
    BY <1>1, <1>2, <2>1
<1>6. LastSeq(t) = N
  <2>1. N > 0 => N \in 1 .. N
    BY <1>1
  <2> QED
    BY <1>1, <1>2, <1>3, <2>1
<1>7. Tracks(t, h)
  BY <1>1, <1>4, <1>5, <1>6 DEF Tracks, N
<1> QED
  BY <1>7 DEF h

-----------------------------------------------------------------------------
(* The invariant. *)

\* Where a run goes only when its last message has its row.
Asking == {"spawned", "setup", "loop", "request", "mentor", "tools", "close", "continue"}

\* The rows tell the held history.
Tracked == loaded # NoAgent => Tracks(rows, conv[loaded])

Recorded ==
    \A a \in Agents : pc[a] \in Asking => LastSeq(rows) >= Len(conv[mine[a]])

\* What a request that loads the history has read and repaired.
LoadsTell ==
    \A a \in Agents :
        /\ pc[a] = "repair" =>
              /\ loaded = NoAgent
              /\ PendingToolUses(Stored(rows))
              /\ conv[a] = Repair(Stored(rows))
        /\ pc[a] = "insert" =>
              /\ loaded = NoAgent
              /\ conv[a] = Stored(rows) \/ ~Alternates(conv[a])

RowsKept == InOrder(rows) /\ Tracked /\ Recorded /\ LoadsTell

KeptInv == RowsInv /\ RowsKept

LEMMA AskingPlaces == Asking \subseteq Working /\ {"load", "repair", "insert"} \cap Asking = {}
  BY DEF Asking, Working, TaskPcs, LoopPcs

\* A step that leaves the rows and the histories alone.
LEMMA QuietKept ==
    ASSUME KeptInv, UNCHANGED <<rows, conv>>, loaded' \in {loaded, NoAgent},
           \A b \in Agents :
               /\ pc'[b] \in {"repair", "insert"} => pc'[b] = pc[b]
               /\ pc'[b] \in Asking => pc[b] \in Asking /\ mine'[b] = mine[b]
    PROVE  RowsKept' /\ Keeps(rows, rows')
<1>1. Keeps(rows, rows')
  BY KeepsItself DEF KeptInv, RowsInv, ValidInv, TypeInv, TypeOK
<1> QED
  BY <1>1 DEF KeptInv, RowsKept, InOrder, Tracked, Recorded, LoadsTell

\* A step of the run that works on the held history.
LEMMA WorkKept ==
    ASSUME KeptInv, NEW a \in Agents, pc[a] \in Working,
           NEW g \in History, NEW l, l \notin {"repair", "insert"}, Goto(a, l),
           conv' = [conv EXCEPT ![mine[a]] = g], UNCHANGED <<loaded, mine>>,
           InOrder(rows'), Tracks(rows', g), l \in Asking => LastSeq(rows') >= Len(g)
    PROVE  RowsKept'
<1> USE DEF KeptInv, RowsInv, ValidInv, TypeInv, TypeOK
<1>1. mine[a] \in Agents /\ mine[a] = loaded
  BY DEF Placed, Held, Working, TaskPcs
<1>2. conv'[mine[a]] = g /\ loaded' = mine[a] /\ mine' = mine
  BY <1>1
<1>3. pc' = [pc EXCEPT ![a] = l]
  BY DEF Goto
<1>4. \A b \in Agents : pc'[b] \in Asking \cup {"repair", "insert"} => b = a
  <2> SUFFICES ASSUME NEW b \in Agents, pc'[b] \in Asking \cup {"repair", "insert"}, b # a
               PROVE  FALSE
    OBVIOUS
  <2>1. pc[b] \in Lively /\ pc[a] \in Lively
    BY <1>3, AskingPlaces, LivelyFacts
  <2> QED
    BY <2>1 DEF Alone
<1>5. Tracked'
  BY <1>2 DEF Tracked
<1>6. Recorded'
  BY <1>2, <1>3, <1>4 DEF Recorded
<1>7. LoadsTell'
  BY <1>3, <1>4 DEF LoadsTell
<1> QED
  BY <1>5, <1>6, <1>7 DEF RowsKept

\* The steps that write a turn, and the one that drops it.
LEMMA TurnsKept ==
    ASSUME KeptInv, TypeOK', NEW a \in Agents,
           \/ RecordUserTurn(a) \/ (\E t \in ToolSets : Setup(a, t))
           \/ (\E r \in Replies : MentorAnswers(a, r)) \/ ToolsReturn(a)
           \/ AskToContinue(a) \/ EndRun(a)
    PROVE  RowsKept' /\ Keeps(rows, rows')
<1> DEFINE h == Conversing(a)
           \* The run leaves g, which is h, h with a push, or h repaired.
           Same(g, l) == g = h /\ rows' = rows /\ (l \in Asking => pc[a] \in Asking)
           Push(g, l) == /\ Pushed(h, g)
                         /\ IsUser(g[Len(g)]) \/ pc[a] \in Asking
                         /\ rows' = PutLast(rows, g) \/ (rows' = rows /\ l \notin Asking)
           Drop(g, l) == /\ g = Repair(h) /\ PendingToolUses(h) /\ l \notin Asking
                         /\ rows' \in {rows, TruncateMessages(rows, Len(g))}
<1>0. pc[a] \in {"turn", "setup", "mentor", "tools", "continue", "end"}
  BY DEF RecordUserTurn, Setup, MentorAnswers, ToolsReturn, AskToContinue, EndRun
<1>1. pc[a] \in Working
  BY <1>0 DEF Working, TaskPcs, LoopPcs
<1>2. mine[a] \in Agents /\ mine[a] = loaded /\ loaded # NoAgent /\ h \in History /\ rows \in Table
  BY <1>1, AgentsAssumption DEF Working, TaskPcs, Conversing, KeptInv, RowsInv, ValidInv, TypeInv,
     TypeOK, Placed, Held
<1>3. /\ Alternates(h)
      /\ pc[a] = "mentor" => Awaits(h)
      /\ pc[a] = "tools" => PendingToolUses(h)
  BY <1>1 DEF KeptInv, RowsInv, ValidInv, WorkFits, Fits, WellFormed, Conversing
<1>4. InOrder(rows) /\ Tracks(rows, h)
  BY <1>2 DEF KeptInv, RowsKept, Tracked, Conversing
<1>5. h # << >> => IsUser(h[1])
  BY <1>4 DEF Tracks
<1>6. pc[a] \in Asking => LastSeq(rows) >= Len(h)
  BY DEF KeptInv, RowsKept, Recorded, Conversing
<1>7. PICK g \in History, l \in Pcs \ {"repair", "insert"} :
          /\ Goto(a, l) /\ conv' = [conv EXCEPT ![mine[a]] = g] /\ UNCHANGED <<loaded, mine>>
          /\ Same(g, l) \/ Push(g, l) \/ Drop(g, l)
  <2>0. /\ {"spawned", "rejected", "loop", "end", "close", "tools", "finish"} \subseteq Pcs \ {"repair", "insert"}
        /\ {"rejected", "end", "finish"} \cap Asking = {}
        /\ {"setup", "mentor", "tools", "continue"} \subseteq Asking
    BY DEF Pcs, TaskPcs, LoopPcs, EndedPcs, RequestPcs, Asking
  <2>1. CASE RecordUserTurn(a)
    <3> DEFINE g == PushUserText(h, a)
    <3>1. g \in History /\ Pushed(h, g) /\ IsUser(g[Len(g)])
      BY <1>2, <1>5, PushUserTextType, PushesPush DEF LastMsg
    <3>2. conv' = [conv EXCEPT ![mine[a]] = g] /\ UNCHANGED <<loaded, mine>>
      BY <2>1 DEF RecordUserTurn, SetConversing
    <3>3. \/ Goto(a, "spawned") /\ rows' = PutLast(rows, g)
          \/ Goto(a, "rejected") /\ rows' = rows
      BY <2>1 DEF RecordUserTurn
    <3> HIDE DEF g, h
    <3> QED
      BY <2>0, <3>1, <3>2, <3>3
  <2>2. CASE \E t \in ToolSets : Setup(a, t)
    <3> PICK tools \in ToolSets : Setup(a, tools)
      BY <2>2
    <3> DEFINE changed == prefix \notin {NoTools, tools}
               g == IF changed THEN PushUserText(h, NOTE) ELSE h
    <3>1. /\ g \in History
          /\ changed => Pushed(h, g) /\ IsUser(g[Len(g)])
          /\ ~changed => g = h
      BY <1>2, <1>5, PushUserTextType, PushesPush DEF LastMsg
    <3>2. conv' = [conv EXCEPT ![mine[a]] = g] /\ UNCHANGED <<loaded, mine>>
      BY DEF Setup, SetConversing
    <3>3. \/ Goto(a, "loop") /\ rows' = rows /\ ~changed
          \/ Goto(a, "loop") /\ rows' = IF changed THEN PutLast(rows, g) ELSE rows
          \/ Goto(a, "end") /\ rows' = rows
          \/ Goto(a, "end") /\ changed /\ rows' \in {rows, PutLast(rows, g)}
      BY DEF Setup, Stop
    <3>4. pc[a] = "setup"
      BY DEF Setup
    <3> HIDE DEF g, h, changed
    <3> QED
      BY <2>0, <3>1, <3>2, <3>3, <3>4
  <2>3. CASE \E r \in Replies : MentorAnswers(a, r)
    <3> PICK r \in Replies : MentorAnswers(a, r)
      BY <2>3
    <3> DEFINE g == PushAssistant(h, r.calls)
    <3>0. r.calls \in BOOLEAN /\ pc[a] = "mentor"
      BY RepliesAssumption DEF Reply, MentorAnswers
    <3>1. g \in History /\ Pushed(h, g)
      BY <1>2, <1>3, <1>5, <3>0, PushAssistantType, PushesPush
    <3>2. conv' = [conv EXCEPT ![mine[a]] = g] /\ UNCHANGED <<loaded, mine>>
      BY DEF MentorAnswers, SetConversing
    <3>3. \/ (Goto(a, "tools") \/ Goto(a, "close")) /\ rows' = PutLast(rows, g)
          \/ Goto(a, "end") /\ rows' = rows
      BY DEF MentorAnswers, Stop
    <3> HIDE DEF g, h
    <3> QED
      BY <2>0, <3>0, <3>1, <3>2, <3>3
  <2>4. CASE ToolsReturn(a)
    <3> DEFINE g == PushToolResults(h)
    <3>0. pc[a] = "tools"
      BY <2>4 DEF ToolsReturn
    <3>1. g \in History /\ Pushed(h, g)
      BY <1>2, <1>3, <1>5, <3>0, PushToolResultsType, PushesPush
    <3>2. conv' = [conv EXCEPT ![mine[a]] = g] /\ UNCHANGED <<loaded, mine>>
      BY <2>4 DEF ToolsReturn, SetConversing
    <3>3. \/ Goto(a, "close") /\ rows' = PutLast(rows, g)
          \/ Goto(a, "end") /\ rows' = rows
      BY <2>4 DEF ToolsReturn, Stop
    <3> HIDE DEF g, h
    <3> QED
      BY <2>0, <3>0, <3>1, <3>2, <3>3
  <2>5. CASE AskToContinue(a)
    <3> DEFINE g == PushUserText(h, CONTINUE)
    <3>1. g \in History /\ Pushed(h, g) /\ IsUser(g[Len(g)])
      BY <1>2, <1>5, PushUserTextType, PushesPush DEF LastMsg
    <3>2. conv' = [conv EXCEPT ![mine[a]] = g] /\ UNCHANGED <<loaded, mine>>
      BY <2>5 DEF AskToContinue, SetConversing
    <3>3. \/ Goto(a, "loop") /\ rows' = PutLast(rows, g)
          \/ Goto(a, "end") /\ rows' = rows
      BY <2>5 DEF AskToContinue, Stop
    <3> HIDE DEF g, h
    <3> QED
      BY <2>0, <3>1, <3>2, <3>3
  <2>6. CASE EndRun(a)
    <3> DEFINE g == Repair(h)
    <3>1. g \in History /\ (~PendingToolUses(h) => g = h)
      BY <1>2, RepairType DEF Repair
    <3>2. conv' = [conv EXCEPT ![mine[a]] = g] /\ UNCHANGED <<loaded, mine>> /\ Goto(a, "finish")
      BY <2>6 DEF EndRun, SetConversing
    <3>3. \/ ~PendingToolUses(h) /\ rows' = rows
          \/ PendingToolUses(h) /\ rows' \in {rows, TruncateMessages(rows, Len(g))}
      BY <2>6 DEF EndRun
    <3>4. Same(g, "finish") \/ Drop(g, "finish")
      BY <2>0, <3>1, <3>3
    <3> HIDE DEF g, Same, Drop
    <3> QED
      BY <2>0, <3>1, <3>2, <3>4
  <2> QED
    BY <2>1, <2>2, <2>3, <2>4, <2>5, <2>6
<1> HIDE DEF h
<1>8. /\ InOrder(rows') /\ Tracks(rows', g) /\ Keeps(rows, rows')
      /\ l \in Asking => LastSeq(rows') >= Len(g)
  <2>1. CASE Same(g, l)
    BY <1>2, <1>4, <1>6, <2>1, KeepsItself
  <2>2. CASE Push(g, l)
    <3>1. Tracks(rows, g) /\ Follows(rows, g)
      BY <1>2, <1>3, <1>4, <1>6, <2>2, PushTracks
    <3>2. g # << >>
      BY <2>2 DEF Pushed
    <3>3. CASE rows' = rows
      BY <1>2, <1>4, <2>2, <3>1, <3>2, <3>3, KeepsItself, PutTracks
    <3>4. CASE rows' = PutLast(rows, g)
      BY <1>2, <1>4, <3>1, <3>2, <3>4, PutTracks
    <3> QED
      BY <2>2, <3>3, <3>4
  <2>3. CASE Drop(g, l)
    BY <1>2, <1>3, <1>4, <2>3, RepairTracks
  <2> QED
    BY <1>7, <2>1, <2>2, <2>3
<1>9. RowsKept'
  BY <1>1, <1>7, <1>8, WorkKept
<1> QED
  BY <1>8, <1>9

\* A request that loads the conversation.
LEMMA LoadsKept ==
    ASSUME KeptInv, NEW a \in Agents, Loads(a)
    PROVE  RowsKept' /\ (RepairsGap \/ Keeps(rows, rows'))
<1> USE DEF KeptInv, RowsInv, ValidInv, TypeInv, TypeOK, Goto, memory, bounds, store
<1> DEFINE h == Stored(rows)
<1>0. /\ pc[a] \in {"load", "repair", "insert"}
      /\ \A b \in Agents : pc[b] \notin Asking /\ (b # a => pc[b] \notin {"repair", "insert"})
  <2>1. pc[a] \in {"load", "repair", "insert"}
    BY DEF Loads, LoadHeld, LoadRows, LoadGone, LoadRepair, LoadInsert
  <2> QED
    BY <2>1, LivelyFacts, AskingPlaces DEF Alone
<1>1. h \in History /\ rows \in Table /\ InOrder(rows) /\ Keeps(rows, rows)
  BY StoredType, KeepsItself DEF RowsKept
<1>2. {"start", "rejected"} \cap (Asking \cup {"repair", "insert"}) = {}
  BY DEF Asking
<1>3. CASE LoadHeld(a)
  <2>1. /\ mine' = [mine EXCEPT ![a] = loaded] /\ pc' = [pc EXCEPT ![a] = "start"]
        /\ UNCHANGED <<rows, conv, loaded>>
    BY <1>3 DEF LoadHeld
  <2> QED
    BY <1>0, <1>2, <2>1, QuietKept
<1>4. CASE LoadGone(a) \/ (LoadInsert(a) /\ ~Validate(conv[a]))
  <2>1. pc' = [pc EXCEPT ![a] = "rejected"] /\ UNCHANGED <<rows, conv, loaded, mine>>
    BY <1>4 DEF LoadGone, LoadInsert
  <2> QED
    BY <1>0, <1>2, <2>1, QuietKept
<1>5. CASE LoadRows(a)
  <2>1. /\ loaded = NoAgent /\ conv' = [conv EXCEPT ![a] = Repair(h)]
        /\ pc' = [pc EXCEPT ![a] = IF PendingToolUses(h) THEN "repair" ELSE "insert"]
        /\ UNCHANGED <<rows, loaded>>
    BY <1>5 DEF LoadRows
  <2>2. ~PendingToolUses(h) => Repair(h) = h
    BY DEF Repair
  <2> HIDE DEF h
  <2>3. \A b \in Agents : /\ pc'[b] \notin Asking
                          /\ pc'[b] = "repair" => PendingToolUses(h) /\ conv'[b] = Repair(h)
                          /\ pc'[b] = "insert" => conv'[b] = h
    BY <1>0, <2>1, <2>2, AskingPlaces
  <2>4. Tracked' /\ Recorded'
    BY <2>1, <2>3 DEF Tracked, Recorded
  <2>5. LoadsTell'
    BY <2>1, <2>3 DEF LoadsTell, h
  <2> QED
    BY <1>1, <2>1, <2>4, <2>5 DEF RowsKept
<1>6. CASE LoadRepair(a)
  <2> DEFINE u == TruncateMessages(rows, Len(conv[a]))
  <2>1. /\ pc[a] = "repair" /\ UNCHANGED <<conv, loaded, mine>>
        /\ \/ pc' = [pc EXCEPT ![a] = "insert"] /\ rows' = u
           \/ pc' = [pc EXCEPT ![a] = "rejected"] /\ rows' \in {rows, u}
    BY <1>6 DEF LoadRepair
  <2>2. loaded = NoAgent /\ PendingToolUses(h) /\ conv[a] = Repair(h)
    BY <2>1 DEF RowsKept, LoadsTell
  <2>3. /\ InOrder(u) /\ (conv[a] = Stored(u) \/ ~Alternates(conv[a]))
        /\ (\A i \in 1 .. Len(rows) : rows[i].seq = i) => Keeps(rows, u)
    BY <1>1, <2>2, LoadedRepair
  <2> HIDE DEF u, h
  <2>4. pc'[a] \in {"insert", "rejected"} /\ \A b \in Agents : b # a => pc'[b] = pc[b]
    BY <2>1
  <2>5. \A b \in Agents : pc'[b] \notin Asking \cup {"repair"} /\ (pc'[b] = "insert" => b = a)
    BY <1>0, <1>2, <2>4, AskingPlaces
  <2>6. Tracked' /\ Recorded'
    BY <2>1, <2>2, <2>5 DEF Tracked, Recorded
  <2>7. LoadsTell'
    <3>1. pc'[a] = "insert" => rows' = u
      BY <2>1
    <3> QED
      BY <2>1, <2>2, <2>3, <2>5, <3>1 DEF LoadsTell
  <2>8. RepairsGap \/ Keeps(rows, rows')
    <3>1. ASSUME NEW i \in 1 .. Len(rows), rows[i].seq # i PROVE RepairsGap
      BY <2>1, <2>5, <3>1 DEF RepairsGap
    <3> QED
      BY <1>1, <2>1, <2>3, <3>1
  <2>9. InOrder(rows')
    BY <1>1, <2>1, <2>3
  <2> QED
    BY <2>6, <2>7, <2>8, <2>9 DEF RowsKept
<1>7. CASE LoadInsert(a) /\ Validate(conv[a])
  <2>1. /\ pc[a] = "insert" /\ loaded' = IF loaded = NoAgent THEN a ELSE loaded
        /\ mine' = [mine EXCEPT ![a] = loaded'] /\ pc' = [pc EXCEPT ![a] = "start"]
        /\ UNCHANGED <<rows, conv>>
    BY <1>7 DEF LoadInsert
  <2>2. loaded = NoAgent /\ conv[a] = h
    BY <1>7, <2>1 DEF RowsKept, LoadsTell, Validate
  <2>3. Tracks(rows, conv[a])
    BY <1>1, <1>7, <2>2, LoadedTracks DEF Validate
  <2>4. \A b \in Agents : pc'[b] \notin Asking \cup {"repair", "insert"}
    BY <1>0, <1>2, <2>1
  <2>5. Tracked' /\ Recorded' /\ LoadsTell'
    BY <2>1, <2>2, <2>3, <2>4 DEF Tracked, Recorded, LoadsTell
  <2> QED
    BY <1>1, <2>1, <2>5 DEF RowsKept
<1> QED
  BY <1>3, <1>4, <1>5, <1>6, <1>7 DEF Loads

\* Everything else leaves the rows alone, or deletes them.
LEMMA OthersKept ==
    ASSUME KeptInv, [Next]_vars,
           \A a \in Agents :
               /\ ~Loads(a) /\ ~RecordUserTurn(a) /\ ~(\E t \in ToolSets : Setup(a, t))
               /\ ~(\E r \in Replies : MentorAnswers(a, r)) /\ ~ToolsReturn(a)
               /\ ~AskToContinue(a) /\ ~EndRun(a)
    PROVE  RowsKept' /\ (session' \in {"deleted", "purged"} \/ Keeps(rows, rows'))
<1> USE DEF KeptInv, RowsInv, ValidInv, TypeInv, TypeOK, Goto, Stop, memory, tasks, store, bounds
<1>1. CASE FinishShutdown \/ Crash
  <2>1. LoseMemory
    BY <1>1 DEF FinishShutdown, Crash
  <2>2. /\ loaded' = NoAgent /\ UNCHANGED rows
        /\ \A a \in Agents : pc'[a] \in {"idle"} \cup EndedPcs
    BY <2>1 DEF LoseMemory, EndedPcs
  <2>3. \A a \in Agents : pc'[a] \notin Asking \cup {"repair", "insert"}
    BY <2>2 DEF EndedPcs, Asking
  <2>4. Tracked' /\ Recorded' /\ LoadsTell'
    BY <2>2, <2>3 DEF Tracked, Recorded, LoadsTell
  <2> QED
    BY <2>2, <2>4, KeepsItself DEF RowsKept
<1>2. CASE \E purge \in BOOLEAN : DeleteCommit(purge)
  <2> PICK purge \in BOOLEAN : DeleteCommit(purge)
    BY <1>2
  <2>1. /\ admin = "delete" /\ UNCHANGED <<conv, loaded, pc, mine>>
        /\ UNCHANGED rows \/ (rows' = << >> /\ session' \in {"deleted", "purged"})
    BY DEF DeleteCommit
  <2>2. loaded = NoAgent /\ \A a \in Agents : pc[a] \notin Asking \cup {"repair", "insert"}
    BY <2>1, LivelyFacts, AskingPlaces DEF Locked, Forgotten
  <2>3. CASE UNCHANGED rows
    BY <2>1, <2>3, QuietKept
  <2>4. CASE rows' = << >> /\ session' \in {"deleted", "purged"}
    <3>1. Len(rows') = 0
      BY <2>4, EmptySeq
    <3>2. InOrder(rows')
      BY <3>1 DEF InOrder
    <3>3. Tracked' /\ Recorded' /\ LoadsTell'
      BY <2>1, <2>2 DEF Tracked, Recorded, LoadsTell
    <3> QED
      BY <2>4, <3>2, <3>3 DEF RowsKept
  <2> QED
    BY <2>1, <2>3, <2>4
<1>3. CASE \E a \in Agents : StartAgent(a) \/ Register(a) \/ Tell(a) \/ Request(a)
  <2> PICK a \in Agents : StartAgent(a) \/ Register(a) \/ Tell(a) \/ Request(a)
    BY <1>3
  <2>1. /\ UNCHANGED <<rows, conv, loaded>>
        /\ \A b \in Agents : b # a => mine'[b] = mine[b]
        /\ \E l \in {"register", "rejected", "turn", "done", "load"} : Goto(a, l)
    BY DEF StartAgent, Register, Tell, Request
  <2>2. {"register", "rejected", "turn", "done", "load"} \cap (Asking \cup {"repair", "insert"}) = {}
    BY DEF Asking
  <2>3. /\ pc'[a] \notin Asking \cup {"repair", "insert"}
        /\ \A b \in Agents : b # a => pc'[b] = pc[b]
    BY <2>1, <2>2
  <2> QED
    BY <2>1, <2>3, QuietKept
<1>4. CASE \E a \in Agents : \/ TaskBegin(a) \/ SetupFails(a) \/ FinishAgent(a) \/ Release(a)
                             \/ LoopStops(a) \/ BeginStep(a) \/ SendRequest(a)
                             \/ MentorFails(a) \/ CloseStep(a)
  <2> PICK a \in Agents : \/ TaskBegin(a) \/ SetupFails(a) \/ FinishAgent(a) \/ Release(a)
                          \/ LoopStops(a) \/ BeginStep(a) \/ SendRequest(a)
                          \/ MentorFails(a) \/ CloseStep(a)
    BY <1>4
  <2>1. /\ UNCHANGED <<rows, conv, loaded, mine>>
        /\ \/ \E l \in {"release", "tell"} : Goto(a, l)
           \/ /\ pc[a] \in {"spawned", "setup", "loop", "request", "mentor", "close"}
              /\ \E l \in {"setup", "end", "request", "mentor", "loop", "continue"} : Goto(a, l)
    BY DEF TaskBegin, SetupFails, FinishAgent, Release, LoopStops, BeginStep,
         SendRequest, MentorFails, CloseStep
  <2>2. /\ {"spawned", "setup", "loop", "request", "mentor", "close"} \subseteq Asking
        /\ {"release", "tell"} \cap Asking = {}
    BY DEF Asking
  <2>3. /\ pc'[a] \notin {"repair", "insert"} /\ (pc'[a] \in Asking => pc[a] \in Asking)
        /\ \A b \in Agents : b # a => pc'[b] = pc[b]
    BY <2>1, <2>2
  <2> QED
    BY <2>1, <2>3, QuietKept
<1>5. CASE \/ \E a \in Agents : Stall(a) \/ Cancel(a)
           \/ \E archived \in BOOLEAN : ArchiveRequest(archived)
           \/ DeleteRequest \/ BeginShutdown \/ Restarts
  <2>1. UNCHANGED <<rows, conv, pc, mine>> /\ loaded' \in {loaded, NoAgent}
    BY <1>5 DEF Stall, Cancel, ArchiveRequest, DeleteRequest, BeginShutdown,
       Restarts, Start, Recover, Serve
  <2> QED
    BY <2>1, QuietKept
<1>6. CASE ArchiveCommit \/ ArchiveForget
  <2>1. UNCHANGED <<rows, conv, pc, mine>> /\ loaded' \in {loaded, NoAgent}
    BY <1>6 DEF ArchiveCommit, ArchiveForget
  <2> QED
    BY <2>1, QuietKept
<1>7. CASE UNCHANGED vars \/ Quiescent
  <2>1. UNCHANGED <<rows, conv, pc, mine, loaded>>
    BY <1>7 DEF vars, Quiescent
  <2> QED
    BY <2>1, QuietKept
<1> QED
  BY <1>1, <1>2, <1>3, <1>4, <1>5, <1>6, <1>7 DEF Next, Asks, Administers, Begins, Runs, Loops

LEMMA InitKeptInv == Init => KeptInv
<1> SUFFICES ASSUME Init PROVE KeptInv
  OBVIOUS
<1>1. rows = << >> /\ loaded = NoAgent /\ \A a \in Agents : pc[a] = "idle"
  BY DEF Init
<1>2. Len(rows) = 0
  BY <1>1, EmptySeq
<1>3. InOrder(rows)
  BY <1>2 DEF InOrder
<1>4. Tracked /\ Recorded /\ LoadsTell
  BY <1>1 DEF Tracked, Recorded, LoadsTell, Asking
<1> QED
  BY <1>3, <1>4, InitRowsInv DEF KeptInv, RowsKept

LEMMA NextKeptInv ==
    ASSUME SerialClients, \A r \in Replies : r.stop # "pause_turn", KeptInv, [Next]_vars
    PROVE  /\ KeptInv'
           /\ session' \in {"deleted", "purged"} \/ RepairsGap \/ Keeps(rows, rows')
<1>1. RowsInv' /\ TypeOK'
  BY NextRowsInv DEF KeptInv, RowsInv, ValidInv, TypeInv
<1> QED
  BY <1>1, TurnsKept, LoadsKept, OthersKept DEF KeptInv

\* mod.rs (run_loop, after_response, run_tools) and trace/sessions.rs
\* (put_message, truncate_messages): whatever runs, refused writes, crashes
\* and restarts come, a stored message keeps its place, its kind and its texts
\* until the session is deleted; what a repair takes is the exception.
THEOREM StoredHistoryIsKept ==
    ASSUME SerialClients, \A r \in Replies : r.stop # "pause_turn"
    PROVE  Spec => HistoryKept
<1>1. Init => KeptInv
  BY InitKeptInv
<1>2. KeptInv /\ [Next]_vars => KeptInv'
  BY NextKeptInv
<1>3. KeptInv /\ [Next]_vars =>
          [\/ session' \in {"deleted", "purged"}
           \/ RepairsGap
           \/ \A i \in 1 .. Len(rows) :
                 \/ i = Len(rows) /\ rows[i].msg.kind = "tooluse"
                 \/ /\ i <= Len(rows')
                    /\ rows'[i].seq = rows[i].seq
                    /\ rows'[i].msg.kind = rows[i].msg.kind
                    /\ rows[i].msg.texts \subseteq rows'[i].msg.texts]_vars
  BY NextKeptInv DEF Keeps
<1> QED
  BY <1>1, <1>2, <1>3, PTL DEF Spec, HistoryKept
=============================================================================
