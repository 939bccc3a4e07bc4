------------------------- MODULE TraceWriterProofs -------------------------
(***************************************************************************)
(* The log of the trace writer is its queue, and what it promises its      *)
(* callers (TraceLog) is kept: theorems of TraceWriter for every number of *)
(* callers and calls, every capacity and every batch size.                 *)
(***************************************************************************)
EXTENDS TraceWriter, FiniteSetTheorems, SequenceTheorems, TLAPS

-----------------------------------------------------------------------------
(* What a batch leaves in the log.                                         *)

\* How many of the first i commands of a batch are committed.
Before(ok, i) == Cardinality({j \in 1 .. i : ok[j]})

LEMMA LeastOf ==
    ASSUME NEW T, T \subseteq Nat, T # {}
    PROVE  \E x \in T : \A y \in T : x <= y
<1>1. PICK x \in T : \A y \in T : ~(<<y, x>> \in OpToRel(<, Nat))
  BY WFMin, NatLessThanWellFounded, Zenon
<1>2. \A y \in T : ~(y < x)
  BY <1>1 DEF OpToRel
<1>3. QED
  BY <1>2

LEMMA BeforeSteps ==
    ASSUME NEW n \in Nat, NEW ok \in [1 .. n -> BOOLEAN], NEW i \in 1 .. n
    PROVE  /\ ok[i] => Before(ok, i) = Before(ok, i - 1) + 1
           /\ ~ok[i] => Before(ok, i) = Before(ok, i - 1)
           /\ Before(ok, i - 1) \in Nat /\ Before(ok, i) \in Nat
<1> DEFINE S == {j \in 1 .. (i - 1) : ok[j]}
<1>1. IsFiniteSet(S)
  <2>1. S \in SUBSET (1 .. (i - 1)) /\ IsFiniteSet(1 .. (i - 1))
    BY FS_Interval
  <2>2. QED
    BY <2>1, FS_Subset
<1>2. {j \in 1 .. i : ok[j]} = IF ok[i] THEN S \cup {i} ELSE S
  OBVIOUS
<1>3. i \notin S
  OBVIOUS
<1>4. Cardinality(S) \in Nat
  BY <1>1, FS_CardinalityType
<1>5. Cardinality(S \cup {i}) = Cardinality(S) + 1
  BY <1>1, <1>3, FS_AddElement
<1>6. Before(ok, i - 1) = Cardinality(S)
  BY DEF Before
<1>7. CASE ok[i]
  <2>1. Before(ok, i) = Cardinality(S \cup {i})
    BY <1>2, <1>7 DEF Before
  <2>2. QED
    BY <2>1, <1>4, <1>5, <1>6, <1>7
<1>8. CASE ~ok[i]
  <2>1. Before(ok, i) = Cardinality(S)
    BY <1>2, <1>8 DEF Before
  <2>2. QED
    BY <2>1, <1>4, <1>6, <1>8
<1>9. QED
  BY <1>7, <1>8

LEMMA BeforeGrows ==
    ASSUME NEW n \in Nat, NEW ok \in [1 .. n -> BOOLEAN],
           NEW i \in 0 .. n, NEW j \in 1 .. n, i < j, ok[j]
    PROVE  Before(ok, i) < Before(ok, j)
<1> DEFINE S == {k \in 1 .. i : ok[k]}
           T == {k \in 1 .. (j - 1) : ok[k]}
<1>1. IsFiniteSet(T)
  <2>1. T \in SUBSET (1 .. (j - 1)) /\ IsFiniteSet(1 .. (j - 1))
    BY FS_Interval
  <2>2. QED
    BY <2>1, FS_Subset
<1>2. S \in SUBSET T
  OBVIOUS
<1>3. Before(ok, i) <= Before(ok, j - 1)
  BY <1>1, <1>2, FS_Subset DEF Before
<1>4. IsFiniteSet(S)
  BY <1>1, <1>2, FS_Subset
<1>5. Before(ok, i) \in Nat
  BY <1>4, FS_CardinalityType DEF Before
<1>6. Before(ok, j) = Before(ok, j - 1) + 1 /\ Before(ok, j - 1) \in Nat
  BY BeforeSteps
<1>7. QED
  BY <1>3, <1>5, <1>6

\* Every number up to that of the committed commands is that of one.
LEMMA BeforeReaches ==
    ASSUME NEW n \in Nat, NEW ok \in [1 .. n -> BOOLEAN], NEW k \in 1 .. Before(ok, n)
    PROVE  \E i \in 1 .. n : ok[i] /\ Before(ok, i) = k
<1>0. Before(ok, 0) = 0
  <2>1. {j \in 1 .. 0 : ok[j]} = {}
    OBVIOUS
  <2>2. QED
    BY <2>1, FS_EmptySet DEF Before
<1>1. Before(ok, n) \in Nat
  BY <1>0, BeforeSteps
<1> DEFINE T == {i \in 1 .. n : k <= Before(ok, i)}
<1>2. n \in T
  BY <1>0, <1>1
<1>3. PICK i \in T : \A y \in T : i <= y
  <2>1. T \subseteq Nat /\ T # {}
    BY <1>2
  <2>2. QED
    BY <2>1, LeastOf
<1>4. Before(ok, i - 1) < k
  <2>1. CASE i = 1
    BY <2>1, <1>0
  <2>2. CASE i # 1
    <3>1. i - 1 \notin T /\ i - 1 \in 1 .. n
      BY <1>3, <2>2
    <3>2. Before(ok, i - 1) \in Nat
      BY BeforeSteps
    <3>3. QED
      BY <3>1, <3>2
  <2>3. QED
    BY <2>1, <2>2
<1>5. i \in 1 .. n /\ k <= Before(ok, i)
  OBVIOUS
<1>6. ok[i] /\ Before(ok, i) = k
  <2>1. /\ ok[i] => Before(ok, i) = Before(ok, i - 1) + 1
        /\ ~ok[i] => Before(ok, i) = Before(ok, i - 1)
        /\ Before(ok, i - 1) \in Nat /\ Before(ok, i) \in Nat
    BY <1>5, BeforeSteps
  <2>2. QED
    BY <1>4, <1>5, <2>1
<1>7. QED
  BY <1>5, <1>6

\* What Commit appends to the log: commands of the batch, each of those that
\* are committed, in their order.
LEMMA KeptInOrder ==
    ASSUME TypeOK, NEW ok \in [1 .. Len(batch) -> BOOLEAN]
    PROVE  /\ Kept(ok) \in Seq(Cmd)
           /\ \A k \in 1 .. Len(Kept(ok)) : \E i \in 1 .. Len(batch) :
                  ok[i] /\ Before(ok, i) = k /\ Kept(ok)[k] = batch[i]
           /\ \A i \in 1 .. Len(batch) : ok[i] => \E k \in 1 .. Len(Kept(ok)) : Kept(ok)[k] = batch[i]
           /\ \A k, l \in 1 .. Len(Kept(ok)) : k < l =>
                  \E i, j \in 1 .. Len(batch) :
                     /\ i < j /\ ok[i] /\ ok[j]
                     /\ Kept(ok)[k] = batch[i] /\ Kept(ok)[l] = batch[j]
<1> DEFINE n == Len(batch)
           m == Before(ok, n)
           At(k) == CHOOSE i \in 1 .. n : ok[i] /\ Before(ok, i) = k
<1>1. batch \in Seq(Cmd) /\ n \in Nat /\ ok \in [1 .. n -> BOOLEAN]
  BY LenProperties DEF TypeOK
<1>2. m \in Nat
  <2>1. {j \in 1 .. n : ok[j]} \in SUBSET (1 .. n) /\ IsFiniteSet(1 .. n)
    BY <1>1, FS_Interval
  <2>2. QED
    BY <2>1, FS_Subset, FS_CardinalityType DEF Before
<1>3. Kept(ok) = [k \in 1 .. m |-> batch[At(k)]]
  BY DEF Kept, Before
<1> HIDE DEF n
<1>4. \A k \in 1 .. m : At(k) \in 1 .. n /\ ok[At(k)] /\ Before(ok, At(k)) = k
  <2> TAKE k \in 1 .. m
  <2>1. \E i \in 1 .. n : ok[i] /\ Before(ok, i) = k
    BY <1>1, BeforeReaches
  <2>2. QED
    BY <2>1
<1>g. \A i, j \in 1 .. n : i < j /\ ok[j] => Before(ok, i) < Before(ok, j)
  <2> TAKE i, j \in 1 .. n
  <2> HAVE i < j /\ ok[j]
  <2>1. i \in 0 .. n
    BY <1>1
  <2>2. QED
    BY <1>1, <2>1, BeforeGrows
<1> HIDE DEF At, m
<1>5. Kept(ok) \in Seq(Cmd) /\ Len(Kept(ok)) = m
  BY <1>1, <1>2, <1>3, <1>4 DEF n
<1>6. \A i \in 1 .. n : ok[i] => Before(ok, i) \in 1 .. m /\ At(Before(ok, i)) = i
  <2> TAKE i \in 1 .. n
  <2> HAVE ok[i]
  <2>1. Before(ok, i) \in Nat \ {0}
    <3>1. (ok[i] => Before(ok, i) = Before(ok, i - 1) + 1) /\ Before(ok, i - 1) \in Nat
      BY <1>1, BeforeSteps
    <3>2. QED
      BY <3>1
  <2>2. Before(ok, i) <= m
    <3>1. CASE i = n
      BY <3>1, <1>2 DEF m
    <3>2. CASE i # n
      <4>1. {j \in 1 .. i : ok[j]} \in SUBSET {j \in 1 .. n : ok[j]}
        BY <1>1
      <4>2. {j \in 1 .. n : ok[j]} \in SUBSET (1 .. n) /\ IsFiniteSet(1 .. n)
        BY <1>1, FS_Interval
      <4>3. QED
        BY <4>1, <4>2, FS_Subset DEF Before, m
    <3>3. QED
      BY <3>1, <3>2
  <2>3. Before(ok, i) \in 1 .. m
    BY <2>1, <2>2, <1>2
  <2>4. At(Before(ok, i)) \in 1 .. n /\ ok[At(Before(ok, i))]
        /\ Before(ok, At(Before(ok, i))) = Before(ok, i)
    BY <2>3, <1>4
  <2>5. At(Before(ok, i)) = i
    BY <2>4, <2>1, <1>1, <1>g
  <2>6. QED
    BY <2>3, <2>5
<1>7. \A k, l \in 1 .. m : k < l => At(k) < At(l)
  <2> TAKE k, l \in 1 .. m
  <2> HAVE k < l
  <2>1. ~(At(l) < At(k)) /\ At(l) # At(k)
    BY <1>1, <1>2, <1>4, <1>g
  <2>2. QED
    BY <2>1, <1>1, <1>4
<1>8. \A k \in 1 .. m : Kept(ok)[k] = batch[At(k)]
  BY <1>3
<1>9. QED
  BY <1>4, <1>5, <1>6, <1>7, <1>8 DEF n

-----------------------------------------------------------------------------
(* Types.                                                                  *)

LEMMA NotStop ==
    /\ \A cmd \in Cmd : cmd # Stop /\ cmd.by \in Callers /\ cmd.n \in 1 .. MaxCalls
    /\ \A cmd \in Cmds : cmd.by \in Callers \/ IsAppend(cmd) \/ cmd # Stop => cmd \in Cmd
    /\ Stop \in Cmds /\ ~IsAppend(Stop)
BY CloserAssumption DEF Cmd, Cmds, Stop, IsAppend

LEMMA SendTypes ==
    ASSUME TypeOK, NEW cmd \in Cmds, Send(cmd)
    PROVE  /\ queue' \in Seq(Cmds) /\ Len(queue') <= QueueCapacity
           /\ senders' \in Seq(Cmds) /\ sent' \in Seq(Cmds)
<1>0. /\ queue \in Seq(Cmds) /\ senders \in Seq(Cmds) /\ sent \in Seq(Cmds)
      /\ Len(queue) \in Nat /\ Len(senders) \in Nat /\ Len(queue) <= QueueCapacity
  BY LenProperties DEF TypeOK
<1>1. CASE Free
  <2>1. queue' = Append(queue, cmd) /\ sent' = Append(sent, cmd) /\ senders' = senders
    BY <1>1 DEF Send, Enqueue
  <2>2. Len(queue) + 1 <= QueueCapacity
    BY <1>0, <1>1, CapacityAssumption DEF Free
  <2>3. QED
    BY <1>0, <2>1, <2>2
<1>2. CASE ~Free
  <2>1. queue' = queue /\ sent' = sent /\ senders' = Append(senders, cmd)
    BY <1>2 DEF Send
  <2>2. QED
    BY <1>0, <2>1
<1>3. QED
  BY <1>1, <1>2

\* The head of what comes next, and what stays in the queue behind it.
LEMMA IncomingHead ==
    ASSUME TypeOK, Incoming # << >>
    PROVE  /\ Head(Incoming) \in Cmds
           /\ held # << >> => Head(Incoming) = held[1] /\ Len(held) = 1
           /\ held = << >> => /\ queue # << >> /\ Head(Incoming) = queue[1]
                              /\ Tail(queue) \in Seq(Cmds)
                              /\ Len(Tail(queue)) = Len(queue) - 1
                              /\ \A i \in 1 .. Len(Tail(queue)) : Tail(queue)[i] = queue[i + 1]
           /\ ToSet(Tail(Incoming)) \subseteq ToSet(queue)
<1>0. held \in Seq(Cmds) /\ queue \in Seq(Cmds) /\ Len(held) <= 1
  BY DEF TypeOK
<1>1. CASE held # << >>
  <2>1. Len(held) = 1 /\ held[1] \in Cmds
    <3>1. Len(held) \in Nat \ {0}
      BY <1>0, <1>1, EmptySeq
    <3>2. QED
      BY <1>0, <3>1
  <2>2. /\ Incoming \in Seq(Cmds) /\ Len(Incoming) = 1 + Len(queue)
        /\ \A i \in 1 .. 1 + Len(queue) : Incoming[i] = IF i <= 1 THEN held[i] ELSE queue[i - 1]
    <3>1. /\ held \o queue \in Seq(Cmds) /\ Len(held \o queue) = Len(held) + Len(queue)
          /\ \A i \in 1 .. Len(held) + Len(queue) :
                (held \o queue)[i] = IF i <= Len(held) THEN held[i] ELSE queue[i - Len(held)]
      BY <1>0, ConcatProperties
    <3>2. QED
      BY <2>1, <3>1 DEF Incoming
  <2>3. Len(queue) \in Nat
    BY <1>0, LenProperties
  <2>4. Head(Incoming) = held[1]
    BY <2>2, <2>3
  <2>5. Len(Tail(Incoming)) = Len(queue)
        /\ \A i \in 1 .. Len(queue) : Tail(Incoming)[i] = queue[i]
    BY <2>2, <2>3, HeadTailProperties
  <2>6. QED
    BY <1>1, <2>1, <2>4, <2>5 DEF ToSet
<1>2. CASE held = << >>
  <2>1. Incoming = queue /\ queue # << >>
    BY <1>0, <1>2, ConcatEmptySeq DEF Incoming
  <2>2. /\ Head(queue) \in Cmds /\ Tail(queue) \in Seq(Cmds)
        /\ Len(Tail(queue)) = Len(queue) - 1
        /\ \A i \in 1 .. Len(Tail(queue)) : Tail(queue)[i] = queue[i + 1]
    BY <1>0, <2>1, HeadTailProperties
  <2>3. Head(queue) = queue[1] /\ Len(queue) \in Nat
    BY <1>0, <2>1, LenProperties
  <2>4. ToSet(Tail(queue)) \subseteq ToSet(queue)
    BY <2>2, <2>3 DEF ToSet
  <2>5. QED
    BY <1>2, <2>1, <2>2, <2>3, <2>4
<1>3. QED
  BY <1>1, <1>2

LEMMA TypeStep ==
    ASSUME TypeOK, [Next]_vars
    PROVE  TypeOK'
<1> USE CloserAssumption, CallsAssumption
<1>1. ASSUME NEW c \in Callers, NEW op \in Ops, Call(c, op)
      PROVE  TypeOK'
  <2>1. NextCmd(c, op) \in Cmd /\ NextCmd(c, op) \in Cmds
    BY <1>1 DEF NextCmd, Call, MayCall, Cmd, Cmds, TypeOK
  <2>2. calls' \in [Callers -> 0 .. MaxCalls]
    BY <1>1 DEF Call, Counted, MayCall, TypeOK
  <2>3. CASE Closed
    BY <1>1, <2>1, <2>2, <2>3 DEF Call, TypeOK, thread, Answer
  <2>4. CASE ~Closed
    <3>1. Send(NextCmd(c, op)) /\ awaits' \subseteq Callers /\ UNCHANGED <<answers, deferred, thread, closing>>
      BY <1>1, <2>4 DEF Call, TypeOK
    <3>2. QED
      BY <2>1, <2>2, <3>1, SendTypes DEF TypeOK, thread
  <2>5. QED
    BY <2>3, <2>4
<1>2. ASSUME NEW c \in Callers, AppendDetached(c), "append_detached" \in Ops
      PROVE  TypeOK'
  <2>1. NextCmd(c, "append_detached") \in Cmd
    BY <1>2 DEF NextCmd, AppendDetached, MayCall, Cmd, TypeOK
  <2>2. calls' \in [Callers -> 0 .. MaxCalls]
    BY <1>2 DEF AppendDetached, Counted, MayCall, TypeOK
  <2>3. CASE Free /\ ~Closed
    <3>1. Send(NextCmd(c, "append_detached")) /\ UNCHANGED <<deferred, senders, thread, awaits, answers, closing>>
      BY <1>2, <2>3 DEF AppendDetached, Send
    <3>2. NextCmd(c, "append_detached") \in Cmds
      BY <2>1 DEF Cmds
    <3>3. QED
      BY <2>2, <3>1, <3>2, SendTypes DEF TypeOK, thread
  <2>4. CASE ~(Free /\ ~Closed)
    <3>1. /\ UNCHANGED <<queue, sent, senders, thread, awaits, answers, closing>>
          /\ deferred' = deferred \/ deferred' = deferred \cup {NextCmd(c, "append_detached")}
      BY <1>2, <2>4, Zenon DEF AppendDetached, Free
    <3>2. QED
      BY <2>1, <2>2, <3>1 DEF TypeOK, thread
  <2>5. QED
    BY <2>3, <2>4
<1>3. ASSUME NEW cmd \in deferred, SendDeferred(cmd)
      PROVE  TypeOK'
  <2>1. cmd \in Cmds
    BY DEF TypeOK, Cmds
  <2>2. CASE Closed
    BY <1>3, <2>2 DEF SendDeferred, TypeOK, thread, clients
  <2>3. CASE ~Closed
    BY <1>3, <2>1, <2>3, SendTypes DEF SendDeferred, TypeOK, thread, clients
  <2>4. QED
    BY <2>2, <2>3
<1>4. CASE Admit
  <2>1. PICK i \in 1 .. Len(senders) :
          /\ i <= QueueCapacity - Len(queue)
          /\ Enqueue(senders[i])
          /\ senders' = [j \in 1 .. Len(senders) - 1 |->
                            IF j < i THEN senders[j] ELSE senders[j + 1]]
    BY <1>4 DEF Admit
  <2>2. senders \in Seq(Cmds) /\ Len(senders) \in Nat /\ senders[i] \in Cmds
    BY LenProperties, ElementOfSeq DEF TypeOK
  <2>3. senders' \in Seq(Cmds)
    <3>1. \A j \in 1 .. Len(senders) - 1 :
             (IF j < i THEN senders[j] ELSE senders[j + 1]) \in Cmds
      BY <2>2, ElementOfSeq
    <3>2. QED
      BY <2>1, <2>2, <3>1
  <2>4. queue' \in Seq(Cmds) /\ sent' \in Seq(Cmds) /\ Len(queue') = Len(queue) + 1
    BY <2>1, <2>2, AppendProperties DEF Enqueue, TypeOK
  <2>5. Len(queue) \in Nat
    BY LenProperties DEF TypeOK
  <2>6. QED
    <3>1. Len(queue') <= QueueCapacity
      BY <2>1, <2>2, <2>4, <2>5, CapacityAssumption
    <3>2. UNCHANGED <<deferred, thread, clients, closing>>
      BY <1>4 DEF Admit
    <3>3. QED
      BY <2>3, <2>4, <3>1, <3>2 DEF TypeOK, thread, clients
<1>5. CASE Receive
  <2>1. Incoming # << >> /\ Head(Incoming) # Stop
    BY <1>5 DEF Receive
  <2>2. Head(Incoming) \in Cmd
    BY <2>1, IncomingHead, NotStop
  <2>3. queue' \in Seq(Cmds) /\ Len(queue') <= QueueCapacity
    <3>1. CASE held # << >>
      BY <1>5, <3>1 DEF Receive, TypeOK
    <3>2. CASE held = << >>
      <4>1. queue' = Tail(queue) /\ Len(queue) \in Nat
        BY <1>5, <3>2, LenProperties DEF Receive, TypeOK
      <4>2. QED
        BY <2>1, <3>2, <4>1, IncomingHead, CapacityAssumption DEF TypeOK
    <3>3. QED
      BY <3>1, <3>2
  <2>4. batch' \in Seq(Cmd) /\ Len(batch') = 1
    BY <1>5, <2>2 DEF Receive
  <2>5. QED
    BY <1>5, <2>3, <2>4, CapacityAssumption, EmptySeq DEF Receive, TypeOK, clients
<1>6. CASE ReceiveStop
  <2> DEFINE dropped == Awaited(ToSet(Tail(Incoming)) \cup ToSet(senders))
  <2>1. ToSet(Tail(Incoming)) \cup ToSet(senders) \subseteq Cmds
    <3>1. ToSet(queue) \subseteq Cmds /\ ToSet(senders) \subseteq Cmds
      BY ElementOfSeq DEF TypeOK, ToSet
    <3>2. QED
      BY <1>6, <3>1, IncomingHead DEF ReceiveStop
  <2>2. dropped \subseteq Cmd
    BY <2>1, NotStop DEF Awaited, TypeOK
  <2>3. /\ answers' = answers \cup {Answer(cmd, "closed") : cmd \in dropped}
        /\ awaits' = awaits \ {cmd.by : cmd \in dropped}
        /\ worker' = "stopped" /\ held' = << >> /\ queue' = << >> /\ senders' = << >>
        /\ UNCHANGED <<deferred, sent, batch, outcome, log, failures, calls, closing>>
    BY <1>6 DEF ReceiveStop
  <2> HIDE DEF dropped
  <2>4. answers' \subseteq [cmd : Cmd, says : {"ok", "error", "closed"}]
    BY <2>2, <2>3 DEF Answer, TypeOK
  <2>5. QED
    BY <2>3, <2>4, CapacityAssumption DEF TypeOK
<1>7. CASE Gather
  <2>1. CASE Len(batch) = MaxBatch \/ queue = << >>
    BY <1>7, <2>1 DEF Gather, TypeOK, clients
  <2>2. CASE ~(Len(batch) = MaxBatch \/ queue = << >>)
    <3>1. /\ queue' = Tail(queue) /\ Tail(queue) \in Seq(Cmds) /\ Head(queue) \in Cmds
          /\ Len(Tail(queue)) = Len(queue) - 1 /\ Len(queue) \in Nat
      BY <1>7, <2>2, HeadTailProperties, LenProperties DEF Gather, TypeOK
    <3>2. Len(queue') <= QueueCapacity
      BY <3>1, CapacityAssumption DEF TypeOK
    <3>3. CASE IsAppend(Head(queue))
      <4>1. Head(queue) \in Cmd
        BY <3>1, <3>3, NotStop
      <4>2. batch' \in Seq(Cmd) /\ Len(batch') = Len(batch) + 1 /\ Len(batch) \in Nat
        <5>1. batch' = Append(batch, Head(queue)) /\ batch \in Seq(Cmd)
          BY <1>7, <2>2, <3>3 DEF Gather, TypeOK
        <5>2. QED
          BY <4>1, <5>1
      <4>3. QED
        BY <1>7, <2>2, <3>1, <3>2, <3>3, <4>2, CapacityAssumption DEF Gather, TypeOK, clients
    <3>4. CASE ~IsAppend(Head(queue))
      <4>1. held' \in Seq(Cmds) /\ Len(held') <= 1
        <5>1. held' = <<Head(queue)>>
          BY <1>7, <2>2, <3>4 DEF Gather
        <5>2. QED
          BY <3>1, <5>1
      <4>2. QED
        BY <1>7, <2>2, <3>1, <3>2, <3>4, <4>1 DEF Gather, TypeOK, clients
    <3>5. QED
      BY <3>3, <3>4
  <2>3. QED
    BY <2>1, <2>2
<1>8. CASE Commit
  <2>1. PICK ok \in [1 .. Len(batch) -> BOOLEAN] :
          /\ outcome' = ok
          /\ log' = log \o Kept(ok)
          /\ IF \A i \in 1 .. Len(batch) : ok[i]
             THEN UNCHANGED failures
             ELSE failures < MaxFailures /\ failures' = failures + 1
    BY <1>8 DEF Commit
  <2>2. log' \in Seq(Cmd)
    BY <2>1, KeptInOrder, ConcatProperties DEF TypeOK
  <2>3. outcome' \in Seq(BOOLEAN)
    BY <2>1, LenProperties DEF TypeOK
  <2>4. failures' \in 0 .. MaxFailures
    BY <2>1 DEF TypeOK
  <2>5. QED
    BY <1>8, <2>2, <2>3, <2>4 DEF Commit, TypeOK, channel, clients
<1>9. CASE Reply
  <2>1. \A i \in 1 .. Len(batch) : batch[i] \in Cmd
    BY ElementOfSeq DEF TypeOK
  <2>2. answers' \subseteq [cmd : Cmd, says : {"ok", "error", "closed"}]
    BY <1>9, <2>1 DEF Reply, Answer, TypeOK
  <2>3. QED
    BY <1>9, <2>2, EmptySeq, CapacityAssumption DEF Reply, TypeOK, channel
<1>10. CASE Shutdown
  BY <1>10, NotStop, SendTypes DEF Shutdown, TypeOK, thread, clients
<1>11. CASE ShutdownReturns
  BY <1>11 DEF ShutdownReturns, TypeOK, channel, thread, clients
<1>12. CASE UNCHANGED vars
  BY <1>12 DEF vars, TypeOK, channel, thread, clients
<1>13. QED
  BY <1>1, <1>2, <1>3, <1>4, <1>5, <1>6, <1>7, <1>8, <1>9, <1>10, <1>11, <1>12
  DEF Next, Work, Quiescent

LEMMA TypeInit == Init => TypeOK
BY EmptySeq, CapacityAssumption, CallsAssumption DEF Init, TypeOK
-----------------------------------------------------------------------------
(* The inductive invariant.                                                *)

\* How many commands of sent the thread is through with, and how many of
\* them have met their fate in the store.
Done    == Len(sent) - Len(batch) - Len(held) - Len(queue)
Settled == IF worker = "answer" THEN Done + Len(batch) ELSE Done

Phases ==
    /\ worker \in {"receive", "stopped"} => batch = << >>
    /\ worker \in {"gather", "stopped"} => held = << >>
    /\ worker = "stopped" => closing # "no"
    /\ closing = "done" => worker = "stopped"

\* A command is given once: who gave it and its number name it.
Named(cmd) == <<cmd.by, cmd.n>>

Numbered ==
    /\ \A cmd \in ToSet(sent) \cup ToSet(senders) \cup deferred :
          IF cmd = Stop THEN closing # "no" ELSE cmd.n <= calls[cmd.by]

Once ==
    /\ \A i, j \in 1 .. Len(sent) : i # j => Named(sent[i]) # Named(sent[j])
    /\ \A i, j \in 1 .. Len(senders) : i # j => Named(senders[i]) # Named(senders[j])
    /\ \A i \in 1 .. Len(sent), j \in 1 .. Len(senders) : Named(sent[i]) # Named(senders[j])
    /\ \A d \in deferred :
          /\ \A i \in 1 .. Len(sent) : Named(sent[i]) # Named(d)
          /\ \A i \in 1 .. Len(senders) : Named(senders[i]) # Named(d)
          /\ \A e \in deferred : d # e => Named(d) # Named(e)

\* Behind what is done come the batch, the command held back and the queue.
Places ==
    worker # "stopped" =>
        /\ Done \in Nat
        /\ \A i \in 1 .. Len(batch) : batch[i] = sent[Done + i]
        /\ \A i \in 1 .. Len(held) : held[i] = sent[Done + Len(batch) + i]
        /\ \A i \in 1 .. Len(queue) : queue[i] = sent[Done + Len(batch) + Len(held) + i]

LogPlaced ==
    \A i \in 1 .. Len(log) : \E k \in 1 .. Len(sent) :
        sent[k] = log[i] /\ (worker # "stopped" => k <= Settled)

AllLogged ==
    worker # "stopped" /\ failures = 0 => \A k \in 1 .. Settled : sent[k] \in ToSet(log)

OutcomeTells ==
    worker = "answer" =>
        /\ Len(outcome) = Len(batch)
        /\ \A i \in 1 .. Len(batch) : outcome[i] <=> batch[i] \in ToSet(log)

AnswersTell ==
    \A a \in answers :
        /\ worker # "stopped" => \E k \in 1 .. Done : sent[k] = a.cmd
        /\ a.says = "ok" => a.cmd \in ToSet(log)

StopDrains ==
    worker = "stopped" /\ failures = 0 =>
        \A i, j \in 1 .. Len(sent) : sent[j] = Stop /\ i < j => sent[i] \in ToSet(log)

NamedOnce == Phases /\ Numbered /\ Once
Ordered   == /\ Places /\ LogPlaced /\ LogInOrder /\ AllLogged /\ OutcomeTells
             /\ AnswersTell /\ StopDrains /\ AnswerFlushes

WriterInv == TypeOK /\ NamedOnce /\ Ordered

-----------------------------------------------------------------------------
(* Commands are given once.                                                *)

Given == ToSet(sent) \cup ToSet(senders) \cup deferred

\* Nothing given yet has this name.
Fresh(cmd) ==
    /\ \A i \in 1 .. Len(sent) : Named(sent[i]) # Named(cmd)
    /\ \A i \in 1 .. Len(senders) : Named(senders[i]) # Named(cmd)
    /\ \A d \in deferred : Named(d) # Named(cmd)

LEMMA GivenTypes ==
    ASSUME TypeOK
    PROVE  /\ Len(sent) \in Nat /\ Len(senders) \in Nat
           /\ \A i \in 1 .. Len(sent) : sent[i] \in Cmds
           /\ \A i \in 1 .. Len(senders) : senders[i] \in Cmds
           /\ \A d \in deferred : d \in Cmd /\ d \in Cmds
BY ElementOfSeq, LenProperties DEF TypeOK, Cmds

\* The next command of a caller, and Stop before the shutdown, are new.
LEMMA NextIsFresh ==
    ASSUME TypeOK, Numbered, NEW c \in Callers, NEW op
    PROVE  Fresh(NextCmd(c, op))
<1>1. calls[c] \in Nat
  BY DEF TypeOK
<1>2. ASSUME NEW d \in Given, d \in Cmds
      PROVE  Named(d) # Named(NextCmd(c, op))
  <2>1. CASE d = Stop
    BY <2>1, CloserAssumption DEF Stop, Named, NextCmd
  <2>2. CASE d # Stop
    <3>1. d.n <= calls[d.by] /\ d \in Cmd
      BY <1>2, <2>2, NotStop DEF Numbered, Given
    <3>2. d.n \in Nat
      BY <3>1, NotStop
    <3>3. QED
      BY <1>1, <3>1, <3>2 DEF Named, NextCmd
  <2>3. QED
    BY <2>1, <2>2
<1>3. QED
  BY <1>2, GivenTypes DEF Fresh, Given, ToSet

LEMMA StopIsFresh ==
    ASSUME TypeOK, Numbered, closing = "no"
    PROVE  Fresh(Stop)
<1>1. ASSUME NEW d \in Given, d \in Cmds
      PROVE  Named(d) # Named(Stop)
  <2>1. d # Stop
    BY <1>1 DEF Numbered, Given
  <2>2. d.by \in Callers
    BY <1>1, <2>1, NotStop
  <2>3. QED
    BY <2>2, CloserAssumption DEF Named, Stop
<1>2. QED
  BY <1>1, GivenTypes DEF Fresh, Given, ToSet

\* A new command is sent.
LEMMA SendKeepsOnce ==
    ASSUME TypeOK, Once, NEW cmd \in Cmds, Fresh(cmd), Send(cmd), deferred' = deferred
    PROVE  Once' /\ Given' = Given \cup {cmd}
<1>0. sent \in Seq(Cmds) /\ senders \in Seq(Cmds) /\ Len(sent) \in Nat /\ Len(senders) \in Nat
  BY LenProperties DEF TypeOK
<1>1. CASE Free
  <2>1. sent' = Append(sent, cmd) /\ senders' = senders
    BY <1>1 DEF Send, Enqueue
  <2>2. /\ Len(sent') = Len(sent) + 1
        /\ \A i \in 1 .. Len(sent) : sent'[i] = sent[i]
        /\ sent'[Len(sent) + 1] = cmd
    BY <1>0, <2>1, AppendProperties
  <2>3. ToSet(sent') = ToSet(sent) \cup {cmd}
    BY <1>0, <2>2 DEF ToSet
  <2>4. Given' = Given \cup {cmd}
    BY <2>1, <2>3 DEF Given
  <2>5. Once'
    BY <1>0, <2>1, <2>2 DEF Once, Fresh
  <2>6. QED
    BY <2>4, <2>5
<1>2. CASE ~Free
  <2>1. senders' = Append(senders, cmd) /\ sent' = sent
    BY <1>2 DEF Send
  <2>2. /\ Len(senders') = Len(senders) + 1
        /\ \A i \in 1 .. Len(senders) : senders'[i] = senders[i]
        /\ senders'[Len(senders) + 1] = cmd
    BY <1>0, <2>1, AppendProperties
  <2>3. ToSet(senders') = ToSet(senders) \cup {cmd}
    BY <1>0, <2>2 DEF ToSet
  <2>4. Given' = Given \cup {cmd}
    BY <2>1, <2>3 DEF Given
  <2>5. Once'
    <3>1. sent' = sent /\ deferred' = deferred
      BY <2>1 DEF Send
    <3>2. ASSUME NEW i \in 1 .. Len(senders')
          PROVE  \/ i \in 1 .. Len(senders) /\ senders'[i] = senders[i]
                 \/ i = Len(senders) + 1 /\ senders'[i] = cmd
      BY <1>0, <2>2
    <3>3. ASSUME NEW i \in 1 .. Len(senders'), NEW j \in 1 .. Len(senders'), i # j
          PROVE  Named(senders'[i]) # Named(senders'[j])
      BY <3>2, <3>3 DEF Once, Fresh
    <3>4. ASSUME NEW j \in 1 .. Len(senders')
          PROVE  /\ \A i \in 1 .. Len(sent) : Named(sent[i]) # Named(senders'[j])
                 /\ \A d \in deferred : Named(senders'[j]) # Named(d)
      BY <3>2 DEF Once, Fresh
    <3> QED
      BY <3>1, <3>3, <3>4 DEF Once
  <2>6. QED
    BY <2>4, <2>5
<1>3. QED
  BY <1>1, <1>2

LEMMA CountedKeepsNumbered ==
    ASSUME TypeOK, Numbered, NEW c \in Callers, NEW cmd \in Cmd,
           cmd.by = c, cmd.n = calls[c] + 1,
           calls' = [calls EXCEPT ![c] = calls[c] + 1], closing' = closing,
           Given' \subseteq Given \cup {cmd}
    PROVE  Numbered'
<1>1. \A d \in Callers : calls[d] \in Nat
  BY DEF TypeOK
<1>2. \A d \in Callers : calls'[d] = IF d = c THEN calls[c] + 1 ELSE calls[d]
  BY DEF TypeOK
<1>3. ASSUME NEW d \in Given', d # Stop
      PROVE  d.n <= calls'[d.by]
  <2>1. CASE d = cmd
    BY <1>1, <1>2, <2>1
  <2>2. CASE d # cmd
    <3>1. d \in Given /\ d \in Cmds
      BY <2>2, <1>3, GivenTypes DEF Given, ToSet
    <3>2. d \in Cmd /\ d.n <= calls[d.by]
      BY <1>3, <3>1, NotStop DEF Numbered, Given
    <3>3. d.by \in Callers /\ d.n \in Nat
      BY <3>2, NotStop
    <3>4. QED
      BY <1>1, <1>2, <3>2, <3>3
  <2>3. QED
    BY <2>1, <2>2
<1>4. ASSUME NEW d \in Given', d = Stop
      PROVE  closing' # "no"
  <2>1. d \in Given
    BY <1>4, NotStop
  <2>2. QED
    BY <1>4, <2>1 DEF Numbered, Given
<1>5. QED
  BY <1>3, <1>4 DEF Numbered, Given

LEMMA NamedStep ==
    ASSUME TypeOK, NamedOnce, [Next]_vars
    PROVE  Numbered' /\ Once'
<1> USE DEF NamedOnce
<1>1. ASSUME NEW c \in Callers, NEW op \in Ops, Call(c, op)
      PROVE  Numbered' /\ Once'
  <2> DEFINE cmd == NextCmd(c, op)
  <2>1. cmd \in Cmd /\ cmd \in Cmds /\ Fresh(cmd)
    <3>1. cmd \in Cmd /\ cmd \in Cmds
      BY <1>1, CallsAssumption DEF NextCmd, Call, MayCall, Cmd, Cmds, TypeOK
    <3>2. QED
      BY <3>1, NextIsFresh
  <2>2. /\ calls' = [calls EXCEPT ![c] = calls[c] + 1] /\ closing' = closing /\ deferred' = deferred
        /\ cmd.by = c /\ cmd.n = calls[c] + 1
    BY <1>1 DEF Call, Counted, NextCmd
  <2>3. CASE Closed
    <3>1. UNCHANGED <<sent, senders>>
      BY <1>1, <2>3 DEF Call
    <3>2. Numbered'
      BY <2>1, <2>2, <3>1, CountedKeepsNumbered DEF Given
    <3>3. QED
      BY <2>2, <3>1, <3>2 DEF Once
  <2>4. CASE ~Closed
    <3>1. Once' /\ Given' = Given \cup {cmd}
      BY <1>1, <2>1, <2>2, <2>4, SendKeepsOnce DEF Call
    <3>2. Numbered'
      BY <2>1, <2>2, <3>1, CountedKeepsNumbered
    <3>3. QED
      BY <3>1, <3>2
  <2>5. QED
    BY <2>3, <2>4
<1>2. ASSUME NEW c \in Callers, AppendDetached(c), "append_detached" \in Ops
      PROVE  Numbered' /\ Once'
  <2> DEFINE cmd == NextCmd(c, "append_detached")
  <2>1. cmd \in Cmd /\ cmd \in Cmds /\ Fresh(cmd)
    <3>1. cmd \in Cmd /\ cmd \in Cmds
      BY <1>2, CallsAssumption DEF NextCmd, AppendDetached, MayCall, Cmd, Cmds, TypeOK
    <3>2. QED
      BY <3>1, NextIsFresh
  <2>2. /\ calls' = [calls EXCEPT ![c] = calls[c] + 1] /\ closing' = closing /\ senders' = senders
        /\ cmd.by = c /\ cmd.n = calls[c] + 1
    BY <1>2 DEF AppendDetached, Counted, NextCmd
  <2>3. CASE Closed
    <3>1. UNCHANGED <<sent, deferred>>
      BY <1>2, <2>3, Zenon DEF AppendDetached, Free
    <3>2. Numbered'
      BY <2>1, <2>2, <3>1, CountedKeepsNumbered DEF Given
    <3>3. QED
      BY <2>2, <3>1, <3>2 DEF Once
  <2>4. CASE Free
    <3>1. Send(cmd) /\ deferred' = deferred
      BY <1>2, <2>4, Zenon DEF AppendDetached, Free, Send
    <3>2. Once' /\ Given' = Given \cup {cmd}
      BY <2>1, <3>1, SendKeepsOnce
    <3>3. Numbered'
      BY <2>1, <2>2, <3>2, CountedKeepsNumbered
    <3>4. QED
      BY <3>2, <3>3
  <2>5. CASE ~Closed /\ ~Free
    <3>1. deferred' = deferred \cup {cmd} /\ sent' = sent
      BY <1>2, <2>5, Zenon DEF AppendDetached
    <3>2. Once'
      BY <2>1, <2>2, <3>1 DEF Once, Fresh
    <3>3. Given' = Given \cup {cmd}
      BY <2>2, <3>1 DEF Given
    <3>4. Numbered'
      BY <2>1, <2>2, <3>3, CountedKeepsNumbered
    <3>5. QED
      BY <3>2, <3>4
  <2>6. QED
    BY <2>3, <2>4, <2>5
<1>3. ASSUME NEW cmd \in deferred, SendDeferred(cmd)
      PROVE  Numbered' /\ Once'
  <2>1. cmd \in Cmds /\ deferred' = deferred \ {cmd} /\ calls' = calls /\ closing' = closing
    BY <1>3, GivenTypes DEF SendDeferred, clients
  <2>2. CASE Closed
    <3>1. UNCHANGED <<sent, senders>>
      BY <1>3, <2>2 DEF SendDeferred
    <3>2. QED
      BY <2>1, <3>1 DEF Numbered, Once
  <2>3. CASE ~Closed
    <3>0. sent \in Seq(Cmds) /\ senders \in Seq(Cmds) /\ Len(sent) \in Nat /\ Len(senders) \in Nat
      BY LenProperties DEF TypeOK
    <3>1. Send(cmd)
      BY <1>3, <2>3 DEF SendDeferred
    <3>2. CASE Free
      <4>1. sent' = Append(sent, cmd) /\ senders' = senders
        BY <3>1, <3>2 DEF Send, Enqueue
      <4>2. /\ Len(sent') = Len(sent) + 1
            /\ \A i \in 1 .. Len(sent) : sent'[i] = sent[i]
            /\ sent'[Len(sent) + 1] = cmd
        BY <2>1, <3>0, <4>1, AppendProperties
      <4>3. Once'
        BY <2>1, <3>0, <4>1, <4>2 DEF Once
      <4>4. ToSet(sent') = ToSet(sent) \cup {cmd}
        BY <3>0, <4>2 DEF ToSet
      <4>5. Numbered'
        BY <2>1, <4>1, <4>4 DEF Numbered
      <4>6. QED
        BY <4>3, <4>5
    <3>3. CASE ~Free
      <4>1. senders' = Append(senders, cmd) /\ sent' = sent
        BY <3>1, <3>3 DEF Send
      <4>2. /\ Len(senders') = Len(senders) + 1
            /\ \A i \in 1 .. Len(senders) : senders'[i] = senders[i]
            /\ senders'[Len(senders) + 1] = cmd
        BY <2>1, <3>0, <4>1, AppendProperties
      <4>3. Once'
        BY <2>1, <3>0, <4>1, <4>2 DEF Once
      <4>4. ToSet(senders') = ToSet(senders) \cup {cmd}
        BY <3>0, <4>2 DEF ToSet
      <4>5. Numbered'
        BY <2>1, <4>1, <4>4 DEF Numbered
      <4>6. QED
        BY <4>3, <4>5
    <3>4. QED
      BY <3>2, <3>3
  <2>4. QED
    BY <2>2, <2>3
<1>4. CASE Admit
  <2>0. sent \in Seq(Cmds) /\ senders \in Seq(Cmds) /\ Len(sent) \in Nat /\ Len(senders) \in Nat
    BY LenProperties DEF TypeOK
  <2>1. PICK i \in 1 .. Len(senders) :
          /\ Enqueue(senders[i])
          /\ senders' = [j \in 1 .. Len(senders) - 1 |->
                            IF j < i THEN senders[j] ELSE senders[j + 1]]
    BY <1>4 DEF Admit
  <2>2. senders[i] \in Cmds /\ UNCHANGED <<deferred, calls, closing>>
    BY <1>4, GivenTypes DEF Admit, clients
  <2>3. /\ Len(sent') = Len(sent) + 1
        /\ \A j \in 1 .. Len(sent) : sent'[j] = sent[j]
        /\ sent'[Len(sent) + 1] = senders[i]
    BY <2>0, <2>1, <2>2, AppendProperties DEF Enqueue
  <2>4. /\ Len(senders') = Len(senders) - 1
        /\ \A j \in 1 .. Len(senders') :
              senders'[j] = senders[IF j < i THEN j ELSE j + 1]
    BY <2>0, <2>1
  <2>5. \A j \in 1 .. Len(senders') :
           (IF j < i THEN j ELSE j + 1) \in (1 .. Len(senders)) \ {i}
    BY <2>0, <2>4
  <2>6. Once'
    <3>1. \A j \in 1 .. Len(senders') : \E k \in 1 .. Len(senders) :
             k # i /\ k = (IF j < i THEN j ELSE j + 1) /\ senders'[j] = senders[k]
      BY <2>4, <2>5
    <3>2. \A j, k \in 1 .. Len(senders') : j # k => Named(senders'[j]) # Named(senders'[k])
      BY <2>0, <2>4, <3>1 DEF Once
    <3>3. \A j \in 1 .. Len(senders') : Named(senders'[j]) # Named(senders[i])
      BY <3>1 DEF Once
    <3>4. \A j \in 1 .. Len(sent), k \in 1 .. Len(senders') : Named(sent[j]) # Named(senders'[k])
      BY <3>1 DEF Once
    <3>5. \A d \in deferred, j \in 1 .. Len(senders') : Named(senders'[j]) # Named(d)
      BY <3>1 DEF Once
    <3>6. \A j, k \in 1 .. Len(sent') : j # k => Named(sent'[j]) # Named(sent'[k])
      BY <2>0, <2>3 DEF Once
    <3>7. \A j \in 1 .. Len(sent'), k \in 1 .. Len(senders') : Named(sent'[j]) # Named(senders'[k])
      BY <2>0, <2>3, <3>3, <3>4
    <3>8. \A d \in deferred, j \in 1 .. Len(sent') : Named(sent'[j]) # Named(d)
      BY <2>0, <2>3 DEF Once
    <3>9. QED
      BY <2>2, <3>2, <3>5, <3>6, <3>7, <3>8 DEF Once
  <2>7. ToSet(sent') \subseteq ToSet(sent) \cup ToSet(senders) /\ ToSet(senders') \subseteq ToSet(senders)
    BY <2>0, <2>3, <2>4, <2>5, SMTT(30) DEF ToSet
  <2>8. Numbered'
    BY <2>2, <2>7 DEF Numbered
  <2>9. QED
    BY <2>6, <2>8
<1>5. CASE ReceiveStop
  <2>1. senders' = << >> /\ UNCHANGED <<sent, deferred, calls, closing>>
    BY <1>5 DEF ReceiveStop
  <2>2. ToSet(senders') = {} /\ 1 .. Len(senders') = {}
    BY <2>1 DEF ToSet
  <2>3. QED
    BY <2>1, <2>2 DEF Numbered, Once
<1>6. CASE Shutdown
  <2>1. Stop \in Cmds /\ Fresh(Stop) /\ Send(Stop) /\ deferred' = deferred
    BY <1>6, NotStop, StopIsFresh DEF Shutdown
  <2>2. Once' /\ Given' = Given \cup {Stop}
    BY <2>1, SendKeepsOnce
  <2>3. Numbered'
    BY <1>6, <2>2 DEF Shutdown, Numbered, Given, clients
  <2>4. QED
    BY <2>2, <2>3
<1>7. ASSUME UNCHANGED <<sent, senders, deferred, calls>>, closing # "no" => closing' # "no"
      PROVE  Numbered' /\ Once'
  BY <1>7 DEF Numbered, Once
<1>8. CASE Receive \/ Gather \/ Commit \/ Reply \/ ShutdownReturns
  <2>1. UNCHANGED <<sent, senders, deferred, calls>> /\ (closing # "no" => closing' # "no")
    BY <1>8 DEF Receive, Gather, Commit, Reply, ShutdownReturns, channel, clients
  <2>2. QED
    BY <2>1, <1>7
<1>9. CASE UNCHANGED vars
  BY <1>7, <1>9 DEF vars, channel, clients
<1>10. QED
  BY <1>1, <1>2, <1>3, <1>4, <1>5, <1>6, <1>8, <1>9 DEF Next, Work, Quiescent

-----------------------------------------------------------------------------
(* The thread works through the queue in its order.                        *)

LEMMA Lengths ==
    ASSUME TypeOK
    PROVE  /\ Len(sent) \in Nat /\ Len(queue) \in Nat /\ Len(batch) \in Nat
           /\ Len(held) \in {0, 1} /\ Len(log) \in Nat /\ Done \in Int
           /\ (batch = << >> <=> Len(batch) = 0) /\ (held = << >> <=> Len(held) = 0)
           /\ sent \in Seq(Cmds) /\ queue \in Seq(Cmds) /\ held \in Seq(Cmds)
           /\ batch \in Seq(Cmd) /\ log \in Seq(Cmd)
<1>1. /\ sent \in Seq(Cmds) /\ queue \in Seq(Cmds) /\ held \in Seq(Cmds)
      /\ batch \in Seq(Cmd) /\ log \in Seq(Cmd) /\ Len(held) <= 1
  BY DEF TypeOK
<1>2. /\ Len(sent) \in Nat /\ Len(queue) \in Nat /\ Len(batch) \in Nat
      /\ Len(held) \in Nat /\ Len(log) \in Nat
  BY <1>1, LenProperties
<1>3. batch = << >> <=> Len(batch) = 0
  BY <1>1, EmptySeq
<1>4. held = << >> <=> Len(held) = 0
  BY <1>1, EmptySeq
<1>5. Len(held) \in {0, 1}
  <2>1. \A n \in Nat : n <= 1 => n = 0 \/ n = 1
    OBVIOUS
  <2>2. Len(held) = 0 \/ Len(held) = 1
    BY <1>1, <1>2, <2>1
  <2>3. QED
    BY <2>2
<1>6. Done \in Int
  BY <1>2 DEF Done
<1>7. QED
  BY <1>1, <1>2, <1>3, <1>4, <1>5, <1>6

LEMMA UnsentKeepsOrder ==
    ASSUME Ordered, UNCHANGED <<queue, sent, thread, answers>>
    PROVE  Ordered'
<1>1. Done' = Done /\ Settled' = Settled
  BY DEF Done, Settled, thread
<1>2. Places' /\ LogPlaced' /\ LogInOrder' /\ AllLogged' /\ OutcomeTells'
  <2>1. Places'
    BY <1>1 DEF Ordered, Places, thread
  <2>2. LogPlaced' /\ LogInOrder'
    BY <1>1 DEF Ordered, LogPlaced, LogInOrder, thread
  <2>3. AllLogged' /\ OutcomeTells'
    BY <1>1 DEF Ordered, AllLogged, OutcomeTells, thread
  <2>4. QED
    BY <2>1, <2>2, <2>3
<1>3. AnswersTell' /\ StopDrains' /\ AnswerFlushes'
  BY <1>1 DEF Ordered, AnswersTell, StopDrains, AnswerFlushes, thread
<1>4. QED
  BY <1>2, <1>3 DEF Ordered

LEMMA EnqueueKeepsOrder ==
    ASSUME TypeOK, Ordered, NEW cmd \in Cmds, Enqueue(cmd), worker # "stopped",
           \A i \in 1 .. Len(sent) : sent[i] # cmd, UNCHANGED <<thread, answers>>
    PROVE  Ordered'
<1>0. /\ Len(sent') = Len(sent) + 1 /\ Len(queue') = Len(queue) + 1
      /\ \A i \in 1 .. Len(sent) : sent'[i] = sent[i]
      /\ \A i \in 1 .. Len(queue) : queue'[i] = queue[i]
      /\ sent'[Len(sent) + 1] = cmd /\ queue'[Len(queue) + 1] = cmd
  BY Lengths, AppendProperties DEF Enqueue
<1>1. Done' = Done /\ Settled' = Settled
  BY <1>0, Lengths DEF Done, Settled, thread
<1>2. /\ Done \in Nat /\ Len(sent) = Done + Len(batch) + Len(held) + Len(queue)
      /\ Settled \in Nat /\ Settled <= Len(sent) /\ Done <= Len(sent)
  BY Lengths DEF Ordered, Places, Done, Settled
<1>3. Places'
  <2>0. /\ \A i \in 1 .. Len(batch) : Done + i \in 1 .. Len(sent)
        /\ \A i \in 1 .. Len(held) : Done + Len(batch) + i \in 1 .. Len(sent)
    BY <1>2, Lengths
  <2>1. \A i \in 1 .. Len(batch) : batch[i] = sent'[Done + i]
    BY <1>0, <2>0 DEF Ordered, Places
  <2>2. \A i \in 1 .. Len(held) : held[i] = sent'[Done + Len(batch) + i]
    BY <1>0, <2>0 DEF Ordered, Places
  <2>3. \A i \in 1 .. Len(queue') : queue'[i] = sent'[Done + Len(batch) + Len(held) + i]
    <3> TAKE i \in 1 .. Len(queue')
    <3>1. CASE i \in 1 .. Len(queue)
      <4>1. Done + Len(batch) + Len(held) + i \in 1 .. Len(sent)
        BY <1>2, <3>1, Lengths
      <4>2. QED
        BY <1>0, <3>1, <4>1 DEF Ordered, Places
    <3>2. CASE i = Len(queue) + 1
      <4>1. Done + Len(batch) + Len(held) + i = Len(sent) + 1
        BY <1>2, <3>2, Lengths
      <4>2. QED
        BY <1>0, <3>2, <4>1
    <3>3. QED
      BY <1>0, <3>1, <3>2, Lengths
  <2>4. QED
    BY <1>1, <1>2, <2>1, <2>2, <2>3 DEF Places, thread
<1>4. LogPlaced'
  BY <1>0, <1>1, Lengths DEF Ordered, LogPlaced, thread
<1>5. LogInOrder'
  <2> SUFFICES ASSUME NEW i \in 1 .. Len(log), NEW j \in 1 .. Len(log), i < j
               PROVE  \E k, l \in 1 .. Len(sent') : k < l /\ sent'[k] = log[i] /\ sent'[l] = log[j]
    BY DEF LogInOrder, thread
  <2>1. PICK k \in 1 .. Len(sent), l \in 1 .. Len(sent) : k < l /\ sent[k] = log[i] /\ sent[l] = log[j]
    BY DEF Ordered, LogInOrder
  <2>2. QED
    BY <1>0, <2>1, Lengths
<1>6. AllLogged' /\ OutcomeTells' /\ StopDrains'
  <2>1. \A k \in 1 .. Settled : sent'[k] = sent[k]
    BY <1>0, <1>2, Lengths
  <2>2. AllLogged'
    BY <1>1, <2>1 DEF Ordered, AllLogged, thread
  <2>3. OutcomeTells' /\ StopDrains'
    BY DEF Ordered, OutcomeTells, StopDrains, thread
  <2>4. QED
    BY <2>2, <2>3
<1>7. AnswersTell'
  <2>1. \A k \in 1 .. Done : sent'[k] = sent[k]
    BY <1>0, <1>2, Lengths
  <2>2. \A a \in answers : worker # "stopped" => \E k \in 1 .. Done : sent'[k] = a.cmd
    BY <2>1 DEF Ordered, AnswersTell
  <2>3. \A a \in answers : a.says = "ok" => a.cmd \in ToSet(log)
    BY DEF Ordered, AnswersTell
  <2>4. QED
    BY <1>1, <2>2, <2>3 DEF AnswersTell, thread
<1>8. AnswerFlushes'
  <2> SUFFICES ASSUME failures = 0, NEW a \in answers, a.says = "ok",
                      NEW i \in 1 .. Len(sent'), NEW j \in 1 .. Len(sent'), sent'[j] = a.cmd, i < j
               PROVE  sent'[i] \in ToSet(log)
    BY DEF AnswerFlushes, thread
  <2>1. PICK k \in 1 .. Done : sent[k] = a.cmd
    BY DEF Ordered, AnswersTell
  <2>2. a.cmd # cmd
    BY <1>2, <2>1, Lengths
  <2>3. j \in 1 .. Len(sent) /\ i \in 1 .. Len(sent)
    <3>1. Len(sent) \in Nat /\ Len(sent') = Len(sent) + 1 /\ j # Len(sent) + 1
      BY <1>0, <2>2, Lengths
    <3>2. QED
      BY <3>1
  <2>4. sent[j] = a.cmd /\ sent'[i] = sent[i]
    BY <1>0, <2>3
  <2>5. QED
    BY <2>3, <2>4 DEF Ordered, AnswerFlushes
<1>9. QED
  BY <1>3, <1>4, <1>5, <1>6, <1>7, <1>8 DEF Ordered

\* The thread takes commands in, and settles nothing.
LEMMA TakingKeepsOrder ==
    ASSUME TypeOK, Ordered, worker \in {"receive", "gather"}, worker' \in {"gather", "commit"},
           Done' = Done, Places', UNCHANGED <<sent, log, answers, failures>>
    PROVE  Ordered'
<1>1. Settled = Done /\ Settled' = Done
  BY DEF Settled
<1>2. LogPlaced' /\ LogInOrder' /\ AllLogged' /\ OutcomeTells'
  BY <1>1 DEF Ordered, LogPlaced, LogInOrder, AllLogged, OutcomeTells
<1>3. AnswersTell' /\ StopDrains' /\ AnswerFlushes'
  BY DEF Ordered, AnswersTell, StopDrains, AnswerFlushes
<1>4. QED
  BY <1>2, <1>3 DEF Ordered

LEMMA ReceiveKeepsOrder ==
    ASSUME TypeOK, Phases, Ordered, Receive
    PROVE  Ordered'
<1>0. /\ worker = "receive" /\ worker' \in {"gather", "commit"} /\ Incoming # << >>
      /\ batch = << >> /\ Len(batch) = 0 /\ Done \in Nat
      /\ batch' = <<Head(Incoming)>> /\ held' = << >>
      /\ queue' = IF held # << >> THEN queue ELSE Tail(queue)
      /\ UNCHANGED <<sent, log, answers, failures>>
  BY Lengths DEF Receive, Phases, clients, Ordered, Places
<1>1. Len(batch') = 1 /\ batch'[1] = Head(Incoming) /\ Len(held') = 0
  BY <1>0
<1>2. CASE held # << >>
  <2>1. Len(held) = 1 /\ Head(Incoming) = held[1] /\ queue' = queue
    BY <1>0, <1>2, IncomingHead
  <2>2. Done' = Done
    BY <1>0, <1>1, <2>1, Lengths DEF Done
  <2>3. batch'[1] = sent[Done + 1]
    BY <1>0, <1>1, <2>1 DEF Ordered, Places
  <2>4. \A i \in 1 .. Len(queue) : queue[i] = sent[Done + 1 + i]
    BY <1>0, <2>1 DEF Ordered, Places
  <2>5. Places'
    BY <1>0, <1>1, <2>1, <2>2, <2>3, <2>4 DEF Places
  <2>6. QED
    BY <1>0, <2>2, <2>5, TakingKeepsOrder
<1>3. CASE held = << >>
  <2>1. /\ Len(held) = 0 /\ Head(Incoming) = queue[1] /\ queue' = Tail(queue) /\ queue # << >>
        /\ Len(queue') = Len(queue) - 1 /\ \A i \in 1 .. Len(queue') : queue'[i] = queue[i + 1]
    BY <1>0, <1>3, IncomingHead
  <2>2. Done' = Done
    BY <1>0, <1>1, <2>1, Lengths DEF Done
  <2>3. Len(queue) >= 1
    BY <2>1, Lengths, EmptySeq
  <2>4. batch'[1] = sent[Done + 1]
    BY <1>0, <1>1, <2>1, <2>3, Lengths DEF Ordered, Places
  <2>5. \A i \in 1 .. Len(queue') : queue'[i] = sent[Done + 1 + i]
    <3> TAKE i \in 1 .. Len(queue')
    <3>1. i + 1 \in 1 .. Len(queue) /\ queue'[i] = queue[i + 1]
      BY <2>1, Lengths
    <3>2. queue[i + 1] = sent[Done + 0 + 0 + (i + 1)]
      BY <1>0, <2>1, <3>1 DEF Ordered, Places
    <3>3. QED
      BY <1>0, <3>1, <3>2
  <2>6. Places'
    BY <1>0, <1>1, <2>2, <2>4, <2>5 DEF Places
  <2>7. QED
    BY <1>0, <2>2, <2>6, TakingKeepsOrder
<1>4. QED
  BY <1>2, <1>3

LEMMA GatherKeepsOrder ==
    ASSUME TypeOK, Phases, Ordered, Gather
    PROVE  Ordered'
<1>0. /\ worker = "gather" /\ held = << >> /\ Len(held) = 0 /\ Done \in Nat
      /\ UNCHANGED <<sent, log, answers, failures>>
  BY Lengths DEF Gather, Phases, clients, Ordered, Places
<1>1. CASE Len(batch) = MaxBatch \/ queue = << >>
  <2>1. worker' = "commit" /\ UNCHANGED <<queue, batch, held>>
    BY <1>1 DEF Gather
  <2>2. Done' = Done
    BY <1>0, <2>1 DEF Done
  <2>3. Places'
    BY <1>0, <2>1, <2>2 DEF Ordered, Places
  <2>4. QED
    BY <1>0, <2>1, <2>2, <2>3, TakingKeepsOrder
<1>2. CASE ~(Len(batch) = MaxBatch \/ queue = << >>)
  <2>1. /\ queue' = Tail(queue) /\ queue # << >> /\ Head(queue) = queue[1] /\ Head(queue) \in Cmds
        /\ Len(queue') = Len(queue) - 1 /\ \A i \in 1 .. Len(queue') : queue'[i] = queue[i + 1]
    <3>1. queue \in Seq(Cmds) /\ queue # << >> /\ queue' = Tail(queue)
      BY <1>2, Lengths DEF Gather
    <3>2. Head(queue) = queue[1]
      BY <3>1
    <3>3. /\ Head(queue) \in Cmds /\ Len(Tail(queue)) = Len(queue) - 1
          /\ \A i \in 1 .. Len(Tail(queue)) : Tail(queue)[i] = queue[i + 1]
      BY <3>1, HeadTailProperties
    <3>4. QED
      BY <3>1, <3>2, <3>3
  <2>2. Len(queue) >= 1
    BY <2>1, Lengths, EmptySeq
  <2>3. queue[1] = sent[Done + Len(batch) + 1]
    BY <1>0, <2>2, Lengths DEF Ordered, Places
  <2>4. \A i \in 1 .. Len(queue') : queue'[i] = sent[Done + Len(batch) + 1 + i]
    <3> TAKE i \in 1 .. Len(queue')
    <3>1. i + 1 \in 1 .. Len(queue) /\ queue'[i] = queue[i + 1]
      BY <2>1, Lengths
    <3>2. queue[i + 1] = sent[Done + Len(batch) + 0 + (i + 1)]
      BY <1>0, <3>1 DEF Ordered, Places
    <3>3. QED
      BY <1>0, <3>1, <3>2, Lengths
  <2>5. CASE IsAppend(Head(queue))
    <3>1. batch' = Append(batch, Head(queue)) /\ held' = held /\ worker' = "gather"
      BY <1>0, <1>2, <2>5 DEF Gather
    <3>2. Head(queue) \in Cmd
      BY <2>1, <2>5, NotStop
    <3>3. /\ Len(batch') = Len(batch) + 1 /\ batch'[Len(batch) + 1] = Head(queue)
          /\ \A i \in 1 .. Len(batch) : batch'[i] = batch[i]
      BY <3>1, <3>2, Lengths, AppendProperties
    <3>4. Done' = Done
      BY <1>0, <2>1, <3>1, <3>3, Lengths DEF Done
    <3>5. \A i \in 1 .. Len(batch') : batch'[i] = sent[Done + i]
      <4> TAKE i \in 1 .. Len(batch')
      <4>1. CASE i \in 1 .. Len(batch)
        BY <1>0, <3>3, <4>1 DEF Ordered, Places
      <4>2. CASE i = Len(batch) + 1
        BY <2>1, <2>3, <3>3, <4>2, Lengths
      <4>3. QED
        BY <3>3, <4>1, <4>2, Lengths
    <3>6. \A i \in 1 .. Len(queue') : queue'[i] = sent[Done + Len(batch') + Len(held') + i]
      BY <1>0, <2>4, <3>1, <3>3, Lengths
    <3>7. Places'
      BY <1>0, <3>1, <3>4, <3>5, <3>6 DEF Places
    <3>8. QED
      BY <1>0, <3>1, <3>4, <3>7, TakingKeepsOrder
  <2>6. CASE ~IsAppend(Head(queue))
    <3>1. batch' = batch /\ held' = <<Head(queue)>> /\ worker' = "commit"
      BY <1>0, <1>2, <2>6 DEF Gather
    <3>2. Len(held') = 1 /\ held'[1] = Head(queue)
      BY <3>1
    <3>3. Done' = Done
      BY <1>0, <2>1, <3>1, <3>2, Lengths DEF Done
    <3>4. \A i \in 1 .. Len(held') : held'[i] = sent[Done + Len(batch) + i]
      BY <2>1, <2>3, <3>2
    <3>5. \A i \in 1 .. Len(queue') : queue'[i] = sent[Done + Len(batch) + Len(held') + i]
      BY <2>4, <3>2
    <3>6. \A i \in 1 .. Len(batch) : batch[i] = sent[Done + i]
      BY <1>0 DEF Ordered, Places
    <3>7. Places'
      BY <1>0, <3>1, <3>3, <3>4, <3>5, <3>6 DEF Places
    <3>8. QED
      BY <1>0, <3>1, <3>3, <3>7, TakingKeepsOrder
  <2>7. QED
    BY <2>5, <2>6
<1>3. QED
  BY <1>1, <1>2
\* Where the batch stands, and that none of it was written or answered before.
LEMMA BatchPlaces ==
    ASSUME TypeOK, Ordered, worker # "stopped"
    PROVE  /\ Done \in Nat /\ Len(batch) \in Nat /\ Done + Len(batch) <= Len(sent)
           /\ \A i \in 1 .. Len(batch) : Done + i \in 1 .. Len(sent) /\ batch[i] = sent[Done + i]
<1>1. Done \in Nat /\ \A i \in 1 .. Len(batch) : batch[i] = sent[Done + i]
  BY DEF Ordered, Places
<1>2. Len(sent) = Done + Len(batch) + Len(held) + Len(queue)
  BY Lengths DEF Done
<1>3. Len(sent) \in Nat /\ Len(queue) \in Nat /\ Len(batch) \in Nat /\ Len(held) \in Nat
  BY Lengths
<1>4. QED
  BY <1>1, <1>2, <1>3

LEMMA BatchIsNew ==
    ASSUME TypeOK, Once, Ordered, worker # "stopped"
    PROVE  \A i \in 1 .. Len(batch) :
              /\ \A k \in 1 .. Done : Named(sent[k]) # Named(batch[i])
              /\ \A j \in 1 .. Len(batch) : i # j => Named(batch[j]) # Named(batch[i])
              /\ \A k \in 1 .. Len(sent) : sent[k] = batch[i] => k = Done + i
<1> TAKE i \in 1 .. Len(batch)
<1>1. /\ Done \in Nat /\ Len(batch) \in Nat /\ Len(sent) \in Nat
      /\ Done + i \in 1 .. Len(sent) /\ batch[i] = sent[Done + i]
  BY BatchPlaces, Lengths
<1>2. \A k \in 1 .. Len(sent) : k # Done + i => Named(sent[k]) # Named(batch[i])
  BY <1>1 DEF Once
<1>3. \A k \in 1 .. Done : k \in 1 .. Len(sent) /\ k # Done + i
  BY <1>1
<1>4. \A j \in 1 .. Len(batch) : i # j =>
          Done + j \in 1 .. Len(sent) /\ batch[j] = sent[Done + j] /\ Done + j # Done + i
  BY <1>1, BatchPlaces
<1>5. QED
  BY <1>2, <1>3, <1>4

LEMMA CommitKeepsOrder ==
    ASSUME TypeOK, Once, Ordered, Commit
    PROVE  Ordered'
<1>1. PICK ok \in [1 .. Len(batch) -> BOOLEAN] :
        /\ outcome' = ok
        /\ log' = log \o Kept(ok)
        /\ IF \A i \in 1 .. Len(batch) : ok[i]
           THEN UNCHANGED failures
           ELSE failures < MaxFailures /\ failures' = failures + 1
  BY DEF Commit
<1>2. /\ worker = "commit" /\ worker' = "answer"
      /\ UNCHANGED <<queue, senders, deferred, sent, batch, held, answers>>
  BY DEF Commit, channel, clients
<1> DEFINE K == Kept(ok)
<1>3. /\ K \in Seq(Cmd)
      /\ \A k \in 1 .. Len(K) : \E i \in 1 .. Len(batch) : ok[i] /\ K[k] = batch[i]
      /\ \A i \in 1 .. Len(batch) : ok[i] => \E k \in 1 .. Len(K) : K[k] = batch[i]
      /\ \A k, l \in 1 .. Len(K) : k < l =>
            \E i, j \in 1 .. Len(batch) : i < j /\ K[k] = batch[i] /\ K[l] = batch[j]
  BY KeptInOrder
<1>4. log' = log \o K
  BY <1>1
<1> HIDE DEF K
<1>5. /\ Len(log') = Len(log) + Len(K) /\ Len(log) \in Nat /\ Len(K) \in Nat
      /\ \A i \in 1 .. Len(log) : log'[i] = log[i]
      /\ \A i \in 1 .. Len(K) : log'[Len(log) + i] = K[i]
  <2>1. Len(log) \in Nat /\ Len(K) \in Nat /\ log \in Seq(Cmd)
    BY <1>3, Lengths, LenProperties
  <2>2. /\ Len(log \o K) = Len(log) + Len(K)
        /\ \A i \in 1 .. Len(log) + Len(K) :
              (log \o K)[i] = IF i <= Len(log) THEN log[i] ELSE K[i - Len(log)]
    BY <1>3, <2>1, ConcatProperties
  <2>3. QED
    BY <1>4, <2>1, <2>2
<1>6. \A i \in 1 .. Len(log') :
         \/ i \in 1 .. Len(log) /\ log'[i] = log[i]
         \/ \E k \in 1 .. Len(K) : i = Len(log) + k /\ log'[i] = K[k]
  <2> TAKE i \in 1 .. Len(log')
  <2>1. CASE i <= Len(log)
    BY <1>5, <2>1
  <2>2. CASE ~(i <= Len(log))
    <3>1. i - Len(log) \in 1 .. Len(K) /\ i = Len(log) + (i - Len(log))
      BY <1>5, <2>2
    <3>2. QED
      BY <1>5, <3>1
  <2>3. QED
    BY <2>1, <2>2
<1>7. ToSet(log) \subseteq ToSet(log') /\ \A i \in 1 .. Len(batch) : ok[i] => batch[i] \in ToSet(log')
  <2>1. ToSet(log) \subseteq ToSet(log')
    BY <1>5 DEF ToSet
  <2>2. \A k \in 1 .. Len(K) : K[k] \in ToSet(log')
    <3>1. \A k \in 1 .. Len(K) : Len(log) + k \in 1 .. Len(log')
      BY <1>5
    <3>2. QED
      BY <1>5, <3>1 DEF ToSet
  <2>3. QED
    BY <1>3, <2>1, <2>2
<1>8. /\ Done' = Done /\ Settled = Done /\ Settled' = Done + Len(batch)
      /\ Done \in Nat /\ Len(batch) \in Nat /\ Done + Len(batch) <= Len(sent)
      /\ Len(sent) \in Nat
      /\ \A i \in 1 .. Len(batch) : Done + i \in 1 .. Len(sent) /\ batch[i] = sent[Done + i]
  BY <1>2, BatchPlaces, Lengths DEF Done, Settled
<1>9. failures' = 0 => failures = 0 /\ \A i \in 1 .. Len(batch) : ok[i]
  BY <1>1 DEF TypeOK
<1>10. Places'
  BY <1>2, <1>8 DEF Ordered, Places
<1>11. LogPlaced'
  <2> SUFFICES ASSUME NEW i \in 1 .. Len(log')
               PROVE  \E k \in 1 .. Len(sent) : sent[k] = log'[i] /\ k <= Settled'
    BY <1>2 DEF LogPlaced
  <2>1. CASE i \in 1 .. Len(log) /\ log'[i] = log[i]
    <3>1. PICK k \in 1 .. Len(sent) : sent[k] = log[i] /\ k <= Settled
      BY <1>2, <2>1 DEF Ordered, LogPlaced
    <3>2. QED
      BY <1>8, <2>1, <3>1
  <2>2. CASE \E k \in 1 .. Len(K) : i = Len(log) + k /\ log'[i] = K[k]
    <3>1. PICK j \in 1 .. Len(batch) : log'[i] = batch[j]
      BY <1>3, <2>2
    <3>2. Done + j \in 1 .. Len(sent) /\ sent[Done + j] = log'[i] /\ Done + j <= Settled'
      BY <1>8, <3>1
    <3>3. QED
      BY <3>2
  <2>3. QED
    BY <1>6, <2>1, <2>2
<1>12. LogInOrder'
  <2> SUFFICES ASSUME NEW i \in 1 .. Len(log'), NEW j \in 1 .. Len(log'), i < j
               PROVE  \E k, l \in 1 .. Len(sent) : k < l /\ sent[k] = log'[i] /\ sent[l] = log'[j]
    <3>1. sent' = sent
      BY <1>2
    <3> QED
      BY <3>1 DEF LogInOrder
  <2>1. CASE j \in 1 .. Len(log) /\ log'[j] = log[j]
    <3>1. i \in 1 .. Len(log) /\ log'[i] = log[i]
      BY <1>5, <2>1
    <3>2. QED
      BY <2>1, <3>1 DEF Ordered, LogInOrder
  <2>2. CASE /\ i \in 1 .. Len(log) /\ log'[i] = log[i]
             /\ \E k \in 1 .. Len(K) : j = Len(log) + k /\ log'[j] = K[k]
    <3>1. PICK m \in 1 .. Len(batch) : log'[j] = batch[m]
      BY <1>3, <2>2
    <3>2. PICK k \in 1 .. Len(sent) : sent[k] = log[i] /\ k <= Settled
      BY <1>2, <2>2 DEF Ordered, LogPlaced
    <3>3. k < Done + m /\ Done + m \in 1 .. Len(sent) /\ sent[Done + m] = log'[j]
      BY <1>8, <3>1, <3>2
    <3>4. QED
      BY <2>2, <3>2, <3>3
  <2>3. CASE /\ \E k \in 1 .. Len(K) : i = Len(log) + k /\ log'[i] = K[k]
             /\ \E k \in 1 .. Len(K) : j = Len(log) + k /\ log'[j] = K[k]
    <3>1. PICK k \in 1 .. Len(K), l \in 1 .. Len(K) : k < l /\ log'[i] = K[k] /\ log'[j] = K[l]
      BY <1>5, <2>3
    <3>2. PICK m \in 1 .. Len(batch), n \in 1 .. Len(batch) :
             m < n /\ log'[i] = batch[m] /\ log'[j] = batch[n]
      <4>1. \E m, n \in 1 .. Len(batch) : m < n /\ K[k] = batch[m] /\ K[l] = batch[n]
        BY <1>3, <3>1, Zenon
      <4>2. QED
        BY <3>1, <4>1
    <3>3. /\ Done + m \in 1 .. Len(sent) /\ Done + n \in 1 .. Len(sent) /\ Done + m < Done + n
          /\ sent[Done + m] = log'[i] /\ sent[Done + n] = log'[j]
      BY <1>8, <3>2
    <3>4. QED
      BY <3>3
  <2>4. QED
    BY <1>6, <2>1, <2>2, <2>3
<1>13. AllLogged'
  <2> SUFFICES ASSUME failures' = 0, NEW k \in 1 .. Settled'
               PROVE  sent[k] \in ToSet(log')
    BY <1>2 DEF AllLogged
  <2>1. CASE k <= Done
    <3>1. k \in 1 .. Settled /\ failures = 0
      BY <1>8, <1>9, <2>1
    <3>2. QED
      BY <1>2, <1>7, <3>1 DEF Ordered, AllLogged
  <2>2. CASE ~(k <= Done)
    <3>1. k - Done \in 1 .. Len(batch) /\ Done + (k - Done) = k
      BY <1>8, <2>2
    <3>2. batch[k - Done] = sent[k] /\ ok[k - Done]
      BY <1>8, <1>9, <3>1
    <3>3. QED
      BY <1>7, <3>1, <3>2
  <2>3. QED
    BY <2>1, <2>2
<1>14. OutcomeTells'
  <2>1. Len(outcome') = Len(batch)
    <3>1. ok \in Seq(BOOLEAN) /\ Len(ok) = Len(batch)
      BY <1>8
    <3>2. QED
      BY <1>1, <3>1
  <2>2. ASSUME NEW i \in 1 .. Len(batch), batch[i] \in ToSet(log')
        PROVE  ok[i]
    <3>1. PICK m \in 1 .. Len(log') : batch[i] = log'[m]
      BY <2>2 DEF ToSet
    <3>2. \A k \in 1 .. Done : sent[k] # batch[i]
      BY <1>2, BatchIsNew DEF Named
    <3>3. \A j \in 1 .. Len(batch) : batch[j] = batch[i] => j = i
      BY <1>2, BatchIsNew
    <3>4. ~(m \in 1 .. Len(log) /\ log'[m] = log[m])
      <4> SUFFICES ASSUME m \in 1 .. Len(log), log'[m] = log[m] PROVE FALSE
        OBVIOUS
      <4>1. PICK k \in 1 .. Len(sent) : sent[k] = log[m] /\ k <= Settled
        BY <1>2 DEF Ordered, LogPlaced
      <4>2. k \in 1 .. Done
        BY <1>8, <4>1
      <4>3. QED
        BY <3>1, <3>2, <4>1, <4>2
    <3>5. PICK j \in 1 .. Len(batch) : ok[j] /\ log'[m] = batch[j]
      BY <1>3, <1>6, <3>4
    <3>6. QED
      BY <3>1, <3>3, <3>5
  <2>3. QED
    BY <1>1, <1>2, <1>7, <2>1, <2>2 DEF OutcomeTells
<1>15. AnswersTell' /\ StopDrains' /\ AnswerFlushes'
  BY <1>2, <1>7, <1>8, <1>9 DEF Ordered, AnswersTell, StopDrains, AnswerFlushes
<1>16. QED
  BY <1>10, <1>11, <1>12, <1>13, <1>14, <1>15 DEF Ordered

LEMMA ReplyKeepsOrder ==
    ASSUME TypeOK, Once, Ordered, Reply
    PROVE  Ordered'
<1> DEFINE told == {i \in 1 .. Len(batch) : batch[i].op # "append_detached"}
<1>1. /\ worker = "answer" /\ worker' = "receive" /\ batch' = << >>
      /\ answers' = answers \cup {Answer(batch[i], IF outcome[i] THEN "ok" ELSE "error") : i \in told}
      /\ UNCHANGED <<queue, sent, held, log, failures>>
  BY DEF Reply, channel
<1>2. Len(batch') = 0
  BY <1>1
<1>3. /\ Done \in Nat /\ Len(batch) \in Nat /\ Len(sent) \in Nat /\ Done + Len(batch) <= Len(sent)
      /\ \A i \in 1 .. Len(batch) : Done + i \in 1 .. Len(sent) /\ batch[i] = sent[Done + i]
  BY <1>1, BatchPlaces, Lengths
<1>4. Done' = Done + Len(batch) /\ Settled = Done + Len(batch) /\ Settled' = Done + Len(batch)
  BY <1>1, <1>2, Lengths DEF Done, Settled
<1>5. \A a \in answers' \ answers :
         \E i \in 1 .. Len(batch) : a.cmd = batch[i] /\ (a.says = "ok" <=> outcome[i])
  BY <1>1 DEF Answer
<1>6. Places'
  <2>1. \A i \in 1 .. Len(held) : held[i] = sent[Done + Len(batch) + i]
    BY <1>1 DEF Ordered, Places
  <2>2. \A i \in 1 .. Len(queue) : queue[i] = sent[Done + Len(batch) + Len(held) + i]
    BY <1>1 DEF Ordered, Places
  <2>3. /\ \A i \in 1 .. Len(held) : held[i] = sent[Done' + Len(batch') + i]
        /\ \A i \in 1 .. Len(queue) : queue[i] = sent[Done' + Len(batch') + Len(held) + i]
    BY <1>2, <1>3, <1>4, <2>1, <2>2, SMTT(30)
  <2>4. QED
    BY <1>1, <1>2, <1>3, <1>4, <2>3 DEF Places
<1>7. LogPlaced' /\ LogInOrder' /\ AllLogged' /\ OutcomeTells' /\ StopDrains'
  BY <1>1, <1>4 DEF Ordered, LogPlaced, LogInOrder, AllLogged, OutcomeTells, StopDrains
<1>8. AnswersTell'
  <2> SUFFICES ASSUME NEW a \in answers'
               PROVE  /\ \E k \in 1 .. Done' : sent[k] = a.cmd
                      /\ a.says = "ok" => a.cmd \in ToSet(log)
    BY <1>1 DEF AnswersTell
  <2>1. CASE a \in answers
    BY <1>1, <1>3, <1>4, <2>1 DEF Ordered, AnswersTell
  <2>2. CASE a \notin answers
    <3>1. PICK i \in 1 .. Len(batch) : a.cmd = batch[i] /\ (a.says = "ok" <=> outcome[i])
      BY <1>5, <2>2
    <3>2. Done + i \in 1 .. Done' /\ sent[Done + i] = a.cmd
      BY <1>3, <1>4, <3>1
    <3>3. a.says = "ok" => a.cmd \in ToSet(log)
      BY <1>1, <3>1 DEF Ordered, OutcomeTells
    <3>4. QED
      BY <3>2, <3>3
  <2>3. QED
    BY <2>1, <2>2
<1>9. AnswerFlushes'
  <2> SUFFICES ASSUME failures = 0, NEW a \in answers', a.says = "ok",
                      NEW i \in 1 .. Len(sent), NEW j \in 1 .. Len(sent), sent[j] = a.cmd, i < j
               PROVE  sent[i] \in ToSet(log)
    BY <1>1 DEF AnswerFlushes
  <2>1. CASE a \in answers
    BY <2>1 DEF Ordered, AnswerFlushes
  <2>2. CASE a \notin answers
    <3>1. PICK m \in 1 .. Len(batch) : a.cmd = batch[m]
      BY <1>5, <2>2
    <3>2. j = Done + m
      BY <1>1, <3>1, BatchIsNew
    <3>3. i \in 1 .. Settled
      BY <1>3, <1>4, <3>2
    <3>4. QED
      BY <1>1, <3>3 DEF Ordered, AllLogged
  <2>3. QED
    BY <2>1, <2>2
<1>10. QED
  BY <1>6, <1>7, <1>8, <1>9 DEF Ordered

\* Stop is next in the order when the thread receives it.
LEMMA StopIsNext ==
    ASSUME TypeOK, Phases, Ordered, worker = "receive", Incoming # << >>, Head(Incoming) = Stop
    PROVE  Done + 1 \in 1 .. Len(sent) /\ sent[Done + 1] = Stop
<1>1. Len(batch) = 0 /\ Done \in Nat
  BY Lengths DEF Phases, Ordered, Places
<1>2. Len(sent) = Done + Len(held) + Len(queue) /\ Len(sent) \in Nat /\ Len(queue) \in Nat
  BY <1>1, Lengths DEF Done
<1>3. CASE held # << >>
  <2>1. Len(held) = 1 /\ held[1] = Stop
    BY <1>3, IncomingHead
  <2>2. held[1] = sent[Done + 0 + 1]
    BY <1>1, <2>1 DEF Ordered, Places
  <2>3. QED
    BY <1>1, <1>2, <2>1, <2>2
<1>4. CASE held = << >>
  <2>1. queue # << >> /\ queue[1] = Stop /\ Len(held) = 0
    BY <1>4, IncomingHead
  <2>2. Len(queue) >= 1
    BY <1>2, <2>1, Lengths, EmptySeq
  <2>3. queue[1] = sent[Done + 0 + 0 + 1]
    BY <1>1, <1>2, <2>1, <2>2 DEF Ordered, Places
  <2>4. QED
    BY <1>1, <1>2, <2>1, <2>2, <2>3
<1>5. QED
  BY <1>3, <1>4

LEMMA ReceiveStopKeepsOrder ==
    ASSUME TypeOK, Phases, Once, Ordered, ReceiveStop
    PROVE  Ordered'
<1> DEFINE dropped == Awaited(ToSet(Tail(Incoming)) \cup ToSet(senders))
<1>1. /\ worker = "receive" /\ Incoming # << >> /\ Head(Incoming) = Stop /\ worker' = "stopped"
      /\ answers' = answers \cup {Answer(cmd, "closed") : cmd \in dropped}
      /\ UNCHANGED <<sent, log, failures>>
  BY DEF ReceiveStop
<1>2. \A a \in answers' : a.says = "ok" => a \in answers
  BY <1>1 DEF Answer
<1>3. Places' /\ LogPlaced' /\ LogInOrder' /\ AllLogged' /\ OutcomeTells'
  BY <1>1 DEF Ordered, Places, LogPlaced, LogInOrder, AllLogged, OutcomeTells
<1>4. AnswersTell' /\ AnswerFlushes'
  BY <1>1, <1>2 DEF Ordered, AnswersTell, AnswerFlushes
<1>5. StopDrains'
  <2> SUFFICES ASSUME failures = 0, NEW i \in 1 .. Len(sent), NEW j \in 1 .. Len(sent),
                      sent[j] = Stop, i < j
               PROVE  sent[i] \in ToSet(log)
    BY <1>1 DEF StopDrains
  <2>1. Done + 1 \in 1 .. Len(sent) /\ sent[Done + 1] = Stop /\ Done \in Nat
    BY <1>1, StopIsNext DEF Ordered, Places
  <2>2. j = Done + 1
    BY <2>1 DEF Once
  <2>3. i \in 1 .. Settled
    BY <1>1, <2>1, <2>2 DEF Settled
  <2>4. QED
    BY <1>1, <2>3 DEF Ordered, AllLogged
<1>6. QED
  BY <1>3, <1>4, <1>5 DEF Ordered

LEMMA PhasesStep ==
    ASSUME TypeOK, NamedOnce, Ordered, [Next]_vars
    PROVE  Phases'
<1>1. CASE Receive
  BY <1>1 DEF Receive, NamedOnce, Phases
<1>2. CASE ReceiveStop
  <2>1. closing # "no"
    <3>1. Stop \in ToSet(sent)
      BY <1>2, StopIsNext DEF ReceiveStop, NamedOnce, ToSet
    <3>2. QED
      BY <3>1 DEF NamedOnce, Numbered
  <2>2. QED
    BY <1>2, <2>1 DEF ReceiveStop, NamedOnce, Phases
<1>3. CASE Gather
  BY <1>3 DEF Gather, NamedOnce, Phases
<1>4. CASE Commit
  BY <1>4 DEF Commit, NamedOnce, Phases
<1>5. CASE Reply
  BY <1>5 DEF Reply, NamedOnce, Phases
<1>6. CASE Shutdown
  BY <1>6 DEF Shutdown, NamedOnce, Phases, thread
<1>7. CASE ShutdownReturns
  BY <1>7 DEF ShutdownReturns, NamedOnce, Phases, thread, Closed
<1>8. ASSUME UNCHANGED <<thread, closing>>
      PROVE  Phases'
  BY <1>8 DEF NamedOnce, Phases, thread
<1>9. QED
  BY <1>1, <1>2, <1>3, <1>4, <1>5, <1>6, <1>7, <1>8
  DEF Next, Work, Quiescent, vars, Call, AppendDetached, SendDeferred, Admit

LEMMA SendKeepsOrder ==
    ASSUME TypeOK, Ordered, NEW cmd \in Cmds, Send(cmd), worker # "stopped",
           \A i \in 1 .. Len(sent) : sent[i] # cmd, UNCHANGED <<thread, answers>>
    PROVE  Ordered'
<1>1. CASE Free
  BY <1>1, EnqueueKeepsOrder DEF Send
<1>2. CASE ~Free
  BY <1>2, UnsentKeepsOrder DEF Send
<1>3. QED
  BY <1>1, <1>2

LEMMA OrderStep ==
    ASSUME TypeOK, NamedOnce, Ordered, [Next]_vars
    PROVE  Ordered'
<1>1. ASSUME NEW c \in Callers, NEW op \in Ops, Call(c, op)
      PROVE  Ordered'
  <2> DEFINE cmd == NextCmd(c, op)
  <2>1. cmd \in Cmds /\ Fresh(cmd) /\ UNCHANGED thread
    <3>1. cmd \in Cmds
      BY <1>1, CallsAssumption DEF NextCmd, Call, MayCall, Cmd, Cmds, TypeOK
    <3>2. QED
      BY <1>1, <3>1, NextIsFresh DEF NamedOnce, Call
  <2>2. CASE Closed
    <3>1. answers' = answers \cup {Answer(cmd, "closed")} /\ UNCHANGED <<queue, sent>>
      BY <1>1, <2>2 DEF Call
    <3>2. worker = "stopped" /\ worker' = "stopped" /\ UNCHANGED <<log, failures>>
      BY <2>1, <2>2 DEF Closed, thread
    <3>3. \A a \in answers' : a.says = "ok" => a \in answers
      BY <3>1 DEF Answer
    <3>4. Places' /\ LogPlaced' /\ LogInOrder' /\ AllLogged' /\ OutcomeTells' /\ StopDrains'
      <4>1. Places' /\ AllLogged' /\ OutcomeTells'
        BY <3>2 DEF Places, AllLogged, OutcomeTells
      <4>2. LogPlaced'
        BY <3>1, <3>2 DEF Ordered, LogPlaced
      <4>3. LogInOrder' /\ StopDrains'
        BY <3>1, <3>2 DEF Ordered, LogInOrder, StopDrains
      <4>4. QED
        BY <4>1, <4>2, <4>3
    <3>5. AnswersTell' /\ AnswerFlushes'
      BY <3>1, <3>2, <3>3 DEF Ordered, AnswersTell, AnswerFlushes
    <3>6. QED
      BY <3>4, <3>5 DEF Ordered
  <2>3. CASE ~Closed
    <3>1. Send(cmd) /\ UNCHANGED answers /\ worker # "stopped"
      BY <1>1, <2>3 DEF Call, Closed
    <3>2. \A i \in 1 .. Len(sent) : sent[i] # cmd
      BY <2>1 DEF Fresh
    <3>3. QED
      BY <2>1, <3>1, <3>2, SendKeepsOrder
  <2>4. QED
    BY <2>2, <2>3
<1>2. ASSUME NEW c \in Callers, AppendDetached(c), "append_detached" \in Ops
      PROVE  Ordered'
  <2> DEFINE cmd == NextCmd(c, "append_detached")
  <2>1. cmd \in Cmds /\ Fresh(cmd) /\ UNCHANGED <<thread, answers>>
    <3>1. cmd \in Cmds
      BY <1>2, CallsAssumption DEF NextCmd, AppendDetached, MayCall, Cmd, Cmds, TypeOK
    <3>2. QED
      BY <1>2, <3>1, NextIsFresh DEF NamedOnce, AppendDetached
  <2>2. CASE Free
    <3>1. Enqueue(cmd) /\ worker # "stopped"
      BY <1>2, <2>2, Zenon DEF AppendDetached, Free, Closed
    <3>2. \A i \in 1 .. Len(sent) : sent[i] # cmd
      BY <2>1 DEF Fresh
    <3>3. QED
      BY <2>1, <3>1, <3>2, EnqueueKeepsOrder
  <2>3. CASE ~Free
    <3>1. UNCHANGED <<queue, sent>>
      BY <1>2, <2>3, Zenon DEF AppendDetached
    <3>2. QED
      BY <2>1, <3>1, UnsentKeepsOrder
  <2>4. QED
    BY <2>2, <2>3
<1>3. ASSUME NEW cmd \in deferred, SendDeferred(cmd)
      PROVE  Ordered'
  <2>1. cmd \in Cmds /\ UNCHANGED <<thread, answers>>
    BY <1>3, GivenTypes DEF SendDeferred, clients
  <2>2. CASE Closed
    BY <1>3, <2>1, <2>2, UnsentKeepsOrder DEF SendDeferred
  <2>3. CASE ~Closed
    <3>1. Send(cmd) /\ worker # "stopped"
      BY <1>3, <2>3 DEF SendDeferred, Closed
    <3>2. \A i \in 1 .. Len(sent) : sent[i] # cmd
      BY DEF NamedOnce, Once
    <3>3. QED
      BY <2>1, <3>1, <3>2, SendKeepsOrder
  <2>4. QED
    BY <2>2, <2>3
<1>4. CASE Admit
  <2>1. PICK i \in 1 .. Len(senders) : Enqueue(senders[i])
    BY <1>4 DEF Admit
  <2>2. senders[i] \in Cmds /\ worker # "stopped" /\ UNCHANGED <<thread, answers>>
    BY <1>4, GivenTypes DEF Admit, Closed, clients
  <2>3. \A j \in 1 .. Len(sent) : sent[j] # senders[i]
    BY DEF NamedOnce, Once
  <2>4. QED
    BY <2>1, <2>2, <2>3, EnqueueKeepsOrder
<1>5. CASE Receive
  BY <1>5, ReceiveKeepsOrder DEF NamedOnce
<1>6. CASE ReceiveStop
  BY <1>6, ReceiveStopKeepsOrder DEF NamedOnce
<1>7. CASE Gather
  BY <1>7, GatherKeepsOrder DEF NamedOnce
<1>8. CASE Commit
  BY <1>8, CommitKeepsOrder DEF NamedOnce
<1>9. CASE Reply
  BY <1>9, ReplyKeepsOrder DEF NamedOnce
<1>10. CASE Shutdown
  <2>1. Stop \in Cmds /\ Fresh(Stop) /\ Send(Stop) /\ worker # "stopped" /\ UNCHANGED <<thread, answers>>
    BY <1>10, NotStop, StopIsFresh DEF Shutdown, NamedOnce, Phases, clients
  <2>2. \A i \in 1 .. Len(sent) : sent[i] # Stop
    BY <2>1 DEF Fresh
  <2>3. QED
    BY <2>1, <2>2, SendKeepsOrder
<1>11. CASE ShutdownReturns \/ UNCHANGED vars
  <2>1. UNCHANGED <<queue, sent, thread, answers>>
    BY <1>11 DEF ShutdownReturns, vars, channel, clients
  <2>2. QED
    BY <2>1, UnsentKeepsOrder
<1>12. QED
  BY <1>1, <1>2, <1>3, <1>4, <1>5, <1>6, <1>7, <1>8, <1>9, <1>10, <1>11 DEF Next, Work, Quiescent

LEMMA WriterInit == Init => WriterInv
<1> SUFFICES ASSUME Init PROVE WriterInv
  OBVIOUS
<1>1. TypeOK
  BY TypeInit
<1>2. /\ sent = << >> /\ queue = << >> /\ batch = << >> /\ held = << >> /\ senders = << >>
      /\ log = << >> /\ deferred = {} /\ answers = {} /\ worker = "receive" /\ closing = "no"
  BY DEF Init
<1>3. Len(sent) = 0 /\ Len(queue) = 0 /\ Len(batch) = 0 /\ Len(held) = 0 /\ Len(senders) = 0 /\ Len(log) = 0
  BY <1>2
<1>4. Done = 0 /\ Settled = 0
  <2>1. Done = 0
    BY <1>3 DEF Done
  <2>2. Settled = Done
    BY <1>2 DEF Settled
  <2>3. QED
    BY <2>1, <2>2
<1>5. NamedOnce
  BY <1>2, <1>3 DEF NamedOnce, Phases, Numbered, Once, ToSet
<1>6. Ordered
  BY <1>2, <1>3, <1>4 DEF Ordered, Places, LogPlaced, LogInOrder, AllLogged, OutcomeTells,
                          AnswersTell, StopDrains, AnswerFlushes
<1>7. QED
  BY <1>1, <1>5, <1>6 DEF WriterInv

LEMMA WriterStep ==
    ASSUME WriterInv, [Next]_vars
    PROVE  WriterInv'
<1>1. TypeOK /\ NamedOnce /\ Ordered
  BY DEF WriterInv
<1>2. TypeOK' /\ Numbered' /\ Once' /\ Phases' /\ Ordered'
  BY <1>1, TypeStep, NamedStep, PhasesStep, OrderStep
<1>3. QED
  BY <1>2 DEF WriterInv, NamedOnce

LEMMA WriterInvariant == Spec => []WriterInv
<1>1. QED
  BY WriterInit, WriterStep, PTL DEF Spec

LEMMA InvKeeps == WriterInv => LogKeepsQueue
<1> SUFFICES ASSUME WriterInv PROVE LogKeepsQueue
  OBVIOUS
<1>1. ShutdownDrains
  BY DEF WriterInv, NamedOnce, Phases, Ordered, StopDrains, ShutdownDrains
<1>2. QED
  BY <1>1 DEF WriterInv, Ordered, LogKeepsQueue

\* The log is the queue in its order, with gaps where a write failed; an ok,
\* and the end of the shutdown, vouch for everything queued before
\* (writer.rs run, flush and shutdown), whatever was batched together.
THEOREM LogIsTheQueue == Spec => []LogKeepsQueue
<1>1. QED
  BY WriterInvariant, InvKeeps, PTL

-----------------------------------------------------------------------------
(* The promise to the callers: TraceLog, of the names of the commands.     *)

Written  == [i \in 1 .. Len(log) |-> <<log[i].by, log[i].n>>]
CalledBy == UNION {{c} \X (1 .. calls[c]) : c \in Callers}
Told     == {[cmd |-> <<a.cmd.by, a.cmd.n>>, ok |-> a.says = "ok"] : a \in answers}

LEMMA GivenIsCalled ==
    ASSUME TypeOK, Numbered, NEW cmd \in Given, cmd \in Cmd
    PROVE  Named(cmd) \in CalledBy
<1>1. cmd.n <= calls[cmd.by] /\ cmd.by \in Callers /\ cmd.n \in 1 .. MaxCalls
  BY NotStop DEF Numbered, Given
<1>2. calls[cmd.by] \in Nat
  BY <1>1 DEF TypeOK
<1>3. cmd.n \in 1 .. calls[cmd.by]
  BY <1>1, <1>2, CallsAssumption
<1>4. QED
  BY <1>1, <1>3 DEF Named, CalledBy

\* Names of commands that are answered, or written, stand before Done.
LEMMA KnownNames ==
    ASSUME TypeOK, Ordered, worker # "stopped"
    PROVE  /\ \A a \in Told : \E k \in 1 .. Done : a.cmd = Named(sent[k])
           /\ \A i \in 1 .. Len(log) : \E k \in 1 .. Settled :
                 k \in 1 .. Len(sent) /\ log[i] = sent[k] /\ Written[i] = Named(sent[k])
<1>1. \A a \in Told : \E k \in 1 .. Done : a.cmd = Named(sent[k])
  <2> TAKE a \in Told
  <2>1. PICK b \in answers : a.cmd = Named(b.cmd)
    BY DEF Told, Named
  <2>2. PICK k \in 1 .. Done : sent[k] = b.cmd
    BY DEF Ordered, AnswersTell
  <2>3. QED
    BY <2>1, <2>2
<1>2. ASSUME NEW i \in 1 .. Len(log)
      PROVE  \E k \in 1 .. Settled :
                 k \in 1 .. Len(sent) /\ log[i] = sent[k] /\ Written[i] = Named(sent[k])
  <2>1. PICK k \in 1 .. Len(sent) : sent[k] = log[i] /\ k <= Settled
    BY DEF Ordered, LogPlaced
  <2>2. Settled \in Int
    BY Lengths DEF Settled
  <2>3. QED
    BY <2>1, <2>2, Lengths DEF Written, Named
<1>3. QED
  BY <1>1, <1>2

LEMMA CallIsCall ==
    ASSUME TypeOK, NEW c \in Callers, MayCall(c), Counted(c)
    PROVE  /\ <<c, calls[c] + 1>> \in Callers \X (1 .. MaxCalls)
           /\ <<c, calls[c] + 1>> \notin CalledBy
           /\ CalledBy' = CalledBy \cup {<<c, calls[c] + 1>>}
<1>1. \A d \in Callers : calls[d] \in Nat
  BY DEF TypeOK
<1>2. \A d \in Callers : calls'[d] = IF d = c THEN calls[c] + 1 ELSE calls[d]
  BY DEF TypeOK, Counted
<1>3. calls[c] + 1 \in 1 .. MaxCalls
  BY <1>1, CallsAssumption DEF MayCall, TypeOK
<1>4. <<c, calls[c] + 1>> \notin CalledBy
  BY <1>1 DEF CalledBy
<1>5. \A d \in Callers : {d} \X (1 .. calls'[d]) =
         ({d} \X (1 .. calls[d])) \cup (IF d = c THEN {<<c, calls[c] + 1>>} ELSE {})
  BY <1>1, <1>2
<1>6. CalledBy' = CalledBy \cup {<<c, calls[c] + 1>>}
  <2>1. \A p : p \in CalledBy' <=> \E d \in Callers : p \in {d} \X (1 .. calls'[d])
    BY DEF CalledBy
  <2>2. \A p : p \in CalledBy <=> \E d \in Callers : p \in {d} \X (1 .. calls[d])
    BY DEF CalledBy
  <2>3. \A p : p \in CalledBy' <=> p \in CalledBy \/ p = <<c, calls[c] + 1>>
    BY <1>5, <2>1, <2>2
  <2>4. QED
    BY <2>3
<1>7. QED
  BY <1>3, <1>4, <1>6

LEMMA CommitAppends ==
    ASSUME TypeOK, Commit
    PROVE  /\ Len(log') \in Nat /\ Len(log') >= Len(log)
           /\ \A i \in 1 .. Len(log) : log'[i] = log[i]
           /\ \A i \in Len(log) + 1 .. Len(log') : \E m \in 1 .. Len(batch) : log'[i] = batch[m]
           /\ \A i, j \in Len(log) + 1 .. Len(log') : i < j =>
                 \E m, n \in 1 .. Len(batch) : m < n /\ log'[i] = batch[m] /\ log'[j] = batch[n]
<1>1. PICK ok \in [1 .. Len(batch) -> BOOLEAN] : log' = log \o Kept(ok)
  BY DEF Commit
<1> DEFINE K == Kept(ok)
<1>2. /\ K \in Seq(Cmd)
      /\ \A k \in 1 .. Len(K) : \E i \in 1 .. Len(batch) : K[k] = batch[i]
      /\ \A k, l \in 1 .. Len(K) : k < l =>
            \E i, j \in 1 .. Len(batch) : i < j /\ K[k] = batch[i] /\ K[l] = batch[j]
  BY KeptInOrder
<1>3. log' = log \o K
  BY <1>1
<1> HIDE DEF K
<1>4. Len(log) \in Nat /\ Len(K) \in Nat /\ log \in Seq(Cmd)
  BY <1>2, Lengths, LenProperties
<1>5. /\ Len(log') = Len(log) + Len(K)
      /\ \A i \in 1 .. Len(log) + Len(K) :
            log'[i] = IF i <= Len(log) THEN log[i] ELSE K[i - Len(log)]
  BY <1>2, <1>3, <1>4, ConcatProperties
<1>6. \A i \in Len(log) + 1 .. Len(log') :
         i - Len(log) \in 1 .. Len(K) /\ log'[i] = K[i - Len(log)]
  BY <1>4, <1>5
<1>7. ASSUME NEW i \in Len(log) + 1 .. Len(log'), NEW j \in Len(log) + 1 .. Len(log'), i < j
      PROVE  \E m, n \in 1 .. Len(batch) : m < n /\ log'[i] = batch[m] /\ log'[j] = batch[n]
  <2>1. i - Len(log) < j - Len(log)
    BY <1>4, <1>5, <1>7
  <2>2. \E m, n \in 1 .. Len(batch) :
           m < n /\ K[i - Len(log)] = batch[m] /\ K[j - Len(log)] = batch[n]
    BY <1>2, <1>6, <2>1, Zenon
  <2>3. QED
    BY <1>6, <2>2
<1>8. Len(log') \in Nat /\ Len(log') >= Len(log) /\ \A i \in 1 .. Len(log) : log'[i] = log[i]
  BY <1>4, <1>5
<1>9. \A i \in Len(log) + 1 .. Len(log') : \E m \in 1 .. Len(batch) : log'[i] = batch[m]
  <2> TAKE i \in Len(log) + 1 .. Len(log')
  <2>1. i - Len(log) \in 1 .. Len(K) /\ log'[i] = K[i - Len(log)]
    BY <1>6
  <2>2. PICK m \in 1 .. Len(batch) : K[i - Len(log)] = batch[m]
    BY <1>2, <2>1
  <2>3. QED
    BY <2>1, <2>2
<1>10. QED
  BY <1>7, <1>8, <1>9

\* A transaction writes commands of the batch: none is answered, none was
\* written before, all have been given.
LEMMA CommitWrites ==
    ASSUME WriterInv, Commit
    PROVE  Log!Write \/ UNCHANGED <<Written, CalledBy, Told>>
<1>1. TypeOK /\ Numbered /\ Once /\ Ordered /\ worker = "commit"
  BY DEF WriterInv, NamedOnce, Commit
<1>2. /\ Len(log') \in Nat /\ Len(log) \in Nat /\ Len(log') >= Len(log)
      /\ \A i \in 1 .. Len(log) : log'[i] = log[i]
      /\ \A i \in Len(log) + 1 .. Len(log') : \E m \in 1 .. Len(batch) : log'[i] = batch[m]
      /\ \A i, j \in Len(log) + 1 .. Len(log') : i < j =>
            \E m, n \in 1 .. Len(batch) : m < n /\ log'[i] = batch[m] /\ log'[j] = batch[n]
  BY <1>1, CommitAppends, Lengths
<1>3. CalledBy' = CalledBy /\ Told' = Told
  BY DEF Commit, clients, CalledBy, Told
<1>4. /\ Len(Written) = Len(log) /\ Len(Written') = Len(log')
      /\ \A i \in 1 .. Len(log) : Written[i] = Named(log[i])
      /\ \A i \in 1 .. Len(log') : Written'[i] = Named(log'[i])
  BY <1>2 DEF Written, Named
<1>5. CASE Len(log') = Len(log)
  <2>1. Written' = Written
    BY <1>2, <1>5 DEF Written
  <2>2. QED
    BY <1>3, <2>1
<1>6. CASE Len(log') # Len(log)
  <2>1. Len(Written') > Len(Written)
    BY <1>2, <1>4, <1>6
  <2>2. SubSeq(Written', 1, Len(Written)) = Written
    <3>1. SubSeq(Written', 1, Len(Written)) = [i \in 1 .. Len(log) |-> Written'[i]]
      BY <1>2, <1>4
    <3>2. \A i \in 1 .. Len(log) : Written'[i] = Written[i]
      BY <1>2, <1>4
    <3>3. Written = [i \in 1 .. Len(log) |-> Written[i]]
      BY DEF Written
    <3>4. QED
      BY <3>1, <3>2, <3>3
  <2>3. ASSUME NEW i \in Len(Written) + 1 .. Len(Written')
        PROVE  /\ Written'[i] \in CalledBy
               /\ \A a \in Told : a.cmd # Written'[i]
               /\ \A j \in 1 .. i - 1 : Written'[j] # Written'[i]
    <3>1. i \in Len(log) + 1 .. Len(log') /\ i \in 1 .. Len(log')
      BY <1>2, <1>4
    <3>2. PICK m \in 1 .. Len(batch) : log'[i] = batch[m]
      BY <1>2, <3>1
    <3>3. Written'[i] = Named(batch[m])
      BY <1>4, <3>1, <3>2
    <3>4. Named(batch[m]) \in CalledBy
      <4>1. batch[m] \in Cmd /\ batch[m] \in Given
        BY <1>1, BatchPlaces, Lengths, ElementOfSeq DEF Given, ToSet
      <4>2. QED
        BY <1>1, <4>1, GivenIsCalled
    <3>5. \A k \in 1 .. Done : Named(sent[k]) # Named(batch[m])
      BY <1>1, BatchIsNew
    <3>6. \A a \in Told : a.cmd # Written'[i]
      BY <1>1, <3>3, <3>5, KnownNames
    <3>7. ASSUME NEW j \in 1 .. i - 1
          PROVE  Written'[j] # Written'[i]
      <4>1. CASE j \in 1 .. Len(log)
        <5>1. PICK k \in 1 .. Settled : log[j] = sent[k]
          BY <1>1, <4>1, KnownNames
        <5>2. k \in 1 .. Done
          BY <1>1 DEF Settled
        <5>3. Written'[j] = Named(sent[k])
          BY <1>2, <1>4, <4>1, <5>1
        <5>4. QED
          BY <3>3, <3>5, <5>2, <5>3
      <4>2. CASE j \notin 1 .. Len(log)
        <5>1. j \in Len(log) + 1 .. Len(log') /\ j < i /\ j \in 1 .. Len(log')
          BY <1>2, <3>1, <4>2
        <5>2. PICK n \in 1 .. Len(batch), l \in 1 .. Len(batch) :
                 n < l /\ log'[j] = batch[n] /\ log'[i] = batch[l]
          BY <1>2, <3>1, <5>1
        <5>3. n # l
          BY <5>2
        <5>4. Named(batch[n]) # Named(batch[l])
          BY <1>1, <5>3, BatchIsNew
        <5>5. QED
          BY <1>4, <3>1, <5>1, <5>2, <5>4
      <4>3. QED
        BY <4>1, <4>2
    <3>8. QED
      BY <3>3, <3>4, <3>6, <3>7
  <2>4. QED
    BY <1>3, <2>1, <2>2, <2>3 DEF Log!Write, Log!Answered, Written, CalledBy, Told
<1>7. QED
  BY <1>5, <1>6

LEMMA WrittenNames ==
    ASSUME TypeOK, Ordered, Once, worker # "stopped", NEW k \in 1 .. Len(sent)
    PROVE  Named(sent[k]) \in {Written[i] : i \in 1 .. Len(Written)} <=> sent[k] \in ToSet(log)
<1>1. Len(log) \in Nat /\ Len(Written) = Len(log) /\ \A i \in 1 .. Len(log) : Written[i] = Named(log[i])
  BY Lengths DEF Written, Named
<1>2. ASSUME NEW i \in 1 .. Len(log), Named(log[i]) = Named(sent[k])
      PROVE  log[i] = sent[k]
  <2>1. PICK l \in 1 .. Len(sent) : log[i] = sent[l]
    BY KnownNames
  <2>2. QED
    BY <1>2, <2>1 DEF Once
<1>3. QED
  BY <1>1, <1>2 DEF ToSet

\* Answers of commands that have a place in the queue: each the first of its
\* command, each the truth.
LEMMA AnswersAreReturns ==
    ASSUME TypeOK, Ordered, Once, worker # "stopped", answers \subseteq answers',
           UNCHANGED <<log, calls>>,
           \A a \in answers' \ answers :
              /\ Named(a.cmd) \in CalledBy
              /\ \A k \in 1 .. Done : Named(sent[k]) # Named(a.cmd)
              /\ a.says = "ok" <=> Named(a.cmd) \in {Written[i] : i \in 1 .. Len(Written)}
    PROVE  Log!Return
<1>1. Written' = Written /\ CalledBy' = CalledBy
  BY DEF Written, CalledBy
<1>2. Told \subseteq Told'
  BY DEF Told
<1>3. ASSUME NEW t \in Told', t \notin Told
      PROVE  /\ t.cmd \in CalledBy
             /\ \A u \in Told : u.cmd # t.cmd
             /\ t.ok <=> t.cmd \in {Written[i] : i \in 1 .. Len(Written)}
  <2>1. PICK a \in answers' : t = [cmd |-> Named(a.cmd), ok |-> a.says = "ok"]
    BY DEF Told, Named
  <2>2. a \notin answers
    BY <1>3, <2>1 DEF Told, Named
  <2>3. t.cmd = Named(a.cmd) /\ (t.ok <=> a.says = "ok")
    BY <2>1
  <2>4. \A u \in Told : u.cmd # t.cmd
    BY <2>2, <2>3, KnownNames
  <2>5. QED
    BY <2>2, <2>3, <2>4
<1>4. QED
  BY <1>1, <1>2, <1>3 DEF Log!Return, Log!Answered, Log!Logged, Written, CalledBy, Told

LEMMA ReplyReturns ==
    ASSUME WriterInv, Reply
    PROVE  Log!Return
<1> DEFINE told == {i \in 1 .. Len(batch) : batch[i].op # "append_detached"}
<1>1. TypeOK /\ Numbered /\ Once /\ Ordered /\ worker = "answer"
  BY DEF WriterInv, NamedOnce, Reply
<1>2. /\ answers' = answers \cup {Answer(batch[i], IF outcome[i] THEN "ok" ELSE "error") : i \in told}
      /\ UNCHANGED <<log, calls>>
  BY DEF Reply
<1>3. \A a \in answers' \ answers :
         \E i \in 1 .. Len(batch) : a.cmd = batch[i] /\ (a.says = "ok" <=> outcome[i])
  BY <1>2 DEF Answer
<1>4. ASSUME NEW a \in answers', a \notin answers
      PROVE  /\ Named(a.cmd) \in CalledBy
             /\ \A k \in 1 .. Done : Named(sent[k]) # Named(a.cmd)
             /\ a.says = "ok" <=> Named(a.cmd) \in {Written[i] : i \in 1 .. Len(Written)}
  <2>1. PICK i \in 1 .. Len(batch) : a.cmd = batch[i] /\ (a.says = "ok" <=> outcome[i])
    BY <1>3, <1>4
  <2>2. Done + i \in 1 .. Len(sent) /\ batch[i] = sent[Done + i]
    BY <1>1, BatchPlaces
  <2>3. Named(a.cmd) \in CalledBy
    <3>1. batch[i] \in Cmd /\ batch[i] \in Given
      BY <1>1, <2>2, Lengths, ElementOfSeq DEF Given, ToSet
    <3>2. QED
      BY <1>1, <2>1, <3>1, GivenIsCalled
  <2>4. \A k \in 1 .. Done : Named(sent[k]) # Named(a.cmd)
    BY <1>1, <2>1, BatchIsNew
  <2>5. outcome[i] <=> batch[i] \in ToSet(log)
    BY <1>1 DEF Ordered, OutcomeTells
  <2>6. a.says = "ok" <=> Named(a.cmd) \in {Written[j] : j \in 1 .. Len(Written)}
    BY <1>1, <2>1, <2>2, <2>5, WrittenNames
  <2>7. QED
    BY <2>3, <2>4, <2>6
<1>5. QED
  BY <1>1, <1>2, <1>4, AnswersAreReturns

\* What goes with the channel stands behind Stop, or never entered the queue.
LEMMA ReceiveStopReturns ==
    ASSUME WriterInv, ReceiveStop
    PROVE  Log!Return
<1> DEFINE dropped == Awaited(ToSet(Tail(Incoming)) \cup ToSet(senders))
<1>1. TypeOK /\ Phases /\ Numbered /\ Once /\ Ordered /\ worker = "receive" /\ Incoming # << >>
  BY DEF WriterInv, NamedOnce, ReceiveStop
<1>2. /\ answers' = answers \cup {Answer(cmd, "closed") : cmd \in dropped}
      /\ UNCHANGED <<log, calls>>
  BY DEF ReceiveStop
<1>3. \A cmd \in dropped :
         /\ cmd.by \in awaits
         /\ cmd \in ToSet(queue) \cup ToSet(senders)
  BY <1>1, IncomingHead DEF Awaited
<1>4. ToSet(queue) \cup ToSet(senders) \subseteq Cmds
  BY ElementOfSeq, <1>1 DEF TypeOK, ToSet
<1>5. ASSUME NEW cmd \in dropped
      PROVE  /\ cmd \in Cmd /\ cmd \in Given
             /\ \A k \in 1 .. Done : Named(sent[k]) # Named(cmd)
  <2>1. cmd \in Cmd
    BY <1>1, <1>3, <1>4, <1>5, NotStop DEF TypeOK
  <2>2. Done \in Nat /\ Len(sent) = Done + Len(batch) + Len(held) + Len(queue)
    BY <1>1, Lengths DEF Ordered, Places, Done
  <2>3. CASE cmd \in ToSet(queue)
    <3>1. PICK i \in 1 .. Len(queue) : cmd = queue[i]
      BY <2>3 DEF ToSet
    <3>2. cmd = sent[Done + Len(batch) + Len(held) + i]
      BY <1>1, <3>1 DEF Ordered, Places
    <3>3. /\ Done + Len(batch) + Len(held) + i \in 1 .. Len(sent)
          /\ Done + Len(batch) + Len(held) + i > Done
          /\ Done <= Len(sent)
      <4>1. Len(batch) \in Nat /\ Len(held) \in Nat /\ Len(queue) \in Nat
        BY <1>1, Lengths
      <4>2. QED
        BY <2>2, <4>1
    <3>4. \A k \in 1 .. Done : k \in 1 .. Len(sent) /\ k # Done + Len(batch) + Len(held) + i
      BY <2>2, <3>3
    <3>5. QED
      BY <1>1, <2>1, <2>3, <3>2, <3>3, <3>4 DEF Once, Given, ToSet
  <2>4. CASE cmd \in ToSet(senders)
    <3>1. PICK i \in 1 .. Len(senders) : cmd = senders[i]
      BY <2>4 DEF ToSet
    <3>2. \A k \in 1 .. Done : k \in 1 .. Len(sent)
      <4>1. Len(batch) \in Nat /\ Len(held) \in Nat /\ Len(queue) \in Nat
        BY <1>1, Lengths
      <4>2. QED
        BY <2>2, <4>1
    <3>3. QED
      BY <1>1, <2>1, <2>4, <3>1, <3>2 DEF Once, Given
  <2>5. QED
    BY <1>3, <1>5, <2>3, <2>4
<1>6. ASSUME NEW a \in answers', a \notin answers
      PROVE  /\ Named(a.cmd) \in CalledBy
             /\ \A k \in 1 .. Done : Named(sent[k]) # Named(a.cmd)
             /\ a.says = "ok" <=> Named(a.cmd) \in {Written[i] : i \in 1 .. Len(Written)}
  <2>1. a.cmd \in dropped /\ a.says = "closed"
    BY <1>2, <1>6 DEF Answer
  <2>2. a.cmd \in Cmd /\ a.cmd \in Given /\ \A k \in 1 .. Done : Named(sent[k]) # Named(a.cmd)
    BY <1>5, <2>1
  <2>3. Named(a.cmd) \in CalledBy
    BY <1>1, <2>2, GivenIsCalled
  <2>4. \A i \in 1 .. Len(Written) : Written[i] # Named(a.cmd)
    <3> TAKE i \in 1 .. Len(Written)
    <3>1. Len(Written) = Len(log)
      BY <1>1, Lengths DEF Written
    <3>2. PICK k \in 1 .. Settled : Written[i] = Named(sent[k])
      BY <1>1, <3>1, KnownNames
    <3>3. k \in 1 .. Done
      BY <1>1 DEF Settled
    <3>4. QED
      BY <2>2, <3>2, <3>3
  <2>5. QED
    BY <2>1, <2>2, <2>3, <2>4
<1>7. answers \subseteq answers' /\ worker # "stopped"
  BY <1>1, <1>2
<1>8. QED
  BY <1>1, <1>2, <1>6, <1>7, AnswersAreReturns

LEMMA WriterImplementsStep ==
    ASSUME WriterInv, [Next]_vars
    PROVE  Log!Next \/ UNCHANGED <<Written, CalledBy, Told>>
<1>0. TypeOK
  BY DEF WriterInv
<1>1. ASSUME NEW c \in Callers, NEW op \in Ops, Call(c, op)
      PROVE  Log!Next
  <2>1. /\ <<c, calls[c] + 1>> \in Callers \X (1 .. MaxCalls)
        /\ <<c, calls[c] + 1>> \notin CalledBy
        /\ CalledBy' = CalledBy \cup {<<c, calls[c] + 1>>}
    BY <1>0, <1>1, CallIsCall DEF Call
  <2>2. Written' = Written
    BY <1>1 DEF Call, thread, Written
  <2>3. Told' \in {Told, Told \cup {[cmd |-> <<c, calls[c] + 1>>, ok |-> FALSE]}}
    <3>1. CASE Closed
      <4>1. answers' = answers \cup {Answer(NextCmd(c, op), "closed")}
        BY <1>1, <3>1 DEF Call
      <4>2. LET a == Answer(NextCmd(c, op), "closed")
            IN  a.cmd.by = c /\ a.cmd.n = calls[c] + 1 /\ (a.says = "ok" <=> FALSE)
        BY DEF Answer, NextCmd
      <4>3. Told' = Told \cup {[cmd |-> <<c, calls[c] + 1>>, ok |-> FALSE]}
        BY <4>1, <4>2 DEF Told
      <4>4. QED
        BY <4>3
    <3>2. CASE ~Closed
      BY <1>1, <3>2 DEF Call, Told
    <3>3. QED
      BY <3>1, <3>2
  <2>4. \A cmd : cmd = <<c, calls[c] + 1>> => Log!Call(cmd)
    BY <2>1, <2>2, <2>3 DEF Log!Call, Written, CalledBy, Told
  <2>5. \E cmd \in Callers \X (1 .. MaxCalls) : Log!Call(cmd)
    BY <2>1, <2>4, Zenon
  <2>6. QED
    BY <2>5 DEF Log!Next
<1>2. ASSUME NEW c \in Callers, AppendDetached(c)
      PROVE  Log!Next
  <2>1. /\ <<c, calls[c] + 1>> \in Callers \X (1 .. MaxCalls)
        /\ <<c, calls[c] + 1>> \notin CalledBy
        /\ CalledBy' = CalledBy \cup {<<c, calls[c] + 1>>}
    BY <1>0, <1>2, CallIsCall DEF AppendDetached
  <2>2. Written' = Written /\ Told' = Told
    BY <1>2 DEF AppendDetached, thread, Written, Told
  <2>3. \A cmd : cmd = <<c, calls[c] + 1>> => Log!Call(cmd)
    BY <2>1, <2>2 DEF Log!Call, Written, CalledBy, Told
  <2>4. \E cmd \in Callers \X (1 .. MaxCalls) : Log!Call(cmd)
    BY <2>1, <2>3, Zenon
  <2>5. QED
    BY <2>4 DEF Log!Next
<1>3. CASE Commit
  BY <1>3, CommitWrites DEF Log!Next
<1>4. CASE Reply
  BY <1>4, ReplyReturns DEF Log!Next
<1>5. CASE ReceiveStop
  BY <1>5, ReceiveStopReturns DEF Log!Next
<1>6. ASSUME UNCHANGED <<log, calls, answers>>
      PROVE  UNCHANGED <<Written, CalledBy, Told>>
  BY <1>6 DEF Written, CalledBy, Told
<1>7. CASE \/ \E cmd \in deferred : SendDeferred(cmd)
           \/ Admit \/ Receive \/ Gather \/ Shutdown \/ ShutdownReturns \/ UNCHANGED vars
  <2>1. UNCHANGED <<log, calls, answers>>
    BY <1>7 DEF SendDeferred, Admit, Receive, Gather, Shutdown, ShutdownReturns, vars, thread, clients
  <2>2. QED
    BY <1>6, <2>1
<1>8. QED
  BY <1>1, <1>2, <1>3, <1>4, <1>5, <1>7 DEF Next, Work, Quiescent

\* TraceLog is what the callers see (writer.rs append, run, append_detached,
\* worker_loop): each command is written at most once, after it is given and
\* before it is answered, and the answer is ok exactly when it is written.
THEOREM WriterKeepsItsPromise == Spec => ImplementsLog
<1>1. Init => Log!Init
  BY DEF Init, Log!Init
<1>2. WriterInv /\ [Next]_vars => [Log!Next]_(Log!vars)
  BY WriterImplementsStep DEF Log!vars, Written, CalledBy, Told
<1>3. QED
  BY <1>1, <1>2, WriterInvariant, PTL DEF Spec, ImplementsLog, Log!Spec
=============================================================================
