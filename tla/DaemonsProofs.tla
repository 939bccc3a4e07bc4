---------------------------- MODULE DaemonsProofs ----------------------------
(***************************************************************************)
(* What holds of Daemons for every value of its constants: the daemon that *)
(* serves is the one clients find, a client talks to the daemon it has     *)
(* read of, a new daemon ends only agents no process runs any longer, and  *)
(* a daemon is stopped only by a client it let in or a newer one that      *)
(* means it.                                                               *)
(***************************************************************************)
EXTENDS Daemons, FiniteSetTheorems, TLAPS

-----------------------------------------------------------------------------
(* The invariant. *)

Holding   == {"locked", "bound", "serving"} \cup Ending
Listening == {"bound", "serving"}
\* A daemon in which agents have their tasks, and accepted connections their loops.
Working   == {"serving", "draining", "closing", "unlisted"}
\* A daemon daemon.json may have named.
Known     == {"serving"} \cup Ending \cup Gone
Unheard   == {"unborn", "starting", "locked"}

Types ==
    /\ at \in [Processes -> {"unborn"} \cup Running \cup Gone]
    /\ api \in [Processes -> Apis]
    /\ stopping \in [Processes -> {"no", "idle", "rpc", "signal"}]
    /\ forced \subseteq Processes
    /\ {lock, file, sock} \subseteq Processes \cup {Nobody}
    /\ conns \subseteq Connections
    /\ live \in [Clients -> Processes \cup {Nobody}]
    /\ row \in [Clients -> {"none", "running", "ended", "recovered"}]
    /\ timer \in BOOLEAN /\ role \in [Clients -> Roles]
    /\ pc \in [Clients -> {"begin"} \cup Connecting \cup Returned \cup After]
    /\ info \in [Clients -> Processes \cup {Nobody}]
    /\ stale \in [Clients -> Processes \cup {Nobody}]
    /\ child \in [Clients -> Processes \cup {Nobody}]
    /\ returns \in [Clients -> 0 .. MaxReturns]
    /\ faults \in Nat

\* Whoever has the lock is past it and not yet gone; the listener and the file
\* are the holder's.
DiskFits ==
    \A d \in Processes :
        /\ at[d] \in Holding <=> lock = d
        /\ at[d] \in Listening <=> sock = d
        /\ at[d] = "serving" => file = d
        /\ at[d] \in {"unlisted", "quiet", "exited"} => file # d
        /\ file = d => at[d] \in Known

AgentsFit == \A c \in Clients : live[c] # Nobody => at[live[c]] \in Working

\* The daemon's end of a connection is open only while there is somebody to
\* accept or answer it.
Served(k) == k.up => at[k.to] \in IF k.is = "queued" THEN Listening ELSE Working

\* What a connection tells of the daemon at its other end and of the one whose
\* token it carries: they are the same or the latter is gone.
Told(k) ==
    /\ at[k.to] \notin Unheard
    /\ at[k.token] \in Known
    /\ k.to # k.token => at[k.token] \in Gone
    /\ k.is = "in" => k.token = k.to /\ api[k.to] = role[k.by].api
    /\ k.ask = "shutdown" /\ k.to = k.token => api[k.to] < role[k.by].api

\* A client holds one connection at most, made with the token it has read.
ClientFits(c) ==
    /\ info[c] # Nobody => at[info[c]] \in Known
    /\ pc[c] \in {"dial", "hello", "replace", "asked", "connected", "stop_asked"} =>
          info[c] # Nobody
    /\ pc[c] = "replace" => at[info[c]] \in Gone \/ api[info[c]] < role[c].api
    /\ \A k \in Mine(c) :
          /\ pc[c] \in {"hello", "asked", "connected", "stop_asked"}
          /\ k.token = info[c]
          /\ pc[c] = "connected" => k.is = "in"
    /\ \A k, l \in Mine(c) : k = l

DaemonInv ==
    /\ Types /\ DiskFits /\ AgentsFit
    /\ \A k \in conns : Served(k) /\ Told(k)
    /\ \A c \in Clients : ClientFits(c)

-----------------------------------------------------------------------------
(* The daemons: the lock, the listener, the file and the agents. *)

States == {"unborn"} \cup Running \cup Gone

LEMMA NobodyIsNoProcess == Nobody \notin Processes /\ Processes \subseteq Nat \ {0}
  BY DaemonBounds DEF Nobody, Processes

LEMMA GoesOn ==
    ASSUME Types, NEW d \in Processes, NEW x \in States, Goto(d, x)
    PROVE  /\ at' \in [Processes -> States]
           /\ at'[d] = x /\ \A e \in Processes \ {d} : at'[e] = at[e]
  BY DEF Types, Goto, States

\* What is behind a daemon stays behind it.
GoneStayGone ==
    \A d \in Processes :
        /\ at[d] \in Known => at'[d] \in Known
        /\ at[d] \in Gone => at'[d] \in Gone
        /\ at[d] \notin Unheard => at'[d] \notin Unheard

\* The part of the invariant that is about the processes alone.
ProcessesFit == /\ at \in [Processes -> States]
                /\ {lock, file, sock} \subseteq Processes \cup {Nobody}
                /\ DiskFits

LEMMA ComingUp ==
    ASSUME DaemonInv, NEW d \in Processes, Acquire(d) \/ OpenAndListen(d) \/ WriteInfo(d)
    PROVE  ProcessesFit' /\ GoneStayGone
<1>1. PICK x \in {"locked", "refused", "bound", "serving"} :
          /\ Goto(d, x)
          /\ \/ /\ at[d] = "starting" /\ UNCHANGED <<file, sock>>
                /\ \/ x = "locked" /\ lock = Nobody /\ lock' = d
                   \/ x = "refused" /\ UNCHANGED lock
             \/ at[d] = "locked" /\ x = "bound" /\ sock' = d /\ UNCHANGED <<lock, file>>
             \/ at[d] = "bound" /\ x = "serving" /\ file' = d /\ UNCHANGED <<lock, sock>>
  BY DEF Acquire, OpenAndListen, WriteInfo
<1>2. x \in States
  BY DEF States, Running, Starting, Gone
<1>3. /\ at' \in [Processes -> States]
      /\ at'[d] = x /\ \A e \in Processes \ {d} : at'[e] = at[e]
  BY <1>1, <1>2, GoesOn DEF DaemonInv
<1>4. {lock', file', sock'} \subseteq Processes \cup {Nobody}
  BY <1>1 DEF DaemonInv, Types
<1>5. GoneStayGone
  BY <1>1, <1>3 DEF GoneStayGone, Known, Gone, Ending, Unheard
<1>6. ASSUME NEW e \in Processes
      PROVE  /\ at'[e] \in Holding <=> lock' = e
             /\ at'[e] \in Listening <=> sock' = e
             /\ at'[e] = "serving" => file' = e
             /\ at'[e] \in {"unlisted", "quiet", "exited"} => file' # e
             /\ file' = e => at'[e] \in Known
  <2>0. /\ DiskFits /\ lock \in Processes \cup {Nobody} /\ sock \in Processes \cup {Nobody}
        /\ file \in Processes \cup {Nobody}
    BY DEF DaemonInv, Types
  <2>1. CASE at[d] = "starting"
    BY <1>1, <1>3, <2>0, <2>1, NobodyIsNoProcess DEF DiskFits, Holding, Listening, Known, Ending, Gone
  <2>2. CASE at[d] = "locked"
    BY <1>1, <1>3, <2>0, <2>2, NobodyIsNoProcess DEF DiskFits, Holding, Listening, Known, Ending, Gone
  <2>3. CASE at[d] = "bound"
    BY <1>1, <1>3, <2>0, <2>3, NobodyIsNoProcess DEF DiskFits, Holding, Listening, Known, Ending, Gone
  <2> QED
    BY <1>1, <2>1, <2>2, <2>3
<1> QED
  BY <1>3, <1>4, <1>5, <1>6 DEF ProcessesFit, DiskFits

LEMMA GoingDown ==
    ASSUME DaemonInv, NEW d \in Processes,
           \/ StopAccepting(d) \/ Drained(d) \/ DrainTimeout(d) \/ CloseAndUnlist(d)
           \/ ShutRuntime(d) \/ Unlock(d)
    PROVE  ProcessesFit' /\ GoneStayGone
<1>1. PICK x \in {"draining", "closing", "unlisted", "quiet", "exited"} :
          /\ Goto(d, x)
          /\ \/ at[d] = "serving" /\ x = "draining" /\ sock' = Nobody /\ UNCHANGED <<lock, file>>
             \/ at[d] = "draining" /\ x = "closing" /\ UNCHANGED <<lock, file, sock>>
             \/ at[d] = "closing" /\ x = "unlisted" /\ file' = Nobody /\ UNCHANGED <<lock, sock>>
             \/ at[d] = "unlisted" /\ x = "quiet" /\ UNCHANGED <<lock, file, sock>>
             \/ at[d] = "quiet" /\ x = "exited" /\ lock' = Nobody /\ UNCHANGED <<file, sock>>
  BY DEF StopAccepting, Drained, DrainTimeout, CloseAndUnlist, ShutRuntime, Unlock, disk
<1>2. x \in States
  BY DEF States, Running, Ending, Gone
<1>3. /\ at' \in [Processes -> States]
      /\ at'[d] = x /\ \A e \in Processes \ {d} : at'[e] = at[e]
  BY <1>1, <1>2, GoesOn DEF DaemonInv
<1>4. {lock', file', sock'} \subseteq Processes \cup {Nobody}
  BY <1>1 DEF DaemonInv, Types
<1>5. GoneStayGone
  BY <1>1, <1>3 DEF GoneStayGone, Known, Gone, Ending, Unheard
<1>6. ASSUME NEW e \in Processes
      PROVE  /\ at'[e] \in Holding <=> lock' = e
             /\ at'[e] \in Listening <=> sock' = e
             /\ at'[e] = "serving" => file' = e
             /\ at'[e] \in {"unlisted", "quiet", "exited"} => file' # e
             /\ file' = e => at'[e] \in Known
  <2>0. /\ DiskFits /\ lock \in Processes \cup {Nobody} /\ sock \in Processes \cup {Nobody}
        /\ file \in Processes \cup {Nobody}
    BY DEF DaemonInv, Types
  <2>1. CASE at[d] = "serving"
    BY <1>1, <1>3, <2>0, <2>1, NobodyIsNoProcess DEF DiskFits, Holding, Listening, Known, Ending, Gone
  <2>2. CASE at[d] = "draining"
    BY <1>1, <1>3, <2>0, <2>2, NobodyIsNoProcess DEF DiskFits, Holding, Listening, Known, Ending, Gone
  <2>3. CASE at[d] = "closing"
    BY <1>1, <1>3, <2>0, <2>3, NobodyIsNoProcess DEF DiskFits, Holding, Listening, Known, Ending, Gone
  <2>4. CASE at[d] = "unlisted" \/ at[d] = "quiet"
    BY <1>1, <1>3, <2>0, <2>4, NobodyIsNoProcess DEF DiskFits, Holding, Listening, Known, Ending, Gone
  <2> QED
    BY <1>1, <2>1, <2>2, <2>3, <2>4
<1> QED
  BY <1>3, <1>4, <1>5, <1>6 DEF ProcessesFit, DiskFits

LEMMA GoingAtOnce ==
    ASSUME DaemonInv, NEW d \in Processes, NEW how \in {"failed", "killed"}, Vanish(d, how),
           at[d] \in Running
    PROVE  ProcessesFit' /\ GoneStayGone
<1>1. /\ Goto(d, how) /\ how \in States
      /\ lock' = Release(lock, d) /\ sock' = Release(sock, d) /\ UNCHANGED file
  BY DEF Vanish, States, Gone
<1>2. /\ at' \in [Processes -> States]
      /\ at'[d] = how /\ \A e \in Processes \ {d} : at'[e] = at[e]
  BY <1>1, GoesOn DEF DaemonInv
<1>3. {lock', file', sock'} \subseteq Processes \cup {Nobody}
  BY <1>1 DEF DaemonInv, Types, Release
<1>4. GoneStayGone
  BY <1>2 DEF GoneStayGone, Known, Gone, Ending, Unheard, Running, Starting
<1>5. ASSUME NEW e \in Processes
      PROVE  /\ at'[e] \in Holding <=> lock' = e
             /\ at'[e] \in Listening <=> sock' = e
             /\ at'[e] = "serving" => file' = e
             /\ at'[e] \in {"unlisted", "quiet", "exited"} => file' # e
             /\ file' = e => at'[e] \in Known
  <2>0. /\ DiskFits /\ lock \in Processes \cup {Nobody} /\ sock \in Processes \cup {Nobody}
        /\ file \in Processes \cup {Nobody}
    BY DEF DaemonInv, Types
  <2>1. CASE e = d
    BY <1>1, <1>2, <2>0, <2>1, NobodyIsNoProcess
       DEF DiskFits, Holding, Listening, Known, Ending, Gone, Release
  <2>2. CASE e # d
    BY <1>1, <1>2, <2>0, <2>2, NobodyIsNoProcess DEF DiskFits, Release
  <2> QED
    BY <2>1, <2>2
<1> QED
  BY <1>2, <1>3, <1>4, <1>5 DEF ProcessesFit, DiskFits

-----------------------------------------------------------------------------
(* The connections. *)

\* What may become of a connection without anybody making a new one: an end is
\* closed, it is accepted, its request is answered or followed by a stop.
Moved(k, l) ==
    /\ l \in Connections
    /\ l.by = k.by /\ l.to = k.to /\ l.token = k.token
    /\ l.ask \in {k.ask, "stop"}
    /\ l.up => k.up
    /\ l.held => k.held
    /\ \/ l.is \in {k.is, "open"}
       \/ k.is = "open" /\ l.is = Reply(k.to, k)

\* A step on which the daemons keep what they were, and f moves the connections.
Moving(f) ==
    /\ DaemonInv /\ GoneStayGone
    /\ UNCHANGED role
    /\ \A d \in Processes : at[d] # "unborn" => api'[d] = api[d]
    /\ \A k \in conns : Moved(k, f[k])

LEMMA ConnectionFields ==
    ASSUME NEW k \in Connections
    PROVE  /\ k.by \in Clients /\ k.to \in Processes /\ k.token \in Processes
           /\ k.up \in BOOLEAN /\ k.held \in BOOLEAN
           /\ k.ask \in {"hello", "shutdown", "stop"}
           /\ k.is \in {"queued", "open", "in", "unauthorized", "incompatible", "stopping"}
  BY DEF Connections

LEMMA ConnsMove ==
    ASSUME NEW f, Moving(f), NEW k \in conns
    PROVE  f[k] \in Connections /\ Told(f[k])'
<1> DEFINE l == f[k]
<1>1. /\ Told(k) /\ k \in Connections /\ Moved(k, l) /\ GoneStayGone /\ UNCHANGED role
      /\ \A d \in Processes : at[d] # "unborn" => api'[d] = api[d]
  BY DEF Moving, DaemonInv, Types
<1> HIDE DEF l
<1>2. k.to \in Processes /\ k.token \in Processes /\ l \in Connections
  BY <1>1, ConnectionFields DEF Moved
<1>3. l.by = k.by /\ l.to = k.to /\ l.token = k.token
  BY <1>1 DEF Moved
<1>4. api'[l.to] = api[k.to]
  BY <1>1, <1>2, <1>3 DEF Told, Unheard
<1>5. l.is = "in" => k.token = k.to /\ api[k.to] = role[k.by].api
  <2>1. CASE k.is = "in"
    BY <1>1, <2>1 DEF Told
  <2>2. CASE l.is = "in" /\ k.is # "in"
    <3>1. Reply(k.to, k) = "in"
      BY <1>1, <2>2 DEF Moved
    <3> QED
      BY <3>1 DEF Reply
  <2> QED
    BY <2>1, <2>2
<1>6. at'[l.to] \notin Unheard /\ at'[l.token] \in Known /\ (l.to # l.token => at'[l.token] \in Gone)
  BY <1>1, <1>2, <1>3 DEF Told, GoneStayGone
<1>7. l.ask = "shutdown" => k.ask = "shutdown"
  BY <1>1 DEF Moved
<1>8. Told(l)'
  BY <1>1, <1>3, <1>4, <1>5, <1>6, <1>7 DEF Told
<1> QED
  BY <1>2, <1>8 DEF l

\* A client that does nothing has the connection it had.
LEMMA ClientStays ==
    ASSUME NEW f, Moving(f), NEW c \in Clients,
           {k \in conns' : k.by = c} \subseteq {f[k] : k \in conns},
           pc'[c] = pc[c], info'[c] = info[c],
           pc[c] = "connected" => \A k \in Mine(c) : f[k].is = k.is
    PROVE  ClientFits(c)'
<1>1. ClientFits(c) /\ GoneStayGone /\ UNCHANGED role /\ info[c] \in Processes \cup {Nobody}
      /\ \A d \in Processes : at[d] # "unborn" => api'[d] = api[d]
  BY DEF Moving, DaemonInv, Types
<1>2. ASSUME NEW l \in Mine(c)'
      PROVE  \E k \in Mine(c) : l = f[k] /\ l.token = k.token
  <2>1. l \in conns' /\ l.by = c /\ l.held
    BY DEF Mine
  <2>2. PICK k \in conns : l = f[k]
    BY <2>1
  <2>3. Moved(k, f[k])
    BY DEF Moving
  <2> QED
    BY <2>1, <2>2, <2>3 DEF Moved, Mine
<1>3. \A l \in Mine(c)' :
          /\ pc'[c] \in {"hello", "asked", "connected", "stop_asked"}
          /\ l.token = info'[c]
          /\ pc'[c] = "connected" => l.is = "in"
  BY <1>1, <1>2 DEF ClientFits
<1>4. \A k, l \in Mine(c)' : k = l
  BY <1>1, <1>2 DEF ClientFits
<1>5. info'[c] # Nobody => at'[info'[c]] \in Known
  BY <1>1 DEF ClientFits, GoneStayGone
<1>6. pc'[c] = "replace" => at'[info'[c]] \in Gone \/ api'[info'[c]] < role'[c].api
  <2> SUFFICES ASSUME pc'[c] = "replace"
               PROVE  at'[info'[c]] \in Gone \/ api'[info'[c]] < role'[c].api
    OBVIOUS
  <2>1. info[c] \in Processes /\ at[info[c]] \in Known
        /\ (at[info[c]] \in Gone \/ api[info[c]] < role[c].api)
    BY <1>1 DEF ClientFits
  <2>2. at[info[c]] # "unborn"
    BY <2>1 DEF Known, Ending, Gone
  <2> QED
    BY <1>1, <2>1, <2>2 DEF GoneStayGone
<1> QED
  BY <1>1, <1>3, <1>4, <1>5, <1>6 DEF ClientFits

\* A daemon hangs up.
LEMMA HungUp ==
    ASSUME DaemonInv, NEW lost, lost \subseteq conns, conns' = Hangup(conns, lost)
    PROVE  \E f : /\ \A k \in conns : Moved(k, f[k]) /\ f[k].is = k.is
                  /\ conns' \subseteq {f[k] : k \in conns}
                  /\ \A k \in conns : k \in lost => ~f[k].up
<1> DEFINE f == [k \in conns |-> IF k \in lost THEN [k EXCEPT !.up = FALSE] ELSE k]
<1>1. conns \subseteq Connections
  BY DEF DaemonInv, Types
<1>2. ASSUME NEW k \in conns
      PROVE  Moved(k, f[k]) /\ f[k].is = k.is /\ (k \in lost => ~f[k].up)
  <2>1. CASE k \in lost
    <3>1. k \in Connections /\ f[k] = [k EXCEPT !.up = FALSE]
      BY <1>1, <2>1
    <3>2. [k EXCEPT !.up = FALSE] \in Connections
      BY <3>1 DEF Connections
    <3> QED
      BY <3>1, <3>2 DEF Moved, Connections
  <2>2. CASE k \notin lost
    BY <1>1, <2>2 DEF Moved
  <2> QED
    BY <2>1, <2>2
<1>3. conns' \subseteq {f[k] : k \in conns}
  <2> SUFFICES ASSUME NEW l \in conns'
               PROVE  \E k \in conns : l = f[k]
    OBVIOUS
  <2>1. CASE l \in conns \ lost
    BY <2>1
  <2>2. CASE l \notin conns \ lost
    <3>1. PICK k \in lost : l = [k EXCEPT !.up = FALSE]
      BY <2>2 DEF Hangup
    <3> QED
      BY <3>1
  <2> QED
    BY <2>1, <2>2
<1> HIDE DEF f
<1> QED
  BY <1>2, <1>3

LEMMA ConnsStay ==
    ASSUME DaemonInv
    PROVE  \E f : /\ \A k \in conns : Moved(k, f[k]) /\ f[k] = k
                  /\ conns \subseteq {f[k] : k \in conns}
<1> DEFINE f == [k \in conns |-> k]
<1>1. \A k \in conns : Moved(k, f[k]) /\ f[k] = k
  BY DEF DaemonInv, Types, Moved
<1>2. conns \subseteq {f[k] : k \in conns}
  OBVIOUS
<1> HIDE DEF f
<1> QED
  BY <1>1, <1>2

\* A step of a daemon: the clients see what becomes of their connections.
LEMMA ClientsSee ==
    ASSUME NEW f, Moving(f), conns' \subseteq {f[k] : k \in conns}, UNCHANGED client,
           \A k \in conns : k.is = "in" => f[k].is = k.is
    PROVE  /\ conns' \subseteq Connections
           /\ \A k \in conns' : Told(k)'
           /\ \A c \in Clients : ClientFits(c)'
<1>1. ASSUME NEW l \in conns'
      PROVE  l \in Connections /\ Told(l)'
  <2>1. PICK k \in conns : l = f[k]
    OBVIOUS
  <2> QED
    BY <2>1, ConnsMove
<1>2. ASSUME NEW c \in Clients
      PROVE  ClientFits(c)'
  <2>1. pc[c] = "connected" => \A k \in Mine(c) : f[k].is = k.is
    BY DEF Moving, DaemonInv, ClientFits, Mine
  <2>2. pc'[c] = pc[c] /\ info'[c] = info[c]
    BY DEF client
  <2> QED
    BY <2>1, <2>2, ClientStays
<1> QED
  BY <1>1, <1>2

LEMMA Serving ==
    ASSUME DaemonInv, NEW d \in Processes,
           Accept(d) \/ Answer(d) \/ HangUp(d) \/ IdleStops(d) \/ Signal(d),
           UNCHANGED <<client, timer>>
    PROVE  DaemonInv'
<1>1. UNCHANGED <<at, api, disk, agents, client, timer>>
  BY DEF Accept, Answer, HangUp, IdleStops, Signal, daemon
<1>2. PICK f : /\ \A k \in conns : Moved(k, f[k])
               /\ \A k \in conns : k.is = "in" => f[k].is = k.is
               /\ \A k \in conns : Served(k) => Served(f[k])
               /\ conns' \subseteq {f[k] : k \in conns}
  <2>1. CASE IdleStops(d) \/ Signal(d)
    <3>1. UNCHANGED conns
      BY <2>1 DEF IdleStops, Signal
    <3> QED
      BY <3>1, ConnsStay
  <2>2. CASE HangUp(d)
    <3>1. PICK lost : lost \subseteq conns /\ conns' = Hangup(conns, lost)
      <4>1. PICK k \in Open(d) : conns' = Hangup(conns, {k})
        BY <2>2 DEF HangUp
      <4>2. {k} \subseteq conns
        BY <4>1 DEF Open
      <4> QED
        BY <4>1, <4>2
    <3>3. PICK f : /\ \A l \in conns : Moved(l, f[l]) /\ f[l].is = l.is
                   /\ conns' \subseteq {f[l] : l \in conns}
                   /\ \A l \in conns : l \in lost => ~f[l].up
      BY <3>1, HungUp
    <3>4. \A l \in conns : Served(l) => Served(f[l])
      BY <3>3 DEF Served, Moved
    <3> QED
      BY <3>3, <3>4
  <2>3. CASE Accept(d) \/ Answer(d)
    <3>1. PICK k, l :
              /\ k \in conns /\ k.to = d /\ k.up
              /\ conns' = (conns \ {k}) \cup {l}
              /\ \/ k.is = "queued" /\ l = [k EXCEPT !.is = "open"] /\ at[d] = "serving"
                 \/ /\ k.is = "open" /\ l = [k EXCEPT !.is = Reply(d, k)]
                    /\ at[d] \in {"serving"} \cup (Ending \ {"quiet"})
      BY <2>3 DEF Accept, Answer
    <3>2. k \in Connections
      BY <3>1 DEF DaemonInv, Types
    <3>3. Reply(d, k) \in {"in", "unauthorized", "incompatible", "stopping"}
      BY DEF Reply
    <3>4. /\ l \in Connections /\ l.by = k.by /\ l.to = k.to /\ l.token = k.token
          /\ l.ask = k.ask /\ l.up = k.up /\ l.held = k.held
          /\ \/ k.is = "queued" /\ l.is = "open" /\ at[d] = "serving"
             \/ /\ k.is = "open" /\ l.is = Reply(d, k)
                /\ at[d] \in {"serving"} \cup (Ending \ {"quiet"})
      <4>1. CASE l = [k EXCEPT !.is = "open"] /\ k.is = "queued" /\ at[d] = "serving"
        BY <3>2, <4>1 DEF Connections
      <4>2. CASE /\ l = [k EXCEPT !.is = Reply(d, k)] /\ k.is = "open"
                 /\ at[d] \in {"serving"} \cup (Ending \ {"quiet"})
        <5> DEFINE r == Reply(d, k)
        <5>1. r \in {"in", "unauthorized", "incompatible", "stopping"} /\ l = [k EXCEPT !.is = r]
          BY <3>3, <4>2
        <5> HIDE DEF r
        <5>2. /\ l \in Connections /\ l.by = k.by /\ l.to = k.to /\ l.token = k.token
              /\ l.ask = k.ask /\ l.up = k.up /\ l.held = k.held /\ l.is = r
          BY <3>2, <5>1 DEF Connections
        <5> QED
          BY <4>2, <5>2 DEF r
      <4> QED
        BY <3>1, <4>1, <4>2
    <3> DEFINE f == [m \in conns |-> IF m = k THEN l ELSE m]
    <3>5. ASSUME NEW m \in conns
          PROVE  /\ Moved(m, f[m])
                 /\ m.is = "in" => f[m].is = m.is
                 /\ Served(m) => Served(f[m])
      <4>1. CASE m = k
        <5>1. f[m] = l
          BY <4>1
        <5>2. Moved(k, l)
          BY <3>1, <3>4 DEF Moved
        <5>3. l.is # "queued" /\ at[l.to] \in Working
          BY <3>1, <3>3, <3>4 DEF Working, Ending
        <5> QED
          BY <3>4, <4>1, <5>1, <5>2, <5>3 DEF Served
      <4>2. CASE m # k
        <5>1. f[m] = m /\ m \in Connections
          BY <4>2 DEF DaemonInv, Types
        <5> QED
          BY <5>1 DEF Moved
      <4> QED
        BY <4>1, <4>2
    <3>6. conns' \subseteq {f[m] : m \in conns}
      BY <3>1
    <3> HIDE DEF f
    <3> QED
      BY <3>5, <3>6
  <2> QED
    BY <2>1, <2>2, <2>3
<1>3. Moving(f)
  <2>1. GoneStayGone
    BY <1>1 DEF GoneStayGone
  <2> QED
    BY <1>1, <1>2, <2>1 DEF Moving, client
<1>4. /\ conns' \subseteq Connections
      /\ \A k \in conns' : Told(k)'
      /\ \A c \in Clients : ClientFits(c)'
  BY <1>1, <1>2, <1>3, ClientsSee
<1>5. \A k \in conns' : Served(k)'
  BY <1>1, <1>2 DEF Served, DaemonInv
<1>6. Types'
  <2>1. stopping' \in [Processes -> {"no", "idle", "rpc", "signal"}]
    <3>1. UNCHANGED stopping \/ \E r \in {"idle", "rpc", "signal"} : Stopped(d, r)
      BY DEF Accept, Answer, HangUp, IdleStops, Signal, daemon
    <3> QED
      BY <3>1 DEF DaemonInv, Types, Stopped
  <2>2. forced' \subseteq Processes
    BY DEF Accept, Answer, HangUp, IdleStops, Signal, daemon, DaemonInv, Types
  <2>3. faults' \in Nat
    BY DEF Accept, Answer, HangUp, IdleStops, Signal, Fault, DaemonInv, Types
  <2> QED
    BY <1>1, <1>4, <2>1, <2>2, <2>3 DEF DaemonInv, Types, disk, agents, client
<1>7. DiskFits' /\ AgentsFit'
  BY <1>1 DEF DaemonInv, DiskFits, AgentsFit, disk, agents
<1> QED
  BY <1>4, <1>5, <1>6, <1>7 DEF DaemonInv

LEMMA StartingUp ==
    ASSUME DaemonInv, NEW d \in Processes, Acquire(d) \/ OpenAndListen(d) \/ WriteInfo(d),
           UNCHANGED <<client, timer>>
    PROVE  DaemonInv'
<1>1. ProcessesFit' /\ GoneStayGone
  BY ComingUp
<1>2. UNCHANGED <<api, stopping, forced, conns, live, faults, role, client, timer>>
  BY DEF Acquire, OpenAndListen, WriteInfo, agents, client
<1>3. PICK x \in {"locked", "refused", "bound", "serving"} :
          /\ Goto(d, x)
          /\ at[d] \in {"starting", "locked"} \/ (at[d] = "bound" /\ x = "serving")
  BY DEF Acquire, OpenAndListen, WriteInfo
<1>4. at'[d] = x /\ \A e \in Processes \ {d} : at'[e] = at[e]
  BY <1>3, GoesOn DEF DaemonInv, States, Running, Starting, Gone
<1>5. PICK f : /\ \A k \in conns : Moved(k, f[k]) /\ f[k] = k
               /\ conns \subseteq {f[k] : k \in conns}
  BY ConnsStay
<1>6. Moving(f)
  BY <1>1, <1>2, <1>5 DEF Moving
<1>7. /\ conns' \subseteq Connections
      /\ \A k \in conns' : Told(k)'
      /\ \A c \in Clients : ClientFits(c)'
  BY <1>2, <1>5, <1>6, ClientsSee
<1>8. ASSUME NEW k \in conns'
      PROVE  Served(k)'
  <2>1. k \in conns /\ Served(k) /\ Told(k) /\ k.to \in Processes
    BY <1>2, ConnectionFields DEF DaemonInv, Types
  <2>2. CASE k.to # d
    BY <1>4, <2>1, <2>2 DEF Served
  <2>3. CASE k.to = d
    BY <1>3, <1>4, <2>1, <2>3 DEF Served, Told, Unheard, Listening, Working
  <2> QED
    BY <2>2, <2>3
<1>9. AgentsFit'
  <2> SUFFICES ASSUME NEW c \in Clients, live[c] # Nobody
               PROVE  at'[live[c]] \in Working
    BY <1>2 DEF AgentsFit
  <2>1. live[c] \in Processes /\ at[live[c]] \in Working
    BY DEF DaemonInv, AgentsFit, Types
  <2>2. live[c] # d
    BY <1>3, <2>1 DEF Working
  <2> QED
    BY <1>4, <2>1, <2>2
<1>10. row' \in [Clients -> {"none", "running", "ended", "recovered"}]
  BY DEF Acquire, OpenAndListen, WriteInfo, agents, DaemonInv, Types
<1>11. Types'
  BY <1>1, <1>2, <1>7, <1>10 DEF DaemonInv, Types, ProcessesFit, States, client
<1> QED
  BY <1>1, <1>7, <1>8, <1>9, <1>11 DEF DaemonInv, ProcessesFit

LEMMA ShuttingDown ==
    ASSUME DaemonInv, NEW d \in Processes,
           \/ StopAccepting(d) \/ Drained(d) \/ DrainTimeout(d) \/ CloseAndUnlist(d)
           \/ ShutRuntime(d) \/ Unlock(d),
           UNCHANGED <<client, timer>>
    PROVE  DaemonInv'
<1>1. ProcessesFit' /\ GoneStayGone
  BY GoingDown
<1>2. UNCHANGED <<api, stopping, forced, faults, row, role, client, timer>>
  BY DEF StopAccepting, Drained, DrainTimeout, CloseAndUnlist, ShutRuntime, Unlock, agents, client
<1>3. PICK lost : /\ lost \subseteq conns
                  /\ conns' = Hangup(conns, lost) \/ (lost = {} /\ UNCHANGED conns)
                  /\ StopAccepting(d) => lost = {k \in conns : k.to = d /\ k.is = "queued"}
                  /\ ShutRuntime(d) => lost = {k \in conns : k.to = d}
  <2>1. CASE StopAccepting(d)
    <3>1. ~ShutRuntime(d)
      BY <2>1 DEF StopAccepting, ShutRuntime
    <3>2. conns' = Hangup(conns, {k \in conns : k.to = d /\ k.is = "queued"})
      BY <2>1 DEF StopAccepting
    <3> QED
      BY <3>1, <3>2
  <2>2. CASE ShutRuntime(d)
    <3>1. ~StopAccepting(d)
      BY <2>2 DEF StopAccepting, ShutRuntime
    <3>2. conns' = Hangup(conns, {k \in conns : k.to = d})
      BY <2>2 DEF ShutRuntime, HangupAll
    <3> QED
      BY <3>1, <3>2
  <2>3. CASE ~StopAccepting(d) /\ ~ShutRuntime(d)
    <3>1. UNCHANGED conns
      BY <2>3 DEF Drained, DrainTimeout, CloseAndUnlist, Unlock
    <3> DEFINE none == {k \in conns : FALSE}
    <3>2. none \subseteq conns /\ none = {}
      OBVIOUS
    <3> HIDE DEF none
    <3> QED
      BY <2>3, <3>1, <3>2
  <2> QED
    BY <2>1, <2>2, <2>3
<1>4. PICK x \in {"draining", "closing", "unlisted", "quiet", "exited"} :
          /\ Goto(d, x)
          /\ \/ at[d] = "serving" /\ x = "draining" /\ StopAccepting(d)
             \/ at[d] \in {"draining", "closing"} /\ x \in {"closing", "unlisted"}
             \/ at[d] = "unlisted" /\ x = "quiet" /\ ShutRuntime(d)
             \/ at[d] = "quiet" /\ x = "exited"
  BY DEF StopAccepting, Drained, DrainTimeout, CloseAndUnlist, ShutRuntime, Unlock
<1>5. at'[d] = x /\ \A e \in Processes \ {d} : at'[e] = at[e]
  BY <1>4, GoesOn DEF DaemonInv, States, Running, Ending, Gone
<1>6. PICK f : /\ \A k \in conns : Moved(k, f[k]) /\ f[k].is = k.is
               /\ conns' \subseteq {f[k] : k \in conns}
               /\ \A k \in conns : k \in lost => ~f[k].up
  <2>1. CASE conns' = Hangup(conns, lost)
    BY <1>3, <2>1, HungUp
  <2>2. CASE lost = {} /\ UNCHANGED conns
    <3>1. PICK f : /\ \A k \in conns : Moved(k, f[k]) /\ f[k] = k
                   /\ conns \subseteq {f[k] : k \in conns}
      BY ConnsStay
    <3> QED
      BY <2>2, <3>1
  <2> QED
    BY <1>3, <2>1, <2>2
<1>7. Moving(f)
  BY <1>1, <1>2, <1>6 DEF Moving
<1>8. /\ conns' \subseteq Connections
      /\ \A k \in conns' : Told(k)'
      /\ \A c \in Clients : ClientFits(c)'
  BY <1>2, <1>6, <1>7, ClientsSee
<1>9. ASSUME NEW l \in conns'
      PROVE  Served(l)'
  <2>1. PICK k \in conns : l = f[k]
    BY <1>6
  <2>2. /\ Served(k) /\ k.to \in Processes
        /\ l.to = k.to /\ (l.up => k.up /\ k \notin lost) /\ l.is = k.is
    BY <1>6, <2>1, ConnectionFields DEF DaemonInv, Types, Moved
  <2>3. CASE k.to # d
    BY <1>5, <2>2, <2>3 DEF Served
  <2>4. CASE k.to = d
    BY <1>3, <1>4, <1>5, <2>2, <2>4 DEF Served, Listening, Working
  <2> QED
    BY <2>3, <2>4
<1>10. live' \in [Clients -> Processes \cup {Nobody}]
       /\ \A c \in Clients : live'[c] # Nobody => live'[c] = live[c] /\ (ShutRuntime(d) => live[c] # d)
  <2>1. CASE ShutRuntime(d)
    BY <2>1 DEF ShutRuntime, Release, DaemonInv, Types
  <2>2. CASE ~ShutRuntime(d)
    BY <2>2 DEF StopAccepting, Drained, DrainTimeout, CloseAndUnlist, Unlock, agents, DaemonInv,
                Types
  <2> QED
    BY <2>1, <2>2
<1>11. AgentsFit'
  <2> SUFFICES ASSUME NEW c \in Clients, live'[c] # Nobody
               PROVE  at'[live'[c]] \in Working
    BY DEF AgentsFit
  <2>1. live'[c] = live[c] /\ live[c] \in Processes /\ at[live[c]] \in Working
        /\ (ShutRuntime(d) => live[c] # d)
    BY <1>10 DEF DaemonInv, AgentsFit, Types
  <2>2. CASE live[c] # d
    BY <1>5, <2>1, <2>2
  <2>3. CASE live[c] = d
    BY <1>4, <1>5, <2>1, <2>3 DEF Working
  <2> QED
    BY <2>2, <2>3
<1>12. Types'
  BY <1>1, <1>2, <1>8, <1>10 DEF DaemonInv, Types, ProcessesFit, States, client
<1> QED
  BY <1>1, <1>8, <1>9, <1>11, <1>12 DEF DaemonInv, ProcessesFit

LEMMA Vanishing ==
    ASSUME DaemonInv, NEW d \in Processes, NEW how \in {"failed", "killed"}, Vanish(d, how),
           at[d] \in Running, faults' \in Nat, UNCHANGED <<client, timer>>
    PROVE  DaemonInv'
<1>1. ProcessesFit' /\ GoneStayGone
  BY GoingAtOnce
<1>2. /\ UNCHANGED <<api, stopping, forced, row, role, client, timer>>
      /\ conns' = Hangup(conns, {k \in conns : k.to = d})
      /\ live' = [c \in Clients |-> Release(live[c], d)]
      /\ Goto(d, how)
  BY DEF Vanish, HangupAll, client
<1>3. at'[d] = how /\ \A e \in Processes \ {d} : at'[e] = at[e]
  BY <1>2, GoesOn DEF DaemonInv, States, Gone
<1>4. PICK lost : /\ lost \subseteq conns /\ conns' = Hangup(conns, lost)
                  /\ lost = {k \in conns : k.to = d}
  BY <1>2
<1>5. PICK f : /\ \A k \in conns : Moved(k, f[k]) /\ f[k].is = k.is
               /\ conns' \subseteq {f[k] : k \in conns}
               /\ \A k \in conns : k \in lost => ~f[k].up
  BY <1>4, HungUp
<1>6. Moving(f)
  BY <1>1, <1>2, <1>5 DEF Moving
<1>7. /\ conns' \subseteq Connections
      /\ \A k \in conns' : Told(k)'
      /\ \A c \in Clients : ClientFits(c)'
  BY <1>2, <1>5, <1>6, ClientsSee
<1>8. ASSUME NEW l \in conns'
      PROVE  Served(l)'
  <2>1. PICK k \in conns : l = f[k]
    BY <1>5
  <2>2. /\ Served(k) /\ k.to \in Processes
        /\ l.to = k.to /\ (l.up => k.up /\ k.to # d) /\ l.is = k.is
    BY <1>4, <1>5, <2>1, ConnectionFields DEF DaemonInv, Types, Moved
  <2> QED
    BY <1>3, <2>2 DEF Served
<1>9. live' \in [Clients -> Processes \cup {Nobody}] /\ AgentsFit'
  <2>1. \A c \in Clients : live[c] # Nobody => live[c] \in Processes /\ at[live[c]] \in Working
    BY DEF DaemonInv, AgentsFit, Types
  <2>2. live' \in [Clients -> Processes \cup {Nobody}]
    BY <1>2 DEF Release, DaemonInv, Types
  <2>3. \A c \in Clients : live'[c] # Nobody => live'[c] = live[c] /\ live[c] # d
    BY <1>2 DEF Release
  <2> QED
    BY <1>3, <2>1, <2>2, <2>3 DEF AgentsFit
<1>10. Types'
  BY <1>1, <1>2, <1>7, <1>9 DEF DaemonInv, Types, ProcessesFit, States, client
<1> QED
  BY <1>1, <1>7, <1>8, <1>9, <1>10 DEF DaemonInv, ProcessesFit

LEMMA DaemonKeeps ==
    ASSUME DaemonInv, NEW d \in Processes, DaemonStep(d)
    PROVE  DaemonInv'
<1>1. UNCHANGED <<client, timer>>
  BY DEF DaemonStep
<1>2. CASE StartFails(d) \/ Watchdog(d) \/ Kill(d)
  <2>1. \E how \in {"failed", "killed"} : Vanish(d, how)
    BY <1>2 DEF StartFails, Watchdog, Kill
  <2>2. at[d] \in Running
    BY <1>2 DEF StartFails, Watchdog, Kill, Running, Starting
  <2>3. faults' \in Nat
    BY <1>2 DEF StartFails, Watchdog, Kill, Fault, DaemonInv, Types
  <2> QED
    BY <1>1, <2>1, <2>2, <2>3, Vanishing
<1> QED
  BY <1>1, <1>2, Serving, StartingUp, ShuttingDown DEF DaemonStep

-----------------------------------------------------------------------------
(* The clients. *)

Places     == {"begin"} \cup Connecting \cup Returned \cup After
Linked == {"hello", "asked", "connected", "stop_asked"}

ClientTypes ==
    /\ live \in [Clients -> Processes \cup {Nobody}]
    /\ row \in [Clients -> {"none", "running", "ended", "recovered"}]
    /\ pc \in [Clients -> Places]
    /\ info \in [Clients -> Processes \cup {Nobody}]
    /\ stale \in [Clients -> Processes \cup {Nobody}]
    /\ child \in [Clients -> Processes \cup {Nobody}]
    /\ returns \in [Clients -> 0 .. MaxReturns]
    /\ faults \in Nat

\* A step of a client: its own connection may go or one come.
Acting(c, f, new) ==
    /\ UNCHANGED <<daemon, disk, role, timer>>
    /\ \A k \in conns : Moved(k, f[k]) /\ (k.by # c => f[k] = k) /\ (Served(k) => Served(f[k]))
    /\ \A l \in new : l \in Connections /\ Served(l) /\ Told(l) /\ l.by = c
    /\ conns' \subseteq {f[k] : k \in conns} \cup new
    /\ \A e \in Clients \ {c} : pc'[e] = pc[e] /\ info'[e] = info[e]
    /\ ClientTypes' /\ AgentsFit' /\ ClientFits(c)'

LEMMA ClientMoves ==
    ASSUME DaemonInv, NEW c \in Clients, NEW f, NEW new, Acting(c, f, new)
    PROVE  DaemonInv'
<1> USE DEF Acting
<1>1. Moving(f)
  <2>1. GoneStayGone
    BY DEF GoneStayGone, daemon
  <2> QED
    BY <2>1 DEF Moving, daemon
<1>2. ASSUME NEW l \in conns'
      PROVE  l \in Connections /\ Served(l)' /\ Told(l)'
  <2>1. CASE l \in new
    BY <2>1 DEF Served, Told, daemon
  <2>2. CASE l \notin new
    <3>1. PICK k \in conns : l = f[k]
      BY <2>2
    <3> QED
      BY <1>1, <3>1, ConnsMove DEF Served, DaemonInv, daemon
  <2> QED
    BY <2>1, <2>2
<1>3. ASSUME NEW e \in Clients, e # c
      PROVE  ClientFits(e)'
  <2>1. {k \in conns' : k.by = e} \subseteq {f[k] : k \in conns}
    BY <1>3
  <2>2. \A k \in Mine(e) : f[k].is = k.is
    BY <1>3 DEF Mine
  <2> QED
    BY <1>1, <1>3, <2>1, <2>2, ClientStays
<1>4. Types' /\ DiskFits'
  BY <1>2 DEF DaemonInv, Types, DiskFits, ClientTypes, Places, daemon, disk
<1> QED
  BY <1>2, <1>3, <1>4 DEF DaemonInv

LEMMA DroppedFacts ==
    ASSUME DaemonInv, NEW c \in Clients, conns' = Dropped(c)
    PROVE  /\ Mine(c)' = {}
           /\ \E f : /\ \A k \in conns : Moved(k, f[k]) /\ (k.by # c => f[k] = k)
                     /\ \A k \in conns : Served(k) => Served(f[k])
                     /\ conns' \subseteq {f[k] : k \in conns}
<1> DEFINE f == [k \in conns |-> IF k \in Mine(c) THEN [k EXCEPT !.held = FALSE] ELSE k]
<1>1. ASSUME NEW k \in conns
      PROVE  Moved(k, f[k]) /\ (k.by # c => f[k] = k) /\ (Served(k) => Served(f[k]))
  <2>1. k \in Connections
    BY DEF DaemonInv, Types
  <2>2. CASE k \in Mine(c)
    <3>1. f[k] = [k EXCEPT !.held = FALSE] /\ k.by = c
      BY <2>2 DEF Mine
    <3>2. /\ f[k] \in Connections /\ f[k].by = k.by /\ f[k].to = k.to /\ f[k].token = k.token
          /\ f[k].ask = k.ask /\ f[k].up = k.up /\ f[k].is = k.is /\ f[k].held = FALSE
      BY <2>1, <3>1 DEF Connections
    <3> QED
      BY <2>2, <3>1, <3>2 DEF Moved, Served, Mine
  <2>3. CASE k \notin Mine(c)
    BY <2>1, <2>3 DEF Moved
  <2> QED
    BY <2>2, <2>3
<1>2. conns' \subseteq {f[k] : k \in conns}
  <2> SUFFICES ASSUME NEW l \in conns'
               PROVE  \E k \in conns : l = f[k]
    OBVIOUS
  <2>1. CASE l \in conns \ Mine(c)
    BY <2>1
  <2>2. CASE l \notin conns \ Mine(c)
    <3>1. PICK k \in Mine(c) : l = [k EXCEPT !.held = FALSE]
      BY <2>2 DEF Dropped
    <3> QED
      BY <3>1 DEF Mine
  <2> QED
    BY <2>1, <2>2
<1>3. Mine(c)' = {}
  <2> SUFFICES ASSUME NEW l \in conns', l.by = c, l.held
               PROVE  FALSE
    BY DEF Mine
  <2>1. CASE l \in conns \ Mine(c)
    BY <2>1 DEF Mine
  <2>2. CASE l \notin conns \ Mine(c)
    <3>1. PICK k \in Mine(c) : l = [k EXCEPT !.held = FALSE]
      BY <2>2 DEF Dropped
    <3>2. k \in Connections
      BY <3>1 DEF Mine, DaemonInv, Types
    <3>3. l.held = FALSE
      BY <3>1, <3>2 DEF Connections
    <3> QED
      BY <3>3
  <2> QED
    BY <2>1, <2>2
<1> HIDE DEF f
<1> QED
  BY <1>1, <1>2, <1>3

\* A step after which the client has no connection.
LEMMA WithoutConnection ==
    ASSUME DaemonInv, NEW c \in Clients, UNCHANGED <<daemon, disk, role, timer, agents>>,
           (UNCHANGED conns /\ pc[c] \notin Linked) \/ conns' = Dropped(c),
           NEW x \in Places \ Linked, pc' = [pc EXCEPT ![c] = x],
           NEW d \in {info[c], file, Nobody}, info' = [info EXCEPT ![c] = d],
           x \in {"dial", "replace"} => d # Nobody,
           x = "replace" => at[d] \in Gone \/ api[d] < role[c].api,
           ClientTypes'
    PROVE  DaemonInv'
<1>1. /\ pc'[c] = x /\ info'[c] = d
      /\ \A e \in Clients \ {c} : pc'[e] = pc[e] /\ info'[e] = info[e]
  BY DEF DaemonInv, Types
<1>2. Mine(c)' = {}
  <2>1. CASE UNCHANGED conns /\ pc[c] \notin Linked
    BY <2>1 DEF DaemonInv, ClientFits, Mine, Linked
  <2>2. CASE conns' = Dropped(c)
    BY <2>2, DroppedFacts
  <2> QED
    BY <2>1, <2>2
<1>3. PICK f : /\ \A k \in conns : Moved(k, f[k]) /\ (k.by # c => f[k] = k)
               /\ \A k \in conns : Served(k) => Served(f[k])
               /\ conns' \subseteq {f[k] : k \in conns}
  <2>1. CASE UNCHANGED conns
    <3>1. PICK f : /\ \A k \in conns : Moved(k, f[k]) /\ f[k] = k
                   /\ conns \subseteq {f[k] : k \in conns}
      BY ConnsStay
    <3> QED
      BY <2>1, <3>1
  <2>2. CASE conns' = Dropped(c)
    BY <2>2, DroppedFacts
  <2> QED
    BY <2>1, <2>2
<1>4. ClientFits(c)'
  <2>1. d # Nobody => at[d] \in Known
    BY DEF DaemonInv, ClientFits, DiskFits, Types
  <2>2. UNCHANGED <<at, api, role>>
    BY DEF daemon
  <2> QED
    BY <1>1, <1>2, <2>1, <2>2 DEF ClientFits, Linked
<1>5. AgentsFit'
  BY DEF DaemonInv, AgentsFit, agents, daemon
<1>6. PICK new : new = {}
  OBVIOUS
<1>7. /\ conns' \subseteq {f[k] : k \in conns} \cup new
      /\ \A l \in new : l \in Connections /\ Served(l) /\ Told(l) /\ l.by = c
  BY <1>3, <1>6
<1>8. UNCHANGED <<daemon, disk, role, timer>>
  OBVIOUS
<1>9. Acting(c, f, new)
  BY <1>1, <1>3, <1>4, <1>5, <1>7, <1>8 DEF Acting
<1> QED
  BY <1>9, ClientMoves

\* A new connection: it goes to the listener, who is the daemon named by the
\* token or its successor.
LEMMA Dialling ==
    ASSUME DaemonInv, NEW c \in Clients, UNCHANGED <<daemon, disk, role, timer, agents, info>>,
           sock # Nobody,
           NEW ask, \/ ask = "hello" /\ pc[c] = "dial" /\ pc' = [pc EXCEPT ![c] = "hello"]
                    \/ ask = "shutdown" /\ pc[c] = "replace" /\ pc' = [pc EXCEPT ![c] = "asked"],
           conns' = conns \cup {NewConnection(c, ask)},
           ClientTypes'
    PROVE  DaemonInv'
<1>1. /\ pc'[c] \in {"hello", "asked"} /\ UNCHANGED info
      /\ \A e \in Clients \ {c} : pc'[e] = pc[e] /\ info'[e] = info[e]
  BY DEF DaemonInv, Types
<1> DEFINE n == NewConnection(c, ask)
<1>2. /\ n \in Connections /\ n.by = c /\ n.to = sock /\ n.token = info[c] /\ n.ask = ask
      /\ n.is = "queued" /\ n.up /\ n.held
  <2>1. sock \in Processes /\ info[c] \in Processes
    BY DEF DaemonInv, Types, ClientFits
  <2> QED
    BY <2>1 DEF NewConnection, Connections
<1> HIDE DEF n
<1>3. at[sock] \in Listening /\ at[info[c]] \in Known /\ (sock # info[c] => at[info[c]] \in Gone)
  <2>1. sock \in Processes /\ info[c] \in Processes /\ at[info[c]] \in Known /\ at[sock] \in Listening
    BY DEF DaemonInv, Types, ClientFits, DiskFits
  <2>2. at[sock] \in Holding /\ lock = sock
    BY <2>1 DEF DaemonInv, DiskFits, Holding, Listening
  <2>3. sock # info[c] => at[info[c]] \notin Holding
    BY <2>1, <2>2 DEF DaemonInv, DiskFits
  <2> QED
    BY <2>1, <2>3 DEF Known, Holding
<1>4. ask = "shutdown" /\ sock = info[c] => api[sock] < role[c].api
  <2>1. at[sock] \notin Gone
    BY <1>3 DEF Listening, Gone
  <2> QED
    BY <2>1 DEF DaemonInv, ClientFits
<1>5. Served(n) /\ Told(n)
  <2>1. Served(n)
    BY <1>2, <1>3 DEF Served
  <2>2. at[n.to] \notin Unheard /\ n.is # "in"
    BY <1>2, <1>3 DEF Listening, Unheard
  <2> QED
    BY <1>2, <1>3, <1>4, <2>1, <2>2 DEF Told
<1>6. Mine(c) = {}
  BY DEF DaemonInv, ClientFits, Mine
<1>7. Mine(c)' = {n}
  <2>1. conns' = conns \cup {n}
    BY DEF n
  <2> QED
    BY <1>2, <1>6, <2>1 DEF Mine
<1>8. ClientFits(c)'
  <2>1. info[c] # Nobody /\ at'[info'[c]] \in Known
    BY <1>3 DEF DaemonInv, ClientFits, daemon
  <2> QED
    BY <1>1, <1>2, <1>7, <2>1 DEF ClientFits
<1>9. PICK f : /\ \A k \in conns : Moved(k, f[k]) /\ f[k] = k
               /\ conns \subseteq {f[k] : k \in conns}
  BY ConnsStay
<1>10. AgentsFit'
  BY DEF DaemonInv, AgentsFit, agents, daemon
<1>11. conns' \subseteq {f[k] : k \in conns} \cup {n}
  BY <1>9 DEF n
<1>12. Acting(c, f, {n})
  BY <1>1, <1>2, <1>5, <1>8, <1>9, <1>10, <1>11 DEF Acting
<1> QED
  BY <1>12, ClientMoves

\* A step on which the client keeps the connection it has.
LEMMA Keeping ==
    ASSUME DaemonInv, NEW c \in Clients, UNCHANGED <<daemon, disk, role, timer, info, conns>>,
           UNCHANGED pc \/ (/\ pc[c] = "hello" /\ pc' = [pc EXCEPT ![c] = "connected"]
                            /\ \A k \in Mine(c) : k.is = "in"),
           ClientTypes', AgentsFit'
    PROVE  DaemonInv'
<1>1. /\ \A e \in Clients \ {c} : pc'[e] = pc[e] /\ info'[e] = info[e]
      /\ UNCHANGED pc \/ (pc[c] = "hello" /\ pc'[c] = "connected" /\ \A k \in Mine(c) : k.is = "in")
  BY DEF DaemonInv, Types
<1>2. Mine(c)' = Mine(c)
  BY DEF Mine
<1>3. ClientFits(c)'
  BY <1>1, <1>2 DEF DaemonInv, ClientFits, daemon
<1>4. PICK f : /\ \A k \in conns : Moved(k, f[k]) /\ f[k] = k
               /\ conns \subseteq {f[k] : k \in conns}
  BY ConnsStay
<1>5. UNCHANGED <<daemon, disk, role, timer>>
  OBVIOUS
<1>6. Acting(c, f, {})
  BY <1>1, <1>3, <1>4, <1>5 DEF Acting
<1> QED
  BY <1>6, ClientMoves

LEMMA Asking ==
    ASSUME DaemonInv, NEW c \in Clients, AskStop(c), UNCHANGED <<daemon, disk, timer>>
    PROVE  DaemonInv'
<1>1. /\ UNCHANGED <<role, info, stale, child, returns, agents, faults>>
      /\ pc[c] = "connected" /\ pc' = [pc EXCEPT ![c] = "stop_asked"]
  BY DEF AskStop, ToPc
<1>2. PICK k \in Mine(c) :
          /\ k.up /\ k.is = "in"
          /\ conns' = (conns \ {k}) \cup {[k EXCEPT !.ask = "stop", !.is = "open"]}
  BY DEF AskStop
<1>3. k \in Connections /\ k \in conns /\ Served(k) /\ k.by = c
  BY DEF DaemonInv, Types, Mine
<1> DEFINE l == [k EXCEPT !.ask = "stop", !.is = "open"]
<1>4. /\ l \in Connections /\ l.by = k.by /\ l.to = k.to /\ l.token = k.token
      /\ l.ask = "stop" /\ l.up = k.up /\ l.held = k.held /\ l.is = "open"
  BY <1>3 DEF Connections
<1> DEFINE f == [m \in conns |-> IF m = k THEN l ELSE m]
<1>5. f[k] = l /\ \A m \in conns \ {k} : f[m] = m
  BY <1>3
<1>6. conns' = (conns \ {k}) \cup {l}
  BY <1>2
<1> HIDE DEF f, l
<1>7. conns' \subseteq {f[m] : m \in conns}
  <2> SUFFICES ASSUME NEW m \in conns'
               PROVE  \E q \in conns : m = f[q]
    OBVIOUS
  <2>1. m = l \/ m \in conns \ {k}
    BY <1>6
  <2> QED
    BY <1>3, <1>5, <2>1
<1>8. ASSUME NEW m \in conns
      PROVE  Moved(m, f[m]) /\ (m.by # c => f[m] = m) /\ (Served(m) => Served(f[m]))
  <2>1. CASE m = k
    <3>1. Moved(k, l)
      BY <1>4 DEF Moved
    <3>2. Served(l)
      BY <1>2, <1>3, <1>4 DEF Served
    <3> QED
      BY <1>3, <1>5, <2>1, <3>1, <3>2
  <2>2. CASE m # k
    <3>1. f[m] = m /\ m \in Connections
      BY <1>5, <2>2 DEF DaemonInv, Types
    <3> QED
      BY <3>1 DEF Moved
  <2> QED
    BY <2>1, <2>2
<1>9. Mine(c)' = {l}
  <2>1. \A m \in Mine(c) : m = k
    BY <1>2 DEF DaemonInv, ClientFits
  <2> QED
    BY <1>2, <1>3, <1>4, <1>6, <2>1 DEF Mine
<1>10. ClientFits(c)'
  <2>1. ClientFits(c) /\ pc'[c] = "stop_asked"
    BY <1>1 DEF DaemonInv, Types
  <2>2. k.token = info[c] /\ info[c] # Nobody /\ at[info[c]] \in Known
    BY <1>1, <1>2, <2>1 DEF ClientFits
  <2> QED
    BY <1>1, <1>4, <1>9, <2>1, <2>2 DEF ClientFits, daemon
<1>11. ClientTypes' /\ AgentsFit'
  BY <1>1 DEF DaemonInv, Types, AgentsFit, ClientTypes, Places, After, agents, daemon
<1>12. /\ \A e \in Clients \ {c} : pc'[e] = pc[e] /\ info'[e] = info[e]
       /\ UNCHANGED <<daemon, disk, role, timer>>
  BY <1>1 DEF DaemonInv, Types
<1>13. Acting(c, f, {})
  BY <1>7, <1>8, <1>10, <1>11, <1>12 DEF Acting
<1> QED
  BY <1>13, ClientMoves

\* Reading daemon.json, dialling and waiting.
LEMMA ConnectKeeps ==
    ASSUME DaemonInv, NEW c \in Clients, Connect(c), UNCHANGED <<daemon, disk, timer>>
    PROVE  DaemonInv'
<1>1. /\ UNCHANGED <<role, agents, returns, child>>
      /\ UNCHANGED <<daemon, disk, role, timer, agents>>
  BY DEF Connect, Begin, Dial, HelloAnswered, HelloFails, Replace, Asked, Await, Poll, Deadline
<1>2. faults' \in Nat
  <2>1. UNCHANGED faults \/ Fault
    BY DEF Connect, Begin, Dial, HelloAnswered, HelloFails, Replace, Asked, Await, Poll, Deadline
  <2> QED
    BY <2>1 DEF Fault, DaemonInv, Types
<1>3. stale' \in [Clients -> Processes \cup {Nobody}]
  <2>1. \E d \in {stale[c], file, Nobody} : stale' = [stale EXCEPT ![c] = d] \/ UNCHANGED stale
    BY DEF Connect, Begin, Dial, HelloAnswered, HelloFails, Replace, Asked, Await, Poll, Deadline
  <2> QED
    BY <2>1 DEF DaemonInv, Types
<1>4. ASSUME pc' \in [Clients -> Places], info' \in [Clients -> Processes \cup {Nobody}]
      PROVE  ClientTypes'
  BY <1>1, <1>2, <1>3, <1>4 DEF DaemonInv, Types, ClientTypes, agents
<1>5. ASSUME NEW x \in Places \ Linked, ToPc(c, x),
             (UNCHANGED conns /\ pc[c] \notin Linked) \/ conns' = Dropped(c),
             NEW d \in {info[c], file}, info' = [info EXCEPT ![c] = d],
             x \in {"dial", "replace"} => d # Nobody,
             x = "replace" => at[d] \in Gone \/ api[d] < role[c].api
      PROVE  DaemonInv'
  <2>1. pc' = [pc EXCEPT ![c] = x]
    BY <1>5 DEF ToPc
  <2>2. pc' \in [Clients -> Places] /\ info' \in [Clients -> Processes \cup {Nobody}]
    BY <1>5, <2>1 DEF DaemonInv, Types, Places
  <2>3. ClientTypes'
    BY <1>4, <2>2
  <2> QED
    BY <1>1, <1>5, <2>1, <2>3, WithoutConnection
<1>6. UNCHANGED info => info' = [info EXCEPT ![c] = info[c]]
  BY DEF DaemonInv, Types
<1>7. {"dial", "replace", "await", "spawn", "poll", "late"} \cup Failures \subseteq Places \ Linked
  BY DEF Places, Connecting, Returned, Failures, Linked
<1>8. CASE Begin(c)
  <2>1. /\ UNCHANGED conns /\ pc[c] \notin Linked
        /\ \E x \in {"spawn", "not_running", "dial"} :
              /\ ToPc(c, x)
              /\ x = "dial" => file # Nobody /\ info' = [info EXCEPT ![c] = file]
              /\ x # "dial" => UNCHANGED info
    BY <1>8 DEF Begin, Linked
  <2> QED
    BY <1>5, <1>6, <1>7, <2>1 DEF Failures
<1>9. ASSUME Unreachable(c), UNCHANGED info,
             (UNCHANGED conns /\ pc[c] \notin Linked) \/ conns' = Dropped(c)
      PROVE  DaemonInv'
  <2>1. PICK x \in {"late", "spawn", "not_running"} : ToPc(c, x)
    BY <1>9 DEF Unreachable
  <2> QED
    BY <1>5, <1>6, <1>7, <1>9, <2>1 DEF Failures
<1>10. ASSUME sock # Nobody, UNCHANGED info,
              NEW ask, \/ ask = "hello" /\ pc[c] = "dial" /\ pc' = [pc EXCEPT ![c] = "hello"]
                       \/ ask = "shutdown" /\ pc[c] = "replace" /\ pc' = [pc EXCEPT ![c] = "asked"],
              conns' = conns \cup {NewConnection(c, ask)}
       PROVE  DaemonInv'
  <2>1. pc' \in [Clients -> Places] /\ info' \in [Clients -> Processes \cup {Nobody}]
    BY <1>10 DEF DaemonInv, Types, Places, Connecting
  <2>2. ClientTypes'
    BY <1>4, <2>1
  <2>3. UNCHANGED <<daemon, disk, role, timer, agents, info>>
    BY <1>1, <1>10
  <2> QED
    BY <1>10, <2>2, <2>3, Dialling
<1>11. CASE Dial(c)
  <2>1. CASE sock = Nobody
    BY <1>9, <1>11, <2>1 DEF Dial, Linked
  <2>2. CASE sock # Nobody
    BY <1>10, <1>11, <2>2 DEF Dial, ToPc
  <2> QED
    BY <2>1, <2>2
<1>12. CASE HelloFails(c)
  BY <1>9, <1>12 DEF HelloFails
<1>13. CASE Replace(c)
  <2>1. CASE sock = Nobody
    <3>1. ToPc(c, "await") /\ UNCHANGED <<info, conns>> /\ pc[c] \notin Linked
      BY <1>13, <2>1 DEF Replace, Linked
    <3> QED
      BY <1>5, <1>6, <1>7, <3>1
  <2>2. CASE sock # Nobody
    BY <1>10, <1>13, <2>2 DEF Replace, ToPc
  <2> QED
    BY <2>1, <2>2
<1>14. CASE Asked(c)
  <2>1. ToPc(c, "await") /\ UNCHANGED info /\ conns' = Dropped(c)
    BY <1>14 DEF Asked
  <2> QED
    BY <1>5, <1>6, <1>7, <2>1
<1>15. CASE Await(c)
  <2>1. ToPc(c, "spawn") /\ UNCHANGED <<info, conns>> /\ pc[c] \notin Linked
    BY <1>15 DEF Await, Linked
  <2> QED
    BY <1>5, <1>6, <1>7, <2>1
<1>16. CASE Deadline(c)
  <2>1. ToPc(c, "spawn_timeout") /\ UNCHANGED <<info, conns>> /\ pc[c] \notin Linked
    BY <1>16 DEF Deadline, Linked
  <2> QED
    BY <1>5, <1>6, <1>7, <2>1 DEF Failures
<1>17. CASE Poll(c)
  <2>1. UNCHANGED conns /\ pc[c] \notin Linked
    BY <1>17 DEF Poll, Linked
  <2>2. \/ ToPc(c, "daemon_exited") /\ UNCHANGED info
        \/ ToPc(c, "late") /\ UNCHANGED info
        \/ ToPc(c, "dial") /\ info' = [info EXCEPT ![c] = file] /\ file # Nobody
    BY <1>17 DEF Poll
  <2> QED
    BY <1>5, <1>6, <1>7, <2>1, <2>2 DEF Failures
<1>18. CASE HelloAnswered(c)
  <2>1. PICK k \in Mine(c) :
            /\ k.is \notin {"queued", "open"}
            /\ ToPc(c, Welcome(c, k))
            /\ conns' = IF k.is = "in" THEN conns ELSE Dropped(c)
    BY <1>18 DEF HelloAnswered
  <2>2. UNCHANGED info /\ pc[c] = "hello"
    BY <1>18 DEF HelloAnswered
  <2>3. CASE k.is = "in"
    <3>1. pc' = [pc EXCEPT ![c] = "connected"] /\ UNCHANGED conns
      BY <2>1, <2>3 DEF Welcome, ToPc
    <3>2. \A m \in Mine(c) : m.is = "in"
      BY <2>1, <2>3 DEF DaemonInv, ClientFits
    <3>3. pc' \in [Clients -> Places] /\ info' \in [Clients -> Processes \cup {Nobody}]
      BY <2>2, <3>1 DEF DaemonInv, Types, Places, Returned
    <3>4. ClientTypes' /\ AgentsFit'
      BY <1>1, <1>4, <3>3 DEF DaemonInv, AgentsFit, agents, daemon
    <3>5. UNCHANGED <<daemon, disk, role, timer, info, conns>>
      BY <1>1, <2>2, <3>1
    <3> QED
      BY <2>2, <3>1, <3>2, <3>4, <3>5, Keeping
  <2>4. CASE k.is # "in"
    <3>1. conns' = Dropped(c)
      BY <2>1, <2>4
    <3>2. PICK x \in {"unauthorized", "incompatible", "replace"} :
              /\ ToPc(c, x)
              /\ x = "replace" => api[k.to] < role[c].api
      <4>1. k \in Connections
        BY DEF Mine, DaemonInv, Types
      <4>2. api[k.to] \in Apis /\ role[c].api \in Apis
        BY <4>1, ConnectionFields DEF DaemonInv, Types, Roles
      <4>3. ~(api[k.to] >= role[c].api) => api[k.to] < role[c].api
        BY <4>2 DEF Apis
      <4> QED
        BY <2>1, <2>4, <4>3 DEF Welcome
    <3>3. info[c] # Nobody /\ (x = "replace" => at[info[c]] \in Gone \/ api[info[c]] < role[c].api)
      <4>1. k \in conns /\ Told(k) /\ k.token = info[c] /\ info[c] # Nobody
        BY <2>2 DEF Mine, DaemonInv, ClientFits
      <4> QED
        BY <3>2, <4>1 DEF Told
    <3> QED
      BY <1>5, <1>6, <1>7, <2>2, <3>1, <3>2, <3>3 DEF Failures
  <2> QED
    BY <2>3, <2>4
<1> QED
  BY <1>8, <1>11, <1>12, <1>13, <1>14, <1>15, <1>16, <1>17, <1>18 DEF Connect

\* Whom it connected to is used, asked to stop, or lost.
LEMMA UseKeeps ==
    ASSUME DaemonInv, NEW c \in Clients, Use(c), UNCHANGED <<daemon, disk, timer>>
    PROVE  DaemonInv'
<1>1. UNCHANGED role /\ UNCHANGED <<daemon, disk, role, timer>>
  BY DEF Use, RunAgent, Leave, AskStop, StopAnswered, StopWaits, Lost, Return, client
<1>2. CASE RunAgent(c)
  <2>1. PICK k \in Mine(c) : k.up /\ live' = [live EXCEPT ![c] = k.to]
    BY <1>2 DEF RunAgent
  <2>2. /\ row' = [row EXCEPT ![c] = "running"] /\ pc[c] = "connected"
        /\ UNCHANGED <<pc, info, stale, child, returns, conns, faults>>
    BY <1>2 DEF RunAgent, client
  <2>3. k.to \in Processes /\ at[k.to] \in Working
    <3>1. k \in Connections /\ Served(k) /\ k.is = "in"
      BY <2>2 DEF Mine, DaemonInv, Types, ClientFits
    <3> QED
      BY <2>1, <3>1, ConnectionFields DEF Served
  <2>4. ClientTypes'
    BY <2>1, <2>2, <2>3 DEF DaemonInv, Types, ClientTypes, Places
  <2>5. AgentsFit'
    <3>1. UNCHANGED at /\ AgentsFit /\ live \in [Clients -> Processes \cup {Nobody}]
      BY DEF daemon, DaemonInv, Types
    <3> QED
      BY <2>1, <2>3, <3>1 DEF AgentsFit
  <2>6. UNCHANGED <<daemon, disk, role, timer, info, conns>> /\ UNCHANGED pc
    BY <1>1, <2>2
  <2> QED
    BY <2>4, <2>5, <2>6, Keeping
<1>3. CASE AskStop(c)
  BY <1>3, Asking
<1>4. ASSUME NEW x \in Places \ Linked, ToPc(c, x),
             (UNCHANGED conns /\ pc[c] \notin Linked) \/ conns' = Dropped(c),
             NEW d \in {info[c], Nobody}, info' = [info EXCEPT ![c] = d],
             x \notin {"dial", "replace"}, UNCHANGED agents, faults' \in Nat,
             stale' \in [Clients -> Processes \cup {Nobody}],
             child' \in [Clients -> Processes \cup {Nobody}],
             returns' \in [Clients -> 0 .. MaxReturns]
      PROVE  DaemonInv'
  <2>1. pc' = [pc EXCEPT ![c] = x]
    BY <1>4 DEF ToPc
  <2>2. ClientTypes'
    BY <1>4, <2>1 DEF DaemonInv, Types, ClientTypes, Places, agents
  <2>3. UNCHANGED <<daemon, disk, role, timer, agents>>
    BY <1>1, <1>4
  <2> QED
    BY <1>4, <2>1, <2>2, <2>3, WithoutConnection
<1>5. CASE Leave(c) \/ StopAnswered(c) \/ Lost(c) \/ StopWaits(c)
  <2>1. UNCHANGED <<info, stale, child, returns, agents>>
    BY <1>5 DEF Leave, StopAnswered, Lost, StopWaits
  <2>2. PICK x \in {"left", "lost", "stop_await", "stopped", "stop_failed"} :
            /\ ToPc(c, x)
            /\ (UNCHANGED conns /\ pc[c] \notin Linked) \/ conns' = Dropped(c)
    BY <1>5 DEF Leave, StopAnswered, Lost, StopWaits, Linked
  <2>3. x \in Places \ Linked /\ x \notin {"dial", "replace"}
    BY DEF Places, After, Linked
  <2>4. faults' \in Nat
    BY <1>5 DEF Leave, StopAnswered, Lost, StopWaits, Fault, DaemonInv, Types
  <2>5. info' = [info EXCEPT ![c] = info[c]]
    BY <2>1 DEF DaemonInv, Types
  <2>6. /\ stale' \in [Clients -> Processes \cup {Nobody}]
        /\ child' \in [Clients -> Processes \cup {Nobody}]
        /\ returns' \in [Clients -> 0 .. MaxReturns]
    BY <2>1 DEF DaemonInv, Types
  <2> QED
    BY <1>4, <2>1, <2>2, <2>3, <2>4, <2>5, <2>6
<1>6. CASE Return(c)
  <2>1. /\ ToPc(c, "begin") /\ UNCHANGED <<conns, agents, faults>>
        /\ pc[c] \in {"lost"} \cup Failures /\ returns[c] < MaxReturns
        /\ info' = [info EXCEPT ![c] = Nobody] /\ stale' = [stale EXCEPT ![c] = Nobody]
        /\ child' = [child EXCEPT ![c] = Nobody] /\ returns' = [returns EXCEPT ![c] = @ + 1]
    BY <1>6 DEF Return
  <2>2. pc[c] \notin Linked /\ "begin" \in Places \ Linked
    BY <2>1 DEF Failures, Linked, Places
  <2>3. returns[c] + 1 \in 0 .. MaxReturns
    BY <2>1, DaemonBounds DEF DaemonInv, Types
  <2>4. /\ stale' \in [Clients -> Processes \cup {Nobody}]
        /\ child' \in [Clients -> Processes \cup {Nobody}]
        /\ returns' \in [Clients -> 0 .. MaxReturns] /\ faults' \in Nat
    BY <2>1, <2>3 DEF DaemonInv, Types
  <2> QED
    BY <1>4, <2>1, <2>2, <2>4
<1> QED
  BY <1>2, <1>3, <1>5, <1>6 DEF Use

LEMMA SpawnKeeps ==
    ASSUME DaemonInv, NEW c \in Clients, Spawn(c), UNCHANGED timer
    PROVE  DaemonInv'
<1>1. /\ UNCHANGED <<role, info, stale, returns, conns, agents, faults, stopping, forced, disk>>
      /\ pc[c] = "spawn" /\ pc' = [pc EXCEPT ![c] = "poll"]
  BY DEF Spawn, ToPc
<1>2. PICK d \in Processes :
          /\ at[d] = "unborn"
          /\ at' = [at EXCEPT ![d] = "starting"]
          /\ api' = [api EXCEPT ![d] = role[c].api]
          /\ child' = [child EXCEPT ![c] = d]
  BY DEF Spawn
<1>3. at'[d] = "starting" /\ \A e \in Processes \ {d} : at'[e] = at[e] /\ api'[e] = api[e]
  BY <1>2 DEF DaemonInv, Types
<1>4. /\ pc' \in [Clients -> Places] /\ pc'[c] = "poll"
      /\ \A e \in Clients \ {c} : pc'[e] = pc[e]
  BY <1>1 DEF DaemonInv, Types, Places, Connecting
<1>5. PICK f : /\ \A k \in conns : Moved(k, f[k]) /\ f[k] = k
               /\ conns \subseteq {f[k] : k \in conns}
  BY ConnsStay
<1>6. Moving(f)
  <2>1. GoneStayGone
    BY <1>2, <1>3 DEF GoneStayGone, Known, Gone, Ending, Unheard
  <2> QED
    BY <1>1, <1>2, <1>3, <1>5, <2>1 DEF Moving
<1>7. ASSUME NEW k \in conns'
      PROVE  Served(k)' /\ Told(k)'
  <2>1. k \in conns /\ k.to \in Processes /\ Served(k) /\ f[k] = k
    BY <1>1, <1>5, ConnectionFields DEF DaemonInv, Types
  <2>2. k.to # d \/ ~k.up
    BY <1>2, <2>1 DEF Served, Listening, Working
  <2>3. Told(k)'
    BY <1>6, <2>1, ConnsMove
  <2> QED
    BY <1>3, <2>1, <2>2, <2>3 DEF Served
<1>8. ASSUME NEW e \in Clients
      PROVE  ClientFits(e)'
  <2>1. CASE e # c
    <3>1. {k \in conns' : k.by = e} \subseteq {f[k] : k \in conns}
      BY <1>1, <1>5
    <3>2. pc'[e] = pc[e] /\ info'[e] = info[e] /\ \A k \in Mine(e) : f[k].is = k.is
      BY <1>1, <1>4, <1>5, <2>1 DEF Mine
    <3> QED
      BY <1>6, <3>1, <3>2, ClientStays
  <2>2. CASE e = c
    <3>1. Mine(c)' = {}
      BY <1>1 DEF Mine, DaemonInv, ClientFits
    <3>2. info'[c] # Nobody => at'[info'[c]] \in Known
      BY <1>1, <1>6 DEF DaemonInv, ClientFits, Moving, GoneStayGone, Types
    <3> QED
      BY <1>4, <2>2, <3>1, <3>2 DEF ClientFits
  <2> QED
    BY <2>1, <2>2
<1>9. DiskFits'
  <2> SUFFICES ASSUME NEW e \in Processes
               PROVE  /\ at'[e] \in Holding <=> lock = e
                      /\ at'[e] \in Listening <=> sock = e
                      /\ at'[e] = "serving" => file = e
                      /\ at'[e] \in {"unlisted", "quiet", "exited"} => file # e
                      /\ file = e => at'[e] \in Known
    BY <1>1 DEF DiskFits, disk
  <2> QED
    BY <1>2, <1>3 DEF DaemonInv, DiskFits, Holding, Listening, Known, Ending, Gone
<1>10. AgentsFit'
  <2> SUFFICES ASSUME NEW e \in Clients, live[e] # Nobody
               PROVE  at'[live[e]] \in Working
    BY <1>1 DEF AgentsFit, agents
  <2>1. live[e] \in Processes /\ at[live[e]] \in Working
    BY DEF DaemonInv, AgentsFit, Types
  <2> QED
    BY <1>2, <1>3, <2>1 DEF Working
<1>11. Types'
  <2>1. at' \in [Processes -> {"unborn"} \cup Running \cup Gone]
    BY <1>2 DEF DaemonInv, Types, Running, Starting
  <2>2. api' \in [Processes -> Apis]
    BY <1>2 DEF DaemonInv, Types, Roles
  <2>3. child' \in [Clients -> Processes \cup {Nobody}]
    BY <1>2 DEF DaemonInv, Types
  <2> QED
    BY <1>1, <1>4, <2>1, <2>2, <2>3 DEF DaemonInv, Types, Places, disk, agents
<1> QED
  BY <1>7, <1>8, <1>9, <1>10, <1>11 DEF DaemonInv

LEMMA AgentEndsKeeps ==
    ASSUME DaemonInv, NEW c \in Clients, AgentEnds(c), UNCHANGED <<client, timer>>
    PROVE  DaemonInv'
<1>1. /\ UNCHANGED <<daemon, disk, role, timer, info, conns>> /\ UNCHANGED pc
      /\ UNCHANGED <<stale, child, returns, faults>>
      /\ live' = [live EXCEPT ![c] = Nobody] /\ row' = [row EXCEPT ![c] = "ended"]
  BY DEF AgentEnds, client
<1>2. ClientTypes'
  BY <1>1 DEF DaemonInv, Types, ClientTypes, Places
<1>3. AgentsFit'
  <2>1. UNCHANGED at /\ AgentsFit /\ live \in [Clients -> Processes \cup {Nobody}]
    BY <1>1 DEF daemon, DaemonInv, Types
  <2> QED
    BY <1>1, <2>1 DEF AgentsFit
<1> QED
  BY <1>1, <1>2, <1>3, Keeping

-----------------------------------------------------------------------------
(* The theorems. *)

LEMMA DaemonStart == Init => DaemonInv
<1> SUFFICES ASSUME Init
             PROVE  DaemonInv
  OBVIOUS
<1>1. PICK s \in Scenes :
          /\ role = s.cast /\ timer = s.timer /\ faults = s.faults
          /\ at = [d \in Processes |-> IF d = 1 THEN s.first ELSE "unborn"]
          /\ api = [d \in Processes |-> s.api]
          /\ file = IF s.first = "unborn" THEN Nobody ELSE 1
          /\ lock = IF s.first = "serving" THEN 1 ELSE Nobody
          /\ sock = lock
  BY DEF Init
<1>2. /\ s.cast \in [Clients -> Roles] /\ s.first \in {"unborn", "killed", "serving"}
      /\ s.api \in Apis /\ s.timer \in BOOLEAN /\ s.faults \in Nat
  BY ScenesAssumption
<1>3. 1 \in Processes /\ Nobody \notin Processes
  BY DaemonBounds, NobodyIsNoProcess DEF Processes
<1>4. /\ conns = {} /\ forced = {}
      /\ stopping = [d \in Processes |-> "no"]
      /\ live = [c \in Clients |-> Nobody] /\ row = [c \in Clients |-> "none"]
      /\ pc = [c \in Clients |-> IF role[c].job = "none" THEN "left" ELSE "begin"]
      /\ info = [c \in Clients |-> Nobody] /\ stale = info /\ child = info
      /\ returns = [c \in Clients |-> 0]
  BY DEF Init
<1>5. Types
  <2>1. at \in [Processes -> {"unborn"} \cup Running \cup Gone]
    BY <1>1, <1>2 DEF Running, Gone
  <2>2. returns \in [Clients -> 0 .. MaxReturns]
    BY <1>4, DaemonBounds
  <2>3. pc \in [Clients -> {"begin"} \cup Connecting \cup Returned \cup After]
    BY <1>4 DEF After
  <2> QED
    BY <1>1, <1>2, <1>3, <1>4, <2>1, <2>2, <2>3 DEF Types
<1>6. DiskFits
  BY <1>1, <1>2, <1>3 DEF DiskFits, Holding, Listening, Known, Ending, Gone
<1>7. AgentsFit /\ \A c \in Clients : ClientFits(c)
  BY <1>4 DEF AgentsFit, ClientFits, Mine
<1> QED
  BY <1>4, <1>5, <1>6, <1>7 DEF DaemonInv

LEMMA DaemonNext == DaemonInv /\ [Next]_vars => DaemonInv'
<1> SUFFICES ASSUME DaemonInv, [Next]_vars
             PROVE  DaemonInv'
  OBVIOUS
<1>1. CASE \E d \in Processes : DaemonStep(d)
  BY <1>1, DaemonKeeps
<1>2. CASE \E c \in Clients : ClientStep(c)
  BY <1>2, SpawnKeeps, ConnectKeeps, UseKeeps DEF ClientStep
<1>3. CASE \E c \in Clients : AgentEnds(c) /\ UNCHANGED <<client, timer>>
  BY <1>3, AgentEndsKeeps
<1>4. CASE UNCHANGED vars
  BY <1>4 DEF vars, daemon, disk, agents, client, DaemonInv, Types, DiskFits, AgentsFit, Served,
              Told, ClientFits, Mine
<1> QED
  BY <1>1, <1>2, <1>3, <1>4 DEF Next

LEMMA DaemonInvHolds == Spec => []DaemonInv
  BY DaemonStart, DaemonNext, PTL DEF Spec

\* WriteInfo and finish, connect: the daemon that accepts clients is the one
\* daemon.json names and the endpoint leads to, and a client that connect lets
\* through talks to the daemon it has read of, in its own version.
THEOREM ClientsMeet == Spec => []ClientsMeetTheDaemon
<1>1. DaemonInv => ClientsMeetTheDaemon
  <2> SUFFICES ASSUME DaemonInv
               PROVE  ClientsMeetTheDaemon
    OBVIOUS
  <2>1. ASSUME NEW c \in Clients
        PROVE  Cardinality(Mine(c)) <= 1
    <3>1. \A k, l \in Mine(c) : k = l
      BY DEF DaemonInv, ClientFits
    <3>2. CASE Mine(c) = {}
      BY <3>2, FS_EmptySet
    <3>3. CASE Mine(c) # {}
      <4>1. PICK k : k \in Mine(c)
        BY <3>3
      <4>2. Mine(c) = {k}
        BY <3>1, <4>1
      <4> QED
        <5>1. Cardinality({k}) = 1
          BY FS_Singleton, Zenon
        <5>2. Cardinality(Mine(c)) = 1
          BY <4>2, <5>1, Zenon
        <5> QED
          BY <5>2
    <3> QED
      BY <3>2, <3>3
  <2>2. TypeOK
    BY <2>1 DEF DaemonInv, Types, TypeOK
  <2>3. FoundWhereItServes
    BY DEF DaemonInv, DiskFits, FoundWhereItServes, Listening
  <2>4. TalksToTheNamed
    <3> SUFFICES ASSUME NEW c \in Clients, pc[c] = "connected", NEW k \in Mine(c)
                 PROVE  k.to = info[c] /\ api[k.to] = role[c].api
      BY DEF TalksToTheNamed
    <3>1. k.is = "in" /\ k.token = info[c] /\ k.by = c /\ Told(k)
      BY DEF DaemonInv, ClientFits, Mine
    <3> QED
      BY <3>1 DEF Told
  <2> QED
    BY <2>2, <2>3, <2>4 DEF ClientsMeetTheDaemon
<1> QED
  BY <1>1, DaemonInvHolds, PTL

\* AppState::open_with and daemon.shutdown: a starting daemon ends only agents
\* no process runs, and a daemon is stopped over a connection only by a client
\* it let in or by a newer one that means it.
THEOREM OnlyTheRightOnes == Spec => OnlyTheRightOnesEnd
<1>1. DaemonInv /\ [Next]_vars =>
        [\A c \in Clients : row'[c] = "recovered" /\ row[c] # "recovered" => live[c] = Nobody]_vars
  <2> SUFFICES ASSUME DaemonInv, Next, NEW c \in Clients, row'[c] = "recovered", row[c] # "recovered"
               PROVE  live[c] = Nobody
    OBVIOUS
  <2>1. PICK d \in Processes : OpenAndListen(d)
    <3>1. CASE \E d \in Processes : DaemonStep(d)
      <4>1. PICK d \in Processes : DaemonStep(d)
        BY <3>1
      <4>2. row' # row
        OBVIOUS
      <4> QED
        BY <4>1, <4>2
           DEF DaemonStep, Acquire, WriteInfo, StartFails, Vanish, Accept, Answer, HangUp, IdleStops,
               Signal, StopAccepting, Drained, DrainTimeout, CloseAndUnlist, ShutRuntime, Unlock,
               Watchdog, Kill, agents
    <3>2. ASSUME NEW e \in Clients, ClientStep(e) \/ AgentEnds(e)
          PROVE  FALSE
      <4>1. CASE RunAgent(e) \/ AgentEnds(e)
        BY <4>1 DEF RunAgent, AgentEnds, DaemonInv, Types
      <4>2. CASE ~RunAgent(e) /\ ~AgentEnds(e)
        BY <3>2, <4>2
           DEF ClientStep, Spawn, Connect, Begin, Dial, HelloAnswered, HelloFails, Replace, Asked,
               Await, Poll, Deadline, Use, Leave, AskStop, StopAnswered, StopWaits, Lost, Return,
               agents
      <4> QED
        BY <4>1, <4>2
    <3> QED
      BY <3>1, <3>2 DEF Next
  <2>2. at[d] = "locked" /\ lock = d
    BY <2>1 DEF OpenAndListen, DaemonInv, DiskFits, Holding
  <2>3. ASSUME live[c] # Nobody
        PROVE  FALSE
    <3>1. live[c] \in Processes /\ at[live[c]] \in Working
      BY <2>3 DEF DaemonInv, AgentsFit, Types
    <3>2. at[live[c]] \in Holding
      BY <3>1 DEF Working, Holding, Ending
    <3> QED
      BY <2>2, <3>1, <3>2 DEF DaemonInv, DiskFits, Working
  <2> QED
    BY <2>3
<1>2. DaemonInv /\ [Next]_vars =>
        [\A d \in Processes : stopping[d] = "no" /\ stopping'[d] = "rpc" =>
           \E k \in conns : /\ k.to = d /\ k.is = "open"
                            /\ \/ k.ask = "stop"
                               \/ api[d] < role[k.by].api /\ k.token = d]_vars
  <2> SUFFICES ASSUME DaemonInv, Next, NEW d \in Processes, stopping[d] = "no", stopping'[d] = "rpc"
               PROVE  \E k \in conns : /\ k.to = d /\ k.is = "open"
                                       /\ \/ k.ask = "stop"
                                          \/ api[d] < role[k.by].api /\ k.token = d
    OBVIOUS
  <2>1. PICK e \in Processes : Answer(e)
    <3>1. stopping' # stopping
      OBVIOUS
    <3>2. ASSUME NEW e \in Processes, IdleStops(e) \/ Signal(e)
          PROVE  FALSE
      <4>1. Stopped(e, "idle") \/ Stopped(e, "signal")
        BY <3>2 DEF IdleStops, Signal
      <4> QED
        BY <4>1 DEF Stopped, DaemonInv, Types
    <3>3. CASE \E e \in Processes : DaemonStep(e)
      <4>1. PICK e \in Processes : DaemonStep(e)
        BY <3>3
      <4> QED
        BY <3>1, <3>2, <4>1
           DEF DaemonStep, Acquire, OpenAndListen, WriteInfo, StartFails, Vanish, Accept, HangUp,
               StopAccepting, Drained, DrainTimeout, CloseAndUnlist, ShutRuntime, Unlock, Watchdog,
               Kill, daemon
    <3>4. CASE \E c \in Clients : ClientStep(c) \/ AgentEnds(c)
      BY <3>1, <3>4 DEF ClientStep, Spawn, AgentEnds, daemon
    <3> QED
      BY <3>3, <3>4 DEF Next
  <2>2. PICK k \in conns : /\ k.to = e /\ k.is = "open"
                           /\ Reply(e, k) # "stopping" => UNCHANGED <<stopping, forced>>
                           /\ Reply(e, k) = "stopping" => Stopped(e, "rpc")
    BY <2>1 DEF Answer
  <2>3. Reply(e, k) = "stopping" /\ Stopped(e, "rpc")
    BY <2>2
  <2>4. e = d
    BY <2>3 DEF Stopped, DaemonInv, Types
  <2>5. k.ask = "stop" \/ (k.ask = "shutdown" /\ k.token = d)
    <3>1. k.ask \in {"hello", "shutdown", "stop"}
      BY ConnectionFields DEF DaemonInv, Types
    <3> QED
      BY <2>3, <2>4, <3>1 DEF Reply
  <2>6. k.ask = "shutdown" /\ k.token = d => api[d] < role[k.by].api
    BY <2>2, <2>4 DEF DaemonInv, Told
  <2> QED
    BY <2>2, <2>4, <2>5, <2>6
<1> QED
  BY <1>1, <1>2, DaemonInvHolds, PTL
     DEF Spec, OnlyTheRightOnesEnd, RecoveryEndsOnlyTheLost, OnlyOlderAreReplaced
=============================================================================
