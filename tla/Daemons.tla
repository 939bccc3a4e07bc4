------------------------------- MODULE Daemons -------------------------------
(***************************************************************************)
(* The daemons of one data directory with the clients that find, spawn,    *)
(* replace and stop them.  The clients' side is DaemonClient::connect      *)
(* (crates/client/src/connect.rs): find the daemon through daemon.json,    *)
(* replace an older one, spawn one when none answers; and what its callers *)
(* do with the connection: `harness daemon stop`                           *)
(* (crates/cli/src/daemon.rs), the connection manager of the desktop       *)
(* application (apps/gui/src-tauri/src/daemon.rs), and a command that runs *)
(* an agent.                                                               *)
(***************************************************************************)
EXTENDS DaemonProcess

ToPc(c, there) == pc' = [pc EXCEPT ![c] = there]
MaySpawn(c)    == role[c].job # "stop"
\* connect looks for the daemon it has spawned.
Polling(c)     == child[c] # Nobody

\* The client's end of its connection is closed.
Dropped(c) == (conns \ Mine(c))
              \cup {[k EXCEPT !.held = FALSE] : k \in {l \in Mine(c) : l.up}}
NewConnection(c, ask) ==
    [by |-> c, to |-> sock, ask |-> ask, token |-> info[c], is |-> "queued",
     up |-> TRUE, held |-> TRUE]

\* connect: daemon.json is read and the first attempt begins.
Begin(c) ==
    /\ pc[c] = "begin"
    /\ IF file = Nobody
       THEN /\ ToPc(c, IF MaySpawn(c) THEN "spawn" ELSE "not_running")
            /\ UNCHANGED <<info, stale>>
       ELSE /\ ToPc(c, "dial")
            /\ info' = [info EXCEPT ![c] = file] /\ stale' = [stale EXCEPT ![c] = file]
    /\ UNCHANGED <<role, child, returns, conns, agents, faults>>

\* An attempt that ends with Unreachable.
Unreachable(c) ==
    ToPc(c, IF Polling(c) THEN "late" ELSE IF MaySpawn(c) THEN "spawn" ELSE "not_running")

\* attempt: connect to the endpoint, then send daemon.hello with the token read.
Dial(c) ==
    /\ pc[c] = "dial"
    /\ IF sock = Nobody THEN Unreachable(c) /\ UNCHANGED conns
       ELSE ToPc(c, "hello") /\ conns' = conns \cup {NewConnection(c, "hello")}
    /\ UNCHANGED <<role, info, stale, child, returns, agents, faults>>

\* What an answer to daemon.hello means to connect.
Welcome(c, k) ==
    IF k.is = "in" THEN "connected"
    ELSE IF k.is = "unauthorized" THEN "unauthorized"
    ELSE IF Polling(c) \/ api[k.to] >= role[c].api \/ ~MaySpawn(c) THEN "incompatible"
    ELSE "replace"

HelloAnswered(c) ==
    /\ pc[c] = "hello"
    /\ \E k \in Mine(c) :
          /\ k.is \notin {"queued", "open"}
          /\ ToPc(c, Welcome(c, k))
          /\ conns' = IF k.is = "in" THEN conns ELSE Dropped(c)
    /\ UNCHANGED <<role, info, stale, child, returns, agents, faults>>

Unanswered(c) == \E k \in Mine(c) : k.is \in {"queued", "open"}
Cut(c)        == \E k \in Mine(c) : k.is \in {"queued", "open"} /\ ~k.up

\* The connection breaks before the answer, or ATTEMPT_TIMEOUT passes.
HelloFails(c) ==
    /\ pc[c] = "hello"
    /\ \/ Cut(c) /\ UNCHANGED faults
       \/ Unanswered(c) /\ Fault
    /\ Unreachable(c)
    /\ conns' = Dropped(c)
    /\ UNCHANGED <<role, info, stale, child, returns, agents>>

\* replace_older: daemon.shutdown on a connection of its own, without a hello.
Replace(c) ==
    /\ pc[c] = "replace"
    /\ IF sock = Nobody THEN ToPc(c, "await") /\ UNCHANGED conns
       ELSE ToPc(c, "asked") /\ conns' = conns \cup {NewConnection(c, "shutdown")}
    /\ UNCHANGED <<role, info, stale, child, returns, agents, faults>>

\* Its answer, whatever it is, or none.
Asked(c) ==
    /\ pc[c] = "asked"
    /\ \/ (~Unanswered(c) \/ Cut(c)) /\ UNCHANGED faults
       \/ Unanswered(c) /\ Fault
    /\ ToPc(c, "await")
    /\ conns' = Dropped(c)
    /\ UNCHANGED <<role, info, stale, child, returns, agents>>

\* The daemon asked to stop is gone: daemon.json does not name it any more or
\* nothing answers at the endpoint.
LooksGone(c) == file # info[c] \/ sock = Nobody

Await(c) ==
    /\ pc[c] = "await"
    /\ \/ LooksGone(c) /\ UNCHANGED faults
       \/ ~LooksGone(c) /\ Fault               \* the deadline: spawn anyway
    /\ ToPc(c, "spawn")
    /\ UNCHANGED <<role, info, stale, child, returns, conns, agents>>

\* spawn_detached.
Spawn(c) ==
    /\ pc[c] = "spawn" /\ ToPc(c, "poll")
    /\ \E d \in Processes :
          /\ at[d] = "unborn" /\ \A e \in 1 .. d - 1 : at[e] # "unborn"
          /\ at' = [at EXCEPT ![d] = "starting"]
          /\ api' = [api EXCEPT ![d] = role[c].api]
          /\ child' = [child EXCEPT ![c] = d]
    /\ UNCHANGED <<role, info, stale, returns, conns, agents, faults,
                   stopping, forced, disk>>

\* One turn of the polling loop: the child's status, then daemon.json; one that
\* still names the daemon found stale is not tried, unless the child has found
\* the lock held.
Poll(c) ==
    LET state  == at[child[c]]
        avoids == IF state = "refused" THEN Nobody ELSE stale[c]
    IN /\ pc[c] \in {"poll", "late"}
       /\ stale' = [stale EXCEPT ![c] = avoids]
       /\ IF state \in Gone \ {"refused"} THEN ToPc(c, "daemon_exited") /\ UNCHANGED info
          ELSE IF file \in {Nobody, avoids} THEN ToPc(c, "late") /\ UNCHANGED info
          ELSE ToPc(c, "dial") /\ info' = [info EXCEPT ![c] = file]
       /\ UNCHANGED <<role, child, returns, conns, agents, faults>>

\* The turn is over and the deadline has passed.
Deadline(c) ==
    /\ pc[c] = "late" /\ ToPc(c, "spawn_timeout")
    /\ UNCHANGED <<role, info, stale, child, returns, conns, agents, faults>>

Connect(c) ==
    Begin(c) \/ Dial(c) \/ HelloAnswered(c) \/ HelloFails(c) \/ Replace(c) \/ Asked(c)
    \/ Await(c) \/ Poll(c) \/ Deadline(c)

(* The callers. *)

Alive(c) == \E k \in Mine(c) : k.up

\* A command that runs one agent: agent.run, then it leaves, with or without
\* waiting for the agent's end.
RunAgent(c) ==
    /\ pc[c] = "connected" /\ role[c].job = "run" /\ row[c] = "none"
    /\ \E k \in Mine(c) : k.up /\ live' = [live EXCEPT ![c] = k.to]
    /\ row' = [row EXCEPT ![c] = "running"]
    /\ UNCHANGED <<client, conns, faults>>
Leave(c) ==
    /\ pc[c] = "connected" /\ role[c].job \in {"run", "look"} /\ ToPc(c, "left")
    /\ conns' = Dropped(c)
    /\ UNCHANGED <<role, info, stale, child, returns, agents, faults>>

\* daemon.shutdown on the connection that was let in: `harness daemon stop`, or
\* the desktop application's restart.
AskStop(c) ==
    /\ pc[c] = "connected" /\ role[c].job \in {"stop", "app"}
    /\ \E k \in Mine(c) :
          /\ k.up /\ k.is = "in"
          /\ conns' = (conns \ {k}) \cup {[k EXCEPT !.ask = "stop", !.is = "open"]}
    /\ ToPc(c, "stop_asked")
    /\ UNCHANGED <<role, info, stale, child, returns, agents, faults>>

\* `harness daemon stop` has its answer, or the connection breaks first.
StopAnswered(c) ==
    /\ pc[c] = "stop_asked" /\ role[c].job = "stop"
    /\ ToPc(c, IF Unanswered(c) THEN "stop_failed" ELSE "stop_await")
    /\ Unanswered(c) => Cut(c)
    /\ conns' = Dropped(c)
    /\ UNCHANGED <<role, info, stale, child, returns, agents, faults>>

\* It waits until the daemon looks gone, or for STOP_TIMEOUT.
StopWaits(c) ==
    /\ pc[c] = "stop_await"
    /\ \/ LooksGone(c) /\ ToPc(c, "stopped") /\ UNCHANGED faults
       \/ ~LooksGone(c) /\ ToPc(c, "stop_failed") /\ Fault
    /\ UNCHANGED <<role, info, stale, child, returns, conns, agents>>

\* The daemon closes the connection of a client that keeps it.
Lost(c) ==
    /\ pc[c] = "connected" \/ (pc[c] = "stop_asked" /\ role[c].job = "app")
    /\ ~Alive(c)
    /\ ToPc(c, "lost")
    /\ conns' = Dropped(c)
    /\ UNCHANGED <<role, info, stale, child, returns, agents, faults>>

\* The manager comes back after its backoff, with everything forgotten.
Return(c) ==
    /\ role[c].job = "app" /\ pc[c] \in {"lost"} \cup Failures
    /\ returns[c] < MaxReturns
    /\ returns' = [returns EXCEPT ![c] = @ + 1]
    /\ ToPc(c, "begin")
    /\ info' = [info EXCEPT ![c] = Nobody] /\ stale' = [stale EXCEPT ![c] = Nobody]
    /\ child' = [child EXCEPT ![c] = Nobody]
    /\ UNCHANGED <<role, conns, agents, faults>>

Use(c) == RunAgent(c) \/ Leave(c) \/ AskStop(c) \/ StopAnswered(c) \/ StopWaits(c)
          \/ Lost(c) \/ Return(c)

ClientStep(c) ==
    /\ \/ Spawn(c)
       \/ (Connect(c) \/ Use(c)) /\ UNCHANGED <<daemon, disk>>
    /\ UNCHANGED timer

-----------------------------------------------------------------------------
Next == \/ \E d \in Processes : DaemonStep(d)
        \/ \E c \in Clients : ClientStep(c) \/ (AgentEnds(c) /\ UNCHANGED <<client, timer>>)

\* What comes of itself: the main thread of a starting daemon, its accept loop
\* and handlers, the shutdown up to the listener, the watchdog's clock; and the
\* steps of connect, whose deadline passes in the end.  Nothing is assumed of the
\* shutdown's other steps: a connection may be held open and a flush may hang.
Fairness ==
    /\ \A d \in Processes :
          /\ WF_vars(/\ \/ Acquire(d) \/ OpenAndListen(d) \/ WriteInfo(d)
                        \/ Accept(d) \/ Answer(d) \/ StopAccepting(d)
                     /\ UNCHANGED <<client, timer>>)
          /\ WF_vars(Watchdog(d) /\ UNCHANGED <<client, timer>>)
    /\ \A c \in Clients :
          /\ WF_vars((Spawn(c) \/ (Connect(c) /\ UNCHANGED <<daemon, disk>>)) /\ UNCHANGED timer)
          /\ SF_vars(Deadline(c) /\ UNCHANGED <<daemon, disk, timer>>)

Spec == Init /\ [][Next]_vars /\ Fairness

-----------------------------------------------------------------------------
\* The daemon that accepts clients is the one they find: daemon.json names it and
\* its listener is at the endpoint (the file is removed by whoever wrote it, before
\* the lock is given up); a daemon that has shut down leaves no file behind.
FoundWhereItServes ==
    \A d \in Processes :
        /\ at[d] = "serving" /\ stopping[d] = "no" => file = d /\ sock = d
        /\ at[d] = "exited" => file # d

\* open_with ends, as those of a daemon that is no more, only agents that no
\* process runs any longer: the lock is kept until the last task is gone, and the
\* store is opened behind it.
RecoveryEndsOnlyTheLost ==
    [][\A c \in Clients : row'[c] = "recovered" /\ row[c] # "recovered" => live[c] = Nobody]_vars

\* A client that connect has let through talks to the daemon whose daemon.json it
\* reports (pid, version, token), in the same version of the API, although every
\* daemon listens at the same endpoint.
TalksToTheNamed ==
    \A c \in Clients : pc[c] = "connected" =>
        \A k \in Mine(c) : k.to = info[c] /\ api[k.to] = role[c].api

\* A daemon told to stop over a connection is told so by somebody it has let in, or
\* by a newer client that means this very daemon: never by one that read of an
\* older daemon which another client has replaced meanwhile.
OnlyOlderAreReplaced ==
    [][\A d \in Processes : stopping[d] = "no" /\ stopping'[d] = "rpc" =>
        \E k \in conns : /\ k.to = d /\ k.is = "open"
                         /\ \/ k.ask = "stop"
                            \/ api[d] < role[k.by].api /\ k.token = d]_vars

\* A daemon asked to stop is gone in the end, whatever its connections, agents and
\* writer do.
StopsInTheEnd == \A d \in Processes : stopping[d] # "no" ~> at[d] \in Gone

\* connect returns.
ConnectReturns == \A c \in Clients : pc[c] \in Connecting ~> pc[c] \in Returned

\* Whom a client finds and talks to.
ClientsMeetTheDaemon == TypeOK /\ FoundWhereItServes /\ TalksToTheNamed

\* Whom a start and a newer client end.
OnlyTheRightOnesEnd == RecoveryEndsOnlyTheLost /\ OnlyOlderAreReplaced

\* What comes to an end by itself.
StopsAndReturns == StopsInTheEnd /\ ConnectReturns
=============================================================================
