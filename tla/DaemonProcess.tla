---------------------------- MODULE DaemonProcess ----------------------------
(***************************************************************************)
(* The daemons of one data directory and the clients that look for them:   *)
(* the lock file, daemon.json, the local socket, the connections made to   *)
(* it and the agents whose rows the store keeps from one daemon to the     *)
(* next.  DaemonProcess has the steps of a daemon (crates/daemon), Daemons *)
(* those of a client, and both together.  Time is not modelled: whatever a *)
(* timer allows may happen at any moment, and fairness says what must.     *)
(*                                                                         *)
(* A daemon from main to its exit (crates/daemon/src/main.rs, lock.rs,     *)
(* lifecycle.rs): the lock, the store and its recovery, the listener,      *)
(* daemon.json, the connections it accepts, the reasons to stop, and the   *)
(* ordered shutdown with its timeouts and its watchdog.                    *)
(***************************************************************************)
EXTENDS Naturals, FiniteSets

CONSTANTS
    Clients,
    Scenes,        \* the situations to begin in, with the faults that may come
    MaxDaemons,    \* processes; the bound of the model on spawning
    MaxReturns     \* how often the desktop application connects again

Apis  == 1 .. 2    \* API_VERSION of an older and a newer build
\* A client runs an agent, only looks, stops the daemon, is the desktop
\* application, or does not come at all.
Jobs  == {"run", "look", "stop", "app", "none"}
Roles == [api : Apis, job : Jobs]

\* A new data directory, one a daemon crashed in, or one a daemon serves.  A fault
\* is a kill, a failed start, a signal or an expired timeout of a client.
ASSUME ScenesAssumption ==
    Scenes \subseteq [cast : [Clients -> Roles], first : {"unborn", "killed", "serving"},
                      api : Apis, timer : BOOLEAN, faults : Nat]
ASSUME DaemonBounds == MaxDaemons \in Nat \ {0} /\ MaxReturns \in Nat

Processes == 1 .. MaxDaemons
Nobody    == 0

VARIABLES
    at,        \* where main of each daemon is
    api,       \* the API it was built with
    stopping,  \* Server::reason: why its shutdown token is cancelled, or "no"
    forced,    \* daemons with Server::forced
    lock,      \* the daemon holding the lock file
    file,      \* the daemon daemon.json names: its pid, endpoint, token, version
    sock,      \* the daemon listening on the endpoint
    conns,     \* the connections
    live,      \* the daemon in which the agent of each client has its task
    row,       \* the status of that agent in the store
    timer,     \* Options::idle: daemons stop when idle
    role,      \* who the clients are
    pc,        \* where each client is
    info,      \* the daemon.json it has read
    stale,     \* connect: stale_pid
    child,     \* the daemon it has spawned
    returns,   \* how often it has connected again
    faults     \* faults that may still come

disk   == <<lock, file, sock>>
daemon == <<at, api, stopping, forced>>
agents == <<live, row>>
client == <<role, pc, info, stale, child, returns>>
vars   == <<daemon, disk, conns, agents, timer, client, faults>>

Starting == {"starting", "locked", "bound"}
Ending   == {"draining", "closing", "unlisted", "quiet"}
Running  == Starting \cup {"serving"} \cup Ending
Gone     == {"exited", "refused", "failed", "killed"}

\* Where the call of DaemonClient::connect is, and how it returns.
Connecting == {"dial", "hello", "replace", "asked", "await", "spawn", "poll", "late"}
Failures   == {"not_running", "incompatible", "unauthorized", "daemon_exited",
               "spawn_timeout"}
Returned   == Failures \cup {"connected"}
\* What its callers make of it.
After      == {"left", "lost", "stop_asked", "stop_await", "stopped", "stop_failed"}

\* A connection: made by a client to a process, carrying one request with the
\* token of the daemon.json the client has read.
Connections ==
    [by : Clients, to : Processes, ask : {"hello", "shutdown", "stop"}, token : Processes,
     is : {"queued", "open", "in", "unauthorized", "incompatible", "stopping"},
     up : BOOLEAN,        \* the daemon's end is open
     held : BOOLEAN]      \* the client's end is open

Mine(c) == {k \in conns : k.by = c /\ k.held}
\* What Server::connections counts.
Open(d) == {k \in conns : k.to = d /\ k.up /\ k.is # "queued"}

TypeOK ==
    /\ at \in [Processes -> {"unborn"} \cup Running \cup Gone]
    /\ api \in [Processes -> Apis]
    /\ stopping \in [Processes -> {"no", "idle", "rpc", "signal"}]
    /\ forced \subseteq Processes
    /\ {lock, file, sock} \subseteq Processes \cup {Nobody}
    /\ conns \subseteq Connections
    /\ \A c \in Clients : Cardinality(Mine(c)) <= 1
    /\ live \in [Clients -> Processes \cup {Nobody}]
    /\ row \in [Clients -> {"none", "running", "ended", "recovered"}]
    /\ timer \in BOOLEAN /\ role \in [Clients -> Roles]
    /\ pc \in [Clients -> {"begin"} \cup Connecting \cup Returned \cup After]
    /\ info \in [Clients -> Processes \cup {Nobody}]
    /\ stale \in [Clients -> Processes \cup {Nobody}]
    /\ child \in [Clients -> Processes \cup {Nobody}]
    /\ returns \in [Clients -> 0 .. MaxReturns]
    /\ faults \in Nat

Init ==
    /\ \E s \in Scenes :
          /\ role = s.cast /\ timer = s.timer /\ faults = s.faults
          /\ at = [d \in Processes |-> IF d = 1 THEN s.first ELSE "unborn"]
          /\ api = [d \in Processes |-> s.api]
          /\ file = IF s.first = "unborn" THEN Nobody ELSE 1
          /\ lock = IF s.first = "serving" THEN 1 ELSE Nobody
          /\ sock = lock
    /\ stopping = [d \in Processes |-> "no"] /\ forced = {}
    /\ conns = {}
    /\ live = [c \in Clients |-> Nobody] /\ row = [c \in Clients |-> "none"]
    /\ pc = [c \in Clients |-> IF role[c].job = "none" THEN "left" ELSE "begin"]
    /\ info = [c \in Clients |-> Nobody] /\ stale = info /\ child = info
    /\ returns = [c \in Clients |-> 0]

-----------------------------------------------------------------------------
Goto(d, there) == at' = [at EXCEPT ![d] = there]
Release(holder, d) == IF holder = d THEN Nobody ELSE holder

\* The daemon's ends of its connections are closed; what the client has left
\* as well is no connection any more.
Hangup(ks, lost) == {k \in ks \ lost : k.held \/ k.up}
                    \cup {[k EXCEPT !.up = FALSE] : k \in {l \in lost : l.held}}
HangupAll(d) == conns' = Hangup(conns, {k \in conns : k.to = d})

\* The process is gone: the system drops its lock and its listener; its tasks
\* end where they are and nothing of it is recorded or removed.
Vanish(d, how) ==
    /\ Goto(d, how)
    /\ lock' = Release(lock, d) /\ sock' = Release(sock, d)
    /\ HangupAll(d)
    /\ live' = [c \in Clients |-> Release(live[c], d)]
    /\ UNCHANGED <<api, stopping, forced, file, row>>

Fault == faults > 0 /\ faults' = faults - 1

(* Coming up. *)

\* DaemonLock::acquire; a held lock makes main return ALREADY_RUNNING.
Acquire(d) ==
    /\ at[d] = "starting"
    /\ IF lock = Nobody THEN lock' = d /\ Goto(d, "locked")
       ELSE lock' = lock /\ Goto(d, "refused")
    /\ UNCHANGED <<api, stopping, forced, file, sock, conns, agents, faults>>

\* AppState::open_with: the store is opened and agents whose row says running
\* are ended as those of an earlier daemon.  Then Endpoint::listen: every daemon
\* of the data directory has the same endpoint.
OpenAndListen(d) ==
    /\ at[d] = "locked" /\ Goto(d, "bound")
    /\ row' = [c \in Clients |-> IF row[c] = "running" THEN "recovered" ELSE row[c]]
    /\ sock' = d
    /\ UNCHANGED <<api, stopping, forced, lock, file, conns, live, faults>>

\* DaemonInfo::write, then the watchers and the accept loop.
WriteInfo(d) ==
    /\ at[d] = "bound" /\ Goto(d, "serving")
    /\ file' = d
    /\ UNCHANGED <<api, stopping, forced, lock, sock, conns, agents, faults>>

\* The store, the listener or daemon.json cannot be opened: main returns the error.
StartFails(d) ==
    /\ at[d] \in {"locked", "bound"} /\ Fault
    /\ Vanish(d, "failed")

(* Serving. *)

Accept(d) ==
    /\ at[d] = "serving"
    /\ \E k \in conns :
          /\ k.to = d /\ k.is = "queued" /\ k.up
          /\ conns' = (conns \ {k}) \cup {[k EXCEPT !.is = "open"]}
    /\ UNCHANGED <<daemon, disk, agents, faults>>

\* Router::hello looks at the version before the token.  daemon.shutdown of a
\* connection not let in needs the token (shutdown_token_ok).
Reply(d, k) ==
    IF k.ask = "hello"
    THEN IF role[k.by].api # api[d] THEN "incompatible"
         ELSE IF k.token # d THEN "unauthorized" ELSE "in"
    ELSE IF k.ask = "shutdown" /\ k.token # d THEN "unauthorized" ELSE "stopping"

\* request_shutdown: the first reason stays.
Stopped(d, reason) ==
    stopping' = [stopping EXCEPT ![d] = IF @ = "no" THEN reason ELSE @]

\* One request is dispatched and answered; handling daemon.shutdown cancels the
\* shutdown token.  Only `harness daemon stop` asks for a forced one.
Answer(d) ==
    /\ at[d] \in {"serving"} \cup (Ending \ {"quiet"})
    /\ \E k \in conns :
          /\ k.to = d /\ k.is = "open" /\ k.up
          /\ conns' = (conns \ {k}) \cup {[k EXCEPT !.is = Reply(d, k)]}
          /\ IF Reply(d, k) # "stopping" THEN UNCHANGED <<stopping, forced>>
             ELSE /\ Stopped(d, "rpc")
                  /\ \/ UNCHANGED forced
                     \/ /\ k.ask = "stop" /\ role[k.by].job = "stop"
                        /\ forced' = forced \cup {d}
    /\ UNCHANGED <<at, api, disk, agents, faults>>

\* A connection's loop ends: the client is gone and its requests are answered,
\* or the shutdown token is cancelled.
HangUp(d) ==
    /\ at[d] \in {"serving"} \cup Ending
    /\ \E k \in Open(d) :
          /\ (~k.held /\ k.is # "open") \/ stopping[d] # "no"
          /\ conns' = Hangup(conns, {k})
    /\ UNCHANGED <<daemon, disk, agents, faults>>

\* The end of an agent, recorded in the store; its token is a child of the
\* daemon's shutdown token.
AgentEnds(c) ==
    /\ live[c] # Nobody
    /\ live' = [live EXCEPT ![c] = Nobody] /\ row' = [row EXCEPT ![c] = "ended"]
    /\ UNCHANGED <<daemon, disk, conns, faults>>

(* Reasons to stop. *)

\* The idle timer finds no connection and no running agent (idle_for).
IdleStops(d) ==
    /\ timer /\ at[d] = "serving" /\ stopping[d] = "no"
    /\ Open(d) = {} /\ \A c \in Clients : live[c] # d
    /\ Stopped(d, "idle")
    /\ UNCHANGED <<at, api, forced, disk, conns, agents, faults>>

\* SIGTERM, SIGHUP or SIGINT once the watchers are up.
Signal(d) ==
    /\ at[d] = "serving" /\ stopping[d] = "no" /\ Fault
    /\ Stopped(d, "signal")
    /\ UNCHANGED <<at, api, forced, disk, conns, agents>>

(* The ordered shutdown. *)

\* Faulty: the lock is given up with the listener.
StopAcceptingUnlocked(d) ==
    /\ at[d] = "serving" /\ stopping[d] # "no" /\ Goto(d, "draining")
    /\ sock' = Nobody /\ lock' = Nobody
    /\ conns' = Hangup(conns, {k \in conns : k.to = d /\ k.is = "queued"})
    /\ UNCHANGED <<api, stopping, forced, file, agents, faults>>

\* accept_loop returns and the listener is dropped, with the connections it has
\* not accepted.
StopAccepting(d) ==
    /\ at[d] = "serving" /\ stopping[d] # "no" /\ Goto(d, "draining")
    /\ sock' = Nobody
    /\ conns' = Hangup(conns, {k \in conns : k.to = d /\ k.is = "queued"})
    /\ UNCHANGED <<api, stopping, forced, lock, file, agents, faults>>

\* finish: tracker.wait, unless forced; its timeout is DrainTimeout.
Drained(d) ==
    /\ at[d] = "draining" /\ Goto(d, "closing")
    /\ d \in forced \/ Open(d) = {}
    /\ UNCHANGED <<api, stopping, forced, disk, conns, agents, faults>>

DrainTimeout(d) ==
    /\ at[d] = "draining" /\ d \notin forced /\ Open(d) # {} /\ Goto(d, "closing")
    /\ UNCHANGED <<api, stopping, forced, disk, conns, agents, faults>>

\* Faulty: the lock is given up before the runtime is shut down.
CloseAndUnlock(d) ==
    /\ at[d] = "closing" /\ Goto(d, "unlisted")
    /\ file' = Nobody /\ lock' = Nobody
    /\ UNCHANGED <<api, stopping, forced, sock, conns, agents, faults>>

\* AppState::close: the agents have ended, or AGENT_DRAIN_TIMEOUT passed; the
\* trace writer is flushed and stopped.  Then DaemonInfo::remove, whoever the
\* file names.
CloseAndUnlist(d) ==
    /\ at[d] = "closing" /\ Goto(d, "unlisted")
    /\ file' = Nobody
    /\ UNCHANGED <<api, stopping, forced, lock, sock, conns, agents, faults>>

\* runtime.shutdown_timeout drops the tasks that are left.
ShutRuntime(d) ==
    /\ at[d] = "unlisted" /\ Goto(d, "quiet")
    /\ HangupAll(d)
    /\ live' = [c \in Clients |-> Release(live[c], d)]
    /\ UNCHANGED <<api, stopping, forced, disk, row, faults>>

\* The lock is dropped and main returns.
Unlock(d) ==
    /\ at[d] = "quiet" /\ Goto(d, "exited")
    /\ lock' = Nobody
    /\ UNCHANGED <<api, stopping, forced, file, sock, conns, agents, faults>>

\* Faulty: the deadline is for the connections only.
WatchdogOfDrain(d) ==
    /\ at[d] = "draining"
    /\ Vanish(d, "killed") /\ UNCHANGED faults

\* The thread finish starts: HARD_DEADLINE, then process::exit(1).
Watchdog(d) ==
    /\ at[d] \in Ending
    /\ Vanish(d, "killed") /\ UNCHANGED faults

\* A crash, or a signal before the watchers are up.
Kill(d) ==
    /\ at[d] \in Running /\ Fault
    /\ Vanish(d, "killed")

DaemonStep(d) ==
    /\ \/ Acquire(d) \/ OpenAndListen(d) \/ WriteInfo(d) \/ StartFails(d)
       \/ Accept(d) \/ Answer(d) \/ HangUp(d)
       \/ IdleStops(d) \/ Signal(d)
       \/ StopAccepting(d) \/ Drained(d) \/ DrainTimeout(d)
       \/ CloseAndUnlist(d) \/ ShutRuntime(d) \/ Unlock(d) \/ Watchdog(d) \/ Kill(d)
    /\ UNCHANGED <<client, timer>>
=============================================================================
