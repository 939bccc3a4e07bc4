--------------------------------- MODULE Chat ---------------------------------
(***************************************************************************)
(* The window, the daemon and the bridge between them, and what a chat     *)
(* promises of the sessions it shows.                                      *)
(***************************************************************************)
EXTENDS ChatEffects

Unanswered(i) == left.unanswered /\ i = Len(left.past)

Init ==
    /\ left \in Scenes
    /\ rows = [s \in Sessions |-> FlattenSeq([i \in DOMAIN left.past |->
          CASE left.past[i] # s -> << >>
            [] left.past[i] = s /\ Unanswered(i) -> <<Row("user", i, 1)>>
            [] OTHER -> <<Row("user", i, 1), Row("assistant", i, 1)>>])]
    /\ agents = [a \in Agents |->
          IF a \in DOMAIN left.past
          THEN [NoRun EXCEPT !.session = left.past[a], !.at = "told",
                                !.status = IF Unanswered(a) THEN "error" ELSE "ok"]
          ELSE NoRun]
    /\ connected = TRUE
    /\ copies = [a \in Agents |-> 0]
    /\ stream = [a \in Agents |-> NoChannel]
    /\ requests = {}
    /\ transcripts = [s \in Sessions |->
          IF s \in ToSet(left.open)
          THEN mergeStored(EmptyTranscript,
                  [PageOf("newest", s, 0) EXCEPT !.statuses = StatusesOf(s)], "newest")
          ELSE NoTranscript]
    /\ order = left.open /\ chats = left.open /\ pending = {}
    /\ queued = [s \in Sessions |-> << >>]
    /\ listeners = [s \in Sessions |-> NoChannel]
    /\ heard = {}
    /\ sawEnd = {}

\* What goes on of itself: runs, subscriptions, calls, the window's awaits and
\* timers, the connection manager.
Proceeds ==
    \/ \E a \in Agents : RunSteps(a) \/ Expire(a)
    \/ \E r \in requests : Serve(r) \/ Resume(r)
    \/ \E s \in Sessions : Flush(s)
    \/ Regain

\* What the users of the window and of another client do, and what breaks.
Happens ==
    \/ \E s \in Sessions :
          \/ ShowSession(s) \/ ReloadSession(s) \/ LoadOlder(s)
          \/ Send(s) \/ Cancel(s) \/ RunElsewhere(s)
    \/ \E a \in Agents : Respond(a)
    \/ ReloadWebview \/ Lose

Next == Proceeds \/ Happens

\* Each runtime polls what is ready.  Nothing here can be undone, so what is
\* ready is dealt with if anything is.
Fairness == WF_vars(Proceeds)

Spec == Init /\ [][Next]_vars /\ Fairness

-----------------------------------------------------------------------------
(* Properties. *)

RowShape == [role : {"user", "assistant"}, agent : Agents, turns : Nat]
StatusShape == {"none", "running"} \cup Ended
EventShape == [agent : Agents, type : EventTypes, n : Nat,
               status : StatusShape \cup {"text", "call", "allowed", "denied"}]

TypeOK ==
    /\ \A s \in Sessions : rows[s] \in Seq(RowShape)
    /\ \A a \in Agents :
          /\ agents[a].status \in StatusShape /\ agents[a].at \in Places
          /\ copies[a] \in Nat /\ stream[a] \in Nat
    /\ \A r \in requests :
          /\ r.kind \in Kinds /\ r.session \in Sessions
          /\ r.stage \in {"listen", "sent", "read", "answered", "failed"}
    /\ \A s \in Sessions :
          /\ queued[s] \in Seq(EventShape) /\ listeners[s] \in Nat
          /\ transcripts[s].known =>
                /\ transcripts[s].live.phase \in Phases
                /\ transcripts[s].turns \in [Agents -> StatusShape]
    /\ ToSet(chats) \cup ToSet(order) \subseteq Sessions
    /\ pending \subseteq Agents /\ sawEnd \subseteq Agents

\* The runs of a session, and that nothing is under way about it.
RunsOf(s) == {a \in Agents : agents[a].at # "none" /\ agents[a].session = s}
Quiet(s) ==
    /\ \A r \in requests : r.session # s
    /\ queued[s] = << >>
    /\ \A a \in RunsOf(s) : agents[a].at = "told"

\* This page has been told of the end of the session's last run.
SawTheEnd(s) ==
    transcripts[s].known /\ RunsOf(s) # {} /\ Newest(RunsOf(s)) \in sawEnd

\* send, flush, finish: a chat does not stay busy once there is nothing more to
\* come; if the connection goes, the bridge makes up the end.
BusyEnds ==
    \A s \in Sessions : isBusy(transcripts[s]) ~> ~isBusy(transcripts[s])

\* A chat that is busy listens, or is about to.
BusyListens ==
    \A s \in Sessions :
        isBusy(transcripts[s]) =>
            \/ listeners[s] # NoChannel
            \/ \E r \in requests : r.session = s /\ r.kind \in {"run", "subscribe"}

\* finish and refresh: when a run has been seen to end and all is quiet, the
\* chat shows the rows that are stored, as they are stored; but after several
\* runs a prompt that grew may be shown as an answer that was late had it.
EndShowsAll ==
    \A s \in Sessions :
        Quiet(s) /\ SawTheEnd(s) =>
            LET t == transcripts[s]
            IN  /\ maxSeq(t) = Len(rows[s])
                /\ \A q \in DOMAIN t.messages :
                      \/ t.messages[q] = rows[s][q]
                      \/ /\ rows[s][q].turns > 1
                         /\ Cardinality(sawEnd \cap RunsOf(s)) > 1

\* ... and how each run it saw end has ended.
EndShowsStatus ==
    \A s \in Sessions :
        Quiet(s) /\ SawTheEnd(s) =>
            \A a \in RunsOf(s) \cap sawEnd :
                transcripts[s].turns[a] = agents[a].status

\* mergeStored: rows are contiguous from the oldest loaded, and no refresh and
\* no older page opens a hole between them.
Contiguous(t) ==
    t.known /\ DOMAIN t.messages # {} =>
        DOMAIN t.messages = Oldest(DOMAIN t.messages) .. maxSeq(t)
PagesJoin ==
    [][\A s \in Sessions :
          Contiguous(transcripts[s]) /\ ~Contiguous(transcripts'[s])
          => \E r \in requests \ requests' : r.kind = "newest"]_vars

\* turnFromSummary: a run that is shown as ended is never shown as running.
NeverBack ==
    [][\A s \in Sessions, a \in Agents :
          /\ transcripts[s].known /\ transcripts'[s].known
          /\ transcripts[s].turns[a] \in Ended
          => transcripts'[s].turns[a] \in Ended]_vars

\* applyPermissionEvent, respondPermission: when all that the daemon said of a
\* run has come, the dialogs shown of it are of open requests, or answered here.
DialogsCurrent ==
    \A a \in pending :
        LET s == agents[a].session
            follows == listeners[s] # NoChannel /\ stream[a] = listeners[s]
        IN  queued[s] = << >> /\ (follows \/ a \in sawEnd) =>
                \/ agents[a].at = "asking"
                \/ \E r \in requests : r.kind = "respond" /\ r.agent = a

\* No call of an ended run spins.
NothingSpins ==
    \A s \in Sessions :
        Quiet(s) /\ SawTheEnd(s) =>
            \A a \in RunsOf(s) : transcripts[s].calls[a] # "running"

\* What the chat of a session shows is what there is.
ChatShows ==
    TypeOK /\ BusyListens /\ EndShowsAll /\ EndShowsStatus /\ DialogsCurrent /\ NothingSpins

\* What it has shown it does not take back.
ShownStays == NeverBack /\ PagesJoin
=============================================================================
