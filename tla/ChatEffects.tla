------------------------------ MODULE ChatEffects ------------------------------
(***************************************************************************)
(* The effects behind the chat view, after apps/gui/src/lib/chat.ts, the   *)
(* stores it writes and showSession of lib/sessions.ts.  The window has    *)
(* one thread: a step runs to the next await, which is a request here.     *)
(***************************************************************************)
EXTENDS ChatDaemon

Of(s) == IF transcripts[s].known THEN transcripts[s] ELSE EmptyTranscript

\* update: a session without a transcript gets one unless nothing changes.
With(s, t) ==
    [transcripts EXCEPT ![s] = IF t = EmptyTranscript /\ ~@.known THEN @ ELSE t]
Update(s, t) == transcripts' = With(s, t)

\* stopListening.
Deaf(s) == heard \ {<<listeners[s], s>>}
StopListening(s) ==
    /\ heard' = Deaf(s)
    /\ listeners' = [listeners EXCEPT ![s] = NoChannel]

Ask1(r) == requests' = requests \cup {r}
Then(r, more) == requests' = (requests \ {r}) \cup more
Done(r) == Then(r, {})

\* Faulty: only the rows after the last known are read.
RefreshAfter(s, t, closing) ==
    [Request("refresh", s) EXCEPT !.from = maxSeq(t), !.closing = closing]

\* refresh reads the last known row again: it may have grown.
RefreshOf(s, t, closing) ==
    LET last == maxSeq(t)
    IN  [Request("refresh", s) EXCEPT
            !.from = IF last = 0 THEN 0 ELSE last - 1, !.closing = closing]

-----------------------------------------------------------------------------
(* Showing a session. *)

\* touch: the sessions shown last are kept, and those with a run in flight.
Touched(s) == Append(SelectSeq(order, LAMBDA x : x # s), s)
Kept(ord, n) == {ord[i] : i \in {j \in DOMAIN ord : j > Len(ord) - n}}
Evicted(ord, ts) ==
    {x \in ToSet(ord) \ Kept(ord, Keep) : ts[x].known /\ ~isBusy(ts[x])}

\* openChat: idle chats beyond MaxChats go, the oldest first.
Opened(s) ==
    IF s \in ToSet(chats)
    THEN [kept |-> chats, gone |-> {}]
    ELSE LET extra == IF Len(chats) + 1 > MaxChats THEN Len(chats) + 1 - MaxChats ELSE 0
             idle == SelectSeq(chats, LAMBDA x : ~isBusy(transcripts[x]))
             gone == {idle[i] : i \in {j \in DOMAIN idle : j <= extra}}
         IN  [kept |-> Append(SelectSeq(chats, LAMBDA x : x \notin gone), s),
              gone |-> gone]

\* Assumed of the user: no chat is closed to make room while a call of its
\* session is under way, whose answer would bring part of it back.
Undisturbed(gone) == \A r \in requests : r.session \notin gone

\* showSession: closed chats are forgotten, the session is touched, and loaded
\* unless it is in memory or on its way.
ShowSession(s) ==
    LET open == Opened(s)
        rest == [x \in Sessions |->
                    IF x \in open.gone THEN NoTranscript ELSE transcripts[x]]
        ord == SelectSeq(Touched(s), LAMBDA x : x \notin open.gone)
        lost == Evicted(ord, rest)
        t == IF rest[s].known THEN rest[s] ELSE EmptyTranscript
        load == ~t.info /\ ~t.loading
    IN  /\ Spend("shows")
        /\ Undisturbed(open.gone \cup lost)
        /\ chats' = open.kept
        /\ sawEnd' = {a \in sawEnd : agents[a].session \notin open.gone \cup lost}
        /\ transcripts' = [x \in Sessions |->
              CASE x = s -> IF load THEN loadingTranscript(t) ELSE t
                [] x \in lost -> NoTranscript
                [] OTHER -> rest[x]]
        /\ order' = SelectSeq(ord, LAMBDA x : x \notin lost)
        /\ heard' = heard \ {<<listeners[x], x>> : x \in open.gone}
        /\ listeners' = [x \in Sessions |->
              IF x \in open.gone THEN NoChannel ELSE listeners[x]]
        /\ queued' = [x \in Sessions |->
              IF x \in open.gone THEN << >> ELSE queued[x]]
        /\ IF load THEN Ask1(Sent(Request("newest", s))) ELSE UNCHANGED requests
        /\ UNCHANGED <<daemon, wire, pending>>

\* The chat's reload button.
ReloadSession(s) ==
    /\ Spend("reloads")
    /\ s \in ToSet(chats) /\ ~Of(s).loading
    /\ Update(s, loadingTranscript(Of(s)))
    /\ Ask1(Sent(Request("newest", s)))
    /\ UNCHANGED <<daemon, wire, tabs, pending, ears>>

LoadOlder(s) ==
    LET t == transcripts[s]
    IN  /\ Spend("olders")
        /\ t.known /\ ~t.loading /\ t.hasOlder /\ DOMAIN t.messages # {}
        /\ Update(s, loadingTranscript(t))
        /\ Ask1(Sent([Request("older", s) EXCEPT !.from = Oldest(DOMAIN t.messages)]))
        /\ UNCHANGED <<daemon, wire, tabs, pending, ears>>

-----------------------------------------------------------------------------
(* The answers of session.get. *)

\* reloadSession follows a run it finds going on, unless it is following one.
GotNewest(r) ==
    LET s == r.session
        merged == mergeStored(Of(s), r.answer, "newest")
        running == {a \in DOMAIN r.answer.statuses :
                       r.answer.statuses[a] = "running"}
        a == CHOOSE x \in running : \A y \in running : x <= y
        follow == running # {} /\ ~isBusy(merged)
    IN  /\ r.kind = "newest"
        /\ r.stage \in {"answered", "failed"}
        /\ CASE r.stage = "failed" ->
                  /\ Update(s, failedLoad(Of(s))) /\ Done(r)
                  /\ UNCHANGED <<heard, listeners>>
             [] r.stage = "answered" /\ ~follow ->
                  /\ Update(s, merged) /\ Done(r)
                  /\ UNCHANGED <<heard, listeners>>
             [] r.stage = "answered" /\ follow ->
                  /\ StopListening(s)
                  /\ Update(s, attachLive(clearLive(merged), a, NoAgent))
                  /\ Then(r, {Asked([Request("subscribe", s) EXCEPT
                                 !.stage = "listen", !.agent = a,
                                 !.channel = FreshChannel])})
        /\ UNCHANGED <<left, daemon, wire, tabs, pending, queued>>

GotOlder(r) ==
    /\ r.kind = "older"
    /\ r.stage \in {"answered", "failed"}
    /\ Update(r.session, IF r.stage = "failed"
                         THEN failedLoad(Of(r.session))
                         ELSE mergeStored(Of(r.session), r.answer, "older"))
    /\ Done(r)
    /\ UNCHANGED <<left, daemon, wire, tabs, pending, ears>>

\* refresh goes on while there is more; finish then clears the overlay.
GotRefresh(r) ==
    LET s == r.session
        merged == IF r.stage = "failed" THEN Of(s)
                  ELSE mergeStored(Of(s), r.answer, "refresh")
        last == Newest(DOMAIN r.answer.rows)
        again == r.stage = "answered" /\ r.answer.more /\ last # 0
    IN  /\ r.kind = "refresh"
        /\ r.stage \in {"answered", "failed"}
        /\ Update(s, IF r.closing /\ ~again THEN clearLive(merged) ELSE merged)
        /\ Then(r, IF again
                   THEN {Sent([Request("refresh", s) EXCEPT
                                  !.from = last, !.closing = r.closing])}
                   ELSE {})
        /\ UNCHANGED <<left, daemon, wire, tabs, pending, ears>>

-----------------------------------------------------------------------------
(* Events. *)

\* applyPermissionEvent; the flush hands it every event after a terminal one.
applyPermissions(shown, events) ==
    LET step(p, ev) ==
            CASE ev.type = "request" -> p \cup {ev.agent}
              [] ev.type \in {"decision", "finished"} -> p \ {ev.agent}
              [] OTHER -> p
    IN  FoldLeft(step, shown, events)

\* Assumed of the webview: the answer of rpc_stream, given before its stream's
\* first event, does not take longer than the stream's last event and the flush
\* timer.
StreamAnswered(s) ==
    \E r \in requests : /\ r.session = s /\ r.kind \in {"run", "subscribe"}
                         /\ r.stage = "answered"

\* flush, for one session: the events that have arrived are folded in; the end
\* of the run is followed by finish, a new mentor call by a refresh.
FlushFirst(s, n) ==
    LET events == SubSeq(queued[s], 1, n)
        folded == FoldLeft(applyEvent, Of(s), events)
        finished == \E ev \in ToSet(events) : ev.type = "finished"
        stepped == \E ev \in ToSet(events) : ev.type = "step" /\ ev.n > 1
    IN  /\ finished => ~StreamAnswered(s)
        /\ queued' = [queued EXCEPT ![s] = SubSeq(@, n + 1, Len(@))]
        /\ pending' = applyPermissions(pending, events)
        /\ sawEnd' = sawEnd \cup {a \in Agents :
              connected /\ agents[a].at = "told"
              /\ \E ev \in ToSet(events) : ev.agent = a /\ ev.type = "finished"}
        /\ Update(s, folded)
        /\ IF finished THEN StopListening(s) ELSE UNCHANGED <<heard, listeners>>
        /\ IF (finished \/ stepped) /\ With(s, folded)[s].known
           THEN Ask1(Sent(RefreshOf(s, folded, finished)))
           ELSE UNCHANGED requests
        /\ UNCHANGED <<left, daemon, wire, order, chats>>

Flush(s) == \E n \in 1 .. Len(queued[s]) : FlushFirst(s, n)

-----------------------------------------------------------------------------
(* Running. *)

\* send: one prompt at a time; the channel is listened on before agent.run.
Send(s) ==
    /\ Spend("sends")
    /\ connected /\ s \in ToSet(chats) /\ ~isBusy(Of(s))
    /\ StopListening(s)
    /\ Update(s, startLive(clearLive(Of(s))))
    /\ Ask1(Asked([Request("run", s) EXCEPT
                      !.stage = "listen", !.channel = FreshChannel]))
    /\ UNCHANGED <<daemon, wire, tabs, pending, queued>>

\* subscribe(channel) has answered: the call is made.
Listened(r) ==
    /\ r.stage = "listen"
    /\ heard' = heard \cup {<<r.channel, r.session>>}
    /\ listeners' = [listeners EXCEPT ![r.session] = r.channel]
    /\ Then(r, {[r EXCEPT !.stage = IF connected THEN "sent" ELSE "failed"]})
    /\ UNCHANGED <<left, daemon, wire, view, queued>>

\* The prompt's row is stored before agent.run answers: it is read at once.
GotRun(r) ==
    LET s == r.session
        attached == attachLive(Of(s), r.agent, r.agent)
    IN  /\ r.kind = "run"
        /\ \/ /\ r.stage = "answered"
              /\ Update(s, attached)
              /\ Then(r, {Sent(RefreshOf(s, attached, FALSE))})
              /\ UNCHANGED <<heard, listeners>>
           \/ /\ r.stage = "failed"
              /\ StopListening(s)
              /\ Update(s, failLive(Of(s)))
              /\ Done(r)
        /\ UNCHANGED <<left, daemon, wire, tabs, pending, queued>>

GotSubscribe(r) ==
    LET s == r.session
    IN  /\ r.kind = "subscribe"
        /\ \/ /\ r.stage = "answered"
              /\ Update(s, attachLive(Of(s), r.agent, r.agent))
              /\ UNCHANGED <<heard, listeners>>
           \/ /\ r.stage = "failed"
              /\ StopListening(s)
              /\ Update(s, failLive(Of(s)))
        /\ Done(r)
        /\ UNCHANGED <<left, daemon, wire, tabs, pending, queued>>

Cancel(s) ==
    LET t == transcripts[s]
    IN  /\ Spend("cancels")
        /\ t.known /\ t.live.phase = "running" /\ t.live.agent # NoAgent
        /\ Update(s, cancellingLive(t))
        /\ Ask1(Sent([Request("cancel", s) EXCEPT !.agent = t.live.agent]))
        /\ UNCHANGED <<daemon, wire, tabs, pending, ears>>

GotCancel(r) ==
    /\ r.kind = "cancel"
    /\ \/ r.stage = "answered" /\ UNCHANGED transcripts
       \/ r.stage = "failed" /\ Update(r.session, resumedLive(Of(r.session)))
    /\ Done(r)
    /\ UNCHANGED <<left, daemon, wire, tabs, pending, ears>>

\* respondPermission: the dialog goes with the answer, whatever it is.
Respond(a) ==
    /\ a \in pending
    /\ \A r \in requests : r.kind = "respond" => r.agent # a
    /\ Ask1(Sent([Request("respond", agents[a].session) EXCEPT !.agent = a]))
    /\ UNCHANGED <<left, daemon, wire, view, ears>>

GotRespond(r) ==
    /\ r.kind = "respond"
    /\ r.stage \in {"answered", "failed"}
    /\ pending' = pending \ {r.agent}
    /\ Done(r)
    /\ UNCHANGED <<left, daemon, wire, transcripts, tabs, ears>>

\* The countdown of a dialog: its request has timed out by now.
Expire(a) ==
    /\ a \in pending /\ agents[a].at # "asking"
    /\ pending' = pending \ {a}
    /\ UNCHANGED <<left, daemon, wire, requests, transcripts, tabs, ears>>

Resume(r) ==
    \/ GotNewest(r) \/ GotOlder(r) \/ GotRefresh(r) \/ Listened(r) \/ GotRun(r)
    \/ GotSubscribe(r) \/ GotCancel(r) \/ GotRespond(r)

\* Calls that do something although nobody waits for them any more.
Effective == {"run", "subscribe", "cancel", "respond"}

\* The webview is loaded again: only the open chats survive (persist).
ReloadWebview ==
    /\ Spend("webviews")
    /\ transcripts' = [s \in Sessions |-> NoTranscript]
    /\ order' = << >> /\ pending' = {} /\ sawEnd' = {}
    /\ queued' = [s \in Sessions |-> << >>]
    /\ listeners' = [s \in Sessions |-> NoChannel]
    /\ heard' = {}
    /\ requests' = {[r EXCEPT !.here = FALSE] :
                       r \in {q \in requests : /\ q.stage = "sent"
                                              /\ q.kind \in Effective}}
    /\ UNCHANGED <<daemon, wire, chats>>
=============================================================================
