-------------------------------- MODULE MCChat --------------------------------
(* Small instances of Chat for TLC. *)
EXTENDS Chat

CONSTANTS one, other

\* A session with one run that is over, shown and loaded.
Shown == [f \in {"sends", "elsewhere", "shows", "reloads", "olders", "cancels",
                 "asks", "webviews", "losses"} |-> 0]
            @@ [steps |-> 1, past |-> <<one>>, unanswered |-> FALSE, open |-> <<one>>]

Scenes12 == {
    \* A run is cancelled, asks for permission, or both.
    [Shown EXCEPT !.sends = 1, !.cancels = 1, !.steps = 2],
    [Shown EXCEPT !.sends = 1, !.asks = 1, !.steps = 2],
    [Shown EXCEPT !.sends = 1, !.cancels = 1, !.asks = 1],
    \* One run after another, the second in the same prompt or in a new one.
    [Shown EXCEPT !.sends = 2],
    [Shown EXCEPT !.sends = 1, !.unanswered = TRUE],
    \* The webview is loaded again during a run, and the chat shown again.
    [Shown EXCEPT !.sends = 1, !.webviews = 1, !.shows = 1],
    \* The connection is lost during a run, and the chat loaded again.
    [Shown EXCEPT !.sends = 1, !.losses = 1, !.reloads = 1],
    \* Another session is shown, and the first again.
    [Shown EXCEPT !.sends = 1, !.shows = 2],
    \* A run of another client is found when the chat is loaded again.
    [Shown EXCEPT !.elsewhere = 1, !.reloads = 1, !.steps = 2],
    [Shown EXCEPT !.elsewhere = 1, !.reloads = 2],
    [Shown EXCEPT !.elsewhere = 1, !.sends = 1],
    \* The rows do not fit a page.
    [Shown EXCEPT !.sends = 1, !.olders = 1, !.past = <<one, one, one>>,
                  !.steps = 2]
    }
=============================================================================
