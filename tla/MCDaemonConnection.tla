------------------------- MODULE MCDaemonConnection -------------------------
(* Small instances of DaemonConnection for TLC. *)
EXTENDS DaemonConnection, TLC

CONSTANTS hello, streamer, other

ThreeRequests == {hello, streamer, other}
Ask(one, two) == hello :> "hello" @@ streamer :> one @@ other :> two
Asked == {Ask("run", "shutdown"), Ask("run", "unknown"), Ask("subscribe", "long")}
OneSplit == {streamer}
NotLater == {hello, other}
=============================================================================
