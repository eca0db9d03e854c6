-------------------------------- MODULE Session -------------------------------
(***************************************************************************)
(* What the wrapper promises Amazon GameLift and the operator about one    *)
(* game session, whatever its goroutines do: what GameLift is told and     *)
(* when a game may run in between.  Wrapper implements it.                 *)
(*                                                                         *)
(* GameLift may take the host away once it heard ProcessEnding.  What the  *)
(* wrapper begins after that is lost, and it can begin something only if   *)
(* the end was asked for while that was on its way.                        *)
(***************************************************************************)

VARIABLES
    announced, activated, ended, left,   \* ProcessReady, ActivateGameSession, ProcessEnding, Destroy
    notified,      \* the orchestration service was told of a session, or need not be
    terminating,   \* GameLift asked the process to terminate
    signalled,     \* so did a signal
    game,          \* game.Run: "idle", "starting", "up" or "down"
    saved,         \* the shutdown's quicksave and game.Stop are over
    process        \* "alive", "done" (exit code 0), "failed" or "crashed"

vars == <<announced, activated, ended, left, notified, terminating, signalled, game, saved, process>>

Init ==
    /\ ~announced /\ ~activated /\ ~ended /\ ~left
    /\ ~notified /\ ~terminating /\ ~signalled
    /\ game = "idle" /\ ~saved /\ process = "alive"

Signal ==
    /\ signalled' = TRUE
    /\ UNCHANGED <<announced, activated, ended, left, notified, terminating, game, saved, process>>

\* After ProcessEnding only if a signal ended a wrapper that was about to be ready.
Announce ==
    /\ ended => signalled
    /\ announced' = TRUE
    /\ UNCHANGED <<activated, ended, left, notified, terminating, signalled, game, saved, process>>

\* GameLift calls back a process that it knows.
Terminate ==
    /\ announced
    /\ terminating' = TRUE
    /\ UNCHANGED <<announced, activated, ended, left, notified, signalled, game, saved, process>>

AskedToEnd == terminating \/ signalled

Notify ==
    /\ announced
    /\ notified' = TRUE
    /\ UNCHANGED <<announced, activated, ended, left, terminating, signalled, game, saved, process>>

Activate ==
    /\ notified /\ ~activated
    /\ ended => AskedToEnd
    /\ activated' = TRUE
    /\ UNCHANGED <<announced, ended, left, notified, terminating, signalled, game, saved, process>>

\* One game, for a session that is active.
StartGame ==
    /\ activated /\ game = "idle"
    /\ ended => AskedToEnd
    /\ game' = "starting"
    /\ UNCHANGED <<announced, activated, ended, left, notified, terminating, signalled, saved, process>>

GameGoesOn ==
    /\ \/ game = "starting" /\ game' = "up"
       \/ game \in {"starting", "up"} /\ game' = "down"
    /\ UNCHANGED <<announced, activated, ended, left, notified, terminating, signalled, saved, process>>

\* The shutdown begins when it was asked for or the game is over.
SaveAndStop ==
    /\ AskedToEnd \/ game = "down"
    /\ saved' = TRUE
    /\ UNCHANGED <<announced, activated, ended, left, notified, terminating, signalled, game, process>>

\* After the game was saved and told to stop.
EndProcess ==
    /\ saved /\ ~ended
    /\ ended' = TRUE
    /\ UNCHANGED <<announced, activated, left, notified, terminating, signalled, game, saved, process>>

Leave ==
    /\ ended /\ ~left
    /\ left' = TRUE
    /\ UNCHANGED <<announced, activated, ended, notified, terminating, signalled, game, saved, process>>

\* Exit code 0 means a complete shutdown.
Exit ==
    /\ \/ left /\ process' = "done"
       \/ process' \in {"failed", "crashed"}
    /\ UNCHANGED <<announced, activated, ended, left, notified, terminating, signalled, game, saved>>

Next ==
    /\ process = "alive"
    /\ \/ Announce \/ Notify \/ Activate \/ StartGame \/ GameGoesOn
       \/ Terminate \/ Signal \/ SaveAndStop \/ EndProcess \/ Leave \/ Exit

Spec == Init /\ [][Next]_vars
=============================================================================
