----------------------------- MODULE MultiplexGame ----------------------------
(***************************************************************************)
(* The process launcher of the wrapper: internal/multiplexgame starts one  *)
(* game server process for the session through pkg/process and waits for   *)
(* it; other goroutines call Stop and HealthCheck.  Nothing synchronises   *)
(* them: Stop reads the fields cancel, stdout and stderr, HealthCheck      *)
(* writes status, while Run assigns them.                                  *)
(*                                                                         *)
(* Run is composed with what it sets up for the game: the credential       *)
(* server, and the log stream of its output (stdout and stderr are alike   *)
(* and one stands for both).                                               *)
(***************************************************************************)
EXTENDS Naturals

CONSTANTS
    Stoppers,    \* the goroutines that may call Stop
    Requests,    \* the game's requests for credentials
    MaxWrites    \* bound: writes of the game's output

VARIABLES
    \* The fields of MultiplexGame and of its process.
    status,       \* "unset" until Init
    cancelSet,    \* cancel # nil
    cmd,          \* process.cmd: "nil", "made", "up", "dead" or, waited for, "reaped"
    \* Run, its error, and the context it gives to process.Run.
    runPc, runErr, ctxDone,
    stopPc,       \* the goroutines that call Stop
    \* Environment: how the operating system's process ended, whether a descendant of it
    \* holds its output pipe, and whether the wrapper still copies from the pipe.
    exit, heirs, copying,
    \* The credential server and the log stream.
    listening, inFlight,
    logs, inFile, unread, partial, scanEnded, logged, writes, ragged

Cred == INSTANCE CredServer
Log  == INSTANCE BufferedLogger

runVars == <<status, cancelSet, cmd, runPc, runErr, ctxDone>>
osVars == <<exit, heirs, copying>>
logVars == <<logs, inFile, unread, partial, scanEnded, logged, writes, ragged>>
credVars == <<listening, inFlight>>
vars == <<runVars, stopPc, osVars, credVars, logVars>>

Init ==
    /\ status = "unset" /\ cancelSet = FALSE /\ cmd = "nil"
    /\ runPc = "uninit" /\ runErr = FALSE /\ ctxDone = FALSE
    /\ stopPc = [s \in Stoppers |-> "idle"]
    /\ exit = "none" /\ heirs = FALSE /\ copying = FALSE
    /\ Cred!CredInit /\ Log!LogInit

-----------------------------------------------------------------------------
(* Init and Run.                                                           *)

InitGame ==
    /\ runPc = "uninit"
    /\ status' = "waiting" /\ runPc' = "idle"
    /\ UNCHANGED <<cancelSet, cmd, runErr, ctxDone, stopPc, osVars, credVars, logVars>>

\* A step of Run that changes no other field of the launcher.
Proceed(from, to) ==
    /\ runPc = from /\ runPc' = to
    /\ UNCHANGED <<status, cancelSet, cmd, ctxDone, stopPc>>

CallRun ==
    /\ Proceed("idle", "setup")
    /\ UNCHANGED <<runErr, osVars, credVars, logVars>>

\* Invalid game port, working directory or executable.  A failed Route 53 mapping is
\* only logged.
SetupFails ==
    /\ Proceed("setup", "returned")
    /\ runErr' = TRUE
    /\ UNCHANGED <<osVars, credVars, logVars>>

\* From here on Stop has an effect, and a return cancels the context.
SetCancel ==
    /\ runPc = "setup"
    /\ cancelSet' = TRUE /\ runPc' = "configure"
    /\ UNCHANGED <<status, cmd, runErr, ctxDone, stopPc, osVars, credVars, logVars>>

\* The return of Run, and its deferred cancel.
Returns(err) == runPc' = "returned" /\ runErr' = err /\ ctxDone' = TRUE

\* The arguments or the credential server.
ConfigureFails ==
    /\ runPc = "configure"
    /\ Returns(TRUE)
    /\ UNCHANGED <<status, cancelSet, cmd, stopPc, osVars, credVars, logVars>>

\* The credential server runs if the session has a fetcher.
StartCredServer ==
    /\ Proceed("configure", "prepare")
    /\ Cred!Serve \/ UNCHANGED credVars
    /\ UNCHANGED <<runErr, osVars, logVars>>

\* Environment, executable or log streams.
PrepareFails ==
    /\ Proceed("prepare", "stopserver")
    /\ runErr' = TRUE
    /\ UNCHANGED <<osVars, credVars, logVars>>

CreateLogStreams ==
    /\ Proceed("prepare", "launch")
    /\ Log!Open
    /\ UNCHANGED <<runErr, osVars, credVars>>

\* The goroutine of Run; then process.Run makes the command and sleeps for DelayStart.
Launch ==
    /\ runPc = "launch"
    /\ status' = "running" /\ cmd' = "made" /\ runPc' = "start"
    /\ UNCHANGED <<cancelSet, runErr, ctxDone, stopPc, osVars, credVars, logVars>>

\* cmd.Start refuses a context that is done.
Start ==
    /\ runPc = "start"
    /\ ~ctxDone
    /\ cmd' = "up" /\ copying' = TRUE /\ runPc' = "wait"
    /\ UNCHANGED <<status, cancelSet, runErr, ctxDone, stopPc, exit, heirs, credVars, logVars>>

\* Mutant: the error of cmd.Start is only logged.
StartFailsLoggedOnly ==
    /\ Proceed("start", "wait")
    /\ UNCHANGED <<runErr, osVars, credVars, logVars>>

StartFails ==
    /\ Proceed("start", "settle")
    /\ runErr' = TRUE
    /\ UNCHANGED <<osVars, credVars, logVars>>

\* Mutant: a killed process is an error.
ReapErrorsKilled == {exit # "ok"}

\* A process that was killed is no error.  One that exited with 0 may be, if the cancelled
\* context tried to kill it.
ReapErrors ==
    IF exit = "ok" THEN {FALSE, ctxDone} ELSE {exit \in {"failed", "signalled"}}

\* The first half of cmd.Wait, up to the end of the child.  Later cancellations have no
\* effect on it.
Reap ==
    /\ runPc = "wait"
    /\ cmd = "dead"
    /\ cmd' = "reaped" /\ runErr' \in ReapErrors /\ runPc' = "copy"
    /\ UNCHANGED <<status, cancelSet, ctxDone, stopPc, osVars, credVars, logVars>>

\* Mutant: Wait does not wait for the output.
WaitNoCopy ==
    /\ Proceed("copy", "settle")
    /\ UNCHANGED <<runErr, copying, exit, heirs, credVars, logVars>>

\* The second half: the pipe has ended, because no one holds it or because copying from
\* it failed, which is an error of a process that exited with 0.
Wait ==
    /\ Proceed("copy", "settle")
    /\ ~heirs \/ ~copying
    /\ runErr' = (runErr \/ (exit = "ok" /\ ~copying))
    /\ copying' = FALSE
    /\ UNCHANGED <<exit, heirs, credVars, logVars>>

Settle ==
    /\ runPc = "settle"
    /\ status' = (IF runErr THEN "errored" ELSE "finished") /\ runPc' = "stopserver"
    /\ UNCHANGED <<cancelSet, cmd, runErr, ctxDone, stopPc, osVars, credVars, logVars>>

\* Deferred calls run backwards: the credential server is stopped, with the context of
\* Run, before that context is cancelled.
StopCredServer ==
    /\ Proceed("stopserver", "drain")
    /\ Cred!Shutdown
    /\ UNCHANGED <<runErr, osVars, logVars>>

Return ==
    /\ runPc = "drain"
    /\ Cred!Drained(ctxDone)
    /\ Returns(runErr)
    /\ UNCHANGED <<status, cancelSet, cmd, stopPc, osVars, credVars, logVars>>

-----------------------------------------------------------------------------
(* HealthCheck and Stop.                                                   *)

\* Exited() is false of a process that a signal ended.
HealthCheck ==
    /\ cmd = "reaped" /\ exit \in {"ok", "failed"}
    /\ status' = "finished"
    /\ UNCHANGED <<cancelSet, cmd, runPc, runErr, ctxDone, stopPc, osVars, credVars, logVars>>

\* Without a cancel function to call, the first half of Stop does nothing.
CallStop(s) ==
    /\ stopPc[s] = "idle" /\ runPc # "uninit"
    /\ ctxDone' = (ctxDone \/ cancelSet)
    /\ stopPc' = [stopPc EXCEPT ![s] = "logs"]
    /\ UNCHANGED <<status, cancelSet, cmd, runPc, runErr, osVars, credVars, logVars>>

CloseLogs(s) ==
    /\ stopPc[s] = "logs"
    /\ Log!Close
    /\ stopPc' = [stopPc EXCEPT ![s] = "returned"]
    /\ UNCHANGED <<runVars, osVars, credVars>>

-----------------------------------------------------------------------------
(* The operating system and the game.                                      *)

\* The game exits, crashes by a signal, or something else than the wrapper kills it.
ProcessEnds ==
    /\ cmd = "up"
    /\ cmd' = "dead" /\ exit' \in {"ok", "failed", "signalled", "killed"}
    /\ UNCHANGED <<status, cancelSet, runPc, runErr, ctxDone, stopPc, heirs, copying, credVars,
                   logVars>>

\* The context of the command is done: SIGKILL, for the child alone.
Kill ==
    /\ cmd = "up"
    /\ ctxDone
    /\ cmd' = "dead" /\ exit' = "killed"
    /\ UNCHANGED <<status, cancelSet, runPc, runErr, ctxDone, stopPc, heirs, copying, credVars,
                   logVars>>

\* A game started by a script, or with helpers of its own, leaves processes that inherit
\* its output.
Fork ==
    /\ cmd = "up"
    /\ heirs' = TRUE
    /\ UNCHANGED <<runVars, stopPc, exit, copying, credVars, logVars>>

HeirsEnd ==
    /\ heirs
    /\ heirs' = FALSE
    /\ UNCHANGED <<runVars, stopPc, exit, copying, credVars, logVars>>

\* Output, until the pipe ends; the first that finds the file closed ends the copying.
Output ==
    /\ copying
    /\ \/ \E k \in Log!Chunk : Log!Write(k) /\ copying' = copying
       \/ Log!WriteFails /\ copying' = FALSE
    /\ UNCHANGED <<runVars, stopPc, exit, heirs, credVars>>

\* Whoever knows the token may ask: the game, and what it leaves behind.
FetchCredentials ==
    /\ cmd # "nil"
    /\ \E r \in Requests : Cred!BeginRequest(r)
    /\ UNCHANGED <<runVars, stopPc, osVars, logVars>>

CredentialsAnswered ==
    /\ \E r \in Requests : Cred!EndRequest(r)
    /\ UNCHANGED <<runVars, stopPc, osVars, logVars>>

-----------------------------------------------------------------------------

RunStep ==
    \/ SetupFails \/ SetCancel \/ ConfigureFails \/ StartCredServer \/ PrepareFails
    \/ CreateLogStreams \/ Launch \/ Start \/ StartFails \/ Reap \/ Wait \/ Settle
    \/ StopCredServer \/ Return

Next ==
    \/ InitGame \/ CallRun \/ RunStep \/ HealthCheck
    \/ ProcessEnds \/ Kill \/ Fork \/ HeirsEnd \/ Output
    \/ FetchCredentials \/ CredentialsAnswered
    \/ \E s \in Stoppers : CallStop(s) \/ CloseLogs(s)

Spec == Init /\ [][Next]_vars

\* The goroutines are scheduled and a killed process dies; a game and its descendants may
\* run, and a request for credentials or of the Route 53 mapping may take, for ever.
FairSpec ==
    /\ Spec
    /\ WF_vars(RunStep /\ runPc # "setup") /\ WF_vars(Kill)
    /\ \A s \in Stoppers : WF_vars(CloseLogs(s))

-----------------------------------------------------------------------------
(* Properties.                                                             *)

\* Run reports how the game ended: a crash is an error, being killed by Stop is none,
\* and a clean exit is an error only if a Stop interfered with it.
OutcomeReported ==
    runPc = "returned" /\ cmd = "reaped" =>
        /\ exit \in {"failed", "signalled"} => runErr
        /\ exit = "killed" => ~runErr
        /\ exit = "ok" /\ runErr => \E s \in Stoppers : stopPc[s] # "idle"

\* When Run has returned no game process is left, nor, unless a Stop closed the log under
\* it, a descendant with its output; if there was one, the status GameLift polls is a final
\* one, also for a game that was killed.
NothingRunsAfterRun ==
    runPc = "returned" =>
        /\ cmd \notin {"up", "dead"}
        /\ heirs => \E s \in Stoppers : stopPc[s] = "returned"
        /\ cmd = "reaped" => status \in {"errored", "finished"}

\* When Run has returned the game gets no more credentials: nobody is served, and no
\* request is in flight unless a Stop cut the shutdown of the server short.
CredentialsEnd ==
    runPc = "returned" =>
        /\ ~listening
        /\ inFlight # {} => \E s \in Stoppers : stopPc[s] # "idle"

\* The log is never ahead of the file, and complete for a game that writes line by line;
\* otherwise it lags behind by the lines that came along with others, and an unfinished
\* line may end it for good.
LogFollowsFile ==
    /\ logged <= inFile
    /\ ~scanEnded => logged = writes
    /\ ~ragged => logged = inFile

\* A Stop that found the cancel function ends Run, and so does the end of the game if the
\* requests for credentials are answered; both only when no descendant of the game holds
\* its output for ever, because Wait waits for that and the kill reaches the child alone.
RunEnds ==
    []<>(~heirs) =>
        /\ ctxDone ~> runPc = "returned"
        /\ []<>(inFlight = {}) => (cmd = "dead" ~> runPc = "returned")

\* multiplexgame.go:296 "Stop gracefully stops the game server and performs cleanup
\* operations. It handles the shutdown of all components"
StopStopsGame == \A s \in Stoppers : stopPc[s] = "returned" ~> [](cmd # "up")
=============================================================================
