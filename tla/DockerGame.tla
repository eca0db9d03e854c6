------------------------------ MODULE DockerGame ------------------------------
(***************************************************************************)
(* The docker launcher of the wrapper, internal/dockergame/dockergame.go:  *)
(* a game session is a list of containers that Run starts in order, waits  *)
(* on and stops, while other goroutines of the wrapper (the harness's      *)
(* terminate goroutine, harness.Close) call Stop.                          *)
(*                                                                         *)
(* Actors: the goroutine of Run, one goroutine per container that executes *)
(* `docker run` and waits for it, the goroutines in Stoppers, the docker   *)
(* daemon, and whoever cancels the context of Run.                         *)
(***************************************************************************)
EXTENDS Integers, Sequences, FiniteSets

CONSTANTS
    N,             \* number of configured containers; they are started 1, 2, ..., N
    ReadyChecked,  \* the containers configured with a ready-check
    Stoppers,      \* the goroutines that may call Stop
    StopCanFail    \* whether `docker stop` of an existing container may fail

ASSUME ConfigAssumption ==
    /\ N \in Nat \ {0}
    /\ ReadyChecked \subseteq 1..N
    /\ "run" \notin Stoppers
    /\ StopCanFail \in BOOLEAN

Container == 1..N

VARIABLES
    \* The fields of DockerGame.
    status,      \* what HealthCheck reports; "unset" (the empty string) until Init succeeds
    started,     \* len(containers): containers 1..started were appended
    envDir,      \* the directory of the env files: "none", "present" or "removed"
    stopping,    \* the flag stopping; stopCh is closed when it is set
    runDone,     \* the channel runDone: "nil", "open" or "closed"
    once,        \* stopOnce: "fresh", "busy" (inside Do) or "done"
    closed,      \* closeOnce has run
    \* The locals of Run and of the functions it calls.
    runPc, startErr, first, joined, runErr,
    \* The locals of stopContainers, while it is inside stopOnce.Do.
    onceBy, snap, next,
    \* The goroutines that call Stop.
    stopPc, sawRun,
    \* Containers: the daemon's view, the `docker run` client, its error,
    \* and the channel on which finished containers are announced.
    box, client, failed, exited,
    logsOpen,    \* containers whose stdout and stderr loggers are open
    ctxDone,     \* the context of Run is cancelled
    \* History: containers already started when Stop was first called, the
    \* containers `docker stop` was called for, those for which it failed,
    \* those whose ready-check succeeded, and whether a stopGrace timer fired.
    atStop, asked, stopFailed, ready, expired

gameVars == <<status, started, envDir, stopping, runDone, once, closed>>
runVars  == <<runPc, startErr, first, joined, runErr>>
onceVars == <<onceBy, snap, next>>
stopVars == <<stopPc, sawRun>>
boxVars  == <<box, client, failed, exited, logsOpen>>
histVars == <<atStop, asked, stopFailed, ready, expired>>
vars == <<gameVars, runVars, onceVars, stopVars, boxVars, ctxDone, histVars>>

\* The deferred procCancel of Run has run: the docker CLI clients are killed.
ProcCancelled == runPc \in {"deferred", "drain", "returned"}

Init ==
    /\ status = "unset" /\ started = 0 /\ envDir = "none" /\ stopping = FALSE
    /\ runDone = "nil" /\ once = "fresh" /\ closed = FALSE
    /\ runPc = "uninit" /\ startErr = FALSE /\ first = 0 /\ joined = 0 /\ runErr = FALSE
    /\ onceBy = "run" /\ snap = 0 /\ next = 0
    /\ stopPc = [s \in Stoppers |-> "idle"] /\ sawRun = [s \in Stoppers |-> FALSE]
    /\ box = [c \in Container |-> "absent"] /\ client = [c \in Container |-> "none"]
    /\ failed = [c \in Container |-> FALSE]
    /\ exited = <<>> /\ logsOpen = {} /\ ctxDone = FALSE
    /\ atStop = 0 /\ asked = {} /\ stopFailed = {} /\ ready = {} /\ expired = FALSE

-----------------------------------------------------------------------------
(* The context of Run, and Init.                                           *)

\* Run's interface lets its caller cancel the context.  The harness of this program
\* passes one made from context.Background(), which only the embedder could cancel.
Cancel ==
    /\ ~ctxDone
    /\ ctxDone' = TRUE
    /\ UNCHANGED <<gameVars, runVars, onceVars, stopVars, boxVars, histVars>>

\* Init inspects every image; the first missing one fails it and leaves the status.
InitGame ==
    /\ runPc = "uninit"
    /\ \/ status' = "waiting" /\ runPc' = "idle"
       \/ status' = status /\ runPc' = "unavailable"
    /\ UNCHANGED <<started, envDir, stopping, runDone, once, closed, startErr, first,
                   joined, runErr, onceVars, stopVars, boxVars, ctxDone, histVars>>

-----------------------------------------------------------------------------
(* Run, up to the loop that starts the containers.                         *)

\* A Run that finds the game stopping returns an error and never makes runDone.
EnterRun ==
    /\ runPc = "idle"
    /\ IF stopping
       THEN runErr' = TRUE /\ runPc' = "returned" /\ runDone' = runDone
       ELSE runErr' = runErr /\ runPc' = "setup" /\ runDone' = "open"
    /\ UNCHANGED <<status, started, envDir, stopping, once, closed, startErr, first, joined,
                   onceVars, stopVars, boxVars, ctxDone, histVars>>

\* Invalid game port, credential server or temporary directory: status is not touched.
SetupFails ==
    /\ runPc = "setup"
    /\ runErr' = TRUE /\ runPc' = "deferred"
    /\ UNCHANGED <<gameVars, startErr, first, joined, onceVars, stopVars, boxVars,
                   ctxDone, histVars>>

Setup ==
    /\ runPc = "setup"
    /\ envDir' = "present" /\ status' = "running" /\ runPc' = "starting"
    /\ UNCHANGED <<started, stopping, runDone, once, closed, startErr, first, joined, runErr,
                   onceVars, stopVars, boxVars, ctxDone, histVars>>

-----------------------------------------------------------------------------
(* startAll, startContainer and waitReady.                                 *)

\* startAll gives up and Run goes on to stop what was started.
StartFails ==
    /\ startErr' = TRUE /\ runPc' = "stop"
    /\ UNCHANGED <<gameVars, first, joined, runErr, onceVars, stopVars, boxVars, ctxDone, histVars>>

\* Mutant: stopCh is checked before the loop only.
StartNextUnchecked ==
    /\ runPc = "starting"
    /\ \/ started = N /\ runPc' = "serving"
       \/ started < N /\ runPc' = "launch"
    /\ UNCHANGED <<gameVars, startErr, first, joined, runErr, onceVars, stopVars, boxVars,
                   ctxDone, histVars>>

\* The head of the loop: all started, or give up, or go on to the next container.
StartNext ==
    /\ runPc = "starting"
    /\ \/ /\ started < N /\ (stopping \/ ctxDone)
          /\ StartFails
       \/ /\ \/ started = N /\ runPc' = "serving"
             \/ started < N /\ ~stopping /\ ~ctxDone /\ runPc' = "launch"
          /\ UNCHANGED <<gameVars, startErr, first, joined, runErr, onceVars, stopVars, boxVars,
                         ctxDone, histVars>>

\* Environment, env file, arguments, log files or the docker binary: nothing is appended.
PrepareFails == runPc = "launch" /\ StartFails

\* Mutant: the ready-check is not waited for.
LaunchUngated ==
    /\ runPc = "launch"
    /\ started' = started + 1
    /\ client' = [client EXCEPT ![started + 1] = "spawned"]
    /\ logsOpen' = logsOpen \union {started + 1}
    /\ runPc' = "starting"
    /\ UNCHANGED <<status, envDir, stopping, runDone, once, closed, startErr, first, joined, runErr,
                   onceVars, stopVars, box, failed, exited, ctxDone, histVars>>

\* The container is appended and the goroutine of `docker run` started.  If `docker
\* rm -f` could not remove a leftover of that name, which is only logged, `docker run`
\* is refused: see DockerRun.
Launch ==
    /\ runPc = "launch"
    /\ LET c == started + 1 IN
       /\ started' = c
       /\ client' = [client EXCEPT ![c] = "spawned"]
       /\ logsOpen' = logsOpen \union {c}
       /\ runPc' = IF c \in ReadyChecked THEN "probe" ELSE "starting"
    /\ UNCHANGED <<status, envDir, stopping, runDone, once, closed, startErr, first, joined, runErr,
                   onceVars, stopVars, box, failed, exited, ctxDone, histVars>>

\* waitReady: a poll of the container's url answered 2xx.
ProbeReady ==
    /\ runPc = "probe"
    /\ box[started] = "up"
    /\ ready' = ready \union {started}
    /\ runPc' = "starting"
    /\ UNCHANGED <<gameVars, startErr, first, joined, runErr, onceVars, stopVars, boxVars,
                   ctxDone, atStop, asked, stopFailed, expired>>

\* waitReady: the container exited, Stop or a cancellation was seen, or the
\* deadline passed, which may happen at any moment.
ProbeFails == runPc = "probe" /\ StartFails

-----------------------------------------------------------------------------
(* Run, from the wait for the end of the session to its return.            *)

ServeExited ==
    /\ runPc = "serving"
    /\ exited # <<>>
    /\ first' = Head(exited) /\ exited' = Tail(exited)
    /\ runPc' = "stop"
    /\ UNCHANGED <<gameVars, startErr, joined, runErr, onceVars, stopVars, box, client, failed,
                   logsOpen, ctxDone, histVars>>

\* Mutant: a cancelled Run waits for its containers without stopping them.
ServeStoppedNoStop ==
    /\ runPc = "serving"
    /\ ctxDone \/ stopping
    /\ runPc' = "join"
    /\ UNCHANGED <<gameVars, startErr, first, joined, runErr, onceVars, stopVars, boxVars,
                   ctxDone, histVars>>

ServeStopped ==
    /\ runPc = "serving"
    /\ ctxDone \/ stopping
    /\ runPc' = "stop"
    /\ UNCHANGED <<gameVars, startErr, first, joined, runErr, onceVars, stopVars, boxVars,
                   ctxDone, histVars>>

\* Mutant: waitContainers has no time limit.
JoinOneForever ==
    /\ runPc = "join"
    /\ joined < started
    /\ client[joined + 1] = "done"
    /\ joined' = joined + 1
    /\ UNCHANGED <<gameVars, runPc, startErr, first, runErr, onceVars, stopVars, boxVars,
                   ctxDone, histVars>>

\* waitContainers: one container after the other, each for at most stopGrace.
JoinOne ==
    /\ runPc = "join"
    /\ joined < started
    /\ joined' = joined + 1
    /\ expired' = (expired \/ client[joined + 1] # "done")
    /\ UNCHANGED <<gameVars, runPc, startErr, first, runErr, onceVars, stopVars, boxVars,
                   ctxDone, atStop, asked, stopFailed, ready>>

\* Mutant: the error of the container that exited is dropped.
SettleDropsError ==
    /\ runPc = "join"
    /\ joined = started
    /\ runErr' = startErr
    /\ status' = IF runErr' THEN "errored" ELSE "finished"
    /\ runPc' = "deferred"
    /\ UNCHANGED <<started, envDir, stopping, runDone, once, closed, startErr, first, joined,
                   onceVars, stopVars, boxVars, ctxDone, histVars>>

\* The switch at the end of Run.
Settle ==
    /\ runPc = "join"
    /\ joined = started
    /\ runErr' = (startErr \/ (first # 0 /\ ~stopping /\ failed[first]))
    /\ status' = IF runErr' THEN "errored" ELSE "finished"
    /\ runPc' = "deferred"
    /\ UNCHANGED <<started, envDir, stopping, runDone, once, closed, startErr, first, joined,
                   onceVars, stopVars, boxVars, ctxDone, histVars>>

\* The deferred calls: procCancel has run, then credSrv.Stop.  Its context is never done, so
\* it waits for a request for credentials that a container made and that is in flight.
DrainCredServer ==
    /\ runPc = "deferred"
    /\ \E c \in Container : box[c] # "absent"
    /\ runPc' = "drain"
    /\ UNCHANGED <<gameVars, startErr, first, joined, runErr, onceVars, stopVars, boxVars,
                   ctxDone, histVars>>

\* runDone is closed.
Returns ==
    /\ runDone' = "closed" /\ runPc' = "returned"
    /\ UNCHANGED <<status, started, envDir, stopping, once, closed, startErr, first, joined, runErr,
                   onceVars, stopVars, boxVars, ctxDone, histVars>>

\* GetFleetRoleCredentials answers, to which nothing obliges it, and Run goes on.
CredentialsAnswered == runPc = "drain" /\ Returns

\* No request is in flight.
Return == runPc = "deferred" /\ Returns

-----------------------------------------------------------------------------
(* stopContainers, called by Run and by every Stop; stopOnce lets one in.  *)

Caller == {"run"} \union Stoppers

AtStopContainers(a) == IF a = "run" THEN runPc = "stop" ELSE stopPc[a] = "stop"

\* What the caller does after stopContainers returns.
LeaveStopContainers(a) ==
    IF a = "run"
    THEN runPc' = "join" /\ UNCHANGED stopPc
    ELSE stopPc' = [stopPc EXCEPT ![a] = "await"] /\ UNCHANGED runPc

\* The first caller clones the list of containers and walks it backwards.
EnterOnce(a) ==
    /\ AtStopContainers(a)
    /\ once = "fresh"
    /\ once' = "busy" /\ onceBy' = a /\ snap' = started /\ next' = started
    /\ UNCHANGED <<status, started, envDir, stopping, runDone, closed, runVars, stopVars, boxVars,
                   ctxDone, histVars>>

\* Mutant: a container whose client is not attached yet counts as exited.
SkipNotAttached ==
    /\ once = "busy" /\ next > 0
    /\ client[next] # "attached"
    /\ next' = next - 1
    /\ UNCHANGED <<gameVars, runVars, onceBy, snap, stopVars, boxVars, ctxDone, histVars>>

SkipExited ==
    /\ once = "busy" /\ next > 0
    /\ client[next] = "done"
    /\ next' = next - 1
    /\ UNCHANGED <<gameVars, runVars, onceBy, snap, stopVars, boxVars, ctxDone, histVars>>

\* `docker stop` ends a container that exists; it fails on one that does not,
\* because it exited and was removed or was not created yet.
DockerStop ==
    /\ once = "busy" /\ next > 0
    /\ client[next] # "done"
    /\ asked' = asked \union {next}
    /\ next' = next - 1
    /\ \/ /\ box[next] = "up"
          /\ box' = [box EXCEPT ![next] = "gone"] /\ stopFailed' = stopFailed
       \/ /\ box[next] # "up" \/ StopCanFail
          /\ box' = box /\ stopFailed' = stopFailed \union {next}
    /\ UNCHANGED <<gameVars, runVars, onceBy, snap, stopVars, client, failed, exited, logsOpen,
                   ctxDone, atStop, ready, expired>>

LeaveOnce ==
    /\ once = "busy" /\ next = 0
    /\ once' = "done"
    /\ LeaveStopContainers(onceBy)
    /\ UNCHANGED <<status, started, envDir, stopping, runDone, closed, startErr, first, joined,
                   runErr, onceVars, sawRun, boxVars, ctxDone, histVars>>

\* A later caller waits for the first one and does nothing.
PassOnce(a) ==
    /\ AtStopContainers(a)
    /\ once = "done"
    /\ LeaveStopContainers(a)
    /\ UNCHANGED <<gameVars, startErr, first, joined, runErr, onceVars, sawRun, boxVars,
                   ctxDone, histVars>>

-----------------------------------------------------------------------------
(* Stop.  The harness calls it only on a game whose Init succeeded.        *)

CallStop(s) ==
    /\ stopPc[s] = "idle"
    /\ runPc \notin {"uninit", "unavailable"}
    /\ stopping' = TRUE
    /\ atStop' = IF stopping THEN atStop ELSE started
    /\ sawRun' = [sawRun EXCEPT ![s] = runDone # "nil"]
    /\ stopPc' = [stopPc EXCEPT ![s] = "stop"]
    /\ UNCHANGED <<status, started, envDir, runDone, once, closed, runVars, onceVars, boxVars,
                   ctxDone, asked, stopFailed, ready, expired>>

\* Mutant: Stop does not wait for Run.
AwaitNothing(s) ==
    /\ stopPc[s] = "await"
    /\ stopPc' = [stopPc EXCEPT ![s] = "cleanup"]
    /\ UNCHANGED <<gameVars, runVars, onceVars, sawRun, boxVars, ctxDone, histVars>>

\* Mutant: Stop waits on runDone without a time limit, and when it is nil.
AwaitForever(s) ==
    /\ stopPc[s] = "await"
    /\ runDone = "closed"
    /\ stopPc' = [stopPc EXCEPT ![s] = "cleanup"]
    /\ UNCHANGED <<gameVars, runVars, onceVars, sawRun, boxVars, ctxDone, histVars>>

\* Stop waits for a Run it has seen, for at most stopGrace.
AwaitRun(s) ==
    /\ stopPc[s] = "await"
    /\ expired' = (expired \/ (sawRun[s] /\ runDone # "closed"))
    /\ stopPc' = [stopPc EXCEPT ![s] = "cleanup"]
    /\ UNCHANGED <<gameVars, runVars, onceVars, sawRun, boxVars, ctxDone, atStop, asked,
                   stopFailed, ready>>

\* Mutant: the directory of the env files is left behind.
CleanupKeepsEnvDir(s) ==
    /\ stopPc[s] = "cleanup"
    /\ stopPc' = [stopPc EXCEPT ![s] = "returned"]
    /\ closed' = TRUE
    /\ logsOpen' = IF closed THEN logsOpen ELSE {}
    /\ UNCHANGED <<status, started, envDir, stopping, runDone, once, runVars, onceVars, sawRun,
                   box, client, failed, exited, ctxDone, histVars>>

\* closeOnce: close the loggers of the containers started so far, remove envDir.
Cleanup(s) ==
    /\ stopPc[s] = "cleanup"
    /\ stopPc' = [stopPc EXCEPT ![s] = "returned"]
    /\ closed' = TRUE
    /\ IF closed
       THEN UNCHANGED <<logsOpen, envDir>>
       ELSE /\ logsOpen' = {}
            /\ envDir' = IF envDir = "present" THEN "removed" ELSE envDir
    /\ UNCHANGED <<status, started, stopping, runDone, once, runVars, onceVars, sawRun,
                   box, client, failed, exited, ctxDone, histVars>>

-----------------------------------------------------------------------------
(* The docker daemon and the goroutine of `docker run` of container c.     *)

ClientVarsKept == UNCHANGED <<gameVars, runVars, onceVars, stopVars, logsOpen, ctxDone, histVars>>

\* The client creates the container, unless it is refused (a leftover holds the
\* name, no such network, ...) or was cancelled before it started.
DockerRun(c) ==
    /\ client[c] = "spawned"
    /\ \/ /\ ~ProcCancelled
          /\ box' = [box EXCEPT ![c] = "up"]
          /\ client' = [client EXCEPT ![c] = "attached"] /\ failed' = failed
       \/ /\ box' = box
          /\ client' = [client EXCEPT ![c] = "exited"]
          /\ failed' = [failed EXCEPT ![c] = TRUE]
    /\ UNCHANGED exited /\ ClientVarsKept

\* The container ends by itself; --rm removes it.
ContainerExit(c) ==
    /\ box[c] = "up"
    /\ box' = [box EXCEPT ![c] = "gone"]
    /\ UNCHANGED <<client, failed, exited>> /\ ClientVarsKept

\* The client returns after its container, with the exit code as its error, or is
\* killed by procCancel, which is not an error and leaves the container alone.
ClientReturns(c) ==
    /\ client[c] = "attached"
    /\ \/ box[c] = "gone" /\ failed' \in {failed, [failed EXCEPT ![c] = TRUE]}
       \/ ProcCancelled /\ failed' = failed
    /\ client' = [client EXCEPT ![c] = "exited"]
    /\ UNCHANGED <<box, exited>> /\ ClientVarsKept

AnnounceExit(c) ==
    /\ client[c] = "exited"
    /\ exited' = Append(exited, c)
    /\ client' = [client EXCEPT ![c] = "announced"]
    /\ UNCHANGED <<box, failed>> /\ ClientVarsKept

CloseDone(c) ==
    /\ client[c] = "announced"
    /\ client' = [client EXCEPT ![c] = "done"]
    /\ UNCHANGED <<box, failed, exited>> /\ ClientVarsKept

-----------------------------------------------------------------------------

RunStep ==
    \/ EnterRun \/ SetupFails \/ Setup
    \/ StartNext \/ PrepareFails \/ Launch \/ ProbeReady \/ ProbeFails
    \/ ServeExited \/ ServeStopped \/ JoinOne \/ Settle
    \/ DrainCredServer \/ Return

OnceStep == SkipExited \/ DockerStop \/ LeaveOnce

ClientStep(c) == DockerRun(c) \/ ClientReturns(c) \/ AnnounceExit(c) \/ CloseDone(c)

\* Every goroutine has returned and every container is gone.
Terminated ==
    /\ runPc \in {"returned", "unavailable"}
    /\ \A s \in Stoppers : stopPc[s] = "returned" \/ runPc = "unavailable"
    /\ \A c \in Container : client[c] \in {"none", "done"} /\ box[c] # "up"
    /\ UNCHANGED vars

Next ==
    \/ Cancel \/ InitGame \/ RunStep \/ CredentialsAnswered \/ OnceStep \/ Terminated
    \/ \E a \in Caller : EnterOnce(a) \/ PassOnce(a)
    \/ \E s \in Stoppers : CallStop(s) \/ AwaitRun(s) \/ Cleanup(s)
    \/ \E c \in Container : ClientStep(c) \/ ContainerExit(c)

Spec == Init /\ [][Next]_vars

\* Goroutines that can run do run, every call of docker returns (`docker stop` has
\* a deadline, the HTTP client of the probe a timeout) and the timers fire.  Nothing
\* obliges a session to start, the requests of the Route 53 mapping to be answered, a
\* container to exit, or anyone to cancel or call Stop.
Fairness ==
    /\ WF_vars(RunStep /\ runPc \notin {"idle", "setup"})
    /\ WF_vars(OnceStep)
    /\ \A a \in Caller : WF_vars(EnterOnce(a)) /\ WF_vars(PassOnce(a))
    /\ \A s \in Stoppers : WF_vars(AwaitRun(s)) /\ WF_vars(Cleanup(s))
    /\ \A c \in Container : WF_vars(ClientStep(c))

FairSpec == Spec /\ Fairness
-----------------------------------------------------------------------------
(* Properties.                                                             *)

RunPcs == {"uninit", "unavailable", "idle", "setup", "starting", "launch", "probe",
           "serving", "stop", "join", "deferred", "drain", "returned"}

\* Type invariant of the fields of DockerGame, of the locals of its goroutines
\* and of the containers.
TypeOK ==
    /\ status \in {"unset", "waiting", "running", "errored", "finished"}
    /\ started \in 0..N
    /\ envDir \in {"none", "present", "removed"}
    /\ stopping \in BOOLEAN /\ closed \in BOOLEAN /\ ctxDone \in BOOLEAN
    /\ runDone \in {"nil", "open", "closed"}
    /\ once \in {"fresh", "busy", "done"}
    /\ runPc \in RunPcs
    /\ startErr \in BOOLEAN /\ runErr \in BOOLEAN
    /\ first \in 0..N /\ joined \in 0..N
    /\ onceBy \in Caller /\ snap \in 0..N /\ next \in 0..N
    /\ stopPc \in [Stoppers -> {"idle", "stop", "await", "cleanup", "returned"}]
    /\ sawRun \in [Stoppers -> BOOLEAN]
    /\ box \in [Container -> {"absent", "up", "gone"}]
    /\ client \in [Container -> {"none", "spawned", "attached", "exited", "announced", "done"}]
    /\ failed \in [Container -> BOOLEAN]
    /\ exited \in Seq(Container)
    /\ logsOpen \subseteq Container
    /\ atStop \in 0..N
    /\ asked \subseteq Container /\ stopFailed \subseteq Container /\ ready \subseteq Container
    /\ expired \in BOOLEAN

\* Once Stop has been called, Run appends at most the one container it was already
\* past the check of stopCh for (startAll checks stopCh before each container, not
\* atomically with the append), whatever else is running.
LateStartBound == stopping => started <= atStop + 1

\* The ready-check gates the start: while containers after c exist, the
\* ready-check of c has succeeded (startAll waits before the next container).
ReadyGate == \A c \in ReadyChecked : started > c => c \in ready

\* stopContainers goes backwards: when `docker stop` was called for c, every later
\* container of the list it walks was brought down first, or its `docker stop` failed.
ReverseOrder ==
    \A c \in asked : \A d \in (c + 1)..snap : box[d] = "up" => d \in stopFailed

\* The containers that outlive Run are accounted for: each was appended after the
\* only walk of stopContainers took its list, or its `docker stop` failed.  A Run that
\* waits for the credential server and never returns leaves no more of them.
OrphansExplained ==
    ProcCancelled =>
        \A c \in Container :
            box[c] = "up" => once = "done" /\ (c > snap \/ c \in stopFailed)

\* Run returns without an error only if the session was ended from outside or the
\* container whose exit ended it succeeded: a crash is never reported as success.
CleanReturnJustified ==
    runPc = "returned" /\ ~runErr => stopping \/ ctxDone \/ (first # 0 /\ ~failed[first])

\* Unless a stopGrace timer fired, Stop closes the loggers only when every `docker
\* run` that writes to them has returned, and no container is started afterwards.
CleanupAfterRun == closed /\ ~expired => \A c \in 1..started : client[c] = "done"

\* Unless a stopGrace timer fired, when Run and a Stop have returned nothing is left
\* behind: every logger is closed and the env files with the credentials are removed.
NothingLeft ==
    ~expired /\ runPc = "returned" /\ (\E s \in Stoppers : stopPc[s] = "returned") =>
        logsOpen = {} /\ envDir # "present"

\* Run ends when the session does: a cancellation, a Stop or the exit of one container,
\* at whatever point of the start, makes Run return, unless a request is never answered:
\* one of the Route 53 mapping, or one for credentials.
RunEnds ==
    []<>(runPc \notin {"setup", "drain"}) =>
        (runPc \notin {"uninit", "unavailable", "idle"} /\ (ctxDone \/ stopping \/ exited # <<>>)
             ~> runPc = "returned")

\* Stop returns, whatever Run, a request for credentials and other callers of Stop are doing.
StopReturns == \A s \in Stoppers : stopPc[s] = "stop" ~> stopPc[s] = "returned"
=============================================================================
