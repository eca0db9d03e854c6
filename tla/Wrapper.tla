------------------------------- MODULE Wrapper --------------------------------
(***************************************************************************)
(* The wrapper process: pkg/runner and pkg/manager drive the game harness  *)
(* (Harness) and the hosting provider (GameLift) from start to exit.       *)
(*                                                                         *)
(* manager.Run runs harness.Run and hosting.Run on two goroutines and      *)
(* returns when the first of them does, or the context is done; the runner *)
(* closes the manager only if manager.Run returned no error.  A signal     *)
(* cancels the context that both components were given; the callbacks of   *)
(* the provider call the harness.                                          *)
(***************************************************************************)
EXTENDS Integers, Sequences, FiniteSets

CONSTANTS
    StartCalls, TermCalls, UpdateCalls,   \* the SDK goroutines, by callback
    Targets, QuickSave, SpanCanFail,      \* see Harness
    Readiness, EmitEvents, SendCanFail, CopyCanFail   \* see GameLift

ASSUME WrapperAssumption ==
    /\ StartCalls \intersect TermCalls = {}
    /\ UpdateCalls \intersect (StartCalls \union TermCalls) = {}
    /\ Targets \in Nat \ {0}
    /\ {QuickSave, SpanCanFail, Readiness, EmitEvents, SendCanFail, CopyCanFail} \subseteq BOOLEAN

VARIABLES
    runnerPc, exitErr,     \* runner.Run with manager.Init, Run and Close; its error
    \* Harness
    hasEvent, attempted, startOpen, termOpen, mainPc, mainErr, startPc, startErr,
    savePc, saveIdx, callPc, game, saves, stops, raced,
    \* GameLift
    runPc, runErr, closePc, cbPc, notice, gameSession, atRisk,
    ready, activated, endings, destroyed,
    \* shared by both
    ctxDone, crashed

H == INSTANCE Harness
G == INSTANCE GameLift

runnerVars  == <<runnerPc, exitErr>>
harnessVars == <<hasEvent, attempted, startOpen, termOpen, mainPc, mainErr, startPc, startErr,
                 savePc, saveIdx, callPc, game, saves, stops, raced>>
hostingVars == <<runPc, runErr, closePc, cbPc, notice, gameSession, atRisk, ready, activated,
                 endings, destroyed>>
sharedVars  == <<ctxDone, crashed>>
vars == <<runnerVars, harnessVars, hostingVars, sharedVars>>

Init ==
    /\ runnerPc = "init" /\ exitErr = FALSE
    /\ H!Init
    /\ G!Init

-----------------------------------------------------------------------------
(* The runner and the manager.                                             *)

Leave(err) == runnerPc' = "leaving" /\ exitErr' = err

\* manager.Init: a component that cannot be initialised ends the process.
InitHosting ==
    /\ runnerPc = "init"
    /\ \/ runnerPc' = "gameInit" /\ exitErr' = exitErr
       \/ Leave(TRUE)
    /\ UNCHANGED <<harnessVars, hostingVars, sharedVars>>

InitGame ==
    /\ runnerPc = "gameInit"
    /\ \/ runnerPc' = "run" /\ exitErr' = exitErr
       \/ Leave(TRUE)
    /\ UNCHANGED <<harnessVars, hostingVars, sharedVars>>

\* Mutant: the runner logs the error and closes the manager.
ManagerReturnsLogged(err) == runnerPc' = "close" /\ exitErr' = exitErr

\* The select of manager.Run; an error leaves the runner without Close.
ManagerReturns(err) == IF err THEN Leave(TRUE) ELSE runnerPc' = "close" /\ exitErr' = exitErr

ManagerContextDone ==
    /\ runnerPc = "run"
    /\ ctxDone
    /\ ManagerReturns(FALSE)
    /\ UNCHANGED <<harnessVars, hostingVars, sharedVars>>

ManagerGameResult ==
    /\ runnerPc = "run"
    /\ mainPc = "returned"
    /\ ManagerReturns(mainErr)
    /\ UNCHANGED <<harnessVars, hostingVars, sharedVars>>

ManagerHostingResult ==
    /\ runnerPc = "run"
    /\ runPc = "returned"
    /\ ManagerReturns(runErr)
    /\ UNCHANGED <<harnessVars, hostingVars, sharedVars>>

\* manager.Close: the harness first, then the provider.
CloseHarness ==
    /\ runnerPc = "close"
    /\ runnerPc' = "closing" /\ exitErr' = exitErr
    /\ H!CallClose
    /\ UNCHANGED hostingVars

\* Mutant: both components are closed at the same time.
CloseHostingAtOnce ==
    /\ runnerPc = "closing"
    /\ G!CallClose
    /\ UNCHANGED <<runnerVars, harnessVars>>

\* Mutant: the provider is closed after its Run has returned.
CloseHostingAfterRun ==
    /\ runnerPc = "closing"
    /\ savePc["close"] = "done" /\ runPc = "returned"
    /\ G!CallClose
    /\ UNCHANGED <<runnerVars, harnessVars>>

CloseHosting ==
    /\ runnerPc = "closing"
    /\ savePc["close"] = "done"
    /\ G!CallClose
    /\ UNCHANGED <<runnerVars, harnessVars>>

\* Mutant: the provider is closed in the background.
CloseReturnsEarly ==
    /\ runnerPc = "closing"
    /\ closePc # "idle"
    /\ \E err \in BOOLEAN : Leave(err)
    /\ UNCHANGED <<harnessVars, hostingVars, sharedVars>>

\* ProcessEnding or Destroy may have returned an error.
CloseReturns ==
    /\ runnerPc = "closing"
    /\ closePc = "done"
    /\ \E err \in BOOLEAN : Leave(err)
    /\ UNCHANGED <<harnessVars, hostingVars, sharedVars>>

\* Until the process exits, app.Run's last second included, its goroutines go on.
Exit ==
    /\ runnerPc = "leaving"
    /\ runnerPc' = "exited" /\ exitErr' = exitErr
    /\ UNCHANGED <<harnessVars, hostingVars, sharedVars>>

\* Mutant: the signal handler closes the harness itself.
SignalCloses ==
    /\ H!CallClose
    /\ UNCHANGED <<runnerVars, hostingVars>>

\* SIGINT or SIGTERM.
Signal ==
    /\ ~ctxDone
    /\ ctxDone' = TRUE
    /\ UNCHANGED <<runnerVars, harnessVars, hostingVars, crashed>>

-----------------------------------------------------------------------------
(* The components.                                                         *)

ManagerRuns == runnerPc \in {"run", "close", "closing", "leaving"}

\* The goroutines that manager.Run spawns, however late they are scheduled.
HarnessStep ==
    /\ \/ ManagerRuns /\ H!RunMain
       \/ H!MainContextDone \/ H!MainStartResult \/ H!MainTerminateResult
       \/ H!StartStep \/ H!TermStep
    /\ UNCHANGED <<runnerVars, hostingVars>>

HarnessCloseStep == H!CloseStep /\ UNCHANGED <<runnerVars, hostingVars>>

GameStep == (H!GameUp \/ H!GameDown) /\ UNCHANGED <<runnerVars, hostingVars>>

HostingStep ==
    /\ \/ ManagerRuns /\ G!CallRun
       \/ G!RunStep
    /\ UNCHANGED <<runnerVars, harnessVars>>

HostingCloseStep == G!CloseStep /\ UNCHANGED <<runnerVars, harnessVars>>

EndpointAnswers == G!PollAnswered /\ UNCHANGED <<runnerVars, harnessVars>>

\* GameLift calls back.
BeginCallback(c) == G!BeginCallback(c) /\ UNCHANGED <<runnerVars, harnessVars>>

\* The callback itself, its call of onHostingStart or onHostingTerminate, the call of
\* the harness in it, and the return of both.
CallbackStep(c) == G!CallbackStep(c) /\ UNCHANGED <<runnerVars, harnessVars>>

CallManager(c) == G!Deliver(c) /\ UNCHANGED <<runnerVars, harnessVars>>

\* Mutant: the harness is called before the session is activated.
CallHarnessAtOnce(c) ==
    /\ cbPc[c] # "idle"
    /\ H!CallHosting(c)
    /\ UNCHANGED <<runnerVars, hostingVars>>

CallHarness(c) ==
    /\ cbPc[c] = "waiting"
    /\ H!CallHosting(c)
    /\ UNCHANGED <<runnerVars, hostingVars>>

ManagerCallReturns(c) ==
    /\ callPc[c] = "returned"
    /\ G!Delivered(c)
    /\ UNCHANGED <<runnerVars, harnessVars>>

-----------------------------------------------------------------------------

RunnerStep ==
    \/ InitHosting \/ InitGame
    \/ ManagerContextDone \/ ManagerGameResult \/ ManagerHostingResult
    \/ CloseHarness \/ CloseHosting \/ CloseReturns \/ Exit

Delivery(c) == CallManager(c) \/ CallHarness(c) \/ ManagerCallReturns(c)

Alive == ~crashed /\ runnerPc # "exited"

Next ==
    /\ Alive
    /\ \/ RunnerStep \/ HarnessStep \/ HarnessCloseStep \/ HostingStep \/ HostingCloseStep
       \/ GameStep \/ EndpointAnswers \/ Signal
       \/ \E c \in G!Callback : BeginCallback(c) \/ CallbackStep(c)
       \/ \E c \in H!Call : Delivery(c)

Spec == Init /\ [][Next]_vars

\* The goroutine of main runs the runner, the manager and both Close.
MainGoroutine == RunnerStep \/ HarnessCloseStep \/ HostingCloseStep

\* The goroutines are scheduled and every call they make returns, but for game.Run, the
\* readiness poll, quicksaves and the sender, whose requests may hang; no signal or
\* callback need come.
Fairness ==
    /\ WF_vars(Alive /\ MainGoroutine /\ ~H!EndSave("close"))
    /\ WF_vars(Alive /\ HarnessStep /\ ~H!EndSave("term"))
    /\ WF_vars(Alive /\ HostingStep)
    /\ \A c \in H!Call :
           WF_vars(Alive /\ ((cbPc[c] # "notify" /\ CallbackStep(c)) \/ Delivery(c)))

FairSpec == Spec /\ Fairness

-----------------------------------------------------------------------------
(* Properties.                                                             *)

Exited == runnerPc = "exited"

\* A process that exits with code 0 did everything: the game was told to stop, the
\* harness was closed, and GameLift heard ProcessEnding once and was left.
CleanExitIsComplete ==
    Exited /\ ~exitErr =>
        /\ "close" \in stops /\ ~startOpen /\ ~termOpen
        /\ endings = 1 /\ destroyed

\* Panics come from three places only: a closed channel, while the manager closes the
\* harness or later; a terminate callback of a process without a session; a token that
\* a failed callback took from a concurrent one.
CrashesAreKnown ==
    crashed /\ ~SpanCanFail =>
        \/ runnerPc \in {"closing", "leaving"}
        \/ EmitEvents /\ (~gameSession \/ atRisk # {})

\* The wrapper as GameLift and the operator see it.
S == INSTANCE Session WITH
    announced   <- ready,
    ended       <- endings > 0,
    left        <- destroyed,
    notified    <- \E c \in StartCalls : notice[c] = "sent",
    terminating <- \E c \in TermCalls : cbPc[c] # "idle",
    signalled   <- ctxDone,
    saved       <- "close" \in stops /\ savePc["close"] = "done",
    process     <- IF crashed THEN "crashed"
                   ELSE IF Exited THEN (IF exitErr THEN "failed" ELSE "done") ELSE "alive"

\* However signals, callbacks, the game and errors of the provider race: GameLift hears of
\* the process, the session and the end in this order, the game runs only for an
\* active session, the end comes after save and stop, and what begins after the end was
\* under way when the end was asked for.
ImplementsSession == S!Spec

\* The process uses the harness the way Harness assumes, so that what holds of the harness
\* alone holds in the process: it is closed once, and only when the context is done or its
\* Run returned no error, whatever made manager.Run return.
ImplementsHarness == H!Spec

\* Close is stuck: hosting.Run is over and nobody reads the error of copying the logs.
CopyStuck == closePc = "report" /\ runPc = "returned"

\* What ends a session: a signal, the end of the game, a terminate event that the
\* orchestration service was told of, any event that it could not be told of.
MustEnd ==
    \/ ctxDone \/ game = "down"
    \/ \E c \in TermCalls : notice[c] = "sent"
    \/ \E c \in G!Callback : notice[c] = "failed"

\* Each of them ends the process, in whatever state it finds callbacks, game, provider
\* and harness (one of which may be about to return for another reason), unless copying
\* the logs fails or a quicksave hangs.
SessionEndEndsProcess ==
    (\A a \in H!Saver : []<>(savePc[a] # "saving")) =>
        (MustEnd ~> Exited \/ crashed \/ CopyStuck)

\* README.md:787 "ProcessEnding ... Called when game terminates"
GameEndIsReported == Exited /\ game = "down" => endings = 1
=============================================================================
