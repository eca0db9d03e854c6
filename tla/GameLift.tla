------------------------------- MODULE GameLift -------------------------------
(***************************************************************************)
(* The hosting provider of the wrapper, pkg/hosting/gamelift/gamelift.go:  *)
(* hosting.Run announces the process to Amazon GameLift and waits; the SDK *)
(* calls glOnStartGameSession, glOnProcessTerminate and                    *)
(* glOnUpdateGameSession on goroutines of its own; hosting.Close ends the  *)
(* process for GameLift.                                                   *)
(*                                                                         *)
(* All of them report errors on ec, an unbuffered channel with one reader, *)
(* hosting.Run, which reads at most one value.                             *)
(***************************************************************************)
EXTENDS Integers, FiniteSets

CONSTANTS
    StartCalls,      \* the SDK goroutines that run glOnStartGameSession
    TermCalls,       \* the SDK goroutines that run glOnProcessTerminate
    UpdateCalls,     \* the SDK goroutines that run glOnUpdateGameSession
    Readiness,       \* whether the readiness endpoint is polled first
    EmitEvents,      \* whether the orchestration sender is enabled
    SendCanFail,     \* whether the orchestration sender may return an error
    CopyCanFail      \* whether copying the game server's logs may fail

VARIABLES
    runPc, runErr,     \* hosting.Run and whether it returned an error
    closePc,           \* hosting.Close
    cbPc,              \* the callbacks
    notice, gameSession, atRisk,   \* the sender, see Notifier
    ctxDone,           \* the context of hosting.Run is cancelled
    crashed,           \* a callback panicked, which ends the process
    \* What Amazon GameLift was told: ProcessReady, ActivateGameSession,
    \* ProcessEnding (how often) and Destroy.
    ready, activated, endings, destroyed

N == INSTANCE Notifier

Callback == N!Callback

senderVars == <<notice, gameSession, atRisk>>
sdkVars == <<ready, activated, endings, destroyed>>
vars == <<runPc, runErr, closePc, cbPc, senderVars, ctxDone, crashed, sdkVars>>

Init ==
    /\ runPc = "idle" /\ runErr = FALSE /\ closePc = "idle"
    /\ cbPc = [c \in Callback |-> "idle"]
    /\ N!Init
    /\ ctxDone = FALSE
    /\ ready = FALSE /\ activated = FALSE /\ endings = 0 /\ destroyed = FALSE

-----------------------------------------------------------------------------
(* hosting.Run                                                             *)

RunReturns(err) == runPc' = "returned" /\ runErr' = err

CallRun ==
    /\ runPc = "idle"
    /\ runPc' = IF Readiness THEN "poll" ELSE "ready"
    /\ UNCHANGED <<runErr, closePc, cbPc, senderVars, ctxDone, crashed, sdkVars>>

\* waitForReadiness polls until the endpoint answers, which it may never do, or a
\* poll failed and the context is done.
PollAnswered ==
    /\ runPc = "poll"
    /\ runPc' = "ready"
    /\ UNCHANGED <<runErr, closePc, cbPc, senderVars, ctxDone, crashed, sdkVars>>

PollCancelled ==
    /\ runPc = "poll"
    /\ ctxDone
    /\ RunReturns(TRUE)
    /\ UNCHANGED <<closePc, cbPc, senderVars, ctxDone, crashed, sdkVars>>

ProcessReady ==
    /\ runPc = "ready"
    /\ \/ ready' = TRUE /\ runPc' = "serve" /\ runErr' = runErr
       \/ ready' = ready /\ RunReturns(TRUE)
    /\ UNCHANGED <<closePc, cbPc, senderVars, ctxDone, crashed, activated, endings, destroyed>>

ServeContextDone ==
    /\ runPc = "serve"
    /\ ctxDone
    /\ RunReturns(FALSE)
    /\ UNCHANGED <<closePc, cbPc, senderVars, ctxDone, crashed, sdkVars>>

-----------------------------------------------------------------------------
(* Errors: the blocked sender of ec continues when hosting.Run reads it.   *)

\* A start or update callback returns after its error was read; the terminate
\* callback goes on to hand the event to the manager.
AfterReport(c) == IF c \in TermCalls THEN "deliver" ELSE "done"

ServeError(c) ==
    /\ runPc = "serve"
    /\ cbPc[c] = "report"
    /\ RunReturns(TRUE)
    /\ cbPc' = [cbPc EXCEPT ![c] = AfterReport(c)]
    /\ UNCHANGED <<closePc, senderVars, ctxDone, crashed, sdkVars>>

\* The same for the error of copyGameServerLogs that hosting.Close sends.
ServeCopyError ==
    /\ runPc = "serve"
    /\ closePc = "report"
    /\ RunReturns(TRUE)
    /\ closePc' = "ending"
    /\ UNCHANGED <<cbPc, senderVars, ctxDone, crashed, sdkVars>>

-----------------------------------------------------------------------------
(* The callbacks.                                                          *)

\* The SDK calls back a process it knows; updates concern a started session.  Every
\* callback first calls the sender.
BeginCallback(c) ==
    /\ cbPc[c] = "idle"
    /\ ready
    /\ c \in UpdateCalls => \E s \in StartCalls : cbPc[s] # "idle"
    /\ cbPc' = [cbPc EXCEPT ![c] = "notify"]
    /\ N!Begin(c)
    /\ UNCHANGED <<runPc, runErr, closePc, ctxDone, sdkVars>>

\* What a callback does after the sender took its event.
AfterNotify(c) ==
    CASE c \in StartCalls  -> "activate"
      [] c \in TermCalls   -> "deliver"
      [] c \in UpdateCalls -> "done"

NotifySucceeds(c) ==
    /\ cbPc[c] = "notify"
    /\ N!Succeed(c)
    /\ cbPc' = [cbPc EXCEPT ![c] = AfterNotify(c)]
    /\ UNCHANGED <<runPc, runErr, closePc, ctxDone, sdkVars>>

NotifyFails(c) ==
    /\ cbPc[c] = "notify"
    /\ N!Fail(c)
    /\ cbPc' = [cbPc EXCEPT ![c] = "report"]
    /\ UNCHANGED <<runPc, runErr, closePc, ctxDone, sdkVars>>

NotifyPanics(c) ==
    /\ cbPc[c] = "notify"
    /\ N!Panic(c)
    /\ UNCHANGED <<runPc, runErr, closePc, cbPc, ctxDone, sdkVars>>

\* ActivateGameSession, then the credentials of the fleet role, whose absence is
\* only logged.
Activate(c) ==
    /\ cbPc[c] = "activate"
    /\ \/ activated' = TRUE /\ cbPc' = [cbPc EXCEPT ![c] = "deliver"]
       \/ activated' = activated /\ cbPc' = [cbPc EXCEPT ![c] = "report"]
    /\ UNCHANGED <<runPc, runErr, closePc, senderVars, ctxDone, crashed, ready, endings,
                   destroyed>>

\* The call of onHostingStart or onHostingTerminate, and its return; neither returns
\* an error (the harness gets no end channel, tag updates only log theirs).
Deliver(c) ==
    /\ cbPc[c] = "deliver"
    /\ cbPc' = [cbPc EXCEPT ![c] = "waiting"]
    /\ UNCHANGED <<runPc, runErr, closePc, senderVars, ctxDone, crashed, sdkVars>>

Delivered(c) ==
    /\ cbPc[c] = "waiting"
    /\ cbPc' = [cbPc EXCEPT ![c] = "done"]
    /\ UNCHANGED <<runPc, runErr, closePc, senderVars, ctxDone, crashed, sdkVars>>

-----------------------------------------------------------------------------
(* hosting.Close                                                           *)

CallClose ==
    /\ closePc = "idle"
    /\ closePc' = "copy"
    /\ UNCHANGED <<runPc, runErr, cbPc, senderVars, ctxDone, crashed, sdkVars>>

CopyLogs ==
    /\ closePc = "copy"
    /\ \/ closePc' = "ending"
       \/ CopyCanFail /\ closePc' = "report"
    /\ UNCHANGED <<runPc, runErr, cbPc, senderVars, ctxDone, crashed, sdkVars>>

\* A failed ProcessEnding does not keep Close from Destroy.
ProcessEnding ==
    /\ closePc = "ending"
    /\ endings' = endings + 1
    /\ closePc' = "destroy"
    /\ UNCHANGED <<runPc, runErr, cbPc, senderVars, ctxDone, crashed, ready, activated,
                   destroyed>>

Destroy ==
    /\ closePc = "destroy"
    /\ destroyed' = TRUE
    /\ closePc' = "done"
    /\ UNCHANGED <<runPc, runErr, cbPc, senderVars, ctxDone, crashed, ready, activated,
                   endings>>

Cancel ==
    /\ ~ctxDone
    /\ ctxDone' = TRUE
    /\ UNCHANGED <<runPc, runErr, closePc, cbPc, senderVars, crashed, sdkVars>>

-----------------------------------------------------------------------------

RunStep ==
    PollCancelled \/ ProcessReady \/ ServeContextDone \/ (\E c \in Callback : ServeError(c))

CallbackStep(c) == NotifySucceeds(c) \/ NotifyFails(c) \/ NotifyPanics(c) \/ Activate(c)

CloseStep == CopyLogs \/ ServeCopyError \/ ProcessEnding \/ Destroy

\* On its own, the provider is called by a manager that closes it once, at any time,
\* and takes the events it is handed whenever it likes.
Next ==
    /\ ~crashed
    /\ \/ CallRun \/ PollAnswered \/ RunStep \/ CallClose \/ CloseStep \/ Cancel
       \/ \E c \in Callback : BeginCallback(c) \/ CallbackStep(c)
       \/ \E c \in StartCalls \union TermCalls : Deliver(c) \/ Delivered(c)

Spec == Init /\ [][Next]_vars

\* Every call of the SDK returns and the goroutines are scheduled; a call of the sender may
\* hang.
Fairness ==
    /\ WF_vars(~crashed /\ RunStep)
    /\ WF_vars(~crashed /\ CloseStep)
    /\ \A c \in Callback : WF_vars(~crashed /\ cbPc[c] # "notify" /\ CallbackStep(c))
    /\ \A c \in StartCalls \union TermCalls : WF_vars(~crashed /\ Deliver(c))

FairSpec == Spec /\ Fairness

-----------------------------------------------------------------------------
(* Properties.                                                             *)

\* gamelift.go:260 "The cleanup includes copying game server logs to the designated log
\* directory, notifying GameLift SDK that the process is ending, destroying the SDK resources"
CloseEndsProcess == closePc = "copy" ~> closePc = "done" \/ crashed
=============================================================================
