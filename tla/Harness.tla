------------------------------- MODULE Harness --------------------------------
(***************************************************************************)
(* The game-session harness of the wrapper, pkg/manager/harness.go.        *)
(*                                                                         *)
(* harness.Run spawns a start goroutine and a terminate goroutine, each    *)
(* waiting for one event on an unbuffered channel; HostingStart and        *)
(* HostingTerminate, called on goroutines of the hosting SDK, send those   *)
(* events; harness.Close quicksaves, stops the game and closes the         *)
(* channels.  Nothing but the channels synchronises these goroutines.      *)
(*                                                                         *)
(* The game is the interface game.Server.  All the harness may rely on is  *)
(* that Run returns after the game ended and that Stop returns: a Stop     *)
(* that comes before the launcher set itself up has no effect.  The        *)
(* context given to game.Run is a new one (observability/span.go:33), so   *)
(* nothing the harness does cancels it.                                    *)
(***************************************************************************)
EXTENDS Integers, Sequences, FiniteSets

CONSTANTS
    StartCalls,   \* the SDK goroutines that call HostingStart
    TermCalls,    \* the SDK goroutines that call HostingTerminate
    Targets,      \* number of quicksave targets; 1 when only the top-level one is used
    QuickSave,    \* whether quicksave is enabled
    SpanCanFail   \* whether NewSpanWithTraceId may refuse the session's id

ASSUME HarnessAssumption ==
    /\ StartCalls \intersect TermCalls = {}
    /\ Targets \in Nat \ {0}
    /\ QuickSave \in BOOLEAN
    /\ SpanCanFail \in BOOLEAN

Call == StartCalls \union TermCalls

\* The goroutines that run performQuickSave and then game.Stop.
Saver == {"term", "close"}

VARIABLES
    \* The fields of harness.
    hasEvent,    \* hostingStartEvent # nil
    attempted,   \* quickSaveAttempted
    startOpen,   \* hostingStart is not closed
    termOpen,    \* hostingTerminate is not closed
    \* Goroutines.
    mainPc, mainErr,    \* harness.Run and the error it returned
    startPc, startErr,  \* its start goroutine and the error it is about to send
    savePc, saveIdx,    \* its terminate goroutine, and harness.Close
    callPc,             \* the callers of HostingStart and HostingTerminate
    \* Environment.
    ctxDone,     \* the context given to harness.Run is cancelled
    game,        \* game.Run: "idle", "starting", "up" or "down"
    crashed,     \* a goroutine panicked, which ends the process
    \* History: the targets each saver called, the savers that called game.Stop, and
    \* whether both savers passed the check of attempted before either set it.
    saves, stops, raced

fieldVars == <<hasEvent, attempted, startOpen, termOpen>>
pcVars    == <<mainPc, mainErr, startPc, startErr, savePc, saveIdx, callPc>>
histVars  == <<saves, stops, raced>>
vars == <<fieldVars, pcVars, ctxDone, game, crashed, histVars>>

Init ==
    /\ hasEvent = FALSE /\ attempted = FALSE /\ startOpen = TRUE /\ termOpen = TRUE
    /\ mainPc = "idle" /\ mainErr = FALSE /\ startPc = "idle" /\ startErr = FALSE
    /\ savePc = [a \in Saver |-> "idle"] /\ saveIdx = [a \in Saver |-> 1]
    /\ callPc = [c \in Call |-> "idle"]
    /\ ctxDone = FALSE /\ game = "idle" /\ crashed = FALSE
    /\ saves = [a \in Saver |-> <<>>] /\ stops = {} /\ raced = FALSE

\* The context of the goroutines of harness.Run: cancelled with its parent and by
\* the deferred cancel.
RunCtxDone == ctxDone \/ mainPc = "returned"

Panic == crashed' = TRUE /\ UNCHANGED <<fieldVars, pcVars, ctxDone, game, histVars>>

-----------------------------------------------------------------------------
(* HostingStart and HostingTerminate (the caller passes no end channel).   *)

ChannelOpen(c) == IF c \in StartCalls THEN startOpen ELSE termOpen

\* A send on a closed channel panics.
CallHosting(c) ==
    /\ callPc[c] = "idle"
    /\ \/ /\ ChannelOpen(c)
          /\ callPc' = [callPc EXCEPT ![c] = "sending"]
          /\ UNCHANGED <<fieldVars, mainPc, mainErr, startPc, startErr, savePc, saveIdx,
                         ctxDone, game, crashed, histVars>>
       \/ ~ChannelOpen(c) /\ Panic

-----------------------------------------------------------------------------
(* harness.Run                                                             *)

RunMain ==
    /\ mainPc = "idle"
    /\ mainPc' = "select" /\ startPc' = "select"
    /\ savePc' = [savePc EXCEPT !["term"] = "select"]
    /\ UNCHANGED <<fieldVars, mainErr, startErr, saveIdx, callPc, ctxDone, game, crashed, histVars>>

MainContextDone ==
    /\ mainPc = "select"
    /\ ctxDone
    /\ mainPc' = "returned"
    /\ UNCHANGED <<fieldVars, mainErr, startPc, startErr, savePc, saveIdx, callPc, ctxDone, game,
                   crashed, histVars>>

\* The start goroutine sends the span's error (and panics next: the span is nil) or
\* the result of game.Run.  Without a receiver it stays blocked.
MainStartResult ==
    /\ mainPc = "select"
    /\ startPc \in {"sendSpan", "send"}
    /\ mainPc' = "returned" /\ mainErr' = (startPc = "sendSpan" \/ startErr)
    /\ startPc' = IF startPc = "send" THEN "gone" ELSE "nilSpan"
    /\ UNCHANGED <<fieldVars, startErr, savePc, saveIdx, callPc, ctxDone, game, crashed, histVars>>

\* game.Stop of both launchers returns no error.
MainTerminateResult ==
    /\ mainPc = "select"
    /\ savePc["term"] = "send"
    /\ mainPc' = "returned"
    /\ savePc' = [savePc EXCEPT !["term"] = "gone"]
    /\ UNCHANGED <<fieldVars, mainErr, startPc, startErr, saveIdx, callPc, ctxDone, game,
                   crashed, histVars>>

-----------------------------------------------------------------------------
(* The start goroutine.                                                    *)

ReceiveStart(c) ==
    /\ startPc = "select"
    /\ startOpen /\ callPc[c] = "sending"
    /\ callPc' = [callPc EXCEPT ![c] = "returned"]
    /\ startPc' = "received"
    /\ UNCHANGED <<fieldVars, mainPc, mainErr, startErr, savePc, saveIdx, ctxDone, game,
                   crashed, histVars>>

\* A closed channel yields nil, and the goroutine reads a field of that event.
ReceiveNilStart == startPc = "select" /\ ~startOpen /\ Panic

StartContextDone ==
    /\ startPc = "select"
    /\ RunCtxDone
    /\ startPc' = "gone"
    /\ UNCHANGED <<fieldVars, mainPc, mainErr, startErr, savePc, saveIdx, callPc, ctxDone, game,
                   crashed, histVars>>

\* Mutant: the event is dropped when the context is done.
RunGameUnlessDone ==
    /\ startPc = "received"
    /\ hasEvent' = TRUE
    /\ \/ RunCtxDone /\ startPc' = "gone" /\ game' = game
       \/ ~RunCtxDone /\ startPc' = "run" /\ game' = "starting"
       \/ SpanCanFail /\ startPc' = "sendSpan" /\ game' = game
    /\ UNCHANGED <<attempted, startOpen, termOpen, mainPc, mainErr, startErr, savePc, saveIdx,
                   callPc, ctxDone, crashed, histVars>>

\* Remember the event, open a span, call game.Run.
RunGame ==
    /\ startPc = "received"
    /\ hasEvent' = TRUE
    /\ \/ startPc' = "run" /\ game' = "starting"
       \/ SpanCanFail /\ startPc' = "sendSpan" /\ game' = game
    /\ UNCHANGED <<attempted, startOpen, termOpen, mainPc, mainErr, startErr, savePc, saveIdx,
                   callPc, ctxDone, crashed, histVars>>

\* The deferred span.End() of a nil span.
NilSpanPanic == startPc = "nilSpan" /\ Panic

GameReturns ==
    /\ startPc = "run"
    /\ game = "down"
    /\ startPc' = "send" /\ startErr' \in BOOLEAN
    /\ UNCHANGED <<fieldVars, mainPc, mainErr, savePc, saveIdx, callPc, ctxDone, game,
                   crashed, histVars>>

-----------------------------------------------------------------------------
(* The terminate goroutine up to its quicksave; the call of Close.         *)

ReceiveTerminate(c) ==
    /\ savePc["term"] = "select"
    /\ termOpen /\ callPc[c] = "sending"
    /\ callPc' = [callPc EXCEPT ![c] = "returned"]
    /\ savePc' = [savePc EXCEPT !["term"] = "check"]
    /\ UNCHANGED <<fieldVars, mainPc, mainErr, startPc, startErr, saveIdx, ctxDone, game,
                   crashed, histVars>>

\* A closed channel yields nil, which is only logged.
ReceiveNilTerminate ==
    /\ savePc["term"] = "select"
    /\ ~termOpen
    /\ savePc' = [savePc EXCEPT !["term"] = "check"]
    /\ UNCHANGED <<fieldVars, mainPc, mainErr, startPc, startErr, saveIdx, callPc, ctxDone, game,
                   crashed, histVars>>

TerminateContextDone ==
    /\ savePc["term"] = "select"
    /\ RunCtxDone
    /\ savePc' = [savePc EXCEPT !["term"] = "gone"]
    /\ UNCHANGED <<fieldVars, mainPc, mainErr, startPc, startErr, saveIdx, callPc, ctxDone, game,
                   crashed, histVars>>

CallClose ==
    /\ savePc["close"] = "idle"
    /\ savePc' = [savePc EXCEPT !["close"] = "check"]
    /\ UNCHANGED <<fieldVars, mainPc, mainErr, startPc, startErr, saveIdx, callPc, ctxDone, game,
                   crashed, histVars>>

-----------------------------------------------------------------------------
(* performQuickSave and game.Stop, run by either saver a.                  *)

Other(a) == IF a = "term" THEN "close" ELSE "term"

\* Mutant: a quicksave without a session is not skipped.
CheckSaveAnySession(a) ==
    /\ savePc[a] = "check"
    /\ LET skip == ~QuickSave \/ attempted IN
       /\ savePc' = [savePc EXCEPT ![a] = IF skip THEN "stop" ELSE "set"]
       /\ raced' = (raced \/ (~skip /\ savePc[Other(a)] = "set"))
    /\ UNCHANGED <<fieldVars, mainPc, mainErr, startPc, startErr, saveIdx, callPc, ctxDone, game,
                   crashed, saves, stops>>

\* Mutant: a saver with nothing to save does not stop the game.
CheckSaveReturnsEarly(a) ==
    /\ savePc[a] = "check"
    /\ LET skip == ~QuickSave \/ ~hasEvent \/ attempted IN
       /\ savePc' = [savePc EXCEPT ![a] = IF skip THEN "stopping" ELSE "set"]
       /\ raced' = (raced \/ (~skip /\ savePc[Other(a)] = "set"))
    /\ UNCHANGED <<fieldVars, mainPc, mainErr, startPc, startErr, saveIdx, callPc, ctxDone, game,
                   crashed, saves, stops>>

\* The test of the fields and the assignment below are not one atomic step.
CheckSave(a) ==
    /\ savePc[a] = "check"
    /\ LET skip == ~QuickSave \/ ~hasEvent \/ attempted IN
       /\ savePc' = [savePc EXCEPT ![a] = IF skip THEN "stop" ELSE "set"]
       /\ raced' = (raced \/ (~skip /\ savePc[Other(a)] = "set"))
    /\ UNCHANGED <<fieldVars, mainPc, mainErr, startPc, startErr, saveIdx, callPc, ctxDone, game,
                   crashed, saves, stops>>

\* Mutant: the attempt is not remembered.
SetAttemptedNever(a) ==
    /\ savePc[a] = "set"
    /\ savePc' = [savePc EXCEPT ![a] = "save"]
    /\ UNCHANGED <<fieldVars, mainPc, mainErr, startPc, startErr, saveIdx, callPc, ctxDone, game,
                   crashed, histVars>>

SetAttempted(a) ==
    /\ savePc[a] = "set"
    /\ attempted' = TRUE
    /\ savePc' = [savePc EXCEPT ![a] = "save"]
    /\ UNCHANGED <<hasEvent, startOpen, termOpen, mainPc, mainErr, startPc, startErr, saveIdx,
                   callPc, ctxDone, game, crashed, histVars>>

\* The HTTP call of the next target.
BeginSave(a) ==
    /\ savePc[a] = "save"
    /\ saves' = [saves EXCEPT ![a] = Append(@, saveIdx[a])]
    /\ savePc' = [savePc EXCEPT ![a] = "saving"]
    /\ UNCHANGED <<fieldVars, mainPc, mainErr, startPc, startErr, saveIdx, callPc, ctxDone, game,
                   crashed, stops, raced>>

\* Mutant: a failed quicksave ends the loop.
EndSaveGivesUp(a) ==
    /\ savePc[a] = "saving"
    /\ saveIdx' = [saveIdx EXCEPT ![a] = @ + 1]
    /\ \E ok \in BOOLEAN :
          savePc' = [savePc EXCEPT ![a] = IF ok /\ saveIdx[a] # Targets THEN "save" ELSE "stop"]
    /\ UNCHANGED <<fieldVars, mainPc, mainErr, startPc, startErr, callPc, ctxDone, game,
                   crashed, histVars>>

\* It succeeded, failed or timed out, which is only logged, and the wait is over.
EndSave(a) ==
    /\ savePc[a] = "saving"
    /\ saveIdx' = [saveIdx EXCEPT ![a] = @ + 1]
    /\ savePc' = [savePc EXCEPT ![a] = IF saveIdx[a] = Targets THEN "stop" ELSE "save"]
    /\ UNCHANGED <<fieldVars, mainPc, mainErr, startPc, startErr, callPc, ctxDone, game,
                   crashed, histVars>>

CallStop(a) ==
    /\ savePc[a] = "stop"
    /\ stops' = stops \union {a}
    /\ savePc' = [savePc EXCEPT ![a] = "stopping"]
    /\ UNCHANGED <<fieldVars, mainPc, mainErr, startPc, startErr, saveIdx, callPc, ctxDone, game,
                   crashed, saves, raced>>

StopReturns(a) ==
    /\ savePc[a] = "stopping"
    /\ savePc' = [savePc EXCEPT ![a] = IF a = "term" THEN "send" ELSE "closeTerm"]
    /\ UNCHANGED <<fieldVars, mainPc, mainErr, startPc, startErr, saveIdx, callPc, ctxDone, game,
                   crashed, histVars>>

-----------------------------------------------------------------------------
(* The end of Close: closing a channel panics every sender blocked on it.  *)

\* Mutant: Close waits for the callers of HostingTerminate before it closes.
CloseTerminateWaits ==
    /\ savePc["close"] = "closeTerm"
    /\ \A c \in TermCalls : callPc[c] # "sending"
    /\ termOpen' = FALSE
    /\ savePc' = [savePc EXCEPT !["close"] = "closeStart"]
    /\ UNCHANGED <<hasEvent, attempted, startOpen, mainPc, mainErr, startPc, startErr,
                   saveIdx, callPc, ctxDone, game, crashed, histVars>>

CloseTerminate ==
    /\ savePc["close"] = "closeTerm"
    /\ \/ /\ \A c \in TermCalls : callPc[c] # "sending"
          /\ termOpen' = FALSE
          /\ savePc' = [savePc EXCEPT !["close"] = "closeStart"]
          /\ UNCHANGED <<hasEvent, attempted, startOpen, mainPc, mainErr, startPc, startErr,
                         saveIdx, callPc, ctxDone, game, crashed, histVars>>
       \/ (\E c \in TermCalls : callPc[c] = "sending") /\ Panic

CloseStart ==
    /\ savePc["close"] = "closeStart"
    /\ \/ /\ \A c \in StartCalls : callPc[c] # "sending"
          /\ startOpen' = FALSE
          /\ savePc' = [savePc EXCEPT !["close"] = "done"]
          /\ UNCHANGED <<hasEvent, attempted, termOpen, mainPc, mainErr, startPc, startErr,
                         saveIdx, callPc, ctxDone, game, crashed, histVars>>
       \/ (\E c \in StartCalls : callPc[c] = "sending") /\ Panic

-----------------------------------------------------------------------------
(* The environment: the game, the context, the manager that calls Close.   *)

GameUp ==
    /\ game = "starting"
    /\ game' = "up"
    /\ UNCHANGED <<fieldVars, pcVars, ctxDone, crashed, histVars>>

\* The game did not start, ended by itself or was stopped.
GameDown ==
    /\ game \in {"starting", "up"}
    /\ game' = "down"
    /\ UNCHANGED <<fieldVars, pcVars, ctxDone, crashed, histVars>>

Cancel ==
    /\ ~ctxDone
    /\ ctxDone' = TRUE
    /\ UNCHANGED <<fieldVars, pcVars, game, crashed, histVars>>

\* A callback of the hosting provider panics before it calls the harness.
ProviderPanics == Panic

\* manager.Run returns nil, and Close follows, when the context is done or
\* harness.Run returned nil; hosting.Run returns nil only in the first case.
MayClose == ctxDone \/ (mainPc = "returned" /\ ~mainErr)

-----------------------------------------------------------------------------

MainStep == RunMain \/ MainContextDone \/ MainStartResult \/ MainTerminateResult

StartStep ==
    \/ \E c \in StartCalls : ReceiveStart(c)
    \/ ReceiveNilStart \/ StartContextDone \/ RunGame \/ NilSpanPanic \/ GameReturns

SaveStep(a) ==
    CheckSave(a) \/ SetAttempted(a) \/ BeginSave(a) \/ EndSave(a) \/ CallStop(a) \/ StopReturns(a)

TermStep ==
    \/ \E c \in TermCalls : ReceiveTerminate(c)
    \/ ReceiveNilTerminate \/ TerminateContextDone \/ SaveStep("term")

CloseStep == SaveStep("close") \/ CloseTerminate \/ CloseStart

Next ==
    /\ ~crashed
    /\ \/ MainStep \/ StartStep \/ TermStep \/ CloseStep
       \/ \E c \in Call : CallHosting(c)
       \/ MayClose /\ CallClose
       \/ GameUp \/ GameDown \/ Cancel \/ ProviderPanics

Spec == Init /\ [][Next]_vars

\* Go schedules every goroutine that can run, and game.Stop returns.  The game may run
\* forever and no event need ever arrive.  A quicksave has a 30 s timeout, but the request
\* for the token it may need first has none: it may hang.
Fairness ==
    /\ WF_vars(~crashed /\ MainStep)
    /\ WF_vars(~crashed /\ StartStep)
    /\ WF_vars(~crashed /\ TermStep /\ ~EndSave("term"))
    /\ WF_vars(~crashed /\ CloseStep /\ ~EndSave("close"))

FairSpec == Spec /\ Fairness

-----------------------------------------------------------------------------
(* Properties.                                                             *)

\* A saver that began to quicksave calls game.Stop only after it has called every
\* target once, in the configured order, whatever each call returned.
SavesCompleteBeforeOwnStop ==
    \A a \in stops : saves[a] \in {<<>>, [i \in 1..Targets |-> i]}

\* Quicksaves are sent twice only through the unsynchronised test-then-set of
\* quickSaveAttempted: in every other interleaving one saver's attempt silences the
\* other.
DoubleSaveOnlyByRace == saves["term"] # <<>> /\ saves["close"] # <<>> => raced

\* A quicksave is sent only for a session that was handed to the game harness.
SaveNeedsSession == (\E a \in Saver : saves[a] # <<>>) => hasEvent /\ QuickSave

\* An accepted terminate event stops the game even if harness.Run has returned since,
\* unless the quicksave before it hangs.
TerminateStopsGame ==
    []<>(savePc["term"] # "saving") => (savePc["term"] = "check" ~> "term" \in stops \/ crashed)

\* An accepted start event reaches game.Run.
StartRunsGame == startPc = "received" ~> game # "idle" \/ startPc = "sendSpan" \/ crashed

\* Close returns, unless the process crashes first or its own quicksave hangs; whatever the
\* other goroutines are stuck in, a quicksave of theirs included.
CloseReturns ==
    []<>(savePc["close"] # "saving") =>
        (savePc["close"] = "check" ~> savePc["close"] = "done" \/ crashed)

\* harness.go:252 "This method ensures quicksave completes before the game server is stopped."
SaveCompletesBeforeStop ==
    (\E a \in Saver : savePc[a] \in {"save", "saving"}) => stops = {}
=============================================================================
