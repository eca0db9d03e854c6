---------------------------- MODULE Wrapper_proofs ----------------------------
(***************************************************************************)
(* Theorems about Wrapper, for every set of callbacks: why the process can *)
(* panic, what exit code 0 means, that the process implements Session, and *)
(* that it uses the harness the way Harness assumes.                       *)
(***************************************************************************)
EXTENDS Wrapper, TLAPS

Callback == StartCalls \union TermCalls \union UpdateCalls
Call == StartCalls \union TermCalls
Saver == {"term", "close"}

SaverPlace == {"idle", "select", "check", "set", "save", "saving", "stop", "stopping", "send",
               "closeTerm", "closeStart", "done", "gone"}

\* Types, as far as the proofs need them.
TypeInv ==
    /\ callPc \in [Call -> {"idle", "sending", "returned"}]
    /\ cbPc \in [Callback -> {"idle", "notify", "activate", "deliver", "waiting", "report", "done"}]
    /\ notice \in [Callback -> {"idle", "sending", "sent", "failed"}]
    /\ savePc \in [Saver -> SaverPlace]

\* What GameLift was told before a callback is where it is, and before the harness is called.
CallbackInv ==
    /\ ready => runPc \in {"serve", "returned"}
    /\ \A c \in Callback : cbPc[c] # "idle" => ready
    /\ \A c \in Callback : cbPc[c] = "activate" => c \in StartCalls /\ notice[c] = "sent"
    /\ \A c \in StartCalls :
          cbPc[c] \in {"deliver", "waiting"} \/ callPc[c] # "idle" => activated
    /\ \A c \in Call : callPc[c] # "idle" => cbPc[c] # "idle"
    /\ atRisk # {} => EmitEvents

\* The game runs once, for an active session.
GameInv ==
    /\ mainPc = "idle" => startPc = "idle"
    /\ startPc \notin {"idle", "select", "gone"} => activated /\ ready
    /\ game # "idle" => activated
    /\ startPc \in {"idle", "select", "received"} => game = "idle"
    /\ startPc = "send" => game = "down"
    /\ startPc \in {"sendSpan", "nilSpan"} => SpanCanFail

\* hosting.Run is past ProcessReady, or a signal came.
Begun == ctxDone \/ runPc \in {"serve", "returned"}

\* The end was asked for, or the game is over.
Over == S!AskedToEnd \/ game = "down"

\* What has happened when a goroutine is on its way to the end of the session.
EndInv ==
    /\ runPc = "returned" /\ ~runErr => ctxDone
    /\ mainPc = "returned" => Begun
    /\ mainPc = "returned" /\ ~mainErr => Over
    /\ savePc["term"] \notin {"idle", "select", "gone"} => Begun /\ Over
    /\ runnerPc = "close" => H!MayClose
    /\ runnerPc \in {"close", "closing"} \/ closePc # "idle" \/ savePc["close"] # "idle"
          => Begun /\ Over

\* How far manager.Close has come.
CloseInv ==
    /\ savePc["close"] # "idle" => runnerPc \in {"closing", "leaving", "exited"}
    /\ ~startOpen \/ ~termOpen => savePc["close"] # "idle"
    /\ savePc["close"] \in {"stopping", "closeTerm", "closeStart", "done"} => "close" \in stops
    /\ savePc["close"] \in {"closeStart", "done"} => ~termOpen
    /\ savePc["close"] = "done" => ~startOpen
    /\ closePc # "idle" => savePc["close"] = "done"
    /\ endings = IF closePc \in {"destroy", "done"} THEN 1 ELSE 0
    /\ destroyed <=> closePc = "done"
    /\ runnerPc \in {"leaving", "exited"} /\ ~exitErr => closePc = "done"

Inv == TypeInv /\ CallbackInv /\ GameInv /\ EndInv /\ CloseInv /\ CrashesAreKnown

-----------------------------------------------------------------------------
(* The steps of the runner, of the harness and of the provider, and what   *)
(* each of them leaves alone.                                              *)

HarnessSteps == HarnessStep \/ HarnessCloseStep \/ GameStep \/ \E c \in Call : CallHarness(c)

HostingSteps ==
    \/ HostingStep \/ HostingCloseStep \/ EndpointAnswers
    \/ \E c \in Callback : BeginCallback(c) \/ CallbackStep(c)
    \/ \E c \in Call : CallManager(c) \/ ManagerCallReturns(c)

LEMMA StepCases ==
    ASSUME Next
    PROVE  Alive /\ (RunnerStep \/ Signal \/ HarnessSteps \/ HostingSteps)
  BY DEF Next, HarnessSteps, HostingSteps, Delivery, Callback, Call, G!Callback, G!N!Callback,
         H!Call

LEMMA RunnerFrame ==
    ASSUME RunnerStep \/ Signal
    PROVE  /\ UNCHANGED <<hasEvent, attempted, startOpen, termOpen, mainPc, mainErr, startPc,
                          startErr, saveIdx, callPc, game, saves, stops, raced>>
           /\ UNCHANGED <<runPc, runErr, cbPc, notice, gameSession, atRisk, ready, activated,
                          endings, destroyed, crashed>>
           /\ ctxDone => ctxDone'
<1> DEFINE Unchanged ==
        /\ UNCHANGED <<hasEvent, attempted, startOpen, termOpen, mainPc, mainErr, startPc,
                       startErr, saveIdx, callPc, game, saves, stops, raced>>
        /\ UNCHANGED <<runPc, runErr, cbPc, notice, gameSession, atRisk, ready, activated,
                       endings, destroyed, crashed>>
<1>1. ASSUME \/ InitHosting \/ InitGame \/ ManagerContextDone \/ ManagerGameResult
             \/ ManagerHostingResult \/ CloseReturns \/ Exit
      PROVE  Unchanged /\ ctxDone' = ctxDone
  BY <1>1 DEF InitHosting, InitGame, ManagerContextDone, ManagerGameResult, ManagerHostingResult,
              CloseReturns, Exit, harnessVars, hostingVars, sharedVars
<1>2. ASSUME CloseHarness PROVE Unchanged /\ ctxDone' = ctxDone
  BY <1>2 DEF CloseHarness, H!CallClose, H!fieldVars, H!histVars, hostingVars
<1>3. ASSUME CloseHosting PROVE Unchanged /\ ctxDone' = ctxDone
  BY <1>3 DEF CloseHosting, G!CallClose, G!senderVars, G!sdkVars, harnessVars
<1>4. ASSUME Signal PROVE Unchanged /\ ctxDone' = TRUE
  BY <1>4 DEF Signal, harnessVars, hostingVars
<1>5. Unchanged
  BY <1>1, <1>2, <1>3, <1>4 DEF RunnerStep
<1>6. ctxDone' = ctxDone \/ ctxDone' = TRUE
  BY <1>1, <1>2, <1>3, <1>4 DEF RunnerStep
<1> QED BY <1>5, <1>6

LEMMA HarnessFrame ==
    ASSUME HarnessSteps
    PROVE  UNCHANGED <<runnerVars, hostingVars, ctxDone>>
<1>1. ASSUME NEW a \in Saver, H!SaveStep(a) PROVE ctxDone' = ctxDone
  BY <1>1 DEF H!SaveStep, H!CheckSave, H!SetAttempted, H!BeginSave, H!EndSave, H!CallStop,
              H!StopReturns
<1>2. ctxDone' = ctxDone
  BY <1>1 DEF HarnessSteps, HarnessStep, HarnessCloseStep, GameStep, CallHarness, H!RunMain,
              H!MainContextDone, H!MainStartResult, H!MainTerminateResult, H!StartStep,
              H!ReceiveStart, H!ReceiveNilStart, H!StartContextDone, H!RunGame, H!NilSpanPanic,
              H!GameReturns, H!TermStep, H!ReceiveTerminate, H!ReceiveNilTerminate,
              H!TerminateContextDone, H!CloseStep, H!CloseTerminate, H!CloseStart, H!GameUp,
              H!GameDown, H!CallHosting, H!Panic, Saver
<1> QED BY <1>2 DEF HarnessSteps, HarnessStep, HarnessCloseStep, GameStep, CallHarness

LEMMA HostingFrame ==
    ASSUME HostingSteps
    PROVE  UNCHANGED <<runnerVars, harnessVars, ctxDone>>
  BY DEF HostingSteps, HostingStep, HostingCloseStep, EndpointAnswers, BeginCallback,
         CallbackStep, CallManager, ManagerCallReturns, G!CallRun, G!RunStep, G!PollAnswered,
         G!PollCancelled, G!ProcessReady, G!ServeContextDone, G!ServeError, G!CloseStep,
         G!CopyLogs, G!ServeCopyError, G!ProcessEnding, G!Destroy, G!BeginCallback,
         G!CallbackStep, G!NotifySucceeds, G!NotifyFails, G!NotifyPanics, G!Activate, G!Deliver,
         G!Delivered

\* The provider's steps, by what they change: its Run and Close with the errors they read, and
\* the callbacks.
LEMMA HostingCases ==
    ASSUME HostingSteps
    PROVE  \/ G!CallRun \/ G!PollAnswered \/ G!PollCancelled \/ G!ProcessReady
           \/ G!ServeContextDone \/ G!CloseStep
           \/ \E c \in Callback : \/ G!ServeError(c) \/ G!BeginCallback(c) \/ G!Activate(c)
                                  \/ G!NotifySucceeds(c) \/ G!NotifyFails(c) \/ G!NotifyPanics(c)
           \/ \E c \in Call : G!Deliver(c) \/ G!Delivered(c)
  BY DEF HostingSteps, HostingStep, HostingCloseStep, EndpointAnswers, BeginCallback,
         CallbackStep, CallManager, ManagerCallReturns, G!RunStep, G!CallbackStep, Callback,
         G!Callback, G!N!Callback

\* The harness's steps, by goroutine.
LEMMA HarnessCases ==
    ASSUME HarnessSteps
    PROVE  \/ H!RunMain \/ H!MainContextDone \/ H!MainStartResult \/ H!MainTerminateResult
           \/ \E c \in StartCalls : H!ReceiveStart(c)
           \/ H!ReceiveNilStart \/ H!StartContextDone \/ H!RunGame \/ H!NilSpanPanic
           \/ H!GameReturns
           \/ \E c \in TermCalls : H!ReceiveTerminate(c)
           \/ H!ReceiveNilTerminate \/ H!TerminateContextDone
           \/ \E a \in Saver : H!SaveStep(a)
           \/ H!CloseTerminate \/ H!CloseStart \/ H!GameUp \/ H!GameDown
           \/ \E c \in Call : cbPc[c] = "waiting" /\ H!CallHosting(c)
  BY DEF HarnessSteps, HarnessStep, HarnessCloseStep, GameStep, CallHarness, H!StartStep,
         H!TermStep, H!CloseStep, Saver

-----------------------------------------------------------------------------
(* The invariant, part by part.                                            *)

LEMMA TypeNext == TypeInv /\ [Next]_vars => TypeInv'
<1> SUFFICES ASSUME TypeInv, [Next]_vars PROVE TypeInv'
  OBVIOUS
<1> USE DEF TypeInv, Callback, Call, Saver, SaverPlace
<1>1. CASE UNCHANGED vars
  BY <1>1 DEF vars, harnessVars, hostingVars
<1>2. CASE RunnerStep \/ Signal
  <2>1. savePc' = savePc \/ savePc' = [savePc EXCEPT !["close"] = "check"]
    BY <1>2 DEF RunnerStep, InitHosting, InitGame, ManagerContextDone, ManagerGameResult,
                ManagerHostingResult, CloseHarness, CloseHosting, CloseReturns, Exit, Signal,
                H!CallClose, harnessVars
  <2> QED BY <1>2, <2>1, RunnerFrame
<1>3. CASE HostingSteps
  <2>1. UNCHANGED <<callPc, savePc>>
    BY <1>3, HostingFrame DEF harnessVars
  <2>2. ASSUME NEW c \in Callback, \/ G!ServeError(c) \/ G!BeginCallback(c) \/ G!Activate(c)
                                   \/ G!NotifySucceeds(c) \/ G!NotifyFails(c)
                                   \/ G!NotifyPanics(c) \/ G!Deliver(c) \/ G!Delivered(c)
        PROVE  TypeInv'
    BY <2>1, <2>2 DEF G!ServeError, G!AfterReport, G!BeginCallback, G!NotifySucceeds,
              G!NotifyFails, G!NotifyPanics, G!Activate, G!AfterNotify, G!Deliver, G!Delivered,
              G!N!Begin, G!N!Succeed, G!N!Fail, G!N!Panic, G!senderVars
  <2>3. CASE G!CallRun \/ G!PollAnswered \/ G!PollCancelled \/ G!ProcessReady
             \/ G!ServeContextDone \/ G!CloseStep
    BY <2>1, <2>3 DEF G!CallRun, G!PollAnswered, G!PollCancelled, G!ProcessReady,
              G!ServeContextDone, G!CloseStep, G!CopyLogs, G!ServeCopyError, G!ProcessEnding,
              G!Destroy, G!senderVars
  <2> QED BY <1>3, <2>2, <2>3, HostingCases
<1>4. CASE HarnessSteps
  <2>1. UNCHANGED <<cbPc, notice>>
    BY <1>4, HarnessFrame DEF hostingVars
  <2>2. ASSUME NEW a \in Saver, H!SaveStep(a) PROVE TypeInv'
    BY <2>1, <2>2 DEF H!SaveStep, H!CheckSave, H!SetAttempted, H!BeginSave, H!EndSave,
                      H!CallStop, H!StopReturns
  <2>3. ASSUME NEW c \in Call, H!ReceiveStart(c) \/ H!ReceiveTerminate(c) \/ H!CallHosting(c)
        PROVE  TypeInv'
    BY <2>1, <2>3 DEF H!ReceiveStart, H!ReceiveTerminate, H!CallHosting, H!Panic, H!pcVars
  <2>4. CASE \/ H!RunMain \/ H!MainContextDone \/ H!MainStartResult \/ H!MainTerminateResult
             \/ H!ReceiveNilStart \/ H!StartContextDone \/ H!RunGame \/ H!NilSpanPanic
             \/ H!GameReturns \/ H!ReceiveNilTerminate \/ H!TerminateContextDone
             \/ H!CloseTerminate \/ H!CloseStart \/ H!GameUp \/ H!GameDown
    BY <2>1, <2>4 DEF H!RunMain, H!MainContextDone, H!MainStartResult, H!MainTerminateResult,
              H!ReceiveNilStart, H!StartContextDone, H!RunGame, H!NilSpanPanic, H!GameReturns,
              H!ReceiveNilTerminate, H!TerminateContextDone, H!CloseTerminate, H!CloseStart,
              H!GameUp, H!GameDown, H!Panic, H!pcVars
  <2> QED BY <1>4, <2>2, <2>3, <2>4, HarnessCases
<1> QED BY <1>1, <1>2, <1>3, <1>4, StepCases

LEMMA CallbackNext == TypeInv /\ CallbackInv /\ [Next]_vars => CallbackInv'
<1> SUFFICES ASSUME TypeInv, CallbackInv, [Next]_vars PROVE CallbackInv'
  OBVIOUS
<1> USE WrapperAssumption DEF TypeInv, CallbackInv, Callback, Call
<1>1. CASE UNCHANGED vars
  BY <1>1 DEF vars, harnessVars, hostingVars
<1>2. CASE RunnerStep \/ Signal
  BY <1>2, RunnerFrame
<1>3. CASE HostingSteps
  <2>1. UNCHANGED callPc
    BY <1>3, HostingFrame DEF harnessVars
  <2>2. ASSUME NEW c \in Callback, G!ServeError(c) PROVE CallbackInv'
    BY <2>1, <2>2 DEF G!ServeError, G!AfterReport, G!RunReturns, G!senderVars, G!sdkVars
  <2>3. CASE G!CallRun \/ G!PollAnswered \/ G!PollCancelled \/ G!ProcessReady
             \/ G!ServeContextDone
    <3>1. UNCHANGED <<cbPc, notice, atRisk, activated>>
      BY <2>3 DEF G!CallRun, G!PollAnswered, G!PollCancelled, G!ProcessReady,
                G!ServeContextDone, G!senderVars, G!sdkVars
    <3>2. (ready => ready') /\ (ready' => runPc' \in {"serve", "returned"})
      BY <2>3 DEF G!CallRun, G!PollAnswered, G!PollCancelled, G!ProcessReady, G!ServeContextDone,
                G!RunReturns, G!senderVars, G!sdkVars
    <3> QED BY <2>1, <3>1, <3>2
  <2>4. CASE G!CloseStep
    BY <2>1, <2>4 DEF G!CloseStep, G!CopyLogs, G!ServeCopyError, G!ProcessEnding, G!Destroy,
              G!RunReturns, G!senderVars, G!sdkVars
  <2>5. ASSUME NEW c \in Callback, G!BeginCallback(c) PROVE CallbackInv'
    BY <2>1, <2>5 DEF G!BeginCallback, G!N!Begin, G!sdkVars
  <2>6. ASSUME NEW c \in Callback, \/ G!NotifySucceeds(c) \/ G!NotifyFails(c)
                                   \/ G!NotifyPanics(c) \/ G!Activate(c)
        PROVE  CallbackInv'
    BY <2>1, <2>6 DEF G!NotifySucceeds, G!NotifyFails, G!NotifyPanics, G!Activate,
              G!AfterNotify, G!N!Succeed, G!N!Fail, G!N!Panic, G!senderVars, G!sdkVars
  <2>7. ASSUME NEW c \in Call, G!Deliver(c) \/ G!Delivered(c) PROVE CallbackInv'
    BY <2>1, <2>7 DEF G!Deliver, G!Delivered, G!senderVars, G!sdkVars
  <2> QED BY <1>3, <2>2, <2>3, <2>4, <2>5, <2>6, <2>7, HostingCases
<1>4. CASE HarnessSteps
  <2>1. UNCHANGED hostingVars
    BY <1>4, HarnessFrame
  <2>2. \A c \in Call : callPc'[c] # "idle" => callPc[c] # "idle" \/ cbPc[c] = "waiting"
    <3>1. ASSUME NEW a \in Saver, H!SaveStep(a) PROVE callPc' = callPc
      BY <3>1 DEF H!SaveStep, H!CheckSave, H!SetAttempted, H!BeginSave, H!EndSave,
                  H!CallStop, H!StopReturns
    <3> QED BY <1>4, <3>1, HarnessCases DEF H!RunMain, H!MainContextDone, H!MainStartResult,
              H!MainTerminateResult, H!ReceiveStart, H!ReceiveNilStart, H!StartContextDone,
              H!RunGame, H!NilSpanPanic, H!GameReturns, H!ReceiveTerminate,
              H!ReceiveNilTerminate, H!TerminateContextDone, H!CloseTerminate, H!CloseStart,
              H!GameUp, H!GameDown, H!CallHosting, H!Panic, H!pcVars
  <2> QED BY <2>1, <2>2 DEF hostingVars
<1> QED BY <1>1, <1>2, <1>3, <1>4, StepCases

\* The provider never takes back what it told GameLift.
LEMMA Told == ASSUME HostingSteps PROVE (ready => ready') /\ (activated => activated')
<1>1. ready' = ready \/ ready' = TRUE
  BY HostingCases DEF G!CallRun, G!PollAnswered, G!PollCancelled, G!ProcessReady,
         G!ServeContextDone, G!ServeError, G!CloseStep, G!CopyLogs, G!ServeCopyError,
         G!ProcessEnding, G!Destroy, G!BeginCallback, G!NotifySucceeds, G!NotifyFails,
         G!NotifyPanics, G!Activate, G!Deliver, G!Delivered, G!sdkVars
<1>2. activated' = activated \/ activated' = TRUE
  BY HostingCases DEF G!CallRun, G!PollAnswered, G!PollCancelled, G!ProcessReady,
         G!ServeContextDone, G!ServeError, G!CloseStep, G!CopyLogs, G!ServeCopyError,
         G!ProcessEnding, G!Destroy, G!BeginCallback, G!NotifySucceeds, G!NotifyFails,
         G!NotifyPanics, G!Activate, G!Deliver, G!Delivered, G!sdkVars
<1> QED BY <1>1, <1>2

LEMMA GameNext == TypeInv /\ CallbackInv /\ GameInv /\ [Next]_vars => GameInv'
<1> SUFFICES ASSUME TypeInv, CallbackInv, GameInv, [Next]_vars PROVE GameInv'
  OBVIOUS
<1> USE DEF GameInv
<1>1. CASE UNCHANGED vars
  BY <1>1 DEF vars, harnessVars, hostingVars
<1>2. CASE RunnerStep \/ Signal
  BY <1>2, RunnerFrame
<1>3. CASE HostingSteps
  BY <1>3, HostingFrame, Told DEF harnessVars
<1>4. CASE HarnessSteps
  <2>1. UNCHANGED <<ready, activated>>
    BY <1>4, HarnessFrame DEF hostingVars
  <2>2. ASSUME NEW a \in Saver, H!SaveStep(a) PROVE GameInv'
    BY <2>1, <2>2 DEF H!SaveStep, H!CheckSave, H!SetAttempted, H!BeginSave, H!EndSave,
                      H!CallStop, H!StopReturns
  <2>3. ASSUME NEW c \in StartCalls, H!ReceiveStart(c) PROVE GameInv'
    <3>1. activated /\ ready
      BY <2>3 DEF H!ReceiveStart, CallbackInv, Call, Callback
    <3> QED BY <2>1, <2>3, <3>1 DEF H!ReceiveStart
  <2> QED BY <1>4, <2>1, <2>2, <2>3, HarnessCases DEF H!RunMain, H!MainContextDone,
              H!MainStartResult, H!MainTerminateResult, H!ReceiveNilStart, H!StartContextDone,
              H!RunGame, H!NilSpanPanic, H!GameReturns, H!ReceiveTerminate,
              H!ReceiveNilTerminate, H!TerminateContextDone, H!CloseTerminate, H!CloseStart,
              H!GameUp, H!GameDown, H!CallHosting, H!Panic, H!pcVars
<1> QED BY <1>1, <1>2, <1>3, <1>4, StepCases

\* What has once begun or is over stays so.
LEMMA Stable ==
    ASSUME TypeInv, GameInv, Next
    PROVE  (Begun => Begun') /\ (Over => Over')
<1>1. ctxDone => ctxDone'
  BY StepCases, RunnerFrame, HarnessFrame, HostingFrame
<1>2. ASSUME NEW o \in Callback, cbPc[o] # "idle" PROVE cbPc'[o] # "idle"
  <2>1. CASE RunnerStep \/ Signal \/ HarnessSteps
    BY <1>2, <2>1, RunnerFrame, HarnessFrame DEF hostingVars
  <2>2. CASE HostingSteps
    BY <1>2, <2>2, HostingCases DEF TypeInv, Callback, Call, G!CallRun, G!PollAnswered,
              G!PollCancelled, G!ProcessReady, G!ServeContextDone, G!ServeError, G!AfterReport,
              G!CloseStep, G!CopyLogs, G!ServeCopyError, G!ProcessEnding, G!Destroy,
              G!BeginCallback, G!NotifySucceeds, G!NotifyFails, G!NotifyPanics, G!Activate,
              G!AfterNotify, G!Deliver, G!Delivered
  <2> QED BY <2>1, <2>2, StepCases
<1>3. game = "down" => game' = "down"
  <2>1. CASE RunnerStep \/ Signal \/ HostingSteps
    BY <2>1, RunnerFrame, HostingFrame DEF harnessVars
  <2>2. ASSUME NEW a \in Saver, H!SaveStep(a) PROVE game' = game
    BY <2>2 DEF H!SaveStep, H!CheckSave, H!SetAttempted, H!BeginSave, H!EndSave, H!CallStop,
                H!StopReturns
  <2>3. CASE HarnessSteps
    BY <2>2, <2>3, HarnessCases DEF GameInv, H!RunMain, H!MainContextDone,
              H!MainStartResult, H!MainTerminateResult, H!ReceiveStart, H!ReceiveNilStart,
              H!StartContextDone, H!RunGame, H!NilSpanPanic, H!GameReturns, H!ReceiveTerminate,
              H!ReceiveNilTerminate, H!TerminateContextDone, H!CloseTerminate, H!CloseStart,
              H!GameUp, H!GameDown, H!CallHosting, H!Panic
  <2> QED BY <2>1, <2>3, StepCases
<1>4. runPc \in {"serve", "returned"} => runPc' \in {"serve", "returned"}
  <2>1. CASE RunnerStep \/ Signal \/ HarnessSteps
    BY <2>1, RunnerFrame, HarnessFrame DEF hostingVars
  <2>2. CASE HostingSteps
    BY <2>2, HostingCases DEF G!CallRun, G!PollAnswered, G!PollCancelled, G!ProcessReady,
              G!ServeContextDone, G!ServeError, G!RunReturns, G!CloseStep, G!CopyLogs,
              G!ServeCopyError, G!ProcessEnding, G!Destroy, G!BeginCallback, G!NotifySucceeds,
              G!NotifyFails, G!NotifyPanics, G!Activate, G!Deliver, G!Delivered
  <2> QED BY <2>1, <2>2, StepCases
<1> QED BY <1>1, <1>2, <1>3, <1>4 DEF Begun, Over, S!AskedToEnd, Callback

LEMMA EndNext ==
    TypeInv /\ CallbackInv /\ GameInv /\ CloseInv /\ EndInv /\ [Next]_vars => EndInv'
<1> SUFFICES ASSUME TypeInv, CallbackInv, GameInv, CloseInv, EndInv, [Next]_vars PROVE EndInv'
  OBVIOUS
<1>1. CASE UNCHANGED vars
  BY <1>1 DEF vars, runnerVars, harnessVars, hostingVars, sharedVars, EndInv, Begun, Over,
              S!AskedToEnd, H!MayClose
<1> SUFFICES ASSUME Next PROVE EndInv'
  BY <1>1
<1>2. (Begun => Begun') /\ (Over => Over')
  BY Stable
<1>3. ctxDone => Begun /\ Over
  BY DEF Begun, Over, S!AskedToEnd
<1>4. CASE RunnerStep \/ Signal
  <2>1. UNCHANGED <<mainPc, mainErr, runPc, runErr>> /\ (ctxDone => ctxDone')
    BY <1>4, RunnerFrame
  <2>2. H!MayClose => H!MayClose'
    BY <2>1 DEF H!MayClose
  <2>3. CASE InitHosting \/ InitGame \/ CloseReturns \/ Exit \/ Signal
    <3>1. UNCHANGED <<savePc, closePc>>
      BY <2>3 DEF InitHosting, InitGame, CloseReturns, Exit, Signal, harnessVars, hostingVars
    <3>2. runnerPc' \in {"close", "closing"} => runnerPc' = runnerPc
      BY <2>3 DEF InitHosting, InitGame, CloseReturns, Exit, Signal, Leave, runnerVars
    <3> QED BY <1>2, <2>1, <2>2, <3>1, <3>2 DEF EndInv
  <2>4. CASE ManagerContextDone \/ ManagerGameResult \/ ManagerHostingResult
    <3>1. UNCHANGED <<savePc, closePc>>
      BY <2>4 DEF ManagerContextDone, ManagerGameResult, ManagerHostingResult, harnessVars,
                  hostingVars
    <3>2. runnerPc' = "leaving" \/ (runnerPc' = "close" /\ H!MayClose /\ Begun /\ Over)
      BY <1>3, <2>4 DEF ManagerContextDone, ManagerGameResult, ManagerHostingResult,
                  ManagerReturns, Leave, EndInv, H!MayClose
    <3> QED BY <1>2, <2>1, <2>2, <3>1, <3>2 DEF EndInv
  <2>5. CASE CloseHarness
    <3>1. runnerPc = "close" /\ runnerPc' = "closing" /\ closePc' = closePc
      BY <2>5 DEF CloseHarness, hostingVars
    <3>2. savePc'["term"] = savePc["term"]
      BY <2>5 DEF CloseHarness, H!CallClose, TypeInv, Saver
    <3> QED BY <1>2, <2>1, <3>1, <3>2 DEF EndInv
  <2>6. CASE CloseHosting
    <3>1. runnerPc = "closing" /\ UNCHANGED <<runnerPc, savePc>>
      BY <2>6 DEF CloseHosting, runnerVars, harnessVars
    <3> QED BY <1>2, <2>1, <3>1 DEF EndInv
  <2> QED BY <1>4, <2>3, <2>4, <2>5, <2>6 DEF RunnerStep
<1>5. CASE HostingSteps
  <2>1. UNCHANGED <<runnerPc, mainPc, mainErr, savePc, ctxDone>>
    BY <1>5, HostingFrame DEF runnerVars, harnessVars
  <2>2. closePc' # "idle" => closePc # "idle"
    BY <1>5, HostingCases DEF G!CallRun, G!PollAnswered, G!PollCancelled, G!ProcessReady,
         G!ServeContextDone, G!ServeError, G!CloseStep, G!CopyLogs, G!ServeCopyError,
         G!ProcessEnding, G!Destroy, G!BeginCallback, G!NotifySucceeds, G!NotifyFails,
         G!NotifyPanics, G!Activate, G!Deliver, G!Delivered
  <2>3. runPc' = "returned" => runErr' = TRUE \/ ctxDone \/ (runPc' = runPc /\ runErr' = runErr)
    BY <1>5, HostingCases DEF G!CallRun, G!PollAnswered, G!PollCancelled, G!ProcessReady,
         G!ServeContextDone, G!ServeError, G!CloseStep, G!CopyLogs, G!ServeCopyError,
         G!ProcessEnding, G!Destroy, G!BeginCallback, G!NotifySucceeds, G!NotifyFails,
         G!NotifyPanics, G!Activate, G!Deliver, G!Delivered, G!RunReturns
  <2> QED BY <1>2, <2>1, <2>2, <2>3 DEF EndInv, H!MayClose
<1>6. CASE HarnessSteps
  <2>1. UNCHANGED <<runnerPc, closePc, runPc, runErr, ctxDone>>
    BY <1>6, HarnessFrame DEF runnerVars, hostingVars
  <2> DEFINE MainKept == UNCHANGED <<mainPc, mainErr>>
             TermKept == savePc'["term"] = savePc["term"]
             CloseKept == savePc'["close"] # "idle" => savePc["close"] # "idle"
  <2>2. ASSUME MainKept, TermKept, CloseKept PROVE EndInv'
    BY <1>2, <2>1, <2>2 DEF EndInv, H!MayClose
  <2>3. ASSUME NEW a \in Saver, H!SaveStep(a) PROVE EndInv'
    <3>1. MainKept /\ savePc[a] \notin {"idle", "select", "gone"}
          /\ savePc' = [savePc EXCEPT ![a] = savePc'[a]]
      BY <2>3 DEF H!SaveStep, H!CheckSave, H!SetAttempted, H!BeginSave, H!EndSave,
                  H!CallStop, H!StopReturns, TypeInv
    <3>2. (savePc'["term"] \notin {"idle", "select", "gone"}
              => savePc["term"] \notin {"idle", "select", "gone"}) /\ CloseKept
      BY <3>1 DEF TypeInv, Saver
    <3> QED BY <1>2, <2>1, <3>1, <3>2 DEF EndInv, H!MayClose
  <2>4. CASE H!RunMain
    <3>1. mainPc = "idle" /\ mainPc' = "select" /\ savePc'["term"] = "select" /\ CloseKept
      BY <2>4 DEF H!RunMain, TypeInv, Saver
    <3>2. mainErr' = mainErr
      BY <2>4 DEF H!RunMain
    <3> QED BY <1>2, <2>1, <3>1, <3>2 DEF EndInv, H!MayClose
  <2>5. CASE H!MainContextDone
    <3>1. ctxDone /\ savePc' = savePc
      BY <2>5 DEF H!MainContextDone
    <3> QED BY <1>2, <1>3, <2>1, <3>1 DEF EndInv, H!MayClose
  <2>6. CASE H!MainStartResult
    <3>1. savePc' = savePc /\ mainPc = "select" /\ startPc \in {"sendSpan", "send"}
          /\ (mainErr' <=> (startPc = "sendSpan" \/ startErr))
      BY <2>6 DEF H!MainStartResult
    <3>2. Begun
      BY <3>1 DEF GameInv, CallbackInv, Begun
    <3>3. ~mainErr' => Over
      BY <3>1 DEF GameInv, Over
    <3>4. runnerPc = "close" => H!MayClose'
      BY <2>1, <3>1 DEF EndInv, H!MayClose
    <3> QED BY <1>2, <2>1, <3>1, <3>2, <3>3, <3>4 DEF EndInv
  <2>7. CASE H!MainTerminateResult
    <3>1. mainErr' = mainErr /\ mainPc = "select" /\ savePc["term"] = "send"
          /\ savePc'["term"] = "gone" /\ CloseKept
      BY <2>7 DEF H!MainTerminateResult, TypeInv, Saver
    <3>2. runnerPc = "close" => H!MayClose'
      BY <2>1, <3>1 DEF EndInv, H!MayClose
    <3> QED BY <1>2, <2>1, <3>1, <3>2 DEF EndInv
  <2>8. ASSUME NEW c \in TermCalls, H!ReceiveTerminate(c) PROVE EndInv'
    <3>1. MainKept /\ CloseKept
      BY <2>8 DEF H!ReceiveTerminate, TypeInv, Saver
    <3>2. cbPc[c] # "idle" /\ ready
      BY <2>8 DEF H!ReceiveTerminate, CallbackInv, Call, Callback
    <3>3. Begun /\ Over
      BY <3>2 DEF CallbackInv, Begun, Over, S!AskedToEnd
    <3> QED BY <1>2, <2>1, <3>1, <3>3 DEF EndInv, H!MayClose
  <2>9. CASE H!ReceiveNilTerminate
    <3>1. MainKept /\ CloseKept
      BY <2>9 DEF H!ReceiveNilTerminate, TypeInv, Saver
    <3>2. Begun /\ Over
      BY <2>9 DEF H!ReceiveNilTerminate, CloseInv, EndInv
    <3> QED BY <1>2, <2>1, <3>1, <3>2 DEF EndInv, H!MayClose
  <2>10. CASE H!TerminateContextDone
    <3>1. MainKept /\ CloseKept /\ savePc'["term"] = "gone"
      BY <2>10 DEF H!TerminateContextDone, TypeInv, Saver
    <3> QED BY <1>2, <2>1, <3>1 DEF EndInv, H!MayClose
  <2>11. CASE H!CloseTerminate \/ H!CloseStart
    BY <2>2, <2>11 DEF H!CloseTerminate, H!CloseStart, H!Panic, H!pcVars, TypeInv, Saver
  <2>12. ASSUME \/ \E c \in StartCalls : H!ReceiveStart(c)
                \/ H!ReceiveNilStart \/ H!StartContextDone \/ H!RunGame \/ H!NilSpanPanic
                \/ H!GameReturns \/ H!GameUp \/ H!GameDown
                \/ \E c \in Call : H!CallHosting(c)
         PROVE  EndInv'
    <3>1. MainKept /\ savePc' = savePc
      BY <2>12 DEF H!ReceiveStart, H!ReceiveNilStart, H!StartContextDone, H!RunGame,
              H!NilSpanPanic, H!GameReturns, H!GameUp, H!GameDown, H!CallHosting, H!Panic,
              H!pcVars
    <3> QED BY <2>2, <3>1
  <2> QED BY <1>6, <2>3, <2>4, <2>5, <2>6, <2>7, <2>8, <2>9, <2>10, <2>11, <2>12, HarnessCases
<1> QED BY <1>4, <1>5, <1>6, StepCases
LEMMA CloseNext == TypeInv /\ CloseInv /\ [Next]_vars => CloseInv'
<1> SUFFICES ASSUME TypeInv, CloseInv, [Next]_vars PROVE CloseInv'
  OBVIOUS
<1> DEFINE HarnessKept == UNCHANGED <<savePc, stops, startOpen, termOpen>>
           HostingKept == UNCHANGED <<closePc, endings, destroyed>>
<1>1. CASE UNCHANGED vars
  BY <1>1 DEF vars, runnerVars, harnessVars, hostingVars, CloseInv
<1>2. CASE RunnerStep \/ Signal
  <2>1. UNCHANGED <<startOpen, termOpen, stops, endings, destroyed>>
    BY <1>2, RunnerFrame
  <2>2. CASE \/ InitHosting \/ InitGame \/ ManagerContextDone \/ ManagerGameResult
             \/ ManagerHostingResult \/ Signal
    <3>1. HarnessKept /\ HostingKept
      BY <2>1, <2>2 DEF InitHosting, InitGame, ManagerContextDone, ManagerGameResult,
                ManagerHostingResult, Signal, harnessVars, hostingVars
    <3>2. \/ runnerPc \in {"init", "gameInit", "run"} /\ runnerPc' \notin {"leaving", "exited"}
          \/ runnerPc \in {"init", "gameInit", "run"} /\ runnerPc' = "leaving" /\ exitErr'
          \/ UNCHANGED runnerVars
      BY <2>2 DEF InitHosting, InitGame, ManagerContextDone, ManagerGameResult,
                ManagerHostingResult, Signal, ManagerReturns, Leave
    <3> QED BY <3>1, <3>2 DEF CloseInv, runnerVars
  <2>3. CASE CloseHarness
    <3>1. runnerPc' = "closing" /\ savePc["close"] = "idle" /\ savePc'["close"] = "check"
      BY <2>3 DEF CloseHarness, H!CallClose, TypeInv, Saver
    <3>2. closePc' = closePc
      BY <2>3 DEF CloseHarness, hostingVars
    <3> QED BY <2>1, <3>1, <3>2 DEF CloseInv
  <2>4. CASE CloseHosting
    <3>1. closePc = "idle" /\ closePc' = "copy" /\ savePc["close"] = "done"
          /\ runnerPc = "closing" /\ UNCHANGED <<runnerPc, savePc>>
      BY <2>4 DEF CloseHosting, G!CallClose, runnerVars, harnessVars
    <3> QED BY <2>1, <3>1 DEF CloseInv
  <2>5. CASE CloseReturns
    <3>1. closePc = "done" /\ runnerPc' = "leaving" /\ UNCHANGED <<savePc, closePc>>
      BY <2>5 DEF CloseReturns, Leave, harnessVars, hostingVars
    <3> QED BY <2>1, <3>1 DEF CloseInv
  <2>6. CASE Exit
    <3>1. runnerPc = "leaving" /\ runnerPc' = "exited" /\ UNCHANGED <<exitErr, savePc, closePc>>
      BY <2>6 DEF Exit, harnessVars, hostingVars
    <3> QED BY <2>1, <3>1 DEF CloseInv
  <2> QED BY <1>2, <2>2, <2>3, <2>4, <2>5, <2>6 DEF RunnerStep
<1>3. CASE HostingSteps
  <2>1. UNCHANGED runnerVars /\ HarnessKept
    BY <1>3, HostingFrame DEF harnessVars
  <2>2. CASE G!CloseStep
    <3>1. \/ G!CopyLogs \/ G!ServeCopyError
          \/ closePc = "ending" /\ closePc' = "destroy" /\ endings' = endings + 1
             /\ destroyed' = destroyed
          \/ closePc = "destroy" /\ closePc' = "done" /\ endings' = endings /\ destroyed' = TRUE
      BY <2>2 DEF G!CloseStep, G!ProcessEnding, G!Destroy
    <3>2. ASSUME G!CopyLogs \/ G!ServeCopyError
          PROVE  closePc \in {"copy", "report"} /\ closePc' \in {"ending", "report"}
                 /\ UNCHANGED <<endings, destroyed>>
      BY <3>2 DEF G!CopyLogs, G!ServeCopyError, G!sdkVars
    <3> QED BY <2>1, <3>1, <3>2 DEF CloseInv, runnerVars
  <2>3. ASSUME ~G!CloseStep PROVE HostingKept
    BY <1>3, <2>3, HostingCases DEF G!CallRun, G!PollAnswered, G!PollCancelled, G!ProcessReady,
         G!ServeContextDone, G!ServeError, G!BeginCallback, G!NotifySucceeds, G!NotifyFails,
         G!NotifyPanics, G!Activate, G!Deliver, G!Delivered, G!sdkVars
  <2> QED BY <2>1, <2>2, <2>3 DEF CloseInv, runnerVars
<1>4. CASE HarnessSteps
  <2>1. UNCHANGED runnerVars /\ HostingKept
    BY <1>4, HarnessFrame DEF hostingVars
  <2> DEFINE CloserKept == savePc'["close"] = savePc["close"]
             ChannelsKept == UNCHANGED <<startOpen, termOpen>>
  <2>2. ASSUME CloserKept, ChannelsKept, "close" \in stops => "close" \in stops' PROVE CloseInv'
    BY <2>1, <2>2 DEF CloseInv, runnerVars
  <2>3. ASSUME H!SaveStep("term") PROVE CloseInv'
    <3>1. CloserKept /\ ChannelsKept
      BY <2>3 DEF H!SaveStep, H!CheckSave, H!SetAttempted, H!BeginSave, H!EndSave, H!CallStop,
                  H!StopReturns, H!fieldVars, TypeInv, Saver
    <3>2. stops' = stops \/ stops' = stops \union {"term"}
      BY <2>3 DEF H!SaveStep, H!CheckSave, H!SetAttempted, H!BeginSave, H!EndSave, H!CallStop,
                  H!StopReturns, H!histVars
    <3> QED BY <2>2, <3>1, <3>2
  <2>4. ASSUME H!SaveStep("close") PROVE CloseInv'
    <3>1. ChannelsKept
      BY <2>4 DEF H!SaveStep, H!CheckSave, H!SetAttempted, H!BeginSave, H!EndSave, H!CallStop,
                  H!StopReturns, H!fieldVars
    <3>2. CASE H!CheckSave("close") \/ H!SetAttempted("close") \/ H!BeginSave("close")
               \/ H!EndSave("close")
      <4>1. savePc["close"] \in {"check", "set", "save", "saving"}
            /\ savePc'["close"] \in {"set", "save", "saving", "stop"}
        BY <3>2 DEF H!CheckSave, H!SetAttempted, H!BeginSave, H!EndSave, TypeInv, Saver
      <4> QED BY <2>1, <3>1, <4>1 DEF CloseInv, runnerVars
    <3>3. CASE H!CallStop("close")
      <4>1. savePc["close"] = "stop" /\ savePc'["close"] = "stopping" /\ "close" \in stops'
        BY <3>3 DEF H!CallStop, TypeInv, Saver
      <4> QED BY <2>1, <3>1, <4>1 DEF CloseInv, runnerVars
    <3>4. CASE H!StopReturns("close")
      <4>1. savePc["close"] = "stopping" /\ savePc'["close"] = "closeTerm" /\ stops' = stops
        BY <3>4 DEF H!StopReturns, H!histVars, TypeInv, Saver
      <4> QED BY <2>1, <3>1, <4>1 DEF CloseInv, runnerVars
    <3> QED BY <2>4, <3>2, <3>3, <3>4 DEF H!SaveStep
  <2>5. CASE H!CloseTerminate
    <3>1. CASE H!Panic
      BY <2>2, <3>1 DEF H!Panic, H!pcVars, H!fieldVars, H!histVars
    <3>2. CASE ~H!Panic
      <4>1. savePc["close"] = "closeTerm" /\ savePc'["close"] = "closeStart" /\ stops' = stops
            /\ startOpen' = startOpen /\ termOpen' = FALSE
        BY <2>5, <3>2 DEF H!CloseTerminate, H!histVars, TypeInv, Saver
      <4> QED BY <2>1, <4>1 DEF CloseInv, runnerVars
    <3> QED BY <3>1, <3>2
  <2>6. CASE H!CloseStart
    <3>1. CASE H!Panic
      BY <2>2, <3>1 DEF H!Panic, H!pcVars, H!fieldVars, H!histVars
    <3>2. CASE ~H!Panic
      <4>1. savePc["close"] = "closeStart" /\ savePc'["close"] = "done" /\ stops' = stops
            /\ termOpen' = termOpen /\ startOpen' = FALSE
        BY <2>6, <3>2 DEF H!CloseStart, H!histVars, TypeInv, Saver
      <4> QED BY <2>1, <4>1 DEF CloseInv, runnerVars
    <3> QED BY <3>1, <3>2
  <2>7. ASSUME \/ H!RunMain \/ H!MainContextDone \/ H!MainStartResult \/ H!MainTerminateResult
               \/ \E c \in StartCalls : H!ReceiveStart(c)
               \/ H!ReceiveNilStart \/ H!StartContextDone \/ H!RunGame \/ H!NilSpanPanic
               \/ H!GameReturns
               \/ \E c \in TermCalls : H!ReceiveTerminate(c)
               \/ H!ReceiveNilTerminate \/ H!TerminateContextDone \/ H!GameUp \/ H!GameDown
               \/ \E c \in Call : H!CallHosting(c)
        PROVE  CloseInv'
    <3>1. ChannelsKept /\ stops' = stops
      BY <2>7 DEF H!RunMain, H!MainContextDone, H!MainStartResult, H!MainTerminateResult,
              H!ReceiveStart, H!ReceiveNilStart, H!StartContextDone, H!RunGame, H!NilSpanPanic,
              H!GameReturns, H!ReceiveTerminate, H!ReceiveNilTerminate, H!TerminateContextDone,
              H!GameUp, H!GameDown, H!CallHosting, H!Panic, H!fieldVars, H!histVars
    <3>2. CloserKept
      BY <2>7 DEF H!RunMain, H!MainContextDone, H!MainStartResult, H!MainTerminateResult,
              H!ReceiveStart, H!ReceiveNilStart, H!StartContextDone, H!RunGame, H!NilSpanPanic,
              H!GameReturns, H!ReceiveTerminate, H!ReceiveNilTerminate, H!TerminateContextDone,
              H!GameUp, H!GameDown, H!CallHosting, H!Panic, H!pcVars, TypeInv, Saver
    <3> QED BY <2>2, <3>1, <3>2
  <2>8. ASSUME NEW a \in Saver, H!SaveStep(a) PROVE CloseInv'
    BY <2>3, <2>4, <2>8 DEF Saver
  <2> QED BY <1>4, <2>5, <2>6, <2>7, <2>8, HarnessCases
<1> QED BY <1>1, <1>2, <1>3, <1>4, StepCases

LEMMA CrashNext ==
    TypeInv /\ CallbackInv /\ GameInv /\ CloseInv /\ CrashesAreKnown /\ [Next]_vars
        => CrashesAreKnown'
<1> SUFFICES ASSUME TypeInv, CallbackInv, GameInv, CloseInv, CrashesAreKnown, [Next]_vars
             PROVE  CrashesAreKnown'
  OBVIOUS
<1>1. CASE UNCHANGED vars
  BY <1>1 DEF vars, runnerVars, harnessVars, hostingVars, sharedVars, CrashesAreKnown
<1> SUFFICES ASSUME Next PROVE CrashesAreKnown'
  BY <1>1
<1>2. ~crashed /\ runnerPc # "exited"
  BY StepCases DEF Alive
<1>3. ASSUME crashed' = crashed PROVE CrashesAreKnown'
  BY <1>2, <1>3 DEF CrashesAreKnown
<1>4. CASE RunnerStep \/ Signal
  BY <1>3, <1>4, RunnerFrame
<1>5. CASE HostingSteps
  <2>1. ASSUME NEW c \in Callback, G!NotifyPanics(c) PROVE CrashesAreKnown'
    <3>1. UNCHANGED <<gameSession, atRisk>>
          /\ ((EmitEvents /\ ~gameSession) \/ c \in atRisk)
      BY <2>1 DEF G!NotifyPanics, G!N!Panic, G!N!HasSession
    <3> QED BY <3>1 DEF CallbackInv, CrashesAreKnown
  <2>2. ASSUME ~\E c \in Callback : G!NotifyPanics(c) PROVE crashed' = crashed
    BY <1>5, <2>2, HostingCases DEF G!CallRun, G!PollAnswered, G!PollCancelled, G!ProcessReady,
       G!ServeContextDone, G!ServeError, G!CloseStep, G!CopyLogs, G!ServeCopyError,
       G!ProcessEnding, G!Destroy, G!BeginCallback, G!NotifySucceeds, G!NotifyFails,
       G!Activate, G!Deliver, G!Delivered, G!N!Begin, G!N!Succeed, G!N!Fail
  <2> QED BY <1>3, <2>1, <2>2
<1>6. CASE HarnessSteps
  <2>1. ASSUME savePc["close"] # "idle" PROVE CrashesAreKnown'
    <3>1. runnerPc' = runnerPc
      BY <1>6, HarnessFrame DEF runnerVars
    <3> QED BY <1>2, <2>1, <3>1 DEF CloseInv, CrashesAreKnown
  <2>2. ASSUME SpanCanFail PROVE CrashesAreKnown'
    BY <2>2 DEF CrashesAreKnown
  <2>3. ASSUME NEW a \in Saver, H!SaveStep(a) PROVE crashed' = crashed
    BY <2>3 DEF H!SaveStep, H!CheckSave, H!SetAttempted, H!BeginSave, H!EndSave, H!CallStop,
                H!StopReturns
  <2>4. CASE H!CloseTerminate \/ H!CloseStart
    BY <2>1, <2>4 DEF H!CloseTerminate, H!CloseStart
  <2>5. CASE H!ReceiveNilStart
    BY <2>1, <2>5 DEF H!ReceiveNilStart, CloseInv
  <2>6. CASE H!NilSpanPanic
    BY <2>2, <2>6 DEF H!NilSpanPanic, GameInv
  <2>7. ASSUME NEW c \in Call, H!CallHosting(c) PROVE CrashesAreKnown'
    <3>1. CASE H!ChannelOpen(c)
      BY <1>3, <2>7, <3>1 DEF H!CallHosting
    <3>2. CASE ~H!ChannelOpen(c)
      BY <2>1, <3>2 DEF H!ChannelOpen, CloseInv
    <3> QED BY <3>1, <3>2
  <2>8. ASSUME \/ H!RunMain \/ H!MainContextDone \/ H!MainStartResult \/ H!MainTerminateResult
               \/ \E c \in StartCalls : H!ReceiveStart(c)
               \/ H!StartContextDone \/ H!RunGame \/ H!GameReturns
               \/ \E c \in TermCalls : H!ReceiveTerminate(c)
               \/ H!ReceiveNilTerminate \/ H!TerminateContextDone \/ H!GameUp \/ H!GameDown
        PROVE  crashed' = crashed
    BY <2>8 DEF H!RunMain, H!MainContextDone, H!MainStartResult, H!MainTerminateResult,
              H!ReceiveStart, H!StartContextDone, H!RunGame, H!GameReturns,
              H!ReceiveTerminate, H!ReceiveNilTerminate, H!TerminateContextDone, H!GameUp,
              H!GameDown
  <2> QED BY <1>3, <1>6, <2>3, <2>4, <2>5, <2>6, <2>7, <2>8, HarnessCases
<1> QED BY <1>4, <1>5, <1>6, StepCases

LEMMA InvInit == Init => Inv
<1> SUFFICES ASSUME Init PROVE Inv
  OBVIOUS
<1> USE DEF Init, H!Init, G!Init, G!N!Init
<1>1. TypeInv
  BY DEF TypeInv, Callback, Call, Saver, SaverPlace, H!Saver, H!Call, G!Callback, G!N!Callback
<1>2. CallbackInv
  BY DEF CallbackInv, Callback, Call, H!Call, G!Callback, G!N!Callback
<1>3. GameInv
  BY DEF GameInv
<1>4. EndInv
  BY DEF EndInv, H!Saver
<1>5. CloseInv
  BY DEF CloseInv, H!Saver
<1>6. CrashesAreKnown
  BY DEF CrashesAreKnown
<1> QED BY <1>1, <1>2, <1>3, <1>4, <1>5, <1>6 DEF Inv

LEMMA Invariance == Spec => []Inv
<1>1. Inv /\ [Next]_vars => Inv'
  BY TypeNext, CallbackNext, GameNext, EndNext, CloseNext, CrashNext DEF Inv
<1> QED BY <1>1, InvInit, PTL DEF Spec

-----------------------------------------------------------------------------
(* What the process promises.                                              *)

\* Exit code 0: runner.Run returned after both Close, in this order, and none was cut short.
THEOREM CleanExit == Spec => []CleanExitIsComplete
<1>1. Inv => CleanExitIsComplete
  BY DEF Inv, CloseInv, CleanExitIsComplete, Exited
<1> QED BY <1>1, Invariance, PTL

\* With valid session ids, the process panics only on a channel that manager.Close closed, in
\* a terminate callback without a session or on a token that was taken away.
THEOREM CrashesKnown == Spec => []CrashesAreKnown
<1>1. Inv => CrashesAreKnown
  BY DEF Inv
<1> QED BY <1>1, Invariance, PTL

-----------------------------------------------------------------------------
(* The process implements Session.                                         *)

\* The values of Session's variables that are not variables of Wrapper.
Notified    == \E c \in StartCalls : notice[c] = "sent"
Terminating == \E c \in TermCalls : cbPc[c] # "idle"
Saved       == "close" \in stops /\ savePc["close"] = "done"
Process     == IF crashed THEN "crashed"
               ELSE IF Exited THEN (IF exitErr THEN "failed" ELSE "done") ELSE "alive"

\* The parts of a session that a step leaves alone.
ProviderKept == UNCHANGED <<ready, activated, endings, destroyed>>
CallbacksKept == (Notified' <=> Notified) /\ (Terminating' <=> Terminating)
GameKept == game' = game /\ (Saved' <=> Saved)

LEMMA RunnerImplements ==
    ASSUME Inv, Alive, RunnerStep \/ Signal
    PROVE  [S!Next]_(S!vars)
<1>1. ProviderKept /\ CallbacksKept /\ UNCHANGED <<game, stops, crashed>>
  BY RunnerFrame DEF ProviderKept, CallbacksKept, Notified, Terminating
<1>2. ~crashed /\ Process = "alive"
  BY DEF Alive, Process, Exited
<1>3. GameKept
  <2>1. UNCHANGED savePc \/ (savePc["close"] = "idle" /\ savePc'["close"] = "check")
    BY DEF RunnerStep, InitHosting, InitGame, ManagerContextDone, ManagerGameResult,
           ManagerHostingResult, CloseHarness, CloseHosting, CloseReturns, Exit, Signal,
           H!CallClose, harnessVars, Inv, TypeInv, Saver
  <2> QED BY <1>1, <2>1 DEF GameKept, Saved
<1>4. CASE Signal
  <2>1. ctxDone' = TRUE /\ Process' = Process
    BY <1>1, <1>4 DEF Signal, runnerVars, Process, Exited
  <2>2. S!Signal
    BY <1>1, <1>3, <2>1 DEF S!Signal, ProviderKept, CallbacksKept, GameKept, Notified,
                            Terminating, Saved, Process
  <2> QED BY <1>2, <2>2 DEF S!Next, Process
<1>5. CASE Exit
  <2>1. ctxDone' = ctxDone /\ Process' = (IF exitErr THEN "failed" ELSE "done")
    BY <1>1, <1>2, <1>5 DEF Exit, sharedVars, Process, Exited
  <2>2. ~exitErr => destroyed
    BY <1>5 DEF Exit, Inv, CloseInv
  <2>3. S!Exit
    BY <1>1, <1>3, <2>1, <2>2 DEF S!Exit, ProviderKept, CallbacksKept, GameKept, Notified,
                                  Terminating, Saved, Process
  <2> QED BY <1>2, <2>3 DEF S!Next, Process
<1>6. ASSUME \/ InitHosting \/ InitGame \/ ManagerContextDone \/ ManagerGameResult
             \/ ManagerHostingResult \/ CloseHarness \/ CloseHosting \/ CloseReturns
      PROVE  [S!Next]_(S!vars)
  <2>1. ctxDone' = ctxDone /\ runnerPc' # "exited"
    BY <1>2, <1>6 DEF InitHosting, InitGame, ManagerContextDone, ManagerGameResult,
              ManagerHostingResult, ManagerReturns, CloseHarness, CloseHosting, CloseReturns,
              Leave, H!CallClose, G!CallClose, sharedVars, runnerVars
  <2>2. Process' = Process
    BY <1>1, <1>2, <2>1 DEF Process, Exited
  <2> QED BY <1>1, <1>3, <2>1, <2>2 DEF S!vars, ProviderKept, CallbacksKept, GameKept, Notified,
                                        Terminating, Saved, Process
<1> QED BY <1>4, <1>5, <1>6 DEF RunnerStep

LEMMA HarnessImplements ==
    ASSUME Inv, Alive, HarnessSteps
    PROVE  [S!Next]_(S!vars)
<1>1. ProviderKept /\ CallbacksKept /\ UNCHANGED <<runnerPc, exitErr, ctxDone, closePc>>
  BY HarnessFrame DEF ProviderKept, CallbacksKept, Notified, Terminating, hostingVars, runnerVars
<1>2. ~crashed /\ runnerPc # "exited" /\ Process = "alive"
  BY DEF Alive, Process, Exited
<1>3. ASSUME GameKept, crashed' = crashed PROVE [S!Next]_(S!vars)
  <2>1. Process' = Process
    BY <1>1, <1>2, <1>3 DEF Process, Exited
  <2> QED BY <1>1, <1>3, <2>1 DEF S!vars, ProviderKept, CallbacksKept, GameKept, Notified,
                                  Terminating, Saved, Process
<1>4. ASSUME H!Panic PROVE [S!Next]_(S!vars)
  <2>1. GameKept /\ Process' = "crashed"
    BY <1>4 DEF H!Panic, H!pcVars, H!histVars, GameKept, Saved, Process
  <2>2. S!Exit
    BY <1>1, <2>1 DEF S!Exit, ProviderKept, CallbacksKept, GameKept, Notified, Terminating, Saved,
                      Process
  <2> QED BY <1>2, <2>2 DEF S!Next, Process
<1>5. endings > 0 => Over
  BY DEF Inv, CloseInv, EndInv
<1>6. CASE H!RunGame /\ game' # game
  <2>1. activated /\ game = "idle" /\ game' = "starting" /\ (Saved' <=> Saved)
        /\ crashed' = crashed
    BY <1>6 DEF H!RunGame, Inv, GameInv, H!histVars, Saved
  <2>2. Process' = Process
    BY <1>1, <1>2, <2>1 DEF Process, Exited
  <2>3. S!StartGame
    BY <1>1, <1>5, <2>1, <2>2 DEF S!StartGame, Over, ProviderKept, CallbacksKept, Notified,
                                  Terminating, Saved, Process
  <2> QED BY <1>2, <2>3 DEF S!Next, Process
<1>7. CASE H!GameUp \/ H!GameDown
  <2>1. (Saved' <=> Saved) /\ crashed' = crashed
    BY <1>7 DEF H!GameUp, H!GameDown, H!pcVars, H!histVars, Saved
  <2>2. Process' = Process
    BY <1>1, <1>2, <2>1 DEF Process, Exited
  <2>3. S!GameGoesOn
    BY <1>1, <1>7, <2>1, <2>2 DEF S!GameGoesOn, H!GameUp, H!GameDown, ProviderKept, CallbacksKept,
                                  Notified, Terminating, Saved, Process
  <2> QED BY <1>2, <2>3 DEF S!Next, Process
<1>8. CASE H!CloseStart
  <2>1. CASE H!Panic
    BY <1>4, <2>1
  <2>2. CASE ~H!Panic
    <3>1. savePc["close"] = "closeStart" /\ savePc'["close"] = "done"
          /\ UNCHANGED <<game, stops, crashed>>
      BY <1>8, <2>2 DEF H!CloseStart, H!histVars, Inv, TypeInv, Saver
    <3>2. Saved' /\ Over
      BY <3>1 DEF Inv, CloseInv, EndInv, Saved
    <3>3. Process' = Process
      BY <1>1, <1>2, <3>1 DEF Process, Exited
    <3>4. S!SaveAndStop
      BY <1>1, <3>1, <3>2, <3>3 DEF S!SaveAndStop, Over, ProviderKept, CallbacksKept, Notified,
                                    Terminating, Saved, Process
    <3> QED BY <1>2, <3>4 DEF S!Next, Process
  <2> QED BY <2>1, <2>2
<1>9. CASE H!CloseTerminate
  <2>1. CASE H!Panic
    BY <1>4, <2>1
  <2>2. CASE ~H!Panic
    <3>1. savePc["close"] = "closeTerm" /\ savePc'["close"] = "closeStart"
          /\ UNCHANGED <<game, crashed>>
      BY <1>9, <2>2 DEF H!CloseTerminate, Inv, TypeInv, Saver
    <3> QED BY <1>3, <3>1 DEF GameKept, Saved
  <2> QED BY <2>1, <2>2
<1>10. ASSUME NEW a \in Saver, H!SaveStep(a) PROVE [S!Next]_(S!vars)
  <2>1. UNCHANGED <<game, crashed>>
    BY <1>10 DEF H!SaveStep, H!CheckSave, H!SetAttempted, H!BeginSave, H!EndSave, H!CallStop,
                 H!StopReturns
  <2>2. CASE a = "close"
    <3>1. savePc["close"] # "done" /\ savePc'["close"] # "done"
      BY <1>10, <2>2 DEF H!SaveStep, H!CheckSave, H!SetAttempted, H!BeginSave, H!EndSave,
                H!CallStop, H!StopReturns, Inv, TypeInv, Saver
    <3> QED BY <1>3, <2>1, <3>1 DEF GameKept, Saved
  <2>3. CASE a = "term"
    <3>1. savePc'["close"] = savePc["close"]
      BY <1>10, <2>3 DEF H!SaveStep, H!CheckSave, H!SetAttempted, H!BeginSave, H!EndSave,
                H!CallStop, H!StopReturns, Inv, TypeInv, Saver
    <3>2. stops' = stops \/ stops' = stops \union {"term"}
      BY <1>10, <2>3 DEF H!SaveStep, H!CheckSave, H!SetAttempted, H!BeginSave, H!EndSave,
                H!CallStop, H!StopReturns, H!histVars
    <3>3. "close" \in stops' <=> "close" \in stops
      BY <3>2
    <3> QED BY <1>3, <2>1, <3>1, <3>3 DEF GameKept, Saved
  <2> QED BY <2>2, <2>3 DEF Saver
<1>11. ASSUME NEW c \in Call, H!CallHosting(c) PROVE [S!Next]_(S!vars)
  <2>1. H!Panic \/ (UNCHANGED <<savePc, game, crashed, stops>>)
    BY <1>11 DEF H!CallHosting, H!histVars
  <2> QED BY <1>3, <1>4, <2>1 DEF GameKept, Saved
<1>12. ASSUME \/ H!RunMain \/ H!MainContextDone \/ H!MainStartResult \/ H!MainTerminateResult
              \/ \E c \in StartCalls : H!ReceiveStart(c)
              \/ H!StartContextDone \/ (H!RunGame /\ game' = game) \/ H!GameReturns
              \/ \E c \in TermCalls : H!ReceiveTerminate(c)
              \/ H!ReceiveNilTerminate \/ H!TerminateContextDone
       PROVE  [S!Next]_(S!vars)
  <2>1. UNCHANGED <<stops, game, crashed>>
    BY <1>12 DEF H!RunMain, H!MainContextDone, H!MainStartResult, H!MainTerminateResult,
              H!ReceiveStart, H!StartContextDone, H!RunGame, H!GameReturns, H!ReceiveTerminate,
              H!ReceiveNilTerminate, H!TerminateContextDone, H!histVars
  <2>2. savePc'["close"] = savePc["close"]
    BY <1>12 DEF H!RunMain, H!MainContextDone, H!MainStartResult, H!MainTerminateResult,
              H!ReceiveStart, H!StartContextDone, H!RunGame, H!GameReturns, H!ReceiveTerminate,
              H!ReceiveNilTerminate, H!TerminateContextDone, Inv, TypeInv, Saver
  <2> QED BY <1>3, <2>1, <2>2 DEF GameKept, Saved
<1>13. CASE H!ReceiveNilStart \/ H!NilSpanPanic
  BY <1>4, <1>13 DEF H!ReceiveNilStart, H!NilSpanPanic
<1> QED BY <1>6, <1>7, <1>8, <1>9, <1>10, <1>11, <1>12, <1>13, HarnessCases

LEMMA HostingImplements ==
    ASSUME Inv, Alive, HostingSteps
    PROVE  [S!Next]_(S!vars)
<1>1. GameKept /\ UNCHANGED <<game, runnerPc, exitErr, ctxDone, mainPc>>
  BY HostingFrame DEF GameKept, Saved, harnessVars, runnerVars
<1>2. ~crashed /\ runnerPc # "exited" /\ Process = "alive"
  BY DEF Alive, Process, Exited
<1>3. ASSUME crashed' = crashed PROVE Process' = Process
  BY <1>1, <1>2, <1>3 DEF Process, Exited
<1>4. ASSUME ProviderKept, CallbacksKept, crashed' = crashed PROVE [S!Next]_(S!vars)
  BY <1>1, <1>3, <1>4 DEF S!vars, ProviderKept, CallbacksKept, GameKept, Notified, Terminating,
                          Saved, Process
<1>5. endings > 0 => closePc \in {"destroy", "done"} /\ Begun /\ Over
  BY DEF Inv, CloseInv, EndInv
<1>6. CASE G!ProcessReady
  <2>1. CallbacksKept /\ UNCHANGED <<activated, endings, destroyed, crashed>>
        /\ runPc = "ready" /\ (ready' = TRUE \/ ready' = ready)
    BY <1>6 DEF G!ProcessReady, G!senderVars, CallbacksKept, Notified, Terminating
  <2>2. CASE ready' = ready
    BY <1>4, <2>1, <2>2 DEF ProviderKept
  <2>3. CASE ready' = TRUE
    <3>1. endings > 0 => ctxDone
      BY <1>5, <2>1 DEF Begun
    <3>2. S!Announce
      BY <1>1, <1>3, <2>1, <2>3, <3>1 DEF S!Announce, CallbacksKept, GameKept, Notified,
                                          Terminating, Saved, Process
    <3> QED BY <1>2, <3>2 DEF S!Next, Process
  <2> QED BY <2>1, <2>2, <2>3
<1>7. CASE G!CopyLogs \/ G!ServeCopyError
  BY <1>4, <1>7 DEF G!CopyLogs, G!ServeCopyError, G!senderVars, G!sdkVars, ProviderKept,
                    CallbacksKept, Notified, Terminating
<1>8. CASE G!ProcessEnding
  <2>1. CallbacksKept /\ UNCHANGED <<ready, activated, destroyed, crashed>>
        /\ closePc = "ending" /\ endings' = endings + 1
    BY <1>8 DEF G!ProcessEnding, G!senderVars, CallbacksKept, Notified, Terminating
  <2>2. endings = 0 /\ Saved
    BY <2>1 DEF Inv, CloseInv, Saved
  <2>3. ~(endings > 0) /\ endings' > 0
    BY <2>1, <2>2
  <2>4. S!EndProcess
    BY <1>1, <1>3, <2>1, <2>2, <2>3 DEF S!EndProcess, CallbacksKept, GameKept, Notified,
                                        Terminating, Saved, Process
  <2> QED BY <1>2, <2>4 DEF S!Next, Process
<1>9. CASE G!Destroy
  <2>1. CallbacksKept /\ UNCHANGED <<ready, activated, endings, crashed>>
        /\ closePc = "destroy" /\ destroyed' = TRUE
    BY <1>9 DEF G!Destroy, G!senderVars, CallbacksKept, Notified, Terminating
  <2>2. endings > 0 /\ ~destroyed
    BY <2>1 DEF Inv, CloseInv
  <2>3. S!Leave
    BY <1>1, <1>3, <2>1, <2>2 DEF S!Leave, CallbacksKept, GameKept, Notified, Terminating, Saved,
                                  Process
  <2> QED BY <1>2, <2>3 DEF S!Next, Process
<1>10. ASSUME NEW c \in Callback, G!BeginCallback(c) PROVE [S!Next]_(S!vars)
  <2>1. ProviderKept /\ crashed' = crashed /\ ready
    BY <1>10 DEF G!BeginCallback, G!N!Begin, G!sdkVars, ProviderKept
  <2>2. Notified' <=> Notified
    BY <1>10 DEF G!BeginCallback, G!N!Begin, Notified, Inv, TypeInv, Callback
  <2>3. CASE c \in TermCalls
    <3>1. Terminating'
      BY <1>10, <2>3 DEF G!BeginCallback, Terminating, Inv, TypeInv, Callback
    <3>2. S!Terminate
      BY <1>1, <1>3, <2>1, <2>2, <3>1 DEF S!Terminate, ProviderKept, GameKept, Notified,
                                          Terminating, Saved, Process
    <3> QED BY <1>2, <3>2 DEF S!Next, Process
  <2>4. CASE c \notin TermCalls
    <3>1. Terminating' <=> Terminating
      BY <1>10, <2>4 DEF G!BeginCallback, Terminating, Inv, TypeInv, Callback
    <3> QED BY <1>4, <2>1, <2>2, <3>1 DEF CallbacksKept
  <2> QED BY <2>3, <2>4
<1>11. ASSUME NEW c \in Callback, G!NotifySucceeds(c) PROVE [S!Next]_(S!vars)
  <2>1. ProviderKept /\ crashed' = crashed
    BY <1>11 DEF G!NotifySucceeds, G!N!Succeed, G!sdkVars, ProviderKept
  <2>2. Terminating' <=> Terminating
    BY <1>11 DEF G!NotifySucceeds, G!AfterNotify, Terminating, Inv, TypeInv, Callback
  <2>3. CASE c \in StartCalls
    <3>1. Notified'
      BY <1>11, <2>3 DEF G!NotifySucceeds, G!N!Succeed, Notified, Inv, TypeInv, Callback
    <3>2. ready
      BY <1>11 DEF G!NotifySucceeds, Inv, CallbackInv
    <3>3. S!Notify
      BY <1>1, <1>3, <2>1, <2>2, <3>1, <3>2 DEF S!Notify, ProviderKept, GameKept, Notified,
                                                Terminating, Saved, Process
    <3> QED BY <1>2, <3>3 DEF S!Next, Process
  <2>4. CASE c \notin StartCalls
    <3>1. Notified' <=> Notified
      BY <1>11, <2>4 DEF G!NotifySucceeds, G!N!Succeed, Notified, Inv, TypeInv, Callback
    <3> QED BY <1>4, <2>1, <2>2, <3>1 DEF CallbacksKept
  <2> QED BY <2>3, <2>4
<1>12. ASSUME NEW c \in Callback, G!NotifyFails(c) PROVE [S!Next]_(S!vars)
  <2>1. ProviderKept /\ crashed' = crashed
    BY <1>12 DEF G!NotifyFails, G!N!Fail, G!sdkVars, ProviderKept
  <2>2. CallbacksKept
    BY <1>12 DEF G!NotifyFails, G!N!Fail, CallbacksKept, Notified, Terminating, Inv, TypeInv,
                 Callback
  <2> QED BY <1>4, <2>1, <2>2
<1>13. ASSUME NEW c \in Callback, G!NotifyPanics(c) PROVE [S!Next]_(S!vars)
  <2>1. ProviderKept /\ CallbacksKept /\ Process' = "crashed"
    BY <1>13 DEF G!NotifyPanics, G!N!Panic, G!sdkVars, ProviderKept, CallbacksKept, Notified,
                 Terminating, Process
  <2>2. S!Exit
    BY <1>1, <2>1 DEF S!Exit, ProviderKept, CallbacksKept, GameKept, Notified, Terminating, Saved,
                      Process
  <2> QED BY <1>2, <2>2 DEF S!Next, Process
<1>14. ASSUME NEW c \in Callback, G!Activate(c) PROVE [S!Next]_(S!vars)
  <2>1. UNCHANGED <<ready, endings, destroyed, crashed>> /\ Notified
        /\ (activated' = TRUE \/ activated' = activated)
    BY <1>14 DEF G!Activate, Inv, CallbackInv, Notified
  <2>2. CallbacksKept
    BY <1>14 DEF G!Activate, G!senderVars, CallbacksKept, Notified, Terminating, Inv, TypeInv,
                 Callback
  <2>3. CASE activated' = activated
    BY <1>4, <2>1, <2>2, <2>3 DEF ProviderKept
  <2>4. CASE activated' = TRUE /\ ~activated
    <3>1. endings > 0 => S!AskedToEnd
      BY <1>5, <2>4 DEF Over, Inv, GameInv
    <3>2. S!Activate
      BY <1>1, <1>3, <2>1, <2>2, <2>4, <3>1 DEF S!Activate, CallbacksKept, GameKept, Notified,
                                                Terminating, Saved, Process
    <3> QED BY <1>2, <3>2 DEF S!Next, Process
  <2>5. CASE activated' = TRUE /\ activated
    <3>1. activated' <=> activated
      BY <2>5
    <3>2. UNCHANGED <<ready, endings, destroyed, ctxDone, game>> /\ Process' = Process
      BY <1>1, <1>3, <2>1
    <3> QED BY <1>1, <2>2, <3>1, <3>2 DEF S!vars, CallbacksKept, GameKept, Notified, Terminating,
                                          Saved, Process
  <2> QED BY <2>1, <2>3, <2>4, <2>5
<1>15. ASSUME NEW c \in Callback, G!ServeError(c) \/ (c \in Call /\ (G!Deliver(c) \/ G!Delivered(c)))
       PROVE  [S!Next]_(S!vars)
  <2>1. ProviderKept /\ crashed' = crashed
    BY <1>15 DEF G!ServeError, G!Deliver, G!Delivered, G!sdkVars, ProviderKept
  <2>2. CallbacksKept
    BY <1>15 DEF G!ServeError, G!AfterReport, G!Deliver, G!Delivered, G!senderVars, CallbacksKept,
                 Notified, Terminating, Inv, TypeInv, Callback
  <2> QED BY <1>4, <2>1, <2>2
<1>16. CASE G!CallRun \/ G!PollAnswered \/ G!PollCancelled \/ G!ServeContextDone
  BY <1>4, <1>16 DEF G!CallRun, G!PollAnswered, G!PollCancelled, G!ServeContextDone, G!senderVars,
                     G!sdkVars, ProviderKept, CallbacksKept, Notified, Terminating
<1> QED BY <1>6, <1>7, <1>8, <1>9, <1>10, <1>11, <1>12, <1>13, <1>14, <1>15, <1>16, HostingCases
        DEF G!CloseStep, Callback, Call

\* GameLift and the operator see a wrapper that behaves like Session: every step of a goroutine
\* is a step of the session, or invisible.
THEOREM WrapperImplementsSession == Spec => ImplementsSession
<1>1. Init => S!Init
  BY DEF Init, H!Init, G!Init, G!N!Init, S!Init, H!Saver, G!Callback, G!N!Callback, Exited
<1>2. Inv /\ [Next]_vars => [S!Next]_(S!vars)
  <2>1. ASSUME Inv, Next PROVE [S!Next]_(S!vars)
    BY <2>1, StepCases, RunnerImplements, HarnessImplements, HostingImplements
  <2>2. ASSUME UNCHANGED vars PROVE UNCHANGED S!vars
    BY <2>2 DEF vars, runnerVars, harnessVars, hostingVars, sharedVars, S!vars, Exited
  <2> QED BY <2>1, <2>2
<1> QED BY <1>1, <1>2, Invariance, PTL DEF Spec, ImplementsSession, S!Spec

-----------------------------------------------------------------------------
(* The process uses the harness as Harness assumes.                        *)

LEMMA HarnessUse ==
    ASSUME Inv, Next
    PROVE  [H!Next]_(H!vars)
<1> USE DEF H!vars, H!fieldVars, H!pcVars, H!histVars, harnessVars
<1>1. Alive /\ ~crashed
  BY StepCases DEF Alive
<1>2. CASE RunnerStep \/ Signal
  <2>1. CASE CloseHarness
    <3>1. H!MayClose /\ H!CallClose
      BY <2>1 DEF CloseHarness, Inv, EndInv
    <3> QED BY <1>1, <3>1 DEF H!Next
  <2>2. CASE Signal
    <3>1. H!Cancel
      BY <2>2 DEF Signal, H!Cancel
    <3> QED BY <1>1, <3>1 DEF H!Next
  <2>3. CASE \/ InitHosting \/ InitGame \/ ManagerContextDone \/ ManagerGameResult
             \/ ManagerHostingResult \/ CloseHosting \/ CloseReturns \/ Exit
    BY <2>3 DEF InitHosting, InitGame, ManagerContextDone, ManagerGameResult,
       ManagerHostingResult, CloseHosting, G!CallClose, CloseReturns, Exit, sharedVars
  <2> QED BY <1>2, <2>1, <2>2, <2>3 DEF RunnerStep
<1>3. CASE HarnessSteps
  BY <1>1, <1>3 DEF HarnessSteps, HarnessStep, HarnessCloseStep, GameStep, CallHarness, H!Next,
                    H!MainStep, Call, H!Call
<1>4. CASE HostingSteps
  <2>1. UNCHANGED <<harnessVars, ctxDone>>
    BY <1>4, HostingFrame
  <2>2. crashed' = crashed \/ crashed' = TRUE
    BY <1>4, HostingCases DEF G!CallRun, G!PollAnswered, G!PollCancelled, G!ProcessReady,
       G!ServeContextDone, G!ServeError, G!CloseStep, G!CopyLogs, G!ServeCopyError,
       G!ProcessEnding, G!Destroy, G!BeginCallback, G!NotifySucceeds, G!NotifyFails,
       G!NotifyPanics, G!Activate, G!Deliver, G!Delivered, G!N!Begin, G!N!Succeed, G!N!Fail,
       G!N!Panic
  <2>3. ASSUME crashed' = TRUE PROVE H!ProviderPanics
    BY <2>1, <2>3 DEF H!ProviderPanics, H!Panic
  <2> QED BY <1>1, <2>1, <2>2, <2>3 DEF H!Next
<1> QED BY <1>2, <1>3, <1>4, StepCases

\* The runner and the manager close the harness once, and only when its context is done or its
\* Run returned no error, although it is the provider, too, that may end manager.Run.
THEOREM WrapperImplementsHarness == Spec => ImplementsHarness
<1>1. Init => H!Init
  BY DEF Init
<1>2. Inv /\ [Next]_vars => [H!Next]_(H!vars)
  <2>1. ASSUME UNCHANGED vars PROVE UNCHANGED H!vars
    BY <2>1 DEF vars, harnessVars, sharedVars, H!vars, H!fieldVars, H!pcVars, H!histVars
  <2> QED BY <2>1, HarnessUse
<1> QED BY <1>1, <1>2, Invariance, PTL DEF Spec, ImplementsHarness, H!Spec

\* The harness of the process with what is proved of it.
HP == INSTANCE Harness_proofs

LEMMA SameHarness == Spec => HP!Spec
<1>1. H!Init => HP!Init
  BY DEF H!Init, HP!Init, H!Call, HP!Call, H!Saver, HP!Saver
<1>2. [H!Next]_(H!vars) => [HP!Next]_(HP!vars)
  BY DEF H!CallHosting, HP!CallHosting, H!ChannelOpen, HP!ChannelOpen, H!RunMain,
         HP!RunMain, H!MainContextDone, HP!MainContextDone, H!MainStartResult,
         HP!MainStartResult, H!MainTerminateResult, HP!MainTerminateResult,
         H!ReceiveStart, HP!ReceiveStart, H!ReceiveNilStart, HP!ReceiveNilStart,
         H!StartContextDone, HP!StartContextDone, H!RunCtxDone, HP!RunCtxDone,
         H!RunGame, HP!RunGame, H!NilSpanPanic, HP!NilSpanPanic, H!GameReturns,
         HP!GameReturns, H!ReceiveTerminate, HP!ReceiveTerminate,
         H!ReceiveNilTerminate, HP!ReceiveNilTerminate, H!TerminateContextDone,
         HP!TerminateContextDone, H!CallClose, HP!CallClose, H!Other, HP!Other,
         H!CheckSave, HP!CheckSave, H!SetAttempted, HP!SetAttempted, H!BeginSave,
         HP!BeginSave, H!EndSave, HP!EndSave, H!CallStop, HP!CallStop, H!StopReturns,
         HP!StopReturns, H!CloseTerminate, HP!CloseTerminate, H!CloseStart,
         HP!CloseStart, H!GameUp, HP!GameUp, H!GameDown, HP!GameDown, H!Cancel,
         HP!Cancel, H!ProviderPanics, HP!ProviderPanics, H!Panic, HP!Panic,
         H!MayClose, HP!MayClose, H!MainStep, HP!MainStep, H!StartStep, HP!StartStep,
         H!SaveStep, HP!SaveStep, H!TermStep, HP!TermStep, H!CloseStep, HP!CloseStep,
         H!Next, HP!Next, H!vars, HP!vars, H!fieldVars, HP!fieldVars, H!pcVars,
         HP!pcVars, H!histVars, HP!histVars, H!Call, HP!Call, H!Saver, HP!Saver
<1> QED BY <1>1, <1>2, WrapperImplementsHarness, PTL DEF ImplementsHarness, H!Spec, HP!Spec

\* What is proved of the harness alone holds in the process: a saver calls the targets in order
\* before its own stop, both save only by a race, and only for a session.
THEOREM ProcessSaves ==
    Spec => [](/\ H!SavesCompleteBeforeOwnStop
               /\ H!DoubleSaveOnlyByRace
               /\ H!SaveNeedsSession)
<1>1. HP!Spec => []HP!SavesCompleteBeforeOwnStop
  BY HP!SavesComplete, WrapperAssumption
<1>2. HP!Spec => []HP!DoubleSaveOnlyByRace
  BY HP!DoubleSavesRaced, WrapperAssumption
<1>3. HP!Spec => []HP!SaveNeedsSession
  BY HP!SavesHaveSession, WrapperAssumption
<1>4. HP!SavesCompleteBeforeOwnStop /\ HP!DoubleSaveOnlyByRace /\ HP!SaveNeedsSession
          => H!SavesCompleteBeforeOwnStop /\ H!DoubleSaveOnlyByRace /\ H!SaveNeedsSession
  BY DEF HP!SavesCompleteBeforeOwnStop, H!SavesCompleteBeforeOwnStop, HP!DoubleSaveOnlyByRace,
         H!DoubleSaveOnlyByRace, HP!SaveNeedsSession, H!SaveNeedsSession, HP!Saver, H!Saver
<1> QED BY <1>1, <1>2, <1>3, <1>4, SameHarness, PTL

=============================================================================
