------------------------- MODULE MultiplexGame_proofs -------------------------
(***************************************************************************)
(* Theorems about MultiplexGame, for every set of callers of Stop and of   *)
(* requests and every amount of output: what is over and what was reported *)
(* when Run has returned, and what the log says of the file.               *)
(***************************************************************************)
EXTENDS MultiplexGame, TLAPS

\* Types, as far as the proofs need them.
TypeInv ==
    /\ stopPc \in [Stoppers -> {"idle", "logs", "returned"}]
    /\ inFile \in Nat /\ unread \in Nat /\ logged \in Nat /\ writes \in Nat

Stopping == \E s \in Stoppers : stopPc[s] # "idle"
Stopped  == \E s \in Stoppers : stopPc[s] = "returned"

\* The effects of Stop on Run: while Run has not returned only a Stop cancels its context, and
\* only a Stop that is over has closed the log.
StopInv ==
    /\ ctxDone /\ runPc # "returned" => Stopping
    /\ logs = "closed" => Stopped

\* What Run has made of the game where it is.
GameInv ==
    /\ runPc \in {"uninit", "idle", "setup", "configure", "prepare", "launch"} => cmd = "nil"
    /\ runPc = "start" => cmd = "made"
    /\ runPc = "wait" <=> cmd \in {"up", "dead"}
    /\ runPc = "copy" => cmd = "reaped"
    /\ runPc \in {"settle", "stopserver", "drain", "returned"} => cmd \in {"nil", "made", "reaped"}
    /\ runPc \in {"wait", "copy"} /\ ~copying => Stopped
    /\ heirs => cmd \in {"up", "dead", "reaped"} /\ (runPc \in {"wait", "copy"} \/ Stopped)
    /\ cmd = "reaped" /\ runPc \in {"stopserver", "drain", "returned"} =>
          status \in {"errored", "finished"}

\* The error of Run from the end of the process on.
OutcomeInv ==
    cmd = "reaped" =>
        /\ exit \in {"failed", "signalled"} => runErr
        /\ exit = "killed" => ~runErr
        /\ exit = "ok" /\ runErr => Stopping

\* The credential server lives from StartCredServer to StopCredServer.
CredInv ==
    /\ runPc \in {"uninit", "idle", "setup", "configure"} => ~listening /\ inFlight = {}
    /\ runPc \in {"drain", "returned"} => ~listening
    /\ runPc = "returned" /\ inFlight # {} => Stopping

\* Every whole line is in the log or in the buffer.
LineInv ==
    /\ logged + unread = inFile
    /\ ~scanEnded => logged = writes
    /\ ~ragged => ~scanEnded /\ unread = 0

Inv == TypeInv /\ StopInv /\ GameInv /\ OutcomeInv /\ CredInv /\ LineInv
-----------------------------------------------------------------------------
(* What a step leaves alone.                                               *)

\* The steps of Run and of HealthCheck, of the system's process, and of the rest.
RunSteps == InitGame \/ CallRun \/ RunStep \/ HealthCheck
ProcessSteps == ProcessEnds \/ Kill \/ Fork \/ HeirsEnd
StopSteps == \E s \in Stoppers : CallStop(s) \/ CloseLogs(s)
CredSteps == FetchCredentials \/ CredentialsAnswered

LEMMA StepCases ==
    ASSUME [Next]_vars
    PROVE  RunSteps \/ ProcessSteps \/ StopSteps \/ CredSteps \/ Output \/ UNCHANGED vars
  BY DEF Next, RunSteps, ProcessSteps, StopSteps, CredSteps

LEMMA RunFrame ==
    ASSUME RunSteps
    PROVE  /\ UNCHANGED <<stopPc, exit, heirs, inFlight, inFile, unread, scanEnded, logged, writes,
                          ragged>>
           /\ logs' = logs \/ logs' = "open"
  BY DEF RunSteps, RunStep, InitGame, CallRun, SetupFails, SetCancel, ConfigureFails,
         StartCredServer, PrepareFails, CreateLogStreams, Launch, Start, StartFails, Reap, Wait,
         Settle, StopCredServer, Return, HealthCheck, Proceed, osVars, credVars, logVars,
         Cred!Serve, Cred!Shutdown, Log!Open, Log!streamVars

LEMMA OtherFrame ==
    ASSUME ProcessSteps \/ CredSteps \/ Output
    PROVE  UNCHANGED <<stopPc, logs, runPc, runErr, ctxDone, status>>
  BY DEF ProcessSteps, CredSteps, ProcessEnds, Kill, Fork, HeirsEnd, FetchCredentials,
         CredentialsAnswered, Output, Log!Write, Log!WriteFails, runVars, logVars

LEMMA StopFrame ==
    ASSUME StopSteps
    PROVE  /\ UNCHANGED <<status, cmd, runPc, runErr, exit, heirs, copying, listening, inFlight>>
           /\ UNCHANGED <<inFile, unread, scanEnded, logged, writes, ragged>>
  BY DEF StopSteps, CallStop, CloseLogs, runVars, osVars, credVars, logVars, Log!Close,
         Log!streamVars

LEMMA TypeNext == TypeInv /\ [Next]_vars => TypeInv'
<1> SUFFICES ASSUME TypeInv, [Next]_vars PROVE TypeInv'
  OBVIOUS
<1> USE DEF TypeInv
<1>1. CASE RunSteps
  BY <1>1, RunFrame
<1>2. CASE StopSteps
  BY <1>2, StopFrame DEF StopSteps, CallStop, CloseLogs
<1>3. CASE ProcessSteps \/ CredSteps
  BY <1>3 DEF ProcessSteps, CredSteps, ProcessEnds, Kill, Fork, HeirsEnd, FetchCredentials,
              CredentialsAnswered, logVars
<1>4. CASE Output
  <2>1. stopPc' = stopPc
    BY <1>4 DEF Output
  <2>2. ASSUME NEW k \in Log!Chunk, Log!Write(k)
        PROVE  inFile' \in Nat /\ unread' \in Nat /\ logged' \in Nat /\ writes' \in Nat
    <3>1. k.lines \in 0..2
      BY DEF Log!Chunk
    <3> QED BY <2>2, <3>1 DEF Log!Write, Log!Scan
  <2>3. ASSUME Log!WriteFails
        PROVE  inFile' \in Nat /\ unread' \in Nat /\ logged' \in Nat /\ writes' \in Nat
    BY <2>3 DEF Log!WriteFails, Log!streamVars
  <2> QED BY <1>4, <2>1, <2>2, <2>3 DEF Output
<1>5. CASE UNCHANGED vars
  BY <1>5 DEF vars, logVars
<1> QED BY <1>1, <1>2, <1>3, <1>4, <1>5, StepCases

\* A Stop that was called, or is over, stays so.
LEMMA StopsStay ==
    ASSUME TypeInv, [Next]_vars
    PROVE  (Stopping => Stopping') /\ (Stopped => Stopped')
<1>1. ASSUME NEW s \in Stoppers
      PROVE  /\ stopPc[s] # "idle" => stopPc'[s] # "idle"
             /\ stopPc[s] = "returned" => stopPc'[s] = "returned"
  <2>1. CASE StopSteps
    BY <2>1 DEF StopSteps, CallStop, CloseLogs, TypeInv
  <2>2. CASE ~StopSteps
    BY <2>2, StepCases, RunFrame, OtherFrame DEF vars
  <2> QED BY <2>1, <2>2
<1> QED BY <1>1 DEF Stopping, Stopped

LEMMA StopNext == TypeInv /\ StopInv /\ [Next]_vars => StopInv'
<1> SUFFICES ASSUME TypeInv, StopInv, [Next]_vars PROVE StopInv'
  OBVIOUS
<1>1. (Stopping => Stopping') /\ (Stopped => Stopped')
  BY StopsStay
<1>2. CASE RunSteps
  <2>1. ctxDone' = ctxDone \/ runPc' = "returned"
    BY <1>2 DEF RunSteps, RunStep, InitGame, CallRun, SetupFails, SetCancel, ConfigureFails,
         StartCredServer, PrepareFails, CreateLogStreams, Launch, Start, StartFails, Reap, Wait,
         Settle, StopCredServer, Return, Returns, HealthCheck, Proceed
  <2>2. runPc' # "returned" => runPc # "returned"
    BY <1>2 DEF RunSteps, RunStep, InitGame, CallRun, SetupFails, SetCancel, ConfigureFails,
         StartCredServer, PrepareFails, CreateLogStreams, Launch, Start, StartFails, Reap, Wait,
         Settle, StopCredServer, Return, Returns, HealthCheck, Proceed
  <2>3. logs' = "closed" => logs = "closed"
    BY <1>2, RunFrame
  <2> QED BY <1>1, <2>1, <2>2, <2>3 DEF StopInv
<1>3. CASE StopSteps
  <2>1. ASSUME NEW s \in Stoppers, CallStop(s) PROVE StopInv'
    <3>1. Stopping' /\ logs' = logs
      BY <2>1 DEF CallStop, logVars, TypeInv, Stopping
    <3> QED BY <1>1, <3>1 DEF StopInv
  <2>2. ASSUME NEW s \in Stoppers, CloseLogs(s) PROVE StopInv'
    <3>1. Stopped' /\ UNCHANGED <<ctxDone, runPc>>
      BY <2>2 DEF CloseLogs, runVars, TypeInv, Stopped
    <3> QED BY <1>1, <3>1 DEF StopInv
  <2> QED BY <1>3, <2>1, <2>2 DEF StopSteps
<1>4. CASE ProcessSteps \/ CredSteps \/ Output
  BY <1>1, <1>4, OtherFrame DEF StopInv
<1>5. CASE UNCHANGED vars
  BY <1>1, <1>5 DEF vars, runVars, logVars, StopInv
<1> QED BY <1>2, <1>3, <1>4, <1>5, StepCases

LEMMA GameNext == TypeInv /\ StopInv /\ GameInv /\ [Next]_vars => GameInv'
<1> SUFFICES ASSUME TypeInv, StopInv, GameInv, [Next]_vars PROVE GameInv'
  OBVIOUS
<1>1. Stopped => Stopped'
  BY StopsStay
<1> USE DEF GameInv
<1>2. CASE RunSteps
  <2>1. heirs' = heirs
    BY <1>2, RunFrame
  <2>2. CASE \/ InitGame \/ CallRun \/ SetupFails \/ SetCancel \/ ConfigureFails
             \/ StartCredServer \/ PrepareFails \/ CreateLogStreams
    BY <1>1, <2>1, <2>2 DEF InitGame, CallRun, SetupFails, SetCancel, ConfigureFails,
       StartCredServer, PrepareFails, CreateLogStreams, Proceed, Returns
  <2>3. CASE Launch \/ Start \/ StartFails \/ Reap
    BY <1>1, <2>1, <2>3 DEF Launch, Start, StartFails, Reap, Proceed, osVars
  <2>4. CASE Wait \/ Settle \/ StopCredServer \/ Return \/ HealthCheck
    BY <1>1, <2>1, <2>4 DEF Wait, Settle, StopCredServer, Return, HealthCheck, Proceed, Returns,
                            osVars
  <2> QED BY <1>2, <2>2, <2>3, <2>4 DEF RunSteps, RunStep
<1>3. CASE StopSteps
  BY <1>1, <1>3, StopFrame
<1>4. CASE ProcessSteps
  <2>1. UNCHANGED <<runPc, status>>
    BY <1>4, OtherFrame
  <2> QED BY <1>1, <1>4, <2>1 DEF ProcessSteps, ProcessEnds, Kill, Fork, HeirsEnd, runVars
<1>5. CASE CredSteps
  BY <1>1, <1>5 DEF CredSteps, FetchCredentials, CredentialsAnswered, runVars, osVars
<1>6. CASE Output
  <2>1. copying' = copying \/ Stopped
    BY <1>6 DEF Output, Log!WriteFails, StopInv
  <2> QED BY <1>1, <1>6, <2>1 DEF Output, runVars
<1>7. CASE UNCHANGED vars
  BY <1>1, <1>7 DEF vars, runVars, osVars
<1> QED BY <1>2, <1>3, <1>4, <1>5, <1>6, <1>7, StepCases

LEMMA OutcomeNext ==
    TypeInv /\ StopInv /\ GameInv /\ OutcomeInv /\ [Next]_vars => OutcomeInv'
<1> SUFFICES ASSUME TypeInv, StopInv, GameInv, OutcomeInv, [Next]_vars PROVE OutcomeInv'
  OBVIOUS
<1>1. Stopping => Stopping'
  BY StopsStay
<1>2. CASE RunSteps
  <2>1. exit' = exit
    BY <1>2, RunFrame
  <2>2. CASE Reap
    <3>1. exit = "ok" /\ runErr' => Stopping
      BY <2>2 DEF Reap, ReapErrors, StopInv
    <3>2. (exit \in {"failed", "signalled"} => runErr') /\ (exit = "killed" => ~runErr')
      BY <2>2 DEF Reap, ReapErrors
    <3> QED BY <1>1, <2>1, <3>1, <3>2 DEF OutcomeInv
  <2>3. CASE Wait
    <3>1. cmd = "reaped" /\ (exit = "ok" /\ ~copying => Stopping)
      BY <2>3 DEF Wait, Proceed, GameInv, Stopping, Stopped
    <3>2. runErr' <=> (runErr \/ (exit = "ok" /\ ~copying))
      BY <2>3 DEF Wait
    <3> QED BY <1>1, <2>1, <3>1, <3>2 DEF OutcomeInv
  <2>4. CASE SetupFails \/ ConfigureFails \/ PrepareFails \/ StartFails \/ Launch \/ Start
    BY <2>4 DEF SetupFails, ConfigureFails, PrepareFails, StartFails, Launch, Start, Proceed,
                GameInv, OutcomeInv
  <2>5. CASE \/ InitGame \/ CallRun \/ SetCancel \/ StartCredServer \/ CreateLogStreams
             \/ Settle \/ StopCredServer \/ Return \/ HealthCheck
    <3>1. UNCHANGED <<cmd, runErr>>
      BY <2>5 DEF InitGame, CallRun, SetCancel, StartCredServer, CreateLogStreams, Settle,
                  StopCredServer, Return, Returns, HealthCheck, Proceed
    <3> QED BY <1>1, <2>1, <3>1 DEF OutcomeInv
  <2> QED BY <1>2, <2>2, <2>3, <2>4, <2>5 DEF RunSteps, RunStep
<1>3. CASE StopSteps
  BY <1>1, <1>3, StopFrame DEF OutcomeInv
<1>4. CASE ProcessSteps \/ CredSteps \/ Output
  <2>1. runErr' = runErr
    BY <1>4, OtherFrame
  <2>2. cmd' = "reaped" => cmd = "reaped" /\ exit' = exit
    BY <1>4 DEF ProcessSteps, CredSteps, ProcessEnds, Kill, Fork, HeirsEnd, FetchCredentials,
                CredentialsAnswered, Output, runVars, osVars
  <2> QED BY <1>1, <2>1, <2>2 DEF OutcomeInv
<1>5. CASE UNCHANGED vars
  BY <1>1, <1>5 DEF vars, runVars, osVars, OutcomeInv
<1> QED BY <1>2, <1>3, <1>4, <1>5, StepCases

LEMMA CredNext == TypeInv /\ StopInv /\ GameInv /\ CredInv /\ [Next]_vars => CredInv'
<1> SUFFICES ASSUME TypeInv, StopInv, GameInv, CredInv, [Next]_vars PROVE CredInv'
  OBVIOUS
<1>1. Stopping => Stopping'
  BY StopsStay
<1>2. CASE RunSteps
  <2>1. inFlight' = inFlight
    BY <1>2, RunFrame
  <2>2. CASE Return
    <3>1. ~listening' /\ (inFlight # {} => Stopping) /\ runPc' = "returned"
      BY <2>2 DEF Return, Returns, Cred!Drained, StopInv, CredInv, credVars
    <3> QED BY <1>1, <2>1, <3>1 DEF CredInv
  <2>3. CASE StartCredServer \/ StopCredServer
    BY <2>1, <2>3 DEF StartCredServer, StopCredServer, Proceed, Cred!Serve, Cred!Shutdown, CredInv
  <2>4. CASE \/ InitGame \/ CallRun \/ SetupFails \/ SetCancel \/ ConfigureFails \/ PrepareFails
             \/ CreateLogStreams \/ Launch \/ Start \/ StartFails \/ Reap \/ Wait \/ Settle
             \/ HealthCheck
    BY <1>1, <2>1, <2>4 DEF InitGame, CallRun, SetupFails, SetCancel, ConfigureFails, PrepareFails,
       CreateLogStreams, Launch, Start, StartFails, Reap, Wait, Settle, HealthCheck, Proceed,
       Returns, credVars, CredInv
  <2> QED BY <1>2, <2>2, <2>3, <2>4 DEF RunSteps, RunStep
<1>3. CASE StopSteps
  BY <1>1, <1>3, StopFrame DEF CredInv
<1>4. CASE CredSteps
  <2>1. runPc' = runPc
    BY <1>4, OtherFrame
  <2>2. listening' = listening /\ (inFlight' # {} => inFlight # {} \/ listening)
    BY <1>4 DEF CredSteps, FetchCredentials, CredentialsAnswered, Cred!BeginRequest, Cred!EndRequest
  <2> QED BY <1>1, <2>1, <2>2 DEF CredInv
<1>5. CASE ProcessSteps \/ Output
  <2>1. runPc' = runPc /\ UNCHANGED credVars
    BY <1>5, OtherFrame DEF ProcessSteps, ProcessEnds, Kill, Fork, HeirsEnd, Output
  <2> QED BY <1>1, <2>1 DEF credVars, CredInv
<1>6. CASE UNCHANGED vars
  BY <1>1, <1>6 DEF vars, runVars, credVars, CredInv
<1> QED BY <1>2, <1>3, <1>4, <1>5, <1>6, StepCases

LEMMA LineNext == TypeInv /\ LineInv /\ [Next]_vars => LineInv'
<1> SUFFICES ASSUME TypeInv, LineInv, [Next]_vars PROVE LineInv'
  OBVIOUS
<1>1. CASE UNCHANGED <<inFile, unread, scanEnded, logged, writes, ragged>>
  BY <1>1 DEF LineInv
<1>2. ASSUME NEW k \in Log!Chunk, Log!Write(k) PROVE LineInv'
  <2>1. k.lines \in 0..2
    BY DEF Log!Chunk
  <2>2. ASSUME ~ragged' PROVE ~ragged /\ k.lines = 1
    <3>1. ~ragged /\ k = [lines |-> 1, rest |-> FALSE]
      BY <1>2, <2>2 DEF Log!Write
    <3> QED BY <3>1
  <2>3. CASE scanEnded
    <3>1. scanEnded' /\ logged' = logged /\ unread' = unread + k.lines
          /\ inFile' = inFile + k.lines
      BY <1>2, <2>3 DEF Log!Write, Log!Scan
    <3> QED BY <2>1, <2>2, <2>3, <3>1 DEF TypeInv, LineInv
  <2>4. CASE ~scanEnded /\ unread + k.lines > 0
    <3>1. logged' = logged + 1 /\ unread' = (unread + k.lines) - 1
          /\ inFile' = inFile + k.lines /\ writes' = writes + 1
      BY <1>2, <2>4, Zenon DEF Log!Write, Log!Scan
    <3>2. unread + k.lines # 0
      BY <2>1, <2>4 DEF TypeInv
    <3>3. ~scanEnded'
      BY <1>2, <2>4, <3>2, Zenon DEF Log!Write, Log!Scan
    <3> QED BY <2>1, <2>2, <2>4, <3>1, <3>3 DEF TypeInv, LineInv
  <2>5. CASE ~scanEnded /\ unread + k.lines = 0
    <3>1. ~(unread + k.lines > 0)
      BY <2>1, <2>5 DEF TypeInv
    <3>2. logged' = logged /\ unread' = unread + k.lines /\ inFile' = inFile + k.lines
      BY <1>2, <3>1, Zenon DEF Log!Write, Log!Scan
    <3>3. scanEnded'
      BY <1>2, <2>5, Zenon DEF Log!Write, Log!Scan
    <3> QED BY <2>1, <2>2, <2>5, <3>2, <3>3 DEF TypeInv, LineInv
  <2> QED BY <2>1, <2>3, <2>4, <2>5 DEF TypeInv
<1>3. CASE Output
  <2>1. CASE Log!WriteFails
    BY <1>1, <2>1 DEF Log!WriteFails, Log!streamVars
  <2> QED BY <1>2, <1>3, <2>1 DEF Output
<1>4. CASE ProcessSteps \/ CredSteps
  BY <1>1, <1>4 DEF ProcessSteps, CredSteps, ProcessEnds, Kill, Fork, HeirsEnd, FetchCredentials,
                    CredentialsAnswered, logVars
<1> QED BY <1>1, <1>3, <1>4, StepCases, RunFrame, StopFrame DEF vars, logVars

LEMMA InvInit == Init => Inv
<1> SUFFICES ASSUME Init PROVE Inv
  OBVIOUS
<1> USE DEF Init, Cred!CredInit, Log!LogInit
<1>1. TypeInv
  BY DEF TypeInv
<1>2. StopInv /\ GameInv /\ OutcomeInv /\ CredInv
  BY DEF StopInv, GameInv, OutcomeInv, CredInv
<1>3. LineInv
  BY DEF LineInv
<1> QED BY <1>1, <1>2, <1>3 DEF Inv

LEMMA Invariance == Spec => []Inv
<1>1. Inv /\ [Next]_vars => Inv'
  BY TypeNext, StopNext, GameNext, OutcomeNext, CredNext, LineNext DEF Inv
<1> QED BY <1>1, InvInit, PTL DEF Spec

-----------------------------------------------------------------------------
(* What holds when Run has returned, and of the log all the time.          *)

\* Run's error tells how the game ended, whatever Stop and the copying of its output do.
THEOREM OutcomesReported == Spec => []OutcomeReported
<1>1. Inv => OutcomeReported
  BY DEF Inv, OutcomeInv, OutcomeReported, Stopping
<1> QED BY <1>1, Invariance, PTL

\* Run leaves no process behind, and a descendant only if a Stop closed the log under it.
THEOREM NothingLeftRunning == Spec => []NothingRunsAfterRun
<1>1. Inv => NothingRunsAfterRun
  BY DEF Inv, GameInv, NothingRunsAfterRun, Stopped
<1> QED BY <1>1, Invariance, PTL

\* Run takes the credentials from the game: it waits for the requests unless a Stop cancels.
THEOREM CredentialsEnded == Spec => []CredentialsEnd
<1>1. Inv => CredentialsEnd
  BY DEF Inv, CredInv, CredentialsEnd, Stopping
<1> QED BY <1>1, Invariance, PTL

\* One scanned line for each write: the log never leads the file, and keeps up with a game that
\* writes line by line.
THEOREM LogLags == Spec => []LogFollowsFile
<1>1. Inv => LogFollowsFile
  BY DEF Inv, TypeInv, LineInv, LogFollowsFile
<1> QED BY <1>1, Invariance, PTL
=============================================================================
