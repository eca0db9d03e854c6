---------------------------- MODULE Harness_proofs ----------------------------
(***************************************************************************)
(* Theorems about Harness, for every set of callers and every number of    *)
(* quicksave targets: what the two savers, which share nothing but an      *)
(* unsynchronised flag, can and cannot do to each other.                   *)
(***************************************************************************)
EXTENDS Harness, TLAPS

\* Where a saver is before its loop over the targets, in it, and after it.
Before   == {"idle", "select", "check", "set"}
After    == {"stopping", "send", "closeTerm", "closeStart", "done", "gone"}
SaverPlace == Before \union {"save", "saving", "stop"} \union After

\* Types, as far as the proofs need them; harness.Run spawns the terminate goroutine.
TypeInv ==
    /\ mainPc = "idle" => savePc["term"] = "idle"
    /\ savePc \in [Saver -> SaverPlace]
    /\ saveIdx \in [Saver -> Nat]
    /\ saves \in [Saver -> Seq(Nat)]
    /\ stops \subseteq Saver

\* The targets up to the n-th.
Upto(n) == [i \in 1..n |-> i]

\* What a saver has called where it is.
ProgressInv ==
    \A a \in Saver :
        /\ savePc[a] \in Before => saves[a] = <<>> /\ saveIdx[a] = 1
        /\ savePc[a] = "save" =>
              saveIdx[a] \in 1..Targets /\ saves[a] = Upto(saveIdx[a] - 1)
        /\ savePc[a] = "saving" => saveIdx[a] \in 1..Targets /\ saves[a] = Upto(saveIdx[a])
        /\ savePc[a] \in {"stop"} \union After => saves[a] \in {<<>>, Upto(Targets)}
        /\ a \in stops => savePc[a] \in After

\* A saver that passed the check.
Entered(a) == savePc[a] \in {"set", "save", "saving"} \/ saves[a] # <<>>

\* A saver that is past the assignment has set the flag, and two of them passed the check
\* only if they raced; a saver that passed it found a session.
FlagInv ==
    /\ \A a \in Saver : savePc[a] \in {"save", "saving"} \/ saves[a] # <<>> => attempted
    /\ Entered("term") /\ Entered("close") => raced
    /\ \A a \in Saver : Entered(a) => hasEvent /\ QuickSave

-----------------------------------------------------------------------------
(* The targets as a sequence that grows.                                   *)

LEMMA UptoFacts ==
    ASSUME NEW n \in Nat
    PROVE  /\ Upto(n) \in Seq(Nat)
           /\ Upto(0) = <<>>
           /\ n # 0 => Append(Upto(n - 1), n) = Upto(n)
           /\ n # 0 => Upto(n) # <<>>
<1>1. Upto(n) \in Seq(Nat) /\ Len(Upto(n)) = n
  BY DEF Upto
<1>2. Upto(0) = <<>>
  BY DEF Upto
<1>3. ASSUME n # 0 PROVE Append(Upto(n - 1), n) = Upto(n)
  BY <1>3 DEF Upto
<1>4. ASSUME n # 0 PROVE Upto(n) # <<>>
  BY <1>1, <1>4
<1> QED BY <1>1, <1>2, <1>3, <1>4

-----------------------------------------------------------------------------
(* What a step does to the savers.                                         *)

saverVars == <<attempted, savePc, saveIdx, saves, stops, raced>>

\* The steps of the other goroutines and of the environment.
Elsewhere == UNCHANGED saverVars /\ (hasEvent => hasEvent')

\* The steps that take a saver from one place outside of SaveStep to another.
Move(a, from, to) ==
    /\ savePc[a] \in from /\ savePc' = [savePc EXCEPT ![a] = to]
    /\ UNCHANGED <<hasEvent, attempted, saveIdx, saves, stops, raced>>

Moves ==
    \/ Move("term", {"idle"}, "select") \/ Move("term", {"select"}, "check")
    \/ Move("term", {"select", "send"}, "gone") \/ Move("close", {"idle"}, "check")
    \/ Move("close", {"closeTerm"}, "closeStart") \/ Move("close", {"closeStart"}, "done")

LEMMA StepCases ==
    ASSUME TypeInv, Next
    PROVE  Elsewhere \/ Moves \/ \E a \in Saver : SaveStep(a)
<1> USE DEF TypeInv, Elsewhere, saverVars, fieldVars, pcVars, histVars
<1>1. CASE MainStep
  <2>1. CASE RunMain
    BY <2>1 DEF RunMain, Moves, Move
  <2>2. CASE MainTerminateResult
    BY <2>2 DEF MainTerminateResult, Moves, Move
  <2>3. CASE MainContextDone \/ MainStartResult
    BY <2>3 DEF MainContextDone, MainStartResult
  <2> QED BY <1>1, <2>1, <2>2, <2>3 DEF MainStep
<1>2. CASE StartStep
  BY <1>2 DEF StartStep, ReceiveStart, ReceiveNilStart, StartContextDone, RunGame, NilSpanPanic,
              GameReturns, Panic
<1>3. CASE TermStep
  BY <1>3 DEF TermStep, ReceiveTerminate, ReceiveNilTerminate, TerminateContextDone, Moves, Move,
              Saver
<1>4. CASE CloseStep
  BY <1>4 DEF CloseStep, CloseTerminate, CloseStart, Panic, Moves, Move, Saver
<1>5. CASE MayClose /\ CallClose
  BY <1>5 DEF CallClose, Moves, Move
<1>6. CASE \/ \E c \in Call : CallHosting(c)
           \/ GameUp \/ GameDown \/ Cancel \/ ProviderPanics
  BY <1>6 DEF CallHosting, GameUp, GameDown, Cancel, ProviderPanics, Panic
<1> QED BY <1>1, <1>2, <1>3, <1>4, <1>5, <1>6 DEF Next

-----------------------------------------------------------------------------
(* The invariant.                                                          *)

LEMMA TypeInit == Init => TypeInv
<1> SUFFICES ASSUME Init PROVE TypeInv
  OBVIOUS
<1>1. savePc \in [Saver -> SaverPlace] /\ savePc["term"] = "idle"
  BY DEF Init, SaverPlace, Before, Saver
<1>2. saveIdx \in [Saver -> Nat]
  BY DEF Init
<1>3. saves \in [Saver -> Seq(Nat)]
  BY DEF Init
<1>4. stops \subseteq Saver
  BY DEF Init
<1> QED BY <1>1, <1>2, <1>3, <1>4 DEF TypeInv

LEMMA TypeNext == TypeInv /\ [Next]_vars => TypeInv'
<1> SUFFICES ASSUME TypeInv, [Next]_vars PROVE TypeInv'
  OBVIOUS
<1>1. CASE UNCHANGED vars
  BY <1>1 DEF TypeInv, vars, pcVars, histVars
<1>2. CASE Next
  <2>1. mainPc' = "idle" => mainPc = "idle" /\ savePc'["term"] = "idle"
    <3>1. ASSUME NEW a \in Saver, SaveStep(a) PROVE mainPc' = mainPc /\ savePc[a] # "idle"
                                                    /\ savePc' = [savePc EXCEPT ![a] = savePc'[a]]
      BY <3>1 DEF SaveStep, CheckSave, SetAttempted, BeginSave, EndSave, CallStop, StopReturns,
                  TypeInv
    <3> USE DEF TypeInv
    <3>2. CASE MainStep
      BY <3>2 DEF MainStep, RunMain, MainContextDone, MainStartResult, MainTerminateResult
    <3>3. CASE StartStep
      BY <3>3 DEF StartStep, ReceiveStart, ReceiveNilStart, StartContextDone, RunGame,
                  NilSpanPanic, GameReturns, Panic, pcVars
    <3>4. CASE TermStep
      BY <3>1, <3>4 DEF TermStep, ReceiveTerminate, ReceiveNilTerminate, TerminateContextDone,
                        Saver
    <3>5. CASE CloseStep
      BY <3>1, <3>5 DEF CloseStep, CloseTerminate, CloseStart, Panic, pcVars, Saver
    <3>6. CASE MayClose /\ CallClose
      BY <3>6 DEF CallClose
    <3>7. CASE \/ \E c \in Call : CallHosting(c)
               \/ GameUp \/ GameDown \/ Cancel \/ ProviderPanics
      BY <3>7 DEF CallHosting, GameUp, GameDown, Cancel, ProviderPanics, Panic, pcVars
    <3> QED BY <1>2, <3>2, <3>3, <3>4, <3>5, <3>6, <3>7 DEF Next
  <2> DEFINE Typed == /\ savePc \in [Saver -> SaverPlace] /\ saveIdx \in [Saver -> Nat]
                      /\ saves \in [Saver -> Seq(Nat)] /\ stops \subseteq Saver
  <2>2. Typed'
    <3> USE DEF TypeInv, SaverPlace, Before, After
    <3>1. CASE Elsewhere
      BY <3>1 DEF Elsewhere, saverVars
    <3>2. CASE Moves
      BY <3>2 DEF Moves, Move
    <3>3. ASSUME NEW a \in Saver, BeginSave(a) PROVE Typed'
      <4>1. Append(saves[a], saveIdx[a]) \in Seq(Nat)
        OBVIOUS
      <4>2. saves' = [saves EXCEPT ![a] = Append(saves[a], saveIdx[a])]
        BY <3>3 DEF BeginSave
      <4>3. saves' \in [Saver -> Seq(Nat)]
        BY <4>1, <4>2
      <4> QED BY <3>3, <4>3 DEF BeginSave
    <3>4. ASSUME NEW a \in Saver, SaveStep(a), ~BeginSave(a) PROVE Typed'
      <4>1. saves' = saves
        BY <3>4 DEF SaveStep, CheckSave, SetAttempted, EndSave, CallStop, StopReturns, histVars
      <4>2. saveIdx' \in [Saver -> Nat]
        <5>1. saveIdx' = saveIdx \/ saveIdx' = [saveIdx EXCEPT ![a] = saveIdx[a] + 1]
          BY <3>4 DEF SaveStep, CheckSave, SetAttempted, EndSave, CallStop, StopReturns
        <5>2. saveIdx[a] + 1 \in Nat
          OBVIOUS
        <5> QED BY <5>1, <5>2
      <4>3. savePc' \in [Saver -> SaverPlace]
        BY <3>4 DEF SaveStep, CheckSave, SetAttempted, EndSave, CallStop, StopReturns
      <4>4. stops' \subseteq Saver
        BY <3>4 DEF SaveStep, CheckSave, SetAttempted, EndSave, CallStop, StopReturns, histVars
      <4> QED BY <4>1, <4>2, <4>3, <4>4
    <3> QED BY <1>2, <3>1, <3>2, <3>3, <3>4, StepCases
  <2> QED BY <2>1, <2>2 DEF TypeInv
<1> QED BY <1>1, <1>2

LEMMA ProgressInit == Init => ProgressInv
  BY DEF Init, ProgressInv, Before, After

LEMMA ProgressNext == TypeInv /\ ProgressInv /\ [Next]_vars => ProgressInv'
<1> SUFFICES ASSUME TypeInv, ProgressInv, [Next]_vars PROVE ProgressInv'
  OBVIOUS
<1> USE HarnessAssumption DEF TypeInv, Before, After, SaverPlace
<1>1. CASE UNCHANGED vars
  BY <1>1 DEF vars, pcVars, histVars, ProgressInv
<1>2. CASE Elsewhere
  BY <1>2 DEF Elsewhere, saverVars, ProgressInv
<1>3. CASE Moves
  BY <1>3 DEF Moves, Move, ProgressInv
<1>4. ASSUME NEW a \in Saver, CheckSave(a) \/ SetAttempted(a) PROVE ProgressInv'
  <2>1. saves[a] = <<>> /\ saveIdx[a] = 1 /\ a \notin stops
    BY <1>4 DEF CheckSave, SetAttempted, ProgressInv
  <2>2. saveIdx[a] - 1 = 0 /\ saveIdx[a] \in 1..Targets
    BY <2>1
  <2>3. saves[a] = Upto(saveIdx[a] - 1)
    BY <2>1, <2>2, UptoFacts
  <2>4. UNCHANGED <<saveIdx, saves, stops>>
    BY <1>4 DEF CheckSave, SetAttempted, histVars
  <2>5. /\ savePc' = [savePc EXCEPT ![a] = savePc'[a]]
        /\ savePc'[a] \in {"stop", "set", "save"}
    BY <1>4 DEF CheckSave, SetAttempted
  <2> HIDE HarnessAssumption
  <2> QED BY <2>1, <2>2, <2>3, <2>4, <2>5 DEF ProgressInv
<1>5. ASSUME NEW a \in Saver, BeginSave(a) PROVE ProgressInv'
  <2>1. saveIdx[a] \in 1..Targets /\ saves[a] = Upto(saveIdx[a] - 1)
    BY <1>5 DEF BeginSave, ProgressInv
  <2>2. saves' = [saves EXCEPT ![a] = Upto(saveIdx[a])]
    <3>1. saveIdx[a] \in Nat /\ saveIdx[a] # 0
      BY <2>1
    <3>2. Append(Upto(saveIdx[a] - 1), saveIdx[a]) = Upto(saveIdx[a])
      BY <3>1, UptoFacts
    <3> QED BY <1>5, <2>1, <3>2 DEF BeginSave
  <2> QED BY <1>5, <2>1, <2>2 DEF BeginSave, ProgressInv
<1>6. ASSUME NEW a \in Saver, EndSave(a) PROVE ProgressInv'
  BY <1>6 DEF EndSave, histVars, ProgressInv
<1>7. ASSUME NEW a \in Saver, CallStop(a) \/ StopReturns(a) PROVE ProgressInv'
  BY <1>7 DEF CallStop, StopReturns, histVars, ProgressInv
<1> QED BY <1>1, <1>2, <1>3, <1>4, <1>5, <1>6, <1>7, StepCases DEF SaveStep

LEMMA FlagInit == Init => FlagInv
  BY DEF Init, FlagInv, Entered, Saver

LEMMA FlagNext == TypeInv /\ FlagInv /\ [Next]_vars => FlagInv'
<1> SUFFICES ASSUME TypeInv, FlagInv, [Next]_vars PROVE FlagInv'
  OBVIOUS
<1> USE DEF TypeInv, FlagInv, Entered, Saver
<1>1. CASE UNCHANGED vars
  BY <1>1 DEF vars, fieldVars, pcVars, histVars
<1>2. CASE Elsewhere
  BY <1>2 DEF Elsewhere, saverVars
<1>3. CASE Moves
  BY <1>3 DEF Moves, Move
<1>4. ASSUME NEW a \in Saver, CheckSave(a) PROVE FlagInv'
  BY <1>4 DEF CheckSave, Other, fieldVars
<1>5. ASSUME NEW a \in Saver, SetAttempted(a) PROVE FlagInv'
  BY <1>5 DEF SetAttempted, histVars
<1>6. ASSUME NEW a \in Saver, BeginSave(a) PROVE FlagInv'
  <2>1. \A o \in Saver : saves'[o] # saves[o] => o = a
    BY <1>6 DEF BeginSave
  <2> QED BY <1>6, <2>1 DEF BeginSave, fieldVars
<1>7. ASSUME NEW a \in Saver, EndSave(a) \/ CallStop(a) \/ StopReturns(a) PROVE FlagInv'
  BY <1>7 DEF EndSave, CallStop, StopReturns, fieldVars, histVars
<1> QED BY <1>1, <1>2, <1>3, <1>4, <1>5, <1>6, <1>7, StepCases DEF SaveStep

HarnessInv == TypeInv /\ ProgressInv /\ FlagInv

LEMMA HarnessInvariant == Spec => []HarnessInv
<1>1. Init => HarnessInv
  BY TypeInit, ProgressInit, FlagInit DEF HarnessInv
<1>2. HarnessInv /\ [Next]_vars => HarnessInv'
  BY TypeNext, ProgressNext, FlagNext DEF HarnessInv
<1> QED BY <1>1, <1>2, PTL DEF Spec

-----------------------------------------------------------------------------
(* The theorems.                                                           *)

\* A saver that stopped the game had called all targets, in their order, or none,
\* whatever the other saver did meanwhile.
THEOREM SavesComplete == Spec => []SavesCompleteBeforeOwnStop
<1>1. HarnessInv => SavesCompleteBeforeOwnStop
  BY DEF HarnessInv, TypeInv, ProgressInv, SavesCompleteBeforeOwnStop, Upto
<1> QED BY <1>1, HarnessInvariant, PTL

\* Both savers call targets only if both passed the check before either set the flag.
THEOREM DoubleSavesRaced == Spec => []DoubleSaveOnlyByRace
<1>1. HarnessInv => DoubleSaveOnlyByRace
  BY DEF HarnessInv, FlagInv, Entered, DoubleSaveOnlyByRace
<1> QED BY <1>1, HarnessInvariant, PTL

\* No target is called for a session that never reached the start goroutine.
THEOREM SavesHaveSession == Spec => []SaveNeedsSession
<1>1. HarnessInv => SaveNeedsSession
  BY DEF HarnessInv, FlagInv, Entered, SaveNeedsSession
<1> QED BY <1>1, HarnessInvariant, PTL
=============================================================================
