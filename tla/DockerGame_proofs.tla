--------------------------- MODULE DockerGame_proofs --------------------------
(***************************************************************************)
(* Proofs about the docker launcher, for every number of containers, every *)
(* choice of ready-checks and every set of goroutines that call Stop.      *)
(***************************************************************************)
EXTENDS DockerGame, TLAPS

(* The goroutine of Run is never about to launch a container that is not in the   *)
(* configuration, and waitReady always has a container to probe.  TypeOK alone is *)
(* not inductive: the index of the container to start comes from this.            *)
LaunchBound ==
    /\ runPc = "launch" => started < N
    /\ runPc = "probe" => started > 0

TypeInv == TypeOK /\ LaunchBound

LEMMA NAssumption == N \in Nat /\ N > 0
  BY ConfigAssumption

LEMMA InitTypeInv == Init => TypeInv
<1> SUFFICES ASSUME Init PROVE TypeInv
  OBVIOUS
<1>1. exited \in Seq(Container) BY DEF Init
<1>2. LaunchBound BY DEF Init, LaunchBound
<1>3. /\ sawRun \in [Stoppers -> BOOLEAN]
      /\ failed \in [Container -> BOOLEAN]
  BY DEF Init
<1>4. /\ stopPc \in [Stoppers -> {"idle", "stop", "await", "cleanup", "returned"}]
      /\ box \in [Container -> {"absent", "up", "gone"}]
      /\ client \in [Container ->
              {"none", "spawned", "attached", "exited", "announced", "done"}]
  BY DEF Init
<1>5. {started, first, joined, snap, next, atStop} \subseteq 0..N
  BY NAssumption DEF Init
<1> QED BY <1>1, <1>2, <1>3, <1>4, <1>5 DEF Init, TypeInv, TypeOK, RunPcs, Caller

(* Every action keeps the fields, locals and containers in their types. *)
LEMMA NextTypeInv == TypeInv /\ [Next]_vars => TypeInv'
<1> SUFFICES ASSUME TypeInv, [Next]_vars PROVE TypeInv'
  OBVIOUS
<1> USE NAssumption
    DEF TypeInv, TypeOK, LaunchBound, RunPcs, Caller, Container, vars, gameVars, runVars,
        onceVars, stopVars, boxVars, histVars, ClientVarsKept
<1>1. CASE Cancel BY <1>1 DEF Cancel
<1>2. CASE InitGame BY <1>2 DEF InitGame
<1>3. CASE RunStep
  <2>1. CASE EnterRun
    <3>1. CASE stopping BY <2>1, <3>1 DEF EnterRun
    <3>2. CASE ~stopping BY <2>1, <3>2 DEF EnterRun
    <3> QED BY <3>1, <3>2
  <2>2. CASE SetupFails BY <2>2 DEF SetupFails
  <2>3. CASE Setup BY <2>3 DEF Setup
  <2>4. CASE StartNext
    <3>1. CASE StartFails BY <3>1 DEF StartFails
    <3>2. CASE ~StartFails
      <4>1. \/ runPc' = "serving"
            \/ started < N /\ runPc' = "launch"
        BY <2>4, <3>2 DEF StartNext
      <4>2. UNCHANGED <<gameVars, startErr, first, joined, runErr, onceVars, stopVars, boxVars,
                        ctxDone, histVars>>
        BY <2>4, <3>2 DEF StartNext
      <4> QED BY <4>1, <4>2
    <3> QED BY <3>1, <3>2
  <2>5. CASE PrepareFails BY <2>5 DEF PrepareFails, StartFails
  <2>6. CASE Launch BY <2>6 DEF Launch
  <2>7. CASE ProbeReady BY <2>7 DEF ProbeReady
  <2>8. CASE ProbeFails BY <2>8 DEF ProbeFails, StartFails
  <2>9. CASE ServeExited BY <2>9 DEF ServeExited
  <2>10. CASE ServeStopped BY <2>10 DEF ServeStopped
  <2>11. CASE JoinOne BY <2>11 DEF JoinOne
  <2>12. CASE Settle BY <2>12 DEF Settle
  <2>13. CASE DrainCredServer BY <2>13 DEF DrainCredServer
  <2>14. CASE Return BY <2>14 DEF Return, Returns
  <2> QED BY <1>3, <2>1, <2>2, <2>3, <2>4, <2>5, <2>6, <2>7, <2>8, <2>9, <2>10, <2>11,
             <2>12, <2>13, <2>14 DEF RunStep
<1>4. CASE OnceStep
  <2>1. CASE SkipExited BY <2>1 DEF SkipExited
  <2>2. CASE DockerStop
    <3>1. /\ next \in Container /\ next - 1 \in 0..N
          /\ box' \in {box, [box EXCEPT ![next] = "gone"]}
          /\ stopFailed' \in {stopFailed, stopFailed \union {next}}
      BY <2>2 DEF DockerStop
    <3>2. /\ box' \in [Container -> {"absent", "up", "gone"}]
          /\ stopFailed' \subseteq Container
      BY <3>1
    <3> QED BY <2>2, <3>1, <3>2 DEF DockerStop
  <2>3. CASE LeaveOnce BY <2>3 DEF LeaveOnce, LeaveStopContainers
  <2> QED BY <1>4, <2>1, <2>2, <2>3 DEF OnceStep
<1>5. CASE \E a \in Caller : EnterOnce(a) \/ PassOnce(a)
  <2> PICK a \in Caller : EnterOnce(a) \/ PassOnce(a) BY <1>5
  <2>1. CASE EnterOnce(a) BY <2>1 DEF EnterOnce
  <2>2. CASE PassOnce(a) BY <2>2 DEF PassOnce, LeaveStopContainers
  <2> QED BY <2>1, <2>2
<1>6. CASE \E s \in Stoppers : CallStop(s) \/ AwaitRun(s) \/ Cleanup(s)
  <2> PICK s \in Stoppers : CallStop(s) \/ AwaitRun(s) \/ Cleanup(s) BY <1>6
  <2>1. CASE CallStop(s) BY <2>1 DEF CallStop
  <2>2. CASE AwaitRun(s) BY <2>2 DEF AwaitRun
  <2>3. CASE Cleanup(s)
    <3>1. logsOpen' \in {logsOpen, {}} /\ envDir' \in {envDir, "removed"}
      BY <2>3 DEF Cleanup
    <3> QED BY <2>3, <3>1 DEF Cleanup
  <2> QED BY <2>1, <2>2, <2>3
<1>7. CASE \E c \in Container : ClientStep(c) \/ ContainerExit(c)
  <2> PICK c \in Container : ClientStep(c) \/ ContainerExit(c) BY <1>7
  <2>1. CASE DockerRun(c)
    <3>1. box' \in [Container -> {"absent", "up", "gone"}] BY <2>1 DEF DockerRun
    <3>2. failed' \in [Container -> BOOLEAN] BY <2>1 DEF DockerRun
    <3>3. client' \in [Container ->
                {"none", "spawned", "attached", "exited", "announced", "done"}]
      BY <2>1 DEF DockerRun
    <3> QED BY <2>1, <3>1, <3>2, <3>3 DEF DockerRun
  <2>2. CASE ClientReturns(c)
    <3>1. failed' \in [Container -> BOOLEAN] BY <2>2 DEF ClientReturns
    <3>2. client' \in [Container ->
                {"none", "spawned", "attached", "exited", "announced", "done"}]
      BY <2>2 DEF ClientReturns
    <3> QED BY <2>2, <3>1, <3>2 DEF ClientReturns
  <2>3. CASE AnnounceExit(c) BY <2>3 DEF AnnounceExit
  <2>4. CASE CloseDone(c) BY <2>4 DEF CloseDone
  <2>5. CASE ContainerExit(c) BY <2>5 DEF ContainerExit
  <2> QED BY <2>1, <2>2, <2>3, <2>4, <2>5 DEF ClientStep
<1>8. CASE UNCHANGED vars BY <1>8
<1>9. CASE CredentialsAnswered BY <1>9 DEF CredentialsAnswered, Returns
<1> QED BY <1>1, <1>2, <1>3, <1>4, <1>5, <1>6, <1>7, <1>8, <1>9 DEF Next, Terminated

(* The state of the launcher is well typed in every execution: in particular the  *)
(* loop of startAll never appends more containers than the configuration has.     *)
THEOREM TypeCorrect == Spec => []TypeOK
<1>1. TypeInv => TypeOK BY DEF TypeInv
<1> QED BY InitTypeInv, NextTypeInv, <1>1, PTL DEF Spec

-----------------------------------------------------------------------------
(* The loop of startAll.                                                   *)

(* Nothing is started before Setup; once Stop was called at most the container past *)
(* the check of stopCh follows; and the loop is at its head, or launching, only when *)
(* the ready-check of the container before has succeeded.                            *)
StartInv ==
    /\ runPc \in {"uninit", "unavailable", "idle", "setup"} => started = 0
    /\ LateStartBound
    /\ stopping /\ runPc = "launch" => started <= atStop
    /\ ReadyGate
    /\ runPc \in {"starting", "launch"} /\ started \in ReadyChecked => started \in ready

LEMMA InitStartInv == Init => StartInv
<1> SUFFICES ASSUME Init PROVE StartInv
  OBVIOUS
<1>1. ReadyChecked \subseteq 1..N BY ConfigAssumption
<1>2. started = 0 /\ stopping = FALSE /\ runPc = "uninit" BY DEF Init
<1> QED BY NAssumption, <1>1, <1>2 DEF StartInv, LateStartBound, ReadyGate

(* Every action maintains StartInv; only those of Run's loop and Stop can disturb it. *)
LEMMA NextStartInv == TypeInv /\ StartInv /\ [Next]_vars => StartInv'
<1> SUFFICES ASSUME TypeInv, StartInv, [Next]_vars PROVE StartInv'
  OBVIOUS
<1> DEFINE Kept == UNCHANGED <<started, stopping, atStop, ready>>
<1>a. started \in 0..N /\ atStop \in 0..N /\ stopping \in BOOLEAN BY DEF TypeInv, TypeOK
<1>b. ReadyChecked \subseteq 1..N BY ConfigAssumption
<1> USE NAssumption, <1>a, <1>b DEF StartInv, LateStartBound, ReadyGate
<1>k. ASSUME Kept, UNCHANGED runPc PROVE StartInv' BY <1>k
<1>m. ASSUME Kept, runPc' \in {"stop", "join", "deferred", "drain", "returned",
                            "serving"}
      PROVE  StartInv'
  BY <1>m
<1>1. CASE Cancel \/ UNCHANGED vars \/ Terminated
  BY <1>1, <1>k DEF Cancel, Terminated, vars, gameVars, runVars, histVars
<1>2. CASE InitGame BY <1>2 DEF InitGame, histVars
<1>3. CASE RunStep
  <2>1. CASE EnterRun
    <3>1. started = 0 /\ runPc' \in {"setup", "returned"} /\ Kept
      BY <2>1 DEF EnterRun, histVars
    <3> QED BY <3>1
  <2>2. CASE SetupFails BY <2>2, <1>m DEF SetupFails, gameVars, histVars
  <2>3. CASE Setup BY <2>3 DEF Setup, histVars
  <2>4. CASE StartNext
    <3>1. CASE StartFails BY <3>1, <1>m DEF StartFails, gameVars, histVars
    <3>2. CASE ~StartFails
      <4>1. /\ runPc = "starting" /\ Kept
            /\ runPc' = "serving" \/ (~stopping /\ runPc' = "launch")
        BY <2>4, <3>2 DEF StartNext, gameVars, histVars
      <4> QED BY <4>1
    <3> QED BY <3>1, <3>2
  <2>5. CASE PrepareFails BY <2>5, <1>m DEF PrepareFails, StartFails, gameVars, histVars
  <2>6. CASE Launch
    <3>1. /\ runPc = "launch" /\ started' = started + 1
          /\ runPc' = IF started + 1 \in ReadyChecked THEN "probe" ELSE "starting"
          /\ UNCHANGED <<stopping, atStop, ready>>
      BY <2>6 DEF Launch, histVars
    <3> QED BY <3>1
  <2>7. CASE ProbeReady
    <3>1. /\ ready' = ready \union {started} /\ runPc' = "starting"
          /\ UNCHANGED <<started, stopping, atStop>>
          /\ runPc = "probe"
      BY <2>7 DEF ProbeReady, gameVars
    <3> QED BY <3>1
  <2>8. CASE ProbeFails BY <2>8, <1>m DEF ProbeFails, StartFails, gameVars, histVars
  <2>9. CASE ServeExited BY <2>9, <1>m DEF ServeExited, gameVars, histVars
  <2>10. CASE ServeStopped BY <2>10, <1>m DEF ServeStopped, gameVars, histVars
  <2>11. CASE JoinOne BY <2>11, <1>k DEF JoinOne, gameVars, histVars
  <2>12. CASE Settle BY <2>12, <1>m DEF Settle, histVars
  <2>13. CASE DrainCredServer BY <2>13, <1>m DEF DrainCredServer, gameVars, histVars
  <2>14. CASE Return BY <2>14, <1>m DEF Return, Returns, histVars
  <2> QED BY <1>3, <2>1, <2>2, <2>3, <2>4, <2>5, <2>6, <2>7, <2>8, <2>9, <2>10, <2>11,
             <2>12, <2>13, <2>14 DEF RunStep
<1>4. CASE OnceStep
  <2>1. CASE SkipExited BY <2>1, <1>k DEF SkipExited, gameVars, runVars, histVars
  <2>2. CASE DockerStop BY <2>2, <1>k DEF DockerStop, gameVars, runVars
  <2>3. CASE LeaveOnce
    <3>1. Kept /\ (UNCHANGED runPc \/ runPc' = "join")
      BY <2>3 DEF LeaveOnce, LeaveStopContainers, histVars
    <3> QED BY <3>1, <1>k, <1>m
  <2> QED BY <1>4, <2>1, <2>2, <2>3 DEF OnceStep
<1>5. CASE \E a \in Caller : EnterOnce(a) \/ PassOnce(a)
  <2> PICK a \in Caller : EnterOnce(a) \/ PassOnce(a) BY <1>5
  <2>1. CASE EnterOnce(a) BY <2>1, <1>k DEF EnterOnce, runVars, histVars
  <2>2. CASE PassOnce(a)
    <3>1. Kept /\ (UNCHANGED runPc \/ runPc' = "join")
      BY <2>2 DEF PassOnce, LeaveStopContainers, gameVars, histVars
    <3> QED BY <3>1, <1>k, <1>m
  <2> QED BY <2>1, <2>2
<1>6. CASE \E s \in Stoppers : CallStop(s) \/ AwaitRun(s) \/ Cleanup(s)
  <2> PICK s \in Stoppers : CallStop(s) \/ AwaitRun(s) \/ Cleanup(s) BY <1>6
  <2>1. CASE CallStop(s)
    <3>1. /\ stopping' = TRUE /\ atStop' = (IF stopping THEN atStop ELSE started)
          /\ UNCHANGED <<runPc, started, ready>>
      BY <2>1 DEF CallStop, runVars
    <3> QED BY <3>1
  <2>2. CASE AwaitRun(s) BY <2>2, <1>k DEF AwaitRun, gameVars, runVars, histVars
  <2>3. CASE Cleanup(s) BY <2>3, <1>k DEF Cleanup, runVars, histVars
  <2> QED BY <2>1, <2>2, <2>3
<1>7. CASE \E c \in Container : ClientStep(c) \/ ContainerExit(c)
  BY <1>7, <1>k DEF ClientStep, DockerRun, ClientReturns, AnnounceExit, CloseDone,
                    ContainerExit, ClientVarsKept, gameVars, runVars, histVars
<1>8. CASE CredentialsAnswered
  BY <1>8, <1>m DEF CredentialsAnswered, Returns, histVars
<1> QED BY <1>1, <1>2, <1>3, <1>4, <1>5, <1>6, <1>7, <1>8 DEF Next

(* Whatever else runs, a session that is being stopped starts at most the container *)
(* that had passed the check of stopCh.                                              *)
THEOREM LateStartBounded == Spec => []LateStartBound
<1>1. StartInv => LateStartBound BY DEF StartInv
<1> QED BY InitTypeInv, NextTypeInv, InitStartInv, NextStartInv, <1>1, PTL DEF Spec

(* No container is started before the ready-checks of all those before it succeeded. *)
THEOREM ReadyGated == Spec => []ReadyGate
<1>1. StartInv => ReadyGate BY DEF StartInv
<1> QED BY InitTypeInv, NextTypeInv, InitStartInv, NextStartInv, <1>1, PTL DEF Spec

-----------------------------------------------------------------------------
(* The walk of stopContainers.                                             *)

(* A container is up only between its creation by `docker run` and its end; if its *)
(* client returned before it, procCancel killed the client, after the walk.        *)
ClientInv ==
    \A c \in Container :
        /\ c <= started <=> client[c] # "none"
        /\ client[c] \in {"none", "spawned"} => box[c] = "absent"
        /\ box[c] = "up" /\ client[c] # "attached" => once = "done"

(* A container the walk has passed is up only if its `docker stop` failed; and Run *)
(* is past stopContainers only when the walk is over, or there was nothing to walk. *)
WalkInv ==
    /\ once = "done" => next = 0
    /\ once = "fresh" => asked = {} /\ snap = 0
    /\ snap <= started
    /\ \A c \in asked : next < c
    /\ \A c \in Container : next < c /\ c <= snap =>
           \/ c \in stopFailed
           \/ box[c] # "up" /\ client[c] \notin {"none", "spawned"}
    /\ runPc \in {"join", "deferred", "drain", "returned"} /\ started > 0 => once = "done"

LEMMA InitWalkInv == Init => ClientInv /\ WalkInv
<1> SUFFICES ASSUME Init PROVE ClientInv /\ WalkInv
  OBVIOUS
<1>1. /\ started = 0 /\ next = 0 /\ snap = 0 /\ asked = {} /\ once = "fresh"
      /\ \A c \in Container : client[c] = "none" /\ box[c] = "absent"
  BY DEF Init
<1> QED BY NAssumption, <1>1 DEF ClientInv, WalkInv, Container

(* Every action maintains both; StartInv says that nothing is started before Setup. *)
LEMMA NextWalkInv ==
    TypeInv /\ StartInv /\ ClientInv /\ WalkInv /\ [Next]_vars => ClientInv' /\ WalkInv'
<1> SUFFICES ASSUME TypeInv, StartInv, ClientInv, WalkInv, [Next]_vars
             PROVE  ClientInv' /\ WalkInv'
  OBVIOUS
<1> DEFINE WalkKept == UNCHANGED <<started, once, snap, next, box, client, asked, stopFailed>>
<1>a. /\ {started, snap, next} \subseteq 0..N
      /\ box \in [Container -> {"absent", "up", "gone"}]
      /\ client \in [Container -> {"none", "spawned", "attached", "exited", "announced", "done"}]
      /\ asked \subseteq Container /\ stopFailed \subseteq Container
      /\ once \in {"fresh", "busy", "done"}
  BY DEF TypeInv, TypeOK
<1>b. /\ runPc = "launch" => started < N
      /\ runPc = "setup" \/ runPc = "idle" => started = 0
  BY DEF TypeInv, LaunchBound, StartInv
<1> USE NAssumption, <1>a, <1>b DEF ClientInv, WalkInv, Container
<1>k. ASSUME WalkKept, \/ UNCHANGED runPc
                       \/ runPc' \notin {"join", "deferred", "drain", "returned"}
                       \/ runPc \in {"join", "deferred", "drain", "returned"}
                       \/ started = 0
                       \/ once = "done"
      PROVE  ClientInv' /\ WalkInv'
  BY <1>k
<1>1. CASE Cancel \/ UNCHANGED vars \/ Terminated
  BY <1>1, <1>k DEF Cancel, Terminated, vars, gameVars, runVars, onceVars, boxVars, histVars
<1>2. CASE InitGame BY <1>2, <1>k DEF InitGame, onceVars, boxVars, histVars
<1>3. CASE RunStep
  <2>1. CASE EnterRun BY <2>1, <1>k DEF EnterRun, onceVars, boxVars, histVars
  <2>2. CASE SetupFails BY <2>2, <1>k DEF SetupFails, gameVars, onceVars, boxVars, histVars
  <2>3. CASE Setup BY <2>3, <1>k DEF Setup, onceVars, boxVars, histVars
  <2>4. CASE StartNext
    <3>1. WalkKept BY <2>4 DEF StartNext, StartFails, gameVars, onceVars, boxVars, histVars
    <3>2. runPc' \in {"stop", "serving", "launch"} BY <2>4 DEF StartNext, StartFails
    <3> QED BY <3>1, <3>2, <1>k
  <2>5. CASE PrepareFails
    BY <2>5, <1>k DEF PrepareFails, StartFails, gameVars, onceVars, boxVars, histVars
  <2>6. CASE Launch
    <3>1. /\ started' = started + 1 /\ started < N
          /\ client' = [client EXCEPT ![started + 1] = "spawned"]
          /\ runPc' \notin {"join", "deferred", "drain", "returned"}
          /\ UNCHANGED <<once, snap, next, box, asked, stopFailed>>
      BY <2>6 DEF Launch, onceVars, histVars
    <3> QED BY <3>1
  <2>7. CASE ProbeReady BY <2>7, <1>k DEF ProbeReady, gameVars, onceVars, boxVars
  <2>8. CASE ProbeFails
    BY <2>8, <1>k DEF ProbeFails, StartFails, gameVars, onceVars, boxVars, histVars
  <2>9. CASE ServeExited BY <2>9, <1>k DEF ServeExited, gameVars, onceVars, histVars
  <2>10. CASE ServeStopped BY <2>10, <1>k DEF ServeStopped, gameVars, onceVars, boxVars, histVars
  <2>11. CASE JoinOne BY <2>11, <1>k DEF JoinOne, gameVars, onceVars, boxVars, histVars
  <2>12. CASE Settle BY <2>12, <1>k DEF Settle, onceVars, boxVars, histVars
  <2>13. CASE DrainCredServer
    BY <2>13, <1>k DEF DrainCredServer, gameVars, onceVars, boxVars, histVars
  <2>14. CASE Return BY <2>14, <1>k DEF Return, Returns, onceVars, boxVars, histVars
  <2> QED BY <1>3, <2>1, <2>2, <2>3, <2>4, <2>5, <2>6, <2>7, <2>8, <2>9, <2>10, <2>11,
             <2>12, <2>13, <2>14 DEF RunStep
<1>4. CASE OnceStep
  <2>1. CASE SkipExited
    <3>1. /\ once = "busy" /\ next > 0 /\ client[next] = "done" /\ next' = next - 1
          /\ UNCHANGED <<started, once, runPc, snap, box, client, asked, stopFailed>>
      BY <2>1 DEF SkipExited, gameVars, runVars, boxVars, histVars
    <3>2. box[next] # "up" /\ client[next] \notin {"none", "spawned"} BY <3>1
    <3> QED BY <3>1, <3>2
  <2>2. CASE DockerStop
    <3>1. /\ once = "busy" /\ next > 0 /\ client[next] # "done" /\ next' = next - 1
          /\ asked' = asked \union {next}
          /\ UNCHANGED <<started, once, runPc, snap, client>>
      BY <2>2 DEF DockerStop, gameVars, runVars
    <3>2. CASE box[next] = "up" /\ box' = [box EXCEPT ![next] = "gone"] /\ stopFailed' = stopFailed
      BY <3>1, <3>2
    <3>3. CASE box' = box /\ stopFailed' = stopFailed \union {next}
      BY <3>1, <3>3
    <3> QED BY <2>2, <3>2, <3>3 DEF DockerStop
  <2>3. CASE LeaveOnce
    <3>1. /\ next = 0 /\ once' = "done"
          /\ UNCHANGED <<started, snap, next, box, client, asked, stopFailed>>
      BY <2>3 DEF LeaveOnce, onceVars, boxVars, histVars
    <3> QED BY <3>1
  <2> QED BY <1>4, <2>1, <2>2, <2>3 DEF OnceStep
<1>5. CASE \E a \in Caller : EnterOnce(a) \/ PassOnce(a)
  <2> PICK a \in Caller : EnterOnce(a) \/ PassOnce(a) BY <1>5
  <2>1. CASE EnterOnce(a)
    <3>1. /\ once = "fresh" /\ once' = "busy" /\ snap' = started /\ next' = started
          /\ UNCHANGED <<started, runPc, box, client, asked, stopFailed>>
      BY <2>1 DEF EnterOnce, runVars, boxVars, histVars
    <3> QED BY <3>1
  <2>2. CASE PassOnce(a)
    <3>1. WalkKept /\ once = "done"
      BY <2>2 DEF PassOnce, gameVars, onceVars, boxVars, histVars
    <3> QED BY <3>1, <1>k
  <2> QED BY <2>1, <2>2
<1>6. CASE \E s \in Stoppers : CallStop(s) \/ AwaitRun(s) \/ Cleanup(s)
  BY <1>6, <1>k DEF CallStop, AwaitRun, Cleanup, gameVars, runVars, onceVars, boxVars, histVars
<1>7. CASE \E c \in Container : ClientStep(c) \/ ContainerExit(c)
  <2> PICK c \in Container : ClientStep(c) \/ ContainerExit(c) BY <1>7
  <2>k. UNCHANGED <<started, once, runPc, snap, next, asked, stopFailed>>
    BY DEF ClientStep, DockerRun, ClientReturns, AnnounceExit, CloseDone, ContainerExit,
           ClientVarsKept, gameVars, runVars, onceVars, histVars
  <2>1. CASE DockerRun(c)
    <3>1. client[c] = "spawned" BY <2>1 DEF DockerRun
    <3>2. CASE box' = [box EXCEPT ![c] = "up"] /\ client' = [client EXCEPT ![c] = "attached"]
      BY <2>k, <3>1, <3>2
    <3>3. CASE box' = box /\ client' = [client EXCEPT ![c] = "exited"]
      BY <2>k, <3>1, <3>3
    <3> QED BY <2>1, <3>2, <3>3 DEF DockerRun
  <2>2. CASE ClientReturns(c)
    <3>1. /\ client[c] = "attached" /\ client' = [client EXCEPT ![c] = "exited"]
          /\ box[c] = "gone" \/ runPc \in {"deferred", "drain", "returned"}
          /\ UNCHANGED box
      BY <2>2 DEF ClientReturns, ProcCancelled
    <3> QED BY <2>k, <3>1
  <2>3. CASE AnnounceExit(c)
    <3>1. /\ client[c] = "exited" /\ client' = [client EXCEPT ![c] = "announced"]
          /\ UNCHANGED box
      BY <2>3 DEF AnnounceExit
    <3> QED BY <2>k, <3>1
  <2>4. CASE CloseDone(c)
    <3>1. /\ client[c] = "announced" /\ client' = [client EXCEPT ![c] = "done"]
          /\ UNCHANGED box
      BY <2>4 DEF CloseDone
    <3> QED BY <2>k, <3>1
  <2>5. CASE ContainerExit(c)
    <3>1. /\ box[c] = "up" /\ box' = [box EXCEPT ![c] = "gone"]
          /\ UNCHANGED client
      BY <2>5 DEF ContainerExit
    <3> QED BY <2>k, <3>1
  <2> QED BY <2>1, <2>2, <2>3, <2>4, <2>5 DEF ClientStep
<1>8. CASE CredentialsAnswered
  BY <1>8, <1>k DEF CredentialsAnswered, Returns, onceVars, boxVars, histVars
<1> QED BY <1>1, <1>2, <1>3, <1>4, <1>5, <1>6, <1>7, <1>8 DEF Next

(* A container that outlives Run was appended after the walk took its list, or its *)
(* `docker stop` failed: no interleaving of Run, Stop and the daemon loses another. *)
THEOREM OrphansAccountedFor == Spec => []OrphansExplained
<1>1. TypeInv /\ ClientInv /\ WalkInv => OrphansExplained
  <2> SUFFICES ASSUME TypeInv, ClientInv, WalkInv, ProcCancelled,
                      NEW c \in Container, box[c] = "up"
               PROVE  once = "done" /\ (c > snap \/ c \in stopFailed)
    BY DEF OrphansExplained
  <2>1. started \in 0..N /\ snap \in 0..N /\ c \in 1..N
    BY DEF TypeInv, TypeOK, Container
  <2>2. c <= started BY <2>1 DEF ClientInv
  <2>3. once = "done" /\ next = 0 BY NAssumption, <2>1, <2>2 DEF WalkInv, ProcCancelled
  <2> QED BY NAssumption, <2>1, <2>3 DEF WalkInv
<1> QED BY InitTypeInv, NextTypeInv, InitStartInv, NextStartInv, InitWalkInv, NextWalkInv,
           <1>1, PTL DEF Spec

(* Containers are stopped in the reverse of the order they were started in. *)
THEOREM StoppedInReverse == Spec => []ReverseOrder
<1>1. TypeInv /\ WalkInv => ReverseOrder
  <2> SUFFICES ASSUME TypeInv, WalkInv, NEW c \in asked, NEW d \in (c + 1)..snap, box[d] = "up"
               PROVE  d \in stopFailed
    BY DEF ReverseOrder
  <2>1. next \in 0..N /\ snap \in 0..N /\ c \in 1..N
    BY DEF TypeInv, TypeOK, Container
  <2>2. next < c BY DEF WalkInv
  <2>3. d \in Container /\ next < d /\ d <= snap BY NAssumption, <2>1, <2>2 DEF Container
  <2> QED BY <2>3 DEF WalkInv
<1> QED BY InitTypeInv, NextTypeInv, InitStartInv, NextStartInv, InitWalkInv, NextWalkInv,
           <1>1, PTL DEF Spec

-----------------------------------------------------------------------------
(* The outcome of Run.                                                     *)

(* Run stops its containers without a start error only because one exited or it was *)
(* told to; what it settles then stays true, because a container that was announced *)
(* as exited does not change its error any more.                                    *)
OutcomeInv ==
    /\ runPc \in {"stop", "join"} /\ ~startErr => first # 0 \/ stopping \/ ctxDone
    /\ runPc \in {"deferred", "drain", "returned"} /\ ~runErr =>
           stopping \/ ctxDone \/ (first # 0 /\ ~failed[first])

(* The containers whose exit was announced, and the one that ended the session. *)
ExitInv ==
    /\ \A i \in 1..Len(exited) : client[exited[i]] \in {"announced", "done"}
    /\ first # 0 => client[first] \in {"announced", "done"}

LEMMA InitOutcomeInv == Init => OutcomeInv /\ ExitInv
<1> SUFFICES ASSUME Init PROVE OutcomeInv /\ ExitInv
  OBVIOUS
<1>1. runPc = "uninit" /\ first = 0 /\ exited = <<>> BY DEF Init
<1> QED BY <1>1 DEF OutcomeInv, ExitInv

(* The channel of finished containers only ever holds containers, and the one that *)
(* is received was announced.                                                       *)
LEMMA NextExitInv == TypeInv /\ ClientInv /\ ExitInv /\ [Next]_vars => ExitInv'
<1> SUFFICES ASSUME TypeInv, ClientInv, ExitInv, [Next]_vars PROVE ExitInv'
  OBVIOUS
<1>a. /\ first \in 0..N /\ exited \in Seq(Container)
      /\ client \in [Container -> {"none", "spawned", "attached", "exited", "announced", "done"}]
  BY DEF TypeInv, TypeOK
<1>b. first # 0 => first \in Container BY <1>a, NAssumption DEF Container
<1>k. ASSUME UNCHANGED <<client, first, exited>> PROVE ExitInv' BY <1>k DEF ExitInv
<1>c. ASSUME NEW c \in Container, NEW x \in {"attached", "exited", "done"},
             client[c] \notin {"announced", "done"} \/ x = "done",
             client' = [client EXCEPT ![c] = x], UNCHANGED <<first, exited>>
      PROVE  ExitInv'
  BY <1>a, <1>b, <1>c DEF ExitInv
<1>1. CASE Cancel \/ InitGame \/ UNCHANGED vars \/ Terminated
  BY <1>1, <1>k DEF Cancel, InitGame, Terminated, vars, runVars, boxVars
<1>2. CASE RunStep
  <2>1. CASE Launch
    <3>1. /\ started + 1 \in Container /\ client' = [client EXCEPT ![started + 1] = "spawned"]
          /\ UNCHANGED <<first, exited>>
      BY <2>1, NAssumption DEF Launch, TypeInv, TypeOK, LaunchBound, Container
    <3>2. client[started + 1] = "none"
      BY <1>a, <3>1 DEF ClientInv, TypeInv, TypeOK
    <3> QED BY <1>a, <1>b, <3>1, <3>2 DEF ExitInv
  <2>2. CASE ServeExited
    <3>1. /\ exited # <<>> /\ first' = Head(exited) /\ exited' = Tail(exited)
          /\ UNCHANGED client
      BY <2>2 DEF ServeExited
    <3>2. Len(exited) \in Nat /\ Len(exited) > 0 /\ Head(exited) = exited[1]
      BY <1>a, <3>1
    <3>3. client'[first'] \in {"announced", "done"} BY <3>1, <3>2 DEF ExitInv
    <3>4. ASSUME NEW i \in 1..Len(exited')
          PROVE  client'[exited'[i]] \in {"announced", "done"}
      <4>1. i + 1 \in 1..Len(exited) /\ exited'[i] = exited[i + 1]
        BY <1>a, <3>1, <3>2
      <4> QED BY <3>1, <4>1 DEF ExitInv
    <3> QED BY <3>3, <3>4 DEF ExitInv
  <2>3. CASE ~Launch /\ ~ServeExited
    BY <1>2, <2>3, <1>k
       DEF RunStep, EnterRun, SetupFails, Setup, StartNext, StartFails, PrepareFails, ProbeReady,
           ProbeFails, ServeStopped, JoinOne, Settle,
           DrainCredServer, Return, Returns, boxVars
  <2> QED BY <2>1, <2>2, <2>3
<1>3. CASE OnceStep
  BY <1>3, <1>k DEF OnceStep, SkipExited, DockerStop, LeaveOnce, LeaveStopContainers,
                    runVars, boxVars
<1>4. CASE \E a \in Caller : EnterOnce(a) \/ PassOnce(a)
  BY <1>4, <1>k DEF EnterOnce, PassOnce, LeaveStopContainers, runVars, boxVars
<1>5. CASE \E s \in Stoppers : CallStop(s) \/ AwaitRun(s) \/ Cleanup(s)
  BY <1>5, <1>k DEF CallStop, AwaitRun, Cleanup, runVars, boxVars
<1>6. CASE \E c \in Container : ClientStep(c) \/ ContainerExit(c)
  <2> PICK c \in Container : ClientStep(c) \/ ContainerExit(c) BY <1>6
  <2>k. UNCHANGED first
    BY DEF ClientStep, DockerRun, ClientReturns, AnnounceExit, CloseDone, ContainerExit,
           ClientVarsKept, runVars
  <2>1. CASE DockerRun(c) BY <2>1, <2>k, <1>c DEF DockerRun
  <2>2. CASE ClientReturns(c) BY <2>2, <2>k, <1>c DEF ClientReturns
  <2>3. CASE AnnounceExit(c)
    <3>1. exited' = Append(exited, c) /\ client' = [client EXCEPT ![c] = "announced"]
      BY <2>3 DEF AnnounceExit
    <3>2. Len(exited) \in Nat /\ Len(exited') = Len(exited) + 1 BY <1>a, <3>1
    <3>3. ASSUME NEW i \in 1..Len(exited')
          PROVE  client'[exited'[i]] \in {"announced", "done"}
      <4>1. CASE i \in 1..Len(exited)
        <5>1. exited'[i] = exited[i] /\ exited[i] \in Container BY <1>a, <3>1, <3>2, <4>1
        <5> QED BY <1>a, <3>1, <4>1, <5>1 DEF ExitInv
      <4>2. CASE i = Len(exited) + 1
        <5>1. exited'[i] = c BY <1>a, <3>1, <4>2
        <5> QED BY <1>a, <3>1, <5>1
      <4> QED BY <3>2, <4>1, <4>2
    <3>4. first' # 0 => client'[first'] \in {"announced", "done"}
      BY <1>a, <1>b, <2>k, <3>1 DEF ExitInv
    <3> QED BY <3>3, <3>4 DEF ExitInv
  <2>4. CASE CloseDone(c) BY <2>4, <2>k, <1>c DEF CloseDone
  <2>5. CASE ContainerExit(c) BY <2>5, <2>k, <1>k DEF ContainerExit
  <2> QED BY <2>1, <2>2, <2>3, <2>4, <2>5 DEF ClientStep
<1>7. CASE CredentialsAnswered
  BY <1>7, <1>k DEF CredentialsAnswered, Returns, boxVars
<1> QED BY <1>1, <1>2, <1>3, <1>4, <1>5, <1>6, <1>7 DEF Next

(* While Run walks the containers it is in stopContainers. *)
OnceInv == once = "busy" /\ onceBy = "run" => runPc = "stop"

LEMMA InitOnceInv == Init => OnceInv
  BY DEF Init, OnceInv

LEMMA NextOnceInv == OnceInv /\ [Next]_vars => OnceInv'
<1> SUFFICES ASSUME OnceInv, [Next]_vars PROVE OnceInv'
  OBVIOUS
<1> USE DEF OnceInv
<1>1. CASE \/ Cancel \/ UNCHANGED vars \/ Terminated \/ SkipExited \/ DockerStop
           \/ \E s \in Stoppers : CallStop(s) \/ AwaitRun(s) \/ Cleanup(s)
           \/ \E c \in Container : ClientStep(c) \/ ContainerExit(c)
  <2>1. UNCHANGED <<once, onceBy, runPc>>
    BY <1>1 DEF Cancel, Terminated, SkipExited, DockerStop, CallStop, AwaitRun, Cleanup, ClientStep,
                DockerRun, ClientReturns, AnnounceExit, CloseDone, ContainerExit, ClientVarsKept,
                vars, gameVars, runVars, onceVars
  <2> QED BY <2>1
<1>2. CASE InitGame BY <1>2 DEF InitGame, onceVars
<1>3. CASE RunStep
  <2>1. (runPc # "stop" /\ UNCHANGED <<once, onceBy>>) \/ UNCHANGED <<once, onceBy, runPc>>
    BY <1>3 DEF RunStep, EnterRun, SetupFails, Setup, StartNext, StartFails, PrepareFails, Launch,
                ProbeReady, ProbeFails, ServeExited, ServeStopped, JoinOne, Settle,
                DrainCredServer, Return, Returns, gameVars, onceVars
  <2> QED BY <2>1
<1>4. CASE LeaveOnce BY <1>4 DEF LeaveOnce
<1>5. CASE \E a \in Caller : EnterOnce(a) \/ PassOnce(a)
  <2>1. CASE \E a \in Caller : EnterOnce(a)
    BY <2>1 DEF EnterOnce, AtStopContainers, runVars
  <2>2. CASE \E a \in Caller : PassOnce(a)
    BY <2>2 DEF PassOnce, gameVars
  <2> QED BY <1>5, <2>1, <2>2
<1>6. CASE CredentialsAnswered
  BY <1>6 DEF CredentialsAnswered, Returns, onceVars
<1> QED BY <1>1, <1>2, <1>3, <1>4, <1>5, <1>6 DEF Next, OnceStep

(* What is received from a channel of S is an S. *)
LEMMA HeadInSeq == ASSUME NEW S, NEW q \in Seq(S), q # <<>> PROVE Head(q) \in S
  OBVIOUS

LEMMA NextOutcomeInv ==
    TypeInv /\ ExitInv /\ OnceInv /\ OutcomeInv /\ [Next]_vars => OutcomeInv'
<1> SUFFICES ASSUME TypeInv, ExitInv, OnceInv, OutcomeInv, [Next]_vars PROVE OutcomeInv'
  OBVIOUS
<1> DEFINE OutcomeKept ==
             UNCHANGED <<stopping, runPc, startErr, first, runErr, failed, ctxDone>>
<1>a. /\ first \in 0..N /\ failed \in [Container -> BOOLEAN]
      /\ {stopping, ctxDone, startErr, runErr} \subseteq BOOLEAN
  BY DEF TypeInv, TypeOK
<1>k. ASSUME OutcomeKept PROVE OutcomeInv' BY <1>k DEF OutcomeInv
<1>1. CASE Cancel BY <1>1 DEF Cancel, OutcomeInv, gameVars, runVars, boxVars
<1>2. CASE InitGame BY <1>2 DEF InitGame, OutcomeInv, boxVars
<1>3. CASE RunStep
  <2>1. CASE EnterRun
    <3>1. /\ runPc = "idle" /\ runPc' \in {"setup", "returned"}
          /\ runPc' = "returned" => runErr' = TRUE
      BY <2>1 DEF EnterRun
    <3> QED BY <3>1 DEF OutcomeInv
  <2>2. CASE SetupFails BY <2>2 DEF SetupFails, OutcomeInv, gameVars
  <2>3. CASE Setup BY <2>3 DEF Setup, OutcomeInv
  <2>4. CASE StartNext
    <3>1. /\ runPc = "starting" /\ runPc' \in {"stop", "serving", "launch"}
          /\ runPc' = "stop" => startErr' = TRUE
      BY <2>4 DEF StartNext, StartFails
    <3> QED BY <3>1 DEF OutcomeInv
  <2>5. CASE PrepareFails BY <2>5 DEF PrepareFails, StartFails, OutcomeInv
  <2>6. CASE Launch BY <2>6 DEF Launch, OutcomeInv
  <2>7. CASE ProbeReady BY <2>7 DEF ProbeReady, OutcomeInv
  <2>8. CASE ProbeFails BY <2>8 DEF ProbeFails, StartFails, OutcomeInv
  <2>9. CASE ServeExited
    <3>1. /\ runPc' = "stop" /\ exited # <<>> /\ first' = Head(exited)
      BY <2>9 DEF ServeExited
    <3>2. exited \in Seq(1..N) BY DEF TypeInv, TypeOK, Container
    <3>3. first' \in 1..N BY <3>1, <3>2, HeadInSeq
    <3>4. first' # 0 BY <3>3, NAssumption
    <3> QED BY <3>1, <3>4 DEF OutcomeInv
  <2>10. CASE ServeStopped BY <2>10 DEF ServeStopped, OutcomeInv, gameVars
  <2>11. CASE JoinOne BY <2>11, <1>k DEF JoinOne, gameVars, boxVars
  <2>12. CASE Settle
    <3>1. /\ runPc = "join" /\ runPc' = "deferred"
          /\ UNCHANGED <<stopping, startErr, first, failed, ctxDone>>
      BY <2>12 DEF Settle, boxVars
    <3>2. ASSUME ~runErr' PROVE ~startErr /\ ~(first # 0 /\ ~stopping /\ failed[first])
      BY <2>12, <3>2 DEF Settle
    <3> QED BY <3>1, <3>2 DEF OutcomeInv
  <2>13. CASE DrainCredServer BY <2>13 DEF DrainCredServer, OutcomeInv, gameVars, boxVars
  <2>14. CASE Return BY <2>14 DEF Return, Returns, OutcomeInv, boxVars
  <2> QED BY <1>3, <2>1, <2>2, <2>3, <2>4, <2>5, <2>6, <2>7, <2>8, <2>9, <2>10, <2>11,
             <2>12, <2>13, <2>14 DEF RunStep
<1>4. CASE OnceStep
  <2>1. CASE SkipExited BY <2>1, <1>k DEF SkipExited, gameVars, runVars, boxVars
  <2>2. CASE DockerStop BY <2>2, <1>k DEF DockerStop, gameVars, runVars
  <2>3. CASE LeaveOnce
    <3>1. /\ (runPc = "stop" /\ runPc' = "join") \/ UNCHANGED runPc
          /\ UNCHANGED <<stopping, startErr, first, runErr, failed, ctxDone>>
      BY <2>3 DEF LeaveOnce, OnceInv, LeaveStopContainers, boxVars
    <3> QED BY <3>1 DEF OutcomeInv
  <2> QED BY <1>4, <2>1, <2>2, <2>3 DEF OnceStep
<1>5. CASE \E a \in Caller : EnterOnce(a) \/ PassOnce(a)
  <2>1. CASE \E a \in Caller : EnterOnce(a) BY <2>1, <1>k DEF EnterOnce, runVars, boxVars
  <2>2. CASE \E a \in Caller : PassOnce(a)
    <3>1. /\ (runPc = "stop" /\ runPc' = "join") \/ UNCHANGED runPc
          /\ UNCHANGED <<stopping, startErr, first, runErr, failed, ctxDone>>
      BY <2>2 DEF PassOnce, AtStopContainers, LeaveStopContainers, gameVars, boxVars
    <3> QED BY <3>1 DEF OutcomeInv
  <2> QED BY <1>5, <2>1, <2>2
<1>6. CASE \E s \in Stoppers : CallStop(s) \/ AwaitRun(s) \/ Cleanup(s)
  <2> PICK s \in Stoppers : CallStop(s) \/ AwaitRun(s) \/ Cleanup(s) BY <1>6
  <2>1. CASE CallStop(s)
    <3>1. stopping' = TRUE /\ UNCHANGED <<runPc, startErr, first, runErr, failed>>
      BY <2>1 DEF CallStop, runVars, boxVars
    <3> QED BY <3>1 DEF OutcomeInv
  <2>2. CASE AwaitRun(s) BY <2>2, <1>k DEF AwaitRun, gameVars, runVars, boxVars
  <2>3. CASE Cleanup(s)
    <3>1. OutcomeKept BY <2>3 DEF Cleanup, runVars
    <3> QED BY <3>1, <1>k
  <2> QED BY <2>1, <2>2, <2>3
<1>7. CASE \E c \in Container : ClientStep(c) \/ ContainerExit(c)
  <2> PICK c \in Container : ClientStep(c) \/ ContainerExit(c) BY <1>7
  <2>1. UNCHANGED <<stopping, runPc, startErr, first, runErr, ctxDone>>
    BY DEF ClientStep, DockerRun, ClientReturns, AnnounceExit, CloseDone, ContainerExit,
           ClientVarsKept, gameVars, runVars
  <2>2. failed' = failed \/ (failed' = [failed EXCEPT ![c] = TRUE]
                             /\ client[c] \in {"spawned", "attached"})
    BY DEF ClientStep, DockerRun, ClientReturns, AnnounceExit, CloseDone, ContainerExit
  <2>3. first # 0 => failed'[first] = failed[first]
    <3> SUFFICES ASSUME first # 0 PROVE failed'[first] = failed[first]
      OBVIOUS
    <3>1. first \in Container BY <1>a, NAssumption DEF Container
    <3>2. client[first] \in {"announced", "done"} BY DEF ExitInv
    <3>3. CASE failed' = failed BY <3>3
    <3>4. CASE failed' = [failed EXCEPT ![c] = TRUE] /\ c # first BY <1>a, <3>1, <3>4
    <3> QED BY <2>2, <3>2, <3>3, <3>4
  <2> QED BY <2>1, <2>3 DEF OutcomeInv
<1>8. CASE UNCHANGED vars \/ Terminated
  BY <1>8, <1>k DEF Terminated, vars, gameVars, runVars, boxVars
<1>9. CASE CredentialsAnswered
  BY <1>9 DEF CredentialsAnswered, Returns, OutcomeInv, boxVars
<1> QED BY <1>1, <1>2, <1>3, <1>4, <1>5, <1>6, <1>7, <1>8, <1>9 DEF Next

(* Run returns without an error only if the session was ended from outside or the *)
(* container whose exit ended it succeeded.                                        *)
THEOREM NoCrashIsSuccess == Spec => []CleanReturnJustified
<1>1. OutcomeInv => CleanReturnJustified BY DEF OutcomeInv, CleanReturnJustified
<1> QED BY InitTypeInv, NextTypeInv, InitStartInv, NextStartInv, InitWalkInv, NextWalkInv,
           InitOutcomeInv, NextExitInv, InitOnceInv, NextOnceInv, NextOutcomeInv, <1>1, PTL DEF Spec
-----------------------------------------------------------------------------
(* What Run and Stop leave behind.                                         *)

(* Run joins its containers in order after stopContainers and returns when it has *)
(* joined all of them; unless a stopGrace timer fired, those it joined are done.   *)
JoinInv ==
    /\ runPc \notin {"join", "deferred", "drain", "returned"} => joined = 0
    /\ joined <= started
    /\ runPc \in {"deferred", "drain", "returned"} => joined = started
    /\ ~expired => \A c \in 1..joined : client[c] = "done"

(* A Stop that did not see runDone has refused Run for good, because it set stopping *)
(* before; one that did waits for it.  So, unless a timer fired, closeOnce runs when *)
(* there never will be a container or when Run has joined all of them, and nothing   *)
(* is opened or written after it.                                                    *)
AwaitInv ==
    /\ runDone = "closed" => runPc = "returned"
    /\ runDone = "nil" => started = 0 /\ runPc \in {"uninit", "unavailable", "idle", "returned"}
    /\ closed => stopping
    /\ closed /\ ~expired => runDone # "open" /\ logsOpen = {} /\ envDir # "present"
    /\ \A s \in Stoppers :
           /\ stopPc[s] # "idle" => stopping /\ (sawRun[s] <=> runDone # "nil")
           /\ stopPc[s] \in {"cleanup", "returned"} /\ ~expired => runDone # "open"
           /\ stopPc[s] = "returned" => closed
           /\ once = "busy" /\ onceBy = s => stopPc[s] # "idle"

LEMMA InitEndInv == Init => JoinInv /\ AwaitInv
<1> SUFFICES ASSUME Init PROVE JoinInv /\ AwaitInv
  OBVIOUS
<1>1. /\ started = 0 /\ joined = 0 /\ runPc = "uninit" /\ runDone = "nil" /\ closed = FALSE
      /\ once = "fresh"
      /\ \A s \in Stoppers : stopPc[s] = "idle"
  BY DEF Init
<1> QED BY <1>1 DEF JoinInv, AwaitInv

(* Containers are appended before any is joined, and a client that is done stays so. *)
LEMMA NextJoinInv ==
    TypeInv /\ StartInv /\ OnceInv /\ JoinInv /\ [Next]_vars => JoinInv'
<1> SUFFICES ASSUME TypeInv, StartInv, OnceInv, JoinInv, [Next]_vars PROVE JoinInv'
  OBVIOUS
<1> DEFINE Late == {"deferred", "drain", "returned"}
<1> DEFINE JoinKept == UNCHANGED <<started, joined, client>> /\ expired' = expired
<1>a. /\ started \in 0..N /\ joined \in 0..N
      /\ client \in [Container -> {"none", "spawned", "attached", "exited", "announced", "done"}]
      /\ expired \in BOOLEAN
  BY DEF TypeInv, TypeOK
<1>b. runPc \in {"idle", "setup"} => started = 0 BY DEF StartInv
<1> USE NAssumption, <1>a, <1>b
<1>k. ASSUME JoinKept, \/ UNCHANGED runPc
                       \/ runPc' \notin Late \union {"join"} /\ runPc \notin Late \union {"join"}
                       \/ runPc = "stop" /\ runPc' = "join"
                       \/ runPc \in Late /\ runPc' \in Late
                       \/ runPc \in {"idle", "setup"}
      PROVE  JoinInv'
  BY <1>k DEF JoinInv
<1>c. ASSUME NEW c \in Container, NEW x, client[c] # "done", client' = [client EXCEPT ![c] = x],
             UNCHANGED <<started, joined, runPc>>, expired' = expired
      PROVE  JoinInv'
  BY <1>c DEF JoinInv, Container
<1>1. CASE Cancel \/ InitGame \/ UNCHANGED vars \/ Terminated
  <2>1. CASE InitGame
    <3>1. JoinKept /\ runPc = "uninit" /\ runPc' \in {"idle", "unavailable"}
      BY <2>1 DEF InitGame, boxVars, histVars
    <3> QED BY <3>1, <1>k
  <2>2. CASE Cancel \/ UNCHANGED vars \/ Terminated
    BY <2>2, <1>k DEF Cancel, Terminated, vars, gameVars, runVars, boxVars, histVars
  <2> QED BY <1>1, <2>1, <2>2
<1>2. CASE RunStep
  <2>1. CASE EnterRun BY <2>1, <1>k DEF EnterRun, boxVars, histVars
  <2>2. CASE SetupFails BY <2>2, <1>k DEF SetupFails, gameVars, boxVars, histVars
  <2>3. CASE Setup BY <2>3, <1>k DEF Setup, boxVars, histVars
  <2>4. CASE StartNext
    <3>1. runPc = "starting" /\ runPc' \in {"stop", "serving", "launch"} /\ JoinKept
      BY <2>4 DEF StartNext, StartFails, gameVars, boxVars, histVars
    <3> QED BY <3>1, <1>k
  <2>5. CASE PrepareFails \/ ProbeFails
    <3>1. runPc \in {"launch", "probe"} /\ runPc' = "stop" /\ JoinKept
      BY <2>5 DEF PrepareFails, ProbeFails, StartFails, gameVars, boxVars, histVars
    <3> QED BY <3>1, <1>k
  <2>6. CASE Launch
    <3>1. /\ runPc = "launch" /\ runPc' \in {"probe", "starting"}
          /\ started' = started + 1 /\ UNCHANGED joined
      BY <2>6 DEF Launch
    <3>2. joined = 0 BY <3>1 DEF JoinInv
    <3> QED BY <3>1, <3>2 DEF JoinInv
  <2>7. CASE ProbeReady
    <3>1. runPc = "probe" /\ runPc' = "starting" /\ JoinKept
      BY <2>7 DEF ProbeReady, gameVars, boxVars
    <3> QED BY <3>1, <1>k
  <2>8. CASE ServeExited \/ ServeStopped
    <3>1. runPc = "serving" /\ runPc' = "stop" /\ JoinKept
      BY <2>8 DEF ServeExited, ServeStopped, gameVars, boxVars, histVars
    <3> QED BY <3>1, <1>k
  <2>9. CASE JoinOne
    <3>1. /\ runPc = "join" /\ runPc' = "join" /\ joined < started /\ joined' = joined + 1
          /\ UNCHANGED <<started, client>>
      BY <2>9 DEF JoinOne, gameVars, boxVars
    <3>2. ~expired' => ~expired /\ client[joined + 1] = "done" BY <2>9 DEF JoinOne
    <3>3. \A c \in 1..joined' : c \in 1..joined \/ c = joined + 1 BY <3>1
    <3> QED BY <3>1, <3>2, <3>3 DEF JoinInv
  <2>10. CASE Settle
    <3>1. runPc = "join" /\ joined = started /\ runPc' = "deferred" /\ JoinKept
      BY <2>10 DEF Settle, boxVars, histVars
    <3> QED BY <3>1 DEF JoinInv
  <2>11. CASE DrainCredServer BY <2>11, <1>k DEF DrainCredServer, gameVars, boxVars, histVars
  <2>12. CASE Return BY <2>12, <1>k DEF Return, Returns, boxVars, histVars
  <2> QED BY <1>2, <2>1, <2>2, <2>3, <2>4, <2>5, <2>6, <2>7, <2>8, <2>9, <2>10, <2>11,
             <2>12 DEF RunStep
<1>3. CASE OnceStep
  <2>1. CASE SkipExited \/ DockerStop
    BY <2>1, <1>k DEF SkipExited, DockerStop, gameVars, runVars, boxVars, histVars
  <2>2. CASE LeaveOnce
    <3>1. JoinKept /\ (UNCHANGED runPc \/ (runPc = "stop" /\ runPc' = "join"))
      BY <2>2 DEF LeaveOnce, LeaveStopContainers, OnceInv, boxVars, histVars
    <3> QED BY <3>1, <1>k
  <2> QED BY <1>3, <2>1, <2>2 DEF OnceStep
<1>4. CASE \E a \in Caller : EnterOnce(a) \/ PassOnce(a)
  <2>1. JoinKept /\ (UNCHANGED runPc \/ (runPc = "stop" /\ runPc' = "join"))
    BY <1>4 DEF EnterOnce, PassOnce, AtStopContainers, LeaveStopContainers, gameVars, runVars,
                boxVars, histVars
  <2> QED BY <2>1, <1>k
<1>5. CASE \E s \in Stoppers : CallStop(s) \/ AwaitRun(s) \/ Cleanup(s)
  <2>1. /\ UNCHANGED <<started, joined, client, runPc>>
        /\ ~expired' => ~expired
    BY <1>5 DEF CallStop, AwaitRun, Cleanup, gameVars, runVars, boxVars, histVars
  <2> QED BY <2>1 DEF JoinInv
<1>6. CASE \E c \in Container : ClientStep(c) \/ ContainerExit(c)
  <2> PICK c \in Container : ClientStep(c) \/ ContainerExit(c) BY <1>6
  <2>k. UNCHANGED <<started, joined, runPc>> /\ expired' = expired
    BY DEF ClientStep, DockerRun, ClientReturns, AnnounceExit, CloseDone, ContainerExit,
           ClientVarsKept, gameVars, runVars, histVars
  <2>1. CASE DockerRun(c) BY <2>1, <2>k, <1>c DEF DockerRun
  <2>2. CASE ClientReturns(c) BY <2>2, <2>k, <1>c DEF ClientReturns
  <2>3. CASE AnnounceExit(c) BY <2>3, <2>k, <1>c DEF AnnounceExit
  <2>4. CASE CloseDone(c) BY <2>4, <2>k, <1>c DEF CloseDone
  <2>5. CASE ContainerExit(c) BY <2>5, <2>k, <1>k DEF ContainerExit
  <2> QED BY <2>1, <2>2, <2>3, <2>4, <2>5 DEF ClientStep
<1>7. CASE CredentialsAnswered
  BY <1>7, <1>k DEF CredentialsAnswered, Returns, boxVars, histVars
<1> QED BY <1>1, <1>2, <1>3, <1>4, <1>5, <1>6, <1>7 DEF Next

(* Only EnterRun opens runDone and only while no Stop was called; Setup and Launch, *)
(* which make what closeOnce removes, run while it is open.                          *)
LEMMA NextAwaitInv == TypeInv /\ OnceInv /\ AwaitInv /\ [Next]_vars => AwaitInv'
<1> SUFFICES ASSUME TypeInv, OnceInv, AwaitInv, [Next]_vars PROVE AwaitInv'
  OBVIOUS
<1> DEFINE StopKept == UNCHANGED <<stopping, closed, once, onceBy, stopPc, sawRun, expired>>
<1> DEFINE AwaitKept == StopKept /\ UNCHANGED <<started, envDir, runDone, logsOpen>>
<1> DEFINE Opened == {"setup", "starting", "launch", "probe", "serving", "stop", "join",
                      "deferred", "drain"}
<1>a. /\ runDone \in {"nil", "open", "closed"} /\ runPc \in RunPcs
      /\ stopPc \in [Stoppers -> {"idle", "stop", "await", "cleanup", "returned"}]
      /\ sawRun \in [Stoppers -> BOOLEAN]
      /\ stopping \in BOOLEAN /\ closed \in BOOLEAN /\ expired \in BOOLEAN
  BY DEF TypeInv, TypeOK
<1>b. runPc \in Opened => runDone = "open" BY <1>a DEF AwaitInv
<1>k. ASSUME AwaitKept, UNCHANGED runPc \/ runPc \in Opened PROVE AwaitInv'
  BY <1>k, <1>b DEF AwaitInv
<1>r. ASSUME StopKept, runPc \in Opened, runDone' = "closed", runPc' = "returned",
             UNCHANGED <<started, envDir, logsOpen>>
      PROVE  AwaitInv'
  BY <1>r, <1>b DEF AwaitInv
<1>s. "run" \notin Stoppers BY ConfigAssumption
<1>p. ASSUME NEW a \in {"run"} \union Stoppers, LeaveStopContainers(a), once' = "done",
             a # "run" => stopPc[a] # "idle", a = "run" => runPc = "stop",
             UNCHANGED <<stopping, closed, sawRun, started, envDir, runDone, logsOpen>>,
             expired' = expired
      PROVE  AwaitInv'
  <2>1. CASE a = "run"
    <3>1. runPc = "stop" /\ runPc' = "join" /\ UNCHANGED stopPc
      BY <1>p, <2>1 DEF LeaveStopContainers
    <3> QED BY <1>p, <3>1, <1>b DEF AwaitInv
  <2>2. CASE a # "run"
    <3>1. stopPc' = [stopPc EXCEPT ![a] = "await"] /\ UNCHANGED runPc /\ a \in Stoppers
      BY <1>p, <2>2 DEF LeaveStopContainers
    <3>2. ASSUME NEW t \in Stoppers, t # a PROVE stopPc'[t] = stopPc[t]
      BY <1>a, <3>1, <3>2
    <3>3. stopPc'[a] = "await" BY <1>a, <3>1
    <3> QED BY <1>p, <2>2, <3>1, <3>2, <3>3 DEF AwaitInv
  <2> QED BY <2>1, <2>2
<1>1. CASE Cancel \/ UNCHANGED vars \/ Terminated
  BY <1>1, <1>k DEF Cancel, Terminated, vars, gameVars, runVars, onceVars, stopVars, boxVars, histVars
<1>2. CASE InitGame
  <2>1. AwaitKept /\ runPc = "uninit" /\ runPc' \in {"idle", "unavailable"}
    BY <1>2 DEF InitGame, onceVars, stopVars, boxVars, histVars
  <2> QED BY <2>1 DEF AwaitInv
<1>3. CASE RunStep
  <2>1. CASE EnterRun
    <3>1. /\ runPc = "idle" /\ StopKept /\ UNCHANGED <<started, envDir, logsOpen>>
          /\ \/ stopping /\ runPc' = "returned" /\ runDone' = runDone
             \/ ~stopping /\ runPc' = "setup" /\ runDone' = "open"
      BY <2>1 DEF EnterRun, onceVars, stopVars, boxVars, histVars
    <3>2. CASE stopping BY <3>1, <3>2 DEF AwaitInv
    <3>3. CASE ~stopping
      <4>1. ~closed /\ \A s \in Stoppers : stopPc[s] = "idle" BY <1>a, <3>3 DEF AwaitInv
      <4> QED BY <3>1, <3>3, <4>1 DEF AwaitInv
    <3> QED BY <3>2, <3>3
  <2>2. CASE SetupFails
    BY <2>2, <1>k DEF SetupFails, gameVars, onceVars, stopVars, boxVars, histVars
  <2>3. CASE Setup
    <3>1. /\ runPc = "setup" /\ runPc' = "starting" /\ StopKept
          /\ UNCHANGED <<started, runDone, logsOpen>>
      BY <2>3 DEF Setup, onceVars, stopVars, boxVars, histVars
    <3> QED BY <3>1, <1>b DEF AwaitInv
  <2>4. CASE Launch
    <3>1. /\ runPc = "launch" /\ runPc' \in {"probe", "starting"} /\ StopKept
          /\ UNCHANGED <<envDir, runDone>>
      BY <2>4 DEF Launch, onceVars, stopVars, histVars
    <3> QED BY <3>1, <1>b DEF AwaitInv
  <2>5. CASE StartNext \/ PrepareFails \/ ProbeFails \/ ProbeReady
    <3>1. AwaitKept /\ runPc \in {"starting", "launch", "probe"}
      BY <2>5 DEF StartNext, PrepareFails, ProbeFails, StartFails, ProbeReady, gameVars, onceVars, stopVars,
                  boxVars, histVars
    <3> QED BY <3>1, <1>k
  <2>6. CASE ServeExited \/ ServeStopped \/ JoinOne
    <3>1. CASE ServeExited
      BY <3>1, <1>k DEF ServeExited, gameVars, onceVars, stopVars, histVars
    <3>2. CASE ServeStopped
      BY <3>2, <1>k DEF ServeStopped, gameVars, onceVars, stopVars, boxVars, histVars
    <3>3. CASE JoinOne
      <4>1. /\ runPc = "join" /\ runPc' = "join"
            /\ UNCHANGED <<stopping, closed, once, onceBy, stopPc, sawRun, started, envDir, runDone,
                           logsOpen>>
        BY <3>3 DEF JoinOne, gameVars, onceVars, stopVars, boxVars
      <4>2. ~expired' => ~expired BY <3>3 DEF JoinOne
      <4> QED BY <4>1, <4>2, <1>b DEF AwaitInv
    <3> QED BY <2>6, <3>1, <3>2, <3>3
  <2>7. CASE Settle \/ DrainCredServer
    <3>1. AwaitKept /\ runPc \in Opened
      BY <2>7 DEF Settle, DrainCredServer, gameVars, onceVars, stopVars, boxVars, histVars
    <3> QED BY <3>1, <1>k
  <2>8. CASE Return BY <2>8, <1>r DEF Return, Returns, onceVars, stopVars, boxVars, histVars
  <2> QED BY <1>3, <2>1, <2>2, <2>3, <2>4, <2>5, <2>6, <2>7, <2>8 DEF RunStep
<1>4. CASE CredentialsAnswered
  BY <1>4, <1>r DEF CredentialsAnswered, Returns, onceVars, stopVars, boxVars, histVars
<1>5. CASE OnceStep
  <2>1. CASE SkipExited \/ DockerStop
    <3>1. /\ AwaitKept /\ UNCHANGED runPc
      BY <2>1 DEF SkipExited, DockerStop, gameVars, runVars, stopVars, boxVars, histVars
    <3> QED BY <3>1, <1>k
  <2>2. CASE LeaveOnce
    <3>1. /\ once = "busy" /\ once' = "done" /\ onceBy \in {"run"} \union Stoppers
          /\ LeaveStopContainers(onceBy)
          /\ UNCHANGED <<stopping, closed, sawRun, started, envDir, runDone, logsOpen>>
          /\ expired' = expired
      BY <2>2 DEF LeaveOnce, boxVars, histVars, TypeInv, TypeOK, Caller
    <3>2. onceBy # "run" => stopPc[onceBy] # "idle" BY <3>1 DEF AwaitInv
    <3>3. onceBy = "run" => runPc = "stop" BY <3>1 DEF OnceInv
    <3> QED BY <3>1, <3>2, <3>3, <1>p
  <2> QED BY <1>5, <2>1, <2>2 DEF OnceStep
<1>6. CASE \E a \in Caller : EnterOnce(a) \/ PassOnce(a)
  <2> PICK a \in Caller : EnterOnce(a) \/ PassOnce(a) BY <1>6
  <2>a. a \in {"run"} \union Stoppers BY DEF Caller
  <2>1. CASE EnterOnce(a)
    <3>1. /\ AtStopContainers(a) /\ onceBy' = a
          /\ UNCHANGED <<stopping, closed, stopPc, sawRun, expired, runPc>>
          /\ UNCHANGED <<started, envDir, runDone, logsOpen>>
      BY <2>1 DEF EnterOnce, runVars, stopVars, boxVars, histVars
    <3>2. a \in Stoppers => stopPc[a] = "stop"
      BY <3>1, <1>s DEF AtStopContainers
    <3> QED BY <3>1, <3>2 DEF AwaitInv
  <2>2. CASE PassOnce(a)
    <3>1. /\ AtStopContainers(a) /\ LeaveStopContainers(a) /\ once' = "done"
          /\ UNCHANGED <<stopping, closed, sawRun, started, envDir, runDone, logsOpen>>
          /\ expired' = expired
      BY <2>2 DEF PassOnce, gameVars, boxVars, histVars
    <3>2. /\ a # "run" => stopPc[a] # "idle"
          /\ a = "run" => runPc = "stop"
      BY <3>1 DEF AtStopContainers
    <3> QED BY <3>1, <3>2, <2>a, <1>p
  <2> QED BY <2>1, <2>2
<1>7. CASE \E s \in Stoppers : CallStop(s) \/ AwaitRun(s) \/ Cleanup(s)
  <2> PICK s \in Stoppers : CallStop(s) \/ AwaitRun(s) \/ Cleanup(s) BY <1>7
  <2>1. CASE CallStop(s)
    <3>1. /\ stopping' = TRUE
          /\ sawRun' = [sawRun EXCEPT ![s] = runDone # "nil"]
          /\ stopPc' = [stopPc EXCEPT ![s] = "stop"]
          /\ UNCHANGED <<closed, once, onceBy, started, envDir, runDone, runPc, logsOpen>>
          /\ expired' = expired
      BY <2>1 DEF CallStop, runVars, onceVars, boxVars
    <3>2. ASSUME NEW t \in Stoppers, t # s
          PROVE  stopPc'[t] = stopPc[t] /\ sawRun'[t] = sawRun[t]
      BY <1>a, <3>1, <3>2
    <3>3. stopPc'[s] = "stop" /\ (sawRun'[s] <=> runDone # "nil") BY <1>a, <3>1
    <3> QED BY <3>1, <3>2, <3>3 DEF AwaitInv
  <2>2. CASE AwaitRun(s)
    <3>1. /\ stopPc[s] = "await" /\ stopPc' = [stopPc EXCEPT ![s] = "cleanup"]
          /\ UNCHANGED <<stopping, closed, once, onceBy, sawRun, started, envDir, runDone, runPc,
                         logsOpen>>
      BY <2>2 DEF AwaitRun, gameVars, runVars, onceVars, boxVars
    <3>2. ~expired' => ~expired /\ (sawRun[s] => runDone = "closed") BY <2>2 DEF AwaitRun
    <3>3. ~expired' => runDone # "open" BY <1>a, <3>1, <3>2 DEF AwaitInv
    <3>4. ASSUME NEW t \in Stoppers, t # s PROVE stopPc'[t] = stopPc[t]
      BY <1>a, <3>1, <3>4
    <3>5. stopPc'[s] = "cleanup" BY <1>a, <3>1
    <3> QED BY <3>1, <3>2, <3>3, <3>4, <3>5 DEF AwaitInv
  <2>3. CASE Cleanup(s)
    <3>1. /\ stopPc[s] = "cleanup" /\ stopPc' = [stopPc EXCEPT ![s] = "returned"]
          /\ closed' = TRUE
          /\ UNCHANGED <<stopping, once, onceBy, sawRun, started, runDone, runPc>>
          /\ expired' = expired
      BY <2>3 DEF Cleanup, runVars, onceVars, histVars
    <3>2. ~closed => logsOpen' = {} /\ envDir' # "present" BY <2>3 DEF Cleanup
    <3>3. closed => UNCHANGED <<logsOpen, envDir>> BY <2>3 DEF Cleanup
    <3>4. ASSUME NEW t \in Stoppers, t # s PROVE stopPc'[t] = stopPc[t]
      BY <1>a, <3>1, <3>4
    <3>5. stopPc'[s] = "returned" BY <1>a, <3>1
    <3>6. ~expired' => runDone # "open" /\ logsOpen' = {} /\ envDir' # "present"
      BY <3>1, <3>2, <3>3 DEF AwaitInv
    <3>7. stopping BY <3>1 DEF AwaitInv
    <3> QED BY <3>1, <3>4, <3>5, <3>6, <3>7 DEF AwaitInv
  <2> QED BY <2>1, <2>2, <2>3
<1>8. CASE \E c \in Container : ClientStep(c) \/ ContainerExit(c)
  BY <1>8, <1>k DEF ClientStep, DockerRun, ClientReturns, AnnounceExit, CloseDone, ContainerExit,
                    ClientVarsKept, gameVars, runVars, onceVars, stopVars, boxVars, histVars
<1> QED BY <1>1, <1>2, <1>3, <1>4, <1>5, <1>6, <1>7, <1>8 DEF Next

(* Stop closes the loggers only when every `docker run` that writes to them has *)
(* returned, unless a stopGrace timer fired, and no container is started later.  *)
THEOREM CleanupComesLast == Spec => []CleanupAfterRun
<1>1. TypeInv /\ JoinInv /\ AwaitInv => CleanupAfterRun
  <2> SUFFICES ASSUME TypeInv, JoinInv, AwaitInv, closed, ~expired, NEW c \in 1..started
               PROVE  client[c] = "done"
    BY DEF CleanupAfterRun
  <2>1. started \in 0..N /\ joined \in 0..N BY DEF TypeInv, TypeOK
  <2>2. runDone = "closed" BY <2>1, NAssumption DEF AwaitInv, TypeInv, TypeOK
  <2>3. joined = started BY <2>2 DEF AwaitInv, JoinInv
  <2> QED BY <2>3 DEF JoinInv
<1> QED BY InitTypeInv, NextTypeInv, InitStartInv, NextStartInv, InitOnceInv, NextOnceInv,
           InitEndInv, NextJoinInv, NextAwaitInv, <1>1, PTL DEF Spec

(* Unless a stopGrace timer fired, a session that ended and was stopped leaves no open *)
(* logger and no file with credentials behind, whoever called Stop and when.            *)
THEOREM NothingLeftBehind == Spec => []NothingLeft
<1>1. AwaitInv => NothingLeft BY DEF AwaitInv, NothingLeft
<1> QED BY InitTypeInv, NextTypeInv, InitOnceInv, NextOnceInv, InitEndInv, NextAwaitInv, <1>1,
           PTL DEF Spec
===============================================================================
