---------------------------- MODULE Startup_proofs ----------------------------
(***************************************************************************)
(* Proofs about Startup, for every set of wrappers, of settings, and fleet *)
(* of any size.                                                            *)
(***************************************************************************)
EXTENDS Startup, TLAPS

Decided == {"construct", "endpoint", "register", "token", "init", "up"}
Built == Decided \ {"construct"}
Asking == {"endpoint", "register", "token"}

(* What a start has established when it is at a point. *)
DecidedInv ==
    \A w \in Wrapper :
        LET c == settings[w] IN
        /\ pc[w] \in Decided => AnywhereValid(c)
        /\ pc[w] \in Built => LauncherValid(c)
        /\ pc[w] \in Asking => IsAnywhere(c) /\ (NeedsClient(c) => glClient[w])
        /\ pc[w] = "register" => ~c.endpoint
        /\ pc[w] = "token" => endpoint[w] = HostName(c)
        /\ pc[w] \in {"init", "up"} /\ IsAnywhere(c) =>
              endpoint[w] = HostName(c) /\ token[w] = HostName(c)
        /\ pc[w] # "panicked"

LEMMA TypeInit == Init => TypeOK
<1> SUFFICES ASSUME Init PROVE TypeOK
  OBVIOUS
<1>1. settings \in [Wrapper -> Configuration]
  BY StartupAssumption DEF Init, Configuration
<1> QED BY <1>1 DEF Init, TypeOK, NoCompute

LEMMA DecidedInit == Init => DecidedInv
  BY DEF Init, DecidedInv, Decided, Built, Asking

(* Every action keeps a start in its types. *)
LEMMA TypeNext == TypeOK /\ [Next]_vars => TypeOK'
<1> SUFFICES ASSUME TypeOK, [Next]_vars PROVE TypeOK'
  OBVIOUS
<1> USE DEF TypeOK, At, Goto, Call, Fail, Host, Compute, NoCompute
<1>1. CASE UNCHANGED vars BY <1>1 DEF vars, initVars, histVars
<1>2. ASSUME NEW w \in Wrapper, Start(w) PROVE TypeOK'
  BY <1>2 DEF Start
<1>3. ASSUME NEW w \in Wrapper, Die(w) PROVE TypeOK'
  BY <1>3 DEF Die, initVars, histVars
<1>4. ASSUME NEW w \in Wrapper, AdaptConfigWrapperToConfig(w) PROVE TypeOK'
  BY <1>4 DEF AdaptConfigWrapperToConfig, initVars, histVars
<1>5. ASSUME NEW w \in Wrapper, Default(w) PROVE TypeOK'
  <2>1. CASE Fail(w) BY <1>5, <2>1 DEF Default, initVars, histVars
  <2>2. CASE ~Fail(w)
    <3> DEFINE needs == IsAnywhere(settings[w]) /\ NeedsClient(settings[w])
    <3>1. needs \in BOOLEAN OBVIOUS
    <3>2. /\ glClient' = [glClient EXCEPT ![w] = needs]
          /\ pc' = [pc EXCEPT ![w] = "endpoint"] \/ pc' = [pc EXCEPT ![w] = "init"]
          /\ UNCHANGED <<settings, endpoint, token, listedAbsent, histVars, registered>>
      BY <1>5, <2>2 DEF Default
    <3>3. pc[w] = "construct" BY <1>5 DEF Default
    <3> HIDE DEF needs
    <3> QED BY <3>1, <3>2, <3>3 DEF histVars
  <2> QED BY <2>1, <2>2
<1>6. ASSUME NEW w \in Wrapper, InitSdk(w) PROVE TypeOK'
  <2>0. Host(w) \in Compute BY DEF HostName
  <2>1. CASE UsePresetEndpoint(w)
    BY <1>6, <2>1 DEF UsePresetEndpoint, histVars
  <2>2. CASE ListCompute(w)
    <3> asked' \in [Wrapper -> SUBSET {"list", "register", "token"}]
      BY <2>2 DEF ListCompute
    <3> UNCHANGED <<settings, conflicts, registered>>
      BY <2>2 DEF ListCompute
    <3>1. CASE Panic(w) /\ UNCHANGED overlooked BY <2>2, <3>1 DEF ListCompute, Panic, initVars
    <3>2. CASE Found(w) BY <2>0, <2>2, <3>2 DEF ListCompute, Found
    <3>3. CASE glClient[w] /\ NotFound(w)
      <4>1. (Host(w) \notin registered) \in BOOLEAN OBVIOUS
      <4>2. listedAbsent' \in [Wrapper -> BOOLEAN] BY <3>3, <4>1 DEF NotFound
      <4>3. overlooked' \subseteq Wrapper BY <3>3 DEF NotFound
      <4> QED BY <2>2, <3>3, <4>2, <4>3 DEF NotFound
    <3>4. CASE Fail(w) /\ UNCHANGED overlooked BY <2>2, <3>4 DEF initVars
    <3> QED BY <2>2, <3>1, <3>2, <3>3, <3>4 DEF ListCompute
  <2>3. CASE RegisterCompute(w)
    <3>1. asked' \in [Wrapper -> SUBSET {"list", "register", "token"}]
      BY <2>3 DEF RegisterCompute
    <3>2. conflicts' \subseteq Wrapper BY <2>3 DEF RegisterCompute
    <3>3. registered' \subseteq Compute
      <4>1. registered' = registered \/ registered' = registered \union {Host(w)}
        BY <2>3 DEF RegisterCompute
      <4> QED BY <2>0, <4>1
    <3>4. \/ Fail(w)
          \/ /\ endpoint' = [endpoint EXCEPT ![w] = Host(w)]
             /\ pc' = [pc EXCEPT ![w] = "token"]
             /\ UNCHANGED <<glClient, token, listedAbsent>>
      BY <2>3 DEF RegisterCompute
    <3>5. UNCHANGED <<settings, overlooked>> BY <2>3 DEF RegisterCompute
    <3> QED BY <2>0, <3>1, <3>2, <3>3, <3>4, <3>5 DEF initVars
  <2>4. CASE UsePresetToken(w)
    BY <1>6, <2>4 DEF UsePresetToken, histVars
  <2>5. CASE GetComputeAuthToken(w)
    BY <1>6, <2>0, <2>5 DEF GetComputeAuthToken, Panic, initVars
  <2>6. CASE InitSDK(w)
    BY <1>6, <2>6 DEF InitSDK, initVars, histVars
  <2> QED BY <1>6, <2>1, <2>2, <2>3, <2>4, <2>5, <2>6 DEF InitSdk
<1> QED BY <1>1, <1>2, <1>3, <1>4, <1>5, <1>6 DEF Next

(* One wrapper takes a step; no other one's pc, client, endpoint or token changes. *)
LEMMA DecidedNext == TypeOK /\ DecidedInv /\ [Next]_vars => DecidedInv'
<1> SUFFICES ASSUME TypeOK, DecidedInv, [Next]_vars PROVE DecidedInv'
  OBVIOUS
<1> USE DEF TypeOK, DecidedInv, Decided, Built, Asking, At, Goto, Call, Fail, Host
<1>1. CASE UNCHANGED vars BY <1>1 DEF vars, initVars
<1>2. ASSUME NEW w \in Wrapper, Start(w) PROVE DecidedInv'
  BY <1>2 DEF Start
<1>3. ASSUME NEW w \in Wrapper, Die(w) PROVE DecidedInv'
  BY <1>3 DEF Die, initVars
<1>4. ASSUME NEW w \in Wrapper, AdaptConfigWrapperToConfig(w) PROVE DecidedInv'
  BY <1>4 DEF AdaptConfigWrapperToConfig, initVars
<1>5. ASSUME NEW w \in Wrapper, Default(w) PROVE DecidedInv'
  <2> DEFINE c == settings[w]
  <2>1. CASE Fail(w) BY <1>5, <2>1 DEF Default, initVars
  <2>2. CASE ~Fail(w)
    <3>1. /\ LauncherValid(c)
          /\ glClient' = [glClient EXCEPT ![w] = IsAnywhere(c) /\ NeedsClient(c)]
          /\ pc' = [pc EXCEPT ![w] = IF IsAnywhere(c) THEN "endpoint" ELSE "init"]
          /\ UNCHANGED <<settings, endpoint, token>>
      BY <1>5, <2>2 DEF Default
    <3>2. pc[w] = "construct" BY <1>5 DEF Default
    <3>3. CASE IsAnywhere(c)
      <4>1. pc'[w] = "endpoint" BY <3>1, <3>3
      <4>2. NeedsClient(c) => glClient'[w] BY <3>1, <3>3
      <4> QED BY <3>1, <3>2, <3>3, <4>1, <4>2
    <3>4. CASE ~IsAnywhere(c)
      <4>1. pc'[w] = "init" BY <3>1, <3>4
      <4> QED BY <3>1, <3>2, <3>4, <4>1
    <3> QED BY <3>3, <3>4
  <2> QED BY <2>1, <2>2
<1>6. ASSUME NEW w \in Wrapper, InitSdk(w) PROVE DecidedInv'
  <2>1. CASE UsePresetEndpoint(w)
    BY <1>6, <2>1 DEF UsePresetEndpoint, AnywhereValid, HostName
  <2>2. CASE ListCompute(w)
    BY <1>6, <2>2 DEF ListCompute, Panic, Found, NotFound, NeedsClient, initVars
  <2>3. CASE RegisterCompute(w)
    BY <1>6, <2>3 DEF RegisterCompute, initVars
  <2>4. CASE UsePresetToken(w)
    BY <1>6, <2>4 DEF UsePresetToken, AnywhereValid, HostName
  <2>5. CASE GetComputeAuthToken(w)
    BY <1>6, <2>5 DEF GetComputeAuthToken, Panic, NeedsClient, initVars
  <2>6. CASE InitSDK(w)
    BY <1>6, <2>6 DEF InitSDK, initVars
  <2> QED BY <1>6, <2>1, <2>2, <2>3, <2>4, <2>5, <2>6 DEF InitSdk
<1> QED BY <1>1, <1>2, <1>3, <1>4, <1>5, <1>6 DEF Next

(* No start calls a client that was not built, or initialises the SDK of an Anywhere *)
(* fleet with the endpoint or the token of another compute than its own.             *)
THEOREM SettingsSound == Spec => []SettingsAgree
<1>1. DecidedInv => SettingsAgree
  BY DEF DecidedInv, SettingsAgree, Decided, Built, Host, LauncherValid
<1> QED BY TypeInit, TypeNext, DecidedInit, DecidedNext, <1>1, PTL DEF Spec

(* Who asked GameLift what, and who was told what about its compute. *)
AskedInv ==
    \A w \in Wrapper :
        LET c == settings[w] IN
        /\ c.endpoint => asked[w] \subseteq {"token"}
        /\ c.authToken => asked[w] = {}
        /\ asked[w] # {} => AnywhereValid(c) /\ LauncherValid(c)

RegisteredByOther(w) == \E o \in Wrapper \ {w} : "register" \in asked[o] /\ Host(o) = Host(w)

RegistrationInv ==
    \A w \in Wrapper :
        /\ w \in conflicts =>
              pc[w] = "failed" /\ (w \in overlooked \/ (listedAbsent[w] /\ RegisteredByOther(w)))
        /\ pc[w] = "register" =>
              \/ w \in overlooked
              \/ listedAbsent[w] /\ (Host(w) \in registered => RegisteredByOther(w))

LEMMA AskedInit == Init => AskedInv
  BY DEF Init, AskedInv

LEMMA AskedNext == TypeOK /\ DecidedInv /\ AskedInv /\ [Next]_vars => AskedInv'
<1> SUFFICES ASSUME TypeOK, DecidedInv, AskedInv, [Next]_vars PROVE AskedInv'
  OBVIOUS
<1>1. settings' = settings
  BY DEF Next, vars, InitSdk, Start, Die, AdaptConfigWrapperToConfig, Default, UsePresetEndpoint,
         ListCompute, RegisterCompute, UsePresetToken, GetComputeAuthToken, InitSDK
<1>2. CASE asked' = asked BY <1>1, <1>2 DEF AskedInv
<1>3. ASSUME NEW w \in Wrapper, ListCompute(w) \/ RegisterCompute(w) \/ GetComputeAuthToken(w)
      PROVE AskedInv'
  <2> DEFINE c == settings[w]
  <2>1. pc[w] \in Asking
    BY <1>3 DEF ListCompute, RegisterCompute, GetComputeAuthToken, At, Asking
  <2>2. AnywhereValid(c) /\ LauncherValid(c) BY <2>1 DEF DecidedInv, Asking, Decided, Built
  <2>3. PICK op \in {"list", "register", "token"} :
           /\ asked' = [asked EXCEPT ![w] = @ \union {op}]
           /\ op # "token" => ~c.endpoint
           /\ op = "token" => ~c.authToken
    BY <1>3 DEF ListCompute, RegisterCompute, GetComputeAuthToken, Call, At, DecidedInv
  <2>4. asked' = [asked EXCEPT ![w] = asked[w] \union {op}] BY <2>3
  <2>5. asked \in [Wrapper -> SUBSET {"list", "register", "token"}] BY DEF TypeOK
  <2>6. c.authToken => c.endpoint BY <2>2 DEF AnywhereValid
  <2> QED BY <1>1, <2>2, <2>3, <2>4, <2>5, <2>6 DEF AskedInv
<1>4. asked' = asked \/ \E w \in Wrapper :
          ListCompute(w) \/ RegisterCompute(w) \/ GetComputeAuthToken(w)
  BY DEF Next, vars, histVars, InitSdk, Start, Die, AdaptConfigWrapperToConfig, Default,
         UsePresetEndpoint, UsePresetToken, InitSDK
<1> QED BY <1>2, <1>3, <1>4

LEMMA RegistrationInit == Init => RegistrationInv
  BY DEF Init, RegistrationInv

(* What one wrapper does leaves the others' starts alone; what it registers, it has *)
(* asked for.                                                                       *)
LEMMA RegistrationNext == TypeOK /\ RegistrationInv /\ [Next]_vars => RegistrationInv'
<1> SUFFICES ASSUME TypeOK, RegistrationInv, [Next]_vars PROVE RegistrationInv'
  OBVIOUS
<1>1. settings' = settings
  BY DEF Next, vars, InitSdk, Start, Die, AdaptConfigWrapperToConfig, Default, UsePresetEndpoint,
         ListCompute, RegisterCompute, UsePresetToken, GetComputeAuthToken, InitSDK
<1>2. \A w \in Wrapper : Host(w)' = Host(w) BY <1>1 DEF Host
<1>3. ASSUME NEW v \in Wrapper, RegisteredByOther(v), \A o \in Wrapper : asked[o] \subseteq asked'[o]
      PROVE RegisteredByOther(v)'
  BY <1>2, <1>3 DEF RegisteredByOther
<1> USE DEF At, Goto, Fail
<1>4. CASE UNCHANGED vars BY <1>1, <1>3, <1>4 DEF vars, initVars, histVars, RegistrationInv, Host,
                                                 RegisteredByOther
<1>5. ASSUME NEW w \in Wrapper, Start(w) PROVE RegistrationInv'
  BY <1>2, <1>3, <1>5 DEF Start, RegistrationInv, TypeOK
<1>6. ASSUME NEW w \in Wrapper,
             Die(w) \/ AdaptConfigWrapperToConfig(w) \/ Default(w) \/ UsePresetEndpoint(w)
             \/ UsePresetToken(w) \/ InitSDK(w)
      PROVE RegistrationInv'
  <2>1. /\ pc[w] # "failed" /\ pc'[w] # "register"
        /\ \A v \in Wrapper \ {w} : pc'[v] = pc[v]
    BY <1>6 DEF Die, AdaptConfigWrapperToConfig, Default, UsePresetEndpoint, UsePresetToken, InitSDK,
                TypeOK
  <2>2. UNCHANGED <<listedAbsent, histVars, registered>>
    BY <1>6 DEF Die, AdaptConfigWrapperToConfig, Default, UsePresetEndpoint, UsePresetToken, InitSDK,
                initVars
  <2> QED BY <1>2, <1>3, <2>1, <2>2 DEF histVars, RegistrationInv
<1>7. ASSUME NEW w \in Wrapper, ListCompute(w) PROVE RegistrationInv'
  <2>1. /\ pc[w] = "endpoint" /\ conflicts' = conflicts /\ registered' = registered
        /\ \A o \in Wrapper : asked[o] \subseteq asked'[o]
    BY <1>7 DEF ListCompute, Call, TypeOK
  <2>2. \A v \in Wrapper \ {w} :
            /\ pc'[v] = pc[v] /\ listedAbsent'[v] = listedAbsent[v]
            /\ v \in overlooked' <=> v \in overlooked
    BY <1>7 DEF ListCompute, Panic, Found, NotFound, initVars, TypeOK
  <2>3. pc'[w] = "register" =>
            w \in overlooked' \/ (listedAbsent'[w] /\ Host(w) \notin registered)
    BY <1>7 DEF ListCompute, Panic, Found, NotFound, TypeOK
  <2>4. w \notin conflicts BY <2>1 DEF RegistrationInv
  <2> QED BY <1>2, <1>3, <2>1, <2>2, <2>3, <2>4 DEF RegistrationInv
<1>8. ASSUME NEW w \in Wrapper, RegisterCompute(w) PROVE RegistrationInv'
  <2>1. /\ pc[w] = "register" /\ overlooked' = overlooked /\ listedAbsent' = listedAbsent
        /\ \A o \in Wrapper : asked[o] \subseteq asked'[o]
        /\ "register" \in asked'[w]
    BY <1>8 DEF RegisterCompute, Call, TypeOK, initVars
  <2>2. pc'[w] # "register" /\ \A v \in Wrapper \ {w} : pc'[v] = pc[v]
    BY <1>8 DEF RegisterCompute, TypeOK
  <2>3. \/ registered' = registered /\ conflicts' = conflicts
        \/ registered' = registered \union {Host(w)} /\ conflicts' = conflicts
        \/ /\ registered' = registered /\ conflicts' = conflicts \union {w}
           /\ pc'[w] = "failed" /\ Host(w) \in registered
    BY <1>8 DEF RegisterCompute, TypeOK
  <2>4. w \notin conflicts BY <2>1 DEF RegistrationInv
  <2>5. \A v \in Wrapper \ {w} : Host(v) = Host(w) => RegisteredByOther(v)'
    BY <1>2, <2>1 DEF RegisteredByOther
  <2> QED BY <1>2, <1>3, <2>1, <2>2, <2>3, <2>4, <2>5 DEF RegistrationInv
<1>9. ASSUME NEW w \in Wrapper, GetComputeAuthToken(w) PROVE RegistrationInv'
  <2>1. /\ pc[w] = "token" /\ pc'[w] # "register" /\ \A v \in Wrapper \ {w} : pc'[v] = pc[v]
        /\ \A o \in Wrapper : asked[o] \subseteq asked'[o]
    BY <1>9 DEF GetComputeAuthToken, Panic, Call, TypeOK
  <2>2. UNCHANGED <<listedAbsent, conflicts, overlooked, registered>>
    BY <1>9 DEF GetComputeAuthToken, Panic, initVars
  <2> QED BY <1>2, <1>3, <2>1, <2>2 DEF RegistrationInv
<1> QED BY <1>4, <1>5, <1>6, <1>7, <1>8, <1>9 DEF Next, InitSdk

(* The initialisers stay in their types: in particular RegisterCompute is reached    *)
(* only with a client, and a token is asked for only when an endpoint is known.      *)
THEOREM TypeCorrect == Spec => []TypeOK
  BY TypeInit, TypeNext, PTL DEF Spec

(* A start is refused the name of its compute only because another wrapper of the    *)
(* host registered it after the list was read, or because the list was cut short, in *)
(* whatever order wrappers start, die, lose answers and start again; a compute or a  *)
(* token that was given is not asked for.                                            *)
THEOREM RegistrationSound == Spec => []RegistrationJustified
<1>1. AskedInv /\ RegistrationInv => RegistrationJustified
  BY DEF AskedInv, RegistrationInv, RegistrationJustified, RegisteredByOther
<1> QED BY TypeInit, TypeNext, DecidedInit, DecidedNext, AskedInit, AskedNext,
           RegistrationInit, RegistrationNext, <1>1, PTL DEF Spec
===============================================================================
