-------------------------------- MODULE Startup -------------------------------
(***************************************************************************)
(* From the configuration to an initialised SDK: the adaptation and the    *)
(* validation of the settings (internal/config), the construction of the   *)
(* services, the AWS client providers, and the initialisers of managed and *)
(* Anywhere fleets (pkg/hosting/gamelift/initialiser).                     *)
(*                                                                         *)
(* Three places decide by the same optional settings, each on its own:     *)
(* what is accepted, whether an AWS client is built, and which calls       *)
(* InitSdk makes with it.  Several wrappers of one host (README.md:255)    *)
(* start, die and start again independently; an Anywhere compute           *)
(* outlives them, because nothing in the wrapper deregisters it.           *)
(*                                                                         *)
(* The environment variables that override settings of the host in         *)
(* newAnywhere are not set.                                                *)
(***************************************************************************)
EXTENDS FiniteSets

CONSTANTS
    Wrapper,        \* the wrappers of the host
    Settings,       \* the configurations that the operator may give them
    ManyComputes    \* the fleet has more computes than a page of ListCompute holds

NoRegion == "none"
Region == {NoRegion, "west"}

\* An ARN is empty, cannot be parsed, or has a region; "noId" has no part after "/".
Arn == [form : {"empty", "garbage"}, region : {NoRegion}] \union [form : {"arn", "noId"}, region : Region]

\* What the operator may set, of the settings that anything here depends on.  Booleans
\* say whether an optional string is not empty.
Configuration ==
    [location : Arn, fleet : Arn, ipv4 : BOOLEAN,
     computeName : BOOLEAN, endpoint : BOOLEAN, authToken : BOOLEAN,
     provider : {"aws-profile", "sso-file", "other"}, profile : BOOLEAN,
     launcher : {"process", "docker", "other"}, containers : {"none", "valid", "invalid"}]

ASSUME StartupAssumption ==
    /\ Settings \subseteq Configuration
    /\ ManyComputes \in BOOLEAN

VARIABLES
    settings,        \* the configuration of each wrapper
    pc,              \* where its start is
    glClient,        \* its initialiser was given a client provider
    endpoint, token, \* the compute whose endpoint and token it would initialise the SDK with
    listedAbsent,    \* its ListCompute was complete and did not have its compute
    asked,           \* History: the AWS calls it made
    conflicts,       \* History: the wrappers whose last start was refused the name of
    overlooked,      \*   its compute, and those whose list ended before their compute
    registered       \* GameLift: the computes of the fleet that this host may use

initVars == <<glClient, endpoint, token, listedAbsent>>
histVars == <<asked, conflicts, overlooked>>
vars == <<settings, pc, initVars, histVars, registered>>

Given(arn) == arn.form # "empty"

\* The compute that a wrapper is: the one it was given, or one named by the machine.
HostName(c) == IF c.computeName THEN "named" ELSE "machine"
Compute == {"named", "machine"}
NoCompute == "none"

\* The wrappers share a configuration file; the token is a flag of each.
Init ==
    /\ \E c \in Settings, given \in [Wrapper -> BOOLEAN] :
          settings = [w \in Wrapper |-> [c EXCEPT !.authToken = given[w]]]
    /\ pc = [w \in Wrapper |-> "down"]
    /\ glClient = [w \in Wrapper |-> FALSE]
    /\ endpoint = [w \in Wrapper |-> NoCompute] /\ token = [w \in Wrapper |-> NoCompute]
    /\ listedAbsent = [w \in Wrapper |-> FALSE]
    /\ asked = [w \in Wrapper |-> {}] /\ conflicts = {} /\ overlooked = {}
    /\ registered \in SUBSET Compute

-----------------------------------------------------------------------------
(* What is decided from the settings alone.                                *)

SameRegion(c) ==
    /\ c.location.form # "garbage" /\ c.fleet.form # "garbage"
    /\ c.location.region = c.fleet.region

\* getAnywhereRegionAndValidate
AnywhereValid(c) ==
    /\ Given(c.location) <=> Given(c.fleet)
    /\ Given(c.location) <=> c.ipv4
    /\ c.computeName <=> c.endpoint
    /\ c.authToken => c.computeName
    /\ Given(c.location) => SameRegion(c)

LauncherValid(c) ==
    /\ c.launcher \in {"process", "docker"}
    /\ c.launcher = "docker" => c.containers = "valid"

IsAnywhere(c) == Given(c.fleet)

\* Mutant: a client is built only if both settings are missing.
NeedsClientForBoth(c) == ~c.endpoint /\ ~c.authToken

NeedsClient(c) == ~c.endpoint \/ ~c.authToken

\* NewProvider and the provider's Init.  AdaptConfigWrapperToConfig copies no path of a
\* credentials file, so that NewProvider never builds the provider that would read it.
ProviderReady(c) ==
    /\ c.location.region # NoRegion
    /\ c.provider = "aws-profile" /\ c.profile

\* newAnywhere
ArnsHaveIds(c) == c.fleet.form = "arn" /\ c.location.form = "arn"

\* GetService
ServiceReady(c) == IsAnywhere(c) => (NeedsClient(c) => ProviderReady(c)) /\ ArnsHaveIds(c)

-----------------------------------------------------------------------------

At(w, l) == pc[w] = l
Goto(w, l) == pc' = [pc EXCEPT ![w] = l]
Call(w, op) == asked' = [asked EXCEPT ![w] = @ \union {op}]
Fail(w) == Goto(w, "failed") /\ UNCHANGED initVars
Host(w) == HostName(settings[w])

\* The operator, or GameLift, starts the process.
Start(w) ==
    /\ pc[w] \in {"down", "failed", "panicked"}
    /\ Goto(w, "adapt")
    /\ glClient' = [glClient EXCEPT ![w] = FALSE]
    /\ endpoint' = [endpoint EXCEPT ![w] = NoCompute] /\ token' = [token EXCEPT ![w] = NoCompute]
    /\ listedAbsent' = [listedAbsent EXCEPT ![w] = FALSE]
    /\ conflicts' = conflicts \ {w} /\ overlooked' = overlooked \ {w}
    /\ UNCHANGED <<settings, asked, registered>>

\* The process dies at any point.
Die(w) ==
    /\ pc[w] \notin {"down", "failed", "panicked"}
    /\ Goto(w, "down")
    /\ UNCHANGED <<settings, initVars, histVars, registered>>

\* A path or a current directory that cannot be made absolute fails it too.
AdaptConfigWrapperToConfig(w) ==
    /\ At(w, "adapt")
    /\ \/ AnywhereValid(settings[w]) /\ Goto(w, "construct") /\ UNCHANGED initVars
       \/ Fail(w)
    /\ UNCHANGED <<settings, histVars, registered>>

\* services.Default, before anything outside the process is touched.  Its other checks,
\* of the port and of the executable, may fail.
Default(w) ==
    /\ At(w, "construct")
    /\ LET c == settings[w] IN
       \/ /\ LauncherValid(c) /\ ServiceReady(c)
          /\ glClient' = [glClient EXCEPT ![w] = IsAnywhere(c) /\ NeedsClient(c)]
          /\ Goto(w, IF IsAnywhere(c) THEN "endpoint" ELSE "init")
          /\ UNCHANGED <<endpoint, token, listedAbsent>>
       \/ Fail(w)
    /\ UNCHANGED <<settings, histVars, registered>>

\* A method of a nil client provider panics.
Panic(w) == ~glClient[w] /\ Goto(w, "panicked") /\ UNCHANGED initVars

UsePresetEndpoint(w) ==
    /\ At(w, "endpoint") /\ settings[w].endpoint
    /\ endpoint' = [endpoint EXCEPT ![w] = "named"]
    /\ Goto(w, "token")
    /\ UNCHANGED <<settings, glClient, token, listedAbsent, histVars, registered>>

\* Mutant: the compute is registered without looking for it.
RegisterAtOnce(w) ==
    /\ At(w, "endpoint") /\ ~settings[w].endpoint
    /\ Call(w, "list")
    /\ Goto(w, "register") /\ UNCHANGED <<initVars, overlooked>>
    /\ UNCHANGED <<settings, conflicts, registered>>

Found(w) ==
    /\ Host(w) \in registered
    /\ endpoint' = [endpoint EXCEPT ![w] = Host(w)]
    /\ Goto(w, "token")
    /\ UNCHANGED <<glClient, token, listedAbsent, overlooked>>

\* The search reads the first page only.
NotFound(w) ==
    /\ Host(w) \in registered => ManyComputes
    /\ listedAbsent' = [listedAbsent EXCEPT ![w] = Host(w) \notin registered]
    /\ overlooked' = IF Host(w) \in registered THEN overlooked \union {w} ELSE overlooked
    /\ Goto(w, "register")
    /\ UNCHANGED <<glClient, endpoint, token>>

ListCompute(w) ==
    /\ At(w, "endpoint") /\ ~settings[w].endpoint
    /\ Call(w, "list")
    /\ \/ Panic(w) /\ UNCHANGED overlooked
       \/ glClient[w] /\ (Found(w) \/ NotFound(w) \/ (Fail(w) /\ UNCHANGED overlooked))
    /\ UNCHANGED <<settings, conflicts, registered>>

\* A name that is taken is refused; a call that fails may still have registered it.
RegisterCompute(w) ==
    /\ At(w, "register")
    /\ Call(w, "register")
    /\ IF Host(w) \in registered
       THEN conflicts' = conflicts \union {w} /\ registered' = registered /\ Fail(w)
       ELSE /\ conflicts' = conflicts
            /\ \/ /\ registered' = registered \union {Host(w)}
                  /\ endpoint' = [endpoint EXCEPT ![w] = Host(w)]
                  /\ Goto(w, "token")
                  /\ UNCHANGED <<glClient, token, listedAbsent>>
               \/ /\ registered' \in {registered, registered \union {Host(w)}}
                  /\ Fail(w)
    /\ UNCHANGED <<settings, overlooked>>

UsePresetToken(w) ==
    /\ At(w, "token") /\ settings[w].authToken
    /\ token' = [token EXCEPT ![w] = "named"]
    /\ Goto(w, "init")
    /\ UNCHANGED <<settings, glClient, endpoint, listedAbsent, histVars, registered>>

\* GameLift issues tokens for computes of the fleet.
GetComputeAuthToken(w) ==
    /\ At(w, "token") /\ ~settings[w].authToken
    /\ Call(w, "token")
    /\ \/ Panic(w)
       \/ /\ glClient[w] /\ Host(w) \in registered
          /\ token' = [token EXCEPT ![w] = Host(w)]
          /\ Goto(w, "init")
          /\ UNCHANGED <<glClient, endpoint, listedAbsent>>
       \/ glClient[w] /\ Fail(w)
    /\ UNCHANGED <<settings, conflicts, overlooked, registered>>

\* For a managed fleet, without parameters: the SDK finds them in its environment.
InitSDK(w) ==
    /\ At(w, "init")
    /\ \/ Goto(w, "up") /\ UNCHANGED initVars
       \/ Fail(w)
    /\ UNCHANGED <<settings, histVars, registered>>

-----------------------------------------------------------------------------

InitSdk(w) ==
    \/ UsePresetEndpoint(w) \/ ListCompute(w) \/ RegisterCompute(w)
    \/ UsePresetToken(w) \/ GetComputeAuthToken(w) \/ InitSDK(w)

Next ==
    \E w \in Wrapper :
        Start(w) \/ Die(w) \/ AdaptConfigWrapperToConfig(w) \/ Default(w) \/ InitSdk(w)

Spec == Init /\ [][Next]_vars

-----------------------------------------------------------------------------
(* Properties.                                                             *)

\* Type invariant: what a start has decided at each point.
TypeOK ==
    /\ settings \in [Wrapper -> Configuration]
    /\ pc \in [Wrapper -> {"down", "adapt", "construct", "endpoint", "register", "token",
                           "init", "up", "failed", "panicked"}]
    /\ glClient \in [Wrapper -> BOOLEAN] /\ listedAbsent \in [Wrapper -> BOOLEAN]
    /\ endpoint \in [Wrapper -> Compute \union {NoCompute}]
    /\ token \in [Wrapper -> Compute \union {NoCompute}]
    /\ \A w \in Wrapper :
          /\ pc[w] = "register" => glClient[w]
          /\ pc[w] = "token" => endpoint[w] \in Compute
    /\ asked \in [Wrapper -> SUBSET {"list", "register", "token"}]
    /\ conflicts \subseteq Wrapper /\ overlooked \subseteq Wrapper
    /\ registered \subseteq Compute

\* The three places that decide by the optional settings agree: no call is made on a
\* client that was not built, and the SDK of an Anywhere fleet is initialised with an
\* endpoint and a token of the compute that it is told to be.  A docker launcher that
\* comes up has a container to start.
SettingsAgree ==
    \A w \in Wrapper :
        /\ pc[w] # "panicked"
        /\ pc[w] \in {"init", "up"} /\ IsAnywhere(settings[w]) =>
              endpoint[w] = Host(w) /\ token[w] = Host(w)
        /\ pc[w] = "up" /\ settings[w].launcher = "docker" => settings[w].containers = "valid"

\* A start, the first or a repeated one after a crash at any point or a lost answer, is
\* refused the name of its compute only if another wrapper of the host registered it
\* between its ListCompute and its RegisterCompute, or if the list was longer than a
\* page.  A wrapper that was given a compute (README.md:242) or a token (README.md:260)
\* asks GameLift for neither, and one whose settings are refused asks nothing.
RegistrationJustified ==
    \A w \in Wrapper :
        /\ w \in conflicts =>
              \/ w \in overlooked
              \/ /\ listedAbsent[w]
                 /\ \E o \in Wrapper \ {w} : "register" \in asked[o] /\ Host(o) = Host(w)
        /\ settings[w].endpoint => asked[w] \subseteq {"token"}
        /\ settings[w].authToken => asked[w] = {}
        /\ asked[w] # {} => AnywhereValid(settings[w]) /\ LauncherValid(settings[w])
===============================================================================
