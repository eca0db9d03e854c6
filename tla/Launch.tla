--------------------------------- MODULE Launch -------------------------------
(***************************************************************************)
(* What a game is started with: the executable, from the settings of the   *)
(* operator to the path given to the operating system; the credentials the *)
(* session gets; its arguments and its environment, in the process         *)
(* launcher and in one container of the docker launcher.  The build for    *)
(* Linux is modelled.  The session may bring arguments, as in the tests of *)
(* package args; GameLift's sessions bring none.                           *)
(*                                                                         *)
(* Settings and session data are chosen by the step that first looks at    *)
(* them and forgotten by the next one, which does not.                     *)
(***************************************************************************)
EXTENDS Naturals, Sequences, FiniteSets, SequencesExt

CONSTANTS
    Directories, Home,      \* absolute, as sequences of names; Home is the wrapper's own
    ArgNames, Positions,    \* of arguments; an argument may also be without a name
    \* Bounds: configured arguments, arguments of the session, configured variables.
    MaxDefaults, MaxCliArgs, MaxConfigured

ASSUME LaunchAssumption ==
    /\ Positions \subseteq Nat /\ 0 \in Positions
    /\ {MaxDefaults, MaxCliArgs, MaxConfigured} \subseteq Nat

\* Directories are cleaned.  The wrapper does not run in a directory under the path that is
\* given for an executable.
ASSUME PathAssumption ==
    /\ Home \in Directories
    /\ \A d \in Directories : d \in Seq(STRING) /\ ToSet(d) \intersect {"..", ""} = {}
    /\ \A d \in Directories : ~IsPrefix(Append(d, "game"), Home)

VARIABLES
    pc,           \* the launch, or where it failed
    launcher,     \* "process" or "docker"
    build,        \* BuildDetail: the settings of the executable, and the paths made of them;
                  \* after process.Init, whether it is a program
    settings,     \* the credential settings, and the fetch for this session
    event,        \* the credential fields of HostingStart
    args, argv,   \* the arguments that are configured and of the session, and the result
    sources, env  \* the entries the environment is built from, and the result

vars == <<pc, launcher, build, settings, event, args, argv, sources, env>>

None == [forgotten |-> TRUE]

-----------------------------------------------------------------------------
(* Paths.  A path is absolute or relative to the directory of the wrapper, *)
(* and cleaned: ".." occurs only at the start of a relative one.           *)

Programs == {Append(d, "game") : d \in Directories}
Unset == <<"">>

Absolute(parts) == [abs |-> TRUE, parts |-> parts]
Relative(parts) == [abs |-> FALSE, parts |-> parts]

Enter(dir, part) == IF part = ".." THEN Front(dir) ELSE Append(dir, part)

Resolve(from, parts) ==
    LET at[k \in 0..Len(parts)] == IF k = 0 THEN from ELSE Enter(at[k - 1], parts[k])
    IN  at[Len(parts)]

\* The place that a path names.
Place(path) == Resolve(IF path.abs THEN <<>> ELSE Home, path.parts)

Common(base, target) ==
    {k \in 0..Len(base) : k <= Len(target) /\ \A i \in 1..k : base[i] = target[i]}

Latest(K) == CHOOSE k \in K : \A l \in K : l <= k

\* filepath.Rel, of absolute paths.
Rel(base, target) ==
    LET k == Latest(Common(base, target))
    IN  Relative([i \in 1..(Len(base) - k) |-> ".."] \o SubSeq(target, k + 1, Len(target)))

\* filepath.Join; the only relative directory is ".".
Join(dir, path) ==
    IF dir.abs THEN Absolute(Resolve(dir.parts, path.parts)) ELSE path

\* Written out, a relative path of one part has no separator.
HasSeparator(path) == path.abs \/ Len(path.parts) > 1

\* Without a working-directory the absolute one goes to a variable of an inner scope,
\* and the outer one is cleaned to ".".
WorkingDir(dir) == IF dir = Unset THEN Relative(<<>>) ELSE Absolute(dir)

\* makePathRelative makes both paths absolute; one that is not set is ".".
RelativeExePath(dir, exe) ==
    Rel(Place(WorkingDir(dir)), IF exe = Unset THEN Home ELSE exe)

\* Mutant: the executable is taken relative to the working directory of the wrapper.
ExePathOfWrapper(b) == b.rel

\* getGame checks, and process.Init makes, this path.
ExePath(b) == Join(b.dir, b.rel)

-----------------------------------------------------------------------------
(* Arguments.  The value of an argument is the place of its entry in       *)
(* args.defaults \o args.session.                                          *)

NoName == ""
Arg == [name : ArgNames \union {NoName}, pos : Positions]

\* args.Init, in each session anew.
DuplicateDefault(defaults) ==
    \E i, j \in DOMAIN defaults :
        i < j /\ (defaults[i].name = defaults[j].name \/ defaults[i].pos = defaults[j].pos)

\* Mutant: an argument of the session without a position gets none from its default.
PutAt(map, a) == a.pos

\* The position of an argument of the session.
Put(map, a) == IF a.pos = 0 /\ a.name \in DOMAIN map THEN map[a.name].pos ELSE a.pos

\* One entry of the two loops of Normalise.
AddArg(map, entries, k) ==
    LET a == entries[k]
        put == [name |-> a.name, pos |-> Put(map, a), val |-> k]
    IN  [n \in DOMAIN map \union {a.name} |-> IF n = a.name THEN put ELSE map[n]]

\* The map of Normalise after these entries; defaults come first, and their names differ.
ArgMap(entries) ==
    LET map[k \in 0..Len(entries)] ==
            IF k = 0 THEN [n \in {} |-> None] ELSE AddArg(map[k - 1], entries, k)
    IN  map[Len(entries)]

SamePosition(map) == \E n, l \in DOMAIN map : n # l /\ map[n].pos = map[l].pos

\* The members of a finite set in an order, a set of pairs.
Ordered(S, before) ==
    CHOOSE s \in [1..Cardinality(S) -> S] :
        \A i, j \in DOMAIN s : i < j => <<s[i], s[j]>> \in before

\* Normalise sorts the arguments of the map by position.
Normalise(map) ==
    LET put == {map[n] : n \in DOMAIN map}
    IN  Ordered(put, {p \in put \X put : p[1].pos < p[2].pos})

\* Of an argument without a name a container gets the value alone.
Omitted == "omitted"
WithoutEmptyName(a) == IF a.name = NoName THEN [a EXCEPT !.name = Omitted] ELSE a

\* The arguments of a container as they are, sorted stably.
SortedStable(entries) ==
    LET places == DOMAIN entries
        order == Ordered(places,
                         {p \in places \X places :
                              \/ entries[p[1]].pos < entries[p[2]].pos
                              \/ entries[p[1]].pos = entries[p[2]].pos /\ p[1] < p[2]})
    IN  [k \in DOMAIN order |->
            [name |-> entries[order[k]].name, pos |-> entries[order[k]].pos, val |-> order[k]]]

RenderArgs(entries) ==
    LET sorted == SortedStable(entries)
    IN  [k \in DOMAIN sorted |-> WithoutEmptyName(sorted[k])]

-----------------------------------------------------------------------------
(* Environment.  Names that differ only in the case of their letters are   *)
(* equal once upper-cased.  The value of a variable is the rank of the     *)
(* source it comes from; configured variables have ranks of their own.     *)

Name == [word : {"aws", "cred"}, upper : BOOLEAN]
Upper(n) == [n EXCEPT !.upper = TRUE]
Aws  == [word |-> "aws", upper |-> TRUE]     \* one for the three AWS_* variables
Cred == [word |-> "cred", upper |-> TRUE]    \* one for URL and token of the server

FromParent == 0
FromProperties == 1
FromFleetRole == 2
FromCredServer == 3
FromConfigured(i) == 3 + i

Assign(map, names, value) ==
    [n \in DOMAIN map \union names |-> IF n \in names THEN value ELSE map[n]]

\* The configured variables, in their order.
AssignConfigured(base, configured) ==
    LET map[i \in 0..Len(configured)] ==
            IF i = 0 THEN base ELSE Assign(map[i - 1], {configured[i]}, FromConfigured(i))
    IN  map[Len(configured)]

\* Mutant: what the operator configured comes before what the session brings.
BuildConfiguredFirst(parent, s) ==
    LET configured == AssignConfigured(parent, s.configured)
        properties == Assign(configured, s.properties, FromProperties)
        withAws == Assign(properties, IF s.inject THEN {Aws} ELSE {}, FromFleetRole)
    IN  Assign(withAws, IF s.server THEN {Cred} ELSE {}, FromCredServer)

\* sessionenv.Build, over the environment of the wrapper if that is passed on.
Build(parent, s) ==
    LET properties == Assign(parent, s.properties, FromProperties)
        withAws == Assign(properties, IF s.inject THEN {Aws} ELSE {}, FromFleetRole)
        withServer == Assign(withAws, IF s.server THEN {Cred} ELSE {}, FromCredServer)
    IN  AssignConfigured(withServer, s.configured)

\* Names are upper-cased.  Of two entries of one name the later wins, in the order of a
\* map (process) or for the docker daemon to decide.
Rendered(map) ==
    {e \in [{Upper(n) : n \in DOMAIN map} -> {map[n] : n \in DOMAIN map}] :
        \A u \in DOMAIN e : \E n \in DOMAIN map : Upper(n) = u /\ e[u] = map[n]}

-----------------------------------------------------------------------------
(* The start of the wrapper and of a session.                              *)

\* What os.Stat finds where the executable should be, throughout; "denied" is another error
\* than that nothing is there.
Found == {"file", "directory", "missing", "denied"}

Init ==
    /\ pc = "configured" /\ launcher \in {"process", "docker"}
    /\ \E dir \in Directories \union {Unset}, exe \in Programs \union {Unset}, found \in Found :
           build = [dir |-> WorkingDir(dir), rel |-> RelativeExePath(dir, exe),
                    given |-> [dir |-> dir, exe |-> exe], found |-> found]
    /\ settings = None /\ event = None
    /\ args = None /\ argv = <<>> /\ sources = None /\ env = <<>>

\* What is not the path of an executable is a directory.
Stat(place) == IF place \in Programs THEN build.found ELSE "directory"

\* An executable that is a directory, or cannot be looked at, is accepted.
GetGame ==
    /\ pc = "configured"
    /\ pc' = IF launcher = "docker" \/ Stat(Place(ExePath(build))) # "missing"
             THEN "ready" ELSE "refused"
    /\ UNCHANGED <<launcher, build, settings, event, args, argv, sources, env>>

\* glOnStartGameSession.  A compute of a managed fleet is one without a fleet ARN; a
\* fetch that fails is only logged.
StartSession ==
    /\ pc = "ready"
    /\ settings' \in {s \in [fleetArn : BOOLEAN, use : BOOLEAN, inject : BOOLEAN, local : BOOLEAN,
                             fetched : BOOLEAN] : s.fetched => s.use}
    /\ LET managed == ~settings'.fleetArn
           got == managed /\ settings'.use /\ settings'.fetched
       IN  event' = [fetcher |-> managed /\ settings'.local, credentials |-> got,
                     inject |-> got /\ settings'.inject]
    /\ IF launcher = "docker" THEN pc' = "environment" /\ build' = None
                              ELSE pc' = "init" /\ build' = build
    /\ UNCHANGED <<launcher, args, argv, sources, env>>

\* initProcess.  It fails for a working directory that is missing or is none.  process.Init
\* makes the directory of the executable executable, with a command line that lacks its operand
\* when the path has no separator, and may fail in that, or because this user still may not
\* execute it.  A directory passes.
InitProcess ==
    /\ pc = "init"
    /\ LET found == Stat(Place(ExePath(build))) IN
       \/ /\ found \in {"file", "directory"}
          /\ pc' = IF HasSeparator(ExePath(build)) THEN "arguments" ELSE "noOperand"
          /\ build' = [program |-> found = "file"]
       \/ pc' = "initFailed" /\ build' = None
    /\ UNCHANGED <<launcher, settings, event, args, argv, sources, env>>

Inputs == [defaults : BoundedSeq(Arg, MaxDefaults), session : BoundedSeq(Arg, MaxCliArgs)]

\* args.New and Get.
ProcessArguments ==
    /\ pc = "arguments" /\ launcher = "process"
    /\ args' \in Inputs
    /\ LET map == ArgMap(args'.defaults \o args'.session)
           fails == DuplicateDefault(args'.defaults) \/ SamePosition(map)
       IN  /\ argv' = IF fails THEN <<>> ELSE Normalise(map)
           /\ pc' = IF fails THEN "argumentsFailed" ELSE "server"
    /\ UNCHANGED <<launcher, build, settings, event, sources, env>>

ContainerArguments ==
    /\ pc = "arguments" /\ launcher = "docker"
    /\ args' \in {i \in Inputs : i.session = <<>>}
    /\ argv' = RenderArgs(args'.defaults)
    /\ pc' = "started"
    /\ UNCHANGED <<launcher, build, settings, event, sources, env>>

\* Of the process launcher; containers have theirs before their environment is built.
StartCredServer ==
    /\ pc = "server"
    /\ pc' \in {"environment", "serverFailed"}
    /\ args' = None /\ argv' = <<>>
    /\ UNCHANGED <<launcher, build, settings, event, sources, env>>

\* sessionenv.Build, and process.Run that passes the wrapper's own environment on.  A start may
\* fail, and that of a directory does.
ProcessEnvironment ==
    /\ pc = "environment" /\ launcher = "process"
    /\ \E parent, properties \in SUBSET Name, configured \in BoundedSeq(Name, MaxConfigured) :
           sources' = [parent |-> parent, properties |-> properties, configured |-> configured,
                       inject |-> event.inject, server |-> event.fetcher,
                       wants |-> [keys |-> settings.inject, server |-> TRUE]]
    /\ env' \in Rendered(Build([n \in sources'.parent |-> FromParent], sources'))
    /\ pc' \in {"startFailed"} \union (IF build.program THEN {"started"} ELSE {})
    /\ UNCHANGED <<launcher, build, settings, event, args, argv>>

\* Build and writeEnvFile, with what the container asks for.
ContainerEnvironment ==
    /\ pc = "environment" /\ launcher = "docker"
    /\ \E wants \in [keys : BOOLEAN, server : BOOLEAN], properties \in SUBSET Name,
          configured \in BoundedSeq(Name, MaxConfigured) :
           sources' = [parent |-> {}, properties |-> properties, configured |-> configured,
                       inject |-> wants.keys /\ event.credentials,
                       server |-> wants.server /\ event.fetcher, wants |-> wants]
    /\ env' \in Rendered(Build([n \in {} |-> FromParent], sources'))
    /\ pc' = "envFile"
    /\ UNCHANGED <<launcher, build, settings, event, args, argv>>

\* It fails for a name or a value that an env file cannot hold.
WriteEnvFile ==
    /\ pc = "envFile"
    /\ pc' \in {"arguments", "environmentFailed"}
    /\ settings' = None /\ event' = None /\ sources' = None /\ env' = <<>>
    /\ UNCHANGED <<launcher, build, args, argv>>

\* The template of an argument or of a variable does not parse.
TemplateFails ==
    /\ pc \in {"arguments", "environment"}
    /\ pc' = "templateFailed"
    /\ UNCHANGED <<launcher, build, settings, event, args, argv, sources, env>>

Next ==
    \/ GetGame \/ StartSession \/ InitProcess
    \/ ProcessArguments \/ StartCredServer \/ ContainerArguments
    \/ ProcessEnvironment \/ ContainerEnvironment \/ WriteEnvFile \/ TemplateFails

Spec == Init /\ [][Next]_vars

-----------------------------------------------------------------------------
(* Properties.                                                             *)

\* The executable a session goes on with is the one the operator gave, where the start of the
\* wrapper found it: the two checks and the start make one path of the settings.  That path is
\* of no use to the session if no working-directory is set and the executable lies in the
\* wrapper's own directory (or is not set): then the wrapper accepted it and no session can
\* start it.  In no other case does the chmod lack its operand.
CheckedIsStarted ==
    [][pc = "init" =>
           LET exe == build.given.exe
               ownDirectory == build.given.dir = Unset /\ exe \in {Unset, Append(Home, "game")}
           IN  /\ ownDirectory => pc' # "arguments"
               /\ pc' = "noOperand" => ownDirectory
               /\ pc' = "arguments" /\ exe # Unset =>
                      /\ Place(ExePath(build)) = exe /\ build.found # "missing"
                      /\ build'.program <=> build.found = "file"
      ]_vars

\* The entries of a name.
Of(entries, n) == {k \in DOMAIN entries : entries[k].name = n}

PositionOf(entries, n) ==
    LET placed == {k \in Of(entries, n) : entries[k].pos # 0}
    IN  IF placed = {} THEN 0 ELSE entries[Latest(placed)].pos

Named(entries) == {entries[k].name : k \in DOMAIN entries}

\* The last entry of a name, at the last position given for it.
LastOf(entries, n) ==
    [name |-> n, pos |-> PositionOf(entries, n), val |-> Latest(Of(entries, n))]

\* The arguments of the game: of each name the last entry, at the last position given for
\* it, in the order of positions.  Only the process launcher refuses a session, for names
\* or positions that are configured twice or for two names at one position.  An argument
\* without a name is one more name; a process gets it as an empty argument.
ArgumentsRight ==
    args # None =>
        LET entries == args.defaults \o args.session
        IN  /\ \A i, j \in DOMAIN argv : i < j => argv[i].pos <= argv[j].pos
            /\ launcher = "process" /\ pc # "argumentsFailed" =>
                   ToSet(argv) = {LastOf(entries, n) : n \in Named(entries)}
            /\ pc = "argumentsFailed" =>
                   \/ DuplicateDefault(args.defaults)
                   \/ \E n, l \in Named(entries) :
                          n # l /\ PositionOf(entries, n) = PositionOf(entries, l)
            \* Of arguments that both accept, a container gets what a process gets, without
            \* the name of one that has none.
            /\ launcher = "docker" /\ ~DuplicateDefault(args.defaults) =>
                   LET ofProcess == Normalise(ArgMap(args.defaults))
                   IN  /\ DOMAIN argv = DOMAIN ofProcess
                       /\ \A k \in DOMAIN argv :
                             /\ argv[k].pos = ofProcess[k].pos /\ argv[k].val = ofProcess[k].val
                             /\ argv[k].name = IF ofProcess[k].name = NoName THEN Omitted
                                               ELSE ofProcess[k].name

\* The entries the operator and the session ask for, by these settings.
Asked(by, from) ==
    LET managed == ~by.fleetArn
    IN  [name : from.parent, rank : {FromParent}]
        \union [name : from.properties, rank : {FromProperties}]
        \union (IF managed /\ by.use /\ by.fetched /\ from.wants.keys
                THEN {[name |-> Aws, rank |-> FromFleetRole]} ELSE {})
        \union (IF managed /\ by.local /\ from.wants.server
                THEN {[name |-> Cred, rank |-> FromCredServer]} ELSE {})
        \union {[name |-> from.configured[i], rank |-> FromConfigured(i)] :
                    i \in DOMAIN from.configured}

\* sessionenv.go:29 "Later entries win on name clashes", in both launchers: the game gets
\* every variable that is asked for and no other, fleet-role credentials only on a managed
\* compute that could fetch them, and the value of the last entry; only between names
\* that differ in case any may win.
LaterEntriesWin ==
    sources # None =>
        /\ DOMAIN env = {Upper(e.name) : e \in Asked(settings, sources)}
        /\ \A u \in DOMAIN env :
               LET same == {e \in Asked(settings, sources) : Upper(e.name) = u}
               IN  \E e \in same :
                       /\ env[u] = e.rank
                       /\ \A f \in same : f.name = e.name => f.rank <= e.rank
=============================================================================
