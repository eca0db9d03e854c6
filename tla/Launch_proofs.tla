----------------------------- MODULE Launch_proofs ----------------------------
(***************************************************************************)
(* Theorems about Launch, for lists of arguments and of variables of any   *)
(* length and for directories of any depth: what the loops of Normalise,   *)
(* of sessionenv.Build and of filepath.Join compute.                       *)
(*                                                                         *)
(* The prover has no rule of induction that it can apply to a formula, but *)
(* every non-empty set of natural numbers has a least member, and that is  *)
(* a statement about sets.  SetInduction, which follows, takes the set of  *)
(* the numbers for which a formula holds.                                  *)
(***************************************************************************)
EXTENDS Launch, WellFoundedInduction, FiniteSetTheorems, SequenceTheorems, TLAPS

\* A non-empty set of natural numbers has a least member.
LEMMA LeastMember ==
    ASSUME NEW T, T \subseteq Nat, T # {}
    PROVE  \E n \in T : \A m \in T : n <= m
<1> DEFINE R == {ss \in Nat \X Nat : ss[1] < ss[2]}
<1>1. IsWellFoundedOn(R, Nat)
  BY NatLessThanWellFounded DEF OpToRel
<1>2. \E x \in T : \A y \in T : ~ (<<y, x>> \in R)
  <2> HIDE DEF R
  <2> QED BY <1>1, WFMin
<1>3. PICK x \in T : \A y \in T : ~ (<<y, x>> \in R)
  BY <1>2
<1>4. ASSUME NEW y \in T PROVE x <= y
  <2>1. <<y, x>> \in Nat \X Nat
    OBVIOUS
  <2>2. ~(y < x)
    BY <1>3, <2>1
  <2> QED BY <2>2
<1> QED BY <1>4

\* A set with 0 and with the successors of its members has every natural number.
LEMMA SetInduction ==
    ASSUME NEW S, 0 \in S, \A n \in Nat : n \in S => n + 1 \in S
    PROVE  \A n \in Nat : n \in S
<1> SUFFICES ASSUME NEW k \in Nat, k \notin S PROVE FALSE
  OBVIOUS
<1> DEFINE T == {n \in Nat : n \notin S}
<1>1. PICK n \in T : \A m \in T : n <= m
  <2>1. T \subseteq Nat /\ T # {}
    OBVIOUS
  <2> HIDE DEF T
  <2> QED BY <2>1, LeastMember
<1>2. n # 0
  BY <1>1
<1>3. n - 1 \in Nat /\ n - 1 \notin T
  BY <1>1, <1>2
<1> QED BY <1>1, <1>3

-----------------------------------------------------------------------------
(* The loop of sessionenv.Build over the configured variables.             *)

\* The maps of the loop before and after each of the first n configured variables.
MapsOf(m, base, configured, n) ==
    m = [i \in 0..n |-> IF i = 0 THEN base
                        ELSE Assign(m[i - 1], {configured[i]}, FromConfigured(i))]

\* The function that AssignConfigured recurses by is there for a list of any length.
LEMMA AssignDefined ==
    ASSUME NEW base, NEW configured
    PROVE  \A n \in Nat : \E m : MapsOf(m, base, configured, n)
<1> DEFINE Next1(m, i) == Assign(m, {configured[i]}, FromConfigured(i))
           Rec(m, n) == m = [i \in 0..n |-> IF i = 0 THEN base ELSE Next1(m[i - 1], i)]
           S == {n \in Nat : \E m : Rec(m, n)}
<1> HIDE DEF Next1
<1>1. 0 \in S
  <2> DEFINE m == [i \in 0..0 |-> base]
  <2>1. Rec(m, 0)
    OBVIOUS
  <2> QED BY <2>1
<1>2. ASSUME NEW n \in Nat, n \in S PROVE n + 1 \in S
  <2>1. PICK m : Rec(m, n)
    BY <1>2
  <2> DEFINE g == [i \in 0..(n + 1) |-> IF i = n + 1 THEN Next1(m[n], n + 1) ELSE m[i]]
  <2>2. ASSUME NEW i \in 0..(n + 1)
        PROVE  g[i] = IF i = 0 THEN base ELSE Next1(g[i - 1], i)
    <3>1. CASE i = n + 1
      BY <3>1
    <3>2. CASE i # n + 1 /\ i # 0
      <4>1. i \in 0..n /\ i - 1 \in 0..n /\ i - 1 \in 0..(n + 1) /\ i - 1 # n + 1
        BY <3>2
      <4>2. m[i] = Next1(m[i - 1], i)
        BY <2>1, <3>2, <4>1
      <4>3. g[i] = m[i] /\ g[i - 1] = m[i - 1]
        BY <3>2, <4>1
      <4> QED BY <3>2, <4>2, <4>3
    <3>3. CASE i = 0
      BY <2>1, <3>3
    <3> QED BY <3>1, <3>2, <3>3
  <2>3. Rec(g, n + 1)
    BY <2>2
  <2>4. \E h : Rec(h, n + 1)
    <3> HIDE DEF g
    <3> QED BY <2>3
  <2> QED BY <2>4
<1>3. \A n \in Nat : n \in S
  <2> HIDE DEF S
  <2> QED BY <1>1, <1>2, SetInduction
<1> QED BY <1>3 DEF Next1, MapsOf

\* The map holds the names of the entries, and of each name the entry of highest rank.
Holds(map, entries) ==
    /\ DOMAIN map = {e.name : e \in entries}
    /\ \A n \in DOMAIN map :
           \E e \in entries : /\ e.name = n /\ map[n] = e.rank
                              /\ \A f \in entries : f.name = n => f.rank <= e.rank

\* The entry of one name and one rank.
LEMMA RecordSet ==
    ASSUME NEW n, NEW r
    PROVE  [name : {n}, rank : {r}] = {[name |-> n, rank |-> r]}
<1> DEFINE R == [name : {n}, rank : {r}]
           e == [name |-> n, rank |-> r]
<1>1. e \in R
  OBVIOUS
<1>2. ASSUME NEW d \in R PROVE d = e
  OBVIOUS
<1> HIDE DEF R, e
<1>3. R = {e}
  BY <1>1, <1>2
<1> QED BY <1>3 DEF R, e

\* An assignment of a rank that no entry exceeds adds entries of that rank.
LEMMA AssignAdds ==
    ASSUME NEW map, NEW entries, Holds(map, entries), NEW names, NEW value \in Nat,
           \A e \in entries : e.rank \in Nat /\ e.rank <= value
    PROVE  Holds(Assign(map, names, value), entries \union [name : names, rank : {value}])
<1> DEFINE new == [name : names, rank : {value}]
           all == entries \union new
           next == Assign(map, names, value)
<1>1. next = [n \in DOMAIN map \union names |-> IF n \in names THEN value ELSE map[n]]
  BY DEF Assign
<1>2. /\ \A e \in new : e.name \in names /\ e.rank = value
      /\ \A n \in names : [name |-> n, rank |-> value] \in new
  OBVIOUS
<1> HIDE DEF new, next
<1>3. DOMAIN next = {e.name : e \in all}
  <2>1. {e.name : e \in new} = names
    <3>1. ASSUME NEW n \in names PROVE \E e \in new : e.name = n
      BY <1>2, [name |-> n, rank |-> value].name = n
    <3> QED BY <1>2, <3>1
  <2> QED BY <1>1, <2>1 DEF Holds
<1>4. ASSUME NEW n \in DOMAIN next
      PROVE  \E e \in all : /\ e.name = n /\ next[n] = e.rank
                            /\ \A f \in all : f.name = n => f.rank <= e.rank
  <2>1. CASE n \in names
    <3> DEFINE e == [name |-> n, rank |-> value]
    <3>1. e \in all /\ e.name = n /\ e.rank = value
      BY <1>2, <2>1
    <3>2. next[n] = value
      BY <1>1, <1>4, <2>1
    <3>3. \A f \in all : f.rank <= value
      BY <1>2
    <3> HIDE DEF e
    <3> QED BY <3>1, <3>2, <3>3
  <2>2. CASE n \notin names
    <3>1. n \in DOMAIN map /\ next[n] = map[n]
      BY <1>1, <1>4, <2>2
    <3>2. PICK e \in entries : /\ e.name = n /\ map[n] = e.rank
                               /\ \A f \in entries : f.name = n => f.rank <= e.rank
      BY <3>1 DEF Holds
    <3>3. \A f \in all : f.name = n => f \in entries
      BY <1>2, <2>2
    <3> QED BY <3>1, <3>2, <3>3
  <2> QED BY <2>1, <2>2
<1> QED BY <1>3, <1>4 DEF Holds, new, next

\* The loop adds the configured variables, and the last of a name counts.
LEMMA ConfiguredAdds ==
    ASSUME NEW base, NEW entries, Holds(base, entries),
           \A e \in entries : e.rank \in Nat /\ e.rank <= FromCredServer,
           NEW configured, Len(configured) \in Nat
    PROVE  Holds(AssignConfigured(base, configured),
                 entries \union {[name |-> configured[i], rank |-> FromConfigured(i)] :
                                     i \in 1..Len(configured)})
<1> DEFINE L == Len(configured)
           Entry(i) == [name |-> configured[i], rank |-> FromConfigured(i)]
           After(k) == entries \union {Entry(i) : i \in 1..k}
           m == CHOOSE f : MapsOf(f, base, configured, L)
           S == {k \in Nat : k <= L => Holds(m[k], After(k))}
<1>1. MapsOf(m, base, configured, L)
  <2>1. \E f : MapsOf(f, base, configured, L)
    BY AssignDefined
  <2> QED BY <2>1
<1>2. AssignConfigured(base, configured) = m[L]
  BY DEF AssignConfigured, MapsOf
<1> HIDE DEF m
<1>3. m[0] = base
  <2>1. 0 \in 0..L
    OBVIOUS
  <2> QED BY <1>1, <2>1 DEF MapsOf
<1>4. ASSUME NEW k \in Nat, k + 1 <= L
      PROVE  m[k + 1] = Assign(m[k], {configured[k + 1]}, FromConfigured(k + 1))
  <2>1. k + 1 \in 0..L /\ k + 1 # 0 /\ (k + 1) - 1 = k
    BY <1>4
  <2>2. m[k + 1] = IF k + 1 = 0 THEN base
                   ELSE Assign(m[(k + 1) - 1], {configured[k + 1]}, FromConfigured(k + 1))
    <3> HIDE DEF L
    <3> QED BY <1>1, <2>1 DEF MapsOf
  <2> QED BY <2>1, <2>2
<1>5. 0 \in S
  <2>1. After(0) = entries
    OBVIOUS
  <2> HIDE DEF After
  <2> QED BY <1>3, <2>1
<1>6. ASSUME NEW k \in Nat, k \in S PROVE k + 1 \in S
  <2> SUFFICES ASSUME k + 1 <= L PROVE Holds(m[k + 1], After(k + 1))
    OBVIOUS
  <2>1. Holds(m[k], After(k))
    BY <1>6
  <2>2. /\ FromConfigured(k + 1) \in Nat
        /\ \A e \in After(k) : e.rank \in Nat /\ e.rank <= FromConfigured(k + 1)
    BY DEF FromConfigured, FromCredServer
  <2>3. Holds(m[k + 1], After(k) \union [name : {configured[k + 1]},
                                              rank : {FromConfigured(k + 1)}])
    <3> DEFINE M == m[k]
               E == After(k)
               v == FromConfigured(k + 1)
               c == {configured[k + 1]}
    <3>1. Holds(M, E) /\ v \in Nat /\ \A e \in E : e.rank \in Nat /\ e.rank <= v
      BY <2>1, <2>2
    <3>2. m[k + 1] = Assign(M, c, v)
      BY <1>4
    <3> HIDE DEF M, E, v, c
    <3>3. Holds(Assign(M, c, v), E \union [name : c, rank : {v}])
      BY <3>1, AssignAdds
    <3> QED BY <3>2, <3>3 DEF E, c, v
  <2>4. [name : {configured[k + 1]}, rank : {FromConfigured(k + 1)}] = {Entry(k + 1)}
    BY RecordSet
  <2>5. After(k + 1) = After(k) \union {Entry(k + 1)}
    <3>1. 1..(k + 1) = (1..k) \union {k + 1}
      OBVIOUS
    <3> HIDE DEF Entry
    <3> QED BY <3>1
  <2> HIDE DEF After, Entry
  <2> QED BY <2>3, <2>4, <2>5
<1>7. L \in S
  <2> HIDE DEF S
  <2> QED BY <1>5, <1>6, SetInduction
<1> QED BY <1>2, <1>7

\* The entries of the sources that sessionenv.Build is given.
EntriesOf(s) ==
    ((([name : s.parent, rank : {FromParent}]
       \union [name : s.properties, rank : {FromProperties}])
      \union [name : IF s.inject THEN {Aws} ELSE {}, rank : {FromFleetRole}])
     \union [name : IF s.server THEN {Cred} ELSE {}, rank : {FromCredServer}])
    \union {[name |-> s.configured[i], rank |-> FromConfigured(i)] : i \in 1..Len(s.configured)}

\* What sessionenv.Build makes of them.
LEMMA BuildHolds ==
    ASSUME NEW s, Len(s.configured) \in Nat
    PROVE  Holds(Build([n \in s.parent |-> FromParent], s), EntriesOf(s))
<1> DEFINE base == [n \in s.parent |-> FromParent]
           E0 == [name : s.parent, rank : {FromParent}]
           E1 == E0 \union [name : s.properties, rank : {FromProperties}]
           aws == IF s.inject THEN {Aws} ELSE {}
           E2 == E1 \union [name : aws, rank : {FromFleetRole}]
           cred == IF s.server THEN {Cred} ELSE {}
           E3 == E2 \union [name : cred, rank : {FromCredServer}]
           m1 == Assign(base, s.properties, FromProperties)
           m2 == Assign(m1, aws, FromFleetRole)
           m3 == Assign(m2, cred, FromCredServer)
<1> USE DEF FromParent, FromProperties, FromFleetRole, FromCredServer
<1>0. Holds(base, E0)
  <2>1. \A n \in s.parent : [name |-> n, rank |-> 0] \in E0
    OBVIOUS
  <2>2. \A e \in E0 : e.name \in s.parent /\ e.rank = 0
    OBVIOUS
  <2>3. DOMAIN base = s.parent /\ \A n \in s.parent : base[n] = 0
    OBVIOUS
  <2>4. \A n \in s.parent : \E e \in E0 : e.name = n /\ e.rank = 0
    <3> TAKE n \in s.parent
    <3>1. [name |-> n, rank |-> 0].name = n /\ [name |-> n, rank |-> 0].rank = 0
      OBVIOUS
    <3> HIDE DEF E0
    <3> QED BY <2>1, <3>1
  <2> HIDE DEF E0, base
  <2>5. {e.name : e \in E0} = s.parent
    BY <2>2, <2>4
  <2> QED BY <2>2, <2>3, <2>4, <2>5 DEF Holds
<1>1. /\ \A e \in E0 : e.rank \in Nat /\ e.rank <= 1
      /\ \A e \in E1 : e.rank \in Nat /\ e.rank <= 2
      /\ \A e \in E2 : e.rank \in Nat /\ e.rank <= 3
      /\ \A e \in E3 : e.rank \in Nat /\ e.rank <= 3
  OBVIOUS
<1>2. Holds(m1, E1)
  <2> HIDE DEF base, E0
  <2> QED BY <1>0, <1>1, AssignAdds
<1>3. Holds(m2, E2)
  <2> HIDE DEF m1, E1, aws
  <2> QED BY <1>1, <1>2, AssignAdds
<1>4. Holds(m3, E3)
  <2> HIDE DEF m2, E2, cred
  <2> QED BY <1>1, <1>3, AssignAdds
<1>5. Build(base, s) = AssignConfigured(m3, s.configured)
  BY DEF Build
<1>6. EntriesOf(s) = E3 \union {[name |-> s.configured[i], rank |-> FromConfigured(i)] :
                                    i \in 1..Len(s.configured)}
  BY DEF EntriesOf
<1> HIDE DEF m3, E3
<1>7. Holds(AssignConfigured(m3, s.configured),
            E3 \union {[name |-> s.configured[i], rank |-> FromConfigured(i)] :
                           i \in 1..Len(s.configured)})
  BY <1>1, <1>4, ConfiguredAdds
<1> QED BY <1>5, <1>6, <1>7

\* Every upper-cased name has the rank of the last entry of some name that it stands for.
Wins(e, entries) ==
    /\ DOMAIN e = {Upper(x.name) : x \in entries}
    /\ \A u \in DOMAIN e :
           \E x \in entries :
               /\ Upper(x.name) = u /\ e[u] = x.rank
               /\ \A y \in entries : y.name = x.name => y.rank <= x.rank

\* Upper-casing the names leaves each variable with the last value of some name of it.
LEMMA RenderedWins ==
    ASSUME NEW map, NEW entries, Holds(map, entries), NEW e \in Rendered(map)
    PROVE  Wins(e, entries)
<1>1. /\ DOMAIN e = {Upper(n) : n \in DOMAIN map}
      /\ \A u \in DOMAIN e : \E n \in DOMAIN map : Upper(n) = u /\ e[u] = map[n]
  BY DEF Rendered
<1>2. {Upper(n) : n \in DOMAIN map} = {Upper(x.name) : x \in entries}
  BY DEF Holds
<1>3. ASSUME NEW u \in DOMAIN e
      PROVE  \E x \in entries :
                 /\ Upper(x.name) = u /\ e[u] = x.rank
                 /\ \A y \in entries : y.name = x.name => y.rank <= x.rank
  <2>1. PICK n \in DOMAIN map : Upper(n) = u /\ e[u] = map[n]
    BY <1>1, <1>3
  <2>2. PICK x \in entries : /\ x.name = n /\ map[n] = x.rank
                             /\ \A y \in entries : y.name = n => y.rank <= x.rank
    BY <2>1 DEF Holds
  <2> QED BY <2>1, <2>2
<1> QED BY <1>1, <1>2, <1>3 DEF Wins

-----------------------------------------------------------------------------
(* What is known when the environment is built.                            *)

Settings == [fleetArn : BOOLEAN, use : BOOLEAN, inject : BOOLEAN, local : BOOLEAN,
             fetched : BOOLEAN]

\* The fields that glOnStartGameSession makes of the settings.
EventOf(s) ==
    LET got == ~s.fleetArn /\ s.use /\ s.fetched
    IN  [fetcher |-> ~s.fleetArn /\ s.local, credentials |-> got, inject |-> got /\ s.inject]

\* HostingStart carries what the settings say, until the environment is built of it.
EventKnown ==
    \/ pc \in {"init", "server", "environment"}
    \/ pc = "arguments" /\ launcher = "process"
    => settings \in Settings /\ event = EventOf(settings)

\* The steps that only one of the launchers takes.
LauncherSteps ==
    /\ launcher \in {"process", "docker"}
    /\ pc \in {"init", "server"} => launcher = "process"
    /\ pc = "envFile" => launcher = "docker"

\* The sources of an environment are kept from the step that builds it only to the next.
SourcesKnown == sources # None => pc \in {"started", "startFailed", "envFile"}

LaunchInv == EventKnown /\ LauncherSteps /\ SourcesKnown

LEMMA InitLaunchInv == Init => LaunchInv
BY DEF Init, LaunchInv, EventKnown, LauncherSteps, SourcesKnown

LEMMA NextLaunchInv == LaunchInv /\ [Next]_vars => LaunchInv'
<1> SUFFICES ASSUME LaunchInv, [Next]_vars PROVE LaunchInv'
  OBVIOUS
<1> USE DEF LaunchInv, EventKnown, LauncherSteps, SourcesKnown
<1>1. CASE GetGame
  BY <1>1 DEF GetGame
<1>2. CASE StartSession
  <2>1. settings' \in Settings
    BY <1>2 DEF StartSession, Settings
  <2>2. event' = EventOf(settings')
    BY <1>2 DEF StartSession, EventOf
  <2>3. sources' = None /\ pc' \in {"init", "environment"} /\ (pc' = "init" => launcher' = "process")
    <3>1. sources = None
      BY <1>2 DEF StartSession
    <3> QED BY <1>2, <3>1 DEF StartSession
  <2>4. launcher' = launcher
    BY <1>2 DEF StartSession
  <2> QED BY <2>1, <2>2, <2>3, <2>4
<1>3. CASE InitProcess
  BY <1>3 DEF InitProcess
<1>4. CASE ProcessArguments
  BY <1>4 DEF ProcessArguments
<1>5. CASE StartCredServer
  BY <1>5 DEF StartCredServer
<1>6. CASE ContainerArguments
  BY <1>6 DEF ContainerArguments
<1>7. CASE ProcessEnvironment
  BY <1>7 DEF ProcessEnvironment
<1>8. CASE ContainerEnvironment
  BY <1>8 DEF ContainerEnvironment
<1>9. CASE WriteEnvFile
  BY <1>9 DEF WriteEnvFile
<1>10. CASE TemplateFails
  BY <1>10 DEF TemplateFails
<1>11. CASE UNCHANGED vars
  BY <1>11 DEF vars
<1> QED BY <1>1, <1>2, <1>3, <1>4, <1>5, <1>6, <1>7, <1>8, <1>9, <1>10, <1>11 DEF Next


\* What the event and the launcher pass to Build is what the operator and the session ask for.
LEMMA AskedIsBuilt ==
    ASSUME NEW by, NEW from,
           from.inject = (~by.fleetArn /\ by.use /\ by.fetched /\ from.wants.keys),
           from.server = (~by.fleetArn /\ by.local /\ from.wants.server),
           DOMAIN from.configured = 1..Len(from.configured)
    PROVE  Asked(by, from) = EntriesOf(from)
<1> DEFINE aws == IF from.inject THEN {Aws} ELSE {}
           cred == IF from.server THEN {Cred} ELSE {}
<1>1. [name : aws, rank : {FromFleetRole}] =
          IF ~by.fleetArn /\ by.use /\ by.fetched /\ from.wants.keys
          THEN {[name |-> Aws, rank |-> FromFleetRole]} ELSE {}
  <2>1. CASE from.inject
    <3>1. [name : aws, rank : {FromFleetRole}] = {[name |-> Aws, rank |-> FromFleetRole]}
      BY <2>1, RecordSet
    <3> HIDE DEF aws
    <3> QED BY <2>1, <3>1
  <2>2. CASE ~from.inject
    <3>1. [name : aws, rank : {FromFleetRole}] = {}
      BY <2>2
    <3> HIDE DEF aws
    <3> QED BY <2>2, <3>1
  <2> QED BY <2>1, <2>2
<1>2. [name : cred, rank : {FromCredServer}] =
          IF ~by.fleetArn /\ by.local /\ from.wants.server
          THEN {[name |-> Cred, rank |-> FromCredServer]} ELSE {}
  <2>1. CASE from.server
    <3>1. [name : cred, rank : {FromCredServer}] = {[name |-> Cred, rank |-> FromCredServer]}
      BY <2>1, RecordSet
    <3> HIDE DEF cred
    <3> QED BY <2>1, <3>1
  <2>2. CASE ~from.server
    <3>1. [name : cred, rank : {FromCredServer}] = {}
      BY <2>2
    <3> HIDE DEF cred
    <3> QED BY <2>2, <3>1
  <2> QED BY <2>1, <2>2
<1> HIDE DEF aws, cred
<1>3. EntriesOf(from) =
          ((([name : from.parent, rank : {FromParent}]
             \union [name : from.properties, rank : {FromProperties}])
            \union [name : aws, rank : {FromFleetRole}])
           \union [name : cred, rank : {FromCredServer}])
          \union {[name |-> from.configured[i], rank |-> FromConfigured(i)] :
                      i \in 1..Len(from.configured)}
  BY DEF EntriesOf, aws, cred
<1> QED BY <1>1, <1>2, <1>3, Zenon DEF Asked

LEMMA NextLaterEntriesWin == LaunchInv /\ LaterEntriesWin /\ [Next]_vars => LaterEntriesWin'
<1> SUFFICES ASSUME LaunchInv, LaterEntriesWin, [Next]_vars PROVE LaterEntriesWin'
  OBVIOUS
<1> USE DEF LaunchInv, EventKnown, LauncherSteps, SourcesKnown
\* Both launchers pass to Build what is asked for.
<1>0. ASSUME NEW s, sources' = s, Asked(settings, s) = EntriesOf(s), settings' = settings,
             Len(s.configured) \in Nat,
             env' \in Rendered(Build([n \in s.parent |-> FromParent], s))
      PROVE  LaterEntriesWin'
  <2> DEFINE map == Build([n \in s.parent |-> FromParent], s)
             E == EntriesOf(s)
  <2>1. Holds(map, E)
    BY <1>0, BuildHolds
  <2> HIDE DEF map, E
  <2>2. env' \in Rendered(map)
    BY <1>0 DEF map
  <2>3. Wins(env', E)
    BY <2>1, <2>2, RenderedWins
  <2>4. Wins(env', Asked(settings', sources'))
    BY <1>0, <2>3 DEF E
  <2> QED BY <2>4 DEF Wins, LaterEntriesWin
<1>1. CASE ProcessEnvironment
  <2>1. settings \in Settings /\ event = EventOf(settings) /\ settings' = settings
    BY <1>1 DEF ProcessEnvironment
  <2>2. PICK parent \in SUBSET Name, properties \in SUBSET Name,
             configured \in BoundedSeq(Name, MaxConfigured) :
            sources' = [parent |-> parent, properties |-> properties, configured |-> configured,
                        inject |-> event.inject, server |-> event.fetcher,
                        wants |-> [keys |-> settings.inject, server |-> TRUE]]
    BY <1>1 DEF ProcessEnvironment
  <2> DEFINE s == [parent |-> parent, properties |-> properties, configured |-> configured,
                   inject |-> event.inject, server |-> event.fetcher,
                   wants |-> [keys |-> settings.inject, server |-> TRUE]]
  <2>3. configured \in Seq(Name)
    BY LaunchAssumption DEF BoundedSeq, SeqOf
  <2>4. s.inject = (~settings.fleetArn /\ settings.use /\ settings.fetched /\ s.wants.keys)
    BY <2>1 DEF EventOf, Settings
  <2>5. s.server = (~settings.fleetArn /\ settings.local /\ s.wants.server)
    BY <2>1 DEF EventOf, Settings
  <2>6. DOMAIN s.configured = 1..Len(s.configured) /\ Len(s.configured) \in Nat
    BY <2>3
  <2>7. env' \in Rendered(Build([n \in s.parent |-> FromParent], s))
    BY <1>1, <2>2 DEF ProcessEnvironment
  <2> HIDE DEF s
  <2>8. Asked(settings, s) = EntriesOf(s)
    BY <2>4, <2>5, <2>6, AskedIsBuilt
  <2>9. sources' = s
    BY <2>2 DEF s
  <2> QED BY <1>0, <2>1, <2>6, <2>7, <2>8, <2>9
<1>2. CASE ContainerEnvironment
  <2>1. settings \in Settings /\ event = EventOf(settings) /\ settings' = settings
    BY <1>2 DEF ContainerEnvironment
  <2>2. PICK wants \in [keys : BOOLEAN, server : BOOLEAN], properties \in SUBSET Name,
             configured \in BoundedSeq(Name, MaxConfigured) :
            sources' = [parent |-> {}, properties |-> properties, configured |-> configured,
                        inject |-> wants.keys /\ event.credentials,
                        server |-> wants.server /\ event.fetcher, wants |-> wants]
    BY <1>2 DEF ContainerEnvironment
  <2> DEFINE s == [parent |-> {}, properties |-> properties, configured |-> configured,
                   inject |-> wants.keys /\ event.credentials,
                   server |-> wants.server /\ event.fetcher, wants |-> wants]
  <2>3. configured \in Seq(Name)
    BY LaunchAssumption DEF BoundedSeq, SeqOf
  <2>4. s.inject = (~settings.fleetArn /\ settings.use /\ settings.fetched /\ s.wants.keys)
    BY <2>1 DEF EventOf, Settings
  <2>5. s.server = (~settings.fleetArn /\ settings.local /\ s.wants.server)
    BY <2>1 DEF EventOf, Settings
  <2>6. DOMAIN s.configured = 1..Len(s.configured) /\ Len(s.configured) \in Nat
    BY <2>3
  <2>7. env' \in Rendered(Build([n \in s.parent |-> FromParent], s))
    BY <1>2, <2>2 DEF ContainerEnvironment
  <2> HIDE DEF s
  <2>8. Asked(settings, s) = EntriesOf(s)
    BY <2>4, <2>5, <2>6, AskedIsBuilt
  <2>9. sources' = s
    BY <2>2 DEF s
  <2> QED BY <1>0, <2>1, <2>6, <2>7, <2>8, <2>9
\* A session starts before there is an environment, and the others keep what it was made of.
<1>3. CASE StartSession
  <2>1. sources' = None
    BY <1>3 DEF StartSession
  <2> QED BY <2>1 DEF LaterEntriesWin
<1>4. CASE WriteEnvFile
  BY <1>4 DEF WriteEnvFile, LaterEntriesWin
<1>5. ASSUME UNCHANGED <<settings, sources, env>> PROVE LaterEntriesWin'
  BY <1>5 DEF LaterEntriesWin
<1>6. CASE GetGame \/ InitProcess \/ ProcessArguments \/ StartCredServer \/ ContainerArguments
           \/ TemplateFails \/ UNCHANGED vars
  BY <1>5, <1>6 DEF GetGame, InitProcess, ProcessArguments, StartCredServer,
                    ContainerArguments, TemplateFails, vars
<1> QED BY <1>1, <1>2, <1>3, <1>4, <1>6 DEF Next

\* The variables of the game are those the operator and the session ask for, each with the
\* value of its last entry, for environments and configurations of any size
\* (sessionenv.Build, and what process.Run and writeEnvFile make of its map).
THEOREM EnvironmentRight == Spec => []LaterEntriesWin
<1>1. Init => LaterEntriesWin
  BY DEF Init, LaterEntriesWin
<1> QED BY <1>1, InitLaunchInv, NextLaunchInv, NextLaterEntriesWin, PTL DEF Spec

-----------------------------------------------------------------------------
(* Sorting.                                                                *)

StrictOrder(S, before) ==
    /\ \A a \in S : <<a, a>> \notin before
    /\ \A a, b \in S : a # b => <<a, b>> \in before \/ <<b, a>> \in before
    /\ \A a, b, c \in S : <<a, b>> \in before /\ <<b, c>> \in before => <<a, c>> \in before

\* A sequence of the members of T, each once, in order.
Sorts(s, n, T, before) ==
    /\ s \in [1..n -> T]
    /\ \A a \in T : \E i \in 1..n : s[i] = a
    /\ \A i, j \in 1..n : i < j => <<s[i], s[j]>> \in before

\* A new member has a place in a sorted sequence.
LEMMA InsertSorts ==
    ASSUME NEW T, NEW x \in T, NEW before, StrictOrder(T, before), NEW n \in Nat, NEW s,
           Sorts(s, n, T \ {x}, before)
    PROVE  \E t : Sorts(t, n + 1, T, before)
<1> DEFINE C == {i \in 1..(n + 1) : i = n + 1 \/ <<x, s[i]>> \in before}
<1>1. PICK c \in C : \A i \in C : c <= i
  <2>1. C \subseteq Nat /\ n + 1 \in C
    OBVIOUS
  <2> HIDE DEF C
  <2> QED BY <2>1, LeastMember
<1> DEFINE t == [i \in 1..(n + 1) |-> IF i < c THEN s[i] ELSE IF i = c THEN x ELSE s[i - 1]]
<1>2. \A i \in 1..n : s[i] \in T /\ s[i] # x
  BY DEF Sorts
<1>3. c \in 1..(n + 1)
  BY <1>1
<1>4. ASSUME NEW i \in 1..n, i < c PROVE <<s[i], x>> \in before
  <2>1. i \notin C /\ i \in 1..(n + 1)
    BY <1>1, <1>3, <1>4
  <2>2. <<x, s[i]>> \notin before
    BY <2>1
  <2> QED BY <1>2, <2>2 DEF StrictOrder
<1>5. ASSUME NEW i \in 1..n, c <= i PROVE <<x, s[i]>> \in before
  <2>1. c \in 1..n /\ <<x, s[c]>> \in before
    BY <1>1, <1>5
  <2>2. CASE i = c
    BY <2>1, <2>2
  <2>3. CASE c < i
    <3>1. <<s[c], s[i]>> \in before
      BY <2>1, <2>3 DEF Sorts
    <3>2. s[c] \in T /\ s[i] \in T
      BY <1>2, <2>1
    <3> QED BY <2>1, <3>1, <3>2 DEF StrictOrder
  <2> QED BY <1>3, <1>5, <2>2, <2>3
<1> HIDE DEF C
<1>6. t \in [1..(n + 1) -> T]
  <2>1. ASSUME NEW i \in 1..(n + 1) PROVE t[i] \in T
    <3>1. CASE i < c
      BY <1>2, <1>3, <3>1
    <3>2. CASE i = c
      BY <3>2
    <3>3. CASE c < i
      <4>1. i - 1 \in 1..n
        BY <1>3, <3>3
      <4> QED BY <1>2, <1>3, <3>3, <4>1
    <3> QED BY <1>3, <3>1, <3>2, <3>3
  <2> QED BY <2>1
<1>7. ASSUME NEW a \in T PROVE \E i \in 1..(n + 1) : t[i] = a
  <2>1. CASE a = x
    BY <1>3, <2>1
  <2>2. CASE a # x
    <3>1. PICK i \in 1..n : s[i] = a
      BY <2>2 DEF Sorts
    <3>2. CASE i < c
      BY <1>3, <3>1, <3>2
    <3>3. CASE c <= i
      <4>1. i + 1 \in 1..(n + 1) /\ c < i + 1 /\ (i + 1) - 1 = i
        BY <1>3, <3>3
      <4>2. t[i + 1] = s[(i + 1) - 1]
        BY <1>3, <4>1
      <4> HIDE DEF t
      <4> QED BY <3>1, <4>1, <4>2
    <3> QED BY <1>3, <3>2, <3>3
  <2> QED BY <2>1, <2>2
<1>8. ASSUME NEW i \in 1..(n + 1), NEW j \in 1..(n + 1), i < j PROVE <<t[i], t[j]>> \in before
  <2> DEFINE k == j - 1
             h == i - 1
  <2>1. CASE j < c
    <3>1. i \in 1..n /\ j \in 1..n /\ t[i] = s[i] /\ t[j] = s[j]
      BY <1>3, <1>8, <2>1
    <3> HIDE DEF t
    <3> QED BY <1>8, <3>1 DEF Sorts
  <2>2. CASE j = c
    <3>1. i \in 1..n /\ i < c /\ t[i] = s[i] /\ t[j] = x
      BY <1>3, <1>8, <2>2
    <3> HIDE DEF t
    <3> QED BY <1>4, <3>1
  <2>3. CASE i < c /\ c < j
    <3>1. i \in 1..n /\ k \in 1..n /\ i < k /\ t[i] = s[i] /\ t[j] = s[k]
      BY <1>3, <1>8, <2>3
    <3> HIDE DEF t, k
    <3> QED BY <3>1 DEF Sorts
  <2>4. CASE i = c
    <3>1. k \in 1..n /\ c <= k /\ t[i] = x /\ t[j] = s[k]
      BY <1>3, <1>8, <2>4
    <3> HIDE DEF t, k
    <3> QED BY <1>5, <3>1
  <2>5. CASE c < i
    <3>1. h \in 1..n /\ k \in 1..n /\ h < k /\ t[i] = s[h] /\ t[j] = s[k]
      BY <1>3, <1>8, <2>5
    <3> HIDE DEF t, h, k
    <3> QED BY <3>1 DEF Sorts
  <2> QED BY <1>3, <1>8, <2>1, <2>2, <2>3, <2>4, <2>5
<1>9. Sorts(t, n + 1, T, before)
  <2> HIDE DEF t
  <2> QED BY <1>6, <1>7, <1>8 DEF Sorts
<1> HIDE DEF t
<1> QED BY <1>9


LEMMA SubsetOrder ==
    ASSUME NEW S, NEW before, StrictOrder(S, before), NEW T \in SUBSET S
    PROVE  StrictOrder(T, before)
BY DEF StrictOrder

\* A finite set can be sorted by any strict order of its members.
LEMMA SortedExists ==
    ASSUME NEW S, IsFiniteSet(S), NEW before, StrictOrder(S, before)
    PROVE  \E s : Sorts(s, Cardinality(S), S, before)
<1> DEFINE N == {n \in Nat : \A T \in SUBSET S : Cardinality(T) = n =>
                                 \E s : Sorts(s, n, T, before)}
<1>1. 0 \in N
  <2> SUFFICES ASSUME NEW T \in SUBSET S, Cardinality(T) = 0
               PROVE  \E s : Sorts(s, 0, T, before)
    OBVIOUS
  <2>1. T = {}
    BY FS_Subset, FS_EmptySet
  <2> DEFINE s == [i \in 1..0 |-> i]
  <2>2. Sorts(s, 0, T, before)
    BY <2>1 DEF Sorts
  <2> HIDE DEF s
  <2> QED BY <2>2
<1>2. ASSUME NEW n \in Nat, n \in N PROVE n + 1 \in N
  <2> SUFFICES ASSUME NEW T \in SUBSET S, Cardinality(T) = n + 1
               PROVE  \E s : Sorts(s, n + 1, T, before)
    OBVIOUS
  <2>1. IsFiniteSet(T)
    BY FS_Subset
  <2>2. T # {}
    BY FS_EmptySet
  <2>3. PICK x : x \in T
    BY <2>2
  <2>4. Cardinality(T \ {x}) = n
    <3>1. Cardinality(T \ {x}) = Cardinality(T) - 1
      BY <2>1, <2>3, FS_RemoveElement
    <3> QED BY <3>1
  <2>5. PICK s : Sorts(s, n, T \ {x}, before)
    BY <1>2, <2>4
  <2>6. StrictOrder(T, before)
    BY SubsetOrder
  <2> QED BY <2>3, <2>5, <2>6, InsertSorts
<1>3. Cardinality(S) \in Nat
  BY FS_CardinalityType
<1>4. Cardinality(S) \in N
  <2> HIDE DEF N
  <2> QED BY <1>1, <1>2, <1>3, SetInduction
<1> QED BY <1>4

\* Ordered sorts a finite set.
LEMMA OrderedSorts ==
    ASSUME NEW S, IsFiniteSet(S), NEW before, StrictOrder(S, before)
    PROVE  Sorts(Ordered(S, before), Cardinality(S), S, before)
<1> DEFINE n == Cardinality(S)
           s == Ordered(S, before)
<1>1. n \in Nat
  BY FS_CardinalityType
<1>2. \E t \in [1..n -> S] : \A i, j \in DOMAIN t : i < j => <<t[i], t[j]>> \in before
  <2>1. PICK t : Sorts(t, n, S, before)
    BY SortedExists
  <2>2. t \in [1..n -> S] /\ DOMAIN t = 1..n
    BY <2>1 DEF Sorts
  <2> QED BY <2>1, <2>2 DEF Sorts
<1>3. s \in [1..n -> S] /\ \A i, j \in DOMAIN s : i < j => <<s[i], s[j]>> \in before
  BY <1>2 DEF Ordered
<1> HIDE DEF s
<1>4. s \in Injection(1..n, S)
  <2>1. ASSUME NEW i \in 1..n, NEW j \in 1..n, s[i] = s[j] PROVE i = j
    <3>1. ~(i < j)
      BY <1>3, <2>1 DEF StrictOrder
    <3>2. ~(j < i)
      BY <1>3, <2>1 DEF StrictOrder
    <3> QED BY <1>1, <3>1, <3>2
  <2> QED BY <1>3, <2>1 DEF Injection, IsInjective
<1>5. s \in Surjection(1..n, S)
  <2>1. Cardinality(1..n) = n
    BY <1>1, FS_Interval
  <2> QED BY <1>4, <2>1, FS_Injection
<1>6. \A a \in S : \E i \in 1..n : s[i] = a
  BY <1>5 DEF Surjection
<1>7. Sorts(s, n, S, before)
  BY <1>3, <1>6 DEF Sorts
<1> QED BY <1>7 DEF s

\* There is one way to sort a set.
LEMMA SortedOnce ==
    ASSUME NEW T, NEW before, StrictOrder(T, before), NEW n \in Nat, NEW s, NEW t,
           Sorts(s, n, T, before), Sorts(t, n, T, before)
    PROVE  s = t
<1> DEFINE D == {i \in 1..n : s[i] # t[i]}
<1> SUFFICES ASSUME D # {} PROVE FALSE
  <2>1. s \in [1..n -> T] /\ t \in [1..n -> T]
    BY DEF Sorts
  <2>2. D = {} => \A i \in 1..n : s[i] = t[i]
    OBVIOUS
  <2> HIDE DEF D
  <2>3. D = {} => s = t
    BY <2>1, <2>2
  <2> QED BY <2>3
<1>1. PICK d \in D : \A i \in D : d <= i
  <2>1. D \subseteq Nat
    OBVIOUS
  <2> HIDE DEF D
  <2> QED BY <2>1, LeastMember
<1>2. d \in 1..n /\ s[d] # t[d] /\ s[d] \in T /\ t[d] \in T
  BY DEF Sorts
<1>3. \A i \in 1..n : i < d => s[i] = t[i]
  BY <1>1
<1> HIDE DEF D
\* Each has the other's member later.
<1>4. PICK j \in 1..n : t[j] = s[d]
  BY <1>2 DEF Sorts
<1>5. PICK k \in 1..n : s[k] = t[d]
  BY <1>2 DEF Sorts
<1>6. \A i, h \in 1..n : i < h => s[i] # s[h] /\ t[i] # t[h]
  BY DEF Sorts, StrictOrder
<1>7. d < j /\ d < k
  BY <1>2, <1>3, <1>4, <1>5, <1>6
<1>8. <<t[d], s[d]>> \in before /\ <<s[d], t[d]>> \in before
  BY <1>2, <1>4, <1>5, <1>7 DEF Sorts
<1> QED BY <1>2, <1>8 DEF StrictOrder

-----------------------------------------------------------------------------
(* The loops of Normalise.                                                 *)

\* The maps before and after each of the first n entries.
ArgMapsOf(m, entries, n) ==
    m = [k \in 0..n |-> IF k = 0 THEN [l \in {} |-> None] ELSE AddArg(m[k - 1], entries, k)]

LEMMA ArgMapDefined ==
    ASSUME NEW entries
    PROVE  \A n \in Nat : \E m : ArgMapsOf(m, entries, n)
<1> DEFINE base == [l \in {} |-> None]
           Next1(m, i) == AddArg(m, entries, i)
           Rec(m, n) == m = [i \in 0..n |-> IF i = 0 THEN base ELSE Next1(m[i - 1], i)]
           S == {n \in Nat : \E m : Rec(m, n)}
<1> HIDE DEF Next1, base
<1>1. 0 \in S
  <2> DEFINE m == [i \in 0..0 |-> base]
  <2>1. Rec(m, 0)
    OBVIOUS
  <2> QED BY <2>1
<1>2. ASSUME NEW n \in Nat, n \in S PROVE n + 1 \in S
  <2>1. PICK m : Rec(m, n)
    BY <1>2
  <2> DEFINE g == [i \in 0..(n + 1) |-> IF i = n + 1 THEN Next1(m[n], n + 1) ELSE m[i]]
  <2>2. ASSUME NEW i \in 0..(n + 1)
        PROVE  g[i] = IF i = 0 THEN base ELSE Next1(g[i - 1], i)
    <3>1. CASE i = n + 1
      BY <3>1
    <3>2. CASE i # n + 1 /\ i # 0
      <4>1. i \in 0..n /\ i - 1 \in 0..n /\ i - 1 \in 0..(n + 1) /\ i - 1 # n + 1
        BY <3>2
      <4>2. m[i] = Next1(m[i - 1], i)
        BY <2>1, <3>2, <4>1
      <4>3. g[i] = m[i] /\ g[i - 1] = m[i - 1]
        BY <3>2, <4>1
      <4> QED BY <3>2, <4>2, <4>3
    <3>3. CASE i = 0
      BY <2>1, <3>3
    <3> QED BY <3>1, <3>2, <3>3
  <2>3. Rec(g, n + 1)
    BY <2>2
  <2>4. \E h : Rec(h, n + 1)
    <3> HIDE DEF g
    <3> QED BY <2>3
  <2> QED BY <2>4
<1>3. \A n \in Nat : n \in S
  <2> HIDE DEF S
  <2> QED BY <1>1, <1>2, SetInduction
<1> QED BY <1>3 DEF Next1, base, ArgMapsOf

\* The last of the first k entries of a name, at the last position given for it.
IsLast(e, entries, n, k) ==
    /\ \E v \in 1..k : /\ e = [name |-> n, pos |-> e.pos, val |-> v]
                       /\ entries[v].name = n
                       /\ \A l \in 1..k : entries[l].name = n => l <= v
    /\ \/ e.pos = 0 /\ \A l \in 1..k : entries[l].name = n => entries[l].pos = 0
       \/ \E v \in 1..k : /\ entries[v].name = n /\ entries[v].pos # 0 /\ e.pos = entries[v].pos
                          /\ \A l \in 1..k : entries[l].name = n /\ entries[l].pos # 0 => l <= v

HoldsLast(map, entries, k) ==
    /\ DOMAIN map = {entries[i].name : i \in 1..k}
    /\ \A n \in DOMAIN map : IsLast(map[n], entries, n, k)

\* One entry keeps the map of the last ones.
LEMMA AddArgHoldsLast ==
    ASSUME NEW entries, NEW k \in Nat, NEW map, HoldsLast(map, entries, k)
    PROVE  HoldsLast(AddArg(map, entries, k + 1), entries, k + 1)
<1> DEFINE a == entries[k + 1]
           put == [name |-> a.name, pos |-> Put(map, a), val |-> k + 1]
           next == AddArg(map, entries, k + 1)
<1>1. next = [n \in DOMAIN map \union {a.name} |-> IF n = a.name THEN put ELSE map[n]]
  BY DEF AddArg
<1>0. 1..(k + 1) = (1..k) \union {k + 1}
  OBVIOUS
<1> HIDE DEF next
<1>2. DOMAIN next = {entries[i].name : i \in 1..(k + 1)}
  BY <1>0, <1>1 DEF HoldsLast
<1>3. IsLast(put, entries, a.name, k + 1)
  <2>1. \E v \in 1..(k + 1) : /\ put = [name |-> a.name, pos |-> put.pos, val |-> v]
                              /\ entries[v].name = a.name
                              /\ \A l \in 1..(k + 1) : entries[l].name = a.name => l <= v
    <3>1. put = [name |-> a.name, pos |-> put.pos, val |-> k + 1]
      OBVIOUS
    <3>2. k + 1 \in 1..(k + 1) /\ \A l \in 1..(k + 1) : l <= k + 1
      OBVIOUS
    <3> HIDE DEF put
    <3> QED BY <3>1, <3>2
  <2>2. put.pos = Put(map, a)
    OBVIOUS
  <2> HIDE DEF put
  <2>3. CASE a.pos # 0
    <3>1. put.pos = a.pos
      BY <2>2, <2>3 DEF Put
    <3> QED BY <1>0, <2>1, <2>3, <3>1 DEF IsLast
  <2>4. CASE a.pos = 0 /\ a.name \in DOMAIN map
    <3>1. put.pos = map[a.name].pos
      BY <2>2, <2>4 DEF Put
    <3>2. IsLast(map[a.name], entries, a.name, k)
      BY <2>4 DEF HoldsLast
    <3> QED BY <1>0, <2>1, <2>4, <3>1, <3>2 DEF IsLast
  <2>5. CASE a.pos = 0 /\ a.name \notin DOMAIN map
    <3>1. put.pos = 0
      BY <2>2, <2>5 DEF Put
    <3>2. \A l \in 1..k : entries[l].name # a.name
      BY <2>5 DEF HoldsLast
    <3> QED BY <1>0, <2>1, <2>5, <3>1, <3>2 DEF IsLast
  <2> QED BY <2>3, <2>4, <2>5
<1>4. ASSUME NEW n \in DOMAIN next PROVE IsLast(next[n], entries, n, k + 1)
  <2>1. CASE n = a.name
    <3>1. next[n] = put
      BY <1>1, <1>4, <2>1
    <3> QED BY <1>3, <2>1, <3>1
  <2>2. CASE n # a.name
    <3>1. n \in DOMAIN map /\ next[n] = map[n]
      BY <1>1, <1>4, <2>2
    <3>2. IsLast(map[n], entries, n, k)
      BY <3>1 DEF HoldsLast
    <3>3. \A l \in 1..(k + 1) : entries[l].name = n => l \in 1..k
      BY <1>0, <2>2
    <3>4. 1..k \subseteq 1..(k + 1)
      OBVIOUS
    <3>5. IsLast(map[n], entries, n, k + 1)
      BY <3>2, <3>3, <3>4 DEF IsLast
    <3> QED BY <3>1, <3>5
  <2> QED BY <2>1, <2>2
<1> QED BY <1>2, <1>4 DEF HoldsLast, next


LEMMA ArgMapHoldsLast ==
    ASSUME NEW entries, Len(entries) \in Nat
    PROVE  HoldsLast(ArgMap(entries), entries, Len(entries))
<1> DEFINE L == Len(entries)
           m == CHOOSE f : ArgMapsOf(f, entries, L)
           S == {k \in Nat : k <= L => HoldsLast(m[k], entries, k)}
<1>1. ArgMapsOf(m, entries, L)
  <2>1. \E f : ArgMapsOf(f, entries, L)
    BY ArgMapDefined
  <2> QED BY <2>1
<1>2. ArgMap(entries) = m[L]
  BY DEF ArgMap, ArgMapsOf
<1> HIDE DEF m
<1>3. m[0] = [l \in {} |-> None]
  <2>1. 0 \in 0..L
    OBVIOUS
  <2> QED BY <1>1, <2>1 DEF ArgMapsOf
<1>4. ASSUME NEW k \in Nat, k + 1 <= L PROVE m[k + 1] = AddArg(m[k], entries, k + 1)
  <2>1. k + 1 \in 0..L /\ k + 1 # 0 /\ (k + 1) - 1 = k
    BY <1>4
  <2>2. m[k + 1] = IF k + 1 = 0 THEN [l \in {} |-> None]
                   ELSE AddArg(m[(k + 1) - 1], entries, k + 1)
    <3> HIDE DEF L
    <3> QED BY <1>1, <2>1 DEF ArgMapsOf
  <2> QED BY <2>1, <2>2
<1>5. 0 \in S
  <2>1. DOMAIN m[0] = {}
    BY <1>3
  <2>2. {entries[i].name : i \in 1..0} = {}
    OBVIOUS
  <2> QED BY <2>1, <2>2 DEF HoldsLast
<1>6. ASSUME NEW k \in Nat, k \in S PROVE k + 1 \in S
  <2> SUFFICES ASSUME k + 1 <= L PROVE HoldsLast(m[k + 1], entries, k + 1)
    OBVIOUS
  <2>1. HoldsLast(m[k], entries, k)
    BY <1>6
  <2>2. HoldsLast(AddArg(m[k], entries, k + 1), entries, k + 1)
    BY <2>1, AddArgHoldsLast
  <2> QED BY <1>4, <2>2
<1>7. L \in S
  <2> HIDE DEF S
  <2> QED BY <1>5, <1>6, SetInduction
<1> QED BY <1>2, <1>7

\* The greatest of some numbers.
LEMMA LatestIs ==
    ASSUME NEW K, K \subseteq Nat, NEW v \in K, \A l \in K : l <= v
    PROVE  Latest(K) = v
<1>1. Latest(K) \in K /\ \A l \in K : l <= Latest(K)
  BY DEF Latest
<1>2. Latest(K) <= v /\ v <= Latest(K) /\ Latest(K) \in Nat /\ v \in Nat
  BY <1>1
<1> QED BY <1>2

\* What the loops of Normalise compute.
LEMMA ArgMapLast ==
    ASSUME NEW entries, Len(entries) \in Nat, DOMAIN entries = 1..Len(entries)
    PROVE  /\ DOMAIN ArgMap(entries) = Named(entries)
           /\ \A n \in Named(entries) : ArgMap(entries)[n] = LastOf(entries, n)
<1> DEFINE map == ArgMap(entries)
           L == Len(entries)
<1>1. HoldsLast(map, entries, L)
  BY ArgMapHoldsLast
<1> HIDE DEF map
<1>2. DOMAIN map = Named(entries)
  BY <1>1 DEF HoldsLast, Named
<1>3. ASSUME NEW n \in Named(entries) PROVE map[n] = LastOf(entries, n)
  <2> DEFINE e == map[n]
             K == Of(entries, n)
             P == {k \in K : entries[k].pos # 0}
  <2>1. IsLast(e, entries, n, L)
    BY <1>1, <1>2, <1>3 DEF HoldsLast
  <2>2. K = {k \in 1..L : entries[k].name = n} /\ K \subseteq Nat /\ P \subseteq Nat
    BY DEF Of
  <2> HIDE DEF e
  <2>3. PICK v \in 1..L : /\ e = [name |-> n, pos |-> e.pos, val |-> v]
                          /\ entries[v].name = n
                          /\ \A l \in 1..L : entries[l].name = n => l <= v
    BY <2>1 DEF IsLast
  <2>4. Latest(K) = v
    <3>1. v \in K /\ \A l \in K : l <= v
      BY <2>2, <2>3
    <3> HIDE DEF K
    <3> QED BY <2>2, <3>1, LatestIs
  <2>5. e.pos = PositionOf(entries, n)
    <3>1. CASE P = {}
      <4>1. PositionOf(entries, n) = 0
        BY <3>1 DEF PositionOf
      <4>2. e.pos = 0
        BY <2>1, <2>2, <3>1 DEF IsLast
      <4> QED BY <4>1, <4>2
    <3>2. CASE P # {}
      <4>1. PositionOf(entries, n) = entries[Latest(P)].pos
        BY <3>2 DEF PositionOf
      <4>2. PICK w \in 1..L : /\ entries[w].name = n /\ entries[w].pos # 0
                              /\ e.pos = entries[w].pos
                              /\ \A l \in 1..L :
                                     entries[l].name = n /\ entries[l].pos # 0 => l <= w
        BY <2>1, <2>2, <3>2 DEF IsLast
      <4>3. w \in P /\ \A l \in P : l <= w
        BY <2>2, <4>2
      <4>4. Latest(P) = w
        <5> HIDE DEF P
        <5> QED BY <2>2, <4>3, LatestIs
      <4> QED BY <4>1, <4>2, <4>4
    <3> QED BY <3>1, <3>2
  <2>6. e = LastOf(entries, n)
    BY <2>3, <2>4, <2>5 DEF LastOf
  <2> QED BY <2>6 DEF e
<1> QED BY <1>2, <1>3 DEF map


-----------------------------------------------------------------------------
(* The arguments of a game.                                                *)

ByPosition(put) == {p \in put \X put : p[1].pos < p[2].pos}
Put1(map) == {map[n] : n \in DOMAIN map}

\* What Normalise puts in order when no two names share a position.
LEMMA PutOrdered ==
    ASSUME NEW entries \in Seq(Arg), ~SamePosition(ArgMap(entries))
    PROVE  LET put == Put1(ArgMap(entries))
           IN  IsFiniteSet(put) /\ StrictOrder(put, ByPosition(put))
<1> DEFINE map == ArgMap(entries)
           L == Len(entries)
           put == Put1(map)
<1>1. L \in Nat /\ DOMAIN entries = 1..L /\ \A k \in 1..L : entries[k] \in Arg
  OBVIOUS
<1>2. HoldsLast(map, entries, L)
  BY <1>1, ArgMapHoldsLast
<1>3. ~SamePosition(map)
  OBVIOUS
<1> HIDE DEF map
<1>4. \A k \in 1..L : entries[k].pos \in Nat
  BY <1>1, LaunchAssumption DEF Arg
<1>5. ASSUME NEW n \in DOMAIN map PROVE map[n].pos \in Nat
  <2> DEFINE e == map[n]
  <2>1. IsLast(e, entries, n, L)
    BY <1>2 DEF HoldsLast
  <2> HIDE DEF e
  <2>2. e.pos = 0 \/ \E k \in 1..L : e.pos = entries[k].pos
    BY <2>1 DEF IsLast
  <2> QED BY <1>4, <2>2 DEF e
<1>6. IsFiniteSet(put)
  <2> DEFINE f == [k \in 1..L |-> map[entries[k].name]]
  <2>1. \A k \in 1..L : entries[k].name \in DOMAIN map
    BY <1>2 DEF HoldsLast
  <2>2. f \in [1..L -> put]
    BY <2>1 DEF Put1
  <2>3. \A e \in put : \E k \in 1..L : f[k] = e
    BY <1>2 DEF Put1, HoldsLast
  <2>4. IsFiniteSet(1..L)
    BY <1>1, FS_Interval
  <2> HIDE DEF f
  <2>5. f \in Surjection(1..L, put)
    BY <2>2, <2>3 DEF Surjection
  <2> QED BY <2>4, <2>5, FS_Surjection
<1>7. \A a, b \in put : a # b => a.pos # b.pos
  BY <1>3 DEF SamePosition, Put1
<1>8. \A a \in put : a.pos \in Nat
  BY <1>5 DEF Put1
<1>9. \A a, b \in put : <<a, b>> \in ByPosition(put) <=> a.pos < b.pos
  BY DEF ByPosition
<1> HIDE DEF put
<1>10. StrictOrder(put, ByPosition(put))
  BY <1>7, <1>8, <1>9 DEF StrictOrder
<1> QED BY <1>6, <1>10 DEF put, map

\* Normalise sorts what the loops put in the map.
LEMMA NormaliseSorts ==
    ASSUME NEW entries \in Seq(Arg), ~SamePosition(ArgMap(entries))
    PROVE  LET put == Put1(ArgMap(entries))
           IN  Sorts(Normalise(ArgMap(entries)), Cardinality(put), put, ByPosition(put))
<1> DEFINE map == ArgMap(entries)
           put == Put1(map)
<1>1. IsFiniteSet(put) /\ StrictOrder(put, ByPosition(put))
  BY PutOrdered
<1>2. Normalise(map) = Ordered(put, ByPosition(put))
  BY DEF Normalise, Put1, ByPosition
<1> HIDE DEF put, map
<1>3. Sorts(Ordered(put, ByPosition(put)), Cardinality(put), put, ByPosition(put))
  BY <1>1, OrderedSorts
<1> QED BY <1>2, <1>3 DEF put, map

\* The places of the entries, as a container takes them.
Stable(entries) ==
    {p \in (DOMAIN entries) \X (DOMAIN entries) :
        \/ entries[p[1]].pos < entries[p[2]].pos
        \/ entries[p[1]].pos = entries[p[2]].pos /\ p[1] < p[2]}

LEMMA SortedStableSorts ==
    ASSUME NEW entries \in Seq(Arg)
    PROVE  \E order :
               /\ Sorts(order, Len(entries), 1..Len(entries), Stable(entries))
               /\ SortedStable(entries) =
                      [k \in 1..Len(entries) |->
                          [name |-> entries[order[k]].name, pos |-> entries[order[k]].pos,
                           val |-> order[k]]]
<1> DEFINE L == Len(entries)
           places == 1..L
           order == Ordered(places, Stable(entries))
<1>1. L \in Nat /\ DOMAIN entries = 1..L /\ \A k \in 1..L : entries[k].pos \in Nat
  <2>1. L \in Nat /\ DOMAIN entries = 1..L /\ \A k \in 1..L : entries[k] \in Arg
    OBVIOUS
  <2>2. \A a \in Arg : a.pos \in Nat
    BY LaunchAssumption DEF Arg
  <2> QED BY <2>1, <2>2
<1>2. IsFiniteSet(places) /\ Cardinality(places) = L
  BY <1>1, FS_Interval
<1>3. \A i, j \in places : <<i, j>> \in Stable(entries) <=>
          \/ entries[i].pos < entries[j].pos
          \/ entries[i].pos = entries[j].pos /\ i < j
  BY <1>1 DEF Stable
<1>4. StrictOrder(places, Stable(entries))
  <2> DEFINE B == Stable(entries)
             pos(i) == entries[i].pos
  <2>1. \A i \in places : pos(i) \in Nat /\ i \in Nat
    BY <1>1
  <2>2. \A i, j \in places : <<i, j>> \in B <=> \/ pos(i) < pos(j)
                                                \/ pos(i) = pos(j) /\ i < j
    BY <1>3
  <2> HIDE DEF B, pos, places
  <2>3. \A i \in places : <<i, i>> \notin B
    BY <2>1, <2>2
  <2>4. \A i, j \in places : i # j => <<i, j>> \in B \/ <<j, i>> \in B
    BY <2>1, <2>2
  <2>5. ASSUME NEW i \in places, NEW j \in places, NEW k \in places,
               <<i, j>> \in B, <<j, k>> \in B
        PROVE  <<i, k>> \in B
    BY <2>1, <2>2, <2>5
  <2> QED BY <2>3, <2>4, <2>5 DEF StrictOrder, B
<1>5. Sorts(order, L, places, Stable(entries))
  <2> HIDE DEF places
  <2> QED BY <1>2, <1>4, OrderedSorts
<1>6. DOMAIN order = 1..L
  BY <1>5 DEF Sorts
<1>7. SortedStable(entries) =
          [k \in DOMAIN order |->
              [name |-> entries[order[k]].name, pos |-> entries[order[k]].pos, val |-> order[k]]]
  BY <1>1 DEF SortedStable, Stable
<1> HIDE DEF order
<1> QED BY <1>5, <1>6, <1>7


\* Of arguments without duplicates the last entry of a name is the only one.
LEMMA LastIsOnly ==
    ASSUME NEW entries \in Seq(Arg), ~DuplicateDefault(entries), NEW o \in 1..Len(entries)
    PROVE  /\ LastOf(entries, entries[o].name) =
                  [name |-> entries[o].name, pos |-> entries[o].pos, val |-> o]
           /\ \A i \in 1..Len(entries) :
                  i # o => entries[i].name # entries[o].name /\ entries[i].pos # entries[o].pos
<1> DEFINE L == Len(entries)
           n == entries[o].name
           placed == {k \in Of(entries, n) : entries[k].pos # 0}
<1>1. L \in Nat /\ DOMAIN entries = 1..L
  OBVIOUS
<1>2. \A i \in 1..L : i # o => entries[i].name # n /\ entries[i].pos # entries[o].pos
  BY <1>1 DEF DuplicateDefault
<1>3. Of(entries, n) = {o}
  BY <1>1, <1>2 DEF Of
<1>4. Latest({o}) = o
  <2> DEFINE K == {o}
  <2>1. K \subseteq Nat /\ o \in K /\ \A l \in K : l <= o
    BY <1>1
  <2> HIDE DEF K
  <2>2. Latest(K) = o
    BY <2>1, LatestIs
  <2> QED BY <2>2 DEF K
<1>5. PositionOf(entries, n) = entries[o].pos
  <2>1. CASE entries[o].pos = 0
    <3>1. placed = {}
      BY <1>3, <2>1
    <3> QED BY <2>1, <3>1 DEF PositionOf
  <2>2. CASE entries[o].pos # 0
    <3>1. placed = {o}
      BY <1>3, <2>2
    <3>2. PositionOf(entries, n) = IF placed = {} THEN 0 ELSE entries[Latest(placed)].pos
      BY DEF PositionOf
    <3> HIDE DEF placed
    <3> QED BY <1>4, <3>1, <3>2
  <2> QED BY <2>1, <2>2
<1>6. LastOf(entries, n) = [name |-> n, pos |-> entries[o].pos, val |-> o]
  BY <1>3, <1>4, <1>5 DEF LastOf
<1> QED BY <1>2, <1>6

\* Both launchers order arguments without duplicates alike.
LEMMA LaunchersAgree ==
    ASSUME NEW entries \in Seq(Arg), ~DuplicateDefault(entries)
    PROVE  SortedStable(entries) = Normalise(ArgMap(entries))
<1> DEFINE L == Len(entries)
           map == ArgMap(entries)
           put == Put1(map)
           r == SortedStable(entries)
           E(o) == [name |-> entries[o].name, pos |-> entries[o].pos, val |-> o]
<1>1. L \in Nat /\ DOMAIN entries = 1..L /\ \A k \in 1..L : entries[k].pos \in Nat
  <2>1. L \in Nat /\ DOMAIN entries = 1..L /\ \A k \in 1..L : entries[k] \in Arg
    OBVIOUS
  <2>2. \A a \in Arg : a.pos \in Nat
    BY LaunchAssumption DEF Arg
  <2> QED BY <2>1, <2>2
<1>2. \A o \in 1..L : LastOf(entries, entries[o].name) = E(o) /\ E(o).pos = entries[o].pos
  BY LastIsOnly
<1>3. \A i, o \in 1..L : i # o => entries[i].name # entries[o].name /\ entries[i].pos # entries[o].pos
  BY LastIsOnly
<1>4. DOMAIN map = Named(entries) /\ \A n \in Named(entries) : map[n] = LastOf(entries, n)
  BY <1>1, ArgMapLast
<1>5. \A o \in 1..L : entries[o].name \in DOMAIN map /\ map[entries[o].name] = E(o)
  BY <1>1, <1>2, <1>4 DEF Named
<1>6. \A n \in DOMAIN map : \E o \in 1..L : entries[o].name = n
  BY <1>1, <1>4 DEF Named
<1>7. PICK order : /\ Sorts(order, L, 1..L, Stable(entries))
                   /\ r = [k \in 1..L |-> E(order[k])]
  BY SortedStableSorts
<1> HIDE DEF map, r
<1> HIDE DEF E
<1>8. put = {E(o) : o \in 1..L}
  <2>1. \A o \in 1..L : E(o) \in put
    BY <1>5 DEF Put1
  <2>2. \A e \in put : \E o \in 1..L : e = E(o)
    BY <1>5, <1>6 DEF Put1
  <2> HIDE DEF put
  <2> QED BY <2>1, <2>2
<1>9. ~SamePosition(map)
  BY <1>2, <1>3, <1>5, <1>6 DEF SamePosition
<1>10. ASSUME NEW k \in 1..L PROVE order[k] \in 1..L /\ r[k] = E(order[k]) /\ r[k] \in put
  BY <1>7, <1>8 DEF Sorts
<1>11. ASSUME NEW i \in 1..L, NEW j \in 1..L, i < j PROVE r[i].pos < r[j].pos
  <2>1. <<order[i], order[j]>> \in Stable(entries)
    BY <1>7, <1>11 DEF Sorts
  <2>2. \/ entries[order[i]].pos < entries[order[j]].pos
        \/ entries[order[i]].pos = entries[order[j]].pos /\ order[i] < order[j]
    BY <2>1 DEF Stable
  <2>3. order[i] \in 1..L /\ order[j] \in 1..L
    BY <1>10
  <2>4. entries[order[i]].pos < entries[order[j]].pos
    BY <1>3, <2>2, <2>3
  <2>5. r[i].pos = entries[order[i]].pos /\ r[j].pos = entries[order[j]].pos
    BY <1>2, <1>10
  <2> QED BY <2>4, <2>5
<1>12. Sorts(r, L, put, ByPosition(put))
  <2>1. DOMAIN r = 1..L /\ r \in [1..L -> put]
    <3> HIDE DEF put
    <3> QED BY <1>7, <1>10
  <2>2. ASSUME NEW a \in put PROVE \E k \in 1..L : r[k] = a
    <3>1. PICK o \in 1..L : a = E(o)
      BY <1>8
    <3>2. PICK k \in 1..L : order[k] = o
      BY <1>7 DEF Sorts
    <3> QED BY <1>10, <3>1, <3>2
  <2>3. ASSUME NEW i \in 1..L, NEW j \in 1..L, i < j PROVE <<r[i], r[j]>> \in ByPosition(put)
    BY <1>10, <1>11, <2>3 DEF ByPosition
  <2> HIDE DEF put
  <2> QED BY <2>1, <2>2, <2>3 DEF Sorts
<1> HIDE DEF put
<1>13. Cardinality(put) = L
  <2>1. r \in [1..L -> put] /\ \A a \in put : \E k \in 1..L : r[k] = a
    BY <1>12 DEF Sorts
  <2>2. \A k \in 1..L : r[k].pos \in Nat
    BY <1>1, <1>2, <1>10
  <2>3. ASSUME NEW i \in 1..L, NEW j \in 1..L, r[i] = r[j] PROVE i = j
    <3>1. ~(i < j) /\ ~(j < i)
      BY <1>11, <2>2, <2>3
    <3> QED BY <1>1, <3>1
  <2>4. r \in Bijection(1..L, put)
    BY <2>1, <2>3 DEF Bijection, Injection, Surjection, IsInjective
  <2>5. ExistsBijection(1..L, put)
    BY <2>4 DEF ExistsBijection
  <2> QED BY <1>1, <2>5, FS_CountingElements
<1>14. Sorts(Normalise(map), L, put, ByPosition(put)) /\ StrictOrder(put, ByPosition(put))
  BY <1>9, <1>13, NormaliseSorts, PutOrdered DEF put, map
<1>15. r = Normalise(map)
  BY <1>1, <1>12, <1>14, SortedOnce
<1> QED BY <1>15 DEF r, map


LEMMA NormaliseRight ==
    ASSUME NEW entries \in Seq(Arg), ~SamePosition(ArgMap(entries)),
           NEW v, v = Normalise(ArgMap(entries))
    PROVE  /\ \A i, j \in DOMAIN v : i < j => v[i].pos <= v[j].pos
           /\ ToSet(v) = {LastOf(entries, n) : n \in Named(entries)}
<1> DEFINE map == ArgMap(entries)
           put == Put1(map)
           c == Cardinality(put)
<1>1. Sorts(v, c, put, ByPosition(put)) /\ IsFiniteSet(put)
  BY NormaliseSorts, PutOrdered
<1>2. DOMAIN map = Named(entries) /\ \A n \in Named(entries) : map[n] = LastOf(entries, n)
  BY ArgMapLast
<1>3. put = {LastOf(entries, n) : n \in Named(entries)}
  <2> HIDE DEF map
  <2> QED BY <1>2 DEF Put1
<1>4. \A k \in 1..Len(entries) : entries[k].pos \in Nat
  <2>1. \A k \in 1..Len(entries) : entries[k] \in Arg
    OBVIOUS
  <2>2. \A a \in Arg : a.pos \in Nat
    BY LaunchAssumption DEF Arg
  <2> QED BY <2>1, <2>2
<1>5. \A e \in put : e.pos \in Nat
  <2>1. HoldsLast(map, entries, Len(entries))
    BY ArgMapHoldsLast
  <2> HIDE DEF map
  <2> QED BY <1>4, <2>1 DEF Put1, HoldsLast, IsLast
<1> HIDE DEF put
<1>6. DOMAIN v = 1..c /\ \A i \in 1..c : v[i] \in put
  BY <1>1 DEF Sorts
<1>7. ASSUME NEW i \in 1..c, NEW j \in 1..c, i < j PROVE v[i].pos <= v[j].pos
  <2>1. <<v[i], v[j]>> \in ByPosition(put)
    BY <1>1, <1>7 DEF Sorts
  <2>2. v[i].pos < v[j].pos
    BY <2>1 DEF ByPosition
  <2> QED BY <1>5, <1>6, <2>2
<1>8. ToSet(v) = put
  BY <1>1, <1>6 DEF ToSet, Sorts
<1> QED BY <1>3, <1>6, <1>7, <1>8

LEMMA SortedStableOrdered ==
    ASSUME NEW entries \in Seq(Arg), NEW v, v = SortedStable(entries)
    PROVE  \A i, j \in DOMAIN v : i < j => v[i].pos <= v[j].pos
<1> DEFINE L == Len(entries)
           E(o) == [name |-> entries[o].name, pos |-> entries[o].pos, val |-> o]
<1>1. \A o \in 1..L : E(o).pos = entries[o].pos /\ entries[o].pos \in Nat
  <2>1. \A o \in 1..L : entries[o] \in Arg
    OBVIOUS
  <2>2. \A a \in Arg : a.pos \in Nat
    BY LaunchAssumption DEF Arg
  <2>3. \A o \in 1..L : E(o).pos = entries[o].pos
    OBVIOUS
  <2> QED BY <2>1, <2>2, <2>3
<1>2. PICK order : /\ Sorts(order, L, 1..L, Stable(entries))
                   /\ v = [k \in 1..L |-> E(order[k])]
  BY SortedStableSorts
<1> HIDE DEF E
<1>3. ASSUME NEW i \in 1..L, NEW j \in 1..L, i < j PROVE v[i].pos <= v[j].pos
  <2>1. <<order[i], order[j]>> \in Stable(entries)
    BY <1>2, <1>3 DEF Sorts
  <2>2. \/ entries[order[i]].pos < entries[order[j]].pos
        \/ entries[order[i]].pos = entries[order[j]].pos /\ order[i] < order[j]
    BY <2>1 DEF Stable
  <2>3. order[i] \in 1..L /\ order[j] \in 1..L
    BY <1>2 DEF Sorts
  <2>4. v[i] = E(order[i]) /\ v[j] = E(order[j])
    BY <1>2
  <2>5. v[i].pos = entries[order[i]].pos /\ v[j].pos = entries[order[j]].pos
    BY <1>1, <2>3, <2>4
  <2>6. entries[order[i]].pos \in Nat /\ entries[order[j]].pos \in Nat
    BY <1>1, <2>3
  <2> QED BY <2>2, <2>5, <2>6
<1> QED BY <1>2, <1>3

\* A container is given what is sorted, without empty names.
LEMMA RenderArgsIs ==
    ASSUME NEW entries \in Seq(Arg), NEW v, v = RenderArgs(entries)
    PROVE  LET sorted == SortedStable(entries)
           IN  /\ DOMAIN v = DOMAIN sorted
               /\ \A k \in DOMAIN v :
                     /\ v[k].pos = sorted[k].pos /\ v[k].val = sorted[k].val
                     /\ v[k].name = IF sorted[k].name = NoName THEN Omitted ELSE sorted[k].name
<1> DEFINE sorted == SortedStable(entries)
<1>1. PICK order :
          sorted = [k \in 1..Len(entries) |->
                       [name |-> entries[order[k]].name, pos |-> entries[order[k]].pos,
                        val |-> order[k]]]
  BY SortedStableSorts
<1>2. \A k \in DOMAIN sorted :
          sorted[k] = [name |-> sorted[k].name, pos |-> sorted[k].pos, val |-> sorted[k].val]
  BY <1>1
<1>3. v = [k \in DOMAIN sorted |-> WithoutEmptyName(sorted[k])]
  BY DEF RenderArgs
<1> HIDE DEF sorted
<1>4. ASSUME NEW k \in DOMAIN sorted
      PROVE  /\ v[k].pos = sorted[k].pos /\ v[k].val = sorted[k].val
             /\ v[k].name = IF sorted[k].name = NoName THEN Omitted ELSE sorted[k].name
  BY <1>2, <1>3 DEF WithoutEmptyName
<1> QED BY <1>3, <1>4 DEF sorted

\* The arguments are kept only by the step after the one that makes them.
ArgsKnown ==
    args # None => IF launcher = "process" THEN pc \in {"server", "argumentsFailed"}
                                           ELSE pc = "started"

LEMMA NextArgumentsRight ==
    LaunchInv /\ ArgsKnown /\ ArgumentsRight /\ [Next]_vars => ArgsKnown' /\ ArgumentsRight'
<1> SUFFICES ASSUME LaunchInv, ArgsKnown, ArgumentsRight, [Next]_vars
             PROVE  ArgsKnown' /\ ArgumentsRight'
  OBVIOUS
<1> USE DEF LaunchInv, LauncherSteps, ArgsKnown
<1>1. ASSUME NEW d, NEW b, d \in BoundedSeq(Arg, b), b \in Nat PROVE d \in Seq(Arg)
  BY <1>1 DEF BoundedSeq, SeqOf
<1>2. MaxDefaults \in Nat /\ MaxCliArgs \in Nat
  BY LaunchAssumption
<1>3. CASE ProcessArguments
  <2>1. args' \in Inputs /\ launcher' = "process"
    BY <1>3 DEF ProcessArguments
  <2> DEFINE defaults == args'.defaults
             entries == args'.defaults \o args'.session
             map == ArgMap(entries)
             fails == DuplicateDefault(args'.defaults) \/ SamePosition(map)
  <2>2. args'.defaults \in Seq(Arg) /\ args'.session \in Seq(Arg)
    BY <1>1, <1>2, <2>1 DEF Inputs
  <2>3. entries \in Seq(Arg)
    BY <2>2
  <2>4. /\ argv' = IF fails THEN <<>> ELSE Normalise(map)
        /\ pc' = IF fails THEN "argumentsFailed" ELSE "server"
    BY <1>3 DEF ProcessArguments
  <2>5. ASSUME SamePosition(map)
        PROVE  \E n, l \in Named(entries) :
                   n # l /\ PositionOf(entries, n) = PositionOf(entries, l)
    <3>1. DOMAIN map = Named(entries) /\ \A n \in Named(entries) : map[n] = LastOf(entries, n)
      <4> HIDE DEF entries
      <4> QED BY <2>3, ArgMapLast
    <3>2. \A n : LastOf(entries, n).pos = PositionOf(entries, n)
      BY DEF LastOf
    <3> HIDE DEF map, entries
    <3> QED BY <2>5, <3>1, <3>2 DEF SamePosition
  <2> HIDE DEF entries
  <2>6. ~fails => /\ \A i, j \in DOMAIN argv' : i < j => argv'[i].pos <= argv'[j].pos
                  /\ ToSet(argv') = {LastOf(entries, n) : n \in Named(entries)}
    BY <2>3, <2>4, NormaliseRight
  <2>7. fails => DOMAIN argv' = {}
    BY <2>4
  <2>8. ArgumentsRight'
    <3> HIDE DEF map
    <3>1. CASE fails
      BY <2>1, <2>4, <2>5, <2>7, <3>1 DEF ArgumentsRight, entries
    <3>2. CASE ~fails
      BY <2>1, <2>4, <2>6, <3>2 DEF ArgumentsRight, entries
    <3> QED BY <3>1, <3>2
  <2>9. ArgsKnown'
    BY <2>1, <2>4
  <2> QED BY <2>8, <2>9
<1>4. CASE ContainerArguments
  <2>1. /\ args' \in Inputs /\ args'.session = <<>> /\ argv' = RenderArgs(args'.defaults)
        /\ launcher' = "docker" /\ pc' = "started"
    BY <1>4 DEF ContainerArguments
  <2>2. args'.defaults \in Seq(Arg)
    BY <1>1, <1>2, <2>1 DEF Inputs
  <2>3. \A i, j \in DOMAIN argv' : i < j => argv'[i].pos <= argv'[j].pos
    <3> DEFINE sorted == SortedStable(args'.defaults)
    <3>1. \A i, j \in DOMAIN sorted : i < j => sorted[i].pos <= sorted[j].pos
      BY <2>2, SortedStableOrdered
    <3>2. DOMAIN argv' = DOMAIN sorted /\ \A k \in DOMAIN argv' : argv'[k].pos = sorted[k].pos
      BY <2>1, <2>2, RenderArgsIs
    <3> HIDE DEF sorted
    <3> QED BY <3>1, <3>2
  <2>4. ASSUME ~DuplicateDefault(args'.defaults)
        PROVE  LET ofProcess == Normalise(ArgMap(args'.defaults))
               IN  /\ DOMAIN argv' = DOMAIN ofProcess
                   /\ \A k \in DOMAIN argv' :
                         /\ argv'[k].pos = ofProcess[k].pos /\ argv'[k].val = ofProcess[k].val
                         /\ argv'[k].name = IF ofProcess[k].name = NoName THEN Omitted
                                            ELSE ofProcess[k].name
    <3>1. SortedStable(args'.defaults) = Normalise(ArgMap(args'.defaults))
      BY <2>2, <2>4, LaunchersAgree
    <3> QED BY <2>1, <2>2, <3>1, RenderArgsIs
  <2> QED BY <2>1, <2>3, <2>4 DEF ArgumentsRight
<1>5. CASE StartCredServer
  BY <1>5 DEF StartCredServer, ArgumentsRight
\* The other steps are taken before there are arguments or after they are forgotten.
<1>6. ASSUME UNCHANGED args, args = None PROVE ArgsKnown' /\ ArgumentsRight'
  BY <1>6 DEF ArgumentsRight
<1>7. CASE GetGame \/ StartSession \/ InitProcess \/ ProcessEnvironment \/ ContainerEnvironment
           \/ WriteEnvFile \/ TemplateFails
  <2>1. pc \notin {"server", "argumentsFailed", "started"} /\ args' = args
    BY <1>7 DEF GetGame, StartSession, InitProcess, ProcessEnvironment, ContainerEnvironment,
                WriteEnvFile, TemplateFails
  <2>2. args = None
    BY <2>1
  <2> QED BY <1>6, <2>1, <2>2
<1>8. CASE UNCHANGED vars
  BY <1>8 DEF vars, ArgumentsRight
<1> QED BY <1>3, <1>4, <1>5, <1>7, <1>8 DEF Next

\* The arguments of the game are of each name the last entry, at the last position given
\* for it, in order, and the launchers refuse and agree as ArgumentsRight says, for lists
\* of any length (args.Normalise, and renderArgs of the docker launcher).
THEOREM ArgumentsSound == Spec => []ArgumentsRight
<1>1. Init => ArgsKnown /\ ArgumentsRight
  BY DEF Init, ArgsKnown, ArgumentsRight
<1> QED BY <1>1, InitLaunchInv, NextLaunchInv, NextArgumentsRight, PTL DEF Spec

-----------------------------------------------------------------------------
(* The path of the executable.                                              *)

\* A bounded set of numbers has a greatest member.
LEMMA LatestOf ==
    ASSUME NEW b \in Nat, NEW K, K \subseteq 0..b, K # {}
    PROVE  Latest(K) \in K /\ \A l \in K : l <= Latest(K)
<1> DEFINE T == {b - k : k \in K}
<1>1. T \subseteq Nat /\ T # {}
  <2>1. PICK k : k \in K
    OBVIOUS
  <2>2. b - k \in T
    BY <2>1
  <2>3. \A l \in K : l \in 0..b /\ b - l \in Nat
    OBVIOUS
  <2> QED BY <2>2, <2>3
<1>2. PICK t \in T : \A u \in T : t <= u
  <2> HIDE DEF T
  <2> QED BY <1>1, LeastMember
<1>3. PICK k \in K : t = b - k
  OBVIOUS
<1>4. \A l \in K : l <= k
  <2> SUFFICES ASSUME NEW l \in K PROVE l <= k
    OBVIOUS
  <2>1. b - l \in T
    OBVIOUS
  <2>2. b - k <= b - l
    BY <1>2, <1>3, <2>1
  <2> QED BY <2>2
<1> QED BY <1>4 DEF Latest

\* What the loop over the parts of a path arrives at.
LEMMA ResolveIs ==
    ASSUME NEW from, NEW parts, Len(parts) \in Nat, NEW g, g[0] = from,
           \A k \in 1..Len(parts) : g[k] = Enter(g[k - 1], parts[k])
    PROVE  Resolve(from, parts) = g[Len(parts)]
<1> DEFINE L == Len(parts)
           Rec(f) == f = [k \in 0..L |-> IF k = 0 THEN from ELSE Enter(f[k - 1], parts[k])]
           at == CHOOSE f : Rec(f)
           S == {k \in Nat : k <= L => at[k] = g[k]}
<1>1. Rec(at)
  <2> DEFINE f == [k \in 0..L |-> g[k]]
  <2>1. ASSUME NEW k \in 0..L PROVE f[k] = IF k = 0 THEN from ELSE Enter(f[k - 1], parts[k])
    <3>1. CASE k = 0
      BY <3>1
    <3>2. CASE k # 0
      <4>1. k \in 1..L /\ k - 1 \in 0..L
        BY <3>2
      <4> QED BY <3>2, <4>1
    <3> QED BY <3>1, <3>2
  <2>2. Rec(f)
    BY <2>1
  <2> HIDE DEF f
  <2>3. \E h : Rec(h)
    BY <2>2
  <2> HIDE DEF Rec
  <2> QED BY <2>3
<1>2. Resolve(from, parts) = at[L]
  BY DEF Resolve
<1> HIDE DEF at
<1>3. 0 \in S
  BY <1>1
<1>4. ASSUME NEW k \in Nat, k \in S PROVE k + 1 \in S
  <2> SUFFICES ASSUME k + 1 <= L PROVE at[k + 1] = g[k + 1]
    OBVIOUS
  <2>1. k + 1 \in 1..L /\ k + 1 \in 0..L /\ (k + 1) - 1 = k /\ k + 1 # 0
    OBVIOUS
  <2>2. at[k + 1] = Enter(at[(k + 1) - 1], parts[k + 1])
    <3> HIDE DEF L
    <3> QED BY <1>1, <2>1
  <2>3. at[k] = g[k]
    BY <1>4
  <2> QED BY <2>1, <2>2, <2>3
<1>5. L \in S
  <2> HIDE DEF S
  <2> QED BY <1>3, <1>4, SetInduction
<1> QED BY <1>2, <1>5

\* The parts of a path.  The provers do not know of a string that it is one.
Part == STRING \union {"..", "", "game"}

LEMMA SubSeqSteps ==
    ASSUME NEW s \in Seq(Part)
    PROVE  /\ \A n \in 1..Len(s) : Front(SubSeq(s, 1, n)) = SubSeq(s, 1, n - 1)
           /\ \A n \in 1..Len(s) : Append(SubSeq(s, 1, n - 1), s[n]) = SubSeq(s, 1, n)
           /\ SubSeq(s, 1, 0) = <<>> /\ SubSeq(s, 1, Len(s)) = s
<1>1. ASSUME NEW n \in 1..Len(s) PROVE Front(SubSeq(s, 1, n)) = SubSeq(s, 1, n - 1)
  BY DEF Front
<1>2. ASSUME NEW n \in 1..Len(s) PROVE Append(SubSeq(s, 1, n - 1), s[n]) = SubSeq(s, 1, n)
  OBVIOUS
<1>3. SubSeq(s, 1, 0) = <<>> /\ SubSeq(s, 1, Len(s)) = s
  BY SubSeqEmpty, SubSeqFull
<1> QED BY <1>1, <1>2, <1>3

\* A name of a cleaned path is entered.
Names(s) == s \in Seq(Part) /\ \A i \in 1..Len(s) : s[i] # ".."

\* An absolute path is resolved to itself.
LEMMA ResolvePlain ==
    ASSUME NEW parts, Names(parts)
    PROVE  Resolve(<<>>, parts) = parts
<1> DEFINE L == Len(parts)
           g == [k \in 0..L |-> SubSeq(parts, 1, k)]
<1>1. parts \in Seq(Part) /\ L \in Nat
  BY DEF Names
<1>2. g[0] = <<>> /\ g[L] = parts
  <2>1. g[0] = SubSeq(parts, 1, 0) /\ g[L] = SubSeq(parts, 1, L)
    BY <1>1
  <2> QED BY <1>1, <2>1, SubSeqSteps
<1>3. ASSUME NEW k \in 1..L PROVE g[k] = Enter(g[k - 1], parts[k])
  <2>1. g[k] = SubSeq(parts, 1, k) /\ g[k - 1] = SubSeq(parts, 1, k - 1)
    BY <1>1
  <2>2. Enter(g[k - 1], parts[k]) = Append(g[k - 1], parts[k])
    BY DEF Enter, Names
  <2>3. Append(SubSeq(parts, 1, k - 1), parts[k]) = SubSeq(parts, 1, k)
    BY <1>1, SubSeqSteps
  <2> QED BY <2>1, <2>2, <2>3
<1> HIDE DEF g
<1>4. Resolve(<<>>, parts) = g[L]
  BY <1>1, <1>2, <1>3, ResolveIs
<1> QED BY <1>2, <1>4

\* The parts of a relative path: up to what is common, and down.
Leads(parts, base, target, k) ==
    LET up == Len(base) - k
    IN  /\ k \in Common(base, target) /\ \A l \in Common(base, target) : l <= k
        /\ Len(parts) = up + (Len(target) - k)
        /\ \A i \in 1..up : parts[i] = ".."
        /\ \A i \in 1..(Len(target) - k) : parts[up + i] = target[k + i]

LEMMA RelParts ==
    ASSUME NEW base, NEW target, Names(base), Names(target)
    PROVE  /\ Leads(Rel(base, target).parts, base, target, Latest(Common(base, target)))
           /\ Rel(base, target).abs = FALSE
<1> DEFINE K == Common(base, target)
           k == Latest(K)
           up == Len(base) - k
           ups == [i \in 1..up |-> ".."]
           down == SubSeq(target, k + 1, Len(target))
<1>1. base \in Seq(Part) /\ target \in Seq(Part) /\ Len(base) \in Nat /\ Len(target) \in Nat
  BY DEF Names
<1>2. k \in K /\ \A l \in K : l <= k
  <2>1. K \subseteq 0..Len(base) /\ 0 \in K
    BY <1>1 DEF Common
  <2> HIDE DEF K
  <2> QED BY <1>1, <2>1, LatestOf
<1>3. k \in 0..Len(base) /\ k <= Len(target)
  BY <1>2 DEF Common
<1>4. Rel(base, target).abs = FALSE /\ Rel(base, target).parts = ups \o down
  BY DEF Rel, Relative
<1> HIDE DEF K, k
<1>5. ups \in Seq(Part) /\ Len(ups) = up /\ \A i \in 1..up : ups[i] = ".."
  <2>1. up \in Nat
    BY <1>1, <1>3
  <2> HIDE DEF up
  <2>2. ups \in [1..up -> Part]
    <3>1. ".." \in Part
      BY DEF Part
    <3> QED BY <3>1
  <2>3. \A i \in 1..up : ups[i] = ".."
    OBVIOUS
  <2> HIDE DEF ups
  <2> QED BY <2>1, <2>2, <2>3
<1>6. /\ down \in Seq(Part) /\ Len(down) = Len(target) - k
      /\ \A i \in 1..(Len(target) - k) : down[i] = target[k + i]
  BY <1>1, <1>3
<1> HIDE DEF ups, down
<1>7. /\ Len(ups \o down) = up + (Len(target) - k)
      /\ \A i \in 1..up : (ups \o down)[i] = ".."
      /\ \A i \in 1..(Len(target) - k) : (ups \o down)[up + i] = target[k + i]
  <2>1. up \in Nat /\ Len(target) - k \in Nat
    BY <1>1, <1>3
  <2> DEFINE n == Len(target) - k
  <2> HIDE DEF up, n
  <2> DEFINE p == ups \o down
  <2>2. Len(ups) = up /\ Len(down) = n
    BY <1>5, <1>6 DEF n
  <2>6. ups \in Seq(Part) /\ down \in Seq(Part)
    BY <1>5, <1>6
  <2>7. /\ Len(ups \o down) = Len(ups) + Len(down)
        /\ \A i \in 1..(Len(ups) + Len(down)) :
               (ups \o down)[i] = IF i <= Len(ups) THEN ups[i] ELSE down[i - Len(ups)]
    BY ONLY <2>6, ConcatProperties
  <2>3. /\ Len(p) = up + n
        /\ \A i \in 1..(up + n) : p[i] = IF i <= up THEN ups[i] ELSE down[i - up]
    BY <2>2, <2>7
  <2> HIDE DEF p
  <2>4. \A i \in 1..up : p[i] = ".."
    BY <1>5, <2>1, <2>3 DEF n
  <2>5. \A i \in 1..n : p[up + i] = down[i]
    BY <2>1, <2>3 DEF n
  <2> QED BY <1>6, <2>3, <2>4, <2>5 DEF n, p
<1> QED BY <1>2, <1>4, <1>7 DEF k, K, Leads

\* A relative path leads from its base to its target.
LEMMA RelLeads ==
    ASSUME NEW base, NEW target, Names(base), Names(target)
    PROVE  Resolve(base, Rel(base, target).parts) = target
<1> DEFINE k == Latest(Common(base, target))
           parts == Rel(base, target).parts
           up == Len(base) - k
           L == up + (Len(target) - k)
<1>1. base \in Seq(Part) /\ target \in Seq(Part) /\ Len(base) \in Nat /\ Len(target) \in Nat
  BY DEF Names
<1>2. /\ k \in Common(base, target) /\ Len(parts) = L
      /\ \A i \in 1..up : parts[i] = ".."
      /\ \A i \in 1..(Len(target) - k) : parts[up + i] = target[k + i]
  <2>1. Leads(parts, base, target, k)
    BY RelParts
  <2> HIDE DEF parts, k
  <2> QED BY <2>1 DEF Leads
<1>3. k \in 0..Len(base) /\ k <= Len(target) /\ \A i \in 1..k : base[i] = target[i]
  BY <1>2 DEF Common
<1> HIDE DEF k, parts
<1> DEFINE g == [i \in 0..L |-> IF i <= up THEN SubSeq(base, 1, Len(base) - i)
                                           ELSE SubSeq(target, 1, k + (i - up))]
<1>4. up \in Nat /\ L \in Nat
  BY <1>1, <1>3
\* Where the two meet they are the same.
<1>5. SubSeq(base, 1, k) = SubSeq(target, 1, k)
  BY <1>1, <1>3
<1>6. g[0] = base
  <2>1. g[0] = SubSeq(base, 1, Len(base))
    BY <1>1, <1>4
  <2> QED BY <1>1, <2>1, SubSeqSteps
<1>7. g[L] = target
  <2>1. g[L] = SubSeq(target, 1, Len(target))
    <3>1. CASE L <= up
      <4>1. Len(target) = k /\ L = up /\ Len(base) - up = k
        BY <1>1, <1>3, <3>1
      <4>2. g[L] = SubSeq(base, 1, Len(base) - up)
        <5>1. L \in 0..L
          BY <1>4
        <5>2. g[L] = SubSeq(base, 1, Len(base) - L)
          BY <3>1, <5>1
        <5> QED BY <4>1, <5>2
      <4> QED BY <1>5, <4>1, <4>2
    <3>2. CASE ~(L <= up)
      <4>1. k + (L - up) = Len(target)
        BY <1>1, <1>3
      <4> QED BY <1>4, <3>2, <4>1
    <3> QED BY <3>1, <3>2
  <2> QED BY <1>1, <2>1, SubSeqSteps
<1>8. ASSUME NEW i \in 1..L PROVE g[i] = Enter(g[i - 1], parts[i])
  <2>1. CASE i <= up
    <3>1. g[i] = SubSeq(base, 1, Len(base) - i) /\ g[i - 1] = SubSeq(base, 1, Len(base) - (i - 1))
      BY <1>1, <1>4, <2>1
    <3>2. Enter(g[i - 1], parts[i]) = Front(g[i - 1])
      BY <1>2, <2>1 DEF Enter
    <3>3. Len(base) - (i - 1) \in 1..Len(base) /\ (Len(base) - (i - 1)) - 1 = Len(base) - i
      BY <1>1, <1>3, <2>1
    <3> HIDE DEF g
    <3>4. Front(SubSeq(base, 1, Len(base) - (i - 1))) = SubSeq(base, 1, Len(base) - i)
      BY <1>1, <3>3, SubSeqSteps
    <3> QED BY <3>1, <3>2, <3>4
  <2>2. CASE up < i
    <3> DEFINE j == i - up
    <3>1. j \in 1..(Len(target) - k) /\ i = up + j
      BY <1>1, <1>3, <1>4, <2>2
    <3>2. g[i] = SubSeq(target, 1, k + j)
      <4>1. i \in 0..L /\ ~(i <= up)
        BY <1>4, <2>2
      <4> QED BY <4>1
    <3>3. g[i - 1] = SubSeq(target, 1, (k + j) - 1)
      <4>1. CASE j = 1
        <5>1. i - 1 \in 0..L /\ i - 1 <= up /\ Len(base) - (i - 1) = k /\ (k + j) - 1 = k
          BY <1>1, <1>3, <1>4, <4>1
        <5>2. g[i - 1] = SubSeq(base, 1, Len(base) - (i - 1))
          BY <5>1
        <5> HIDE DEF g
        <5> QED BY <1>5, <5>1, <5>2
      <4>2. CASE j # 1
        <5>1. i - 1 \in 0..L /\ ~(i - 1 <= up) /\ k + ((i - 1) - up) = (k + j) - 1
          BY <1>1, <1>3, <1>4, <3>1, <4>2
        <5>2. g[i - 1] = SubSeq(target, 1, k + ((i - 1) - up))
          BY <5>1
        <5> HIDE DEF g
        <5> QED BY <5>1, <5>2
      <4> QED BY <4>1, <4>2
    <3> HIDE DEF g, j
    <3>4. parts[i] = target[k + j] /\ k + j \in 1..Len(target)
      <4>1. parts[up + j] = target[k + j]
        BY <1>2, <3>1
      <4>2. k + j \in 1..Len(target)
        BY <1>1, <1>3, <3>1
      <4> QED BY <3>1, <4>1, <4>2
    <3>5. Enter(g[i - 1], parts[i]) = Append(g[i - 1], target[k + j])
      BY <3>4 DEF Enter, Names
    <3>6. Append(SubSeq(target, 1, (k + j) - 1), target[k + j]) = SubSeq(target, 1, k + j)
      BY <1>1, <3>4, SubSeqSteps
    <3> QED BY <3>2, <3>3, <3>5, <3>6
  <2> QED BY <1>4, <2>1, <2>2
<1> HIDE DEF g, L
<1>9. Resolve(base, parts) = g[Len(parts)]
  BY <1>2, <1>4, <1>6, <1>8, ResolveIs
<1> QED BY <1>2, <1>7, <1>9 DEF parts


\* What the operator's settings can be resolved by: no part of them is "..".
LEMMA NamesGiven ==
    /\ \A d \in Directories : Names(d) /\ d # Unset
    /\ \A e \in Programs : Names(e) /\ e # Unset
<1>1. ASSUME NEW d \in Directories PROVE Names(d) /\ \A i \in 1..Len(d) : d[i] # ""
  <2>1. d \in Seq(STRING) /\ ToSet(d) \intersect {"..", ""} = {}
    BY PathAssumption
  <2>2. d \in Seq(Part)
    <3>1. STRING \subseteq Part
      BY DEF Part
    <3> QED BY <2>1, <3>1, SeqMonotonic
  <2>3. \A i \in 1..Len(d) : d[i] \in ToSet(d)
    <3>1. DOMAIN d = 1..Len(d)
      BY <2>1, LenProperties
    <3> QED BY <3>1, Zenon DEF ToSet
  <2> QED BY <2>1, <2>2, <2>3 DEF Names
<1>2. ASSUME NEW d \in Directories PROVE d # Unset
  <2>1. Len(Unset) = 1 /\ Unset[1] = ""
    BY DEF Unset
  <2>2. \A i \in 1..Len(d) : d[i] # ""
    BY <1>1
  <2>3. 1 \in 1..1
    OBVIOUS
  <2> QED BY <2>1, <2>2, <2>3, Zenon
<1>3. ASSUME NEW d \in Directories PROVE Names(Append(d, "game")) /\ Append(d, "game") # Unset
  <2>1. d \in Seq(Part) /\ "game" \in Part
    BY <1>1 DEF Names, Part
  <2>2. /\ Append(d, "game") \in Seq(Part) /\ Len(Append(d, "game")) = Len(d) + 1
        /\ \A i \in 1..Len(d) : Append(d, "game")[i] = d[i]
        /\ Append(d, "game")[Len(d) + 1] = "game"
    BY <2>1, AppendProperties
  <2>3. Names(Append(d, "game"))
    <3>1. \A i \in 1..(Len(d) + 1) : i \in 1..Len(d) \/ i = Len(d) + 1
      BY <2>1
    <3> QED BY <1>1, <2>2, <3>1 DEF Names
  <2>4. Append(d, "game") # Unset
    <3>1. Unset = <<"">> /\ Unset[1] = "" /\ Len(Unset) = 1
      BY DEF Unset
    <3> SUFFICES ASSUME Append(d, "game") = Unset PROVE FALSE
      OBVIOUS
    <3>2. Len(d) = 0
      BY <2>1, <2>2, <3>1
    <3> QED BY <2>2, <3>1, <3>2
  <2> QED BY <2>3, <2>4
<1> QED BY <1>1, <1>2, <1>3 DEF Programs

Target(exe) == IF exe = Unset THEN Home ELSE exe

\* A program of the wrapper's own directory is the only one that no separator leads to.
LEMMA RelShort ==
    ASSUME NEW exe \in Programs \union {Unset}
    PROVE  HasSeparator(Rel(Home, Target(exe))) <=> exe \notin {Unset, Append(Home, "game")}
<1> DEFINE target == Target(exe)
           k == Latest(Common(Home, target))
           parts == Rel(Home, target).parts
<1>1. Names(Home) /\ Names(target)
  BY NamesGiven, PathAssumption DEF Target
<1>2. Home \in Seq(Part) /\ target \in Seq(Part) /\ Len(Home) \in Nat /\ Len(target) \in Nat
  BY <1>1 DEF Names
<1>3. Leads(parts, Home, target, k) /\ Rel(Home, target).abs = FALSE
  BY <1>1, RelParts
<1>4. HasSeparator(Rel(Home, target)) <=> Len(parts) > 1
  BY <1>3 DEF HasSeparator
<1> HIDE DEF k, parts
<1>5. /\ Len(parts) = (Len(Home) - k) + (Len(target) - k)
      /\ k \in 0..Len(Home) /\ k <= Len(target) /\ \A i \in 1..k : Home[i] = target[i]
      /\ \A l \in Common(Home, target) : l <= k
  BY <1>3 DEF Leads, Common
<1>6. CASE exe = Unset
  <2>1. target = Home
    BY <1>6 DEF Target
  <2>2. Len(Home) \in Common(Home, target)
    BY <1>2, <2>1 DEF Common
  <2>3. k = Len(Home)
    BY <1>2, <1>5, <2>2
  <2> QED BY <1>2, <1>4, <1>5, <1>6, <2>1, <2>3
<1>7. CASE exe # Unset
  <2>1. PICK e \in Directories : exe = Append(e, "game")
    BY <1>7 DEF Programs
  <2>2. target = Append(e, "game")
    BY <1>7, <2>1 DEF Target
  <2>3. e \in Seq(Part) /\ Len(e) \in Nat /\ "game" \in Part
    <3>1. Names(e)
      BY NamesGiven
    <3>2. e \in Seq(Part)
      BY <3>1 DEF Names
    <3> QED BY <3>2, LenProperties DEF Part
  <2>4. Len(target) = Len(e) + 1 /\ \A i \in 1..Len(e) : target[i] = e[i]
    BY <2>2, <2>3, AppendProperties
  \* The wrapper does not run in a directory under the program.
  <2>5. k <= Len(e)
    <3> SUFFICES ASSUME k = Len(e) + 1 PROVE FALSE
      BY <1>2, <1>5, <2>3, <2>4
    <3>1. Len(target) <= Len(Home) /\ \A i \in 1..Len(target) : target[i] = Home[i]
      BY <1>2, <1>5, <2>4
    <3>2. SubSeq(target, 1, Len(target)) = SubSeq(Home, 1, Len(target))
      BY <1>2, <3>1
    <3>3. IsPrefix(target, Home)
      BY <3>1, <3>2 DEF IsPrefix
    <3> QED BY <2>2, <3>3, PathAssumption
  <2>6. ASSUME Len(parts) <= 1 PROVE exe = Append(Home, "game")
    <3>1. k = Len(Home) /\ k = Len(e)
      BY <1>2, <1>5, <2>3, <2>4, <2>5, <2>6
    <3>2. \A i \in 1..Len(e) : Home[i] = e[i]
      BY <1>5, <2>4, <3>1
    <3>3. Home = e
      BY <1>2, <2>3, <3>1, <3>2, SeqEqual
    <3> QED BY <2>1, <3>3
  <2>7. ASSUME exe = Append(Home, "game") PROVE Len(parts) = 1
    <3>1. target = Append(Home, "game")
      BY <1>7, <2>7 DEF Target
    <3>2. Len(target) = Len(Home) + 1 /\ \A i \in 1..Len(Home) : target[i] = Home[i]
      BY <1>2, <2>3, <3>1, AppendProperties
    <3>3. Len(Home) \in Common(Home, target)
      BY <1>2, <3>2 DEF Common
    <3>4. k = Len(Home)
      BY <1>2, <1>5, <3>3
    <3> QED BY <1>2, <1>5, <3>2, <3>4
  <2>8. Len(parts) \in Int
    BY <1>2, <1>5
  <2>9. Len(parts) > 1 <=> exe # Append(Home, "game")
    <3>1. Len(parts) > 1 \/ Len(parts) <= 1
      BY <2>8
    <3>2. Len(parts) = 1 => ~(Len(parts) > 1)
      OBVIOUS
    <3> QED BY <2>6, <2>7, <3>1, <3>2
  <2> QED BY <1>4, <1>7, <2>9
<1> QED BY <1>6, <1>7

\* The path that is made of the settings names what the operator gave.
LEMMA ExePathRight ==
    ASSUME NEW b, NEW dir \in Directories \union {Unset}, NEW exe \in Programs \union {Unset},
           b.dir = WorkingDir(dir), b.rel = RelativeExePath(dir, exe)
    PROVE  /\ Place(ExePath(b)) = Target(exe)
           /\ HasSeparator(ExePath(b)) <=>
                  ~(dir = Unset /\ exe \in {Unset, Append(Home, "game")})
<1>1. Names(Home) /\ Names(Target(exe))
  BY NamesGiven, PathAssumption DEF Target
<1>2. CASE dir = Unset
  <2>1. b.dir.abs = FALSE /\ b.dir.parts = <<>>
    BY <1>2 DEF WorkingDir, Relative
  <2>2. Resolve(Home, <<>>) = Home
    <3> DEFINE g == [i \in 0..0 |-> Home]
    <3>1. Len(<<>>) = 0 /\ g[0] = Home /\ \A i \in 1..0 : g[i] = Enter(g[i - 1], <<>>[i])
      OBVIOUS
    <3> HIDE DEF g
    <3>2. Resolve(Home, <<>>) = g[Len(<<>>)]
      BY <3>1, ResolveIs
    <3> QED BY <3>1, <3>2
  <2>3. Place(WorkingDir(dir)) = Home
    BY <1>2, <2>1, <2>2 DEF Place, WorkingDir, Relative
  <2>4. ExePath(b) = Rel(Home, Target(exe))
    BY <2>1, <2>3 DEF ExePath, Join, RelativeExePath, Target
  <2>5. Place(ExePath(b)) = Resolve(Home, Rel(Home, Target(exe)).parts)
    BY <1>1, <2>4, RelParts DEF Place
  <2> QED BY <1>1, <1>2, <2>4, <2>5, RelLeads, RelShort
<1>3. CASE dir # Unset
  <2>1. dir \in Directories /\ Names(dir)
    BY <1>3, NamesGiven
  <2>2. b.dir = Absolute(dir) /\ WorkingDir(dir) = Absolute(dir)
    BY <1>3 DEF WorkingDir
  <2>3. Place(WorkingDir(dir)) = dir
    BY <2>1, <2>2, ResolvePlain DEF Place, Absolute
  <2>4. b.rel = Rel(dir, Target(exe))
    BY <2>3 DEF RelativeExePath, Target
  <2>5. ExePath(b) = Absolute(Target(exe))
    <3>1. ExePath(b) = Absolute(Resolve(dir, Rel(dir, Target(exe)).parts))
      BY <2>2, <2>4 DEF ExePath, Join, Absolute
    <3> QED BY <1>1, <2>1, <3>1, RelLeads
  <2>6. Place(ExePath(b)) = Target(exe)
    BY <1>1, <2>5, ResolvePlain DEF Place, Absolute
  <2>7. HasSeparator(ExePath(b))
    BY <2>5 DEF HasSeparator, Absolute
  <2> QED BY <1>3, <2>6, <2>7
<1> QED BY <1>2, <1>3

\* The paths of the executable stay those made of the settings.
BuildKept ==
    pc \in {"configured", "ready", "init"} =>
        /\ build.given.dir \in Directories \union {Unset}
        /\ build.given.exe \in Programs \union {Unset}
        /\ build.dir = WorkingDir(build.given.dir)
        /\ build.rel = RelativeExePath(build.given.dir, build.given.exe)

BuildInv == LauncherSteps /\ BuildKept

LEMMA InitBuildInv == Init => BuildInv
<1> SUFFICES ASSUME Init PROVE BuildInv
  OBVIOUS
<1>1. PICK dir \in Directories \union {Unset}, exe \in Programs \union {Unset}, found \in Found :
          build = [dir |-> WorkingDir(dir), rel |-> RelativeExePath(dir, exe),
                   given |-> [dir |-> dir, exe |-> exe], found |-> found]
  BY DEF Init
<1>2. /\ build.given.dir = dir /\ build.given.exe = exe
      /\ build.dir = WorkingDir(dir) /\ build.rel = RelativeExePath(dir, exe)
  BY <1>1
<1>3. BuildKept
  BY <1>2 DEF BuildKept
<1> QED BY <1>3 DEF Init, BuildInv, LauncherSteps

LEMMA NextBuildInv == BuildInv /\ [Next]_vars => BuildKept'
<1> SUFFICES ASSUME BuildInv, [Next]_vars PROVE BuildKept'
  OBVIOUS
<1> USE DEF BuildInv
<1>1. CASE UNCHANGED vars
  BY <1>1 DEF vars, BuildKept
<1>2. CASE GetGame
  BY <1>2 DEF GetGame, BuildKept
<1>3. CASE StartSession
  <2>1. CASE launcher = "docker"
    BY <1>3, <2>1 DEF StartSession, BuildKept
  <2>2. CASE launcher # "docker"
    <3>1. pc = "ready" /\ pc' = "init" /\ build' = build
      BY <1>3, <2>2 DEF StartSession
    <3> QED BY <3>1 DEF BuildKept
  <2> QED BY <2>1, <2>2
<1>4. CASE InitProcess
  <2>1. pc' \in {"arguments", "noOperand", "initFailed"}
    BY <1>4 DEF InitProcess
  <2> QED BY <2>1 DEF BuildKept
<1>5. CASE ProcessArguments
  BY <1>5 DEF ProcessArguments, BuildKept
<1>6. CASE StartCredServer
  BY <1>6 DEF StartCredServer, BuildKept
<1>7. CASE ContainerArguments
  BY <1>7 DEF ContainerArguments, BuildKept
<1>8. CASE ProcessEnvironment
  <2>1. pc' \in {"started", "startFailed"}
    BY <1>8 DEF ProcessEnvironment
  <2> QED BY <2>1 DEF BuildKept
<1>9. CASE ContainerEnvironment
  BY <1>9 DEF ContainerEnvironment, BuildKept
<1>10. CASE WriteEnvFile
  BY <1>10 DEF WriteEnvFile, BuildKept
<1>11. CASE TemplateFails
  BY <1>11 DEF TemplateFails, BuildKept
<1> QED BY <1>1, <1>2, <1>3, <1>4, <1>5, <1>6, <1>7, <1>8, <1>9, <1>10, <1>11 DEF Next

\* The executable that a session goes on with is the one that the operator gave and the start of
\* the wrapper found, for any directories that it and the wrapper lie in; the chmod lacks its
\* operand only for one in the wrapper's own directory, and always there.
THEOREM ExecutableRight == Spec => CheckedIsStarted
<1> DEFINE Exe == build.given.exe
           OwnDirectory == build.given.dir = Unset /\ Exe \in {Unset, Append(Home, "game")}
           Right == pc = "init" =>
                        /\ OwnDirectory => pc' # "arguments"
                        /\ pc' = "noOperand" => OwnDirectory
                        /\ pc' = "arguments" /\ Exe # Unset =>
                               /\ Place(ExePath(build)) = Exe /\ build.found # "missing"
                               /\ build'.program <=> build.found = "file"
<1>1. BuildInv /\ [Next]_vars => [Right]_vars
  <2> SUFFICES ASSUME BuildInv, Next, pc = "init" PROVE Right
    OBVIOUS
  <2>1. InitProcess
    BY DEF Next, GetGame, StartSession, ProcessArguments, StartCredServer,
           ContainerArguments, ProcessEnvironment, ContainerEnvironment, WriteEnvFile,
           TemplateFails
  <2>2. /\ build.given.dir \in Directories \union {Unset} /\ Exe \in Programs \union {Unset}
        /\ Place(ExePath(build)) = Target(Exe)
        /\ HasSeparator(ExePath(build)) <=> ~OwnDirectory
    BY ExePathRight DEF BuildInv, BuildKept
  <2>3. CASE pc' = "initFailed"
    BY <2>3
  <2>4. CASE pc' # "initFailed"
    <3> DEFINE found == Stat(Place(ExePath(build)))
    <3>1. /\ found \in {"file", "directory"}
          /\ pc' = IF HasSeparator(ExePath(build)) THEN "arguments" ELSE "noOperand"
          /\ build' = [program |-> found = "file"]
      BY <2>1, <2>4 DEF InitProcess
    <3>2. build'.program <=> found = "file"
      BY <3>1, Zenon
    <3>3. Exe # Unset => Place(ExePath(build)) = Exe /\ found = build.found
      BY <2>2 DEF Target, Stat
    <3> HIDE DEF found
    <3> QED BY <2>2, <3>1, <3>2, <3>3
  <2> QED BY <2>3, <2>4
<1>2. BuildInv /\ [Next]_vars => BuildInv'
  <2>1. LauncherSteps /\ [Next]_vars => LauncherSteps'
    <3> SUFFICES ASSUME LauncherSteps, [Next]_vars PROVE LauncherSteps'
      OBVIOUS
    <3> QED BY DEF LauncherSteps, Next, vars, GetGame, StartSession, InitProcess,
                   ProcessArguments, StartCredServer, ContainerArguments,
                   ProcessEnvironment, ContainerEnvironment, WriteEnvFile, TemplateFails
  <2> QED BY <2>1, NextBuildInv DEF BuildInv
<1>3. Spec => [][Right]_vars
  BY <1>1, <1>2, InitBuildInv, PTL DEF Spec
<1> QED BY <1>3 DEF CheckedIsStarted

=============================================================================
