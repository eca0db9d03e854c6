-------------------------- MODULE SessionTags_proofs --------------------------
(***************************************************************************)
(* Theorems about SessionTags, for any number of wrappers that share the   *)
(* files and may be killed at any point: when the operator's settings can  *)
(* be lost, and when an agent may run with another file than the one on    *)
(* disk.                                                                   *)
(***************************************************************************)
EXTENDS SessionTags, TLAPS

\* Types, as far as the proofs need them.
TypeInv ==
    /\ file = [f \in Enabled |-> file[f]] /\ agent = [f \in Enabled |-> agent[f]]
    /\ pc \in [Session -> {"idle", "check", "read", "truncate", "write", "reload", "handed", "dead"}]
    /\ at \in [Session -> 1..Len(Files)]
    /\ config = [s \in Session |-> config[s]]
    /\ writer = [f \in Enabled |-> writer[f]]

\* Session s is at one of these places with this file.
On(s, f, places) == pc[s] \in places /\ FileOf(s) = f

\* A file is there from the first check of a session on, and what is written is text.
ThereInv ==
    /\ \A f \in Enabled :
          /\ f \in restarting => file[f].state # "absent"
          /\ \A s \in Session :
                On(s, f, {"read", "truncate", "write", "reload"}) => file[f].state # "absent"
    /\ \A f \in Present : file[f].state # "absent"
    /\ \A s \in Session : config[s].state = "text"

\* As long as a file is not torn, its settings are in the file or with the one session that has
\* truncated it, and every session that will write it has read them.
SettingsInv ==
    \A f \in Present \ torn :
        /\ file[f].own \/ \E s \in Session : On(s, f, {"write"})
        /\ \A s \in Session :
              /\ On(s, f, {"truncate", "write"}) => config[s].own
              /\ On(s, f, {"write"}) =>
                    /\ file[f].state = "empty"
                    /\ \A o \in Session : On(o, f, {"write"}) => o = s

\* The tags of a config that session s made, or that it makes for file f.
Sound(f, s, c) ==
    /\ \A e \in BagToSet(c.tags) : e.tag \in Tag => e.of = s /\ c.tags[e] = 1
    /\ f = "otelcol" /\ c.own => c.piped = IF c.hasList THEN 1 ELSE 0

\* The processor is in the list of the pipeline once at most, and only if there is a list.
PipeOK(c) == c.piped \in {0, 1} /\ (~c.hasList => c.piped = 0)

\* What a session is about to write names no other session, whatever it read, mixtures too;
\* a file that is no mixture is what one session wrote.
TagsInv ==
    /\ \A f \in Enabled :
          /\ PipeOK(file[f])
          /\ f \notin overlaid /\ file[f].state = "text" /\ writer[f] # "operator" =>
                Sound(f, writer[f], file[f])
    /\ \A s \in Session :
          pc[s] \in {"truncate", "write"} =>
              PipeOK(config[s]) /\ Sound(FileOf(s), s, config[s])

Inv == TypeInv /\ ThereInv /\ SettingsInv /\ AgentIsCurrent /\ TagsInv
-----------------------------------------------------------------------------
(* The steps of one session, and what they leave alone.                    *)

SessionStep(s) == Begin(s) \/ UpdateTags(s) \/ Die(s)

\* The files that are updated are those of the enabled integrations, one at least.
LEMMA FilesEnabled ==
    /\ Len(Files) \in Nat /\ 1 \in 1..Len(Files)
    /\ \A i \in 1..Len(Files) : Files[i] \in Enabled
<1>1. CASE "datadog" \in Enabled /\ "otelcol" \in Enabled
  <2>1. Files = <<"datadog">> \o <<"otelcol">> BY <1>1 DEF Files
  <2>2. Len(Files) = 2 /\ Files[1] = "datadog" /\ Files[2] = "otelcol" BY <2>1
  <2> QED BY <1>1, <2>2
<1>2. CASE "datadog" \in Enabled /\ "otelcol" \notin Enabled
  <2>1. Files = <<"datadog">> BY <1>2 DEF Files
  <2> QED BY <1>2, <2>1
<1>3. CASE "datadog" \notin Enabled /\ "otelcol" \in Enabled
  <2>1. Files = <<"otelcol">> BY <1>3 DEF Files
  <2> QED BY <1>3, <2>1
<1> QED BY <1>1, <1>2, <1>3, SessionTagsAssumption

LEMMA FileOfEnabled == ASSUME TypeInv, NEW s \in Session PROVE FileOf(s) \in Enabled
  BY FilesEnabled DEF TypeInv, FileOf

LEMMA StepCases ==
    ASSUME [Next]_vars
    PROVE  \/ \E s \in Session : SessionStep(s)
           \/ \E f \in Enabled : AgentStarts(f)
           \/ UNCHANGED vars
  BY DEF Next, SessionStep

\* A session leaves the others where they are, and the other files.
LEMMA Others ==
    ASSUME TypeInv, NEW s \in Session, SessionStep(s)
    PROVE  /\ \A o \in Session \ {s} :
                  pc'[o] = pc[o] /\ FileOf(o)' = FileOf(o) /\ config'[o] = config[o]
           /\ \A f \in Enabled : FileOf(s) # f => file'[f] = file[f]
<1> USE DEF TypeInv, Goto, NextFile
<1>1. \A o \in Session \ {s} : pc'[o] = pc[o] /\ at'[o] = at[o] /\ config'[o] = config[o]
  BY DEF SessionStep, UpdateTags, Begin, CheckWritePermissions, ReadConfig, Truncate, Write,
         ReloadAgent, Die
<1>2. \A f \in Enabled : FileOf(s) # f => file'[f] = file[f]
  BY DEF SessionStep, UpdateTags, Begin, CheckWritePermissions, ReadConfig, Truncate, Write,
         ReloadAgent, Die, fileVars
<1> QED BY <1>1, <1>2 DEF FileOf

\* After NextFile the session has no file under way.
LEMMA NextFilePlace ==
    ASSUME TypeInv, NEW s \in Session, NextFile(s)
    PROVE  pc'[s] \in {"check", "handed"} /\ config'[s] = Blank("text")
  BY DEF TypeInv, NextFile

\* The settings of the file are those of the config that is made of it.
LEMMA UpdatedFacts ==
    ASSUME NEW f, NEW c, NEW s, NEW rendered
    PROVE  /\ Updated(f, c, s, rendered).own = c.own
           /\ Updated(f, c, s, rendered).state = "text"
  BY DEF Updated

\* What a write leaves is text or cannot be parsed, and the list of its pipeline is that of
\* the text written or of the one that was there.
LEMMA WrittenFacts ==
    ASSUME NEW new, NEW old, NEW x \in WrittenOver(new, old)
    PROVE  /\ x.state \in {new.state, "garbled", "text"}
           /\ PipeOK(new) /\ PipeOK(old) => PipeOK(x)
<1>1. CASE x = new BY <1>1
<1>2. CASE x = Blank("garbled") BY <1>2 DEF Blank, PipeOK
<1>3. CASE x \notin {new, Blank("garbled")}
  <2>1. PICK c \in {new, old} :
           \E tags : x = [state |-> "text", own |-> c.own, tags |-> tags,
                          hasList |-> c.hasList, piped |-> c.piped]
    BY <1>3 DEF WrittenOver
  <2> QED BY <2>1 DEF PipeOK
<1> QED BY <1>1, <1>2, <1>3

\* What Write does to the file of its session: the whole text in an empty file, a mixture or
\* less in another one, or nothing.
LEMMA WriteCases ==
    ASSUME TypeInv, NEW s \in Session, Write(s)
    PROVE  LET f == FileOf(s)
           IN  \/ file[f].state = "empty" /\ file'[f] = config[s] /\ overlaid' = overlaid \ {f}
               \/ /\ file[f].state # "empty" /\ file'[f] \in WrittenOver(config[s], file[f])
                  /\ overlaid' = overlaid \union {f}
               \/ UNCHANGED <<file, writer, overlaid>> /\ torn' = torn \union {f}
<1> DEFINE f == FileOf(s)
<1>1. f \in Enabled BY FileOfEnabled
<1>2. CASE file[f].state = "empty" /\ file' = [file EXCEPT ![f] = config[s]]
           /\ overlaid' = overlaid \ {f}
  BY <1>1, <1>2 DEF TypeInv
<1>3. CASE file[f].state # "empty" /\ overlaid' = overlaid \union {f}
           /\ file' \in {[file EXCEPT ![f] = x] : x \in WrittenOver(config[s], file[f])}
  <2>1. PICK x \in WrittenOver(config[s], file[f]) : file' = [file EXCEPT ![f] = x] BY <1>3
  <2> QED BY <1>1, <1>3, <2>1 DEF TypeInv
<1>4. CASE UNCHANGED <<file, writer, overlaid>> /\ torn' = torn \union {f} BY <1>4
<1> QED BY <1>2, <1>3, <1>4 DEF Write

LEMMA TypeNext == TypeInv /\ [Next]_vars => TypeInv'
<1> SUFFICES ASSUME TypeInv, [Next]_vars PROVE TypeInv'
  OBVIOUS
<1> USE DEF TypeInv
<1>1. ASSUME NEW s \in Session, SessionStep(s) PROVE TypeInv'
  <2>1. ASSUME NextFile(s)
        PROVE  /\ pc' \in [Session -> {"idle", "check", "read", "truncate", "write", "reload",
                                       "handed", "dead"}]
               /\ at' \in [Session -> 1..Len(Files)]
    <3>1. CASE at[s] < Len(Files)
      <4>1. at' = [at EXCEPT ![s] = @ + 1] /\ pc' = [pc EXCEPT ![s] = "check"]
        BY <2>1, <3>1 DEF NextFile
      <4>2. at[s] + 1 \in 1..Len(Files) BY <3>1, FilesEnabled
      <4> QED BY <4>1, <4>2
    <3>2. CASE ~(at[s] < Len(Files)) BY <2>1, <3>2 DEF NextFile
    <3> QED BY <3>1, <3>2
  <2>0. ASSUME Goto(s, "check") \/ Goto(s, "read") \/ Goto(s, "truncate") \/ Goto(s, "write")
               \/ Goto(s, "reload") \/ Goto(s, "dead")
        PROVE  /\ pc' \in [Session -> {"idle", "check", "read", "truncate", "write", "reload",
                                       "handed", "dead"}]
               /\ at' \in [Session -> 1..Len(Files)]
    BY <2>0 DEF Goto
  <2>2. config' = [o \in Session |-> config'[o]]
    BY <1>1 DEF SessionStep, UpdateTags, Begin, CheckWritePermissions, ReadConfig, Truncate, Write,
         ReloadAgent, Die, NextFile
  <2>3. file' = [f \in Enabled |-> file'[f]] /\ agent' = agent
    BY <1>1 DEF SessionStep, UpdateTags, Begin, CheckWritePermissions, ReadConfig, Truncate, Write,
         ReloadAgent, Die, fileVars
  <2>4. Goto(s, "check") \/ Goto(s, "read") \/ Goto(s, "truncate") \/ Goto(s, "write")
        \/ Goto(s, "reload") \/ Goto(s, "dead") \/ NextFile(s)
    BY <1>1 DEF SessionStep, UpdateTags, Begin, CheckWritePermissions, ReadConfig, Truncate, Write,
         ReloadAgent, Die
  <2>5. writer' = [f \in Enabled |-> writer'[f]]
    BY <1>1 DEF SessionStep, UpdateTags, Begin, CheckWritePermissions, ReadConfig, Truncate, Write,
         ReloadAgent, Die, histVars
  <2> QED BY <2>0, <2>1, <2>2, <2>3, <2>4, <2>5
<1>2. ASSUME NEW f \in Enabled, AgentStarts(f) PROVE TypeInv'
  BY <1>2 DEF AgentStarts, histVars
<1>3. CASE UNCHANGED vars
  BY <1>3 DEF vars, fileVars, histVars
<1> QED BY <1>1, <1>2, <1>3, StepCases

LEMMA ThereNext == TypeInv /\ ThereInv /\ [Next]_vars => ThereInv'
<1> SUFFICES ASSUME TypeInv, ThereInv, [Next]_vars PROVE ThereInv'
  OBVIOUS
<1>1. ASSUME NEW s \in Session, SessionStep(s) PROVE ThereInv'
  <2>1. \A o \in Session : config'[o].state = "text"
    <3>1. config'[s] = config[s] \/ config'[s].state = "text"
      <4>1. CASE ReadConfig(s)
        BY <4>1, NextFilePlace, UpdatedFacts DEF ReadConfig, TypeInv, Blank
      <4>2. CASE ~ReadConfig(s)
        BY <1>1, <4>2, NextFilePlace DEF SessionStep, UpdateTags, Begin, CheckWritePermissions,
           Truncate, Write, ReloadAgent, Die, TypeInv, Blank
      <4> QED BY <4>1, <4>2
    <3> QED BY <1>1, <3>1, Others DEF ThereInv
  <2>2. ASSUME NEW f \in Enabled, file[f].state # "absent" PROVE file'[f].state # "absent"
    <3>1. CASE FileOf(s) # f BY <1>1, <2>2, <3>1, Others
    <3>2. CASE Write(s) /\ FileOf(s) = f
      BY <2>2, <3>2, WriteCases, WrittenFacts DEF ThereInv
    <3>3. CASE ~Write(s)
      BY <1>1, <2>2, <3>3 DEF SessionStep, UpdateTags, Begin, CheckWritePermissions, ReadConfig,
         Truncate, ReloadAgent, Die, fileVars, TypeInv, Blank
    <3> QED BY <3>1, <3>2, <3>3
  <2>3. ASSUME NEW f \in Enabled, On(s, f, {"read", "truncate", "write", "reload"})'
        PROVE  file'[f].state # "absent"
    <3>1. CASE CheckWritePermissions(s)
      <4>1. Goto(s, "read") /\ FileOf(s) = f /\ file' =
               [file EXCEPT ![f] = IF @.state = "absent" THEN Blank("empty") ELSE @]
        BY <2>3, <3>1, NextFilePlace DEF CheckWritePermissions, On, FileOf, Goto
      <4> QED BY <4>1 DEF TypeInv, Blank
    <3>2. CASE ~CheckWritePermissions(s)
      <4>1. On(s, f, {"read", "truncate", "write", "reload"})
        BY <1>1, <2>3, <3>2, NextFilePlace DEF SessionStep, UpdateTags, Begin, ReadConfig, Truncate,
           Write, ReloadAgent, Die, Goto, On, At, FileOf, TypeInv
      <4> QED BY <2>2, <4>1 DEF ThereInv
    <3> QED BY <3>1, <3>2
  <2>4. ASSUME NEW f \in Enabled, f \in restarting' PROVE file'[f].state # "absent"
    <3>1. f \in restarting \/ On(s, f, {"reload"})
      BY <1>1, <2>4 DEF SessionStep, UpdateTags, Begin, CheckWritePermissions, ReadConfig, Truncate,
         Write, ReloadAgent, Die, fileVars, On, At
    <3> QED BY <2>2, <3>1 DEF ThereInv, On
  <2>5. ASSUME NEW f \in Enabled, NEW o \in Session \ {s},
               On(o, f, {"read", "truncate", "write", "reload"})'
        PROVE  file'[f].state # "absent"
    <3>1. On(o, f, {"read", "truncate", "write", "reload"})
      BY <1>1, <2>5, Others DEF On
    <3> QED BY <2>2, <3>1 DEF ThereInv
  <2> QED BY <2>1, <2>2, <2>3, <2>4, <2>5, SessionTagsAssumption DEF ThereInv
<1>2. ASSUME NEW f \in Enabled, AgentStarts(f) PROVE ThereInv'
  BY <1>2 DEF AgentStarts, ThereInv, On, FileOf
<1>3. CASE UNCHANGED vars
  BY <1>3 DEF vars, fileVars, ThereInv, On, FileOf
<1> QED BY <1>1, <1>2, <1>3, StepCases

LEMMA SettingsNext == TypeInv /\ ThereInv /\ SettingsInv /\ [Next]_vars => SettingsInv'
<1> SUFFICES ASSUME TypeInv, ThereInv, SettingsInv, [Next]_vars PROVE SettingsInv'
  OBVIOUS
<1> DEFINE Kept(f) ==
        /\ file[f].own \/ \E s \in Session : On(s, f, {"write"})
        /\ \A s \in Session :
              /\ On(s, f, {"truncate", "write"}) => config[s].own
              /\ On(s, f, {"write"}) =>
                    /\ file[f].state = "empty"
                    /\ \A o \in Session : On(o, f, {"write"}) => o = s
<1>1. ASSUME NEW s \in Session, SessionStep(s), NEW f \in Present, f \notin torn'
      PROVE  Kept(f)'
  <2>1. f \in Enabled /\ f \notin torn
    BY <1>1, SessionTagsAssumption DEF SessionStep, UpdateTags, Begin, CheckWritePermissions,
       ReadConfig, Truncate, Write, ReloadAgent, Die, histVars
  <2>2. Kept(f) /\ file[f].state # "absent"
    BY <1>1, <2>1 DEF SettingsInv, ThereInv
  <2>3. \A o \in Session \ {s} : /\ config'[o] = config[o]
                                 /\ \A places : On(o, f, places)' <=> On(o, f, places)
    BY <1>1, Others DEF On
  \* A session that neither leaves nor reaches the write, and does not touch the file.
  <2>4. ASSUME file'[f] = file[f], ~On(s, f, {"write"}), ~On(s, f, {"write"})',
               On(s, f, {"truncate"})' => config'[s].own
        PROVE  Kept(f)'
    <3>1. file'[f].own \/ \E o \in Session : On(o, f, {"write"})'
      BY <2>2, <2>3, <2>4
    <3>2. ASSUME NEW o \in Session, On(o, f, {"truncate", "write"})' PROVE config'[o].own
      BY <2>2, <2>3, <2>4, <3>2 DEF On
    <3>3. ASSUME NEW o \in Session, On(o, f, {"write"})'
          PROVE  /\ file'[f].state = "empty"
                 /\ \A q \in Session : On(q, f, {"write"})' => q = o
      BY <2>2, <2>3, <2>4, <3>3
    <3> QED BY <3>1, <3>2, <3>3
  <2>5. CASE Begin(s)
    BY <2>4, <2>5 DEF Begin, Goto, At, On, fileVars, TypeInv
  <2>6. CASE CheckWritePermissions(s)
    <3>1. file'[f] = file[f]
      BY <2>1, <2>2, <2>6 DEF CheckWritePermissions, TypeInv
    <3>2. pc[s] = "check" /\ pc'[s] \in {"read", "check", "handed"}
      BY <2>6, NextFilePlace DEF CheckWritePermissions, Goto, At, TypeInv
    <3> QED BY <2>4, <3>1, <3>2 DEF On
  <2>7. CASE ReadConfig(s)
    <3>1. file' = file /\ pc[s] = "read" /\ pc'[s] \in {"truncate", "check", "handed"}
      BY <2>7, NextFilePlace DEF ReadConfig, Goto, At, TypeInv, fileVars
    <3>2. ASSUME On(s, f, {"truncate"})' PROVE config'[s].own
      <4>1. pc'[s] = "truncate"
        BY <3>2 DEF On
      <4>2. /\ Goto(s, "truncate")
            /\ WindowOpen(s) => FileOf(s) \in torn'
            /\ config'[s].own = file[FileOf(s)].own
        BY <2>7, <4>1, NextFilePlace, UpdatedFacts DEF ReadConfig, TypeInv
      <4>3. FileOf(s) = f
        BY <3>2, <4>2 DEF On, FileOf, Goto
      <4>4. ~\E o \in Session : On(o, f, {"write"})
        BY <1>1, <3>1, <4>2, <4>3 DEF WindowOpen, On, At
      <4> QED BY <2>2, <4>2, <4>3, <4>4
    <3> QED BY <2>4, <3>1, <3>2 DEF On
  <2>8. CASE Truncate(s) /\ FileOf(s) = f
    <3>1. CASE NextFile(s) /\ file' = file
      <4>1. pc[s] = "truncate" /\ pc'[s] \in {"check", "handed"}
        BY <2>8, <3>1, NextFilePlace DEF Truncate, At
      <4> QED BY <2>4, <3>1, <4>1 DEF On
    <3>2. CASE ~(NextFile(s) /\ file' = file)
      <4>1. /\ pc[s] = "truncate" /\ Goto(s, "write") /\ config' = config
            /\ file' = [file EXCEPT ![f] = Blank("empty")]
            /\ WindowOpen(s) => f \in torn'
        BY <2>8, <3>2 DEF Truncate, At
      <4>2. ~\E o \in Session : On(o, f, {"write"})
        BY <1>1, <2>8, <4>1 DEF WindowOpen, On, At
      <4>3. On(s, f, {"write"})' /\ config'[s].own /\ file'[f].state = "empty"
        BY <2>1, <2>2, <2>8, <4>1 DEF On, FileOf, Goto, TypeInv, Blank
      <4>4. ASSUME NEW o \in Session, On(o, f, {"truncate", "write"})' PROVE config'[o].own
        BY <2>2, <2>3, <4>3, <4>4
      <4>5. ASSUME NEW o \in Session, On(o, f, {"write"})' PROVE o = s
        BY <2>3, <4>2, <4>5
      <4> QED BY <4>3, <4>4, <4>5
    <3> QED BY <3>1, <3>2
  <2>9. CASE Write(s) /\ FileOf(s) = f
    <3>1. On(s, f, {"write"}) /\ config[s].own /\ file[f].state = "empty"
      BY <2>2, <2>9 DEF Write, At, On
    <3>2. file'[f] = config[s]
      BY <1>1, <2>9, <3>1, WriteCases
    <3>3. file'[f].own /\ pc'[s] = "reload"
      BY <1>1, <2>9, <3>1, <3>2 DEF Write, TypeInv, Goto
    <3>4. ASSUME NEW o \in Session PROVE ~On(o, f, {"truncate", "write"})' \/ config'[o].own
      BY <2>2, <2>3, <3>3 DEF On
    <3>5. ASSUME NEW o \in Session PROVE ~On(o, f, {"write"})'
      BY <2>2, <2>3, <3>1, <3>3 DEF On
    <3> QED BY <3>3, <3>4, <3>5
  <2>10. CASE ReloadAgent(s)
    <3>1. file' = file /\ pc[s] = "reload" /\ pc'[s] \in {"check", "handed"}
      BY <2>10, NextFilePlace DEF ReloadAgent, At
    <3> QED BY <2>4, <3>1 DEF On
  <2>11. CASE Die(s)
    <3>1. file' = file /\ pc'[s] = "dead" /\ ~On(s, f, {"write"})
      BY <1>1, <2>11 DEF Die, At, On, Goto, TypeInv, fileVars
    <3> QED BY <2>4, <3>1 DEF On
  <2>12. CASE (Truncate(s) \/ Write(s)) /\ FileOf(s) # f
    <3>1. file'[f] = file[f] /\ pc'[s] # "truncate"
      BY <1>1, <2>1, <2>12, Others, NextFilePlace DEF Truncate, Write, Goto, At, TypeInv
    <3>2. ~On(s, f, {"write"})'
      BY <2>12, NextFilePlace DEF Truncate, Write, Goto, On, FileOf, TypeInv
    <3> QED BY <2>4, <2>12, <3>1, <3>2 DEF On
  <2> QED BY <1>1, <2>5, <2>6, <2>7, <2>8, <2>9, <2>10, <2>11, <2>12 DEF SessionStep, UpdateTags
<1>2. ASSUME NEW f \in Enabled, AgentStarts(f) PROVE SettingsInv'
  BY <1>2 DEF AgentStarts, SettingsInv, On, FileOf, histVars
<1>3. CASE UNCHANGED vars
  BY <1>3 DEF vars, fileVars, histVars, SettingsInv, On, FileOf
<1>4. CASE \E s \in Session : SessionStep(s)
  BY <1>1, <1>4 DEF SettingsInv
<1> QED BY <1>2, <1>3, <1>4, StepCases

\* No session is about to write the file or to restart its agent.
Quiet(f) == \A s \in Session : pc[s] \in {"write", "reload"} => FileOf(s) # f

LEMMA AgentNext == TypeInv /\ ThereInv /\ AgentIsCurrent /\ [Next]_vars => AgentIsCurrent'
<1> SUFFICES ASSUME TypeInv, ThereInv, AgentIsCurrent, [Next]_vars PROVE AgentIsCurrent'
  OBVIOUS
<1>1. ASSUME NEW s \in Session, SessionStep(s),
             NEW f \in Enabled, f \notin missed', f \notin restarting', Quiet(f)'
      PROVE  agent'[f] = Loaded(file[f])'
  \* The agent was current, and the file did not change but for being created.
  <2>1. ASSUME f \notin missed, f \notin restarting, Quiet(f), agent' = agent,
               file'[f] = file[f] \/ (file[f].state = "absent" /\ file'[f] = Blank("empty"))
        PROVE  agent'[f] = Loaded(file[f])'
    <3>1. agent[f] = Loaded(file[f])
      BY <2>1 DEF AgentIsCurrent, Quiet
    <3> QED BY <2>1, <3>1 DEF Loaded, Blank
  <2>2. f \notin missed /\ f \notin restarting /\ agent' = agent
    BY <1>1 DEF SessionStep, UpdateTags, Begin, CheckWritePermissions, ReadConfig, Truncate, Write,
       ReloadAgent, Die, fileVars, histVars
  <2>3. ASSUME NEW o \in Session \ {s}, pc[o] \in {"write", "reload"} PROVE FileOf(o) # f
    BY <1>1, <2>3, Others DEF Quiet
  <2>4. pc[s] \in {"write", "reload"} => FileOf(s) # f
    BY <1>1, NextFilePlace DEF SessionStep, UpdateTags, Begin, CheckWritePermissions, ReadConfig,
       Truncate, Write, ReloadAgent, Die, Quiet, At, FileOf, Goto, TypeInv, histVars
  <2>5. Quiet(f)
    BY <2>3, <2>4 DEF Quiet
  <2>6. file'[f] = file[f] \/ (file[f].state = "absent" /\ file'[f] = Blank("empty"))
    <3>1. CASE FileOf(s) # f
      BY <1>1, <3>1, Others
    <3>2. CASE CheckWritePermissions(s)
      BY <3>2 DEF CheckWritePermissions, TypeInv
    <3>3. CASE Truncate(s) /\ FileOf(s) = f
      BY <1>1, <3>3 DEF Truncate, Quiet, Goto, FileOf, TypeInv
    <3>4. CASE Write(s) /\ FileOf(s) = f
      BY <2>4, <3>4 DEF Write, At
    <3>5. CASE Begin(s) \/ ReadConfig(s) \/ ReloadAgent(s) \/ Die(s)
      BY <3>5 DEF Begin, ReadConfig, ReloadAgent, Die, fileVars
    <3> QED BY <1>1, <3>1, <3>2, <3>3, <3>4, <3>5 DEF SessionStep, UpdateTags
  <2> QED BY <2>1, <2>2, <2>5, <2>6
<1>2. ASSUME NEW g \in Enabled, AgentStarts(g),
             NEW f \in Enabled, f \notin missed', f \notin restarting', Quiet(f)'
      PROVE  agent'[f] = Loaded(file[f])'
  <2>1. UNCHANGED <<file, pc, at, missed>>
    BY <1>2 DEF AgentStarts, histVars
  <2>2. CASE f = g
    BY <1>2, <2>1, <2>2 DEF AgentStarts, TypeInv, ThereInv, Loaded
  <2>3. CASE f # g
    <3>1. agent'[f] = agent[f] /\ f \notin restarting /\ f \notin missed
      BY <1>2, <2>1, <2>3 DEF AgentStarts, TypeInv
    <3>2. Quiet(f)
      BY <1>2, <2>1 DEF Quiet, FileOf
    <3> QED BY <2>1, <3>1, <3>2 DEF AgentIsCurrent, Quiet, Loaded
  <2> QED BY <2>2, <2>3
<1>3. CASE UNCHANGED vars
  BY <1>3 DEF vars, fileVars, histVars, AgentIsCurrent, FileOf, Loaded
<1>4. CASE \E s \in Session : SessionStep(s)
  BY <1>1, <1>4 DEF AgentIsCurrent, Quiet
<1>5. CASE \E g \in Enabled : AgentStarts(g)
  BY <1>2, <1>5 DEF AgentIsCurrent, Quiet
<1> QED BY <1>3, <1>4, <1>5, StepCases

\* UpdateTags removes every tag of a template before it adds those of its own session.
LEMMA UpdatedSound ==
    ASSUME NEW f, NEW c, NEW s, NEW rendered \in SUBSET Tag, PipeOK(c)
    PROVE  /\ PipeOK(Updated(f, c, s, rendered))
           /\ Sound(f, s, Updated(f, c, s, rendered))
<1> DEFINE kept == RemoveTemplatedTags(c.tags, rendered)
           added == Rendered(s, rendered)
           made == Updated(f, c, s, rendered)
<1>1. /\ made.tags = kept (+) added /\ made.own = c.own
      /\ made.hasList = c.hasList /\ made.piped = EnsureProcessorInPipelines(f, c)
  BY DEF Updated
<1>2. \A e \in DOMAIN kept : e.tag \notin Tag
  BY DEF RemoveTemplatedTags, RestrictDomain, Restrict
<1>3. added = [e \in {[tag |-> t, of |-> s] : t \in rendered} |-> 1]
  BY DEF Rendered, SetToBag
<1>4. \A e \in DOMAIN added : e.of = s /\ added[e] = 1
  BY <1>3
<1>5. ASSUME NEW e \in BagToSet(made.tags), e.tag \in Tag
      PROVE  e.of = s /\ made.tags[e] = 1
  <2>1. e \in (DOMAIN kept) \union (DOMAIN added) /\ e \notin DOMAIN kept
    BY <1>1, <1>2, <1>5 DEF BagToSet, (+)
  <2>2. made.tags[e] = 0 + added[e]
    BY <1>1, <2>1 DEF (+)
  <2> QED BY <1>4, <1>5, <2>1, <2>2 DEF BagToSet
<1>6. /\ PipeOK(made)
      /\ f = "otelcol" /\ made.own => made.piped = IF made.hasList THEN 1 ELSE 0
  BY <1>1 DEF EnsureProcessorInPipelines, PipeOK
<1> QED BY <1>5, <1>6 DEF Sound

LEMMA TagsNext == TypeInv /\ TagsInv /\ [Next]_vars => TagsInv'
<1> SUFFICES ASSUME TypeInv, TagsInv, [Next]_vars PROVE TagsInv'
  OBVIOUS
<1> DEFINE Ready(o) == pc[o] \in {"truncate", "write"} =>
                           PipeOK(config[o]) /\ Sound(FileOf(o), o, config[o])
           Clean(f) == /\ PipeOK(file[f])
                       /\ f \notin overlaid /\ file[f].state = "text" /\ writer[f] # "operator"
                             => Sound(f, writer[f], file[f])
<1>1. ASSUME NEW s \in Session, SessionStep(s) PROVE TagsInv'
  <2>1. \A o \in Session \ {s} : Ready(o)'
    BY <1>1, Others DEF TagsInv, Sound, PipeOK
  <2>2. Ready(s)'
    <3>1. CASE ReadConfig(s)
      <4>1. CASE NextFile(s) BY <4>1, NextFilePlace
      <4>2. CASE ~NextFile(s)
        <5>1. PICK rendered \in SUBSET Tag :
                 config' = [config EXCEPT ![s] = Updated(FileOf(s), file[FileOf(s)], s, rendered)]
          BY <3>1, <4>2 DEF ReadConfig
        <5>2. /\ config'[s] = Updated(FileOf(s), file[FileOf(s)], s, rendered)
              /\ FileOf(s)' = FileOf(s)
          BY <3>1, <4>2, <5>1 DEF ReadConfig, Goto, FileOf, TypeInv
        <5> QED BY <5>2, FileOfEnabled, UpdatedSound DEF TagsInv
      <4> QED BY <4>1, <4>2
    <3>2. CASE Truncate(s)
      <4>1. CASE NextFile(s) BY <4>1, NextFilePlace
      <4>2. CASE ~NextFile(s)
        <5>1. pc[s] = "truncate" /\ config'[s] = config[s] /\ FileOf(s)' = FileOf(s)
          BY <3>2, <4>2 DEF Truncate, At, Goto, FileOf
        <5> QED BY <5>1 DEF TagsInv
      <4> QED BY <4>1, <4>2
    <3>3. CASE ~ReadConfig(s) /\ ~Truncate(s)
      <4>1. pc'[s] \notin {"truncate", "write"}
        BY <1>1, <3>3, NextFilePlace DEF SessionStep, UpdateTags, Begin, CheckWritePermissions,
           Write, ReloadAgent, Die, Goto, TypeInv
      <4> QED BY <4>1
    <3> QED BY <3>1, <3>2, <3>3
  <2>3. ASSUME NEW f \in Enabled PROVE Clean(f)'
    <3>1. CASE UNCHANGED <<file, writer, overlaid>> BY <3>1 DEF TagsInv
    <3>2. CASE CheckWritePermissions(s) \/ Truncate(s)
      <4>1. /\ UNCHANGED <<writer, overlaid>>
            /\ file'[f] = file[f] \/ file'[f] = Blank("empty")
        BY <3>2 DEF CheckWritePermissions, Truncate, TypeInv, histVars
      <4> QED BY <4>1 DEF TagsInv, Blank, PipeOK
    <3>3. CASE Write(s) /\ ~UNCHANGED <<file, writer, overlaid>>
      <4>1. pc[s] = "write" /\ writer' = [writer EXCEPT ![FileOf(s)] = s]
        BY <3>3 DEF Write, At
      <4>2. CASE FileOf(s) # f
        <5>1. file'[f] = file[f] /\ writer'[f] = writer[f] /\ (f \in overlaid' <=> f \in overlaid)
          BY <1>1, <3>3, <4>1, <4>2, Others, WriteCases DEF TypeInv
        <5> QED BY <5>1 DEF TagsInv
      <4>3. CASE FileOf(s) = f
        <5>1. PipeOK(config[s]) /\ Sound(f, s, config[s]) /\ PipeOK(file[f])
          BY <4>1, <4>3 DEF TagsInv
        <5>2. CASE file'[f] = config[s] /\ f \notin overlaid'
          <6>1. writer'[f] = s BY <4>1, <4>3 DEF TypeInv
          <6> QED BY <5>1, <5>2, <6>1
        <5>3. CASE file'[f] \in WrittenOver(config[s], file[f]) /\ f \in overlaid'
          BY <5>1, <5>3, WrittenFacts
        <5> QED BY <3>3, <4>3, <5>2, <5>3, WriteCases
      <4> QED BY <4>2, <4>3
    <3> QED BY <1>1, <3>1, <3>2, <3>3 DEF SessionStep, UpdateTags, Begin, ReadConfig, ReloadAgent,
           Die, fileVars, histVars
  <2> QED BY <2>1, <2>2, <2>3 DEF TagsInv
<1>2. ASSUME NEW f \in Enabled, AgentStarts(f) PROVE TagsInv'
  BY <1>2 DEF AgentStarts, TagsInv, FileOf, histVars
<1>3. CASE UNCHANGED vars
  BY <1>3 DEF vars, fileVars, histVars, TagsInv, FileOf
<1> QED BY <1>1, <1>2, <1>3, StepCases

\* The operator's file is text and lists the processor at most once in the pipeline.
LEMMA OperatorFacts ==
    \A x \in OperatorFile : x.state = "text" /\ x.piped \in {0, 1} /\ x.hasList \in BOOLEAN
<1> SUFFICES ASSUME NEW x \in OperatorFile
             PROVE  x.state = "text" /\ x.piped \in {0, 1} /\ x.hasList \in BOOLEAN
  OBVIOUS
<1>1. PICK t \in Tag \union {"other"}, l \in BOOLEAN, n \in {0, 1} :
          x = [state |-> "text", own |-> TRUE, hasList |-> l, piped |-> n,
               tags |-> SetToBag({[tag |-> t, of |-> "operator"]})]
  BY DEF OperatorFile
<1> QED BY <1>1

LEMMA InvInit == Init => Inv
<1> SUFFICES ASSUME Init PROVE Inv
  OBVIOUS
<1>1. \A f \in Enabled : file[f] \in OperatorFile \union {Blank("absent")}
                      /\ (file[f].own <=> f \in Present)
  BY DEF Init
<1>2. file \in [Enabled -> OperatorFile \union {Blank("absent")}]
  BY DEF Init
<1>3. TypeInv
  <2>1. file = [f \in Enabled |-> file[f]]
    BY <1>2
  <2> QED BY <2>1, FilesEnabled DEF Init, TypeInv
<1>4. \A f \in Present : f \in Enabled /\ file[f].own /\ file[f].state # "absent"
  <2>1. ASSUME NEW f \in Present PROVE f \in Enabled /\ file[f].own
    BY <1>1, SessionTagsAssumption
  <2>2. ASSUME NEW x \in OperatorFile PROVE x.state = "text"
    BY OperatorFacts
  <2>3. ~Blank("absent").own
    BY DEF Blank
  <2> QED BY <1>1, <2>1, <2>2, <2>3
<1>5. ThereInv
  BY <1>4 DEF Init, ThereInv, On, Blank
<1>6. SettingsInv
  BY <1>4 DEF Init, SettingsInv, On
<1>7. AgentIsCurrent
  BY DEF Init, AgentIsCurrent
<1>8. TagsInv
  <2>1. \A f \in Enabled : file[f].piped \in {0, 1}
    <3>1. Blank("absent").piped \in {0, 1} BY DEF Blank
    <3> QED BY <1>1, <3>1, OperatorFacts
  <2>2. \A f \in Enabled : ~file[f].hasList => file[f].piped = 0
    BY DEF Init
  <2> QED BY <2>1, <2>2 DEF Init, TagsInv, PipeOK
<1> QED BY <1>3, <1>5, <1>6, <1>7, <1>8 DEF Inv

LEMMA Invariance == Spec => []Inv
<1>1. Inv /\ [Next]_vars => Inv'
  BY TypeNext, ThereNext, SettingsNext, AgentNext, TagsNext DEF Inv
<1> QED BY <1>1, InvInit, PTL DEF Spec

-----------------------------------------------------------------------------
(* What wrappers that share a host can do to its agents' configuration.    *)

\* The read, the truncation and the write are not one step: that is the one way in which the
\* operator's settings are lost.
THEOREM SettingsKept == Spec => []SettingsLostOnlyByTearing
<1>1. Inv => SettingsLostOnlyByTearing
  BY DEF Inv, SettingsInv, SettingsLostOnlyByTearing, On, At
<1> QED BY <1>1, Invariance, PTL

\* Wrappers that overlap in any way, and may have left a mixture of their tags to be read, leave
\* a mixture or a tag twice in a file only where a write is laid over the text of another one:
\* whatever file a session reads, what it writes into an empty file is of itself alone.
THEOREM TagsOfOneSession == Spec => []TagsAreOfOneSession
<1>1. Inv => TagsAreOfOneSession
  BY DEF Inv, TagsInv, Sound, TagsAreOfOneSession
<1> QED BY <1>1, Invariance, PTL

\* Each session restarts the agent after its write, so that the last write is read.
THEOREM AgentsCurrent == Spec => []AgentIsCurrent
<1>1. Inv => AgentIsCurrent
  BY DEF Inv
<1> QED BY <1>1, Invariance, PTL

=============================================================================
