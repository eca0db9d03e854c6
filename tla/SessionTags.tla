------------------------------ MODULE SessionTags -----------------------------
(***************************************************************************)
(* The tags of a session in the configuration of the host's agents:        *)
(* pkg/datadog/config.go and pkg/otelcol/config.go, called one after the   *)
(* other by manager.onHostingStart before the harness hears of the         *)
(* session.  Each reads a YAML file, replaces the tags that its templates  *)
(* name, writes the file in place and restarts the agent.                  *)
(*                                                                         *)
(* A fleet may run several wrappers on one host (README.md:359), each for  *)
(* one session at a time; they share the files and nothing orders them.  A *)
(* wrapper may be killed at any point.                                     *)
(***************************************************************************)
EXTENDS Integers, Sequences, Bags, Functions

CONSTANTS
    Session,    \* the sessions started on the host, each by a wrapper of its own
    Enabled,    \* the integrations enabled, of "datadog" and "otelcol"
    Tag,        \* the tag names that have a template
    Present     \* the files that exist before the first session

ASSUME SessionTagsAssumption ==
    /\ Enabled \subseteq {"datadog", "otelcol"} /\ Enabled # {}
    /\ Present \subseteq Enabled
    /\ "operator" \notin Session

VARIABLES
    file,        \* what each file holds
    agent,       \* what each agent read when it last started
    restarting,  \* the files whose agent was restarted and has not read them yet
    pc, at,      \* onHostingStart of each session, and the file it is at
    config,      \* the local config of UpdateTags
    \* History: the session that wrote the file last ("operator" at first), the files
    \* one of whose writes overlapped another access or was not finished, the files
    \* whose last write was laid over the text of another session, the files whose last
    \* restart failed or never came.
    writer, torn, overlaid, missed

fileVars == <<file, agent, restarting>>
histVars == <<writer, torn, overlaid, missed>>
vars == <<fileVars, pc, at, config, histVars>>

\* The order in which onHostingStart updates them.
Files ==
    (IF "datadog" \in Enabled THEN <<"datadog">> ELSE <<>>)
    \o (IF "otelcol" \in Enabled THEN <<"otelcol">> ELSE <<>>)

\* A file without settings.  own: the operator's settings are there; tags: how often each
\* tag is listed (among the processor's actions, for otelcol), with who it is of; hasList:
\* the operator's pipeline has a list of processors; piped: how often the processor is in it.
Blank(state) ==
    [state |-> state, own |-> FALSE, tags |-> EmptyBag, hasList |-> FALSE, piped |-> 0]

\* The operator's file, with a tag of the operator's own, or one that a template
\* replaces, and with the processor already in the list of the pipeline or not.
OperatorFile ==
    {[state |-> "text", own |-> TRUE, tags |-> SetToBag({[tag |-> t, of |-> "operator"]}),
      hasList |-> l, piped |-> n] :
        t \in Tag \union {"other"}, l \in BOOLEAN, n \in {0, 1}}

Loaded(content) == IF content.state = "absent" THEN Blank("empty") ELSE content

Init ==
    /\ file \in [Enabled -> OperatorFile \union {Blank("absent")}]
    /\ \A f \in Enabled :
          /\ file[f].own <=> f \in Present
          /\ ~file[f].hasList => file[f].piped = 0
    /\ agent = [f \in Enabled |-> Loaded(file[f])]
    /\ restarting = {}
    /\ pc = [s \in Session |-> "idle"] /\ at = [s \in Session |-> 1]
    /\ config = [s \in Session |-> Blank("text")]
    /\ writer = [f \in Enabled |-> "operator"] /\ torn = {} /\ overlaid = {} /\ missed = {}

-----------------------------------------------------------------------------
(* What UpdateTags makes of the settings it read.                          *)

\* Mutant: only the tags that are about to be added are removed.
RemoveRenderedTags(tags, rendered) == RestrictDomain(tags, LAMBDA e : e.tag \notin rendered)

RemoveTemplatedTags(tags, rendered) == RestrictDomain(tags, LAMBDA e : e.tag \notin Tag)

\* A pipeline without a list of processors gets none.
EnsureProcessorInPipelines(f, c) ==
    IF f = "otelcol" /\ c.own /\ c.hasList /\ c.piped = 0 THEN 1 ELSE c.piped

\* A template that cannot be rendered is left out.
Rendered(s, rendered) == SetToBag({[tag |-> t, of |-> s] : t \in rendered})

Updated(f, c, s, rendered) ==
    [state |-> "text", own |-> c.own,
     tags |-> RemoveTemplatedTags(c.tags, rendered) (+) Rendered(s, rendered),
     hasList |-> c.hasList, piped |-> EnsureProcessorInPipelines(f, c)]

-----------------------------------------------------------------------------
(* UpdateTags, step by step.                                               *)

At(s, l) == pc[s] = l
FileOf(s) == Files[at[s]]

\* An error of one file is logged; the next one is tried, then the harness is called.
NextFile(s) ==
    /\ config' = [config EXCEPT ![s] = Blank("text")]
    /\ IF at[s] < Len(Files)
       THEN at' = [at EXCEPT ![s] = @ + 1] /\ pc' = [pc EXCEPT ![s] = "check"]
       ELSE at' = at /\ pc' = [pc EXCEPT ![s] = "handed"]

Goto(s, l) == pc' = [pc EXCEPT ![s] = l] /\ at' = at

\* Other sessions are between the truncation and the write of this file.
WindowOpen(s) == \E o \in Session \ {s} : At(o, "write") /\ FileOf(o) = FileOf(s)

Begin(s) ==
    /\ At(s, "idle")
    /\ Goto(s, "check")
    /\ UNCHANGED <<fileVars, config, histVars>>

\* Mutant: checkWritePermissions creates the file with os.Create.
CreateFile(s) ==
    /\ At(s, "check")
    /\ \/ /\ file' = [file EXCEPT ![FileOf(s)] = Blank("empty")]
          /\ Goto(s, "read") /\ config' = config
       \/ file' = file /\ NextFile(s)
    /\ UNCHANGED <<agent, restarting, histVars>>

\* checkWritePermissions opens the file for writing and so creates a missing one.
CheckWritePermissions(s) ==
    /\ At(s, "check")
    /\ \/ /\ file' = [file EXCEPT ![FileOf(s)] = IF @.state = "absent" THEN Blank("empty") ELSE @]
          /\ Goto(s, "read") /\ config' = config
       \/ file' = file /\ NextFile(s)
    /\ UNCHANGED <<agent, restarting, histVars>>

\* A file without text gives an empty config, one that cannot be parsed an error.
ReadConfig(s) ==
    /\ At(s, "read")
    /\ LET f == FileOf(s) IN
       \/ /\ file[f].state # "garbled"
          /\ \E rendered \in SUBSET Tag :
                config' = [config EXCEPT ![s] = Updated(f, file[f], s, rendered)]
          /\ torn' = IF WindowOpen(s) THEN torn \union {f} ELSE torn
          /\ Goto(s, "truncate")
       \/ /\ file[f].state = "garbled"
          /\ torn' = torn
          /\ NextFile(s)
    /\ UNCHANGED <<fileVars, writer, overlaid, missed>>

\* os.WriteFile: first the truncation, which may fail, then the write.
Truncate(s) ==
    /\ At(s, "truncate")
    /\ LET f == FileOf(s) IN
       \/ /\ file' = [file EXCEPT ![f] = Blank("empty")]
          /\ torn' = IF WindowOpen(s) THEN torn \union {f} ELSE torn
          /\ Goto(s, "write") /\ config' = config
       \/ file' = file /\ torn' = torn /\ NextFile(s)
    /\ UNCHANGED <<agent, restarting, writer, overlaid, missed>>

\* Mutant: UpdateTags returns after the write.
WriteWithoutReload(s) ==
    /\ At(s, "write")
    /\ file' = [file EXCEPT ![FileOf(s)] = config[s]]
    /\ writer' = [writer EXCEPT ![FileOf(s)] = s]
    /\ NextFile(s)
    /\ UNCHANGED <<agent, restarting, torn, overlaid, missed>>

\* What the file is when new is written over old from its start.  A shorter text leaves the
\* tail of the longer one: it cannot be parsed, or, when a line happens to begin there, it
\* adds the last tags of old and what the operator's settings have after them.
WrittenOver(new, old) ==
    LET tails == {Restrict(old.tags, kept) : kept \in SUBSET BagToSet(old.tags)}
        settings == {new} \union {c \in {old} : c.own /\ ~new.own}
    IN {new, Blank("garbled")} \union
       {[state |-> "text", own |-> c.own, tags |-> new.tags (+) tail,
         hasList |-> c.hasList, piped |-> c.piped] : c \in settings, tail \in tails}

\* Sessions that all truncated the file write over each other.  A failed write leaves what
\* there is.
Write(s) ==
    /\ At(s, "write")
    /\ LET f == FileOf(s) IN
       \/ /\ \/ /\ file[f].state = "empty"
                /\ file' = [file EXCEPT ![f] = config[s]] /\ overlaid' = overlaid \ {f}
             \/ /\ file[f].state # "empty"
                /\ file' \in {[file EXCEPT ![f] = x] : x \in WrittenOver(config[s], file[f])}
                /\ overlaid' = overlaid \union {f}
          /\ writer' = [writer EXCEPT ![f] = s]
          /\ torn' = torn /\ missed' = missed
          /\ Goto(s, "reload") /\ config' = config
       \/ /\ file' = file /\ writer' = writer /\ overlaid' = overlaid
          /\ torn' = torn \union {f} /\ missed' = missed \union {f}
          /\ NextFile(s)
    /\ UNCHANGED <<agent, restarting>>

\* The command that restarts the agent succeeds or not.
ReloadAgent(s) ==
    /\ At(s, "reload")
    /\ \/ restarting' = restarting \union {FileOf(s)} /\ missed' = missed
       \/ restarting' = restarting /\ missed' = missed \union {FileOf(s)}
    /\ NextFile(s)
    /\ UNCHANGED <<file, agent, writer, torn, overlaid>>

\* The wrapper is killed.
Die(s) ==
    /\ pc[s] \notin {"idle", "handed", "dead"}
    /\ torn' = IF At(s, "write") THEN torn \union {FileOf(s)} ELSE torn
    /\ missed' = IF pc[s] \in {"write", "reload"} THEN missed \union {FileOf(s)} ELSE missed
    /\ Goto(s, "dead") /\ config' = [config EXCEPT ![s] = Blank("text")]
    /\ UNCHANGED <<fileVars, writer, overlaid>>

\* systemd starts the agent, which reads the file once.
AgentStarts(f) ==
    /\ f \in restarting
    /\ agent' = [agent EXCEPT ![f] = file[f]]
    /\ restarting' = restarting \ {f}
    /\ UNCHANGED <<file, pc, at, config, histVars>>

-----------------------------------------------------------------------------

UpdateTags(s) ==
    CheckWritePermissions(s) \/ ReadConfig(s) \/ Truncate(s) \/ Write(s) \/ ReloadAgent(s)

Next ==
    \/ \E s \in Session : Begin(s) \/ UpdateTags(s) \/ Die(s)
    \/ \E f \in Enabled : AgentStarts(f)

Spec == Init /\ [][Next]_vars

-----------------------------------------------------------------------------
(* Properties.                                                             *)

\* A file that a session wrote names no other session and no tag twice, whichever of the
\* templates could be rendered then and in the sessions before, and lists the processor
\* once in the operator's pipeline if that has a list.  It may be a mixture of two sessions
\* only while its last write was laid over the text of another one that had truncated the
\* file too: the next session that can parse the mixture and writes alone removes it.
TagsAreOfOneSession ==
    \A f \in Enabled \ overlaid : file[f].state = "text" /\ writer[f] # "operator" =>
        /\ \A e \in BagToSet(file[f].tags) :
              e.tag \in Tag => e.of = writer[f] /\ file[f].tags[e] = 1
        /\ f = "otelcol" /\ file[f].own => file[f].piped = IF file[f].hasList THEN 1 ELSE 0

\* The operator's settings are lost in one way only: a wrapper died or failed inside
\* the write of the file, or another one used the file meanwhile.
SettingsLostOnlyByTearing ==
    \A f \in Present :
        f \notin torn /\ ~file[f].own => \E s \in Session : At(s, "write") /\ FileOf(s) = f

\* When no session is about to write the file or to restart its agent, the agent runs
\* with the file as it is, unless a restart failed or its wrapper died before it.
AgentIsCurrent ==
    \A f \in Enabled :
        /\ f \notin missed /\ f \notin restarting
        /\ \A s \in Session : pc[s] \in {"write", "reload"} => FileOf(s) # f
        => agent[f] = Loaded(file[f])
=============================================================================
