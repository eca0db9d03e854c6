------------------------------- MODULE Notifier -------------------------------
(***************************************************************************)
(* What the hosting provider may expect of the orchestration sender        *)
(* (pkg/orchestration, behind the interface CustomMessageSender): a call   *)
(* ends with or without an error, or panics, or its request hangs and it   *)
(* never ends.  GameLift is built on these actions; Sender implements them. *)
(***************************************************************************)
EXTENDS FiniteSets

CONSTANTS
    StartCalls,      \* the calls of OnStartGameSession
    TermCalls,       \* the calls of OnHostingTerminate
    UpdateCalls,     \* the calls of OnUpdateGameSession
    EmitEvents,      \* cfg.EmitCustomEvents
    SendCanFail      \* whether requests may fail and tokens be refused

Callback == StartCalls \union TermCalls \union UpdateCalls

VARIABLES
    notice,        \* each call: "idle", "sending", "sent" or "failed"
    gameSession,   \* gameSession # nil
    atRisk,        \* calls that may find the shared token gone
    crashed        \* a call panicked

vars == <<notice, gameSession, atRisk, crashed>>

Init ==
    /\ notice = [c \in Callback |-> "idle"]
    /\ gameSession = FALSE /\ atRisk = {} /\ crashed = FALSE

Sending == {c \in Callback : notice[c] = "sending"}

\* OnStartGameSession remembers the session before it sends.
Begin(c) ==
    /\ notice[c] = "idle"
    /\ notice' = [notice EXCEPT ![c] = "sending"]
    /\ gameSession' = (gameSession \/ (EmitEvents /\ c \in StartCalls))
    /\ UNCHANGED <<atRisk, crashed>>

\* OnHostingTerminate needs the session that OnStartGameSession remembered.
HasSession(c) == EmitEvents /\ c \in TermCalls => gameSession

Succeed(c) ==
    /\ notice[c] = "sending" /\ HasSession(c)
    /\ notice' = [notice EXCEPT ![c] = "sent"]
    /\ UNCHANGED <<gameSession, atRisk, crashed>>

\* A failed attempt to renew the token may take it from the other calls.
Fail(c) ==
    /\ notice[c] = "sending" /\ HasSession(c)
    /\ EmitEvents /\ SendCanFail
    /\ notice' = [notice EXCEPT ![c] = "failed"]
    /\ atRisk' \in {atRisk, atRisk \union (Sending \ {c})}
    /\ UNCHANGED <<gameSession, crashed>>

Panic(c) ==
    /\ notice[c] = "sending"
    /\ ~HasSession(c) \/ c \in atRisk
    /\ crashed' = TRUE
    /\ UNCHANGED <<notice, gameSession, atRisk>>

Next == \E c \in Callback : Begin(c) \/ Succeed(c) \/ Fail(c) \/ Panic(c)

Spec == Init /\ [][Next]_vars
=============================================================================
