-------------------------------- MODULE Sender --------------------------------
(***************************************************************************)
(* The orchestration sender, pkg/orchestration/sender.go, with the token   *)
(* handler interserverauth/handler.go and the HTTP helper                  *)
(* pkg/helpers/request.go.  The callbacks of the hosting provider call it  *)
(* concurrently; they share one bearer token behind a mutex, which is      *)
(* held for one operation on the token at a time.  Events are enabled.     *)
(***************************************************************************)
EXTENDS Integers, Sequences, FiniteSets

CONSTANTS
    StartCalls,      \* the calls of OnStartGameSession
    TermCalls,       \* the calls of OnHostingTerminate
    UpdateCalls      \* the calls of OnUpdateGameSession

ASSUME SenderAssumption ==
    /\ StartCalls \intersect TermCalls = {}
    /\ UpdateCalls \intersect (StartCalls \union TermCalls) = {}

Callback == StartCalls \union TermCalls \union UpdateCalls

None == 0   \* the nil token; the others are numbered as they are issued

VARIABLES
    gameSession,    \* gameSession # nil
    token, fresh,   \* the token of the handler, and whether it is valid by its expiry
    issued,         \* number of valid tokens issued so far
    mutex,          \* tokenMutex is held by these callers, at most one
    pc,             \* the callers
    used,           \* the tokens each caller sent its event with
    \* History: the last answer to each caller, how often the service took its event,
    \* the callers that deleted the token, the callers sending at that moment.
    answer, taken, wiped, atRisk,
    crashed         \* a caller panicked, which ends the process

authVars == <<token, fresh, issued, mutex>>
histVars == <<answer, taken, wiped, atRisk>>
vars == <<gameSession, authVars, pc, used, histVars, crashed>>

Init ==
    /\ gameSession = FALSE
    /\ token = None /\ fresh = FALSE /\ issued = 0 /\ mutex = {}
    /\ pc = [c \in Callback |-> "idle"] /\ used = [c \in Callback |-> <<>>]
    /\ answer = [c \in Callback |-> "none"] /\ taken = [c \in Callback |-> 0]
    /\ wiped = {} /\ atRisk = {} /\ crashed = FALSE

Goto(c, l) == pc' = [pc EXCEPT ![c] = l]

Panic(c) == crashed' = TRUE /\ UNCHANGED <<gameSession, authVars, pc, used, histVars>>

\* Callers inside OnStartGameSession, OnHostingTerminate or OnUpdateGameSession.
Sending == {c \in Callback : pc[c] \notin {"idle", "done", "failed"}}

Attempts(c) == Len(used[c])

-----------------------------------------------------------------------------
(* The three operations of the sender up to emitEvent.                     *)

\* Mutant: the session is not remembered.
BeginForgetful(c) ==
    /\ pc[c] = "idle"
    /\ Goto(c, "event")
    /\ UNCHANGED <<gameSession, authVars, used, histVars, crashed>>

\* OnStartGameSession remembers the session.
Begin(c) ==
    /\ pc[c] = "idle"
    /\ Goto(c, "event")
    /\ gameSession' = (gameSession \/ c \in StartCalls)
    /\ UNCHANGED <<authVars, used, histVars, crashed>>

\* OnHostingTerminate reads the id of a session that may not be there.
BuildEvent(c) ==
    /\ pc[c] = "event"
    /\ \/ /\ c \in TermCalls => gameSession
          /\ Goto(c, "check")
          /\ UNCHANGED <<gameSession, authVars, used, histVars, crashed>>
       \/ c \in TermCalls /\ ~gameSession /\ Panic(c)

-----------------------------------------------------------------------------
(* The token.                                                              *)

\* Mutant: a token that is missing counts as valid.
CheckTokenOnlyExpiry(c) ==
    /\ pc[c] = "check"
    /\ mutex = {}
    /\ Goto(c, IF token = None \/ fresh THEN "header" ELSE "acquire")
    /\ UNCHANGED <<gameSession, authVars, used, histVars, crashed>>

\* IsValidAccessToken
CheckToken(c) ==
    /\ pc[c] = "check"
    /\ mutex = {}
    /\ Goto(c, IF token # None /\ fresh THEN "header" ELSE "acquire")
    /\ UNCHANGED <<gameSession, authVars, used, histVars, crashed>>

\* AcquireAccessToken keeps the mutex during its request.
BeginAcquire(c) ==
    /\ pc[c] = "acquire"
    /\ mutex = {}
    /\ mutex' = {c}
    /\ Goto(c, "acquiring")
    /\ UNCHANGED <<gameSession, token, fresh, issued, used, histVars, crashed>>

Acquired(c) ==
    /\ pc[c] = "acquiring"
    /\ issued' = issued + 1 /\ token' = issued' /\ fresh' = TRUE
    /\ mutex' = {}
    /\ Goto(c, "header")
    /\ UNCHANGED <<gameSession, used, histVars, crashed>>

\* Mutant: the error path forgets the mutex.
AcquireFailsLocked(c) ==
    /\ pc[c] = "acquiring"
    /\ Goto(c, "failed")
    /\ UNCHANGED <<gameSession, authVars, used, histVars, crashed>>

\* The request failed or was answered 401: the old token stays.
AcquireFails(c) ==
    /\ pc[c] = "acquiring"
    /\ mutex' = {}
    /\ Goto(c, "failed")
    /\ UNCHANGED <<gameSession, token, fresh, issued, used, histVars, crashed>>

\* Any other answer is taken for a token; one that is not valid is deleted.
AcquireInvalid(c) ==
    /\ pc[c] = "acquiring"
    /\ token' = None /\ fresh' = FALSE
    /\ mutex' = {}
    /\ wiped' = wiped \union {c}
    /\ atRisk' = atRisk \union (Sending \ {c})
    /\ Goto(c, "failed")
    /\ UNCHANGED <<gameSession, issued, used, answer, taken, crashed>>

Expire ==
    /\ fresh
    /\ fresh' = FALSE
    /\ UNCHANGED <<gameSession, token, issued, mutex, pc, used, histVars, crashed>>

\* Mutant: the retry keeps the header of the first request.
GetAuthHeaderOnce(c) ==
    /\ pc[c] = "header"
    /\ mutex = {}
    /\ \/ /\ token # None
          /\ used' = [used EXCEPT ![c] = Append(@, IF Attempts(c) = 1 THEN @[1] ELSE token)]
          /\ Goto(c, "send")
          /\ UNCHANGED <<gameSession, authVars, histVars, crashed>>
       \/ token = None /\ Panic(c)

\* GetAuthHeader, which does not expect the token to be nil.
GetAuthHeader(c) ==
    /\ pc[c] = "header"
    /\ mutex = {}
    /\ \/ /\ token # None
          /\ used' = [used EXCEPT ![c] = Append(@, token)]
          /\ Goto(c, "send")
          /\ UNCHANGED <<gameSession, authVars, histVars, crashed>>
       \/ token = None /\ Panic(c)

-----------------------------------------------------------------------------
(* The request of emitEvent and its answer.                                *)

Answer(c, a, n, l) ==
    /\ pc[c] = "send"
    /\ answer' = [answer EXCEPT ![c] = a]
    /\ taken' = [taken EXCEPT ![c] = @ + n]
    /\ Goto(c, l)
    /\ UNCHANGED <<gameSession, authVars, used, wiped, atRisk, crashed>>

AnswerAccepted(c) == Answer(c, "accepted", 1, "done")

\* Any status but 401 counts as success.
AnswerRefused(c) == Answer(c, "refused", 0, "done")

\* 401: the event is sent again, with a new token; a second 401 ends it as a success.
AnswerUnauthorised(c) ==
    Answer(c, "unauthorised", 0, IF Attempts(c) = 1 THEN "acquire" ELSE "done")

\* Mutant: every failed request is repeated.
AfterErrorRetry(c) == IF Attempts(c) = 1 THEN "acquire" ELSE "done"

\* Mutant: the error of the first request is dropped as well.
AfterErrorDropped(c) == "done"

\* The error of the first request is returned, that of the second is dropped.
AfterError(c) == IF Attempts(c) = 1 THEN "failed" ELSE "done"

\* No answer: the service may have taken the event or not.
AnswerLost(c) == \E n \in {0, 1} : Answer(c, "lost", n, AfterError(c))

-----------------------------------------------------------------------------

TokenStep(c) ==
    \/ CheckToken(c) \/ BeginAcquire(c) \/ Acquired(c) \/ AcquireFails(c) \/ AcquireInvalid(c)
    \/ GetAuthHeader(c)

AnswerStep(c) ==
    AnswerAccepted(c) \/ AnswerRefused(c) \/ AnswerUnauthorised(c) \/ AnswerLost(c)

Step(c) == BuildEvent(c) \/ TokenStep(c) \/ AnswerStep(c)

Next ==
    /\ ~crashed
    /\ Expire \/ \E c \in Callback : Begin(c) \/ Step(c)

Spec == Init /\ [][Next]_vars

\* A goroutine that waits for the mutex gets it (Go's mutexes do not starve).  Nothing
\* obliges a request to end: http.DefaultClient has no timeout and request.go makes the
\* request without the context, so the services may leave a caller waiting for ever.
FairSpec ==
    Spec /\ \A c \in Callback :
        /\ WF_vars(~crashed /\ BuildEvent(c))
        /\ SF_vars(~crashed /\ (CheckToken(c) \/ BeginAcquire(c) \/ GetAuthHeader(c)))

-----------------------------------------------------------------------------
(* Properties.                                                             *)

\* A retry never carries the token that was refused, whoever else renews or deletes
\* the token in the meantime.
RetryCarriesNewToken == \A c \in Callback : Len(used[c]) = 2 => used[c][1] < used[c][2]

\* The service takes no event twice: only a refused event is sent again.
TakenAtMostOnce == \A c \in Callback : taken[c] <= 1

\* What a caller is told: an event counts as sent without an answer of the service only
\* if it was answered 401 first and the retry was lost or refused again, which is dropped;
\* one that counts as failed was not taken, unless its only answer was lost.
OutcomeTold ==
    \A c \in Callback :
        /\ pc[c] = "done" => answer[c] \in {"accepted", "refused"} \/ Len(used[c]) = 2
        /\ pc[c] = "failed" /\ taken[c] = 1 => answer[c] = "lost" /\ Len(used[c]) = 1

\* A caller panics for two reasons only: a terminate event before any session, or a
\* token that another caller deleted between the caller's check and its use.
PanicExplained ==
    crashed => \/ ~gameSession /\ \E c \in TermCalls : pc[c] = "event"
               \/ \E c \in atRisk : pc[c] = "header" /\ wiped \ {c} # {}

\* Every event that is begun is done with, unless its own request is never answered or
\* somebody's request for a token, over which the mutex is held: no path of the token
\* handler keeps the mutex, and a request that hangs outside it blocks nobody else.
EmissionEnds ==
    \A c \in Callback :
        []<>(pc[c] # "send") /\ (\A d \in Callback : []<>(pc[d] # "acquiring")) =>
            (pc[c] = "event" ~> pc[c] \in {"done", "failed"} \/ crashed)

\* The sender does what the provider expects of it.
N == INSTANCE Notifier WITH
    EmitEvents <- TRUE, SendCanFail <- TRUE,
    notice <- [c \in Callback |->
                 CASE pc[c] = "idle"   -> "idle"
                   [] pc[c] = "done"   -> "sent"
                   [] pc[c] = "failed" -> "failed"
                   [] OTHER            -> "sending"]

ImplementsNotifier == N!Spec
=============================================================================
