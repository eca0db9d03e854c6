----------------------------- MODULE Sender_proofs ----------------------------
(***************************************************************************)
(* Theorems about Sender, for every set of callers: what a retry carries,  *)
(* how often the service takes an event, why a caller panics, and that the *)
(* sender implements Notifier, on which the hosting provider is built.     *)
(***************************************************************************)
EXTENDS Sender, TLAPS

Place == {"idle", "event", "check", "acquire", "acquiring", "header", "send", "done", "failed"}

\* Types, as far as the proofs need them.
TypeInv ==
    /\ gameSession \in BOOLEAN /\ fresh \in BOOLEAN /\ crashed \in BOOLEAN
    /\ issued \in Nat /\ token \in Nat /\ token <= issued
    /\ pc \in [Callback -> Place]
    /\ used \in [Callback -> Seq(Nat)]
    /\ taken \in [Callback -> Nat]
    /\ wiped \subseteq Callback /\ atRisk \subseteq Callback

\* How many requests a caller has sent where it is, and what they carried.
AttemptInv ==
    \A c \in Callback :
        /\ pc[c] \in {"idle", "event", "check"} => Len(used[c]) = 0
        /\ pc[c] \in {"acquire", "acquiring", "header"} => Len(used[c]) <= 1
        /\ Len(used[c]) <= 2
        /\ Len(used[c]) >= 1 => used[c][1] <= issued
        /\ pc[c] = "header" /\ Len(used[c]) = 1 /\ token # None => used[c][1] < token
        /\ Len(used[c]) = 2 => used[c][1] < used[c][2]

\* The service takes no event of a caller that is not done with it.
TakenInv ==
    \A c \in Callback : taken[c] <= 1 /\ (pc[c] \notin {"done", "failed"} => taken[c] = 0)

\* A terminate event that was built belongs to a session; a caller that is about to use
\* a token that is gone is a victim of another caller.
SessionInv == \A c \in TermCalls : pc[c] \notin {"idle", "event"} => gameSession

VictimInv ==
    \A c \in Callback : pc[c] = "header" /\ token = None => c \in atRisk /\ wiped \ {c} # {}

-----------------------------------------------------------------------------

LEMMA AppendFacts ==
    ASSUME NEW s \in Seq(Nat), NEW e \in Nat
    PROVE  /\ Append(s, e) \in Seq(Nat) /\ Len(Append(s, e)) = Len(s) + 1
           /\ Len(s) = 0 => Append(s, e)[1] = e
           /\ Len(s) = 1 => Append(s, e)[1] = s[1] /\ Append(s, e)[2] = e
<1>1. Len(s) \in Nat /\ Append(s, e) \in Seq(Nat) /\ Len(Append(s, e)) = Len(s) + 1
  OBVIOUS
<1>2. Append(s, e)[Len(s) + 1] = e /\ \A i \in 1..Len(s) : Append(s, e)[i] = s[i]
  OBVIOUS
<1> QED BY <1>1, <1>2

LEMMA TypeInit == Init => TypeInv
<1> SUFFICES ASSUME Init PROVE TypeInv
  OBVIOUS
<1>1. used \in [Callback -> Seq(Nat)]
  BY DEF Init
<1>2. pc \in [Callback -> Place]
  BY DEF Init, Place
<1>3. taken \in [Callback -> Nat] /\ wiped \subseteq Callback /\ atRisk \subseteq Callback
  BY DEF Init
<1>4. gameSession \in BOOLEAN /\ fresh \in BOOLEAN /\ crashed \in BOOLEAN
  BY DEF Init
<1>5. issued = 0 /\ token = 0
  BY DEF Init, None
<1> QED BY <1>1, <1>2, <1>3, <1>4, <1>5 DEF TypeInv

LEMMA TypeNext == TypeInv /\ [Next]_vars => TypeInv'
<1> SUFFICES ASSUME TypeInv, [Next]_vars PROVE TypeInv'
  OBVIOUS
<1> USE DEF TypeInv, Place
<1>1. CASE UNCHANGED vars
  BY <1>1 DEF vars, authVars, histVars
<1>2. CASE Expire
  BY <1>2 DEF Expire, histVars
<1>3. ASSUME NEW c \in Callback, Begin(c) PROVE TypeInv'
  BY <1>3 DEF Begin, Goto, authVars, histVars
<1>4. ASSUME NEW c \in Callback, BuildEvent(c) PROVE TypeInv'
  BY <1>4 DEF BuildEvent, Goto, Panic, authVars, histVars
<1>5. ASSUME NEW c \in Callback, CheckToken(c) \/ BeginAcquire(c) \/ AcquireFails(c)
      PROVE TypeInv'
  BY <1>5 DEF CheckToken, BeginAcquire, AcquireFails, Goto, authVars, histVars
<1>6. ASSUME NEW c \in Callback, Acquired(c) PROVE TypeInv'
  BY <1>6 DEF Acquired, Goto, histVars
<1>7. ASSUME NEW c \in Callback, AcquireInvalid(c) PROVE TypeInv'
  <2>1. /\ token' = 0 /\ fresh' = FALSE /\ UNCHANGED <<gameSession, issued, used, taken, crashed>>
        /\ pc' = [pc EXCEPT ![c] = "failed"]
    BY <1>7 DEF AcquireInvalid, Goto, None
  <2>2. wiped' \subseteq Callback /\ atRisk' \subseteq Callback
    BY <1>7 DEF AcquireInvalid, Sending
  <2>3. pc' \in [Callback -> Place]
    BY <2>1
  <2>4. token' \in Nat /\ token' <= issued' /\ issued' \in Nat
    BY <2>1
  <2> QED BY <2>1, <2>2, <2>3, <2>4
<1>8. ASSUME NEW c \in Callback, GetAuthHeader(c) PROVE TypeInv'
  <2>1. used' \in [Callback -> Seq(Nat)]
    <3>1. CASE token = None
      BY <1>8, <3>1 DEF GetAuthHeader, Panic, authVars
    <3>2. CASE token # None
      <4>1. Append(used[c], token) \in Seq(Nat)
        BY AppendFacts
      <4>2. used' = [used EXCEPT ![c] = Append(used[c], token)]
        BY <1>8, <3>2 DEF GetAuthHeader, Panic
      <4> QED BY <4>1, <4>2
    <3> QED BY <3>1, <3>2
  <2> QED BY <1>8, <2>1 DEF GetAuthHeader, Goto, Panic, authVars, histVars
<1>9. ASSUME NEW c \in Callback, AnswerStep(c) PROVE TypeInv'
  <2>1. PICK n \in {0, 1}, l \in Place :
            /\ taken' = [taken EXCEPT ![c] = @ + n]
            /\ pc' = [pc EXCEPT ![c] = l]
    BY <1>9 DEF AnswerStep, AnswerAccepted, AnswerRefused, AnswerUnauthorised, AnswerLost, Answer,
                AfterError, Goto
  <2>2. taken' \in [Callback -> Nat] /\ pc' \in [Callback -> Place]
    BY <2>1
  <2>3. UNCHANGED <<gameSession, authVars, used, wiped, atRisk, crashed>>
    BY <1>9 DEF AnswerStep, AnswerAccepted, AnswerRefused, AnswerUnauthorised, AnswerLost, Answer
  <2> QED BY <2>2, <2>3 DEF authVars
<1> QED BY <1>1, <1>2, <1>3, <1>4, <1>5, <1>6, <1>7, <1>8, <1>9 DEF Next, Step, TokenStep

LEMMA AttemptInit == Init => AttemptInv
  BY DEF Init, AttemptInv

LEMMA AttemptNext == TypeInv /\ AttemptInv /\ [Next]_vars => AttemptInv'
<1> SUFFICES ASSUME TypeInv, AttemptInv, [Next]_vars PROVE AttemptInv'
  OBVIOUS
<1> USE DEF TypeInv, Place
<1>1. CASE UNCHANGED vars
  BY <1>1 DEF vars, authVars, AttemptInv
<1>2. CASE Expire
  BY <1>2 DEF Expire, AttemptInv
<1>3. ASSUME NEW c \in Callback, Begin(c) \/ BuildEvent(c) PROVE AttemptInv'
  BY <1>3 DEF Begin, BuildEvent, Goto, Panic, authVars, AttemptInv
<1>4. ASSUME NEW c \in Callback, CheckToken(c) \/ BeginAcquire(c) \/ AcquireFails(c)
      PROVE AttemptInv'
  <2>1. UNCHANGED <<token, issued, used>>
    BY <1>4 DEF CheckToken, BeginAcquire, AcquireFails, authVars
  <2>2. /\ \A o \in Callback \ {c} : pc'[o] = pc[o]
        /\ pc[c] \in {"check", "acquire", "acquiring"}
        /\ pc'[c] \in {"header", "acquire", "acquiring", "failed"}
        /\ pc'[c] = "header" => pc[c] = "check"
    BY <1>4 DEF CheckToken, BeginAcquire, AcquireFails, Goto
  <2> QED BY <2>1, <2>2 DEF AttemptInv
<1>5. ASSUME NEW c \in Callback, Acquired(c) PROVE AttemptInv'
  BY <1>5 DEF Acquired, Goto, AttemptInv
<1>6. ASSUME NEW c \in Callback, AcquireInvalid(c) PROVE AttemptInv'
  BY <1>6 DEF AcquireInvalid, Goto, AttemptInv
<1>7. ASSUME NEW c \in Callback, GetAuthHeader(c) PROVE AttemptInv'
  <2>1. CASE token = None
    BY <1>7, <2>1 DEF GetAuthHeader, Panic, authVars, AttemptInv
  <2>2. CASE token # None
    <3>1. /\ used' = [used EXCEPT ![c] = Append(used[c], token)]
          /\ pc' = [pc EXCEPT ![c] = "send"] /\ pc[c] = "header"
          /\ token' = token /\ issued' = issued
      BY <1>7, <2>2 DEF GetAuthHeader, Goto, Panic, authVars
    <3>2. ASSUME NEW o \in Callback, o # c PROVE used'[o] = used[o] /\ pc'[o] = pc[o]
      BY <3>1, <3>2
    <3>3. used'[c] = Append(used[c], token) /\ pc'[c] = "send"
      BY <3>1
    <3>4. Len(used[c]) <= 1 /\ Len(used[c]) \in Nat /\ used[c] \in Seq(Nat)
      BY <3>1 DEF AttemptInv
    <3>5. CASE Len(used[c]) = 0
      <4>1. Len(used'[c]) = 1 /\ used'[c][1] = token
        BY <3>3, <3>4, <3>5, AppendFacts
      <4> QED BY <3>1, <3>2, <3>3, <4>1 DEF AttemptInv
    <3>6. CASE Len(used[c]) = 1
      <4>1. Len(used'[c]) = 2 /\ used'[c][1] = used[c][1] /\ used'[c][2] = token
        BY <3>3, <3>4, <3>6, AppendFacts
      <4>2. used[c][1] < token /\ used[c][1] <= issued
        BY <2>2, <3>1, <3>6 DEF AttemptInv
      <4> QED BY <3>1, <3>2, <3>3, <4>1, <4>2 DEF AttemptInv
    <3>7. Len(used[c]) = 0 \/ Len(used[c]) = 1
      <4> DEFINE n == Len(used[c])
      <4>1. n \in Nat /\ n <= 1
        BY <3>4
      <4> HIDE DEF n
      <4>2. n = 0 \/ n = 1
        BY <4>1
      <4> QED BY <4>2 DEF n
    <3> QED BY <3>5, <3>6, <3>7
  <2> QED BY <2>1, <2>2
<1>8. ASSUME NEW c \in Callback, AnswerStep(c) PROVE AttemptInv'
  <2>1. UNCHANGED <<token, issued, used>>
    BY <1>8 DEF AnswerStep, AnswerAccepted, AnswerRefused, AnswerUnauthorised, AnswerLost, Answer,
                authVars
  <2>2. /\ \A o \in Callback \ {c} : pc'[o] = pc[o]
        /\ pc'[c] \in {"acquire", "done", "failed"}
        /\ pc'[c] = "acquire" => Len(used[c]) = 1
    BY <1>8 DEF AnswerStep, AnswerAccepted, AnswerRefused, AnswerUnauthorised, AnswerLost, Answer,
                AfterError, Attempts, Goto
  <2>3. ASSUME NEW o \in Callback, o # c PROVE pc'[o] = pc[o] /\ used'[o] = used[o]
    BY <2>1, <2>2, <2>3
  <2>4. ASSUME NEW o \in Callback PROVE
            /\ pc'[o] = pc[o] \/ pc'[o] \in {"done", "failed"} \/ (pc'[o] = "acquire" /\ Len(used[o]) <= 1)
            /\ used'[o] = used[o]
    <3>1. Len(used[c]) = 1 => Len(used[c]) <= 1
      OBVIOUS
    <3> QED BY <2>1, <2>2, <2>3, <3>1
  <2> QED BY <2>1, <2>4 DEF AttemptInv
<1> QED BY <1>1, <1>2, <1>3, <1>4, <1>5, <1>6, <1>7, <1>8 DEF Next, Step, TokenStep

(* A retry never carries the token that was refused, however many callers renew or   *)
(* delete the token in the meantime.                                                 *)
THEOREM RetriesRenew == Spec => []RetryCarriesNewToken
<1>1. AttemptInv => RetryCarriesNewToken
  BY DEF AttemptInv, RetryCarriesNewToken
<1> QED BY TypeInit, TypeNext, AttemptInit, AttemptNext, <1>1, PTL DEF Spec

-----------------------------------------------------------------------------

LEMMA TakenInit == Init => TakenInv
  BY DEF Init, TakenInv

LEMMA TakenNext == TypeInv /\ TakenInv /\ [Next]_vars => TakenInv'
<1> SUFFICES ASSUME TypeInv, TakenInv, [Next]_vars PROVE TakenInv'
  OBVIOUS
<1> USE DEF TypeInv
<1>1. CASE UNCHANGED vars
  BY <1>1 DEF vars, histVars, TakenInv
<1>2. CASE Expire
  BY <1>2 DEF Expire, histVars, TakenInv
<1>3. ASSUME NEW c \in Callback, Begin(c) \/ BuildEvent(c) \/ TokenStep(c) PROVE TakenInv'
  <2>1. taken' = taken /\ pc[c] \notin {"done", "failed"} /\ \A o \in Callback \ {c} : pc'[o] = pc[o]
    BY <1>3 DEF Begin, BuildEvent, TokenStep, CheckToken, BeginAcquire, Acquired, AcquireFails,
                AcquireInvalid, GetAuthHeader, Goto, Panic, histVars
  <2> QED BY <2>1 DEF TakenInv
<1>4. ASSUME NEW c \in Callback, AnswerStep(c) PROVE TakenInv'
  <2>1. PICK n \in {0, 1} :
            /\ taken' = [taken EXCEPT ![c] = @ + n]
            /\ pc'[c] \in {"acquire", "done", "failed"}
            /\ pc'[c] = "acquire" => n = 0
    BY <1>4 DEF AnswerStep, AnswerAccepted, AnswerRefused, AnswerUnauthorised, AnswerLost, Answer,
                AfterError, Goto
  <2>2. pc[c] = "send" /\ \A o \in Callback \ {c} : pc'[o] = pc[o]
    BY <1>4 DEF AnswerStep, AnswerAccepted, AnswerRefused, AnswerUnauthorised, AnswerLost, Answer,
                Goto
  <2> QED BY <2>1, <2>2 DEF TakenInv
<1> QED BY <1>1, <1>2, <1>3, <1>4 DEF Next, Step

(* The service takes no event twice, for any number of callers and any answers.      *)
THEOREM TakenOnce == Spec => []TakenAtMostOnce
<1>1. TakenInv => TakenAtMostOnce
  BY DEF TakenInv, TakenAtMostOnce
<1> QED BY TypeInit, TypeNext, TakenInit, TakenNext, <1>1, PTL DEF Spec

-----------------------------------------------------------------------------

\* A caller that waits for an answer has sent a request; an answer that ends an event
\* tells what OutcomeTold says.
OutcomeInv ==
    /\ answer \in [Callback -> {"none", "accepted", "refused", "unauthorised", "lost"}]
    /\ OutcomeTold
    /\ \A c \in Callback : pc[c] = "send" => Len(used[c]) # 0

LEMMA OutcomeInit == Init => OutcomeInv
  BY DEF Init, OutcomeInv, OutcomeTold

LEMMA OutcomeNext == TypeInv /\ AttemptInv /\ TakenInv /\ OutcomeInv /\ [Next]_vars => OutcomeInv'
<1> SUFFICES ASSUME TypeInv, AttemptInv, TakenInv, OutcomeInv, [Next]_vars PROVE OutcomeInv'
  OBVIOUS
<1> USE DEF OutcomeInv, OutcomeTold
<1>1. CASE UNCHANGED vars
  BY <1>1 DEF vars, histVars
<1>2. CASE Expire
  BY <1>2 DEF Expire, histVars
<1>3. ASSUME NEW c \in Callback, Begin(c) \/ BuildEvent(c) \/ (TokenStep(c) /\ ~GetAuthHeader(c))
      PROVE OutcomeInv'
  <2>1. /\ UNCHANGED <<answer, taken, used>>
        /\ \/ pc[c] \notin {"done", "failed"} /\ pc'[c] \notin {"done", "send"}
           \/ pc' = pc
        /\ \A o \in Callback \ {c} : pc'[o] = pc[o]
    BY <1>3 DEF TypeInv, Begin, BuildEvent, TokenStep, CheckToken, BeginAcquire, Acquired,
                AcquireFails, AcquireInvalid, Goto, Panic, histVars
  <2>2. pc[c] \notin {"done", "failed"} => taken[c] = 0
    BY DEF TakenInv
  <2> QED BY <2>1, <2>2
<1>4. ASSUME NEW c \in Callback, GetAuthHeader(c) PROVE OutcomeInv'
  <2>1. CASE token = None
    BY <1>4, <2>1 DEF GetAuthHeader, Panic, histVars
  <2>2. CASE token # None
    <3>1. /\ used' = [used EXCEPT ![c] = Append(used[c], token)]
          /\ pc' = [pc EXCEPT ![c] = "send"] /\ UNCHANGED <<answer, taken>>
      BY <1>4, <2>2 DEF GetAuthHeader, Goto, Panic, histVars
    <3>2. ASSUME NEW o \in Callback, o # c PROVE used'[o] = used[o] /\ pc'[o] = pc[o]
      BY <3>1, <3>2
    <3>3. used'[c] = Append(used[c], token) /\ pc'[c] = "send"
      BY <3>1 DEF TypeInv
    <3>4. Len(used'[c]) # 0
      BY <3>3, AppendFacts DEF TypeInv
    <3> QED BY <3>1, <3>2, <3>3, <3>4
  <2> QED BY <2>1, <2>2
<1>5. ASSUME NEW c \in Callback, AnswerStep(c) PROVE OutcomeInv'
  <2>1. Len(used[c]) = 1 \/ Len(used[c]) = 2
    <3> DEFINE n == Len(used[c])
    <3>1. n \in Nat /\ n <= 2 /\ n # 0
      BY <1>5 DEF TypeInv, AttemptInv, AnswerStep, AnswerAccepted, AnswerRefused,
                  AnswerUnauthorised, AnswerLost, Answer
    <3> HIDE DEF n
    <3>2. n = 1 \/ n = 2
      BY <3>1
    <3> QED BY <3>2 DEF n
  <2>2. PICK a \in {"accepted", "refused", "unauthorised", "lost"},
             l \in {"acquire", "done", "failed"}, n \in {0, 1} :
            /\ Answer(c, a, n, l)
            /\ l = "done" => a \in {"accepted", "refused"} \/ Len(used[c]) = 2
            /\ l = "failed" => a = "lost" /\ Len(used[c]) = 1
    <3>1. CASE AnswerAccepted(c)
      BY <3>1 DEF AnswerAccepted
    <3>2. CASE AnswerRefused(c)
      BY <3>2 DEF AnswerRefused
    <3>3. CASE AnswerUnauthorised(c)
      BY <2>1, <3>3 DEF AnswerUnauthorised, Attempts
    <3>4. CASE AnswerLost(c)
      BY <2>1, <3>4 DEF AnswerLost, AfterError, Attempts
    <3> QED BY <1>5, <3>1, <3>2, <3>3, <3>4 DEF AnswerStep
  <2>3. /\ answer' = [answer EXCEPT ![c] = a] /\ pc' = [pc EXCEPT ![c] = l]
        /\ taken' = [taken EXCEPT ![c] = @ + n] /\ used' = used
    BY <2>2 DEF Answer, Goto
  <2>4. ASSUME NEW o \in Callback, o # c
        PROVE  pc'[o] = pc[o] /\ answer'[o] = answer[o] /\ taken'[o] = taken[o]
    BY <2>3, <2>4 DEF TypeInv
  <2>5. answer'[c] = a /\ pc'[c] = l
    BY <2>3 DEF TypeInv
  <2> QED BY <2>2, <2>3, <2>4, <2>5
<1> QED BY <1>1, <1>2, <1>3, <1>4, <1>5 DEF Next, Step, TokenStep

(* A caller is told that its event was sent without an answer only after a 401, and  *)
(* that it failed only if the service did not take it or its answer was lost.        *)
THEOREM OutcomesTold == Spec => []OutcomeTold
<1>1. OutcomeInv => OutcomeTold
  BY DEF OutcomeInv
<1> QED BY TypeInit, TypeNext, AttemptInit, AttemptNext, TakenInit, TakenNext, OutcomeInit,
           OutcomeNext, <1>1, PTL DEF Spec

-----------------------------------------------------------------------------

SharedInv == SessionInv /\ VictimInv

LEMMA SharedInit == Init => SharedInv
  BY DEF Init, SharedInv, SessionInv, VictimInv, Callback

LEMMA SharedNext == TypeInv /\ SharedInv /\ [Next]_vars => SharedInv'
<1> SUFFICES ASSUME TypeInv, SharedInv, [Next]_vars PROVE SharedInv'
  OBVIOUS
<1> USE DEF TypeInv, SharedInv
<1>0. TermCalls \subseteq Callback
  BY DEF Callback
<1>1. CASE UNCHANGED vars
  BY <1>1 DEF vars, authVars, histVars, SessionInv, VictimInv
<1>2. CASE Expire
  BY <1>2 DEF Expire, histVars, SessionInv, VictimInv
<1>3. ASSUME NEW c \in Callback, Begin(c) PROVE SharedInv'
  BY <1>0, <1>3 DEF Begin, Goto, authVars, histVars, SessionInv, VictimInv
<1>4. ASSUME NEW c \in Callback, BuildEvent(c) PROVE SharedInv'
  BY <1>0, <1>4 DEF BuildEvent, Goto, Panic, authVars, histVars, SessionInv, VictimInv
<1>5. ASSUME NEW c \in Callback, TokenStep(c), ~AcquireInvalid(c) PROVE SharedInv'
  <2>1. /\ UNCHANGED <<gameSession, wiped, atRisk>>
        /\ pc[c] \notin {"idle", "event"} /\ \A o \in Callback \ {c} : pc'[o] = pc[o]
    BY <1>5 DEF TokenStep, CheckToken, BeginAcquire, Acquired, AcquireFails, GetAuthHeader, Goto,
                Panic, histVars
  <2>2. \/ token' = token /\ (pc'[c] = "header" => token # None \/ pc[c] = "header")
        \/ token' # None
    BY <1>5 DEF TokenStep, CheckToken, BeginAcquire, Acquired, AcquireFails, GetAuthHeader, Goto,
                Panic, authVars, None
  <2> QED BY <1>0, <2>1, <2>2 DEF SessionInv, VictimInv
<1>6. ASSUME NEW c \in Callback, AcquireInvalid(c) PROVE SharedInv'
  <2>1. SessionInv'
    BY <1>0, <1>6 DEF AcquireInvalid, Goto, SessionInv
  <2>2. ASSUME NEW o \in Callback, pc'[o] = "header" PROVE o \in atRisk' /\ wiped' \ {o} # {}
    <3>1. o # c /\ pc[o] = "header"
      BY <1>6, <2>2 DEF AcquireInvalid, Goto
    <3> QED BY <1>6, <3>1 DEF AcquireInvalid, Sending
  <2> QED BY <2>1, <2>2 DEF VictimInv
<1>7. ASSUME NEW c \in Callback, AnswerStep(c) PROVE SharedInv'
  <2>1. /\ UNCHANGED <<gameSession, token, wiped, atRisk>>
        /\ pc[c] = "send" /\ pc'[c] # "header" /\ \A o \in Callback \ {c} : pc'[o] = pc[o]
    BY <1>7 DEF AnswerStep, AnswerAccepted, AnswerRefused, AnswerUnauthorised, AnswerLost, Answer,
                AfterError, Goto, authVars
  <2> QED BY <1>0, <2>1 DEF SessionInv, VictimInv
<1> QED BY <1>1, <1>2, <1>3, <1>4, <1>5, <1>6, <1>7 DEF Next, Step

LEMMA PanicInit == Init => PanicExplained
  BY DEF Init, PanicExplained

LEMMA PanicNext == TypeInv /\ SharedInv /\ PanicExplained /\ [Next]_vars => PanicExplained'
<1> SUFFICES ASSUME TypeInv, SharedInv, PanicExplained, [Next]_vars PROVE PanicExplained'
  OBVIOUS
<1>1. CASE UNCHANGED vars
  BY <1>1 DEF vars, histVars, PanicExplained
<1>2. ASSUME NEW c \in Callback, Panic(c), BuildEvent(c) PROVE PanicExplained'
  BY <1>2 DEF Panic, BuildEvent, PanicExplained, Goto, TypeInv, histVars
<1>3. ASSUME NEW c \in Callback, Panic(c), GetAuthHeader(c) PROVE PanicExplained'
  <2>1. pc[c] = "header" /\ token = None
    BY <1>3 DEF Panic, GetAuthHeader, Goto, TypeInv
  <2>2. c \in atRisk /\ wiped \ {c} # {}
    BY <2>1 DEF SharedInv, VictimInv
  <2> QED BY <1>3, <2>1, <2>2 DEF Panic, histVars, PanicExplained
<1>4. CASE Next /\ crashed' = crashed
  BY <1>4 DEF Next, PanicExplained
<1>5. CASE Next /\ crashed' # crashed
  <2>1. PICK c \in Callback : Begin(c) \/ Step(c)
    BY <1>5 DEF Next, Expire
  <2>2. Panic(c) /\ (BuildEvent(c) \/ GetAuthHeader(c))
    BY <1>5, <2>1 DEF Begin, Step, BuildEvent, TokenStep, CheckToken, BeginAcquire, Acquired,
         AcquireFails, AcquireInvalid, GetAuthHeader, AnswerStep, AnswerAccepted, AnswerRefused,
         AnswerUnauthorised, AnswerLost, Answer
  <2> QED BY <1>2, <1>3, <2>2
<1> QED BY <1>1, <1>4, <1>5

(* A caller panics only on a terminate event before any session, or on a token that  *)
(* another caller deleted, for any number of callers.                                *)
THEOREM PanicsExplained == Spec => []PanicExplained
  BY TypeInit, TypeNext, SharedInit, SharedNext, PanicInit, PanicNext, PTL DEF Spec

-----------------------------------------------------------------------------

\* What the provider knows of a caller at a point, as the refinement mapping says.
NoticeAt(l) == CASE l = "idle"   -> "idle"
                 [] l = "done"   -> "sent"
                 [] l = "failed" -> "failed"
                 [] OTHER        -> "sending"

notice == [c \in Callback |->
             CASE pc[c] = "idle"   -> "idle"
               [] pc[c] = "done"   -> "sent"
               [] pc[c] = "failed" -> "failed"
               [] OTHER            -> "sending"]

LEMMA NoticeOfCaller == \A c \in Callback : notice[c] = NoticeAt(pc[c])
  BY DEF notice, NoticeAt

LEMMA NoticeValues ==
    /\ NoticeAt("idle") = "idle" /\ NoticeAt("done") = "sent" /\ NoticeAt("failed") = "failed"
    /\ \A l \in Place \ {"idle", "done", "failed"} : NoticeAt(l) = "sending"
  BY DEF NoticeAt, Place

LEMMA NoticeMoves ==
    ASSUME TypeInv, NEW c \in Callback, NEW l \in Place, pc' = [pc EXCEPT ![c] = l]
    PROVE  notice' = [notice EXCEPT ![c] = NoticeAt(l)]
<1>1. notice' = [o \in Callback |-> NoticeAt(pc'[o])]
  BY DEF notice, NoticeAt
<1>2. notice = [o \in Callback |-> NoticeAt(pc[o])]
  BY DEF notice, NoticeAt
<1>3. \A o \in Callback : pc'[o] = IF o = c THEN l ELSE pc[o]
  BY DEF TypeInv
<1> QED BY <1>1, <1>2, <1>3

LEMMA NoticeInit == Init => N!Init
<1> SUFFICES ASSUME Init PROVE N!Init
  OBVIOUS
<1>1. notice = [c \in Callback |-> "idle"]
  BY DEF notice, Init
<1>2. gameSession = FALSE /\ atRisk = {} /\ crashed = FALSE
  BY DEF Init
<1> QED BY <1>1, <1>2 DEF N!Init, N!Callback, Callback, notice

\* A step that leaves a caller inside its call, or outside, is a stutter.
LEMMA Stutters ==
    ASSUME TypeInv, NEW c \in Callback, NEW l \in Place, pc' = [pc EXCEPT ![c] = l],
           NoticeAt(l) = NoticeAt(pc[c]), UNCHANGED <<gameSession, atRisk, crashed>>
    PROVE  UNCHANGED N!vars
<1>1. notice' = [notice EXCEPT ![c] = NoticeAt(l)]
  BY NoticeMoves
<1>2. notice' = notice
  BY <1>1, NoticeOfCaller DEF notice
<1> QED BY <1>2 DEF N!vars, notice, Callback, N!Callback

\* A caller is done with its event.
LEMMA Succeeds ==
    ASSUME TypeInv, SessionInv, NEW c \in Callback, NoticeAt(pc[c]) = "sending", pc[c] # "event",
           pc[c] # "idle", pc' = [pc EXCEPT ![c] = "done"], UNCHANGED <<gameSession, atRisk, crashed>>
    PROVE  N!Next
<1>1. notice' = [notice EXCEPT ![c] = "sent"]
  BY NoticeMoves, NoticeValues DEF Place
<1>2. notice[c] = "sending" /\ N!HasSession(c)
  BY NoticeOfCaller DEF N!HasSession, SessionInv
<1>3. N!Succeed(c)
  BY <1>1, <1>2 DEF N!Succeed, notice
<1> QED BY <1>3 DEF N!Next, N!Callback, Callback

\* A caller gives up, and may have deleted the token that the others are about to use.
LEMMA Fails ==
    ASSUME TypeInv, SessionInv, NEW c \in Callback, NoticeAt(pc[c]) = "sending", pc[c] # "event",
           pc[c] # "idle", pc' = [pc EXCEPT ![c] = "failed"], UNCHANGED <<gameSession, crashed>>,
           atRisk' = atRisk \/ atRisk' = atRisk \union (Sending \ {c})
    PROVE  N!Next
<1>1. notice' = [notice EXCEPT ![c] = "failed"]
  BY NoticeMoves, NoticeValues DEF Place
<1>2. notice[c] = "sending" /\ N!HasSession(c)
  BY NoticeOfCaller DEF N!HasSession, SessionInv
<1>3. {o \in Callback : notice[o] = "sending"} = Sending
  <2>1. \A o \in Callback : NoticeAt(pc[o]) = "sending" <=> pc[o] \notin {"idle", "done", "failed"}
    BY NoticeValues DEF TypeInv, Place
  <2> QED BY <2>1, NoticeOfCaller DEF Sending
<1>4. N!Sending = Sending
  BY <1>3 DEF N!Sending, N!Callback, Callback, notice
<1>5. N!Fail(c)
  BY <1>1, <1>2, <1>4 DEF N!Fail, notice
<1> QED BY <1>5 DEF N!Next, N!Callback, Callback

LEMMA NoticeNext == TypeInv /\ SharedInv /\ [Next]_vars => [N!Next]_(N!vars)
<1> SUFFICES ASSUME TypeInv, SharedInv, [Next]_vars PROVE N!Next \/ UNCHANGED N!vars
  OBVIOUS
<1>0. SessionInv /\ VictimInv
  BY DEF SharedInv
<1>1. CASE UNCHANGED vars
  BY <1>1 DEF vars, histVars, N!vars
<1>2. CASE Expire
  BY <1>2 DEF Expire, histVars, N!vars
<1>3. ASSUME NEW c \in Callback, Begin(c) PROVE N!Next
  <2>1. notice' = [notice EXCEPT ![c] = "sending"]
    <3>1. pc' = [pc EXCEPT ![c] = "event"] /\ NoticeAt("event") = "sending"
      BY <1>3, NoticeValues DEF Begin, Goto, Place
    <3> QED BY <3>1, NoticeMoves DEF Place
  <2>2. notice[c] = "idle"
    BY <1>3, NoticeOfCaller, NoticeValues DEF Begin
  <2>3. gameSession' = (gameSession \/ c \in StartCalls) /\ UNCHANGED <<atRisk, crashed>>
    BY <1>3 DEF Begin, histVars
  <2>4. N!Begin(c)
    BY <2>1, <2>2, <2>3 DEF N!Begin, notice
  <2> QED BY <2>4 DEF N!Next, N!Callback, Callback
<1>4. ASSUME NEW c \in Callback, Panic(c), BuildEvent(c) \/ GetAuthHeader(c) PROVE N!Next
  <2>1. UNCHANGED <<pc, gameSession, atRisk>> /\ crashed' = TRUE
    BY <1>4 DEF Panic, histVars
  <2>2. notice' = notice
    BY <2>1 DEF notice
  <2>3. /\ pc[c] \in {"event", "header"}
        /\ (c \in TermCalls /\ ~gameSession) \/ (pc[c] = "header" /\ token = None)
    BY <1>4 DEF BuildEvent, GetAuthHeader, Panic, Goto, TypeInv
  <2>4. notice[c] = "sending"
    BY <2>3, NoticeOfCaller, NoticeValues DEF Place
  <2>5. ~N!HasSession(c) \/ c \in atRisk
    BY <2>3, <1>0 DEF N!HasSession, VictimInv
  <2>6. N!Panic(c)
    BY <2>1, <2>2, <2>4, <2>5 DEF N!Panic, notice
  <2> QED BY <2>6 DEF N!Next, N!Callback, Callback
<1>5. ASSUME NEW c \in Callback, BuildEvent(c) \/ GetAuthHeader(c), ~Panic(c)
      PROVE UNCHANGED N!vars
  <2>1. PICK l \in {"check", "send"} : pc' = [pc EXCEPT ![c] = l]
    BY <1>5 DEF BuildEvent, GetAuthHeader, Goto
  <2>2. pc[c] \in {"event", "header"} /\ UNCHANGED <<gameSession, atRisk, crashed>>
    BY <1>5 DEF BuildEvent, GetAuthHeader, histVars
  <2>3. NoticeAt(l) = NoticeAt(pc[c]) /\ l \in Place
    BY <2>2, NoticeValues DEF Place
  <2> QED BY <2>1, <2>2, <2>3, Stutters
<1>6. ASSUME NEW c \in Callback, CheckToken(c) \/ BeginAcquire(c) \/ Acquired(c)
      PROVE UNCHANGED N!vars
  <2>1. PICK l \in {"header", "acquire", "acquiring"} : pc' = [pc EXCEPT ![c] = l]
    BY <1>6 DEF CheckToken, BeginAcquire, Acquired, Goto
  <2>2. pc[c] \in {"check", "acquire", "acquiring"} /\ UNCHANGED <<gameSession, atRisk, crashed>>
    BY <1>6 DEF CheckToken, BeginAcquire, Acquired, histVars
  <2>3. NoticeAt(l) = NoticeAt(pc[c]) /\ l \in Place
    BY <2>2, NoticeValues DEF Place
  <2> QED BY <2>1, <2>2, <2>3, Stutters
<1>7. ASSUME NEW c \in Callback, AcquireFails(c) \/ AcquireInvalid(c) PROVE N!Next
  <2>1. /\ pc[c] = "acquiring" /\ pc' = [pc EXCEPT ![c] = "failed"]
        /\ UNCHANGED <<gameSession, crashed>>
        /\ atRisk' = atRisk \/ atRisk' = atRisk \union (Sending \ {c})
    BY <1>7 DEF AcquireFails, AcquireInvalid, Goto, histVars
  <2>2. NoticeAt(pc[c]) = "sending"
    BY <2>1, NoticeValues DEF Place
  <2> QED BY <1>0, <2>1, <2>2, Fails
<1>8. ASSUME NEW c \in Callback, AnswerStep(c) PROVE N!Next \/ UNCHANGED N!vars
  <2>1. PICK l \in {"acquire", "done", "failed"} : pc' = [pc EXCEPT ![c] = l]
    BY <1>8 DEF AnswerStep, AnswerAccepted, AnswerRefused, AnswerUnauthorised, AnswerLost, Answer,
                AfterError, Goto
  <2>2. pc[c] = "send" /\ UNCHANGED <<gameSession, atRisk, crashed>>
    BY <1>8 DEF AnswerStep, AnswerAccepted, AnswerRefused, AnswerUnauthorised, AnswerLost, Answer
  <2>3. NoticeAt(pc[c]) = "sending" /\ NoticeAt("acquire") = "sending" /\ "acquire" \in Place
    BY <2>2, NoticeValues DEF Place
  <2>4. CASE l = "acquire"
    BY <2>1, <2>2, <2>3, <2>4, Stutters
  <2>5. CASE l = "done"
    BY <1>0, <2>1, <2>2, <2>3, <2>5, Succeeds
  <2>6. CASE l = "failed"
    BY <1>0, <2>1, <2>2, <2>3, <2>6, Fails
  <2> QED BY <2>4, <2>5, <2>6
<1> QED BY <1>1, <1>2, <1>3, <1>4, <1>5, <1>6, <1>7, <1>8 DEF Next, Step, TokenStep

(* The sender implements what the hosting provider is built on: every step of a      *)
(* caller, of the token handler or of an answer is a step of Notifier or a stutter.  *)
THEOREM SenderImplementsNotifier == Spec => ImplementsNotifier
  BY TypeInit, TypeNext, SharedInit, SharedNext, NoticeInit, NoticeNext,
     PTL DEF Spec, ImplementsNotifier, N!Spec
===============================================================================
