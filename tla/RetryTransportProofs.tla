------------------------ MODULE RetryTransportProofs -------------------------
(***************************************************************************)
(* For any calls, retry limit, classifiers, delays and headers: the        *)
(* retrying transport keeps IndInv, hence its safety properties, and it    *)
(* implements the safety part of Retry.                                    *)
(***************************************************************************)
EXTENDS RetryTransport, TLAPS

\* There is at least one attempt.
LEMMA MaxRetriesPositive == maxRetries \in Nat /\ maxRetries >= 1
  BY MaxRetriesInt DEF maxRetries

\* A step leaves call d as it is.
SameCall(d) ==
    /\ idempotent'[d] = idempotent[d] /\ reqBody'[d] = reqBody[d]
    /\ dead'[d] = dead[d] /\ pc'[d] = pc[d] /\ attempt'[d] = attempt[d]
    /\ prev'[d] = prev[d] /\ resp'[d] = resp[d] /\ err'[d] = err[d]
    /\ hint'[d] = hint[d] /\ delay'[d] = delay[d] /\ asked'[d] = asked[d]
    /\ ctx'[d] = ctx[d] /\ body'[d] = body[d] /\ sent'[d] = sent[d]
    /\ recorded'[d] = recorded[d] /\ result'[d] = result[d]

\* A step of one call leaves the others as they are.
LEMMA OthersUnmoved ==
    ASSUME TypeOK, NEW c \in Calls,
           RoundTrip(c) \/ Step(c) \/ CallerCtxEnds(c) \/ CallerCloses(c)
    PROVE  \A d \in Calls \ {c} : SameCall(d)
<1>1. CASE RoundTrip(c)
  BY <1>1 DEF TypeOK, SameCall, RoundTrip, At, SetErr, inputVars, delayVars
<1>2. CASE CheckCtx(c)
  BY <1>2 DEF TypeOK, SameCall, CheckCtx, At, SetErr, inputVars, delayVars
<1>3. CASE StartAttempt(c)
  BY <1>3 DEF TypeOK, SameCall, StartAttempt, At, drainClose, inputVars
<1>4. CASE AskBudget(c)
  BY <1>4 DEF TypeOK, SameCall, AskBudget, At, SetErr, inputVars, delayVars
<1>5. CASE Send(c)
  BY <1>5 DEF TypeOK, SameCall, Send, At, inputVars, delayVars
<1>6. CASE RewindFails(c)
  BY <1>6 DEF TypeOK, SameCall, RewindFails, At, SetErr, inputVars, delayVars
<1>7. CASE AttemptFails(c)
  <2>1. PICK e : err' = [err EXCEPT ![c] = e]
    BY <1>7 DEF AttemptFails, SetErr
  <2> QED
    BY <1>7, <2>1 DEF TypeOK, SameCall, AttemptFails, At, inputVars, delayVars
<1>8. CASE AttemptResponds(c)
  BY <1>8 DEF TypeOK, SameCall, AttemptResponds, At, SetErr, inputVars
<1>9. CASE AfterAttempt(c)
  BY <1>9 DEF TypeOK, SameCall, AfterAttempt, At, inputVars
<1>10. CASE SleepEnds(c)
  BY <1>10 DEF TypeOK, SameCall, SleepEnds, At, SetErr, inputVars
<1>11. CASE Result(c)
  BY <1>11 DEF TypeOK, SameCall, Result, At, drainClose, inputVars, delayVars
<1>12. CASE CallerCtxEnds(c)
  BY <1>12 DEF TypeOK, SameCall, CallerCtxEnds, inputVars, delayVars
<1>13. CASE CallerCloses(c)
  BY <1>13 DEF TypeOK, SameCall, CallerCloses, At, drainClose, inputVars, delayVars
<1> QED
  BY <1>1, <1>2, <1>3, <1>4, <1>5, <1>6, <1>7, <1>8, <1>9, <1>10, <1>11, <1>12, <1>13
     DEF Step

\* What is true of a call stays true while other calls move: calls share nothing
\* but the configuration.
LEMMA FrameKept ==
    ASSUME NEW d, CallInv(d), SameCall(d), nonIdem' = nonIdem
    PROVE  CallInv(d)'
<1>1. (PlaceSound(d) /\ RepeatSound(d))'
  BY DEF CallInv, SameCall, PlaceSound, RepeatSound, retryable
<1>2. \A n \in Attempts : LeaseExact(d, n)'
  BY DEF CallInv, SameCall, LeaseExact, Released, Live, Fresh
<1>3. (SentExact(d) /\ BudgetKept(d))'
  BY DEF CallInv, SameCall, SentExact, BudgetKept
<1>4. (CancelNoticed(d) /\ HintExact(d) /\ PauseHonoured(d))'
  BY DEF CallInv, SameCall, CancelNoticed, HintExact, PauseHonoured
<1> QED
  BY <1>1, <1>2, <1>3, <1>4 DEF CallInv

\* A remainder is no larger than what is divided, which it is if that is small.
LEMMA ModBound ==
    ASSUME NEW a \in Nat, NEW b \in Nat \ {0}
    PROVE  a % b \in Nat /\ a % b <= a /\ (a < b => a % b = a)
  OBVIOUS

\* int64 arithmetic does nothing to a number in range, and never makes a
\* number that is not negative larger.
LEMMA WrapFits ==
    ASSUME NEW x \in Nat
    PROVE  /\ Wrap(x) \in Int
           /\ Wrap(x) <= x
           /\ x <= MaxInt => Wrap(x) = x
<1> DEFINE m == MaxInt + 1
<1>1. m \in Nat /\ m >= 1
  BY DurationsFit
<1>2. (x + m) % (2 * m) \in Int /\ (x + m) % (2 * m) <= x + m
  BY <1>1, ModBound
<1>3. x < m => (x + m) % (2 * m) = x + m
  BY <1>1, ModBound
<1>4. x + MaxInt + 1 = x + m
  BY DurationsFit
<1> DEFINE q == (x + m) % (2 * m)
<1>5. Wrap(x) = q - m
  BY <1>4 DEF Wrap
<1>6. q \in Int /\ q <= x + m /\ (x < m => q = x + m)
  BY <1>2, <1>3
<1> HIDE DEF q
<1> QED
  BY <1>1, <1>5, <1>6, DurationsFit

\* A header that lets a response be held is what the server meant.
LEMMA WishHeld ==
    ASSUME NEW status, NEW h \in RetryAfters
    PROVE  /\ Wish(status, h) \in Nat
           /\ withinCap(parseRetryAfter(status, h)) =>
                /\ parseRetryAfter(status, h) = Wish(status, h)
                /\ Wish(status, h) <= MaxRetryAfter
<1>1. h.n \in Nat /\ h.n * Second \in Nat
  BY HeadersTyped, DurationsFit
<1> QED
  BY <1>1, DurationsFit DEF Wish, parseRetryAfter, withinCap

\* The hint is a floor with at most a tenth on top, the linear step a ceiling.
LEMMA NextDelayBounds ==
    ASSUME NEW n \in Nat, n >= 1, NEW h \in Nat, h <= MaxRetryAfter,
           NEW d \in nextDelay(n - 1, h)
    PROVE  /\ d \in Int
           /\ IF h > 0 THEN h <= d /\ d <= h + (h \div 10)
                       ELSE DelayStep >= 0 => d <= DelayStep * n
<1>1. CASE h > 0
  <2>1. h \div 10 \in Nat /\ h + (h \div 10) <= MaxInt
    BY DurationsFit
  <2>2. \A x \in calculateJitter(h \div 10) : x \in Nat /\ x <= h \div 10
    BY <2>1 DEF calculateJitter
  <2>3. \A x \in calculateJitter(h \div 10) : Wrap(h + x) = h + x
    BY <2>1, <2>2, WrapFits, DurationsFit
  <2> QED
    BY <1>1, <2>1, <2>2, <2>3 DEF nextDelay
<1>2. CASE ~(h > 0)
  <2> DEFINE step == DelayStep * n
  <2>1. step \in Int /\ (DelayStep >= 0 => step >= 0) /\ DelayStep * (n - 1 + 1) = step
    BY DurationsFit
  <2>2. Wrap(step) \in Int
    BY <2>1, DurationsFit DEF Wrap
  <2>3. step >= 0 => Wrap(step) <= step
    BY <2>1, WrapFits
  <2>4. d \in (IF jitter THEN calculateJitter(Wrap(step)) ELSE {Wrap(step)})
    BY <1>2, <2>1 DEF nextDelay
  <2> HIDE DEF step
  <2>5. d \in Int /\ (d <= Wrap(step) \/ d = 0)
    BY <2>2, <2>4 DEF calculateJitter
  <2>6. DelayStep >= 0 => d <= step
    BY <2>1, <2>2, <2>3, <2>5, DurationsFit
  <2> QED
    BY <1>2, <2>5, <2>6 DEF step
<1> QED
  BY <1>1, <1>2

\* No call has begun.
LEMMA InitIndInv == Init => IndInv
<1> SUFFICES ASSUME Init PROVE IndInv
  OBVIOUS
<1>1. TypeOK
  BY MaxRetriesPositive DEF Init, Configure, TypeOK, Attempts, NoResp
<1>2. ASSUME NEW c \in Calls
      PROVE  CallInv(c)
  BY MaxRetriesPositive
     DEF Init, CallInv, PlaceSound, LeaseExact, RepeatSound, SentExact, BudgetKept,
         CancelNoticed, HintExact, PauseHonoured, Released, Live, Fresh, Over,
         NoResp, Attempts
<1> QED
  BY <1>1, <1>2 DEF IndInv

\* Every step keeps the invariant.
LEMMA StepIndInv == IndInv /\ [Next]_vars => IndInv'
<1> SUFFICES ASSUME IndInv, [Next]_vars PROVE IndInv'
  OBVIOUS
<1> USE MaxRetriesPositive
<1>1. ASSUME NEW c \in Calls, RoundTrip(c)
      PROVE  IndInv'
  <2>1. TypeOK'
    BY <1>1 DEF IndInv, RoundTrip, At, SetErr, TypeOK, Errors, inputVars, delayVars
  <2>2. \A d \in Calls \ {c} : SameCall(d)
    BY <1>1, OthersUnmoved DEF IndInv
  <2>3. /\ pc[c] = "idle"
        /\ \/ retryable(c) /\ reqBody[c] = "oneshot"
              /\ pc'[c] = "result" /\ err'[c] = "not replayable"
           \/ ~(retryable(c) /\ reqBody[c] = "oneshot")
              /\ pc'[c] = (IF retryable(c) THEN "head" ELSE "once") /\ err'[c] = err[c]
    BY <1>1 DEF IndInv, TypeOK, RoundTrip, At, SetErr
  <2>4. UNCHANGED <<inputVars, delayVars, dead, attempt, prev, resp, raw, ctx, body,
                    sent, recorded, result>>
    BY <1>1 DEF RoundTrip
  <2> USE <2>3, <2>4 DEF inputVars, delayVars, IndInv, CallInv
  <2>5. PlaceSound(c)'
    BY DEF PlaceSound, Over
  <2>6. \A n \in Attempts : LeaseExact(c, n)'
    BY DEF PlaceSound, LeaseExact, Released, Live, Fresh, Over
  <2>7. RepeatSound(c)'
    <3>1. retryable(c)' <=> retryable(c)
      BY DEF retryable
    <3>2. attempt'[c] = 0
      BY DEF PlaceSound
    <3>3. CASE retryable(c)
      BY <3>1, <3>2, <3>3 DEF RepeatSound
    <3>4. CASE ~retryable(c)
      <4>1. pc'[c] = "once"
        BY <3>4
      <4>2. ~retryable(c)'
        BY <3>1, <3>4
      <4> QED
        BY <3>2, <4>1, <4>2 DEF RepeatSound
    <3> QED
      BY <3>3, <3>4
  <2>8. (SentExact(c) /\ BudgetKept(c))'
    BY DEF PlaceSound, SentExact, BudgetKept
  <2>9. (CancelNoticed(c) /\ HintExact(c) /\ PauseHonoured(c))'
    BY DEF PlaceSound, CancelNoticed, HintExact, PauseHonoured
  <2> QED
    BY <2>1, <2>2, <2>5, <2>6, <2>7, <2>8, <2>9, FrameKept
<1>2. ASSUME NEW c \in Calls, CheckCtx(c)
      PROVE  IndInv'
  <2>1. TypeOK'
    BY <1>2 DEF IndInv, CheckCtx, At, SetErr, TypeOK, Errors, inputVars, delayVars
  <2>2. \A d \in Calls \ {c} : SameCall(d)
    BY <1>2, OthersUnmoved DEF IndInv, Step
  <2>3. /\ pc[c] = "head"
        /\ \/ dead[c] /\ pc'[c] = "result" /\ err'[c] = "ctx"
           \/ ~dead[c] /\ pc'[c] = "once" /\ err'[c] = err[c]
    BY <1>2 DEF IndInv, TypeOK, CheckCtx, At, SetErr
  <2>4. UNCHANGED <<inputVars, delayVars, dead, attempt, prev, resp, raw, ctx, body,
                    sent, recorded, result>>
    BY <1>2 DEF CheckCtx
  <2> USE <2>3, <2>4 DEF inputVars, delayVars, IndInv, CallInv
  <2>5. PlaceSound(c)'
    BY DEF PlaceSound, Over
  <2>6. \A n \in Attempts : LeaseExact(c, n)'
    BY DEF PlaceSound, LeaseExact, Released, Live, Fresh, Over
  <2>7. RepeatSound(c)'
    BY DEF PlaceSound, RepeatSound, retryable
  <2>8. (SentExact(c) /\ BudgetKept(c))'
    BY DEF PlaceSound, SentExact, BudgetKept
  <2>9. (CancelNoticed(c) /\ HintExact(c) /\ PauseHonoured(c))'
    <3>1. CancelNoticed(c)'
      BY DEF PlaceSound, CancelNoticed, Over
    <3>2. (HintExact(c) /\ PauseHonoured(c))'
      BY DEF PlaceSound, HintExact, PauseHonoured
    <3> QED
      BY <3>1, <3>2
  <2> QED
    BY <2>1, <2>2, <2>5, <2>6, <2>7, <2>8, <2>9, FrameKept
<1>3. ASSUME NEW c \in Calls, StartAttempt(c)
      PROVE  IndInv'
  <2>1. attempt[c] + 1 \in Attempts /\ attempt[c] \in 0 .. maxRetries
    BY <1>3 DEF IndInv, CallInv, TypeOK, PlaceSound, StartAttempt, At, Attempts
  <2>2. TypeOK'
    <3>1. prev[c] # NoResp => prev[c] \in Attempts
      BY DEF IndInv, TypeOK, Attempts, NoResp
    <3>2. body' \in [Calls -> [Attempts -> {"none", "open", "closed", "twice"}]]
      <4>1. CASE body' = body
        BY <4>1 DEF IndInv, TypeOK
      <4>2. CASE prev[c] \in Attempts /\ drainClose(c, prev[c])
        BY <4>2 DEF IndInv, TypeOK, drainClose, Closed
      <4> QED
        BY <1>3, <3>1, <4>1, <4>2 DEF StartAttempt
    <3>3. ctx' \in [Calls -> [Attempts -> {"none", "open", "cancelled"}]]
      <4>1. CASE ctx' = ctx
        BY <4>1 DEF IndInv, TypeOK
      <4>2. CASE prev[c] \in Attempts /\ drainClose(c, prev[c])
        BY <4>2 DEF IndInv, TypeOK, drainClose
      <4> QED
        BY <1>3, <3>1, <4>1, <4>2 DEF StartAttempt
    <3>4. attempt' \in [Calls -> 0 .. maxRetries] /\ prev' \in [Calls -> 0 .. maxRetries]
      BY <1>3, <2>1 DEF IndInv, TypeOK, StartAttempt, Attempts, NoResp
    <3> QED
      BY <1>3, <3>2, <3>3, <3>4 DEF IndInv, TypeOK, StartAttempt, At, inputVars
  <2>3. \A d \in Calls \ {c} : SameCall(d)
    BY <1>3, OthersUnmoved DEF IndInv, Step
  <2>4. /\ pc[c] = "once" /\ pc'[c] = (IF attempt[c] = 0 THEN "send" ELSE "budget")
        /\ attempt'[c] = attempt[c] + 1 /\ prev'[c] = NoResp
        /\ hint'[c] = 0 /\ asked'[c] = 0
    BY <1>3 DEF IndInv, TypeOK, StartAttempt, At
  <2>5. UNCHANGED <<inputVars, delay, dead, resp, err, raw, sent, recorded, result>>
    BY <1>3 DEF StartAttempt
  <2>6. \A n \in Attempts :
          IF n = prev[c]
          THEN body'[c][n] = Closed(body[c][n]) /\ ctx'[c][n] = "cancelled"
          ELSE body'[c][n] = body[c][n] /\ ctx'[c][n] = ctx[c][n]
    BY <1>3 DEF IndInv, TypeOK, StartAttempt, drainClose, Attempts, NoResp
  <2> USE <2>1, <2>4, <2>5 DEF inputVars, IndInv, CallInv
  <2>7. PlaceSound(c)'
    BY DEF PlaceSound, NoResp, Over, Attempts
  <2>8. \A n \in Attempts : LeaseExact(c, n)'
    BY <2>6
       DEF PlaceSound, LeaseExact, Released, Live, Fresh, Over, Closed, NoResp, Attempts
  <2>9. RepeatSound(c)'
    BY DEF PlaceSound, RepeatSound, retryable
  <2>10. (SentExact(c) /\ BudgetKept(c))'
    <3>1. /\ sent[c] \in Nat /\ attempt[c] \in Nat
          /\ recorded[c].yes \in Nat /\ recorded[c].no \in Nat
      BY DEF TypeOK
    <3>2. SentExact(c)'
      BY <3>1 DEF PlaceSound, SentExact, BudgetKept
    <3>3. BudgetKept(c)'
      BY <3>1 DEF PlaceSound, SentExact, BudgetKept
    <3> QED
      BY <3>2, <3>3
  <2>11. (CancelNoticed(c) /\ HintExact(c) /\ PauseHonoured(c))'
    BY DEF PlaceSound, CancelNoticed, HintExact, PauseHonoured
  <2> QED
    BY <2>2, <2>3, <2>7, <2>8, <2>9, <2>10, <2>11, FrameKept
<1>4. ASSUME NEW c \in Calls, AskBudget(c)
      PROVE  IndInv'
  <2>1. recorded' \in [Calls -> [yes : Nat, no : Nat]]
    <3>1. recorded[c] \in [yes : Nat, no : Nat]
      BY DEF IndInv, TypeOK
    <3>2. PICK r \in [yes : Nat, no : Nat] : recorded' = [recorded EXCEPT ![c] = r]
      BY <1>4, <3>1 DEF AskBudget
    <3> QED
      BY <3>2 DEF IndInv, TypeOK
  <2>2. TypeOK'
    BY <1>4, <2>1 DEF IndInv, TypeOK, AskBudget, At, SetErr, Errors, inputVars, delayVars
  <2>3. \A d \in Calls \ {c} : SameCall(d)
    BY <1>4, OthersUnmoved DEF IndInv, Step
  <2>4. /\ pc[c] = "budget"
        /\ \/ /\ pc'[c] = "send" /\ err'[c] = err[c]
              /\ recorded'[c].yes = recorded[c].yes + 1
              /\ recorded'[c].no = recorded[c].no
           \/ /\ pc'[c] = "ended" /\ err'[c] = "budget"
              /\ recorded'[c].yes = recorded[c].yes
              /\ recorded'[c].no = recorded[c].no + 1
    BY <1>4 DEF IndInv, TypeOK, AskBudget, At, SetErr
  <2>5. UNCHANGED <<inputVars, delayVars, dead, attempt, prev, resp, raw, ctx, body,
                    sent, result>>
    BY <1>4 DEF AskBudget
  <2> USE <2>4, <2>5 DEF inputVars, delayVars, IndInv, CallInv
  <2>6. PlaceSound(c)'
    <3>1. attempt[c] \in Nat
      BY DEF TypeOK
    <3> QED
      BY <3>1 DEF PlaceSound, Over
  <2>7. \A n \in Attempts : LeaseExact(c, n)'
    BY DEF PlaceSound, LeaseExact, Released, Live, Fresh, Over
  <2>8. RepeatSound(c)'
    BY DEF PlaceSound, RepeatSound, retryable
  <2>9. (SentExact(c) /\ BudgetKept(c))'
    <3>1. /\ sent[c] \in Nat /\ attempt[c] \in Nat
          /\ recorded[c].yes \in Nat /\ recorded[c].no \in Nat
      BY DEF TypeOK
    <3>2. SentExact(c)'
      BY <3>1 DEF PlaceSound, SentExact, BudgetKept
    <3>3. BudgetKept(c)'
      BY <3>1 DEF PlaceSound, SentExact, BudgetKept
    <3> QED
      BY <3>2, <3>3
  <2>10. (CancelNoticed(c) /\ HintExact(c) /\ PauseHonoured(c))'
    BY DurationsFit DEF PlaceSound, CancelNoticed, HintExact, PauseHonoured
  <2> QED
    BY <2>2, <2>3, <2>6, <2>7, <2>8, <2>9, <2>10, FrameKept
<1>5. ASSUME NEW c \in Calls, Send(c)
      PROVE  IndInv'
  <2>1. attempt[c] \in Attempts
    BY <1>5 DEF IndInv, CallInv, TypeOK, PlaceSound, Send, At, Attempts
  <2>2. TypeOK'
    BY <1>5, <2>1 DEF IndInv, TypeOK, Send, At, inputVars, delayVars
  <2>3. \A d \in Calls \ {c} : SameCall(d)
    BY <1>5, OthersUnmoved DEF IndInv, Step
  <2>4. pc[c] = "send" /\ pc'[c] = "sending" /\ sent'[c] = sent[c] + 1
    BY <1>5 DEF IndInv, TypeOK, Send, At
  <2>5. UNCHANGED <<inputVars, delayVars, dead, attempt, prev, resp, err, raw, body,
                    recorded, result>>
    BY <1>5 DEF Send
  <2>6. \A n \in Attempts :
          ctx'[c][n] = IF n = attempt[c] THEN "open" ELSE ctx[c][n]
    BY <1>5 DEF IndInv, TypeOK, Send
  <2> USE <2>1, <2>4, <2>5 DEF inputVars, delayVars, IndInv, CallInv
  <2>7. PlaceSound(c)'
    BY DEF PlaceSound, Over
  <2>8. \A n \in Attempts : LeaseExact(c, n)'
    BY <2>6 DEF PlaceSound, LeaseExact, Released, Live, Fresh, Over, NoResp, Attempts
  <2>9. RepeatSound(c)'
    BY DEF PlaceSound, RepeatSound, retryable
  <2>10. (SentExact(c) /\ BudgetKept(c))'
    <3>1. /\ sent[c] \in Nat /\ attempt[c] \in Nat
          /\ recorded[c].yes \in Nat /\ recorded[c].no \in Nat
      BY DEF TypeOK
    <3>2. SentExact(c)'
      BY <3>1 DEF PlaceSound, SentExact, BudgetKept
    <3>3. BudgetKept(c)'
      BY <3>1 DEF PlaceSound, SentExact, BudgetKept
    <3> QED
      BY <3>2, <3>3
  <2>11. (CancelNoticed(c) /\ HintExact(c) /\ PauseHonoured(c))'
    BY DEF PlaceSound, CancelNoticed, HintExact, PauseHonoured
  <2> QED
    BY <2>2, <2>3, <2>7, <2>8, <2>9, <2>10, <2>11, FrameKept
<1>6. ASSUME NEW c \in Calls, RewindFails(c)
      PROVE  IndInv'
  <2>1. attempt[c] \in Attempts
    BY <1>6 DEF IndInv, CallInv, TypeOK, PlaceSound, RewindFails, At, Attempts
  <2>2. TypeOK'
    BY <1>6, <2>1 DEF IndInv, TypeOK, RewindFails, At, SetErr, Errors, inputVars, delayVars
  <2>3. \A d \in Calls \ {c} : SameCall(d)
    BY <1>6, OthersUnmoved DEF IndInv, Step
  <2>4. pc[c] = "send" /\ pc'[c] = "ended" /\ err'[c] = "other"
    BY <1>6 DEF IndInv, TypeOK, RewindFails, At, SetErr
  <2>5. UNCHANGED <<inputVars, delayVars, dead, attempt, prev, resp, raw, body, sent,
                    recorded, result>>
    BY <1>6 DEF RewindFails
  <2>6. \A n \in Attempts :
          ctx'[c][n] = IF n = attempt[c] THEN "cancelled" ELSE ctx[c][n]
    BY <1>6 DEF IndInv, TypeOK, RewindFails
  <2> USE <2>1, <2>4, <2>5 DEF inputVars, delayVars, IndInv, CallInv
  <2>7. PlaceSound(c)'
    BY DEF PlaceSound, Over
  <2>8. \A n \in Attempts : LeaseExact(c, n)'
    BY <2>6 DEF PlaceSound, LeaseExact, Released, Live, Fresh, Over, NoResp, Attempts
  <2>9. RepeatSound(c)'
    BY DEF PlaceSound, RepeatSound, retryable
  <2>10. (SentExact(c) /\ BudgetKept(c))'
    BY DEF TypeOK, PlaceSound, SentExact, BudgetKept
  <2>11. (CancelNoticed(c) /\ HintExact(c) /\ PauseHonoured(c))'
    BY DurationsFit DEF PlaceSound, CancelNoticed, HintExact, PauseHonoured
  <2> QED
    BY <2>2, <2>3, <2>7, <2>8, <2>9, <2>10, <2>11, FrameKept
<1>7. ASSUME NEW c \in Calls, AttemptFails(c)
      PROVE  IndInv'
  <2>1. /\ pc[c] = "sending" /\ pc' = [pc EXCEPT ![c] = "ended"]
        /\ ctx' = [ctx EXCEPT ![c][attempt[c]] = "cancelled"]
        /\ UNCHANGED <<inputVars, delayVars, dead, attempt, prev, resp, body, sent,
                       recorded, result>>
    BY <1>7 DEF AttemptFails, At
  <2>2. attempt[c] \in Attempts
    BY <2>1 DEF IndInv, CallInv, TypeOK, PlaceSound, Attempts
  <2>3. \E e \in Errors, f \in Errors :
          /\ err' = [err EXCEPT ![c] = e] /\ raw' = [raw EXCEPT ![c] = f]
          /\ e = "ctx" => dead[c]
    BY <1>7 DEF AttemptFails, SetErr, normalizeErr, Errors
  <2>4. TypeOK'
    BY <2>1, <2>2, <2>3 DEF IndInv, TypeOK, inputVars, delayVars
  <2>5. \A d \in Calls \ {c} : SameCall(d)
    BY <1>7, OthersUnmoved DEF IndInv, Step
  <2>6. pc[c] = "sending" /\ pc'[c] = "ended" /\ (err'[c] = "ctx" => dead[c])
    BY <2>1, <2>3 DEF IndInv, TypeOK
  <2>7. UNCHANGED <<inputVars, delayVars, dead, attempt, prev, resp, body, sent,
                    recorded, result>>
    BY <2>1
  <2>8. \A n \in Attempts :
          ctx'[c][n] = IF n = attempt[c] THEN "cancelled" ELSE ctx[c][n]
    BY <2>1 DEF IndInv, TypeOK
  <2> USE <2>2, <2>6, <2>7 DEF inputVars, delayVars, IndInv, CallInv
  <2>9. PlaceSound(c)'
    BY DEF PlaceSound, Over
  <2>10. \A n \in Attempts : LeaseExact(c, n)'
    BY <2>8 DEF PlaceSound, LeaseExact, Released, Live, Fresh, Over, NoResp, Attempts
  <2>11. RepeatSound(c)'
    BY DEF PlaceSound, RepeatSound, retryable
  <2>12. (SentExact(c) /\ BudgetKept(c))'
    BY DEF TypeOK, PlaceSound, SentExact, BudgetKept
  <2>13. CancelNoticed(c)'
    BY DEF PlaceSound, CancelNoticed, Over
  <2>14. (HintExact(c) /\ PauseHonoured(c))'
    BY DurationsFit DEF PlaceSound, HintExact, PauseHonoured
  <2> QED
    BY <2>4, <2>5, <2>9, <2>10, <2>11, <2>12, <2>13, <2>14, FrameKept
<1>8. ASSUME NEW c \in Calls, AttemptResponds(c)
      PROVE  IndInv'
  <2>1. /\ pc[c] = "sending" /\ pc' = [pc EXCEPT ![c] = "ended"]
        /\ body' = [body EXCEPT ![c][attempt[c]] = "open"]
        /\ raw' = [raw EXCEPT ![c] = "nil"]
        /\ UNCHANGED <<inputVars, delay, dead, attempt, ctx, sent, recorded, result>>
    BY <1>8 DEF AttemptResponds, At
  <2>2. attempt[c] \in Attempts /\ attempt[c] \in 0 .. maxRetries
    BY <2>1 DEF IndInv, CallInv, TypeOK, PlaceSound, Attempts
  <2>3. \E wish \in Nat :
          /\ asked' = [asked EXCEPT ![c] = wish]
          /\ \/ /\ prev' = [prev EXCEPT ![c] = attempt[c]]
                /\ err' = [err EXCEPT ![c] = "status"]
                /\ hint' = [hint EXCEPT ![c] = wish]
                /\ wish <= MaxRetryAfter
                /\ resp' = resp
             \/ /\ resp' = [resp EXCEPT ![c] = attempt[c]]
                /\ err' = [err EXCEPT ![c] = "nil"]
                /\ prev' = prev /\ hint' = hint
    <3>1. PICK status \in retryableStatuses \cup {"fine"}, h \in RetryAfters :
            /\ asked' = [asked EXCEPT ![c] = Wish(status, h)]
            /\ IF Holds(c, status, h)
               THEN /\ prev' = [prev EXCEPT ![c] = attempt[c]]
                    /\ err' = [err EXCEPT ![c] = "status"]
                    /\ hint' = [hint EXCEPT ![c] = parseRetryAfter(status, h)]
                    /\ resp' = resp
               ELSE /\ resp' = [resp EXCEPT ![c] = attempt[c]]
                    /\ err' = [err EXCEPT ![c] = "nil"]
                    /\ prev' = prev /\ hint' = hint
      BY <1>8 DEF AttemptResponds, SetErr
    <3>2. /\ Wish(status, h) \in Nat
          /\ Holds(c, status, h) => /\ parseRetryAfter(status, h) = Wish(status, h)
                                    /\ Wish(status, h) <= MaxRetryAfter
      BY WishHeld DEF Holds
    <3> QED
      BY <3>1, <3>2
  <2>4. TypeOK'
    <3>1. prev' \in [Calls -> 0 .. maxRetries] /\ resp' \in [Calls -> 0 .. maxRetries]
      BY <2>2, <2>3 DEF IndInv, TypeOK
    <3>2. hint' \in [Calls -> Nat] /\ asked' \in [Calls -> Nat]
      <4>1. PICK wish \in Nat : /\ asked' = [asked EXCEPT ![c] = wish]
                                /\ hint' \in {hint, [hint EXCEPT ![c] = wish]}
        BY <2>3
      <4> QED
        BY <4>1 DEF IndInv, TypeOK
    <3>3. err' \in [Calls -> Errors \cup {"nil"}]
      BY <2>3 DEF IndInv, TypeOK, Errors
    <3>4. body' \in [Calls -> [Attempts -> {"none", "open", "closed", "twice"}]]
      BY <2>1, <2>2 DEF IndInv, TypeOK
    <3> QED
      BY <2>1, <3>1, <3>2, <3>3, <3>4 DEF IndInv, TypeOK, inputVars
  <2>5. \A d \in Calls \ {c} : SameCall(d)
    BY <1>8, OthersUnmoved DEF IndInv, Step
  <2>6. /\ pc[c] = "sending" /\ pc'[c] = "ended"
        /\ \/ /\ prev'[c] = attempt[c] /\ resp'[c] = resp[c] /\ err'[c] = "status"
              /\ hint'[c] = asked'[c] /\ asked'[c] <= MaxRetryAfter
           \/ prev'[c] = prev[c] /\ resp'[c] = attempt[c] /\ err'[c] = "nil"
    BY <2>1, <2>3 DEF IndInv, TypeOK
  <2>7. UNCHANGED <<inputVars, delay, dead, attempt, ctx, sent, recorded, result>>
    BY <2>1
  <2>8. \A n \in Attempts :
          body'[c][n] = IF n = attempt[c] THEN "open" ELSE body[c][n]
    BY <2>1 DEF IndInv, TypeOK
  <2> USE <2>2, <2>6, <2>7 DEF inputVars, IndInv, CallInv
  <2>9. PlaceSound(c)'
    BY DEF PlaceSound, Over, NoResp
  <2>10. \A n \in Attempts : LeaseExact(c, n)'
    BY <2>8 DEF PlaceSound, LeaseExact, Released, Live, Fresh, Over, NoResp, Attempts
  <2>11. RepeatSound(c)'
    BY DEF PlaceSound, RepeatSound, retryable
  <2>12. (SentExact(c) /\ BudgetKept(c))'
    BY DEF TypeOK, PlaceSound, SentExact, BudgetKept
  <2>13. (CancelNoticed(c) /\ HintExact(c) /\ PauseHonoured(c))'
    BY DEF PlaceSound, CancelNoticed, HintExact, PauseHonoured, NoResp, Attempts
  <2> QED
    BY <2>4, <2>5, <2>9, <2>10, <2>11, <2>12, <2>13, FrameKept
<1>9. ASSUME NEW c \in Calls, AfterAttempt(c)
      PROVE  IndInv'
  <2>1. pc[c] = "ended"
    BY <1>9 DEF AfterAttempt, At
  <2>2. UNCHANGED <<inputVars, hint, asked, dead, attempt, prev, resp, err, raw, ctx,
                    body, sent, recorded, result>>
    BY <1>9 DEF AfterAttempt
  <2>3. /\ attempt[c] \in Nat /\ attempt[c] >= 1
        /\ hint[c] \in Nat
        /\ resp[c] = NoResp => hint[c] = asked[c] /\ hint[c] <= MaxRetryAfter
    BY <2>1 DEF IndInv, CallInv, TypeOK, PlaceSound, HintExact
  <2>4. CASE GoesOn(c)
    <3>1. PICK d \in nextDelay(attempt[c] - 1, hint[c]) :
            delay' = [delay EXCEPT ![c] = d] /\ pc' = [pc EXCEPT ![c] = "sleep"]
      BY <1>9, <2>4 DEF AfterAttempt, At
    <3>2. err[c] \in Errors
      BY <2>4, RetryIfErrors DEF IndInv, TypeOK, GoesOn
    <3>3. resp[c] = NoResp
      BY <2>1, <3>2 DEF IndInv, CallInv, PlaceSound, Errors
    <3>4. /\ d \in Int
          /\ IF hint[c] > 0 THEN hint[c] <= d /\ d <= hint[c] + (hint[c] \div 10)
                            ELSE DelayStep >= 0 => d <= DelayStep * attempt[c]
      BY <2>3, <3>1, <3>3, NextDelayBounds
    <3>5. TypeOK'
      BY <2>2, <3>1, <3>4 DEF IndInv, TypeOK, inputVars
    <3>6. \A e \in Calls \ {c} : SameCall(e)
      BY <1>9, OthersUnmoved DEF IndInv, Step
    <3>7. pc'[c] = "sleep" /\ delay'[c] = d
      BY <3>1 DEF IndInv, TypeOK
    <3>8. retryable(c) /\ attempt[c] < maxRetries
      BY <2>4 DEF GoesOn
    <3> USE <2>1, <2>2, <3>3, <3>7, <3>8 DEF inputVars, IndInv, CallInv
    <3>9. PlaceSound(c)'
      BY DEF PlaceSound, Over
    <3>10. \A n \in Attempts : LeaseExact(c, n)'
      BY DEF PlaceSound, LeaseExact, Released, Live, Fresh, Over
    <3>11. RepeatSound(c)'
      BY DEF PlaceSound, RepeatSound, retryable
    <3>12. (SentExact(c) /\ BudgetKept(c))'
      BY DEF PlaceSound, SentExact, BudgetKept
    <3>13. (CancelNoticed(c) /\ HintExact(c))'
      BY DEF PlaceSound, CancelNoticed, HintExact
    <3>14. PauseHonoured(c)'
      BY <2>3, <3>4 DEF PauseHonoured
    <3> QED
      BY <3>5, <3>6, <3>9, <3>10, <3>11, <3>12, <3>13, <3>14, FrameKept
  <2>5. CASE ~GoesOn(c)
    <3>1. pc' = [pc EXCEPT ![c] = "result"] /\ delay' = delay
      BY <1>9, <2>5 DEF AfterAttempt, At
    <3>2. TypeOK'
      BY <2>2, <3>1 DEF IndInv, TypeOK, inputVars
    <3>3. \A e \in Calls \ {c} : SameCall(e)
      BY <1>9, OthersUnmoved DEF IndInv, Step
    <3>4. pc'[c] = "result"
      BY <3>1 DEF IndInv, TypeOK
    <3> USE <2>1, <2>2, <3>4 DEF inputVars, IndInv, CallInv
    <3>5. PlaceSound(c)'
      BY DEF PlaceSound, Over
    <3>6. \A n \in Attempts : LeaseExact(c, n)'
      BY DEF PlaceSound, LeaseExact, Released, Live, Fresh, Over
    <3>7. RepeatSound(c)'
      BY DEF PlaceSound, RepeatSound, retryable
    <3>8. (SentExact(c) /\ BudgetKept(c))'
      BY DEF PlaceSound, SentExact, BudgetKept
    <3>9. (CancelNoticed(c) /\ HintExact(c) /\ PauseHonoured(c))'
      BY DEF PlaceSound, CancelNoticed, HintExact, PauseHonoured
    <3> QED
      BY <3>2, <3>3, <3>5, <3>6, <3>7, <3>8, <3>9, FrameKept
  <2> QED
    BY <2>4, <2>5
<1>10. ASSUME NEW c \in Calls, SleepEnds(c)
      PROVE  IndInv'
  <2>1. TypeOK'
    <3>0. /\ delay' = [delay EXCEPT ![c] = 0]
          /\ UNCHANGED <<inputVars, hint, asked, dead, attempt, prev, resp, raw, ctx,
                         body, sent, recorded, result>>
      BY <1>10 DEF SleepEnds
    <3>1. err' \in [Calls -> Errors \cup {"nil"}]
      BY <1>10 DEF IndInv, TypeOK, SleepEnds, SetErr, Errors
    <3>2. pc' \in [Calls -> {"idle", "head", "once", "budget", "send", "sending",
                            "ended", "sleep", "result", "returned", "closed"}]
      BY <1>10 DEF IndInv, TypeOK, SleepEnds, At
    <3>3. delay' \in [Calls -> Int]
      BY <3>0 DEF IndInv, TypeOK
    <3> QED
      BY <3>0, <3>1, <3>2, <3>3 DEF IndInv, TypeOK, inputVars
  <2>2. \A d \in Calls \ {c} : SameCall(d)
    BY <1>10, OthersUnmoved DEF IndInv, Step
  <2>3. /\ pc[c] = "sleep"
        /\ \/ pc'[c] = "head" /\ err'[c] = err[c]
           \/ dead[c] /\ pc'[c] = "result" /\ err'[c] = "ctx"
    BY <1>10 DEF IndInv, TypeOK, SleepEnds, At, SetErr
  <2>4. UNCHANGED <<inputVars, hint, asked, dead, attempt, prev, resp, raw, ctx, body,
                    sent, recorded, result>>
    BY <1>10 DEF SleepEnds
  <2> USE <2>3, <2>4 DEF inputVars, IndInv, CallInv
  <2>5. PlaceSound(c)'
    BY DEF PlaceSound, Over
  <2>6. \A n \in Attempts : LeaseExact(c, n)'
    BY DEF PlaceSound, LeaseExact, Released, Live, Fresh, Over
  <2>7. RepeatSound(c)'
    BY DEF TypeOK, PlaceSound, RepeatSound, retryable
  <2>8. (SentExact(c) /\ BudgetKept(c))'
    BY DEF PlaceSound, SentExact, BudgetKept
  <2>9. (CancelNoticed(c) /\ HintExact(c) /\ PauseHonoured(c))'
    <3>1. CancelNoticed(c)'
      BY DEF PlaceSound, CancelNoticed, Over
    <3>2. (HintExact(c) /\ PauseHonoured(c))'
      BY DEF PlaceSound, HintExact, PauseHonoured
    <3> QED
      BY <3>1, <3>2
  <2> QED
    BY <2>1, <2>2, <2>5, <2>6, <2>7, <2>8, <2>9, FrameKept
<1>11. ASSUME NEW c \in Calls, Result(c)
      PROVE  IndInv'
  <2>1. /\ pc[c] = "result" /\ pc' = [pc EXCEPT ![c] = "returned"]
        /\ UNCHANGED <<inputVars, delayVars, dead, attempt, prev, err, raw, sent,
                       recorded>>
    BY <1>11 DEF Result, At
  <2>2. \/ /\ resp[c] # NoResp \/ prev[c] = NoResp
           /\ result' = [result EXCEPT ![c] = IF resp[c] # NoResp THEN "response"
                                              ELSE "error"]
           /\ UNCHANGED <<resp, body, ctx>>
        \/ /\ resp[c] = NoResp /\ prev[c] # NoResp /\ err[c] = "status"
           /\ result' = [result EXCEPT ![c] = "response"]
           /\ resp' = [resp EXCEPT ![c] = prev[c]]
           /\ UNCHANGED <<body, ctx>>
        \/ /\ resp[c] = NoResp /\ prev[c] # NoResp /\ err[c] # "status"
           /\ result' = [result EXCEPT ![c] = "error"]
           /\ drainClose(c, prev[c])
           /\ UNCHANGED resp
    BY <1>11 DEF Result
  <2>3. prev[c] # NoResp => prev[c] \in Attempts
    BY DEF IndInv, TypeOK, Attempts, NoResp
  <2>4. TypeOK'
    <3>1. body' \in [Calls -> [Attempts -> {"none", "open", "closed", "twice"}]]
      <4>1. CASE body' = body
        BY <4>1 DEF IndInv, TypeOK
      <4>2. CASE prev[c] \in Attempts /\ drainClose(c, prev[c])
        BY <4>2 DEF IndInv, TypeOK, drainClose, Closed
      <4> QED
        BY <2>2, <2>3, <4>1, <4>2
    <3>2. ctx' \in [Calls -> [Attempts -> {"none", "open", "cancelled"}]]
      <4>1. CASE ctx' = ctx
        BY <4>1 DEF IndInv, TypeOK
      <4>2. CASE prev[c] \in Attempts /\ drainClose(c, prev[c])
        BY <4>2 DEF IndInv, TypeOK, drainClose
      <4> QED
        BY <2>2, <2>3, <4>1, <4>2
    <3>3. resp' \in [Calls -> 0 .. maxRetries]
      BY <2>2 DEF IndInv, TypeOK
    <3>4. result' \in [Calls -> {"none", "response", "error"}]
      BY <2>2 DEF IndInv, TypeOK
    <3> QED
      BY <2>1, <3>1, <3>2, <3>3, <3>4 DEF IndInv, TypeOK, inputVars, delayVars
  <2>5. \A d \in Calls \ {c} : SameCall(d)
    BY <1>11, OthersUnmoved DEF IndInv, Step
  <2>6. /\ pc[c] = "result" /\ pc'[c] = "returned"
        /\ \/ /\ resp[c] # NoResp \/ prev[c] = NoResp
              /\ result'[c] = (IF resp[c] # NoResp THEN "response" ELSE "error")
              /\ resp'[c] = resp[c]
           \/ /\ resp[c] = NoResp /\ prev[c] # NoResp /\ err[c] = "status"
              /\ result'[c] = "response" /\ resp'[c] = prev[c]
           \/ /\ resp[c] = NoResp /\ prev[c] # NoResp /\ err[c] # "status"
              /\ result'[c] = "error" /\ resp'[c] = resp[c]
    BY <2>1, <2>2 DEF IndInv, TypeOK
  <2>7. \A n \in Attempts :
          IF resp[c] = NoResp /\ n = prev[c] /\ err[c] # "status"
          THEN body'[c][n] = Closed(body[c][n]) /\ ctx'[c][n] = "cancelled"
          ELSE body'[c][n] = body[c][n] /\ ctx'[c][n] = ctx[c][n]
    BY <2>2, <2>3 DEF IndInv, TypeOK, drainClose, Attempts, NoResp
  <2>8. UNCHANGED <<inputVars, delayVars, dead, attempt, prev, err, raw, sent, recorded>>
    BY <2>1
  <2> USE <2>6, <2>8 DEF inputVars, delayVars, IndInv, CallInv
  <2>9. PlaceSound(c)'
    BY DEF PlaceSound, Over, NoResp
  <2>10. ASSUME NEW n \in Attempts
         PROVE  LeaseExact(c, n)'
    <3>1. n \in Nat /\ n # NoResp /\ attempt[c] \in Nat
      BY DEF TypeOK, Attempts, NoResp
    <3>2. LeaseExact(c, n) /\ PlaceSound(c)
      OBVIOUS
    <3>3. CASE resp[c] = NoResp /\ n = prev[c] /\ err[c] # "status"
      BY <2>7, <3>1, <3>2, <3>3
         DEF PlaceSound, LeaseExact, Released, Live, Fresh, Over, Closed
    <3>4. CASE ~(resp[c] = NoResp /\ n = prev[c] /\ err[c] # "status")
      BY <2>7, <3>1, <3>2, <3>4
         DEF PlaceSound, LeaseExact, Released, Live, Fresh, Over
    <3> QED
      BY <3>3, <3>4
  <2>11. RepeatSound(c)'
    BY DEF PlaceSound, RepeatSound, retryable
  <2>12. (SentExact(c) /\ BudgetKept(c))'
    BY DEF PlaceSound, SentExact, BudgetKept
  <2>13. (CancelNoticed(c) /\ HintExact(c) /\ PauseHonoured(c))'
    BY DEF PlaceSound, CancelNoticed, HintExact, PauseHonoured, NoResp
  <2> QED
    BY <2>4, <2>5, <2>9, <2>10, <2>11, <2>12, <2>13, FrameKept
<1>12. ASSUME NEW c \in Calls, CallerCtxEnds(c)
       PROVE  IndInv'
  <2>1. /\ dead' = [dead EXCEPT ![c] = TRUE]
        /\ UNCHANGED <<inputVars, delayVars, pc, attempt, prev, resp, err, raw, ctx,
                       body, sent, recorded, result>>
    BY <1>12 DEF CallerCtxEnds
  <2>2. TypeOK' /\ dead'[c] = TRUE
    BY <2>1 DEF IndInv, TypeOK, inputVars, delayVars
  <2>3. \A d \in Calls \ {c} : SameCall(d)
    BY <1>12, OthersUnmoved DEF IndInv
  <2> USE <2>1 DEF inputVars, delayVars, IndInv, CallInv
  <2>4. PlaceSound(c)' /\ \A n \in Attempts : LeaseExact(c, n)'
    BY DEF PlaceSound, LeaseExact, Released, Live, Fresh
  <2>5. (RepeatSound(c) /\ SentExact(c) /\ BudgetKept(c))'
    BY DEF RepeatSound, retryable, SentExact, BudgetKept
  <2>6. (CancelNoticed(c) /\ HintExact(c) /\ PauseHonoured(c))'
    BY <2>2 DEF CancelNoticed, HintExact, PauseHonoured
  <2> QED
    BY <2>2, <2>3, <2>4, <2>5, <2>6, FrameKept
<1>13. ASSUME NEW c \in Calls, CallerCloses(c)
       PROVE  IndInv'
  <2>1. /\ pc[c] = "returned" /\ pc' = [pc EXCEPT ![c] = "closed"]
        /\ result[c] = "response"
        /\ body' = [body EXCEPT ![c][resp[c]] = Closed(@)]
        /\ ctx' = [ctx EXCEPT ![c][resp[c]] = "cancelled"]
        /\ UNCHANGED <<inputVars, delayVars, dead, attempt, prev, resp, err, raw,
                       sent, recorded, result>>
    BY <1>13 DEF CallerCloses, At, drainClose
  <2>2. resp[c] \in Attempts
    BY <2>1 DEF IndInv, CallInv, TypeOK, PlaceSound, Over, Attempts, NoResp
  <2>3. TypeOK'
    BY <2>1, <2>2 DEF IndInv, TypeOK, Closed, inputVars, delayVars
  <2>4. \A d \in Calls \ {c} : SameCall(d)
    BY <1>13, OthersUnmoved DEF IndInv
  <2>5. pc'[c] = "closed"
    BY <2>1 DEF IndInv, TypeOK
  <2>6. \A n \in Attempts :
          IF n = resp[c]
          THEN body'[c][n] = Closed(body[c][n]) /\ ctx'[c][n] = "cancelled"
          ELSE body'[c][n] = body[c][n] /\ ctx'[c][n] = ctx[c][n]
    BY <2>1 DEF IndInv, TypeOK
  <2> USE <2>1, <2>5 DEF inputVars, delayVars, IndInv, CallInv
  <2>7. PlaceSound(c)'
    BY DEF PlaceSound, Over
  <2>8. \A n \in Attempts : LeaseExact(c, n)'
    BY <2>6 DEF TypeOK, LeaseExact, Released, Live, Fresh, Over, Closed, Attempts
  <2>9. (RepeatSound(c) /\ SentExact(c) /\ BudgetKept(c))'
    BY DEF RepeatSound, retryable, SentExact, BudgetKept
  <2>10. (CancelNoticed(c) /\ HintExact(c) /\ PauseHonoured(c))'
    BY DEF PlaceSound, CancelNoticed, HintExact, PauseHonoured, Over, NoResp
  <2> QED
    BY <2>3, <2>4, <2>7, <2>8, <2>9, <2>10, FrameKept
<1>14. CASE UNCHANGED vars
  <2>1. TypeOK'
    BY <1>14 DEF vars, inputVars, delayVars, IndInv, TypeOK
  <2>2. \A d \in Calls : SameCall(d)
    BY <1>14 DEF vars, inputVars, delayVars, SameCall
  <2> QED
    BY <1>14, <2>1, <2>2, FrameKept DEF vars, inputVars, IndInv
<1> QED
  BY <1>1, <1>2, <1>3, <1>4, <1>5, <1>6, <1>7, <1>8, <1>9, <1>10, <1>11,
     <1>12, <1>13, <1>14
     DEF Next, Step

(***************************************************************************)
(* The safety properties                                                   *)
(***************************************************************************)
\* Every state the retrying transport can reach satisfies the invariant.
THEOREM RetryInvariant == Spec => []IndInv
  BY InitIndInv, StepIndInv, PTL DEF Spec

\* The state is always well typed.
THEOREM RetryTypes == Spec => []TypeOK
<1>1. IndInv => TypeOK
  BY DEF IndInv
<1> QED
  BY <1>1, RetryInvariant, PTL

\* When RoundTrip has returned, whatever the number of attempts and however each of
\* them ended, every body is closed, none twice, and every context cancelled, except
\* those of the response the caller holds.
THEOREM RetryNothingLeaks == Spec => []NothingLeaks
<1>1. IndInv => NothingLeaks
  <2> SUFFICES ASSUME IndInv, NEW c \in Calls, NEW n \in Attempts
               PROVE  /\ body[c][n] # "twice"
                      /\ pc[c] \in {"returned", "closed"} =>
                           IF pc[c] = "returned" /\ result[c] = "response" /\ resp[c] = n
                           THEN body[c][n] = "open" /\ ctx[c][n] = "open"
                           ELSE body[c][n] # "open" /\ ctx[c][n] # "open"
    BY DEF NothingLeaks
  <2>1. PlaceSound(c) /\ LeaseExact(c, n)
    BY DEF IndInv, CallInv
  <2>2. n # NoResp
    BY DEF Attempts, NoResp
  <2> QED
    BY <2>1, <2>2 DEF PlaceSound, LeaseExact, Released, Live, Over
<1> QED
  BY <1>1, RetryInvariant, PTL

\* A request that must not be repeated is sent once at most, whatever the classifier
\* and the base transport answer, and none more often than the retrier allows.
THEOREM RetryReplaySafe == Spec => []ReplaySafe
<1>1. IndInv => ReplaySafe
  <2> SUFFICES ASSUME IndInv, NEW c \in Calls
               PROVE  /\ sent[c] <= maxRetries
                      /\ sent[c] > 1 => retryable(c) /\ reqBody[c] # "oneshot"
    BY DEF ReplaySafe
  <2>1. /\ sent[c] \in Nat /\ attempt[c] \in Nat /\ attempt[c] <= maxRetries
        /\ maxRetries \in Nat
    BY MaxRetriesPositive DEF IndInv, TypeOK
  <2>2. RepeatSound(c) /\ SentExact(c)
    BY DEF IndInv, CallInv
  <2> QED
    BY <2>1, <2>2 DEF RepeatSound, SentExact
<1> QED
  BY <1>1, RetryInvariant, PTL

\* The budget is asked once for every attempt after the first and told the answer,
\* and no retry is sent without a grant.
THEOREM RetryBudgetExact == Spec => []BudgetExact
<1>1. IndInv => BudgetExact
  BY DEF IndInv, CallInv, BudgetExact
<1> QED
  BY <1>1, RetryInvariant, PTL

\* The pause before a retry is at least what the latest 429 or 503 asked for and at
\* most a tenth longer; one nobody asked for is at most the linear step.
THEOREM RetryPauses == Spec => []RetryAfterHonoured
<1>1. IndInv => RetryAfterHonoured
  BY DEF IndInv, CallInv, RetryAfterHonoured
<1> QED
  BY <1>1, RetryInvariant, PTL

\* Once the end of the caller's context has been noticed nothing more is sent, and no
\* response is returned.
THEOREM RetryCancelIsFinal == Spec => CancelIsFinal
<1> DEFINE Final == \A c \in Calls :
                      err[c] = "ctx" => sent'[c] = sent[c] /\ result'[c] # "response"
<1>1. IndInv /\ [Next]_vars => [Final]_vars
  <2> SUFFICES ASSUME IndInv, Next, NEW c \in Calls, err[c] = "ctx"
               PROVE  sent'[c] = sent[c] /\ result'[c] # "response"
    OBVIOUS
  <2>1. /\ resp[c] = NoResp /\ result[c] # "response"
        /\ pc[c] \in {"head", "ended", "sleep", "result", "returned"}
    BY DEF IndInv, CallInv, CancelNoticed, PlaceSound, Over
  <2>2. PICK d \in Calls : RoundTrip(d) \/ Step(d) \/ CallerCtxEnds(d) \/ CallerCloses(d)
    BY DEF Next
  <2>3. CASE d # c
    BY <2>1, <2>2, <2>3, OthersUnmoved DEF IndInv, SameCall
  <2>4. CASE d = c
    <3>1. CASE Send(c)
      BY <2>1, <3>1 DEF Send, At
    <3>2. CASE Result(c)
      BY <2>1, <3>2 DEF Result, IndInv, TypeOK
    <3>3. CASE ~Send(c) /\ ~Result(c)
      BY <2>1, <2>2, <2>4, <3>3
         DEF Step, RoundTrip, CheckCtx, StartAttempt, AskBudget, RewindFails,
             AttemptFails, AttemptResponds, AfterAttempt, SleepEnds, CallerCtxEnds,
             CallerCloses
    <3> QED
      BY <3>1, <3>2, <3>3
  <2> QED
    BY <2>3, <2>4
<1> QED
  BY <1>1, RetryInvariant, PTL DEF Spec, CancelIsFinal

(***************************************************************************)
(* The refinement of Retry                                                 *)
(***************************************************************************)
\* What DoCtx sees of a call that does not move does not change.
LEMMA ViewKept ==
    ASSUME NEW d, SameCall(d), nonIdem' = nonIdem
    PROVE  /\ DoCtxPlace(d)' = DoCtxPlace(d)
           /\ DoCtxCalls(d)' = DoCtxCalls(d)
           /\ DoCtxLast(d)' = DoCtxLast(d)
  BY DEF SameCall, DoCtxPlace, DoCtxCalls, DoCtxLast, retryable

\* A step of call c changes what DoCtx sees of c and of nothing else.
LEMMA ViewMoves ==
    ASSUME TypeOK, NEW c \in Calls,
           RoundTrip(c) \/ Step(c) \/ CallerCtxEnds(c) \/ CallerCloses(c)
    PROVE  /\ UNCHANGED <<nonIdem, RetryIf, idempotent, reqBody>>
           /\ doPlace' = [doPlace EXCEPT ![c] = DoCtxPlace(c)']
           /\ doCalls' = [doCalls EXCEPT ![c] = DoCtxCalls(c)']
           /\ doLast' = [doLast EXCEPT ![c] = DoCtxLast(c)']
           /\ doPlace[c] = DoCtxPlace(c) /\ doCalls[c] = DoCtxCalls(c)
           /\ doLast[c] = DoCtxLast(c)
<1>1. UNCHANGED <<nonIdem, RetryIf, idempotent, reqBody>>
  BY DEF Step, RoundTrip, CheckCtx, StartAttempt, AskBudget, Send, RewindFails,
         AttemptFails, AttemptResponds, AfterAttempt, SleepEnds, Result, CallerCtxEnds,
         CallerCloses, inputVars
<1>2. \A d \in Calls \ {c} : /\ DoCtxPlace(d)' = DoCtxPlace(d)
                             /\ DoCtxCalls(d)' = DoCtxCalls(d)
                             /\ DoCtxLast(d)' = DoCtxLast(d)
  BY <1>1, OthersUnmoved, ViewKept
<1>3. doPlace' = [doPlace EXCEPT ![c] = DoCtxPlace(c)']
  BY <1>2 DEF doPlace
<1>4. doCalls' = [doCalls EXCEPT ![c] = DoCtxCalls(c)']
  BY <1>2 DEF doCalls
<1>5. doLast' = [doLast EXCEPT ![c] = DoCtxLast(c)']
  BY <1>2 DEF doLast
<1> QED
  BY <1>1, <1>3, <1>4, <1>5 DEF doPlace, doCalls, doLast

\* A call that DoCtx sees the same of, before and after its step, is a stutter.
LEMMA ViewStutters ==
    ASSUME TypeOK, NEW c \in Calls,
           RoundTrip(c) \/ Step(c) \/ CallerCtxEnds(c) \/ CallerCloses(c),
           DoCtxPlace(c)' = DoCtxPlace(c), DoCtxCalls(c)' = DoCtxCalls(c),
           DoCtxLast(c)' = DoCtxLast(c)
    PROVE  UNCHANGED <<RetryIf, doPlace, doCalls, doLast>>
<1>1. /\ doPlace' = [doPlace EXCEPT ![c] = doPlace[c]]
      /\ doCalls' = [doCalls EXCEPT ![c] = doCalls[c]]
      /\ doLast' = [doLast EXCEPT ![c] = doLast[c]]
      /\ UNCHANGED RetryIf
  BY ViewMoves
<1> QED
  BY <1>1 DEF doPlace, doCalls, doLast

\* A call that DoCtx has begun and RoundTrip has not finished may be repeated.
LEMMA InRetrier ==
    ASSUME IndInv, NEW c \in Calls,
           pc[c] \in {"head", "sleep"} \/ attempt[c] > 1
    PROVE  retryable(c) /\ reqBody[c] # "oneshot"
  BY DEF IndInv, CallInv, TypeOK, PlaceSound, RepeatSound

\* A step of the transport is a step of DoCtx for the call that takes it, or no step
\* of DoCtx at all.
LEMMA StepRefines ==
    ASSUME IndInv, NEW c \in Calls,
           RoundTrip(c) \/ Step(c) \/ CallerCtxEnds(c) \/ CallerCloses(c)
    PROVE  Abstract!RetryNext \/ UNCHANGED <<RetryIf, doPlace, doCalls, doLast, dead>>
<1> DEFINE Mapped == retryable(c) /\ reqBody[c] # "oneshot"
<1>1. TypeOK /\ PlaceSound(c) /\ attempt[c] \in 0 .. maxRetries /\ maxRetries \in Nat
  BY MaxRetriesPositive DEF IndInv, CallInv, TypeOK
<1>2. /\ UNCHANGED <<nonIdem, RetryIf, idempotent, reqBody>>
      /\ doPlace' = [doPlace EXCEPT ![c] = DoCtxPlace(c)']
      /\ doCalls' = [doCalls EXCEPT ![c] = DoCtxCalls(c)']
      /\ doLast' = [doLast EXCEPT ![c] = DoCtxLast(c)']
      /\ doPlace[c] = DoCtxPlace(c) /\ doCalls[c] = DoCtxCalls(c)
      /\ doLast[c] = DoCtxLast(c)
  BY <1>1, ViewMoves
<1>3. /\ DoCtxCalls(c)' = DoCtxCalls(c) => doCalls' = doCalls
      /\ DoCtxLast(c)' = DoCtxLast(c) => doLast' = doLast
  BY <1>2 DEF doCalls, doLast
<1>4. ASSUME DoCtxPlace(c)' = DoCtxPlace(c), DoCtxCalls(c)' = DoCtxCalls(c),
             DoCtxLast(c)' = DoCtxLast(c)
      PROVE  UNCHANGED <<RetryIf, doPlace, doCalls, doLast>>
  BY <1>1, <1>4, ViewStutters
<1>5. CASE ~CallerCtxEnds(c) /\ ~Mapped
  <2>1. /\ DoCtxPlace(c)' = DoCtxPlace(c) /\ DoCtxCalls(c)' = DoCtxCalls(c)
        /\ DoCtxLast(c)' = DoCtxLast(c)
    <3>1. /\ ~retryable(c) \/ reqBody[c] = "oneshot"
          /\ ~retryable(c)' \/ reqBody'[c] = "oneshot"
      BY <1>2, <1>5 DEF retryable
    <3>2. DoCtxPlace(c) = "idle" /\ DoCtxPlace(c)' = "idle"
      BY <3>1 DEF DoCtxPlace
    <3> QED
      BY <3>2 DEF DoCtxCalls, DoCtxLast
  <2>2. UNCHANGED dead
    BY <1>5
       DEF Step, RoundTrip, CheckCtx, StartAttempt, AskBudget, Send, RewindFails,
           AttemptFails, AttemptResponds, AfterAttempt, SleepEnds, Result, CallerCloses
  <2> QED
    BY <1>4, <2>1, <2>2
<1>6. CASE CallerCtxEnds(c)
  <2>1. dead' = [dead EXCEPT ![c] = TRUE] /\ UNCHANGED <<pc, attempt, err>>
    BY <1>6 DEF CallerCtxEnds
  <2>2. UNCHANGED <<RetryIf, doPlace, doCalls, doLast>>
    BY <1>2, <1>4, <2>1 DEF DoCtxPlace, DoCtxCalls, DoCtxLast, retryable
  <2> QED
    BY <2>1, <2>2 DEF Abstract!RetryNext, Abstract!CtxEnds
<1>7. ASSUME Mapped
      PROVE  /\ retryable(c) /\ retryable(c)' /\ reqBody[c] # "oneshot"
             /\ reqBody'[c] # "oneshot"
  BY <1>2, <1>7 DEF retryable
<1>8. CASE RoundTrip(c) /\ Mapped
  <2>1. /\ pc[c] = "idle" /\ pc'[c] = "head" /\ UNCHANGED <<attempt, err, dead>>
    BY <1>7, <1>8, <1>1 DEF RoundTrip, At, TypeOK
  <2>2. /\ DoCtxPlace(c) = "idle" /\ DoCtxPlace(c)' = "loop"
        /\ DoCtxCalls(c)' = DoCtxCalls(c) /\ DoCtxLast(c)' = DoCtxLast(c)
    BY <1>1, <1>7, <1>8, <2>1 DEF PlaceSound, DoCtxPlace, DoCtxCalls, DoCtxLast
  <2> QED
    BY <1>2, <1>3, <2>1, <2>2 DEF Abstract!RetryNext, Abstract!Begin, Abstract!Go
<1>9. CASE CheckCtx(c) /\ Mapped
  <2>1. /\ pc[c] = "head" /\ UNCHANGED <<attempt, dead>>
        /\ IF dead[c] THEN pc'[c] = "result" /\ err'[c] = "ctx"
                      ELSE pc'[c] = "once" /\ err'[c] = err[c]
    BY <1>1, <1>9 DEF CheckCtx, At, SetErr, TypeOK
  <2>2. CASE dead[c]
    <3>1. /\ DoCtxPlace(c) = "loop" /\ DoCtxPlace(c)' = "returned"
          /\ DoCtxCalls(c)' = DoCtxCalls(c) /\ DoCtxLast(c)' = "ctx"
      BY <1>7, <1>9, <2>1, <2>2 DEF DoCtxPlace, DoCtxCalls, DoCtxLast
    <3> QED
      BY <1>2, <1>3, <2>1, <2>2, <3>1
         DEF Abstract!RetryNext, Abstract!DoCtxStep, Abstract!ReturnCtx, Abstract!Go
  <2>3. CASE ~dead[c]
    <3>1. /\ DoCtxPlace(c) = "loop" /\ DoCtxPlace(c)' = "fn"
          /\ DoCtxCalls(c) < maxRetries /\ DoCtxCalls(c)' = DoCtxCalls(c) + 1
          /\ DoCtxLast(c)' = DoCtxLast(c)
      BY <1>1, <1>7, <1>9, <2>1, <2>3 DEF PlaceSound, DoCtxPlace, DoCtxCalls, DoCtxLast
    <3> QED
      BY <1>2, <1>3, <2>1, <2>3, <3>1
         DEF Abstract!RetryNext, Abstract!DoCtxStep, Abstract!CallFn, Abstract!Go
  <2> QED
    BY <2>2, <2>3
<1>10. CASE StartAttempt(c) /\ Mapped
  <2>1. /\ pc[c] = "once" /\ pc'[c] \in {"send", "budget"}
        /\ attempt'[c] = attempt[c] + 1 /\ UNCHANGED <<err, dead>>
    BY <1>1, <1>10 DEF StartAttempt, At, TypeOK
  <2>2. /\ DoCtxPlace(c)' = DoCtxPlace(c) /\ DoCtxCalls(c)' = DoCtxCalls(c)
        /\ DoCtxLast(c)' = DoCtxLast(c)
    BY <1>1, <1>7, <1>10, <2>1 DEF DoCtxPlace, DoCtxCalls, DoCtxLast
  <2> QED
    BY <1>4, <2>1, <2>2
<1>11. CASE AskBudget(c) /\ Mapped
  <2>1. /\ pc[c] = "budget" /\ UNCHANGED <<attempt, dead>>
        /\ \/ pc'[c] = "send" /\ err'[c] = err[c]
           \/ pc'[c] = "ended" /\ err'[c] = "budget"
    BY <1>1, <1>11 DEF AskBudget, At, SetErr, TypeOK
  <2>2. /\ DoCtxPlace(c) = "fn" /\ DoCtxCalls(c)' = DoCtxCalls(c)
        /\ \/ DoCtxPlace(c)' = "fn" /\ DoCtxLast(c)' = DoCtxLast(c)
           \/ DoCtxPlace(c)' = "back" /\ DoCtxLast(c)' = "budget"
    BY <1>7, <1>11, <2>1 DEF DoCtxPlace, DoCtxCalls, DoCtxLast
  <2>3. "budget" \in Errors
    BY DEF Errors
  <2>4. CASE DoCtxPlace(c)' = "fn"
    BY <1>4, <2>1, <2>2, <2>4
  <2>5. CASE DoCtxPlace(c)' = "back"
    BY <1>2, <1>3, <2>1, <2>2, <2>3, <2>5
       DEF Abstract!RetryNext, Abstract!DoCtxStep, Abstract!FnReturns, Abstract!Go
  <2> QED
    BY <2>2, <2>4, <2>5
<1>12. CASE Send(c) /\ Mapped
  <2>1. /\ pc[c] = "send" /\ pc'[c] = "sending" /\ UNCHANGED <<attempt, err, dead>>
    BY <1>1, <1>12 DEF Send, At, TypeOK
  <2>2. /\ DoCtxPlace(c)' = DoCtxPlace(c) /\ DoCtxCalls(c)' = DoCtxCalls(c)
        /\ DoCtxLast(c)' = DoCtxLast(c)
    BY <1>1, <1>7, <1>12, <2>1 DEF DoCtxPlace, DoCtxCalls, DoCtxLast
  <2> QED
    BY <1>4, <2>1, <2>2
<1>13. CASE RewindFails(c) /\ Mapped
  <2>1. /\ pc[c] = "send" /\ pc'[c] = "ended" /\ UNCHANGED <<attempt, dead>>
        /\ err'[c] \in Errors \cup {"nil"}
    BY <1>1, <1>13 DEF RewindFails, At, SetErr, Errors, TypeOK
  <2>2. /\ DoCtxPlace(c) = "fn" /\ DoCtxPlace(c)' = "back"
        /\ DoCtxCalls(c)' = DoCtxCalls(c) /\ DoCtxLast(c)' \in Errors \cup {"nil"}
    BY <1>7, <1>13, <2>1 DEF DoCtxPlace, DoCtxCalls, DoCtxLast
  <2> QED
    BY <1>2, <1>3, <2>1, <2>2
       DEF Abstract!RetryNext, Abstract!DoCtxStep, Abstract!FnReturns, Abstract!Go
<1>14. CASE AttemptFails(c) /\ Mapped
  <2>1. /\ pc[c] = "sending" /\ pc'[c] = "ended" /\ UNCHANGED <<attempt, dead>>
        /\ err'[c] \in Errors \cup {"nil"}
    BY <1>1, <1>14 DEF AttemptFails, At, SetErr, normalizeErr, Errors, TypeOK
  <2>2. /\ DoCtxPlace(c) = "fn" /\ DoCtxPlace(c)' = "back"
        /\ DoCtxCalls(c)' = DoCtxCalls(c) /\ DoCtxLast(c)' \in Errors \cup {"nil"}
    BY <1>7, <1>14, <2>1 DEF DoCtxPlace, DoCtxCalls, DoCtxLast
  <2> QED
    BY <1>2, <1>3, <2>1, <2>2
       DEF Abstract!RetryNext, Abstract!DoCtxStep, Abstract!FnReturns, Abstract!Go
<1>15. CASE AttemptResponds(c) /\ Mapped
  <2>1. /\ pc[c] = "sending" /\ pc'[c] = "ended" /\ UNCHANGED <<attempt, dead>>
        /\ err'[c] \in Errors \cup {"nil"}
    <3>1. PICK e \in {"status", "nil"} : err' = [err EXCEPT ![c] = e]
      BY <1>15 DEF AttemptResponds, SetErr
    <3> QED
      BY <1>1, <1>15, <3>1 DEF AttemptResponds, At, Errors, TypeOK
  <2>2. /\ DoCtxPlace(c) = "fn" /\ DoCtxPlace(c)' = "back"
        /\ DoCtxCalls(c)' = DoCtxCalls(c) /\ DoCtxLast(c)' \in Errors \cup {"nil"}
    BY <1>7, <1>15, <2>1 DEF DoCtxPlace, DoCtxCalls, DoCtxLast
  <2> QED
    BY <1>2, <1>3, <2>1, <2>2
       DEF Abstract!RetryNext, Abstract!DoCtxStep, Abstract!FnReturns, Abstract!Go
<1>16. CASE AfterAttempt(c) /\ Mapped
  <2>1. /\ pc[c] = "ended" /\ pc'[c] = (IF GoesOn(c) THEN "sleep" ELSE "result")
        /\ UNCHANGED <<attempt, err, dead>>
    BY <1>1, <1>16 DEF AfterAttempt, At, TypeOK
  <2>2. /\ DoCtxPlace(c) = "back"
        /\ DoCtxPlace(c)' = (IF GoesOn(c) THEN "loop" ELSE "returned")
        /\ DoCtxCalls(c) = attempt[c] /\ DoCtxCalls(c)' = DoCtxCalls(c)
        /\ DoCtxLast(c) = err[c] /\ DoCtxLast(c)' = DoCtxLast(c)
    BY <1>1, <1>7, <1>16, <2>1 DEF DoCtxPlace, DoCtxCalls, DoCtxLast
  <2>3. GoesOn(c) <=> DoCtxLast(c) \in RetryIf /\ DoCtxCalls(c) < maxRetries
    BY <1>7, <1>16, <2>2 DEF GoesOn
  <2>4. CASE GoesOn(c)
    BY <1>2, <1>3, <2>1, <2>2, <2>3, <2>4
       DEF Abstract!RetryNext, Abstract!DoCtxStep, Abstract!Again, Abstract!Go
  <2>5. CASE ~GoesOn(c)
    <3>1. DoCtxLast(c) \notin RetryIf \/ DoCtxCalls(c) = maxRetries
      BY <1>1, <2>2, <2>3, <2>5
    <3> QED
      BY <1>2, <1>3, <2>1, <2>2, <2>5, <3>1
         DEF Abstract!RetryNext, Abstract!DoCtxStep, Abstract!ReturnLast, Abstract!Go
  <2> QED
    BY <2>4, <2>5
<1>17. CASE SleepEnds(c) /\ Mapped
  <2>1. /\ pc[c] = "sleep" /\ UNCHANGED <<attempt, dead>>
        /\ \/ pc'[c] = "head" /\ err'[c] = err[c]
           \/ pc'[c] = "result" /\ dead[c] /\ err'[c] = "ctx"
    BY <1>1, <1>17 DEF SleepEnds, At, SetErr, TypeOK
  <2>2. /\ DoCtxPlace(c) = "loop" /\ DoCtxCalls(c)' = DoCtxCalls(c)
        /\ \/ DoCtxPlace(c)' = "loop" /\ DoCtxLast(c)' = DoCtxLast(c)
           \/ DoCtxPlace(c)' = "returned" /\ dead[c] /\ DoCtxLast(c)' = "ctx"
    BY <1>7, <1>17, <2>1 DEF DoCtxPlace, DoCtxCalls, DoCtxLast
  <2>3. CASE DoCtxPlace(c)' = "loop"
    BY <1>4, <2>1, <2>2, <2>3
  <2>4. CASE DoCtxPlace(c)' = "returned"
    BY <1>2, <1>3, <2>1, <2>2, <2>4
       DEF Abstract!RetryNext, Abstract!DoCtxStep, Abstract!ReturnCtx, Abstract!Go
  <2> QED
    BY <2>2, <2>3, <2>4
<1>18. CASE Result(c) /\ Mapped
  <2>1. /\ pc[c] = "result" /\ pc'[c] = "returned" /\ UNCHANGED <<attempt, err, dead>>
    BY <1>1, <1>18 DEF Result, At, TypeOK
  <2>2. /\ DoCtxPlace(c)' = DoCtxPlace(c) /\ DoCtxCalls(c)' = DoCtxCalls(c)
        /\ DoCtxLast(c)' = DoCtxLast(c)
    BY <1>1, <1>7, <1>18, <2>1 DEF DoCtxPlace, DoCtxCalls, DoCtxLast
  <2> QED
    BY <1>4, <2>1, <2>2
<1>19. CASE CallerCloses(c) /\ Mapped
  <2>1. /\ pc[c] = "returned" /\ pc'[c] = "closed" /\ UNCHANGED <<attempt, err, dead>>
    BY <1>1, <1>19 DEF CallerCloses, At, TypeOK
  <2>2. /\ DoCtxPlace(c)' = DoCtxPlace(c) /\ DoCtxCalls(c)' = DoCtxCalls(c)
        /\ DoCtxLast(c)' = DoCtxLast(c)
    BY <1>1, <1>7, <1>19, <2>1 DEF DoCtxPlace, DoCtxCalls, DoCtxLast
  <2> QED
    BY <1>4, <2>1, <2>2
<1> QED
  BY <1>5, <1>6, <1>8, <1>9, <1>10, <1>11, <1>12, <1>13, <1>14, <1>15, <1>16, <1>17, <1>18, <1>19
     DEF Step

\* Whatever the base transport, the budget, the classifier and the caller's context do,
\* every RoundTrip through the retrier behaves as DoCtx promises: this is the safety
\* part of ImplementsRetry.
THEOREM TransportImplementsRetry == Spec => Abstract!RetrySafety
<1>1. Init => Abstract!RetryInit
  BY RetryIfErrors
     DEF Init, Configure, Abstract!RetryInit, doPlace, doCalls, doLast, DoCtxPlace,
         DoCtxCalls, DoCtxLast
<1>2. IndInv /\ [Next]_vars => [Abstract!RetryNext]_(Abstract!retryVars)
  <2> SUFFICES ASSUME IndInv, [Next]_vars
               PROVE  \/ Abstract!RetryNext
                      \/ UNCHANGED <<RetryIf, doPlace, doCalls, doLast, dead>>
    BY DEF Abstract!retryVars
  <2>1. CASE Next
    BY <2>1, StepRefines DEF Next
  <2>2. CASE UNCHANGED vars
    BY <2>2
       DEF vars, inputVars, doPlace, doCalls, doLast, DoCtxPlace, DoCtxCalls, DoCtxLast,
           retryable
  <2> QED
    BY <2>1, <2>2
<1> QED
  BY <1>1, <1>2, RetryInvariant, PTL DEF Spec, Abstract!RetrySafety
==============================================================================
