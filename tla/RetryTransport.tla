--------------------------- MODULE RetryTransport ----------------------------
(***************************************************************************)
(* httpclient/retry_transport.go with the retry loop it runs in            *)
(* (retry.DoCtx): RoundTrip calls that share one client and its retry      *)
(* budget.  The caller's context may end at any point; the base transport, *)
(* the budget and GetBody are external and answer as they like.            *)
(*                                                                         *)
(* Attempts are numbered, and attempt n has a context and, if the base     *)
(* transport answers, a response body, both to be released exactly once:   *)
(* by the transport, or by the caller through the body it is given.        *)
(***************************************************************************)
EXTENDS Integers

CONSTANTS Calls,        \* the RoundTrip calls
          MaxRetries,   \* the retrier's maxRetries
          RetryIfs,     \* the classifiers: the sets of errors they retry
          DelayStep,    \* the retrier's delayStep
          MaxRetryAfter,\* WithMaxRetryAfter
          Second,       \* time.Second, in the unit of all durations
          RetryAfters,  \* Retry-After headers: a form and its number
          MaxInt        \* math.MaxInt64, scaled down

\* What an attempt, or RoundTrip itself, may end with.  nil: no error.  status:
\* a retryable status.  refused: a refused or reset connection.  other: an error
\* no default classifier retries.
Errors == {"status", "attempt timeout", "refused", "other", "ctx", "budget",
           "not replayable"}

\* The errors defaultRetryIf answers true for.
defaultRetryIf == {"status", "attempt timeout", "refused"}

ASSUME MaxRetriesInt == MaxRetries \in Int
ASSUME RetryIfErrors == RetryIfs \subseteq SUBSET Errors
ASSUME HeadersTyped ==
    RetryAfters \subseteq [form : {"none", "seconds", "date"}, n : Nat]
\* A cap within a second of the largest duration would overflow parseRetryAfter, one
\* within a tenth of it (26 years of 292) the jitter on top of a hint.
ASSUME DurationsFit ==
    /\ DelayStep \in Int /\ Second \in Nat \ {0} /\ MaxRetryAfter \in Nat
    /\ MaxInt \in Nat /\ MaxRetryAfter + Second <= MaxInt
    /\ MaxRetryAfter + (MaxRetryAfter \div 10) <= MaxInt

\* A status the client retries: a server error (failing), or one that may
\* come with a Retry-After (throttled: 429 and 503).
retryableStatuses == {"failing", "throttled"}

\* New and DoCtx both clamp the number of attempts up to 1.
maxRetries == IF MaxRetries < 1 THEN 1 ELSE MaxRetries
Attempts == 1 .. maxRetries
NoResp == 0

VARIABLES
    nonIdem,    \* WithRetryNonIdempotent (the client's configuration)
    RetryIf,    \* the errors the retrier's classifier retries (the same)
    jitter,     \* the retrier's jitter (the same)
    idempotent, \* is the call's method in idempotentMethods? (input)
    reqBody,    \* its body: none, rewindable (GetBody) or oneshot (input)
    dead,       \* the caller's context has ended
    pc,         \* where each RoundTrip stands
    attempt,    \* l.attempt
    prev,       \* the attempt whose response is held, NoResp for none
    resp,       \* the attempt whose response is terminal, NoResp for none
    err,        \* the latest error, "nil" for none
    hint,       \* the delay its retryableStatusError carries
    delay,      \* what the retrier sleeps, 0 outside a sleep
    asked,      \* how long the latest response asked to be left alone (history)
    raw,        \* the base transport's latest error, "nil" for none (history)
    ctx,        \* ctx[c][n]: none, open or cancelled
    body,       \* body[c][n]: none, open, closed or twice (closed twice)
    sent,       \* requests handed to the base transport (history)
    recorded,   \* Record(true) and Record(false) calls (history)
    result      \* what RoundTrip returned: none, an attempt's response, or error

inputVars == <<nonIdem, RetryIf, jitter, idempotent, reqBody>>
delayVars == <<hint, delay, asked>>
vars == <<inputVars, delayVars, dead, pc, attempt, prev, resp, err, raw, ctx, body,
          sent, recorded, result>>

\* The client: a default retrier always jitters and has the caller's classifier or
\* defaultRetryIf; one that came with WithRetry is as its maker wanted it.
Configure ==
    /\ nonIdem \in BOOLEAN
    /\ RetryIf \in RetryIfs
    /\ jitter \in BOOLEAN

Init ==
    /\ Configure
    /\ idempotent \in [Calls -> BOOLEAN]
    /\ reqBody \in [Calls -> {"none", "rewindable", "oneshot"}]
    /\ dead = [c \in Calls |-> FALSE]
    /\ pc = [c \in Calls |-> "idle"]
    /\ attempt = [c \in Calls |-> 0]
    /\ prev = [c \in Calls |-> NoResp]
    /\ resp = [c \in Calls |-> NoResp]
    /\ err = [c \in Calls |-> "nil"]
    /\ hint = [c \in Calls |-> 0]
    /\ delay = [c \in Calls |-> 0]
    /\ asked = [c \in Calls |-> 0]
    /\ raw = [c \in Calls |-> "nil"]
    /\ ctx = [c \in Calls |-> [n \in Attempts |-> "none"]]
    /\ body = [c \in Calls |-> [n \in Attempts |-> "none"]]
    /\ sent = [c \in Calls |-> 0]
    /\ recorded = [c \in Calls |-> [yes |-> 0, no |-> 0]]
    /\ result = [c \in Calls |-> "none"]

At(c, here, there) == pc[c] = here /\ pc' = [pc EXCEPT ![c] = there]
SetErr(c, e) == err' = [err EXCEPT ![c] = e]
Closed(state) == IF state = "open" THEN "closed" ELSE "twice"

retryable(c) == nonIdem \/ idempotent[c]

(***************************************************************************)
(* RoundTrip and the loop of DoCtx                                         *)
(***************************************************************************)
\* The gate: a body that cannot be replayed is refused, a request that must not
\* be repeated is sent once without the retrier.
RoundTrip(c) ==
    /\ IF retryable(c) /\ reqBody[c] = "oneshot"
       THEN At(c, "idle", "result") /\ SetErr(c, "not replayable")
       ELSE At(c, "idle", IF retryable(c) THEN "head" ELSE "once") /\ UNCHANGED err
    /\ UNCHANGED <<inputVars, delayVars, dead, attempt, prev, resp, raw, ctx, body,
                   sent, recorded, result>>

\* Mutant of CheckCtx: the loop does not look at the caller's context.
CheckCtxSkipped(c) ==
    /\ At(c, "head", "once")
    /\ UNCHANGED <<inputVars, delayVars, dead, attempt, prev, resp, err, raw, ctx,
                   body, sent, recorded, result>>

\* The head of DoCtx's loop.
CheckCtx(c) ==
    /\ At(c, "head", IF dead[c] THEN "result" ELSE "once")
    /\ IF dead[c] THEN SetErr(c, "ctx") ELSE UNCHANGED err
    /\ UNCHANGED <<inputVars, delayVars, dead, attempt, prev, resp, raw, ctx, body,
                   sent, recorded, result>>

\* Drain and close attempt n's body, then cancel its context.
drainClose(c, n) ==
    /\ body' = [body EXCEPT ![c][n] = Closed(@)]
    /\ ctx' = [ctx EXCEPT ![c][n] = "cancelled"]

\* Mutant of StartAttempt: the held response is forgotten, not drained.
StartUndrained(c) ==
    /\ At(c, "once", IF attempt[c] = 0 THEN "send" ELSE "budget")
    /\ attempt' = [attempt EXCEPT ![c] = @ + 1]
    /\ prev' = [prev EXCEPT ![c] = NoResp]
    /\ hint' = [hint EXCEPT ![c] = 0]
    /\ asked' = [asked EXCEPT ![c] = 0]
    /\ UNCHANGED <<inputVars, delay, dead, resp, err, raw, ctx, body, sent, recorded,
                   result>>

\* once: count the attempt and let the previous response go.
StartAttempt(c) ==
    /\ At(c, "once", IF attempt[c] = 0 THEN "send" ELSE "budget")
    /\ attempt' = [attempt EXCEPT ![c] = @ + 1]
    /\ IF prev[c] # NoResp THEN drainClose(c, prev[c]) ELSE UNCHANGED <<body, ctx>>
    /\ prev' = [prev EXCEPT ![c] = NoResp]
    /\ hint' = [hint EXCEPT ![c] = 0]
    /\ asked' = [asked EXCEPT ![c] = 0]
    /\ UNCHANGED <<inputVars, delay, dead, resp, err, raw, sent, recorded, result>>

\* Mutant of AskBudget: a refusal is not recorded.
AskBudgetSilent(c) ==
    /\ \/ /\ At(c, "budget", "send")
          /\ recorded' = [recorded EXCEPT ![c].yes = @ + 1]
          /\ UNCHANGED err
       \/ /\ At(c, "budget", "ended")
          /\ SetErr(c, "budget")
          /\ UNCHANGED recorded
    /\ UNCHANGED <<inputVars, delayVars, dead, attempt, prev, resp, raw, ctx, body,
                   sent, result>>

\* The budget is asked before a retry and told what came of it.
AskBudget(c) ==
    /\ \/ /\ At(c, "budget", "send")
          /\ recorded' = [recorded EXCEPT ![c].yes = @ + 1]
          /\ UNCHANGED err
       \/ /\ At(c, "budget", "ended")
          /\ recorded' = [recorded EXCEPT ![c].no = @ + 1]
          /\ SetErr(c, "budget")
    /\ UNCHANGED <<inputVars, delayVars, dead, attempt, prev, resp, raw, ctx, body,
                   sent, result>>

(***************************************************************************)
(* send                                                                    *)
(***************************************************************************)
\* A fresh context, the body rewound on a retry, and off it goes.
Send(c) ==
    /\ At(c, "send", "sending")
    /\ ctx' = [ctx EXCEPT ![c][attempt[c]] = "open"]
    /\ sent' = [sent EXCEPT ![c] = @ + 1]
    /\ UNCHANGED <<inputVars, delayVars, dead, attempt, prev, resp, err, raw, body,
                   recorded, result>>

\* GetBody fails on a retry: the fresh context is cancelled at once.
RewindFails(c) ==
    /\ attempt[c] > 1 /\ reqBody[c] = "rewindable"
    /\ At(c, "send", "ended")
    /\ ctx' = [ctx EXCEPT ![c][attempt[c]] = "cancelled"]
    /\ SetErr(c, "other")
    /\ UNCHANGED <<inputVars, delayVars, dead, attempt, prev, resp, raw, body, sent,
                   recorded, result>>

\* normalizeErr: the caller's context first, then the attempt's, then the error
\* itself.
normalizeErr(parentDead, attemptDead, rerr) ==
    IF parentDead THEN "ctx" ELSE IF attemptDead THEN "attempt timeout" ELSE rerr

\* Has the attempt's context ended when normalizeErr looks at it?  send cancels
\* it just before, so it has, however the attempt failed.
AttemptCtxDead(timedOut) == TRUE

\* The base transport returns an error; with the attempt's deadline past
\* (timedOut) or not.  send cancels the attempt and normalises the error.
AttemptFails(c) ==
    /\ At(c, "sending", "ended")
    /\ \E rerr \in {"refused", "other"}, timedOut \in BOOLEAN :
         /\ raw' = [raw EXCEPT ![c] = IF timedOut THEN "attempt timeout" ELSE rerr]
         /\ SetErr(c, normalizeErr(dead[c], AttemptCtxDead(timedOut), rerr))
    /\ ctx' = [ctx EXCEPT ![c][attempt[c]] = "cancelled"]
    /\ UNCHANGED <<inputVars, delayVars, dead, attempt, prev, resp, body, sent,
                   recorded, result>>

\* The number of seconds in a header that strconv.Atoi can read.
Seconds(h) == h.form = "seconds" /\ h.n <= MaxInt

\* What a response asks for, 0 for nothing.  Only 429 and 503 (throttled) are
\* asked; a number too large for a duration is put just past the cap; the time
\* until a date is counted from now.
parseRetryAfter(status, h) ==
    CASE status = "throttled" /\ Seconds(h) ->
           IF h.n > (MaxRetryAfter \div Second) + 1 THEN MaxRetryAfter + Second
           ELSE h.n * Second
      [] status = "throttled" /\ h.form = "date" -> h.n
      [] OTHER -> 0

withinCap(d) == d <= MaxRetryAfter

\* Will classify hold a response for a retry?  A Retry-After past the cap makes a
\* retryable status terminal.
Holds(c, status, h) ==
    /\ retryable(c)
    /\ status \in retryableStatuses
    /\ withinCap(parseRetryAfter(status, h))

\* What the server meant, if it wrote a number that fits an int.
Wish(status, h) ==
    CASE status = "throttled" /\ Seconds(h) -> h.n * Second
      [] status = "throttled" /\ h.form = "date" -> h.n
      [] OTHER -> 0

\* The base transport returns a response, fine or with a retryable status.  It is
\* held for a retry or becomes the terminal one.
AttemptResponds(c) ==
    LET n == attempt[c] IN
    /\ At(c, "sending", "ended")
    /\ body' = [body EXCEPT ![c][n] = "open"]
    /\ \E status \in retryableStatuses \cup {"fine"}, h \in RetryAfters :
         /\ asked' = [asked EXCEPT ![c] = Wish(status, h)]
         /\ IF Holds(c, status, h)
            THEN /\ prev' = [prev EXCEPT ![c] = n]
                 /\ SetErr(c, "status")
                 /\ hint' = [hint EXCEPT ![c] = parseRetryAfter(status, h)]
                 /\ UNCHANGED resp
            ELSE /\ resp' = [resp EXCEPT ![c] = n]
                 /\ SetErr(c, "nil")
                 /\ UNCHANGED <<prev, hint>>
    /\ raw' = [raw EXCEPT ![c] = "nil"]
    /\ UNCHANGED <<inputVars, delay, dead, attempt, ctx, sent, recorded, result>>

(***************************************************************************)
(* The rest of DoCtx's loop, and result                                    *)
(***************************************************************************)
\* Mutants of GoesOn: whatever the method; one attempt too many.
GoesOnAnyMethod(c) == err[c] \in RetryIf /\ attempt[c] < maxRetries
GoesOnOnceMore(c) == retryable(c) /\ err[c] \in RetryIf /\ attempt[c] <= maxRetries

\* DoCtx goes on after an attempt: it failed, may be retried, was not the last.
GoesOn(c) ==
    /\ retryable(c)
    /\ err[c] \in RetryIf
    /\ attempt[c] < maxRetries

\* int64 arithmetic.
Wrap(x) == ((x + MaxInt + 1) % (2 * (MaxInt + 1))) - (MaxInt + 1)

\* The delays calculateJitter may return: [0, base).
calculateJitter(base) == IF base <= 0 THEN {0} ELSE 0 .. base - 1

\* Mutant of nextDelay: the hint is jittered like a step.
nextDelayJittered(i, h) ==
    LET base == IF h > 0 THEN h ELSE Wrap(DelayStep * (i + 1))
    IN  IF jitter THEN calculateJitter(base) ELSE {base}

\* The delays nextDelay may return after attempt i, counted from 0, whose error
\* carries the hint h: the hint is a floor, the linear step a ceiling.
nextDelay(i, h) ==
    IF h > 0
    THEN IF jitter THEN {Wrap(h + x) : x \in calculateJitter(h \div 10)} ELSE {h}
    ELSE LET base == Wrap(DelayStep * (i + 1))
         IN  IF jitter THEN calculateJitter(base) ELSE {base}

AfterAttempt(c) ==
    /\ \/ /\ GoesOn(c)
          /\ At(c, "ended", "sleep")
          /\ \E d \in nextDelay(attempt[c] - 1, hint[c]) :
                delay' = [delay EXCEPT ![c] = d]
       \/ /\ ~GoesOn(c)
          /\ At(c, "ended", "result")
          /\ UNCHANGED delay
    /\ UNCHANGED <<inputVars, hint, asked, dead, attempt, prev, resp, err, raw, ctx,
                   body, sent, recorded, result>>

\* Mutant of SleepEnds: only the caller's context ends it.
SleepEndsByCtx(c) ==
    /\ At(c, "sleep", "result") /\ dead[c] /\ SetErr(c, "ctx")
    /\ delay' = [delay EXCEPT ![c] = 0]
    /\ UNCHANGED <<inputVars, hint, asked, dead, attempt, prev, resp, raw, ctx, body,
                   sent, recorded, result>>

\* The sleep ends with its timer or with the caller's context.
SleepEnds(c) ==
    /\ \/ At(c, "sleep", "head") /\ UNCHANGED err
       \/ At(c, "sleep", "result") /\ dead[c] /\ SetErr(c, "ctx")
    /\ delay' = [delay EXCEPT ![c] = 0]
    /\ UNCHANGED <<inputVars, hint, asked, dead, attempt, prev, resp, raw, ctx, body,
                   sent, recorded, result>>

\* result: the terminal response, or the held one of an exhausted retry, or the
\* error, with whatever is still held let go.
Result(c) ==
    /\ At(c, "result", "returned")
    /\ \/ /\ resp[c] # NoResp
          /\ result' = [result EXCEPT ![c] = "response"]
          /\ UNCHANGED <<resp, body, ctx>>
       \/ /\ resp[c] = NoResp /\ prev[c] # NoResp /\ err[c] = "status"
          /\ result' = [result EXCEPT ![c] = "response"]
          /\ resp' = [resp EXCEPT ![c] = prev[c]]
          /\ UNCHANGED <<body, ctx>>
       \/ /\ resp[c] = NoResp /\ prev[c] # NoResp /\ err[c] # "status"
          /\ result' = [result EXCEPT ![c] = "error"]
          /\ drainClose(c, prev[c])
          /\ UNCHANGED resp
       \/ /\ resp[c] = NoResp /\ prev[c] = NoResp
          /\ result' = [result EXCEPT ![c] = "error"]
          /\ UNCHANGED <<resp, body, ctx>>
    /\ UNCHANGED <<inputVars, delayVars, dead, attempt, prev, err, raw, sent,
                   recorded>>

(***************************************************************************)
(* The caller                                                              *)
(***************************************************************************)
\* The caller's context ends: cancelled, or past its deadline.
CallerCtxEnds(c) ==
    /\ ~dead[c]
    /\ pc[c] \notin {"returned", "closed"}
    /\ dead' = [dead EXCEPT ![c] = TRUE]
    /\ UNCHANGED <<inputVars, delayVars, pc, attempt, prev, resp, err, raw, ctx, body,
                   sent, recorded, result>>

\* The caller closes the body it was given: cancelOnClose closes and cancels.
CallerCloses(c) ==
    /\ At(c, "returned", "closed")
    /\ result[c] = "response"
    /\ drainClose(c, resp[c])
    /\ UNCHANGED <<inputVars, delayVars, dead, attempt, prev, resp, err, raw, sent,
                   recorded, result>>

Step(c) ==
    \/ CheckCtx(c) \/ StartAttempt(c) \/ AskBudget(c)
    \/ Send(c) \/ RewindFails(c) \/ AttemptFails(c) \/ AttemptResponds(c)
    \/ AfterAttempt(c) \/ SleepEnds(c) \/ Result(c)

Next ==
    \E c \in Calls : RoundTrip(c) \/ Step(c) \/ CallerCtxEnds(c) \/ CallerCloses(c)

Spec == Init /\ [][Next]_vars

\* A call in progress goes on: timers fire and the base transport answers.
FairSpec == Spec /\ \A c \in Calls : WF_vars(Step(c))

(***************************************************************************)
(* Properties                                                              *)
(***************************************************************************)
TypeOK ==
    /\ nonIdem \in BOOLEAN /\ RetryIf \in RetryIfs /\ jitter \in BOOLEAN
    /\ hint \in [Calls -> Nat] /\ delay \in [Calls -> Int] /\ asked \in [Calls -> Nat]
    /\ idempotent \in [Calls -> BOOLEAN]
    /\ reqBody \in [Calls -> {"none", "rewindable", "oneshot"}]
    /\ dead \in [Calls -> BOOLEAN]
    /\ pc \in [Calls -> {"idle", "head", "once", "budget", "send", "sending", "ended",
                         "sleep", "result", "returned", "closed"}]
    /\ attempt \in [Calls -> 0 .. maxRetries]
    /\ prev \in [Calls -> 0 .. maxRetries]
    /\ resp \in [Calls -> 0 .. maxRetries]
    /\ err \in [Calls -> Errors \cup {"nil"}]
    /\ raw \in [Calls -> Errors \cup {"nil"}]
    /\ ctx \in [Calls -> [Attempts -> {"none", "open", "cancelled"}]]
    /\ body \in [Calls -> [Attempts -> {"none", "open", "closed", "twice"}]]
    /\ sent \in [Calls -> Nat]
    /\ recorded \in [Calls -> [yes : Nat, no : Nat]]
    /\ result \in [Calls -> {"none", "response", "error"}]

\* When RoundTrip has returned, every attempt's body is closed and its context
\* cancelled, except those of the response the caller was given, which is live;
\* closing that one releases the rest.  No body is ever closed twice.
NothingLeaks ==
    \A c \in Calls, n \in Attempts :
        /\ body[c][n] # "twice"
        /\ pc[c] \in {"returned", "closed"} =>
             IF pc[c] = "returned" /\ result[c] = "response" /\ resp[c] = n
             THEN body[c][n] = "open" /\ ctx[c][n] = "open"
             ELSE body[c][n] # "open" /\ ctx[c][n] # "open"

\* A request that must not be repeated, or whose body cannot be read again, is
\* never sent twice, whatever the classifier says; no request is sent more often
\* than the retrier allows.
ReplaySafe ==
    \A c \in Calls :
        /\ sent[c] <= maxRetries
        /\ sent[c] > 1 => retryable(c) /\ reqBody[c] # "oneshot"

\* The budget is asked, and told the answer, exactly once for every attempt after
\* the first and never for the first; no retry is sent without a grant.  A grant
\* may go unspent: the body it was for could not be rewound.
BudgetKept(c) ==
    LET retries == attempt[c] - 1
        asking == IF pc[c] = "budget" THEN 1 ELSE 0
    IN  attempt[c] > 0 =>
          /\ recorded[c].yes + recorded[c].no = retries - asking
          /\ sent[c] <= 1 + recorded[c].yes
BudgetExact == \A c \in Calls : BudgetKept(c)

\* Once the end of the caller's context has been noticed no attempt is sent,
\* whatever the classifier says, and RoundTrip does not return a held response.
CancelIsFinal ==
    [][\A c \in Calls :
         err[c] = "ctx" => sent'[c] = sent[c] /\ result'[c] # "response"]_vars

\* A retry never comes sooner than the latest 429 or 503 asked for: a pause past
\* the cap is not waited for, the response is returned instead, and jitter only
\* ever adds, at most a tenth.  A retry nobody asked to put off waits at most the
\* linear step (a negative one aside, which does not wait), so a hint does not
\* outlive the attempt it came with.
PauseHonoured(c) ==
    pc[c] = "sleep" =>
        IF asked[c] > 0
        THEN /\ asked[c] <= MaxRetryAfter
             /\ asked[c] <= delay[c] /\ delay[c] <= asked[c] + (asked[c] \div 10)
        ELSE DelayStep >= 0 => delay[c] <= DelayStep * attempt[c]
RetryAfterHonoured == \A c \in Calls : PauseHonoured(c)

\* The place in DoCtx of a call that goes through the retrier; the function DoCtx
\* calls is loop.once.
DoCtxPlace(c) ==
    IF ~retryable(c) \/ reqBody[c] = "oneshot" \/ pc[c] = "idle" THEN "idle"
    ELSE CASE pc[c] \in {"head", "sleep"} -> "loop"
           [] pc[c] \in {"once", "budget", "send", "sending"} -> "fn"
           [] pc[c] = "ended" -> "back"
           [] OTHER -> "returned"

\* How often DoCtx has called loop.once, and what came back last.
DoCtxCalls(c) ==
    IF DoCtxPlace(c) = "idle" THEN 0
    ELSE attempt[c] + (IF pc[c] = "once" THEN 1 ELSE 0)
DoCtxLast(c) == IF DoCtxPlace(c) = "idle" THEN "nil" ELSE err[c]

doPlace == [c \in Calls |-> DoCtxPlace(c)]
doCalls == [c \in Calls |-> DoCtxCalls(c)]
doLast == [c \in Calls |-> DoCtxLast(c)]

Abstract == INSTANCE Retry WITH
    DoCalls <- Calls, Max <- maxRetries, Errs <- Errors, retryIf <- RetryIf,
    ended <- dead, place <- doPlace, calls <- doCalls, last <- doLast

\* Every RoundTrip through the retrier keeps what DoCtx promises of any function:
\* loop.once is called at most maxRetries times, never after the caller's context
\* was seen to have ended or after an error the classifier does not retry, the last
\* error or the context's comes back, and the call ends.
ImplementsRetry == Abstract!RetrySpec

\* The comments of normalizeErr and defaultRetryIf: an error that is neither a
\* timeout nor a refused or reset connection reaches the classifier as it is
\* and is terminal: it is not retried.
OtherErrorsTerminal ==
    [][\A c \in Calls : raw[c] = "other" /\ ~dead[c] => sent'[c] = sent[c]]_vars

\* Every RoundTrip returns, whether or not the caller's context ever ends.
RoundTripReturns ==
    \A c \in Calls :
        pc[c] \in {"head", "once"} ~> pc[c] \in {"returned", "closed"}

(***************************************************************************)
(* The inductive invariant behind the properties above.  All of it is      *)
(* about one call at a time: calls share only the configuration.           *)
(***************************************************************************)
Over == {"returned", "closed"}
Released(c, n) == body[c][n] \in {"none", "closed"} /\ ctx[c][n] # "open"
Live(c, n) == body[c][n] = "open" /\ ctx[c][n] = "open"
Fresh(c, n) == body[c][n] = "none" /\ ctx[c][n] = "none"

\* Where a call stands tells how far its attempts have come, which response it
\* keeps, if any, and that it keeps one at most.
PlaceSound(c) ==
    /\ prev[c] \in {NoResp, attempt[c]} /\ resp[c] \in {NoResp, attempt[c]}
    /\ pc[c] \in {"idle", "head", "once", "sleep"} => attempt[c] < maxRetries
    /\ pc[c] = "idle" => attempt[c] = 0 /\ err[c] = "nil"
    /\ pc[c] \in {"send", "sending", "ended", "sleep"} => attempt[c] >= 1
    /\ pc[c] = "budget" => attempt[c] >= 2
    /\ pc[c] \in {"budget", "send", "sending"} => prev[c] = NoResp
    /\ resp[c] # NoResp => pc[c] \in {"ended", "result"} \cup Over
    /\ resp[c] # NoResp /\ pc[c] \in {"ended", "result"} =>
          err[c] = "nil" /\ prev[c] = NoResp
    /\ IF pc[c] \in Over THEN result[c] = "response" <=> resp[c] # NoResp
                           ELSE result[c] = "none"

\* What an attempt's body and context are like, wherever the call stands.
LeaseExact(c, n) ==
    /\ n > attempt[c] => Fresh(c, n)
    /\ pc[c] \in {"budget", "send"} /\ n = attempt[c] => Fresh(c, n)
    /\ pc[c] \in Over => IF pc[c] = "returned" /\ n = resp[c] THEN Live(c, n)
                          ELSE Released(c, n)
    /\ pc[c] \notin Over /\ n \in {prev[c], resp[c]} => Live(c, n)
    /\ pc[c] = "sending" /\ n = attempt[c] => body[c][n] = "none" /\ ctx[c][n] = "open"
    /\ ~(pc[c] = "sending" /\ n = attempt[c]) /\ n \notin {prev[c], resp[c]} =>
          Released(c, n)

\* Only a request that may be repeated comes to a second attempt.
RepeatSound(c) ==
    /\ attempt[c] > 0 \/ pc[c] \in {"head", "once"} =>
          ~(retryable(c) /\ reqBody[c] = "oneshot")
    /\ attempt[c] > 1 \/ pc[c] \in {"head", "sleep"}
          \/ (pc[c] = "once" /\ attempt[c] > 0) => retryable(c)

\* The requests sent, against attempts and grants.
SentExact(c) ==
    /\ sent[c] <= attempt[c]
    /\ pc[c] \in {"budget", "send"} => sent[c] < attempt[c]
    /\ attempt[c] = 0 => recorded[c].yes = 0 /\ recorded[c].no = 0
    /\ pc[c] = "send" => sent[c] <= recorded[c].yes

\* A context that was seen to have ended has, and the call is on its way out.
CancelNoticed(c) ==
    err[c] = "ctx" => /\ dead[c] /\ resp[c] = NoResp
                      /\ pc[c] \in {"head", "ended", "sleep", "result", "returned"}

\* The hint is what the latest response asked for, and within the cap.
HintExact(c) ==
    /\ pc[c] \in {"budget", "send", "sending"} => hint[c] = 0 /\ asked[c] = 0
    /\ pc[c] = "ended" /\ resp[c] = NoResp =>
          hint[c] = asked[c] /\ asked[c] <= MaxRetryAfter

CallInv(c) ==
    /\ PlaceSound(c)
    /\ \A n \in Attempts : LeaseExact(c, n)
    /\ RepeatSound(c)
    /\ SentExact(c)
    /\ BudgetKept(c)
    /\ CancelNoticed(c)
    /\ HintExact(c)
    /\ PauseHonoured(c)

IndInv == TypeOK /\ \A c \in Calls : CallInv(c)
==============================================================================
