-------------------------------- MODULE Retry --------------------------------
(***************************************************************************)
(* What retry.DoCtx promises the caller of any function, with no delays:   *)
(* how often and when fn is called, and what is returned.  The retrying    *)
(* transport (module RetryTransport) is shown to implement this.           *)
(***************************************************************************)
EXTENDS Naturals

CONSTANTS DoCalls,  \* the DoCtx calls
          Max,      \* maxRetries, clamped: the most times fn is called
          Errs      \* the errors fn may return

VARIABLES retryIf,  \* the errors the classifier retries
          place,    \* idle, loop (between calls of fn), fn, back, returned
          calls,    \* how often fn has been called
          last,     \* what fn returned last, in the end what DoCtx returned
          ended     \* the context has ended

retryVars == <<retryIf, place, calls, last, ended>>

Go(c, from, to) == place[c] = from /\ place' = [place EXCEPT ![c] = to]

RetryInit ==
    /\ retryIf \subseteq Errs
    /\ place = [c \in DoCalls |-> "idle"]
    /\ calls = [c \in DoCalls |-> 0]
    /\ last = [c \in DoCalls |-> "nil"]
    /\ ended = [c \in DoCalls |-> FALSE]

\* A valid call.
Begin(c) == Go(c, "idle", "loop") /\ UNCHANGED <<retryIf, calls, last, ended>>

\* validate: no retrier, context or function.
Refuse(c) ==
    /\ Go(c, "idle", "returned")
    /\ \E e \in {"ErrNilRetry", "ErrNilContext", "ErrNilFn"} : last' = [last EXCEPT ![c] = e]
    /\ UNCHANGED <<retryIf, calls, ended>>

\* fn is called while the context is alive, and at most Max times.
CallFn(c) ==
    /\ Go(c, "loop", "fn")
    /\ ~ended[c] /\ calls[c] < Max
    /\ calls' = [calls EXCEPT ![c] = @ + 1]
    /\ UNCHANGED <<retryIf, last, ended>>

FnReturns(c) ==
    /\ Go(c, "fn", "back")
    /\ \E e \in Errs \cup {"nil"} : last' = [last EXCEPT ![c] = e]
    /\ UNCHANGED <<retryIf, calls, ended>>

\* Only an error the classifier retries leads to another round, and not the last.
Again(c) ==
    /\ Go(c, "back", "loop")
    /\ last[c] \in retryIf /\ calls[c] < Max
    /\ UNCHANGED <<retryIf, calls, last, ended>>

\* nil, a terminal error, or the last attempt's error, as fn returned it.
ReturnLast(c) ==
    /\ Go(c, "back", "returned")
    /\ last[c] \notin retryIf \/ calls[c] = Max
    /\ UNCHANGED <<retryIf, calls, last, ended>>

\* The context has ended before an attempt or in a sleep.
ReturnCtx(c) ==
    /\ Go(c, "loop", "returned")
    /\ ended[c]
    /\ last' = [last EXCEPT ![c] = "ctx"]
    /\ UNCHANGED <<retryIf, calls, ended>>

CtxEnds(c) ==
    /\ ended' = [ended EXCEPT ![c] = TRUE]
    /\ UNCHANGED <<retryIf, place, calls, last>>

DoCtxStep(c) ==
    CallFn(c) \/ FnReturns(c) \/ Again(c) \/ ReturnLast(c) \/ ReturnCtx(c)

RetryNext ==
    \E c \in DoCalls : Begin(c) \/ Refuse(c) \/ DoCtxStep(c) \/ CtxEnds(c)

\* What may happen, and that what has begun goes on.
RetrySafety == RetryInit /\ [][RetryNext]_retryVars

RetrySpec ==
    /\ RetrySafety
    /\ \A c \in DoCalls : WF_retryVars(DoCtxStep(c))
==============================================================================
