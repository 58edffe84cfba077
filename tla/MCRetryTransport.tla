-------------------------- MODULE MCRetryTransport ---------------------------
(* Small instances of RetryTransport for TLC. *)
EXTENDS RetryTransport

\* RetryIf for a retrier that came with WithRetry and no classifier: any error.
AnyError == Errors

\* The classifiers a client can have come with.
Classifiers == {defaultRetryIf, AnyError}
DefaultClassifier == {defaultRetryIf}

\* Retry-After at the edges, for a second of 10 and a cap of 25: none, within the
\* cap, past it, far enough past it to be clamped, past an int; dates around it.
Headers == {[form |-> "none", n |-> 0]}
           \cup {[form |-> "seconds", n |-> n] : n \in {0, 2, 3, 4, 1001}}
           \cup {[form |-> "date", n |-> n] : n \in {0, 25, 26}}
==============================================================================
