# TLA+ specifications of go-kit

These modules describe the parts of go-kit whose correctness depends on the order
in which things happen: the keyed mutex, the worker pool, the cron scheduler and
its schedules, the migration runner, the retrying HTTP transport, the encryption of
values and of YAML files, and the small tools of a fan-out. TLC checks
them on small instances; TLAPS proves the theorems of the `*Proofs` modules for
every value of the constants. `PROJECT.json` lists the parts, the runs, the source
lines behind each definition, the findings, the hazards and the theorems.

Run a model with `tlc -config X.cfg MCModule`, a proof with `tlapm MutexProofs.tla`.

## 1. The system

go-kit is a library of packages that hardly know each other. The only calls between
them are `httpclient` into `retry` (the transport runs its attempts in
`Retry.DoCtx`), `crontab.go` into `schedule.go`, `List` into `maps.go`, and
`crypter/yaml` into a crypter given to it. Interaction is otherwise between
goroutines that share one object.

| Component | State | Operations | What is hard | What makes it correct |
|---|---|---|---|---|
| `Mutex` (`mutex.go`) | a global mutex, a map from keys to counted entries, a mutex per entry | `Lock`, `Unlock` | the entry is deleted and re-created while others are between two steps of a call | one holder per key; the map is exactly the keys in use; every `Lock` returns |
| `WorkPool` | closed flag, running counter, WaitGroup, channel | `New`, `Do`, `Run`, `IsRunning`, the workers | `Do` racing `Run`; panicking tasks, tasks that end their worker or call `Do`; two `Run`s; a full queue | counters exact; tasks executed once; `Run` waits for what it owes; workers exit |
| `Crontab` | jobs, `last` and `running` of each, stopped flag, stop channel, Once, WaitGroup | `run`/`runDue`, `fire`, `AddJob`, `Shutdown` | shutdown during a dispatch, or by a job; drifting ticker; a clock set back; panics of job and handler | once per minute; a slot is neither shared nor wedged; a drained shutdown has drained |
| schedules (`schedule.go`) | five lookup tables | `parse`, `match` | edges of ranges and steps; overflow; the two day fields | accepts exactly the well-formed, fires exactly when it should |
| `Migrater` | the state table, the files, a snapshot of the rows | `Run` | several Runs; crashes; commits whose answer is lost; edits | each migration committed once and in order; a changed text always reported |
| `httpclient` transport | per call: attempt, held response, contexts, bodies | `RoundTrip`, closing the body | cancellation at any point; replay; budget | nothing leaks; nothing unsafe is replayed; cancellation is final |
| `retry` | none across calls | `DoCtx`, `Do` | the context ends in a sleep | bounded attempts, no attempt after the end of the context, the last error returned |
| `List`, `WaitGroup`, `AggregateError` | a set, a counter, a slice | `Add...`, `Remove...`, `Slice`; `Do`, `Wait`; `Join`, `Unwrap`, `Error`, `Is`, `As` | reads without the lock; a slice shared with `append`; functions that launch functions | after `Wait` everything is there; what was handed out does not change |
| `crypter` | a pool of nonce buffers | `Encrypt`, `Decrypt`, `IsEncrypted` | buffers shared by concurrent calls | no nonce is used twice |
| `crypter/yaml` | a tree being walked, per call | `EncryptBytes`, `DecryptBytes` | double encryption; partly encrypted documents; an error midway | exactly the secrets are encrypted; decryption is strict; no value changes its meaning |
| slices, maps, strings, version, ip, utils, template, format, options | none | pure functions and setters | - | not modelled, see section 7 |

## 2. Modules

| Module | Models | Uses |
|---|---|---|
| `KeyLock` | what a keyed lock promises: request, grant, release | |
| `Mutex` | `mutex.go` | `KeyLock` through a refinement mapping |
| `MutexProofs` | theorems about `Mutex` | `Mutex`, TLAPS |
| `WorkPool` | `workpool/workpool.go` | |
| `WorkPoolProofs` | theorems about `WorkPool` | `WorkPool`, TLAPS |
| `Crontab` | `crontab/crontab.go` | |
| `CrontabProofs` | theorems about `Crontab` | `Crontab`, TLAPS |
| `Schedule` | `crontab/schedule.go` | |
| `ScheduleProofs` | theorems about `Schedule` | `Schedule`, TLAPS |
| `Migrater` | `migrater/migrater.go` | |
| `MigraterProofs` | theorems about `Migrater` | `Migrater`, TLAPS |
| `Retry` | what `retry.DoCtx` promises for any function | |
| `RetryTransport` | `httpclient/retry_transport.go`, `classify.go`, the loop of `retry.DoCtx` | `Retry` through a refinement mapping |
| `RetryTransportProofs` | theorems about `RetryTransport`, and that it implements `Retry` | `RetryTransport`, TLAPS |
| `Crypter` | `crypter/crypter.go` | |
| `CrypterProofs` | theorems about `Crypter` and `CrypterYAML` | `CrypterYAML`, TLAPS |
| `CrypterYAML` | `crypter/yaml/yaml.go` over a shared Crypter | extends `Crypter` |
| `FanOut` | `waitgroup.go`, `list.go`, `AggregateError` of `errors.go`, together | |
| `FanOutProofs` | theorems about `FanOut` | `FanOut`, TLAPS |
| `MC*` | instances of the above for TLC | |

Each module has one action per step between two accesses to shared state. What the
code does while it holds a lock that every reader and writer of that state takes is
one step. A definition named "Mutant of ..." in its comment is no part of a
specification: it is a plausible bug, kept to show that a property notices it.

**Mutex.** `global`, `locks`, `refcount`, `holder` are `km.mu`, `km.locks`, the
count and the mutex of each entry; `pc`, `key`, `m` are the calls in progress.
Entries are addresses that can be allocated again once unreachable, so a stale
pointer would be noticed. `Lock` is `LockCall`, `LockGlobal`, `Join` or `Create`,
`LockKey`; `Unlock` is `UnlockCall`, `LockGlobal`, `Drop` or `NoEntry`, `UnlockKey`.
Callers unlock what they locked (finding 1 is about others); that they then never meet
`NoEntry` or the runtime's fatal error is a theorem, not an assumption. `holder`
records who locked a mutex; no guard reads more than whether somebody did.

**WorkPool.** A task is submitted by one `Do`, so `status[t]` follows the call and
then the task. The WaitGroup is modelled with its misuse panics: `Add` that finds a
waiter at zero, a counter reused before the waiter is awake, an `Add` between the
last `Done` and the wake-up it owes. The channel has a buffer, hands over directly
to a waiting worker, and panics a sender when closed; `size` is its capacity, chosen in
`Init` among what the arguments in `BufferArgs` give. `Submitter` names the task
whose func calls `Do(t)`, for tasks that feed their own pool; `Goexit` is a task that
ends its goroutine and takes the worker with it. When every worker is gone that way,
or inside a task whose `Do` waits for room in a full queue, the pool is `Stranded`:
tasks that `Do` has accepted stay queued for ever, in a queue that need not be full,
and `Run` waits for ever. `RunEnds` and `AcceptedResolved` say that this and a
race with `Run` are the only ways to get stuck. `raced` remembers whether a `Do` was
in flight when `Run` closed the pool, which the documentation forbids: some
properties hold whatever callers do, some only without it.

**Crontab.** Time is a count of absolute minutes, each with a wall-clock label;
a schedule is a set of labels. `Clock` is what the wall clock shows in turn, and may
go back. `Tick` is unconstrained: ticks come early, late, twice or never. `runDue` is
split at the stopped check and at each job. A fire unwinds in the order of its defers
(`JobEnds`, `ClearFlag`, `FireDone`). The Shutdowns of `JobStops` are called by a job,
which is inside that call until it returns.

**Schedule.** The text of a term is a record: star, value or range, with or
without a step. `parse` walks fields, terms and bits; `Plus` is int addition with
the width scaled to `MaxInt`. `Meaning` and `Malformed` are the reference the
result is compared with.

**Migrater.** Every database call is a step. The database is external: a state
table, rows, atomic transactions, a second insert of a key waits for the first.
`CallFails`, `CommitAmbiguous`, `PanicInApply`, `Crash` are the ways a step goes
wrong and `Edit` changes the directory under the Runs. `effect` counts how often
a migration's SQL was committed and `ran` remembers with which bytes.

**RetryTransport.** Attempt `n` of a call has a context and a body, and both must be
let go once, by the transport or by the caller that was given the response. The
base transport, the budget, `GetBody` and the caller's context answer as they
like. `RetryIf` is the set of errors that the classifier retries: the default one,
or every error, as with `WithRetry(retry.New())`; it and `nonIdem`, the client's
other setting, are chosen once, in `Init`. The delays are modelled by what
`parseRetryAfter` and `nextDelay` compute, with the jitter a choice; `asked` keeps
what the server meant, so that the property does not repeat the computation.
`Retry` is the promise of `DoCtx` without delays, its fairness included; a call that
goes through the retrier implements it with `attemptLoop.once` as the function.

**Crypter and CrypterYAML.** A string is what the code tells apart: plain, an
encryption (with key, nonce and text), or one of the ways a tagged string can be
damaged. `Encrypt` is a step per statement that touches the pool; the random source
never repeats a nonce and may fail. A YAML document is a fixed tree with a value for
each scalar, which is all the walks change. The recursion of a walk is a set `todo` of
nodes to come to, the first in document order next: `EncryptNode` and `DecryptNode` go
past a node and put what is below it in the set, `secret` remembers which nodes were
handed to `encryptSecret` rather than to `walk`, and each scalar is a step or, with
`Encrypt`, several. Callers keep what a call returns as their file and call again. `SecretNodes` says what is secret, as the
comment of `EncryptBytes` does, without following the walk.

**FanOut.** main launches functions with `Do`, they join errors to one aggregate and
change one List, may launch more and may end early; main waits and reads. An operation
is a loop over its arguments, one a step: `Join` holds the aggregate's lock through its
loop, and `Add` and `Remove` take the List's mutex for each item. Slices are
an array and a length, and `append` writes in place while the array has room, so
what `Unwrap` handed out shares memory with what is joined later. `Slice` iterates
without the mutex: when a write is under way the runtime may end the process, and a
`Slice` that does not wait may miss what is added meanwhile.

## 3. Runs

| Run | Question | Bounds |
|---|---|---|
| `Mutex` | exclusion; the inductive invariant, with exact entries and sound unlocks; no deadlock, every `Lock` returns; implements `KeyLock` | 3 goroutines, 2 keys, 3 addresses |
| `WorkPool` | the inductive invariant, exact counters, what is owed, with `Do` racing `Run` or not; no panic and nothing undone without a race; `Run` returns and workers exit unless a race, a Goexit or a jam keeps them; every accepted task is executed, or fails in a known way, unless no worker is left to take it | 4 tasks, two submitted by the others, 2 workers, buffers of 0 and of 2, 2 Runs |
| `Crontab` | once per minute (and once more per step back), slots, drain, nothing after the stop; Shutdown ends unless a job waits for itself | 2 jobs, readings 0, 1, 0 of the clock, 2 Shutdowns, one by a job, with and without overlap |
| `Schedule` | terms at the edges of a field, overflow included; the two day fields against each other | 464 specs, 68 moments |
| `Migrater` | once, in order, complete; a changed text is reported, and nothing unchanged is; Runs end | 2 Runs, 4 files, 1 fault, 1 edit |
| `Migrater_panic` | *violated*: is a panicking migration rolled back? | 1 Run, 1 panic |
| `Migrater_line_endings` | *violated*: is a flip of line endings drift? | 2 Runs, 3 files, 1 edit |
| `RetryTransport` | leaks, replay, budget, Retry-After, cancellation, termination; implements `Retry` | 1 call, 4 attempts, both classifiers, with and without jitter, 9 headers |
| `RetryTransport_other_errors` | *violated*: are other errors terminal? | 1 call, 3 attempts |
| `CrypterYAML` | unique nonces; exactly the secrets encrypted; strict decryption; no value changes its meaning | 2 callers, 3 calls, 2 buffers, 9 nonces, 2 trees, 11 kinds of value |
| `FanOut` | everything is seen after `Wait`; slices of `Unwrap` do not change; `Wait` returns | 3 functions, one launched by another, 4 errors, 3 items |
| `FanOut_list_read` | *violated*: is `Slice` safe from any goroutine? | the same |

Why the bounds are enough to be interesting. The mutex needs a holder, a waiter and
a newcomer for an entry to be deleted under a waiter and re-created: three
goroutines, and as many addresses as goroutines suffice because each call keeps at
most one (`MCMutex` assumes it); the safety part is proved for any number. The pool
needs busy workers, a blocked sender, a `Do` in front of the check and two Runs; with
no buffer two nested `Do`s jam it, and with two slots both workers can be gone while
the queue has a task in it and is not full. The scheduler needs a minute that is
ticked twice, a next minute while a fire is in flight, a second job behind the one
being launched and a second Shutdown behind the first's Once. The migrater needs
two Runs, a migration each may apply, an order in which names and numbers disagree,
a clash of IDs and a fault in one of the Runs. The transport needs three attempts so
that a held response is followed by one that is held too; calls share nothing but
the budget, which answers as it likes, so one call stands for all. Two buffers are
enough for two encrypting callers (each holds one at most), nine nonces for the secrets
of three calls; one tree has secret strings in a list, in a list in that list, in a
mapping in it and below a plain key, and secrets that are no strings, and three calls are an encryption, a second one or a decryption with
the wrong key, and a decryption. Four errors make `append` both reallocate and write
in place. `MaxInt` is
scaled to 1000 in `Schedule` and `RetryTransport` (TLC's integers have 32 bits;
there a second is 10 and the cap 25, off the grid of seconds) and to 9 in `Migrater`,
where one ID exceeds it. Symmetry is not used: all passing runs but
`CrypterYAML`, whose trees and files name their nodes and callers, check liveness.

`CHECK_DEADLOCK FALSE` stands where the system may stop: a pool is single-use, a
scheduler is shut down, Runs, calls and a fan-out end, a fatal error ends the process.

## 4. Fairness

- `Mutex`: weak fairness of each goroutine's steps (it is scheduled, and holders
  unlock), strong fairness of the two acquisitions: `sync.Mutex` in starvation mode
  hands the lock to the longest waiter.
- `WorkPool`: weak fairness of a `Do` in progress, a `Run` in progress and each
  worker. Tasks end, one way or another. Nobody must call `Do` or `Run`.
- `Crontab`: weak fairness of the loop, the fires and a Shutdown past its Once; strong
  fairness of the stop branch (select picks at random among the ready branches) and
  of the writer's lock (a waiting writer keeps new readers out of an `RWMutex`).
  Ticks and contexts are owed nothing.
- `Schedule`, `Migrater`, `RetryTransport`: weak fairness of the steps of a call in
  progress. The database and the base transport answer; faults are not obliged.
- `CrypterYAML`: none. A call walks a finite tree and waits for nobody (a pool without
  a buffer makes one), so its properties are safety properties.
- `FanOut`: weak fairness of main, of every function and of the readers; a function
  may skip the `Do` it could make.

## 5. What is proved

`MutexProofs`, for any finite set of goroutines, any keys and any set of addresses
that does not contain `Nil` (assumptions `ProcsFinite`, `NilNotPtr`,
`NobodyNotProc`):

- `MutexInvariant`: `Spec => []IndInv`. Exclusion alone is not inductive: that two
  holders of a key lock the same object has to be known, so the invariant says that
  `km.mu` is held exactly by the goroutine at the map (`GlobalExact`), that an
  address is kept exactly while it is needed (`LocalExact`), that no object serves
  two keys and a waiter's object is the one in the map (`MapSound`), that counts are
  exact (`EntriesExact`), that an owner's entry is there and locked by it
  (`UnlockFindsLock`) and that a locked entry has such an owner or one on its way
  out (`HolderSound`). Exactness of the count is what keeps an entry from being
  deleted under a waiter, and finiteness of the goroutines what lets it be counted.
- `MutexExcludes`, `MutexEntriesExact`, `MutexUnlockSafe`, `MutexBlockedByHolder`
  follow from it.
- `MutexImplementsKeyLock`: every step maps to a step of `KeyLock` or a stutter. The
  abstract lock is given back when `Unlock` drops the reference, before it unlocks
  the mutex: a newcomer may already hold a new entry for the key by then.

`WorkPoolProofs`, for any finite set of tasks, any set of Run calls, any worker
count, any buffers, any tasks that submit tasks, with and without a race
(`TasksFinite`, `NoTaskNotTask`, `SubmitterTyped`, `ArgsTyped`):

- `PoolInvariant`: `Spec => []IndInv`. `CountersExact` carries the argument: Wait
  ends at zero, zero means that no task is counted, so nothing owed is unfinished.
  It needs `PlacesSound` (a task is in one place, so one worker counts it down),
  `ClosingSound` (what is owed stays counted until it is done), and, for callers
  that keep the rule, `QuietAfterClose` (nobody adds once the pool is closed).
- `PoolCountersExact`, `PoolExecutesOnce`, `PoolRunWaits`, `PoolDiscipline`,
  `PoolOneCloser` follow from it.

`CrypterProofs`, for any callers, buffers, nonces and strings (`BufferForEach`,
`NonceReal`):

- `CrypterNonceUnique`: `CrypterSpec(Data) => []NonceUnique`. That nonces about to be
  sealed with differ is not inductive: `CrypterInv` adds that a buffer is held by one
  caller from Get to Put and is not in the pool meanwhile (`BuffersHeld`), and that a
  nonce drawn and not yet sealed with, be it in the buffer or copied, is its owner's
  alone (`FreshOwned`). The random source is assumed not to repeat. `CrypterSpec` is
  the Crypter with any callers. `SharedNonceUnique` is the same for `CrypterYAML`: each
  of its steps is, for the Crypter, one of the Crypter's own or none (`UsesCrypter`).

and, for any callers, any files, any finite trees, any secret keys and any number of
calls (`TreesTyped`, `TreesRooted`, `FilesTyped`: a document is a tree whose nodes each
have one place below the document node, with a string for each scalar):

- `YAMLInvariant`: `Spec => []YAMLInv`. Callers share the Crypter and nothing else, so
  the rest of the invariant is `CallInv` of each, and a step of one leaves the others'
  as it was (`KeptInv`). That the output is right is not inductive; what a walk has done
  so far is. `Walks` says that a walk has come to a node by way of its parent and has
  before it, or behind it, all below the nodes it has been at, so with nothing before it
  it has been everywhere (`AllSeen`). `SecretsFound` says that the nodes handed to
  `encryptSecret` are those that are secret by the definition, which does not follow the
  walk: a node that is not handed over could be left out of `SecretNodes`, because each
  node has one parent (`SecretKid`). `EncryptedSoFar` and `DecryptedSoFar` say what the
  values behind the walk are and that those before it are untouched, and `EncryptsTurn`
  that an `Encrypt` in progress is about the scalar whose turn it is.
- `EncryptsExactly`, `DecryptsStrictly`, `MeaningIsKept` follow from it. The count of
  `Stats` is the cardinality of the nodes behind the walk that were to be encrypted or
  skipped, which is where finite trees are needed.

`RetryTransportProofs`, for any calls, any retry limit (zero and negative ones
included), any classifiers, any headers (`MaxRetriesInt`, `RetryIfErrors`,
`HeadersTyped`, `DurationsFit`):

- `RetryInvariant`: `Spec => []IndInv`. Calls share nothing but the configuration, so
  the invariant is `CallInv` of each. That nothing is left open at the return is not
  inductive: `LeaseExact` says for every attempt, wherever the call stands, whether its
  body and its context are untouched, live or let go, and `PlaceSound` that at most one
  response is kept and which. `RepeatSound`, `SentExact` and `CancelNoticed` connect the
  place with what may be sent again, what the budget granted and that a context seen to
  have ended has; `HintExact` says that a hint is what the latest response asked for.
- `RetryNothingLeaks`, `RetryReplaySafe`, `RetryBudgetExact`, `RetryPauses` and the
  action property `RetryCancelIsFinal` follow from it. `RetryPauses` includes the int64
  arithmetic of `parseRetryAfter`, `nextDelay` and the jitter: `DurationsFit` asks that
  the cap plus a second, and the cap plus its jitter, fit a duration (a cap of more than
  265 of the 292 years would not), and the linear step is claimed to bound the pause
  only if it is not negative.
- `TransportImplementsRetry`: `Spec => Abstract!RetrySafety`. Every step of a call that
  goes through the retrier maps to a step of `Retry` or a stutter: `once` to the call of
  the function, the end of an attempt to its return, `GoesOn` to another round.

`CrontabProofs`, for any jobs, any schedules, any sequence of
clock readings, any Shutdown calls, with and without overlap (`ClockTyped`,
`JobStopsTyped`, whose second half keeps the names of Shutdown calls apart from the
stages of a fire):

- `CrontabInvariant`: `Spec => []IndInv`. `WgExact` counts the fires that are not over;
  `ShutdownOrder` says who is past which point of `Shutdown`, that the flag is flipped
  before anybody waits and that a scan is under way only while it is not: hence
  `runDue` never adds under a waiter. `SlotExact` is `SlotSound` without a cardinality.
  Once per minute is the hard part, because `last` remembers one minute and the clock
  may go back: `Pace` says that there is a reading `v` and a number `b` of steps back
  accounted for such that no job has fired more than `1 + b` times for a minute, and
  not more than `b` times for a minute that `v` has yet to come to.
- `CrontabAtMostOnce`, `CrontabSlotSound`, `CrontabDrainComplete` and the action
  properties `CrontabNoAddUnderWaiter`, `CrontabNoDispatch` follow from it.

`MigraterProofs`, for any Runs, any finite set of files, any ids, contents and numbers
of faults and edits, panics included (`FilesNumbered`, `NoIdNotId`, `FirstText`,
`BoundsNat`, `NoneApart`):

- `MigraterInvariant`: `Spec => []IndInv`. `DbExact` (a row is there exactly if the SQL
  was committed, and has the hash of what was) survives a commit only if the row was
  not there, which the primary key gives: `TxSound` says that a row inserted by an open
  transaction is not in the table, and `RowsApart` that no two open transactions have
  inserted the same row, also when a panic has left one open. `ListSound` (a list is
  sorted and has no clash), `BehindApplied` (what a Run has passed is applied) and
  `SnapshotSound` (a row seen once stays as it is) carry order, completeness and drift.
- `MigraterExactlyOnce`, `MigraterNumericOrder`, `MigraterSuccessComplete`,
  `MigraterColumnRace`, `MigraterDriftReported` follow from it, and
  `MigraterRollsBack`: a Run that is over has a transaction open only if a panic ended
  it, which is what finding 4 and the exception of `RunEnds` are about. What the
  database does is assumed: atomic transactions and a primary key; SHA-256 is taken to
  be injective.

`ScheduleProofs`, for any specs, any moments and any largest int above 59
(`MaxIntHoldsFields`, `SpecsAreFields`, `MomentsAreTimes`):

- `ScheduleInvariant`: `Spec => []IndInv`. In the loop of `parseTerm` the variable is
  a member of the term's arithmetic progression or has wrapped around (`LoopSound`),
  and the tables hold exactly what the terms behind mean, and of the current one what
  is below the variable (`TableExact`). The lemmas `Multiples` and `MultiplesApart`
  connect the progression with the remainders of the reference.
- `ScheduleAcceptsExactly`, `ScheduleFiresExactly` follow from it: what TLC checks on
  some specs holds for all.

`FanOutProofs`, for any finite set of functions, any Do calls by main and by functions,
any programs of operations and any readers (`FuncsFinite`, `DosTyped`, `EachOnce`: a
function is handed to `Do` once; `ProgTyped`):

- `FanOutInvariant`: `Spec => []Inv`. `Counted` says that the counter is the number of
  functions that some `Do` was called with and that have not ended: a function that
  calls `Do` is itself counted, so zero means that nobody is left to add, and `Over`
  holds from then on. `InOrder` (a slice's arguments are taken from the first to the
  last) and `LatestArray` (the aggregate is in the last array `append` made) carry
  `AllJoined`, which says at every point which errors are there and in which order, and
  `SnapshotsFrozen`: `append` writes behind the length of every slice handed out, or in
  another array. `ItemsKept` is the List's part, `OneHolder` that of the locks.
- `EverythingIsSeen`, `SnapshotsStayFrozen`, `CounterNatural`, `WritersExclude` and the
  action property `NothingAfterWait` follow from it. `ListSafeAfterWait` shows how far
  finding 6 goes: a program that reads the List only after `Wait` is safe from it.

The inductive invariants were checked by TLC, on the instances of the runs, before
they were proved.

Only model-checked: every liveness property and the fairness part of
`ImplementsKeyLock` and `ImplementsRetry` (liveness and ENABLED are out of the prover's
reach). Every safety property of a passing run is proved.

## 6. Findings

3, 4, 5 and 6 are violation runs. 2, 7 and 8 are what a property of a passing run
states as the code's behaviour (`AcceptsExactly`, `RetryAfterHonoured`, `EncryptExact`),
and the others are read off the code and the docs.

1. `Unlock` of a key held by somebody else does not panic as `mutex.go:78` says: `Drop`
   has no guard that asks who calls, so it takes the holder's reference, `UnlockKey`
   finds the mutex locked and unlocks it, and the call returns. The model's callers do
   not do this.
2. A step near the largest int overflows in `parseTerm` (`schedule.go:109`) and
   `AddJob` panics. `AcceptsExactly` says for which specs.
3. Line endings are normalised before hashing (`migrater.go:300`), so a flip of them
   is not drift, though the package comment (`migrater.go:47`) and migrater's README
   (line 41) say that the hash is over raw bytes and a flip reads as drift
   (`RawBytesDrift`, violated). `DriftReported`, which passes, holds of either
   behaviour: it leaves open what a change of line endings alone does.
4. A panic inside `apply` (`migrater.go:424`) leaves the transaction open.
5. `send` cancels the attempt's context before `normalizeErr` looks at it
   (`retry_transport.go:139`), so every transport error passes for a per-attempt
   timeout and is retried.
6. `List.Slice` iterates over the map without the mutex (`list.go:91`), though every
   method is documented as safe to call from any goroutine (`list.go:10`).
7. Two edges of `parseRetryAfter` (`retry_transport.go:233`), read off the code: a
   number of seconds that does not fit an int is no number to `strconv.Atoi`, so the
   response counts as one without Retry-After and is retried at the linear step
   (`Seconds` and `Wish` say so); and with a cap within a second of the largest
   duration the clamp `maxRetryAfter + time.Second` itself wraps, which the comment
   above it says cannot happen. `DurationsFit` excludes the second.
8. `Stats.Skipped` counts only values that were already encrypted
   (`crypter/yaml/yaml.go:224-236`). The README of crypter/yaml (line 40) lists
   non-strings, YAML 1.1 booleans and templates as skipped too and says that skipped
   values are counted; the comment of `Stats` (`yaml.go:54`) and a test
   (`yaml_test.go:399`) say what the code does, and so does `EncryptExact`.
9. A stream of several YAML documents loses all but the first. `EncryptBytes`
   (`yaml.go:120`) and, if the stream contains the start tag anywhere, `DecryptBytes`
   (`yaml.go:273`) parse with one `yaml.Unmarshal`, which reads the first document and
   reports no error for the rest, and they marshal that document alone (`yaml.go:137`,
   `:287`). A caller that writes the result back over its file has lost the others,
   secret or not, with no error and with `Stats` that look right, where the README
   (line 5) promises to leave everything else exactly as it was. The model's files are
   single documents, so `MeaningKept` says nothing about the others.
10. YAML, documented or arguable: an alias under a secret key to an anchor under a
    plain key stays in the clear; a tagged value whose YAML tag is not `!!str` is not
    decrypted; `Stats` keep the counts of a walk that failed.
11. `Join` of a nil `*AggregateError`, such as an empty `Join` returns, keeps it
    (`errors.go:110`): as an `error` it is not nil, and `Error` then panics on it.
12. A task that ends its goroutine with `runtime.Goexit` takes its worker with it
    (`workpool.go:107`) and nobody starts another. When all are gone, what is queued is
    never executed and `Run` never returns: `Stranded` is the state.

## 7. What is left out, and why

- The cutting of cron text into terms, SQL text, validation of the table name,
  log messages, the `onAttempt` hook: no property depends on them.
- The passing of time during a sleep: the delay that is asked for is checked, and
  the sleep ends at some time after it or with the caller's context.
- The text of YAML: parsing, quoting and styles are yaml.v3's, an alias is a leaf.
  The sort at the end of `Slice`, and `Len`, which reads one word of the map.
- AES-GCM and base64: an encryption opens under its key and no other.
- Construction of HTTP clients, options, the dial guard, templates, Markdown, IP and
  string helpers: no state, no ordering.

## 8. How it was built

In this order: `Mutex` and `KeyLock`, `WorkPool`, `Crontab`, `Schedule`, `Migrater`,
`RetryTransport` and `Retry`, `Crypter` and `CrypterYAML`, `FanOut`, each with its run,
its mutants and its inductive invariant; then the proofs, a module for each. The plan is
done. A new operation of a modelled part is an action, a disjunct of its `Next`, and a
case of its `...Step` lemmas; a helper without state that gains some joins section 1.
