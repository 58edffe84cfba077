------------------------------ MODULE WorkPool -------------------------------
(***************************************************************************)
(* workpool/workpool.go: a fixed set of workers that take tasks from a     *)
(* buffered channel.  Do calls, Run calls and workers interleave between   *)
(* any two accesses to shared state: the closed flag, the running counter, *)
(* the WaitGroup and the channel.                                          *)
(*                                                                         *)
(* Each task is submitted by one Do call, so status[t] is first the place  *)
(* of that call and then what has become of the task.                      *)
(***************************************************************************)
EXTENDS Integers, Sequences, FiniteSets

CONSTANTS Tasks,      \* the tasks, one Do call each
          Runners,    \* the Run calls
          WorkersArg, \* New's workers argument
          BufferArgs, \* the values of New's optionalBufferSize: <<>> or <<size>>
          Submitter,  \* the task whose func calls Do(t), NoTask for none
          NoTask      \* a worker without a task

ASSUME TasksFinite == IsFiniteSet(Tasks)
ASSUME NoTaskNotTask == NoTask \notin Tasks
ASSUME SubmitterTyped == Submitter \in [Tasks -> Tasks \cup {NoTask}]
ASSUME ArgsTyped == WorkersArg \in Int /\ BufferArgs \subseteq Seq(Nat)

\* New clamps the worker count up to 1 and sizes the queue from it.
NumWorkers == IF WorkersArg < 1 THEN 1 ELSE WorkersArg
BufferSize(arg) == IF Len(arg) > 0 THEN arg[1] ELSE NumWorkers * 100 + 1
Workers == 1 .. NumWorkers

VARIABLES
    queue,       \* the channel's buffer
    chanClosed,  \* close(queue) has happened
    closed,      \* wp.closed
    wg,          \* the counter of wp.wg
    running,     \* wp.running
    status,      \* Do's progress on each task, then the task's
    run,         \* each Run call's progress
    worker,      \* each worker's progress
    job,         \* the task each worker has
    execs,       \* how often each task has been executed (history)
    owed,        \* the tasks wg counted when Run closed the pool (history)
    raced,       \* was a Do in flight when Run closed the pool? (history)
    size         \* the capacity of the channel, fixed by New

vars == <<queue, chanClosed, closed, wg, running, status, run, worker, job,
          execs, owed, raced, size>>

\* new; checked: Do has seen the pool open; counted: running is up; added: wg
\* is up, the send is next; queued; taken by a worker; ran; uncounted: running
\* is down again; done: wg is down again.  lost: it took its worker with it.
\* dropped: Do saw the pool closed.  panicked: Do panicked in wg.Add or the send.
Statuses == {"new", "checked", "counted", "added", "queued", "taken", "ran",
             "uncounted", "done", "lost", "dropped", "panicked"}

Init ==
    /\ queue = <<>> /\ chanClosed = FALSE /\ closed = FALSE
    /\ wg = 0 /\ running = 0
    /\ status = [t \in Tasks |-> "new"]
    /\ run = [r \in Runners |-> "new"]
    /\ worker = [w \in Workers |-> "recv"]
    /\ job = [w \in Workers |-> NoTask]
    /\ execs = [t \in Tasks |-> 0]
    /\ owed = {} /\ raced = FALSE
    /\ \E arg \in BufferArgs : size = BufferSize(arg)

Move(t, here, there) == status[t] = here /\ status' = [status EXCEPT ![t] = there]

\* A Wait is registered with the WaitGroup.
HasWaiter == \E r \in Runners : run[r] = "parked"

(***************************************************************************)
(* Do(task)                                                                *)
(***************************************************************************)
\* The closed check: an open pool goes on, a closed one drops the task.  A Do
\* that a task's func calls comes while that func runs.
DoCheck(t) ==
    /\ Submitter[t] # NoTask => status[Submitter[t]] = "taken"
    /\ Move(t, "new", IF closed THEN "dropped" ELSE "checked")
    /\ UNCHANGED <<queue, chanClosed, closed, wg, running, run, worker, job,
                   execs, owed, raced, size>>

\* Mutant of DoCount: the task is queued without raising running.
DoCountSkipped(t) ==
    /\ Move(t, "checked", "counted")
    /\ UNCHANGED <<queue, chanClosed, closed, wg, running, run, worker, job, execs,
                   owed, raced, size>>

DoCount(t) ==
    /\ Move(t, "checked", "counted")
    /\ running' = running + 1
    /\ UNCHANGED <<queue, chanClosed, closed, wg, run, worker, job, execs, owed,
                   raced, size>>

\* wg.Add(1); it panics when it finds a waiter on a counter of zero.
DoAdd(t) ==
    /\ Move(t, "counted", IF wg = 0 /\ HasWaiter THEN "panicked" ELSE "added")
    /\ wg' = wg + 1
    /\ UNCHANGED <<queue, chanClosed, closed, running, run, worker, job, execs,
                   owed, raced, size>>

\* queue <- task with room in the buffer, and Do returns.
DoSend(t) ==
    /\ ~chanClosed
    /\ Len(queue) < size
    /\ Move(t, "added", "queued")
    /\ queue' = Append(queue, t)
    /\ UNCHANGED <<chanClosed, closed, wg, running, run, worker, job, execs, owed,
                   raced, size>>

\* queue <- task straight to a worker that waits for one: the only way when the
\* channel has no buffer.
DoHandOff(t, w) ==
    /\ ~chanClosed
    /\ queue = <<>>
    /\ worker[w] = "recv"
    /\ Move(t, "added", "taken")
    /\ worker' = [worker EXCEPT ![w] = "busy"]
    /\ job' = [job EXCEPT ![w] = t]
    /\ UNCHANGED <<queue, chanClosed, closed, wg, running, run, execs, owed, raced,
                   size>>

\* A send on a closed channel panics, one that was blocked in it included.
DoSendClosed(t) ==
    /\ chanClosed
    /\ Move(t, "added", "panicked")
    /\ UNCHANGED <<queue, chanClosed, closed, wg, running, run, worker, job,
                   execs, owed, raced, size>>

(***************************************************************************)
(* Run()                                                                   *)
(***************************************************************************)
InDo(t) == status[t] \in {"checked", "counted", "added"}

\* Tasks the WaitGroup has been told of and not been told the end of.
Counted == {t \in Tasks :
              status[t] \in {"added", "queued", "taken", "ran", "uncounted",
                             "lost", "panicked"}}

\* closed.CompareAndSwap(false, true): one Run wins, the others return.  Callers
\* keep the documented rule if no Do is in flight at this point.
RunClose(r) ==
    /\ run[r] = "new"
    /\ IF closed
       THEN /\ run' = [run EXCEPT ![r] = "noop"]
            /\ UNCHANGED <<closed, owed, raced, size>>
       ELSE /\ raced' = (\E t \in Tasks : InDo(t))
            /\ run' = [run EXCEPT ![r] = "won"]
            /\ closed' = TRUE
            /\ owed' = Counted
    /\ UNCHANGED <<queue, chanClosed, wg, running, status, worker, job, execs, size>>

\* Mutant of RunWait: Run closes the queue without waiting.
RunWaitSkipped(r) ==
    /\ run[r] = "won"
    /\ run' = [run EXCEPT ![r] = "closing"]
    /\ UNCHANGED <<queue, chanClosed, closed, wg, running, status, worker, job,
                   execs, owed, raced, size>>

\* wg.Wait(): straight on at zero, else park.
RunWait(r) ==
    /\ run[r] = "won"
    /\ run' = [run EXCEPT ![r] = IF wg = 0 THEN "closing" ELSE "parked"]
    /\ UNCHANGED <<queue, chanClosed, closed, wg, running, status, worker, job,
                   execs, owed, raced, size>>

\* Woken: Wait panics if the counter has already been used again.
RunWake(r) ==
    /\ run[r] = "woken"
    /\ run' = [run EXCEPT ![r] = IF wg = 0 THEN "closing" ELSE "panicked"]
    /\ UNCHANGED <<queue, chanClosed, closed, wg, running, status, worker, job,
                   execs, owed, raced, size>>

\* Mutant of RunCloseQueue: Run returns and leaves the channel open.
RunLeavesQueueOpen(r) ==
    /\ run[r] = "closing"
    /\ run' = [run EXCEPT ![r] = "returned"]
    /\ UNCHANGED <<queue, chanClosed, closed, wg, running, status, worker, job, execs,
                   owed, raced, size>>

\* close(wp.queue), and Run returns.
RunCloseQueue(r) ==
    /\ run[r] = "closing"
    /\ run' = [run EXCEPT ![r] = "returned"]
    /\ chanClosed' = TRUE
    /\ UNCHANGED <<queue, closed, wg, running, status, worker, job, execs, owed,
                   raced, size>>

(***************************************************************************)
(* worker()                                                                *)
(***************************************************************************)
\* Receive from the buffer; a closed channel still yields what it holds.
Receive(w) ==
    /\ worker[w] = "recv"
    /\ queue # <<>>
    /\ queue' = Tail(queue)
    /\ job' = [job EXCEPT ![w] = Head(queue)]
    /\ status' = [status EXCEPT ![Head(queue)] = "taken"]
    /\ worker' = [worker EXCEPT ![w] = "busy"]
    /\ UNCHANGED <<chanClosed, closed, wg, running, run, execs, owed, raced, size>>

\* Mutant of Exit: a worker leaves an empty queue as soon as the flag is set.
ExitOnFlag(w) ==
    /\ worker[w] = "recv"
    /\ closed /\ queue = <<>>
    /\ worker' = [worker EXCEPT ![w] = "exited"]
    /\ UNCHANGED <<queue, chanClosed, closed, wg, running, status, run, job,
                   execs, owed, raced, size>>

\* The range loop ends on a closed and empty channel.
Exit(w) ==
    /\ worker[w] = "recv"
    /\ chanClosed /\ queue = <<>>
    /\ worker' = [worker EXCEPT ![w] = "exited"]
    /\ UNCHANGED <<queue, chanClosed, closed, wg, running, status, run, job,
                   execs, owed, raced, size>>

\* Where a task's own func leaves it: the deferred recover turns a panic into
\* a return.
AfterTask(outcome) == "ran"

\* The Do calls of w's task, if it makes any, have returned.
NotInDo(w) == \A t \in Tasks : Submitter[t] = job[w] => ~InDo(t)

Execute(w) ==
    /\ worker[w] = "busy"
    /\ NotInDo(w)
    /\ \E outcome \in {"returned", "panicked"} :
          Move(job[w], "taken", AfterTask(outcome))
    /\ execs' = [execs EXCEPT ![job[w]] = @ + 1]
    /\ UNCHANGED <<queue, chanClosed, closed, wg, running, run, worker, job, owed,
                   raced, size>>

\* The task ends its goroutine with runtime.Goexit: recover sees nothing, and
\* worker goes on with neither of its counters nor with its loop.
Goexit(w) ==
    /\ worker[w] = "busy"
    /\ NotInDo(w)
    /\ Move(job[w], "taken", "lost")
    /\ execs' = [execs EXCEPT ![job[w]] = @ + 1]
    /\ worker' = [worker EXCEPT ![w] = "gone"]
    /\ job' = [job EXCEPT ![w] = NoTask]
    /\ UNCHANGED <<queue, chanClosed, closed, wg, running, run, owed, raced, size>>

Uncount(w) ==
    /\ worker[w] = "busy"
    /\ Move(job[w], "ran", "uncounted")
    /\ running' = running - 1
    /\ UNCHANGED <<queue, chanClosed, closed, wg, run, worker, job, execs, owed,
                   raced, size>>

\* wg.Done(): the one that reaches zero under a waiter still has to wake it.
Done(w) ==
    /\ worker[w] = "busy"
    /\ Move(job[w], "uncounted", "done")
    /\ wg' = wg - 1
    /\ worker' = [worker EXCEPT ![w] =
                    IF wg = 1 /\ HasWaiter THEN "release" ELSE "recv"]
    /\ job' = [job EXCEPT ![w] = NoTask]
    /\ UNCHANGED <<queue, chanClosed, closed, running, run, execs, owed, raced, size>>

\* The rest of that Done: an Add in between is a panic, and a panic in a worker
\* ends the process.
Wake(w) ==
    /\ worker[w] = "release"
    /\ IF wg # 0
       THEN worker' = [worker EXCEPT ![w] = "crashed"] /\ UNCHANGED run
       ELSE /\ worker' = [worker EXCEPT ![w] = "recv"]
            /\ run' = [r \in Runners |->
                         IF run[r] = "parked" THEN "woken" ELSE run[r]]
    /\ UNCHANGED <<queue, chanClosed, closed, wg, running, status, job, execs,
                   owed, raced, size>>

Crashed == \E w \in Workers : worker[w] = "crashed"

DoStep(t) ==
    \/ DoCount(t)
    \/ DoAdd(t)
    \/ DoSend(t)
    \/ \E w \in Workers : DoHandOff(t, w)
    \/ DoSendClosed(t)

RunStep(r) == RunWait(r) \/ RunWake(r) \/ RunCloseQueue(r)

WorkerStep(w) ==
    \/ Receive(w) \/ Exit(w) \/ Execute(w) \/ Goexit(w)
    \/ Uncount(w) \/ Done(w) \/ Wake(w)

Next ==
    /\ ~Crashed
    /\ \/ \E t \in Tasks : DoCheck(t) \/ DoStep(t)
       \/ \E r \in Runners : RunClose(r) \/ RunStep(r)
       \/ \E w \in Workers : WorkerStep(w)

Spec == Init /\ [][Next]_vars

\* Calls in progress and workers keep going and tasks end; nobody is obliged to
\* call Do or Run.
FairSpec ==
    /\ Spec
    /\ \A t \in Tasks : WF_vars(DoStep(t))
    /\ \A r \in Runners : WF_vars(RunStep(r))
    /\ \A w \in Workers : WF_vars(WorkerStep(w))

(***************************************************************************)
(* Properties                                                              *)
(***************************************************************************)
TypeOK ==
    /\ queue \in Seq(Tasks)
    /\ chanClosed \in BOOLEAN /\ closed \in BOOLEAN
    /\ wg \in Nat /\ running \in Nat
    /\ status \in [Tasks -> Statuses]
    /\ run \in [Runners -> {"new", "noop", "won", "parked", "woken", "closing",
                            "returned", "panicked"}]
    /\ worker \in [Workers -> {"recv", "busy", "release", "exited", "gone",
                                "crashed"}]
    /\ job \in [Workers -> Tasks \cup {NoTask}]
    /\ execs \in [Tasks -> Nat]
    /\ owed \subseteq Tasks /\ raced \in BOOLEAN
    /\ size \in Nat

\* Tasks that wp.running counts.
Live == {t \in Tasks : status[t] \in {"counted", "added", "queued", "taken",
                                      "ran", "lost", "panicked"}}

\* IsRunning(), as the code computes it.
IsRunning == running > 0

\* Both counters are exact at every point between the steps, whoever is where:
\* so IsRunning is true exactly while a task is queued, in flight or being
\* queued, and Run waits for exactly the tasks that are not over.  A task lost to
\* Goexit never is: Run waits for it rather than return as if it had ended.
CountersExact ==
    /\ wg = Cardinality(Counted)
    /\ running = Cardinality(Live)

\* No task is executed twice, and every one that is over has been executed.
ExecutedOnce ==
    \A t \in Tasks :
        execs[t] = IF status[t] \in {"ran", "uncounted", "done", "lost"} THEN 1 ELSE 0

Over(r) == run[r] \in {"closing", "returned"}

\* Once Run is past its Wait, every task whose Do got as far as wg.Add before
\* Run closed the pool has been executed, even if other Do calls race with Run.
RunWaitsForOwed ==
    \A r \in Runners : Over(r) => \A t \in owed : status[t] = "done"

\* If no Do is in flight when Run closes the pool, every task that was not
\* dropped has been executed when Run returns, IsRunning is false, and neither
\* Do nor Run nor a worker ever panics.
DisciplineSuffices ==
    ~raced =>
      /\ \A r \in Runners :
           Over(r) => /\ \A t \in Tasks : status[t] \in {"new", "dropped", "done"}
                      /\ ~IsRunning
      /\ \A t \in Tasks : status[t] # "panicked"
      /\ \A r \in Runners : run[r] # "panicked"
      /\ ~Crashed

\* At most one Run ever closes the channel, whatever the number of Run calls: a
\* second close would panic.
OneCloser ==
    \A r, s \in Runners :
        run[r] \notin {"new", "noop"} /\ run[s] \notin {"new", "noop"} => r = s

(***************************************************************************)
(* The inductive invariant behind the properties above.                    *)
(***************************************************************************)
\* The buffer holds queued tasks, each once; a busy worker has a task of its
\* own that is not over.
PlacesSound ==
    /\ \A i, j \in DOMAIN queue : queue[i] = queue[j] => i = j
    /\ \A i \in DOMAIN queue : status[queue[i]] = "queued"
    /\ \A w \in Workers :
          worker[w] = "busy" => /\ job[w] \in Tasks
                                /\ status[job[w]] \in {"taken", "ran", "uncounted"}
    /\ \A v, w \in Workers :
          worker[v] = "busy" /\ worker[w] = "busy" /\ job[v] = job[w] => v = w

\* Before a Run has won nothing is owed and nothing has panicked; what is owed
\* stays with the WaitGroup until it is done.
ClosingSound ==
    /\ \A r \in Runners : run[r] \notin {"new", "noop"} => closed
    /\ chanClosed => \E r \in Runners : run[r] = "returned"
    /\ \A t \in owed : status[t] \in {"added", "queued", "taken", "ran",
                                       "uncounted", "done", "lost"}
    /\ ~closed => owed = {} /\ ~raced /\ \A t \in Tasks : status[t] # "panicked"

\* Without a race nobody adds to the counter once the pool is closed.
QuietAfterClose ==
    ~raced /\ closed =>
        /\ \A t \in Tasks : ~InDo(t)
        /\ \A w \in Workers : worker[w] = "release" => wg = 0
        /\ \A r \in Runners : run[r] \in {"woken", "closing", "returned"} => wg = 0

ReleaseSound ==
    (\E w \in Workers : worker[w] \in {"release", "crashed"}) => closed

IndInv ==
    /\ TypeOK
    /\ PlacesSound
    /\ CountersExact
    /\ ExecutedOnce
    /\ ClosingSound
    /\ OneCloser
    /\ RunWaitsForOwed
    /\ QuietAfterClose
    /\ ReleaseSound
    /\ DisciplineSuffices

(***************************************************************************)
(* Liveness                                                                *)
(***************************************************************************)
Lost == \E t \in Tasks : status[t] = "lost"

\* Nobody is left to take a task: every worker is gone, whether the queue is full
\* or not, or inside a task whose own Do waits for room in a full queue.
Stranded ==
    \A w \in Workers :
        \/ worker[w] = "gone"
        \/ /\ worker[w] = "busy"
           /\ Len(queue) = size
           /\ \E t \in Tasks : Submitter[t] = job[w] /\ status[t] = "added"

\* Every Run that closes the pool returns, and then every worker exits: no
\* goroutine is left behind.  What can keep it is a Do racing Run, a task that
\* took its worker with it, or tasks that wait for each other's place in the queue.
RunEnds ==
    \A r \in Runners :
        run[r] = "won" ~> \/ /\ run[r] = "returned"
                             /\ \A w \in Workers : worker[w] = "exited"
                          \/ raced \/ Lost \/ Stranded

\* A Do that slips past the closed check is never lost without a trace: its task
\* is executed, by another worker if one is gone, or the Do panics, or the process
\* ends.  What can keep it for ever, queued or about to be, is that no worker is
\* left to take it: then it is Run that does not return, see CountersExact.
AcceptedResolved ==
    \A t \in Tasks :
        status[t] = "checked" ~>
            status[t] \in {"done", "lost", "panicked"} \/ Crashed \/ Stranded
==============================================================================
