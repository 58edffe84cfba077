------------------------------- MODULE Crontab -------------------------------
(***************************************************************************)
(* crontab/crontab.go: the scheduler goroutine (run, runDue), one          *)
(* goroutine per fire, and any number of AddJob and Shutdown calls, over   *)
(* an RWMutex (c.mu), the stopped flag, the stop channel, a sync.Once and  *)
(* a WaitGroup.                                                            *)
(*                                                                         *)
(* Time is a count of absolute minutes.  The ticker is free: a tick may    *)
(* come early, late, twice in a minute or not at all (drift, a loaded      *)
(* machine), and a tick nobody has received yet swallows the next one.     *)
(* The wall clock may be set back.                                         *)
(***************************************************************************)
EXTENDS Integers, Sequences, FiniteSets

CONSTANTS Jobs,      \* the AddJob calls, one job each
          Stops,     \* the Shutdown calls
          JobStops,  \* the ones among them that a job makes
          Clock,     \* the absolute minutes the wall clock shows, in turn
          Label,     \* the wall-clock label of each minute in c.loc
          Due        \* Due[j]: the labels job j's schedule matches

ASSUME ClockTyped == Clock \in Seq(Nat) /\ Clock # <<>>
ASSUME JobStopsTyped ==
    JobStops \subseteq Stops /\ JobStops \cap {"fn", "clear", "finish", "done"} = {}

Minutes == {Clock[i] : i \in DOMAIN Clock} \cup {0}
Never == -1        \* the zero time.Time of job.last

VARIABLES
    overlap,     \* c.overlap: WithOverlap was given
    clock,       \* the reading of the wall clock, an index of Clock
    tick,        \* the timer's or the ticker's channel holds a tick
    stopped,     \* c.stopped
    stopClosed,  \* close(c.stop) has happened
    jobs,        \* c.jobs
    last,        \* job.last
    running,     \* job.running
    wg,          \* the counter of c.wg
    loop,        \* where run's goroutine stands
    minute,      \* runDue's minute, 0 outside it
    next,        \* the index of runDue's loop, 1 outside it
    fires,       \* every fire so far: its job, its minute and its stage
    added,       \* what each AddJob call has come to
    once,        \* c.once: free, busy or done
    stop,        \* where each Shutdown call stands
    waiter       \* the goroutine that call starts to wait on c.wg

vars == <<overlap, clock, tick, stopped, stopClosed, jobs, last, running, wg, loop,
          minute, next, fires, added, once, stop, waiter>>
clockVars == <<overlap, clock, tick>>
loopVars == <<loop, minute, next>>
jobVars == <<jobs, added>>
shutVars == <<stopped, stopClosed, once, stop, waiter>>
fireVars == <<last, running, wg, fires>>

Init ==
    /\ overlap \in BOOLEAN
    /\ clock = 1 /\ tick = FALSE
    /\ stopped = FALSE /\ stopClosed = FALSE
    /\ jobs = <<>>
    /\ last = [j \in Jobs |-> Never]
    /\ running = [j \in Jobs |-> FALSE]
    /\ wg = 0
    /\ loop = "select" /\ minute = 0 /\ next = 1
    /\ fires = <<>>
    /\ added = [j \in Jobs |-> "new"]
    /\ once = "free"
    /\ stop = [s \in Stops |-> "new"]
    /\ waiter = [s \in Stops |-> "none"]

\* Mutant of ReadLocked: runDue does not take c.mu.
NotReadLocked == FALSE

\* c.mu is read-locked by runDue; AddJob and Shutdown need it for writing.
ReadLocked == loop = "scan"

(***************************************************************************)
(* Time                                                                    *)
(***************************************************************************)
now == Clock[clock]

\* The wall clock goes on, or is set back: an NTP step, a resumed machine, an
\* operator.  Once stopped is set nothing depends on it any more.
Advance ==
    /\ clock < Len(Clock) /\ ~stopped
    /\ clock' = clock + 1
    /\ UNCHANGED <<overlap, tick, loopVars, jobVars, shutVars, fireVars>>

\* The timer that waits for the first minute boundary, then the ticker.
Tick ==
    /\ loop # "exited"
    /\ tick' = TRUE
    /\ UNCHANGED <<overlap, clock, loopVars, jobVars, shutVars, fireVars>>

(***************************************************************************)
(* run and runDue                                                          *)
(***************************************************************************)
\* Either select, before the first boundary or in the loop: stop was chosen.
LoopStop ==
    /\ loop = "select"
    /\ stopClosed
    /\ loop' = "exited"
    /\ tick' = FALSE
    /\ UNCHANGED <<overlap, clock, minute, next, jobVars, shutVars, fireVars>>

\* Either select: a tick was chosen, and the clock is read.
LoopTick ==
    /\ loop = "select"
    /\ tick
    /\ tick' = FALSE
    /\ minute' = now
    /\ loop' = "lock"
    /\ UNCHANGED <<overlap, clock, next, jobVars, shutVars, fireVars>>

\* Mutant of EnterRunDue: no stopped check under the lock.
EnterUnchecked ==
    /\ loop = "lock"
    /\ loop' = "scan"
    /\ UNCHANGED <<clockVars, minute, next, jobVars, shutVars, fireVars>>

\* c.mu.RLock() and the stopped check.
EnterRunDue ==
    /\ loop = "lock"
    /\ loop' = IF stopped THEN "select" ELSE "scan"
    /\ minute' = IF stopped THEN 0 ELSE minute
    /\ UNCHANGED <<clockVars, next, jobVars, shutVars, fireVars>>

\* Mutant of Fireable: the last minute is not looked at.
FireableAgain(j) == Label[minute] \in Due[j]

\* The job's schedule matches and this minute has not been fired yet.
Fireable(j) == Label[minute] \in Due[j] /\ last[j] # minute

\* The non-overlap guard: with overlap there is none.
Claimable(j) == overlap \/ ~running[j]

\* A job of the list is passed over.
Skip ==
    /\ loop = "scan"
    /\ next <= Len(jobs)
    /\ ~(Fireable(jobs[next]) /\ Claimable(jobs[next]))
    /\ next' = next + 1
    /\ UNCHANGED <<clockVars, loop, minute, jobVars, shutVars, fireVars>>

\* A job of the list is due: its slot is taken, j.last = minute, c.wg.Add(1) and
\* go c.fire(j).  Nobody else touches these while c.mu is read-locked and the slot
\* is ours.
Launch ==
    /\ loop = "scan"
    /\ next <= Len(jobs)
    /\ Fireable(jobs[next]) /\ Claimable(jobs[next])
    /\ running' = IF overlap THEN running ELSE [running EXCEPT ![jobs[next]] = TRUE]
    /\ last' = [last EXCEPT ![jobs[next]] = minute]
    /\ wg' = wg + 1
    /\ fires' = Append(fires, [job |-> jobs[next], minute |-> minute, stage |-> "fn"])
    /\ next' = next + 1
    /\ UNCHANGED <<clockVars, loop, minute, jobVars, shutVars>>

\* The list is through: runDue unlocks c.mu and returns.
LeaveRunDue ==
    /\ loop = "scan"
    /\ next > Len(jobs)
    /\ loop' = "select"
    /\ minute' = 0 /\ next' = 1
    /\ UNCHANGED <<clockVars, jobVars, shutVars, fireVars>>

(***************************************************************************)
(* fire                                                                    *)
(***************************************************************************)
SetStage(f, there) == fires' = [fires EXCEPT ![f].stage = there]

\* Mutant of AfterJob: the flag is not cleared by a defer, and a panic goes past it.
ClearsOnReturn(outcome) == IF outcome = "returned" THEN "clear" ELSE "finish"

\* What a job's func leaves to do: the deferred recover, and the one inside it
\* for a panicking handler, turn every outcome into a normal return, and the
\* other defers follow.
AfterJob(outcome) == "clear"

\* The func returns or panics, if it is not inside a Shutdown of its own.
JobEnds(f) ==
    /\ \/ fires[f].stage = "fn"
       \/ fires[f].stage \in JobStops /\ stop[fires[f].stage] \in {"nil", "ctx error"}
    /\ \E outcome \in {"returned", "panicked", "handler panicked"} :
          SetStage(f, AfterJob(outcome))
    /\ UNCHANGED <<clockVars, loopVars, jobVars, shutVars, last, running, wg>>

\* The deferred j.running.Store(false), which only exists without overlap.
ClearFlag(f) ==
    /\ fires[f].stage = "clear"
    /\ SetStage(f, "finish")
    /\ running' = IF overlap THEN running
                  ELSE [running EXCEPT ![fires[f].job] = FALSE]
    /\ UNCHANGED <<clockVars, loopVars, jobVars, shutVars, last, wg>>

\* The deferred c.wg.Done().
FireDone(f) ==
    /\ fires[f].stage = "finish"
    /\ SetStage(f, "done")
    /\ wg' = wg - 1
    /\ UNCHANGED <<clockVars, loopVars, jobVars, shutVars, last, running>>

(***************************************************************************)
(* AddJob                                                                  *)
(***************************************************************************)
\* What AddJob answers once it has the lock, and what the list becomes.
AddAnswer == IF stopped THEN "error" ELSE "added"
ListAfterAdd(j) == IF stopped THEN jobs ELSE Append(jobs, j)

\* The spec is malformed, and parse's error is returned before c.mu is asked for;
\* or it is the job's schedule.
AddJob(j) ==
    /\ added[j] = "new"
    /\ \/ /\ added' = [added EXCEPT ![j] = "error"]
          /\ UNCHANGED jobs
       \/ /\ ~ReadLocked
          /\ added' = [added EXCEPT ![j] = AddAnswer]
          /\ jobs' = ListAfterAdd(j)
    /\ UNCHANGED <<clockVars, loopVars, shutVars, fireVars>>

(***************************************************************************)
(* Shutdown                                                                *)
(***************************************************************************)
\* A job whose func calls Shutdown is inside that call from here on.
CalledBy(s) ==
    IF s \in JobStops
    THEN \E f \in DOMAIN fires : fires[f].stage = "fn" /\ SetStage(f, s)
    ELSE UNCHANGED fires

\* c.once.Do: the first caller goes in, the others wait until it is through.
ShutdownOnce(s) ==
    /\ stop[s] = "new"
    /\ CalledBy(s)
    /\ once # "busy"
    /\ stop' = [stop EXCEPT ![s] = IF once = "free" THEN "flip" ELSE "drain"]
    /\ once' = IF once = "free" THEN "busy" ELSE once
    /\ UNCHANGED <<clockVars, loopVars, jobVars, last, running, wg, stopped, stopClosed,
                   waiter>>

\* c.stopped.Store(true), under c.mu.
FlipStopped(s) ==
    /\ stop[s] = "flip"
    /\ ~ReadLocked
    /\ stopped' = TRUE
    /\ stop' = [stop EXCEPT ![s] = "close"]
    /\ UNCHANGED <<clockVars, loopVars, jobVars, fireVars, stopClosed, once, waiter>>

\* Mutant of CloseStop: the stop channel is not closed.
CloseForgotten(s) ==
    /\ stop[s] = "close"
    /\ once' = "done"
    /\ stop' = [stop EXCEPT ![s] = "drain"]
    /\ UNCHANGED <<clockVars, loopVars, jobVars, fireVars, stopped, stopClosed, waiter>>

\* close(c.stop), and the Once is done.
CloseStop(s) ==
    /\ stop[s] = "close"
    /\ stopClosed' = TRUE
    /\ once' = "done"
    /\ stop' = [stop EXCEPT ![s] = "drain"]
    /\ UNCHANGED <<clockVars, loopVars, jobVars, fireVars, stopped, waiter>>

\* go func() { c.wg.Wait(); close(done) }()
StartWaiter(s) ==
    /\ stop[s] = "drain"
    /\ waiter' = [waiter EXCEPT ![s] = "waiting"]
    /\ stop' = [stop EXCEPT ![s] = "select"]
    /\ UNCHANGED <<clockVars, loopVars, jobVars, fireVars, stopped, stopClosed, once>>

WaitEnds(s) ==
    /\ waiter[s] = "waiting"
    /\ wg = 0
    /\ waiter' = [waiter EXCEPT ![s] = "done"]
    /\ UNCHANGED <<clockVars, loopVars, jobVars, fireVars, stopped, stopClosed, once,
                   stop>>

\* Shutdown's select: the drain is over, or the caller's context is.
ShutdownDrained(s) ==
    /\ stop[s] = "select"
    /\ waiter[s] = "done"
    /\ stop' = [stop EXCEPT ![s] = "nil"]
    /\ UNCHANGED <<clockVars, loopVars, jobVars, fireVars, stopped, stopClosed, once,
                   waiter>>

ShutdownTimeout(s) ==
    /\ stop[s] = "select"
    /\ stop' = [stop EXCEPT ![s] = "ctx error"]
    /\ UNCHANGED <<clockVars, loopVars, jobVars, fireVars, stopped, stopClosed, once,
                   waiter>>

LoopStep ==
    EnterRunDue \/ Skip \/ Launch \/ LeaveRunDue

FireStep(f) == JobEnds(f) \/ ClearFlag(f) \/ FireDone(f)

ShutdownStep(s) ==
    FlipStopped(s) \/ CloseStop(s) \/ StartWaiter(s) \/ ShutdownDrained(s)

Next ==
    \/ Advance
    \/ Tick
    \/ LoopStop
    \/ LoopTick
    \/ LoopStep
    \/ \E f \in DOMAIN fires : FireStep(f)
    \/ \E j \in Jobs : AddJob(j)
    \/ \E s \in Stops : \/ ShutdownOnce(s)
                        \/ ShutdownStep(s)
                        \/ ShutdownTimeout(s)
                        \/ WaitEnds(s)

Spec == Init /\ [][Next]_vars

\* The goroutines keep running and jobs end.  select picks at random among the
\* ready cases, so it does not ignore a closed stop for ever; a writer that
\* waits for c.mu keeps new readers out, so it does not wait for ever either.
\* No context is obliged to expire, and nobody to call Shutdown.
FairSpec ==
    /\ Spec
    /\ WF_vars(LoopStep)
    /\ SF_vars(LoopStop)
    /\ \A s \in Stops : /\ SF_vars(FlipStopped(s))
                        /\ WF_vars(ShutdownStep(s))
                        /\ WF_vars(WaitEnds(s))
    /\ \A f \in 1 .. Len(Clock) * Cardinality(Jobs) :
          WF_vars(f \in DOMAIN fires /\ FireStep(f))

(***************************************************************************)
(* Properties                                                              *)
(***************************************************************************)
Stages == {"fn", "clear", "finish", "done"} \cup JobStops
FireRecords == [job : Jobs, minute : Minutes, stage : Stages]

TypeOK ==
    /\ overlap \in BOOLEAN
    /\ clock \in DOMAIN Clock /\ minute \in Minutes
    /\ tick \in BOOLEAN /\ stopped \in BOOLEAN /\ stopClosed \in BOOLEAN
    /\ jobs \in Seq(Jobs)
    /\ last \in [Jobs -> Minutes \cup {Never}]
    /\ running \in [Jobs -> BOOLEAN]
    /\ wg \in Nat
    /\ loop \in {"select", "lock", "scan", "exited"}
    /\ next \in 1 .. Len(jobs) + 1
    /\ fires \in Seq(FireRecords)
    /\ added \in [Jobs -> {"new", "added", "error"}]
    /\ once \in {"free", "busy", "done"}
    /\ stop \in [Stops -> {"new", "flip", "close", "drain", "select", "nil",
                           "ctx error"}]
    /\ waiter \in [Stops -> {"none", "waiting", "done"}]

InFlight(j) == {f \in DOMAIN fires : fires[f].job = j /\ fires[f].stage # "done"}

\* The fires of a job for a minute.
FiresAt(j, m) == {f \in DOMAIN fires : fires[f].job = j /\ fires[f].minute = m}

\* The fires of a job that have not given its slot back.
Holding(j) == {f \in InFlight(j) : fires[f].stage # "finish"}

\* How often the wall clock has been set back.
Backs == Cardinality({i \in 2 .. clock : Clock[i] < Clock[i - 1]})

\* A job fires at most once for an absolute minute, however the ticker drifts,
\* and once more at most for each time the wall clock was set back; and only for a
\* minute its schedule matches.
AtMostOncePerMinute ==
    /\ \A j \in Jobs, m \in Minutes : Cardinality(FiresAt(j, m)) <= 1 + Backs
    /\ \A f \in DOMAIN fires : Label[fires[f].minute] \in Due[fires[f].job]

\* Without WithOverlap a job never runs concurrently with itself, and its flag
\* is up only for a fire that is in flight: no outcome of a job, a panic included,
\* wedges its slot shut.
SlotSound ==
    ~overlap => \A j \in Jobs : /\ Cardinality(Holding(j)) <= 1
                                /\ running[j] <=> Holding(j) # {}

\* A Shutdown that returns nil has drained: every fire is over, then and for
\* good, though a dispatch may have been under way when it was called.
DrainComplete ==
    \A s \in Stops :
        stop[s] = "nil" => \A j \in Jobs : InFlight(j) = {}

\* runDue never adds to the WaitGroup while a Shutdown waits on it: the
\* WaitGroup would panic.
NoAddUnderWaiter ==
    [][wg' > wg => \A s \in Stops : waiter[s] = "none"]_vars

\* No dispatch starts after the flag is flipped, none is under way, and no job is
\* listed any more: none is accepted that could never fire.
NoDispatchAfterStop == [][stopped => UNCHANGED <<jobs, last>>]_vars

\* A job is inside a Shutdown of its own, which waits for that job.
WaitsForItself ==
    \E f \in DOMAIN fires : /\ fires[f].stage \in JobStops
                            /\ stop[fires[f].stage] \notin {"nil", "ctx error"}

\* Every Shutdown call past its Once returns, even if no context ever expires, and the
\* scheduler's goroutine ends: nothing outlives the scheduler.  What can keep it is
\* a job that calls Shutdown with a context that never ends.
ShutdownEnds ==
    \A s \in Stops :
        stop[s] \in {"flip", "drain"} ~>
            \/ stop[s] \in {"nil", "ctx error"} /\ loop = "exited"
            \/ []WaitsForItself

(***************************************************************************)
(* The inductive invariant behind the safety properties                    *)
(***************************************************************************)
OpenFires == {f \in DOMAIN fires : fires[f].stage # "done"}

\* c.wg counts the fires that are not over.
WgExact == wg = Cardinality(OpenFires)

\* The order of Shutdown: one caller at most is inside the Once, past it the flag is
\* flipped, nobody waits on c.wg before, and who has waited saw every fire over.
StopSound(s) ==
    /\ stop[s] \in {"flip", "close"} => once = "busy"
    /\ stop[s] = "close" => stopped
    /\ stop[s] \in {"drain", "select", "nil", "ctx error"} => once = "done"
    /\ waiter[s] # "none" => stop[s] \in {"select", "nil", "ctx error"}
    /\ stop[s] = "nil" => waiter[s] = "done"
    /\ waiter[s] = "done" => OpenFires = {}

ShutdownOrder ==
    /\ loop = "scan" => ~stopped
    /\ once = "done" => stopped
    /\ \A s \in Stops : StopSound(s)
    /\ \A s, u \in Stops : {stop[s], stop[u]} \subseteq {"flip", "close"} => s = u

\* SlotSound without a cardinality.
SlotExact ==
    ~overlap => \A j \in Jobs : /\ \A f, g \in Holding(j) : f = g
                                /\ running[j] <=> Holding(j) # {}

\* With the clock at v and set back b times so far: how often a job may have fired for
\* each minute.  A minute yet to come, or come and not fired, is one fire behind.
Paced(j, b, v) ==
    \A m \in Minutes :
        /\ Cardinality(FiresAt(j, m)) <= 1 + b
        /\ m > v \/ (m = v /\ last[j] # v) => Cardinality(FiresAt(j, m)) <= b

\* All jobs are paced by some reading v of the clock, the one runDue works with if it
\* does, and if the clock shows less by now it has been set back since.
Pace ==
    \E b \in 0 .. Backs, v \in Minutes :
        /\ loop \in {"lock", "scan"} => v = minute
        /\ v > now => b < Backs
        /\ \A j \in Jobs : Paced(j, b, v)

FiresMatch == \A f \in DOMAIN fires : Label[fires[f].minute] \in Due[fires[f].job]

IndInv == TypeOK /\ WgExact /\ ShutdownOrder /\ SlotExact /\ Pace /\ FiresMatch
==============================================================================
