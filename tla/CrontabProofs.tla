---------------------------- MODULE CrontabProofs -----------------------------
(***************************************************************************)
(* For any jobs, schedules, Shutdown calls and readings of the clock, and  *)
(* with any number of fires in flight: the scheduler keeps IndInv, hence   *)
(* its safety properties.  One lemma per conjunct of the invariant.        *)
(***************************************************************************)
EXTENDS Crontab, FiniteSetTheorems, SequenceTheorems, TLAPS

(***************************************************************************)
(* The list of fires                                                       *)
(***************************************************************************)
\* Fires are finitely many, and so is every choice among them.
LEMMA FiresFinite ==
    ASSUME TypeOK, NEW S \in SUBSET DOMAIN fires
    PROVE  IsFiniteSet(S) /\ Cardinality(S) \in Nat
<1>1. IsFiniteSet(DOMAIN fires)
  <2>1. fires \in Seq(FireRecords)
    BY DEF TypeOK
  <2>2. DOMAIN fires = 1 .. Len(fires) /\ Len(fires) \in Nat
    BY <2>1
  <2> QED
    BY <2>2, FS_Interval
<1> QED
  BY <1>1, FS_Subset, FS_CardinalityType

\* A fire that moves on keeps its job and its minute, and the others stay.
LEMMA StageMoves ==
    ASSUME TypeOK, NEW f \in DOMAIN fires, NEW there \in Stages, SetStage(f, there)
    PROVE  /\ fires' \in Seq(FireRecords) /\ DOMAIN fires' = DOMAIN fires
           /\ \A g \in DOMAIN fires :
                /\ fires'[g].job = fires[g].job /\ fires'[g].minute = fires[g].minute
                /\ fires'[g].stage = IF g = f THEN there ELSE fires[g].stage
<1>0. fires \in Seq(FireRecords)
  BY DEF TypeOK
<1>1. fires \in Seq(FireRecords) /\ f \in 1 .. Len(fires)
  BY <1>0
<1>2. fires[f] \in FireRecords
  BY <1>1
<1> DEFINE new == [fires[f] EXCEPT !.stage = there]
<1>3. /\ new \in FireRecords /\ new.job = fires[f].job /\ new.minute = fires[f].minute
      /\ new.stage = there
  BY <1>2 DEF FireRecords
<1>4. fires' = [fires EXCEPT ![f] = new]
  BY DEF SetStage
<1> HIDE DEF new
<1>5. fires' \in Seq(FireRecords)
  BY <1>1, <1>3, <1>4, ExceptSeq
<1> QED
  BY <1>3, <1>4, <1>5

\* A launch puts one fire, of a listed job that is due, at the end of the list.
LEMMA LaunchAppends ==
    ASSUME TypeOK, Launch
    PROVE  /\ jobs[next] \in Jobs /\ fires' \in Seq(FireRecords)
           /\ DOMAIN fires' = DOMAIN fires \cup {Len(fires) + 1}
           /\ Len(fires) + 1 \notin DOMAIN fires
           /\ \A g \in DOMAIN fires : fires'[g] = fires[g]
           /\ fires'[Len(fires) + 1] =
                [job |-> jobs[next], minute |-> minute, stage |-> "fn"]
<1>1. jobs[next] \in Jobs
  <2>1. jobs \in Seq(Jobs) /\ next \in 1 .. Len(jobs) + 1
    BY DEF TypeOK
  <2>2. next <= Len(jobs)
    BY DEF Launch
  <2> QED
    BY <2>1, <2>2
<1> DEFINE new == [job |-> jobs[next], minute |-> minute, stage |-> "fn"]
<1>2. new \in FireRecords
  BY <1>1 DEF TypeOK, FireRecords, Stages
<1>3. fires' = Append(fires, new) /\ fires \in Seq(FireRecords)
  BY DEF Launch, TypeOK
<1> HIDE DEF new
<1>4. /\ fires' \in Seq(FireRecords) /\ Len(fires') = Len(fires) + 1
      /\ \A g \in 1 .. Len(fires) : fires'[g] = fires[g]
      /\ fires'[Len(fires) + 1] = new
  BY <1>2, <1>3, AppendProperties
<1>5. DOMAIN fires = 1 .. Len(fires) /\ DOMAIN fires' = 1 .. Len(fires')
  BY <1>3, <1>4
<1>6. Len(fires) \in Nat
  BY <1>3
<1> QED
  BY <1>1, <1>4, <1>5, <1>6 DEF new

\* What a step may do to the fires.
LEMMA FireCases ==
    ASSUME [Next]_vars
    PROVE  \/ UNCHANGED fireVars
           \/ Launch
           \/ \E f \in DOMAIN fires : JobEnds(f) \/ ClearFlag(f) \/ FireDone(f)
           \/ \E s \in JobStops, f \in DOMAIN fires :
                /\ ShutdownOnce(s) /\ fires[f].stage = "fn" /\ SetStage(f, s)
<1>1. CASE Advance \/ Tick \/ LoopStop \/ LoopTick \/ EnterRunDue \/ Skip \/ LeaveRunDue
  BY <1>1 DEF Advance, Tick, LoopStop, LoopTick, EnterRunDue, Skip, LeaveRunDue
<1>2. CASE \E j \in Jobs : AddJob(j)
  BY <1>2 DEF AddJob
<1>3. ASSUME NEW s \in Stops, ShutdownOnce(s)
      PROVE  \/ UNCHANGED fireVars
             \/ s \in JobStops /\ \E f \in DOMAIN fires :
                                    fires[f].stage = "fn" /\ SetStage(f, s)
  BY <1>3 DEF ShutdownOnce, CalledBy, fireVars
<1>4. CASE \E s \in Stops : ShutdownStep(s) \/ ShutdownTimeout(s) \/ WaitEnds(s)
  BY <1>4
     DEF ShutdownStep, FlipStopped, CloseStop, StartWaiter, ShutdownDrained,
         ShutdownTimeout, WaitEnds
<1>5. CASE UNCHANGED vars
  BY <1>5 DEF vars, fireVars
<1> QED
  BY <1>1, <1>2, <1>3, <1>4, <1>5 DEF Next, LoopStep, FireStep

\* Where a fire that moves on goes, and what becomes of the fires that are open and of
\* the ones that hold a slot.
LEMMA FireMoves ==
    ASSUME TypeOK, NEW f \in DOMAIN fires, NEW there \in Stages, SetStage(f, there)
    PROVE  /\ \A j, m : FiresAt(j, m)' = FiresAt(j, m)
           /\ OpenFires' = IF there = "done" THEN OpenFires \ {f} ELSE OpenFires \cup {f}
           /\ \A j : Holding(j)' =
                       IF fires[f].job # j THEN Holding(j)
                       ELSE IF there \in {"finish", "done"} THEN Holding(j) \ {f}
                       ELSE Holding(j) \cup {f}
<1>1. /\ DOMAIN fires' = DOMAIN fires
      /\ \A g \in DOMAIN fires :
           /\ fires'[g].job = fires[g].job /\ fires'[g].minute = fires[g].minute
           /\ fires'[g].stage = IF g = f THEN there ELSE fires[g].stage
  BY StageMoves
<1>2. \A j, m : FiresAt(j, m)' = FiresAt(j, m)
  BY <1>1 DEF FiresAt
<1>3. OpenFires' = IF there = "done" THEN OpenFires \ {f} ELSE OpenFires \cup {f}
  BY <1>1 DEF OpenFires
<1>4. ASSUME NEW j
      PROVE  Holding(j)' = IF fires[f].job # j THEN Holding(j)
                           ELSE IF there \in {"finish", "done"} THEN Holding(j) \ {f}
                           ELSE Holding(j) \cup {f}
  BY <1>1 DEF Holding, InFlight
<1> QED
  BY <1>2, <1>3, <1>4

\* The stages a step of a fire leads from and to.
LEMMA FireStages ==
    ASSUME NEW f \in DOMAIN fires
    PROVE  /\ JobEnds(f) => /\ fires[f].stage \notin {"clear", "finish", "done"}
                            /\ SetStage(f, "clear")
           /\ ClearFlag(f) => fires[f].stage = "clear" /\ SetStage(f, "finish")
           /\ FireDone(f) => fires[f].stage = "finish" /\ SetStage(f, "done")
           /\ {"fn", "clear", "finish", "done"} \subseteq Stages
           /\ \A s \in JobStops : s \in Stages \ {"fn", "clear", "finish", "done"}
<1>1. JobEnds(f) => fires[f].stage \in {"fn"} \cup JobStops /\ SetStage(f, "clear")
  BY DEF JobEnds, AfterJob
<1> QED
  BY <1>1, JobStopsTyped DEF ClearFlag, FireDone, Stages

(***************************************************************************)
(* The conjuncts of the invariant, one by one                              *)
(***************************************************************************)
\* A fire is counted in when it is launched and out when it is over.
LEMMA StepWgExact == IndInv /\ [Next]_vars => WgExact'
<1> SUFFICES ASSUME IndInv, [Next]_vars PROVE WgExact'
  OBVIOUS
<1>1. TypeOK /\ WgExact
  BY DEF IndInv
<1>2. IsFiniteSet(OpenFires)
  BY <1>1, FiresFinite DEF OpenFires
<1>3. CASE UNCHANGED fireVars
  BY <1>1, <1>3 DEF fireVars, WgExact, OpenFires
<1>4. CASE Launch
  <2>1. OpenFires' = OpenFires \cup {Len(fires) + 1} /\ Len(fires) + 1 \notin OpenFires
    BY <1>1, <1>4, LaunchAppends DEF OpenFires
  <2>2. wg' = wg + 1
    BY <1>4 DEF Launch
  <2> QED
    BY <1>1, <1>2, <2>1, <2>2, FS_AddElement DEF WgExact
<1>5. ASSUME NEW f \in DOMAIN fires, JobEnds(f) \/ ClearFlag(f)
      PROVE  WgExact'
  <2>1. OpenFires' = OpenFires \cup {f} /\ f \in OpenFires
    BY <1>1, <1>5, FireMoves, FireStages DEF OpenFires
  <2>2. OpenFires' = OpenFires /\ wg' = wg
    BY <1>5, <2>1 DEF JobEnds, ClearFlag
  <2> QED
    BY <1>1, <2>2 DEF WgExact
<1>6. ASSUME NEW f \in DOMAIN fires, FireDone(f)
      PROVE  WgExact'
  <2>1. OpenFires' = OpenFires \ {f} /\ f \in OpenFires
    BY <1>1, <1>6, FireMoves, FireStages DEF OpenFires
  <2>2. wg' = wg - 1
    BY <1>6 DEF FireDone
  <2> QED
    BY <1>1, <1>2, <2>1, <2>2, FS_RemoveElement DEF WgExact
<1>7. ASSUME NEW s \in JobStops, NEW f \in DOMAIN fires, ShutdownOnce(s),
             fires[f].stage = "fn", SetStage(f, s)
      PROVE  WgExact'
  <2>1. OpenFires' = OpenFires \cup {f} /\ f \in OpenFires
    BY <1>1, <1>7, FireMoves, FireStages DEF OpenFires
  <2>2. OpenFires' = OpenFires /\ wg' = wg
    BY <1>7, <2>1 DEF ShutdownOnce
  <2> QED
    BY <1>1, <2>2 DEF WgExact
<1> QED
  BY <1>3, <1>4, <1>5, <1>6, <1>7, FireCases

\* A slot is taken when it is free and given back by the fire that holds it.
LEMMA StepSlotExact == IndInv /\ [Next]_vars => SlotExact'
<1> SUFFICES ASSUME IndInv, [Next]_vars, ~overlap', NEW j \in Jobs
             PROVE  /\ \A f, g \in Holding(j)' : f = g
                    /\ running'[j] <=> Holding(j)' # {}
  BY DEF SlotExact
<1>1. overlap' = overlap
  BY DEF Next, Advance, Tick, LoopStop, LoopTick, LoopStep, EnterRunDue, Skip, Launch,
         LeaveRunDue, FireStep, JobEnds, ClearFlag, FireDone, AddJob, ShutdownOnce,
         ShutdownStep, FlipStopped, CloseStop, StartWaiter, ShutdownDrained,
         ShutdownTimeout, WaitEnds, clockVars, vars
<1>2. /\ TypeOK /\ running \in [Jobs -> BOOLEAN] /\ ~overlap
      /\ \A f, g \in Holding(j) : f = g
      /\ running[j] <=> Holding(j) # {}
  BY <1>1 DEF IndInv, TypeOK, SlotExact
<1>3. CASE UNCHANGED fireVars
  BY <1>2, <1>3 DEF fireVars, Holding, InFlight
<1>4. CASE Launch
  <2>1. Holding(j)' = IF jobs[next] = j THEN Holding(j) \cup {Len(fires) + 1}
                      ELSE Holding(j)
    BY <1>2, <1>4, LaunchAppends DEF Holding, InFlight
  <2>2. /\ running' = [running EXCEPT ![jobs[next]] = TRUE]
        /\ jobs[next] = j => ~running[j]
    BY <1>2, <1>4 DEF Launch, Claimable
  <2> QED
    BY <1>2, <2>1, <2>2
<1>5. ASSUME NEW f \in DOMAIN fires, JobEnds(f)
      PROVE  Holding(j)' = Holding(j) /\ running' = running
  <2>1. Holding(j)' = IF fires[f].job # j THEN Holding(j) ELSE Holding(j) \cup {f}
    BY <1>2, <1>5, FireMoves, FireStages
  <2>2. fires[f].job = j => f \in Holding(j)
    BY <1>5, FireStages DEF Holding, InFlight
  <2> QED
    BY <1>5, <2>1, <2>2 DEF JobEnds
<1>6. ASSUME NEW f \in DOMAIN fires, ClearFlag(f)
      PROVE  /\ \A g, h \in Holding(j)' : g = h
             /\ running'[j] <=> Holding(j)' # {}
  <2>1. Holding(j)' = IF fires[f].job # j THEN Holding(j) ELSE Holding(j) \ {f}
    BY <1>2, <1>6, FireMoves, FireStages
  <2>2. fires[f].job = j => f \in Holding(j)
    BY <1>6, FireStages DEF Holding, InFlight
  <2>3. running' = [running EXCEPT ![fires[f].job] = FALSE]
    BY <1>2, <1>6 DEF ClearFlag
  <2> QED
    BY <1>2, <2>1, <2>2, <2>3
<1>7. ASSUME NEW f \in DOMAIN fires, FireDone(f)
      PROVE  Holding(j)' = Holding(j) /\ running' = running
  <2>1. Holding(j)' = IF fires[f].job # j THEN Holding(j) ELSE Holding(j) \ {f}
    BY <1>2, <1>7, FireMoves, FireStages
  <2>2. f \notin Holding(j)
    BY <1>7, FireStages DEF Holding, InFlight
  <2> QED
    BY <1>7, <2>1, <2>2 DEF FireDone
<1>8. ASSUME NEW s \in JobStops, NEW f \in DOMAIN fires, ShutdownOnce(s),
             fires[f].stage = "fn", SetStage(f, s)
      PROVE  Holding(j)' = Holding(j) /\ running' = running
  <2>1. Holding(j)' = IF fires[f].job # j THEN Holding(j) ELSE Holding(j) \cup {f}
    BY <1>2, <1>8, FireMoves, FireStages
  <2>2. fires[f].job = j => f \in Holding(j)
    BY <1>8 DEF Holding, InFlight
  <2> QED
    BY <1>8, <2>1, <2>2 DEF ShutdownOnce
<1> QED
  BY <1>2, <1>3, <1>4, <1>5, <1>6, <1>7, <1>8, FireCases

\* No fire is launched once somebody waits, and a fire that moves on was open.
LEMMA StepDrained ==
    ASSUME IndInv, [Next]_vars, OpenFires = {}, stopped
    PROVE  OpenFires' = {}
<1>1. TypeOK /\ loop # "scan"
  BY DEF IndInv, ShutdownOrder
<1>2. ~Launch
  BY <1>1 DEF Launch
<1>3. ASSUME NEW f \in DOMAIN fires
      PROVE  fires[f].stage = "done"
  BY DEF OpenFires
<1>4. ASSUME NEW f \in DOMAIN fires
      PROVE  ~JobEnds(f) /\ ~ClearFlag(f) /\ ~FireDone(f) /\ fires[f].stage # "fn"
  BY <1>3, FireStages
<1>5. UNCHANGED fireVars
  BY <1>2, <1>4, FireCases
<1> QED
  BY <1>5 DEF fireVars, OpenFires

\* Shutdown's steps keep their order, and runDue looks at the flag under the lock.
LEMMA StepShutdownOrder == IndInv /\ [Next]_vars => ShutdownOrder'
<1> SUFFICES ASSUME IndInv, [Next]_vars PROVE ShutdownOrder'
  OBVIOUS
<1>1. TypeOK /\ ShutdownOrder
  BY DEF IndInv
<1>2. ASSUME UNCHANGED shutVars, loop' = "scan" => ~stopped
      PROVE  ShutdownOrder'
  <2>1. ASSUME NEW s \in Stops
        PROVE  StopSound(s)'
    <3>1. StopSound(s) /\ (once = "done" => stopped)
      BY <1>1 DEF ShutdownOrder
    <3>2. OpenFires = {} /\ stopped => OpenFires' = {}
      BY StepDrained
    <3> QED
      BY <1>2, <3>1, <3>2 DEF shutVars, StopSound
  <2> QED
    BY <1>1, <1>2, <2>1 DEF ShutdownOrder, shutVars
<1>3. CASE \/ Advance \/ Tick \/ LoopStop \/ LoopTick \/ LoopStep
           \/ \E f \in DOMAIN fires : FireStep(f)
           \/ \E j \in Jobs : AddJob(j)
           \/ UNCHANGED vars
  <2>1. UNCHANGED shutVars /\ (loop' = "scan" => ~stopped)
    BY <1>1, <1>3
       DEF ShutdownOrder, Advance, Tick, LoopStop, LoopTick, LoopStep, EnterRunDue,
           Skip, Launch, LeaveRunDue, FireStep, JobEnds, ClearFlag, FireDone, AddJob,
           loopVars, vars, shutVars
  <2> QED
    BY <1>2, <2>1
<1>4. ASSUME NEW s \in Stops,
             \/ ShutdownOnce(s) \/ FlipStopped(s) \/ CloseStop(s) \/ StartWaiter(s)
             \/ ShutdownDrained(s) \/ ShutdownTimeout(s) \/ WaitEnds(s)
      PROVE  ShutdownOrder'
  <2>1. /\ \A u \in Stops \ {s} : stop'[u] = stop[u] /\ waiter'[u] = waiter[u]
        /\ loop' = loop /\ stop \in [Stops -> {"new", "flip", "close", "drain",
                                              "select", "nil", "ctx error"}]
    BY <1>1, <1>4
       DEF TypeOK, ShutdownOnce, FlipStopped, CloseStop, StartWaiter, ShutdownDrained,
           ShutdownTimeout, WaitEnds, loopVars
  <2>2. /\ loop = "scan" => ~stopped
        /\ once = "done" => stopped
        /\ StopSound(s)
        /\ \A u \in Stops : StopSound(u)
        /\ \A u \in Stops \ {s} : {stop[s], stop[u]} \subseteq {"flip", "close"} => s = u
        /\ waiter \in [Stops -> {"none", "waiting", "done"}]
        /\ once \in {"free", "busy", "done"}
    BY <1>1 DEF ShutdownOrder, TypeOK
  <2>3. OpenFires = {} /\ stopped => OpenFires' = {}
    BY StepDrained
  <2>4. CASE ShutdownOnce(s)
    <3>1. /\ stop[s] = "new" /\ once # "busy" /\ UNCHANGED <<stopped, waiter>>
          /\ IF once = "free" THEN stop'[s] = "flip" /\ once' = "busy"
                              ELSE stop'[s] = "drain" /\ once' = once
      BY <2>1, <2>4 DEF ShutdownOnce
    <3>2. StopSound(s)'
      BY <2>2, <2>3, <3>1 DEF StopSound
    <3>3. ASSUME NEW u \in Stops \ {s}
          PROVE  StopSound(u)' /\ ~({stop'[s], stop'[u]} \subseteq {"flip", "close"})
      <4>1. StopSound(u) /\ stop'[u] = stop[u] /\ waiter'[u] = waiter[u]
        BY <2>1, <2>2
      <4> QED
        BY <2>2, <2>3, <3>1, <4>1 DEF StopSound
    <3>4. ~(loop' = "scan" /\ stopped') /\ (once' = "done" => stopped')
      BY <1>1, <2>1, <2>2, <3>1 DEF TypeOK, StopSound
    <3>5. ASSUME NEW u \in Stops, NEW v \in Stops,
                 {stop'[u], stop'[v]} \subseteq {"flip", "close"}
          PROVE  u = v
      BY <1>1, <2>1, <3>3, <3>5 DEF ShutdownOrder
    <3> QED
      BY <3>2, <3>3, <3>4, <3>5 DEF ShutdownOrder
  <2>5. CASE FlipStopped(s)
    <3>1. /\ stop[s] = "flip" /\ stop'[s] = "close" /\ stopped' /\ loop # "scan"
          /\ UNCHANGED <<once, waiter, fires>>
      BY <2>1, <2>5 DEF FlipStopped, ReadLocked, fireVars
    <3>2. StopSound(s)'
      BY <2>2, <3>1 DEF StopSound, OpenFires
    <3>3. ASSUME NEW u \in Stops \ {s}
          PROVE  StopSound(u)' /\ ~({stop'[s], stop'[u]} \subseteq {"flip", "close"})
      <4>1. StopSound(u) /\ stop'[u] = stop[u] /\ waiter'[u] = waiter[u]
        BY <2>1, <2>2
      <4> QED
        BY <2>2, <3>1, <4>1 DEF StopSound, OpenFires
    <3>4. ~(loop' = "scan" /\ stopped') /\ (once' = "done" => stopped')
      BY <1>1, <2>1, <2>2, <3>1 DEF TypeOK, StopSound
    <3>5. ASSUME NEW u \in Stops, NEW v \in Stops,
                 {stop'[u], stop'[v]} \subseteq {"flip", "close"}
          PROVE  u = v
      BY <1>1, <2>1, <3>3, <3>5 DEF ShutdownOrder
    <3> QED
      BY <3>2, <3>3, <3>4, <3>5 DEF ShutdownOrder
  <2>6. CASE CloseStop(s)
    <3>1. /\ stop[s] = "close" /\ stop'[s] = "drain" /\ once' = "done"
          /\ UNCHANGED <<stopped, waiter, fires>>
      BY <2>1, <2>6 DEF CloseStop, fireVars
    <3>2. StopSound(s)'
      BY <2>2, <3>1 DEF StopSound, OpenFires
    <3>3. ASSUME NEW u \in Stops \ {s}
          PROVE  StopSound(u)' /\ ~({stop'[s], stop'[u]} \subseteq {"flip", "close"})
      <4>1. StopSound(u) /\ stop'[u] = stop[u] /\ waiter'[u] = waiter[u]
        BY <2>1, <2>2
      <4> QED
        BY <2>2, <3>1, <4>1 DEF StopSound, OpenFires
    <3>4. ~(loop' = "scan" /\ stopped') /\ (once' = "done" => stopped')
      BY <1>1, <2>1, <2>2, <3>1 DEF TypeOK, StopSound
    <3>5. ASSUME NEW u \in Stops, NEW v \in Stops,
                 {stop'[u], stop'[v]} \subseteq {"flip", "close"}
          PROVE  u = v
      BY <1>1, <2>1, <3>3, <3>5 DEF ShutdownOrder
    <3> QED
      BY <3>2, <3>3, <3>4, <3>5 DEF ShutdownOrder
  <2>7. CASE StartWaiter(s)
    <3>1. /\ stop[s] = "drain" /\ stop'[s] = "select" /\ waiter'[s] = "waiting"
          /\ UNCHANGED <<stopped, once, fires>>
      BY <2>1, <2>2, <2>7 DEF StartWaiter, fireVars
    <3> QED
      BY <1>1, <2>1, <2>2, <3>1 DEF ShutdownOrder, StopSound, OpenFires
  <2>8. CASE ShutdownDrained(s) \/ ShutdownTimeout(s)
    <3>1. /\ stop[s] = "select" /\ UNCHANGED <<stopped, once, waiter, fires>>
          /\ \/ stop'[s] = "nil" /\ waiter[s] = "done"
             \/ stop'[s] = "ctx error"
      BY <2>1, <2>8 DEF ShutdownDrained, ShutdownTimeout, fireVars
    <3> QED
      BY <1>1, <2>1, <2>2, <3>1 DEF ShutdownOrder, StopSound, OpenFires
  <2>9. CASE WaitEnds(s)
    <3>1. /\ waiter[s] = "waiting" /\ waiter'[s] = "done" /\ wg = 0
          /\ UNCHANGED <<stopped, once, stop, fires>>
      BY <2>2, <2>9 DEF WaitEnds, fireVars
    <3>2. OpenFires = {}
      BY <1>1, <3>1, FiresFinite, FS_EmptySet DEF IndInv, WgExact, OpenFires
    <3> QED
      BY <1>1, <2>1, <2>2, <3>1, <3>2 DEF ShutdownOrder, StopSound, OpenFires
  <2> QED
    BY <1>4, <2>4, <2>5, <2>6, <2>7, <2>8, <2>9
<1> QED
  BY <1>3, <1>4 DEF Next, ShutdownStep

(***************************************************************************)
(* The pace of the fires                                                   *)
(***************************************************************************)
\* The clock shows a minute.
LEMMA NowTyped ==
    ASSUME TypeOK
    PROVE  now \in Minutes /\ Minutes \subseteq Nat /\ Backs \in Nat
<1>1. Clock \in Seq(Nat) /\ clock \in DOMAIN Clock
  BY ClockTyped DEF TypeOK
<1>2. clock \in Nat /\ \A i \in DOMAIN Clock : Clock[i] \in Nat
  BY <1>1
<1>3. Backs \in Nat
  <2> DEFINE steps == {i \in 2 .. clock : Clock[i] < Clock[i - 1]}
  <2>1. IsFiniteSet(2 .. clock) /\ steps \in SUBSET (2 .. clock)
    BY <1>2, FS_Interval
  <2>2. IsFiniteSet(steps)
    BY <2>1, FS_Subset
  <2> QED
    BY <2>2, FS_CardinalityType DEF Backs
<1> QED
  BY <1>1, <1>2, <1>3 DEF now, Minutes

\* A reading below the one before is counted.
LEMMA BacksGrow ==
    ASSUME TypeOK, Advance
    PROVE  /\ now \in Nat /\ now' \in Nat
           /\ Backs' = IF now' < now THEN Backs + 1 ELSE Backs
<1>1. /\ Clock \in Seq(Nat) /\ clock \in 1 .. Len(Clock) /\ clock' = clock + 1
      /\ clock < Len(Clock)
  <2>1. clock \in DOMAIN Clock /\ clock' = clock + 1 /\ clock < Len(Clock)
    BY DEF TypeOK, Advance
  <2> QED
    BY <2>1, ClockTyped
<1>2. now \in Nat /\ now' \in Nat /\ now = Clock[clock] /\ now' = Clock[clock + 1]
  BY <1>1 DEF now
<1> DEFINE Steps(n) == {i \in 2 .. n : Clock[i] < Clock[i - 1]}
<1>3. Steps(clock + 1) = IF now' < now THEN Steps(clock) \cup {clock + 1}
                         ELSE Steps(clock)
  <2>1. ASSUME NEW i
        PROVE  i \in 2 .. clock + 1 <=> i \in 2 .. clock \/ i = clock + 1
    BY <1>1
  <2>2. (clock + 1) - 1 = clock
    BY <1>1
  <2> QED
    BY <1>2, <2>1, <2>2
<1>4. IsFiniteSet(Steps(clock)) /\ clock + 1 \notin Steps(clock)
  <2>1. IsFiniteSet(2 .. clock) /\ Steps(clock) \in SUBSET (2 .. clock)
    BY <1>1, FS_Interval
  <2>2. clock + 1 \notin 2 .. clock
    BY <1>1
  <2> QED
    BY <2>1, <2>2, FS_Subset
<1>5. Backs = Cardinality(Steps(clock)) /\ Backs' = Cardinality(Steps(clock + 1))
  BY <1>1 DEF Backs
<1> QED
  BY <1>2, <1>3, <1>4, <1>5, FS_AddElement

\* What a step may do to the clock and to the reading runDue works with.
LEMMA ClockCases ==
    ASSUME [Next]_vars
    PROVE  \/ Advance
           \/ LoopTick
           \/ /\ clock' = clock
              /\ loop' \in {"lock", "scan"} =>
                   loop \in {"lock", "scan"} /\ minute' = minute
  BY DEF Next, Tick, LoopStop, LoopStep, EnterRunDue, Skip, Launch, LeaveRunDue,
         FireStep, JobEnds, ClearFlag, FireDone, AddJob, ShutdownOnce, ShutdownStep,
         FlipStopped, CloseStop, StartWaiter, ShutdownDrained, ShutdownTimeout,
         WaitEnds, clockVars, loopVars, vars

\* A job that is paced by an earlier reading is paced by what the clock shows now.
LEMMA Rebase ==
    ASSUME TypeOK, Pace, NEW j \in Jobs
    PROVE  Paced(j, Backs, now)
<1>1. PICK b \in 0 .. Backs, v \in Minutes :
        (v > now => b < Backs) /\ Paced(j, b, v)
  BY DEF Pace
<1> SUFFICES ASSUME NEW m \in Minutes
             PROVE  /\ Cardinality(FiresAt(j, m)) <= 1 + Backs
                    /\ m > now \/ (m = now /\ last[j] # now) =>
                         Cardinality(FiresAt(j, m)) <= Backs
  BY DEF Paced
<1>2. /\ Cardinality(FiresAt(j, m)) <= 1 + b
      /\ m > v \/ (m = v /\ last[j] # v) => Cardinality(FiresAt(j, m)) <= b
  BY <1>1 DEF Paced
<1>3. Cardinality(FiresAt(j, m)) \in Nat
  BY FiresFinite DEF FiresAt
<1>4. m \in Nat /\ v \in Nat /\ now \in Nat /\ Backs \in Nat /\ b \in Nat /\ b <= Backs
  BY NowTyped
<1> QED
  BY <1>1, <1>2, <1>3, <1>4

\* A step that fires nothing and does not touch job.last leaves the count of every
\* minute as it is.
LEMMA PacedKept ==
    ASSUME NEW j, NEW b, NEW v, Paced(j, b, v), last' = last,
           \A m : FiresAt(j, m)' = FiresAt(j, m)
    PROVE  Paced(j, b, v)'
  BY DEF Paced

\* The pace is kept: a job fires for a minute that is one fire behind.
LEMMA StepPace == IndInv /\ [Next]_vars => Pace'
<1> SUFFICES ASSUME IndInv, [Next]_vars PROVE Pace'
  OBVIOUS
<1>1. TypeOK /\ Pace
  BY DEF IndInv
<1>2. PICK b \in 0 .. Backs, v \in Minutes :
        /\ loop \in {"lock", "scan"} => v = minute
        /\ v > now => b < Backs
        /\ \A j \in Jobs : Paced(j, b, v)
  BY <1>1 DEF Pace
<1>3. now \in Nat /\ Minutes \subseteq Nat /\ Backs \in Nat /\ b \in Nat /\ b <= Backs
  BY <1>1, NowTyped
<1>4. CASE Advance
  <2>1. UNCHANGED <<loop, minute, last, fires>>
    BY <1>4 DEF Advance, loopVars, fireVars
  <2>2. \A j \in Jobs : Paced(j, b, v)'
    BY <1>2, <2>1, PacedKept DEF FiresAt
  <2>3. b \in 0 .. Backs' /\ (v > now' => b < Backs')
    BY <1>1, <1>2, <1>3, <1>4, BacksGrow
  <2> QED
    BY <1>2, <2>1, <2>2, <2>3 DEF Pace
<1>5. CASE LoopTick
  <2>1. UNCHANGED <<clock, last, fires>> /\ minute' = now
    BY <1>5 DEF LoopTick, fireVars
  <2>2. \A j \in Jobs : Paced(j, Backs, now)'
    <3>1. \A j \in Jobs : Paced(j, Backs, now)
      BY <1>1, Rebase
    <3>2. Backs' = Backs /\ now' = now
      BY <2>1 DEF Backs, now
    <3> QED
      BY <2>1, <3>1, <3>2 DEF Paced, FiresAt
  <2>3. Backs' = Backs /\ now' = now /\ now \in Minutes /\ Backs \in 0 .. Backs
    BY <1>1, <1>3, <2>1, NowTyped DEF Backs, now
  <2> QED
    BY <1>3, <2>1, <2>2, <2>3 DEF Pace
<1>6. ASSUME clock' = clock, \A j \in Jobs : Paced(j, b, v)',
             loop' \in {"lock", "scan"} => loop \in {"lock", "scan"} /\ minute' = minute
      PROVE  Pace'
  <2>1. Backs' = Backs /\ now' = now
    BY <1>6 DEF Backs, now
  <2> QED
    BY <1>2, <1>6, <2>1 DEF Pace
<1>7. CASE Launch
  <2>1. /\ UNCHANGED <<clock, loop, minute>> /\ v = minute /\ minute \in Minutes
        /\ last[jobs[next]] # minute /\ last' = [last EXCEPT ![jobs[next]] = minute]
        /\ last \in [Jobs -> Minutes \cup {Never}]
    BY <1>1, <1>2, <1>7 DEF Launch, Fireable, clockVars, TypeOK
  <2>2. \A j, m : FiresAt(j, m)' = IF j = jobs[next] /\ m = minute
                                    THEN FiresAt(j, m) \cup {Len(fires) + 1}
                                    ELSE FiresAt(j, m)
    BY <1>1, <1>7, LaunchAppends DEF FiresAt
  <2>3. ASSUME NEW j \in Jobs, NEW m \in Minutes
        PROVE  /\ Cardinality(FiresAt(j, m))' <= 1 + b
               /\ m > v \/ (m = v /\ last'[j] # v) => Cardinality(FiresAt(j, m))' <= b
    <3>1. /\ Cardinality(FiresAt(j, m)) <= 1 + b
          /\ m > v \/ (m = v /\ last[j] # v) => Cardinality(FiresAt(j, m)) <= b
      BY <1>2 DEF Paced
    <3>2. IsFiniteSet(FiresAt(j, m)) /\ Cardinality(FiresAt(j, m)) \in Nat
      BY <1>1, FiresFinite DEF FiresAt
    <3>3. Len(fires) + 1 \notin FiresAt(j, m)
      BY <1>1, <1>7, LaunchAppends DEF FiresAt
    <3>4. CASE j = jobs[next] /\ m = minute
      <4>1. Cardinality(FiresAt(j, m))' = Cardinality(FiresAt(j, m)) + 1
        BY <2>2, <3>2, <3>3, <3>4, FS_AddElement
      <4> QED
        BY <1>3, <2>1, <3>1, <3>2, <3>4, <4>1
    <3>5. CASE j = jobs[next] /\ m # minute
      BY <2>1, <2>2, <3>1, <3>5
    <3>6. CASE j # jobs[next]
      BY <2>1, <2>2, <3>1, <3>6
    <3> QED
      BY <3>4, <3>5, <3>6
  <2>4. \A j \in Jobs : Paced(j, b, v)'
    BY <2>3 DEF Paced
  <2> QED
    BY <1>6, <2>1, <2>4
<1>8. ASSUME NEW f \in DOMAIN fires,
             \/ JobEnds(f) \/ ClearFlag(f) \/ FireDone(f)
             \/ \E s \in JobStops : ShutdownOnce(s) /\ SetStage(f, s)
      PROVE  Pace'
  <2>1. /\ last' = last /\ clock' = clock /\ loop' = loop /\ minute' = minute
    BY <1>8 DEF JobEnds, ClearFlag, FireDone, ShutdownOnce, clockVars, loopVars
  <2>2. \E there \in Stages : SetStage(f, there)
    BY <1>8, FireStages
  <2>3. \A j, m : FiresAt(j, m)' = FiresAt(j, m)
    BY <1>1, <2>2, FireMoves
  <2>4. \A j \in Jobs : Paced(j, b, v)'
    BY <1>2, <2>1, <2>3, PacedKept
  <2> QED
    BY <1>6, <2>1, <2>4
<1>9. CASE UNCHANGED fireVars
  <2>1. \A j \in Jobs : Paced(j, b, v)'
    BY <1>2, <1>9, PacedKept DEF fireVars, FiresAt
  <2> QED
    BY <1>4, <1>5, <1>6, <2>1, ClockCases
<1> QED
  BY <1>7, <1>8, <1>9, FireCases

\* Only a job whose schedule matches is launched.
LEMMA StepFiresMatch == IndInv /\ [Next]_vars => FiresMatch'
<1> SUFFICES ASSUME IndInv, [Next]_vars PROVE FiresMatch'
  OBVIOUS
<1>1. TypeOK /\ FiresMatch
  BY DEF IndInv
<1>2. CASE UNCHANGED fireVars
  BY <1>1, <1>2 DEF fireVars, FiresMatch
<1>3. CASE Launch
  <2>1. Label[minute] \in Due[jobs[next]]
    BY <1>3 DEF Launch, Fireable
  <2> QED
    BY <1>1, <1>3, <2>1, LaunchAppends DEF FiresMatch
<1>4. ASSUME NEW f \in DOMAIN fires, NEW there \in Stages, SetStage(f, there)
      PROVE  FiresMatch'
  BY <1>1, <1>4, StageMoves DEF FiresMatch
<1> QED
  BY <1>2, <1>3, <1>4, FireCases, FireStages

(***************************************************************************)
(* Types                                                                   *)
(***************************************************************************)
\* Every step keeps the types.  That c.wg is not negative comes from WgExact.
LEMMA StepTypeOK == IndInv /\ [Next]_vars => TypeOK'
<1> SUFFICES ASSUME IndInv, [Next]_vars PROVE TypeOK'
  OBVIOUS
<1>1. TypeOK
  BY DEF IndInv
<1>2. fires' \in Seq(FireRecords) /\ last' \in [Jobs -> Minutes \cup {Never}]
        /\ running' \in [Jobs -> BOOLEAN]
  <2>1. CASE UNCHANGED fireVars
    BY <1>1, <2>1 DEF TypeOK, fireVars
  <2>2. CASE Launch
    <3>1. fires' \in Seq(FireRecords) /\ jobs[next] \in Jobs
      BY <1>1, <2>2, LaunchAppends
    <3> QED
      BY <1>1, <2>2, <3>1 DEF TypeOK, Launch
  <2>3. ASSUME NEW f \in DOMAIN fires, JobEnds(f) \/ ClearFlag(f) \/ FireDone(f)
        PROVE  /\ fires' \in Seq(FireRecords)
               /\ last' = last /\ running' \in [Jobs -> BOOLEAN]
    <3>1. fires' \in Seq(FireRecords)
      BY <1>1, <2>3, FireStages, StageMoves
    <3> QED
      BY <1>1, <2>3, <3>1 DEF TypeOK, JobEnds, ClearFlag, FireDone
  <2>4. ASSUME NEW s \in JobStops, NEW f \in DOMAIN fires, ShutdownOnce(s), SetStage(f, s)
        PROVE  fires' \in Seq(FireRecords) /\ UNCHANGED <<last, running>>
    BY <1>1, <2>4, FireStages, StageMoves DEF ShutdownOnce
  <2> QED
    BY <1>1, <2>1, <2>2, <2>3, <2>4, FireCases DEF TypeOK
<1>3. wg' \in Nat
  <2>1. wg' = Cardinality(OpenFires')
    BY StepWgExact DEF WgExact
  <2>2. fires' \in Seq(FireRecords) /\ OpenFires' \in SUBSET DOMAIN fires'
    BY <1>2 DEF OpenFires
  <2>3. DOMAIN fires' = 1 .. Len(fires') /\ Len(fires') \in Nat
    BY <2>2
  <2>4. IsFiniteSet(DOMAIN fires')
    BY <2>3, FS_Interval
  <2>5. IsFiniteSet(OpenFires')
    BY <2>2, <2>4, FS_Subset
  <2> QED
    BY <2>1, <2>5, FS_CardinalityType
<1>4. jobs' \in Seq(Jobs) /\ next' \in 1 .. Len(jobs') + 1
  <2>1. jobs \in Seq(Jobs) /\ next \in 1 .. Len(jobs) + 1
    BY <1>1 DEF TypeOK
  <2>2. \/ UNCHANGED <<jobs, next>>
        \/ jobs' = jobs /\ next <= Len(jobs) /\ next' = next + 1
        \/ jobs' = jobs /\ next' = 1
        \/ next' = next /\ \E j \in Jobs : jobs' = Append(jobs, j)
    BY DEF Next, Advance, Tick, LoopStop, LoopTick, LoopStep, EnterRunDue, Skip, Launch,
           LeaveRunDue, FireStep, JobEnds, ClearFlag, FireDone, AddJob, ListAfterAdd,
           ShutdownOnce, ShutdownStep, FlipStopped, CloseStop, StartWaiter,
           ShutdownDrained, ShutdownTimeout, WaitEnds, loopVars, jobVars, vars
  <2> QED
    BY <2>1, <2>2, AppendProperties
<1>5. /\ overlap' \in BOOLEAN /\ clock' \in DOMAIN Clock /\ minute' \in Minutes
      /\ tick' \in BOOLEAN /\ loop' \in {"select", "lock", "scan", "exited"}
  <2>1. /\ now \in Minutes /\ 0 \in Minutes /\ minute \in Minutes
        /\ clock \in DOMAIN Clock
        /\ clock < Len(Clock) => clock + 1 \in DOMAIN Clock
    <3>1. clock \in DOMAIN Clock /\ minute \in Minutes
      BY <1>1 DEF TypeOK
    <3> QED
      BY <1>1, <3>1, ClockTyped, NowTyped DEF Minutes
  <2>2. /\ overlap \in BOOLEAN /\ tick \in BOOLEAN
        /\ loop \in {"select", "lock", "scan", "exited"}
    BY <1>1 DEF TypeOK
  <2> QED
    BY <2>1, <2>2
       DEF Next, Advance, Tick, LoopStop, LoopTick, LoopStep, EnterRunDue, Skip, Launch,
           LeaveRunDue, FireStep, JobEnds, ClearFlag, FireDone, AddJob, ShutdownOnce,
           ShutdownStep, FlipStopped, CloseStop, StartWaiter, ShutdownDrained,
           ShutdownTimeout, WaitEnds, clockVars, loopVars, vars
<1>6. /\ added' \in [Jobs -> {"new", "added", "error"}]
      /\ stopped' \in BOOLEAN /\ stopClosed' \in BOOLEAN
      /\ once' \in {"free", "busy", "done"}
  <2>1. /\ added \in [Jobs -> {"new", "added", "error"}]
        /\ stopped \in BOOLEAN /\ stopClosed \in BOOLEAN
        /\ once \in {"free", "busy", "done"}
    BY <1>1 DEF TypeOK
  <2> QED
    BY <2>1
       DEF Next, Advance, Tick, LoopStop, LoopTick, LoopStep, EnterRunDue, Skip, Launch,
           LeaveRunDue, FireStep, JobEnds, ClearFlag, FireDone, AddJob, AddAnswer,
           ShutdownOnce, ShutdownStep, FlipStopped, CloseStop, StartWaiter,
           ShutdownDrained, ShutdownTimeout, WaitEnds, jobVars, shutVars, vars
<1>7. /\ stop' \in [Stops -> {"new", "flip", "close", "drain", "select", "nil",
                             "ctx error"}]
      /\ waiter' \in [Stops -> {"none", "waiting", "done"}]
  <2>1. /\ stop \in [Stops -> {"new", "flip", "close", "drain", "select", "nil",
                               "ctx error"}]
        /\ waiter \in [Stops -> {"none", "waiting", "done"}]
    BY <1>1 DEF TypeOK
  <2>2. \/ UNCHANGED <<stop, waiter>>
        \/ \E s \in Stops :
             /\ \/ stop' = stop
                \/ \E to \in {"flip", "close", "drain", "select", "nil", "ctx error"} :
                     stop' = [stop EXCEPT ![s] = to]
             /\ \/ waiter' = waiter
                \/ \E to \in {"waiting", "done"} : waiter' = [waiter EXCEPT ![s] = to]
    BY DEF Next, Advance, Tick, LoopStop, LoopTick, LoopStep, EnterRunDue, Skip, Launch,
           LeaveRunDue, FireStep, JobEnds, ClearFlag, FireDone, AddJob, ShutdownOnce,
           ShutdownStep, FlipStopped, CloseStop, StartWaiter, ShutdownDrained,
           ShutdownTimeout, WaitEnds, shutVars, vars
  <2> QED
    BY <2>1, <2>2
<1> QED
  BY <1>2, <1>3, <1>4, <1>5, <1>6, <1>7 DEF TypeOK

\* Nothing has been added, fired or stopped yet.
LEMMA InitIndInv == Init => IndInv
<1> SUFFICES ASSUME Init PROVE IndInv
  OBVIOUS
<1>1. fires = <<>> /\ DOMAIN fires = {}
  BY DEF Init
<1>2. TypeOK
  <2>1. 1 \in DOMAIN Clock
    BY ClockTyped
  <2>2. jobs \in Seq(Jobs) /\ fires \in Seq(FireRecords) /\ next \in 1 .. Len(jobs) + 1
    BY DEF Init
  <2> QED
    BY <2>1, <2>2 DEF Init, TypeOK, Minutes
<1>3. WgExact /\ ShutdownOrder /\ SlotExact /\ FiresMatch
  <2>1. OpenFires = {} /\ \A j : Holding(j) = {}
    BY <1>1 DEF OpenFires, Holding, InFlight
  <2> QED
    BY <1>1, <2>1, FS_EmptySet
       DEF Init, WgExact, ShutdownOrder, StopSound, SlotExact, FiresMatch
<1>4. Pace
  <2>1. \A j, m : Cardinality(FiresAt(j, m)) = 0
    BY <1>1, FS_EmptySet DEF FiresAt
  <2>2. now \in Minutes /\ Minutes \subseteq Nat /\ Backs \in Nat
    BY <1>2, NowTyped
  <2>3. \A j \in Jobs : Paced(j, Backs, now)
    BY <2>1, <2>2 DEF Paced
  <2>4. ~(now > now) /\ Backs \in 0 .. Backs /\ loop = "select"
    BY <2>2 DEF Init
  <2> QED
    BY <2>2, <2>3, <2>4 DEF Pace
<1> QED
  BY <1>2, <1>3, <1>4 DEF IndInv

(***************************************************************************)
(* The safety properties                                                   *)
(***************************************************************************)
\* Every state the scheduler can reach satisfies the invariant.
THEOREM CrontabInvariant == Spec => []IndInv
<1>1. IndInv /\ [Next]_vars => IndInv'
  BY StepTypeOK, StepWgExact, StepShutdownOrder, StepSlotExact, StepPace, StepFiresMatch
     DEF IndInv
<1> QED
  BY <1>1, InitIndInv, PTL DEF Spec

\* The state is always well typed; in particular the WaitGroup is never driven below
\* zero, which would panic.
THEOREM CrontabTypes == Spec => []TypeOK
<1>1. IndInv => TypeOK
  BY DEF IndInv
<1> QED
  BY <1>1, CrontabInvariant, PTL

\* A job fires for a minute its schedule matches, once, and once more at most for each
\* time the wall clock was set back, however ticks come and whatever the readings.
THEOREM CrontabAtMostOnce == Spec => []AtMostOncePerMinute
<1>1. IndInv => AtMostOncePerMinute
  <2> SUFFICES ASSUME IndInv PROVE AtMostOncePerMinute
    OBVIOUS
  <2>1. \A j \in Jobs : Paced(j, Backs, now)
    BY Rebase DEF IndInv
  <2> QED
    BY <2>1 DEF IndInv, Paced, FiresMatch, AtMostOncePerMinute
<1> QED
  BY <1>1, CrontabInvariant, PTL

\* Without WithOverlap a job never runs beside itself and its flag is up exactly while
\* a fire of it has not cleared it, whatever the job's outcome.
THEOREM CrontabSlotSound == Spec => []SlotSound
<1>1. IndInv => SlotSound
  <2> SUFFICES ASSUME IndInv, ~overlap, NEW j \in Jobs
               PROVE  Cardinality(Holding(j)) <= 1 /\ (running[j] <=> Holding(j) # {})
    BY DEF SlotSound
  <2>1. (\A f, g \in Holding(j) : f = g) /\ (running[j] <=> Holding(j) # {})
    BY DEF IndInv, SlotExact
  <2>2. CASE Holding(j) = {}
    BY <2>1, <2>2, FS_EmptySet
  <2>3. ASSUME NEW f \in Holding(j)
        PROVE  Cardinality(Holding(j)) = 1
    <3>1. Holding(j) = {f}
      BY <2>1, <2>3
    <3> QED
      BY <3>1, FS_Singleton
  <2> QED
    BY <2>1, <2>2, <2>3
<1> QED
  BY <1>1, CrontabInvariant, PTL

\* When a Shutdown has returned nil every fire is over, and stays so.
THEOREM CrontabDrainComplete == Spec => []DrainComplete
<1>1. IndInv => DrainComplete
  BY DEF IndInv, ShutdownOrder, StopSound, OpenFires, DrainComplete, InFlight
<1> QED
  BY <1>1, CrontabInvariant, PTL

\* The WaitGroup is never added to while a Shutdown waits on it.
THEOREM CrontabNoAddUnderWaiter == Spec => NoAddUnderWaiter
<1> DEFINE Alone == wg' > wg => \A s \in Stops : waiter[s] = "none"
<1>1. IndInv /\ [Next]_vars => [Alone]_vars
  <2> SUFFICES ASSUME IndInv, [Next]_vars, wg' > wg, NEW s \in Stops
               PROVE  waiter[s] = "none"
    OBVIOUS
  <2>1. wg \in Nat
    BY DEF IndInv, TypeOK
  <2>2. CASE Launch
    BY <2>2 DEF Launch, IndInv, ShutdownOrder, StopSound
  <2>3. CASE ~Launch
    <3>1. wg' = wg \/ wg' = wg - 1
      BY <2>3, FireCases DEF fireVars, JobEnds, ClearFlag, FireDone, ShutdownOnce
    <3> QED
      BY <2>1, <3>1
  <2> QED
    BY <2>2, <2>3
<1> QED
  BY <1>1, CrontabInvariant, PTL DEF Spec, NoAddUnderWaiter

\* Once the flag is flipped nothing is dispatched and no job is listed.
THEOREM CrontabNoDispatch == Spec => NoDispatchAfterStop
<1> DEFINE Frozen == stopped => UNCHANGED <<jobs, last>>
<1>1. IndInv /\ [Next]_vars => [Frozen]_vars
  <2> SUFFICES ASSUME IndInv, [Next]_vars, stopped
               PROVE  UNCHANGED <<jobs, last>>
    OBVIOUS
  <2>1. loop # "scan"
    BY DEF IndInv, ShutdownOrder
  <2>2. ~Launch
    BY <2>1 DEF Launch
  <2>3. last' = last
    BY <2>2, FireCases DEF fireVars, JobEnds, ClearFlag, FireDone, ShutdownOnce
  <2>4. jobs' = jobs
    BY <2>2
       DEF Next, Advance, Tick, LoopStop, LoopTick, LoopStep, EnterRunDue, Skip,
           LeaveRunDue, FireStep, JobEnds, ClearFlag, FireDone, AddJob, ListAfterAdd,
           ShutdownOnce, ShutdownStep, FlipStopped, CloseStop, StartWaiter,
           ShutdownDrained, ShutdownTimeout, WaitEnds, jobVars, vars
  <2> QED
    BY <2>3, <2>4
<1> QED
  BY <1>1, CrontabInvariant, PTL DEF Spec, NoDispatchAfterStop
==============================================================================
