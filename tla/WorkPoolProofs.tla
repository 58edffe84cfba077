--------------------------- MODULE WorkPoolProofs ----------------------------
(***************************************************************************)
(* For any finite set of tasks, any number of Run calls, any worker count  *)
(* and any buffer: the pool keeps IndInv, hence its counters are exact,    *)
(* every task is executed once, and Run waits for what it owes.            *)
(***************************************************************************)
EXTENDS WorkPool, FiniteSetTheorems, TLAPS

\* What counting a set of tasks comes to when one enters or leaves it.
LEMMA Counting ==
    ASSUME NEW S \in SUBSET Tasks
    PROVE  /\ IsFiniteSet(S)
           /\ Cardinality(S) \in Nat
           /\ Cardinality(S) = 0 <=> S = {}
           /\ \A t : t \notin S => Cardinality(S \cup {t}) = Cardinality(S) + 1
           /\ \A t \in S : Cardinality(S \ {t}) = Cardinality(S) - 1
<1>1. IsFiniteSet(S)
  BY TasksFinite, FS_Subset
<1> QED
  BY <1>1, FS_CardinalityType, FS_EmptySet, FS_AddElement, FS_RemoveElement

\* A new pool satisfies the invariant.
LEMMA InitIndInv == Init => IndInv
<1> SUFFICES ASSUME Init PROVE IndInv
  OBVIOUS
<1>1. TypeOK
  <2>1. queue \in Seq(Tasks)
    BY DEF Init
  <2>2. chanClosed \in BOOLEAN /\ closed \in BOOLEAN
    BY Zenon DEF Init
  <2>3. size \in Nat
    <3>1. PICK arg \in BufferArgs : size = BufferSize(arg)
      BY DEF Init
    <3>2. arg \in Seq(Nat) /\ NumWorkers \in Nat
      BY ArgsTyped DEF NumWorkers
    <3>3. CASE Len(arg) > 0
      BY <3>1, <3>2, <3>3 DEF BufferSize
    <3>4. CASE ~(Len(arg) > 0)
      BY <3>1, <3>2, <3>4 DEF BufferSize
    <3> QED
      BY <3>3, <3>4
  <2> QED
    BY <2>1, <2>2, <2>3 DEF Init, TypeOK, Statuses
<1>2. Counted = {} /\ Live = {}
  BY DEF Init, Counted, Live
<1>3. CountersExact
  BY <1>2, FS_EmptySet DEF Init, CountersExact
<1>4. PlacesSound
  BY DEF Init, PlacesSound
<1> QED
  BY <1>1, <1>3, <1>4
     DEF Init, IndInv, ExecutedOnce, ClosingSound, OneCloser, RunWaitsForOwed,
         QuietAfterClose, ReleaseSound, DisciplineSuffices, Over, Crashed

\* Every step keeps the invariant, with a race between Do and Run or without.
LEMMA StepIndInv == IndInv /\ [Next]_vars => IndInv'
<1> SUFFICES ASSUME IndInv, [Next]_vars PROVE IndInv'
  OBVIOUS
<1> USE NoTaskNotTask
<1>1. ASSUME NEW t \in Tasks, DoCheck(t)
      PROVE  IndInv'
  <2>1. Counted \in SUBSET Tasks /\ Counted' = Counted
    BY <1>1 DEF IndInv, DoCheck, Move, Counted
  <2>2. Live \in SUBSET Tasks /\ Live' = Live
    BY <1>1 DEF IndInv, DoCheck, Move, Live
  <2>3. CountersExact'
    BY <1>1, <2>1, <2>2, Counting DEF IndInv, TypeOK, DoCheck, CountersExact
  <2>4. TypeOK'
    BY <1>1 DEF IndInv, TypeOK, DoCheck, Move, Statuses
  <2>5. PlacesSound'
    BY <1>1 DEF IndInv, DoCheck, Move, PlacesSound
  <2>6. ExecutedOnce'
    BY <1>1 DEF IndInv, DoCheck, Move, ExecutedOnce
  <2>7. ClosingSound' /\ OneCloser'
    BY <1>1 DEF IndInv, DoCheck, Move, ClosingSound, OneCloser
  <2>8. RunWaitsForOwed'
    BY <1>1 DEF IndInv, DoCheck, Move, RunWaitsForOwed, Over
  <2>9. QuietAfterClose' /\ ReleaseSound'
    BY <1>1 DEF IndInv, DoCheck, Move, QuietAfterClose, ReleaseSound, InDo
  <2>10. DisciplineSuffices'
    BY <1>1
       DEF IndInv, TypeOK, DoCheck, Move, ClosingSound, QuietAfterClose,
           DisciplineSuffices, InDo, Over, Crashed, IsRunning
  <2> QED
    BY <2>3, <2>4, <2>5, <2>6, <2>7, <2>8, <2>9, <2>10 DEF IndInv
<1>2. ASSUME NEW t \in Tasks, DoCount(t)
      PROVE  IndInv'
  <2>1. Counted \in SUBSET Tasks /\ Counted' = Counted
    BY <1>2 DEF IndInv, DoCount, Move, Counted
  <2>2. Live \in SUBSET Tasks /\ t \notin Live /\ Live' = Live \cup {t}
    BY <1>2 DEF IndInv, TypeOK, DoCount, Move, Live
  <2>3. CountersExact'
    BY <1>2, <2>1, <2>2, Counting DEF IndInv, TypeOK, DoCount, CountersExact
  <2>4. TypeOK'
    BY <1>2 DEF IndInv, TypeOK, DoCount, Move, Statuses
  <2>5. PlacesSound'
    BY <1>2 DEF IndInv, DoCount, Move, PlacesSound
  <2>6. ExecutedOnce'
    BY <1>2 DEF IndInv, DoCount, Move, ExecutedOnce
  <2>7. ClosingSound' /\ OneCloser'
    BY <1>2 DEF IndInv, DoCount, Move, ClosingSound, OneCloser
  <2>8. RunWaitsForOwed'
    BY <1>2 DEF IndInv, DoCount, Move, RunWaitsForOwed, Over
  <2>9. QuietAfterClose' /\ ReleaseSound'
    BY <1>2 DEF IndInv, DoCount, Move, QuietAfterClose, ReleaseSound, InDo
  <2>10. DisciplineSuffices'
    BY <1>2 DEF IndInv, DoCount, Move, DisciplineSuffices, Over, Crashed, IsRunning
  <2> QED
    BY <2>3, <2>4, <2>5, <2>6, <2>7, <2>8, <2>9, <2>10 DEF IndInv
<1>3. ASSUME NEW t \in Tasks, DoAdd(t)
      PROVE  IndInv'
  <2>1. Counted \in SUBSET Tasks /\ t \notin Counted /\ Counted' = Counted \cup {t}
    BY <1>3 DEF IndInv, TypeOK, DoAdd, Move, Counted
  <2>2. Live \in SUBSET Tasks /\ Live' = Live
    BY <1>3 DEF IndInv, DoAdd, Move, Live
  <2>3. CountersExact'
    BY <1>3, <2>1, <2>2, Counting DEF IndInv, TypeOK, DoAdd, CountersExact
  <2>4. TypeOK'
    BY <1>3 DEF IndInv, TypeOK, DoAdd, Move, Statuses
  <2>5. PlacesSound'
    BY <1>3 DEF IndInv, DoAdd, Move, PlacesSound
  <2>6. ExecutedOnce'
    BY <1>3 DEF IndInv, DoAdd, Move, ExecutedOnce
  <2>7. ClosingSound' /\ OneCloser'
    BY <1>3
       DEF IndInv, TypeOK, DoAdd, Move, ClosingSound, OneCloser, RunWaitsForOwed,
           Over, Counted, HasWaiter
  <2>8. RunWaitsForOwed'
    BY <1>3 DEF IndInv, DoAdd, Move, RunWaitsForOwed, Over
  <2>9. QuietAfterClose' /\ ReleaseSound'
    BY <1>3 DEF IndInv, DoAdd, Move, QuietAfterClose, ReleaseSound, InDo
  <2>10. DisciplineSuffices'
    BY <1>3, <2>1, <2>2, <2>3, <2>4, <2>9, Counting
       DEF IndInv, TypeOK, DoAdd, Move, ClosingSound, QuietAfterClose, ReleaseSound,
           DisciplineSuffices, InDo, Over, Crashed, IsRunning, HasWaiter
  <2> QED
    BY <2>3, <2>4, <2>5, <2>6, <2>7, <2>8, <2>9, <2>10 DEF IndInv
<1>4. ASSUME NEW t \in Tasks, DoSend(t)
      PROVE  IndInv'
  <2>1. Counted \in SUBSET Tasks /\ Counted' = Counted
    BY <1>4 DEF IndInv, DoSend, Move, Counted
  <2>2. Live \in SUBSET Tasks /\ Live' = Live
    BY <1>4 DEF IndInv, DoSend, Move, Live
  <2>3. CountersExact'
    BY <1>4, <2>1, <2>2, Counting DEF IndInv, TypeOK, DoSend, CountersExact
  <2>4. TypeOK'
    BY <1>4 DEF IndInv, TypeOK, DoSend, Move, Statuses
  <2>5. PlacesSound'
    BY <1>4 DEF IndInv, TypeOK, DoSend, Move, PlacesSound
  <2>6. ExecutedOnce'
    BY <1>4 DEF IndInv, DoSend, Move, ExecutedOnce
  <2>7. ClosingSound' /\ OneCloser'
    BY <1>4 DEF IndInv, DoSend, Move, ClosingSound, OneCloser
  <2>8. RunWaitsForOwed'
    BY <1>4 DEF IndInv, DoSend, Move, RunWaitsForOwed, Over
  <2>9. QuietAfterClose' /\ ReleaseSound'
    BY <1>4 DEF IndInv, DoSend, Move, QuietAfterClose, ReleaseSound, InDo
  <2>10. DisciplineSuffices'
    BY <1>4 DEF IndInv, DoSend, Move, DisciplineSuffices, Over, Crashed, IsRunning
  <2> QED
    BY <2>3, <2>4, <2>5, <2>6, <2>7, <2>8, <2>9, <2>10 DEF IndInv
<1>5. ASSUME NEW t \in Tasks, NEW w \in Workers, DoHandOff(t, w)
      PROVE  IndInv'
  <2>1. Counted \in SUBSET Tasks /\ Counted' = Counted
    BY <1>5 DEF IndInv, DoHandOff, Move, Counted
  <2>2. Live \in SUBSET Tasks /\ Live' = Live
    BY <1>5 DEF IndInv, DoHandOff, Move, Live
  <2>3. CountersExact'
    BY <1>5, <2>1, <2>2, Counting DEF IndInv, TypeOK, DoHandOff, CountersExact
  <2>4. TypeOK'
    BY <1>5 DEF IndInv, TypeOK, DoHandOff, Move, Statuses
  <2>5. PlacesSound'
    BY <1>5 DEF IndInv, TypeOK, DoHandOff, Move, PlacesSound
  <2>6. ExecutedOnce'
    BY <1>5 DEF IndInv, DoHandOff, Move, ExecutedOnce
  <2>7. ClosingSound' /\ OneCloser'
    BY <1>5 DEF IndInv, DoHandOff, Move, ClosingSound, OneCloser
  <2>8. RunWaitsForOwed'
    BY <1>5 DEF IndInv, DoHandOff, Move, RunWaitsForOwed, Over
  <2>9. QuietAfterClose' /\ ReleaseSound'
    BY <1>5 DEF IndInv, DoHandOff, Move, QuietAfterClose, ReleaseSound, InDo
  <2>10. DisciplineSuffices'
    BY <1>5 DEF IndInv, DoHandOff, Move, DisciplineSuffices, Over, Crashed, IsRunning
  <2> QED
    BY <2>3, <2>4, <2>5, <2>6, <2>7, <2>8, <2>9, <2>10 DEF IndInv
<1>6. ASSUME NEW t \in Tasks, DoSendClosed(t)
      PROVE  IndInv'
  <2>1. Counted \in SUBSET Tasks /\ Counted' = Counted
    BY <1>6 DEF IndInv, DoSendClosed, Move, Counted
  <2>2. Live \in SUBSET Tasks /\ Live' = Live
    BY <1>6 DEF IndInv, DoSendClosed, Move, Live
  <2>3. CountersExact'
    BY <1>6, <2>1, <2>2, Counting DEF IndInv, TypeOK, DoSendClosed, CountersExact
  <2>4. TypeOK'
    BY <1>6 DEF IndInv, TypeOK, DoSendClosed, Move, Statuses
  <2>5. PlacesSound'
    BY <1>6 DEF IndInv, DoSendClosed, Move, PlacesSound
  <2>6. ExecutedOnce'
    BY <1>6 DEF IndInv, DoSendClosed, Move, ExecutedOnce
  <2>7. ClosingSound' /\ OneCloser'
    BY <1>6
       DEF IndInv, TypeOK, DoSendClosed, Move, ClosingSound, OneCloser,
           RunWaitsForOwed, Over
  <2>8. RunWaitsForOwed'
    BY <1>6 DEF IndInv, DoSendClosed, Move, RunWaitsForOwed, Over
  <2>9. QuietAfterClose' /\ ReleaseSound'
    BY <1>6 DEF IndInv, DoSendClosed, Move, QuietAfterClose, ReleaseSound, InDo
  <2>10. DisciplineSuffices'
    BY <1>6
       DEF IndInv, TypeOK, DoSendClosed, Move, ClosingSound, QuietAfterClose,
           DisciplineSuffices, InDo, Over, Crashed, IsRunning
  <2> QED
    BY <2>3, <2>4, <2>5, <2>6, <2>7, <2>8, <2>9, <2>10 DEF IndInv
<1>7. ASSUME NEW r \in Runners, RunClose(r)
      PROVE  IndInv'
  <2>1. Counted \in SUBSET Tasks /\ Counted' = Counted
    BY <1>7 DEF IndInv, RunClose, Counted
  <2>2. Live \in SUBSET Tasks /\ Live' = Live
    BY <1>7 DEF IndInv, RunClose, Live
  <2>3. CountersExact'
    BY <1>7, <2>1, <2>2, Counting DEF IndInv, TypeOK, RunClose, CountersExact
  <2>4. TypeOK'
    <3>1. closed' \in BOOLEAN /\ owed' \subseteq Tasks /\ raced' \in BOOLEAN
      BY <1>7, <2>1, Zenon DEF IndInv, TypeOK, RunClose
    <3>2. run' \in [Runners -> {"new", "noop", "won", "parked", "woken", "closing",
                                "returned", "panicked"}]
      BY <1>7 DEF IndInv, TypeOK, RunClose
    <3> QED
      BY <1>7, <3>1, <3>2 DEF IndInv, TypeOK, RunClose
  <2>5. PlacesSound'
    BY <1>7 DEF IndInv, RunClose, PlacesSound
  <2>6. ExecutedOnce'
    BY <1>7 DEF IndInv, RunClose, ExecutedOnce
  <2>7. ClosingSound' /\ OneCloser'
    <3>1. CASE closed
      BY <1>7, <3>1 DEF IndInv, TypeOK, RunClose, ClosingSound, OneCloser
    <3>2. CASE ~closed
      <4>1. /\ \A q \in Runners : run[q] \in {"new", "noop"}
            /\ \A t \in Counted : status[t] \in {"added", "queued", "taken", "ran",
                                                 "uncounted", "lost"}
            /\ ~chanClosed
        BY <3>2 DEF IndInv, ClosingSound, Counted
      <4> QED
        BY <1>7, <3>2, <4>1 DEF IndInv, TypeOK, RunClose, ClosingSound, OneCloser
    <3> QED
      BY <3>1, <3>2
  <2>8. RunWaitsForOwed'
    BY <1>7 DEF IndInv, TypeOK, RunClose, ClosingSound, RunWaitsForOwed, Over
  <2>9. QuietAfterClose' /\ ReleaseSound'
    <3>1. CASE closed
      BY <1>7, <3>1 DEF IndInv, TypeOK, RunClose, QuietAfterClose, ReleaseSound, InDo
    <3>2. CASE ~closed
      <4>1. /\ raced' <=> \E t \in Tasks : InDo(t)
            /\ \A t \in Tasks : InDo(t)' <=> InDo(t)
        BY <1>7, <3>2 DEF RunClose, InDo
      <4>2. /\ \A q \in Runners : run[q] \in {"new", "noop"}
            /\ \A w \in Workers : worker[w] # "release"
        BY <3>2 DEF IndInv, ClosingSound, ReleaseSound
      <4>3. \A q \in Runners : run'[q] \notin {"woken", "closing", "returned"}
        BY <1>7, <3>2, <4>2 DEF IndInv, TypeOK, RunClose
      <4> QED
        BY <1>7, <3>2, <4>1, <4>2, <4>3
           DEF RunClose, QuietAfterClose, ReleaseSound, IndInv
    <3> QED
      BY <3>1, <3>2
  <2>10. DisciplineSuffices'
    <3>1. CASE closed
      BY <1>7, <3>1
         DEF IndInv, TypeOK, RunClose, DisciplineSuffices, Over, Crashed, IsRunning
    <3>2. CASE ~closed
      BY <1>7, <3>2
         DEF IndInv, TypeOK, RunClose, ClosingSound, DisciplineSuffices, Over,
             Crashed, IsRunning
    <3> QED
      BY <3>1, <3>2
  <2> QED
    BY <2>3, <2>4, <2>5, <2>6, <2>7, <2>8, <2>9, <2>10 DEF IndInv
<1>8. ASSUME NEW r \in Runners, RunWait(r)
      PROVE  IndInv'
  <2>1. Counted \in SUBSET Tasks /\ Counted' = Counted
    BY <1>8 DEF IndInv, RunWait, Counted
  <2>2. Live \in SUBSET Tasks /\ Live' = Live
    BY <1>8 DEF IndInv, RunWait, Live
  <2>3. CountersExact'
    BY <1>8, <2>1, <2>2, Counting DEF IndInv, TypeOK, RunWait, CountersExact
  <2>4. TypeOK'
    BY <1>8 DEF IndInv, TypeOK, RunWait, Statuses
  <2>5. PlacesSound'
    BY <1>8 DEF IndInv, RunWait, PlacesSound
  <2>6. ExecutedOnce'
    BY <1>8 DEF IndInv, RunWait, ExecutedOnce
  <2>7. ClosingSound' /\ OneCloser'
    BY <1>8 DEF IndInv, RunWait, ClosingSound, OneCloser
  <2>8. RunWaitsForOwed'
    BY <1>8, <2>1, Counting
       DEF IndInv, TypeOK, RunWait, ClosingSound, OneCloser, RunWaitsForOwed, Over,
           Counted, CountersExact
  <2>9. QuietAfterClose' /\ ReleaseSound'
    BY <1>8 DEF IndInv, RunWait, QuietAfterClose, ReleaseSound, InDo
  <2>10. DisciplineSuffices'
    <3> SUFFICES ASSUME ~raced PROVE DisciplineSuffices'
      BY <1>8 DEF RunWait, DisciplineSuffices
    <3>1. closed /\ \A t \in Tasks : ~InDo(t)
      BY <1>8 DEF IndInv, ClosingSound, QuietAfterClose, RunWait
    <3>2. wg = 0 => Counted = {}
      BY <2>1, Counting DEF IndInv, CountersExact
    <3>3. wg = 0 => \A t \in Tasks : status[t] \in {"new", "dropped", "done"}
      BY <3>1, <3>2 DEF IndInv, TypeOK, Statuses, Counted, InDo
    <3>4. wg = 0 => running = 0
      <4>1. wg = 0 => Live = {}
        BY <3>3 DEF Live
      <4> QED
        BY <2>2, <4>1, Counting DEF IndInv, CountersExact
    <3> QED
      BY <1>8, <3>1, <3>3, <3>4
         DEF IndInv, TypeOK, RunWait, QuietAfterClose, DisciplineSuffices, Over,
             Crashed, IsRunning
  <2> QED
    BY <2>3, <2>4, <2>5, <2>6, <2>7, <2>8, <2>9, <2>10 DEF IndInv
<1>9. ASSUME NEW r \in Runners, RunWake(r)
      PROVE  IndInv'
  <2>1. Counted \in SUBSET Tasks /\ Counted' = Counted
    BY <1>9 DEF IndInv, RunWake, Counted
  <2>2. Live \in SUBSET Tasks /\ Live' = Live
    BY <1>9 DEF IndInv, RunWake, Live
  <2>3. CountersExact'
    BY <1>9, <2>1, <2>2, Counting DEF IndInv, TypeOK, RunWake, CountersExact
  <2>4. TypeOK'
    BY <1>9 DEF IndInv, TypeOK, RunWake, Statuses
  <2>5. PlacesSound'
    BY <1>9 DEF IndInv, RunWake, PlacesSound
  <2>6. ExecutedOnce'
    BY <1>9 DEF IndInv, RunWake, ExecutedOnce
  <2>7. ClosingSound' /\ OneCloser'
    BY <1>9 DEF IndInv, RunWake, ClosingSound, OneCloser
  <2>8. RunWaitsForOwed'
    BY <1>9, <2>1, Counting
       DEF IndInv, TypeOK, RunWake, ClosingSound, OneCloser, RunWaitsForOwed, Over,
           Counted, CountersExact
  <2>9. QuietAfterClose' /\ ReleaseSound'
    BY <1>9 DEF IndInv, RunWake, QuietAfterClose, ReleaseSound, InDo
  <2>10. DisciplineSuffices'
    <3> SUFFICES ASSUME ~raced PROVE DisciplineSuffices'
      BY <1>9 DEF RunWake, DisciplineSuffices
    <3>1. closed /\ \A t \in Tasks : ~InDo(t)
      BY <1>9 DEF IndInv, ClosingSound, QuietAfterClose, RunWake
    <3>2. wg = 0 => Counted = {}
      BY <2>1, Counting DEF IndInv, CountersExact
    <3>3. wg = 0 => \A t \in Tasks : status[t] \in {"new", "dropped", "done"}
      BY <3>1, <3>2 DEF IndInv, TypeOK, Statuses, Counted, InDo
    <3>4. wg = 0 => running = 0
      <4>1. wg = 0 => Live = {}
        BY <3>3 DEF Live
      <4> QED
        BY <2>2, <4>1, Counting DEF IndInv, CountersExact
    <3> QED
      BY <1>9, <3>1, <3>3, <3>4
         DEF IndInv, TypeOK, RunWake, QuietAfterClose, DisciplineSuffices, Over,
             Crashed, IsRunning
  <2> QED
    BY <2>3, <2>4, <2>5, <2>6, <2>7, <2>8, <2>9, <2>10 DEF IndInv
<1>10. ASSUME NEW r \in Runners, RunCloseQueue(r)
      PROVE  IndInv'
  <2>1. Counted \in SUBSET Tasks /\ Counted' = Counted
    BY <1>10 DEF IndInv, RunCloseQueue, Counted
  <2>2. Live \in SUBSET Tasks /\ Live' = Live
    BY <1>10 DEF IndInv, RunCloseQueue, Live
  <2>3. CountersExact'
    BY <1>10, <2>1, <2>2, Counting DEF IndInv, TypeOK, RunCloseQueue, CountersExact
  <2>4. TypeOK'
    BY <1>10 DEF IndInv, TypeOK, RunCloseQueue, Statuses
  <2>5. PlacesSound'
    BY <1>10 DEF IndInv, RunCloseQueue, PlacesSound
  <2>6. ExecutedOnce'
    BY <1>10 DEF IndInv, RunCloseQueue, ExecutedOnce
  <2>7. ClosingSound' /\ OneCloser'
    BY <1>10 DEF IndInv, TypeOK, RunCloseQueue, ClosingSound, OneCloser
  <2>8. RunWaitsForOwed'
    BY <1>10 DEF IndInv, RunCloseQueue, RunWaitsForOwed, Over
  <2>9. QuietAfterClose' /\ ReleaseSound'
    BY <1>10 DEF IndInv, RunCloseQueue, QuietAfterClose, ReleaseSound, InDo
  <2>10. DisciplineSuffices'
    BY <1>10 DEF IndInv, RunCloseQueue, DisciplineSuffices, Over, Crashed, IsRunning
  <2> QED
    BY <2>3, <2>4, <2>5, <2>6, <2>7, <2>8, <2>9, <2>10 DEF IndInv
<1>11. ASSUME NEW w \in Workers, Receive(w)
      PROVE  IndInv'
  <2>0. PICK t \in Tasks : t = Head(queue) /\ t = queue[1] /\ status[t] = "queued"
    BY <1>11 DEF IndInv, TypeOK, PlacesSound, Receive
  <2>1. Counted \in SUBSET Tasks /\ Counted' = Counted
    BY <1>11, <2>0 DEF IndInv, Receive, Counted
  <2>2. Live \in SUBSET Tasks /\ Live' = Live
    BY <1>11, <2>0 DEF IndInv, Receive, Live
  <2>3. CountersExact'
    BY <1>11, <2>0, <2>1, <2>2, Counting DEF IndInv, TypeOK, Receive, CountersExact
  <2>4. TypeOK'
    BY <1>11 DEF IndInv, TypeOK, Receive, Statuses
  <2>5. PlacesSound'
    <3>1. \A i \in DOMAIN queue' : /\ i \in Nat /\ i + 1 \in DOMAIN queue
                                  /\ i + 1 # 1 /\ queue'[i] = queue[i + 1]
      BY <1>11 DEF IndInv, TypeOK, Receive
    <3>2. \A i, j \in DOMAIN queue' : queue'[i] = queue'[j] => i = j
      BY <3>1 DEF IndInv, PlacesSound
    <3>3. \A i \in DOMAIN queue' : queue'[i] # t /\ status[queue'[i]] = "queued"
      BY <1>11, <2>0, <3>1 DEF IndInv, TypeOK, PlacesSound, Receive
    <3>4. \A i \in DOMAIN queue' : status'[queue'[i]] = "queued"
      BY <1>11, <2>0, <3>3 DEF Receive
    <3>5. \A v \in Workers : worker[v] = "busy" => job[v] # t
      BY <2>0 DEF IndInv, PlacesSound
    <3>6. \A v \in Workers :
            worker'[v] = "busy" => /\ job'[v] \in Tasks
                                   /\ status'[job'[v]] \in {"taken", "ran", "uncounted"}
      BY <1>11, <2>0, <3>5 DEF IndInv, TypeOK, Receive, PlacesSound
    <3>7. \A v, u \in Workers :
            worker'[v] = "busy" /\ worker'[u] = "busy" /\ job'[v] = job'[u] => v = u
      BY <1>11, <2>0, <3>5 DEF IndInv, TypeOK, Receive, PlacesSound
    <3> QED
      BY <3>2, <3>4, <3>6, <3>7 DEF PlacesSound
  <2>6. ExecutedOnce'
    BY <1>11, <2>0 DEF IndInv, Receive, ExecutedOnce
  <2>7. ClosingSound' /\ OneCloser'
    BY <1>11 DEF IndInv, Receive, ClosingSound, OneCloser
  <2>8. RunWaitsForOwed'
    BY <1>11, <2>0 DEF IndInv, Receive, RunWaitsForOwed, Over
  <2>9. QuietAfterClose' /\ ReleaseSound'
    BY <1>11 DEF IndInv, Receive, QuietAfterClose, ReleaseSound, InDo
  <2>10. DisciplineSuffices'
    BY <1>11, <2>0 DEF IndInv, Receive, DisciplineSuffices, Over, Crashed, IsRunning
  <2> QED
    BY <2>3, <2>4, <2>5, <2>6, <2>7, <2>8, <2>9, <2>10 DEF IndInv
<1>12. ASSUME NEW w \in Workers, Exit(w)
      PROVE  IndInv'
  <2>1. Counted \in SUBSET Tasks /\ Counted' = Counted
    BY <1>12 DEF IndInv, Exit, Counted
  <2>2. Live \in SUBSET Tasks /\ Live' = Live
    BY <1>12 DEF IndInv, Exit, Live
  <2>3. CountersExact'
    BY <1>12, <2>1, <2>2, Counting DEF IndInv, TypeOK, Exit, CountersExact
  <2>4. TypeOK'
    BY <1>12 DEF IndInv, TypeOK, Exit, Statuses
  <2>5. PlacesSound'
    BY <1>12 DEF IndInv, Exit, PlacesSound
  <2>6. ExecutedOnce'
    BY <1>12 DEF IndInv, Exit, ExecutedOnce
  <2>7. ClosingSound' /\ OneCloser'
    BY <1>12 DEF IndInv, Exit, ClosingSound, OneCloser
  <2>8. RunWaitsForOwed'
    BY <1>12 DEF IndInv, Exit, RunWaitsForOwed, Over
  <2>9. QuietAfterClose' /\ ReleaseSound'
    BY <1>12 DEF IndInv, Exit, QuietAfterClose, ReleaseSound, InDo
  <2>10. DisciplineSuffices'
    BY <1>12 DEF IndInv, Exit, DisciplineSuffices, Over, Crashed, IsRunning
  <2> QED
    BY <2>3, <2>4, <2>5, <2>6, <2>7, <2>8, <2>9, <2>10 DEF IndInv
<1>13. ASSUME NEW w \in Workers, Execute(w)
      PROVE  IndInv'
  <2>0. PICK t \in Tasks : t = job[w]
    BY <1>13 DEF IndInv, PlacesSound, Execute
  <2>1. Counted \in SUBSET Tasks /\ Counted' = Counted
    BY <1>13, <2>0 DEF IndInv, Execute, Move, AfterTask, Counted
  <2>2. Live \in SUBSET Tasks /\ Live' = Live
    BY <1>13, <2>0 DEF IndInv, Execute, Move, AfterTask, Live
  <2>3. CountersExact'
    BY <1>13, <2>0, <2>1, <2>2, Counting DEF IndInv, TypeOK, Execute, CountersExact
  <2>4. TypeOK'
    BY <1>13, <2>0 DEF IndInv, TypeOK, Execute, Move, AfterTask, Statuses
  <2>5. PlacesSound'
    BY <1>13, <2>0 DEF IndInv, Execute, Move, AfterTask, PlacesSound
  <2>6. ExecutedOnce'
    BY <1>13, <2>0 DEF IndInv, TypeOK, Execute, Move, AfterTask, ExecutedOnce
  <2>7. ClosingSound' /\ OneCloser'
    BY <1>13, <2>0 DEF IndInv, Execute, Move, AfterTask, ClosingSound, OneCloser
  <2>8. RunWaitsForOwed'
    BY <1>13, <2>0 DEF IndInv, Execute, Move, AfterTask, RunWaitsForOwed, Over
  <2>9. QuietAfterClose' /\ ReleaseSound'
    BY <1>13, <2>0
       DEF IndInv, Execute, Move, AfterTask, QuietAfterClose, ReleaseSound, InDo
  <2>10. DisciplineSuffices'
    BY <1>13, <2>0
       DEF IndInv, Execute, Move, AfterTask, DisciplineSuffices, Over, Crashed,
           IsRunning
  <2> QED
    BY <2>3, <2>4, <2>5, <2>6, <2>7, <2>8, <2>9, <2>10 DEF IndInv
<1>14. ASSUME NEW w \in Workers, Uncount(w)
      PROVE  IndInv'
  <2>0. PICK t \in Tasks : t = job[w]
    BY <1>14 DEF IndInv, PlacesSound, Uncount
  <2>1. Counted \in SUBSET Tasks /\ Counted' = Counted
    BY <1>14, <2>0 DEF IndInv, Uncount, Move, Counted
  <2>2. Live \in SUBSET Tasks /\ t \in Live /\ Live' = Live \ {t}
    BY <1>14, <2>0 DEF IndInv, TypeOK, Uncount, Move, Live
  <2>3. CountersExact'
    BY <1>14, <2>0, <2>1, <2>2, Counting DEF IndInv, TypeOK, Uncount, CountersExact
  <2>4. TypeOK'
    BY <1>14, <2>0, <2>1, <2>2, Counting
       DEF IndInv, TypeOK, CountersExact, Uncount, Move, Statuses
  <2>5. PlacesSound'
    BY <1>14, <2>0 DEF IndInv, Uncount, Move, PlacesSound
  <2>6. ExecutedOnce'
    BY <1>14, <2>0 DEF IndInv, Uncount, Move, ExecutedOnce
  <2>7. ClosingSound' /\ OneCloser'
    BY <1>14, <2>0 DEF IndInv, Uncount, Move, ClosingSound, OneCloser
  <2>8. RunWaitsForOwed'
    BY <1>14, <2>0 DEF IndInv, Uncount, Move, RunWaitsForOwed, Over
  <2>9. QuietAfterClose' /\ ReleaseSound'
    BY <1>14, <2>0 DEF IndInv, Uncount, Move, QuietAfterClose, ReleaseSound, InDo
  <2>10. DisciplineSuffices'
    BY <1>14, <2>0
       DEF IndInv, Uncount, Move, DisciplineSuffices, Over, Crashed, IsRunning
  <2> QED
    BY <2>3, <2>4, <2>5, <2>6, <2>7, <2>8, <2>9, <2>10 DEF IndInv
<1>15. ASSUME NEW w \in Workers, Done(w)
      PROVE  IndInv'
  <2>0. PICK t \in Tasks : t = job[w]
    BY <1>15 DEF IndInv, PlacesSound, Done
  <2>1. Counted \in SUBSET Tasks /\ t \in Counted /\ Counted' = Counted \ {t}
    BY <1>15, <2>0 DEF IndInv, TypeOK, Done, Move, Counted
  <2>2. Live \in SUBSET Tasks /\ Live' = Live
    BY <1>15, <2>0 DEF IndInv, Done, Move, Live
  <2>3. CountersExact'
    BY <1>15, <2>0, <2>1, <2>2, Counting DEF IndInv, TypeOK, Done, CountersExact
  <2>4. TypeOK'
    BY <1>15, <2>0, <2>1, <2>2, Counting
       DEF IndInv, TypeOK, CountersExact, Done, Move, Statuses
  <2>5. PlacesSound'
    BY <1>15, <2>0 DEF IndInv, TypeOK, Done, Move, PlacesSound
  <2>6. ExecutedOnce'
    BY <1>15, <2>0 DEF IndInv, Done, Move, ExecutedOnce
  <2>7. ClosingSound' /\ OneCloser'
    BY <1>15, <2>0 DEF IndInv, Done, Move, ClosingSound, OneCloser
  <2>8. RunWaitsForOwed'
    BY <1>15, <2>0 DEF IndInv, Done, Move, RunWaitsForOwed, Over
  <2>9. QuietAfterClose' /\ ReleaseSound'
    <3>1. wg > 0
      BY <2>1, Counting DEF IndInv, CountersExact
    <3>2. HasWaiter => closed
      BY DEF IndInv, ClosingSound, HasWaiter
    <3>3. /\ worker'[w] = "release" => wg' = 0 /\ closed
          /\ worker'[w] # "crashed"
          /\ \A v \in Workers \ {w} : worker'[v] = worker[v]
      BY <1>15, <3>1, <3>2 DEF IndInv, TypeOK, Done
    <3>4. ReleaseSound'
      BY <1>15, <3>3 DEF IndInv, Done, ReleaseSound
    <3>5. QuietAfterClose'
      <4> SUFFICES ASSUME ~raced, closed PROVE QuietAfterClose'
        BY <1>15 DEF Done, QuietAfterClose
      <4>1. \A u \in Tasks : ~InDo(u)'
        BY <1>15, <2>0 DEF IndInv, TypeOK, Done, Move, QuietAfterClose, InDo
      <4>2. /\ \A v \in Workers : worker[v] # "release"
            /\ \A r \in Runners : run[r] \notin {"woken", "closing", "returned"}
        BY <3>1 DEF IndInv, TypeOK, QuietAfterClose
      <4> QED
        BY <1>15, <3>3, <4>1, <4>2 DEF Done, QuietAfterClose
    <3> QED
      BY <3>4, <3>5
  <2>10. DisciplineSuffices'
    BY <1>15, <2>0 DEF IndInv, Done, Move, DisciplineSuffices, Over, Crashed, IsRunning
  <2> QED
    BY <2>3, <2>4, <2>5, <2>6, <2>7, <2>8, <2>9, <2>10 DEF IndInv
<1>16. ASSUME NEW w \in Workers, Wake(w)
      PROVE  IndInv'
  <2>1. Counted \in SUBSET Tasks /\ Counted' = Counted
    BY <1>16 DEF IndInv, Wake, Counted
  <2>2. Live \in SUBSET Tasks /\ Live' = Live
    BY <1>16 DEF IndInv, Wake, Live
  <2>3. CountersExact'
    BY <1>16, <2>1, <2>2, Counting DEF IndInv, TypeOK, Wake, CountersExact
  <2>4. TypeOK'
    <3>1. CASE wg # 0
      BY <1>16, <3>1 DEF IndInv, TypeOK, Wake
    <3>2. CASE wg = 0
      BY <1>16, <3>2 DEF IndInv, TypeOK, Wake
    <3> QED
      BY <3>1, <3>2
  <2>5. PlacesSound'
    <3>1. \A v \in Workers : worker'[v] = "busy" <=> worker[v] = "busy"
      BY <1>16 DEF IndInv, TypeOK, Wake
    <3> QED
      BY <1>16, <3>1 DEF IndInv, Wake, PlacesSound
  <2>6. ExecutedOnce'
    BY <1>16 DEF IndInv, Wake, ExecutedOnce
  <2>7. ClosingSound' /\ OneCloser'
    <3>1. /\ \A r \in Runners : run'[r] \in {"new", "noop"} <=> run[r] \in {"new", "noop"}
          /\ \A r \in Runners : run'[r] = "returned" <=> run[r] = "returned"
      BY <1>16 DEF IndInv, TypeOK, Wake
    <3> QED
      BY <1>16, <3>1 DEF IndInv, Wake, ClosingSound, OneCloser
  <2>8. RunWaitsForOwed'
    BY <1>16 DEF IndInv, Wake, RunWaitsForOwed, Over
  <2>9. QuietAfterClose' /\ ReleaseSound'
    BY <1>16 DEF IndInv, Wake, QuietAfterClose, ReleaseSound, InDo
  <2>10. DisciplineSuffices'
    BY <1>16, <2>1, <2>2, <2>3, <2>4, <2>9, Counting
       DEF IndInv, TypeOK, Wake, ClosingSound, QuietAfterClose, ReleaseSound,
           DisciplineSuffices, InDo, Over, Crashed, IsRunning, HasWaiter
  <2> QED
    BY <2>3, <2>4, <2>5, <2>6, <2>7, <2>8, <2>9, <2>10 DEF IndInv
<1>17. ASSUME NEW w \in Workers, Goexit(w)
      PROVE  IndInv'
  <2>0. PICK t \in Tasks : t = job[w]
    BY <1>17 DEF IndInv, PlacesSound, Goexit
  <2>1. Counted \in SUBSET Tasks /\ Counted' = Counted
    BY <1>17, <2>0 DEF IndInv, Goexit, Move, Counted
  <2>2. Live \in SUBSET Tasks /\ Live' = Live
    BY <1>17, <2>0 DEF IndInv, Goexit, Move, Live
  <2>3. CountersExact'
    BY <1>17, <2>0, <2>1, <2>2, Counting DEF IndInv, TypeOK, Goexit, CountersExact
  <2>4. TypeOK'
    BY <1>17, <2>0 DEF IndInv, TypeOK, Goexit, Move, Statuses
  <2>5. PlacesSound'
    BY <1>17, <2>0 DEF IndInv, TypeOK, Goexit, Move, PlacesSound
  <2>6. ExecutedOnce'
    BY <1>17, <2>0 DEF IndInv, TypeOK, Goexit, Move, ExecutedOnce
  <2>7. ClosingSound' /\ OneCloser'
    BY <1>17, <2>0 DEF IndInv, Goexit, Move, ClosingSound, OneCloser
  <2>8. RunWaitsForOwed'
    BY <1>17, <2>0 DEF IndInv, Goexit, Move, RunWaitsForOwed, Over
  <2>9. QuietAfterClose' /\ ReleaseSound'
    BY <1>17, <2>0
       DEF IndInv, Goexit, Move, QuietAfterClose, ReleaseSound, InDo
  <2>10. DisciplineSuffices'
    BY <1>17, <2>0
       DEF IndInv, Goexit, Move, DisciplineSuffices, Over, Crashed,
           IsRunning
  <2> QED
    BY <2>3, <2>4, <2>5, <2>6, <2>7, <2>8, <2>9, <2>10 DEF IndInv
<1>18. CASE UNCHANGED vars
  <2>1. Counted' = Counted /\ Live' = Live
    BY <1>18 DEF vars, Counted, Live
  <2> QED
    BY <1>18, <2>1
       DEF vars, IndInv, TypeOK, PlacesSound, CountersExact, ExecutedOnce,
           ClosingSound, OneCloser, RunWaitsForOwed, QuietAfterClose, ReleaseSound,
           DisciplineSuffices, InDo, Over, Crashed, IsRunning
<1> QED
  BY <1>1, <1>2, <1>3, <1>4, <1>5, <1>6, <1>7, <1>8, <1>9, <1>10, <1>11, <1>12,
     <1>13, <1>14, <1>15, <1>16, <1>17, <1>18
     DEF Next, DoStep, RunStep, WorkerStep

\* Every reachable state of the pool satisfies the inductive invariant.
THEOREM PoolInvariant == Spec => []IndInv
  BY InitIndInv, StepIndInv, PTL DEF Spec

\* The WaitGroup counter and the count behind IsRunning are exact at every
\* moment, however Do calls, workers, panicking tasks and Run calls interleave.
THEOREM PoolCountersExact == Spec => []CountersExact
<1>1. IndInv => CountersExact
  BY DEF IndInv
<1> QED
  BY PoolInvariant, <1>1, PTL

\* No task function is called twice, and every task that is over was called.
THEOREM PoolExecutesOnce == Spec => []ExecutedOnce
<1>1. IndInv => ExecutedOnce
  BY DEF IndInv
<1> QED
  BY PoolInvariant, <1>1, PTL

\* Run does not get past its Wait while a task it owes is not over.
THEOREM PoolRunWaits == Spec => []RunWaitsForOwed
<1>1. IndInv => RunWaitsForOwed
  BY DEF IndInv
<1> QED
  BY PoolInvariant, <1>1, PTL

\* With every Do back before Run is called, the pool never crashes and a Run
\* that has returned leaves nothing undone.
THEOREM PoolDiscipline == Spec => []DisciplineSuffices
<1>1. IndInv => DisciplineSuffices
  BY DEF IndInv
<1> QED
  BY PoolInvariant, <1>1, PTL

\* However many goroutines call Run, one of them closes the queue.
THEOREM PoolOneCloser == Spec => []OneCloser
<1>1. IndInv => OneCloser
  BY DEF IndInv
<1> QED
  BY PoolInvariant, <1>1, PTL
==============================================================================
