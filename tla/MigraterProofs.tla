---------------------------- MODULE MigraterProofs ----------------------------
(***************************************************************************)
(* For any number of Runs, files, ids, faults and edits: the Migrater      *)
(* keeps IndInv, hence its safety properties.  One lemma per conjunct of   *)
(* the invariant.                                                          *)
(***************************************************************************)
EXTENDS Migrater, FiniteSetTheorems, TLAPS

\* A step of Run r.
RunStep(r) == CreateTable(r) \/ Step(r) \/ Trouble(r)

(***************************************************************************)
(* What a step may change                                                  *)
(***************************************************************************)
\* The list is written by collectFiles only.
LEMMA ListSteps ==
    ASSUME [Next]_vars
    PROVE  \/ list' = list
           \/ \E r \in Runs, s \in Sorted(dir) :
                /\ pc[r] = "collect" /\ ~Duplicate(dir)
                /\ list' = [list EXCEPT ![r] = s]
                /\ UNCHANGED <<rows, pos, tx>>
  BY DEF Next, CreateTable, Step, Probe, Alter, Reprobe, LoadApplied, CollectFiles,
         RunReturns, SkipUnnumbered, SkipApplied, ReadFile, BeginTx, ExecMigration,
         InsertRow, Commit, Trouble, ProbeFails, CallFails, CommitAmbiguous,
         PanicInApply, Crash, Edit, At, vars, dbVars

\* The database's rows are written by a commit only.
LEMMA RowSteps ==
    ASSUME [Next]_vars
    PROVE  \/ UNCHANGED <<rows, effect, ran>>
           \/ \E r \in Runs : pc[r] = "commit" /\ CommitTx(r)
  BY DEF Next, CreateTable, Step, Probe, Alter, Reprobe, LoadApplied, CollectFiles,
         RunReturns, SkipUnnumbered, SkipApplied, ReadFile, BeginTx, ExecMigration,
         InsertRow, Commit, Trouble, ProbeFails, CallFails, CommitAmbiguous,
         PanicInApply, Crash, Edit, At, vars, dbVars

\* A Run gets on in its list by skipping a file or by committing one.
LEMMA PosSteps ==
    ASSUME [Next]_vars
    PROVE  \/ pos' = pos
           \/ \E r \in Runs : SkipUnnumbered(r) \/ SkipApplied(r) \/ Commit(r)
  BY DEF Next, CreateTable, Step, Probe, Alter, Reprobe, LoadApplied, CollectFiles,
         RunReturns, ReadFile, BeginTx, ExecMigration, InsertRow, Trouble, ProbeFails,
         CallFails, CommitAmbiguous, PanicInApply, Crash, Edit, vars

\* The snapshot and the latest skip are written by loadApplied and by a skip.
LEMMA SnapshotSteps ==
    ASSUME [Next]_vars
    PROVE  \/ UNCHANGED <<applied, check>>
           \/ \E r \in Runs : LoadApplied(r) \/ SkipApplied(r)
  BY DEF Next, CreateTable, Step, Probe, Alter, Reprobe, CollectFiles, RunReturns,
         SkipUnnumbered, ReadFile, BeginTx, ExecMigration, InsertRow, Commit, Trouble,
         ProbeFails, CallFails, CommitAmbiguous, PanicInApply, Crash, Edit, vars

\* The column, once there, stays.
LEMMA TableSteps ==
    ASSUME [Next]_vars, table = "new"
    PROVE  table' = "new"
  BY DEF Next, CreateTable, Step, Probe, Alter, Reprobe, LoadApplied, CollectFiles,
         RunReturns, SkipUnnumbered, SkipApplied, ReadFile, BeginTx, ExecMigration,
         InsertRow, Commit, CommitTx, Trouble, ProbeFails, CallFails, CommitAmbiguous,
         PanicInApply, Crash, Edit, vars, dbVars

\* A file in a list has an id, or none.
LEMMA ListedTyped ==
    ASSUME TypeOK, NEW r \in Runs, NEW i \in DOMAIN list[r]
    PROVE  list[r][i] \in Files /\ Id[list[r][i]] \in Ids \cup {NoId}
<1>1. list[r] \in Seq(Files)
  BY DEF TypeOK
<1>2. list[r][i] \in Files
  BY <1>1
<1> QED
  BY <1>2, FilesNumbered

\* A Run that is at a file is within its list.
LEMMA CurrentTyped ==
    ASSUME TypeOK, NEW r \in Runs, More(r)
    PROVE  /\ pos[r] \in DOMAIN list[r] /\ Current(r) \in Files
           /\ CurrentId(r) \in Ids \cup {NoId}
<1>1. list[r] \in Seq(Files) /\ pos[r] \in Nat \ {0} /\ pos[r] <= Len(list[r])
  BY DEF TypeOK, More
<1>2. pos[r] \in DOMAIN list[r]
  BY <1>1
<1> QED
  BY <1>2, ListedTyped DEF Current, CurrentId

\* A transaction is not None.
LEMMA TxApart ==
    ASSUME NEW a \in BOOLEAN, NEW b \in BOOLEAN
    PROVE  [sql |-> a, row |-> b] # None
  BY NoneApart DEF Transactions

\* What a commit writes: one row that was not there, its effect and the bytes.
LEMMA CommitWrites ==
    ASSUME IndInv, NEW r \in Runs, pc[r] = "commit", CommitTx(r)
    PROVE  /\ CurrentId(r) \in Ids /\ read[r] \in Contents /\ HoldsRow(r)
           /\ rows[CurrentId(r)] = None
           /\ rows' = [rows EXCEPT ![CurrentId(r)] = Hash(read[r])]
           /\ effect' = [effect EXCEPT ![CurrentId(r)] = @ + 1]
           /\ ran' = [ran EXCEPT ![CurrentId(r)] = read[r]]
           /\ tx' = [tx EXCEPT ![r] = None]
<1>1. TypeOK /\ TxSound(r) /\ PlaceSound(r)
  BY DEF IndInv, RunInv
<1>2. /\ tx[r] = [sql |-> TRUE, row |-> TRUE] /\ tx[r] # None
      /\ More(r) /\ CurrentId(r) # NoId /\ read[r] # None
  <2>1. tx[r] = [sql |-> TRUE, row |-> TRUE]
    BY <1>1 DEF TxSound
  <2>2. tx[r] # None
    BY <2>1, TxApart
  <2> QED
    BY <1>1, <2>1, <2>2 DEF PlaceSound, Applying
<1>3. CurrentId(r) \in Ids /\ read[r] \in Contents
  BY <1>1, <1>2, CurrentTyped DEF TypeOK
<1>4. HoldsRow(r) /\ rows[CurrentId(r)] = None
  BY <1>1, <1>2 DEF HoldsRow, TxSound
<1> QED
  BY <1>2, <1>3, <1>4 DEF CommitTx

\* A row that is in the table stays as it is, and so do the bytes it came from.
LEMMA RowsKept ==
    ASSUME IndInv, [Next]_vars, NEW id \in Ids, rows[id] # None
    PROVE  rows'[id] = rows[id] /\ ran'[id] = ran[id]
<1>1. ASSUME NEW r \in Runs, pc[r] = "commit", CommitTx(r)
      PROVE  rows'[id] = rows[id] /\ ran'[id] = ran[id]
  BY <1>1, CommitWrites DEF IndInv, TypeOK
<1> QED
  BY <1>1, RowSteps

(***************************************************************************)
(* The conjuncts of the invariant, one by one                              *)
(***************************************************************************)
\* Normalising gives bytes, with or without a hash around them.
LEMMA HashTyped ==
    ASSUME NEW c \in Contents
    PROVE  Hash(c) \in Contents /\ Hash(c) # None /\ Hash(c) # NoHash
  BY NoneApart DEF Hash, Normalise, Contents

\* A commit adds a row, its effect and its bytes together.
LEMMA StepDbExact ==
    ASSUME IndInv, [Next]_vars, NEW id \in Ids
    PROVE  DbExact(id)'
<1>1. /\ TypeOK /\ DbExact(id) /\ effect \in [Ids -> Nat]
      /\ rows \in [Ids -> Hashes \cup {None}] /\ ran \in [Ids -> Contents \cup {None}]
  BY DEF IndInv, TypeOK
<1>2. CASE UNCHANGED <<rows, effect, ran>>
  BY <1>1, <1>2 DEF DbExact
<1>3. ASSUME NEW r \in Runs, pc[r] = "commit", CommitTx(r)
      PROVE  DbExact(id)'
  <2>1. CASE id = CurrentId(r)
    <3>1. /\ rows'[id] = Hash(read[r]) /\ effect'[id] = effect[id] + 1
          /\ ran'[id] = read[r] /\ rows[id] = None /\ read[r] \in Contents
      BY <1>1, <1>3, <2>1, CommitWrites
    <3>2. Hash(read[r]) # None /\ read[r] # None
      BY <3>1, HashTyped, NoneApart
    <3> QED
      BY <1>1, <3>1, <3>2 DEF DbExact
  <2>2. CASE id # CurrentId(r)
    <3>1. rows'[id] = rows[id] /\ effect'[id] = effect[id] /\ ran'[id] = ran[id]
      BY <1>1, <1>3, <2>2, CommitWrites
    <3> QED
      BY <1>1, <3>1 DEF DbExact
  <2> QED
    BY <2>1, <2>2
<1> QED
  BY <1>2, <1>3, RowSteps

\* A list that has been collected is in order and without clashes.
LEMMA StepListSound ==
    ASSUME IndInv, [Next]_vars, NEW d \in Runs
    PROVE  ListSound(d)'
<1>1. TypeOK /\ ListSound(d) /\ dir \subseteq Files
  BY DEF IndInv, RunInv, TypeOK
<1>2. CASE list'[d] = list[d]
  BY <1>1, <1>2 DEF ListSound
<1>3. ASSUME NEW s \in Sorted(dir), ~Duplicate(dir), list'[d] = s
      PROVE  ListSound(d)'
  <2> SUFFICES ASSUME NEW i \in DOMAIN s, NEW j \in DOMAIN s, i < j
               PROVE  Before(s[i], s[j]) /\ (Id[s[i]] = Id[s[j]] => Id[s[i]] = NoId)
    BY <1>3 DEF ListSound
  <2>1. Before(s[i], s[j]) /\ s[i] \in dir /\ s[j] \in dir
    BY DEF Sorted
  <2>2. s[i] # s[j]
    <3>1. ASSUME NEW f \in Files
          PROVE  ~Before(f, f)
      <4>1. numericKey(f) \in Int /\ f \in Int
        BY FilesNumbered, BoundsNat DEF numericKey
      <4> QED
        BY <4>1 DEF Before
    <3> QED
      BY <1>1, <2>1, <3>1
  <2> QED
    BY <1>3, <2>1, <2>2 DEF Duplicate
<1>4. list \in [Runs -> Seq(Files)]
  BY <1>1 DEF TypeOK
<1> QED
  BY <1>2, <1>3, <1>4, ListSteps

\* A snapshot, and what a skip has compared, stay right: rows do not change.
LEMMA StepSnapshotSound ==
    ASSUME IndInv, [Next]_vars, NEW d \in Runs
    PROVE  SnapshotSound(d)'
<1>1. /\ TypeOK /\ SnapshotSound(d) /\ applied \in [Runs -> [Ids -> Hashes \cup {None}]]
      /\ check \in [Runs -> Checks \cup {None}]
  BY DEF IndInv, RunInv, TypeOK
<1>2. ASSUME applied'[d] = applied[d]
      PROVE  \A id \in Ids : applied'[d][id] # None => applied'[d][id] = rows'[id]
  BY <1>1, <1>2, RowsKept DEF SnapshotSound
<1>3. ASSUME check'[d] = check[d], check[d] # None
      PROVE  /\ rows'[check'[d].id] # None
             /\ check'[d].drift <=> Drifted(rows[check[d].id], check[d].bytes)'
  <2>1. check[d].id \in Ids
    BY <1>1, <1>3 DEF Checks
  <2>2. rows[check[d].id] # None /\ rows'[check[d].id] = rows[check[d].id]
    BY <1>1, <1>3, <2>1, RowsKept DEF SnapshotSound
  <2> QED
    BY <1>1, <1>3, <2>2 DEF SnapshotSound, Drifted
<1>4. CASE applied'[d] = applied[d] /\ check'[d] = check[d]
  BY <1>2, <1>3, <1>4 DEF SnapshotSound
<1>5. CASE LoadApplied(d)
  <2>1. applied'[d] = rows /\ rows' = rows /\ check' = check
    BY <1>1, <1>5 DEF LoadApplied, dbVars
  <2> QED
    BY <1>3, <2>1 DEF SnapshotSound
<1>6. CASE SkipApplied(d)
  <2>1. /\ applied' = applied /\ rows' = rows /\ More(d) /\ CurrentId(d) # NoId
        /\ applied[d][CurrentId(d)] # None
        /\ check' = [check EXCEPT ![d] =
             [id |-> CurrentId(d), bytes |-> content[Current(d)],
              drift |-> Drifted(applied[d][CurrentId(d)], content[Current(d)])]]
    BY <1>6 DEF SkipApplied, dbVars
  <2>2. CurrentId(d) \in Ids
    BY <1>1, <2>1, CurrentTyped
  <2>3. applied[d][CurrentId(d)] = rows[CurrentId(d)]
    BY <1>1, <2>1, <2>2 DEF SnapshotSound
  <2>4. /\ check'[d].id = CurrentId(d) /\ check'[d].bytes = content[Current(d)]
        /\ check'[d].drift = Drifted(rows[CurrentId(d)], content[Current(d)])
    BY <1>1, <2>1, <2>3
  <2> QED
    BY <1>2, <2>1, <2>3, <2>4 DEF SnapshotSound, Drifted
<1>7. ASSUME NEW r \in Runs \ {d}, LoadApplied(r) \/ SkipApplied(r)
      PROVE  applied'[d] = applied[d] /\ check'[d] = check[d]
  BY <1>1, <1>7 DEF LoadApplied, SkipApplied
<1> QED
  BY <1>4, <1>5, <1>6, <1>7, SnapshotSteps

\* A file is left behind when it is no migration, is applied, or has been committed.
LEMMA StepBehindApplied ==
    ASSUME IndInv, [Next]_vars, NEW d \in Runs
    PROVE  BehindApplied(d)'
<1>1. /\ TypeOK /\ BehindApplied(d) /\ PlaceSound(d) /\ SnapshotSound(d)
      /\ list \in [Runs -> Seq(Files)] /\ pos \in [Runs -> Nat \ {0}]
  BY DEF IndInv, RunInv, TypeOK
<1>2. ASSUME list'[d] = list[d], NEW i \in DOMAIN list[d],
             i < pos[d], Id[list[d][i]] # NoId
      PROVE  rows'[Id[list[d][i]]] # None
  <2>1. Id[list[d][i]] \in Ids /\ rows[Id[list[d][i]]] # None
    BY <1>1, <1>2, ListedTyped DEF BehindApplied
  <2> QED
    BY <2>1, RowsKept
<1>3. CASE pos'[d] = pos[d] /\ list'[d] = list[d]
  BY <1>2, <1>3 DEF BehindApplied
<1>4. CASE pos'[d] = pos[d] /\ pc[d] = "collect"
  <2>1. pos'[d] = 1
    BY <1>1, <1>4 DEF PlaceSound
  <2>2. ASSUME NEW s \in Sorted(dir), list' = [list EXCEPT ![d] = s]
        PROVE  BehindApplied(d)'
    <3>1. list'[d] = s /\ DOMAIN s = 1 .. Cardinality(dir)
      BY <1>1, <2>2 DEF Sorted
    <3>2. \A i \in DOMAIN list'[d] : ~(i < pos'[d])
      BY <2>1, <3>1
    <3> QED
      BY <3>2 DEF BehindApplied
  <2>3. CASE list'[d] = list[d]
    BY <1>3, <1>4, <2>3
  <2> QED
    BY <1>1, <2>2, <2>3, ListSteps
<1>5. ASSUME pos'[d] = pos[d] + 1, list' = list, More(d),
             CurrentId(d) # NoId => rows'[CurrentId(d)] # None
      PROVE  BehindApplied(d)'
  <2> SUFFICES ASSUME NEW i \in DOMAIN list[d], i < pos[d] + 1, Id[list[d][i]] # NoId
               PROVE  rows'[Id[list[d][i]]] # None
    BY <1>5 DEF BehindApplied
  <2>1. i \in Nat /\ pos[d] \in Nat
    BY <1>1
  <2>2. CASE i < pos[d]
    BY <1>2, <1>5, <2>2
  <2>3. CASE i = pos[d]
    BY <1>5, <2>3 DEF CurrentId, Current
  <2> QED
    BY <2>1, <2>2, <2>3
<1>6. CASE SkipUnnumbered(d)
  <2>1. pos'[d] = pos[d] + 1 /\ list' = list /\ More(d) /\ CurrentId(d) = NoId
    BY <1>1, <1>6 DEF SkipUnnumbered
  <2> QED
    BY <1>5, <2>1
<1>7. CASE SkipApplied(d)
  <2>1. /\ pos'[d] = pos[d] + 1 /\ list' = list /\ rows' = rows /\ More(d)
        /\ CurrentId(d) # NoId /\ applied[d][CurrentId(d)] # None
    BY <1>1, <1>7 DEF SkipApplied, dbVars
  <2>2. CurrentId(d) \in Ids
    BY <1>1, <2>1, CurrentTyped
  <2>3. rows[CurrentId(d)] # None
    BY <1>1, <2>1, <2>2 DEF SnapshotSound
  <2> QED
    BY <1>5, <2>1, <2>3
<1>8. CASE Commit(d)
  <2>1. pos'[d] = pos[d] + 1 /\ list' = list /\ pc[d] = "commit" /\ CommitTx(d)
    BY <1>1, <1>8 DEF Commit, At
  <2>2. More(d)
    BY <1>1, <2>1 DEF PlaceSound, Applying
  <2>3. /\ CurrentId(d) \in Ids /\ read[d] \in Contents
        /\ rows' = [rows EXCEPT ![CurrentId(d)] = Hash(read[d])]
    BY <2>1, CommitWrites
  <2>4. rows'[CurrentId(d)] # None
    BY <1>1, <2>3, HashTyped DEF TypeOK
  <2> QED
    BY <1>5, <2>1, <2>2, <2>4
<1>9. ASSUME NEW r \in Runs \ {d}, SkipUnnumbered(r) \/ SkipApplied(r) \/ Commit(r)
      PROVE  pos'[d] = pos[d] /\ list' = list
  BY <1>1, <1>9 DEF SkipUnnumbered, SkipApplied, Commit
<1>10. CASE pos' = pos
  <2>1. list'[d] = list[d] \/ pc[d] = "collect"
    BY <1>1, ListSteps
  <2> QED
    BY <1>3, <1>4, <1>10, <2>1
<1> QED
  BY <1>3, <1>6, <1>7, <1>8, <1>9, <1>10, PosSteps

\* What a step does to the transactions of the Runs.
LEMMA TxSteps ==
    ASSUME TypeOK, [Next]_vars
    PROVE  \/ tx' = tx
           \/ \E r \in Runs :
                /\ list' = list
                /\ pos' = pos \/ Commit(r)
                /\ \/ tx' = [tx EXCEPT ![r] = None]
                   \/ BeginTx(r)
                   \/ ExecMigration(r)
                   \/ InsertRow(r) /\ ~Conflict(r)
  BY DEF Next, CreateTable, Step, Probe, Alter, Reprobe, LoadApplied, CollectFiles,
         RunReturns, SkipUnnumbered, SkipApplied, ReadFile, BeginTx, ExecMigration,
         InsertRow, Commit, CommitTx, Trouble, ProbeFails, CallFails, CommitAmbiguous,
         PanicInApply, Crash, Edit, vars

\* A Run whose transaction has inserted a row after a step is at the file it was at
\* before, and had inserted it before or does so now.
LEMMA HeldStays ==
    ASSUME IndInv, [Next]_vars, NEW d \in Runs, HoldsRow(d)'
    PROVE  /\ CurrentId(d)' = CurrentId(d)
           /\ HoldsRow(d) \/ (InsertRow(d) /\ ~Conflict(d))
<1>1. /\ TypeOK /\ TxSound(d) /\ tx \in [Runs -> Transactions \cup {None}]
      /\ pos \in [Runs -> Nat \ {0}] /\ list \in [Runs -> Seq(Files)]
      /\ tx'[d] # None /\ tx'[d].row
  BY DEF IndInv, RunInv, TypeOK, HoldsRow
<1>2. CASE tx' = tx
  <2>1. HoldsRow(d) /\ pc[d] \in {"exec", "insert", "commit", "panicked"}
    BY <1>1, <1>2 DEF HoldsRow, TxSound
  <2>2. list'[d] = list[d]
    BY <1>1, <2>1, ListSteps
  <2>3. pos'[d] = pos[d]
    <3>1. ~Commit(d)
      BY <1>1, <1>2 DEF Commit, CommitTx
    <3> QED
      BY <1>1, <2>1, <3>1, PosSteps DEF SkipUnnumbered, SkipApplied, Commit
  <2> QED
    BY <2>1, <2>2, <2>3 DEF CurrentId, Current
<1>3. ASSUME NEW r \in Runs, list' = list, pos' = pos \/ Commit(r),
             \/ tx' = [tx EXCEPT ![r] = None] \/ BeginTx(r) \/ ExecMigration(r)
             \/ InsertRow(r) /\ ~Conflict(r)
      PROVE  /\ CurrentId(d)' = CurrentId(d)
             /\ HoldsRow(d) \/ (InsertRow(d) /\ ~Conflict(d))
  <2>1. CASE d # r
    <3>1. tx'[d] = tx[d]
      BY <1>1, <1>3, <2>1 DEF BeginTx, ExecMigration, InsertRow
    <3>2. pos'[d] = pos[d]
      BY <1>1, <1>3, <2>1 DEF Commit
    <3> QED
      BY <1>1, <1>3, <3>1, <3>2 DEF CurrentId, Current, HoldsRow
  <2>2. CASE d = r
    <3>1. ~Commit(d)
      BY <1>1 DEF Commit, CommitTx
    <3>2. tx' # [tx EXCEPT ![d] = None]
      BY <1>1
    <3>3. ~BeginTx(d)
      BY <1>1 DEF BeginTx
    <3>4. ~ExecMigration(d)
      <4>1. SUFFICES ASSUME ExecMigration(d) PROVE FALSE
        OBVIOUS
      <4>2. pc[d] = "exec" /\ tx' = [tx EXCEPT ![d] = [sql |-> TRUE, row |-> tx[d].row]]
        BY <4>1 DEF ExecMigration, At
      <4>3. tx[d] = [sql |-> FALSE, row |-> FALSE]
        BY <1>1, <4>2 DEF TxSound
      <4> QED
        BY <1>1, <4>2, <4>3
    <3> QED
      BY <1>3, <2>2, <3>1, <3>2, <3>3, <3>4 DEF CurrentId, Current
  <2> QED
    BY <2>1, <2>2
<1> QED
  BY <1>1, <1>2, <1>3, TxSteps

\* A row is inserted only when no other transaction has inserted it.
LEMMA StepRowsApart ==
    ASSUME IndInv, [Next]_vars
    PROVE  RowsApart'
<1> SUFFICES ASSUME NEW q \in Runs, NEW r \in Runs, HoldsRow(q)', HoldsRow(r)',
                    CurrentId(q)' = CurrentId(r)', q # r
             PROVE  FALSE
  BY DEF RowsApart
<1>1. /\ CurrentId(q) = CurrentId(r)
      /\ HoldsRow(q) \/ (InsertRow(q) /\ ~Conflict(q))
      /\ HoldsRow(r) \/ (InsertRow(r) /\ ~Conflict(r))
  BY HeldStays
<1>2. RowsApart /\ TypeOK
  BY DEF IndInv
<1>3. ASSUME NEW a \in Runs, NEW b \in Runs, a # b, InsertRow(a), HoldsRow(b)'
      PROVE  HoldsRow(b) /\ CurrentId(a) # CurrentId(b)
  <2>1. tx'[b] = tx[b]
    BY <1>2, <1>3 DEF TypeOK, InsertRow
  <2> QED
    BY <1>3, <2>1 DEF HoldsRow, InsertRow, InsertBlocked
<1> QED
  BY <1>1, <1>2, <1>3 DEF RowsApart

\* The row that an open transaction has inserted does not get into the table before
\* the transaction commits.
LEMMA StepHeldFree ==
    ASSUME IndInv, [Next]_vars, NEW d \in Runs, HoldsRow(d)'
    PROVE  rows'[CurrentId(d)'] = None
<1>1. /\ TypeOK /\ RowsApart /\ TxSound(d) /\ CurrentId(d)' = CurrentId(d)
      /\ HoldsRow(d) \/ (InsertRow(d) /\ ~Conflict(d))
  BY HeldStays DEF IndInv, RunInv
<1>2. rows[CurrentId(d)] = None
  BY <1>1 DEF TxSound, Conflict
<1>3. ASSUME NEW r \in Runs, pc[r] = "commit", CommitTx(r)
      PROVE  rows'[CurrentId(d)] = None
  <2>1. /\ CurrentId(r) \in Ids /\ HoldsRow(r) /\ tx' = [tx EXCEPT ![r] = None]
        /\ rows' = [rows EXCEPT ![CurrentId(r)] = Hash(read[r])]
    BY <1>3, CommitWrites
  <2>2. r # d
    BY <1>1, <2>1 DEF HoldsRow, TypeOK
  <2>3. HoldsRow(d)
    BY <1>1, <2>1, <2>2 DEF HoldsRow, TypeOK
  <2>4. CurrentId(d) # CurrentId(r)
    BY <1>1, <2>1, <2>2, <2>3 DEF RowsApart
  <2> QED
    BY <1>1, <1>2, <2>1, <2>4 DEF TypeOK
<1> QED
  BY <1>1, <1>2, <1>3, RowSteps

\* Where a Run stands agrees with its transaction, its list and what has failed it.
Placed(r) ==
    /\ pc[r] = "exec" => tx[r] = [sql |-> FALSE, row |-> FALSE]
    /\ pc[r] = "insert" => tx[r] = [sql |-> TRUE, row |-> FALSE]
    /\ pc[r] = "commit" => tx[r] = [sql |-> TRUE, row |-> TRUE]
    /\ tx[r] # None => /\ pc[r] \in {"exec", "insert", "commit", "panicked"}
                       /\ More(r) /\ CurrentId(r) # NoId
    /\ PlaceSound(r)

\* A step of one Run leaves the place of another.
LEMMA OthersPlaced ==
    ASSUME TypeOK, [Next]_vars, NEW r \in Runs, RunStep(r), NEW d \in Runs \ {r}, Placed(d)
    PROVE  Placed(d)'
<1>1. /\ pc'[d] = pc[d] /\ tx'[d] = tx[d] /\ pos'[d] = pos[d] /\ list'[d] = list[d]
      /\ read'[d] = read[d] /\ faulted'[d] = faulted[d]
  <2>1. CASE CreateTable(r)
    BY <2>1 DEF TypeOK, CreateTable, At, faultVars
  <2>2. CASE Probe(r)
    BY <2>2 DEF TypeOK, Probe, At, faultVars
  <2>3. CASE Alter(r)
    BY <2>3 DEF TypeOK, Alter, At, faultVars
  <2>4. CASE Reprobe(r)
    BY <2>4 DEF TypeOK, Reprobe, At, faultVars
  <2>5. CASE LoadApplied(r)
    BY <2>5 DEF TypeOK, LoadApplied, At, faultVars
  <2>6. CASE CollectFiles(r)
    BY <2>6 DEF TypeOK, CollectFiles, At, faultVars
  <2>7. CASE RunReturns(r)
    BY <2>7 DEF TypeOK, RunReturns, At, faultVars
  <2>8. CASE SkipUnnumbered(r)
    BY <2>8 DEF TypeOK, SkipUnnumbered, faultVars
  <2>9. CASE SkipApplied(r)
    BY <2>9 DEF TypeOK, SkipApplied, faultVars
  <2>10. CASE ReadFile(r)
    BY <2>10 DEF TypeOK, ReadFile, At, faultVars
  <2>11. CASE BeginTx(r)
    BY <2>11 DEF TypeOK, BeginTx, At, faultVars
  <2>12. CASE ExecMigration(r)
    BY <2>12 DEF TypeOK, ExecMigration, At, faultVars
  <2>13. CASE InsertRow(r)
    BY <2>13 DEF TypeOK, InsertRow, faultVars
  <2>14. CASE Commit(r)
    BY <2>14 DEF TypeOK, Commit, At, CommitTx, faultVars
  <2>15. CASE ProbeFails(r)
    BY <2>15 DEF TypeOK, ProbeFails, At, Fault
  <2>16. CASE CallFails(r)
    BY <2>16 DEF TypeOK, CallFails, Fault
  <2>17. CASE CommitAmbiguous(r)
    BY <2>17 DEF TypeOK, CommitAmbiguous, At, CommitTx, Fault
  <2>18. CASE PanicInApply(r)
    BY <2>18 DEF TypeOK, PanicInApply, At, Fault
  <2>19. CASE Crash(r)
    BY <2>19 DEF TypeOK, Crash, Fault
  <2> QED
    BY <2>1, <2>2, <2>3, <2>4, <2>5, <2>6, <2>7, <2>8, <2>9, <2>10,
       <2>11, <2>12, <2>13, <2>14, <2>15, <2>16, <2>17, <2>18, <2>19
       DEF RunStep, Step, Trouble
<1>2. table = "new" => table' = "new"
  BY TableSteps
<1> QED
  BY <1>1, <1>2 DEF Placed, PlaceSound, More, CurrentId, Current, HasColumn

\* A step of a Run leaves that Run in its place.
LEMMA SelfPlaced ==
    ASSUME TypeOK, NEW r \in Runs, RunStep(r), Placed(r)
    PROVE  Placed(r)'
<1> USE DEF Placed, PlaceSound, More, CurrentId, Current, Applying
<1>1. CASE CreateTable(r)
  <2>1. /\ pc[r] = "idle" /\ pc'[r] = "probe" /\ UNCHANGED <<tx, pos, list, read>>
    BY <1>1 DEF TypeOK, CreateTable, At
  <2> QED
    BY <2>1
<1>2. CASE Probe(r)
  <2>1. /\ pc[r] = "probe" /\ pc'[r] \in {"load", "alter"}
        /\ UNCHANGED <<tx, pos, list, read>>
    BY <1>2 DEF TypeOK, Probe, At
  <2> QED
    BY <2>1
<1>3. CASE Alter(r)
  <2>1. /\ pc[r] = "alter" /\ pc'[r] \in {"load", "reprobe"} /\ table' = "new"
        /\ UNCHANGED <<tx, pos, list, read>>
    BY <1>3 DEF TypeOK, Alter, At
  <2> QED
    BY <2>1 DEF HasColumn
<1>4. CASE Reprobe(r)
  <2>1. /\ pc[r] = "reprobe" /\ UNCHANGED <<tx, pos, list, read, faulted>>
        /\ pc'[r] = (IF HasColumn THEN "load" ELSE "ensure failed")
    BY <1>4 DEF TypeOK, Reprobe, At, faultVars
  <2> QED
    BY <2>1
<1>5. CASE LoadApplied(r)
  <2>1. /\ pc[r] = "load" /\ pc'[r] = "collect" /\ UNCHANGED <<tx, pos, list, read>>
    BY <1>5 DEF TypeOK, LoadApplied, At
  <2> QED
    BY <2>1
<1>6. CASE CollectFiles(r)
  <2>1. /\ pc[r] = "collect" /\ pc'[r] \in {"failed", "file"} /\ UNCHANGED <<tx, pos, read>>
    BY <1>6 DEF TypeOK, CollectFiles, At
  <2> QED
    BY <2>1
<1>7. CASE RunReturns(r)
  <2>1. /\ pc[r] = "file" /\ pc'[r] = "ok" /\ ~More(r) /\ UNCHANGED <<tx, pos, list, read>>
    BY <1>7 DEF TypeOK, RunReturns, At
  <2> QED
    BY <2>1
<1>8. CASE SkipUnnumbered(r)
  <2>1. /\ pc[r] = "file" /\ pc'[r] = "file" /\ UNCHANGED <<tx, read>>
    BY <1>8 DEF TypeOK, SkipUnnumbered
  <2> QED
    BY <2>1
<1>9. CASE SkipApplied(r)
  <2>1. /\ pc[r] = "file" /\ pc'[r] = "file" /\ UNCHANGED <<tx, read>>
    BY <1>9 DEF TypeOK, SkipApplied
  <2> QED
    BY <2>1
<1>10. CASE ReadFile(r)
  <2>1. /\ pc[r] = "file" /\ pc'[r] = "begin" /\ More(r) /\ CurrentId(r) # NoId
        /\ read'[r] = content[Current(r)] /\ UNCHANGED <<tx, pos, list>>
    BY <1>10 DEF TypeOK, ReadFile, At
  <2>2. read'[r] # None
    <3>1. Current(r) \in Files
      BY <2>1, CurrentTyped
    <3> QED
      BY <2>1, <3>1, NoneApart DEF TypeOK
  <2> QED
    BY <2>1, <2>2
<1>11. CASE BeginTx(r)
  <2>1. /\ pc[r] = "begin" /\ pc'[r] = "exec" /\ UNCHANGED <<pos, list, read>>
        /\ tx'[r] = [sql |-> FALSE, row |-> FALSE]
    BY <1>11 DEF TypeOK, BeginTx, At
  <2> QED
    BY <2>1
<1>12. CASE ExecMigration(r)
  <2>1. /\ pc[r] = "exec" /\ pc'[r] = "insert" /\ UNCHANGED <<pos, list, read>>
        /\ tx'[r] = [sql |-> TRUE, row |-> tx[r].row]
    BY <1>12 DEF TypeOK, ExecMigration, At
  <2>2. tx[r] = [sql |-> FALSE, row |-> FALSE]
    BY <2>1
  <2>3. tx'[r] = [sql |-> TRUE, row |-> FALSE]
    BY <2>1, <2>2
  <2>4. More(r) /\ CurrentId(r) # NoId /\ read[r] # None
    BY <2>1
  <2> QED
    BY <2>1, <2>3, <2>4
<1>13. CASE InsertRow(r)
  <2>1. /\ pc[r] = "insert" /\ UNCHANGED <<pos, list>>
        /\ \/ pc'[r] = "failed" /\ tx'[r] = None
           \/ /\ pc'[r] = "commit" /\ tx'[r] = [sql |-> tx[r].sql, row |-> TRUE]
              /\ read'[r] = read[r]
    BY <1>13 DEF TypeOK, InsertRow
  <2>2. tx[r] = [sql |-> TRUE, row |-> FALSE]
    BY <2>1
  <2>3. CASE pc'[r] = "failed"
    BY <2>1, <2>3
  <2>4. CASE pc'[r] = "commit"
    <3>1. tx'[r] = [sql |-> TRUE, row |-> TRUE]
      BY <2>1, <2>2, <2>4
    <3>2. More(r) /\ CurrentId(r) # NoId /\ read[r] # None
      BY <2>1
    <3> QED
      BY <2>1, <2>4, <3>1, <3>2
  <2> QED
    BY <2>1, <2>3, <2>4
<1>14. CASE Commit(r)
  <2>1. /\ pc[r] = "commit" /\ pc'[r] = "file" /\ tx'[r] = None
    BY <1>14 DEF TypeOK, Commit, At, CommitTx
  <2> QED
    BY <2>1
<1>15. CASE ProbeFails(r)
  <2>1. /\ pc[r] \in {"probe", "alter"} /\ pc'[r] \in {"alter", "reprobe"}
        /\ faulted'[r] = TRUE /\ UNCHANGED <<tx, pos, list, read>>
    BY <1>15 DEF TypeOK, ProbeFails, At, Fault
  <2> QED
    BY <2>1
<1>16. CASE CallFails(r)
  <2>1. /\ pc'[r] \in {"failed", "ensure failed"} /\ faulted'[r] = TRUE
        /\ tx'[r] = None
    BY <1>16 DEF TypeOK, CallFails, Fault, FailurePlace
  <2> QED
    BY <2>1
<1>17. CASE CommitAmbiguous(r)
  <2>1. /\ pc'[r] = "failed" /\ tx'[r] = None
    BY <1>17 DEF TypeOK, CommitAmbiguous, At, CommitTx
  <2> QED
    BY <2>1
<1>18. CASE PanicInApply(r)
  <2>1. /\ pc[r] \in {"exec", "insert", "commit"} /\ pc'[r] = "panicked"
        /\ UNCHANGED <<tx, pos, list>>
    BY <1>18 DEF TypeOK, PanicInApply, At
  <2> QED
    BY <2>1
<1>19. CASE Crash(r)
  <2>1. /\ pc'[r] = "crashed" /\ tx'[r] = None
    BY <1>19 DEF TypeOK, Crash
  <2> QED
    BY <2>1
<1> QED
  BY <1>1, <1>2, <1>3, <1>4, <1>5, <1>6, <1>7, <1>8, <1>9, <1>10,
     <1>11, <1>12, <1>13, <1>14, <1>15, <1>16, <1>17, <1>18, <1>19
     DEF RunStep, Step, Trouble

\* Every step leaves every Run in its place.
LEMMA StepPlaced ==
    ASSUME IndInv, [Next]_vars, NEW d \in Runs
    PROVE  TxSound(d)' /\ PlaceSound(d)'
<1>1. TypeOK /\ Placed(d)
  BY DEF IndInv, RunInv, TxSound, Placed
<1>2. CASE \E r \in Runs : RunStep(r)
  <2>1. PICK r \in Runs : RunStep(r)
    BY <1>2
  <2>2. ASSUME r = d
        PROVE  Placed(d)'
    <3>1. RunStep(d)
      BY <2>1, <2>2
    <3> QED
      BY <1>1, <3>1, SelfPlaced
  <2>3. ASSUME r # d
        PROVE  Placed(d)'
    <3>1. d \in Runs \ {r}
      BY <2>3
    <3> QED
      BY <1>1, <2>1, <3>1, OthersPlaced
  <2>4. Placed(d)'
    BY <2>2, <2>3
  <2> QED
    BY <2>4, StepHeldFree DEF Placed, TxSound
<1>3. CASE Edit \/ UNCHANGED vars
  <2>1. UNCHANGED <<pc, tx, pos, list, read, faulted, table>>
    BY <1>3 DEF Edit, vars, dbVars, faultVars
  <2>2. Placed(d)'
    BY <1>1, <2>1 DEF Placed, PlaceSound, More, CurrentId, Current, HasColumn
  <2> QED
    BY <2>2, StepHeldFree DEF Placed, TxSound
<1> QED
  BY <1>2, <1>3 DEF Next, RunStep
\* A sorted directory is a list of files.
LEMMA SortedTyped ==
    ASSUME TypeOK, NEW s \in Sorted(dir)
    PROVE  s \in Seq(Files)
<1>1. dir \subseteq Files /\ Cardinality(dir) \in Nat
  BY FilesNumbered, FS_Subset, FS_CardinalityType DEF TypeOK
<1>2. s \in [1 .. Cardinality(dir) -> Files]
  BY <1>1 DEF Sorted
<1> QED
  BY <1>1, <1>2

\* The database and the files keep their types.
LEMMA StepStoreTyped ==
    ASSUME IndInv, [Next]_vars
    PROVE  /\ table' \in {"absent", "old", "new"}
           /\ rows' \in [Ids -> Hashes \cup {None}] /\ effect' \in [Ids -> Nat]
           /\ ran' \in [Ids -> Contents \cup {None}]
           /\ dir' \subseteq Files /\ content' \in [Files -> Contents]
           /\ edits' \in 0 .. MaxEdits
<1>1. /\ TypeOK /\ table \in {"absent", "old", "new"}
      /\ rows \in [Ids -> Hashes \cup {None}] /\ effect \in [Ids -> Nat]
      /\ ran \in [Ids -> Contents \cup {None}]
      /\ dir \subseteq Files /\ content \in [Files -> Contents]
      /\ edits \in 0 .. MaxEdits
  BY DEF IndInv, TypeOK
<1>2. table' \in {"absent", "old", "new"}
  BY <1>1 DEF Next, CreateTable, Step, Probe, Alter, Reprobe, LoadApplied, CollectFiles,
         RunReturns, SkipUnnumbered, SkipApplied, ReadFile, BeginTx, ExecMigration,
         InsertRow, Commit, CommitTx, Trouble, ProbeFails, CallFails, CommitAmbiguous,
         PanicInApply, Crash, Edit, vars, dbVars
<1>3. /\ rows' \in [Ids -> Hashes \cup {None}] /\ effect' \in [Ids -> Nat]
      /\ ran' \in [Ids -> Contents \cup {None}]
  <2>1. ASSUME NEW r \in Runs, pc[r] = "commit", CommitTx(r)
        PROVE  /\ rows' \in [Ids -> Hashes \cup {None}] /\ effect' \in [Ids -> Nat]
               /\ ran' \in [Ids -> Contents \cup {None}]
    <3>1. /\ read[r] \in Contents /\ Hash(read[r]) \in Contents
          /\ rows' = [rows EXCEPT ![CurrentId(r)] = Hash(read[r])]
          /\ effect' = [effect EXCEPT ![CurrentId(r)] = @ + 1] /\ CurrentId(r) \in Ids
          /\ ran' = [ran EXCEPT ![CurrentId(r)] = read[r]]
      BY <2>1, CommitWrites, HashTyped
    <3>2. effect' \in [Ids -> Nat]
      <4>1. effect[CurrentId(r)] + 1 \in Nat
        BY <1>1, <3>1
      <4> QED
        BY <1>1, <3>1, <4>1
    <3>3. rows' \in [Ids -> Hashes \cup {None}]
      BY <1>1, <3>1 DEF Hashes
    <3>4. ran' \in [Ids -> Contents \cup {None}]
      BY <1>1, <3>1
    <3> QED
      BY <3>2, <3>3, <3>4
  <2> QED
    BY <1>1, <2>1, RowSteps
<1>4. UNCHANGED fileVars \/ Edit
  BY DEF Next, CreateTable, Step, Probe, Alter, Reprobe, LoadApplied, CollectFiles,
         RunReturns, SkipUnnumbered, SkipApplied, ReadFile, BeginTx, ExecMigration,
         InsertRow, Commit, Trouble, ProbeFails, CallFails, CommitAmbiguous,
         PanicInApply, Crash, vars
<1>5. dir' \subseteq Files /\ content' \in [Files -> Contents] /\ edits' \in 0 .. MaxEdits
  <2>1. CASE UNCHANGED fileVars
    BY <1>1, <2>1 DEF fileVars
  <2>2. CASE Edit
    BY <1>1, <2>2, BoundsNat DEF Edit
  <2> QED
    BY <1>4, <2>1, <2>2
<1> QED
  BY <1>2, <1>3, <1>5

\* What a Run holds keeps its type.
LEMMA StepListTyped ==
    ASSUME IndInv, [Next]_vars
    PROVE  /\ applied' \in [Runs -> [Ids -> Hashes \cup {None}]]
           /\ check' \in [Runs -> Checks \cup {None}]
           /\ list' \in [Runs -> Seq(Files)] /\ pos' \in [Runs -> Nat \ {0}]
<1>1. /\ TypeOK /\ rows \in [Ids -> Hashes \cup {None}]
      /\ applied \in [Runs -> [Ids -> Hashes \cup {None}]]
      /\ check \in [Runs -> Checks \cup {None}] /\ content \in [Files -> Contents]
      /\ list \in [Runs -> Seq(Files)] /\ pos \in [Runs -> Nat \ {0}]
  BY DEF IndInv, TypeOK
<1>2. list' \in [Runs -> Seq(Files)]
  BY <1>1, ListSteps, SortedTyped
<1>3. pos' \in [Runs -> Nat \ {0}]
  <2>1. ASSUME NEW r \in Runs, SkipUnnumbered(r) \/ SkipApplied(r) \/ Commit(r)
        PROVE  pos' \in [Runs -> Nat \ {0}]
    <3>1. pos' = [pos EXCEPT ![r] = pos[r] + 1]
      BY <2>1 DEF SkipUnnumbered, SkipApplied, Commit
    <3>2. pos[r] + 1 \in Nat \ {0}
      BY <1>1
    <3> QED
      BY <1>1, <3>1, <3>2
  <2> QED
    BY <1>1, <2>1, PosSteps
<1>4. /\ applied' \in [Runs -> [Ids -> Hashes \cup {None}]]
      /\ check' \in [Runs -> Checks \cup {None}]
  <2>1. ASSUME NEW r \in Runs, LoadApplied(r)
        PROVE  applied' = [applied EXCEPT ![r] = rows] /\ check' = check
    BY <2>1 DEF LoadApplied
  <2>2. ASSUME NEW r \in Runs, SkipApplied(r)
        PROVE  applied' = applied /\ check' \in [Runs -> Checks \cup {None}]
    <3> DEFINE c == content[Current(r)]
               drift == Drifted(applied[r][CurrentId(r)], c)
    <3>1. /\ applied' = applied /\ More(r) /\ CurrentId(r) # NoId
          /\ check' = [check EXCEPT ![r] =
                         [id |-> CurrentId(r), bytes |-> c, drift |-> drift]]
      BY <2>2 DEF SkipApplied
    <3>2. CurrentId(r) \in Ids /\ c \in Contents
      BY <1>1, <3>1, CurrentTyped
    <3>3. drift \in BOOLEAN
      BY DEF Drifted
    <3>4. [id |-> CurrentId(r), bytes |-> c, drift |-> drift] \in Checks
      <4> HIDE DEF c, drift
      <4> QED
        BY <3>2, <3>3 DEF Checks
    <3> QED
      BY <1>1, <3>1, <3>4
  <2> QED
    BY <1>1, <2>1, <2>2, SnapshotSteps
<1> QED
  BY <1>2, <1>3, <1>4
\* So do its place, its transaction, what it has read and what has failed it.
LEMMA StepPlaceTyped ==
    ASSUME IndInv, [Next]_vars
    PROVE  /\ pc' \in [Runs -> {"idle", "probe", "alter", "reprobe", "load", "collect",
                        "file", "begin", "exec", "insert", "commit"} \cup Ended]
           /\ read' \in [Runs -> Contents \cup {None}]
           /\ tx' \in [Runs -> Transactions \cup {None}]
           /\ faulted' \in [Runs -> BOOLEAN] /\ faults' \in 0 .. MaxFaults
<1> DEFINE Places == {"idle", "probe", "alter", "reprobe", "load", "collect",
                      "file", "begin", "exec", "insert", "commit"} \cup Ended
<1>1. /\ TypeOK /\ pc \in [Runs -> Places] /\ content \in [Files -> Contents]
      /\ read \in [Runs -> Contents \cup {None}]
      /\ tx \in [Runs -> Transactions \cup {None}]
      /\ faulted \in [Runs -> BOOLEAN] /\ faults \in 0 .. MaxFaults
  BY DEF IndInv, TypeOK
<1>2. pc' \in [Runs -> Places]
  <2>1. \/ pc' = pc
        \/ \E r \in Runs, p \in Places : pc' = [pc EXCEPT ![r] = p]
    BY DEF Next, CreateTable, Step, Probe, Alter, Reprobe, LoadApplied, CollectFiles,
         RunReturns, SkipUnnumbered, SkipApplied, ReadFile, BeginTx, ExecMigration,
         InsertRow, Commit, CommitTx, Trouble, ProbeFails, CallFails, CommitAmbiguous,
         PanicInApply, Crash, Edit, vars, At, FailurePlace, Ended
  <2> QED
    BY <1>1, <2>1
<1>3. read' \in [Runs -> Contents \cup {None}]
  <2>1. \/ read' = read
        \/ \E r \in Runs : read' = [read EXCEPT ![r] = None] \/ ReadFile(r)
        \/ \E r \in Runs : InsertRow(r)
    BY DEF Next, CreateTable, Step, Probe, Alter, Reprobe, LoadApplied, CollectFiles,
         RunReturns, SkipUnnumbered, SkipApplied, ReadFile, BeginTx, ExecMigration,
         InsertRow, Commit, CommitTx, Trouble, ProbeFails, CallFails, CommitAmbiguous,
         PanicInApply, Crash, Edit, vars
  <2>2. ASSUME NEW r \in Runs, ReadFile(r)
        PROVE  read' \in [Runs -> Contents \cup {None}]
    <3>1. read' = [read EXCEPT ![r] = content[Current(r)]] /\ Current(r) \in Files
      BY <1>1, <2>2, CurrentTyped DEF ReadFile
    <3> QED
      BY <1>1, <3>1
  <2>3. ASSUME NEW r \in Runs, InsertRow(r)
        PROVE  read' \in [Runs -> Contents \cup {None}]
    BY <1>1, <2>3 DEF InsertRow
  <2> QED
    BY <1>1, <2>1, <2>2, <2>3
<1>4. tx' \in [Runs -> Transactions \cup {None}]
  <2>1. ASSUME NEW r \in Runs, NEW x \in Transactions \cup {None},
               tx' = [tx EXCEPT ![r] = x]
        PROVE  tx' \in [Runs -> Transactions \cup {None}]
    BY <1>1, <2>1
  <2>2. ASSUME NEW r \in Runs, BeginTx(r)
        PROVE  tx' \in [Runs -> Transactions \cup {None}]
    <3>1. [sql |-> FALSE, row |-> FALSE] \in Transactions
      BY DEF Transactions
    <3> QED
      BY <2>1, <2>2, <3>1 DEF BeginTx
  <2>3. ASSUME NEW r \in Runs, ExecMigration(r)
        PROVE  tx' \in [Runs -> Transactions \cup {None}]
    <3>1. /\ tx' = [tx EXCEPT ![r] = [sql |-> TRUE, row |-> tx[r].row]]
          /\ tx[r] = [sql |-> FALSE, row |-> FALSE]
      BY <2>3 DEF ExecMigration, At, IndInv, RunInv, TxSound
    <3>2. [sql |-> TRUE, row |-> tx[r].row] \in Transactions
      BY <3>1 DEF Transactions
    <3> QED
      BY <2>1, <3>1, <3>2
  <2>4. ASSUME NEW r \in Runs, InsertRow(r), ~Conflict(r)
        PROVE  tx' \in [Runs -> Transactions \cup {None}]
    <3>1. /\ tx' = [tx EXCEPT ![r] = [sql |-> tx[r].sql, row |-> TRUE]]
          /\ tx[r] = [sql |-> TRUE, row |-> FALSE]
      BY <2>4 DEF InsertRow, IndInv, RunInv, TxSound
    <3>2. [sql |-> tx[r].sql, row |-> TRUE] \in Transactions
      BY <3>1 DEF Transactions
    <3> QED
      BY <2>1, <3>1, <3>2
  <2> QED
    BY <1>1, <2>1, <2>2, <2>3, <2>4, TxSteps
<1>5. faulted' \in [Runs -> BOOLEAN] /\ faults' \in 0 .. MaxFaults
  <2>1. UNCHANGED faultVars \/ \E r \in Runs : Fault(r)
    BY DEF Next, CreateTable, Step, Probe, Alter, Reprobe, LoadApplied, CollectFiles,
         RunReturns, SkipUnnumbered, SkipApplied, ReadFile, BeginTx, ExecMigration,
         InsertRow, Commit, CommitTx, Trouble, ProbeFails, CallFails, CommitAmbiguous,
         PanicInApply, Crash, Edit, vars
  <2>2. ASSUME NEW r \in Runs, Fault(r)
        PROVE  faulted' \in [Runs -> BOOLEAN] /\ faults' \in 0 .. MaxFaults
    BY <1>1, <2>2, BoundsNat DEF Fault
  <2> QED
    BY <1>1, <2>1, <2>2 DEF faultVars
<1> QED
  BY <1>2, <1>3, <1>4, <1>5

(***************************************************************************)
(* The invariant                                                           *)
(***************************************************************************)
\* The initial states satisfy the invariant: a row of an old table has no hash.
LEMMA InitIndInv == Init => IndInv
<1> SUFFICES ASSUME Init
             PROVE  IndInv
  OBVIOUS
<1>1. rows \in [Ids -> {None, NoHash}] /\ table \in {"absent", "old"}
  BY DEF Init, HashOf
<1>2. effect = [id \in Ids |-> IF rows[id] = None THEN 0 ELSE 1] /\ ran = [id \in Ids |-> None]
  BY DEF Init
<1>3. /\ dir \subseteq Files /\ content = [f \in Files |-> [text |-> First, eol |-> "lf"]]
      /\ pc = [r \in Runs |-> "idle"] /\ applied = [r \in Runs |-> [id \in Ids |-> None]]
      /\ list = [r \in Runs |-> <<>>] /\ pos = [r \in Runs |-> 1]
      /\ read = [r \in Runs |-> None] /\ tx = [r \in Runs |-> None]
      /\ check = [r \in Runs |-> None] /\ faulted = [r \in Runs |-> FALSE]
      /\ faults = 0 /\ edits = 0
  BY DEF Init
<1>4. TypeOK
  <2>1. /\ table \in {"absent", "old", "new"} /\ rows \in [Ids -> Hashes \cup {None}]
        /\ effect \in [Ids -> Nat] /\ ran \in [Ids -> Contents \cup {None}]
    BY <1>1, <1>2 DEF Hashes
  <2>2. [text |-> First, eol |-> "lf"] \in Contents
    BY FirstText DEF Contents
  <2>3. dir \subseteq Files /\ content \in [Files -> Contents]
    BY <1>3, <2>2
  <2>4. /\ pc \in [Runs -> {"idle", "probe", "alter", "reprobe", "load", "collect",
                        "file", "begin", "exec", "insert", "commit"} \cup Ended]
        /\ applied \in [Runs -> [Ids -> Hashes \cup {None}]]
        /\ read \in [Runs -> Contents \cup {None}]
        /\ tx \in [Runs -> Transactions \cup {None}]
        /\ check \in [Runs -> Checks \cup {None}] /\ faulted \in [Runs -> BOOLEAN]
    BY <1>3
  <2>5. list \in [Runs -> Seq(Files)] /\ pos \in [Runs -> Nat \ {0}]
    BY <1>3
  <2>6. faults \in 0 .. MaxFaults /\ edits \in 0 .. MaxEdits
    BY <1>3, BoundsNat
  <2> QED
    BY <2>1, <2>3, <2>4, <2>5, <2>6 DEF TypeOK
<1>5. \A id \in Ids : DbExact(id)
  BY <1>1, <1>2 DEF DbExact
<1>6. \A r \in Runs : ~HoldsRow(r)
  BY <1>3 DEF HoldsRow
<1>7. ASSUME NEW r \in Runs
      PROVE  RunInv(r)
  <2>1. TxSound(r) /\ PlaceSound(r)
    BY <1>3, <1>6 DEF TxSound, PlaceSound, Applying
  <2>2. ListSound(r) /\ BehindApplied(r) /\ SnapshotSound(r)
    <3>1. DOMAIN list[r] = {} /\ check[r] = None /\ \A id \in Ids : applied[r][id] = None
      BY <1>3
    <3> QED
      BY <3>1 DEF ListSound, BehindApplied, SnapshotSound
  <2> QED
    BY <2>1, <2>2 DEF RunInv
<1> QED
  BY <1>4, <1>5, <1>6, <1>7 DEF IndInv, RowsApart

\* Every step keeps the invariant.
LEMMA NextIndInv == IndInv /\ [Next]_vars => IndInv'
<1> SUFFICES ASSUME IndInv, [Next]_vars
             PROVE  IndInv'
  OBVIOUS
<1>1. TypeOK'
  BY StepStoreTyped, StepListTyped, StepPlaceTyped DEF TypeOK
<1>2. ASSUME NEW r \in Runs
      PROVE  RunInv(r)'
  BY StepPlaced, StepListSound, StepBehindApplied, StepSnapshotSound DEF RunInv
<1> QED
  BY <1>1, <1>2, StepDbExact, StepRowsApart DEF IndInv

\* IndInv is an invariant of every execution of the Migrater.
THEOREM MigraterInvariant == Spec => []IndInv
  BY InitIndInv, NextIndInv, PTL DEF Spec

\* The types of the Migrater's state hold for any Runs, files and bounds.
THEOREM MigraterTypes == Spec => []TypeOK
<1>1. IndInv => TypeOK
  BY DEF IndInv
<1> QED
  BY <1>1, MigraterInvariant, PTL

\* However many Runs race, fail, die or are told that a commit failed that did not:
\* the SQL of a migration has been committed once if its row is there, else never.
THEOREM MigraterExactlyOnce == Spec => []ExactlyOnce
<1>1. IndInv => ExactlyOnce
  BY DEF IndInv, DbExact, ExactlyOnce
<1> QED
  BY <1>1, MigraterInvariant, PTL

\* A Run only applies a migration when all it has listed with smaller numbers are.
THEOREM MigraterNumericOrder == Spec => []NumericOrder
<1>1. IndInv => NumericOrder
  <2> SUFFICES ASSUME IndInv, NEW r \in Runs, pc[r] \in Applying,
                      NEW i \in DOMAIN list[r], Id[list[r][i]] # NoId,
                      Number[list[r][i]] < Number[Current(r)], Number[list[r][i]] < MaxInt
               PROVE  rows[Id[list[r][i]]] # None
    BY DEF NumericOrder, Applying
  <2>1. /\ TypeOK /\ More(r) /\ CurrentId(r) # NoId /\ ListSound(r) /\ BehindApplied(r)
        /\ list[r] \in Seq(Files) /\ pos[r] \in Nat
    BY DEF IndInv, RunInv, PlaceSound, TypeOK
  <2>2. pos[r] \in DOMAIN list[r] /\ Current(r) \in Files /\ list[r][i] \in Files
    BY <2>1, CurrentTyped, ListedTyped
  <2>3. i < pos[r]
    <3>1. SUFFICES ASSUME ~(i < pos[r]) PROVE FALSE
      OBVIOUS
    <3>2. Number[list[r][i]] \in Nat /\ Number[Current(r)] \in Nat /\ MaxInt \in Nat
      BY <2>2, FilesNumbered, BoundsNat
    <3>3. i # pos[r]
      BY <3>2 DEF Current
    <3>4. Before(Current(r), list[r][i])
      BY <2>1, <2>2, <3>1, <3>3 DEF ListSound, Current
    <3> QED
      BY <2>1, <3>2, <3>4 DEF Before, numericKey, CurrentId
  <2> QED
    BY <2>1, <2>3 DEF BehindApplied
<1> QED
  BY <1>1, MigraterInvariant, PTL

\* A Run that returns nil leaves all it has listed applied, and a Run that has
\* listed one ID twice begins nothing.
THEOREM MigraterSuccessComplete == Spec => []SuccessIsComplete
<1>1. IndInv => SuccessIsComplete
  <2> SUFFICES ASSUME IndInv, NEW r \in Runs
               PROVE  /\ pc[r] = "ok" => \A i \in DOMAIN list[r] :
                           Id[list[r][i]] # NoId => rows[Id[list[r][i]]] # None
                      /\ tx[r] # None => \A i, j \in DOMAIN list[r] :
                           /\ Id[list[r][i]] = Id[list[r][j]]
                           /\ Id[list[r][i]] # NoId
                           => i = j
    BY DEF SuccessIsComplete
  <2>1. /\ PlaceSound(r) /\ BehindApplied(r) /\ ListSound(r)
        /\ list[r] \in Seq(Files) /\ pos[r] \in Nat
    BY DEF IndInv, RunInv, TypeOK
  <2>2. ASSUME pc[r] = "ok", NEW i \in DOMAIN list[r], Id[list[r][i]] # NoId
        PROVE  rows[Id[list[r][i]]] # None
    <3>1. i < pos[r]
      BY <2>1, <2>2 DEF PlaceSound, More
    <3> QED
      BY <2>1, <2>2, <3>1 DEF BehindApplied
  <2>3. ASSUME NEW i \in DOMAIN list[r], NEW j \in DOMAIN list[r],
               Id[list[r][i]] = Id[list[r][j]], Id[list[r][i]] # NoId
        PROVE  i = j
    <3>1. i \in Nat /\ j \in Nat
      BY <2>1
    <3> QED
      BY <2>1, <2>3, <3>1 DEF ListSound
  <2> QED
    BY <2>2, <2>3
<1> QED
  BY <1>1, MigraterInvariant, PTL

\* Runs that race to add the column never make each other's ensureTable fail.
THEOREM MigraterColumnRace == Spec => []ColumnRaceHarmless
<1>1. IndInv => ColumnRaceHarmless
  BY DEF IndInv, RunInv, PlaceSound, ColumnRaceHarmless
<1> QED
  BY <1>1, MigraterInvariant, PTL

\* The code logs drift exactly if a hash is known and the texts differ once their
\* line endings are normalised.
LEMMA DriftExactly ==
    ASSUME IndInv, NEW r \in Runs, check[r] # None
    PROVE  check[r].drift <=> /\ ran[check[r].id] # None
                              /\ Normalise(ran[check[r].id]) # Normalise(check[r].bytes)
<1>1. check[r] \in Checks /\ ran \in [Ids -> Contents \cup {None}]
  BY DEF IndInv, TypeOK
<1>2. check[r].id \in Ids
  BY <1>1 DEF Checks
<1>3. /\ rows[check[r].id] # None /\ DbExact(check[r].id)
      /\ check[r].drift <=> Drifted(rows[check[r].id], check[r].bytes)
  BY <1>2 DEF IndInv, RunInv, SnapshotSound
<1>4. CASE ran[check[r].id] = None
  BY <1>3, <1>4 DEF DbExact, Drifted
<1>5. CASE ran[check[r].id] # None
  <2>1. ran[check[r].id] \in Contents
    BY <1>1, <1>2, <1>5
  <2>2. rows[check[r].id] = Hash(ran[check[r].id]) /\ Hash(ran[check[r].id]) # NoHash
    BY <1>3, <1>5, <2>1, HashTyped DEF DbExact
  <2> QED
    BY <1>3, <1>5, <2>2 DEF Drifted, Hash
<1> QED
  BY <1>4, <1>5

\* No drift is missed when a file's text has changed since it was committed, and none
\* is logged for untouched bytes or for a row without a hash.
THEOREM MigraterDriftReported == Spec => []DriftReported
<1>1. IndInv => DriftReported
  <2> SUFFICES ASSUME IndInv, NEW r \in Runs, check[r] # None
               PROVE  LET was == ran[check[r].id] is == check[r].bytes
                      IN  /\ was # None /\ was.text # is.text => check[r].drift
                          /\ check[r].drift => was # None /\ was # is
    BY DEF DriftReported
  <2>1. check[r] \in Checks /\ ran \in [Ids -> Contents \cup {None}]
    BY DEF IndInv, TypeOK
  <2>2. check[r].id \in Ids /\ check[r].bytes \in Contents
    BY <2>1 DEF Checks
  <2>3. ASSUME ran[check[r].id] # None, ran[check[r].id].text # check[r].bytes.text
        PROVE  Normalise(ran[check[r].id]) # Normalise(check[r].bytes)
    BY <2>1, <2>2, <2>3 DEF Normalise, Contents
  <2> QED
    BY <2>3, DriftExactly
<1> QED
  BY <1>1, MigraterInvariant, PTL

\* Only a panic leaves a transaction open behind a Run that is over: every error
\* return of apply has rolled back.
THEOREM MigraterRollsBack ==
    Spec => [](\A r \in Runs : pc[r] \in Ended \ {"panicked"} => tx[r] = None)
<1>1. IndInv => \A r \in Runs : pc[r] \in Ended \ {"panicked"} => tx[r] = None
  BY DEF IndInv, RunInv, TxSound, Ended
<1> QED
  BY <1>1, MigraterInvariant, PTL
==============================================================================
