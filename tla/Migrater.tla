------------------------------ MODULE Migrater -------------------------------
(***************************************************************************)
(* migrater/migrater.go: Run calls, of one process or several, against one *)
(* database, with migration files that may be edited and added meanwhile.  *)
(* Every database call is a step of its own; it may fail, its process may  *)
(* die before it, and a commit may succeed while its caller is told that   *)
(* it failed.                                                              *)
(*                                                                         *)
(* The database is external.  Of it the model keeps the state table and    *)
(* its column, its rows, how often each migration's SQL has been           *)
(* committed, and the open transactions.  Transactions are atomic; two     *)
(* that insert the same primary key are ordered: the second one waits for  *)
(* the first to end and fails if it has committed.                         *)
(***************************************************************************)
EXTENDS Integers, Sequences, FiniteSets

CONSTANTS Runs,       \* the Run calls
          Files,      \* .sql files, as numbers in the order of their names
          Ids,        \* the strings of digits that name migrations
          NoId,       \* migrationID of a name that starts with no digit
          Id,         \* Id[f]: migrationID(name of f)
          Number,     \* Number[f]: the number Id[f] spells
          MaxInt,     \* math.MaxInt
          Texts,      \* what a file says, line endings aside
          First,      \* what the files say to begin with
          None,       \* no row, no transaction, no content
          NoHash,     \* a NULL content_hash, read as ""
          MaxFaults,  \* bound on failed calls and crashes
          MaxEdits,   \* bound on edits of files
          Panics      \* may the driver, or a log function, panic inside apply?

ASSUME PanicsBoolean == Panics \in BOOLEAN
ASSUME BoundsNat == MaxFaults \in Nat /\ MaxEdits \in Nat /\ MaxInt \in Nat
ASSUME FirstText == First \in Texts
ASSUME NoIdNotId == NoId \notin Ids
ASSUME FilesNumbered == /\ Files \subseteq Nat /\ IsFiniteSet(Files)
                        /\ Id \in [Files -> Ids \cup {NoId}]
                        /\ Number \in [Files -> Nat]

\* A file's bytes: its text, and the line endings it was checked out with.
Contents == [text : Texts, eol : {"lf", "crlf"}]

\* An open transaction: has it executed the SQL, has it inserted the row?
Transactions == [sql : BOOLEAN, row : BOOLEAN]

\* What a skip has compared: the id, the bytes and was drift logged.
Checks == [id : Ids, bytes : Contents, drift : BOOLEAN]

ASSUME NoneApart ==
    /\ None \notin Contents \cup Transactions \cup Checks \cup {NoHash}
    /\ NoHash \notin Contents

\* What the code makes of the bytes before it hashes and executes them.
Normalise(c) == [c EXCEPT !.eol = "lf"]

\* sha256 of the normalised bytes: injective for all the model can tell.
Hash(c) == Normalise(c)

VARIABLES
    table,    \* the state table: absent, old (no content_hash) or new
    rows,     \* its rows: id -> hash, NoHash or None
    effect,   \* how often the SQL of each migration has been committed
    ran,      \* the bytes that were committed, None if unknown (history)
    dir,      \* the files in the migrations directory
    content,  \* their bytes
    pc,       \* where each Run stands
    applied,  \* its snapshot of the rows
    list,     \* its sorted files
    pos,      \* its position in them
    read,     \* the bytes it has read of that file, while it applies it
    tx,       \* its transaction: None, or what it has written so far
    check,    \* its latest skip
    faulted,  \* has the environment failed it? (history)
    faults,   \* faults so far
    edits     \* edits so far

dbVars == <<table, rows, effect, ran>>
fileVars == <<dir, content, edits>>
faultVars == <<faulted, faults>>
vars == <<dbVars, fileVars, faultVars, pc, applied, list, pos, read, tx, check>>

HashOf(id, known) == IF id \in known THEN NoHash ELSE None

Init ==
    /\ \/ table = "absent" /\ rows = [id \in Ids |-> None]
       \/ table = "old" /\ \E known \in SUBSET Ids :
                             rows = [id \in Ids |-> HashOf(id, known)]
    /\ effect = [id \in Ids |-> IF rows[id] = None THEN 0 ELSE 1]
    /\ ran = [id \in Ids |-> None]
    /\ dir \in SUBSET Files
    /\ content = [f \in Files |-> [text |-> First, eol |-> "lf"]]
    /\ pc = [r \in Runs |-> "idle"]
    /\ applied = [r \in Runs |-> [id \in Ids |-> None]]
    /\ list = [r \in Runs |-> <<>>]
    /\ pos = [r \in Runs |-> 1]
    /\ read = [r \in Runs |-> None]
    /\ tx = [r \in Runs |-> None]
    /\ check = [r \in Runs |-> None]
    /\ faulted = [r \in Runs |-> FALSE]
    /\ faults = 0 /\ edits = 0

At(r, here, there) == pc[r] = here /\ pc' = [pc EXCEPT ![r] = there]

HasColumn == table = "new"

(***************************************************************************)
(* ensureTable                                                             *)
(***************************************************************************)
\* CREATE TABLE IF NOT EXISTS, with the column.
CreateTable(r) ==
    /\ At(r, "idle", "probe")
    /\ table' = IF table = "absent" THEN "new" ELSE table
    /\ UNCHANGED <<rows, effect, ran, fileVars, faultVars, applied, list, pos, read,
                   tx, check>>

\* contentHashColumnExists, the first time.
Probe(r) ==
    /\ At(r, "probe", IF HasColumn THEN "load" ELSE "alter")
    /\ UNCHANGED <<dbVars, fileVars, faultVars, applied, list, pos, read, tx, check>>

\* Mutant of Alter: an error of ALTER TABLE is final.
AlterOnce(r) ==
    /\ At(r, "alter", IF HasColumn THEN "ensure failed" ELSE "load")
    /\ table' = "new"
    /\ UNCHANGED <<rows, effect, ran, fileVars, faultVars, applied, list, pos, read,
                   tx, check>>

\* Mutant of Alter: an ALTER TABLE that fails is tried again, not probed for.
AlterRetried(r) ==
    /\ At(r, "alter", IF HasColumn THEN "alter" ELSE "load")
    /\ table' = "new"
    /\ UNCHANGED <<rows, effect, ran, fileVars, faultVars, applied, list, pos, read,
                   tx, check>>

\* ALTER TABLE ADD COLUMN: an error when another Run has just added it.
Alter(r) ==
    /\ At(r, "alter", IF HasColumn THEN "reprobe" ELSE "load")
    /\ table' = "new"
    /\ UNCHANGED <<rows, effect, ran, fileVars, faultVars, applied, list, pos, read,
                   tx, check>>

\* contentHashColumnExists, after a failed ALTER.
Reprobe(r) ==
    /\ At(r, "reprobe", IF HasColumn THEN "load" ELSE "ensure failed")
    /\ UNCHANGED <<dbVars, fileVars, faultVars, applied, list, pos, read, tx, check>>

(***************************************************************************)
(* loadApplied and collectFiles                                            *)
(***************************************************************************)
LoadApplied(r) ==
    /\ At(r, "load", "collect")
    /\ applied' = [applied EXCEPT ![r] = rows]
    /\ UNCHANGED <<dbVars, fileVars, faultVars, list, pos, read, tx, check>>

numericKey(f) ==
    IF Id[f] = NoId THEN 0
    ELSE IF Number[f] > MaxInt THEN MaxInt ELSE Number[f]

\* Mutant of Before: by name only.
BeforeByName(f, g) == f < g

\* The order of sort.Slice: by number, names as a tiebreaker.
Before(f, g) ==
    numericKey(f) < numericKey(g) \/ (numericKey(f) = numericKey(g) /\ f < g)

\* Mutant of Duplicate: IDs are not compared.
DuplicateAllowed(d) == FALSE

Duplicate(d) == \E f, g \in d : f # g /\ Id[f] = Id[g] /\ Id[f] # NoId

\* The files of a directory in that order.
Sorted(d) ==
    {s \in [1 .. Cardinality(d) -> d] : \A i, j \in DOMAIN s : i < j => Before(s[i], s[j])}

CollectFiles(r) ==
    /\ \/ /\ Duplicate(dir)
          /\ At(r, "collect", "failed")
          /\ UNCHANGED list
       \/ /\ ~Duplicate(dir)
          /\ At(r, "collect", "file")
          /\ \E s \in Sorted(dir) : list' = [list EXCEPT ![r] = s]
    /\ UNCHANGED <<dbVars, fileVars, faultVars, applied, pos, read, tx, check>>

(***************************************************************************)
(* applyFile and apply                                                     *)
(***************************************************************************)
Current(r) == list[r][pos[r]]
CurrentId(r) == Id[Current(r)]
More(r) == pos[r] <= Len(list[r])

\* The loop over the files is through: Run returns nil.
RunReturns(r) ==
    /\ At(r, "file", "ok")
    /\ ~More(r)
    /\ UNCHANGED <<dbVars, fileVars, faultVars, applied, list, pos, read, tx, check>>

\* A name without a leading number is no migration.
SkipUnnumbered(r) ==
    /\ pc[r] = "file" /\ More(r)
    /\ CurrentId(r) = NoId
    /\ pos' = [pos EXCEPT ![r] = @ + 1]
    /\ UNCHANGED <<dbVars, fileVars, faultVars, pc, applied, list, read, tx, check>>

\* Mutant of Drifted: a row without a hash is compared like any other.
DriftedUnrecorded(stored, c) == stored # Hash(c)

\* Drift is logged when a hash was recorded and the file's is another one.
Drifted(stored, c) == stored # NoHash /\ stored # Hash(c)

\* The file is in the snapshot: compare hashes, and on to the next.
SkipApplied(r) ==
    /\ pc[r] = "file" /\ More(r)
    /\ CurrentId(r) # NoId
    /\ applied[r][CurrentId(r)] # None
    /\ LET c == content[Current(r)]
       IN  check' = [check EXCEPT ![r] =
                       [id    |-> CurrentId(r), bytes |-> c,
                        drift |-> Drifted(applied[r][CurrentId(r)], c)]]
    /\ pos' = [pos EXCEPT ![r] = @ + 1]
    /\ UNCHANGED <<dbVars, fileVars, faultVars, pc, applied, list, read, tx>>

\* The file is not in the snapshot: what was read now is what is executed.
ReadFile(r) ==
    /\ At(r, "file", "begin")
    /\ More(r)
    /\ CurrentId(r) # NoId
    /\ applied[r][CurrentId(r)] = None
    /\ read' = [read EXCEPT ![r] = content[Current(r)]]
    /\ UNCHANGED <<dbVars, fileVars, faultVars, applied, list, pos, tx, check>>

BeginTx(r) ==
    /\ At(r, "begin", "exec")
    /\ tx' = [tx EXCEPT ![r] = [sql |-> FALSE, row |-> FALSE]]
    /\ UNCHANGED <<dbVars, fileVars, faultVars, applied, list, pos, read, check>>

ExecMigration(r) ==
    /\ At(r, "exec", "insert")
    /\ tx' = [tx EXCEPT ![r] = [sql |-> TRUE, row |-> @.row]]
    /\ UNCHANGED <<dbVars, fileVars, faultVars, applied, list, pos, read, check>>

HoldsRow(r) == tx[r] # None /\ tx[r].row

\* Another open transaction has inserted the row this one wants to insert.
InsertBlocked(r) ==
    \E q \in Runs \ {r} : HoldsRow(q) /\ CurrentId(q) = CurrentId(r)

\* Mutant of Conflict: the ID is not a primary key.
ConflictUnseen(r) == FALSE

\* The primary key: a row that was committed after the snapshot is an error.
Conflict(r) == rows[CurrentId(r)] # None

\* INSERT INTO the state table; on a conflict roll back and return the error.
InsertRow(r) ==
    /\ pc[r] = "insert"
    /\ ~InsertBlocked(r)
    /\ pc' = [pc EXCEPT ![r] = IF Conflict(r) THEN "failed" ELSE "commit"]
    /\ tx' = [tx EXCEPT ![r] = IF Conflict(r) THEN None ELSE [sql |-> @.sql, row |-> TRUE]]
    /\ read' = [read EXCEPT ![r] = IF Conflict(r) THEN None ELSE @]
    /\ UNCHANGED <<dbVars, fileVars, faultVars, applied, list, pos, check>>

\* What the database does when a transaction commits: all it wrote, at once.
CommitTx(r) ==
    LET id == CurrentId(r) IN
    /\ rows' = IF tx[r].row THEN [rows EXCEPT ![id] = Hash(read[r])] ELSE rows
    /\ effect' = IF tx[r].sql THEN [effect EXCEPT ![id] = @ + 1] ELSE effect
    /\ ran' = IF tx[r].sql THEN [ran EXCEPT ![id] = read[r]] ELSE ran
    /\ tx' = [tx EXCEPT ![r] = None]
    /\ UNCHANGED table

Commit(r) ==
    /\ At(r, "commit", "file")
    /\ CommitTx(r)
    /\ pos' = [pos EXCEPT ![r] = @ + 1]
    /\ read' = [read EXCEPT ![r] = None]
    /\ UNCHANGED <<fileVars, faultVars, applied, list, check>>

(***************************************************************************)
(* What goes wrong                                                         *)
(***************************************************************************)
Ended == {"ok", "failed", "ensure failed", "panicked", "crashed"}
Active(r) == pc[r] \notin Ended \cup {"idle"}

Fault(r) ==
    /\ faults < MaxFaults
    /\ faults' = faults + 1
    /\ faulted' = [faulted EXCEPT ![r] = TRUE]

\* A probe that fails for any reason counts as a missing column, and an ALTER
\* that fails for any reason is probed again.
ProbeFails(r) ==
    /\ At(r, "probe", "alter") \/ At(r, "alter", "reprobe")
    /\ Fault(r)
    /\ UNCHANGED <<dbVars, fileVars, applied, list, pos, read, tx, check>>

\* Where an error of the call at a place leads.
FailurePlace(here) == IF here \in {"idle", "reprobe"} THEN "ensure failed" ELSE "failed"

\* Any other call fails: Run rolls back what it has begun and returns the error.
CallFails(r) ==
    /\ pc[r] \in {"idle", "reprobe", "load", "collect", "begin", "exec", "insert",
                  "commit"} \/ (pc[r] = "file" /\ More(r) /\ CurrentId(r) # NoId)
    /\ pc' = [pc EXCEPT ![r] = FailurePlace(pc[r])]
    /\ tx' = [tx EXCEPT ![r] = None]
    /\ Fault(r)
    /\ read' = [read EXCEPT ![r] = None]
    /\ UNCHANGED <<dbVars, fileVars, applied, list, pos, check>>

\* The commit takes effect and its caller is told that it failed.
CommitAmbiguous(r) ==
    /\ At(r, "commit", "failed")
    /\ CommitTx(r)
    /\ Fault(r)
    /\ read' = [read EXCEPT ![r] = None]
    /\ UNCHANGED <<fileVars, applied, list, pos, check>>

\* A panic after BeginTx, the last of them in Commit before it takes effect: Run's
\* deferred recover turns it into an error, and nothing rolls the transaction back.
PanicInApply(r) ==
    /\ Panics
    /\ \E here \in {"exec", "insert", "commit"} : At(r, here, "panicked")
    /\ Fault(r)
    /\ read' = [read EXCEPT ![r] = None]
    /\ UNCHANGED <<dbVars, fileVars, applied, list, pos, tx, check>>

\* The process dies; the database aborts its transaction.
Crash(r) ==
    /\ Active(r)
    /\ pc' = [pc EXCEPT ![r] = "crashed"]
    /\ tx' = [tx EXCEPT ![r] = None]
    /\ Fault(r)
    /\ read' = [read EXCEPT ![r] = None]
    /\ UNCHANGED <<dbVars, fileVars, applied, list, pos, check>>

\* Somebody edits a file, checks it out with other line endings, or adds one.
Edit ==
    /\ edits < MaxEdits
    /\ edits' = edits + 1
    /\ \/ \E f \in dir : \E c \in Contents \ {content[f]} :
            content' = [content EXCEPT ![f] = c] /\ UNCHANGED dir
       \/ \E f \in Files \ dir : dir' = dir \cup {f} /\ UNCHANGED content
    /\ UNCHANGED <<dbVars, faultVars, pc, applied, list, pos, read, tx, check>>

Step(r) ==
    \/ Probe(r) \/ Alter(r) \/ Reprobe(r)
    \/ LoadApplied(r) \/ CollectFiles(r)
    \/ RunReturns(r) \/ SkipUnnumbered(r) \/ SkipApplied(r) \/ ReadFile(r)
    \/ BeginTx(r) \/ ExecMigration(r) \/ InsertRow(r) \/ Commit(r)

Trouble(r) ==
    ProbeFails(r) \/ CallFails(r) \/ CommitAmbiguous(r) \/ PanicInApply(r) \/ Crash(r)

Next ==
    \/ \E r \in Runs : CreateTable(r) \/ Step(r) \/ Trouble(r)
    \/ Edit

Spec == Init /\ [][Next]_vars

\* A Run that has begun goes on, and the database answers it.
FairSpec == Spec /\ \A r \in Runs : WF_vars(Step(r))

(***************************************************************************)
(* Properties                                                              *)
(***************************************************************************)
Hashes == Contents \cup {NoHash}

TypeOK ==
    /\ table \in {"absent", "old", "new"}
    /\ rows \in [Ids -> Hashes \cup {None}]
    /\ effect \in [Ids -> Nat]
    /\ ran \in [Ids -> Contents \cup {None}]
    /\ dir \subseteq Files
    /\ content \in [Files -> Contents]
    /\ pc \in [Runs -> {"idle", "probe", "alter", "reprobe", "load", "collect",
                        "file", "begin", "exec", "insert", "commit"} \cup Ended]
    /\ applied \in [Runs -> [Ids -> Hashes \cup {None}]]
    /\ list \in [Runs -> Seq(Files)]
    /\ pos \in [Runs -> Nat \ {0}]
    /\ read \in [Runs -> Contents \cup {None}]
    /\ tx \in [Runs -> Transactions \cup {None}]
    /\ check \in [Runs -> Checks \cup {None}]
    /\ faulted \in [Runs -> BOOLEAN]
    /\ faults \in 0 .. MaxFaults /\ edits \in 0 .. MaxEdits

\* Whatever Runs race, fail, die or are told a commit failed that did not, the
\* SQL of a migration has been committed exactly once if its row is in the
\* state table, and never if it is not.
ExactlyOnce == \A id \in Ids : effect[id] = IF rows[id] = None THEN 0 ELSE 1

\* A migration is only ever under way in a Run when every migration with a
\* smaller number that the Run has listed has been applied, numbers that an int
\* cannot hold aside.
NumericOrder ==
    \A r \in Runs :
        pc[r] \in {"begin", "exec", "insert", "commit"} =>
            \A i \in DOMAIN list[r] :
                LET f == list[r][i]
                IN  /\ Id[f] # NoId
                    /\ Number[f] < Number[Current(r)] /\ Number[f] < MaxInt
                    => rows[Id[f]] # None

\* A Run that returns nil leaves every migration it listed applied, and no Run
\* that lists two files with one ID begins to apply anything.
SuccessIsComplete ==
    \A r \in Runs :
        /\ pc[r] = "ok" => \A i \in DOMAIN list[r] :
                             Id[list[r][i]] # NoId => rows[Id[list[r][i]]] # None
        /\ tx[r] # None => \A i, j \in DOMAIN list[r] :
                             /\ Id[list[r][i]] = Id[list[r][j]]
                             /\ Id[list[r][i]] # NoId
                             => i = j

\* The doc comments of Run and apply: if a migration fails the transaction is
\* rolled back, on any error.  A Run that is over has no open transaction.
NoOpenTransaction == \A r \in Runs : pc[r] \in Ended => tx[r] = None

\* Runs that race to add the content_hash column do not make each other fail:
\* ensureTable only fails if the database has failed it.
ColumnRaceHarmless == \A r \in Runs : pc[r] = "ensure failed" => faulted[r]

\* Drift is never missed and never a false alarm: it is logged for an applied
\* migration whose file says something else now than what was committed, whoever
\* committed it and whenever the file was edited, and only if the bytes differ from
\* those committed; never for a row without a hash.
DriftReported ==
    \A r \in Runs :
        check[r] # None =>
            LET was == ran[check[r].id] is == check[r].bytes
            IN  /\ was # None /\ was.text # is.text => check[r].drift
                /\ check[r].drift => was # None /\ was # is

\* The package comment: "The hash is computed over the raw bytes of each file.  Files
\* with different line-ending conventions (CRLF vs LF) produce different hashes", and
\* migrater/README.md: "a CRLF-vs-LF flip across machines reads as drift".
RawBytesDrift ==
    \A r \in Runs :
        check[r] # None =>
            LET was == ran[check[r].id]
            IN  was # None /\ was # check[r].bytes => check[r].drift

\* Every Run that has begun comes to an end, though it may have to wait for the
\* transaction of another, unless a panic has left one open that holds its row.
RunEnds ==
    \A r \in Runs :
        Active(r) ~> \/ pc[r] \in Ended
                     \/ \E q \in Runs : pc[q] = "panicked" /\ HoldsRow(q)

(***************************************************************************)
(* The inductive invariant behind the safety properties                    *)
(***************************************************************************)
Applying == {"begin", "exec", "insert", "commit"}

\* A row is there exactly if the SQL was committed, and carries the hash of what was.
DbExact(id) ==
    /\ effect[id] = IF rows[id] = None THEN 0 ELSE 1
    /\ IF ran[id] = None THEN rows[id] \in {None, NoHash} ELSE rows[id] = Hash(ran[id])

\* How far a Run's transaction is, and that the row it has inserted is not in the table.
TxSound(r) ==
    /\ pc[r] = "exec" => tx[r] = [sql |-> FALSE, row |-> FALSE]
    /\ pc[r] = "insert" => tx[r] = [sql |-> TRUE, row |-> FALSE]
    /\ pc[r] = "commit" => tx[r] = [sql |-> TRUE, row |-> TRUE]
    /\ tx[r] # None => /\ pc[r] \in {"exec", "insert", "commit", "panicked"}
                       /\ More(r) /\ CurrentId(r) # NoId
    /\ HoldsRow(r) => rows[CurrentId(r)] = None

\* No two open transactions have inserted the same row.
RowsApart ==
    \A q, r \in Runs :
        HoldsRow(q) /\ HoldsRow(r) /\ CurrentId(q) = CurrentId(r) => q = r

PlaceSound(r) ==
    /\ pc[r] \in {"idle", "probe", "alter", "reprobe", "load", "collect"} => pos[r] = 1
    /\ pc[r] = "reprobe" => HasColumn \/ faulted[r]
    /\ pc[r] = "ensure failed" => faulted[r]
    /\ pc[r] \in Applying => More(r) /\ CurrentId(r) # NoId /\ read[r] # None
    /\ pc[r] = "ok" => ~More(r)

\* A Run's list is sorted and free of clashes.
ListSound(r) ==
    \A i, j \in DOMAIN list[r] :
        i < j => /\ Before(list[r][i], list[r][j])
                 /\ Id[list[r][i]] = Id[list[r][j]] => Id[list[r][i]] = NoId

\* What a Run has left behind in its list is applied.
BehindApplied(r) ==
    \A i \in DOMAIN list[r] :
        i < pos[r] /\ Id[list[r][i]] # NoId => rows[Id[list[r][i]]] # None

\* A row in a Run's snapshot, or in its latest skip, is still there and the same.
SnapshotSound(r) ==
    /\ \A id \in Ids : applied[r][id] # None => applied[r][id] = rows[id]
    /\ check[r] # None =>
         /\ rows[check[r].id] # None
         /\ check[r].drift <=> Drifted(rows[check[r].id], check[r].bytes)

RunInv(r) ==
    TxSound(r) /\ PlaceSound(r) /\ ListSound(r) /\ BehindApplied(r) /\ SnapshotSound(r)

IndInv ==
    /\ TypeOK
    /\ \A id \in Ids : DbExact(id)
    /\ RowsApart
    /\ \A r \in Runs : RunInv(r)
==============================================================================
