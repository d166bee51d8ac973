--------------------------- MODULE EvaluationStore ---------------------------
(***************************************************************************)
(* EvaluationStore of evaluation_service/persistence.py: the rows of       *)
(* batches, runs and batch events in SQLite, and beside them one directory *)
(* per run with result.json and candidate-diff.json.                       *)
(*                                                                         *)
(* The database and the directories are written one after the other and    *)
(* nothing makes the two atomic, so an operation that does both is several *)
(* actions here, cut where the process can die or where another process    *)
(* that has the same database open can come in between.  A transaction     *)
(* starts at its first write, never at the SELECT before it.               *)
(*                                                                         *)
(* What is abstracted: payloads and digests (a payload is its status and   *)
(* whether a candidate diff was captured); run-scoped events, which are    *)
(* appended and deleted together with the batch event of the same name;    *)
(* the order and the pruning of events, which EventStream models.          *)
(***************************************************************************)
EXTENDS Naturals, Sequences, FiniteSets

CONSTANTS
    Batches, Runs,
    RunsOf,      \* the runs of each batch, in the order create makes them
    Procs        \* the processes that have the database open

RunSet(b) == {RunsOf[b][i] : i \in DOMAIN RunsOf[b]}

ASSUME RunsAssumption ==
    /\ RunsOf \in [Batches -> Seq(Runs)]
    /\ \A b \in Batches : \A i, j \in DOMAIN RunsOf[b] :
          RunsOf[b][i] = RunsOf[b][j] => i = j
    /\ \A b, c \in Batches : b # c => RunSet(b) \cap RunSet(c) = {}
    /\ \A r \in Runs : \E b \in Batches : r \in RunSet(b)

BatchOf(r) == CHOOSE b \in Batches : r \in RunSet(b)

Active == {"queued", "running"}
Terminal == {"completed", "failed", "cancelled", "interrupted"}
\* "none" before the row is inserted, "gone" after it is deleted
RunStatus == Active \cup Terminal \cup {"none", "gone"}
BatchTerminal == {"completed", "completed_with_errors", "cancelled", "interrupted"}
BatchActive == {"queued", "running", "cancelling"}
BatchStatus == BatchActive \cup BatchTerminal \cup {"none", "gone"}

NoRun == "no run"
Free == "free"

VARIABLES
    batch,    \* the status of each batch row
    row,      \* each run row: its status, and whether it records a diff
    dir,      \* each run directory: absent, present, or renamed for deletion
    result,   \* the status in result.json: "none" without the file, "partial"
              \* for what is left of a write that failed
    diff,     \* whether candidate-diff.json exists
    log,      \* how many rows of each batch event there are
    lock      \* the process inside a write transaction

rows == <<batch, row, log>>
files == <<dir, result, diff>>
store == <<rows, files, lock>>

Exists(r) == row[r].status \notin {"none", "gone"}
BatchExists(b) == batch[b] \notin {"none", "gone"}
Event(b, type, r) == [batch |-> b, type |-> type, run |-> r]
EventTypes == {"batch_queued", "batch_started", "run_started", "run_finished",
               "batch_cancelling", "batch_finished"}
Events == [batch : Batches, type : EventTypes, run : Runs \cup {NoRun}]
Logged == {e \in Events : log[e] > 0}

StoreTypeOK ==
    /\ batch \in [Batches -> BatchStatus]
    /\ row \in [Runs -> [status : RunStatus, captured : BOOLEAN]]
    /\ dir \in [Runs -> {"absent", "present", "renamed"}]
    /\ result \in [Runs -> Terminal \cup {"none", "partial"}]
    /\ diff \in [Runs -> BOOLEAN]
    /\ log \in [Events -> Nat]
    /\ lock \in Procs \cup {Free}

StoreInit ==
    /\ batch = [b \in Batches |-> "none"]
    /\ row = [r \in Runs |-> [status |-> "none", captured |-> FALSE]]
    /\ dir = [r \in Runs |-> "absent"]
    /\ result = [r \in Runs |-> "none"]
    /\ diff = [r \in Runs |-> FALSE]
    /\ log = [e \in Events |-> 0]
    /\ lock = Free

-----------------------------------------------------------------------------
(***************************************************************************)
(* Operations that are one transaction.  They wait for the write lock.     *)
(***************************************************************************)
CreateBatch(b) ==
    /\ lock = Free
    /\ batch' = [batch EXCEPT ![b] = "queued"]
    /\ UNCHANGED <<row, log, files, lock>>

\* create_run commits the row first; MakeDirectory is its last line.
CreateRun(r) ==
    /\ lock = Free
    /\ row' = [row EXCEPT ![r].status = "queued"]
    /\ UNCHANGED <<batch, log, files, lock>>

MakeDirectory(r) ==
    /\ dir' = [dir EXCEPT ![r] = "present"]
    /\ UNCHANGED <<rows, result, diff, lock>>

\* An UPDATE without a condition on the status there is.
UpdateBatchStatus(b, status) ==
    /\ lock = Free
    /\ batch' = IF BatchExists(b) THEN [batch EXCEPT ![b] = status] ELSE batch
    /\ UNCHANGED <<row, log, files, lock>>

\* update_run_progress: KeyError, ImmutableRecordError
ProgressRefused(r) == row[r].status \notin Active

UpdateRunProgress(r) ==
    /\ lock = Free
    /\ ~ProgressRefused(r)
    /\ row' = [row EXCEPT ![r].status = "running"]
    /\ UNCHANGED <<batch, log, files, lock>>

AppendEvent(b, type, r) ==
    /\ lock = Free
    /\ log' = [log EXCEPT ![Event(b, type, r)] = @ + 1]
    /\ UNCHANGED <<batch, row, files, lock>>

-----------------------------------------------------------------------------
(***************************************************************************)
(* finalize_run.  The status is read; candidate-diff.json is written; the  *)
(* UPDATE opens the transaction; result.json is written inside it; commit. *)
(***************************************************************************)
FinalizeRefused(r, captured) ==
    \/ row[r].status \notin Active
    \/ captured /\ (dir[r] # "present" \/ diff[r])

FinalizeStarts(r, captured) ==
    /\ ~FinalizeRefused(r, captured)
    /\ diff' = [diff EXCEPT ![r] = @ \/ captured]
    /\ UNCHANGED <<rows, dir, result, lock>>

\* Seeded fault: result.json is written over the one that is there.
ResultOverwritten(r) == dir[r] # "present"

ResultRefused(r) == dir[r] # "present" \/ result[r] # "none"

\* Seeded fault: the row is committed before result.json is written.
RowFirst(p, r, status) ==
    /\ lock = Free
    /\ ~ResultRefused(r)
    /\ row' = [row EXCEPT ![r].status = status]
    /\ lock' = p
    /\ UNCHANGED <<batch, log, files>>

FinalizeWrites(p, r, status) ==
    /\ lock = Free
    /\ ~ResultRefused(r)
    /\ result' = [result EXCEPT ![r] = status]
    /\ lock' = p
    /\ UNCHANGED <<rows, dir, diff>>

FinalizeCommits(p, r, status, captured) ==
    /\ lock = p
    /\ row' = IF Exists(r)
              THEN [row EXCEPT ![r] = [status |-> status, captured |-> captured]]
              ELSE row
    /\ lock' = Free
    /\ UNCHANGED <<batch, log, files>>

-----------------------------------------------------------------------------
(***************************************************************************)
(* delete_run.  The directory is renamed, one transaction deletes the      *)
(* rows, the renamed directory is removed.                                 *)
(***************************************************************************)
Deletable(r) == row[r].status \in Terminal

RenameDirectory(r) ==
    /\ dir' = [dir EXCEPT ![r] = IF @ = "present" THEN "renamed" ELSE @]
    /\ UNCHANGED <<rows, result, diff, lock>>

\* Seeded fault: the events of the batch stay.
EventsKept(b, r, last) ==
    [e \in Events |-> IF e.batch = b /\ last THEN 0 ELSE log[e]]

\* What the DELETE statements leave of the events.
EventsLeft(b, r, last) ==
    [e \in Events |-> IF e.batch = b /\ (e.run = r \/ last) THEN 0 ELSE log[e]]

DeleteRows(r) ==
    LET b == BatchOf(r)
        last == \A q \in RunSet(b) \ {r} : ~Exists(q)
    IN  /\ lock = Free
        /\ row' = [row EXCEPT ![r] = [status |-> "gone", captured |-> FALSE]]
        /\ batch' = IF last THEN [batch EXCEPT ![b] = "gone"] ELSE batch
        /\ log' = EventsLeft(b, r, last)
        /\ UNCHANGED <<files, lock>>

RemoveDirectory(r) ==
    /\ IF dir[r] = "renamed"
       THEN /\ dir' = [dir EXCEPT ![r] = "absent"]
            /\ result' = [result EXCEPT ![r] = "none"]
            /\ diff' = [diff EXCEPT ![r] = FALSE]
       ELSE UNCHANGED files
    /\ UNCHANGED <<rows, lock>>

\* delete_candidate_artifact: the file goes, the record stays.
DeleteCandidateArtifact(r) ==
    /\ Exists(r)
    /\ dir[r] = "present"
    /\ diff[r]
    /\ diff' = [diff EXCEPT ![r] = FALSE]
    /\ UNCHANGED <<rows, dir, result, lock>>

-----------------------------------------------------------------------------
(***************************************************************************)
(* mark_active_interrupted.  The active rows are read; for each of them    *)
(* the row is updated and result.json is written unless it is there; the   *)
(* batches follow; commit.  A directory that is missing raises and rolls   *)
(* the whole transaction back, the files already written excepted.         *)
(***************************************************************************)
\* Seeded fault: every row of a batch that has not ended is looked for.
RowsOfActiveBatches == {r \in Runs : Exists(r) /\ batch[BatchOf(r)] \in BatchActive}

\* Seeded fault: only the running rows are looked for.
RunningRows == {r \in Runs : row[r].status = "running"}

ActiveRows == {r \in Runs : row[r].status \in Active}

Unwritable(S) == {r \in S : dir[r] # "present"}

MarkedOnDisk(S) ==
    /\ result' = [r \in Runs |-> IF r \in S /\ result[r] = "none"
                                 THEN "interrupted" ELSE result[r]]
    /\ UNCHANGED <<rows, dir, diff>>

MarkWrites(p, S) ==
    /\ lock = Free
    /\ Unwritable(S) = {}
    /\ MarkedOnDisk(S)
    /\ lock' = p

MarkRaises(S) ==
    /\ lock = Free
    /\ Unwritable(S) # {}
    /\ \E before \in SUBSET (S \ Unwritable(S)) : MarkedOnDisk(before)
    /\ UNCHANGED lock

\* Seeded fault: the batches are left as they are.
MarkRowsOnly(p, S) ==
    /\ lock = p
    /\ row' = [r \in Runs |-> IF r \in S /\ Exists(r)
                              THEN [status |-> "interrupted", captured |-> FALSE]
                              ELSE row[r]]
    /\ lock' = Free
    /\ UNCHANGED <<batch, log, files>>

\* The payload written back is the one that was read.
MarkCommits(p, S) ==
    /\ lock = p
    /\ row' = [r \in Runs |-> IF r \in S /\ Exists(r)
                              THEN [status |-> "interrupted", captured |-> FALSE]
                              ELSE row[r]]
    /\ batch' = [b \in Batches |-> IF batch[b] \in BatchActive
                                   THEN "interrupted" ELSE batch[b]]
    /\ lock' = Free
    /\ UNCHANGED <<log, files>>
=============================================================================
