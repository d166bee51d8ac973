-------------------------- MODULE EvaluationService --------------------------
(***************************************************************************)
(* EvaluationOrchestrator of evaluation_service/orchestration.py, driven   *)
(* by the routes of the API process and by the CLI, over EvaluationStore.  *)
(*                                                                         *)
(* A process is one asyncio loop.  Between two awaits it is alone in its   *)
(* process, but it dies, and the other process comes in, between any two   *)
(* of its store operations: todo[p] is what the handler that holds the     *)
(* loop has still to do, and a handler starts only when it is empty.  The  *)
(* awaits at which other handlers run are the semaphore, the provider call *)
(* of an episode and the gather of a batch.                                *)
(*                                                                         *)
(* What is abstracted: the choice of a provider, which precedes the first  *)
(* write; the turns of an episode, which emit more events of the kinds     *)
(* below; order among tasks that are ready.                                *)
(***************************************************************************)
EXTENDS EvaluationStore

CONSTANTS
    Concurrency,   \* slots of the semaphore of a batch
    MaxCancels,    \* bound of the cancel requests for one batch
    MaxCrashes,    \* bound of the crashes
    MaxFaults      \* bound of the operations that fail

Api == "api"
Cli == "cli"

ASSUME ProcsAssumption == Api \in Procs /\ Procs \subseteq {Api, Cli}
ASSUME ConcurrencyAssumption == Concurrency \in Nat \ {0}
ASSUME BoundsAssumption == {MaxCancels, MaxCrashes, MaxFaults} \subseteq Nat

VARIABLES
    up,        \* the processes that are alive
    todo,      \* the store operations left to the handler in each process
    owner,     \* the process whose orchestrator created a batch
    cancelled, \* _cancel of each process: the batches whose event is set
    task,      \* run_batch of each batch
    worker,    \* execute of each run
    crashes, faults

memory == <<up, todo, owner, cancelled, task, worker>>
vars == <<store, memory, crashes, faults>>

Nobody == "nobody"
TaskStates == {"none", "scheduled", "gathering", "ended", "raised"}
WorkerStates == {"none", "waiting", "episode", "ended", "raised"}
Operations ==
    [do : {"create_batch"}, batch : Batches]
    \cup [do : {"create_run", "mkdir", "progress", "rename", "delete_rows", "rmtree"},
          run : Runs]
    \cup [do : {"status"}, batch : Batches, status : BatchStatus]
    \cup [do : {"event"}, batch : Batches, type : EventTypes, run : Runs \cup {NoRun}]
    \cup [do : {"gather"}, batch : Batches]
    \cup [do : {"finalize", "result", "commit"}, run : Runs,
          status : Terminal, captured : BOOLEAN]
    \cup [do : {"active"}]
    \cup [do : {"mark", "marked"}, runs : SUBSET Runs]

Init ==
    /\ StoreInit
    /\ up = {}
    /\ todo = [p \in Procs |-> <<>>]
    /\ owner = [b \in Batches |-> Nobody]
    /\ cancelled = [p \in Procs |-> {}]
    /\ task = [b \in Batches |-> "none"]
    /\ worker = [r \in Runs |-> "none"]
    /\ crashes = 0
    /\ faults = 0

Idle(p) == p \in up /\ todo[p] = <<>>
Owns(p, b) == owner[b] = p
Owner(r) == owner[BatchOf(r)]
Do(p, ops) == todo' = [todo EXCEPT ![p] = ops]

\* What a process has in memory of its batches and runs when it stops.
Forgotten(p) ==
    /\ up' = up \ {p}
    /\ todo' = [todo EXCEPT ![p] = <<>>]
    /\ cancelled' = [cancelled EXCEPT ![p] = {}]
    /\ task' = [b \in Batches |-> IF Owns(p, b) THEN "none" ELSE task[b]]
    /\ worker' = [r \in Runs |-> IF Owner(r) = p THEN "none" ELSE worker[r]]
    /\ UNCHANGED owner

-----------------------------------------------------------------------------
(***************************************************************************)
(* Start of the processes.  Only the API repairs the records it finds.     *)
(***************************************************************************)
StartApi ==
    /\ Api \notin up
    /\ up' = up \cup {Api}
    /\ Do(Api, <<[do |-> "active"]>>)
    /\ UNCHANGED <<store, owner, cancelled, task, worker, crashes, faults>>

Creation(b) ==
    LET n == Len(RunsOf[b])
        rowThenDirectory(i) ==
            [do |-> IF i % 2 = 1 THEN "create_run" ELSE "mkdir",
             run |-> RunsOf[b][(i + 1) \div 2]]
    IN  <<[do |-> "create_batch", batch |-> b]>>
        \o [i \in 1..(2 * n) |-> rowThenDirectory(i)]
        \o <<[do |-> "event", batch |-> b, type |-> "batch_queued", run |-> NoRun]>>

\* POST /evaluations, and the run command of the CLI, which has one batch.
Create(p, b) ==
    /\ Idle(p)
    /\ owner[b] = Nobody
    /\ p = Cli => \A c \in Batches : ~Owns(Cli, c)
    /\ owner' = [owner EXCEPT ![b] = p]
    /\ task' = [task EXCEPT ![b] = "scheduled"]
    /\ Do(p, Creation(b))
    /\ UNCHANGED <<store, up, cancelled, worker, crashes, faults>>

\* bound: the CLI is run once
StartCli ==
    /\ Cli \in Procs \ up
    /\ \A b \in Batches : ~Owns(Cli, b)
    /\ up' = up \cup {Cli}
    /\ UNCHANGED <<store, todo, owner, cancelled, task, worker, crashes, faults>>

-----------------------------------------------------------------------------
(***************************************************************************)
(* run_batch and execute.                                                  *)
(***************************************************************************)
StartBatch(b) ==
    /\ Idle(owner[b])
    /\ task[b] = "scheduled"
    /\ IF BatchExists(b)
       THEN /\ task' = [task EXCEPT ![b] = "gathering"]
            /\ Do(owner[b],
                  <<[do |-> "status", batch |-> b, status |-> "running"],
                    [do |-> "event", batch |-> b, type |-> "batch_started", run |-> NoRun],
                    [do |-> "gather", batch |-> b]>>)
       ELSE /\ task' = [task EXCEPT ![b] = "raised"]
            /\ UNCHANGED todo
    /\ UNCHANGED <<store, up, owner, cancelled, worker, crashes, faults>>

InSlot(b) == {r \in RunSet(b) : worker[r] = "episode"}
CancelSeen(b) == b \in cancelled[owner[b]]

\* asyncio.run cancels what is left when the CLI's run_batch has raised.
Abandoned(b) == Owns(Cli, b) /\ task[b] = "raised"

Granted(r) ==
    /\ Idle(Owner(r))
    /\ worker[r] = "waiting"
    /\ ~Abandoned(BatchOf(r))
    /\ Cardinality(InSlot(BatchOf(r))) < Concurrency

Finalization(r, status, captured) ==
    [i \in 1..3 |-> [do |-> <<"finalize", "result", "commit">>[i], run |-> r,
                     status |-> status, captured |-> captured]]

SkipRun(r) ==
    /\ Granted(r)
    /\ CancelSeen(BatchOf(r))
    /\ worker' = [worker EXCEPT ![r] = "ended"]
    /\ Do(Owner(r), Finalization(r, "cancelled", FALSE))
    /\ UNCHANGED <<store, up, owner, cancelled, task, crashes, faults>>

StartEpisode(r) ==
    /\ Granted(r)
    /\ ~CancelSeen(BatchOf(r))
    /\ worker' = [worker EXCEPT ![r] = "episode"]
    /\ Do(Owner(r), <<[do |-> "progress", run |-> r],
                      [do |-> "event", batch |-> BatchOf(r), type |-> "run_started", run |-> r]>>)
    /\ UNCHANGED <<store, up, owner, cancelled, task, crashes, faults>>

\* A provider call that was answered as the cancellation came still counts.
Outcomes(r) ==
    IF Abandoned(BatchOf(r)) THEN {"cancelled"}
    ELSE {"completed", "failed"} \cup (IF CancelSeen(BatchOf(r)) THEN {"cancelled"} ELSE {})

\* Seeded fault: the end of a run is announced before it is recorded.
EndAnnouncedFirst(r) ==
    /\ Idle(Owner(r))
    /\ worker[r] = "episode"
    /\ worker' = [worker EXCEPT ![r] = "ended"]
    /\ \E status \in Outcomes(r), captured \in BOOLEAN :
          Do(Owner(r), <<[do |-> "event", batch |-> BatchOf(r),
                          type |-> "run_finished", run |-> r]>>
                       \o Finalization(r, status, captured))
    /\ UNCHANGED <<store, up, owner, cancelled, task, crashes, faults>>

EndEpisode(r) ==
    /\ Idle(Owner(r))
    /\ worker[r] = "episode"
    /\ worker' = [worker EXCEPT ![r] = "ended"]
    /\ \E status \in Outcomes(r), captured \in BOOLEAN :
          Do(Owner(r), Finalization(r, status, captured)
                       \o <<[do |-> "event", batch |-> BatchOf(r),
                             type |-> "run_finished", run |-> r]>>)
    /\ UNCHANGED <<store, up, owner, cancelled, task, crashes, faults>>

\* Failed counts the interrupted runs too; deleted runs are not counted.
FailedRuns(b) == {r \in RunSet(b) : row[r].status \in {"failed", "interrupted"}}

\* Seeded fault: the batch takes the status of its worst run.
StatusOfRuns(b) ==
    IF CancelSeen(b) THEN "cancelled"
    ELSE IF FailedRuns(b) # {} THEN "failed" ELSE "completed"

FinalStatus(b) ==
    IF CancelSeen(b) THEN "cancelled"
    ELSE IF FailedRuns(b) # {} THEN "completed_with_errors" ELSE "completed"

\* Seeded fault: the batch does not wait for the episodes in flight.
GatherReturnsEarly(b) == \A r \in RunSet(b) : worker[r] # "waiting"

\* gather returns once every execute has; the batch row may be deleted by then.
GatherReturns(b) == \A r \in RunSet(b) : worker[r] \in {"none", "ended"}

FinishBatch(b) ==
    /\ Idle(owner[b])
    /\ task[b] = "gathering"
    /\ GatherReturns(b)
    /\ IF BatchExists(b)
       THEN /\ task' = [task EXCEPT ![b] = "ended"]
            /\ Do(owner[b],
                  <<[do |-> "status", batch |-> b, status |-> FinalStatus(b)],
                    [do |-> "event", batch |-> b, type |-> "batch_finished", run |-> NoRun]>>)
       ELSE /\ task' = [task EXCEPT ![b] = "raised"]
            /\ UNCHANGED todo
    /\ UNCHANGED <<store, up, owner, cancelled, worker, crashes, faults>>

CliExits ==
    /\ Idle(Cli)
    /\ \E b \in Batches :
          /\ Owns(Cli, b)
          /\ \/ task[b] = "ended"
             \/ task[b] = "raised" /\ InSlot(b) = {}
    /\ Forgotten(Cli)
    /\ UNCHANGED <<store, crashes, faults>>

-----------------------------------------------------------------------------
(***************************************************************************)
(* The other routes of the API.                                            *)
(***************************************************************************)
MayCancel(b) ==
    /\ Idle(Api)
    /\ BatchExists(b)
    /\ log[Event(b, "batch_cancelling", NoRun)] < MaxCancels

\* Seeded fault: the status is set, the event is not.
CancelStatusOnly(b) ==
    /\ MayCancel(b)
    /\ Do(Api, <<[do |-> "status", batch |-> b, status |-> "cancelling"],
                 [do |-> "event", batch |-> b, type |-> "batch_cancelling", run |-> NoRun]>>)
    /\ UNCHANGED <<store, up, owner, cancelled, task, worker, crashes, faults>>

Cancel(b) ==
    /\ MayCancel(b)
    /\ cancelled' = [cancelled EXCEPT ![Api] = @ \cup {b}]
    /\ Do(Api, <<[do |-> "status", batch |-> b, status |-> "cancelling"],
                 [do |-> "event", batch |-> b, type |-> "batch_cancelling", run |-> NoRun]>>)
    /\ UNCHANGED <<store, up, owner, task, worker, crashes, faults>>

DeleteRun(r) ==
    /\ Idle(Api)
    /\ Deletable(r)
    /\ Do(Api, <<[do |-> "rename", run |-> r], [do |-> "delete_rows", run |-> r],
                 [do |-> "rmtree", run |-> r]>>)
    /\ UNCHANGED <<store, up, owner, cancelled, task, worker, crashes, faults>>

DeleteCandidateDiff(r) ==
    /\ Idle(Api)
    /\ DeleteCandidateArtifact(r)
    /\ UNCHANGED <<memory, crashes, faults>>

-----------------------------------------------------------------------------
(***************************************************************************)
(* The handler that holds a loop does its next store operation.            *)
(***************************************************************************)
Busy(p) == p \in up /\ todo[p] # <<>>
Op(p) == Head(todo[p])
Done(p) ==
    /\ Do(p, Tail(todo[p]))
    /\ UNCHANGED <<up, owner, cancelled, task, worker, crashes, faults>>

CreateStep(p) ==
    /\ Busy(p)
    /\ \/ Op(p).do = "create_batch" /\ CreateBatch(Op(p).batch)
       \/ Op(p).do = "create_run" /\ CreateRun(Op(p).run)
       \/ Op(p).do = "mkdir" /\ MakeDirectory(Op(p).run)
    /\ Done(p)

ProgressStep(p) ==
    /\ Busy(p)
    /\ \/ /\ Op(p).do = "status"
          /\ UpdateBatchStatus(Op(p).batch, Op(p).status)
       \/ /\ Op(p).do = "event"
          /\ AppendEvent(Op(p).batch, Op(p).type, Op(p).run)
       \/ Op(p).do = "progress" /\ UpdateRunProgress(Op(p).run)
    /\ Done(p)

FinalizeStep(p) ==
    /\ Busy(p)
    /\ \/ /\ Op(p).do = "finalize"
          /\ FinalizeStarts(Op(p).run, Op(p).captured)
       \/ Op(p).do = "result" /\ FinalizeWrites(p, Op(p).run, Op(p).status)
       \/ /\ Op(p).do = "commit"
          /\ FinalizeCommits(p, Op(p).run, Op(p).status, Op(p).captured)
    /\ Done(p)

DeleteStep(p) ==
    /\ Busy(p)
    /\ \/ Op(p).do = "rename" /\ RenameDirectory(Op(p).run)
       \/ Op(p).do = "delete_rows" /\ DeleteRows(Op(p).run)
       \/ Op(p).do = "rmtree" /\ RemoveDirectory(Op(p).run)
    /\ Done(p)

\* list_runs at the start of the gather: one execute for each row there is.
Gather(p) ==
    /\ Busy(p)
    /\ Op(p).do = "gather"
    /\ worker' = [r \in Runs |-> IF r \in RunSet(Op(p).batch) /\ Exists(r)
                                 THEN "waiting" ELSE worker[r]]
    /\ Do(p, <<>>)
    /\ UNCHANGED <<store, up, owner, cancelled, task, crashes, faults>>

ReadActive(p) ==
    /\ Busy(p)
    /\ Op(p).do = "active"
    /\ Do(p, <<[do |-> "mark", runs |-> ActiveRows], [do |-> "marked", runs |-> ActiveRows]>>)
    /\ UNCHANGED <<store, up, owner, cancelled, task, worker, crashes, faults>>

MarkStep(p) ==
    /\ Busy(p)
    /\ \/ Op(p).do = "mark" /\ MarkWrites(p, Op(p).runs)
       \/ Op(p).do = "marked" /\ MarkCommits(p, Op(p).runs)
    /\ Done(p)

\* The lifespan of the application raises, and the server does not start.
StartFails(p) ==
    /\ Busy(p)
    /\ Op(p).do = "mark"
    /\ MarkRaises(Op(p).runs)
    /\ Forgotten(p)
    /\ UNCHANGED <<crashes, faults>>

-----------------------------------------------------------------------------
(***************************************************************************)
(* Exceptions.  What an execute raises ends run_batch: gather passes it on *)
(* at once, while the other executes go on.                                *)
(***************************************************************************)
ExecuteRaises(r) ==
    /\ worker' = [worker EXCEPT ![r] = "raised"]
    /\ task' = [task EXCEPT ![BatchOf(r)] = "raised"]
    /\ Do(Owner(r), <<>>)
    /\ UNCHANGED <<up, owner, cancelled>>

Refused(p) ==
    /\ Busy(p)
    /\ lock = Free
    /\ \/ Op(p).do = "progress" /\ ProgressRefused(Op(p).run)
       \/ /\ Op(p).do = "finalize"
          /\ FinalizeRefused(Op(p).run, Op(p).captured)
       \/ Op(p).do = "result" /\ ResultRefused(Op(p).run)
    /\ ExecuteRaises(Op(p).run)
    /\ UNCHANGED <<store, crashes, faults>>

Fault == faults < MaxFaults /\ faults' = faults + 1

\* load_environment or the close of the environment raises.
EpisodeRaises(r) ==
    /\ Fault
    /\ Idle(Owner(r))
    /\ worker[r] = "episode"
    /\ ExecuteRaises(r)
    /\ UNCHANGED <<store, crashes>>

\* The request fails, and with it the CLI; the rows committed so far stay.
MkdirFails(p) ==
    /\ Fault
    /\ Busy(p)
    /\ Op(p).do = "mkdir"
    /\ IF p = Cli
       THEN Forgotten(p)
       ELSE /\ Do(p, <<>>)
            /\ task' = [task EXCEPT ![BatchOf(Op(p).run)] = "none"]
            /\ UNCHANGED <<up, owner, cancelled, worker>>
    /\ UNCHANGED <<store, crashes>>

\* result.json cannot be written; what is left of it may exist.
ResultFails(p) ==
    /\ Fault
    /\ Busy(p)
    /\ Op(p).do = "result"
    /\ lock = Free
    /\ ~ResultRefused(Op(p).run)
    /\ \E left \in {"none", "partial"} : result' = [result EXCEPT ![Op(p).run] = left]
    /\ ExecuteRaises(Op(p).run)
    /\ UNCHANGED <<rows, dir, diff, lock, crashes>>

\* The transaction raises and the directory is renamed back, or rmtree raises.
DeleteFails(p) ==
    /\ Fault
    /\ Busy(p)
    /\ \/ /\ Op(p).do = "delete_rows"
          /\ dir' = [dir EXCEPT ![Op(p).run] = IF @ = "renamed" THEN "present" ELSE @]
       \/ Op(p).do = "rmtree" /\ UNCHANGED dir
    /\ Do(p, <<>>)
    /\ UNCHANGED <<rows, result, diff, lock, up, owner, cancelled, task, worker, crashes>>

\* The process is killed; an open transaction is rolled back.
Crash(p) ==
    /\ p \in up
    /\ crashes < MaxCrashes
    /\ crashes' = crashes + 1
    /\ lock' = IF lock = p THEN Free ELSE lock
    /\ Forgotten(p)
    /\ UNCHANGED <<rows, files, faults>>

Request ==
    \/ \E p \in Procs, b \in Batches : Create(p, b)
    \/ \E b \in Batches : Cancel(b)
    \/ \E r \in Runs : DeleteRun(r) \/ DeleteCandidateDiff(r)

Failure ==
    \/ \E r \in Runs : EpisodeRaises(r)
    \/ \E p \in Procs : MkdirFails(p) \/ ResultFails(p) \/ DeleteFails(p) \/ Crash(p)

Step(p) ==
    \/ CreateStep(p) \/ ProgressStep(p) \/ FinalizeStep(p) \/ DeleteStep(p)
    \/ Gather(p) \/ ReadActive(p) \/ MarkStep(p) \/ StartFails(p) \/ Refused(p)

Progress ==
    \/ StartApi \/ CliExits
    \/ \E p \in Procs : Step(p)
    \/ \E b \in Batches : StartBatch(b) \/ FinishBatch(b)
    \/ \E r \in Runs : SkipRun(r) \/ StartEpisode(r) \/ EndEpisode(r)

Next == Progress \/ StartCli \/ Request \/ Failure

\* A loop serves every task that is ready, an episode ends (its provider
\* calls time out and are counted), a server that stops is started again.
Fairness ==
    /\ WF_vars(StartApi)
    /\ \A p \in Procs : WF_vars(Step(p))
    /\ \A b \in Batches : WF_vars(StartBatch(b)) /\ WF_vars(FinishBatch(b))
    /\ \A r \in Runs : WF_vars(SkipRun(r) \/ StartEpisode(r)) /\ WF_vars(EndEpisode(r))

Spec == Init /\ [][Next]_vars
FairSpec == Spec /\ Fairness

-----------------------------------------------------------------------------
TypeOK ==
    /\ StoreTypeOK
    /\ up \subseteq Procs
    /\ todo \in [Procs -> Seq(Operations)]
    /\ owner \in [Batches -> Procs \cup {Nobody}]
    /\ cancelled \in [Procs -> SUBSET Batches]
    /\ task \in [Batches -> TaskStates]
    /\ worker \in [Runs -> WorkerStates]
    /\ crashes \in 0..MaxCrashes
    /\ faults \in 0..MaxFaults

Starting == todo[Api] # <<>> /\ Op(Api).do \in {"active", "mark", "marked"}

\* A terminal run record is deleted or stays what it is (finalize_run,
\* update_run_progress and mark_active_interrupted against one another).
TerminalIsFinal ==
    [][\A r \in Runs : row[r].status \in Terminal
          => row'[r] = row[r] \/ row'[r].status = "gone"]_vars

\* The directory of a terminal run holds its result.json, which says what the
\* row says unless a restart marked the row, and holds no diff the row does
\* not record, a restart excepted again.
RecordsOnDisk ==
    \A r \in Runs : row[r].status \in Terminal =>
        /\ dir[r] # "absent"
        /\ result[r] # "none"
        /\ row[r].status # "interrupted" => /\ result[r] = row[r].status
                                            /\ diff[r] => row[r].captured

\* result.json is written once: what it says never changes while it is there.
ResultIsFinal ==
    [][\A r \in Runs : result[r] # "none" => result'[r] \in {result[r], "none"}]_vars

\* A batch that is reported as ended has no run queued or running.
BatchSettled ==
    \A b \in Batches : batch[b] \in BatchTerminal =>
        \A r \in RunSet(b) : row[r].status \notin Active

\* While the API serves, no run is active that nothing will ever finish: the
\* restart found every one that its predecessor left.  (A request that failed
\* at mkdir leaves rows behind that nothing owns.)
ActiveIsOwned ==
    Api \in up /\ ~Starting /\ faults = 0 =>
        \A r \in Runs : row[r].status \in Active => task[BatchOf(r)] # "none"

\* Subscribers are told that a run is over only when its record says so.
AnnouncedIsFinal ==
    \A e \in Logged : e.type = "run_finished" => row[e.run].status \in Terminal

\* A deleted run leaves no event behind, nor does a deleted batch.
NothingOfDeleted ==
    \A e \in Logged :
        /\ batch[e.batch] # "gone"
        /\ e.run # NoRun => row[e.run].status # "gone"

\* The restart that never succeeds: an active row without a directory.
Unstartable == Api \notin up /\ Unwritable(ActiveRows) # {}

\* A queued batch ends, through its runs or through a restart, or is deleted,
\* when no operation fails: an execute that raises leaves its batch running.
BatchesEnd ==
    \A b \in Batches : batch[b] = "queued" ~>
        batch[b] \in BatchTerminal \cup {"gone"} \/ Unstartable \/ faults > 0

\* A batch cancelled while its task lives ends as cancelled, unless a restart
\* or a deletion comes first.
CancelEnds ==
    \A b \in Batches :
        batch[b] = "cancelling" /\ task[b] \in {"scheduled", "gathering"} ~>
            batch[b] \in {"cancelled", "interrupted", "gone"} \/ faults > 0

\* V2_ARCHITECTURE.md: "Queued or running records found after API restart
\* become terminal interrupted records".
RestartSettles ==
    \A r \in Runs : row[r].status \in Active /\ Api \notin up ~> row[r].status \notin Active
=============================================================================
