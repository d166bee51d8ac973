# Models and proofs of the recovery environment

This directory holds TLA+ models of the program in `src/`, the TLC
configurations that check them on small instances, and TLAPS proofs that the
safety properties those runs check hold of every instance. Paths below are relative to the
repository's own root (`src/agent_surface/session.py` is
`src/src/agent_surface/session.py` from the directory above this one).
`PROJECT.json` is the index: components, runs, the source lines of every
definition, hazards, theorems and findings.

Contents: [1 the system](#1-the-system) -
[2 the modules](#2-the-modules-and-the-code) - [3 the runs](#3-the-runs) -
[4 the proofs](#4-the-proofs) - [5 findings](#5-findings) -
[6 what is not modelled](#6-what-is-not-modelled) - [7 the plan](#7-the-plan)

## 1 The system

The program is an environment for evaluating and training agents on one
incident: a settlement service is live with a faulty release, the agent edits a
candidate, pauses intake, restores a snapshot, deploys, tries workloads and
resumes; a verifier grades what it leaves. Around it, a local API and a command
line run batches of such episodes with model providers.

```
 dashboard --HTTP/SSE--> API routes --> orchestrator --> episode runner --> provider adapters
                            |              |                  |
                            |              +-> store (SQLite + run directories + event log)
                            +-> provider registry (cache file, .env)
                                                              |
   training adapters, CLI ------------------------------> incident environment
                                                              |        \
                                                        tool gateway    strict verifier
                                                              |         (copy of the database)
                                                      recovery session --> settlement runtime
```

| Component | State it keeps | Operations | Interacts with | What is hard | What makes it correct |
|---|---|---|---|---|---|
| Recovery session (`agent_surface/session.py`, `event_service_substrate/store.py`) | SQLite tables (intake, deployments, audit chain, recovery proofs, service tables), the workspaces, passes, receipts, trace epoch | edit, pause, run, restore, rollback, deploy, resume, close | runs workloads through the settlement runtime; its file is what the verifier copies | transactions that stay open after an exception; file writes after commits; gates that depend on a long history | the live revision is what is deployed; a closed incident was earned; provenance is permanent; the file equals the connection when intake is open |
| Settlement runtime (`agent_surface/runtime.py`, the shipped `flow.py`, `strict_verifier/workloads.py`) | journal, registrations, effects, intents, cursor | stages s1 to s6 of a flow, a script runner with cut points, transient failures, restarts | called for each workload of a session and of the verifier | a crash between two stages, redelivery, budget exhaustion, leftovers of other flows | exactly-once effects per occurrence; the judge is right |
| Fixture generation (`instance.py`, `canonical.py`, `clock.py`) | none after the start | build the seeded history | initial state of a session | - | determinism |
| Tool gateway (`gateway.py`) | a pipe to a controller process | one request, one response, no timeout | client of the session | a controller that dies between an effect and its answer, or never answers | what is recorded as failed may have happened, never the reverse |
| Incident environment (`training_ground/episode.py`, `limits.py`, `transcripts.py`) | transcript, action and byte counts, grade, trace handle, whether it is open and ended | reset, step, grade, close | gateway, verifier | limits at their boundary, a reset that fails half-way, state left by an earlier episode | nothing of an earlier episode counts; no credit is lost to a limit before the episode ends |
| Strict verifier (`strict_verifier/`) | none: a copy of the database file | copy, reconstruct, pause and restore, workloads, reward ladder | reads the session's files, drives the settlement runtime | a copy taken while writes are pending, one step failing inside a shared `try`, records that differ from the session's | full reward only for what was achieved; what was achieved is credited |
| Evaluation store (`persistence.py`, `events.py`) | rows of batches, runs, events; a directory per run with `result.json` and a candidate diff | create, update, finalize, delete, append event, mark interrupted | used by API and CLI, two processes over one database | rows and files are not atomic; reads before a transaction | terminal records are final and agree with their files |
| Evaluation orchestrator (`orchestration.py`, `app.py`, CLI) | tasks, cancel events, semaphore | create, run_batch, execute, cancel, restart | store, runner | interleaving at every await, cancellation, crash, `gather` with one failure | batches end, in a state their runs justify |
| Event stream (`events_after`, `routes.py:event_stream`, the dashboard's `EventSource`) | a cursor per connection, the replay window | read, send, end, reconnect | store, orchestrator, browser | reconnects against pruning, deletion and the end of the batch | order, no loss within the window, a final event |
| Episode runner (`runner.py`) | messages, timeline, budgets, retries | turns, completions, tool calls, grade, three ends | provider, environment, store | a retry racing the deadline and the cancellation, calls that block the event loop, a store that raises | it ends, its timeline is the transcript, nothing happens after a cancel |
| Provider registry (`registry.py`, `configuration.py`) | base URLs (session, `.env`, environment), discovered models, probe results, cache file | discover, probe, configure, restart | API routes, provider servers | awaits between request and bookkeeping, failed saves | a result is shown only for what gave it |
| Provider adapters, training adapters, presentation, dashboard pages, scripts | none or a wrapper's | conversions | - | - | outside the models, see section 6 |

The hazards (steps in an order nobody tested, state read before an await,
crashes between two writes, boundaries) are listed line by line in
`PROJECT.json`, each with the properties that cover it or the reason none does.

## 2 The modules and the code

| Module | Lines of code it models | Instances |
|---|---|---|
| `RecoverySession` | `agent_surface/session.py`, `event_service_substrate/store.py` | |
| `RecoverySession_proofs` | theorems about it | |
| `Reward` | `strict_verifier/reward.py`, `predicates.py` | |
| `StrictVerifier` (extends the two) | `strict_verifier/verifier.py`, `integrity.py`, `reconstruct.py` | `MCRecoverySession` |
| `StrictVerifier_proofs` | theorems about the grade | |
| `SettlementContract` | what the shipped `contract.md` of the service promises | |
| `Settlement` | `agent_surface/runtime.py`, the shipped `service/flow.py` and its repairs | |
| `Settlement_proofs` | theorems about it, the refinement among them | |
| `SettlementWorkloads` | the scripts of `runtime.py` and `strict_verifier/workloads.py` | `MCSettlement` |
| `IncidentEnv` | `training_ground/episode.py`, `limits.py`, `transcripts.py`, `actions.py`, `agent_surface/gateway.py`, the restraint of `training_adapters/` | |
| `EpisodeRunner` (extends `IncidentEnv`) | `evaluation_service/runner.py` | `MCEpisodeRunner` |
| `EpisodeRunner_proofs` | theorems about the two | |
| `EvaluationStore` | `evaluation_service/persistence.py` | |
| `EvaluationService` | `orchestration.py`, `app.py`, the changing routes, the CLI | `MCEvaluationService` |
| `EvaluationService_proofs` | theorems about the two | |
| `EventStream` | `append_event`, `events_after`, `event_stream`, `EventSource` | itself |
| `EventStream_proofs` | theorems about it | |
| `ProviderRegistry` | `model_runners/registry.py`, `configuration.py` | itself |
| `ProviderRegistry_proofs` | theorems about it | |

### RecoverySession

One action per tool that changes state. `tables` is what the open SQLite
connection reads, `disk` what is committed; most operations end in a commit
(`Commit == disk' = Database'`), and a workload that raises (`RunRaises`)
changes the service tables without one, so its writes are pending until the next
commit, whoever makes it. `memory` holds what the session object keeps: passes
by settings root, receipts, the trace epoch, whether it is closed. One trace
capability, chosen arbitrarily among those issued, is followed in `handle`.

A workspace is a record of two roots, its source files and its settings; the
audit chain is the sequence of its kinds and its root is the chain itself, so
two chains have one root only if they are equal, which is what the digests are
for. A proof keeps the chain before it, its position and the state restored.
`RunPasses`, `RunDoesNotPass` and `RunRaises` let a workload do anything to the
service tables and give any verdict: `Settlement` is about which. A pass is limited
to the workspaces where the engine lets the workload pass at all (`CanPass`, by the
constant `PassesOn`): P1 and P2 inject a transient failure at their first settlement
(`runtime.py:1352`, `:264-268`), and with an attempt budget of one, as in r1, the
delivery raises (`runtime.py:574-577`), unless the flow itself asks again.

File operations may fail (`MaxFaults`): a workspace copy stops half-way
(`RollbackCopyFails`, `DeployCopyFails`: the old files are deleted in any order
before the new ones are written, so the active workspace keeps some of the old
files or has some of the new ones, source and settings independently), or the
metadata write after a commit fails (`MetadataWriteFails`: the deployment changed,
the epoch did not). A deploy compares the settings only where the sources are
equal (`CandidateChanged`), so it can replace a workspace that lost its settings.

`KeepSources` decides whether the set of receipts, a history, keeps the source a
receipt was given for. Only `ResumedCodePassed` asks for it.

### Reward, StrictVerifier

`Verifier.grade` keeps no state, so it is an operator: `Score(t, v)` of the state a
session can be left in, of what the transcript shows (`t`) and of what the
workloads turn out (`v`). `store` is `disk`, since the verifier copies the database
file and never sees the session's connection. `RestoredOnCopy` is the `try` that
pause and restore share: on a copy that is already paused the pause raises and the
restore is not reached. `Predicates` gives the names of `predicates.py` that are
true at the end of `grade`, `CalculateReward` the ladder in hundredths: the lowest
rung among those of the mandatory predicates that are missing, which is what the
code's sequence of `if`s returns. The properties relate the grade to what the
session itself reports (`IncidentClosed`): the two are decided from different
records, the passes in memory on one side, proofs and workloads on the other.

### SettlementContract, Settlement, SettlementWorkloads

`SettlementContract` is the abstract service: occurrences are accepted, each gets
at most one effect of each kind, a restore forgets everything. `Settlement` is
the engine: a run accepts the commands of its script one by one (`AcceptReuses`,
`AcceptAppends`, `Register`, `CommandRejected`), plans its deliveries, and
delivers event by event (`DeliverReuses`, `DeliverTransient`, `DeliverCutpoint`,
`DeliverSettles`, `DeliveryExhausted`), then judges (`FinishRun`, `Passed`). The
two cut points, the transient failure, the attempt budget (with budget zero the
loop is never entered), the restart that resets the attempts and the leftovers
of a run that raised are the code's. `Restore` is what a session or the verifier
does between two runs. `ImplementsContract` is `Contract!Spec` under the mapping
that takes the accepted occurrences from the journal and counts the effects.

`careful`, a variable of the contract, says whether the shipped flow has run since
the tables were restored (`ran` keeps which flows have): that flow settles twice
what is delivered twice, and the contract promises nothing while its effects are in
the tables. `Repairs` are the two flows that are to pass.

Four flows stand for what an agent may write: the shipped one, the two repairs
the repository knows (`logical_identity`, `intent_outbox`) and the wrong one its
controls reject (`broad_event_dedup`, `tests/controls/test_controls.py`). An event id is the position of its journal row.

`Settlement` takes any scripts that have in common what `ScriptAssumption` says of
those of the code, and TLC evaluates it on the repository's own in `MCSettlement`.
`ScriptShape` is about one script: it does not touch the occurrence of the incident,
a verdict that counts settlements comes after a delivery of everything it counts,
what fails once and is judged is retried. `SameWorkload` is about two scripts that
share an occurrence: in the code those are one diagnostic under two of the aliases an
agent may give it, which are part of the payload and not of the identity; they
accept the same occurrences in the same order and deliver them the same way.

### IncidentEnv, EpisodeRunner

`IncidentEnv` is the environment with the controller process behind it. A step is
`StepAnswered` (the action and the status after it are both answered), `StepLost`
(one of the two is not: the action may have had its effect, its answer may have
come, and the environment records that the gateway is unavailable) or `StepHangs`
(the answer never comes). `ResetFails` leaves the environment closed with the
counters and transcript of the episode before; `ResetStarts` clears the counters as
soon as the controller runs and replaces the transcript only after the first
status, so it may raise with the environment open and the old transcript in it. The
session is reduced to its trace epoch, the handles it issued, whether the incident is
closed and whether the deployed flow ends. `grade` is computed once and kept.
`episode` and `ready` are histories: the number of controllers started, and
whether the last reset returned. `EnvNext` is any caller that makes no step after a
reset that raised (`MayStep`), as the gym wrapper refuses one and a rollout ends there.

`EpisodeRunner` is one run of `runner.py`: `phase` says where `run()` stands. The loop
of asyncio runs something else only in the phases of `Waiting`: `emit` writes to the
store and a call of the environment waits for a pipe, and neither gives the loop
away. So a cancellation (`CancelArrives`) is set only there, an interruption of the
task arrives only there, and a call that never returns stops the process
(`blocked`). `CompletionDropped` is the race of the completion, with its retries,
against the deadline and the cancellation. All three ends of `run` grade, report
and close. A behaviour has either a runner or another caller, so that both are
checked over the same environment.

### EvaluationStore, EvaluationService

The store's operations that write the database and the run directory are cut
into the steps between which a process can die or another can come in:
`CreateRun` / `MakeDirectory`, `FinalizeStarts` / `FinalizeWrites` /
`FinalizeCommits`, `RenameDirectory` / `DeleteRows` / `RemoveDirectory`, and the
start of the API as `ReadActive` / `MarkWrites` / `MarkCommits`. A transaction
holds `lock` from its first write, never from the `SELECT` before it.

`EvaluationService` puts processes over it. A handler between two awaits is the
list `todo[p]` of store operations it still has to do; another handler of the
same process starts only when it is empty, while the other process and a crash
come in between any two. `StartBatch`, `StartEpisode`, `SkipRun`, `EndEpisode` and
`FinishBatch` are the pieces of `run_batch` and `execute` between the semaphore,
the provider call and the `gather`. An episode ends with any outcome the runner
can return, later than a cancel. `log` counts the rows of each event; in what
order a reader gets them is the subject of `EventStream`. Failures: an episode that raises, `mkdir`,
the write of `result.json` or the removal of a directory that fails, a crash.

### EventStream

The writer appends events and prunes to `ReplayLimit` in one commit; it is a task
of the same loop (`FinishHere` sets the status and appends the last event without
giving the loop away) or another process (`FinishStatus`, then `FinishEvent`). The
stream reads at most `ReadLimit` events, sends them one by one, gives the loop
away at every yield, and reads the record in the same turn as the last send,
except after a keep-alive. The client receives in order, loses its connection
with all that was under way, and comes back with the last id it received.

### ProviderRegistry

`discover_models` and `probe_tool_call` are coroutines with a request in a thread:
`DiscoverModels` / `RequestModels` / `StoreModels`, `ProbeToolCall` / `Complete`
(or `Retry`) / `StoreProbe`. Changes of the base URL, an update of the model at a
server and a restart fall between those steps, and `save_state` may fail, which
the code swallows. History fields (`of`, `asked`, `answered`, `crossed`,
`ownList`, the variable `unsaved`) are not in the code: they record which
endpoint and which version a list or a result came from.

## 3 The runs

"pass" means TLC explores every reachable state of the instance and finds no
error; "violation" means it finds a behaviour of the code that contradicts a
document of the repository (section 5). Every property of a passing run has a
seeded fault in the modelled code that breaks it under the same configuration;
the faults stand in the modules as definitions marked "Seeded fault" and are
listed in `PROJECT.json`.

| Run | Configuration | Expected | Question |
|---|---|---|---|
| `recovery_session` | `RecoverySession.cfg` | pass | Every order of tools, with a file operation that fails: `ActiveIsDeployed`, `CapabilityIsFresh`, `ClosedIsOnRecord`, `ProvenanceIsPermanent`, `OpenIsCommitted`, `RestoreIsValid`; and of every state the grade it would get: `FullRewardIsEarned`, `ClosedIsCredited` |
| `recovery_session_gate` | `RecoverySessionGate.cfg` | violation | Is the code that is resumed the code that passed? |
| `settlement` | `Settlement.cfg` | pass | Any flow after any other: the service contract is refined, repaired flows pass what they are judged by, the durable tables agree, a pass means each occurrence settled once, every run ends |
| `episode` | `EpisodeRunner.cfg` | pass | Episodes of any caller and of the runner: nothing of an earlier episode counts (`OnlyThisEpisode`), limits cost no credit before the end (`CreditIsBounded`), the timeline is the transcript (`TimelineIsTranscript`), no action after a cancel, every run ends |
| `episode_hang` | `EpisodeRunnerHang.cfg` | violation | Does the wall clock limit stop a run? |
| `evaluation_service` | `EvaluationService.cfg` | pass | Rows, files and events against one another, under a cancel, deletions, a crash and a fault; batches end |
| `evaluation_service_cli` | `EvaluationServiceCli.cfg` | pass | The same database shared with a CLI run: `result.json` is written once |
| `evaluation_service_restart` | `EvaluationServiceRestart.cfg` | violation | Does a restart settle every run it finds? |
| `evaluation_service_cli_restart` | `EvaluationServiceCliRestart.cfg` | violation | Is a terminal record of the CLI final when the API starts? |
| `event_stream` | `EventStream.cfg` | pass | Order, loss only of what was pruned or deleted, a complete end, and the final event arrives |
| `provider_registry` | `ProviderRegistry.cfg` | pass | Whose result is shown, and what a restart would load |
| `provider_registry_overlap` | `ProviderRegistryOverlap.cfg` | violation | Is a result always of the endpoint it is shown for? |

### Bounds

- **Recovery session.** Two sources (the shipped one, an edited one), two settings (a
  budget of three, as in r0 and in a repair, and of one, as in r1), one workload,
  two service states, one file operation that fails, at most six audit entries. Two
  entries are there at the start, so four operations that are audited follow (the
  way to a closed incident is four: pause, restore, deploy, resume), with any
  number of edits and runs among them. That the gate asks for every workload needs
  more than one: the theorems of section 4 hold for any set of them. The violation,
  which needs a source to be replaced after a pass, has two interchangeable
  workloads and seven entries. `PassesOn` is given twice: in `recovery_session` a
  workload passes anywhere but on r1, since a flow of the agent may ask again after
  a transient (`AskingFlows`); in `recovery_session_gate` it passes only under a
  budget of three, as the shipped flow and the repairs of the repository do
  (`PlainFlows`), so that its counterexample is a run of that code. The theorems hold
  for any `PassesOn`.
- **Settlement.** Two runs, since a leftover of one run is all another run can
  meet; each of any script of the repository, under any of the four flows and
  budgets 0 (no attempt), 1 (the transient failure exhausts it) and 3 (it does
  not), for both profiles.
- **Episode.** Two controllers, so that one episode follows another (the first may
  have failed to start); a caller of two instances of different profiles, with
  limits of two actions and three bytes and a `max_steps` of two or none, where a
  read takes three bytes and every other action one: the limit of actions and the
  limit of bytes are each exceeded by the action that ends the episode, and
  `max_steps` ends it before. The runner has an instance of its own with a limit of three
  actions and six bytes, a `max_steps` of four, which it never reaches, two model calls, one
  retry of each and two calls of a response (four in the code), so that each limit
  is met and a response has a call dropped.
- **Evaluation.** One batch of two runs with two slots, so that both are in the
  provider call at once; one cancel, one crash and one failing operation at any
  step. Batches share only the database, whose operations name their rows, so
  one batch shows what more would. With the CLI there is one slot, which makes
  one of the runs wait at the semaphore.
- **Event stream.** A replay limit and a read limit of two and four events, so
  that a stream falls behind the window and needs more than one read; two idle
  ticks to a keep-alive instead of 40; one lost connection; one deleted event.
- **Registry.** Two endpoints, two versions, two changes of the settings, one
  restart, one failed save: enough for a change and a change back under one
  probe. At most one discovery and one probe are under way.

The proofs of section 4 hold for every value of the constants, these bounds
included.

### Deadlock

`CHECK_DEADLOCK FALSE` stands in the configurations of systems that really stop:
a closed session, a run that ended or a caller that waits for ever, a batch that
ended with the bounds of requests and crashes used up, a stream whose client has everything. `Settlement` is checked for
deadlock: a run in progress always has a next step, and an idle engine can be
restored.

### Fairness

- `Settlement`: weak fairness of `Step`. A run is one synchronous call; the engine
  goes on until it returns or raises. Starting a run or restoring is not fair:
  nobody has to.
- `EpisodeRunner`: weak fairness of the runner's own steps (`RunnerNext`). The loop
  schedules every task that can go on, an attempt of a completion has a timeout, a
  back-off is a timer. A call that never returns is a state without a step of the
  runner (`blocked`), which `EpisodeEnds` names; the cancellation, the deadline and
  the other caller have no fairness.
- `EvaluationService`: weak fairness of each process's steps, of each task that
  is ready (the asyncio loop is first in, first out, and a semaphore wakes its
  waiters), of the end of an episode (turns are counted and provider calls time
  out) and of the start of the API (a stopped server is started again; the
  property is about what that start does). Requests, crashes and failures have
  none.
- `EventStream`: weak fairness of the stream, of delivery and of the client's
  reconnection (`EventSource` does it by itself). Losing a connection is bounded,
  not fair.
- `RecoverySession` and `ProviderRegistry` have no fairness and no liveness: the
  agent and the operator may stop at any time.

### What the properties leave out

Some properties have an exception, because without it they do not hold and the
repository does not say that they should:

- `CapabilityIsFresh`, `ActiveIsDeployed` and `ClosedIsCredited` are claimed while
  no file operation has failed. A failing metadata write leaves the old epoch, a
  failing copy part of a workspace, which the verifier does not credit.
- `ClosedIsCredited` also asks that the candidate is as it was deployed: an edit
  after the resume makes the verifier refuse the provenance (`CandidateIsDeployed`).
  It claims the full grade and that the grade climbs with the workloads, not how
  much a rung is worth: see the end of section 5.
- `ImplementsContract`, `RepairPasses` and the first half of `TablesAgree` are about
  tables in which the shipped flow, which is the fault to be repaired, has not run
  since the restore.
- `OnlyThisEpisode` and `CreditIsBounded` are claimed after a reset that returned:
  after one that raised the environment may be open with the transcript of the
  episode before.
- `CreditIsBounded` allows the action that ends an episode to be one too many:
  `limits.py` compares with `>`, and an action that terminates is not truncated at
  all. It is then graded 0 as out of bounds.
- `EpisodeEnds` excepts a call that never returns, which is the finding of
  `episode_hang`.
- `RecordsOnDisk` excepts interrupted runs from the comparison of `result.json`
  with the row: a crash after the file was written and before the commit leaves
  the file, and the restart keeps it.
- `ActiveIsOwned` and `BatchesEnd` are about executions in which no operation
  failed (`gather` passes the first exception on, which leaves the batch running
  until a restart), and `BatchesEnd` excepts a server that cannot start again,
  which is the finding of `evaluation_service_restart`.
- `CancelEnds` is about a batch that is cancelled while its task lives.
- `NothingOfDeleted` is checked with the API alone. With a CLI process it does not
  hold: `append_event` does not look whether its run still exists.
- `EndIsComplete` excepts the end of a stream at a keep-alive and streams of a
  batch another process runs; `FinishArrives`, which has no such exception, says
  that the client gets the final event all the same. It excepts a batch that was
  deleted, whose stream goes on until the client leaves.
- `ProbeOfEndpoint` excepts a change of the endpoint under the probe, which is the
  finding of `provider_registry_overlap`; `ResultIsOfVersion` excepts in addition
  a probe that started from a list of another endpoint. It also rests on `Update`
  bringing a new version each time: where a server goes back to a digest it had
  before, a comparison of digests cannot tell what answered in between.

## 4 The proofs

`tlapm` checks every step of the seven modules `RecoverySession_proofs`,
`StrictVerifier_proofs`, `Settlement_proofs`, `EpisodeRunner_proofs`,
`EvaluationService_proofs`, `EventStream_proofs` and `ProviderRegistry_proofs`.
Unless it is about an operator, each theorem is `Spec => []Inv`, or `Spec => P` for an
action property or the refinement, for every value of the constants that satisfies
the named assumptions of the modules (the settings and sources of the fixture are
among those there are, the unreadable settings and the interrupted copy are not, scripts
look as `ScriptAssumption` says, bounds are natural numbers).

Five theorems of `EvaluationService` have the form `ApiOnly => (Spec => ...)`, with
`ApiOnly == Procs = {Api}`: they are about the API without a CLI process on the same
database. With one they are false, and that is no weakness of the proofs: the
restart of the API marks the runs of a CLI that lives, and
`evaluation_service_cli_restart` (finding 3) is a behaviour that violates
`TerminalIsFinal`. `RecordsOnDisk` and `ResultIsFinal` hold with both processes and are
proved for any set of them.

| Theorem | States | Argument |
|---|---|---|
| `RecoverySession_proofs!TypeCorrect` | `TypeOK` | inductive as it stands; it also says that the r0 and r1 rows keep the shipped source and readable settings, which the copies of a rollback need |
| `OpenCommitted` | `OpenIsCommitted` | by `OnlyServicePends`: intake, deployments, audit and proofs are never pending, only the service tables are, and only while intake is paused |
| `ProvenancePermanent` | `ProvenanceIsPermanent` | a proof's chain and position stay a prefix of the audit chain, since every operation appends to it |
| `RestoreValid` | `RestoreIsValid` | from the invariant of `ProvenancePermanent`; only `RecoveryRestore` adds a proof |
| `ClosedOnRecord` | `ClosedIsOnRecord` | by `PassesAreEarned` (a pass in the table has a receipt) and `OpenIsEarned` (an open intake is that of the start, before any pass, or that of a resume that found everything); the gate itself is not on record, so these two carry it from the resume to every later state. With file faults |
| `CapabilityFresh` | `CapabilityIsFresh` | `CapabilityInv`: no capability has an epoch of the future, so a new epoch ends all of them. With file faults, after which the property claims nothing |
| `ActiveDeployed` | `ActiveIsDeployed` | inductive with type correctness |
| `StrictVerifier_proofs!RewardIsMonotonic` | more true predicates, and no new abuse, never lower the score | the rung is the lowest of the missing ones (`ShortIsLowest`), and fewer are missing |
| `NoBetterGrade` | no transcript and no outcome of the workloads is graded above `BestScore` | the honest transcript with every workload passing has every predicate another one has (`BestPredicates`), and the ladder is monotonic |
| `FullRewardEarned` | `FullRewardIsEarned` | a score of 100 has all of `Mandatory` (`OnlyAllIsFull`), which needs a committed proof, an open intake on disk and a deployed candidate (`FullNeedsState`); `OpenIsEarned`, from the proof of `ClosedOnRecord`, says that an intake opened by a resume found every pass, and the initial intake has no proof. With file faults |
| `ClosedCredited` | `ClosedIsCredited` | a closed incident has its restore on record and a live candidate (`OpenIsEarned`, `ActiveDeployed`), and while intake is open the copied file is what the session reads (`OpenCommitted`): so the predicates the verifier computes from the copy are true (`ClosedIsVerified`), the ladder is a function of the workloads alone (`LadderOfWorkloads`), and it climbs with them (`CreditClimbs`) |
| `Settlement_proofs!TypeCorrect` | `TypeOK` | `Typed`, with `Live`: each command the run is past has a row of the journal, so `EventOf` has something to choose and the deliveries planned from it name rows that exist |
| `PassesAreExact` | `PassSettlesEach` | `Kept`: a flow that looks before it appends gives an occurrence one row (`OneRowEach`), a notification comes after a settlement (`SettledFirst`), and while a run delivers each event it owes is settled or in the queue (`Delivering`). A pass by totals then has at least one settlement for each event and as many as there are events: a surjection between sets of one size is an injection, whichever flows ran before |
| `ContractIsKept` | `ImplementsContract` | step by step from `Kept`: an append is `Accept`, the insertion of an effect is `Settle`, `Restore` is `Restore`, the first run of the shipped flow is `Careless`, everything else changes nothing of what the contract sees |
| `TablesAlwaysAgree` | `TablesAgree` | `OutboxKept`: a flow that deduplicates returns the oldest row of an occurrence (`AcceptedFirst`), and queue and intents name these rows (`QueueFirst`, `IntentsFirst`); a run of the outbox still has in its queue what has an open intent (`OpenQueued`), so an empty queue leaves none |
| `RepairsPass` | `RepairPasses` | `RepairKept`: one effect of a kind for each event (`OneEffectEach`), a notification only where the workload has one and there by the end (`EffectsNotify`, `NotifyOwed`), the last delivery leaves the cursor past all (`CursorLast`, by `Ordered`: the occurrences of a script that judges the cursor have their rows in its order), and one failed attempt at most (`Tries`), which the budget covers. A judged script is not refused a command, since the rows of its occurrences came from the same commands |
| `EpisodeRunner_proofs!TypeCorrect` | `TypeOK` | with `Budgets`: a completion is asked for only while model calls are left, a tool call is made only while the response has one |
| `OnlyOneEpisode` | `OnlyThisEpisode` | `Recorded`: while the episode goes on the handle the environment holds is that of the last run in the transcript, or the session has issued none, and then the handle reset left is refused; every entry has its place, since actions are counted as they are recorded (`EnvSteps` is what a step of either kind of caller is to the environment) |
| `ReportIsTranscript` | `TimelineIsTranscript` | `Agreed`: at every phase, unless a call hangs, the timeline equals the transcript, and a grade exists only where no action can follow it (`GradeIsLast`) |
| `NoActionAfterCancelled` | `NoActionAfterCancel` | the flag is looked at before each call; with `CancelledLater`, that no run is cancelled before its reset |
| `CreditBounded` | `CreditIsBounded` | `Counted`: while the episode goes on the counters are within the limits, and one action is left within `max_steps`; with `Recorded`, the number of actions is that of the entries, and the bytes are a sum of their sizes that does not depend on the order (`IsSum`, which an appended entry extends, `SumOfAppended`). The verifier's recount takes them in the order `CHOOSE` gives and is such a sum (`RecountIsSum`, by induction on the subsets of the positions) |
| `EvaluationService_proofs!TypeCorrect` | `TypeOK` | with `TodoOK`: what a handler has still to do is a program, a sequence in which each operation has what must follow it (`Program`); every handler starts one and every tail of one is one (`TailOfProgram`) |
| `RecordsCorrect` | `RecordsOnDisk` | `DiskInv`: `Held` says what is true when an operation is next, `Pending` what is true while it is still to come. What matters is that between the write of `result.json` and its commit the row is active, the file has the status of the commit and the process holds the lock, and that a deletion renames a directory only of a run that has ended |
| `ResultsCorrect` | `ResultIsFinal` | by operation: finalizing raises where there is a file (`ResultRefused`), the restart passes over it, and only the removal of the directory takes it away |
| `BatchesSettle`, `ActiveAreOwned`, `AnnouncedAreFinal`, `DeletedLeaveNothing` | `BatchSettled`, `ActiveIsOwned`, `AnnouncedIsFinal`, `NothingOfDeleted`, for the API alone | one invariant, `Alone`: these four with what they need of each other. A run of a batch that gathers is waited for by a worker, is being finalized, or the gathering has not begun (`Served`); a status that ends a batch, and an event that announces an end, is next only when the rows have ended (`HeadsAlone`); nothing still to be done is about a deleted batch (`PendingsAlone`); a stopped API has no task (`Memory`) |
| `TerminalStays` | `TerminalIsFinal`, for the API alone | `finalize` and `progress` look at the status within their transaction, and the rows a restart marks are exactly the active ones, since nothing else runs between its read and its commit |
| `EventStream_proofs!TypeCorrect` | `TypeOK` | with `AllSent`; that at most `ReplayLimit` rows are kept is `KeptIsBounded`: the oldest row kept has all the others above it |
| `EventsInOrder` | `InOrder` | `OrderOK`: received, on its way, the cursor, what was read and not sent are one ascending sequence; `events_after` reads ascending since every rank is that of one row (`RankOnto`, an injection into a set of its own size) |
| `NothingRecentMissed` | `MissedOnlyOld` | `LogCovers`: an appended event is stored, removed or old; `SentOK`: what the cursor has passed is received, on its way or gone, and what was read has no gap. An event pruned has `ReplayLimit` rows above it and so as many appended after it (`PrunedIsOld`) |
| `StreamEndsComplete` | `EndIsComplete` | a read that finds nothing has no row after the cursor |
| `ProviderRegistry_proofs!TypeCorrect` | `TypeOK` | with the shape of a probe and a discovery under way, and of the file |
| `DiskCurrent` | `DiskIsMemory` | inductive: every change of memory is followed by a save in the same step |
| `ProbeEndpoint` | `ProbeOfEndpoint` | `EndpointInv` says of memory, of the file and of the probe under way that the endpoint asked is the one the record is bound to, or will be; the file is needed because a restart loads it |
| `ResultVersion` | `ResultIsOfVersion` | `VersionInv` orders three versions of a server that only grow: the one listed when the probe started, the one that answered, the one served now; a valid record beside an up-to-date list closes the interval |

`TypeOK`, the invariants and the strengthenings were first checked by TLC. The
theorems are proved of the definitions the runs check; nothing is assumed beyond
the modules' assumptions.

Every safety property of a passing run is a theorem. Only model-checked is liveness:
`RunsEnd`, `EpisodeEnds`, `BatchesEnd`, `CancelEnds` and `FinishArrives`, since liveness under
fairness and `ENABLED` are beyond the proof system. Only model-checked, too, is that
the scripts of `SettlementWorkloads` satisfy `ScriptAssumption`, which TLC evaluates on
them. Induction over data is beyond the provers where the library states it for an
operator; the one fold of the models is reasoned about with the well-foundedness of
the natural numbers instead (`LeastNumber`, `SubsetInduction`), and everything else
that repeats is a step of the state machine (recursion over scripts is `run.next` and
`run.queue`).

## 5 Findings

1. **Passes outlive the code they were earned by** (`recovery_session_gate`,
   `session.py:614`). Passes are kept by the root of the settings file; a candidate
   with other source files and the same settings is resumed on passes of the code
   it replaced. The counterexample pauses, restores, rolls back to r0, passes the
   workloads there, gives the candidate r0's settings and another source, deploys
   and resumes: the incident is reported closed on a source no workload ran on. The
   audit of that gate (`research/grok-milestone-2-targeted-reaudit.md:262`) calls
   this very sequence blocked; it is so only where the settings differ as well.
2. **A crash while a run is created stops every later start**
   (`evaluation_service_restart`, `persistence.py:161`). The row is committed before
   the directory is made; the next start writes `result.json` into a directory
   that is missing, raises, and so does every start after it.
3. **A starting API overwrites a terminal record of the CLI**
   (`evaluation_service_cli_restart`, `persistence.py:508`). The active rows are read
   before the transaction and updated without looking again.
4. **A probe result is bound to the endpoint of its end, not of its request**
   (`provider_registry_overlap`, `registry.py:665`).
5. **A flow that does not end stops the process** (`episode_hang`, `runner.py:318`).
   Calls of the environment are made in the event loop without a timeout; neither
   the wall clock limit nor a cancellation of any run is looked at again.

Each is recorded with the sentence it contradicts in `PROJECT.json`.

One more disagreement needs no run, since it is in the text of `reward.py` itself.
The ladder of the code is read by what is missing, the table of
`docs/VERIFIER.md:23-30` by what is there, and the two are a rung apart:

| Of the workloads pass | `reward.py:87-94` (and `Reward`) | `docs/VERIFIER.md:27-29` |
|---|---|---|
| none | 0.55 | below 0.55 |
| the public ones | 0.70 | 0.55 |
| the public and the shared ones | 0.85 | 0.70 |

(all other evidence given). Below them the code has 0.10 for an investigation without
a diagnostic and 0.25 for one without a recovery, the table 0.1 and 0.15 for kinds
of evidence. `research/grok-final-integrated-adversarial-audit.md:206` measured 0.70
for passing public workloads, as the code has it. `Reward` follows the code, and no property asserts
a value of either: `ClosedIsCredited` states what both agree on, the full grade and
the order of the rungs.

## 6 What is not modelled

- Within the modelled components: the read-only tools and routes, origin checks,
  export, hashing of diffs, the schema version, telemetry and the replay script of
  `telemetry.trace`, credentials and the reachability statuses, per-run event
  scopes, the tombstones of deleted directories. A wait for SQLite's write lock is
  a wait (the code gives up after five seconds), and a Ctrl-C of the CLI is left
  out; a crash is in.
- Inside an episode: messages and their roles (the calls of a response beyond the
  fourth are dropped but stay in the message that is sent back), prices, the
  reason a run reports, the candidate diff. `EvaluationService` takes any end an
  episode may have; that `EpisodeRunner` has no other is read off `outcome.status`
  and not stated as a refinement.
- The composition of `IncidentEnv` with `RecoverySession`: the environment takes what
  a session can be (its `After`), and the grade of `StrictVerifier` is about the
  session's state. One product of the two would be too large for TLC.
- The verifier's Merkle trees and its scan of names, the JSON of the pipe, the
  temporary directory of the controller's key.
- Fixture generation, manifests, policies, schemas, sanitizing, comparison, provider
  adapters: functions of their input without state of their own.
- Training adapters beyond the restraint of their callers: the gym wrapper makes a new
  environment for another seed, where the model resets the one it has; the rest
  forwards one call at a time.
- Dashboard pages, scripts, research, evidence: user interface and records.
- The order of asyncio tasks that are ready together: any order is allowed, which
  includes the one the loop takes.

## 7 The plan

Built in this order, the most important behaviour first:

1. `RecoverySession` - what an episode can do, and every gate. *Done, with
   theorems.*
2. `SettlementContract`, `Settlement`, `SettlementWorkloads` - what a workload does
   and whether a verdict is right. *Done, with theorems.*
3. `Reward`, `StrictVerifier` - what a session is worth. *Done, with theorems.*
4. `IncidentEnv`, `EpisodeRunner` - episodes and what runs them. *Done,
   with theorems.*
5. `EvaluationStore`, composed by `EvaluationService` - durability and
   concurrency. *Done, with theorems.*
6. `EventStream` and `ProviderRegistry` - the two other concurrent parts of the
   API. *Done, with theorems.*

Left: that the outcomes `EvaluationService` gives an episode are those `EpisodeRunner`
can end with, stated as a refinement of an abstract episode that both use; the
composition of `IncidentEnv` with what `RecoverySession` promises of its trace epoch.
No module declares a recursive operator, so all of them can be proved about.
