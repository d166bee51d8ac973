--------------------------- MODULE RecoverySession ---------------------------
(***************************************************************************)
(* The incident-recovery session: agent_surface/session.py over            *)
(* event_service_substrate/store.py, as one client drives it through the   *)
(* tool surface.  An agent edits a candidate workspace, pauses intake,     *)
(* runs workloads, restores the authenticated snapshot, rolls back or      *)
(* deploys, and resumes intake; the session decides what it may do.        *)
(*                                                                         *)
(* What is kept: the SQLite tables the decisions read (runtime_state,      *)
(* deployments, audit_chain, recovery_proofs, and the service tables as    *)
(* one opaque root), the difference between what the open connection sees  *)
(* and what is committed to the file the verifier copies, the workspaces,  *)
(* the in-memory pass table, the receipts and the trace epoch.             *)
(*                                                                         *)
(* What is abstracted: a workspace is its pair of roots; a digest is the   *)
(* thing it digests (so the audit root is the chain itself); an audit      *)
(* entry is its kind, and a proof keeps the fields a check compares; the   *)
(* fake clock only stamps the order the chain already has; of the receipts *)
(* the set of passing public ones is kept, since no decision reads the     *)
(* others or their order; of the trace capabilities handed out, one,       *)
(* arbitrary, is followed; what a workload does to the service tables, and *)
(* whether it passes where it can, is any outcome (module Settlement       *)
(* models that engine); a settings file cut short counts as missing.       *)
(***************************************************************************)
EXTENDS Naturals, Sequences

CONSTANTS
    Sources,        \* roots of the code files of a workspace
    InitialSource,  \* ... the one the fixture ships, shared by r0 and r1
    MixedSource,    \* ... what an interrupted copy leaves behind: some of
                    \* the files only, or one that is cut short
    Configs,        \* roots of settings.toml
    R0Config,       \* ... attempt budget 3, last known good
    R1Config,       \* ... attempt budget 1, active when the session opens
    Unreadable,     \* settings.toml is missing from the active workspace
    Workloads,      \* the public workloads P1, P2, P3
    PassesOn,       \* PassesOn[w]: the workspaces on which w can pass at all
    ServiceStates,  \* roots of the six service tables
    SnapshotState,  \* ... the one snapshot S0 holds
    IncidentState,  \* ... the seeded incident history
    KeepSources,    \* does a receipt keep the source it was given for?  Only
                    \* ResumedCodePassed asks; without it there are fewer states
    MaxFaults,      \* how many file operations may fail
    MaxAudit        \* bound of the audit chain, for model checking

ASSUME SourceAssumption == InitialSource \in Sources /\ MixedSource \notin Sources
ASSUME ConfigAssumption ==
    {R0Config, R1Config} \subseteq Configs /\ Unreadable \notin Configs
ASSUME WorkloadAssumption == Workloads # {}
ASSUME PassesOnAssumption == \A w \in Workloads : PassesOn[w] \subseteq
    [source : Sources \cup {MixedSource}, config : Configs]
ASSUME ServiceAssumption == {SnapshotState, IncidentState} \subseteq ServiceStates
ASSUME HistoryAssumption == KeepSources \in BOOLEAN
ASSUME BoundAssumption == MaxFaults \in Nat /\ MaxAudit \in Nat

VARIABLES
    (* the database, as the session's open connection reads it *)
    intake, service, deployments, audit, proofs,
    disk,                     \* the last committed value of those tables
    (* the session directory *)
    active, candidate,
    faults,                   \* file operations that have failed so far
    (* the memory of the controller process *)
    receipts, passes, epoch, closed,
    handle                    \* the trace capability the client holds on to

tables == <<intake, service, deployments, audit, proofs>>
memory == <<receipts, passes, epoch, closed, handle>>
workspaces == <<active, candidate>>
vars == <<tables, disk, workspaces, memory, faults>>

(***************************************************************************)
(* Values.                                                                 *)
(***************************************************************************)
Revisions == {"r0", "r1", "candidate"}
Statuses == {"placeholder", "available", "active"}
NoArtifact == "none"                 \* the roots of the placeholder candidate row

Workspaces == [source : Sources \cup {MixedSource},
               config : Configs \cup {Unreadable}]
DeploymentRows == [source : Sources \cup {NoArtifact},
                   config : Configs \cup {NoArtifact}, status : Statuses]
Deployments == {d \in [Revisions -> DeploymentRows] :
                   \A r \in {"r0", "r1"} :
                       d[r].source = InitialSource /\ d[r].config \in Configs}
AuditKinds == {"deployment_activate", "deployment_rollback", "snapshot_create",
               "snapshot_restore", "intake_pause", "intake_resume"}
Proofs == [post : ServiceStates, prior : Seq(AuditKinds), seq : Nat]
Receipts == [workload : Workloads, config : Configs,
             source : Sources \cup {MixedSource}]
Grants == [epoch : Nat, run : BOOLEAN, source : Sources \cup {MixedSource},
           config : Configs, restores : Nat]

Database == [intake |-> intake, service |-> service, deployments |-> deployments,
             audit |-> audit, proofs |-> proofs]
Databases == [intake : {"open", "paused"}, service : ServiceStates,
              deployments : Deployments, audit : Seq(AuditKinds), proofs : Seq(Proofs)]
Commit == disk' = Database'

TypeOK ==
    /\ intake \in {"open", "paused"}
    /\ service \in ServiceStates
    /\ deployments \in Deployments
    /\ audit \in Seq(AuditKinds)
    /\ proofs \in Seq(Proofs)
    /\ disk \in Databases
    /\ active \in Workspaces
    /\ candidate \in [source : Sources, config : Configs]
    /\ faults \in Nat
    /\ receipts \subseteq Receipts
    /\ passes \in [Configs -> SUBSET Workloads]
    /\ epoch \in Nat
    /\ closed \in BOOLEAN
    /\ handle \in Grants

(***************************************************************************)
(* Helpers of the handlers.                                                *)
(***************************************************************************)
Readable == active.config \in Configs

\* append_audit; the bound keeps the chain finite for model checking.
Audited(kind) ==
    /\ Len(audit) < MaxAudit
    /\ audit' = Append(audit, kind)

\* Seeded fault: the tools forget to require that intake is paused.
RequireNothing == ~closed

\* A tool call that reaches its handler with intake paused.
RequireIntakePaused == ~closed /\ intake = "paused"

ActiveRevisions == {r \in Revisions : deployments[r].status = "active"}

IncidentClosed ==
    /\ Readable
    /\ intake = "open"
    /\ Workloads \subseteq passes[active.config]

\* Seeded fault: the proof must name the head of the chain, not an entry of it.
ProvenanceOfHead ==
    /\ proofs # <<>>
    /\ proofs[Len(proofs)].seq = Len(audit)
    /\ SubSeq(audit, 1, Len(audit) - 1) = proofs[Len(proofs)].prior

\* The latest proof is backed by the audit entry and the audit prefix it names.
RecoveryProvenanceExists ==
    LET proof == proofs[Len(proofs)]
    IN  /\ proofs # <<>>
        /\ proof.post = SnapshotState
        /\ proof.seq \in 1..Len(audit)
        /\ audit[proof.seq] = "snapshot_restore"
        /\ SubSeq(audit, 1, proof.seq - 1) = proof.prior

RecoveryIsValid ==
    /\ RecoveryProvenanceExists
    /\ proofs[Len(proofs)].seq = Len(audit)
    /\ service = proofs[Len(proofs)].post

(***************************************************************************)
(* The session opens over a fixture whose snapshot S0 was taken before the *)
(* incident history was seeded.                                            *)
(***************************************************************************)
InitialDeployments ==
    [r \in Revisions |->
        IF r = "candidate"
        THEN [source |-> NoArtifact, config |-> NoArtifact, status |-> "placeholder"]
        ELSE [source |-> InitialSource,
              config |-> IF r = "r0" THEN R0Config ELSE R1Config,
              status |-> IF r = "r0" THEN "available" ELSE "active"]]

InitialWorkspace == [source |-> InitialSource, config |-> R1Config]

InitialAudit == <<"deployment_activate", "snapshot_create">>

Init ==
    /\ intake = "open"
    /\ service = IncidentState
    /\ deployments = InitialDeployments
    /\ audit = InitialAudit
    /\ proofs = <<>>
    /\ disk = Database
    /\ active = InitialWorkspace
    /\ candidate = InitialWorkspace
    /\ faults = 0
    /\ receipts = {}
    /\ passes = [c \in Configs |-> {}]
    /\ epoch = 1
    /\ closed = FALSE
    /\ handle = [epoch |-> 1, run |-> FALSE, source |-> InitialSource,
                 config |-> R1Config, restores |-> 0]

(***************************************************************************)
(* Tools that change state.                                                *)
(***************************************************************************)

\* workspace.edit: replace one file of the candidate workspace.
WorkspaceEdit ==
    /\ ~closed
    /\ \/ \E s \in Sources : candidate' = [candidate EXCEPT !.source = s]
       \/ \E c \in Configs : candidate' = [candidate EXCEPT !.config = c]
    /\ UNCHANGED <<tables, disk, active, memory, faults>>

\* recovery.pause
RecoveryPause ==
    /\ ~closed
    /\ intake = "open"
    /\ intake' = "paused"
    /\ Audited("intake_pause")
    /\ UNCHANGED <<service, deployments, proofs>>
    /\ Commit
    /\ UNCHANGED <<workspaces, memory, faults>>

\* What the engine does to the service tables, and the capability of the
\* present epoch that the receipt carries.
EngineRuns ==
    /\ RequireIntakePaused
    /\ Readable
    /\ service' \in ServiceStates
    /\ UNCHANGED <<intake, deployments, audit, proofs, workspaces, epoch, closed,
                   faults>>

CapabilityIssued ==
    handle' \in {handle, [epoch |-> epoch, run |-> TRUE, source |-> active.source,
                          config |-> active.config, restores |-> Len(proofs)]}

Kept(source) == IF KeepSources THEN source ELSE InitialSource

\* The engine injects a transient failure at the first settlement of P1 and P2,
\* and at an attempt budget of one nobody asks again: unless the flow itself does,
\* the run raises.
CanPass(w) == active \in PassesOn[w]

\* runtime.run returns the receipt of a public workload that passed: the tables
\* are committed and the pass is recorded under the active settings.
RunPasses(w) ==
    /\ EngineRuns
    /\ CanPass(w)
    /\ Commit
    /\ CapabilityIssued
    /\ receipts' = receipts \cup {[workload |-> w, config |-> active.config,
                                   source |-> Kept(active.source)]}
    /\ passes' = [passes EXCEPT ![active.config] = @ \cup {w}]

\* runtime.run returns a receipt of a failed validation or of a diagnostic.
RunDoesNotPass ==
    /\ EngineRuns
    /\ Commit
    /\ CapabilityIssued
    /\ UNCHANGED <<receipts, passes>>

\* runtime.run raises: what the engine wrote so far stays in the open
\* transaction, is visible to every later call, and is not committed.
RunRaises ==
    /\ EngineRuns
    /\ UNCHANGED <<disk, receipts, passes, handle>>

\* Seeded fault: the proof names the entry before its own.
RestoreProofOffByOne == [post |-> SnapshotState, prior |-> audit, seq |-> Len(audit)]

\* What the proof of a restore authenticates: the service tables it left, the
\* audit chain it found and its own place in that chain.
RestoreProof == [post |-> SnapshotState, prior |-> audit, seq |-> Len(audit) + 1]

\* recovery.restore: one transaction replaces the service tables by those of
\* S0 and records an authenticated proof.  Only then is the pass table touched,
\* under the key of the active settings file; when that file is missing the
\* handler raises between the two.
RecoveryRestore ==
    /\ RequireIntakePaused
    /\ service' = SnapshotState
    /\ Audited("snapshot_restore")
    /\ proofs' = Append(proofs, RestoreProof)
    /\ UNCHANGED <<intake, deployments>>
    /\ Commit
    /\ IF Readable
       THEN /\ passes' = [passes EXCEPT ![active.config] = {}]
            /\ epoch' = epoch + 1
       ELSE UNCHANGED <<passes, epoch>>
    /\ UNCHANGED <<workspaces, receipts, closed, handle, faults>>

\* Seeded faults: the UPDATE of the candidate row has no WHERE clause; the old
\* active row is not set back to available.
ActivatedEverywhere(r, a) ==
    [q \in Revisions |-> [source |-> a.source, config |-> a.config,
                          status |-> IF q = r THEN "active" ELSE "available"]]
ActivatedTwice(r, a) ==
    [deployments EXCEPT ![r] = [source |-> a.source, config |-> a.config,
                                status |-> "active"]]

\* The deployments table once revision r, holding artifact a, is the active one.
Activated(r, a) ==
    [q \in Revisions |->
        IF q = r THEN [source |-> a.source, config |-> a.config, status |-> "active"]
                 ELSE [deployments[q] EXCEPT !.status = "available"]]

\* The committed part of release.rollback and of release.deploy.
Release(r, a, kind) ==
    /\ active' = a
    /\ deployments' = Activated(r, a)
    /\ Audited(kind)
    /\ UNCHANGED <<intake, service, proofs>>
    /\ Commit
    /\ UNCHANGED <<candidate, receipts, passes, closed, handle>>

RollbackCommitted ==
    /\ RequireIntakePaused
    /\ \E r \in {"r0", "r1"} :
        Release(r, [source |-> InitialSource, config |-> deployments[r].config],
                "deployment_rollback")

\* The settings are compared only where the sources are equal, and only then does
\* the handler raise when the settings file of the active workspace is missing.
CandidateChanged ==
    \/ candidate.source # active.source
    \/ Readable /\ candidate.config # active.config

DeployCommitted ==
    /\ RequireIntakePaused
    /\ CandidateChanged
    /\ Release("candidate", candidate, "deployment_activate")

\* Seeded fault: a deploy leaves the capabilities of the old revision alive.
DeployWithoutBump == DeployCommitted /\ UNCHANGED <<epoch, faults>>

ReleaseRollback == RollbackCommitted /\ epoch' = epoch + 1 /\ UNCHANGED faults
ReleaseDeploy == DeployCommitted /\ epoch' = epoch + 1 /\ UNCHANGED faults

\* Seeded fault: resume does not ask for an authenticated restore.
ResumeGateWithoutProvenance ==
    /\ ActiveRevisions = {"candidate"}
    /\ Readable
    /\ Workloads \subseteq passes[active.config]

\* What recovery.resume asks for before it opens intake.
ResumeGate ==
    /\ ActiveRevisions = {"candidate"}
    /\ RecoveryProvenanceExists
    /\ Readable
    /\ Workloads \subseteq passes[active.config]

ResumeCommitted ==
    /\ RequireIntakePaused
    /\ ResumeGate
    /\ intake' = "open"
    /\ Audited("intake_resume")
    /\ UNCHANGED <<service, deployments, proofs>>
    /\ Commit
    /\ UNCHANGED <<workspaces, receipts, passes, closed, handle>>

\* recovery.resume
RecoveryResume == ResumeCommitted /\ epoch' = epoch + 1 /\ UNCHANGED faults

\* The session closes: the connection is dropped with whatever it had not
\* committed, and no capability is of the new epoch.
Close ==
    /\ ~closed
    /\ closed' = TRUE
    /\ epoch' = epoch + 1
    /\ intake' = disk.intake
    /\ service' = disk.service
    /\ deployments' = disk.deployments
    /\ audit' = disk.audit
    /\ proofs' = disk.proofs
    /\ UNCHANGED <<disk, workspaces, receipts, passes, handle, faults>>

(***************************************************************************)
(* File operations that fail.  A copy deletes the old files, in any order, *)
(* before it writes the new ones: one that fails leaves some of either in  *)
(* the active workspace, or all, and has changed no table.  A metadata     *)
(* file that cannot be written is reported as an error after the tables    *)
(* are committed and before the trace epoch is bumped.                     *)
(***************************************************************************)
FileOperationFails == faults < MaxFaults /\ faults' = faults + 1

CopyFails(new) ==
    /\ FileOperationFails
    /\ RequireIntakePaused
    /\ \E side \in {active, new} :
        active' \in [source : {side.source, MixedSource},
                     config : {side.config, Unreadable}]
    /\ UNCHANGED <<tables, disk, candidate, memory>>

RollbackCopyFails == CopyFails(InitialWorkspace)

DeployCopyFails ==
    /\ CandidateChanged
    /\ CopyFails(candidate)

MetadataWriteFails ==
    /\ FileOperationFails
    /\ RollbackCommitted \/ DeployCommitted \/ ResumeCommitted
    /\ UNCHANGED epoch

Next ==
    \/ WorkspaceEdit
    \/ RecoveryPause
    \/ \E w \in Workloads : RunPasses(w)
    \/ RunDoesNotPass
    \/ RunRaises
    \/ RecoveryRestore
    \/ ReleaseRollback
    \/ ReleaseDeploy
    \/ RecoveryResume
    \/ Close
    \/ RollbackCopyFails
    \/ DeployCopyFails
    \/ MetadataWriteFails

Spec == Init /\ [][Next]_vars

(***************************************************************************)
(* Properties.                                                             *)
(***************************************************************************)

\* What the deployments table says is live is what the active workspace holds:
\* exactly one revision is active, and its artifact is the active workspace.
\* Every caller of _active_revision_label relies on the first half, and the
\* resume gate on the second.  A copy that stops half way leaves neither the old
\* nor the new workspace, so it is claimed while no file operation has failed.
ActiveIsDeployed == faults = 0 =>
    \E r \in Revisions :
        /\ ActiveRevisions = {r}
        /\ deployments[r].source = active.source
        /\ deployments[r].config = active.config

\* A capability that still validates describes the present: the workspace it was
\* issued under is still active, no snapshot was restored since, and one issued
\* by a run is usable only while intake is paused.  A restore, a rollback, a
\* deploy, a resume or the close of the session puts an end to it.  A metadata
\* file that cannot be written leaves the epoch behind, so it is claimed while no
\* file operation has failed.
CapabilityIsFresh ==
    faults = 0 /\ handle.epoch = epoch =>
        /\ ~closed
        /\ handle.source = active.source
        /\ handle.config = active.config
        /\ handle.restores = Len(proofs)
        /\ handle.run => intake = "paused"

\* When the session reports the incident closed, the way there is on record: the
\* audit chain ends with the resume, a restore is authenticated, a candidate is
\* the live revision, and a receipt shows every public workload passing under
\* the active settings.
ClosedIsOnRecord ==
    IncidentClosed =>
        /\ audit[Len(audit)] = "intake_resume"
        /\ RecoveryProvenanceExists
        /\ ActiveRevisions = {"candidate"}
        /\ \A w \in Workloads : \E r \in receipts :
            r.workload = w /\ r.config = active.config

\* The proof of a restore keeps verifying whatever is appended to the audit
\* chain afterwards: resume never finds that the provenance has gone.
ProvenanceIsPermanent == proofs # <<>> => RecoveryProvenanceExists

\* A restore leaves a state that recovery_is_valid accepts at once.
RestoreIsValid == [][proofs' # proofs /\ ~closed' => RecoveryIsValid']_vars

\* While intake is open nothing is pending on the connection, so the copy of the
\* database file that the verifier takes of a closed incident is the state the
\* session reported; what a raising run left behind is committed or gone by then.
OpenIsCommitted == intake = "open" => disk = Database

\* Intake opens only on code that passed: at a resume, every public workload has
\* passed on the source and the settings now active, so passes of r0 do not let
\* an unsafe candidate resume
\* (research/grok-milestone-2-targeted-reaudit.md:262, :282; recovery_resume).
ResumedCodePassed ==
    [][intake = "paused" /\ intake' = "open" /\ ~closed' =>
        \A w \in Workloads : \E r \in receipts :
            r.workload = w /\ r.config = active.config
                           /\ r.source = active.source]_vars
=============================================================================
