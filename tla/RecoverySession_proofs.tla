------------------------ MODULE RecoverySession_proofs ------------------------
(***************************************************************************)
(* Theorems of RecoverySession for every choice of sources, settings,      *)
(* workloads, service states and bounds.                                   *)
(***************************************************************************)
EXTENDS RecoverySession, TLAPS

LEMMA ActivatedType ==
    ASSUME deployments \in Deployments,
           NEW r \in Revisions,
           NEW a \in [source : Sources, config : Configs],
           r \in {"r0", "r1"} => a.source = InitialSource
    PROVE  Activated(r, a) \in Deployments
<1> DEFINE row(q) == IF q = r
                     THEN [source |-> a.source, config |-> a.config, status |-> "active"]
                     ELSE [deployments[q] EXCEPT !.status = "available"]
<1>1. ASSUME NEW q \in Revisions
      PROVE  /\ row(q) \in DeploymentRows
             /\ q \in {"r0", "r1"} =>
                    row(q).source = InitialSource /\ row(q).config \in Configs
  <2>1. deployments[q] \in DeploymentRows
    BY DEF Deployments
  <2>2. CASE q = r
    BY <2>2 DEF DeploymentRows, Statuses
  <2>3. CASE q # r
    BY <2>1, <2>3 DEF Deployments, DeploymentRows, Statuses
  <2> QED
    BY <2>2, <2>3
<1>2. Activated(r, a) = [q \in Revisions |-> row(q)]
  BY DEF Activated
<1> HIDE DEF row
<1>3. {"r0", "r1"} \subseteq Revisions
  BY DEF Revisions
<1> QED
  BY <1>1, <1>2, <1>3 DEF Deployments

(***************************************************************************)
(* The type invariant.                                                     *)
(***************************************************************************)
LEMMA InitType == Init => TypeOK
<1> SUFFICES ASSUME Init PROVE TypeOK
  OBVIOUS
<1>1. InitialDeployments \in Deployments
  BY SourceAssumption, ConfigAssumption
     DEF InitialDeployments, Deployments, DeploymentRows, Revisions, Statuses
<1>2. audit \in Seq(AuditKinds)
  BY DEF Init, InitialAudit, AuditKinds
<1>3. disk \in Databases
  BY <1>1, <1>2, ServiceAssumption DEF Init, Database, Databases
<1>4. active \in Workspaces /\ candidate \in [source : Sources, config : Configs]
  BY SourceAssumption, ConfigAssumption DEF Init, InitialWorkspace, Workspaces
<1>5. handle \in Grants
  BY SourceAssumption, ConfigAssumption DEF Init, Grants
<1>6. proofs \in Seq(Proofs) /\ receipts \subseteq Receipts /\ service \in ServiceStates
  BY ServiceAssumption DEF Init
<1> QED
  BY <1>1, <1>2, <1>3, <1>4, <1>5, <1>6 DEF Init, TypeOK
LEMMA CommitType ==
    ASSUME intake' \in {"open", "paused"}, service' \in ServiceStates,
           deployments' \in Deployments, audit' \in Seq(AuditKinds),
           proofs' \in Seq(Proofs), Commit
    PROVE  disk' \in Databases
BY DEF Commit, Database, Databases

LEMMA CapabilityType ==
    ASSUME TypeOK, Readable, CapabilityIssued
    PROVE  handle' \in Grants
<1>1. epoch \in Nat /\ Len(proofs) \in Nat /\ handle \in Grants
  BY DEF TypeOK
<1>2. active.source \in Sources \cup {MixedSource} /\ active.config \in Configs
  BY DEF TypeOK, Workspaces, Readable
<1> DEFINE issued == [epoch |-> epoch, run |-> TRUE, source |-> active.source,
                      config |-> active.config, restores |-> Len(proofs)]
<1>3. issued \in Grants
  BY <1>1, <1>2, Zenon DEF Grants
<1>4. handle' \in {handle, issued}
  BY DEF CapabilityIssued
<1> HIDE DEF issued
<1> QED
  BY <1>1, <1>3, <1>4

LEMMA StepType == TypeOK /\ [Next]_vars => TypeOK'
<1> SUFFICES ASSUME TypeOK, [Next]_vars PROVE TypeOK'
  OBVIOUS
<1> USE DEF tables, memory, workspaces
<1>1. CASE WorkspaceEdit
  BY <1>1 DEF WorkspaceEdit, TypeOK
<1>2. CASE RecoveryPause
  <2>1. audit' \in Seq(AuditKinds)
    BY <1>2 DEF RecoveryPause, Audited, AuditKinds, TypeOK
  <2> QED
    BY <1>2, <2>1, CommitType DEF RecoveryPause, TypeOK
<1>3. ASSUME NEW w \in Workloads, RunPasses(w)
      PROVE  TypeOK'
  <2>1. handle' \in Grants /\ Readable
    BY <1>3, CapabilityType DEF RunPasses, EngineRuns
  <2>2. receipts' \subseteq Receipts
    BY <1>3, <2>1, SourceAssumption DEF RunPasses, Kept, Readable, TypeOK, Receipts, Workspaces
  <2>3. passes' \in [Configs -> SUBSET Workloads]
    BY <1>3, <2>1 DEF RunPasses, Readable, TypeOK
  <2> QED
    BY <1>3, <2>1, <2>2, <2>3, CommitType DEF RunPasses, EngineRuns, TypeOK
<1>4. CASE RunDoesNotPass
  <2>1. handle' \in Grants
    BY <1>4, CapabilityType DEF RunDoesNotPass, EngineRuns
  <2> QED
    BY <1>4, <2>1, CommitType DEF RunDoesNotPass, EngineRuns, TypeOK
<1>5. CASE RunRaises
  BY <1>5 DEF RunRaises, EngineRuns, TypeOK
<1>6. CASE RecoveryRestore
  <2>1. audit' \in Seq(AuditKinds)
    BY <1>6 DEF RecoveryRestore, Audited, AuditKinds, TypeOK
  <2>2. proofs' \in Seq(Proofs)
    BY <1>6, ServiceAssumption DEF RecoveryRestore, RestoreProof, TypeOK, Proofs
  <2>3. passes' \in [Configs -> SUBSET Workloads] /\ epoch' \in Nat
    BY <1>6 DEF RecoveryRestore, Readable, TypeOK
  <2> QED
    BY <1>6, <2>1, <2>2, <2>3, ServiceAssumption, CommitType DEF RecoveryRestore, TypeOK
<1>7. ASSUME RollbackCommitted \/ DeployCommitted, epoch' \in Nat, faults' \in Nat
      PROVE  TypeOK'
  <2>1. PICK r \in Revisions, a \in [source : Sources, config : Configs], k \in AuditKinds :
            /\ Release(r, a, k)
            /\ r \in {"r0", "r1"} => a.source = InitialSource
    <3>1. CASE RollbackCommitted
      <4>1. PICK r \in {"r0", "r1"} :
              Release(r, [source |-> InitialSource, config |-> deployments[r].config],
                      "deployment_rollback")
        BY <3>1 DEF RollbackCommitted
      <4>2. r \in Revisions /\ deployments[r].config \in Configs
        BY DEF TypeOK, Deployments, Revisions
      <4> QED
        BY <4>1, <4>2, SourceAssumption DEF AuditKinds
    <3>2. CASE DeployCommitted
      BY <3>2 DEF DeployCommitted, Revisions, AuditKinds, TypeOK
    <3> QED
      BY <1>7, <3>1, <3>2
  <2>2. deployments' \in Deployments
    BY <2>1, ActivatedType DEF Release, TypeOK
  <2>3. audit' \in Seq(AuditKinds)
    BY <2>1 DEF Release, Audited, TypeOK
  <2> QED
    BY <1>7, <2>1, <2>2, <2>3, CommitType DEF Release, TypeOK, Workspaces
<1>8. ASSUME ResumeCommitted, epoch' \in Nat, faults' \in Nat
      PROVE  TypeOK'
  <2>1. audit' \in Seq(AuditKinds)
    BY <1>8 DEF ResumeCommitted, Audited, AuditKinds, TypeOK
  <2> QED
    BY <1>8, <2>1, CommitType DEF ResumeCommitted, TypeOK
<1>9. CASE Close
  BY <1>9 DEF Close, TypeOK, Databases
<1>10. CASE RollbackCopyFails \/ DeployCopyFails
  BY <1>10, SourceAssumption, ConfigAssumption
     DEF RollbackCopyFails, DeployCopyFails, CopyFails, FileOperationFails,
         InitialWorkspace, TypeOK, Workspaces
<1>11. epoch \in Nat /\ faults \in Nat
  BY DEF TypeOK
<1>12. CASE ReleaseRollback \/ ReleaseDeploy
  BY <1>7, <1>11, <1>12 DEF ReleaseRollback, ReleaseDeploy
<1>13. CASE RecoveryResume
  BY <1>8, <1>11, <1>13 DEF RecoveryResume
<1>14. CASE MetadataWriteFails
  BY <1>7, <1>8, <1>11, <1>14 DEF MetadataWriteFails, FileOperationFails
<1>15. CASE UNCHANGED vars
  BY <1>15 DEF vars, TypeOK
<1> QED
  BY <1>1, <1>2, <1>3, <1>4, <1>5, <1>6, <1>9, <1>10, <1>12, <1>13, <1>14, <1>15
     DEF Next

(* The variables of the session hold values of the kinds the code puts there. *)
THEOREM TypeCorrect == Spec => []TypeOK
BY InitType, StepType, PTL DEF Spec

(***************************************************************************)
(* What the open connection may hold back is the service tables alone, and *)
(* only while intake is paused.                                            *)
(***************************************************************************)
OnlyServicePends ==
    /\ disk.intake = intake
    /\ disk.deployments = deployments
    /\ disk.audit = audit
    /\ disk.proofs = proofs
    /\ intake = "open" => disk.service = service

LEMMA StepPends ==
    TypeOK /\ OnlyServicePends /\ [Next]_vars => OnlyServicePends'
<1> SUFFICES ASSUME TypeOK, OnlyServicePends, [Next]_vars PROVE OnlyServicePends'
  OBVIOUS
<1> USE DEF OnlyServicePends, tables, memory, workspaces
<1>1. ASSUME Commit PROVE OnlyServicePends'
  BY <1>1 DEF Commit, Database
<1>2. CASE WorkspaceEdit \/ RollbackCopyFails \/ DeployCopyFails \/ UNCHANGED vars
  BY <1>2 DEF WorkspaceEdit, RollbackCopyFails, DeployCopyFails, CopyFails, vars
<1>3. CASE RunRaises
  BY <1>3 DEF RunRaises, EngineRuns, RequireIntakePaused
<1>4. CASE Close
  BY <1>4 DEF Close
<1>5. ASSUME RollbackCommitted \/ DeployCommitted \/ ResumeCommitted PROVE Commit
  BY <1>5 DEF RollbackCommitted, DeployCommitted, Release, ResumeCommitted
<1>6. CASE ReleaseRollback \/ ReleaseDeploy \/ RecoveryResume \/ MetadataWriteFails
  BY <1>1, <1>5, <1>6
     DEF ReleaseRollback, ReleaseDeploy, RecoveryResume, MetadataWriteFails
<1>7. CASE RecoveryPause \/ RunDoesNotPass \/ RecoveryRestore
           \/ \E w \in Workloads : RunPasses(w)
  BY <1>1, <1>7 DEF RecoveryPause, RunDoesNotPass, RecoveryRestore, RunPasses
<1> QED
  BY <1>2, <1>3, <1>4, <1>6, <1>7 DEF Next

LEMMA InitPends == Init => OnlyServicePends
BY DEF Init, Database, OnlyServicePends

LEMMA PendsImpliesCommitted == TypeOK /\ OnlyServicePends => OpenIsCommitted
BY DEF TypeOK, Databases, Database, OnlyServicePends, OpenIsCommitted

(* While intake is open the file the verifier copies is the state the         *)
(* connection reads: store.py commits with every pause, restore and resume,   *)
(* and only a raising runtime.run leaves writes pending.                      *)
THEOREM OpenCommitted == Spec => []OpenIsCommitted
<1>1. TypeOK /\ OnlyServicePends /\ [Next]_vars => (TypeOK /\ OnlyServicePends)'
  BY StepType, StepPends
<1> QED
  BY <1>1, InitType, InitPends, PendsImpliesCommitted, PTL DEF Spec

(***************************************************************************)
(* The audit chain only grows at its end, so a proof that verified when it *)
(* was recorded keeps verifying.                                           *)
(***************************************************************************)
LEMMA PrefixKept ==
    ASSUME NEW S, NEW s \in Seq(S), NEW e \in S, NEW i \in 1..Len(s)
    PROVE  /\ i \in 1..Len(Append(s, e))
           /\ Append(s, e)[i] = s[i]
           /\ SubSeq(Append(s, e), 1, i - 1) = SubSeq(s, 1, i - 1)
<1>1. Append(s, e) \in Seq(S) /\ Len(Append(s, e)) = Len(s) + 1 /\ Len(s) \in Nat
  OBVIOUS
<1>2. \A j \in 1..Len(s) : Append(s, e)[j] = s[j]
  OBVIOUS
<1>3. i \in 1..Len(Append(s, e))
  BY <1>1
<1>4. SubSeq(Append(s, e), 1, i - 1) = [j \in 1..(i - 1) |-> Append(s, e)[j]]
  BY <1>1
<1>5. SubSeq(s, 1, i - 1) = [j \in 1..(i - 1) |-> s[j]]
  BY <1>1
<1> QED
  BY <1>1, <1>2, <1>3, <1>4, <1>5

LEMMA ProvenanceKept ==
    ASSUME TypeOK, ProvenanceIsPermanent, UNCHANGED proofs,
           NEW k \in AuditKinds, Audited(k)
    PROVE  ProvenanceIsPermanent'
<1> SUFFICES ASSUME proofs # <<>> PROVE RecoveryProvenanceExists'
  BY DEF ProvenanceIsPermanent
<1> DEFINE p == proofs[Len(proofs)]
<1>1. /\ p.post = SnapshotState
      /\ p.seq \in 1..Len(audit)
      /\ audit[p.seq] = "snapshot_restore"
      /\ SubSeq(audit, 1, p.seq - 1) = p.prior
  BY DEF ProvenanceIsPermanent, RecoveryProvenanceExists
<1>2. audit \in Seq(AuditKinds) /\ audit' = Append(audit, k)
  BY DEF TypeOK, Audited
<1>3. /\ p.seq \in 1..Len(audit')
      /\ audit'[p.seq] = audit[p.seq]
      /\ SubSeq(audit', 1, p.seq - 1) = SubSeq(audit, 1, p.seq - 1)
  BY <1>1, <1>2, PrefixKept
<1> QED
  BY <1>1, <1>3 DEF RecoveryProvenanceExists

LEMMA RestoreProvenance ==
    ASSUME TypeOK, RecoveryRestore PROVE RecoveryIsValid'
<1>1. audit \in Seq(AuditKinds) /\ Len(audit) \in Nat /\ proofs \in Seq(Proofs)
  BY DEF TypeOK
<1>2. /\ audit' = Append(audit, "snapshot_restore")
      /\ proofs' = Append(proofs, RestoreProof)
      /\ service' = SnapshotState
  BY DEF RecoveryRestore, Audited
<1>3. Len(audit') = Len(audit) + 1 /\ audit'[Len(audit) + 1] = "snapshot_restore"
  BY <1>1, <1>2
<1>4. SubSeq(audit', 1, Len(audit)) = audit
  <2>1. \A j \in 1..Len(audit) : audit'[j] = audit[j]
    BY <1>1, <1>2
  <2>2. SubSeq(audit', 1, Len(audit)) = [j \in 1..Len(audit) |-> audit'[j]]
    BY <1>1, <1>2, <1>3
  <2>3. audit = [j \in 1..Len(audit) |-> audit[j]]
    BY <1>1
  <2> QED
    BY <2>1, <2>2, <2>3
<1>5. proofs' # <<>> /\ proofs'[Len(proofs')] = RestoreProof
  <2>1. RestoreProof \in Proofs
    BY <1>1, ServiceAssumption DEF TypeOK, Proofs, RestoreProof
  <2> QED
    BY <1>1, <1>2, <2>1
<1>6. /\ RestoreProof.post = SnapshotState /\ RestoreProof.prior = audit
      /\ RestoreProof.seq = Len(audit')
      /\ RestoreProof.seq \in 1..Len(audit') /\ RestoreProof.seq - 1 = Len(audit)
  BY <1>1, <1>3 DEF RestoreProof
<1> QED
  BY <1>2, <1>3, <1>4, <1>5, <1>6 DEF RecoveryIsValid, RecoveryProvenanceExists

LEMMA StepProvenance ==
    /\ TypeOK /\ OnlyServicePends /\ ProvenanceIsPermanent /\ [Next]_vars
    => ProvenanceIsPermanent'
<1> SUFFICES ASSUME TypeOK, OnlyServicePends, ProvenanceIsPermanent, [Next]_vars
             PROVE  ProvenanceIsPermanent'
  OBVIOUS
<1> USE DEF tables, memory, workspaces
<1>1. ASSUME UNCHANGED <<proofs, audit>> PROVE ProvenanceIsPermanent'
  BY <1>1 DEF ProvenanceIsPermanent, RecoveryProvenanceExists
<1>2. CASE WorkspaceEdit \/ RollbackCopyFails \/ DeployCopyFails \/ UNCHANGED vars
  BY <1>1, <1>2 DEF WorkspaceEdit, RollbackCopyFails, DeployCopyFails, CopyFails, vars
<1>3. CASE RunDoesNotPass \/ RunRaises \/ \E w \in Workloads : RunPasses(w)
  BY <1>1, <1>3 DEF RunRaises, RunDoesNotPass, RunPasses, EngineRuns
<1>4. CASE Close
  BY <1>1, <1>4 DEF Close, OnlyServicePends
<1>5. CASE RecoveryPause
  BY <1>5, ProvenanceKept DEF RecoveryPause, AuditKinds
<1>6. ASSUME RollbackCommitted \/ DeployCommitted \/ ResumeCommitted
      PROVE  ProvenanceIsPermanent'
  <2>1. PICK k \in AuditKinds : Audited(k) /\ UNCHANGED proofs
    BY <1>6 DEF RollbackCommitted, DeployCommitted, Release, ResumeCommitted, AuditKinds
  <2> QED
    BY <2>1, ProvenanceKept
<1>7. CASE ReleaseRollback \/ ReleaseDeploy \/ RecoveryResume \/ MetadataWriteFails
  BY <1>6, <1>7 DEF ReleaseRollback, ReleaseDeploy, RecoveryResume, MetadataWriteFails
<1>8. CASE RecoveryRestore
  BY <1>8, RestoreProvenance DEF ProvenanceIsPermanent, RecoveryIsValid
<1> QED
  BY <1>2, <1>3, <1>4, <1>5, <1>7, <1>8 DEF Next

ProvenanceInv == TypeOK /\ OnlyServicePends /\ ProvenanceIsPermanent

LEMMA InitProvenanceInv == Init => ProvenanceInv
<1>1. Init => ProvenanceIsPermanent
  BY DEF Init, ProvenanceIsPermanent
<1> QED
  BY <1>1, InitType, InitPends DEF ProvenanceInv

LEMMA StepProvenanceInv == ProvenanceInv /\ [Next]_vars => ProvenanceInv'
BY StepType, StepPends, StepProvenance DEF ProvenanceInv

(* A restore's authenticated proof verifies at every later state: no append   *)
(* to the audit chain and no close of the session invalidates it.             *)
THEOREM ProvenancePermanent == Spec => []ProvenanceIsPermanent
<1>1. ProvenanceInv => ProvenanceIsPermanent
  BY DEF ProvenanceInv
<1> QED
  BY <1>1, InitProvenanceInv, StepProvenanceInv, PTL DEF Spec

(* The state a restore leaves is one that recovery_is_valid accepts at once:  *)
(* the proof is the last audit entry and the service tables are S0.           *)
THEOREM RestoreValid == Spec => RestoreIsValid
<1>1. ProvenanceInv /\ [Next]_vars =>
          (UNCHANGED vars \/ (proofs' # proofs /\ ~closed' => RecoveryIsValid'))
  <2> SUFFICES ASSUME ProvenanceInv, Next, proofs' # proofs, ~closed'
               PROVE  RecoveryIsValid'
    OBVIOUS
  <2> USE DEF tables, memory, workspaces
  <2>1. RecoveryRestore
    <3>1. ~WorkspaceEdit /\ ~RollbackCopyFails /\ ~DeployCopyFails
      BY DEF WorkspaceEdit, RollbackCopyFails, DeployCopyFails, CopyFails
    <3>2. ~RunDoesNotPass /\ ~RunRaises /\ \A w \in Workloads : ~RunPasses(w)
      BY DEF RunRaises, RunDoesNotPass, RunPasses, EngineRuns
    <3>3. ~Close /\ ~RecoveryPause
      BY DEF Close, RecoveryPause
    <3>4. ~RollbackCommitted /\ ~DeployCommitted /\ ~ResumeCommitted
      BY DEF RollbackCommitted, DeployCommitted, Release, ResumeCommitted
    <3> QED
      BY <3>1, <3>2, <3>3, <3>4
         DEF Next, ReleaseRollback, ReleaseDeploy, RecoveryResume, MetadataWriteFails
  <2> QED
    BY <2>1, RestoreProvenance DEF ProvenanceInv
<1> QED
  BY <1>1, InitProvenanceInv, StepProvenanceInv, PTL DEF Spec, RestoreIsValid

(***************************************************************************)
(* A closed incident.  Passes are earned by receipts, and intake is open   *)
(* only before the first pause or after a resume that met its gate.        *)
(***************************************************************************)
PassesAreEarned ==
    \A c \in Configs : \A w \in passes[c] :
        \E r \in receipts : r.workload = w /\ r.config = c

OpenIsEarned ==
    intake = "open" =>
        \/ proofs = <<>> /\ \A c \in Configs : passes[c] = {}
        \/ /\ audit[Len(audit)] = "intake_resume"
           /\ proofs # <<>>
           /\ ActiveRevisions = {"candidate"}
           /\ Readable
           /\ Workloads \subseteq passes[active.config]

LEMMA StepEarned ==
    TypeOK /\ PassesAreEarned /\ [Next]_vars => PassesAreEarned'
<1> SUFFICES ASSUME TypeOK, PassesAreEarned, [Next]_vars PROVE PassesAreEarned'
  OBVIOUS
<1> USE DEF tables, memory, workspaces
<1>1. ASSUME UNCHANGED <<passes, receipts>> PROVE PassesAreEarned'
  BY <1>1 DEF PassesAreEarned
<1>2. ASSUME NEW w \in Workloads, RunPasses(w) PROVE PassesAreEarned'
  <2> DEFINE new == [workload |-> w, config |-> active.config,
                  source |-> Kept(active.source)]
  <2>1. /\ receipts' = receipts \cup {new}
        /\ passes' = [passes EXCEPT ![active.config] = @ \cup {w}]
        /\ new.workload = w /\ new.config = active.config
    BY <1>2 DEF RunPasses
  <2> HIDE DEF new
  <2> QED
    BY <2>1 DEF PassesAreEarned, TypeOK
<1>3. CASE RecoveryRestore
  BY <1>3 DEF RecoveryRestore, PassesAreEarned, TypeOK
<1>4. CASE WorkspaceEdit \/ RollbackCopyFails \/ DeployCopyFails \/ UNCHANGED vars
  BY <1>1, <1>4 DEF WorkspaceEdit, RollbackCopyFails, DeployCopyFails, CopyFails, vars
<1>5. CASE RunDoesNotPass \/ RunRaises \/ Close \/ RecoveryPause
  BY <1>1, <1>5 DEF RunRaises, RunDoesNotPass, EngineRuns, Close, RecoveryPause
<1>6. ASSUME RollbackCommitted \/ DeployCommitted \/ ResumeCommitted
      PROVE  UNCHANGED <<passes, receipts>>
  BY <1>6 DEF RollbackCommitted, DeployCommitted, Release, ResumeCommitted
<1>7. CASE ReleaseRollback \/ ReleaseDeploy \/ RecoveryResume \/ MetadataWriteFails
  BY <1>1, <1>6, <1>7 DEF ReleaseRollback, ReleaseDeploy, RecoveryResume, MetadataWriteFails
<1> QED
  BY <1>2, <1>3, <1>4, <1>5, <1>7 DEF Next

LEMMA StepOpen ==
    /\ TypeOK /\ OnlyServicePends /\ OpenIsEarned /\ [Next]_vars
    => OpenIsEarned'
<1> SUFFICES ASSUME TypeOK, OnlyServicePends, OpenIsEarned, [Next]_vars,
                    intake' = "open"
             PROVE  OpenIsEarned'
  BY DEF OpenIsEarned
<1> USE DEF tables, memory, workspaces
<1>1. ASSUME UNCHANGED <<intake, passes, audit, proofs, deployments, active>>
      PROVE  OpenIsEarned'
  BY <1>1 DEF OpenIsEarned, ActiveRevisions, Readable
<1>2. CASE WorkspaceEdit \/ UNCHANGED vars
  BY <1>1, <1>2 DEF WorkspaceEdit, vars
<1>3. CASE Close
  BY <1>1, <1>3 DEF Close, OnlyServicePends
<1>4. ~RunDoesNotPass /\ ~RunRaises /\ \A w \in Workloads : ~RunPasses(w)
  BY DEF RunRaises, RunDoesNotPass, RunPasses, EngineRuns, RequireIntakePaused
<1>5. /\ ~RecoveryPause /\ ~RecoveryRestore /\ ~RollbackCommitted /\ ~DeployCommitted
      /\ ~RollbackCopyFails /\ ~DeployCopyFails
  BY DEF RecoveryPause, RecoveryRestore, RollbackCommitted, DeployCommitted, Release,
         RollbackCopyFails, DeployCopyFails, CopyFails, RequireIntakePaused
<1>6. ASSUME ResumeCommitted PROVE OpenIsEarned'
  <2>1. audit'[Len(audit')] = "intake_resume"
    BY <1>6 DEF ResumeCommitted, Audited, AuditKinds, TypeOK
  <2>2. proofs' # <<>> /\ (ActiveRevisions = {"candidate"})'
    BY <1>6 DEF ResumeCommitted, ResumeGate, RecoveryProvenanceExists, ActiveRevisions
  <2>3. (Readable /\ Workloads \subseteq passes[active.config])'
    BY <1>6 DEF ResumeCommitted, ResumeGate, Readable
  <2> QED
    BY <2>1, <2>2, <2>3 DEF OpenIsEarned
<1>7. CASE ReleaseRollback \/ ReleaseDeploy \/ RecoveryResume \/ MetadataWriteFails
  BY <1>5, <1>6, <1>7 DEF ReleaseRollback, ReleaseDeploy, RecoveryResume, MetadataWriteFails
<1> QED
  BY <1>2, <1>3, <1>4, <1>5, <1>7 DEF Next

\* Nothing that is open changes what the resume found, an edit of the candidate
\* and the close of the session being all that is allowed then.
ClosedInv == ProvenanceInv /\ PassesAreEarned /\ OpenIsEarned

LEMMA InitClosedInv == Init => ClosedInv
BY InitProvenanceInv DEF Init, ClosedInv, PassesAreEarned, OpenIsEarned

LEMMA StepClosedInv == ClosedInv /\ [Next]_vars => ClosedInv'
BY StepProvenanceInv, StepEarned, StepOpen DEF ClosedInv, ProvenanceInv

LEMMA ClosedInvImplies == ClosedInv => ClosedIsOnRecord
<1> SUFFICES ASSUME ClosedInv, IncidentClosed
             PROVE  /\ audit[Len(audit)] = "intake_resume"
                    /\ RecoveryProvenanceExists
                    /\ ActiveRevisions = {"candidate"}
                    /\ \A w \in Workloads : \E r \in receipts :
                           r.workload = w /\ r.config = active.config
  BY DEF ClosedIsOnRecord
<1>1. active.config \in Configs /\ intake = "open" /\ Workloads \subseteq passes[active.config]
  BY DEF IncidentClosed, Readable
<1>2. passes[active.config] # {}
  BY <1>1, WorkloadAssumption
<1>3. /\ audit[Len(audit)] = "intake_resume"
      /\ proofs # <<>>
      /\ ActiveRevisions = {"candidate"}
  BY <1>1, <1>2 DEF ClosedInv, OpenIsEarned
<1>4. RecoveryProvenanceExists
  BY <1>3 DEF ClosedInv, ProvenanceInv, ProvenanceIsPermanent
<1>5. \A w \in Workloads : \E r \in receipts : r.workload = w /\ r.config = active.config
  BY <1>1 DEF ClosedInv, PassesAreEarned
<1> QED
  BY <1>3, <1>4, <1>5

(* A session that reports the incident closed has the whole way there on      *)
(* record, whatever was edited, run, restored, rolled back or deployed in any *)
(* order before, and whichever file operations failed.                        *)
THEOREM ClosedOnRecord == Spec => []ClosedIsOnRecord
BY InitClosedInv, StepClosedInv, ClosedInvImplies, PTL DEF Spec

(***************************************************************************)
(* Capabilities and the live revision, while no file operation has failed: *)
(* failures are only ever counted up, so a state without one was reached   *)
(* by steps without one.                                                   *)
(***************************************************************************)
LEMMA NoFaults ==
    ASSUME TypeOK, Next, faults' = 0
    PROVE  /\ ~RollbackCopyFails /\ ~DeployCopyFails /\ ~MetadataWriteFails
           /\ faults = 0
<1> USE DEF tables, memory, workspaces
<1>1. faults \in Nat
  BY DEF TypeOK
<1>2. ~RollbackCopyFails /\ ~DeployCopyFails /\ ~MetadataWriteFails
  BY <1>1 DEF RollbackCopyFails, DeployCopyFails, CopyFails, MetadataWriteFails,
              FileOperationFails
<1>3. UNCHANGED faults
  BY <1>2 DEF Next, WorkspaceEdit, RecoveryPause, RunPasses, RunDoesNotPass, RunRaises,
              EngineRuns, RecoveryRestore, ReleaseRollback, ReleaseDeploy,
              RecoveryResume, Close
<1> QED
  BY <1>2, <1>3

CapabilityInv ==
    TypeOK /\ (faults = 0 => handle.epoch <= epoch) /\ CapabilityIsFresh

LEMMA StepCapability == CapabilityInv /\ [Next]_vars => CapabilityInv'
<1> SUFFICES ASSUME CapabilityInv, [Next]_vars, faults' = 0
             PROVE  handle'.epoch <= epoch' /\ CapabilityIsFresh'
  BY StepType DEF CapabilityInv, CapabilityIsFresh
<1>0. faults = 0 /\ (Next => ~RollbackCopyFails /\ ~DeployCopyFails /\ ~MetadataWriteFails)
  BY NoFaults DEF CapabilityInv, vars
<1> USE DEF tables, memory, workspaces
<1>1. /\ handle.epoch \in Nat /\ epoch \in Nat /\ handle.epoch <= epoch
      /\ handle.config \in Configs
  BY <1>0 DEF CapabilityInv, TypeOK, Grants
<1>2. CASE handle' = handle /\ epoch' = epoch + 1
  BY <1>1, <1>2 DEF CapabilityIsFresh
<1>3. ASSUME UNCHANGED <<handle, epoch, closed, active, proofs>>,
             intake' = intake \/ intake = "open"
      PROVE  handle'.epoch <= epoch' /\ CapabilityIsFresh'
  BY <1>0, <1>1, <1>3 DEF CapabilityInv, CapabilityIsFresh
<1>4. CASE WorkspaceEdit \/ RecoveryPause \/ RunRaises \/ UNCHANGED vars
  BY <1>3, <1>4 DEF WorkspaceEdit, RecoveryPause, RunRaises, EngineRuns, vars
<1>5. ASSUME EngineRuns, CapabilityIssued
      PROVE  handle'.epoch <= epoch' /\ CapabilityIsFresh'
  <2> DEFINE issued == [epoch |-> epoch, run |-> TRUE, source |-> active.source,
                        config |-> active.config, restores |-> Len(proofs)]
  <2>1. UNCHANGED <<epoch, closed, active, proofs, intake>>
        /\ intake = "paused" /\ ~closed
    BY <1>5 DEF EngineRuns, RequireIntakePaused
  <2>2. handle' = handle \/ handle' = issued
    BY <1>5 DEF CapabilityIssued
  <2>3. CASE handle' = handle
    BY <1>3, <2>1, <2>3
  <2>4. CASE handle' = issued
    BY <1>1, <2>1, <2>4 DEF CapabilityIsFresh
  <2> QED
    BY <2>2, <2>3, <2>4
<1>6. CASE RunDoesNotPass \/ \E w \in Workloads : RunPasses(w)
  BY <1>5, <1>6 DEF RunDoesNotPass, RunPasses
<1>7. CASE RecoveryRestore
  <2>1. CASE Readable
    BY <1>2, <1>7, <2>1 DEF RecoveryRestore
  <2>2. CASE ~Readable
    <3>1. handle.epoch # epoch
      BY <1>0, <1>1, <2>2 DEF CapabilityInv, CapabilityIsFresh, Readable
    <3> QED
      BY <1>1, <1>7, <2>2, <3>1 DEF RecoveryRestore, CapabilityIsFresh
  <2> QED
    BY <2>1, <2>2
<1>8. CASE ReleaseRollback \/ ReleaseDeploy \/ RecoveryResume \/ Close
  BY <1>2, <1>8
     DEF ReleaseRollback, RollbackCommitted, ReleaseDeploy, DeployCommitted, Release,
         RecoveryResume, ResumeCommitted, Close
<1> QED
  BY <1>0, <1>4, <1>6, <1>7, <1>8 DEF Next

(* A capability that still validates describes the present state: a restore,  *)
(* a rollback, a deploy, a resume and a close each retire every earlier one.  *)
THEOREM CapabilityFresh == Spec => []CapabilityIsFresh
<1>1. Init => CapabilityInv
  BY InitType DEF Init, CapabilityInv, CapabilityIsFresh, InitialWorkspace
<1>2. CapabilityInv => CapabilityIsFresh
  BY DEF CapabilityInv
<1> QED
  BY <1>1, <1>2, StepCapability, PTL DEF Spec

LEMMA ActivatedIsActive ==
    ASSUME NEW r \in Revisions, NEW a,
           deployments \in Deployments,
           deployments' = Activated(r, a), active' = a
    PROVE  ActiveIsDeployed'
<1>1. deployments'[r] = [source |-> a.source, config |-> a.config, status |-> "active"]
  BY DEF Activated
<1>2. ASSUME NEW q \in Revisions, q # r PROVE deployments'[q].status = "available"
  <2>1. deployments[q] \in DeploymentRows
    BY DEF Deployments
  <2> QED
    BY <1>2, <2>1 DEF Activated, DeploymentRows
<1>3. (ActiveRevisions = {r})'
  BY <1>1, <1>2 DEF ActiveRevisions
<1> QED
  BY <1>1, <1>3 DEF ActiveIsDeployed

LEMMA StepDeployed ==
    TypeOK /\ OnlyServicePends /\ ActiveIsDeployed /\ [Next]_vars => ActiveIsDeployed'
<1> SUFFICES ASSUME TypeOK, OnlyServicePends, ActiveIsDeployed, [Next]_vars, faults' = 0
             PROVE  ActiveIsDeployed'
  BY DEF ActiveIsDeployed
<1>0. faults = 0 /\ (Next => ~RollbackCopyFails /\ ~DeployCopyFails /\ ~MetadataWriteFails)
  BY NoFaults DEF vars
<1> USE DEF tables, memory, workspaces
<1>1. ASSUME UNCHANGED <<deployments, active>> PROVE ActiveIsDeployed'
  BY <1>0, <1>1 DEF ActiveIsDeployed, ActiveRevisions
<1>2. CASE WorkspaceEdit \/ RecoveryPause \/ RecoveryRestore \/ UNCHANGED vars
  BY <1>1, <1>2 DEF WorkspaceEdit, RecoveryPause, RecoveryRestore, vars
<1>3. CASE RunDoesNotPass \/ RunRaises \/ \E w \in Workloads : RunPasses(w)
  BY <1>1, <1>3 DEF RunRaises, RunDoesNotPass, RunPasses, EngineRuns
<1>4. CASE Close \/ RecoveryResume
  BY <1>1, <1>4 DEF Close, OnlyServicePends, RecoveryResume, ResumeCommitted
<1>5. CASE ReleaseRollback \/ ReleaseDeploy
  <2>1. PICK r \in Revisions : \E a, k : Release(r, a, k)
    BY <1>5 DEF ReleaseRollback, RollbackCommitted, ReleaseDeploy, DeployCommitted, Revisions
  <2>2. PICK a, k : Release(r, a, k)
    BY <2>1
  <2>3. deployments \in Deployments
    BY DEF TypeOK
  <2> QED
    BY <2>2, <2>3, ActivatedIsActive DEF Release
<1> QED
  BY <1>0, <1>2, <1>3, <1>4, <1>5 DEF Next

(* Exactly one revision is active and its artifact is the active workspace,   *)
(* through every rollback and deploy.                                         *)
THEOREM ActiveDeployed == Spec => []ActiveIsDeployed
<1> DEFINE Inv == TypeOK /\ OnlyServicePends /\ ActiveIsDeployed
<1>1. Init => Inv
  <2>1. Init => ActiveIsDeployed
    BY DEF Init, ActiveIsDeployed, ActiveRevisions, InitialDeployments, InitialWorkspace,
           Revisions
  <2> QED
    BY <2>1, InitType, InitPends
<1>2. Inv /\ [Next]_vars => Inv'
  BY StepType, StepPends, StepDeployed
<1>3. Inv => ActiveIsDeployed
  OBVIOUS
<1> HIDE DEF Inv
<1> QED
  BY <1>1, <1>2, <1>3, PTL DEF Spec
=============================================================================
