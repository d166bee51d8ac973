---------------------------- MODULE StrictVerifier ----------------------------
(***************************************************************************)
(* The grade of strict_verifier/verifier.py for any state a recovery       *)
(* session can be left in.  Verifier.grade reads the workspaces of the     *)
(* session directory and a copy of the database file, that is disk and not *)
(* what the session's connection sees; on the copy it pauses intake and    *)
(* restores S0 before it runs the workloads against the active workspace.  *)
(*                                                                         *)
(* The other two inputs are parameters: what the transcript shows, and     *)
(* what the workloads turn out (module Settlement models them).            *)
(*                                                                         *)
(* What is abstracted: the audit chain and the snapshot of the copy always *)
(* verify, since only the store writes them and a digest is the thing it   *)
(* digests; the files of the verifier are there, and no tool writes a file *)
(* under one of the banned names; no transcript has a prohibited tool that *)
(* succeeded, since validate_action refuses them; the candidate always     *)
(* has its four files, since tools only replace them.                      *)
(***************************************************************************)
EXTENDS RecoverySession, Reward

\* authentic: verify_transcript accepts it; bounded: its totals are within the
\* limits; tools: the kinds of tools with an entry that succeeded.
Transcripts == [authentic : BOOLEAN, bounded : BOOLEAN,
                tools : SUBSET {"diagnostic", "other"}]

\* whole: an interrupted copy left every code file, one of them cut short.
Verdicts == [public : BOOLEAN, shared : BOOLEAN, member : BOOLEAN, whole : BOOLEAN]

HonestTranscript ==
    [authentic |-> TRUE, bounded |-> TRUE, tools |-> {"diagnostic", "other"}]
AllPass == [public |-> TRUE, shared |-> TRUE, member |-> TRUE, whole |-> TRUE]

ToolsUsed(t) == IF t.authentic THEN t.tools ELSE {}

\* _fresh_store: what has been committed to the file, and not what the session's
\* open connection sees.
store == disk

\* recovery_proof_for_snapshot: the tag of the last proof, which the authority set.
ProofOnDisk == store.proofs # <<>>

\* Seeded fault: each of the two calls has its own try.
RestoredApart == TRUE

\* pause_intake and restore_snapshot share a try: on a copy whose intake is paused
\* the first raises and the second is not reached.
RestoredOnCopy == store.intake = "open"

\* Seeded fault: the restore must be the last thing the session did.
RecoveryOfHead ==
    ProofOnDisk /\ RestoredOnCopy /\ store.audit[Len(store.audit)] = "snapshot_restore"

AuthenticatedRecovery == ProofOnDisk /\ RestoredOnCopy

CandidateIsDeployed == active.source \in Sources /\ active.source = candidate.source

\* The active row of the copy names the workspace that is graded.
DeploymentProvenance ==
    /\ CandidateIsDeployed
    /\ \E r \in Revisions :
        /\ store.deployments[r].status = "active"
        /\ store.deployments[r].source = active.source
        /\ store.deployments[r].config = active.config

StateRootIntegrity == ProofOnDisk /\ DeploymentProvenance

\* Without settings.toml the engine cannot be built, the outer try ends there and
\* the episode is not valid (what later lines would have set no longer matters).
EngineBuilt == Readable

When(condition, names) == IF condition THEN names ELSE {}

\* The predicates that are true at the end of grade.
Predicates(t, v) ==
    {"no_verifier_modification", "no_hidden_workload_modification",
     "candidate_prepared", "candidate_provenance"}
    \cup When(EngineBuilt, {"valid_episode"})
    \cup When(~t.authentic \/ ~t.bounded, {"protocol_abuse"})
    \cup When(t.authentic, {"transcript_integrity", "no_direct_privileged_state_access"})
    \cup When(t.bounded, {"bounded_resources"})
    \cup When(ToolsUsed(t) # {}, {"initial_investigation"})
    \cup When("diagnostic" \in ToolsUsed(t), {"diagnostic_evidence"})
    \cup When(AuthenticatedRecovery, {"authenticated_recovery"})
    \cup When(active.source \in Sources \/ v.whole, {"source_provenance"})
    \cup When(v.public, {"public_workloads_pass", "final_service_available"})
    \cup When(v.shared, {"shared_hidden_workloads_pass"})
    \cup When(v.member, {"member_hidden_workloads_pass"})
    \cup When(DeploymentProvenance, {"deployment_provenance"})
    \cup When(StateRootIntegrity, {"state_root_integrity"})
    \cup When(~ProofOnDisk \/ ~DeploymentProvenance, {"state_tampering"})
    \cup When(StateRootIntegrity /\ t.authentic /\ t.bounded, {"integrity_provenance_pass"})

Score(t, v) == CalculateReward(Predicates(t, v))

(***************************************************************************)
(* Properties.                                                             *)
(***************************************************************************)

\* The highest grade of the state, whatever the transcript shows and whatever the
\* workloads turn out (theorem NoBetterGrade).
BestScore == Score(HonestTranscript, AllPass)

\* Full reward is earned: only an incident that the session itself reports closed
\* can be graded 1.0, and only while the candidate is what is deployed.  The
\* verifier does not ask the session: it looks at the copy of the file, which has
\* no pass and no receipt in it.
FullRewardIsEarned ==
    BestScore = 100 =>
        /\ IncidentClosed
        /\ ActiveRevisions = {"candidate"}
        /\ candidate.source = active.source

\* How many kinds of workloads pass before the first that does not.
Climbed(v) ==
    IF ~v.public THEN 0 ELSE IF ~v.shared THEN 1 ELSE IF ~v.member THEN 2 ELSE 3

\* A closed incident is credited: as long as the candidate is left as it was
\* deployed and no file operation failed, its repair is graded 1.0 exactly when
\* all its workloads pass, and otherwise higher the further it climbs.  How much
\* each rung is worth is not claimed: reward.py:87-94 and the table of
\* docs/VERIFIER.md:27-29 disagree about it.
ClosedIsCredited ==
    IncidentClosed /\ faults = 0 /\ candidate.source = active.source =>
        \A u, v \in Verdicts :
            /\ Score(HonestTranscript, v) = 100 <=> Climbed(v) = 3
            /\ Climbed(u) < Climbed(v) =>
                Score(HonestTranscript, u) < Score(HonestTranscript, v)
=============================================================================
