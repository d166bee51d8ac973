------------------------- MODULE StrictVerifier_proofs -------------------------
(***************************************************************************)
(* Theorems of Reward and StrictVerifier: the ladder is monotonic, no      *)
(* transcript and no workload can raise a grade above the best one of the  *)
(* state, and what the best grade says of the session, for every choice of *)
(* the constants and with file faults.                                     *)
(***************************************************************************)
EXTENDS StrictVerifier, RecoverySession_proofs

(***************************************************************************)
(* The ladder.                                                             *)
(***************************************************************************)
Rungs == {0, 10, 25, 55, 70, 85, 95}

LEMMA RungType == \A p : RungWithout(p) \in Rungs
BY DEF RungWithout, Rungs

LEMMA LowestExists ==
    ASSUME NEW S \in SUBSET Rungs, S # {}
    PROVE  Lowest(S) \in S /\ \A y \in S : Lowest(S) <= y
<1>1. SUFFICES \E x \in S : \A y \in S : x <= y
  BY DEF Lowest
<1>2. S \subseteq {0, 10, 25, 55, 70, 85, 95}
  BY DEF Rungs
<1>3. ASSUME NEW m \in S, \A y \in S : m <= y
      PROVE  \E x \in S : \A y \in S : x <= y
  BY <1>3
<1>4. CASE 0 \in S \/ 10 \in S \/ 25 \in S
  BY <1>2, <1>3, <1>4
<1>5. CASE S \subseteq {55, 70, 85, 95}
  <2>1. CASE 55 \in S
    BY <1>3, <1>5, <2>1
  <2>2. CASE S \subseteq {70, 85, 95}
    <3>1. CASE 70 \in S
      BY <1>3, <2>2, <3>1
    <3>2. CASE S \subseteq {85, 95}
      <4>1. CASE 85 \in S
        BY <1>3, <3>2, <4>1
      <4>2. CASE 85 \notin S
        <5>1. \A y \in S : y = 95
          BY <3>2, <4>2
        <5> QED
          BY <1>3, <5>1
      <4> QED
        BY <4>1, <4>2
    <3> QED
      BY <2>2, <3>1, <3>2
  <2> QED
    BY <1>5, <2>1, <2>2
<1> QED
  BY <1>2, <1>4, <1>5

LEMMA ShortIsLowest ==
    ASSUME NEW P, ~(Mandatory \subseteq P)
    PROVE  /\ Lowest({RungWithout(p) : p \in Mandatory \ P}) \in Rungs
           /\ \A p \in Mandatory \ P :
                Lowest({RungWithout(q) : q \in Mandatory \ P}) <= RungWithout(p)
<1> DEFINE S == {RungWithout(p) : p \in Mandatory \ P}
<1>1. S \in SUBSET Rungs /\ S # {}
  BY RungType
<1>2. Lowest(S) \in S /\ \A y \in S : Lowest(S) <= y
  BY <1>1, LowestExists
<1> QED
  BY <1>1, <1>2

LEMMA RewardType == \A P : CalculateReward(P) \in Rungs \cup {100}
<1> TAKE P
<1>1. CASE "valid_episode" \notin P \/ "protocol_abuse" \in P \/ Mandatory \subseteq P
  BY <1>1 DEF CalculateReward, Rungs
<1>2. CASE ~("valid_episode" \notin P \/ "protocol_abuse" \in P \/ Mandatory \subseteq P)
  BY <1>2, ShortIsLowest DEF CalculateReward
<1> QED
  BY <1>1, <1>2

(* The ladder of reward.py is monotonic, as VERIFIER.md says of it: an episode *)
(* of which more predicates are true, and that is not abuse where the other    *)
(* was not, is never graded lower.                                             *)
THEOREM RewardIsMonotonic ==
    \A P, Q : /\ P \subseteq Q
              /\ "protocol_abuse" \in Q => "protocol_abuse" \in P
              => CalculateReward(P) <= CalculateReward(Q)
<1> SUFFICES ASSUME NEW P, NEW Q, P \subseteq Q,
                    "protocol_abuse" \in Q => "protocol_abuse" \in P
             PROVE  CalculateReward(P) <= CalculateReward(Q)
  OBVIOUS
<1>1. /\ CalculateReward(P) \in Rungs \cup {100}
      /\ CalculateReward(Q) \in Rungs \cup {100}
  BY RewardType
<1>2. CASE CalculateReward(P) = 0 \/ CalculateReward(Q) = 100
  BY <1>1, <1>2 DEF Rungs
<1>3. CASE CalculateReward(P) # 0 /\ CalculateReward(Q) # 100
  <2>1. "valid_episode" \in P /\ "protocol_abuse" \notin P
    BY <1>3 DEF CalculateReward
  <2>2. "valid_episode" \in Q /\ "protocol_abuse" \notin Q
    BY <2>1
  <2>3. ~(Mandatory \subseteq Q) /\ ~(Mandatory \subseteq P)
    BY <1>3, <2>2 DEF CalculateReward
  <2> DEFINE low(X) == Lowest({RungWithout(p) : p \in Mandatory \ X})
             short == {RungWithout(p) : p \in Mandatory \ Q}
  <2>4. CalculateReward(P) = low(P) /\ CalculateReward(Q) = low(Q)
    BY <2>1, <2>2, <2>3 DEF CalculateReward
  <2>5. short \in SUBSET Rungs /\ short # {}
    BY <2>3, RungType
  <2>6. low(Q) \in short
    BY <2>5, LowestExists
  <2>7. PICK p \in Mandatory \ Q : low(Q) = RungWithout(p)
    BY <2>6
  <2>8. low(P) <= RungWithout(p)
    BY <2>3, <2>7, ShortIsLowest
  <2> QED
    BY <2>4, <2>7, <2>8
<1> QED
  BY <1>2, <1>3

LEMMA OnlyAllIsFull ==
    ASSUME NEW P, CalculateReward(P) = 100
    PROVE  Mandatory \subseteq P /\ "protocol_abuse" \notin P
<1>1. 100 \notin Rungs /\ 100 # 0
  BY DEF Rungs
<1>2. "valid_episode" \in P /\ "protocol_abuse" \notin P
  BY <1>1 DEF CalculateReward
<1>3. CASE ~(Mandatory \subseteq P)
  <2>1. CalculateReward(P) = Lowest({RungWithout(p) : p \in Mandatory \ P})
    BY <1>2, <1>3 DEF CalculateReward
  <2> QED
    BY <1>1, <1>3, <2>1, ShortIsLowest
<1> QED
  BY <1>2, <1>3

(***************************************************************************)
(* Grades.                                                                 *)
(***************************************************************************)

(* What the predicates of the best grade are: no transcript and no outcome of *)
(* the workloads makes a predicate true that an honest transcript and passing *)
(* workloads leave false.                                                     *)
LEMMA BestPredicates ==
    \A t \in Transcripts, v \in Verdicts :
        "protocol_abuse" \notin Predicates(t, v) =>
            /\ Predicates(t, v) \subseteq Predicates(HonestTranscript, AllPass)
            /\ "protocol_abuse" \notin Predicates(HonestTranscript, AllPass)
BY DEF Predicates, When, Transcripts, Verdicts, HonestTranscript, AllPass, ToolsUsed

(* The state decides: whatever the transcript shows and the workloads turn    *)
(* out, Verifier.grade gives no more than BestScore.                          *)
THEOREM NoBetterGrade ==
    \A t \in Transcripts, v \in Verdicts : Score(t, v) <= BestScore
<1> SUFFICES ASSUME NEW t \in Transcripts, NEW v \in Verdicts
             PROVE  Score(t, v) <= BestScore
  OBVIOUS
<1>1. CASE "protocol_abuse" \in Predicates(t, v)
  <2>1. Score(t, v) = 0
    BY <1>1 DEF Score, CalculateReward
  <2>2. BestScore \in Rungs \cup {100}
    BY RewardType DEF BestScore, Score
  <2> QED
    BY <2>1, <2>2 DEF Rungs
<1>2. CASE "protocol_abuse" \notin Predicates(t, v)
  BY <1>2, BestPredicates, RewardIsMonotonic DEF Score, BestScore
<1> QED
  BY <1>1, <1>2

LEMMA FullNeedsState ==
    ASSUME BestScore = 100
    PROVE  AuthenticatedRecovery /\ CandidateIsDeployed
<1>1. Mandatory \subseteq Predicates(HonestTranscript, AllPass)
  BY OnlyAllIsFull DEF BestScore, Score
<1>2. /\ "authenticated_recovery" \in Predicates(HonestTranscript, AllPass)
      /\ "deployment_provenance" \in Predicates(HonestTranscript, AllPass)
  BY <1>1 DEF Mandatory, Repaired
<1>3. AuthenticatedRecovery /\ DeploymentProvenance
  BY <1>2 DEF Predicates, When
<1> QED
  BY <1>3 DEF DeploymentProvenance

(* A full reward is earned: whatever was edited, run, restored, rolled back   *)
(* or deployed in any order, and whichever file operations failed, only a     *)
(* session that reports its incident closed can be graded 1.0.                *)
THEOREM FullRewardEarned == Spec => []FullRewardIsEarned
<1>1. ClosedInv => FullRewardIsEarned
  <2> SUFFICES ASSUME ClosedInv, BestScore = 100
               PROVE  /\ IncidentClosed
                      /\ ActiveRevisions = {"candidate"}
                      /\ candidate.source = active.source
    BY DEF FullRewardIsEarned
  <2>1. disk.intake = "open" /\ disk.proofs # <<>> /\ active.source = candidate.source
    BY FullNeedsState
       DEF AuthenticatedRecovery, ProofOnDisk, RestoredOnCopy, CandidateIsDeployed, store
  <2>2. intake = "open" /\ proofs # <<>>
    BY <2>1 DEF ClosedInv, ProvenanceInv, OnlyServicePends
  <2>3. Readable /\ Workloads \subseteq passes[active.config]
        /\ ActiveRevisions = {"candidate"}
    BY <2>2 DEF ClosedInv, OpenIsEarned
  <2> QED
    BY <2>1, <2>2, <2>3 DEF IncidentClosed
<1> QED
  BY <1>1, InitClosedInv, StepClosedInv, PTL DEF Spec

(***************************************************************************)
(* The grade of a closed incident.                                         *)
(***************************************************************************)

(* The predicates that depend on the workloads the verifier runs.             *)
OfWorkloads == {"public_workloads_pass", "final_service_available",
                "shared_hidden_workloads_pass", "member_hidden_workloads_pass"}

(* The ladder where nothing but a workload is missing: it stops at the first  *)
(* kind of workload that fails.                                               *)
LEMMA LadderOfWorkloads ==
    ASSUME NEW P, Mandatory \ OfWorkloads \subseteq P, "protocol_abuse" \notin P,
           "final_service_available" \in P <=> "public_workloads_pass" \in P
    PROVE  /\ "public_workloads_pass" \notin P => CalculateReward(P) = 55
           /\ "public_workloads_pass" \in P =>
               /\ "shared_hidden_workloads_pass" \notin P => CalculateReward(P) = 70
               /\ "shared_hidden_workloads_pass" \in P =>
                   /\ "member_hidden_workloads_pass" \notin P => CalculateReward(P) = 85
                   /\ "member_hidden_workloads_pass" \in P => CalculateReward(P) = 100
<1>1. "valid_episode" \in P
  BY DEF Mandatory, OfWorkloads
<1>2. CASE OfWorkloads \subseteq P
  <2>1. Mandatory \subseteq P
    BY <1>2
  <2> QED
    BY <1>1, <1>2, <2>1 DEF CalculateReward, OfWorkloads
<1>3. CASE ~(OfWorkloads \subseteq P)
  <2> DEFINE short == {RungWithout(p) : p \in Mandatory \ P}
             low == Lowest(short)
  <2>1. OfWorkloads \subseteq Mandatory
    BY DEF OfWorkloads, Mandatory
  <2>2. short \in SUBSET Rungs /\ short # {}
    BY <1>3, <2>1, RungType
  <2>3. low \in short /\ \A y \in short : low <= y
    BY <2>2, LowestExists
  <2>4. PICK p \in Mandatory \ P : low = RungWithout(p)
    BY <2>3
  <2>5. p \in OfWorkloads
    BY <2>4
  <2>6. /\ RungWithout("public_workloads_pass") = 55
        /\ RungWithout("shared_hidden_workloads_pass") = 70
        /\ RungWithout("member_hidden_workloads_pass") = 85
        /\ RungWithout("final_service_available") = 95
    BY DEF RungWithout, Integrity, Repaired
  <2>7. \A q \in OfWorkloads \ P : low <= RungWithout(q)
    BY <2>1, <2>3
  <2> HIDE DEF low
  <2>8. CalculateReward(P) = low
    BY <1>1, <1>3, <2>1 DEF CalculateReward, low
  <2>9. CASE "public_workloads_pass" \notin P
    <3>1. low <= 55
      BY <2>6, <2>7, <2>9 DEF OfWorkloads
    <3>2. low \in {55, 70, 85, 95}
      BY <2>4, <2>5, <2>6 DEF OfWorkloads
    <3>3. low = 55
      BY <3>1, <3>2
    <3>4. CalculateReward(P) = 55
      BY <2>8, <3>3, Zenon
    <3> QED
      BY <2>9, <3>4, Zenon
  <2>10. CASE "public_workloads_pass" \in P /\ "shared_hidden_workloads_pass" \notin P
    <3>1. low <= 70
      BY <2>6, <2>7, <2>10 DEF OfWorkloads
    <3>2. p \in {"shared_hidden_workloads_pass", "member_hidden_workloads_pass"}
      BY <2>4, <2>5, <2>10 DEF OfWorkloads
    <3>3. low \in {70, 85}
      BY <2>4, <2>6, <3>2
    <3>4. low = 70
      BY <3>1, <3>3
    <3>5. CalculateReward(P) = 70
      BY <2>8, <3>4, Zenon
    <3> QED
      BY <2>10, <3>5, Zenon
  <2>11. CASE "public_workloads_pass" \in P /\ "shared_hidden_workloads_pass" \in P
    <3>1. p = "member_hidden_workloads_pass"
      BY <2>4, <2>5, <2>11 DEF OfWorkloads
    <3> QED
      BY <2>8, <2>4, <2>6, <2>11, <3>1
  <2> QED
    BY <2>9, <2>10, <2>11
<1> QED
  BY <1>2, <1>3

(* What the verifier looks for is in the copy of a closed incident: nothing   *)
(* is pending, the deployed candidate is in the row that is active, and the   *)
(* proof of the restore is there.                                             *)
LEMMA ClosedIsVerified ==
    ASSUME TypeOK, ActiveIsDeployed, ClosedIsOnRecord, OpenIsCommitted,
           IncidentClosed, faults = 0, candidate.source = active.source
    PROVE  EngineBuilt /\ AuthenticatedRecovery /\ DeploymentProvenance
           /\ active.source \in Sources
<1>1. store = Database /\ store.intake = "open"
  BY DEF IncidentClosed, OpenIsCommitted, store, Database
<1>2. proofs # <<>>
  BY DEF ClosedIsOnRecord, RecoveryProvenanceExists
<1>3. AuthenticatedRecovery
  BY <1>1, <1>2 DEF AuthenticatedRecovery, ProofOnDisk, RestoredOnCopy, Database
<1>4. active.source \in Sources
  BY DEF TypeOK
<1>5. \E r \in Revisions :
        /\ deployments[r].status = "active"
        /\ deployments[r].source = active.source
        /\ deployments[r].config = active.config
  BY DEF ActiveIsDeployed, ActiveRevisions
<1>6. DeploymentProvenance
  BY <1>1, <1>4, <1>5 DEF DeploymentProvenance, CandidateIsDeployed, Database
<1> QED
  BY <1>3, <1>4, <1>6 DEF EngineBuilt, IncidentClosed

LEMMA VerifiedIsCredited ==
    ASSUME EngineBuilt, AuthenticatedRecovery, DeploymentProvenance,
           active.source \in Sources, NEW v \in Verdicts
    PROVE  /\ ~v.public => Score(HonestTranscript, v) = 55
           /\ v.public /\ ~v.shared => Score(HonestTranscript, v) = 70
           /\ v.public /\ v.shared /\ ~v.member => Score(HonestTranscript, v) = 85
           /\ v.public /\ v.shared /\ v.member => Score(HonestTranscript, v) = 100
<1> DEFINE P == Predicates(HonestTranscript, v)
<1>1. ProofOnDisk /\ StateRootIntegrity
  BY DEF AuthenticatedRecovery, StateRootIntegrity
<1>2. ToolsUsed(HonestTranscript) = {"diagnostic", "other"}
  BY Zenon DEF ToolsUsed, HonestTranscript
<1>3. HonestTranscript.authentic /\ HonestTranscript.bounded
  BY Zenon DEF HonestTranscript
<1>4. Mandatory \ OfWorkloads \subseteq P
  BY <1>1, <1>2, <1>3 DEF Predicates, When, Mandatory, Integrity, Repaired, OfWorkloads
<1>5. "protocol_abuse" \notin P
  BY <1>1, <1>3 DEF Predicates, When
<1>6. /\ "public_workloads_pass" \in P <=> v.public
      /\ "final_service_available" \in P <=> v.public
      /\ "shared_hidden_workloads_pass" \in P <=> v.shared
      /\ "member_hidden_workloads_pass" \in P <=> v.member
  BY DEF Predicates, When
<1> HIDE DEF P
<1>7. /\ ~v.public => CalculateReward(P) = 55
      /\ v.public /\ ~v.shared => CalculateReward(P) = 70
      /\ v.public /\ v.shared /\ ~v.member => CalculateReward(P) = 85
      /\ v.public /\ v.shared /\ v.member => CalculateReward(P) = 100
  BY <1>4, <1>5, <1>6, LadderOfWorkloads
<1> QED
  BY <1>7 DEF Score, P

LEMMA CreditClimbs ==
    ASSUME EngineBuilt, AuthenticatedRecovery, DeploymentProvenance,
           active.source \in Sources, NEW u \in Verdicts, NEW v \in Verdicts
    PROVE  /\ Score(HonestTranscript, v) = 100 <=> Climbed(v) = 3
           /\ Climbed(u) < Climbed(v) =>
               Score(HonestTranscript, u) < Score(HonestTranscript, v)
<1> DEFINE Rung(n) == IF n = 0 THEN 55 ELSE IF n = 1 THEN 70 ELSE IF n = 2 THEN 85 ELSE 100
<1>1. ASSUME NEW w \in Verdicts
      PROVE  Climbed(w) \in 0..3 /\ Score(HonestTranscript, w) = Rung(Climbed(w))
  <2>1. /\ ~w.public => Score(HonestTranscript, w) = 55
        /\ w.public /\ ~w.shared => Score(HonestTranscript, w) = 70
        /\ w.public /\ w.shared /\ ~w.member => Score(HonestTranscript, w) = 85
        /\ w.public /\ w.shared /\ w.member => Score(HonestTranscript, w) = 100
    BY VerifiedIsCredited
  <2> QED
    BY <2>1 DEF Climbed
<1>2. \A m, n \in 0..3 : (Rung(n) = 100 <=> n = 3) /\ (m < n => Rung(m) < Rung(n))
  OBVIOUS
<1> HIDE DEF Rung
<1> QED
  BY <1>1, <1>2

(* A closed incident is credited: whatever way led to it, as long as no file  *)
(* operation failed and the candidate is left as it was deployed, nothing but *)
(* the verifier's own workloads decides its grade, and each kind that passes  *)
(* brings it closer to the full one.                                          *)
THEOREM ClosedCredited == Spec => []ClosedIsCredited
<1>1. TypeOK /\ ActiveIsDeployed /\ ClosedIsOnRecord /\ OpenIsCommitted
          => ClosedIsCredited
  BY ClosedIsVerified, CreditClimbs DEF ClosedIsCredited
<1> QED
  BY <1>1, TypeCorrect, ActiveDeployed, ClosedOnRecord, OpenCommitted, PTL
=============================================================================
