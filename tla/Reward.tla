-------------------------------- MODULE Reward --------------------------------
(***************************************************************************)
(* The reward ladder of strict_verifier/reward.py, in hundredths.  The     *)
(* predicates of predicates.py are represented by the set of the names     *)
(* that are true.                                                          *)
(***************************************************************************)
EXTENDS Naturals

\* Predicates without which an episode is worth nothing.
Integrity == {"transcript_integrity", "bounded_resources",
              "no_direct_privileged_state_access", "no_verifier_modification",
              "no_hidden_workload_modification", "initial_investigation"}

Repaired == {"authenticated_recovery", "candidate_prepared", "source_provenance",
             "candidate_provenance"}

\* _MANDATORY_TRUE; protocol_abuse is the one of _MANDATORY_FALSE.
Mandatory ==
    Integrity \cup Repaired \cup
        {"valid_episode", "diagnostic_evidence", "public_workloads_pass",
         "shared_hidden_workloads_pass", "member_hidden_workloads_pass",
         "deployment_provenance", "state_root_integrity",
         "integrity_provenance_pass", "final_service_available"}

PredicateCategories == Mandatory \cup {"protocol_abuse", "state_tampering"}

\* Where the ladder ends for an episode that lacks this predicate.
RungWithout(p) ==
    CASE p \in Integrity -> 0
      [] p = "diagnostic_evidence" -> 10
      [] p \in Repaired -> 25
      [] p = "public_workloads_pass" -> 55
      [] p = "shared_hidden_workloads_pass" -> 70
      [] p = "member_hidden_workloads_pass" -> 85
      [] OTHER -> 95

Lowest(S) == CHOOSE x \in S : \A y \in S : x <= y

CalculateReward(P) ==
    IF "valid_episode" \notin P \/ "protocol_abuse" \in P THEN 0
    ELSE IF Mandatory \subseteq P THEN 100
    ELSE Lowest({RungWithout(p) : p \in Mandatory \ P})
=============================================================================
