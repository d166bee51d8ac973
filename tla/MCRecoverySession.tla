-------------------------- MODULE MCRecoverySession --------------------------
(***************************************************************************)
(* Small instances of RecoverySession, whose states the verifier may be    *)
(* asked to grade at any time: the shipped source and an edited one,       *)
(* the settings of r0 and r1 (a repair that raises the budget back to      *)
(* three has the bytes of r0), two interchangeable public workloads (they  *)
(* stand for P1 and P2, which need a second attempt).                      *)
(***************************************************************************)
EXTENDS StrictVerifier, TLC

CONSTANTS initial, edited, mixed, budget3, budget1, unreadable, P1, P2,
          clean, incident

MCSources == {initial, edited}
MCConfigs == {budget3, budget1}
MCWorkloads == {P1, P2}
MCServiceStates == {clean, incident}

\* A flow of the agent may ask again itself; the shipped one does not, so it
\* passes under the settings of r0 and not under those of r1.
AskingFlows ==
    [w \in Workloads |->
        [source : Sources \cup {MixedSource}, config : Configs]
            \ {[source |-> InitialSource, config |-> R1Config]}]

\* Only flows that leave a second attempt to the engine, like the shipped one and
\* the repairs of the repository.
PlainFlows ==
    [w \in Workloads |-> [source : Sources \cup {MixedSource}, config : {R0Config}]]

WorkloadSymmetry == Permutations(MCWorkloads)
=============================================================================
