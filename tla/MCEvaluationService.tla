------------------------- MODULE MCEvaluationService -------------------------
(***************************************************************************)
(* Small instances of EvaluationService.                                   *)
(***************************************************************************)
EXTENDS EvaluationService

CONSTANTS B1, r1, r2

MCProcs == {Api}
MCBothProcs == {Api, Cli}

\* One batch of two runs.
MCOneBatch == {B1}
MCTwoRuns == {r1, r2}
MCRunsOfOne == [b \in {B1} |-> <<r1, r2>>]

\* One batch of one run.
MCSingleRun == {r1}
MCRunOfOne == [b \in {B1} |-> <<r1>>]
=============================================================================
