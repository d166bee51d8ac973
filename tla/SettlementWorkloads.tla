-------------------------- MODULE SettlementWorkloads --------------------------
(***************************************************************************)
(* The scripts of agent_surface/runtime.py: the public workloads and the   *)
(* diagnostics an agent runs, and the hidden workloads of the verifier.    *)
(***************************************************************************)
EXTENDS Settlement

One(id, key, occ) == Plain(id, <<Command(key, occ, id, 100)>>)

Public(script) == [script EXCEPT !.deliver = "accepted", !.judge = "durable"]

P1 == [Public(One("P1", "cmd_routine", "occ_routine")) EXCEPT
          !.transient = TRUE, !.retry = TRUE]
P2 == [Public(One("P2", "cmd_transient", "occ_transient")) EXCEPT
          !.transient = TRUE, !.retry = TRUE]
P3 == [Public(Plain("P3", <<Command("cmd_unique_1", "occ_unique_1", "P3", 100),
                            Command("cmd_unique_2", "occ_unique_2", "P3", 100),
                            Command("cmd_unique_3", "occ_unique_3", "P3", 100)>>))
          EXCEPT !.retry = TRUE]

\* The alias of a diagnostic is the name the agent gives it; it is part of the
\* payload of a command whose identity is fixed.
DiagnosticS2(alias) ==
    [One(alias, "cmd_diagnostic", "occ_diagnostic") EXCEPT
        !.deliver = "new rows", !.cut = "s2", !.judge = "none"]
DiagnosticS5(alias) ==
    [One(alias, "cmd_diagnostic_s5", "occ_diagnostic_s5") EXCEPT
        !.deliver = "accepted", !.cut = "s5", !.judge = "none"]

HA1 == [One("H-A1", "cmd_a_effect_ack", "occ_a_effect_ack") EXCEPT !.cut = "s5"]
HA2 == Plain("H-A2", <<Command("cmd_a_shared_key", "occ_a_first", "H-A2", 100),
                       Command("cmd_a_shared_key", "occ_a_second", "H-A2", 100)>>)
HA3 == [One("H-A3", "cmd_a_logical_multi", "occ_a_logical_multi") EXCEPT
           !.deliver = "accepted", !.notify = TRUE, !.judge = "event"]
HA4 == [One("H-A4", "cmd_a_restart_retry", "occ_a_restart_retry") EXCEPT
           !.deliver = "accepted", !.cut = "s5", !.judge = "event"]

HB1 == [One("H-B1", "cmd_b_idempotent_retry", "occ_b_retry") EXCEPT !.cut = "s2"]
HB2 == Plain("H-B2", [i \in 1..2 |-> Command("cmd_b_same_occurrence", "occ_b_same",
                                             "H-B2", 100)])
HB3 == [Plain("H-B3", [i \in 1..2 |-> Command("cmd_b_conflict", "occ_b_conflict",
                                              "H-B3", 99 + i)])
           EXCEPT !.deliver = "none", !.tolerant = TRUE, !.judge = "journal"]
HB4 == Plain("H-B4", <<Command("cmd_b_legit_repeat", "occ_b_legit_first", "H-B4", 100),
                       Command("cmd_b_legit_repeat", "occ_b_legit_second", "H-B4", 100)>>)

HS1 == [Plain("H-S1", <<Command("cmd_s_recovery_first", "occ_s_recovery_first",
                                "H-S1", 100),
                        Command("cmd_s_recovery_second", "occ_s_recovery_second",
                                "H-S1", 100)>>)
           EXCEPT !.deliver = "accepted", !.judge = "durable"]
HS2 == [Plain("H-S2", [i \in 1..3 |-> Command("cmd_s_compat", "occ_s_compat",
                                              "H-S2", 100)])
           EXCEPT !.judge = "durable"]
HS3 == [Plain("H-S3", [i \in 1..2 |-> Command("cmd_s_interleaved", "occ_s_interleaved",
                                              "H-S3", 100)])
           EXCEPT !.deliver = "twice"]
HTRANS == [Public(One("H-TRANS", "cmd_s_transient", "occ_s_transient")) EXCEPT
              !.transient = TRUE, !.retry = TRUE]

SharedScripts == {P1, P2, P3, DiagnosticS2("diag-s2"), DiagnosticS2("again"),
                  DiagnosticS5("diag-s5"), HS1, HS2, HS3, HTRANS}

\* member_workloads
ScriptsOf == [p \in Profiles |-> SharedScripts \cup (IF p = 0 THEN {HA1, HA2, HA3, HA4}
                                                              ELSE {HB1, HB2, HB3, HB4})]
=============================================================================
