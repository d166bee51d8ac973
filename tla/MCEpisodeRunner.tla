--------------------------- MODULE MCEpisodeRunner ---------------------------
(***************************************************************************)
(* A caller with two instances of different profiles, whose limits three   *)
(* small actions or one large read and another action exceed, and a runner *)
(* that comes to its limits only with its last action.                     *)
(***************************************************************************)
EXTENDS EpisodeRunner

MCSeeds == 1..3
MCProfile == [s \in MCSeeds |-> s % 2]
MCLimits == [s \in MCSeeds |-> IF s = 3 THEN [actions |-> 3, bytes |-> 6]
                               ELSE [actions |-> 2, bytes |-> 3]]
MCSizes == [tool \in Tools |-> {IF tool = "read" THEN 3 ELSE 1}]
MCCaller == [seeds |-> {1, 2}, steps |-> {None, 2}, tools |-> Tools]
MCRunner == [seeds |-> {3}, steps |-> {4}, tools |-> {"release.status", "read", "change"}]
MCNobody == [seeds |-> {}, steps |-> {}, tools |-> {}]
=============================================================================
