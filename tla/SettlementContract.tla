-------------------------- MODULE SettlementContract --------------------------
(***************************************************************************)
(* What the settlement service promises (contract.md): each accepted       *)
(* occurrence produces exactly one net effect of each kind, a retry of it  *)
(* produces no other, and a restore forgets both.                          *)
(***************************************************************************)
EXTENDS Naturals

CONSTANTS Occurrences, EffectKinds

VARIABLES accepted,   \* occurrences that intake has accepted
          settled,    \* how many effects each occurrence has, by kind
          careful     \* whether the code at work may be held to the promise

Nothing == [o \in Occurrences |-> [k \in EffectKinds |-> 0]]

Init == accepted = {} /\ settled = Nothing /\ careful = TRUE

Accept(o) ==
    /\ careful = TRUE /\ careful' = TRUE
    /\ accepted' = accepted \cup {o}
    /\ UNCHANGED settled

Settle(o, k) ==
    /\ careful = TRUE /\ careful' = TRUE
    /\ o \in accepted
    /\ settled[o][k] = 0
    /\ settled' = [settled EXCEPT ![o][k] = 1]
    /\ UNCHANGED accepted

Restore == accepted' = {} /\ settled' = Nothing /\ careful' = TRUE

\* Code that is known not to keep the promise runs: anything, until the restore.
Careless ==
    /\ careful' = FALSE
    /\ accepted' \in SUBSET Occurrences
    /\ settled' \in [Occurrences -> [EffectKinds -> Nat]]

Next ==
    \/ \E o \in Occurrences : Accept(o)
    \/ \E o \in Occurrences, k \in EffectKinds : Settle(o, k)
    \/ Restore
    \/ Careless

Spec == Init /\ [][Next]_<<accepted, settled, careful>>
=============================================================================
