----------------------------- MODULE OneShotGrant ------------------------------
(***************************************************************************)
(* What a prepared edit promises, whoever stores it: an authority that is  *)
(* granted once, claimed by one user, and spent on one modification or on  *)
(* none.  ADR-0021: "A plan is removed from the store before the edit      *)
(* runs, so a retry can never replay it"; ADR-0007 asks the same of the    *)
(* identifiers of the daemon.                                              *)
(***************************************************************************)
EXTENDS Naturals

CONSTANTS
    Grants,
    Users       \* requests that may claim a grant

VARIABLE grant  \* of each its stage, the users that hold it, and how often it was used

GrantStates ==
    [stage : {"none", "granted", "claimed", "spent", "void"}, holders : SUBSET Users, uses : Nat]

Unused == [stage |-> "none", holders |-> {}, uses |-> 0]

Init == grant = [g \in Grants |-> Unused]

\* Prepared.
Granted(a, b) == a.stage = "none" /\ b = [stage |-> "granted", holders |-> {}, uses |-> a.uses]

\* Taken by the one user that may use it.
Claimed(a, b) ==
    /\ a.stage = "granted"
    /\ \E u \in Users : b = [stage |-> "claimed", holders |-> {u}, uses |-> a.uses]

\* The modification; nobody holds the grant any more.
Spent(a, b) ==
    /\ a.stage = "claimed"
    /\ b = [stage |-> "spent", holders |-> {}, uses |-> a.uses + 1]

\* Discarded, expired or invalidated, or its user failed: it does not come back.
Voided(a, b) ==
    /\ a.stage \in {"granted", "claimed"}
    /\ b = [stage |-> "void", holders |-> {}, uses |-> a.uses]

\* One event may void several grants beside the one it is about; two are never
\* claimed, and two never spent, by the same step.
Next ==
    /\ grant' \in [Grants -> GrantStates]
    /\ \A g \in Grants :
        \/ grant'[g] = grant[g]
        \/ Granted(grant[g], grant'[g]) \/ Claimed(grant[g], grant'[g])
        \/ Spent(grant[g], grant'[g]) \/ Voided(grant[g], grant'[g])
    /\ \A g, h \in Grants :
        \/ g = h
        \/ ~(Claimed(grant[g], grant'[g]) /\ Claimed(grant[h], grant'[h]))
        \/ ~(Spent(grant[g], grant'[g]) /\ Spent(grant[h], grant'[h]))

Spec == Init /\ [][Next]_grant

=============================================================================
