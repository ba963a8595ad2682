--------------------------- MODULE DealAllocation ---------------------------
(***************************************************************************)
(* What the picker promises about a deal: it is given to one employee, once *)
(* and for good, within that employee's quota of the day, and the audit    *)
(* names the employee it was given to.                                     *)
(***************************************************************************)
EXTENDS Integers, FiniteSets

CONSTANTS Deals, Managers, Nobody,
          Quota   \* claims an employee may get: the daily limit and the grants

VARIABLES
  owner,   \* the employee the claim was written for in Bitrix
  audit    \* the employee the claim event names

allocationVars == <<owner, audit>>

Given(m) == {d \in Deals : owner[d] = m}

Init == /\ owner = [d \in Deals |-> Nobody]
        /\ audit = [d \in Deals |-> Nobody]

Allocate(d, m) == /\ owner[d] = Nobody
                  /\ Cardinality(Given(m)) < Quota
                  /\ owner' = [owner EXCEPT ![d] = m]
                  /\ UNCHANGED audit

Record(d) == /\ owner[d] # Nobody /\ audit[d] = Nobody
             /\ audit' = [audit EXCEPT ![d] = owner[d]]
             /\ UNCHANGED owner

Next == \E d \in Deals : Record(d) \/ \E m \in Managers : Allocate(d, m)

Spec == Init /\ [][Next]_allocationVars
=============================================================================
