---------------------------- MODULE BudgetLedger ----------------------------
(***************************************************************************)
(* The persistent ledger every live provider call passes through           *)
(* (decision_cards/budget.py).  One JSON file beside a lock: a mutation    *)
(* takes the lock, reads, mutates and replaces the file, so it is atomic   *)
(* here.  Costs are in units of which one call reserves `PerCall`.         *)
(***************************************************************************)
EXTENDS Naturals

CONSTANTS CallCap,      \* configured_live_call_cap
          CostCap,      \* configured_cost_cap_microusd
          PerCall       \* the conservative cost of one call

ASSUME LedgerAssumption ==
    /\ CallCap \in Nat /\ CostCap \in Nat
    /\ PerCall \in Nat \ {0}

Snapshot == [calls : 0..CallCap, committed : 0..CostCap, reported : 0..CostCap]

EmptyLedger == [calls |-> 0, committed |-> 0, reported |-> 0]

\* _reserved_snapshot refuses at either cap.
CanReserve(ledger) ==
    /\ ledger.calls < CallCap
    /\ ledger.committed + PerCall <= CostCap

Reserved(ledger) ==
    [ledger EXCEPT !.calls = @ + 1, !.committed = @ + PerCall]

\* record_reported_cost_microusd refuses a total above the cap, and raises the
\* committed amount when the reports exceed it.  It never releases anything.
CanReport(ledger, cost) == ledger.reported + cost <= CostCap

\* Mutant: reporting settles the ledger to what calls cost.
ReportedReleases(ledger, cost) ==
    [ledger EXCEPT !.reported = @ + cost, !.committed = ledger.reported + cost]

Reported(ledger, cost) ==
    LET total == ledger.reported + cost
    IN  [ledger EXCEPT !.reported = total,
                       !.committed = IF @ < total THEN total ELSE @]
=============================================================================
