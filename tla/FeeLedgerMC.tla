----------------------------- MODULE FeeLedgerMC -----------------------------
(***************************************************************************)
(* Small instances of FeeLedger for TLC.                                   *)
(***************************************************************************)
EXTENDS FeeLedger, TLC

CONSTANTS p1, p2, r1, r2

OneRequest == {r1}
TwoRequests == {r1, r2}
OnePlan == {p1}

AllOperations == {"pay", "void", "fee", "schedule", "expect"}
NoVoid == {"pay", "fee", "schedule"}

Symmetry == Permutations(Requests) \cup Permutations(Plans)
==============================================================================
