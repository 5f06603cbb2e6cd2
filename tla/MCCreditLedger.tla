--------------------------- MODULE MCCreditLedger ---------------------------
(* Instances of CreditLedger for TLC. *)
EXTENDS CreditLedger, TLC

CONSTANTS starter, growth

PlanCredits == (starter :> 1) @@ (growth :> 2)

OperationSymmetry == Permutations(Operation)
=============================================================================
