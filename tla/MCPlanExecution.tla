--------------------------- MODULE MCPlanExecution ---------------------------
(* A draft of two products, two plans of it when nothing disturbs them, and  *)
(* one plan with one kind of disturbance, or with the ones that meet.        *)
EXTENDS PlanExecution

Allow(plans, edits, patches, inlines, sales, crashes) ==
  [plans |-> plans, edits |-> edits, patches |-> patches, inlines |-> inlines,
   sales |-> sales, crashes |-> crashes]

SomeBudgets == {Allow(2, 0, 0, 0, 0, 0), Allow(1, 1, 0, 0, 0, 1), Allow(1, 0, 2, 0, 0, 0),
                Allow(1, 0, 0, 1, 0, 0), Allow(1, 0, 0, 0, 2, 0)}
==============================================================================
