---------------------------- MODULE Publication ----------------------------
(***************************************************************************)
(* What the review of a draft promises the merchant: the shop changes only *)
(* as far as a plan was approved, stock is set only on a product the same  *)
(* plan wrote, and a plan is reported as completed only when every product *)
(* that was approved has been written and given its own stock.             *)
(***************************************************************************)
CONSTANTS
  Plan,
  Item,        \* the products of the draft
  Unapproved

VARIABLES
  approval,    \* what was approved of each plan: a set of items, or Unapproved
  written,     \* {<<p, i>>}: product i was written as plan p has it
  stocked,     \* {<<p, t, i>>}: product t was given the stock plan p has for product i
  completed    \* the plans reported as completed

vars == <<approval, written, stocked, completed>>

Init ==
  /\ approval = [p \in Plan |-> Unapproved]
  /\ written = {} /\ stocked = {} /\ completed = {}

Approve(p, items) ==
  /\ approval[p] = Unapproved
  /\ approval' = [approval EXCEPT ![p] = items]
  /\ UNCHANGED <<written, stocked, completed>>

Write(p, i) ==
  /\ approval[p] # Unapproved /\ i \in approval[p]
  /\ written' = written \cup {<<p, i>>}
  /\ UNCHANGED <<approval, stocked, completed>>

Stock(p, t, i) ==
  /\ <<p, t>> \in written
  /\ stocked' = stocked \cup {<<p, t, i>>}
  /\ UNCHANGED <<approval, written, completed>>

Complete(p) ==
  /\ approval[p] # Unapproved
  /\ \A i \in approval[p] : <<p, i>> \in written /\ <<p, i, i>> \in stocked
  /\ completed' = completed \cup {p}
  /\ UNCHANGED <<approval, written, stocked>>

\* A later save of the plan may hide that it was completed
Forget(p) ==
  /\ completed' = completed \ {p}
  /\ UNCHANGED <<approval, written, stocked>>

Next ==
  \E p \in Plan :
    \/ \E items \in SUBSET Item : Approve(p, items)
    \/ \E i \in Item : Write(p, i) \/ \E t \in Item : Stock(p, t, i)
    \/ Complete(p) \/ Forget(p)

Spec == Init /\ [][Next]_vars
=============================================================================
