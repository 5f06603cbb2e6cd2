------------------------------- MODULE Totals -------------------------------
(***************************************************************************)
(* The sum of a function over a finite set, as SQL's sum() over rows.      *)
(***************************************************************************)
EXTENDS Integers, FiniteSetsExt

Total(f, S) == MapThenSumSet(LAMBDA x : f[x], S)

\* What x adds to the total
Share(f, S, x) == IF x \in S THEN f[x] ELSE 0
=============================================================================
