-------------------------- MODULE MCOffloadWorkflow --------------------------
(* Small instances of OffloadWorkflow for TLC. *)
EXTENDS OffloadWorkflow, TLC

\* Every import is of the same file: the case in which two imports interact.
SameFile == [j \in Job |-> "file"]

\* Workers are interchangeable, and so are control requests.
ProcessSymmetry == Permutations(Worker) \union Permutations(Operator)
=============================================================================
