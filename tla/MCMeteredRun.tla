---------------------------- MODULE MCMeteredRun ----------------------------
EXTENDS MeteredRun

Import(inline, pages, enhanced) ==
  [inline |-> inline, pages |-> pages, enhanced |-> enhanced]
Allow(lapses, controls, faults, polls) ==
  [lapses |-> lapses, controls |-> controls, faults |-> faults, polls |-> polls]
Case(import_, cursors, budgets) ==
  [import : {import_}, follows : cursors, left : budgets]

SomeCases ==
       Case(Import(FALSE, FALSE, FALSE), {"events"},
            {Allow(1, 0, 0, 2), Allow(0, 1, 1, 1), Allow(0, 2, 0, 1)})
  \cup Case(Import(FALSE, FALSE, FALSE), {"last_seq"}, {Allow(0, 1, 0, 2), Allow(0, 0, 1, 1)})
  \cup Case(Import(FALSE, TRUE, FALSE), {"events"}, {Allow(0, 1, 0, 0), Allow(0, 0, 1, 1)})
  \cup Case(Import(TRUE, TRUE, TRUE), {"events"}, {Allow(0, 1, 1, 0), Allow(0, 1, 0, 2)})
=============================================================================
