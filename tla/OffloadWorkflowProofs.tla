------------------------ MODULE OffloadWorkflowProofs ------------------------
(***************************************************************************)
(* Safety of OffloadWorkflow for every set of imports, workers and         *)
(* operators, every kind of fault and every bound.                         *)
(*                                                                         *)
(* ExclusiveUnlessLapsed and RetryIsClaimable are not inductive: that no   *)
(* second worker can claim an import follows from what the worker holding  *)
(* it did to the row before.  IInv adds that correspondence.               *)
(***************************************************************************)
EXTENDS OffloadWorkflow, TLAPS

BusyWorkerHasJob == \A w \in Worker : worker[w].pc # "idle" => worker[w].job \in Job

BusyControlHasJob == \A o \in Operator : control[o].pc # "idle" => control[o].job \in Job

Shape == TypeOK /\ BusyWorkerHasJob /\ BusyControlHasJob

\* Nothing of an import reaches the queue or a worker before its request tried
\* to enqueue it.
Enqueued == {"accepted", "refund", "rejected", "crashed"}

QueuedOnceEnqueued(j) ==
  ingest[j] \notin Enqueued =>
    /\ job[j].status = "absent"
    /\ \A w \in Worker : ~Holds(w, j) /\ cache[w][j] = 0

\* Credits go back when the request is refused or when its job is buried.
ReleasedOnce(j) == credit[j] = "released" => ingest[j] \in Enqueued

Processing == {"fetch", "markDraft", "markRun", "extract", "complete", "retry",
               "finalize", "readDraft", "writeDraft", "bury"}

\* What the rows say of an import that a worker holds: its attempt is the
\* worker's, and it is not one that the queue hands out.
Fenced(w, j) ==
  /\ job[j].status # "absent" => worker[w].attempt = job[j].attempt
  /\ worker[w].pc = "claimed" =>
       \/ job[j].status = "claimed" /\ ~job[j].expired
       \/ job[j].status \in Terminal \cup {"absent"}
  /\ worker[w].pc \in Processing =>
       job[j].status \in {"running", "absent"} \cup Terminal
  /\ worker[w].pc = "retry" => worker[w].attempt < MaxAttempts
  /\ worker[w].pc = "complete" => draft[j].products = "extracted"
  /\ ingest[j] = "accepted" /\ credit[j] = "released"
       => worker[w].pc \in {"readDraft", "writeDraft", "bury"}

\* The rows of an import none of whose claims lapsed.
Owned(j) ==
  /\ \A w \in Worker : Holds(w, j) => Fenced(w, j)
  /\ \A v, w \in Worker : Holds(v, j) /\ Holds(w, j) => v = w
  /\ job[j].status = "retryable" => job[j].attempt < MaxAttempts
  /\ job[j].status = "succeeded" =>
       draft[j].products = "extracted" /\ \A w \in Worker : ~Holds(w, j)
  /\ ingest[j] = "accepted" /\ credit[j] = "released"
       => job[j].status \notin {"queued", "claimed", "retryable", "succeeded"}

Safe(j) == QueuedOnceEnqueued(j) /\ ReleasedOnce(j) /\ (j \notin lapsed => Owned(j))

IInv == Shape /\ \A j \in Job : Safe(j)

-----------------------------------------------------------------------------
(* The SQL functions, seen from their callers.                             *)

\* The transition keeps the types of the three rows.
LEMMA TransitionRows ==
  ASSUME TypeOK, NEW j \in Job,
         NEW target \in {"running", "succeeded", "failed", "retryable"},
         Transition(j, target)
  PROVE  /\ job' \in [Job -> JobRow]
         /\ run' \in [Job -> RunStatus]
         /\ draft' \in [Job -> DraftRow]
         /\ \A k \in Job : job'[k].attempt = job[k].attempt
         /\ \A k \in Job : draft'[k].products = draft[k].products
         /\ \A k \in Job \ {j} : job'[k] = job[k]
         /\ \/ Refused(j, target) /\ job'[j] = job[j]
            \/ ~Refused(j, target) /\ job'[j].status = target
<1>1. CASE Refused(j, target)
  BY <1>1 DEF Transition, rows, TypeOK
<1>2. CASE ~Refused(j, target)
  <2> DEFINE row == [status |-> target, attempt |-> job[j].attempt, expired |-> FALSE,
                     due |-> IF target = "retryable" THEN FALSE ELSE job[j].due]
  <2>1. row \in JobRow
    BY DEF TypeOK, JobRow, JobStatus, Terminal
  <2>2. job' = [job EXCEPT ![j] = row]
    BY <1>2 DEF Transition, TypeOK
  <2>3. job' \in [Job -> JobRow] /\ job'[j] = row /\ \A k \in Job \ {j} : job'[k] = job[k]
    BY <2>1, <2>2 DEF TypeOK
  <2>4. \A k \in Job : job'[k].attempt = job[k].attempt
    BY <2>3
  <2>5. run' \in [Job -> RunStatus]
    BY <1>2 DEF Transition, TypeOK, RunStatus, RunView, Terminal
  <2>6. draft' \in [Job -> DraftRow]
    <3>1. RunView(target) \in DraftStatus
      BY DEF RunView, DraftStatus, Terminal
    <3>2. draft' = [draft EXCEPT ![j].status = RunView(target)]
      BY <1>2 DEF Transition
    <3> QED
      BY <3>1, <3>2 DEF TypeOK, DraftRow
  <2>7. \A k \in Job : draft'[k].products = draft[k].products
    <3>1. draft' = [draft EXCEPT ![j].status = RunView(target)]
      BY <1>2 DEF Transition
    <3> QED
      BY <3>1 DEF TypeOK, DraftRow
  <2> QED
    BY <1>2, <2>3, <2>4, <2>5, <2>6, <2>7
<1> QED
  BY <1>1, <1>2

\* So does one whose answer is lost.
LEMMA TransitionLostRows ==
  ASSUME TypeOK, NEW j \in Job,
         NEW target \in {"running", "succeeded", "failed", "retryable"},
         TransitionLost(j, target)
  PROVE  /\ job' \in [Job -> JobRow]
         /\ run' \in [Job -> RunStatus]
         /\ draft' \in [Job -> DraftRow]
         /\ faults' \in 0..MaxFaults
         /\ \A k \in Job : job'[k].attempt = job[k].attempt
         /\ \A k \in Job : draft'[k].products = draft[k].products
         /\ \A k \in Job \ {j} : job'[k] = job[k]
         /\ \/ job'[j] = job[j]
            \/ ~Refused(j, target) /\ job'[j].status = target
<1>1. faults' \in 0..MaxFaults
  BY BoundAssumption DEF TransitionLost, Strike, TypeOK
<1>2. CASE UNCHANGED rows
  BY <1>1, <1>2 DEF rows, TypeOK
<1>3. CASE Transition(j, target)
  BY <1>1, <1>3, TransitionRows
<1> QED
  BY <1>2, <1>3 DEF TransitionLost

\* A claim uses up one attempt of a claimable job.
LEMMA ClaimRowEffect ==
  ASSUME TypeOK, NEW j \in Job, ClaimRow(j)
  PROVE  /\ job' \in [Job -> JobRow]
         /\ \A k \in Job \ {j} : job'[k] = job[k]
         /\ job[j].status \in {"queued", "retryable", "claimed"}
         /\ job[j].status = "claimed" => job[j].expired
         /\ job'[j].status = "claimed" /\ ~job'[j].expired
         /\ job'[j].attempt = job[j].attempt + 1
         /\ job[j].attempt + 1 \in 1..MaxAttempts
  BY BoundAssumption DEF ClaimRow, Claimable, TypeOK, JobRow, JobStatus

-----------------------------------------------------------------------------
(* Type correctness.                                                       *)

\* The steps of an import request keep the type invariant.
LEMMA ShapeImport ==
  ASSUME Shape, NEW j \in Job, ImportStep(j) \/ ImportFault(j)
  PROVE  Shape'
<1> USE DEF Shape, TypeOK, IngestState, Importing, CreditStatus, Proceed, BusyWorkerHasJob,
         BusyControlHasJob
<1>0. UNCHANGED <<worker, cache, control, lapsed, controls>>
  BY DEF ImportStep, ImportFault
<1>1. CASE ReuseActiveDraft(j)
  BY <1>0, <1>1 DEF ReuseActiveDraft, rows
<1>2. CASE StartImport(j)
  BY <1>0, <1>2 DEF StartImport, rows
<1>3. CASE ReserveCredits(j)
  BY <1>0, <1>3 DEF ReserveCredits, rows
<1>4. CASE DeclineImport(j)
  BY <1>0, <1>4 DEF DeclineImport, rows
<1>5. CASE BillRun(j)
  BY <1>0, <1>5 DEF BillRun, RunStatus
<1>6. CASE SaveQueuedDraft(j)
  BY <1>0, <1>6 DEF SaveQueuedDraft, WriteQueuedDraft, DraftRow, DraftStatus, Products
<1>7. CASE TrackRun(j)
  BY <1>0, <1>7 DEF TrackRun, RunStatus
<1>8. CASE EnqueueJob(j)
  BY BoundAssumption, <1>0, <1>8 DEF EnqueueJob, WriteQueuedJob, JobRow, JobStatus
<1>9. CASE RefundImport(j)
  BY <1>0, <1>9 DEF RefundImport, CreditStatus, rows
<1>10. CASE PersistFails(j)
  <2>1. faults' \in 0..MaxFaults
    BY BoundAssumption, <1>10 DEF PersistFails, Strike
  <2>2. job' \in [Job -> JobRow]
    <3>1. [status |-> "queued", attempt |-> 0, expired |-> FALSE, due |-> TRUE] \in JobRow
      BY BoundAssumption DEF JobRow, JobStatus
    <3> QED
      BY <1>10, <3>1 DEF PersistFails, WriteQueuedDraft, WriteQueuedJob, rows
  <2>3. draft' \in [Job -> DraftRow]
    <3>1. [status |-> "queued", products |-> "empty"] \in DraftRow
      BY DEF DraftRow, DraftStatus, Products
    <3> QED
      BY <1>10, <3>1 DEF PersistFails, WriteQueuedDraft, WriteQueuedJob, rows
  <2>4. UNCHANGED <<run, credit>> /\ ingest' \in [Job -> IngestState]
    BY <1>10 DEF PersistFails, WriteQueuedDraft, WriteQueuedJob, rows
  <2> QED
    BY <1>0, <2>1, <2>2, <2>3, <2>4
<1>11. CASE CrashImport(j)
  BY BoundAssumption, <1>0, <1>11 DEF CrashImport, Strike, rows
<1>12. CASE RunWriteLost(j)
  <2>1. faults' \in 0..MaxFaults
    BY BoundAssumption, <1>12 DEF RunWriteLost, Strike
  <2>2. credit' \in [Job -> CreditStatus] /\ ingest' \in [Job -> IngestState]
    BY <1>12 DEF RunWriteLost
  <2>3. UNCHANGED <<job, run, draft>>
    BY <1>12 DEF RunWriteLost, rows
  <2> QED
    BY <1>0, <2>1, <2>2, <2>3
<1> QED
  BY <1>1, <1>2, <1>3, <1>4, <1>5, <1>6, <1>7, <1>8, <1>9, <1>10, <1>11, <1>12
  DEF ImportStep, ImportFault

\* The steps of a worker keep the type invariant.
LEMMA ShapeWorker ==
  ASSUME Shape, NEW w \in Worker, WorkerStep(w) \/ WorkerFault(w)
  PROVE  Shape'
<1> USE DEF Shape, BusyWorkerHasJob, BusyControlHasJob
<1>0. UNCHANGED <<ingest, control, controls>>
  BY DEF WorkerStep, WorkerFault
<1>1. /\ \A j \in Job, n \in 1..MaxAttempts :
            Take(w, j, n) =>
              /\ worker' \in [Worker -> WorkerState] /\ BusyWorkerHasJob'
              /\ cache' \in [Worker -> [Job -> 0..MaxAttempts]]
      /\ Rest(w) => worker' \in [Worker -> WorkerState] /\ BusyWorkerHasJob'
      /\ \A from \in {"claimed"} \cup Processing, to \in Processing :
            Advance(w, from, to) => worker' \in [Worker -> WorkerState] /\ BusyWorkerHasJob'
  <2>1. ASSUME NEW j \in Job, NEW n \in 1..MaxAttempts, Take(w, j, n)
        PROVE  /\ worker' \in [Worker -> WorkerState] /\ BusyWorkerHasJob'
               /\ cache' \in [Worker -> [Job -> 0..MaxAttempts]]
    <3>1. n \in 0..MaxAttempts
      BY BoundAssumption
    <3>2. [pc |-> "claimed", job |-> j, attempt |-> n, seen |-> "empty"] \in WorkerState
      BY <3>1 DEF WorkerState, Products
    <3> QED
      BY <2>1, <3>1, <3>2 DEF Take, TypeOK
  <2>2. ASSUME Rest(w)
        PROVE  worker' \in [Worker -> WorkerState] /\ BusyWorkerHasJob'
    <3>1. IdleWorker \in WorkerState
      BY BoundAssumption DEF IdleWorker, WorkerState, Products
    <3> QED
      BY <2>2, <3>1 DEF Rest, TypeOK, IdleWorker
  <2>3. ASSUME NEW from \in {"claimed"} \cup Processing, NEW to \in Processing,
               Advance(w, from, to)
        PROVE  worker' \in [Worker -> WorkerState] /\ BusyWorkerHasJob'
    <3>1. worker[w].pc = from /\ from # "idle" /\ worker[w].job \in Job
      BY <2>3 DEF Advance, Processing
    <3>2. [worker[w] EXCEPT !.pc = to] \in WorkerState
      BY DEF TypeOK, WorkerState, Processing
    <3> QED
      BY <2>3, <3>1, <3>2 DEF Advance, TypeOK, WorkerState
  <2> QED
    BY <2>1, <2>2, <2>3
<1>2. CASE ClaimNext(w)
  <2>1. PICK j \in Job : ClaimRow(j) /\ Take(w, j, job[j].attempt + 1)
    BY <1>2 DEF ClaimNext
  <2>2. job' \in [Job -> JobRow] /\ job[j].attempt + 1 \in 1..MaxAttempts
    BY <2>1, ClaimRowEffect
  <2> QED
    BY <1>0, <1>1, <1>2, <2>1, <2>2 DEF ClaimNext, TypeOK
<1>3. CASE ClaimFails(w)
  <2>1. faults' \in 0..MaxFaults
    BY <1>3, BoundAssumption DEF ClaimFails, Strike, TypeOK
  <2>2. job' \in [Job -> JobRow]
    BY <1>3, ClaimRowEffect DEF ClaimFails, TypeOK
  <2>3. CASE UNCHANGED <<worker, cache, lapsed>>
    BY <1>0, <1>3, <2>1, <2>2, <2>3 DEF ClaimFails, TypeOK
  <2>4. CASE \E j \in Job : /\ CachedClaimable(w, j) /\ Take(w, j, cache[w][j] + 1)
                            /\ lapsed' = lapsed \cup {j}
    <3>1. PICK j \in Job : /\ CachedClaimable(w, j) /\ Take(w, j, cache[w][j] + 1)
                           /\ lapsed' = lapsed \cup {j}
      BY <2>4
    <3>2. cache[w][j] + 1 \in 1..MaxAttempts
      BY <3>1, BoundAssumption DEF CachedClaimable
    <3> QED
      BY <1>0, <1>1, <1>3, <2>1, <2>2, <3>1, <3>2 DEF ClaimFails, TypeOK
  <2> QED
    BY <1>3, <2>3, <2>4 DEF ClaimFails
<1>4. CASE BeginProcessing(w)
  <2>1. worker[w].job \in Job /\ Transition(worker[w].job, "running")
    BY <1>4 DEF BeginProcessing
  <2>2. job' \in [Job -> JobRow] /\ run' \in [Job -> RunStatus] /\ draft' \in [Job -> DraftRow]
    BY <2>1, TransitionRows
  <2>3. worker' \in [Worker -> WorkerState] /\ BusyWorkerHasJob'
    BY <1>1, <1>4 DEF BeginProcessing, Processing
  <2> QED
    BY <1>0, <1>4, <2>2, <2>3 DEF BeginProcessing, TypeOK
<1>5. CASE BeginProcessingLost(w)
  <2>1. worker[w].job \in Job /\ TransitionLost(worker[w].job, "running")
    BY <1>5 DEF BeginProcessingLost
  <2>2. /\ job' \in [Job -> JobRow] /\ run' \in [Job -> RunStatus] /\ draft' \in [Job -> DraftRow]
        /\ faults' \in 0..MaxFaults
    BY <2>1, TransitionLostRows
  <2> QED
    BY <1>0, <1>1, <1>5, <2>2 DEF BeginProcessingLost, TypeOK
<1>6. CASE FinishLost(w)
  <2>1. PICK target \in {"running", "succeeded", "failed", "retryable"} :
             worker[w].job \in Job /\ TransitionLost(worker[w].job, target)
    BY <1>6 DEF FinishLost
  <2>2. /\ job' \in [Job -> JobRow] /\ run' \in [Job -> RunStatus] /\ draft' \in [Job -> DraftRow]
        /\ faults' \in 0..MaxFaults
    BY <2>1, TransitionLostRows
  <2> QED
    BY <1>0, <1>1, <1>6, <2>2 DEF FinishLost, TypeOK
<1>7. CASE Complete(w) \/ ScheduleRetry(w) \/ Bury(w)
  <2>1. PICK target \in {"running", "succeeded", "failed", "retryable"} :
             worker[w].job \in Job /\ Transition(worker[w].job, target)
    BY <1>7 DEF Complete, ScheduleRetry, Bury
  <2>2. job' \in [Job -> JobRow] /\ run' \in [Job -> RunStatus] /\ draft' \in [Job -> DraftRow]
    BY <2>1, TransitionRows
  <2> QED
    BY <1>0, <1>1, <1>7, <2>2 DEF Complete, ScheduleRetry, Bury, TypeOK
<1>8. CASE FetchInput(w) \/ ReadFailedDraft(w)
  <2>1. PICK to \in {"markDraft", "writeDraft"} :
          /\ worker' = [worker EXCEPT ![w].pc = to,
                                      ![w].seen = draft[worker[w].job].products]
          /\ worker[w].pc # "idle"
    BY <1>8 DEF FetchInput, ReadFailedDraft, ReadDraft
  <2>2. draft[worker[w].job].products \in Products /\ worker[w].job \in Job
    BY <2>1 DEF TypeOK, DraftRow
  <2>3. [worker[w] EXCEPT !.pc = to, !.seen = draft[worker[w].job].products] \in WorkerState
    BY <2>2 DEF TypeOK, WorkerState
  <2>4. worker' = [worker EXCEPT ![w] = [worker[w] EXCEPT
                     !.pc = to, !.seen = draft[worker[w].job].products]]
    BY <2>1 DEF TypeOK, WorkerState
  <2>5. worker' \in [Worker -> WorkerState] /\ BusyWorkerHasJob'
    BY <2>2, <2>3, <2>4 DEF TypeOK, WorkerState
  <2> QED
    BY <1>0, <1>8, <2>5 DEF FetchInput, ReadFailedDraft, ReadDraft, rows, TypeOK
<1>9. CASE MarkDraftRunning(w) \/ SaveExtraction(w) \/ MarkDraftFailed(w)
  <2>1. PICK from \in Processing, to \in Processing : Advance(w, from, to)
    BY <1>9 DEF MarkDraftRunning, SaveExtraction, MarkDraftFailed, Processing
  <2>2. PICK status \in DraftStatus, products \in Products : WriteDraft(w, status, products)
    BY <1>9 DEF MarkDraftRunning, SaveExtraction, MarkDraftFailed, DraftStatus,
                Terminal, Products, TypeOK, WorkerState
  <2>3. draft' \in [Job -> DraftRow]
    BY <2>2 DEF WriteDraft, TypeOK, DraftRow
  <2> QED
    BY <1>0, <1>1, <1>9, <2>1, <2>3 DEF MarkDraftRunning, SaveExtraction, MarkDraftFailed, TypeOK
<1>10. CASE MarkRunRunning(w)
  BY <1>0, <1>1, <1>10 DEF MarkRunRunning, Processing, TypeOK, RunStatus
<1>11. CASE ProcessingFails(w)
  <2>1. PICK from \in Processing, to \in Processing : Advance(w, from, to)
    BY <1>11 DEF ProcessingFails, Advance, Processing
  <2> QED
    BY <1>0, <1>1, <1>11, <2>1 DEF ProcessingFails, rows, TypeOK
<1>12. CASE FinalizeFailedRun(w)
  BY <1>0, <1>1, <1>12
  DEF FinalizeFailedRun, Processing, Terminal, TypeOK, RunStatus, CreditStatus
<1>13. CASE CrashWorker(w)
  BY <1>0, <1>1, <1>13, BoundAssumption DEF CrashWorker, Strike, rows, TypeOK
<1>14. CASE ReadDraftLost(w)
  <2>1. worker' \in [Worker -> WorkerState] /\ BusyWorkerHasJob'
    <3>1. CASE Advance(w, "fetch", "markDraft")
      BY <1>1, <3>1 DEF Processing
    <3>2. CASE /\ worker[w].pc = "readDraft"
               /\ worker' = [worker EXCEPT ![w].pc = "writeDraft", ![w].seen = "empty"]
      <4>1. [worker[w] EXCEPT !.pc = "writeDraft", !.seen = "empty"] \in WorkerState
        BY DEF TypeOK, WorkerState, Products
      <4>2. worker' = [worker EXCEPT ![w] = [worker[w] EXCEPT !.pc = "writeDraft",
                                                              !.seen = "empty"]]
        BY <3>2 DEF TypeOK, WorkerState
      <4> QED
        BY <3>2, <4>1, <4>2 DEF TypeOK, WorkerState
    <3> QED
      BY <1>14, <3>1, <3>2 DEF ReadDraftLost
  <2> QED
    BY <1>0, <1>14, <2>1, BoundAssumption DEF ReadDraftLost, Strike, rows, TypeOK
<1>15. CASE RunUpsertLost(w) \/ FinalizeLost(w) \/ FailedDraftLost(w)
  <2>1. run' \in [Job -> RunStatus]
    BY <1>15 DEF RunUpsertLost, FinalizeLost, FailedDraftLost, rows, TypeOK, RunStatus, Terminal
  <2>2. worker' \in [Worker -> WorkerState] /\ BusyWorkerHasJob'
    BY <1>1, <1>15 DEF RunUpsertLost, FinalizeLost, FailedDraftLost, Processing
  <2>3. credit' \in [Job -> CreditStatus]
    BY <1>15 DEF RunUpsertLost, FinalizeLost, FailedDraftLost, TypeOK, CreditStatus
  <2> QED
    BY <1>0, <1>15, <2>1, <2>2, <2>3, BoundAssumption
    DEF RunUpsertLost, FinalizeLost, FailedDraftLost, Strike, rows, TypeOK
<1>16. CASE DraftSavedButRaised(w)
  <2>1. PICK from \in Processing, to \in Processing : Advance(w, from, to)
    BY <1>16 DEF DraftSavedButRaised, Advance, Processing
  <2>2. PICK status \in DraftStatus, products \in Products : WriteDraft(w, status, products)
    BY <1>16 DEF DraftSavedButRaised, DraftStatus, Terminal, Products, TypeOK, WorkerState
  <2>3. draft' \in [Job -> DraftRow]
    BY <2>2 DEF WriteDraft, TypeOK, DraftRow
  <2>4. faults' \in 0..MaxFaults
    BY <1>16, BoundAssumption DEF DraftSavedButRaised, Strike, TypeOK
  <2>5. worker' \in [Worker -> WorkerState] /\ BusyWorkerHasJob'
    BY <1>1, <2>1
  <2> QED
    BY <1>0, <1>16, <2>3, <2>4, <2>5 DEF DraftSavedButRaised, TypeOK
<1> QED
  BY <1>2, <1>3, <1>4, <1>5, <1>6, <1>7, <1>8, <1>9, <1>10, <1>11, <1>12, <1>13, <1>14, <1>15,
     <1>16
  DEF WorkerStep, WorkerFault, WriteLost

\* The steps of a control request keep the type invariant.
LEMMA ShapeControl ==
  ASSUME Shape, NEW o \in Operator, ControlStep(o) \/ ControlInput(o)
  PROVE  Shape'
<1> USE DEF Shape, BusyWorkerHasJob, BusyControlHasJob
<1>0. UNCHANGED <<ingest, worker, cache, lapsed>> /\ credit' \in [Job -> CreditStatus]
  <2>1. UNCHANGED <<ingest, worker, cache, lapsed>>
    BY DEF ControlStep, ControlInput
  <2>2. UNCHANGED credit \/ DeleteRun(o)
    BY DEF ControlStep, ControlInput
  <2> QED
    BY <2>1, <2>2 DEF DeleteRun, TypeOK, CreditStatus
<1>1. /\ Answer(o) => control' \in [Operator -> ControlState] /\ BusyControlHasJob'
      /\ \A from \in Operation, to \in {"force", "cleanup"} :
           Turn(o, from, to) => control' \in [Operator -> ControlState] /\ BusyControlHasJob'
  <2>1. ASSUME Answer(o)
        PROVE  control' \in [Operator -> ControlState] /\ BusyControlHasJob'
    <3>1. IdleControl \in ControlState
      BY DEF IdleControl, ControlState
    <3> QED
      BY <2>1, <3>1 DEF Answer, TypeOK, IdleControl
  <2>2. ASSUME NEW from \in Operation, NEW to \in {"force", "cleanup"}, Turn(o, from, to)
        PROVE  control' \in [Operator -> ControlState] /\ BusyControlHasJob'
    <3>1. control[o].pc = from /\ from # "idle" /\ control[o].job \in Job
      BY <2>2 DEF Turn, Operation
    <3>2. [control[o] EXCEPT !.pc = to] \in ControlState
      BY DEF TypeOK, ControlState
    <3> QED
      BY <2>2, <3>1, <3>2 DEF Turn, TypeOK, ControlState
  <2> QED
    BY <2>1, <2>2
<1>2. CASE RequestControl(o)
  BY <1>0, <1>2, BoundAssumption DEF RequestControl, rows, TypeOK, ControlState, Operation
<1>3. CASE CancelRun(o)
  <2>1. PICK j \in Job : CancelCascade(j)
    BY <1>3 DEF CancelRun
  <2>2. job' \in [Job -> JobRow]
    BY <2>1 DEF CancelCascade, TypeOK, JobRow, JobStatus, Terminal
  <2>3. run' \in [Job -> RunStatus]
    BY <2>1 DEF CancelCascade, TypeOK, RunStatus, Terminal
  <2>4. draft' \in [Job -> DraftRow]
    BY <2>1 DEF CancelCascade, TypeOK, DraftRow, DraftStatus, Terminal
  <2> QED
    BY <1>0, <1>1, <1>3, <2>2, <2>3, <2>4 DEF CancelRun, TypeOK
<1>4. CASE CancelCascadeEmpty(o) \/ CancelCascadeRaises(o)
  BY <1>0, <1>1, <1>4, BoundAssumption
  DEF CancelCascadeEmpty, CancelCascadeRaises, Strike, rows, TypeOK, Operation
<1>5. CASE ForceCancelRun(o) \/ RequeueRun(o)
  BY <1>0, <1>1, <1>5 DEF ForceCancelRun, RequeueRun, TypeOK, RunStatus, Terminal
<1>6. CASE DeleteRun(o)
  BY <1>0, <1>1, <1>6 DEF DeleteRun, TypeOK, RunStatus, Operation
<1>7. CASE DeleteJobs(o)
  BY <1>0, <1>1, <1>7, BoundAssumption DEF DeleteJobs, TypeOK, JobRow, JobStatus
<1>8. CASE DeleteJobsFails(o)
  BY <1>0, <1>1, <1>8, BoundAssumption DEF DeleteJobsFails, Strike, rows, TypeOK
<1>9. CASE ControlWriteLost(o)
  BY <1>0, <1>1, <1>9, BoundAssumption DEF ControlWriteLost, Strike, rows, TypeOK
<1> QED
  BY <1>2, <1>3, <1>4, <1>5, <1>6, <1>7, <1>8, <1>9 DEF ControlStep, ControlInput

\* Lease expiry, backoff and cron keep the type invariant.
LEMMA ShapeTime ==
  ASSUME Shape, NEW j \in Job, LeaseExpires(j) \/ BackoffElapses(j) \/ SyncDraft(j)
  PROVE  Shape'
<1> USE DEF Shape, TypeOK, BusyWorkerHasJob, BusyControlHasJob
<1>1. CASE LeaseExpires(j)
  BY <1>1 DEF LeaseExpires, JobRow
<1>2. CASE BackoffElapses(j)
  BY <1>2 DEF BackoffElapses, JobRow
<1>3. CASE SyncDraft(j)
  BY <1>3 DEF SyncDraft, DraftRow, DraftStatus, JobRow, JobStatus, Terminal
<1> QED
  BY <1>1, <1>2, <1>3

\* Every step keeps the type invariant.
LEMMA ShapeStep == Shape /\ [Next]_vars => Shape'
<1> SUFFICES ASSUME Shape, [Next]_vars PROVE Shape'
  OBVIOUS
<1>1. CASE Next
  BY <1>1, ShapeImport, ShapeWorker, ShapeControl, ShapeTime DEF Next
<1>2. CASE UNCHANGED vars
  BY <1>2 DEF vars, rows, Shape, TypeOK, BusyWorkerHasJob, BusyControlHasJob
<1> QED
  BY <1>1, <1>2

\* Every variable keeps its type: the row, the process and the counter of each
\* component stay in the sets the code draws them from, whatever the number of
\* imports, workers and operators and whatever fails.
THEOREM TypeCorrect == Spec => []TypeOK
<1>1. Init => Shape
  BY BoundAssumption DEF Init, Shape, TypeOK, JobRow, JobStatus, RunStatus, CreditStatus,
     DraftRow, DraftStatus, Products, IngestState, WorkerState, IdleWorker, ControlState,
     IdleControl, BusyWorkerHasJob, BusyControlHasJob
<1>2. Shape /\ [Next]_vars => Shape'
  BY ShapeStep
<1>3. Shape => TypeOK
  BY DEF Shape
<1> QED
  BY <1>1, <1>2, <1>3, PTL DEF Spec

-----------------------------------------------------------------------------
(* The invariant of the queue.                                             *)

\* A step that leaves an import's rows and holders alone.
Untouched(k) ==
  /\ job'[k] = job[k] /\ draft'[k].products = draft[k].products
  /\ credit'[k] = "released" => credit[k] = "released"
  /\ ingest'[k] = ingest[k] /\ lapsed \subseteq lapsed'
  /\ \A v \in Worker : /\ cache'[v][k] = cache[v][k]
                       /\ Holds(v, k)' => Holds(v, k)
                       /\ Holds(v, k)' => worker'[v] = worker[v]

\* A step that leaves the rows and the workers of an import alone keeps it safe.
LEMMA UntouchedSafe ==
  ASSUME NEW k \in Job, Safe(k), Untouched(k)
  PROVE  Safe(k)'
<1> USE DEF Untouched, Safe
<1>1. QueuedOnceEnqueued(k)'
  BY DEF QueuedOnceEnqueued
<1>2. ReleasedOnce(k)'
  BY DEF ReleasedOnce
<1>3. ASSUME k \notin lapsed'
      PROVE  Owned(k)'
  <2>1. Owned(k)
    BY <1>3
  <2>2. ASSUME NEW v \in Worker, Holds(v, k)'
        PROVE  Fenced(v, k)'
    BY <2>1, <2>2 DEF Owned, Fenced
  <2> QED
    BY <2>1, <2>2 DEF Owned
<1> QED
  BY <1>1, <1>2, <1>3

\* Nothing is imported at first.
LEMMA SafeInit == Init => IInv
  BY BoundAssumption DEF Init, IInv, Shape, TypeOK, JobRow, JobStatus, RunStatus, CreditStatus,
     DraftRow, DraftStatus, Products, IngestState, WorkerState, IdleWorker, ControlState,
     IdleControl, BusyWorkerHasJob, BusyControlHasJob, Safe, QueuedOnceEnqueued,
     ReleasedOnce, Owned, Holds

\* The steps of an import request keep the invariant.
LEMMA SafeImport ==
  ASSUME IInv, NEW j \in Job, ImportStep(j) \/ ImportFault(j)
  PROVE  \A k \in Job : Safe(k)'
<1> USE DEF Enqueued
<1>0. UNCHANGED <<worker, cache, control, lapsed, controls>>
  BY DEF ImportStep, ImportFault
<1>1. Safe(j)
  BY DEF IInv
<1>2. /\ \A k \in Job \ {j} : /\ job'[k] = job[k] /\ draft'[k] = draft[k]
                              /\ credit'[k] = credit[k] /\ ingest'[k] = ingest[k]
      /\ \/ /\ ingest[j] = "refund" /\ ingest'[j] \in {"rejected", "crashed"}
            /\ UNCHANGED <<job, draft>>
         \/ /\ ingest[j] \notin Enqueued /\ ingest'[j] # "rejected"
            /\ credit'[j] \in {credit[j], "reserved", "stranded"}
            /\ \/ job' = job
               \/ ingest'[j] \in Enqueued /\ job'[j].status = "queued"
  BY DEF IInv, Shape, TypeOK, ImportStep, ImportFault, ReuseActiveDraft, StartImport,
     ReserveCredits, DeclineImport, BillRun, SaveQueuedDraft, WriteQueuedDraft, TrackRun,
     EnqueueJob, WriteQueuedJob, RefundImport, PersistFails, RunWriteLost, CrashImport, Proceed,
     Importing, rows
<1>3. \A k \in Job \ {j} : Safe(k)'
  <2> SUFFICES ASSUME NEW k \in Job \ {j} PROVE Safe(k)'
    OBVIOUS
  <2>1. Untouched(k)
    BY <1>0, <1>2 DEF Untouched, Holds
  <2> QED
    BY <2>1, UntouchedSafe DEF IInv
<1>4. CASE /\ ingest[j] = "refund" /\ ingest'[j] \in {"rejected", "crashed"}
           /\ UNCHANGED <<job, draft>>
  <2>1. QueuedOnceEnqueued(j)' /\ ReleasedOnce(j)'
    BY <1>4 DEF QueuedOnceEnqueued, ReleasedOnce
  <2>2. j \notin lapsed => Owned(j)'
    BY <1>0, <1>1, <1>4 DEF Safe, Owned, Fenced, Holds
  <2> QED
    BY <1>0, <1>3, <2>1, <2>2 DEF Safe
<1>5. CASE /\ ingest[j] \notin Enqueued /\ ingest'[j] # "rejected"
           /\ credit'[j] \in {credit[j], "reserved", "stranded"}
           /\ \/ job' = job
              \/ ingest'[j] \in Enqueued /\ job'[j].status = "queued"
  <2>1. job[j].status = "absent" /\ \A w \in Worker : ~Holds(w, j)' /\ cache'[w][j] = 0
    BY <1>0, <1>1, <1>5 DEF Safe, QueuedOnceEnqueued, Holds
  <2>2. credit'[j] # "released"
    BY <1>1, <1>5 DEF Safe, ReleasedOnce
  <2>3. QueuedOnceEnqueued(j)' /\ ReleasedOnce(j)' /\ Owned(j)'
    BY <1>5, <2>1, <2>2 DEF QueuedOnceEnqueued, ReleasedOnce, Owned
  <2> QED
    BY <1>3, <2>3 DEF Safe
<1> QED
  BY <1>2, <1>4, <1>5

\* The steps of a control request keep the invariant.
LEMMA SafeControl ==
  ASSUME IInv, NEW o \in Operator, ControlStep(o) \/ ControlInput(o)
  PROVE  \A k \in Job : Safe(k)'
<1>0. /\ UNCHANGED <<ingest, worker, cache, lapsed>>
      /\ \A k \in Job : credit'[k] = "released" => credit[k] = "released"
  <2>1. UNCHANGED <<ingest, worker, cache, lapsed>>
    BY DEF ControlStep, ControlInput
  <2>2. UNCHANGED credit \/ DeleteRun(o)
    BY DEF ControlStep, ControlInput
  <2> QED
    BY <2>1, <2>2 DEF DeleteRun, IInv, Shape, TypeOK, CreditStatus
<1>1. \A k \in Job : draft'[k].products = draft[k].products
  <2>1. CASE CancelRun(o)
    <3>1. PICK j \in Job : CancelCascade(j)
      BY <2>1 DEF CancelRun, BusyControlHasJob, IInv, Shape
    <3> QED
      BY <3>1 DEF CancelCascade, IInv, Shape, TypeOK, DraftRow
  <2>2. CASE ~CancelRun(o)
    <3>1. draft' = draft
      BY <2>2 DEF ControlStep, ControlInput, CancelCascadeEmpty, ForceCancelRun, RequeueRun,
         DeleteRun, DeleteJobs, RequestControl, CancelCascadeRaises, DeleteJobsFails,
         ControlWriteLost, rows
    <3> QED
      BY <3>1
  <2> QED
    BY <2>1, <2>2
<1>2. \A k \in Job :
        \/ job'[k] = job[k]
        \/ job'[k].status = "absent"
        \/ /\ job'[k].status = "cancelled" /\ job'[k].attempt = job[k].attempt
           /\ job[k].status \notin Terminal \cup {"absent"}
  BY DEF IInv, Shape, TypeOK, BusyControlHasJob, ControlStep, ControlInput, CancelRun,
     CancelCascade, CancelCascadeEmpty, ForceCancelRun, RequeueRun, DeleteRun, DeleteJobs,
     RequestControl, CancelCascadeRaises, DeleteJobsFails, ControlWriteLost, rows
<1> SUFFICES ASSUME NEW k \in Job PROVE Safe(k)'
  OBVIOUS
<1>3. Safe(k)
  BY DEF IInv
<1>4. CASE job'[k] = job[k]
  <2>1. Untouched(k)
    BY <1>0, <1>1, <1>4 DEF Untouched, Holds
  <2> QED
    BY <1>3, <2>1, UntouchedSafe
<1>5. CASE job'[k].status = "absent"
  BY <1>0, <1>1, <1>3, <1>5 DEF Safe, QueuedOnceEnqueued, ReleasedOnce, Owned, Fenced, Holds
<1>6. CASE /\ job'[k].status = "cancelled" /\ job'[k].attempt = job[k].attempt
           /\ job[k].status \notin Terminal \cup {"absent"}
  <2>1. QueuedOnceEnqueued(k)' /\ ReleasedOnce(k)'
    BY <1>0, <1>3, <1>6 DEF Safe, QueuedOnceEnqueued, ReleasedOnce, Holds
  <2>2. ASSUME k \notin lapsed
        PROVE  Owned(k)'
    BY <1>0, <1>1, <1>3, <1>6, <2>2 DEF Safe, Owned, Fenced, Holds, Terminal
  <2> QED
    BY <1>0, <2>1, <2>2 DEF Safe
<1> QED
  BY <1>2, <1>4, <1>5, <1>6

\* The passing of time and the draft cron leave each job's status and attempts, and
\* each draft's products, alone.
LEMMA TimeKeepsStatus ==
  ASSUME IInv, NEW j \in Job, LeaseExpires(j) \/ BackoffElapses(j) \/ SyncDraft(j)
  PROVE  \A k \in Job : /\ draft'[k].products = draft[k].products
                       /\ job'[k].status = job[k].status /\ job'[k].attempt = job[k].attempt
<1>1. CASE LeaseExpires(j)
  BY <1>1 DEF LeaseExpires, IInv, Shape, TypeOK, JobRow
<1>2. CASE BackoffElapses(j)
  BY <1>2 DEF BackoffElapses, IInv, Shape, TypeOK, JobRow
<1>3. CASE SyncDraft(j)
  BY <1>3 DEF SyncDraft, IInv, Shape, TypeOK, DraftRow
<1> QED
  BY <1>1, <1>2, <1>3

\* Lease expiry, backoff and cron keep the invariant.
LEMMA SafeTime ==
  ASSUME IInv, NEW j \in Job, LeaseExpires(j) \/ BackoffElapses(j) \/ SyncDraft(j)
  PROVE  \A k \in Job : Safe(k)'
<1>0. UNCHANGED <<credit, ingest, worker, cache>> /\ lapsed \subseteq lapsed'
  BY DEF LeaseExpires, BackoffElapses, SyncDraft
<1>1. \A k \in Job : /\ draft'[k].products = draft[k].products
                     /\ job'[k].status = job[k].status /\ job'[k].attempt = job[k].attempt
  BY TimeKeepsStatus
<1>2. \A k \in Job : job'[k].expired = job[k].expired
                    \/ (\A w \in Worker : ~Holds(w, k)) \/ k \in lapsed'
  <2>1. CASE LeaseExpires(j)
    <3>1. \A k \in Job \ {j} : job'[k] = job[k]
      BY <2>1 DEF LeaseExpires, IInv, Shape, TypeOK
    <3>2. (\A w \in Worker : ~Holds(w, j)) \/ j \in lapsed'
      BY <2>1 DEF LeaseExpires
    <3> QED
      BY <3>1, <3>2
  <2>2. CASE BackoffElapses(j)
    BY <2>2 DEF BackoffElapses, IInv, Shape, TypeOK, JobRow
  <2>3. CASE SyncDraft(j)
    BY <2>3 DEF SyncDraft
  <2> QED
    BY <2>1, <2>2, <2>3
<1> SUFFICES ASSUME NEW k \in Job PROVE Safe(k)'
  OBVIOUS
<1>3. Safe(k)
  BY DEF IInv
<1>4. QueuedOnceEnqueued(k)' /\ ReleasedOnce(k)'
  BY <1>0, <1>1, <1>3 DEF Safe, QueuedOnceEnqueued, ReleasedOnce, Holds
<1>5. ASSUME k \notin lapsed'
      PROVE  Owned(k)'
  <2>1. Owned(k)
    BY <1>0, <1>3, <1>5 DEF Safe
  <2>2. ASSUME NEW w \in Worker, Holds(w, k)'
        PROVE  Fenced(w, k)'
    <3>1. Holds(w, k) /\ Fenced(w, k) /\ job'[k].expired = job[k].expired
      BY <1>0, <1>2, <1>5, <2>1, <2>2 DEF Owned, Holds
    <3> QED
      BY <1>0, <1>1, <3>1 DEF Fenced
  <2> QED
    BY <1>0, <1>1, <2>1, <2>2 DEF Owned, Holds
<1> QED
  BY <1>4, <1>5 DEF Safe

\* A worker that stops holding its job leaves the others as they were.
LEMMA RestEffect ==
  ASSUME Shape, NEW w \in Worker, Rest(w)
  PROVE  /\ \A j \in Job : ~Holds(w, j)'
         /\ \A v \in Worker \ {w} : worker'[v] = worker[v]
  BY DEF Rest, IdleWorker, Holds, Shape, TypeOK

\* A worker that takes a job leaves the other workers as they were.
LEMMA TakeEffect ==
  ASSUME Shape, NEW w \in Worker, NEW j \in Job, NEW n \in 1..MaxAttempts, Take(w, j, n)
  PROVE  /\ worker[w].pc = "idle"
         /\ worker'[w].pc = "claimed" /\ worker'[w].job = j /\ worker'[w].attempt = n
         /\ \A v \in Worker \ {w} : worker'[v] = worker[v]
         /\ \A v \in Worker : \A k \in Job \ {j} : cache'[v][k] = cache[v][k]
<1>1. worker[w].pc = "idle"
  BY DEF Take
<1>2. worker' = [worker EXCEPT ![w] = [pc |-> "claimed", job |-> j,
                                       attempt |-> n, seen |-> "empty"]]
  BY DEF Take
<1>3. /\ worker'[w].pc = "claimed" /\ worker'[w].job = j /\ worker'[w].attempt = n
      /\ \A v \in Worker \ {w} : worker'[v] = worker[v]
  BY <1>2 DEF Shape, TypeOK
<1>4. \A v \in Worker : \A k \in Job \ {j} : cache'[v][k] = cache[v][k]
  <2>1. cache' = [cache EXCEPT ![w] = [cache[w] EXCEPT ![j] = n]]
    BY DEF Take
  <2>2. cache \in [Worker -> [Job -> 0..MaxAttempts]]
    BY DEF Shape, TypeOK
  <2>3. cache'[w] = [cache[w] EXCEPT ![j] = n] /\ \A v \in Worker \ {w} : cache'[v] = cache[v]
    BY <2>1, <2>2
  <2>4. \A k \in Job \ {j} : cache'[w][k] = cache[w][k]
    BY <2>2, <2>3
  <2> QED
    BY <2>3, <2>4
<1> QED
  BY <1>1, <1>3, <1>4

\* The queue never hands out an import that a worker holds in time.
LEMMA HeldIsNotClaimable ==
  ASSUME IInv, NEW j \in Job \ lapsed, NEW w \in Worker, Holds(w, j)
  PROVE  /\ job[j].status \notin {"queued", "retryable"}
         /\ job[j].status = "claimed" => ~job[j].expired
<1>1. Fenced(w, j)
  BY DEF IInv, Safe, Owned
<1>2. worker[w].pc = "claimed" \/ worker[w].pc \in Processing
  BY DEF IInv, Shape, TypeOK, WorkerState, Holds, Processing
<1> QED
  BY <1>1, <1>2 DEF Fenced, Terminal

\* A job that can be claimed was enqueued; unless a claim on it lapsed, nobody
\* holds it, and an accepted import among them still has its credits.
LEMMA SafeClaim ==
  ASSUME IInv, NEW w \in Worker, NEW k \in Job, ClaimRow(k)
  PROVE  /\ ingest[k] \in Enqueued
         /\ k \notin lapsed => /\ ingest[k] = "accepted" => credit[k] # "released"
                               /\ \A v \in Worker : ~Holds(v, k)
<1>1. /\ job[k].status \in {"queued", "retryable", "claimed"}
      /\ job[k].status = "claimed" => job[k].expired
  BY ClaimRowEffect DEF IInv, Shape
<1>2. ingest[k] \in Enqueued
  BY <1>1 DEF IInv, Safe, QueuedOnceEnqueued
<1>3. ASSUME k \notin lapsed, NEW v \in Worker
      PROVE  ~Holds(v, k)
  <2>1. SUFFICES ASSUME Holds(v, k) PROVE FALSE
    OBVIOUS
  <2>2. /\ job[k].status \notin {"queued", "retryable"}
        /\ job[k].status = "claimed" => ~job[k].expired
    BY <1>3, <2>1, HeldIsNotClaimable
  <2> QED
    BY <1>1, <2>2
<1>4. k \notin lapsed /\ ingest[k] = "accepted" => credit[k] # "released"
  BY <1>1 DEF IInv, Safe, Owned
<1> QED
  BY <1>2, <1>3, <1>4

\* Claiming from the queue keeps the invariant.
LEMMA SafeClaimNext ==
  ASSUME IInv, NEW w \in Worker, ClaimNext(w), UNCHANGED ingest
  PROVE  \A k \in Job : Safe(k)'
<1>1. PICK k \in Job : ClaimRow(k) /\ Take(w, k, job[k].attempt + 1)
  BY DEF ClaimNext
<1>2. UNCHANGED <<draft, credit, lapsed, ingest>>
  BY DEF ClaimNext
<1>3. /\ \A i \in Job \ {k} : job'[i] = job[i]
      /\ job'[k].status = "claimed" /\ ~job'[k].expired
      /\ job'[k].attempt = job[k].attempt + 1
      /\ job[k].attempt + 1 \in 1..MaxAttempts
  BY <1>1, ClaimRowEffect DEF IInv, Shape
<1>4. /\ worker[w].pc = "idle"
      /\ worker'[w].pc = "claimed" /\ worker'[w].job = k /\ worker'[w].attempt = job[k].attempt + 1
      /\ \A v \in Worker \ {w} : worker'[v] = worker[v]
      /\ \A v \in Worker : \A i \in Job \ {k} : cache'[v][i] = cache[v][i]
  BY <1>1, <1>3, TakeEffect DEF IInv
<1>5. /\ ingest[k] \in Enqueued
      /\ k \notin lapsed => /\ ingest[k] = "accepted" => credit[k] # "released"
                            /\ \A v \in Worker : ~Holds(v, k)
  BY <1>1, SafeClaim
<1>6. \A i \in Job \ {k} : Safe(i)'
  <2> SUFFICES ASSUME NEW i \in Job \ {k} PROVE Safe(i)'
    OBVIOUS
  <2>1. Untouched(i)
    BY <1>2, <1>3, <1>4 DEF Untouched, Holds
  <2> QED
    BY <2>1, UntouchedSafe DEF IInv
<1>7. QueuedOnceEnqueued(k)' /\ ReleasedOnce(k)'
  BY <1>2, <1>5 DEF QueuedOnceEnqueued, ReleasedOnce
<1>8. ASSUME k \notin lapsed
      PROVE  Owned(k)'
  <2>1. \A v \in Worker : Holds(v, k)' => v = w
    BY <1>4, <1>5, <1>8 DEF Holds
  <2>2. Fenced(w, k)'
    BY <1>2, <1>3, <1>4, <1>5, <1>8 DEF Fenced, Processing
  <2> QED
    BY <1>2, <1>3, <1>5, <1>8, <2>1, <2>2 DEF Owned
<1> QED
  BY <1>2, <1>6, <1>7, <1>8 DEF Safe

\* A claim whose answer is lost keeps the invariant, memory copy included.
LEMMA SafeClaimFails ==
  ASSUME IInv, NEW w \in Worker, ClaimFails(w), UNCHANGED ingest
  PROVE  \A k \in Job : Safe(k)'
<1>1. UNCHANGED <<draft, credit, ingest>>
  BY DEF ClaimFails
<1>2. ASSUME NEW k \in Job, job'[k] # job[k]
      PROVE  /\ job'[k].status = "claimed" /\ ~job'[k].expired /\ ingest[k] \in Enqueued
             /\ k \notin lapsed => /\ ingest[k] = "accepted" => credit[k] # "released"
                                   /\ \A v \in Worker : ~Holds(v, k)
  <2>1. PICK i \in Job : ClaimRow(i)
    BY <1>2 DEF ClaimFails
  <2>2. i = k /\ job'[k].status = "claimed" /\ ~job'[k].expired
    BY <1>2, <2>1, ClaimRowEffect DEF IInv, Shape
  <2> QED
    BY <2>1, <2>2, SafeClaim
<1>3. \/ UNCHANGED <<worker, cache, lapsed>>
      \/ \E i \in Job :
           /\ lapsed' = lapsed \cup {i} /\ ingest[i] \in Enqueued
           /\ worker'[w].job = i
           /\ \A v \in Worker \ {w} : worker'[v] = worker[v]
           /\ \A v \in Worker : \A k \in Job \ {i} : cache'[v][k] = cache[v][k]
  <2>1. CASE \E i \in Job : /\ CachedClaimable(w, i) /\ Take(w, i, cache[w][i] + 1)
                            /\ lapsed' = lapsed \cup {i}
    <3>1. PICK i \in Job : /\ CachedClaimable(w, i) /\ Take(w, i, cache[w][i] + 1)
                           /\ lapsed' = lapsed \cup {i}
      BY <2>1
    <3>2. cache[w][i] + 1 \in 1..MaxAttempts /\ cache[w][i] # 0
      BY <3>1, BoundAssumption DEF CachedClaimable
    <3>3. /\ worker'[w].job = i
          /\ \A v \in Worker \ {w} : worker'[v] = worker[v]
          /\ \A v \in Worker : \A k \in Job \ {i} : cache'[v][k] = cache[v][k]
      BY <3>1, <3>2, TakeEffect DEF IInv
    <3>4. ingest[i] \in Enqueued
      BY <3>2 DEF IInv, Safe, QueuedOnceEnqueued
    <3> QED
      BY <3>1, <3>3, <3>4
  <2> QED
    BY <2>1 DEF ClaimFails
<1> SUFFICES ASSUME NEW k \in Job PROVE Safe(k)'
  OBVIOUS
<1>4. Safe(k)
  BY DEF IInv
<1>5. CASE k \in lapsed' /\ ingest[k] \in Enqueued
  BY <1>1, <1>4, <1>5 DEF Safe, QueuedOnceEnqueued, ReleasedOnce
<1>6. CASE ~(k \in lapsed' /\ ingest[k] \in Enqueued)
  <2>1. /\ lapsed \subseteq lapsed'
        /\ \A v \in Worker : /\ cache'[v][k] = cache[v][k]
                             /\ Holds(v, k)' => Holds(v, k) /\ worker'[v] = worker[v]
    BY <1>3, <1>6 DEF Holds
  <2>2. CASE job'[k] = job[k]
    <3>1. Untouched(k)
      BY <1>1, <2>1, <2>2 DEF Untouched
    <3> QED
      BY <1>4, <3>1, UntouchedSafe
  <2>3. CASE job'[k] # job[k]
    <3>1. /\ job'[k].status = "claimed" /\ ingest[k] \in Enqueued
          /\ k \notin lapsed => /\ ingest[k] = "accepted" => credit[k] # "released"
                                /\ \A v \in Worker : ~Holds(v, k)
      BY <1>2, <2>3
    <3>2. k \notin lapsed' => Owned(k)'
      BY <1>1, <2>1, <3>1 DEF Owned
    <3> QED
      BY <1>1, <1>4, <3>1, <3>2 DEF Safe, QueuedOnceEnqueued, ReleasedOnce
  <2> QED
    BY <2>2, <2>3
<1> QED
  BY <1>5, <1>6

\* A busy worker changes the rows of its own import only.
OwnImportOnly(w, j) ==
  /\ UNCHANGED <<cache, lapsed, ingest>>
  /\ \A k \in Job \ {j} : /\ job'[k] = job[k] /\ credit'[k] = credit[k]
                          /\ draft'[k].products = draft[k].products
  /\ \A v \in Worker \ {w} : worker'[v] = worker[v]
  /\ \/ \A k \in Job : ~Holds(w, k)'
     \/ worker'[w].job = j /\ worker'[w].attempt = worker[w].attempt

\* What holds of the import of a busy worker, above all when its claim did not
\* lapse.
LEMMA OwnImport ==
  ASSUME IInv, NEW w \in Worker, worker[w].pc # "idle"
  PROVE  /\ worker[w].job \in Job /\ ingest[worker[w].job] \in Enqueued
         /\ worker[w].job \notin lapsed =>
              /\ Owned(worker[w].job) /\ Fenced(w, worker[w].job)
              /\ job[worker[w].job].status # "succeeded"
              /\ \A v \in Worker : Holds(v, worker[w].job) => v = w
<1>1. worker[w].job \in Job /\ Holds(w, worker[w].job)
  BY DEF IInv, Shape, BusyWorkerHasJob, Holds
<1>2. Safe(worker[w].job)
  BY <1>1 DEF IInv
<1> QED
  BY <1>1, <1>2 DEF Safe, QueuedOnceEnqueued, Owned

\* What a worker writes for its import leaves every other import safe.
LEMMA OthersSafe ==
  ASSUME IInv, NEW w \in Worker, worker[w].pc # "idle",
         NEW j \in Job, worker[w].job = j, OwnImportOnly(w, j),
         j \notin lapsed => Owned(j)'
  PROVE  \A k \in Job : Safe(k)'
<1>1. ingest[j] \in Enqueued
  BY OwnImport
<1>2. Safe(j)'
  BY <1>1 DEF OwnImportOnly, Safe, QueuedOnceEnqueued, ReleasedOnce
<1>3. ASSUME NEW k \in Job \ {j}
      PROVE  Safe(k)'
  <2>1. Untouched(k)
    BY DEF OwnImportOnly, Untouched, Holds
  <2> QED
    BY <2>1, UntouchedSafe DEF IInv
<1> QED
  BY <1>2, <1>3

\* A busy worker that moves on to another step of the same import.
LEMMA MoveSafe ==
  ASSUME IInv, NEW w \in Worker, worker[w].pc # "idle",
         NEW j \in Job, worker[w].job = j, OwnImportOnly(w, j),
         worker'[w].job = j, worker'[w].pc \in Processing,
         worker'[w].attempt = worker[w].attempt,
         job'[j].attempt = job[j].attempt,
         \/ worker[w].pc \in Processing /\ job'[j] = job[j]
         \/ job[j].status # "absent" /\ job'[j].status = "running"
         \/ job[j].status \in Terminal /\ job'[j] = job[j],
         worker'[w].pc = "retry" => worker[w].attempt < MaxAttempts,
         worker'[w].pc = "complete" => draft'[j].products = "extracted",
         \/ worker'[w].pc \in {"readDraft", "writeDraft", "bury"}
         \/ /\ credit'[j] = credit[j]
            /\ worker[w].pc \notin {"readDraft", "writeDraft", "bury"}
  PROVE  \A k \in Job : Safe(k)'
<1>1. ASSUME j \notin lapsed
      PROVE  Owned(j)'
  <2>1. /\ Owned(j) /\ Fenced(w, j) /\ job[j].status # "succeeded"
        /\ \A v \in Worker : Holds(v, j) => v = w
    BY <1>1, OwnImport
  <2>2. \A v \in Worker : Holds(v, j)' => v = w
    BY <2>1 DEF OwnImportOnly, Holds
  <2>3. job'[j].status \in {"running", "absent"} \cup (Terminal \ {"succeeded"})
    BY <2>1 DEF Fenced, Terminal
  <2>4. job'[j].status # "absent" => worker'[w].attempt = job'[j].attempt
    BY <2>1 DEF Fenced, Terminal
  <2>5. Fenced(w, j)'
    BY <2>1, <2>3, <2>4 DEF Fenced, Processing, OwnImportOnly
  <2> QED
    BY <2>2, <2>3, <2>5 DEF Owned, Terminal
<1> QED
  BY <1>1, OthersSafe

\* A busy worker whose transition ends the attempt.
LEMMA FinishSafe ==
  ASSUME IInv, NEW w \in Worker, worker[w].pc # "idle",
         NEW j \in Job, worker[w].job = j, Rest(w), UNCHANGED <<cache, credit, lapsed, ingest>>,
         \A k \in Job : draft'[k].products = draft[k].products,
         \A k \in Job \ {j} : job'[k] = job[k],
         job'[j].attempt = job[j].attempt,
         \/ job'[j] = job[j]
         \/ job'[j].status = "running"
         \/ job'[j].status = "succeeded" /\ worker[w].pc = "complete"
         \/ job'[j].status = "retryable" /\ worker[w].pc = "retry" /\ job[j].status # "absent"
         \/ job'[j].status = "failed"
  PROVE  \A k \in Job : Safe(k)'
<1>1. /\ \A k \in Job : ~Holds(w, k)'
      /\ \A v \in Worker \ {w} : worker'[v] = worker[v]
  BY RestEffect DEF IInv
<1>2. OwnImportOnly(w, j)
  BY <1>1 DEF OwnImportOnly
<1>3. ASSUME j \notin lapsed
      PROVE  Owned(j)'
  <2>1. /\ Owned(j) /\ Fenced(w, j) /\ job[j].status # "succeeded"
        /\ \A v \in Worker : Holds(v, j) => v = w
    BY <1>3, OwnImport
  <2>2. \A v \in Worker : ~Holds(v, j)'
    BY <1>1, <2>1 DEF Holds
  <2>3. job'[j].status = "retryable" => job'[j].attempt < MaxAttempts
    BY <2>1 DEF Owned, Fenced
  <2>4. job'[j].status = "succeeded" => draft'[j].products = "extracted"
    BY <2>1 DEF Fenced
  <2>5. ingest[j] = "accepted" /\ credit[j] = "released"
          => job'[j].status \notin {"queued", "claimed", "retryable", "succeeded"}
    BY <2>1, OwnImport DEF Owned, Fenced
  <2> QED
    BY <2>2, <2>3, <2>4, <2>5 DEF Owned
<1> QED
  BY <1>2, <1>3, OthersSafe

\* The transitions that end an attempt keep the invariant, answered or not.
LEMMA SafeFinish ==
  ASSUME IInv, NEW w \in Worker, UNCHANGED ingest,
         \/ BeginProcessing(w) /\ Rest(w)
         \/ BeginProcessingLost(w) \/ Complete(w) \/ ScheduleRetry(w) \/ Bury(w) \/ FinishLost(w)
  PROVE  \A k \in Job : Safe(k)'
<1>1. PICK target \in {"running", "succeeded", "failed", "retryable"} :
        /\ Transition(worker[w].job, target) \/ TransitionLost(worker[w].job, target)
        /\ target = "succeeded" => worker[w].pc = "complete"
        /\ target = "retryable" => worker[w].pc = "retry"
  BY DEF BeginProcessing, BeginProcessingLost, Complete, ScheduleRetry, Bury, FinishLost
<1>2. Rest(w) /\ worker[w].pc # "idle" /\ UNCHANGED <<cache, credit, lapsed>>
  BY DEF BeginProcessing, BeginProcessingLost, Complete, ScheduleRetry, Bury, FinishLost
<1>3. PICK j \in Job : worker[w].job = j
  BY <1>2 DEF IInv, Shape, BusyWorkerHasJob
<1>4. /\ \A k \in Job : job'[k].attempt = job[k].attempt
      /\ \A k \in Job : draft'[k].products = draft[k].products
      /\ \A k \in Job \ {j} : job'[k] = job[k]
      /\ \/ job'[j] = job[j]
         \/ ~Refused(j, target) /\ job'[j].status = target
  <2>1. CASE Transition(j, target)
    BY <2>1, TransitionRows DEF IInv, Shape
  <2>2. CASE TransitionLost(j, target)
    BY <2>2, TransitionLostRows DEF IInv, Shape
  <2> QED
    BY <1>1, <1>3, <2>1, <2>2
<1>5. \/ job'[j] = job[j]
      \/ job'[j].status = "running"
      \/ job'[j].status = "succeeded" /\ worker[w].pc = "complete"
      \/ job'[j].status = "retryable" /\ worker[w].pc = "retry" /\ job[j].status # "absent"
      \/ job'[j].status = "failed"
  BY <1>1, <1>4 DEF Refused
<1> QED
  BY <1>2, <1>3, <1>4, <1>5, FinishSafe

\* A worker that dies, or had nothing to do when it did.
LEMMA SafeCrashWorker ==
  ASSUME IInv, NEW w \in Worker, CrashWorker(w), UNCHANGED ingest
  PROVE  \A k \in Job : Safe(k)'
<1>1. UNCHANGED <<job, draft, credit, lapsed, ingest>>
  BY DEF CrashWorker, rows
<1>2. /\ \A k \in Job : ~Holds(w, k)'
      /\ \A v \in Worker \ {w} : worker'[v] = worker[v]
  BY RestEffect DEF IInv, CrashWorker
<1>3. \A v \in Worker, k \in Job : cache'[v][k] \in {cache[v][k], 0}
  BY DEF CrashWorker, IInv, Shape, TypeOK
<1> SUFFICES ASSUME NEW k \in Job PROVE Safe(k)'
  OBVIOUS
<1>4. Safe(k)
  BY DEF IInv
<1>5. \A v \in Worker : Holds(v, k)' => Holds(v, k) /\ worker'[v] = worker[v]
  BY <1>2 DEF Holds
<1>6. QueuedOnceEnqueued(k)' /\ ReleasedOnce(k)'
  BY <1>1, <1>3, <1>4, <1>5 DEF Safe, QueuedOnceEnqueued, ReleasedOnce
<1>7. ASSUME k \notin lapsed
      PROVE  Owned(k)'
  <2>1. Owned(k)
    BY <1>4, <1>7 DEF Safe
  <2>2. \A v \in Worker : Holds(v, k)' => Fenced(v, k)'
    BY <1>1, <1>5, <2>1 DEF Owned, Fenced
  <2> QED
    BY <1>1, <1>5, <2>1, <2>2 DEF Owned
<1> QED
  BY <1>1, <1>6, <1>7 DEF Safe

\* A worker that moves on leaves the other workers as they were.
LEMMA AdvanceEffect ==
  ASSUME Shape, NEW w \in Worker, NEW from, NEW to, Advance(w, from, to)
  PROVE  /\ worker[w].pc = from /\ worker'[w].pc = to
         /\ worker'[w].job = worker[w].job /\ worker'[w].attempt = worker[w].attempt
         /\ \A v \in Worker \ {w} : worker'[v] = worker[v]
  BY DEF Advance, Shape, TypeOK, WorkerState

\* Announcing that a job is running keeps the invariant, answered or not.
LEMMA SafeBegin ==
  ASSUME IInv, NEW w \in Worker, BeginProcessing(w), ~Rest(w), UNCHANGED ingest
  PROVE  \A k \in Job : Safe(k)'
<1>1. PICK j \in Job : worker[w].job = j
  BY DEF BeginProcessing, IInv, Shape, BusyWorkerHasJob
<1>2. /\ Advance(w, "claimed", "fetch") /\ Transition(j, "running")
      /\ job[j].status \notin {"absent", "cancelled"}
      /\ UNCHANGED <<cache, credit, lapsed, ingest>>
  BY <1>1 DEF BeginProcessing
<1>3. /\ worker[w].pc = "claimed" /\ worker'[w].pc = "fetch"
      /\ worker'[w].job = j /\ worker'[w].attempt = worker[w].attempt
      /\ \A v \in Worker \ {w} : worker'[v] = worker[v]
  BY <1>1, <1>2, AdvanceEffect DEF IInv
<1>4. /\ \A k \in Job : job'[k].attempt = job[k].attempt
      /\ \A k \in Job : draft'[k].products = draft[k].products
      /\ \A k \in Job \ {j} : job'[k] = job[k]
      /\ \/ Refused(j, "running") /\ job'[j] = job[j]
         \/ ~Refused(j, "running") /\ job'[j].status = "running"
  BY <1>2, TransitionRows DEF IInv, Shape
<1>5. OwnImportOnly(w, j)
  BY <1>2, <1>3, <1>4 DEF OwnImportOnly
<1>6. \/ job[j].status # "absent" /\ job'[j].status = "running"
      \/ job[j].status \in Terminal /\ job'[j] = job[j]
  BY <1>2, <1>4 DEF Refused
<1> QED
  BY <1>1, <1>2, <1>3, <1>4, <1>5, <1>6, MoveSafe DEF Processing

\* Between the claim and the last transition a worker writes the draft, the run
\* and the credits of its import, never its job.
LEMMA SafeProcessing ==
  ASSUME IInv, NEW w \in Worker, UNCHANGED ingest,
         \/ FetchInput(w) \/ MarkDraftRunning(w) \/ MarkRunRunning(w) \/ SaveExtraction(w)
         \/ ProcessingFails(w) \/ FinalizeFailedRun(w) \/ ReadFailedDraft(w) \/ MarkDraftFailed(w)
  PROVE  \A k \in Job : Safe(k)'
<1>1. worker[w].pc \in Processing /\ worker'[w].pc \in Processing
  BY DEF IInv, Shape, TypeOK, WorkerState, Processing, FetchInput, MarkDraftRunning,
     MarkRunRunning, SaveExtraction, ProcessingFails, FinalizeFailedRun, ReadFailedDraft,
     MarkDraftFailed, ReadDraft, Advance
<1>2. PICK j \in Job : worker[w].job = j
  BY <1>1 DEF IInv, Shape, BusyWorkerHasJob, Processing
<1>3. UNCHANGED <<job, cache, lapsed, ingest>>
  BY DEF FetchInput, MarkDraftRunning, MarkRunRunning, SaveExtraction, ProcessingFails,
     FinalizeFailedRun, ReadFailedDraft, MarkDraftFailed, ReadDraft, rows
<1>4. /\ worker'[w].job = j /\ worker'[w].attempt = worker[w].attempt
      /\ \A v \in Worker \ {w} : worker'[v] = worker[v]
  BY <1>2 DEF IInv, Shape, TypeOK, WorkerState, FetchInput, MarkDraftRunning,
     MarkRunRunning, SaveExtraction, ProcessingFails, FinalizeFailedRun, ReadFailedDraft,
     MarkDraftFailed, ReadDraft, Advance
<1>5. \A k \in Job \ {j} : draft'[k] = draft[k] /\ credit'[k] = credit[k]
  BY <1>2 DEF IInv, Shape, TypeOK, FetchInput, MarkDraftRunning, MarkRunRunning,
     SaveExtraction, ProcessingFails, FinalizeFailedRun, ReadFailedDraft, MarkDraftFailed,
     ReadDraft, WriteDraft, rows
<1>6. worker'[w].pc = "retry" => worker[w].attempt < MaxAttempts
  BY DEF IInv, Shape, TypeOK, WorkerState, FetchInput, MarkDraftRunning, MarkRunRunning,
     SaveExtraction, ProcessingFails, FinalizeFailedRun, ReadFailedDraft, MarkDraftFailed,
     ReadDraft, Advance
<1>7. worker'[w].pc = "complete" => draft'[j].products = "extracted"
  BY <1>2 DEF IInv, Shape, TypeOK, WorkerState, FetchInput, MarkDraftRunning, MarkRunRunning,
     SaveExtraction, ProcessingFails, FinalizeFailedRun, ReadFailedDraft, MarkDraftFailed,
     ReadDraft, WriteDraft, Advance
<1>8. \/ worker'[w].pc \in {"readDraft", "writeDraft", "bury"}
      \/ /\ credit'[j] = credit[j]
         /\ worker[w].pc \notin {"readDraft", "writeDraft", "bury"}
  BY DEF IInv, Shape, TypeOK, WorkerState, FetchInput, MarkDraftRunning, MarkRunRunning,
     SaveExtraction, ProcessingFails, FinalizeFailedRun, ReadFailedDraft, MarkDraftFailed,
     ReadDraft, Advance
<1>9. OwnImportOnly(w, j)
  BY <1>3, <1>4, <1>5 DEF OwnImportOnly
<1> QED
  BY <1>1, <1>2, <1>3, <1>4, <1>6, <1>7, <1>8, <1>9, MoveSafe DEF Processing

\* A read or a write of the worker that raises takes nothing away from its import.
LEMMA SafeLost ==
  ASSUME IInv, NEW w \in Worker, UNCHANGED ingest, ReadDraftLost(w) \/ WriteLost(w)
  PROVE  \A k \in Job : Safe(k)'
<1>1. worker[w].pc \in Processing /\ worker'[w].pc \in Processing
  BY DEF IInv, Shape, TypeOK, WorkerState, Processing, Advance, ReadDraftLost, WriteLost, RunUpsertLost, FinalizeLost,
     FailedDraftLost, DraftSavedButRaised
<1>2. PICK j \in Job : worker[w].job = j
  BY <1>1 DEF IInv, Shape, BusyWorkerHasJob, Processing
<1>3. UNCHANGED <<job, cache, lapsed, ingest>>
  BY DEF rows, ReadDraftLost, WriteLost, RunUpsertLost, FinalizeLost,
     FailedDraftLost, DraftSavedButRaised
<1>4. /\ worker'[w].job = j /\ worker'[w].attempt = worker[w].attempt
      /\ \A v \in Worker \ {w} : worker'[v] = worker[v]
  BY <1>2 DEF IInv, Shape, TypeOK, WorkerState, Advance, ReadDraftLost, WriteLost, RunUpsertLost, FinalizeLost,
     FailedDraftLost, DraftSavedButRaised
<1>5. \A k \in Job \ {j} : draft'[k] = draft[k] /\ credit'[k] = credit[k]
  BY <1>2 DEF IInv, Shape, TypeOK, WriteDraft, rows, ReadDraftLost, WriteLost, RunUpsertLost, FinalizeLost,
     FailedDraftLost, DraftSavedButRaised
<1>6. worker'[w].pc = "retry" => worker[w].attempt < MaxAttempts
  BY DEF IInv, Shape, TypeOK, WorkerState, Advance, ReadDraftLost, WriteLost, RunUpsertLost, FinalizeLost,
     FailedDraftLost, DraftSavedButRaised
<1>7. worker'[w].pc # "complete"
  BY DEF IInv, Shape, TypeOK, WorkerState, Advance, ReadDraftLost, WriteLost, RunUpsertLost, FinalizeLost,
     FailedDraftLost, DraftSavedButRaised
<1>8. \/ worker'[w].pc \in {"readDraft", "writeDraft", "bury"}
      \/ /\ credit'[j] = credit[j]
         /\ worker[w].pc \notin {"readDraft", "writeDraft", "bury"}
  BY DEF IInv, Shape, TypeOK, WorkerState, Advance, ReadDraftLost, WriteLost, RunUpsertLost, FinalizeLost,
     FailedDraftLost, DraftSavedButRaised
<1>9. OwnImportOnly(w, j)
  BY <1>3, <1>4, <1>5 DEF OwnImportOnly
<1> QED
  BY <1>1, <1>2, <1>3, <1>4, <1>6, <1>7, <1>8, <1>9, MoveSafe DEF Processing

\* The steps of a worker keep the invariant.
LEMMA SafeWorker ==
  ASSUME IInv, NEW w \in Worker, WorkerStep(w) \/ WorkerFault(w)
  PROVE  \A k \in Job : Safe(k)'
<1>1. UNCHANGED ingest
  BY DEF WorkerStep, WorkerFault
<1>2. CASE ClaimNext(w)
  BY <1>1, <1>2, SafeClaimNext
<1>3. CASE ClaimFails(w)
  BY <1>1, <1>3, SafeClaimFails
<1>4. CASE BeginProcessing(w)
  BY <1>1, <1>4, SafeBegin, SafeFinish
<1>5. CASE \/ BeginProcessingLost(w) \/ Complete(w) \/ ScheduleRetry(w) \/ Bury(w)
           \/ FinishLost(w)
  BY <1>1, <1>5, SafeFinish
<1>6. CASE CrashWorker(w)
  BY <1>1, <1>6, SafeCrashWorker
<1>7. CASE \/ FetchInput(w) \/ MarkDraftRunning(w) \/ MarkRunRunning(w) \/ SaveExtraction(w)
           \/ ProcessingFails(w) \/ FinalizeFailedRun(w) \/ ReadFailedDraft(w)
           \/ MarkDraftFailed(w)
  BY <1>1, <1>7, SafeProcessing
<1>8. CASE ReadDraftLost(w) \/ WriteLost(w)
  BY <1>1, <1>8, SafeLost
<1> QED
  BY <1>2, <1>3, <1>4, <1>5, <1>6, <1>7, <1>8 DEF WorkerStep, WorkerFault

\* Every step keeps the invariant.
LEMMA SafeStep == IInv /\ [Next]_vars => IInv'
<1> SUFFICES ASSUME IInv, [Next]_vars PROVE IInv'
  OBVIOUS
<1>1. Shape'
  BY ShapeStep DEF IInv
<1>2. \A k \in Job : Safe(k)'
  <2>1. CASE \E j \in Job : ImportStep(j) \/ ImportFault(j)
    BY <2>1, SafeImport
  <2>2. CASE \E j \in Job : LeaseExpires(j) \/ BackoffElapses(j) \/ SyncDraft(j)
    BY <2>2, SafeTime
  <2>3. CASE \E w \in Worker : WorkerStep(w) \/ WorkerFault(w)
    BY <2>3, SafeWorker
  <2>4. CASE \E o \in Operator : ControlStep(o) \/ ControlInput(o)
    BY <2>4, SafeControl
  <2>5. CASE UNCHANGED vars
    <3> SUFFICES ASSUME NEW k \in Job PROVE Safe(k)'
      OBVIOUS
    <3>1. Untouched(k)
      BY <2>5 DEF Untouched, vars, rows, Holds
    <3> QED
      BY <3>1, UntouchedSafe DEF IInv
  <2> QED
    BY <2>1, <2>2, <2>3, <2>4, <2>5 DEF Next
<1> QED
  BY <1>1, <1>2 DEF IInv

\* The inductive invariant holds in every reachable state.
THEOREM Inductive == Spec => []IInv
  BY SafeInit, SafeStep, PTL DEF Spec

-----------------------------------------------------------------------------
(* The properties.                                                         *)

\* Whatever the number of workers and whatever fails, two of them process one
\* import at once only after a claim on it lapsed.
THEOREM Exclusion == Spec => []ExclusiveUnlessLapsed
<1>1. IInv => ExclusiveUnlessLapsed
  BY DEF IInv, Safe, Owned, ExclusiveUnlessLapsed
<1> QED
  BY <1>1, Inductive, PTL

\* For every max_attempts: a retry is scheduled only with an attempt left.
THEOREM RetriesAreClaimable == Spec => []RetryIsClaimable
<1>1. IInv => RetryIsClaimable
  BY DEF IInv, Safe, Owned, RetryIsClaimable
<1> QED
  BY <1>1, Inductive, PTL

\* The products of a job that succeeded are still in its draft, after any retry,
\* cancellation, crash and late failure handling.
THEOREM ProductsAreKept == Spec => []SucceededKeepsProducts
<1>1. IInv => SucceededKeepsProducts
  BY DEF IInv, Safe, Owned, SucceededKeepsProducts
<1> QED
  BY <1>1, Inductive, PTL

\* Once the credits of an accepted import are released its job is out of the
\* queue for good.
THEOREM ReleasedIsFinal == Spec => []NoWorkOnReleasedCredit
<1>1. IInv => NoWorkOnReleasedCredit
  BY DEF IInv, Safe, Owned, NoWorkOnReleasedCredit
<1> QED
  BY <1>1, Inductive, PTL

\* No step of a worker changes the outcome of a finished job.
LEMMA WorkerKeepsOutcomes ==
  ASSUME IInv, NEW w \in Worker, WorkerStep(w) \/ WorkerFault(w)
  PROVE  OutcomesKept
<1>1. CASE job' = job
  BY <1>1 DEF OutcomesKept
<1>2. CASE \E k \in Job : ClaimRow(k)
  <2>1. PICK k \in Job : ClaimRow(k)
    BY <1>2
  <2>2. job[k].status \notin Terminal /\ \A j \in Job \ {k} : job'[j] = job[j]
    BY <2>1, ClaimRowEffect DEF IInv, Shape, Terminal
  <2> QED
    BY <2>2 DEF OutcomesKept
<1>3. ASSUME worker[w].pc # "idle", NEW target \in {"running", "succeeded", "failed", "retryable"},
             Transition(worker[w].job, target) \/ TransitionLost(worker[w].job, target)
      PROVE  OutcomesKept
  <2>1. PICK k \in Job : k = worker[w].job
    BY <1>3 DEF IInv, Shape, BusyWorkerHasJob
  <2>2. /\ \A j \in Job \ {k} : job'[j] = job[j]
        /\ \/ job'[k] = job[k]
           \/ ~Refused(k, target) /\ job'[k].status = target
    <3>1. CASE Transition(k, target)
      BY <3>1, TransitionRows DEF IInv, Shape
    <3>2. CASE TransitionLost(k, target)
      BY <3>2, TransitionLostRows DEF IInv, Shape
    <3> QED
      BY <1>3, <2>1, <3>1, <3>2
  <2> QED
    BY <2>2 DEF OutcomesKept, Refused
<1>4. \/ job' = job
      \/ \E k \in Job : ClaimRow(k)
      \/ /\ worker[w].pc # "idle"
         /\ \E target \in {"running", "succeeded", "failed", "retryable"} :
              Transition(worker[w].job, target) \/ TransitionLost(worker[w].job, target)
  BY DEF WorkerStep, WorkerFault, ClaimNext, BeginProcessing, FetchInput, MarkDraftRunning,
     MarkRunRunning, SaveExtraction, Complete, ProcessingFails, ScheduleRetry,
     FinalizeFailedRun, ReadFailedDraft, MarkDraftFailed, Bury, ClaimFails,
     BeginProcessingLost, FinishLost, CrashWorker, ReadDraft, rows,
     ReadDraftLost, WriteLost, RunUpsertLost, FinalizeLost,
     FailedDraftLost, DraftSavedButRaised
<1> QED
  BY <1>1, <1>2, <1>3, <1>4

\* No report, claim, retry, cancellation or repair takes the outcome of a finished
\* job back; only the deletion of its run removes it.
THEOREM OutcomesAreFinal == Spec => TerminalJobSticky
<1>1. IInv /\ [Next]_vars => [OutcomesKept]_vars
  <2> SUFFICES ASSUME IInv, [Next]_vars PROVE OutcomesKept
    OBVIOUS
  <2>1. ASSUME NEW j \in Job, ImportStep(j) \/ ImportFault(j)
        PROVE  OutcomesKept
    <3>1. \/ job' = job
          \/ WriteQueuedJob(j) /\ ingest[j] \notin Enqueued
      BY <2>1 DEF ImportStep, ImportFault, ReuseActiveDraft, StartImport, ReserveCredits,
         DeclineImport, BillRun, SaveQueuedDraft, TrackRun, EnqueueJob, RefundImport,
         PersistFails, RunWriteLost, CrashImport, WriteQueuedDraft, Proceed, Enqueued, rows
    <3>2. WriteQueuedJob(j) => \A k \in Job \ {j} : job'[k] = job[k]
      BY DEF WriteQueuedJob, IInv, Shape, TypeOK
    <3>3. ingest[j] \notin Enqueued => job[j].status = "absent"
      BY DEF IInv, Safe, QueuedOnceEnqueued
    <3> QED
      BY <3>1, <3>2, <3>3 DEF OutcomesKept, Terminal
  <2>2. ASSUME NEW j \in Job, LeaseExpires(j) \/ BackoffElapses(j) \/ SyncDraft(j)
        PROVE  OutcomesKept
    <3>1. \A k \in Job : job'[k].status = job[k].status
      BY <2>2, TimeKeepsStatus
    <3> QED
      BY <3>1 DEF OutcomesKept
  <2>3. ASSUME NEW o \in Operator, ControlStep(o) \/ ControlInput(o)
        PROVE  OutcomesKept
    BY <2>3 DEF IInv, Shape, TypeOK, BusyControlHasJob, ControlStep, ControlInput, CancelRun,
       CancelCascade, CancelCascadeEmpty, ForceCancelRun, RequeueRun, DeleteRun, DeleteJobs,
       RequestControl, CancelCascadeRaises, DeleteJobsFails, ControlWriteLost, rows,
       OutcomesKept
  <2>4. CASE UNCHANGED vars
    BY <2>4 DEF vars, rows, OutcomesKept
  <2> QED
    BY <2>1, <2>2, <2>3, <2>4, WorkerKeepsOutcomes DEF Next
<1> QED
  BY <1>1, Inductive, PTL DEF Spec, TerminalJobSticky
=============================================================================
