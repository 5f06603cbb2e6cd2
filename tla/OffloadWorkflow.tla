-------------------------- MODULE OffloadWorkflow --------------------------
(***************************************************************************)
(* The life of an offloaded document import: the API process that accepts  *)
(* it, the offload_jobs queue and the SQL functions over it, the worker    *)
(* processes that execute it, the operators who cancel, retry, resume and  *)
(* delete its run, and the cron job that repairs drafts.                   *)
(*                                                                         *)
(* An import owns one offload_jobs row, one llm_runs row, one              *)
(* product_drafts row and one credit reservation; all four are indexed by  *)
(* the job.  Every database statement or SQL function is one step; what a  *)
(* process does between two of them can be interleaved with anybody.       *)
(***************************************************************************)
EXTENDS Naturals

CONSTANTS
  Job,          \* the imports
  NoJob,        \* the job of an idle worker or operator
  FileOf,       \* the uploaded file of each import
  Worker,       \* offload-worker processes
  Operator,     \* API requests that control a run
  MaxAttempts,  \* offload_jobs.max_attempts
  MaxControls,  \* bound: control requests in a behaviour
  MaxFaults,    \* bound: faults in a behaviour
  Faults        \* the kinds of fault that can happen

FaultKinds ==
  {"crash",       \* a process dies; it restarts with empty memory
   "claim",       \* the claim RPC raises, before or after it committed
   "transition",  \* the transition RPC raises, before or after it committed
   "cancel",      \* the cancel RPC raises without having committed
   "persist",     \* a write the import request depends on raises, before or after
                  \* it committed
   "cleanup",     \* deleting the jobs of a deleted run raises
   "read",        \* the worker's read of a draft raises: it goes on without one
   "write"}       \* a write of a run, a draft or a settlement raises

ASSUME JobAssumption == NoJob \notin Job
ASSUME BoundAssumption ==
  /\ MaxAttempts \in Nat \ {0}
  /\ MaxControls \in Nat
  /\ MaxFaults \in Nat
ASSUME FaultAssumption == Faults \subseteq FaultKinds

VARIABLES
  job,       \* offload_jobs
  run,       \* llm_runs.status
  draft,     \* product_drafts: extraction_status and products
  credit,    \* the reservation made for the import
  ingest,    \* where the API request that accepts the import stands
  worker,    \* the worker processes
  cache,     \* SupabaseService.offload_jobs of each worker: attempt cached
  control,   \* the control requests in progress
  lapsed,    \* history: jobs whose claim outlived its lease under a worker
  controls,  \* control requests so far
  faults     \* faults so far

rows == <<job, run, draft>>
vars == <<rows, credit, ingest, worker, cache, control, lapsed, controls, faults>>

Terminal == {"succeeded", "failed", "cancelled"}
JobStatus == {"absent", "queued", "claimed", "running", "retryable"} \cup Terminal
\* "billed": the row holds the billing columns only, so it belongs to no shop
RunStatus == {"absent", "billed", "queued", "running"} \cup Terminal
\* "stranded": still reserved, and no row of llm_runs names the reservation
CreditStatus == {"none", "reserved", "stranded", "released", "charged"}
DraftStatus == {"none", "queued", "running", "retryable"} \cup Terminal
Products == {"empty", "extracted"}
Operation == {"cancel", "retry", "resume", "delete"}

JobRow == [status : JobStatus, attempt : 0..MaxAttempts,
           expired : BOOLEAN, due : BOOLEAN]
DraftRow == [status : DraftStatus, products : Products]
WorkerState ==
  [pc : {"idle", "claimed", "fetch", "markDraft", "markRun", "extract",
         "complete", "retry", "finalize", "readDraft", "writeDraft", "bury"},
   job : Job \cup {NoJob}, attempt : 0..MaxAttempts, seen : Products]
ControlState ==
  [pc : Operation \cup {"idle", "force", "cleanup"}, job : Job \cup {NoJob}]

IdleWorker == [pc |-> "idle", job |-> NoJob, attempt |-> 0, seen |-> "empty"]
IdleControl == [pc |-> "idle", job |-> NoJob]

Init ==
  /\ job = [j \in Job |-> [status |-> "absent", attempt |-> 0,
                           expired |-> FALSE, due |-> FALSE]]
  /\ run = [j \in Job |-> "absent"]
  /\ draft = [j \in Job |-> [status |-> "none", products |-> "empty"]]
  /\ credit = [j \in Job |-> "none"]
  /\ ingest = [j \in Job |-> "new"]
  /\ worker = [w \in Worker |-> IdleWorker]
  /\ cache = [w \in Worker |-> [j \in Job |-> 0]]
  /\ control = [o \in Operator |-> IdleControl]
  /\ lapsed = {}
  /\ controls = 0
  /\ faults = 0

Strike(kind) == kind \in Faults /\ faults < MaxFaults /\ faults' = faults + 1

Holds(w, j) == worker[w].pc # "idle" /\ worker[w].job = j

-----------------------------------------------------------------------------
(* The SQL functions.                                                      *)

RunView(status) == IF status = "retryable" THEN "queued" ELSE status

\* Mutant: a finished job takes any transition
Refused_AbsentOnly(j, target) == job[j].status = "absent"

Refused(j, target) ==
  \/ job[j].status = "absent"
  \/ job[j].status \in Terminal \ {target}

\* transition_offload_workflow: the job, the run and the draft in one step
Transition(j, target) ==
  \/ /\ Refused(j, target)
     /\ UNCHANGED rows
  \/ /\ ~Refused(j, target)
     /\ job' = [job EXCEPT ![j] =
                  [status |-> target, attempt |-> @.attempt, expired |-> FALSE,
                   due |-> IF target = "retryable" THEN FALSE ELSE @.due]]
     /\ run' = [run EXCEPT ![j] = IF @ \in Terminal \cup {"absent"} THEN @
                                  ELSE RunView(target)]
     /\ draft' = [draft EXCEPT ![j].status = RunView(target)]

\* The RPC raised: the caller cannot tell whether the database applied it
TransitionLost(j, target) ==
  /\ Strike("transition")
  /\ Transition(j, target) \/ UNCHANGED rows

\* Mutants: no budget of attempts; live claims are handed out again; expired ones
\* never are
Claimable_NoBudget(j) ==
  \/ job[j].status \in {"queued", "retryable"} /\ job[j].due
  \/ job[j].status = "claimed" /\ job[j].expired

Claimable_LiveClaim(j) ==
  /\ job[j].attempt < MaxAttempts
  /\ \/ job[j].status \in {"queued", "retryable"} /\ job[j].due
     \/ job[j].status = "claimed"

Claimable_NoReclaim(j) ==
  /\ job[j].attempt < MaxAttempts
  /\ job[j].status \in {"queued", "retryable"} /\ job[j].due

Claimable(j) ==
  /\ job[j].attempt < MaxAttempts
  /\ \/ job[j].status \in {"queued", "retryable"} /\ job[j].due
     \/ job[j].status = "claimed" /\ job[j].expired

\* claim_next_offload_job, for the row it picks
ClaimRow(j) ==
  /\ Claimable(j)
  /\ job' = [job EXCEPT ![j] =
               [status |-> "claimed", attempt |-> @.attempt + 1,
                expired |-> FALSE, due |-> @.due]]

\* cancel_run_cascade on a run that is still active
CancelCascade(j) ==
  /\ run[j] \in {"queued", "running"}
  /\ run' = [run EXCEPT ![j] = "cancelled"]
  /\ job' = [job EXCEPT ![j] =
               IF @.status \in Terminal \cup {"absent"} THEN @
               ELSE [status |-> "cancelled", attempt |-> @.attempt,
                     expired |-> FALSE, due |-> @.due]]
  /\ draft' = [draft EXCEPT ![j].status = "cancelled"]

\* Mutant: only the drafts of unfinished jobs are repaired
SyncDraft_Unfinished(j) ==
  /\ draft[j].status \notin Terminal \cup {"none"}
  /\ job[j].status \notin Terminal \cup {"absent"}
  /\ draft' = [draft EXCEPT ![j].status =
                 IF job[j].status \in {"claimed", "running"} THEN "running"
                 ELSE job[j].status]
  /\ UNCHANGED <<job, run, credit, ingest, worker, cache, control, lapsed,
                 controls, faults>>

\* sync_draft_extraction_progress, for one draft; it does not map "retryable"
SyncDraft(j) ==
  /\ draft[j].status \notin Terminal \cup {"none"}
  /\ job[j].status # "absent"
  /\ draft' = [draft EXCEPT ![j].status =
                 IF job[j].status \in {"claimed", "running"} THEN "running"
                 ELSE job[j].status]
  /\ UNCHANGED <<job, run, credit, ingest, worker, cache, control, lapsed,
                 controls, faults>>

-----------------------------------------------------------------------------
(* The API request that accepts an import (process_excel with offload).    *)

Importing == {"reserve", "bill", "draft", "track", "enqueue", "refund"}
IngestState ==
  {"new", "accepted", "rejected", "reused", "declined", "crashed"} \cup Importing

\* _find_active_import_draft_for_file
ActiveDraft(j) ==
  \E k \in Job \ {j} :
    FileOf[k] = FileOf[j] /\ draft[k].status \in {"queued", "running"}

Proceed(j, from, to) == ingest[j] = from /\ ingest' = [ingest EXCEPT ![j] = to]

ReuseActiveDraft(j) ==
  /\ ActiveDraft(j)
  /\ Proceed(j, "new", "reused")
  /\ UNCHANGED <<rows, credit, faults>>

StartImport(j) ==
  /\ ~ActiveDraft(j)
  /\ Proceed(j, "new", "reserve")
  /\ UNCHANGED <<rows, credit, faults>>

ReserveCredits(j) ==
  /\ Proceed(j, "reserve", "bill")
  /\ credit' = [credit EXCEPT ![j] = "reserved"]
  /\ UNCHANGED <<rows, faults>>

\* Mutant: the credits are asked for once the draft is saved
DeclineImport_Late(j) ==
  /\ Proceed(j, "track", "declined")
  /\ UNCHANGED <<rows, credit, faults>>

DeclineImport(j) ==
  /\ Proceed(j, "reserve", "declined")
  /\ UNCHANGED <<rows, credit, faults>>

\* The upsert names neither a status nor a shop
BillRun(j) ==
  /\ Proceed(j, "bill", "draft")
  /\ run' = [run EXCEPT ![j] = "billed"]
  /\ UNCHANGED <<job, draft, credit, faults>>

\* The upsert of a run raises and is logged; the request goes on
RunWriteLost(j) ==
  /\ Strike("write")
  /\ \/ /\ Proceed(j, "bill", "draft")
        /\ credit' = [credit EXCEPT ![j] = "stranded"]
     \/ /\ Proceed(j, "track", "enqueue")
        /\ UNCHANGED credit
  /\ UNCHANGED rows

\* _save_draft_state; the draft of a new import has nothing to keep
WriteQueuedDraft(j) ==
  /\ draft' = [draft EXCEPT ![j] = [status |-> "queued", products |-> "empty"]]
  /\ UNCHANGED <<job, run>>

SaveQueuedDraft(j) ==
  /\ Proceed(j, "draft", "track")
  /\ WriteQueuedDraft(j)
  /\ UNCHANGED <<credit, faults>>

TrackRun(j) ==
  /\ Proceed(j, "track", "enqueue")
  /\ run' = [run EXCEPT ![j] = "queued"]
  /\ UNCHANGED <<job, draft, credit, faults>>

WriteQueuedJob(j) ==
  /\ job' = [job EXCEPT ![j] = [status |-> "queued", attempt |-> 0,
                                expired |-> FALSE, due |-> TRUE]]
  /\ UNCHANGED <<run, draft>>

EnqueueJob(j) ==
  /\ Proceed(j, "enqueue", "accepted")
  /\ WriteQueuedJob(j)
  /\ UNCHANGED <<credit, faults>>

\* The request gives up; what was written so far stays behind
PersistFails(j) ==
  /\ Strike("persist")
  /\ \/ Proceed(j, "draft", "refund") /\ (WriteQueuedDraft(j) \/ UNCHANGED rows)
     \/ Proceed(j, "enqueue", "refund") /\ (WriteQueuedJob(j) \/ UNCHANGED rows)
  /\ UNCHANGED credit

RefundImport(j) ==
  /\ Proceed(j, "refund", "rejected")
  /\ credit' = [credit EXCEPT ![j] = IF @ = "charged" THEN @ ELSE "released"]
  /\ UNCHANGED <<rows, faults>>

CrashImport(j) ==
  /\ Strike("crash")
  /\ ingest[j] \in Importing
  /\ ingest' = [ingest EXCEPT ![j] = "crashed"]
  /\ UNCHANGED <<rows, credit>>

ImportStep(j) ==
  /\ \/ ReuseActiveDraft(j) \/ StartImport(j)
     \/ ReserveCredits(j) \/ DeclineImport(j)
     \/ BillRun(j) \/ SaveQueuedDraft(j) \/ TrackRun(j)
     \/ EnqueueJob(j) \/ RefundImport(j)
  /\ UNCHANGED <<worker, cache, control, lapsed, controls>>

ImportFault(j) ==
  /\ PersistFails(j) \/ RunWriteLost(j) \/ CrashImport(j)
  /\ UNCHANGED <<worker, cache, control, lapsed, controls>>

-----------------------------------------------------------------------------
(* The worker process.                                                     *)

Advance(w, from, to) ==
  worker[w].pc = from /\ worker' = [worker EXCEPT ![w].pc = to]

Rest(w) == worker' = [worker EXCEPT ![w] = IdleWorker]

Take(w, j, attempt) ==
  /\ worker[w].pc = "idle"
  /\ worker' = [worker EXCEPT ![w] = [pc |-> "claimed", job |-> j,
                                      attempt |-> attempt, seen |-> "empty"]]
  /\ cache' = [cache EXCEPT ![w][j] = attempt]

ClaimNext(w) ==
  \E j \in Job :
    /\ ClaimRow(j)
    /\ Take(w, j, job[j].attempt + 1)
    /\ UNCHANGED <<run, draft, credit, lapsed, faults>>

\* The worker's own copy of a claim never hears of a transition.  Its lease has
\* run out unless it is the claim that the row still holds.
CachedClaimable(w, j) ==
  /\ cache[w][j] \in 1..(MaxAttempts - 1)
  /\ ~(job[j].status = "claimed" /\ ~job[j].expired /\ job[j].attempt = cache[w][j])

\* The claim RPC raises: the database may have claimed a row all the same, and
\* the worker falls back on its copy of the claims it made before
ClaimFails(w) ==
  /\ Strike("claim")
  /\ worker[w].pc = "idle"
  /\ UNCHANGED job \/ \E j \in Job : ClaimRow(j)
  /\ \/ UNCHANGED <<worker, cache, lapsed>>
     \/ \E j \in Job :
          /\ CachedClaimable(w, j)
          /\ Take(w, j, cache[w][j] + 1)
          /\ lapsed' = lapsed \cup {j}
  /\ UNCHANGED <<run, draft, credit>>

\* run_once goes on unless the row is gone or cancelled
BeginProcessing(w) ==
  LET j == worker[w].job IN
  /\ worker[w].pc = "claimed"
  /\ Transition(j, "running")
  /\ IF job[j].status \in {"absent", "cancelled"} THEN Rest(w)
     ELSE Advance(w, "claimed", "fetch")
  /\ UNCHANGED <<cache, credit, lapsed, faults>>

BeginProcessingLost(w) ==
  /\ worker[w].pc = "claimed"
  /\ TransitionLost(worker[w].job, "running")
  /\ Rest(w)
  /\ UNCHANGED <<cache, credit, lapsed>>

\* _save_draft_state reads the row that it later writes back whole
ReadDraft(w, from, to) ==
  /\ worker[w].pc = from
  /\ worker' = [worker EXCEPT ![w].pc = to,
                              ![w].seen = draft[worker[w].job].products]
  /\ UNCHANGED <<rows, cache, credit, lapsed, faults>>

\* A read that raises counts as a draft without products
ReadDraftLost(w) ==
  /\ Strike("read")
  /\ \/ Advance(w, "fetch", "markDraft")
     \/ /\ worker[w].pc = "readDraft"
        /\ worker' = [worker EXCEPT ![w].pc = "writeDraft", ![w].seen = "empty"]
  /\ UNCHANGED <<rows, cache, credit, lapsed>>

WriteDraft(w, status, products) ==
  draft' = [draft EXCEPT ![worker[w].job] = [status |-> status, products |-> products]]

FetchInput(w) == ReadDraft(w, "fetch", "markDraft")

MarkDraftRunning(w) ==
  /\ Advance(w, "markDraft", "markRun")
  /\ WriteDraft(w, "running", worker[w].seen)
  /\ UNCHANGED <<job, run, cache, credit, lapsed, faults>>

\* create_or_update_run: an upsert that looks at nothing
MarkRunRunning(w) ==
  /\ Advance(w, "markRun", "extract")
  /\ run' = [run EXCEPT ![worker[w].job] = "running"]
  /\ UNCHANGED <<job, draft, cache, credit, lapsed, faults>>

\* Mutant: the copy of the draft read at the start is written back
SaveExtraction_StaleCopy(w) ==
  /\ Advance(w, "extract", "complete")
  /\ WriteDraft(w, "succeeded", worker[w].seen)
  /\ UNCHANGED <<job, run, cache, credit, lapsed, faults>>

SaveExtraction(w) ==
  /\ Advance(w, "extract", "complete")
  /\ WriteDraft(w, "succeeded", "extracted")
  /\ UNCHANGED <<job, run, cache, credit, lapsed, faults>>

Complete(w) ==
  /\ worker[w].pc = "complete"
  /\ Transition(worker[w].job, "succeeded")
  /\ Rest(w)
  /\ UNCHANGED <<cache, credit, lapsed, faults>>

\* Mutant: one retry too many
ProcessingFails_ExtraRetry(w) ==
  /\ worker[w].pc \in {"fetch", "markDraft", "extract"}
  /\ \/ /\ worker[w].attempt <= MaxAttempts
        /\ Advance(w, worker[w].pc, "retry")
     \/ Advance(w, worker[w].pc, "finalize")
  /\ UNCHANGED <<rows, cache, credit, lapsed, faults>>

\* The file, the extraction or the write of the draft raises
ProcessingFails(w) ==
  /\ worker[w].pc \in {"fetch", "markDraft", "extract"}
  /\ \/ /\ worker[w].attempt < MaxAttempts
        /\ Advance(w, worker[w].pc, "retry")
     \/ Advance(w, worker[w].pc, "finalize")
  /\ UNCHANGED <<rows, cache, credit, lapsed, faults>>

\* Mutant: the credits are given back before the failure is known to be the last
ScheduleRetry_Refunded(w) ==
  /\ worker[w].pc = "retry"
  /\ Transition(worker[w].job, "retryable")
  /\ credit' = [credit EXCEPT ![worker[w].job] = "released"]
  /\ Rest(w)
  /\ UNCHANGED <<cache, lapsed, faults>>

ScheduleRetry(w) ==
  /\ worker[w].pc = "retry"
  /\ Transition(worker[w].job, "retryable")
  /\ Rest(w)
  /\ UNCHANGED <<cache, credit, lapsed, faults>>

\* finalize_run upserts the run and releases a reservation still open
FinalizeFailedRun(w) ==
  LET j == worker[w].job IN
  /\ Advance(w, "finalize", "readDraft")
  /\ run' = [run EXCEPT ![j] = "failed"]
  /\ credit' = [credit EXCEPT ![j] = IF @ = "reserved" THEN "released" ELSE @]
  /\ UNCHANGED <<job, draft, cache, lapsed, faults>>

ReadFailedDraft(w) == ReadDraft(w, "readDraft", "writeDraft")

MarkDraftFailed(w) ==
  /\ Advance(w, "writeDraft", "bury")
  /\ WriteDraft(w, "failed", worker[w].seen)
  /\ UNCHANGED <<job, run, cache, credit, lapsed, faults>>

\* A write of the worker raises.  Those of the run, of the settlement and of the
\* failed draft are logged; one of the draft that is under way may have
\* committed, and fails the attempt.
RunUpsertLost(w) ==
  /\ Strike("write")
  /\ Advance(w, "markRun", "extract")
  /\ UNCHANGED <<rows, cache, credit, lapsed>>

\* The settlement still reads the run: as long as it is not marked failed, an extraction
\* that was paid for is charged
FinalizeLost(w) ==
  LET j == worker[w].job IN
  /\ Strike("write")
  /\ Advance(w, "finalize", "readDraft")
  /\ \/ run' = run /\ \E s \in {"reserved", "released", "charged"} :
                        credit' = [credit EXCEPT ![j] = IF @ = "reserved" THEN s ELSE @]
     \/ run' = [run EXCEPT ![j] = "failed"] /\ UNCHANGED credit
  /\ UNCHANGED <<job, draft, cache, lapsed>>

FailedDraftLost(w) ==
  /\ Strike("write")
  /\ Advance(w, "writeDraft", "bury")
  /\ UNCHANGED <<rows, cache, credit, lapsed>>

DraftSavedButRaised(w) ==
  /\ Strike("write")
  /\ \/ worker[w].pc = "markDraft" /\ WriteDraft(w, "running", worker[w].seen)
     \/ worker[w].pc = "extract" /\ WriteDraft(w, "succeeded", "extracted")
  /\ \/ /\ worker[w].attempt < MaxAttempts
        /\ Advance(w, worker[w].pc, "retry")
     \/ Advance(w, worker[w].pc, "finalize")
  /\ UNCHANGED <<job, run, cache, credit, lapsed>>

WriteLost(w) ==
  RunUpsertLost(w) \/ FinalizeLost(w) \/ FailedDraftLost(w) \/ DraftSavedButRaised(w)

\* The dead-letter transition
Bury(w) ==
  /\ worker[w].pc = "bury"
  /\ Transition(worker[w].job, "failed")
  /\ Rest(w)
  /\ UNCHANGED <<cache, credit, lapsed, faults>>

\* A transition that raises is logged, and the worker takes the next job
FinishLost(w) ==
  /\ \/ worker[w].pc = "complete" /\ TransitionLost(worker[w].job, "succeeded")
     \/ worker[w].pc = "retry" /\ TransitionLost(worker[w].job, "retryable")
     \/ worker[w].pc = "bury" /\ TransitionLost(worker[w].job, "failed")
  /\ Rest(w)
  /\ UNCHANGED <<cache, credit, lapsed>>

CrashWorker(w) ==
  /\ Strike("crash")
  /\ Rest(w)
  /\ cache' = [cache EXCEPT ![w] = [j \in Job |-> 0]]
  /\ UNCHANGED <<rows, credit, lapsed>>

WorkerStep(w) ==
  /\ \/ ClaimNext(w) \/ BeginProcessing(w)
     \/ FetchInput(w) \/ MarkDraftRunning(w) \/ MarkRunRunning(w)
     \/ SaveExtraction(w) \/ Complete(w)
     \/ ProcessingFails(w) \/ ScheduleRetry(w)
     \/ FinalizeFailedRun(w) \/ ReadFailedDraft(w) \/ MarkDraftFailed(w) \/ Bury(w)
  /\ UNCHANGED <<ingest, control, controls>>

WorkerFault(w) ==
  /\ \/ ClaimFails(w) \/ BeginProcessingLost(w) \/ FinishLost(w)
     \/ ReadDraftLost(w) \/ WriteLost(w) \/ CrashWorker(w)
  /\ UNCHANGED <<ingest, control, controls>>

-----------------------------------------------------------------------------
(* The requests that control a run: each reads the run, then acts on it.   *)

Permitted(op, status) ==
  \/ op = "cancel" /\ status \in {"queued", "running"}
  \/ op = "retry"  /\ status \in {"failed", "cancelled"}
  \/ op = "resume" /\ status = "failed"
  \/ op = "delete" /\ status \in Terminal

Turn(o, from, to) ==
  control[o].pc = from /\ control' = [control EXCEPT ![o].pc = to]

Answer(o) == control' = [control EXCEPT ![o] = IdleControl]

RequestControl(o) ==
  \E op \in Operation, j \in Job :
    /\ controls < MaxControls
    /\ control[o].pc = "idle"
    /\ Permitted(op, run[j])
    /\ control' = [control EXCEPT ![o] = [pc |-> op, job |-> j]]
    /\ controls' = controls + 1
    /\ UNCHANGED <<rows, faults>>

CancelRun(o) ==
  /\ control[o].pc = "cancel"
  /\ CancelCascade(control[o].job)
  /\ Answer(o)
  /\ UNCHANGED <<controls, faults>>

\* The run is no longer active, or the RPC raises: an empty answer all the same
CancelCascadeEmpty(o) ==
  /\ Turn(o, "cancel", "force")
  /\ run[control[o].job] \notin {"queued", "running"}
  /\ UNCHANGED <<rows, controls, faults>>

CancelCascadeRaises(o) ==
  /\ Turn(o, "cancel", "force")
  /\ Strike("cancel")
  /\ UNCHANGED <<rows, controls>>

\* The compatibility fallback: an upsert of the run alone
ForceCancelRun(o) ==
  /\ control[o].pc = "force"
  /\ run' = [run EXCEPT ![control[o].job] = "cancelled"]
  /\ Answer(o)
  /\ UNCHANGED <<job, draft, controls, faults>>

\* Retry and resume upsert the run; no job is queued
RequeueRun(o) ==
  /\ control[o].pc \in {"retry", "resume"}
  /\ run' = [run EXCEPT ![control[o].job] = "queued"]
  /\ Answer(o)
  /\ UNCHANGED <<job, draft, controls, faults>>

DeleteRun(o) ==
  LET j == control[o].job IN
  /\ control[o].pc = "delete"
  /\ run' = [run EXCEPT ![j] = "absent"]
  /\ credit' = [credit EXCEPT ![j] = IF @ = "reserved" THEN "stranded" ELSE @]
  /\ IF run[j] = "absent" THEN Answer(o) ELSE Turn(o, "delete", "cleanup")
  /\ UNCHANGED <<job, draft, controls, faults>>

DeleteJobs(o) ==
  /\ control[o].pc = "cleanup"
  /\ job' = [job EXCEPT ![control[o].job] = [status |-> "absent", attempt |-> 0,
                                            expired |-> FALSE, due |-> FALSE]]
  /\ Answer(o)
  /\ UNCHANGED <<run, draft, controls, faults>>

DeleteJobsFails(o) ==
  /\ control[o].pc = "cleanup"
  /\ Strike("cleanup")
  /\ Answer(o)
  /\ UNCHANGED <<rows, controls>>

\* The upsert or the deletion of the run raises and is logged
ControlWriteLost(o) ==
  /\ control[o].pc \in {"force", "retry", "resume", "delete"}
  /\ Strike("write")
  /\ Answer(o)
  /\ UNCHANGED <<rows, controls>>

ControlStep(o) ==
  /\ \/ /\ \/ CancelRun(o) \/ CancelCascadeEmpty(o) \/ ForceCancelRun(o)
           \/ RequeueRun(o) \/ DeleteJobs(o)
        /\ UNCHANGED credit
     \/ DeleteRun(o)
  /\ UNCHANGED <<ingest, worker, cache, lapsed>>

ControlInput(o) ==
  /\ \/ RequestControl(o) \/ CancelCascadeRaises(o)
     \/ DeleteJobsFails(o) \/ ControlWriteLost(o)
  /\ UNCHANGED <<credit, ingest, worker, cache, lapsed>>

-----------------------------------------------------------------------------
(* Time.                                                                   *)

\* claim_expires_at passes
LeaseExpires(j) ==
  /\ job[j].status = "claimed" /\ ~job[j].expired
  /\ job' = [job EXCEPT ![j].expired = TRUE]
  /\ lapsed' = IF \E w \in Worker : Holds(w, j) THEN lapsed \cup {j} ELSE lapsed
  /\ UNCHANGED <<run, draft, credit, ingest, worker, cache, control, controls, faults>>

\* available_at passes
BackoffElapses(j) ==
  /\ job[j].status # "absent" /\ ~job[j].due
  /\ job' = [job EXCEPT ![j].due = TRUE]
  /\ UNCHANGED <<run, draft, credit, ingest, worker, cache, control, lapsed,
                 controls, faults>>

Next ==
  \/ \E j \in Job : \/ ImportStep(j) \/ ImportFault(j)
                    \/ LeaseExpires(j) \/ BackoffElapses(j) \/ SyncDraft(j)
  \/ \E w \in Worker : WorkerStep(w) \/ WorkerFault(w)
  \/ \E o \in Operator : ControlStep(o) \/ ControlInput(o)

Spec == Init /\ [][Next]_vars

(* Every request and worker keeps going, an extraction ends one way or the *)
(* other, the clock advances and cron runs.  Faults and new control        *)
(* requests are never owed.                                                *)
Fairness ==
  /\ \A j \in Job : /\ WF_vars(ImportStep(j))
                    /\ WF_vars(LeaseExpires(j))
                    /\ WF_vars(BackoffElapses(j))
                    /\ WF_vars(SyncDraft(j))
  /\ \A w \in Worker : WF_vars(WorkerStep(w))
  /\ \A o \in Operator : WF_vars(ControlStep(o))

FairSpec == Spec /\ Fairness

-----------------------------------------------------------------------------
(* Properties.                                                             *)

\* Every variable keeps the shape the rows, the processes and the bounds give it.
TypeOK ==
  /\ job \in [Job -> JobRow]
  /\ run \in [Job -> RunStatus]
  /\ draft \in [Job -> DraftRow]
  /\ credit \in [Job -> CreditStatus]
  /\ ingest \in [Job -> IngestState]
  /\ worker \in [Worker -> WorkerState]
  /\ cache \in [Worker -> [Job -> 0..MaxAttempts]]
  /\ control \in [Operator -> ControlState]
  /\ lapsed \subseteq Job
  /\ controls \in 0..MaxControls
  /\ faults \in 0..MaxFaults

\* Two workers never process one import at once, unless a claim outlived its
\* lease before its worker announced it was running, or a worker fell back on
\* its own copy of an old claim.
ExclusiveUnlessLapsed ==
  \A j \in Job \ lapsed : \A v, w \in Worker :
    Holds(v, j) /\ Holds(w, j) => v = w

\* A job that waits for its backoff can still be claimed when it elapses: the
\* retry is never scheduled with the attempts used up.
RetryIsClaimable ==
  \A j \in Job \ lapsed : job[j].status = "retryable" => job[j].attempt < MaxAttempts

\* A job that succeeded left its products in the draft, and no late write of a
\* stale copy of the draft took them away.
SucceededKeepsProducts ==
  \A j \in Job \ lapsed :
    job[j].status = "succeeded" => draft[j].products = "extracted"

\* An accepted import whose credits were given back is not processed again.
NoWorkOnReleasedCredit ==
  \A j \in Job \ lapsed :
    ingest[j] = "accepted" /\ credit[j] = "released"
      => job[j].status \notin {"queued", "claimed", "retryable", "succeeded"}

\* A finished job keeps its outcome until it is deleted with its run: a worker
\* that reports late, or a cancellation that comes late, changes nothing.
OutcomesKept ==
  \A j \in Job : job[j].status \in Terminal => job'[j].status \in {job[j].status, "absent"}

TerminalJobSticky == [][OutcomesKept]_vars

Settled(j) == job[j].status \in Terminal \cup {"absent"}

\* Nobody works on the job and the queue will not hand it out again.
Abandoned(j) ==
  /\ \A w \in Worker : ~Holds(w, j)
  /\ \/ job[j].status = "running"
     \/ job[j].status \in {"claimed", "retryable"} /\ job[j].attempt = MaxAttempts

\* Every accepted import is brought to an end.  Only a fault (a worker that
\* dies, a transition whose answer is lost) leaves one in a state that the queue
\* never hands out again.
EveryImportSettles ==
  \A j \in Job : ingest[j] = "accepted" ~> Settled(j) \/ (faults > 0 /\ Abandoned(j))

\* The import has ended and has no job: it stopped before its job was in the queue, or the
\* job was deleted with its run
Jobless(j) ==
  ingest[j] \in {"accepted", "rejected", "crashed"} /\ job[j].status = "absent"

\* A request answered with the draft of another import of the file is served by that
\* import: its draft comes to an end.  Only a fault leaves it waiting, and only when no job
\* is left that could end the draft: the other request stopped between saving the draft and
\* queueing the job, the job was deleted after the write of the draft's failure was lost, or
\* a worker that died left it where the queue does not hand it out again.
ReusedImportIsServed ==
  \A j \in Job : ingest[j] = "reused" ~>
    \E k \in Job \ {j} :
      /\ FileOf[k] = FileOf[j]
      /\ draft[k].status \in Terminal \/ (faults > 0 /\ (Jobless(k) \/ Abandoned(k)))

\* The draft of a finished job does not keep reading as queued or running.
DraftFollowsJob ==
  \A j \in Job : job[j].status \in Terminal
    ~> draft[j].status \in Terminal \/ job[j].status = "absent"

\* Every accepted import is brought to an end, whatever happens to the workers.
EveryImportSettlesAnyhow == \A j \in Job : ingest[j] = "accepted" ~> Settled(j)

\* The credits reserved for an import that succeeded do not stay reserved.
SuccessSettlesCredit ==
  \A j \in Job : job[j].status = "succeeded" ~> credit[j] \notin {"reserved", "stranded"}
=============================================================================
