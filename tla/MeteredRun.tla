----------------------------- MODULE MeteredRun -----------------------------
(***************************************************************************)
(* What one document import leaves behind about itself: the numbered       *)
(* events of its run, the tokens it used, and what becomes of the credits  *)
(* reserved for it.  An import runs in the API, or as attempts of a job in *)
(* the worker.  Every attempt keeps the next number and the token totals   *)
(* in memory and writes them over what is stored; operators' requests and  *)
(* a cancellation number events of their own; a client reads the events by *)
(* pages.  Two events of a run cannot have one number: the later insert is *)
(* refused, and no caller hears of it.                                     *)
(*                                                                         *)
(* Events between which nothing else is written stand as one, and every    *)
(* provider call uses one unit of tokens.                                  *)
(***************************************************************************)
EXTENDS Naturals, FiniteSets, FiniteSetsExt, Functions

CONSTANTS
  Attempts,      \* max_attempts of the job
  Evidence,      \* max_evidence_attempts of a document with pages
  Reserved,      \* credits reserved for the import
  Page,          \* bound: events of a page of the snapshot
  Cases          \* an import, which cursor its client follows, and bounds: how many
                 \* [lapses, controls, faults, polls]

ImportForm == [inline : BOOLEAN, pages : BOOLEAN, enhanced : BOOLEAN]
Cursor == {"events", "last_seq"}
Budget == [{"lapses", "controls", "faults", "polls"} -> Nat]

ASSUME LimitsAssumption ==
  /\ Attempts \in Nat \ {0} /\ Evidence \in Nat \ {0}
  /\ Reserved \in Nat /\ Page \in Nat \ {0}
ASSUME CaseAssumption == Cases \subseteq [import : ImportForm, follows : Cursor, left : Budget]

Attempt == 1..Attempts
Operator == 0                      \* numbers the events of requests

VARIABLES
  import,      \* [inline: runs in the API, pages: goes through the layout service,
               \*  enhanced: enable_ai_enhancements]
  job,         \* offload_jobs: [status, taken: claims so far]
  run,         \* llm_runs: [status, tokens]
  events,      \* llm_run_events: what is stored under each number
  usage,       \* provider_usage_events: <<phase, number>> -> the attempt that wrote it
  op,          \* billing_operations: [status, charge]
  attempt,     \* RunEventEmitter and the program it serves, of every attempt
  control,     \* the request of an operator that is under way
  client,      \* [follows: the last of the events it got, or last_seq of the answer,
               \*  after: where it goes on, seen: the events read, told: to stop,
               \*  passed: history: what was stored beyond a full page and before last_seq]
  told,        \* history: calls of a provider that told what they used
  tally,       \* history: [lost: events, failed: inserts, controls: requests with an
               \*           event of their own, mishaps: what else went wrong]
  left         \* bound: what may still happen

vars == <<import, job, run, events, usage, op, attempt, control, client,
          told, tally, left>>

Terminal == {"succeeded", "failed", "cancelled"}
TerminalPhases == {"request_done", "workflow_error", "workflow_cancelled"}
Phase == {"request_received", "workflow_start", "pdf_page_coverage",
          "canonicalization_failure", "pdf_workflow_usage", "copilot_usage",
          "copilot_session_done",
          "pdf_evidence_correction_attempt", "pdf_evidence_validation_failed",
          "pdf_evidence_validation_success", "suggestions_llm_retry",
          "suggestions_llm_failed", "suggestions_normalized",
          "import_enrichment_skipped", "workflow_done", "workflow_error",
          "run_cancelled", "run_retry_requested", "run_resume_requested"}
Event == [by : {Operator} \cup Attempt, phase : Phase]
Mishap == {"overlap", "read", "run", "usage", "crash"}

Resting == {"idle", "claimed", "ended"}
PC == Resting \cup {"mark", "open", "totals", "queue", "receive", "start", "running", "layout",
                    "call", "tally", "record", "judge", "amend", "enrich", "finish", "done",
                    "error", "failed", "settle", "bury"}
Live(a) == attempt[a].pc \notin Resting

JobRow == [status : Terminal \cup {"none", "queued", "claimed", "running", "retryable"},
           taken : 0..Attempts]
RunRow == [status : Terminal \cup {"queued", "running"}, tokens : Nat]
Operation == [status : {"reserved", "settled", "released"}, charge : 0..Reserved]
Emitter == [pc : PC, seq : Nat, totals : Nat, stage : {"extract", "enrich", "finished"},
            try : 1..(Evidence + 1)]
Request == [pc : {"idle", "insert", "write"}, seq : Nat, phase : Phase]
Client == [follows : Cursor, after : Nat, seen : SUBSET (Nat \X Event), passed : SUBSET Nat,
           told : BOOLEAN]
Tally == [lost : Nat, failed : Nat, controls : Nat, mishaps : SUBSET Mishap]

Idle == [pc |-> "idle", seq |-> 0, totals |-> 0, stage |-> "extract", try |-> 1]
NoRequest == [pc |-> "idle", seq |-> 0, phase |-> "run_cancelled"]

Init ==
  /\ \E c \in Cases :
       /\ import = c.import /\ left = c.left
       /\ client = [follows |-> c.follows, after |-> 0, seen |-> {}, passed |-> {},
                    told |-> FALSE]
  /\ job = [status |-> IF import.inline THEN "none" ELSE "queued", taken |-> 0]
  /\ run = [status |-> IF import.inline THEN "running" ELSE "queued", tokens |-> 0]
  /\ events = <<>>
  /\ usage = <<>>
  /\ op = [status |-> "reserved", charge |-> 0]
  /\ attempt = [a \in Attempt |-> Idle]
  /\ control = NoRequest
  /\ told = 0
  /\ tally = [lost |-> 0, failed |-> 0, controls |-> 0, mishaps |-> {}]

-----------------------------------------------------------------------------
(* What may go wrong, and writing                                          *)

Spend(what) == left[what] > 0 /\ left' = [left EXCEPT ![what] = @ - 1]

\* The same, while a read fails
SpendFault(what) ==
  /\ left[what] > 0 /\ left["faults"] > 0
  /\ left' = [left EXCEPT ![what] = @ - 1, !["faults"] = @ - 1]

Strike(mishap) ==
  Spend("faults") /\ tally' = [tally EXCEPT !.mishaps = @ \cup {mishap}]

Calmly == UNCHANGED <<tally, left>>
Quietly == UNCHANGED <<events, told, tally, left>>

Latest == Max(DOMAIN events \cup {0})

Put(table, key, value) ==
  [k \in DOMAIN table \cup {key} |-> IF k = key THEN value ELSE table[k]]

Store(seq, by, phase) == events' = Put(events, seq, [by |-> by, phase |-> phase])

\* append_run_event: an insert that is refused or fails is logged, and lost
Append(seq, by, phase) ==
  \/ /\ seq \notin DOMAIN events
     /\ Store(seq, by, phase)
     /\ Calmly
  \/ /\ seq \in DOMAIN events
     /\ tally' = [tally EXCEPT !.lost = @ + 1]
     /\ UNCHANGED <<events, left>>
  \/ /\ seq \notin DOMAIN events
     /\ Spend("faults")
     /\ tally' = [tally EXCEPT !.lost = @ + 1, !.failed = @ + 1]
     /\ UNCHANGED events

\* create_or_update_run: one that fails is logged, and the row stays as it was
UpdateRun(field, value) ==
  \/ run' = [run EXCEPT ![field] = value] /\ Calmly
  \/ Strike("run") /\ UNCHANGED run

\* The status of a run follows its job, unless it is terminal
Follow(status) == run' = [run EXCEPT !.status = IF @ \in Terminal THEN @ ELSE status]

At(a, pc) == attempt[a].pc = pc
Go(a, pc) == attempt' = [attempt EXCEPT ![a].pc = pc]

\* emit_and_persist: the next number, whatever becomes of the insert
Emit(a, phase, pc) ==
  /\ attempt' = [attempt EXCEPT ![a].seq = @ + 1, ![a].pc = pc]
  /\ Append(attempt[a].seq + 1, a, phase)

-----------------------------------------------------------------------------
(* The job and its attempts                                                *)

\* A job is handed out again when it is to be retried, or when its claim ran out
\* before the worker announced it as running
Claim(a) ==
  /\ job.taken + 1 = a
  /\ \/ job.status \in {"queued", "retryable"} /\ UNCHANGED left
     \/ job.status = "claimed" /\ Spend("lapses")
  /\ job' = [status |-> "claimed", taken |-> a]
  /\ Go(a, "claimed")
  /\ UNCHANGED <<import, run, events, usage, op, control, client, told, tally>>

\* Only a cancelled job is left alone
Announce(a) ==
  /\ At(a, "claimed")
  /\ IF job.status \in Terminal
       THEN UNCHANGED <<job, run>>
       ELSE job' = [job EXCEPT !.status = "running"] /\ Follow("running")
  /\ Go(a, IF job.status = "cancelled" THEN "ended" ELSE "mark")
  /\ tally' = IF \E b \in Attempt \ {a} : Live(b)
                THEN [tally EXCEPT !.mishaps = @ \cup {"overlap"}] ELSE tally
  /\ UNCHANGED <<import, events, usage, op, control, client, told, left>>

MarkRunning(a) ==
  /\ At(a, "mark")
  /\ Go(a, "open")
  /\ UpdateRun("status", "running")
  /\ UNCHANGED <<import, job, events, usage, op, control, client, told>>

\* The API serves the import itself, with an emitter of its own
Serve(a) ==
  /\ import.inline /\ a = 1
  /\ At(a, "idle")
  /\ Go(a, "open")
  /\ UNCHANGED <<import, job, run, events, usage, op, control, client, told,
                 tally, left>>

-----------------------------------------------------------------------------
(* RunEventEmitter                                                         *)

\* Mutant: the next number is how many events there are, and one
OpenEmitter_Count(a) ==
  /\ At(a, "open")
  /\ attempt' = [attempt EXCEPT ![a].pc = "totals", ![a].seq = Cardinality(DOMAIN events)]
  /\ Calmly
  /\ UNCHANGED <<import, job, run, events, usage, op, control, client, told>>

\* A read that fails is logged, and counts as nothing stored
OpenEmitter(a) ==
  /\ At(a, "open")
  /\ \E failed \in BOOLEAN :
       /\ attempt' = [attempt EXCEPT ![a].pc = "totals",
                                     ![a].seq = IF failed THEN 0 ELSE Latest]
       /\ IF failed THEN Strike("read") ELSE Calmly
  /\ UNCHANGED <<import, job, run, events, usage, op, control, client, told>>

\* Mutant: an attempt counts its own tokens only
ReadTotals_FromZero(a) ==
  /\ At(a, "totals")
  /\ attempt' = [attempt EXCEPT ![a].pc = IF import.inline THEN "queue" ELSE "receive"]
  /\ Calmly
  /\ UNCHANGED <<import, job, run, events, usage, op, control, client, told>>

ReadTotals(a) ==
  /\ At(a, "totals")
  /\ \E failed \in BOOLEAN :
       /\ attempt' = [attempt EXCEPT ![a].pc = IF import.inline THEN "queue" ELSE "receive",
                                     ![a].totals = IF failed THEN 0 ELSE run.tokens]
       /\ IF failed THEN Strike("read") ELSE Calmly
  /\ UNCHANGED <<import, job, run, events, usage, op, control, client, told>>

\* trace_event with a usage: the totals go over the stored ones
WriteTotals(a) ==
  /\ At(a, "tally")
  /\ attempt' = [attempt EXCEPT ![a].pc = "record", ![a].totals = @ + 1]
  /\ UpdateRun("tokens", attempt[a].totals + 1)
  /\ UNCHANGED <<import, job, events, usage, op, control, client, told>>

UsagePhase(a) ==
  IF import.pages /\ attempt[a].stage = "extract" THEN "pdf_workflow_usage"
                                                  ELSE "copilot_usage"

\* record_provider_usage_event upserts; what it raises is ignored
RecordUsage(a) ==
  /\ At(a, "record")
  /\ Go(a, "judge")
  /\ \/ usage' = Put(usage, <<UsagePhase(a), attempt[a].seq>>, a) /\ Calmly
     \/ Strike("usage") /\ UNCHANGED usage
  /\ UNCHANGED <<import, job, run, events, op, control, client, told>>

-----------------------------------------------------------------------------
(* The import                                                              *)

QueueRun(a) ==
  /\ At(a, "queue")
  /\ Go(a, "receive")
  /\ UpdateRun("status", "queued")
  /\ UNCHANGED <<import, job, events, usage, op, control, client, told>>

\* An invalid file ends the import here
Receive(a) ==
  /\ At(a, "receive")
  /\ \E next \in {"start", "error"} : Emit(a, "request_received", next)
  /\ UNCHANGED <<import, job, run, usage, op, control, client, told>>

FirstStep == IF import.pages THEN "layout" ELSE "call"

StartWorkflow(a) ==
  /\ At(a, "start")
  /\ Emit(a, "workflow_start", IF import.inline THEN "running" ELSE FirstStep)
  /\ UNCHANGED <<import, job, run, usage, op, control, client, told>>

RunInline(a) ==
  /\ At(a, "running")
  /\ Go(a, FirstStep)
  /\ UpdateRun("status", "running")
  /\ UNCHANGED <<import, job, events, usage, op, control, client, told>>

\* The canonical PDF and its layout; the pages are told, not recorded as a usage
ReadLayout(a) ==
  /\ At(a, "layout")
  /\ \/ Emit(a, "pdf_page_coverage", "call")
     \/ Emit(a, "canonicalization_failure", "error")
  /\ UNCHANGED <<import, job, run, usage, op, control, client, told>>

\* A model answers with or without its usage, or fails.  The answer to a document
\* with pages must be a list of products before its usage is looked at.
CallExtraction(a) ==
  /\ At(a, "call") /\ attempt[a].stage = "extract"
  /\ \/ Emit(a, UsagePhase(a), "tally") /\ told' = told + 1
     \/ \E next \in {"judge", "error"} : Go(a, next) /\ Quietly
  /\ UNCHANGED <<import, job, run, usage, op, control, client>>

CallSuggestions(a) ==
  /\ At(a, "call") /\ attempt[a].stage = "enrich"
  /\ \/ Emit(a, UsagePhase(a), "tally") /\ told' = told + 1
     \/ \E next \in {"judge", "amend"} : Go(a, next) /\ Quietly
  /\ UNCHANGED <<import, job, run, usage, op, control, client>>

\* The answer holds, is asked for again with what was wrong, or ends the import
JudgeExtraction(a) ==
  /\ At(a, "judge") /\ attempt[a].stage = "extract"
  /\ \/ Emit(a, IF import.pages THEN "pdf_evidence_validation_success"
                                ELSE "copilot_session_done", "enrich")
     \/ /\ import.pages /\ attempt[a].try < Evidence
        /\ attempt' = [attempt EXCEPT ![a].pc = "call", ![a].try = @ + 1,
                                      ![a].seq = @ + 1]
        /\ Append(attempt[a].seq + 1, a, "pdf_evidence_correction_attempt")
     \/ import.pages /\ Emit(a, "pdf_evidence_validation_failed", "error")
     \/ /\ ~import.pages /\ Go(a, "error")
        /\ UNCHANGED events /\ Calmly
  /\ UNCHANGED <<import, job, run, usage, op, control, client, told>>

\* Suggestions are asked for, or left out with or without a word
Enrich(a) ==
  /\ At(a, "enrich")
  /\ \/ /\ import.enhanced
        /\ attempt' = [attempt EXCEPT ![a].pc = "call", ![a].stage = "enrich",
                                      ![a].try = 1]
        /\ UNCHANGED <<events, tally, left>>
     \/ import.enhanced /\ Emit(a, "import_enrichment_skipped", "finish")
     \/ Go(a, "finish") /\ UNCHANGED <<events, tally, left>>
  /\ UNCHANGED <<import, job, run, usage, op, control, client, told>>

\* They are asked for twice; an import goes on without them
JudgeSuggestions(a) ==
  /\ attempt[a].stage = "enrich"
  /\ \/ At(a, "judge") /\ Emit(a, "suggestions_normalized", "finish")
     \/ /\ attempt[a].pc \in {"judge", "amend"} /\ attempt[a].try = 1
        /\ attempt' = [attempt EXCEPT ![a].pc = "call", ![a].try = 2, ![a].seq = @ + 1]
        /\ Append(attempt[a].seq + 1, a, "suggestions_llm_retry")
     \/ /\ attempt[a].pc \in {"judge", "amend"} /\ attempt[a].try = 2
        /\ Emit(a, "suggestions_llm_failed", "finish")
  /\ UNCHANGED <<import, job, run, usage, op, control, client, told>>

Finish(a) ==
  /\ At(a, "finish")
  /\ attempt' = [attempt EXCEPT ![a].pc = "done", ![a].stage = "finished", ![a].seq = @ + 1]
  /\ Append(attempt[a].seq + 1, a, "workflow_done")
  /\ UNCHANGED <<import, job, run, usage, op, control, client, told>>

Fail(a) ==
  /\ At(a, "error")
  /\ Emit(a, "workflow_error", "failed")
  /\ UNCHANGED <<import, job, run, usage, op, control, client, told>>

-----------------------------------------------------------------------------
(* The end of an attempt                                                   *)

\* The API finalizes the run whatever became of it
FinalizeInline(a) ==
  /\ import.inline
  /\ attempt[a].pc \in {"done", "failed"}
  /\ Go(a, "settle")
  /\ UpdateRun("status", IF At(a, "done") THEN "succeeded" ELSE "failed")
  /\ UNCHANGED <<import, job, events, usage, op, control, client, told>>

\* The worker only moves the job
CompleteJob(a) ==
  /\ ~import.inline
  /\ At(a, "done")
  /\ IF job.status \in Terminal
       THEN UNCHANGED <<job, run>>
       ELSE job' = [job EXCEPT !.status = "succeeded"] /\ Follow("succeeded")
  /\ Go(a, "ended")
  /\ UNCHANGED <<import, events, usage, op, control, client, told,
                 tally, left>>

RetryJob(a) ==
  /\ ~import.inline
  /\ At(a, "failed") /\ a < Attempts
  /\ IF job.status \in Terminal
       THEN UNCHANGED <<job, run>>
       ELSE job' = [job EXCEPT !.status = "retryable"] /\ Follow("queued")
  /\ Go(a, "ended")
  /\ UNCHANGED <<import, events, usage, op, control, client, told,
                 tally, left>>

\* The attempt was the last, or its error is not worth another
FinalizeFailed(a) ==
  /\ ~import.inline
  /\ At(a, "failed")
  /\ Go(a, "settle")
  /\ UpdateRun("status", "failed")
  /\ UNCHANGED <<import, job, events, usage, op, control, client, told>>

NothingUsed == usage = <<>> /\ run.tokens = 0
Release == [status |-> "released", charge |-> 0]

\* Mutant: the charge is not capped by the reservation
Charge_Uncapped == [status |-> "settled", charge |-> run.tokens]

\* What was used, up to the reservation; all of it when no total came through
Charge ==
  [status |-> "settled",
   charge |-> IF run.tokens \in 1..Reserved THEN run.tokens ELSE Reserved]

\* Mutant: a failed import pays for the calls it made
Settlement_FailedPays == IF NothingUsed THEN Release ELSE Charge

\* settle_terminal_run, of the stored run and the recorded calls
Settlement ==
  IF NothingUsed \/ run.status \in {"failed", "cancelled"} THEN Release ELSE Charge

\* What a settlement raises is logged, and nobody tries again
Settle(a) ==
  /\ At(a, "settle")
  /\ Go(a, IF import.inline THEN "ended" ELSE "bury")
  /\ \/ op' = (IF op.status = "reserved" THEN Settlement ELSE op) /\ Calmly
     \/ Strike("usage") /\ UNCHANGED op
  /\ UNCHANGED <<import, job, run, events, usage, control, client, told>>

Bury(a) ==
  /\ At(a, "bury")
  /\ IF job.status \in Terminal
       THEN UNCHANGED <<job, run>>
       ELSE job' = [job EXCEPT !.status = "failed"] /\ Follow("failed")
  /\ Go(a, "ended")
  /\ UNCHANGED <<import, events, usage, op, control, client, told,
                 tally, left>>

Crash(a) ==
  /\ Live(a)
  /\ Strike("crash")
  /\ Go(a, "ended")
  /\ UNCHANGED <<import, job, run, events, usage, op, control, client, told>>

-----------------------------------------------------------------------------
(* Operators and clients                                                   *)

\* cancel_run_cascade: one transaction, which numbers its event under a lock
Cancel ==
  /\ run.status \in {"queued", "running"}
  /\ Spend("controls")
  /\ run' = [run EXCEPT !.status = "cancelled"]
  /\ job' = [job EXCEPT !.status = IF @ \in Terminal \cup {"none"} THEN @ ELSE "cancelled"]
  /\ Store(Latest + 1, Operator, "run_cancelled")
  /\ tally' = [tally EXCEPT !.controls = @ + 1]
  /\ UNCHANGED <<import, usage, op, attempt, control, client, told>>

\* A retry, a resume, or a cancellation whose transaction failed: the number is
\* how many events were read, and one; a read that fails is logged, and finds none
AskControl ==
  /\ control.pc = "idle"
  /\ \E failed \in BOOLEAN,
        phase \in {"run_cancelled", "run_retry_requested", "run_resume_requested"} :
       /\ run.status \in CASE phase = "run_cancelled" -> {"queued", "running"}
                           [] phase = "run_retry_requested" -> {"failed", "cancelled"}
                           [] OTHER -> {"failed"}
       /\ IF failed THEN SpendFault("controls") ELSE Spend("controls")
       /\ control' = [pc |-> "insert", phase |-> phase,
                      seq |-> IF failed THEN 1 ELSE Cardinality(DOMAIN events) + 1]
  /\ tally' = [tally EXCEPT !.controls = @ + 1]
  /\ UNCHANGED <<import, job, run, events, usage, op, attempt, client, told>>

AppendControl ==
  /\ control.pc = "insert"
  /\ Append(control.seq, Operator, control.phase)
  /\ control' = [control EXCEPT !.pc = "write"]
  /\ UNCHANGED <<import, job, run, usage, op, attempt, client, told>>

WriteControl ==
  /\ control.pc = "write"
  /\ UpdateRun("status", IF control.phase = "run_cancelled" THEN "cancelled" ELSE "queued")
  /\ control' = NoRequest
  /\ UNCHANGED <<import, job, events, usage, op, attempt, client, told>>

Unread == {s \in DOMAIN events : s > client.after}

\* Mutant: the page holds the newest events
NextPage_Newest == {s \in Unread : Cardinality({t \in Unread : t > s}) < Page}

\* The first events after the client's cursor
NextPage == {s \in Unread : Cardinality({t \in Unread : t < s}) < Page}

\* last_seq, the greatest number of all that is stored, whatever fits the page
LastSeq == IF DOMAIN events = {} THEN client.after ELSE Latest

\* get_event_snapshot, and the client goes on from the cursor it follows
ReadPage ==
  /\ Spend("polls")
  /\ client' =
       [client EXCEPT
          !.seen = @ \cup {<<s, events[s]>> : s \in NextPage},
          !.after = IF client.follows = "events" THEN Max(NextPage \cup {@}) ELSE LastSeq,
          !.passed = IF client.follows = "events" THEN @ ELSE @ \cup (Unread \ NextPage),
          !.told = \/ run.status \in Terminal
                   \/ \E s \in NextPage : events[s].phase \in TerminalPhases]

\* Events that cannot be read are none: an empty page, and last_seq is after_seq
ReadNothing ==
  /\ SpendFault("polls")
  /\ client' = [client EXCEPT !.told = run.status \in Terminal]

Poll ==
  /\ ~client.told
  /\ ReadPage \/ ReadNothing
  /\ UNCHANGED <<import, job, run, events, usage, op, attempt, control, told,
                 tally>>

Step(a) ==
  \/ Claim(a) \/ Announce(a) \/ MarkRunning(a) \/ Serve(a)
  \/ OpenEmitter(a) \/ ReadTotals(a) \/ WriteTotals(a) \/ RecordUsage(a)
  \/ QueueRun(a) \/ Receive(a) \/ StartWorkflow(a) \/ RunInline(a) \/ ReadLayout(a)
  \/ CallExtraction(a) \/ CallSuggestions(a) \/ JudgeExtraction(a) \/ Enrich(a)
  \/ JudgeSuggestions(a) \/ Finish(a) \/ Fail(a)
  \/ FinalizeInline(a) \/ CompleteJob(a) \/ RetryJob(a) \/ FinalizeFailed(a)
  \/ Settle(a) \/ Bury(a) \/ Crash(a)

Next ==
  \/ \E a \in Attempt : Step(a)
  \/ Cancel \/ AskControl \/ AppendControl \/ WriteControl
  \/ Poll

Spec == Init /\ [][Next]_vars

-----------------------------------------------------------------------------
TypeOK ==
  /\ import \in ImportForm
  /\ job \in JobRow /\ run \in RunRow /\ op \in Operation
  /\ DOMAIN events \subseteq Nat \ {0} /\ Range(events) \subseteq Event
  /\ DOMAIN usage \subseteq Phase \X Nat /\ Range(usage) \subseteq Attempt
  /\ attempt \in [Attempt -> Emitter]
  /\ control \in Request /\ client \in Client
  /\ told \in Nat /\ tally \in Tally /\ left \in Budget

On(pcs) == Cardinality({a \in Attempt : attempt[a].pc \in pcs})

\* Nothing a provider told is forgotten: the totals of the run and the recorded
\* calls account for it across attempts and requests, unless attempts overlapped,
\* a row could not be read or written, or a process died (for the recorded
\* calls, unless an event was lost).
CallsCounted ==
  /\ tally.mishaps = {} => run.tokens + On({"tally"}) = told
  /\ tally.lost = 0 /\ tally.mishaps \cap {"usage", "crash"} = {}
       => Cardinality(DOMAIN usage) + On({"tally", "record"}) = told

\* A merchant pays only for an import that was carried out, and never for more than
\* the providers told, unless the status or the totals could not be written, an
\* operator's request came in between, or two attempts ran at once.
ChargeIsEarned ==
  op.status = "settled" =>
    /\ \/ \E a \in Attempt : attempt[a].stage = "finished"
       \/ tally.mishaps \cap {"run", "overlap"} # {}
       \/ tally.controls > 0
    /\ op.charge <= told \/ "run" \in tally.mishaps

\* A request that numbers an event of its own costs at most one event of the run,
\* and nothing else does but an insert that failed, as long as attempts follow one
\* another and find what the one before stored.
LossesExplained ==
  tally.mishaps \cap {"overlap", "read"} = {} => tally.lost <= tally.failed + tally.controls

\* As long as no event was lost, whatever numbers attempts and requests took, a client
\* has every stored event up to its cursor when it goes on from the last event it got,
\* as README.md:196 has it.  One that follows last_seq of the answer has all of them but
\* those which a full page had no room for.
ClientMissesNothing ==
  tally.lost = 0 =>
    /\ \A s \in DOMAIN events :
         s <= client.after => <<s, events[s]>> \in client.seen \/ s \in client.passed
    /\ client.follows = "events" \/ Cardinality(DOMAIN events) <= Page => client.passed = {}
=============================================================================
