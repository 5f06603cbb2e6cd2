# Verification of the product-intelligence backend

TLA+ models of the parts of this backend that keep a merchant's work and money
right: the queue that carries document imports to the workers, the ledger of
processing credits, what an import leaves behind about itself, the review of an
imported product, the execution of an approved plan against Shopify, and the fixes
that an audit proposes. TLC checks them on small instances; the TLA+ proof system
proves safety properties for every instance. Source paths below are relative to the
repository; `PROJECT.json` names the lines behind each definition.

## 1. The system

A FastAPI process (`main.py`, `api/`) serves a Shopify app; a worker process
(`offload_worker.py`) takes jobs off a Postgres table; SQL functions and pg_cron
jobs (`supabase/migrations/`) hold the transactional logic. Nothing but the
database is shared, except that each process keeps copies of some rows in memory.

| Component | State | Operations | Meets | Hard because | Correct when |
|---|---|---|---|---|---|
| Offload queue (`supabase_runs_mixin.py`, SQL) | `offload_jobs`, a copy per process | enqueue, claim, transition, cancel cascade | API, workers, cron | leases lapse, replies are lost, the copy is stale | one worker per job, bounded attempts, final outcomes |
| Worker, imports (`offload_worker.py`) | the job in hand | claim, run, read and write the draft, upsert the run, retry, bury | queue, drafts, runs, credits | dies or fails between statements; writes whole rows back | every import ends; products survive |
| Worker, submits (same, `submit_products.py`, `inventory_execution.py`) | plan copy | run an approved plan against Shopify | plans, Shopify | retries after partial writes | approved changes, once |
| Import API (`api/agents/files.py`) | none | reuse, reserve, bill, save, enqueue, refund | credits, drafts, runs, queue | seven statements, no transaction | nothing half-accepted is served for ever |
| Run control (`api/agents/runs.py`) | none | cancel, retry, resume, delete | queue, runs, drafts | reads, then writes blindly | finished runs stay finished |
| Draft repair cron | none | copy the job status into drafts | queue, drafts | runs between any two statements | drafts follow jobs |
| Credit ledger (SQL, `supabase_billing_mixin.py`) | cycles, operations, ledger, outbox | reserve, settle, roll over, release, reverse, limit, summary | imports, audits, outbox | operations outlive their cycle; repeated calls | counters, ledger and events agree; limits hold |
| Subscription (`api/agents/billing.py`) | `merchant_subscriptions` | refresh, sync, redact | Partner API, ledger | read, await, write back | the merchant's settings survive |
| Event outbox (`credit_billing_service.py`) | outbox status | drain, mark | Shopify | two drainers, at-least-once | every event delivered, charged once |
| Mutation plans (`mutation_plans.py`) | plans, a copy per process | generate, select, approve, invalidate | drafts, submits | stale copies, whole-row saves | only what was approved is executed |
| Plan algebra (`domain/shopify_mutation_plan.py`) | none | merge with the live product, blockers, rows, option edits, payload | plans, sessions | rows are matched by names and positions that edits change | no live variant lost or given another's values |
| Review edit sessions (`review_edit_sessions.py`) | sessions, a copy per process | edit, undo, redo, reset, apply, discard, expire | drafts, plans, Shopify | awaits between check and save; four-step apply | undo restores; what was left out stays out |
| Product intelligence (`intelligence.py`) | audits, suggestions, a cache of both | audit, apply, revert, regenerate | Shopify, credits | awaits between check and mark; the cache goes stale | no fix lost, none applied twice |
| Run events, metering (`run_event_emitter.py`, `metered_operations.py`) | `llm_run_events`, token totals | emit, count, record, settle, poll | imports, credits, UI polling | numbers and totals are read once and written later | calls counted, losses explained, only work done is charged |
| Retention (`20261027000100`) | none | delete old runs and jobs | runs, jobs | | only finished work is deleted |
| Files, WOPI, model services, Shopify client, settings | rows and blobs | | | mostly input and output | |

`PROJECT.json` gives the status of each, and lists the hazards at their lines.

## 2. What is modelled

### OffloadWorkflow

The life of an offloaded document import. Each import owns one row of
`offload_jobs`, `llm_runs` and `product_drafts` and one credit reservation, so the
model indexes all four by the import. A step is one database statement or one SQL
function; everything between two statements can be interleaved with everybody.

| State | In the code |
|---|---|
| `job` | `offload_jobs`: status, `attempt_count`, whether `claim_expires_at` and `available_at` have passed |
| `run` | `llm_runs.status`; "billed" is the row that carries only billing columns |
| `draft` | `product_drafts`: `extraction_status`, and whether products are in it |
| `credit` | the reservation; "stranded" when no run row names it any more |
| `ingest` | where the request in `process_excel` stands |
| `worker` | where `run_once` stands, the claimed job, the attempt, the products it read |
| `cache` | `SupabaseService.offload_jobs` of each worker process |
| `control` | where a control request stands |
| `lapsed`, `controls`, `faults` | history and bounds only |

- `ImportStep` is `process_excel` with `offload`: reuse the active draft of the file,
  or reserve, bill, save the draft, track the run, enqueue; a failure refunds.
  The rename of a reused draft is left out. A refund that itself fails is
  `CrashImport` at "refund".
- `WorkerStep` is `run_once`: claim, announce "running", read and mark the draft, mark
  the run, extract, complete; or fail and retry, or finalize, mark and bury. The
  automatic submit after an extraction is dead code (`should_queue_submit = False`).
- `ControlStep` is `control_llm_run` and `delete_llm_run`, each between its read of the run
  and its writes.
- `SyncDraft`, `LeaseExpires` and `BackoffElapses` are the cron job and the clock.
- The faults are: a process dies; the claim or transition call raises, before or after
  it committed; the cancel call raises; a write of the import raises; the cleanup
  after a deletion raises; a draft read raises (and counts as an empty draft); a
  write of a run, draft or settlement raises (most are logged and passed over).

### CreditLedger

The credits of one shop in billing mode "shopify". Each SQL function of
`20260822000300` is one step, because it locks the rows it works on and an exception
undoes it; `_refresh_subscription` is two, with the await of the Partner API between
them. A cycle is indexed by its start (the table is unique on shop and start). Money
and credits are small numbers, the clock advances in units of which `CycleLength`
make a cycle. `promised` remembers the limit the merchant was told; `redacted` that the
subscription row was deleted. A call that finds its work done (a settled operation,
a known key) returns without a change and is no step. `Totals` has the sum of a function
over a finite set, which is how the properties state SQL's `sum()`.

### PlanItem, OptionEdits and ReviewSession

`PlanItem` is the algebra of a plan's item: the imported product merged with the live
one, positional values given to options, the blockers, the review rows with their
selection, and the product and stock operations an approval freezes. `OptionEdits` adds
the edits of options, dimensions, variants and cells. They are pure operators over
records; a product is a sequence of variants, a variant a function from option
names to values. A string is a small token that `ClassOf` classifies as the code's
tables do. `Counterpart` is how a row finds the live variant it is compared with: the variant
itself, else the first of its combination that is free.

`ReviewSession` is the state machine around them: the draft, the latest plan, the
latest edit session with its history and cursor, and per client the request that
waits for Shopify with the session it read. A content edit is two steps
(`StartEdit`, `SaveEdit`), because the SKUs are checked with Shopify in between; apply is
three (checkpoint, draft, plan and session) and can be cut off and resumed at each.
Several clients may wait at once, each with the session it read. An apply checks and stores
the product with its dimensions found, while the session keeps its own until the product is
refused or applied (`Checkpointed`). A plan made from a draft whose dimensions were found, or
whose positions still have no names, saves the draft as a new revision first (`Corrections`).
Making a plan is one step; the copy of the draft that it saves after its awaits is in
`PlanExecution` (`late`). The process's copy of
the session row, which is read first, is not distinguished from the row.
The scalar rows of the older grid, media, view state, expiry, patches of several
operations and the repair of option dimensions are left out.

### Publication and PlanExecution

`Publication` is what the review of a draft promises: the shop changes only as far as a
plan was approved, stock is set only on products that the same plan wrote, and a
plan counts as completed when all it approved was written and each product given
its own stock. It knows four sets and nothing of processes.

`PlanExecution` is how the code keeps it: the API process with its memory of plans
(`api`, read before the rows), creation and approval with the await of Shopify in the
middle, the patch that changes a remembered object in place while an approval holds
it (`linked`), the submit with or without the queue; the worker with the plan it read
and saves over the row, its reads and saves of the draft, the pairing of results with
products by position; and Shopify, which carries out a bulk operation product by
product, even after the poll gave up. `KeepsThePromise` is the refinement:
`INSTANCE Publication` with the plans whose row says "completed".

### Suggestions

The fixes of one product. Each request is a coroutine of the API process: `turn` says
who is between two awaits, and only calls of Shopify and of the model are awaits. A
call of the table is a step of its own that succeeds, fails, or succeeds and loses
its answer. `cache` is the process's own copy of rows, which it trusts first. Apply
(part of a fix, bulk, reviewed) writes the shop and then records the fix and the
rest of it; revert compares the shop, writes, records and reopens; regenerate makes
replacements and supersedes the source; an audit stores its fixes and withdraws the
pending ones. Values are tokens that say who put them there. `Room` bounds the rows: a step
that creates one needs a number that is free.

### MeteredRun

One import, inline or as attempts of a job, from its first event to its settlement.
`attempt` is a `RunEventEmitter` (number and totals in memory) with the place in the
import; `events`, `run.tokens` and `usage` are what is stored; `control` is a request of an
operator that numbers an event of its own; `client` polls pages. An insert under a
number that is taken is refused and lost; a request that cannot read the events numbers its
own 1. A poll answers with a page and with `last_seq`, the greatest number stored, which may be
beyond the page, or with nothing when the events cannot be read; the client, which is not in
the repository, goes on from its last event (`README.md:194-196`) or from `last_seq`
(`Cursor`). A run has some tens of events, so the read's limit of 1000 is left out; a run that
cannot be read answers "unavailable" and changes nothing. `told` counts what the providers reported,
and `tally` what was lost and why. Provider calls go through the evidence loop of PDFs
(up to `Evidence` attempts), the single session of other documents, and the two tries
of the suggestions.

How the models meet: `OffloadWorkflow` has the job and its credit reservation,
`MeteredRun` the events and the charge of the same import, `CreditLedger` what the charge
does to the cycle; `ReviewSession` ends with an approval, which is where
`PlanExecution` executes. They share rows, but each fact about a row is stated where the
code that writes it is modelled; composing them adds states and no new question.

## 3. The runs

| Run | Instance | Shows |
|---|---|---|
| `workflow_safety` | 1 import, 2 workers, 2 control requests, 2 faults of all 8 kinds, 2 attempts (1.7 million states up to symmetry) | type invariant, `ExclusiveUnlessLapsed`, `RetryIsClaimable`, `SucceededKeepsProducts`, `NoWorkOnReleasedCredit`, `TerminalJobSticky` |
| `workflow_progress` | 1 import, 2 workers, 2 controls, 1 fault (crash, transition, write) | `EveryImportSettles`, `DraftFollowsJob`, under `FairSpec` |
| `shared_file` | 2 imports of one file, 1 worker, 1 control, 1 fault | `ReusedImportIsServed`, under `FairSpec` |
| `credit_ledger` | 2 operations of up to 2 credits, 2 plans, limits 0 and 1, 2 cycles, 1 refresh in progress, 4 changes | type invariant with the bound of each charge, `CountersMatchOperations`, `LedgerExplainsCycle`, `EventsMatchCharge`, `CommitsWithinCapacity` |
| `metered_run` | imports of three shapes, 2 attempts, 3 evidence attempts, pages of 2, up to 2 requests, faults, lapses and polls, and a client of either cursor (3.5 million states) | type invariant, `CallsCounted`, `ChargeIsEarned`, `LossesExplained`, `ClientMissesNothing` |
| `review_editing` | a catalogue of imports against live products, built and approved; three of them edited (14 edits, 2 deep, 3 turns) | the four properties of the payload, `HistoryIsAPath`, `UndoRestoresDraft`, `SelectionSurvivesRebuild`, `LeftOutStaysOut`, `ApplyReachesDraft`, `ApplyLeavesNoBlockers` |
| `plan_publish` | 2 products, 2 plans, one kind of disturbance at a time and the pairs that meet | type invariant, `KeepsThePromise` (refinement), `EndShows`, `DraftTellsOutcome`, `NoSaleUndone`, and `SubmitSettles` under `FairSpec` |
| `suggestions` | 2 requests at once, 2 to 3 in all, 1 audit after the first, 1 edit, up to 2 faulty calls and a crash | type invariant, `NoFixLost`, `NoFixDoubled`, `AuditReplaces`, `RevertRestores` |
| `worker_crash` | as `workflow_progress`, without the exception for faults | violated: a dead worker's running job is never reclaimed |
| `success_credit` | no faults | violated: a successful offloaded import is never settled |
| `hard_limit` | as `credit_ledger` | violated: a refresh restores a limit the merchant lowered |
| `removed_variant` | as `review_editing` | violated: a live variant removed in the session is in the plan that apply leaves |

The bounds. Two attempts are the smallest number with a retry and a last attempt;
the code's default is five. Two workers are needed for exclusion, and no property
speaks of three; jobs interact only through the active-draft check, so one import
is enough except in `shared_file`. Two faults allow a lost reply followed by a crash,
two control requests a cancellation followed by a retry or a deletion. In the
ledger, two operations compete for one cycle of capacity 1 to 3, a third value of
usage exceeds every reservation, two cycles give one rollover, and four changes
allow subscribe, change and refresh to overlap. In `metered_run` a page holds 2 events
instead of 200, so that polls fall between events; a reservation of 2 credits is
exceeded by three calls; each case spends its budget on the mishaps that meet: two
attempts that overlap, a request and a failed write, two requests.
In `review_editing` the catalogue has every combination of missing, blank,
conflicting and positional values on one or two variants; two edits in a row show
what the second does to the first's entry, and three turns an undo, a redo and an
apply. One client: its requests are cut off, not overlapped; that the history stays a
path, and that an apply leaves nothing blocked, is proved for any number. In `plan_publish` two
products are needed for results to be paired wrongly, a second plan for the memory
of the first to be stale; each budget has one kind of disturbance (an edit with a
restart, selections, an inline submit, sales), because their product is too large.
In `suggestions` two requests overlap in every way, and eight rows are never used up.
Workers and control requests are interchangeable in `workflow_safety`, operations in the
ledger's runs and requests in `suggestions`, which use symmetry; the runs that check
liveness do not.
`CHECK_DEADLOCK FALSE`: when all bounds are used and every request has ended, nothing is
left to do; a ledger or a review may stop at any time.

Fairness. `FairSpec` of `OffloadWorkflow`: weak fairness of each request, worker and
control request: the worker loops in `run_forever` and its container has
`restart: unless-stopped` (`docker-compose.stack.yml`); a request once accepted runs to
its answer. An extraction ends, one way or the other. Weak fairness of the clock
(lease, backoff) and of the cron job, scheduled every minute. Nobody owes a fault or
a new control request. Fairness of a worker is of its steps as a whole: it need not
ever succeed. `FairSpec` of `PlanExecution`: weak fairness of the worker's steps as a
whole, and nothing of Shopify, of the API or of the merchant: the poll has a timeout.

How to read the exceptions in the properties:

- `j \notin lapsed`. A claim that outlives its lease while its worker has not yet
  announced "running", or a worker that falls back on its own copy of an old claim,
  defeats exclusion in this code; `lapsed` records exactly these two events, so the
  properties say that nothing else does.
- `faults > 0 /\ Abandoned(j)` in `EveryImportSettles`. Without a fault every accepted
  import ends. With one, the only other outcome is the one `worker_crash` exhibits:
  nobody holds the job, and it is "running", or waits with its attempts used up.
- `faults > 0 /\ (Jobless(k) \/ Abandoned(k))` in `ReusedImportIsServed`. A request answered
  with the draft of another import waits for ever only after a fault, and only when the
  other import has no job (it stopped between saving the draft and the enqueue, or its
  job was deleted after the write of the draft's failure was lost) or has one that the
  queue never hands out. The first is how the code treats a failed enqueue; no text of the
  repository excludes it.
- `ingest[j] = "accepted"` in `NoWorkOnReleasedCredit`. An enqueue whose reply was lost
  after it committed is refunded and processed nevertheless; the model has this
  behaviour, and no text of the repository excludes it.
- `redacted` in `EventsMatchCharge`. A refund after the shop was redacted finds no
  subscription row and queues no event, so the events may exceed the charge.
- `tally` in `MeteredRun`. Each property names the mishaps that defeat it. A failed import
  is charged when the status written by finalize was lost, or when an operator's
  request or an overlapping attempt set the run going again before the settlement
  read it. An event is lost for each request that numbers its own from a count.
- `client.passed` in `ClientMissesNothing`. A client that follows `last_seq` passes over what a
  full page had no room for (`get_event_snapshot.py:55,60`): exactly that is missing, and
  nothing while all events fit one page. A client that goes on from the last event it got
  misses none. A client that is told to stop with a cut page does not read the rest; nothing
  is claimed of what it never asked for.
- `late` in `DraftTellsOutcome`. A draft saved from an old copy says what the copy said.
- `muddled` and `late` in `Suggestions`. Marking a fix applied looks at no status, so an
  apply that ends late brings a fix back beside its replacement; a fix that two requests
  loaded before either recorded it, or that is written twice or over an edit nobody had
  read, takes other values for what was there before. `torn`: nothing is claimed of lost or
  doubled fixes once a crash cut a request between two awaits, a suggestion was kept in the
  cache only, a request did not learn of its mark, or replacements could not be undone. A
  revert that is cut between recording and reopening (`intelligence_revert_suggestion.py:216`)
  has reverted the shop and lost the fix, although the comment there calls retries
  idempotent.
- The SEO field beside a reverted one, in `RevertRestores`. Shopify replaces both SEO fields
  when one is sent. The apply sends the other as it read it
  (`intelligence_apply_suggestion.py:467`); the revert does not (`intelligence_revert_suggestion.py:192`),
  and clears it, whatever the merchant wrote there. The property says so of exactly this
  field, and that no other changes. It is at odds with line 96 ("never overwrite edits made
  after Stockpile applied") and with the apply's own test
  (`tests/test_intelligence_apply_revert_variant_operations.py:137`): a divergence of the code,
  found by this model and stated here rather than excluded.
- Left-out rows in `LeftOutStaysOut`. The payload is built without the rows whose subject
  names no variant of it any more, or several (`shopify_mutation_plan.py:2165-2174`); what they
  left out is then written. The property covers product fields and rows that name one variant.
- Overlapping requests in `ReviewSession`. Edits and applies check a revision, await
  Shopify and save; the one that saves last drops the other's edit, and an apply stores
  over a draft that was saved while it waited. What is proved of them says that the
  session and the plan stay consistent, not that both edits are in them.
- Quantities in `KeepsThePromise` bind completed plans. When an image fails, results
  are paired with the wrong products and the quantity approved for one is set on
  another; the plan is then not completed, and no text excludes it.

## 4. The proofs

`OffloadWorkflowProofs`, `CreditLedgerProofs`, `CreditTotalsProofs`, `PlanExecutionProofs`,
`MeteredRunProofs`, `SuggestionsProofs`, `PlanItemProofs` and `ReviewSessionProofs` prove, for
every value of the constants under the named assumptions (`JobAssumption`, `BoundAssumption`, `FaultAssumption`; `PlanAssumption`,
`AmountAssumption`, `TimeAssumption`, `ChangeAssumption`, `OperationAssumption`;
`CountAssumption`, `BudgetAssumption`, `AbsentAssumption`; `LimitsAssumption`,
`CaseAssumption`; `BoundAssumption`, `ShopAssumption`, `AbsentAssumption`;
`NamesAssumption`, `OptionsAssumption`, `ProductsAssumption`). They say that bounds are numbers,
that constants have their types, and that what stands for "nothing" is no value.
`ProductsAssumption` says of the data of a review what the code makes of them. Imported
variants have no identities (`Imported`: `_normalized_variant` drops the ids of what is not
live). Live ones have one each, options, and no values by position (`Identified`:
`PRODUCT_BY_HANDLE_QUERY` asks Shopify for `id`, `options` and `selectedOptions`). Names, values,
SKUs and the numbers of variants, options and edits are arbitrary. `UndoneIsDraft` and
`AppliedIsStored` have the hypothesis `OneClient`: no two requests at once, as in
`review_editing`; the other theorems of `ReviewSession` hold for any number of clients.

| Theorem | States |
|---|---|
| `TypeCorrect` (each but `ReviewSession`) | `Spec => []TypeOK` |
| `Inductive` (each but `Suggestions`, `ReviewSession`) | `Spec => []IInv` |
| `Exclusion`, `RetriesAreClaimable`, `ProductsAreKept`, `ReleasedIsFinal` | the invariants of `workflow_safety` |
| `OutcomesAreFinal` | `Spec => TerminalJobSticky` |
| `CommitsAreCovered` | `Spec => CommitsWithinCapacity` |
| `CountersAddUp`, `LedgerAddsUp`, `EventsAddUp` | the sums of `credit_ledger`: `CountersMatchOperations`, `LedgerExplainsCycle`, `EventsMatchCharge` |
| `KeepsPromise` | `Spec => KeepsThePromise`: `PlanExecution` implements `Publication` |
| `EndsAreShown`, `DraftIsTold` | `Spec => []EndShows`, `Spec => []DraftTellsOutcome` |
| `SalesAreKept` | `Spec => NoSaleUndone` |
| `FixesKept`, `FixesNotDoubled` | `Spec => []NoFixLost`, `Spec => []NoFixDoubled` |
| `AuditsReplace`, `RevertsRestore` | `Spec => AuditReplaces`, `Spec => RevertRestores` |
| `SoundAlways`, `MemoryAlways`, `WholeAlways` | the inductive invariants of `Suggestions`, below |
| `OnePath` | `Spec => []HistoryIsAPath` |
| `UndoneIsDraft` | `OneClient => (Spec => []UndoRestoresDraft)` |
| `AppliedIsStored` | `OneClient => (Spec => ApplyReachesDraft)` |
| `NoneDeleted`, `WrittenOnce`, `ValuesStay`, `InventoryFollows` | the invariants of the payload: `LiveVariantsKept`, `CombinationsUnique`, `ValuesStayWithTheirVariant`, `InventoryFollowsReview` |
| `NothingBlocksApplied` | `Spec => ApplyLeavesNoBlockers` |
| `ChargesAreEarned`, `CallsAreCounted`, `LossesAreExplained`, `ClientSeesAll` | the invariants of `metered_run` |

*The queue.* That no second worker gets a job is not inductive: it depends on what the
holder did to the row. `Fenced(w, j)` states that correspondence for each place in
`run_once`: before "running" is announced the row is a live claim or finished; after
it, it is running, finished or deleted; the worker's attempt is the row's; a worker
about to complete has saved the products. `Owned(j)` adds that at most one worker holds
the job and what a retryable, succeeded or refunded job looks like, and `IInv` claims
`Owned(j)` for each job whose claims never lapsed. `UntouchedSafe` disposes of the
imports a step does not concern; `TransitionRows` summarises the SQL transition; then
there is one lemma per group of actions.

*The ledger.* A settlement replaces a reservation by a charge, and it commits nothing
new because the charge is at most the reservation; a reversal only lowers what is
committed because it is at most the charge. `TypeOK` says so of the columns (`ChargeWithinQuote`), beside their types (`Shapes`); `IInv`
is both. These are the table's CHECK constraints, proved to
hold instead of assumed to be enforced.

*The sums of the ledger.* `CreditTotalsProofs` begins with what a sum over a finite set does when one
member's value changes. `Total` is a fold, a recursive function over subsets; that it
has a value and obeys its equation (`SumsExist`, `SumsAgree`) follows from the least
subset, by strict inclusion, on which it would not (`SmallestSubset`), which is how the
induction is done without a theorem that takes a predicate. `SInv` then adds to the
invariant above what makes a counter, an entry and an event move together. Entries and
events are inserted with `ON CONFLICT DO NOTHING`: a key already there would drop the
row and leave the sum behind. `RowsFit` says which keys an operation can have at each
status (none before it reserves, its reservation alone while that is open, no total ahead
of what it reversed), so that no insert is dropped. `SubscribedFirst` covers the first
subscription, which starts a cycle from zero.

*The execution of plans.* The promise is about what was approved, and the code never
stores that apart from the plan: the row, the API's memory, the worker's copy and what
Shopify was sent all hold a selection, and each can be saved over the others. `IInv`
says why that is harmless: a plan is approved once (`ApprovesReviewed`: an approval that
waits is of a plan never approved), and from then on no copy is under review, so none
can be selected from, and each holds what was approved (`Faithful`); before, no copy has
another status than "review". `ExecutesApproved` and `SentApproved` follow the selection
to the executors and to Shopify. `ResultsEarned` says that a result of success belongs
to a product that was written, and, while no image failed, that its turn set its own
stock: `PairedWithItself` proves of the positional reading of results that it then pairs
each product with itself. A completed plan has no failed image, so `CompletedEarned`
follows, and with it the step `Complete` of `Publication`. Each step that saves a row
maps to `Approve`, `Complete`, `Forget` or a stutter, a write of Shopify to `Write`, the
setting of stock to `Stock` or a stutter; `OthersQuiet` disposes of the rest.

`EndInv`, on top of `IInv`, adds what the worker must have done to end a job:
the plan whose job it has says how it ended once the worker saved an outcome or a
failure (`Concludes`), and a draft that says "queued" or "running" knows a job that has
not been reported yet (`TellsUnderway`); no API step can reopen the plan, because it saves
"review" or "approved" only for plans never approved.

*The metered run.* A settlement reads the stored run, which attempts and requests write
without looking. `SettlesFailed` says that a run about to be settled reads "failed", or
its import was carried out, or an excuse is on record; it is kept because whoever else
could write the status is another attempt that runs, and `OneAlive` says that this is
an overlap, or a request, and `RequestsCounted` says that this was counted. `TotalsTold`
bounds every total, in memory or stored, by what was told. Three further invariants stand
on that `IInv`, one for each count. `Numbered`: while nothing was lost the numbers have no
gap and nobody is ahead of them, so a new number is greater than any a client has
seen and than any `last_seq` it was told, and a page leaves out nothing before its last event. `Balanced`: the losses, the
events an attempt has yet to run into and the event of a request under way are no more
than the failed inserts and the requests; each step moves one of these to another.
`TokensCounted` and `Keyed`: the one attempt that runs has the totals of the run, and a
call to be recorded has the number of an event of its own attempt, which no recorded call
has.

*The fixes.* Three invariants, each proved with the one before it. `Sound`: every request
is at a place of its operation (`Located`), an audit about to withdraw had the model's
answer (`Audited`), and what is pending was neither applied nor withdrawn (`RowsFit`);
`AuditReplaces` is read off the steps that withdraw and finish. For each action one lemma
(`...Moves`) says where its request goes and what it does to the tables, and the rest
of the proofs use only these. `Memory` follows what the shop held before a fix through the
request that read it, the row, the cache and the request that reverts it: while a fix is
not muddled one request at a time writes it (`Remembered`), so all of these agree, and a
revert writes what they keep, and beside it at most the cleared SEO field. `Whole` holds while nothing was torn. The table and the
cache then agree but for a withdrawal (`Agreement`), and a request holds the fields of
its row (`Claims`). `Kept` says of each offered field that it stands in a suggestion that
will go on to stand (`Firm`: not waiting for its source to be superseded, not reopened,
and no revert under way lacks the field), or was withdrawn, or is owed by the request
that is between two awaits; `Single` that no two stand, and none beside a debt;
`Children` that the replacements of a regeneration share out the fields of their source,
which is what lets them take its place in one step. Steps that change rows in place,
and steps that add one, have a lemma each for `Kept` and for `Single`.

*The sessions of a review.* The first three theorems hold for any edits on any products; of the
algebra they use only that an edit that is not refused yields an imported product
(`OptionEditImported`, `StructureEditImported`, `CellEditImported`), and that names found by position
are found once (`NamesFoundOnce`). `Lawful(s)` says that the history of a session
is a path: each edit starts at what the edit before it left, passing over choices of
rows; the product is where the cursor is; and before the first edit it is what that edit
started from. That last part makes undo possible and `HistoryIsAPath` does not say it.
`Follows` says the same of an edited session before its dimensions are found again, with
where the path begins (`Rooted`): `EditedFollows` (an entry recorded after the undone ones
are dropped goes on from the product, `PathGoesOn`), `UndoneFollows` and `RedoneFollows` (one
step on the path, `StepsBack` and `StepsOn`), `WasResetFollows` (as many steps back as the
cursor says, by the least number of steps after which it would not stand on the path).
`PathInv` is that every stored session, and every one a request waits to store, is lawful.
`ApplyInv` adds the draft: a session is of its revision or of an earlier one, and of its
own revision begins at its product (`Tied`); once an apply has stored the draft, or resumes
one that has, the draft holds the session's product or has moved past it (`Reached`). It
needs `OneClient`: the model has one session, and of two requests the later one would
store a session that was discarded over a new one.

*What is written.* `PlanItemProofs` is about the operators alone. An item is `Made` of a live
product and an imported one when its proposal is their merge, its blockers are all that is
said against that merge, and, unless something is, each row is backed by a variant of it.
When nothing blocks:

- the proposal names every combination once and keeps every live variant
  (`ProposalUnique`, `ProposalKeeps`). The merge alone does neither: it takes the repeats, the missing
  options and the unmatched variants of either side along, and what makes it safe is that
  a blocker speaks of each (`NothingBlocks`), so that different imported variants match
  different live ones (`ImportedDiffer`, `MatchedDiffer`);
- each value of a variant is the live one's, or the import's at the same combination
  (`KeptValue`, `ProposalValues`). Approval finds the live variant of a frozen row again, by the
  names of the proposal, which need not be those the merge matched by; `NamesAgree`,
  `PairsByName` and `MatchingIsMatched` show that it finds the same one, so `FrozenValues` and
  `FrozenIsOwn` hold of the payload;
- the quantities are those of imported variants, in Shopify's range, at the combination of
  their subject (`InventoryIsFaithful`).

The plan of an apply is made of the session's product with the live title and SKUs carried
forward where they are blank. `CarryForwardHas` says that no other value of a variant changes and
that the SKU comes from the variant matched; `CarriedAlike` and `AlikeMatch` that the result
matches the same live variants, so that `FrozenIsOwn` also holds of what was said before, and
`NothingToCarry` that where nothing blocks the product there is nothing to carry: this is why the item a session checks and the plan built when it
is applied, which two functions compute, agree (`NothingBlocksApplied`).

`MadeInv` is the inductive invariant: the plan, the session and whatever a request waits to
store each have an item made of the live product and of some imported one, that of the
plan being its source, that of an edited session its own product; and a payload was
safe for the source of its plan when it was frozen. That a session not yet edited has only
*some* product behind its item is not an oversight: it was opened on a plan, and the draft
may have changed since. Choosing rows leaves proposal and blockers alone (`ChoiceIsMade`), edits
keep products imported, and every other step makes an item or copies one.

Only model-checked: the liveness properties (`EveryImportSettles`, `DraftFollowsJob`,
`ReusedImportIsServed`, `SubmitSettles`), which are out of the prover's reach, and
`SelectionSurvivesRebuild` and `LeftOutStaysOut` of `review_editing`, which speak of the identities of
rows across two computations of an item. The inductive invariants above were also checked by
TLC on the instances of section 3 (of `PathInv`, all but that a history is a sequence;
`MadeInv` speaks of all products and was checked through what follows from it).

## 5. Not modelled

Without a module, for the reasons in `PROJECT.json`: the delivery of usage events, the
subscription verifier and the estimates, retention, files and WOPI, the Shopify client's
credentials, model settings. What a model, a parser or Shopify answers is an input.

Within the modelled components:

- imports: the batch endpoint (the same statements for each file), the draft of an inline
  import, progress messages, the in-memory stream and transcript of a run;
- credits: the simulated billing mode, prices, quotes, the settlement of audits;
- review: scalar edits of the older grid, media, metafields, view state, expiry, patches
  of several operations, the choice of a stock location, generated SKUs;
- execution: the runs and documents a submit records, products Shopify does not stock
  yet, several variants of a product, cancellation and lapsing leases of submit jobs
  (they are in `OffloadWorkflow`, for imports), two creations or approvals at once;
- suggestions: values edited in the request, the keys of the bulk apply, settings, scores
  and the rules that derive fixes, listings; the product and its metafields are read in
  one step;
- everywhere: lock waits and deadlocks inside Postgres are not visible when a function
  is one step.

## 6. Plan

Left to do, in this order:

1. `EventOutbox`: two drainers, marks, retries, delivery switched off; composed with the
   outbox of `CreditLedger`; liveness of delivery, idempotence at Shopify.
2. Two sessions of one draft with overlapping requests, and the scalar rows of the older
   grid.
3. `ImportQueue`: the abstract queue (an import is waiting, worked on, or ended) that
   `OffloadWorkflow` is to implement by a refinement mapping.
4. The keys of the bulk apply, and audits with their credits, in `Suggestions`.
5. Pure algorithms against reference definitions: backoff, credit estimates.
6. Proofs: the identities of review rows, for `SelectionSurvivesRebuild` and `LeftOutStaysOut`.

Runs stay few: one per question. Instances stay at two of each actor unless a
property needs three.
