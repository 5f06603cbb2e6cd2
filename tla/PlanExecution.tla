--------------------------- MODULE PlanExecution ---------------------------
(***************************************************************************)
(* From a reviewed mutation plan to the shop: the API process plans a      *)
(* draft, takes the merchant's selection, approval and submit; the queue's *)
(* worker executes the approved plan; Shopify carries out the bulk         *)
(* operation.  API and worker are processes with their own memory of the   *)
(* plans, which each reads before the database.                            *)
(*                                                                         *)
(* Every product of a plan has one variant, which Shopify stocks, and one  *)
(* approved quantity for it.                                               *)
(***************************************************************************)
EXTENDS Integers, FiniteSets

CONSTANTS
  Products,   \* how many products the draft has
  Plans,      \* bound: plans of it that have names
  Absent,     \* a row, an object in memory or a request that is not there
  Budgets     \* bounds: how many [plans, edits, patches, inlines, sales, crashes] may happen

Kind == {"plans", "edits", "patches", "inlines", "sales", "crashes"}

ASSUME CountAssumption == Products \in Nat /\ Plans \in Nat
ASSUME BudgetAssumption == Budgets \subseteq [Kind -> Nat]

Item == 1..Products
Plan == 1..Plans
NoPlan == 0
Executor == {"queue", "inline"}   \* the worker, and a submit without the queue

PlanStatus == {"review", "approved", "executing", "completed", "partially_applied",
               "failed", "stale"}
SubmitStatus == {"none", "queued", "running", "succeeded", "failed"}
Result == {"none", "success", "partially_applied", "failed"}
Quantity == (0..Plans) \X Nat     \* <<p, i>>: what plan p approved for product i;
                                  \* <<0, n>>: what the n-th sale before the end left

DraftRow == [revision : Nat, submit : SubmitStatus]
PlanInfo == [version : Nat, revision : Nat, shown : [Item -> Quantity], able : SUBSET Item]
PlanRow == [status : PlanStatus, chosen : SUBSET Item]
Creation == [step : {"resolve", "save"}, version : Nat, shown : [Item -> Quantity],
             seen : DraftRow]
Pending == [plan : Plan, chosen : SUBSET Item, linked : BOOLEAN]
Process ==
  [pc : {"idle", "check", "begin", "expect", "mark", "marking", "send", "wait", "stock",
         "report", "reporting", "finish", "fail", "excuse", "excusing", "bury"},
   plan : Plan \cup {NoPlan}, chosen : SUBSET Item, saved : PlanStatus,
   failed : SUBSET Item, result : [Item -> Result], done : SUBSET Item, seen : DraftRow]

ASSUME AbsentAssumption ==
  /\ \A items \in SUBSET Item : Absent # items
  /\ Absent \notin PlanInfo \cup PlanRow \cup Creation \cup Pending

VARIABLES
  draft,      \* product_drafts: [revision, submit]
  plan,       \* what never changes of a plan: [version, revision, shown, able], or Absent
  row,        \* shopify_mutation_plans: [status, chosen], or Absent
  api,        \* SupabaseService.mutation_plans of the API process
  creating,   \* a plan that is being made: [step, version, seen, shown], or Absent
  approving,  \* an approval that waits for Shopify: [plan, chosen, linked], or Absent
  tracking,   \* a submit whose draft is not marked yet, or NoPlan
  job,        \* the submit job of each plan
  proc,       \* who executes a plan, and how far it is
  stock,      \* Shopify: the available quantity of each product
  pending,    \* Shopify: {<<x, p, i>>} of bulk operations still to be carried out
  accepted,   \* Shopify: those it carried out
  approval,   \* history: what was approved of each plan, or Absent
  written,    \* history: {<<p, i>>} products written
  stocked,    \* history: {<<p, t, i>>} product t was given the stock plan p has for i
  crashed,    \* history: plans whose worker died
  late,       \* history: a draft was saved from a copy, or marked, out of date
  left        \* bound: what may still happen

requests == <<creating, approving, tracking>>
shopify == <<stock, pending, accepted, written, stocked>>
vars == <<draft, plan, row, api, requests, job, proc, shopify, approval, crashed, late, left>>

IdleProc == [pc |-> "idle", plan |-> NoPlan, chosen |-> {}, saved |-> "review",
             failed |-> {}, result |-> [i \in Item |-> "none"], done |-> {},
             seen |-> [revision |-> 1, submit |-> "none"]]

Counted(what) == left[what] > 0 /\ left' = [left EXCEPT ![what] = @ - 1]

-----------------------------------------------------------------------------
(* Plans as the API process sees them.                                     *)

Seen(p) == IF api[p] # Absent THEN api[p] ELSE row[p]

Newest(ps) == CHOOSE p \in ps :
  \A q \in ps : \/ plan[q].version < plan[p].version
                \/ plan[q].version = plan[p].version /\ q <= p

\* Its own memory first: a newer plan in the database does not count
Latest ==
  LET remembered == {p \in Plan : api[p] # Absent}
      stored == {p \in Plan : row[p] # Absent}
  IN  IF remembered # {} THEN Newest(remembered)
      ELSE IF stored # {} THEN Newest(stored) ELSE NoPlan

Save(p, r) == row' = [row EXCEPT ![p] = r] /\ api' = [api EXCEPT ![p] = r]

\* Saving a draft from a copy
SaveDraft(copy, saved) == draft' = saved /\ late' = (late \/ draft # copy)

-----------------------------------------------------------------------------
Init ==
  /\ draft = [revision |-> 1, submit |-> "none"]
  /\ plan = [p \in Plan |-> Absent] /\ row = plan /\ api = plan
  /\ creating = Absent /\ approving = Absent /\ tracking = NoPlan
  /\ job = [p \in Plan |-> "absent"]
  /\ proc = [x \in Executor |-> IdleProc]
  /\ stock = [i \in Item |-> <<0, 0>>]
  /\ pending = {} /\ accepted = {} /\ written = {} /\ stocked = {}
  /\ approval = [p \in Plan |-> Absent]
  /\ crashed = {} /\ late = FALSE
  /\ left \in Budgets

-----------------------------------------------------------------------------
(* The API process.                                                        *)

\* update_product_draft: an edit forgets the submit status; only the plan the API
\* takes for the latest, and for approved, becomes stale
UpdateDraft ==
  /\ Counted("edits")
  /\ draft' = [revision |-> draft.revision + 1, submit |-> "none"]
  /\ IF Latest # NoPlan /\ Seen(Latest).status = "approved"
     THEN Save(Latest, [Seen(Latest) EXCEPT !.status = "stale"])
     ELSE UNCHANGED <<row, api>>
  /\ UNCHANGED <<plan, requests, job, proc, shopify, approval, crashed, late>>

\* create_mutation_plan: read the draft and the plan before, then ask Shopify
StartPlan ==
  /\ creating = Absent /\ left["plans"] > 0
  /\ \E p \in Plan : plan[p] = Absent
  /\ creating' = [step |-> "resolve", seen |-> draft, shown |-> stock,
                  version |-> IF Latest = NoPlan THEN 1 ELSE plan[Latest].version + 1]
  /\ UNCHANGED <<draft, plan, row, api, approving, tracking, job, proc, shopify,
                 approval, crashed, late, left>>

\* The draft is saved as it was read, with corrections or without
Corrected(copy) == [copy EXCEPT !.revision = @ + 1]
ResolvePlan ==
  /\ creating # Absent /\ creating.step = "resolve"
  /\ \E saved \in {creating.seen, Corrected(creating.seen)} :
       /\ IF saved = creating.seen THEN UNCHANGED left ELSE Counted("edits")
       /\ SaveDraft(creating.seen, saved)
       /\ creating' = [creating EXCEPT !.step = "save", !.seen = saved, !.shown = stock]
  /\ UNCHANGED <<plan, row, api, approving, tracking, job, proc, shopify, approval, crashed>>

\* The products without blockers can be selected, and are; the table has a version once
SavePlan ==
  /\ creating # Absent /\ creating.step = "save" /\ Counted("plans")
  /\ \A q \in Plan : row[q] # Absent => plan[q].version # creating.version
  /\ LET p == CHOOSE q \in Plan : plan[q] = Absent /\ \A r \in 1..(q - 1) : plan[r] # Absent
     IN  \E able \in SUBSET Item :
           /\ plan' = [plan EXCEPT ![p] =
                [version |-> creating.version, revision |-> creating.seen.revision,
                 shown |-> creating.shown, able |-> able]]
           /\ Save(p, [status |-> "review", chosen |-> able])
  /\ SaveDraft(creating.seen, creating.seen)
  /\ creating' = Absent
  /\ UNCHANGED <<approving, tracking, job, proc, shopify, approval, crashed>>

\* Shopify does not answer
PlanFails ==
  /\ creating # Absent /\ creating' = Absent
  /\ UNCHANGED <<draft, plan, row, api, approving, tracking, job, proc, shopify,
                 approval, crashed, late, left>>

Editable(p) == plan[p] # Absent /\ Seen(p).status = "review"

\* An approval that waits holds the object of the API's memory, whose items are
\* changed in place; a save puts a copy there
Linked(p) == approving # Absent /\ approving.plan = p /\ approving.linked

\* patch_mutation_plan_selection
PatchSelection(p) ==
  /\ Editable(p) /\ Counted("patches")
  /\ \E chosen \in SUBSET plan[p].able :
       /\ Save(p, [Seen(p) EXCEPT !.chosen = chosen])
       /\ approving' = IF Linked(p)
                       THEN [approving EXCEPT !.chosen = chosen, !.linked = FALSE]
                       ELSE approving
  /\ UNCHANGED <<draft, plan, creating, tracking, job, proc, shopify, approval,
                 crashed, late>>

\* A selection refused at one product has changed the ones before it, in memory
RefuseSelection(p) ==
  /\ Editable(p) /\ Counted("patches")
  /\ \E refused \in Item, want \in SUBSET plan[p].able :
       LET before == 1..(refused - 1)
           chosen == (Seen(p).chosen \ before) \cup (want \cap before)
       IN  /\ api' = IF api[p] = Absent THEN api ELSE [api EXCEPT ![p].chosen = chosen]
           /\ approving' = IF Linked(p) THEN [approving EXCEPT !.chosen = chosen]
                           ELSE approving
  /\ UNCHANGED <<draft, plan, row, creating, tracking, job, proc, shopify, approval,
                 crashed, late>>

\* approve_mutation_plan: check, then ask Shopify
StartApproval(p) ==
  /\ approving = Absent
  /\ p = Latest
  /\ plan[p].revision = draft.revision
  /\ Seen(p).chosen # {} /\ Seen(p).status = "review"
  /\ approving' = [plan |-> p, chosen |-> Seen(p).chosen, linked |-> api[p] # Absent]
  /\ UNCHANGED <<draft, plan, row, api, creating, tracking, job, proc, shopify,
                 approval, crashed, late, left>>

FinishApproval ==
  /\ approving # Absent
  /\ Save(approving.plan, [status |-> "approved", chosen |-> approving.chosen])
  /\ approval' = [approval EXCEPT ![approving.plan] = approving.chosen]
  /\ approving' = Absent
  /\ UNCHANGED <<draft, plan, creating, tracking, job, proc, shopify, crashed, late, left>>

ApprovalFails ==
  /\ approving # Absent /\ approving' = Absent
  /\ UNCHANGED <<draft, plan, row, api, creating, tracking, job, proc, shopify,
                 approval, crashed, late, left>>

\* submit_products_to_shopify: a plan that was queued is answered from its job
Submittable(p) ==
  /\ plan[p] # Absent /\ Seen(p).status = "approved"
  /\ plan[p].revision = draft.revision
  /\ Seen(p).chosen # {}
  /\ job[p] = "absent"

EnqueueSubmit(p) ==
  /\ Submittable(p) /\ tracking = NoPlan
  /\ job' = [job EXCEPT ![p] = "queued"]
  /\ tracking' = p
  /\ UNCHANGED <<draft, plan, row, api, creating, approving, proc, shopify, approval,
                 crashed, late, left>>

TrackSubmit ==
  /\ tracking # NoPlan
  /\ draft' = [draft EXCEPT !.submit = "queued"]
  /\ late' = (late \/ job[tracking] # "queued")
  /\ tracking' = NoPlan
  /\ UNCHANGED <<plan, row, api, creating, approving, job, proc, shopify, approval,
                 crashed, left>>

\* Without the queue the request executes the plan, which stays approved
SubmitInline(p) ==
  /\ Submittable(p) /\ proc["inline"] = IdleProc /\ Counted("inlines")
  /\ proc' = [proc EXCEPT !["inline"] =
                [IdleProc EXCEPT !.pc = "send", !.plan = p, !.chosen = Seen(p).chosen]]
  /\ UNCHANGED <<draft, plan, row, api, requests, job, shopify, approval, crashed, late>>

\* The API process dies: its memory and its requests are gone
RestartApi ==
  /\ Counted("crashes")
  /\ api' = [p \in Plan |-> Absent]
  /\ creating' = Absent /\ approving' = Absent /\ tracking' = NoPlan
  /\ proc' = [proc EXCEPT !["inline"] = IdleProc]
  /\ UNCHANGED <<draft, plan, row, job, shopify, approval, crashed, late>>

-----------------------------------------------------------------------------
(* submit_products.execute, by either executor.                            *)

At(x, pc) == proc[x].pc = pc
GoTo(x, pc) == proc' = [proc EXCEPT ![x].pc = pc]

\* The request answers; the worker goes on with the stock
Sent(x, failed, result) ==
  proc' = IF x = "inline" THEN [proc EXCEPT ![x] = IdleProc]
          ELSE [proc EXCEPT ![x].pc = "stock", ![x].failed = failed, ![x].result = result]

Failed(x) == [i \in Item |-> IF i \in proc[x].chosen THEN "failed" ELSE "none"]

\* The products whose images cannot be prepared: not all of them, if anything is sent
Unprepared(x) == SUBSET proc[x].chosen \ {proc[x].chosen}

\* Products whose images cannot be prepared fail, and their results come first
StartBulk(x) ==
  /\ At(x, "send")
  /\ \E failed \in Unprepared(x) :
       LET sent == {x} \X {proc[x].plan} \X (proc[x].chosen \ failed)
       IN  /\ pending' = pending \cup sent
           /\ accepted' = accepted \ sent
           /\ proc' = [proc EXCEPT ![x].pc = "wait", ![x].failed = failed]
  /\ UNCHANGED <<draft, plan, row, api, requests, job, stock, written, stocked,
                 approval, crashed, late, left>>

\* No product can be prepared, or the upload or the start of the operation raises
SendFails(x) ==
  /\ At(x, "send")
  /\ Sent(x, {}, Failed(x))
  /\ UNCHANGED <<draft, plan, row, api, requests, job, shopify, approval, crashed, late, left>>

\* The operation is carried out product by product
ShopifyWrites ==
  /\ \E t \in pending :
       /\ pending' = pending \ {t}
       /\ accepted' = accepted \cup {t}
       /\ written' = written \cup {<<t[2], t[3]>>}
  /\ UNCHANGED <<draft, plan, row, api, requests, job, proc, stock, stocked, approval,
                 crashed, late, left>>

ShopifyRefuses ==
  /\ \E t \in pending : pending' = pending \ {t}
  /\ UNCHANGED <<draft, plan, row, api, requests, job, proc, stock, accepted, written,
                 stocked, approval, crashed, late, left>>

\* A product that was written may still miss its variant steps, metafields or media
WasWritten(x, i) == i \notin proc[x].failed /\ <<x, proc[x].plan, i>> \in accepted
Outcomes(x, i) ==
  IF i \notin proc[x].chosen THEN {"none"}
  ELSE IF WasWritten(x, i) THEN {"success", "partially_applied", "failed"} ELSE {"failed"}

CollectResults(x) ==
  /\ At(x, "wait")
  /\ \A t \in pending : <<t[1], t[2]>> # <<x, proc[x].plan>>
  /\ \E result \in [Item -> Result] :
       /\ \A i \in Item : result[i] \in Outcomes(x, i)
       /\ Sent(x, proc[x].failed, result)
  /\ UNCHANGED <<draft, plan, row, api, requests, job, shopify, approval, crashed, late, left>>

\* Mutant: the poll has no timeout
GiveUp_Never(x) == FALSE /\ UNCHANGED vars

\* The poll ends after its timeout, or the operation ends without results; what
\* Shopify has not carried out yet it may still carry out
GiveUp(x) ==
  /\ At(x, "wait")
  /\ Sent(x, {}, Failed(x))
  /\ UNCHANGED <<draft, plan, row, api, requests, job, shopify, approval, crashed, late, left>>

-----------------------------------------------------------------------------
(* The worker.                                                             *)

me == proc["queue"]
Stay == UNCHANGED <<plan, api, requests, approval, crashed, left>>
Running(p) == job[p] = "running"

\* Claimed, and announced as running: from here on no other worker gets the job
TakeJob(p) ==
  /\ At("queue", "idle") /\ job[p] = "queued"
  /\ job' = [job EXCEPT ![p] = "running"]
  /\ proc' = [proc EXCEPT !["queue"] = [IdleProc EXCEPT !.pc = "check", !.plan = p]]
  /\ UNCHANGED <<draft, row, shopify, late>> /\ Stay

\* The products the plan has selected
Selected(p) == row[p].chosen

\* The plan and the draft are checked again
Executable(p) ==
  /\ row[p].status \in {"approved", "executing"}
  /\ plan[p].revision = draft.revision
  /\ Selected(p) # {}

CheckPlan ==
  /\ At("queue", "check")
  /\ proc' = [proc EXCEPT !["queue"] =
       IF Executable(me.plan) THEN [@ EXCEPT !.pc = "begin", !.chosen = Selected(me.plan)]
       ELSE [@ EXCEPT !.pc = "fail"]]
  /\ UNCHANGED <<draft, row, job, shopify, late>> /\ Stay

\* The worker saves the plan it read, over whatever the API saved meanwhile
SaveStatus(status, pc) ==
  /\ row' = [row EXCEPT ![me.plan] = [status |-> status, chosen |-> me.chosen]]
  /\ proc' = [proc EXCEPT !["queue"].saved = status, !["queue"].pc = pc]

BeginExecution ==
  /\ At("queue", "begin")
  /\ SaveStatus("executing", "expect")
  /\ UNCHANGED <<draft, job, shopify, late>> /\ Stay

\* assert_inventory_expectations: nothing is written when stock has moved
Expected == \A i \in me.chosen : stock[i] = plan[me.plan].shown[i]

ExpectInventory ==
  /\ At("queue", "expect") /\ Expected
  /\ GoTo("queue", "mark")
  /\ UNCHANGED <<draft, row, job, shopify, late>> /\ Stay

InventoryStale ==
  /\ At("queue", "expect") /\ ~Expected
  /\ SaveStatus("stale", "fail")
  /\ UNCHANGED <<draft, job, shopify, late>> /\ Stay

\* The shop has no usable token
NoToken ==
  /\ At("queue", "expect")
  /\ GoTo("queue", "fail")
  /\ UNCHANGED <<draft, row, job, shopify, late>> /\ Stay

\* _save_draft_state reads the draft, and saves the row it read
Reads == [mark |-> "marking", report |-> "reporting", excuse |-> "excusing"]

ReadDraft ==
  /\ me.pc \in DOMAIN Reads
  /\ proc' = [proc EXCEPT !["queue"].pc = Reads[me.pc], !["queue"].seen = draft]
  /\ UNCHANGED <<draft, row, job, shopify, late>> /\ Stay

SaveSubmit(submit, pc) ==
  /\ SaveDraft(me.seen, [me.seen EXCEPT !.submit = submit])
  /\ proc' = [proc EXCEPT !["queue"].pc = pc, !["queue"].seen = IdleProc.seen]
  /\ UNCHANGED <<row, job, shopify>> /\ Stay

MarkRunning == At("queue", "marking") /\ SaveSubmit("running", "send")

\* Results are read in their order, products whose images failed first: the result a
\* selected product is paired with is the one at its own place
UpTo(s, i) == Cardinality({j \in s : j <= i})
PlaceOf(j) == IF j \in me.failed THEN UpTo(me.failed, j)
              ELSE Cardinality(me.failed) + UpTo(me.chosen \ me.failed, j)
\* Mutant: the results are read from the last one on
Partner_Backward(i) ==
  {j \in me.chosen : PlaceOf(j) = 1 + Cardinality(me.chosen) - UpTo(me.chosen, i)}

Partner(i) == {j \in me.chosen : PlaceOf(j) = UpTo(me.chosen, i)}

\* Mutant: the quantity is set whatever it was changed from
Unsold_Unchecked(i, t) == TRUE

\* Shopify sets a quantity only if it still is the approved current one
Unsold(i, t) == stock[t] = plan[me.plan].shown[i]

\* apply_inventory_operations, for the next selected product
NextInOrder == {i \in me.chosen \ me.done : \A j \in me.chosen \ me.done : i <= j}
StockNext ==
  /\ At("queue", "stock")
  /\ \E i \in NextInOrder : \E t \in Partner(i) :
       \/ /\ me.result[t] # "success"
          /\ proc' = [proc EXCEPT !["queue"].done = @ \cup {i}]
          /\ UNCHANGED <<stock, stocked>>
       \/ /\ me.result[t] = "success" /\ Unsold(i, t)
          /\ stock' = [stock EXCEPT ![t] = <<me.plan, i>>]
          /\ stocked' = stocked \cup {<<me.plan, t, i>>}
          /\ proc' = [proc EXCEPT !["queue"].done = @ \cup {i}]
       \/ /\ me.result[t] = "success"
          /\ proc' = [proc EXCEPT !["queue"].done = @ \cup {i},
                                  !["queue"].result[t] = "partially_applied"]
          /\ UNCHANGED <<stock, stocked>>
  /\ UNCHANGED <<draft, row, job, pending, accepted, written, late>> /\ Stay

With(status) == {i \in me.chosen : me.result[i] = status}

\* Mutant: the status of the results is taken for the plan's
Lifecycle_OfResult ==
  IF With("success") = me.chosen THEN "success"
  ELSE IF With("success") \cup With("partially_applied") # {} THEN "partially_applied"
  ELSE "failed"

Lifecycle ==
  IF With("success") = me.chosen THEN "completed"
  ELSE IF With("success") \cup With("partially_applied") # {} THEN "partially_applied"
  ELSE "failed"

SaveOutcome ==
  /\ At("queue", "stock") /\ me.done = me.chosen
  /\ row' = [row EXCEPT ![me.plan] = [status |-> Lifecycle, chosen |-> me.chosen]]
  /\ proc' = [proc EXCEPT !["queue"] = [IdleProc EXCEPT !.pc = "report", !.plan = me.plan,
                                         !.chosen = me.chosen, !.saved = Lifecycle]]
  /\ UNCHANGED <<draft, job, shopify, late>> /\ Stay

ReportSuccess ==
  At("queue", "reporting") /\ me.saved = "completed" /\ SaveSubmit("succeeded", "finish")
ReportFailure ==
  At("queue", "reporting") /\ me.saved # "completed" /\ SaveSubmit("failed", "fail")

EndJob(status) ==
  /\ job' = [job EXCEPT ![me.plan] = status]
  /\ proc' = [proc EXCEPT !["queue"] = IdleProc]
  /\ UNCHANGED <<draft, row, shopify, late>> /\ Stay

FinishJob == At("queue", "finish") /\ EndJob("succeeded")

\* The plan as the worker remembers it: what it saved last, or the row
Remembered == IF me.saved = "review" THEN row[me.plan]
              ELSE [status |-> me.saved, chosen |-> me.chosen]

\* Mutant: a plan that is executing is left alone
Unfinished_NotExecuting == Remembered.status \notin {"completed", "partially_applied", "executing"}

Unfinished == Remembered.status \notin {"completed", "partially_applied"}

\* _mark_related_failure
MarkPlanFailed ==
  /\ At("queue", "fail")
  /\ IF Unfinished
     THEN row' = [row EXCEPT ![me.plan] = [Remembered EXCEPT !.status = "failed"]]
     ELSE UNCHANGED row
  /\ GoTo("queue", "excuse")
  /\ UNCHANGED <<draft, job, shopify, late>> /\ Stay

\* Mutant: the draft is not told
MarkDraftFailed_Silent ==
  At("queue", "excusing") /\ SaveSubmit(me.seen.submit, "bury")

MarkDraftFailed == At("queue", "excusing") /\ SaveSubmit("failed", "bury")

BuryJob == At("queue", "bury") /\ EndJob("failed")

\* The worker dies: the job stays running, which no worker claims again
WorkerDies ==
  /\ me # IdleProc /\ Counted("crashes")
  /\ crashed' = crashed \cup {me.plan}
  /\ proc' = [proc EXCEPT !["queue"] = IdleProc]
  /\ UNCHANGED <<draft, plan, row, api, requests, job, shopify, approval, late>>

-----------------------------------------------------------------------------
\* A sale, or a count in the shop
Sale ==
  /\ Counted("sales")
  /\ \E i \in Item : stock' = [stock EXCEPT ![i] = <<0, left["sales"]>>]
  /\ UNCHANGED <<draft, plan, row, api, requests, job, proc, pending, accepted, written,
                 stocked, approval, crashed, late>>

ApiStep ==
  \/ UpdateDraft \/ StartPlan \/ ResolvePlan \/ SavePlan \/ PlanFails
  \/ \E p \in Plan : PatchSelection(p) \/ RefuseSelection(p) \/ StartApproval(p)
                       \/ EnqueueSubmit(p) \/ SubmitInline(p)
  \/ FinishApproval \/ ApprovalFails \/ TrackSubmit \/ RestartApi

Submit(x) == StartBulk(x) \/ SendFails(x) \/ CollectResults(x) \/ GiveUp(x)

WorkerStep ==
  \/ \E p \in Plan : TakeJob(p)
  \/ CheckPlan \/ BeginExecution \/ ExpectInventory \/ InventoryStale \/ NoToken
  \/ ReadDraft \/ MarkRunning \/ Submit("queue") \/ StockNext \/ SaveOutcome
  \/ ReportSuccess \/ ReportFailure \/ FinishJob
  \/ MarkPlanFailed \/ MarkDraftFailed \/ BuryJob

Next ==
  \/ ApiStep \/ Submit("inline") \/ WorkerStep \/ WorkerDies
  \/ ShopifyWrites \/ ShopifyRefuses \/ Sale

Spec == Init /\ [][Next]_vars

\* run_forever: the worker keeps going.  Nothing is assumed of Shopify.
FairSpec == Spec /\ WF_vars(WorkerStep)

-----------------------------------------------------------------------------
TypeOK ==
  /\ draft \in DraftRow
  /\ plan \in [Plan -> PlanInfo \cup {Absent}]
  /\ row \in [Plan -> PlanRow \cup {Absent}]
  /\ api \in [Plan -> PlanRow \cup {Absent}]
  /\ creating \in Creation \cup {Absent}
  /\ approving \in Pending \cup {Absent}
  /\ tracking \in Plan \cup {NoPlan}
  /\ job \in [Plan -> {"absent", "queued", "running", "succeeded", "failed"}]
  /\ proc \in [Executor -> Process]
  /\ stock \in [Item -> Quantity]
  /\ pending \subseteq Executor \X Plan \X Item
  /\ accepted \subseteq Executor \X Plan \X Item
  /\ approval \in [Plan -> (SUBSET Item) \cup {Absent}]
  /\ written \subseteq Plan \X Item /\ stocked \subseteq Plan \X Item \X Item
  /\ crashed \subseteq Plan /\ late \in BOOLEAN
  /\ left \in [Kind -> Nat]

InStatus(status) == {p \in Plan : row[p] # Absent /\ row[p].status = status}

Published == INSTANCE Publication WITH
  Unapproved <- Absent,
  completed <- InStatus("completed")

\* The plans, their approvals and the worker keep what the review promises
KeepsThePromise == Published!Spec

\* A submit that ended leaves a plan that says so: it cannot be edited, approved again
\* or submitted again, and is not taken for one that is going on
EndShows ==
  \A p \in Plan : job[p] \in {"succeeded", "failed"} =>
                    row[p].status \notin {"review", "approved", "executing"}

\* When no submit is on its way, the draft does not say that one is; unless a stale
\* copy of the draft was saved over what was said
Underway == tracking # NoPlan \/ \E p \in Plan : job[p] \in {"queued", "running"}
DraftTellsOutcome ==
  ~Underway /\ ~late => draft.submit \notin {"queued", "running"}

\* What was sold after the review is not counted back
NoSaleUndone ==
  [][\A i \in Item : stock'[i] # stock[i] /\ stock'[i][1] # 0 =>
       stock[i] \in {plan[stock'[i][1]].shown[j] : j \in Item}]_vars

Ended(p) == job[p] \in {"succeeded", "failed"} \/ p \in crashed

\* A queued submit comes to an end, whatever Shopify does
SubmitSettles == \A p \in Plan : job[p] = "queued" ~> Ended(p)
=============================================================================
