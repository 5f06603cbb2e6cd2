---------------------------- MODULE Suggestions ----------------------------
(***************************************************************************)
(* Product intelligence: an audit proposes fixes of a product; the         *)
(* merchant applies all or some fields of a fix to the shop, reverts it,   *)
(* or has a field proposed anew.  Every request is a coroutine of one API  *)
(* process: it runs alone between two awaits, and all awaits are calls of  *)
(* Shopify or of the model.  The process keeps a cache of the rows it      *)
(* wrote, which it trusts more than the table.                             *)
(*                                                                         *)
(* One product; the products of a shop do not share a row.  A call of the  *)
(* table may fail, or succeed and lose its answer.                         *)
(***************************************************************************)
EXTENDS Naturals, Sequences, FiniteSets, Functions

CONSTANTS
  Request,     \* requests that may be served at the same time
  Rows,        \* bound: suggestions
  Audits,      \* bound: audits after the first
  Absent,      \* a row, a cached row or a payload that is not there
  Nobody,
  Shops,       \* what the shop may hold at first
  Proposals,   \* sets of fields an audit may propose to change
  Edited,      \* bound: fields the merchant may edit in the shop
  Budgets      \* bounds: how many [asks, edits, faults, crashes] may happen

Scalar == {"seo_title", "seo_description"}
Field == Scalar \cup {"metafields", "variant_operations"}
Sug == 1..Rows
Audit == 1..(Audits + 1)

Unset == <<"unset", 0>>
Original == <<"shop", 0>>            \* for variants: the single default variant
Value == {Unset, Original} \cup ({"edit", "fix"} \X Nat)
Fix(s) == <<"fix", s>>               \* what suggestion s proposed first
Patch == UNION {[fields -> Value] : fields \in SUBSET Field}

Status == {"pending", "applied", "reverted", "superseded"}
Suggestion == [status : Status, patch : Patch, previous : Patch \cup {Absent},
               root : Sug, audit : Audit, reopens : Sug \cup {0}, by : Audit \cup {0}]
AuditRow == [status : {"pending", "success", "needs_attention", "error"}, ready : BOOLEAN]

ASSUME BoundAssumption ==
  /\ Rows \in Nat \ {0} /\ Audits \in Nat
  /\ Budgets \subseteq [{"asks", "edits", "faults", "crashes"} -> Nat]
ASSUME ShopAssumption ==
  /\ Shops \subseteq [Field -> Value] /\ Edited \subseteq Field
  /\ Proposals \subseteq SUBSET Field \ {{}}
ASSUME AbsentAssumption ==
  /\ \A fields \in SUBSET Field : Absent \notin [fields -> Value]
  /\ Absent \notin Suggestion /\ Absent \notin AuditRow
  /\ Nobody \notin Request

VARIABLES
  live,        \* Shopify: the product
  row,         \* product_intelligence_suggestions
  cache,       \* SupabaseService.product_intelligence_suggestions
  audit,       \* product_intelligence_audits: [status, ready], or Absent
  req,         \* the requests, each at an await or between two
  turn,        \* the request that is between two awaits, or Nobody
  offered,     \* history: the fields each fix proposed at first
  before,      \* history: what the shop held before the fields of a fix were written
  muddled,     \* history: fixes written more than once, by requests that overlap, or over
               \* a change nobody had read
  late,        \* history: fixes marked applied when they were not pending any more
  torn,        \* history: a crash cut a request between two awaits, or a call failed unseen
  left         \* bound: what may still happen

history == <<offered, before, muddled, late, torn>>
vars == <<live, row, cache, audit, req, turn, history, left>>

Idle == [op |-> "none", pc |-> "idle", sug |-> 0, asked |-> {}, patch |-> <<>>,
         rest |-> <<>>, seen |-> <<>>, todo |-> {}, made |-> {}, tries |-> 0,
         queue |-> <<>>]

\* The values of f, and those of g where f has none
Over(f, g) == [x \in DOMAIN f \cup DOMAIN g |-> IF x \in DOMAIN f THEN f[x] ELSE g[x]]

Counted(what) == left[what] > 0 /\ left' = [left EXCEPT ![what] = @ - 1]

-----------------------------------------------------------------------------
(* The table and the cache.                                                *)

\* get_product_intelligence_suggestion: what the process wrote itself comes first
Get(s) == IF cache[s] # Absent THEN cache[s] ELSE row[s]
Known(s) == Get(s) # Absent

\* How a call of the table goes
Call == {"ok", "fails", "lost"}
Goes(db) == IF db = "ok" THEN UNCHANGED left ELSE Counted("faults")

\* The row s edited where it is in one of the states; the answer is the row, or, when
\* the call raises, the cached row edited likewise
Update(s, states, db, Edit(_)) ==
  LET stored == row[s] # Absent /\ row[s].status \in states
      cached == cache[s] # Absent /\ cache[s].status \in states
  IN  /\ row' = IF db # "fails" /\ stored THEN [row EXCEPT ![s] = Edit(@)] ELSE row
      /\ cache' = IF db = "ok" /\ stored THEN [cache EXCEPT ![s] = Edit(row[s])]
                  ELSE IF db # "ok" /\ cached THEN [cache EXCEPT ![s] = Edit(@)]
                  ELSE cache

\* Mutant: marks a row whatever its state
Updated_Unguarded(s, states, db) == Known(s)

Updated(s, states, db) ==
  LET there == IF db = "ok" THEN row[s] ELSE cache[s]
  IN  there # Absent /\ there.status \in states

\* The request knows what the table holds
Noticed(s, states, db) == db = "ok" \/ (db = "fails" /\ ~Updated(s, states, db))

Become(status, s, states, db) == 
  Update(s, states, db, LAMBDA saved : [saved EXCEPT !.status = status])

Room == \E s \in Sug : ~Known(s)       \* bound
Free == CHOOSE s \in Sug : ~Known(s)

\* create_product_intelligence_suggestion: a row that cannot be stored is cached
Create(r, db) ==
  /\ Room
  /\ row' = IF db = "fails" THEN row ELSE [row EXCEPT ![Free] = r]
  /\ cache' = [cache EXCEPT ![Free] = r]
  /\ torn' = (torn \/ db = "fails")

\* A pending suggestion made of another one
Child(s, patch) == [Get(s) EXCEPT !.status = "pending", !.patch = patch,
                    !.previous = Absent, !.reopens = 0, !.by = 0]

-----------------------------------------------------------------------------
(* Coroutines.                                                             *)

At(r, op, pc) == /\ req[r].op = op /\ req[r].pc = pc
                 /\ turn \in {Nobody, r}

\* At the next await, or without one
Await(r, new) == req' = [req EXCEPT ![r] = new] /\ turn' = Nobody
GoOn(r, new) == req' = [req EXCEPT ![r] = new] /\ turn' = r

\* A bulk apply goes on with its next suggestion, whatever became of the last one
End(r) ==
  LET queue == req[r].queue
  IN  IF queue = <<>> THEN Await(r, Idle)
      ELSE GoOn(r, [Idle EXCEPT !.op = "apply", !.pc = "load", !.sug = Head(queue),
                                !.asked = Field, !.queue = Tail(queue)])

Ask(r) == turn = Nobody /\ req[r] = Idle /\ Counted("asks")
Table == <<row, cache, audit>>

-----------------------------------------------------------------------------
(* Apply: one suggestion with the fields that were asked for, several in   *)
(* bulk, or a reviewed one.                                                *)

StartApply(r) ==
  /\ Ask(r)
  /\ \E s \in Sug, fields \in SUBSET Field \ {{}} :
       /\ Known(s) /\ fields \in {DOMAIN Get(s).patch \cap p : p \in Proposals}
       /\ GoOn(r, [Idle EXCEPT !.op = "apply", !.pc = "load", !.sug = s, !.asked = fields])
  /\ UNCHANGED <<live, Table, history>>

StartBulk(r) ==
  /\ Ask(r)
  /\ \E s, t \in {x \in Sug : Known(x)} :
       /\ s # t
       /\ GoOn(r, [Idle EXCEPT !.op = "apply", !.pc = "load", !.sug = s,
                               !.asked = Field, !.queue = <<t>>])
  /\ UNCHANGED <<live, Table, history>>

\* The merchant reviewed the fix next to what the shop held
StartReviewed(r) ==
  /\ Ask(r)
  /\ \E s \in {x \in Sug : Known(x)} :
       Await(r, [Idle EXCEPT !.op = "apply", !.pc = "review", !.sug = s,
                             !.asked = DOMAIN Get(s).patch, !.seen = live])
  /\ UNCHANGED <<live, Table, history>>

\* The fields of the request still are in the shop as the request has them
Unchanged(r, fields) == \A f \in fields : live[f] = req[r].seen[f]

CheckReview(r) ==
  /\ At(r, "apply", "review")
  /\ IF Unchanged(r, req[r].asked) THEN GoOn(r, [req[r] EXCEPT !.pc = "load"])
     ELSE End(r)
  /\ UNCHANGED <<live, Table, history, left>>

\* _build_effective_patch_payload: what was asked for and is proposed
Effective(r) == req[r].asked \cap DOMAIN Get(req[r].sug).patch

\* Another request has loaded the fix and not recorded it yet
Overlapped(r) == \E q \in Request \ {r} : /\ req[q].op = "apply" /\ req[q].sug = req[r].sug
                                         /\ req[q].pc \in {"read", "write", "record"}

LoadSuggestion(r) ==
  /\ At(r, "apply", "load")
  /\ LET saved == Get(req[r].sug)
         fields == Effective(r)
     IN  IF saved.status = "pending" /\ fields # {}
         THEN /\ Await(r, [req[r] EXCEPT !.pc = "read", !.patch = Restrict(saved.patch, fields),
                                 !.rest = Restrict(saved.patch, DOMAIN saved.patch \ fields)])
              /\ muddled' = IF Overlapped(r) THEN muddled \cup {req[r].sug} ELSE muddled
         ELSE End(r) /\ UNCHANGED muddled
  /\ UNCHANGED <<live, Table, offered, before, late, torn, left>>

\* The parts of an update, one call each
Stage == <<{"variant_operations"}, Scalar, {"metafields"}>>
Stages(fields) == {i \in 1..3 : Stage[i] \cap fields # {}}

\* Variants are only replaced while the product has none of its own
VariantsReplaceable(r) ==
  "variant_operations" \in DOMAIN req[r].patch =>
    live["variant_operations"] \in {Original, req[r].patch["variant_operations"]}

ReadShop(r) ==
  /\ At(r, "apply", "read")
  /\ IF VariantsReplaceable(r)
     THEN Await(r, [req[r] EXCEPT !.pc = "write", !.seen = live,
                                  !.todo = Stages(DOMAIN req[r].patch)])
     ELSE End(r)
  /\ muddled' = IF before[req[r].sug] = <<>> THEN muddled ELSE muddled \cup {req[r].sug}
  /\ UNCHANGED <<live, Table, offered, before, late, torn, left>>

\* What a request writes itself: the fix, or what a revert gives back
Sent(r) == IF req[r].op = "apply" THEN req[r].patch ELSE req[r].rest

\* Shopify replaces the SEO fields together, and clears the one that is left out: an
\* apply writes the one it does not change as it was read, a revert leaves it out
SeoSibling(r) ==
  LET written == DOMAIN Sent(r) \cap Scalar
  IN  IF Cardinality(written) = 1
      THEN [f \in Scalar \ written |-> IF req[r].op = "apply" THEN req[r].seen[f] ELSE Unset]
      ELSE <<>>

Payload(r) == Over(SeoSibling(r), Sent(r))

NextStage(r) == CHOOSE i \in req[r].todo : \A j \in req[r].todo : i <= j

\* What the shop held before a fix was written, and whether it can tell
Remember(r, fields) ==
  LET s == req[r].sug
      new == [f \in fields |-> live[f]]
      seen == \A f \in fields : live[f] = req[r].seen[f]
  IN  /\ before' = [before EXCEPT ![s] = Over(@, new)]
      /\ muddled' = IF seen /\ fields \cap DOMAIN before[s] = {} THEN muddled
                    ELSE muddled \cup {s}

Written(r) ==
  LET i == NextStage(r) IN live' = [f \in Field |->
    IF f \in Stage[i] \cap DOMAIN Payload(r) THEN Payload(r)[f] ELSE live[f]]
AfterStage(r, done) ==
  LET todo == req[r].todo \ done
  IN  Await(r, [req[r] EXCEPT !.todo = todo, !.pc = IF todo = {} THEN "record" ELSE "write"])

\* update_product_from_input, one call
WriteShop(r) ==
  /\ At(r, req[r].op, "write")
  /\ Written(r)
  /\ AfterStage(r, {NextStage(r)})
  /\ IF req[r].op = "apply"
     THEN Remember(r, Stage[NextStage(r)] \cap DOMAIN req[r].patch)
     ELSE UNCHANGED <<before, muddled>>
  /\ UNCHANGED <<Table, offered, late, torn, left>>

\* Shopify answers with user errors, which nobody reads; without its product the
\* metafields are not sent.  For the variants they are read, and end the request
WriteRefused(r) ==
  /\ At(r, req[r].op, "write") /\ Counted("faults")
  /\ IF NextStage(r) = 1 THEN End(r) ELSE AfterStage(r, 1..3)
  /\ UNCHANGED <<live, Table, history>>

\* The call raises, whether Shopify carried it out or not
WriteRaises(r) ==
  /\ At(r, req[r].op, "write") /\ Counted("faults")
  /\ \/ UNCHANGED <<live, before, muddled>>
     \/ /\ Written(r)
        /\ IF req[r].op = "apply"
           THEN Remember(r, Stage[NextStage(r)] \cap DOMAIN req[r].patch)
           ELSE UNCHANGED <<before, muddled>>
  /\ End(r)
  /\ UNCHANGED <<Table, offered, late, torn>>

\* Mutant: what the shop held is read from the fix
Previous_OfPatch(r) == req[r].patch

\* _build_previous_payload
Previous(r) == [f \in DOMAIN req[r].patch |-> req[r].seen[f]]

\* Mutant: the fields that were not asked for are dropped
Rest_Dropped(r) == <<>>

Rest(r) == req[r].rest

\* mark_product_intelligence_suggestion_applied looks at no status; when the update
\* raises it is tried again without the previous values, which then are only cached
RecordApplied(r) ==
  /\ At(r, "apply", "record")
  /\ LET s == req[r].sug
         Applied(saved) == [saved EXCEPT !.status = "applied", !.patch = req[r].patch]
         Reversibly(saved) == [Applied(saved) EXCEPT !.previous = Previous(r)]
     IN  \E db \in {"ok", "fails", "again"} :
           /\ Goes(db)
           /\ IF db = "again" /\ row[s] # Absent
              THEN /\ row' = [row EXCEPT ![s] = Applied(@)]
                   /\ cache' = [cache EXCEPT ![s] = Reversibly(row[s])]
              ELSE Update(s, Status, IF db = "again" THEN "ok" ELSE db, Reversibly)
           /\ late' = IF row[s] # Absent /\ row[s].status # "pending"
                      THEN late \cup {row[s].root} ELSE late
           /\ torn' = (torn \/ (db = "fails" /\ Updated(s, Status, db)))
           /\ IF Updated(s, Status, IF db = "again" THEN "ok" ELSE db) /\ Rest(r) # <<>>
              THEN GoOn(r, [req[r] EXCEPT !.pc = "rest"])
              ELSE End(r)
  /\ UNCHANGED <<live, audit, offered, before, muddled>>

\* The fields that were not applied stay pending in a suggestion of their own
KeepRest(r) ==
  /\ At(r, "apply", "rest")
  /\ \E db \in Call : Goes(db) /\ Create(Child(req[r].sug, Rest(r)), db)
  /\ End(r)
  /\ UNCHANGED <<live, audit, offered, before, muddled, late>>

-----------------------------------------------------------------------------
(* Revert.                                                                 *)

\* _build_previous_payload: what can be put back
Reversible(previous) ==
  /\ "variant_operations" \notin DOMAIN previous
  /\ "metafields" \in DOMAIN previous => previous["metafields"] # Unset

\* Of the fields of the fix, those whose previous value is kept
PutBack(s) == Restrict(Get(s).previous, DOMAIN Get(s).patch \cap DOMAIN Get(s).previous)

StartRevert(r) ==
  /\ Ask(r)
  /\ \E s \in {x \in Sug : Known(x)} :
       /\ Get(s).status = "applied" /\ Get(s).previous # Absent
       /\ Reversible(Get(s).previous)
       /\ Await(r, [Idle EXCEPT !.op = "revert", !.pc = "check", !.sug = s,
                     !.patch = Get(s).patch, !.rest = PutBack(s), !.seen = Get(s).patch])
  /\ UNCHANGED <<live, Table, history>>

\* A value that was changed since the fix was applied stops the revert, and so does a
\* fix of which nothing was kept
CheckDrift(r) ==
  /\ At(r, "revert", "check")
  /\ IF Unchanged(r, DOMAIN req[r].patch) /\ Stages(DOMAIN req[r].rest) # {}
     THEN Await(r, [req[r] EXCEPT !.pc = "write", !.seen = live,
                                  !.todo = Stages(DOMAIN req[r].rest)])
     ELSE End(r)
  /\ UNCHANGED <<live, Table, history, left>>

\* Three attempts, with a pause after each
RecordReverted(r) ==
  /\ At(r, "revert", "record")
  /\ LET s == req[r].sug
     IN  \E db \in Call :
           /\ Goes(db)
           /\ Become("reverted", s, {"applied"}, db)
           /\ torn' = (torn \/ ~Noticed(s, {"applied"}, db))
           /\ IF Updated(s, {"applied"}, db) THEN GoOn(r, [req[r] EXCEPT !.pc = "reopen"])
              ELSE IF req[r].tries < 2 THEN Await(r, [req[r] EXCEPT !.tries = @ + 1])
              ELSE End(r)
  /\ UNCHANGED <<live, audit, offered, before, muddled, late>>

\* The fix is pending again in a suggestion whose id is made of the reverted one's
Reopen(r) ==
  /\ At(r, "revert", "reopen")
  /\ LET s == req[r].sug
     IN  IF \E t \in Sug : Known(t) /\ Get(t).reopens = s THEN UNCHANGED <<row, cache, torn, left>>
         ELSE \E db \in Call :
                /\ Goes(db)
                /\ Create([Child(s, req[r].patch) EXCEPT !.reopens = s], db)
  /\ End(r)
  /\ UNCHANGED <<live, audit, offered, before, muddled, late>>

-----------------------------------------------------------------------------
(* Regenerate one field.                                                   *)

StartRegenerate(r) ==
  /\ Ask(r)
  /\ \E s \in {x \in Sug : Known(x)} :
       /\ Get(s).status = "pending"
       /\ \E f \in DOMAIN Get(s).patch :
            LET patch == Get(s).patch
            IN  Await(r, [Idle EXCEPT !.op = "regenerate", !.pc = "generate", !.sug = s,
                            !.asked = {f}, !.rest = Restrict(patch, DOMAIN patch \ {f})])
  /\ UNCHANGED <<live, Table, history>>

\* The model has nothing for the field
NothingGenerated(r) ==
  /\ req[r].op \in {"regenerate", "audit"} /\ At(r, req[r].op, "generate")
  /\ End(r)
  /\ UNCHANGED <<live, Table, history, left>>

Replace(r) ==
  /\ At(r, "regenerate", "generate")
  /\ \E db \in Call :
       /\ Goes(db)
       /\ Create(Child(req[r].sug, [f \in req[r].asked |-> Fix(Free)]), db)
  /\ GoOn(r, [req[r] EXCEPT !.made = {Free},
                            !.pc = IF req[r].rest = <<>> THEN "supersede" ELSE "carry"])
  /\ UNCHANGED <<live, audit, offered, before, muddled, late>>

CarryForward(r) ==
  /\ At(r, "regenerate", "carry")
  /\ \E db \in Call : Goes(db) /\ Create(Child(req[r].sug, req[r].rest), db)
  /\ GoOn(r, [req[r] EXCEPT !.made = @ \cup {Free}, !.pc = "supersede"])
  /\ UNCHANGED <<live, audit, offered, before, muddled, late>>

SupersedeSource(r) ==
  /\ At(r, "regenerate", "supersede")
  /\ LET s == req[r].sug
     IN  \E db \in Call :
           /\ Goes(db)
           /\ Become("superseded", s, {"pending"}, db)
           /\ torn' = (torn \/ ~Noticed(s, {"pending"}, db))
           /\ IF Updated(s, {"pending"}, db) THEN End(r)
              ELSE GoOn(r, [req[r] EXCEPT !.pc = "undo"])
  /\ UNCHANGED <<live, audit, offered, before, muddled, late>>

\* The source could not be superseded: its replacements are
UndoChild(r) ==
  /\ At(r, "regenerate", "undo")
  /\ \E c \in req[r].made, db \in Call :
       /\ Goes(db)
       /\ Become("superseded", c, {"pending"}, db)
       /\ torn' = (torn \/ db # "ok")
       /\ IF req[r].made = {c} THEN End(r)
          ELSE GoOn(r, [req[r] EXCEPT !.made = @ \ {c}])
  /\ UNCHANGED <<live, audit, offered, before, muddled, late>>

-----------------------------------------------------------------------------
(* A new audit.                                                            *)

StartAudit(r) ==
  /\ Ask(r)
  /\ \A q \in Request : req[q].op # "audit"    \* bound
  /\ \E a \in Audit :
       /\ audit[a] = Absent /\ \A b \in Audit : b < a => audit[b] # Absent
       /\ Await(r, [Idle EXCEPT !.op = "audit", !.pc = "generate", !.sug = a])
  /\ UNCHANGED <<live, Table, history>>

\* A raise before the audit was stored
SaveAudit(r) ==
  /\ At(r, "audit", "generate")
  /\ \E ready \in BOOLEAN, db \in Call :
       /\ Goes(db)
       /\ audit' = IF db = "fails" THEN audit
                   ELSE [audit EXCEPT ![req[r].sug] = [status |-> "pending", ready |-> ready]]
       /\ IF db = "ok" THEN GoOn(r, [req[r] EXCEPT !.pc = "children"]) ELSE End(r)
  /\ UNCHANGED <<live, row, cache, history>>

\* Mutant: what was pending is superseded although the model failed
AfterChildren_Always(r) == "withdraw"

AfterChildren(r) == IF audit[req[r].sug].ready THEN "withdraw" ELSE "finish"

SaveChildren(r) ==
  /\ At(r, "audit", "children") /\ Room
  /\ \E fields \in Proposals, db \in Call :
       /\ Goes(db)
       /\ IF db = "fails" THEN UNCHANGED <<row, offered>>
          ELSE /\ row' = [row EXCEPT ![Free] =
                    [status |-> "pending", patch |-> [f \in fields |-> Fix(Free)],
                     previous |-> Absent, root |-> Free, audit |-> req[r].sug,
                     reopens |-> 0, by |-> 0]]
               /\ offered' = [offered EXCEPT ![Free] = fields]
       /\ GoOn(r, [req[r] EXCEPT !.pc = IF db = "ok" THEN AfterChildren(r) ELSE "error"])
  /\ UNCHANGED <<live, cache, audit, before, muddled, late, torn>>

Older(s, a) == row[s] # Absent /\ row[s].status = "pending" /\ row[s].audit # a

\* The cache does not hear of it
SupersedePending(r) ==
  /\ At(r, "audit", "withdraw")
  /\ \E db \in Call :
       /\ Goes(db)
       /\ row' = IF db = "fails" THEN row
                 ELSE [s \in Sug |-> IF Older(s, req[r].sug)
                       THEN [row[s] EXCEPT !.status = "superseded", !.by = req[r].sug]
                       ELSE row[s]]
       /\ GoOn(r, [req[r] EXCEPT !.pc = IF db = "ok" THEN "finish" ELSE "error"])
  /\ UNCHANGED <<live, cache, audit, history>>

\* update_product_intelligence_audit_status
SetAuditStatus(a, status, db) ==
  audit' = IF db = "fails" THEN audit ELSE [audit EXCEPT ![a].status = status]

\* Mutant: the status of older versions
FinalStatus_Older(a) == "succeeded"

FinalStatus(a) == IF audit[a].ready THEN "success" ELSE "needs_attention"

FinishAudit(r) ==
  /\ At(r, "audit", "finish")
  /\ LET a == req[r].sug
     IN  \E db \in Call :
           /\ Goes(db)
           /\ SetAuditStatus(a, FinalStatus(a), db)
           /\ IF db = "ok" THEN End(r) ELSE GoOn(r, [req[r] EXCEPT !.pc = "error"])
  /\ UNCHANGED <<live, row, cache, history>>

AuditFails(r) ==
  /\ At(r, "audit", "error")
  /\ \E db \in Call : Goes(db) /\ SetAuditStatus(req[r].sug, "error", db)
  /\ End(r)
  /\ UNCHANGED <<live, row, cache, history>>

-----------------------------------------------------------------------------
MerchantEdits ==
  /\ turn = Nobody /\ Counted("edits")
  /\ \E f \in Edited : live' = [live EXCEPT ![f] = <<"edit", left["edits"]>>]
  /\ UNCHANGED <<Table, req, turn, history>>

\* The process dies, with its requests and what was only cached
Restart ==
  /\ Counted("crashes")
  /\ req' = [r \in Request |-> Idle] /\ turn' = Nobody
  /\ cache' = [s \in Sug |-> Absent]
  /\ torn' = (torn \/ turn # Nobody)
  /\ UNCHANGED <<live, row, audit, offered, before, muddled, late>>

\* The first audit has been made; the merchant looks at its fixes
Init ==
  /\ live \in Shops
  /\ \E fields \in Proposals :
       /\ row = [s \in Sug |-> IF s # 1 THEN Absent ELSE
            [status |-> "pending", patch |-> [f \in fields |-> Fix(1)], previous |-> Absent,
             root |-> 1, audit |-> 1, reopens |-> 0, by |-> 0]]
       /\ offered = [s \in Sug |-> IF s = 1 THEN fields ELSE {}]
  /\ cache = [s \in Sug |-> Absent]
  /\ audit = [a \in Audit |-> IF a = 1 THEN [status |-> "success", ready |-> TRUE] ELSE Absent]
  /\ req = [r \in Request |-> Idle] /\ turn = Nobody
  /\ before = [s \in Sug |-> <<>>]
  /\ muddled = {} /\ late = {} /\ torn = FALSE
  /\ left \in Budgets

ApplyStep(r) ==
  \/ StartApply(r) \/ StartBulk(r) \/ StartReviewed(r) \/ CheckReview(r)
  \/ LoadSuggestion(r) \/ ReadShop(r) \/ RecordApplied(r) \/ KeepRest(r)
WriteStep(r) == WriteShop(r) \/ WriteRefused(r) \/ WriteRaises(r)
RevertStep(r) == StartRevert(r) \/ CheckDrift(r) \/ RecordReverted(r) \/ Reopen(r)
RegenerateStep(r) ==
  \/ StartRegenerate(r) \/ NothingGenerated(r) \/ Replace(r) \/ CarryForward(r)
  \/ SupersedeSource(r) \/ UndoChild(r)
AuditStep(r) ==
  \/ StartAudit(r) \/ SaveAudit(r) \/ SaveChildren(r) \/ SupersedePending(r)
  \/ FinishAudit(r) \/ AuditFails(r)

Next ==
  \/ \E r \in Request : \/ ApplyStep(r) \/ WriteStep(r) \/ RevertStep(r)
                        \/ RegenerateStep(r) \/ AuditStep(r)
  \/ MerchantEdits \/ Restart

Spec == Init /\ [][Next]_vars

-----------------------------------------------------------------------------
Operation == {"none", "apply", "revert", "regenerate", "audit"}
Place == {"idle", "review", "load", "read", "check", "write", "record", "rest", "reopen",
          "generate", "carry", "supersede", "undo", "children", "withdraw", "finish", "error"}

IsPatch(p) == \E fields \in SUBSET Field : p \in [fields -> Value]
IsSuggestion(x) ==
  /\ x \in [status : Status, patch : {x.patch}, previous : {x.previous}, root : Sug,
            audit : Audit, reopens : Sug \cup {0}, by : Audit \cup {0}]
  /\ IsPatch(x.patch) /\ (x.previous # Absent => IsPatch(x.previous))
IsCoroutine(x) ==
  /\ x \in [op : Operation, pc : Place, sug : Sug \cup Audit \cup {0},
            asked : SUBSET Field, patch : {x.patch}, rest : {x.rest}, seen : {x.seen},
            todo : SUBSET (1..3), made : SUBSET Sug, tries : 0..2, queue : Seq(Sug)]
  /\ IsPatch(x.patch) /\ IsPatch(x.rest) /\ IsPatch(x.seen)

TypeOK ==
  /\ live \in [Field -> Value]
  /\ \A t \in {row, cache} : DOMAIN t = Sug /\ \A s \in Sug : t[s] # Absent => IsSuggestion(t[s])
  /\ audit \in [Audit -> AuditRow \cup {Absent}]
  /\ DOMAIN req = Request /\ \A r \in Request : IsCoroutine(req[r])
  /\ turn \in Request \cup {Nobody}
  /\ offered \in [Sug -> SUBSET Field]
  /\ DOMAIN before = Sug /\ \A s \in Sug : IsPatch(before[s])
  /\ muddled \subseteq Sug /\ late \subseteq Sug /\ torn \in BOOLEAN
  /\ left \in [{"asks", "edits", "faults", "crashes"} -> Nat]

Settled == turn = Nobody /\ ~torn

\* The suggestions of a fix that stand for one of its fields
Standing(root, f) ==
  {s \in Sug : /\ row[s] # Absent /\ row[s].root = root /\ f \in DOMAIN row[s].patch
               /\ row[s].status \in {"pending", "applied"}}
\* A newer audit withdrew it
Withdrawn(root, f) ==
  \E s \in Sug : row[s] # Absent /\ row[s].root = root /\ f \in DOMAIN row[s].patch /\ row[s].by # 0

\* However applies, reverts and regenerations of a fix overlap, each of its fields stays
\* applied or can be applied, until a newer audit withdraws it.  Nothing is claimed once
\* `torn' is set: by a crash that cut a request between two awaits (a revert cut before the
\* fix is reopened loses it), by a suggestion that only the cache kept, by a mark of which
\* the request did not learn, or by replacements that could not be undone
NoFixLost ==
  Settled => \A s \in Sug : \A f \in offered[s] : Standing(s, f) # {} \/ Withdrawn(s, f)

\* and only once, unless an apply came to its end after another request had the fix;
\* again as long as nothing is torn
NoFixDoubled ==
  Settled => \A s \in Sug \ late : \A f \in offered[s] : Cardinality(Standing(s, f)) <= 1

\* A successful audit has taken the place of everything that was pending, and an audit
\* whose model failed has taken nobody's
AuditReplaces ==
  [][\A a \in Audit :
       /\ audit'[a] # audit[a] /\ audit'[a] # Absent /\ audit'[a].status = "success" =>
            \A s \in Sug : row'[s] # Absent /\ row'[s].status = "pending" => row'[s].audit = a
       /\ \A s \in Sug : row'[s] # Absent /\ row'[s].by = a /\ row'[s] # row[s]
            /\ row'[s].status = "superseded" => audit[a].ready /\ row[s].audit # a]_vars

\* A step in which Shopify carries out the revert of some fields
Reverts(r, fields) ==
  /\ req[r].op = "revert" /\ req[r].pc = "write"
  /\ req'[r] # req[r] /\ left' = left
  /\ fields = Stage[NextStage(r)] \cap DOMAIN req[r].rest

\* The SEO field beside the only one that is given back
Beside(fields) == IF Cardinality(fields \cap Scalar) = 1 THEN Scalar \ fields ELSE {}

\* A revert gives each field the value it had before the fix was written there, and
\* takes back only values that the fix had put there; unless the field changed while the
\* revert was on its way, or the fix was written twice, by requests that overlapped, or
\* over a change nobody had read.  No other field changes but one: the SEO field beside
\* the only one that is given back is cleared, whatever the shop held there
RevertRestores ==
  [][\A r \in Request, fields \in SUBSET Field : Reverts(r, fields) =>
       /\ \A f \in fields :
            /\ live[f] = req[r].seen[f] => live[f] = req[r].patch[f]
            /\ f \in DOMAIN before[req[r].sug] =>
                 live'[f] = before[req[r].sug][f] \/ req[r].sug \in muddled
       /\ \A f \in Beside(fields) : live'[f] = Unset
       /\ \A f \in Field \ (fields \cup Beside(fields)) : live'[f] = live[f]]_vars
=============================================================================
