--------------------------- MODULE ReviewSession ---------------------------
(***************************************************************************)
(* The review of one product: its draft, the mutation plan built from it,  *)
(* and the edit session in which the merchant changes the product before   *)
(* it is approved.                                                         *)
(*                                                                         *)
(* Every edit that changes content checks the SKUs with Shopify before it  *)
(* is saved.  A request that waits holds the session it read; what it      *)
(* saves replaces the stored session.                                      *)
(***************************************************************************)
EXTENDS OptionEdits

CONSTANTS
  Client,      \* requests that can be in flight at once
  Reviews,     \* what is reviewed: [product, live, left]
  Updates,     \* products a draft update may save
  TakenSkus,   \* SKUs of other products of the shop
  EditsOf(_)   \* the edits the merchant may try on a session, as a sequence

\* Only what is live has identities of the shop: one for each of its variants
ASSUME ProductsAssumption ==
  /\ \A product \in Updates \cup {review.product : review \in Reviews} : Imported(product)
  /\ \A review \in Reviews : Identified(Product(review.live))

VARIABLES
  draft,    \* [revision, product]
  live,     \* the live snapshot
  plan,     \* the latest plan: [revision, item, source], or Absent; source is the
            \* product its rows were made from
  session,  \* the latest edit session, or NoSession
  request,  \* per client, what a waiting request will do
  payload,  \* what approval froze, or Absent
  left      \* bound: [sessions, edits, turns] that may still happen.  A turn is a plan
            \* built, a draft update, an undo, redo or reset, a selection change, a
            \* discard, or a request that is cut off.

vars == <<draft, live, plan, session, request, payload, left>>

NoSession == [status |-> "none"]
Idle == [kind |-> "idle"]
Counted(what) == left[what] > 0 /\ left' = [left EXCEPT ![what] = @ - 1]

Active == session.status = "active"

-----------------------------------------------------------------------------
(* The working copy.                                                       *)

\* Mutant: the session does not ask Shopify about the SKUs
Preflight_Offline(product, item) == ItemOf(live, InferDimensions(product), item, {})

\* Recompute the item from the product being edited
Preflight(product, item) == ItemOf(live, InferDimensions(product), item, TakenSkus)

FieldErrors(item) == IF item.intent = "exclude" THEN {} ELSE item.blockers

\* What the merchant has chosen of an item, and an item with that choice
Selection(item) ==
  [selected |-> item.selected, intent |-> item.intent,
   included |-> {r.id : r \in {t \in item.rows : t.included}}]
SetSelection(item, choice) ==
  [item EXCEPT !.selected = choice.selected, !.intent = choice.intent,
               !.rows = {[r EXCEPT !.included = r.id \in choice.included] : r \in @}]

State(product, item) == [product |-> product, item |-> item]

\* Mutant: what was undone stays in the history
Recorded_Kept(s, entry) ==
  [s EXCEPT !.history = Append(@, entry), !.cursor = Len(s.history) + 1]

\* A new edit drops what was undone
Recorded(s, entry) ==
  LET history == Append(SubSeq(s.history, 1, s.cursor), entry)
  IN  [s EXCEPT !.history = history, !.cursor = Len(history)]

At(s, state) == [s EXCEPT !.product = state.product, !.item = state.item]

\* An edited session as it is saved once Shopify has answered
SettledWith(s, item) ==
  [s EXCEPT !.product = InferDimensions(@), !.item = item,
            !.errors = FieldErrors(item), !.edit = @ + 1]
Settled(s) == SettledWith(s, Preflight(s.product, s.item))

Refresh(s, product, proposed, renamed) ==
  [ReviewItem(live, product, proposed, s.item.blockers, s.item, renamed)
     EXCEPT !.selected = s.item.selected]

Entry(edit, s, product, item) ==
  [edit |-> edit, before |-> State(s.product, s.item), after |-> State(product, item)]

Renaming(edit) ==
  IF edit.action = "rename" THEN [name |-> edit.name, from |-> edit.from, to |-> edit.to]
  ELSE NoRename

HasRow(item, name) == \E r \in item.rows : r.scope = "option" /\ r.subject = name

EditOption(s, edit) ==
  LET product == OptionEdit(s.product, edit)
      proposed == OptionEdit(s.item.proposed, edit)
      item == Refresh(s, product, proposed, Renaming(edit))
  IN  IF product = Refused \/ proposed = Refused \/ ~HasRow(s.item, edit.name) THEN Refused
      ELSE At([Recorded(s, Entry(edit, s, product, item)) EXCEPT
                 !.optionBase = IF @ = Absent THEN State(s.product, s.item) ELSE @,
                 !.touched = @ \cup {edit.name}],
              State(product, item))

EditStructure(s, edit) ==
  LET product == StructureEdit(s.product, live, edit)
      item == Refresh(s, product, s.item.proposed, NoRename)
  IN  IF product = Refused THEN Refused
      ELSE At(Recorded(s, Entry(edit, s, product, item)), State(product, item))

EditCell(s, edit) ==
  LET product == CellEdit(s.product, edit)
      proposed == IF edit.index = 0 THEN CellEdit(s.item.proposed, edit) ELSE s.item.proposed
      item == Refresh(s, product, proposed, NoRename)
  IN  IF product = Refused THEN Refused
      ELSE At(Recorded(s, Entry(edit, s, product, item)), State(product, item))

\* Entry i edits another option, and no later entry took that edit back
Remains(s, i, name) ==
  LET edit == s.history[i].edit
  IN  /\ edit.kind = "option" /\ edit.name # name
      /\ \A j \in (i + 1)..s.cursor :
           s.history[j].edit.kind = "option_revert" => s.history[j].edit.name # edit.name

\* Entry i edits its option again; an option without a row is left alone
Repeat(s, i, state) ==
  LET edit == s.history[i].edit
      product == OptionEdit(state.product, edit)
      proposed == OptionEdit(state.item.proposed, edit)
      item == Refresh([s EXCEPT !.item = state.item], product, proposed, Renaming(edit))
  IN  IF state = Refused THEN Refused
      ELSE IF ~HasRow(state.item, edit.name) THEN state
      ELSE IF product = Refused \/ proposed = Refused THEN Refused
      ELSE State(product, item)

\* Undo the edits of one option: back to before any option edit, then the edits of the
\* other options again
RevertOption(s, name) ==
  LET again[i \in 0..s.cursor] ==
        IF i = 0 THEN s.optionBase
        ELSE IF Remains(s, i, name) THEN Repeat(s, i, again[i - 1]) ELSE again[i - 1]
      reverted == again[s.cursor]
      after == State(reverted.product, SetSelection(reverted.item, Selection(s.item)))
  IN  IF name \notin s.touched THEN s
      ELSE IF reverted = Refused THEN Refused
      ELSE At(Recorded(s, [edit |-> [kind |-> "option_revert", name |-> name],
                           before |-> State(s.product, s.item), after |-> after]), after)

\* Mutant: undo leaves the product and restores the item only
Replayed_ItemOnly(state, entry, found) ==
  IF entry.edit.kind = "selection"
  THEN State(state.product, SetSelection(state.item, found))
  ELSE State(state.product, found.item)

\* An entry puts back the product and item it found, or only the choice it changed
Replayed(state, entry, found) ==
  IF entry.edit.kind = "selection"
  THEN State(state.product, SetSelection(state.item, found)) ELSE found

Moved(s, state, cursor) == At([s EXCEPT !.cursor = cursor], state)

Undone(s) ==
  LET entry == s.history[s.cursor]
  IN  IF s.cursor = 0 THEN Refused
      ELSE Moved(s, Replayed(State(s.product, s.item), entry, entry.before), s.cursor - 1)
Redone(s) ==
  LET entry == s.history[s.cursor + 1]
  IN  IF s.cursor = Len(s.history) THEN Refused
      ELSE Moved(s, Replayed(State(s.product, s.item), entry, entry.after), s.cursor + 1)

\* Every entry undone, the latest first
WasReset(s) ==
  LET back[n \in 0..s.cursor] ==
        IF n = 0 THEN State(s.product, s.item)
        ELSE LET entry == s.history[s.cursor - n + 1]
             IN  Replayed(back[n - 1], entry, entry.before)
  IN  [Moved(s, back[s.cursor], 0) EXCEPT
         !.history = <<>>, !.optionBase = Absent, !.touched = {}]

Edited(s, edit) ==
  CASE edit.kind = "option" -> EditOption(s, edit)
    [] edit.kind = "structure" -> EditStructure(s, edit)
    [] edit.kind = "cell" -> EditCell(s, edit)
    [] edit.kind = "option_revert" -> RevertOption(s, edit.name)
    [] OTHER -> Refused

\* Choosing rows needs no look at Shopify
Selected(s, choice) ==
  LET item == SetSelection(s.item, choice)
  IN  [Recorded(s, [edit |-> [kind |-> "selection"],
                    before |-> Selection(s.item), after |-> choice]) EXCEPT
         !.item = item, !.errors = FieldErrors(item), !.edit = @ + 1]

-----------------------------------------------------------------------------
(* The plan.                                                               *)

\* Dimensions found by position are saved to the draft, as a revision of its own.  So are
\* positions that have no name yet, unless the draft holds them already: either may be.
Corrections(d) ==
  LET product == InferDimensions(d.product)
      next == [revision |-> d.revision + 1, product |-> product]
  IN  IF product # d.product THEN {next}
      ELSE IF product.names = <<>> /\ Highest(product) > 0 THEN {d, next} ELSE {d}

NewPlan(d) ==
  [revision |-> d.revision, source |-> d.product,
   item |-> PlanItemOf(live, d.product, IF plan = Absent THEN Absent ELSE plan.item, TakenSkus)]

\* Mutant: a new plan starts from its own selection
PreserveSelection_Fresh(item, old) == item

PreserveSelection(item, old) ==
  LET chosen == item.operation \in {"create", "update"} /\ old.selected
      Stays(r) == /\ chosen /\ r.disposition = "applicable"
                  /\ r.required \/ r.id \in Selection(old).included
  IN  [item EXCEPT !.intent = old.intent, !.selected = chosen,
                   !.rows = {[r EXCEPT !.included = Stays(r)] : r \in @}]

\* The plan an applied session leaves: its option edits count, and its selection
AppliedItem(item, s) ==
  LET edited == ReviewItem(live, s.product, s.item.proposed, s.item.blockers, s.item, NoRename)
  IN  PreserveSelection(IF s.touched = {} THEN item ELSE edited, s.item)

\* Mutant: any draft one revision ahead is taken for this session's own
IsExpectedPartialApply_AnyProduct(s, d) == s.checkpoint # Absent /\ d.revision = s.base + 1

IsExpectedPartialApply(s, d) ==
  /\ s.checkpoint # Absent
  /\ d.revision = s.base + 1
  /\ s.checkpoint = s.product /\ d.product = s.product

-----------------------------------------------------------------------------
NoPlan == plan = Absent

Init ==
  /\ \E review \in Reviews :
       /\ draft = [revision |-> 1, product |-> review.product]
       /\ live = review.live
       /\ left = review.left
  /\ plan = Absent /\ session = NoSession /\ payload = Absent
  /\ request = [c \in Client |-> Idle]

\* create_mutation_plan
BuildPlan ==
  /\ Counted("turns")
  /\ draft' \in Corrections(draft)
  /\ plan' = NewPlan(draft')
  /\ UNCHANGED <<live, session, request, payload>>

\* update_product_draft: the merchant edits the draft outside of the review
UpdateDraft ==
  /\ ~NoPlan /\ Counted("turns")
  /\ \E product \in Updates \ {draft.product} :
       draft' = [revision |-> draft.revision + 1, product |-> product]
  /\ UNCHANGED <<live, plan, session, request, payload>>

CreateSession ==
  /\ ~NoPlan /\ ~Active /\ Counted("sessions")
  /\ session' = [status |-> "active", base |-> draft.revision, edit |-> 1,
                 product |-> draft.product, item |-> plan.item,
                 history |-> <<>>, cursor |-> 0,
                 optionBase |-> Absent, touched |-> {}, errors |-> {},
                 checkpoint |-> Absent]
  /\ UNCHANGED <<draft, live, plan, request, payload>>

\* A request that has to ask Shopify before it can save what it computed
Wait(c, next) == request' = [request EXCEPT ![c] = next]
WaitToSave(c, result) ==
  /\ result # Refused
  /\ Wait(c, [kind |-> "save", session |-> Settled(result)])
  /\ UNCHANGED <<draft, live, plan, session, payload>>

Free(c) == Active /\ request[c] = Idle

StartEdit(c) ==
  /\ Free(c) /\ Counted("edits")
  /\ \E i \in DOMAIN EditsOf(session) :
       WaitToSave(c, Edited(session, EditsOf(session)[i]))

StartUndo(c) ==
  Free(c) /\ Counted("turns") /\ WaitToSave(c, Undone(session))
StartRedo(c) ==
  Free(c) /\ Counted("turns") /\ WaitToSave(c, Redone(session))
StartReset(c) ==
  Free(c) /\ Counted("turns") /\ WaitToSave(c, WasReset(session))

SaveEdit(c) ==
  /\ request[c].kind = "save"
  /\ session' = request[c].session
  /\ Wait(c, Idle)
  /\ UNCHANGED <<draft, live, plan, payload, left>>

\* What may be chosen: the item or not, and of its optional rows one more or less
RowChoices(item) ==
  LET able == {r \in item.rows : r.disposition = "applicable"}
      included == {r \in able : r.included}
      flip(r) == (included \ {r}) \cup ({r} \ included)
      choice(selected, intent, rows) ==
        [selected |-> selected, intent |-> intent, included |-> {r.id : r \in rows}]
  IN  {choice(FALSE, "exclude", {})}
      \cup {choice(TRUE, "include", {r \in able : r.required} \cup flip(x)) :
              x \in {r \in able : ~r.required /\ item.operation \in {"create", "update"}}}

SelectInSession(c) ==
  /\ Free(c) /\ Counted("turns")
  /\ \E choice \in RowChoices(session.item) : session' = Selected(session, choice)
  /\ UNCHANGED <<draft, live, plan, request, payload>>

\* patch_mutation_plan_selection
SelectInPlan ==
  /\ ~NoPlan /\ Counted("turns")
  /\ \E choice \in RowChoices(plan.item) :
       plan' = [plan EXCEPT !.item = SetSelection(@, choice)]
  /\ UNCHANGED <<draft, live, session, request, payload>>

Discard(c) ==
  /\ Free(c) /\ Counted("turns")
  /\ session' = [session EXCEPT !.status = "discarded"]
  /\ UNCHANGED <<draft, live, plan, request, payload>>

\* apply_review_edit_session: check, then ask Shopify about the SKUs
StartApply(c) ==
  LET resuming == IsExpectedPartialApply(session, draft)
      fresh == Preflight(session.product, session.item)
  IN  /\ Free(c)
      /\ draft.revision = session.base \/ resuming
      /\ session.errors = {}
      /\ Wait(c, [kind |-> "store", session |-> session, item |-> fresh, resuming |-> resuming])
      /\ UNCHANGED <<draft, live, plan, session, payload, left>>

\* The product still has blockers
RefuseApply(c) ==
  LET r == request[c] IN
  /\ r.kind = "store" /\ FieldErrors(r.item) # {}
  /\ session' = [r.session EXCEPT !.product = InferDimensions(@), !.item = r.item,
                                  !.errors = FieldErrors(r.item)]
  /\ Wait(c, Idle)
  /\ UNCHANGED <<draft, live, plan, payload, left>>

\* The product that is stored has its dimensions found, the session's own stays as it is
Checkpointed(r) ==
  [r.session EXCEPT !.item = r.item, !.checkpoint = InferDimensions(r.session.product)]

\* Checkpoint, then the draft
StoreDraft(c) ==
  LET r == request[c]
      s == IF r.resuming THEN r.session ELSE Checkpointed(r)
  IN  /\ r.kind = "store" /\ FieldErrors(r.item) = {}
      /\ Wait(c, [kind |-> "plan", session |-> s, resuming |-> r.resuming])
      /\ IF r.resuming THEN UNCHANGED <<session, draft>>
         ELSE /\ session' = s
              /\ draft' = [revision |-> s.base + 1, product |-> InferDimensions(s.product)]
      /\ UNCHANGED <<live, plan, payload, left>>

\* The draft is not written: the checkpoint is there and the draft is not
DraftWriteFails(c) ==
  LET r == request[c] IN
  /\ r.kind = "store" /\ FieldErrors(r.item) = {} /\ ~r.resuming
  /\ Counted("turns")
  /\ session' = Checkpointed(r)
  /\ Wait(c, Idle)
  /\ UNCHANGED <<draft, live, plan, payload>>

\* The plan, then the end of the session
FinishApply(c) ==
  LET r == request[c]
      s == r.session
      reuse == r.resuming /\ plan.revision = s.base + 1
  IN  /\ r.kind = "plan"
      /\ draft' \in IF reuse THEN {draft} ELSE Corrections(draft)
      /\ plan' = LET base == IF reuse THEN plan ELSE NewPlan(draft')
                 IN  [base EXCEPT !.item = AppliedItem(@, s),
                                  !.source = IF s.touched = {} THEN @ ELSE s.product]
      /\ session' = [s EXCEPT !.status = "applied", !.checkpoint = Absent]
      /\ Wait(c, Idle)
      /\ UNCHANGED <<live, payload, left>>

\* The API restarts, or Shopify does not answer: the request ends where it waits
RequestFails(c) ==
  /\ request[c] # Idle /\ Counted("turns")
  /\ Wait(c, Idle)
  /\ UNCHANGED <<draft, live, plan, session, payload>>

\* approve_mutation_plan
Approve ==
  /\ ~NoPlan
  /\ plan.revision = draft.revision
  /\ plan.item.selected /\ plan.item.blockers = {}
  /\ \A r \in ExecutableInventory(plan.item) : r.included /\ r.disposition = "applicable"
  /\ payload' = [product |-> ExecutionProduct(plan.item),
                 inventory |-> InventoryOperations(plan.item, live)]
  /\ UNCHANGED <<draft, live, plan, session, request, left>>

\* Bound: the review ends with its first approval
Next ==
  /\ payload = Absent
  /\ \/ BuildPlan \/ UpdateDraft \/ CreateSession \/ SelectInPlan \/ Approve
     \/ \E c \in Client :
          \/ StartEdit(c) \/ StartUndo(c) \/ StartRedo(c) \/ StartReset(c)
          \/ SaveEdit(c) \/ SelectInSession(c) \/ Discard(c)
          \/ StartApply(c) \/ RefuseApply(c) \/ StoreDraft(c) \/ DraftWriteFails(c)
          \/ FinishApply(c) \/ RequestFails(c)

Spec == Init /\ [][Next]_vars

-----------------------------------------------------------------------------
(* What approval freezes.                                                  *)

Written == payload.product
Old == Product(live)

\* productSet replaces the whole list of variants: a live variant the payload leaves
\* out is deleted.  Only a placeholder gives way to real options.
LiveVariantsKept ==
  payload # Absent =>
    \/ IsPlaceholderSchema(Old.names, Old.variants)
    \/ \A v \in Range(Old.variants) :
         Cardinality({k \in DOMAIN Written.variants : Written.variants[k].id = v.id}) = 1

\* Whatever was imported and edited, the payload names every combination once.
CombinationsUnique ==
  payload # Absent =>
    /\ \A v \in Range(Written.variants) : Combo(v, Written.names) # Absent
    /\ Injective(Combos(Written))

\* What is written to a live variant is its own live value or what the reviewed product
\* says of the same combination, never another variant's value.
ValuesStayWithTheirVariant ==
  payload # Absent =>
    \A v \in Range(Written.variants), f \in VariantFields :
      LET own == {w[f] : w \in {x \in Range(Old.variants) : x.id = v.id}}
          said == {plan.source.variants[j][f] :
                     j \in {i \in DOMAIN plan.source.variants :
                              ImportedCombo(Old, plan.source, i) = Combo(v, Written.names)}}
      IN  v[f] \in own \cup said \cup {Absent}

\* Every quantity that is written is one the reviewed product gives the same variant, and
\* a stock level Shopify accepts.
InventoryFollowsReview ==
  payload # Absent =>
    \A op \in payload.inventory :
      /\ op.quantity \in 0..MaxQuantity
      /\ \E k \in DOMAIN plan.source.variants :
           /\ op.quantity = plan.source.variants[k].quantity
           /\ ImportedCombo(Old, plan.source, k) = op.subject.combo

-----------------------------------------------------------------------------
(* What the session promises.                                              *)

Content(s) == {i \in DOMAIN s.history : s.history[i].edit.kind # "selection"}
Latest(s, i) == CHOOSE j \in Content(s) : j <= i /\ \A k \in Content(s) : k <= i => k <= j

\* Undo and redo walk one path: every edit starts from the product the edit before it
\* left, and the session holds the product its cursor is at.
HistoryIsAPath ==
  session # NoSession =>
    LET After(i) == InferDimensions(session.history[i].after.product)
        before(i) == {j \in Content(session) : j < i}
    IN  /\ \A i \in Content(session) :
             before(i) # {} => session.history[i].before.product = After(Latest(session, i - 1))
        /\ \A i \in Content(session) :
             i <= session.cursor => session.product = After(Latest(session, session.cursor))

\* With every edit undone the session holds the product of the draft again.
UndoRestoresDraft ==
  session # NoSession /\ session.cursor = 0 /\ draft.revision = session.base =>
    session.product \in {draft.product, InferDimensions(draft.product)}

\* A plan regenerated because the draft changed does not bring back what the merchant
\* left out of the one before.
SelectionSurvivesRebuild ==
  [][plan # Absent /\ session' = session /\ plan'.revision > plan.revision =>
       /\ plan.item.intent = "exclude" => ~plan'.item.selected
       /\ \A r \in plan'.item.rows, t \in plan.item.rows :
            r.id = t.id /\ ~t.included => ~r.included]_vars

\* The apply ends, and nobody has updated the draft since it stored it
Finishes(c) ==
  /\ request[c].kind = "plan" /\ request'[c] = Idle /\ plan' # plan
  /\ draft.product = InferDimensions(request[c].session.product)

\* What the merchant left out in the session, the payload of the plan that apply leaves
\* does not write: no field of the product, and no field of a variant that the row's
\* subject names alone.  Of a row whose subject names no variant of the payload any more,
\* or several, nothing is claimed: the payload is then built without it.
LeftOutStaysOut ==
  [][\A c \in Client : Finishes(c) =>
       LET item == plan'.item
           product == ExecutionProduct(item)
       IN  \A t \in request[c].session.item.rows :
             t.disposition = "applicable" /\ ~t.required /\ ~t.included =>
               /\ t.scope = "product" /\ t.field \in ProductFields =>
                    product.fields[t.field] = Old.fields[t.field]
               /\ t.scope = "variant" /\ Cardinality(Targets(product, t.subject)) = 1 =>
                    \A k \in Targets(product, t.subject) :
                      product.variants[k][t.field] = Absent]_vars

\* A session ends as applied only when the draft holds its product, or has moved past it.
ApplyReachesDraft ==
  [][session # NoSession /\ session'.status = "applied" /\ session' # session =>
       \/ draft.revision > session'.base + 1
       \/ /\ draft.revision = session'.base + 1
          /\ draft.product \in {session'.product, InferDimensions(session'.product)}]_vars

\* The session's own checks are enough: the plan that apply leaves of the session's
\* product is not blocked.
ApplyLeavesNoBlockers ==
  [][\A c \in Client :
       /\ Finishes(c) /\ session'.item.intent = "include"
       /\ plan'.source \in {session'.product, InferDimensions(session'.product)}
       => plan'.item.blockers = {}]_vars

\* "test_apply_after_remove_never_reintroduces_omitted_variants": a variant that the
\* merchant removed in the session is not in the plan that apply leaves.
OmittedVariantsStayOut ==
  [][\A c \in Client : Finishes(c) =>
       LET s == request[c].session
           removals == {i \in Content(s) : /\ i <= s.cursor
                                           /\ "action" \in DOMAIN s.history[i].edit
                                           /\ s.history[i].edit.action \in {"remove", "variant_remove"}}
       IN  \A i \in removals :
             LET removed == Range(Combos(s.history[i].before.product)) \ Range(Combos(s.product))
             IN  removed \cap Range(Combos(plan'.item.proposed)) = {}]_vars
=============================================================================
