------------------------------ MODULE PlanItem ------------------------------
(***************************************************************************)
(* One product of a mutation plan, as operators: how the imported product  *)
(* is merged into the live Shopify product, which review rows the merchant *)
(* sees, what a regeneration keeps of the merchant's selection, and what   *)
(* is written when the plan is approved.                                   *)
(*                                                                         *)
(* Names and values are compared by their case fold, so a value stands for *)
(* its fold.  "title" stands for the required product fields and "vendor"  *)
(* for the optional ones; "sku" for the required variant fields and        *)
(* "barcode" for the optional ones.                                        *)
(***************************************************************************)
EXTENDS Integers, Sequences, FiniteSets, SequencesExt

CONSTANTS
  Absent,       \* a key that is missing, or None
  Blank,        \* the empty string
  ClassOf,      \* the option class each recognised value belongs to
  MaxOptions, MaxVariants, MaxQuantity  \* limits of the catalogue

ASSUME OptionsAssumption == MaxOptions \in Nat

ProductFields == {"title", "vendor"}
VariantFields == {"sku", "barcode"}
Missing(value) == value \in {Absent, Blank}
Get(f, key) == IF key \in DOMAIN f THEN f[key] ELSE Absent
Empty == [x \in {} |-> x]

\* A set of positions, the first one first, and what a sequence has there
InOrder(S) ==
  CHOOSE f \in [1..Cardinality(S) -> S] : \A i, j \in DOMAIN f : i < j => f[i] < f[j]
Chosen(s, S) == [i \in DOMAIN InOrder(S) |-> s[InOrder(S)[i]]]

\* The values of a sequence, each at its first place
Distinct(values) ==
  FoldLeft(LAMBDA seen, v : IF v \in Range(seen) \cup {Absent} THEN seen
                            ELSE Append(seen, v), <<>>, values)

NoVariant == [pairs |-> Empty, placed |-> Empty, sku |-> Blank, barcode |-> Absent,
              quantity |-> Absent, id |-> Absent]
NoProduct == [names |-> <<>>, values |-> Empty, variants |-> <<>>, tags |-> {},
              fields |-> [f \in ProductFields |-> Absent]]
Product(p) == IF p = Absent THEN NoProduct ELSE p

\* Whatever their values, a product and its variants have their keys
IsProduct(p) ==
  /\ DOMAIN p = DOMAIN NoProduct
  /\ p.names \in Seq(Range(p.names)) /\ p.variants \in Seq(Range(p.variants))
  /\ \A v \in Range(p.variants) : DOMAIN v = DOMAIN NoVariant

\* What is imported has no identities of the shop
Imported(p) == IsProduct(p) /\ \A v \in Range(p.variants) : v.id = Absent

\* What is live has one for each variant, options when it has variants, and no values by
\* position
Identified(p) ==
  /\ IsProduct(p) /\ Absent \notin {v.id : v \in Range(p.variants)}
  /\ p.names = <<>> => p.variants = <<>>
  /\ \A v \in Range(p.variants) : v.placed = Empty
  /\ \A j, k \in DOMAIN p.variants : p.variants[j].id = p.variants[k].id => j = k

-----------------------------------------------------------------------------
(* Option names found by position.                                         *)

Placed(v, i) == Get(v.placed, i)

\* The class every variant's i-th value belongs to; none when one is missing
ClassAt(p, i) ==
  LET classes == {Get(ClassOf, Placed(p.variants[k], i)) : k \in DOMAIN p.variants}
  IN  IF Cardinality(classes) = 1 THEN CHOOSE c \in classes : TRUE ELSE Absent

Highest(p) ==
  LET used == {i \in 1..MaxOptions :
                 \E k \in DOMAIN p.variants : ~Missing(Placed(p.variants[k], i))}
  IN  IF used = {} THEN 0 ELSE CHOOSE i \in used : \A j \in used : j <= i

\* A class names a dimension once: the first position that has it
Inferred(p) ==
  [i \in 1..Highest(p) |->
     IF \E j \in 1..(i - 1) : ClassAt(p, j) = ClassAt(p, i) THEN Absent
     ELSE ClassAt(p, i)]

InferDimensions(p) ==
  LET names == Inferred(p)
      At(n) == CHOOSE i \in DOMAIN names : names[i] = n
  IN  IF p.names # <<>> \/ names = <<>> \/ Absent \in Range(names) THEN p
      ELSE [p EXCEPT
              !.names = names,
              !.values = [n \in Range(names) |->
                 Distinct([k \in DOMAIN p.variants |-> Placed(p.variants[k], At(n))])],
              !.variants = [k \in DOMAIN p.variants |->
                 [p.variants[k] EXCEPT
                    !.pairs = [n \in Range(names) |-> Placed(p.variants[k], At(n))]]]]

-----------------------------------------------------------------------------
(* Merging the imported structure into the live one.                       *)

\* The option values a variant has: by name, or by position when it names none
Pairs(v, names) ==
  LET named == {n \in DOMAIN v.pairs : ~Missing(v.pairs[n])}
      places == {i \in DOMAIN names \cap DOMAIN v.placed : ~Missing(v.placed[i])}
  IN  IF named # {} THEN [n \in named |-> v.pairs[n]]
      ELSE [n \in {names[i] : i \in places} |->
              v.placed[CHOOSE i \in places : names[i] = n]]

Combo(v, names) ==
  IF Range(names) \subseteq DOMAIN Pairs(v, names)
  THEN [i \in DOMAIN names |-> Pairs(v, names)[names[i]]]
  ELSE Absent
Combos(p) == [k \in DOMAIN p.variants |-> Combo(p.variants[k], p.names)]

\* A variant by the names there are
Normalized(v, names) ==
  [v EXCEPT !.pairs = [n \in Range(names) \cap DOMAIN Pairs(v, names) |-> Pairs(v, names)[n]],
            !.placed = Empty]

\* What Shopify gives a product without options
DefaultTitle == [n \in {"Title"} |-> "Default Title"]
IsPlaceholder(names) == names = <<"Title">>
IsPlaceholderSchema(names, variants) ==
  /\ IsPlaceholder(names)
  /\ \A k \in DOMAIN variants : Pairs(variants[k], names) = DefaultTitle

\* Mutant: no lower bound
ValidQuantity_Signed(q) == q <= MaxQuantity

ValidQuantity(q) == q \in 0..MaxQuantity

Blocker(code, field) == [code |-> code, field |-> field]
VariantPath(k, field) == <<"variants", k, field>>

\* Names the imported product goes by: a lone variant needs none
ImportedNames(p) ==
  IF p.names = <<>> /\ Len(p.variants) = 1 THEN <<"Title">> ELSE p.names

Singleton(old, p) == Len(old.variants) = 1 /\ Len(p.variants) = 1

OptionNames(old, p) ==
  IF old.names # <<>> /\ ~IsPlaceholderSchema(old.names, old.variants)
  THEN old.names ELSE ImportedNames(p)

StructureBlockers(old, p) ==
  LET names == ImportedNames(p)
      realLive == old.names # <<>> /\ ~IsPlaceholderSchema(old.names, old.variants)
      blocked ==
        [VARIANT_OPTIONS_REQUIRED |-> Len(names) = 0,
         OPTION_LIMIT_EXCEEDED |-> Len(names) > MaxOptions,
         DUPLICATE_OPTION_NAMES |-> Cardinality(Range(names)) # Len(names),
         VARIANTS_REQUIRED_FOR_OPTIONS |->
           ~IsPlaceholder(names) /\ p.variants = <<>>
             /\ (old.variants = <<>> \/ IsPlaceholderSchema(old.names, old.variants)),
         INCOMPATIBLE_OPTION_SCHEMA |->
           realLive /\ old.names # names /\ ~Singleton(old, p)]
  IN  {Blocker(code, <<"options">>) : code \in {c \in DOMAIN blocked : blocked[c]}}

\* The imported variant with the option values it is matched by; a blank quantity says
\* nothing
Located(old, p, k) ==
  LET v == [p.variants[k] EXCEPT !.quantity = IF Missing(@) THEN Absent ELSE @]
  IN  IF Singleton(old, p) /\ old.names # <<>>
      THEN [v EXCEPT !.pairs = Pairs(old.variants[1], old.names)]
      ELSE IF IsPlaceholder(ImportedNames(p)) /\ DOMAIN Pairs(v, ImportedNames(p)) = {}
      THEN [v EXCEPT !.pairs = DefaultTitle] ELSE v

ImportedCombo(old, p, k) == Combo(Located(old, p, k), OptionNames(old, p))

\* Mutant: a combination that comes twice goes unnoticed
Repeats_Never(old, p, k) == FALSE

\* The first variant of a combination is the one that counts
Repeats(old, p, k) ==
  \E j \in 1..(k - 1) : ImportedCombo(old, p, j) = ImportedCombo(old, p, k)
Accepted(old, p) ==
  {k \in DOMAIN p.variants : ImportedCombo(old, p, k) # Absent /\ ~Repeats(old, p, k)}

VariantBlockers(old, p) ==
  LET index == DOMAIN p.variants
      bad == {k \in index : ~Missing(p.variants[k].quantity)
                              /\ ~ValidQuantity(p.variants[k].quantity)}
      partial == {k \in index : ImportedCombo(old, p, k) = Absent}
      repeated == {k \in index \ partial : Repeats(old, p, k)}
      At(code, field, ks) == {Blocker(code, VariantPath(k, field)) : k \in ks}
  IN  At("INVALID_INVENTORY_QUANTITY", "inventory_quantity", bad)
        \cup At("INCOMPLETE_VARIANT_COMBINATION", "*", partial)
        \cup At("DUPLICATE_VARIANT_COMBINATION", "*", repeated)

\* A live placeholder variant gives way to imported options
LiveMatched(old, p) ==
  IF IsPlaceholderSchema(old.names, old.variants) /\ ~IsPlaceholder(ImportedNames(p))
  THEN {}
  ELSE {k \in DOMAIN old.variants :
          /\ Combo(old.variants[k], OptionNames(old, p)) # Absent
          /\ \A j \in 1..(k - 1) : Combo(old.variants[j], OptionNames(old, p))
                                     # Combo(old.variants[k], OptionNames(old, p))}
LiveBlockers(old, p) ==
  IF IsPlaceholderSchema(old.names, old.variants) /\ ~IsPlaceholder(ImportedNames(p))
  THEN {}
  ELSE {Blocker("INVALID_LIVE_VARIANT_COMBINATIONS", <<"live", k>>) :
          k \in DOMAIN old.variants \ LiveMatched(old, p)}

\* Only what the import has replaces a live value
MergeVariant(old, new) ==
  [old EXCEPT !.pairs = new.pairs,
              !.quantity = IF new.quantity = Absent THEN @ ELSE new.quantity,
              !.sku = IF new.sku = Absent THEN @ ELSE new.sku,
              !.barcode = IF new.barcode = Absent THEN @ ELSE new.barcode]

Said(old, p, k) == Normalized(Located(old, p, k), OptionNames(old, p))
Was(old, p, k) == Normalized(old.variants[k], OptionNames(old, p))

\* Mutant: the proposal holds the imported variants only
Merged_ImportOnly(old, p, accepted) ==
  Chosen([i \in DOMAIN p.variants |-> Said(old, p, i)], accepted)

\* Live variants first, each with what the import says of it, then the new ones
Merged(old, p, accepted) ==
  LET matched == LiveMatched(old, p)
      Same(k) == {i \in accepted :
                    ImportedCombo(old, p, i) = Combo(old.variants[k], OptionNames(old, p))}
      Kept(k) == IF Same(k) = {} THEN Was(old, p, k)
                 ELSE MergeVariant(Was(old, p, k), Said(old, p, CHOOSE i \in Same(k) : TRUE))
      new == accepted \ UNION {Same(k) : k \in matched}
  IN  Chosen([k \in DOMAIN old.variants |-> Kept(k)], matched)
        \o Chosen([i \in DOMAIN p.variants |-> Said(old, p, i)], new)

MergedVariants(old, p) == Merged(old, p, Accepted(old, p))

\* Blank product fields keep the live value; tags accumulate
MergedFields(old, p) ==
  [f \in ProductFields |-> IF Missing(p.fields[f]) THEN old.fields[f] ELSE p.fields[f]]

HasStructure(p) == p.names # <<>> \/ p.variants # <<>>

\* Declared live values, then imported ones, then those only a variant has
MergedValues(old, p, variants) ==
  LET Of(q, n) == IF n \in DOMAIN q.values THEN q.values[n] ELSE <<>>
      Used(n) == [k \in DOMAIN variants |-> Get(variants[k].pairs, n)]
  IN  [n \in Range(OptionNames(old, p)) |-> Distinct(Of(old, n) \o Of(p, n) \o Used(n))]

WithVariants(old, p, variants) ==
  [names |-> IF HasStructure(p) THEN OptionNames(old, p) ELSE old.names,
   values |-> IF HasStructure(p) THEN MergedValues(old, p, variants) ELSE old.values,
   variants |-> IF HasStructure(p) THEN variants ELSE <<>>,
   tags |-> old.tags \cup p.tags,
   fields |-> MergedFields(old, p)]

Proposed(old, p) == WithVariants(old, p, MergedVariants(old, p))

MergeBlockers(old, p, new) ==
  (IF HasStructure(p)
   THEN StructureBlockers(old, p) \cup VariantBlockers(old, p) \cup LiveBlockers(old, p)
          \cup (IF Len(new.variants) > MaxVariants
                THEN {Blocker("VARIANT_LIMIT_EXCEEDED", <<"variants">>)} ELSE {})
   ELSE {})

ProductBlockers(p) ==
  LET lacking == {k \in DOMAIN p.variants : Missing(p.variants[k].sku)}
      taken == {k \in DOMAIN p.variants \ lacking :
                  \E j \in 1..(k - 1) : p.variants[j].sku = p.variants[k].sku}
  IN  {Blocker("SKU_REQUIRED", VariantPath(k, "sku")) : k \in lacking}
      \cup {Blocker("DUPLICATE_IMPORT_SKU", VariantPath(k, "sku")) : k \in taken}
      \cup (IF p.variants = <<>>
            THEN {Blocker("SELLABLE_VARIANT_REQUIRED", <<"variants">>)} ELSE {})
      \cup (IF Missing(p.fields.title)
            THEN {Blocker("TITLE_REQUIRED", <<"title">>)} ELSE {})

\* Mutant: the live variant at the same position
MatchingLive_AtPosition(v, old, p) ==
  {k \in DOMAIN old.variants \cap DOMAIN p.variants : p.variants[k] = v}

\* The live variant an imported one stands for: its combination, or the only one
MatchingLive(v, old, p) ==
  LET names == IF p.names # <<>> THEN p.names ELSE old.names
      same == {k \in DOMAIN old.variants : Combo(old.variants[k], names) = Combo(v, names)}
  IN  IF Combo(v, names) = Absent \/ names = <<>>
      THEN IF Singleton(old, p) THEN {1} ELSE {}
      ELSE IF Cardinality(same) = 1 THEN same ELSE {}

\* Required values the import leaves blank come from the live product
CarryForward(old, p) ==
  LET Sku(v) == IF Missing(v.sku) /\ MatchingLive(v, old, p) # {}
                THEN old.variants[CHOOSE k \in MatchingLive(v, old, p) : TRUE].sku
                ELSE v.sku
      Field(f) == IF f = "title" /\ Missing(p.fields[f]) THEN old.fields[f] ELSE p.fields[f]
  IN  [p EXCEPT !.fields = [f \in ProductFields |-> Field(f)],
                !.variants = [k \in DOMAIN @ |-> [@[k] EXCEPT !.sku = Sku(p.variants[k])]]]
-----------------------------------------------------------------------------
(* The review rows.                                                        *)

Row(scope, subject, field, current, proposed) ==
  [id |-> Absent, scope |-> scope, subject |-> subject, field |-> field, index |-> 0,
   current |-> current, proposed |-> proposed, original |-> proposed,
   disposition |-> "applicable", required |-> FALSE, included |-> TRUE]

\* Required rows are included whenever they can be applied, and only they decide
RequiredRow(row) ==
  \/ row.scope \in {"option", "inventory"}
  \/ row.field \in {"title", "sku"}
Identity(row) ==
  <<row.scope, row.subject, row.field,
    IF row.scope = "inventory" /\ row.subject.combo # Absent THEN 0 ELSE row.index>>
Decorate(row) ==
  [row EXCEPT !.id = Identity(row), !.required = RequiredRow(row),
              !.included = row.disposition = "applicable"]
Selectable(row) == row.disposition = "applicable" /\ ~row.required

ProductRows(old, new) ==
  LET title == IF Missing(new.fields.title) THEN old.fields.title ELSE new.fields.title
  IN  {Row("product", title, f, old.fields[f], new.fields[f]) :
         f \in {g \in ProductFields : old.fields[g] # new.fields[g]}}
      \cup (IF old.tags = new.tags THEN {}
            ELSE {Row("product", title, "tags", old.tags, new.tags)})

OptionRow(name, old, new) ==
  Row("option", name, "values", Get(old.values, name), Get(new.values, name))

OptionRows(old, new) ==
  {OptionRow(name, old, new) :
     name \in {n \in Range(new.names) \cup Range(old.names) :
                 Get(old.values, n) # Get(new.values, n)}}

\* A variant is named by its option names and values
Subject(v, names) ==
  [names |-> names, combo |-> Combo(v, names)]

\* The variants of p a row about this subject can mean
Targets(p, subject) ==
  {k \in DOMAIN p.variants :
     subject.combo # Absent /\ Subject(p.variants[k], p.names) = subject}

QuantityAt(p, subject) ==
  IF Cardinality(Targets(p, subject)) = 1
  THEN p.variants[CHOOSE k \in Targets(p, subject) : TRUE].quantity ELSE Absent

\* Of the live variants, by their combinations, the first that is like the k-th of the
\* proposal, which is itself the first of its own
FirstAlike(k, own, live) ==
  LET alike == {j \in DOMAIN live : own[k] # Absent /\ live[j] = own[k]}
  IN  {j \in alike : (\A i \in alike : j <= i) /\ \A i \in 1..(k - 1) : own[i] # own[k]}

\* The live variant that a variant of the proposal is compared with: itself, else the
\* first of its combination that no other variant of the proposal is or was before it
Counterpart(old, new, k) ==
  LET itself(i) == {j \in DOMAIN old.variants : old.variants[j].id = new.variants[i].id}
      free == {j \in DOMAIN old.variants :
                 \A i \in DOMAIN new.variants \ {k} : j \notin itself(i)}
  IN  IF itself(k) # {} THEN itself(k)
      ELSE FirstAlike(k, Combos(new), [j \in free |-> Combo(old.variants[j], new.names)])

QuantityIn(p, indices) ==
  IF indices = {} THEN Absent ELSE p.variants[CHOOSE j \in indices : TRUE].quantity

\* A row for every quantity that changes, and for the one of a live variant that the
\* proposal does not have
InventoryRows(old, new) ==
  LET rows == {Row("inventory", Subject(new.variants[k], new.names), "inventory_quantity",
                   QuantityIn(old, Counterpart(old, new, k)), new.variants[k].quantity) :
                 k \in DOMAIN new.variants}
      gone == {j \in DOMAIN old.variants : /\ new.variants # <<>> /\ old.variants[j].quantity # Absent
                 /\ \A k \in DOMAIN new.variants : j \notin Counterpart(old, new, k)}
  IN  {r \in rows : r.current # r.proposed}
      \cup {Row("inventory", Subject(old.variants[j], new.names), "inventory_quantity",
                old.variants[j].quantity, Absent) : j \in gone}

\* Imported variants that are refused, or that the proposal does not show, keep a row of
\* their own: its index tells it from the row of a variant that is written
RejectedRows(old, p, new, blockers) ==
  LET Or(a, b) == IF a # <<>> THEN a ELSE b
      names == Or(Or(new.names, old.names), p.names)
      refused(k) == \E f \in {"*", "sku", "inventory_quantity"} :
                      \E b \in blockers : b.field = VariantPath(k, f)
      shown(k) == \/ Combo(p.variants[k], names) \in Range(Combos(new)) \ {Absent}
                  \/ Singleton(old, p) /\ old.names # <<>>
      rejected == {k \in DOMAIN p.variants :
                     ~Missing(p.variants[k].quantity) /\ (refused(k) \/ ~shown(k))}
  IN  {[Row("inventory", Subject(p.variants[k], Or(p.names, names)),
            "inventory_quantity", Absent, p.variants[k].quantity)
          EXCEPT !.index = k] : k \in rejected}

\* One row per field of every source variant, keyed by its position.  What the
\* source does not say is shown from the proposal's variant at that position; a blocker
\* that names the field blocks the row.
SourceRows(p, new, blockers) ==
  LET Shown(k, f) ==
        IF p.variants[k][f] = Absent /\ k \in DOMAIN new.variants
        THEN new.variants[k][f] ELSE p.variants[k][f]
      Fields(k) == {"sku"} \cup {f \in VariantFields : Shown(k, f) # Absent}
      Source(k, f) ==
        [Row("variant", Subject(p.variants[k], p.names), f, Absent, Shown(k, f))
           EXCEPT !.index = k,
                  !.disposition = IF \/ f = "sku" /\ Missing(Shown(k, f))
                                     \/ \E b \in blockers : b.field = VariantPath(k, f)
                                  THEN "blocked" ELSE "applicable"]
  IN  UNION {{Source(k, f) : f \in Fields(k)} : k \in DOMAIN p.variants}

\* A variant of the proposal without a SKU blocks the product: the complaint goes to
\* the source row at the same position, or to a row of its own
SkuBlockers(new) ==
  {Blocker("SKU_REQUIRED", VariantPath(k, "sku")) :
     k \in {i \in DOMAIN new.variants : Missing(new.variants[i].sku)}}

RequireSku(rows, new) ==
  LET lacking == {k \in DOMAIN new.variants : Missing(new.variants[k].sku)}
      held == {r.index : r \in {s \in rows : s.scope = "variant" /\ s.field = "sku"}}
      Own(k) == [Row("variant", Subject(new.variants[k], new.names), "sku", Absent, Absent)
                   EXCEPT !.disposition = "blocked"]
  IN  {IF r.scope = "variant" /\ r.field = "sku" /\ r.index \in lacking
       THEN [r EXCEPT !.disposition = "blocked"] ELSE r : r \in rows}
      \cup {Own(k) : k \in lacking \ held}

NoRename == [name |-> Absent, from |-> Absent, to |-> Absent]

\* What the subject was called before an option value was renamed
FormerSubject(row, names, renamed) ==
  IF row.scope \in {"variant", "inventory"} /\ row.subject.combo # Absent
       /\ renamed.name \in Range(row.subject.names)
  THEN [row.subject EXCEPT !.combo =
          [i \in DOMAIN @ |-> IF names[i] = renamed.name /\ @[i] = renamed.to
                              THEN renamed.from ELSE @[i]]]
  ELSE row.subject

\* The same row of an earlier item: by its identity, else by what it is about; of two
\* the later one
Earlier(row, names, renamed, rows) ==
  LET exact == {s \in rows : s.id = row.id}
      about == {s \in rows : <<s.scope, s.subject, s.field>>
                  = <<row.scope, FormerSubject(row, names, renamed), row.field>>}
      Final(S) == {s \in S : \A t \in S : t.index <= s.index}
  IN  IF exact # {} THEN Final(exact) ELSE Final(about)

\* Mutant: a regenerated item forgets what the merchant left out
KeepSelection_Fresh(rows, names, renamed, prior) == rows

\* A row keeps the identity, the choice and the first proposal of the one before
KeepSelection(rows, names, renamed, prior) ==
  LET Former(r) == Earlier(r, names, renamed, prior)
      Keep(r) == LET s == CHOOSE t \in Former(r) : TRUE
                 IN  [r EXCEPT !.id = s.id, !.included = s.included, !.original = s.original]
  IN  {IF Former(r) = {} THEN r ELSE Keep(r) : r \in rows}

\* An option the merchant has edited keeps its row when it equals the live one again
AnchorRows(old, new, shown, prior) ==
  {Decorate(OptionRow(s.subject, old, new)) :
     s \in {t \in prior : /\ t.scope = "option" /\ t.subject \in Range(new.names)
                          /\ \A r \in shown : r.scope = "option" => r.subject # t.subject}}

HasChanges(current, new) ==
  LET old == Product(current)
  IN  ProductRows(old, new) # {} \/ OptionRows(old, new) # {}
        \/ (new.variants # <<>> /\ new.variants # old.variants)

PriorRows(prior) == IF prior = Absent THEN {} ELSE prior.rows

ReviewItem(current, p, new, found, prior, renamed) ==
  LET old == Product(current)
      blockers == found \cup SkuBlockers(new)
      rows == ProductRows(old, new) \cup OptionRows(old, new)
                \cup InventoryRows(old, new) \cup RejectedRows(old, p, new, found)
                \cup SourceRows(p, new, found)
      decorated == {Decorate(r) : r \in RequireSku(rows, new)}
      anchored == decorated \cup AnchorRows(old, new, decorated, PriorRows(prior))
      operation == IF blockers # {} THEN "blocked"
                   ELSE IF current # Absent /\ ~HasChanges(current, new) THEN "unchanged"
                   ELSE IF current = Absent THEN "create" ELSE "update"
      intent == IF prior = Absent THEN "include" ELSE prior.intent
  IN  [proposed |-> new, blockers |-> blockers, operation |-> operation,
       intent |-> intent,
       selected |-> operation \in {"create", "update"} /\ intent = "include",
       rows |-> KeepSelection(anchored, new.names, renamed, PriorRows(prior))]

\* LIVE_SKU_COLLISION: another product of the shop has the SKU
SkuCollisions(p, taken) ==
  {Blocker("LIVE_SKU_COLLISION", VariantPath(k, "sku")) :
     k \in {i \in DOMAIN p.variants : p.variants[i].sku \in taken}}

ItemBlockers(old, p, new, taken) ==
  MergeBlockers(old, p, new) \cup ProductBlockers(p) \cup SkuCollisions(p, taken)

\* The item of an imported product and of what it would make of the live one
ItemWith(current, p, new, prior, taken) ==
  ReviewItem(current, p, new, ItemBlockers(Product(current), p, new, taken), prior, NoRename)
ItemOf(current, p, prior, taken) ==
  ItemWith(current, p, Proposed(Product(current), p), prior, taken)

\* create_mutation_plan, for one product
PlanItemOf(current, imported, prior, taken) ==
  ItemOf(current, CarryForward(Product(current), InferDimensions(imported)), prior, taken)

-----------------------------------------------------------------------------
(* What approval freezes.                                                  *)

Excluded(i) == {r \in i.rows : ~r.included /\ r.disposition = "applicable"}

ExecutionProduct(i) ==
  LET out == Excluded(i)
      ProductOut(f) == {r \in out : r.scope = "product" /\ r.field = f}
      Kept(value, rows) == IF rows = {} THEN value
                           ELSE (CHOOSE r \in rows : TRUE).current
      VariantOut(k, f) ==
        {r \in out : /\ r.scope = "variant" /\ r.field = f
                     /\ Targets(i.proposed, r.subject) = {k}}
      Frozen(v, k) == [v EXCEPT !.quantity = Absent,
                                !.sku = Kept(@, VariantOut(k, "sku")),
                                !.barcode = Kept(@, VariantOut(k, "barcode"))]
  IN  [i.proposed EXCEPT
         !.fields = [f \in ProductFields |-> Kept(@[f], ProductOut(f))],
         !.tags = Kept(@, ProductOut("tags")),
         !.variants = [k \in DOMAIN @ |-> Frozen(@[k], k)]]

\* Inventory rows about one variant of the proposal, and those approval asks for: a
\* rejected row is not among them
InventoryWrites(i) ==
  {r \in i.rows : r.scope = "inventory" /\ Cardinality(Targets(i.proposed, r.subject)) = 1}
ExecutableInventory(i) == {r \in InventoryWrites(i) : r.index = 0}

InventoryOperations(i, current) ==
  LET rows == {r \in InventoryWrites(i) : r.included}
  IN  {[subject |-> r.subject, quantity |-> r.proposed, from |-> r.current,
        stocked |-> QuantityAt(Product(current), r.subject) # Absent] : r \in rows}

=============================================================================
