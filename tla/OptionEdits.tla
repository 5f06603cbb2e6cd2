---------------------------- MODULE OptionEdits ----------------------------
(***************************************************************************)
(* What a merchant can do to the options and variants of one product under *)
(* review.  Every edit yields the edited product, or Refused.              *)
(***************************************************************************)
EXTENDS PlanItem

CONSTANTS Refused

Injective(s) == Cardinality(Range(s)) = Len(s)
Nonblank(values) == values # <<>> /\ Range(values) \cap {Absent, Blank} = {}

\* Every variant has one declared value of every option, and no two have the same
ValidCombinations(p) ==
  /\ \A k \in DOMAIN p.variants :
       /\ Combos(p)[k] # Absent
       /\ \A i \in DOMAIN p.names : Combos(p)[k][i] \in Range(Get(p.values, p.names[i]))
  /\ Injective(Combos(p))
  /\ Len(p.variants) <= MaxVariants

-----------------------------------------------------------------------------
(* Editing the values of one option.                                       *)

Rank(values, v) == CHOOSE i \in DOMAIN values : values[i] = v

\* Variants in the order of their option values, those of the same values as they were
Precedes(p, v, w) ==
  \E i \in DOMAIN p.names :
    /\ \A j \in 1..(i - 1) : v.pairs[p.names[j]] = w.pairs[p.names[j]]
    /\ Rank(p.values[p.names[i]], v.pairs[p.names[i]])
         < Rank(p.values[p.names[i]], w.pairs[p.names[i]])
Inserted(p, variants, v) ==
  LET after == {i \in DOMAIN variants : Precedes(p, v, variants[i])}
  IN  Chosen(variants, DOMAIN variants \ after) \o <<v>> \o Chosen(variants, after)
Sorted(p) ==
  LET sorted[n \in 0..Len(p.variants)] ==
        IF n = 0 THEN <<>> ELSE Inserted(p, sorted[n - 1], p.variants[n])
  IN  [p EXCEPT !.variants = sorted[Len(p.variants)]]

\* A new variant keeps what is safe to share: never an identity, a code or a stock level
Clone(v, name, value) ==
  [NoVariant EXCEPT !.pairs = [v.pairs EXCEPT ![name] = value], !.barcode = Blank]

\* A new value multiplies the variants: one for every combination of the other options,
\* cloned from the variant with the nearest value
Additions(p, name, value) ==
  LET others(v) == [n \in DOMAIN v.pairs \ {name} |-> v.pairs[n]]
      nearest(k) == \A j \in DOMAIN p.variants :
                      others(p.variants[j]) = others(p.variants[k]) =>
                        Rank(p.values[name], p.variants[j].pairs[name])
                          <= Rank(p.values[name], p.variants[k].pairs[name])
  IN  Chosen([k \in DOMAIN p.variants |-> Clone(p.variants[k], name, value)],
             {k \in DOMAIN p.variants : nearest(k)})

RenamedValue(p, name, from, to) ==
  LET swap(value) == IF value = from THEN to ELSE value
      swapped(v) == [v EXCEPT !.pairs[name] = swap(@)]
  IN  [p EXCEPT !.values[name] = [i \in DOMAIN @ |-> swap(@[i])],
                !.variants = [k \in DOMAIN @ |-> swapped(@[k])]]

AddedValue(p, name, value) ==
  [p EXCEPT !.values[name] = Append(@, value), !.variants = @ \o Additions(p, name, value)]

RemovedValue(p, name, value) ==
  [p EXCEPT !.values[name] = SelectSeq(@, LAMBDA v : v # value),
            !.variants = Chosen(@, {k \in DOMAIN @ : @[k].pairs[name] # value})]

OptionEdit(p, edit) ==
  LET name == edit.name
      values == p.values[name]
      allowed ==
        CASE edit.action = "rename" ->
               /\ edit.from \in Range(values) /\ edit.to # Blank
               /\ edit.to \in Range(values) => edit.to = edit.from
          [] edit.action = "add" -> edit.value # Blank /\ edit.value \notin Range(values)
          [] edit.action = "remove" -> edit.value \in Range(values) /\ Len(values) > 1
          [] edit.action = "reorder" ->
               Injective(edit.values) /\ Range(edit.values) = Range(values)
          [] OTHER -> FALSE
      edited ==
        CASE edit.action = "rename" -> RenamedValue(p, name, edit.from, edit.to)
          [] edit.action = "add" -> AddedValue(p, name, edit.value)
          [] edit.action = "remove" -> RemovedValue(p, name, edit.value)
          [] edit.action = "reorder" -> [p EXCEPT !.values[name] = edit.values]
  IN  IF /\ name \in Range(p.names) /\ Injective(p.names)
         /\ Nonblank(values) /\ Injective(values)
         /\ ValidCombinations(p)
         /\ allowed
         /\ ValidCombinations(edited)
      THEN Sorted(edited) ELSE Refused

-----------------------------------------------------------------------------
(* Editing the structure: the options themselves and single variants.      *)

\* The scaffold of a product without options is not an option
Options(p) ==
  IF IsPlaceholder(p.names) /\ Range(Get(p.values, "Title")) \subseteq {"Default Title"}
  THEN <<>> ELSE p.names

\* Variants hold exactly the options there are; none left means the scaffold
Reshaped(p, names, values, variants) ==
  [p EXCEPT !.names = names, !.values = values,
            !.variants = [k \in DOMAIN variants |->
               [variants[k] EXCEPT
                  !.placed = Empty,
                  !.pairs = IF names = <<>> THEN DefaultTitle
                            ELSE [n \in Range(names) |-> Get(@, n)]]]]

ValidStructure(p) ==
  LET skus == SelectSeq([k \in DOMAIN p.variants |-> p.variants[k].sku],
                        LAMBDA s : ~Missing(s))
  IN  /\ Len(p.names) <= MaxOptions /\ Nonblank(<<"name">> \o p.names)
      /\ Injective(p.names) /\ Injective(skus)
      /\ \A n \in Range(p.names) : Nonblank(p.values[n]) /\ Injective(p.values[n])
      /\ p.variants # <<>>
      /\ ValidCombinations(p)

Sound(p) == IF ValidStructure(p) THEN p ELSE Refused

\* A product without variants is edited as if it had a blank one
Variants(p) == IF p.variants = <<>> THEN <<NoVariant>> ELSE p.variants
With(f, key, value) == [k \in DOMAIN f \cup {key} |-> IF k = key THEN value ELSE f[k]]
Without(f, key) == [k \in DOMAIN f \ {key} |-> f[k]]

AddDimension(p, edit) ==
  LET names == Options(p)
  IN  IF \/ Blank \in {edit.name, edit.value}
         \/ Len(names) >= MaxOptions \/ edit.name \in Range(names)
      THEN Refused
      ELSE Sound(Reshaped(p, Append(names, edit.name),
                   With([n \in Range(names) |-> p.values[n]], edit.name, <<edit.value>>),
                   [k \in DOMAIN Variants(p) |->
                      [Variants(p)[k] EXCEPT !.pairs = With(@, edit.name, edit.value)]]))

RenameDimension(p, edit) ==
  LET renamed(n) == IF n = edit.name THEN edit.to ELSE n
      former(n) == IF n = edit.to THEN edit.name ELSE n
      names == [i \in DOMAIN Options(p) |-> renamed(Options(p)[i])]
  IN  IF edit.name \notin Range(Options(p)) \/ edit.to = Blank \/ ~Injective(names)
      THEN Refused
      ELSE Sound(Reshaped(p, names, [n \in Range(names) |-> p.values[former(n)]],
                   [k \in DOMAIN Variants(p) |-> [Variants(p)[k] EXCEPT
                      !.pairs = [n \in Range(names) |-> Get(@, former(n))]]]))

ReorderDimensions(p, edit) ==
  IF edit.names \in Surjection(DOMAIN Options(p), Range(Options(p))) /\ edit.names # <<>>
  THEN Sound(Reshaped(p, edit.names, p.values, Variants(p)))
  ELSE Refused

\* A dimension of a live product goes only with the merchant's word for it
RemoveDimension(p, live, edit) ==
  LET others == {i \in DOMAIN Options(p) : Options(p)[i] # edit.name}
      names == Chosen(Options(p), others)
      merged == Reshaped(p, names, Without(p.values, edit.name), Variants(p))
  IN  IF \/ edit.name \notin Range(Options(p))
         \/ live # Absent /\ ~edit.confirmed
         \/ ~Injective(Combos(merged))
      THEN Refused ELSE Sound(merged)

AddVariant(p, edit) ==
  IF DOMAIN edit.pairs # Range(Options(p)) THEN Refused
  ELSE Sound(Reshaped(p, Options(p), [n \in Range(Options(p)) |-> p.values[n]],
                      Append(Variants(p), [NoVariant EXCEPT !.pairs = edit.pairs])))

\* So does a live variant; the last variant stays
RemoveVariant(p, live, edit) ==
  LET names == Options(p)
      hits == {k \in DOMAIN p.variants : Combo(p.variants[k], names) = edit.combo}
      isLive == edit.combo \in Range(Combos(Product(live)))
  IN  IF \/ Len(p.variants) <= 1 \/ hits = {}
         \/ isLive /\ ~edit.confirmed
      THEN Refused
      ELSE Sound(Reshaped(p, names, [n \in Range(names) |-> p.values[n]],
                   RemoveAt(p.variants, CHOOSE k \in hits : \A j \in hits : k <= j)))

StructureEdit(p, live, edit) ==
  CASE edit.action = "dimension_add" -> AddDimension(p, edit)
    [] edit.action = "dimension_rename" -> RenameDimension(p, edit)
    [] edit.action = "dimension_reorder" -> ReorderDimensions(p, edit)
    [] edit.action = "dimension_remove" -> RemoveDimension(p, live, edit)
    [] edit.action = "variant_add" -> AddVariant(p, edit)
    [] edit.action = "variant_remove" -> RemoveVariant(p, live, edit)
    [] OTHER -> Refused

-----------------------------------------------------------------------------
(* Editing one cell of the preview.                                        *)

\* A product field, or a field of the variant at a position: what the review has rows for
CellEdit(p, edit) ==
  IF edit.index = 0 /\ edit.field \in ProductFields
  THEN [p EXCEPT !.fields[edit.field] = edit.value]
  ELSE IF edit.index \in DOMAIN p.variants /\ edit.field \in VariantFields \cup {"quantity"}
  THEN [p EXCEPT !.variants[edit.index][edit.field] = edit.value]
  ELSE Refused
=============================================================================
