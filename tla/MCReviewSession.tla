-------------------------- MODULE MCReviewSession --------------------------
(* Small catalogues and the edits tried on them. *)
EXTENDS ReviewSession

Class == [s |-> "Size", m |-> "Size", red |-> "Color"]
Taken == {"taken"}

Named(names, values) ==
  [n \in Range(names) |-> values[CHOOSE i \in DOMAIN names : names[i] = n]]

Variant(names, values, sku, barcode, quantity, id) ==
  [pairs |-> Named(names, values), placed |-> Empty, sku |-> sku, barcode |-> barcode,
   quantity |-> quantity, id |-> id]

Declared(names, variants) ==
  [n \in Range(names) |-> Distinct([k \in DOMAIN variants |-> variants[k].pairs[n]])]

LiveVariant(names, values, id) ==
  Variant(names, values, "sku-" \o id, "old-" \o id, 1, id)

LiveProduct(names, variants) ==
  [names |-> names, values |-> Declared(names, variants), variants |-> variants,
   tags |-> {"live"}, fields |-> [title |-> "Old", vendor |-> "Acme"]]

Size == <<"Size">>
TwoSizes == LiveProduct(Size, <<LiveVariant(Size, <<"s">>, "v1"), LiveVariant(Size, <<"m">>, "v2")>>)
LiveProducts ==
  LET color == <<"Color">> title == <<"Title">> IN
  {Absent, TwoSizes,
   LiveProduct(title, <<LiveVariant(title, <<"Default Title">>, "v1")>>),
   LiveProduct(Size, <<LiveVariant(Size, <<"s">>, "v1")>>),
   LiveProduct(color, <<LiveVariant(color, <<"red">>, "v1")>>)}

\* A spreadsheet row says a field or leaves it out
SomeVariants(names, combos) ==
  {Variant(names, c, sku, barcode, quantity, Absent) :
     c \in combos, sku \in {Blank, "new"}, barcode \in {Absent, "code"},
     quantity \in {Absent, 2, -1}}

ImportedProduct(names, variants, vendor, title) ==
  [names |-> names, values |-> Declared(names, variants), variants |-> variants,
   tags |-> {"import"}, fields |-> [title |-> title, vendor |-> vendor]]

Positional(first, second) ==
  [pairs |-> Empty, placed |-> <<first, second>>, sku |-> "new-" \o first, barcode |-> "code",
   quantity |-> Absent, id |-> Absent]

CatalogueImports ==
  LET ones(names, combos) == {<<v>> : v \in SomeVariants(names, combos)}
      size == SomeVariants(Size, {<<"s">>, <<"m">>})
      second == {v \in size : v.sku = Blank \/ v.barcode = Absent}
      twos == {<<v, w>> : v \in size,
                 w \in {[u EXCEPT !.sku = IF @ = Blank THEN @ ELSE "two"] : u \in second}}
  IN  {ImportedProduct(<<>>, vs, vendor, "New") :
         vs \in ones(<<>>, {<<>>}), vendor \in {Blank, "Brand"}}
      \cup {ImportedProduct(<<"Title">>, vs, "Brand", Blank) :
              vs \in ones(<<"Title">>, {<<"Default Title">>})}
      \cup {ImportedProduct(Size, vs, Blank, "New") :
              vs \in ones(Size, {<<"s">>, <<"m">>, <<Blank>>}) \cup twos}
      \cup {ImportedProduct(<<>>, <<Positional("s", x), Positional("m", y)>>, Blank, "New") :
              x \in {"red", "s", "?"}, y \in {"red"}}

\* Reviewed in a session
TwoRows(vendor) ==
  ImportedProduct(Size, <<Variant(Size, <<"s">>, "one", "code", 2, Absent),
                          Variant(Size, <<"m">>, "two", Absent, Absent, Absent)>>, vendor, "New")
ByPosition == ImportedProduct(<<>>, <<Positional("s", "red"), Positional("m", "red")>>, Blank, "New")

Review(product, old, sessions, edits, turns) ==
  [product |-> product, live |-> old,
   left |-> [sessions |-> sessions, edits |-> edits, turns |-> turns]]

\* The whole catalogue built and approved; a few products edited, applied, built again
SomeReviews ==
  {Review(p, old, 0, 0, 1) : p \in CatalogueImports, old \in LiveProducts}
    \cup {Review(p, old, 1, 2, 3) : p \in {TwoRows("Brand"), ByPosition}, old \in {Absent, TwoSizes}}
    \cup {Review(TwoRows("Brand"), TwoSizes, 0, 0, 4)}
SomeUpdates == {TwoRows(Blank), ByPosition}

SomeEdits(s) ==
  LET option(action) ==
        [kind |-> "option", action |-> action, name |-> "Size", from |-> "s", to |-> "l",
         value |-> IF action = "add" THEN "l" ELSE "m", values |-> <<"m", "s">>]
      structure(action) ==
        [kind |-> "structure", action |-> action, confirmed |-> TRUE,
         name |-> IF action = "dimension_add" THEN "Fit" ELSE "Size", to |-> "Fit", value |-> "x",
         names |-> <<"Color", "Size">>, combo |-> <<"s">>, pairs |-> [Size |-> "l"]]
      cell(index, field, value) ==
        [kind |-> "cell", index |-> index, field |-> field, value |-> value]
      again == <<option("rename"), cell(2, "quantity", 3), [kind |-> "option_revert", name |-> "Size"]>>
  IN  IF s.edit > 1 THEN again
      ELSE again \o
        <<option("add"), option("remove"), option("reorder"),
          structure("dimension_add"), structure("dimension_rename"),
          structure("dimension_remove"), structure("dimension_reorder"),
          structure("variant_add"), structure("variant_remove"),
          cell(0, "title", Blank), cell(1, "sku", "taken")>>
=============================================================================
