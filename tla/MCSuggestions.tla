---------------------------- MODULE MCSuggestions ----------------------------
EXTENDS Suggestions, TLC

Allow(asks, edits, faults, crashes) ==
  [asks |-> asks, edits |-> edits, faults |-> faults, crashes |-> crashes]

SomeBudgets == {Allow(3, 1, 0, 0), Allow(3, 0, 1, 0), Allow(2, 0, 2, 1)}

ShopWith(values) == values @@ [f \in Field |-> Original]
SomeShops == {ShopWith([f \in {"seo_description"} |-> Unset])}
SomeProposals == {{"seo_title","seo_description"},{"seo_title","metafields"}, {"variant_operations"}}
SomeEdited == {"seo_title", "variant_operations"}
Symmetry == Permutations(Request)
==============================================================================
