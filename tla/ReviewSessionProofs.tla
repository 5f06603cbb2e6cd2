------------------------- MODULE ReviewSessionProofs -------------------------
(***************************************************************************)
(* What holds of every review session, whatever products are reviewed and  *)
(* whatever edits are tried on them: its history is one path of products,  *)
(* undoing all of it gives back the draft, an applied session has reached  *)
(* the draft, and what is written of it afterwards is safe.                *)
(*                                                                         *)
(* The path needs two facts of the algebra of products only: an edit that  *)
(* is not refused yields an imported product, and names found by position  *)
(* are found once.  What is written is safe because every item there is,   *)
(* stored or on its way, tells what some imported product makes of the     *)
(* live one, and the algebra says what such an item may write.             *)
(***************************************************************************)
EXTENDS ReviewSession, PlanItemProofs

-----------------------------------------------------------------------------
(* Products.                                                               *)

\* A product with its names found is an imported product, and has no more to find.
LEMMA NamesFoundOnce ==
  ASSUME NEW p, Imported(p)
  PROVE  /\ Imported(InferDimensions(p))
         /\ InferDimensions(InferDimensions(p)) = InferDimensions(p)
<1>1. DOMAIN p = {"names", "values", "variants", "tags", "fields"}
  BY ImportedIs, Keys
<1>2. InferDimensions(InferDimensions(p)) = InferDimensions(p)
  BY <1>1 DEF InferDimensions
<1> QED
  BY <1>2, InferDimensionsImported

-----------------------------------------------------------------------------
(* Sessions.                                                               *)

SessionFields ==
  {"status", "base", "edit", "product", "item", "history", "cursor", "optionBase", "touched",
   "errors", "checkpoint"}

Before(s, i) == s.history[i].before.product
After(s, i) == InferDimensions(s.history[i].after.product)

Shaped(s) ==
  /\ DOMAIN s = SessionFields
  /\ \E S : s.history \in Seq(S)
  /\ s.cursor \in 0..Len(s.history)
  /\ Imported(s.product)
  /\ \A i \in Content(s) : Imported(Before(s, i)) /\ Imported(s.history[i].after.product)
  /\ s.touched # {} => Imported(s.optionBase.product)
  /\ s.optionBase # Absent => Imported(s.optionBase.product)

\* The last edit up to an entry, and the first of all
IsLast(s, n, j) == j \in Content(s) /\ j <= n /\ \A k \in Content(s) : k <= n => k <= j
IsFirst(s, i) == i \in Content(s) /\ \A k \in Content(s) : i <= k

\* The history of s is a path, and product is where its cursor is
Traced(s, product) ==
  /\ \A i, j \in Content(s) : IsLast(s, i - 1, j) => Before(s, i) = After(s, j)
  /\ \A j \in Content(s) : IsLast(s, s.cursor, j) => product = After(s, j)
  /\ \A i \in Content(s) : IsFirst(s, i) /\ s.cursor < i =>
       product \in {Before(s, i), InferDimensions(Before(s, i))}

\* The path begins at origin
Rooted(s, product, origin) ==
  /\ \A i \in Content(s) : IsFirst(s, i) => Before(s, i) \in {origin, InferDimensions(origin)}
  /\ Content(s) = {} => product \in {origin, InferDimensions(origin)}

Lawful(s) == Shaped(s) /\ Traced(s, s.product)

\* r is s edited, with dimensions still to be found
Follows(s, r) ==
  LET product == InferDimensions(r.product)
  IN  /\ Shaped(r) /\ Traced(r, product) /\ r.status = s.status /\ r.base = s.base
      /\ \A origin : Imported(origin) /\ Rooted(s, s.product, origin) => Rooted(r, product, origin)

\* The entries of a session.
LEMMA Entries ==
  ASSUME NEW s, Shaped(s)
  PROVE  /\ Len(s.history) \in Nat /\ DOMAIN s.history = 1..Len(s.history)
         /\ s.cursor \in Nat /\ s.cursor <= Len(s.history)
         /\ Content(s) \in SUBSET (1..Len(s.history))
  BY DEF Shaped, Content

\* A session with edits has a first one.
LEMMA FirstEdit ==
  ASSUME NEW s, Shaped(s), Content(s) # {}
  PROVE  \E i \in Content(s) : IsFirst(s, i)
<1>1. Content(s) \in SUBSET Nat
  BY Entries
<1> QED
  BY <1>1, LeastMember DEF IsFirst

\* With every edit undone a session holds the product its path begins at.
LEMMA BackAtOrigin ==
  ASSUME NEW s, Shaped(s), NEW product, Traced(s, product), NEW origin, Imported(origin),
         Rooted(s, product, origin), \A i \in Content(s) : s.cursor < i
  PROVE  product \in {origin, InferDimensions(origin)}
<1>1. CASE Content(s) = {}
  BY <1>1 DEF Rooted
<1>2. CASE Content(s) # {}
  <2>1. PICK i \in Content(s) : IsFirst(s, i)
    BY <1>2, FirstEdit
  <2>2. product \in {Before(s, i), InferDimensions(Before(s, i))}
    BY <2>1 DEF Traced
  <2>3. Before(s, i) \in {origin, InferDimensions(origin)}
    BY <2>1 DEF Rooted
  <2> QED
    BY <2>2, <2>3, NamesFoundOnce
<1> QED
  BY <1>1, <1>2

\* A recorded entry follows what was done, and nothing follows it.
LEMMA RecordedEntry ==
  ASSUME NEW s, Shaped(s), NEW entry
  PROVE  LET r == Recorded(s, entry)
         IN  /\ DOMAIN r = SessionFields
             /\ \E S : r.history \in Seq(S)
             /\ r.cursor = s.cursor + 1 /\ Len(r.history) = s.cursor + 1
             /\ r.history[s.cursor + 1] = entry
             /\ \A i \in 1..s.cursor : r.history[i] = s.history[i]
             /\ \A f \in SessionFields \ {"history", "cursor"} : r[f] = s[f]
<1> DEFINE history == Append(SubSeq(s.history, 1, s.cursor), entry)
<1>1. PICK S : s.history \in Seq(S)
  BY DEF Shaped
<1>2. s.cursor \in Nat /\ s.cursor <= Len(s.history) /\ Len(s.history) \in Nat
  BY Entries
<1>3. /\ SubSeq(s.history, 1, s.cursor) \in Seq(S)
      /\ Len(SubSeq(s.history, 1, s.cursor)) = s.cursor
      /\ \A i \in 1..s.cursor : SubSeq(s.history, 1, s.cursor)[i] = s.history[i]
  BY <1>1, <1>2
<1>4. /\ history \in Seq(S \cup {entry}) /\ Len(history) = s.cursor + 1
      /\ history[s.cursor + 1] = entry
      /\ \A i \in 1..s.cursor : history[i] = s.history[i]
  <2> DEFINE past == SubSeq(s.history, 1, s.cursor)
  <2>1. past \in Seq(S \cup {entry}) /\ Len(past) = s.cursor
    BY <1>3
  <2> HIDE DEF past
  <2>2. /\ Append(past, entry) \in Seq(S \cup {entry})
        /\ Len(Append(past, entry)) = s.cursor + 1
        /\ Append(past, entry)[s.cursor + 1] = entry
        /\ \A i \in 1..s.cursor : Append(past, entry)[i] = past[i]
    BY <2>1, <1>2
  <2> QED
    BY <1>3, <2>2 DEF past
<1> HIDE DEF history
<1>5. Recorded(s, entry) = [s EXCEPT !.history = history, !.cursor = Len(history)]
  BY Zenon DEF Recorded, history
<1> QED
  BY <1>4, <1>5 DEF Shaped, SessionFields

\* The edits of a session after one more entry: those that were done, and the new one.
LEMMA EditsAfter ==
  ASSUME NEW s, Shaped(s), NEW entry, NEW r, r.history = Recorded(s, entry).history
  PROVE  /\ \A i \in 1..s.cursor : i \in Content(r) <=> i \in Content(s)
         /\ s.cursor + 1 \in Content(r) <=> entry.edit.kind # "selection"
         /\ Content(r) \subseteq 1..(s.cursor + 1)
         /\ \A i \in Content(r) : i <= s.cursor => r.history[i] = s.history[i]
<1>1. s.cursor \in Nat /\ s.cursor <= Len(s.history) /\ DOMAIN s.history = 1..Len(s.history)
      /\ Len(s.history) \in Nat
  BY Entries
<1>2. /\ DOMAIN r.history = 1..(s.cursor + 1) /\ r.history[s.cursor + 1] = entry
      /\ \A i \in 1..s.cursor : r.history[i] = s.history[i]
  BY RecordedEntry, <1>1
<1> QED
  BY <1>1, <1>2 DEF Content

\* What was the last or first edit before the new entry still is.
LEMMA LastAfter ==
  ASSUME NEW s, Shaped(s), NEW entry, NEW r, r.history = Recorded(s, entry).history
  PROVE  /\ \A n \in Nat, j \in Content(r) :
              n <= s.cursor /\ IsLast(r, n, j) => j \in Content(s) /\ IsLast(s, n, j)
         /\ \A i \in Content(r) :
              i <= s.cursor /\ IsFirst(r, i) => i \in Content(s) /\ IsFirst(s, i)
         /\ \A j \in Content(r) :
              entry.edit.kind = "selection" /\ IsLast(r, s.cursor + 1, j) =>
                j \in Content(s) /\ IsLast(s, s.cursor, j)
<1>1. /\ s.cursor \in Nat /\ Content(s) \subseteq Nat
      /\ Content(r) \subseteq 1..(s.cursor + 1)
      /\ \A i \in 1..s.cursor : i \in Content(r) <=> i \in Content(s)
      /\ s.cursor + 1 \in Content(r) <=> entry.edit.kind # "selection"
      /\ \A i \in Content(s) : 1 <= i
  BY EditsAfter, Entries
<1>2. ASSUME NEW n \in Nat, NEW j \in Content(r), n <= s.cursor, IsLast(r, n, j)
      PROVE  j \in Content(s) /\ IsLast(s, n, j)
  <2>1. j <= n /\ j \in 1..s.cursor /\ j \in Content(s)
    BY <1>1, <1>2 DEF IsLast
  <2>2. ASSUME NEW k \in Content(s), k <= n PROVE k <= j
    BY <1>1, <1>2, <2>2 DEF IsLast
  <2> QED
    BY <2>1, <2>2 DEF IsLast
<1>3. ASSUME NEW i \in Content(r), i <= s.cursor, IsFirst(r, i)
      PROVE  i \in Content(s) /\ IsFirst(s, i)
  <2>1. i \in 1..s.cursor /\ i \in Content(s)
    BY <1>1, <1>3
  <2>2. ASSUME NEW k \in Content(s) PROVE i <= k
    BY <1>1, <1>3, <2>1 DEF IsFirst
  <2> QED
    BY <2>1, <2>2 DEF IsFirst
<1>4. ASSUME NEW j \in Content(r), entry.edit.kind = "selection", IsLast(r, s.cursor + 1, j)
      PROVE  j \in Content(s) /\ IsLast(s, s.cursor, j)
  <2>1. j \in 1..s.cursor /\ IsLast(r, s.cursor, j)
    BY <1>1, <1>4 DEF IsLast
  <2> QED
    BY <2>1, <1>1, <1>2
<1> QED
  BY <1>2, <1>3, <1>4

\* A path goes on with the next edit, which starts where the session is.
LEMMA PathGoesOn ==
  ASSUME NEW s, Lawful(s), NEW entry, entry.edit.kind # "selection",
         entry.before.product = s.product, Imported(entry.after.product),
         NEW r, r.history = Recorded(s, entry).history, r.cursor = s.cursor + 1,
         NEW product, product = InferDimensions(entry.after.product)
  PROVE  /\ Traced(r, product)
         /\ \A origin : Imported(origin) /\ Rooted(s, s.product, origin) => Rooted(r, product, origin)
         /\ \A i \in Content(r) : Imported(Before(r, i)) /\ Imported(r.history[i].after.product)
<1> DEFINE c == s.cursor
<1>1. /\ Shaped(s) /\ Traced(s, s.product) /\ c \in Nat /\ Content(s) \subseteq Nat
      /\ r.history[c + 1] = entry
      /\ c + 1 \in Content(r) /\ Content(r) \subseteq 1..(c + 1)
      /\ \A i \in 1..c : i \in Content(r) <=> i \in Content(s)
      /\ \A i \in Content(r) : i <= c => r.history[i] = s.history[i]
  BY EditsAfter, Entries, RecordedEntry DEF Lawful
<1>2. /\ Before(r, c + 1) = s.product /\ After(r, c + 1) = product
      /\ \A i \in Content(r) : i <= c => Before(r, i) = Before(s, i) /\ After(r, i) = After(s, i)
  BY <1>1 DEF Before, After
<1>3. ASSUME NEW i \in Content(r), NEW j \in Content(r), IsLast(r, i - 1, j)
      PROVE  Before(r, i) = After(r, j)
  <2>1. i - 1 \in Nat /\ i - 1 <= c /\ j <= c
    BY <1>1, <1>3 DEF IsLast
  <2>2. j \in Content(s) /\ IsLast(s, i - 1, j)
    BY <1>1, <1>3, <2>1, LastAfter
  <2>3. CASE i <= c
    <3>1. i \in Content(s)
      BY <1>1, <2>3
    <3> QED
      BY <1>1, <1>2, <2>1, <2>2, <2>3, <3>1 DEF Traced
  <2>4. CASE i = c + 1
    <3>1. IsLast(s, s.cursor, j)
      BY <1>1, <2>2, <2>4
    <3> QED
      BY <1>1, <1>2, <2>1, <2>2, <2>4, <3>1 DEF Traced
  <2> QED
    BY <1>1, <2>3, <2>4
<1>4. ASSUME NEW j \in Content(r), IsLast(r, r.cursor, j) PROVE product = After(r, j)
  <2>1. j = c + 1
    BY <1>1, <1>4 DEF IsLast
  <2> QED
    BY <1>2, <2>1
<1>5. \A i \in Content(r) : ~(r.cursor < i)
  BY <1>1
<1>6. ASSUME NEW origin, Imported(origin), Rooted(s, s.product, origin) PROVE Rooted(r, product, origin)
  <2>1. ASSUME NEW i \in Content(r), IsFirst(r, i)
        PROVE  Before(r, i) \in {origin, InferDimensions(origin)}
    <3>1. CASE i <= c
      BY <1>1, <1>2, <1>6, <2>1, <3>1, LastAfter DEF Rooted
    <3>2. CASE i = c + 1
      <4>1. ASSUME NEW k \in Content(s) PROVE s.cursor < k
        <5>1. k \in Nat /\ 1 <= k
          BY <1>1, Entries
        <5>2. ~(k \in 1..c)
          BY <1>1, <2>1, <3>2 DEF IsFirst
        <5> QED
          BY <1>1, <5>1, <5>2
      <4> QED
        BY <1>1, <1>2, <1>6, <3>2, <4>1, BackAtOrigin
    <3> QED
      BY <1>1, <3>1, <3>2
  <2> QED
    BY <1>1, <2>1 DEF Rooted
<1>7. ASSUME NEW i \in Content(r)
      PROVE  Imported(Before(r, i)) /\ Imported(r.history[i].after.product)
  <2>1. CASE i <= c
    <3>1. i \in Content(s) /\ r.history[i] = s.history[i]
      BY <1>1, <2>1
    <3> QED
      BY <1>1, <3>1 DEF Shaped, Before
  <2>2. CASE i = c + 1
    BY <1>1, <1>2, <2>2 DEF Shaped
  <2> QED
    BY <1>1, <2>1, <2>2
<1> QED
  BY <1>3, <1>4, <1>5, <1>6, <1>7 DEF Traced

\* A choice of rows leaves the path alone, but for what was undone.
LEMMA PathStays ==
  ASSUME NEW s, Lawful(s), NEW entry, entry.edit.kind = "selection",
         NEW r, r.history = Recorded(s, entry).history, r.cursor = s.cursor + 1
  PROVE  /\ Traced(r, s.product)
         /\ \A origin : Imported(origin) /\ Rooted(s, s.product, origin) => Rooted(r, s.product, origin)
         /\ \A i \in Content(r) : Imported(Before(r, i)) /\ Imported(r.history[i].after.product)
<1> DEFINE c == s.cursor
<1>1. /\ Shaped(s) /\ Traced(s, s.product) /\ c \in Nat /\ Content(s) \subseteq Nat
      /\ Content(r) \subseteq 1..c
      /\ \A i \in 1..c : i \in Content(r) <=> i \in Content(s)
      /\ \A i \in Content(r) : i <= c => r.history[i] = s.history[i]
  <2>1. c + 1 \notin Content(r) /\ Content(r) \subseteq 1..(c + 1) /\ c \in Nat
    BY EditsAfter, Entries DEF Lawful
  <2>2. Content(r) \subseteq 1..c
    BY <2>1
  <2> QED
    BY <2>2, EditsAfter, Entries DEF Lawful
<1>2. \A i \in Content(r) : /\ i \in Content(s) /\ i - 1 \in Nat /\ i <= c
                            /\ Before(r, i) = Before(s, i) /\ After(r, i) = After(s, i)
                            /\ r.history[i] = s.history[i]
  BY <1>1 DEF Before, After
<1>3. ASSUME NEW i \in Content(r), NEW j \in Content(r), IsLast(r, i - 1, j)
      PROVE  Before(r, i) = After(r, j)
  <2>1. IsLast(s, i - 1, j)
    BY <1>1, <1>2, <1>3, LastAfter
  <2> QED
    BY <1>1, <1>2, <2>1 DEF Traced
<1>4. ASSUME NEW j \in Content(r), IsLast(r, r.cursor, j) PROVE s.product = After(r, j)
  <2>1. IsLast(s, s.cursor, j)
    BY <1>1, <1>4, LastAfter
  <2> QED
    BY <1>1, <1>2, <2>1 DEF Traced
<1>5. \A i \in Content(r) : ~(r.cursor < i)
  BY <1>1
<1>6. ASSUME NEW origin, Imported(origin), Rooted(s, s.product, origin)
      PROVE  Rooted(r, s.product, origin)
  <2>1. ASSUME NEW i \in Content(r), IsFirst(r, i)
        PROVE  Before(r, i) \in {origin, InferDimensions(origin)}
    BY <1>1, <1>2, <1>6, <2>1, LastAfter DEF Rooted
  <2>2. ASSUME Content(r) = {} PROVE s.product \in {origin, InferDimensions(origin)}
    <3>1. ASSUME NEW k \in Content(s) PROVE s.cursor < k
      <4>1. k \in Nat /\ 1 <= k
        BY <1>1, Entries
      <4> QED
        BY <1>1, <2>2, <4>1
    <3> QED
      BY <1>1, <1>6, <3>1, BackAtOrigin
  <2> QED
    BY <2>1, <2>2 DEF Rooted
<1>7. \A i \in Content(r) : Imported(Before(r, i)) /\ Imported(r.history[i].after.product)
  BY <1>1, <1>2 DEF Shaped
<1> QED
  BY <1>3, <1>4, <1>5, <1>6, <1>7 DEF Traced

-----------------------------------------------------------------------------
(* Edits.                                                                  *)

\* A session with one more edit follows the session that was edited.
LEMMA EntryFollows ==
  ASSUME NEW s, Lawful(s), NEW entry, entry.edit.kind # "selection",
         entry.before.product = s.product, Imported(entry.after.product),
         NEW r, DOMAIN r = SessionFields, r.history = Recorded(s, entry).history,
         r.cursor = s.cursor + 1, r.product = entry.after.product,
         r.status = s.status, r.base = s.base,
         r.touched # {} => Imported(r.optionBase.product),
         r.optionBase # Absent => Imported(r.optionBase.product)
  PROVE  Follows(s, r)
<1>1. /\ Traced(r, InferDimensions(r.product))
      /\ \A origin : Imported(origin) /\ Rooted(s, s.product, origin) =>
           Rooted(r, InferDimensions(r.product), origin)
      /\ \A i \in Content(r) : Imported(Before(r, i)) /\ Imported(r.history[i].after.product)
  BY PathGoesOn
<1>2. /\ \E S : r.history \in Seq(S)
      /\ r.cursor \in 0..Len(r.history)
  BY RecordedEntry, Entries DEF Lawful
<1> QED
  BY <1>1, <1>2 DEF Follows, Shaped

\* A recorded entry leaves the other parts of the session alone.
LEMMA RecordedRest ==
  ASSUME NEW s, Lawful(s), NEW entry, NEW state,
         NEW r, r = At(Recorded(s, entry), state), state.product = entry.after.product
  PROVE  /\ DOMAIN r = SessionFields /\ r.history = Recorded(s, entry).history
         /\ r.cursor = s.cursor + 1 /\ r.product = entry.after.product
         /\ r.status = s.status /\ r.base = s.base
         /\ r.touched = s.touched /\ r.optionBase = s.optionBase
         /\ r.touched # {} => Imported(r.optionBase.product)
         /\ r.optionBase # Absent => Imported(r.optionBase.product)
<1> DEFINE q == Recorded(s, entry)
<1>1. /\ DOMAIN q = SessionFields /\ q.cursor = s.cursor + 1
      /\ \A f \in SessionFields \ {"history", "cursor"} : q[f] = s[f]
  BY RecordedEntry DEF Lawful
<1>2. /\ q.status = s.status /\ q.base = s.base /\ q.touched = s.touched
      /\ q.optionBase = s.optionBase
  BY <1>1 DEF SessionFields
<1> HIDE DEF q
<1>3. r = [q EXCEPT !.product = state.product, !.item = state.item]
  BY Zenon DEF At, q
<1>4. /\ DOMAIN r = SessionFields /\ r.history = q.history /\ r.cursor = q.cursor
      /\ r.product = state.product /\ r.status = q.status /\ r.base = q.base
      /\ r.touched = q.touched /\ r.optionBase = q.optionBase
  BY <1>1, <1>3 DEF SessionFields
<1> QED
  BY <1>1, <1>2, <1>4 DEF q, Lawful, Shaped

\* What an entry of an edit records.
LEMMA EntryOf ==
  ASSUME NEW edit, NEW s, NEW product, NEW item
  PROVE  /\ Entry(edit, s, product, item).edit = edit
         /\ Entry(edit, s, product, item).before.product = s.product
         /\ Entry(edit, s, product, item).after.product = product
         /\ State(product, item).product = product
  BY DEF Entry, State

\* An edit of an option's values follows the session.
LEMMA EditOptionFollows ==
  ASSUME NEW s, Lawful(s), NEW edit, edit.kind = "option", EditOption(s, edit) # Refused
  PROVE  Follows(s, EditOption(s, edit))
<1> DEFINE product == OptionEdit(s.product, edit)
           proposed == OptionEdit(s.item.proposed, edit)
           item == Refresh(s, product, proposed, Renaming(edit))
           entry == Entry(edit, s, product, item)
           q == Recorded(s, entry)
           base == IF q.optionBase = Absent THEN State(s.product, s.item) ELSE q.optionBase
           marked == [q EXCEPT !.optionBase = base, !.touched = q.touched \cup {edit.name}]
           r == At(marked, State(product, item))
<1>1. /\ EditOption(s, edit) = r
      /\ product # Refused
  BY Zenon DEF EditOption
<1>2. /\ entry.edit = edit /\ entry.before.product = s.product /\ entry.after.product = product
      /\ State(product, item).product = product
      /\ State(s.product, s.item).product = s.product
  BY EntryOf
<1>3. Imported(product) /\ Imported(s.product)
  BY <1>1, OptionEditImported DEF Lawful, Shaped
<1>4. /\ DOMAIN q = SessionFields /\ q.cursor = s.cursor + 1
      /\ \A f \in SessionFields \ {"history", "cursor"} : q[f] = s[f]
  BY RecordedEntry DEF Lawful
<1> HIDE DEF product, item, entry, q
<1>5. q.status = s.status /\ q.base = s.base /\ q.optionBase = s.optionBase
  BY <1>4 DEF SessionFields
<1>6. Imported(base.product)
  BY <1>2, <1>3, <1>5 DEF Lawful, Shaped
<1> DEFINE state == State(product, item)
<1> HIDE DEF base, state
<1>7. /\ DOMAIN marked = SessionFields /\ marked.history = q.history /\ marked.cursor = q.cursor
      /\ marked.status = q.status /\ marked.base = q.base /\ marked.optionBase = base
  BY <1>4 DEF SessionFields
<1> HIDE DEF marked
<1>8. r = [marked EXCEPT !.product = state.product, !.item = state.item]
  BY Zenon DEF At, state
<1>9. /\ DOMAIN r = SessionFields /\ r.history = q.history /\ r.cursor = q.cursor
      /\ r.product = state.product /\ r.status = q.status /\ r.base = q.base
      /\ r.optionBase = base
  BY <1>7, <1>8 DEF SessionFields
<1> HIDE DEF r
<1>10. r.product = product
  BY <1>2, <1>9 DEF state
<1> QED
  BY <1>1, <1>2, <1>3, <1>4, <1>5, <1>6, <1>9, <1>10, EntryFollows DEF q

\* An edit of the structure follows the session.
LEMMA EditStructureFollows ==
  ASSUME NEW s, Lawful(s), NEW edit, edit.kind = "structure", EditStructure(s, edit) # Refused
  PROVE  Follows(s, EditStructure(s, edit))
<1> DEFINE product == StructureEdit(s.product, live, edit)
           item == Refresh(s, product, s.item.proposed, NoRename)
           entry == Entry(edit, s, product, item)
           r == At(Recorded(s, entry), State(product, item))
<1>1. EditStructure(s, edit) = r /\ product # Refused
  BY Zenon DEF EditStructure
<1>2. Imported(product)
  BY <1>1, StructureEditImported DEF Lawful, Shaped
<1> HIDE DEF product, item
<1>3. /\ entry.edit = edit /\ entry.before.product = s.product /\ entry.after.product = product
      /\ State(product, item).product = product
  BY EntryOf
<1> HIDE DEF entry
<1>4. /\ DOMAIN r = SessionFields /\ r.history = Recorded(s, entry).history
      /\ r.cursor = s.cursor + 1 /\ r.product = entry.after.product
      /\ r.status = s.status /\ r.base = s.base
      /\ r.touched # {} => Imported(r.optionBase.product)
      /\ r.optionBase # Absent => Imported(r.optionBase.product)
  BY <1>3, RecordedRest
<1> HIDE DEF r
<1> QED
  BY <1>1, <1>2, <1>3, <1>4, EntryFollows

\* An edit of a cell follows the session.
LEMMA EditCellFollows ==
  ASSUME NEW s, Lawful(s), NEW edit, edit.kind = "cell", EditCell(s, edit) # Refused
  PROVE  Follows(s, EditCell(s, edit))
<1> DEFINE product == CellEdit(s.product, edit)
           proposed == IF edit.index = 0 THEN CellEdit(s.item.proposed, edit)
                       ELSE s.item.proposed
           item == Refresh(s, product, proposed, NoRename)
           entry == Entry(edit, s, product, item)
           r == At(Recorded(s, entry), State(product, item))
<1>1. EditCell(s, edit) = r /\ product # Refused
  BY Zenon DEF EditCell
<1>2. Imported(product)
  BY <1>1, CellEditImported DEF Lawful, Shaped
<1> HIDE DEF product, item
<1>3. /\ entry.edit = edit /\ entry.before.product = s.product /\ entry.after.product = product
      /\ State(product, item).product = product
  BY EntryOf
<1> HIDE DEF entry
<1>4. /\ DOMAIN r = SessionFields /\ r.history = Recorded(s, entry).history
      /\ r.cursor = s.cursor + 1 /\ r.product = entry.after.product
      /\ r.status = s.status /\ r.base = s.base
      /\ r.touched # {} => Imported(r.optionBase.product)
      /\ r.optionBase # Absent => Imported(r.optionBase.product)
  BY <1>3, RecordedRest
<1> HIDE DEF r
<1> QED
  BY <1>1, <1>2, <1>3, <1>4, EntryFollows

\* again is how the options other than name get their edits again, after n entries
Repeating(s, name, n, again) ==
  again = [i \in 0..n |->
             IF i = 0 THEN s.optionBase
             ELSE IF Remains(s, i, name) THEN Repeat(s, i, again[i - 1]) ELSE again[i - 1]]

\* The edits can be repeated, entry after entry.
LEMMA RepeatsExist ==
  ASSUME NEW s, NEW name, NEW n \in Nat
  PROVE  \E again : Repeating(s, name, n, again)
<1> DEFINE Bad == {m \in Nat : ~ \E again : Repeating(s, name, m, again)}
<1> SUFFICES ASSUME Bad # {} PROVE FALSE
  BY Zenon
<1>1. PICK m \in Bad : \A k \in Bad : m <= k
  <2>1. Bad \in SUBSET Nat
    OBVIOUS
  <2> HIDE DEF Bad
  <2> QED
    BY <2>1, LeastMember
<1>2. CASE m = 0
  <2> DEFINE again == [i \in 0..0 |-> s.optionBase]
  <2>1. Repeating(s, name, 0, again)
    BY DEF Repeating
  <2> QED
    BY Zenon, <1>2, <2>1
<1>3. CASE m # 0
  <2>1. m - 1 \in Nat /\ m - 1 \notin Bad
    BY <1>1, <1>3
  <2>2. PICK old : Repeating(s, name, m - 1, old)
    BY Zenon, <2>1
  <2> DEFINE step(i, g) == IF i = 0 THEN s.optionBase
                           ELSE IF Remains(s, i, name) THEN Repeat(s, i, g[i - 1]) ELSE g[i - 1]
             again == [i \in 0..m |-> step(i, old)]
  <2>3. ASSUME NEW i \in 0..(m - 1) PROVE again[i] = old[i]
    <3>1. old = [j \in 0..(m - 1) |-> step(j, old)]
      BY <2>2 DEF Repeating
    <3>2. old[i] = step(i, old)
      BY <3>1
    <3>3. i \in 0..m
      OBVIOUS
    <3> QED
      BY <3>2, <3>3
  <2>4. ASSUME NEW i \in 0..m PROVE step(i, old) = step(i, again)
    <3>1. CASE i = 0
      BY <3>1
    <3>2. CASE i # 0
      <4>1. i - 1 \in 0..(m - 1)
        BY <3>2
      <4>2. again[i - 1] = old[i - 1]
        BY <2>3, <4>1
      <4> HIDE DEF again
      <4> QED
        BY <4>2
    <3> QED
      BY <3>1, <3>2
  <2>5. again = [i \in 0..m |-> step(i, again)]
    BY Zenon, <2>4
  <2>6. Repeating(s, name, m, again)
    BY <2>5 DEF Repeating
  <2> QED
    BY Zenon, <2>6
<1> QED
  BY <1>2, <1>3

\* Whatever is repeated, a product is left, or the edits do not fit any more.
LEMMA RepeatedImported ==
  ASSUME NEW s, Imported(s.optionBase.product), NEW name, NEW n \in Nat,
         NEW again, Repeating(s, name, n, again), again[n] # Refused
  PROVE  Imported(again[n].product)
<1> DEFINE Bad == {i \in 0..n : again[i] # Refused /\ ~Imported(again[i].product)}
<1> SUFFICES ASSUME Bad # {} PROVE FALSE
  OBVIOUS
<1>1. PICK i \in Bad : \A k \in Bad : i <= k
  <2>1. Bad \in SUBSET Nat
    OBVIOUS
  <2> HIDE DEF Bad
  <2> QED
    BY <2>1, LeastMember
<1>2. again[i] = IF i = 0 THEN s.optionBase
                 ELSE IF Remains(s, i, name) THEN Repeat(s, i, again[i - 1]) ELSE again[i - 1]
  <2>1. i \in 0..n
    OBVIOUS
  <2> QED
    BY <2>1 DEF Repeating
<1>3. i # 0
  BY <1>2
<1>4. i - 1 \in 0..n /\ i - 1 \notin Bad
  BY <1>1, <1>3
<1>5. again[i - 1] = Refused \/ Imported(again[i - 1].product)
  BY <1>4
<1> DEFINE edit == s.history[i].edit
           state == again[i - 1]
           product == OptionEdit(state.product, edit)
<1>6. CASE Remains(s, i, name)
  <2>1. again[i] = Repeat(s, i, state) /\ again[i] # Refused /\ ~Imported(again[i].product)
    BY <1>2, <1>3, <1>6
  <2>2. state # Refused
    BY Zenon, <2>1 DEF Repeat
  <2>3. Imported(state.product)
    BY <1>5, <2>2
  <2>4. CASE ~HasRow(state.item, edit.name)
    <3>1. Repeat(s, i, state) = state
      BY Zenon, <2>2, <2>4 DEF Repeat
    <3> QED
      BY <2>1, <2>3, <3>1
  <2>5. CASE HasRow(state.item, edit.name)
    <3>1. product # Refused
      BY Zenon, <2>1, <2>2, <2>5 DEF Repeat
    <3>2. \E item : Repeat(s, i, state) = State(product, item)
      BY Zenon, <2>1, <2>2, <2>5 DEF Repeat
    <3>3. Repeat(s, i, state).product = product
      BY <3>2 DEF State
    <3>4. Imported(product)
      BY Zenon, <2>3, <3>1, OptionEditImported
    <3> QED
      BY <2>1, <3>3, <3>4
  <2> QED
    BY <2>4, <2>5
<1>7. CASE ~Remains(s, i, name)
  BY <1>2, <1>3, <1>5, <1>7
<1> QED
  BY <1>6, <1>7

\* Taking back the edits of an option follows the session.
LEMMA RevertOptionFollows ==
  ASSUME NEW s, Lawful(s), NEW name, name \in s.touched, RevertOption(s, name) # Refused
  PROVE  Follows(s, RevertOption(s, name))
<1> DEFINE again == CHOOSE g : Repeating(s, name, s.cursor, g)
           reverted == again[s.cursor]
           after == State(reverted.product, SetSelection(reverted.item, Selection(s.item)))
           entry == [edit |-> [kind |-> "option_revert", name |-> name],
                     before |-> State(s.product, s.item), after |-> after]
           r == At(Recorded(s, entry), after)
<1>1. RevertOption(s, name) = IF reverted = Refused THEN Refused ELSE r
  BY DEF RevertOption, Repeating
<1>2. reverted # Refused
  BY <1>1
<1>3. s.cursor \in Nat /\ Imported(s.optionBase.product)
  BY Entries DEF Lawful, Shaped
<1>4. Repeating(s, name, s.cursor, again)
  <2>1. \E g : Repeating(s, name, s.cursor, g)
    BY <1>3, RepeatsExist
  <2> QED
    BY Zenon, <2>1
<1> HIDE DEF again
<1>5. Imported(reverted.product)
  BY <1>2, <1>3, <1>4, RepeatedImported
<1> HIDE DEF reverted
<1>6. /\ entry.edit.kind # "selection" /\ entry.before.product = s.product
      /\ entry.after.product = reverted.product /\ after.product = entry.after.product
  BY DEF State
<1> HIDE DEF entry, after
<1>7. /\ DOMAIN r = SessionFields /\ r.history = Recorded(s, entry).history
      /\ r.cursor = s.cursor + 1 /\ r.product = entry.after.product
      /\ r.status = s.status /\ r.base = s.base
      /\ r.touched # {} => Imported(r.optionBase.product)
      /\ r.optionBase # Absent => Imported(r.optionBase.product)
  BY <1>6, RecordedRest
<1> HIDE DEF r
<1> QED
  BY <1>1, <1>2, <1>5, <1>6, <1>7, EntryFollows

\* A session that is saved as it is follows itself.
LEMMA SameFollows ==
  ASSUME NEW s, Lawful(s)
  PROVE  Follows(s, s)
<1>1. Shaped(s) /\ Traced(s, s.product) /\ Imported(s.product)
  BY DEF Lawful, Shaped
<1>2. ASSUME NEW i \in Content(s)
      PROVE  Imported(Before(s, i)) /\ Imported(s.history[i].after.product)
  BY <1>1 DEF Shaped
<1>3. Traced(s, InferDimensions(s.product))
  <2>1. ASSUME NEW j \in Content(s), IsLast(s, s.cursor, j)
        PROVE  InferDimensions(s.product) = After(s, j)
    BY <1>1, <1>2, <2>1, NamesFoundOnce DEF Traced, After
  <2>2. ASSUME NEW i \in Content(s), IsFirst(s, i), s.cursor < i
        PROVE  InferDimensions(s.product) \in {Before(s, i), InferDimensions(Before(s, i))}
    BY <1>1, <1>2, <2>2, NamesFoundOnce DEF Traced
  <2> QED
    BY <1>1, <2>1, <2>2 DEF Traced
<1>4. ASSUME NEW origin, Imported(origin), Rooted(s, s.product, origin)
      PROVE  Rooted(s, InferDimensions(s.product), origin)
  BY <1>4, NamesFoundOnce DEF Rooted
<1> QED
  BY <1>1, <1>3, <1>4 DEF Follows

\* Whatever the merchant edits, and is not refused, follows the session.
LEMMA EditedFollows ==
  ASSUME NEW s, Lawful(s), NEW edit, Edited(s, edit) # Refused
  PROVE  Follows(s, Edited(s, edit))
<1>1. \/ edit.kind = "option" /\ Edited(s, edit) = EditOption(s, edit)
      \/ edit.kind = "structure" /\ Edited(s, edit) = EditStructure(s, edit)
      \/ edit.kind = "cell" /\ Edited(s, edit) = EditCell(s, edit)
      \/ edit.kind = "option_revert" /\ Edited(s, edit) = RevertOption(s, edit.name)
  BY DEF Edited
<1>2. edit.name \notin s.touched => RevertOption(s, edit.name) = s
  BY DEF RevertOption
<1> QED
  BY <1>1, <1>2, EditOptionFollows, EditStructureFollows, EditCellFollows, RevertOptionFollows,
     SameFollows

-----------------------------------------------------------------------------
(* Undo, redo and reset.                                                   *)

\* product is one the path of s has after n of its entries
Stands(s, n, product) ==
  /\ Imported(product)
  /\ \A j \in Content(s) : IsLast(s, n, j) => InferDimensions(product) = After(s, j)
  /\ \A i \in Content(s) : IsFirst(s, i) /\ n < i =>
       InferDimensions(product) \in {Before(s, i), InferDimensions(Before(s, i))}
  /\ Content(s) = {} => InferDimensions(product) = InferDimensions(s.product)

\* A session stands where its cursor is.
LEMMA StandsHere ==
  ASSUME NEW s, Lawful(s)
  PROVE  Stands(s, s.cursor, s.product)
<1>1. Shaped(s) /\ Traced(s, s.product) /\ Imported(s.product)
  BY DEF Lawful, Shaped
<1>2. ASSUME NEW i \in Content(s)
      PROVE  Imported(Before(s, i)) /\ Imported(s.history[i].after.product)
  BY <1>1 DEF Shaped
<1>3. ASSUME NEW j \in Content(s), IsLast(s, s.cursor, j)
      PROVE  InferDimensions(s.product) = After(s, j)
  BY <1>1, <1>2, <1>3, NamesFoundOnce DEF Traced, After
<1>4. ASSUME NEW i \in Content(s), IsFirst(s, i), s.cursor < i
      PROVE  InferDimensions(s.product) \in {Before(s, i), InferDimensions(Before(s, i))}
  BY <1>1, <1>2, <1>4, NamesFoundOnce DEF Traced
<1> QED
  BY <1>1, <1>3, <1>4 DEF Stands

\* What is replayed of an entry.
LEMMA ReplayedProduct ==
  ASSUME NEW state, NEW entry, NEW found
  PROVE  /\ entry.edit.kind = "selection" => Replayed(state, entry, found).product = state.product
         /\ entry.edit.kind # "selection" => Replayed(state, entry, found) = found
  BY DEF Replayed, State

\* Undoing an entry steps back on the path.
LEMMA StepsBack ==
  ASSUME NEW s, Lawful(s), NEW n \in 1..Len(s.history), NEW state, Stands(s, n, state.product)
  PROVE  Stands(s, n - 1, Replayed(state, s.history[n], s.history[n].before).product)
<1> DEFINE product == Replayed(state, s.history[n], s.history[n].before).product
<1>1. /\ Shaped(s) /\ Traced(s, s.product) /\ Content(s) \subseteq Nat /\ n \in Nat
      /\ n \in Content(s) <=> s.history[n].edit.kind # "selection"
  BY Entries DEF Lawful, Content
<1>2. CASE n \notin Content(s)
  <2>1. product = state.product
    BY <1>1, <1>2, ReplayedProduct
  <2>2. ASSUME NEW j \in Content(s), IsLast(s, n - 1, j) PROVE IsLast(s, n, j)
    BY <1>1, <1>2, <2>2 DEF IsLast
  <2>3. \A i \in Content(s) : n - 1 < i => n < i
    BY <1>1, <1>2
  <2> HIDE DEF product
  <2>4. Stands(s, n - 1, product)
    BY <2>1, <2>2, <2>3 DEF Stands
  <2> QED
    BY <2>4 DEF product
<1>3. CASE n \in Content(s)
  <2>1. product = Before(s, n)
    BY <1>1, <1>3, ReplayedProduct DEF Before
  <2>2. Imported(product)
    BY <1>1, <1>3, <2>1 DEF Shaped
  <2> HIDE DEF product
  <2>3. ASSUME NEW j \in Content(s), IsLast(s, n - 1, j)
        PROVE  InferDimensions(product) = After(s, j)
    <3>1. product = After(s, j)
      BY <1>1, <1>3, <2>1, <2>3 DEF Traced
    <3>2. Imported(s.history[j].after.product)
      BY <1>1 DEF Shaped
    <3> QED
      BY <3>1, <3>2, NamesFoundOnce DEF After
  <2>4. ASSUME NEW i \in Content(s), IsFirst(s, i), n - 1 < i
        PROVE  InferDimensions(product) \in {Before(s, i), InferDimensions(Before(s, i))}
    <3>1. i = n
      BY <1>1, <1>3, <2>4 DEF IsFirst
    <3> QED
      BY <2>1, <3>1
  <2>5. Stands(s, n - 1, product)
    BY <1>3, <2>2, <2>3, <2>4 DEF Stands
  <2> QED
    BY <2>5 DEF product
<1> QED
  BY <1>2, <1>3

\* Doing it again steps on.
LEMMA StepsOn ==
  ASSUME NEW s, Lawful(s), NEW n \in Nat, n + 1 \in 1..Len(s.history),
         NEW state, Stands(s, n, state.product)
  PROVE  Stands(s, n + 1, Replayed(state, s.history[n + 1], s.history[n + 1].after).product)
<1> DEFINE product == Replayed(state, s.history[n + 1], s.history[n + 1].after).product
<1>1. /\ Shaped(s) /\ Content(s) \subseteq Nat
      /\ n + 1 \in Content(s) <=> s.history[n + 1].edit.kind # "selection"
  BY Entries DEF Lawful, Content
<1>2. CASE n + 1 \notin Content(s)
  <2>1. product = state.product
    BY <1>1, <1>2, ReplayedProduct
  <2>2. ASSUME NEW j \in Content(s), IsLast(s, n + 1, j) PROVE IsLast(s, n, j)
    BY <1>1, <1>2, <2>2 DEF IsLast
  <2>3. \A i \in Content(s) : n + 1 < i => n < i
    BY <1>1, <1>2
  <2> HIDE DEF product
  <2>4. Stands(s, n + 1, product)
    BY <2>1, <2>2, <2>3 DEF Stands
  <2> QED
    BY <2>4 DEF product
<1>3. CASE n + 1 \in Content(s)
  <2>1. product = s.history[n + 1].after.product /\ InferDimensions(product) = After(s, n + 1)
    BY <1>1, <1>3, ReplayedProduct DEF After
  <2>2. Imported(product)
    BY <1>1, <1>3, <2>1 DEF Shaped
  <2> HIDE DEF product
  <2>3. ASSUME NEW j \in Content(s), IsLast(s, n + 1, j)
        PROVE  InferDimensions(product) = After(s, j)
    <3>1. j = n + 1
      BY <1>1, <1>3, <2>3 DEF IsLast
    <3> QED
      BY <2>1, <3>1
  <2>4. \A i \in Content(s) : IsFirst(s, i) => ~(n + 1 < i)
    BY <1>1, <1>3 DEF IsFirst
  <2>5. Stands(s, n + 1, product)
    BY <1>3, <2>2, <2>3, <2>4 DEF Stands
  <2> QED
    BY <2>5 DEF product
<1> QED
  BY <1>2, <1>3

\* A session whose cursor moved along the path follows the session it was.
LEMMA MovedFollows ==
  ASSUME NEW s, Lawful(s), NEW n \in 0..Len(s.history), NEW state, Stands(s, n, state.product)
  PROVE  Follows(s, Moved(s, state, n))
<1> DEFINE r == Moved(s, state, n)
           product == InferDimensions(r.product)
<1>1. Shaped(s) /\ Traced(s, s.product) /\ DOMAIN s = SessionFields
  BY DEF Lawful, Shaped
<1>2. /\ DOMAIN r = SessionFields /\ r.history = s.history /\ r.cursor = n
      /\ r.product = state.product /\ r.status = s.status /\ r.base = s.base
      /\ r.touched = s.touched /\ r.optionBase = s.optionBase
  BY <1>1 DEF Moved, At, SessionFields
<1> HIDE DEF r
<1>3. /\ Content(r) = Content(s)
      /\ \A i : Before(r, i) = Before(s, i) /\ After(r, i) = After(s, i)
      /\ \A m, j : IsLast(r, m, j) <=> IsLast(s, m, j)
      /\ \A i : IsFirst(r, i) <=> IsFirst(s, i)
  BY <1>2 DEF Content, Before, After, IsLast, IsFirst
<1>4. Shaped(r)
  BY <1>1, <1>2, <1>3 DEF Shaped, Stands
<1>5. Traced(r, product)
  BY <1>1, <1>2, <1>3 DEF Traced, Stands
<1>6. ASSUME NEW origin, Imported(origin), Rooted(s, s.product, origin)
      PROVE  Rooted(r, product, origin)
  <2>1. ASSUME Content(s) = {} PROVE product \in {origin, InferDimensions(origin)}
    BY <1>2, <1>6, <2>1, NamesFoundOnce DEF Rooted, Stands
  <2> QED
    BY <1>3, <1>6, <2>1 DEF Rooted
<1> QED
  BY <1>2, <1>4, <1>5, <1>6 DEF Follows, r

\* An undo that is not refused follows the session.
LEMMA UndoneFollows ==
  ASSUME NEW s, Lawful(s), Undone(s) # Refused
  PROVE  Follows(s, Undone(s))
<1> DEFINE entry == s.history[s.cursor]
           state == Replayed(State(s.product, s.item), entry, entry.before)
<1>1. s.cursor # 0 /\ Undone(s) = Moved(s, state, s.cursor - 1)
  BY Zenon DEF Undone
<1>2. s.cursor \in 1..Len(s.history) /\ s.cursor - 1 \in 0..Len(s.history)
  BY <1>1, Entries DEF Lawful
<1>3. State(s.product, s.item).product = s.product
  BY DEF State
<1>4. Stands(s, s.cursor - 1, state.product)
  BY <1>2, <1>3, StandsHere, StepsBack
<1> HIDE DEF state
<1> QED
  BY <1>1, <1>2, <1>4, MovedFollows

\* So does a redo.
LEMMA RedoneFollows ==
  ASSUME NEW s, Lawful(s), Redone(s) # Refused
  PROVE  Follows(s, Redone(s))
<1> DEFINE entry == s.history[s.cursor + 1]
           state == Replayed(State(s.product, s.item), entry, entry.after)
<1>1. s.cursor # Len(s.history) /\ Redone(s) = Moved(s, state, s.cursor + 1)
  BY Zenon DEF Redone
<1>2. s.cursor \in Nat /\ s.cursor + 1 \in 1..Len(s.history) /\ s.cursor + 1 \in 0..Len(s.history)
  BY <1>1, Entries DEF Lawful
<1>3. State(s.product, s.item).product = s.product
  BY DEF State
<1>4. Stands(s, s.cursor + 1, state.product)
  BY <1>2, <1>3, StandsHere, StepsOn
<1> HIDE DEF state
<1> QED
  BY <1>1, <1>2, <1>4, MovedFollows

\* back is what is left when the last n entries are undone, one after the other
Undoing(s, n, back) ==
  back = [i \in 0..n |->
            IF i = 0 THEN State(s.product, s.item)
            ELSE LET entry == s.history[s.cursor - i + 1]
                 IN  Replayed(back[i - 1], entry, entry.before)]

\* The entries can be undone, one after the other.
LEMMA UndoingExists ==
  ASSUME NEW s, NEW n \in Nat
  PROVE  \E back : Undoing(s, n, back)
<1> DEFINE Bad == {m \in Nat : ~ \E back : Undoing(s, m, back)}
<1> SUFFICES ASSUME Bad # {} PROVE FALSE
  BY Zenon
<1>1. PICK m \in Bad : \A k \in Bad : m <= k
  <2>1. Bad \in SUBSET Nat
    OBVIOUS
  <2> HIDE DEF Bad
  <2> QED
    BY <2>1, LeastMember
<1>2. CASE m = 0
  <2> DEFINE back == [i \in 0..0 |-> State(s.product, s.item)]
  <2>1. Undoing(s, 0, back)
    BY DEF Undoing
  <2> QED
    BY Zenon, <1>2, <2>1
<1>3. CASE m # 0
  <2>1. m - 1 \in Nat /\ m - 1 \notin Bad
    BY <1>1, <1>3
  <2>2. PICK old : Undoing(s, m - 1, old)
    BY Zenon, <2>1
  <2> DEFINE undo(i, state) == Replayed(state, s.history[s.cursor - i + 1],
                                        s.history[s.cursor - i + 1].before)
             step(i, g) == IF i = 0 THEN State(s.product, s.item) ELSE undo(i, g[i - 1])
             back == [i \in 0..m |-> step(i, old)]
  <2>3. ASSUME NEW i \in 0..(m - 1) PROVE back[i] = old[i]
    <3>1. old = [j \in 0..(m - 1) |-> step(j, old)]
      BY <2>2 DEF Undoing
    <3> HIDE DEF undo
    <3>2. old[i] = step(i, old)
      BY <3>1
    <3>3. i \in 0..m
      OBVIOUS
    <3> QED
      BY <3>2, <3>3
  <2>4. ASSUME NEW i \in 0..m PROVE step(i, old) = step(i, back)
    <3>1. CASE i = 0
      BY <3>1
    <3>2. CASE i # 0
      <4>1. i - 1 \in 0..(m - 1)
        BY <3>2
      <4>2. back[i - 1] = old[i - 1]
        BY <2>3, <4>1
      <4> HIDE DEF back, undo
      <4> QED
        BY <4>2
    <3> QED
      BY <3>1, <3>2
  <2>5. back = [i \in 0..m |-> step(i, back)]
    BY Zenon, <2>4
  <2>6. Undoing(s, m, back)
    BY <2>5 DEF Undoing
  <2> QED
    BY Zenon, <2>6
<1> QED
  BY <1>2, <1>3

\* Undoing entry after entry, a session walks its path back to the start.
LEMMA UndoingStands ==
  ASSUME NEW s, Lawful(s), NEW back, Undoing(s, s.cursor, back)
  PROVE  Stands(s, 0, back[s.cursor].product)
<1> DEFINE c == s.cursor
           Bad == {n \in 0..c : ~Stands(s, c - n, back[n].product)}
<1>1. c \in Nat /\ c <= Len(s.history) /\ Len(s.history) \in Nat
  BY Entries DEF Lawful
<1> SUFFICES ASSUME Bad # {} PROVE FALSE
  BY <1>1
<1>2. PICK n \in Bad : \A k \in Bad : n <= k
  <2>1. Bad \in SUBSET Nat
    OBVIOUS
  <2> HIDE DEF Bad
  <2> QED
    BY <2>1, LeastMember
<1>3. n \in 0..c /\ ~Stands(s, c - n, back[n].product)
  OBVIOUS
<1>4. back[n] = IF n = 0 THEN State(s.product, s.item)
                ELSE Replayed(back[n - 1], s.history[c - n + 1], s.history[c - n + 1].before)
  BY <1>3 DEF Undoing
<1>5. n # 0
  <2>1. SUFFICES ASSUME n = 0 PROVE FALSE
    OBVIOUS
  <2>2. back[n].product = s.product /\ c - n = c
    BY <1>1, <1>4, <2>1 DEF State
  <2> QED
    BY <1>3, <2>2, StandsHere
<1>6. n - 1 \in 0..c /\ n - 1 \notin Bad
  BY <1>1, <1>2, <1>3, <1>5
<1>7. /\ c - n + 1 \in 1..Len(s.history) /\ c - (n - 1) = c - n + 1 /\ (c - n + 1) - 1 = c - n
      /\ Stands(s, c - n + 1, back[n - 1].product)
  BY <1>1, <1>3, <1>5, <1>6
<1> HIDE DEF Bad
<1>8. Stands(s, c - n, Replayed(back[n - 1], s.history[c - n + 1],
                                s.history[c - n + 1].before).product)
  BY <1>7, StepsBack
<1> QED
  BY <1>3, <1>4, <1>5, <1>8

\* A session that was reset follows the session it was: its path is empty and begins where
\* the old one did.
LEMMA WasResetFollows ==
  ASSUME NEW s, Lawful(s)
  PROVE  Follows(s, WasReset(s))
<1> DEFINE back == CHOOSE g : Undoing(s, s.cursor, g)
           state == back[s.cursor]
           q == Moved(s, state, 0)
           r == [q EXCEPT !.history = <<>>, !.optionBase = Absent, !.touched = {}]
           product == InferDimensions(r.product)
<1>1. WasReset(s) = r
  BY DEF WasReset, Undoing
<1>2. Shaped(s) /\ s.cursor \in Nat /\ DOMAIN s = SessionFields
  BY Entries DEF Lawful, Shaped
<1>3. Undoing(s, s.cursor, back)
  <2>1. \E g : Undoing(s, s.cursor, g)
    BY <1>2, UndoingExists
  <2> QED
    BY Zenon, <2>1
<1> HIDE DEF back
<1>4. Stands(s, 0, state.product)
  BY <1>3, UndoingStands
<1> HIDE DEF state
<1>5. /\ DOMAIN q = SessionFields /\ q.cursor = 0 /\ q.product = state.product
      /\ q.status = s.status /\ q.base = s.base
  BY <1>2 DEF Moved, At, SessionFields
<1> HIDE DEF q
<1>6. /\ DOMAIN r = SessionFields /\ r.history = <<>> /\ r.cursor = 0
      /\ r.product = state.product /\ r.status = s.status /\ r.base = s.base
      /\ r.touched = {} /\ r.optionBase = Absent
  BY <1>5 DEF SessionFields
<1> HIDE DEF r
<1>7. Content(r) = {} /\ \E S : r.history \in Seq(S)
  BY <1>6 DEF Content
<1>8. Shaped(r)
  BY <1>4, <1>6, <1>7 DEF Shaped, Stands
<1>9. Traced(r, product)
  BY <1>7 DEF Traced
<1>10. ASSUME NEW origin, Imported(origin), Rooted(s, s.product, origin)
       PROVE  product \in {origin, InferDimensions(origin)}
  <2>1. CASE Content(s) = {}
    <3>1. s.product \in {origin, InferDimensions(origin)}
      BY <1>10, <2>1 DEF Rooted
    <3>2. product = InferDimensions(s.product)
      BY <1>4, <1>6, <2>1 DEF Stands
    <3> QED
      BY <1>10, <3>1, <3>2, NamesFoundOnce
  <2>2. CASE Content(s) # {}
    <3>1. PICK i \in Content(s) : IsFirst(s, i)
      BY <1>2, <2>2, FirstEdit
    <3>2. 0 < i
      BY <1>2, Entries
    <3>3. product \in {Before(s, i), InferDimensions(Before(s, i))}
      BY <1>4, <1>6, <3>1, <3>2 DEF Stands
    <3>4. Before(s, i) \in {origin, InferDimensions(origin)}
      BY <1>10, <3>1 DEF Rooted
    <3> QED
      BY <1>10, <3>3, <3>4, NamesFoundOnce
  <2> QED
    BY <2>1, <2>2
<1>11. \A origin : Imported(origin) /\ Rooted(s, s.product, origin) => Rooted(r, product, origin)
  BY <1>7, <1>10 DEF Rooted
<1> QED
  BY <1>1, <1>6, <1>8, <1>9, <1>11 DEF Follows

-----------------------------------------------------------------------------
(* What is stored of a session.                                            *)

\* r is the session s after one step: lawful, on the same draft and the same path
Continues(s, r) ==
  /\ Lawful(r) /\ r.status = s.status /\ r.base = s.base
  /\ \A origin : Imported(origin) /\ Rooted(s, s.product, origin) => Rooted(r, r.product, origin)

\* The path of a session is in a few of its fields.
LEMMA SamePath ==
  ASSUME NEW s, NEW r, DOMAIN r = SessionFields, r.history = s.history, r.cursor = s.cursor,
         r.touched = s.touched, r.optionBase = s.optionBase, Imported(r.product)
  PROVE  /\ Shaped(s) => Shaped(r)
         /\ \A product : Traced(s, product) => Traced(r, product)
         /\ \A product, origin : Rooted(s, product, origin) => Rooted(r, product, origin)
<1>1. /\ Content(r) = Content(s)
      /\ \A i : Before(r, i) = Before(s, i) /\ After(r, i) = After(s, i)
      /\ \A m, j : IsLast(r, m, j) <=> IsLast(s, m, j)
      /\ \A i : IsFirst(r, i) <=> IsFirst(s, i)
  BY DEF Content, Before, After, IsLast, IsFirst
<1> QED
  BY <1>1 DEF Shaped, Traced, Rooted

\* A session with another status, item, errors or checkpoint goes on.
LEMMA OthersContinue ==
  ASSUME NEW s, Lawful(s), NEW r, DOMAIN r = SessionFields, r.history = s.history,
         r.cursor = s.cursor, r.touched = s.touched, r.optionBase = s.optionBase,
         r.product = s.product, r.base = s.base
  PROVE  /\ Lawful(r)
         /\ \A origin : Rooted(s, s.product, origin) => Rooted(r, r.product, origin)
<1>1. Shaped(s) /\ Traced(s, s.product) /\ Imported(s.product)
  BY DEF Lawful, Shaped
<1> QED
  BY <1>1, SamePath DEF Lawful

\* So does one whose dimensions are found.
LEMMA FoundContinues ==
  ASSUME NEW s, NEW r, Follows(s, r), NEW q, DOMAIN q = SessionFields,
         q.history = r.history, q.cursor = r.cursor, q.touched = r.touched,
         q.optionBase = r.optionBase, q.product = InferDimensions(r.product),
         q.status = r.status, q.base = r.base
  PROVE  Continues(s, q)
<1> DEFINE product == InferDimensions(r.product)
<1>1. /\ Shaped(r) /\ Traced(r, product) /\ r.status = s.status /\ r.base = s.base
      /\ \A origin : Imported(origin) /\ Rooted(s, s.product, origin) => Rooted(r, product, origin)
  BY DEF Follows
<1>2. Imported(product)
  BY <1>1, NamesFoundOnce DEF Shaped
<1>3. q.product = product
  OBVIOUS
<1> HIDE DEF product
<1>4. /\ Shaped(q) /\ Traced(q, q.product)
      /\ \A origin : Rooted(r, product, origin) => Rooted(q, q.product, origin)
  BY <1>1, <1>2, <1>3, SamePath
<1> QED
  BY <1>1, <1>4 DEF Continues, Lawful

\* A refused apply stores the session with its dimensions found.
LEMMA RefusedContinues ==
  ASSUME NEW s, Lawful(s), NEW item, NEW errors
  PROVE  Continues(s, [s EXCEPT !.product = InferDimensions(@), !.item = item,
                                !.errors = errors])
<1> DEFINE product == InferDimensions(s.product)
           q == [s EXCEPT !.product = product, !.item = item, !.errors = errors]
<1>1. DOMAIN s = SessionFields
  BY DEF Lawful, Shaped
<1> HIDE DEF product
<1>2. /\ DOMAIN q = SessionFields /\ q.history = s.history /\ q.cursor = s.cursor
      /\ q.touched = s.touched /\ q.optionBase = s.optionBase /\ q.product = product
      /\ q.status = s.status /\ q.base = s.base
  BY <1>1 DEF SessionFields
<1> HIDE DEF q
<1>3. Continues(s, q)
  BY <1>2, SameFollows, FoundContinues DEF product
<1> QED
  BY <1>3 DEF q, product

\* What an edit, undo, redo or reset stores goes on from the session it read.
LEMMA SettledContinues ==
  ASSUME NEW s, NEW r, Follows(s, r)
  PROVE  Continues(s, Settled(r))
<1> DEFINE q == Settled(r)
           product == InferDimensions(r.product)
<1>2. DOMAIN r = SessionFields
  BY DEF Follows, Shaped
<1>3. \E item, errors, edit : q = [r EXCEPT !.product = product, !.item = item,
                                            !.errors = errors, !.edit = edit]
  BY Zenon DEF Settled, SettledWith
<1> HIDE DEF q, product
<1>4. /\ DOMAIN q = SessionFields /\ q.history = r.history /\ q.cursor = r.cursor
      /\ q.touched = r.touched /\ q.optionBase = r.optionBase /\ q.product = product
      /\ q.status = r.status /\ q.base = r.base
  BY <1>2, <1>3 DEF SessionFields
<1>6. Continues(s, q)
  BY <1>4, FoundContinues DEF product
<1> QED
  BY <1>6 DEF q

\* So does what a choice of rows stores.
LEMMA SelectedContinues ==
  ASSUME NEW s, Lawful(s), NEW choice
  PROVE  Continues(s, Selected(s, choice))
<1> DEFINE entry == [edit |-> [kind |-> "selection"], before |-> Selection(s.item),
                     after |-> choice]
           q == Recorded(s, entry)
           r == Selected(s, choice)
<1>1. /\ DOMAIN q = SessionFields /\ q.cursor = s.cursor + 1
      /\ \E S : q.history \in Seq(S)
      /\ Len(q.history) = s.cursor + 1
      /\ \A f \in SessionFields \ {"history", "cursor"} : q[f] = s[f]
  BY RecordedEntry DEF Lawful
<1>2. \E item, errors, edit : r = [q EXCEPT !.item = item, !.errors = errors, !.edit = edit]
  BY Zenon DEF Selected
<1>3. entry.edit.kind = "selection"
  OBVIOUS
<1>4. Shaped(s) /\ s.cursor \in Nat /\ Imported(s.product)
  BY Entries DEF Lawful, Shaped
<1> HIDE DEF entry, q, r
<1>5. /\ DOMAIN r = SessionFields /\ r.history = q.history /\ r.cursor = s.cursor + 1
      /\ r.touched = s.touched /\ r.optionBase = s.optionBase /\ r.product = s.product
      /\ r.status = s.status /\ r.base = s.base
  BY <1>1, <1>2 DEF SessionFields
<1>6. /\ Traced(r, s.product)
      /\ \A origin : Imported(origin) /\ Rooted(s, s.product, origin) => Rooted(r, s.product, origin)
      /\ \A i \in Content(r) : Imported(Before(r, i)) /\ Imported(r.history[i].after.product)
  <2>1. r.history = Recorded(s, entry).history
    BY <1>5 DEF q
  <2> QED
    BY <1>3, <1>5, <2>1, PathStays
<1>7. r.cursor \in 0..Len(r.history)
  BY <1>1, <1>4, <1>5
<1>8. Shaped(r)
  BY <1>1, <1>4, <1>5, <1>6, <1>7 DEF Shaped
<1>9. Continues(s, r)
  BY <1>5, <1>6, <1>8 DEF Continues, Lawful
<1> QED
  BY <1>9 DEF r

\* A lawful session keeps the path that HistoryIsAPath speaks of.
LEMMA LatestEntry ==
  ASSUME NEW s, Shaped(s), NEW n \in Nat, NEW i \in Content(s), i <= n
  PROVE  Latest(s, n) \in Content(s) /\ IsLast(s, n, Latest(s, n))
<1> DEFINE upTo == {j \in Content(s) : j <= n}
<1>1. Content(s) \subseteq Nat
  BY Entries
<1>2. upTo \in SUBSET (0..n) /\ upTo # {}
  BY <1>1
<1>3. \E j \in upTo : \A k \in upTo : k <= j
  <2> HIDE DEF upTo
  <2> QED
    BY <1>2, GreatestMember
<1>4. \E j \in Content(s) : j <= n /\ \A k \in Content(s) : k <= n => k <= j
  BY <1>3
<1>5. Latest(s, n) \in Content(s) /\ Latest(s, n) <= n
      /\ \A k \in Content(s) : k <= n => k <= Latest(s, n)
  BY Zenon, <1>4 DEF Latest
<1> QED
  BY <1>5 DEF IsLast

-----------------------------------------------------------------------------
(* Every stored session, and every session a request is about to store, is *)
(* lawful.                                                                 *)

PathInv ==
  /\ Imported(draft.product)
  /\ session # NoSession => Lawful(session)
  /\ DOMAIN request = Client
  /\ \A c \in Client : request[c].kind # "idle" => Lawful(request[c].session)

\* Finding dimensions keeps the draft, or makes the next revision of it.
LEMMA CorrectedDraft ==
  ASSUME NEW d, Imported(d.product), NEW e \in Corrections(d)
  PROVE  /\ Imported(e.product) /\ InferDimensions(e.product) = e.product
         /\ e = d \/ e.revision = d.revision + 1
<1> DEFINE product == InferDimensions(d.product)
           next == [revision |-> d.revision + 1, product |-> product]
<1>1. e = next \/ (e = d /\ product = d.product)
  <2>1. CASE product # d.product
    BY <2>1 DEF Corrections
  <2>2. CASE product = d.product
    <3>1. Corrections(d) \subseteq {d, next}
      BY <2>2 DEF Corrections
    <3> QED
      BY <2>2, <3>1
  <2> QED
    BY <2>1, <2>2
<1>2. Imported(product) /\ InferDimensions(product) = product
  BY NamesFoundOnce
<1>3. next.product = product /\ next.revision = d.revision + 1
  OBVIOUS
<1> HIDE DEF product, next
<1> QED
  BY <1>1, <1>2, <1>3

\* The requests after one of them goes on.
LEMMA OneWaits ==
  ASSUME NEW c \in Client, NEW next, DOMAIN request = Client, Wait(c, next)
  PROVE  /\ DOMAIN request' = Client /\ request'[c] = next
         /\ \A d \in Client : d # c => request'[d] = request[d]
  BY DEF Wait

\* A request that waits to store what it made of the session.
LEMMA WaitingIsLawful ==
  ASSUME PathInv, session # NoSession, NEW c \in Client, NEW result,
         Follows(session, result), WaitToSave(c, result)
  PROVE  PathInv'
<1> DEFINE next == [kind |-> "save", session |-> Settled(result)]
<1>1. Wait(c, next) /\ UNCHANGED <<draft, live, session>>
  BY DEF WaitToSave
<1>2. Lawful(next.session)
  BY SettledContinues DEF Continues
<1> HIDE DEF next
<1>3. /\ DOMAIN request' = Client /\ request'[c] = next
      /\ \A d \in Client : d # c => request'[d] = request[d]
  BY <1>1, OneWaits DEF PathInv
<1> QED
  BY <1>1, <1>2, <1>3 DEF PathInv

\* A request that ends, or goes on, with a lawful session.
LEMMA GoesOnLawfully ==
  ASSUME PathInv, NEW c \in Client, NEW next, Wait(c, next),
         next.kind # "idle" => Lawful(next.session), Imported(draft'.product),
         session' = session \/ Lawful(session')
  PROVE  PathInv'
<1>1. /\ DOMAIN request' = Client /\ request'[c] = next
      /\ \A d \in Client : d # c => request'[d] = request[d]
  BY OneWaits DEF PathInv
<1> QED
  BY <1>1 DEF PathInv

\* What apply stores of a session it read.
LEMMA ApplyKeeps ==
  ASSUME NEW s, Lawful(s), NEW item, NEW checkpoint, NEW status
  PROVE  /\ Lawful([s EXCEPT !.item = item, !.checkpoint = checkpoint])
         /\ Lawful([s EXCEPT !.status = status, !.checkpoint = checkpoint])
         /\ Lawful([s EXCEPT !.status = status])
<1>1. DOMAIN s = SessionFields
  BY DEF Lawful, Shaped
<1>2. ASSUME NEW r, \/ r = [s EXCEPT !.item = item, !.checkpoint = checkpoint]
                    \/ r = [s EXCEPT !.status = status, !.checkpoint = checkpoint]
                    \/ r = [s EXCEPT !.status = status]
      PROVE  Lawful(r)
  <2>1. /\ DOMAIN r = SessionFields /\ r.history = s.history /\ r.cursor = s.cursor
        /\ r.touched = s.touched /\ r.optionBase = s.optionBase /\ r.product = s.product
        /\ r.base = s.base
    BY <1>1, <1>2 DEF SessionFields
  <2> QED
    BY <2>1, OthersContinue
<1> QED
  BY <1>2

\* A new session is lawful: it has no history.
LEMMA NewSession ==
  ASSUME PathInv, CreateSession
  PROVE  /\ Lawful(session') /\ Content(session') = {} /\ session'.product = draft.product
         /\ session'.base = draft.revision /\ session'.status = "active"
<1>1. /\ DOMAIN session' = SessionFields /\ session'.history = <<>> /\ session'.cursor = 0
      /\ session'.touched = {} /\ session'.optionBase = Absent
      /\ session'.product = draft.product /\ session'.base = draft.revision
      /\ session'.status = "active"
  BY DEF CreateSession, SessionFields
<1>2. Content(session') = {} /\ \E S : session'.history \in Seq(S)
  BY <1>1 DEF Content
<1>3. Shaped(session')
  BY <1>1, <1>2 DEF Shaped, PathInv
<1> QED
  BY <1>1, <1>2, <1>3 DEF Lawful, Traced

\* It holds when the review starts.
LEMMA PathInit ==
  ASSUME Init
  PROVE  PathInv
<1>1. PICK review \in Reviews : draft = [revision |-> 1, product |-> review.product]
  BY DEF Init
<1>2. Imported(review.product)
  BY ProductsAssumption
<1>3. session = NoSession /\ request = [c \in Client |-> Idle]
  BY DEF Init
<1> QED
  BY <1>1, <1>2, <1>3 DEF PathInv, Idle

\* Every step keeps it.
LEMMA PathStep ==
  ASSUME PathInv, [Next]_vars
  PROVE  PathInv'
<1> USE DEF Free
<1>a. Active => session # NoSession
  BY DEF Active, NoSession
<1>1. CASE BuildPlan
  BY <1>1, CorrectedDraft DEF PathInv, BuildPlan
<1>2. CASE UpdateDraft
  <2>1. PICK product \in Updates : draft'.product = product
    BY <1>2 DEF UpdateDraft
  <2>2. Imported(draft'.product)
    BY <2>1, ProductsAssumption
  <2> QED
    BY <1>2, <2>2 DEF PathInv, UpdateDraft
<1>3. CASE CreateSession
  <2>1. Lawful(session')
    BY <1>3, NewSession
  <2> QED
    BY <1>3, <2>1 DEF PathInv, CreateSession
<1>4. CASE SelectInPlan
  BY <1>4 DEF PathInv, SelectInPlan
<1>5. CASE Approve
  BY <1>5 DEF PathInv, Approve
<1>6. ASSUME NEW c \in Client, StartEdit(c) PROVE PathInv'
  <2>1. PICK edit : WaitToSave(c, Edited(session, edit))
    BY <1>a, <1>6 DEF StartEdit
  <2>2. session # NoSession /\ Edited(session, edit) # Refused
    BY <1>a, <1>6, <2>1 DEF StartEdit, WaitToSave
  <2> QED
    BY <2>1, <2>2, EditedFollows, WaitingIsLawful DEF PathInv
<1>7. ASSUME NEW c \in Client, StartUndo(c) PROVE PathInv'
  <2>1. session # NoSession /\ Undone(session) # Refused /\ WaitToSave(c, Undone(session))
    BY <1>a, <1>7 DEF StartUndo, WaitToSave
  <2> QED
    BY <2>1, UndoneFollows, WaitingIsLawful DEF PathInv
<1>8. ASSUME NEW c \in Client, StartRedo(c) PROVE PathInv'
  <2>1. session # NoSession /\ Redone(session) # Refused /\ WaitToSave(c, Redone(session))
    BY <1>a, <1>8 DEF StartRedo, WaitToSave
  <2> QED
    BY <2>1, RedoneFollows, WaitingIsLawful DEF PathInv
<1>9. ASSUME NEW c \in Client, StartReset(c) PROVE PathInv'
  <2>1. session # NoSession /\ WaitToSave(c, WasReset(session))
    BY <1>a, <1>9 DEF StartReset
  <2> QED
    BY <2>1, WasResetFollows, WaitingIsLawful DEF PathInv
<1>10. ASSUME NEW c \in Client, SaveEdit(c) PROVE PathInv'
  <2>1. Lawful(request[c].session)
    BY <1>10 DEF SaveEdit, PathInv
  <2> QED
    BY <1>10, <2>1, GoesOnLawfully DEF SaveEdit, Idle, PathInv
<1>11. ASSUME NEW c \in Client, SelectInSession(c) PROVE PathInv'
  <2>1. PICK choice : session' = Selected(session, choice)
    BY <1>a, <1>11 DEF SelectInSession
  <2>2. Lawful(session')
    BY <1>a, <1>11, <2>1, SelectedContinues DEF SelectInSession, PathInv, Continues
  <2> QED
    BY <1>11, <2>2 DEF SelectInSession, PathInv
<1>12. ASSUME NEW c \in Client, Discard(c) PROVE PathInv'
  <2>1. Lawful(session')
    BY <1>a, <1>12, ApplyKeeps DEF Discard, PathInv
  <2> QED
    BY <1>12, <2>1 DEF Discard, PathInv
<1>13. ASSUME NEW c \in Client, StartApply(c) PROVE PathInv'
  <2>1. /\ session # NoSession /\ UNCHANGED <<draft, session>>
        /\ \E item, resuming :
             Wait(c, [kind |-> "store", session |-> session, item |-> item,
                      resuming |-> resuming])
    BY Zenon, <1>a, <1>13 DEF StartApply
  <2>2. PICK next : Wait(c, next) /\ next.session = session
    BY <2>1
  <2> QED
    BY <2>1, <2>2, GoesOnLawfully DEF PathInv
<1>14. ASSUME NEW c \in Client, RefuseApply(c) PROVE PathInv'
  <2>1. /\ Lawful(request[c].session) /\ Wait(c, Idle) /\ draft' = draft
        /\ session' = [request[c].session EXCEPT !.product = InferDimensions(@),
                         !.item = request[c].item, !.errors = FieldErrors(request[c].item)]
    BY <1>14 DEF RefuseApply, PathInv
  <2>2. Lawful(session')
    BY <2>1, RefusedContinues DEF Continues
  <2> QED
    BY <2>1, <2>2, GoesOnLawfully DEF Idle, PathInv
<1>15. ASSUME NEW c \in Client, StoreDraft(c) PROVE PathInv'
  <2> DEFINE r == request[c]
             s == IF r.resuming THEN r.session ELSE Checkpointed(r)
             next == [kind |-> "plan", session |-> s, resuming |-> r.resuming]
  <2>1. /\ Lawful(r.session) /\ Wait(c, next)
        /\ \/ UNCHANGED <<session, draft>>
           \/ /\ session' = s
              /\ draft' = [revision |-> s.base + 1, product |-> InferDimensions(s.product)]
    BY <1>15 DEF StoreDraft, PathInv
  <2>2. Lawful(s)
    BY <2>1, ApplyKeeps DEF Checkpointed
  <2>3. next.session = s
    OBVIOUS
  <2> HIDE DEF s, next
  <2>4. Imported(InferDimensions(s.product))
    BY <2>2, NamesFoundOnce DEF Lawful, Shaped
  <2>5. Imported(draft'.product) /\ (session' = session \/ Lawful(session'))
    BY <2>1, <2>2, <2>4 DEF PathInv
  <2> QED
    BY <2>1, <2>2, <2>3, <2>5, GoesOnLawfully
<1>16. ASSUME NEW c \in Client, DraftWriteFails(c) PROVE PathInv'
  <2>1. /\ Lawful(request[c].session) /\ Wait(c, Idle) /\ draft' = draft
        /\ session' = Checkpointed(request[c])
    BY <1>16 DEF DraftWriteFails, PathInv
  <2>2. Lawful(session')
    BY <2>1, ApplyKeeps DEF Checkpointed
  <2> QED
    BY <2>1, <2>2, GoesOnLawfully DEF Idle, PathInv
<1>17. ASSUME NEW c \in Client, FinishApply(c) PROVE PathInv'
  <2>1. /\ Lawful(request[c].session) /\ Wait(c, Idle)
        /\ draft' = draft \/ draft' \in Corrections(draft)
        /\ session' = [request[c].session EXCEPT !.status = "applied", !.checkpoint = Absent]
    BY <1>17 DEF FinishApply, PathInv
  <2>2. Lawful(session') /\ Imported(draft'.product)
    BY <2>1, ApplyKeeps, CorrectedDraft DEF PathInv
  <2> QED
    BY <2>1, <2>2, GoesOnLawfully DEF Idle
<1>18. ASSUME NEW c \in Client, RequestFails(c) PROVE PathInv'
  BY <1>18, GoesOnLawfully DEF RequestFails, Idle, PathInv
<1>19. CASE UNCHANGED vars
  BY <1>19 DEF PathInv, vars
<1> QED
  BY Zenon, <1>1, <1>2, <1>3, <1>4, <1>5, <1>6, <1>7, <1>8, <1>9, <1>10, <1>11, <1>12, <1>13,
     <1>14, <1>15, <1>16, <1>17, <1>18, <1>19 DEF Next

\* Whatever the merchant edits, undoes, redoes, resets, chooses or applies, and whichever
\* requests are cut off or store late, a session's history is one path of products: each
\* edit starts from the product the edit before it left, and the session holds the product
\* at its cursor.
THEOREM OnePath == Spec => []HistoryIsAPath
<1>1. Init => PathInv
  BY PathInit
<1>2. PathInv /\ [Next]_vars => PathInv'
  BY PathStep
<1>3. PathInv => HistoryIsAPath
  <2> SUFFICES ASSUME PathInv, session # NoSession PROVE HistoryIsAPath
    BY DEF HistoryIsAPath
  <2>1. Shaped(session) /\ Traced(session, session.product) /\ Content(session) \subseteq Nat
    BY Entries DEF PathInv, Lawful
  <2>2. ASSUME NEW i \in Content(session), {j \in Content(session) : j < i} # {}
        PROVE  session.history[i].before.product
                 = InferDimensions(session.history[Latest(session, i - 1)].after.product)
    <3>1. PICK j \in Content(session) : j < i
      BY <2>2
    <3>2. i - 1 \in Nat /\ j <= i - 1
      BY <2>1, <3>1
    <3>3. /\ Latest(session, i - 1) \in Content(session)
          /\ IsLast(session, i - 1, Latest(session, i - 1))
      BY <2>1, <3>2, LatestEntry
    <3> QED
      BY <2>1, <3>3 DEF Traced, Before, After
  <2>3. ASSUME NEW i \in Content(session), i <= session.cursor
        PROVE  session.product
                 = InferDimensions(
                     session.history[Latest(session, session.cursor)].after.product)
    <3>1. session.cursor \in Nat
      BY <2>1, Entries
    <3>2. /\ Latest(session, session.cursor) \in Content(session)
          /\ IsLast(session, session.cursor, Latest(session, session.cursor))
      BY <2>1, <2>3, <3>1, LatestEntry
    <3> QED
      BY <2>1, <3>2 DEF Traced, After
  <2> QED
    BY <2>2, <2>3 DEF HistoryIsAPath
<1> QED
  BY <1>1, <1>2, <1>3, PTL DEF Spec

-----------------------------------------------------------------------------
(* One request at a time: the session and the draft it was made from.      *)

OneClient == \A c, d \in Client : c = d

\* The session s is of the draft d or of an earlier revision, and begins where its draft was
Tied(s, d) ==
  /\ s.base \in Nat /\ s.base <= d.revision
  /\ d.revision = s.base => Rooted(s, s.product, d.product)

\* The draft d holds what the session s makes of it, or has moved past it
Reached(s, d) ==
  \/ d.revision > s.base + 1
  \/ d.revision = s.base + 1 /\ d.product \in {s.product, InferDimensions(s.product)}

\* What is known of a request that waits, with s and d stored
Waiting(r, s, d) ==
  /\ s.status = "active"
  /\ r.session.status = "active" /\ r.session.base = s.base
  /\ Tied(r.session, d)
  /\ r.kind = "plan" => Reached(r.session, d)
  /\ r.kind = "store" /\ r.resuming => Reached(r.session, d)

ApplyInv ==
  /\ PathInv
  /\ draft.revision \in Nat
  /\ session # NoSession => Tied(session, draft)
  /\ \A c \in Client : request[c].kind # "idle" => Waiting(request[c], session, draft)

\* A draft that is kept, or goes on to its next revision, keeps what is known of a session.
LEMMA DraftMovesOn ==
  ASSUME NEW d, d.revision \in Nat, NEW e, e = d \/ e.revision = d.revision + 1
  PROVE  /\ e.revision \in Nat
         /\ \A s : Tied(s, d) => Tied(s, e)
         /\ \A s : Tied(s, d) /\ Reached(s, d) => Reached(s, e)
         /\ \A r, s : Waiting(r, s, d) => Waiting(r, s, e)
<1>1. ASSUME NEW s, Tied(s, d) PROVE Tied(s, e)
  BY <1>1 DEF Tied
<1>2. ASSUME NEW s, Tied(s, d), Reached(s, d) PROVE Reached(s, e)
  BY <1>2 DEF Tied, Reached
<1>3. ASSUME NEW r, NEW s, Waiting(r, s, d) PROVE Waiting(r, s, e)
  BY <1>1, <1>2, <1>3 DEF Waiting
<1> QED
  BY <1>1, <1>2, <1>3

\* Another item, status or checkpoint does not untie a session.
LEMMA OthersTied ==
  ASSUME NEW s, Lawful(s), NEW d, Tied(s, d), NEW item, NEW checkpoint, NEW status
  PROVE  /\ Tied([s EXCEPT !.item = item, !.checkpoint = checkpoint], d)
         /\ Tied([s EXCEPT !.status = status, !.checkpoint = checkpoint], d)
         /\ Tied([s EXCEPT !.status = status], d)
<1>1. DOMAIN s = SessionFields
  BY DEF Lawful, Shaped
<1>2. ASSUME NEW r, \/ r = [s EXCEPT !.item = item, !.checkpoint = checkpoint]
                    \/ r = [s EXCEPT !.status = status, !.checkpoint = checkpoint]
                    \/ r = [s EXCEPT !.status = status]
      PROVE  Tied(r, d)
  <2>1. /\ DOMAIN r = SessionFields /\ r.history = s.history /\ r.cursor = s.cursor
        /\ r.touched = s.touched /\ r.optionBase = s.optionBase /\ r.product = s.product
        /\ r.base = s.base
    BY <1>1, <1>2 DEF SessionFields
  <2> QED
    BY <2>1, OthersContinue DEF Tied
<1> QED
  BY <1>2

\* Neither does a step of the session.
LEMMA ContinuesTied ==
  ASSUME NEW s, NEW r, Continues(s, r), NEW d, Imported(d.product), Tied(s, d)
  PROVE  Tied(r, d)
  BY DEF Continues, Tied

\* The only request goes on to next.
LEMMA OnlyOneWaits ==
  ASSUME OneClient, ApplyInv, NEW c \in Client, NEW next, Wait(c, next), PathInv',
         draft'.revision \in Nat, session' # NoSession => Tied(session', draft'),
         next.kind # "idle" => Waiting(next, session', draft')
  PROVE  ApplyInv'
<1>1. \A d \in Client : request'[d] = next
  BY OneWaits DEF OneClient, ApplyInv, PathInv
<1> QED
  BY <1>1 DEF ApplyInv

\* A request that begins with an edit.
LEMMA EditWaits ==
  ASSUME OneClient, ApplyInv, PathInv', NEW c \in Client, Active, NEW result,
         Follows(session, result), WaitToSave(c, result)
  PROVE  ApplyInv'
<1> DEFINE next == [kind |-> "save", session |-> Settled(result)]
<1>1. Wait(c, next) /\ UNCHANGED <<draft, session>>
  BY DEF WaitToSave
<1>2. Continues(session, next.session) /\ next.kind = "save"
  BY SettledContinues
<1> HIDE DEF next
<1>3. Tied(next.session, draft)
  BY <1>2, ContinuesTied DEF ApplyInv, PathInv, Active, NoSession
<1>4. Waiting(next, session, draft)
  BY <1>2, <1>3 DEF Waiting, Active, Continues
<1> QED
  BY <1>1, <1>4, OnlyOneWaits DEF ApplyInv

\* It holds when the review starts.
LEMMA ApplyInit ==
  ASSUME Init
  PROVE  ApplyInv
  BY PathInit DEF Init, ApplyInv, Idle

\* With one request at a time every step keeps it.
LEMMA ApplyStep ==
  ASSUME OneClient, ApplyInv, [Next]_vars
  PROVE  ApplyInv'
<1> USE DEF Free
<1>p. PathInv'
  BY PathStep DEF ApplyInv
<1>i. Idle.kind = "idle"
  BY DEF Idle
<1>1. ASSUME draft' = draft \/ draft'.revision = draft.revision + 1,
             UNCHANGED <<session, request>>
      PROVE  ApplyInv'
  <2>1. /\ draft'.revision \in Nat
        /\ \A s : Tied(s, draft) => Tied(s, draft')
        /\ \A r, s : Waiting(r, s, draft) => Waiting(r, s, draft')
    BY <1>1, DraftMovesOn DEF ApplyInv
  <2> QED
    BY <1>p, <1>1, <2>1 DEF ApplyInv
<1>2. CASE BuildPlan
  BY <1>1, <1>2, CorrectedDraft DEF BuildPlan, ApplyInv, PathInv
<1>3. CASE UpdateDraft
  BY <1>1, <1>3 DEF UpdateDraft
<1>4. CASE CreateSession
  <2>1. /\ Lawful(session') /\ Content(session') = {} /\ session'.product = draft.product
        /\ session'.base = draft.revision
    BY <1>4, NewSession DEF ApplyInv
  <2>2. Tied(session', draft)
    BY <2>1 DEF Tied, Rooted, ApplyInv
  <2>3. \A c \in Client : request[c].kind = "idle"
    BY <1>4 DEF CreateSession, ApplyInv, Waiting, Active
  <2> QED
    BY <1>p, <1>4, <2>2, <2>3 DEF CreateSession, ApplyInv
<1>5. CASE SelectInPlan
  BY <1>1, <1>5 DEF SelectInPlan
<1>6. CASE Approve
  BY <1>1, <1>6 DEF Approve
<1>7. ASSUME NEW c \in Client, StartEdit(c) PROVE ApplyInv'
  <2>1. PICK edit : WaitToSave(c, Edited(session, edit))
    BY <1>7 DEF StartEdit
  <2>2. Active /\ Lawful(session) /\ Edited(session, edit) # Refused
    BY <1>7, <2>1 DEF StartEdit, WaitToSave, Active, NoSession, ApplyInv, PathInv
  <2> QED
    BY <1>p, <2>1, <2>2, EditedFollows, EditWaits
<1>8. ASSUME NEW c \in Client, StartUndo(c) PROVE ApplyInv'
  <2>1. Active /\ Lawful(session) /\ Undone(session) # Refused /\ WaitToSave(c, Undone(session))
    BY <1>8 DEF StartUndo, WaitToSave, Active, NoSession, ApplyInv, PathInv
  <2> QED
    BY <1>p, <2>1, UndoneFollows, EditWaits
<1>9. ASSUME NEW c \in Client, StartRedo(c) PROVE ApplyInv'
  <2>1. Active /\ Lawful(session) /\ Redone(session) # Refused /\ WaitToSave(c, Redone(session))
    BY <1>9 DEF StartRedo, WaitToSave, Active, NoSession, ApplyInv, PathInv
  <2> QED
    BY <1>p, <2>1, RedoneFollows, EditWaits
<1>10. ASSUME NEW c \in Client, StartReset(c) PROVE ApplyInv'
  <2>1. Active /\ Lawful(session) /\ WaitToSave(c, WasReset(session))
    BY <1>10 DEF StartReset, Active, NoSession, ApplyInv, PathInv
  <2> QED
    BY <1>p, <2>1, WasResetFollows, EditWaits
<1>11. ASSUME NEW c \in Client, SaveEdit(c) PROVE ApplyInv'
  <2>1. /\ Wait(c, Idle) /\ draft' = draft /\ session' = request[c].session
        /\ Tied(request[c].session, draft)
    BY <1>11 DEF SaveEdit, ApplyInv, Waiting
  <2> QED
    BY <1>p, <1>i, <2>1, OnlyOneWaits DEF ApplyInv
<1>12. ASSUME NEW c \in Client, \/ SelectInSession(c) \/ Discard(c) PROVE ApplyInv'
  <2>1. Active /\ Lawful(session) /\ Tied(session, draft) /\ draft' = draft /\ request' = request
    BY <1>12 DEF SelectInSession, Discard, Active, NoSession, ApplyInv, PathInv
  <2>2. \A d \in Client : request[d].kind = "idle"
    BY <1>i, <1>12 DEF SelectInSession, Discard, OneClient
  <2>3. CASE SelectInSession(c)
    <3>1. PICK choice : session' = Selected(session, choice)
      BY <2>3 DEF SelectInSession
    <3>2. Tied(session', draft)
      BY <2>1, <3>1, SelectedContinues, ContinuesTied DEF ApplyInv, PathInv
    <3> QED
      BY <1>p, <2>1, <2>2, <3>2 DEF ApplyInv
  <2>4. CASE Discard(c)
    <3>1. Tied(session', draft)
      BY <2>1, <2>4, OthersTied DEF Discard
    <3> QED
      BY <1>p, <2>1, <2>2, <3>1 DEF ApplyInv
  <2> QED
    BY <1>12, <2>3, <2>4
<1>13. ASSUME NEW c \in Client, StartApply(c) PROVE ApplyInv'
  <2> DEFINE resuming == IsExpectedPartialApply(session, draft)
             next == [kind |-> "store", session |-> session,
                      item |-> Preflight(session.product, session.item), resuming |-> resuming]
  <2>1. Active /\ UNCHANGED <<draft, session>> /\ Wait(c, next)
    BY Zenon, <1>13 DEF StartApply
  <2>2. next.kind = "store" /\ next.session = session /\ next.resuming = resuming
    OBVIOUS
  <2>3. resuming => Reached(session, draft)
    BY DEF IsExpectedPartialApply, Reached
  <2> HIDE DEF next, resuming
  <2>4. Waiting(next, session, draft)
    BY <2>1, <2>2, <2>3 DEF Waiting, Active, NoSession, ApplyInv
  <2> QED
    BY <1>p, <2>1, <2>4, OnlyOneWaits DEF ApplyInv
<1>14. ASSUME NEW c \in Client, RefuseApply(c) PROVE ApplyInv'
  <2>1. /\ Wait(c, Idle) /\ draft' = draft
        /\ Lawful(request[c].session) /\ Tied(request[c].session, draft)
        /\ session' = [request[c].session EXCEPT !.product = InferDimensions(@),
                         !.item = request[c].item, !.errors = FieldErrors(request[c].item)]
    BY <1>14 DEF RefuseApply, ApplyInv, PathInv, Waiting
  <2>2. Continues(request[c].session, session')
    BY <2>1, RefusedContinues
  <2>3. Tied(session', draft)
    BY <2>1, <2>2, ContinuesTied DEF ApplyInv, PathInv
  <2> QED
    BY <1>p, <1>i, <2>1, <2>3, OnlyOneWaits DEF ApplyInv
<1>15. ASSUME NEW c \in Client, StoreDraft(c) PROVE ApplyInv'
  <2> DEFINE r == request[c]
             s == IF r.resuming THEN r.session ELSE Checkpointed(r)
             next == [kind |-> "plan", session |-> s, resuming |-> r.resuming]
  <2>1. /\ Lawful(r.session) /\ Waiting(r, session, draft) /\ r.kind = "store" /\ Wait(c, next)
        /\ r.resuming => UNCHANGED <<session, draft>>
        /\ ~r.resuming =>
             /\ session' = s
             /\ draft' = [revision |-> s.base + 1, product |-> InferDimensions(s.product)]
    BY <1>15 DEF StoreDraft, ApplyInv, PathInv
  <2>2. next.kind = "plan" /\ next.session = s
    OBVIOUS
  <2>3. CASE r.resuming
    <3>1. s = r.session
      BY <2>3
    <3> HIDE DEF r, s, next
    <3>2. Waiting(next, session, draft)
      BY <2>1, <2>2, <2>3, <3>1 DEF Waiting
    <3> QED
      BY <1>p, <2>1, <2>3, <3>2, OnlyOneWaits DEF ApplyInv
  <2>4. CASE ~r.resuming
    <3>1. s = [r.session EXCEPT !.item = r.item,
                                !.checkpoint = InferDimensions(r.session.product)]
      BY <2>4 DEF Checkpointed
    <3>2. DOMAIN r.session = SessionFields
      BY <2>1 DEF Lawful, Shaped
    <3>3. /\ DOMAIN s = SessionFields /\ s.status = r.session.status /\ s.base = r.session.base
          /\ s.product = r.session.product
      <4> HIDE DEF r, s
      <4> QED
        BY <3>1, <3>2 DEF SessionFields
    <3> HIDE DEF s, next
    <3>4. s.base \in Nat /\ s.status = "active"
      BY <2>1, <3>3 DEF Waiting, Tied
    <3> HIDE DEF r
    <3>5. /\ draft'.revision = s.base + 1 /\ draft'.product = InferDimensions(s.product)
          /\ session' = s
      BY <2>1, <2>4
    <3>6. draft'.revision \in Nat /\ Tied(s, draft') /\ Reached(s, draft')
      BY <3>4, <3>5 DEF Tied, Reached
    <3>7. Waiting(next, session', draft')
      BY <2>2, <3>4, <3>5, <3>6 DEF Waiting
    <3> QED
      BY <1>p, <2>1, <3>5, <3>6, <3>7, OnlyOneWaits
  <2> QED
    BY <2>3, <2>4
<1>16. ASSUME NEW c \in Client, DraftWriteFails(c) PROVE ApplyInv'
  <2>1. /\ Wait(c, Idle) /\ draft' = draft
        /\ Lawful(request[c].session) /\ Tied(request[c].session, draft)
        /\ session' = Checkpointed(request[c])
    BY <1>16 DEF DraftWriteFails, ApplyInv, PathInv, Waiting
  <2>2. Tied(session', draft)
    BY <2>1, OthersTied DEF Checkpointed
  <2> QED
    BY <1>p, <1>i, <2>1, <2>2, OnlyOneWaits DEF ApplyInv
<1>17. ASSUME NEW c \in Client, FinishApply(c) PROVE ApplyInv'
  <2>1. /\ Wait(c, Idle)
        /\ draft' = draft \/ draft' \in Corrections(draft)
        /\ Lawful(request[c].session) /\ Tied(request[c].session, draft)
        /\ session' = [request[c].session EXCEPT !.status = "applied", !.checkpoint = Absent]
    BY <1>17 DEF FinishApply, ApplyInv, PathInv, Waiting
  <2>2. draft' = draft \/ draft'.revision = draft.revision + 1
    BY <2>1, CorrectedDraft DEF ApplyInv, PathInv
  <2>3. /\ draft'.revision \in Nat
        /\ Tied(session', draft) => Tied(session', draft')
    BY <2>2, DraftMovesOn DEF ApplyInv
  <2>4. Tied(session', draft)
    BY <2>1, OthersTied
  <2> QED
    BY <1>p, <1>i, <2>1, <2>3, <2>4, OnlyOneWaits
<1>18. ASSUME NEW c \in Client, RequestFails(c) PROVE ApplyInv'
  BY <1>p, <1>i, <1>18, OnlyOneWaits DEF RequestFails, ApplyInv
<1>19. CASE UNCHANGED vars
  BY <1>1, <1>19 DEF vars
<1> QED
  BY Zenon, <1>2, <1>3, <1>4, <1>5, <1>6, <1>7, <1>8, <1>9, <1>10, <1>11, <1>12, <1>13,
     <1>14, <1>15, <1>16, <1>17, <1>18, <1>19 DEF Next

\* One request at a time: with every edit undone or reset the session holds the product of
\* the draft it was made from, however often the merchant edited and undid, and whatever
\* selection the history holds besides.
THEOREM UndoneIsDraft == OneClient => (Spec => []UndoRestoresDraft)
<1> SUFFICES ASSUME OneClient PROVE Spec => []UndoRestoresDraft
  OBVIOUS
<1>1. Init => ApplyInv
  BY ApplyInit
<1>2. ApplyInv /\ [Next]_vars => ApplyInv'
  BY ApplyStep
<1>3. ApplyInv => UndoRestoresDraft
  <2> SUFFICES ASSUME ApplyInv, session # NoSession, session.cursor = 0,
                      draft.revision = session.base
               PROVE  session.product \in {draft.product, InferDimensions(draft.product)}
    BY DEF UndoRestoresDraft
  <2>1. /\ Shaped(session) /\ Traced(session, session.product) /\ Imported(draft.product)
        /\ Rooted(session, session.product, draft.product)
    BY DEF ApplyInv, PathInv, Lawful, Tied
  <2>2. \A i \in Content(session) : session.cursor < i
    BY <2>1, Entries
  <2> QED
    BY <2>1, <2>2, BackAtOrigin
<1> QED
  BY <1>1, <1>2, <1>3, PTL DEF Spec

\* One request at a time: whichever write of an apply fails, and however it is resumed, a
\* session ends as applied only when the draft holds its product or has moved past it.
THEOREM AppliedIsStored == OneClient => (Spec => ApplyReachesDraft)
<1> SUFFICES ASSUME OneClient PROVE Spec => ApplyReachesDraft
  OBVIOUS
<1> DEFINE Reaches == session # NoSession /\ session'.status = "applied" /\ session' # session =>
                        \/ draft.revision > session'.base + 1
                        \/ /\ draft.revision = session'.base + 1
                           /\ draft.product \in {session'.product,
                                                 InferDimensions(session'.product)}
<1>1. Init => ApplyInv
  BY ApplyInit
<1>2. ApplyInv /\ [Next]_vars => ApplyInv'
  BY ApplyStep
<1>3. ApplyInv /\ [Next]_vars => [Reaches]_vars
  <2> SUFFICES ASSUME ApplyInv, Next, session'.status = "applied", session' # session
               PROVE  \/ draft.revision > session'.base + 1
                      \/ /\ draft.revision = session'.base + 1
                         /\ draft.product \in {session'.product,
                                               InferDimensions(session'.product)}
    BY DEF Reaches
  <2> USE DEF Free, Active
  <2>1. ~BuildPlan /\ ~UpdateDraft /\ ~SelectInPlan /\ ~Approve
    BY DEF BuildPlan, UpdateDraft, SelectInPlan, Approve
  <2>2. ~CreateSession
    BY NewSession DEF ApplyInv
  <2>3. ASSUME NEW c \in Client
        PROVE  /\ ~StartEdit(c) /\ ~StartUndo(c) /\ ~StartRedo(c) /\ ~StartReset(c)
               /\ ~StartApply(c) /\ ~RequestFails(c)
    BY DEF StartEdit, StartUndo, StartRedo, StartReset, StartApply, RequestFails, WaitToSave
  <2>4. ASSUME NEW c \in Client, request[c].kind # "idle"
        PROVE  request[c].session.status = "active" /\ Lawful(request[c].session)
    BY <2>4 DEF ApplyInv, PathInv, Waiting
  <2>5. ASSUME NEW c \in Client PROVE ~SaveEdit(c)
    BY <2>4 DEF SaveEdit
  <2>6. ASSUME NEW c \in Client PROVE ~SelectInSession(c)
    BY SelectedContinues DEF SelectInSession, ApplyInv, PathInv, Continues, NoSession
  <2>7. ASSUME NEW c \in Client PROVE ~Discard(c)
    <3>1. Discard(c) => DOMAIN session = SessionFields
      BY DEF Discard, ApplyInv, PathInv, Lawful, Shaped, NoSession
    <3> QED
      BY <3>1 DEF Discard, SessionFields
  <2>8. ASSUME NEW c \in Client PROVE ~RefuseApply(c)
    <3> SUFFICES ASSUME RefuseApply(c) PROVE FALSE
      OBVIOUS
    <3> DEFINE r == request[c]
    <3>1. /\ r.kind = "store"
          /\ session' = [r.session EXCEPT !.product = InferDimensions(@), !.item = r.item,
                                          !.errors = FieldErrors(r.item)]
      BY DEF RefuseApply
    <3>2. r.session.status = "active" /\ Lawful(r.session)
      BY <2>4, <3>1
    <3>3. Continues(r.session, session')
      BY <3>1, <3>2, RefusedContinues
    <3> HIDE DEF r
    <3> QED
      BY <3>2, <3>3 DEF Continues
  <2>9. ASSUME NEW c \in Client PROVE ~DraftWriteFails(c) /\ ~StoreDraft(c)
    <3> SUFFICES ASSUME DraftWriteFails(c) \/ StoreDraft(c) PROVE FALSE
      OBVIOUS
    <3> DEFINE r == request[c]
    <3>1. /\ r.kind = "store"
          /\ session' = [r.session EXCEPT !.item = r.item,
                                          !.checkpoint = InferDimensions(r.session.product)]
      BY DEF DraftWriteFails, StoreDraft, Checkpointed
    <3>2. r.session.status = "active" /\ Lawful(r.session)
      BY <2>4, <3>1
    <3>3. [r.session EXCEPT !.item = r.item,
                            !.checkpoint = InferDimensions(r.session.product)].status
            = r.session.status
      <4> HIDE DEF r
      <4>1. DOMAIN r.session = SessionFields
        BY <3>2 DEF Lawful, Shaped
      <4> QED
        BY <4>1 DEF SessionFields
    <3> QED
      BY Zenon, <3>1, <3>2, <3>3
  <2>10. PICK c \in Client : FinishApply(c)
    BY Zenon, <2>1, <2>2, <2>3, <2>5, <2>6, <2>7, <2>8, <2>9 DEF Next
  <2>11. /\ Reached(request[c].session, draft) /\ Lawful(request[c].session)
         /\ session' = [request[c].session EXCEPT !.status = "applied", !.checkpoint = Absent]
    BY <2>10 DEF FinishApply, ApplyInv, PathInv, Waiting
  <2>12. session'.base = request[c].session.base /\ session'.product = request[c].session.product
    BY <2>11 DEF Lawful, Shaped, SessionFields
  <2> QED
    BY <2>11, <2>12 DEF Reached
<1> QED
  BY <1>1, <1>2, <1>3, PTL DEF Spec, ApplyReachesDraft, Reaches

-----------------------------------------------------------------------------
(* Every item is what some imported product makes of the live one.         *)

\* What the product makes of the live one once its dimensions are found
MadeOf(item, old, product) == Made(item, old, InferDimensions(product), TakenSkus)

\* The item of a session may still be the plan's, until an edit or an apply computes it
SessionMade(s, old) ==
  /\ \E p : Imported(p) /\ Made(s.item, old, p, TakenSkus)
  /\ s.touched # {} \/ s.checkpoint # Absent => MadeOf(s.item, old, s.product)
  /\ s.touched # {} => InferDimensions(s.product) = s.product

RequestMade(r, old) ==
  /\ SessionMade(r.session, old)
  /\ r.kind = "store" =>
       /\ MadeOf(r.item, old, r.session.product)
       /\ r.item.intent \in {"include", r.session.item.intent}
       /\ r.resuming => r.session.checkpoint # Absent
  /\ r.kind = "plan" =>
       /\ MadeOf(r.session.item, old, r.session.product)
       /\ r.session.item.intent = "include" => r.session.item.blockers = {}

\* A plan is built with required values from the live product, a session's item without
PlanMade(n, old) ==
  /\ DOMAIN n = {"revision", "source", "item"}
  /\ Imported(n.source) /\ InferDimensions(n.source) = n.source
  /\ \E p \in {n.source, CarryForward(old, n.source)} : Made(n.item, old, p, TakenSkus)

\* What may be written of the source of the plan
Safe(w, old, source) ==
  /\ Unique(w.product) /\ Keeps(w.product, old)
  /\ Own(w.product, old, source) /\ Faithful(w.inventory, old, source)

MadeInv ==
  /\ PathInv
  /\ Identified(Old)
  /\ plan # Absent => PlanMade(plan, Old)
  /\ session # NoSession => PlanMade(plan, Old) /\ SessionMade(session, Old)
  /\ \A c \in Client : request[c].kind # "idle" =>
       PlanMade(plan, Old) /\ RequestMade(request[c], Old)
  /\ payload # Absent => Safe(payload, Old, plan.source)

\* Choosing rows changes neither the proposal nor what blocks it.
LEMMA ChoiceIsMade ==
  ASSUME NEW item, NEW old, NEW p, Made(item, old, p, TakenSkus), NEW choice, NEW prior
  PROVE  /\ Made(SetSelection(item, choice), old, p, TakenSkus)
         /\ SetSelection(item, choice).blockers = item.blockers
         /\ Made(PreserveSelection(item, prior), old, p, TakenSkus)
         /\ PreserveSelection(item, prior).blockers = item.blockers
<1>1. /\ DOMAIN item = {"proposed", "blockers", "operation", "intent", "selected", "rows"}
      /\ item.blockers = {} =>
           \A r \in item.rows : DOMAIN r = RowFields /\ Backed(r, old, p, item.proposed)
  BY DEF Made, Backed
<1>2. ASSUME item.blockers = {}, NEW r \in item.rows, NEW included
      PROVE  Backed([r EXCEPT !.included = included], old, p, item.proposed)
  BY <1>1, <1>2, BackedStill DEF RowFields
<1>3. ASSUME NEW q, DOMAIN q = DOMAIN item, q.proposed = item.proposed,
             q.blockers = item.blockers,
             item.blockers = {} => \A r \in q.rows : Backed(r, old, p, item.proposed)
      PROVE  Made(q, old, p, TakenSkus)
  BY <1>3 DEF Made
<1>4. /\ Made(SetSelection(item, choice), old, p, TakenSkus)
      /\ SetSelection(item, choice).blockers = item.blockers
  <2> DEFINE rows == {[r EXCEPT !.included = r.id \in choice.included] : r \in item.rows}
  <2>1. item.blockers = {} => \A r \in rows : Backed(r, old, p, item.proposed)
    BY <1>2
  <2>2. SetSelection(item, choice)
          = [item EXCEPT !.selected = choice.selected, !.intent = choice.intent, !.rows = rows]
    BY DEF SetSelection
  <2> DEFINE q == SetSelection(item, choice)
  <2> HIDE DEF rows
  <2>3. /\ DOMAIN q = DOMAIN item /\ q.proposed = item.proposed /\ q.blockers = item.blockers
        /\ q.rows = rows
    BY <1>1, <2>2
  <2> HIDE DEF q
  <2>4. Made(q, old, p, TakenSkus)
    BY <1>3, <2>1, <2>3
  <2> QED
    BY <2>3, <2>4 DEF q
<1>5. /\ Made(PreserveSelection(item, prior), old, p, TakenSkus)
      /\ PreserveSelection(item, prior).blockers = item.blockers
  <2> DEFINE chosen == item.operation \in {"create", "update"} /\ prior.selected
             stays(r) == /\ chosen /\ r.disposition = "applicable"
                         /\ r.required \/ r.id \in Selection(prior).included
             rows == {[r EXCEPT !.included = stays(r)] : r \in item.rows}
  <2> HIDE DEF stays
  <2>1. item.blockers = {} => \A r \in rows : Backed(r, old, p, item.proposed)
    BY <1>2
  <2>2. PreserveSelection(item, prior)
          = [item EXCEPT !.intent = prior.intent, !.selected = chosen, !.rows = rows]
    BY DEF PreserveSelection, stays
  <2> DEFINE q == PreserveSelection(item, prior)
  <2> HIDE DEF rows, chosen
  <2>3. /\ DOMAIN q = DOMAIN item /\ q.proposed = item.proposed /\ q.blockers = item.blockers
        /\ q.rows = rows
    BY <1>1, <2>2
  <2> HIDE DEF q
  <2>4. Made(q, old, p, TakenSkus)
    BY <1>3, <2>1, <2>3
  <2> QED
    BY <2>3, <2>4 DEF q
<1> QED
  BY <1>4, <1>5

\* The item computed from the product being edited.
LEMMA PreflightIsMade ==
  ASSUME NEW product, NEW item
  PROVE  /\ MadeOf(Preflight(product, item), Old, product)
         /\ Preflight(product, item).intent \in {"include", item.intent}
  BY ItemIsMade DEF Preflight, MadeOf, Old

\* What an edit, undo, redo or reset stores.
LEMMA SettledIsMade ==
  ASSUME NEW r, Shaped(r)
  PROVE  SessionMade(Settled(r), Old)
<1> DEFINE product == InferDimensions(r.product)
           item == Preflight(r.product, r.item)
           q == Settled(r)
<1>1. DOMAIN r = SessionFields /\ Imported(product) /\ InferDimensions(product) = product
  BY NamesFoundOnce DEF Shaped
<1>2. Made(item, Old, product, TakenSkus)
  BY PreflightIsMade DEF MadeOf
<1>3. q = [r EXCEPT !.product = product, !.item = item, !.errors = FieldErrors(item),
                    !.edit = r.edit + 1]
  BY DEF Settled, SettledWith
<1> HIDE DEF item, product, q
<1>4. q.item = item /\ q.product = product
  BY <1>1, <1>3 DEF SessionFields
<1>5. SessionMade(q, Old)
  BY <1>1, <1>2, <1>4 DEF SessionMade, MadeOf
<1> QED
  BY <1>5 DEF q

\* What a choice of rows stores.
LEMMA SelectedIsMade ==
  ASSUME NEW s, Lawful(s), NEW old, SessionMade(s, old), NEW choice
  PROVE  SessionMade(Selected(s, choice), old)
<1> DEFINE entry == [edit |-> [kind |-> "selection"], before |-> Selection(s.item),
                     after |-> choice]
           q == Recorded(s, entry)
           item == SetSelection(s.item, choice)
           r == Selected(s, choice)
<1>1. /\ DOMAIN q = SessionFields
      /\ \A f \in SessionFields \ {"history", "cursor"} : q[f] = s[f]
  BY RecordedEntry DEF Lawful
<1>2. r = [q EXCEPT !.item = item, !.errors = FieldErrors(item), !.edit = q.edit + 1]
  BY DEF Selected
<1>3. \A p : Made(s.item, old, p, TakenSkus) => Made(item, old, p, TakenSkus)
  BY ChoiceIsMade
<1> HIDE DEF item, q, r
<1>4. /\ r.item = item /\ r.product = s.product /\ r.touched = s.touched
      /\ r.checkpoint = s.checkpoint
  BY <1>1, <1>2 DEF SessionFields
<1>5. SessionMade(r, old)
  BY <1>3, <1>4 DEF SessionMade, MadeOf
<1> QED
  BY <1>5 DEF r

\* What an apply stores of a session it read.
LEMMA ApplyIsMade ==
  ASSUME NEW s, Lawful(s), NEW old, SessionMade(s, old),
         NEW item, MadeOf(item, old, s.product), NEW errors, NEW status
  PROVE  LET found == InferDimensions(s.product)
         IN  /\ SessionMade([s EXCEPT !.product = InferDimensions(@), !.item = item,
                                      !.errors = errors], old)
             /\ SessionMade([s EXCEPT !.item = item, !.checkpoint = found], old)
             /\ MadeOf([s EXCEPT !.item = item, !.checkpoint = found].item, old, s.product)
             /\ SessionMade([s EXCEPT !.status = status, !.checkpoint = Absent], old)
<1> DEFINE found == InferDimensions(s.product)
<1>1. DOMAIN s = SessionFields /\ Imported(found) /\ InferDimensions(found) = found
  BY NamesFoundOnce DEF Lawful, Shaped
<1>m. Made(item, old, found, TakenSkus)
  BY DEF MadeOf
<1>f. found = InferDimensions(s.product)
  OBVIOUS
<1> HIDE DEF found
<1>2. ASSUME NEW r, \/ r = [s EXCEPT !.product = found, !.item = item, !.errors = errors]
                    \/ r = [s EXCEPT !.item = item, !.checkpoint = found]
      PROVE  SessionMade(r, old)
  <2>1. r.item = item /\ r.product \in {s.product, found} /\ r.touched = s.touched
    BY <1>1, <1>2 DEF SessionFields
  <2>2. s.touched # {} => found = s.product
    BY <1>f DEF SessionMade
  <2> QED
    BY <1>1, <1>m, <1>f, <2>1, <2>2 DEF SessionMade, MadeOf
<1>4. [s EXCEPT !.item = item, !.checkpoint = found].item = item
  BY <1>1 DEF SessionFields
<1>3. ASSUME NEW r, r = [s EXCEPT !.status = status, !.checkpoint = Absent]
      PROVE  SessionMade(r, old)
  <2>1. /\ r.item = s.item /\ r.product = s.product /\ r.touched = s.touched
        /\ r.checkpoint = Absent
    BY <1>1, <1>3 DEF SessionFields
  <2> QED
    BY <2>1 DEF SessionMade
<1> QED
  BY <1>2, <1>3, <1>4 DEF found

\* A new plan.
LEMMA NewPlanIsMade ==
  ASSUME NEW d, Imported(d.product), InferDimensions(d.product) = d.product
  PROVE  PlanMade(NewPlan(d), Old)
<1> DEFINE prior == IF plan = Absent THEN Absent ELSE plan.item
           p == CarryForward(Old, d.product)
<1>1. NewPlan(d) = [revision |-> d.revision, source |-> d.product,
                    item |-> ItemOf(live, p, prior, TakenSkus)]
  BY DEF NewPlan, PlanItemOf, Old
<1>2. Made(ItemOf(live, p, prior, TakenSkus), Old, p, TakenSkus)
  BY ItemIsMade DEF Old
<1> QED
  BY <1>1, <1>2 DEF PlanMade

\* The plan that an apply leaves, from the plan that is built or found
AppliedPlan(n, s) ==
  [n EXCEPT !.item = AppliedItem(n.item, s),
            !.source = IF s.touched = {} THEN n.source ELSE s.product]

\* It tells what its source makes of the live product.
LEMMA AppliedIsMade ==
  ASSUME NEW n, PlanMade(n, Old), NEW s, SessionMade(s, Old), Imported(s.product)
  PROVE  /\ PlanMade(AppliedPlan(n, s), Old)
         /\ AppliedPlan(n, s).source = IF s.touched = {} THEN n.source ELSE s.product
         /\ AppliedPlan(n, s).item.blockers
              = IF s.touched = {} THEN n.item.blockers ELSE s.item.blockers
<1> DEFINE q == AppliedPlan(n, s)
<1>1. /\ DOMAIN q = {"revision", "source", "item"} /\ q.item = AppliedItem(n.item, s)
      /\ q.source = IF s.touched = {} THEN n.source ELSE s.product
  BY DEF PlanMade, AppliedPlan
<1> HIDE DEF q
<1> DEFINE Told == /\ PlanMade(q, Old)
                   /\ q.item.blockers
                        = IF s.touched = {} THEN n.item.blockers ELSE s.item.blockers
<1>2. ASSUME s.touched = {} PROVE Told
  <2>1. q.item = PreserveSelection(n.item, s.item) /\ q.source = n.source
    BY <1>1, <1>2 DEF AppliedItem
  <2>2. PICK p \in {n.source, CarryForward(Old, n.source)} :
          Made(n.item, Old, p, TakenSkus)
    BY DEF PlanMade
  <2>3. Made(q.item, Old, p, TakenSkus) /\ q.item.blockers = n.item.blockers
    BY <2>1, <2>2, ChoiceIsMade
  <2>4. PlanMade(q, Old)
    BY <1>1, <2>1, <2>2, <2>3 DEF PlanMade
  <2> QED
    BY <1>2, <2>1, <2>3, <2>4
<1>3. ASSUME s.touched # {} PROVE Told
  <2> DEFINE edited == ReviewItem(live, s.product, s.item.proposed, s.item.blockers, s.item, NoRename)
  <2>1. q.item = PreserveSelection(edited, s.item) /\ q.source = s.product
    BY <1>1, <1>3 DEF AppliedItem
  <2>2. Made(s.item, Old, s.product, TakenSkus) /\ InferDimensions(s.product) = s.product
    BY <1>3 DEF SessionMade, MadeOf
  <2>3. Made(edited, Old, s.product, TakenSkus) /\ edited.blockers = s.item.blockers
    <3>1. /\ s.item.proposed = Proposed(Old, s.product)
          /\ s.item.blockers = Blocking(Old, s.product, s.item.proposed, TakenSkus)
      BY <2>2 DEF Made
    <3>2. s.item.blockers \cup SkuBlockers(s.item.proposed) = s.item.blockers
      BY <3>1 DEF Blocking
    <3>3. s.item.blockers \cup SkuBlockers(s.item.proposed)
            = Blocking(Product(live), s.product, s.item.proposed, TakenSkus)
      BY <3>1, <3>2 DEF Old
    <3>4. Made(edited, Old, s.product, TakenSkus)
      BY <3>1, <3>3, ReviewItemIsMade DEF Old
    <3> QED
      BY <3>2, <3>4, ReviewItemHas
  <2> HIDE DEF edited
  <2>4. Made(q.item, Old, s.product, TakenSkus) /\ q.item.blockers = s.item.blockers
    BY <2>1, <2>3, ChoiceIsMade
  <2>5. PlanMade(q, Old)
    BY <1>1, <2>1, <2>2, <2>4 DEF PlanMade
  <2> QED
    BY <1>3, <2>1, <2>4, <2>5
<1> QED
  BY <1>1, <1>2, <1>3 DEF q

\* What a step stores is enough to know.
LEMMA MadeGoesOn ==
  ASSUME MadeInv, PathInv', live' = live,
         plan' = plan \/ PlanMade(plan', Old),
         session' = session \/ (PlanMade(plan, Old) /\ SessionMade(session', Old)),
         \/ request' = request
         \/ \E c \in Client : \E next :
              /\ Wait(c, next)
              /\ next.kind # "idle" => PlanMade(plan, Old) /\ RequestMade(next, Old),
         payload' = Absent \/ Safe(payload', Old, plan'.source)
  PROVE  MadeInv'
<1>1. Old' = Old
  BY DEF Old
<1>2. PlanMade(plan, Old) => PlanMade(plan', Old)
  OBVIOUS
<1>3. \A c \in Client : request'[c].kind # "idle" =>
        PlanMade(plan', Old) /\ RequestMade(request'[c], Old)
  <2>1. CASE request' = request
    BY <1>2, <2>1 DEF MadeInv
  <2>2. ASSUME NEW c \in Client, NEW next, Wait(c, next),
               next.kind # "idle" => PlanMade(plan, Old) /\ RequestMade(next, Old)
        PROVE  <1>3!:
    <3>1. request'[c] = next /\ \A d \in Client : d # c => request'[d] = request[d]
      BY <2>2, OneWaits DEF MadeInv, PathInv
    <3> QED
      BY <1>2, <2>2, <3>1 DEF MadeInv
  <2> QED
    BY <2>1, <2>2
<1>4. session' # NoSession => PlanMade(plan', Old) /\ SessionMade(session', Old)
  BY <1>2 DEF MadeInv, NoSession
<1>5. plan' # Absent => PlanMade(plan', Old)
  BY DEF MadeInv
<1>6. payload' # Absent => Safe(payload', Old, plan'.source)
  OBVIOUS
<1>7. Identified(Old')
  BY <1>1 DEF MadeInv
<1> QED
  BY <1>1, <1>3, <1>4, <1>5, <1>6, <1>7 DEF MadeInv, NoSession

\* It holds when the review starts.
LEMMA MadeInit ==
  ASSUME Init
  PROVE  MadeInv
<1>1. PathInv
  BY PathInit
<1>2. Identified(Old)
  BY ProductsAssumption DEF Init, Old
<1> QED
  BY <1>1, <1>2 DEF Init, MadeInv, Idle

\* What waits to be saved is made of the session's product.
LEMMA WaitingIsMade ==
  ASSUME MadeInv, PathInv', session # NoSession, payload = Absent,
         NEW c \in Client, NEW r, Shaped(r), WaitToSave(c, r)
  PROVE  MadeInv'
<1> DEFINE next == [kind |-> "save", session |-> Settled(r)]
<1>1. Wait(c, next) /\ UNCHANGED <<live, plan, session, payload>>
  BY DEF WaitToSave
<1>2. next.kind = "save" /\ next.session = Settled(r)
  OBVIOUS
<1>3. RequestMade(next, Old)
  BY <1>2, SettledIsMade DEF RequestMade
<1>4. PlanMade(plan, Old)
  BY DEF MadeInv
<1> HIDE DEF next
<1> QED
  BY <1>1, <1>3, <1>4, MadeGoesOn

\* What is written has the shape of the proposal, and the values and quantities of its
\* source.
LEMMA ApprovedIsSafe ==
  ASSUME MadeInv, Approve
  PROVE  Safe(payload', Old, plan.source)
<1>1. PlanMade(plan, Old) /\ plan.item.blockers = {} /\ Identified(Old)
  BY DEF MadeInv, Approve, NoPlan
<1>2. PICK p \in {plan.source, CarryForward(Old, plan.source)} :
        Imported(p) /\ Made(plan.item, Old, p, TakenSkus)
  BY <1>1, CarryForwardImported DEF PlanMade
<1>3. /\ payload'.product = ExecutionProduct(plan.item)
      /\ payload'.inventory = InventoryOperations(plan.item, live)
  BY DEF Approve
<1>4. Unique(payload'.product) /\ Keeps(payload'.product, Old)
  BY <1>1, <1>2, <1>3, FrozenIsSafe
<1>5. Faithful(payload'.inventory, Old, plan.source)
  <2>1. Imported(plan.source)
    BY <1>1 DEF PlanMade
  <2> QED
    BY <1>1, <1>2, <1>3, <2>1, InventoryIsFaithful DEF Old
<1>6. Own(payload'.product, Old, plan.source)
  <2>1. Imported(plan.source)
    BY <1>1 DEF PlanMade
  <2> QED
    BY <1>1, <1>2, <1>3, <2>1, FrozenIsOwn
<1> QED
  BY <1>4, <1>5, <1>6 DEF Safe

\* Every step keeps it.
LEMMA MadeStep ==
  ASSUME MadeInv, Next
  PROVE  MadeInv'
<1> USE DEF Free
<1>p. PathInv /\ PathInv' /\ payload = Absent
  BY PathStep DEF MadeInv, Next
<1>a. Active => /\ session # NoSession /\ Lawful(session)
                /\ PlanMade(plan, Old) /\ SessionMade(session, Old)
  BY <1>p DEF Active, NoSession, PathInv, MadeInv
<1>1. CASE BuildPlan
  <2>1. Imported(draft'.product) /\ InferDimensions(draft'.product) = draft'.product
    BY <1>1, <1>p, CorrectedDraft DEF PathInv, BuildPlan
  <2>2. PlanMade(plan', Old)
    <3>1. plan' = [revision |-> draft'.revision, source |-> draft'.product,
                   item |-> PlanItemOf(live, draft'.product,
                              IF plan = Absent THEN Absent ELSE plan.item, TakenSkus)]
      BY <1>1 DEF BuildPlan, NewPlan
    <3> QED
      BY <2>1, <3>1, NewPlanIsMade DEF NewPlan
  <2> QED
    BY <1>1, <1>p, <2>2, MadeGoesOn DEF BuildPlan
<1>2. CASE UpdateDraft
  BY <1>2, <1>p, MadeGoesOn DEF UpdateDraft
<1>3. CASE CreateSession
  <2>1. /\ session'.item = plan.item /\ session'.touched = {} /\ session'.checkpoint = Absent
        /\ PlanMade(plan, Old)
    BY <1>3 DEF CreateSession, NoPlan, MadeInv
  <2>2. \E p : Imported(p) /\ Made(plan.item, Old, p, TakenSkus)
    BY <2>1, CarryForwardImported DEF PlanMade
  <2>3. SessionMade(session', Old)
    BY <2>1, <2>2 DEF SessionMade
  <2> QED
    BY <1>3, <1>p, <2>1, <2>3, MadeGoesOn DEF CreateSession
<1>4. CASE SelectInPlan
  <2>1. PICK choice : plan' = [plan EXCEPT !.item = SetSelection(plan.item, choice)]
    BY <1>4 DEF SelectInPlan
  <2>2. PlanMade(plan, Old)
    BY <1>4 DEF SelectInPlan, NoPlan, MadeInv
  <2>3. /\ DOMAIN plan' = DOMAIN plan /\ plan'.source = plan.source
        /\ plan'.item = SetSelection(plan.item, choice)
    BY <2>1, <2>2 DEF PlanMade
  <2>4. PlanMade(plan', Old)
    BY <2>2, <2>3, ChoiceIsMade DEF PlanMade
  <2> QED
    BY <1>4, <1>p, <2>4, MadeGoesOn DEF SelectInPlan
<1>5. CASE Approve
  BY <1>5, <1>p, ApprovedIsSafe, MadeGoesOn DEF Approve
<1>6. ASSUME NEW c \in Client, StartEdit(c) PROVE MadeInv'
  <2>1. PICK edit : WaitToSave(c, Edited(session, edit))
    BY <1>a, <1>6 DEF StartEdit
  <2>2. Edited(session, edit) # Refused
    BY <2>1 DEF WaitToSave
  <2> QED
    BY <1>a, <1>p, <1>6, <2>1, <2>2, EditedFollows, WaitingIsMade DEF StartEdit, Follows
<1>7. ASSUME NEW c \in Client, StartUndo(c) PROVE MadeInv'
  BY <1>a, <1>p, <1>7, UndoneFollows, WaitingIsMade DEF StartUndo, WaitToSave, Follows
<1>8. ASSUME NEW c \in Client, StartRedo(c) PROVE MadeInv'
  BY <1>a, <1>p, <1>8, RedoneFollows, WaitingIsMade DEF StartRedo, WaitToSave, Follows
<1>9. ASSUME NEW c \in Client, StartReset(c) PROVE MadeInv'
  BY <1>a, <1>p, <1>9, WasResetFollows, WaitingIsMade DEF StartReset, Follows
<1>10. ASSUME NEW c \in Client, SaveEdit(c) PROVE MadeInv'
  <2>1. PlanMade(plan, Old) /\ SessionMade(session', Old) /\ Wait(c, Idle)
    BY <1>10 DEF SaveEdit, MadeInv, RequestMade
  <2> QED
    BY <1>10, <1>p, <2>1, MadeGoesOn DEF SaveEdit, Idle
<1>11. ASSUME NEW c \in Client, SelectInSession(c) PROVE MadeInv'
  <2>1. PlanMade(plan, Old) /\ SessionMade(session', Old)
    BY <1>a, <1>11, SelectedIsMade DEF SelectInSession
  <2> QED
    BY <1>11, <1>p, <2>1, MadeGoesOn DEF SelectInSession
<1>12. ASSUME NEW c \in Client, Discard(c) PROVE MadeInv'
  <2>1. session' = [session EXCEPT !.status = "discarded"] /\ DOMAIN session = SessionFields
    BY <1>a, <1>12 DEF Discard, Lawful, Shaped
  <2>2. /\ session'.item = session.item /\ session'.product = session.product
        /\ session'.touched = session.touched /\ session'.checkpoint = session.checkpoint
    BY <2>1 DEF SessionFields
  <2>3. PlanMade(plan, Old) /\ SessionMade(session', Old)
    BY <1>a, <1>12, <2>2 DEF Discard, SessionMade
  <2> QED
    BY <1>12, <1>p, <2>3, MadeGoesOn DEF Discard
<1>13. ASSUME NEW c \in Client, StartApply(c) PROVE MadeInv'
  <2> DEFINE resuming == IsExpectedPartialApply(session, draft)
             item == Preflight(session.product, session.item)
             next == [kind |-> "store", session |-> session, item |-> item, resuming |-> resuming]
  <2>1. Active /\ UNCHANGED <<live, plan, session, payload>> /\ Wait(c, next)
    BY <1>13 DEF StartApply
  <2>2. /\ MadeOf(item, Old, session.product)
        /\ item.intent \in {"include", session.item.intent}
    BY PreflightIsMade
  <2>3. resuming => session.checkpoint # Absent
    BY DEF IsExpectedPartialApply
  <2>4. /\ next.kind = "store" /\ next.session = session /\ next.item = item
        /\ next.resuming = resuming
    OBVIOUS
  <2> HIDE DEF next, item, resuming
  <2>5. RequestMade(next, Old)
    BY <1>a, <2>1, <2>2, <2>3, <2>4 DEF RequestMade
  <2> QED
    BY <1>a, <1>p, <2>1, <2>5, MadeGoesOn
<1>14. ASSUME NEW c \in Client, request[c].kind = "store"
       PROVE  /\ PlanMade(plan, Old)
              /\ Lawful(request[c].session) /\ SessionMade(request[c].session, Old)
              /\ MadeOf(request[c].item, Old, request[c].session.product)
              /\ request[c].item.intent \in {"include", request[c].session.item.intent}
              /\ request[c].resuming => request[c].session.checkpoint # Absent
  BY <1>14, <1>p DEF MadeInv, PathInv, RequestMade
<1>15. ASSUME NEW c \in Client, RefuseApply(c) PROVE MadeInv'
  <2>1. PlanMade(plan, Old) /\ SessionMade(session', Old) /\ Wait(c, Idle)
    BY <1>14, <1>15, ApplyIsMade DEF RefuseApply
  <2> QED
    BY <1>15, <1>p, <2>1, MadeGoesOn DEF RefuseApply, Idle
<1>16. ASSUME NEW c \in Client, DraftWriteFails(c) PROVE MadeInv'
  <2>1. PlanMade(plan, Old) /\ SessionMade(session', Old) /\ Wait(c, Idle)
    BY <1>14, <1>16, ApplyIsMade DEF DraftWriteFails, Checkpointed
  <2> QED
    BY <1>16, <1>p, <2>1, MadeGoesOn DEF DraftWriteFails, Idle
<1>17. ASSUME NEW c \in Client, StoreDraft(c) PROVE MadeInv'
  <2> DEFINE r == request[c]
             s == IF r.resuming THEN r.session ELSE Checkpointed(r)
             next == [kind |-> "plan", session |-> s, resuming |-> r.resuming]
  <2>1. /\ r.kind = "store" /\ FieldErrors(r.item) = {} /\ Wait(c, next)
        /\ session' = session \/ session' = s
        /\ UNCHANGED <<live, plan, payload>>
    BY <1>17 DEF StoreDraft
  <2>2. /\ SessionMade(s, Old) /\ MadeOf(s.item, Old, s.product)
        /\ s.item.intent = "include" => s.item.blockers = {}
    <3>1. r.item.intent # "exclude" => r.item.blockers = {}
      BY <2>1 DEF FieldErrors
    <3>2. CASE r.resuming
      <4>1. /\ MadeOf(r.session.item, Old, r.session.product)
            /\ MadeOf(r.item, Old, r.session.product)
        BY <1>14, <2>1, <3>2 DEF SessionMade
      <4>2. r.session.item.blockers = r.item.blockers
        BY <4>1 DEF MadeOf, Made
      <4> QED
        BY <1>14, <2>1, <3>1, <3>2, <4>1, <4>2
    <3>3. CASE ~r.resuming
      <4>1. s = [r.session EXCEPT !.item = r.item,
                                  !.checkpoint = InferDimensions(r.session.product)]
        BY <3>3 DEF Checkpointed
      <4>2. s.item = r.item /\ s.product = r.session.product
        BY <1>14, <2>1, <4>1 DEF Lawful, Shaped, SessionFields
      <4> HIDE DEF s
      <4>3. SessionMade(s, Old)
        <5>1. /\ Lawful(r.session) /\ SessionMade(r.session, Old)
              /\ MadeOf(r.item, Old, r.session.product)
          BY <1>14, <2>1
        <5> HIDE DEF r
        <5>2. SessionMade([r.session EXCEPT !.item = r.item,
                                            !.checkpoint = InferDimensions(r.session.product)], Old)
          BY <5>1, ApplyIsMade
        <5> QED
          BY <4>1, <5>2
      <4> QED
        BY <1>14, <2>1, <3>1, <4>2, <4>3
    <3> QED
      BY <3>2, <3>3
  <2>3. next.kind = "plan" /\ next.session = s
    OBVIOUS
  <2> HIDE DEF s, next
  <2>4. RequestMade(next, Old)
    BY <2>2, <2>3 DEF RequestMade
  <2> QED
    BY <1>14, <1>p, <2>1, <2>2, <2>4, MadeGoesOn
<1>18. ASSUME NEW c \in Client, FinishApply(c) PROVE MadeInv'
  <2> DEFINE s == request[c].session
  <2>1. /\ Lawful(s) /\ SessionMade(s, Old) /\ MadeOf(s.item, Old, s.product)
        /\ Imported(s.product)
    BY <1>18, <1>p DEF FinishApply, MadeInv, PathInv, RequestMade, Lawful, Shaped
  <2> DEFINE fresh == [revision |-> draft'.revision, source |-> draft'.product,
                       item |-> PlanItemOf(live, draft'.product,
                                  IF plan = Absent THEN Absent ELSE plan.item, TakenSkus)]
             reuse == request[c].resuming /\ plan.revision = s.base + 1
             n == IF reuse THEN plan ELSE fresh
  <2>2. plan' = AppliedPlan(n, s)
    BY <1>18 DEF FinishApply, NewPlan, AppliedPlan
  <2>3. PlanMade(n, Old)
    <3>1. PlanMade(plan, Old)
      BY <1>18 DEF FinishApply, MadeInv
    <3>2. ~reuse => PlanMade(fresh, Old)
      <4>1. ~reuse => draft' \in Corrections(draft)
        BY <1>18 DEF FinishApply
      <4>2. ASSUME ~reuse
            PROVE  Imported(draft'.product) /\ InferDimensions(draft'.product) = draft'.product
        BY <1>p, <4>1, <4>2, CorrectedDraft DEF PathInv
      <4> HIDE DEF reuse
      <4> QED
        BY <4>2, NewPlanIsMade DEF NewPlan
    <3> HIDE DEF fresh, reuse
    <3> QED
      BY <3>1, <3>2
  <2> HIDE DEF n
  <2>4. PlanMade(plan', Old)
    BY <2>1, <2>2, <2>3, AppliedIsMade
  <2>5. SessionMade(session', Old)
    BY <1>18, <2>1, ApplyIsMade DEF FinishApply
  <2>6. /\ UNCHANGED <<live, payload>> /\ Wait(c, Idle) /\ Idle.kind = "idle"
        /\ PlanMade(plan, Old)
    BY <1>14, <1>18 DEF FinishApply, Idle, MadeInv
  <2> HIDE DEF s
  <2> QED
    BY <1>p, <2>4, <2>5, <2>6, MadeGoesOn
<1>19. ASSUME NEW c \in Client, RequestFails(c) PROVE MadeInv'
  BY <1>19, <1>p, MadeGoesOn DEF RequestFails, Idle
<1> QED
  BY Zenon, <1>1, <1>2, <1>3, <1>4, <1>5, <1>6, <1>7, <1>8, <1>9, <1>10, <1>11, <1>12, <1>13,
     <1>15, <1>16, <1>17, <1>18, <1>19 DEF Next

\* So it always holds.
LEMMA AlwaysMade == MadeInv /\ [Next]_vars => MadeInv'
<1> SUFFICES ASSUME MadeInv, UNCHANGED vars PROVE MadeInv'
  BY MadeStep
<1>1. PathInv'
  BY PathStep DEF MadeInv
<1>2. payload' = Absent \/ Safe(payload', Old, plan'.source)
  BY DEF MadeInv, vars
<1> QED
  BY <1>1, <1>2, MadeGoesOn DEF vars

\* Whatever was imported, edited and left out, what is written names every combination
\* of options once.
THEOREM WrittenOnce == Spec => []CombinationsUnique
<1>1. Init => MadeInv
  BY MadeInit
<1>2. MadeInv /\ [Next]_vars => MadeInv'
  BY AlwaysMade
<1>3. MadeInv => CombinationsUnique
  BY DEF MadeInv, Safe, Unique, CombinationsUnique, Written
<1> QED
  BY <1>1, <1>2, <1>3, PTL DEF Spec

\* What is written holds every variant of the live product once: productSet deletes none.
THEOREM NoneDeleted == Spec => []LiveVariantsKept
<1>1. Init => MadeInv
  BY MadeInit
<1>2. MadeInv /\ [Next]_vars => MadeInv'
  BY AlwaysMade
<1>3. MadeInv => LiveVariantsKept
  BY DEF MadeInv, Safe, Keeps, LiveVariantsKept, Written
<1> QED
  BY <1>1, <1>2, <1>3, PTL DEF Spec

\* Every value that is written to a variant is its own live one, or one that the reviewed
\* product gives the same combination: no variant gets the value of another.
THEOREM ValuesStay == Spec => []ValuesStayWithTheirVariant
<1>1. Init => MadeInv
  BY MadeInit
<1>2. MadeInv /\ [Next]_vars => MadeInv'
  BY AlwaysMade
<1>3. MadeInv => ValuesStayWithTheirVariant
  <2> SUFFICES ASSUME MadeInv, payload # Absent,
                      NEW v \in Range(Written.variants), NEW f \in VariantFields
               PROVE  OwnValue(v, f, Combo(v, Written.names), Old, plan.source)
    BY Zenon DEF ValuesStayWithTheirVariant, OwnValue
  <2> QED
    BY DEF MadeInv, Safe, Own, Written
<1> QED
  BY <1>1, <1>2, <1>3, PTL DEF Spec

\* Every quantity that is written is one that the reviewed product gives the same variant.
THEOREM InventoryFollows == Spec => []InventoryFollowsReview
<1>1. Init => MadeInv
  BY MadeInit
<1>2. MadeInv /\ [Next]_vars => MadeInv'
  BY AlwaysMade
<1>3. MadeInv => InventoryFollowsReview
  BY DEF MadeInv, Safe, Faithful, InventoryFollowsReview
<1> QED
  BY <1>1, <1>2, <1>3, PTL DEF Spec

\* An item made of the product, with or without what the live one lends it, is blocked
\* only when the session's own item is.
LEMMA NoMoreBlocks ==
  ASSUME NEW old, NEW item, NEW product, MadeOf(item, old, product), item.blockers = {},
         Imported(product), NEW n, PlanMade(n, old),
         n.source \in {product, InferDimensions(product)}
  PROVE  n.item.blockers = {}
<1> DEFINE p == InferDimensions(product)
<1>1. Imported(p) /\ n.source = p
  BY NamesFoundOnce DEF PlanMade
<1>2. Blocking(old, p, Proposed(old, p), TakenSkus) = {}
  BY DEF MadeOf, Made
<1> HIDE DEF p
<1>3. LET q == CarryForward(old, p)
      IN  Blocking(old, q, Proposed(old, q), TakenSkus) = {}
  BY <1>1, <1>2, NothingToCarry
<1>4. PICK q \in {p, CarryForward(old, p)} : Made(n.item, old, q, TakenSkus)
  BY <1>1 DEF PlanMade
<1> QED
  BY <1>2, <1>3, <1>4 DEF Made

\* However many clients edit, a plan that apply leaves of the product of the session is
\* not blocked: what the session checked before it was stored is enough.
THEOREM NothingBlocksApplied == Spec => ApplyLeavesNoBlockers
<1> DEFINE Leaves(c) ==
             /\ Finishes(c) /\ session'.item.intent = "include"
             /\ plan'.source \in {session'.product, InferDimensions(session'.product)}
             => plan'.item.blockers = {}
           Clear == \A c \in Client : Leaves(c)
<1>1. Init => MadeInv
  BY MadeInit
<1>2. MadeInv /\ [Next]_vars => MadeInv'
  BY AlwaysMade
<1>3. MadeInv /\ [Next]_vars => [Clear]_vars
  <2> SUFFICES ASSUME MadeInv, Next, NEW c \in Client,
                      Finishes(c), session'.item.intent = "include",
                      plan'.source \in {session'.product, InferDimensions(session'.product)}
               PROVE  plan'.item.blockers = {}
    OBVIOUS
  <2> DEFINE s == request[c].session
  <2>1. /\ PathInv /\ PathInv' /\ DOMAIN request = Client
        /\ request[c].kind = "plan" /\ request'[c] # request[c] /\ plan' # plan
    BY PathStep DEF MadeInv, PathInv, Finishes, Idle
  <2>2. FinishApply(c)
    <3>1. ~BuildPlan /\ ~UpdateDraft /\ ~CreateSession /\ ~SelectInPlan /\ ~Approve
      BY <2>1 DEF BuildPlan, UpdateDraft, CreateSession, SelectInPlan, Approve
    <3>2. ASSUME NEW d \in Client
          PROVE  /\ ~StartEdit(d) /\ ~StartUndo(d) /\ ~StartRedo(d) /\ ~StartReset(d)
                 /\ ~SaveEdit(d) /\ ~SelectInSession(d) /\ ~Discard(d)
                 /\ ~StartApply(d) /\ ~RefuseApply(d) /\ ~StoreDraft(d)
                 /\ ~DraftWriteFails(d) /\ ~RequestFails(d)
      BY <2>1 DEF StartEdit, StartUndo, StartRedo, StartReset, WaitToSave, SaveEdit,
                  SelectInSession, Discard, StartApply, RefuseApply, StoreDraft,
                  DraftWriteFails, RequestFails
    <3>3. ASSUME NEW d \in Client, FinishApply(d) PROVE d = c
      <4>1. Wait(d, Idle)
        BY <3>3 DEF FinishApply
      <4> QED
        BY <2>1, <4>1, OneWaits
    <3> QED
      BY Zenon, <3>1, <3>2, <3>3 DEF Next
  <2>3. /\ Lawful(s) /\ Imported(s.product) /\ DOMAIN s = SessionFields
        /\ SessionMade(s, Old) /\ MadeOf(s.item, Old, s.product)
        /\ s.item.intent = "include" => s.item.blockers = {}
    BY <2>1 DEF MadeInv, PathInv, RequestMade, Lawful, Shaped
  <2>4. session' = [s EXCEPT !.status = "applied", !.checkpoint = Absent]
    BY <2>2 DEF FinishApply
  <2> DEFINE fresh == [revision |-> draft'.revision, source |-> draft'.product,
                       item |-> PlanItemOf(live, draft'.product,
                                  IF plan = Absent THEN Absent ELSE plan.item, TakenSkus)]
             reuse == request[c].resuming /\ plan.revision = s.base + 1
             n == IF reuse THEN plan ELSE fresh
  <2>5. plan' = AppliedPlan(n, s)
    BY <2>2 DEF FinishApply, NewPlan, AppliedPlan
  <2>6. PlanMade(n, Old)
    <3>1. PlanMade(plan, Old)
      BY <2>1 DEF MadeInv
    <3>2. ~reuse => PlanMade(fresh, Old)
      <4>1. ~reuse => draft' \in Corrections(draft)
        BY <2>2 DEF FinishApply
      <4>2. ASSUME ~reuse
            PROVE  Imported(draft'.product) /\ InferDimensions(draft'.product) = draft'.product
        BY <2>1, <4>1, <4>2, CorrectedDraft DEF PathInv
      <4> HIDE DEF reuse
      <4> QED
        BY <4>2, NewPlanIsMade DEF NewPlan
    <3> HIDE DEF fresh, reuse
    <3> QED
      BY <3>1, <3>2
  <2> HIDE DEF n, s
  <2>7. session'.item = s.item /\ session'.product = s.product
    BY <2>3, <2>4 DEF SessionFields
  <2>8. s.item.blockers = {}
    BY <2>3, <2>7
  <2>9. /\ plan'.source = IF s.touched = {} THEN n.source ELSE s.product
        /\ plan'.item.blockers = IF s.touched = {} THEN n.item.blockers ELSE s.item.blockers
    BY <2>3, <2>5, <2>6, AppliedIsMade
  <2>10. s.touched = {} => n.item.blockers = {}
    BY <2>3, <2>6, <2>7, <2>8, <2>9, NoMoreBlocks
  <2> QED
    BY <2>8, <2>9, <2>10
<1> QED
  BY <1>1, <1>2, <1>3, PTL DEF Spec, ApplyLeavesNoBlockers, Clear, Leaves
=============================================================================
