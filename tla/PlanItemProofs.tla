--------------------------- MODULE PlanItemProofs ---------------------------
(***************************************************************************)
(* What holds of every plan item, whatever is imported and whatever is     *)
(* live: an edit that is not refused leaves an imported product; when      *)
(* nothing blocks the item, its proposal names every combination once and  *)
(* keeps every live variant; and what approval freezes of it writes to     *)
(* each variant only its own live values, or values and quantities that    *)
(* the product gives the same combination.                                 *)
(***************************************************************************)
EXTENDS OptionEdits, FiniteSetTheorems, WellFoundedInduction, NaturalsInduction, TLAPS

-----------------------------------------------------------------------------
(* First and last numbers.                                                 *)

\* A set of natural numbers that has a member has a least one.
LEMMA LeastMember ==
  ASSUME NEW S \in SUBSET Nat, S # {}
  PROVE  \E i \in S : \A j \in S : i <= j
<1> DEFINE less == OpToRel(<, Nat)
<1>1. PICK i \in S : \A j \in S : ~ (<<j, i>> \in less)
  <2>1. IsWellFoundedOn(less, Nat)
    BY NatLessThanWellFounded
  <2> HIDE DEF less
  <2> QED
    BY <2>1, WFMin
<1>2. less = {ss \in Nat \X Nat : ss[1] < ss[2]}
  BY Zenon DEF OpToRel
<1> HIDE DEF less
<1>3. ASSUME NEW j \in S PROVE i <= j
  <2>1. ~ (<<j, i>> \in {ss \in Nat \X Nat : ss[1] < ss[2]})
    BY <1>1, <1>2
  <2> QED
    BY <2>1
<1> QED
  BY <1>3

\* A bounded one that has a member has a greatest.
LEMMA GreatestMember ==
  ASSUME NEW n \in Nat, NEW S \in SUBSET (0..n), S # {}
  PROVE  \E i \in S : \A j \in S : j <= i
<1> DEFINE T == {n - i : i \in S}
<1>1. PICK m \in T : \A k \in T : m <= k
  <2>1. T \in SUBSET Nat
    <3>1. ASSUME NEW i \in S PROVE n - i \in Nat
      OBVIOUS
    <3> QED
      BY Zenon, <3>1
  <2>2. T # {}
    BY Zenon
  <2> HIDE DEF T
  <2> QED
    BY <2>1, <2>2, LeastMember
<1>2. PICK i \in S : m = n - i
  OBVIOUS
<1>3. ASSUME NEW j \in S PROVE j <= i
  BY <1>1, <1>2
<1> QED
  BY <1>3

-----------------------------------------------------------------------------
(* Positions in order.                                                     *)

Increasing(f) == \A i, j \in DOMAIN f : i < j => f[i] < f[j]

\* A set of positions is finite, and taking out the last makes it smaller.
LEMMA Positions ==
  ASSUME NEW n \in Nat, NEW S \in SUBSET (1..n)
  PROVE  /\ IsFiniteSet(S) /\ Cardinality(S) \in Nat
         /\ \A x \in S : Cardinality(S \ {x}) = Cardinality(S) - 1
         /\ (S = {}) <=> Cardinality(S) = 0
<1>1. IsFiniteSet(S)
  <2>1. IsFiniteSet(1..n)
    BY FS_Interval
  <2> QED
    BY <2>1, FS_Subset
<1> QED
  BY <1>1, FS_CardinalityType, FS_RemoveElement, FS_EmptySet

\* The next position comes after an order of earlier ones.
LEMMA OneMoreInOrder ==
  ASSUME NEW n \in Nat, NEW R \in SUBSET (1..n), NEW c \in Nat,
         NEW f \in [1..c -> R], Increasing(f)
  PROVE  \E g \in [1..(c + 1) -> R \cup {n + 1}] : Increasing(g)
<1> DEFINE g == [i \in 1..(c + 1) |-> IF i <= c THEN f[i] ELSE n + 1]
<1>1. \A i \in 1..c : i \in 1..(c + 1) /\ i <= c /\ f[i] \in R /\ f[i] \in Int /\ f[i] <= n
  <2>1. \A x \in R : x \in Int /\ x <= n
    OBVIOUS
  <2>2. ASSUME NEW i \in 1..c PROVE f[i] \in R /\ i <= c /\ i \in 1..(c + 1)
    OBVIOUS
  <2> QED
    BY Zenon, <2>1, <2>2
<1>2. /\ DOMAIN g = 1..(c + 1) /\ g[c + 1] = n + 1
      /\ \A i \in 1..c : g[i] = f[i]
      /\ \A i \in 1..(c + 1) : i \in Int /\ (i \in 1..c \/ i = c + 1)
  BY <1>1
<1>3. g \in [1..(c + 1) -> R \cup {n + 1}]
  <2>1. ASSUME NEW i \in 1..(c + 1) PROVE (IF i <= c THEN f[i] ELSE n + 1) \in R \cup {n + 1}
    BY <1>1, <1>2
  <2> QED
    BY <2>1
<1> HIDE DEF g
<1>4. ASSUME NEW i \in DOMAIN g, NEW j \in DOMAIN g, i < j PROVE g[i] < g[j]
  <2>1. i \in 1..c /\ g[i] = f[i]
    BY <1>2, <1>4
  <2>2. CASE j \in 1..c
    BY <1>2, <1>4, <2>1, <2>2 DEF Increasing
  <2>3. CASE j = c + 1
    BY <1>1, <1>2, <2>1, <2>3
  <2> QED
    BY <1>2, <2>2, <2>3
<1> QED
  BY <1>3, <1>4 DEF Increasing

\* Every set of positions has an order.
LEMMA OrdersExist ==
  ASSUME NEW m \in Nat, NEW T \in SUBSET (1..m)
  PROVE  \E f \in [1..Cardinality(T) -> T] : Increasing(f)
<1> DEFINE Ordered(S) == \E f \in [1..Cardinality(S) -> S] : Increasing(f)
           bad == {n \in Nat : \E S \in SUBSET (1..n) : ~Ordered(S)}
<1>1. SUFFICES ASSUME bad # {} PROVE FALSE
  OBVIOUS
<1>2. PICK n \in bad : \A k \in bad : n <= k
  <2> bad \in SUBSET Nat
    OBVIOUS
  <2> HIDE DEF bad
  <2> QED
    BY <1>1, LeastMember
<1>3. PICK S \in SUBSET (1..n) : ~Ordered(S)
  OBVIOUS
<1>4. n \in Nat
  OBVIOUS
<1>5. n # 0
  <2>1. SUFFICES ASSUME n = 0 PROVE FALSE
    OBVIOUS
  <2>2. S = {} /\ 1..0 = {}
    BY <2>1
  <2>3. Cardinality(S) = 0
    BY <2>2, FS_EmptySet
  <2>4. [i \in 1..0 |-> i] \in [1..Cardinality(S) -> S] /\ Increasing([i \in 1..0 |-> i])
    BY <2>2, <2>3 DEF Increasing
  <2> QED
    BY <1>3, <2>4
<1>6. n - 1 \in Nat /\ n - 1 + 1 = n
  BY <1>4, <1>5
<1>7. n - 1 \notin bad
  <2> HIDE DEF bad
  <2> QED
    BY <1>2, <1>4, <1>6
<1>8. ASSUME NEW R \in SUBSET (1..(n - 1)) PROVE Ordered(R)
  BY <1>6, <1>7
<1> HIDE DEF bad
<1>9. n \in S
  <2>1. SUFFICES ASSUME n \notin S PROVE FALSE
    OBVIOUS
  <2>2. ASSUME NEW k \in S PROVE k \in 1..(n - 1)
    BY <1>4, <2>1
  <2> QED
    BY <1>3, <1>8, <2>2
<1> DEFINE R == S \ {n}
<1>10. R \in SUBSET (1..(n - 1)) /\ S = R \cup {n}
  BY <1>4, <1>9
<1>11. Cardinality(R) \in Nat /\ Cardinality(S) = Cardinality(R) + 1
  <2>1. IsFiniteSet(R) /\ n \notin R
    BY <1>6, <1>10, Positions
  <2> HIDE DEF R
  <2> QED
    BY <1>10, <2>1, FS_AddElement, FS_CardinalityType
<1> HIDE DEF R
<1>12. PICK f \in [1..Cardinality(R) -> R] : Increasing(f)
  BY <1>8, <1>10
<1>13. \E g \in [1..(Cardinality(R) + 1) -> R \cup {n}] : Increasing(g)
  BY <1>6, <1>10, <1>11, <1>12, OneMoreInOrder
<1> QED
  BY <1>3, <1>10, <1>11, <1>13

\* The order of a set of positions has each of them once.
LEMMA InOrderIsOrder ==
  ASSUME NEW n \in Nat, NEW S \in SUBSET (1..n)
  PROVE  LET f == InOrder(S)
         IN  /\ f \in [1..Cardinality(S) -> S] /\ DOMAIN f = 1..Cardinality(S)
             /\ Cardinality(S) \in Nat
             /\ \A i, j \in DOMAIN f : f[i] = f[j] => i = j
             /\ \A k \in S : \E i \in DOMAIN f : f[i] = k
<1> DEFINE f == InOrder(S)
<1>1. f \in [1..Cardinality(S) -> S] /\ Increasing(f)
  BY OrdersExist DEF InOrder, Increasing
<1> HIDE DEF f
<1>2. IsFiniteSet(S) /\ Cardinality(S) \in Nat
  BY Positions
<1>3. ASSUME NEW i \in DOMAIN f, NEW j \in DOMAIN f, f[i] = f[j] PROVE i = j
  <2>1. /\ DOMAIN f = 1..Cardinality(S)
        /\ i \in Int /\ j \in Int /\ f[i] \in Int
    <3>1. DOMAIN f = 1..Cardinality(S) /\ f[i] \in S
      BY <1>1
    <3>2. \A x \in S : x \in Int
      OBVIOUS
    <3>3. i \in Int /\ j \in Int
      BY <1>2, <3>1
    <3> QED
      BY Zenon, <3>1, <3>2, <3>3
  <2> QED
    BY <1>1, <1>3, <2>1 DEF Increasing
<1>4. ASSUME NEW k \in S PROVE \E i \in DOMAIN f : f[i] = k
  <2>1. SUFFICES ASSUME \A i \in DOMAIN f : f[i] # k PROVE FALSE
    OBVIOUS
  <2>2. f \in [1..Cardinality(S) -> S \ {k}]
    BY <1>1, <2>1
  <2>3. IsFiniteSet(S \ {k}) /\ Cardinality(S \ {k}) = Cardinality(S) - 1
    BY <1>2, FS_RemoveElement
  <2>4. IsFiniteSet(1..Cardinality(S)) /\ Cardinality(1..Cardinality(S)) = Cardinality(S)
    BY <1>2, FS_Interval
  <2>5. \E i, j \in 1..Cardinality(S) : i # j /\ f[i] = f[j]
    BY <1>2, <2>2, <2>3, <2>4, FS_PigeonHole
  <2> QED
    BY <1>1, <1>3, <2>5
<1> QED
  BY <1>1, <1>2, <1>3, <1>4 DEF f

-----------------------------------------------------------------------------
(* Sequences.                                                              *)

IsSequence(s) == s \in Seq(Range(s))

\* The places of a sequence, and what it has there.
LEMMA SequenceHas ==
  ASSUME NEW s, IsSequence(s)
  PROVE  /\ Len(s) \in Nat /\ DOMAIN s = 1..Len(s)
         /\ \A k \in DOMAIN s : s[k] \in Range(s)
         /\ \A x \in Range(s) : \E k \in DOMAIN s : s[k] = x
  BY DEF IsSequence, Range

\* A function on the first positions is a sequence.
LEMMA IsSequenceOf ==
  ASSUME NEW n \in Nat, NEW T, NEW f \in [1..n -> T]
  PROVE  IsSequence(f) /\ Len(f) = n /\ f \in Seq(T)
<1>1. Range(f) \subseteq T /\ f \in [1..n -> Range(f)]
  BY DEF Range
<1> QED
  BY <1>1 DEF IsSequence

\* What a sequence has at a set of positions is a sequence, with each of them once.
LEMMA ChosenHas ==
  ASSUME NEW s, NEW n \in Nat, DOMAIN s = 1..n, NEW S \in SUBSET (1..n)
  PROVE  LET c == Chosen(s, S) f == InOrder(S)
         IN  /\ IsSequence(c) /\ Len(c) = Cardinality(S)
             /\ DOMAIN c = DOMAIN f /\ DOMAIN f = 1..Cardinality(S)
             /\ \A i \in DOMAIN c : f[i] \in S /\ c[i] = s[f[i]]
             /\ \A i, j \in DOMAIN c : f[i] = f[j] => i = j
             /\ \A k \in S : \E i \in DOMAIN c : f[i] = k
             /\ Range(c) \subseteq Range(s)
<1> DEFINE f == InOrder(S)
           c == Chosen(s, S)
<1>1. /\ f \in [1..Cardinality(S) -> S] /\ DOMAIN f = 1..Cardinality(S)
      /\ Cardinality(S) \in Nat
      /\ \A i, j \in DOMAIN f : f[i] = f[j] => i = j
      /\ \A k \in S : \E i \in DOMAIN f : f[i] = k
  BY InOrderIsOrder
<1>2. c = [i \in DOMAIN f |-> s[f[i]]]
  BY DEF Chosen
<1> HIDE DEF f, c
<1>3. \A i \in DOMAIN f : f[i] \in S /\ s[f[i]] \in Range(s)
  BY <1>1 DEF Range
<1>4. c \in [1..Cardinality(S) -> Range(s)]
  BY <1>1, <1>2, <1>3
<1>5. Range(c) \subseteq Range(s)
  BY <1>4 DEF Range
<1>6. IsSequence(c) /\ Len(c) = Cardinality(S)
  BY <1>1, <1>4, IsSequenceOf
<1> QED
  BY <1>1, <1>2, <1>3, <1>5, <1>6 DEF f, c

\* A sequence after another.
LEMMA ConcatHas ==
  ASSUME NEW s, IsSequence(s), NEW t, IsSequence(t)
  PROVE  /\ IsSequence(s \o t) /\ Len(s \o t) = Len(s) + Len(t)
         /\ \A i \in DOMAIN s : (s \o t)[i] = s[i]
         /\ \A i \in DOMAIN t : (s \o t)[Len(s) + i] = t[i]
         /\ DOMAIN (s \o t) = 1..(Len(s) + Len(t))
         /\ Range(s \o t) = Range(s) \cup Range(t)
<1> DEFINE S == Range(s) \cup Range(t)
           m == Len(s) n == Len(t)
<1>1. s \in Seq(S) /\ t \in Seq(S) /\ m \in Nat /\ n \in Nat
  BY DEF IsSequence
<1>2. DOMAIN s = 1..m /\ DOMAIN t = 1..n
  BY SequenceHas
<1>3. s \o t \in Seq(S) /\ Len(s \o t) = m + n
  BY <1>1
<1>4. /\ DOMAIN (s \o t) = 1..(m + n)
      /\ \A i \in 1..m : (s \o t)[i] = s[i]
      /\ \A i \in 1..n : (s \o t)[m + i] = t[i]
  BY <1>1
<1>5. \A k \in 1..(m + n) : k \in 1..m \/ (k - m \in 1..n /\ k = m + (k - m))
  BY <1>1
<1>6. Range(s \o t) = S
  <2>1. ASSUME NEW k \in 1..(m + n) PROVE (s \o t)[k] \in S
    BY <1>2, <1>4, <1>5 DEF Range
  <2>2. ASSUME NEW k \in 1..m PROVE s[k] \in Range(s \o t)
    BY <1>1, <1>4 DEF Range
  <2>3. ASSUME NEW k \in 1..n PROVE t[k] \in Range(s \o t)
    <3>1. m + k \in 1..(m + n)
      BY <1>1
    <3> QED
      BY <1>4, <3>1 DEF Range
  <2> QED
    BY <1>2, <1>4, <2>1, <2>2, <2>3 DEF Range
<1> QED
  BY <1>2, <1>3, <1>4, <1>6 DEF IsSequence

\* No two elements of a sequence are the same.
LEMMA DifferentAreInjective ==
  ASSUME NEW s, IsSequence(s), \A i, j \in DOMAIN s : s[i] = s[j] => i = j
  PROVE  Injective(s)
<1>1. Len(s) \in Nat /\ DOMAIN s = 1..Len(s)
  BY SequenceHas
<1>2. s \in [1..Len(s) -> Range(s)]
  BY DEF IsSequence
<1>3. s \in Injection(1..Len(s), Range(s))
  BY <1>1, <1>2 DEF Injection, IsInjective
<1>4. s \in Surjection(1..Len(s), Range(s))
  BY <1>1, <1>2, SequenceHas DEF Surjection
<1>5. ExistsBijection(1..Len(s), Range(s))
  BY <1>3, <1>4 DEF ExistsBijection, Bijection
<1>6. IsFiniteSet(1..Len(s)) /\ Cardinality(1..Len(s)) = Len(s)
  BY <1>1, FS_Interval
<1> QED
  BY <1>5, <1>6, FS_Bijection DEF Injective

-----------------------------------------------------------------------------
(* What is imported stays so, however it is edited.                        *)

New(v) == DOMAIN v = DOMAIN NoVariant /\ v.id = Absent
AllNew(variants) == IsSequence(variants) /\ \A v \in Range(variants) : New(v)

\* The keys of variants and products.
LEMMA Keys ==
  /\ DOMAIN NoVariant = {"pairs", "placed", "sku", "barcode", "quantity", "id"}
  /\ DOMAIN NoProduct = {"names", "values", "variants", "tags", "fields"}
  /\ New(NoVariant)
  BY DEF NoVariant, NoProduct, New

\* What is imported is a product whose variants are all new.
LEMMA ImportedIs ==
  ASSUME NEW p
  PROVE  Imported(p) <=> /\ DOMAIN p = DOMAIN NoProduct /\ IsSequence(p.names)
                         /\ AllNew(p.variants)
  BY DEF Imported, IsProduct, AllNew, IsSequence, New

\* A sequence of new variants, one by one.
LEMMA AllNewOf ==
  ASSUME NEW n \in Nat, NEW f, f = [k \in 1..n |-> f[k]], \A k \in 1..n : New(f[k])
  PROVE  AllNew(f) /\ Len(f) = n
<1> DEFINE T == {f[k] : k \in 1..n}
<1>1. f \in [1..n -> T]
  OBVIOUS
<1>2. IsSequence(f) /\ Len(f) = n
  BY <1>1, IsSequenceOf
<1> QED
  BY <1>1, <1>2 DEF AllNew, Range

\* The places of a sequence of new variants, and what it has there.
LEMMA AllNewHas ==
  ASSUME NEW variants, AllNew(variants)
  PROVE  /\ Len(variants) \in Nat /\ DOMAIN variants = 1..Len(variants)
         /\ \A k \in DOMAIN variants : New(variants[k])
  BY SequenceHas DEF AllNew

\* New variants chosen from new variants.
LEMMA ChosenNew ==
  ASSUME NEW variants, AllNew(variants), NEW S \in SUBSET DOMAIN variants
  PROVE  AllNew(Chosen(variants, S))
<1>1. DOMAIN variants = 1..Len(variants) /\ Len(variants) \in Nat
  BY AllNewHas
<1>2. IsSequence(Chosen(variants, S)) /\ Range(Chosen(variants, S)) \subseteq Range(variants)
  BY <1>1, ChosenHas
<1> QED
  BY <1>2 DEF AllNew

\* New variants after new variants.
LEMMA ConcatNew ==
  ASSUME NEW s, AllNew(s), NEW t, AllNew(t)
  PROVE  AllNew(s \o t)
  BY ConcatHas DEF AllNew

\* One new variant.
LEMMA OneNew ==
  ASSUME NEW v, New(v)
  PROVE  AllNew(<<v>>)
<1>1. <<v>> \in Seq({v}) /\ Range(<<v>>) = {v}
  BY DEF Range
<1> QED
  BY <1>1 DEF AllNew, IsSequence

\* All but one.
LEMMA RemoveAtNew ==
  ASSUME NEW s, AllNew(s), NEW i \in DOMAIN s
  PROVE  AllNew(RemoveAt(s, i))
<1>1. Len(s) \in Nat /\ DOMAIN s = 1..Len(s) /\ s \in Seq(Range(s))
  BY AllNewHas DEF AllNew, IsSequence
<1>2. ASSUME NEW m \in 1..(Len(s) + 1), NEW n \in 0..Len(s) PROVE AllNew(SubSeq(s, m, n))
  <2> DEFINE t == SubSeq(s, m, n)
  <2>1. t \in Seq(Range(s)) /\ Len(t) \in Nat /\ DOMAIN t = 1..Len(t)
    BY <1>1
  <2> HIDE DEF t
  <2>2. \A k \in 1..Len(t) : t[k] \in Range(s)
    BY <2>1
  <2>3. t \in [1..Len(t) -> Range(s)]
    BY <2>1
  <2>4. IsSequence(t) /\ Range(t) \subseteq Range(s)
    BY <2>1, <2>2, <2>3, IsSequenceOf DEF Range
  <2>5. AllNew(t)
    BY <2>4 DEF AllNew
  <2> QED
    BY <2>5 DEF t
<1>3. AllNew(SubSeq(s, 1, i - 1)) /\ AllNew(SubSeq(s, i + 1, Len(s)))
  BY <1>1, <1>2
<1> QED
  BY <1>3, ConcatNew DEF RemoveAt

\* A new variant put among new variants.
LEMMA InsertedNew ==
  ASSUME NEW p, NEW variants, AllNew(variants), NEW v, New(v)
  PROVE  AllNew(Inserted(p, variants, v))
<1> DEFINE after == {i \in DOMAIN variants : Precedes(p, v, variants[i])}
           first == Chosen(variants, DOMAIN variants \ after)
           rest == Chosen(variants, after)
<1>1. AllNew(first) /\ AllNew(rest) /\ AllNew(<<v>>)
  BY ChosenNew, OneNew
<1>2. Inserted(p, variants, v) = first \o <<v>> \o rest
  BY Zenon DEF Inserted
<1> HIDE DEF first, rest
<1> QED
  BY <1>1, <1>2, ConcatNew

\* sorted is how the first n variants of p are sorted, one after the other
Sorting(p, n, sorted) ==
  sorted = [i \in 0..n |-> IF i = 0 THEN <<>> ELSE Inserted(p, sorted[i - 1], p.variants[i])]

\* Variants can be sorted, one after the other.
LEMMA SortingExists ==
  ASSUME NEW p, NEW n \in Nat
  PROVE  \E sorted : Sorting(p, n, sorted)
<1> DEFINE Bad == {m \in Nat : ~ \E sorted : Sorting(p, m, sorted)}
<1> SUFFICES ASSUME Bad # {} PROVE FALSE
  BY Zenon
<1>1. PICK m \in Bad : \A k \in Bad : m <= k
  <2>1. Bad \in SUBSET Nat
    OBVIOUS
  <2> HIDE DEF Bad
  <2> QED
    BY <2>1, LeastMember
<1>2. CASE m = 0
  <2> DEFINE sorted == [i \in 0..0 |-> <<>>]
  <2>1. Sorting(p, 0, sorted)
    BY DEF Sorting
  <2> QED
    BY Zenon, <1>2, <2>1
<1>3. CASE m # 0
  <2>1. m - 1 \in Nat /\ m - 1 \notin Bad
    BY <1>1, <1>3
  <2>2. PICK old : Sorting(p, m - 1, old)
    BY Zenon, <2>1
  <2> DEFINE step(i, g) == IF i = 0 THEN <<>> ELSE Inserted(p, g[i - 1], p.variants[i])
             sorted == [i \in 0..m |-> step(i, old)]
  <2>3. ASSUME NEW i \in 0..(m - 1) PROVE sorted[i] = old[i]
    <3>1. old = [j \in 0..(m - 1) |-> step(j, old)]
      BY <2>2 DEF Sorting
    <3>2. old[i] = step(i, old)
      BY <3>1
    <3>3. i \in 0..m
      OBVIOUS
    <3> QED
      BY <3>2, <3>3
  <2>4. ASSUME NEW i \in 0..m PROVE step(i, old) = step(i, sorted)
    <3>1. CASE i = 0
      BY <3>1
    <3>2. CASE i # 0
      <4>1. i - 1 \in 0..(m - 1)
        BY <3>2
      <4>2. sorted[i - 1] = old[i - 1]
        BY <2>3, <4>1
      <4> HIDE DEF sorted
      <4> QED
        BY <4>2
    <3> QED
      BY <3>1, <3>2
  <2>5. sorted = [i \in 0..m |-> step(i, sorted)]
    BY Zenon, <2>4
  <2>6. Sorting(p, m, sorted)
    BY <2>5 DEF Sorting
  <2> QED
    BY Zenon, <2>6
<1> QED
  BY <1>2, <1>3

\* Sorting new variants gives new variants.
LEMMA SortingNew ==
  ASSUME NEW p, AllNew(p.variants), NEW n \in 0..Len(p.variants),
         NEW sorted, Sorting(p, Len(p.variants), sorted)
  PROVE  AllNew(sorted[n])
<1> DEFINE Bad == {i \in 0..Len(p.variants) : ~AllNew(sorted[i])}
<1> SUFFICES ASSUME Bad # {} PROVE FALSE
  OBVIOUS
<1>1. Len(p.variants) \in Nat /\ \A k \in 1..Len(p.variants) : New(p.variants[k])
  BY AllNewHas
<1>2. PICK i \in Bad : \A k \in Bad : i <= k
  <2>1. Bad \in SUBSET Nat
    BY <1>1
  <2> HIDE DEF Bad
  <2> QED
    BY <2>1, LeastMember
<1>3. sorted[i] = IF i = 0 THEN <<>> ELSE Inserted(p, sorted[i - 1], p.variants[i])
  BY DEF Sorting
<1>4. CASE i = 0
  <2>1. <<>> \in Seq({}) /\ Range(<<>>) = {}
    BY DEF Range
  <2> QED
    BY <1>3, <1>4, <2>1 DEF AllNew, IsSequence
<1>5. CASE i # 0
  <2>1. i \in 1..Len(p.variants) /\ i - 1 \in 0..Len(p.variants) /\ i - 1 \notin Bad
    BY <1>1, <1>2, <1>5
  <2>2. AllNew(sorted[i - 1]) /\ New(p.variants[i])
    BY <1>1, <2>1
  <2> QED
    BY <1>3, <1>5, <2>2, InsertedNew
<1> QED
  BY <1>4, <1>5

\* Sorting the variants by their options leaves the product imported.
LEMMA SortedImported ==
  ASSUME NEW p, Imported(p)
  PROVE  Imported(Sorted(p))
<1> DEFINE n == Len(p.variants)
           sorted == CHOOSE g : Sorting(p, n, g)
<1>1. /\ n \in Nat /\ AllNew(p.variants) /\ DOMAIN p = DOMAIN NoProduct
      /\ IsSequence(p.names)
  BY AllNewHas, ImportedIs
<1>2. Sorted(p) = [p EXCEPT !.variants = sorted[n]]
  BY DEF Sorted, Sorting
<1>3. Sorting(p, n, sorted)
  BY <1>1, SortingExists
<1> HIDE DEF sorted
<1>4. AllNew(sorted[n])
  BY <1>1, <1>3, SortingNew
<1> QED
  BY <1>1, <1>2, <1>4, Keys, ImportedIs

\* A product that gets new variants.
LEMMA ImportedWith ==
  ASSUME NEW p, Imported(p), NEW q, DOMAIN q = DOMAIN p, IsSequence(q.names),
         AllNew(q.variants)
  PROVE  Imported(q)
  BY ImportedIs

\* The names found by position are as many as positions are used.
LEMMA InferredIsSequence ==
  ASSUME NEW p
  PROVE  IsSequence(Inferred(p))
<1> DEFINE used == {i \in 1..MaxOptions :
                      \E k \in DOMAIN p.variants : ~Missing(Placed(p.variants[k], i))}
           IsHighest(i) == \A j \in used : j <= i
           found(i) == IF \E j \in 1..(i - 1) : ClassAt(p, j) = ClassAt(p, i) THEN Absent
                       ELSE ClassAt(p, i)
<1>1. Highest(p) \in Nat
  <2>1. Highest(p) = IF used = {} THEN 0 ELSE CHOOSE i \in used : IsHighest(i)
    BY Zenon DEF Highest
  <2>2. CASE used = {}
    BY <2>1, <2>2
  <2>3. CASE used # {}
    <3>1. used \in SUBSET (0..MaxOptions)
      BY OptionsAssumption
    <3> HIDE DEF used
    <3>2. \E i \in used : IsHighest(i)
      BY <2>3, <3>1, OptionsAssumption, GreatestMember
    <3>3. (CHOOSE i \in used : IsHighest(i)) \in used
      BY Zenon, <3>2
    <3>4. \A i \in used : i \in Nat
      BY <3>1
    <3> QED
      BY Zenon, <2>1, <2>3, <3>3, <3>4
  <2> QED
    BY <2>2, <2>3
<1>2. Inferred(p) = [i \in 1..Highest(p) |-> found(i)]
  BY Zenon DEF Inferred
<1>3. Inferred(p) \in [1..Highest(p) -> {found(i) : i \in 1..Highest(p)}]
  BY <1>2
<1> QED
  BY <1>1, <1>3, IsSequenceOf

\* A product whose dimensions are found by position stays imported.
LEMMA InferDimensionsImported ==
  ASSUME NEW p, Imported(p)
  PROVE  Imported(InferDimensions(p))
<1> DEFINE names == Inferred(p)
           At(n) == CHOOSE i \in DOMAIN names : names[i] = n
           named == [k \in DOMAIN p.variants |->
                 [p.variants[k] EXCEPT
                    !.pairs = [n \in Range(names) |-> Placed(p.variants[k], At(n))]]]
           values == [n \in Range(names) |->
                 Distinct([k \in DOMAIN p.variants |-> Placed(p.variants[k], At(n))])]
<1>1. \/ InferDimensions(p) = p
      \/ InferDimensions(p) = [p EXCEPT !.names = names, !.values = values, !.variants = named]
  BY Zenon DEF InferDimensions
<1>2. DOMAIN p = DOMAIN NoProduct /\ IsSequence(p.names) /\ AllNew(p.variants)
  BY ImportedIs
<1>3. Len(p.variants) \in Nat /\ DOMAIN p.variants = 1..Len(p.variants)
      /\ \A k \in DOMAIN p.variants : New(p.variants[k])
  BY <1>2, AllNewHas
<1>4. AllNew(named)
  <2>1. \A k \in 1..Len(p.variants) : New(named[k])
    BY <1>3, Keys DEF New
  <2>2. named = [k \in 1..Len(p.variants) |-> named[k]]
    BY <1>3
  <2> HIDE DEF named
  <2> QED
    BY <1>3, <2>1, <2>2, AllNewOf
<1>5. IsSequence(names)
  BY InferredIsSequence
<1> HIDE DEF named, values, names
<1> QED
  BY <1>1, <1>2, <1>4, <1>5, Keys, ImportedIs

\* An edit of an option's values that is not refused.
LEMMA OptionEditImported ==
  ASSUME NEW p, Imported(p), NEW edit, OptionEdit(p, edit) # Refused
  PROVE  Imported(OptionEdit(p, edit))
<1> DEFINE name == edit.name
           n == Len(p.variants)
<1>1. DOMAIN p = DOMAIN NoProduct /\ IsSequence(p.names) /\ AllNew(p.variants)
  BY ImportedIs
<1>2. n \in Nat /\ DOMAIN p.variants = 1..n /\ \A k \in 1..n : New(p.variants[k])
  BY <1>1, AllNewHas
<1>3. ASSUME NEW from, NEW to PROVE Imported(RenamedValue(p, name, from, to))
  <2> DEFINE swap(value) == IF value = from THEN to ELSE value
             swapped(v) == [v EXCEPT !.pairs[name] = swap(v.pairs[name])]
             renamed == [k \in DOMAIN p.variants |-> swapped(p.variants[k])]
             q == RenamedValue(p, name, from, to)
  <2>1. DOMAIN q = DOMAIN p /\ q.names = p.names /\ q.variants = renamed
    BY <1>1, Keys DEF RenamedValue
  <2>2. \A k \in 1..n : New(renamed[k])
    BY <1>2, Keys DEF New
  <2>3. renamed = [k \in 1..n |-> renamed[k]]
    BY <1>2
  <2> HIDE DEF renamed, q
  <2>4. AllNew(renamed)
    BY <1>2, <2>2, <2>3, AllNewOf
  <2>5. Imported(q)
    BY <1>1, <2>1, <2>4, ImportedWith
  <2> QED
    BY <2>5 DEF q
<1>4. ASSUME NEW value PROVE Imported(AddedValue(p, name, value))
  <2> DEFINE clones == [k \in DOMAIN p.variants |-> Clone(p.variants[k], name, value)]
             added == Additions(p, name, value)
             q == AddedValue(p, name, value)
  <2>1. \A k \in 1..n : New(clones[k])
    BY <1>2, Keys DEF New, Clone
  <2>2. clones = [k \in 1..n |-> clones[k]]
    BY <1>2
  <2>3. \E S \in SUBSET DOMAIN clones : added = Chosen(clones, S)
    BY Zenon DEF Additions
  <2> HIDE DEF clones, added
  <2>4. AllNew(added)
    BY <1>2, <2>1, <2>2, <2>3, AllNewOf, ChosenNew
  <2>5. DOMAIN q = DOMAIN p /\ q.names = p.names /\ q.variants = p.variants \o added
    BY <1>1, Keys DEF AddedValue, added
  <2> HIDE DEF q
  <2>6. Imported(q)
    BY <1>1, <2>4, <2>5, ConcatNew, ImportedWith
  <2> QED
    BY <2>6 DEF q
<1>5. ASSUME NEW value PROVE Imported(RemovedValue(p, name, value))
  <2> DEFINE S == {k \in DOMAIN p.variants : p.variants[k].pairs[name] # value}
             q == RemovedValue(p, name, value)
  <2>1. DOMAIN q = DOMAIN p /\ q.names = p.names /\ q.variants = Chosen(p.variants, S)
    BY <1>1, Keys DEF RemovedValue
  <2> HIDE DEF q
  <2>2. AllNew(Chosen(p.variants, S))
    BY <1>1, ChosenNew
  <2>3. Imported(q)
    BY <1>1, <2>1, <2>2, ImportedWith
  <2> QED
    BY <2>3 DEF q
<1>6. Imported([p EXCEPT !.values[name] = edit.values])
  BY <1>1, Keys, ImportedIs
<1> QED
  BY <1>3, <1>4, <1>5, <1>6, SortedImported DEF OptionEdit

\* What an edit of the structure makes.
LEMMA ReshapedImported ==
  ASSUME NEW p, Imported(p), NEW names, IsSequence(names), NEW values,
         NEW variants, AllNew(variants)
  PROVE  Imported(Reshaped(p, names, values, variants))
<1> DEFINE pairs(k) == IF names = <<>> THEN DefaultTitle
                       ELSE [n \in Range(names) |-> Get(variants[k].pairs, n)]
           shaped == [k \in DOMAIN variants |->
                        [variants[k] EXCEPT !.placed = Empty, !.pairs = pairs(k)]]
           n == Len(variants)
           q == Reshaped(p, names, values, variants)
<1>1. n \in Nat /\ DOMAIN variants = 1..n /\ \A k \in 1..n : New(variants[k])
  BY AllNewHas
<1>2. DOMAIN q = DOMAIN p /\ q.names = names /\ q.variants = shaped
  BY ImportedIs, Keys, <1>1 DEF Reshaped, New
<1> HIDE DEF q
<1>3. \A k \in 1..n : New(shaped[k])
  BY <1>1, Keys DEF New
<1>4. shaped = [k \in 1..n |-> shaped[k]]
  BY <1>1
<1> HIDE DEF shaped
<1>5. Imported(q)
  BY <1>1, <1>2, <1>3, <1>4, AllNewOf, ImportedWith
<1> QED
  BY <1>5 DEF q

\* An edit of the structure that is not refused.
LEMMA StructureEditImported ==
  ASSUME NEW p, Imported(p), NEW old, NEW edit, StructureEdit(p, old, edit) # Refused
  PROVE  Imported(StructureEdit(p, old, edit))
<1> DEFINE variants == Variants(p)
           n == Len(variants)
<1>1. ASSUME NEW names, IsSequence(names), NEW values, NEW vs, AllNew(vs),
             Sound(Reshaped(p, names, values, vs)) # Refused
      PROVE  Imported(Sound(Reshaped(p, names, values, vs)))
  BY <1>1, ReshapedImported DEF Sound
<1>2. AllNew(p.variants) /\ AllNew(variants)
  BY ImportedIs, OneNew, Keys DEF Variants
<1>3. n \in Nat /\ DOMAIN variants = 1..n /\ \A k \in 1..n : New(variants[k])
  BY <1>2, AllNewHas
<1>10. IsSequence(Options(p))
  <2>1. IsSequence(p.names) /\ IsSequence(<<>>)
    BY ImportedIs DEF IsSequence, Range
  <2> QED
    BY <2>1 DEF Options
<1>4. AddDimension(p, edit) # Refused => Imported(AddDimension(p, edit))
  <2> DEFINE wider == [k \in DOMAIN variants |->
                         [variants[k] EXCEPT !.pairs = With(@, edit.name, edit.value)]]
  <2>1. \A k \in 1..n : New(wider[k])
    BY <1>3, Keys DEF New
  <2>2. wider = [k \in 1..n |-> wider[k]]
    BY <1>3
  <2>3. AllNew(wider)
    <3> HIDE DEF wider
    <3> QED
      BY <1>3, <2>1, <2>2, AllNewOf
  <2>4. \/ AddDimension(p, edit) = Refused
        \/ \E values : AddDimension(p, edit)
                         = Sound(Reshaped(p, Append(Options(p), edit.name), values, wider))
    BY Zenon DEF AddDimension
  <2>5. IsSequence(Append(Options(p), edit.name))
    <3> DEFINE names == Options(p)
    <3>1. IsSequence(names) /\ IsSequence(<<edit.name>>)
      BY <1>10 DEF IsSequence, Range
    <3> HIDE DEF names
    <3>2. Append(names, edit.name) = names \o <<edit.name>>
      BY <3>1 DEF IsSequence
    <3> QED
      BY <3>1, <3>2, ConcatHas DEF names
  <2> HIDE DEF wider
  <2> QED
    BY <1>1, <2>3, <2>4, <2>5
<1>5. RenameDimension(p, edit) # Refused => Imported(RenameDimension(p, edit))
  <2> DEFINE former(m) == IF m = edit.to THEN edit.name ELSE m
             names == [i \in DOMAIN Options(p) |->
                         IF Options(p)[i] = edit.name THEN edit.to ELSE Options(p)[i]]
             moved == [k \in DOMAIN variants |-> [variants[k] EXCEPT
                         !.pairs = [m \in Range(names) |-> Get(@, former(m))]]]
  <2>1. \A k \in 1..n : New(moved[k])
    BY <1>3, Keys DEF New
  <2>2. moved = [k \in 1..n |-> moved[k]]
    BY <1>3
  <2>3. AllNew(moved)
    <3> HIDE DEF moved
    <3> QED
      BY <1>3, <2>1, <2>2, AllNewOf
  <2>4. \/ RenameDimension(p, edit) = Refused
        \/ \E values : RenameDimension(p, edit) = Sound(Reshaped(p, names, values, moved))
    BY Zenon DEF RenameDimension
  <2>5. IsSequence(names)
    <3> DEFINE places == Len(Options(p))
    <3>1. places \in Nat /\ DOMAIN Options(p) = 1..places
      BY <1>10, SequenceHas
    <3>2. names \in [1..places -> Range(names)]
      BY <3>1 DEF Range
    <3> HIDE DEF names
    <3> QED
      BY <3>1, <3>2, IsSequenceOf
  <2> HIDE DEF moved, names
  <2> QED
    BY <1>1, <2>3, <2>4, <2>5
<1>6. ReorderDimensions(p, edit) # Refused => Imported(ReorderDimensions(p, edit))
  <2>1. Len(Options(p)) \in Nat /\ DOMAIN Options(p) = 1..Len(Options(p))
    BY <1>10, SequenceHas
  <2>2. edit.names \in Surjection(DOMAIN Options(p), Range(Options(p))) => IsSequence(edit.names)
    BY <2>1, IsSequenceOf DEF Surjection
  <2> QED
    BY <1>1, <1>2, <2>2 DEF ReorderDimensions
<1>7. RemoveDimension(p, old, edit) # Refused => Imported(RemoveDimension(p, old, edit))
  <2>1. Len(Options(p)) \in Nat /\ DOMAIN Options(p) = 1..Len(Options(p))
    BY <1>10, SequenceHas
  <2>2. \A S \in SUBSET DOMAIN Options(p) : IsSequence(Chosen(Options(p), S))
    BY <2>1, ChosenHas
  <2> QED
    BY <1>1, <1>2, <2>2 DEF RemoveDimension
<1>8. AddVariant(p, edit) # Refused => Imported(AddVariant(p, edit))
  <2> DEFINE one == [NoVariant EXCEPT !.pairs = edit.pairs]
  <2>1. New(one)
    BY Keys DEF New
  <2> HIDE DEF one
  <2>2. Append(variants, one) = variants \o <<one>>
    BY <1>2 DEF AllNew, IsSequence
  <2>3. AllNew(Append(variants, one))
    BY <1>2, <2>1, <2>2, OneNew, ConcatNew
  <2> HIDE DEF variants
  <2> QED
    BY <1>1, <1>10, <2>3 DEF AddVariant, one, variants
<1>9. RemoveVariant(p, old, edit) # Refused => Imported(RemoveVariant(p, old, edit))
  <2> DEFINE hits == {k \in DOMAIN p.variants : Combo(p.variants[k], Options(p)) = edit.combo}
             hit == CHOOSE k \in hits : \A j \in hits : k <= j
  <2>1. SUFFICES ASSUME hits # {} PROVE AllNew(RemoveAt(p.variants, hit))
    BY <1>1, <1>10 DEF RemoveVariant
  <2>2. hit \in DOMAIN p.variants
    <3>1. hits \in SUBSET Nat
      BY <1>2, AllNewHas
    <3>2. \E k \in hits : \A j \in hits : k <= j
      BY <2>1, <3>1, LeastMember
    <3> QED
      BY <3>2
  <2> HIDE DEF hit
  <2> QED
    BY <1>2, <2>2, RemoveAtNew
<1> QED
  BY <1>4, <1>5, <1>6, <1>7, <1>8, <1>9 DEF StructureEdit

\* An edit of a cell that is not refused.
LEMMA CellEditImported ==
  ASSUME NEW p, Imported(p), NEW edit, CellEdit(p, edit) # Refused
  PROVE  Imported(CellEdit(p, edit))
<1>1. DOMAIN p = DOMAIN NoProduct /\ IsSequence(p.names) /\ AllNew(p.variants)
  BY ImportedIs
<1>2. CASE edit.index = 0 /\ edit.field \in ProductFields
  BY <1>1, <1>2, Keys, ImportedIs DEF CellEdit
<1>3. CASE ~(edit.index = 0 /\ edit.field \in ProductFields)
  <2> DEFINE n == Len(p.variants)
             edited == [p.variants EXCEPT ![edit.index][edit.field] = edit.value]
  <2>1. n \in Nat /\ DOMAIN p.variants = 1..n /\ \A k \in 1..n : New(p.variants[k])
    BY <1>1, AllNewHas
  <2>2. edit.index \in 1..n /\ edit.field \in {"sku", "barcode", "quantity"}
    BY <1>3, <2>1 DEF CellEdit, VariantFields
  <2>3. \A k \in 1..n : New(edited[k])
    BY <2>1, <2>2, Keys DEF New
  <2>4. edited = [k \in 1..n |-> edited[k]]
    BY <2>1
  <2>5. CellEdit(p, edit) = [p EXCEPT !.variants = edited]
    BY Zenon, <1>3 DEF CellEdit
  <2> HIDE DEF edited
  <2>6. AllNew(edited)
    BY <2>1, <2>3, <2>4, AllNewOf
  <2> QED
    BY <1>1, <2>5, <2>6, Keys, ImportedIs
<1> QED
  BY <1>2, <1>3

-----------------------------------------------------------------------------
(* What the import and the live product are merged into.                   *)

LiveCombo(old, p, k) == Combo(old.variants[k], OptionNames(old, p))

\* A live variant with what the import says of it
KeptVariant(old, p, accepted, k) ==
  LET same == {i \in accepted : ImportedCombo(old, p, i) = LiveCombo(old, p, k)}
  IN  IF same = {} THEN Was(old, p, k)
      ELSE MergeVariant(Was(old, p, k), Said(old, p, CHOOSE i \in same : TRUE))

NewOnes(old, p, accepted) ==
  {i \in accepted : \A k \in LiveMatched(old, p) :
                      ImportedCombo(old, p, i) # LiveCombo(old, p, k)}

\* The merged variants: the live ones that are matched, then the imported ones that are new.
LEMMA MergedIs ==
  ASSUME NEW old, NEW p, NEW accepted
  PROVE  Merged(old, p, accepted) =
           Chosen([k \in DOMAIN old.variants |-> KeptVariant(old, p, accepted, k)],
                  LiveMatched(old, p))
           \o Chosen([i \in DOMAIN p.variants |-> Said(old, p, i)], NewOnes(old, p, accepted))
<1> DEFINE matched == LiveMatched(old, p)
           Same(k) == {i \in accepted : ImportedCombo(old, p, i) = LiveCombo(old, p, k)}
<1>1. accepted \ UNION {Same(k) : k \in matched} = NewOnes(old, p, accepted)
  <2>1. ASSUME NEW i \in accepted
        PROVE  i \in UNION {Same(k) : k \in matched} <=> i \notin NewOnes(old, p, accepted)
    BY DEF NewOnes
  <2> QED
    BY <2>1 DEF NewOnes
<1> QED
  BY <1>1 DEF Merged, KeptVariant, LiveCombo

\* A variant's combination comes from what it names, or else from its places.
LEMMA SameCombo ==
  ASSUME NEW v, NEW w, NEW names, v.pairs = w.pairs, v.placed = w.placed
  PROVE  Combo(v, names) = Combo(w, names) /\ Pairs(v, names) = Pairs(w, names)
<1>1. Pairs(v, names) = Pairs(w, names)
  BY DEF Pairs
<1> QED
  BY Zenon, <1>1 DEF Combo

\* None of the values it has is missing.
LEMMA PairsHas ==
  ASSUME NEW v, NEW names, NEW n \in DOMAIN Pairs(v, names)
  PROVE  ~Missing(Pairs(v, names)[n])
<1> DEFINE named == {m \in DOMAIN v.pairs : ~Missing(v.pairs[m])}
           places == {i \in DOMAIN names \cap DOMAIN v.placed : ~Missing(v.placed[i])}
           byName == [m \in named |-> v.pairs[m]]
           byPlace == [m \in {names[i] : i \in places} |->
                         v.placed[CHOOSE i \in places : names[i] = m]]
<1>1. Pairs(v, names) = IF named # {} THEN byName ELSE byPlace
  BY Zenon DEF Pairs
<1>2. CASE named # {}
  BY <1>1, <1>2
<1>3. CASE named = {}
  <2>1. Pairs(v, names) = byPlace /\ n \in {names[i] : i \in places}
    BY <1>1, <1>3
  <2>2. (CHOOSE i \in places : names[i] = n) \in places
    BY <2>1
  <2> QED
    BY <2>1, <2>2
<1> QED
  BY <1>2, <1>3

\* A variant that is put by the names there are keeps the combination it has.
LEMMA NormalizedIs ==
  ASSUME NEW v, DOMAIN v = DOMAIN NoVariant, NEW names
  PROVE  /\ DOMAIN Normalized(v, names) = DOMAIN NoVariant
         /\ Normalized(v, names).placed = Empty
         /\ Normalized(v, names).id = v.id /\ Normalized(v, names).sku = v.sku
         /\ Normalized(v, names).quantity = v.quantity
         /\ Normalized(v, names).barcode = v.barcode
         /\ Combo(v, names) # Absent => Combo(Normalized(v, names), names) = Combo(v, names)
<1> DEFINE w == Normalized(v, names)
           given == Pairs(v, names)
           pairs == [n \in Range(names) \cap DOMAIN given |-> given[n]]
<1>1. w = [v EXCEPT !.pairs = pairs, !.placed = Empty]
  BY DEF Normalized
<1>2. \A n \in DOMAIN given : ~Missing(given[n])
  BY PairsHas
<1> HIDE DEF given, w
<1>3. /\ DOMAIN w = DOMAIN NoVariant /\ w.placed = Empty /\ w.pairs = pairs
      /\ w.id = v.id /\ w.sku = v.sku /\ w.quantity = v.quantity /\ w.barcode = v.barcode
  BY <1>1, Keys
<1>4. ASSUME Combo(v, names) # Absent PROVE Combo(w, names) = Combo(v, names)
  <2>1. Range(names) \subseteq DOMAIN given
    BY <1>4 DEF Combo, given
  <2>2. pairs = [n \in Range(names) |-> given[n]]
    BY <2>1
  <2>3. {m \in DOMAIN w.pairs : ~Missing(w.pairs[m])} = Range(names)
    BY <1>2, <1>3, <2>1, <2>2
  <2>4. CASE Range(names) # {}
    <3>1. Pairs(w, names) = [n \in Range(names) |-> w.pairs[n]]
      BY <2>3, <2>4 DEF Pairs
    <3>2. \A n \in Range(names) : Pairs(w, names)[n] = given[n]
      BY <1>3, <2>2, <3>1
    <3>3. \A i \in DOMAIN names : names[i] \in Range(names)
      BY DEF Range
    <3>4. Combo(v, names) = [i \in DOMAIN names |-> given[names[i]]]
      BY <2>1 DEF Combo, given
    <3>5. Combo(w, names) = [i \in DOMAIN names |-> Pairs(w, names)[names[i]]]
      BY <3>1 DEF Combo
    <3> QED
      BY <3>2, <3>3, <3>4, <3>5
  <2>5. CASE Range(names) = {}
    <3>1. DOMAIN names = {}
      BY <2>5 DEF Range
    <3> QED
      BY <2>5, <3>1 DEF Combo
  <2> QED
    BY <2>4, <2>5
<1> QED
  BY <1>3, <1>4 DEF w

\* What the import says of a variant: no more than the imported variant itself, but for how
\* it is matched, and for a blank quantity, which says nothing.
LEMMA SaidIs ==
  ASSUME NEW old, NEW p, IsProduct(p), NEW k \in DOMAIN p.variants
  PROVE  /\ DOMAIN Said(old, p, k) = DOMAIN NoVariant
         /\ Said(old, p, k).placed = Empty
         /\ Said(old, p, k).id = p.variants[k].id
         /\ Said(old, p, k).sku = p.variants[k].sku
         /\ Said(old, p, k).barcode = p.variants[k].barcode
         /\ Said(old, p, k).quantity
              = IF Missing(p.variants[k].quantity) THEN Absent ELSE p.variants[k].quantity
         /\ ImportedCombo(old, p, k) # Absent
              => Combo(Said(old, p, k), OptionNames(old, p)) = ImportedCombo(old, p, k)
<1> DEFINE v == p.variants[k]
           located == Located(old, p, k)
<1>1. DOMAIN v = DOMAIN NoVariant
  BY DEF IsProduct, Range
<1>2. /\ DOMAIN located = DOMAIN NoVariant
      /\ located.id = v.id /\ located.sku = v.sku /\ located.barcode = v.barcode
      /\ located.quantity = IF Missing(v.quantity) THEN Absent ELSE v.quantity
  BY <1>1, Keys DEF Located
<1> HIDE DEF located, v
<1> QED
  BY <1>2, Keys, NormalizedIs DEF Said, ImportedCombo, located, v

\* The quantity it says, on its own.
LEMMA SaidQuantity ==
  ASSUME NEW old, NEW p, IsProduct(p), NEW k \in DOMAIN p.variants
  PROVE  Said(old, p, k).quantity
           = IF Missing(p.variants[k].quantity) THEN Absent ELSE p.variants[k].quantity
  BY SaidIs

\* What was live: no more than the live variant, by the names there are.
LEMMA WasIs ==
  ASSUME NEW old, IsProduct(old), NEW p, NEW k \in DOMAIN old.variants
  PROVE  /\ DOMAIN Was(old, p, k) = DOMAIN NoVariant
         /\ Was(old, p, k).placed = Empty
         /\ Was(old, p, k).id = old.variants[k].id
         /\ Was(old, p, k).sku = old.variants[k].sku
         /\ Was(old, p, k).barcode = old.variants[k].barcode
         /\ Was(old, p, k).quantity = old.variants[k].quantity
         /\ LiveCombo(old, p, k) # Absent
              => Combo(Was(old, p, k), OptionNames(old, p)) = LiveCombo(old, p, k)
<1>1. DOMAIN old.variants[k] = DOMAIN NoVariant
  BY DEF IsProduct, Range
<1> QED
  BY <1>1, Keys, NormalizedIs DEF Was, LiveCombo

\* What the import says of a live variant changes neither its identity nor the combination
\* it is matched by.
LEMMA KeptVariantIs ==
  ASSUME NEW old, IsProduct(old), NEW p, IsProduct(p),
         NEW accepted \in SUBSET DOMAIN p.variants, NEW k \in LiveMatched(old, p)
  PROVE  /\ DOMAIN KeptVariant(old, p, accepted, k) = DOMAIN NoVariant
         /\ KeptVariant(old, p, accepted, k).id = old.variants[k].id
         /\ Combo(KeptVariant(old, p, accepted, k), OptionNames(old, p)) = LiveCombo(old, p, k)
<1> DEFINE same == {i \in accepted : ImportedCombo(old, p, i) = LiveCombo(old, p, k)}
           i == CHOOSE j \in same : TRUE
           was == Was(old, p, k)
           said == Said(old, p, i)
           kept == KeptVariant(old, p, accepted, k)
<1>1. k \in DOMAIN old.variants /\ LiveCombo(old, p, k) # Absent
  BY DEF LiveMatched, LiveCombo
<1>2. /\ DOMAIN was = DOMAIN NoVariant /\ was.placed = Empty /\ was.id = old.variants[k].id
      /\ Combo(was, OptionNames(old, p)) = LiveCombo(old, p, k)
  BY <1>1, WasIs
<1>3. CASE same = {}
  BY <1>2, <1>3 DEF KeptVariant
<1>4. CASE same # {}
  <2>1. i \in same
    BY <1>4
  <2>2. kept = MergeVariant(was, said)
    BY <1>4 DEF KeptVariant
  <2>3. said.placed = Empty /\ Combo(said, OptionNames(old, p)) = LiveCombo(old, p, k)
    BY <1>1, <2>1, SaidIs
  <2> HIDE DEF i, was, said, kept
  <2>4. /\ DOMAIN kept = DOMAIN NoVariant /\ kept.id = was.id
        /\ kept.placed = said.placed /\ kept.pairs = said.pairs
    BY <1>2, <2>2, <2>3, Keys DEF MergeVariant
  <2>5. Combo(kept, OptionNames(old, p)) = Combo(said, OptionNames(old, p))
    BY <2>4, SameCombo
  <2> QED
    BY <1>2, <2>3, <2>4, <2>5 DEF kept
<1> QED
  BY <1>3, <1>4

\* Where the variants of the merged product come from: each live one that is matched,
\* and each imported one that is new, is at one place.
LEMMA MergedHas ==
  ASSUME NEW old, IsProduct(old), NEW p, IsProduct(p), NEW accepted \in SUBSET DOMAIN p.variants
  PROVE  LET merged == Merged(old, p, accepted)
             f == InOrder(LiveMatched(old, p))
             g == InOrder(NewOnes(old, p, accepted))
             m == Cardinality(LiveMatched(old, p))
             n == Cardinality(NewOnes(old, p, accepted))
         IN  /\ IsSequence(merged) /\ m \in Nat /\ n \in Nat /\ DOMAIN merged = 1..(m + n)
             /\ \A i \in 1..m : /\ f[i] \in LiveMatched(old, p)
                                /\ merged[i] = KeptVariant(old, p, accepted, f[i])
             /\ \A i \in 1..n : /\ g[i] \in NewOnes(old, p, accepted)
                                /\ merged[m + i] = Said(old, p, g[i])
             /\ \A i, j \in 1..m : f[i] = f[j] => i = j
             /\ \A i, j \in 1..n : g[i] = g[j] => i = j
             /\ \A k \in LiveMatched(old, p) : \E i \in 1..m : f[i] = k
<1> DEFINE matched == LiveMatched(old, p)
           new == NewOnes(old, p, accepted)
           kept == [k \in DOMAIN old.variants |-> KeptVariant(old, p, accepted, k)]
           located == [i \in DOMAIN p.variants |-> Said(old, p, i)]
           s == Chosen(kept, matched)
           t == Chosen(located, new)
           merged == Merged(old, p, accepted)
           f == InOrder(matched)
           g == InOrder(new)
           m == Cardinality(matched)
           n == Cardinality(new)
<1>1. /\ Len(old.variants) \in Nat /\ DOMAIN kept = 1..Len(old.variants)
      /\ Len(p.variants) \in Nat /\ DOMAIN located = 1..Len(p.variants)
  BY SequenceHas DEF IsProduct, IsSequence
<1>2. matched \in SUBSET (1..Len(old.variants)) /\ new \in SUBSET (1..Len(p.variants))
  BY <1>1 DEF LiveMatched, NewOnes
<1>3. merged = s \o t
  BY MergedIs
<1>4. \A i \in matched : kept[i] = KeptVariant(old, p, accepted, i)
  BY <1>1, <1>2
<1>5. \A i \in new : located[i] = Said(old, p, i)
  BY <1>1, <1>2
<1> HIDE DEF kept, located, merged, matched, new
<1>6. /\ IsSequence(s) /\ DOMAIN s = 1..m /\ Len(s) = m /\ DOMAIN s = DOMAIN f
      /\ \A i \in DOMAIN s : f[i] \in matched /\ s[i] = kept[f[i]]
      /\ \A i, j \in DOMAIN s : f[i] = f[j] => i = j
      /\ \A k \in matched : \E i \in DOMAIN s : f[i] = k
  BY <1>1, <1>2, ChosenHas
<1>7. /\ IsSequence(t) /\ DOMAIN t = 1..n /\ Len(t) = n /\ DOMAIN t = DOMAIN g
      /\ \A i \in DOMAIN t : g[i] \in new /\ t[i] = located[g[i]]
      /\ \A i, j \in DOMAIN t : g[i] = g[j] => i = j
  BY <1>1, <1>2, ChosenHas
<1> HIDE DEF s, t, f, g, m, n
<1>8. m \in Nat /\ n \in Nat
  BY <1>6, <1>7, SequenceHas
<1>9. /\ IsSequence(merged) /\ DOMAIN merged = 1..(m + n)
      /\ \A i \in 1..m : merged[i] = s[i]
      /\ \A i \in 1..n : merged[m + i] = t[i]
  BY <1>3, <1>6, <1>7, ConcatHas
<1>10. \A i \in 1..m : f[i] \in matched /\ merged[i] = KeptVariant(old, p, accepted, f[i])
  BY <1>4, <1>6, <1>9
<1>11. \A i \in 1..n : g[i] \in new /\ merged[m + i] = Said(old, p, g[i])
  BY <1>5, <1>7, <1>9
<1> QED
  BY <1>6, <1>7, <1>8, <1>9, <1>10, <1>11 DEF merged, f, g, m, n, matched, new

-----------------------------------------------------------------------------
(* A proposal that nothing blocks.                                         *)

\* The product names every combination once
Unique(p) ==
  /\ \A v \in Range(p.variants) : Combo(v, p.names) # Absent
  /\ Injective(Combos(p))

\* It keeps every variant of the live one, a placeholder apart
Keeps(p, old) ==
  \/ IsPlaceholderSchema(old.names, old.variants)
  \/ \A v \in Range(old.variants) :
       Cardinality({k \in DOMAIN p.variants : p.variants[k].id = v.id}) = 1

Replaced(old, p) ==
  IsPlaceholderSchema(old.names, old.variants) /\ ~IsPlaceholder(ImportedNames(p))

\* All that is said against the item of a product
Blocking(old, p, new, taken) == ItemBlockers(old, p, new, taken) \cup SkuBlockers(new)

\* What it means that nothing blocks a merge.
LEMMA NothingBlocks ==
  ASSUME NEW old, NEW p, NEW new, NEW taken, Blocking(old, p, new, taken) = {}
  PROVE  /\ p.variants # <<>> /\ HasStructure(p)
         /\ \A k \in DOMAIN p.variants :
              /\ ImportedCombo(old, p, k) # Absent
              /\ \A j \in 1..(k - 1) : ImportedCombo(old, p, j) # ImportedCombo(old, p, k)
              /\ ~Missing(p.variants[k].quantity) => ValidQuantity(p.variants[k].quantity)
              /\ ~Missing(p.variants[k].sku)
         /\ ~Replaced(old, p) => LiveMatched(old, p) = DOMAIN old.variants
         /\ ~Missing(p.fields.title)
         /\ Accepted(old, p) = DOMAIN p.variants
<1>1. ProductBlockers(p) = {} /\ MergeBlockers(old, p, new) = {}
  BY DEF Blocking, ItemBlockers
<1>2. p.variants # <<>> /\ ~Missing(p.fields.title)
  BY <1>1 DEF ProductBlockers
<1>3. ASSUME NEW k \in DOMAIN p.variants PROVE ~Missing(p.variants[k].sku)
  <2>1. SUFFICES ASSUME Missing(p.variants[k].sku) PROVE FALSE
    OBVIOUS
  <2>2. Blocker("SKU_REQUIRED", VariantPath(k, "sku")) \in ProductBlockers(p)
    BY <2>1 DEF ProductBlockers
  <2> QED
    BY <1>1, <2>2
<1>4. HasStructure(p)
  BY <1>2 DEF HasStructure
<1>5. VariantBlockers(old, p) = {} /\ LiveBlockers(old, p) = {}
  BY <1>1, <1>4 DEF MergeBlockers
<1>6. ASSUME NEW k \in DOMAIN p.variants
      PROVE  /\ ImportedCombo(old, p, k) # Absent /\ ~Repeats(old, p, k)
             /\ ~Missing(p.variants[k].quantity) => ValidQuantity(p.variants[k].quantity)
  <2>1. ImportedCombo(old, p, k) # Absent
    <3>1. SUFFICES ASSUME ImportedCombo(old, p, k) = Absent PROVE FALSE
      OBVIOUS
    <3>2. Blocker("INCOMPLETE_VARIANT_COMBINATION", VariantPath(k, "*"))
            \in VariantBlockers(old, p)
      BY <3>1 DEF VariantBlockers
    <3> QED
      BY <1>5, <3>2
  <2>2. ~Repeats(old, p, k)
    <3>1. SUFFICES ASSUME Repeats(old, p, k) PROVE FALSE
      OBVIOUS
    <3>2. Blocker("DUPLICATE_VARIANT_COMBINATION", VariantPath(k, "*"))
            \in VariantBlockers(old, p)
      BY <2>1, <3>1 DEF VariantBlockers
    <3> QED
      BY <1>5, <3>2
  <2>3. ~Missing(p.variants[k].quantity) => ValidQuantity(p.variants[k].quantity)
    <3>1. SUFFICES ASSUME ~Missing(p.variants[k].quantity),
                          ~ValidQuantity(p.variants[k].quantity)
                   PROVE  FALSE
      OBVIOUS
    <3>2. Blocker("INVALID_INVENTORY_QUANTITY", VariantPath(k, "inventory_quantity"))
            \in VariantBlockers(old, p)
      BY <3>1 DEF VariantBlockers
    <3> QED
      BY <1>5, <3>2
  <2> QED
    BY <2>1, <2>2, <2>3
<1>7. ASSUME ~Replaced(old, p) PROVE LiveMatched(old, p) = DOMAIN old.variants
  <2>1. LiveMatched(old, p) \subseteq DOMAIN old.variants
    BY <1>7 DEF LiveMatched, Replaced
  <2>2. ASSUME NEW k \in DOMAIN old.variants, k \notin LiveMatched(old, p) PROVE FALSE
    <3>1. Blocker("INVALID_LIVE_VARIANT_COMBINATIONS", <<"live", k>>) \in LiveBlockers(old, p)
      BY Zenon, <1>7, <2>2 DEF LiveBlockers, Replaced
    <3> QED
      BY <1>5, <3>1
  <2> QED
    BY <2>1, <2>2
<1>8. \A k \in DOMAIN p.variants : \A j \in 1..(k - 1) :
        ImportedCombo(old, p, j) # ImportedCombo(old, p, k)
  BY <1>6 DEF Repeats
<1>9. Accepted(old, p) = DOMAIN p.variants
  BY <1>6 DEF Accepted
<1> QED
  BY <1>2, <1>3, <1>4, <1>6, <1>7, <1>8, <1>9

\* Positions whose earlier ones all differ, differ.
LEMMA MatchedDiffer ==
  ASSUME NEW old, IsProduct(old), NEW p,
         NEW j \in LiveMatched(old, p), NEW k \in LiveMatched(old, p),
         LiveCombo(old, p, j) = LiveCombo(old, p, k)
  PROVE  j = k
<1>1. /\ j \in DOMAIN old.variants /\ k \in DOMAIN old.variants
      /\ \A i \in 1..(k - 1) : LiveCombo(old, p, i) # LiveCombo(old, p, k)
      /\ \A i \in 1..(j - 1) : LiveCombo(old, p, i) # LiveCombo(old, p, j)
  BY DEF LiveMatched, LiveCombo
<1>2. DOMAIN old.variants = 1..Len(old.variants) /\ Len(old.variants) \in Nat
  BY SequenceHas DEF IsProduct, IsSequence
<1> QED
  BY <1>1, <1>2

\* When nothing blocks the product, two of its variants differ in their combinations.
LEMMA ImportedDiffer ==
  ASSUME NEW old, NEW p, IsProduct(p), NEW new, NEW taken,
         Blocking(old, p, new, taken) = {},
         NEW j \in DOMAIN p.variants, NEW k \in DOMAIN p.variants,
         ImportedCombo(old, p, j) = ImportedCombo(old, p, k)
  PROVE  j = k
<1>1. /\ \A i \in 1..(k - 1) : ImportedCombo(old, p, i) # ImportedCombo(old, p, k)
      /\ \A i \in 1..(j - 1) : ImportedCombo(old, p, i) # ImportedCombo(old, p, j)
  BY NothingBlocks
<1>2. DOMAIN p.variants = 1..Len(p.variants) /\ Len(p.variants) \in Nat
  BY SequenceHas DEF IsProduct, IsSequence
<1> QED
  BY <1>1, <1>2

\* A proposal that nothing blocks names every combination once.
LEMMA ProposalUnique ==
  ASSUME NEW old, IsProduct(old), NEW p, IsProduct(p), NEW taken,
         Blocking(old, p, Proposed(old, p), taken) = {}
  PROVE  /\ Unique(Proposed(old, p))
         /\ IsSequence(Proposed(old, p).variants)
<1> DEFINE accepted == DOMAIN p.variants
           names == OptionNames(old, p)
           matched == LiveMatched(old, p)
           new == NewOnes(old, p, accepted)
           merged == Merged(old, p, accepted)
           f == InOrder(matched)
           g == InOrder(new)
           m == Cardinality(matched)
           n == Cardinality(new)
           combo == [i \in DOMAIN merged |-> Combo(merged[i], names)]
<1>1. /\ Accepted(old, p) = accepted /\ HasStructure(p)
      /\ \A k \in accepted : ImportedCombo(old, p, k) # Absent
  BY NothingBlocks
<1>2. Proposed(old, p).names = names /\ Proposed(old, p).variants = merged
  BY <1>1 DEF Proposed, WithVariants, MergedVariants
<1>3. /\ IsSequence(merged) /\ m \in Nat /\ n \in Nat /\ DOMAIN merged = 1..(m + n)
      /\ \A i \in 1..m : f[i] \in matched /\ merged[i] = KeptVariant(old, p, accepted, f[i])
      /\ \A i \in 1..n : g[i] \in new /\ merged[m + i] = Said(old, p, g[i])
      /\ \A i, j \in 1..m : f[i] = f[j] => i = j
      /\ \A i, j \in 1..n : g[i] = g[j] => i = j
  BY MergedHas
<1>4. \A k \in matched : k \in DOMAIN old.variants /\ LiveCombo(old, p, k) # Absent
  BY DEF LiveMatched, LiveCombo
<1>5. /\ new \subseteq accepted
      /\ \A i \in new, k \in matched : ImportedCombo(old, p, i) # LiveCombo(old, p, k)
  BY DEF NewOnes
<1> HIDE DEF merged, f, g, m, n, matched, new
<1>6. ASSUME NEW i \in 1..m PROVE combo[i] = LiveCombo(old, p, f[i])
  <2>1. i \in DOMAIN merged
    BY <1>3
  <2>2. combo[i] = Combo(merged[i], names)
    BY <2>1
  <2> QED
    BY <1>3, <1>4, <2>2, KeptVariantIs DEF matched
<1>7. ASSUME NEW i \in 1..n PROVE combo[m + i] = ImportedCombo(old, p, g[i])
  <2>1. m + i \in DOMAIN merged
    BY <1>3
  <2>2. combo[m + i] = Combo(merged[m + i], names)
    BY <2>1
  <2> QED
    BY <1>1, <1>3, <1>5, <2>2, SaidIs
<1> DEFINE length == Len(combo)
<1>8. DOMAIN combo = 1..(m + n) /\ IsSequence(combo)
  <2>1. m + n \in Nat /\ DOMAIN combo = DOMAIN merged /\ DOMAIN merged = 1..(m + n)
    BY <1>3
  <2>2. combo \in [DOMAIN combo -> Range(combo)]
    BY Zenon DEF Range
  <2>3. combo \in [1..(m + n) -> Range(combo)]
    BY <2>1, <2>2
  <2> HIDE DEF combo
  <2> QED
    BY <2>1, <2>3, IsSequenceOf
<1>9. \A i \in 1..(m + n) : i \in 1..m \/ (i - m \in 1..n /\ i = m + (i - m))
  BY <1>3
<1>10. combo = Combos(Proposed(old, p))
  BY <1>2 DEF Combos
<1>11. \A v \in Range(merged) : \E i \in 1..(m + n) : Combo(v, names) = combo[i]
  BY <1>3 DEF Range
<1> HIDE DEF combo
<1>12. ASSUME NEW i \in 1..(m + n) PROVE combo[i] # Absent
  BY <1>1, <1>3, <1>4, <1>5, <1>6, <1>7, <1>9
<1>13. ASSUME NEW i \in 1..(m + n), NEW j \in 1..(m + n), combo[i] = combo[j] PROVE i = j
  <2>1. CASE i \in 1..m /\ j \in 1..m
    <3>1. LiveCombo(old, p, f[i]) = LiveCombo(old, p, f[j])
      BY <1>6, <1>13, <2>1
    <3>2. f[i] = f[j]
      BY <1>3, <2>1, <3>1, MatchedDiffer DEF matched
    <3> QED
      BY <1>3, <2>1, <3>2
  <2>2. CASE i \notin 1..m /\ j \notin 1..m
    <3>1. i - m \in 1..n /\ j - m \in 1..n /\ i = m + (i - m) /\ j = m + (j - m)
      BY <1>9, <2>2
    <3>2. ImportedCombo(old, p, g[i - m]) = ImportedCombo(old, p, g[j - m])
      BY <1>7, <1>13, <3>1
    <3>3. g[i - m] = g[j - m]
      BY <1>3, <1>5, <3>1, <3>2, ImportedDiffer
    <3>4. i - m = j - m
      BY <1>3, <3>1, <3>3
    <3> QED
      BY <3>1, <3>4
  <2>3. CASE i \in 1..m /\ j \notin 1..m
    <3>1. j - m \in 1..n /\ j = m + (j - m)
      BY <1>9, <2>3
    <3> QED
      BY <1>3, <1>5, <1>6, <1>7, <1>13, <2>3, <3>1
  <2>4. CASE i \notin 1..m /\ j \in 1..m
    <3>1. i - m \in 1..n /\ i = m + (i - m)
      BY <1>9, <2>4
    <3> QED
      BY <1>3, <1>5, <1>6, <1>7, <1>13, <2>4, <3>1
  <2> QED
    BY <2>1, <2>2, <2>3, <2>4
<1>14. Injective(combo)
  BY <1>8, <1>13, DifferentAreInjective
<1> QED
  BY <1>2, <1>3, <1>10, <1>11, <1>12, <1>14 DEF Unique

\* A proposal that nothing blocks keeps every live variant.
LEMMA ProposalKeeps ==
  ASSUME NEW old, Identified(old), NEW p, Imported(p), NEW taken,
         Blocking(old, p, Proposed(old, p), taken) = {}
  PROVE  Keeps(Proposed(old, p), old)
<1> DEFINE accepted == DOMAIN p.variants
           matched == LiveMatched(old, p)
           merged == Merged(old, p, accepted)
           f == InOrder(matched)
           g == InOrder(NewOnes(old, p, accepted))
           m == Cardinality(matched)
           n == Cardinality(NewOnes(old, p, accepted))
<1> SUFFICES ASSUME ~IsPlaceholderSchema(old.names, old.variants), NEW v \in Range(old.variants)
             PROVE  Cardinality({k \in DOMAIN merged : merged[k].id = v.id}) = 1
  <2>1. HasStructure(p) /\ Accepted(old, p) = accepted
    BY NothingBlocks
  <2> QED
    BY <2>1 DEF Keeps, Proposed, WithVariants, MergedVariants
<1>1. IsProduct(old) /\ IsProduct(p) /\ \A k \in accepted : p.variants[k].id = Absent
  BY DEF Identified, Imported, Range
<1>2. matched = DOMAIN old.variants
  BY NothingBlocks DEF Replaced
<1>3. /\ \A j, k \in matched : old.variants[j].id = old.variants[k].id => j = k
      /\ \A k \in matched : old.variants[k].id # Absent
  BY <1>2 DEF Identified, Range
<1>4. PICK k \in matched : old.variants[k] = v
  BY <1>2 DEF Range
<1>5. /\ m \in Nat /\ n \in Nat /\ DOMAIN merged = 1..(m + n)
      /\ \A i \in 1..m : f[i] \in matched /\ merged[i] = KeptVariant(old, p, accepted, f[i])
      /\ \A i \in 1..n : /\ g[i] \in NewOnes(old, p, accepted)
                         /\ merged[m + i] = Said(old, p, g[i])
      /\ \A i, j \in 1..m : f[i] = f[j] => i = j
      /\ \A j \in matched : \E i \in 1..m : f[i] = j
  BY <1>1, MergedHas
<1>6. NewOnes(old, p, accepted) \subseteq accepted
  BY DEF NewOnes
<1> HIDE DEF merged, f, g, m, n, matched
<1>7. \A i \in 1..m : merged[i].id = old.variants[f[i]].id
  BY <1>1, <1>5, KeptVariantIs DEF matched
<1>8. \A i \in 1..n : merged[m + i].id = Absent
  <2> TAKE i \in 1..n
  <2>1. g[i] \in accepted /\ merged[m + i] = Said(old, p, g[i])
    BY <1>5, <1>6
  <2>2. \A j \in accepted : Said(old, p, j).id = p.variants[j].id
    BY <1>1, SaidIs
  <2> QED
    BY <1>1, <2>1, <2>2
<1>9. \A i \in 1..(m + n) : i \in 1..m \/ (i - m \in 1..n /\ i = m + (i - m))
  BY <1>5
<1>10. PICK i \in 1..m : f[i] = k
  BY <1>4, <1>5
<1>11. i \in DOMAIN merged /\ merged[i].id = v.id
  BY <1>4, <1>5, <1>7, <1>10
<1>12. ASSUME NEW j \in DOMAIN merged, merged[j].id = v.id PROVE j = i
  <2>1. j \in 1..m
    BY <1>3, <1>4, <1>5, <1>8, <1>9, <1>12
  <2>2. f[j] = k
    BY <1>3, <1>4, <1>5, <1>7, <1>12, <2>1
  <2> QED
    BY <1>5, <1>10, <2>1, <2>2
<1>13. {j \in DOMAIN merged : merged[j].id = v.id} = {i}
  BY <1>11, <1>12
<1> QED
  BY <1>13, FS_Singleton

-----------------------------------------------------------------------------
(* The item of an imported product.                                        *)

RowFields ==
  {"id", "scope", "subject", "field", "index", "current", "proposed", "original",
   "disposition", "required", "included"}

\* A row of an item that nothing blocks, whatever was chosen of it: a quantity is one that
\* the proposal or the product p gives, and a variant's row has nothing to go back to
Backed(r, old, p, new) ==
  /\ DOMAIN r = RowFields
  /\ r.scope = "inventory" =>
       \E t \in InventoryRows(old, new) \cup RejectedRows(old, p, new, {}) :
         t.subject = r.subject /\ t.proposed = r.proposed
  /\ r.scope = "variant" => r.current = Absent

\* The item tells what the product p makes of the live one
Made(item, old, p, taken) ==
  /\ DOMAIN item = {"proposed", "blockers", "operation", "intent", "selected", "rows"}
  /\ item.proposed = Proposed(old, p)
  /\ item.blockers = Blocking(old, p, item.proposed, taken)
  /\ item.blockers = {} => \A r \in item.rows : Backed(r, old, p, item.proposed)

\* What a choice, an identity or a complaint changes of a row does not matter to it.
LEMMA BackedStill ==
  ASSUME NEW r, NEW old, NEW p, NEW new, Backed(r, old, p, new), NEW q,
         DOMAIN q = DOMAIN r, \A f \in {"scope", "subject", "current", "proposed"} : q[f] = r[f]
  PROVE  Backed(q, old, p, new)
  BY DEF Backed

\* Every row of a review item that nothing is said against is backed.
LEMMA RowsAreBacked ==
  ASSUME NEW current, NEW p, NEW new, NEW prior, NEW renamed,
         NEW r \in ReviewItem(current, p, new, {}, prior, renamed).rows
  PROVE  Backed(r, Product(current), p, new)
<1> DEFINE old == Product(current)
           rows == ProductRows(old, new) \cup OptionRows(old, new)
                     \cup InventoryRows(old, new) \cup RejectedRows(old, p, new, {})
                     \cup SourceRows(p, new, {})
           decorated == {Decorate(s) : s \in RequireSku(rows, new)}
           anchored == decorated \cup AnchorRows(old, new, decorated, PriorRows(prior))
           Is(s) == Backed(s, old, p, new)
<1>1. r \in KeepSelection(anchored, new.names, renamed, PriorRows(prior))
  BY Zenon DEF ReviewItem
<1>2. ASSUME NEW scope, NEW subject, NEW field, NEW was, NEW proposed
      PROVE  LET s == Row(scope, subject, field, was, proposed)
             IN  /\ DOMAIN s = RowFields /\ s.scope = scope /\ s.subject = subject
                 /\ s.current = was /\ s.proposed = proposed
  BY DEF Row, RowFields
<1>3. \A s \in ProductRows(old, new) \cup OptionRows(old, new) : Is(s)
  BY <1>2 DEF ProductRows, OptionRows, OptionRow, Backed
<1>4. \A s \in InventoryRows(old, new) : Is(s)
  <2> SUFFICES ASSUME NEW s \in InventoryRows(old, new) PROVE Is(s)
    OBVIOUS
  <2>1. DOMAIN s = RowFields /\ s.scope = "inventory"
    BY <1>2 DEF InventoryRows
  <2> QED
    BY <2>1 DEF Backed
<1>5. \A s \in RejectedRows(old, p, new, {}) : Is(s)
  <2> SUFFICES ASSUME NEW s \in RejectedRows(old, p, new, {}) PROVE Is(s)
    OBVIOUS
  <2>1. DOMAIN s = RowFields /\ s.scope = "inventory"
    BY <1>2 DEF RejectedRows, RowFields
  <2> QED
    BY <2>1 DEF Backed
<1>6. \A s \in SourceRows(p, new, {}) : Is(s)
  <2> SUFFICES ASSUME NEW s \in SourceRows(p, new, {}) PROVE Is(s)
    OBVIOUS
  <2> DEFINE value(k, f) == IF p.variants[k][f] = Absent /\ k \in DOMAIN new.variants
                            THEN new.variants[k][f] ELSE p.variants[k][f]
             disposition(k, f) == IF \/ f = "sku" /\ Missing(value(k, f))
                                     \/ \E b \in {} : b.field = VariantPath(k, f)
                                  THEN "blocked" ELSE "applicable"
             source(k, f) == [Row("variant", Subject(p.variants[k], p.names), f, Absent, value(k, f))
                                EXCEPT !.index = k, !.disposition = disposition(k, f)]
             fields(k) == {"sku"} \cup {f \in VariantFields : value(k, f) # Absent}
  <2>1. SourceRows(p, new, {}) = UNION {{source(k, f) : f \in fields(k)} : k \in DOMAIN p.variants}
    BY DEF SourceRows
  <2>2. ASSUME NEW k, NEW f
        PROVE  /\ DOMAIN source(k, f) = RowFields
               /\ source(k, f).scope = "variant" /\ source(k, f).current = Absent
    BY <1>2 DEF RowFields
  <2> HIDE DEF source, fields
  <2>3. \E k, f : s = source(k, f)
    BY <2>1
  <2> QED
    BY <2>2, <2>3 DEF Backed
<1>7. \A s \in rows : Is(s)
  BY <1>3, <1>4, <1>5, <1>6
<1> HIDE DEF rows
<1>8. \A s \in RequireSku(rows, new) : Is(s)
  <2> SUFFICES ASSUME NEW s \in RequireSku(rows, new) PROVE Is(s)
    OBVIOUS
  <2>1. \/ \E t \in rows : s = t \/ s = [t EXCEPT !.disposition = "blocked"]
        \/ \E subject : s = [Row("variant", subject, "sku", Absent, Absent)
                               EXCEPT !.disposition = "blocked"]
    BY Zenon DEF RequireSku
  <2>2. CASE \E t \in rows : s = t \/ s = [t EXCEPT !.disposition = "blocked"]
    <3>1. PICK t \in rows : s = t \/ s = [t EXCEPT !.disposition = "blocked"]
      BY <2>2
    <3>2. Is(t) /\ DOMAIN t = RowFields
      BY <1>7 DEF Backed
    <3> QED
      BY <3>1, <3>2, BackedStill DEF RowFields
  <2>3. CASE \E subject : s = [Row("variant", subject, "sku", Absent, Absent)
                                 EXCEPT !.disposition = "blocked"]
    <3>1. DOMAIN s = RowFields /\ s.scope = "variant" /\ s.current = Absent
      BY <1>2, <2>3 DEF RowFields
    <3> QED
      BY <3>1 DEF Backed
  <2> QED
    BY <2>1, <2>2, <2>3
<1>9. ASSUME NEW s, Is(s) PROVE Is(Decorate(s))
  <2>1. DOMAIN s = RowFields
    BY <1>9 DEF Backed
  <2> QED
    BY <1>9, <2>1, BackedStill DEF Decorate, RowFields
<1>10. \A s \in AnchorRows(old, new, decorated, PriorRows(prior)) : Is(s)
  <2> SUFFICES ASSUME NEW s \in AnchorRows(old, new, decorated, PriorRows(prior)) PROVE Is(s)
    OBVIOUS
  <2>1. PICK name : s = Decorate(OptionRow(name, old, new))
    BY Zenon DEF AnchorRows
  <2>2. Is(OptionRow(name, old, new))
    BY <1>2 DEF OptionRow, Backed
  <2> QED
    BY <1>9, <2>1, <2>2
<1>11. \A s \in anchored : Is(s)
  BY <1>8, <1>9, <1>10
<1> HIDE DEF anchored
<1> DEFINE former(s) == CHOOSE t \in Earlier(s, new.names, renamed, PriorRows(prior)) : TRUE
           kept(s) == [s EXCEPT !.id = former(s).id, !.included = former(s).included,
                                !.original = former(s).original]
<1>12. PICK s \in anchored : r = s \/ r = kept(s)
  BY Zenon, <1>1 DEF KeepSelection
<1>13. Is(s) /\ DOMAIN s = RowFields
  BY <1>11 DEF Backed
<1> QED
  BY <1>12, <1>13, BackedStill DEF RowFields

\* What a review item holds of what it is given.
LEMMA ReviewItemHas ==
  ASSUME NEW current, NEW p, NEW new, NEW found, NEW prior, NEW renamed
  PROVE  LET item == ReviewItem(current, p, new, found, prior, renamed)
         IN  /\ DOMAIN item = {"proposed", "blockers", "operation", "intent", "selected", "rows"}
             /\ item.proposed = new /\ item.blockers = found \cup SkuBlockers(new)
             /\ item.intent = IF prior = Absent THEN "include" ELSE prior.intent
  BY DEF ReviewItem

\* The review item of a product tells what it makes of the live one.
LEMMA ReviewItemIsMade ==
  ASSUME NEW current, NEW p, NEW new, new = Proposed(Product(current), p), NEW found, NEW taken,
         found \cup SkuBlockers(new) = Blocking(Product(current), p, new, taken),
         NEW prior, NEW renamed
  PROVE  Made(ReviewItem(current, p, new, found, prior, renamed), Product(current), p, taken)
<1> DEFINE item == ReviewItem(current, p, new, found, prior, renamed)
<1>1. /\ DOMAIN item = {"proposed", "blockers", "operation", "intent", "selected", "rows"}
      /\ item.proposed = new /\ item.blockers = found \cup SkuBlockers(new)
  BY ReviewItemHas
<1>2. ASSUME item.blockers = {}, NEW r \in item.rows PROVE Backed(r, Product(current), p, new)
  <2>1. found = {}
    BY <1>1, <1>2
  <2> QED
    BY <1>2, <2>1, RowsAreBacked
<1> HIDE DEF item
<1>3. Made(item, Product(current), p, taken)
  BY <1>1, <1>2 DEF Made
<1> QED
  BY <1>3 DEF item

\* So does the item of an imported product.
LEMMA ItemIsMade ==
  ASSUME NEW current, NEW p, NEW prior, NEW taken
  PROVE  /\ Made(ItemOf(current, p, prior, taken), Product(current), p, taken)
         /\ ItemOf(current, p, prior, taken).intent = IF prior = Absent THEN "include" ELSE prior.intent
<1> DEFINE new == Proposed(Product(current), p)
           found == ItemBlockers(Product(current), p, new, taken)
<1>1. ItemOf(current, p, prior, taken) = ReviewItem(current, p, new, found, prior, NoRename)
  BY DEF ItemOf, ItemWith
<1>2. found \cup SkuBlockers(new) = Blocking(Product(current), p, new, taken)
  BY DEF Blocking
<1> HIDE DEF found
<1>3. Made(ReviewItem(current, p, new, found, prior, NoRename), Product(current), p, taken)
  BY <1>2, ReviewItemIsMade
<1>4. ReviewItem(current, p, new, found, prior, NoRename).intent
        = IF prior = Absent THEN "include" ELSE prior.intent
  BY ReviewItemHas
<1> QED
  BY <1>1, <1>3, <1>4

-----------------------------------------------------------------------------
(* What a live variant keeps.                                              *)

\* A live variant keeps its quantity, or takes the one that the import gives its
\* combination.
LEMMA KeptQuantity ==
  ASSUME NEW old, IsProduct(old), NEW p, IsProduct(p), NEW accepted \in SUBSET DOMAIN p.variants,
         NEW k \in DOMAIN old.variants
  PROVE  LET quantity == KeptVariant(old, p, accepted, k).quantity
         IN  \/ quantity = old.variants[k].quantity
             \/ \E i \in accepted :
                  /\ ImportedCombo(old, p, i) = LiveCombo(old, p, k)
                  /\ ~Missing(p.variants[i].quantity) /\ quantity = p.variants[i].quantity
<1> DEFINE same == {i \in accepted : ImportedCombo(old, p, i) = LiveCombo(old, p, k)}
           i == CHOOSE j \in same : TRUE
           was == Was(old, p, k)
           said == Said(old, p, i)
           kept == KeptVariant(old, p, accepted, k)
<1>1. DOMAIN was = DOMAIN NoVariant /\ was.quantity = old.variants[k].quantity
  BY WasIs
<1>2. CASE same = {}
  BY <1>1, <1>2 DEF KeptVariant
<1>3. CASE same # {}
  <2>1. i \in same
    BY <1>3
  <2>2. kept = MergeVariant(was, said)
    BY <1>3 DEF KeptVariant
  <2>3. said.quantity = IF Missing(p.variants[i].quantity) THEN Absent ELSE p.variants[i].quantity
    BY <2>1, SaidIs
  <2> HIDE DEF said, kept, was
  <2>4. kept.quantity = IF said.quantity = Absent THEN was.quantity ELSE said.quantity
    BY <1>1, <2>2, Keys DEF MergeVariant
  <2> HIDE DEF i
  <2> QED
    BY <1>1, <2>1, <2>3, <2>4 DEF Missing, kept
<1> QED
  BY <1>2, <1>3

\* A live variant that is matched is matched by the live names.
LEMMA MatchedByLiveNames ==
  ASSUME NEW old, Identified(old), NEW p, NEW k \in LiveMatched(old, p)
  PROVE  OptionNames(old, p) = old.names
<1>1. k \in DOMAIN old.variants /\ ~Replaced(old, p)
  BY DEF LiveMatched, Replaced
<1>2. old.names # <<>>
  BY <1>1 DEF Identified
<1>3. CASE IsPlaceholderSchema(old.names, old.variants)
  BY <1>1, <1>2, <1>3 DEF OptionNames, IsPlaceholderSchema, Replaced, IsPlaceholder
<1> QED
  BY <1>2, <1>3 DEF OptionNames

\* A product stays imported when required values come from the live one.
LEMMA CarryForwardImported ==
  ASSUME NEW old, NEW p, Imported(p)
  PROVE  Imported(CarryForward(old, p))
<1> DEFINE Sku(v) == IF Missing(v.sku) /\ MatchingLive(v, old, p) # {}
                     THEN old.variants[CHOOSE k \in MatchingLive(v, old, p) : TRUE].sku
                     ELSE v.sku
           filled == [k \in DOMAIN p.variants |->
                        [p.variants[k] EXCEPT !.sku = Sku(p.variants[k])]]
           n == Len(p.variants)
<1>1. DOMAIN p = DOMAIN NoProduct /\ IsSequence(p.names) /\ AllNew(p.variants)
  BY ImportedIs
<1>2. n \in Nat /\ DOMAIN p.variants = 1..n /\ \A k \in 1..n : New(p.variants[k])
  BY <1>1, AllNewHas
<1>3. /\ DOMAIN CarryForward(old, p) = DOMAIN p /\ CarryForward(old, p).names = p.names
      /\ CarryForward(old, p).variants = filled
  BY <1>1, Keys DEF CarryForward
<1>4. \A k \in 1..n : New(filled[k])
  BY <1>2, Keys DEF New
<1>5. filled = [k \in 1..n |-> filled[k]]
  BY <1>2
<1> HIDE DEF filled
<1> QED
  BY <1>1, <1>2, <1>3, <1>4, <1>5, AllNewOf, ImportedWith

\* What it has of the product.
LEMMA CarryForwardHas ==
  ASSUME NEW old, NEW p, Imported(p)
  PROVE  LET q == CarryForward(old, p)
         IN  /\ q.names = p.names /\ q.values = p.values
             /\ Len(q.variants) = Len(p.variants) /\ DOMAIN q.variants = DOMAIN p.variants
             /\ \A k \in DOMAIN p.variants :
                  /\ DOMAIN q.variants[k] = DOMAIN p.variants[k]
                  /\ \A f \in DOMAIN p.variants[k] \ {"sku"} :
                       q.variants[k][f] = p.variants[k][f]
                  /\ ~Missing(p.variants[k].sku) => q.variants[k].sku = p.variants[k].sku
                  /\ \/ q.variants[k].sku = p.variants[k].sku
                     \/ \E j \in MatchingLive(p.variants[k], old, p) :
                          q.variants[k].sku = old.variants[j].sku
             /\ ~Missing(p.fields.title) => q.fields.title = p.fields.title
<1> DEFINE sku(v) == IF Missing(v.sku) /\ MatchingLive(v, old, p) # {}
                     THEN old.variants[CHOOSE k \in MatchingLive(v, old, p) : TRUE].sku
                     ELSE v.sku
           filled == [k \in DOMAIN p.variants |->
                        [p.variants[k] EXCEPT !.sku = sku(p.variants[k])]]
           field(f) == IF f = "title" /\ Missing(p.fields[f]) THEN old.fields[f] ELSE p.fields[f]
           fields == [f \in ProductFields |-> field(f)]
           q == CarryForward(old, p)
<1>1. /\ DOMAIN p = {"names", "values", "variants", "tags", "fields"}
      /\ Len(p.variants) \in Nat /\ DOMAIN p.variants = 1..Len(p.variants)
      /\ \A k \in DOMAIN p.variants : DOMAIN p.variants[k] = DOMAIN NoVariant
  BY ImportedIs, AllNewHas, Keys DEF New
<1>2. q = [p EXCEPT !.fields = fields, !.variants = filled]
  BY Zenon DEF CarryForward
<1>3. \A k \in DOMAIN p.variants :
        /\ DOMAIN filled[k] = DOMAIN p.variants[k]
        /\ \A f \in DOMAIN p.variants[k] \ {"sku"} : filled[k][f] = p.variants[k][f]
        /\ ~Missing(p.variants[k].sku) => filled[k].sku = p.variants[k].sku
        /\ \/ filled[k].sku = p.variants[k].sku
           \/ \E j \in MatchingLive(p.variants[k], old, p) : filled[k].sku = old.variants[j].sku
  <2> SUFFICES ASSUME NEW k \in DOMAIN p.variants
               PROVE  /\ DOMAIN filled[k] = DOMAIN p.variants[k]
                      /\ \A f \in DOMAIN p.variants[k] \ {"sku"} :
                           filled[k][f] = p.variants[k][f]
                      /\ ~Missing(p.variants[k].sku) => filled[k].sku = p.variants[k].sku
                      /\ \/ filled[k].sku = p.variants[k].sku
                         \/ \E j \in MatchingLive(p.variants[k], old, p) :
                              filled[k].sku = old.variants[j].sku
    OBVIOUS
  <2>1. /\ DOMAIN filled[k] = DOMAIN p.variants[k]
        /\ \A f \in DOMAIN p.variants[k] \ {"sku"} : filled[k][f] = p.variants[k][f]
        /\ filled[k].sku = sku(p.variants[k])
    BY <1>1, Keys
  <2>2. CASE Missing(p.variants[k].sku) /\ MatchingLive(p.variants[k], old, p) # {}
    <3> DEFINE j == CHOOSE i \in MatchingLive(p.variants[k], old, p) : TRUE
    <3>1. j \in MatchingLive(p.variants[k], old, p)
      BY <2>2
    <3>2. filled[k].sku = old.variants[j].sku
      BY <2>1, <2>2
    <3> HIDE DEF j, filled
    <3> QED
      BY <2>1, <2>2, <3>1, <3>2
  <2>3. CASE ~(Missing(p.variants[k].sku) /\ MatchingLive(p.variants[k], old, p) # {})
    <3>1. filled[k].sku = p.variants[k].sku
      BY <2>1, <2>3
    <3> HIDE DEF filled
    <3> QED
      BY <2>1, <3>1
  <2> QED
    BY <2>2, <2>3
<1>4. ~Missing(p.fields.title) => fields.title = p.fields.title
  BY DEF ProductFields
<1>5. DOMAIN filled = DOMAIN p.variants /\ Len(filled) = Len(p.variants)
  <2>1. AllNew(q.variants)
    BY CarryForwardImported, ImportedIs
  <2>2. q.variants = filled
    BY <1>1, <1>2
  <2>3. DOMAIN filled = DOMAIN p.variants
    OBVIOUS
  <2> HIDE DEF filled, q
  <2>4. DOMAIN filled = 1..Len(filled) /\ Len(filled) \in Nat
    BY <2>1, <2>2, AllNewHas
  <2> QED
    BY <1>1, <2>3, <2>4
<1> HIDE DEF filled, fields, q
<1>6. q.names = p.names /\ q.values = p.values /\ q.variants = filled /\ q.fields = fields
  BY <1>1, <1>2
<1>7. /\ Len(q.variants) = Len(p.variants) /\ DOMAIN q.variants = DOMAIN p.variants
      /\ \A k \in DOMAIN p.variants :
           /\ DOMAIN q.variants[k] = DOMAIN p.variants[k]
           /\ \A f \in DOMAIN p.variants[k] \ {"sku"} : q.variants[k][f] = p.variants[k][f]
           /\ ~Missing(p.variants[k].sku) => q.variants[k].sku = p.variants[k].sku
           /\ \/ q.variants[k].sku = p.variants[k].sku
              \/ \E j \in MatchingLive(p.variants[k], old, p) :
                   q.variants[k].sku = old.variants[j].sku
  BY <1>3, <1>5, <1>6
<1> QED
  BY <1>4, <1>6, <1>7 DEF q

\* Two products that differ in no more than what their variants' SKUs are
Alike(p, q) ==
  /\ q.names = p.names /\ q.values = p.values
  /\ Len(q.variants) = Len(p.variants) /\ DOMAIN q.variants = DOMAIN p.variants
  /\ \A k \in DOMAIN p.variants :
       /\ DOMAIN q.variants[k] = DOMAIN NoVariant /\ DOMAIN p.variants[k] = DOMAIN NoVariant
       /\ \A f \in DOMAIN NoVariant \ {"sku"} : q.variants[k][f] = p.variants[k][f]

\* They are merged by the same names and combinations.
LEMMA AlikeMatch ==
  ASSUME NEW old, NEW p, NEW q, Alike(p, q)
  PROVE  /\ ImportedNames(q) = ImportedNames(p) /\ OptionNames(old, q) = OptionNames(old, p)
         /\ Singleton(old, q) = Singleton(old, p)
         /\ LiveMatched(old, q) = LiveMatched(old, p)
         /\ \A k \in DOMAIN p.variants :
              /\ ImportedCombo(old, q, k) = ImportedCombo(old, p, k)
              /\ q.variants[k].sku = p.variants[k].sku => Said(old, q, k) = Said(old, p, k)
<1>1. /\ ImportedNames(q) = ImportedNames(p) /\ OptionNames(old, q) = OptionNames(old, p)
      /\ Singleton(old, q) = Singleton(old, p)
  BY DEF Alike, ImportedNames, OptionNames, Singleton
<1>2. LiveMatched(old, q) = LiveMatched(old, p)
  BY Zenon, <1>1 DEF LiveMatched
<1>3. ASSUME NEW k \in DOMAIN p.variants
      PROVE  /\ ImportedCombo(old, q, k) = ImportedCombo(old, p, k)
             /\ q.variants[k].sku = p.variants[k].sku => Said(old, q, k) = Said(old, p, k)
  <2> DEFINE v == Located(old, p, k)
             w == Located(old, q, k)
  <2>1. /\ DOMAIN q.variants[k] = {"pairs", "placed", "sku", "barcode", "quantity", "id"}
        /\ DOMAIN p.variants[k] = {"pairs", "placed", "sku", "barcode", "quantity", "id"}
        /\ \A f \in {"pairs", "placed", "barcode", "quantity", "id"} :
             q.variants[k][f] = p.variants[k][f]
    BY Keys DEF Alike
  <2>2. w.pairs = v.pairs /\ w.placed = v.placed
    <3> DEFINE quantity(x) == IF Missing(x) THEN Absent ELSE x
               a == [p.variants[k] EXCEPT !.quantity = quantity(p.variants[k].quantity)]
               b == [q.variants[k] EXCEPT !.quantity = quantity(q.variants[k].quantity)]
               lone == Singleton(old, p) /\ old.names # <<>>
               none == DOMAIN Pairs(a, ImportedNames(p)) = {}
               default == IsPlaceholder(ImportedNames(p)) /\ none
               live == Pairs(old.variants[1], old.names)
    <3>1. /\ "pairs" \in DOMAIN a /\ "placed" \in DOMAIN a
          /\ "pairs" \in DOMAIN b /\ "placed" \in DOMAIN b
          /\ b.pairs = a.pairs /\ b.placed = a.placed
      BY <2>1
    <3>2. none = (DOMAIN Pairs(b, ImportedNames(p)) = {})
      BY <3>1, SameCombo
    <3>3. /\ v = IF lone THEN [a EXCEPT !.pairs = live]
                 ELSE IF default THEN [a EXCEPT !.pairs = DefaultTitle] ELSE a
          /\ w = IF lone THEN [b EXCEPT !.pairs = live]
                 ELSE IF default THEN [b EXCEPT !.pairs = DefaultTitle] ELSE b
      BY Zenon, <1>1, <3>2 DEF Located
    <3> HIDE DEF a, b, v, w, lone, default, live, none
    <3> QED
      BY <3>1, <3>3
  <2>3. ImportedCombo(old, q, k) = ImportedCombo(old, p, k)
    <3> HIDE DEF v, w
    <3>1. Combo(w, OptionNames(old, p)) = Combo(v, OptionNames(old, p))
      BY <2>2, SameCombo
    <3> QED
      BY <1>1, <3>1 DEF ImportedCombo, v, w
  <2>4. ASSUME q.variants[k].sku = p.variants[k].sku PROVE Said(old, q, k) = Said(old, p, k)
    <3> DEFINE quantity(x) == IF Missing(x) THEN Absent ELSE x
    <3>1. [q.variants[k] EXCEPT !.quantity = quantity(q.variants[k].quantity)]
            = [p.variants[k] EXCEPT !.quantity = quantity(p.variants[k].quantity)]
      BY <2>1, <2>4
    <3>2. w = v
      BY Zenon, <1>1, <3>1 DEF Located
    <3> HIDE DEF v, w
    <3> QED
      BY <1>1, <3>2 DEF Said, v, w
  <2> QED
    BY <2>3, <2>4
<1> QED
  BY <1>1, <1>2, <1>3

\* A product is like itself with required values from the live one.
LEMMA CarriedAlike ==
  ASSUME NEW old, NEW p, Imported(p)
  PROVE  Alike(p, CarryForward(old, p))
<1>1. \A k \in DOMAIN p.variants : DOMAIN p.variants[k] = DOMAIN NoVariant
  BY ImportedIs, AllNewHas DEF New
<1> QED
  BY <1>1, CarryForwardHas DEF Alike

\* When nothing blocks the product, nothing is carried over that could block it.
LEMMA NothingToCarry ==
  ASSUME NEW old, NEW p, Imported(p), NEW taken,
         Blocking(old, p, Proposed(old, p), taken) = {}
  PROVE  LET q == CarryForward(old, p)
         IN  Blocking(old, q, Proposed(old, q), taken) = {}
<1> DEFINE q == CarryForward(old, p)
           index == DOMAIN p.variants
<1>1. /\ \A k \in index : ~Missing(p.variants[k].sku)
      /\ p.variants # <<>> /\ HasStructure(p) /\ ~Missing(p.fields.title)
      /\ Accepted(old, p) = index
  BY NothingBlocks
<1>2. /\ \A k \in index : DOMAIN p.variants[k] = DOMAIN NoVariant
      /\ index = 1..Len(p.variants) /\ Len(p.variants) \in Nat
  BY ImportedIs, AllNewHas DEF New
<1>3. /\ Alike(p, q) /\ q.fields.title = p.fields.title
      /\ \A k \in index : \A f \in DOMAIN NoVariant : q.variants[k][f] = p.variants[k][f]
  BY <1>1, <1>2, CarryForwardHas DEF Alike
<1>4. /\ q.names = p.names /\ Len(q.variants) = Len(p.variants) /\ DOMAIN q.variants = index
      /\ \A k \in index : /\ q.variants[k].sku = p.variants[k].sku
                          /\ q.variants[k].quantity = p.variants[k].quantity
  BY <1>3, Keys DEF Alike
<1> HIDE DEF q
<1>5. q.variants # <<>> /\ (q.variants = <<>>) = (p.variants = <<>>)
  <2>1. index # {}
    <3>1. IsSequence(p.variants)
      BY ImportedIs DEF AllNew
    <3> QED
      BY <1>1, <1>2, <3>1 DEF IsSequence
  <2> QED
    BY <1>1, <1>4, <2>1
<1>6. /\ ImportedNames(q) = ImportedNames(p) /\ OptionNames(old, q) = OptionNames(old, p)
      /\ Singleton(old, q) = Singleton(old, p) /\ LiveMatched(old, q) = LiveMatched(old, p)
      /\ \A k \in index : /\ ImportedCombo(old, q, k) = ImportedCombo(old, p, k)
                          /\ Said(old, q, k) = Said(old, p, k)
  BY <1>3, <1>4, AlikeMatch
<1>7. \A k \in index : Repeats(old, q, k) = Repeats(old, p, k)
  <2> SUFFICES ASSUME NEW k \in index PROVE Repeats(old, q, k) = Repeats(old, p, k)
    OBVIOUS
  <2>1. \A j \in 1..(k - 1) : j \in index
    BY <1>2
  <2> QED
    BY <1>6, <2>1 DEF Repeats
<1>8. Accepted(old, q) = index
  BY <1>1, <1>4, <1>6, <1>7 DEF Accepted
<1>9. Merged(old, q, index) = Merged(old, p, index)
  <2>1. \A k \in DOMAIN old.variants : KeptVariant(old, q, index, k) = KeptVariant(old, p, index, k)
    <3> SUFFICES ASSUME NEW k \in DOMAIN old.variants
                 PROVE  KeptVariant(old, q, index, k) = KeptVariant(old, p, index, k)
      OBVIOUS
    <3> DEFINE same == {i \in index : ImportedCombo(old, p, i) = LiveCombo(old, p, k)}
    <3>1. same = {i \in index : ImportedCombo(old, q, i) = LiveCombo(old, q, k)}
      BY <1>6 DEF LiveCombo
    <3>4. Was(old, q, k) = Was(old, p, k)
      BY <1>6 DEF Was
    <3>2. CASE same = {}
      BY <3>1, <3>2, <3>4 DEF KeptVariant
    <3>3. CASE same # {}
      <4>1. (CHOOSE i \in same : TRUE) \in index
        BY <3>3
      <4>2. Said(old, q, CHOOSE i \in same : TRUE) = Said(old, p, CHOOSE i \in same : TRUE)
        BY <1>6, <4>1
      <4> DEFINE i == CHOOSE j \in same : TRUE
      <4>3. /\ KeptVariant(old, p, index, k) = MergeVariant(Was(old, p, k), Said(old, p, i))
            /\ KeptVariant(old, q, index, k) = MergeVariant(Was(old, q, k), Said(old, q, i))
        <5> HIDE DEF i
        <5> QED
          BY Zenon, <3>1, <3>3 DEF KeptVariant, i
      <4> QED
        BY <3>4, <4>2, <4>3
    <3> QED
      BY <3>2, <3>3
  <2>2. NewOnes(old, q, index) = NewOnes(old, p, index)
    BY <1>6 DEF NewOnes, LiveCombo
  <2>3. [i \in DOMAIN q.variants |-> Said(old, q, i)] = [i \in index |-> Said(old, p, i)]
    BY <1>4, <1>6
  <2>4. [k \in DOMAIN old.variants |-> KeptVariant(old, q, index, k)]
          = [k \in DOMAIN old.variants |-> KeptVariant(old, p, index, k)]
    BY <2>1
  <2> QED
    BY <1>6, <2>2, <2>3, <2>4, MergedIs
<1>10. HasStructure(q)
  BY <1>5 DEF HasStructure
<1> DEFINE new == Proposed(old, p)
           next == Proposed(old, q)
<1>11. next.variants = new.variants
  BY <1>1, <1>8, <1>9, <1>10 DEF Proposed, WithVariants, MergedVariants
<1> HIDE DEF new, next
<1>12. StructureBlockers(old, q) = StructureBlockers(old, p)
  BY Zenon, <1>5, <1>6 DEF StructureBlockers
<1>13. VariantBlockers(old, q) = VariantBlockers(old, p)
  <2>1. /\ {k \in index : /\ ~Missing(q.variants[k].quantity)
                          /\ ~ValidQuantity(q.variants[k].quantity)}
             = {k \in index : /\ ~Missing(p.variants[k].quantity)
                              /\ ~ValidQuantity(p.variants[k].quantity)}
        /\ {k \in index : ImportedCombo(old, q, k) = Absent}
             = {k \in index : ImportedCombo(old, p, k) = Absent}
    BY <1>4, <1>6
  <2>2. ASSUME NEW S PROVE {k \in index \ S : Repeats(old, q, k)} = {k \in index \ S : Repeats(old, p, k)}
    BY <1>7
  <2> QED
    BY Zenon, <1>4, <2>1, <2>2 DEF VariantBlockers
<1>14. LiveBlockers(old, q) = LiveBlockers(old, p)
  BY Zenon, <1>6 DEF LiveBlockers
<1>15. MergeBlockers(old, q, next) = {}
  <2>1. MergeBlockers(old, p, new) = {}
    BY DEF Blocking, ItemBlockers, new
  <2> QED
    BY <1>1, <1>10, <1>11, <1>12, <1>13, <1>14, <2>1 DEF MergeBlockers
<1>16. ProductBlockers(q) = {}
  <2>1. ProductBlockers(p) = {}
    BY DEF Blocking, ItemBlockers
  <2>2. {k \in index : Missing(q.variants[k].sku)} = {k \in index : Missing(p.variants[k].sku)}
    BY <1>4
  <2>3. ASSUME NEW S
        PROVE  {k \in index \ S : \E j \in 1..(k - 1) : q.variants[j].sku = q.variants[k].sku}
                 = {k \in index \ S : \E j \in 1..(k - 1) : p.variants[j].sku = p.variants[k].sku}
    <3>1. \A k \in index : \A j \in 1..(k - 1) : j \in index
      BY <1>2
    <3> QED
      BY <1>4, <3>1
  <2>4. Missing(q.fields.title) = Missing(p.fields.title)
    BY <1>3
  <2> QED
    BY Zenon, <1>4, <1>5, <2>1, <2>2, <2>3, <2>4 DEF ProductBlockers
<1>17. SkuBlockers(next) = {}
  <2>1. SkuBlockers(new) = {}
    BY DEF Blocking, ItemBlockers, new
  <2> QED
    BY <1>11, <2>1 DEF SkuBlockers
<1>18. SkuCollisions(q, taken) = {}
  <2>1. SkuCollisions(p, taken) = {}
    BY DEF Blocking, ItemBlockers
  <2>2. {i \in index : q.variants[i].sku \in taken} = {i \in index : p.variants[i].sku \in taken}
    BY <1>4
  <2> QED
    BY Zenon, <1>4, <2>1, <2>2 DEF SkuCollisions
<1>19. Blocking(old, q, next, taken) = {}
  BY <1>15, <1>16, <1>17, <1>18 DEF Blocking, ItemBlockers
<1> QED
  BY <1>19 DEF q, next

\* The proposal is a product.
LEMMA ProposalIsProduct ==
  ASSUME NEW old, IsProduct(old), NEW p, IsProduct(p)
  PROVE  IsProduct(Proposed(old, p))
<1> DEFINE new == Proposed(old, p)
           accepted == Accepted(old, p)
           merged == Merged(old, p, accepted)
           m == Cardinality(LiveMatched(old, p))
           n == Cardinality(NewOnes(old, p, accepted))
           f == InOrder(LiveMatched(old, p))
           g == InOrder(NewOnes(old, p, accepted))
<1>1. DOMAIN new = DOMAIN NoProduct /\ new.names \in Seq(Range(new.names))
  <2>1. IsSequence(old.names) /\ IsSequence(p.names) /\ IsSequence(<<"Title">>)
    BY DEF IsProduct, IsSequence, Range
  <2> QED
    BY <2>1, Keys DEF Proposed, WithVariants, OptionNames, ImportedNames, IsSequence
<1>2. CASE ~HasStructure(p)
  <2>1. new.variants = <<>>
    BY <1>2 DEF Proposed, WithVariants
  <2> QED
    BY <1>1, <2>1 DEF IsProduct, Range
<1>3. CASE HasStructure(p)
  <2>1. new.variants = merged
    BY <1>3 DEF Proposed, WithVariants, MergedVariants
  <2>2. accepted \in SUBSET DOMAIN p.variants
    BY DEF Accepted
  <2>3. /\ IsSequence(merged) /\ m \in Nat /\ n \in Nat /\ DOMAIN merged = 1..(m + n)
        /\ \A i \in 1..m : /\ f[i] \in LiveMatched(old, p)
                           /\ merged[i] = KeptVariant(old, p, accepted, f[i])
        /\ \A i \in 1..n : /\ g[i] \in NewOnes(old, p, accepted)
                           /\ merged[m + i] = Said(old, p, g[i])
    BY <2>2, MergedHas
  <2>4. LiveMatched(old, p) \subseteq DOMAIN old.variants
    BY DEF LiveMatched
  <2>5. NewOnes(old, p, accepted) \subseteq DOMAIN p.variants
    BY <2>2 DEF NewOnes
  <2> HIDE DEF merged, m, n, accepted, f, g
  <2>6. \A i \in 1..m : DOMAIN merged[i] = DOMAIN NoVariant
    BY <2>2, <2>3, KeptVariantIs
  <2>7. \A i \in 1..n : DOMAIN merged[m + i] = DOMAIN NoVariant
    <3>1. \A i \in 1..n : g[i] \in DOMAIN p.variants /\ merged[m + i] = Said(old, p, g[i])
      BY <2>3, <2>5
    <3>2. \A k \in DOMAIN p.variants : DOMAIN Said(old, p, k) = DOMAIN NoVariant
      BY SaidIs
    <3> QED
      BY <3>1, <3>2
  <2>8. \A i \in 1..(m + n) : i \in 1..m \/ (i - m \in 1..n /\ i = m + (i - m))
    BY <2>3
  <2>9. \A i \in DOMAIN merged : DOMAIN merged[i] = DOMAIN NoVariant
    BY <2>3, <2>6, <2>7, <2>8
  <2> QED
    BY <1>1, <2>1, <2>3, <2>9 DEF IsProduct, IsSequence, Range
<1> QED
  BY <1>2, <1>3

-----------------------------------------------------------------------------
(* The values it writes.                                                   *)

\* A live variant keeps its value, or takes the one that the import gives its combination.
LEMMA KeptValue ==
  ASSUME NEW old, IsProduct(old), NEW p, IsProduct(p), NEW accepted \in SUBSET DOMAIN p.variants,
         NEW k \in DOMAIN old.variants, NEW f \in VariantFields
  PROVE  LET value == KeptVariant(old, p, accepted, k)[f]
         IN  \/ value = old.variants[k][f]
             \/ \E i \in accepted : /\ ImportedCombo(old, p, i) = LiveCombo(old, p, k)
                                    /\ value = p.variants[i][f]
<1> DEFINE same == {i \in accepted : ImportedCombo(old, p, i) = LiveCombo(old, p, k)}
           i == CHOOSE j \in same : TRUE
           was == Was(old, p, k)
           said == Said(old, p, i)
           kept == KeptVariant(old, p, accepted, k)
<1>1. /\ DOMAIN was = DOMAIN NoVariant
      /\ was.sku = old.variants[k].sku /\ was.barcode = old.variants[k].barcode
  BY WasIs
<1>2. f = "sku" \/ f = "barcode"
  BY DEF VariantFields
<1>3. CASE same = {}
  <2>1. kept = was
    BY <1>3 DEF KeptVariant
  <2> HIDE DEF kept, was
  <2> QED
    BY <1>1, <1>2, <2>1 DEF kept
<1>4. CASE same # {}
  <2>1. i \in same
    BY <1>4
  <2>2. kept = MergeVariant(was, said)
    BY <1>4 DEF KeptVariant
  <2>3. said.sku = p.variants[i].sku /\ said.barcode = p.variants[i].barcode
    BY <2>1, SaidIs
  <2> HIDE DEF said, kept, was
  <2>4. /\ kept.sku = IF said.sku = Absent THEN was.sku ELSE said.sku
        /\ kept.barcode = IF said.barcode = Absent THEN was.barcode ELSE said.barcode
    BY <1>1, <2>2, Keys DEF MergeVariant
  <2> HIDE DEF i
  <2> QED
    BY <1>1, <1>2, <2>1, <2>3, <2>4 DEF kept
<1> QED
  BY <1>3, <1>4

\* The value that a variant of the product with this combination has
Says(p, old, combo, f, value) ==
  \E i \in DOMAIN p.variants : ImportedCombo(old, p, i) = combo /\ value = p.variants[i][f]

\* When nothing blocks the product, a variant of the proposal is a live one, with its own
\* values or those the product gives its combination, or is a new one of the product.
LEMMA ProposalValues ==
  ASSUME NEW old, IsProduct(old), NEW p, IsProduct(p), NEW taken, NEW new,
         new = Proposed(old, p), Blocking(old, p, new, taken) = {},
         NEW x \in DOMAIN new.variants
  PROVE  \/ \E k \in LiveMatched(old, p) :
              /\ new.variants[x].id = old.variants[k].id
              /\ Combo(new.variants[x], new.names) = LiveCombo(old, p, k)
              /\ \A f \in VariantFields :
                   \/ new.variants[x][f] = old.variants[k][f]
                   \/ Says(p, old, LiveCombo(old, p, k), f, new.variants[x][f])
         \/ \E i \in NewOnes(old, p, DOMAIN p.variants) :
              /\ Combo(new.variants[x], new.names) = ImportedCombo(old, p, i)
              /\ \A f \in VariantFields : new.variants[x][f] = p.variants[i][f]
<1> DEFINE accepted == DOMAIN p.variants
           names == OptionNames(old, p)
           matched == LiveMatched(old, p)
           fresh == NewOnes(old, p, accepted)
           merged == Merged(old, p, accepted)
           f == InOrder(matched)
           g == InOrder(fresh)
           m == Cardinality(matched)
           n == Cardinality(fresh)
<1>1. /\ Accepted(old, p) = accepted /\ HasStructure(p)
      /\ \A k \in accepted : ImportedCombo(old, p, k) # Absent
  BY NothingBlocks
<1>2. new.names = names /\ new.variants = merged
  BY <1>1 DEF Proposed, WithVariants, MergedVariants
<1>3. /\ m \in Nat /\ n \in Nat /\ DOMAIN merged = 1..(m + n)
      /\ \A i \in 1..m : f[i] \in matched /\ merged[i] = KeptVariant(old, p, accepted, f[i])
      /\ \A i \in 1..n : g[i] \in fresh /\ merged[m + i] = Said(old, p, g[i])
  BY MergedHas
<1>4. fresh \subseteq accepted /\ matched \subseteq DOMAIN old.variants
  BY DEF NewOnes, LiveMatched
<1> HIDE DEF merged, f, g, m, n, matched, fresh
<1>5. CASE x \in 1..m
  <2>1. /\ f[x] \in matched /\ f[x] \in DOMAIN old.variants
        /\ new.variants[x] = KeptVariant(old, p, accepted, f[x])
    BY <1>2, <1>3, <1>4, <1>5
  <2>2. /\ new.variants[x].id = old.variants[f[x]].id
        /\ Combo(new.variants[x], new.names) = LiveCombo(old, p, f[x])
    BY <1>2, <2>1, KeptVariantIs DEF matched
  <2>3. ASSUME NEW e \in VariantFields
        PROVE  \/ new.variants[x][e] = old.variants[f[x]][e]
               \/ Says(p, old, LiveCombo(old, p, f[x]), e, new.variants[x][e])
    BY <2>1, KeptValue DEF Says
  <2> QED
    BY <2>1, <2>2, <2>3 DEF matched
<1>6. CASE x \notin 1..m
  <2>1. x - m \in 1..n /\ x = m + (x - m)
    BY <1>2, <1>3, <1>6
  <2>2. PICK i \in fresh : new.variants[x] = Said(old, p, i)
    BY <1>2, <1>3, <2>1
  <2>3. /\ new.variants[x].sku = p.variants[i].sku
        /\ new.variants[x].barcode = p.variants[i].barcode
        /\ Combo(new.variants[x], new.names) = ImportedCombo(old, p, i)
    BY <1>1, <1>2, <1>4, <2>2, SaidIs
  <2>4. \A e \in VariantFields : e = "sku" \/ e = "barcode"
    BY DEF VariantFields
  <2> QED
    BY <2>3, <2>4 DEF fresh
<1> QED
  BY <1>5, <1>6

\* Names that are none but the placeholder's, each once, are the placeholder.
LEMMA OneTitle ==
  ASSUME NEW names, IsSequence(names), Len(names) # 0,
         Cardinality(Range(names)) = Len(names), Range(names) \subseteq {"Title"}
  PROVE  IsPlaceholder(names)
<1>1. /\ Len(names) \in Nat /\ DOMAIN names = 1..Len(names)
      /\ \A k \in DOMAIN names : names[k] \in Range(names)
  BY SequenceHas
<1>2. Range(names) = {"Title"}
  BY <1>1
<1>4. Cardinality({"Title"}) = 1
  BY FS_Singleton
<1>3. Len(names) = 1 /\ names[1] = "Title"
  BY <1>1, <1>2, <1>4
<1> QED
  BY <1>1, <1>3 DEF IsPlaceholder, IsSequence

\* When nothing blocks the structure, the imported names are some, and each is there once;
\* real live names are the same, but for a lone variant.
LEMMA NamesAgree ==
  ASSUME NEW old, NEW p, NEW new, NEW taken, Blocking(old, p, new, taken) = {}
  PROVE  LET names == ImportedNames(p)
         IN  /\ Len(names) # 0 /\ Cardinality(Range(names)) = Len(names)
             /\ \/ old.names = <<>> \/ IsPlaceholderSchema(old.names, old.variants)
                \/ old.names = names \/ Singleton(old, p)
<1> DEFINE names == ImportedNames(p)
           realLive == old.names # <<>> /\ ~IsPlaceholderSchema(old.names, old.variants)
           blocked ==
             [VARIANT_OPTIONS_REQUIRED |-> Len(names) = 0,
              OPTION_LIMIT_EXCEEDED |-> Len(names) > MaxOptions,
              DUPLICATE_OPTION_NAMES |-> Cardinality(Range(names)) # Len(names),
              VARIANTS_REQUIRED_FOR_OPTIONS |->
                ~IsPlaceholder(names) /\ p.variants = <<>>
                  /\ (old.variants = <<>> \/ IsPlaceholderSchema(old.names, old.variants)),
              INCOMPATIBLE_OPTION_SCHEMA |->
                realLive /\ old.names # names /\ ~Singleton(old, p)]
<1>1. StructureBlockers(old, p) = {}
  BY NothingBlocks DEF Blocking, ItemBlockers, MergeBlockers
<1>2. StructureBlockers(old, p)
        = {Blocker(code, <<"options">>) : code \in {c \in DOMAIN blocked : blocked[c]}}
  BY Zenon DEF StructureBlockers
<1>3. \A c \in DOMAIN blocked : ~blocked[c]
  <2> HIDE DEF blocked
  <2> QED
    BY <1>1, <1>2
<1>4. ~blocked.VARIANT_OPTIONS_REQUIRED /\ ~blocked.DUPLICATE_OPTION_NAMES
      /\ ~blocked.INCOMPATIBLE_OPTION_SCHEMA
  BY <1>3
<1> HIDE DEF names
<1> QED
  BY <1>4 DEF names

\* A variant that names none of its values by position is the same by any names.
LEMMA PairsByName ==
  ASSUME NEW v, v.placed = Empty, NEW names, NEW others
  PROVE  Pairs(v, names) = Pairs(v, others)
<1> DEFINE named == {m \in DOMAIN v.pairs : ~Missing(v.pairs[m])}
           byName == [m \in named |-> v.pairs[m]]
           places(s) == {i \in DOMAIN s \cap DOMAIN v.placed : ~Missing(v.placed[i])}
           byPlace(s) == [m \in {s[i] : i \in places(s)} |->
                            v.placed[CHOOSE i \in places(s) : s[i] = m]]
<1>1. \A s : Pairs(v, s) = IF named # {} THEN byName ELSE byPlace(s)
  BY Zenon DEF Pairs
<1>2. \A s : places(s) = {}
  BY DEF Empty
<1>3. byPlace(names) = byPlace(others)
  BY <1>2
<1> HIDE DEF named, byName, byPlace
<1> QED
  BY <1>1, <1>3

\* What a variant is given by name that is not missing is what it has, by any names.
LEMMA PairsGiven ==
  ASSUME NEW v, NEW names, NEW given, v.pairs = given, DOMAIN given # {},
         \A m \in DOMAIN given : ~Missing(given[m]), given = [m \in DOMAIN given |-> given[m]]
  PROVE  Pairs(v, names) = given
<1>1. {m \in DOMAIN v.pairs : ~Missing(v.pairs[m])} = DOMAIN given
  OBVIOUS
<1> QED
  BY <1>1 DEF Pairs

\* What a variant has is a function of the names.
LEMMA PairsIsFunction ==
  ASSUME NEW v, NEW names
  PROVE  Pairs(v, names) = [m \in DOMAIN Pairs(v, names) |-> Pairs(v, names)[m]]
<1> DEFINE named == {m \in DOMAIN v.pairs : ~Missing(v.pairs[m])}
           places == {i \in DOMAIN names \cap DOMAIN v.placed : ~Missing(v.placed[i])}
           byName == [m \in named |-> v.pairs[m]]
           byPlace == [m \in {names[i] : i \in places} |->
                         v.placed[CHOOSE i \in places : names[i] = m]]
<1>1. Pairs(v, names) = IF named # {} THEN byName ELSE byPlace
  BY Zenon DEF Pairs
<1>2. /\ byName = [m \in DOMAIN byName |-> byName[m]]
      /\ byPlace = [m \in DOMAIN byPlace |-> byPlace[m]]
  OBVIOUS
<1> HIDE DEF byName, byPlace, named
<1> QED
  BY <1>1, <1>2

\* What carrying over takes for the live variant is the one the merge matches, when nothing
\* blocks the product.
LEMMA MatchingIsMatched ==
  ASSUME NEW old, Identified(old), NEW p, IsProduct(p), NEW taken, NEW new,
         Blocking(old, p, new, taken) = {},
         NEW i \in DOMAIN p.variants, NEW k \in MatchingLive(p.variants[i], old, p)
  PROVE  k \in LiveMatched(old, p) /\ LiveCombo(old, p, k) = ImportedCombo(old, p, i)
<1> DEFINE v == p.variants[i]
           w == old.variants[k]
           names == IF p.names # <<>> THEN p.names ELSE old.names
           imported == ImportedNames(p)
           all == OptionNames(old, p)
           asked == [v EXCEPT !.quantity = IF Missing(@) THEN Absent ELSE @]
           lone == Singleton(old, p) /\ old.names # <<>>
           default == IsPlaceholder(imported) /\ DOMAIN Pairs(asked, imported) = {}
           given == Pairs(old.variants[1], old.names)
           located == Located(old, p, i)
<1>1. /\ Len(old.variants) \in Nat /\ DOMAIN old.variants = 1..Len(old.variants)
      /\ Len(p.variants) \in Nat /\ DOMAIN p.variants = 1..Len(p.variants)
      /\ IsSequence(p.names) /\ IsSequence(old.names)
  BY SequenceHas DEF Identified, IsProduct, IsSequence
<1>2. /\ DOMAIN v = {"pairs", "placed", "sku", "barcode", "quantity", "id"}
      /\ \A x \in Range(old.variants) : x.placed = Empty
      /\ old.names = <<>> => old.variants = <<>>
  BY Keys DEF Identified, IsProduct, Range
<1>3. /\ ~Replaced(old, p) => LiveMatched(old, p) = DOMAIN old.variants
      /\ ImportedCombo(old, p, i) # Absent
  BY NothingBlocks
<1>4. /\ Len(imported) # 0 /\ Cardinality(Range(imported)) = Len(imported)
      /\ \/ old.names = <<>> \/ IsPlaceholderSchema(old.names, old.variants)
         \/ old.names = imported \/ Singleton(old, p)
  BY NamesAgree
<1>5. IsSequence(imported)
  <2>1. IsSequence(<<"Title">>)
    BY DEF IsSequence, Range
  <2> QED
    BY <1>1, <2>1 DEF ImportedNames
<1>6. /\ lone => located.pairs = given
      /\ ~lone /\ ~default => located = asked
      /\ asked.pairs = v.pairs /\ asked.placed = v.placed
      /\ "pairs" \in DOMAIN asked
  <2>1. asked.pairs = v.pairs /\ asked.placed = v.placed /\ "pairs" \in DOMAIN asked
    BY <1>2
  <2>2. located = IF lone THEN [asked EXCEPT !.pairs = given]
                  ELSE IF default THEN [asked EXCEPT !.pairs = DefaultTitle] ELSE asked
    BY Zenon DEF Located
  <2> DEFINE a == [asked EXCEPT !.pairs = given]
             b == [asked EXCEPT !.pairs = DefaultTitle]
  <2>3. a.pairs = given
    BY <2>1
  <2>4. located = IF lone THEN a ELSE IF default THEN b ELSE asked
    BY <2>2
  <2> HIDE DEF a, b, asked, lone, default, given, located, v
  <2>5. (lone => located = a) /\ (~lone /\ ~default => located = asked)
    BY <2>4
  <2> QED
    BY <2>1, <2>3, <2>5
<1>7. ImportedCombo(old, p, i) = Combo(located, all)
  BY Zenon DEF ImportedCombo
<1>8. k \in DOMAIN old.variants /\ w.placed = Empty /\ old.names # <<>> /\ Range(old.names) # {}
  <2>1. k \in DOMAIN old.variants
    <3>1. Singleton(old, p) => 1 \in DOMAIN old.variants
      BY <1>1 DEF Singleton
    <3> QED
      BY <3>1 DEF MatchingLive
  <2>2. old.names # <<>>
    BY <1>1, <1>2, <2>1
  <2>3. Range(old.names) # {}
    BY <1>1, <2>2 DEF IsSequence
  <2> QED
    BY <1>2, <2>1, <2>2, <2>3 DEF Range
<1>9. Replaced(old, p) => /\ all = imported /\ ~IsPlaceholder(imported)
                          /\ \A j \in DOMAIN old.variants :
                               Pairs(old.variants[j], old.names) = DefaultTitle
  BY <1>8 DEF Replaced, OptionNames, IsPlaceholderSchema
<1> HIDE DEF v, w, names, imported, all, asked, lone, default, given, located
<1>10. ASSUME Range(imported) \subseteq {"Title"} PROVE ~Replaced(old, p)
  BY <1>4, <1>5, <1>9, <1>10, OneTitle
<1>11. CASE Singleton(old, p)
  <2>1. k = 1 /\ 1 \in DOMAIN old.variants
    BY <1>1, <1>8, <1>11 DEF Singleton
  <2>2. located.pairs = given
    <3>1. lone
      BY <1>8, <1>11 DEF lone
    <3> QED
      BY <1>6, <3>1
  <2>3. /\ \A m \in DOMAIN given : ~Missing(given[m])
        /\ given = [m \in DOMAIN given |-> given[m]]
    BY PairsHas, PairsIsFunction DEF given
  <2>4. ~Replaced(old, p)
    <3> SUFFICES ASSUME Replaced(old, p) PROVE FALSE
      OBVIOUS
    <3>1. given = DefaultTitle
      BY <1>9, <2>1 DEF given
    <3>2. DOMAIN given = {"Title"}
      BY <3>1 DEF DefaultTitle
    <3>3. Pairs(located, all) = given
      BY <2>2, <2>3, <3>2, PairsGiven
    <3>4. Range(all) \subseteq {"Title"}
      BY <1>3, <1>7, <3>2, <3>3 DEF Combo
    <3> QED
      BY <1>9, <1>10, <3>4
  <2>5. k \in LiveMatched(old, p) /\ all = old.names
    BY <1>3, <1>8, <2>4, MatchedByLiveNames DEF all
  <2>6. Combo(old.variants[k], all) # Absent
    BY <2>5 DEF LiveMatched, all
  <2>7. Range(old.names) \subseteq DOMAIN given
    BY <2>1, <2>5, <2>6 DEF Combo, given
  <2>8. Pairs(located, all) = given
    <3>1. DOMAIN given # {}
      BY <1>8, <2>7
    <3> QED
      BY <2>2, <2>3, <3>1, PairsGiven
  <2>9. Combo(located, all) = Combo(old.variants[k], all)
    BY <2>1, <2>5, <2>8 DEF Combo, given
  <2> QED
    BY <1>7, <2>5, <2>9 DEF LiveCombo, all
<1>12. CASE ~Singleton(old, p)
  <2>1. Combo(v, names) # Absent /\ names # <<>> /\ Combo(w, names) = Combo(v, names)
    <3> DEFINE same == {j \in DOMAIN old.variants :
                          Combo(old.variants[j], names) = Combo(v, names)}
    <3>1. MatchingLive(v, old, p) = IF Combo(v, names) = Absent \/ names = <<>> THEN {}
                                    ELSE IF Cardinality(same) = 1 THEN same ELSE {}
      BY Zenon, <1>12 DEF MatchingLive, names
    <3>2. k \in MatchingLive(v, old, p)
      BY DEF v
    <3> HIDE DEF same
    <3>3. Combo(v, names) # Absent /\ names # <<>> /\ k \in same
      BY <3>1, <3>2
    <3> QED
      BY <3>3 DEF same, w
  <2>2. names = imported \/ (p.names = <<>> /\ imported = <<"Title">> /\ names = old.names)
    BY <1>1, <1>4 DEF names, imported, ImportedNames
  <2>3. ~Replaced(old, p)
    <3> SUFFICES ASSUME Replaced(old, p) PROVE FALSE
      OBVIOUS
    <3>1. Pairs(w, names) = DefaultTitle
      BY <1>8, <1>9, PairsByName DEF w
    <3>2. Range(names) \subseteq {"Title"}
      BY <2>1, <3>1 DEF Combo, DefaultTitle
    <3>3. names = imported
      BY <1>9, <2>2 DEF IsPlaceholder
    <3> QED
      BY <1>10, <3>2, <3>3
  <2>4. k \in LiveMatched(old, p) /\ all = old.names
    BY <1>3, <1>8, <2>3, MatchedByLiveNames DEF all
  <2>5. imported = all /\ names = all
    <3>1. old.names = imported
      BY <1>4, <1>8, <1>12, <2>3 DEF Replaced, IsPlaceholderSchema, IsPlaceholder, imported
    <3> QED
      BY <2>2, <2>4, <3>1
  <2>6. located = asked
    <3>1. Range(all) # {} /\ Range(all) \subseteq DOMAIN Pairs(v, all)
      BY <1>8, <2>1, <2>4, <2>5 DEF Combo
    <3>2. Pairs(asked, imported) = Pairs(v, all)
      BY <1>6, <2>5, SameCombo
    <3>3. ~lone /\ ~default
      BY <1>12, <3>1, <3>2 DEF lone, default
    <3> QED
      BY <1>6, <3>3
  <2>7. Combo(located, all) = Combo(v, all)
    BY <1>6, <2>6, SameCombo
  <2> QED
    BY <1>7, <2>1, <2>4, <2>5, <2>7 DEF LiveCombo, all, w
<1> QED
  BY <1>11, <1>12

-----------------------------------------------------------------------------
(* The quantities it writes.                                               *)

\* A placeholder that gives way has none of the combinations that replace it.
LEMMA PlaceholderHasNone ==
  ASSUME NEW old, Identified(old), NEW p, IsProduct(p), NEW taken, NEW new,
         Blocking(old, p, new, taken) = {}, Replaced(old, p), NEW k \in DOMAIN old.variants
  PROVE  LiveCombo(old, p, k) = Absent
<1> DEFINE w == old.variants[k]
           imported == ImportedNames(p)
<1>1. IsSequence(imported)
  <2>1. IsSequence(<<"Title">>)
    BY DEF IsSequence, Range
  <2>2. IsSequence(p.names)
    BY DEF IsProduct, IsSequence
  <2> QED
    BY <2>1, <2>2 DEF ImportedNames
<1>2. w.placed = Empty
  BY DEF Identified, Range
<1>3. Pairs(w, old.names) = DefaultTitle /\ OptionNames(old, p) = imported
      /\ ~IsPlaceholder(imported)
  BY DEF Replaced, IsPlaceholderSchema, OptionNames
<1>4. Len(imported) # 0 /\ Cardinality(Range(imported)) = Len(imported)
  BY NamesAgree
<1> HIDE DEF w, imported
<1>5. Pairs(w, imported) = DefaultTitle
  BY <1>2, <1>3, PairsByName
<1>6. ~(Range(imported) \subseteq {"Title"})
  BY <1>1, <1>3, <1>4, OneTitle
<1>7. Combo(w, imported) = Absent
  BY <1>5, <1>6 DEF Combo, DefaultTitle
<1> QED
  BY <1>3, <1>7 DEF LiveCombo, w

\* When nothing blocks the product, a variant of the proposal is compared with the live one
\* it was made of, and a new one with none.
LEMMA CounterpartIs ==
  ASSUME NEW old, Identified(old), NEW p, Imported(p), NEW taken, NEW new,
         new = Proposed(old, p), Blocking(old, p, new, taken) = {}
  PROVE  LET f == InOrder(LiveMatched(old, p))
             m == Cardinality(LiveMatched(old, p))
         IN  /\ \A k \in 1..m : Counterpart(old, new, k) = {f[k]}
             /\ \A k \in DOMAIN new.variants \ (1..m) : Counterpart(old, new, k) = {}
<1> DEFINE accepted == DOMAIN p.variants
           names == OptionNames(old, p)
           matched == LiveMatched(old, p)
           fresh == NewOnes(old, p, accepted)
           merged == Merged(old, p, accepted)
           f == InOrder(matched)
           g == InOrder(fresh)
           m == Cardinality(matched)
           n == Cardinality(fresh)
           itself(i) == {j \in DOMAIN old.variants : old.variants[j].id = new.variants[i].id}
<1>1. IsProduct(old) /\ IsProduct(p) /\ \A k \in accepted : p.variants[k].id = Absent
  BY DEF Identified, Imported, Range
<1>2. /\ \A j, k \in DOMAIN old.variants : old.variants[j].id = old.variants[k].id => j = k
      /\ \A k \in DOMAIN old.variants : old.variants[k].id # Absent
  BY DEF Identified, Range
<1>3. /\ ~Replaced(old, p) => matched = DOMAIN old.variants
      /\ \A k \in accepted : ImportedCombo(old, p, k) # Absent
      /\ HasStructure(p) /\ Accepted(old, p) = accepted
  BY NothingBlocks
<1>4. new.names = names /\ new.variants = merged
  BY <1>3 DEF Proposed, WithVariants, MergedVariants
<1>5. /\ m \in Nat /\ n \in Nat /\ DOMAIN merged = 1..(m + n)
      /\ \A i \in 1..m : f[i] \in matched /\ merged[i] = KeptVariant(old, p, accepted, f[i])
      /\ \A i \in 1..n : g[i] \in fresh /\ merged[m + i] = Said(old, p, g[i])
  BY <1>1, MergedHas
<1>6. fresh \subseteq accepted /\ matched \subseteq DOMAIN old.variants
  BY DEF NewOnes, LiveMatched
<1>7. ASSUME NEW i \in fresh, NEW k \in matched
      PROVE  ImportedCombo(old, p, i) # LiveCombo(old, p, k)
  BY DEF NewOnes
<1>8. \A k \in matched : KeptVariant(old, p, accepted, k).id = old.variants[k].id
  BY <1>1, KeptVariantIs
<1>9. \A i \in accepted :
        /\ Said(old, p, i).id = Absent
        /\ Combo(Said(old, p, i), names) = ImportedCombo(old, p, i)
  BY <1>1, <1>3, SaidIs
<1> HIDE DEF merged, f, g, m, n, matched, fresh, accepted, names
<1>10. ASSUME NEW k \in 1..m PROVE Counterpart(old, new, k) = {f[k]}
  <2>1. f[k] \in DOMAIN old.variants /\ new.variants[k].id = old.variants[f[k]].id
    BY <1>4, <1>5, <1>6, <1>8
  <2>2. itself(k) = {f[k]}
    BY <1>2, <2>1
  <2> QED
    BY <2>2 DEF Counterpart
<1>11. ASSUME NEW k \in DOMAIN new.variants \ (1..m) PROVE Counterpart(old, new, k) = {}
  <2>1. k - m \in 1..n /\ k = m + (k - m)
    BY <1>4, <1>5
  <2>2. g[k - m] \in fresh /\ new.variants[k] = Said(old, p, g[k - m])
    BY <1>4, <1>5, <2>1
  <2>3. /\ new.variants[k].id = Absent
        /\ Combo(new.variants[k], new.names) = ImportedCombo(old, p, g[k - m])
        /\ ImportedCombo(old, p, g[k - m]) # Absent
    BY <1>3, <1>4, <1>6, <1>9, <2>2
  <2>4. itself(k) = {}
    BY <1>2, <2>3
  <2> DEFINE free == {j \in DOMAIN old.variants :
                        \A i \in DOMAIN new.variants \ {k} : j \notin itself(i)}
             live == [j \in free |-> Combo(old.variants[j], new.names)]
  <2>5. ASSUME NEW j \in DOMAIN old.variants
        PROVE  Combo(old.variants[j], new.names) # Combo(new.variants[k], new.names)
    <3>1. LiveCombo(old, p, j) = Combo(old.variants[j], new.names)
      BY <1>4 DEF LiveCombo, names
    <3>2. CASE Replaced(old, p)
      <4>1. LiveCombo(old, p, j) = Absent
        BY <1>1, <3>2, PlaceholderHasNone
      <4> QED
        BY <2>3, <3>1, <4>1
    <3>3. CASE ~Replaced(old, p)
      BY <1>3, <1>7, <2>2, <2>3, <3>1, <3>3
    <3> QED
      BY <3>2, <3>3
  <2>6. DOMAIN live = free /\ \A j \in free : live[j] # Combos(new)[k]
    BY <2>5 DEF Combos
  <2>7. FirstAlike(k, Combos(new), live) = {}
    <3> HIDE DEF free, live
    <3> QED
      BY <2>6 DEF FirstAlike
  <2>8. Counterpart(old, new, k)
          = IF itself(k) # {} THEN itself(k) ELSE FirstAlike(k, Combos(new), live)
    BY Zenon DEF Counterpart
  <2> HIDE DEF free, live, itself
  <2> QED
    BY <2>4, <2>7, <2>8
<1> QED
  BY <1>10, <1>11 DEF f, m, matched

\* When nothing blocks the product, a quantity that its item writes is one that the product
\* gives the same combination.
LEMMA InventoryIsImported ==
  ASSUME NEW old, Identified(old), NEW p, Imported(p), NEW taken, NEW new,
         new = Proposed(old, p), Blocking(old, p, new, taken) = {},
         NEW t \in InventoryRows(old, new) \cup RejectedRows(old, p, new, {}),
         Cardinality(Targets(new, t.subject)) = 1
  PROVE  /\ t.proposed \in 0..MaxQuantity
         /\ \E k \in DOMAIN p.variants : /\ t.proposed = p.variants[k].quantity
                                         /\ ImportedCombo(old, p, k) = t.subject.combo
<1> DEFINE accepted == DOMAIN p.variants
           names == OptionNames(old, p)
           matched == LiveMatched(old, p)
           fresh == NewOnes(old, p, accepted)
           merged == Merged(old, p, accepted)
           f == InOrder(matched)
           g == InOrder(fresh)
           m == Cardinality(matched)
           n == Cardinality(fresh)
           Given(q, combo) == \E i \in accepted : /\ ~Missing(p.variants[i].quantity)
                                                 /\ q = p.variants[i].quantity
                                                 /\ ImportedCombo(old, p, i) = combo
<1>1. /\ Accepted(old, p) = accepted /\ HasStructure(p)
      /\ \A k \in accepted :
           ~Missing(p.variants[k].quantity) => ValidQuantity(p.variants[k].quantity)
      /\ ~Replaced(old, p) => matched = DOMAIN old.variants
  BY NothingBlocks
<1>2. new.names = names /\ new.variants = merged
  BY <1>1 DEF Proposed, WithVariants, MergedVariants
<1>3. IsProduct(old) /\ IsProduct(p)
  BY DEF Identified, Imported
<1>4. /\ IsSequence(merged) /\ m \in Nat /\ n \in Nat /\ DOMAIN merged = 1..(m + n)
      /\ \A i \in 1..m : f[i] \in matched /\ merged[i] = KeptVariant(old, p, accepted, f[i])
      /\ \A i \in 1..n : g[i] \in fresh /\ merged[m + i] = Said(old, p, g[i])
      /\ \A j \in matched : \E i \in 1..m : f[i] = j
  BY <1>3, MergedHas
<1>5. fresh \subseteq accepted /\ matched \subseteq DOMAIN old.variants
  BY DEF NewOnes, LiveMatched
<1>6. Replaced(old, p) => matched = {}
  BY DEF LiveMatched, Replaced
<1>15. \A k \in accepted : ImportedCombo(old, p, k) # Absent
  BY NothingBlocks
<1> HIDE DEF merged, f, g, m, n, matched, fresh, accepted
<1>7. PICK x \in DOMAIN new.variants : Subject(new.variants[x], new.names) = t.subject
                                       /\ t.subject.combo # Absent
  <2>1. Targets(new, t.subject) # {}
    BY FS_EmptySet
  <2> QED
    BY <2>1 DEF Targets
<1>8. t \notin RejectedRows(old, p, new, {})
  <2> DEFINE Or(a, b) == IF a # <<>> THEN a ELSE b
             found == Or(Or(new.names, old.names), p.names)
             own == Or(p.names, found)
             refused(k) == \E e \in {"*", "sku", "inventory_quantity"} :
                             \E b \in {} : b.field = VariantPath(k, e)
             shown(k) == \/ Combo(p.variants[k], found) \in Range(Combos(new)) \ {Absent}
                         \/ Singleton(old, p) /\ old.names # <<>>
             rejected == {k \in DOMAIN p.variants :
                            ~Missing(p.variants[k].quantity) /\ (refused(k) \/ ~shown(k))}
             row(k) == [Row("inventory", Subject(p.variants[k], own), "inventory_quantity",
                            Absent, p.variants[k].quantity) EXCEPT !.index = k]
  <2> SUFFICES ASSUME t \in RejectedRows(old, p, new, {}) PROVE FALSE
    OBVIOUS
  <2>1. t \in {row(k) : k \in rejected}
    BY Zenon DEF RejectedRows
  <2>2. PICK k \in rejected : t = row(k)
    BY Zenon, <2>1
  <2>3. row(k).subject = Subject(p.variants[k], own)
    BY DEF Row
  <2>4. ~shown(k)
    BY <2>2
  <2> HIDE DEF row, rejected, shown
  <2>5. /\ own = new.names
        /\ Combo(p.variants[k], own) = Combo(new.variants[x], new.names)
        /\ Combo(p.variants[k], own) # Absent
    BY <1>7, <2>2, <2>3 DEF Subject
  <2>6. own = found
    BY <2>5
  <2>7. Combo(new.variants[x], new.names) \in Range(Combos(new))
    BY DEF Combos, Range
  <2> QED
    BY <2>4, <2>5, <2>6, <2>7 DEF shown
<1>16. /\ \A k \in 1..m : Counterpart(old, new, k) = {f[k]}
       /\ \A k \in DOMAIN new.variants \ (1..m) : Counterpart(old, new, k) = {}
  BY CounterpartIs DEF m, f, matched
<1> DEFINE Live(k) == QuantityIn(old, Counterpart(old, new, k))
           row(k) == Row("inventory", Subject(new.variants[k], new.names),
                         "inventory_quantity", Live(k), new.variants[k].quantity)
           rows == {row(k) : k \in DOMAIN new.variants}
           lost(j) == Row("inventory", Subject(old.variants[j], new.names),
                          "inventory_quantity", old.variants[j].quantity, Absent)
           gone == {j \in DOMAIN old.variants :
                      /\ new.variants # <<>> /\ old.variants[j].quantity # Absent
                      /\ \A k \in DOMAIN new.variants : j \notin Counterpart(old, new, k)}
<1>17. t \in {r \in rows : r.current # r.proposed} \cup {lost(j) : j \in gone}
  BY Zenon, <1>8 DEF InventoryRows
<1>18. t \notin {lost(j) : j \in gone}
  <2> SUFFICES ASSUME NEW j \in gone, t = lost(j) PROVE FALSE
    OBVIOUS
  <2>1. t.subject = Subject(old.variants[j], new.names)
    BY DEF Row
  <2>2. LiveCombo(old, p, j) # Absent
    BY <1>2, <1>7, <2>1 DEF Subject, LiveCombo
  <2>3. ~Replaced(old, p)
    BY <1>3, <2>2, PlaceholderHasNone
  <2>4. PICK i \in 1..m : f[i] = j
    BY <1>1, <1>4, <2>3
  <2>5. i \in DOMAIN new.variants /\ j \in Counterpart(old, new, i)
    BY <1>2, <1>4, <1>16, <2>4
  <2> QED
    BY <2>5
<1>9. /\ t.current # t.proposed
      /\ \E k \in DOMAIN new.variants : t = row(k)
  BY <1>17, <1>18
<1>19. PICK k \in DOMAIN new.variants : t = row(k)
  BY <1>9
<1> DEFINE combo == Combo(merged[k], names)
           q == merged[k].quantity
<1>10. /\ k \in DOMAIN merged /\ q # Live(k)
       /\ t.subject = [names |-> names, combo |-> combo] /\ t.proposed = q
  BY <1>2, <1>9, <1>19 DEF Subject, Row
<1> HIDE DEF row, rows, lost, gone
<1>11. Given(q, combo)
  <2>1. CASE k \in 1..m
    <3>1. /\ f[k] \in matched /\ f[k] \in DOMAIN old.variants
          /\ merged[k] = KeptVariant(old, p, accepted, f[k])
      BY <1>4, <1>5, <2>1
    <3>2. combo = LiveCombo(old, p, f[k])
      BY <1>3, <3>1, KeptVariantIs DEF matched, accepted
    <3>3. Live(k) = old.variants[f[k]].quantity
      BY <1>16, <2>1 DEF QuantityIn
    <3> QED
      BY <1>3, <1>10, <3>1, <3>2, <3>3, KeptQuantity DEF accepted
  <2>2. CASE k \notin 1..m
    <3>1. k - m \in 1..n /\ k = m + (k - m)
      BY <1>4, <1>10, <2>2
    <3>2. g[k - m] \in accepted /\ merged[k] = Said(old, p, g[k - m])
      BY <1>4, <1>5, <3>1
    <3>3. q = IF Missing(p.variants[g[k - m]].quantity) THEN Absent
              ELSE p.variants[g[k - m]].quantity
      BY <1>3, <3>2, SaidQuantity DEF accepted
    <3>4. combo = ImportedCombo(old, p, g[k - m])
      BY <1>3, <3>2, <1>15, SaidIs DEF accepted
    <3>5. Live(k) = Absent
      BY <1>2, <1>10, <1>16, <2>2 DEF QuantityIn
    <3> HIDE DEF q, combo, Live
    <3> QED
      BY <1>10, <3>2, <3>3, <3>4, <3>5
  <2> QED
    BY <2>1, <2>2
<1>12. PICK i \in accepted : /\ ~Missing(p.variants[i].quantity)
                             /\ q = p.variants[i].quantity
                             /\ ImportedCombo(old, p, i) = combo
  BY <1>11
<1>13. q \in 0..MaxQuantity
  BY <1>1, <1>12 DEF ValidQuantity
<1>14. t.subject.combo = combo
  BY <1>10
<1> HIDE DEF combo, q
<1> QED
  BY <1>10, <1>12, <1>13, <1>14 DEF accepted

-----------------------------------------------------------------------------
(* What approval freezes of it.                                            *)

\* The frozen product has the variants of the proposal, each with its identity and its
\* options.
LEMMA FrozenHas ==
  ASSUME NEW i, IsProduct(i.proposed)
  PROVE  LET w == ExecutionProduct(i)
             q == i.proposed
         IN  /\ w.names = q.names /\ DOMAIN w.variants = DOMAIN q.variants
             /\ \A k \in DOMAIN q.variants :
                  /\ w.variants[k].id = q.variants[k].id
                  /\ w.variants[k].pairs = q.variants[k].pairs
                  /\ w.variants[k].placed = q.variants[k].placed
<1> DEFINE q == i.proposed
           out == Excluded(i)
           Kept(value, rows) == IF rows = {} THEN value ELSE (CHOOSE r \in rows : TRUE).current
           VariantOut(k, f) == {r \in out : /\ r.scope = "variant" /\ r.field = f
                                            /\ Targets(q, r.subject) = {k}}
           Frozen(v, k) == [v EXCEPT !.quantity = Absent,
                                     !.sku = Kept(v.sku, VariantOut(k, "sku")),
                                     !.barcode = Kept(v.barcode, VariantOut(k, "barcode"))]
           frozen == [k \in DOMAIN q.variants |-> Frozen(q.variants[k], k)]
<1>1. DOMAIN q = {"names", "values", "variants", "tags", "fields"}
  BY Keys DEF IsProduct
<1>2. ASSUME NEW k \in DOMAIN q.variants
      PROVE  DOMAIN q.variants[k] = {"pairs", "placed", "sku", "barcode", "quantity", "id"}
  BY Keys DEF IsProduct, Range
<1>3. \E fields, tags :
        ExecutionProduct(i) = [q EXCEPT !.fields = fields, !.tags = tags, !.variants = frozen]
  BY Zenon DEF ExecutionProduct
<1>4. /\ DOMAIN frozen = DOMAIN q.variants
      /\ \A k \in DOMAIN q.variants : /\ frozen[k].id = q.variants[k].id
                                      /\ frozen[k].pairs = q.variants[k].pairs
                                      /\ frozen[k].placed = q.variants[k].placed
  BY <1>2
<1> HIDE DEF frozen
<1>5. /\ ExecutionProduct(i).names = q.names
      /\ ExecutionProduct(i).variants = frozen
  BY <1>1, <1>3
<1> QED
  BY <1>4, <1>5

\* Each of its values is the proposal's, or is left out: a variant's row has nothing to go
\* back to.
LEMMA FrozenValues ==
  ASSUME NEW i, IsProduct(i.proposed),
         \A r \in i.rows : r.scope = "variant" => r.current = Absent,
         NEW k \in DOMAIN i.proposed.variants, NEW f \in VariantFields
  PROVE  ExecutionProduct(i).variants[k][f] \in {i.proposed.variants[k][f], Absent}
<1> DEFINE q == i.proposed
           out == Excluded(i)
           Kept(value, rows) == IF rows = {} THEN value ELSE (CHOOSE r \in rows : TRUE).current
           VariantOut(x, e) == {r \in out : /\ r.scope = "variant" /\ r.field = e
                                            /\ Targets(q, r.subject) = {x}}
           Frozen(v, x) == [v EXCEPT !.quantity = Absent,
                                     !.sku = Kept(v.sku, VariantOut(x, "sku")),
                                     !.barcode = Kept(v.barcode, VariantOut(x, "barcode"))]
           frozen == [x \in DOMAIN q.variants |-> Frozen(q.variants[x], x)]
           sku == Kept(q.variants[k].sku, VariantOut(k, "sku"))
           barcode == Kept(q.variants[k].barcode, VariantOut(k, "barcode"))
<1>1. DOMAIN q = {"names", "values", "variants", "tags", "fields"}
  BY Keys DEF IsProduct
<1>2. DOMAIN q.variants[k] = {"pairs", "placed", "sku", "barcode", "quantity", "id"}
  BY Keys DEF IsProduct, Range
<1>3. \E fields, tags :
        ExecutionProduct(i) = [q EXCEPT !.fields = fields, !.tags = tags, !.variants = frozen]
  BY Zenon DEF ExecutionProduct
<1>4. frozen[k].sku = sku /\ frozen[k].barcode = barcode
  BY <1>2
<1>5. ASSUME NEW e, NEW value PROVE Kept(value, VariantOut(k, e)) \in {value, Absent}
  <2>1. CASE VariantOut(k, e) = {}
    BY <2>1
  <2>2. CASE VariantOut(k, e) # {}
    <3>1. (CHOOSE r \in VariantOut(k, e) : TRUE) \in VariantOut(k, e)
      BY <2>2
    <3>2. \A r \in VariantOut(k, e) : r.current = Absent
      BY DEF Excluded
    <3> QED
      BY <2>2, <3>1, <3>2
  <2> QED
    BY <2>1, <2>2
<1>6. sku \in {q.variants[k].sku, Absent} /\ barcode \in {q.variants[k].barcode, Absent}
  BY <1>5
<1> HIDE DEF frozen, sku, barcode
<1>7. ExecutionProduct(i).variants = frozen
  BY <1>1, <1>3
<1>8. f = "sku" \/ f = "barcode"
  BY DEF VariantFields
<1> QED
  BY <1>4, <1>6, <1>7, <1>8

\* Every value is the live variant's own, or one the product gives the combination
OwnValue(v, f, combo, old, p) ==
  LET own == {x[f] : x \in {y \in Range(old.variants) : y.id = v.id}}
      said == {p.variants[j][f] :
                 j \in {i \in DOMAIN p.variants : ImportedCombo(old, p, i) = combo}}
  IN  v[f] \in own \cup said \cup {Absent}
Own(w, old, p) ==
  \A v \in Range(w.variants), f \in VariantFields : OwnValue(v, f, Combo(v, w.names), old, p)

\* Products that are alike stand for the same live variants.
LEMMA AlikeStandFor ==
  ASSUME NEW old, NEW p, NEW q, Alike(p, q), NEW i \in DOMAIN p.variants
  PROVE  MatchingLive(q.variants[i], old, q) = MatchingLive(p.variants[i], old, p)
<1> DEFINE names == IF p.names # <<>> THEN p.names ELSE old.names
           v == p.variants[i]
           w == q.variants[i]
<1>1. /\ q.names = p.names /\ Len(q.variants) = Len(p.variants)
      /\ w.pairs = v.pairs /\ w.placed = v.placed
  BY Keys DEF Alike
<1>2. Combo(w, names) = Combo(v, names)
  <2> HIDE DEF v, w, names
  <2> QED
    BY <1>1, SameCombo
<1>3. Singleton(old, q) = Singleton(old, p)
  BY <1>1 DEF Singleton
<1> DEFINE stands(combo, lone, at) ==
             IF combo = Absent \/ at = <<>> THEN IF lone THEN {1} ELSE {}
             ELSE IF Cardinality({k \in DOMAIN old.variants : Combo(old.variants[k], at) = combo}) = 1
                  THEN {k \in DOMAIN old.variants : Combo(old.variants[k], at) = combo} ELSE {}
           others == IF q.names # <<>> THEN q.names ELSE old.names
<1>4. /\ MatchingLive(v, old, p) = stands(Combo(v, names), Singleton(old, p), names)
      /\ MatchingLive(w, old, q) = stands(Combo(w, others), Singleton(old, q), others)
  BY Zenon DEF MatchingLive
<1>5. others = names
  BY <1>1
<1> HIDE DEF stands, names, others, v, w
<1>6. MatchingLive(w, old, q) = MatchingLive(v, old, p)
  BY <1>2, <1>3, <1>4, <1>5
<1> QED
  BY <1>6 DEF v, w

\* When nothing blocks the product, what it says of a variant is what was imported, or is
\* the value of the live variant it stands for.
LEMMA SaidOrCarried ==
  ASSUME NEW old, Identified(old), NEW p, Imported(p), NEW taken, NEW new,
         NEW q \in {p, CarryForward(old, p)}, Blocking(old, q, new, taken) = {},
         NEW i \in DOMAIN q.variants, NEW f \in VariantFields
  PROVE  /\ i \in DOMAIN p.variants
         /\ \/ /\ ImportedCombo(old, p, i) = ImportedCombo(old, q, i)
               /\ q.variants[i][f] = p.variants[i][f]
            \/ \E k \in LiveMatched(old, q) :
                 /\ LiveCombo(old, q, k) = ImportedCombo(old, q, i)
                 /\ q.variants[i][f] = old.variants[k][f]
<1>1. \A k \in DOMAIN p.variants : DOMAIN p.variants[k] = DOMAIN NoVariant
  BY ImportedIs, AllNewHas DEF New
<1>2. IsProduct(q) /\ Alike(p, q) /\ i \in DOMAIN p.variants
  <2>1. Alike(p, p)
    BY <1>1 DEF Alike
  <2> QED
    BY <2>1, CarriedAlike, CarryForwardImported DEF Imported, Alike
<1>3. ImportedCombo(old, p, i) = ImportedCombo(old, q, i)
  BY <1>2, AlikeMatch
<1>4. f = "sku" \/ f = "barcode"
  BY DEF VariantFields
<1>5. CASE q.variants[i][f] = p.variants[i][f]
  BY <1>2, <1>3, <1>5
<1>6. CASE q.variants[i][f] # p.variants[i][f]
  <2>1. q = CarryForward(old, p) /\ f = "sku"
    BY <1>2, <1>4, <1>6, Keys DEF Alike
  <2>2. PICK k \in MatchingLive(p.variants[i], old, p) : q.variants[i].sku = old.variants[k].sku
    BY <1>2, <1>6, <2>1, CarryForwardHas
  <2>3. k \in MatchingLive(q.variants[i], old, q)
    <3>1. MatchingLive(q.variants[i], old, q) = MatchingLive(p.variants[i], old, p)
      BY Zenon, <1>2, AlikeStandFor
    <3> QED
      BY <3>1, <2>2
  <2>4. k \in LiveMatched(old, q) /\ LiveCombo(old, q, k) = ImportedCombo(old, q, i)
    BY <1>2, <2>3, MatchingIsMatched
  <2> QED
    BY <1>2, <2>1, <2>2, <2>4
<1> QED
  BY <1>5, <1>6

\* So what is written names every combination once and keeps every live variant, when
\* nothing blocks the item.
LEMMA FrozenIsSafe ==
  ASSUME NEW old, Identified(old), NEW p, Imported(p), NEW taken, NEW i,
         Made(i, old, p, taken), i.blockers = {}
  PROVE  Unique(ExecutionProduct(i)) /\ Keeps(ExecutionProduct(i), old)
<1> DEFINE w == ExecutionProduct(i)
           q == i.proposed
<1>1. IsProduct(old) /\ IsProduct(p)
  BY DEF Identified, Imported
<1>2. q = Proposed(old, p) /\ Blocking(old, p, Proposed(old, p), taken) = {}
  BY DEF Made
<1>3. IsProduct(q) /\ Unique(q) /\ Keeps(q, old)
  BY <1>1, <1>2, ProposalIsProduct, ProposalUnique, ProposalKeeps
<1>4. /\ w.names = q.names /\ DOMAIN w.variants = DOMAIN q.variants
      /\ \A k \in DOMAIN q.variants : /\ w.variants[k].id = q.variants[k].id
                                      /\ w.variants[k].pairs = q.variants[k].pairs
                                      /\ w.variants[k].placed = q.variants[k].placed
  BY <1>3, FrozenHas
<1> HIDE DEF w, q
<1>5. \A k \in DOMAIN q.variants : Combo(w.variants[k], w.names) = Combo(q.variants[k], q.names)
  BY <1>4, SameCombo
<1>6. Combos(w) = Combos(q)
  BY <1>4, <1>5 DEF Combos
<1>7. \A v \in Range(w.variants) : Combo(v, w.names) # Absent
  BY <1>3, <1>4, <1>5 DEF Unique, Range
<1>8. Keeps(w, old)
  <2>1. CASE IsPlaceholderSchema(old.names, old.variants)
    BY <2>1 DEF Keeps
  <2>2. ASSUME NEW v
        PROVE  {k \in DOMAIN w.variants : w.variants[k].id = v.id}
                 = {k \in DOMAIN q.variants : q.variants[k].id = v.id}
    BY <1>4
  <2> QED
    BY <1>3, <2>1, <2>2 DEF Keeps
<1> QED
  BY <1>3, <1>6, <1>7, <1>8 DEF Unique, w

\* Every quantity it writes is one the product gives the same combination
Faithful(ops, old, p) ==
  \A op \in ops :
    /\ op.quantity \in 0..MaxQuantity
    /\ \E k \in DOMAIN p.variants : /\ op.quantity = p.variants[k].quantity
                                    /\ ImportedCombo(old, p, k) = op.subject.combo

\* So it does, when nothing blocks the item, with or without what the live one lends it.
LEMMA InventoryIsFaithful ==
  ASSUME NEW current, Identified(Product(current)), NEW p, Imported(p), NEW taken,
         NEW q \in {p, CarryForward(Product(current), p)}, NEW i,
         Made(i, Product(current), q, taken), i.blockers = {}
  PROVE  Faithful(InventoryOperations(i, current), Product(current), p)
<1> DEFINE old == Product(current)
           new == i.proposed
<1>1. Imported(q) /\ Alike(p, q)
  <2>1. Alike(p, p)
    BY ImportedIs, AllNewHas DEF Alike, New
  <2> QED
    BY <2>1, CarriedAlike, CarryForwardImported
<1>2. new = Proposed(old, q) /\ Blocking(old, q, new, taken) = {}
  BY DEF Made
<1>3. /\ DOMAIN q.variants = DOMAIN p.variants
      /\ \A k \in DOMAIN p.variants :
           /\ q.variants[k].quantity = p.variants[k].quantity
           /\ ImportedCombo(old, q, k) = ImportedCombo(old, p, k)
  <2>1. /\ DOMAIN q.variants = DOMAIN p.variants
        /\ \A k \in DOMAIN p.variants : q.variants[k].quantity = p.variants[k].quantity
    BY <1>1, Keys DEF Alike
  <2>2. \A k \in DOMAIN p.variants : ImportedCombo(old, q, k) = ImportedCombo(old, p, k)
    BY <1>1, AlikeMatch
  <2> QED
    BY <2>1, <2>2
<1> SUFFICES ASSUME NEW r \in InventoryWrites(i)
             PROVE  /\ r.proposed \in 0..MaxQuantity
                    /\ \E k \in DOMAIN p.variants :
                         /\ r.proposed = p.variants[k].quantity
                         /\ ImportedCombo(old, p, k) = r.subject.combo
  BY DEF Faithful, InventoryOperations
<1>4. r \in i.rows /\ r.scope = "inventory" /\ Cardinality(Targets(new, r.subject)) = 1
  BY DEF InventoryWrites
<1>5. PICK t \in InventoryRows(old, new) \cup RejectedRows(old, q, new, {}) :
        t.subject = r.subject /\ t.proposed = r.proposed
  BY <1>4 DEF Made, Backed
<1> HIDE DEF old, new
<1>6. /\ t.proposed \in 0..MaxQuantity
      /\ \E k \in DOMAIN q.variants : /\ t.proposed = q.variants[k].quantity
                                      /\ ImportedCombo(old, q, k) = t.subject.combo
  BY <1>1, <1>2, <1>4, <1>5, InventoryIsImported DEF old
<1> QED
  BY <1>3, <1>5, <1>6

\* So is every value that is written, when nothing blocks the item, with or without what
\* the live one lends it.
LEMMA FrozenIsOwn ==
  ASSUME NEW old, Identified(old), NEW p, Imported(p), NEW taken,
         NEW q \in {p, CarryForward(old, p)}, NEW i, Made(i, old, q, taken), i.blockers = {}
  PROVE  Own(ExecutionProduct(i), old, p)
<1> DEFINE w == ExecutionProduct(i)
           new == i.proposed
<1>1. IsProduct(old) /\ IsProduct(q)
  BY CarryForwardImported DEF Identified, Imported
<1>2. /\ new = Proposed(old, q) /\ Blocking(old, q, new, taken) = {}
      /\ \A r \in i.rows : r.scope = "variant" => r.current = Absent
  BY DEF Made, Backed
<1>3. IsProduct(new)
  BY <1>1, <1>2, ProposalIsProduct
<1>4. /\ w.names = new.names /\ DOMAIN w.variants = DOMAIN new.variants
      /\ \A k \in DOMAIN new.variants : /\ w.variants[k].id = new.variants[k].id
                                        /\ w.variants[k].pairs = new.variants[k].pairs
                                        /\ w.variants[k].placed = new.variants[k].placed
  BY <1>3, FrozenHas
<1>5. \A k \in DOMAIN new.variants, f \in VariantFields :
        w.variants[k][f] \in {new.variants[k][f], Absent}
  BY <1>2, <1>3, FrozenValues
<1> HIDE DEF w, new
<1> SUFFICES ASSUME NEW x \in DOMAIN new.variants, NEW f \in VariantFields
             PROVE  OwnValue(w.variants[x], f, Combo(w.variants[x], w.names), old, p)
  <2>1. \A v \in Range(w.variants) : \E x \in DOMAIN new.variants : v = w.variants[x]
    BY <1>4 DEF Range
  <2>2. Own(w, old, p)
    BY <2>1 DEF Own
  <2> QED
    BY <2>2 DEF w
<1> DEFINE v == w.variants[x]
           own == {y[f] : y \in {z \in Range(old.variants) : z.id = v.id}}
           said == {p.variants[j][f] : j \in {k \in DOMAIN p.variants :
                                                ImportedCombo(old, p, k) = Combo(v, w.names)}}
           value == new.variants[x][f]
           combo == Combo(new.variants[x], new.names)
<1>6. Combo(v, w.names) = combo /\ v.id = new.variants[x].id /\ v[f] \in {value, Absent}
  BY <1>4, <1>5, SameCombo
<1>7. ASSUME NEW k \in LiveMatched(old, q), v.id = old.variants[k].id
      PROVE  old.variants[k][f] \in own
  <2>1. old.variants[k] \in Range(old.variants)
    BY DEF LiveMatched, Range
  <2> QED
    BY <1>7, <2>1
<1>8. ASSUME NEW j \in DOMAIN p.variants, ImportedCombo(old, p, j) = combo
      PROVE  p.variants[j][f] \in said
  BY <1>6, <1>8
<1>9. ASSUME NEW k \in LiveMatched(old, q), new.variants[x].id = old.variants[k].id,
             combo = LiveCombo(old, q, k),
             value = old.variants[k][f] \/ Says(q, old, LiveCombo(old, q, k), f, value)
      PROVE  value \in own \cup said
  <2>1. CASE value = old.variants[k][f]
    BY <1>6, <1>7, <1>9, <2>1
  <2>2. CASE Says(q, old, LiveCombo(old, q, k), f, value)
    <3>1. PICK j \in DOMAIN q.variants :
            ImportedCombo(old, q, j) = LiveCombo(old, q, k) /\ value = q.variants[j][f]
      BY <2>2 DEF Says
    <3>2. CASE /\ j \in DOMAIN p.variants /\ ImportedCombo(old, p, j) = ImportedCombo(old, q, j)
               /\ q.variants[j][f] = p.variants[j][f]
      BY <1>8, <1>9, <3>1, <3>2
    <3>3. CASE \E l \in LiveMatched(old, q) : /\ LiveCombo(old, q, l) = ImportedCombo(old, q, j)
                                              /\ q.variants[j][f] = old.variants[l][f]
      <4>1. PICK l \in LiveMatched(old, q) : /\ LiveCombo(old, q, l) = ImportedCombo(old, q, j)
                                             /\ q.variants[j][f] = old.variants[l][f]
        BY <3>3
      <4>2. l = k
        BY <1>1, <3>1, <4>1, MatchedDiffer
      <4> QED
        BY <1>6, <1>7, <1>9, <3>1, <4>1, <4>2
    <3> QED
      BY <1>2, <3>2, <3>3, SaidOrCarried
  <2> QED
    BY <1>9, <2>1, <2>2
<1>10. ASSUME NEW j \in NewOnes(old, q, DOMAIN q.variants),
              combo = ImportedCombo(old, q, j), value = q.variants[j][f]
       PROVE  value \in said
  <2>1. j \in DOMAIN q.variants
        /\ \A k \in LiveMatched(old, q) : LiveCombo(old, q, k) # ImportedCombo(old, q, j)
    BY DEF NewOnes
  <2>2. /\ j \in DOMAIN p.variants /\ ImportedCombo(old, p, j) = ImportedCombo(old, q, j)
        /\ q.variants[j][f] = p.variants[j][f]
    BY <1>2, <2>1, SaidOrCarried
  <2> QED
    BY <1>8, <1>10, <2>2
<1>11. value \in own \cup said
  <2> HIDE DEF own, said, value, combo, v
  <2>1. \/ \E k \in LiveMatched(old, q) :
             /\ new.variants[x].id = old.variants[k].id
             /\ combo = LiveCombo(old, q, k)
             /\ value = old.variants[k][f] \/ Says(q, old, LiveCombo(old, q, k), f, value)
        \/ \E j \in NewOnes(old, q, DOMAIN q.variants) :
             combo = ImportedCombo(old, q, j) /\ value = q.variants[j][f]
    BY <1>1, <1>2, ProposalValues DEF value, combo
  <2> QED
    BY <1>9, <1>10, <2>1
<1>12. v[f] \in own \cup said \cup {Absent}
  <2> HIDE DEF own, said, value, v
  <2> QED
    BY <1>6, <1>11
<1> QED
  BY Zenon, <1>12 DEF OwnValue

=============================================================================
