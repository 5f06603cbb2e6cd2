------------------------- MODULE CreditTotalsProofs -------------------------
(***************************************************************************)
(* The sums of CreditLedger, for any finite set of operations: the         *)
(* counters of a cycle are the sums of its operations, the ledger explains *)
(* them, and the usage events of an operation add up to its charge.        *)
(*                                                                         *)
(* A sum follows a step when the step writes what it means to.  ON CONFLICT *)
(* DO NOTHING may drop an entry or an event; that it never does rests on   *)
(* which entries and events an operation has at each status: none before   *)
(* it reserves, its reservation alone while that is open, and later none   *)
(* whose total is ahead of what was reversed.                              *)
(***************************************************************************)
EXTENDS CreditLedgerProofs, FiniteSetTheorems

-----------------------------------------------------------------------------
(* Totals of integers over finite sets: a member can be taken out of a     *)
(* total, and a total changes by what changes of one member.               *)
(*                                                                         *)
(* Total is a fold: a recursive function on the subsets of its set.  That  *)
(* this function exists, and whatever holds of it, is shown by induction   *)
(* over the subsets of a finite set: if a subset breaks the claim, so does *)
(* one that has no smaller subset that breaks it.                          *)

\* The element that the sum takes first.
Pick(s) == CHOOSE x \in s : TRUE

\* g gives the sums over the subsets of S.
SumsUp(f, S, g) ==
  g = [s \in SUBSET S |-> IF s = {} THEN 0 ELSE f[Pick(s)] + g[s \ {Pick(s)}]]

\* A total is the last of the sums.
LEMMA TotalIsLastSum ==
  ASSUME NEW f, NEW S
  PROVE  Total(f, S) = (CHOOSE g : SumsUp(f, S, g))[S]
  BY DEF Total, MapThenSumSet, MapThenFoldSet, SumsUp, Pick

\* A set that is not empty has a first element.
LEMMA Picked ==
  ASSUME NEW s, s # {}
  PROVE  Pick(s) \in s
  BY DEF Pick

\* Induction over the subsets of a finite set: a family of them has a least one.
LEMMA SmallestSubset ==
  ASSUME NEW S, IsFiniteSet(S), NEW T, T \subseteq SUBSET S, T # {}
  PROVE  \E U \in T : \A V \in T : V \subseteq U => V = U
<1>1. IsWellFoundedOn(StrictSubsetOrdering(S), SUBSET S)
  BY FS_StrictSubsetOrderingWellFounded, FS_FiniteSubsetsOfFinite
<1>2. PICK U \in T : \A V \in T : ~ (<<V, U>> \in StrictSubsetOrdering(S))
  BY <1>1, WFMin
<1>3. ASSUME NEW V \in T, V \subseteq U PROVE V = U
  BY <1>2, <1>3 DEF StrictSubsetOrdering
<1> QED
  BY <1>3

\* The sums over the same set are the same, whatever set they are a part of.
LEMMA SumsAgree ==
  ASSUME NEW f, NEW V, NEW W, IsFiniteSet(V), NEW g, SumsUp(f, V, g), NEW h, SumsUp(f, W, h),
         NEW s, s \subseteq V, s \subseteq W
  PROVE  g[s] = h[s]
<1> DEFINE T == {u \in SUBSET (V \cap W) : g[u] # h[u]}
<1> SUFFICES ASSUME T # {} PROVE FALSE
  OBVIOUS
<1>1. PICK u \in T : \A v \in T : v \subseteq u => v = u
  <2>1. T \subseteq SUBSET V
    OBVIOUS
  <2> HIDE DEF T
  <2> QED
    BY <2>1, SmallestSubset
<1>2. u # {}
  BY DEF SumsUp
<1>3. Pick(u) \in u
  BY <1>2, Picked
<1>4. u \ {Pick(u)} \notin T
  BY <1>1, <1>3
<1>5. g[u \ {Pick(u)}] = h[u \ {Pick(u)}]
  BY <1>4
<1>6. /\ g[u] = f[Pick(u)] + g[u \ {Pick(u)}]
      /\ h[u] = f[Pick(u)] + h[u \ {Pick(u)}]
  BY <1>2 DEF SumsUp
<1> QED
  BY <1>5, <1>6

\* Every finite set has its sums.
LEMMA SumsExist ==
  ASSUME NEW f, NEW S, IsFiniteSet(S)
  PROVE  \E g : SumsUp(f, S, g)
<1> DEFINE T == {U \in SUBSET S : ~ \E g : SumsUp(f, U, g)}
<1> SUFFICES ASSUME T # {} PROVE FALSE
  OBVIOUS
<1>1. PICK U \in T : \A V \in T : V \subseteq U => V = U
  <2>1. T \subseteq SUBSET S
    OBVIOUS
  <2> HIDE DEF T
  <2> QED
    BY <2>1, SmallestSubset
<1> DEFINE sums(V) == CHOOSE g : SumsUp(f, V, g)
           all == [s \in SUBSET U |->
                     IF s = {} THEN 0
                     ELSE f[Pick(s)] + sums(s \ {Pick(s)})[s \ {Pick(s)}]]
<1>2. ASSUME NEW V \in SUBSET U, V # U PROVE SumsUp(f, V, sums(V))
  <2>1. V \in SUBSET S /\ V \notin T
    BY <1>1, <1>2
  <2>2. \E g : SumsUp(f, V, g)
    BY <2>1
  <2> QED
    BY <2>2
<1>3. ASSUME NEW V \in SUBSET U, V # U PROVE all[V] = sums(V)[V]
  <2>1. SumsUp(f, V, sums(V))
    BY <1>2, <1>3
  <2>2. CASE V = {}
    BY <2>1, <2>2 DEF SumsUp
  <2>3. CASE V # {}
    <3>1. Pick(V) \in V
      BY <2>3, Picked
    <3> DEFINE W == V \ {Pick(V)}
    <3>2. W \in SUBSET U /\ W # U /\ W \subseteq V
      BY <3>1
    <3>3. SumsUp(f, W, sums(W))
      BY <1>2, <3>2
    <3>4. IsFiniteSet(V)
      BY FS_Subset
    <3>5. sums(V)[W] = sums(W)[W]
      <4> HIDE DEF sums
      <4> QED
        BY <2>1, <3>2, <3>3, <3>4, SumsAgree
    <3>6. sums(V)[V] = f[Pick(V)] + sums(V)[W]
      BY <2>1, <2>3 DEF SumsUp
    <3> QED
      BY <2>3, <3>5, <3>6
  <2> QED
    BY <2>2, <2>3
<1>4. ASSUME NEW s \in SUBSET U, s # {}
      PROVE  all[s \ {Pick(s)}] = sums(s \ {Pick(s)})[s \ {Pick(s)}]
  <2>1. s \ {Pick(s)} \in SUBSET U /\ s \ {Pick(s)} # U
    BY <1>4, Picked
  <2> QED
    BY <1>3, <2>1
<1>5. SumsUp(f, U, all)
  <2> DEFINE first(s) == IF s = {} THEN 0
                         ELSE f[Pick(s)] + sums(s \ {Pick(s)})[s \ {Pick(s)}]
             then(s) == IF s = {} THEN 0 ELSE f[Pick(s)] + all[s \ {Pick(s)}]
  <2>1. \A s \in SUBSET U : first(s) = then(s)
    <3> HIDE DEF sums, all
    <3> QED
      BY <1>4
  <2>2. [s \in SUBSET U |-> first(s)] = [s \in SUBSET U |-> then(s)]
    <3> HIDE DEF first, then
    <3> QED
      BY <2>1
  <2>3. all = [s \in SUBSET U |-> first(s)]
    OBVIOUS
  <2>4. all = [s \in SUBSET U |-> then(s)]
    <3> HIDE DEF first, all
    <3> QED
      BY <2>2, <2>3
  <2> HIDE DEF all
  <2> QED
    BY <2>4 DEF SumsUp
<1> QED
  BY <1>5

\* Every total is a sum.
LEMMA TotalSums ==
  ASSUME NEW f, NEW S, IsFiniteSet(S)
  PROVE  \E g : SumsUp(f, S, g) /\ Total(f, S) = g[S]
<1>1. \E g : SumsUp(f, S, g)
  BY SumsExist
<1>2. SumsUp(f, S, CHOOSE g : SumsUp(f, S, g))
  BY <1>1
<1> QED
  BY <1>2, TotalIsLastSum

-----------------------------------------------------------------------------
(* The laws of totals.                                                     *)

\* Nothing adds up to zero.
LEMMA TotalEmpty ==
  ASSUME NEW f
  PROVE  Total(f, {}) = 0
<1>1. PICK g : SumsUp(f, {}, g) /\ Total(f, {}) = g[{}]
  BY TotalSums, FS_EmptySet
<1> QED
  BY <1>1 DEF SumsUp

\* The first element is added to the total of the others.
LEMMA TotalStep ==
  ASSUME NEW f, NEW S, IsFiniteSet(S), S # {}
  PROVE  Total(f, S) = f[Pick(S)] + Total(f, S \ {Pick(S)})
<1> DEFINE R == S \ {Pick(S)}
<1>1. PICK g : SumsUp(f, S, g) /\ Total(f, S) = g[S]
  BY TotalSums
<1>2. IsFiniteSet(R)
  BY FS_Subset
<1>3. PICK h : SumsUp(f, R, h) /\ Total(f, R) = h[R]
  BY <1>2, TotalSums
<1>4. g[S] = f[Pick(S)] + g[R]
  BY <1>1 DEF SumsUp
<1>5. h[R] = g[R]
  <2>1. R \subseteq S /\ R \subseteq R
    OBVIOUS
  <2>2. SumsUp(f, S, g) /\ SumsUp(f, R, h)
    BY <1>1, <1>3
  <2> HIDE DEF R
  <2> QED
    BY <1>2, <2>1, <2>2, SumsAgree
<1> QED
  BY <1>1, <1>3, <1>4, <1>5

\* The total of integers is an integer.
LEMMA TotalType ==
  ASSUME NEW f, NEW S, IsFiniteSet(S), \A x \in S : f[x] \in Int
  PROVE  Total(f, S) \in Int
<1> DEFINE T == {U \in SUBSET S : Total(f, U) \notin Int}
<1> SUFFICES ASSUME T # {} PROVE FALSE
  OBVIOUS
<1>1. PICK U \in T : \A V \in T : V \subseteq U => V = U
  <2>1. T \subseteq SUBSET S
    OBVIOUS
  <2> HIDE DEF T
  <2> QED
    BY <2>1, SmallestSubset
<1>2. U \in SUBSET S /\ IsFiniteSet(U)
  BY FS_Subset
<1>3. U # {}
  BY TotalEmpty
<1>4. Pick(U) \in U
  BY <1>3, Picked
<1>5. Total(f, U) = f[Pick(U)] + Total(f, U \ {Pick(U)})
  BY <1>2, <1>3, TotalStep
<1>6. U \ {Pick(U)} \notin T
  BY <1>1, <1>4
<1>7. Total(f, U \ {Pick(U)}) \in Int /\ f[Pick(U)] \in Int
  BY <1>2, <1>4, <1>6
<1>8. Total(f, U) \in Int
  BY <1>5, <1>7
<1> QED
  BY <1>8

\* Any member can be taken out of a total.
LEMMA TotalRemove ==
  ASSUME NEW f, NEW S, IsFiniteSet(S), \A x \in S : f[x] \in Int, NEW x \in S
  PROVE  Total(f, S) = f[x] + Total(f, S \ {x})
<1> DEFINE Splits(U, y) == Total(f, U) = f[y] + Total(f, U \ {y})
           T == {U \in SUBSET S : \E y \in U : ~Splits(U, y)}
<1> SUFFICES ASSUME T # {} PROVE FALSE
  OBVIOUS
<1>1. PICK U \in T : \A V \in T : V \subseteq U => V = U
  <2>1. T \subseteq SUBSET S
    OBVIOUS
  <2> HIDE DEF T
  <2> QED
    BY <2>1, SmallestSubset
<1>2. U \in SUBSET S /\ IsFiniteSet(U)
  BY FS_Subset
<1>3. PICK y \in U : ~Splits(U, y)
  BY <1>1
<1> DEFINE p == Pick(U)
<1>4. p \in U /\ Total(f, U) = f[p] + Total(f, U \ {p})
  BY <1>2, <1>3, Picked, TotalStep
<1>5. y # p
  BY <1>3, <1>4
<1>6. U \ {p} \notin T /\ U \ {y} \notin T
  BY <1>1, <1>3, <1>4
<1>7. /\ Total(f, U \ {p}) = f[y] + Total(f, (U \ {p}) \ {y})
      /\ Total(f, U \ {y}) = f[p] + Total(f, (U \ {y}) \ {p})
  <2>1. U \ {p} \in SUBSET S /\ U \ {y} \in SUBSET S /\ y \in U \ {p} /\ p \in U \ {y}
    BY <1>2, <1>4, <1>5
  <2> QED
    BY <1>6, <2>1
<1>8. (U \ {p}) \ {y} = (U \ {y}) \ {p}
  OBVIOUS
<1>9. f[y] \in Int /\ f[p] \in Int /\ Total(f, (U \ {y}) \ {p}) \in Int
  <2>1. IsFiniteSet((U \ {y}) \ {p})
    BY <1>2, FS_Subset
  <2>2. \A z \in (U \ {y}) \ {p} : f[z] \in Int
    BY <1>2
  <2> QED
    BY <1>2, <1>4, <2>1, <2>2, TotalType
<1>10. Splits(U, y)
  <2> DEFINE rest == Total(f, (U \ {y}) \ {p})
             this == Total(f, U)
             less == Total(f, U \ {y})
  <2>1. this = f[p] + (f[y] + rest)
    BY <1>4, <1>7, <1>8
  <2>2. less = f[p] + rest
    BY <1>7
  <2>3. rest \in Int
    BY <1>9
  <2>4. this = f[y] + less
    <3> HIDE DEF rest, this, less, p
    <3> QED
      BY <1>9, <2>1, <2>2, <2>3
  <2> QED
    BY <2>4
<1> QED
  BY <1>3, <1>10

\* Functions that agree on a set have one total there.
LEMMA TotalSame ==
  ASSUME NEW f, NEW g, NEW S, IsFiniteSet(S), \A x \in S : f[x] = g[x]
  PROVE  Total(f, S) = Total(g, S)
<1> DEFINE T == {U \in SUBSET S : Total(f, U) # Total(g, U)}
<1> SUFFICES ASSUME T # {} PROVE FALSE
  OBVIOUS
<1>1. PICK U \in T : \A V \in T : V \subseteq U => V = U
  <2>1. T \subseteq SUBSET S
    OBVIOUS
  <2> HIDE DEF T
  <2> QED
    BY <2>1, SmallestSubset
<1>2. U \in SUBSET S /\ IsFiniteSet(U)
  BY FS_Subset
<1>3. U # {}
  BY TotalEmpty
<1>4. Pick(U) \in U
  BY <1>3, Picked
<1>5. /\ Total(f, U) = f[Pick(U)] + Total(f, U \ {Pick(U)})
      /\ Total(g, U) = g[Pick(U)] + Total(g, U \ {Pick(U)})
  BY <1>2, <1>3, TotalStep
<1>6. U \ {Pick(U)} \notin T
  BY <1>1, <1>4
<1>7. Total(f, U) = Total(g, U)
  BY <1>2, <1>4, <1>5, <1>6
<1> QED
  BY <1>7

\* Where function and set change in one element alone, the total changes by what
\* the element adds to it.
LEMMA TotalChange ==
  ASSUME NEW f, NEW S, IsFiniteSet(S), \A y \in S : f[y] \in Int,
         NEW g, NEW R, IsFiniteSet(R), \A y \in R : g[y] \in Int,
         NEW x, S \ {x} = R \ {x}, \A y \in S \ {x} : f[y] = g[y]
  PROVE  Total(g, R) = Total(f, S) - Share(f, S, x) + Share(g, R, x)
<1> DEFINE Q == S \ {x}
<1>1. IsFiniteSet(Q)
  BY FS_Subset
<1>2. Total(f, Q) = Total(g, Q)
  BY <1>1, TotalSame
<1>3. Total(f, Q) \in Int
  BY <1>1, TotalType
<1>4. Total(f, S) = Share(f, S, x) + Total(f, Q) /\ Share(f, S, x) \in Int
  <2>1. CASE x \in S
    BY <2>1, TotalRemove DEF Share
  <2>2. CASE x \notin S
    <3>1. Q = S
      BY <2>2
    <3> HIDE DEF Q
    <3> QED
      BY <1>3, <2>2, <3>1 DEF Share
  <2> QED
    BY <2>1, <2>2
<1>5. Total(g, R) = Share(g, R, x) + Total(g, Q) /\ Share(g, R, x) \in Int
  <2>1. CASE x \in R
    BY <2>1, TotalRemove DEF Share
  <2>2. CASE x \notin R
    <3>1. Q = R
      BY <2>2
    <3> HIDE DEF Q
    <3> QED
      BY <1>2, <1>3, <2>2, <3>1 DEF Share
  <2> QED
    BY <2>1, <2>2
<1> QED
  BY <1>2, <1>3, <1>4, <1>5

-----------------------------------------------------------------------------
(* The books.                                                              *)

EntriesOf(o) == {e \in ledger : e.op = o}
EventsOf(o) == {e \in outbox : e.op = o}

Reservation(o) ==
  [key |-> "reserve", op |-> o, total |-> 0, cycle |-> op[o].cycle, credits |-> op[o].reserved]

\* The entries and the events that an operation may have
EntriesFit(o) ==
  /\ op[o].status = "none" => EntriesOf(o) = {}
  /\ op[o].status = "reserved" => EntriesOf(o) = {Reservation(o)}
  /\ \A e \in EntriesOf(o) : e.key = "reverse" => e.total <= op[o].reversed

EventsFit(o) ==
  /\ op[o].status \in {"none", "reserved"} => EventsOf(o) = {}
  /\ \A e \in EventsOf(o) : e.total <= op[o].reversed

RowsFit == \A o \in Operation : EntriesFit(o) /\ EventsFit(o)

FiniteBooks == IsFiniteSet(ledger) /\ IsFiniteSet(outbox)

\* Who reserved is subscribed, or was redacted
SubscribedFirst ==
  sub.status = "none" /\ ~redacted => \A o \in Operation : op[o].status = "none"

Sums == CountersMatchOperations /\ LedgerExplainsCycle /\ EventsMatchCharge

SInv == IInv /\ FiniteBooks /\ RowsFit /\ SubscribedFirst /\ Sums

\* What an operation adds to the counters of a cycle
HeldBy(t, o) == IF op[o].status = "reserved" /\ op[o].cycle = t THEN op[o].reserved ELSE 0
SettledBy(t, o) == IF op[o].status # "none" /\ op[o].cycle = t THEN op[o].settled ELSE 0
ReversedBy(t, o) == IF op[o].status # "none" /\ op[o].cycle = t THEN op[o].reversed ELSE 0

-----------------------------------------------------------------------------
(* Rows that are posted.                                                   *)

\* The numbers of an operation.
LEMMA OperationNumbers ==
  ASSUME IInv, NEW o \in Operation
  PROVE  /\ op[o].cycle \in Time
         /\ op[o].reserved \in Nat /\ op[o].settled \in Nat /\ op[o].reversed \in Nat
         /\ op[o].reserved \in Amount /\ op[o].settled \in Amount /\ op[o].reversed \in Amount
  BY AmountIsNat DEF IInv, Shapes, OperationRow

\* The numbers of a cycle.
LEMMA CycleNumbers ==
  ASSUME IInv, NEW t \in Time
  PROVE  cycle[t].reserved \in Int /\ cycle[t].settled \in Int /\ cycle[t].reversed \in Int
  BY DEF IInv, Shapes, CycleRow

\* An entry is posted when its key is new.
LEMMA Posted ==
  ASSUME NEW entries, NEW e,
         \A d \in entries : ~(d.key = e.key /\ d.op = e.op /\ d.total = e.total)
  PROVE  Post(entries, e) = entries \cup {e} /\ e \notin entries
  BY DEF Post

\* An event is queued when its key is new.
LEMMA Queued ==
  ASSUME NEW events, NEW e, \A d \in events : ~(d.op = e.op /\ d.total = e.total)
  PROVE  Queue(events, e) = events \cup {e} /\ e \notin events
  BY DEF Queue

-----------------------------------------------------------------------------
(* Sums that follow.                                                       *)

\* An entry adds its credits to its own cycle and nothing to the others, unless it
\* settles a reservation of that cycle.
LEMMA EntryAdded ==
  ASSUME NEW entries \in SUBSET Entry, IsFiniteSet(entries), NEW e \in Entry, e \notin entries,
         e.key = "reserve" => ~SettledIn(entries, e.cycle, e.op),
         e.key = "settle" => \A d \in entries : ~(d.key = "reserve" /\ d.op = e.op
                                                  /\ d.cycle = e.cycle),
         NEW t \in Time
  PROVE  /\ EntrySum(entries, t) \in Int
         /\ EntrySum(entries \cup {e}, t)
              = EntrySum(entries, t) + IF e.cycle = t THEN e.credits ELSE 0
<1> DEFINE more == entries \cup {e}
           f == [d \in entries |-> d.credits]
           g == [d \in more |-> d.credits]
           S == Counted(entries, t)
           R == Counted(more, t)
<1>1. IsFiniteSet(more)
  BY FS_AddElement
<1>2. S \subseteq entries /\ R \subseteq more
  BY DEF Counted
<1>3. IsFiniteSet(S) /\ IsFiniteSet(R)
  BY <1>1, <1>2, FS_Subset
<1>4. \A d \in more : d.credits \in Int
  BY DEF Entry
<1>5. /\ \A d \in S : f[d] \in Int
      /\ \A d \in R : g[d] \in Int
      /\ \A d \in S \ {e} : f[d] = g[d]
  BY <1>2, <1>4
<1>6. \A d \in entries : d \in R <=> d \in S
  <2> SUFFICES ASSUME NEW d \in entries, d.cycle = t, d.key = "reserve"
               PROVE  SettledIn(more, t, d.op) <=> SettledIn(entries, t, d.op)
    BY DEF Counted
  <2>1. ~(e.key = "settle" /\ e.op = d.op /\ e.cycle = t)
    OBVIOUS
  <2> QED
    BY <2>1 DEF SettledIn
<1>7. S \ {e} = R \ {e}
  BY <1>2, <1>6
<1>8. e \notin S /\ (e \in R <=> e.cycle = t)
  <2>1. e.key = "reserve" => ~SettledIn(more, e.cycle, e.op)
    BY DEF SettledIn
  <2> QED
    BY <1>2, <2>1 DEF Counted
<1>9. Share(f, S, e) = 0 /\ Share(g, R, e) = IF e.cycle = t THEN e.credits ELSE 0
  BY <1>8 DEF Share
<1>10. Total(g, R) = Total(f, S) - Share(f, S, e) + Share(g, R, e)
  <2> HIDE DEF f, g, S, R, more
  <2> QED
    BY <1>3, <1>5, <1>7, TotalChange
<1>11. Total(f, S) \in Int
  <2> HIDE DEF f, S
  <2> QED
    BY <1>3, <1>5, TotalType
<1>12. (IF e.cycle = t THEN e.credits ELSE 0) \in Int
  BY <1>4
<1> QED
  BY <1>9, <1>10, <1>11, <1>12 DEF EntrySum

\* A settlement in the cycle of the reservation takes its place in the sum.
LEMMA SettlementAdded ==
  ASSUME NEW entries \in SUBSET Entry, IsFiniteSet(entries), NEW e \in Entry, e \notin entries,
         e.key = "settle", NEW r \in entries, r.key = "reserve", r.cycle = e.cycle,
         \A d \in entries : d.op = e.op <=> d = r,
         NEW t \in Time
  PROVE  /\ EntrySum(entries, t) \in Int
         /\ EntrySum(entries \cup {e}, t)
              = EntrySum(entries, t) + IF e.cycle = t THEN e.credits - r.credits ELSE 0
<1> DEFINE more == entries \cup {e}
           f == [d \in entries |-> d.credits]
           g == [d \in more |-> d.credits]
           S == Counted(entries, t)
           Q == S \ {r}
           R == Counted(more, t)
<1>1. IsFiniteSet(more)
  BY FS_AddElement
<1>2. S \subseteq entries /\ R \subseteq more
  BY DEF Counted
<1>3. IsFiniteSet(S) /\ IsFiniteSet(R) /\ IsFiniteSet(Q)
  BY <1>1, <1>2, FS_Subset
<1>4. \A d \in more : d.credits \in Int
  BY DEF Entry
<1>5. /\ \A d \in S : f[d] \in Int
      /\ \A d \in Q : f[d] \in Int
      /\ \A d \in R : g[d] \in Int
      /\ \A d \in Q \ {e} : f[d] = g[d]
  BY <1>2, <1>4
<1>6. r \in S <=> e.cycle = t
  <2>1. ~SettledIn(entries, t, r.op)
    BY DEF SettledIn
  <2> QED
    BY <2>1 DEF Counted
<1>7. e \notin S /\ (e \in R <=> e.cycle = t)
  BY <1>2 DEF Counted
<1>8. \A d \in entries \ {r} : d \in R <=> d \in S
  <2> SUFFICES ASSUME NEW d \in entries, d # r, d.cycle = t, d.key = "reserve"
               PROVE  SettledIn(more, t, d.op) <=> SettledIn(entries, t, d.op)
    BY DEF Counted
  <2>1. e.op # d.op
    OBVIOUS
  <2> QED
    BY <2>1 DEF SettledIn
<1>9. r \notin R
  <2>1. e.cycle = t => SettledIn(more, t, r.op)
    BY DEF SettledIn
  <2> QED
    BY <2>1 DEF Counted
<1>10. Q \ {e} = R \ {e}
  BY <1>2, <1>8, <1>9
<1>11. Total(f, Q) \in Int
  <2> HIDE DEF f, Q
  <2> QED
    BY <1>3, <1>5, TotalType
<1>12. Total(f, S) = Total(f, Q) + IF e.cycle = t THEN r.credits ELSE 0
  <2>1. CASE e.cycle = t
    <3>1. r \in S /\ f[r] = r.credits /\ r.credits \in Int
      BY <1>4, <1>6, <2>1
    <3>2. Total(f, S) = f[r] + Total(f, Q)
      <4> HIDE DEF f, S
      <4> QED
        BY <1>3, <1>5, <3>1, TotalRemove
    <3> QED
      BY <1>11, <2>1, <3>1, <3>2
  <2>2. CASE e.cycle # t
    <3>1. Q = S
      BY <1>6, <2>2
    <3> HIDE DEF Q, S, f
    <3> QED
      BY <1>11, <2>2, <3>1
  <2> QED
    BY <2>1, <2>2
<1>13. Share(f, Q, e) = 0 /\ Share(g, R, e) = IF e.cycle = t THEN e.credits ELSE 0
  BY <1>7 DEF Share
<1>14. Total(g, R) = Total(f, Q) - Share(f, Q, e) + Share(g, R, e)
  <2> HIDE DEF f, g, Q, R, more
  <2> QED
    BY <1>3, <1>5, <1>10, TotalChange
<1>15. /\ (IF e.cycle = t THEN e.credits ELSE 0) \in Int
       /\ (IF e.cycle = t THEN r.credits ELSE 0) \in Int
       /\ e.credits \in Int /\ r.credits \in Int
  BY <1>4
<1> QED
  <2> DEFINE before == Total(f, S)
             less == Total(f, Q)
             after == Total(g, R)
  <2>1. /\ before = less + IF e.cycle = t THEN r.credits ELSE 0
        /\ after = less - 0 + IF e.cycle = t THEN e.credits ELSE 0
        /\ less \in Int
    BY <1>11, <1>12, <1>13, <1>14
  <2>2. before \in Int /\ after = before + IF e.cycle = t THEN e.credits - r.credits ELSE 0
    <3> HIDE DEF before, less, after
    <3> QED
      BY <1>15, <2>1
  <2> QED
    BY <2>2 DEF EntrySum

\* An event adds its credits to its own operation and nothing to the others.
LEMMA EventAdded ==
  ASSUME NEW events \in SUBSET Event, IsFiniteSet(events), NEW e \in Event, e \notin events,
         NEW o \in Operation
  PROVE  /\ EventSum(events, o) \in Int
         /\ EventSum(events \cup {e}, o)
              = EventSum(events, o) + IF e.op = o THEN e.credits ELSE 0
<1> DEFINE more == events \cup {e}
           f == [d \in events |-> d.credits]
           g == [d \in more |-> d.credits]
           S == {d \in events : d.op = o}
           R == {d \in more : d.op = o}
<1>1. IsFiniteSet(more)
  BY FS_AddElement
<1>2. IsFiniteSet(S) /\ IsFiniteSet(R)
  <2>1. S \subseteq events /\ R \subseteq more
    OBVIOUS
  <2> HIDE DEF S, R, more
  <2> QED
    BY <1>1, <2>1, FS_Subset
<1>3. \A d \in more : d.credits \in Int
  BY DEF Event
<1>4. /\ \A d \in S : f[d] \in Int
      /\ \A d \in R : g[d] \in Int
      /\ \A d \in S \ {e} : f[d] = g[d]
      /\ S \ {e} = R \ {e}
  BY <1>3
<1>5. Share(f, S, e) = 0 /\ Share(g, R, e) = IF e.op = o THEN e.credits ELSE 0
  BY DEF Share
<1>6. Total(g, R) = Total(f, S) - Share(f, S, e) + Share(g, R, e)
  <2> HIDE DEF f, g, S, R
  <2> QED
    BY <1>2, <1>4, TotalChange
<1>7. Total(f, S) \in Int /\ (IF e.op = o THEN e.credits ELSE 0) \in Int
  <2>1. Total(f, S) \in Int
    <3> HIDE DEF f, S
    <3> QED
      BY <1>2, <1>4, TotalType
  <2> QED
    BY <1>3, <2>1
<1> QED
  BY <1>5, <1>6, <1>7 DEF EventSum

\* The sum of an operation's events is an integer.
LEMMA EventSumType ==
  ASSUME IInv, FiniteBooks, NEW o \in Operation
  PROVE  EventSum(outbox, o) \in Int
<1> DEFINE f == [e \in outbox |-> e.credits]
           S == {e \in outbox : e.op = o}
<1>1. IsFiniteSet(S)
  BY FS_Subset DEF FiniteBooks
<1>2. \A e \in S : f[e] \in Int
  BY DEF IInv, Shapes, Event
<1> QED
  <2> HIDE DEF f, S
  <2>1. Total(f, S) \in Int
    BY <1>1, <1>2, TotalType
  <2> QED
    BY <2>1 DEF EventSum, f, S

\* A step that writes one operation changes each counter by what that operation
\* adds to it.
LEMMA OneOperation ==
  ASSUME SInv, IInv', NEW o \in Operation, \A p \in Operation \ {o} : op'[p] = op[p],
         \A t \in Time :
           /\ cycle'[t].reserved = cycle[t].reserved - HeldBy(t, o) + HeldBy(t, o)'
           /\ cycle'[t].settled = cycle[t].settled - SettledBy(t, o) + SettledBy(t, o)'
           /\ cycle'[t].reversed = cycle[t].reversed - ReversedBy(t, o) + ReversedBy(t, o)'
  PROVE  CountersMatchOperations'
<1> SUFFICES ASSUME NEW t \in Time
             PROVE  /\ cycle'[t].reserved = Total([p \in Operation |-> op[p].reserved], Held(t))'
                    /\ cycle'[t].settled = Total([p \in Operation |-> op[p].settled], Charged(t))'
                    /\ cycle'[t].reversed = Total([p \in Operation |-> op[p].reversed], Charged(t))'
  BY DEF CountersMatchOperations
<1>1. \A p \in Operation : /\ op[p].reserved \in Int /\ op'[p].reserved \in Int
                           /\ op[p].settled \in Int /\ op'[p].settled \in Int
                           /\ op[p].reversed \in Int /\ op'[p].reversed \in Int
  <2>1. Amount \subseteq Int
    BY AmountIsNat
  <2> QED
    BY <2>1 DEF SInv, IInv, Shapes, OperationRow
<1>2. /\ IsFiniteSet(Held(t)) /\ IsFiniteSet(Held(t)')
      /\ IsFiniteSet(Charged(t)) /\ IsFiniteSet(Charged(t)')
  <2>1. /\ Held(t) \subseteq Operation /\ Held(t)' \subseteq Operation
        /\ Charged(t) \subseteq Operation /\ Charged(t)' \subseteq Operation
    BY DEF Held, Charged
  <2> QED
    BY <2>1, OperationAssumption, FS_Subset
<1>3. Held(t) \ {o} = Held(t)' \ {o} /\ Charged(t) \ {o} = Charged(t)' \ {o}
  BY DEF Held, Charged
<1>4. Held(t) \subseteq Operation /\ Held(t)' \subseteq Operation
      /\ Charged(t) \subseteq Operation /\ Charged(t)' \subseteq Operation
  BY DEF Held, Charged
<1>5. cycle'[t].reserved = Total([p \in Operation |-> op[p].reserved], Held(t))'
  <2> DEFINE f == [p \in Operation |-> op[p].reserved]
             g == [p \in Operation |-> op'[p].reserved]
             S == Held(t)
             R == Held(t)'
  <2>1. /\ \A y \in S : f[y] \in Int
        /\ \A y \in R : g[y] \in Int
        /\ \A y \in S \ {o} : f[y] = g[y]
    BY <1>1, <1>4
  <2>2. Share(f, S, o) = HeldBy(t, o) /\ Share(g, R, o) = HeldBy(t, o)'
    BY DEF Share, HeldBy, Held, Charged
  <2>3. Total(g, R) = Total(f, S) - Share(f, S, o) + Share(g, R, o)
    <3> HIDE DEF f, g, S, R
    <3> QED
      BY <1>2, <1>3, <2>1, TotalChange DEF S, R
  <2>4. cycle[t].reserved = Total(f, S)
    BY DEF SInv, Sums, CountersMatchOperations
  <2> QED
    BY <2>2, <2>3, <2>4
<1>6. cycle'[t].settled = Total([p \in Operation |-> op[p].settled], Charged(t))'
  <2> DEFINE f == [p \in Operation |-> op[p].settled]
             g == [p \in Operation |-> op'[p].settled]
             S == Charged(t)
             R == Charged(t)'
  <2>1. /\ \A y \in S : f[y] \in Int
        /\ \A y \in R : g[y] \in Int
        /\ \A y \in S \ {o} : f[y] = g[y]
    BY <1>1, <1>4
  <2>2. Share(f, S, o) = SettledBy(t, o) /\ Share(g, R, o) = SettledBy(t, o)'
    BY DEF Share, SettledBy, Charged
  <2>3. Total(g, R) = Total(f, S) - Share(f, S, o) + Share(g, R, o)
    <3> HIDE DEF f, g, S, R
    <3> QED
      BY <1>2, <1>3, <2>1, TotalChange DEF S, R
  <2>4. cycle[t].settled = Total(f, S)
    BY DEF SInv, Sums, CountersMatchOperations
  <2> QED
    BY <2>2, <2>3, <2>4
<1>7. cycle'[t].reversed = Total([p \in Operation |-> op[p].reversed], Charged(t))'
  <2> DEFINE f == [p \in Operation |-> op[p].reversed]
             g == [p \in Operation |-> op'[p].reversed]
             S == Charged(t)
             R == Charged(t)'
  <2>1. /\ \A y \in S : f[y] \in Int
        /\ \A y \in R : g[y] \in Int
        /\ \A y \in S \ {o} : f[y] = g[y]
    BY <1>1, <1>4
  <2>2. Share(f, S, o) = ReversedBy(t, o) /\ Share(g, R, o) = ReversedBy(t, o)'
    BY DEF Share, ReversedBy, Charged
  <2>3. Total(g, R) = Total(f, S) - Share(f, S, o) + Share(g, R, o)
    <3> HIDE DEF f, g, S, R
    <3> QED
      BY <1>2, <1>3, <2>1, TotalChange DEF S, R
  <2>4. cycle[t].reversed = Total(f, S)
    BY DEF SInv, Sums, CountersMatchOperations
  <2> QED
    BY <2>2, <2>3, <2>4
<1> QED
  BY <1>5, <1>6, <1>7

\* A step whose new entries and events are those of one operation leaves the rows
\* of the others fit.
LEMMA OtherRowsFit ==
  ASSUME SInv, NEW o \in Operation, \A p \in Operation \ {o} : op'[p] = op[p],
         \A p \in Operation \ {o} :
           {e \in ledger' : e.op = p} = {e \in ledger : e.op = p}
           /\ {e \in outbox' : e.op = p} = {e \in outbox : e.op = p},
         EntriesFit(o)', EventsFit(o)'
  PROVE  RowsFit'
<1> SUFFICES ASSUME NEW p \in Operation, p # o PROVE EntriesFit(p)' /\ EventsFit(p)'
  BY DEF RowsFit
<1>1. EntriesFit(p) /\ EventsFit(p)
  BY DEF SInv, RowsFit
<1>2. op'[p] = op[p] /\ EntriesOf(p)' = EntriesOf(p) /\ EventsOf(p)' = EventsOf(p)
  BY DEF EntriesOf, EventsOf
<1>3. Reservation(p)' = Reservation(p)
  BY <1>2 DEF Reservation
<1> QED
  BY <1>1, <1>2, <1>3 DEF EntriesFit, EventsFit

-----------------------------------------------------------------------------
(* The steps that move credits.                                            *)

\* A reservation is the first row of its operation in the books.
LEMMA ReserveSums ==
  ASSUME SInv, NEW o \in Operation, NEW n \in Amount, Reserve(o, n)
  PROVE  SInv'
<1> DEFINE t == sub.start
           c == Ensured(t)
           row == [c EXCEPT !.reserved = c.reserved + n]
           new == [status |-> "reserved", cycle |-> t,
                   reserved |-> n, settled |-> 0, reversed |-> 0]
           e == [key |-> "reserve", op |-> o, total |-> 0, cycle |-> t, credits |-> n]
<1>0. IInv /\ IInv' /\ t \in Time /\ n \in Nat /\ n \in Int /\ 0 \in Amount
  BY ReserveStep, AmountIsNat, AmountAssumption DEF SInv, IInv, Shapes, Subscription, Amount
<1>1. /\ op[o].status = "none" /\ op' = [op EXCEPT ![o] = new]
      /\ cycle' = [cycle EXCEPT ![t] = row] /\ ledger' = Post(ledger, e)
      /\ UNCHANGED <<sub, outbox, redacted>> /\ sub.status = "active"
  BY DEF Reserve
<1>2. EntriesOf(o) = {} /\ EventsOf(o) = {}
  BY <1>1 DEF SInv, RowsFit, EntriesFit, EventsFit
<1>3. ledger' = ledger \cup {e} /\ e \notin ledger
  <2>1. e.op = o /\ \A d \in ledger : d.op # o
    BY <1>2 DEF EntriesOf
  <2> HIDE DEF e
  <2> QED
    BY <1>1, <2>1, Posted
<1>4. e \in Entry /\ e.key = "reserve" /\ e.cycle = t /\ e.credits = n /\ e.op = o
  BY <1>0 DEF Entry, EntryKey
<1>5. FiniteBooks'
  BY <1>1, <1>3, FS_AddElement DEF SInv, FiniteBooks
<1>6. op'[o] = new /\ \A p \in Operation \ {o} : op'[p] = op[p]
  BY <1>0, <1>1 DEF IInv, Shapes
<1>7. RowsFit'
  <2>1. EntriesOf(o)' = {e}
    BY <1>2, <1>3, <1>4 DEF EntriesOf
  <2>2. EventsOf(o)' = {}
    BY <1>1, <1>2 DEF EventsOf
  <2>3. Reservation(o)' = e
    BY <1>6 DEF Reservation
  <2>4. EntriesFit(o)' /\ EventsFit(o)'
    BY <1>4, <1>6, <2>1, <2>2, <2>3 DEF EntriesFit, EventsFit
  <2>5. \A p \in Operation \ {o} :
          {d \in ledger' : d.op = p} = {d \in ledger : d.op = p}
          /\ {d \in outbox' : d.op = p} = {d \in outbox : d.op = p}
    BY <1>1, <1>3, <1>4
  <2> QED
    BY <1>6, <2>4, <2>5, OtherRowsFit
<1>8. SubscribedFirst'
  BY <1>1 DEF SubscribedFirst
<1>9. \A u \in Time :
        /\ cycle'[u].reserved = cycle[u].reserved + IF u = t THEN n ELSE 0
        /\ cycle'[u].settled = cycle[u].settled
        /\ cycle'[u].reversed = cycle[u].reversed
  <2>1. \A u \in Time : cycle'[u] = IF u = t THEN row ELSE cycle[u]
    BY <1>0, <1>1 DEF IInv, Shapes
  <2>2. /\ row.reserved = cycle[t].reserved + n
        /\ row.settled = cycle[t].settled /\ row.reversed = cycle[t].reversed
    BY <1>0, EnsuredRow DEF CycleRow
  <2>3. \A u \in Time : cycle[u].reserved \in Int
    BY <1>0, CycleNumbers
  <2> HIDE DEF row
  <2> QED
    BY <2>1, <2>2, <2>3
<1>10. CountersMatchOperations'
  <2>1. \A u \in Time : /\ HeldBy(u, o) = 0 /\ HeldBy(u, o)' = IF u = t THEN n ELSE 0
                        /\ SettledBy(u, o) = 0 /\ SettledBy(u, o)' = 0
                        /\ ReversedBy(u, o) = 0 /\ ReversedBy(u, o)' = 0
    BY <1>1, <1>6 DEF HeldBy, SettledBy, ReversedBy
  <2>2. \A u \in Time :
          cycle[u].reserved \in Int /\ cycle[u].settled \in Int /\ cycle[u].reversed \in Int
    BY <1>0, CycleNumbers
  <2>3. \A u \in Time :
          /\ cycle'[u].reserved = cycle[u].reserved - HeldBy(u, o) + HeldBy(u, o)'
          /\ cycle'[u].settled = cycle[u].settled - SettledBy(u, o) + SettledBy(u, o)'
          /\ cycle'[u].reversed = cycle[u].reversed - ReversedBy(u, o) + ReversedBy(u, o)'
    BY <1>0, <1>9, <2>1, <2>2
  <2> QED
    BY <1>0, <1>6, <2>3, OneOperation
<1>11. LedgerExplainsCycle'
  <2> SUFFICES ASSUME NEW u \in Time PROVE Committed(cycle'[u]) = EntrySum(ledger', u)
    BY DEF LedgerExplainsCycle
  <2>1. /\ EntrySum(ledger, u) \in Int
        /\ EntrySum(ledger \cup {e}, u) = EntrySum(ledger, u) + IF e.cycle = u THEN e.credits ELSE 0
    <3>1. ~SettledIn(ledger, e.cycle, e.op)
      BY <1>2, <1>4 DEF SettledIn, EntriesOf
    <3>2. ledger \in SUBSET Entry /\ IsFiniteSet(ledger)
      BY DEF SInv, IInv, Shapes, FiniteBooks
    <3>3. e.key # "settle"
      BY <1>4
    <3> HIDE DEF e
    <3> QED
      BY <1>3, <1>4, <3>1, <3>2, <3>3, EntryAdded
  <2>2. Committed(cycle'[u]) = Committed(cycle[u]) + IF u = t THEN n ELSE 0
    BY <1>0, <1>9, CycleNumbers DEF Committed
  <2>3. Committed(cycle[u]) = EntrySum(ledger, u)
    BY DEF SInv, Sums, LedgerExplainsCycle
  <2> QED
    BY <1>3, <1>4, <2>1, <2>2, <2>3
<1>12. EventsMatchCharge'
  <2>1. \A p \in Operation : op'[p].settled - op'[p].reversed = op[p].settled - op[p].reversed
    <3>1. op[o].settled - op[o].reversed = 0
      <4>1. EventSum(outbox, o) = 0
        <5>1. {d \in outbox : d.op = o} = {}
          BY <1>2 DEF EventsOf
        <5> QED
          BY <5>1, TotalEmpty DEF EventSum
      <4>2. op[o].settled <= op[o].reserved /\ op[o].reversed <= op[o].settled
        BY DEF SInv, IInv, ChargeWithinQuote
      <4> QED
        BY <1>0, <4>1, <4>2, OperationNumbers DEF SInv, Sums, EventsMatchCharge
    <3> QED
      BY <1>6, <3>1
  <2> QED
    BY <1>1, <2>1 DEF SInv, Sums, EventsMatchCharge
<1> QED
  BY <1>0, <1>5, <1>7, <1>8, <1>10, <1>11, <1>12 DEF SInv, Sums

\* A settlement is the first event of its operation, and adds up to its charge.
LEMMA SettledSums ==
  ASSUME SInv, IInv', NEW o \in Operation, op[o].status = "reserved", NEW t \in Time,
         NEW amount \in Nat, amount <= op[o].reserved, Settled(o, t, amount),
         ledger \subseteq ledger',
         \A e \in ledger' \ ledger : e.op = o /\ e.key # "reverse"
  PROVE  RowsFit' /\ EventsMatchCharge' /\ SubscribedFirst' /\ IsFiniteSet(outbox')
<1> DEFINE new == [status |-> "settled", cycle |-> t, reserved |-> op[o].reserved,
                   settled |-> amount, reversed |-> op[o].reversed]
           event == [op |-> o, total |-> 0, credits |-> amount]
<1>1. /\ op' = [op EXCEPT ![o] = new] /\ UNCHANGED <<sub, redacted>>
      /\ outbox' = IF amount > 0 THEN Queue(outbox, event) ELSE outbox
  BY DEF Settled
<1>2. op'[o] = new /\ \A p \in Operation \ {o} : op'[p] = op[p]
  BY <1>1 DEF SInv, IInv, Shapes
<1>3. EntriesOf(o) = {Reservation(o)} /\ EventsOf(o) = {}
  BY DEF SInv, RowsFit, EntriesFit, EventsFit
<1>4. op[o].settled = 0 /\ op[o].reversed = 0
  <2>1. op[o].reversed \in Nat
    BY OperationNumbers DEF SInv
  <2> QED
    BY <2>1 DEF SInv, IInv, ChargeWithinQuote
<1>5. event \in Event /\ event.op = o /\ event.credits = amount /\ event.total = 0
  BY AmountAssumption DEF Event, Amount
<1>6. /\ event \notin outbox
      /\ outbox' = IF amount > 0 THEN outbox \cup {event} ELSE outbox
  <2>1. \A d \in outbox : ~(d.op = event.op /\ d.total = event.total)
    BY <1>3 DEF EventsOf
  <2> HIDE DEF event
  <2>2. Queue(outbox, event) = outbox \cup {event} /\ event \notin outbox
    BY <2>1, Queued
  <2> QED
    BY <1>1, <2>2
<1>7. IsFiniteSet(outbox')
  BY <1>6, FS_AddElement DEF SInv, FiniteBooks
<1>8. RowsFit'
  <2>1. EntriesFit(o)'
    <3>1. \A e \in EntriesOf(o)' : e.key # "reverse"
      BY <1>3 DEF EntriesOf, Reservation
    <3> QED
      BY <1>2, <3>1 DEF EntriesFit
  <2>2. EventsFit(o)'
    <3>1. \A e \in EventsOf(o)' : e.total = 0
      BY <1>3, <1>5, <1>6 DEF EventsOf
    <3> QED
      BY <1>2, <1>4, <3>1 DEF EventsFit
  <2>3. \A p \in Operation \ {o} :
          {e \in ledger' : e.op = p} = {e \in ledger : e.op = p}
          /\ {e \in outbox' : e.op = p} = {e \in outbox : e.op = p}
    BY <1>5, <1>6
  <2> QED
    BY <1>2, <2>1, <2>2, <2>3, OtherRowsFit
<1>9. SubscribedFirst'
  BY <1>1, <1>2 DEF SInv, SubscribedFirst
<1>10. \A p \in Operation :
         /\ EventSum(outbox, p) \in Int
         /\ EventSum(outbox', p) = EventSum(outbox, p) + IF p = o THEN amount ELSE 0
  <2> SUFFICES ASSUME NEW p \in Operation
               PROVE  /\ EventSum(outbox, p) \in Int
                      /\ EventSum(outbox', p) = EventSum(outbox, p) + IF p = o THEN amount ELSE 0
    OBVIOUS
  <2>1. EventSum(outbox, p) \in Int
    BY EventSumType DEF SInv
  <2>2. CASE amount > 0
    <3>1. EventSum(outbox \cup {event}, p)
            = EventSum(outbox, p) + IF event.op = p THEN event.credits ELSE 0
      <4>1. outbox \in SUBSET Event /\ IsFiniteSet(outbox)
        BY DEF SInv, IInv, Shapes, FiniteBooks
      <4> HIDE DEF event
      <4> QED
        BY <1>5, <1>6, <4>1, EventAdded
    <3> QED
      BY <1>5, <1>6, <2>1, <2>2, <3>1
  <2>3. CASE amount = 0
    BY <1>6, <2>1, <2>3
  <2> QED
    BY <2>2, <2>3
<1>11. EventSum(outbox, o) = 0
  <2>1. {e \in outbox : e.op = o} = {}
    BY <1>3 DEF EventsOf
  <2> QED
    BY <2>1, TotalEmpty DEF EventSum
<1>12. EventsMatchCharge'
  <2> SUFFICES ASSUME NEW p \in Operation
               PROVE  IF redacted THEN EventSum(outbox', p) >= op'[p].settled - op'[p].reversed
                      ELSE EventSum(outbox', p) = op'[p].settled - op'[p].reversed
    BY <1>1 DEF EventsMatchCharge
  <2>1. CASE p = o
    BY <1>2, <1>4, <1>10, <1>11, <2>1
  <2>2. CASE p # o
    <3>1. EventSum(outbox', p) = EventSum(outbox, p) /\ op'[p] = op[p]
      BY <1>2, <1>10, <2>2
    <3> QED
      BY <3>1 DEF SInv, Sums, EventsMatchCharge
  <2> QED
    BY <2>1, <2>2
<1> QED
  BY <1>7, <1>8, <1>9, <1>12

\* Within its cycle a charge takes the place of the reservation, in the counters
\* and in the ledger.
LEMMA SettleInCycleSums ==
  ASSUME SInv, NEW o \in Operation, NEW actual \in Usage, SettleInCycle(o, actual)
  PROVE  SInv'
<1> DEFINE t == op[o].cycle
           c == IF Ended(t) THEN Ensured(t) ELSE cycle[t]
           amount == Charge(o, actual)
           row == [c EXCEPT !.reserved = c.reserved - op[o].reserved,
                            !.settled = c.settled + amount]
           e == SettleEntry(o, t, amount)
           r == Reservation(o)
<1>0. IInv /\ IInv' /\ t \in Time /\ op[o].reserved \in Nat
  BY SettleInCycleStep, OperationNumbers DEF SInv
<1>1. /\ op[o].status = "reserved" /\ cycle' = [cycle EXCEPT ![t] = row]
      /\ ledger' = Post(ledger, e) /\ Settled(o, t, amount)
  BY DEF SettleInCycle
<1>2. amount \in Nat /\ amount <= op[o].reserved
  BY <1>0, ChargeRange
<1>3. /\ e \in Entry /\ e.key = "settle" /\ e.cycle = t /\ e.credits = amount /\ e.op = o
      /\ r.key = "reserve" /\ r.cycle = t /\ r.credits = op[o].reserved /\ r.op = o
  BY <1>0, <1>2, AmountAssumption DEF SettleEntry, Entry, EntryKey, Reservation, Amount
<1>4. EntriesOf(o) = {r}
  BY <1>1 DEF SInv, RowsFit, EntriesFit
<1>5. r \in ledger /\ \A d \in ledger : d.op = o <=> d = r
  BY <1>4 DEF EntriesOf
<1>6. ledger' = ledger \cup {e} /\ e \notin ledger
  <2>1. \A d \in ledger : ~(d.key = e.key /\ d.op = e.op /\ d.total = e.total)
    BY <1>3, <1>5
  <2> HIDE DEF e
  <2> QED
    BY <1>1, <2>1, Posted
<1>7. RowsFit' /\ EventsMatchCharge' /\ SubscribedFirst' /\ IsFiniteSet(outbox')
  <2>1. ledger \subseteq ledger' /\ \A d \in ledger' \ ledger : d.op = o /\ d.key # "reverse"
    BY <1>3, <1>6
  <2> HIDE DEF t, amount
  <2> QED
    BY <1>0, <1>1, <1>2, <2>1, SettledSums
<1>8. FiniteBooks'
  BY <1>6, <1>7, FS_AddElement DEF SInv, FiniteBooks
<1>9. /\ op'[o] = [status |-> "settled", cycle |-> t, reserved |-> op[o].reserved,
                    settled |-> amount, reversed |-> op[o].reversed]
      /\ \A p \in Operation \ {o} : op'[p] = op[p]
  BY <1>0, <1>1 DEF Settled, IInv, Shapes
<1>10. \A u \in Time :
         /\ cycle'[u].reserved = cycle[u].reserved - IF u = t THEN op[o].reserved ELSE 0
         /\ cycle'[u].settled = cycle[u].settled + IF u = t THEN amount ELSE 0
         /\ cycle'[u].reversed = cycle[u].reversed
  <2>1. \A u \in Time : cycle'[u] = IF u = t THEN row ELSE cycle[u]
    BY <1>0, <1>1 DEF IInv, Shapes
  <2>2. /\ c \in CycleRow /\ c.reserved = cycle[t].reserved
        /\ c.settled = cycle[t].settled /\ c.reversed = cycle[t].reversed
    BY <1>0, EnsuredRow DEF IInv, Shapes
  <2>3. /\ row.reserved = cycle[t].reserved - op[o].reserved
        /\ row.settled = cycle[t].settled + amount /\ row.reversed = cycle[t].reversed
    <3> HIDE DEF c, amount
    <3> QED
      BY <2>2 DEF CycleRow
  <2>4. \A u \in Time : cycle[u].reserved \in Int /\ cycle[u].settled \in Int
    BY <1>0, CycleNumbers
  <2> HIDE DEF row, amount
  <2> QED
    BY <2>1, <2>3, <2>4
<1>11. CountersMatchOperations'
  <2>1. op[o].settled = 0 /\ op[o].reversed \in Nat
    BY <1>0, <1>1, OperationNumbers DEF IInv, ChargeWithinQuote
  <2>2. \A u \in Time :
          /\ HeldBy(u, o) = (IF u = t THEN op[o].reserved ELSE 0) /\ HeldBy(u, o)' = 0
          /\ SettledBy(u, o) = 0 /\ SettledBy(u, o)' = IF u = t THEN amount ELSE 0
          /\ ReversedBy(u, o)' = ReversedBy(u, o) /\ ReversedBy(u, o) \in Int
    <3> HIDE DEF amount
    <3> QED
      BY <1>1, <1>9, <2>1 DEF HeldBy, SettledBy, ReversedBy
  <2>3. \A u \in Time :
          cycle[u].reserved \in Int /\ cycle[u].settled \in Int /\ cycle[u].reversed \in Int
    BY <1>0, CycleNumbers
  <2>4. \A u \in Time :
          /\ cycle'[u].reserved = cycle[u].reserved - HeldBy(u, o) + HeldBy(u, o)'
          /\ cycle'[u].settled = cycle[u].settled - SettledBy(u, o) + SettledBy(u, o)'
          /\ cycle'[u].reversed = cycle[u].reversed - ReversedBy(u, o) + ReversedBy(u, o)'
    <3> HIDE DEF amount
    <3> QED
      BY <1>0, <1>2, <1>10, <2>2, <2>3
  <2> QED
    BY <1>0, <1>9, <2>4, OneOperation
<1>12. LedgerExplainsCycle'
  <2> SUFFICES ASSUME NEW u \in Time PROVE Committed(cycle'[u]) = EntrySum(ledger', u)
    BY DEF LedgerExplainsCycle
  <2>1. /\ EntrySum(ledger, u) \in Int
        /\ EntrySum(ledger \cup {e}, u)
             = EntrySum(ledger, u) + IF e.cycle = u THEN e.credits - r.credits ELSE 0
    <3>1. ledger \in SUBSET Entry /\ IsFiniteSet(ledger)
      BY DEF SInv, IInv, Shapes, FiniteBooks
    <3> HIDE DEF e, r
    <3> QED
      BY <1>3, <1>5, <1>6, <3>1, SettlementAdded
  <2>2. Committed(cycle'[u]) = Committed(cycle[u]) + IF u = t THEN amount - op[o].reserved ELSE 0
    <3> HIDE DEF amount
    <3> QED
      BY <1>0, <1>2, <1>10, CycleNumbers DEF Committed
  <2>3. Committed(cycle[u]) = EntrySum(ledger, u)
    BY DEF SInv, Sums, LedgerExplainsCycle
  <2> HIDE DEF e, r, amount
  <2> QED
    BY <1>0, <1>2, <1>3, <1>6, <2>1, <2>2, <2>3
<1> QED
  BY <1>0, <1>7, <1>8, <1>11, <1>12 DEF SInv, Sums

\* After a rollover the old cycle is relieved of the reservation, by an entry of
\* its own, and the current one takes the charge.
LEMMA SettleAfterRolloverSums ==
  ASSUME SInv, NEW o \in Operation, NEW actual \in Usage, SettleAfterRollover(o, actual)
  PROVE  SInv'
<1> DEFINE old == op[o].cycle
           t == sub.start
           c == Ensured(t)
           room == Greatest(0, Available(c))
           amount == Least(Charge(o, actual), room)
           from == [cycle[old] EXCEPT !.reserved = cycle[old].reserved - op[o].reserved]
           to == [c EXCEPT !.settled = c.settled + amount]
           left == [key |-> "rollover-release", op |-> o, total |-> 0,
                    cycle |-> old, credits |-> -op[o].reserved]
           e == SettleEntry(o, t, amount)
           r == Reservation(o)
<1>0. IInv /\ IInv' /\ t \in Time /\ old \in Time /\ op[o].reserved \in Nat
  BY SettleAfterRolloverStep, OperationNumbers DEF SInv, IInv, Shapes, Subscription
<1>1. /\ op[o].status = "reserved" /\ t # old
      /\ cycle' = [cycle EXCEPT ![old] = from, ![t] = to]
      /\ ledger' = Post(Post(ledger, left), e) /\ Settled(o, t, amount)
  BY DEF SettleAfterRollover
<1>2. amount \in Nat /\ amount <= op[o].reserved
  <2>1. Charge(o, actual) \in Nat /\ Charge(o, actual) <= op[o].reserved
    BY <1>0, ChargeRange
  <2>2. Capacity(c) \in Int /\ Committed(c) \in Int
    BY <1>0, EnsuredRow, RowNumbers
  <2> QED
    BY <1>0, <2>1, <2>2 DEF Available, Least, Greatest
<1> HIDE DEF amount
<1>3. /\ e \in Entry /\ e.key = "settle" /\ e.cycle = t /\ e.credits = amount /\ e.op = o
      /\ left \in Entry /\ left.key = "rollover-release" /\ left.cycle = old
      /\ left.credits = -op[o].reserved /\ left.op = o
      /\ r.key = "reserve" /\ r.cycle = old /\ r.op = o
  BY <1>0, <1>2, AmountAssumption DEF SettleEntry, Entry, EntryKey, Reservation, Amount
<1>4. EntriesOf(o) = {r}
  BY <1>1 DEF SInv, RowsFit, EntriesFit
<1>5. r \in ledger /\ \A d \in ledger : d.op = o => d = r
  BY <1>4 DEF EntriesOf
<1> DEFINE middle == ledger \cup {left}
<1>6. left \notin ledger /\ e \notin middle /\ ledger' = middle \cup {e}
  <2>1. \A d \in ledger : ~(d.key = left.key /\ d.op = left.op /\ d.total = left.total)
    BY <1>3, <1>5
  <2>2. Post(ledger, left) = middle /\ left \notin ledger
    <3> HIDE DEF left
    <3> QED
      BY <2>1, Posted
  <2>3. \A d \in middle : ~(d.key = e.key /\ d.op = e.op /\ d.total = e.total)
    BY <1>3, <1>5
  <2>4. Post(middle, e) = middle \cup {e} /\ e \notin middle
    <3> HIDE DEF middle, e
    <3> QED
      BY <2>3, Posted
  <2> QED
    BY <1>1, <2>2, <2>4
<1>7. RowsFit' /\ EventsMatchCharge' /\ SubscribedFirst' /\ IsFiniteSet(outbox')
  <2>1. ledger \subseteq ledger' /\ \A d \in ledger' \ ledger : d.op = o /\ d.key # "reverse"
    BY <1>3, <1>6
  <2> HIDE DEF t
  <2> QED
    BY <1>0, <1>1, <1>2, <2>1, SettledSums
<1>8. /\ ledger \in SUBSET Entry /\ IsFiniteSet(ledger)
      /\ middle \in SUBSET Entry /\ IsFiniteSet(middle)
  BY <1>0, <1>3, FS_AddElement DEF SInv, IInv, Shapes, FiniteBooks
<1>9. FiniteBooks'
  <2> HIDE DEF middle, e
  <2> QED
    BY <1>6, <1>7, <1>8, FS_AddElement DEF FiniteBooks
<1>10. /\ op'[o] = [status |-> "settled", cycle |-> t, reserved |-> op[o].reserved,
                     settled |-> amount, reversed |-> op[o].reversed]
       /\ \A p \in Operation \ {o} : op'[p] = op[p]
  BY <1>0, <1>1 DEF Settled, IInv, Shapes
<1>11. \A u \in Time :
         /\ cycle'[u].reserved = cycle[u].reserved - IF u = old THEN op[o].reserved ELSE 0
         /\ cycle'[u].settled = cycle[u].settled + IF u = t THEN amount ELSE 0
         /\ cycle'[u].reversed = cycle[u].reversed
  <2>1. \A u \in Time : cycle'[u] = IF u = t THEN to ELSE IF u = old THEN from ELSE cycle[u]
    BY <1>0, <1>1 DEF IInv, Shapes
  <2>2. /\ c \in CycleRow /\ c.reserved = cycle[t].reserved
        /\ c.settled = cycle[t].settled /\ c.reversed = cycle[t].reversed
    BY <1>0, EnsuredRow DEF IInv, Shapes
  <2>3. /\ to.reserved = cycle[t].reserved
        /\ to.settled = cycle[t].settled + amount /\ to.reversed = cycle[t].reversed
    <3> HIDE DEF c
    <3> QED
      BY <2>2 DEF CycleRow
  <2>4. /\ from.reserved = cycle[old].reserved - op[o].reserved
        /\ from.settled = cycle[old].settled /\ from.reversed = cycle[old].reversed
    BY <1>0 DEF IInv, Shapes, CycleRow
  <2>5. \A u \in Time : cycle[u].reserved \in Int /\ cycle[u].settled \in Int
    BY <1>0, CycleNumbers
  <2> HIDE DEF from, to
  <2>6. ASSUME NEW u \in Time
        PROVE  /\ cycle'[u].reserved = cycle[u].reserved - IF u = old THEN op[o].reserved ELSE 0
               /\ cycle'[u].settled = cycle[u].settled + IF u = t THEN amount ELSE 0
               /\ cycle'[u].reversed = cycle[u].reversed
    <3>0. t # old
      BY <1>1
    <3>1. cycle[u].reserved \in Int /\ cycle[u].settled \in Int
      BY <2>5
    <3>2. CASE u = t
      <4>1. cycle'[u] = to /\ u # old
        BY <2>1, <3>0, <3>2
      <4> QED
        BY <2>3, <3>1, <3>2, <4>1
    <3>3. CASE u = old
      <4>1. cycle'[u] = from /\ u # t
        BY <2>1, <3>0, <3>3
      <4> QED
        BY <2>4, <3>1, <3>3, <4>1
    <3>4. CASE u # t /\ u # old
      BY <2>1, <3>1, <3>4
    <3> QED
      BY <3>2, <3>3, <3>4
  <2> QED
    BY <2>6
<1>12. CountersMatchOperations'
  <2>1. op[o].settled = 0 /\ op[o].reversed = 0
    <3>1. op[o].reversed \in Nat
      BY <1>0, OperationNumbers
    <3> QED
      BY <1>0, <1>1, <3>1 DEF IInv, ChargeWithinQuote
  <2>2. \A u \in Time :
          /\ HeldBy(u, o) = (IF u = old THEN op[o].reserved ELSE 0) /\ HeldBy(u, o)' = 0
          /\ SettledBy(u, o) = 0 /\ SettledBy(u, o)' = IF u = t THEN amount ELSE 0
          /\ ReversedBy(u, o)' = 0 /\ ReversedBy(u, o) = 0
    BY <1>1, <1>10, <2>1 DEF HeldBy, SettledBy, ReversedBy
  <2>3. \A u \in Time :
          cycle[u].reserved \in Int /\ cycle[u].settled \in Int /\ cycle[u].reversed \in Int
    BY <1>0, CycleNumbers
  <2>4. \A u \in Time :
          /\ cycle'[u].reserved = cycle[u].reserved - HeldBy(u, o) + HeldBy(u, o)'
          /\ cycle'[u].settled = cycle[u].settled - SettledBy(u, o) + SettledBy(u, o)'
          /\ cycle'[u].reversed = cycle[u].reversed - ReversedBy(u, o) + ReversedBy(u, o)'
    BY <1>0, <1>2, <1>11, <2>2, <2>3
  <2> QED
    BY <1>0, <1>10, <2>4, OneOperation
<1>13. LedgerExplainsCycle'
  <2> SUFFICES ASSUME NEW u \in Time PROVE Committed(cycle'[u]) = EntrySum(ledger', u)
    BY DEF LedgerExplainsCycle
  <2>1. /\ EntrySum(ledger, u) \in Int
        /\ EntrySum(middle, u)
             = EntrySum(ledger, u) + IF left.cycle = u THEN left.credits ELSE 0
    <3>1. left.key # "reserve" /\ left.key # "settle"
      BY <1>3
    <3> HIDE DEF left
    <3> QED
      BY <1>3, <1>6, <1>8, <3>1, EntryAdded
  <2>2. /\ EntrySum(middle, u) \in Int
        /\ EntrySum(ledger', u)
             = EntrySum(middle, u) + IF e.cycle = u THEN e.credits ELSE 0
    <3>1. \A d \in middle : ~(d.key = "reserve" /\ d.op = e.op /\ d.cycle = e.cycle)
      BY <1>1, <1>3, <1>5
    <3>2. e.key # "reserve"
      BY <1>3
    <3> HIDE DEF middle, e
    <3> QED
      BY <1>3, <1>6, <1>8, <3>1, <3>2, EntryAdded
  <2>3. Committed(cycle'[u]) = Committed(cycle[u]) + (IF u = t THEN amount ELSE 0)
                               - (IF u = old THEN op[o].reserved ELSE 0)
    BY <1>0, <1>2, <1>11, CycleNumbers DEF Committed
  <2>4. Committed(cycle[u]) = EntrySum(ledger, u)
    BY DEF SInv, Sums, LedgerExplainsCycle
  <2> HIDE DEF e, left, middle
  <2> QED
    BY <1>0, <1>2, <1>3, <2>1, <2>2, <2>3, <2>4
<1> QED
  BY <1>0, <1>7, <1>9, <1>12, <1>13 DEF SInv, Sums

\* A release takes the reservation out of its cycle.
LEMMA ReleaseSums ==
  ASSUME SInv, NEW o \in Operation, Release(o)
  PROVE  SInv'
<1> DEFINE t == op[o].cycle
           row == [cycle[t] EXCEPT !.reserved = cycle[t].reserved - op[o].reserved]
           e == [key |-> "release", op |-> o, total |-> 0,
                 cycle |-> t, credits |-> -op[o].reserved]
           r == Reservation(o)
<1>0. IInv /\ IInv' /\ t \in Time /\ op[o].reserved \in Nat
  BY ReleaseStep, OperationNumbers DEF SInv
<1>1. /\ op[o].status = "reserved" /\ cycle' = [cycle EXCEPT ![t] = row]
      /\ op' = [op EXCEPT ![o].status = "released"]
      /\ ledger' = Post(ledger, e) /\ UNCHANGED <<sub, outbox, redacted>>
  BY DEF Release
<1>2. /\ e \in Entry /\ e.key = "release" /\ e.cycle = t /\ e.op = o
      /\ e.credits = -op[o].reserved /\ r.key = "reserve"
  BY <1>0, AmountAssumption DEF Entry, EntryKey, Reservation, Amount
<1>3. EntriesOf(o) = {r} /\ EventsOf(o) = {}
  BY <1>1 DEF SInv, RowsFit, EntriesFit, EventsFit
<1>4. ledger' = ledger \cup {e} /\ e \notin ledger
  <2>1. \A d \in ledger : ~(d.key = e.key /\ d.op = e.op /\ d.total = e.total)
    BY <1>2, <1>3 DEF EntriesOf
  <2> HIDE DEF e
  <2> QED
    BY <1>1, <2>1, Posted
<1>5. /\ op'[o] = [op[o] EXCEPT !.status = "released"]
      /\ \A p \in Operation \ {o} : op'[p] = op[p]
  BY <1>0, <1>1 DEF IInv, Shapes
<1>6. /\ op'[o].status = "released" /\ op'[o].cycle = t
      /\ op'[o].settled = op[o].settled /\ op'[o].reversed = op[o].reversed
  BY <1>0, <1>5 DEF IInv, Shapes, OperationRow
<1>7. FiniteBooks'
  BY <1>1, <1>4, FS_AddElement DEF SInv, FiniteBooks
<1>8. RowsFit'
  <2>1. EntriesFit(o)'
    <3>1. \A d \in EntriesOf(o)' : d.key # "reverse"
      BY <1>2, <1>3, <1>4 DEF EntriesOf
    <3> QED
      BY <1>6, <3>1 DEF EntriesFit
  <2>2. EventsFit(o)'
    BY <1>1, <1>3 DEF EventsOf, EventsFit
  <2>3. \A p \in Operation \ {o} :
          {d \in ledger' : d.op = p} = {d \in ledger : d.op = p}
          /\ {d \in outbox' : d.op = p} = {d \in outbox : d.op = p}
    BY <1>1, <1>2, <1>4
  <2> QED
    BY <1>5, <2>1, <2>2, <2>3, OtherRowsFit
<1>9. SubscribedFirst'
  BY <1>1 DEF SInv, SubscribedFirst
<1>10. \A u \in Time :
         /\ cycle'[u].reserved = cycle[u].reserved - IF u = t THEN op[o].reserved ELSE 0
         /\ cycle'[u].settled = cycle[u].settled
         /\ cycle'[u].reversed = cycle[u].reversed
  <2>1. \A u \in Time : cycle'[u] = IF u = t THEN row ELSE cycle[u]
    BY <1>0, <1>1 DEF IInv, Shapes
  <2>2. /\ row.reserved = cycle[t].reserved - op[o].reserved
        /\ row.settled = cycle[t].settled /\ row.reversed = cycle[t].reversed
    BY <1>0 DEF IInv, Shapes, CycleRow
  <2>3. \A u \in Time : cycle[u].reserved \in Int
    BY <1>0, CycleNumbers
  <2> HIDE DEF row
  <2> QED
    BY <2>1, <2>2, <2>3
<1>11. CountersMatchOperations'
  <2>1. \A u \in Time :
          /\ HeldBy(u, o) = (IF u = t THEN op[o].reserved ELSE 0) /\ HeldBy(u, o)' = 0
          /\ SettledBy(u, o)' = SettledBy(u, o) /\ SettledBy(u, o) \in Int
          /\ ReversedBy(u, o)' = ReversedBy(u, o) /\ ReversedBy(u, o) \in Int
    BY <1>0, <1>1, <1>6, OperationNumbers DEF HeldBy, SettledBy, ReversedBy
  <2>2. \A u \in Time :
          cycle[u].reserved \in Int /\ cycle[u].settled \in Int /\ cycle[u].reversed \in Int
    BY <1>0, CycleNumbers
  <2>3. \A u \in Time :
          /\ cycle'[u].reserved = cycle[u].reserved - HeldBy(u, o) + HeldBy(u, o)'
          /\ cycle'[u].settled = cycle[u].settled - SettledBy(u, o) + SettledBy(u, o)'
          /\ cycle'[u].reversed = cycle[u].reversed - ReversedBy(u, o) + ReversedBy(u, o)'
    BY <1>0, <1>10, <2>1, <2>2
  <2> QED
    BY <1>0, <1>5, <2>3, OneOperation
<1>12. LedgerExplainsCycle'
  <2> SUFFICES ASSUME NEW u \in Time PROVE Committed(cycle'[u]) = EntrySum(ledger', u)
    BY DEF LedgerExplainsCycle
  <2>1. /\ EntrySum(ledger, u) \in Int
        /\ EntrySum(ledger \cup {e}, u)
             = EntrySum(ledger, u) + IF e.cycle = u THEN e.credits ELSE 0
    <3>1. ledger \in SUBSET Entry /\ IsFiniteSet(ledger)
      BY DEF SInv, IInv, Shapes, FiniteBooks
    <3>2. e.key # "reserve" /\ e.key # "settle"
      BY <1>2
    <3> HIDE DEF e
    <3> QED
      BY <1>2, <1>4, <3>1, <3>2, EntryAdded
  <2>2. Committed(cycle'[u]) = Committed(cycle[u]) - IF u = t THEN op[o].reserved ELSE 0
    BY <1>0, <1>10, CycleNumbers DEF Committed
  <2>3. Committed(cycle[u]) = EntrySum(ledger, u)
    BY DEF SInv, Sums, LedgerExplainsCycle
  <2> HIDE DEF e
  <2> QED
    BY <1>0, <1>2, <1>4, <2>1, <2>2, <2>3
<1>13. EventsMatchCharge'
  <2>1. \A p \in Operation : op'[p].settled = op[p].settled /\ op'[p].reversed = op[p].reversed
    BY <1>5, <1>6
  <2> QED
    BY <1>1, <2>1 DEF SInv, Sums, EventsMatchCharge
<1> QED
  BY <1>0, <1>7, <1>8, <1>9, <1>11, <1>12, <1>13 DEF SInv, Sums

\* A reversal has a total of its own, ahead of those before, so that its entry and
\* its event are new; there is a shop to tell unless it was redacted.
LEMMA ReverseSums ==
  ASSUME SInv, NEW o \in Operation, NEW credits \in Amount, Reverse(o, credits)
  PROVE  SInv'
<1> DEFINE t == op[o].cycle
           amount == Least(Greatest(0, credits), op[o].settled - op[o].reversed)
           total == op[o].reversed + amount
           row == [cycle[t] EXCEPT !.reversed = cycle[t].reversed + amount]
           new == [status |-> IF total = op[o].settled THEN "reversed" ELSE "settled",
                   cycle |-> t, reserved |-> op[o].reserved,
                   settled |-> op[o].settled, reversed |-> total]
           e == [key |-> "reverse", op |-> o, total |-> total, cycle |-> t, credits |-> -amount]
           event == [op |-> o, total |-> total, credits |-> -amount]
<1>0. /\ IInv /\ IInv' /\ t \in Time
      /\ op[o].settled \in Nat /\ op[o].reversed \in Nat /\ op[o].settled \in Amount
  BY ReverseStep, OperationNumbers DEF SInv
<1>1. /\ op[o].status \in {"settled", "reversed"} /\ amount # 0
      /\ cycle' = [cycle EXCEPT ![t] = row] /\ op' = [op EXCEPT ![o] = new]
      /\ ledger' = Post(ledger, e) /\ UNCHANGED <<sub, redacted>>
      /\ outbox' = IF sub.status = "none" THEN outbox ELSE Queue(outbox, event)
  BY DEF Reverse
<1>2. amount \in Nat /\ amount > 0 /\ total \in Nat /\ total <= op[o].settled
  <2>1. op[o].reversed <= op[o].settled
    BY <1>0 DEF IInv, ChargeWithinQuote
  <2>2. credits \in Nat
    BY AmountIsNat
  <2>3. amount \in Nat /\ amount <= op[o].settled - op[o].reversed
    BY <1>0, <2>1, <2>2 DEF Least, Greatest
  <2> HIDE DEF amount
  <2> QED
    BY <1>0, <1>1, <2>3
<1>3. total \in Amount
  <2> HIDE DEF total
  <2> QED
    BY <1>0, <1>2, AmountIsNat
<1> HIDE DEF amount
<1>4. /\ e \in Entry /\ e.key = "reverse" /\ e.cycle = t /\ e.op = o
      /\ e.credits = -amount /\ e.total = total
      /\ event \in Event /\ event.op = o /\ event.credits = -amount /\ event.total = total
  BY <1>0, <1>2, <1>3 DEF Entry, EntryKey, Event
<1>5. /\ \A d \in ledger : d.op = o /\ d.key = "reverse" => d.total <= op[o].reversed
      /\ \A d \in outbox : d.op = o => d.total <= op[o].reversed
  BY DEF SInv, RowsFit, EntriesFit, EventsFit, EntriesOf, EventsOf
<1>6. ledger' = ledger \cup {e} /\ e \notin ledger
  <2>1. \A d \in ledger : ~(d.key = e.key /\ d.op = e.op /\ d.total = e.total)
    BY <1>0, <1>2, <1>4, <1>5
  <2> HIDE DEF e
  <2> QED
    BY <1>1, <2>1, Posted
<1>7. /\ event \notin outbox
      /\ outbox' = IF sub.status = "none" THEN outbox ELSE outbox \cup {event}
  <2>1. \A d \in outbox : ~(d.op = event.op /\ d.total = event.total)
    BY <1>0, <1>2, <1>4, <1>5
  <2> HIDE DEF event
  <2>2. Queue(outbox, event) = outbox \cup {event} /\ event \notin outbox
    BY <2>1, Queued
  <2> QED
    BY <1>1, <2>2
<1>8. FiniteBooks'
  BY <1>6, <1>7, FS_AddElement DEF SInv, FiniteBooks
<1>9. op'[o] = new /\ \A p \in Operation \ {o} : op'[p] = op[p]
  BY <1>0, <1>1 DEF IInv, Shapes
<1>10. RowsFit'
  <2>1. /\ op'[o].reversed = total /\ op'[o].status \in {"settled", "reversed"}
        /\ op[o].reversed <= total
    BY <1>0, <1>2, <1>9
  <2>2. EntriesFit(o)'
    <3>1. \A d \in EntriesOf(o)' : d.key = "reverse" => d.total <= op[o].reversed \/ d.total = total
      BY <1>4, <1>5, <1>6 DEF EntriesOf
    <3>2. \A d \in EntriesOf(o)' : d.total \in Nat
      BY <1>0, AmountIsNat DEF EntriesOf, IInv, Shapes, Entry
    <3> HIDE DEF total
    <3> QED
      BY <1>0, <1>2, <2>1, <3>1, <3>2 DEF EntriesFit
  <2>3. EventsFit(o)'
    <3>1. \A d \in EventsOf(o)' : d.total <= op[o].reversed \/ d.total = total
      BY <1>4, <1>5, <1>7 DEF EventsOf
    <3>2. \A d \in EventsOf(o)' : d.total \in Nat
      BY <1>0, AmountIsNat DEF EventsOf, IInv, Shapes, Event
    <3> HIDE DEF total
    <3> QED
      BY <1>0, <1>2, <2>1, <3>1, <3>2 DEF EventsFit
  <2>4. \A p \in Operation \ {o} :
          {d \in ledger' : d.op = p} = {d \in ledger : d.op = p}
          /\ {d \in outbox' : d.op = p} = {d \in outbox : d.op = p}
    BY <1>4, <1>6, <1>7
  <2> QED
    BY <1>9, <2>2, <2>3, <2>4, OtherRowsFit
<1>11. SubscribedFirst /\ SubscribedFirst'
  BY <1>1, <1>9 DEF SInv, SubscribedFirst
<1>12. \A u \in Time :
         /\ cycle'[u].reserved = cycle[u].reserved
         /\ cycle'[u].settled = cycle[u].settled
         /\ cycle'[u].reversed = cycle[u].reversed + IF u = t THEN amount ELSE 0
  <2>1. \A u \in Time : cycle'[u] = IF u = t THEN row ELSE cycle[u]
    BY <1>0, <1>1 DEF IInv, Shapes
  <2>2. /\ row.reserved = cycle[t].reserved
        /\ row.settled = cycle[t].settled /\ row.reversed = cycle[t].reversed + amount
    BY <1>0 DEF IInv, Shapes, CycleRow
  <2>3. \A u \in Time : cycle[u].reversed \in Int
    BY <1>0, CycleNumbers
  <2> HIDE DEF row
  <2> QED
    BY <2>1, <2>2, <2>3
<1>13. CountersMatchOperations'
  <2>1. /\ op'[o].status # "none" /\ op'[o].status # "reserved" /\ op'[o].cycle = t
        /\ op'[o].settled = op[o].settled /\ op'[o].reversed = total
    BY <1>9
  <2>2. \A u \in Time :
          /\ HeldBy(u, o) = 0 /\ HeldBy(u, o)' = 0
          /\ SettledBy(u, o)' = SettledBy(u, o) /\ SettledBy(u, o) \in Int
          /\ ReversedBy(u, o) = (IF u = t THEN op[o].reversed ELSE 0)
          /\ ReversedBy(u, o)' = IF u = t THEN total ELSE 0
    <3> HIDE DEF total
    <3> QED
      BY <1>0, <1>1, <2>1 DEF HeldBy, SettledBy, ReversedBy
  <2>3. \A u \in Time :
          cycle[u].reserved \in Int /\ cycle[u].settled \in Int /\ cycle[u].reversed \in Int
    BY <1>0, CycleNumbers
  <2>4. \A u \in Time :
          /\ cycle'[u].reserved = cycle[u].reserved - HeldBy(u, o) + HeldBy(u, o)'
          /\ cycle'[u].settled = cycle[u].settled - SettledBy(u, o) + SettledBy(u, o)'
          /\ cycle'[u].reversed = cycle[u].reversed - ReversedBy(u, o) + ReversedBy(u, o)'
    BY <1>0, <1>2, <1>12, <2>2, <2>3
  <2> QED
    BY <1>0, <1>9, <2>4, OneOperation
<1>14. LedgerExplainsCycle'
  <2> SUFFICES ASSUME NEW u \in Time PROVE Committed(cycle'[u]) = EntrySum(ledger', u)
    BY DEF LedgerExplainsCycle
  <2>1. /\ EntrySum(ledger, u) \in Int
        /\ EntrySum(ledger \cup {e}, u)
             = EntrySum(ledger, u) + IF e.cycle = u THEN e.credits ELSE 0
    <3>1. ledger \in SUBSET Entry /\ IsFiniteSet(ledger)
      BY DEF SInv, IInv, Shapes, FiniteBooks
    <3>2. e.key # "reserve" /\ e.key # "settle"
      BY <1>4
    <3> HIDE DEF e
    <3> QED
      BY <1>4, <1>6, <3>1, <3>2, EntryAdded
  <2>2. Committed(cycle'[u]) = Committed(cycle[u]) - IF u = t THEN amount ELSE 0
    BY <1>0, <1>2, <1>12, CycleNumbers DEF Committed
  <2>3. Committed(cycle[u]) = EntrySum(ledger, u)
    BY DEF SInv, Sums, LedgerExplainsCycle
  <2> HIDE DEF e
  <2> QED
    BY <1>0, <1>2, <1>4, <1>6, <2>1, <2>2, <2>3
<1>15. EventsMatchCharge'
  <2> SUFFICES ASSUME NEW p \in Operation
               PROVE  IF redacted THEN EventSum(outbox', p) >= op'[p].settled - op'[p].reversed
                      ELSE EventSum(outbox', p) = op'[p].settled - op'[p].reversed
    BY <1>1 DEF EventsMatchCharge
  <2>1. /\ EventSum(outbox, p) \in Int
        /\ IF redacted THEN EventSum(outbox, p) >= op[p].settled - op[p].reversed
           ELSE EventSum(outbox, p) = op[p].settled - op[p].reversed
        /\ op[p].settled \in Nat /\ op[p].reversed \in Nat
    BY EventSumType, OperationNumbers DEF SInv, Sums, EventsMatchCharge
  <2>2. IF p = o
        THEN op'[p].settled = op[p].settled /\ op'[p].reversed = op[p].reversed + amount
        ELSE op'[p].settled = op[p].settled /\ op'[p].reversed = op[p].reversed
    BY <1>9
  <2>3. CASE sub.status = "none"
    <3>1. redacted /\ outbox' = outbox
      BY <1>1, <1>7, <1>11, <2>3 DEF SubscribedFirst
    <3> QED
      BY <1>2, <2>1, <2>2, <3>1
  <2>4. CASE sub.status # "none"
    <3>1. EventSum(outbox', p) = EventSum(outbox, p) + IF event.op = p THEN event.credits ELSE 0
      <4>1. outbox \in SUBSET Event /\ IsFiniteSet(outbox)
        BY DEF SInv, IInv, Shapes, FiniteBooks
      <4> HIDE DEF event
      <4> QED
        BY <1>4, <1>7, <2>4, <4>1, EventAdded
    <3>2. EventSum(outbox', p) = EventSum(outbox, p) - IF p = o THEN amount ELSE 0
      BY <1>2, <1>4, <2>1, <3>1
    <3> QED
      BY <1>2, <2>1, <2>2, <3>2
  <2> QED
    BY <2>3, <2>4
<1> QED
  BY <1>0, <1>8, <1>10, <1>11, <1>13, <1>14, <1>15 DEF SInv, Sums

-----------------------------------------------------------------------------
(* The steps that move none.                                               *)

\* A step that changes no counter, no operation, no entry and no event.
LEMMA CountersKept ==
  ASSUME SInv, IInv', UNCHANGED <<op, ledger, outbox>>, SubscribedFirst',
         redacted => redacted',
         \A t \in Time : /\ cycle'[t].reserved = cycle[t].reserved
                         /\ cycle'[t].settled = cycle[t].settled
                         /\ cycle'[t].reversed = cycle[t].reversed
  PROVE  SInv'
<1>1. FiniteBooks' /\ RowsFit'
  BY DEF SInv, FiniteBooks, RowsFit, EntriesFit, EventsFit, EntriesOf, EventsOf, Reservation
<1>2. CountersMatchOperations'
  <2>1. \A t \in Time : Held(t)' = Held(t) /\ Charged(t)' = Charged(t)
    BY DEF Held, Charged
  <2> QED
    BY <2>1 DEF SInv, Sums, CountersMatchOperations
<1>3. LedgerExplainsCycle'
  BY DEF SInv, Sums, LedgerExplainsCycle, Committed
<1>4. EventsMatchCharge'
  <2> SUFFICES ASSUME NEW o \in Operation
               PROVE  IF redacted' THEN EventSum(outbox, o) >= op[o].settled - op[o].reversed
                      ELSE EventSum(outbox, o) = op[o].settled - op[o].reversed
    BY DEF EventsMatchCharge
  <2>1. /\ EventSum(outbox, o) \in Int
        /\ IF redacted THEN EventSum(outbox, o) >= op[o].settled - op[o].reversed
           ELSE EventSum(outbox, o) = op[o].settled - op[o].reversed
        /\ op[o].settled \in Nat /\ op[o].reversed \in Nat
    BY EventSumType, OperationNumbers DEF SInv, Sums, EventsMatchCharge
  <2>2. redacted \in BOOLEAN /\ redacted' \in BOOLEAN
    BY DEF SInv, IInv, Shapes
  <2> QED
    BY <2>1, <2>2
<1> QED
  BY <1>1, <1>2, <1>3, <1>4 DEF SInv, Sums

\* The limit, the summary and the clock move no credits.
LEMMA CycleSums ==
  ASSUME SInv, LimitOverage \/ Summarise \/ Tick
  PROVE  SInv'
<1>1. IInv'
  BY CycleStep, SubscriptionStep DEF SInv, LimitOverage
<1>2. UNCHANGED <<op, ledger, outbox, redacted>> /\ sub'.status = sub.status
  BY DEF SInv, IInv, Shapes, Subscription, LimitOverage, SetOverageLimit, Summarise, Tick, books
<1>3. SubscribedFirst'
  BY <1>2 DEF SInv, SubscribedFirst
<1>4. \A t \in Time : /\ cycle'[t].reserved = cycle[t].reserved
                      /\ cycle'[t].settled = cycle[t].settled
                      /\ cycle'[t].reversed = cycle[t].reversed
  <2>1. CASE Tick
    BY <2>1 DEF Tick, books
  <2>2. CASE LimitOverage \/ Summarise
    <3> DEFINE s == sub.start
               c == Ensured(s)
    <3>1. /\ s \in Time /\ c \in CycleRow /\ c.reserved = cycle[s].reserved
          /\ c.settled = cycle[s].settled /\ c.reversed = cycle[s].reversed
      BY EnsuredRow DEF SInv, IInv, Shapes, Subscription
    <3>2. PICK row : /\ cycle' = [cycle EXCEPT ![s] = row] /\ row.reserved = c.reserved
                     /\ row.settled = c.settled /\ row.reversed = c.reversed
      <4>1. CASE Summarise
        BY <4>1 DEF Summarise
      <4>2. CASE LimitOverage
        <5>1. PICK l \in Limits : cycle' = [cycle EXCEPT ![s] = [c EXCEPT !.limit = l]]
          BY <4>2 DEF LimitOverage, SetOverageLimit
        <5> DEFINE row == [c EXCEPT !.limit = l]
        <5>2. row.reserved = c.reserved /\ row.settled = c.settled /\ row.reversed = c.reversed
          <6> HIDE DEF c
          <6> QED
            BY <3>1 DEF CycleRow
        <5> HIDE DEF row, c
        <5> QED
          BY <5>1, <5>2 DEF row
      <4> QED
        BY <2>2, <4>1, <4>2
    <3> HIDE DEF c
    <3> QED
      BY <3>1, <3>2 DEF SInv, IInv, Shapes
  <2> QED
    BY <2>1, <2>2
<1> QED
  BY <1>1, <1>2, <1>3, <1>4, CountersKept

\* A refresh never leaves a shop without the row it has; only a redaction does.
LEMMA SubscriptionSums ==
  ASSUME SInv,
         \/ SyncSubscription \/ RedactShop
         \/ \E r \in Request : \/ BeginRefresh(r) \/ RefreshActive(r)
                               \/ RefreshInactive(r) \/ RefreshFails(r)
  PROVE  SInv'
<1>1. IInv'
  BY SubscriptionStep DEF SInv
<1>2. UNCHANGED books /\ (redacted => redacted')
  BY DEF SyncSubscription, RedactShop, BeginRefresh, RefreshActive, RefreshInactive,
     RefreshFails
<1>3. SubscribedFirst'
  <2>1. redacted' \/ sub'.status = sub.status \/ sub'.status # "none"
    BY DEF SyncSubscription, RedactShop, BeginRefresh, RefreshActive, RefreshInactive,
       RefreshFails
  <2> QED
    BY <1>2, <2>1 DEF SInv, SubscribedFirst, books
<1> QED
  BY <1>1, <1>2, <1>3, CountersKept DEF books

-----------------------------------------------------------------------------
(* The theorems.                                                           *)

\* Empty books add up to nothing.
LEMMA SumsBegin == Init => SInv
<1> SUFFICES ASSUME Init PROVE SInv
  OBVIOUS
<1>1. IInv
  BY Begin
<1>2. FiniteBooks
  BY FS_EmptySet DEF Init, FiniteBooks
<1>3. RowsFit /\ SubscribedFirst
  BY DEF Init, RowsFit, EntriesFit, EventsFit, EntriesOf, EventsOf, SubscribedFirst
<1>4. CountersMatchOperations
  <2>1. \A t \in Time : Charged(t) = {} /\ Held(t) = {}
    BY DEF Init, Charged, Held
  <2> QED
    BY <2>1, TotalEmpty DEF Init, CountersMatchOperations
<1>5. LedgerExplainsCycle
  <2>1. \A t \in Time : Counted(ledger, t) = {}
    BY DEF Init, Counted
  <2>2. \A t \in Time : EntrySum(ledger, t) = 0
    BY <2>1, TotalEmpty DEF EntrySum
  <2>3. \A t \in Time : Committed(cycle[t]) = 0
    BY DEF Init, Committed
  <2> QED
    BY <2>2, <2>3 DEF LedgerExplainsCycle
<1>6. EventsMatchCharge
  <2>1. \A o \in Operation : {e \in outbox : e.op = o} = {}
    BY DEF Init
  <2>2. \A o \in Operation : EventSum(outbox, o) = 0
    BY <2>1, TotalEmpty DEF EventSum
  <2> QED
    BY <2>2 DEF Init, EventsMatchCharge
<1> QED
  BY <1>1, <1>2, <1>3, <1>4, <1>5, <1>6 DEF SInv, Sums

\* Every step keeps the sums.
LEMMA SumsStep == SInv /\ [Next]_vars => SInv'
<1> SUFFICES ASSUME SInv, [Next]_vars PROVE SInv'
  OBVIOUS
<1>1. CASE UNCHANGED vars
  <2>1. IInv'
    BY <1>1, Step DEF SInv
  <2>2. SubscribedFirst'
    BY <1>1 DEF SInv, SubscribedFirst, vars, books
  <2> QED
    BY <1>1, <2>1, <2>2, CountersKept DEF vars, books
<1>2. ASSUME NEW o \in Operation,
             ReserveCredits(o) \/ SettleCredits(o) \/ Release(o) \/ ReverseCredits(o)
      PROVE  SInv'
  BY <1>2, ReserveSums, SettleInCycleSums, SettleAfterRolloverSums, ReleaseSums, ReverseSums
  DEF ReserveCredits, SettleCredits, ReverseCredits
<1>3. CASE LimitOverage \/ Summarise \/ Tick
  BY <1>3, CycleSums
<1>4. CASE \/ SyncSubscription \/ RedactShop
           \/ \E r \in Request : \/ BeginRefresh(r) \/ RefreshActive(r)
                                 \/ RefreshInactive(r) \/ RefreshFails(r)
  BY <1>4, SubscriptionSums
<1> QED
  BY <1>1, <1>2, <1>3, <1>4 DEF Next

\* In every state the books add up, and no operation has a row that a later one of
\* it would collide with.
THEOREM SumsInductive == Spec => []SInv
  BY SumsBegin, SumsStep, PTL DEF Spec

\* For any finite set of operations, the counters of a cycle are the sums of the
\* operations charged to it, through rollovers, releases and reversals.
THEOREM CountersAddUp == Spec => []CountersMatchOperations
<1>1. SInv => CountersMatchOperations
  BY DEF SInv, Sums
<1> QED
  BY <1>1, SumsInductive, PTL

\* For any finite set of operations, the ledger explains what is committed to each
\* cycle: no entry is dropped by its idempotency key and none counts twice.
THEOREM LedgerAddsUp == Spec => []LedgerExplainsCycle
<1>1. SInv => LedgerExplainsCycle
  BY DEF SInv, Sums
<1> QED
  BY <1>1, SumsInductive, PTL

\* The usage events of every operation add up to what it was charged net of its
\* reversals; a redaction may lose refunds and nothing else.
THEOREM EventsAddUp == Spec => []EventsMatchCharge
<1>1. SInv => EventsMatchCharge
  BY DEF SInv, Sums
<1> QED
  BY <1>1, SumsInductive, PTL
=============================================================================
