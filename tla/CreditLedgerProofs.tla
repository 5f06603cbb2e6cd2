------------------------- MODULE CreditLedgerProofs -------------------------
(***************************************************************************)
(* Safety of CreditLedger for every set of operations, requests and plans, *)
(* every limit and amount and every number of cycles.                      *)
(*                                                                         *)
(* That a settlement or a reversal commits nothing new rests on what an    *)
(* operation records: it settles at most what it reserved and reverses at  *)
(* most what it settled.                                                   *)
(***************************************************************************)
EXTENDS CreditLedger, TLAPS

IInv == Shapes /\ ChargeWithinQuote

-----------------------------------------------------------------------------
(* The helpers.                                                            *)

\* Credits are natural numbers, and less than an amount is an amount.
LEMMA AmountIsNat ==
  /\ Amount \subseteq Nat /\ Usage \subseteq Nat
  /\ \A m \in Nat, n \in Amount : m <= n => m \in Amount
  BY AmountAssumption DEF Amount, Usage

\* A settlement charges between nothing and the reservation.
LEMMA ChargeRange ==
  ASSUME IInv, NEW o \in Operation, NEW actual \in Usage
  PROVE  Charge(o, actual) \in Nat /\ Charge(o, actual) <= op[o].reserved
<1>1. op[o].reserved \in Nat /\ actual \in Nat
  BY AmountIsNat DEF IInv, Shapes, OperationRow
<1> QED
  BY <1>1 DEF Charge, Least, Greatest

\* Bringing a cycle up to date keeps its counters.
LEMMA EnsuredRow ==
  ASSUME IInv, NEW t \in Time
  PROVE  /\ Ensured(t) \in CycleRow
         /\ Ensured(t).reserved = cycle[t].reserved
         /\ Ensured(t).settled = cycle[t].settled
         /\ Ensured(t).reversed = cycle[t].reversed
  BY PlanAssumption DEF IInv, Shapes, CycleRow, Subscription, Ensured

\* What a cycle row commits and what it can are numbers.
LEMMA RowNumbers ==
  ASSUME NEW c \in CycleRow
  PROVE  Capacity(c) \in Int /\ Committed(c) \in Int
<1>1. /\ c.included \in Nat /\ c.limit \in Limits \cup {0}
      /\ c.reserved \in Int /\ c.settled \in Int /\ c.reversed \in Int
  BY DEF CycleRow
<1>2. c.limit \in Nat
  <2>1. Limits \cup {0} \subseteq Nat
    BY AmountAssumption
  <2> QED
    BY <1>1, <2>1
<1>3. Capacity(c) \in Int
  BY <1>1, <1>2 DEF Capacity
<1>4. Committed(c) \in Int
  BY <1>1 DEF Committed
<1> QED
  BY <1>3, <1>4

\* A reservation becomes a charge.
LEMMA ChargedRow ==
  ASSUME NEW c \in CycleRow, NEW held \in Int, NEW amount \in Int
  PROVE  LET row == [c EXCEPT !.reserved = c.reserved - held, !.settled = c.settled + amount]
         IN row \in CycleRow /\ Committed(row) = Committed(c) + (amount - held)
<1> DEFINE row == [c EXCEPT !.reserved = c.reserved - held, !.settled = c.settled + amount]
<1>1. /\ c.included \in Nat /\ c.limit \in Limits \cup {0}
      /\ c.reserved \in Int /\ c.settled \in Int /\ c.reversed \in Int
  BY DEF CycleRow
<1>2. row \in CycleRow
  <2>1. c.reserved - held \in Int /\ c.settled + amount \in Int
    BY <1>1
  <2>2. [c EXCEPT !.reserved = c.reserved - held] \in CycleRow
    BY <1>1, <2>1 DEF CycleRow
  <2> QED
    BY <2>1, <2>2 DEF CycleRow
<1>3. /\ row.reserved = c.reserved - held /\ row.settled = c.settled + amount
      /\ row.reversed = c.reversed
  BY DEF CycleRow
<1>4. Committed(row) = Committed(c) + (amount - held)
  BY <1>1, <1>3 DEF Committed
<1> QED
  BY <1>2, <1>4

\* A step that writes one cycle, and commits no more than fits there.
LEMMA OneCycle ==
  ASSUME IInv, NEW t \in Time, NEW row \in CycleRow, cycle' = [cycle EXCEPT ![t] = row],
         Committed(row) > Committed(cycle[t]) => Committed(row) <= Capacity(row)
  PROVE  cycle' \in [Time -> CycleRow] /\ CommitsFit
<1>1. cycle' \in [Time -> CycleRow] /\ cycle'[t] = row
      /\ \A u \in Time \ {t} : cycle'[u] = cycle[u]
  BY DEF IInv, Shapes
<1>2. \A u \in Time : Committed(cycle[u]) \in Int
  BY DEF IInv, Shapes, CycleRow, Committed
<1>3. \A u \in Time \ {t} : ~(Committed(cycle'[u]) > Committed(cycle[u]))
  BY <1>1, <1>2
<1> QED
  BY <1>1, <1>3 DEF CommitsFit

\* Posting an entry keeps the type of the ledger.
LEMMA PostedEntries ==
  ASSUME NEW entries \in SUBSET Entry, NEW e \in Entry
  PROVE  Post(entries, e) \subseteq Entry
  BY DEF Post

\* Queueing an event keeps the type of the outbox.
LEMMA QueuedEvents ==
  ASSUME NEW events \in SUBSET Event, NEW e \in Event
  PROVE  Queue(events, e) \subseteq Event
  BY DEF Queue

-----------------------------------------------------------------------------
(* The steps that move credits.                                            *)

\* A reservation commits what it adds, and that fits.
LEMMA ReserveStep ==
  ASSUME IInv, NEW o \in Operation, NEW n \in Amount, Reserve(o, n)
  PROVE  IInv' /\ CommitsFit
<1> DEFINE t == sub.start
           c == Ensured(t)
           row == [c EXCEPT !.reserved = c.reserved + n]
           new == [status |-> "reserved", cycle |-> t,
                   reserved |-> n, settled |-> 0, reversed |-> 0]
           e == [key |-> "reserve", op |-> o, total |-> 0, cycle |-> t, credits |-> n]
<1>1. t \in Time
  BY DEF IInv, Shapes, Subscription
<1>2. /\ c \in CycleRow /\ c.reserved = cycle[t].reserved
      /\ c.settled = cycle[t].settled /\ c.reversed = cycle[t].reversed
  BY <1>1, EnsuredRow
<1>3. n \in Nat /\ 0 \in Amount
  BY AmountIsNat, AmountAssumption DEF Amount
<1>4. row \in CycleRow /\ Committed(row) = Committed(c) + n /\ Capacity(row) = Capacity(c)
  BY <1>2, <1>3 DEF CycleRow, Committed, Capacity
<1>5. cycle' = [cycle EXCEPT ![t] = row] /\ Committed(c) + n <= Capacity(c)
  <2>1. cycle' = [cycle EXCEPT ![t] = row] /\ n <= Capacity(c) - Committed(c)
    BY DEF Reserve, Available
  <2>2. Capacity(c) \in Int /\ Committed(c) \in Int
    BY <1>2, RowNumbers
  <2> QED
    BY <1>3, <2>1, <2>2
<1>6. cycle' \in [Time -> CycleRow] /\ CommitsFit
  BY <1>1, <1>4, <1>5, OneCycle
<1>7. new \in OperationRow
  BY <1>1, <1>3 DEF OperationRow
<1>8. op' \in [Operation -> OperationRow] /\ ChargeWithinQuote'
  BY <1>3, <1>7 DEF Reserve, IInv, Shapes, ChargeWithinQuote
<1>9. ledger' \subseteq Entry
  <2>1. e \in Entry
    BY <1>1, <1>3 DEF Entry, EntryKey
  <2> QED
    BY <2>1, PostedEntries DEF Reserve, IInv, Shapes
<1> QED
  BY <1>6, <1>8, <1>9 DEF Reserve, IInv, Shapes

\* What both settlements do to the operation and the outbox.
LEMMA SettledRows ==
  ASSUME IInv, NEW o \in Operation, op[o].status = "reserved", NEW t \in Time,
         NEW amount \in Nat, amount <= op[o].reserved, Settled(o, t, amount)
  PROVE  /\ op' \in [Operation -> OperationRow] /\ ChargeWithinQuote'
         /\ outbox' \subseteq Event /\ SettleEntry(o, t, amount) \in Entry
<1> DEFINE row == [status |-> "settled", cycle |-> t, reserved |-> op[o].reserved,
                   settled |-> amount, reversed |-> op[o].reversed]
<1>1. /\ op[o].reserved \in Amount /\ op[o].reversed \in Amount
      /\ op[o].reversed \in Nat /\ amount \in Amount /\ 0 \in Amount
  BY AmountIsNat, AmountAssumption DEF IInv, Shapes, OperationRow, Amount
<1>2. op[o].reversed = 0
  BY <1>1 DEF IInv, ChargeWithinQuote
<1>3. row \in OperationRow
  BY <1>1 DEF OperationRow
<1>4. op' = [op EXCEPT ![o] = row]
  BY DEF Settled
<1>5. op' \in [Operation -> OperationRow] /\ ChargeWithinQuote'
  BY <1>2, <1>3, <1>4 DEF IInv, Shapes, ChargeWithinQuote
<1>6. [op |-> o, total |-> 0, credits |-> amount] \in Event
  BY <1>1 DEF Event
<1>7. outbox' \subseteq Event
  BY <1>6, QueuedEvents DEF Settled, IInv, Shapes
<1>8. SettleEntry(o, t, amount) \in Entry
  BY <1>1 DEF SettleEntry, Entry, EntryKey
<1> QED
  BY <1>5, <1>7, <1>8

\* A settlement within its cycle charges at most what it stops holding.
LEMMA SettleInCycleStep ==
  ASSUME IInv, NEW o \in Operation, NEW actual \in Usage, SettleInCycle(o, actual)
  PROVE  IInv' /\ CommitsFit
<1> DEFINE t == op[o].cycle
           c == IF Ended(t) THEN Ensured(t) ELSE cycle[t]
           amount == Charge(o, actual)
           row == [c EXCEPT !.reserved = c.reserved - op[o].reserved,
                            !.settled = c.settled + amount]
<1>1. t \in Time /\ op[o].reserved \in Nat
  BY AmountIsNat DEF IInv, Shapes, OperationRow
<1>2. /\ c \in CycleRow /\ c.reserved = cycle[t].reserved
      /\ c.settled = cycle[t].settled /\ c.reversed = cycle[t].reversed
  BY <1>1, EnsuredRow DEF IInv, Shapes
<1>3. amount \in Nat /\ amount <= op[o].reserved
  BY ChargeRange
<1>4. /\ row \in CycleRow /\ Committed(cycle[t]) \in Int
      /\ Committed(row) = Committed(cycle[t]) + (amount - op[o].reserved)
  <2>1. row \in CycleRow /\ Committed(row) = Committed(c) + (amount - op[o].reserved)
    <3>1. op[o].reserved \in Int /\ amount \in Int /\ c \in CycleRow
      BY <1>1, <1>2, <1>3
    <3> HIDE DEF c, amount
    <3> QED
      BY <3>1, ChargedRow
  <2>2. Committed(c) = Committed(cycle[t])
    BY <1>2 DEF Committed
  <2>3. Committed(cycle[t]) \in Int
    BY <1>1, RowNumbers DEF IInv, Shapes
  <2> QED
    BY <2>1, <2>2, <2>3
<1>5. ~(Committed(row) > Committed(cycle[t]))
  BY <1>1, <1>3, <1>4
<1>6. /\ op[o].status = "reserved" /\ cycle' = [cycle EXCEPT ![t] = row]
      /\ ledger' = Post(ledger, SettleEntry(o, t, amount)) /\ Settled(o, t, amount)
  BY DEF SettleInCycle
<1>7. cycle' \in [Time -> CycleRow] /\ CommitsFit
  BY <1>1, <1>4, <1>5, <1>6, OneCycle
<1>8. /\ op' \in [Operation -> OperationRow] /\ ChargeWithinQuote'
      /\ outbox' \subseteq Event /\ SettleEntry(o, t, amount) \in Entry
  BY <1>1, <1>3, <1>6, SettledRows
<1>9. ledger' \subseteq Entry
  BY <1>6, <1>8, PostedEntries DEF IInv, Shapes
<1> QED
  BY <1>6, <1>7, <1>8, <1>9 DEF Settled, IInv, Shapes

\* The one step that writes two cycles: the old one is relieved, and what the
\* current one takes fits in what is left of it.
LEMMA SettleAfterRolloverStep ==
  ASSUME IInv, NEW o \in Operation, NEW actual \in Usage, SettleAfterRollover(o, actual)
  PROVE  IInv' /\ CommitsFit
<1> DEFINE old == op[o].cycle
           t == sub.start
           c == Ensured(t)
           room == Greatest(0, Available(c))
           amount == Least(Charge(o, actual), room)
           from == [cycle[old] EXCEPT !.reserved = cycle[old].reserved - op[o].reserved]
           to == [c EXCEPT !.settled = c.settled + amount]
           left == [key |-> "rollover-release", op |-> o, total |-> 0,
                    cycle |-> old, credits |-> -op[o].reserved]
<1>1. t \in Time /\ old \in Time /\ op[o].reserved \in Nat
  BY AmountIsNat DEF IInv, Shapes, OperationRow, Subscription
<1>2. /\ c \in CycleRow /\ c.reserved = cycle[t].reserved
      /\ c.settled = cycle[t].settled /\ c.reversed = cycle[t].reversed
  BY <1>1, EnsuredRow
<1>3. Charge(o, actual) \in Nat /\ Charge(o, actual) <= op[o].reserved
  BY ChargeRange
<1>4. Capacity(c) \in Int /\ Committed(c) \in Int
  BY <1>2, RowNumbers
<1>5. /\ amount \in Nat /\ amount <= op[o].reserved
      /\ amount > 0 => Committed(c) + amount <= Capacity(c)
  BY <1>1, <1>3, <1>4 DEF Available, Least, Greatest
<1>6. /\ to \in CycleRow /\ Committed(to) = Committed(c) + amount
      /\ Capacity(to) = Capacity(c) /\ Committed(c) = Committed(cycle[t])
  BY <1>2, <1>5 DEF CycleRow, Committed, Capacity
<1>7. /\ from \in CycleRow /\ Committed(cycle[old]) \in Int
      /\ Committed(from) = Committed(cycle[old]) - op[o].reserved
  BY <1>1 DEF IInv, Shapes, CycleRow, Committed
<1>8. /\ op[o].status = "reserved" /\ t # old
      /\ cycle' = [cycle EXCEPT ![old] = from, ![t] = to]
      /\ ledger' = Post(Post(ledger, left), SettleEntry(o, t, amount))
      /\ Settled(o, t, amount)
  BY DEF SettleAfterRollover
<1>9. /\ cycle' \in [Time -> CycleRow] /\ cycle'[old] = from /\ cycle'[t] = to
      /\ \A u \in Time \ {old, t} : cycle'[u] = cycle[u]
  BY <1>1, <1>6, <1>7, <1>8 DEF IInv, Shapes
<1>10. \A u \in Time : Committed(cycle[u]) \in Int
  BY DEF IInv, Shapes, CycleRow, Committed
<1>11. CommitsFit
  <2> SUFFICES ASSUME NEW u \in Time, Committed(cycle'[u]) > Committed(cycle[u])
               PROVE  Committed(cycle'[u]) <= Capacity(cycle'[u])
    BY DEF CommitsFit
  <2>1. u # old
    BY <1>1, <1>7, <1>9
  <2>2. u = t
    BY <1>9, <1>10, <2>1
  <2>3. amount > 0
    BY <1>4, <1>5, <1>6, <1>9, <2>2
  <2> QED
    BY <1>5, <1>6, <1>9, <2>2, <2>3
<1>12. /\ op' \in [Operation -> OperationRow] /\ ChargeWithinQuote'
       /\ outbox' \subseteq Event /\ SettleEntry(o, t, amount) \in Entry
  BY <1>1, <1>5, <1>8, SettledRows
<1>13. left \in Entry
  BY <1>1, AmountAssumption DEF Entry, EntryKey, Amount
<1>14. ledger' \subseteq Entry
  BY <1>8, <1>12, <1>13, PostedEntries DEF IInv, Shapes
<1> QED
  BY <1>8, <1>9, <1>11, <1>12, <1>14 DEF Settled, IInv, Shapes

\* A release commits nothing.
LEMMA ReleaseStep ==
  ASSUME IInv, NEW o \in Operation, Release(o)
  PROVE  IInv' /\ CommitsFit
<1> DEFINE t == op[o].cycle
           row == [cycle[t] EXCEPT !.reserved = cycle[t].reserved - op[o].reserved]
           e == [key |-> "release", op |-> o, total |-> 0,
                 cycle |-> t, credits |-> -op[o].reserved]
<1>1. t \in Time /\ op[o].reserved \in Nat
  BY AmountIsNat DEF IInv, Shapes, OperationRow
<1>2. /\ row \in CycleRow /\ Committed(cycle[t]) \in Int
      /\ Committed(row) = Committed(cycle[t]) - op[o].reserved
  BY <1>1 DEF IInv, Shapes, CycleRow, Committed
<1>3. cycle' \in [Time -> CycleRow] /\ CommitsFit
  <2>1. cycle' = [cycle EXCEPT ![t] = row]
    BY DEF Release
  <2>2. ~(Committed(row) > Committed(cycle[t]))
    BY <1>1, <1>2
  <2> QED
    BY <1>1, <1>2, <2>1, <2>2, OneCycle
<1>4. op' \in [Operation -> OperationRow] /\ ChargeWithinQuote'
  BY DEF Release, IInv, Shapes, ChargeWithinQuote, OperationRow
<1>5. e \in Entry
  BY <1>1, AmountAssumption DEF Entry, EntryKey, Amount
<1>6. ledger' \subseteq Entry
  BY <1>5, PostedEntries DEF Release, IInv, Shapes
<1> QED
  BY <1>3, <1>4, <1>6 DEF Release, IInv, Shapes

\* A reversal commits nothing and gives back at most what was settled.
LEMMA ReverseStep ==
  ASSUME IInv, NEW o \in Operation, NEW credits \in Amount, Reverse(o, credits)
  PROVE  IInv' /\ CommitsFit
<1> DEFINE t == op[o].cycle
           amount == Least(Greatest(0, credits), op[o].settled - op[o].reversed)
           total == op[o].reversed + amount
           row == [cycle[t] EXCEPT !.reversed = cycle[t].reversed + amount]
           new == [status |-> IF total = op[o].settled THEN "reversed" ELSE "settled",
                   cycle |-> t, reserved |-> op[o].reserved,
                   settled |-> op[o].settled, reversed |-> total]
           e == [key |-> "reverse", op |-> o, total |-> total, cycle |-> t, credits |-> -amount]
           event == [op |-> o, total |-> total, credits |-> -amount]
<1>1. /\ t \in Time /\ op[o].reserved \in Amount /\ op[o].settled \in Amount
      /\ op[o].settled \in Nat /\ op[o].reversed \in Nat /\ credits \in Nat
  BY AmountIsNat DEF IInv, Shapes, OperationRow
<1>2. op[o].reversed <= op[o].settled
  BY DEF IInv, ChargeWithinQuote
<1>3. amount \in Nat /\ total \in Nat /\ total <= op[o].settled
  BY <1>1, <1>2 DEF Least, Greatest
<1>4. total \in Amount
  BY <1>1, <1>3, AmountIsNat
<1>5. /\ row \in CycleRow /\ Committed(cycle[t]) \in Int
      /\ Committed(row) = Committed(cycle[t]) - amount
  BY <1>1, <1>3 DEF IInv, Shapes, CycleRow, Committed
<1>6. cycle' = [cycle EXCEPT ![t] = row] /\ op' = [op EXCEPT ![o] = new]
  BY DEF Reverse
<1>7. cycle' \in [Time -> CycleRow] /\ CommitsFit
  <2>1. ~(Committed(row) > Committed(cycle[t]))
    BY <1>3, <1>5
  <2> QED
    BY <1>1, <1>5, <1>6, <2>1, OneCycle
<1>8. new \in OperationRow
  BY <1>1, <1>4 DEF OperationRow
<1>9. op' \in [Operation -> OperationRow] /\ ChargeWithinQuote'
  BY <1>3, <1>6, <1>8 DEF IInv, Shapes, ChargeWithinQuote
<1>10. e \in Entry /\ event \in Event
  BY <1>1, <1>3, <1>4 DEF Entry, EntryKey, Event
<1>11. ledger' \subseteq Entry
  BY <1>10, PostedEntries DEF Reverse, IInv, Shapes
<1>12. outbox' \subseteq Event
  BY <1>10, QueuedEvents DEF Reverse, IInv, Shapes
<1> QED
  BY <1>7, <1>9, <1>11, <1>12 DEF Reverse, IInv, Shapes

\* The limit and the summary bring the current cycle up to date: nothing is
\* committed.
LEMMA CycleStep ==
  ASSUME IInv, (\E l \in Limits : SetOverageLimit(l)) \/ Summarise
  PROVE  IInv' /\ CommitsFit
<1> DEFINE t == sub.start
           c == Ensured(t)
<1>1. t \in Time
  BY DEF IInv, Shapes, Subscription
<1>2. /\ c \in CycleRow /\ Committed(c) = Committed(cycle[t]) /\ Committed(c) \in Int
  BY <1>1, EnsuredRow, RowNumbers DEF Committed
<1>3. CASE Summarise
  <2>1. cycle' \in [Time -> CycleRow] /\ CommitsFit
    <3>1. cycle' = [cycle EXCEPT ![t] = c]
      BY <1>3 DEF Summarise
    <3>2. ~(Committed(c) > Committed(cycle[t]))
      BY <1>2
    <3> QED
      BY <1>1, <1>2, <3>1, <3>2, OneCycle
  <2> QED
    BY <1>3, <2>1 DEF Summarise, IInv, Shapes, ChargeWithinQuote
<1>4. CASE \E l \in Limits : SetOverageLimit(l)
  <2>1. PICK l \in Limits : SetOverageLimit(l)
    BY <1>4
  <2>2. [c EXCEPT !.limit = l] \in CycleRow
        /\ Committed([c EXCEPT !.limit = l]) = Committed(cycle[t])
    BY <1>2 DEF CycleRow, Committed
  <2>3. cycle' \in [Time -> CycleRow] /\ CommitsFit
    <3>1. cycle' = [cycle EXCEPT ![t] = [c EXCEPT !.limit = l]]
      BY <2>1 DEF SetOverageLimit
    <3>2. ~(Committed([c EXCEPT !.limit = l]) > Committed(cycle[t]))
      BY <1>2, <2>2
    <3> QED
      BY <1>1, <2>2, <3>1, <3>2, OneCycle
  <2>4. sub' \in Subscription /\ changes' \in 0..MaxChanges
    BY <2>1, ChangeAssumption DEF SetOverageLimit, Change, IInv, Shapes, Subscription
  <2> QED
    BY <2>1, <2>3, <2>4 DEF SetOverageLimit, IInv, Shapes, ChargeWithinQuote
<1> QED
  BY <1>3, <1>4

-----------------------------------------------------------------------------
(* The steps that move none.                                               *)

\* A step that leaves the books alone commits nothing.
LEMMA BooksKept ==
  ASSUME IInv, UNCHANGED books
  PROVE  CommitsFit /\ ChargeWithinQuote'
<1>1. \A t \in Time : Committed(cycle[t]) \in Int
  BY RowNumbers DEF IInv, Shapes
<1> QED
  BY <1>1 DEF books, CommitsFit, IInv, ChargeWithinQuote

\* A missing subscription and an idle request have their types.
LEMMA NoSubscriptionRow == NoSubscription \in Subscription /\ Idle \in RequestState
  BY PlanAssumption, TimeAssumption DEF NoSubscription, Idle, Subscription, RequestState, Time

\* The steps of the subscription row and of the clock leave the books alone.
LEMMA SubscriptionStep ==
  ASSUME IInv,
         \/ SyncSubscription \/ RedactShop \/ Tick
         \/ \E r \in Request : \/ BeginRefresh(r) \/ RefreshActive(r)
                               \/ RefreshInactive(r) \/ RefreshFails(r)
  PROVE  IInv' /\ CommitsFit
<1>1. UNCHANGED books
  BY DEF SyncSubscription, RedactShop, Tick, BeginRefresh, RefreshActive, RefreshInactive,
     RefreshFails
<1>2. CommitsFit /\ ChargeWithinQuote'
  BY <1>1, BooksKept
<1>3. CASE SyncSubscription \/ RedactShop \/ Tick
  <2>1. sub' \in Subscription
    BY <1>3, NoSubscriptionRow DEF SyncSubscription, RedactShop, Tick, IInv, Shapes, Subscription
  <2>2. now' \in Time
    BY <1>3, TimeAssumption DEF SyncSubscription, RedactShop, Tick, IInv, Shapes, Time
  <2>3. changes' \in 0..MaxChanges
    BY <1>3, ChangeAssumption DEF SyncSubscription, RedactShop, Tick, Change, IInv, Shapes
  <2>4. redacted' \in BOOLEAN /\ UNCHANGED <<request, promised>>
    BY <1>3 DEF SyncSubscription, RedactShop, Tick, IInv, Shapes
  <2> QED
    BY <1>1, <1>2, <2>1, <2>2, <2>3, <2>4 DEF IInv, Shapes, books
<1>4. ASSUME NEW r \in Request,
             \/ BeginRefresh(r) \/ RefreshActive(r) \/ RefreshInactive(r) \/ RefreshFails(r)
      PROVE  IInv'
  <2>1. request' \in [Request -> RequestState]
    <3>1. \E s \in RequestState : request' = [request EXCEPT ![r] = s]
      BY <1>4, NoSubscriptionRow DEF BeginRefresh, RefreshActive, RefreshInactive,
         RefreshFails, Return, IInv, Shapes, RequestState
    <3> QED
      BY <3>1 DEF IInv, Shapes
  <2>2. sub' \in Subscription
    <3>1. /\ now \in Time /\ sub \in Subscription
          /\ request[r].read \in Subscription /\ request[r].plan \in Plan
      BY DEF IInv, Shapes, RequestState
    <3> QED
      BY <1>4, <3>1
      DEF BeginRefresh, RefreshActive, RefreshInactive, RefreshFails, Subscription
  <2>3. changes' \in 0..MaxChanges /\ UNCHANGED <<now, promised, redacted>>
    BY <1>4, ChangeAssumption DEF BeginRefresh, RefreshActive, RefreshInactive, RefreshFails,
       Change, IInv, Shapes
  <2> QED
    BY <1>1, <1>2, <2>1, <2>2, <2>3 DEF IInv, Shapes, books
<1> QED
  BY <1>2, <1>3, <1>4

-----------------------------------------------------------------------------
(* The theorems.                                                           *)

\* A shop starts with empty books.
LEMMA Begin == Init => IInv
<1> SUFFICES ASSUME Init PROVE IInv
  OBVIOUS
<1>1. 0 \in Time /\ 0 \in Amount
  BY TimeAssumption, AmountAssumption DEF Time, Amount
<1>2. cycle \in [Time -> CycleRow] /\ op \in [Operation -> OperationRow]
  BY <1>1 DEF Init, CycleRow, OperationRow
<1>3. /\ now \in Time /\ sub \in Subscription /\ request \in [Request -> RequestState]
      /\ ledger \subseteq Entry /\ outbox \subseteq Event /\ promised \in Limits \cup {0}
  BY <1>1, NoSubscriptionRow DEF Init
<1>4. redacted \in BOOLEAN
  BY DEF Init
<1>5. changes \in 0..MaxChanges
  BY ChangeAssumption DEF Init
<1>6. ChargeWithinQuote
  BY DEF Init, ChargeWithinQuote
<1> QED
  BY <1>2, <1>3, <1>4, <1>5, <1>6 DEF IInv, Shapes

\* Every step keeps the invariant and commits only what fits.
LEMMA Step == IInv /\ [Next]_vars => IInv' /\ CommitsFit
<1> SUFFICES ASSUME IInv, [Next]_vars PROVE IInv' /\ CommitsFit
  OBVIOUS
<1>1. CASE UNCHANGED vars
  BY <1>1, BooksKept DEF vars, books, IInv, Shapes, ChargeWithinQuote
<1>2. ASSUME NEW o \in Operation, ReserveCredits(o) \/ ReverseCredits(o)
      PROVE  IInv' /\ CommitsFit
  BY <1>2, ReserveStep, ReverseStep DEF ReserveCredits, ReverseCredits
<1>3. ASSUME NEW o \in Operation, SettleCredits(o)
      PROVE  IInv' /\ CommitsFit
  BY <1>3, SettleInCycleStep, SettleAfterRolloverStep DEF SettleCredits
<1>4. ASSUME NEW o \in Operation, Release(o)
      PROVE  IInv' /\ CommitsFit
  BY <1>4, ReleaseStep
<1>5. CASE LimitOverage \/ Summarise
  BY <1>5, CycleStep DEF LimitOverage
<1>6. CASE \/ SyncSubscription \/ RedactShop \/ Tick
           \/ \E r \in Request : \/ BeginRefresh(r) \/ RefreshActive(r)
                                 \/ RefreshInactive(r) \/ RefreshFails(r)
  BY <1>6, SubscriptionStep
<1> QED
  BY <1>1, <1>2, <1>3, <1>4, <1>5, <1>6 DEF Next

\* In every state an operation settled at most what it reserved, reversed at most
\* what it settled, and every row has its type.
THEOREM Inductive == Spec => []IInv
<1>1. IInv /\ [Next]_vars => IInv'
  BY Step
<1> QED
  BY Begin, <1>1, PTL DEF Spec

\* Every row of the books keeps its shape, no operation is charged more than it
\* reserved and none is given back more than it was charged, for all plans, limits,
\* amounts and cycles.
THEOREM TypeCorrect == Spec => []TypeOK
<1>1. IInv => TypeOK
  BY DEF IInv, TypeOK
<1> QED
  BY <1>1, Inductive, PTL

\* No step takes the committed credits of a cycle beyond its plan and limit,
\* whatever was refreshed, settled late, released or reversed before.
THEOREM CommitsAreCovered == Spec => CommitsWithinCapacity
<1>1. IInv /\ [Next]_vars => [CommitsFit]_vars
  BY Step
<1> QED
  BY <1>1, Inductive, PTL DEF Spec, CommitsWithinCapacity
=============================================================================
