---------------------------- MODULE CreditLedger ----------------------------
(***************************************************************************)
(* The processing credits of one shop in the "shopify" billing mode: the   *)
(* subscription row that API requests refresh, the billing cycles, the     *)
(* reservations made before a paid operation and settled, released or      *)
(* reversed after it, the ledger and the outbox of usage events.           *)
(*                                                                         *)
(* Each SQL function is one step: it locks the operation and the cycles it *)
(* works on, and an exception undoes it whole.  The refresh of the         *)
(* subscription is two: it reads the row, awaits Shopify, and writes the   *)
(* row back.                                                               *)
(***************************************************************************)
EXTENDS Integers, FiniteSets, Totals

CONSTANTS
  Operation,     \* operation keys: the paid operations
  Request,       \* API requests that refresh the subscription
  Plan,          \* PLANS
  Included,      \* plan_included_credits
  Limits,        \* bound: the overage limits a merchant sets
  MaxAmount,     \* bound: the credits of one reservation
  CycleLength,   \* the length of a billing cycle
  MaxTime,       \* bound: the clock
  MaxChanges     \* bound: the requests that may change the subscription

ASSUME OperationAssumption == IsFiniteSet(Operation)
ASSUME PlanAssumption == Plan # {} /\ Included \in [Plan -> Nat]
ASSUME AmountAssumption == Limits \subseteq Nat /\ MaxAmount \in Nat
ASSUME TimeAssumption == CycleLength \in Nat \ {0} /\ MaxTime \in Nat
ASSUME ChangeAssumption == MaxChanges \in Nat

VARIABLES
  now,       \* the clock
  sub,       \* merchant_subscriptions
  request,   \* the refreshes in progress, each with the row it read
  cycle,     \* billing_cycles, by their starts_at
  op,        \* billing_operations
  ledger,    \* credit_ledger
  outbox,    \* shopify_event_outbox
  promised,  \* history: the overage limit the merchant was told is in force
  redacted,  \* history: the subscription row was deleted
  changes    \* the requests so far that may change the subscription

books == <<cycle, op, ledger, outbox>>
vars == <<now, sub, request, books, promised, redacted, changes>>

Time == 0..MaxTime
Amount == 0..MaxAmount
Usage == 0..(MaxAmount + 1)
Subscription ==
  [status : {"none", "active", "cancelled"}, plan : Plan, start : Time, limit : Limits \cup {0}]
RequestState ==
  [pc : {"idle", "verify"}, read : Subscription, plan : Plan]
CycleRow ==
  [included : Nat, limit : Limits \cup {0}, reserved : Int, settled : Int, reversed : Int]
OperationRow ==
  [status : {"none", "reserved", "settled", "released", "reversed"}, cycle : Time,
   reserved : Amount, settled : Amount, reversed : Amount]
EntryKey == {"reserve", "settle", "release", "rollover-release", "reverse"}
Entry == [key : EntryKey, op : Operation, total : Amount, cycle : Time, credits : Int]
\* "pc:v1:<op>:s" is total 0, "pc:v1:<op>:r<total>" is total 1 and up
Event == [op : Operation, total : Amount, credits : Int]

NoSubscription ==
  [status |-> "none", plan |-> CHOOSE p \in Plan : TRUE, start |-> 0, limit |-> 0]
Idle ==
  [pc |-> "idle", read |-> NoSubscription, plan |-> NoSubscription.plan]

Init ==
  /\ now = 0
  /\ sub = NoSubscription
  /\ request = [r \in Request |-> Idle]
  /\ cycle = [t \in Time |-> [included |-> 0, limit |-> 0,
                              reserved |-> 0, settled |-> 0, reversed |-> 0]]
  /\ op = [o \in Operation |-> [status |-> "none", cycle |-> 0,
                                reserved |-> 0, settled |-> 0, reversed |-> 0]]
  /\ ledger = {}
  /\ outbox = {}
  /\ promised = 0
  /\ redacted = FALSE
  /\ changes = 0

\* A request that may change the subscription, within the bound
Change == changes < MaxChanges /\ changes' = changes + 1

Least(m, n) == IF m < n THEN m ELSE n
Greatest(m, n) == IF m < n THEN n ELSE m

Committed(c) == c.reserved + c.settled - c.reversed
Capacity(c) == c.included + c.limit
\* Mutant: reservations still open are not counted
Available_SettledOnly(c) == Capacity(c) - (c.settled - c.reversed)

Available(c) == Capacity(c) - Committed(c)
Ended(t) == now >= t + CycleLength

-----------------------------------------------------------------------------
(* The SQL functions.                                                      *)

\* ON CONFLICT (idempotency_key) DO NOTHING
Post(entries, e) ==
  IF \E d \in entries : d.key = e.key /\ d.op = e.op /\ d.total = e.total
  THEN entries ELSE entries \cup {e}

\* Mutant: one event for each operation
Queue_OncePerOperation(events, e) ==
  IF \E d \in events : d.op = e.op THEN events ELSE events \cup {e}

\* ON CONFLICT (event_key) DO NOTHING
Queue(events, e) ==
  IF \E d \in events : d.op = e.op /\ d.total = e.total THEN events ELSE events \cup {e}

\* ensure_processing_credit_cycle: the row of the current cycle takes the plan
\* and the limit of the subscription, and keeps its counters
Ensured(t) == [cycle[t] EXCEPT !.included = Included[sub.plan], !.limit = sub.limit]

\* reserve_processing_credits; an existing key, a missing subscription and an
\* exhausted limit change nothing
Reserve(o, n) ==
  LET c == Ensured(sub.start) IN
  /\ op[o].status = "none"
  /\ sub.status = "active"
  /\ n <= Available(c)
  /\ op' = [op EXCEPT ![o] = [status |-> "reserved", cycle |-> sub.start,
                              reserved |-> n, settled |-> 0, reversed |-> 0]]
  /\ cycle' = [cycle EXCEPT ![sub.start] = [c EXCEPT !.reserved = c.reserved + n]]
  /\ ledger' = Post(ledger, [key |-> "reserve", op |-> o, total |-> 0,
                             cycle |-> sub.start, credits |-> n])
  /\ UNCHANGED <<now, sub, request, outbox, promised, redacted, changes>>

\* Mutant: the reservation is no maximum
Charge_Uncapped(o, actual) == Greatest(0, actual)

\* The credits a settlement takes: what was used, and at most what was reserved;
\* missing telemetry counts as the whole reservation
Charge(o, actual) == Least(op[o].reserved, Greatest(0, actual))

\* Mutant: the operation stays in the cycle that ended
Settled_OldCycle(o, t, amount) ==
  /\ op' = [op EXCEPT ![o].status = "settled", ![o].settled = amount]
  /\ outbox' = IF amount > 0
               THEN Queue(outbox, [op |-> o, total |-> 0, credits |-> amount])
               ELSE outbox
  /\ UNCHANGED <<now, sub, request, promised, redacted, changes>>

Settled(o, t, amount) ==
  /\ op' = [op EXCEPT ![o] = [status |-> "settled", cycle |-> t, reserved |-> op[o].reserved,
                              settled |-> amount, reversed |-> op[o].reversed]]
  /\ outbox' = IF amount > 0
               THEN Queue(outbox, [op |-> o, total |-> 0, credits |-> amount])
               ELSE outbox
  /\ UNCHANGED <<now, sub, request, promised, redacted, changes>>

\* Mutant: the charge is booked to the cycle that ended
SettleEntry_OldCycle(o, t, amount) ==
  [key |-> "settle", op |-> o, total |-> 0, cycle |-> op[o].cycle, credits |-> amount]

SettleEntry(o, t, amount) ==
  [key |-> "settle", op |-> o, total |-> 0, cycle |-> t, credits |-> amount]

\* settle_processing_credits within the cycle of the reservation: before it ended,
\* or while the subscription still names it
SettleInCycle(o, actual) ==
  LET t == op[o].cycle
      c == IF Ended(t) THEN Ensured(t) ELSE cycle[t]
      amount == Charge(o, actual)
  IN
  /\ op[o].status = "reserved"
  /\ Ended(t) => sub.status = "active" /\ sub.start = t
  /\ cycle' = [cycle EXCEPT ![t] = [c EXCEPT !.reserved = c.reserved - op[o].reserved,
                                             !.settled = c.settled + amount]]
  /\ ledger' = Post(ledger, SettleEntry(o, t, amount))
  /\ Settled(o, t, amount)

\* The cycle ended and another is current: the reservation leaves the old one and
\* what fits is charged to the new one
SettleAfterRollover(o, actual) ==
  LET old == op[o].cycle
      t == sub.start
      c == Ensured(t)
      amount == Least(Charge(o, actual), Greatest(0, Available(c)))
  IN
  /\ op[o].status = "reserved"
  /\ Ended(old) /\ sub.status = "active" /\ t # old
  /\ cycle' = [cycle EXCEPT
                 ![old] = [cycle[old] EXCEPT !.reserved = cycle[old].reserved - op[o].reserved],
                 ![t] = [c EXCEPT !.settled = c.settled + amount]]
  /\ ledger' = Post(Post(ledger, [key |-> "rollover-release", op |-> o, total |-> 0,
                                  cycle |-> old, credits |-> -op[o].reserved]),
                    SettleEntry(o, t, amount))
  /\ Settled(o, t, amount)

\* release_processing_credits
Release(o) ==
  LET t == op[o].cycle IN
  /\ op[o].status = "reserved"
  /\ cycle' = [cycle EXCEPT ![t] =
                 [cycle[t] EXCEPT !.reserved = cycle[t].reserved - op[o].reserved]]
  /\ op' = [op EXCEPT ![o].status = "released"]
  /\ ledger' = Post(ledger, [key |-> "release", op |-> o, total |-> 0,
                             cycle |-> t, credits |-> -op[o].reserved])
  /\ UNCHANGED <<now, sub, request, outbox, promised, redacted, changes>>

\* reverse_processing_credits; the refund event names the shop of the
\* subscription row, and there is none to queue without that row
Reverse(o, credits) ==
  LET t == op[o].cycle
      amount == Least(Greatest(0, credits), op[o].settled - op[o].reversed)
      total == op[o].reversed + amount
  IN
  /\ op[o].status \in {"settled", "reversed"}
  /\ amount # 0
  /\ cycle' = [cycle EXCEPT ![t] = [cycle[t] EXCEPT !.reversed = cycle[t].reversed + amount]]
  /\ op' = [op EXCEPT ![o] = [status |-> IF total = op[o].settled THEN "reversed" ELSE "settled",
                              cycle |-> t, reserved |-> op[o].reserved,
                              settled |-> op[o].settled, reversed |-> total]]
  /\ ledger' = Post(ledger, [key |-> "reverse", op |-> o, total |-> total,
                             cycle |-> t, credits |-> -amount])
  /\ outbox' = IF sub.status = "none" THEN outbox
               ELSE Queue(outbox, [op |-> o, total |-> total, credits |-> -amount])
  /\ UNCHANGED <<now, sub, request, promised, redacted, changes>>

\* set_processing_credit_overage_limit
SetOverageLimit(l) ==
  LET c == Ensured(sub.start) IN
  /\ Change
  /\ sub.status = "active"
  /\ l >= Committed(c) - c.included
  /\ sub' = [sub EXCEPT !.limit = l]
  /\ cycle' = [cycle EXCEPT ![sub.start] = [c EXCEPT !.limit = l]]
  /\ promised' = l
  /\ UNCHANGED <<now, request, op, ledger, outbox, redacted>>

\* processing_credit_summary also brings the current cycle up to date
Summarise ==
  /\ sub.status = "active"
  /\ cycle' = [cycle EXCEPT ![sub.start] = Ensured(sub.start)]
  /\ UNCHANGED <<now, sub, request, op, ledger, outbox, promised, redacted, changes>>

-----------------------------------------------------------------------------
(* What the API and the worker ask of the store: each is one call of a SQL *)
(* function, with the amount of an estimate or of what the providers told. *)

ReserveCredits(o) == \E n \in Amount : Reserve(o, n)

SettleCredits(o) ==
  \E actual \in Usage : SettleInCycle(o, actual) \/ SettleAfterRollover(o, actual)

ReverseCredits(o) == \E n \in Amount : Reverse(o, n)

LimitOverage == \E l \in Limits : SetOverageLimit(l)

-----------------------------------------------------------------------------
(* The subscription row.                                                   *)

\* _refresh_subscription reads the row, then awaits the Partner API.  The plan is
\* the one a redirect names or else the one of the row; without either it stops.
BeginRefresh(r) ==
  /\ Change
  /\ request[r].pc = "idle"
  /\ \E p \in Plan :
       request' = [request EXCEPT ![r] = [pc |-> "verify", read |-> sub,
                                              plan |-> p]]
  /\ UNCHANGED <<now, sub, books, promised, redacted>>

Return(r) == request' = [request EXCEPT ![r] = Idle]

\* Active: the whole row is written back, the cycle and the limit as they were
\* read; the dates that Shopify answered with are not used
RefreshActive(r) ==
  LET read == request[r].read IN
  /\ request[r].pc = "verify"
  /\ sub' = [status |-> "active", plan |-> request[r].plan,
             start |-> IF read.status = "none" THEN now ELSE read.start,
             limit |-> IF read.status = "none" THEN 0 ELSE read.limit]
  /\ Return(r)
  /\ UNCHANGED <<now, books, promised, redacted, changes>>

RefreshInactive(r) ==
  LET read == request[r].read IN
  /\ request[r].pc = "verify"
  /\ sub' = IF read.status = "none" THEN sub
            ELSE [status |-> "cancelled", plan |-> read.plan,
                  start |-> read.start, limit |-> read.limit]
  /\ Return(r)
  /\ UNCHANGED <<now, books, promised, redacted, changes>>

\* The Partner API cannot be reached, or the upsert fails and is swallowed
RefreshFails(r) ==
  /\ request[r].pc = "verify"
  /\ Return(r)
  /\ UNCHANGED <<now, sub, books, promised, redacted, changes>>

\* The deprecated cache sync: it overwrites the columns its caller names
SyncSubscription ==
  /\ Change
  /\ \E p \in Plan :
       sub' = [status |-> "active", plan |-> p, start |-> now, limit |-> sub.limit]
  /\ UNCHANGED <<now, request, books, promised, redacted>>

\* shop_redact deletes the subscription and none of the credit tables
RedactShop ==
  /\ Change
  /\ sub' = NoSubscription
  /\ redacted' = TRUE
  /\ UNCHANGED <<now, request, books, promised>>

Tick ==
  /\ now < MaxTime
  /\ now' = now + 1
  /\ UNCHANGED <<sub, request, books, promised, redacted, changes>>

Next ==
  \/ \E o \in Operation :
       ReserveCredits(o) \/ SettleCredits(o) \/ Release(o) \/ ReverseCredits(o)
  \/ LimitOverage \/ Summarise
  \/ SyncSubscription \/ RedactShop \/ Tick
  \/ \E r \in Request : \/ BeginRefresh(r) \/ RefreshActive(r)
                        \/ RefreshInactive(r) \/ RefreshFails(r)

Spec == Init /\ [][Next]_vars

-----------------------------------------------------------------------------
(* Properties.                                                             *)

\* Every row of the books and every request in progress has the shape its columns
\* and the bounds give it
Shapes ==
  /\ now \in Time
  /\ sub \in Subscription
  /\ request \in [Request -> RequestState]
  /\ cycle \in [Time -> CycleRow]
  /\ op \in [Operation -> OperationRow]
  /\ ledger \subseteq Entry
  /\ outbox \subseteq Event
  /\ promised \in Limits \cup {0}
  /\ redacted \in BOOLEAN
  /\ changes \in 0..MaxChanges

\* An open operation is charged nothing yet
ChargeWithinQuote ==
  \A o \in Operation :
    /\ op[o].settled <= op[o].reserved /\ op[o].reversed <= op[o].settled
    /\ op[o].status = "reserved" => op[o].settled = 0

\* The type invariant: the rows have their shapes, no operation is charged more than
\* it reserved, and none is given back more than it was charged.
TypeOK == Shapes /\ ChargeWithinQuote

\* The operations of a cycle, and those of them whose reservation is open
Charged(t) == {o \in Operation : op[o].status # "none" /\ op[o].cycle = t}
Held(t) == {o \in Charged(t) : op[o].status = "reserved"}

\* The counters of a cycle are the sums of its operations: no reservation stays
\* behind in a cycle whose operation was charged to a later one, and none leaves
\* its cycle twice.
CountersMatchOperations ==
  \A t \in Time :
    /\ cycle[t].reserved = Total([o \in Operation |-> op[o].reserved], Held(t))
    /\ cycle[t].settled = Total([o \in Operation |-> op[o].settled], Charged(t))
    /\ cycle[t].reversed = Total([o \in Operation |-> op[o].reversed], Charged(t))

\* The entries that count in a cycle: a reservation does until it is settled there
SettledIn(entries, t, o) == \E d \in entries : d.cycle = t /\ d.key = "settle" /\ d.op = o
Counted(entries, t) ==
  {e \in entries : e.cycle = t /\ (e.key = "reserve" => ~SettledIn(entries, t, e.op))}

EntrySum(entries, t) == Total([e \in entries |-> e.credits], Counted(entries, t))
EventSum(events, o) == Total([e \in events |-> e.credits], {e \in events : e.op = o})

\* The ledger explains each cycle: what its operations reserved and did not
\* release, or, once they are settled, what they settled and did not reverse.
LedgerExplainsCycle ==
  \A t \in Time : Committed(cycle[t]) = EntrySum(ledger, t)

\* Credits are committed to a cycle only while they fit in its plan and limit:
\* by a reservation, and by the settlement of an operation that outlived its cycle.
CommitsFit ==
  \A t \in Time : Committed(cycle'[t]) > Committed(cycle[t])
                  => Committed(cycle'[t]) <= Capacity(cycle'[t])

CommitsWithinCapacity == [][CommitsFit]_vars

\* The usage events of an operation add up to what it was charged, net of what
\* was reversed, unless the shop was redacted.
EventsMatchCharge ==
  \A o \in Operation :
    LET net == EventSum(outbox, o)
    IN IF redacted THEN net >= op[o].settled - op[o].reversed
       ELSE net = op[o].settled - op[o].reversed

\* The limit a merchant set is hard: no credits are committed beyond it.
HardLimit ==
  [][\A t \in Time : Committed(cycle'[t]) > Committed(cycle[t])
       => Committed(cycle'[t]) <= cycle'[t].included + promised']_vars
=============================================================================
