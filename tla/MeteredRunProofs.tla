-------------------------- MODULE MeteredRunProofs --------------------------
(***************************************************************************)
(* What a merchant pays for an import, for any number of attempts, calls,  *)
(* faults and requests: TypeOK and ChargeIsEarned of MeteredRun.           *)
(*                                                                         *)
(* A run that is settled by the attempt that failed says so, as long as no *)
(* other attempt runs and no operator asks; and no total, in memory or     *)
(* stored, is ahead of what the providers told.                            *)
(***************************************************************************)
EXTENDS MeteredRun, TLAPS, FiniteSetTheorems

\* The numbers of events have a greatest
EventsBounded == \E m \in Nat : \A s \in DOMAIN events : s <= m

\* A job that was not claimed yet has no attempt, and a run of the API has one
Placed ==
  /\ import.inline =>
       /\ job.status = "none"
       /\ \A a \in Attempt : attempt[a].pc \notin {"claimed", "mark", "bury"}
       /\ \A a \in Attempt \ {1} : attempt[a].pc = "idle"
  /\ ~import.inline =>
       /\ job.status # "none"
       /\ \A a \in Attempt : a > job.taken => attempt[a].pc = "idle"

\* Attempts that do not overlap follow one another
OneAlive ==
  "overlap" \notin tally.mishaps =>
    \A a, b \in Attempt : Live(a) /\ Live(b) => a = b

\* An import that is carried out is at its end
Stages ==
  \A a \in Attempt :
    /\ attempt[a].stage = "finished" => attempt[a].pc \in {"done", "settle", "bury", "ended"}
    /\ attempt[a].pc = "done" => attempt[a].stage = "finished"

\* No total is ahead of what was told, and a recorded call has been added to one
TotalsTold ==
  /\ run.tokens <= told
  /\ \A a \in Attempt :
       /\ attempt[a].totals <= told
       /\ attempt[a].pc = "tally" => attempt[a].totals + 1 <= told
       /\ attempt[a].pc = "record" => run.tokens > 0 \/ "run" \in tally.mishaps
  /\ usage # <<>> => run.tokens > 0 \/ "run" \in tally.mishaps

Excused == tally.mishaps \cap {"run", "overlap"} # {} \/ tally.controls > 0

\* A request that is under way has counted itself, and has a number
RequestsCounted == control.pc # "idle" => tally.controls > 0 /\ control.seq > 0

\* A run that is being settled failed, or its import was carried out
SettlesFailed ==
  \A a \in Attempt : attempt[a].pc = "settle" =>
    attempt[a].stage = "finished" \/ run.status = "failed" \/ Excused

IInv ==
  /\ TypeOK /\ EventsBounded /\ Placed /\ OneAlive /\ Stages
  /\ TotalsTold /\ RequestsCounted /\ SettlesFailed /\ ChargeIsEarned

-----------------------------------------------------------------------------
(* Helpers.                                                                *)

\* Some numbers that have a bound have a greatest.
LEMMA GreatestExists ==
  ASSUME NEW S \in SUBSET Nat, S # {}, NEW m \in Nat, \A s \in S : s <= m
  PROVE  Max(S) \in S /\ \A s \in S : s <= Max(S)
<1> DEFINE Over(x) == {y \in S : x < y}
           overs == {Over(x) : x \in S}
<1>0. \A x \in S : x \in Int
  OBVIOUS
<1>1. IsFiniteSet(S)
  <2>1. IsFiniteSet(0..m) /\ S \subseteq 0..m
    BY FS_Interval
  <2> QED
    BY <2>1, FS_Subset
<1>2. IsWellFoundedOn(StrictSubsetOrdering(S), SUBSET S)
  BY <1>1, FS_FiniteSubsetsOfFinite, FS_StrictSubsetOrderingWellFounded
<1>3. PICK least \in overs : \A over \in overs : <<over, least>> \notin StrictSubsetOrdering(S)
  <2>1. overs \subseteq SUBSET S /\ overs # {}
    OBVIOUS
  <2> HIDE DEF overs
  <2> QED
    BY <2>1, <1>2, WFMin
<1>4. PICK x \in S : least = Over(x)
  BY <1>3
<1>5. Over(x) = {}
  <2>1. SUFFICES ASSUME NEW y \in Over(x) PROVE FALSE
    OBVIOUS
  <2>2. Over(y) \subseteq Over(x) /\ y \notin Over(y)
    <3>1. y \in S /\ x < y /\ x \in Int /\ y \in Int
      BY <1>0
    <3>2. \A z \in S : y < z => x < z
      BY <1>0, <3>1
    <3>3. ~(y < y)
      BY <3>1
    <3> QED
      BY <3>2, <3>3
  <2>3. Over(y) \in overs /\ <<Over(y), Over(x)>> \in StrictSubsetOrdering(S)
    BY <2>2 DEF StrictSubsetOrdering
  <2> QED
    BY <2>3, <1>3, <1>4
<1>6. \A y \in S : x >= y
  BY <1>0, <1>5
<1> HIDE DEF Over, overs
<1> QED
  BY <1>6 DEF Max

\* The greatest number of an event, or 0.
LEMMA LatestTyped ==
  ASSUME TypeOK, EventsBounded
  PROVE  Latest \in Nat /\ \A s \in DOMAIN events : s <= Latest
<1>1. DOMAIN events \cup {0} \in SUBSET Nat
  BY DEF TypeOK
<1>2. PICK m \in Nat : \A s \in DOMAIN events : s <= m
  BY DEF EventsBounded
<1>3. \A s \in DOMAIN events \cup {0} : s <= m
  BY <1>2
<1> QED
  BY <1>1, <1>3, GreatestExists DEF Latest

\* An event that is stored has a number, and the numbers stay bounded.
LEMMA StoreKeeps ==
  ASSUME TypeOK, EventsBounded, NEW seq \in Nat \ {0}, NEW by \in {Operator} \cup Attempt,
         NEW phase \in Phase, Store(seq, by, phase)
  PROVE  /\ DOMAIN events' \subseteq Nat \ {0} /\ Range(events') \subseteq Event
         /\ EventsBounded'
<1>1. DOMAIN events' = {seq} \cup DOMAIN events
  BY DEF Store, Put
<1>2. \A s \in DOMAIN events' : events'[s] \in Event
  BY DEF TypeOK, Range, Store, Put, Event
<1>3. EventsBounded'
  <2>1. PICK m \in Nat : \A s \in DOMAIN events : s <= m
    BY DEF EventsBounded
  <2>2. \A s \in DOMAIN events' : s <= m + seq
    BY <1>1, <2>1 DEF TypeOK
  <2>3. m + seq \in Nat
    OBVIOUS
  <2> QED
    BY <2>2, <2>3 DEF EventsBounded
<1> QED
  BY <1>1, <1>2, <1>3 DEF TypeOK, Range

\* What goes wrong is added to what did, and counts no request.
Worsens ==
  /\ tally' \in Tally /\ left' \in Budget
  /\ tally.mishaps \subseteq tally'.mishaps /\ tally'.controls >= tally.controls

\* A fault is one of those that may happen.
LEMMA StrikeWorsens ==
  ASSUME TypeOK, NEW mishap \in Mishap, Strike(mishap)
  PROVE  Worsens /\ mishap \in tally'.mishaps
  BY DEF TypeOK, Strike, Spend, Worsens, Tally, Budget

\* An event is stored under its number, or lost.
LEMMA AppendKeeps ==
  ASSUME TypeOK, EventsBounded, NEW seq \in Nat \ {0}, NEW by \in {Operator} \cup Attempt,
         NEW phase \in Phase, Append(seq, by, phase)
  PROVE  /\ DOMAIN events' \subseteq Nat \ {0} /\ Range(events') \subseteq Event
         /\ EventsBounded' /\ Worsens
<1>1. Worsens
  <2>1. tally \in Tally /\ left \in Budget
    BY DEF TypeOK
  <2>2. left' \in Budget
    BY <2>1 DEF Append, Calmly, Spend, Budget
  <2>3. /\ tally' \in Tally /\ tally'.mishaps = tally.mishaps
        /\ tally'.controls = tally.controls
    <3>1. CASE tally' = tally
      BY <2>1, <3>1
    <3>2. CASE tally' = [tally EXCEPT !.lost = @ + 1]
      BY <2>1, <3>2 DEF Tally
    <3>3. CASE tally' = [tally EXCEPT !.lost = @ + 1, !.failed = @ + 1]
      <4>1. \A lost, failed \in Nat :
              [tally EXCEPT !.lost = lost, !.failed = failed] \in Tally
        BY <2>1 DEF Tally
      <4>2. tally.lost + 1 \in Nat /\ tally.failed + 1 \in Nat
        BY <2>1 DEF Tally
      <4>3. tally' = [tally EXCEPT !.lost = tally.lost + 1, !.failed = tally.failed + 1]
        BY <3>3
      <4> QED
        BY <2>1, <4>1, <4>2, <4>3 DEF Tally
    <3> QED
      BY <3>1, <3>2, <3>3 DEF Append, Calmly
  <2>4. tally.controls \in Nat
    BY <2>1 DEF Tally
  <2> QED
    BY <2>2, <2>3, <2>4 DEF Worsens
<1>2. CASE Store(seq, by, phase)
  BY <1>1, <1>2, StoreKeeps
<1>3. CASE UNCHANGED events
  BY <1>1, <1>3 DEF TypeOK, EventsBounded, Range
<1> QED
  BY <1>2, <1>3 DEF Append

\* A row of the run is written, or a fault says that it was not.
LEMMA RunUpdated ==
  ASSUME TypeOK, NEW field \in {"status", "tokens"}, NEW value, UpdateRun(field, value)
  PROVE  /\ run' = [run EXCEPT ![field] = value] \/ (run' = run /\ "run" \in tally'.mishaps)
         /\ Worsens
<1>1. CASE run' = [run EXCEPT ![field] = value] /\ Calmly
  BY <1>1 DEF TypeOK, Calmly, Worsens, Tally, Budget
<1>2. CASE Strike("run") /\ UNCHANGED run
  BY <1>2, StrikeWorsens DEF Mishap
<1> QED
  BY <1>1, <1>2 DEF UpdateRun

\* The stored events keep what the invariant says of them
EventsKept ==
  /\ DOMAIN events' \subseteq Nat \ {0} /\ Range(events') \subseteq Event
  /\ EventsBounded'

\* The rows that are not the events', nor the attempts'
Aside == UNCHANGED <<import, job, run, usage, op, control, client>>

\* An attempt is at another place, and nothing else of it has changed but its number
Moves(a, pc) ==
  /\ attempt' \in [Attempt -> Emitter] /\ \A b \in Attempt \ {a} : attempt'[b] = attempt[b]
  /\ attempt'[a].pc = pc
  /\ attempt'[a].stage = attempt[a].stage /\ attempt'[a].totals = attempt[a].totals

\* Going to another place.
LEMMA GoMoves ==
  ASSUME TypeOK, NEW a \in Attempt, NEW pc \in PC, Go(a, pc)
  PROVE  Moves(a, pc)
<1>1. attempt[a] \in Emitter /\ [attempt[a] EXCEPT !.pc = pc] \in Emitter
  BY DEF TypeOK, Emitter
<1>2. attempt' = [attempt EXCEPT ![a] = [attempt[a] EXCEPT !.pc = pc]]
  BY DEF TypeOK, Go
<1> QED
  BY <1>1, <1>2 DEF TypeOK, Moves, Emitter

\* Going there with another number, or for another try.
LEMMA NumberedMoves ==
  ASSUME TypeOK, NEW a \in Attempt, NEW pc \in PC, NEW seq \in Nat, NEW try \in 1..(Evidence + 1),
         attempt' = [attempt EXCEPT ![a] =
                       [attempt[a] EXCEPT !.pc = pc, !.seq = seq, !.try = try]]
  PROVE  Moves(a, pc)
<1>1. attempt[a] \in Emitter /\ attempt \in [Attempt -> Emitter]
  BY DEF TypeOK
<1>2. [attempt[a] EXCEPT !.pc = pc, !.seq = seq, !.try = try] \in Emitter
  BY <1>1 DEF Emitter
<1> QED
  BY <1>1, <1>2 DEF Moves, Emitter

\* Telling an event and going on.
LEMMA EmitMoves ==
  ASSUME TypeOK, EventsBounded, NEW a \in Attempt, NEW phase \in Phase, NEW pc \in PC,
         Emit(a, phase, pc)
  PROVE  Moves(a, pc) /\ EventsKept /\ Worsens
<1>1. attempt[a] \in Emitter /\ attempt \in [Attempt -> Emitter]
  BY DEF TypeOK
<1>2. attempt[a].seq + 1 \in Nat \ {0} /\ attempt[a].try \in 1..(Evidence + 1)
  BY <1>1 DEF Emitter
<1>3. attempt' = [attempt EXCEPT ![a] =
        [attempt[a] EXCEPT !.pc = pc, !.seq = attempt[a].seq + 1, !.try = attempt[a].try]]
  BY <1>1 DEF Emit, Emitter
<1>4. Moves(a, pc)
  BY <1>2, <1>3, NumberedMoves
<1>5. EventsKept /\ Worsens
  BY <1>2, AppendKeeps DEF Emit, EventsKept
<1> QED
  BY <1>4, <1>5

\* An attempt that tells no event and has no fault changes no event.
LEMMA QuietlyKeeps ==
  ASSUME TypeOK, EventsBounded, UNCHANGED <<events, tally, left>>
  PROVE  EventsKept /\ Worsens
<1>1. tally.controls \in Nat
  BY DEF TypeOK, Tally
<1> QED
  BY <1>1 DEF TypeOK, EventsBounded, EventsKept, Worsens, Range

\* The steps of an attempt that neither begin nor end it.
Advances(a) ==
  /\ attempt' \in [Attempt -> Emitter] /\ \A b \in Attempt \ {a} : attempt'[b] = attempt[b]
  /\ Live(a) /\ attempt'[a].pc \notin {"idle", "claimed", "mark", "record", "settle", "bury"}
  /\ attempt'[a].stage = "finished" => attempt'[a].pc \in {"done", "ended"}
  /\ attempt'[a].pc = "done" => attempt'[a].stage = "finished"
  /\ attempt[a].stage = "finished" => attempt'[a].stage = "finished"
  /\ attempt'[a].totals <= told'
  /\ attempt'[a].pc = "tally" => attempt'[a].totals + 1 <= told'
  /\ told' \in Nat /\ told <= told'
  /\ Aside /\ EventsKept /\ Worsens

\* They keep the invariant.
LEMMA AdvanceKeeps ==
  ASSUME IInv, NEW a \in Attempt, Advances(a)
  PROVE  IInv'
<1>1. TypeOK'
  BY DEF IInv, TypeOK, Advances, Aside, EventsKept, Worsens
<1>2. EventsBounded'
  BY DEF Advances, EventsKept
<1>3. Live(a) /\ attempt[a].pc # "idle"
  BY DEF Advances, Live, Resting
<1>4. Placed'
  BY <1>3 DEF IInv, Placed, Advances, Aside
<1>5. OneAlive'
  <2>1. \A b \in Attempt : Live(b)' => Live(b)
    BY <1>3 DEF Advances, Live
  <2> QED
    BY <2>1 DEF IInv, OneAlive, Advances, Worsens
<1>6. Stages'
  BY DEF IInv, Stages, Advances
<1>7. TotalsTold'
  <2>1. \A b \in Attempt : attempt[b].totals \in Nat /\ attempt'[b].totals \in Nat
    BY DEF IInv, TypeOK, Advances, Emitter
  <2>2. run.tokens \in Nat /\ told \in Nat /\ told' \in Nat
    BY DEF IInv, TypeOK, Advances, RunRow
  <2> QED
    BY <2>1, <2>2 DEF IInv, TotalsTold, Advances, Aside, Worsens
<1>8. tally.controls \in Nat /\ tally'.controls \in Nat /\ tally'.controls >= tally.controls
  BY DEF IInv, TypeOK, Advances, Worsens, Tally
<1>9. RequestsCounted'
  BY <1>8 DEF IInv, RequestsCounted, Advances, Aside
<1>10. Excused => Excused'
  BY <1>8 DEF Excused, Advances, Worsens
<1>11. SettlesFailed'
  BY <1>10 DEF IInv, SettlesFailed, Advances, Aside
<1>12. ChargeIsEarned'
  <2>1. op.charge \in Nat /\ told \in Nat /\ told' \in Nat /\ told <= told' /\ op' = op
    BY LimitsAssumption DEF IInv, TypeOK, Operation, Advances, Aside
  <2> QED
    BY <1>8, <2>1 DEF IInv, ChargeIsEarned, Advances, Worsens
<1> QED
  BY <1>1, <1>2, <1>4, <1>5, <1>6, <1>7, <1>9, <1>11, <1>12 DEF IInv

\* So does a move within the import.
LEMMA MoveKeeps ==
  ASSUME IInv, NEW a \in Attempt, Live(a), NEW pc,
         pc \notin {"idle", "claimed", "mark", "tally", "record", "done", "settle", "bury"},
         Moves(a, pc), attempt[a].stage = "finished" => pc = "ended",
         told' = told, Aside, EventsKept, Worsens
  PROVE  IInv'
<1>1. attempt[a].totals <= told /\ told \in Nat
  BY DEF IInv, TypeOK, TotalsTold
<1> QED
  BY <1>1, AdvanceKeeps DEF Moves, Advances

-----------------------------------------------------------------------------
(* The steps of an attempt that neither begin nor end it.                  *)

\* The emitter takes up its numbers.
LEMMA OpenEmitterKeeps ==
  ASSUME IInv, NEW a \in Attempt, OpenEmitter(a)
  PROVE  IInv'
<1>1. attempt[a] \in Emitter /\ attempt[a].pc = "open" /\ attempt \in [Attempt -> Emitter]
  BY DEF IInv, TypeOK, OpenEmitter, At
<1>2. PICK seq \in Nat : attempt' = [attempt EXCEPT ![a].pc = "totals", ![a].seq = seq]
  BY LatestTyped DEF IInv, OpenEmitter
<1>3. Moves(a, "totals")
  <2>1. attempt' = [attempt EXCEPT ![a] =
          [attempt[a] EXCEPT !.pc = "totals", !.seq = seq, !.try = attempt[a].try]]
    BY <1>1, <1>2 DEF Emitter
  <2> QED
    BY <1>1, <2>1, NumberedMoves DEF IInv, PC, Emitter
<1>4. Worsens /\ EventsKept
  <2>1. CASE Calmly
    BY <2>1, QuietlyKeeps DEF IInv, OpenEmitter, Calmly
  <2>2. CASE Strike("read")
    BY <2>2, StrikeWorsens
    DEF IInv, TypeOK, EventsBounded, EventsKept, OpenEmitter, Mishap, Range
  <2> QED
    BY <2>1, <2>2 DEF OpenEmitter
<1>5. told' = told /\ Aside
  BY DEF OpenEmitter, Aside
<1> QED
  BY <1>1, <1>3, <1>4, <1>5, MoveKeeps DEF IInv, Stages, Live, Resting

\* The totals that were read are told, or none.
LEMMA ReadTotalsKeeps ==
  ASSUME IInv, NEW a \in Attempt, ReadTotals(a)
  PROVE  IInv'
<1>1. attempt[a] \in Emitter /\ attempt[a].pc = "totals" /\ attempt \in [Attempt -> Emitter]
  BY DEF IInv, TypeOK, ReadTotals, At
<1>2. PICK pc \in {"queue", "receive"}, totals \in {0, run.tokens} :
        attempt' = [attempt EXCEPT ![a].pc = pc, ![a].totals = totals]
  BY DEF ReadTotals
<1>3. totals \in Nat /\ totals <= told /\ told \in Nat
  BY DEF IInv, TypeOK, TotalsTold, RunRow
<1>4. /\ attempt' \in [Attempt -> Emitter] /\ \A b \in Attempt \ {a} : attempt'[b] = attempt[b]
      /\ attempt'[a].pc = pc /\ attempt'[a].stage = attempt[a].stage
      /\ attempt'[a].totals = totals
  <2>1. [attempt[a] EXCEPT !.pc = pc, !.totals = totals] \in Emitter
    BY <1>1, <1>3 DEF Emitter, PC
  <2>2. attempt' = [attempt EXCEPT ![a] = [attempt[a] EXCEPT !.pc = pc, !.totals = totals]]
    BY <1>1, <1>2
  <2> QED
    BY <1>1, <2>1, <2>2 DEF Emitter
<1>5. Worsens /\ EventsKept
  <2>1. CASE Calmly
    BY <2>1, QuietlyKeeps DEF IInv, ReadTotals, Calmly
  <2>2. CASE Strike("read")
    BY <2>2, StrikeWorsens
    DEF IInv, TypeOK, EventsBounded, EventsKept, ReadTotals, Mishap, Range
  <2> QED
    BY <2>1, <2>2 DEF ReadTotals
<1>6. told' = told /\ Aside
  BY DEF ReadTotals, Aside
<1>7. attempt[a].stage # "finished"
  BY <1>1 DEF IInv, Stages
<1>8. Advances(a)
  BY <1>1, <1>3, <1>4, <1>5, <1>6, <1>7 DEF Advances, Live, Resting
<1> QED
  BY <1>8, AdvanceKeeps

\* The steps that tell an event and go on within the import.
LEMMA EmitKeeps ==
  ASSUME IInv, NEW a \in Attempt, Live(a), attempt[a].stage # "finished",
         NEW phase \in Phase,
         NEW pc \in {"start", "error", "running", "layout", "call", "enrich", "finish", "failed"},
         Emit(a, phase, pc), told' = told, Aside
  PROVE  IInv'
  BY EmitMoves, MoveKeeps DEF IInv, PC

\* The steps that go on within the import and tell nothing.
LEMMA GoKeeps ==
  ASSUME IInv, NEW a \in Attempt, Live(a), attempt[a].stage # "finished",
         NEW pc \in {"judge", "error", "amend", "finish", "call"},
         Go(a, pc), UNCHANGED <<events, told, tally, left>>, Aside
  PROVE  IInv'
  BY GoMoves, QuietlyKeeps, MoveKeeps DEF IInv, PC

\* Asking again: the next try, with an event that says so.
LEMMA AskAgainKeeps ==
  ASSUME IInv, NEW a \in Attempt, Live(a), attempt[a].stage # "finished",
         NEW phase \in Phase, NEW try \in 1..(Evidence + 1),
         attempt' = [attempt EXCEPT ![a].pc = "call", ![a].try = try, ![a].seq = @ + 1],
         Append(attempt[a].seq + 1, a, phase), told' = told, Aside
  PROVE  IInv'
<1>1. attempt[a] \in Emitter /\ attempt[a].seq + 1 \in Nat \ {0}
      /\ attempt \in [Attempt -> Emitter]
  BY DEF IInv, TypeOK, Emitter
<1>2. attempt' = [attempt EXCEPT ![a] =
        [attempt[a] EXCEPT !.pc = "call", !.seq = attempt[a].seq + 1, !.try = try]]
  BY <1>1 DEF Emitter
<1>3. Moves(a, "call")
  <2>1. [attempt[a] EXCEPT !.pc = "call", !.seq = attempt[a].seq + 1, !.try = try] \in Emitter
    <3>1. "call" \in PC
      BY DEF PC
    <3> QED
      BY <1>1, <3>1 DEF Emitter
  <2> QED
    BY <1>1, <1>2, <2>1 DEF Moves, Emitter
<1>4. EventsKept /\ Worsens
  BY <1>1, AppendKeeps DEF IInv, EventsKept
<1> QED
  BY <1>3, <1>4, MoveKeeps

\* Receiving, starting and reading a document.
LEMMA DocumentKeeps ==
  ASSUME IInv, NEW a \in Attempt, Receive(a) \/ StartWorkflow(a) \/ ReadLayout(a) \/ Fail(a)
  PROVE  IInv'
<1>1. attempt[a].pc \in {"receive", "start", "layout", "error"}
  BY DEF Receive, StartWorkflow, ReadLayout, Fail, At
<1>2. Live(a) /\ attempt[a].stage # "finished"
  BY <1>1 DEF IInv, Stages, Live, Resting
<1>3. told' = told /\ Aside
  BY DEF Receive, StartWorkflow, ReadLayout, Fail, Aside
<1>4. \E phase \in Phase, pc \in {"start", "error", "running", "layout", "call", "failed"} :
        Emit(a, phase, pc)
  BY DEF Receive, StartWorkflow, ReadLayout, Fail, FirstStep, Phase
<1> QED
  BY <1>2, <1>3, <1>4, EmitKeeps

\* A call that tells what it used adds to what was told before it adds to the totals.
LEMMA CallKeeps ==
  ASSUME IInv, NEW a \in Attempt, CallExtraction(a) \/ CallSuggestions(a)
  PROVE  IInv'
<1>1. attempt[a].pc = "call" /\ Live(a) /\ attempt[a].stage # "finished"
  BY DEF IInv, Stages, CallExtraction, CallSuggestions, At, Live, Resting
<1>2. Aside
  BY DEF CallExtraction, CallSuggestions, Aside
<1>3. CASE Emit(a, UsagePhase(a), "tally") /\ told' = told + 1
  <2>1. Moves(a, "tally") /\ EventsKept /\ Worsens
    BY <1>3, EmitMoves DEF IInv, UsagePhase, Phase, PC
  <2>2. attempt[a].totals <= told /\ told \in Nat /\ attempt[a].totals \in Nat
    BY DEF IInv, TypeOK, TotalsTold, Emitter
  <2>3. Advances(a)
    BY <1>1, <1>2, <1>3, <2>1, <2>2 DEF Advances, Moves
  <2> QED
    BY <2>3, AdvanceKeeps
<1>4. CASE \E pc \in {"judge", "error", "amend"} : Go(a, pc) /\ Quietly
  BY <1>1, <1>2, <1>4, GoKeeps DEF Quietly
<1> QED
  BY <1>3, <1>4 DEF CallExtraction, CallSuggestions

\* Judging an answer.
LEMMA JudgeKeeps ==
  ASSUME IInv, NEW a \in Attempt, JudgeExtraction(a) \/ JudgeSuggestions(a)
  PROVE  IInv'
<1>1. attempt[a].pc \in {"judge", "amend"} /\ Live(a) /\ attempt[a].stage # "finished"
  BY DEF IInv, Stages, JudgeExtraction, JudgeSuggestions, At, Live, Resting
<1>2. told' = told /\ Aside /\ attempt[a] \in Emitter
  BY DEF IInv, TypeOK, JudgeExtraction, JudgeSuggestions, Aside
<1>3. CASE \E phase \in Phase, pc \in {"enrich", "error", "finish"} : Emit(a, phase, pc)
  BY <1>1, <1>2, <1>3, EmitKeeps
<1>4. CASE \E phase \in Phase, try \in 1..(Evidence + 1) :
             /\ attempt' = [attempt EXCEPT ![a].pc = "call", ![a].try = try, ![a].seq = @ + 1]
             /\ Append(attempt[a].seq + 1, a, phase)
  BY <1>1, <1>2, <1>4, AskAgainKeeps
<1>5. CASE Go(a, "error") /\ UNCHANGED events /\ Calmly
  BY <1>1, <1>2, <1>5, GoKeeps DEF Calmly
<1>6. CASE JudgeExtraction(a)
  <2>1. attempt[a].try < Evidence => attempt[a].try + 1 \in 1..(Evidence + 1)
    BY <1>2, LimitsAssumption DEF Emitter
  <2> QED
    BY <1>2, <1>3, <1>4, <1>5, <1>6, <2>1 DEF JudgeExtraction, Phase
<1>7. CASE JudgeSuggestions(a)
  <2>1. 2 \in 1..(Evidence + 1)
    BY LimitsAssumption
  <2> QED
    BY <1>3, <1>4, <1>7, <2>1 DEF JudgeSuggestions, Phase
<1> QED
  BY <1>6, <1>7

\* Asking for suggestions, or leaving them out.
LEMMA EnrichKeeps ==
  ASSUME IInv, NEW a \in Attempt, Enrich(a)
  PROVE  IInv'
<1>1. attempt[a].pc = "enrich" /\ Live(a) /\ attempt[a].stage # "finished"
  BY DEF IInv, Stages, Enrich, At, Live, Resting
<1>2. told' = told /\ Aside /\ attempt[a] \in Emitter /\ attempt \in [Attempt -> Emitter]
  BY DEF IInv, TypeOK, Enrich, Aside
<1>3. CASE /\ attempt' = [attempt EXCEPT ![a].pc = "call", ![a].stage = "enrich", ![a].try = 1]
           /\ UNCHANGED <<events, tally, left>>
  <2>1. [attempt[a] EXCEPT !.pc = "call", !.stage = "enrich", !.try = 1] \in Emitter
    <3>1. 1 \in 1..(Evidence + 1) /\ "call" \in PC
      BY LimitsAssumption DEF PC
    <3> QED
      BY <1>2, <3>1 DEF Emitter
  <2>2. attempt' = [attempt EXCEPT ![a] =
          [attempt[a] EXCEPT !.pc = "call", !.stage = "enrich", !.try = 1]]
    BY <1>2, <1>3
  <2>3. /\ attempt' \in [Attempt -> Emitter] /\ \A b \in Attempt \ {a} : attempt'[b] = attempt[b]
        /\ attempt'[a].pc = "call" /\ attempt'[a].stage = "enrich"
        /\ attempt'[a].totals = attempt[a].totals
    BY <1>2, <2>1, <2>2 DEF Emitter
  <2>4. attempt[a].totals <= told /\ told \in Nat
    BY DEF IInv, TypeOK, TotalsTold
  <2>5. EventsKept /\ Worsens
    BY <1>3, QuietlyKeeps DEF IInv
  <2>6. Advances(a)
    BY <1>1, <1>2, <2>3, <2>4, <2>5 DEF Advances
  <2> QED
    BY <2>6, AdvanceKeeps
<1>4. CASE Emit(a, "import_enrichment_skipped", "finish")
  BY <1>1, <1>2, <1>4, EmitKeeps DEF Phase
<1>5. CASE Go(a, "finish") /\ UNCHANGED <<events, tally, left>>
  BY <1>1, <1>2, <1>5, GoKeeps
<1> QED
  BY <1>3, <1>4, <1>5 DEF Enrich

\* An import that is carried out says so.
LEMMA FinishKeeps ==
  ASSUME IInv, NEW a \in Attempt, Finish(a)
  PROVE  IInv'
<1>1. attempt[a].pc = "finish" /\ Live(a) /\ attempt[a] \in Emitter
      /\ attempt \in [Attempt -> Emitter]
  BY DEF IInv, TypeOK, Finish, At, Live, Resting
<1>2. told' = told /\ Aside
  BY DEF Finish, Aside
<1>3. attempt[a].seq + 1 \in Nat \ {0}
  BY <1>1 DEF Emitter
<1>4. [attempt[a] EXCEPT !.pc = "done", !.stage = "finished", !.seq = attempt[a].seq + 1]
        \in Emitter
  BY <1>1, <1>3 DEF Emitter, PC
<1>5. attempt' = [attempt EXCEPT ![a] =
        [attempt[a] EXCEPT !.pc = "done", !.stage = "finished", !.seq = attempt[a].seq + 1]]
  BY <1>1 DEF Finish, Emitter
<1>6. /\ attempt' \in [Attempt -> Emitter] /\ \A b \in Attempt \ {a} : attempt'[b] = attempt[b]
      /\ attempt'[a].pc = "done" /\ attempt'[a].stage = "finished"
      /\ attempt'[a].totals = attempt[a].totals
  BY <1>1, <1>4, <1>5 DEF Emitter
<1>7. attempt[a].totals <= told /\ told \in Nat
  BY DEF IInv, TypeOK, TotalsTold
<1>8. EventsKept /\ Worsens
  BY <1>3, AppendKeeps DEF IInv, Finish, Phase, EventsKept
<1>9. Advances(a)
  BY <1>1, <1>2, <1>6, <1>7, <1>8 DEF Advances
<1> QED
  BY <1>9, AdvanceKeeps

\* A process that dies ends its attempt.
LEMMA CrashKeeps ==
  ASSUME IInv, NEW a \in Attempt, Crash(a)
  PROVE  IInv'
<1>1. Live(a) /\ told' = told /\ Aside /\ UNCHANGED events
  BY DEF Crash, Aside
<1>2. Moves(a, "ended")
  BY GoMoves DEF IInv, Crash, PC, Resting
<1>3. Worsens
  BY StrikeWorsens DEF IInv, Crash, Mishap
<1>4. EventsKept
  BY <1>1 DEF IInv, TypeOK, EventsBounded, EventsKept, Range
<1> QED
  BY <1>1, <1>2, <1>3, <1>4, MoveKeeps

-----------------------------------------------------------------------------
(* The steps that begin or end an attempt, or write its run.               *)

\* No other attempt runs, or it is known that one does
Alone(a) ==
  "overlap" \in tally'.mishaps \/ \A b \in Attempt \ {a} : ~Live(b)

\* An attempt that runs is alone.
LEMMA LiveAlone ==
  ASSUME IInv, NEW a \in Attempt, Live(a), Worsens
  PROVE  Alone(a)
  BY DEF IInv, OneAlive, Alone, Worsens

\* An attempt goes on, and the job, the run, the recorded calls or the operation
\* may have changed with it
Turns(a, pc) ==
  /\ Moves(a, pc) /\ Worsens /\ EventsKept
  /\ UNCHANGED <<import, control, client, told>>
  /\ job' \in JobRow /\ run' \in RunRow /\ op' \in Operation
  /\ DOMAIN usage' \subseteq Phase \X Nat /\ Range(usage') \subseteq Attempt
  /\ pc \notin {"tally", "record", "done"}
  /\ attempt[a].stage = "finished" => pc \in {"settle", "bury", "ended"}
  /\ Alone(a) \/ (pc \in Resting /\ run' = run)
  /\ run'.tokens = run.tokens
  /\ usage' # <<>> => run.tokens > 0 \/ "run" \in tally'.mishaps
  /\ pc = "settle" => attempt[a].stage = "finished" \/ run'.status = "failed" \/ Excused'

\* What was excused remains so.
LEMMA StillExcused ==
  ASSUME IInv, Worsens
  PROVE  /\ Excused => Excused'
         /\ tally.controls > 0 => tally'.controls > 0
         /\ "run" \in tally.mishaps => "run" \in tally'.mishaps
<1>1. tally.controls \in Nat /\ tally'.controls \in Nat /\ tally'.controls >= tally.controls
  BY DEF IInv, TypeOK, Worsens, Tally
<1> QED
  BY <1>1 DEF Excused, Worsens

\* A charge that was earned remains so.
LEMMA ChargeKept ==
  ASSUME IInv, Worsens, UNCHANGED <<op, told>>,
         \A a \in Attempt : attempt'[a].stage = attempt[a].stage
  PROVE  ChargeIsEarned'
  BY StillExcused DEF IInv, ChargeIsEarned, Worsens

\* Such a step keeps the invariant, when the attempt's place and the charge are right.
LEMMA TurnKeeps ==
  ASSUME IInv, NEW a \in Attempt, NEW pc, Turns(a, pc), Placed', ChargeIsEarned'
  PROVE  IInv'
<1>1. TypeOK'
  BY DEF IInv, TypeOK, Turns, Moves, EventsKept, Worsens
<1>2. EventsBounded'
  BY DEF Turns, EventsKept
<1>3. Worsens /\ Moves(a, pc)
  BY DEF Turns
<1>4. OneAlive'
  <2>1. CASE pc \in Resting
    <3>1. \A b \in Attempt : Live(b)' => Live(b)
      BY <1>3, <2>1 DEF Live, Moves
    <3> QED
      BY <1>3, <3>1 DEF IInv, OneAlive, Worsens
  <2>2. CASE Alone(a)
    <3>1. \A b \in Attempt \ {a} : Live(b)' => Live(b)
      BY <1>3 DEF Live, Moves
    <3> QED
      BY <2>2, <3>1 DEF OneAlive, Alone
  <2> QED
    BY <2>1, <2>2 DEF Turns
<1>5. Stages'
  BY <1>3 DEF IInv, Stages, Turns, Moves
<1>6. TotalsTold'
  <2>1. \A b \in Attempt : attempt'[b].totals = attempt[b].totals
    BY <1>3 DEF Moves
  <2>2. \A b \in Attempt : attempt'[b].pc \in {"tally", "record"} => attempt'[b].pc = attempt[b].pc
    BY <1>3 DEF Moves, Turns
  <2> QED
    BY <1>3, <2>1, <2>2, StillExcused DEF IInv, TotalsTold, Turns
<1>7. RequestsCounted'
  BY <1>3, StillExcused DEF IInv, RequestsCounted, Turns
<1>8. SettlesFailed'
  <2>1. SUFFICES ASSUME NEW b \in Attempt, attempt'[b].pc = "settle"
                 PROVE  attempt'[b].stage = "finished" \/ run'.status = "failed" \/ Excused'
    BY DEF SettlesFailed
  <2>2. CASE b = a
    BY <1>3, <2>1, <2>2 DEF Turns, Moves
  <2>3. CASE b # a
    <3>1. attempt'[b] = attempt[b] /\ Live(b)
      BY <1>3, <2>1, <2>3 DEF Moves, Live, Resting
    <3>2. CASE Alone(a)
      BY <2>3, <3>1, <3>2 DEF Alone, Excused
    <3>3. CASE run' = run
      BY <1>3, <2>1, <3>1, <3>3, StillExcused DEF IInv, SettlesFailed
    <3> QED
      BY <3>2, <3>3 DEF Turns
  <2> QED
    BY <2>2, <2>3
<1> QED
  BY <1>1, <1>2, <1>4, <1>5, <1>6, <1>7, <1>8 DEF IInv

\* The run follows its job.
LEMMA FollowTyped ==
  ASSUME TypeOK, NEW status \in {"queued", "running", "succeeded", "failed"}, Follow(status)
  PROVE  run' \in RunRow /\ run'.tokens = run.tokens
  BY DEF TypeOK, Follow, RunRow, Terminal

\* The status of a run is written.
LEMMA StatusUpdated ==
  ASSUME TypeOK, NEW status \in Terminal \cup {"queued", "running"}, UpdateRun("status", status)
  PROVE  /\ run' \in RunRow /\ run'.tokens = run.tokens
         /\ run'.status = status \/ (run' = run /\ "run" \in tally'.mishaps)
         /\ Worsens
<1>1. run \in RunRow
  BY DEF TypeOK
<1>2. /\ run' = [run EXCEPT !["status"] = status] \/ (run' = run /\ "run" \in tally'.mishaps)
      /\ Worsens
  BY RunUpdated
<1> QED
  BY <1>1, <1>2 DEF RunRow

\* The stored events do not change.
LEMMA EventsSame ==
  ASSUME TypeOK, EventsBounded, UNCHANGED events
  PROVE  EventsKept
  BY DEF TypeOK, EventsBounded, EventsKept, Range

\* A step of the worker leaves every attempt where it may be.
LEMMA WorkerPlaced ==
  ASSUME IInv, NEW a \in Attempt, NEW pc, Moves(a, pc), import' = import, ~import.inline,
         attempt[a].pc # "idle", job'.status # "none", job'.taken = job.taken
  PROVE  Placed'
  BY DEF IInv, Placed, Moves

\* So does a step of an import that the API serves.
LEMMA ServedPlaced ==
  ASSUME IInv, NEW a \in Attempt, NEW pc, Moves(a, pc), UNCHANGED <<import, job>>,
         attempt[a].pc # "idle", pc \notin {"claimed", "mark", "bury"}
  PROVE  Placed'
  BY DEF IInv, Placed, Moves

\* Claiming a job.
LEMMA ClaimKeeps ==
  ASSUME IInv, NEW a \in Attempt, Claim(a)
  PROVE  IInv'
<1>1. ~import.inline /\ job.taken < a /\ job.taken \in Nat /\ a \in Nat
  <2>1. job.taken \in Nat /\ a \in Nat /\ job.taken + 1 = a
    BY LimitsAssumption DEF IInv, TypeOK, JobRow, Claim, Attempt
  <2> QED
    BY <2>1 DEF IInv, Placed, Claim
<1>2. attempt[a].pc = "idle"
  BY <1>1 DEF IInv, Placed
<1>3. Moves(a, "claimed")
  BY GoMoves DEF IInv, Claim, PC, Resting
<1>4. Worsens /\ EventsKept
  <2>1. left' \in Budget /\ tally.controls \in Nat
    BY DEF IInv, TypeOK, Claim, Spend, Budget, Tally
  <2> QED
    BY <2>1, EventsSame DEF IInv, TypeOK, Claim, Worsens
<1>5. job' \in JobRow /\ job'.status # "none"
  BY LimitsAssumption DEF Claim, JobRow, Attempt
<1>6. Placed'
  <2>1. \A b \in Attempt : b > a => attempt'[b].pc = "idle"
    <3>1. \A b \in Attempt : b > a => b # a /\ b > job.taken
      BY <1>1 DEF Attempt
    <3> QED
      BY <1>1, <1>3, <3>1 DEF IInv, Placed, Moves
  <2> QED
    BY <1>1, <1>5, <2>1 DEF Placed, Claim
<1>7. attempt[a].stage # "finished"
  BY <1>2 DEF IInv, Stages
<1>8. usage # <<>> => run.tokens > 0 \/ "run" \in tally'.mishaps
  BY DEF IInv, TotalsTold, Claim
<1>9. Turns(a, "claimed")
  BY <1>3, <1>4, <1>5, <1>7, <1>8 DEF IInv, TypeOK, Turns, Claim, Resting
<1>10. ChargeIsEarned'
  BY <1>3, <1>4, ChargeKept DEF Claim, Moves
<1> QED
  BY <1>6, <1>9, <1>10, TurnKeeps

\* What a step that writes no usage and no charge is asked for
Turned(a, pc) ==
  /\ Moves(a, pc) /\ Worsens /\ Alone(a)
  /\ UNCHANGED <<import, events, usage, op, control, client, told>>
  /\ job' \in JobRow /\ run' \in RunRow /\ run'.tokens = run.tokens
  /\ pc \notin {"tally", "record", "done"}
  /\ attempt[a].stage = "finished" => pc \in {"settle", "bury", "ended"}
  /\ pc = "settle" => attempt[a].stage = "finished" \/ run'.status = "failed" \/ Excused'

\* It keeps the invariant.
LEMMA TurnedKeeps ==
  ASSUME IInv, NEW a \in Attempt, NEW pc, Turned(a, pc), Placed'
  PROVE  IInv'
<1>1. EventsKept
  BY EventsSame DEF IInv, Turned
<1>2. usage # <<>> => run.tokens > 0 \/ "run" \in tally'.mishaps
  BY StillExcused DEF IInv, TotalsTold, Turned
<1>3. Turns(a, pc)
  BY <1>1, <1>2 DEF IInv, TypeOK, Turns, Turned
<1>4. ChargeIsEarned'
  BY ChargeKept DEF Turned, Moves
<1> QED
  BY <1>3, <1>4, TurnKeeps

\* An attempt that runs and writes the status of its run.
LEMMA WritesStatus ==
  ASSUME IInv, NEW a \in Attempt, Live(a), NEW pc \in PC \ {"tally", "record", "done"},
         NEW status \in Terminal \cup {"queued", "running"},
         Go(a, pc), UpdateRun("status", status),
         attempt[a].stage = "finished" => pc \in {"settle", "bury", "ended"},
         pc = "settle" => attempt[a].stage = "finished" \/ status = "failed",
         UNCHANGED <<import, job, events, usage, op, control, client, told>>
  PROVE  Turned(a, pc)
<1>1. Moves(a, pc)
  BY GoMoves DEF IInv
<1>2. /\ run' \in RunRow /\ run'.tokens = run.tokens /\ Worsens
      /\ run'.status = status \/ "run" \in tally'.mishaps
  BY StatusUpdated DEF IInv
<1>3. Alone(a)
  BY <1>2, LiveAlone
<1>4. pc = "settle" => attempt[a].stage = "finished" \/ run'.status = "failed" \/ Excused'
  BY <1>2 DEF Excused
<1> QED
  BY <1>1, <1>2, <1>3, <1>4 DEF IInv, TypeOK, Turned

\* The worker announces the attempt.
LEMMA AnnounceKeeps ==
  ASSUME IInv, NEW a \in Attempt, Announce(a)
  PROVE  IInv'
<1>1. attempt[a].pc = "claimed" /\ ~import.inline
  BY DEF IInv, Placed, Announce, At
<1>2. PICK pc \in {"ended", "mark"} : Go(a, pc)
  BY DEF Announce
<1>3. Moves(a, pc)
  BY <1>2, GoMoves DEF IInv, PC, Resting
<1>4. Worsens /\ Alone(a)
  <2>1. tally \in Tally /\ left \in Budget /\ tally.controls \in Nat
    BY DEF IInv, TypeOK, Tally
  <2>2. CASE \E b \in Attempt \ {a} : Live(b)
    <3>1. tally' = [tally EXCEPT !.mishaps = @ \cup {"overlap"}] /\ left' = left
      BY <2>2 DEF Announce
    <3>2. tally' \in Tally /\ tally'.mishaps = tally.mishaps \cup {"overlap"}
          /\ tally'.controls = tally.controls
      BY <2>1, <3>1 DEF Tally, Mishap
    <3> QED
      BY <2>1, <3>1, <3>2 DEF Worsens, Alone
  <2>3. CASE ~\E b \in Attempt \ {a} : Live(b)
    BY <2>1, <2>3 DEF Announce, Worsens, Alone
  <2> QED
    BY <2>2, <2>3
<1>5. /\ job' \in JobRow /\ job'.status # "none" /\ job'.taken = job.taken
      /\ run' \in RunRow /\ run'.tokens = run.tokens
  <2>1. CASE job.status \in Terminal
    BY <1>1, <2>1 DEF IInv, TypeOK, Placed, Announce
  <2>2. CASE job.status \notin Terminal
    <3>1. job' = [job EXCEPT !.status = "running"] /\ Follow("running")
      BY <2>2 DEF Announce
    <3> QED
      BY <3>1, FollowTyped DEF IInv, TypeOK, JobRow
  <2> QED
    BY <2>1, <2>2
<1>6. Placed'
  BY <1>1, <1>3, <1>5, WorkerPlaced DEF Announce
<1>7. attempt[a].stage # "finished"
  BY <1>1 DEF IInv, Stages
<1>8. Turned(a, pc)
  BY <1>3, <1>4, <1>5, <1>7 DEF Turned, Announce
<1> QED
  BY <1>6, <1>8, TurnedKeeps

\* It marks the run as running.
LEMMA MarkRunningKeeps ==
  ASSUME IInv, NEW a \in Attempt, MarkRunning(a)
  PROVE  IInv'
<1>1. attempt[a].pc = "mark" /\ ~import.inline /\ attempt[a].stage # "finished"
  BY DEF IInv, Placed, Stages, MarkRunning, At
<1>2. Turned(a, "open")
  <2>1. "open" \in PC \ {"tally", "record", "done"} /\ Live(a)
    BY <1>1 DEF PC, Live, Resting
  <2> QED
    BY <1>1, <2>1, WritesStatus DEF MarkRunning
<1>3. Placed'
  BY <1>1, <1>2, WorkerPlaced DEF IInv, Placed, Turned, MarkRunning
<1> QED
  BY <1>2, <1>3, TurnedKeeps

\* The API takes up an import.
LEMMA ServeKeeps ==
  ASSUME IInv, NEW a \in Attempt, Serve(a)
  PROVE  IInv'
<1>1. import.inline /\ a = 1 /\ attempt[a].pc = "idle" /\ attempt[a].stage # "finished"
  BY DEF IInv, Stages, Serve, At
<1>2. Moves(a, "open")
  BY GoMoves DEF IInv, Serve, PC
<1>3. Worsens
  BY QuietlyKeeps DEF IInv, Serve
<1>4. Alone(a)
  BY <1>1 DEF IInv, Placed, Alone, Live, Resting
<1>5. Turned(a, "open")
  BY <1>1, <1>2, <1>3, <1>4 DEF IInv, TypeOK, Turned, Serve
<1>6. Placed'
  BY <1>1, <1>2 DEF IInv, Placed, Moves, Serve
<1> QED
  BY <1>5, <1>6, TurnedKeeps

\* The API writes that the run is queued, running, or at its end.
LEMMA InlineKeeps ==
  ASSUME IInv, NEW a \in Attempt, QueueRun(a) \/ RunInline(a) \/ FinalizeInline(a)
  PROVE  IInv'
<1>1. attempt[a].pc \in {"queue", "running", "done", "failed"} /\ Live(a)
  BY DEF QueueRun, RunInline, FinalizeInline, At, Live, Resting
<1>2. CASE QueueRun(a)
  <2>1. attempt[a].stage # "finished" /\ "receive" \in PC \ {"tally", "record", "done"}
    BY <1>2 DEF IInv, Stages, QueueRun, At, PC
  <2>2. Turned(a, "receive")
    BY <1>1, <1>2, <2>1, WritesStatus DEF QueueRun
  <2>3. Placed'
    BY <1>1, <1>2, <2>2, ServedPlaced DEF Turned, QueueRun
  <2> QED
    BY <2>2, <2>3, TurnedKeeps
<1>3. CASE RunInline(a)
  <2>1. attempt[a].stage # "finished" /\ FirstStep \in PC \ {"tally", "record", "done"}
        /\ FirstStep \in {"layout", "call"}
    BY <1>3 DEF IInv, Stages, RunInline, At, PC, FirstStep
  <2>2. Turned(a, FirstStep)
    BY <1>1, <1>3, <2>1, WritesStatus DEF RunInline
  <2>3. Placed'
    BY <1>1, <1>3, <2>1, <2>2, ServedPlaced DEF Turned, RunInline
  <2> QED
    BY <2>2, <2>3, TurnedKeeps
<1>4. CASE FinalizeInline(a)
  <2> DEFINE status == IF At(a, "done") THEN "succeeded" ELSE "failed"
  <2>1. status \in Terminal /\ "settle" \in PC \ {"tally", "record", "done"}
        /\ (attempt[a].stage = "finished" \/ status = "failed")
    BY DEF IInv, Stages, Terminal, At, PC
  <2>2. Turned(a, "settle")
    BY <1>1, <1>4, <2>1, WritesStatus DEF FinalizeInline
  <2>3. Placed'
    BY <1>1, <1>4, <2>2, ServedPlaced DEF Turned, FinalizeInline
  <2> QED
    BY <2>2, <2>3, TurnedKeeps
<1> QED
  BY <1>2, <1>3, <1>4

\* The worker moves the job, and with it the run.
LEMMA JobKeeps ==
  ASSUME IInv, NEW a \in Attempt, CompleteJob(a) \/ RetryJob(a) \/ Bury(a)
  PROVE  IInv'
<1>1. attempt[a].pc \in {"done", "failed", "bury"} /\ Live(a) /\ ~import.inline
  BY DEF IInv, Placed, CompleteJob, RetryJob, Bury, At, Live, Resting
<1>2. Go(a, "ended") /\ UNCHANGED <<import, events, usage, op, control, client, told, tally, left>>
  BY DEF CompleteJob, RetryJob, Bury
<1>3. Moves(a, "ended")
  BY <1>2, GoMoves DEF IInv, PC, Resting
<1>4. Worsens /\ Alone(a)
  BY <1>1, <1>2, QuietlyKeeps, LiveAlone DEF IInv
<1>5. /\ job' \in JobRow /\ job'.status # "none" /\ job'.taken = job.taken
      /\ run' \in RunRow /\ run'.tokens = run.tokens
  <2>1. CASE UNCHANGED <<job, run>>
    BY <1>1, <2>1 DEF IInv, TypeOK, Placed
  <2>2. CASE \E to \in {"succeeded", "retryable", "failed"},
                follow \in {"succeeded", "queued", "failed"} :
               job' = [job EXCEPT !.status = to] /\ Follow(follow)
    <3>1. run' \in RunRow /\ run'.tokens = run.tokens
      BY <2>2, FollowTyped DEF IInv
    <3> QED
      BY <2>2, <3>1 DEF IInv, TypeOK, JobRow, Terminal
  <2> QED
    BY <2>1, <2>2 DEF CompleteJob, RetryJob, Bury
<1>6. Placed'
  BY <1>1, <1>2, <1>3, <1>5, WorkerPlaced
<1>7. Turned(a, "ended")
  BY <1>2, <1>3, <1>4, <1>5 DEF Turned
<1> QED
  BY <1>6, <1>7, TurnedKeeps

\* The worker writes that the run failed.
LEMMA FinalizeFailedKeeps ==
  ASSUME IInv, NEW a \in Attempt, FinalizeFailed(a)
  PROVE  IInv'
<1>1. attempt[a].pc = "failed" /\ Live(a) /\ "settle" \in PC \ {"tally", "record", "done"}
  BY DEF FinalizeFailed, At, Live, Resting, PC
<1>2. Turned(a, "settle")
  BY <1>1, WritesStatus DEF FinalizeFailed, Terminal
<1>3. Placed'
  BY <1>1, <1>2, WorkerPlaced DEF IInv, Placed, Turned, FinalizeFailed
<1> QED
  BY <1>2, <1>3, TurnedKeeps

\* The totals are written over those of the run.
LEMMA WriteTotalsKeeps ==
  ASSUME IInv, NEW a \in Attempt, WriteTotals(a)
  PROVE  IInv'
<1> DEFINE total == attempt[a].totals + 1
<1>1. /\ attempt[a] \in Emitter /\ attempt \in [Attempt -> Emitter]
      /\ attempt[a].pc = "tally" /\ attempt[a].stage # "finished"
      /\ total \in Nat /\ total > 0 /\ total <= told
  <2>1. attempt[a] \in Emitter /\ attempt \in [Attempt -> Emitter] /\ attempt[a].pc = "tally"
    BY DEF IInv, TypeOK, WriteTotals, At
  <2>2. attempt[a].stage # "finished" /\ total <= told
    BY <2>1 DEF IInv, TotalsTold, Stages
  <2> QED
    BY <2>1, <2>2 DEF Emitter
<1> HIDE DEF total
<1>2. /\ attempt' \in [Attempt -> Emitter] /\ \A b \in Attempt \ {a} : attempt'[b] = attempt[b]
      /\ attempt'[a].pc = "record" /\ attempt'[a].stage = attempt[a].stage
      /\ attempt'[a].totals = total
  <2>1. [attempt[a] EXCEPT !.pc = "record", !.totals = total] \in Emitter
    BY <1>1 DEF Emitter, PC
  <2>2. attempt' = [attempt EXCEPT ![a] = [attempt[a] EXCEPT !.pc = "record", !.totals = total]]
    BY <1>1 DEF WriteTotals, total
  <2> QED
    BY <1>1, <2>1, <2>2 DEF Emitter
<1>3. /\ run' = [run EXCEPT !["tokens"] = total] \/ (run' = run /\ "run" \in tally'.mishaps)
      /\ Worsens
  BY RunUpdated DEF IInv, WriteTotals, total
<1>4. run' \in RunRow /\ run'.status = run.status /\ run'.tokens <= told
      /\ (run'.tokens > 0 \/ "run" \in tally'.mishaps)
  <2>1. run \in RunRow /\ run.tokens <= told
    BY DEF IInv, TypeOK, TotalsTold
  <2> QED
    BY <1>1, <1>3, <2>1 DEF RunRow
<1>5. EventsKept
  BY EventsSame DEF IInv, WriteTotals
<1>6. TypeOK' /\ EventsBounded'
  BY <1>2, <1>3, <1>4, <1>5 DEF IInv, TypeOK, WriteTotals, Worsens, EventsKept
<1>7. Placed'
  BY <1>1, <1>2 DEF IInv, Placed, WriteTotals
<1>8. OneAlive'
  <2>1. \A b \in Attempt : Live(b)' => Live(b)
    BY <1>1, <1>2 DEF Live, Resting
  <2> QED
    BY <1>3, <2>1 DEF IInv, OneAlive, Worsens
<1>9. Stages'
  BY <1>1, <1>2 DEF IInv, Stages
<1>10. TotalsTold'
  BY <1>1, <1>2, <1>4 DEF IInv, TotalsTold, WriteTotals
<1>11. RequestsCounted'
  BY <1>3, StillExcused DEF IInv, RequestsCounted, WriteTotals
<1>12. SettlesFailed'
  BY <1>2, <1>3, <1>4, StillExcused DEF IInv, SettlesFailed
<1>13. ChargeIsEarned'
  <2>1. op' = op /\ told' = told /\ \A b \in Attempt : attempt'[b].stage = attempt[b].stage
    BY <1>2 DEF WriteTotals
  <2> QED
    BY <1>3, <2>1, ChargeKept
<1> QED
  BY <1>6, <1>7, <1>8, <1>9, <1>10, <1>11, <1>12, <1>13 DEF IInv

\* A call is recorded after the totals were written.
LEMMA RecordUsageKeeps ==
  ASSUME IInv, NEW a \in Attempt, RecordUsage(a)
  PROVE  IInv'
<1>1. attempt[a].pc = "record" /\ Live(a) /\ attempt[a].stage # "finished"
  BY DEF IInv, Stages, RecordUsage, At, Live, Resting
<1>2. Moves(a, "judge")
  BY GoMoves DEF IInv, RecordUsage, PC
<1>3. Worsens
  <2>1. CASE Calmly
    BY <2>1, QuietlyKeeps DEF IInv, RecordUsage, Calmly
  <2>2. CASE Strike("usage")
    BY <2>2, StrikeWorsens DEF IInv, Mishap
  <2> QED
    BY <2>1, <2>2 DEF RecordUsage
<1>4. DOMAIN usage' \subseteq Phase \X Nat /\ Range(usage') \subseteq Attempt
  <2>1. CASE UNCHANGED usage
    BY <2>1 DEF IInv, TypeOK, Range
  <2>2. CASE usage' = Put(usage, <<UsagePhase(a), attempt[a].seq>>, a)
    <3>1. <<UsagePhase(a), attempt[a].seq>> \in Phase \X Nat
      BY DEF IInv, TypeOK, Emitter, UsagePhase, Phase
    <3>2. \A k \in DOMAIN usage : usage[k] \in Attempt
      BY DEF IInv, TypeOK, Range
    <3>3. /\ DOMAIN usage' = DOMAIN usage \cup {<<UsagePhase(a), attempt[a].seq>>}
          /\ \A k \in DOMAIN usage' : usage'[k] \in Attempt
      BY <2>2, <3>2 DEF Put
    <3> QED
      BY <3>1, <3>3 DEF IInv, TypeOK, Range
  <2> QED
    BY <2>1, <2>2 DEF RecordUsage
<1>5. run.tokens > 0 \/ "run" \in tally'.mishaps
  BY <1>1, <1>3, StillExcused DEF IInv, TotalsTold
<1>6. Turns(a, "judge")
  BY <1>1, <1>2, <1>3, <1>4, <1>5, LiveAlone, EventsSame
  DEF IInv, TypeOK, Turns, RecordUsage
<1>7. Placed'
  BY <1>1, <1>2 DEF IInv, Placed, Moves, RecordUsage, Live, Resting
<1>8. ChargeIsEarned'
  BY <1>2, <1>3, ChargeKept DEF RecordUsage, Moves
<1> QED
  BY <1>6, <1>7, <1>8, TurnKeeps

\* What is charged was told, and the import carried out or excused.
LEMMA SettleKeeps ==
  ASSUME IInv, NEW a \in Attempt, Settle(a)
  PROVE  IInv'
<1>1. attempt[a].pc = "settle" /\ Live(a)
  BY DEF Settle, At, Live, Resting
<1>2. PICK pc \in {"ended", "bury"} : Go(a, pc) /\ (pc = "bury" => ~import.inline)
  BY DEF Settle
<1>3. Moves(a, pc)
  BY <1>2, GoMoves DEF IInv, PC, Resting
<1>4. Worsens
  <2>1. CASE Calmly
    BY <2>1, QuietlyKeeps DEF IInv, Settle, Calmly
  <2>2. CASE Strike("usage")
    BY <2>2, StrikeWorsens DEF IInv, Mishap
  <2> QED
    BY <2>1, <2>2 DEF Settle
<1>5. Placed'
  BY <1>1, <1>2, <1>3, WorkerPlaced, ServedPlaced DEF IInv, Placed, Settle
<1>6. op' \in Operation /\ ChargeIsEarned'
  <2>1. CASE op' = op
    BY <1>3, <1>4, <2>1, ChargeKept DEF IInv, TypeOK, Settle, Moves
  <2>2. CASE op' = Release
    BY <2>2, LimitsAssumption DEF Release, Operation, ChargeIsEarned
  <2>3. CASE op' = Charge /\ ~NothingUsed /\ run.status \notin {"failed", "cancelled"}
    <3>1. run.tokens \in Nat /\ told \in Nat /\ run.tokens <= told /\ told' = told
      BY DEF IInv, TypeOK, TotalsTold, RunRow, Settle
    <3>2. op'.charge \in 0..Reserved /\ op' \in Operation
      BY <2>3, <3>1, LimitsAssumption DEF Charge, Operation
    <3>3. attempt'[a].stage = "finished" \/ Excused'
      BY <1>1, <1>3, <1>4, <2>3, StillExcused DEF IInv, SettlesFailed, Moves
    <3>4. op'.charge <= told' \/ "run" \in tally'.mishaps
      <4>1. CASE run.tokens > 0
        <5>1. op'.charge = run.tokens \/ (op'.charge = Reserved /\ run.tokens > Reserved)
          BY <2>3, <3>1, <4>1, LimitsAssumption DEF Charge
        <5> QED
          BY <3>1, <5>1, LimitsAssumption
      <4>2. CASE run.tokens = 0
        BY <1>4, <2>3, <4>2, StillExcused DEF IInv, TotalsTold, NothingUsed
      <4> QED
        BY <3>1, <4>1, <4>2
    <3> QED
      BY <3>2, <3>3, <3>4 DEF ChargeIsEarned, Excused
  <2> QED
    BY <2>1, <2>2, <2>3 DEF Settle, Settlement
<1>7. usage # <<>> => run.tokens > 0 \/ "run" \in tally'.mishaps
  BY <1>4, StillExcused DEF IInv, TotalsTold
<1>8. Turns(a, pc)
  BY <1>1, <1>3, <1>4, <1>6, <1>7, LiveAlone, EventsSame DEF IInv, TypeOK, Turns, Settle
<1> QED
  BY <1>5, <1>6, <1>8, TurnKeeps

-----------------------------------------------------------------------------
(* Operators and clients.                                                  *)

\* What is not an attempt's keeps the invariant, when it excuses what it writes.
LEMMA OthersKeep ==
  ASSUME IInv, UNCHANGED <<import, attempt, usage, op, told>>, EventsKept, Worsens,
         job' \in JobRow, job'.taken = job.taken,
         (job'.status = "none") <=> (job.status = "none"),
         run' \in RunRow, run'.tokens = run.tokens,
         run'.status = run.status \/ tally'.controls > 0,
         control' \in Request, control'.pc # "idle" => tally'.controls > 0 /\ control'.seq > 0,
         client' \in Client
  PROVE  IInv'
<1>1. TypeOK' /\ EventsBounded'
  BY DEF IInv, TypeOK, EventsKept, Worsens
<1>2. Placed' /\ Stages'
  BY DEF IInv, Placed, Stages
<1>3. OneAlive'
  BY DEF IInv, OneAlive, Worsens, Live
<1>4. TotalsTold'
  BY StillExcused DEF IInv, TotalsTold
<1>5. RequestsCounted'
  BY DEF RequestsCounted
<1>6. SettlesFailed'
  BY StillExcused DEF IInv, SettlesFailed, Excused
<1>7. ChargeIsEarned'
  BY ChargeKept
<1> QED
  BY <1>1, <1>2, <1>3, <1>4, <1>5, <1>6, <1>7 DEF IInv

\* A request counts itself.
LEMMA RequestCounts ==
  ASSUME TypeOK, Spend("controls") \/ SpendFault("controls"),
         tally' = [tally EXCEPT !.controls = @ + 1]
  PROVE  Worsens /\ tally'.controls > 0
  BY DEF TypeOK, Spend, SpendFault, Worsens, Tally, Budget

\* A cancellation.
LEMMA CancelKeeps ==
  ASSUME IInv, Cancel
  PROVE  IInv'
<1>1. Worsens /\ tally'.controls > 0
  BY RequestCounts DEF IInv, Cancel
<1>2. EventsKept
  <2>1. Latest \in Nat /\ Latest + 1 \in Nat \ {0}
    BY LatestTyped DEF IInv
  <2> QED
    BY <2>1, StoreKeeps DEF IInv, Cancel, EventsKept, Phase
<1>3. run' \in RunRow /\ run'.tokens = run.tokens
  BY DEF IInv, TypeOK, Cancel, RunRow, Terminal
<1>4. /\ job' \in JobRow /\ job'.taken = job.taken
      /\ (job'.status = "none") <=> (job.status = "none")
  BY DEF IInv, TypeOK, Cancel, JobRow, Terminal
<1> QED
  BY <1>1, <1>2, <1>3, <1>4, OthersKeep DEF IInv, TypeOK, RequestsCounted, Cancel

\* A request takes a number for its event.
LEMMA AskControlKeeps ==
  ASSUME IInv, AskControl
  PROVE  IInv'
<1>1. Worsens /\ tally'.controls > 0
  BY RequestCounts DEF IInv, AskControl
<1>2. EventsKept
  BY EventsSame DEF IInv, AskControl
<1>3. Cardinality(DOMAIN events) + 1 \in Nat \ {0}
  <2>1. PICK m \in Nat : \A s \in DOMAIN events : s <= m
    BY DEF IInv, EventsBounded
  <2>2. DOMAIN events \subseteq 0..m /\ IsFiniteSet(0..m)
    <3>1. DOMAIN events \subseteq Nat
      BY DEF IInv, TypeOK
    <3> QED
      BY <2>1, <3>1, FS_Interval
  <2>3. Cardinality(DOMAIN events) \in Nat
    BY <2>2, FS_Subset, FS_CardinalityType
  <2> QED
    BY <2>3
<1>4. control' \in Request /\ control'.seq > 0
  BY <1>3 DEF AskControl, Request, Phase
<1> QED
  BY <1>1, <1>2, <1>4, OthersKeep DEF IInv, TypeOK, AskControl

\* It inserts the event.
LEMMA AppendControlKeeps ==
  ASSUME IInv, AppendControl
  PROVE  IInv'
<1>1. /\ control \in Request /\ control.pc = "insert" /\ tally.controls > 0
      /\ control.seq \in Nat \ {0} /\ control.phase \in Phase
  BY DEF IInv, TypeOK, RequestsCounted, AppendControl, Request
<1>2. EventsKept /\ Worsens
  BY <1>1, AppendKeeps DEF IInv, AppendControl, EventsKept
<1>3. tally'.controls > 0
  BY <1>1, <1>2, StillExcused
<1>4. control' \in Request /\ control'.seq > 0
  BY <1>1 DEF AppendControl, Request
<1> QED
  BY <1>2, <1>3, <1>4, OthersKeep DEF IInv, TypeOK, AppendControl

\* It writes what it asks for.
LEMMA WriteControlKeeps ==
  ASSUME IInv, WriteControl
  PROVE  IInv'
<1>1. control \in Request /\ control.pc = "write" /\ tally.controls > 0
  BY DEF IInv, TypeOK, RequestsCounted, WriteControl
<1>2. run' \in RunRow /\ run'.tokens = run.tokens /\ Worsens
  BY StatusUpdated DEF IInv, WriteControl, Terminal
<1>3. tally'.controls > 0 /\ EventsKept
  BY <1>1, <1>2, StillExcused, EventsSame DEF IInv, WriteControl
<1>4. control' \in Request /\ control'.pc = "idle"
  BY DEF WriteControl, NoRequest, Request, Phase
<1> QED
  BY <1>2, <1>3, <1>4, OthersKeep DEF IInv, TypeOK, WriteControl

\* A client reads a page, or none.
LEMMA PollKeeps ==
  ASSUME IInv, Poll
  PROVE  IInv'
<1>1. NextPage \subseteq DOMAIN events
  BY DEF NextPage, Unread
<1>2. Max(NextPage \cup {client.after}) \in Nat
  <2>1. client.after \in Nat /\ NextPage \cup {client.after} \in SUBSET Nat
    BY <1>1 DEF IInv, TypeOK, Client
  <2>2. PICK m \in Nat : \A s \in DOMAIN events : s <= m
    BY DEF IInv, EventsBounded
  <2>3. \A s \in NextPage \cup {client.after} : s <= m + client.after
    BY <1>1, <2>1, <2>2 DEF IInv, TypeOK
  <2>4. m + client.after \in Nat
    BY <2>1
  <2> QED
    BY <2>1, <2>3, <2>4, GreatestExists
<1>3. {<<s, events[s]>> : s \in NextPage} \subseteq Nat \X Event
  BY <1>1 DEF IInv, TypeOK, Range
<1>4. client' \in Client
  <2>1. /\ client \in Client /\ LastSeq \in Nat
        /\ Unread \subseteq Nat
    BY LatestTyped DEF IInv, TypeOK, Client, LastSeq, Unread
  <2>2. CASE ReadPage
    <3> DEFINE got == {<<s, events[s]>> : s \in NextPage}
               next == Max(NextPage \cup {client.after})
               over == \/ run.status \in Terminal
                       \/ \E s \in NextPage : events[s].phase \in TerminalPhases
    <3>1. /\ got \subseteq Nat \X Event /\ next \in Nat /\ over \in BOOLEAN
          /\ Unread \ NextPage \subseteq Nat
      BY <1>2, <1>3, <2>1
    <3>2. client' = [client EXCEPT
             !.seen = @ \cup got,
             !.after = IF client.follows = "events" THEN next ELSE LastSeq,
             !.passed = IF client.follows = "events" THEN @ ELSE @ \cup (Unread \ NextPage),
             !.told = over]
      BY <2>2 DEF ReadPage
    <3> HIDE DEF got, next, over
    <3> QED
      BY <2>1, <3>1, <3>2 DEF Client
  <2>3. CASE ReadNothing
    <3> DEFINE over == run.status \in Terminal
    <3>1. over \in BOOLEAN
      OBVIOUS
    <3>2. client' = [client EXCEPT !.told = over]
      BY <2>3 DEF ReadNothing
    <3> HIDE DEF over
    <3> QED
      BY <2>1, <3>1, <3>2 DEF Client
  <2> QED
    BY <2>2, <2>3 DEF Poll
<1>5. Worsens /\ EventsKept
  <2>1. left' \in Budget /\ tally \in Tally /\ tally.controls \in Nat
    BY DEF IInv, TypeOK, Poll, ReadPage, ReadNothing, Spend, SpendFault, Budget, Tally
  <2> QED
    BY <2>1, EventsSame DEF IInv, Poll, Worsens
<1> QED
  BY <1>4, <1>5, OthersKeep DEF IInv, TypeOK, RequestsCounted, Poll, Worsens, Tally

-----------------------------------------------------------------------------
(* The invariant.                                                          *)

\* It holds at first.
LEMMA InitInv == Init => IInv
<1> SUFFICES ASSUME Init PROVE IInv
  OBVIOUS
<1>1. import \in ImportForm /\ left \in Budget
  BY CaseAssumption DEF Init
<1>0. client \in Client
  BY CaseAssumption DEF Init, Client
<1>2. 1 \in 1..(Evidence + 1) /\ 0 \in 0..Attempts /\ 0 \in 0..Reserved
  BY LimitsAssumption
<1>3. Idle \in Emitter
  BY <1>2 DEF Idle, Emitter, PC, Resting
<1>4. events = <<>> /\ DOMAIN events = {} /\ usage = <<>> /\ DOMAIN usage = {}
  BY DEF Init
<1>5. \A a \in Attempt : attempt[a] = Idle /\ ~Live(a)
  BY DEF Init, Idle, Live, Resting
<1>6. TypeOK
  <2>1. job \in JobRow /\ run \in RunRow /\ op \in Operation
    BY <1>1, <1>2 DEF Init, JobRow, RunRow, Operation, ImportForm
  <2>2. attempt \in [Attempt -> Emitter]
    BY <1>3 DEF Init
  <2>3. control \in Request /\ client \in Client /\ told \in Nat /\ tally \in Tally
    BY <1>0 DEF Init, NoRequest, Request, Phase, Tally
  <2> QED
    BY <1>1, <1>4, <2>1, <2>2, <2>3 DEF TypeOK, Range
<1>7. EventsBounded
  BY <1>4 DEF EventsBounded
<1>8. Placed /\ Stages /\ OneAlive /\ SettlesFailed
  BY <1>5 DEF Init, Placed, Stages, OneAlive, SettlesFailed, Idle
<1>9. TotalsTold
  BY <1>4, <1>5 DEF Init, TotalsTold, Idle
<1>10. RequestsCounted /\ ChargeIsEarned
  BY DEF Init, RequestsCounted, ChargeIsEarned, NoRequest
<1> QED
  BY <1>6, <1>7, <1>8, <1>9, <1>10 DEF IInv

\* Every step of an attempt keeps it.
LEMMA StepKeeps ==
  ASSUME IInv, NEW a \in Attempt, Step(a)
  PROVE  IInv'
<1>1. CASE Claim(a)
  BY <1>1, ClaimKeeps
<1>2. CASE Announce(a)
  BY <1>2, AnnounceKeeps
<1>3. CASE MarkRunning(a)
  BY <1>3, MarkRunningKeeps
<1>4. CASE Serve(a)
  BY <1>4, ServeKeeps
<1>5. CASE OpenEmitter(a)
  BY <1>5, OpenEmitterKeeps
<1>6. CASE ReadTotals(a)
  BY <1>6, ReadTotalsKeeps
<1>7. CASE WriteTotals(a)
  BY <1>7, WriteTotalsKeeps
<1>8. CASE RecordUsage(a)
  BY <1>8, RecordUsageKeeps
<1>9. CASE QueueRun(a) \/ RunInline(a) \/ FinalizeInline(a)
  BY <1>9, InlineKeeps
<1>10. CASE Receive(a) \/ StartWorkflow(a) \/ ReadLayout(a) \/ Fail(a)
  BY <1>10, DocumentKeeps
<1>11. CASE CallExtraction(a) \/ CallSuggestions(a)
  BY <1>11, CallKeeps
<1>12. CASE JudgeExtraction(a) \/ JudgeSuggestions(a)
  BY <1>12, JudgeKeeps
<1>13. CASE Enrich(a)
  BY <1>13, EnrichKeeps
<1>14. CASE Finish(a)
  BY <1>14, FinishKeeps
<1>15. CASE CompleteJob(a) \/ RetryJob(a) \/ Bury(a)
  BY <1>15, JobKeeps
<1>16. CASE FinalizeFailed(a)
  BY <1>16, FinalizeFailedKeeps
<1>17. CASE Settle(a)
  BY <1>17, SettleKeeps
<1>18. CASE Crash(a)
  BY <1>18, CrashKeeps
<1> QED
  BY <1>1, <1>2, <1>3, <1>4, <1>5, <1>6, <1>7, <1>8, <1>9, <1>10, <1>11, <1>12, <1>13,
     <1>14, <1>15, <1>16, <1>17, <1>18 DEF Step

\* So does doing nothing.
LEMMA StutterKeeps ==
  ASSUME IInv, UNCHANGED vars
  PROVE  IInv'
  BY DEF vars, IInv, TypeOK, EventsBounded, Placed, OneAlive, Live, Stages, TotalsTold,
         RequestsCounted, SettlesFailed, Excused, ChargeIsEarned, Range

\* The invariant holds in every state: places, totals and charges of an import,
\* whatever its attempts, the operators and the clients do.
THEOREM Inductive == Spec => []IInv
<1>1. Init => IInv
  BY InitInv
<1>2. IInv /\ [Next]_vars => IInv'
  <2> SUFFICES ASSUME IInv, [Next]_vars PROVE IInv'
    OBVIOUS
  <2>1. CASE \E a \in Attempt : Step(a)
    BY <2>1, StepKeeps
  <2>2. CASE Cancel
    BY <2>2, CancelKeeps
  <2>3. CASE AskControl
    BY <2>3, AskControlKeeps
  <2>4. CASE AppendControl
    BY <2>4, AppendControlKeeps
  <2>5. CASE WriteControl
    BY <2>5, WriteControlKeeps
  <2>6. CASE Poll
    BY <2>6, PollKeeps
  <2>7. CASE UNCHANGED vars
    BY <2>7, StutterKeeps
  <2> QED
    BY <2>1, <2>2, <2>3, <2>4, <2>5, <2>6, <2>7 DEF Next
<1> QED
  BY <1>1, <1>2, PTL DEF Spec

\* The rows of an import, its attempts and its client are what they can be.
THEOREM TypeCorrect == Spec => []TypeOK
<1>1. IInv => TypeOK
  BY DEF IInv
<1> QED
  BY <1>1, Inductive, PTL

\* A merchant pays only for an import that was carried out, and never for more than
\* the providers told, unless the status or the totals could not be written, an
\* operator's request came in between, or two attempts ran at once.
THEOREM ChargesAreEarned == Spec => []ChargeIsEarned
<1>1. IInv => ChargeIsEarned
  BY DEF IInv
<1> QED
  BY <1>1, Inductive, PTL

-----------------------------------------------------------------------------
(* What a client sees.                                                     *)

\* As long as no event is lost the numbers have no gap, and no attempt, request or
\* client is ahead of them
Numbered ==
  tally.lost = 0 =>
    /\ \E n \in Nat : DOMAIN events = 1..n
    /\ \A a \in Attempt : attempt[a].seq \in DOMAIN events \cup {0}
    /\ control.pc = "insert" => control.seq - 1 \in DOMAIN events \cup {0}
    /\ client.after \in DOMAIN events \cup {0}

SInv == IInv /\ Numbered /\ ClientMissesNothing

\* A step that tells no event takes up numbers that are stored, or none.
LEMMA SameNumbers ==
  ASSUME SInv, UNCHANGED <<events, client>>, tally'.lost = tally.lost,
         control'.pc = "insert" => control' = control,
         \A a \in Attempt : attempt'[a].seq \in {attempt[a].seq, 0, Latest}
  PROVE  Numbered' /\ ClientMissesNothing'
<1>1. Numbered'
  <2>1. Latest \in DOMAIN events \cup {0}
    <3>1. DOMAIN events \cup {0} \in SUBSET Nat
      BY DEF SInv, IInv, TypeOK
    <3>2. PICK m \in Nat : \A s \in DOMAIN events : s <= m
      BY DEF SInv, IInv, EventsBounded
    <3>3. \A s \in DOMAIN events \cup {0} : s <= m
      BY <3>2
    <3> QED
      BY <3>1, <3>3, GreatestExists DEF Latest
  <2> QED
    BY <2>1 DEF SInv, Numbered
<1> QED
  BY <1>1 DEF SInv, ClientMissesNothing

\* An event that is told has the number after a stored one: it is the next, or lost.
LEMMA NextNumber ==
  ASSUME SInv, NEW s \in Nat, tally.lost = 0 => s \in DOMAIN events \cup {0},
         NEW by, NEW phase, Append(s + 1, by, phase) \/ (Store(s + 1, by, phase)
                                                         /\ s + 1 \notin DOMAIN events),
         tally'.lost = 0 => tally.lost = 0,
         UNCHANGED client, control'.pc = "insert" => control' = control,
         \A a \in Attempt : attempt'[a].seq \in {attempt[a].seq, s + 1}
  PROVE  Numbered' /\ ClientMissesNothing'
<1> SUFFICES ASSUME tally'.lost = 0
             PROVE  /\ \E n \in Nat : DOMAIN events' = 1..n
                    /\ \A a \in Attempt : attempt'[a].seq \in DOMAIN events' \cup {0}
                    /\ control'.pc = "insert" => control'.seq - 1 \in DOMAIN events' \cup {0}
                    /\ client'.after \in DOMAIN events' \cup {0}
                    /\ \A t \in DOMAIN events' :
                         t <= client'.after =>
                           <<t, events'[t]>> \in client'.seen \/ t \in client'.passed
                    /\ client'.follows = "events" \/ Cardinality(DOMAIN events') <= Page
                         => client'.passed = {}
  BY DEF Numbered, ClientMissesNothing
<1>1. tally.lost = 0 /\ tally \in Tally
  BY DEF SInv, IInv, TypeOK
<1>2. PICK n \in Nat : DOMAIN events = 1..n
  BY <1>1 DEF SInv, Numbered
<1>3. Store(s + 1, by, phase) /\ s + 1 \notin DOMAIN events
  <2>1. tally'.lost # tally.lost + 1
    BY <1>1
  <2>2. tally' = [tally EXCEPT !.lost = @ + 1] => tally'.lost = tally.lost + 1
    BY <1>1 DEF Tally
  <2>3. tally' = [tally EXCEPT !.lost = @ + 1, !.failed = @ + 1] => tally'.lost = tally.lost + 1
    BY <1>1 DEF Tally
  <2> QED
    BY <2>1, <2>2, <2>3 DEF Append
<1>4. s = n
  <2>1. s <= n
    BY <1>1, <1>2
  <2> QED
    BY <1>2, <1>3, <2>1
<1>5. DOMAIN events' = 1..(n + 1) /\ \A t \in DOMAIN events : events'[t] = events[t]
  <2>1. DOMAIN events' = 1..n \cup {n + 1}
    BY <1>2, <1>3, <1>4 DEF Store, Put
  <2>2. \A t \in DOMAIN events : events'[t] = events[t]
    BY <1>3 DEF Store, Put
  <2> QED
    BY <2>1, <2>2
<1>6. n + 1 \in Nat /\ DOMAIN events \subseteq DOMAIN events' /\ s + 1 \in DOMAIN events'
  BY <1>2, <1>4, <1>5
<1>7. \A t \in DOMAIN events' : t <= client.after => t \in DOMAIN events
  <2>1. client.after \in Nat /\ client.after <= n
    BY <1>1, <1>2 DEF SInv, Numbered
  <2> QED
    BY <1>2, <1>5, <2>1
<1>8. Cardinality(DOMAIN events) <= Page \/ ~(Cardinality(DOMAIN events') <= Page)
  <2>1. Cardinality(DOMAIN events) = n /\ Cardinality(DOMAIN events') = n + 1
    BY <1>2, <1>5, <1>6, FS_Interval
  <2> QED
    BY <2>1, LimitsAssumption
<1>9. \A t \in DOMAIN events' :
        t <= client'.after => <<t, events'[t]>> \in client'.seen \/ t \in client'.passed
  BY <1>1, <1>5, <1>7 DEF SInv, ClientMissesNothing
<1>10. client'.follows = "events" \/ Cardinality(DOMAIN events') <= Page
         => client'.passed = {}
  BY <1>1, <1>8 DEF SInv, ClientMissesNothing
<1>11. \A a \in Attempt : attempt'[a].seq \in DOMAIN events' \cup {0}
  BY <1>1, <1>6 DEF SInv, Numbered
<1>12. control'.pc = "insert" => control'.seq - 1 \in DOMAIN events' \cup {0}
  BY <1>1, <1>6 DEF SInv, Numbered
<1>13. client'.after \in DOMAIN events' \cup {0}
  BY <1>1, <1>6 DEF SInv, Numbered
<1> QED
  BY <1>5, <1>6, <1>9, <1>10, <1>11, <1>12, <1>13

\* A fault loses no event.
LEMMA StrikeLoses ==
  ASSUME TypeOK, NEW mishap, Strike(mishap) \/ Calmly
  PROVE  tally'.lost = tally.lost
  BY DEF TypeOK, Strike, Calmly, Tally

\* An insert never makes a lost event good.
LEMMA AppendLoses ==
  ASSUME TypeOK, NEW seq, NEW by, NEW phase, Append(seq, by, phase)
  PROVE  tally'.lost = 0 => tally.lost = 0
<1>1. tally \in Tally /\ tally.lost \in Nat
  BY DEF TypeOK, Tally
<1>2. tally' = [tally EXCEPT !.lost = @ + 1] => tally'.lost = tally.lost + 1
  BY <1>1 DEF Tally
<1>3. tally' = [tally EXCEPT !.lost = @ + 1, !.failed = @ + 1] => tally'.lost = tally.lost + 1
  BY <1>1 DEF Tally
<1> QED
  BY <1>1, <1>2, <1>3 DEF Append, Calmly

\* The steps that tell an event.
LEMMA TellNumbers ==
  ASSUME SInv, NEW a \in Attempt, NEW phase,
         \A b \in Attempt : attempt'[b].seq \in {attempt[b].seq, attempt[a].seq + 1},
         Append(attempt[a].seq + 1, a, phase), UNCHANGED <<control, client>>
  PROVE  Numbered' /\ ClientMissesNothing'
<1>1. attempt[a].seq \in Nat
  BY DEF SInv, IInv, TypeOK, Emitter
<1>2. tally.lost = 0 => attempt[a].seq \in DOMAIN events \cup {0}
  BY DEF SInv, Numbered
<1>3. tally'.lost = 0 => tally.lost = 0
  BY AppendLoses DEF SInv, IInv
<1> QED
  BY <1>1, <1>2, <1>3, NextNumber

\* Among them those that only go on.
LEMMA EmitNumbers ==
  ASSUME SInv, NEW a \in Attempt, NEW phase, NEW pc, Emit(a, phase, pc),
         UNCHANGED <<control, client>>
  PROVE  Numbered' /\ ClientMissesNothing'
<1>1. \A b \in Attempt : attempt'[b].seq \in {attempt[b].seq, attempt[a].seq + 1}
  BY DEF SInv, IInv, TypeOK, Emit, Emitter
<1> QED
  BY <1>1, TellNumbers DEF Emit

\* Among them those that ask again.
LEMMA AskAgainNumbers ==
  ASSUME SInv, NEW a \in Attempt, NEW phase, NEW try,
         attempt' = [attempt EXCEPT ![a].pc = "call", ![a].try = try, ![a].seq = @ + 1],
         Append(attempt[a].seq + 1, a, phase), UNCHANGED <<control, client>>
  PROVE  Numbered' /\ ClientMissesNothing'
<1>1. \A b \in Attempt : attempt'[b].seq \in {attempt[b].seq, attempt[a].seq + 1}
  BY DEF SInv, IInv, TypeOK, Emitter
<1> QED
  BY <1>1, TellNumbers

\* The steps that tell no event and keep every number.
LEMMA QuietNumbers ==
  ASSUME SInv, UNCHANGED <<events, client, control>>, tally'.lost = tally.lost,
         \A a \in Attempt : attempt'[a].seq = attempt[a].seq
  PROVE  Numbered' /\ ClientMissesNothing'
  BY SameNumbers

\* Going to another place.
LEMMA GoNumbers ==
  ASSUME SInv, NEW a \in Attempt, NEW pc, Go(a, pc), UNCHANGED <<events, client, control>>,
         tally'.lost = tally.lost
  PROVE  Numbered' /\ ClientMissesNothing'
<1>1. \A b \in Attempt : attempt'[b].seq = attempt[b].seq
  BY DEF SInv, IInv, TypeOK, Go, Emitter
<1> QED
  BY <1>1, QuietNumbers

\* Every step of an attempt.
LEMMA StepNumbers ==
  ASSUME SInv, NEW a \in Attempt, Step(a)
  PROVE  Numbered' /\ ClientMissesNothing'
<1>0. TypeOK /\ tally \in Tally /\ attempt[a] \in Emitter /\ attempt \in [Attempt -> Emitter]
  BY DEF SInv, IInv, TypeOK
<1>1. CASE OpenEmitter(a)
  <2>1. PICK seq \in {0, Latest} : attempt' = [attempt EXCEPT ![a].pc = "totals", ![a].seq = seq]
    BY <1>1 DEF OpenEmitter
  <2>2. \A b \in Attempt : attempt'[b].seq \in {attempt[b].seq, 0, Latest}
    BY <1>0, <2>1 DEF Emitter
  <2>3. tally'.lost = tally.lost
    BY <1>0, <1>1, StrikeLoses DEF OpenEmitter
  <2> QED
    BY <1>1, <2>2, <2>3, SameNumbers DEF OpenEmitter
<1>2. CASE ReadTotals(a)
  <2>1. PICK pc, totals : attempt' = [attempt EXCEPT ![a].pc = pc, ![a].totals = totals]
    BY <1>2 DEF ReadTotals
  <2>2. \A b \in Attempt : attempt'[b].seq = attempt[b].seq
    BY <1>0, <2>1 DEF Emitter
  <2>3. tally'.lost = tally.lost
    BY <1>0, <1>2, StrikeLoses DEF ReadTotals
  <2> QED
    BY <1>2, <2>2, <2>3, QuietNumbers DEF ReadTotals
<1>3. CASE WriteTotals(a)
  <2>1. \A b \in Attempt : attempt'[b].seq = attempt[b].seq
    BY <1>0, <1>3 DEF WriteTotals, Emitter
  <2>2. tally'.lost = tally.lost
    BY <1>0, <1>3, StrikeLoses DEF WriteTotals, UpdateRun
  <2> QED
    BY <1>3, <2>1, <2>2, QuietNumbers DEF WriteTotals
<1>4. CASE Announce(a)
  <2>1. tally'.lost = tally.lost
    BY <1>0, <1>4 DEF Announce, Tally
  <2> QED
    BY <1>4, <2>1, GoNumbers DEF Announce
<1>5. CASE \/ Claim(a) \/ Serve(a) \/ CompleteJob(a) \/ RetryJob(a) \/ Bury(a)
  BY <1>5, GoNumbers DEF Claim, Serve, CompleteJob, RetryJob, Bury
<1>6. CASE \/ MarkRunning(a) \/ QueueRun(a) \/ RunInline(a) \/ FinalizeInline(a)
           \/ FinalizeFailed(a) \/ RecordUsage(a) \/ Settle(a) \/ Crash(a)
  <2>1. tally'.lost = tally.lost
    BY <1>0, <1>6, StrikeLoses DEF MarkRunning, QueueRun, RunInline, FinalizeInline,
       FinalizeFailed, RecordUsage, Settle, Crash, UpdateRun
  <2> QED
    BY <1>6, <2>1, GoNumbers DEF MarkRunning, QueueRun, RunInline, FinalizeInline,
       FinalizeFailed, RecordUsage, Settle, Crash, UpdateRun, Strike, Spend, Calmly
<1>7. CASE Receive(a) \/ StartWorkflow(a) \/ ReadLayout(a) \/ Fail(a)
  BY <1>7, EmitNumbers DEF Receive, StartWorkflow, ReadLayout, Fail
<1>8. CASE CallExtraction(a) \/ CallSuggestions(a)
  BY <1>8, EmitNumbers, GoNumbers DEF CallExtraction, CallSuggestions, Quietly
<1>9. CASE JudgeExtraction(a) \/ JudgeSuggestions(a)
  BY <1>9, EmitNumbers, AskAgainNumbers, GoNumbers
  DEF JudgeExtraction, JudgeSuggestions, Calmly
<1>10. CASE Enrich(a)
  <2>1. CASE /\ attempt' = [attempt EXCEPT ![a].pc = "call", ![a].stage = "enrich",
                                           ![a].try = 1]
             /\ UNCHANGED <<events, tally, left>>
    <3>1. \A b \in Attempt : attempt'[b].seq = attempt[b].seq
      BY <1>0, <2>1 DEF Emitter
    <3> QED
      BY <1>10, <2>1, <3>1, QuietNumbers DEF Enrich
  <2> QED
    BY <1>10, <2>1, EmitNumbers, GoNumbers DEF Enrich
<1>11. CASE Finish(a)
  <2>1. \A b \in Attempt : attempt'[b].seq \in {attempt[b].seq, attempt[a].seq + 1}
    BY <1>0, <1>11 DEF Finish, Emitter
  <2> QED
    BY <1>11, <2>1, TellNumbers DEF Finish
<1> QED
  BY <1>1, <1>2, <1>3, <1>4, <1>5, <1>6, <1>7, <1>8, <1>9, <1>10, <1>11 DEF Step

\* A cancellation takes the number after the last.
LEMMA CancelNumbers ==
  ASSUME SInv, Cancel
  PROVE  Numbered' /\ ClientMissesNothing'
<1>1. Latest \in Nat /\ \A s \in DOMAIN events : s <= Latest
  BY LatestTyped DEF SInv, IInv
<1>2. Latest \in DOMAIN events \cup {0}
  <2>1. DOMAIN events \cup {0} \in SUBSET Nat
    BY DEF SInv, IInv, TypeOK
  <2>2. \A s \in DOMAIN events \cup {0} : s <= Latest
    BY <1>1
  <2> QED
    BY <1>1, <2>1, <2>2, GreatestExists DEF Latest
<1>3. Latest + 1 \notin DOMAIN events
  BY <1>1
<1>4. tally'.lost = tally.lost
  BY DEF SInv, IInv, TypeOK, Cancel, Tally
<1> QED
  BY <1>1, <1>2, <1>3, <1>4, NextNumber DEF Cancel

\* A request takes the number after as many as it read, all of them or none.
LEMMA AskControlNumbers ==
  ASSUME SInv, AskControl
  PROVE  Numbered' /\ ClientMissesNothing'
<1>1. tally'.lost = tally.lost
  BY DEF SInv, IInv, TypeOK, AskControl, Tally
<1>2. control'.seq \in {1, Cardinality(DOMAIN events) + 1}
  BY DEF AskControl
<1>3. \A n \in Nat : DOMAIN events = 1..n => control'.seq - 1 \in {0, n}
  BY <1>2, FS_Interval
<1>4. \A n \in Nat : {0, n} \subseteq 1..n \cup {0}
  OBVIOUS
<1>5. Numbered'
  BY <1>1, <1>3, <1>4 DEF SInv, Numbered, AskControl
<1> QED
  BY <1>1, <1>5 DEF SInv, ClientMissesNothing, AskControl

\* It inserts the event under that number.
LEMMA AppendControlNumbers ==
  ASSUME SInv, AppendControl
  PROVE  Numbered' /\ ClientMissesNothing'
<1> DEFINE s == control.seq - 1
<1>1. control \in Request /\ control.seq > 0 /\ control.pc = "insert" /\ control.seq \in Nat
  BY DEF SInv, IInv, TypeOK, RequestsCounted, AppendControl, Request
<1>2. s \in Nat /\ control.seq = s + 1
  BY <1>1
<1>3. tally.lost = 0 => s \in DOMAIN events \cup {0}
  BY <1>1 DEF SInv, Numbered
<1>4. control'.pc # "insert"
  BY <1>1 DEF AppendControl, Request
<1>5. Append(s + 1, Operator, control.phase)
  BY <1>2 DEF AppendControl
<1>6. tally'.lost = 0 => tally.lost = 0
  BY <1>5, AppendLoses DEF SInv, IInv
<1> HIDE DEF s
<1> QED
  BY <1>2, <1>3, <1>4, <1>5, <1>6, NextNumber DEF AppendControl

\* A page has every event before its last.
LEMMA PageHasAll ==
  ASSUME SInv, NEW s \in NextPage, NEW t \in DOMAIN events, client.after < t, t <= s
  PROVE  t \in NextPage
<1> DEFINE new == Unread
           Before(u) == {v \in new : v < u}
<1>1. client.after \in Nat /\ DOMAIN events \subseteq Nat /\ t \in Nat /\ s \in Nat
  BY DEF SInv, IInv, TypeOK, Client, NextPage, Unread
<1>2. Before(t) \subseteq Before(s)
  BY <1>1 DEF Unread
<1>3. IsFiniteSet(Before(s))
  <2>1. Before(s) \subseteq 0..s /\ IsFiniteSet(0..s)
    BY <1>1, FS_Interval DEF Unread
  <2> QED
    BY <2>1, FS_Subset
<1>4. Cardinality(Before(t)) <= Cardinality(Before(s)) /\ Cardinality(Before(t)) \in Nat
      /\ Cardinality(Before(s)) \in Nat
  BY <1>2, <1>3, FS_Subset, FS_CardinalityType
<1>5. NextPage = {u \in new : Cardinality(Before(u)) < Page}
  BY DEF NextPage
<1>6. Cardinality(Before(t)) < Page
  <2>1. Cardinality(Before(s)) < Page
    BY <1>5
  <2> QED
    BY <1>4, <2>1, LimitsAssumption
<1>7. t \in new
  BY <1>1 DEF Unread
<1> HIDE DEF new, Before
<1> QED
  BY <1>5, <1>6, <1>7

\* A page has every event that is not read yet, when no more of them are stored than fit.
LEMMA PageHoldsAll ==
  ASSUME SInv, IsFiniteSet(DOMAIN events), Cardinality(DOMAIN events) <= Page
  PROVE  Unread \subseteq NextPage
<1> SUFFICES ASSUME NEW s \in Unread PROVE s \in NextPage
  OBVIOUS
<1> DEFINE before == {t \in Unread : t < s}
<1>1. DOMAIN events \subseteq Nat /\ s \in DOMAIN events
  BY DEF SInv, IInv, TypeOK, Unread
<1>2. before \subseteq DOMAIN events \ {s}
  BY <1>1 DEF Unread
<1>3. /\ Cardinality(DOMAIN events \ {s}) = Cardinality(DOMAIN events) - 1
      /\ IsFiniteSet(DOMAIN events \ {s}) /\ Cardinality(DOMAIN events) \in Nat
  BY <1>1, FS_RemoveElement, FS_CardinalityType
<1>4. Cardinality(before) \in Nat /\ Cardinality(before) <= Cardinality(DOMAIN events \ {s})
  BY <1>2, <1>3, FS_Subset, FS_CardinalityType
<1>5. Cardinality(before) < Page
  BY <1>3, <1>4, LimitsAssumption
<1> QED
  BY <1>5 DEF NextPage

\* A client that goes on from the last event of its page misses nothing before it.
LEMMA EventsFollowed ==
  ASSUME SInv, ReadPage, UNCHANGED <<events, tally, attempt, control>>,
         client.follows = "events"
  PROVE  Numbered' /\ ClientMissesNothing'
<1> DEFINE page == NextPage \cup {client.after}
<1>1. NextPage \subseteq DOMAIN events /\ client.after \in Nat /\ DOMAIN events \subseteq Nat
  BY DEF SInv, IInv, TypeOK, Client, NextPage, Unread
<1>2. /\ client'.after = Max(page) /\ client'.follows = "events"
      /\ client'.seen = client.seen \cup {<<s, events[s]>> : s \in NextPage}
      /\ client'.passed = client.passed
  BY DEF ReadPage, SInv, IInv, TypeOK, Client
<1>3. Max(page) \in page
  <2>1. PICK m \in Nat : \A s \in DOMAIN events : s <= m
    BY DEF SInv, IInv, EventsBounded
  <2>2. page \in SUBSET Nat /\ m + client.after \in Nat /\ \A s \in page : s <= m + client.after
    BY <1>1, <2>1
  <2> HIDE DEF page
  <2>3. page # {}
    BY DEF page
  <2> QED
    BY <2>2, <2>3, GreatestExists
<1>4. Numbered'
  BY <1>1, <1>2, <1>3 DEF SInv, Numbered
<1>5. ClientMissesNothing'
  <2>0. tally.lost = 0 => client'.passed = {}
    BY <1>2 DEF SInv, ClientMissesNothing
  <2> SUFFICES ASSUME tally.lost = 0, NEW t \in DOMAIN events, t <= Max(page)
               PROVE  <<t, events[t]>> \in client'.seen \/ t \in client'.passed
    BY <1>2, <2>0 DEF ClientMissesNothing
  <2>1. CASE t <= client.after
    BY <1>2, <2>1 DEF SInv, ClientMissesNothing
  <2>2. CASE client.after < t
    <3>1. Max(page) \in NextPage /\ t \in Nat
      BY <1>1, <1>3, <2>2
    <3>2. t \in NextPage
      BY <2>2, <3>1, PageHasAll
    <3> QED
      BY <1>2, <3>2
  <2> QED
    BY <1>1, <2>1, <2>2
<1> QED
  BY <1>4, <1>5

\* A client that goes on from last_seq passes what its page had no room for.
LEMMA LastSeqFollowed ==
  ASSUME SInv, ReadPage, UNCHANGED <<events, tally, attempt, control>>,
         client.follows = "last_seq"
  PROVE  Numbered' /\ ClientMissesNothing'
<1>1. DOMAIN events \subseteq Nat /\ client.after \in Nat
  BY DEF SInv, IInv, TypeOK, Client
<1>2. /\ client'.after = LastSeq /\ client'.follows = client.follows
      /\ client'.seen = client.seen \cup {<<s, events[s]>> : s \in NextPage}
      /\ client'.passed = client.passed \cup (Unread \ NextPage)
  BY DEF ReadPage, SInv, IInv, TypeOK, Client
<1>3. LastSeq \in DOMAIN events \cup {client.after}
  <2>1. CASE DOMAIN events = {}
    BY <2>1 DEF LastSeq
  <2>2. CASE DOMAIN events # {}
    <3>1. PICK m \in Nat : \A s \in DOMAIN events : s <= m
      BY DEF SInv, IInv, EventsBounded
    <3>2. DOMAIN events \cup {0} \in SUBSET Nat /\ \A s \in DOMAIN events \cup {0} : s <= m
      BY <1>1, <3>1
    <3>3. Latest \in DOMAIN events \cup {0} /\ \A s \in DOMAIN events : s <= Latest
      BY <3>2, GreatestExists DEF Latest
    <3>4. \A s \in DOMAIN events : s > 0
      BY DEF SInv, IInv, TypeOK
    <3>5. Latest # 0
      BY <1>1, <2>2, <3>3, <3>4
    <3> QED
      BY <2>2, <3>3, <3>5 DEF LastSeq
  <2> QED
    BY <2>1, <2>2
<1>4. Numbered'
  BY <1>2, <1>3 DEF SInv, Numbered
<1>5. \A t \in DOMAIN events :
        tally.lost = 0 => <<t, events[t]>> \in client'.seen \/ t \in client'.passed
  BY <1>1, <1>2 DEF SInv, ClientMissesNothing, Unread
<1>6. tally.lost = 0 /\ Cardinality(DOMAIN events) <= Page => client'.passed = {}
  <2> SUFFICES ASSUME tally.lost = 0, Cardinality(DOMAIN events) <= Page
               PROVE  client'.passed = {}
    OBVIOUS
  <2>1. IsFiniteSet(DOMAIN events)
    BY FS_Interval DEF SInv, Numbered
  <2>2. Unread \subseteq NextPage
    BY <2>1, PageHoldsAll
  <2> QED
    BY <1>2, <2>2 DEF SInv, ClientMissesNothing
<1>7. ClientMissesNothing'
  BY <1>2, <1>5, <1>6 DEF ClientMissesNothing
<1> QED
  BY <1>4, <1>7

\* A client that reads a page goes on from either cursor; an empty one leaves it where it is.
LEMMA PollNumbers ==
  ASSUME SInv, Poll
  PROVE  Numbered' /\ ClientMissesNothing'
<1>1. UNCHANGED <<events, tally, attempt, control>>
  BY DEF Poll
<1>2. CASE ReadPage
  <2>1. client.follows \in {"events", "last_seq"}
    BY DEF SInv, IInv, TypeOK, Client, Cursor
  <2> QED
    BY <1>1, <1>2, <2>1, EventsFollowed, LastSeqFollowed
<1>3. CASE ReadNothing
  <2>1. /\ client'.after = client.after /\ client'.follows = client.follows
        /\ client'.seen = client.seen /\ client'.passed = client.passed
    BY <1>3 DEF ReadNothing, SInv, IInv, TypeOK, Client
  <2> QED
    BY <1>1, <2>1 DEF SInv, Numbered, ClientMissesNothing
<1> QED
  BY <1>2, <1>3 DEF Poll

\* As long as no event was lost, whatever numbers attempts and requests took, a client
\* has every stored event up to its cursor when it goes on from the last event it got;
\* one that follows last_seq of the answer has all of them but those which a full page
\* had no room for, and hence all until more are stored than fit a page: for any number
\* of attempts and any size of a page.
THEOREM ClientSeesAll == Spec => []ClientMissesNothing
<1>1. Init => SInv
  <2> SUFFICES ASSUME Init PROVE SInv
    OBVIOUS
  <2>1. DOMAIN events = {} /\ 1..0 = {}
    BY DEF Init
  <2>2. \A a \in Attempt : attempt[a].seq = 0
    BY DEF Init, Idle
  <2>3. control.pc = "idle" /\ client.after = 0 /\ client.passed = {}
    BY DEF Init, NoRequest
  <2> QED
    BY <2>1, <2>2, <2>3, InitInv DEF SInv, Numbered, ClientMissesNothing
<1>2. SInv /\ [Next]_vars => Numbered' /\ ClientMissesNothing'
  <2> SUFFICES ASSUME SInv, [Next]_vars PROVE Numbered' /\ ClientMissesNothing'
    OBVIOUS
  <2>1. CASE \E a \in Attempt : Step(a)
    BY <2>1, StepNumbers
  <2>2. CASE Cancel
    BY <2>2, CancelNumbers
  <2>3. CASE AskControl
    BY <2>3, AskControlNumbers
  <2>4. CASE AppendControl
    BY <2>4, AppendControlNumbers
  <2>5. CASE WriteControl
    <3>1. tally'.lost = tally.lost
      BY <2>5, StrikeLoses DEF SInv, IInv, WriteControl, UpdateRun
    <3> QED
      BY <2>5, <3>1, SameNumbers DEF WriteControl, NoRequest
  <2>6. CASE Poll
    BY <2>6, PollNumbers
  <2>7. CASE UNCHANGED vars
    BY <2>7 DEF vars, SInv, Numbered, ClientMissesNothing
  <2> QED
    BY <2>1, <2>2, <2>3, <2>4, <2>5, <2>6, <2>7 DEF Next
<1>3. IInv /\ Numbered /\ ClientMissesNothing => SInv
  BY DEF SInv
<1>4. SInv => ClientMissesNothing
  BY DEF SInv
<1>5. SInv /\ [Next]_vars /\ IInv' => SInv'
  BY <1>2 DEF SInv
<1> QED
  BY <1>1, <1>4, <1>5, Inductive, PTL DEF Spec

-----------------------------------------------------------------------------
(* What requests cost.                                                     *)

\* An attempt that numbers events
Numbering(a) == attempt[a].pc \notin Resting \cup {"mark", "open"}

\* The events with numbers it has yet to come to, each of which costs it one of its own
Ahead(table, seq) == {s \in DOMAIN table : s > seq}

\* The event of the request that is under way
Pending == IF control.pc = "insert" THEN 1 ELSE 0

Paid(owed) == tally.lost + owed + Pending <= tally.failed + tally.controls

\* Every event that is lost, or is going to be, has a failed insert or a request to
\* account for it
Balanced ==
  tally.mishaps \cap {"overlap", "read"} = {} =>
    /\ Paid(0)
    /\ \A a \in Attempt : Numbering(a) => Paid(Cardinality(Ahead(events, attempt[a].seq)))

BInv == IInv /\ Balanced

\* What the counts are.
LEMMA CountsTyped ==
  ASSUME TypeOK
  PROVE  /\ tally \in Tally /\ tally.lost \in Nat /\ tally.failed \in Nat
         /\ tally.controls \in Nat /\ Pending \in {0, 1}
  BY DEF TypeOK, Tally, Pending

\* The events are finitely many.
LEMMA AheadFinite ==
  ASSUME TypeOK, EventsBounded, NEW seq
  PROVE  IsFiniteSet(Ahead(events, seq)) /\ Cardinality(Ahead(events, seq)) \in Nat
<1>1. PICK m \in Nat : \A s \in DOMAIN events : s <= m
  BY DEF EventsBounded
<1>2. DOMAIN events \subseteq Nat
  BY DEF TypeOK
<1>3. Ahead(events, seq) \subseteq 0..m /\ IsFiniteSet(0..m)
  BY <1>1, <1>2, FS_Interval DEF Ahead
<1> QED
  BY <1>3, FS_Subset, FS_CardinalityType

SameCounts ==
  tally'.lost = tally.lost /\ tally'.failed = tally.failed /\ tally'.controls = tally.controls

\* A fault is not counted as a loss.
LEMMA StrikeCounts ==
  ASSUME TypeOK, NEW mishap, Strike(mishap) \/ Calmly
  PROVE  SameCounts /\ tally.mishaps \subseteq tally'.mishaps
  BY DEF TypeOK, Strike, Calmly, Tally, SameCounts

\* A step that tells no event and begins no numbering keeps the balance.
LEMMA SameBalance ==
  ASSUME BInv, UNCHANGED events, SameCounts, tally.mishaps \subseteq tally'.mishaps,
         control'.pc = "insert" => control.pc = "insert",
         \A a \in Attempt : attempt'[a].seq = attempt[a].seq /\ (Numbering(a)' => Numbering(a))
  PROVE  Balanced'
<1>1. \A n \in Nat : Paid(n) => Paid(n)'
  <2>1. Pending \in {0, 1} /\ Pending' \in {0, 1} /\ Pending' <= Pending
    BY DEF Pending
  <2> QED
    BY <2>1, CountsTyped DEF BInv, IInv, SameCounts, Paid
<1>2. \A a \in Attempt : /\ Ahead(events', attempt'[a].seq) = Ahead(events, attempt[a].seq)
                         /\ Cardinality(Ahead(events, attempt[a].seq)) \in Nat
  BY AheadFinite DEF BInv, IInv, Ahead
<1> QED
  BY <1>1, <1>2 DEF BInv, Balanced

\* Among them going to another place.
LEMMA GoBalance ==
  ASSUME BInv, NEW a \in Attempt, NEW pc, Go(a, pc), UNCHANGED <<events, control>>,
         SameCounts, tally.mishaps \subseteq tally'.mishaps,
         Numbering(a) \/ pc \in Resting \cup {"mark", "open"}
  PROVE  Balanced'
<1>1. \A b \in Attempt : /\ attempt'[b].seq = attempt[b].seq
                         /\ attempt'[b].pc = IF b = a THEN pc ELSE attempt[b].pc
  BY DEF BInv, IInv, TypeOK, Go, Emitter
<1> QED
  BY <1>1, SameBalance DEF Numbering

\* An attempt that tells an event comes to the next number.
LEMMA TellBalance ==
  ASSUME BInv, NEW a \in Attempt, Numbering(a), NEW phase,
         attempt'[a].seq = attempt[a].seq + 1,
         \A b \in Attempt \ {a} : attempt'[b] = attempt[b],
         Append(attempt[a].seq + 1, a, phase), UNCHANGED control
  PROVE  Balanced'
<1> DEFINE seq == attempt[a].seq
           owed == Cardinality(Ahead(events, seq))
           rest == Cardinality(Ahead(events', seq + 1))
<1>1. seq \in Nat /\ DOMAIN events \subseteq Nat
  BY DEF BInv, IInv, TypeOK, Emitter
<1>2. IsFiniteSet(Ahead(events, seq)) /\ owed \in Nat
  BY AheadFinite DEF BInv, IInv
<1>3. tally'.mishaps = tally.mishaps
  BY CountsTyped DEF BInv, IInv, Append, Calmly, Tally
<1> SUFFICES ASSUME tally.mishaps \cap {"overlap", "read"} = {}
             PROVE  Paid(0)' /\ \A b \in Attempt : Numbering(b)' => Paid(Cardinality(Ahead(events, attempt[b].seq)))'
  BY <1>3 DEF Balanced
<1>4. Paid(owed) /\ Paid(0)
  BY DEF BInv, Balanced
<1>5. rest \in Nat /\ \A n \in {0, rest} : Paid(n)'
  <2>0. Pending' = Pending
    BY DEF Pending
  <2>1. CASE seq + 1 \notin DOMAIN events /\ Store(seq + 1, a, phase) /\ tally' = tally
    <3>1. DOMAIN events' = DOMAIN events \cup {seq + 1}
      BY <2>1 DEF Store, Put
    <3>2. Ahead(events', seq + 1) = Ahead(events, seq)
      BY <1>1, <2>1, <3>1 DEF Ahead
    <3>3. \A n \in Nat : Paid(n) => Paid(n)'
      BY <2>0, <2>1 DEF Paid
    <3>4. rest = owed
      BY <3>2
    <3> HIDE DEF rest, owed
    <3> QED
      BY <1>2, <1>4, <3>3, <3>4
  <2>2. CASE /\ seq + 1 \in DOMAIN events /\ tally' = [tally EXCEPT !.lost = @ + 1]
             /\ UNCHANGED events
    <3>1. Ahead(events', seq + 1) = Ahead(events, seq) \ {seq + 1}
          /\ seq + 1 \in Ahead(events, seq)
      BY <1>1, <2>2 DEF Ahead
    <3>2. IsFiniteSet(Ahead(events, seq) \ {seq + 1}) /\ rest = owed - 1
      BY <1>2, <3>1, FS_RemoveElement
    <3>3. rest \in Nat
      BY <3>1, <3>2, FS_CardinalityType
    <3>4. /\ tally'.lost = tally.lost + 1 /\ tally'.failed = tally.failed
          /\ tally'.controls = tally.controls
      BY <2>2, CountsTyped DEF BInv, IInv, Tally
    <3>5. \A n \in Nat : Paid(n + 1) => Paid(n)'
      BY <2>0, <3>4, CountsTyped DEF Paid, BInv, IInv
    <3> HIDE DEF rest, owed
    <3>6. owed = rest + 1 /\ \A n \in {0, rest} : Paid(n + 1)
      <4>1. owed = rest + 1
        BY <1>2, <3>2, <3>3
      <4>2. Paid(rest + 1)
        BY <1>4, <4>1
      <4>3. Paid(0 + 1)
        BY <1>2, <3>3, <4>2, CountsTyped DEF Paid, BInv, IInv
      <4> QED
        BY <4>1, <4>2, <4>3
    <3> QED
      BY <3>3, <3>5, <3>6
  <2>3. CASE /\ seq + 1 \notin DOMAIN events /\ UNCHANGED events
             /\ tally' = [tally EXCEPT !.lost = @ + 1, !.failed = @ + 1]
    <3>1. rest = owed
      <4>1. Ahead(events', seq + 1) = Ahead(events, seq)
        BY <1>1, <2>3 DEF Ahead
      <4> QED
        BY <4>1
    <3>2. /\ tally'.lost = tally.lost + 1 /\ tally'.failed = tally.failed + 1
          /\ tally'.controls = tally.controls
      BY <2>3, CountsTyped DEF BInv, IInv, Tally
    <3>3. \A n \in Nat : Paid(n) => Paid(n)'
      BY <2>0, <3>2, CountsTyped DEF Paid, BInv, IInv
    <3> HIDE DEF rest, owed
    <3> QED
      BY <1>2, <1>4, <3>1, <3>3
  <2> QED
    BY <2>1, <2>2, <2>3 DEF Append, Calmly
<1>6. ASSUME NEW b \in Attempt, Numbering(b)'
      PROVE  b = a
  <2>1. CASE b # a
    <3>1. Live(b) /\ Live(a)
      BY <1>6, <2>1 DEF Numbering, Live
    <3> QED
      BY <2>1, <3>1 DEF BInv, IInv, OneAlive
  <2> QED
    BY <2>1
<1>7. attempt'[a].seq = seq + 1
  OBVIOUS
<1> QED
  BY <1>5, <1>6, <1>7

\* Among them those that only go on.
LEMMA EmitBalance ==
  ASSUME BInv, NEW a \in Attempt, Numbering(a), NEW phase, NEW pc, Emit(a, phase, pc),
         UNCHANGED control
  PROVE  Balanced'
<1>1. attempt'[a].seq = attempt[a].seq + 1 /\ \A b \in Attempt \ {a} : attempt'[b] = attempt[b]
  BY DEF BInv, IInv, TypeOK, Emit, Emitter
<1> QED
  BY <1>1, TellBalance DEF Emit

\* An emitter that has read the numbers has no event ahead of it.
LEMMA OpenBalance ==
  ASSUME BInv, NEW a \in Attempt, OpenEmitter(a)
  PROVE  Balanced'
<1>1. attempt[a] \in Emitter /\ attempt \in [Attempt -> Emitter] /\ attempt[a].pc = "open"
  BY DEF BInv, IInv, TypeOK, OpenEmitter, At
<1>2. SameCounts /\ tally.mishaps \subseteq tally'.mishaps
  BY StrikeCounts DEF BInv, IInv, OpenEmitter
<1>3. CASE "read" \in tally'.mishaps
  BY <1>3 DEF Balanced
<1>4. CASE attempt' = [attempt EXCEPT ![a].pc = "totals", ![a].seq = Latest]
  <2>1. attempt'[a].seq = Latest /\ \A b \in Attempt \ {a} : attempt'[b] = attempt[b]
    BY <1>1, <1>4 DEF Emitter
  <2>2. Ahead(events', attempt'[a].seq) = {}
    <3>1. DOMAIN events \subseteq Nat /\ Latest \in Nat /\ \A s \in DOMAIN events : s <= Latest
      BY LatestTyped DEF BInv, IInv, TypeOK
    <3> QED
      BY <2>1, <3>1 DEF Ahead, OpenEmitter
  <2>3. Cardinality({}) = 0
    BY FS_EmptySet
  <2>4. \A n : Paid(n)' <=> Paid(n)
    BY <1>2 DEF Paid, SameCounts, Pending, OpenEmitter
  <2>5. \A b \in Attempt \ {a} : /\ Numbering(b)' => Numbering(b)
                                 /\ Ahead(events', attempt'[b].seq) = Ahead(events, attempt[b].seq)
    BY <2>1 DEF Numbering, Ahead, OpenEmitter
  <2> QED
    BY <1>2, <2>2, <2>3, <2>4, <2>5 DEF BInv, Balanced
<1> QED
  BY <1>3, <1>4, StrikeWorsens DEF BInv, IInv, OpenEmitter, Mishap

\* Every step of an attempt.
LEMMA StepBalance ==
  ASSUME BInv, NEW a \in Attempt, Step(a)
  PROVE  Balanced'
<1>0. TypeOK /\ tally \in Tally /\ attempt[a] \in Emitter /\ attempt \in [Attempt -> Emitter]
  BY DEF BInv, IInv, TypeOK
<1>1. CASE OpenEmitter(a)
  BY <1>1, OpenBalance
<1>2. CASE ReadTotals(a)
  <2>1. PICK pc, totals : attempt' = [attempt EXCEPT ![a].pc = pc, ![a].totals = totals]
    BY <1>2 DEF ReadTotals
  <2>2. \A b \in Attempt : attempt'[b].seq = attempt[b].seq /\ (Numbering(b)' => Numbering(b))
    BY <1>0, <1>2, <2>1 DEF Emitter, Numbering, ReadTotals, At, Resting
  <2>3. SameCounts /\ tally.mishaps \subseteq tally'.mishaps
    BY <1>0, <1>2, StrikeCounts DEF ReadTotals
  <2> QED
    BY <1>2, <2>2, <2>3, SameBalance DEF ReadTotals
<1>3. CASE WriteTotals(a)
  <2>1. \A b \in Attempt : attempt'[b].seq = attempt[b].seq /\ (Numbering(b)' => Numbering(b))
    BY <1>0, <1>3 DEF WriteTotals, Emitter, Numbering, At, Resting
  <2>2. SameCounts /\ tally.mishaps \subseteq tally'.mishaps
    BY <1>0, <1>3, StrikeCounts DEF WriteTotals, UpdateRun
  <2> QED
    BY <1>3, <2>1, <2>2, SameBalance DEF WriteTotals
<1>4. CASE Announce(a)
  <2>1. SameCounts /\ tally.mishaps \subseteq tally'.mishaps
    BY <1>0, <1>4 DEF Announce, Tally, SameCounts
  <2> QED
    BY <1>4, <2>1, GoBalance DEF Announce, Resting
<1>5. CASE Claim(a) \/ Serve(a)
  BY <1>5, GoBalance DEF Claim, Serve, SameCounts, Resting
<1>6. CASE CompleteJob(a) \/ RetryJob(a) \/ Bury(a)
  BY <1>6, GoBalance DEF CompleteJob, RetryJob, Bury, SameCounts, Resting
<1>7. CASE MarkRunning(a) \/ Crash(a)
  <2>1. SameCounts /\ tally.mishaps \subseteq tally'.mishaps
    BY <1>0, <1>7, StrikeCounts DEF MarkRunning, Crash, UpdateRun
  <2> QED
    BY <1>7, <2>1, GoBalance DEF MarkRunning, Crash, Resting
<1>8. CASE \/ QueueRun(a) \/ RunInline(a) \/ FinalizeInline(a)
           \/ FinalizeFailed(a) \/ RecordUsage(a) \/ Settle(a)
  <2>1. SameCounts /\ tally.mishaps \subseteq tally'.mishaps
    BY <1>0, <1>8, StrikeCounts DEF QueueRun, RunInline, FinalizeInline,
       FinalizeFailed, RecordUsage, Settle, UpdateRun
  <2>2. Numbering(a)
    BY <1>8 DEF Numbering, QueueRun, RunInline, FinalizeInline, FinalizeFailed, RecordUsage,
       Settle, At, Resting
  <2> QED
    BY <1>8, <2>1, <2>2, GoBalance DEF QueueRun, RunInline, FinalizeInline,
       FinalizeFailed, RecordUsage, Settle
<1>9. CASE Receive(a) \/ StartWorkflow(a) \/ ReadLayout(a) \/ Fail(a)
  <2>1. Numbering(a)
    BY <1>9 DEF Numbering, Receive, StartWorkflow, ReadLayout, Fail, At, Resting
  <2> QED
    BY <1>9, <2>1, EmitBalance DEF Receive, StartWorkflow, ReadLayout, Fail
<1>10. ASSUME UNCHANGED tally PROVE SameCounts /\ tally.mishaps \subseteq tally'.mishaps
  BY <1>10 DEF SameCounts
<1>11. CASE CallExtraction(a) \/ CallSuggestions(a)
  <2>1. Numbering(a)
    BY <1>11 DEF Numbering, CallExtraction, CallSuggestions, At, Resting
  <2> QED
    BY <1>10, <1>11, <2>1, EmitBalance, GoBalance DEF CallExtraction, CallSuggestions, Quietly
<1>12. CASE JudgeExtraction(a) \/ JudgeSuggestions(a)
  <2>1. Numbering(a) /\ UNCHANGED control
    BY <1>12 DEF Numbering, JudgeExtraction, JudgeSuggestions, At, Resting
  <2>2. CASE \E phase, try :
               /\ attempt' = [attempt EXCEPT ![a].pc = "call", ![a].try = try,
                                             ![a].seq = @ + 1]
               /\ Append(attempt[a].seq + 1, a, phase)
    <3>1. PICK phase, try :
               /\ attempt' = [attempt EXCEPT ![a].pc = "call", ![a].try = try,
                                             ![a].seq = @ + 1]
               /\ Append(attempt[a].seq + 1, a, phase)
      BY <2>2
    <3>2. /\ attempt'[a].seq = attempt[a].seq + 1
          /\ \A b \in Attempt \ {a} : attempt'[b] = attempt[b]
      BY <1>0, <3>1 DEF Emitter
    <3> QED
      BY <2>1, <3>1, <3>2, TellBalance
  <2>3. CASE \E phase, pc : Emit(a, phase, pc)
    BY <2>1, <2>3, EmitBalance
  <2>4. CASE Go(a, "error") /\ UNCHANGED events /\ Calmly
    BY <1>10, <2>1, <2>4, GoBalance DEF Calmly
  <2> QED
    BY <1>12, <2>2, <2>3, <2>4 DEF JudgeExtraction, JudgeSuggestions
<1>13. CASE Enrich(a)
  <2>1. Numbering(a)
    BY <1>13 DEF Numbering, Enrich, At, Resting
  <2>2. CASE /\ attempt' = [attempt EXCEPT ![a].pc = "call", ![a].stage = "enrich",
                                           ![a].try = 1]
             /\ UNCHANGED <<events, tally, left>>
    <3>1. \A b \in Attempt : attempt'[b].seq = attempt[b].seq /\ (Numbering(b)' => Numbering(b))
      BY <1>0, <2>1, <2>2 DEF Emitter, Numbering
    <3> QED
      BY <1>10, <1>13, <2>2, <3>1, SameBalance DEF Enrich
  <2> QED
    BY <1>10, <1>13, <2>1, <2>2, EmitBalance, GoBalance DEF Enrich
<1>14. CASE Finish(a)
  <2>1. /\ attempt'[a].seq = attempt[a].seq + 1
        /\ \A b \in Attempt \ {a} : attempt'[b] = attempt[b]
    BY <1>0, <1>14 DEF Finish, Emitter
  <2>2. Numbering(a)
    BY <1>14 DEF Numbering, Finish, At, Resting
  <2> QED
    BY <1>14, <2>1, <2>2, TellBalance DEF Finish
<1> QED
  BY <1>1, <1>2, <1>3, <1>4, <1>5, <1>6, <1>7, <1>8, <1>9, <1>11, <1>12, <1>13, <1>14 DEF Step

\* An event of a request is at most one more that an attempt comes to.
LEMMA RequestAhead ==
  ASSUME BInv, NEW seq, NEW by, NEW phase, Store(seq, by, phase), NEW n
  PROVE  /\ Cardinality(Ahead(events, n)) \in Nat /\ Cardinality(Ahead(events', n)) \in Nat
         /\ Cardinality(Ahead(events', n)) <= Cardinality(Ahead(events, n)) + 1
<1>1. DOMAIN events' = DOMAIN events \cup {seq}
  BY DEF Store, Put
<1>2. Ahead(events', n) \subseteq Ahead(events, n) \cup {seq}
  BY <1>1 DEF Ahead
<1>3. IsFiniteSet(Ahead(events, n)) /\ Cardinality(Ahead(events, n)) \in Nat
  BY AheadFinite DEF BInv, IInv
<1>4. /\ IsFiniteSet(Ahead(events, n) \cup {seq})
      /\ Cardinality(Ahead(events, n) \cup {seq}) \in {Cardinality(Ahead(events, n)), Cardinality(Ahead(events, n)) + 1}
  BY <1>3, FS_AddElement
<1>5. /\ IsFiniteSet(Ahead(events', n)) /\ Cardinality(Ahead(events', n)) <= Cardinality(Ahead(events, n) \cup {seq})
  BY <1>2, <1>4, FS_Subset
<1>6. Cardinality(Ahead(events', n)) \in Nat
  BY <1>5, FS_CardinalityType
<1> QED
  BY <1>3, <1>4, <1>5, <1>6

\* A cancellation pays for its event.
LEMMA CancelBalance ==
  ASSUME BInv, Cancel
  PROVE  Balanced'
<1>1. /\ tally'.lost = tally.lost /\ tally'.failed = tally.failed
      /\ tally'.controls = tally.controls + 1 /\ tally'.mishaps = tally.mishaps
      /\ Pending' = Pending
  BY CountsTyped DEF BInv, IInv, Cancel, Tally, Pending
<1>2. \A k, n \in Nat : Paid(n) /\ k <= n + 1 => Paid(k)'
  BY <1>1, CountsTyped DEF BInv, IInv, Paid
<1>3. ASSUME NEW a \in Attempt
      PROVE  /\ Numbering(a)' <=> Numbering(a)
             /\ Cardinality(Ahead(events, attempt[a].seq)) \in Nat
             /\ Cardinality(Ahead(events', attempt'[a].seq)) \in Nat
             /\ Cardinality(Ahead(events', attempt'[a].seq)) <= Cardinality(Ahead(events, attempt[a].seq)) + 1
  BY RequestAhead DEF Cancel, Numbering, Ahead
<1> QED
  BY <1>1, <1>2, <1>3 DEF BInv, Balanced

\* A request pays when it is asked.
LEMMA AskControlBalance ==
  ASSUME BInv, AskControl
  PROVE  Balanced'
<1>1. /\ tally'.lost = tally.lost /\ tally'.failed = tally.failed
      /\ tally'.controls = tally.controls + 1 /\ tally'.mishaps = tally.mishaps
      /\ Pending' = 1 /\ Pending = 0
  BY CountsTyped DEF BInv, IInv, AskControl, Tally, Pending
<1>2. \A n \in Nat : Paid(n) => Paid(n)'
  BY <1>1, CountsTyped DEF BInv, IInv, Paid
<1>3. \A a \in Attempt : /\ Numbering(a)' <=> Numbering(a)
                         /\ Ahead(events', attempt'[a].seq) = Ahead(events, attempt[a].seq)
                         /\ Cardinality(Ahead(events, attempt[a].seq)) \in Nat
  BY AheadFinite DEF BInv, IInv, AskControl, Numbering, Ahead
<1> QED
  BY <1>1, <1>2, <1>3 DEF BInv, Balanced

\* Its event is lost, or one that an attempt comes to.
LEMMA AppendControlBalance ==
  ASSUME BInv, AppendControl
  PROVE  Balanced'
<1>1. control \in Request /\ Pending = 1 /\ Pending' = 0 /\ UNCHANGED attempt
  BY DEF BInv, IInv, TypeOK, AppendControl, Request, Pending
<1>2. \A a \in Attempt : Numbering(a)' <=> Numbering(a)
  BY <1>1 DEF Numbering
<1>3. CASE Store(control.seq, Operator, control.phase) /\ UNCHANGED tally
  <2>1. \A k, n \in Nat : Paid(n) /\ k <= n + 1 => Paid(k)'
    BY <1>1, <1>3, CountsTyped DEF BInv, IInv, Paid
  <2>2. ASSUME NEW a \in Attempt
        PROVE  /\ Cardinality(Ahead(events, attempt[a].seq)) \in Nat
               /\ Cardinality(Ahead(events', attempt'[a].seq)) \in Nat
               /\ Cardinality(Ahead(events', attempt'[a].seq)) <= Cardinality(Ahead(events, attempt[a].seq)) + 1
    BY <1>1, <1>3, RequestAhead DEF Ahead
  <2> QED
    BY <1>2, <1>3, <2>1, <2>2 DEF BInv, Balanced
<1>4. CASE /\ UNCHANGED events
           /\ \/ tally' = [tally EXCEPT !.lost = @ + 1]
              \/ tally' = [tally EXCEPT !.lost = @ + 1, !.failed = @ + 1]
  <2>1. /\ tally'.lost = tally.lost + 1 /\ tally'.failed \in {tally.failed, tally.failed + 1}
        /\ tally'.controls = tally.controls /\ tally'.mishaps = tally.mishaps
    BY <1>4, CountsTyped DEF BInv, IInv, Tally
  <2>2. \A n \in Nat : Paid(n) => Paid(n)'
    BY <1>1, <2>1, CountsTyped DEF BInv, IInv, Paid
  <2>3. \A a \in Attempt : /\ Ahead(events', attempt'[a].seq) = Ahead(events, attempt[a].seq)
                           /\ Cardinality(Ahead(events, attempt[a].seq)) \in Nat
    BY <1>1, <1>4, AheadFinite DEF BInv, IInv, Ahead
  <2> QED
    BY <1>2, <2>1, <2>2, <2>3 DEF BInv, Balanced
<1> QED
  BY <1>3, <1>4 DEF AppendControl, Append, Calmly

\* A request that numbers an event of its own costs at most one event of the run,
\* and nothing else does but an insert that failed, as long as attempts follow one
\* another and find what the one before stored.
THEOREM LossesAreExplained == Spec => []LossesExplained
<1>1. Init => BInv
  <2> SUFFICES ASSUME Init PROVE Balanced
    BY InitInv DEF BInv
  <2>1. \A a \in Attempt : ~Numbering(a)
    BY DEF Init, Idle, Numbering, Resting
  <2> QED
    BY <2>1 DEF Init, Balanced, Paid, Pending, NoRequest
<1>2. BInv /\ [Next]_vars => Balanced'
  <2> SUFFICES ASSUME BInv, [Next]_vars PROVE Balanced'
    OBVIOUS
  <2>1. CASE \E a \in Attempt : Step(a)
    BY <2>1, StepBalance
  <2>2. CASE Cancel
    BY <2>2, CancelBalance
  <2>3. CASE AskControl
    BY <2>3, AskControlBalance
  <2>4. CASE AppendControl
    BY <2>4, AppendControlBalance
  <2>5. CASE WriteControl
    <3>1. SameCounts /\ tally.mishaps \subseteq tally'.mishaps
      BY <2>5, StrikeCounts DEF BInv, IInv, WriteControl, UpdateRun
    <3> QED
      BY <2>5, <3>1, SameBalance DEF WriteControl, NoRequest, Numbering
  <2>6. CASE Poll
    BY <2>6, SameBalance DEF Poll, SameCounts, Numbering
  <2>7. CASE UNCHANGED vars
    BY <2>7, SameBalance DEF vars, SameCounts, Numbering
  <2> QED
    BY <2>1, <2>2, <2>3, <2>4, <2>5, <2>6, <2>7 DEF Next
<1>3. BInv => LossesExplained
  <2> SUFFICES ASSUME BInv PROVE LossesExplained
    OBVIOUS
  <2>1. tally.mishaps \cap {"overlap", "read"} = {} => Paid(0)
    BY DEF BInv, Balanced
  <2> QED
    BY <2>1, CountsTyped DEF BInv, IInv, Paid, LossesExplained
<1>4. BInv /\ [Next]_vars /\ IInv' => BInv'
  BY <1>2 DEF BInv
<1> QED
  BY <1>1, <1>3, <1>4, Inductive, PTL DEF Spec

-----------------------------------------------------------------------------
(* What is counted.                                                        *)

\* An attempt that has read the totals
Counting(a) == attempt[a].pc \notin Resting \cup {"mark", "open", "totals"}

\* An attempt that is about to add a call to the totals, or to record it
Counts(a) == attempt[a].pc \in {"tally", "record"}

Call(a) == <<UsagePhase(a), attempt[a].seq>>

\* Unless something went wrong, the one attempt that runs has the totals of the run,
\* and what was told is in them but for the call it is about to add
TokensCounted ==
  tally.mishaps = {} =>
    /\ \A a \in Attempt : Counting(a) => attempt[a].totals = run.tokens
    /\ \A a \in Attempt : attempt[a].pc = "tally" => told = run.tokens + 1
    /\ (\A a \in Attempt : attempt[a].pc # "tally") => told = run.tokens

\* A call has the number of its event, and nobody recorded it before
Keyed ==
  tally.lost = 0 =>
    /\ \A k \in DOMAIN usage : k[2] \in DOMAIN events
    /\ \A a \in Attempt : Counts(a) =>
         /\ attempt[a].seq \in DOMAIN events /\ events[attempt[a].seq].by = a
         /\ Call(a) \notin DOMAIN usage

\* As many calls are recorded, or about to be, as were told
CallsKept ==
  /\ IsFiniteSet(DOMAIN usage)
  /\ tally.lost = 0 /\ tally.mishaps \cap {"usage", "crash"} = {} =>
       Cardinality(DOMAIN usage) + On({"tally", "record"}) = told

CInv == IInv /\ TokensCounted /\ Keyed /\ CallsKept

\* What is stored stays.
EventsStay == \A s \in DOMAIN events : s \in DOMAIN events' /\ events'[s] = events[s]

\* An insert overwrites nothing.
LEMMA AppendStays ==
  ASSUME NEW seq, NEW by, NEW phase, Append(seq, by, phase)
  PROVE  EventsStay
  BY DEF Append, Store, Put, EventsStay

\* What went wrong and what was lost stay so.
LEMMA AppendMishaps ==
  ASSUME TypeOK, NEW seq, NEW by, NEW phase, Append(seq, by, phase)
  PROVE  (tally'.lost = 0 => tally.lost = 0) /\ tally'.mishaps = tally.mishaps
<1>1. tally \in Tally
  BY DEF TypeOK
<1>2. tally'.mishaps = tally.mishaps
  BY <1>1 DEF Append, Calmly, Tally
<1> QED
  BY <1>2, AppendLoses

\* What a step leaves alone that counts nothing
Uncounted ==
  /\ EventsStay /\ (tally'.lost = 0 => tally.lost = 0) /\ tally.mishaps \subseteq tally'.mishaps
  /\ UNCHANGED <<import, usage, told>> /\ run'.tokens = run.tokens

\* Where an attempt may be before and after it
Elsewhere(a) ==
  /\ \A b \in Attempt \ {a} : attempt'[b] = attempt[b]
  /\ ~Counts(a) /\ attempt'[a].pc \notin {"tally", "record"}
  /\ Counting(a)' => Counting(a) /\ attempt'[a].totals = attempt[a].totals

\* Such a step keeps the counts.
LEMMA UncountedKeeps ==
  ASSUME CInv, Uncounted, UNCHANGED attempt \/ \E a \in Attempt : Elsewhere(a)
  PROVE  TokensCounted' /\ Keyed' /\ CallsKept'
<1>1. \A b \in Attempt : /\ attempt'[b].pc = "tally" <=> attempt[b].pc = "tally"
                         /\ Counts(b)' <=> Counts(b)
                         /\ Counts(b) => attempt'[b] = attempt[b]
                         /\ Counting(b)' => Counting(b) /\ attempt'[b].totals = attempt[b].totals
  BY DEF Elsewhere, Counts, Counting
<1>2. TokensCounted'
  BY <1>1 DEF CInv, TokensCounted, Uncounted
<1>3. \A b \in Attempt : Counts(b) => Call(b)' = Call(b)
  BY <1>1 DEF Call, UsagePhase, Uncounted
<1>4. Keyed'
  BY <1>1, <1>3 DEF CInv, Keyed, Uncounted, EventsStay
<1>5. On({"tally", "record"})' = On({"tally", "record"})
  BY <1>1 DEF On, Counts
<1>6. CallsKept'
  BY <1>5 DEF CInv, CallsKept, Uncounted
<1> QED
  BY <1>2, <1>4, <1>6

\* A step after which something has gone wrong that defeats both counts.
LEMMA CrashCounts ==
  ASSUME CInv, NEW a \in Attempt, Crash(a)
  PROVE  TokensCounted' /\ Keyed' /\ CallsKept'
<1>1. "crash" \in tally'.mishaps
  BY StrikeWorsens DEF CInv, IInv, Crash, Mishap
<1>2. tally'.lost = tally.lost /\ UNCHANGED <<import, events, usage>>
  BY StrikeLoses DEF CInv, IInv, Crash
<1>3. /\ attempt'[a].pc = "ended"
      /\ \A b \in Attempt \ {a} : attempt'[b] = attempt[b]
  BY DEF CInv, IInv, TypeOK, Crash, Go, Emitter
<1>4. \A b \in Attempt : Counts(b)' => b # a
  BY <1>3 DEF Counts
<1>5. \A b \in Attempt \ {a} : (Counts(b)' <=> Counts(b)) /\ Call(b)' = Call(b)
  BY <1>2, <1>3 DEF Counts, Call, UsagePhase
<1>6. Keyed'
  BY <1>2, <1>3, <1>4, <1>5 DEF CInv, Keyed
<1>7. TokensCounted' /\ CallsKept'
  BY <1>1, <1>2 DEF CInv, TokensCounted, CallsKept
<1> QED
  BY <1>6, <1>7

\* Going to another place that counts nothing.
LEMMA GoCounts ==
  ASSUME CInv, NEW a \in Attempt, ~Counts(a), NEW pc \in PC \ {"tally", "record"}, Go(a, pc),
         Counting(a) \/ pc \in Resting \cup {"mark", "open", "totals"}, Uncounted
  PROVE  TokensCounted' /\ Keyed' /\ CallsKept'
<1>1. /\ attempt'[a].pc = pc /\ attempt'[a].totals = attempt[a].totals
      /\ \A b \in Attempt \ {a} : attempt'[b] = attempt[b]
  BY DEF CInv, IInv, TypeOK, Go, Emitter
<1>2. Elsewhere(a)
  BY <1>1 DEF Elsewhere, Counting
<1> QED
  BY <1>2, UncountedKeeps

\* Telling an event that is not a call.
LEMMA TellCounts ==
  ASSUME CInv, NEW a \in Attempt, Counting(a), ~Counts(a), NEW phase,
         Append(attempt[a].seq + 1, a, phase),
         attempt'[a].totals = attempt[a].totals, attempt'[a].pc \notin {"tally", "record"},
         \A b \in Attempt \ {a} : attempt'[b] = attempt[b],
         UNCHANGED <<import, usage, told, run>>
  PROVE  TokensCounted' /\ Keyed' /\ CallsKept'
<1>1. Uncounted
  BY AppendStays, AppendMishaps DEF CInv, IInv, Uncounted
<1>2. Elsewhere(a)
  BY DEF Elsewhere
<1> QED
  BY <1>1, <1>2, UncountedKeeps

\* Among them those that only go on.
LEMMA EmitCounts ==
  ASSUME CInv, NEW a \in Attempt, Counting(a), ~Counts(a), NEW phase,
         NEW pc \in PC \ {"tally", "record"}, Emit(a, phase, pc),
         UNCHANGED <<import, usage, told, run>>
  PROVE  TokensCounted' /\ Keyed' /\ CallsKept'
<1>1. /\ attempt'[a].pc = pc /\ attempt'[a].totals = attempt[a].totals
      /\ \A b \in Attempt \ {a} : attempt'[b] = attempt[b]
  BY DEF CInv, IInv, TypeOK, Emit, Emitter
<1> QED
  BY <1>1, TellCounts DEF Emit

\* Attempts are finitely many.
LEMMA OnFinite ==
  ASSUME NEW S \in SUBSET Attempt
  PROVE  IsFiniteSet(S) /\ Cardinality(S) \in Nat
<1>1. IsFiniteSet(Attempt)
  BY FS_Interval, LimitsAssumption DEF Attempt
<1> QED
  BY <1>1, FS_Subset, FS_CardinalityType

\* A call that tells what it used.
LEMMA CallCounts ==
  ASSUME CInv, NEW a \in Attempt, attempt[a].pc = "call", Emit(a, UsagePhase(a), "tally"),
         told' = told + 1, UNCHANGED <<import, usage, run>>
  PROVE  TokensCounted' /\ Keyed' /\ CallsKept'
<1>1. /\ attempt'[a].pc = "tally" /\ attempt'[a].totals = attempt[a].totals
      /\ attempt'[a].seq = attempt[a].seq + 1 /\ attempt'[a].stage = attempt[a].stage
      /\ \A b \in Attempt \ {a} : attempt'[b] = attempt[b]
  BY DEF CInv, IInv, TypeOK, Emit, Emitter
<1>2. /\ EventsStay /\ (tally'.lost = 0 => tally.lost = 0) /\ tally'.mishaps = tally.mishaps
  BY AppendStays, AppendMishaps DEF CInv, IInv, Emit
<1>3. told \in Nat /\ run.tokens \in Nat /\ attempt[a].seq \in Nat
  BY DEF CInv, IInv, TypeOK, RunRow, Emitter
<1>4. TokensCounted'
  <2> SUFFICES ASSUME tally.mishaps = {}
               PROVE  /\ \A b \in Attempt : Counting(b)' => attempt'[b].totals = run'.tokens
                      /\ told' = run'.tokens + 1
    BY <1>1, <1>2 DEF TokensCounted
  <2>1. Live(a) /\ Counting(a)
    BY DEF Live, Counting, Resting
  <2>2. \A b \in Attempt \ {a} : ~Live(b)
    BY <2>1 DEF CInv, IInv, OneAlive
  <2>3. \A b \in Attempt : attempt[b].pc # "tally"
    BY <2>2 DEF Live, Resting
  <2>4. told = run.tokens /\ attempt[a].totals = run.tokens
    BY <2>1, <2>3 DEF CInv, TokensCounted
  <2>5. \A b \in Attempt : Counting(b)' => b = a
    BY <1>1, <2>2 DEF Counting, Live
  <2> QED
    BY <1>1, <1>3, <2>4, <2>5
<1>5. ASSUME tally'.lost = 0
      PROVE  /\ attempt[a].seq + 1 \notin DOMAIN events
             /\ attempt[a].seq + 1 \in DOMAIN events' /\ events'[attempt[a].seq + 1].by = a
  <2>1. tally \in Tally /\ tally.lost \in Nat
    BY CountsTyped DEF CInv, IInv
  <2>2. tally' = [tally EXCEPT !.lost = @ + 1] => tally'.lost = tally.lost + 1
    BY <2>1 DEF Tally
  <2>3. tally' = [tally EXCEPT !.lost = @ + 1, !.failed = @ + 1] => tally'.lost = tally.lost + 1
    BY <2>1 DEF Tally
  <2>4. attempt[a].seq + 1 \notin DOMAIN events
        /\ Store(attempt[a].seq + 1, a, UsagePhase(a))
    BY <1>5, <2>1, <2>2, <2>3 DEF Emit, Append
  <2> QED
    BY <2>4 DEF Store, Put
<1>6. Keyed'
  <2> SUFFICES ASSUME tally'.lost = 0, NEW b \in Attempt, Counts(b)'
               PROVE  /\ attempt'[b].seq \in DOMAIN events' /\ events'[attempt'[b].seq].by = b
                      /\ Call(b)' \notin DOMAIN usage
    BY <1>2 DEF CInv, Keyed, EventsStay
  <2>1. CASE b = a
    <3>1. Call(a)'[2] = attempt[a].seq + 1
      BY <1>1 DEF Call
    <3>2. \A k \in DOMAIN usage : k[2] # attempt[a].seq + 1
      BY <1>2, <1>5 DEF CInv, Keyed
    <3> QED
      BY <1>1, <1>5, <2>1, <3>1, <3>2
  <2>2. CASE b # a
    <3>1. attempt'[b] = attempt[b] /\ Counts(b) /\ Call(b)' = Call(b)
      BY <1>1, <2>2 DEF Counts, Call, UsagePhase
    <3> QED
      BY <1>2, <3>1 DEF CInv, Keyed, EventsStay
  <2> QED
    BY <2>1, <2>2
<1>7. CallsKept'
  <2>1. On({"tally", "record"})' = On({"tally", "record"}) + 1
    <3> DEFINE S == {b \in Attempt : attempt[b].pc \in {"tally", "record"}}
    <3>1. {b \in Attempt : attempt'[b].pc \in {"tally", "record"}} = S \cup {a} /\ a \notin S
      BY <1>1
    <3>2. IsFiniteSet(S)
      BY OnFinite
    <3>3. Cardinality(S \cup {a}) = Cardinality(S) + 1
      BY <3>1, <3>2, FS_AddElement
    <3> QED
      BY <3>1, <3>3 DEF On
  <2>2. On({"tally", "record"}) \in Nat
    BY OnFinite DEF On
  <2>3. Cardinality(DOMAIN usage) \in Nat
    BY FS_CardinalityType DEF CInv, CallsKept
  <2> QED
    BY <1>2, <1>3, <2>1, <2>2, <2>3 DEF CInv, CallsKept
<1> QED
  BY <1>4, <1>6, <1>7

\* The totals are read before anything is counted.
LEMMA ReadTotalsCounts ==
  ASSUME CInv, NEW a \in Attempt, ReadTotals(a)
  PROVE  TokensCounted' /\ Keyed' /\ CallsKept'
<1>1. attempt[a] \in Emitter /\ attempt \in [Attempt -> Emitter] /\ attempt[a].pc = "totals"
  BY DEF CInv, IInv, TypeOK, ReadTotals, At
<1>2. PICK pc \in {"queue", "receive"}, totals \in {0, run.tokens} :
        /\ attempt' = [attempt EXCEPT ![a].pc = pc, ![a].totals = totals]
        /\ totals = run.tokens \/ Strike("read")
  BY DEF ReadTotals
<1>3. /\ attempt'[a].pc = pc /\ attempt'[a].totals = totals
      /\ \A b \in Attempt \ {a} : attempt'[b] = attempt[b]
  BY <1>1, <1>2 DEF Emitter
<1>4. tally'.lost = tally.lost /\ tally.mishaps \subseteq tally'.mishaps
  BY StrikeCounts DEF CInv, IInv, ReadTotals, SameCounts
<1>5. UNCHANGED <<import, usage, events, told, run>>
  BY DEF ReadTotals
<1>6. \A b \in Attempt : /\ attempt'[b].pc = "tally" <=> attempt[b].pc = "tally"
                         /\ Counts(b)' <=> Counts(b)
                         /\ Counts(b) => attempt'[b] = attempt[b]
  BY <1>1, <1>3 DEF Counts
<1>7. TokensCounted'
  <2>1. CASE totals = run.tokens
    <3>1. \A b \in Attempt \ {a} : Counting(b)' => Counting(b)
      BY <1>3 DEF Counting
    <3> QED
      BY <1>3, <1>4, <1>5, <1>6, <2>1, <3>1 DEF CInv, TokensCounted
  <2>2. CASE Strike("read")
    <3>1. "read" \in tally'.mishaps
      BY <2>2, StrikeWorsens DEF CInv, IInv, Mishap
    <3> QED
      BY <3>1 DEF TokensCounted
  <2> QED
    BY <1>2, <2>1, <2>2
<1>8. \A b \in Attempt : Counts(b) => Call(b)' = Call(b)
  BY <1>5, <1>6 DEF Call, UsagePhase
<1>9. Keyed'
  BY <1>4, <1>5, <1>6, <1>8 DEF CInv, Keyed
<1>10. On({"tally", "record"})' = On({"tally", "record"})
  BY <1>6 DEF On, Counts
<1>11. CallsKept'
  BY <1>4, <1>5, <1>10 DEF CInv, CallsKept
<1> QED
  BY <1>7, <1>9, <1>11

\* The totals are written with the call in them.
LEMMA WriteTotalsCounts ==
  ASSUME CInv, NEW a \in Attempt, WriteTotals(a)
  PROVE  TokensCounted' /\ Keyed' /\ CallsKept'
<1>1. attempt[a] \in Emitter /\ attempt \in [Attempt -> Emitter] /\ attempt[a].pc = "tally"
      /\ run \in RunRow
  BY DEF CInv, IInv, TypeOK, WriteTotals, At
<1>2. /\ attempt'[a].pc = "record" /\ attempt'[a].totals = attempt[a].totals + 1
      /\ attempt'[a].seq = attempt[a].seq /\ attempt'[a].stage = attempt[a].stage
      /\ \A b \in Attempt \ {a} : attempt'[b] = attempt[b]
  BY <1>1 DEF WriteTotals, Emitter
<1>3. tally'.lost = tally.lost /\ tally.mishaps \subseteq tally'.mishaps
  BY StrikeCounts DEF CInv, IInv, WriteTotals, UpdateRun, SameCounts
<1>4. UNCHANGED <<import, usage, events, told>>
  BY DEF WriteTotals
<1>5. TokensCounted'
  <2>1. CASE run' = [run EXCEPT !["tokens"] = attempt[a].totals + 1]
    <3> SUFFICES ASSUME tally.mishaps = {}
                 PROVE  /\ \A b \in Attempt : Counting(b)' => attempt'[b].totals = run'.tokens
                        /\ \A b \in Attempt : attempt'[b].pc # "tally"
                        /\ told' = run'.tokens
      BY <1>3 DEF TokensCounted
    <3>1. Live(a) /\ Counting(a)
      BY <1>1 DEF Live, Counting, Resting
    <3>2. \A b \in Attempt \ {a} : ~Live(b)
      BY <3>1 DEF CInv, IInv, OneAlive
    <3>3. told = run.tokens + 1 /\ attempt[a].totals = run.tokens
      BY <1>1, <3>1 DEF CInv, TokensCounted
    <3>4. run'.tokens = attempt[a].totals + 1
      BY <1>1, <2>1 DEF RunRow
    <3>5. \A b \in Attempt \ {a} : ~Counting(b)' /\ attempt'[b].pc # "tally"
      BY <1>2, <3>2 DEF Counting, Live, Resting
    <3> QED
      BY <1>2, <1>4, <3>3, <3>4, <3>5
  <2>2. CASE Strike("run")
    <3>1. "run" \in tally'.mishaps
      BY <2>2, StrikeWorsens DEF CInv, IInv, Mishap
    <3> QED
      BY <3>1 DEF TokensCounted
  <2> QED
    BY <2>1, <2>2 DEF WriteTotals, UpdateRun
<1>6. \A b \in Attempt : (Counts(b)' <=> Counts(b)) /\ attempt'[b].seq = attempt[b].seq
                         /\ Call(b)' = Call(b)
  BY <1>1, <1>2, <1>4 DEF Counts, Call, UsagePhase
<1>7. Keyed'
  BY <1>3, <1>4, <1>6 DEF CInv, Keyed
<1>8. On({"tally", "record"})' = On({"tally", "record"})
  BY <1>6 DEF On, Counts
<1>9. CallsKept'
  BY <1>3, <1>4, <1>8 DEF CInv, CallsKept
<1> QED
  BY <1>5, <1>7, <1>9

\* The call is recorded.
LEMMA RecordUsageCounts ==
  ASSUME CInv, NEW a \in Attempt, RecordUsage(a)
  PROVE  TokensCounted' /\ Keyed' /\ CallsKept'
<1>1. attempt[a].pc = "record" /\ Counts(a) /\ Counting(a)
  BY DEF RecordUsage, At, Counts, Counting, Resting
<1>2. /\ attempt'[a].pc = "judge" /\ attempt'[a].totals = attempt[a].totals
      /\ \A b \in Attempt \ {a} : attempt'[b] = attempt[b]
  BY DEF CInv, IInv, TypeOK, RecordUsage, Go, Emitter
<1>3. tally'.lost = tally.lost /\ tally.mishaps \subseteq tally'.mishaps
  BY StrikeCounts DEF CInv, IInv, RecordUsage, SameCounts
<1>4. UNCHANGED <<import, events, told, run>>
  BY DEF RecordUsage
<1>5. TokensCounted'
  <2>1. \A b \in Attempt : /\ attempt'[b].pc = "tally" <=> attempt[b].pc = "tally"
                           /\ Counting(b)' => Counting(b)
                           /\ attempt'[b].totals = attempt[b].totals
    BY <1>1, <1>2 DEF Counting
  <2> QED
    BY <1>3, <1>4, <2>1 DEF CInv, TokensCounted
<1>6. /\ ~Counts(a)'
      /\ \A b \in Attempt \ {a} : (Counts(b)' <=> Counts(b)) /\ Call(b)' = Call(b)
  BY <1>2, <1>4 DEF Counts, Call, UsagePhase
<1>7. CASE usage' = Put(usage, Call(a), a)
  <2>1. DOMAIN usage' = DOMAIN usage \cup {Call(a)}
    BY <1>7 DEF Put
  <2>2. Keyed'
    <3> SUFFICES ASSUME tally.lost = 0
                 PROVE  /\ \A k \in DOMAIN usage' : k[2] \in DOMAIN events
                        /\ \A b \in Attempt : Counts(b)' =>
                             /\ attempt'[b].seq \in DOMAIN events
                             /\ events[attempt'[b].seq].by = b
                             /\ Call(b)' \notin DOMAIN usage'
      BY <1>3, <1>4 DEF Keyed
    <3>1. Call(a)[2] = attempt[a].seq /\ attempt[a].seq \in DOMAIN events
          /\ events[attempt[a].seq].by = a
      BY <1>1 DEF CInv, Keyed, Call
    <3>2. ASSUME NEW b \in Attempt, Counts(b)'
          PROVE  /\ attempt'[b].seq \in DOMAIN events /\ events[attempt'[b].seq].by = b
                 /\ Call(b)' \notin DOMAIN usage'
      <4>1. b # a /\ attempt'[b] = attempt[b] /\ Counts(b) /\ Call(b)' = Call(b)
        BY <1>2, <1>6, <3>2
      <4>2. attempt[b].seq \in DOMAIN events /\ events[attempt[b].seq].by = b
            /\ Call(b) \notin DOMAIN usage
        BY <4>1 DEF CInv, Keyed
      <4>3. Call(b) # Call(a)
        BY <3>1, <4>1, <4>2 DEF Call
      <4> QED
        BY <2>1, <4>1, <4>2, <4>3
    <3>3. \A k \in DOMAIN usage' : k[2] \in DOMAIN events
      BY <2>1, <3>1 DEF CInv, Keyed
    <3> QED
      BY <3>2, <3>3
  <2>3. IsFiniteSet(DOMAIN usage) /\ Cardinality(DOMAIN usage) \in Nat
        /\ IsFiniteSet(DOMAIN usage')
        /\ (Call(a) \notin DOMAIN usage =>
              Cardinality(DOMAIN usage') = Cardinality(DOMAIN usage) + 1)
    BY <2>1, FS_AddElement, FS_CardinalityType DEF CInv, CallsKept
  <2>4. On({"tally", "record"})' = On({"tally", "record"}) - 1
        /\ On({"tally", "record"}) \in Nat
    <3> DEFINE S == {b \in Attempt : attempt[b].pc \in {"tally", "record"}}
    <3>1. {b \in Attempt : attempt'[b].pc \in {"tally", "record"}} = S \ {a} /\ a \in S
      BY <1>1, <1>2
    <3>2. IsFiniteSet(S) /\ Cardinality(S) \in Nat
      BY OnFinite
    <3>3. Cardinality(S \ {a}) = Cardinality(S) - 1
      BY <3>1, <3>2, FS_RemoveElement
    <3> QED
      BY <3>1, <3>2, <3>3 DEF On
  <2>5. tally.lost = 0 => Call(a) \notin DOMAIN usage
    BY <1>1 DEF CInv, Keyed
  <2>6. told \in Nat
    BY DEF CInv, IInv, TypeOK
  <2>7. CallsKept'
    BY <1>3, <1>4, <2>3, <2>4, <2>5, <2>6 DEF CInv, CallsKept
  <2> QED
    BY <1>5, <2>2, <2>7
<1>8. CASE Strike("usage") /\ UNCHANGED usage
  <2>1. "usage" \in tally'.mishaps
    BY <1>8, StrikeWorsens DEF CInv, IInv, Mishap
  <2>2. CallsKept'
    BY <1>8, <2>1 DEF CInv, CallsKept
  <2>3. Keyed'
    <3>1. \A b \in Attempt : Counts(b)' => /\ Counts(b) /\ attempt'[b] = attempt[b]
                                           /\ Call(b)' = Call(b)
      BY <1>2, <1>6
    <3> QED
      BY <1>3, <1>4, <1>8, <3>1 DEF CInv, Keyed
  <2> QED
    BY <1>5, <2>2, <2>3
<1> QED
  BY <1>7, <1>8 DEF RecordUsage, Call

\* Every step of an attempt.
LEMMA StepCounts ==
  ASSUME CInv, NEW a \in Attempt, Step(a)
  PROVE  TokensCounted' /\ Keyed' /\ CallsKept'
<1>0. /\ TypeOK /\ tally \in Tally /\ run \in RunRow
      /\ attempt[a] \in Emitter /\ attempt \in [Attempt -> Emitter]
  BY DEF CInv, IInv, TypeOK
<1>1. CASE OpenEmitter(a)
  <2>1. PICK seq : attempt' = [attempt EXCEPT ![a].pc = "totals", ![a].seq = seq]
    BY <1>1 DEF OpenEmitter
  <2>2. attempt'[a].pc = "totals" /\ \A b \in Attempt \ {a} : attempt'[b] = attempt[b]
    BY <1>0, <2>1 DEF Emitter
  <2>3. Elsewhere(a)
    BY <1>1, <2>2 DEF Elsewhere, Counts, Counting, OpenEmitter, At
  <2>4. Uncounted
    BY <1>0, <1>1, StrikeCounts DEF OpenEmitter, Uncounted, SameCounts, EventsStay
  <2> QED
    BY <2>3, <2>4, UncountedKeeps
<1>2. CASE ReadTotals(a)
  BY <1>2, ReadTotalsCounts
<1>3. CASE WriteTotals(a)
  BY <1>3, WriteTotalsCounts
<1>4. CASE RecordUsage(a)
  BY <1>4, RecordUsageCounts
<1>5. CASE Claim(a) \/ Serve(a) \/ Announce(a)
  <2>1. PICK pc \in {"claimed", "open", "ended", "mark"} : Go(a, pc)
    BY <1>5 DEF Claim, Serve, Announce
  <2>2. ~Counts(a)
    <3>1. CASE Claim(a)
      <4>1. ~import.inline /\ a > job.taken
        <5>1. job.taken \in Nat /\ a \in Nat /\ job.taken + 1 = a
          BY <3>1, LimitsAssumption DEF CInv, IInv, TypeOK, JobRow, Claim, Attempt
        <5> QED
          BY <3>1, <5>1 DEF CInv, IInv, Placed, Claim
      <4> QED
        BY <4>1 DEF CInv, IInv, Placed, Counts
    <3>2. CASE Serve(a) \/ Announce(a)
      BY <3>2 DEF Serve, Announce, At, Counts
    <3> QED
      BY <1>5, <3>1, <3>2
  <2>3. /\ tally'.lost = tally.lost /\ tally.mishaps \subseteq tally'.mishaps
        /\ run'.tokens = run.tokens
    BY <1>0, <1>5 DEF Claim, Serve, Announce, Follow, Tally, RunRow
  <2>4. Uncounted
    BY <1>5, <2>3 DEF Claim, Serve, Announce, Uncounted, EventsStay
  <2> QED
    BY <2>1, <2>2, <2>4, GoCounts DEF PC, Resting
<1>6. CASE CompleteJob(a) \/ RetryJob(a) \/ Bury(a)
  <2>1. Go(a, "ended") /\ ~Counts(a)
    BY <1>6 DEF CompleteJob, RetryJob, Bury, At, Counts
  <2>2. run'.tokens = run.tokens
    BY <1>0, <1>6 DEF CompleteJob, RetryJob, Bury, Follow, RunRow
  <2>3. Uncounted
    BY <1>6, <2>2 DEF CompleteJob, RetryJob, Bury, Uncounted, EventsStay
  <2> QED
    BY <2>1, <2>3, GoCounts DEF PC, Resting
<1>7. CASE \/ MarkRunning(a) \/ QueueRun(a) \/ RunInline(a) \/ FinalizeInline(a)
           \/ FinalizeFailed(a) \/ Settle(a)
  <2>1. PICK pc \in {"open", "receive", "layout", "call", "settle", "ended", "bury"} :
          Go(a, pc) /\ (pc = "open" => MarkRunning(a))
    BY <1>7 DEF MarkRunning, QueueRun, RunInline, FinalizeInline, FinalizeFailed, Settle, FirstStep
  <2>2. ~Counts(a) /\ (MarkRunning(a) \/ Counting(a))
    BY <1>7 DEF Counts, Counting, MarkRunning, QueueRun, RunInline, FinalizeInline,
       FinalizeFailed, Settle, At, Resting
  <2>3. /\ tally'.lost = tally.lost /\ tally.mishaps \subseteq tally'.mishaps
    BY <1>0, <1>7, StrikeCounts DEF MarkRunning, QueueRun, RunInline, FinalizeInline,
       FinalizeFailed, Settle, UpdateRun, SameCounts
  <2>4. run'.tokens = run.tokens
    BY <1>0, <1>7 DEF MarkRunning, QueueRun, RunInline, FinalizeInline,
       FinalizeFailed, Settle, UpdateRun, RunRow
  <2>5. Uncounted
    BY <1>7, <2>3, <2>4 DEF MarkRunning, QueueRun, RunInline, FinalizeInline,
       FinalizeFailed, Settle, Uncounted, EventsStay
  <2>6. MarkRunning(a) => pc = "open"
    BY <1>0, <2>1 DEF MarkRunning, Go, Emitter
  <2> QED
    BY <2>1, <2>2, <2>5, <2>6, GoCounts DEF PC, Resting
<1>8. CASE Receive(a) \/ StartWorkflow(a) \/ ReadLayout(a) \/ Fail(a)
  <2>1. Counting(a) /\ ~Counts(a) /\ UNCHANGED <<import, usage, told, run>>
    BY <1>8 DEF Counting, Counts, Receive, StartWorkflow, ReadLayout, Fail, At, Resting
  <2>2. \E phase : \E pc \in PC \ {"tally", "record"} : Emit(a, phase, pc)
    BY <1>8 DEF Receive, StartWorkflow, ReadLayout, Fail, FirstStep, PC
  <2> QED
    BY <2>1, <2>2, EmitCounts
<1>9. ASSUME UNCHANGED <<events, tally, import, usage, told, run>> PROVE Uncounted
  BY <1>9 DEF Uncounted, EventsStay
<1>10. CASE CallExtraction(a) \/ CallSuggestions(a)
  <2>1. /\ attempt[a].pc = "call" /\ Counting(a) /\ ~Counts(a)
        /\ UNCHANGED <<import, usage, run>>
    BY <1>10 DEF Counting, Counts, CallExtraction, CallSuggestions, At, Resting
  <2>2. CASE Emit(a, UsagePhase(a), "tally") /\ told' = told + 1
    BY <2>1, <2>2, CallCounts
  <2>3. CASE \E pc \in {"judge", "error", "amend"} : Go(a, pc) /\ Quietly
    BY <1>9, <2>1, <2>3, GoCounts DEF Quietly, PC
  <2> QED
    BY <1>10, <2>2, <2>3 DEF CallExtraction, CallSuggestions
<1>11. CASE JudgeExtraction(a) \/ JudgeSuggestions(a)
  <2>1. Counting(a) /\ ~Counts(a) /\ UNCHANGED <<import, usage, told, run>>
    BY <1>11 DEF Counting, Counts, JudgeExtraction, JudgeSuggestions, At, Resting
  <2>2. CASE \E phase, try :
               /\ attempt' = [attempt EXCEPT ![a].pc = "call", ![a].try = try,
                                             ![a].seq = @ + 1]
               /\ Append(attempt[a].seq + 1, a, phase)
    <3>1. PICK phase, try :
               /\ attempt' = [attempt EXCEPT ![a].pc = "call", ![a].try = try,
                                             ![a].seq = @ + 1]
               /\ Append(attempt[a].seq + 1, a, phase)
      BY <2>2
    <3>2. /\ attempt'[a].pc = "call" /\ attempt'[a].totals = attempt[a].totals
          /\ \A b \in Attempt \ {a} : attempt'[b] = attempt[b]
      BY <1>0, <3>1 DEF Emitter
    <3> QED
      BY <2>1, <3>1, <3>2, TellCounts
  <2>3. CASE \E phase : \E pc \in {"enrich", "error", "finish"} : Emit(a, phase, pc)
    BY <2>1, <2>3, EmitCounts DEF PC
  <2>4. CASE Go(a, "error") /\ UNCHANGED events /\ Calmly
    BY <1>9, <2>1, <2>4, GoCounts DEF Calmly, PC
  <2> QED
    BY <1>11, <2>2, <2>3, <2>4 DEF JudgeExtraction, JudgeSuggestions
<1>12. CASE Enrich(a)
  <2>1. Counting(a) /\ ~Counts(a) /\ UNCHANGED <<import, usage, told, run>>
    BY <1>12 DEF Counting, Counts, Enrich, At, Resting
  <2>2. CASE /\ attempt' = [attempt EXCEPT ![a].pc = "call", ![a].stage = "enrich",
                                           ![a].try = 1]
             /\ UNCHANGED <<events, tally, left>>
    <3>1. /\ attempt'[a].pc = "call" /\ attempt'[a].totals = attempt[a].totals
          /\ \A b \in Attempt \ {a} : attempt'[b] = attempt[b]
      BY <1>0, <2>2 DEF Emitter
    <3>2. Elsewhere(a) /\ Uncounted
      BY <1>9, <2>1, <2>2, <3>1 DEF Elsewhere
    <3> QED
      BY <3>2, UncountedKeeps
  <2>3. CASE Emit(a, "import_enrichment_skipped", "finish")
    BY <2>1, <2>3, EmitCounts DEF PC
  <2>4. CASE Go(a, "finish") /\ UNCHANGED <<events, tally, left>>
    BY <1>9, <2>1, <2>4, GoCounts DEF PC
  <2> QED
    BY <1>12, <2>2, <2>3, <2>4 DEF Enrich
<1>13. CASE Finish(a)
  <2>1. /\ attempt'[a].pc = "done" /\ attempt'[a].totals = attempt[a].totals
        /\ \A b \in Attempt \ {a} : attempt'[b] = attempt[b]
    BY <1>0, <1>13 DEF Finish, Emitter
  <2>2. Counting(a) /\ ~Counts(a)
    BY <1>13 DEF Counting, Counts, Finish, At, Resting
  <2> QED
    BY <1>13, <2>1, <2>2, TellCounts DEF Finish
<1>14. CASE Crash(a)
  BY <1>14, CrashCounts
<1> QED
  BY <1>1, <1>2, <1>3, <1>4, <1>5, <1>6, <1>7, <1>8, <1>10, <1>11, <1>12, <1>13, <1>14
  DEF Step

\* Operators and clients tell nothing.
LEMMA OthersCount ==
  ASSUME CInv, Cancel \/ AskControl \/ AppendControl \/ WriteControl \/ Poll \/ UNCHANGED vars
  PROVE  TokensCounted' /\ Keyed' /\ CallsKept'
<1>0. TypeOK /\ tally \in Tally /\ run \in RunRow
  BY DEF CInv, IInv, TypeOK
<1>1. UNCHANGED <<import, attempt, usage, told>>
  BY DEF Cancel, AskControl, AppendControl, WriteControl, Poll, vars
<1>2. run'.tokens = run.tokens
  BY <1>0 DEF Cancel, AskControl, AppendControl, WriteControl, UpdateRun, Poll, RunRow, vars
<1>3. CASE Cancel
  <2>1. Latest + 1 \notin DOMAIN events
    <3>1. Latest \in Nat /\ \A s \in DOMAIN events : s <= Latest
      BY LatestTyped DEF CInv, IInv
    <3> QED
      BY <3>1
  <2>2. EventsStay
    BY <1>3, <2>1 DEF Cancel, Store, Put, EventsStay
  <2>3. tally'.lost = tally.lost /\ tally'.mishaps = tally.mishaps
    BY <1>0, <1>3 DEF Cancel, Tally
  <2>4. Uncounted
    BY <1>1, <1>2, <2>2, <2>3 DEF Uncounted
  <2> QED
    BY <1>1, <2>4, UncountedKeeps
<1>4. CASE AskControl
  <2>1. tally'.lost = tally.lost /\ tally'.mishaps = tally.mishaps
    BY <1>0, <1>4 DEF AskControl, Tally
  <2>2. Uncounted
    BY <1>1, <1>2, <1>4, <2>1 DEF AskControl, Uncounted, EventsStay
  <2> QED
    BY <1>1, <2>2, UncountedKeeps
<1>5. CASE AppendControl
  <2>1. Uncounted
    BY <1>0, <1>1, <1>2, <1>5, AppendStays, AppendMishaps DEF AppendControl, Uncounted
  <2> QED
    BY <1>1, <2>1, UncountedKeeps
<1>6. CASE WriteControl
  <2>1. Uncounted
    BY <1>0, <1>1, <1>2, <1>6, StrikeCounts
    DEF WriteControl, UpdateRun, Uncounted, SameCounts, EventsStay
  <2> QED
    BY <1>1, <2>1, UncountedKeeps
<1>7. CASE Poll \/ UNCHANGED vars
  <2>1. Uncounted
    BY <1>1, <1>2, <1>7 DEF Poll, vars, Uncounted, EventsStay
  <2> QED
    BY <1>1, <2>1, UncountedKeeps
<1> QED
  BY <1>3, <1>4, <1>5, <1>6, <1>7

\* The counts are those that the property asks for.
LEMMA CountsSuffice ==
  ASSUME CInv
  PROVE  CallsCounted
<1>1. ASSUME tally.mishaps = {} PROVE run.tokens + On({"tally"}) = told
  <2> DEFINE S == {a \in Attempt : attempt[a].pc \in {"tally"}}
  <2>1. run.tokens \in Nat
    BY DEF CInv, IInv, TypeOK, RunRow
  <2>2. CASE S = {}
    <3>1. On({"tally"}) = 0
      BY <2>2, FS_EmptySet DEF On
    <3>2. told = run.tokens
      BY <1>1, <2>2 DEF CInv, TokensCounted
    <3> QED
      BY <2>1, <3>1, <3>2
  <2>3. CASE S # {}
    <3>1. PICK a \in Attempt : attempt[a].pc = "tally"
      BY <2>3
    <3>2. \A b \in Attempt : attempt[b].pc = "tally" => b = a
      BY <1>1, <3>1 DEF CInv, IInv, OneAlive, Live, Resting
    <3>3. S = {a}
      BY <3>1, <3>2
    <3>4. On({"tally"}) = 1
      BY <3>3, FS_Singleton DEF On
    <3>5. told = run.tokens + 1
      BY <1>1, <3>1 DEF CInv, TokensCounted
    <3> QED
      BY <3>4, <3>5
  <2> QED
    BY <2>2, <2>3
<1> QED
  BY <1>1 DEF CInv, CallsKept, CallsCounted

\* Nothing a provider told is forgotten: the totals of the run and the recorded
\* calls account for it across attempts and requests, unless attempts overlapped,
\* a row could not be read or written, or a process died (for the recorded
\* calls, unless an event was lost).
THEOREM CallsAreCounted == Spec => []CallsCounted
<1>1. Init => CInv
  <2> SUFFICES ASSUME Init PROVE TokensCounted /\ Keyed /\ CallsKept
    BY InitInv DEF CInv
  <2>1. \A a \in Attempt : ~Counting(a) /\ ~Counts(a) /\ attempt[a].pc # "tally"
    BY DEF Init, Idle, Counting, Counts, Resting
  <2>2. TokensCounted /\ Keyed
    BY <2>1 DEF Init, TokensCounted, Keyed
  <2>3. On({"tally", "record"}) = 0
    <3>1. {a \in Attempt : attempt[a].pc \in {"tally", "record"}} = {}
      BY <2>1 DEF Counts
    <3> QED
      BY <3>1, FS_EmptySet DEF On
  <2>4. DOMAIN usage = {} /\ told = 0
    BY DEF Init
  <2>5. CallsKept
    BY <2>3, <2>4, FS_EmptySet DEF CallsKept
  <2> QED
    BY <2>2, <2>5
<1>2. CInv /\ [Next]_vars => TokensCounted' /\ Keyed' /\ CallsKept'
  BY StepCounts, OthersCount DEF Next
<1>3. CInv => CallsCounted
  BY CountsSuffice
<1>4. CInv /\ [Next]_vars /\ IInv' => CInv'
  BY <1>2 DEF CInv
<1> QED
  BY <1>1, <1>3, <1>4, Inductive, PTL DEF Spec
=============================================================================
