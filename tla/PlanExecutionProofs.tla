------------------------ MODULE PlanExecutionProofs ------------------------
(***************************************************************************)
(* The execution of plans keeps what the review promised, for any number   *)
(* of products, plans and disturbances: PlanExecution implements           *)
(* Publication.                                                            *)
(*                                                                         *)
(* What is approved of a plan is fixed once, and every copy of the plan    *)
(* (the row, the API's memory, the worker's, what Shopify was sent) either *)
(* holds it or is of a plan that is still under review.  Reading results   *)
(* by their place gives each product its own as long as no image failed.   *)
(* How submits end is a second invariant, on top of the first.             *)
(***************************************************************************)
EXTENDS PlanExecution, TLAPS, FiniteSetTheorems

\* The rows there are
RowsKnown ==
  /\ \A p \in Plan :
       /\ row[p] # Absent <=> plan[p] # Absent
       /\ api[p] # Absent => row[p] # Absent
       /\ approval[p] # Absent => row[p] # Absent
  /\ creating # Absent => \E p \in Plan : plan[p] = Absent

\* A copy of a plan is under review, or holds what was approved
Faithful(copy, p) ==
  copy # Absent =>
    IF approval[p] = Absent THEN copy.status = "review"
                            ELSE copy.status # "review" /\ copy.chosen = approval[p]

CopiesFaithful == \A p \in Plan : Faithful(row[p], p) /\ Faithful(api[p], p)

ApprovesReviewed ==
  approving # Absent => approval[approving.plan] = Absent /\ row[approving.plan] # Absent

JobsApproved == \A p \in Plan : job[p] # "absent" => approval[p] # Absent

Executing == {"begin", "expect", "mark", "marking", "send", "wait", "stock",
              "report", "reporting", "finish"}

\* Who executes a plan executes what was approved of it
ExecutesApproved ==
  /\ \A x \in Executor :
       /\ proc[x].pc = "idle" => proc[x] = IdleProc
       /\ proc[x].pc # "idle" => proc[x].plan \in Plan /\ approval[proc[x].plan] # Absent
       /\ proc[x].pc \in Executing \/ (proc[x].pc # "idle" /\ proc[x].saved # "review")
            => proc[x].chosen = approval[proc[x].plan]
       /\ proc[x].pc # "stock" => proc[x].done = {}
       /\ proc[x].pc \notin {"wait", "stock"} => proc[x].failed = {}
       /\ proc[x].failed \subseteq proc[x].chosen /\ proc[x].done \subseteq proc[x].chosen
  /\ proc["inline"].pc \in {"idle", "send", "wait"}

\* Shopify was sent only what was approved, and what it accepted is written
SentApproved ==
  /\ \A t \in pending : approval[t[2]] # Absent /\ t[3] \in approval[t[2]]
  /\ \A t \in accepted : <<t[2], t[3]>> \in written

\* A product that succeeded was written, and given its own stock when its turn has come
ResultsEarned ==
  proc["queue"].pc = "stock" =>
    /\ \A i \in Item : proc["queue"].result[i] = "success" =>
         <<proc["queue"].plan, i>> \in written /\ i \notin proc["queue"].failed
    /\ \A i \in proc["queue"].done :
         proc["queue"].failed = {} /\ proc["queue"].result[i] = "success" =>
           <<proc["queue"].plan, i, i>> \in stocked

IInv ==
  /\ TypeOK /\ RowsKnown /\ CopiesFaithful /\ ApprovesReviewed /\ JobsApproved
  /\ ExecutesApproved /\ SentApproved /\ ResultsEarned

-----------------------------------------------------------------------------
(* Helpers.                                                                *)

\* A row, an approval or a request that is there is not taken for one that is not.
LEMMA PresentRecords ==
  /\ \A r \in PlanRow : r # Absent
  /\ \A i \in PlanInfo : i # Absent
  /\ \A c \in Creation : c # Absent
  /\ \A q \in Pending : q # Absent
  /\ \A items \in SUBSET Item : items # Absent
  BY AbsentAssumption

\* Among some plans one has the greatest version, and the greatest number with it.
LEMMA NewestExists ==
  ASSUME NEW ps \in SUBSET Plan, ps # {}, \A p \in ps : plan[p].version \in Nat
  PROVE  Newest(ps) \in ps
<1> DEFINE Over(p) == {q \in ps : \/ plan[p].version < plan[q].version
                                  \/ plan[p].version = plan[q].version /\ p < q}
           overs == {Over(p) : p \in ps}
<1>1. \A p \in Plan : p \in Int
  BY CountAssumption DEF Plan
<1>2. IsFiniteSet(ps)
  <2>1. IsFiniteSet(Plan)
    BY FS_Interval, CountAssumption DEF Plan
  <2> QED
    BY <2>1, FS_Subset
<1>3. IsWellFoundedOn(StrictSubsetOrdering(ps), SUBSET ps)
  BY <1>2, FS_FiniteSubsetsOfFinite, FS_StrictSubsetOrderingWellFounded
<1>4. PICK least \in overs : \A over \in overs : <<over, least>> \notin StrictSubsetOrdering(ps)
  <2>1. overs \subseteq SUBSET ps /\ overs # {}
    OBVIOUS
  <2> HIDE DEF overs
  <2> QED
    BY <2>1, <1>3, WFMin
<1>5. PICK p \in ps : least = Over(p)
  BY <1>4
<1>6. Over(p) = {}
  <2>1. SUFFICES ASSUME NEW q \in Over(p) PROVE FALSE
    OBVIOUS
  <2>2. Over(q) \subseteq Over(p) /\ q \notin Over(q)
    BY <1>1
  <2>3. Over(q) \in overs /\ <<Over(q), Over(p)>> \in StrictSubsetOrdering(ps)
    BY <2>2 DEF StrictSubsetOrdering
  <2> QED
    BY <2>3, <1>4, <1>5
<1>7. \A q \in ps : \/ plan[q].version < plan[p].version
                    \/ plan[q].version = plan[p].version /\ q <= p
  BY <1>1, <1>6
<1> HIDE DEF Over, overs
<1> QED
  BY <1>7 DEF Newest

\* The plan that is made next has no name yet.
LEMMA FirstFree ==
  ASSUME \E q \in Plan : plan[q] = Absent
  PROVE  \E q \in Plan : plan[q] = Absent /\ \A r \in 1..(q - 1) : plan[r] # Absent
<1> DEFINE Under(p) == {r \in Plan : r < p}
           unders == {Under(p) : p \in {q \in Plan : plan[q] = Absent}}
<1>1. \A p \in Plan : p \in Int /\ 1..(p - 1) = Under(p)
  BY CountAssumption DEF Plan
<1>2. IsWellFoundedOn(StrictSubsetOrdering(Plan), SUBSET Plan)
  <2>1. IsFiniteSet(Plan)
    BY FS_Interval, CountAssumption DEF Plan
  <2> QED
    BY <2>1, FS_FiniteSubsetsOfFinite, FS_StrictSubsetOrderingWellFounded
<1>3. PICK least \in unders :
        \A under \in unders : <<under, least>> \notin StrictSubsetOrdering(Plan)
  <2>1. unders \subseteq SUBSET Plan /\ unders # {}
    OBVIOUS
  <2> HIDE DEF unders
  <2> QED
    BY <2>1, <1>2, WFMin
<1>4. PICK q \in Plan : plan[q] = Absent /\ least = Under(q)
  BY <1>3
<1>5. \A r \in Under(q) : plan[r] # Absent
  <2>1. SUFFICES ASSUME NEW r \in Under(q), plan[r] = Absent PROVE FALSE
    OBVIOUS
  <2>2. Under(r) \subseteq Under(q) /\ r \notin Under(r)
    BY <1>1
  <2>3. Under(r) \in unders /\ <<Under(r), Under(q)>> \in StrictSubsetOrdering(Plan)
    BY <2>1, <2>2 DEF StrictSubsetOrdering
  <2> QED
    BY <2>3, <1>3, <1>4
<1> QED
  BY <1>1, <1>4, <1>5

\* What the API takes for the latest plan is one of the draft's.
LEMMA LatestKnown ==
  ASSUME IInv, Latest # NoPlan
  PROVE  Latest \in Plan /\ row[Latest] # Absent
<1> DEFINE remembered == {p \in Plan : api[p] # Absent}
           stored == {p \in Plan : row[p] # Absent}
<1>1. \A p \in remembered \cup stored : row[p] # Absent /\ plan[p].version \in Nat
  <2>1. \A p \in remembered \cup stored : row[p] # Absent /\ plan[p] \in PlanInfo
    BY DEF IInv, TypeOK, RowsKnown
  <2> QED
    BY <2>1 DEF PlanInfo
<1>2. Latest \in remembered \cup stored
  <2>1. remembered \in SUBSET Plan /\ stored \in SUBSET Plan
    OBVIOUS
  <2>2. remembered # {} => Newest(remembered) \in remembered
    BY <1>1, <2>1, NewestExists
  <2>3. stored # {} => Newest(stored) \in stored
    BY <1>1, <2>1, NewestExists
  <2> QED
    BY <2>2, <2>3 DEF Latest
<1> QED
  BY <1>1, <1>2

\* What the API sees of a plan that is there is a faithful copy of it.
LEMMA SeenFaithful ==
  ASSUME IInv, NEW p \in Plan, row[p] # Absent
  PROVE  Seen(p) \in PlanRow /\ Faithful(Seen(p), p) /\ Seen(p) # Absent
  BY DEF IInv, TypeOK, CopiesFaithful, Seen

-----------------------------------------------------------------------------
(* What a step writes has its type.                                        *)

\* What may still happen stays a number.
LEMMA CountedTyped ==
  ASSUME left \in [Kind -> Nat], NEW what \in Kind, Counted(what)
  PROVE  left' \in [Kind -> Nat]
  BY DEF Counted

\* A draft that is saved is a draft.
LEMMA SavedDraftTyped ==
  ASSUME NEW copy, NEW saved \in DraftRow, SaveDraft(copy, saved), late \in BOOLEAN
  PROVE  draft' \in DraftRow /\ late' \in BOOLEAN
  BY DEF SaveDraft

\* A plan that is saved is a plan, in the row and in memory.
LEMMA SavedPlanTyped ==
  ASSUME TypeOK, NEW p, NEW r \in PlanRow, Save(p, r)
  PROVE  row' \in [Plan -> PlanRow \cup {Absent}] /\ api' \in [Plan -> PlanRow \cup {Absent}]
  BY DEF TypeOK, Save

\* Changing one process leaves the processes what they are.
LEMMA ProcessTyped ==
  ASSUME TypeOK, NEW x, NEW new \in Process, proc' = [proc EXCEPT ![x] = new]
  PROVE  proc' \in [Executor -> Process]
  BY DEF TypeOK

\* A process that goes on, or is idle again, is a process.
LEMMA ProcessForms ==
  /\ IdleProc \in Process
  /\ \A q \in Process : \A pc \in {"idle", "check", "begin", "expect", "mark", "marking",
       "send", "wait", "stock", "report", "reporting", "finish", "fail", "excuse",
       "excusing", "bury"} : [q EXCEPT !.pc = pc] \in Process
<1>1. IdleProc \in Process
  BY DEF IdleProc, Process, PlanStatus, Result, DraftRow, SubmitStatus
<1>2. \A q \in Process : \A pc \in {"idle", "check", "begin", "expect", "mark", "marking",
       "send", "wait", "stock", "report", "reporting", "finish", "fail", "excuse",
       "excusing", "bury"} : [q EXCEPT !.pc = pc] \in Process
  BY DEF Process
<1> QED
  BY <1>1, <1>2

\* A plan that is saved takes a name that no plan has.
LEMMA SavedPlanIsNew ==
  ASSUME IInv, SavePlan
  PROVE  \E p \in Plan, able \in SUBSET Item :
           /\ plan[p] = Absent
           /\ plan' = [plan EXCEPT ![p] =
                [version |-> creating.version, revision |-> creating.seen.revision,
                 shown |-> creating.shown, able |-> able]]
           /\ Save(p, [status |-> "review", chosen |-> able])
<1> DEFINE free(q) == plan[q] = Absent /\ \A r \in 1..(q - 1) : plan[r] # Absent
           p == CHOOSE q \in Plan : free(q)
<1>1. \E q \in Plan : free(q)
  BY FirstFree DEF IInv, RowsKnown, SavePlan
<1>2. p \in Plan /\ plan[p] = Absent
  BY <1>1
<1> QED
  BY <1>2 DEF SavePlan

\* A selection that is refused leaves a choice of the plan's products in memory.
LEMMA RefusedChoice ==
  ASSUME IInv, NEW p \in Plan, row[p] # Absent, RefuseSelection(p)
  PROVE  \E chosen \in SUBSET Item :
           /\ api' = IF api[p] = Absent THEN api ELSE [api EXCEPT ![p].chosen = chosen]
           /\ approving' = IF Linked(p) THEN [approving EXCEPT !.chosen = chosen]
                           ELSE approving
<1>1. Seen(p).chosen \in SUBSET Item /\ plan[p].able \in SUBSET Item
  BY SeenFaithful DEF IInv, TypeOK, RowsKnown, PlanRow, PlanInfo
<1> QED
  BY <1>1 DEF RefuseSelection

\* The end of a submission: the request answers, the worker goes on.
LEMMA SentTyped ==
  ASSUME TypeOK, NEW x \in Executor, NEW failed \in SUBSET Item,
         NEW result \in [Item -> Result], Sent(x, failed, result)
  PROVE  proc' \in [Executor -> Process]
<1>1. CASE x = "inline"
  BY <1>1, ProcessForms, ProcessTyped DEF Sent
<1>2. CASE x # "inline"
  <2>1. \A q \in Process :
          [q EXCEPT !.pc = "stock", !.failed = failed, !.result = result] \in Process
    BY DEF Process
  <2> QED
    BY <1>2, <2>1 DEF TypeOK, Sent
<1> QED
  BY <1>1, <1>2

\* At the end of a submission the worker goes on with what was approved.
LEMMA SentKeepsApproved ==
  ASSUME TypeOK, ExecutesApproved, NEW x \in Executor, proc[x].pc \in {"send", "wait"},
         NEW failed \in SUBSET proc[x].chosen, NEW result, Sent(x, failed, result),
         approval' = approval
  PROVE  ExecutesApproved'
<1>1. \A y \in Executor \ {x} : proc'[y] = proc[y]
  BY DEF TypeOK, Sent
<1>2. CASE x = "inline"
  <2>1. proc'[x] = IdleProc
    BY <1>2 DEF TypeOK, Sent
  <2> QED
    BY <1>1, <1>2, <2>1 DEF ExecutesApproved, Executing, Executor, IdleProc
<1>3. CASE x # "inline"
  <2>1. /\ proc'[x].pc = "stock" /\ proc'[x].plan = proc[x].plan
        /\ proc'[x].chosen = proc[x].chosen /\ proc'[x].saved = proc[x].saved
        /\ proc'[x].failed = failed /\ proc'[x].done = proc[x].done
    BY <1>3 DEF TypeOK, Sent, Process
  <2> QED
    BY <1>1, <1>3, <2>1 DEF ExecutesApproved, Executing, Executor
<1> QED
  BY <1>2, <1>3

\* The worker that is not idle has a plan.
LEMMA WorkerHasPlan ==
  ASSUME IInv, me.pc # "idle"
  PROVE  /\ me \in Process /\ me.plan \in Plan
         /\ approval[me.plan] \in SUBSET Item /\ row[me.plan] \in PlanRow
  BY DEF IInv, TypeOK, ExecutesApproved, RowsKnown, me, Executor

\* A worker that goes on with another copy of the draft executes the same.
LEMMA WorkerGoesOn ==
  ASSUME IInv, me.pc \notin {"idle", "wait", "stock"},
         NEW pc, pc \notin {"idle", "stock"}, pc \in Executing => me.pc \in Executing,
         NEW seen, proc' = [proc EXCEPT !["queue"] = [me EXCEPT !.pc = pc, !.seen = seen]],
         approval' = approval
  PROVE  ExecutesApproved'
<1>1. /\ proc'["queue"].pc = pc /\ proc'["queue"].plan = me.plan
      /\ proc'["queue"].saved = me.saved /\ proc'["queue"].chosen = me.chosen
      /\ proc'["queue"].failed = me.failed /\ proc'["queue"].done = me.done
  BY DEF IInv, TypeOK, me, Executor, Process
<1>2. proc'["inline"] = proc["inline"]
  BY DEF IInv, TypeOK, Executor
<1> QED
  BY <1>1, <1>2 DEF IInv, ExecutesApproved, Executor, me

\* What the worker reads the draft for.
LEMMA ReadsForms ==
  ASSUME me.pc \in DOMAIN Reads
  PROVE  \/ me.pc = "mark" /\ Reads[me.pc] = "marking"
         \/ me.pc = "report" /\ Reads[me.pc] = "reporting"
         \/ me.pc = "excuse" /\ Reads[me.pc] = "excusing"
<1>1. DOMAIN Reads = {"mark", "report", "excuse"}
  BY DEF Reads
<1>2. Reads["mark"] = "marking" /\ Reads["report"] = "reporting" /\ Reads["excuse"] = "excusing"
  BY DEF Reads
<1> QED
  BY <1>1, <1>2

\* Products of a selection have places of their own.
LEMMA PlacesDiffer ==
  ASSUME NEW s \in SUBSET Item, NEW i \in s, NEW j \in s, UpTo(s, i) = UpTo(s, j)
  PROVE  i = j
<1> DEFINE Under(k) == {l \in s : l <= k}
<1>1. IsFiniteSet(s) /\ \A k \in s : k \in Int
  <2>1. IsFiniteSet(Item)
    BY FS_Interval, CountAssumption DEF Item
  <2>2. IsFiniteSet(s)
    BY <2>1, FS_Subset
  <2> QED
    BY <2>2, CountAssumption DEF Item
<1>2. \A k \in s : IsFiniteSet(Under(k)) /\ UpTo(s, k) = Cardinality(Under(k))
  BY <1>1, FS_Subset DEF UpTo
<1>3. \A k \in s, l \in s : k < l => Under(k) \subseteq Under(l) /\ Under(k) # Under(l)
  <2>1. SUFFICES ASSUME NEW k \in s, NEW l \in s, k < l
                 PROVE  Under(k) \subseteq Under(l) /\ Under(k) # Under(l)
    OBVIOUS
  <2>2. l \in Under(l) /\ l \notin Under(k)
    BY <1>1, <2>1
  <2>3. Under(k) \subseteq Under(l)
    BY <1>1, <2>1
  <2> QED
    BY <2>2, <2>3
<1> HIDE DEF Under
<1>4. \A k \in s : UpTo(s, k) \in Nat
  BY <1>2, FS_CardinalityType
<1>5. \A k \in s, l \in s : k < l => UpTo(s, k) # UpTo(s, l)
  <2>1. SUFFICES ASSUME NEW k \in s, NEW l \in s, k < l
                 PROVE  Cardinality(Under(k)) # Cardinality(Under(l))
    BY <1>2
  <2> QED
    BY <1>2, <1>3, <2>1, FS_Subset
<1> QED
  BY <1>1, <1>4, <1>5

\* Where no image failed, a product is paired with its own result.
LEMMA PairedWithItself ==
  ASSUME me.failed = {}, me.chosen \in SUBSET Item, NEW i \in me.chosen, NEW t \in Partner(i)
  PROVE  t = i
<1>1. PlaceOf(t) = UpTo(me.chosen, i) /\ t \in me.chosen
  BY DEF Partner
<1>2. me.chosen \ me.failed = me.chosen /\ Cardinality(me.failed) = 0
  BY FS_EmptySet
<1>3. UpTo(me.chosen, t) \in Nat
  <2>1. IsFiniteSet(Item)
    BY FS_Interval, CountAssumption DEF Item
  <2>2. IsFiniteSet({j \in me.chosen : j <= t})
    BY <2>1, FS_Subset
  <2> QED
    BY <2>2, FS_CardinalityType DEF UpTo
<1>4. PlaceOf(t) = UpTo(me.chosen, t)
  BY <1>2, <1>3 DEF PlaceOf
<1> QED
  BY <1>1, <1>4, PlacesDiffer

\* The worker's turn with the next product: its quantity is set, or not.
LEMMA NextStocked ==
  ASSUME IInv, StockNext
  PROVE  \E i \in me.chosen, t \in me.chosen, result \in [Item -> Result] :
           /\ me.failed = {} => t = i
           /\ proc' = [proc EXCEPT !["queue"] =
                         [me EXCEPT !.done = me.done \cup {i}, !.result = result]]
           /\ \/ /\ me.result[t] # "success" /\ result = me.result
                 /\ UNCHANGED <<stock, stocked>>
              \/ /\ me.result[t] = "success" /\ result = me.result /\ Unsold(i, t)
                 /\ stock' = [stock EXCEPT ![t] = <<me.plan, i>>]
                 /\ stocked' = stocked \cup {<<me.plan, t, i>>}
              \/ /\ result = [me.result EXCEPT ![t] = "partially_applied"]
                 /\ UNCHANGED <<stock, stocked>>
<1>1. PICK i \in NextInOrder : \E t \in Partner(i) :
       \/ /\ me.result[t] # "success"
          /\ proc' = [proc EXCEPT !["queue"].done = @ \cup {i}]
          /\ UNCHANGED <<stock, stocked>>
       \/ /\ me.result[t] = "success" /\ Unsold(i, t)
          /\ stock' = [stock EXCEPT ![t] = <<me.plan, i>>]
          /\ stocked' = stocked \cup {<<me.plan, t, i>>}
          /\ proc' = [proc EXCEPT !["queue"].done = @ \cup {i}]
       \/ /\ proc' = [proc EXCEPT !["queue"].done = @ \cup {i},
                                  !["queue"].result[t] = "partially_applied"]
          /\ UNCHANGED <<stock, stocked>>
  BY DEF StockNext
<1>2. PICK t \in Partner(i) :
       \/ /\ me.result[t] # "success"
          /\ proc' = [proc EXCEPT !["queue"].done = @ \cup {i}]
          /\ UNCHANGED <<stock, stocked>>
       \/ /\ me.result[t] = "success" /\ Unsold(i, t)
          /\ stock' = [stock EXCEPT ![t] = <<me.plan, i>>]
          /\ stocked' = stocked \cup {<<me.plan, t, i>>}
          /\ proc' = [proc EXCEPT !["queue"].done = @ \cup {i}]
       \/ /\ proc' = [proc EXCEPT !["queue"].done = @ \cup {i},
                                  !["queue"].result[t] = "partially_applied"]
          /\ UNCHANGED <<stock, stocked>>
  BY <1>1
<1>3. me \in Process /\ me = proc["queue"] /\ "queue" \in Executor /\ proc \in [Executor -> Process]
  BY DEF IInv, TypeOK, me, Executor
<1>4. i \in me.chosen /\ t \in me.chosen /\ me.chosen \in SUBSET Item
  BY <1>3 DEF NextInOrder, Partner, Process
<1>5. me.failed = {} => t = i
  BY <1>4, PairedWithItself
<1>6. /\ me.result \in [Item -> Result]
      /\ [me.result EXCEPT ![t] = "partially_applied"] \in [Item -> Result]
  BY <1>3, <1>4 DEF Process, Result
<1>7. ASSUME proc' = [proc EXCEPT !["queue"].done = @ \cup {i}]
      PROVE  proc' = [proc EXCEPT !["queue"] =
                         [me EXCEPT !.done = me.done \cup {i}, !.result = me.result]]
  BY <1>3, <1>7 DEF Process
<1>8. ASSUME proc' = [proc EXCEPT !["queue"].done = @ \cup {i},
                                  !["queue"].result[t] = "partially_applied"]
      PROVE  proc' = [proc EXCEPT !["queue"] =
                         [me EXCEPT !.done = me.done \cup {i},
                                    !.result = [me.result EXCEPT ![t] = "partially_applied"]]]
  BY <1>3, <1>8 DEF Process
<1>9. CASE /\ me.result[t] # "success"
           /\ proc' = [proc EXCEPT !["queue"].done = @ \cup {i}]
           /\ UNCHANGED <<stock, stocked>>
  BY <1>4, <1>5, <1>6, <1>7, <1>9
<1>10. CASE /\ me.result[t] = "success" /\ Unsold(i, t)
           /\ stock' = [stock EXCEPT ![t] = <<me.plan, i>>]
           /\ stocked' = stocked \cup {<<me.plan, t, i>>}
           /\ proc' = [proc EXCEPT !["queue"].done = @ \cup {i}]
  BY <1>4, <1>5, <1>6, <1>7, <1>10
<1>11. CASE /\ proc' = [proc EXCEPT !["queue"].done = @ \cup {i},
                                    !["queue"].result[t] = "partially_applied"]
            /\ UNCHANGED <<stock, stocked>>
  BY <1>4, <1>5, <1>6, <1>8, <1>11
<1> QED
  BY <1>2, <1>9, <1>10, <1>11

\* A completed outcome: every product that was approved is written and has its stock.
LEMMA CompletedEarned ==
  ASSUME IInv, SaveOutcome, Lifecycle = "completed"
  PROVE  /\ me.chosen = approval[me.plan] /\ approval[me.plan] # Absent
         /\ \A i \in approval[me.plan] :
              <<me.plan, i>> \in written /\ <<me.plan, i, i>> \in stocked
<1>1. me.pc = "stock" /\ me.done = me.chosen /\ With("success") = me.chosen
  BY DEF SaveOutcome, At, me, Lifecycle
<1>2. \A i \in me.chosen : me.result[i] = "success"
  BY <1>1 DEF With
<1>3. me.chosen = approval[me.plan] /\ approval[me.plan] # Absent /\ me.chosen \in SUBSET Item
  BY <1>1, WorkerHasPlan DEF IInv, ExecutesApproved, Executing, me, Executor, Process
<1>4. me.failed = {}
  BY <1>1, <1>2, <1>3 DEF IInv, ResultsEarned, ExecutesApproved, me, Executor
<1> QED
  BY <1>1, <1>2, <1>3, <1>4 DEF IInv, ResultsEarned, me

\* The plan as the worker remembers it holds what was approved of it.
LEMMA RememberedFaithful ==
  ASSUME IInv, MarkPlanFailed
  PROVE  /\ me.plan \in Plan /\ Remembered \in PlanRow
         /\ Remembered.status # "review" /\ Remembered.chosen = approval[me.plan]
         /\ approval[me.plan] # Absent /\ row[me.plan] # Absent
<1>1. /\ me.pc = "fail" /\ me \in Process /\ me.plan \in Plan
      /\ row[me.plan] \in PlanRow /\ approval[me.plan] # Absent /\ row[me.plan] # Absent
  BY WorkerHasPlan, PresentRecords DEF MarkPlanFailed, At, me
<1>2. row[me.plan].status # "review" /\ row[me.plan].chosen = approval[me.plan]
  BY <1>1 DEF IInv, CopiesFaithful, Faithful
<1>3. me.saved # "review" => me.chosen = approval[me.plan]
  BY <1>1 DEF IInv, ExecutesApproved, me, Executor
<1>4. [status |-> me.saved, chosen |-> me.chosen] \in PlanRow
  BY <1>1 DEF Process, PlanRow
<1> QED
  BY <1>1, <1>2, <1>3, <1>4 DEF Remembered

-----------------------------------------------------------------------------
(* Each step keeps the invariant: the API process.                         *)

\* An edit makes at most an approved plan stale.
LEMMA UpdateDraftKeeps ==
  ASSUME IInv, UpdateDraft
  PROVE  IInv'
<1>1. TypeOK'
  <2>1. draft' \in DraftRow
    BY DEF IInv, TypeOK, UpdateDraft, DraftRow, SubmitStatus
  <2>2. /\ row' \in [Plan -> PlanRow \cup {Absent}]
        /\ api' \in [Plan -> PlanRow \cup {Absent}]
    <3>1. CASE Latest # NoPlan /\ Seen(Latest).status = "approved"
      <4>1. [Seen(Latest) EXCEPT !.status = "stale"] \in PlanRow
        BY <3>1, LatestKnown, SeenFaithful DEF PlanRow, PlanStatus
      <4> QED
        BY <3>1, <4>1, SavedPlanTyped DEF IInv, UpdateDraft
    <3>2. CASE ~(Latest # NoPlan /\ Seen(Latest).status = "approved")
      BY <3>2 DEF IInv, TypeOK, UpdateDraft
    <3> QED
      BY <3>1, <3>2
  <2>3. left' \in [Kind -> Nat]
    BY CountedTyped DEF IInv, TypeOK, UpdateDraft, Kind
  <2> QED
    BY <2>1, <2>2, <2>3 DEF IInv, TypeOK, UpdateDraft, requests, shopify
<1>2. JobsApproved' /\ ExecutesApproved' /\ SentApproved' /\ ResultsEarned'
  BY DEF IInv, JobsApproved, ExecutesApproved, SentApproved, ResultsEarned,
      UpdateDraft, Counted, Save, requests, shopify
<1>3. RowsKnown'
  BY LatestKnown, SeenFaithful, PresentRecords
  DEF IInv, RowsKnown, TypeOK, UpdateDraft, Save, PlanRow, PlanStatus, requests
<1>4. CopiesFaithful'
  BY LatestKnown, SeenFaithful, PresentRecords
  DEF IInv, CopiesFaithful, Faithful, TypeOK, UpdateDraft, Save, PlanRow, PlanStatus
<1>5. ApprovesReviewed'
  BY LatestKnown, SeenFaithful, PresentRecords
  DEF IInv, ApprovesReviewed, TypeOK, UpdateDraft, Save, PlanRow, PlanStatus, Pending,
      requests
<1> QED
  BY <1>1, <1>2, <1>3, <1>4, <1>5 DEF IInv

\* A plan is started while one may still be named.
LEMMA StartPlanKeeps ==
  ASSUME IInv, StartPlan
  PROVE  IInv'
<1>1. TypeOK'
  <2>1. Latest = NoPlan \/ plan[Latest] \in PlanInfo
    BY LatestKnown DEF IInv, TypeOK, RowsKnown
  <2>2. creating' \in Creation
    BY <2>1 DEF IInv, TypeOK, StartPlan, Creation, PlanInfo
  <2> QED
    BY <2>1, <2>2 DEF IInv, TypeOK, StartPlan, requests, shopify
<1>2. /\ CopiesFaithful' /\ ApprovesReviewed' /\ JobsApproved' /\ ExecutesApproved'
      /\ SentApproved' /\ ResultsEarned'
  BY DEF IInv, CopiesFaithful, ApprovesReviewed, JobsApproved, ExecutesApproved,
      SentApproved, ResultsEarned, StartPlan, requests, shopify, Faithful
<1>3. RowsKnown'
  BY DEF IInv, RowsKnown, StartPlan
<1> QED
  BY <1>1, <1>2, <1>3 DEF IInv

\* Planning may save the draft it read, corrected.
LEMMA ResolvePlanKeeps ==
  ASSUME IInv, ResolvePlan
  PROVE  IInv'
<1>1. TypeOK'
  <2>1. creating \in Creation
    BY DEF IInv, TypeOK, ResolvePlan
  <2>2. PICK saved \in {creating.seen, Corrected(creating.seen)} :
         /\ IF saved = creating.seen THEN UNCHANGED left ELSE Counted("edits")
         /\ SaveDraft(creating.seen, saved)
         /\ creating' = [creating EXCEPT !.step = "save", !.seen = saved, !.shown = stock]
    BY DEF ResolvePlan
  <2>3. saved \in DraftRow
    BY <2>1 DEF Creation, DraftRow, Corrected
  <2>4. draft' \in DraftRow /\ late' \in BOOLEAN
    BY <2>2, <2>3, SavedDraftTyped DEF IInv, TypeOK
  <2>5. creating' \in Creation
    BY <2>1, <2>2, <2>3 DEF IInv, TypeOK, Creation
  <2>6. left' \in [Kind -> Nat]
    BY <2>2, CountedTyped DEF IInv, TypeOK, Kind
  <2> QED
    BY <2>1, <2>2, <2>3, <2>4, <2>5, <2>6 DEF IInv, TypeOK, ResolvePlan, requests,
        shopify
<1>2. /\ CopiesFaithful' /\ ApprovesReviewed' /\ JobsApproved' /\ ExecutesApproved'
      /\ SentApproved' /\ ResultsEarned'
  BY DEF IInv, CopiesFaithful, ApprovesReviewed, JobsApproved, ExecutesApproved,
      SentApproved, ResultsEarned, ResolvePlan, requests, shopify, Faithful
<1>3. RowsKnown'
  BY DEF IInv, RowsKnown, ResolvePlan
<1> QED
  BY <1>1, <1>2, <1>3 DEF IInv

\* A plan that is saved is a new one, under review.
LEMMA SavePlanKeeps ==
  ASSUME IInv, SavePlan
  PROVE  IInv'
<1>1. TypeOK'
  <2>1. creating \in Creation
    BY DEF IInv, TypeOK, SavePlan
  <2>2. PICK p \in Plan, able \in SUBSET Item :
         /\ plan[p] = Absent
         /\ plan' = [plan EXCEPT ![p] =
              [version |-> creating.version, revision |-> creating.seen.revision,
               shown |-> creating.shown, able |-> able]]
         /\ Save(p, [status |-> "review", chosen |-> able])
    BY SavedPlanIsNew
  <2>3. plan' \in [Plan -> PlanInfo \cup {Absent}]
    BY <2>1, <2>2 DEF IInv, TypeOK, Creation, DraftRow, PlanInfo
  <2>4. [status |-> "review", chosen |-> able] \in PlanRow
    BY DEF PlanRow, PlanStatus
  <2>5. /\ row' \in [Plan -> PlanRow \cup {Absent}]
        /\ api' \in [Plan -> PlanRow \cup {Absent}]
    BY <2>2, <2>4, SavedPlanTyped DEF IInv
  <2>6. draft' \in DraftRow /\ late' \in BOOLEAN
    BY <2>1, SavedDraftTyped DEF IInv, TypeOK, SavePlan, Creation
  <2>7. left' \in [Kind -> Nat]
    BY CountedTyped DEF IInv, TypeOK, SavePlan, Kind
  <2> QED
    BY <2>1, <2>2, <2>3, <2>4, <2>5, <2>6, <2>7 DEF IInv, TypeOK, SavePlan,
        requests, shopify
<1>2. JobsApproved' /\ ExecutesApproved' /\ SentApproved' /\ ResultsEarned'
  BY DEF IInv, JobsApproved, ExecutesApproved, SentApproved, ResultsEarned,
      SavePlan, Save, requests, shopify
<1>3. RowsKnown'
  BY SavedPlanIsNew, PresentRecords
  DEF IInv, RowsKnown, TypeOK, SavePlan, Save, PlanRow, PlanStatus, PlanInfo,
      Creation, DraftRow
<1>4. CopiesFaithful'
  <2>1. PICK p \in Plan, able \in SUBSET Item :
         plan[p] = Absent /\ Save(p, [status |-> "review", chosen |-> able])
    BY SavedPlanIsNew
  <2>2. approval[p] = Absent
    BY <2>1 DEF IInv, RowsKnown
  <2>3. \A q \in Plan \ {p} : row'[q] = row[q] /\ api'[q] = api[q]
    BY <2>1 DEF IInv, TypeOK, Save
  <2>4. approval' = approval
    BY DEF SavePlan
  <2>5. Faithful(row[p], p)' /\ Faithful(api[p], p)'
    BY <2>1, <2>2, <2>4 DEF IInv, TypeOK, Save, Faithful
  <2> QED
    BY <2>1, <2>2, <2>3, <2>4, <2>5 DEF IInv, TypeOK, CopiesFaithful, Faithful,
        requests, shopify
<1>5. ApprovesReviewed'
  BY SavedPlanIsNew, PresentRecords
  DEF IInv, ApprovesReviewed, RowsKnown, TypeOK, SavePlan, Save, PlanRow, PlanStatus, Pending
<1> QED
  BY <1>1, <1>2, <1>3, <1>4, <1>5 DEF IInv

\* A plan that fails leaves nothing.
LEMMA PlanFailsKeeps ==
  ASSUME IInv, PlanFails
  PROVE  IInv'
<1>1. TypeOK'
  BY DEF IInv, TypeOK, PlanFails, requests, shopify, Creation
<1>2. /\ CopiesFaithful' /\ ApprovesReviewed' /\ JobsApproved' /\ ExecutesApproved'
      /\ SentApproved' /\ ResultsEarned'
  BY DEF IInv, CopiesFaithful, ApprovesReviewed, JobsApproved, ExecutesApproved,
      SentApproved, ResultsEarned, PlanFails, requests, shopify, Faithful
<1>3. RowsKnown'
  BY DEF IInv, RowsKnown, TypeOK, PlanFails, requests, shopify
<1> QED
  BY <1>1, <1>2, <1>3 DEF IInv

\* Only a plan under review is selected from.
LEMMA PatchSelectionKeeps ==
  ASSUME IInv, NEW p \in Plan, PatchSelection(p)
  PROVE  IInv'
<1>1. TypeOK'
  <2>1. row[p] # Absent
    BY DEF IInv, RowsKnown, PatchSelection, Editable
  <2>2. PICK chosen \in SUBSET plan[p].able :
         /\ Save(p, [Seen(p) EXCEPT !.chosen = chosen])
         /\ approving' = IF Linked(p)
                         THEN [approving EXCEPT !.chosen = chosen, !.linked = FALSE]
                         ELSE approving
    BY DEF PatchSelection
  <2>3. chosen \in SUBSET Item
    BY <2>1 DEF IInv, TypeOK, RowsKnown, PlanInfo
  <2>4. [Seen(p) EXCEPT !.chosen = chosen] \in PlanRow
    BY <2>1, <2>3, SeenFaithful DEF PlanRow
  <2>5. /\ row' \in [Plan -> PlanRow \cup {Absent}]
        /\ api' \in [Plan -> PlanRow \cup {Absent}]
    BY <2>2, <2>4, SavedPlanTyped DEF IInv
  <2>6. approving' \in Pending \cup {Absent}
    BY <2>2, <2>3 DEF IInv, TypeOK, Linked, Pending
  <2>7. left' \in [Kind -> Nat]
    BY CountedTyped DEF IInv, TypeOK, PatchSelection, Kind
  <2> QED
    BY <2>1, <2>2, <2>3, <2>4, <2>5, <2>6, <2>7 DEF IInv, TypeOK, PatchSelection,
        requests, shopify
<1>2. JobsApproved' /\ ExecutesApproved' /\ SentApproved' /\ ResultsEarned'
  BY DEF IInv, JobsApproved, ExecutesApproved, SentApproved, ResultsEarned,
      PatchSelection, Counted, Save, requests, shopify
<1>3. RowsKnown'
  BY SeenFaithful, PresentRecords
  DEF IInv, RowsKnown, TypeOK, PatchSelection, Editable, Save, PlanRow, PlanInfo
<1>4. CopiesFaithful'
  <2>1. row[p] # Absent /\ Seen(p).status = "review"
    BY DEF IInv, RowsKnown, PatchSelection, Editable
  <2>2. approval[p] = Absent
    BY <2>1, SeenFaithful DEF Faithful
  <2>3. PICK chosen \in SUBSET plan[p].able : Save(p, [Seen(p) EXCEPT !.chosen = chosen])
    BY DEF PatchSelection
  <2>4. [Seen(p) EXCEPT !.chosen = chosen].status = "review"
    BY <2>1, SeenFaithful DEF PlanRow
  <2>5. \A q \in Plan \ {p} : row'[q] = row[q] /\ api'[q] = api[q]
    BY <2>3 DEF IInv, TypeOK, Save
  <2>6. Faithful(row[p], p)' /\ Faithful(api[p], p)'
    BY <2>2, <2>3, <2>4 DEF IInv, TypeOK, Save, PatchSelection, Faithful
  <2>7. approval' = approval
    BY DEF PatchSelection
  <2> QED
    BY <2>1, <2>2, <2>3, <2>4, <2>5, <2>6, <2>7 DEF IInv, TypeOK, CopiesFaithful,
        Faithful, requests, shopify
<1>5. ApprovesReviewed'
  BY SeenFaithful, PresentRecords
  DEF IInv, ApprovesReviewed, RowsKnown, TypeOK, PatchSelection, Editable, Save, Linked,
      PlanRow, PlanInfo, Pending
<1> QED
  BY <1>1, <1>2, <1>3, <1>4, <1>5 DEF IInv

\* A selection that is refused may stay in memory, under review.
LEMMA RefuseSelectionKeeps ==
  ASSUME IInv, NEW p \in Plan, RefuseSelection(p)
  PROVE  IInv'
<1>1. TypeOK'
  <2>1. row[p] # Absent
    BY DEF IInv, RowsKnown, RefuseSelection, Editable
  <2>2. PICK chosen \in SUBSET Item :
         /\ api' = IF api[p] = Absent THEN api ELSE [api EXCEPT ![p].chosen = chosen]
         /\ approving' = IF Linked(p) THEN [approving EXCEPT !.chosen = chosen]
                         ELSE approving
    BY <2>1, RefusedChoice DEF IInv
  <2>3. api' \in [Plan -> PlanRow \cup {Absent}]
    BY <2>2 DEF IInv, TypeOK, PlanRow
  <2>4. approving' \in Pending \cup {Absent}
    BY <2>2 DEF IInv, TypeOK, Linked, Pending
  <2>5. left' \in [Kind -> Nat]
    BY CountedTyped DEF IInv, TypeOK, RefuseSelection, Kind
  <2> QED
    BY <2>1, <2>2, <2>3, <2>4, <2>5 DEF IInv, TypeOK, RefuseSelection, requests,
        shopify
<1>2. JobsApproved' /\ ExecutesApproved' /\ SentApproved' /\ ResultsEarned'
  BY DEF IInv, JobsApproved, ExecutesApproved, SentApproved, ResultsEarned,
      RefuseSelection, Counted, requests, shopify
<1>3. RowsKnown'
  BY DEF IInv, RowsKnown, TypeOK, RefuseSelection, Editable, Seen
<1>4. CopiesFaithful'
  <2>1. row[p] # Absent /\ Seen(p).status = "review"
    BY DEF IInv, RowsKnown, RefuseSelection, Editable
  <2>2. approval[p] = Absent
    BY <2>1, SeenFaithful DEF Faithful
  <2>3. PICK chosen \in SUBSET Item :
         api' = IF api[p] = Absent THEN api ELSE [api EXCEPT ![p].chosen = chosen]
    BY <2>1, RefusedChoice DEF IInv
  <2>4. approval' = approval /\ row' = row
    BY DEF RefuseSelection
  <2>5. \A q \in Plan \ {p} : api'[q] = api[q]
    BY <2>3 DEF IInv, TypeOK
  <2>6. Faithful(api[p], p)'
    BY <2>1, <2>2, <2>3, <2>4 DEF IInv, TypeOK, CopiesFaithful, Faithful, PlanRow, Seen
  <2> QED
    BY <2>1, <2>2, <2>3, <2>4, <2>5, <2>6 DEF IInv, TypeOK, CopiesFaithful,
        Faithful, requests, shopify
<1>5. ApprovesReviewed'
  <2>1. row[p] # Absent
    BY DEF IInv, RowsKnown, RefuseSelection, Editable
  <2>2. PICK chosen \in SUBSET Item :
         approving' = IF Linked(p) THEN [approving EXCEPT !.chosen = chosen] ELSE approving
    BY <2>1, RefusedChoice DEF IInv
  <2>3. approving # Absent => approving \in Pending
    BY DEF IInv, TypeOK
  <2>4. approval' = approval /\ row' = row
    BY DEF RefuseSelection
  <2> QED
    BY <2>1, <2>2, <2>3, <2>4 DEF IInv, TypeOK, ApprovesReviewed, Linked, Pending,
        requests, shopify
<1> QED
  BY <1>1, <1>2, <1>3, <1>4, <1>5 DEF IInv

\* Only the latest plan is approved, under review.
LEMMA StartApprovalKeeps ==
  ASSUME IInv, NEW p \in Plan, StartApproval(p)
  PROVE  IInv'
<1>1. TypeOK'
  <2>1. row[p] # Absent
    BY LatestKnown, CountAssumption DEF IInv, StartApproval, Plan, NoPlan
  <2>2. approving' \in Pending
    BY <2>1, SeenFaithful DEF StartApproval, Pending, PlanRow
  <2> QED
    BY <2>1, <2>2 DEF IInv, TypeOK, StartApproval, requests, shopify
<1>2. /\ RowsKnown' /\ CopiesFaithful' /\ JobsApproved' /\ ExecutesApproved'
      /\ SentApproved' /\ ResultsEarned'
  BY DEF IInv, RowsKnown, CopiesFaithful, JobsApproved, ExecutesApproved,
      SentApproved, ResultsEarned, StartApproval, requests, shopify, Faithful
<1>3. ApprovesReviewed'
  <2>1. row[p] # Absent
    BY LatestKnown, CountAssumption DEF IInv, StartApproval, Plan, NoPlan
  <2>2. approval[p] = Absent
    BY <2>1, SeenFaithful DEF StartApproval, Faithful
  <2> QED
    BY <2>1, <2>2 DEF IInv, TypeOK, ApprovesReviewed, StartApproval, requests,
        shopify
<1> QED
  BY <1>1, <1>2, <1>3 DEF IInv

\* What the approval holds becomes what was approved of its plan.
LEMMA FinishApprovalKeeps ==
  ASSUME IInv, FinishApproval
  PROVE  IInv'
<1>1. TypeOK'
  <2>1. approving \in Pending
    BY DEF IInv, TypeOK, FinishApproval
  <2>2. [status |-> "approved", chosen |-> approving.chosen] \in PlanRow
    BY <2>1 DEF Pending, PlanRow, PlanStatus
  <2>3. /\ row' \in [Plan -> PlanRow \cup {Absent}]
        /\ api' \in [Plan -> PlanRow \cup {Absent}]
    BY <2>2, SavedPlanTyped DEF IInv, FinishApproval
  <2>4. approval' \in [Plan -> (SUBSET Item) \cup {Absent}]
    BY <2>1 DEF IInv, TypeOK, FinishApproval, Pending
  <2> QED
    BY <2>1, <2>2, <2>3, <2>4 DEF IInv, TypeOK, FinishApproval, requests, shopify
<1>2. ResultsEarned'
  BY DEF IInv, ResultsEarned, FinishApproval, requests, shopify
<1>3. RowsKnown'
  <2>1. approving.plan \in Plan /\ row[approving.plan] # Absent
    BY DEF IInv, TypeOK, ApprovesReviewed, FinishApproval, Pending
  <2>2. [status |-> "approved", chosen |-> approving.chosen] # Absent
    BY PresentRecords DEF IInv, TypeOK, FinishApproval, Pending, PlanRow, PlanStatus
  <2>3. \A q \in Plan \ {approving.plan} :
         row'[q] = row[q] /\ api'[q] = api[q] /\ approval'[q] = approval[q]
    BY DEF IInv, TypeOK, FinishApproval, Save
  <2>4. row'[approving.plan] # Absent /\ plan' = plan /\ creating' = creating
    BY <2>1, <2>2 DEF IInv, TypeOK, FinishApproval, Save
  <2> QED
    BY <2>1, <2>2, <2>3, <2>4 DEF IInv, TypeOK, RowsKnown, requests, shopify
<1>4. CopiesFaithful'
  <2>1. approving \in Pending /\ approving.plan \in Plan
    BY DEF IInv, TypeOK, FinishApproval, Pending
  <2>2. \A q \in Plan \ {approving.plan} :
         row'[q] = row[q] /\ api'[q] = api[q] /\ approval'[q] = approval[q]
    BY DEF IInv, TypeOK, FinishApproval, Save
  <2>3. LET p == approving.plan IN
         /\ approval'[p] = approving.chosen /\ approval'[p] # Absent
         /\ row'[p] = [status |-> "approved", chosen |-> approving.chosen]
         /\ api'[p] = [status |-> "approved", chosen |-> approving.chosen]
    BY <2>1, PresentRecords DEF IInv, TypeOK, FinishApproval, Save, Pending
  <2> QED
    BY <2>1, <2>2, <2>3 DEF IInv, TypeOK, CopiesFaithful, Faithful, requests,
        shopify
<1>5. ApprovesReviewed'
  BY DEF IInv, ApprovesReviewed, TypeOK, FinishApproval, requests, shopify
<1>6. JobsApproved'
  BY PresentRecords
  DEF IInv, JobsApproved, TypeOK, FinishApproval, Pending
<1>7. ExecutesApproved'
  <2>1. approval[approving.plan] = Absent
    BY DEF IInv, ApprovesReviewed, FinishApproval
  <2>2. proc' = proc /\ \A q \in Plan : approval[q] # Absent => approval'[q] = approval[q]
    BY <2>1 DEF IInv, TypeOK, FinishApproval
  <2> QED
    BY <2>1, <2>2 DEF IInv, TypeOK, ExecutesApproved, Executing, requests, shopify
<1>8. SentApproved'
  <2>1. approval[approving.plan] = Absent
    BY DEF IInv, ApprovesReviewed, FinishApproval
  <2>2. \A q \in Plan : approval[q] # Absent => approval'[q] = approval[q]
    BY <2>1 DEF IInv, TypeOK, FinishApproval
  <2>3. UNCHANGED <<pending, accepted, written>>
    BY DEF FinishApproval, shopify
  <2> QED
    BY <2>1, <2>2, <2>3 DEF IInv, TypeOK, SentApproved, requests, shopify
<1> QED
  BY <1>1, <1>2, <1>3, <1>4, <1>5, <1>6, <1>7, <1>8 DEF IInv

\* An approval that fails leaves nothing.
LEMMA ApprovalFailsKeeps ==
  ASSUME IInv, ApprovalFails
  PROVE  IInv'
<1>1. TypeOK'
  BY DEF IInv, TypeOK, ApprovalFails, requests, shopify, Pending
<1>2. /\ RowsKnown' /\ CopiesFaithful' /\ JobsApproved' /\ ExecutesApproved'
      /\ SentApproved' /\ ResultsEarned'
  BY DEF IInv, RowsKnown, CopiesFaithful, JobsApproved, ExecutesApproved,
      SentApproved, ResultsEarned, ApprovalFails, requests, shopify, Faithful
<1>3. ApprovesReviewed'
  BY DEF IInv, ApprovesReviewed, TypeOK, ApprovalFails, requests, shopify
<1> QED
  BY <1>1, <1>2, <1>3 DEF IInv

\* What is submitted was approved.
LEMMA EnqueueSubmitKeeps ==
  ASSUME IInv, NEW p \in Plan, EnqueueSubmit(p)
  PROVE  IInv'
<1>1. TypeOK'
  BY DEF IInv, TypeOK, EnqueueSubmit, requests, shopify
<1>2. /\ RowsKnown' /\ CopiesFaithful' /\ ApprovesReviewed' /\ ExecutesApproved'
      /\ SentApproved' /\ ResultsEarned'
  BY DEF IInv, RowsKnown, CopiesFaithful, ApprovesReviewed, ExecutesApproved,
      SentApproved, ResultsEarned, EnqueueSubmit, requests, shopify, Faithful
<1>3. JobsApproved'
  <2>1. row[p] # Absent /\ Seen(p).status = "approved"
    BY DEF IInv, RowsKnown, EnqueueSubmit, Submittable
  <2>2. approval[p] # Absent
    BY <2>1, SeenFaithful DEF Faithful
  <2> QED
    BY <2>1, <2>2 DEF IInv, TypeOK, JobsApproved, EnqueueSubmit, requests, shopify
<1> QED
  BY <1>1, <1>2, <1>3 DEF IInv

\* The draft is told that its submit is queued.
LEMMA TrackSubmitKeeps ==
  ASSUME IInv, TrackSubmit
  PROVE  IInv'
<1>1. TypeOK'
  BY DEF IInv, TypeOK, TrackSubmit, DraftRow, SubmitStatus, requests, shopify
<1>2. /\ RowsKnown' /\ CopiesFaithful' /\ ApprovesReviewed' /\ JobsApproved'
      /\ ExecutesApproved' /\ SentApproved' /\ ResultsEarned'
  BY DEF IInv, RowsKnown, CopiesFaithful, ApprovesReviewed, JobsApproved,
      ExecutesApproved, SentApproved, ResultsEarned, TrackSubmit, requests, shopify,
      Faithful
<1> QED
  BY <1>1, <1>2 DEF IInv

\* What is submitted without the queue was approved.
LEMMA SubmitInlineKeeps ==
  ASSUME IInv, NEW p \in Plan, SubmitInline(p)
  PROVE  IInv'
<1>1. TypeOK'
  <2>1. row[p] # Absent
    BY DEF IInv, RowsKnown, SubmitInline, Submittable
  <2>2. Seen(p).chosen \in SUBSET Item
    BY <2>1, SeenFaithful DEF PlanRow
  <2>3. [IdleProc EXCEPT !.pc = "send", !.plan = p, !.chosen = Seen(p).chosen] \in Process
    <3>1. \A q \in Process :
            [q EXCEPT !.pc = "send", !.plan = p, !.chosen = Seen(p).chosen] \in Process
      BY <2>2 DEF Process
    <3> QED
      BY <3>1, ProcessForms
  <2>4. proc' \in [Executor -> Process]
    BY <2>3, ProcessTyped DEF IInv, SubmitInline
  <2>5. left' \in [Kind -> Nat]
    BY CountedTyped DEF IInv, TypeOK, SubmitInline, Kind
  <2> QED
    BY <2>1, <2>2, <2>3, <2>4, <2>5 DEF IInv, TypeOK, SubmitInline, requests,
        shopify
<1>2. /\ RowsKnown' /\ CopiesFaithful' /\ ApprovesReviewed' /\ JobsApproved'
      /\ SentApproved'
  BY DEF IInv, RowsKnown, CopiesFaithful, ApprovesReviewed, JobsApproved,
      SentApproved, SubmitInline, Counted, requests, shopify, Faithful
<1>3. ExecutesApproved'
  <2>1. row[p] # Absent /\ Seen(p).status = "approved"
    BY DEF IInv, RowsKnown, SubmitInline, Submittable
  <2>2. approval[p] # Absent /\ Seen(p).chosen = approval[p]
    BY <2>1, SeenFaithful DEF Faithful
  <2>3. /\ proc'["inline"].pc = "send" /\ proc'["inline"].plan = p
        /\ proc'["inline"].chosen = Seen(p).chosen
        /\ proc'["inline"].failed = {} /\ proc'["inline"].done = {}
    BY DEF IInv, TypeOK, SubmitInline, Executor, IdleProc
  <2>4. proc'["queue"] = proc["queue"] /\ approval' = approval
    BY DEF IInv, TypeOK, SubmitInline, Executor
  <2> QED
    BY <2>1, <2>2, <2>3, <2>4 DEF IInv, TypeOK, ExecutesApproved, Executor,
        requests, shopify
<1>4. ResultsEarned'
  BY DEF IInv, ResultsEarned, TypeOK, SubmitInline, Counted, requests, shopify,
      IdleProc
<1> QED
  BY <1>1, <1>2, <1>3, <1>4 DEF IInv

\* A restart of the API forgets, and changes no row.
LEMMA RestartApiKeeps ==
  ASSUME IInv, RestartApi
  PROVE  IInv'
<1>1. TypeOK'
  <2>1. proc' \in [Executor -> Process]
    BY ProcessForms, ProcessTyped DEF IInv, RestartApi
  <2>2. left' \in [Kind -> Nat]
    BY CountedTyped DEF IInv, TypeOK, RestartApi, Kind
  <2> QED
    BY <2>1, <2>2 DEF IInv, TypeOK, RestartApi, NoPlan, requests, shopify
<1>2. JobsApproved' /\ SentApproved'
  BY DEF IInv, JobsApproved, SentApproved, RestartApi, Counted, requests, shopify
<1>3. RowsKnown'
  BY DEF IInv, RowsKnown, TypeOK, RestartApi, Counted, requests, shopify
<1>4. CopiesFaithful'
  BY DEF IInv, CopiesFaithful, TypeOK, RestartApi, Counted, requests, shopify,
      Faithful
<1>5. ApprovesReviewed'
  BY DEF IInv, ApprovesReviewed, TypeOK, RestartApi, Counted, requests, shopify
<1>6. ExecutesApproved'
  BY DEF IInv, ExecutesApproved, TypeOK, RestartApi, Executor, IdleProc, Executing
<1>7. ResultsEarned'
  BY DEF IInv, ResultsEarned, TypeOK, RestartApi, Counted, requests, shopify,
      IdleProc
<1> QED
  BY <1>1, <1>2, <1>3, <1>4, <1>5, <1>6, <1>7 DEF IInv

-----------------------------------------------------------------------------
(* What submits a plan, Shopify and the shop.                              *)

\* Only approved products are sent.
LEMMA StartBulkKeeps ==
  ASSUME IInv, NEW x \in Executor, StartBulk(x)
  PROVE  IInv'
<1>1. TypeOK'
  <2>1. proc[x] \in Process /\ proc[x].plan \in Plan
    BY DEF IInv, TypeOK, ExecutesApproved, StartBulk, At
  <2>2. PICK failed \in SUBSET proc[x].chosen :
         LET sent == {x} \X {proc[x].plan} \X (proc[x].chosen \ failed) IN
         /\ pending' = pending \cup sent
         /\ accepted' = accepted \ sent
         /\ proc' = [proc EXCEPT ![x].pc = "wait", ![x].failed = failed]
    BY DEF StartBulk, Unprepared
  <2>3. proc' \in [Executor -> Process]
    BY <2>1, <2>2 DEF IInv, TypeOK, Process
  <2>4. pending' \subseteq Executor \X Plan \X Item /\ accepted' \subseteq Executor \X Plan \X Item
    BY <2>1, <2>2 DEF IInv, TypeOK, Process
  <2> QED
    BY <2>1, <2>2, <2>3, <2>4 DEF IInv, TypeOK, StartBulk, requests, shopify
<1>2. RowsKnown' /\ CopiesFaithful' /\ ApprovesReviewed' /\ JobsApproved'
  BY DEF IInv, RowsKnown, CopiesFaithful, ApprovesReviewed, JobsApproved, StartBulk,
      requests, shopify, Faithful
<1>3. ExecutesApproved'
  <2>1. PICK failed \in SUBSET proc[x].chosen :
         proc' = [proc EXCEPT ![x].pc = "wait", ![x].failed = failed]
    BY DEF StartBulk, Unprepared
  <2>2. proc[x].pc = "send" /\ approval' = approval
    BY DEF StartBulk, At
  <2>3. /\ proc'[x].pc = "wait" /\ proc'[x].failed = failed
        /\ proc'[x].plan = proc[x].plan /\ proc'[x].chosen = proc[x].chosen
        /\ proc'[x].done = proc[x].done
    BY <2>1 DEF IInv, TypeOK, Process
  <2>4. \A y \in Executor \ {x} : proc'[y] = proc[y]
    BY <2>1 DEF IInv, TypeOK
  <2> QED
    BY <2>1, <2>2, <2>3, <2>4 DEF IInv, TypeOK, ExecutesApproved, Executing,
        Executor, requests, shopify
<1>4. SentApproved'
  <2>1. proc[x].plan \in Plan /\ proc[x].chosen = approval[proc[x].plan]
         /\ approval[proc[x].plan] # Absent
    BY DEF IInv, ExecutesApproved, Executing, StartBulk, At
  <2>2. PICK failed \in SUBSET proc[x].chosen :
         LET sent == {x} \X {proc[x].plan} \X (proc[x].chosen \ failed)
         IN  pending' = pending \cup sent /\ accepted' = accepted \ sent
    BY DEF StartBulk, Unprepared
  <2>3. approval' = approval /\ written' = written
    BY DEF StartBulk
  <2> QED
    BY <2>1, <2>2, <2>3 DEF IInv, TypeOK, SentApproved, requests, shopify
<1>5. ResultsEarned'
  BY DEF IInv, ResultsEarned, TypeOK, StartBulk, At, Executor, Process
<1> QED
  BY <1>1, <1>2, <1>3, <1>4, <1>5 DEF IInv

\* Nothing was sent: every product failed.
LEMMA SendFailsKeeps ==
  ASSUME IInv, NEW x \in Executor, SendFails(x)
  PROVE  IInv'
<1>1. TypeOK'
  <2>1. proc[x] \in Process
    BY DEF IInv, TypeOK
  <2>2. Failed(x) \in [Item -> Result]
    BY DEF Failed, Result
  <2>3. proc' \in [Executor -> Process]
    BY <2>1, <2>2, SentTyped DEF IInv, SendFails
  <2> QED
    BY <2>1, <2>2, <2>3 DEF IInv, TypeOK, SendFails, requests, shopify
<1>2. /\ RowsKnown' /\ CopiesFaithful' /\ ApprovesReviewed' /\ JobsApproved'
      /\ SentApproved'
  BY DEF IInv, RowsKnown, CopiesFaithful, ApprovesReviewed, JobsApproved,
      SentApproved, SendFails, requests, shopify, Faithful
<1>3. ExecutesApproved'
  BY SentKeepsApproved DEF IInv, SendFails, At, Executing
<1>4. ResultsEarned'
  <2>1. x = "queue" => \A i \in Item : proc'[x].result[i] # "success"
    BY DEF IInv, TypeOK, SendFails, Sent, Failed, Process, Executor
  <2>2. x = "queue" => proc'[x].done = {}
    BY DEF IInv, TypeOK, ExecutesApproved, SendFails, At, Sent, Process, Executor
  <2>3. x # "queue" => proc'["queue"] = proc["queue"]
    BY DEF IInv, TypeOK, SendFails, Sent, Executor
  <2>4. UNCHANGED <<written, stocked>>
    BY DEF SendFails, shopify
  <2> QED
    BY <2>1, <2>2, <2>3, <2>4 DEF IInv, TypeOK, ResultsEarned, Executor, requests,
        shopify
<1> QED
  BY <1>1, <1>2, <1>3, <1>4 DEF IInv

\* The poll ends: every product counts as failed.
LEMMA GiveUpKeeps ==
  ASSUME IInv, NEW x \in Executor, GiveUp(x)
  PROVE  IInv'
<1>1. TypeOK'
  <2>1. proc[x] \in Process
    BY DEF IInv, TypeOK
  <2>2. Failed(x) \in [Item -> Result]
    BY DEF Failed, Result
  <2>3. proc' \in [Executor -> Process]
    BY <2>1, <2>2, SentTyped DEF IInv, GiveUp
  <2> QED
    BY <2>1, <2>2, <2>3 DEF IInv, TypeOK, GiveUp, requests, shopify
<1>2. /\ RowsKnown' /\ CopiesFaithful' /\ ApprovesReviewed' /\ JobsApproved'
      /\ SentApproved'
  BY DEF IInv, RowsKnown, CopiesFaithful, ApprovesReviewed, JobsApproved,
      SentApproved, GiveUp, requests, shopify, Faithful
<1>3. ExecutesApproved'
  BY SentKeepsApproved DEF IInv, GiveUp, At, Executing
<1>4. ResultsEarned'
  <2>1. x = "queue" => \A i \in Item : proc'[x].result[i] # "success"
    BY DEF IInv, TypeOK, GiveUp, Sent, Failed, Process, Executor
  <2>2. x = "queue" => proc'[x].done = {}
    BY DEF IInv, TypeOK, ExecutesApproved, GiveUp, At, Sent, Process, Executor
  <2>3. x # "queue" => proc'["queue"] = proc["queue"]
    BY DEF IInv, TypeOK, GiveUp, Sent, Executor
  <2>4. UNCHANGED <<written, stocked>>
    BY DEF GiveUp, shopify
  <2> QED
    BY <2>1, <2>2, <2>3, <2>4 DEF IInv, TypeOK, ResultsEarned, Executor, requests,
        shopify
<1> QED
  BY <1>1, <1>2, <1>3, <1>4 DEF IInv

\* A success is of a product that Shopify wrote.
LEMMA CollectResultsKeeps ==
  ASSUME IInv, NEW x \in Executor, CollectResults(x)
  PROVE  IInv'
<1>1. TypeOK'
  <2>1. PICK result \in [Item -> Result] : Sent(x, proc[x].failed, result)
    BY DEF CollectResults
  <2>2. proc[x].failed \in SUBSET Item
    BY DEF IInv, TypeOK, Process
  <2>3. proc' \in [Executor -> Process]
    BY <2>1, <2>2, SentTyped DEF IInv
  <2> QED
    BY <2>1, <2>2, <2>3 DEF IInv, TypeOK, CollectResults, requests, shopify
<1>2. /\ RowsKnown' /\ CopiesFaithful' /\ ApprovesReviewed' /\ JobsApproved'
      /\ SentApproved'
  BY DEF IInv, RowsKnown, CopiesFaithful, ApprovesReviewed, JobsApproved,
      SentApproved, CollectResults, requests, shopify, Faithful
<1>3. ExecutesApproved'
  <2>1. PICK result \in [Item -> Result] : Sent(x, proc[x].failed, result)
    BY DEF CollectResults
  <2>2. proc[x].pc = "wait" /\ proc[x].failed \subseteq proc[x].chosen /\ approval' = approval
    BY DEF IInv, ExecutesApproved, CollectResults, At
  <2>3. ExecutesApproved'
    BY <2>1, <2>2, SentKeepsApproved DEF Executing, IInv
  <2> QED
    BY <2>1, <2>2, <2>3 DEF IInv, TypeOK, requests, shopify
<1>4. ResultsEarned'
  <2>1. PICK result \in [Item -> Result] :
         /\ \A i \in Item : result[i] \in Outcomes(x, i)
         /\ Sent(x, proc[x].failed, result)
    BY DEF CollectResults
  <2>2. \A i \in Item : result[i] = "success" =>
         <<proc[x].plan, i>> \in written /\ i \notin proc[x].failed
    BY <2>1 DEF IInv, SentApproved, Outcomes, WasWritten
  <2>3. x = "queue" => /\ proc'[x].result = result /\ proc'[x].failed = proc[x].failed
                     /\ proc'[x].plan = proc[x].plan /\ proc'[x].done = {}
    BY <2>1 DEF IInv, TypeOK, ExecutesApproved, CollectResults, At, Sent, Process, Executor
  <2>4. x # "queue" => proc'["queue"] = proc["queue"]
    BY <2>1 DEF IInv, TypeOK, Sent, Executor
  <2>5. UNCHANGED <<written, stocked>>
    BY DEF CollectResults, shopify
  <2> QED
    BY <2>1, <2>2, <2>3, <2>4, <2>5 DEF IInv, TypeOK, ResultsEarned, Executor,
        requests, shopify
<1> QED
  BY <1>1, <1>2, <1>3, <1>4 DEF IInv

\* What Shopify writes it was sent.
LEMMA ShopifyWritesKeeps ==
  ASSUME IInv, ShopifyWrites
  PROVE  IInv'
<1>1. TypeOK'
  BY DEF IInv, TypeOK, ShopifyWrites, requests, shopify
<1>2. /\ RowsKnown' /\ CopiesFaithful' /\ ApprovesReviewed' /\ JobsApproved'
      /\ ExecutesApproved'
  BY DEF IInv, RowsKnown, CopiesFaithful, ApprovesReviewed, JobsApproved,
      ExecutesApproved, ShopifyWrites, requests, shopify, Faithful
<1>3. SentApproved'
  BY DEF IInv, SentApproved, TypeOK, ShopifyWrites, requests, shopify
<1>4. ResultsEarned'
  BY DEF IInv, ResultsEarned, TypeOK, ShopifyWrites, requests, shopify, IdleProc
<1> QED
  BY <1>1, <1>2, <1>3, <1>4 DEF IInv

\* What Shopify refuses is gone.
LEMMA ShopifyRefusesKeeps ==
  ASSUME IInv, ShopifyRefuses
  PROVE  IInv'
<1>1. TypeOK'
  BY DEF IInv, TypeOK, ShopifyRefuses, requests, shopify
<1>2. /\ RowsKnown' /\ CopiesFaithful' /\ ApprovesReviewed' /\ JobsApproved'
      /\ ExecutesApproved' /\ ResultsEarned'
  BY DEF IInv, RowsKnown, CopiesFaithful, ApprovesReviewed, JobsApproved,
      ExecutesApproved, ResultsEarned, ShopifyRefuses, requests, shopify, Faithful
<1>3. SentApproved'
  BY DEF IInv, SentApproved, TypeOK, ShopifyRefuses, requests, shopify
<1> QED
  BY <1>1, <1>2, <1>3 DEF IInv

\* A sale changes stock only.
LEMMA SaleKeeps ==
  ASSUME IInv, Sale
  PROVE  IInv'
<1>1. TypeOK'
  <2>1. stock' \in [Item -> Quantity]
    BY CountAssumption DEF IInv, TypeOK, Sale, Quantity, Kind
  <2>2. left' \in [Kind -> Nat]
    BY CountedTyped DEF IInv, TypeOK, Sale, Kind
  <2> QED
    BY <2>1, <2>2 DEF IInv, TypeOK, Sale, requests, shopify
<1>2. /\ RowsKnown' /\ CopiesFaithful' /\ ApprovesReviewed' /\ JobsApproved'
      /\ ExecutesApproved' /\ SentApproved' /\ ResultsEarned'
  BY DEF IInv, RowsKnown, CopiesFaithful, ApprovesReviewed, JobsApproved,
      ExecutesApproved, SentApproved, ResultsEarned, Sale, requests, shopify,
      Faithful
<1> QED
  BY <1>1, <1>2 DEF IInv

\* A worker that dies leaves the rows as they are.
LEMMA WorkerDiesKeeps ==
  ASSUME IInv, WorkerDies
  PROVE  IInv'
<1>1. TypeOK'
  <2>1. proc' \in [Executor -> Process]
    BY ProcessForms, ProcessTyped DEF IInv, WorkerDies
  <2>2. me.plan \in Plan
    BY WorkerHasPlan DEF IInv, ExecutesApproved, WorkerDies, me, Executor
  <2>3. left' \in [Kind -> Nat]
    BY CountedTyped DEF IInv, TypeOK, WorkerDies, Kind
  <2> QED
    BY <2>1, <2>2, <2>3 DEF IInv, TypeOK, WorkerDies, requests, shopify
<1>2. /\ RowsKnown' /\ CopiesFaithful' /\ ApprovesReviewed' /\ JobsApproved'
      /\ SentApproved'
  BY DEF IInv, RowsKnown, CopiesFaithful, ApprovesReviewed, JobsApproved,
      SentApproved, WorkerDies, me, requests, shopify, Faithful
<1>3. ExecutesApproved'
  BY DEF IInv, ExecutesApproved, TypeOK, WorkerDies, Executor, IdleProc, Executing
<1>4. ResultsEarned'
  BY DEF IInv, ResultsEarned, TypeOK, WorkerDies, me, requests, shopify, IdleProc
<1> QED
  BY <1>1, <1>2, <1>3, <1>4 DEF IInv

-----------------------------------------------------------------------------
(* The worker.                                                             *)

\* A job that is taken was submitted.
LEMMA TakeJobKeeps ==
  ASSUME IInv, NEW p \in Plan, TakeJob(p)
  PROVE  IInv'
<1>1. TypeOK'
  <2>1. [IdleProc EXCEPT !.pc = "check", !.plan = p] \in Process
    <3>1. \A q \in Process : [q EXCEPT !.pc = "check", !.plan = p] \in Process
      BY DEF Process
    <3> QED
      BY <3>1, ProcessForms
  <2>2. proc' \in [Executor -> Process]
    BY <2>1, ProcessTyped DEF IInv, TakeJob
  <2> QED
    BY <2>1, <2>2 DEF IInv, TypeOK, TakeJob, Stay, requests, shopify
<1>2. RowsKnown' /\ CopiesFaithful' /\ ApprovesReviewed' /\ SentApproved'
  BY DEF IInv, RowsKnown, CopiesFaithful, ApprovesReviewed, SentApproved, TakeJob,
      me, At, Stay, requests, shopify, Faithful
<1>3. JobsApproved'
  BY DEF IInv, JobsApproved, TypeOK, TakeJob, me, At, Stay, requests, shopify
<1>4. ExecutesApproved'
  <2>1. /\ proc'["queue"].pc = "check" /\ proc'["queue"].plan = p
        /\ proc'["queue"].saved = "review" /\ proc'["queue"].chosen = {}
        /\ proc'["queue"].failed = {} /\ proc'["queue"].done = {}
    BY DEF IInv, TypeOK, TakeJob, Executor, IdleProc
  <2>2. proc'["inline"] = proc["inline"] /\ approval' = approval
    BY DEF IInv, TypeOK, TakeJob, Stay, Executor
  <2>3. approval[p] # Absent
    BY DEF IInv, JobsApproved, TakeJob
  <2> QED
    BY <2>1, <2>2, <2>3 DEF IInv, TypeOK, ExecutesApproved, Executor, Executing,
        requests, shopify
<1>5. ResultsEarned'
  BY DEF IInv, ResultsEarned, TypeOK, TakeJob, me, At, Stay, Executor, Process, IdleProc,
      shopify
<1> QED
  BY <1>1, <1>2, <1>3, <1>4, <1>5 DEF IInv

\* The worker takes up the products that were approved.
LEMMA CheckPlanKeeps ==
  ASSUME IInv, CheckPlan
  PROVE  IInv'
<1>1. TypeOK'
  <2>1. me \in Process /\ Selected(me.plan) \in SUBSET Item
    BY WorkerHasPlan DEF CheckPlan, At, me, Selected, PlanRow
  <2>2. /\ [me EXCEPT !.pc = "begin", !.chosen = Selected(me.plan)] \in Process
        /\ [me EXCEPT !.pc = "fail"] \in Process
    BY <2>1 DEF Process
  <2>3. proc' \in [Executor -> Process]
    BY <2>2 DEF IInv, TypeOK, CheckPlan, me, Executor
  <2> QED
    BY <2>1, <2>2, <2>3 DEF IInv, TypeOK, CheckPlan, Stay, requests, shopify
<1>2. /\ RowsKnown' /\ CopiesFaithful' /\ ApprovesReviewed' /\ JobsApproved'
      /\ SentApproved'
  BY DEF IInv, RowsKnown, CopiesFaithful, ApprovesReviewed, JobsApproved,
      SentApproved, CheckPlan, me, At, Stay, requests, shopify, Faithful
<1>3. ExecutesApproved'
  <2>1. me.pc = "check" /\ me.plan \in Plan /\ me \in Process
    BY WorkerHasPlan DEF CheckPlan, At, me
  <2>2. approval[me.plan] # Absent /\ row[me.plan].chosen = approval[me.plan]
    BY <2>1, WorkerHasPlan, PresentRecords DEF IInv, CopiesFaithful, Faithful
  <2>3. /\ proc'["queue"].plan = me.plan /\ proc'["queue"].saved = me.saved
        /\ proc'["queue"].failed = me.failed /\ proc'["queue"].done = me.done
        /\ \/ proc'["queue"].pc = "begin" /\ proc'["queue"].chosen = row[me.plan].chosen
           \/ proc'["queue"].pc = "fail" /\ proc'["queue"].chosen = me.chosen
    BY <2>1 DEF IInv, TypeOK, CheckPlan, Selected, me, Executor, Process
  <2>4. proc'["inline"] = proc["inline"] /\ approval' = approval
    BY DEF IInv, TypeOK, CheckPlan, Stay, Executor
  <2>5. me.saved # "review" => me.chosen = approval[me.plan]
    BY <2>1 DEF IInv, ExecutesApproved, me, Executor
  <2>6. me.failed = {} /\ me.done = {}
    BY <2>1 DEF IInv, ExecutesApproved, me, Executor
  <2> QED
    BY <2>1, <2>2, <2>3, <2>4, <2>5, <2>6 DEF IInv, TypeOK, ExecutesApproved,
        Executor, Executing, requests, shopify
<1>4. ResultsEarned'
  BY DEF IInv, ResultsEarned, TypeOK, CheckPlan, me, At, Stay, Executor, Process, IdleProc,
      shopify
<1> QED
  BY <1>1, <1>2, <1>3, <1>4 DEF IInv

\* The row says that the approved plan is executed.
LEMMA BeginExecutionKeeps ==
  ASSUME IInv, BeginExecution
  PROVE  IInv'
<1>1. TypeOK'
  <2>1. me \in Process /\ me.plan \in Plan
    BY WorkerHasPlan DEF BeginExecution, At, me
  <2>2. [status |-> "executing", chosen |-> me.chosen] \in PlanRow
    BY <2>1 DEF Process, PlanRow, PlanStatus
  <2>3. row' \in [Plan -> PlanRow \cup {Absent}]
    BY <2>2 DEF IInv, TypeOK, BeginExecution, SaveStatus
  <2>4. [me EXCEPT !.saved = "executing", !.pc = "expect"] \in Process
    BY <2>1 DEF Process, PlanStatus
  <2>5. proc' = [proc EXCEPT !["queue"] = [me EXCEPT !.saved = "executing", !.pc = "expect"]]
    BY DEF IInv, TypeOK, BeginExecution, SaveStatus, me, Executor
  <2>6. proc' \in [Executor -> Process]
    BY <2>4, <2>5, ProcessTyped DEF IInv
  <2> QED
    BY <2>1, <2>2, <2>3, <2>4, <2>5, <2>6 DEF IInv, TypeOK, BeginExecution, Stay,
        requests, shopify
<1>2. JobsApproved' /\ SentApproved'
  BY DEF IInv, JobsApproved, SentApproved, BeginExecution, me, At, Stay, SaveStatus,
      requests, shopify
<1>3. RowsKnown'
  <2>1. me.plan \in Plan /\ row[me.plan] # Absent
    BY WorkerHasPlan, PresentRecords DEF BeginExecution, At, me
  <2>2. [status |-> "executing", chosen |-> me.chosen] # Absent
    BY WorkerHasPlan, PresentRecords DEF BeginExecution, At, me, PlanRow, PlanStatus,
       Process
  <2>3. row' = [row EXCEPT ![me.plan] = [status |-> "executing", chosen |-> me.chosen]]
    BY DEF BeginExecution, SaveStatus
  <2>4. UNCHANGED <<plan, api, approval, creating>>
    BY DEF BeginExecution, Stay, requests
  <2> QED
    BY <2>1, <2>2, <2>3, <2>4 DEF IInv, TypeOK, RowsKnown, requests, shopify
<1>4. CopiesFaithful'
  <2>1. me.plan \in Plan
    BY WorkerHasPlan DEF BeginExecution, At, me
  <2>2. approval[me.plan] # Absent /\ me.chosen = approval[me.plan]
    BY DEF IInv, ExecutesApproved, BeginExecution, At, me, Executor, Executing
  <2>3. row' = [row EXCEPT ![me.plan] = [status |-> "executing", chosen |-> me.chosen]]
    BY DEF BeginExecution, SaveStatus
  <2>4. api' = api /\ approval' = approval
    BY DEF BeginExecution, Stay
  <2>5. \A q \in Plan \ {me.plan} : row'[q] = row[q]
    BY <2>3 DEF IInv, TypeOK
  <2>6. row'[me.plan] = [status |-> "executing", chosen |-> me.chosen]
    BY <2>1, <2>3 DEF IInv, TypeOK
  <2> QED
    BY <2>1, <2>2, <2>3, <2>4, <2>5, <2>6 DEF IInv, TypeOK, CopiesFaithful,
        Faithful, requests, shopify
<1>5. ApprovesReviewed'
  <2>1. me.plan \in Plan
    BY WorkerHasPlan DEF BeginExecution, At, me
  <2>2. [status |-> "executing", chosen |-> me.chosen] # Absent
    BY WorkerHasPlan, PresentRecords DEF BeginExecution, At, me, PlanRow, PlanStatus,
       Process
  <2>3. row' = [row EXCEPT ![me.plan] = [status |-> "executing", chosen |-> me.chosen]]
    BY DEF BeginExecution, SaveStatus
  <2>4. UNCHANGED <<approving, approval>>
    BY DEF BeginExecution, Stay, requests
  <2> QED
    BY <2>1, <2>2, <2>3, <2>4 DEF IInv, TypeOK, ApprovesReviewed, Pending, requests,
        shopify
<1>6. ExecutesApproved'
  BY DEF IInv, ExecutesApproved, TypeOK, BeginExecution, me, At, Stay, Executor,
      Executing, Process, IdleProc, SaveStatus
<1>7. ResultsEarned'
  BY DEF IInv, ResultsEarned, TypeOK, BeginExecution, me, At, Stay, Executor, Process,
     IdleProc,
      shopify, SaveStatus
<1> QED
  BY <1>1, <1>2, <1>3, <1>4, <1>5, <1>6, <1>7 DEF IInv

\* Stock has moved: the row of the approved plan says so.
LEMMA InventoryStaleKeeps ==
  ASSUME IInv, InventoryStale
  PROVE  IInv'
<1>1. TypeOK'
  <2>1. me \in Process /\ me.plan \in Plan
    BY WorkerHasPlan DEF InventoryStale, At, me
  <2>2. [status |-> "stale", chosen |-> me.chosen] \in PlanRow
    BY <2>1 DEF Process, PlanRow, PlanStatus
  <2>3. row' \in [Plan -> PlanRow \cup {Absent}]
    BY <2>2 DEF IInv, TypeOK, InventoryStale, SaveStatus
  <2>4. [me EXCEPT !.saved = "stale", !.pc = "fail"] \in Process
    BY <2>1 DEF Process, PlanStatus
  <2>5. proc' = [proc EXCEPT !["queue"] = [me EXCEPT !.saved = "stale", !.pc = "fail"]]
    BY DEF IInv, TypeOK, InventoryStale, SaveStatus, me, Executor
  <2>6. proc' \in [Executor -> Process]
    BY <2>4, <2>5, ProcessTyped DEF IInv
  <2> QED
    BY <2>1, <2>2, <2>3, <2>4, <2>5, <2>6 DEF IInv, TypeOK, InventoryStale, Stay,
        requests, shopify
<1>2. JobsApproved' /\ SentApproved'
  BY DEF IInv, JobsApproved, SentApproved, InventoryStale, me, At, Stay, SaveStatus,
      requests, shopify
<1>3. RowsKnown'
  <2>1. me.plan \in Plan /\ row[me.plan] # Absent
    BY WorkerHasPlan, PresentRecords DEF InventoryStale, At, me
  <2>2. [status |-> "stale", chosen |-> me.chosen] # Absent
    BY WorkerHasPlan, PresentRecords DEF InventoryStale, At, me, PlanRow, PlanStatus,
       Process
  <2>3. row' = [row EXCEPT ![me.plan] = [status |-> "stale", chosen |-> me.chosen]]
    BY DEF InventoryStale, SaveStatus
  <2>4. UNCHANGED <<plan, api, approval, creating>>
    BY DEF InventoryStale, Stay, requests
  <2> QED
    BY <2>1, <2>2, <2>3, <2>4 DEF IInv, TypeOK, RowsKnown, requests, shopify
<1>4. CopiesFaithful'
  <2>1. me.plan \in Plan
    BY WorkerHasPlan DEF InventoryStale, At, me
  <2>2. approval[me.plan] # Absent /\ me.chosen = approval[me.plan]
    BY DEF IInv, ExecutesApproved, InventoryStale, At, me, Executor, Executing
  <2>3. row' = [row EXCEPT ![me.plan] = [status |-> "stale", chosen |-> me.chosen]]
    BY DEF InventoryStale, SaveStatus
  <2>4. api' = api /\ approval' = approval
    BY DEF InventoryStale, Stay
  <2>5. \A q \in Plan \ {me.plan} : row'[q] = row[q]
    BY <2>3 DEF IInv, TypeOK
  <2>6. row'[me.plan] = [status |-> "stale", chosen |-> me.chosen]
    BY <2>1, <2>3 DEF IInv, TypeOK
  <2> QED
    BY <2>1, <2>2, <2>3, <2>4, <2>5, <2>6 DEF IInv, TypeOK, CopiesFaithful,
        Faithful, requests, shopify
<1>5. ApprovesReviewed'
  <2>1. me.plan \in Plan
    BY WorkerHasPlan DEF InventoryStale, At, me
  <2>2. [status |-> "stale", chosen |-> me.chosen] # Absent
    BY WorkerHasPlan, PresentRecords DEF InventoryStale, At, me, PlanRow, PlanStatus,
       Process
  <2>3. row' = [row EXCEPT ![me.plan] = [status |-> "stale", chosen |-> me.chosen]]
    BY DEF InventoryStale, SaveStatus
  <2>4. UNCHANGED <<approving, approval>>
    BY DEF InventoryStale, Stay, requests
  <2> QED
    BY <2>1, <2>2, <2>3, <2>4 DEF IInv, TypeOK, ApprovesReviewed, Pending, requests,
        shopify
<1>6. ExecutesApproved'
  BY DEF IInv, ExecutesApproved, TypeOK, InventoryStale, me, At, Stay, Executor,
      Executing, Process, IdleProc, SaveStatus
<1>7. ResultsEarned'
  BY DEF IInv, ResultsEarned, TypeOK, InventoryStale, me, At, Stay, Executor, Process,
     IdleProc,
      shopify, SaveStatus
<1> QED
  BY <1>1, <1>2, <1>3, <1>4, <1>5, <1>6, <1>7 DEF IInv

\* Stock is as it was reviewed.
LEMMA ExpectInventoryKeeps ==
  ASSUME IInv, ExpectInventory
  PROVE  IInv'
<1>1. TypeOK'
  <2>1. me \in Process
    BY DEF IInv, TypeOK, me, Executor
  <2>2. [me EXCEPT !.pc = "mark"] \in Process
    BY <2>1, ProcessForms
  <2>3. proc' = [proc EXCEPT !["queue"] = [me EXCEPT !.pc = "mark"]]
    BY DEF IInv, TypeOK, ExpectInventory, GoTo, me, Executor
  <2>4. proc' \in [Executor -> Process]
    BY <2>2, <2>3, ProcessTyped DEF IInv
  <2> QED
    BY <2>1, <2>2, <2>3, <2>4 DEF IInv, TypeOK, ExpectInventory, Stay, requests,
        shopify
<1>2. /\ RowsKnown' /\ CopiesFaithful' /\ ApprovesReviewed' /\ JobsApproved'
      /\ SentApproved'
  BY DEF IInv, RowsKnown, CopiesFaithful, ApprovesReviewed, JobsApproved,
      SentApproved, ExpectInventory, me, At, Stay, GoTo, requests, shopify, Faithful
<1>3. ExecutesApproved'
  BY DEF IInv, ExecutesApproved, TypeOK, ExpectInventory, me, At, Stay, Executor,
      Executing, Process, IdleProc, GoTo
<1>4. ResultsEarned'
  BY DEF IInv, ResultsEarned, TypeOK, ExpectInventory, me, At, Stay, Executor, Process,
     IdleProc,
      shopify, GoTo
<1> QED
  BY <1>1, <1>2, <1>3, <1>4 DEF IInv

\* The shop cannot be reached.
LEMMA NoTokenKeeps ==
  ASSUME IInv, NoToken
  PROVE  IInv'
<1>1. TypeOK'
  <2>1. me \in Process
    BY DEF IInv, TypeOK, me, Executor
  <2>2. [me EXCEPT !.pc = "fail"] \in Process
    BY <2>1, ProcessForms
  <2>3. proc' = [proc EXCEPT !["queue"] = [me EXCEPT !.pc = "fail"]]
    BY DEF IInv, TypeOK, NoToken, GoTo, me, Executor
  <2>4. proc' \in [Executor -> Process]
    BY <2>2, <2>3, ProcessTyped DEF IInv
  <2> QED
    BY <2>1, <2>2, <2>3, <2>4 DEF IInv, TypeOK, NoToken, Stay, requests, shopify
<1>2. /\ RowsKnown' /\ CopiesFaithful' /\ ApprovesReviewed' /\ JobsApproved'
      /\ SentApproved'
  BY DEF IInv, RowsKnown, CopiesFaithful, ApprovesReviewed, JobsApproved,
      SentApproved, NoToken, me, At, Stay, GoTo, requests, shopify, Faithful
<1>3. ExecutesApproved'
  BY DEF IInv, ExecutesApproved, TypeOK, NoToken, me, At, Stay, Executor,
      Executing, Process, IdleProc, GoTo
<1>4. ResultsEarned'
  BY DEF IInv, ResultsEarned, TypeOK, NoToken, me, At, Stay, Executor, Process, IdleProc,
      shopify, GoTo
<1> QED
  BY <1>1, <1>2, <1>3, <1>4 DEF IInv

\* The worker holds a copy of the draft.
LEMMA ReadDraftKeeps ==
  ASSUME IInv, ReadDraft
  PROVE  IInv'
<1>1. TypeOK'
  <2>1. me \in Process /\ draft \in DraftRow
    BY DEF IInv, TypeOK, me, Executor
  <2>2. [me EXCEPT !.pc = Reads[me.pc], !.seen = draft] \in Process
    BY <2>1, ReadsForms DEF ReadDraft, Process
  <2>3. proc' = [proc EXCEPT !["queue"] = [me EXCEPT !.pc = Reads[me.pc], !.seen = draft]]
    BY DEF IInv, TypeOK, ReadDraft, me, Executor
  <2>4. proc' \in [Executor -> Process]
    BY <2>2, <2>3, ProcessTyped DEF IInv
  <2> QED
    BY <2>1, <2>2, <2>3, <2>4 DEF IInv, TypeOK, ReadDraft, Stay, requests, shopify
<1>2. /\ RowsKnown' /\ CopiesFaithful' /\ ApprovesReviewed' /\ JobsApproved'
      /\ SentApproved'
  BY DEF IInv, RowsKnown, CopiesFaithful, ApprovesReviewed, JobsApproved,
      SentApproved, ReadDraft, me, At, Stay, requests, shopify, Faithful
<1>3. ExecutesApproved'
  <2>1. proc' = [proc EXCEPT !["queue"] = [me EXCEPT !.pc = Reads[me.pc], !.seen = draft]]
    BY DEF IInv, TypeOK, ReadDraft, me, Executor
  <2> QED
    BY <2>1, ReadsForms, WorkerGoesOn DEF ReadDraft, Stay, Executing
<1>4. ResultsEarned'
  <2>1. proc'["queue"].pc # "stock"
    BY ReadsForms DEF IInv, TypeOK, ReadDraft, me, Executor, Process
  <2> QED
    BY <2>1 DEF IInv, TypeOK, ResultsEarned, requests, shopify
<1> QED
  BY <1>1, <1>2, <1>3, <1>4 DEF IInv

\* The draft is told that its submit runs.
LEMMA MarkRunningKeeps ==
  ASSUME IInv, MarkRunning
  PROVE  IInv'
<1>1. TypeOK'
  <2>1. me \in Process /\ IdleProc.seen \in DraftRow
    BY DEF IInv, TypeOK, me, Executor, IdleProc, DraftRow, SubmitStatus
  <2>2. [me.seen EXCEPT !.submit = "running"] \in DraftRow
    BY <2>1 DEF Process, DraftRow, SubmitStatus
  <2>3. draft' \in DraftRow /\ late' \in BOOLEAN
    BY <2>2, SavedDraftTyped DEF IInv, TypeOK, MarkRunning, SaveSubmit
  <2>4. [me EXCEPT !.pc = "send", !.seen = IdleProc.seen] \in Process
    BY <2>1 DEF Process
  <2>5. proc' = [proc EXCEPT !["queue"] = [me EXCEPT !.pc = "send", !.seen = IdleProc.seen]]
    BY DEF IInv, TypeOK, MarkRunning, SaveSubmit, me, Executor
  <2>6. proc' \in [Executor -> Process]
    BY <2>4, <2>5, ProcessTyped DEF IInv
  <2> QED
    BY <2>1, <2>2, <2>3, <2>4, <2>5, <2>6 DEF IInv, TypeOK, MarkRunning, SaveSubmit,
        Stay, requests, shopify
<1>2. /\ RowsKnown' /\ CopiesFaithful' /\ ApprovesReviewed' /\ JobsApproved'
      /\ SentApproved'
  BY DEF IInv, RowsKnown, CopiesFaithful, ApprovesReviewed, JobsApproved,
      SentApproved, MarkRunning, me, At, Stay, SaveSubmit, requests, shopify,
      Faithful
<1>3. ExecutesApproved'
  <2>1. proc' = [proc EXCEPT !["queue"] = [me EXCEPT !.pc = "send", !.seen = IdleProc.seen]]
    BY DEF IInv, TypeOK, MarkRunning, SaveSubmit, me, Executor
  <2> QED
    BY <2>1, WorkerGoesOn DEF MarkRunning, At, me, SaveSubmit, Stay, Executing
<1>4. ResultsEarned'
  BY DEF IInv, ResultsEarned, TypeOK, MarkRunning, me, At, Stay, Executor, Process,
     IdleProc,
      shopify, SaveSubmit
<1> QED
  BY <1>1, <1>2, <1>3, <1>4 DEF IInv

\* The draft is told of the success.
LEMMA ReportSuccessKeeps ==
  ASSUME IInv, ReportSuccess
  PROVE  IInv'
<1>1. TypeOK'
  <2>1. me \in Process /\ IdleProc.seen \in DraftRow
    BY DEF IInv, TypeOK, me, Executor, IdleProc, DraftRow, SubmitStatus
  <2>2. [me.seen EXCEPT !.submit = "succeeded"] \in DraftRow
    BY <2>1 DEF Process, DraftRow, SubmitStatus
  <2>3. draft' \in DraftRow /\ late' \in BOOLEAN
    BY <2>2, SavedDraftTyped DEF IInv, TypeOK, ReportSuccess, SaveSubmit
  <2>4. [me EXCEPT !.pc = "finish", !.seen = IdleProc.seen] \in Process
    BY <2>1 DEF Process
  <2>5. proc' = [proc EXCEPT !["queue"] = [me EXCEPT !.pc = "finish", !.seen = IdleProc.seen]]
    BY DEF IInv, TypeOK, ReportSuccess, SaveSubmit, me, Executor
  <2>6. proc' \in [Executor -> Process]
    BY <2>4, <2>5, ProcessTyped DEF IInv
  <2> QED
    BY <2>1, <2>2, <2>3, <2>4, <2>5, <2>6 DEF IInv, TypeOK, ReportSuccess,
        SaveSubmit, Stay, requests, shopify
<1>2. /\ RowsKnown' /\ CopiesFaithful' /\ ApprovesReviewed' /\ JobsApproved'
      /\ SentApproved'
  BY DEF IInv, RowsKnown, CopiesFaithful, ApprovesReviewed, JobsApproved,
      SentApproved, ReportSuccess, me, At, Stay, SaveSubmit, requests, shopify,
      Faithful
<1>3. ExecutesApproved'
  <2>1. proc' = [proc EXCEPT !["queue"] = [me EXCEPT !.pc = "finish", !.seen = IdleProc.seen]]
    BY DEF IInv, TypeOK, ReportSuccess, SaveSubmit, me, Executor
  <2> QED
    BY <2>1, WorkerGoesOn DEF ReportSuccess, At, me, SaveSubmit, Stay, Executing
<1>4. ResultsEarned'
  BY DEF IInv, ResultsEarned, TypeOK, ReportSuccess, me, At, Stay, Executor, Process,
     IdleProc,
      shopify, SaveSubmit
<1> QED
  BY <1>1, <1>2, <1>3, <1>4 DEF IInv

\* The draft is told of the failure.
LEMMA ReportFailureKeeps ==
  ASSUME IInv, ReportFailure
  PROVE  IInv'
<1>1. TypeOK'
  <2>1. me \in Process /\ IdleProc.seen \in DraftRow
    BY DEF IInv, TypeOK, me, Executor, IdleProc, DraftRow, SubmitStatus
  <2>2. [me.seen EXCEPT !.submit = "failed"] \in DraftRow
    BY <2>1 DEF Process, DraftRow, SubmitStatus
  <2>3. draft' \in DraftRow /\ late' \in BOOLEAN
    BY <2>2, SavedDraftTyped DEF IInv, TypeOK, ReportFailure, SaveSubmit
  <2>4. [me EXCEPT !.pc = "fail", !.seen = IdleProc.seen] \in Process
    BY <2>1 DEF Process
  <2>5. proc' = [proc EXCEPT !["queue"] = [me EXCEPT !.pc = "fail", !.seen = IdleProc.seen]]
    BY DEF IInv, TypeOK, ReportFailure, SaveSubmit, me, Executor
  <2>6. proc' \in [Executor -> Process]
    BY <2>4, <2>5, ProcessTyped DEF IInv
  <2> QED
    BY <2>1, <2>2, <2>3, <2>4, <2>5, <2>6 DEF IInv, TypeOK, ReportFailure,
        SaveSubmit, Stay, requests, shopify
<1>2. /\ RowsKnown' /\ CopiesFaithful' /\ ApprovesReviewed' /\ JobsApproved'
      /\ SentApproved'
  BY DEF IInv, RowsKnown, CopiesFaithful, ApprovesReviewed, JobsApproved,
      SentApproved, ReportFailure, me, At, Stay, SaveSubmit, requests, shopify,
      Faithful
<1>3. ExecutesApproved'
  <2>1. proc' = [proc EXCEPT !["queue"] = [me EXCEPT !.pc = "fail", !.seen = IdleProc.seen]]
    BY DEF IInv, TypeOK, ReportFailure, SaveSubmit, me, Executor
  <2> QED
    BY <2>1, WorkerGoesOn DEF ReportFailure, At, me, SaveSubmit, Stay, Executing
<1>4. ResultsEarned'
  BY DEF IInv, ResultsEarned, TypeOK, ReportFailure, me, At, Stay, Executor, Process,
     IdleProc,
      shopify, SaveSubmit
<1> QED
  BY <1>1, <1>2, <1>3, <1>4 DEF IInv

\* The draft is told that its submit failed.
LEMMA MarkDraftFailedKeeps ==
  ASSUME IInv, MarkDraftFailed
  PROVE  IInv'
<1>1. TypeOK'
  <2>1. me \in Process /\ IdleProc.seen \in DraftRow
    BY DEF IInv, TypeOK, me, Executor, IdleProc, DraftRow, SubmitStatus
  <2>2. [me.seen EXCEPT !.submit = "failed"] \in DraftRow
    BY <2>1 DEF Process, DraftRow, SubmitStatus
  <2>3. draft' \in DraftRow /\ late' \in BOOLEAN
    BY <2>2, SavedDraftTyped DEF IInv, TypeOK, MarkDraftFailed, SaveSubmit
  <2>4. [me EXCEPT !.pc = "bury", !.seen = IdleProc.seen] \in Process
    BY <2>1 DEF Process
  <2>5. proc' = [proc EXCEPT !["queue"] = [me EXCEPT !.pc = "bury", !.seen = IdleProc.seen]]
    BY DEF IInv, TypeOK, MarkDraftFailed, SaveSubmit, me, Executor
  <2>6. proc' \in [Executor -> Process]
    BY <2>4, <2>5, ProcessTyped DEF IInv
  <2> QED
    BY <2>1, <2>2, <2>3, <2>4, <2>5, <2>6 DEF IInv, TypeOK, MarkDraftFailed,
        SaveSubmit, Stay, requests, shopify
<1>2. /\ RowsKnown' /\ CopiesFaithful' /\ ApprovesReviewed' /\ JobsApproved'
      /\ SentApproved'
  BY DEF IInv, RowsKnown, CopiesFaithful, ApprovesReviewed, JobsApproved,
      SentApproved, MarkDraftFailed, me, At, Stay, SaveSubmit, requests, shopify,
      Faithful
<1>3. ExecutesApproved'
  <2>1. proc' = [proc EXCEPT !["queue"] = [me EXCEPT !.pc = "bury", !.seen = IdleProc.seen]]
    BY DEF IInv, TypeOK, MarkDraftFailed, SaveSubmit, me, Executor
  <2> QED
    BY <2>1, WorkerGoesOn DEF MarkDraftFailed, At, me, SaveSubmit, Stay, Executing
<1>4. ResultsEarned'
  BY DEF IInv, ResultsEarned, TypeOK, MarkDraftFailed, me, At, Stay, Executor, Process,
     IdleProc,
      shopify, SaveSubmit
<1> QED
  BY <1>1, <1>2, <1>3, <1>4 DEF IInv

\* The job ends, and the worker is idle.
LEMMA FinishJobKeeps ==
  ASSUME IInv, FinishJob
  PROVE  IInv'
<1>1. TypeOK'
  <2>1. proc' \in [Executor -> Process]
    BY ProcessForms, ProcessTyped DEF IInv, FinishJob, EndJob
  <2> QED
    BY <2>1 DEF IInv, TypeOK, FinishJob, EndJob, Stay, requests, shopify
<1>2. RowsKnown' /\ CopiesFaithful' /\ ApprovesReviewed' /\ SentApproved'
  BY DEF IInv, RowsKnown, CopiesFaithful, ApprovesReviewed, SentApproved, FinishJob,
      me, At, Stay, EndJob, requests, shopify, Faithful
<1>3. JobsApproved'
  <2>1. me.plan \in Plan /\ approval[me.plan] # Absent
    BY WorkerHasPlan, PresentRecords DEF FinishJob, At, me
  <2> QED
    BY <2>1 DEF IInv, TypeOK, JobsApproved, FinishJob, EndJob, Stay, requests,
        shopify
<1>4. ExecutesApproved'
  BY DEF IInv, ExecutesApproved, TypeOK, FinishJob, me, At, Stay, Executor,
      Executing, Process, IdleProc, EndJob
<1>5. ResultsEarned'
  BY DEF IInv, ResultsEarned, TypeOK, FinishJob, me, At, Stay, Executor, Process, IdleProc,
      shopify, EndJob
<1> QED
  BY <1>1, <1>2, <1>3, <1>4, <1>5 DEF IInv

\* The job is buried, and the worker is idle.
LEMMA BuryJobKeeps ==
  ASSUME IInv, BuryJob
  PROVE  IInv'
<1>1. TypeOK'
  <2>1. proc' \in [Executor -> Process]
    BY ProcessForms, ProcessTyped DEF IInv, BuryJob, EndJob
  <2> QED
    BY <2>1 DEF IInv, TypeOK, BuryJob, EndJob, Stay, requests, shopify
<1>2. RowsKnown' /\ CopiesFaithful' /\ ApprovesReviewed' /\ SentApproved'
  BY DEF IInv, RowsKnown, CopiesFaithful, ApprovesReviewed, SentApproved, BuryJob,
      me, At, Stay, EndJob, requests, shopify, Faithful
<1>3. JobsApproved'
  <2>1. me.plan \in Plan /\ approval[me.plan] # Absent
    BY WorkerHasPlan, PresentRecords DEF BuryJob, At, me
  <2> QED
    BY <2>1 DEF IInv, TypeOK, JobsApproved, BuryJob, EndJob, Stay, requests, shopify
<1>4. ExecutesApproved'
  BY DEF IInv, ExecutesApproved, TypeOK, BuryJob, me, At, Stay, Executor,
      Executing, Process, IdleProc, EndJob
<1>5. ResultsEarned'
  BY DEF IInv, ResultsEarned, TypeOK, BuryJob, me, At, Stay, Executor, Process, IdleProc,
      shopify, EndJob
<1> QED
  BY <1>1, <1>2, <1>3, <1>4, <1>5 DEF IInv

\* A product whose stock is set was written, and its turn has come.
LEMMA StockNextKeeps ==
  ASSUME IInv, StockNext
  PROVE  IInv'
<1>1. TypeOK'
  <2>1. me \in Process /\ me.plan \in Plan
    BY WorkerHasPlan DEF StockNext, At, me
  <2>2. PICK i \in me.chosen, t \in me.chosen, result \in [Item -> Result] :
         /\ proc' = [proc EXCEPT !["queue"] =
                       [me EXCEPT !.done = me.done \cup {i}, !.result = result]]
         /\ \/ UNCHANGED <<stock, stocked>>
            \/ /\ stock' = [stock EXCEPT ![t] = <<me.plan, i>>]
               /\ stocked' = stocked \cup {<<me.plan, t, i>>}
    BY NextStocked
  <2>3. i \in Item /\ t \in Item
    BY <2>1 DEF Process
  <2>4. <<me.plan, i>> \in Quantity
    BY <2>1, <2>3, CountAssumption DEF Quantity, Plan, Item
  <2>5. stock' \in [Item -> Quantity] /\ stocked' \subseteq Plan \X Item \X Item
    BY <2>1, <2>2, <2>3, <2>4 DEF IInv, TypeOK
  <2>6. [me EXCEPT !.done = me.done \cup {i}, !.result = result] \in Process
    BY <2>1, <2>2, <2>3 DEF Process
  <2>7. proc' \in [Executor -> Process]
    BY <2>2, <2>6, ProcessTyped DEF IInv
  <2> QED
    BY <2>1, <2>2, <2>3, <2>4, <2>5, <2>6, <2>7 DEF IInv, TypeOK, StockNext, Stay,
        requests, shopify
<1>2. /\ RowsKnown' /\ CopiesFaithful' /\ ApprovesReviewed' /\ JobsApproved'
      /\ SentApproved'
  BY DEF IInv, RowsKnown, CopiesFaithful, ApprovesReviewed, JobsApproved,
      SentApproved, StockNext, me, At, Stay, requests, shopify, Faithful
<1>3. ExecutesApproved'
  <2>1. PICK i \in me.chosen, result \in [Item -> Result] :
         proc' = [proc EXCEPT !["queue"] =
                    [me EXCEPT !.done = me.done \cup {i}, !.result = result]]
    BY NextStocked
  <2>2. /\ proc'["queue"].pc = me.pc /\ proc'["queue"].plan = me.plan
        /\ proc'["queue"].saved = me.saved /\ proc'["queue"].chosen = me.chosen
        /\ proc'["queue"].failed = me.failed /\ proc'["queue"].done = me.done \cup {i}
    BY <2>1 DEF IInv, TypeOK, me, Executor, Process
  <2>3. proc'["inline"] = proc["inline"] /\ approval' = approval
    BY <2>1 DEF IInv, TypeOK, StockNext, Stay, Executor
  <2>4. me.pc = "stock"
    BY DEF StockNext, At, me
  <2> QED
    BY <2>1, <2>2, <2>3, <2>4 DEF IInv, TypeOK, ExecutesApproved, Executor, me,
        requests, shopify
<1>4. ResultsEarned'
  <2>1. PICK i \in me.chosen, t \in me.chosen, result \in [Item -> Result] :
         /\ me.failed = {} => t = i
         /\ proc' = [proc EXCEPT !["queue"] =
                       [me EXCEPT !.done = me.done \cup {i}, !.result = result]]
         /\ \/ /\ me.result[t] # "success" /\ result = me.result
               /\ UNCHANGED <<stock, stocked>>
            \/ /\ me.result[t] = "success" /\ result = me.result
               /\ stock' = [stock EXCEPT ![t] = <<me.plan, i>>]
               /\ stocked' = stocked \cup {<<me.plan, t, i>>}
            \/ /\ result = [me.result EXCEPT ![t] = "partially_applied"]
               /\ UNCHANGED <<stock, stocked>>
    BY NextStocked
  <2>2. me.result \in [Item -> Result] /\ t \in Item /\ i \in Item
    BY DEF IInv, TypeOK, me, Executor, Process
  <2>3. /\ proc'["queue"].plan = me.plan /\ proc'["queue"].result = result
        /\ proc'["queue"].failed = me.failed /\ proc'["queue"].done = me.done \cup {i}
    BY <2>1 DEF IInv, TypeOK, me, Executor, Process
  <2>4. written' = written /\ stocked \subseteq stocked'
    BY <2>1 DEF StockNext
  <2>5. \A k \in Item : result[k] = "success" => me.result[k] = "success"
    BY <2>1, <2>2
  <2>6. me.failed = {} /\ result[i] = "success" => <<me.plan, i, i>> \in stocked'
    BY <2>1, <2>2
  <2>7. /\ me.pc = "stock" /\ me.done \subseteq Item
        /\ \A k \in Item : me.result[k] = "success" =>
             <<me.plan, k>> \in written /\ k \notin me.failed
        /\ \A k \in me.done : me.failed = {} /\ me.result[k] = "success" =>
             <<me.plan, k, k>> \in stocked
    BY DEF IInv, TypeOK, ResultsEarned, StockNext, At, me, Executor, Process
  <2> QED
    BY <2>1, <2>2, <2>3, <2>4, <2>5, <2>6, <2>7 DEF ResultsEarned, me
<1> QED
  BY <1>1, <1>2, <1>3, <1>4 DEF IInv

\* What came of a plan is saved with the products that were approved.
LEMMA SaveOutcomeKeeps ==
  ASSUME IInv, SaveOutcome
  PROVE  IInv'
<1>1. TypeOK'
  <2>1. me \in Process /\ me.plan \in Plan
    BY WorkerHasPlan DEF SaveOutcome, At, me
  <2>2. Lifecycle \in PlanStatus
    BY DEF Lifecycle, PlanStatus
  <2>3. [status |-> Lifecycle, chosen |-> me.chosen] \in PlanRow
    BY <2>1, <2>2 DEF Process, PlanRow
  <2>4. row' \in [Plan -> PlanRow \cup {Absent}]
    BY <2>3 DEF IInv, TypeOK, SaveOutcome
  <2>5. [IdleProc EXCEPT !.pc = "report", !.plan = me.plan, !.chosen = me.chosen,
                          !.saved = Lifecycle] \in Process
    <3>1. \A q \in Process : [q EXCEPT !.pc = "report", !.plan = me.plan,
                                 !.chosen = me.chosen, !.saved = Lifecycle] \in Process
      BY <2>1, <2>2 DEF Process
    <3> QED
      BY <3>1, ProcessForms
  <2>6. proc' \in [Executor -> Process]
    BY <2>5, ProcessTyped DEF IInv, SaveOutcome
  <2> QED
    BY <2>1, <2>2, <2>3, <2>4, <2>5, <2>6 DEF IInv, TypeOK, SaveOutcome, Stay,
        requests, shopify
<1>2. JobsApproved' /\ SentApproved'
  BY DEF IInv, JobsApproved, SentApproved, SaveOutcome, me, At, Stay, requests,
      shopify
<1>3. RowsKnown'
  <2>1. me.plan \in Plan /\ row[me.plan] # Absent
    BY WorkerHasPlan, PresentRecords DEF SaveOutcome, At, me
  <2>2. [status |-> Lifecycle, chosen |-> me.chosen] # Absent
    BY WorkerHasPlan, PresentRecords DEF SaveOutcome, At, me, PlanRow, PlanStatus,
       Process, Lifecycle
  <2>3. row' = [row EXCEPT ![me.plan] = [status |-> Lifecycle, chosen |-> me.chosen]]
    BY DEF SaveOutcome, SaveStatus
  <2>4. UNCHANGED <<plan, api, approval, creating>>
    BY DEF SaveOutcome, Stay, requests
  <2> QED
    BY <2>1, <2>2, <2>3, <2>4 DEF IInv, TypeOK, RowsKnown, requests, shopify
<1>4. CopiesFaithful'
  <2>1. me.plan \in Plan
    BY WorkerHasPlan DEF SaveOutcome, At, me
  <2>2. approval[me.plan] # Absent /\ me.chosen = approval[me.plan]
    BY DEF IInv, ExecutesApproved, SaveOutcome, At, me, Executor, Executing
  <2>3. row' = [row EXCEPT ![me.plan] = [status |-> Lifecycle, chosen |-> me.chosen]]
    BY DEF SaveOutcome, SaveStatus
  <2>4. api' = api /\ approval' = approval
    BY DEF SaveOutcome, Stay
  <2>5. \A q \in Plan \ {me.plan} : row'[q] = row[q]
    BY <2>3 DEF IInv, TypeOK
  <2>6. row'[me.plan] = [status |-> Lifecycle, chosen |-> me.chosen]
    BY <2>1, <2>3 DEF IInv, TypeOK
  <2> QED
    BY <2>1, <2>2, <2>3, <2>4, <2>5, <2>6 DEF IInv, TypeOK, CopiesFaithful,
        Faithful, Lifecycle, requests, shopify
<1>5. ApprovesReviewed'
  <2>1. me.plan \in Plan
    BY WorkerHasPlan DEF SaveOutcome, At, me
  <2>2. [status |-> Lifecycle, chosen |-> me.chosen] # Absent
    BY WorkerHasPlan, PresentRecords DEF SaveOutcome, At, me, PlanRow, PlanStatus,
       Process, Lifecycle
  <2>3. row' = [row EXCEPT ![me.plan] = [status |-> Lifecycle, chosen |-> me.chosen]]
    BY DEF SaveOutcome, SaveStatus
  <2>4. UNCHANGED <<approving, approval>>
    BY DEF SaveOutcome, Stay, requests
  <2> QED
    BY <2>1, <2>2, <2>3, <2>4 DEF IInv, TypeOK, ApprovesReviewed, Pending, requests,
        shopify
<1>6. ExecutesApproved'
  <2>1. /\ proc'["queue"].pc = "report" /\ proc'["queue"].plan = me.plan
        /\ proc'["queue"].chosen = me.chosen /\ proc'["queue"].failed = {}
        /\ proc'["queue"].done = {}
    BY DEF IInv, TypeOK, SaveOutcome, Executor, IdleProc
  <2>2. proc'["inline"] = proc["inline"] /\ approval' = approval
    BY DEF IInv, TypeOK, SaveOutcome, Stay, Executor
  <2>3. /\ me.plan \in Plan /\ approval[me.plan] # Absent
        /\ me.chosen = approval[me.plan]
    BY DEF IInv, ExecutesApproved, SaveOutcome, At, me, Executor, Executing
  <2> QED
    BY <2>1, <2>2, <2>3 DEF IInv, TypeOK, ExecutesApproved, Executor, requests,
        shopify
<1>7. ResultsEarned'
  <2>1. proc'["queue"].pc = "report"
    BY DEF IInv, TypeOK, SaveOutcome, Executor, IdleProc
  <2> QED
    BY <2>1 DEF IInv, TypeOK, ResultsEarned, requests, shopify
<1> QED
  BY <1>1, <1>2, <1>3, <1>4, <1>5, <1>6, <1>7 DEF IInv

\* A plan that failed is saved with the products that were approved.
LEMMA MarkPlanFailedKeeps ==
  ASSUME IInv, MarkPlanFailed
  PROVE  IInv'
<1>1. TypeOK'
  <2>1. /\ me.plan \in Plan /\ Remembered \in PlanRow
        /\ Remembered.status # "review" /\ Remembered.chosen = approval[me.plan]
        /\ approval[me.plan] # Absent /\ row[me.plan] # Absent
    BY RememberedFaithful
  <2>2. [Remembered EXCEPT !.status = "failed"] \in PlanRow
    BY <2>1 DEF PlanRow, PlanStatus
  <2>3. row' \in [Plan -> PlanRow \cup {Absent}]
    BY <2>2 DEF IInv, TypeOK, MarkPlanFailed
  <2>4. me \in Process
    BY DEF IInv, TypeOK, me, Executor
  <2>5. [me EXCEPT !.pc = "excuse"] \in Process
    BY <2>4, ProcessForms
  <2>6. proc' = [proc EXCEPT !["queue"] = [me EXCEPT !.pc = "excuse"]]
    BY DEF IInv, TypeOK, MarkPlanFailed, GoTo, me, Executor
  <2>7. proc' \in [Executor -> Process]
    BY <2>5, <2>6, ProcessTyped DEF IInv
  <2> QED
    BY <2>1, <2>2, <2>3, <2>4, <2>5, <2>6, <2>7 DEF IInv, TypeOK, MarkPlanFailed,
        Stay, requests, shopify
<1>2. JobsApproved' /\ SentApproved'
  BY DEF IInv, JobsApproved, SentApproved, MarkPlanFailed, me, At, Stay, GoTo,
      requests, shopify
<1>3. RowsKnown'
  <2>1. /\ me.plan \in Plan /\ Remembered \in PlanRow
        /\ Remembered.status # "review" /\ Remembered.chosen = approval[me.plan]
        /\ approval[me.plan] # Absent /\ row[me.plan] # Absent
    BY RememberedFaithful
  <2>2. [Remembered EXCEPT !.status = "failed"] # Absent
    BY <2>1, PresentRecords DEF PlanRow, PlanStatus
  <2>3. row' = [row EXCEPT ![me.plan] = [Remembered EXCEPT !.status = "failed"]] \/ row' = row
    BY DEF MarkPlanFailed
  <2>4. UNCHANGED <<plan, api, approval, creating>>
    BY DEF MarkPlanFailed, Stay, requests
  <2> QED
    BY <2>1, <2>2, <2>3, <2>4 DEF IInv, TypeOK, RowsKnown, requests, shopify
<1>4. CopiesFaithful'
  <2>1. /\ me.plan \in Plan /\ Remembered \in PlanRow
        /\ Remembered.status # "review" /\ Remembered.chosen = approval[me.plan]
        /\ approval[me.plan] # Absent /\ row[me.plan] # Absent
    BY RememberedFaithful
  <2>2. row' = [row EXCEPT ![me.plan] = [Remembered EXCEPT !.status = "failed"]] \/ row' = row
    BY DEF MarkPlanFailed
  <2>3. /\ [Remembered EXCEPT !.status = "failed"].status = "failed"
        /\ [Remembered EXCEPT !.status = "failed"].chosen = approval[me.plan]
    BY <2>1 DEF PlanRow
  <2>4. api' = api /\ approval' = approval
    BY DEF MarkPlanFailed, Stay
  <2>5. \A q \in Plan \ {me.plan} : row'[q] = row[q]
    BY <2>2 DEF IInv, TypeOK
  <2>6. row'[me.plan] = [Remembered EXCEPT !.status = "failed"] \/ row' = row
    BY <2>1, <2>2 DEF IInv, TypeOK
  <2> QED
    BY <2>1, <2>2, <2>3, <2>4, <2>5, <2>6 DEF IInv, TypeOK, CopiesFaithful,
        Faithful, requests, shopify
<1>5. ApprovesReviewed'
  <2>1. /\ me.plan \in Plan /\ Remembered \in PlanRow
        /\ Remembered.status # "review" /\ Remembered.chosen = approval[me.plan]
        /\ approval[me.plan] # Absent /\ row[me.plan] # Absent
    BY RememberedFaithful
  <2>2. [Remembered EXCEPT !.status = "failed"] # Absent
    BY <2>1, PresentRecords DEF PlanRow, PlanStatus
  <2>3. row' = [row EXCEPT ![me.plan] = [Remembered EXCEPT !.status = "failed"]] \/ row' = row
    BY DEF MarkPlanFailed
  <2>4. UNCHANGED <<approving, approval>>
    BY DEF MarkPlanFailed, Stay, requests
  <2> QED
    BY <2>1, <2>2, <2>3, <2>4 DEF IInv, TypeOK, ApprovesReviewed, Pending, requests,
        shopify
<1>6. ExecutesApproved'
  BY DEF IInv, ExecutesApproved, TypeOK, MarkPlanFailed, me, At, Stay, Executor,
      Executing, Process, IdleProc, GoTo
<1>7. ResultsEarned'
  BY DEF IInv, ResultsEarned, TypeOK, MarkPlanFailed, me, At, Stay, Executor, Process,
     IdleProc,
      shopify, GoTo
<1> QED
  BY <1>1, <1>2, <1>3, <1>4, <1>5, <1>6, <1>7 DEF IInv

-----------------------------------------------------------------------------
(* The invariant.                                                          *)

\* No plan, no job, nothing executed and nothing sent.
LEMMA InitInv == Init => IInv
<1> SUFFICES ASSUME Init PROVE IInv
  OBVIOUS
<1>1. TypeOK
  <2>1. draft \in DraftRow /\ left \in [Kind -> Nat]
    BY BudgetAssumption DEF Init, DraftRow, SubmitStatus
  <2>2. proc \in [Executor -> Process]
    BY ProcessForms DEF Init
  <2>3. stock \in [Item -> Quantity]
    BY CountAssumption DEF Init, Quantity
  <2> QED
    BY <2>1, <2>2, <2>3 DEF Init, TypeOK, NoPlan
<1>2. RowsKnown /\ CopiesFaithful /\ ApprovesReviewed /\ JobsApproved /\ SentApproved
  BY DEF Init, RowsKnown, CopiesFaithful, Faithful, ApprovesReviewed, JobsApproved, SentApproved
<1>3. ExecutesApproved /\ ResultsEarned
  BY DEF Init, ExecutesApproved, ResultsEarned, Executor, Executing, IdleProc
<1> QED
  BY <1>1, <1>2, <1>3 DEF IInv

\* Nothing the invariant speaks of changes while nothing happens.
LEMMA StutterKeeps ==
  ASSUME IInv, UNCHANGED vars
  PROVE  IInv'
<1>1. TypeOK'
  BY DEF IInv, TypeOK, vars, requests, shopify
<1>2. RowsKnown' /\ CopiesFaithful' /\ ApprovesReviewed' /\ JobsApproved' /\ SentApproved'
  BY DEF IInv, RowsKnown, CopiesFaithful, Faithful, ApprovesReviewed, JobsApproved,
      SentApproved, vars, requests, shopify
<1>3. ExecutesApproved' /\ ResultsEarned'
  BY DEF IInv, ExecutesApproved, ResultsEarned, vars, shopify
<1> QED
  BY <1>1, <1>2, <1>3 DEF IInv

\* Each step of whoever submits keeps the invariant.
LEMMA SubmitKeeps ==
  ASSUME IInv, NEW x \in Executor, Submit(x)
  PROVE  IInv'
  BY StartBulkKeeps, SendFailsKeeps, CollectResultsKeeps, GiveUpKeeps DEF Submit

\* Each step keeps the invariant.
LEMMA NextKeeps ==
  ASSUME IInv, Next
  PROVE  IInv'
<1>1. ASSUME ApiStep PROVE IInv'
  BY <1>1, UpdateDraftKeeps, StartPlanKeeps, ResolvePlanKeeps, SavePlanKeeps, PlanFailsKeeps,
     PatchSelectionKeeps, RefuseSelectionKeeps, StartApprovalKeeps, EnqueueSubmitKeeps,
     SubmitInlineKeeps, FinishApprovalKeeps, ApprovalFailsKeeps, TrackSubmitKeeps,
     RestartApiKeeps
  DEF ApiStep
<1>2. ASSUME WorkerStep PROVE IInv'
  BY <1>2, TakeJobKeeps, CheckPlanKeeps, BeginExecutionKeeps, ExpectInventoryKeeps,
     InventoryStaleKeeps, NoTokenKeeps, ReadDraftKeeps, MarkRunningKeeps, SubmitKeeps,
     StockNextKeeps, SaveOutcomeKeeps, ReportSuccessKeeps, ReportFailureKeeps,
     FinishJobKeeps, MarkPlanFailedKeeps, MarkDraftFailedKeeps, BuryJobKeeps
  DEF WorkerStep, Executor
<1> QED
  BY <1>1, <1>2, SubmitKeeps, WorkerDiesKeeps, ShopifyWritesKeeps, ShopifyRefusesKeeps,
     SaleKeeps
  DEF Next, Executor

\* The invariant of the execution of plans holds, however many plans and products there
\* are, and whatever is edited, sold, refused or crashes.
THEOREM Inductive == Spec => []IInv
<1>1. IInv /\ [Next]_vars => IInv'
  BY NextKeeps, StutterKeeps
<1> QED
  BY <1>1, InitInv, PTL DEF Spec

\* Every variable keeps its type: the stock is always what some sale left, or what a
\* plan approved.
THEOREM TypeCorrect == Spec => []TypeOK
<1>1. IInv => TypeOK
  BY DEF IInv
<1> QED
  BY <1>1, Inductive, PTL

-----------------------------------------------------------------------------
(* The refinement.                                                         *)

\* A row that is saved as completed adds its plan to those completed, another takes it
\* away.
LEMMA RowSaved ==
  ASSUME TypeOK, NEW p \in Plan, NEW r \in PlanRow, row' = [row EXCEPT ![p] = r]
  PROVE  InStatus("completed")' = IF r.status = "completed" THEN InStatus("completed") \cup {p}
                                  ELSE InStatus("completed") \ {p}
<1>1. row'[p] = r /\ r # Absent /\ \A q \in Plan \ {p} : row'[q] = row[q]
  BY PresentRecords DEF TypeOK
<1> QED
  BY <1>1 DEF InStatus

\* Saving a row that is not completed is, to the merchant, to forget.
LEMMA Forgets ==
  ASSUME TypeOK, NEW p \in Plan, NEW r \in PlanRow, row' = [row EXCEPT ![p] = r],
         r.status # "completed", UNCHANGED <<approval, written, stocked>>
  PROVE  Published!Next
<1>1. InStatus("completed")' = InStatus("completed") \ {p}
  BY RowSaved
<1> QED
  BY <1>1 DEF Published!Next, Published!Forget

\* A step that saves no row, and writes and stocks nothing, shows nothing.
LEMMA Quiet ==
  ASSUME UNCHANGED <<row, approval, written, stocked>>
  PROVE  UNCHANGED Published!vars
  BY DEF Published!vars, InStatus

\* An edit shows at most that a plan is stale.
LEMMA UpdateDraftShows ==
  ASSUME IInv, UpdateDraft
  PROVE  Published!Next \/ UNCHANGED Published!vars
<1>1. CASE Latest # NoPlan /\ Seen(Latest).status = "approved"
  <2>1. [Seen(Latest) EXCEPT !.status = "stale"] \in PlanRow
    BY <1>1, LatestKnown, SeenFaithful DEF PlanRow, PlanStatus
  <2>2. [Seen(Latest) EXCEPT !.status = "stale"].status = "stale"
    BY <1>1, LatestKnown, SeenFaithful DEF PlanRow
  <2> QED
    BY <1>1, <2>1, <2>2, LatestKnown, Forgets DEF IInv, UpdateDraft, Save, shopify
<1>2. CASE ~(Latest # NoPlan /\ Seen(Latest).status = "approved")
  BY <1>2, Quiet DEF UpdateDraft, shopify
<1> QED
  BY <1>1, <1>2

\* A plan that is saved, or selected from, is under review.
LEMMA ReviewShows ==
  ASSUME IInv, SavePlan \/ \E p \in Plan : PatchSelection(p)
  PROVE  Published!Next
<1>1. CASE SavePlan
  <2>1. PICK p \in Plan, able \in SUBSET Item : Save(p, [status |-> "review", chosen |-> able])
    BY <1>1, SavedPlanIsNew
  <2>2. [status |-> "review", chosen |-> able] \in PlanRow
    BY DEF PlanRow, PlanStatus
  <2> QED
    BY <1>1, <2>1, <2>2, Forgets DEF IInv, SavePlan, Save, shopify
<1>2. ASSUME NEW p \in Plan, PatchSelection(p) PROVE Published!Next
  <2>1. PICK chosen \in SUBSET plan[p].able : Save(p, [Seen(p) EXCEPT !.chosen = chosen])
    BY <1>2 DEF PatchSelection
  <2>2. row[p] # Absent /\ Seen(p).status = "review" /\ chosen \in SUBSET Item
    BY <1>2 DEF IInv, TypeOK, RowsKnown, PatchSelection, Editable, PlanInfo
  <2>3. /\ [Seen(p) EXCEPT !.chosen = chosen] \in PlanRow
        /\ [Seen(p) EXCEPT !.chosen = chosen].status = "review"
    BY <2>2, SeenFaithful DEF PlanRow
  <2> QED
    BY <1>2, <2>1, <2>3, Forgets DEF IInv, PatchSelection, Save, shopify
<1> QED
  BY <1>1, <1>2

\* An approval is the plan's first, of a plan that is not completed.
LEMMA FinishApprovalShows ==
  ASSUME IInv, FinishApproval
  PROVE  Published!Next
<1>1. approving \in Pending /\ approving.plan \in Plan /\ approving.chosen \in SUBSET Item
  BY DEF IInv, TypeOK, FinishApproval, Pending
<1>2. approval[approving.plan] = Absent /\ row[approving.plan].status # "completed"
  BY <1>1 DEF IInv, ApprovesReviewed, CopiesFaithful, Faithful, FinishApproval
<1>3. [status |-> "approved", chosen |-> approving.chosen] \in PlanRow
  BY <1>1 DEF PlanRow, PlanStatus
<1>4. InStatus("completed")' = InStatus("completed")
  <2>1. InStatus("completed")' = InStatus("completed") \ {approving.plan}
    BY <1>1, <1>3, RowSaved DEF IInv, FinishApproval, Save
  <2> QED
    BY <1>2, <2>1 DEF InStatus
<1>5. Published!Approve(approving.plan, approving.chosen)
  BY <1>2, <1>4 DEF FinishApproval, Published!Approve, shopify
<1> QED
  BY <1>1, <1>5 DEF Published!Next

\* Shopify writes a product that was approved.
LEMMA ShopifyWritesShows ==
  ASSUME IInv, ShopifyWrites
  PROVE  Published!Next
<1>1. PICK t \in pending : written' = written \cup {<<t[2], t[3]>>}
  BY DEF ShopifyWrites
<1>2. t[2] \in Plan /\ t[3] \in Item
  BY DEF IInv, TypeOK
<1>3. Published!Write(t[2], t[3])
  BY <1>1 DEF IInv, SentApproved, ShopifyWrites, InStatus, Published!Write
<1> QED
  BY <1>2, <1>3 DEF Published!Next

\* The worker sets the stock of a product only after Shopify wrote it.
LEMMA StockNextShows ==
  ASSUME IInv, StockNext
  PROVE  Published!Next \/ UNCHANGED Published!vars
<1>1. PICK i \in me.chosen, t \in me.chosen :
        \/ UNCHANGED stocked
        \/ me.result[t] = "success" /\ stocked' = stocked \cup {<<me.plan, t, i>>}
  BY NextStocked
<1>2. me.plan \in Plan /\ i \in Item /\ t \in Item
  BY WorkerHasPlan DEF StockNext, At, me, Process
<1>3. UNCHANGED <<row, approval, written>>
  BY DEF StockNext, Stay
<1>4. CASE UNCHANGED stocked
  BY <1>3, <1>4, Quiet
<1>5. CASE me.result[t] = "success" /\ stocked' = stocked \cup {<<me.plan, t, i>>}
  <2>1. <<me.plan, t>> \in written
    BY <1>2, <1>5 DEF IInv, ResultsEarned, StockNext, At, me
  <2>2. Published!Stock(me.plan, t, i)
    BY <1>3, <1>5, <2>1 DEF Published!Stock, InStatus
  <2> QED
    BY <1>2, <2>2 DEF Published!Next
<1> QED
  BY <1>1, <1>4, <1>5

\* An outcome that is completed was earned.
LEMMA SaveOutcomeShows ==
  ASSUME IInv, SaveOutcome
  PROVE  Published!Next
<1>1. me \in Process /\ me.plan \in Plan
  BY WorkerHasPlan DEF SaveOutcome, At, me
<1>2. [status |-> Lifecycle, chosen |-> me.chosen] \in PlanRow
  BY <1>1 DEF Process, PlanRow, PlanStatus, Lifecycle
<1>3. /\ row' = [row EXCEPT ![me.plan] = [status |-> Lifecycle, chosen |-> me.chosen]]
      /\ UNCHANGED <<approval, written, stocked>>
  BY DEF SaveOutcome, Stay, shopify
<1>4. CASE Lifecycle = "completed"
  <2>1. InStatus("completed")' = InStatus("completed") \cup {me.plan}
    BY <1>1, <1>2, <1>3, <1>4, RowSaved DEF IInv
  <2>2. Published!Complete(me.plan)
    BY <1>3, <1>4, <2>1, CompletedEarned DEF Published!Complete
  <2> QED
    BY <1>1, <2>2 DEF Published!Next
<1>5. CASE Lifecycle # "completed"
  BY <1>1, <1>2, <1>3, <1>5, Forgets DEF IInv
<1> QED
  BY <1>4, <1>5

\* The other rows the worker saves are not completed.
LEMMA WorkerSavesShow ==
  ASSUME IInv, BeginExecution \/ InventoryStale \/ MarkPlanFailed
  PROVE  Published!Next \/ UNCHANGED Published!vars
<1>1. UNCHANGED <<approval, written, stocked>>
  BY DEF BeginExecution, InventoryStale, MarkPlanFailed, Stay, shopify
<1>2. CASE BeginExecution \/ InventoryStale
  <2>1. me \in Process /\ me.plan \in Plan
    BY <1>2, WorkerHasPlan DEF BeginExecution, InventoryStale, At, me
  <2>2. PICK status \in {"executing", "stale"} :
          row' = [row EXCEPT ![me.plan] = [status |-> status, chosen |-> me.chosen]]
    BY <1>2 DEF BeginExecution, InventoryStale, SaveStatus
  <2>3. [status |-> status, chosen |-> me.chosen] \in PlanRow
    BY <2>1 DEF Process, PlanRow, PlanStatus
  <2> QED
    BY <1>1, <2>1, <2>2, <2>3, Forgets DEF IInv
<1>3. CASE MarkPlanFailed
  <2>1. me.plan \in Plan /\ Remembered \in PlanRow
    BY <1>3, RememberedFaithful
  <2>2. /\ [Remembered EXCEPT !.status = "failed"] \in PlanRow
        /\ [Remembered EXCEPT !.status = "failed"].status = "failed"
    BY <2>1 DEF PlanRow, PlanStatus
  <2>3. \/ row' = [row EXCEPT ![me.plan] = [Remembered EXCEPT !.status = "failed"]]
        \/ row' = row
    BY <1>3 DEF MarkPlanFailed
  <2> QED
    BY <1>1, <2>1, <2>2, <2>3, Forgets, Quiet DEF IInv
<1> QED
  BY <1>2, <1>3

\* What else happens shows nothing.
LEMMA OthersQuiet ==
  ASSUME \/ StartPlan \/ ResolvePlan \/ PlanFails \/ ApprovalFails \/ TrackSubmit \/ RestartApi
         \/ \E p \in Plan : RefuseSelection(p) \/ StartApproval(p) \/ EnqueueSubmit(p)
                              \/ SubmitInline(p) \/ TakeJob(p)
         \/ \E x \in Executor : Submit(x)
         \/ CheckPlan \/ ExpectInventory \/ NoToken \/ ReadDraft \/ MarkRunning
         \/ ReportSuccess \/ ReportFailure \/ FinishJob \/ MarkDraftFailed \/ BuryJob
         \/ WorkerDies \/ ShopifyRefuses \/ Sale
  PROVE  UNCHANGED Published!vars
<1>1. UNCHANGED <<row, approval, written, stocked>>
  BY DEF StartPlan, ResolvePlan, PlanFails, ApprovalFails, TrackSubmit, RestartApi,
      RefuseSelection, StartApproval, EnqueueSubmit, SubmitInline, TakeJob, Submit, StartBulk,
      SendFails, CollectResults, GiveUp, CheckPlan, ExpectInventory, NoToken, ReadDraft,
      MarkRunning, ReportSuccess, ReportFailure, FinishJob, MarkDraftFailed, BuryJob,
      SaveSubmit, EndJob, WorkerDies, ShopifyRefuses, Sale, Stay, shopify
<1> QED
  BY <1>1, Quiet

\* The promise of the review is kept: the shop changes only as far as a plan was approved,
\* stock is set only on what the same plan wrote, and a plan is completed only when all
\* that was approved has been written and given its own stock.
THEOREM KeepsPromise == Spec => KeepsThePromise
<1>1. Init => Published!Init
  BY DEF Init, Published!Init, InStatus
<1>2. ASSUME IInv, [Next]_vars PROVE [Published!Next]_(Published!vars)
  <2>1. CASE ApiStep
    BY <1>2, <2>1, UpdateDraftShows, ReviewShows, FinishApprovalShows, OthersQuiet
    DEF ApiStep
  <2>2. CASE WorkerStep
    BY <1>2, <2>2, WorkerSavesShow, StockNextShows, SaveOutcomeShows, OthersQuiet
    DEF WorkerStep, Executor
  <2>3. CASE Submit("inline") \/ WorkerDies \/ ShopifyRefuses \/ Sale
    BY <2>3, OthersQuiet DEF Executor
  <2>4. CASE ShopifyWrites
    BY <1>2, <2>4, ShopifyWritesShows
  <2>5. CASE UNCHANGED vars
    BY <2>5, Quiet DEF vars, shopify
  <2> QED
    BY <1>2, <2>1, <2>2, <2>3, <2>4, <2>5 DEF Next
<1> QED
  BY <1>1, <1>2, Inductive, PTL DEF Spec, KeepsThePromise, Published!Spec

-----------------------------------------------------------------------------
(* How submits end.                                                        *)

Open == {"review", "approved", "executing"}
Ending == {"completed", "partially_applied", "failed"}

\* The worker has the job of its plan, and before it ends the job the plan says how
Concludes ==
  me.pc # "idle" =>
    /\ job[me.plan] = "running"
    /\ me.saved \in Ending \/ me.pc \in {"excuse", "excusing", "bury"} =>
         row[me.plan].status \notin Open
    /\ me.pc \in {"report", "reporting", "finish"} => me.saved \in Ending

\* A draft that says a submit is on its way knows one that has not been reported
Told(p) == me.plan = p /\ me.pc \in {"finish", "bury"}
TellsUnderway ==
  ~late /\ draft.submit \in {"queued", "running"} =>
    \E p \in Plan : job[p] = "queued" \/ (job[p] = "running" /\ ~Told(p))

EndInv == EndShows /\ Concludes /\ TellsUnderway

\* A row that says how its plan ended, or is of a plan never approved, ends no submit.
LEMMA RowKeepsEnds ==
  ASSUME IInv, EndShows, Concludes, NEW p \in Plan, NEW r \in PlanRow,
         row' = [row EXCEPT ![p] = r], r.status \notin Open \/ approval[p] = Absent,
         UNCHANGED <<job, proc>>
  PROVE  EndShows' /\ Concludes'
<1>1. row'[p] = r /\ \A q \in Plan \ {p} : row'[q] = row[q]
  BY DEF IInv, TypeOK
<1>2. \A q \in Plan : row'[q] = row[q] \/ row'[q].status \notin Open \/ job[q] = "absent"
  BY <1>1 DEF IInv, JobsApproved
<1>3. me.pc # "idle" => me.plan \in Plan
  BY WorkerHasPlan
<1> QED
  BY <1>2, <1>3 DEF EndShows, Concludes, Open, me

\* An edit of the draft ends no submit.
LEMMA UpdateDraftEnds ==
  ASSUME IInv, EndInv, UpdateDraft
  PROVE  EndInv'
<1>1. EndShows' /\ Concludes'
  <2>1. CASE Latest # NoPlan /\ Seen(Latest).status = "approved"
    <3>1. /\ [Seen(Latest) EXCEPT !.status = "stale"] \in PlanRow
          /\ [Seen(Latest) EXCEPT !.status = "stale"].status = "stale"
      BY <2>1, LatestKnown, SeenFaithful DEF PlanRow, PlanStatus
    <3> QED
      BY <2>1, <3>1, LatestKnown, RowKeepsEnds DEF EndInv, UpdateDraft, Save, Open
  <2>2. CASE ~(Latest # NoPlan /\ Seen(Latest).status = "approved")
    BY <2>2 DEF EndInv, EndShows, Concludes, UpdateDraft, me
  <2> QED
    BY <2>1, <2>2
<1>2. TellsUnderway'
  BY DEF UpdateDraft, TellsUnderway
<1> QED
  BY <1>1, <1>2 DEF EndInv

\* Saving the draft as it is says nothing new of submits.
LEMMA CopyTells ==
  ASSUME TellsUnderway, NEW copy, NEW saved, SaveDraft(copy, saved),
         saved.submit = copy.submit, late \in BOOLEAN, UNCHANGED <<job, proc>>
  PROVE  TellsUnderway'
  BY DEF TellsUnderway, SaveDraft, Told, me

\* Planning and selecting are of plans never approved, and an approval of one that is not
\* yet.
LEMMA ReviewEnds ==
  ASSUME IInv, EndInv, SavePlan \/ FinishApproval \/ \E p \in Plan : PatchSelection(p)
  PROVE  EndInv'
<1>1. CASE SavePlan
  <2>1. PICK p \in Plan, able \in SUBSET Item :
          plan[p] = Absent /\ Save(p, [status |-> "review", chosen |-> able])
    BY <1>1, SavedPlanIsNew
  <2>2. [status |-> "review", chosen |-> able] \in PlanRow
    BY DEF PlanRow, PlanStatus
  <2>3. approval[p] = Absent
    BY <2>1 DEF IInv, RowsKnown
  <2>4. EndShows' /\ Concludes'
    BY <1>1, <2>1, <2>2, <2>3, RowKeepsEnds DEF EndInv, SavePlan, Save
  <2>5. TellsUnderway'
    BY <1>1, CopyTells DEF IInv, TypeOK, EndInv, SavePlan
  <2> QED
    BY <2>4, <2>5 DEF EndInv
<1>2. CASE FinishApproval
  <2>1. approving \in Pending /\ approving.plan \in Plan /\ approval[approving.plan] = Absent
    BY <1>2 DEF IInv, TypeOK, ApprovesReviewed, FinishApproval, Pending
  <2>2. [status |-> "approved", chosen |-> approving.chosen] \in PlanRow
    BY <2>1 DEF Pending, PlanRow, PlanStatus
  <2>3. EndShows' /\ Concludes'
    BY <1>2, <2>1, <2>2, RowKeepsEnds DEF EndInv, FinishApproval, Save
  <2>4. TellsUnderway'
    BY <1>2 DEF EndInv, FinishApproval, TellsUnderway, Told, me
  <2> QED
    BY <2>3, <2>4 DEF EndInv
<1>3. ASSUME NEW p \in Plan, PatchSelection(p) PROVE EndInv'
  <2>1. PICK chosen \in SUBSET plan[p].able : Save(p, [Seen(p) EXCEPT !.chosen = chosen])
    BY <1>3 DEF PatchSelection
  <2>2. row[p] # Absent /\ Seen(p).status = "review" /\ chosen \in SUBSET Item
    BY <1>3 DEF IInv, TypeOK, RowsKnown, PatchSelection, Editable, PlanInfo
  <2>3. [Seen(p) EXCEPT !.chosen = chosen] \in PlanRow /\ approval[p] = Absent
    BY <2>2, SeenFaithful DEF PlanRow, Faithful
  <2>4. EndShows' /\ Concludes'
    BY <1>3, <2>1, <2>3, RowKeepsEnds DEF EndInv, PatchSelection, Save
  <2>5. TellsUnderway'
    BY <1>3 DEF EndInv, PatchSelection, TellsUnderway, Told, me
  <2> QED
    BY <2>4, <2>5 DEF EndInv
<1> QED
  BY <1>1, <1>2, <1>3

\* A plan that is being corrected saves the draft it read.
LEMMA ResolvePlanEnds ==
  ASSUME IInv, EndInv, ResolvePlan
  PROVE  EndInv'
<1>1. creating \in Creation
  BY DEF IInv, TypeOK, ResolvePlan
<1>2. PICK saved \in {creating.seen, Corrected(creating.seen)} : SaveDraft(creating.seen, saved)
  BY DEF ResolvePlan
<1>3. saved.submit = creating.seen.submit
  BY <1>1 DEF Creation, DraftRow, Corrected
<1>4. TellsUnderway'
  BY <1>2, <1>3, CopyTells DEF IInv, TypeOK, EndInv, ResolvePlan
<1>5. EndShows' /\ Concludes'
  BY DEF EndInv, EndShows, Concludes, ResolvePlan, me
<1> QED
  BY <1>4, <1>5 DEF EndInv

\* A submit is told to the draft while its job is queued, or too late.
LEMMA SubmitsEnd ==
  ASSUME IInv, EndInv, TrackSubmit \/ \E p \in Plan : EnqueueSubmit(p)
  PROVE  EndInv'
<1>1. CASE TrackSubmit
  <2>1. tracking \in Plan
    BY <1>1 DEF IInv, TypeOK, TrackSubmit
  <2>2. TellsUnderway'
    BY <1>1, <2>1 DEF IInv, TypeOK, TrackSubmit, TellsUnderway, Told, me
  <2>3. EndShows' /\ Concludes'
    BY <1>1 DEF EndInv, EndShows, Concludes, TrackSubmit, me
  <2> QED
    BY <2>2, <2>3 DEF EndInv
<1>2. ASSUME NEW p \in Plan, EnqueueSubmit(p) PROVE EndInv'
  <2>1. job[p] = "absent" /\ job'[p] = "queued" /\ \A q \in Plan \ {p} : job'[q] = job[q]
    BY <1>2 DEF IInv, TypeOK, EnqueueSubmit, Submittable
  <2>2. UNCHANGED <<draft, late, row, proc>>
    BY <1>2 DEF EnqueueSubmit
  <2>3. me.pc # "idle" => me.plan \in Plan
    BY WorkerHasPlan
  <2> QED
    BY <2>1, <2>2, <2>3 DEF EndInv, EndShows, Concludes, TellsUnderway, Told, Open, me
<1> QED
  BY <1>1, <1>2

\* What changes neither rows nor jobs nor the draft, nor the worker, ends nothing.
LEMMA OutsideEnds ==
  ASSUME EndInv, UNCHANGED <<draft, late, row, job>>, proc'["queue"] = proc["queue"]
  PROVE  EndInv'
  BY DEF EndInv, EndShows, Concludes, TellsUnderway, Told, me

\* What else happens beside the worker ends nothing.
LEMMA OthersEnd ==
  ASSUME IInv, EndInv,
         \/ StartPlan \/ PlanFails \/ ApprovalFails \/ RestartApi \/ Submit("inline")
         \/ \E p \in Plan : RefuseSelection(p) \/ StartApproval(p) \/ SubmitInline(p)
         \/ ShopifyWrites \/ ShopifyRefuses \/ Sale \/ UNCHANGED vars
  PROVE  EndInv'
<1>1. UNCHANGED <<draft, late, row, job>>
  BY DEF StartPlan, PlanFails, ApprovalFails, RestartApi, Submit, StartBulk, SendFails,
      CollectResults, GiveUp, RefuseSelection, StartApproval, SubmitInline, ShopifyWrites,
      ShopifyRefuses, Sale, vars, shopify
<1>2. proc'["queue"] = proc["queue"]
  <2>1. proc \in [Executor -> Process]
    BY DEF IInv, TypeOK
  <2>2. CASE RestartApi \/ \E p \in Plan : SubmitInline(p)
    BY <2>1, <2>2 DEF RestartApi, SubmitInline, Executor
  <2>3. CASE Submit("inline")
    BY <2>1, <2>3 DEF Submit, StartBulk, SendFails, CollectResults, GiveUp, Sent, Executor
  <2> QED
    BY <2>2, <2>3 DEF StartPlan, PlanFails, ApprovalFails, RefuseSelection, StartApproval,
        ShopifyWrites, ShopifyRefuses, Sale, vars
<1> QED
  BY <1>1, <1>2, OutsideEnds

\* The worker goes on with its job, and has not ended it.
LEMMA GoingOn ==
  ASSUME EndInv, me.pc # "idle", UNCHANGED <<draft, late, row, job>>,
         me'.plan = me.plan, me'.saved = me.saved, me'.pc \notin {"finish", "bury"},
         me'.pc \in {"excuse", "excusing"} => me.pc \in {"excuse", "excusing"},
         me'.pc \in {"report", "reporting"} => me.pc \in {"report", "reporting"}
  PROVE  EndInv'
<1>1. EndShows' /\ Concludes'
  BY DEF EndInv, EndShows, Concludes
<1>2. TellsUnderway'
  BY DEF EndInv, TellsUnderway, Told
<1> QED
  BY <1>1, <1>2 DEF EndInv

\* The steps in which the worker only goes on.
LEMMA WorkerGoesOnEnds ==
  ASSUME IInv, EndInv,
         CheckPlan \/ ExpectInventory \/ NoToken \/ ReadDraft \/ Submit("queue") \/ StockNext
  PROVE  EndInv'
<1>1. /\ me \in Process /\ me = proc["queue"] /\ me' = proc'["queue"]
      /\ proc \in [Executor -> Process] /\ "queue" \in Executor
  BY DEF IInv, TypeOK, me, Executor
<1>2. me'.plan = me.plan /\ me'.saved = me.saved
  <2>1. CASE CheckPlan
    BY <1>1, <2>1 DEF CheckPlan, Process
  <2>2. CASE ExpectInventory \/ NoToken \/ ReadDraft
    BY <1>1, <2>2 DEF ExpectInventory, NoToken, ReadDraft, GoTo, Process
  <2>3. CASE Submit("queue")
    BY <1>1, <2>3 DEF Submit, StartBulk, SendFails, CollectResults, GiveUp, Sent, Process, me
  <2>4. CASE StockNext
    <3>1. PICK i, result :
            proc' = [proc EXCEPT !["queue"] =
                       [me EXCEPT !.done = me.done \cup {i}, !.result = result]]
      BY <2>4, NextStocked
    <3> QED
      BY <1>1, <3>1 DEF Process
  <2> QED
    BY <2>1, <2>2, <2>3, <2>4
<1>3. \/ me.pc = "check" /\ me'.pc \in {"begin", "fail"}
      \/ me.pc = "expect" /\ me'.pc \in {"mark", "fail"}
      \/ me.pc = "mark" /\ me'.pc = "marking"
      \/ me.pc = "report" /\ me'.pc = "reporting"
      \/ me.pc = "excuse" /\ me'.pc = "excusing"
      \/ me.pc \in {"send", "wait"} /\ me'.pc \in {"wait", "stock"}
      \/ me.pc = "stock" /\ me'.pc = "stock"
  <2>1. CASE CheckPlan
    BY <1>1, <2>1 DEF CheckPlan, At, Process
  <2>2. CASE ExpectInventory \/ NoToken
    BY <1>1, <2>2 DEF ExpectInventory, NoToken, GoTo, At, Process
  <2>3. CASE ReadDraft
    BY <1>1, <2>3, ReadsForms DEF ReadDraft, Process, me
  <2>4. CASE Submit("queue")
    BY <1>1, <2>4
    DEF Submit, StartBulk, SendFails, CollectResults, GiveUp, Sent, At, Process, me
  <2>5. CASE StockNext
    <3>1. PICK i, result :
            proc' = [proc EXCEPT !["queue"] =
                       [me EXCEPT !.done = me.done \cup {i}, !.result = result]]
      BY <2>5, NextStocked
    <3>2. me.pc = "stock"
      BY <1>1, <2>5 DEF StockNext, At
    <3> QED
      BY <1>1, <3>1, <3>2 DEF Process
  <2> QED
    BY <2>1, <2>2, <2>3, <2>4, <2>5
<1>4. UNCHANGED <<draft, late, row, job>>
  BY DEF CheckPlan, ExpectInventory, NoToken, ReadDraft, Submit, StartBulk, SendFails,
      CollectResults, GiveUp, StockNext
<1> QED
  BY <1>2, <1>3, <1>4, GoingOn

\* A job that is taken is running.
LEMMA TakeJobEnds ==
  ASSUME IInv, EndInv, NEW p \in Plan, TakeJob(p)
  PROVE  EndInv'
<1>1. me'.pc = "check" /\ me'.plan = p /\ me'.saved = "review" /\ me.pc = "idle"
  BY DEF IInv, TypeOK, TakeJob, At, me, Executor, IdleProc
<1>2. job[p] = "queued" /\ job'[p] = "running" /\ \A q \in Plan \ {p} : job'[q] = job[q]
  BY DEF IInv, TypeOK, TakeJob
<1>3. UNCHANGED <<draft, late, row>>
  BY DEF TakeJob
<1>4. EndShows' /\ Concludes'
  BY <1>1, <1>2, <1>3 DEF EndInv, EndShows, Concludes, Ending
<1>5. TellsUnderway'
  <2>1. \A q \in Plan : job[q] = "running" => job'[q] = "running" /\ ~Told(q)'
    BY <1>1, <1>2 DEF Told
  <2>2. job'[p] = "running" /\ ~Told(p)'
    BY <1>1, <1>2 DEF Told
  <2> QED
    BY <1>2, <1>3, <2>1, <2>2 DEF EndInv, TellsUnderway
<1> QED
  BY <1>4, <1>5 DEF EndInv

\* The worker saves the row of a plan whose job it has.
LEMMA SavesEnd ==
  ASSUME IInv, EndInv, BeginExecution \/ InventoryStale \/ SaveOutcome \/ MarkPlanFailed
  PROVE  EndInv'
<1>1. me \in Process /\ me.plan \in Plan /\ me.pc \in {"begin", "expect", "stock", "fail"}
  BY WorkerHasPlan DEF BeginExecution, InventoryStale, SaveOutcome, MarkPlanFailed, At, me
<1>2. job[me.plan] = "running"
  BY <1>1 DEF EndInv, Concludes
<1>3. UNCHANGED <<draft, late, job>>
  BY DEF BeginExecution, InventoryStale, SaveOutcome, MarkPlanFailed
<1>4. \A q \in Plan \ {me.plan} : row'[q] = row[q]
  <2>1. row' = row \/ \E r : row' = [row EXCEPT ![me.plan] = r]
    BY DEF BeginExecution, InventoryStale, SaveStatus, SaveOutcome, MarkPlanFailed
  <2> QED
    BY <1>1, <2>1 DEF IInv, TypeOK
<1>5. me'.plan = me.plan /\ me'.pc \in {"expect", "fail", "report", "excuse"}
  <2>1. /\ me \in Process /\ me = proc["queue"] /\ me' = proc'["queue"]
        /\ proc \in [Executor -> Process] /\ "queue" \in Executor
    BY DEF IInv, TypeOK, me, Executor
  <2>2. CASE SaveOutcome
    BY <2>1, <2>2 DEF SaveOutcome, IdleProc
  <2>3. CASE BeginExecution \/ InventoryStale \/ MarkPlanFailed
    BY <2>1, <2>3 DEF BeginExecution, InventoryStale, SaveStatus, MarkPlanFailed, GoTo, Process
  <2> QED
    BY <2>2, <2>3
<1>6. EndShows'
  BY <1>2, <1>3, <1>4 DEF EndInv, EndShows
<1>7. TellsUnderway'
  BY <1>1, <1>3, <1>5 DEF EndInv, TellsUnderway, Told
<1>8. Concludes'
  <2>1. CASE BeginExecution \/ InventoryStale
    <3>1. me'.saved \in {"executing", "stale"} /\ me'.pc \in {"expect", "fail"}
      BY <2>1 DEF IInv, TypeOK, BeginExecution, InventoryStale, SaveStatus, me, Executor, Process
    <3> QED
      BY <1>2, <1>3, <1>5, <3>1 DEF Concludes, Ending
  <2>2. CASE SaveOutcome
    <3>1. me'.saved = Lifecycle /\ row'[me.plan].status = Lifecycle /\ Lifecycle \in Ending
      BY <1>1, <2>2
      DEF IInv, TypeOK, SaveOutcome, me, Executor, IdleProc, Lifecycle, Ending
    <3> QED
      BY <1>2, <1>3, <1>5, <3>1 DEF Concludes, Ending, Open
  <2>3. CASE MarkPlanFailed
    <3>1. me'.pc = "excuse"
      BY <2>3 DEF IInv, TypeOK, MarkPlanFailed, GoTo, me, Executor, Process
    <3>2. row'[me.plan].status \notin Open
      <4>1. CASE Unfinished
        BY <1>1, <2>3, <4>1, RememberedFaithful
        DEF IInv, TypeOK, MarkPlanFailed, PlanRow, Open
      <4>2. CASE ~Unfinished
        BY <1>1, <2>3, <4>2
        DEF EndInv, Concludes, MarkPlanFailed, Unfinished, Remembered, Open, Ending
      <4> QED
        BY <4>1, <4>2
    <3> QED
      BY <1>2, <1>3, <1>5, <3>1, <3>2 DEF Concludes
  <2> QED
    BY <2>1, <2>2, <2>3
<1> QED
  BY <1>6, <1>7, <1>8 DEF EndInv

\* What the worker tells the draft is what becomes of its job.
LEMMA TellingEnds ==
  ASSUME IInv, EndInv, MarkRunning \/ ReportSuccess \/ ReportFailure \/ MarkDraftFailed
  PROVE  EndInv'
<1>1. me \in Process /\ me.plan \in Plan /\ me.pc \in {"marking", "reporting", "excusing"}
  BY WorkerHasPlan DEF MarkRunning, ReportSuccess, ReportFailure, MarkDraftFailed, At, me
<1>2. job[me.plan] = "running" /\ UNCHANGED <<row, job>>
  BY <1>1 DEF EndInv, Concludes, MarkRunning, ReportSuccess, ReportFailure, MarkDraftFailed,
      SaveSubmit
<1>3. /\ me'.plan = me.plan /\ me'.saved = me.saved
      /\ \/ me.pc = "marking" /\ me'.pc = "send" /\ draft'.submit = "running"
         \/ me.pc = "reporting" /\ me'.pc = "finish" /\ draft'.submit = "succeeded"
         \/ me.pc = "reporting" /\ me'.pc = "fail" /\ draft'.submit = "failed"
         \/ me.pc = "excusing" /\ me'.pc = "bury" /\ draft'.submit = "failed"
  BY <1>1 DEF IInv, TypeOK, MarkRunning, ReportSuccess, ReportFailure, MarkDraftFailed,
      SaveSubmit, SaveDraft, At, me, Executor, Process, DraftRow
<1>4. EndShows' /\ Concludes'
  BY <1>2, <1>3 DEF EndInv, EndShows, Concludes
<1>5. TellsUnderway'
  BY <1>1, <1>2, <1>3 DEF TellsUnderway, Told
<1> QED
  BY <1>4, <1>5 DEF EndInv

\* The end of a job: its plan says how, and the draft tells of it no more.
LEMMA JobsEnd ==
  ASSUME IInv, EndInv, FinishJob \/ BuryJob
  PROVE  EndInv'
<1>1. me.plan \in Plan /\ me.pc \in {"finish", "bury"}
  BY WorkerHasPlan DEF FinishJob, BuryJob, At, me
<1>2. row[me.plan].status \notin Open
  BY <1>1 DEF EndInv, Concludes
<1>3. UNCHANGED <<draft, late, row>> /\ \A q \in Plan \ {me.plan} : job'[q] = job[q]
  BY DEF IInv, TypeOK, FinishJob, BuryJob, EndJob
<1>4. me'.pc = "idle"
  BY DEF IInv, TypeOK, FinishJob, BuryJob, EndJob, me, Executor, IdleProc
<1>5. EndShows' /\ Concludes'
  BY <1>1, <1>2, <1>3, <1>4 DEF EndInv, EndShows, Concludes, Open
<1>6. TellsUnderway'
  <2>1. job[me.plan] = "running"
    BY <1>1 DEF EndInv, Concludes
  <2> QED
    BY <1>1, <1>3, <1>4, <2>1 DEF EndInv, TellsUnderway, Told
<1> QED
  BY <1>5, <1>6 DEF EndInv

\* A job whose worker dies stays running.
LEMMA DyingEnds ==
  ASSUME IInv, EndInv, WorkerDies
  PROVE  EndInv'
<1>1. me'.pc = "idle"
  BY DEF IInv, TypeOK, WorkerDies, me, Executor, IdleProc
<1>2. UNCHANGED <<draft, late, row, job>>
  BY DEF WorkerDies
<1> QED
  BY <1>1, <1>2 DEF EndInv, EndShows, Concludes, TellsUnderway, Told

\* How submits end is an invariant.
LEMMA EndsKept ==
  ASSUME IInv, EndInv, [Next]_vars
  PROVE  EndInv'
<1>1. CASE ApiStep
  BY <1>1, UpdateDraftEnds, ReviewEnds, ResolvePlanEnds, SubmitsEnd, OthersEnd DEF ApiStep
<1>2. CASE WorkerStep
  BY <1>2, WorkerGoesOnEnds, TakeJobEnds, SavesEnd, TellingEnds, JobsEnd DEF WorkerStep
<1>3. CASE WorkerDies
  BY <1>3, DyingEnds
<1>4. CASE Submit("inline") \/ ShopifyWrites \/ ShopifyRefuses \/ Sale \/ UNCHANGED vars
  BY <1>4, OthersEnd
<1> QED
  BY <1>1, <1>2, <1>3, <1>4 DEF Next

\* How submits end holds for any number of plans, products and disturbances.
THEOREM EndsInductive == Spec => []EndInv
<1>1. Init => EndInv
  BY DEF Init, EndInv, EndShows, Concludes, TellsUnderway, me, Executor, IdleProc
<1>2. IInv /\ EndInv /\ [Next]_vars => EndInv'
  BY EndsKept
<1> QED
  BY <1>1, <1>2, Inductive, PTL DEF Spec

\* A submit that ended leaves a plan that says so: it cannot be edited, approved or
\* submitted again, and is not taken for one that is going on.
THEOREM EndsAreShown == Spec => []EndShows
<1>1. EndInv => EndShows
  BY DEF EndInv
<1> QED
  BY <1>1, EndsInductive, PTL

\* When no submit is on its way the draft does not say that one is, unless an old copy of
\* it was saved.
THEOREM DraftIsTold == Spec => []DraftTellsOutcome
<1>1. EndInv => DraftTellsOutcome
  BY DEF EndInv, TellsUnderway, DraftTellsOutcome, Underway
<1> QED
  BY <1>1, EndsInductive, PTL

\* Stock is set only where it still is what the plan showed: no sale since is undone.
THEOREM SalesAreKept == Spec => NoSaleUndone
<1> DEFINE Kept ==
      \A i \in Item : stock'[i] # stock[i] /\ stock'[i][1] # 0 =>
        stock[i] \in {plan[stock'[i][1]].shown[j] : j \in Item}
<1>1. ASSUME IInv, [Next]_vars PROVE [Kept]_vars
  <2>1. CASE StockNext
    <3>1. PICK i \in me.chosen, t \in me.chosen :
            \/ stock' = stock
            \/ Unsold(i, t) /\ stock' = [stock EXCEPT ![t] = <<me.plan, i>>]
      BY <1>1, <2>1, NextStocked
    <3>2. i \in Item /\ t \in Item /\ stock \in [Item -> Quantity]
      BY <1>1 DEF IInv, TypeOK, me, Executor, Process
    <3> QED
      BY <3>1, <3>2 DEF Unsold
  <2>2. CASE Sale
    BY <1>1, <2>2 DEF IInv, TypeOK, Sale
  <2>3. CASE stock' = stock
    BY <2>3
  <2>4. StockNext \/ Sale \/ stock' = stock
    BY <1>1
    DEF Next, ApiStep, WorkerStep, Submit, vars, UpdateDraft, StartPlan, ResolvePlan,
        SavePlan, PlanFails, PatchSelection, RefuseSelection, StartApproval, EnqueueSubmit,
        SubmitInline, FinishApproval, ApprovalFails, TrackSubmit, RestartApi, StartBulk,
        SendFails, CollectResults, GiveUp, TakeJob, CheckPlan, BeginExecution,
        ExpectInventory, InventoryStale, NoToken, ReadDraft, MarkRunning, SaveOutcome,
        ReportSuccess, ReportFailure, FinishJob, MarkPlanFailed, MarkDraftFailed, BuryJob,
        SaveSubmit, EndJob, WorkerDies, ShopifyWrites, ShopifyRefuses, shopify
  <2> QED
    BY <2>1, <2>2, <2>3, <2>4
<1> QED
  BY <1>1, Inductive, PTL DEF Spec, NoSaleUndone
=============================================================================
