-------------------------- MODULE SuggestionsProofs --------------------------
(***************************************************************************)
(* The properties of Suggestions, for any number of requests, suggestions  *)
(* and audits, any proposals and whatever may happen to them.              *)
(***************************************************************************)
EXTENDS Suggestions, TLAPS, FiniteSetTheorems, SequenceTheorems

Coroutine == [op : Operation, pc : Place, sug : Sug \cup Audit \cup {0},
              asked : SUBSET Field, patch : Patch, rest : Patch, seen : Patch,
              todo : SUBSET (1..3), made : SUBSET Sug, tries : 0..2, queue : Seq(Sug)]

\* TypeOK, with the sets in place of the predicates that TLC can evaluate
Types ==
  /\ live \in [Field -> Value]
  /\ row \in [Sug -> Suggestion \cup {Absent}] /\ cache \in [Sug -> Suggestion \cup {Absent}]
  /\ audit \in [Audit -> AuditRow \cup {Absent}]
  /\ req \in [Request -> Coroutine] /\ turn \in Request \cup {Nobody}
  /\ offered \in [Sug -> SUBSET Field] /\ before \in [Sug -> Patch]
  /\ muddled \subseteq Sug /\ late \subseteq Sug /\ torn \in BOOLEAN
  /\ left \in [{"asks", "edits", "faults", "crashes"} -> Nat]

\* Where a request may be, and what it is about
Places(q) ==
  /\ q.op = "none" => q.pc = "idle"
  /\ q.op = "apply" => q.pc \in {"review", "load", "read", "write", "record", "rest"}
  /\ q.op = "revert" => q.pc \in {"check", "write", "record", "reopen"}
  /\ q.op = "regenerate" => q.pc \in {"generate", "carry", "supersede", "undo"}
  /\ q.op = "audit" => q.pc \in {"generate", "children", "withdraw", "finish", "error"}

MidTurn == {"load", "rest", "reopen", "carry", "supersede", "undo",
            "children", "withdraw", "finish", "error"}

About(q) ==
  /\ q.op \in {"apply", "revert", "regenerate"} => q.sug \in Sug /\ Known(q.sug)
  /\ q.op = "audit" => q.sug \in Audit
  /\ \A i \in 1..Len(q.queue) : Known(q.queue[i])
  /\ q.made # {} => q.op = "regenerate" /\ q.pc \in MidTurn
  /\ q.op = "revert" =>
       /\ \A f \in DOMAIN q.patch : q.seen[f] = q.patch[f]
       /\ DOMAIN q.rest \subseteq DOMAIN q.patch
       /\ q.pc = "write" => q.todo # {}
  /\ q.op \in {"apply", "revert"} /\ q.pc \in {"write", "record"} => DOMAIN q.seen = Field

Located ==
  \A r \in Request : /\ Places(req[r]) /\ About(req[r])
                     /\ req[r].pc \in MidTurn <=> turn = r

-----------------------------------------------------------------------------
(* Values, patches and rows.                                               *)

\* What a patch is.
LEMMA PatchIs ==
  ASSUME NEW p
  PROVE  p \in Patch <=> \E fields \in SUBSET Field : p \in [fields -> Value]
  BY DEF Patch

\* A patch has fields, and values for them.
LEMMA PatchFacts ==
  ASSUME NEW p \in Patch
  PROVE  /\ DOMAIN p \subseteq Field /\ p = [f \in DOMAIN p |-> p[f]]
         /\ \A f \in DOMAIN p : p[f] \in Value
  BY PatchIs

\* Values of fields are a patch.
LEMMA PatchFrom ==
  ASSUME NEW fields \in SUBSET Field, NEW p \in [fields -> Value]
  PROVE  p \in Patch
  BY PatchIs

\* Nothing is a patch.
LEMMA NoPatch == <<>> \in Patch /\ DOMAIN <<>> = {}
<1>1. DOMAIN <<>> = {}
  OBVIOUS
<1>2. <<>> \in [{} -> Value]
  OBVIOUS
<1> QED
  BY Zenon, <1>1, <1>2, PatchFrom

\* A part of a patch.
LEMMA RestrictPatch ==
  ASSUME NEW p \in Patch, NEW fields \in SUBSET DOMAIN p
  PROVE  /\ Restrict(p, fields) \in Patch /\ DOMAIN Restrict(p, fields) = fields
         /\ \A f \in fields : Restrict(p, fields)[f] = p[f]
<1>1. Restrict(p, fields) = [f \in fields |-> p[f]]
  BY DEF Restrict
<1>2. [f \in fields |-> p[f]] \in [fields -> Value]
  BY PatchFacts
<1> QED
  BY <1>1, <1>2, PatchFacts, PatchFrom

\* One patch over another.
LEMMA OverPatch ==
  ASSUME NEW p \in Patch, NEW q \in Patch
  PROVE  /\ Over(p, q) \in Patch /\ DOMAIN Over(p, q) = DOMAIN p \cup DOMAIN q
         /\ \A f \in DOMAIN p : Over(p, q)[f] = p[f]
         /\ \A f \in DOMAIN q \ DOMAIN p : Over(p, q)[f] = q[f]
<1>1. Over(p, q) = [f \in DOMAIN p \cup DOMAIN q |-> IF f \in DOMAIN p THEN p[f] ELSE q[f]]
  BY DEF Over
<1>2. Over(p, q) \in [DOMAIN p \cup DOMAIN q -> Value]
  BY <1>1, PatchFacts
<1> QED
  BY <1>1, <1>2, PatchFacts, PatchFrom

\* A row has its fields.
LEMMA RowFields ==
  ASSUME NEW x \in Suggestion
  PROVE  /\ x # Absent /\ x.status \in Status /\ x.patch \in Patch
         /\ x.previous \in Patch \cup {Absent} /\ x.root \in Sug /\ x.audit \in Audit
         /\ x.reopens \in Sug \cup {0} /\ x.by \in Audit \cup {0}
  BY AbsentAssumption DEF Suggestion

\* No patch is absent.
LEMMA AbsentIsNoPatch == Absent \notin Patch
  BY PatchIs, AbsentAssumption

\* A row that becomes another status.
LEMMA StatusEdited ==
  ASSUME NEW x \in Suggestion, NEW status \in Status
  PROVE  LET y == [x EXCEPT !.status = status]
         IN  /\ y \in Suggestion /\ y.status = status
             /\ y.patch = x.patch /\ y.previous = x.previous /\ y.root = x.root
             /\ y.audit = x.audit /\ y.reopens = x.reopens /\ y.by = x.by
  BY DEF Suggestion

\* A row that is marked applied, with or without what the shop held.
LEMMA AppliedEdited ==
  ASSUME NEW x \in Suggestion, NEW patch \in Patch, NEW previous \in Patch
  PROVE  LET y == [x EXCEPT !.status = "applied", !.patch = patch]
             z == [y EXCEPT !.previous = previous]
         IN  /\ y \in Suggestion /\ y.status = "applied" /\ y.patch = patch
             /\ y.previous = x.previous /\ y.root = x.root /\ y.audit = x.audit
             /\ y.reopens = x.reopens /\ y.by = x.by
             /\ z \in Suggestion /\ z.status = "applied" /\ z.patch = patch
             /\ z.previous = previous /\ z.root = x.root /\ z.audit = x.audit
             /\ z.reopens = x.reopens /\ z.by = x.by
  BY Zenon DEF Suggestion, Status

\* The pending suggestion that is made of another.
LEMMA ChildRow ==
  ASSUME Types, NEW s \in Sug, Known(s), NEW patch \in Patch
  PROVE  /\ Get(s) \in Suggestion
         /\ Child(s, patch) \in Suggestion /\ Child(s, patch).status = "pending"
         /\ Child(s, patch).patch = patch /\ Child(s, patch).previous = Absent
         /\ Child(s, patch).root = Get(s).root /\ Child(s, patch).audit = Get(s).audit
         /\ Child(s, patch).reopens = 0 /\ Child(s, patch).by = 0
<1>1. Get(s) \in Suggestion
  BY DEF Types, Get, Known
<1> QED
  BY Zenon, <1>1 DEF Child, Suggestion, Status

-----------------------------------------------------------------------------
(* Requests.                                                               *)

\* What is in a table or the cache stays there
Stays ==
  \A s \in Sug : /\ row[s] # Absent => row'[s] # Absent
                 /\ cache[s] # Absent => cache'[s] # Absent

\* The request r goes on as new
Moves(r, new) ==
  /\ new \in Coroutine /\ Places(new) /\ About(new)
  /\ req' = [req EXCEPT ![r] = new] /\ turn \in {Nobody, r}
  /\ turn' = IF new.pc \in MidTurn THEN r ELSE Nobody

\* A request that has ended, or has not read what it is about
Unladen(new) ==
  /\ \/ new.op = "none"
     \/ new.op = "apply" /\ new.pc \in {"review", "load"}
     \/ new.op = "audit" /\ new.pc = "generate"
  /\ new.made = {}

\* It goes on with the same values
Proceeds(new, old) ==
  /\ new.op = old.op /\ new.sug = old.sug /\ new.asked = old.asked
  /\ new.patch = old.patch /\ new.rest = old.rest /\ new.queue = old.queue

\* What is known stays known.
LEMMA KnownStays ==
  ASSUME Stays, NEW s \in Sug, Known(s)
  PROVE  Known(s)'
  BY DEF Stays, Known, Get

\* A request that does nothing.
LEMMA IdleFields ==
  /\ Idle \in Coroutine /\ Places(Idle) /\ About(Idle) /\ Idle.pc \notin MidTurn
  /\ Unladen(Idle)
<1>1. <<>> \in Seq(Sug) /\ Len(<<>>) = 0
  OBVIOUS
<1>2. Idle \in Coroutine
  BY <1>1, NoPatch DEF Idle, Coroutine, Operation, Place
<1>3. /\ Idle.op = "none" /\ Idle.pc = "idle" /\ Idle.made = {} /\ Len(Idle.queue) = 0
  BY <1>1 DEF Idle
<1>4. Places(Idle)
  BY <1>3 DEF Places
<1>5. About(Idle)
  BY <1>3 DEF About
<1> QED
  BY <1>2, <1>3, <1>4, <1>5 DEF MidTurn, Unladen

\* The place of a request agrees with the turn, and each other request stays where it was.
LEMMA MovesLocates ==
  ASSUME Types, Located, NEW r \in Request, NEW new, Moves(r, new), Stays
  PROVE  /\ Located' /\ req' \in [Request -> Coroutine] /\ turn' \in Request \cup {Nobody}
         /\ req'[r] = new /\ \A q \in Request \ {r} : req'[q] = req[q]
<1>1. /\ req'[r] = new /\ \A q \in Request \ {r} : req'[q] = req[q]
      /\ req' \in [Request -> Coroutine] /\ turn' \in Request \cup {Nobody}
  BY DEF Types, Moves
<1>2. ASSUME NEW x \in Coroutine, About(x)
      PROVE  About(x)'
  <2>1. \A i \in 1..Len(x.queue) : x.queue[i] \in Sug
    BY DEF Coroutine
  <2> QED
    BY <1>2, <2>1, KnownStays DEF About
<1>3. ASSUME NEW q \in Request
      PROVE  Places(req'[q]) /\ About(req'[q]) /\ (req'[q].pc \in MidTurn <=> turn' = q)
  <2>1. CASE q = r
    BY <1>1, <2>1, AbsentAssumption DEF Moves
  <2>2. CASE q # r
    <3>1. turn # q /\ turn' # q
      BY <2>2, AbsentAssumption DEF Moves
    <3> QED
      BY <1>1, <2>2, <3>1 DEF Located
  <2> QED
    BY <2>1, <2>2
<1>4. ASSUME NEW q \in Request
      PROVE  (Places(req[q]) /\ About(req[q]) /\ (req[q].pc \in MidTurn <=> turn = q))'
  <2>1. req'[q] \in Coroutine
    BY <1>1
  <2>2. About(req[q])'
    BY <1>2, <1>3, <2>1 DEF About
  <2> QED
    BY <1>3, <2>2 DEF Places
<1>5. Located'
  BY <1>4 DEF Located
<1> QED
  BY <1>1, <1>5

\* A request at an await or between two.
LEMMA Turns ==
  ASSUME Types, Located, NEW r \in Request, turn \in {Nobody, r}
  PROVE  /\ req[r] \in Coroutine /\ Places(req[r]) /\ About(req[r])
         /\ req[r].pc \in MidTurn <=> turn = r
         /\ \A q \in Request \ {r} : req[q].pc \notin MidTurn
  BY AbsentAssumption DEF Types, Located

\* A request ends.
LEMMA EndMoves ==
  ASSUME Types, Located, NEW r \in Request, turn \in {Nobody, r}, End(r)
  PROVE  \E new : Moves(r, new) /\ Unladen(new)
<1> DEFINE queue == req[r].queue
           new == [Idle EXCEPT !.op = "apply", !.pc = "load", !.sug = Head(queue),
                               !.asked = Field, !.queue = Tail(queue)]
<1>1. queue \in Seq(Sug) /\ \A i \in 1..Len(queue) : Known(queue[i])
  BY Turns DEF Coroutine, About
<1>2. CASE queue = <<>>
  BY <1>2, IdleFields DEF End, Await, Moves
<1>3. CASE queue # <<>>
  <2>1. /\ Head(queue) = queue[1] /\ queue[1] \in Sug /\ Known(queue[1])
        /\ Tail(queue) \in Seq(Sug)
        /\ \A i \in 1..Len(Tail(queue)) : Tail(queue)[i] = queue[i + 1] /\ i + 1 \in 1..Len(queue)
    BY <1>1, <1>3
  <2> HIDE DEF queue
  <2>2. new \in Coroutine
    BY Zenon, <2>1, IdleFields DEF Coroutine, Operation, Place
  <2>3. /\ new.op = "apply" /\ new.pc = "load" /\ new.sug = Head(queue) /\ new.made = {}
        /\ new.queue = Tail(queue)
    BY DEF Idle
  <2>4. Places(new) /\ About(new) /\ Unladen(new) /\ new.pc \in MidTurn
    BY <1>1, <2>1, <2>3 DEF Places, About, Unladen, MidTurn
  <2>5. GoOn(r, new)
    BY <1>3 DEF End, queue
  <2> QED
    BY Zenon, <2>2, <2>4, <2>5 DEF GoOn, Moves
<1> QED
  BY <1>2, <1>3

-----------------------------------------------------------------------------
(* What the calls of the table do to it and to the cache.                  *)

TablesTyped == row' \in [Sug -> Suggestion \cup {Absent}] /\ cache' \in [Sug -> Suggestion \cup {Absent}]

\* The tables but for the suggestion s
Elsewhere(s) == \A t \in Sug \ {s} : row'[t] = row[t] /\ cache'[t] = cache[t]

Mark(x, status) == [x EXCEPT !.status = status]
MarkApplied(x, patch) == [x EXCEPT !.status = "applied", !.patch = patch]
MarkReversible(x, patch, previous) == [MarkApplied(x, patch) EXCEPT !.previous = previous]

\* A row that is absent has no status: what a table holds is a row or nothing.
LEMMA TableRows ==
  ASSUME Types, NEW s \in Sug
  PROVE  /\ row[s] # Absent => row[s] \in Suggestion
         /\ cache[s] # Absent => cache[s] \in Suggestion
         /\ Known(s) => Get(s) \in Suggestion
         /\ Known(s) <=> row[s] # Absent \/ cache[s] # Absent
  BY DEF Types, Known, Get

\* A row is given a status.
LEMMA BecomeTables ==
  ASSUME Types, NEW s \in Sug, NEW status \in Status, NEW states, NEW db,
         Become(status, s, states, db)
  PROVE  /\ TablesTyped /\ Stays /\ Elsewhere(s)
         /\ row'[s] = IF db # "fails" /\ row[s] # Absent /\ row[s].status \in states
                      THEN Mark(row[s], status) ELSE row[s]
         /\ cache'[s] = IF db = "ok" /\ row[s] # Absent /\ row[s].status \in states
                        THEN Mark(row[s], status)
                        ELSE IF db # "ok" /\ cache[s] # Absent /\ cache[s].status \in states
                        THEN Mark(cache[s], status)
                        ELSE cache[s]
<1> DEFINE stored == row[s] # Absent /\ row[s].status \in states
           cached == cache[s] # Absent /\ cache[s].status \in states
<1>1. /\ row[s] # Absent => Mark(row[s], status) \in Suggestion
      /\ cache[s] # Absent => Mark(cache[s], status) \in Suggestion
  BY TableRows, StatusEdited DEF Mark
<1>2. /\ row' = IF db # "fails" /\ stored THEN [row EXCEPT ![s] = Mark(row[s], status)] ELSE row
      /\ cache' = IF db = "ok" /\ stored THEN [cache EXCEPT ![s] = Mark(row[s], status)]
                  ELSE IF db # "ok" /\ cached THEN [cache EXCEPT ![s] = Mark(cache[s], status)]
                  ELSE cache
  BY DEF Become, Update, Mark
<1>3. row \in [Sug -> Suggestion \cup {Absent}] /\ cache \in [Sug -> Suggestion \cup {Absent}]
  BY DEF Types
<1>4. TablesTyped
  BY <1>1, <1>2, <1>3 DEF TablesTyped
<1>5. /\ Elsewhere(s)
      /\ row'[s] = IF db # "fails" /\ stored THEN Mark(row[s], status) ELSE row[s]
      /\ cache'[s] = IF db = "ok" /\ stored THEN Mark(row[s], status)
                     ELSE IF db # "ok" /\ cached THEN Mark(cache[s], status) ELSE cache[s]
  BY <1>2, <1>3 DEF Elsewhere
<1>6. Stays
  BY <1>1, <1>5, AbsentAssumption DEF Elsewhere, Stays
<1> QED
  BY <1>4, <1>5, <1>6

\* A row is created, or only cached.
LEMMA CreateTables ==
  ASSUME Types, NEW x \in Suggestion, NEW db, Create(x, db)
  PROVE  /\ Free \in Sug /\ row[Free] = Absent /\ cache[Free] = Absent
         /\ TablesTyped /\ Stays /\ Elsewhere(Free)
         /\ row'[Free] = IF db = "fails" THEN Absent ELSE x
         /\ cache'[Free] = x
         /\ torn' = (torn \/ db = "fails")
<1>1. Free \in Sug /\ ~Known(Free)
  BY DEF Create, Room, Free
<1>2. row[Free] = Absent /\ cache[Free] = Absent
  BY <1>1, TableRows
<1>3. /\ row' = IF db = "fails" THEN row ELSE [row EXCEPT ![Free] = x]
      /\ cache' = [cache EXCEPT ![Free] = x] /\ torn' = (torn \/ db = "fails")
  BY DEF Create
<1> HIDE DEF Free
<1>4. /\ Elsewhere(Free) /\ TablesTyped
      /\ row'[Free] = IF db = "fails" THEN Absent ELSE x
      /\ cache'[Free] = x
  BY <1>1, <1>2, <1>3 DEF Types, Elsewhere, TablesTyped
<1>5. Stays
  BY <1>2, <1>4 DEF Stays, Elsewhere
<1> QED
  BY <1>1, <1>2, <1>3, <1>4, <1>5

\* What Previous and Rest of a request are.
LEMMA PreviousPatch ==
  ASSUME Types, NEW r \in Request, NEW p \in Patch, req[r].seen = p,
         DOMAIN req[r].patch \subseteq DOMAIN p
  PROVE  /\ Previous(r) \in Patch /\ DOMAIN Previous(r) = DOMAIN req[r].patch
         /\ \A f \in DOMAIN req[r].patch : Previous(r)[f] = p[f]
<1>1. req[r].patch \in Patch
  BY DEF Types, Coroutine
<1>2. Previous(r) = [f \in DOMAIN req[r].patch |-> p[f]]
  BY DEF Previous
<1>3. Previous(r) \in [DOMAIN req[r].patch -> Value]
  BY <1>2, PatchFacts
<1> QED
  BY <1>1, <1>2, <1>3, PatchFacts, PatchFrom

\* What a request that records its fix does to the tables and the history
Recorded(r, db) ==
  LET s == req[r].sug
      patch == req[r].patch
      previous == Previous(r)
  IN  /\ Elsewhere(s)
      /\ row'[s] = IF row[s] = Absent \/ db = "fails" THEN row[s]
                   ELSE IF db = "ok" THEN MarkReversible(row[s], patch, previous)
                   ELSE MarkApplied(row[s], patch)
      /\ cache'[s] = IF db = "fails"
                     THEN IF cache[s] = Absent THEN Absent
                          ELSE MarkReversible(cache[s], patch, previous)
                     ELSE IF row[s] = Absent THEN cache[s]
                     ELSE MarkReversible(row[s], patch, previous)
      /\ late' = IF row[s] # Absent /\ row[s].status # "pending"
                 THEN late \cup {row[s].root} ELSE late
      /\ torn' = (torn \/ (db = "fails" /\ cache[s] # Absent))

\* and whether it has a row to go on with
Answered(r, db) == (IF db = "fails" THEN cache[req[r].sug] ELSE row[req[r].sug]) # Absent

\* How the call that marks a fix applied goes.
RecordCall == {"ok", "fails", "again"}

\* A fix is marked applied.
LEMMA RecordTables ==
  ASSUME Types, Located, NEW r \in Request, RecordApplied(r), Previous(r) \in Patch
  PROVE  \E db \in RecordCall :
           /\ Goes(db) /\ TablesTyped /\ Stays /\ Recorded(r, db)
           /\ IF Answered(r, db) /\ req[r].rest # <<>>
              THEN GoOn(r, [req[r] EXCEPT !.pc = "rest"]) ELSE End(r)
<1> DEFINE s == req[r].sug
           patch == req[r].patch
           previous == Previous(r)
           Applied(saved) == [saved EXCEPT !.status = "applied", !.patch = patch]
           Reversibly(saved) == [Applied(saved) EXCEPT !.previous = previous]
<1>1. turn \in {Nobody, r} /\ req[r].op = "apply" /\ req[r].pc = "record"
  BY DEF RecordApplied, At
<1>2. s \in Sug /\ patch \in Patch
  BY <1>1, Turns DEF About, Coroutine
<1>3. PICK db \in RecordCall :
        /\ Goes(db)
        /\ IF db = "again" /\ row[s] # Absent
           THEN /\ row' = [row EXCEPT ![s] = Applied(row[s])]
                /\ cache' = [cache EXCEPT ![s] = Reversibly(row[s])]
           ELSE Update(s, Status, IF db = "again" THEN "ok" ELSE db, Reversibly)
        /\ late' = IF row[s] # Absent /\ row[s].status # "pending"
                   THEN late \cup {row[s].root} ELSE late
        /\ torn' = (torn \/ (db = "fails" /\ Updated(s, Status, db)))
        /\ IF Updated(s, Status, IF db = "again" THEN "ok" ELSE db) /\ Rest(r) # <<>>
           THEN GoOn(r, [req[r] EXCEPT !.pc = "rest"])
           ELSE End(r)
  BY Zenon DEF RecordApplied, RecordCall
<1>4. /\ row[s] # Absent => /\ row[s].status \in Status
                            /\ Applied(row[s]) = MarkApplied(row[s], patch)
                            /\ Reversibly(row[s]) = MarkReversible(row[s], patch, previous)
                            /\ MarkApplied(row[s], patch) \in Suggestion
                            /\ MarkReversible(row[s], patch, previous) \in Suggestion
      /\ cache[s] # Absent => /\ cache[s].status \in Status
                              /\ Reversibly(cache[s]) = MarkReversible(cache[s], patch, previous)
                              /\ MarkReversible(cache[s], patch, previous) \in Suggestion
  BY Zenon, <1>2, TableRows, RowFields, AppliedEdited DEF MarkApplied, MarkReversible
<1>5. \/ db = "again" /\ row[s] # Absent
      \/ Update(s, Status, IF db = "again" THEN "ok" ELSE db, Reversibly)
  BY <1>3
<1>6. /\ row' = IF row[s] = Absent \/ db = "fails" THEN row
                ELSE IF db = "ok"
                THEN [row EXCEPT ![s] = MarkReversible(row[s], patch, previous)]
                ELSE [row EXCEPT ![s] = MarkApplied(row[s], patch)]
      /\ cache' = IF db = "fails"
                  THEN IF cache[s] = Absent THEN cache
                       ELSE [cache EXCEPT ![s] = MarkReversible(cache[s], patch, previous)]
                  ELSE IF row[s] = Absent THEN cache
                  ELSE [cache EXCEPT ![s] = MarkReversible(row[s], patch, previous)]
  <2>1. CASE db = "again" /\ row[s] # Absent
    BY <1>3, <1>4, <2>1
  <2>2. CASE ~(db = "again" /\ row[s] # Absent)
    <3>1. Update(s, Status, IF db = "again" THEN "ok" ELSE db, Reversibly)
      BY <1>3, <2>2
    <3> DEFINE try == IF db = "again" THEN "ok" ELSE db
    <3>2. /\ row' = IF try # "fails" /\ row[s] # Absent /\ row[s].status \in Status
                    THEN [row EXCEPT ![s] = Reversibly(row[s])] ELSE row
          /\ cache' = IF try = "ok" /\ row[s] # Absent /\ row[s].status \in Status
                      THEN [cache EXCEPT ![s] = Reversibly(row[s])]
                      ELSE IF try # "ok" /\ cache[s] # Absent /\ cache[s].status \in Status
                      THEN [cache EXCEPT ![s] = Reversibly(cache[s])]
                      ELSE cache
      BY <3>1 DEF Update
    <3> HIDE DEF Reversibly, Applied
    <3> QED
      BY Zenon, <1>4, <2>2, <3>2 DEF RecordCall
  <2> QED
    BY <2>1, <2>2
<1>7. row \in [Sug -> Suggestion \cup {Absent}] /\ cache \in [Sug -> Suggestion \cup {Absent}]
  BY DEF Types
<1> HIDE DEF s, patch, previous, Applied, Reversibly
<1>8. /\ Elsewhere(s)
      /\ row'[s] = IF row[s] = Absent \/ db = "fails" THEN row[s]
                   ELSE IF db = "ok" THEN MarkReversible(row[s], patch, previous)
                   ELSE MarkApplied(row[s], patch)
      /\ cache'[s] = IF db = "fails"
                     THEN IF cache[s] = Absent THEN Absent
                          ELSE MarkReversible(cache[s], patch, previous)
                     ELSE IF row[s] = Absent THEN cache[s]
                     ELSE MarkReversible(row[s], patch, previous)
  BY <1>2, <1>6, <1>7 DEF Elsewhere
<1>9. TablesTyped
  BY <1>2, <1>4, <1>6, <1>7 DEF TablesTyped
<1>10. Stays
  BY <1>4, <1>8, AbsentAssumption DEF Elsewhere, Stays
<1>11. /\ Updated(s, Status, IF db = "again" THEN "ok" ELSE db)
              <=> (IF db = "fails" THEN cache[s] ELSE row[s]) # Absent
       /\ db = "fails" => (Updated(s, Status, db) <=> cache[s] # Absent)
  BY <1>4 DEF Updated, RecordCall
<1>12. Rest(r) = req[r].rest
  BY DEF Rest
<1>13. /\ Goes(db)
       /\ late' = IF row[s] # Absent /\ row[s].status # "pending"
                  THEN late \cup {row[s].root} ELSE late
       /\ torn' = (torn \/ (db = "fails" /\ cache[s] # Absent))
       /\ IF Answered(r, db) /\ req[r].rest # <<>>
          THEN GoOn(r, [req[r] EXCEPT !.pc = "rest"]) ELSE End(r)
  BY <1>3, <1>11, <1>12 DEF Answered, s
<1> QED
  BY <1>8, <1>9, <1>10, <1>13 DEF Recorded, s, patch, previous

-----------------------------------------------------------------------------
(* Where each operation takes its request.                                 *)

\* A request that asks is idle.
LEMMA Asking ==
  ASSUME Types, Located, NEW r \in Request, Ask(r)
  PROVE  turn = Nobody /\ turn \in {Nobody, r} /\ Idle \in Coroutine
  BY IdleFields DEF Ask

\* A request at a place of its operation.
LEMMA AtPlace ==
  ASSUME Types, Located, NEW r \in Request, NEW op, NEW pc, At(r, op, pc)
  PROVE  /\ turn \in {Nobody, r} /\ req[r].op = op /\ req[r].pc = pc
         /\ req[r] \in Coroutine /\ Places(req[r]) /\ About(req[r])
         /\ turn = IF pc \in MidTurn THEN r ELSE Nobody
  BY Turns DEF At

\* An await, and going on without one.
LEMMA AwaitMoves ==
  ASSUME NEW r \in Request, turn \in {Nobody, r}, NEW new \in Coroutine,
         Places(new), About(new), new.pc \notin MidTurn, Await(r, new)
  PROVE  Moves(r, new)
  BY DEF Await, Moves

\* A request that goes on without an await keeps the turn.
LEMMA GoOnMoves ==
  ASSUME NEW r \in Request, turn \in {Nobody, r}, NEW new \in Coroutine,
         Places(new), About(new), new.pc \in MidTurn, GoOn(r, new)
  PROVE  Moves(r, new)
  BY DEF GoOn, Moves

\* What is asked for is a set of fields of a suggestion that is known.
LEMMA StartApplyMoves ==
  ASSUME Types, Located, NEW r \in Request, StartApply(r)
  PROVE  \E new : Moves(r, new) /\ Unladen(new)
<1>1. PICK s \in Sug, fields \in SUBSET Field \ {{}} :
        /\ Known(s)
        /\ GoOn(r, [Idle EXCEPT !.op = "apply", !.pc = "load", !.sug = s, !.asked = fields])
  BY Zenon DEF StartApply
<1> DEFINE new == [Idle EXCEPT !.op = "apply", !.pc = "load", !.sug = s, !.asked = fields]
<1>2. turn \in {Nobody, r}
  BY Asking DEF StartApply
<1>3. new \in Coroutine
  BY Zenon, IdleFields DEF Coroutine, Operation, Place
<1>4. /\ new.op = "apply" /\ new.pc = "load" /\ new.sug = s /\ new.made = {}
      /\ new.queue = <<>>
  BY DEF Idle
<1> HIDE DEF new
<1>5. Places(new) /\ About(new) /\ Unladen(new) /\ new.pc \in MidTurn
  BY <1>1, <1>4 DEF Places, About, Unladen, MidTurn
<1> QED
  BY Zenon, <1>1, <1>2, <1>3, <1>5, GoOnMoves DEF new

\* What is applied in bulk is known.
LEMMA StartBulkMoves ==
  ASSUME Types, Located, NEW r \in Request, StartBulk(r)
  PROVE  \E new : Moves(r, new) /\ Unladen(new)
<1>1. PICK s \in {x \in Sug : Known(x)}, t \in {x \in Sug : Known(x)} :
        GoOn(r, [Idle EXCEPT !.op = "apply", !.pc = "load", !.sug = s,
                             !.asked = Field, !.queue = <<t>>])
  BY Zenon DEF StartBulk
<1> DEFINE new == [Idle EXCEPT !.op = "apply", !.pc = "load", !.sug = s,
                               !.asked = Field, !.queue = <<t>>]
<1>2. turn \in {Nobody, r}
  BY Asking DEF StartBulk
<1>3. <<t>> \in Seq(Sug) /\ Len(<<t>>) = 1 /\ <<t>>[1] = t
  OBVIOUS
<1>4. new \in Coroutine
  BY Zenon, <1>3, IdleFields DEF Coroutine, Operation, Place
<1>5. /\ new.op = "apply" /\ new.pc = "load" /\ new.sug = s /\ new.made = {}
      /\ new.queue = <<t>>
  BY DEF Idle
<1> HIDE DEF new
<1>6. Places(new) /\ About(new) /\ Unladen(new) /\ new.pc \in MidTurn
  BY <1>1, <1>3, <1>5 DEF Places, About, Unladen, MidTurn
<1> QED
  BY Zenon, <1>1, <1>2, <1>4, <1>6, GoOnMoves DEF new

\* What was reviewed is known.
LEMMA StartReviewedMoves ==
  ASSUME Types, Located, NEW r \in Request, StartReviewed(r)
  PROVE  \E new : Moves(r, new) /\ Unladen(new)
<1>1. PICK s \in {x \in Sug : Known(x)} :
        Await(r, [Idle EXCEPT !.op = "apply", !.pc = "review", !.sug = s,
                              !.asked = DOMAIN Get(s).patch, !.seen = live])
  BY Zenon DEF StartReviewed
<1> DEFINE new == [Idle EXCEPT !.op = "apply", !.pc = "review", !.sug = s,
                               !.asked = DOMAIN Get(s).patch, !.seen = live]
<1>2. turn \in {Nobody, r}
  BY Asking DEF StartReviewed
<1>3. live \in Patch /\ DOMAIN Get(s).patch \subseteq Field
  BY Zenon, TableRows, RowFields, PatchFacts, PatchFrom DEF Types
<1>4. new \in Coroutine
  BY Zenon, <1>3, IdleFields DEF Coroutine, Operation, Place
<1>5. /\ new.op = "apply" /\ new.pc = "review" /\ new.sug = s /\ new.made = {}
      /\ new.queue = <<>>
  BY DEF Idle
<1> HIDE DEF new
<1>6. Places(new) /\ About(new) /\ Unladen(new) /\ new.pc \notin MidTurn
  BY <1>1, <1>5 DEF Places, About, Unladen, MidTurn
<1> QED
  BY Zenon, <1>1, <1>2, <1>4, <1>6, AwaitMoves DEF new

\* A reviewed fix is loaded, or the request ends.
LEMMA CheckReviewMoves ==
  ASSUME Types, Located, NEW r \in Request, CheckReview(r)
  PROVE  \E new : Moves(r, new) /\ Unladen(new)
<1>1. /\ At(r, "apply", "review")
      /\ GoOn(r, [req[r] EXCEPT !.pc = "load"]) \/ End(r)
  BY DEF CheckReview
<1>2. CASE End(r)
  BY <1>1, <1>2, AtPlace, EndMoves
<1>3. CASE GoOn(r, [req[r] EXCEPT !.pc = "load"])
  <2> DEFINE new == [req[r] EXCEPT !.pc = "load"]
  <2>1. /\ turn \in {Nobody, r} /\ req[r].op = "apply" /\ req[r].pc = "review"
        /\ req[r] \in Coroutine /\ About(req[r])
    BY <1>1, AtPlace
  <2>2. /\ new \in Coroutine /\ new.op = "apply" /\ new.pc = "load" /\ new.sug = req[r].sug
        /\ new.made = req[r].made /\ new.queue = req[r].queue
    BY <2>1 DEF Coroutine, Place
  <2> HIDE DEF new
  <2>3. Places(new) /\ About(new) /\ Unladen(new) /\ new.pc \in MidTurn
    BY <2>1, <2>2 DEF Places, About, Unladen, MidTurn
  <2> QED
    BY Zenon, <1>3, <2>1, <2>2, <2>3, GoOnMoves DEF new
<1> QED
  BY <1>1, <1>2, <1>3

\* A suggestion that is loaded is pending, and the request takes it apart.
LEMMA LoadMoves ==
  ASSUME Types, Located, NEW r \in Request, LoadSuggestion(r)
  PROVE  \E new :
           /\ Moves(r, new) /\ req[r].op = "apply" /\ req[r].pc = "load"
           /\ \/ Unladen(new) /\ muddled' = muddled
              \/ /\ new.op = "apply" /\ new.pc = "read" /\ new.sug = req[r].sug /\ new.made = {}
                 /\ Get(new.sug).status = "pending"
                 /\ DOMAIN new.patch \cup DOMAIN new.rest = DOMAIN Get(new.sug).patch
                 /\ DOMAIN new.patch \cap DOMAIN new.rest = {}
                 /\ muddled' = IF Overlapped(r) THEN muddled \cup {req[r].sug} ELSE muddled
<1> DEFINE saved == Get(req[r].sug)
           fields == Effective(r)
           rest == DOMAIN saved.patch \ fields
           new == [req[r] EXCEPT !.pc = "read", !.patch = Restrict(saved.patch, fields),
                                 !.rest = Restrict(saved.patch, rest)]
<1>1. At(r, "apply", "load")
  BY DEF LoadSuggestion
<1>2. /\ turn \in {Nobody, r} /\ req[r].op = "apply" /\ req[r].pc = "load"
      /\ req[r] \in Coroutine /\ About(req[r])
  BY <1>1, AtPlace
<1>3. \/ End(r) /\ muddled' = muddled
      \/ /\ saved.status = "pending" /\ Await(r, new)
         /\ muddled' = IF Overlapped(r) THEN muddled \cup {req[r].sug} ELSE muddled
  BY DEF LoadSuggestion
<1>4. CASE End(r) /\ muddled' = muddled
  BY <1>2, <1>4, EndMoves
<1>5. CASE /\ saved.status = "pending" /\ Await(r, new)
           /\ muddled' = IF Overlapped(r) THEN muddled \cup {req[r].sug} ELSE muddled
  <2>1. req[r].sug \in Sug /\ saved.patch \in Patch
    BY <1>2, TableRows, RowFields DEF About
  <2>2. fields \subseteq DOMAIN saved.patch /\ rest \subseteq DOMAIN saved.patch
    BY DEF Effective
  <2> HIDE DEF saved, fields
  <2>3. /\ Restrict(saved.patch, fields) \in Patch /\ DOMAIN Restrict(saved.patch, fields) = fields
        /\ Restrict(saved.patch, rest) \in Patch /\ DOMAIN Restrict(saved.patch, rest) = rest
    BY <2>1, <2>2, RestrictPatch
  <2> HIDE DEF rest
  <2>4. /\ new \in Coroutine /\ new.op = "apply" /\ new.pc = "read" /\ new.sug = req[r].sug
        /\ new.made = req[r].made /\ new.queue = req[r].queue
        /\ new.patch = Restrict(saved.patch, fields) /\ new.rest = Restrict(saved.patch, rest)
    BY Zenon, <1>2, <2>3 DEF Coroutine, Place
  <2> HIDE DEF new
  <2>5. Places(new) /\ About(new) /\ new.pc \notin MidTurn /\ new.made = {}
    BY <1>2, <2>4 DEF Places, About, MidTurn
  <2>6. Moves(r, new)
    BY <1>2, <1>5, <2>4, <2>5, AwaitMoves
  <2>7. /\ DOMAIN new.patch \cup DOMAIN new.rest = DOMAIN Get(new.sug).patch
        /\ DOMAIN new.patch \cap DOMAIN new.rest = {}
    BY Zenon, <2>2, <2>3, <2>4 DEF saved, rest
  <2>8. Get(new.sug).status = "pending"
    BY <1>5, <2>4 DEF saved
  <2> QED
    BY <1>2, <1>5, <2>4, <2>5, <2>6, <2>7, <2>8
<1> QED
  BY <1>3, <1>4, <1>5

\* A request that goes to another place.
LEMMA Placing ==
  ASSUME NEW x \in Coroutine, NEW pc \in Place
  PROVE  LET y == [x EXCEPT !.pc = pc]
         IN  /\ y \in Coroutine /\ Proceeds(y, x) /\ y.pc = pc /\ y.made = x.made
             /\ y.seen = x.seen /\ y.todo = x.todo /\ y.tries = x.tries
  BY DEF Coroutine, Proceeds

\* The shop is read before a fix is written.
LEMMA ReadMoves ==
  ASSUME Types, Located, NEW r \in Request, ReadShop(r)
  PROVE  \E new :
           /\ Moves(r, new) /\ req[r].op = "apply" /\ req[r].pc = "read"
           /\ \/ Unladen(new)
              \/ Proceeds(new, req[r]) /\ new.pc = "write" /\ new.made = {} /\ new.seen = live
<1> DEFINE todo == Stages(DOMAIN req[r].patch)
           new == [req[r] EXCEPT !.pc = "write", !.seen = live, !.todo = todo]
<1>1. At(r, "apply", "read") /\ (End(r) \/ Await(r, new))
  BY DEF ReadShop
<1>2. /\ turn \in {Nobody, r} /\ req[r].op = "apply" /\ req[r].pc = "read"
      /\ req[r] \in Coroutine /\ About(req[r])
  BY <1>1, AtPlace
<1>3. CASE End(r)
  BY <1>2, <1>3, EndMoves
<1>4. CASE Await(r, new)
  <2>1. live \in Patch /\ DOMAIN live = Field
    BY Zenon, PatchFrom DEF Types
  <2>2. todo \subseteq 1..3
    BY DEF Stages
  <2> HIDE DEF todo
  <2>3. new \in Coroutine /\ Proceeds(new, req[r]) /\ new.pc = "write" /\ new.seen = live
        /\ new.made = req[r].made
    BY Zenon, <1>2, <2>1, <2>2 DEF Coroutine, Place, Proceeds
  <2> HIDE DEF new
  <2>4. Places(new) /\ About(new) /\ new.pc \notin MidTurn /\ new.made = {}
    BY <1>2, <2>1, <2>3 DEF Places, About, MidTurn, Proceeds
  <2> QED
    BY <1>2, <1>4, <2>3, <2>4, AwaitMoves
<1> QED
  BY <1>1, <1>3, <1>4

\* The stage of a write leaves the request at the next, or to record.
LEMMA StageMoves ==
  ASSUME Types, Located, NEW r \in Request, turn \in {Nobody, r}, req[r].pc = "write",
         req[r].op \in {"apply", "revert"}, NEW done, AfterStage(r, done)
  PROVE  \E new : /\ Moves(r, new) /\ Proceeds(new, req[r]) /\ new.pc \in {"write", "record"}
                  /\ new.seen = req[r].seen /\ new.made = {}
<1> DEFINE todo == req[r].todo \ done
           pc == IF todo = {} THEN "record" ELSE "write"
           new == [req[r] EXCEPT !.todo = todo, !.pc = pc]
<1>1. Await(r, new)
  BY DEF AfterStage
<1>2. req[r] \in Coroutine /\ About(req[r])
  BY Turns
<1>3. /\ new \in Coroutine /\ Proceeds(new, req[r]) /\ new.pc = pc /\ new.seen = req[r].seen
      /\ new.made = req[r].made /\ new.todo = todo
  BY Zenon, <1>2 DEF Coroutine, Place, Proceeds
<1> HIDE DEF new
<1>4. Places(new) /\ About(new) /\ new.pc \notin MidTurn /\ new.made = {}
  BY <1>2, <1>3 DEF Places, About, MidTurn, Proceeds
<1> QED
  BY <1>1, <1>3, <1>4, AwaitMoves

\* What is sent to Shopify is a patch, and the shop has its values.
LEMMA WrittenTyped ==
  ASSUME Types, Located, NEW r \in Request, req[r].op \in {"apply", "revert"},
         req[r].pc = "write"
  PROVE  /\ Payload(r) \in Patch
         /\ Written(r) => live' \in [Field -> Value]
         /\ DOMAIN Sent(r) \subseteq DOMAIN Payload(r)
         /\ \A f \in DOMAIN Sent(r) : Payload(r)[f] = Sent(r)[f]
         /\ \A f \in DOMAIN Payload(r) \ DOMAIN Sent(r) :
              /\ f \in Scalar /\ Cardinality(DOMAIN Sent(r) \cap Scalar) = 1
              /\ req[r].op = "revert" => Payload(r)[f] = Unset
         /\ Cardinality(DOMAIN Sent(r) \cap Scalar) = 1 => Scalar \subseteq DOMAIN Payload(r)
<1> DEFINE written == DOMAIN Sent(r) \cap Scalar
<1>1. /\ req[r].patch \in Patch /\ req[r].rest \in Patch /\ req[r].seen \in Patch
      /\ DOMAIN req[r].seen = Field
  BY DEF Types, Coroutine, Located, About
<1>2. /\ SeoSibling(r) \in Patch /\ DOMAIN SeoSibling(r) \cap written = {}
      /\ DOMAIN SeoSibling(r) \subseteq Scalar
      /\ \A f \in DOMAIN SeoSibling(r) :
           Cardinality(written) = 1 /\ (req[r].op = "revert" => SeoSibling(r)[f] = Unset)
      /\ Cardinality(written) = 1 => DOMAIN SeoSibling(r) = Scalar \ written
  <2>1. CASE Cardinality(written) = 1
    <3>1. SeoSibling(r) = [f \in Scalar \ written |->
                             IF req[r].op = "apply" THEN req[r].seen[f] ELSE Unset]
      BY <2>1 DEF SeoSibling
    <3>2. Scalar \ written \in SUBSET Field
      BY DEF Field
    <3>3. Unset \in Value /\ \A f \in Field : req[r].seen[f] \in Value
      BY <1>1, PatchFacts DEF Value
    <3>4. SeoSibling(r) \in [Scalar \ written -> Value]
      BY <3>1, <3>2, <3>3
    <3> HIDE DEF written
    <3>5. SeoSibling(r) \in Patch /\ DOMAIN SeoSibling(r) = Scalar \ written
      BY <3>2, <3>4, PatchFrom
    <3>6. req[r].op = "revert" => \A f \in Scalar \ written : SeoSibling(r)[f] = Unset
      BY <3>1
    <3> QED
      BY <2>1, <3>5, <3>6
  <2>2. CASE Cardinality(written) # 1
    BY <2>2, NoPatch DEF SeoSibling
  <2> QED
    BY <2>1, <2>2
<1>3. Sent(r) \in Patch
  BY <1>1 DEF Sent
<1>4. Payload(r) = Over(SeoSibling(r), Sent(r))
  BY DEF Payload
<1>5. /\ Payload(r) \in Patch /\ DOMAIN Payload(r) = DOMAIN SeoSibling(r) \cup DOMAIN Sent(r)
      /\ \A f \in DOMAIN SeoSibling(r) : Payload(r)[f] = SeoSibling(r)[f]
      /\ \A f \in DOMAIN Sent(r) \ DOMAIN SeoSibling(r) : Payload(r)[f] = Sent(r)[f]
  <2>1. /\ Over(SeoSibling(r), Sent(r)) \in Patch
        /\ DOMAIN Over(SeoSibling(r), Sent(r)) = DOMAIN SeoSibling(r) \cup DOMAIN Sent(r)
        /\ \A f \in DOMAIN SeoSibling(r) : Over(SeoSibling(r), Sent(r))[f] = SeoSibling(r)[f]
        /\ \A f \in DOMAIN Sent(r) \ DOMAIN SeoSibling(r) :
             Over(SeoSibling(r), Sent(r))[f] = Sent(r)[f]
    BY <1>2, <1>3, OverPatch, Zenon
  <2> QED
    BY <1>4, <2>1
<1>6. Written(r) => live' \in [Field -> Value]
  <2>1. \A f \in DOMAIN Payload(r) : Payload(r)[f] \in Value
    BY <1>5, PatchFacts
  <2> QED
    BY <2>1 DEF Written, Types
<1>7. DOMAIN Sent(r) \cap DOMAIN SeoSibling(r) = {}
  BY <1>2
<1>8. \A f \in DOMAIN Payload(r) \ DOMAIN Sent(r) :
        /\ f \in Scalar /\ Cardinality(written) = 1
        /\ req[r].op = "revert" => Payload(r)[f] = Unset
  BY <1>2, <1>5
<1>9. Cardinality(written) = 1 => Scalar \subseteq DOMAIN Payload(r)
  BY <1>2, <1>5
<1> QED
  BY <1>5, <1>6, <1>7, <1>8, <1>9

\* What the shop held is remembered as a patch.
LEMMA RememberTyped ==
  ASSUME Types, NEW r \in Request, req[r].sug \in Sug, NEW fields \in SUBSET Field,
         Remember(r, fields)
  PROVE  /\ before' \in [Sug -> Patch] /\ muddled' \subseteq Sug
         /\ muddled \subseteq muddled'
         /\ \A s \in Sug \ {req[r].sug} : before'[s] = before[s] /\ (s \in muddled' => s \in muddled)
         /\ req[r].sug \notin muddled' =>
              \A f \in DOMAIN before'[req[r].sug] :
                \/ f \in DOMAIN before[req[r].sug]
                     /\ before'[req[r].sug][f] = before[req[r].sug][f]
                \/ before'[req[r].sug][f] = req[r].seen[f]
<1> DEFINE s == req[r].sug
           new == [f \in fields |-> live[f]]
<1>1. /\ before' = [before EXCEPT ![s] = Over(before[s], new)]
      /\ muddled' = IF (\A f \in fields : live[f] = req[r].seen[f]) /\ fields \cap DOMAIN before[s] = {}
                    THEN muddled ELSE muddled \cup {s}
  BY DEF Remember
<1>2. new \in Patch /\ DOMAIN new = fields /\ \A f \in fields : new[f] = live[f]
  <2>1. new \in [fields -> Value]
    BY DEF Types
  <2> QED
    BY <2>1, PatchFrom
<1>3. before[s] \in Patch
  BY DEF Types
<1> HIDE DEF new
<1>4. /\ Over(before[s], new) \in Patch
      /\ DOMAIN Over(before[s], new) = DOMAIN before[s] \cup fields
      /\ \A f \in DOMAIN before[s] : Over(before[s], new)[f] = before[s][f]
      /\ \A f \in fields \ DOMAIN before[s] : Over(before[s], new)[f] = live[f]
  BY ZenonT(60), <1>2, <1>3, OverPatch
<1>5. before'[s] = Over(before[s], new) /\ \A t \in Sug \ {s} : before'[t] = before[t]
  BY <1>1 DEF Types
<1> QED
  BY <1>1, <1>4, <1>5 DEF Types

\* One stage of a write: carried out, refused, or raising.
LEMMA WriteMoves ==
  ASSUME Types, Located, NEW r \in Request, WriteStep(r)
  PROVE  \E new :
           /\ Moves(r, new) /\ req[r].op \in {"apply", "revert"} /\ req[r].pc = "write"
           /\ turn = Nobody
           /\ \/ Unladen(new)
              \/ /\ Proceeds(new, req[r]) /\ new.pc \in {"write", "record"} /\ new.made = {}
                 /\ new.seen = req[r].seen
           /\ live' \in [Field -> Value] /\ before' \in [Sug -> Patch] /\ muddled' \subseteq Sug
           /\ \/ UNCHANGED <<before, muddled>>
              \/ /\ req[r].op = "apply"
                 /\ Remember(r, Stage[NextStage(r)] \cap DOMAIN req[r].patch)
           /\ left' \in [{"asks", "edits", "faults", "crashes"} -> Nat]
           /\ UNCHANGED <<Table, offered, late, torn>>
<1> DEFINE fields == Stage[NextStage(r)] \cap DOMAIN req[r].patch
<1>1. At(r, req[r].op, "write")
  BY DEF WriteStep, WriteShop, WriteRefused, WriteRaises
<1>2. /\ req[r].op \in {"apply", "revert"} /\ req[r].pc = "write" /\ turn = Nobody
      /\ req[r] \in Coroutine /\ About(req[r])
  BY <1>1, AtPlace DEF Places, MidTurn, Coroutine, Operation
<1>3. fields \in SUBSET Field /\ req[r].sug \in Sug
  BY <1>2, PatchFacts DEF Coroutine, About
<1>4. Remember(r, fields) => before' \in [Sug -> Patch] /\ muddled' \subseteq Sug
  BY <1>3, RememberTyped
<1>5. Written(r) => live' \in [Field -> Value]
  BY <1>2, WrittenTyped
<1>6. live \in [Field -> Value] /\ before \in [Sug -> Patch] /\ muddled \subseteq Sug
  BY DEF Types
<1>7. Counted("faults") => left' \in [{"asks", "edits", "faults", "crashes"} -> Nat]
  BY DEF Counted, Types
<1>8. (\E done : AfterStage(r, done)) \/ End(r)
  BY DEF WriteStep, WriteShop, WriteRefused, WriteRaises
<1>9. \E new : /\ Moves(r, new)
               /\ \/ Unladen(new)
                  \/ /\ Proceeds(new, req[r]) /\ new.pc \in {"write", "record"} /\ new.made = {}
                     /\ new.seen = req[r].seen
  BY <1>2, <1>8, StageMoves, EndMoves
<1>10. /\ live' \in [Field -> Value] /\ before' \in [Sug -> Patch] /\ muddled' \subseteq Sug
       /\ \/ UNCHANGED <<before, muddled>>
          \/ req[r].op = "apply" /\ Remember(r, fields)
       /\ left' \in [{"asks", "edits", "faults", "crashes"} -> Nat]
       /\ UNCHANGED <<Table, offered, late, torn>>
  <2>1. CASE WriteShop(r)
    BY <2>1, <1>4, <1>5, <1>6 DEF WriteShop, Table, Types
  <2>2. CASE WriteRefused(r)
    BY <2>2, <1>6, <1>7 DEF WriteRefused, Table, history
  <2>3. CASE WriteRaises(r)
    BY <2>3, <1>4, <1>5, <1>6, <1>7 DEF WriteRaises, Table
  <2> QED
    BY <2>1, <2>2, <2>3 DEF WriteStep
<1> HIDE DEF fields
<1> QED
  BY <1>2, <1>9, <1>10 DEF fields

\* What may still happen stays counted.
LEMMA GoesTyped ==
  ASSUME Types, NEW db
  PROVE  Goes(db) => left' \in [{"asks", "edits", "faults", "crashes"} -> Nat]
  BY DEF Goes, Counted, Types

\* A request that has written its fix records it, and goes on with the rest or ends.
LEMMA RecordMoves ==
  ASSUME Types, Located, NEW r \in Request, RecordApplied(r)
  PROVE  \E db, new :
           /\ db \in RecordCall
           /\ Moves(r, new) /\ req[r].op = "apply" /\ req[r].pc = "record" /\ turn = Nobody
           /\ Goes(db) /\ TablesTyped /\ Stays /\ Recorded(r, db)
           /\ Previous(r) \in Patch /\ DOMAIN Previous(r) = DOMAIN req[r].patch
           /\ \A f \in DOMAIN req[r].patch : Previous(r)[f] = req[r].seen[f]
           /\ \/ /\ Answered(r, db) /\ req[r].rest # <<>>
                 /\ Proceeds(new, req[r]) /\ new.pc = "rest" /\ new.made = {}
              \/ ~(Answered(r, db) /\ req[r].rest # <<>>) /\ Unladen(new)
<1>1. At(r, "apply", "record")
  BY DEF RecordApplied
<1>2. /\ turn \in {Nobody, r} /\ req[r].op = "apply" /\ req[r].pc = "record" /\ turn = Nobody
      /\ req[r] \in Coroutine /\ About(req[r])
  BY <1>1, AtPlace DEF MidTurn
<1>3. /\ req[r].seen \in Patch /\ DOMAIN req[r].patch \subseteq DOMAIN req[r].seen
  BY <1>2, PatchFacts DEF Coroutine, About
<1>4. /\ Previous(r) \in Patch /\ DOMAIN Previous(r) = DOMAIN req[r].patch
      /\ \A f \in DOMAIN req[r].patch : Previous(r)[f] = req[r].seen[f]
  BY <1>3, PreviousPatch
<1>5. PICK db \in RecordCall :
        /\ Goes(db) /\ TablesTyped /\ Stays /\ Recorded(r, db)
        /\ IF Answered(r, db) /\ req[r].rest # <<>>
           THEN GoOn(r, [req[r] EXCEPT !.pc = "rest"]) ELSE End(r)
  BY <1>4, RecordTables
<1>6. CASE ~(Answered(r, db) /\ req[r].rest # <<>>)
  <2>1. PICK new : Moves(r, new) /\ Unladen(new)
    BY <1>2, <1>5, <1>6, EndMoves
  <2>2. /\ db \in RecordCall
        /\ Moves(r, new) /\ req[r].op = "apply" /\ req[r].pc = "record" /\ turn = Nobody
        /\ Goes(db) /\ TablesTyped /\ Stays /\ Recorded(r, db)
        /\ Previous(r) \in Patch /\ DOMAIN Previous(r) = DOMAIN req[r].patch
        /\ \A f \in DOMAIN req[r].patch : Previous(r)[f] = req[r].seen[f]
        /\ \/ /\ Answered(r, db) /\ req[r].rest # <<>>
              /\ Proceeds(new, req[r]) /\ new.pc = "rest" /\ new.made = {}
           \/ ~(Answered(r, db) /\ req[r].rest # <<>>) /\ Unladen(new)
    BY <1>2, <1>4, <1>5, <1>6, <2>1
  <2> QED
    BY Zenon, <2>2
<1>7. CASE Answered(r, db) /\ req[r].rest # <<>>
  <2> DEFINE new == [req[r] EXCEPT !.pc = "rest"]
  <2>1. /\ new \in Coroutine /\ Proceeds(new, req[r]) /\ new.pc = "rest"
        /\ new.made = req[r].made
    BY ZenonT(60), <1>2, Placing DEF Place
  <2>2. GoOn(r, new)
    BY <1>5, <1>7
  <2> HIDE DEF new
  <2>3. Places(new) /\ About(new) /\ new.pc \in MidTurn /\ new.made = {}
    BY <1>2, <2>1 DEF Places, About, MidTurn, Proceeds
  <2>4. Moves(r, new)
    BY <1>2, <2>1, <2>2, <2>3, GoOnMoves
  <2> QED
    BY <1>2, <1>4, <1>5, <1>7, <2>1, <2>3, <2>4
<1> QED
  BY <1>6, <1>7

\* The rest of a fix becomes a suggestion.
LEMMA KeepRestMoves ==
  ASSUME Types, Located, NEW r \in Request, KeepRest(r)
  PROVE  \E db, new :
           /\ db \in Call
           /\ Moves(r, new) /\ Unladen(new) /\ turn = r
           /\ req[r].op = "apply" /\ req[r].pc = "rest"
           /\ req[r].sug \in Sug /\ Known(req[r].sug) /\ req[r].rest \in Patch
           /\ Goes(db) /\ Create(Child(req[r].sug, req[r].rest), db)
<1>1. At(r, "apply", "rest") /\ End(r)
  BY DEF KeepRest
<1>2. /\ turn \in {Nobody, r} /\ req[r].op = "apply" /\ req[r].pc = "rest" /\ turn = r
      /\ req[r].sug \in Sug /\ Known(req[r].sug) /\ req[r].rest \in Patch
  BY <1>1, AtPlace DEF MidTurn, About, Coroutine
<1>3. PICK db \in Call : Goes(db) /\ Create(Child(req[r].sug, req[r].rest), db)
  BY DEF KeepRest, Rest
<1>4. PICK new : Moves(r, new) /\ Unladen(new)
  BY <1>1, <1>2, EndMoves
<1> QED
  BY <1>2, <1>3, <1>4

\* What is kept of a fix.
LEMMA PutBackPatch ==
  ASSUME Types, NEW s \in Sug, Known(s), Get(s).previous # Absent
  PROVE  /\ Get(s).patch \in Patch /\ Get(s).previous \in Patch /\ PutBack(s) \in Patch
         /\ DOMAIN PutBack(s) = DOMAIN Get(s).patch \cap DOMAIN Get(s).previous
         /\ \A f \in DOMAIN PutBack(s) : PutBack(s)[f] = Get(s).previous[f]
<1>1. Get(s).patch \in Patch /\ Get(s).previous \in Patch
  BY TableRows, RowFields
<1> DEFINE fields == DOMAIN Get(s).patch \cap DOMAIN Get(s).previous
<1>2. fields \in SUBSET DOMAIN Get(s).previous
  OBVIOUS
<1>3. /\ Restrict(Get(s).previous, fields) \in Patch
      /\ DOMAIN Restrict(Get(s).previous, fields) = fields
      /\ \A f \in fields : Restrict(Get(s).previous, fields)[f] = Get(s).previous[f]
  BY Zenon, <1>1, <1>2, RestrictPatch
<1> QED
  BY <1>1, <1>3 DEF PutBack

\* A revert starts with what the fix changed and what the shop held.
LEMMA StartRevertMoves ==
  ASSUME Types, Located, NEW r \in Request, StartRevert(r)
  PROVE  \E new :
           /\ Moves(r, new) /\ turn = Nobody
           /\ new.op = "revert" /\ new.pc = "check" /\ new.made = {}
           /\ Get(new.sug).status = "applied" /\ Get(new.sug).previous # Absent
           /\ new.patch = Get(new.sug).patch /\ new.rest = PutBack(new.sug)
<1>1. PICK s \in {x \in Sug : Known(x)} :
        /\ Get(s).status = "applied" /\ Get(s).previous # Absent
        /\ Await(r, [Idle EXCEPT !.op = "revert", !.pc = "check", !.sug = s,
                      !.patch = Get(s).patch, !.rest = PutBack(s), !.seen = Get(s).patch])
  BY Zenon DEF StartRevert
<1> DEFINE new == [Idle EXCEPT !.op = "revert", !.pc = "check", !.sug = s,
                      !.patch = Get(s).patch, !.rest = PutBack(s), !.seen = Get(s).patch]
<1>2. turn \in {Nobody, r} /\ turn = Nobody
  BY Asking DEF StartRevert
<1>3. /\ Get(s).patch \in Patch /\ PutBack(s) \in Patch
      /\ DOMAIN PutBack(s) \subseteq DOMAIN Get(s).patch
  BY <1>1, PutBackPatch
<1>4. new \in Coroutine
  BY Zenon, <1>3, IdleFields DEF Coroutine, Operation, Place
<1>5. /\ new.op = "revert" /\ new.pc = "check" /\ new.sug = s /\ new.made = {}
      /\ new.queue = <<>> /\ new.patch = Get(s).patch /\ new.rest = PutBack(s)
      /\ new.seen = Get(s).patch
  BY DEF Idle
<1>6. Await(r, new)
  BY <1>1
<1> HIDE DEF new
<1>7. Places(new) /\ About(new) /\ new.pc \notin MidTurn
  BY <1>1, <1>3, <1>5 DEF Places, About, MidTurn
<1>8. Moves(r, new)
  BY <1>2, <1>4, <1>6, <1>7, AwaitMoves
<1> QED
  BY <1>1, <1>2, <1>5, <1>8

\* A revert goes on when the shop holds what the fix put there.
LEMMA CheckDriftMoves ==
  ASSUME Types, Located, NEW r \in Request, CheckDrift(r)
  PROVE  \E new :
           /\ Moves(r, new) /\ req[r].op = "revert" /\ req[r].pc = "check" /\ turn = Nobody
           /\ \/ Unladen(new)
              \/ /\ Proceeds(new, req[r]) /\ new.pc = "write" /\ new.made = {}
<1> DEFINE todo == Stages(DOMAIN req[r].rest)
           new == [req[r] EXCEPT !.pc = "write", !.seen = live, !.todo = todo]
<1>1. /\ At(r, "revert", "check")
      /\ End(r) \/ (Unchanged(r, DOMAIN req[r].patch) /\ todo # {} /\ Await(r, new))
  BY DEF CheckDrift
<1>2. /\ turn \in {Nobody, r} /\ req[r].op = "revert" /\ req[r].pc = "check" /\ turn = Nobody
      /\ req[r] \in Coroutine /\ About(req[r])
  BY <1>1, AtPlace DEF MidTurn
<1>3. CASE End(r)
  BY <1>2, <1>3, EndMoves
<1>4. CASE Unchanged(r, DOMAIN req[r].patch) /\ todo # {} /\ Await(r, new)
  <2>1. live \in Patch /\ DOMAIN live = Field
    BY Zenon, PatchFrom DEF Types
  <2>2. todo \subseteq 1..3 /\ todo # {}
    BY <1>4 DEF Stages
  <2> HIDE DEF todo
  <2>3. /\ new \in Coroutine /\ Proceeds(new, req[r]) /\ new.pc = "write" /\ new.seen = live
        /\ new.made = req[r].made /\ new.todo = todo
    BY Zenon, <1>2, <2>1, <2>2 DEF Coroutine, Place, Proceeds
  <2>4. Await(r, new)
    BY <1>4
  <2> HIDE DEF new
  <2>5. \A f \in DOMAIN new.patch : new.seen[f] = new.patch[f]
    BY <1>2, <1>4, <2>3 DEF Unchanged, Proceeds, About
  <2>6. Places(new) /\ About(new) /\ new.pc \notin MidTurn /\ new.made = {}
    BY <1>2, <2>1, <2>2, <2>3, <2>5 DEF Places, About, MidTurn, Proceeds
  <2>7. Moves(r, new)
    BY <1>2, <2>3, <2>4, <2>6, AwaitMoves
  <2> QED
    BY <1>2, <2>3, <2>6, <2>7
<1> QED
  BY <1>1, <1>3, <1>4

\* A revert is recorded, tried again, or given up.
LEMMA RecordRevertedMoves ==
  ASSUME Types, Located, NEW r \in Request, RecordReverted(r)
  PROVE  LET s == req[r].sug
         IN \E db, new :
              /\ db \in Call
              /\ Moves(r, new) /\ req[r].op = "revert" /\ req[r].pc = "record" /\ turn = Nobody
              /\ s \in Sug /\ Goes(db) /\ Become("reverted", s, {"applied"}, db)
              /\ torn' = (torn \/ ~Noticed(s, {"applied"}, db))
              /\ \/ /\ Updated(s, {"applied"}, db)
                    /\ Proceeds(new, req[r]) /\ new.pc = "reopen" /\ new.made = {}
                 \/ /\ ~Updated(s, {"applied"}, db)
                    /\ \/ Unladen(new)
                       \/ Proceeds(new, req[r]) /\ new.pc = "record" /\ new.made = {}
<1> DEFINE s == req[r].sug
           again == [req[r] EXCEPT !.tries = req[r].tries + 1]
           new == [req[r] EXCEPT !.pc = "reopen"]
<1>1. At(r, "revert", "record")
  BY DEF RecordReverted
<1>2. /\ turn \in {Nobody, r} /\ req[r].op = "revert" /\ req[r].pc = "record" /\ turn = Nobody
      /\ req[r] \in Coroutine /\ About(req[r]) /\ s \in Sug
  BY <1>1, AtPlace DEF MidTurn, About
<1>3. PICK db \in Call :
        /\ Goes(db) /\ Become("reverted", s, {"applied"}, db)
        /\ torn' = (torn \/ ~Noticed(s, {"applied"}, db))
        /\ IF Updated(s, {"applied"}, db) THEN GoOn(r, new)
           ELSE IF req[r].tries < 2 THEN Await(r, again) ELSE End(r)
  BY DEF RecordReverted
<1>4. /\ new \in Coroutine /\ Proceeds(new, req[r]) /\ new.pc = "reopen"
      /\ new.made = req[r].made /\ new.seen = req[r].seen
  BY ZenonT(60), <1>2, Placing DEF Place
<1>5. Updated(s, {"applied"}, db) => Moves(r, new) /\ new.made = {}
  <2>1. Updated(s, {"applied"}, db) => GoOn(r, new)
    BY <1>3
  <2> HIDE DEF new
  <2>2. Places(new) /\ About(new) /\ new.pc \in MidTurn /\ new.made = {}
    BY <1>2, <1>4 DEF Places, About, MidTurn, Proceeds
  <2> QED
    BY <1>2, <1>4, <2>1, <2>2, GoOnMoves
<1>6. req[r].tries < 2 => /\ again \in Coroutine /\ Proceeds(again, req[r])
                          /\ again.pc = "record" /\ again.made = req[r].made
                          /\ again.seen = req[r].seen
  BY <1>2 DEF Coroutine, Proceeds
<1>7. ~Updated(s, {"applied"}, db) /\ req[r].tries < 2 => Moves(r, again) /\ again.made = {}
  <2> SUFFICES ASSUME ~Updated(s, {"applied"}, db), req[r].tries < 2
               PROVE  Moves(r, again) /\ again.made = {}
    OBVIOUS
  <2>1. Await(r, again)
    BY <1>3
  <2> HIDE DEF again
  <2>2. Places(again) /\ About(again) /\ again.pc \notin MidTurn /\ again.made = {}
    BY <1>2, <1>6 DEF Places, About, MidTurn, Proceeds
  <2> QED
    BY <1>2, <1>6, <2>1, <2>2, AwaitMoves
<1>8. ~Updated(s, {"applied"}, db) /\ ~(req[r].tries < 2) => \E end : Moves(r, end) /\ Unladen(end)
  BY <1>2, <1>3, EndMoves
<1> HIDE DEF s, again, new
<1> QED
  BY <1>2, <1>3, <1>4, <1>5, <1>6, <1>7, <1>8 DEF s

\* A fix that is pending again is a row.
LEMMA ReopenedRow ==
  ASSUME Types, NEW s \in Sug, Known(s), NEW patch \in Patch
  PROVE  LET x == [Child(s, patch) EXCEPT !.reopens = s]
         IN  /\ x \in Suggestion /\ x.status = "pending" /\ x.patch = patch
             /\ x.previous = Absent /\ x.root = Get(s).root /\ x.reopens = s /\ x.by = 0
  BY ChildRow DEF Suggestion

\* A reverted fix is made pending again, unless it was before, and the request ends.
LEMMA ReopenMoves ==
  ASSUME Types, Located, NEW r \in Request, Reopen(r)
  PROVE  LET s == req[r].sug
         IN \E new :
              /\ Moves(r, new) /\ Unladen(new) /\ turn = r
              /\ req[r].op = "revert" /\ req[r].pc = "reopen"
              /\ s \in Sug /\ Known(s) /\ req[r].patch \in Patch
              /\ \/ /\ \E t \in Sug : Known(t) /\ Get(t).reopens = s
                    /\ UNCHANGED <<row, cache, torn, left>>
                 \/ /\ ~\E t \in Sug : Known(t) /\ Get(t).reopens = s
                    /\ \E db \in Call :
                         /\ Goes(db)
                         /\ Create([Child(s, req[r].patch) EXCEPT !.reopens = s], db)
<1>1. At(r, "revert", "reopen") /\ End(r)
  BY DEF Reopen
<1>2. /\ turn \in {Nobody, r} /\ req[r].op = "revert" /\ req[r].pc = "reopen" /\ turn = r
      /\ req[r].sug \in Sug /\ Known(req[r].sug) /\ req[r].patch \in Patch
  BY <1>1, AtPlace DEF MidTurn, About, Coroutine
<1>3. PICK new : Moves(r, new) /\ Unladen(new)
  BY <1>1, <1>2, EndMoves
<1> QED
  BY <1>2, <1>3 DEF Reopen

\* One field of a pending fix is asked for anew, and the request takes the fix apart.
LEMMA StartRegenerateMoves ==
  ASSUME Types, Located, NEW r \in Request, StartRegenerate(r)
  PROVE  \E new :
           /\ Moves(r, new) /\ turn = Nobody
           /\ new.op = "regenerate" /\ new.pc = "generate" /\ new.made = {}
           /\ Get(new.sug).status = "pending"
           /\ new.asked \cup DOMAIN new.rest = DOMAIN Get(new.sug).patch
           /\ new.asked \cap DOMAIN new.rest = {}
<1>0. PICK s \in {x \in Sug : Known(x)} :
        /\ Get(s).status = "pending"
        /\ \E f \in DOMAIN Get(s).patch : Await(r,
             [Idle EXCEPT !.op = "regenerate", !.pc = "generate", !.sug = s, !.asked = {f},
                          !.rest = Restrict(Get(s).patch, DOMAIN Get(s).patch \ {f})])
  BY Zenon DEF StartRegenerate
<1>1. PICK f \in DOMAIN Get(s).patch :
        /\ Get(s).status = "pending"
        /\ Await(r, [Idle EXCEPT !.op = "regenerate", !.pc = "generate", !.sug = s,
                      !.asked = {f}, !.rest = Restrict(Get(s).patch, DOMAIN Get(s).patch \ {f})])
  BY Zenon, <1>0
<1> DEFINE fields == DOMAIN Get(s).patch \ {f}
           rest == Restrict(Get(s).patch, fields)
           new == [Idle EXCEPT !.op = "regenerate", !.pc = "generate", !.sug = s,
                               !.asked = {f}, !.rest = rest]
<1>2. turn \in {Nobody, r} /\ turn = Nobody
  BY Asking DEF StartRegenerate
<1>3. Get(s).patch \in Patch /\ f \in Field
  BY <1>1, TableRows, RowFields, PatchFacts
<1>4. rest \in Patch /\ DOMAIN rest = fields
  BY <1>3, RestrictPatch
<1>5. Await(r, new)
  BY <1>1
<1> HIDE DEF rest
<1>6. new \in Coroutine
  BY Zenon, <1>3, <1>4, IdleFields DEF Coroutine, Operation, Place
<1>7. /\ new.op = "regenerate" /\ new.pc = "generate" /\ new.sug = s /\ new.made = {}
      /\ new.queue = <<>> /\ new.asked = {f} /\ new.rest = rest
  BY DEF Idle
<1> HIDE DEF new
<1>8. Places(new) /\ About(new) /\ new.pc \notin MidTurn
  BY <1>1, <1>7 DEF Places, About, MidTurn
<1>9. Moves(r, new)
  BY <1>2, <1>5, <1>6, <1>8, AwaitMoves
<1> QED
  BY <1>1, <1>2, <1>4, <1>7, <1>9

\* A request for which the model has nothing ends.
LEMMA NothingGeneratedMoves ==
  ASSUME Types, Located, NEW r \in Request, NothingGenerated(r)
  PROVE  \E new : Moves(r, new) /\ Unladen(new)
  BY AtPlace, EndMoves DEF NothingGenerated

\* The model's values are a patch of the fields that were asked for.
LEMMA Generated ==
  ASSUME NEW s \in Sug, NEW fields \in SUBSET Field
  PROVE  [f \in fields |-> Fix(s)] \in Patch /\ DOMAIN [f \in fields |-> Fix(s)] = fields
<1>1. Fix(s) \in Value
  BY BoundAssumption DEF Fix, Value, Sug
<1> QED
  BY <1>1, PatchFrom

\* The replacement of a field is created.
LEMMA ReplaceMoves ==
  ASSUME Types, Located, NEW r \in Request, Replace(r)
  PROVE  LET patch == [f \in req[r].asked |-> Fix(Free)]
         IN \E db, new :
              /\ db \in Call
              /\ Moves(r, new) /\ req[r].op = "regenerate" /\ req[r].pc = "generate"
              /\ turn = Nobody
              /\ req[r].sug \in Sug /\ Known(req[r].sug)
              /\ patch \in Patch /\ DOMAIN patch = req[r].asked
              /\ Goes(db) /\ Create(Child(req[r].sug, patch), db)
              /\ Proceeds(new, req[r]) /\ new.made = {Free}
              /\ new.pc = IF req[r].rest = <<>> THEN "supersede" ELSE "carry"
<1> DEFINE patch == [f \in req[r].asked |-> Fix(Free)]
           pc == IF req[r].rest = <<>> THEN "supersede" ELSE "carry"
           new == [req[r] EXCEPT !.made = {Free}, !.pc = pc]
<1>1. At(r, "regenerate", "generate") /\ GoOn(r, new)
  BY DEF Replace
<1>2. /\ turn \in {Nobody, r} /\ req[r].op = "regenerate" /\ req[r].pc = "generate"
      /\ turn = Nobody /\ req[r] \in Coroutine /\ About(req[r])
      /\ req[r].sug \in Sug /\ Known(req[r].sug)
  BY <1>1, AtPlace DEF MidTurn, About
<1>3. PICK db \in Call : Goes(db) /\ Create(Child(req[r].sug, patch), db)
  BY DEF Replace
<1>4. Free \in Sug
  BY <1>3 DEF Create, Room, Free
<1>5. patch \in Patch /\ DOMAIN patch = req[r].asked
  BY <1>2, <1>4, Generated DEF Coroutine
<1> HIDE DEF Free
<1>6. /\ new \in Coroutine /\ Proceeds(new, req[r]) /\ new.pc = pc /\ new.made = {Free}
      /\ new.seen = req[r].seen
  BY Zenon, <1>2, <1>4 DEF Coroutine, Place, Proceeds
<1> HIDE DEF new, patch
<1>7. Places(new) /\ About(new) /\ new.pc \in MidTurn
  BY <1>2, <1>6 DEF Places, About, MidTurn, Proceeds
<1>8. Moves(r, new)
  BY <1>1, <1>2, <1>6, <1>7, GoOnMoves
<1> QED
  BY <1>2, <1>3, <1>5, <1>6, <1>8 DEF patch

\* What was not asked for is carried into a suggestion of its own.
LEMMA CarryMoves ==
  ASSUME Types, Located, NEW r \in Request, CarryForward(r)
  PROVE  \E db, new :
           /\ db \in Call
           /\ Moves(r, new) /\ req[r].op = "regenerate" /\ req[r].pc = "carry" /\ turn = r
           /\ req[r].sug \in Sug /\ Known(req[r].sug) /\ req[r].rest \in Patch
           /\ Goes(db) /\ Create(Child(req[r].sug, req[r].rest), db)
           /\ Proceeds(new, req[r]) /\ new.made = req[r].made \cup {Free}
           /\ new.pc = "supersede"
<1> DEFINE new == [req[r] EXCEPT !.made = req[r].made \cup {Free}, !.pc = "supersede"]
<1>1. At(r, "regenerate", "carry") /\ GoOn(r, new)
  BY DEF CarryForward
<1>2. /\ turn \in {Nobody, r} /\ req[r].op = "regenerate" /\ req[r].pc = "carry"
      /\ turn = r /\ req[r] \in Coroutine /\ About(req[r])
      /\ req[r].sug \in Sug /\ Known(req[r].sug) /\ req[r].rest \in Patch
  BY <1>1, AtPlace DEF MidTurn, About, Coroutine
<1>3. PICK db \in Call : Goes(db) /\ Create(Child(req[r].sug, req[r].rest), db)
  BY DEF CarryForward
<1>4. Free \in Sug
  BY <1>3 DEF Create, Room, Free
<1> HIDE DEF Free
<1>5. /\ new \in Coroutine /\ Proceeds(new, req[r]) /\ new.pc = "supersede"
      /\ new.made = req[r].made \cup {Free} /\ new.seen = req[r].seen
  BY Zenon, <1>2, <1>4 DEF Coroutine, Place, Proceeds
<1> HIDE DEF new
<1>6. Places(new) /\ About(new) /\ new.pc \in MidTurn
  BY <1>2, <1>5 DEF Places, About, MidTurn, Proceeds
<1>7. Moves(r, new)
  BY <1>1, <1>2, <1>5, <1>6, GoOnMoves
<1> QED
  BY <1>2, <1>3, <1>5, <1>7

\* The source is superseded, or its replacements are to be.
LEMMA SupersedeMoves ==
  ASSUME Types, Located, NEW r \in Request, SupersedeSource(r)
  PROVE  LET s == req[r].sug
         IN \E db, new :
              /\ db \in Call
              /\ Moves(r, new) /\ req[r].op = "regenerate" /\ req[r].pc = "supersede"
              /\ turn = r /\ s \in Sug
              /\ Goes(db) /\ Become("superseded", s, {"pending"}, db)
              /\ torn' = (torn \/ ~Noticed(s, {"pending"}, db))
              /\ \/ Updated(s, {"pending"}, db) /\ Unladen(new)
                 \/ /\ ~Updated(s, {"pending"}, db) /\ Proceeds(new, req[r])
                    /\ new.pc = "undo" /\ new.made = req[r].made
<1> DEFINE s == req[r].sug
           new == [req[r] EXCEPT !.pc = "undo"]
<1>1. At(r, "regenerate", "supersede")
  BY DEF SupersedeSource
<1>2. /\ turn \in {Nobody, r} /\ req[r].op = "regenerate" /\ req[r].pc = "supersede"
      /\ turn = r /\ req[r] \in Coroutine /\ About(req[r]) /\ s \in Sug
  BY <1>1, AtPlace DEF MidTurn, About
<1>3. PICK db \in Call :
        /\ Goes(db) /\ Become("superseded", s, {"pending"}, db)
        /\ torn' = (torn \/ ~Noticed(s, {"pending"}, db))
        /\ IF Updated(s, {"pending"}, db) THEN End(r) ELSE GoOn(r, new)
  BY DEF SupersedeSource
<1>4. /\ new \in Coroutine /\ Proceeds(new, req[r]) /\ new.pc = "undo"
      /\ new.made = req[r].made /\ new.seen = req[r].seen
  BY Zenon, <1>2, Placing DEF Place
<1>5. ~Updated(s, {"pending"}, db) => Moves(r, new)
  <2>1. ~Updated(s, {"pending"}, db) => GoOn(r, new)
    BY <1>3
  <2> HIDE DEF new
  <2>2. Places(new) /\ About(new) /\ new.pc \in MidTurn
    BY <1>2, <1>4 DEF Places, About, MidTurn, Proceeds
  <2> QED
    BY <1>2, <1>4, <2>1, <2>2, GoOnMoves
<1>6. Updated(s, {"pending"}, db) => \E end : Moves(r, end) /\ Unladen(end)
  BY <1>2, <1>3, EndMoves
<1> HIDE DEF s, new
<1> QED
  BY <1>2, <1>3, <1>4, <1>5, <1>6 DEF s

\* A replacement is superseded.
LEMMA UndoMoves ==
  ASSUME Types, Located, NEW r \in Request, UndoChild(r)
  PROVE  \E c, db, new :
           /\ c \in req[r].made /\ db \in Call
           /\ Moves(r, new) /\ req[r].op = "regenerate" /\ req[r].pc = "undo"
           /\ turn = r /\ c \in Sug
           /\ Goes(db) /\ Become("superseded", c, {"pending"}, db)
           /\ torn' = (torn \/ db # "ok")
           /\ \/ req[r].made = {c} /\ Unladen(new)
              \/ Proceeds(new, req[r]) /\ new.pc = "undo" /\ new.made = req[r].made \ {c}
<1>1. At(r, "regenerate", "undo")
  BY DEF UndoChild
<1>2. /\ turn \in {Nobody, r} /\ req[r].op = "regenerate" /\ req[r].pc = "undo"
      /\ turn = r /\ req[r] \in Coroutine /\ About(req[r]) /\ req[r].made \subseteq Sug
  BY <1>1, AtPlace DEF MidTurn, Coroutine
<1>3. PICK c \in req[r].made, db \in Call :
        /\ Goes(db) /\ Become("superseded", c, {"pending"}, db)
        /\ torn' = (torn \/ db # "ok")
        /\ IF req[r].made = {c} THEN End(r)
           ELSE GoOn(r, [req[r] EXCEPT !.made = req[r].made \ {c}])
  BY Zenon DEF UndoChild
<1> DEFINE new == [req[r] EXCEPT !.made = req[r].made \ {c}]
<1>4. /\ new \in Coroutine /\ Proceeds(new, req[r]) /\ new.pc = "undo"
      /\ new.made = req[r].made \ {c} /\ new.seen = req[r].seen
  BY Zenon, <1>2 DEF Coroutine, Proceeds
<1>5. req[r].made # {c} => Moves(r, new)
  <2>1. req[r].made # {c} => GoOn(r, new)
    BY <1>3
  <2> HIDE DEF new
  <2>2. Places(new) /\ About(new) /\ new.pc \in MidTurn
    BY <1>2, <1>4 DEF Places, About, MidTurn, Proceeds
  <2> QED
    BY <1>2, <1>4, <2>1, <2>2, GoOnMoves
<1>6. req[r].made = {c} => \E end : Moves(r, end) /\ Unladen(end)
  BY <1>2, <1>3, EndMoves
<1> HIDE DEF new
<1> QED
  BY <1>2, <1>3, <1>4, <1>5, <1>6

\* The audit of a request that has saved it is there; one that withdraws had the model's
\* answer, and when it finishes nothing but its own fixes is pending
Audited ==
  \A r \in Request : req[r].op = "audit" =>
    /\ req[r].pc # "generate" => audit[req[r].sug] # Absent
    /\ req[r].pc = "withdraw" => audit[req[r].sug].ready
    /\ req[r].pc = "finish" /\ audit[req[r].sug].ready =>
         \A s \in Sug : row[s] # Absent /\ row[s].status = "pending" => row[s].audit = req[r].sug

\* A request for an audit takes a number that is free.
LEMMA StartAuditMoves ==
  ASSUME Types, Located, NEW r \in Request, StartAudit(r)
  PROVE  \E new : Moves(r, new) /\ Unladen(new)
<1>1. PICK a \in Audit : Await(r, [Idle EXCEPT !.op = "audit", !.pc = "generate", !.sug = a])
  BY Zenon DEF StartAudit
<1> DEFINE new == [Idle EXCEPT !.op = "audit", !.pc = "generate", !.sug = a]
<1>2. turn \in {Nobody, r}
  BY Asking DEF StartAudit
<1>3. new \in Coroutine
  BY Zenon, IdleFields DEF Coroutine, Operation, Place
<1>4. /\ new.op = "audit" /\ new.pc = "generate" /\ new.sug = a /\ new.made = {}
      /\ new.queue = <<>>
  BY DEF Idle
<1> HIDE DEF new
<1>5. Places(new) /\ About(new) /\ Unladen(new) /\ new.pc \notin MidTurn
  BY <1>4 DEF Places, About, Unladen, MidTurn
<1> QED
  BY Zenon, <1>1, <1>2, <1>3, <1>5, AwaitMoves DEF new

\* An audit that goes to another place between two awaits.
LEMMA AuditPlacing ==
  ASSUME Types, Located, NEW r \in Request, turn \in {Nobody, r}, req[r].op = "audit",
         NEW pc \in {"children", "withdraw", "finish", "error"},
         GoOn(r, [req[r] EXCEPT !.pc = pc])
  PROVE  \E new : /\ Moves(r, new) /\ Proceeds(new, req[r]) /\ new.pc = pc /\ new.made = {}
<1> DEFINE new == [req[r] EXCEPT !.pc = pc]
<1>1. req[r] \in Coroutine /\ About(req[r])
  BY Turns
<1>2. /\ new \in Coroutine /\ Proceeds(new, req[r]) /\ new.pc = pc
      /\ new.made = req[r].made /\ new.seen = req[r].seen
  <2>1. pc \in Place
    BY DEF Place
  <2> QED
    BY <1>1, <2>1, Placing
<1> HIDE DEF new
<1>3. Places(new) /\ About(new) /\ new.pc \in MidTurn /\ new.made = {}
  BY <1>1, <1>2 DEF Places, About, MidTurn, Proceeds
<1> QED
  BY Zenon, <1>2, <1>3, GoOnMoves DEF new

\* A request of an audit is at one of its places.
LEMMA AuditPlace ==
  ASSUME Types, Located, Audited, NEW r \in Request, NEW pc, At(r, "audit", pc)
  PROVE  /\ turn \in {Nobody, r} /\ req[r].op = "audit" /\ req[r].pc = pc
         /\ req[r].sug \in Audit
         /\ pc # "generate" => audit[req[r].sug] \in AuditRow
         /\ turn = IF pc \in MidTurn THEN r ELSE Nobody
<1>1. /\ turn \in {Nobody, r} /\ req[r].op = "audit" /\ req[r].pc = pc /\ req[r].sug \in Audit
      /\ turn = IF pc \in MidTurn THEN r ELSE Nobody
  BY AtPlace DEF About
<1> QED
  BY <1>1 DEF Audited, Types

\* An audit is stored, or the request ends.
LEMMA SaveAuditMoves ==
  ASSUME Types, Located, Audited, NEW r \in Request, SaveAudit(r)
  PROVE  \E db, ready, new :
           /\ db \in Call /\ ready \in BOOLEAN
           /\ Moves(r, new) /\ Goes(db) /\ turn = Nobody
           /\ req[r].op = "audit" /\ req[r].pc = "generate" /\ req[r].sug \in Audit
           /\ audit' = IF db = "fails" THEN audit
                       ELSE [audit EXCEPT ![req[r].sug] = [status |-> "pending", ready |-> ready]]
           /\ \/ db = "ok" /\ Proceeds(new, req[r]) /\ new.pc = "children" /\ new.made = {}
              \/ Unladen(new)
<1>1. At(r, "audit", "generate")
  BY DEF SaveAudit
<1>2. /\ turn \in {Nobody, r} /\ turn = Nobody /\ req[r].op = "audit" /\ req[r].pc = "generate"
      /\ req[r].sug \in Audit
  BY <1>1, AuditPlace DEF MidTurn
<1>3. PICK db \in Call, ready \in BOOLEAN :
        /\ Goes(db)
        /\ audit' = IF db = "fails" THEN audit
                    ELSE [audit EXCEPT ![req[r].sug] = [status |-> "pending", ready |-> ready]]
        /\ IF db = "ok" THEN GoOn(r, [req[r] EXCEPT !.pc = "children"]) ELSE End(r)
  BY DEF SaveAudit
<1>4. CASE db = "ok"
  <2>1. PICK new : Moves(r, new) /\ Proceeds(new, req[r]) /\ new.pc = "children" /\ new.made = {}
    BY Zenon, <1>2, <1>3, <1>4, AuditPlacing
  <2> QED
    BY Zenon, <1>2, <1>3, <1>4, <2>1
<1>5. CASE db # "ok"
  <2>1. PICK new : Moves(r, new) /\ Unladen(new)
    BY <1>2, <1>3, <1>5, EndMoves
  <2> QED
    BY <1>2, <1>3, <2>1
<1> QED
  BY Zenon, <1>4, <1>5

\* The row of a fix that an audit proposes
Proposed(s, fields, a) ==
  [status |-> "pending", patch |-> [f \in fields |-> Fix(s)], previous |-> Absent,
   root |-> s, audit |-> a, reopens |-> 0, by |-> 0]

\* What an audit proposes is a row.
LEMMA ProposedRow ==
  ASSUME NEW s \in Sug, NEW fields \in Proposals, NEW a \in Audit
  PROVE  /\ Proposed(s, fields, a) \in Suggestion /\ Proposed(s, fields, a).status = "pending"
         /\ DOMAIN Proposed(s, fields, a).patch = fields
         /\ Proposed(s, fields, a).previous = Absent /\ Proposed(s, fields, a).root = s
         /\ Proposed(s, fields, a).audit = a /\ Proposed(s, fields, a).reopens = 0
         /\ Proposed(s, fields, a).by = 0
<1>1. fields \in SUBSET Field
  BY ShopAssumption
<1>2. [f \in fields |-> Fix(s)] \in Patch /\ DOMAIN [f \in fields |-> Fix(s)] = fields
  BY <1>1, Generated
<1> QED
  BY <1>2 DEF Proposed, Suggestion, Status

\* The fix of an audit is stored, and the audit goes on as the model answered.
LEMMA SaveChildrenMoves ==
  ASSUME Types, Located, Audited, NEW r \in Request, SaveChildren(r)
  PROVE  LET a == req[r].sug
         IN \E fields, db, new :
              /\ fields \in Proposals /\ db \in Call
              /\ Moves(r, new) /\ Proceeds(new, req[r]) /\ new.made = {} /\ turn = r
              /\ new.pc \in {"withdraw", "finish", "error"}
              /\ new.pc = "withdraw" => audit[a].ready
              /\ new.pc = "finish" => ~audit[a].ready
              /\ req[r].op = "audit" /\ req[r].pc = "children" /\ a \in Audit
              /\ Goes(db)
              /\ Free \in Sug /\ row[Free] = Absent /\ cache[Free] = Absent
              /\ row' = IF db = "fails" THEN row ELSE [row EXCEPT ![Free] = Proposed(Free, fields, a)]
              /\ offered' = IF db = "fails" THEN offered ELSE [offered EXCEPT ![Free] = fields]
<1> DEFINE a == req[r].sug
<1>1. At(r, "audit", "children") /\ Room
  BY DEF SaveChildren
<1>2. /\ turn \in {Nobody, r} /\ turn = r /\ req[r].op = "audit" /\ req[r].pc = "children"
      /\ a \in Audit /\ audit[a] \in AuditRow
  BY <1>1, AuditPlace DEF MidTurn
<1>3. Free \in Sug /\ ~Known(Free)
  BY <1>1 DEF Room, Free
<1>4. row[Free] = Absent /\ cache[Free] = Absent
  BY <1>3, TableRows
<1>5. PICK fields \in Proposals, db \in Call :
        /\ Goes(db)
        /\ row' = IF db = "fails" THEN row ELSE [row EXCEPT ![Free] = Proposed(Free, fields, a)]
        /\ offered' = IF db = "fails" THEN offered ELSE [offered EXCEPT ![Free] = fields]
        /\ GoOn(r, [req[r] EXCEPT !.pc = IF db = "ok" THEN AfterChildren(r) ELSE "error"])
  BY DEF SaveChildren, Proposed
<1> DEFINE pc == IF db = "ok" THEN AfterChildren(r) ELSE "error"
<1>6. /\ pc \in {"withdraw", "finish", "error"}
      /\ pc = "withdraw" => audit[a].ready
      /\ pc = "finish" => ~audit[a].ready
  BY DEF AfterChildren
<1>7. GoOn(r, [req[r] EXCEPT !.pc = pc])
  BY <1>5
<1> HIDE DEF pc, a, Free
<1>8. pc \in {"children", "withdraw", "finish", "error"}
  BY <1>6
<1>9. PICK new : Moves(r, new) /\ Proceeds(new, req[r]) /\ new.pc = pc /\ new.made = {}
  BY Zenon, <1>2, <1>7, <1>8, AuditPlacing
<1> QED
  BY <1>2, <1>3, <1>4, <1>5, <1>6, <1>9 DEF a

\* An audit withdraws what is pending of older ones, and goes on to its end.
LEMMA SupersedePendingMoves ==
  ASSUME Types, Located, Audited, NEW r \in Request, SupersedePending(r)
  PROVE  LET a == req[r].sug
         IN \E db, new :
              /\ db \in Call
              /\ Moves(r, new) /\ Proceeds(new, req[r]) /\ new.made = {} /\ turn = r
              /\ new.pc = IF db = "ok" THEN "finish" ELSE "error"
              /\ req[r].op = "audit" /\ req[r].pc = "withdraw" /\ a \in Audit
              /\ Goes(db)
              /\ row' = IF db = "fails" THEN row
                        ELSE [s \in Sug |-> IF Older(s, a)
                               THEN [row[s] EXCEPT !.status = "superseded", !.by = a]
                               ELSE row[s]]
<1> DEFINE a == req[r].sug
<1>1. At(r, "audit", "withdraw")
  BY Zenon DEF SupersedePending
<1>2. /\ turn \in {Nobody, r} /\ turn = r /\ req[r].op = "audit" /\ req[r].pc = "withdraw"
      /\ a \in Audit
  BY <1>1, AuditPlace DEF MidTurn
<1>3. PICK db \in Call :
        /\ Goes(db)
        /\ row' = IF db = "fails" THEN row
                  ELSE [s \in Sug |-> IF Older(s, a)
                         THEN [row[s] EXCEPT !.status = "superseded", !.by = a]
                         ELSE row[s]]
        /\ GoOn(r, [req[r] EXCEPT !.pc = IF db = "ok" THEN "finish" ELSE "error"])
  BY Zenon DEF SupersedePending
<1> HIDE DEF a
<1>4. PICK new : /\ Moves(r, new) /\ Proceeds(new, req[r]) /\ new.made = {}
                 /\ new.pc = IF db = "ok" THEN "finish" ELSE "error"
  BY Zenon, <1>2, <1>3, AuditPlacing
<1> QED
  BY Zenon, <1>2, <1>3, <1>4 DEF a

\* An audit is given its final status, or marked as failed.
LEMMA FinishAuditMoves ==
  ASSUME Types, Located, Audited, NEW r \in Request, FinishAudit(r)
  PROVE  LET a == req[r].sug
         IN \E db, new :
              /\ db \in Call
              /\ Moves(r, new) /\ turn = r
              /\ Unladen(new) \/ (Proceeds(new, req[r]) /\ new.pc = "error" /\ new.made = {})
              /\ req[r].op = "audit" /\ req[r].pc = "finish" /\ a \in Audit
              /\ audit[a] \in AuditRow /\ Goes(db)
              /\ audit' = IF db = "fails" THEN audit
                          ELSE [audit EXCEPT ![a].status = FinalStatus(a)]
<1> DEFINE a == req[r].sug
<1>1. At(r, "audit", "finish")
  BY DEF FinishAudit
<1>2. /\ turn \in {Nobody, r} /\ turn = r /\ req[r].op = "audit" /\ req[r].pc = "finish"
      /\ a \in Audit /\ audit[a] \in AuditRow
  BY <1>1, AuditPlace DEF MidTurn
<1>3. PICK db \in Call :
        /\ Goes(db)
        /\ audit' = IF db = "fails" THEN audit ELSE [audit EXCEPT ![a].status = FinalStatus(a)]
        /\ IF db = "ok" THEN End(r) ELSE GoOn(r, [req[r] EXCEPT !.pc = "error"])
  BY DEF FinishAudit, SetAuditStatus
<1> HIDE DEF a
<1>4. \E new : /\ Moves(r, new)
               /\ Unladen(new) \/ (Proceeds(new, req[r]) /\ new.pc = "error" /\ new.made = {})
  BY Zenon, <1>2, <1>3, EndMoves, AuditPlacing
<1> QED
  BY <1>2, <1>3, <1>4 DEF a

\* An audit that failed is marked so, and the request ends.
LEMMA AuditFailsMoves ==
  ASSUME Types, Located, Audited, NEW r \in Request, AuditFails(r)
  PROVE  LET a == req[r].sug
         IN \E db, new :
              /\ db \in Call
              /\ Moves(r, new) /\ turn = r /\ Unladen(new)
              /\ req[r].op = "audit" /\ req[r].pc = "error" /\ a \in Audit
              /\ audit[a] \in AuditRow /\ Goes(db)
              /\ audit' = IF db = "fails" THEN audit ELSE [audit EXCEPT ![a].status = "error"]
<1> DEFINE a == req[r].sug
<1>1. At(r, "audit", "error") /\ End(r)
  BY DEF AuditFails
<1>2. /\ turn \in {Nobody, r} /\ turn = r /\ req[r].op = "audit" /\ req[r].pc = "error"
      /\ a \in Audit /\ audit[a] \in AuditRow
  BY <1>1, AuditPlace DEF MidTurn
<1>3. PICK db \in Call :
        Goes(db) /\ audit' = IF db = "fails" THEN audit ELSE [audit EXCEPT ![a].status = "error"]
  BY DEF AuditFails, SetAuditStatus
<1> HIDE DEF a
<1>4. \E new : Moves(r, new) /\ Unladen(new)
  BY <1>1, <1>2, EndMoves
<1> QED
  BY <1>2, <1>3, <1>4 DEF a

-----------------------------------------------------------------------------
(* Every step keeps the types, and each request at a place of its          *)
(* operation.                                                              *)

\* The variables that are not of requests or tables keep their types
RestTyped ==
  /\ live' \in [Field -> Value] /\ audit' \in [Audit -> AuditRow \cup {Absent}]
  /\ offered' \in [Sug -> SUBSET Field] /\ before' \in [Sug -> Patch]
  /\ muddled' \subseteq Sug /\ late' \subseteq Sug /\ torn' \in BOOLEAN
  /\ left' \in [{"asks", "edits", "faults", "crashes"} -> Nat]

\* A request moves on, and everything else keeps its type.
LEMMA MovedTypes ==
  ASSUME Types, Located, NEW r \in Request, NEW new, Moves(r, new), Stays, TablesTyped, RestTyped
  PROVE  Types' /\ Located'
  BY MovesLocates DEF Types, TablesTyped, RestTyped

\* Tables that do not change keep their types.
LEMMA SameTables ==
  ASSUME Types, UNCHANGED <<row, cache>>
  PROVE  Stays /\ TablesTyped
  BY DEF Types, Stays, TablesTyped

\* A request that is asked for is counted.
LEMMA AskTyped ==
  ASSUME Types, NEW r \in Request, Ask(r)
  PROVE  left' \in [{"asks", "edits", "faults", "crashes"} -> Nat]
  BY DEF Ask, Counted, Types

\* Types and places after a step of an apply.
LEMMA ApplyTypes ==
  ASSUME Types, Located, Audited, NEW r \in Request, ApplyStep(r) \/ WriteStep(r)
  PROVE  Types' /\ Located'
<1>1. CASE StartApply(r)
  <2>1. UNCHANGED <<row, cache>> /\ RestTyped
    BY <1>1, AskTyped DEF StartApply, Types, RestTyped, Table, history
  <2> QED
    BY <1>1, <2>1, StartApplyMoves, SameTables, MovedTypes
<1>2. CASE StartBulk(r)
  <2>1. UNCHANGED <<row, cache>> /\ RestTyped
    BY <1>2, AskTyped DEF StartBulk, Types, RestTyped, Table, history
  <2> QED
    BY <1>2, <2>1, StartBulkMoves, SameTables, MovedTypes
<1>3. CASE StartReviewed(r)
  <2>1. UNCHANGED <<row, cache>> /\ RestTyped
    BY <1>3, AskTyped DEF StartReviewed, Types, RestTyped, Table, history
  <2> QED
    BY <1>3, <2>1, StartReviewedMoves, SameTables, MovedTypes
<1>4. CASE CheckReview(r)
  <2>1. UNCHANGED <<row, cache>> /\ RestTyped
    BY <1>4 DEF CheckReview, Types, RestTyped, Table, history
  <2> QED
    BY <1>4, <2>1, CheckReviewMoves, SameTables, MovedTypes
<1>5. CASE LoadSuggestion(r)
  <2>1. req[r].sug \in Sug
    BY <1>5, AtPlace DEF LoadSuggestion, About
  <2>2. UNCHANGED <<row, cache>> /\ RestTyped
    BY <1>5, <2>1 DEF LoadSuggestion, Types, RestTyped, Table
  <2> QED
    BY <1>5, <2>2, LoadMoves, SameTables, MovedTypes
<1>6. CASE ReadShop(r)
  <2>1. req[r].sug \in Sug
    BY <1>6, AtPlace DEF ReadShop, About
  <2>2. UNCHANGED <<row, cache>> /\ RestTyped
    BY <1>6, <2>1 DEF ReadShop, Types, RestTyped, Table
  <2> QED
    BY <1>6, <2>2, ReadMoves, SameTables, MovedTypes
<1>7. CASE RecordApplied(r)
  <2>1. PICK db, new :
          /\ db \in RecordCall
          /\ Moves(r, new) /\ Goes(db) /\ TablesTyped /\ Stays /\ Recorded(r, db)
    BY <1>7, RecordMoves
  <2> db \in RecordCall
    BY <2>1
  <2>2. row[req[r].sug] # Absent => row[req[r].sug].root \in Sug
    BY <1>7, AtPlace, TableRows, RowFields DEF RecordApplied, About
  <2>3. RestTyped
    BY <1>7, <2>1, <2>2, GoesTyped DEF RecordApplied, Recorded, Types, RestTyped
  <2> QED
    BY <2>1, <2>3, MovedTypes
<1>8. CASE KeepRest(r)
  <2>1. PICK db, new :
          /\ db \in Call
          /\ Moves(r, new) /\ req[r].sug \in Sug /\ Known(req[r].sug) /\ req[r].rest \in Patch
          /\ Goes(db) /\ Create(Child(req[r].sug, req[r].rest), db)
    BY <1>8, KeepRestMoves
  <2> db \in Call
    BY <2>1
  <2>2. Stays /\ TablesTyped /\ torn' \in BOOLEAN
    BY Zenon, <2>1, ChildRow, CreateTables DEF Types
  <2>3. RestTyped
    BY <1>8, <2>1, <2>2, GoesTyped DEF KeepRest, Types, RestTyped
  <2> QED
    BY <2>1, <2>2, <2>3, MovedTypes
<1>9. CASE WriteStep(r)
  <2>1. PICK new :
          /\ Moves(r, new)
          /\ live' \in [Field -> Value] /\ before' \in [Sug -> Patch] /\ muddled' \subseteq Sug
          /\ left' \in [{"asks", "edits", "faults", "crashes"} -> Nat]
          /\ UNCHANGED <<Table, offered, late, torn>>
    BY Zenon, <1>9, WriteMoves
  <2>2. UNCHANGED <<row, cache>> /\ RestTyped
    BY <2>1 DEF Types, RestTyped, Table
  <2> QED
    BY <2>1, <2>2, SameTables, MovedTypes
<1> QED
  BY <1>1, <1>2, <1>3, <1>4, <1>5, <1>6, <1>7, <1>8, <1>9 DEF ApplyStep

\* after a step of a revert,
LEMMA RevertTypes ==
  ASSUME Types, Located, Audited, NEW r \in Request, RevertStep(r)
  PROVE  Types' /\ Located'
<1>1. CASE StartRevert(r)
  <2>1. UNCHANGED <<row, cache>> /\ RestTyped
    BY <1>1, AskTyped DEF StartRevert, Types, RestTyped, Table, history
  <2> QED
    BY <1>1, <2>1, StartRevertMoves, SameTables, MovedTypes
<1>2. CASE CheckDrift(r)
  <2>1. UNCHANGED <<row, cache>> /\ RestTyped
    BY <1>2 DEF CheckDrift, Types, RestTyped, Table, history
  <2> QED
    BY <1>2, <2>1, CheckDriftMoves, SameTables, MovedTypes
<1>3. CASE RecordReverted(r)
  <2>1. PICK db, new :
          /\ db \in Call
          /\ Moves(r, new) /\ req[r].sug \in Sug /\ Goes(db)
          /\ Become("reverted", req[r].sug, {"applied"}, db)
          /\ torn' = (torn \/ ~Noticed(req[r].sug, {"applied"}, db))
    BY <1>3, RecordRevertedMoves
  <2> db \in Call
    BY <2>1
  <2>2. Stays /\ TablesTyped
    BY <2>1, BecomeTables DEF Status
  <2>3. torn' \in BOOLEAN
    BY <2>1 DEF Noticed, Updated
  <2>4. RestTyped
    BY <1>3, <2>1, <2>3, GoesTyped DEF RecordReverted, Types, RestTyped
  <2> QED
    BY <2>1, <2>2, <2>4, MovedTypes
<1>4. CASE Reopen(r)
  <2> DEFINE s == req[r].sug
             x == [Child(s, req[r].patch) EXCEPT !.reopens = s]
  <2>1. PICK new :
          /\ Moves(r, new) /\ s \in Sug /\ Known(s) /\ req[r].patch \in Patch
          /\ \/ UNCHANGED <<row, cache, torn, left>>
             \/ \E db \in Call : Goes(db) /\ Create(x, db)
    BY <1>4, ReopenMoves
  <2>2. x \in Suggestion
    BY <2>1, ReopenedRow
  <2> HIDE DEF x
  <2>3. CASE UNCHANGED <<row, cache, torn, left>>
    <3>1. RestTyped
      BY <1>4, <2>3 DEF Reopen, Types, RestTyped
    <3> QED
      BY <2>1, <2>3, <3>1, SameTables, MovedTypes
  <2>4. CASE \E db \in Call : Goes(db) /\ Create(x, db)
    <3>1. PICK db \in Call : Goes(db) /\ Create(x, db)
      BY <2>4
    <3>2. Stays /\ TablesTyped /\ torn' \in BOOLEAN
      BY Zenon, <2>2, <3>1, CreateTables DEF Types
    <3>3. RestTyped
      BY <1>4, <3>1, <3>2, GoesTyped DEF Reopen, Types, RestTyped
    <3> QED
      BY <2>1, <3>2, <3>3, MovedTypes
  <2> QED
    BY <2>1, <2>3, <2>4
<1> QED
  BY <1>1, <1>2, <1>3, <1>4 DEF RevertStep

\* of a regeneration,
LEMMA RegenerateTypes ==
  ASSUME Types, Located, Audited, NEW r \in Request, RegenerateStep(r)
  PROVE  Types' /\ Located'
<1>1. CASE StartRegenerate(r)
  <2>1. UNCHANGED <<row, cache>> /\ RestTyped
    BY <1>1, AskTyped DEF StartRegenerate, Types, RestTyped, Table, history
  <2> QED
    BY <1>1, <2>1, StartRegenerateMoves, SameTables, MovedTypes
<1>2. CASE NothingGenerated(r)
  <2>1. UNCHANGED <<row, cache>> /\ RestTyped
    BY <1>2 DEF NothingGenerated, Types, RestTyped, Table, history
  <2> QED
    BY <1>2, <2>1, NothingGeneratedMoves, SameTables, MovedTypes
<1>3. CASE Replace(r)
  <2> DEFINE patch == [f \in req[r].asked |-> Fix(Free)]
  <2>1. PICK db, new :
          /\ db \in Call
          /\ Moves(r, new) /\ req[r].sug \in Sug /\ Known(req[r].sug) /\ patch \in Patch
          /\ Goes(db) /\ Create(Child(req[r].sug, patch), db)
    BY <1>3, ReplaceMoves
  <2> db \in Call
    BY <2>1
  <2> HIDE DEF patch
  <2>2. Stays /\ TablesTyped /\ torn' \in BOOLEAN
    BY Zenon, <2>1, ChildRow, CreateTables DEF Types
  <2>3. RestTyped
    BY <1>3, <2>1, <2>2, GoesTyped DEF Replace, Types, RestTyped
  <2> QED
    BY <2>1, <2>2, <2>3, MovedTypes
<1>4. CASE CarryForward(r)
  <2>1. PICK db, new :
          /\ db \in Call
          /\ Moves(r, new) /\ req[r].sug \in Sug /\ Known(req[r].sug) /\ req[r].rest \in Patch
          /\ Goes(db) /\ Create(Child(req[r].sug, req[r].rest), db)
    BY <1>4, CarryMoves
  <2> db \in Call
    BY <2>1
  <2>2. Stays /\ TablesTyped /\ torn' \in BOOLEAN
    BY Zenon, <2>1, ChildRow, CreateTables DEF Types
  <2>3. RestTyped
    BY <1>4, <2>1, <2>2, GoesTyped DEF CarryForward, Types, RestTyped
  <2> QED
    BY <2>1, <2>2, <2>3, MovedTypes
<1>5. CASE SupersedeSource(r)
  <2>1. PICK db, new :
          /\ db \in Call
          /\ Moves(r, new) /\ req[r].sug \in Sug /\ Goes(db)
          /\ Become("superseded", req[r].sug, {"pending"}, db)
          /\ torn' = (torn \/ ~Noticed(req[r].sug, {"pending"}, db))
    BY <1>5, SupersedeMoves
  <2> db \in Call
    BY <2>1
  <2>2. Stays /\ TablesTyped
    BY <2>1, BecomeTables DEF Status
  <2>3. torn' \in BOOLEAN
    BY <2>1 DEF Noticed, Updated
  <2>4. RestTyped
    BY <1>5, <2>1, <2>3, GoesTyped DEF SupersedeSource, Types, RestTyped
  <2> QED
    BY <2>1, <2>2, <2>4, MovedTypes
<1>6. CASE UndoChild(r)
  <2>1. PICK c, db, new :
          /\ c \in req[r].made /\ db \in Call
          /\ Moves(r, new) /\ c \in Sug /\ Goes(db) /\ Become("superseded", c, {"pending"}, db)
          /\ torn' = (torn \/ db # "ok")
    BY <1>6, UndoMoves
  <2> c \in req[r].made /\ db \in Call
    BY <2>1
  <2>2. Stays /\ TablesTyped
    BY <2>1, BecomeTables DEF Status
  <2>3. RestTyped
    BY <1>6, <2>1, GoesTyped DEF UndoChild, Types, RestTyped
  <2> QED
    BY <2>1, <2>2, <2>3, MovedTypes
<1> QED
  BY <1>1, <1>2, <1>3, <1>4, <1>5, <1>6 DEF RegenerateStep

\* of an audit,
LEMMA AuditTypes ==
  ASSUME Types, Located, Audited, NEW r \in Request, AuditStep(r)
  PROVE  Types' /\ Located'
<1> DEFINE a == req[r].sug
<1>1. CASE StartAudit(r)
  <2>1. UNCHANGED <<row, cache>> /\ RestTyped
    BY <1>1, AskTyped DEF StartAudit, Types, RestTyped, Table, history
  <2> QED
    BY <1>1, <2>1, StartAuditMoves, SameTables, MovedTypes
<1>2. CASE SaveAudit(r)
  <2>1. PICK db, ready, new :
          /\ db \in Call /\ ready \in BOOLEAN
          /\ Moves(r, new) /\ Goes(db) /\ a \in Audit
          /\ audit' = IF db = "fails" THEN audit
                      ELSE [audit EXCEPT ![a] = [status |-> "pending", ready |-> ready]]
    BY Zenon, <1>2, SaveAuditMoves
  <2> db \in Call /\ ready \in BOOLEAN
    BY <2>1
  <2>2. [status |-> "pending", ready |-> ready] \in AuditRow
    BY DEF AuditRow
  <2>3. UNCHANGED <<row, cache>> /\ RestTyped
    BY <1>2, <2>1, <2>2, GoesTyped DEF SaveAudit, Types, RestTyped, history
  <2> QED
    BY <2>1, <2>3, SameTables, MovedTypes
<1>3. CASE SaveChildren(r)
  <2>1. PICK fields, db, new :
          /\ fields \in Proposals /\ db \in Call
          /\ Moves(r, new) /\ a \in Audit /\ Goes(db) /\ Free \in Sug /\ row[Free] = Absent
          /\ row' = IF db = "fails" THEN row ELSE [row EXCEPT ![Free] = Proposed(Free, fields, a)]
          /\ offered' = IF db = "fails" THEN offered ELSE [offered EXCEPT ![Free] = fields]
    BY <1>3, SaveChildrenMoves
  <2> fields \in Proposals /\ db \in Call
    BY <2>1
  <2> HIDE DEF Free, a
  <2>2. Proposed(Free, fields, a) \in Suggestion /\ fields \in SUBSET Field
    BY <2>1, ProposedRow, ShopAssumption
  <2>3. cache' = cache
    BY <1>3 DEF SaveChildren
  <2>4. Stays /\ TablesTyped
    BY <2>1, <2>2, <2>3 DEF Types, Stays, TablesTyped
  <2>5. RestTyped
    BY <1>3, <2>1, <2>2, GoesTyped DEF SaveChildren, Types, RestTyped
  <2> QED
    BY <2>1, <2>4, <2>5, MovedTypes
<1>4. CASE SupersedePending(r)
  <2>1. PICK db, new :
          /\ db \in Call
          /\ Moves(r, new) /\ a \in Audit /\ Goes(db)
          /\ row' = IF db = "fails" THEN row
                    ELSE [s \in Sug |-> IF Older(s, a)
                           THEN [row[s] EXCEPT !.status = "superseded", !.by = a]
                           ELSE row[s]]
    BY Zenon, <1>4, SupersedePendingMoves
  <2> db \in Call
    BY <2>1
  <2>2. \A s \in Sug : Older(s, a) => /\ row[s] # Absent
                                      /\ [row[s] EXCEPT !.status = "superseded", !.by = a] \in Suggestion
    BY ZenonT(60), <2>1, TableRows DEF Older, Suggestion, Status
  <2>3. cache' = cache
    BY Zenon, <1>4 DEF SupersedePending
  <2>4. Stays /\ TablesTyped
    BY Zenon, <2>1, <2>2, <2>3, RowFields DEF Types, Stays, TablesTyped
  <2>5. RestTyped
    BY Zenon, <1>4, <2>1, GoesTyped DEF SupersedePending, Types, RestTyped, history
  <2> QED
    BY Zenon, <2>1, <2>4, <2>5, MovedTypes
<1>5. CASE FinishAudit(r)
  <2>1. PICK db, new :
          /\ db \in Call
          /\ Moves(r, new) /\ a \in Audit /\ audit[a] \in AuditRow /\ Goes(db)
          /\ audit' = IF db = "fails" THEN audit ELSE [audit EXCEPT ![a].status = FinalStatus(a)]
    BY <1>5, FinishAuditMoves
  <2> db \in Call
    BY <2>1
  <2>2. [audit[a] EXCEPT !.status = FinalStatus(a)] \in AuditRow
    BY <2>1 DEF FinalStatus, AuditRow
  <2>3. UNCHANGED <<row, cache>> /\ RestTyped
    BY <1>5, <2>1, <2>2, GoesTyped DEF FinishAudit, Types, RestTyped, history
  <2> QED
    BY <2>1, <2>3, SameTables, MovedTypes
<1>6. CASE AuditFails(r)
  <2>1. PICK db, new :
          /\ db \in Call
          /\ Moves(r, new) /\ a \in Audit /\ audit[a] \in AuditRow /\ Goes(db)
          /\ audit' = IF db = "fails" THEN audit ELSE [audit EXCEPT ![a].status = "error"]
    BY <1>6, AuditFailsMoves
  <2> db \in Call
    BY <2>1
  <2>2. [audit[a] EXCEPT !.status = "error"] \in AuditRow
    BY <2>1 DEF AuditRow
  <2>3. UNCHANGED <<row, cache>> /\ RestTyped
    BY <1>6, <2>1, <2>2, GoesTyped DEF AuditFails, Types, RestTyped, history
  <2> QED
    BY <2>1, <2>3, SameTables, MovedTypes
<1> QED
  BY <1>1, <1>2, <1>3, <1>4, <1>5, <1>6 DEF AuditStep

\* after an edit of the merchant,
LEMMA EditTypes ==
  ASSUME Types, Located, MerchantEdits
  PROVE  Types' /\ Located'
<1>1. PICK f \in Edited : live' = [live EXCEPT ![f] = <<"edit", left["edits"]>>]
  BY Zenon DEF MerchantEdits
<1>2. <<"edit", left["edits"]>> \in Value
  BY DEF Types, Value
<1>3. Types'
  <2>1. live' \in [Field -> Value]
    BY Zenon, <1>1, <1>2 DEF Types
  <2>2. left' \in [{"asks", "edits", "faults", "crashes"} -> Nat]
    BY DEF MerchantEdits, Counted, Types
  <2> QED
    BY <2>1, <2>2 DEF MerchantEdits, Types, Table, history
<1>4. ASSUME NEW x, About(x)
      PROVE  About(x)'
  BY <1>4 DEF MerchantEdits, About, Known, Get, Table
<1>5. Located'
  BY <1>4 DEF MerchantEdits, Located, Places
<1> QED
  BY <1>3, <1>5

\* A request that does nothing is about nothing, whatever is known.
LEMMA IdleAfter == Places(Idle)' /\ About(Idle)' /\ Idle.pc \notin MidTurn
<1>1. <<>> \in Seq(Sug) /\ Len(<<>>) = 0
  OBVIOUS
<1>2. /\ Idle.op = "none" /\ Idle.pc = "idle" /\ Idle.made = {} /\ Len(Idle.queue) = 0
  BY <1>1 DEF Idle
<1> QED
  BY <1>2 DEF Places, About, MidTurn

\* after a crash,
LEMMA RestartTypes ==
  ASSUME Types, Located, Restart
  PROVE  Types' /\ Located' /\ \A r \in Request : req'[r] = Idle
<1>1. /\ req' = [r \in Request |-> Idle] /\ turn' = Nobody
      /\ cache' = [s \in Sug |-> Absent] /\ torn' = (torn \/ turn # Nobody)
      /\ UNCHANGED <<live, row, audit, offered, before, muddled, late>>
      /\ Counted("crashes")
  BY DEF Restart
<1>2. Types'
  BY <1>1, IdleFields DEF Types, Counted
<1>3. \A r \in Request : req'[r] = Idle /\ r # Nobody
  BY <1>1, AbsentAssumption
<1>4. ASSUME NEW r \in Request
      PROVE  (Places(req[r]) /\ About(req[r]) /\ (req[r].pc \in MidTurn <=> turn = r))'
  <2>1. Places(Idle)' /\ About(Idle)' /\ Idle.pc \notin MidTurn
    BY IdleAfter
  <2> QED
    BY <1>1, <1>3, <2>1 DEF Places, About
<1>5. Located'
  BY <1>4 DEF Located
<1> QED
  BY <1>2, <1>3, <1>5

\* and so after every step.
LEMMA StepTypes ==
  ASSUME Types, Located, Audited, [Next]_vars
  PROVE  Types' /\ Located'
<1>1. CASE \E r \in Request : ApplyStep(r) \/ WriteStep(r) \/ RevertStep(r)
                              \/ RegenerateStep(r) \/ AuditStep(r)
  BY <1>1, ApplyTypes, RevertTypes, RegenerateTypes, AuditTypes
<1>2. CASE MerchantEdits
  BY <1>2, EditTypes
<1>3. CASE Restart
  BY <1>3, RestartTypes
<1>4. CASE UNCHANGED vars
  <2>1. Types'
    BY <1>4 DEF vars, history, Types
  <2>2. Located'
    BY <1>4 DEF vars, history, Located, Places, About, Known, Get
  <2> QED
    BY <2>1, <2>2
<1> QED
  BY <1>1, <1>2, <1>3, <1>4 DEF Next

-----------------------------------------------------------------------------
(* Audits.                                                                 *)

\* A step of another request, or of one that is no audit, leaves the audits be.
LEMMA AuditedElsewhere ==
  ASSUME Types, Located, NEW r \in Request, NEW new, Moves(r, new),
         new.op = "audit" =>
           \/ new.pc = "generate"
           \/ /\ audit'[new.sug] # Absent
              /\ new.pc = "withdraw" => audit'[new.sug].ready
              /\ new.pc = "finish" /\ audit'[new.sug].ready =>
                   \A s \in Sug : row'[s] # Absent /\ row'[s].status = "pending"
                     => row'[s].audit = new.sug
  PROVE  Audited'
<1>1. req'[r] = new /\ \A q \in Request \ {r} : req'[q] = req[q]
  BY DEF Moves, Types
<1>2. \A q \in Request \ {r} : req[q].pc \notin MidTurn /\ Places(req[q])
  BY Turns DEF Moves, Located
<1>3. \A q \in Request \ {r} : req'[q].op = "audit" => req'[q].pc = "generate"
  BY <1>1, <1>2 DEF Places, MidTurn
<1> QED
  BY <1>1, <1>3 DEF Audited

\* A request that is no audit leaves the audits be.
LEMMA NoAudit ==
  ASSUME Types, Located, NEW r \in Request,
         ApplyStep(r) \/ WriteStep(r) \/ RevertStep(r) \/ RegenerateStep(r)
  PROVE  Audited' /\ audit' = audit
<1>1. audit' = audit
  BY Zenon DEF ApplyStep, WriteStep, RevertStep, RegenerateStep, StartApply, StartBulk,
     StartReviewed, CheckReview, LoadSuggestion, ReadShop, RecordApplied, KeepRest, WriteShop,
     WriteRefused, WriteRaises, StartRevert, CheckDrift, RecordReverted, Reopen,
     StartRegenerate, NothingGenerated, Replace, CarryForward, SupersedeSource, UndoChild, Table
<1>2. \E new : Moves(r, new) /\ (new.op = "audit" => new.pc = "generate")
  <2>1. ASSUME NEW new, Unladen(new)
        PROVE  new.op = "audit" => new.pc = "generate"
    BY <2>1 DEF Unladen
  <2>2. ASSUME NEW new, Proceeds(new, req[r]), req[r].op # "audit"
        PROVE  new.op = "audit" => new.pc = "generate"
    BY <2>2 DEF Proceeds
  <2>3. CASE StartApply(r) \/ StartBulk(r) \/ StartReviewed(r) \/ CheckReview(r)
    BY <2>1, <2>3, StartApplyMoves, StartBulkMoves, StartReviewedMoves, CheckReviewMoves
  <2>4. CASE LoadSuggestion(r)
    BY <2>1, <2>4, LoadMoves
  <2>5. CASE ReadShop(r)
    BY <2>1, <2>2, <2>5, ReadMoves
  <2>6. CASE RecordApplied(r)
    BY <2>1, <2>2, <2>6, RecordMoves
  <2>7. CASE KeepRest(r)
    BY <2>1, <2>7, KeepRestMoves
  <2>8. CASE WriteStep(r)
    BY Zenon, <2>1, <2>2, <2>8, WriteMoves
  <2>9. CASE StartRevert(r)
    BY <2>9, StartRevertMoves
  <2>10. CASE CheckDrift(r)
    BY <2>1, <2>2, <2>10, CheckDriftMoves
  <2>11. CASE RecordReverted(r)
    BY <2>1, <2>2, <2>11, RecordRevertedMoves
  <2>12. CASE Reopen(r)
    BY Zenon, <2>1, <2>12, ReopenMoves
  <2>13. CASE StartRegenerate(r)
    BY <2>13, StartRegenerateMoves
  <2>14. CASE NothingGenerated(r)
    BY <2>1, <2>14, NothingGeneratedMoves
  <2>15. CASE Replace(r)
    BY Zenon, <2>2, <2>15, ReplaceMoves
  <2>16. CASE CarryForward(r)
    BY <2>2, <2>16, CarryMoves
  <2>17. CASE SupersedeSource(r)
    BY <2>1, <2>2, <2>17, SupersedeMoves
  <2>18. CASE UndoChild(r)
    BY <2>1, <2>2, <2>18, UndoMoves
  <2> QED
    BY <2>3, <2>4, <2>5, <2>6, <2>7, <2>8, <2>9, <2>10, <2>11, <2>12, <2>13, <2>14, <2>15,
       <2>16, <2>17, <2>18 DEF ApplyStep, RevertStep, RegenerateStep
<1> QED
  BY <1>1, <1>2, AuditedElsewhere

\* After the pending fixes of older audits are withdrawn, none is left.
LEMMA Withdrawing ==
  ASSUME Types, NEW a \in Audit,
         row' = [s \in Sug |-> IF Older(s, a)
                  THEN [row[s] EXCEPT !.status = "superseded", !.by = a] ELSE row[s]]
  PROVE  /\ \A s \in Sug : Older(s, a) =>
              /\ row'[s] \in Suggestion /\ row'[s].status = "superseded" /\ row'[s].by = a
              /\ row'[s].patch = row[s].patch /\ row'[s].previous = row[s].previous
              /\ row'[s].root = row[s].root /\ row'[s].reopens = row[s].reopens
              /\ row'[s].audit = row[s].audit
         /\ \A s \in Sug : ~Older(s, a) => row'[s] = row[s]
         /\ \A s \in Sug : row'[s] # Absent /\ row'[s].status = "pending" => row'[s].audit = a
<1>1. ASSUME NEW s \in Sug, Older(s, a)
      PROVE  /\ row'[s] \in Suggestion /\ row'[s].status = "superseded" /\ row'[s].by = a
             /\ row'[s].patch = row[s].patch /\ row'[s].previous = row[s].previous
             /\ row'[s].root = row[s].root /\ row'[s].reopens = row[s].reopens
             /\ row'[s].audit = row[s].audit
  <2>1. row[s] \in Suggestion /\ row'[s] = [row[s] EXCEPT !.status = "superseded", !.by = a]
    BY Zenon, <1>1, TableRows DEF Older
  <2> QED
    BY Zenon, <2>1 DEF Suggestion, Status
<1>2. \A s \in Sug : ~Older(s, a) => row'[s] = row[s]
  BY Zenon
<1> QED
  BY Zenon, <1>1, <1>2 DEF Older

\* A step of an audit keeps what audits rely on.
LEMMA AuditsKept ==
  ASSUME Types, Located, Audited, NEW r \in Request, AuditStep(r)
  PROVE  Audited'
<1> DEFINE a == req[r].sug
<1>1. CASE StartAudit(r)
  BY <1>1, StartAuditMoves, AuditedElsewhere DEF Unladen
<1>2. CASE SaveAudit(r)
  <2>1. PICK db, ready, new :
          /\ db \in Call /\ ready \in BOOLEAN
          /\ Moves(r, new) /\ Goes(db) /\ turn = Nobody
          /\ req[r].op = "audit" /\ req[r].pc = "generate" /\ req[r].sug \in Audit
          /\ audit' = IF db = "fails" THEN audit
                      ELSE [audit EXCEPT ![req[r].sug] = [status |-> "pending", ready |-> ready]]
          /\ \/ db = "ok" /\ Proceeds(new, req[r]) /\ new.pc = "children" /\ new.made = {}
             \/ Unladen(new)
    BY Zenon, <1>2, SaveAuditMoves
  <2> db \in Call /\ ready \in BOOLEAN
    BY <2>1
  <2>2. [status |-> "pending", ready |-> ready] # Absent
    BY AbsentAssumption DEF AuditRow
  <2>3. CASE Unladen(new)
    BY <2>1, <2>3, AuditedElsewhere DEF Unladen
  <2>4. CASE db = "ok" /\ Proceeds(new, req[r]) /\ new.pc = "children"
    <3>1. audit'[new.sug] # Absent
      BY <2>1, <2>2, <2>4 DEF Proceeds, Types
    <3> QED
      BY <2>1, <2>4, <3>1, AuditedElsewhere
  <2> QED
    BY <2>1, <2>3, <2>4
<1>3. CASE SaveChildren(r)
  <2>1. PICK new :
          /\ Moves(r, new) /\ Proceeds(new, req[r])
          /\ new.pc \in {"withdraw", "finish", "error"}
          /\ new.pc = "withdraw" => audit[a].ready
          /\ new.pc = "finish" => ~audit[a].ready
    BY <1>3, SaveChildrenMoves
  <2>2. audit[a] \in AuditRow /\ audit' = audit
    BY <1>3, AuditPlace DEF SaveChildren
  <2> QED
    BY <2>1, <2>2, AuditedElsewhere, AbsentAssumption DEF Proceeds
<1>4. CASE SupersedePending(r)
  <2>1. PICK db, new :
          /\ db \in Call
          /\ Moves(r, new) /\ Proceeds(new, req[r]) /\ a \in Audit
          /\ new.pc = IF db = "ok" THEN "finish" ELSE "error"
          /\ row' = IF db = "fails" THEN row
                    ELSE [s \in Sug |-> IF Older(s, a)
                           THEN [row[s] EXCEPT !.status = "superseded", !.by = a]
                           ELSE row[s]]
    BY Zenon, <1>4, SupersedePendingMoves
  <2> db \in Call
    BY <2>1
  <2>2. audit[a] \in AuditRow /\ audit' = audit
    <3>1. At(r, "audit", "withdraw") /\ audit' = audit
      BY Zenon, <1>4 DEF SupersedePending
    <3> QED
      BY <3>1, AuditPlace
  <2>3. new.pc = "finish" =>
          \A s \in Sug : row'[s] # Absent /\ row'[s].status = "pending" => row'[s].audit = a
    BY Zenon, <2>1, Withdrawing
  <2>4. new.pc # "withdraw" /\ new.sug = a
    BY Zenon, <2>1 DEF Proceeds
  <2> HIDE DEF a
  <2> QED
    BY Zenon, <2>1, <2>2, <2>3, <2>4, AuditedElsewhere, AbsentAssumption
<1>5. CASE FinishAudit(r)
  <2>1. PICK db, new :
          /\ db \in Call
          /\ Moves(r, new) /\ a \in Audit /\ audit[a] \in AuditRow
          /\ Unladen(new) \/ (Proceeds(new, req[r]) /\ new.pc = "error" /\ new.made = {})
          /\ audit' = IF db = "fails" THEN audit ELSE [audit EXCEPT ![a].status = FinalStatus(a)]
    BY <1>5, FinishAuditMoves
  <2> db \in Call
    BY <2>1
  <2>2. [audit[a] EXCEPT !.status = FinalStatus(a)] \in AuditRow
    BY <2>1 DEF FinalStatus, AuditRow
  <2>3. audit'[a] # Absent
    BY <2>1, <2>2, AbsentAssumption DEF Types
  <2> QED
    BY <2>1, <2>3, AuditedElsewhere DEF Unladen, Proceeds
<1>6. CASE AuditFails(r)
  BY Zenon, <1>6, AuditFailsMoves, AuditedElsewhere DEF Unladen
<1>7. CASE NothingGenerated(r)
  BY <1>7, NothingGeneratedMoves, AuditedElsewhere DEF Unladen
<1> QED
  BY <1>1, <1>2, <1>3, <1>4, <1>5, <1>6, <1>7 DEF AuditStep

\* Every step does.
LEMMA StepAudits ==
  ASSUME Types, Located, Audited, [Next]_vars
  PROVE  Audited'
<1>1. CASE \E r \in Request : ApplyStep(r) \/ WriteStep(r) \/ RevertStep(r)
                              \/ RegenerateStep(r) \/ AuditStep(r)
  BY <1>1, NoAudit, AuditsKept
<1>2. CASE MerchantEdits
  BY <1>2 DEF MerchantEdits, Audited, Table
<1>3. CASE Restart
  <2>1. \A r \in Request : req'[r].op = "none"
    BY <1>3, RestartTypes DEF Idle
  <2> QED
    BY <2>1 DEF Audited
<1>4. CASE UNCHANGED vars
  BY <1>4 DEF vars, Audited
<1> QED
  BY <1>1, <1>2, <1>3, <1>4 DEF Next

-----------------------------------------------------------------------------
(* The six things a step may do to the table and the cache.                *)

Marks(s, status, states) ==
  \E db \in Call : Become(status, s, states, db)

Creates(x) == /\ x \in Suggestion /\ x.status = "pending" /\ x.previous = Absent /\ x.by = 0
              /\ \E db \in Call : Create(x, db)

Records(r) ==
  /\ req[r].op = "apply" /\ req[r].pc = "record"
  /\ req[r].sug \in Sug /\ req[r].patch \in Patch
  /\ Previous(r) \in Patch /\ DOMAIN Previous(r) = DOMAIN req[r].patch
  /\ \A f \in DOMAIN req[r].patch : Previous(r)[f] = req[r].seen[f]
  /\ \E db \in RecordCall : Recorded(r, db)

Proposes(a) ==
  /\ cache' = cache /\ Free \in Sug /\ row[Free] = Absent /\ cache[Free] = Absent
  /\ \E fields \in Proposals : row' = [row EXCEPT ![Free] = Proposed(Free, fields, a)]

Withdraws(a) ==
  /\ cache' = cache
  /\ row' = [s \in Sug |-> IF Older(s, a)
              THEN [row[s] EXCEPT !.status = "superseded", !.by = a] ELSE row[s]]

TableStep(r) ==
  \/ UNCHANGED <<row, cache>>
  \/ \E s \in Sug : Marks(s, "reverted", {"applied"}) \/ Marks(s, "superseded", {"pending"})
  \/ \E x : Creates(x)
  \/ Records(r)
  \/ \E a \in Audit : Proposes(a)
  \/ \E a \in Audit : Withdraws(a) /\ audit[a] # Absent /\ audit[a].ready

\* Every step of a request changes the table and the cache in one of these ways.
LEMMA TableSteps ==
  ASSUME Types, Located, Audited, NEW r \in Request,
         ApplyStep(r) \/ WriteStep(r) \/ RevertStep(r) \/ RegenerateStep(r) \/ AuditStep(r)
  PROVE  TableStep(r)
<1>1. CASE \/ StartApply(r) \/ StartBulk(r) \/ StartReviewed(r) \/ CheckReview(r)
           \/ LoadSuggestion(r) \/ ReadShop(r) \/ WriteStep(r) \/ StartRevert(r) \/ CheckDrift(r)
           \/ StartRegenerate(r) \/ NothingGenerated(r) \/ StartAudit(r) \/ SaveAudit(r)
           \/ FinishAudit(r) \/ AuditFails(r)
  <2>1. UNCHANGED <<row, cache>>
    BY Zenon, <1>1 DEF StartApply, StartBulk, StartReviewed, CheckReview, LoadSuggestion, ReadShop,
       WriteStep, WriteShop, WriteRefused, WriteRaises, StartRevert, CheckDrift,
       StartRegenerate, NothingGenerated, StartAudit, SaveAudit, FinishAudit, AuditFails, Table
  <2> QED
    BY <2>1 DEF TableStep
<1>2. CASE RecordApplied(r)
  <2>1. req[r].sug \in Sug /\ req[r].patch \in Patch
    BY <1>2, AtPlace DEF RecordApplied, About, Coroutine
  <2>2. Records(r)
    BY <1>2, <2>1, RecordMoves DEF Records
  <2> QED
    BY <2>2 DEF TableStep
<1>3. CASE KeepRest(r)
  <2>1. PICK db \in Call :
          /\ req[r].sug \in Sug /\ Known(req[r].sug) /\ req[r].rest \in Patch
          /\ Create(Child(req[r].sug, req[r].rest), db)
    BY <1>3, KeepRestMoves
  <2>2. Creates(Child(req[r].sug, req[r].rest))
    BY <2>1, ChildRow DEF Creates
  <2> QED
    BY <2>2 DEF TableStep
<1>4. CASE RecordReverted(r)
  <2>1. \E db \in Call : req[r].sug \in Sug /\ Become("reverted", req[r].sug, {"applied"}, db)
    BY <1>4, RecordRevertedMoves
  <2> QED
    BY <2>1 DEF TableStep, Marks
<1>5. CASE Reopen(r)
  <2> DEFINE s == req[r].sug
             x == [Child(s, req[r].patch) EXCEPT !.reopens = s]
  <2>1. /\ s \in Sug /\ Known(s) /\ req[r].patch \in Patch
        /\ UNCHANGED <<row, cache>> \/ \E db \in Call : Create(x, db)
    BY <1>5, ReopenMoves
  <2>2. /\ x \in Suggestion /\ x.status = "pending" /\ x.previous = Absent /\ x.by = 0
    BY <2>1, ReopenedRow
  <2> HIDE DEF x
  <2> QED
    BY <2>1, <2>2 DEF TableStep, Creates
<1>6. CASE Replace(r)
  <2> DEFINE patch == [f \in req[r].asked |-> Fix(Free)]
  <2>1. PICK db \in Call :
          /\ req[r].sug \in Sug /\ Known(req[r].sug) /\ patch \in Patch
          /\ Create(Child(req[r].sug, patch), db)
    BY <1>6, ReplaceMoves
  <2> HIDE DEF patch
  <2>2. Creates(Child(req[r].sug, patch))
    BY <2>1, ChildRow DEF Creates
  <2> QED
    BY <2>2 DEF TableStep
<1>7. CASE CarryForward(r)
  <2>1. PICK db \in Call :
          /\ req[r].sug \in Sug /\ Known(req[r].sug) /\ req[r].rest \in Patch
          /\ Create(Child(req[r].sug, req[r].rest), db)
    BY <1>7, CarryMoves
  <2>2. Creates(Child(req[r].sug, req[r].rest))
    BY <2>1, ChildRow DEF Creates
  <2> QED
    BY <2>2 DEF TableStep
<1>8. CASE SupersedeSource(r)
  <2>1. \E db \in Call : req[r].sug \in Sug /\ Become("superseded", req[r].sug, {"pending"}, db)
    BY <1>8, SupersedeMoves
  <2> QED
    BY <2>1 DEF TableStep, Marks
<1>9. CASE UndoChild(r)
  <2>1. \E c \in Sug : \E db \in Call : Become("superseded", c, {"pending"}, db)
    BY <1>9, UndoMoves
  <2> QED
    BY <2>1 DEF TableStep, Marks
<1>10. CASE SaveChildren(r)
  <2>1. PICK fields \in Proposals, db \in Call :
          /\ req[r].sug \in Audit
          /\ Free \in Sug /\ row[Free] = Absent /\ cache[Free] = Absent
          /\ row' = IF db = "fails" THEN row
                    ELSE [row EXCEPT ![Free] = Proposed(Free, fields, req[r].sug)]
    BY <1>10, SaveChildrenMoves
  <2>2. cache' = cache
    BY <1>10 DEF SaveChildren
  <2>3. UNCHANGED <<row, cache>> \/ Proposes(req[r].sug)
    BY <2>1, <2>2 DEF Proposes
  <2> QED
    BY <2>1, <2>3 DEF TableStep
<1>11. CASE SupersedePending(r)
  <2> DEFINE a == req[r].sug
  <2>1. PICK db \in Call :
          /\ a \in Audit /\ req[r].op = "audit" /\ req[r].pc = "withdraw"
          /\ row' = IF db = "fails" THEN row
                    ELSE [s \in Sug |-> IF Older(s, a)
                           THEN [row[s] EXCEPT !.status = "superseded", !.by = a]
                           ELSE row[s]]
    BY Zenon, <1>11, SupersedePendingMoves
  <2>2. cache' = cache
    BY Zenon, <1>11 DEF SupersedePending
  <2>3. audit[a] # Absent /\ audit[a].ready
    BY Zenon, <2>1 DEF Audited
  <2>4. UNCHANGED <<row, cache>> \/ Withdraws(a)
    BY Zenon, <2>1, <2>2 DEF Withdraws
  <2> HIDE DEF a
  <2> QED
    BY Zenon, <2>1, <2>3, <2>4 DEF TableStep
<1> QED
  BY <1>1, <1>2, <1>3, <1>4, <1>5, <1>6, <1>7, <1>8, <1>9, <1>10, <1>11
     DEF ApplyStep, RevertStep, RegenerateStep, AuditStep

\* What is pending was withdrawn by nobody, and has never been applied
RowFits(s) ==
  /\ row[s] # Absent /\ row[s].status = "pending" => row[s].by = 0 /\ row[s].previous = Absent
  /\ cache[s] # Absent /\ cache[s].status = "pending" =>
       /\ cache[s].by = 0 /\ cache[s].previous = Absent
       /\ row[s] # Absent => row[s].previous = Absent

RowsFit == \A s \in Sug : RowFits(s)

\* The effect of a mark on the rows.
LEMMA MarkEffect ==
  ASSUME Types, NEW s \in Sug, NEW status \in Status, NEW states, Marks(s, status, states)
  PROVE  /\ Elsewhere(s)
         /\ \/ row'[s] = row[s]
            \/ /\ row[s] # Absent /\ row[s].status \in states
               /\ row'[s] = Mark(row[s], status) /\ row'[s] \in Suggestion
               /\ row'[s].status = status /\ row'[s].patch = row[s].patch
               /\ row'[s].previous = row[s].previous /\ row'[s].root = row[s].root
               /\ row'[s].audit = row[s].audit /\ row'[s].reopens = row[s].reopens
               /\ row'[s].by = row[s].by
         /\ \/ cache'[s] = cache[s]
            \/ /\ cache'[s] \in Suggestion /\ cache'[s].status = status
               /\ \E old \in {row[s], cache[s]} :
                    /\ old # Absent /\ old.status \in states
                    /\ cache'[s] = Mark(old, status)
                    /\ cache'[s].patch = old.patch /\ cache'[s].previous = old.previous
                    /\ cache'[s].root = old.root /\ cache'[s].reopens = old.reopens
                    /\ cache'[s].by = old.by
<1>1. PICK db \in Call : Become(status, s, states, db)
  BY DEF Marks
<1>2. /\ Elsewhere(s)
      /\ row'[s] = IF db # "fails" /\ row[s] # Absent /\ row[s].status \in states
                   THEN Mark(row[s], status) ELSE row[s]
      /\ cache'[s] = IF db = "ok" /\ row[s] # Absent /\ row[s].status \in states
                     THEN Mark(row[s], status)
                     ELSE IF db # "ok" /\ cache[s] # Absent /\ cache[s].status \in states
                     THEN Mark(cache[s], status)
                     ELSE cache[s]
  BY <1>1, BecomeTables
<1>3. ASSUME NEW x \in Suggestion
      PROVE  /\ Mark(x, status) \in Suggestion /\ Mark(x, status).status = status
             /\ Mark(x, status).patch = x.patch /\ Mark(x, status).previous = x.previous
             /\ Mark(x, status).root = x.root /\ Mark(x, status).audit = x.audit
             /\ Mark(x, status).reopens = x.reopens /\ Mark(x, status).by = x.by
  BY StatusEdited DEF Mark
<1>4. /\ row[s] # Absent => row[s] \in Suggestion
      /\ cache[s] # Absent => cache[s] \in Suggestion
  BY TableRows
<1> QED
  BY <1>2, <1>3, <1>4

\* The effect of an apply that is recorded.
LEMMA RecordEffect ==
  ASSUME Types, NEW r \in Request, Records(r)
  PROVE  LET s == req[r].sug
         IN  /\ Elsewhere(s)
             /\ \/ row'[s] = row[s]
                \/ /\ row[s] # Absent
                   /\ row'[s] \in Suggestion /\ row'[s].status = "applied"
                   /\ row'[s].patch = req[r].patch
                   /\ row'[s].previous \in {row[s].previous, Previous(r)}
                   /\ row'[s].root = row[s].root /\ row'[s].audit = row[s].audit
                   /\ row'[s].reopens = row[s].reopens /\ row'[s].by = row[s].by
             /\ \/ cache'[s] = cache[s] /\ row'[s] = row[s]
                \/ /\ cache'[s] \in Suggestion /\ cache'[s].status = "applied"
                   /\ cache'[s].patch = req[r].patch /\ cache'[s].previous = Previous(r)
                   /\ \E old \in {row[s], cache[s]} :
                        /\ old # Absent /\ cache'[s].root = old.root
                        /\ cache'[s].reopens = old.reopens /\ cache'[s].by = old.by
<1> DEFINE s == req[r].sug
           patch == req[r].patch
           previous == Previous(r)
<1>1. PICK db \in RecordCall : Recorded(r, db)
  BY DEF Records
<1>2. /\ Elsewhere(s)
      /\ row'[s] = IF row[s] = Absent \/ db = "fails" THEN row[s]
                   ELSE IF db = "ok" THEN MarkReversible(row[s], patch, previous)
                   ELSE MarkApplied(row[s], patch)
      /\ cache'[s] = IF db = "fails"
                     THEN IF cache[s] = Absent THEN Absent
                          ELSE MarkReversible(cache[s], patch, previous)
                     ELSE IF row[s] = Absent THEN cache[s]
                     ELSE MarkReversible(row[s], patch, previous)
  BY <1>1 DEF Recorded
<1>3. s \in Sug /\ patch \in Patch /\ previous \in Patch
  BY DEF Records
<1> HIDE DEF s, patch, previous
<1>4. ASSUME NEW x \in Suggestion
      PROVE  /\ MarkApplied(x, patch) \in Suggestion /\ MarkApplied(x, patch).status = "applied"
             /\ MarkApplied(x, patch).patch = patch
             /\ MarkApplied(x, patch).previous = x.previous
             /\ MarkApplied(x, patch).root = x.root /\ MarkApplied(x, patch).audit = x.audit
             /\ MarkApplied(x, patch).reopens = x.reopens /\ MarkApplied(x, patch).by = x.by
             /\ MarkReversible(x, patch, previous) \in Suggestion
             /\ MarkReversible(x, patch, previous).status = "applied"
             /\ MarkReversible(x, patch, previous).patch = patch
             /\ MarkReversible(x, patch, previous).previous = previous
             /\ MarkReversible(x, patch, previous).root = x.root
             /\ MarkReversible(x, patch, previous).audit = x.audit
             /\ MarkReversible(x, patch, previous).reopens = x.reopens
             /\ MarkReversible(x, patch, previous).by = x.by
  BY Zenon, <1>3 DEF MarkApplied, MarkReversible, Suggestion, Status
<1>5. /\ row[s] # Absent => row[s] \in Suggestion
      /\ cache[s] # Absent => cache[s] \in Suggestion
  BY <1>3, TableRows
<1>6. \/ row'[s] = row[s]
      \/ /\ row[s] # Absent
         /\ row'[s] \in Suggestion /\ row'[s].status = "applied" /\ row'[s].patch = patch
         /\ row'[s].previous \in {row[s].previous, previous}
         /\ row'[s].root = row[s].root /\ row'[s].audit = row[s].audit
         /\ row'[s].reopens = row[s].reopens /\ row'[s].by = row[s].by
  BY <1>2, <1>4, <1>5
<1>7. \/ cache'[s] = cache[s] /\ row'[s] = row[s]
      \/ /\ cache'[s] \in Suggestion /\ cache'[s].status = "applied"
         /\ cache'[s].patch = patch /\ cache'[s].previous = previous
         /\ \E old \in {row[s], cache[s]} :
              /\ old # Absent /\ cache'[s].root = old.root
              /\ cache'[s].reopens = old.reopens /\ cache'[s].by = old.by
  BY <1>2, <1>4, <1>5
<1> QED
  BY Zenon, <1>2, <1>6, <1>7 DEF s, patch, previous

\* The effect of a row that is created.
LEMMA CreateEffect ==
  ASSUME Types, NEW x, Creates(x)
  PROVE  /\ Free \in Sug /\ row[Free] = Absent /\ cache[Free] = Absent /\ Elsewhere(Free)
         /\ row'[Free] \in {Absent, x} /\ cache'[Free] = x /\ x # Absent
         /\ ~torn' => row'[Free] = x
<1>1. PICK db \in Call : Create(x, db)
  BY DEF Creates
<1>2. x \in Suggestion /\ x # Absent
  BY RowFields DEF Creates
<1> QED
  BY Zenon, <1>1, <1>2, CreateTables

\* The effect of a row that an audit proposes.
LEMMA ProposeEffect ==
  ASSUME Types, NEW a \in Audit, Proposes(a)
  PROVE  \E fields \in Proposals :
           /\ Free \in Sug /\ row[Free] = Absent /\ cache[Free] = Absent /\ Elsewhere(Free)
           /\ row'[Free] = Proposed(Free, fields, a) /\ cache' = cache
           /\ row'[Free] \in Suggestion /\ row'[Free] # Absent
<1>1. PICK fields \in Proposals : row' = [row EXCEPT ![Free] = Proposed(Free, fields, a)]
  BY Zenon DEF Proposes
<1>2. Free \in Sug /\ row[Free] = Absent /\ cache[Free] = Absent /\ cache' = cache
  BY DEF Proposes
<1> HIDE DEF Free
<1>3. Proposed(Free, fields, a) \in Suggestion
  BY <1>2, ProposedRow
<1> QED
  BY <1>1, <1>2, <1>3, RowFields DEF Types, Elsewhere

\* Each of them leaves what is pending new.
LEMMA TableFits ==
  ASSUME Types, RowsFit, NEW r \in Request, TableStep(r)
  PROVE  RowsFit'
<1>1. CASE UNCHANGED <<row, cache>>
  BY <1>1 DEF RowsFit, RowFits
<1>2. ASSUME NEW s \in Sug, Elsewhere(s), RowFits(s)'
      PROVE  RowsFit'
  BY <1>2 DEF RowsFit, RowFits, Elsewhere
<1>3. CASE \E s \in Sug : Marks(s, "reverted", {"applied"}) \/ Marks(s, "superseded", {"pending"})
  <2>1. PICK s \in Sug : Marks(s, "reverted", {"applied"}) \/ Marks(s, "superseded", {"pending"})
    BY <1>3
  <2>2. PICK status, states : status \in {"reverted", "superseded"} /\ Marks(s, status, states)
    BY <2>1
  <2> status \in {"reverted", "superseded"}
    BY <2>2
  <2>3. status \in Status /\ status # "pending"
    BY DEF Status
  <2>4. RowFits(s)
    BY DEF RowsFit
  <2>5. /\ Elsewhere(s)
        /\ row'[s] = row[s] \/ (/\ row'[s].status = status /\ row[s] # Absent
                                /\ row'[s].previous = row[s].previous)
        /\ cache'[s] = cache[s] \/ cache'[s].status = status
    BY <2>2, <2>3, MarkEffect
  <2>6. RowFits(s)'
    BY <2>3, <2>4, <2>5 DEF RowFits
  <2> QED
    BY <1>2, <2>5, <2>6
<1>4. CASE \E x : Creates(x)
  <2>1. PICK x : Creates(x)
    BY <1>4
  <2>2. PICK s \in Sug :
          /\ Elsewhere(s) /\ row'[s] \in {Absent, x} /\ cache'[s] = x
          /\ x.by = 0 /\ x.previous = Absent
    BY <2>1, CreateEffect DEF Creates
  <2>3. RowFits(s)'
    BY <2>2 DEF RowFits
  <2> QED
    BY <1>2, <2>2, <2>3
<1>5. CASE Records(r)
  <2>1. PICK s \in Sug :
          /\ Elsewhere(s)
          /\ row'[s] = row[s] \/ row'[s].status = "applied"
          /\ (cache'[s] = cache[s] /\ row'[s] = row[s]) \/ cache'[s].status = "applied"
    BY <1>5, RecordEffect DEF Records
  <2>2. RowFits(s)'
    BY <2>1 DEF RowsFit, RowFits
  <2> QED
    BY <1>2, <2>1, <2>2
<1>6. CASE \E a \in Audit : Proposes(a)
  <2>1. PICK a \in Audit : Proposes(a)
    BY <1>6
  <2>2. PICK fields \in Proposals, s \in Sug :
          /\ cache[s] = Absent /\ Elsewhere(s)
          /\ row'[s] = Proposed(s, fields, a) /\ cache' = cache
    BY <2>1, ProposeEffect
  <2>3. row'[s].by = 0 /\ row'[s].previous = Absent
    BY <2>2, ProposedRow
  <2>4. RowFits(s)'
    BY <2>2, <2>3 DEF RowFits
  <2> QED
    BY <1>2, <2>2, <2>4
<1>7. CASE \E a \in Audit : Withdraws(a) /\ audit[a] # Absent /\ audit[a].ready
  <2>1. PICK a \in Audit : Withdraws(a)
    BY <1>7
  <2>2. /\ cache' = cache
        /\ \A s \in Sug : \/ row'[s] = row[s]
                          \/ /\ row[s] # Absent /\ row'[s].status = "superseded"
                             /\ row'[s].previous = row[s].previous
    BY Zenon, <2>1, Withdrawing DEF Withdraws, Older
  <2>3. ASSUME NEW s \in Sug
        PROVE  RowFits(s)'
    BY <2>2 DEF RowsFit, RowFits
  <2> QED
    BY <2>3 DEF RowsFit
<1> QED
  BY <1>1, <1>3, <1>4, <1>5, <1>6, <1>7 DEF TableStep

\* So does every step.
LEMMA StepFits ==
  ASSUME Types, Located, Audited, RowsFit, [Next]_vars
  PROVE  RowsFit'
<1>1. CASE \E r \in Request : ApplyStep(r) \/ WriteStep(r) \/ RevertStep(r)
                              \/ RegenerateStep(r) \/ AuditStep(r)
  BY <1>1, TableSteps, TableFits
<1>2. CASE MerchantEdits \/ UNCHANGED vars
  BY <1>2 DEF MerchantEdits, vars, Table, RowsFit, RowFits
<1>3. CASE Restart
  BY <1>3 DEF Restart, RowsFit, RowFits
<1> QED
  BY <1>1, <1>2, <1>3 DEF Next

-----------------------------------------------------------------------------
(* The invariant every step keeps, whatever happened before.               *)

Sound == Types /\ Located /\ Audited /\ RowsFit

\* The types in the form that TLC evaluates.
LEMMA TypesHold ==
  ASSUME Types
  PROVE  TypeOK
<1>1. ASSUME NEW p \in Patch
      PROVE  IsPatch(p)
  BY PatchIs DEF IsPatch
<1>2. ASSUME NEW x \in Suggestion
      PROVE  IsSuggestion(x)
  BY <1>1 DEF IsSuggestion, Suggestion
<1>3. ASSUME NEW x \in Coroutine
      PROVE  IsCoroutine(x)
  BY <1>1 DEF IsCoroutine, Coroutine
<1>4. /\ DOMAIN row = Sug /\ \A s \in Sug : row[s] # Absent => IsSuggestion(row[s])
      /\ DOMAIN cache = Sug /\ \A s \in Sug : cache[s] # Absent => IsSuggestion(cache[s])
  BY <1>2 DEF Types
<1>5. DOMAIN req = Request /\ \A r \in Request : IsCoroutine(req[r])
  BY <1>3 DEF Types
<1>6. DOMAIN before = Sug /\ \A s \in Sug : IsPatch(before[s])
  BY <1>1 DEF Types
<1>7. \A t \in {row, cache} : DOMAIN t = Sug /\ \A s \in Sug : t[s] # Absent => IsSuggestion(t[s])
  BY <1>4
<1> QED
  BY <1>5, <1>6, <1>7 DEF Types, TypeOK

\* What the first audit proposed.
LEMMA FirstRow ==
  ASSUME Init
  PROVE  \E fields \in Proposals :
           /\ 1 \in Sug /\ 1 \in Audit /\ fields \in SUBSET Field
           /\ row = [s \in Sug |-> IF s = 1 THEN Proposed(1, fields, 1) ELSE Absent]
           /\ offered = [s \in Sug |-> IF s = 1 THEN fields ELSE {}]
           /\ Proposed(1, fields, 1) \in Suggestion
<1>1. 1 \in Sug /\ 1 \in Audit
  BY BoundAssumption DEF Sug, Audit
<1>2. PICK fields \in Proposals :
       /\ row = [s \in Sug |-> IF s # 1 THEN Absent ELSE
            [status |-> "pending", patch |-> [f \in fields |-> Fix(1)], previous |-> Absent,
             root |-> 1, audit |-> 1, reopens |-> 0, by |-> 0]]
       /\ offered = [s \in Sug |-> IF s = 1 THEN fields ELSE {}]
  BY DEF Init
<1>3. row = [s \in Sug |-> IF s = 1 THEN Proposed(1, fields, 1) ELSE Absent]
  BY <1>2 DEF Proposed
<1> QED
  BY <1>1, <1>2, <1>3, ProposedRow, ShopAssumption

\* It holds at first.
LEMMA SoundInit == Init => Sound
<1> SUFFICES ASSUME Init
             PROVE  Sound
  OBVIOUS
<1>1. PICK fields \in Proposals :
        /\ 1 \in Sug /\ 1 \in Audit /\ fields \in SUBSET Field
        /\ row = [s \in Sug |-> IF s = 1 THEN Proposed(1, fields, 1) ELSE Absent]
        /\ offered = [s \in Sug |-> IF s = 1 THEN fields ELSE {}]
        /\ Proposed(1, fields, 1) \in Suggestion
  BY FirstRow
<1>2. /\ live \in Shops /\ cache = [s \in Sug |-> Absent]
      /\ audit = [a \in Audit |-> IF a = 1 THEN [status |-> "success", ready |-> TRUE] ELSE Absent]
      /\ req = [r \in Request |-> Idle] /\ turn = Nobody /\ before = [s \in Sug |-> <<>>]
      /\ muddled = {} /\ late = {} /\ torn = FALSE /\ left \in Budgets
  BY DEF Init
<1>3. [status |-> "success", ready |-> TRUE] \in AuditRow
  BY DEF AuditRow
<1>4. Types
  <2>1. row \in [Sug -> Suggestion \cup {Absent}] /\ cache \in [Sug -> Suggestion \cup {Absent}]
    BY <1>1, <1>2
  <2>2. audit \in [Audit -> AuditRow \cup {Absent}]
    BY <1>2, <1>3
  <2>3. req \in [Request -> Coroutine] /\ before \in [Sug -> Patch]
    BY <1>2, IdleFields, NoPatch
  <2> QED
    BY Zenon, <1>1, <1>2, <2>1, <2>2, <2>3, ShopAssumption, BoundAssumption DEF Types
<1>5. Located
  BY <1>2, IdleFields, AbsentAssumption DEF Located
<1>6. \A r \in Request : req[r].op = "none"
  BY <1>2 DEF Idle
<1>7. Audited
  BY <1>6 DEF Audited
<1>8. ASSUME NEW s \in Sug
      PROVE  RowFits(s)
  <2>1. Proposed(1, fields, 1).by = 0 /\ Proposed(1, fields, 1).previous = Absent
    BY DEF Proposed
  <2> QED
    BY <1>1, <1>2, <2>1 DEF RowFits
<1> QED
  BY <1>4, <1>5, <1>7, <1>8 DEF Sound, RowsFit

\* It holds after every step.
LEMMA SoundStep == Sound /\ [Next]_vars => Sound'
<1> SUFFICES ASSUME Sound, [Next]_vars
             PROVE  Sound'
  OBVIOUS
<1> QED
  BY StepTypes, StepAudits, StepFits DEF Sound

\* However requests, faults, edits and crashes follow each other, every request is at a
\* place of its operation, and what a table holds is what it may hold.
THEOREM SoundAlways == Spec => []Sound
  BY SoundInit, SoundStep, PTL DEF Spec

\* Every variable keeps its type, for any number of requests, suggestions and audits.
THEOREM TypeCorrect == Spec => []TypeOK
<1>1. Sound => TypeOK
  BY TypesHold DEF Sound
<1> QED
  BY <1>1, SoundAlways, PTL

-----------------------------------------------------------------------------
(* A new audit takes the place of what was pending.                        *)

\* An audit becomes successful when only its own fixes are pending.
LEMMA Succeeds ==
  ASSUME Sound, [Next]_vars, NEW a \in Audit, audit'[a] # audit[a], audit'[a] # Absent,
         audit'[a].status = "success"
  PROVE  \A s \in Sug : row'[s] # Absent /\ row'[s].status = "pending" => row'[s].audit = a
<1> USE DEF Sound
<1>1. PICK r \in Request : AuditStep(r)
  BY NoAudit DEF Next, MerchantEdits, Restart, Table, vars
<1>2. CASE StartAudit(r) \/ SaveChildren(r) \/ SupersedePending(r)
  BY Zenon, <1>2 DEF StartAudit, SaveChildren, SupersedePending, Table
<1>3. CASE SaveAudit(r)
  <2>1. PICK db \in Call, ready \in BOOLEAN :
          /\ req[r].sug \in Audit
          /\ audit' = IF db = "fails" THEN audit
                      ELSE [audit EXCEPT ![req[r].sug] = [status |-> "pending", ready |-> ready]]
    BY Zenon, <1>3, SaveAuditMoves
  <2> QED
    BY <2>1 DEF Types
<1>4. CASE AuditFails(r)
  <2>1. PICK db \in Call :
          /\ req[r].sug \in Audit /\ audit[req[r].sug] \in AuditRow
          /\ audit' = IF db = "fails" THEN audit
                      ELSE [audit EXCEPT ![req[r].sug].status = "error"]
    BY <1>4, AuditFailsMoves
  <2> QED
    BY <2>1 DEF Types, AuditRow
<1>5. CASE FinishAudit(r)
  <2>1. PICK db \in Call :
          /\ req[r].op = "audit" /\ req[r].pc = "finish"
          /\ req[r].sug \in Audit /\ audit[req[r].sug] \in AuditRow
          /\ audit' = IF db = "fails" THEN audit
                      ELSE [audit EXCEPT ![req[r].sug].status = FinalStatus(req[r].sug)]
    BY <1>5, FinishAuditMoves
  <2>2. a = req[r].sug /\ FinalStatus(a) = "success"
    BY <2>1 DEF Types, AuditRow
  <2>3. audit[a].ready
    BY <2>2 DEF FinalStatus
  <2>4. row' = row
    BY <1>5 DEF FinishAudit
  <2> QED
    BY <2>1, <2>2, <2>3, <2>4 DEF Audited
<1> QED
  BY <1>1, <1>2, <1>3, <1>4, <1>5 DEF AuditStep

\* Only an audit that had the model's answer withdraws a fix, and none of its own.
LEMMA WithdrawsOlder ==
  ASSUME Sound, [Next]_vars, NEW a \in Audit, NEW s \in Sug, row'[s] # Absent,
         row'[s].by = a, row'[s] # row[s], row'[s].status = "superseded"
  PROVE  audit[a].ready /\ row[s].audit # a
<1> USE DEF Sound
<1>0. a # 0
  BY BoundAssumption DEF Audit
<1>1. PICK r \in Request : TableStep(r)
  BY TableSteps DEF Next, MerchantEdits, Restart, Table, vars
<1>2. CASE \E t \in Sug : Marks(t, "reverted", {"applied"}) \/ Marks(t, "superseded", {"pending"})
  <2>1. PICK t \in Sug : Marks(t, "reverted", {"applied"}) \/ Marks(t, "superseded", {"pending"})
    BY <1>2
  <2>2. CASE Marks(t, "reverted", {"applied"})
    BY <2>2, MarkEffect DEF Elsewhere, Status
  <2>3. CASE Marks(t, "superseded", {"pending"})
    BY <1>0, <2>3, MarkEffect DEF Elsewhere, Status, RowsFit, RowFits
  <2> QED
    BY <2>1, <2>2, <2>3
<1>3. CASE \E x : Creates(x)
  BY <1>3, CreateEffect DEF Creates, Elsewhere
<1>4. CASE Records(r)
  BY <1>4, RecordEffect DEF Records, Elsewhere
<1>5. CASE \E b \in Audit : Proposes(b)
  <2>1. PICK b \in Audit : Proposes(b)
    BY <1>5
  <2> QED
    BY <2>1, ProposeEffect, ProposedRow DEF Elsewhere
<1>6. CASE \E b \in Audit : Withdraws(b) /\ audit[b] # Absent /\ audit[b].ready
  <2>1. PICK b \in Audit : Withdraws(b) /\ audit[b].ready
    BY <1>6
  <2>2. Older(s, b) /\ row'[s].by = b
    BY Zenon, <2>1, Withdrawing DEF Withdraws
  <2> QED
    BY <2>1, <2>2 DEF Older
<1> QED
  BY <1>1, <1>2, <1>3, <1>4, <1>5, <1>6 DEF TableStep

\* A successful audit has taken the place of every fix that was pending; an audit whose
\* model failed withdraws none, and no audit its own.
THEOREM AuditsReplace == Spec => AuditReplaces
<1> DEFINE Replaced ==
      \A a \in Audit :
       /\ audit'[a] # audit[a] /\ audit'[a] # Absent /\ audit'[a].status = "success" =>
            \A s \in Sug : row'[s] # Absent /\ row'[s].status = "pending" => row'[s].audit = a
       /\ \A s \in Sug : row'[s] # Absent /\ row'[s].by = a /\ row'[s] # row[s]
            /\ row'[s].status = "superseded" => audit[a].ready /\ row[s].audit # a
<1>1. ASSUME Sound, [Next]_vars PROVE [Replaced]_vars
  BY <1>1, Succeeds, WithdrawsOlder
<1> QED
  BY <1>1, SoundAlways, PTL DEF Spec, AuditReplaces

-----------------------------------------------------------------------------
(* What the shop held before a fix was written.                            *)

Applying(q, s) == q.op = "apply" /\ q.sug = s /\ q.pc \in {"read", "write", "record"}
Reverting(q, s) == q.op = "revert" /\ q.sug = s

\* Nothing is kept of what the shop held before the fix
NoPrevious(s) == /\ row[s] # Absent => row[s].previous = Absent
                 /\ cache[s] # Absent => cache[s].previous = Absent

\* The values that are kept for the fields of a patch are those the shop held
Matching(kept, patch, held) ==
  DOMAIN patch \subseteq DOMAIN kept /\ \A f \in DOMAIN kept \cap DOMAIN held : kept[f] = held[f]

KeptRight(x, held) ==
  x # Absent /\ x.previous # Absent => Matching(x.previous, x.patch, held)

\* One request at a time writes the fix, and has read what the shop held; what is kept
\* of that, in the table, the cache and a request that reverts the fix, is right
Remembered(s) ==
  /\ \A r \in Request : Applying(req[r], s) =>
       /\ \A q \in Request : Applying(req[q], s) \/ Reverting(req[q], s) => q = r
       /\ NoPrevious(s)
       /\ req[r].pc # "read" => \A f \in DOMAIN before[s] : before[s][f] = req[r].seen[f]
  /\ KeptRight(row[s], before[s]) /\ KeptRight(cache[s], before[s])
  /\ \A r \in Request : Reverting(req[r], s) =>
       Get(s).status # "pending" /\ Matching(req[r].rest, req[r].patch, before[s])

Memory == \A s \in Sug \ muddled : Remembered(s)

\* A request that writes and reverts nothing
Aside(q) == ~(q.op = "apply" /\ q.pc \in {"read", "write", "record"}) /\ q.op # "revert"

\* Requests that write and revert nothing.
LEMMA AsideIs ==
  ASSUME NEW q
  PROVE  /\ Unladen(q) => Aside(q)
         /\ q.op \in {"none", "regenerate", "audit"} => Aside(q)
         /\ q.op = "apply" /\ q.pc = "rest" => Aside(q)
         /\ Aside(q) => \A s : ~Applying(q, s) /\ ~Reverting(q, s)
         /\ q.op = "revert" => \A s : ~Applying(q, s)
  BY DEF Aside, Unladen, Applying, Reverting

\* A request that changes a row or the cache goes on with what it reverts, or aside.
LEMMA TableMoves ==
  ASSUME Sound, NEW r \in Request,
         \/ RecordApplied(r) \/ KeepRest(r) \/ RecordReverted(r) \/ Reopen(r) \/ Replace(r)
         \/ CarryForward(r) \/ SupersedeSource(r) \/ UndoChild(r) \/ SaveChildren(r)
         \/ SupersedePending(r)
  PROVE  \E new : /\ Moves(r, new)
                  /\ Aside(new) \/ (new.op = "revert" /\ Proceeds(new, req[r]))
<1> USE DEF Sound
<1>1. ASSUME NEW new, Proceeds(new, req[r]), req[r].op \in {"regenerate", "audit"}
      PROVE  Aside(new)
  BY <1>1, AsideIs DEF Proceeds
<1>2. CASE RecordApplied(r)
  BY <1>2, RecordMoves, AsideIs DEF Proceeds
<1>3. CASE KeepRest(r)
  BY <1>3, KeepRestMoves, AsideIs
<1>4. CASE RecordReverted(r)
  BY <1>4, RecordRevertedMoves, AsideIs DEF Proceeds
<1>5. CASE Reopen(r)
  BY Zenon, <1>5, ReopenMoves, AsideIs
<1>6. CASE Replace(r)
  BY Zenon, <1>1, <1>6, ReplaceMoves
<1>7. CASE CarryForward(r)
  BY <1>1, <1>7, CarryMoves
<1>8. CASE SupersedeSource(r)
  BY <1>1, <1>8, SupersedeMoves, AsideIs
<1>9. CASE UndoChild(r)
  BY <1>1, <1>9, UndoMoves, AsideIs
<1>10. CASE SaveChildren(r)
  BY <1>1, <1>10, SaveChildrenMoves
<1>11. CASE SupersedePending(r)
  BY Zenon, <1>1, <1>11, SupersedePendingMoves
<1> QED
  BY <1>2, <1>3, <1>4, <1>5, <1>6, <1>7, <1>8, <1>9, <1>10, <1>11

\* While the rows and the history of a fix are as they were, a request may go on with
\* it only as it was.
LEMMA RememberedBy ==
  ASSUME Sound, NEW r \in Request, NEW new, Moves(r, new), NEW s \in Sug, Remembered(s),
         row'[s] = row[s], cache'[s] = cache[s], before'[s] = before[s],
         Applying(new, s) =>
           /\ \A q \in Request \ {r} : ~Applying(req[q], s) /\ ~Reverting(req[q], s)
           /\ NoPrevious(s)
           /\ new.pc # "read" => \A f \in DOMAIN before[s] : before[s][f] = new.seen[f],
         Reverting(new, s) =>
           /\ \A q \in Request : ~Applying(req[q], s)
           /\ Get(s).status # "pending" /\ Matching(new.rest, new.patch, before[s])
  PROVE  Remembered(s)'
<1>1. req'[r] = new /\ \A q \in Request \ {r} : req'[q] = req[q]
  BY DEF Moves, Types, Sound
<1>2. (NoPrevious(s)' <=> NoPrevious(s)) /\ Get(s)' = Get(s)
  BY DEF NoPrevious, Get
<1>3. ~(Applying(new, s) /\ Reverting(new, s))
  BY DEF Applying, Reverting
<1>4. ASSUME NEW p \in Request, Applying(req'[p], s)
      PROVE  /\ \A q \in Request : Applying(req'[q], s) \/ Reverting(req'[q], s) => q = p
             /\ NoPrevious(s)
             /\ req'[p].pc # "read" => \A f \in DOMAIN before[s] : before[s][f] = req'[p].seen[f]
  <2>1. CASE p = r
    BY <1>1, <1>4, <2>1, <1>3
  <2>2. CASE p # r
    <3>1. Applying(req[p], s) /\ req'[p] = req[p]
      BY <1>1, <1>4, <2>2
    <3>2. ~Applying(new, s) /\ ~Reverting(new, s)
      BY <2>2, <3>1
    <3> QED
      BY <1>1, <3>1, <3>2 DEF Remembered
  <2> QED
    BY <2>1, <2>2
<1>5. ASSUME NEW p \in Request, Reverting(req'[p], s)
      PROVE  Get(s).status # "pending" /\ Matching(req'[p].rest, req'[p].patch, before[s])
  BY <1>1, <1>5 DEF Remembered
<1>6. KeptRight(row[s], before[s]) /\ KeptRight(cache[s], before[s])
  BY DEF Remembered
<1> QED
  BY <1>2, <1>4, <1>5, <1>6 DEF Remembered

\* A request that goes aside.
LEMMA RememberedAside ==
  ASSUME Sound, NEW r \in Request, NEW new, Moves(r, new), Aside(new), NEW s \in Sug,
         Remembered(s), row'[s] = row[s], cache'[s] = cache[s], before'[s] = before[s]
  PROVE  Remembered(s)'
  BY AsideIs, RememberedBy

\* A request that goes on with the same fix, and does not read the shop.
LEMMA RememberedOn ==
  ASSUME Sound, NEW r \in Request, NEW new, Moves(r, new), Proceeds(new, req[r]), NEW s \in Sug,
         Applying(new, s) => /\ Applying(req[r], s) /\ new.seen = req[r].seen
                             /\ req[r].pc = "read" => new.pc = "read",
         Remembered(s), row'[s] = row[s], cache'[s] = cache[s], before'[s] = before[s]
  PROVE  Remembered(s)'
<1>1. Reverting(new, s) => Reverting(req[r], s)
  BY DEF Reverting, Proceeds
<1>2. Applying(new, s) =>
        /\ \A q \in Request \ {r} : ~Applying(req[q], s) /\ ~Reverting(req[q], s)
        /\ NoPrevious(s)
        /\ new.pc # "read" => \A f \in DOMAIN before[s] : before[s][f] = new.seen[f]
  BY DEF Remembered
<1>3. Reverting(new, s) =>
        /\ \A q \in Request : ~Applying(req[q], s)
        /\ Get(s).status # "pending" /\ Matching(new.rest, new.patch, before[s])
  <2>1. Reverting(req[r], s) => \A q \in Request : Applying(req[q], s) => q = r
    BY DEF Remembered
  <2> QED
    BY Zenon, <1>1, <2>1 DEF Remembered, Proceeds, Applying, Reverting
<1> QED
  BY <1>2, <1>3, RememberedBy

\* The rows of a fix change, and the requests but for one that goes aside, or on with
\* what it reverts, are as they were.
LEMMA RowsRemembered ==
  ASSUME Sound, NEW r \in Request, NEW new, Moves(r, new),
         Aside(new) \/ (new.op = "revert" /\ Proceeds(new, req[r])),
         NEW s \in Sug, Remembered(s), before'[s] = before[s],
         KeptRight(row'[s], before[s]), KeptRight(cache'[s], before[s]),
         (\E q \in Request \ {r} : Applying(req[q], s)) => NoPrevious(s)',
         (\E q \in Request : Reverting(req[q], s)) => Get(s)'.status # "pending"
  PROVE  Remembered(s)'
<1>1. req'[r] = new /\ \A q \in Request \ {r} : req'[q] = req[q]
  BY DEF Moves, Types, Sound
<1>2. /\ ~Applying(new, s)
      /\ Reverting(new, s) => /\ Reverting(req[r], s) /\ new.rest = req[r].rest
                              /\ new.patch = req[r].patch
  BY AsideIs DEF Proceeds, Reverting
<1>3. ASSUME NEW p \in Request, Applying(req'[p], s)
      PROVE  /\ \A q \in Request : Applying(req'[q], s) \/ Reverting(req'[q], s) => q = p
             /\ NoPrevious(s)'
             /\ req'[p].pc # "read" => \A f \in DOMAIN before[s] : before[s][f] = req'[p].seen[f]
  <2>1. p # r /\ req'[p] = req[p] /\ Applying(req[p], s)
    BY <1>1, <1>2, <1>3
  <2>2. ~Reverting(req[r], s)
    BY <2>1 DEF Remembered
  <2>3. ~Reverting(new, s)
    BY <1>2, <2>2
  <2> QED
    BY <1>1, <1>2, <2>1, <2>3 DEF Remembered
<1>4. ASSUME NEW p \in Request, Reverting(req'[p], s)
      PROVE  Get(s)'.status # "pending" /\ Matching(req'[p].rest, req'[p].patch, before[s])
  <2>1. /\ Reverting(req[p], s) /\ req'[p].rest = req[p].rest /\ req'[p].patch = req[p].patch
    BY <1>1, <1>2, <1>4
  <2> QED
    BY <2>1 DEF Remembered
<1> QED
  BY <1>3, <1>4 DEF Remembered

\* A mark copies or leaves what is kept.
LEMMA MarkRemembers ==
  ASSUME Sound, NEW r \in Request, NEW new, Moves(r, new),
         Aside(new) \/ (new.op = "revert" /\ Proceeds(new, req[r])),
         NEW t \in Sug, NEW status \in Status \ {"pending"}, NEW states, Marks(t, status, states),
         NEW s \in Sug, Remembered(s), before' = before
  PROVE  Remembered(s)'
<1>1. CASE s # t
  <2>1. row'[s] = row[s] /\ cache'[s] = cache[s]
    BY <1>1, MarkEffect DEF Sound, Elsewhere
  <2>2. (NoPrevious(s)' <=> NoPrevious(s)) /\ Get(s)' = Get(s)
    BY <2>1 DEF NoPrevious, Get
  <2> QED
    BY <2>1, <2>2, RowsRemembered DEF Remembered
<1>2. CASE s = t
  <2>1. /\ \/ row'[s] = row[s]
           \/ /\ row[s] # Absent /\ row'[s] # Absent /\ row'[s].status = status
              /\ row'[s].patch = row[s].patch /\ row'[s].previous = row[s].previous
        /\ \/ cache'[s] = cache[s]
           \/ /\ cache'[s] # Absent /\ cache'[s].status = status
              /\ \E old \in {row[s], cache[s]} :
                   /\ old # Absent /\ cache'[s].patch = old.patch
                   /\ cache'[s].previous = old.previous
    BY <1>2, MarkEffect, RowFields DEF Sound
  <2>2. KeptRight(row'[s], before[s]) /\ KeptRight(cache'[s], before[s])
    BY <2>1 DEF Remembered, KeptRight
  <2>3. NoPrevious(s) => NoPrevious(s)'
    BY <2>1 DEF NoPrevious
  <2>4. Get(s).status # "pending" => Get(s)'.status # "pending"
    BY <2>1 DEF Get
  <2>5. (\E q \in Request \ {r} : Applying(req[q], s)) => NoPrevious(s)'
    BY <2>3 DEF Remembered
  <2>6. (\E q \in Request : Reverting(req[q], s)) => Get(s)'.status # "pending"
    BY <2>4 DEF Remembered
  <2> QED
    BY <2>2, <2>5, <2>6, RowsRemembered
<1> QED
  BY <1>1, <1>2

\* A new row has nothing kept, and no request knows it.
LEMMA NewRemembers ==
  ASSUME Sound, NEW r \in Request, NEW new, Moves(r, new),
         Aside(new) \/ (new.op = "revert" /\ Proceeds(new, req[r])),
         NEW t \in Sug, row[t] = Absent, cache[t] = Absent, Elsewhere(t),
         row'[t] # Absent => row'[t].previous = Absent,
         cache'[t] # Absent => cache'[t].previous = Absent,
         NEW s \in Sug, Remembered(s), before' = before
  PROVE  Remembered(s)'
<1>1. CASE s # t
  <2>1. row'[s] = row[s] /\ cache'[s] = cache[s]
    BY <1>1 DEF Elsewhere
  <2>2. (NoPrevious(s)' <=> NoPrevious(s)) /\ Get(s)' = Get(s)
    BY <2>1 DEF NoPrevious, Get
  <2> QED
    BY <2>1, <2>2, RowsRemembered DEF Remembered
<1>2. CASE s = t
  <2>1. ~Known(s)
    BY <1>2 DEF Known, Get
  <2>2. \A q \in Request : ~Applying(req[q], s) /\ ~Reverting(req[q], s)
    BY <2>1 DEF Sound, Located, About, Applying, Reverting
  <2>3. KeptRight(row'[s], before[s]) /\ KeptRight(cache'[s], before[s])
    BY <1>2 DEF KeptRight
  <2> QED
    BY <2>2, <2>3, RowsRemembered
<1> QED
  BY <1>1, <1>2

\* An apply that is recorded keeps what the shop held.
LEMMA RecordRemembers ==
  ASSUME Sound, NEW r \in Request, NEW new, Moves(r, new),
         Aside(new) \/ (new.op = "revert" /\ Proceeds(new, req[r])),
         Records(r), NEW s \in Sug, Remembered(s), before' = before
  PROVE  Remembered(s)'
<1> DEFINE t == req[r].sug
           previous == Previous(r)
<1>1. /\ t \in Sug /\ req[r].op = "apply" /\ req[r].pc = "record"
      /\ DOMAIN previous = DOMAIN req[r].patch
      /\ \A f \in DOMAIN req[r].patch : previous[f] = req[r].seen[f]
  BY DEF Records
<1>2. /\ Elsewhere(t)
      /\ \/ row'[t] = row[t]
         \/ /\ row[t] # Absent /\ row'[t].patch = req[r].patch
            /\ row'[t].previous \in {row[t].previous, previous}
      /\ \/ cache'[t] = cache[t]
         \/ cache'[t].patch = req[r].patch /\ cache'[t].previous = previous
  BY RecordEffect DEF Sound
<1> HIDE DEF previous
<1>3. CASE s # t
  <2>1. row'[s] = row[s] /\ cache'[s] = cache[s]
    BY <1>2, <1>3 DEF Elsewhere
  <2>2. (NoPrevious(s)' <=> NoPrevious(s)) /\ Get(s)' = Get(s)
    BY <2>1 DEF NoPrevious, Get
  <2> QED
    BY <2>1, <2>2, RowsRemembered DEF Remembered
<1>4. CASE s = t
  <2>1. Applying(req[r], s)
    BY <1>1, <1>4 DEF Applying
  <2>2. /\ \A q \in Request : Applying(req[q], s) \/ Reverting(req[q], s) => q = r
        /\ NoPrevious(s) /\ \A f \in DOMAIN before[s] : before[s][f] = req[r].seen[f]
    BY <1>1, <2>1 DEF Remembered
  <2>3. ~Reverting(req[r], s)
    BY <1>1 DEF Reverting
  <2>4. \A f \in DOMAIN previous \cap DOMAIN before[s] : previous[f] = before[s][f]
    BY <1>1, <2>2
  <2>5. KeptRight(row'[s], before[s]) /\ KeptRight(cache'[s], before[s])
    BY Zenon, <1>1, <1>2, <1>4, <2>2, <2>4 DEF NoPrevious, KeptRight, Matching
  <2> QED
    BY <2>2, <2>3, <2>5, RowsRemembered
<1> QED
  BY <1>3, <1>4

\* What a table step does to what is kept.
LEMMA TableRemembers ==
  ASSUME Sound, NEW r \in Request, NEW new, Moves(r, new),
         Aside(new) \/ (new.op = "revert" /\ Proceeds(new, req[r])),
         TableStep(r), NEW s \in Sug, Remembered(s), before' = before
  PROVE  Remembered(s)'
<1>1. CASE UNCHANGED <<row, cache>>
  <2>1. (NoPrevious(s)' <=> NoPrevious(s)) /\ Get(s)' = Get(s)
    BY <1>1 DEF NoPrevious, Get
  <2> QED
    BY <1>1, <2>1, RowsRemembered DEF Remembered
<1>2. CASE \E t \in Sug : Marks(t, "reverted", {"applied"}) \/ Marks(t, "superseded", {"pending"})
  <2>1. PICK t \in Sug : Marks(t, "reverted", {"applied"}) \/ Marks(t, "superseded", {"pending"})
    BY <1>2
  <2>2. "reverted" \in Status \ {"pending"} /\ "superseded" \in Status \ {"pending"}
    BY DEF Status
  <2>3. CASE Marks(t, "reverted", {"applied"})
    BY <2>2, <2>3, MarkRemembers
  <2>4. CASE Marks(t, "superseded", {"pending"})
    BY <2>2, <2>4, MarkRemembers
  <2> QED
    BY <2>1, <2>3, <2>4
<1>3. CASE \E x : Creates(x)
  <2>1. PICK x : Creates(x)
    BY <1>3
  <2>2. PICK t \in Sug :
          /\ row[t] = Absent /\ cache[t] = Absent /\ Elsewhere(t)
          /\ row'[t] \in {Absent, x} /\ cache'[t] = x /\ x.previous = Absent
    BY <2>1, CreateEffect DEF Sound, Creates
  <2> QED
    BY <2>2, NewRemembers
<1>4. CASE Records(r)
  BY <1>4, RecordRemembers
<1>5. CASE \E a \in Audit : Proposes(a)
  <2>1. PICK a \in Audit, fields \in Proposals, t \in Sug :
          /\ row[t] = Absent /\ cache[t] = Absent /\ Elsewhere(t)
          /\ row'[t] = Proposed(t, fields, a) /\ cache' = cache
    BY <1>5, ProposeEffect DEF Sound
  <2>2. row'[t].previous = Absent
    BY <2>1 DEF Proposed
  <2> QED
    BY <2>1, <2>2, NewRemembers
<1>6. CASE \E a \in Audit : Withdraws(a) /\ audit[a] # Absent /\ audit[a].ready
  <2>1. PICK a \in Audit : Withdraws(a)
    BY <1>6
  <2>2. /\ cache'[s] = cache[s]
        /\ \/ row'[s] = row[s]
           \/ /\ row[s] # Absent /\ row'[s] # Absent /\ row'[s].status = "superseded"
              /\ row'[s].patch = row[s].patch /\ row'[s].previous = row[s].previous
    BY Zenon, <2>1, Withdrawing, RowFields DEF Sound, Withdraws, Older
  <2>3. KeptRight(row'[s], before[s]) /\ KeptRight(cache'[s], before[s])
    BY <2>2 DEF Remembered, KeptRight
  <2>4. NoPrevious(s) => NoPrevious(s)'
    BY <2>2 DEF NoPrevious
  <2>5. Get(s).status # "pending" => Get(s)'.status # "pending"
    BY <2>2 DEF Get
  <2> QED
    BY <2>3, <2>4, <2>5, RowsRemembered DEF Remembered
<1> QED
  BY <1>1, <1>2, <1>3, <1>4, <1>5, <1>6 DEF TableStep

\* A write remembers what it replaced, as the request had read it.
LEMMA WriteRemembers ==
  ASSUME Sound, NEW r \in Request, WriteStep(r), NEW s \in Sug, Remembered(s), s \notin muddled'
  PROVE  Remembered(s)'
<1>1. PICK new :
        /\ Moves(r, new) /\ req[r].op \in {"apply", "revert"} /\ req[r].pc = "write"
        /\ \/ Unladen(new)
           \/ /\ Proceeds(new, req[r]) /\ new.pc \in {"write", "record"}
              /\ new.seen = req[r].seen
        /\ \/ UNCHANGED <<before, muddled>>
           \/ /\ req[r].op = "apply"
              /\ Remember(r, Stage[NextStage(r)] \cap DOMAIN req[r].patch)
        /\ UNCHANGED Table
  BY Zenon, WriteMoves DEF Sound
<1>2. row'[s] = row[s] /\ cache'[s] = cache[s]
  BY <1>1 DEF Table
<1>3. req[r].sug \in Sug
  BY <1>1 DEF Sound, Located, About
<1>4. CASE before'[s] = before[s]
  <2>1. CASE Unladen(new)
    BY <1>1, <1>2, <1>4, <2>1, AsideIs, RememberedAside
  <2>2. CASE ~Unladen(new)
    <3>1. Applying(new, s) => Applying(req[r], s) /\ new.seen = req[r].seen /\ req[r].pc # "read"
      BY <1>1, <2>2 DEF Applying, Proceeds
    <3> QED
      BY <1>1, <1>2, <1>4, <2>2, <3>1, RememberedOn
  <2> QED
    BY <2>1, <2>2
<1>5. CASE before'[s] # before[s]
  <2> DEFINE fields == Stage[NextStage(r)] \cap DOMAIN req[r].patch
  <2>1. req[r].op = "apply" /\ Remember(r, fields)
    BY <1>1, <1>5
  <2>2. fields \in SUBSET Field
    <3>1. req[r].patch \in Patch
      BY DEF Sound, Types, Coroutine
    <3> QED
      BY <3>1, PatchFacts
  <2> HIDE DEF fields
  <2>3. /\ s = req[r].sug
        /\ \A f \in DOMAIN before'[s] : \/ f \in DOMAIN before[s] /\ before'[s][f] = before[s][f]
                                        \/ before'[s][f] = req[r].seen[f]
    BY <1>3, <1>5, <2>1, <2>2, RememberTyped DEF Sound
  <2>4. Applying(req[r], s)
    BY <1>1, <2>1, <2>3 DEF Applying
  <2>5. /\ \A q \in Request : Applying(req[q], s) \/ Reverting(req[q], s) => q = r
        /\ NoPrevious(s)
        /\ \A f \in DOMAIN before'[s] : before'[s][f] = req[r].seen[f]
    BY <1>1, <2>3, <2>4 DEF Remembered
  <2>6. req'[r] = new /\ \A q \in Request \ {r} : req'[q] = req[q]
    BY <1>1 DEF Moves, Types, Sound
  <2>7. NoPrevious(s)'
    BY <1>2, <2>5 DEF NoPrevious
  <2>8. \A q \in Request \ {r} : ~Applying(req'[q], s) /\ ~Reverting(req'[q], s)
    BY <2>5, <2>6
  <2>9. /\ ~Reverting(new, s)
        /\ Applying(new, s) => \A f \in DOMAIN before'[s] : before'[s][f] = new.seen[f]
    BY <1>1, <2>1, <2>5, AsideIs DEF Proceeds, Reverting
  <2>10. KeptRight(row'[s], before'[s]) /\ KeptRight(cache'[s], before'[s])
    BY <1>2, <2>5 DEF NoPrevious, KeptRight
  <2> QED
    BY <2>6, <2>7, <2>8, <2>9, <2>10 DEF Remembered
<1> QED
  BY <1>4, <1>5

\* A request reads the row of a fix, or the shop, for the first time.
LEMMA ReadRemembers ==
  ASSUME Sound, NEW r \in Request, LoadSuggestion(r) \/ ReadShop(r), NEW s \in Sug,
         Remembered(s), s \notin muddled'
  PROVE  Remembered(s)'
<1> USE DEF Sound
<1>1. row'[s] = row[s] /\ cache'[s] = cache[s] /\ before'[s] = before[s]
  BY DEF LoadSuggestion, ReadShop, Table
<1>2. CASE LoadSuggestion(r)
  <2>1. PICK new :
          /\ Moves(r, new) /\ req[r].op = "apply" /\ req[r].pc = "load"
          /\ \/ Unladen(new)
             \/ /\ new.op = "apply" /\ new.pc = "read" /\ new.sug = req[r].sug
                /\ Get(new.sug).status = "pending"
                /\ muddled' = IF Overlapped(r) THEN muddled \cup {req[r].sug} ELSE muddled
    BY <1>2, LoadMoves
  <2>2. CASE Unladen(new)
    BY <1>1, <2>1, <2>2, AsideIs, RememberedAside
  <2>3. CASE ~Unladen(new) /\ new.sug # s
    BY <1>1, <2>1, <2>3, RememberedBy DEF Applying, Reverting
  <2>4. CASE ~Unladen(new) /\ new.sug = s
    <3>1. Known(s) /\ Get(s).status = "pending" /\ ~Overlapped(r)
      BY <2>1, <2>4 DEF Located, About
    <3>2. \A q \in Request \ {r} : ~Applying(req[q], s)
      BY <2>1, <2>4, <3>1 DEF Overlapped, Applying
    <3>3. \A q \in Request : ~Reverting(req[q], s)
      BY <3>1 DEF Remembered
    <3>4. NoPrevious(s)
      BY <3>1 DEF RowsFit, RowFits, Get, Known, NoPrevious
    <3> QED
      BY <1>1, <2>1, <2>4, <3>2, <3>3, <3>4, RememberedBy DEF Reverting
  <2> QED
    BY <2>2, <2>3, <2>4
<1>3. CASE ReadShop(r)
  <2>1. PICK new :
          /\ Moves(r, new) /\ req[r].op = "apply" /\ req[r].pc = "read"
          /\ Unladen(new) \/ (Proceeds(new, req[r]) /\ new.pc = "write")
    BY <1>3, ReadMoves
  <2>2. CASE Unladen(new)
    BY <1>1, <2>1, <2>2, AsideIs, RememberedAside
  <2>3. CASE ~Unladen(new) /\ new.sug # s
    BY <1>1, <2>1, <2>3, RememberedBy DEF Applying, Reverting
  <2>4. CASE ~Unladen(new) /\ new.sug = s
    <3>1. before[s] = <<>> /\ Applying(req[r], s) /\ new.op = "apply"
      BY <1>3, <2>1, <2>4 DEF ReadShop, Proceeds, Applying
    <3>2. DOMAIN before[s] = {}
      BY <3>1, NoPatch
    <3>3. /\ \A q \in Request \ {r} : ~Applying(req[q], s) /\ ~Reverting(req[q], s)
          /\ NoPrevious(s)
      BY <3>1 DEF Remembered
    <3> QED
      BY <1>1, <2>1, <3>1, <3>2, <3>3, RememberedBy DEF Reverting
  <2> QED
    BY <2>2, <2>3, <2>4
<1> QED
  BY <1>2, <1>3

\* A revert begins with what is kept, or goes on with it.
LEMMA RevertRemembers ==
  ASSUME Sound, NEW r \in Request, StartRevert(r) \/ CheckDrift(r), NEW s \in Sug, Remembered(s)
  PROVE  Remembered(s)'
<1> USE DEF Sound
<1>1. row'[s] = row[s] /\ cache'[s] = cache[s] /\ before'[s] = before[s]
  BY Zenon DEF StartRevert, CheckDrift, Table, history
<1>2. CASE StartRevert(r)
  <2>1. PICK new :
          /\ Moves(r, new) /\ new.op = "revert"
          /\ Get(new.sug).status = "applied" /\ Get(new.sug).previous # Absent
          /\ new.patch = Get(new.sug).patch /\ new.rest = PutBack(new.sug)
    BY <1>2, StartRevertMoves
  <2>2. CASE new.sug # s
    BY <1>1, <2>1, <2>2, RememberedBy DEF Applying, Reverting
  <2>3. CASE new.sug = s
    <3>1. Known(s)
      BY <2>1, <2>3 DEF Moves, About
    <3>2. ~NoPrevious(s) /\ Matching(new.rest, new.patch, before[s])
      <4>1. ~NoPrevious(s) /\ Matching(Get(s).previous, Get(s).patch, before[s])
        BY <2>1, <2>3, <3>1 DEF NoPrevious, Remembered, KeptRight, Get, Known
      <4>2. /\ DOMAIN PutBack(s) = DOMAIN Get(s).patch \cap DOMAIN Get(s).previous
            /\ \A f \in DOMAIN PutBack(s) : PutBack(s)[f] = Get(s).previous[f]
        BY <2>1, <2>3, <3>1, PutBackPatch
      <4> QED
        BY <2>1, <2>3, <4>1, <4>2 DEF Matching
    <3>3. \A q \in Request : ~Applying(req[q], s)
      BY <3>2 DEF Remembered
    <3> QED
      BY <1>1, <2>1, <2>3, <3>2, <3>3, RememberedBy DEF Applying
  <2> QED
    BY <2>2, <2>3
<1>3. CASE CheckDrift(r)
  <2>1. PICK new :
          /\ Moves(r, new) /\ req[r].op = "revert"
          /\ Unladen(new) \/ (Proceeds(new, req[r]) /\ new.pc = "write")
    BY <1>3, CheckDriftMoves
  <2>2. CASE Unladen(new)
    BY <1>1, <2>1, <2>2, AsideIs, RememberedAside
  <2>3. CASE Proceeds(new, req[r])
    BY <1>1, <2>1, <2>3, RememberedOn DEF Applying, Proceeds
  <2> QED
    BY <2>1, <2>2, <2>3
<1> QED
  BY <1>2, <1>3

\* The other steps of requests change no row and nothing that is remembered.
LEMMA QuietMoves ==
  ASSUME Sound, NEW r \in Request,
         \/ StartApply(r) \/ StartBulk(r) \/ StartReviewed(r) \/ CheckReview(r)
         \/ StartRegenerate(r) \/ NothingGenerated(r) \/ StartAudit(r) \/ SaveAudit(r)
         \/ FinishAudit(r) \/ AuditFails(r)
  PROVE  \E new : /\ Moves(r, new) /\ Aside(new)
                  /\ Unladen(new) \/ (new.op = "regenerate" /\ StartRegenerate(r))
                       \/ new.op = "audit"
<1> USE DEF Sound
<1>1. CASE StartApply(r) \/ StartBulk(r) \/ StartReviewed(r) \/ CheckReview(r)
  BY <1>1, StartApplyMoves, StartBulkMoves, StartReviewedMoves, CheckReviewMoves, AsideIs
<1>2. CASE StartRegenerate(r)
  BY <1>2, StartRegenerateMoves, AsideIs
<1>3. CASE NothingGenerated(r) \/ StartAudit(r)
  BY <1>3, NothingGeneratedMoves, StartAuditMoves, AsideIs
<1>4. CASE SaveAudit(r)
  <2>1. PICK db, ready, new :
          /\ db \in Call /\ ready \in BOOLEAN
          /\ Moves(r, new) /\ req[r].op = "audit"
          /\ (db = "ok" /\ Proceeds(new, req[r])) \/ Unladen(new)
    BY Zenon, <1>4, SaveAuditMoves
  <2> db \in Call /\ ready \in BOOLEAN
    BY <2>1
  <2> QED
    BY <2>1, AsideIs DEF Proceeds
<1>5. CASE FinishAudit(r)
  BY ZenonT(60), <1>5, FinishAuditMoves, AsideIs DEF Proceeds
<1>6. CASE AuditFails(r)
  BY Zenon, <1>6, AuditFailsMoves, AsideIs
<1> QED
  BY <1>1, <1>2, <1>3, <1>4, <1>5, <1>6

\* What is muddled stays so.
LEMMA MuddledStays ==
  ASSUME Sound, [Next]_vars
  PROVE  muddled \subseteq muddled'
<1>1. CASE \E r \in Request : WriteStep(r)
  <2>1. PICK r \in Request : WriteStep(r)
    BY <1>1
  <2> DEFINE fields == Stage[NextStage(r)] \cap DOMAIN req[r].patch
  <2>2. /\ req[r].op \in {"apply", "revert"} /\ req[r].sug \in Sug
        /\ UNCHANGED <<before, muddled>> \/ Remember(r, fields)
    BY <2>1, WriteMoves DEF Sound, Located, About
  <2>3. fields \in SUBSET Field
    <3>1. req[r].patch \in Patch
      BY DEF Sound, Types, Coroutine
    <3> QED
      BY <3>1, PatchFacts
  <2> HIDE DEF fields
  <2> QED
    BY <2>2, <2>3, RememberTyped DEF Sound
<1>2. CASE \E r \in Request : LoadSuggestion(r) \/ ReadShop(r)
  BY <1>2 DEF LoadSuggestion, ReadShop
<1>3. CASE muddled' = muddled
  BY <1>3
<1>4. CASE ~\E r \in Request : WriteStep(r) \/ LoadSuggestion(r) \/ ReadShop(r)
  <2>1. muddled' = muddled
    BY ZenonT(60), <1>4
    DEF Next, ApplyStep, RevertStep, RegenerateStep, AuditStep, StartApply, StartBulk,
        StartReviewed, CheckReview, RecordApplied, KeepRest, StartRevert, CheckDrift,
        RecordReverted, Reopen, StartRegenerate, NothingGenerated, Replace, CarryForward,
        SupersedeSource, UndoChild, StartAudit, SaveAudit, SaveChildren, SupersedePending,
        FinishAudit, AuditFails, MerchantEdits, Restart, vars, history
  <2> QED
    BY <2>1
<1> QED
  BY <1>1, <1>2, <1>3, <1>4

\* What is kept stays right.
LEMMA MemoryStep == Sound /\ Memory /\ [Next]_vars => Memory'
<1> SUFFICES ASSUME Sound, Memory, [Next]_vars, NEW s \in Sug, s \notin muddled'
             PROVE  Remembered(s)'
  BY DEF Memory
<1>1. Remembered(s)
  BY MuddledStays DEF Memory
<1>2. ASSUME NEW r \in Request,
             \/ RecordApplied(r) \/ KeepRest(r) \/ RecordReverted(r) \/ Reopen(r) \/ Replace(r)
             \/ CarryForward(r) \/ SupersedeSource(r) \/ UndoChild(r) \/ SaveChildren(r)
             \/ SupersedePending(r)
      PROVE  Remembered(s)'
  <2>1. TableStep(r)
    BY <1>2, TableSteps DEF Sound, ApplyStep, RevertStep, RegenerateStep, AuditStep
  <2>2. before' = before
    BY Zenon, <1>2 DEF RecordApplied, KeepRest, RecordReverted, Reopen, Replace, CarryForward,
       SupersedeSource, UndoChild, SaveChildren, SupersedePending, history
  <2> QED
    BY <1>1, <1>2, <2>1, <2>2, TableMoves, TableRemembers
<1>3. ASSUME NEW r \in Request,
             \/ StartApply(r) \/ StartBulk(r) \/ StartReviewed(r) \/ CheckReview(r)
             \/ StartRegenerate(r) \/ NothingGenerated(r) \/ StartAudit(r) \/ SaveAudit(r)
             \/ FinishAudit(r) \/ AuditFails(r)
      PROVE  Remembered(s)'
  <2>1. row' = row /\ cache' = cache /\ before' = before
    BY Zenon, <1>3 DEF StartApply, StartBulk, StartReviewed, CheckReview, StartRegenerate,
       NothingGenerated, StartAudit, SaveAudit, FinishAudit, AuditFails, Table, history
  <2> QED
    BY <1>1, <1>3, <2>1, QuietMoves, RememberedAside
<1>4. CASE \E r \in Request : \/ WriteStep(r) \/ LoadSuggestion(r) \/ ReadShop(r)
                              \/ StartRevert(r) \/ CheckDrift(r)
  BY <1>1, <1>4, WriteRemembers, ReadRemembers, RevertRemembers
<1>5. CASE MerchantEdits \/ UNCHANGED vars
  <2>1. row' = row /\ cache' = cache /\ before' = before /\ req' = req
    BY <1>5 DEF MerchantEdits, Table, history, vars
  <2>2. (NoPrevious(s)' <=> NoPrevious(s)) /\ Get(s)' = Get(s)
    BY <2>1 DEF NoPrevious, Get
  <2> QED
    BY <1>1, <2>1, <2>2 DEF Remembered
<1>6. CASE Restart
  <2>1. \A r \in Request : ~Applying(req'[r], s) /\ ~Reverting(req'[r], s)
    BY <1>6, RestartTypes DEF Sound, Applying, Reverting, Idle
  <2>2. row' = row /\ cache'[s] = Absent /\ before' = before
    BY <1>6 DEF Restart
  <2>3. KeptRight(cache'[s], before[s])
    BY <2>2 DEF KeptRight
  <2> QED
    BY <1>1, <2>1, <2>2, <2>3 DEF Remembered
<1> QED
  BY <1>2, <1>3, <1>4, <1>5, <1>6 DEF Next, ApplyStep, RevertStep, RegenerateStep, AuditStep

\* Nothing is kept at first.
LEMMA MemoryInit == Init => Memory
<1> SUFFICES ASSUME Init, NEW s \in Sug
             PROVE  Remembered(s)
  BY DEF Memory
<1>1. \A r \in Request : ~Applying(req[r], s) /\ ~Reverting(req[r], s)
  BY DEF Init, Applying, Reverting, Idle
<1>2. cache[s] = Absent /\ RowFits(s)
  BY SoundInit DEF Init, Sound, RowsFit
<1>3. row[s] # Absent => row[s].previous = Absent
  <2>1. PICK fields \in Proposals :
          row = [t \in Sug |-> IF t = 1 THEN Proposed(1, fields, 1) ELSE Absent]
    BY FirstRow
  <2> QED
    BY <2>1 DEF Proposed
<1> QED
  BY <1>1, <1>2, <1>3 DEF Remembered, KeptRight

\* What is kept of a fix that no overlapping requests wrote is what the shop held before it.
THEOREM MemoryAlways == Spec => []Memory
  BY SoundAlways, MemoryInit, MemoryStep, PTL DEF Spec

\* A call of a revert that Shopify carries out writes what is kept.
LEMMA Restores ==
  ASSUME Sound, Memory, [Next]_vars, NEW r \in Request, NEW fields \in SUBSET Field,
         Reverts(r, fields)
  PROVE  /\ \A f \in fields :
              /\ live[f] = req[r].seen[f] => live[f] = req[r].patch[f]
              /\ f \in DOMAIN before[req[r].sug] =>
                   live'[f] = before[req[r].sug][f] \/ req[r].sug \in muddled
         /\ \A f \in Beside(fields) : live'[f] = Unset
         /\ \A f \in Field \ (fields \cup Beside(fields)) : live'[f] = live[f]
<1> USE DEF Sound
<1>1. /\ req[r].op = "revert" /\ req[r].pc = "write" /\ req'[r] # req[r] /\ left' = left
      /\ fields = Stage[NextStage(r)] \cap DOMAIN req[r].rest
  BY DEF Reverts
<1>2. /\ req[r].sug \in Sug /\ \A f \in DOMAIN req[r].patch : req[r].seen[f] = req[r].patch[f]
      /\ req[r].patch \in Patch /\ req[r].rest \in Patch
      /\ DOMAIN req[r].rest \subseteq DOMAIN req[r].patch
      /\ req[r].todo # {} /\ req[r].todo \subseteq 1..3
  BY <1>1 DEF Located, About, Types, Coroutine
<1>3. \A what \in {"asks", "edits", "faults", "crashes"} : ~Counted(what)
  BY <1>1 DEF Counted, Types
<1>4. PICK q \in Request :
        ApplyStep(q) \/ WriteStep(q) \/ RevertStep(q) \/ RegenerateStep(q) \/ AuditStep(q)
  BY <1>1, <1>3 DEF Next, MerchantEdits, Restart, vars
<1>5. q = r
  <2>1. \E new : Moves(q, new)
    <3>1. CASE WriteStep(q) \/ LoadSuggestion(q) \/ ReadShop(q) \/ StartRevert(q) \/ CheckDrift(q)
      BY Zenon, <3>1, WriteMoves, LoadMoves, ReadMoves, StartRevertMoves, CheckDriftMoves
    <3> QED
      BY <1>4, <3>1, TableMoves, QuietMoves
      DEF ApplyStep, RevertStep, RegenerateStep, AuditStep
  <2> QED
    BY <1>1, <2>1 DEF Moves, Types
<1>6. WriteShop(r)
  <2>1. WriteStep(r)
    <3>1. ~Ask(r)
      BY <1>1 DEF Ask, Idle
    <3>2. /\ \A pc : ~At(r, "apply", pc) /\ ~At(r, "regenerate", pc) /\ ~At(r, "audit", pc)
          /\ ~At(r, "revert", "check") /\ ~At(r, "revert", "record")
          /\ ~At(r, "revert", "reopen")
      BY <1>1 DEF At
    <3>3. ~ApplyStep(r)
      BY Zenon, <3>1, <3>2 DEF ApplyStep, StartApply, StartBulk, StartReviewed, CheckReview,
         LoadSuggestion, ReadShop, RecordApplied, KeepRest
    <3>4. ~RevertStep(r)
      BY Zenon, <3>1, <3>2 DEF RevertStep, StartRevert, CheckDrift, RecordReverted, Reopen
    <3>5. ~RegenerateStep(r)
      BY Zenon, <1>1, <3>1, <3>2 DEF RegenerateStep, StartRegenerate, NothingGenerated, Replace,
         CarryForward, SupersedeSource, UndoChild
    <3>6. ~AuditStep(r)
      BY Zenon, <3>1, <3>2 DEF AuditStep, StartAudit, SaveAudit, SaveChildren, SupersedePending,
         FinishAudit, AuditFails
    <3> QED
      BY <1>4, <1>5, <3>3, <3>4, <3>5, <3>6
  <2> QED
    BY <1>3, <2>1 DEF WriteStep, WriteRefused, WriteRaises
<1>7. Sent(r) = req[r].rest /\ Written(r)
  BY <1>1, <1>6 DEF Sent, WriteShop
<1>8. ASSUME NEW f \in fields, req[r].sug \notin muddled, f \in DOMAIN before[req[r].sug]
      PROVE  live'[f] = before[req[r].sug][f]
  <2> DEFINE s == req[r].sug
  <2>1. Remembered(s) /\ Reverting(req[r], s)
    BY <1>1, <1>2, <1>8 DEF Memory, Reverting
  <2>2. Matching(req[r].rest, req[r].patch, before[s])
    BY <2>1 DEF Remembered
  <2>3. f \in DOMAIN req[r].rest /\ req[r].rest[f] = before[s][f]
    BY <1>1, <1>8, <2>2 DEF Matching
  <2>4. f \in DOMAIN Payload(r) /\ Payload(r)[f] = req[r].rest[f]
    BY <1>1, <1>7, <2>3, WrittenTyped
  <2>5. f \in Stage[NextStage(r)] /\ f \in Field
    BY <1>1, <1>2, <1>8, PatchFacts
  <2> QED
    BY <1>7, <2>3, <2>4, <2>5 DEF Written
<1>9. NextStage(r) \in 1..3
  <2>1. \E i \in req[r].todo : \A j \in req[r].todo : i <= j
    BY <1>2
  <2> QED
    BY <1>2, <2>1 DEF NextStage
<1>10. /\ NextStage(r) = 2 => Stage[NextStage(r)] = Scalar
       /\ NextStage(r) # 2 => Stage[NextStage(r)] \cap Scalar = {}
  BY <1>9 DEF Stage, Scalar
<1>11. ASSUME NEW f \in Beside(fields)
       PROVE  live'[f] = Unset
  <2>1. Cardinality(fields \cap Scalar) = 1 /\ f \in Scalar \ fields
    BY <1>11 DEF Beside
  <2>2. fields \cap Scalar # {}
    BY <2>1, FS_EmptySet
  <2>3. Stage[NextStage(r)] = Scalar /\ fields \cap Scalar = DOMAIN Sent(r) \cap Scalar
    BY <1>1, <1>7, <1>10, <2>2
  <2>4. f \in DOMAIN Payload(r) \ DOMAIN Sent(r)
    BY <1>1, <1>7, <2>1, <2>3, WrittenTyped
  <2>5. Payload(r)[f] = Unset /\ f \in Field
    BY <1>1, <2>1, <2>4, WrittenTyped DEF Field
  <2> QED
    BY <1>7, <2>1, <2>3, <2>4, <2>5 DEF Written
<1>12. ASSUME NEW f \in Field \ (fields \cup Beside(fields))
       PROVE  live'[f] = live[f]
  <2>1. f \notin Stage[NextStage(r)] \cap DOMAIN Payload(r)
    <3> SUFFICES ASSUME f \in Stage[NextStage(r)], f \in DOMAIN Payload(r)
                 PROVE  FALSE
      OBVIOUS
    <3>1. f \in DOMAIN Payload(r) \ DOMAIN Sent(r)
      BY <1>1, <1>7, <1>12
    <3>2. f \in Scalar /\ Cardinality(DOMAIN Sent(r) \cap Scalar) = 1
      BY <1>1, <3>1, WrittenTyped
    <3>3. Stage[NextStage(r)] = Scalar /\ fields \cap Scalar = DOMAIN Sent(r) \cap Scalar
      BY <1>1, <1>7, <1>10, <3>2
    <3>4. f \in Beside(fields)
      BY <1>12, <3>2, <3>3 DEF Beside
    <3> QED
      BY <1>12, <3>4
  <2> QED
    BY <1>7, <2>1 DEF Written
<1> QED
  BY <1>1, <1>2, <1>8, <1>11, <1>12

\* A revert gives each field the value it had before the fix was written there, takes
\* back only values that the fix had put there, clears the SEO field beside the only one
\* that it gives back, and changes no other field.
THEOREM RevertsRestore == Spec => RevertRestores
<1> DEFINE Restored ==
      \A r \in Request, fields \in SUBSET Field : Reverts(r, fields) =>
       /\ \A f \in fields :
            /\ live[f] = req[r].seen[f] => live[f] = req[r].patch[f]
            /\ f \in DOMAIN before[req[r].sug] =>
                 live'[f] = before[req[r].sug][f] \/ req[r].sug \in muddled
       /\ \A f \in Beside(fields) : live'[f] = Unset
       /\ \A f \in Field \ (fields \cup Beside(fields)) : live'[f] = live[f]
<1>1. ASSUME Sound, Memory, [Next]_vars PROVE [Restored]_vars
  BY <1>1, Restores
<1> QED
  BY <1>1, SoundAlways, MemoryAlways, PTL DEF Spec, RevertRestores

-----------------------------------------------------------------------------
(* While no crash cut a request and no failed call went unseen, no field   *)
(* of a fix is lost, and none stands twice.                                *)

\* What the cache says of a row, but for a fix that an audit withdrew
Same(c, x) ==
  /\ x # Absent /\ c.patch = x.patch /\ c.root = x.root /\ c.reopens = x.reopens
  /\ c.status = x.status \/ (c.status = "pending" /\ x.status = "superseded")

\* What a row was made of is there, and what it reopens is not pending
Sprung(s) ==
  /\ row[row[s].root] # Absent
  /\ row[s].reopens # 0 =>
       row[row[s].reopens] # Absent /\ row[row[s].reopens].status # "pending"

Agreement ==
  \A s \in Sug : /\ cache[s] # Absent => Same(cache[s], row[s])
                 /\ row[s] # Absent => Sprung(s)

Loaded(q) == q.op = "apply" /\ q.pc \in {"read", "write", "record", "rest"}

\* The fields a request took from the row
Claimed(q) ==
  IF q.op = "apply" THEN DOMAIN q.patch \cup DOMAIN q.rest
  ELSE IF q.op = "regenerate" THEN q.asked \cup DOMAIN q.rest
  ELSE DOMAIN q.patch

\* They are those of the row, while its status is what the request found
Claim(q) ==
  LET x == row[q.sug]
  IN  /\ Loaded(q) => /\ DOMAIN q.patch \cap DOMAIN q.rest = {}
                      /\ DOMAIN x.patch \subseteq Claimed(q)
                      /\ x.status \in {"pending", "superseded"} => DOMAIN x.patch = Claimed(q)
      /\ q.op = "regenerate" => /\ q.asked \cap DOMAIN q.rest = {}
                                /\ x.status = "pending" => DOMAIN x.patch = Claimed(q)
      /\ q.op = "revert" =>
           /\ x.status # "pending"
           /\ x.status = "applied" /\ x.root \notin late => DOMAIN x.patch = Claimed(q)

Alike(p, q) == Loaded(p) /\ Loaded(q) /\ p.sug = q.sug => Claimed(p) = Claimed(q)

Claims == \A r \in Request : /\ Claim(req[r])
                             /\ \A q \in Request : Alike(req[q], req[r])

\* The replacements of a regeneration that has not superseded its source yet
Made == {x \in Sug : turn # Nobody /\ x \in req[turn].made}

Reopened(s) == \E t \in Sug : row[t] # Absent /\ row[t].reopens = s

\* A field that the request that is between two awaits is about to make pending again
Owing(q, root, f) ==
  /\ \/ q.op = "apply" /\ q.pc = "rest" /\ f \in DOMAIN q.rest
     \/ q.op = "revert" /\ q.pc = "reopen" /\ f \in DOMAIN q.patch /\ ~Reopened(q.sug)
  /\ row[q.sug].root = root
Owed(root, f) == turn # Nobody /\ Owing(req[turn], root, f)

\* A suggestion that stands for the field, and will go on to
Firm(x, f) ==
  /\ row[x] # Absent /\ row[x].status \in {"pending", "applied"} /\ f \in DOMAIN row[x].patch
  /\ x \notin Made /\ ~Reopened(x)
  /\ \A r \in Request : Reverting(req[r], x) => f \in DOMAIN req[r].patch

KeptFor(p, f) ==
  \/ \E x \in Sug : Firm(x, f) /\ row[x].root = p
  \/ Withdrawn(p, f)
  \/ Owed(p, f)
Kept == \A p \in Sug : \A f \in offered[p] : KeptFor(p, f)

SingleFor(p, f) ==
  /\ \A x, y \in Standing(p, f) \ Made : x = y
  /\ Owed(p, f) => Standing(p, f) = {}
Single == \A p \in Sug \ late : \A f \in Field : SingleFor(p, f)

\* The replacements share the fields of the source out among them
Sharing(q) ==
  /\ q.sug \notin q.made
  /\ \A c \in q.made :
       /\ row[c] # Absent /\ row[c].status = "pending" /\ row[c].root = row[q.sug].root
       /\ DOMAIN row[c].patch \subseteq Claimed(q)
  /\ \A c, d \in q.made : c # d => DOMAIN row[c].patch \cap DOMAIN row[d].patch = {}
  /\ q.pc = "carry" => q.made # {} /\ \A c \in q.made : DOMAIN row[c].patch = q.asked
  /\ q.pc = "supersede" => \A f \in Claimed(q) : \E c \in q.made : f \in DOMAIN row[c].patch
Children == \A r \in Request : turn = r /\ req[r].op = "regenerate" => Sharing(req[r])

Whole == Agreement /\ Claims /\ Kept /\ Single /\ Children

-----------------------------------------------------------------------------
\* How a row changes
Evolves(r, s) ==
  row[s] # Absent =>
    /\ row'[s] # Absent /\ row'[s].root = row[s].root /\ row'[s].reopens = row[s].reopens
    /\ row[s].by # 0 => row'[s].by # 0
    /\ \/ row'[s] = row[s]
       \/ /\ row'[s].patch = row[s].patch
          /\ \/ row[s].status = "pending" /\ row'[s].status = "superseded"
             \/ row[s].status = "applied" /\ row'[s].status = "reverted"
       \/ /\ req[r].op = "apply" /\ req[r].pc = "record" /\ req[r].sug = s
          /\ row'[s].status = "applied" /\ row'[s].patch = req[r].patch

\* What rows become.
LEMMA RowsEvolve ==
  ASSUME Sound, NEW r \in Request, TableStep(r), NEW s \in Sug
  PROVE  Evolves(r, s)
<1> SUFFICES ASSUME row[s] # Absent
             PROVE  Evolves(r, s)
  BY DEF Evolves
<1>0. row[s] \in Suggestion /\ row[s].status \in Status
  BY TableRows, RowFields DEF Sound
<1>1. CASE row'[s] = row[s]
  BY <1>1 DEF Evolves
<1>2. CASE \E t \in Sug : Marks(t, "reverted", {"applied"}) \/ Marks(t, "superseded", {"pending"})
  <2>1. PICK t \in Sug : Marks(t, "reverted", {"applied"}) \/ Marks(t, "superseded", {"pending"})
    BY <1>2
  <2>2. "reverted" \in Status /\ "superseded" \in Status
    BY DEF Status
  <2>3. CASE Marks(t, "reverted", {"applied"})
    BY <2>2, <2>3, MarkEffect, RowFields DEF Sound, Evolves, Elsewhere
  <2>4. CASE Marks(t, "superseded", {"pending"})
    BY <2>2, <2>4, MarkEffect, RowFields DEF Sound, Evolves, Elsewhere
  <2> QED
    BY <2>1, <2>3, <2>4
<1>3. CASE \E x : Creates(x)
  <2>1. PICK x : Creates(x)
    BY <1>3
  <2>2. PICK t \in Sug : row[t] = Absent /\ Elsewhere(t)
    BY <2>1, CreateEffect DEF Sound
  <2> QED
    BY <1>1, <2>2 DEF Elsewhere
<1>4. CASE Records(r)
  BY <1>1, <1>4, RecordEffect, RowFields DEF Sound, Records, Evolves, Elsewhere
<1>5. CASE \E a \in Audit : Proposes(a)
  <2>1. PICK a \in Audit, fields \in Proposals, t \in Sug : row[t] = Absent /\ Elsewhere(t)
    BY <1>5, ProposeEffect DEF Sound
  <2> QED
    BY <1>1, <2>1 DEF Elsewhere
<1>6. CASE \E a \in Audit : Withdraws(a) /\ audit[a] # Absent /\ audit[a].ready
  <2>1. PICK a \in Audit :
          row' = [t \in Sug |-> IF Older(t, a)
                   THEN [row[t] EXCEPT !.status = "superseded", !.by = a] ELSE row[t]]
    BY Zenon, <1>6 DEF Withdraws
  <2>2. a # 0
    BY BoundAssumption DEF Audit
  <2>3. /\ ~Older(s, a) => row'[s] = row[s]
        /\ Older(s, a) =>
             /\ row'[s] \in Suggestion /\ row'[s].status = "superseded" /\ row'[s].by = a
             /\ row'[s].patch = row[s].patch /\ row'[s].root = row[s].root
             /\ row'[s].reopens = row[s].reopens
    BY Zenon, <2>1, Withdrawing DEF Sound
  <2> QED
    BY <1>1, <2>2, <2>3, RowFields DEF Older, Evolves
<1>7. CASE UNCHANGED <<row, cache>>
  BY <1>1, <1>7
<1> QED
  BY <1>2, <1>3, <1>4, <1>5, <1>6, <1>7 DEF TableStep

\* When the rows change so, what they were made of stays there.
LEMMA AgreementBy ==
  ASSUME Sound, Agreement, NEW r \in Request, \A s \in Sug : Evolves(r, s),
         \A s \in Sug : row'[s] # Absent => row'[s] \in Suggestion,
         \A s \in Sug : cache'[s] # Absent => Same(cache'[s], row'[s]),
         \A s \in Sug : row[s] = Absent /\ row'[s] # Absent =>
           /\ row'[row'[s].root] # Absent
           /\ row'[s].reopens # 0 =>
                row[row'[s].reopens] # Absent /\ row[row'[s].reopens].status # "pending"
  PROVE  Agreement'
<1>1. ASSUME NEW t \in Sug, row[t] # Absent
      PROVE  row'[t] # Absent /\ (row[t].status # "pending" => row'[t].status # "pending")
  BY <1>1 DEF Evolves
<1>2. ASSUME NEW s \in Sug, row'[s] # Absent
      PROVE  Sprung(s)'
  <2>1. row'[s].root \in Sug /\ row'[s].reopens \in Sug \cup {0}
    BY <1>2, RowFields
  <2>2. CASE row[s] = Absent
    BY <1>1, <1>2, <2>1, <2>2 DEF Sprung
  <2>3. CASE row[s] # Absent
    <3>1. Sprung(s) /\ row'[s].root = row[s].root /\ row'[s].reopens = row[s].reopens
      BY <2>3 DEF Agreement, Evolves
    <3> QED
      BY <1>1, <2>1, <3>1 DEF Sprung
  <2> QED
    BY <2>2, <2>3
<1> QED
  BY <1>2 DEF Agreement

\* A status that is set, and known to be.
LEMMA BecomeKnown ==
  ASSUME Sound, NEW s \in Sug, NEW status \in Status, NEW from, NEW db,
         Become(status, s, {from}, db), Noticed(s, {from}, db)
  PROVE  /\ Elsewhere(s)
         /\ \/ /\ Updated(s, {from}, db) /\ row[s] # Absent /\ row[s].status = from
               /\ row'[s] = Mark(row[s], status) /\ cache'[s] = row'[s]
               /\ row'[s] \in Suggestion /\ row'[s].status = status
               /\ row'[s].patch = row[s].patch /\ row'[s].root = row[s].root
               /\ row'[s].reopens = row[s].reopens /\ row'[s].by = row[s].by
            \/ /\ ~Updated(s, {from}, db) /\ row' = row /\ cache' = cache
               /\ db = "ok" => row[s] = Absent \/ row[s].status # from
<1>1. /\ Elsewhere(s)
      /\ row'[s] = IF db # "fails" /\ row[s] # Absent /\ row[s].status \in {from}
                   THEN Mark(row[s], status) ELSE row[s]
      /\ cache'[s] = IF db = "ok" /\ row[s] # Absent /\ row[s].status \in {from}
                     THEN Mark(row[s], status)
                     ELSE IF db # "ok" /\ cache[s] # Absent /\ cache[s].status \in {from}
                     THEN Mark(cache[s], status)
                     ELSE cache[s]
      /\ TablesTyped
  BY BecomeTables DEF Sound
<1>2. row[s] # Absent => row[s] \in Suggestion
  BY TableRows DEF Sound
<1>3. row[s] # Absent =>
        /\ Mark(row[s], status) \in Suggestion /\ Mark(row[s], status).status = status
        /\ Mark(row[s], status).patch = row[s].patch /\ Mark(row[s], status).root = row[s].root
        /\ Mark(row[s], status).reopens = row[s].reopens
        /\ Mark(row[s], status).by = row[s].by
  BY <1>2, StatusEdited DEF Mark
<1>4. Updated(s, {from}, db) <=>
        IF db = "ok" THEN row[s] # Absent /\ row[s].status = from
        ELSE cache[s] # Absent /\ cache[s].status = from
  BY DEF Updated
<1>5. db = "ok" \/ (db = "fails" /\ ~Updated(s, {from}, db))
  BY DEF Noticed
<1>6. ~Updated(s, {from}, db) => row'[s] = row[s] /\ cache'[s] = cache[s]
  BY <1>1, <1>4, <1>5
<1>7. row'[s] = row[s] /\ cache'[s] = cache[s] => row' = row /\ cache' = cache
  BY <1>1 DEF Elsewhere, TablesTyped, Sound, Types
<1> QED
  BY <1>1, <1>3, <1>4, <1>5, <1>6, <1>7

\* What the process knows of a fix is what the table has, but that it was withdrawn.
LEMMA GetRow ==
  ASSUME Sound, Agreement, NEW s \in Sug, Known(s)
  PROVE  /\ row[s] # Absent /\ row[s] \in Suggestion /\ Sprung(s)
         /\ Get(s).patch = row[s].patch /\ Get(s).root = row[s].root
         /\ Get(s).reopens = row[s].reopens
         /\ Get(s).status = "pending" => row[s].status \in {"pending", "superseded"}
         /\ Get(s).status # "pending" => row[s].status = Get(s).status
<1>1. row[s] # Absent
  BY DEF Agreement, Same, Known, Get
<1> QED
  BY <1>1, TableRows DEF Sound, Agreement, Same, Get

\* A fix is recorded in the table and in the cache, or in neither.
LEMMA RecordWhole ==
  ASSUME Sound, NEW r \in Request, NEW db \in RecordCall, Recorded(r, db),
         TablesTyped, req[r].sug \in Sug, req[r].patch \in Patch, Previous(r) \in Patch, ~torn'
  PROVE  LET s == req[r].sug
         IN  /\ Elsewhere(s)
             /\ \/ ~Answered(r, db) /\ row' = row /\ cache' = cache
                \/ /\ Answered(r, db) /\ row[s] # Absent /\ row'[s] \in Suggestion
                   /\ row'[s].status = "applied" /\ row'[s].patch = req[r].patch
                   /\ row'[s].root = row[s].root /\ row'[s].reopens = row[s].reopens
                   /\ row'[s].by = row[s].by /\ Same(cache'[s], row'[s])
<1> DEFINE s == req[r].sug
           patch == req[r].patch
           previous == Previous(r)
<1>1. /\ Elsewhere(s)
      /\ row'[s] = IF row[s] = Absent \/ db = "fails" THEN row[s]
                   ELSE IF db = "ok" THEN MarkReversible(row[s], patch, previous)
                   ELSE MarkApplied(row[s], patch)
      /\ cache'[s] = IF db = "fails"
                     THEN IF cache[s] = Absent THEN Absent
                          ELSE MarkReversible(cache[s], patch, previous)
                     ELSE IF row[s] = Absent THEN cache[s]
                     ELSE MarkReversible(row[s], patch, previous)
      /\ torn' = (torn \/ (db = "fails" /\ cache[s] # Absent))
  BY DEF Recorded
<1>2. row'[s] = row[s] /\ cache'[s] = cache[s] => row' = row /\ cache' = cache
  BY <1>1 DEF Elsewhere, TablesTyped, Sound, Types
<1>3. Answered(r, db) <=> IF db = "fails" THEN cache[s] # Absent ELSE row[s] # Absent
  BY DEF Answered
<1>4. CASE db = "fails" \/ row[s] = Absent
  BY Zenon, <1>1, <1>2, <1>3, <1>4
<1>5. CASE db # "fails" /\ row[s] # Absent
  <2>1. row[s] \in Suggestion
    BY <1>5, TableRows DEF Sound
  <2> HIDE DEF s, patch, previous
  <2>2. /\ MarkApplied(row[s], patch) \in Suggestion
        /\ MarkApplied(row[s], patch).status = "applied"
        /\ MarkApplied(row[s], patch).patch = patch
        /\ MarkApplied(row[s], patch).root = row[s].root
        /\ MarkApplied(row[s], patch).reopens = row[s].reopens
        /\ MarkApplied(row[s], patch).by = row[s].by
        /\ MarkReversible(row[s], patch, previous) \in Suggestion
        /\ MarkReversible(row[s], patch, previous).status = "applied"
        /\ MarkReversible(row[s], patch, previous).patch = patch
        /\ MarkReversible(row[s], patch, previous).root = row[s].root
        /\ MarkReversible(row[s], patch, previous).reopens = row[s].reopens
        /\ MarkReversible(row[s], patch, previous).by = row[s].by
    <3>1. patch \in Patch /\ previous \in Patch
      BY DEF patch, previous
    <3> QED
      BY Zenon, <2>1, <3>1 DEF MarkApplied, MarkReversible, Suggestion, Status
  <2>3. /\ row'[s] \in Suggestion /\ row'[s].status = "applied" /\ row'[s].patch = patch
        /\ row'[s].root = row[s].root /\ row'[s].reopens = row[s].reopens
        /\ row'[s].by = row[s].by /\ Same(cache'[s], row'[s])
    BY <1>1, <1>5, <2>2, RowFields DEF Same
  <2> QED
    BY <1>1, <1>3, <1>5, <2>3 DEF s, patch
<1> QED
  BY <1>4, <1>5

\* What a created row is made of is there.
LEMMA CreateAgrees ==
  ASSUME Sound, Agreement, NEW r \in Request, \A s \in Sug : Evolves(r, s),
         NEW x, Creates(x), ~torn', row[x.root] # Absent,
         x.reopens # 0 => row[x.reopens] # Absent /\ row[x.reopens].status # "pending"
  PROVE  Agreement'
<1>1. PICK t \in Sug :
        /\ row[t] = Absent /\ cache[t] = Absent /\ Elsewhere(t)
        /\ row'[t] = x /\ cache'[t] = x /\ x # Absent
  BY CreateEffect DEF Sound
<1>2. x \in Suggestion
  BY DEF Creates
<1>3. \A s \in Sug : row'[s] # Absent => row'[s] \in Suggestion
  BY <1>1, <1>2, TableRows DEF Elsewhere, Sound
<1>4. ASSUME NEW s \in Sug, cache'[s] # Absent
      PROVE  Same(cache'[s], row'[s])
  BY <1>1, <1>4 DEF Agreement, Elsewhere, Same
<1>5. x.root \in Sug /\ row'[x.root] # Absent
  BY <1>1, <1>2, RowFields DEF Elsewhere
<1>6. ASSUME NEW s \in Sug, row[s] = Absent, row'[s] # Absent
      PROVE  /\ row'[row'[s].root] # Absent
             /\ row'[s].reopens # 0 =>
                  row[row'[s].reopens] # Absent /\ row[row'[s].reopens].status # "pending"
  BY <1>1, <1>5, <1>6 DEF Elsewhere
<1> QED
  BY <1>3, <1>4, <1>6, AgreementBy

\* A status that is set is set in the cache too.
LEMMA BecomeAgrees ==
  ASSUME Sound, Agreement, NEW r \in Request, \A s \in Sug : Evolves(r, s),
         NEW t \in Sug, NEW status \in Status, NEW from, NEW db,
         Become(status, t, {from}, db), Noticed(t, {from}, db)
  PROVE  Agreement'
<1>1. /\ Elsewhere(t)
      /\ \/ row[t] # Absent /\ row'[t] \in Suggestion /\ cache'[t] = row'[t]
         \/ row' = row /\ cache' = cache
  BY Zenon, BecomeKnown
<1>2. \A s \in Sug : row'[s] # Absent => row'[s] \in Suggestion
  BY <1>1, TableRows DEF Elsewhere, Sound
<1>3. ASSUME NEW s \in Sug, cache'[s] # Absent
      PROVE  Same(cache'[s], row'[s])
  BY <1>1, <1>3 DEF Agreement, Elsewhere, Same
<1>4. \A s \in Sug : row[s] = Absent => row'[s] = Absent
  BY <1>1 DEF Elsewhere
<1> QED
  BY <1>2, <1>3, <1>4, AgreementBy

\* The table and the cache agree after every step of a request that goes unharmed.
LEMMA AgreementStep ==
  ASSUME Sound, Agreement, Claims, ~torn', NEW r \in Request,
         ApplyStep(r) \/ WriteStep(r) \/ RevertStep(r) \/ RegenerateStep(r) \/ AuditStep(r)
  PROVE  Agreement'
<1>1. TableStep(r)
  BY TableSteps DEF Sound
<1>2. \A s \in Sug : Evolves(r, s)
  BY <1>1, RowsEvolve
<1>3. CASE UNCHANGED <<row, cache>>
  BY <1>3 DEF Agreement, Sprung
<1>4. ASSUME NEW s \in Sug, Known(s), NEW patch \in Patch
      PROVE  row[Child(s, patch).root] # Absent /\ Child(s, patch).reopens = 0
  BY <1>4, GetRow, ChildRow DEF Sound, Sprung
<1>5. ASSUME NEW s \in Sug, Known(s), NEW patch \in Patch, NEW db \in Call,
             Create(Child(s, patch), db)
      PROVE  Agreement'
  <2>1. Creates(Child(s, patch))
    BY <1>5, ChildRow DEF Creates, Sound
  <2> QED
    BY <1>2, <1>4, <1>5, <2>1, CreateAgrees
<1>6. CASE KeepRest(r)
  BY <1>5, <1>6, KeepRestMoves DEF Sound
<1>7. CASE CarryForward(r)
  BY <1>5, <1>7, CarryMoves DEF Sound
<1>8. CASE Replace(r)
  <2> DEFINE patch == [f \in req[r].asked |-> Fix(Free)]
  <2>1. PICK db \in Call :
          /\ req[r].sug \in Sug /\ Known(req[r].sug) /\ patch \in Patch
          /\ Create(Child(req[r].sug, patch), db)
    BY <1>8, ReplaceMoves DEF Sound
  <2> HIDE DEF patch
  <2> QED
    BY <1>5, <2>1
<1>9. CASE Reopen(r)
  <2> DEFINE s == req[r].sug
             x == [Child(s, req[r].patch) EXCEPT !.reopens = s]
  <2>1. /\ req[r].op = "revert" /\ s \in Sug /\ Known(s) /\ req[r].patch \in Patch
        /\ UNCHANGED <<row, cache>> \/ \E db \in Call : Create(x, db)
    BY <1>9, ReopenMoves DEF Sound
  <2>2. /\ x \in Suggestion /\ x.status = "pending" /\ x.previous = Absent /\ x.by = 0
        /\ x.root = Get(s).root /\ x.reopens = s
    BY <2>1, ReopenedRow DEF Sound
  <2> HIDE DEF x
  <2>3. /\ row[x.root] # Absent /\ row[s] # Absent /\ row[s].status # "pending"
    BY <2>1, <2>2, GetRow DEF Sprung, Claims, Claim
  <2>4. CASE \E db \in Call : Create(x, db)
    <3>1. Creates(x)
      BY <2>2, <2>4 DEF Creates
    <3> QED
      BY <1>2, <2>2, <2>3, <3>1, CreateAgrees
  <2> QED
    BY <1>3, <2>1, <2>4
<1>10. CASE RecordReverted(r)
  <2>1. PICK db \in Call :
          /\ req[r].sug \in Sug /\ Become("reverted", req[r].sug, {"applied"}, db)
          /\ torn' = (torn \/ ~Noticed(req[r].sug, {"applied"}, db))
    BY <1>10, RecordRevertedMoves DEF Sound
  <2>2. "reverted" \in Status
    BY DEF Status
  <2> QED
    BY Zenon, <1>2, <2>1, <2>2, BecomeAgrees
<1>11. CASE SupersedeSource(r)
  <2>1. PICK db \in Call :
          /\ req[r].sug \in Sug /\ Become("superseded", req[r].sug, {"pending"}, db)
          /\ torn' = (torn \/ ~Noticed(req[r].sug, {"pending"}, db))
    BY <1>11, SupersedeMoves DEF Sound
  <2>2. "superseded" \in Status
    BY DEF Status
  <2> QED
    BY Zenon, <1>2, <2>1, <2>2, BecomeAgrees
<1>12. CASE UndoChild(r)
  <2>1. PICK c \in Sug, db \in Call :
          Become("superseded", c, {"pending"}, db) /\ torn' = (torn \/ db # "ok")
    BY <1>12, UndoMoves DEF Sound
  <2>2. "superseded" \in Status /\ Noticed(c, {"pending"}, db)
    BY Zenon, <2>1 DEF Status, Noticed
  <2> QED
    BY Zenon, <1>2, <2>1, <2>2, BecomeAgrees
<1>13. CASE RecordApplied(r)
  <2>1. PICK db \in RecordCall :
          /\ req[r].op = "apply" /\ Recorded(r, db) /\ TablesTyped /\ Previous(r) \in Patch
    BY <1>13, RecordMoves DEF Sound
  <2>2. req[r].sug \in Sug /\ req[r].patch \in Patch
    BY <2>1 DEF Sound, Located, About, Types, Coroutine
  <2>3. PICK s \in Sug :
          /\ Elsewhere(s)
          /\ \/ row' = row /\ cache' = cache
             \/ row[s] # Absent /\ row'[s] \in Suggestion /\ Same(cache'[s], row'[s])
    BY <2>1, <2>2, RecordWhole
  <2>4. \A t \in Sug : row'[t] # Absent => row'[t] \in Suggestion
    BY <2>3, TableRows DEF Elsewhere, Sound
  <2>5. ASSUME NEW t \in Sug, cache'[t] # Absent
        PROVE  Same(cache'[t], row'[t])
    BY <2>3, <2>5 DEF Agreement, Elsewhere
  <2>6. \A t \in Sug : row[t] = Absent => row'[t] = Absent
    BY <2>3 DEF Elsewhere
  <2> QED
    BY <1>2, <2>4, <2>5, <2>6, AgreementBy
<1>14. CASE SaveChildren(r)
  <2>1. PICK t \in Sug, fields \in Proposals :
          /\ row[t] = Absent /\ cache[t] = Absent /\ req[r].sug \in Audit
          /\ row' = row \/ row' = [row EXCEPT ![t] = Proposed(t, fields, req[r].sug)]
    BY <1>14, SaveChildrenMoves DEF Sound
  <2>2. cache' = cache
    BY <1>14 DEF SaveChildren
  <2>3. CASE row' = row
    BY <1>3, <2>2, <2>3
  <2>4. CASE row' # row
    <3>1. /\ row'[t] = Proposed(t, fields, req[r].sug)
          /\ \A s \in Sug \ {t} : row'[s] = row[s]
      BY <2>1, <2>4 DEF Sound, Types
    <3>2. row'[t] \in Suggestion /\ row'[t].root = t /\ row'[t].reopens = 0 /\ row'[t] # Absent
      BY <2>1, <3>1, ProposedRow, RowFields
    <3>3. \A s \in Sug : row'[s] # Absent => row'[s] \in Suggestion
      BY <3>1, <3>2, TableRows DEF Sound
    <3>4. ASSUME NEW s \in Sug, cache'[s] # Absent
          PROVE  Same(cache'[s], row'[s])
      BY <2>1, <2>2, <3>1, <3>4 DEF Agreement
    <3>5. ASSUME NEW s \in Sug, row[s] = Absent, row'[s] # Absent
          PROVE  row'[row'[s].root] # Absent /\ row'[s].reopens = 0
      BY <3>1, <3>2, <3>5
    <3> QED
      BY <1>2, <3>3, <3>4, <3>5, AgreementBy
  <2> QED
    BY <2>3, <2>4
<1>15. CASE SupersedePending(r)
  <2> DEFINE a == req[r].sug
  <2>1. /\ a \in Audit
        /\ \/ row' = row
           \/ row' = [s \in Sug |-> IF Older(s, a)
                       THEN [row[s] EXCEPT !.status = "superseded", !.by = a] ELSE row[s]]
    BY Zenon, <1>15, SupersedePendingMoves DEF Sound
  <2>2. cache' = cache
    BY Zenon, <1>15 DEF SupersedePending
  <2> HIDE DEF a
  <2>3. CASE row' = row
    BY <1>3, <2>2, <2>3
  <2>4. CASE row' # row
    <3>1. /\ \A s \in Sug : Older(s, a) =>
               /\ row'[s] \in Suggestion /\ row'[s].status = "superseded"
               /\ row'[s].patch = row[s].patch /\ row'[s].root = row[s].root
               /\ row'[s].reopens = row[s].reopens
          /\ \A s \in Sug : ~Older(s, a) => row'[s] = row[s]
      BY Zenon, <2>1, <2>4, Withdrawing DEF Sound
    <3>2. \A s \in Sug : row'[s] # Absent => row'[s] \in Suggestion
      BY <3>1, TableRows DEF Sound
    <3>3. ASSUME NEW s \in Sug, cache'[s] # Absent
          PROVE  Same(cache'[s], row'[s])
      <4>1. Same(cache[s], row[s])
        BY <2>2, <3>3 DEF Agreement
      <4> QED
        BY <2>2, <3>1, <4>1, RowFields DEF Same, Older
    <3>4. \A s \in Sug : row[s] = Absent => row'[s] = Absent
      BY <3>1 DEF Older
    <3> QED
      BY <1>2, <3>2, <3>3, <3>4, AgreementBy
  <2> QED
    BY <2>3, <2>4
<1>16. CASE \/ WriteStep(r) \/ LoadSuggestion(r) \/ ReadShop(r) \/ StartRevert(r) \/ CheckDrift(r)
            \/ StartApply(r) \/ StartBulk(r) \/ StartReviewed(r) \/ CheckReview(r)
            \/ StartRegenerate(r) \/ NothingGenerated(r) \/ StartAudit(r) \/ SaveAudit(r)
            \/ FinishAudit(r) \/ AuditFails(r)
  <2>1. UNCHANGED <<row, cache>>
    BY Zenon, <1>16 DEF WriteStep, WriteShop, WriteRefused, WriteRaises, LoadSuggestion, ReadShop,
       StartRevert, CheckDrift, StartApply, StartBulk, StartReviewed, CheckReview,
       StartRegenerate, NothingGenerated, StartAudit, SaveAudit, FinishAudit, AuditFails, Table
  <2> QED
    BY <1>3, <2>1
<1> QED
  BY <1>6, <1>7, <1>8, <1>9, <1>10, <1>11, <1>12, <1>13, <1>14, <1>15, <1>16
     DEF ApplyStep, RevertStep, RegenerateStep, AuditStep

\* A request that is about to record its fix does nothing else.
LEMMA OnlyRecords ==
  ASSUME NEW r \in Request, req[r].op = "apply", req[r].pc = "record",
         ApplyStep(r) \/ WriteStep(r) \/ RevertStep(r) \/ RegenerateStep(r) \/ AuditStep(r)
  PROVE  RecordApplied(r)
<1>1. ~Ask(r)
  BY DEF Ask, Idle
<1>2. /\ ~At(r, "apply", "review") /\ ~At(r, "apply", "load") /\ ~At(r, "apply", "read")
      /\ ~At(r, "apply", "rest") /\ ~At(r, req[r].op, "write")
      /\ ~At(r, req[r].op, "generate")
      /\ \A pc : ~At(r, "revert", pc) /\ ~At(r, "regenerate", pc) /\ ~At(r, "audit", pc)
  BY DEF At
<1>3. ApplyStep(r) => RecordApplied(r)
  <2>1. ~StartApply(r) /\ ~StartBulk(r) /\ ~StartReviewed(r)
    BY Zenon, <1>1 DEF StartApply, StartBulk, StartReviewed
  <2>2. ~CheckReview(r) /\ ~LoadSuggestion(r) /\ ~ReadShop(r) /\ ~KeepRest(r)
    BY <1>2 DEF CheckReview, LoadSuggestion, ReadShop, KeepRest
  <2> QED
    BY <2>1, <2>2 DEF ApplyStep
<1>4. ~RevertStep(r) /\ ~WriteStep(r)
  <2>1. ~WriteShop(r) /\ ~WriteRefused(r) /\ ~WriteRaises(r)
    BY <1>2 DEF WriteShop, WriteRefused, WriteRaises
  <2>2. ~RevertStep(r)
    BY Zenon, <1>1, <1>2 DEF RevertStep, StartRevert, CheckDrift, RecordReverted, Reopen
  <2> QED
    BY <2>1, <2>2 DEF WriteStep
<1>5. ~RegenerateStep(r)
  BY Zenon, <1>1, <1>2 DEF RegenerateStep, StartRegenerate, NothingGenerated, Replace,
     CarryForward, SupersedeSource, UndoChild
<1>6. ~AuditStep(r)
  BY Zenon, <1>1, <1>2 DEF AuditStep, StartAudit, SaveAudit, SaveChildren, SupersedePending,
     FinishAudit, AuditFails
<1> QED
  BY <1>3, <1>4, <1>5, <1>6

\* A request that took nothing from a row, or goes on with what it took.
LEMMA PlainClaim ==
  ASSUME Claims, NEW r \in Request, NEW new,
         \/ ~Loaded(new) /\ new.op # "regenerate" /\ new.op # "revert"
         \/ Proceeds(new, req[r]) /\ (Loaded(new) => Loaded(req[r]))
  PROVE  Claim(new) /\ \A q \in Request : Alike(req[q], new)
<1>1. CASE ~Loaded(new) /\ new.op # "regenerate" /\ new.op # "revert"
  BY <1>1 DEF Claim, Alike
<1>2. CASE Proceeds(new, req[r]) /\ (Loaded(new) => Loaded(req[r]))
  <2>1. Claimed(new) = Claimed(req[r])
    BY <1>2 DEF Proceeds, Claimed
  <2>2. Claim(req[r]) /\ \A q \in Request : Alike(req[q], req[r])
    BY DEF Claims
  <2>3. Claim(new)
    BY <1>2, <2>1, <2>2 DEF Claim, Proceeds
  <2>4. \A q \in Request : Alike(req[q], new)
    BY <1>2, <2>1, <2>2 DEF Alike, Proceeds
  <2> QED
    BY <2>3, <2>4
<1> QED
  BY <1>1, <1>2

\* A pending fix is loaded.
LEMMA LoadClaim ==
  ASSUME Sound, Agreement, Claims, NEW new, About(new), new.op = "apply", new.pc = "read",
         Get(new.sug).status = "pending",
         DOMAIN new.patch \cup DOMAIN new.rest = DOMAIN Get(new.sug).patch,
         DOMAIN new.patch \cap DOMAIN new.rest = {}
  PROVE  Claim(new) /\ \A q \in Request : Alike(req[q], new)
<1> DEFINE s == new.sug
<1>1. s \in Sug /\ Known(s)
  BY DEF About
<1>2. row[s].patch = Get(s).patch /\ row[s].status \in {"pending", "superseded"}
  BY <1>1, GetRow
<1>3. Claimed(new) = DOMAIN row[s].patch
  BY <1>2 DEF Claimed
<1>4. Claim(new)
  BY <1>2, <1>3 DEF Claim
<1>5. ASSUME NEW q \in Request
      PROVE  Alike(req[q], new)
  BY <1>2, <1>3 DEF Alike, Claims, Claim
<1> QED
  BY <1>4, <1>5

\* What the request that takes a step goes on with.
LEMMA NewClaim ==
  ASSUME Sound, Agreement, Claims, NEW r \in Request,
         ApplyStep(r) \/ WriteStep(r) \/ RevertStep(r) \/ RegenerateStep(r) \/ AuditStep(r)
  PROVE  \E new : Moves(r, new) /\ Claim(new) /\ \A q \in Request : Alike(req[q], new)
<1> USE DEF Sound
<1>1. ASSUME NEW new, Unladen(new) \/ new.op = "audit"
      PROVE  Claim(new) /\ \A q \in Request : Alike(req[q], new)
  BY <1>1, PlainClaim DEF Unladen, Loaded
<1>2. ASSUME NEW new, Proceeds(new, req[r]), Loaded(new) => Loaded(req[r])
      PROVE  Claim(new) /\ \A q \in Request : Alike(req[q], new)
  BY <1>2, PlainClaim
<1>3. CASE \/ StartApply(r) \/ StartBulk(r) \/ StartReviewed(r) \/ CheckReview(r)
           \/ NothingGenerated(r) \/ StartAudit(r) \/ SaveAudit(r) \/ FinishAudit(r)
           \/ AuditFails(r) \/ StartRegenerate(r)
  <2>1. PICK new : Moves(r, new) /\ (Unladen(new) \/ new.op = "audit" \/ StartRegenerate(r))
    BY <1>3, QuietMoves
  <2>2. CASE Unladen(new) \/ new.op = "audit"
    BY <1>1, <2>1, <2>2
  <2>3. CASE StartRegenerate(r)
    <3>1. PICK go :
            /\ Moves(r, go) /\ go.op = "regenerate" /\ Get(go.sug).status = "pending"
            /\ go.asked \cup DOMAIN go.rest = DOMAIN Get(go.sug).patch
            /\ go.asked \cap DOMAIN go.rest = {}
      BY <2>3, StartRegenerateMoves
    <3>2. go.sug \in Sug /\ Known(go.sug)
      BY <3>1 DEF Moves, About
    <3>3. Claim(go)
      BY <3>1, <3>2, GetRow DEF Claim, Claimed, Loaded
    <3> QED
      BY <3>1, <3>3 DEF Alike, Loaded
  <2> QED
    BY <2>1, <2>2, <2>3
<1>4. CASE LoadSuggestion(r)
  <2>1. PICK new :
          /\ Moves(r, new)
          /\ \/ Unladen(new)
             \/ /\ new.op = "apply" /\ new.pc = "read"
                /\ Get(new.sug).status = "pending"
                /\ DOMAIN new.patch \cup DOMAIN new.rest = DOMAIN Get(new.sug).patch
                /\ DOMAIN new.patch \cap DOMAIN new.rest = {}
    BY <1>4, LoadMoves
  <2>2. About(new)
    BY <2>1 DEF Moves
  <2> QED
    BY <1>1, <2>1, <2>2, LoadClaim
<1>5. CASE ReadShop(r)
  <2>1. PICK new :
          /\ Moves(r, new) /\ req[r].op = "apply" /\ req[r].pc = "read"
          /\ Unladen(new) \/ Proceeds(new, req[r])
    BY <1>5, ReadMoves
  <2> QED
    BY <1>1, <1>2, <2>1 DEF Loaded
<1>6. CASE WriteStep(r)
  <2>1. PICK new :
          /\ Moves(r, new) /\ req[r].op \in {"apply", "revert"} /\ req[r].pc = "write"
          /\ Unladen(new) \/ Proceeds(new, req[r])
    BY Zenon, <1>6, WriteMoves
  <2> QED
    BY <1>1, <1>2, <2>1 DEF Loaded, Proceeds
<1>7. CASE RecordApplied(r)
  <2>1. PICK new :
          /\ Moves(r, new) /\ req[r].op = "apply" /\ req[r].pc = "record"
          /\ Unladen(new) \/ Proceeds(new, req[r])
    BY <1>7, RecordMoves
  <2> QED
    BY <1>1, <1>2, <2>1 DEF Loaded
<1>8. CASE StartRevert(r)
  <2>1. PICK new :
          /\ Moves(r, new) /\ new.op = "revert" /\ Get(new.sug).status = "applied"
          /\ new.patch = Get(new.sug).patch
    BY <1>8, StartRevertMoves
  <2>2. new.sug \in Sug /\ Known(new.sug)
    BY <2>1 DEF Moves, About
  <2>3. Claim(new)
    BY <2>1, <2>2, GetRow DEF Claim, Claimed, Loaded
  <2> QED
    BY <2>1, <2>3 DEF Alike, Loaded
<1>9. CASE CheckDrift(r)
  <2>1. PICK new :
          Moves(r, new) /\ req[r].op = "revert" /\ (Unladen(new) \/ Proceeds(new, req[r]))
    BY <1>9, CheckDriftMoves
  <2> QED
    BY <1>1, <1>2, <2>1 DEF Loaded, Proceeds
<1>10. CASE RecordReverted(r)
  <2>1. PICK new :
          Moves(r, new) /\ req[r].op = "revert" /\ (Unladen(new) \/ Proceeds(new, req[r]))
    BY <1>10, RecordRevertedMoves
  <2> QED
    BY <1>1, <1>2, <2>1 DEF Loaded, Proceeds
<1>11. CASE KeepRest(r) \/ Reopen(r)
  BY Zenon, <1>1, <1>11, KeepRestMoves, ReopenMoves
<1>12. CASE Replace(r) \/ CarryForward(r) \/ SupersedeSource(r) \/ UndoChild(r)
  <2>1. \E new : /\ Moves(r, new) /\ req[r].op = "regenerate"
                 /\ Unladen(new) \/ Proceeds(new, req[r])
    BY Zenon, <1>12, ReplaceMoves, CarryMoves, SupersedeMoves, UndoMoves
  <2> QED
    BY <1>1, <1>2, <2>1 DEF Loaded, Proceeds
<1>13. CASE SaveChildren(r) \/ SupersedePending(r)
  <2>1. \E new : Moves(r, new) /\ req[r].op = "audit" /\ Proceeds(new, req[r])
    BY Zenon, <1>13, SaveChildrenMoves, SupersedePendingMoves
  <2> QED
    BY <1>1, <2>1 DEF Proceeds
<1> QED
  BY <1>3, <1>4, <1>5, <1>6, <1>7, <1>8, <1>9, <1>10, <1>11, <1>12, <1>13
     DEF ApplyStep, RevertStep, RegenerateStep, AuditStep

\* The rows change, and a request has what it took from its row.
LEMMA ClaimEvolves ==
  ASSUME NEW r \in Request, NEW q, Claim(q), Alike(q, req[r]), row[q.sug] # Absent,
         Evolves(r, q.sug), late \subseteq late',
         (req[r].op = "apply" /\ req[r].pc = "record" /\ req[r].sug = q.sug
           /\ row'[q.sug] # row[q.sug] /\ row[q.sug].status # "pending"
           => row[q.sug].root \in late')
  PROVE  Claim(q)'
<1> DEFINE s == q.sug
<1>1. row'[s].root = row[s].root
  BY DEF Evolves
<1>2. CASE row'[s] = row[s]
  BY <1>2 DEF Claim
<1>3. CASE /\ row'[s] # row[s] /\ row'[s].patch = row[s].patch
           /\ \/ row[s].status = "pending" /\ row'[s].status = "superseded"
              \/ row[s].status = "applied" /\ row'[s].status = "reverted"
  BY <1>1, <1>3 DEF Claim
<1>4. CASE /\ row'[s] # row[s] /\ req[r].op = "apply" /\ req[r].pc = "record" /\ req[r].sug = s
           /\ row'[s].status = "applied" /\ row'[s].patch = req[r].patch
  <2>1. Loaded(q) => DOMAIN row'[s].patch \subseteq Claimed(q)
    <3>1. Loaded(q) => Claimed(q) = Claimed(req[r])
      BY <1>4 DEF Alike, Loaded
    <3>2. Claimed(req[r]) = DOMAIN req[r].patch \cup DOMAIN req[r].rest
      BY <1>4 DEF Claimed
    <3> QED
      BY <1>4, <3>1, <3>2
  <2>2. q.op = "revert" => row[s].root \in late'
    BY <1>4 DEF Claim
  <2> QED
    BY <1>1, <1>4, <2>1, <2>2 DEF Claim
<1> QED
  BY <1>2, <1>3, <1>4 DEF Evolves

\* Requests keep what they took.
LEMMA ClaimsStep ==
  ASSUME Sound, Agreement, Claims, NEW r \in Request,
         ApplyStep(r) \/ WriteStep(r) \/ RevertStep(r) \/ RegenerateStep(r) \/ AuditStep(r)
  PROVE  Claims'
<1>1. PICK new : Moves(r, new) /\ Claim(new) /\ \A q \in Request : Alike(req[q], new)
  BY NewClaim
<1>2. req'[r] = new /\ \A q \in Request \ {r} : req'[q] = req[q]
  BY <1>1 DEF Sound, Moves, Types
<1>3. \A s \in Sug : Evolves(r, s)
  BY TableSteps, RowsEvolve DEF Sound
<1>4. /\ late \subseteq late'
      /\ \A s \in Sug : req[r].op = "apply" /\ req[r].pc = "record" /\ req[r].sug = s
           /\ row'[s] # row[s] /\ row[s].status # "pending" => row[s].root \in late'
  <2>1. CASE RecordApplied(r)
    <3>1. PICK db \in RecordCall : Recorded(r, db)
      BY <2>1, RecordMoves DEF Sound
    <3>2. late' = IF row[req[r].sug] # Absent /\ row[req[r].sug].status # "pending"
                  THEN late \cup {row[req[r].sug].root} ELSE late
      BY <3>1 DEF Recorded
    <3>3. \A s \in Sug : row'[s] # row[s] /\ req[r].sug = s => row[s] # Absent
      BY <3>1 DEF Recorded
    <3> QED
      BY <3>2, <3>3
  <2>2. CASE ~RecordApplied(r)
    <3>1. ~(req[r].op = "apply" /\ req[r].pc = "record")
      BY <2>2, OnlyRecords
    <3>2. late' = late
      BY Zenon, <2>2
      DEF ApplyStep, WriteStep, RevertStep, RegenerateStep, AuditStep, StartApply, StartBulk,
          StartReviewed, CheckReview, LoadSuggestion, ReadShop, KeepRest, WriteShop,
          WriteRefused, WriteRaises, StartRevert, CheckDrift, RecordReverted, Reopen,
          StartRegenerate, NothingGenerated, Replace, CarryForward, SupersedeSource,
          UndoChild, StartAudit, SaveAudit, SaveChildren, SupersedePending, FinishAudit,
          AuditFails, history
    <3> QED
      BY <3>1, <3>2
  <2> QED
    BY <2>1, <2>2
<1>5. ASSUME NEW q, Claim(q), Alike(q, req[r]), About(q)
      PROVE  Claim(q)'
  <2>1. CASE q.op \in {"apply", "revert", "regenerate"}
    <3>1. q.sug \in Sug /\ Known(q.sug)
      BY <1>5, <2>1 DEF About
    <3>2. row[q.sug] # Absent
      BY <3>1, GetRow
    <3> QED
      BY <1>3, <1>4, <1>5, <3>1, <3>2, ClaimEvolves
  <2>2. CASE q.op \notin {"apply", "revert", "regenerate"}
    BY <2>2 DEF Claim, Loaded
  <2> QED
    BY <2>1, <2>2
<1>6. ASSUME NEW q \in Request
      PROVE  Claim(req[q])'
  <2>1. PICK x : x = req'[q]
    OBVIOUS
  <2>2. Claim(x) /\ Alike(x, req[r]) /\ About(x)
    <3>1. CASE q = r
      BY <1>1, <1>2, <2>1, <3>1 DEF Alike, Moves
    <3>2. CASE q # r
      BY <1>2, <2>1, <3>2 DEF Claims, Sound, Located
    <3> QED
      BY <3>1, <3>2
  <2>3. Claim(x)'
    BY <1>5, <2>2
  <2> QED
    BY <2>1, <2>3 DEF Claim
<1>7. ASSUME NEW p \in Request, NEW q \in Request
      PROVE  Alike(req'[p], req'[q])
  BY <1>1, <1>2 DEF Claims, Alike
<1> QED
  BY <1>6, <1>7 DEF Claims

-----------------------------------------------------------------------------
\* The replacements and the debts are those of the request that takes the step.
LEMMA MadeIs ==
  ASSUME Sound, NEW r \in Request, NEW new, Moves(r, new)
  PROVE  Made = req[r].made /\ Made' = new.made
<1>1. req'[r] = new /\ req[r] \in Coroutine /\ new \in Coroutine
  BY DEF Sound, Moves, Types
<1>2. req[r].made \subseteq Sug /\ new.made \subseteq Sug
  BY <1>1 DEF Coroutine
<1>3. /\ turn \in {Nobody, r} /\ turn' = (IF new.pc \in MidTurn THEN r ELSE Nobody)
      /\ r # Nobody
  BY AbsentAssumption DEF Moves
<1>4. new.made # {} => new.pc \in MidTurn
  BY DEF Moves, About
<1>5. req[r].made # {} => turn = r
  BY <1>3 DEF Sound, Located, About
<1> QED
  BY <1>1, <1>2, <1>3, <1>4, <1>5 DEF Made

\* What is owed is what the request that takes the step owes.
LEMMA OwedIs ==
  ASSUME Sound, NEW r \in Request, NEW new, Moves(r, new), NEW p, NEW f
  PROVE  (Owed(p, f) <=> Owing(req[r], p, f)) /\ (Owed(p, f)' <=> Owing(new, p, f)')
<1>1. req'[r] = new
  BY DEF Sound, Moves, Types
<1>2. /\ turn \in {Nobody, r} /\ turn' = (IF new.pc \in MidTurn THEN r ELSE Nobody)
      /\ r # Nobody
  BY AbsentAssumption DEF Moves
<1>3. Owing(new, p, f)' => new.pc \in MidTurn
  BY DEF Owing, MidTurn
<1>4. Owing(req[r], p, f) => turn = r
  BY <1>2 DEF Owing, MidTurn, Sound, Located
<1>5. turn' = r => (Owed(p, f)' <=> Owing(new, p, f)')
  BY <1>1, <1>2 DEF Owed, Owing
<1>6. turn' = Nobody => ~Owed(p, f)'
  BY DEF Owed
<1> QED
  BY <1>1, <1>2, <1>3, <1>4, <1>5, <1>6 DEF Owed

\* A fix is reopened by a new row only.
LEMMA ReopenedBy ==
  ASSUME Sound, NEW r \in Request, \A s \in Sug : Evolves(r, s), NEW x,
         \A s \in Sug : row[s] = Absent /\ row'[s] # Absent => row'[s].reopens # x
  PROVE  Reopened(x)' <=> Reopened(x)
  BY DEF Evolves, Reopened

\* A suggestion stands on for a field.
LEMMA FirmStays ==
  ASSUME Sound, NEW r \in Request, NEW new, Moves(r, new), NEW x \in Sug, NEW f, Firm(x, f),
         row'[x] # Absent, row'[x].status \in {"pending", "applied"},
         f \in DOMAIN row'[x].patch, x \notin new.made, ~Reopened(x)',
         Reverting(new, x) => f \in DOMAIN new.patch
  PROVE  Firm(x, f)'
<1>1. req'[r] = new /\ \A q \in Request \ {r} : req'[q] = req[q]
  BY DEF Sound, Moves, Types
<1>2. x \notin Made'
  BY MadeIs
<1>3. \A q \in Request : Reverting(req'[q], x) => f \in DOMAIN req'[q].patch
  BY <1>1 DEF Firm
<1> QED
  BY <1>2, <1>3 DEF Firm

\* Rows change in place: what stands on, and what was withdrawn, is kept; for the rest
\* there is a reason.
LEMMA KeptInPlace ==
  ASSUME Sound, Kept, NEW r \in Request, NEW new, Moves(r, new),
         \A s \in Sug : Evolves(r, s), \A s \in Sug : row[s] = Absent => row'[s] = Absent,
         offered' = offered, new.made \subseteq req[r].made,
         \A p, f : ~Owing(req[r], p, f),
         \A x \in Sug : \A f : Firm(x, f) /\ Reverting(new, x) => f \in DOMAIN new.patch,
         \A x, p \in Sug : \A f : /\ Firm(x, f) /\ row[x].root = p
                                  /\ ~(/\ row'[x].status \in {"pending", "applied"}
                                       /\ f \in DOMAIN row'[x].patch)
                                  => KeptFor(p, f)',
         \A s, p \in Sug : \A f : /\ row[s] # Absent /\ row[s].root = p /\ row[s].by # 0
                                  /\ f \in DOMAIN row[s].patch /\ f \notin DOMAIN row'[s].patch
                                  => KeptFor(p, f)'
  PROVE  Kept'
<1> SUFFICES ASSUME NEW p \in Sug, NEW f \in offered'[p]
             PROVE  KeptFor(p, f)'
  BY DEF Kept
<1>1. KeptFor(p, f) /\ ~Owed(p, f)
  BY OwedIs DEF Kept
<1>2. CASE \E x \in Sug : Firm(x, f) /\ row[x].root = p
  <2>1. PICK x \in Sug : Firm(x, f) /\ row[x].root = p
    BY <1>2
  <2>2. row'[x] # Absent /\ row'[x].root = p
    BY <2>1 DEF Firm, Evolves
  <2>3. x \notin new.made
    BY <2>1, MadeIs DEF Firm
  <2>4. ~Reopened(x)'
    BY <2>1, ReopenedBy DEF Firm
  <2>5. CASE row'[x].status \in {"pending", "applied"} /\ f \in DOMAIN row'[x].patch
    <3>1. Firm(x, f)'
      BY <2>1, <2>2, <2>3, <2>4, <2>5, FirmStays
    <3> QED
      BY <2>2, <3>1 DEF KeptFor
  <2>6. CASE ~(row'[x].status \in {"pending", "applied"} /\ f \in DOMAIN row'[x].patch)
    BY <2>1, <2>6
  <2> QED
    BY <2>5, <2>6
<1>3. CASE Withdrawn(p, f)
  <2>1. PICK s \in Sug :
          row[s] # Absent /\ row[s].root = p /\ f \in DOMAIN row[s].patch /\ row[s].by # 0
    BY <1>3 DEF Withdrawn
  <2>2. row'[s] # Absent /\ row'[s].root = p /\ row'[s].by # 0
    BY <2>1 DEF Evolves
  <2>3. CASE f \in DOMAIN row'[s].patch
    <3>1. Withdrawn(p, f)'
      BY <2>2, <2>3 DEF Withdrawn
    <3> QED
      BY <3>1 DEF KeptFor
  <2>4. CASE f \notin DOMAIN row'[s].patch
    BY <2>1, <2>4
  <2> QED
    BY <2>3, <2>4
<1> QED
  BY <1>1, <1>2, <1>3 DEF KeptFor

\* Rows that change in place stand for no field they did not stand for.
LEMMA StandingShrinks ==
  ASSUME Sound, Claims, NEW r \in Request, \A s \in Sug : Evolves(r, s),
         \A s \in Sug : row[s] = Absent => row'[s] = Absent,
         \A s \in Sug : req[r].op = "apply" /\ req[r].pc = "record" /\ req[r].sug = s
           /\ row'[s] # row[s] /\ row[s].status # "pending" => row[s].root \in late',
         NEW p \in Sug \ late', NEW f
  PROVE  Standing(p, f)' \subseteq Standing(p, f)
<1> SUFFICES ASSUME NEW x \in Sug, row'[x] # Absent, row'[x].root = p,
                    f \in DOMAIN row'[x].patch, row'[x].status \in {"pending", "applied"}
             PROVE  x \in Standing(p, f)
  BY DEF Standing
<1>1. row[x] # Absent /\ row[x].root = p
  BY DEF Evolves
<1>2. CASE row'[x] = row[x]
  BY <1>1, <1>2 DEF Standing
<1>3. CASE row'[x] # row[x]
  <2>1. /\ req[r].op = "apply" /\ req[r].pc = "record" /\ req[r].sug = x
        /\ row'[x].patch = req[r].patch
    BY <1>1, <1>3 DEF Evolves
  <2>2. row[x].status = "pending"
    BY <1>1, <1>3, <2>1
  <2>3. DOMAIN row[x].patch = DOMAIN req[r].patch \cup DOMAIN req[r].rest
    BY Zenon, <2>1, <2>2 DEF Claims, Claim, Claimed, Loaded
  <2> QED
    BY <1>1, <2>1, <2>2, <2>3 DEF Standing
<1> QED
  BY <1>2, <1>3

\* None stands twice.
LEMMA SingleInPlace ==
  ASSUME Sound, Claims, Single, NEW r \in Request, NEW new, Moves(r, new),
         \A s \in Sug : Evolves(r, s), \A s \in Sug : row[s] = Absent => row'[s] = Absent,
         \A s \in Sug : req[r].op = "apply" /\ req[r].pc = "record" /\ req[r].sug = s
           /\ row'[s] # row[s] /\ row[s].status # "pending" => row[s].root \in late',
         late \subseteq late',
         \A x \in req[r].made : x \in new.made \/ row'[x].status \notin {"pending", "applied"},
         \A p \in Sug \ late', f \in Field : Owing(new, p, f)' => Standing(p, f)' = {}
  PROVE  Single'
<1> SUFFICES ASSUME NEW p \in Sug \ late', NEW f \in Field
             PROVE  SingleFor(p, f)'
  BY DEF Single
<1>1. SingleFor(p, f)
  BY DEF Single
<1>2. Standing(p, f)' \subseteq Standing(p, f)
  BY StandingShrinks
<1>3. Made = req[r].made /\ Made' = new.made
  BY MadeIs
<1>4. Standing(p, f)' \ Made' \subseteq Standing(p, f) \ Made
  BY <1>2, <1>3 DEF Standing
<1>5. Owed(p, f)' => Standing(p, f)' = {}
  BY OwedIs
<1> QED
  BY <1>1, <1>4, <1>5 DEF SingleFor

\* A request that regenerates nothing, or has made nothing yet.
LEMMA ChildrenIdle ==
  ASSUME Sound, NEW r \in Request, NEW new, Moves(r, new),
         ~(new.op = "regenerate" /\ new.pc \in MidTurn)
  PROVE  Children'
<1>1. req'[r] = new /\ turn' \in {Nobody, r} /\ (turn' = r => new.pc \in MidTurn)
  BY AbsentAssumption DEF Sound, Moves, Types
<1>2. \A q \in Request : turn' = q => q = r
  BY <1>1, AbsentAssumption
<1> QED
  BY <1>1, <1>2 DEF Children

\* A request has replacements only between making them and superseding their source.
LEMMA NoMade ==
  ASSUME Sound, NEW r \in Request, req[r].pc \notin {"carry", "supersede", "undo"}
  PROVE  req[r].made = {}
  BY DEF Sound, Located, About, Places, MidTurn

\* The rows are as they were.
LEMMA WholeStatic ==
  ASSUME Sound, Whole, NEW r \in Request, NEW new, Moves(r, new), row' = row,
         offered' = offered, late \subseteq late', new.made = req[r].made,
         \A p, f : ~Owing(req[r], p, f), new.pc \notin {"rest", "reopen"},
         new.op = "revert" => Proceeds(new, req[r]) \/ new.patch = row[new.sug].patch
  PROVE  Kept' /\ Single'
<1>1. \A s \in Sug : Evolves(r, s) /\ row'[s] = row[s]
  BY DEF Evolves
<1>2. ASSUME NEW x \in Sug, NEW f, Firm(x, f), Reverting(new, x)
      PROVE  f \in DOMAIN new.patch
  BY <1>2 DEF Firm, Reverting, Proceeds
<1>3. Kept'
  <2>1. \A x \in Sug : \A f : Firm(x, f) => row'[x].status \in {"pending", "applied"}
                                       /\ f \in DOMAIN row'[x].patch
    BY <1>1 DEF Firm
  <2> QED
    BY <1>1, <1>2, <2>1, KeptInPlace DEF Whole
<1>4. \A p, f : ~Owing(new, p, f)'
  BY DEF Owing
<1>5. Single'
  BY <1>1, <1>4, SingleInPlace DEF Whole
<1> QED
  BY <1>3, <1>5

\* An apply is recorded: what was applied stands, and the rest is owed.
LEMMA RecordKeeps ==
  ASSUME Sound, Whole, ~torn', NEW r \in Request, RecordApplied(r)
  PROVE  Kept' /\ Single' /\ Children'
<1> DEFINE s == req[r].sug
           patch == req[r].patch
           rest == req[r].rest
<1>1. PICK db, new :
        /\ db \in RecordCall
        /\ Moves(r, new) /\ req[r].op = "apply" /\ req[r].pc = "record" /\ turn = Nobody
        /\ Goes(db) /\ TablesTyped /\ Stays /\ Recorded(r, db)
        /\ Previous(r) \in Patch /\ DOMAIN Previous(r) = DOMAIN req[r].patch
        /\ \A f \in DOMAIN req[r].patch : Previous(r)[f] = req[r].seen[f]
        /\ \/ /\ Answered(r, db) /\ req[r].rest # <<>>
              /\ Proceeds(new, req[r]) /\ new.pc = "rest" /\ new.made = {}
           \/ ~(Answered(r, db) /\ req[r].rest # <<>>) /\ Unladen(new)
  BY Zenon, RecordMoves DEF Sound
<1> db \in RecordCall
  BY <1>1
<1>2. s \in Sug /\ patch \in Patch /\ rest \in Patch
  BY <1>1 DEF Sound, Located, About, Types, Coroutine
<1>3. /\ Elsewhere(s)
      /\ \/ ~Answered(r, db) /\ row' = row /\ cache' = cache
         \/ /\ Answered(r, db) /\ row[s] # Absent /\ row'[s].status = "applied"
            /\ row'[s].patch = patch /\ row'[s].root = row[s].root
            /\ row'[s].by = row[s].by
  BY <1>1, <1>2, RecordWhole
<1>4. offered' = offered
  BY DEF RecordApplied
<1>5. /\ new.made = {} /\ req[r].made = {} /\ new.op # "revert"
      /\ \A p, f : ~Owing(req[r], p, f)
  <2>1. new.op # "revert" /\ new.made = {}
    BY <1>1 DEF Unladen, Proceeds
  <2>2. req[r].made = {}
    BY <1>1, NoMade
  <2> QED
    BY <1>1, <2>1, <2>2 DEF Owing
<1>6. /\ late \subseteq late'
      /\ row[s] # Absent /\ row[s].status # "pending" => row[s].root \in late'
  <2>1. late' = IF row[s] # Absent /\ row[s].status # "pending"
                THEN late \cup {row[s].root} ELSE late
    BY <1>1 DEF Recorded
  <2> QED
    BY <2>1
<1>7. ~(new.op = "regenerate" /\ new.pc \in MidTurn)
  BY <1>1 DEF Unladen, Proceeds
<1>8. Children'
  BY <1>1, <1>7, ChildrenIdle
<1>9. CASE row' = row
  <2>1. Unladen(new) => new.pc \notin {"rest", "reopen"}
    BY <1>1 DEF Unladen, Moves, Places
  <2>2. CASE Unladen(new)
    BY Zenon, <1>1, <1>4, <1>5, <1>6, <1>8, <1>9, <2>1, <2>2, WholeStatic
  <2>3. CASE ~Unladen(new)
    <3>1. /\ Answered(r, db) /\ row[s] # Absent /\ row[s].patch = patch
          /\ row[s].status = "applied"
      BY <1>1, <1>3, <1>9, <2>3
    <3>2. \A x \in Sug : Evolves(r, x)
      BY <1>9 DEF Evolves
    <3>3. Kept'
      <4>1. \A x \in Sug : \A f : Firm(x, f) => row'[x].status \in {"pending", "applied"}
                                           /\ f \in DOMAIN row'[x].patch
        BY <1>9 DEF Firm
      <4>2. \A x \in Sug : \A f : ~(Firm(x, f) /\ Reverting(new, x))
        BY <1>5 DEF Reverting
      <4> QED
        BY <1>1, <1>4, <1>5, <1>9, <3>2, <4>1, <4>2, KeptInPlace DEF Whole
    <3>4. ASSUME NEW p \in Sug \ late', NEW f \in Field, Owing(new, p, f)'
          PROVE  FALSE
      <4>1. new.sug = s /\ row'[s].root = p
        BY <1>1, <2>3, <3>4 DEF Owing, Proceeds
      <4> QED
        BY <1>6, <1>9, <3>1, <4>1
    <3>5. Single'
      BY <1>1, <1>5, <1>6, <1>9, <3>2, <3>4, SingleInPlace DEF Whole
    <3> QED
      BY <1>8, <3>3, <3>5
  <2> QED
    BY <2>2, <2>3
<1>10. CASE row' # row
  <2>1. /\ Answered(r, db) /\ row[s] # Absent /\ row'[s].status = "applied"
        /\ row'[s].patch = patch /\ row'[s].root = row[s].root /\ row'[s].by = row[s].by
    BY <1>3, <1>10
  <2>2. \A x \in Sug : Evolves(r, x)
    BY TableSteps, RowsEvolve DEF Sound, ApplyStep
  <2>3. \A x \in Sug : row[x] = Absent => row'[x] = Absent
    BY <1>3, <2>1 DEF Elsewhere
  <2>4. /\ DOMAIN patch \cap DOMAIN rest = {}
        /\ DOMAIN row[s].patch \subseteq DOMAIN patch \cup DOMAIN rest
        /\ row[s].status = "pending" => DOMAIN row[s].patch = DOMAIN patch \cup DOMAIN rest
    BY Zenon, <1>1 DEF Whole, Claims, Claim, Claimed, Loaded
  <2>5. ASSUME NEW p \in Sug, NEW f \in DOMAIN row[s].patch, f \notin DOMAIN patch,
               row[s].root = p
        PROVE  KeptFor(p, f)'
    <3>1. f \in DOMAIN rest /\ rest # <<>>
      BY <2>4, <2>5, NoPatch
    <3>2. /\ Proceeds(new, req[r]) /\ new.pc = "rest"
      BY <1>1, <2>1, <3>1
    <3>3. Owing(new, p, f)'
      BY <1>1, <2>1, <2>5, <3>1, <3>2 DEF Owing, Proceeds
    <3> QED
      BY <1>1, <3>3, OwedIs DEF KeptFor
  <2>6. Kept'
    <3>1. ASSUME NEW x \in Sug, NEW p \in Sug, NEW f, Firm(x, f), row[x].root = p,
                 ~(row'[x].status \in {"pending", "applied"} /\ f \in DOMAIN row'[x].patch)
          PROVE  KeptFor(p, f)'
      <4>1. x = s /\ f \notin DOMAIN patch /\ f \in DOMAIN row[s].patch
        BY <1>3, <2>1, <3>1 DEF Elsewhere, Firm
      <4> QED
        BY <2>5, <3>1, <4>1
    <3>2. ASSUME NEW x \in Sug, NEW p \in Sug, NEW f, row[x] # Absent, row[x].root = p,
                 f \in DOMAIN row[x].patch, f \notin DOMAIN row'[x].patch
          PROVE  KeptFor(p, f)'
      <4>1. x = s /\ f \notin DOMAIN patch
        BY <1>3, <2>1, <3>2 DEF Elsewhere
      <4> QED
        BY <2>5, <3>2, <4>1
    <3>3. \A x \in Sug : \A f : ~(Firm(x, f) /\ Reverting(new, x))
      BY <1>5 DEF Reverting
    <3> QED
      BY <1>1, <1>4, <1>5, <2>2, <2>3, <3>1, <3>2, <3>3, KeptInPlace DEF Whole
  <2>7. \A x \in Sug : req[r].op = "apply" /\ req[r].pc = "record" /\ req[r].sug = x
          /\ row'[x] # row[x] /\ row[x].status # "pending" => row[x].root \in late'
    BY <1>6, <2>1
  <2>8. ASSUME NEW p \in Sug \ late', NEW f \in Field, Owing(new, p, f)'
        PROVE  Standing(p, f)' = {}
    <3>1. /\ new.sug = s /\ row'[s].root = p /\ f \in DOMAIN rest
      <4>1. new.pc \in {"rest", "reopen"}
        BY <2>8 DEF Owing
      <4>2. Proceeds(new, req[r])
        BY <1>1, <4>1 DEF Unladen, Moves, Places
      <4> QED
        BY <1>1, <2>8, <4>2 DEF Owing, Proceeds
    <3>2. row[s].status = "pending" /\ row[s].root = p /\ f \in DOMAIN row[s].patch
      BY <1>6, <2>1, <2>4, <3>1
    <3>3. s \in Standing(p, f) \ Made
      BY <1>1, <1>2, <1>5, <2>1, <3>2, MadeIs DEF Standing
    <3>4. Standing(p, f) = {s}
      <4>1. \A x, y \in Standing(p, f) \ Made : x = y
        BY <1>6 DEF Whole, Single, SingleFor
      <4>2. Made = {}
        BY <1>1, <1>5, MadeIs
      <4> QED
        BY <3>3, <4>1, <4>2
    <3>5. Standing(p, f)' \subseteq Standing(p, f)
      BY <2>2, <2>3, <2>7, StandingShrinks DEF Whole
    <3>6. s \notin Standing(p, f)'
      BY <2>1, <2>4, <3>1 DEF Standing
    <3> QED
      BY <3>4, <3>5, <3>6
  <2>9. Single'
    BY <1>1, <1>5, <1>6, <2>2, <2>3, <2>7, <2>8, SingleInPlace DEF Whole
  <2> QED
    BY <1>8, <2>6, <2>9
<1> QED
  BY <1>9, <1>10

\* A revert is recorded: its fields are owed.
LEMMA RevertKeeps ==
  ASSUME Sound, Whole, ~torn', NEW r \in Request, RecordReverted(r)
  PROVE  Kept' /\ Single' /\ Children'
<1> DEFINE s == req[r].sug
           patch == req[r].patch
<1>1. PICK db, new :
        /\ db \in Call
        /\ Moves(r, new) /\ req[r].op = "revert" /\ req[r].pc = "record"
        /\ s \in Sug /\ Become("reverted", s, {"applied"}, db)
        /\ torn' = (torn \/ ~Noticed(s, {"applied"}, db))
        /\ \/ /\ Updated(s, {"applied"}, db)
              /\ Proceeds(new, req[r]) /\ new.pc = "reopen" /\ new.made = {}
           \/ /\ ~Updated(s, {"applied"}, db)
              /\ \/ Unladen(new)
                 \/ Proceeds(new, req[r]) /\ new.pc = "record" /\ new.made = {}
  BY RecordRevertedMoves DEF Sound
<1> db \in Call
  BY <1>1
<1>2. "reverted" \in Status /\ Noticed(s, {"applied"}, db)
  BY Zenon, <1>1 DEF Status
<1>3. /\ Elsewhere(s)
      /\ \/ /\ Updated(s, {"applied"}, db) /\ row[s] # Absent /\ row[s].status = "applied"
            /\ row'[s].status = "reverted" /\ row'[s].patch = row[s].patch
            /\ row'[s].root = row[s].root /\ row'[s] # Absent
         \/ ~Updated(s, {"applied"}, db) /\ row' = row
  BY Zenon, <1>1, <1>2, BecomeKnown, RowFields
<1>4. offered' = offered /\ late' = late
  BY DEF RecordReverted
<1>5. /\ new.made = {} /\ req[r].made = {} /\ \A p, f : ~Owing(req[r], p, f)
  <2>1. new.made = {}
    BY <1>1 DEF Unladen
  <2>2. req[r].made = {}
    BY <1>1, NoMade
  <2> QED
    BY <1>1, <2>1, <2>2 DEF Owing
<1>6. Children'
  <2>1. ~(new.op = "regenerate" /\ new.pc \in MidTurn)
    BY <1>1 DEF Unladen, Proceeds
  <2> QED
    BY <1>1, <2>1, ChildrenIdle
<1>7. CASE ~Updated(s, {"applied"}, db)
  <2>1. /\ new.pc \notin {"rest", "reopen"} /\ (new.op = "revert" => Proceeds(new, req[r]))
    BY <1>1, <1>7 DEF Unladen, Moves, Places
  <2>2. row' = row
    BY <1>3, <1>7
  <2> QED
    BY Zenon, <1>1, <1>4, <1>5, <1>6, <2>1, <2>2, WholeStatic
<1>8. CASE Updated(s, {"applied"}, db)
  <2>1. \A x \in Sug : Evolves(r, x)
    BY TableSteps, RowsEvolve DEF Sound, RevertStep
  <2>2. \A x \in Sug : row[x] = Absent => row'[x] = Absent
    BY <1>3, <1>8 DEF Elsewhere
  <2>3. Proceeds(new, req[r]) /\ new.pc = "reopen"
    BY <1>1, <1>8
  <2>4. new.sug = s /\ (Reopened(new.sug)' <=> Reopened(new.sug))
    BY <2>1, <2>2, <2>3, ReopenedBy DEF Proceeds
  <2>5. Kept'
    <3>1. ASSUME NEW x \in Sug, NEW p \in Sug, NEW f, Firm(x, f), row[x].root = p,
                 ~(row'[x].status \in {"pending", "applied"} /\ f \in DOMAIN row'[x].patch)
          PROVE  KeptFor(p, f)'
      <4>1. x = s
        BY <1>3, <1>8, <3>1 DEF Elsewhere, Firm
      <4>2. f \in DOMAIN patch /\ ~Reopened(new.sug)
        BY <1>1, <2>4, <3>1, <4>1 DEF Firm, Reverting
      <4>3. /\ new.op = "revert" /\ new.pc = "reopen" /\ f \in DOMAIN new.patch
            /\ row'[new.sug].root = p
        BY <1>1, <1>3, <1>8, <2>3, <2>4, <3>1, <4>1, <4>2 DEF Proceeds
      <4>4. Owing(new, p, f)'
        BY <2>4, <4>2, <4>3 DEF Owing
      <4> QED
        BY <1>1, <4>4, OwedIs DEF KeptFor
    <3>2. \A x \in Sug : \A f : Firm(x, f) /\ Reverting(new, x) => f \in DOMAIN new.patch
      BY Zenon, <2>3 DEF Firm, Reverting, Proceeds
    <3>3. \A x \in Sug : \A f : row[x] # Absent /\ f \in DOMAIN row[x].patch => f \in DOMAIN row'[x].patch
      BY <1>3, <1>8 DEF Elsewhere
    <3> QED
      BY <1>1, <1>4, <1>5, <2>1, <2>2, <3>1, <3>2, <3>3, KeptInPlace DEF Whole
  <2>6. ASSUME NEW p \in Sug \ late', NEW f \in Field, Owing(new, p, f)'
        PROVE  Standing(p, f)' = {}
    <3>1. /\ new.sug = s /\ row'[s].root = p /\ f \in DOMAIN patch
      BY <2>3, <2>6 DEF Owing, Proceeds
    <3>2. row[s].root = p /\ f \in DOMAIN row[s].patch
      BY Zenon, <1>1, <1>3, <1>4, <1>8, <3>1 DEF Whole, Claims, Claim, Claimed
    <3>3. s \in Standing(p, f) \ Made
      BY <1>1, <1>3, <1>5, <1>8, <3>2, MadeIs DEF Standing
    <3>4. Standing(p, f) = {s}
      <4>1. \A x, y \in Standing(p, f) \ Made : x = y
        BY <1>4 DEF Whole, Single, SingleFor
      <4>2. Made = {}
        BY <1>1, <1>5, MadeIs
      <4> QED
        BY <3>3, <4>1, <4>2
    <3>5. Standing(p, f)' \subseteq Standing(p, f)
      BY <1>1, <2>1, <2>2, StandingShrinks DEF Whole
    <3>6. s \notin Standing(p, f)'
      BY <1>3, <1>8 DEF Standing
    <3> QED
      BY <3>4, <3>5, <3>6
  <2>7. Single'
    BY <1>1, <1>4, <1>5, <2>1, <2>2, <2>6, SingleInPlace DEF Whole
  <2> QED
    BY <1>6, <2>5, <2>7
<1> QED
  BY <1>7, <1>8

\* Steps that change no row, and owe nothing.
LEMMA QuietKeeps ==
  ASSUME Sound, Whole, NEW r \in Request,
         \/ StartApply(r) \/ StartBulk(r) \/ StartReviewed(r) \/ CheckReview(r)
         \/ StartRegenerate(r) \/ NothingGenerated(r) \/ StartAudit(r) \/ SaveAudit(r)
         \/ FinishAudit(r) \/ AuditFails(r)
  PROVE  Kept' /\ Single' /\ Children'
<1>1. PICK new : /\ Moves(r, new) /\ Aside(new)
                 /\ Unladen(new) \/ new.op \in {"regenerate", "audit"}
                 /\ new.op = "regenerate" => StartRegenerate(r)
  <2>1. PICK new : /\ Moves(r, new) /\ Aside(new)
                   /\ Unladen(new) \/ (new.op = "regenerate" /\ StartRegenerate(r))
                        \/ new.op = "audit"
    BY QuietMoves
  <2> QED
    BY <2>1 DEF Unladen
<1>2. row' = row /\ offered' = offered /\ late' = late
  BY Zenon DEF StartApply, StartBulk, StartReviewed, CheckReview, StartRegenerate, NothingGenerated,
     StartAudit, SaveAudit, FinishAudit, AuditFails, Table, history
<1>3. req[r].pc \notin {"rest", "reopen", "carry", "supersede", "undo"}
  <2>1. Ask(r) => req[r].pc = "idle"
    BY DEF Ask, Idle
  <2> QED
    BY Zenon, <2>1 DEF StartApply, StartBulk, StartReviewed, CheckReview, StartRegenerate,
       NothingGenerated, StartAudit, SaveAudit, FinishAudit, AuditFails, At
<1>4. req[r].made = {} /\ \A p, f : ~Owing(req[r], p, f)
  BY <1>3, NoMade DEF Owing
<1>5. new.made = {} /\ ~(new.op = "regenerate" /\ new.pc \in MidTurn)
  <2>1. CASE new.op = "regenerate"
    <3>1. PICK go : Moves(r, go) /\ go.pc = "generate" /\ go.made = {}
      BY <1>1, <2>1, StartRegenerateMoves DEF Sound
    <3>2. req'[r] = go /\ req'[r] = new
      BY <1>1, <3>1 DEF Sound, Types, Moves
    <3> QED
      BY <3>1, <3>2 DEF MidTurn
  <2>2. CASE new.op # "regenerate"
    BY <1>1, <2>2 DEF Moves, About
  <2> QED
    BY <2>1, <2>2
<1>6. new.pc \notin {"rest", "reopen"} /\ new.op # "revert"
  BY <1>1 DEF Unladen, Moves, Places
<1> QED
  BY Zenon, <1>1, <1>2, <1>4, <1>5, <1>6, WholeStatic, ChildrenIdle

\* A request reads or writes the shop, or takes a fix to do so.
LEMMA ShopKeeps ==
  ASSUME Sound, Whole, NEW r \in Request,
         WriteStep(r) \/ LoadSuggestion(r) \/ ReadShop(r) \/ StartRevert(r) \/ CheckDrift(r)
  PROVE  Kept' /\ Single' /\ Children'
<1>1. row' = row /\ offered' = offered /\ late' = late
  BY Zenon DEF WriteStep, WriteShop, WriteRefused, WriteRaises, LoadSuggestion, ReadShop, StartRevert,
     CheckDrift, Table, history
<1>2. req[r].pc \notin {"rest", "reopen", "carry", "supersede", "undo"}
  <2>1. Ask(r) => req[r].pc = "idle"
    BY DEF Ask, Idle
  <2> QED
    BY Zenon, <2>1 DEF WriteStep, WriteShop, WriteRefused, WriteRaises, LoadSuggestion, ReadShop,
       StartRevert, CheckDrift, At
<1>3. req[r].made = {} /\ \A p, f : ~Owing(req[r], p, f)
  BY <1>2, NoMade DEF Owing
<1>4. PICK new :
        /\ Moves(r, new)
        /\ \/ Unladen(new)
           \/ new.op = "apply" /\ new.pc = "read"
           \/ /\ Proceeds(new, req[r]) /\ req[r].op \in {"apply", "revert"}
              /\ new.pc \in {"write", "record"}
           \/ /\ new.op = "revert" /\ new.pc = "check" /\ Get(new.sug).patch = new.patch
  <2>1. CASE WriteStep(r)
    BY Zenon, <2>1, WriteMoves DEF Sound
  <2>2. CASE LoadSuggestion(r)
    BY <2>2, LoadMoves DEF Sound
  <2>3. CASE ReadShop(r)
    BY <2>3, ReadMoves DEF Sound
  <2>4. CASE StartRevert(r)
    BY <2>4, StartRevertMoves DEF Sound
  <2>5. CASE CheckDrift(r)
    BY <2>5, CheckDriftMoves DEF Sound
  <2> QED
    BY <2>1, <2>2, <2>3, <2>4, <2>5
<1>5. /\ new.op # "regenerate" /\ new.made = {} /\ new.pc \notin {"rest", "reopen"}
  <2>1. new.op # "regenerate"
    BY <1>4 DEF Unladen, Proceeds
  <2>2. new.made = {}
    BY <1>4, <2>1 DEF Moves, About
  <2>3. new.pc \notin {"rest", "reopen"}
    BY <1>4 DEF Unladen, Moves, Places
  <2> QED
    BY <2>1, <2>2, <2>3
<1>6. new.op = "revert" => Proceeds(new, req[r]) \/ new.patch = row[new.sug].patch
  <2>1. CASE new.op = "revert" /\ Get(new.sug).patch = new.patch
    <3>1. new.sug \in Sug /\ Known(new.sug)
      BY <1>4, <2>1 DEF Moves, About
    <3> QED
      BY <2>1, <3>1, GetRow DEF Whole
  <2> QED
    BY <1>4, <2>1 DEF Unladen
<1> QED
  BY Zenon, <1>1, <1>3, <1>4, <1>5, <1>6, WholeStatic, ChildrenIdle

\* The replacements of the request that took the step are shared out.
LEMMA ChildrenBy ==
  ASSUME Sound, NEW r \in Request, NEW new, Moves(r, new), Sharing(new)'
  PROVE  Children'
<1>1. req'[r] = new /\ turn' \in {Nobody, r}
  BY DEF Sound, Moves, Types
<1>2. \A q \in Request : turn' = q => q = r
  BY <1>1, AbsentAssumption
<1> SUFFICES ASSUME NEW q \in Request, turn' = q
             PROVE  Sharing(req[q])'
  BY DEF Children
<1>3. q = r /\ req'[q] = new
  BY <1>1, <1>2
<1> QED
  BY <1>3 DEF Sharing, Claimed

\* A replacement is superseded: it had not taken the place of its source.
LEMMA UndoKeeps ==
  ASSUME Sound, Whole, ~torn', NEW r \in Request, UndoChild(r)
  PROVE  Kept' /\ Single' /\ Children'
<1>1. PICK c, db, new :
        /\ c \in req[r].made /\ db \in Call
        /\ Moves(r, new) /\ req[r].op = "regenerate" /\ req[r].pc = "undo"
        /\ turn = r /\ c \in Sug
        /\ Become("superseded", c, {"pending"}, db)
        /\ torn' = (torn \/ db # "ok")
        /\ \/ req[r].made = {c} /\ Unladen(new)
           \/ Proceeds(new, req[r]) /\ new.pc = "undo" /\ new.made = req[r].made \ {c}
  BY UndoMoves DEF Sound
<1> c \in req[r].made /\ db \in Call
  BY <1>1
<1>2. db = "ok" /\ "superseded" \in Status /\ Noticed(c, {"pending"}, db)
  BY Zenon, <1>1 DEF Status, Noticed
<1>3. Sharing(req[r])
  BY <1>1 DEF Whole, Children
<1>4. row[c] # Absent /\ row[c].status = "pending"
  BY <1>1, <1>3 DEF Sharing
<1>5. Elsewhere(c) /\ row'[c] # Absent /\ row'[c].status = "superseded"
      /\ row'[c].patch = row[c].patch /\ row'[c].root = row[c].root
  BY Zenon, <1>1, <1>2, <1>4, BecomeKnown, RowFields
<1>6. offered' = offered /\ late' = late
  BY DEF UndoChild
<1>7. /\ new.made = req[r].made \ {c} /\ new.op # "revert" /\ new.pc \notin {"rest", "reopen"}
      /\ \A p, f : ~Owing(req[r], p, f)
  <2>1. new.made = req[r].made \ {c}
    BY <1>1 DEF Unladen
  <2>2. new.op # "revert" /\ new.pc \notin {"rest", "reopen"}
    BY <1>1 DEF Unladen, Proceeds, Moves, Places
  <2> QED
    BY <1>1, <2>1, <2>2 DEF Owing
<1>8. \A x \in Sug : Evolves(r, x)
  BY TableSteps, RowsEvolve DEF Sound, RegenerateStep
<1>9. \A x \in Sug : row[x] = Absent => row'[x] = Absent
  BY <1>4, <1>5 DEF Elsewhere
<1>10. Kept'
  <2>1. ASSUME NEW x \in Sug, NEW f, Firm(x, f)
        PROVE  row'[x].status \in {"pending", "applied"} /\ f \in DOMAIN row'[x].patch
    <3>1. x # c
      BY <1>1, <2>1, MadeIs DEF Firm
    <3> QED
      BY <1>5, <2>1, <3>1 DEF Elsewhere, Firm
  <2>2. \A x \in Sug : \A f : ~Reverting(new, x)
    BY <1>7 DEF Reverting
  <2>3. \A x \in Sug : \A f : row[x] # Absent /\ f \in DOMAIN row[x].patch => f \in DOMAIN row'[x].patch
    BY <1>5 DEF Elsewhere
  <2>4. new.made \subseteq req[r].made
    BY <1>7
  <2> QED
    BY <1>1, <1>6, <1>7, <1>8, <1>9, <2>1, <2>2, <2>3, <2>4, KeptInPlace DEF Whole
<1>11. Single'
  <2>1. \A p, f : ~Owing(new, p, f)'
    BY <1>7 DEF Owing
  <2>2. \A x \in req[r].made : x \in new.made \/ row'[x].status \notin {"pending", "applied"}
    BY <1>5, <1>7
  <2> QED
    BY <1>1, <1>6, <1>7, <1>8, <1>9, <2>1, <2>2, SingleInPlace DEF Whole
<1>12. Children'
  <2>1. CASE Unladen(new)
    <3>1. ~(new.op = "regenerate" /\ new.pc \in MidTurn)
      BY <2>1 DEF Unladen
    <3> QED
      BY <1>1, <3>1, ChildrenIdle
  <2>2. CASE Proceeds(new, req[r]) /\ new.pc = "undo"
    <3>1. new.sug \in Sug /\ new.sug = req[r].sug /\ Claimed(new) = Claimed(req[r])
      BY <1>1, <2>2 DEF Proceeds, Claimed, Moves, About
    <3>2. row'[new.sug].root = row[new.sug].root
      BY <1>5, <3>1 DEF Elsewhere
    <3>3. \A d \in new.made : d \in req[r].made /\ row'[d] = row[d]
      <4>1. new.made \subseteq Sug
        BY <1>1 DEF Moves, Coroutine
      <4> QED
        BY <1>5, <1>7, <4>1 DEF Elsewhere
    <3>4. Sharing(new)'
      BY <1>3, <1>7, <2>2, <3>1, <3>2, <3>3 DEF Sharing, Claimed
    <3> QED
      BY <1>1, <3>4, ChildrenBy
  <2> QED
    BY <1>1, <2>1, <2>2
<1> QED
  BY <1>10, <1>11, <1>12

\* The fixes of older audits are withdrawn.
LEMMA WithdrawKeeps ==
  ASSUME Sound, Whole, NEW r \in Request, SupersedePending(r)
  PROVE  Kept' /\ Single' /\ Children'
<1> DEFINE a == req[r].sug
<1>1. PICK db, new :
        /\ db \in Call
        /\ Moves(r, new) /\ Proceeds(new, req[r]) /\ new.made = {}
        /\ new.pc \in {"finish", "error"}
        /\ req[r].op = "audit" /\ req[r].pc = "withdraw" /\ a \in Audit
        /\ row' = IF db = "fails" THEN row
                  ELSE [s \in Sug |-> IF Older(s, a)
                         THEN [row[s] EXCEPT !.status = "superseded", !.by = a] ELSE row[s]]
  BY Zenon, SupersedePendingMoves DEF Sound
<1> db \in Call
  BY <1>1
<1>2. offered' = offered /\ late' = late
  BY Zenon DEF SupersedePending, history
<1>3. /\ req[r].made = {} /\ \A p, f : ~Owing(req[r], p, f)
      /\ new.op = "audit" /\ new.pc \notin {"rest", "reopen"}
  BY Zenon, <1>1, NoMade DEF Owing, Proceeds
<1>4. Children'
  <2>1. ~(new.op = "regenerate" /\ new.pc \in MidTurn)
    BY <1>3
  <2> QED
    BY Zenon, <1>1, <2>1, ChildrenIdle
<1>5. CASE row' = row
  <2>1. late \subseteq late' /\ new.made = req[r].made
    BY Zenon, <1>1, <1>2, <1>3
  <2> QED
    BY Zenon, <1>1, <1>2, <1>3, <1>4, <1>5, <2>1, WholeStatic
<1>6. CASE row' # row
  <2>1. /\ \A s \in Sug : Older(s, a) =>
             /\ row'[s] # Absent /\ row'[s].by = a
             /\ row'[s].patch = row[s].patch /\ row'[s].root = row[s].root
        /\ \A s \in Sug : ~Older(s, a) => row'[s] = row[s]
    BY Zenon, <1>1, <1>6, Withdrawing, RowFields DEF Sound
  <2>2. a # 0
    <3>1. \A x \in Audit : x # 0
      BY BoundAssumption DEF Audit
    <3> QED
      BY Zenon, <1>1, <3>1
  <2>3. \A x \in Sug : Evolves(r, x)
    BY TableSteps, RowsEvolve DEF Sound, AuditStep
  <2>4. \A x \in Sug : row[x] = Absent => row'[x] = Absent
    BY <2>1 DEF Older
  <2>5. Kept'
    <3>1. ASSUME NEW x \in Sug, NEW p \in Sug, NEW f, Firm(x, f), row[x].root = p,
                 ~(row'[x].status \in {"pending", "applied"} /\ f \in DOMAIN row'[x].patch)
          PROVE  KeptFor(p, f)'
      <4>1. Older(x, a)
        BY <2>1, <3>1 DEF Firm
      <4>2. Withdrawn(p, f)'
        BY <2>1, <2>2, <3>1, <4>1 DEF Withdrawn, Firm
      <4> QED
        BY <4>2 DEF KeptFor
    <3>2. \A x \in Sug : \A f : ~Reverting(new, x)
      BY <1>3 DEF Reverting
    <3>3. \A x \in Sug : \A f : row[x] # Absent /\ f \in DOMAIN row[x].patch => f \in DOMAIN row'[x].patch
      BY <2>1
    <3>4. new.made \subseteq req[r].made
      BY Zenon, <1>1
    <3> QED
      BY Zenon, <1>1, <1>2, <1>3, <2>3, <2>4, <3>1, <3>2, <3>3, <3>4, KeptInPlace DEF Whole
  <2>6. Single'
    <3>1. \A p, f : ~Owing(new, p, f)'
      BY <1>3 DEF Owing
    <3>2. /\ \A x \in Sug : ~(req[r].op = "apply" /\ req[r].pc = "record" /\ req[r].sug = x)
          /\ late \subseteq late'
      BY Zenon, <1>1, <1>2
    <3>3. \A x \in req[r].made : x \in new.made \/ row'[x].status \notin {"pending", "applied"}
      BY <1>3
    <3> QED
      BY Zenon, <1>1, <2>3, <2>4, <3>1, <3>2, <3>3, SingleInPlace DEF Whole
  <2> QED
    BY <1>4, <2>5, <2>6
<1> QED
  BY <1>5, <1>6

\* The replacements take the place of their source.
LEMMA ReplacedKeeps ==
  ASSUME Sound, Whole, NEW r \in Request, NEW new, Moves(r, new), Unladen(new),
         req[r].op = "regenerate", req[r].pc = "supersede", Sharing(req[r]),
         NEW s \in Sug, s = req[r].sug, Elsewhere(s),
         row[s] # Absent, row[s].status = "pending", row'[s] # Absent,
         row'[s].status = "superseded",
         row'[s].patch = row[s].patch, row'[s].root = row[s].root,
         offered' = offered, late' = late, \A x \in Sug : Evolves(r, x)
  PROVE  Kept' /\ Single'
<1>1. /\ new.made = {} /\ new.op \notin {"revert", "regenerate"}
      /\ \A p, f : ~Owing(new, p, f)' /\ ~Owing(req[r], p, f)
  BY DEF Unladen, Owing
<1>2. Made = req[r].made /\ Made' = {}
  BY <1>1, MadeIs
<1>3. \A x \in Sug : row[x] = Absent => row'[x] = Absent
  BY DEF Elsewhere
<1>4. DOMAIN row[s].patch = Claimed(req[r])
  BY DEF Whole, Claims, Claim
<1>5. ASSUME NEW c \in req[r].made
      PROVE  /\ c \in Sug /\ c # s /\ row[c] # Absent /\ row'[c] = row[c]
             /\ row[c].status = "pending" /\ row[c].root = row[s].root
             /\ DOMAIN row[c].patch \subseteq DOMAIN row[s].patch
  <2>1. c \in Sug
    BY <1>2 DEF Made
  <2> QED
    BY <1>4, <1>5, <2>1 DEF Sharing, Elsewhere
<1>6. ASSUME NEW c \in req[r].made, NEW f \in DOMAIN row[c].patch
      PROVE  Firm(c, f)'
  <2>1. ~Reopened(c)'
    <3>1. ~Reopened(c)
      <4>1. c # 0
        BY <1>5, BoundAssumption DEF Sug
      <4> QED
        BY <1>5, <4>1 DEF Reopened, Whole, Agreement, Sprung
    <3> QED
      BY <1>3, <1>5, <3>1, ReopenedBy
  <2>2. ASSUME NEW q \in Request
        PROVE  ~Reverting(req'[q], c)
    <3>1. req'[r] = new /\ \A t \in Request \ {r} : req'[t] = req[t]
      BY DEF Sound, Types, Moves
    <3>2. ~Reverting(req[q], c)
      BY <1>5 DEF Reverting, Whole, Claims, Claim
    <3> QED
      BY <1>1, <3>1, <3>2 DEF Reverting
  <2> QED
    BY <1>2, <1>5, <2>1, <2>2 DEF Firm
<1>7. Kept'
  <2>1. ASSUME NEW x \in Sug, NEW p \in Sug, NEW f, Firm(x, f), row[x].root = p,
               ~(row'[x].status \in {"pending", "applied"} /\ f \in DOMAIN row'[x].patch)
        PROVE  KeptFor(p, f)'
    <3>1. x = s /\ f \in DOMAIN row[s].patch
      BY <2>1 DEF Elsewhere, Firm
    <3>2. PICK c \in req[r].made : f \in DOMAIN row[c].patch
      BY <1>4, <3>1 DEF Sharing
    <3>3. Firm(c, f)' /\ c \in Sug /\ row'[c].root = p
      BY <1>5, <1>6, <2>1, <3>1, <3>2
    <3> QED
      BY <3>3 DEF KeptFor
  <2>2. \A x \in Sug : \A f : ~Reverting(new, x)
    BY <1>1 DEF Reverting
  <2>3. \A x \in Sug : \A f : row[x] # Absent /\ f \in DOMAIN row[x].patch => f \in DOMAIN row'[x].patch
    BY DEF Elsewhere
  <2>4. new.made \subseteq req[r].made
    BY <1>1
  <2> QED
    BY <1>1, <1>3, <2>1, <2>2, <2>3, <2>4, KeptInPlace DEF Whole
<1>8. ASSUME NEW p \in Sug \ late', NEW f \in Field
      PROVE  SingleFor(p, f)'
  <2>1. Standing(p, f)' \subseteq Standing(p, f) \ {s}
    <3>1. Standing(p, f)' \subseteq Standing(p, f)
      BY <1>3, StandingShrinks DEF Whole
    <3> QED
      BY <3>1 DEF Standing
  <2>2. \A x, y \in Standing(p, f) \ Made : x = y
    BY DEF Whole, Single, SingleFor
  <2>3. ASSUME NEW x \in Standing(p, f)', x \in req[r].made
        PROVE  s \in Standing(p, f) \ Made
    <3>1. row'[x].root = p /\ f \in DOMAIN row'[x].patch
      BY <2>3 DEF Standing
    <3>2. row[s].root = p /\ f \in DOMAIN row[s].patch
      BY <1>5, <2>3, <3>1
    <3> QED
      BY <1>2, <3>2 DEF Standing, Sharing
  <2>4. ASSUME NEW x \in Standing(p, f)', NEW y \in Standing(p, f)'
        PROVE  x = y
    <3>1. CASE x \in req[r].made /\ y \in req[r].made
      <4>1. f \in DOMAIN row'[x].patch /\ f \in DOMAIN row'[y].patch
        BY <2>4 DEF Standing
      <4> QED
        BY <1>5, <3>1, <4>1 DEF Sharing
    <3>2. CASE x \in req[r].made /\ y \notin req[r].made
      BY <1>2, <2>1, <2>2, <2>3, <3>2
    <3>3. CASE x \notin req[r].made /\ y \in req[r].made
      BY <1>2, <2>1, <2>2, <2>3, <3>3
    <3>4. CASE x \notin req[r].made /\ y \notin req[r].made
      BY <1>2, <2>1, <2>2, <3>4
    <3> QED
      BY <3>1, <3>2, <3>3, <3>4
  <2>5. ~Owed(p, f)'
    BY <1>1, OwedIs
  <2> QED
    BY <2>4, <2>5 DEF SingleFor
<1> QED
  BY <1>7, <1>8 DEF Single

\* The source of a regeneration is superseded, or its replacements are to be.
LEMMA SupersedeKeeps ==
  ASSUME Sound, Whole, ~torn', NEW r \in Request, SupersedeSource(r)
  PROVE  Kept' /\ Single' /\ Children'
<1>1. PICK s, db, new :
        /\ s \in Sug /\ db \in Call
        /\ s = req[r].sug
        /\ Moves(r, new) /\ req[r].op = "regenerate" /\ req[r].pc = "supersede"
        /\ turn = r
        /\ Become("superseded", s, {"pending"}, db)
        /\ torn' = (torn \/ ~Noticed(s, {"pending"}, db))
        /\ \/ Updated(s, {"pending"}, db) /\ Unladen(new)
           \/ /\ ~Updated(s, {"pending"}, db) /\ Proceeds(new, req[r])
              /\ new.pc = "undo" /\ new.made = req[r].made
  BY SupersedeMoves DEF Sound
<1> s \in Sug /\ db \in Call
  BY <1>1
<1>2. "superseded" \in Status /\ Noticed(s, {"pending"}, db)
  BY Zenon, <1>1 DEF Status
<1>3. /\ Elsewhere(s)
      /\ \/ /\ Updated(s, {"pending"}, db) /\ row[s] # Absent /\ row[s].status = "pending"
            /\ row'[s].status = "superseded" /\ row'[s].patch = row[s].patch
            /\ row'[s].root = row[s].root /\ row'[s] # Absent
         \/ ~Updated(s, {"pending"}, db) /\ row' = row
  BY Zenon, <1>1, <1>2, BecomeKnown, RowFields
<1>4. offered' = offered /\ late' = late
  BY DEF SupersedeSource
<1>5. Sharing(req[r])
  BY <1>1 DEF Whole, Children
<1>6. \A x \in Sug : Evolves(r, x)
  BY TableSteps, RowsEvolve DEF Sound, RegenerateStep
<1>7. CASE Updated(s, {"pending"}, db)
  <2>1. Unladen(new)
    BY <1>1, <1>7
  <2>2. Kept' /\ Single'
    BY <1>1, <1>3, <1>4, <1>5, <1>6, <1>7, <2>1, ReplacedKeeps
  <2>3. ~(new.op = "regenerate" /\ new.pc \in MidTurn)
    BY <2>1 DEF Unladen
  <2> QED
    BY <1>1, <2>2, <2>3, ChildrenIdle
<1>8. CASE ~Updated(s, {"pending"}, db)
  <2>1. /\ row' = row /\ Proceeds(new, req[r]) /\ new.pc = "undo" /\ new.made = req[r].made
    BY <1>1, <1>3, <1>8
  <2>2. Kept' /\ Single'
    <3>1. \A p, f : ~Owing(req[r], p, f)
      BY <1>1 DEF Owing
    <3>2. new.op # "revert" /\ new.pc \notin {"rest", "reopen"} /\ late \subseteq late'
      BY <1>1, <1>4, <2>1 DEF Proceeds
    <3> QED
      BY <1>1, <1>4, <2>1, <3>1, <3>2, WholeStatic
  <2>3. Children'
    <3>1. new.sug = req[r].sug /\ Claimed(new) = Claimed(req[r])
      BY <2>1 DEF Proceeds, Claimed
    <3>2. Sharing(new)'
      BY <1>5, <2>1, <3>1 DEF Sharing, Claimed
    <3> QED
      BY <1>1, <3>2, ChildrenBy
  <2> QED
    BY <2>2, <2>3
<1> QED
  BY <1>7, <1>8

-----------------------------------------------------------------------------
(* A row is added.                                                         *)

Added(t, x) ==
  /\ row[t] = Absent /\ cache[t] = Absent /\ \A y \in Sug \ {t} : row'[y] = row[y]
  /\ row'[t] = x /\ x \in Suggestion /\ x # Absent /\ x.status = "pending" /\ x.reopens # t

\* It stands for its fields.
LEMMA NewFirm ==
  ASSUME Sound, Agreement, NEW r \in Request, NEW new, Moves(r, new), new.op # "revert",
         NEW t \in Sug, NEW x, Added(t, x), t \notin new.made, NEW f \in DOMAIN x.patch
  PROVE  Firm(t, f)'
<1>1. ~Reopened(t)'
  <2>1. t # 0
    BY BoundAssumption DEF Sug
  <2> SUFFICES ASSUME NEW y \in Sug, row'[y] # Absent, row'[y].reopens = t
               PROVE  FALSE
    BY DEF Reopened
  <2>2. y # t
    BY DEF Added
  <2>3. Sprung(y)
    BY <2>2 DEF Added, Agreement
  <2> QED
    BY <2>1, <2>2, <2>3 DEF Added, Sprung
<1>2. ASSUME NEW q \in Request
      PROVE  ~Reverting(req'[q], t)
  <2>1. req'[r] = new /\ \A z \in Request \ {r} : req'[z] = req[z]
    BY DEF Sound, Types, Moves
  <2>2. ~Reverting(req[q], t)
    BY DEF Reverting, Sound, Located, About, Known, Get, Added
  <2> QED
    BY <2>1, <2>2 DEF Reverting
<1>3. t \notin Made'
  BY MadeIs
<1> QED
  BY <1>1, <1>2, <1>3 DEF Firm, Added

\* What stood stands on, but for a fix that the new row reopens.
LEMMA KeptCreates ==
  ASSUME Sound, Agreement, Kept, NEW r \in Request, NEW new, Moves(r, new), new.op # "revert",
         \A s \in Sug : Evolves(r, s), NEW t \in Sug, NEW x, Added(t, x),
         new.made \subseteq req[r].made \cup {t},
         \A p \in Sug : \A f \in offered'[p] : f \in offered[p] \/ KeptFor(p, f)',
         \A y \in Sug : \A f : Firm(y, f) /\ x.reopens = y => Firm(t, f)' /\ x.root = row[y].root,
         \A p, f : Owing(req[r], p, f) => Firm(t, f)' /\ x.root = p
  PROVE  Kept'
<1> SUFFICES ASSUME NEW p \in Sug, NEW f \in offered'[p]
             PROVE  KeptFor(p, f)'
  BY DEF Kept
<1>1. CASE KeptFor(p, f)'
  BY <1>1
<1>2. CASE KeptFor(p, f)
  <2>1. CASE \E y \in Sug : Firm(y, f) /\ row[y].root = p
    <3>1. PICK y \in Sug : Firm(y, f) /\ row[y].root = p
      BY <2>1
    <3>2. y # t /\ row'[y] = row[y]
      BY <3>1 DEF Firm, Added
    <3>3. CASE x.reopens = y
      <4>1. Firm(t, f)' /\ row'[t].root = p
        BY <3>1, <3>3 DEF Added
      <4> QED
        BY <4>1 DEF KeptFor
    <3>4. CASE x.reopens # y
      <4>1. \A s \in Sug : row[s] = Absent /\ row'[s] # Absent => row'[s].reopens # y
        BY <3>4 DEF Added
      <4>2. ~Reopened(y)'
        BY <3>1, <4>1, ReopenedBy DEF Firm
      <4>3. y \notin new.made
        BY <3>1, <3>2, MadeIs DEF Firm
      <4>4. /\ row'[y] # Absent /\ row'[y].status \in {"pending", "applied"}
            /\ f \in DOMAIN row'[y].patch /\ ~Reverting(new, y)
        BY <3>1, <3>2 DEF Firm, Reverting
      <4>5. Firm(y, f)'
        BY <3>1, <4>2, <4>3, <4>4, FirmStays
      <4> QED
        BY <3>1, <3>2, <4>5 DEF KeptFor
    <3> QED
      BY <3>3, <3>4
  <2>2. CASE Withdrawn(p, f)
    <3>1. PICK s \in Sug :
            row[s] # Absent /\ row[s].root = p /\ f \in DOMAIN row[s].patch /\ row[s].by # 0
      BY <2>2 DEF Withdrawn
    <3>2. row'[s] = row[s]
      BY <3>1 DEF Added
    <3>3. Withdrawn(p, f)'
      BY <3>1, <3>2 DEF Withdrawn
    <3> QED
      BY <3>3 DEF KeptFor
  <2>3. CASE Owed(p, f)
    <3>1. Owing(req[r], p, f)
      BY <2>3, OwedIs
    <3>2. Firm(t, f)' /\ row'[t].root = p
      BY <3>1 DEF Added
    <3> QED
      BY <3>2 DEF KeptFor
  <2> QED
    BY <1>2, <2>1, <2>2, <2>3 DEF KeptFor
<1> QED
  BY <1>1, <1>2 DEF Kept

\* It does not stand beside another, unless it is to take its place.
LEMMA SingleCreates ==
  ASSUME Sound, Single, NEW r \in Request, NEW new, Moves(r, new), late' = late,
         NEW t \in Sug, NEW x, Added(t, x), req[r].made \subseteq new.made,
         \A p, f : ~Owing(new, p, f)',
         \A f \in DOMAIN x.patch : t \notin new.made /\ x.root \notin late => Standing(x.root, f) = {}
  PROVE  Single'
<1> SUFFICES ASSUME NEW p \in Sug \ late, NEW f \in Field
             PROVE  SingleFor(p, f)'
  BY DEF Single
<1>1. ~Owed(p, f)'
  BY OwedIs
<1>2. ASSUME NEW y \in Standing(p, f)'
      PROVE  y = t \/ y \in Standing(p, f)
  BY <1>2 DEF Standing, Added
<1>3. Made = req[r].made /\ Made' = new.made
  BY MadeIs
<1>4. \A y, z \in Standing(p, f) \ Made : y = z
  BY DEF Single, SingleFor
<1>5. t \in Standing(p, f)' \ Made' => Standing(p, f) = {}
  <2>1. SUFFICES ASSUME t \in Standing(p, f)', t \notin new.made
                 PROVE  Standing(p, f) = {}
    BY <1>3
  <2>2. x.root = p /\ f \in DOMAIN x.patch
    BY <2>1 DEF Standing, Added
  <2> QED
    BY <2>1, <2>2
<1>6. ASSUME NEW y \in Standing(p, f)' \ Made', NEW z \in Standing(p, f)' \ Made'
      PROVE  y = z
  BY <1>2, <1>3, <1>4, <1>5, <1>6
<1> QED
  BY <1>1, <1>6 DEF SingleFor

\* A row that a request creates, while nothing goes unseen.
LEMMA CreateAdds ==
  ASSUME Sound, ~torn', NEW x, Creates(x), x.reopens # 0 => Known(x.reopens)
  PROVE  \E t \in Sug : t = Free /\ Added(t, x) /\ x \in Suggestion /\ \A s \in Sug : Known(s) => s # t
<1>1. x \in Suggestion /\ x.status = "pending"
  BY DEF Creates
<1>2. PICK t \in Sug :
        /\ t = Free /\ row[t] = Absent /\ cache[t] = Absent /\ Elsewhere(t)
        /\ row'[t] = x /\ x # Absent
  BY CreateEffect DEF Sound
<1>3. ~Known(t) /\ t # 0
  BY <1>2, BoundAssumption DEF Known, Get, Sug
<1> HIDE DEF Free
<1>4. Added(t, x)
  BY <1>1, <1>2, <1>3 DEF Added, Elsewhere
<1> QED
  BY <1>1, <1>2, <1>3, <1>4

\* The fields that were not applied stand in a suggestion of their own.
LEMMA RestKeeps ==
  ASSUME Sound, Whole, ~torn', NEW r \in Request, KeepRest(r)
  PROVE  Kept' /\ Single' /\ Children'
<1>1. PICK s, rest, db, new :
        /\ s \in Sug /\ rest \in Patch /\ db \in Call
        /\ s = req[r].sug /\ rest = req[r].rest
        /\ Moves(r, new) /\ Unladen(new)
        /\ req[r].op = "apply" /\ req[r].pc = "rest"
        /\ Known(s) /\ Create(Child(s, rest), db)
  BY KeepRestMoves DEF Sound
<1> s \in Sug /\ rest \in Patch /\ db \in Call
  BY <1>1
<1>2. PICK x : x = Child(s, rest)
  OBVIOUS
<1>3. /\ x \in Suggestion /\ x.status = "pending" /\ x.previous = Absent /\ x.by = 0
      /\ x.patch = rest /\ x.reopens = 0 /\ x.root = row[s].root
  BY <1>1, <1>2, ChildRow, GetRow DEF Sound, Whole
<1>4. Creates(x)
  BY <1>1, <1>2, <1>3 DEF Creates
<1>5. PICK t \in Sug : Added(t, x)
  BY <1>3, <1>4, CreateAdds
<1>6. /\ new.made = {} /\ req[r].made = {} /\ new.op \notin {"revert", "regenerate"}
      /\ \A p, f : ~Owing(new, p, f)'
  BY <1>1, NoMade DEF Unladen, Owing
<1>7. offered' = offered /\ late' = late
  BY DEF KeepRest
<1>8. \A y \in Sug : Evolves(r, y)
  BY TableSteps, RowsEvolve DEF Sound, ApplyStep
<1>9. ASSUME NEW f \in DOMAIN x.patch
      PROVE  Firm(t, f)'
  BY <1>1, <1>5, <1>6, NewFirm DEF Whole
<1>10. \A p, f : Owing(req[r], p, f) <=> f \in DOMAIN x.patch /\ x.root = p
  BY <1>1, <1>3 DEF Owing
<1>11. Kept'
  <2>1. \A y \in Sug : \A f : Firm(y, f) /\ x.reopens = y => Firm(t, f)' /\ x.root = row[y].root
    BY <1>3, BoundAssumption DEF Sug
  <2>2. \A p, f : Owing(req[r], p, f) => Firm(t, f)' /\ x.root = p
    BY <1>9, <1>10
  <2> QED
    BY <1>1, <1>5, <1>6, <1>7, <1>8, <2>1, <2>2, KeptCreates DEF Whole
<1>12. Single'
  <2>1. ASSUME NEW f \in DOMAIN x.patch, x.root \notin late
        PROVE  Standing(x.root, f) = {}
    <3>1. PICK p \in Sug : p = x.root
      BY <1>3, RowFields
    <3>2. Owed(p, f)
      BY <1>1, <1>10, <2>1, <3>1, OwedIs
    <3>3. f \in Field
      BY <1>3, <2>1, PatchFacts
    <3> QED
      BY <2>1, <3>1, <3>2, <3>3 DEF Whole, Single, SingleFor
  <2> QED
    BY <1>1, <1>5, <1>6, <1>7, <2>1, SingleCreates DEF Whole
<1> QED
  BY <1>1, <1>6, <1>11, <1>12, ChildrenIdle

\* A fix that was reverted stands again in a suggestion that reopens it.
LEMMA ReopenKeeps ==
  ASSUME Sound, Whole, ~torn', NEW r \in Request, Reopen(r)
  PROVE  Kept' /\ Single' /\ Children'
<1>1. PICK s, patch, new :
        /\ s \in Sug /\ patch \in Patch
        /\ s = req[r].sug /\ patch = req[r].patch
        /\ Moves(r, new) /\ Unladen(new)
        /\ req[r].op = "revert" /\ req[r].pc = "reopen" /\ Known(s)
        /\ \/ /\ \E t \in Sug : Known(t) /\ Get(t).reopens = s
              /\ UNCHANGED <<row, cache, torn, left>>
           \/ /\ ~\E t \in Sug : Known(t) /\ Get(t).reopens = s
              /\ \E db \in Call : Create([Child(s, patch) EXCEPT !.reopens = s], db)
  BY Zenon, ReopenMoves DEF Sound
<1> s \in Sug /\ patch \in Patch
  BY <1>1
<1>2. /\ new.made = {} /\ req[r].made = {} /\ new.op \notin {"revert", "regenerate"}
      /\ \A p, f : ~Owing(new, p, f)'
  BY <1>1, NoMade DEF Unladen, Owing
<1>3. offered' = offered /\ late' = late
  BY DEF Reopen
<1>4. Reopened(s) <=> \E t \in Sug : Known(t) /\ Get(t).reopens = s
  <2>1. ASSUME NEW t \in Sug, Known(t)
        PROVE  row[t] # Absent /\ Get(t).reopens = row[t].reopens
    BY <2>1, GetRow DEF Whole
  <2>2. \A t \in Sug : row[t] # Absent => Known(t)
    BY TableRows DEF Sound
  <2> QED
    BY <2>1, <2>2 DEF Reopened
<1>5. \A p, f : Owing(req[r], p, f) <=> f \in DOMAIN patch /\ ~Reopened(s) /\ row[s].root = p
  BY <1>1 DEF Owing
<1>6. Children'
  BY <1>1, <1>2, ChildrenIdle
<1>7. CASE Reopened(s)
  <2>1. row' = row /\ \A p, f : ~Owing(req[r], p, f)
    BY <1>1, <1>4, <1>5, <1>7
  <2>2. new.pc \notin {"rest", "reopen"}
    BY <1>1 DEF Unladen, Moves, Places
  <2> QED
    BY Zenon, <1>1, <1>2, <1>3, <1>6, <2>1, <2>2, WholeStatic
<1>8. CASE ~Reopened(s)
  <2>1. PICK x : x = [Child(s, patch) EXCEPT !.reopens = s]
    BY Zenon
  <2>2. /\ x \in Suggestion /\ x.status = "pending" /\ x.previous = Absent /\ x.by = 0
        /\ x.patch = patch /\ x.reopens = s /\ x.root = row[s].root
    BY <1>1, <2>1, ReopenedRow, GetRow DEF Sound, Whole
  <2>3. Creates(x)
    BY <1>1, <1>4, <1>8, <2>1, <2>2 DEF Creates
  <2>4. PICK t \in Sug : Added(t, x)
    BY <1>1, <2>2, <2>3, CreateAdds
  <2>5. \A y \in Sug : Evolves(r, y)
    BY TableSteps, RowsEvolve DEF Sound, RevertStep
  <2>6. ASSUME NEW f \in DOMAIN x.patch
        PROVE  Firm(t, f)'
    BY <1>1, <1>2, <2>4, NewFirm DEF Whole
  <2>7. Kept'
    <3>1. ASSUME NEW y \in Sug, NEW f, Firm(y, f), x.reopens = y
          PROVE  Firm(t, f)' /\ x.root = row[y].root
      <4>1. y = s /\ f \in DOMAIN x.patch
        BY Zenon, <1>1, <2>2, <3>1 DEF Firm, Reverting
      <4> QED
        BY <2>2, <2>6, <4>1
    <3>2. \A p, f : Owing(req[r], p, f) => Firm(t, f)' /\ x.root = p
      BY <1>5, <2>2, <2>6
    <3> QED
      BY <1>1, <1>2, <1>3, <2>4, <2>5, <3>1, <3>2, KeptCreates DEF Whole
  <2>8. Single'
    <3>1. ASSUME NEW f \in DOMAIN x.patch, x.root \notin late
          PROVE  Standing(x.root, f) = {}
      <4>1. PICK p \in Sug : p = x.root
        BY <2>2, RowFields
      <4>2. Owed(p, f)
        BY <1>1, <1>5, <1>8, <2>2, <3>1, <4>1, OwedIs
      <4>3. f \in Field
        BY <2>2, <3>1, PatchFacts
      <4> QED
        BY <3>1, <4>1, <4>2, <4>3 DEF Whole, Single, SingleFor
    <3> QED
      BY <1>1, <1>2, <1>3, <2>4, <3>1, SingleCreates DEF Whole
  <2> QED
    BY <1>6, <2>7, <2>8
<1> QED
  BY <1>7, <1>8

\* A replacement, which does not stand yet, is created.
LEMMA MadeKeeps ==
  ASSUME Sound, Whole, NEW r \in Request, NEW new, Moves(r, new), Proceeds(new, req[r]),
         req[r].op = "regenerate", req[r].pc \in {"generate", "carry"},
         NEW t \in Sug, NEW x, Added(t, x), x.reopens = 0,
         new.made = req[r].made \cup {t}, offered' = offered, late' = late,
         \A y \in Sug : Evolves(r, y)
  PROVE  Kept' /\ Single'
<1>1. /\ new.op = "regenerate"
      /\ \A p, f : ~Owing(new, p, f)' /\ ~Owing(req[r], p, f)
  BY DEF Proceeds, Owing
<1>2. \A y \in Sug : x.reopens # y
  BY BoundAssumption DEF Sug
<1>3. Kept'
  BY <1>1, <1>2, KeptCreates DEF Whole
<1>4. Single'
  BY <1>1, SingleCreates DEF Whole
<1> QED
  BY <1>3, <1>4

\* A field is replaced.
LEMMA ReplaceKeeps ==
  ASSUME Sound, Whole, ~torn', NEW r \in Request, Replace(r)
  PROVE  Kept' /\ Single' /\ Children'
<1>1. PICK free : free = Free
  OBVIOUS
<1>2. PICK s \in Sug, asked \in SUBSET Field : s = req[r].sug /\ asked = req[r].asked
  <2>1. PICK db \in Call : req[r].sug \in Sug
    BY Zenon, ReplaceMoves DEF Sound
  <2> QED
    BY <2>1 DEF Sound, Types, Coroutine
<1>3. PICK patch \in Patch : patch = [f \in asked |-> Fix(free)] /\ DOMAIN patch = asked
  BY Zenon, <1>1, <1>2, ReplaceMoves DEF Sound
<1>4. PICK db, new :
        /\ db \in Call
        /\ Moves(r, new) /\ req[r].op = "regenerate" /\ req[r].pc = "generate"
        /\ Known(s) /\ Create(Child(s, patch), db)
        /\ Proceeds(new, req[r]) /\ new.made = {free}
        /\ new.pc = IF req[r].rest = <<>> THEN "supersede" ELSE "carry"
  <2>1. PICK db, new :
          LET proposed == [f \in req[r].asked |-> Fix(Free)]
          IN  /\ db \in Call
              /\ Moves(r, new) /\ req[r].op = "regenerate" /\ req[r].pc = "generate"
              /\ turn = Nobody
              /\ req[r].sug \in Sug /\ Known(req[r].sug)
              /\ proposed \in Patch /\ DOMAIN proposed = req[r].asked
              /\ Goes(db) /\ Create(Child(req[r].sug, proposed), db)
              /\ Proceeds(new, req[r]) /\ new.made = {Free}
              /\ new.pc = IF req[r].rest = <<>> THEN "supersede" ELSE "carry"
    BY Zenon, ReplaceMoves DEF Sound
  <2>2. Create(Child(s, patch), db)
    BY Zenon, <1>1, <1>2, <1>3, <2>1
  <2> QED
    BY Zenon, <1>1, <1>2, <2>1, <2>2
<1> db \in Call
  BY <1>4
<1>5. PICK x : x = Child(s, patch)
  OBVIOUS
<1>6. /\ x \in Suggestion /\ x.status = "pending" /\ x.previous = Absent /\ x.by = 0
      /\ x.patch = patch /\ x.reopens = 0 /\ x.root = row[s].root
  BY <1>4, <1>5, ChildRow, GetRow DEF Sound, Whole
<1>7. Creates(x)
  BY <1>4, <1>5, <1>6 DEF Creates
<1>8. PICK t \in Sug : t = free /\ Added(t, x) /\ s # t
  BY <1>1, <1>4, <1>6, <1>7, CreateAdds
<1>9. /\ req[r].made = {} /\ new.made = {t}
  BY <1>4, <1>8, NoMade
<1>10. offered' = offered /\ late' = late
  BY DEF Replace
<1>11. \A y \in Sug : Evolves(r, y)
  BY TableSteps, RowsEvolve DEF Sound, RegenerateStep
<1>12. Kept' /\ Single'
  BY <1>4, <1>6, <1>8, <1>9, <1>10, <1>11, MadeKeeps
<1>13. Children'
  <2>1. new.sug = s /\ new.asked = asked /\ Claimed(new) = asked \cup DOMAIN new.rest
    BY <1>2, <1>4 DEF Proceeds, Claimed
  <2>2. row'[s].root = row[s].root /\ row'[t] = x /\ x # Absent
    BY <1>8 DEF Added
  <2>3. new.pc = "supersede" => DOMAIN new.rest = {}
    BY <1>4, NoPatch DEF Proceeds
  <2>4. Sharing(new)'
    BY <1>3, <1>6, <1>8, <1>9, <2>1, <2>2, <2>3 DEF Sharing, Claimed
  <2> QED
    BY <1>4, <2>4, ChildrenBy
<1> QED
  BY <1>12, <1>13

\* The fields that were not asked for are carried into another replacement.
LEMMA CarryKeeps ==
  ASSUME Sound, Whole, ~torn', NEW r \in Request, CarryForward(r)
  PROVE  Kept' /\ Single' /\ Children'
<1>1. PICK free : free = Free
  OBVIOUS
<1>2. PICK s, rest, db, new :
        /\ s \in Sug /\ rest \in Patch /\ db \in Call
        /\ s = req[r].sug /\ rest = req[r].rest
        /\ Moves(r, new) /\ req[r].op = "regenerate" /\ req[r].pc = "carry" /\ turn = r
        /\ Known(s) /\ Create(Child(s, rest), db)
        /\ Proceeds(new, req[r]) /\ new.made = req[r].made \cup {free}
        /\ new.pc = "supersede"
  BY <1>1, CarryMoves DEF Sound
<1> s \in Sug /\ rest \in Patch /\ db \in Call
  BY <1>2
<1>3. PICK x : x = Child(s, rest)
  OBVIOUS
<1>4. /\ x \in Suggestion /\ x.status = "pending" /\ x.previous = Absent /\ x.by = 0
      /\ x.patch = rest /\ x.reopens = 0 /\ x.root = row[s].root
  BY <1>2, <1>3, ChildRow, GetRow DEF Sound, Whole
<1>5. Creates(x)
  BY <1>2, <1>3, <1>4 DEF Creates
<1>6. PICK t \in Sug : t = free /\ Added(t, x) /\ s # t
  BY <1>1, <1>2, <1>4, <1>5, CreateAdds
<1>7. offered' = offered /\ late' = late
  BY DEF CarryForward
<1>8. \A y \in Sug : Evolves(r, y)
  BY TableSteps, RowsEvolve DEF Sound, RegenerateStep
<1>9. Kept' /\ Single'
  BY <1>2, <1>4, <1>6, <1>7, <1>8, MadeKeeps
<1>10. Children'
  <2>1. Sharing(req[r]) /\ req[r].asked \cap DOMAIN rest = {}
    BY <1>2 DEF Whole, Children, Claims, Claim
  <2>2. new.sug = s /\ Claimed(new) = req[r].asked \cup DOMAIN rest
    BY <1>2 DEF Proceeds, Claimed
  <2>3. row'[s].root = row[s].root /\ row'[t] = x /\ x # Absent
    BY <1>6 DEF Added
  <2>4. ASSUME NEW c \in req[r].made
        PROVE  /\ c # t /\ row'[c] = row[c] /\ row[c] # Absent /\ row[c].status = "pending"
               /\ row[c].root = row[s].root /\ DOMAIN row[c].patch = req[r].asked /\ c # s
    <3>1. c \in Sug
      BY <1>2, <2>4, MadeIs DEF Made
    <3> QED
      BY <1>2, <1>6, <2>1, <2>4, <3>1 DEF Sharing, Added
  <2>5. req[r].made # {}
    BY <1>2, <2>1 DEF Sharing
  <2>6. new.made = req[r].made \cup {t}
    BY <1>2, <1>6
  <2>7. Sharing(new)'
    BY <1>2, <1>4, <1>6, <2>1, <2>2, <2>3, <2>4, <2>5, <2>6 DEF Sharing, Claimed
  <2> QED
    BY <1>2, <2>7, ChildrenBy
<1> QED
  BY <1>9, <1>10

\* An audit proposes a fix.
LEMMA ProposeKeeps ==
  ASSUME Sound, Whole, NEW r \in Request, SaveChildren(r)
  PROVE  Kept' /\ Single' /\ Children'
<1>1. PICK t : t = Free
  OBVIOUS
<1>2. PICK fields, db, new :
        /\ fields \in Proposals /\ db \in Call
        /\ Moves(r, new) /\ Proceeds(new, req[r]) /\ new.made = {}
        /\ new.pc \in {"withdraw", "finish", "error"}
        /\ req[r].op = "audit" /\ req[r].pc = "children" /\ req[r].sug \in Audit
        /\ t \in Sug /\ row[t] = Absent /\ cache[t] = Absent
        /\ row' = IF db = "fails" THEN row
                  ELSE [row EXCEPT ![t] = Proposed(t, fields, req[r].sug)]
        /\ offered' = IF db = "fails" THEN offered ELSE [offered EXCEPT ![t] = fields]
  BY <1>1, SaveChildrenMoves DEF Sound
<1> fields \in Proposals /\ db \in Call
  BY <1>2
<1>3. late' = late
  BY DEF SaveChildren
<1>4. /\ req[r].made = {} /\ \A p, f : ~Owing(req[r], p, f) /\ ~Owing(new, p, f)'
      /\ new.op = "audit" /\ new.pc \notin {"rest", "reopen"}
  BY <1>2, NoMade DEF Owing, Proceeds
<1>5. Children'
  <2>1. ~(new.op = "regenerate" /\ new.pc \in MidTurn)
    BY <1>4
  <2> QED
    BY <1>2, <2>1, ChildrenIdle
<1>6. CASE db = "fails"
  <2>1. row' = row /\ offered' = offered /\ late \subseteq late' /\ new.made = req[r].made
    BY <1>2, <1>3, <1>4, <1>6
  <2> QED
    BY Zenon, <1>2, <1>4, <1>5, <2>1, WholeStatic
<1>7. CASE db # "fails"
  <2>1. PICK x : x = Proposed(t, fields, req[r].sug)
    OBVIOUS
  <2>2. /\ x \in Suggestion /\ x.status = "pending" /\ DOMAIN x.patch = fields
        /\ x.root = t /\ x.reopens = 0 /\ x # Absent
    BY <1>2, <2>1, ProposedRow, RowFields
  <2>3. Added(t, x)
    <3>1. t # 0
      BY <1>2, BoundAssumption DEF Sug
    <3>2. row'[t] = x /\ \A y \in Sug \ {t} : row'[y] = row[y]
      BY <1>2, <1>7, <2>1 DEF Sound, Types
    <3> QED
      BY <1>2, <2>2, <3>1, <3>2 DEF Added
  <2>4. \A y \in Sug : Evolves(r, y)
    BY TableSteps, RowsEvolve DEF Sound, AuditStep
  <2>5. ASSUME NEW f \in fields
        PROVE  Firm(t, f)'
    BY <1>2, <1>4, <2>2, <2>3, NewFirm DEF Whole
  <2>6. Kept'
    <3>1. ASSUME NEW p \in Sug, NEW f \in offered'[p], f \notin offered[p]
          PROVE  KeptFor(p, f)'
      <4>1. p = t /\ f \in fields
        BY <1>2, <1>7, <3>1 DEF Sound, Types
      <4>2. Firm(t, f)' /\ row'[t].root = p
        BY <2>2, <2>3, <2>5, <4>1 DEF Added
      <4> QED
        BY <1>2, <4>2 DEF KeptFor
    <3>2. \A y \in Sug : x.reopens # y
      BY <2>2, BoundAssumption DEF Sug
    <3>3. new.op # "revert" /\ new.made \subseteq req[r].made \cup {t}
      BY <1>2, <1>4
    <3> QED
      BY <1>2, <1>4, <2>3, <2>4, <3>1, <3>2, <3>3, KeptCreates DEF Whole
  <2>7. Single'
    <3>1. ASSUME NEW y \in Sug, row[y] # Absent
          PROVE  row[y].root # t
      BY <1>2, <3>1 DEF Whole, Agreement, Sprung
    <3>2. \A f : Standing(x.root, f) = {}
      BY <2>2, <3>1 DEF Standing
    <3>3. req[r].made \subseteq new.made
      BY <1>4
    <3> QED
      BY <1>2, <1>3, <1>4, <2>3, <3>2, <3>3, SingleCreates DEF Whole
  <2> QED
    BY <1>5, <2>6, <2>7
<1> QED
  BY <1>6, <1>7

-----------------------------------------------------------------------------
(* No field of a fix is lost, and none stands twice.                       *)

\* Every step of a request keeps the fixes whole.
LEMMA WholeMoves ==
  ASSUME Sound, Whole, ~torn', NEW r \in Request,
         ApplyStep(r) \/ WriteStep(r) \/ RevertStep(r) \/ RegenerateStep(r) \/ AuditStep(r)
  PROVE  Whole'
<1>1. Agreement' /\ Claims'
  BY AgreementStep, ClaimsStep DEF Whole
<1>2. Kept' /\ Single' /\ Children'
  <2>1. CASE ApplyStep(r)
    BY <2>1, QuietKeeps, ShopKeeps, RecordKeeps, RestKeeps DEF ApplyStep
  <2>2. CASE WriteStep(r)
    BY <2>2, ShopKeeps
  <2>3. CASE RevertStep(r)
    BY <2>3, ShopKeeps, RevertKeeps, ReopenKeeps DEF RevertStep
  <2>4. CASE RegenerateStep(r)
    BY <2>4, QuietKeeps, ReplaceKeeps, CarryKeeps, SupersedeKeeps, UndoKeeps DEF RegenerateStep
  <2>5. CASE AuditStep(r)
    BY <2>5, QuietKeeps, ProposeKeeps, WithdrawKeeps DEF AuditStep
  <2> QED
    BY <2>1, <2>2, <2>3, <2>4, <2>5
<1> QED
  BY <1>1, <1>2 DEF Whole

\* An edit of the merchant touches no fix.
LEMMA WholeEdits ==
  ASSUME Whole, MerchantEdits \/ UNCHANGED vars
  PROVE  Whole'
<1>1. UNCHANGED <<row, cache, req, turn, offered, late>>
  BY DEF MerchantEdits, Table, history, vars
<1>2. Agreement' /\ Claims' /\ Children'
  <2>1. Agreement'
    BY <1>1 DEF Whole, Agreement, Sprung
  <2>2. Claims'
    BY <1>1 DEF Whole, Claims, Claim
  <2>3. Children'
    <3>1. ASSUME NEW q, Sharing(q)
          PROVE  Sharing(q)'
      BY <1>1, <3>1 DEF Sharing
    <3> QED
      BY <1>1, <3>1 DEF Whole, Children
  <2> QED
    BY <2>1, <2>2, <2>3
<1>3. Kept'
  BY <1>1 DEF Whole, Kept, KeptFor, Firm, Made, Reopened, Withdrawn, Owed, Owing
<1>4. Single'
  BY <1>1 DEF Whole, Single, SingleFor, Standing, Made, Owed, Owing, Reopened
<1> QED
  BY <1>2, <1>3, <1>4 DEF Whole

\* A crash while every request awaits loses no fix.
LEMMA WholeRestarts ==
  ASSUME Sound, Whole, Restart, ~torn'
  PROVE  Whole'
<1>1. /\ turn = Nobody /\ turn' = Nobody /\ row' = row /\ offered' = offered /\ late' = late
      /\ \A s \in Sug : cache'[s] = Absent
  BY Zenon DEF Restart
<1>2. \A r \in Request : req'[r] = Idle
  BY RestartTypes DEF Sound
<1>3. Nobody \notin Request
  BY AbsentAssumption
<1>4. Agreement'
  BY <1>1 DEF Whole, Agreement, Sprung
<1>5. Claims'
  <2>1. Idle.op = "none"
    BY DEF Idle
  <2> HIDE DEF Idle
  <2> QED
    BY <1>2, <2>1 DEF Claims, Claim, Alike, Loaded
<1>6. Children'
  BY <1>1, <1>3 DEF Children
<1>7. Made = {} /\ Made' = {} /\ \A p, f : ~Owed(p, f) /\ ~Owed(p, f)'
  BY <1>1 DEF Made, Owed
<1>8. Kept'
  <2>1. \A r \in Request, x \in Sug : ~Reverting(req'[r], x)
    BY <1>2 DEF Reverting, Idle
  <2>2. ASSUME NEW x \in Sug, NEW f, Firm(x, f)
        PROVE  Firm(x, f)'
    BY <1>1, <1>7, <2>1, <2>2 DEF Firm, Reopened
  <2>3. ASSUME NEW p \in Sug, NEW f \in offered[p]
        PROVE  KeptFor(p, f)'
    <3>1. KeptFor(p, f)
      BY <2>3 DEF Whole, Kept
    <3>2. CASE Withdrawn(p, f)
      <4>1. Withdrawn(p, f)'
        BY <1>1, <3>2 DEF Withdrawn
      <4> QED
        BY <4>1 DEF KeptFor
    <3>3. CASE \E x \in Sug : Firm(x, f) /\ row[x].root = p
      BY <1>1, <2>2, <3>3 DEF KeptFor
    <3> QED
      BY <1>7, <3>1, <3>2, <3>3 DEF KeptFor
  <2> QED
    BY <1>1, <2>3 DEF Kept
<1>9. Single'
  BY <1>1, <1>7 DEF Whole, Single, SingleFor, Standing
<1> QED
  BY <1>4, <1>5, <1>6, <1>8, <1>9 DEF Whole

\* What a crash or an unseen failure tore stays torn.
LEMMA TornStays ==
  ASSUME [Next]_vars, torn
  PROVE  torn'
<1>1. CASE \E r \in Request : ApplyStep(r) \/ WriteStep(r)
  BY Zenon, <1>1 DEF ApplyStep, WriteStep, StartApply, StartBulk, StartReviewed, CheckReview,
     LoadSuggestion, ReadShop, RecordApplied, KeepRest, Create, WriteShop, WriteRefused,
     WriteRaises, history
<1>2. CASE \E r \in Request : RevertStep(r)
  BY Zenon, <1>2 DEF RevertStep, StartRevert, CheckDrift, RecordReverted, Reopen, Create, history
<1>3. CASE \E r \in Request : RegenerateStep(r)
  BY Zenon, <1>3 DEF RegenerateStep, StartRegenerate, NothingGenerated, Replace, CarryForward,
     SupersedeSource, UndoChild, Create, history
<1>4. CASE \E r \in Request : AuditStep(r)
  BY Zenon, <1>4 DEF AuditStep, StartAudit, SaveAudit, SaveChildren, SupersedePending, FinishAudit,
     AuditFails, history
<1>5. CASE MerchantEdits \/ Restart \/ UNCHANGED vars
  BY Zenon, <1>5 DEF MerchantEdits, Restart, history, vars
<1> QED
  BY <1>1, <1>2, <1>3, <1>4, <1>5 DEF Next

\* The fixes stay whole.
LEMMA WholeStep == Sound /\ (~torn => Whole) /\ [Next]_vars => (~torn => Whole)'
<1> SUFFICES ASSUME Sound, Whole, ~torn', [Next]_vars
             PROVE  Whole'
  BY TornStays
<1> QED
  BY WholeMoves, WholeEdits, WholeRestarts DEF Next

\* The first fix is whole.
LEMMA WholeInit == Init => Whole
<1> SUFFICES ASSUME Init
             PROVE  Whole
  OBVIOUS
<1>1. PICK fields \in Proposals :
        /\ 1 \in Sug /\ 1 \in Audit /\ fields \in SUBSET Field
        /\ row = [s \in Sug |-> IF s = 1 THEN Proposed(1, fields, 1) ELSE Absent]
        /\ offered = [s \in Sug |-> IF s = 1 THEN fields ELSE {}]
        /\ Proposed(1, fields, 1) \in Suggestion
  BY FirstRow
<1>2. /\ \A s \in Sug : cache[s] = Absent
      /\ turn = Nobody /\ Nobody \notin Request /\ \A r \in Request : req[r].op = "none"
  BY AbsentAssumption DEF Init, Idle
<1>3. /\ row[1] # Absent /\ row[1].status = "pending" /\ DOMAIN row[1].patch = fields
      /\ row[1].root = 1 /\ row[1].reopens = 0
      /\ \A s \in Sug : row[s] # Absent => s = 1
  BY <1>1, RowFields, ProposedRow
<1>4. Agreement
  BY <1>2, <1>3 DEF Agreement, Sprung
<1>5. Claims
  BY <1>2 DEF Claims, Claim, Alike, Loaded
<1>6. Children
  BY <1>2 DEF Children
<1>7. Made = {} /\ \A p, f : ~Owed(p, f)
  BY <1>2 DEF Made, Owed
<1>8. Kept
  <2>1. ~Reopened(1)
    BY <1>1, <1>3, BoundAssumption DEF Reopened
  <2>2. \A f \in fields : Firm(1, f)
    BY <1>1, <1>2, <1>3, <1>7, <2>1 DEF Firm, Reverting
  <2>3. ASSUME NEW p \in Sug, NEW f \in offered[p]
        PROVE  KeptFor(p, f)
    BY <1>1, <1>3, <2>2, <2>3 DEF KeptFor
  <2> QED
    BY <2>3 DEF Kept
<1>9. Single
  BY <1>3, <1>7 DEF Single, SingleFor, Standing
<1> QED
  BY <1>4, <1>5, <1>6, <1>8, <1>9 DEF Whole

\* While no crash cut a request between two awaits and no failed call went unseen, the
\* fixes are whole: the table and the cache agree, requests hold the fields of their row,
\* every field that was offered is kept, and none stands twice.
THEOREM WholeAlways == Spec => [](~torn => Whole)
<1>1. Init => (~torn => Whole)
  BY WholeInit
<1> QED
  BY <1>1, SoundAlways, WholeStep, PTL DEF Spec

\* However applies, reverts and regenerations of a fix overlap, each of its fields stays
\* applied or can be applied, until a newer audit withdraws it.
THEOREM FixesKept == Spec => []NoFixLost
<1>1. (~torn => Whole) => NoFixLost
  <2> SUFFICES ASSUME Whole, turn = Nobody, NEW s \in Sug, NEW f \in offered[s]
               PROVE  Standing(s, f) # {} \/ Withdrawn(s, f)
    BY DEF NoFixLost, Settled
  <2>1. KeptFor(s, f) /\ ~Owed(s, f)
    BY DEF Whole, Kept, Owed
  <2> QED
    BY <2>1 DEF KeptFor, Firm, Standing
<1> QED
  BY <1>1, WholeAlways, PTL

\* and only once, unless an apply came to its end after another request had the fix.
THEOREM FixesNotDoubled == Spec => []NoFixDoubled
<1>1. Sound /\ (~torn => Whole) => NoFixDoubled
  <2> SUFFICES ASSUME Sound, Whole, turn = Nobody, NEW s \in Sug \ late, NEW f \in offered[s]
               PROVE  Cardinality(Standing(s, f)) <= 1
    BY DEF NoFixDoubled, Settled
  <2>1. f \in Field /\ Made = {}
    BY DEF Sound, Types, Made
  <2>2. \A x, y \in Standing(s, f) : x = y
    BY <2>1 DEF Whole, Single, SingleFor
  <2>3. CASE Standing(s, f) = {}
    BY <2>3, FS_EmptySet
  <2>4. CASE Standing(s, f) # {}
    <3>1. PICK x : Standing(s, f) = {x}
      BY <2>2, <2>4
    <3> QED
      BY <3>1, FS_Singleton
  <2> QED
    BY <2>3, <2>4
<1> QED
  BY <1>1, SoundAlways, WholeAlways, PTL
=============================================================================
