---------------------------- MODULE Prices_proofs ----------------------------
(***************************************************************************)
(* Theorems about Prices, for any models, rates, providers and handlers,   *)
(* and whatever the list says.                                             *)
(***************************************************************************)
EXTENDS Prices, TLAPS

-----------------------------------------------------------------------------
(* What a sync decides about one model *)

(* A price that stays moves by nothing. *)
LEMMA SameIsNoMove ==
  ASSUME NEW r \in Rates
  PROVE  ~NeedsAPerson(r, r)
<1>1. \A part \in Parts : r[part] \in Nat
  BY PricesAssumption
<1>2. \A part \in Parts : ~(2 * Distance(r[part], r[part]) > r[part])
  BY <1>1 DEF Distance
<1> QED
  BY <1>2, <1>1 DEF NeedsAPerson

(* The row a sync writes is a row. *)
LEMMA PlannedIsRow ==
  ASSUME NEW m \in Models, synced[m] \in Row, NEW new \in MaybeRate
  PROVE  Planned(m, new) \in Row
BY DEF Planned, Row, MaybeRate

(* What applies to a model, for a row that may be any.                     *)
AppliesOf(row, m) == IF row.rate # NoRate THEN row.rate ELSE shipped[m]

(* The part of HeldIsAQuestion that speaks of one row.                     *)
Asks1(row, m) ==
  row.held # NoRate =>
    /\ AppliesOf(row, m) # NoRate /\ NeedsAPerson(AppliesOf(row, m), row.held)
    /\ row.held # row.rejected

(* The row a sync writes holds a question, if the row before it did.       *)
LEMMA PlannedAsks ==
  ASSUME NEW m \in Models, synced[m] \in Row, NEW new \in MaybeRate, Asks1(synced[m], m)
  PROVE  Asks1(Planned(m, new), m)
<1>1. CASE ApplyIt(m, new)
  <2>1. Planned(m, new) = [rate |-> new, held |-> NoRate, rejected |-> NoRate]
    BY <1>1 DEF Planned, ApplyIt, Unchanged
  <2> QED
    BY <2>1 DEF Asks1
<1>2. CASE Holds(m, new)
  <2>1. Planned(m, new) = [synced[m] EXCEPT !.held = new]
    BY <1>2 DEF Planned, ApplyIt, Holds, Unchanged
  <2>2. AppliesOf(Planned(m, new), m) = Applies(m) /\ Planned(m, new).held = new
        /\ Planned(m, new).rejected = synced[m].rejected
    BY <2>1 DEF AppliesOf, Applies, Row
  <2> QED
    BY <1>2, <2>2 DEF Asks1, Holds, Unchanged
<1>3. CASE Unchanged(m, new)
  <2>1. Planned(m, new) \in {synced[m], [synced[m] EXCEPT !.held = NoRate]}
    BY <1>3 DEF Planned, ApplyIt, Holds
  <2>2. [synced[m] EXCEPT !.held = NoRate].held = NoRate
    BY DEF Row
  <2> QED
    BY <2>1, <2>2 DEF Asks1
<1> QED
  BY <1>1, <1>2, <1>3 DEF ApplyIt

(* A sync that does not apply the price of the list leaves the one that does. *)
LEMMA PlannedKeeps ==
  ASSUME NEW m \in Models, synced[m] \in Row, NEW new \in MaybeRate, ~ApplyIt(m, new)
  PROVE  AppliesOf(Planned(m, new), m) = Applies(m)
<1>1. Planned(m, new) \in {synced[m], [synced[m] EXCEPT !.held = new],
                           [synced[m] EXCEPT !.held = NoRate]}
  BY DEF Planned
<1> QED
  BY <1>1 DEF AppliesOf, Applies, Row

(* A sync leaves a price that applies, or moves it by no more than half.   *)
LEMMA PlannedMovesLittle ==
  ASSUME NEW m \in Models, synced[m] \in Row, NEW new \in MaybeRate,
         shipped[m] \in MaybeRate, Applies(m) # NoRate
  PROVE  ~NeedsAPerson(Applies(m), AppliesOf(Planned(m, new), m))
<1>1. CASE ApplyIt(m, new)
  <2>1. AppliesOf(Planned(m, new), m) = new
    BY <1>1 DEF AppliesOf, Planned, ApplyIt, Unchanged
  <2> QED
    BY <1>1, <2>1 DEF ApplyIt, Holds
<1>2. CASE ~ApplyIt(m, new)
  <2>1. Applies(m) \in Rates
    BY DEF Applies, Row, MaybeRate
  <2> QED
    BY <1>2, <2>1, PlannedKeeps, SameIsNoMove
<1> QED
  BY <1>1, <1>2

-----------------------------------------------------------------------------
(* Type correctness *)

(* What the gateway is built with are prices. *)
LEMMA ComposeIsPrices ==
  ASSUME shipped \in [Models -> MaybeRate], synced \in [Models -> Row],
         manual \in [Providers -> [Models -> MaybeRate]]
  PROVE  Compose \in [Providers -> [Models -> MaybeRate]]
<1>1. \A m \in Models : Applies(m) \in MaybeRate
  BY DEF Applies, Row
<1> QED
  BY <1>1 DEF Compose, MaybeRate

(* A worker that has nothing to do has no prices and no list.              *)
LEMMA NothingIsPrices ==
  /\ NoList \in [Models -> MaybeRate] /\ NoPrices \in [Providers -> [Models -> MaybeRate]]
  /\ Sync \in Jobs /\ NoRow \in Row
<1>1. NoList \in [Models -> MaybeRate]
  BY DEF NoList, MaybeRate
<1> QED
  BY <1>1 DEF NoPrices, Sync, Jobs, NoRow, Row, MaybeRate

(* The types hold at the start. *)
LEMMA InitTypes == Init => TypeOK
<1> SUFFICES ASSUME Init PROVE TypeOK
  OBVIOUS
<1>1. shipped \in [Models -> MaybeRate]
  BY PricesAssumption DEF Init
<1>2. /\ synced \in [Models -> Row] /\ manual \in [Providers -> [Models -> MaybeRate]]
      /\ job \in [Workers -> Jobs] /\ fetched \in [Workers -> [Models -> MaybeRate]]
      /\ built \in [Workers -> [Providers -> [Models -> MaybeRate]]]
  BY NothingIsPrices DEF Init
<1>3. live \in [Providers -> [Models -> MaybeRate]]
  BY <1>1, <1>2, ComposeIsPrices DEF Init
<1>4. refused \in [Models -> MaybeRate]
  BY DEF Init, MaybeRate
<1> QED
  BY <1>1, <1>2, <1>3, <1>4 DEF Init, TypeOK

(* A worker that finishes, and one that goes on, keep their types.         *)
LEMMA FinishesTypes ==
  ASSUME TypeOK, NEW w \in Workers, Finishes(w)
  PROVE  /\ pc' \in [Workers -> {"idle", "lock", "fetch", "plan", "write", "snapshot", "swap",
                                 "orphan"}]
         /\ running' \in Workers \cup {Nobody}
         /\ job' \in [Workers -> Jobs]
         /\ fetched' \in [Workers -> [Models -> MaybeRate]]
         /\ built' \in [Workers -> [Providers -> [Models -> MaybeRate]]]
BY NothingIsPrices DEF TypeOK, Finishes, Goes

(* A worker that goes on keeps its types. *)
LEMMA GoesOnTypes ==
  ASSUME TypeOK, NEW w \in Workers,
         NEW where \in {"lock", "fetch", "plan", "snapshot", "swap", "orphan"},
         GoesOn(w, where)
  PROVE  /\ pc' \in [Workers -> {"idle", "lock", "fetch", "plan", "write", "snapshot", "swap",
                                 "orphan"}]
         /\ running' \in Workers \cup {Nobody}
         /\ job' \in [Workers -> Jobs]
         /\ fetched' \in [Workers -> [Models -> MaybeRate]]
         /\ built' \in [Workers -> [Providers -> [Models -> MaybeRate]]]
BY DEF TypeOK, GoesOn, Goes

(* The table after a sync is a table. *)
LEMMA PlannedTable ==
  ASSUME TypeOK, NEW w \in Workers
  PROVE  /\ [m \in Models |-> Planned(m, fetched[w][m])] \in [Models -> Row]
         /\ [m \in Models |-> IF ApplyIt(m, fetched[w][m]) THEN NoRate ELSE refused[m]]
              \in [Models -> MaybeRate]
<1>1. \A m \in Models : synced[m] \in Row /\ fetched[w][m] \in MaybeRate
  BY DEF TypeOK
<1>2. \A m \in Models : Planned(m, fetched[w][m]) \in Row
  BY <1>1, PlannedIsRow
<1>3. \A m \in Models : refused[m] \in MaybeRate /\ NoRate \in MaybeRate
  BY DEF TypeOK, MaybeRate
<1> QED
  BY <1>2, <1>3

(* Every step of a sync keeps the types. *)
LEMMA SyncTypes ==
  ASSUME TypeOK, NEW w \in Workers, Syncs(w)
  PROVE  TypeOK'
<1>1. CASE Locks(w)
  BY <1>1 DEF TypeOK, Locks, Goes, stored
<1>2. CASE Fetches(w)
  BY <1>2 DEF TypeOK, Fetches, Goes, stored
<1>3. CASE FetchFails(w)
  BY <1>3, FinishesTypes DEF TypeOK, FetchFails, stored
<1>4. CASE Plan(w)
  <2>1. synced' \in [Models -> Row] /\ refused' \in [Models -> MaybeRate]
    BY <1>4, PlannedTable DEF Plan, PlanAll
  <2> QED
    BY <1>4, <2>1, FinishesTypes, GoesOnTypes DEF TypeOK, Plan
<1>5. CASE Snapshot(w)
  <2>1. Compose \in [Providers -> [Models -> MaybeRate]]
    BY ComposeIsPrices DEF TypeOK
  <2> QED
    BY <1>5, <2>1 DEF TypeOK, Snapshot, Goes, stored
<1>6. CASE Swap(w)
  BY <1>6, FinishesTypes DEF TypeOK, Swap, stored
<1> QED
  BY <1>1, <1>2, <1>3, <1>4, <1>5, <1>6 DEF Syncs

(* What a person decides about is a row again. *)
LEMMA SettledIsRow ==
  ASSUME NEW j \in Jobs, j.do \in {"accept", "reject"}, synced \in [Models -> Row]
  PROVE  j.m \in Models /\ Settled(j) \in Row
<1>1. j.m \in Models
  BY DEF Jobs
<1>2. synced[j.m] \in Row
  BY <1>1
<1>3. CASE j.do = "accept"
  <2>1. Settled(j) = [rate |-> synced[j.m].held, held |-> NoRate, rejected |-> NoRate]
    BY <1>3 DEF Settled
  <2> QED
    BY <1>1, <1>2, <2>1 DEF Row, MaybeRate
<1>4. CASE j.do = "reject"
  <2>1. Settled(j) = [synced[j.m] EXCEPT !.held = NoRate, !.rejected = synced[j.m].held]
    BY <1>4 DEF Settled
  <2> QED
    BY <1>1, <1>2, <2>1 DEF Row, MaybeRate
<1> QED
  BY <1>3, <1>4

(* Every step of a handler keeps the types. *)
LEMMA HandlerTypes ==
  ASSUME TypeOK, NEW h \in Handlers, Asks(h) \/ Handles(h) \/ Drop(h) \/ LeaveClosure(h)
  PROVE  TypeOK'
<1>0. h \in Workers /\ job[h] \in Jobs
  BY DEF TypeOK, Workers
<1>1. CASE Asks(h)
  <2>1. PICK j \in Operations : /\ job' = [job EXCEPT ![h] = j]
                                /\ Goes(h, IF j.do = "sync" THEN "lock" ELSE "write")
    BY <1>1 DEF Asks
  <2>2. j \in Jobs
    BY OperationsAssumption
  <2> QED
    BY <1>0, <1>1, <2>1, <2>2 DEF TypeOK, Asks, Goes, stored
<1>2. CASE Settle(h)
  <2>1. synced' \in [Models -> Row]
    BY <1>0, <1>2, SettledIsRow DEF Settle, TypeOK
  <2>2. refused' \in [Models -> MaybeRate]
    <3>1. job[h].m \in Models
      BY <1>0, <1>2, SettledIsRow DEF Settle, TypeOK
    <3>2. synced[job[h].m].held \in MaybeRate /\ NoRate \in MaybeRate
      BY <3>1 DEF TypeOK, Row, MaybeRate
    <3> QED
      BY <1>2, <3>1, <3>2 DEF Settle, TypeOK
  <2> QED
    BY <1>0, <1>2, <2>1, <2>2, FinishesTypes, GoesOnTypes DEF TypeOK, Settle
<1>3. CASE SetByHand(h)
  <2> DEFINE j == job[h]
             rate == IF j.do = "put_price" THEN j.rate ELSE NoRate
  <2>1. j.do \in {"put_price", "delete_price"}
    BY <1>3 DEF SetByHand
  <2>2. j.p \in Providers /\ j.m \in Models /\ rate \in MaybeRate
    BY <1>0, <2>1 DEF Jobs, MaybeRate
  <2>3. manual' = [manual EXCEPT ![j.p][j.m] = rate]
    BY <1>3 DEF SetByHand
  <2>4. manual' \in [Providers -> [Models -> MaybeRate]]
    BY <2>2, <2>3 DEF TypeOK
  <2>5. GoesOn(h, "snapshot")
    BY <1>3 DEF SetByHand
  <2> QED
    BY <1>0, <1>3, <2>4, <2>5, GoesOnTypes DEF TypeOK, SetByHand
<1>4. CASE NotFound(h)
  BY <1>0, <1>4, FinishesTypes DEF TypeOK, NotFound, stored
<1>5. CASE RunsOn(h)
  <2>1. synced' \in [Models -> Row] /\ refused' \in [Models -> MaybeRate]
    BY <1>0, <1>5, PlannedTable DEF RunsOn, PlanAll
  <2> QED
    BY <1>0, <1>5, <2>1, FinishesTypes DEF TypeOK, RunsOn
<1>6. CASE Drop(h)
  BY <1>0, <1>6, FinishesTypes DEF TypeOK, Drop, stored
<1>7. CASE LeaveClosure(h)
  BY <1>0, <1>7 DEF TypeOK, LeaveClosure, Goes, stored
<1> QED
  BY <1>1, <1>2, <1>3, <1>4, <1>5, <1>6, <1>7 DEF Handles

(* Every step keeps the types. *)
LEMMA StepTypes == TypeOK /\ [Next]_vars => TypeOK'
<1> SUFFICES ASSUME TypeOK, [Next]_vars PROVE TypeOK'
  OBVIOUS
<1>1. CASE ListChanges
  <2>1. list' \in [Models -> MaybeRate]
    BY <1>1 DEF ListChanges, TypeOK
  <2> QED
    BY <1>1, <2>1 DEF TypeOK, ListChanges, stored
<1>2. CASE ComesRound
  <2>1. Schedule \in Workers
    BY DEF Workers
  <2> QED
    BY <1>2, <2>1, GoesOnTypes DEF TypeOK, ComesRound, stored, AtWork, Quiet
<1>3. CASE \E w \in Workers : Syncs(w)
  BY <1>3, SyncTypes
<1>4. CASE \E h \in Handlers : Asks(h) \/ Handles(h) \/ Drop(h) \/ LeaveClosure(h)
  BY <1>4, HandlerTypes
<1>5. CASE UNCHANGED vars
  BY <1>5 DEF TypeOK, vars
<1> QED
  BY <1>1, <1>2, <1>3, <1>4, <1>5 DEF Next

(* Every variable keeps its type, whatever the list, the person and the    *)
(* workers do: the columns of a price row are rates or nothing.            *)
THEOREM TypeCorrect == Spec => []TypeOK
<1>1. Init => TypeOK
  BY InitTypes
<1>2. TypeOK /\ [Next]_vars => TypeOK'
  BY StepTypes
<1> QED
  BY <1>1, <1>2, PTL DEF Spec

-----------------------------------------------------------------------------
(* What is held *)

(* What a person refused last since a price was last applied is what the   *)
(* row says was refused: no sync, reload or late closure loses it or brings*)
(* an older one back.                                                      *)
Remembered == \A m \in Models : synced[m].rejected = refused[m]

(* HeldIsAQuestion speaks of each row by itself. *)
LEMMA HeldByRow ==
  Remembered => (HeldIsAQuestion <=> \A m \in Models : Asks1(synced[m], m))
BY DEF Remembered, HeldIsAQuestion, Asks1, AppliesOf, Applies

(* The table changes in three steps only. *)
LEMMA TableChanges ==
  ASSUME TypeOK, [Next]_vars
  PROVE  \/ UNCHANGED <<synced, refused>>
         \/ \E w \in Workers : PlanAll(w)
         \/ \E h \in Handlers : Settle(h)
<1>1. CASE \E w \in Workers : Syncs(w)
  BY <1>1 DEF Syncs, Locks, Fetches, FetchFails, Plan, Snapshot, Swap, stored
<1>2. CASE \E h \in Handlers : Asks(h) \/ Handles(h) \/ Drop(h) \/ LeaveClosure(h)
  BY <1>2 DEF Asks, Handles, SetByHand, NotFound, RunsOn, Drop, LeaveClosure, stored, Workers
<1>3. CASE ListChanges \/ ComesRound \/ UNCHANGED vars
  BY <1>3 DEF ListChanges, ComesRound, vars, stored
<1> QED
  BY <1>1, <1>2, <1>3 DEF Next

(* The image's table is not written. *)
LEMMA ShippedStays == [Next]_vars => UNCHANGED shipped
BY DEF Next, vars, ListChanges, ComesRound, Syncs, Locks, Fetches, FetchFails, Plan, Snapshot,
       Swap, Asks, Handles, Settle, SetByHand, NotFound, RunsOn, Drop, LeaveClosure

(* What a person decides leaves nothing held, and a refusal what applies.  *)
LEMMA SettleLeaves ==
  ASSUME TypeOK, NEW h \in Handlers, Settle(h)
  PROVE  /\ job[h].m \in Models /\ synced' = [synced EXCEPT ![job[h].m] = Settled(job[h])]
         /\ Settled(job[h]).held = NoRate
         /\ job[h].do = "reject" => Settled(job[h]).rate = synced[job[h].m].rate
         /\ job[h].do = "accept" => job[h] = [do |-> "accept", m |-> job[h].m]
         /\ job[h].do \in {"accept", "reject"}
<1>1. job[h] \in Jobs /\ job[h].do \in {"accept", "reject"}
  BY DEF TypeOK, Settle, Workers
<1>2. job[h].m \in Models /\ synced[job[h].m] \in Row
  BY <1>1 DEF Jobs, TypeOK
<1>3. job[h].do = "accept" => job[h] = [do |-> "accept", m |-> job[h].m]
  BY <1>1 DEF Jobs
<1>4. CASE job[h].do = "accept"
  <2>1. Settled(job[h]) = [rate |-> synced[job[h].m].held, held |-> NoRate,
                           rejected |-> NoRate]
    BY <1>4 DEF Settled
  <2> QED
    BY <1>1, <1>2, <1>3, <1>4, <2>1 DEF Settle
<1>5. CASE job[h].do = "reject"
  <2>1. Settled(job[h]) = [synced[job[h].m] EXCEPT !.held = NoRate,
                                                  !.rejected = synced[job[h].m].held]
    BY <1>5 DEF Settled
  <2>2. Settled(job[h]).held = NoRate /\ Settled(job[h]).rate = synced[job[h].m].rate
    BY <1>2, <2>1 DEF Row
  <2> QED
    BY <1>1, <1>2, <1>5, <2>2 DEF Settle
<1> QED
  BY <1>1, <1>4, <1>5

(* A sync forgets what was refused when it applies a price, in the row and *)
(* in the history alike, and a person's answer sets both.                  *)
LEMMA StepRemembers == TypeOK /\ Remembered /\ [Next]_vars => Remembered'
<1> SUFFICES ASSUME TypeOK, Remembered, [Next]_vars PROVE Remembered'
  OBVIOUS
<1>1. CASE UNCHANGED <<synced, refused>>
  BY <1>1 DEF Remembered
<1>2. ASSUME NEW w \in Workers, PlanAll(w) PROVE Remembered'
  <2> SUFFICES ASSUME NEW m \in Models PROVE synced'[m].rejected = refused'[m]
    BY DEF Remembered
  <2>1. synced'[m] = Planned(m, fetched[w][m])
    BY <1>2 DEF PlanAll
  <2>2. refused'[m] = IF ApplyIt(m, fetched[w][m]) THEN NoRate ELSE refused[m]
    BY <1>2 DEF PlanAll
  <2>3. synced[m] \in Row /\ synced[m].rejected = refused[m]
    BY DEF TypeOK, Remembered
  <2>4. CASE ApplyIt(m, fetched[w][m])
    <3>1. Planned(m, fetched[w][m]) =
            [rate |-> fetched[w][m], held |-> NoRate, rejected |-> NoRate]
      BY <2>4 DEF Planned, ApplyIt, Unchanged
    <3> QED
      BY <2>1, <2>2, <2>4, <3>1
  <2>5. CASE ~ApplyIt(m, fetched[w][m])
    <3>1. Planned(m, fetched[w][m]) \in
            {synced[m], [synced[m] EXCEPT !.held = fetched[w][m]],
             [synced[m] EXCEPT !.held = NoRate]}
      BY <2>5 DEF Planned
    <3>2. Planned(m, fetched[w][m]).rejected = synced[m].rejected
      BY <2>3, <3>1 DEF Row
    <3> QED
      BY <2>1, <2>2, <2>3, <2>5, <3>2
  <2> QED
    BY <2>4, <2>5
<1>3. ASSUME NEW h \in Handlers, Settle(h) PROVE Remembered'
  <2> DEFINE n == job[h].m
  <2>1. n \in Models /\ synced' = [synced EXCEPT ![n] = Settled(job[h])]
        /\ job[h].do \in {"accept", "reject"} /\ synced[n] \in Row
    BY <1>3, SettleLeaves DEF TypeOK
  <2>2. refused' = [refused EXCEPT ![n] =
                      IF job[h].do = "reject" THEN synced[n].held ELSE NoRate]
    BY <1>3 DEF Settle
  <2>3. Settled(job[h]).rejected = IF job[h].do = "reject" THEN synced[n].held ELSE NoRate
    <3>1. CASE job[h].do = "accept"
      BY <3>1 DEF Settled
    <3>2. CASE job[h].do = "reject"
      BY <2>1, <3>2 DEF Settled, Row
    <3> QED
      BY <2>1, <3>1, <3>2
  <2> HIDE DEF n
  <2> QED
    BY <2>1, <2>2, <2>3 DEF TypeOK, Remembered
<1> QED
  BY <1>1, <1>2, <1>3, TableChanges

(* What is held stays a question: a sync asks one, and a person's answer   *)
(* leaves none.                                                            *)
LEMMA StepAsks ==
  TypeOK /\ Remembered /\ HeldIsAQuestion /\ [Next]_vars => HeldIsAQuestion'
<1> SUFFICES ASSUME TypeOK, \A m \in Models : Asks1(synced[m], m), [Next]_vars
             PROVE  \A m \in Models : Asks1(synced'[m], m)
  BY HeldByRow, StepRemembers, ShippedStays
     DEF Remembered, HeldIsAQuestion, Asks1, AppliesOf, Applies
<1>1. CASE UNCHANGED <<synced, refused>>
  BY <1>1
<1>2. ASSUME NEW w \in Workers, PlanAll(w)
      PROVE  \A m \in Models : Asks1(synced'[m], m)
  <2>1. \A m \in Models : synced[m] \in Row /\ fetched[w][m] \in MaybeRate
    BY DEF TypeOK
  <2> QED
    BY <1>2, <2>1, PlannedAsks DEF PlanAll
<1>3. ASSUME NEW h \in Handlers, Settle(h)
      PROVE  \A m \in Models : Asks1(synced'[m], m)
  <2>1. Asks1(Settled(job[h]), job[h].m)
    BY <1>3, SettleLeaves DEF Asks1
  <2>2. \A m \in Models : synced'[m] = IF m = job[h].m THEN Settled(job[h]) ELSE synced[m]
    BY ZenonT(40), <1>3, SettleLeaves DEF TypeOK
  <2> QED
    BY <2>1, <2>2
<1> QED
  BY <1>1, <1>2, <1>3, TableChanges

(* A price that waits for a person is a large move from the price that     *)
(* applies now, and not the one that was refused last, however syncs,      *)
(* answers and changes of the list come after one another.                 *)
THEOREM HeldIsAQuestionTheorem == Spec => []HeldIsAQuestion
<1>1. Init => TypeOK /\ Remembered /\ HeldIsAQuestion
  BY InitTypes DEF Init, Remembered, HeldIsAQuestion, NoRow
<1>2. TypeOK /\ Remembered /\ HeldIsAQuestion /\ [Next]_vars
      => TypeOK' /\ Remembered' /\ HeldIsAQuestion'
  BY StepTypes, StepRemembers, StepAsks
<1> QED
  BY <1>1, <1>2, PTL DEF Spec

(* No step but a person's answer moves a price far. *)
LEMMA StepWaits ==
  ASSUME TypeOK, [Next]_vars, NEW m \in Models,
         Applies(m) # NoRate, NeedsAPerson(Applies(m), Applies(m)')
  PROVE  \E h \in Handlers : Settle(h) /\ job[h] = [do |-> "accept", m |-> m]
<1>1. synced[m] \in Row /\ shipped[m] \in MaybeRate /\ Applies(m) \in Rates
  BY DEF TypeOK, Applies, Row, MaybeRate
<1>2. Applies(m)' = AppliesOf(synced'[m], m)
  BY ShippedStays DEF Applies, AppliesOf
<1>3. Applies(m)' # Applies(m)
  BY <1>1, SameIsNoMove
<1>4. CASE UNCHANGED <<synced, refused>>
  BY <1>2, <1>3, <1>4 DEF Applies, AppliesOf
<1>5. CASE \E w \in Workers : PlanAll(w)
  <2>1. PICK w \in Workers : synced' = [n \in Models |-> Planned(n, fetched[w][n])]
    BY <1>5 DEF PlanAll
  <2>2. synced'[m] = Planned(m, fetched[w][m]) /\ fetched[w][m] \in MaybeRate
    BY <2>1 DEF TypeOK
  <2> QED
    BY <1>1, <1>2, <2>2, PlannedMovesLittle
<1>6. CASE \E h \in Handlers : Settle(h)
  <2>1. PICK h \in Handlers : Settle(h)
    BY <1>6
  <2>2. synced'[m] = IF m = job[h].m THEN Settled(job[h]) ELSE synced[m]
    BY ZenonT(40), <2>1, SettleLeaves DEF TypeOK
  <2>3. m = job[h].m
    BY <1>2, <1>3, <2>2 DEF Applies, AppliesOf
  <2>4. job[h].do # "reject"
    BY <1>2, <1>3, <2>1, <2>2, <2>3, SettleLeaves DEF Applies, AppliesOf
  <2> QED
    BY <2>1, <2>3, <2>4, SettleLeaves
<1> QED
  BY <1>4, <1>5, <1>6, TableChanges

(* A price that applies moves by more than half, or to nothing, only when  *)
(* somebody accepts that: no sync does it, late or beside another.         *)
THEOREM LargeMovesWaitTheorem == Spec => LargeMovesWait
<1> DEFINE Waits == \A m \in Models :
       (Applies(m) # NoRate /\ NeedsAPerson(Applies(m), Applies(m)')) =>
         \E h \in Handlers : Settle(h) /\ job[h] = [do |-> "accept", m |-> m]
<1>1. TypeOK /\ [Next]_vars => [Waits]_vars
  BY StepWaits
<1>2. Spec => [][Waits]_vars
  BY <1>1, TypeCorrect, PTL DEF Spec
<1> QED
  BY <1>2 DEF LargeMovesWait

-----------------------------------------------------------------------------
(* What is served *)

(* With one worker at a time, the one at work is the only one that knows   *)
(* of a price the gateway does not charge: it is about to read the store,  *)
(* or has read what the store says.                                        *)
Serving ==
  ~overlapped =>
    /\ \A v, w \in Workers : AtWork(v) /\ AtWork(w) => v = w
    /\ \A w \in Workers : pc[w] # "orphan"
    /\ (\A w \in Workers : pc[w] \notin {"snapshot", "swap"}) => live = Compose
    /\ \A w \in Workers : pc[w] = "swap" => built[w] = Compose

(* Where the workers are after one of them finishes, or goes somewhere.    *)
LEMMA Elsewhere ==
  ASSUME TypeOK, NEW w \in Workers, NEW where, Goes(w, where)
  PROVE  \A v \in Workers : pc'[v] = IF v = w THEN where ELSE pc[v]
BY DEF TypeOK, Goes

(* The prices built stay the same when what they are built from does.      *)
LEMMA ComposeStays ==
  ASSUME UNCHANGED manual, \A m \in Models : Applies(m)' = Applies(m)
  PROVE  Compose' = Compose
BY DEF Compose

(* Nothing but a sync that applies a price, or a person's, changes what    *)
(* the gateway should charge.                                              *)
LEMMA StoredStays ==
  ASSUME UNCHANGED <<shipped, synced, manual>>
  PROVE  Compose' = Compose
BY ComposeStays DEF Applies

(* A sync that applies nothing leaves what should be charged.              *)
LEMMA PlanStays ==
  ASSUME TypeOK, NEW w \in Workers, Plan(w), ~Reloads(w)
  PROVE  Compose' = Compose
<1>1. \A m \in Models : synced[m] \in Row /\ fetched[w][m] \in MaybeRate
  BY DEF TypeOK
<1>2. \A m \in Models : Applies(m)' = AppliesOf(Planned(m, fetched[w][m]), m)
  BY DEF Plan, PlanAll, Applies, AppliesOf
<1>3. \A m \in Models : ~ApplyIt(m, fetched[w][m])
  BY DEF Reloads, AppliesAny
<1>4. \A m \in Models : Applies(m)' = Applies(m)
  BY <1>1, <1>2, <1>3, PlannedKeeps
<1> QED
  BY <1>4, ComposeStays DEF Plan

(* A refusal leaves what should be charged. *)
LEMMA RefusalStays ==
  ASSUME TypeOK, NEW h \in Handlers, Settle(h), job[h].do # "accept"
  PROVE  Compose' = Compose
<1>1. \A m \in Models : synced'[m] = IF m = job[h].m THEN Settled(job[h]) ELSE synced[m]
  <2>1. synced' = [synced EXCEPT ![job[h].m] = Settled(job[h])]
    BY SettleLeaves
  <2>2. synced \in [Models -> Row]
    BY DEF TypeOK
  <2> QED
    BY <2>1, <2>2
<1>2. \A m \in Models : synced'[m].rate = synced[m].rate
  <2>1. Settled(job[h]).rate = synced[job[h].m].rate
    BY SettleLeaves
  <2> SUFFICES ASSUME NEW m \in Models PROVE synced'[m].rate = synced[m].rate
    OBVIOUS
  <2> QED
    BY <1>1, <2>1
<1>3. \A m \in Models : Applies(m)' = Applies(m)
  BY <1>2 DEF Applies, Settle
<1> QED
  BY <1>3, ComposeStays DEF Settle

(* Every step of a sync keeps Serving. *)
LEMMA SyncServes ==
  ASSUME TypeOK, Serving, NEW w \in Workers, Syncs(w)
  PROVE  Serving'
<1> SUFFICES ASSUME ~overlapped PROVE Serving'
  BY DEF Serving, Syncs, Locks, Fetches, FetchFails, Plan, Snapshot, Swap
<1>1. AtWork(w)
  BY DEF AtWork, Syncs, Locks, Fetches, FetchFails, Plan, Snapshot, Swap
<1>2. \A v \in Workers \ {w} : pc[v] = "idle"
  BY <1>1 DEF Serving, AtWork
<1>3. CASE Locks(w)
  <2>1. Compose' = Compose
    BY <1>3, StoredStays DEF Locks, stored
  <2>2. \A v \in Workers : pc'[v] = IF v = w THEN "fetch" ELSE pc[v]
    BY <1>3, Elsewhere DEF Locks
  <2> QED
    BY <1>2, <1>3, <2>1, <2>2 DEF Serving, AtWork, Locks
<1>4. CASE Fetches(w)
  <2>1. Compose' = Compose
    BY <1>4, StoredStays DEF Fetches, stored
  <2>2. \A v \in Workers : pc'[v] = IF v = w THEN "plan" ELSE pc[v]
    BY <1>4, Elsewhere DEF Fetches
  <2> QED
    BY <1>2, <1>4, <2>1, <2>2 DEF Serving, AtWork, Fetches
<1>5. CASE FetchFails(w)
  <2>1. Compose' = Compose
    BY <1>5, StoredStays DEF FetchFails, stored
  <2>2. \A v \in Workers : pc'[v] = IF v = w THEN "idle" ELSE pc[v]
    BY <1>5, Elsewhere DEF FetchFails, Finishes
  <2> QED
    BY <1>2, <1>5, <2>1, <2>2 DEF Serving, AtWork, FetchFails
<1>6. CASE Plan(w) /\ Reloads(w)
  <2>1. \A v \in Workers : pc'[v] = IF v = w THEN "snapshot" ELSE pc[v]
    BY <1>6, Elsewhere DEF Plan, GoesOn
  <2> QED
    BY <1>2, <1>6, <2>1 DEF Serving, AtWork, Plan
<1>7. CASE Plan(w) /\ ~Reloads(w)
  <2>1. Compose' = Compose
    BY <1>7, PlanStays
  <2>2. \A v \in Workers : pc'[v] = IF v = w THEN "idle" ELSE pc[v]
    BY <1>7, Elsewhere DEF Plan, Finishes
  <2> QED
    BY <1>2, <1>7, <2>1, <2>2 DEF Serving, AtWork, Plan
<1>8. CASE Snapshot(w)
  <2>1. Compose' = Compose
    BY <1>8, StoredStays DEF Snapshot, stored
  <2>2. \A v \in Workers : pc'[v] = IF v = w THEN "swap" ELSE pc[v]
    BY <1>8, Elsewhere DEF Snapshot
  <2>3. built'[w] = Compose
    BY <1>8 DEF Snapshot, TypeOK
  <2> QED
    BY <1>2, <1>8, <2>1, <2>2, <2>3 DEF Serving, AtWork, Snapshot
<1>9. CASE Swap(w)
  <2>1. Compose' = Compose
    BY <1>9, StoredStays DEF Swap, stored
  <2>2. \A v \in Workers : pc'[v] = IF v = w THEN "idle" ELSE pc[v]
    BY <1>9, Elsewhere DEF Swap, Finishes
  <2>3. live' = Compose
    BY <1>9 DEF Swap, Serving
  <2> QED
    BY <1>2, <1>9, <2>1, <2>2, <2>3 DEF Serving, AtWork, Swap
<1> QED
  BY <1>3, <1>4, <1>5, <1>6, <1>7, <1>8, <1>9 DEF Syncs

(* Every step of a handler keeps Serving. *)
LEMMA HandlerServes ==
  ASSUME TypeOK, Serving, NEW h \in Handlers,
         Asks(h) \/ Handles(h) \/ Drop(h) \/ LeaveClosure(h)
  PROVE  Serving'
<1>0. h \in Workers
  BY DEF Workers
<1>1. CASE Asks(h)
  <2>1. Compose' = Compose
    BY <1>1, StoredStays DEF Asks, stored
  <2>2. PICK where \in {"lock", "write"} : Goes(h, where)
    BY <1>1 DEF Asks
  <2>3. \A v \in Workers : pc'[v] = IF v = h THEN where ELSE pc[v]
    BY <1>0, <2>2, Elsewhere
  <2>4. ~overlapped' => ~overlapped /\ \A v \in Workers : pc[v] = "idle"
    BY <1>1 DEF Asks, Quiet, AtWork
  <2> QED
    BY <1>1, <2>1, <2>3, <2>4 DEF Serving, AtWork, Asks
<1>2. CASE Drop(h) \/ LeaveClosure(h)
  BY <1>2 DEF Serving, Drop, LeaveClosure
<1>3. CASE Handles(h)
  <2> SUFFICES ASSUME ~overlapped PROVE Serving'
    BY <1>3 DEF Serving, Handles, Settle, SetByHand, NotFound, RunsOn
  <2>1. ~RunsOn(h)
    BY <1>0 DEF Serving, RunsOn
  <2>2. AtWork(h) /\ pc[h] = "write"
    BY <1>3, <2>1 DEF AtWork, Handles, Settle, SetByHand, NotFound
  <2>3. \A v \in Workers \ {h} : pc[v] = "idle"
    BY <1>0, <2>2 DEF Serving, AtWork
  <2>4. CASE SetByHand(h) \/ (Settle(h) /\ job[h].do = "accept")
    <3>1. \A v \in Workers : pc'[v] = IF v = h THEN "snapshot" ELSE pc[v]
      BY <1>0, <2>4, Elsewhere DEF SetByHand, Settle, GoesOn
    <3> QED
      BY <1>0, <2>3, <2>4, <3>1 DEF Serving, AtWork, SetByHand, Settle
  <2>5. CASE NotFound(h) \/ (Settle(h) /\ job[h].do # "accept")
    <3>1. Compose' = Compose
      BY <2>5, StoredStays, RefusalStays DEF NotFound, stored
    <3>2. \A v \in Workers : pc'[v] = IF v = h THEN "idle" ELSE pc[v]
      BY <1>0, <2>5, Elsewhere DEF NotFound, Settle, Finishes
    <3> QED
      BY <1>0, <2>2, <2>3, <2>5, <3>1, <3>2 DEF Serving, AtWork, NotFound, Settle
  <2> QED
    BY <1>3, <2>1, <2>4, <2>5 DEF Handles
<1> QED
  BY <1>1, <1>2, <1>3

(* Every step keeps Serving. *)
LEMMA StepServes == TypeOK /\ Serving /\ [Next]_vars => Serving'
<1> SUFFICES ASSUME TypeOK, Serving, [Next]_vars PROVE Serving'
  OBVIOUS
<1>1. CASE ListChanges
  <2>1. Compose' = Compose
    BY <1>1, StoredStays DEF ListChanges, stored
  <2> QED
    BY <1>1, <2>1 DEF Serving, AtWork, ListChanges
<1>2. CASE ComesRound
  <2>1. Compose' = Compose
    BY <1>2, StoredStays DEF ComesRound, stored
  <2>2. \A v \in Workers : pc'[v] = IF v = Schedule THEN "lock" ELSE pc[v]
    BY <1>2, Elsewhere DEF ComesRound, GoesOn, Workers
  <2>3. ~overlapped' => ~overlapped /\ \A v \in Workers : pc[v] = "idle"
    BY <1>2 DEF ComesRound, Quiet, AtWork
  <2> QED
    BY <1>2, <2>1, <2>2, <2>3 DEF Serving, AtWork, ComesRound
<1>3. CASE UNCHANGED vars
  <2>1. Compose' = Compose
    BY <1>3, StoredStays DEF vars
  <2> QED
    BY <1>3, <2>1 DEF Serving, AtWork, vars
<1> QED
  BY <1>1, <1>2, <1>3, SyncServes, HandlerServes DEF Next

(* With one worker at a time and none dropped, what is charged is what the *)
(* store says once all is quiet: every change that applies is served.      *)
THEOREM ServedAsStoredTheorem == Spec => []ServedAsStored
<1>1. Init => TypeOK /\ Serving
  BY InitTypes DEF Init, Serving, AtWork
<1>2. TypeOK /\ Serving /\ [Next]_vars => TypeOK' /\ Serving'
  BY StepTypes, StepServes
<1>3. Serving => ServedAsStored
  BY DEF Serving, ServedAsStored, Quiet, AtWork
<1> QED
  BY <1>1, <1>2, <1>3, PTL DEF Spec
==============================================================================
