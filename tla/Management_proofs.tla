------------------------- MODULE Management_proofs -------------------------
(***************************************************************************)
(* Theorems about Management, for any providers, models and route sets, any*)
(* number of handlers at once, and any handler dropped anywhere.           *)
(***************************************************************************)
EXTENDS Management, Lists_proofs

-----------------------------------------------------------------------------
(* Operations and rows *)

Dos == {"create_provider", "update_provider", "delete_provider", "put_model",
        "delete_model", "put_route", "delete_route"}

(* An operation has the fields of what it does. *)
LEMMA OperationIs ==
  ASSUME NEW o \in Operations
  PROVE  /\ o.do \in Dos
         /\ o.do = "create_provider" =>
              /\ o.p \in Providers /\ o.type \in Types
              /\ o.enabled \in BOOLEAN /\ o.key \in Keys \cup {NoKey}
         /\ o.do = "update_provider" =>
              /\ o.p \in Providers /\ o.enabled \in BOOLEAN \cup {Absent}
              /\ o.key \in Keys \cup {NoKey, Absent}
         /\ o.do = "delete_provider" => o.p \in Providers
         /\ o.do = "put_model" =>
              /\ o.m \in Models /\ o.enabled \in BOOLEAN \cup {Absent}
              /\ o.kind \in Kinds \cup {Absent} /\ o.known \in BOOLEAN \cup {Absent}
         /\ o.do = "delete_model" => o.m \in Models
         /\ o.do = "put_route" => o.n \in Names /\ o.routes \in Seq(Models)
         /\ o.do = "delete_route" => o.n \in Names
<1>1. CASE o.do = "put_route"
  BY <1>1, ManagementAssumption DEF Dos
<1>2. CASE o.do # "put_route"
  <2>1. o \in OperationKinds
    BY <1>2, ManagementAssumption
  <2>. QED
    BY <1>2, <2>1 DEF OperationKinds, Dos
<1>. QED
  BY <1>1, <1>2

(* A change leaves a row a row, and one that is there is there. *)
LEMMA ChangedIsRow ==
  ASSUME NEW o \in Operations, o.do = "update_provider", NEW row \in ProviderRow
  PROVE  Changed(o, row) \in ProviderRow /\ Changed(o, row).there = row.there
BY OperationIs DEF Changed, Or, ProviderRow

(* A model changed by an operation is a row. *)
LEMMA ModelChangedIsRow ==
  ASSUME NEW o \in Operations, o.do = "put_model", NEW row \in ModelRow
  PROVE  ModelChanged(o, row) \in ModelRow /\ ModelChanged(o, row).there
BY OperationIs DEF ModelChanged, Or, ModelRow

(* What a write leaves in the store are rows. *)
LEMMA RowsAreRows ==
  NoProvider \in ProviderRow /\ NoModel \in ModelRow
<1>1. (CHOOSE t \in Types : TRUE) \in Types
  BY GatewayAssumption
<1>. QED
  BY <1>1, GatewayAssumption DEF NoProvider, NoModel, ProviderRow, ModelRow, NoKey

-----------------------------------------------------------------------------
(* The inductive invariant *)

(* A handler that was asked something knows what. *)
Asked == \A h \in Handlers : pc[h] # "idle" => op[h] \in Operations

(* The row a handler is about to write is whole: it was checked when it was*)
(* read, or when the request came in.                                      *)
MergedIsWhole ==
  \A h \in Handlers : pc[h] = "write" =>
    /\ op[h].do = "create_provider" => Complete(op[h])
    /\ op[h].do = "update_provider" =>
         /\ merged[h] \in ProviderRow /\ merged[h].there
         /\ Complete(merged[h])
    /\ op[h].do = "put_model" => merged[h] \in ModelRow /\ merged[h].there

IInv == TypeOK /\ Asked /\ MergedIsWhole /\ StoreIsComplete

(* Where nothing is written, what was true of the store still is. *)
LEMMA OneHandlerMoves ==
  ASSUME TypeOK, NEW h \in Handlers, NEW where, Goes(h, where)
  PROVE  /\ pc'[h] = where
         /\ \A g \in Handlers : g # h => pc'[g] = pc[g]
BY DEF TypeOK, Goes

(* The invariant holds at first *)
LEMMA InitIInv == Init => IInv
<1>. SUFFICES ASSUME Init PROVE IInv
  OBVIOUS
<1>1. Sound(store)
  BY ManagementAssumption DEF Init
<1>2. TypeOK
  <2>1. snapshots \in Nat /\ serving \in 0..snapshots /\ number \in [Handlers -> 0..snapshots]
    BY DEF Init
  <2>. QED
    BY <1>1, <2>1, RowsAreRows DEF Init, TypeOK, Sound
<1>. QED
  BY <1>1, <1>2 DEF Init, IInv, Asked, MergedIsWhole, StoreIsComplete, Sound

(* What a write leaves is a store, and complete: this is where a row that  *)
(* was read in another closure meets what is stored by now.                *)
LEMMA WrittenIsComplete ==
  ASSUME IInv, NEW h \in Handlers, pc[h] = "write", Allowed(op[h]), Strays(h)
  PROVE  /\ strayed' \subseteq Providers
         /\ Written(h) \in Store
         /\ \A p \in Providers : Written(h).providers[p].there /\ p \notin strayed' =>
              Complete(Written(h).providers[p])
         /\ \A m \in Models : Written(h).models[m].there =>
              Written(h).providers[ProviderOf[m]].there
<1>. DEFINE o == op[h]  w == Written(h)
<1>1. o \in Operations /\ store \in Store
  BY DEF IInv, Asked, TypeOK
<1>2. o.do \in Dos
  BY <1>1, OperationIs
<1>3. ProviderOf \in [Models -> Providers]
  BY GatewayAssumption
<1>10. strayed \subseteq Providers
  BY DEF IInv, TypeOK
<1>11. ASSUME o.do \notin {"create_provider", "update_provider", "delete_provider"}
       PROVE  strayed' = strayed
  BY <1>11 DEF Strays
<1>4. CASE o.do = "create_provider"
  <2>. DEFINE row == [there |-> TRUE, type |-> o.type, enabled |-> o.enabled, key |-> o.key]
  <2>1. o.p \in Providers /\ row \in ProviderRow /\ row.there
    BY <1>1, <1>4, OperationIs DEF ProviderRow
  <2>2. Complete(row)
    BY <1>4 DEF IInv, MergedIsWhole, Complete, HasItsKey
  <2>3. w = [store EXCEPT !.providers[o.p] = row]
    BY <1>4 DEF Written
  <2>4. strayed' = strayed \ {o.p}
    BY <1>4 DEF Strays
  <2>. HIDE DEF row, o, w
  <2>5. /\ w \in Store /\ w.models = store.models
        /\ w.providers = [store.providers EXCEPT ![o.p] = row]
    BY <1>1, <2>1, <2>3 DEF Store
  <2>6. \A p \in Providers : w.providers[p] = IF p = o.p THEN row ELSE store.providers[p]
    BY <1>1, <2>5 DEF Store
  <2>. QED
    BY <1>3, <1>10, <2>1, <2>2, <2>4, <2>5, <2>6 DEF IInv, StoreIsComplete, w
<1>5. CASE o.do = "update_provider"
  <2>1. o.p \in Providers
    BY <1>1, <1>5, OperationIs
  <2>2. merged[h] \in ProviderRow /\ merged[h].there /\ Complete(merged[h])
    BY <1>5 DEF IInv, MergedIsWhole
  <2>. DEFINE row == [merged[h] EXCEPT !.type = store.providers[o.p].type]
  <2>3. w = [store EXCEPT !.providers[o.p] = row]
    BY <1>5 DEF Written, UpdatedRow
  <2>4. store.providers[o.p].type \in Types
    BY <1>1, <2>1 DEF Store, ProviderRow
  <2>5. row \in ProviderRow /\ row.there
    BY <2>2, <2>4 DEF ProviderRow
  <2>6. /\ strayed' = strayed \cup {o.p} \/ strayed' = strayed \ {o.p}
        /\ ~SameType(h) => o.p \in strayed'
    <3>1. CASE SameType(h)
      BY <1>5, <3>1, Zenon DEF Strays
    <3>2. CASE ~SameType(h)
      <4>1. strayed' = strayed \cup {o.p}
        BY <1>5, <3>2, Zenon DEF Strays
      <4>. QED
        BY <4>1
    <3>. QED
      BY <3>1, <3>2
  <2>7. SameType(h) => row = merged[h]
    BY <2>2 DEF SameType, ProviderRow
  <2>8. o.p \notin strayed' => Complete(row)
    BY <2>2, <2>6, <2>7
  <2>. HIDE DEF row, o, w
  <2>9. /\ w \in Store /\ w.models = store.models
        /\ w.providers = [store.providers EXCEPT ![o.p] = row]
    BY <1>1, <2>1, <2>3, <2>5 DEF Store
  <2>10. \A p \in Providers : w.providers[p] = IF p = o.p THEN row ELSE store.providers[p]
    BY <1>1, <2>9 DEF Store
  <2>. QED
    BY <1>3, <1>10, <2>1, <2>5, <2>6, <2>8, <2>9, <2>10 DEF IInv, StoreIsComplete, w
<1>6. CASE o.do = "delete_provider"
  <2>1. o.p \in Providers
    BY <1>1, <1>6, OperationIs
  <2>2. w = [providers |-> [store.providers EXCEPT ![o.p] = NoProvider],
             models |-> [m \in Models |->
                           IF ProviderOf[m] = o.p THEN NoModel ELSE store.models[m]],
             routes |-> store.routes]
    BY <1>1, <1>6 DEF Written, WithoutProvider, Store
  <2>3. NoProvider.there = FALSE /\ NoModel.there = FALSE
    BY DEF NoProvider, NoModel
  <2>4. strayed' = strayed \ {o.p}
    BY <1>6 DEF Strays
  <2>. HIDE DEF o, w
  <2>. QED
    BY <1>1, <1>3, <1>10, <2>1, <2>2, <2>3, <2>4, RowsAreRows DEF IInv, StoreIsComplete, Store, w
<1>7. CASE o.do = "put_model"
  <2>1. o.m \in Models /\ store.providers[ProviderOf[o.m]].there
    BY <1>1, <1>7, OperationIs DEF Allowed
  <2>2. merged[h] \in ModelRow
    BY <1>7 DEF IInv, MergedIsWhole
  <2>3. w = [store EXCEPT !.models = [store.models EXCEPT ![o.m] = merged[h]]]
    BY <1>1, <1>7 DEF Written, Store
  <2>4. /\ w.providers = store.providers /\ w.routes = store.routes
        /\ w.models = [store.models EXCEPT ![o.m] = merged[h]]
    BY <1>1, <2>3 DEF Store
  <2>5. w \in Store
    BY <1>1, <2>1, <2>2, <2>3 DEF Store
  <2>. HIDE DEF o, w
  <2>6. \A m \in Models : w.models[m].there => m = o.m \/ store.models[m].there
    BY <1>1, <2>1, <2>4 DEF Store
  <2>7. \A m \in Models : w.models[m].there => w.providers[ProviderOf[m]].there
    BY <2>1, <2>4, <2>6 DEF IInv, StoreIsComplete
  <2>8. strayed' = strayed
    BY <1>7, <1>11 DEF o
  <2>. QED
    BY <1>10, <2>4, <2>5, <2>7, <2>8 DEF IInv, StoreIsComplete, w
<1>8. CASE o.do = "delete_model"
  <2>1. o.m \in Models
    BY <1>1, <1>8, OperationIs
  <2>2. NoModel.there = FALSE
    BY DEF NoModel
  <2>3. w = [store EXCEPT !.models = [store.models EXCEPT ![o.m] = NoModel]]
    BY <1>1, <1>8 DEF Written, Store
  <2>4. /\ w.providers = store.providers /\ w.routes = store.routes
        /\ w.models = [store.models EXCEPT ![o.m] = NoModel]
    BY <1>1, <2>3 DEF Store
  <2>. HIDE DEF o, w
  <2>5. w \in Store
    <3>1. [store.models EXCEPT ![o.m] = NoModel] \in [Models -> ModelRow]
      BY <1>1, <2>1, RowsAreRows DEF Store
    <3>. QED
      BY <1>1, <2>3, <3>1 DEF Store
  <2>6. \A m \in Models : w.models[m].there => store.models[m].there
    BY <1>1, <2>1, <2>2, <2>4 DEF Store
  <2>7. \A m \in Models : w.models[m].there => w.providers[ProviderOf[m]].there
    BY <2>2, <2>4, <2>6 DEF IInv, StoreIsComplete
  <2>8. strayed' = strayed
    BY <1>8, <1>11 DEF o
  <2>. QED
    BY <1>10, <2>4, <2>5, <2>7, <2>8 DEF IInv, StoreIsComplete, w
<1>9. CASE o.do \in {"put_route", "delete_route"}
  <2>1. PICK n \in Names, list \in Seq(Models) : w = [store EXCEPT !.routes[n] = list]
    <3>1. CASE o.do = "put_route"
      BY <1>1, <3>1, OperationIs DEF Written
    <3>2. CASE o.do = "delete_route"
      <4>1. <<>> \in Seq(Models)
        OBVIOUS
      <4>. QED
        BY <1>1, <3>2, <4>1, OperationIs DEF Written
    <3>. QED
      BY <1>9, <3>1, <3>2
  <2>2. strayed' = strayed
    BY <1>9, <1>11
  <2>. HIDE DEF o, w
  <2>. QED
    BY <1>1, <1>10, <2>1, <2>2 DEF IInv, StoreIsComplete, Store, w
<1>. QED
  BY <1>2, <1>4, <1>5, <1>6, <1>7, <1>8, <1>9 DEF Dos

(* and is kept by every step. *)
LEMMA NextIInv == IInv /\ [Next]_vars => IInv'
<1>. SUFFICES ASSUME IInv, [Next]_vars PROVE IInv'
  OBVIOUS
<1>. USE DEF IInv
<1>1. CASE UNCHANGED vars
  BY <1>1 DEF vars, order, TypeOK, Asked, MergedIsWhole, StoreIsComplete
<1>2. ASSUME NEW h \in Handlers, Receive(h) PROVE IInv'
  <2>1. PICK o \in Operations :
          /\ o.do = "create_provider" => Complete(o)
          /\ op' = [op EXCEPT ![h] = o]
          /\ Goes(h, IF ReadsFirst(o) THEN "merge" ELSE "write")
    BY <1>2 DEF Receive
  <2>2. UNCHANGED <<store, live, merged, built, dropped, order, strayed>> /\ overlapped' \in BOOLEAN
    BY <1>2 DEF Receive, TypeOK
  <2>3. TypeOK'
    BY <2>1, <2>2 DEF TypeOK, Goes, order
  <2>4. Asked'
    BY <2>1 DEF TypeOK, Goes, Asked
  <2>5. MergedIsWhole'
    BY <2>1, <2>2 DEF TypeOK, Goes, MergedIsWhole, ReadsFirst
  <2>. QED
    BY <2>2, <2>3, <2>4, <2>5 DEF StoreIsComplete
<1>3. ASSUME NEW h \in Handlers, MergeFails(h) PROVE IInv'
  BY <1>3 DEF MergeFails, Goes, order, TypeOK, Asked, MergedIsWhole, StoreIsComplete
<1>4. ASSUME NEW h \in Handlers, MergeProvider(h) PROVE IInv'
  <2>. DEFINE row == store.providers[op[h].p]
  <2>1. op[h] \in Operations /\ op[h].do = "update_provider" /\ row \in ProviderRow
    <3>1. op[h] \in Operations /\ op[h].do = "update_provider"
      BY <1>4 DEF MergeProvider, Asked
    <3>2. op[h].p \in Providers
      BY <3>1, OperationIs
    <3>. QED
      BY <3>1, <3>2 DEF TypeOK, Store
  <2>2. /\ row.there /\ Complete(Changed(op[h], row))
        /\ merged' = [merged EXCEPT ![h] = Changed(op[h], row)]
        /\ Goes(h, "write")
        /\ UNCHANGED <<store, live, op, built, overlapped, dropped, order, strayed>>
    BY <1>4 DEF MergeProvider
  <2>3. Changed(op[h], row) \in ProviderRow /\ Changed(op[h], row).there
    BY <2>1, <2>2, ChangedIsRow
  <2>. HIDE DEF row
  <2>4. TypeOK'
    BY <2>2, <2>3 DEF TypeOK, Goes, order
  <2>5. Asked'
    BY <2>1, <2>2 DEF TypeOK, Goes, Asked
  <2>6. MergedIsWhole'
    BY <2>1, <2>2, <2>3 DEF TypeOK, Goes, MergedIsWhole
  <2>. QED
    BY <2>2, <2>4, <2>5, <2>6 DEF StoreIsComplete
<1>5. ASSUME NEW h \in Handlers, MergeModel(h) PROVE IInv'
  <2>. DEFINE row == store.models[op[h].m]
  <2>1. op[h] \in Operations /\ op[h].do = "put_model" /\ row \in ModelRow
    <3>1. op[h] \in Operations /\ op[h].do = "put_model"
      BY <1>5 DEF MergeModel, Asked
    <3>2. op[h].m \in Models
      BY <3>1, OperationIs
    <3>. QED
      BY <3>1, <3>2 DEF TypeOK, Store
  <2>2. /\ merged' = [merged EXCEPT ![h] = ModelChanged(op[h], row)]
        /\ Goes(h, "write")
        /\ UNCHANGED <<store, live, op, built, overlapped, dropped, order, strayed>>
    BY <1>5 DEF MergeModel
  <2>3. ModelChanged(op[h], row) \in ModelRow /\ ModelChanged(op[h], row).there
    BY <2>1, ModelChangedIsRow
  <2>. HIDE DEF row
  <2>4. TypeOK'
    BY <2>2, <2>3 DEF TypeOK, Goes, order
  <2>5. Asked'
    BY <2>1, <2>2 DEF TypeOK, Goes, Asked
  <2>6. MergedIsWhole'
    BY <2>1, <2>2, <2>3 DEF TypeOK, Goes, MergedIsWhole
  <2>. QED
    BY <2>2, <2>4, <2>5, <2>6 DEF StoreIsComplete
<1>6. ASSUME NEW h \in Handlers, Write(h) PROVE IInv'
  <2>1. /\ pc[h] = "write" /\ Allowed(op[h])
        /\ store' = Written(h) /\ Strays(h) /\ Goes(h, "snapshot")
        /\ UNCHANGED <<live, op, merged, built, overlapped, dropped, order>>
    BY <1>6 DEF Write
  <2>2. store' \in Store /\ strayed' \subseteq Providers /\ StoreIsComplete'
    BY <2>1, WrittenIsComplete DEF StoreIsComplete
  <2>3. TypeOK'
    BY <2>1, <2>2 DEF TypeOK, Goes, order
  <2>4. Asked' /\ MergedIsWhole'
    BY <2>1 DEF TypeOK, Goes, Asked, MergedIsWhole
  <2>. QED
    BY <2>2, <2>3, <2>4
<1>7. ASSUME NEW h \in Handlers, WriteFails(h) PROVE IInv'
  BY <1>7 DEF WriteFails, Goes, order, TypeOK, Asked, MergedIsWhole, StoreIsComplete
<1>8. ASSUME NEW h \in Handlers, Snapshot(h) PROVE IInv'
  <2>1. /\ snapshots' = snapshots + 1 /\ number' = [number EXCEPT ![h] = snapshots + 1]
        /\ Goes(h, "swap") /\ pc[h] = "snapshot"
        /\ UNCHANGED <<store, live, op, merged, overlapped, dropped, crossed, serving, strayed>>
    BY <1>8 DEF Snapshot
  <2>2. /\ snapshots' \in Nat /\ serving' \in 0..snapshots'
        /\ number' \in [Handlers -> 0..snapshots']
    BY <2>1 DEF TypeOK
  <2>3. TypeOK'
    BY <2>1, <2>2 DEF TypeOK, Goes
  <2>. QED
    BY <2>1, <2>3 DEF TypeOK, Goes, Asked, MergedIsWhole, StoreIsComplete
<1>9. ASSUME NEW h \in Handlers, Swap(h) PROVE IInv'
  <2>1. TypeOK'
    BY <1>9 DEF Swap, Goes, TypeOK
  <2>. QED
    BY <1>9, <2>1 DEF Swap, Goes, TypeOK, Asked, MergedIsWhole, StoreIsComplete
<1>10. ASSUME NEW h \in Handlers, Drop(h) PROVE IInv'
  BY <1>10 DEF Drop, AtWork, Goes, order, TypeOK, Asked, MergedIsWhole, StoreIsComplete
<1>. QED
  BY <1>1, <1>2, <1>3, <1>4, <1>5, <1>6, <1>7, <1>8, <1>9, <1>10 DEF Next

(* Everything a handler holds is what its operation and its place in the   *)
(* code say, and the store is complete.                                    *)
THEOREM Invariance == Spec => []IInv
<1>. QED
  BY InitIInv, NextIInv, PTL DEF Spec

(* Every variable keeps its type, for any configuration and operations.    *)
THEOREM TypeCorrect == Spec => []TypeOK
<1>1. IInv => TypeOK
  BY DEF IInv
<1>. QED
  BY <1>1, Invariance, PTL

(* An enabled provider is stored with the key its type needs, unless the   *)
(* row it was last updated from had another type, and no model without its *)
(* provider, whatever handlers come between a handler's read and its write *)
(* (complete, Store::update_provider, Store::put_model and the foreign key)*)
THEOREM StoreIsCompleteTheorem == Spec => []StoreIsComplete
<1>1. IInv => StoreIsComplete
  BY DEF IInv
<1>. QED
  BY <1>1, Invariance, PTL

-----------------------------------------------------------------------------
(* What is served is what is stored *)

(* As long as no handler was dropped and no swap went back, and nobody is  *)
(* between its write and its snapshot: the newest gateway is the store's,  *)
(* and it is serving or about to.                                          *)
Newest ==
  (dropped = {} /\ ~crossed /\ \A h \in Handlers : pc[h] # "snapshot") =>
    /\ \A h \in Handlers :
         pc[h] = "swap" /\ number[h] = snapshots => built[h] = Build(store)
    /\ serving = snapshots => live = Build(store)
    /\ serving = snapshots \/ \E h \in Handlers : pc[h] = "swap" /\ number[h] = snapshots

BuiltOK == DOMAIN built = Handlers

(* A handler that is neither after its write nor at its swap, and goes to  *)
(* neither, has no part in it.                                             *)
LEMMA BesideNewest ==
  ASSUME IInv, BuiltOK, Newest, NEW h \in Handlers, NEW where, Goes(h, where),
         where \notin {"snapshot", "swap"}, pc[h] \notin {"snapshot", "swap"},
         UNCHANGED <<store, live, built, order>>, dropped' = {} => dropped = {}
  PROVE  BuiltOK' /\ Newest'
BY DEF BuiltOK, Newest, Goes, IInv, TypeOK, order

(* Every step keeps the newest snapshot the newest. *)
LEMMA NextNewest == IInv /\ BuiltOK /\ Newest /\ [Next]_vars => BuiltOK' /\ Newest'
<1>. SUFFICES ASSUME IInv, BuiltOK, Newest, [Next]_vars PROVE BuiltOK' /\ Newest'
  OBVIOUS
<1>1. CASE UNCHANGED vars
  BY <1>1 DEF vars, order, Newest, BuiltOK
<1>2. ASSUME NEW h \in Handlers,
             Receive(h) \/ MergeFails(h) \/ MergeProvider(h) \/ MergeModel(h) \/ WriteFails(h)
      PROVE  BuiltOK' /\ Newest'
  <2>1. \E where \in {"merge", "write", "failed"} : Goes(h, where)
    BY <1>2 DEF Receive, MergeFails, MergeProvider, MergeModel, WriteFails
  <2>2. pc[h] \notin {"snapshot", "swap"} /\ UNCHANGED <<store, live, built, dropped, order>>
    BY <1>2 DEF Receive, MergeFails, MergeProvider, MergeModel, WriteFails
  <2>. QED
    BY <2>1, <2>2, BesideNewest
<1>3. ASSUME NEW h \in Handlers, Write(h) PROVE BuiltOK' /\ Newest'
  <2>1. pc'[h] = "snapshot"
    BY <1>3, OneHandlerMoves DEF Write, IInv
  <2>. QED
    BY <1>3, <2>1 DEF Write, Newest, BuiltOK
<1>4. ASSUME NEW h \in Handlers, Snapshot(h) PROVE BuiltOK' /\ Newest'
  <2>1. /\ built' = [built EXCEPT ![h] = Build(store)]
        /\ snapshots' = snapshots + 1 /\ number' = [number EXCEPT ![h] = snapshots + 1]
        /\ Goes(h, "swap") /\ UNCHANGED <<store, live, serving>>
    BY <1>4 DEF Snapshot
  <2>2. BuiltOK' /\ built'[h] = Build(store) /\ number'[h] = snapshots' /\ pc'[h] = "swap"
    BY <2>1 DEF BuiltOK, IInv, TypeOK, Goes
  <2>3. serving' # snapshots'
    BY <2>1 DEF IInv, TypeOK
  <2>4. \A g \in Handlers : number'[g] = snapshots' => g = h
    BY <2>1 DEF IInv, TypeOK
  <2>5. Build(store)' = Build(store)
    BY <2>1
  <2>. QED
    BY <2>2, <2>3, <2>4, <2>5 DEF Newest
<1>5. ASSUME NEW h \in Handlers, Swap(h) PROVE BuiltOK' /\ Newest'
  <2>1. /\ live' = built[h] /\ serving' = number[h] /\ pc[h] = "swap"
        /\ crossed' = (crossed \/ number[h] < serving)
        /\ Goes(h, "answered")
        /\ UNCHANGED <<store, op, merged, built, overlapped, dropped, snapshots, number, strayed>>
    BY <1>5 DEF Swap
  <2>2. /\ pc'[h] = "answered" /\ \A g \in Handlers : g # h => pc'[g] = pc[g]
    BY <2>1, OneHandlerMoves DEF IInv
  <2>3. /\ snapshots \in Nat /\ serving \in 0..snapshots /\ number[h] \in 0..snapshots
    BY DEF IInv, TypeOK
  <2>4. Build(store)' = Build(store)
    BY <2>1
  <2>5. SUFFICES ASSUME dropped' = {}, ~crossed', \A g \in Handlers : pc'[g] # "snapshot"
                 PROVE  /\ \A g \in Handlers :
                             pc'[g] = "swap" /\ number[g] = snapshots => built[g] = Build(store)
                        /\ number[h] = snapshots => built[h] = Build(store)
                        /\ \/ number[h] = snapshots
                           \/ \E g \in Handlers : pc'[g] = "swap" /\ number[g] = snapshots
    BY <2>1, <2>4 DEF Newest, BuiltOK
  <2>6. dropped = {} /\ ~crossed /\ ~(number[h] < serving)
    BY <2>1, <2>5
  <2>7. \A g \in Handlers : pc[g] # "snapshot"
    BY <2>1, <2>2, <2>5
  <2>8. serving = snapshots => number[h] = snapshots
    BY <2>3, <2>6
  <2>. QED
    BY <2>1, <2>2, <2>6, <2>7, <2>8 DEF Newest
<1>6. ASSUME NEW h \in Handlers, Drop(h) PROVE BuiltOK' /\ Newest'
  BY <1>6 DEF Drop, Newest, BuiltOK
<1>. QED
  BY <1>1, <1>2, <1>3, <1>4, <1>5, <1>6 DEF Next

(* With no handler at work the gateway that serves is the one the store    *)
(* makes, unless a handler was dropped or two swapped in the opposite order*)
(* to their snapshots, for any number of handlers (reload and Live).       *)
THEOREM StaleOnlyWhenSwapsCrossTheorem == Spec => []StaleOnlyWhenSwapsCross
<1>1. Init => BuiltOK /\ Newest
  BY DEF Init, BuiltOK, Newest
<1>2. Newest => StaleOnlyWhenSwapsCross
  BY DEF Newest, StaleOnlyWhenSwapsCross, Quiet, AtWork
<1>. QED
  BY <1>1, <1>2, NextNewest, Invariance, PTL DEF Spec

-----------------------------------------------------------------------------
(* Whatever is swapped in reaches all it serves *)

(* What LiveIsClosed says of the gateway serving, of any gateway.          *)
Closed(g) ==
  /\ \A m \in g.enabled : ProviderOf[m] \in DOMAIN g.keys
  /\ \A n \in DOMAIN g.served : \A i, j \in DOMAIN g.served[n] :
       /\ g.served[n][i] \in g.enabled
       /\ g.kinds[g.served[n][i]] = g.kinds[g.served[n][j]]

(* The gateway built from any store is closed, however its routes repeat,  *)
(* name models that are not there, or mix kinds.                           *)
LEMMA BuildIsClosed ==
  ASSUME NEW s \in Store
  PROVE  Closed(Build(s))
<1>. DEFINE g == Build(s)
            ofKind(n) == {m \in Usable(s) : s.models[m].kind = KindOf(s, n)}
<1>1. ASSUME NEW m \in g.enabled PROVE ProviderOf[m] \in DOMAIN g.keys
  BY <1>1 DEF Build, Enabled
<1>2. ASSUME NEW n \in DOMAIN g.served, NEW i \in DOMAIN g.served[n]
      PROVE  /\ g.served[n][i] \in g.enabled
             /\ g.kinds[g.served[n][i]] = KindOf(s, n)
  <2>1. n \in Names /\ g.served[n] = Only(s.routes[n], ofKind(n))
    BY DEF Build, Served
  <2>2. s.routes[n] \in Seq(Models)
    BY <2>1 DEF Store
  <2>3. g.served[n][i] \in ofKind(n)
    <3>1. \A k \in DOMAIN Only(s.routes[n], ofKind(n)) : Only(s.routes[n], ofKind(n))[k] \in ofKind(n)
      <4>. HIDE DEF ofKind
      <4>. QED
        BY <2>2, OnlyIs
    <3>. HIDE DEF g, ofKind
    <3>. QED
      BY <1>2, <2>1, <3>1
  <2>. QED
    BY <2>3 DEF Build, Usable
<1>3. \A n \in DOMAIN g.served : \A i, j \in DOMAIN g.served[n] :
        /\ g.served[n][i] \in g.enabled
        /\ g.kinds[g.served[n][i]] = g.kinds[g.served[n][j]]
  <2>. HIDE DEF g
  <2>. QED
    BY <1>2
<1>. QED
  BY <1>1, <1>3 DEF Closed

(* The gateway serving and every one waiting to be swapped in.             *)
AllClosed == Closed(live) /\ \A h \in Handlers : Closed(built[h])

(* Every gateway comes from a snapshot of some store. *)
LEMMA NextAllClosed == IInv /\ BuiltOK /\ AllClosed /\ [Next]_vars => BuiltOK' /\ AllClosed'
<1>. SUFFICES ASSUME IInv, BuiltOK, AllClosed, [Next]_vars PROVE BuiltOK' /\ AllClosed'
  OBVIOUS
<1>1. CASE UNCHANGED <<live, built>>
  BY <1>1 DEF AllClosed, BuiltOK, Closed
<1>2. ASSUME NEW h \in Handlers, Snapshot(h) PROVE BuiltOK' /\ AllClosed'
  <2>1. built' = [built EXCEPT ![h] = Build(store)] /\ live' = live
    BY <1>2 DEF Snapshot
  <2>2. Closed(Build(store))
    BY BuildIsClosed DEF IInv, TypeOK
  <2>3. BuiltOK' /\ \A k \in Handlers : built'[k] = IF k = h THEN Build(store) ELSE built[k]
    BY <2>1 DEF BuiltOK
  <2>4. Closed(live') /\ \A k \in Handlers : Closed(built'[k])
    BY <2>1, <2>2, <2>3, Zenon DEF AllClosed
  <2>. QED
    BY <2>3, <2>4 DEF AllClosed, Closed
<1>3. ASSUME NEW h \in Handlers, Swap(h) PROVE BuiltOK' /\ AllClosed'
  <2>1. live' = built[h] /\ built' = built
    BY <1>3 DEF Swap
  <2>2. Closed(live') /\ \A k \in Handlers : Closed(built'[k])
    BY <2>1 DEF AllClosed
  <2>. QED
    BY <2>1, <2>2 DEF AllClosed, Closed, BuiltOK
<1>4. ASSUME NEW h \in Handlers,
             \/ Receive(h) \/ MergeFails(h) \/ MergeProvider(h) \/ MergeModel(h)
             \/ Write(h) \/ WriteFails(h) \/ Drop(h)
      PROVE  UNCHANGED <<live, built>>
  BY <1>4 DEF Receive, MergeFails, MergeProvider, MergeModel, Write, WriteFails, Drop
<1>. QED
  BY <1>1, <1>2, <1>3, <1>4 DEF Next, vars

(* A request never finds a gateway whose routes lead to a model that is not*)
(* enabled or a provider that was not built, or that mixes kinds, whatever *)
(* the handlers write and in whatever order they swap (Gateway::build).    *)
THEOREM LiveIsClosedTheorem == Spec => []LiveIsClosed
<1>1. Init => BuiltOK /\ AllClosed
  <2>. SUFFICES ASSUME Init PROVE BuiltOK /\ AllClosed
    OBVIOUS
  <2>1. Closed(Build(store))
    BY InitIInv, BuildIsClosed DEF IInv, TypeOK
  <2>2. live = Build(store) /\ built = [h \in Handlers |-> live]
    BY DEF Init
  <2>. QED
    BY <2>1, <2>2 DEF BuiltOK, AllClosed
<1>2. AllClosed => LiveIsClosed
  BY DEF AllClosed, Closed, LiveIsClosed
<1>. QED
  BY <1>1, <1>2, NextAllClosed, Invariance, PTL DEF Spec

-----------------------------------------------------------------------------
(* One handler at a time leaves credentials alone *)

(* One request after another: at most one handler is at work, so what it   *)
(* read is still what is stored when it writes.                            *)
OneAtATime ==
  ~overlapped =>
    /\ \A g, h \in Handlers : AtWork(g) /\ AtWork(h) => g = h
    /\ \A h \in Handlers : pc[h] = "write" /\ op[h].do = "update_provider" =>
         merged[h] = Changed(op[h], store.providers[op[h].p])

(* A handler that goes on as it was at work leaves the others as they were.*)
LEMMA OneStays ==
  ASSUME TypeOK, OneAtATime, NEW h \in Handlers, AtWork(h), NEW where, Goes(h, where)
  PROVE  ~overlapped => \A f, g \in Handlers : AtWork(f)' /\ AtWork(g)' => f = g
BY DEF OneAtATime, AtWork, Goes, TypeOK

(* Nobody is at work at first, *)
LEMMA InitOneAtATime == Init => OneAtATime
BY DEF Init, OneAtATime, AtWork

(* and who comes when nobody is stays alone. *)
LEMMA NextOneAtATime == IInv /\ OneAtATime /\ [Next]_vars => OneAtATime'
<1>. SUFFICES ASSUME IInv, OneAtATime, [Next]_vars, ~overlapped' PROVE OneAtATime'
  BY DEF OneAtATime
<1>. USE DEF IInv
<1>1. CASE UNCHANGED vars
  BY <1>1 DEF vars, OneAtATime, AtWork
<1>2. ASSUME NEW h \in Handlers, Receive(h) PROVE OneAtATime'
  <2>1. PICK o \in Operations :
          /\ op' = [op EXCEPT ![h] = o]
          /\ Goes(h, IF ReadsFirst(o) THEN "merge" ELSE "write")
    BY <1>2 DEF Receive
  <2>2. \A g \in Handlers : ~AtWork(g)
    BY <1>2 DEF Receive, Quiet
  <2>3. \A g \in Handlers : g # h => ~AtWork(g)'
    BY <2>1, <2>2 DEF TypeOK, Goes, AtWork
  <2>4. op'[h] = o /\ pc'[h] = IF ReadsFirst(o) THEN "merge" ELSE "write"
    BY <2>1 DEF TypeOK, Goes
  <2>5. \A g \in Handlers : ~(pc'[g] = "write" /\ op'[g].do = "update_provider")
    BY <2>3, <2>4 DEF AtWork, ReadsFirst
  <2>. QED
    BY <2>3, <2>5 DEF OneAtATime
<1>3. ASSUME NEW h \in Handlers, MergeProvider(h) PROVE OneAtATime'
  <2>1. /\ AtWork(h) /\ Goes(h, "write") /\ store' = store /\ op' = op /\ overlapped' = overlapped
        /\ merged' = [merged EXCEPT ![h] = Changed(op[h], store.providers[op[h].p])]
    BY <1>3 DEF MergeProvider, AtWork
  <2>2. \A f, g \in Handlers : AtWork(f)' /\ AtWork(g)' => f = g
    BY <2>1, OneStays
  <2>3. AtWork(h)' /\ merged'[h] = Changed(op[h], store.providers[op[h].p])
    BY <2>1 DEF TypeOK, Goes, AtWork
  <2>. QED
    BY <2>1, <2>2, <2>3 DEF OneAtATime, AtWork
<1>4. ASSUME NEW h \in Handlers, MergeModel(h) PROVE OneAtATime'
  <2>1. /\ AtWork(h) /\ Goes(h, "write") /\ op' = op /\ overlapped' = overlapped
        /\ op[h].do = "put_model"
    BY <1>4 DEF MergeModel, AtWork
  <2>2. \A f, g \in Handlers : AtWork(f)' /\ AtWork(g)' => f = g
    BY <2>1, OneStays
  <2>3. AtWork(h)'
    BY <2>1 DEF TypeOK, Goes, AtWork
  <2>. QED
    BY <2>1, <2>2, <2>3 DEF OneAtATime, AtWork
<1>5. ASSUME NEW h \in Handlers,
             MergeFails(h) \/ Write(h) \/ WriteFails(h) \/ Snapshot(h) \/ Swap(h) \/ Drop(h)
      PROVE  OneAtATime'
  <2>1. /\ AtWork(h) /\ overlapped' = overlapped
        /\ \E where \in {"failed", "snapshot", "swap", "answered", "dropped"} : Goes(h, where)
    BY <1>5 DEF MergeFails, Write, WriteFails, Snapshot, Swap, Drop, AtWork
  <2>2. \A f, g \in Handlers : AtWork(f)' /\ AtWork(g)' => f = g
    BY <2>1, OneStays
  <2>3. pc'[h] # "write" /\ \A g \in Handlers : g # h => pc'[g] = pc[g]
    BY <2>1 DEF TypeOK, Goes
  <2>4. \A g \in Handlers : pc'[g] # "write"
    BY <2>1, <2>3 DEF OneAtATime, AtWork
  <2>. QED
    BY <2>2, <2>4 DEF OneAtATime
<1>. QED
  BY <1>1, <1>2, <1>3, <1>4, <1>5 DEF Next

(* Only an update changes the key of a provider that stays, and as long as *)
(* it is alone it changes it to what was asked.                            *)
LEMMA KeysStay ==
  ASSUME IInv, OneAtATime, ~overlapped, NEW h \in Handlers, Write(h)
  PROVE  KeysChangedByName
<1>. SUFFICES ASSUME NEW p \in Providers, store.providers[p].there, store'.providers[p].there,
                     store'.providers[p].key # store.providers[p].key
              PROVE  /\ op[h].do = "update_provider"
                     /\ op[h].p = p /\ op[h].key # Absent
  <2>1. pc[h] = "write" /\ Goes(h, "snapshot")
    BY DEF Write
  <2>2. pc'[h] # "write"
    BY <2>1, OneHandlerMoves DEF IInv
  <2>. QED
    BY <2>1, <2>2 DEF KeysChangedByName
<1>. DEFINE o == op[h]
<1>1. /\ pc[h] = "write" /\ Allowed(o) /\ store' = Written(h)
      /\ o \in Operations /\ store \in Store
  BY DEF Write, IInv, Asked, TypeOK
<1>2. o.do \in Dos
  BY <1>1, OperationIs
<1>3. CASE o.do = "create_provider"
  <2>1. o.p \in Providers /\ ~store.providers[o.p].there
    BY <1>1, <1>3, OperationIs DEF Allowed
  <2>2. store' = [store EXCEPT !.providers[o.p] =
                    [there |-> TRUE, type |-> o.type, enabled |-> o.enabled, key |-> o.key]]
    BY <1>1, <1>3 DEF Written
  <2>. HIDE DEF o
  <2>. QED
    BY <1>1, <2>1, <2>2 DEF Store
<1>4. CASE o.do = "update_provider"
  <2>1. o.p \in Providers
    BY <1>1, <1>4, OperationIs
  <2>2. store' = [store EXCEPT !.providers[o.p] = UpdatedRow(h)]
    BY <1>1, <1>4 DEF Written
  <2>3. merged[h] = Changed(o, store.providers[o.p])
    BY <1>1, <1>4 DEF OneAtATime
  <2>4. store.providers[o.p] \in ProviderRow
    BY <1>1, <2>1 DEF Store
  <2>5. o.key = Absent => UpdatedRow(h).key = store.providers[o.p].key
    BY <2>3, <2>4 DEF UpdatedRow, Changed, Or, ProviderRow
  <2>. HIDE DEF o
  <2>6. o.p = p /\ UpdatedRow(h).key # store.providers[p].key
    BY <1>1, <2>1, <2>2 DEF Store
  <2>. QED
    BY <1>4, <2>5, <2>6 DEF o
<1>5. CASE o.do = "delete_provider"
  <2>1. o.p \in Providers
    BY <1>1, <1>5, OperationIs
  <2>2. store'.providers = [store.providers EXCEPT ![o.p] = NoProvider]
    BY <1>1, <1>5 DEF Written, WithoutProvider, Store
  <2>3. NoProvider.there = FALSE
    BY DEF NoProvider
  <2>. HIDE DEF o
  <2>. QED
    BY <1>1, <2>1, <2>2, <2>3 DEF Store
<1>6. CASE o.do \in {"put_model", "delete_model", "put_route", "delete_route"}
  <2>1. store'.providers = store.providers
    BY <1>1, <1>6 DEF Written, Store
  <2>. QED
    BY <2>1
<1>. QED
  BY <1>2, <1>3, <1>4, <1>5, <1>6 DEF Dos

(* One request after another, a step changes the key of a provider only    *)
(* when its own update names a key (update_provider and its closures).     *)
THEOREM CredentialLeftAloneTheorem == Spec => CredentialLeftAlone
<1>1. IInv /\ OneAtATime /\ [Next]_vars => [~overlapped => KeysChangedByName]_vars
  <2>. SUFFICES ASSUME IInv, OneAtATime, Next, ~overlapped PROVE KeysChangedByName
    OBVIOUS
  <2>1. ASSUME NEW h \in Handlers, Write(h) PROVE KeysChangedByName
    BY <2>1, KeysStay
  <2>2. ASSUME store' = store PROVE KeysChangedByName
    BY <2>2 DEF KeysChangedByName
  <2>. QED
    BY <2>1, <2>2 DEF Next, Receive, MergeFails, MergeProvider, MergeModel, WriteFails,
                      Snapshot, Swap, Drop
<1>. QED
  BY <1>1, InitOneAtATime, NextOneAtATime, Invariance, PTL DEF Spec, CredentialLeftAlone
=============================================================================
