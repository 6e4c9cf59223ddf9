----------------------------- MODULE Management -----------------------------
(***************************************************************************)
(* The management API's handlers, running at once, over the store and the  *)
(* gateway that serves.  Each closure given to Db::run is atomic: it runs  *)
(* whole under the store's lock.  What is read in one closure and written  *)
(* in another, and the swap of the gateway after the closure that built    *)
(* it, are separate steps, and the HTTP server may drop a handler at any   *)
(* await between them.  A closure already handed to the blocking pool runs *)
(* even so, which is the step followed by the drop.                        *)
(***************************************************************************)
EXTENDS Gateway

CONSTANTS
  Handlers,     (* requests to the management API, each made once          *)
  Operations,   (* what they may ask for                                   *)
  FirstStores,  (* what the database may hold when the server starts       *)
  Absent        (* a field that a change leaves out: the stored value stays*)

OperationKinds ==
  [do : {"create_provider"}, p : Providers, type : Types, enabled : BOOLEAN,
   key : Keys \cup {NoKey}]
  \cup [do : {"update_provider"}, p : Providers,
        enabled : BOOLEAN \cup {Absent}, key : Keys \cup {NoKey, Absent}]
  \cup [do : {"delete_provider"}, p : Providers]
  \cup [do : {"put_model"}, m : Models, enabled : BOOLEAN \cup {Absent},
        kind : Kinds \cup {Absent}, known : BOOLEAN \cup {Absent}]
  \cup [do : {"delete_model"}, m : Models]
  \cup [do : {"delete_route"}, n : Names]

(* What complete refuses: an enabled provider without the key it needs.    *)
Complete(row) == row.enabled => HasItsKey(row)

(* What earlier runs of the server leave in the database.                  *)
Sound(s) ==
  /\ s \in Store
  /\ \A p \in Providers : s.providers[p].there => Complete(s.providers[p])
  /\ \A m \in Models : s.models[m].there => s.providers[ProviderOf[m]].there

(* A route set lists at least one model; nothing else is written.          *)
ASSUME ManagementAssumption ==
  /\ Absent \notin BOOLEAN /\ Absent \notin Keys \cup {NoKey} /\ Absent \notin Kinds
  /\ \A o \in Operations :
       IF o.do = "put_route"
       THEN o \in [do : {"put_route"}, n : Names, routes : Seq(Models) \ {<<>>}]
       ELSE o \in OperationKinds
  /\ \A s \in FirstStores : Sound(s)

VARIABLES
  store,     (* the database                                               *)
  live,      (* the gateway serving requests                               *)
  pc,        (* where each handler is                                      *)
  op,        (* what it was asked                                          *)
  merged,    (* the row it read and changed, or is about to insert         *)
  built,     (* the gateway it built and has not swapped in yet            *)
  (* history *)
  overlapped, (* whether two handlers were ever at work together           *)
  dropped,    (* handlers dropped before they answered                     *)
  crossed,    (* whether an older gateway ever replaced a newer one        *)
  snapshots,  (* how many snapshots were read                              *)
  number,     (* which of them each handler's gateway was built from       *)
  serving,    (* which of them the serving gateway was built from          *)
  strayed     (* providers last updated from a row of another type         *)

vars == <<store, live, pc, op, merged, built, strayed,
          overlapped, dropped, crossed, snapshots, number, serving>>
order == <<crossed, snapshots, number, serving>>

None == [do |-> "none"]

Init ==
  /\ store \in FirstStores /\ live = Build(store)
  /\ pc = [h \in Handlers |-> "idle"]
  /\ op = [h \in Handlers |-> None]
  /\ merged = [h \in Handlers |-> NoProvider]
  /\ built = [h \in Handlers |-> live]
  /\ overlapped = FALSE /\ dropped = {} /\ crossed = FALSE
  /\ snapshots = 0 /\ number = [h \in Handlers |-> 0] /\ serving = 0
  /\ strayed = {}

AtWork(h) == pc[h] \in {"merge", "write", "snapshot", "swap"}
Quiet == \A h \in Handlers : ~AtWork(h)

Goes(h, where) == pc' = [pc EXCEPT ![h] = where]

-----------------------------------------------------------------------------
(* A request comes in.  The two handlers that change part of a row read it *)
(* first; the others go straight to their write.                           *)

ReadsFirst(o) == o.do \in {"update_provider", "put_model"}

Receive(h) ==
  /\ pc[h] = "idle"
  /\ \E o \in Operations :
       /\ o.do = "create_provider" => Complete(o)
       /\ op' = [op EXCEPT ![h] = o]
       /\ Goes(h, IF ReadsFirst(o) THEN "merge" ELSE "write")
  /\ overlapped' = (overlapped \/ ~Quiet)
  /\ UNCHANGED <<store, live, merged, built, dropped, order, strayed>>

Or(change, stored) == IF change = Absent THEN stored ELSE change

(* The change in an update_provider, laid over the row as it is stored.    *)
Changed_AbsentIsNull(o, row) ==
  [row EXCEPT !.enabled = Or(o.enabled, @),
              !.key = IF o.key = Absent THEN NoKey ELSE o.key]

(* The key is taken as it comes. *)
Changed_KeyAsItComes(o, row) == [row EXCEPT !.enabled = Or(o.enabled, @), !.key = o.key]

Changed(o, row) == [row EXCEPT !.enabled = Or(o.enabled, @), !.key = Or(o.key, @)]

(* An absent model row starts disabled, and for chat.  What was said about *)
(* a chat model says nothing about the same id used another way.           *)
ModelChanged(o, row) ==
  LET kind == Or(o.kind, row.kind) IN
    [there |-> TRUE, enabled |-> Or(o.enabled, row.enabled), kind |-> kind,
     known |-> kind = "chat" /\ Or(o.known, row.known)]

(* What put_model refuses of a model under a provider of a type: a kind the*)
(* type has no endpoint for, capabilities of what is no chat model, and an *)
(* enabled model that could not be served.                                 *)
Refused(o, row, type) ==
  LET new == ModelChanged(o, row) IN
    \/ new.kind \notin KindsOf[type]
    \/ new.kind # "chat" /\ o.known \notin {FALSE, Absent}
    \/ new.enabled /\ ~CanServe(type, o.m, new)

(* The provider is gone, or what the row would become is refused: the      *)
(* handler answers an error and nothing was written.                       *)
MergeFails(h) ==
  /\ pc[h] = "merge"
  /\ \/ /\ op[h].do = "update_provider"
        /\ LET row == store.providers[op[h].p] IN
             row.there => ~Complete(Changed(op[h], row))
     \/ /\ op[h].do = "put_model"
        /\ LET provider == store.providers[ProviderOf[op[h].m]] IN
             provider.there => Refused(op[h], store.models[op[h].m], provider.type)
  /\ Goes(h, "failed")
  /\ UNCHANGED <<store, live, op, merged, built, overlapped, dropped, order, strayed>>

MergeProvider(h) ==
  /\ pc[h] = "merge" /\ op[h].do = "update_provider"
  /\ LET row == store.providers[op[h].p] IN
       /\ row.there /\ Complete(Changed(op[h], row))
       /\ merged' = [merged EXCEPT ![h] = Changed(op[h], row)]
  /\ Goes(h, "write")
  /\ UNCHANGED <<store, live, op, built, overlapped, dropped, order, strayed>>

MergeModel(h) ==
  /\ pc[h] = "merge" /\ op[h].do = "put_model"
  /\ LET provider == store.providers[ProviderOf[op[h].m]] IN
       provider.there /\ ~Refused(op[h], store.models[op[h].m], provider.type)
  /\ merged' = [merged EXCEPT ![h] = ModelChanged(op[h], store.models[op[h].m])]
  /\ Goes(h, "write")
  /\ UNCHANGED <<store, live, op, built, overlapped, dropped, order, strayed>>

-----------------------------------------------------------------------------
(* The closure that writes.                                                *)

(* Whether it goes through: a conflict, a missing row or a broken foreign  *)
(* key is an error and changes nothing.                                    *)
Allowed(o) ==
  CASE o.do = "create_provider" -> ~store.providers[o.p].there
    [] o.do \in {"update_provider", "delete_provider"} -> store.providers[o.p].there
    [] o.do = "put_model"       -> store.providers[ProviderOf[o.m]].there
    [] o.do = "delete_model"    -> store.models[o.m].there
    [] o.do = "put_route"       -> TRUE
    [] o.do = "delete_route"    -> store.routes[o.n] # <<>>

(* Deleting a provider takes its models with it, through the foreign key.  *)
WithoutProvider(p) ==
  [store EXCEPT !.providers[p] = NoProvider,
                !.models = [m \in Models |-> IF ProviderOf[m] = p THEN NoModel ELSE @[m]]]

(* Only the fields the change names are written, over what is stored now.  *)
UpdatedRow_FieldByField(h) == Changed(op[h], store.providers[op[h].p])

(* The row as it was read and merged, all but the type: that no update     *)
(* writes, and the row may have been deleted and created anew as another.  *)
UpdatedRow(h) == [merged[h] EXCEPT !.type = store.providers[op[h].p].type]

Written(h) ==
  LET o == op[h] IN
  CASE o.do = "create_provider" ->
         [store EXCEPT !.providers[o.p] = [there |-> TRUE, type |-> o.type,
                                           enabled |-> o.enabled, key |-> o.key]]
    [] o.do = "update_provider" -> [store EXCEPT !.providers[o.p] = UpdatedRow(h)]
    [] o.do = "delete_provider" -> WithoutProvider(o.p)
    [] o.do = "put_model"       -> [store EXCEPT !.models[o.m] = merged[h]]
    [] o.do = "delete_model"    -> [store EXCEPT !.models[o.m] = NoModel]
    [] o.do = "put_route"       -> [store EXCEPT !.routes[o.n] = o.routes]
    [] o.do = "delete_route"    -> [store EXCEPT !.routes[o.n] = <<>>]

(* Whether the row a handler's update was merged from had the type of the  *)
(* one it is written over.                                                 *)
SameType(h) == merged[h].type = store.providers[op[h].p].type

Strays(h) ==
  strayed' = IF op[h].do = "update_provider" /\ ~SameType(h) THEN strayed \cup {op[h].p}
             ELSE IF op[h].do \in {"create_provider", "update_provider", "delete_provider"}
                  THEN strayed \ {op[h].p}
             ELSE strayed

(* A handler that answers once the row is written. *)
Write_NoReload(h) ==
  /\ pc[h] = "write" /\ Allowed(op[h])
  /\ store' = Written(h) /\ Strays(h)
  /\ Goes(h, IF op[h].do = "delete_model" THEN "answered" ELSE "snapshot")
  /\ UNCHANGED <<live, op, merged, built, overlapped, dropped, order>>

Write(h) ==
  /\ pc[h] = "write" /\ Allowed(op[h])
  /\ store' = Written(h) /\ Strays(h)
  /\ Goes(h, "snapshot")
  /\ UNCHANGED <<live, op, merged, built, overlapped, dropped, order>>

WriteFails(h) ==
  /\ pc[h] = "write" /\ ~Allowed(op[h])
  /\ Goes(h, "failed")
  /\ UNCHANGED <<store, live, op, merged, built, overlapped, dropped, order, strayed>>

-----------------------------------------------------------------------------
(* reload: one closure reads the whole store and builds, then the handler  *)
(* swaps the gateway in and answers.                                       *)

Snapshot(h) ==
  /\ pc[h] = "snapshot"
  /\ built' = [built EXCEPT ![h] = Build(store)]
  /\ snapshots' = snapshots + 1
  /\ number' = [number EXCEPT ![h] = snapshots + 1]
  /\ Goes(h, "swap")
  /\ UNCHANGED <<store, live, op, merged, overlapped, dropped, crossed, serving, strayed>>

Swap(h) ==
  /\ pc[h] = "swap"
  /\ live' = built[h]
  /\ serving' = number[h]
  /\ crossed' = (crossed \/ number[h] < serving)
  /\ Goes(h, "answered")
  /\ UNCHANGED <<store, op, merged, built, overlapped, dropped, snapshots, number, strayed>>

(* The client of the API goes away, and the server drops the handler.      *)
Drop(h) ==
  /\ AtWork(h)
  /\ dropped' = dropped \cup {h}
  /\ Goes(h, "dropped")
  /\ UNCHANGED <<store, live, op, merged, built, overlapped, order, strayed>>

Next == \E h \in Handlers :
  \/ Receive(h) \/ MergeFails(h) \/ MergeProvider(h) \/ MergeModel(h)
  \/ Write(h) \/ WriteFails(h) \/ Snapshot(h) \/ Swap(h) \/ Drop(h)

Spec == Init /\ [][Next]_vars

-----------------------------------------------------------------------------
(* Properties *)

TypeOK ==
  /\ store \in Store
  /\ pc \in [Handlers -> {"idle", "merge", "write", "snapshot", "swap",
                          "answered", "failed", "dropped"}]
  /\ op \in [Handlers -> Operations \cup {None}]
  /\ merged \in [Handlers -> ProviderRow \cup ModelRow]
  /\ overlapped \in BOOLEAN /\ crossed \in BOOLEAN
  /\ dropped \subseteq Handlers /\ strayed \subseteq Providers
  /\ snapshots \in Nat /\ serving \in 0..snapshots
  /\ number \in [Handlers -> 0..snapshots]

(* "Every change is written to the store, then the gateway is rebuilt from *)
(* the store and swapped in, so the next request sees it": with no handler *)
(* at work the gateway serving is the store's, unless a handler was        *)
(* dropped, or two swapped in the opposite order to their snapshots.       *)
StaleOnlyWhenSwapsCross ==
  Quiet /\ dropped = {} /\ ~crossed => live = Build(store)

(* Nothing is served that the gateway serving cannot reach: the routes of  *)
(* every set are enabled models, of built providers, all of one kind.      *)
LiveIsClosed ==
  /\ \A m \in live.enabled : ProviderOf[m] \in DOMAIN live.keys
  /\ \A n \in DOMAIN live.served : \A i, j \in DOMAIN live.served[n] :
       /\ live.served[n][i] \in live.enabled
       /\ live.kinds[live.served[n][i]] = live.kinds[live.served[n][j]]

(* Whatever handlers interleave, a provider stored as enabled has the key  *)
(* its type needs, since the row that was checked is the row that is       *)
(* written.  One case is not so in the code and is excepted: the check is  *)
(* of the row as it was read, the type is not written back, and where the  *)
(* provider was deleted and created as another type in between, an enabled *)
(* provider may be left without its key until it is next updated.  And     *)
(* with no exception no model outlives its provider, even one written by a *)
(* handler that read the provider before another deleted it.               *)
StoreIsComplete ==
  /\ \A p \in Providers :
       store.providers[p].there /\ p \notin strayed => Complete(store.providers[p])
  /\ \A m \in Models : store.models[m].there => store.providers[ProviderOf[m]].there

(* The keys of a provider that stays are changed by a step of its own      *)
(* update, and only when the change names a key.                           *)
KeysChangedByName ==
  \A p \in Providers :
    (/\ store.providers[p].there /\ store'.providers[p].there
     /\ store'.providers[p].key # store.providers[p].key) =>
       \E h \in Handlers : /\ pc[h] = "write" /\ pc'[h] # "write"
                           /\ op[h].do = "update_provider"
                           /\ op[h].p = p /\ op[h].key # Absent

(* A credential that a change does not mention is left as it is: `PATCH    *)
(* {"credential": null}` clears one and `PATCH {}` leaves it alone.  One   *)
(* request after another: with two at once, the row one of them read before*)
(* the other stored a key takes that key away (see UpdatedRow_FieldByField,*)
(* which would not).                                                       *)
CredentialLeftAlone == [][~overlapped => KeysChangedByName]_vars
=============================================================================
