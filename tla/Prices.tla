------------------------------- MODULE Prices -------------------------------
(***************************************************************************)
(* What each model costs, kept current: the table an image ships, a sync   *)
(* with a public list on a schedule and on request, a person who settles   *)
(* the prices a sync holds back, and prices set by hand, all at once over  *)
(* the store and the gateway that prices calls.                            *)
(*                                                                         *)
(* A rate gives an amount for each part of a price; the models are those   *)
(* of one vendor.  A closure given to Db::run is one step.                 *)
(***************************************************************************)
EXTENDS Integers

CONSTANTS
  Models, Parts,
  Providers,   (* those that may be asked for these models                 *)
  OwnEndpoint, (* those of them on the vendor's own endpoint               *)
  Rates,       (* the rates the list may give, and people may set          *)
  NoRate,
  Tables,      (* what the image may ship: a rate or none for each model   *)
  Handlers,    (* clients of the management API, one request at a time     *)
  Operations,  (* what they may ask for                                    *)
  Schedule     (* the task that syncs for as long as the process runs      *)

MaybeRate == Rates \cup {NoRate}

ASSUME PricesAssumption ==
  /\ OwnEndpoint \subseteq Providers
  /\ Rates \subseteq [Parts -> Nat] /\ NoRate \notin Rates
  /\ Tables \subseteq [Models -> MaybeRate]
  /\ Schedule \notin Handlers

Workers == Handlers \cup {Schedule}
Nobody == "nobody"

VARIABLES
  list,      (* what the public list gives                                 *)
  shipped,   (* the image's table                                          *)
  synced,    (* synced_prices: for each model what applies, what is held   *)
             (* and what was refused; a row with none of them is no row    *)
  manual,    (* price_overrides                                            *)
  live,      (* what the gateway serving charges                           *)
  running,   (* the lock of the sync: who runs one                         *)
  pc, job,   (* where each worker is, and with what                        *)
  fetched,   (* the list as a sync read it                                 *)
  built,     (* the prices of the gateway a worker built                   *)
  (* history *)
  overlapped,(* whether a worker ever started beside another, or was dropped *)
  refused    (* of each model, what a person refused last since a price    *)
             (* was last applied                                           *)

stored == <<synced, manual, refused>>
vars   == <<list, shipped, synced, manual, live, running, pc, job, fetched, built,
            overlapped, refused>>

Row == [rate : MaybeRate, held : MaybeRate, rejected : MaybeRate]
NoRow == [rate |-> NoRate, held |-> NoRate, rejected |-> NoRate]

Jobs ==
  [do : {"sync"}]
  \cup [do : {"accept", "reject"}, m : Models]
  \cup [do : {"put_price"}, p : Providers, m : Models, rate : Rates]
  \cup [do : {"delete_price"}, p : Providers, m : Models]

Sync == [do |-> "sync"]

ASSUME OperationsAssumption == Operations \subseteq Jobs

(* The local variables of a worker that is not at work.                    *)
NoList == [m \in Models |-> NoRate]
NoPrices == [p \in Providers |-> NoList]

-----------------------------------------------------------------------------
(* Which price applies *)

(* What a sync compares a new price with.                                  *)
Applies(m) == IF synced[m].rate # NoRate THEN synced[m].rate ELSE shipped[m]

(* What each provider charges: set by hand, else synced, else shipped, the *)
(* last two on the vendor's own endpoint only.                             *)
Compose ==
  [p \in Providers |-> [m \in Models |->
     IF manual[p][m] # NoRate THEN manual[p][m]
     ELSE IF p \in OwnEndpoint THEN Applies(m) ELSE NoRate]]

Distance(a, b) == IF a >= b THEN a - b ELSE b - a

(* Some part of the price would move by more than half, or to nothing.  A  *)
(* part that appears is the list knowing more.                             *)
NeedsAPerson(old, new) ==
  \E part \in Parts :
    old[part] # 0 /\ (new[part] = 0 \/ 2 * Distance(new[part], old[part]) > old[part])

-----------------------------------------------------------------------------
(* plan: what a sync does to a model's row, given what the list says.      *)

(* Nothing new is looked at while something waits. *)
Unchanged_WhileHeld(m, new) ==
  new \in {NoRate, Applies(m), synced[m].rejected} \/ synced[m].held # NoRate

(* What the list says is what applies, was refused or waits already; or it *)
(* says nothing.                                                           *)
Unchanged(m, new) == new \in {NoRate, Applies(m), synced[m].rejected, synced[m].held}

(* The first synced price is compared with nothing, not with the shipped.  *)
Holds_FirstIsFree(m, new) ==
  ~Unchanged(m, new) /\ synced[m].rate # NoRate /\ NeedsAPerson(synced[m].rate, new)

Holds(m, new) ==
  ~Unchanged(m, new) /\ Applies(m) # NoRate /\ NeedsAPerson(Applies(m), new)

ApplyIt(m, new) == ~Unchanged(m, new) /\ ~Holds(m, new)

(* A price that applies leaves another one waiting. *)
Planned_HeldStays(m, new) ==
  CASE ApplyIt(m, new) -> [synced[m] EXCEPT !.rate = new]
    [] Holds(m, new)   -> [synced[m] EXCEPT !.held = new]
    [] new # NoRate /\ new = Applies(m) -> [synced[m] EXCEPT !.held = NoRate]
    [] OTHER           -> synced[m]

(* The row after the sync.  A hold keeps what applies; the list coming     *)
(* back to what applies drops a hold.                                      *)
Planned(m, new) ==
  CASE ApplyIt(m, new) -> [rate |-> new, held |-> NoRate, rejected |-> NoRate]
    [] Holds(m, new)   -> [synced[m] EXCEPT !.held = new]
    [] new # NoRate /\ new = Applies(m) -> [synced[m] EXCEPT !.held = NoRate]
    [] OTHER           -> synced[m]

-----------------------------------------------------------------------------
Init ==
  /\ list \in [Models -> MaybeRate] /\ shipped \in Tables
  /\ synced = [m \in Models |-> NoRow]
  /\ manual = NoPrices
  /\ live = Compose
  /\ running = Nobody
  /\ pc = [w \in Workers |-> "idle"]
  /\ job = [w \in Workers |-> Sync]
  /\ fetched = [w \in Workers |-> NoList]
  /\ built = [w \in Workers |-> NoPrices]
  /\ overlapped = FALSE
  /\ refused = [m \in Models |-> NoRate]

Goes(w, where) == pc' = [pc EXCEPT ![w] = where]

AtWork(w) == pc[w] # "idle"
Quiet == \A w \in Workers : ~AtWork(w)

(* A worker that is done, or dropped, lets go of the lock and of what it   *)
(* held, and the next request or round may come.                           *)
Finishes(w) ==
  /\ Goes(w, "idle")
  /\ running' = IF running = w THEN Nobody ELSE running
  /\ job' = [job EXCEPT ![w] = Sync]
  /\ fetched' = [fetched EXCEPT ![w] = NoList]
  /\ built' = [built EXCEPT ![w] = NoPrices]

GoesOn(w, where) == Goes(w, where) /\ UNCHANGED <<running, job, fetched, built>>

(* Somebody else edits the list. *)
ListChanges ==
  /\ \E m \in Models, r \in MaybeRate : r # list[m] /\ list' = [list EXCEPT ![m] = r]
  /\ UNCHANGED <<shipped, stored, live, running, pc, job, fetched, built, overlapped>>

-----------------------------------------------------------------------------
(* A sync, one at a time *)

(* The interval since the last success, or the hour since a failure, is up.*)
ComesRound ==
  /\ pc[Schedule] = "idle" /\ GoesOn(Schedule, "lock")
  /\ overlapped' = (overlapped \/ ~Quiet)
  /\ UNCHANGED <<list, shipped, stored, live>>

Locks(w) ==
  /\ pc[w] = "lock" /\ running = Nobody
  /\ running' = w /\ Goes(w, "fetch")
  /\ UNCHANGED <<list, shipped, stored, live, job, fetched, built, overlapped>>

(* A list that prices nothing is refused as broken.                        *)
Fetches(w) ==
  /\ pc[w] = "fetch" /\ list # NoList
  /\ fetched' = [fetched EXCEPT ![w] = list]
  /\ Goes(w, "plan")
  /\ UNCHANGED <<list, shipped, stored, live, running, job, built, overlapped>>

FetchFails(w) ==
  /\ pc[w] = "fetch"
  /\ Finishes(w)
  /\ UNCHANGED <<list, shipped, stored, live, overlapped>>

(* Whether the sync changes a price that applies.                          *)
AppliesAny(w) == \E m \in Models : ApplyIt(m, fetched[w][m])

(* The gateway is rebuilt when something is held, not when it is applied. *)
Reloads_OnHold(w) == \E m \in Models : Holds(m, fetched[w][m])

Reloads(w) == AppliesAny(w)

(* Every model that is listed, in one transaction.  To apply a price is to *)
(* start anew: what was refused was refused against another.               *)
PlanAll(w) ==
  /\ synced' = [m \in Models |-> Planned(m, fetched[w][m])]
  /\ refused' = [m \in Models |-> IF ApplyIt(m, fetched[w][m]) THEN NoRate ELSE refused[m]]

Plan(w) ==
  /\ pc[w] = "plan"
  /\ PlanAll(w)
  /\ IF Reloads(w) THEN GoesOn(w, "snapshot") ELSE Finishes(w)
  /\ UNCHANGED <<list, shipped, manual, live, overlapped>>

-----------------------------------------------------------------------------
(* The handlers *)

Asks(h) ==
  /\ pc[h] = "idle"
  /\ \E j \in Operations :
       /\ job' = [job EXCEPT ![h] = j]
       /\ Goes(h, IF j.do = "sync" THEN "lock" ELSE "write")
  /\ overlapped' = (overlapped \/ ~Quiet)
  /\ UNCHANGED <<list, shipped, stored, live, running, fetched, built>>

(* Whether there is a row to settle or to delete.                          *)
Found(j) ==
  CASE j.do \in {"accept", "reject"} -> synced[j.m].held # NoRate
    [] j.do = "put_price"            -> TRUE
    [] j.do = "delete_price"         -> manual[j.p][j.m] # NoRate

(* Whatever is held when it runs is settled.                               *)
Settled(j) ==
  CASE j.do = "accept" -> [rate |-> synced[j.m].held, held |-> NoRate, rejected |-> NoRate]
    [] j.do = "reject" -> [synced[j.m] EXCEPT !.held = NoRate, !.rejected = synced[j.m].held]

Settle(h) ==
  /\ pc[h] = "write" /\ job[h].do \in {"accept", "reject"} /\ Found(job[h])
  /\ synced' = [synced EXCEPT ![job[h].m] = Settled(job[h])]
  /\ refused' = [refused EXCEPT ![job[h].m] =
                    IF job[h].do = "reject" THEN synced[job[h].m].held ELSE NoRate]
  /\ IF job[h].do = "accept" THEN GoesOn(h, "snapshot") ELSE Finishes(h)
  /\ UNCHANGED <<list, shipped, manual, live, overlapped>>

SetByHand(h) ==
  /\ pc[h] = "write" /\ job[h].do \in {"put_price", "delete_price"} /\ Found(job[h])
  /\ LET j == job[h] IN
       manual' = [manual EXCEPT ![j.p][j.m] = IF j.do = "put_price" THEN j.rate ELSE NoRate]
  /\ GoesOn(h, "snapshot")
  /\ UNCHANGED <<list, shipped, synced, refused, live, overlapped>>

NotFound(h) ==
  /\ pc[h] = "write" /\ ~Found(job[h])
  /\ Finishes(h)
  /\ UNCHANGED <<list, shipped, stored, live, overlapped>>

-----------------------------------------------------------------------------
(* reload, by a sync or a handler: the prices of the gateway only.         *)

Snapshot(w) ==
  /\ pc[w] = "snapshot"
  /\ built' = [built EXCEPT ![w] = Compose]
  /\ Goes(w, "swap")
  /\ UNCHANGED <<list, shipped, stored, live, running, job, fetched, overlapped>>

Swap(w) ==
  /\ pc[w] = "swap"
  /\ live' = built[w]
  /\ Finishes(w)
  /\ UNCHANGED <<list, shipped, stored, overlapped>>

-----------------------------------------------------------------------------
(* The client of a handler goes away, and the lock with the handler.  The  *)
(* closure of a sync that is already with the blocking pool runs when its  *)
(* turn comes.                                                             *)

Drop(h) ==
  /\ AtWork(h) /\ pc[h] # "orphan"
  /\ Finishes(h)
  /\ overlapped' = TRUE
  /\ UNCHANGED <<list, shipped, stored, live>>

LeaveClosure(h) ==
  /\ pc[h] = "plan"
  /\ Goes(h, "orphan") /\ running' = Nobody
  /\ overlapped' = TRUE
  /\ UNCHANGED <<list, shipped, stored, live, job, fetched, built>>

RunsOn(h) ==
  /\ pc[h] = "orphan"
  /\ PlanAll(h)
  /\ Finishes(h)
  /\ UNCHANGED <<list, shipped, manual, live, overlapped>>

-----------------------------------------------------------------------------
Syncs(w) == Locks(w) \/ Fetches(w) \/ FetchFails(w) \/ Plan(w) \/ Snapshot(w) \/ Swap(w)
Handles(h) == Settle(h) \/ SetByHand(h) \/ NotFound(h) \/ RunsOn(h)

Next ==
  \/ ListChanges \/ ComesRound
  \/ \E w \in Workers : Syncs(w)
  \/ \E h \in Handlers : Asks(h) \/ Handles(h) \/ Drop(h) \/ LeaveClosure(h)

Spec == Init /\ [][Next]_vars

(* The runtime schedules what can run, the timer of the schedule fires,    *)
(* and a fetch ends: its transport has a timeout.  Whoever waits for the   *)
(* lock gets it in turn.                                                   *)
Fairness ==
  /\ WF_vars(ComesRound)
  /\ \A w \in Workers : WF_vars(Syncs(w)) /\ SF_vars(Locks(w))
  /\ \A h \in Handlers : WF_vars(Handles(h))

FairSpec == Spec /\ Fairness

-----------------------------------------------------------------------------
(* Properties *)

TypeOK ==
  /\ list \in [Models -> MaybeRate] /\ shipped \in [Models -> MaybeRate]
  /\ synced \in [Models -> Row]
  /\ manual \in [Providers -> [Models -> MaybeRate]]
  /\ live \in [Providers -> [Models -> MaybeRate]]
  /\ running \in Workers \cup {Nobody}
  /\ pc \in [Workers -> {"idle", "lock", "fetch", "plan", "write", "snapshot", "swap",
                         "orphan"}]
  /\ job \in [Workers -> Jobs]
  /\ fetched \in [Workers -> [Models -> MaybeRate]]
  /\ built \in [Workers -> [Providers -> [Models -> MaybeRate]]]
  /\ overlapped \in BOOLEAN
  /\ refused \in [Models -> MaybeRate]

(* "A large move waits for a person": whatever syncs run, however late,    *)
(* the price that applies moves by more than half, or to nothing, only     *)
(* when somebody accepts it.                                               *)
LargeMovesWait ==
  [][\A m \in Models :
       (Applies(m) # NoRate /\ NeedsAPerson(Applies(m), Applies(m)')) =>
         \E h \in Handlers : Settle(h) /\ job[h] = [do |-> "accept", m |-> m]]_vars

(* What waits for a person has something to ask: it is a large move from   *)
(* the price that applies now, and not the one a person refused last.  No  *)
(* more than that: with another price refused in between, one that was     *)
(* refused is held again and asked about again, though the comment on      *)
(* SyncedPrice::rejected says it is not.                                   *)
HeldIsAQuestion ==
  \A m \in Models : synced[m].held # NoRate =>
    /\ Applies(m) # NoRate /\ NeedsAPerson(Applies(m), synced[m].held)
    /\ synced[m].held # refused[m]

(* Every change of a price that applies is served, and nothing else is:    *)
(* with one worker at a time, the gateway charges what the store says.     *)
ServedAsStored == Quiet /\ ~overlapped => live = Compose

(* A list that stays as it is, read again and again, is taken up: its      *)
(* price applies, waits for a person, or was refused by one.               *)
ListIsTakenUp ==
  \A m \in Models, r \in Rates :
    (<>[](list[m] = r) /\ []<><<Plan(Schedule)>>_vars)
      => <>[](r \in {Applies(m), synced[m].held, synced[m].rejected})
=============================================================================
