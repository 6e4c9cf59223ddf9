------------------------------ MODULE Accounts ------------------------------
(***************************************************************************)
(* The usage rows a store holds and what the management API says of them:  *)
(* totals over a time range, grouped, single requests page by page, and    *)
(* forgetting what is old.  Rows arrive through the recorder's queue, in   *)
(* the order they were recorded, and take ids that are never used again.   *)
(*                                                                         *)
(* Latency and the reason a reply stopped are left out of a row.           *)
(***************************************************************************)
EXTENDS Pricing, Lists

CONSTANTS
  DayLength,  (* of the clock the rows are stamped with                    *)
  Lasting     (* ids in the order they are given out, for a bound          *)

ASSUME AccountsAssumption == DayLength \in Nat \ {0} /\ Lasting \in Nat

VARIABLES
  now,     (* the wall clock                                               *)
  queue,   (* rows recorded and not written                                *)
  table,   (* the usage table: id -> row                                   *)
  nextId,  (* AUTOINCREMENT                                                *)
  walk,    (* a client that lists single requests page by page             *)
  forgot   (* history: the requests whose rows were forgotten              *)

accounts == <<now, queue, table, nextId, walk, forgot>>

-----------------------------------------------------------------------------
(* Rows *)

Row(id, asked, route, served, outcome, code, attempts, fell_through, usage, cost) ==
  [at |-> now, request_id |-> id, asked |-> asked,
   route |-> IF route = None THEN None ELSE Some(route[1].name),
   provider |-> IF route = None THEN None ELSE Some(route[1].provider),
   served |-> served, outcome |-> outcome, code |-> code, attempts |-> attempts,
   fell_through |-> fell_through, tokens |-> usage, cost |-> cost]

(* A request that got no answer from any provider.                         *)
FailedRow(id, asked, code) == Row(id, asked, None, None, "error", Some(code), 0, 0, Absent, NoCost)
RefusedRow(id, asked) == [FailedRow(id, asked, "refused") EXCEPT !.outcome = "refused"]

AnsweredRow(id, asked, route, served, outcome, attempts, fell_through, usage, cost) ==
  Row(id, asked, Some(route), Some(served), outcome, None, attempts, fell_through, usage, cost)

-----------------------------------------------------------------------------
(* Which rows a query looks at.  A row without the column is not selected. *)

Fits(wanted, column) == wanted = None \/ column = wanted

Selected(filter, row) ==
  /\ filter.from = None \/ row.at >= Or(filter.from, 0)
  /\ filter.to = None \/ row.at < Or(filter.to, 0)
  /\ Fits(filter.provider, row.provider) /\ Fits(filter.model, row.route)
  /\ Fits(filter.asked, Some(row.asked)) /\ Fits(filter.outcome, Some(row.outcome))

Readable(filter) ==
  /\ Or(filter.outcome, "ok") \in {"ok", "refused", "error", "interrupted"}
  /\ filter.from = None \/ filter.to = None \/ Or(filter.from, 0) < Or(filter.to, 0)

Ids(filter) == {id \in DOMAIN table : Selected(filter, table[id])}

-----------------------------------------------------------------------------
(* Totals *)

Groupings == {"none", "model", "provider", "asked", "day"}

KeyOf(grouping, row) ==
  CASE grouping = "none"     -> None
    [] grouping = "model"    -> row.route
    [] grouping = "provider" -> row.provider
    [] grouping = "asked"    -> Some(row.asked)
    [] grouping = "day"      -> Some(row.at \div DayLength)

Statuses == {"priced", "partial", "unpriced", "free"}
Outcomes == {"ok", "refused", "error", "interrupted"}

(* One line of the grouped query: the rows of one key and one currency.    *)
Part(ids) ==
  LET told(c) == {id \in ids : table[id].tokens[c] # None}
      paid == {id \in ids : table[id].cost.currency # None}
  IN [requests |-> Cardinality(ids),
      outcomes |-> [o \in Outcomes |-> Cardinality({id \in ids : table[id].outcome = o})],
      costs |-> [s \in Statuses |-> Cardinality({id \in ids : table[id].cost.status = s})],
      missing |-> Cardinality({id \in ids : /\ table[id].outcome \in {"ok", "interrupted"}
                                            /\ table[id].tokens = Absent}),
      tokens |-> [c \in Counts |->
                    When(told(c) # {}, SumFunction([id \in told(c) |-> table[id].tokens[c][1]]))],
      amounts |-> [c \in {table[id].cost.currency[1] : id \in paid} |->
                     SumFunction([id \in paid |-> table[id].cost.micros[1]])]]

(* Counts add up, and amounts within each currency.                        *)
AbsorbPart(a, b) ==
  [requests |-> a.requests + b.requests,
   outcomes |-> [o \in Outcomes |-> a.outcomes[o] + b.outcomes[o]],
   costs |-> [s \in Statuses |-> a.costs[s] + b.costs[s]],
   missing |-> a.missing + b.missing, tokens |-> Merge(a.tokens, b.tokens),
   amounts |-> [c \in DOMAIN a.amounts \cup DOMAIN b.amounts |->
                  (IF c \in DOMAIN a.amounts THEN a.amounts[c] ELSE 0)
                  + (IF c \in DOMAIN b.amounts THEN b.amounts[c] ELSE 0)]]

NoTotals ==
  [requests |-> 0, outcomes |-> [o \in Outcomes |-> 0], costs |-> [s \in Statuses |-> 0],
   missing |-> 0, tokens |-> Absent, amounts |-> <<>>]

(* The totals of some groups, added up one after another.                  *)
AbsorbAll(groups) == FoldFunction(LAMBDA part, sum : AbsorbPart(sum, part), NoTotals, groups)

(* One total per key, whatever number of currencies its rows are in.       *)
Summary(filter, grouping) ==
  LET ids == Ids(filter)
      keys == {KeyOf(grouping, table[id]) : id \in ids}
      of(key) == {id \in ids : KeyOf(grouping, table[id]) = key}
      parts(key) == {{id \in of(key) : table[id].cost.currency = c} :
                       c \in {table[id].cost.currency : id \in of(key)}}
  IN [key \in keys |-> AbsorbAll([part \in parts(key) |-> Part(part)])]

(* A floor that is the amount: nothing was left unpriced.                  *)
Complete(totals) == totals.costs["partial"] = 0 /\ totals.costs["unpriced"] = 0

TotalOf(filter) ==
  LET all == Summary(filter, "none") IN
  IF DOMAIN all = {} THEN NoTotals ELSE all[None]

-----------------------------------------------------------------------------
(* Single requests *)

LowestId == 1
BeyondIds == Lasting + 1

Newest(ids, limit) ==
  LET n == Cardinality(ids) IN
  [k \in 1..(IF n <= limit THEN n ELSE limit) |-> Nth(ids, n + 1 - k)]

(* A page begins where the last one ended, with the row that ended it. *)
Page_Overlapping(filter, before, limit) ==
  Newest({id \in Ids(filter) : id <= before}, limit)

Page(filter, before, limit) ==
  Newest({id \in Ids(filter) : id < before}, limit)

(* Only a full page has another one after it.                              *)
NextBefore(page, limit) == When(Len(page) = limit, Last(page))

NoWalk == [filter |-> None, limit |-> 0, before |-> None, got |-> <<>>, due |-> {}]

(* The requests that some rows are of.                                     *)
RequestsOf(ids) == {table[id].request_id : id \in ids}

(* due is history: the requests the walk was to list when it began.        *)
Walked(w, page) ==
  [w EXCEPT !.got = @ \o [i \in DOMAIN page |-> table[page[i]].request_id],
            !.before = NextBefore(page, w.limit)]

StartWalk(filter, limit) ==
  /\ walk.filter = None /\ Readable(filter)
  /\ walk' = Walked([NoWalk EXCEPT !.filter = Some(filter), !.limit = limit, !.due = RequestsOf(Ids(filter))],
                    Page(filter, BeyondIds, limit))
  /\ UNCHANGED <<now, queue, table, nextId, forgot>>

NextPage ==
  /\ walk.filter # None /\ walk.before # None
  /\ walk' = Walked(walk, Page(walk.filter[1], walk.before[1], walk.limit))
  /\ UNCHANGED <<now, queue, table, nextId, forgot>>

EndWalk ==
  /\ walk.filter # None /\ walk.before = None
  /\ walk' = NoWalk
  /\ UNCHANGED <<now, queue, table, nextId, forgot>>

-----------------------------------------------------------------------------
(* Rows coming and going *)

AccountsInit ==
  /\ now = 0 /\ queue = <<>> /\ table = <<>> /\ nextId = LowestId
  /\ walk = NoWalk /\ forgot = {}

Enqueue(row) == queue' = Append(queue, row)

(* The writer takes what there is and inserts it in one transaction.       *)
Write ==
  /\ queue # <<>> /\ nextId + Len(queue) <= BeyondIds
  /\ LET n == Len(queue) IN
     /\ table' = [id \in DOMAIN table \cup (nextId..(nextId + n - 1)) |->
                    IF id \in DOMAIN table THEN table[id] ELSE queue[id - nextId + 1]]
     /\ nextId' = nextId + n
  /\ queue' = <<>>
  /\ UNCHANGED <<now, walk, forgot>>

Forgotten(gone) == UNCHANGED nextId

(* Rows recorded before a time, which has to be named.                     *)
Forget(before) ==
  LET gone == {id \in DOMAIN table : table[id].at < before} IN
  /\ gone # {}
  /\ table' = Restrict(table, DOMAIN table \ gone)
  /\ Forgotten(gone)
  /\ forgot' = forgot \cup RequestsOf(gone)
  /\ UNCHANGED <<now, queue, walk>>

Tick == now' = now + 1 /\ UNCHANGED <<queue, table, nextId, walk, forgot>>

-----------------------------------------------------------------------------
(* Properties *)

(* A client that walks the pages to the end is given each request that its *)
(* first query selected exactly once, but for those forgotten on the way,  *)
(* and none that came after, however rows come and go between two pages    *)
(* (Store::usage_requests, next_before in manage.rs).                      *)
PagesListTheTotals ==
  /\ IsInjective(walk.got)
  /\ ToSet(walk.got) \subseteq walk.due
  /\ walk.filter # None /\ walk.before = None => walk.due \subseteq ToSet(walk.got) \cup forgot
=============================================================================
