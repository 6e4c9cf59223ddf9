----------------------------- MODULE Bills_proofs ------------------------------
(***************************************************************************)
(* Theorems about Bills, Media and Accounts, for any configuration, any    *)
(* calls, any clients reading pages and any times at which rows are        *)
(* written and forgotten.                                                  *)
(*                                                                         *)
(* Part 1.  The calls, their rows and the pages of them.                   *)
(***************************************************************************)
EXTENDS Bills, Lists_proofs, SequenceTheorems

-----------------------------------------------------------------------------
(* The inductive invariant: what there is *)

Options(S) == {None} \cup {Some(x) : x \in S}

Errors == DOMAIN CodeOf

(* What a name can resolve to: a set's plan, or a model's own.             *)
Plans ==
  {Plan(MediaRoutes(Sets[s]), Sets[s].attempts, Sets[s].deadline, Sets[s].on_device) :
     s \in DOMAIN Sets}
  \cup {Plan(<<m>>, 2, None, FALSE) : m \in DOMAIN Enabled}

CallType ==
  [phase : {"idle", "choosing", "asking", "sent", "waiting"}, sends : Options(Sends),
   plan : Options(Plans), at : Nat, attempt : Nat, tries : Nat, fell : Nat,
   last : Options(Errors), elapsed : Int, wait : Int]

Tries == [route : Nat, at : Int, failed : Options(Errors)]

EntryOK(entry) ==
  /\ DOMAIN entry = {"sends", "plan", "tries", "how", "answer", "billed"}
  /\ entry.sends \in Sends /\ entry.plan \in Options(Plans) /\ entry.tries \in Seq(Tries)
  /\ entry.plan # None => TriesKept(entry)

MediaShape ==
  /\ call \in CallType
  /\ log \in Seq(ToSet(log)) /\ Number <= MaxCalls
  /\ \A n \in 1..Number : EntryOK(log[n])

(* Chat calls are numbered one after another. *)
ChatsNumbered ==
  /\ DOMAIN bills \subseteq Nat /\ IsFiniteSet(Chatted)
  /\ Chatted = MaxCalls + 1..MaxCalls + Cardinality(Chatted)

AccountsShape ==
  /\ nextId \in 1..BeyondIds
  /\ DOMAIN table \subseteq 1..nextId - 1
  /\ queue \in Seq(ToSet(queue))

-----------------------------------------------------------------------------
(* The inductive invariant: a client that reads pages *)

(* The rows that are still to be listed below a bound.                     *)
Ahead(filter, bound) == {id \in Ids(filter) : id < bound}

(* What was due is listed, forgotten, or still ahead; nothing that is ahead*)
(* was listed, and all of it is due.                                       *)
Walking(w, bound) ==
  /\ w.limit \in Nat \ {0}
  /\ w.got \in Seq(ToSet(w.got)) /\ IsInjective(w.got) /\ ToSet(w.got) \subseteq w.due
  /\ \A id \in Ahead(w.filter[1], bound) :
       table[id].request_id \in w.due /\ table[id].request_id \notin ToSet(w.got)
  /\ \A request \in w.due :
       \/ request \in ToSet(w.got) \/ request \in forgot
       \/ \E id \in Ahead(w.filter[1], bound) : table[id].request_id = request

(* The rows below this one are still to be listed: none, after a last page.*)
Bound(w) == Or(w.before, LowestId)

WalkOK ==
  /\ DOMAIN walk = DOMAIN NoWalk /\ walk = [f \in DOMAIN walk |-> walk[f]]
  /\ walk.filter = None => walk.got = <<>> /\ walk.due = {}
  /\ walk.filter # None => Walking(walk, Bound(walk)) /\ Bound(walk) \in 1..nextId

-----------------------------------------------------------------------------
(* The inductive invariant: a row for each call *)

(* The media calls that left a row, and the calls that may have.           *)
LeftARow == {n \in 1..Number : log[n].how \notin {"open", "unread", "left"}}
Numbered == Chatted \cup LeftARow

RowsOnce ==
  /\ \A i, j \in DOMAIN table : table[i].request_id = table[j].request_id => i = j
  /\ \A i, j \in DOMAIN queue : queue[i].request_id = queue[j].request_id => i = j
  /\ \A i \in DOMAIN table, j \in DOMAIN queue : table[i].request_id # queue[j].request_id
  /\ forgot \subseteq Numbered
  /\ \A i \in DOMAIN table : table[i].request_id \in Numbered \ forgot
  /\ \A j \in DOMAIN queue : queue[j].request_id \in Numbered \ forgot

(* No row of a media call is lost.                                        *)
RowsKept ==
  \A id \in LeftARow \ forgot :
    \/ \E i \in DOMAIN table : table[i].request_id = id
    \/ \E j \in DOMAIN queue : queue[j].request_id = id

(* What a row says of the call it is of. *)
Says(entry, row) ==
  IF entry.plan = None THEN row.outcome = "error" /\ row.attempts = 0 ELSE RowTells(entry, row)

RowsTell ==
  \A n \in 1..Number : log[n].how # "open" =>
    /\ \A i \in DOMAIN table : table[i].request_id = n => Says(log[n], table[i])
    /\ \A j \in DOMAIN queue : queue[j].request_id = n => Says(log[n], queue[j])

-----------------------------------------------------------------------------
(* The inductive invariant: the call being served *)

(* A route may be asked again now.                                         *)
MayRepeat(try, at, time) ==
  /\ try.route = at
  /\ try.failed[1] \in {"rate_limited", "rate_limited_for", "timeout", "transient"}
  /\ try.failed[1] = "rate_limited_for" => time >= try.at + RetryAfter

(* The provider whose turn it is was built and may be asked.               *)
RouteAt(c) == Split[c.plan[1].routes[c.at]]
MayBeAsked(c) ==
  /\ RouteAt(c).provider \in DOMAIN Built
  /\ c.sends[1].private \/ c.plan[1].on_device => Built[RouteAt(c).provider].on_device

(* A call that is not over is the last one of the log.                     *)
Open ==
  call.phase # "idle" =>
    /\ Number >= 1 /\ log[Number].how = "open"
    /\ call.plan # None /\ log[Number].plan = call.plan
    /\ call.sends # None /\ log[Number].sends = call.sends[1]
    /\ call.at >= 1 /\ call.fell >= call.at - 1
    /\ call.tries = Len(log[Number].tries)
    /\ call.last # Some("refused")

(* No route after the one whose turn it is was asked, nor that one before  *)
(* it is asked first; each try but one that was sent has failed, and none  *)
(* was refused.                                                            *)
TriesSoFar(c, tries) ==
  \A i \in 1..Len(tries) :
    /\ tries[i].route <= c.at
    /\ c.phase = "choosing" => tries[i].route < c.at
    /\ (c.phase = "asking" /\ c.attempt = 1) => tries[i].route < c.at
    /\ tries[i].failed # Some("refused")
    /\ (c.phase = "sent" => i < Len(tries)) => tries[i].failed # None

(* What the last try says of the phase.                                    *)
LastTry(c, tries) ==
  LET last == tries[Len(tries)] IN
  /\ c.phase = "sent" =>
       /\ tries # <<>> /\ last.failed = None /\ last.route = c.at /\ last.at <= c.elapsed
       /\ Serves(Built[RouteAt(c).provider].type, KindAt[c.sends[1].endpoint])
  /\ c.phase = "waiting" => tries # <<>> /\ MayRepeat(last, c.at, c.elapsed + c.wait)
  /\ (c.phase = "asking" /\ c.attempt > 1) =>
       tries # <<>> /\ MayRepeat(last, c.at, c.elapsed)

(* How often the route was asked, against what its plan allows.            *)
Counted(c, tries) ==
  c.phase \in {"asking", "sent", "waiting"} =>
    /\ MayBeAsked(c)
    /\ c.attempt \in 1..c.plan[1].attempts
    /\ c.phase = "waiting" => c.attempt < c.plan[1].attempts
    /\ TimesAsked(tries, c.at) = IF c.phase = "asking" THEN c.attempt - 1 ELSE c.attempt

(* Where a call is among the routes of its plan, and what its tries say.   *)
ProgressAt(c, tries) == TriesSoFar(c, tries) /\ LastTry(c, tries) /\ Counted(c, tries)

Progress == call.phase # "idle" => ProgressAt(call, log[Number].tries)

CallInv == MediaShape /\ Open /\ Progress
RowInv == AccountsShape /\ WalkOK /\ RowsOnce /\ RowsKept /\ RowsTell

IInv == CallInv /\ RowInv /\ ChatsNumbered

-----------------------------------------------------------------------------
(* Pages *)

(* A page holds rows of what it is taken from, none twice; a row that is   *)
(* not on it comes after the last row of a page that is full.              *)
LEMMA NewestIs ==
  ASSUME NEW N \in Nat, NEW K \in SUBSET (1..N), NEW limit \in Nat \ {0}
  PROVE  LET page == Newest(K, limit) IN
         /\ page \in Seq(K) /\ Len(page) \in Nat
         /\ \A i, j \in DOMAIN page : page[i] = page[j] => i = j
         /\ Len(page) = limit => \A i \in DOMAIN page : page[i] >= page[limit]
         /\ \A m \in K : \/ \E i \in DOMAIN page : page[i] = m
                         \/ Len(page) = limit /\ m < page[limit]
<1>. DEFINE n == Cardinality(K)
            size == IF n <= limit THEN n ELSE limit
            page == Newest(K, limit)
<1>0. n \in Nat
  BY UptoFinite
<1>1. n \in Nat /\ size \in Nat /\ size <= n /\ size <= limit
  BY <1>0
<1>2. page = [k \in 1..size |-> Nth(K, n + 1 - k)]
  BY DEF Newest
<1>3. \A k \in 1..size : n + 1 - k \in 1..n
  BY <1>1
<1>4. \A k \in 1..size : page[k] \in K
  <2>1. ASSUME NEW k \in 1..size PROVE page[k] \in K
    <3>1. Nth(K, n + 1 - k) \in K
      BY <1>3, NthIs
    <3>. QED
      BY <1>2, <3>1
  <2>. QED
    BY <2>1
<1>5. page \in Seq(K) /\ Len(page) = size /\ DOMAIN page = 1..size
  <2>1. page \in [1..size -> K]
    BY <1>2, <1>4
  <2>. QED
    BY <1>1, <2>1
<1>6. ASSUME NEW i \in 1..size, NEW j \in 1..size, i < j PROVE page[j] < page[i]
  <2>1. n + 1 - j < n + 1 - i
    BY <1>1, <1>6
  <2>2. Nth(K, n + 1 - j) < Nth(K, n + 1 - i)
    BY <1>3, <2>1, NthGrows
  <2>. QED
    BY <1>2, <2>2
<1>7. \A m \in K : m \in Nat
  OBVIOUS
<1>8. ASSUME NEW i \in 1..size, NEW j \in 1..size, page[i] = page[j] PROVE i = j
  <2>0. page[i] \in Nat /\ page[j] \in Nat
    BY <1>4, <1>7
  <2>1. ~(i < j)
    BY <1>6, <1>8, <2>0
  <2>2. ~(j < i)
    BY <1>6, <1>8, <2>0
  <2>. QED
    BY <1>1, <2>1, <2>2
<1>9. ASSUME size = limit, NEW i \in 1..size PROVE page[i] >= page[limit]
  <2>1. limit \in 1..size /\ (i = limit \/ i < limit)
    BY <1>1, <1>9
  <2>2. page[i] \in Nat /\ page[limit] \in Nat
    BY <1>4, <1>7, <2>1
  <2>3. i < limit => page[limit] < page[i]
    BY <1>6, <2>1
  <2>. QED
    BY <2>1, <2>2, <2>3
<1>10. ASSUME NEW m \in K
       PROVE  \/ \E i \in DOMAIN page : page[i] = m
              \/ Len(page) = limit /\ m < page[limit]
  <2>. DEFINE c == Cardinality(Upto(K, m))
              k == n + 1 - c
  <2>1. c \in 1..n /\ Nth(K, c) = m
    BY NthOfCount
  <2>2. k \in 1..n /\ n + 1 - k = c
    BY <1>1, <2>1
  <2>3. CASE k \in 1..size
    BY <1>2, <1>5, <2>1, <2>2, <2>3
  <2>4. CASE k \notin 1..size
    <3>1. size = limit /\ limit < k /\ limit \in 1..size
      BY <1>1, <2>2, <2>4
    <3>2. c < n + 1 - limit /\ n + 1 - limit \in 1..n
      BY <1>1, <2>1, <2>2, <3>1
    <3>3. Nth(K, c) < Nth(K, n + 1 - limit)
      BY <2>1, <3>2, NthGrows
    <3>. QED
      BY <1>2, <1>5, <2>1, <3>1, <3>3
  <2>. QED
    BY <2>3, <2>4
<1>. QED
  BY <1>5, <1>1, <1>8, <1>9, <1>10

(* A page taken from what is ahead leaves the rest of it ahead.            *)
LEMMA APage ==
  ASSUME AccountsShape,
         \A i, j \in DOMAIN table : table[i].request_id = table[j].request_id => i = j,
         NEW w, DOMAIN w = DOMAIN NoWalk, w = [f \in DOMAIN w |-> w[f]],
         NEW bound \in Nat, Walking(w, bound)
  PROVE  LET v == Walked(w, Page(w.filter[1], bound, w.limit)) IN
         /\ DOMAIN v = DOMAIN NoWalk /\ v = [f \in DOMAIN v |-> v[f]] /\ v.filter = w.filter
         /\ Walking(v, Bound(v)) /\ Bound(v) \in 1..nextId
<1>. DEFINE K == Ahead(w.filter[1], bound)
            page == Page(w.filter[1], bound, w.limit)
            add == [i \in DOMAIN page |-> table[page[i]].request_id]
            v == Walked(w, page)
            below == Ahead(w.filter[1], Bound(v))
<1>1. nextId \in Nat /\ nextId >= 1 /\ nextId - 1 \in Nat /\ K \in SUBSET (1..nextId - 1)
  BY AccountsAssumption DEF AccountsShape, Ahead, Ids, BeyondIds
<1>2. w.limit \in Nat \ {0}
  BY DEF Walking
<1>3. page = Newest(K, w.limit)
  BY DEF Page, Ahead
<1>. HIDE DEF K, page
<1>4. /\ page \in Seq(K) /\ Len(page) \in Nat
      /\ \A i, j \in DOMAIN page : page[i] = page[j] => i = j
      /\ Len(page) = w.limit => \A i \in DOMAIN page : page[i] >= page[w.limit]
      /\ \A m \in K : \/ \E i \in DOMAIN page : page[i] = m
                      \/ Len(page) = w.limit /\ m < page[w.limit]
  BY <1>1, <1>2, <1>3, NewestIs, ZenonT(60)
<1>5. DOMAIN page = 1..Len(page) /\ \A i \in DOMAIN page : page[i] \in K /\ page[i] \in Nat
  BY <1>1, <1>4
<1>6. /\ DOMAIN v = DOMAIN w /\ v = [f \in DOMAIN v |-> v[f]] /\ v.filter = w.filter /\ v.limit = w.limit /\ v.due = w.due
      /\ v.got = w.got \o add /\ v.before = NextBefore(page, w.limit)
  BY DEF Walked, NoWalk
<1>7. /\ Len(page) = w.limit => Bound(v) = page[w.limit] /\ w.limit \in DOMAIN page
      /\ Len(page) # w.limit => Bound(v) = 1
  BY <1>2, <1>4, <1>5, <1>6 DEF Bound, NextBefore, When, Or, None, Last, LowestId
<1>8. Bound(v) \in 1..nextId /\ Bound(v) \in Nat
  BY <1>1, <1>5, <1>7
<1>9. \A id \in below : id \in K /\ id < Bound(v)
  <2>1. ASSUME NEW id \in below PROVE id \in K /\ id < Bound(v)
    <3>1. id \in Ids(w.filter[1]) /\ id < Bound(v) /\ id \in 1..nextId - 1
      BY DEF Ahead, Ids, AccountsShape
    <3>2. Len(page) = w.limit
      BY <1>1, <1>7, <3>1
    <3>3. Bound(v) \in K
      BY <1>5, <1>7, <3>2
    <3>4. Bound(v) < bound
      BY <3>3 DEF K, Ahead
    <3>5. id < bound
      BY <1>1, <1>8, <3>1, <3>4
    <3>. QED
      BY <3>1, <3>5 DEF K, Ahead
  <2>. QED
    BY <2>1
<1>10. \A id \in below : \A i \in DOMAIN page : page[i] # id
  BY <1>1, <1>2, <1>4, <1>5, <1>7, <1>8, <1>9
<1>11. \A id \in K : id \in below \/ \E i \in DOMAIN page : page[i] = id
  BY <1>4, <1>7 DEF K, Ahead
<1>12. K \subseteq DOMAIN table
  BY DEF K, Ahead, Ids
<1>13. /\ add \in Seq(ToSet(add)) /\ IsInjective(add)
       /\ \A e \in ToSet(add) : \E i \in DOMAIN page : e = table[page[i]].request_id
       /\ \A i \in DOMAIN page : table[page[i]].request_id \in ToSet(add)
  <2>1. DOMAIN add = 1..Len(page) /\ add = [i \in DOMAIN add |-> add[i]]
    BY <1>5
  <2>2. add \in Seq(ToSet(add))
    BY <1>4, <2>1, IsList
  <2>3. IsInjective(add)
    BY <1>4, <1>5, <1>12 DEF IsInjective
  <2>. QED
    BY <2>2, <2>3 DEF ToSet
<1>14. /\ w.got \in Seq(ToSet(w.got)) /\ IsInjective(w.got) /\ ToSet(w.got) \subseteq w.due
       /\ \A id \in K : table[id].request_id \in w.due /\ table[id].request_id \notin ToSet(w.got)
       /\ \A request \in w.due :
            \/ request \in ToSet(w.got) \/ request \in forgot
            \/ \E id \in K : table[id].request_id = request
  BY DEF Walking, K
<1>. HIDE DEF add, v, below
<1>15. /\ v.got \in Seq(ToSet(v.got)) /\ IsInjective(v.got)
       /\ ToSet(v.got) = ToSet(w.got) \cup ToSet(add)
  <2>1. \A e \in ToSet(add) : e \notin ToSet(w.got)
    BY <1>5, <1>13, <1>14
  <2>. QED
    BY <1>6, <1>13, <1>14, <2>1, ListsJoin
<1>16. ToSet(v.got) \subseteq v.due
  <2>1. ASSUME NEW e \in ToSet(add) PROVE e \in w.due
    <3>1. PICK i \in DOMAIN page : e = table[page[i]].request_id
      BY <1>13
    <3>. QED
      BY <1>5, <1>14, <3>1
  <2>. QED
    BY <1>6, <1>14, <1>15, <2>1
<1>17. ASSUME NEW id \in below
       PROVE  table[id].request_id \in v.due /\ table[id].request_id \notin ToSet(v.got)
  <2>1. id \in K /\ table[id].request_id \in w.due /\ table[id].request_id \notin ToSet(w.got)
    BY <1>9, <1>14
  <2>2. \A i \in DOMAIN page : table[page[i]].request_id # table[id].request_id
    BY <1>5, <1>10, <1>12, <2>1
  <2>. QED
    BY <1>6, <1>13, <1>15, <2>1, <2>2
<1>18. ASSUME NEW request \in v.due
       PROVE  \/ request \in ToSet(v.got) \/ request \in forgot
              \/ \E id \in below : table[id].request_id = request
  BY <1>6, <1>11, <1>13, <1>14, <1>15
<1>19. Walking(v, Bound(v))
  BY <1>2, <1>6, <1>15, <1>16, <1>17, <1>18 DEF Walking, below
<1>. QED
  BY <1>6, <1>8, <1>19 DEF v, page

(* What is ahead of a walk stays ahead of it until it is forgotten, and    *)
(* nothing new comes in between.                                           *)
LEMMA WalkStays ==
  ASSUME AccountsShape, WalkOK, walk' = walk, DOMAIN table' \subseteq Nat,
         nextId' \in Nat, nextId' >= nextId, forgot \subseteq forgot',
         \A id \in DOMAIN table' :
           id < nextId => id \in DOMAIN table /\ table'[id] = table[id],
         \A id \in DOMAIN table :
           \/ id \in DOMAIN table' /\ table'[id] = table[id]
           \/ table[id].request_id \in forgot'
  PROVE  WalkOK'
<1>0. nextId \in Nat
  BY AccountsAssumption DEF AccountsShape, BeyondIds
<1>1. SUFFICES ASSUME walk.filter # None
               PROVE  (Walking(walk, Bound(walk)) /\ Bound(walk) \in 1..nextId)'
  BY DEF WalkOK, Bound, Walking, None
<1>. DEFINE f == walk.filter[1]
            b == Bound(walk)
<1>2. Walking(walk, b) /\ b \in 1..nextId
  BY <1>1 DEF WalkOK
<1>3. Bound(walk)' = b /\ (walk.filter[1])' = f
  BY DEF Bound
<1>4. b \in 1..nextId' /\ b \in Nat
  BY <1>0, <1>2
<1>5. ASSUME NEW id \in Ahead(f, b)'
      PROVE  id \in Ahead(f, b) /\ table'[id] = table[id]
  <2>1. id \in DOMAIN table' /\ Selected(f, table'[id]) /\ id < b
    BY <1>3 DEF Ahead, Ids, Selected, Fits, Or, None, Some
  <2>2. id \in DOMAIN table /\ table'[id] = table[id]
    <3>1. id \in DOMAIN table' /\ id < b /\ id \in Nat
      BY <2>1
    <3>2. id < nextId
      BY <1>0, <1>2, <3>1
    <3>. QED
      BY <3>1, <3>2
  <2>. QED
    BY <2>1, <2>2 DEF Ahead, Ids
<1>6. ASSUME NEW id \in Ahead(f, b), table[id].request_id \notin forgot'
      PROVE  id \in Ahead(f, b)' /\ table'[id] = table[id]
  <2>1. id \in DOMAIN table /\ Selected(f, table[id]) /\ id < b
    BY DEF Ahead, Ids
  <2>2. id \in DOMAIN table' /\ table'[id] = table[id]
    BY <1>6, <2>1
  <2>. QED
    BY <1>3, <2>1, <2>2 DEF Ahead, Ids, Selected, Fits, Or, None, Some
<1>7. /\ walk.limit \in Nat \ {0}
      /\ walk.got \in Seq(ToSet(walk.got)) /\ IsInjective(walk.got)
      /\ ToSet(walk.got) \subseteq walk.due
      /\ \A id \in Ahead(f, b) :
           table[id].request_id \in walk.due /\ table[id].request_id \notin ToSet(walk.got)
      /\ \A request \in walk.due :
           \/ request \in ToSet(walk.got) \/ request \in forgot
           \/ \E id \in Ahead(f, b) : table[id].request_id = request
  BY <1>2 DEF Walking
<1>8. \A id \in Ahead(f, b)' :
        table'[id].request_id \in walk.due /\ table'[id].request_id \notin ToSet(walk.got)
  BY <1>5, <1>7
<1>9. \A request \in walk.due :
        \/ request \in ToSet(walk.got) \/ request \in forgot'
        \/ \E id \in Ahead(f, b)' : table'[id].request_id = request
  BY <1>6, <1>7
<1>10. Walking(walk, Bound(walk))'
  BY <1>3, <1>7, <1>8, <1>9 DEF Walking, ToSet, IsInjective
<1>. QED
  BY <1>3, <1>4, <1>10

(* The reader's steps: a first page, a next one, the end.                  *)
LEMMA WalkGoesOn ==
  ASSUME AccountsShape, WalkOK,
         \A i, j \in DOMAIN table : table[i].request_id = table[j].request_id => i = j,
         \/ \E filter \in Filters, limit \in Limits : StartWalk(filter, limit)
         \/ NextPage \/ EndWalk
  PROVE  WalkOK'
<1>1. nextId \in Nat /\ BeyondIds \in Nat /\ nextId <= BeyondIds
  BY AccountsAssumption DEF AccountsShape, BeyondIds
<1>2. ASSUME NEW w, DOMAIN w = DOMAIN NoWalk, w = [f \in DOMAIN w |-> w[f]], w.filter # None,
             NEW bound \in Nat, Walking(w, bound),
             walk' = Walked(w, Page(w.filter[1], bound, w.limit)),
             UNCHANGED <<now, queue, table, nextId, forgot>>
      PROVE  WalkOK'
  <2>. DEFINE v == Walked(w, Page(w.filter[1], bound, w.limit))
  <2>1. /\ DOMAIN v = DOMAIN NoWalk /\ v = [f \in DOMAIN v |-> v[f]] /\ v.filter = w.filter
        /\ Walking(v, Bound(v)) /\ Bound(v) \in 1..nextId
    BY <1>2, APage
  <2>2. walk' = v
    BY <1>2
  <2>. HIDE DEF v
  <2>3. Bound(walk)' = Bound(v) /\ (walk.filter[1])' = v.filter[1]
    BY <2>2 DEF Bound
  <2>5. Ahead(walk.filter[1], Bound(walk))' = Ahead(v.filter[1], Bound(v))
    BY <1>2, <2>2, <2>3 DEF Ahead, Ids, Selected, Fits, Or, None, Some
  <2>6. Walking(walk, Bound(walk))'
    <3>1. /\ v.limit \in Nat \ {0}
          /\ v.got \in Seq(ToSet(v.got)) /\ IsInjective(v.got) /\ ToSet(v.got) \subseteq v.due
          /\ \A id \in Ahead(v.filter[1], Bound(v)) :
               table[id].request_id \in v.due /\ table[id].request_id \notin ToSet(v.got)
          /\ \A request \in v.due :
               \/ request \in ToSet(v.got) \/ request \in forgot
               \/ \E id \in Ahead(v.filter[1], Bound(v)) : table[id].request_id = request
      BY <2>1 DEF Walking
    <3>. QED
      BY <1>2, <2>2, <2>5, <3>1 DEF Walking, ToSet, IsInjective
  <2>. QED
    BY <1>2, <2>1, <2>2, <2>3, <2>6 DEF WalkOK, None, NoWalk
<1>3. ASSUME NEW filter \in Filters, NEW limit \in Limits, StartWalk(filter, limit) PROVE WalkOK'
  <2>. DEFINE w == [NoWalk EXCEPT !.filter = Some(filter), !.limit = limit,
                                  !.due = RequestsOf(Ids(filter))]
  <2>1. /\ DOMAIN w = DOMAIN NoWalk /\ w = [f \in DOMAIN w |-> w[f]]
        /\ w.filter # None /\ w.filter[1] = filter /\ w.limit = limit /\ w.got = <<>>
        /\ w.due = RequestsOf(Ids(filter))
    BY DEF NoWalk, None, Some
  <2>2. walk' = Walked(w, Page(w.filter[1], BeyondIds, w.limit))
    BY <1>3, <2>1 DEF StartWalk
  <2>. HIDE DEF w
  <2>3. limit \in Nat \ {0}
    BY BillsAssumption
  <2>4. \A id \in Ids(filter) : id < BeyondIds
    <3>1. \A id \in DOMAIN table : id \in 1..nextId - 1
      BY DEF AccountsShape
    <3>. QED
      BY <1>1, <3>1 DEF Ids
  <2>5. Ahead(filter, BeyondIds) = Ids(filter)
    BY <2>4 DEF Ahead
  <2>6. <<>> \in Seq(ToSet(<<>>)) /\ IsInjective(<<>>) /\ ToSet(<<>>) = {}
    BY DEF ToSet, IsInjective
  <2>7. Walking(w, BeyondIds)
    BY <2>1, <2>3, <2>5, <2>6 DEF Walking, RequestsOf
  <2>. QED
    BY <1>1, <1>2, <1>3, <2>1, <2>2, <2>7 DEF StartWalk
<1>4. ASSUME NextPage PROVE WalkOK'
  <2>1. /\ walk.filter # None /\ Walking(walk, Bound(walk)) /\ Bound(walk) \in Nat
        /\ Bound(walk) = walk.before[1]
    BY <1>1, <1>4 DEF NextPage, WalkOK, Bound, Or
  <2>. QED
    BY <1>2, <1>4, <2>1 DEF NextPage, WalkOK
<1>5. ASSUME EndWalk PROVE WalkOK'
  BY <1>5 DEF EndWalk, WalkOK, NoWalk
<1>. QED
  BY <1>3, <1>4, <1>5

(* What the invariant says of a walk is what a reader is promised.         *)
LEMMA PagesFollow ==
  ASSUME AccountsShape, WalkOK
  PROVE  PagesListTheTotals
<1>1. CASE walk.filter = None
  <2>1. walk.got = <<>> /\ walk.due = {}
    BY <1>1 DEF WalkOK
  <2>. QED
    BY <1>1, <2>1 DEF PagesListTheTotals, IsInjective, ToSet
<1>2. CASE walk.filter # None
  <2>1. Walking(walk, Bound(walk))
    BY <1>2 DEF WalkOK
  <2>2. ASSUME walk.before = None PROVE Ahead(walk.filter[1], Bound(walk)) = {}
    <3>1. Bound(walk) = 1
      BY <2>2 DEF Bound, Or, LowestId
    <3>2. nextId \in Nat /\ \A id \in DOMAIN table : id \in 1..nextId - 1
      BY AccountsAssumption DEF AccountsShape, BeyondIds
    <3>3. \A id \in DOMAIN table : ~(id < 1)
      BY <3>2
    <3>. QED
      BY <3>1, <3>3 DEF Ahead, Ids
  <2>. QED
    BY <2>1, <2>2 DEF PagesListTheTotals, Walking
<1>. QED
  BY <1>1, <1>2

-----------------------------------------------------------------------------
(* Rows *)

(* No call changes while rows are written, read or forgotten.              *)
LEMMA CallsStay ==
  ASSUME UNCHANGED <<log, bills>>
  PROVE  Chatted' = Chatted /\ LeftARow' = LeftARow /\ Numbered' = Numbered
<1>1. Chatted' = Chatted
  BY DEF Chatted
<1>2. LeftARow' = LeftARow
  BY DEF LeftARow, Number
<1>. QED
  BY <1>1, <1>2 DEF Numbered

(* Writing moves the rows of the queue to the table, under new ids.        *)
LEMMA WriteMoves ==
  ASSUME AccountsShape, Write
  PROVE  /\ AccountsShape' /\ queue' = <<>> /\ DOMAIN queue' = {}
         /\ nextId \in Nat /\ nextId' \in Nat /\ nextId' >= nextId
         /\ DOMAIN table' \subseteq Nat
         /\ \A id \in DOMAIN table' :
              \/ id \in DOMAIN table /\ id < nextId /\ table'[id] = table[id]
              \/ /\ ~(id < nextId) /\ id - nextId + 1 \in DOMAIN queue
                 /\ table'[id] = queue[id - nextId + 1]
         /\ \A id \in DOMAIN table : id \in DOMAIN table' /\ table'[id] = table[id]
         /\ \A j \in DOMAIN queue :
              /\ j \in Nat /\ nextId + j - 1 \in DOMAIN table'
              /\ table'[nextId + j - 1] = queue[j]
<1>. DEFINE n == Len(queue)
            D == DOMAIN table \cup (nextId..(nextId + n - 1))
<1>1. n \in Nat /\ n >= 1 /\ DOMAIN queue = 1..n
  <2>1. n \in Nat /\ DOMAIN queue = 1..n
    BY LenProperties DEF AccountsShape
  <2>2. n # 0
    BY EmptySeq DEF Write, AccountsShape
  <2>. QED
    BY <2>1, <2>2
<1>2. /\ nextId + n <= BeyondIds /\ nextId' = nextId + n /\ queue' = <<>>
      /\ table' = [id \in D |-> IF id \in DOMAIN table THEN table[id] ELSE queue[id - nextId + 1]]
  BY DEF Write
<1>3. nextId \in Nat /\ nextId >= 1 /\ \A id \in DOMAIN table : id \in 1..nextId - 1
  BY AccountsAssumption DEF AccountsShape, BeyondIds
<1>. HIDE DEF n
<1>4. DOMAIN table' = D
  BY <1>2
<1>5. ASSUME NEW id \in D
      PROVE  /\ id \in 1..nextId + n - 1
             /\ \/ id \in DOMAIN table /\ id < nextId /\ table'[id] = table[id]
                \/ /\ ~(id < nextId) /\ id - nextId + 1 \in DOMAIN queue
                   /\ table'[id] = queue[id - nextId + 1]
  <2>1. CASE id \in DOMAIN table
    BY <1>1, <1>2, <1>3, <2>1
  <2>2. CASE id \notin DOMAIN table
    <3>1. id \in nextId..(nextId + n - 1)
      BY <2>2
    <3>2. id \in 1..nextId + n - 1 /\ ~(id < nextId) /\ id - nextId + 1 \in 1..n
      BY <1>1, <1>3, <3>1
    <3>. QED
      BY <1>1, <1>2, <2>2, <3>2
  <2>. QED
    BY <2>1, <2>2
<1>6. ASSUME NEW j \in DOMAIN queue
      PROVE  /\ j \in Nat /\ nextId + j - 1 \in D
             /\ table'[nextId + j - 1] = queue[j]
  <2>1. /\ j \in 1..n /\ nextId + j - 1 \in nextId..(nextId + n - 1)
        /\ (nextId + j - 1) - nextId + 1 = j
    BY <1>1, <1>3
  <2>2. nextId + j - 1 \notin DOMAIN table
    BY <1>3, <2>1
  <2>. QED
    BY <1>2, <2>1, <2>2
<1>7. AccountsShape'
  <2>1. nextId' \in 1..BeyondIds
    BY <1>1, <1>2, <1>3, AccountsAssumption DEF BeyondIds
  <2>2. DOMAIN table' \subseteq 1..nextId' - 1
    <3>1. nextId' - 1 = nextId + n - 1
      BY <1>1, <1>2, <1>3
    <3>2. ASSUME NEW id \in D PROVE id \in 1..nextId + n - 1
      BY <1>5
    <3>3. D \subseteq 1..nextId + n - 1
      BY <3>2
    <3>. QED
      BY <1>4, <3>1, <3>3
  <2>3. <<>> \in Seq(ToSet(<<>>))
    BY EmptySeq, Zenon
  <2>4. (queue \in Seq(ToSet(queue)))'
    BY <1>2, <2>3 DEF ToSet
  <2>. QED
    BY <2>1, <2>2, <2>4 DEF AccountsShape, BeyondIds
<1>8. DOMAIN table' \subseteq Nat
  BY <1>1, <1>3, <1>4, <1>5
<1>. QED
  BY <1>1, <1>2, <1>3, <1>4, <1>5, <1>6, <1>7, <1>8

(* Rows are neither lost nor doubled by it, and say what they said.        *)
LEMMA WriteKeepsRows ==
  ASSUME AccountsShape, RowsOnce, RowsKept, RowsTell, Write, UNCHANGED <<log, bills>>
  PROVE  RowsOnce' /\ RowsKept' /\ RowsTell'
<1>1. /\ DOMAIN queue' = {} /\ nextId \in Nat /\ DOMAIN table' \subseteq Nat
      /\ \A id \in DOMAIN table' :
           \/ id \in DOMAIN table /\ id < nextId /\ table'[id] = table[id]
           \/ /\ ~(id < nextId) /\ id - nextId + 1 \in DOMAIN queue
              /\ table'[id] = queue[id - nextId + 1]
      /\ \A id \in DOMAIN table : id \in DOMAIN table' /\ table'[id] = table[id]
      /\ \A j \in DOMAIN queue :
           /\ j \in Nat /\ nextId + j - 1 \in DOMAIN table'
           /\ table'[nextId + j - 1] = queue[j]
  BY WriteMoves
<1>2. forgot' = forgot /\ LeftARow' = LeftARow /\ Numbered' = Numbered /\ log' = log
  BY CallsStay DEF Write
<1>3. ASSUME NEW i \in DOMAIN table', NEW k \in DOMAIN table',
             table'[i].request_id = table'[k].request_id
      PROVE  i = k
  <2>1. CASE i < nextId /\ k < nextId
    BY <1>1, <1>3, <2>1, SMTT(30) DEF RowsOnce
  <2>2. CASE ~(i < nextId) /\ ~(k < nextId)
    <3>1. i - nextId + 1 = k - nextId + 1
      BY <1>1, <1>3, <2>2, SMTT(30) DEF RowsOnce
    <3>. QED
      BY <1>1, <3>1
  <2>3. CASE i < nextId /\ ~(k < nextId)
    BY <1>1, <1>3, <2>3 DEF RowsOnce
  <2>4. CASE ~(i < nextId) /\ k < nextId
    BY <1>1, <1>3, <2>4 DEF RowsOnce
  <2>. QED
    BY <2>1, <2>2, <2>3, <2>4
<1>4. RowsOnce'
  BY <1>1, <1>2, <1>3 DEF RowsOnce
<1>5. RowsKept'
  BY <1>1, <1>2 DEF RowsKept
<1>6. RowsTell'
  BY <1>1, <1>2 DEF RowsTell, Number
<1>. QED
  BY <1>4, <1>5, <1>6

(* What is forgotten leaves the table, and is known to be forgotten.       *)
LEMMA ForgetTakes ==
  ASSUME NEW before, AccountsShape, Forget(before)
  PROVE  /\ AccountsShape' /\ UNCHANGED <<now, queue, walk, nextId>>
         /\ nextId \in Nat /\ DOMAIN table' \subseteq Nat /\ forgot \subseteq forgot'
         /\ \A id \in DOMAIN table' :
              /\ id \in DOMAIN table /\ table'[id] = table[id]
              /\ ~(table[id].at < before)
         /\ \A id \in DOMAIN table :
              \/ id \in DOMAIN table' /\ table'[id] = table[id]
              \/ table[id].request_id \in forgot'
         /\ \A request \in forgot' :
              \/ request \in forgot
              \/ \E id \in DOMAIN table : id \notin DOMAIN table' /\ table[id].request_id = request
<1>. DEFINE gone == {id \in DOMAIN table : table[id].at < before}
            left == DOMAIN table \ gone
<1>1. /\ table' = [id \in left |-> table[id]] /\ UNCHANGED <<now, queue, walk, nextId>>
      /\ forgot' = forgot \cup {table[id].request_id : id \in gone}
  BY DEF Forget, Forgotten, Restrict, RequestsOf
<1>2. DOMAIN table' = left
  BY <1>1
<1>3. \A id \in left : table'[id] = table[id]
  BY <1>1
<1>4. nextId \in Nat /\ DOMAIN table \subseteq Nat
  BY AccountsAssumption DEF AccountsShape, BeyondIds
<1>5. AccountsShape'
  BY <1>1, <1>2 DEF AccountsShape, BeyondIds, ToSet
<1>. QED
  BY <1>1, <1>2, <1>3, <1>4, <1>5

(* Forgetting takes rows of calls, and leaves those it does not take alone.*)
LEMMA ForgetKeepsRows ==
  ASSUME NEW before, AccountsShape, RowsOnce, RowsKept, RowsTell, Forget(before),
         UNCHANGED <<log, bills>>
  PROVE  RowsOnce' /\ RowsKept' /\ RowsTell'
<1>1. /\ UNCHANGED <<now, queue, walk, nextId>> /\ forgot \subseteq forgot'
      /\ \A id \in DOMAIN table' : id \in DOMAIN table /\ table'[id] = table[id]
      /\ \A id \in DOMAIN table :
           \/ id \in DOMAIN table' /\ table'[id] = table[id]
           \/ table[id].request_id \in forgot'
      /\ \A request \in forgot' :
           \/ request \in forgot
           \/ \E id \in DOMAIN table : id \notin DOMAIN table' /\ table[id].request_id = request
  BY ForgetTakes
<1>2. LeftARow' = LeftARow /\ Numbered' = Numbered /\ log' = log
  BY CallsStay
<1>3. RowsOnce'
  BY <1>1, <1>2 DEF RowsOnce
<1>4. RowsKept'
  BY <1>1, <1>2 DEF RowsKept
<1>5. RowsTell'
  BY <1>1, <1>2 DEF RowsTell, Number
<1>. QED
  BY <1>3, <1>4, <1>5

(* A call that goes on, comes in, or ends and leaves no row.               *)
LEMMA NoRowAdded ==
  ASSUME AccountsShape, RowsOnce, RowsKept, RowsTell, UNCHANGED <<queue, table, nextId, forgot>>,
         NEW n, n \notin Numbered, n \notin LeftARow', Chatted \subseteq Chatted',
         1..Number \subseteq 1..Number',
         \A m \in 1..Number' : m # n => m \in 1..Number /\ log'[m] = log[m]
  PROVE  AccountsShape' /\ RowsOnce' /\ RowsKept' /\ RowsTell'
<1>1. LeftARow' = LeftARow
  BY DEF LeftARow, Numbered
<1>2. \A id : id \in Numbered => id \in Numbered'
  BY <1>1 DEF Numbered
<1>3. AccountsShape'
  BY DEF AccountsShape, BeyondIds, ToSet
<1>4. RowsOnce'
  BY <1>2 DEF RowsOnce
<1>5. RowsKept'
  BY <1>1 DEF RowsKept
<1>6. /\ \A i \in DOMAIN table : table[i].request_id # n
      /\ \A j \in DOMAIN queue : queue[j].request_id # n
  BY DEF RowsOnce
<1>7. RowsTell'
  BY <1>6 DEF RowsTell
<1>. QED
  BY <1>3, <1>4, <1>5, <1>7

(* A call whose row is recorded.                                           *)
LEMMA OneRowAdded ==
  ASSUME AccountsShape, RowsOnce, RowsKept, RowsTell, UNCHANGED <<table, nextId, forgot>>,
         NEW row, Enqueue(row), NEW n, row.request_id = n, n \notin Numbered, n \in Numbered',
         Chatted \subseteq Chatted', 1..Number \subseteq 1..Number',
         \A m \in 1..Number' : m # n => m \in 1..Number /\ log'[m] = log[m],
         n \in 1..Number' => Says(log'[n], row)
  PROVE  AccountsShape' /\ RowsOnce' /\ RowsKept' /\ RowsTell'
<1>1. \A m : m # n => (m \in LeftARow' => m \in LeftARow) /\ (m \in LeftARow => m \in LeftARow')
  BY DEF LeftARow
<1>2. \A id : id \in Numbered => id \in Numbered'
  BY <1>1 DEF Numbered
<1>. DEFINE k == Len(queue)
<1>3. /\ queue' \in Seq(ToSet(queue')) /\ k \in Nat
      /\ DOMAIN queue = 1..k /\ DOMAIN queue' = 1..k + 1
      /\ \A j \in 1..k : queue'[j] = queue[j]
      /\ queue'[k + 1] = row
  BY Longer DEF Enqueue, AccountsShape
<1>. HIDE DEF k
<1>4. /\ \A j \in DOMAIN queue : j \in DOMAIN queue' /\ queue'[j] = queue[j]
      /\ \A j \in DOMAIN queue' : j \in DOMAIN queue \/ j = k + 1
      /\ k + 1 \in DOMAIN queue' /\ k + 1 \notin DOMAIN queue
  BY <1>3
<1>5. AccountsShape'
  <2>1. (queue \in Seq(ToSet(queue)))'
    BY <1>3 DEF ToSet
  <2>. QED
    BY <2>1 DEF AccountsShape, BeyondIds
<1>6. /\ \A i \in DOMAIN table : table[i].request_id # n
      /\ \A j \in DOMAIN queue : queue[j].request_id # n
      /\ n \notin forgot
  BY DEF RowsOnce
<1>7. ASSUME NEW i \in DOMAIN queue', NEW j \in DOMAIN queue',
             queue'[i].request_id = queue'[j].request_id
      PROVE  i = j
  BY <1>3, <1>4, <1>6, <1>7 DEF RowsOnce
<1>8. \A j \in DOMAIN queue' : queue'[j].request_id \in Numbered' \ forgot
  BY <1>2, <1>3, <1>4, <1>6 DEF RowsOnce
<1>9. \A i \in DOMAIN table, j \in DOMAIN queue' : table[i].request_id # queue'[j].request_id
  BY <1>3, <1>4, <1>6 DEF RowsOnce
<1>10. RowsOnce'
  BY <1>2, <1>7, <1>8, <1>9 DEF RowsOnce
<1>11. RowsKept'
  BY <1>1, <1>3, <1>4 DEF RowsKept
<1>12. RowsTell'
  BY <1>3, <1>4, <1>6 DEF RowsTell
<1>. QED
  BY <1>5, <1>10, <1>11, <1>12

(* Chat calls take numbers past those of media calls, one after another.   *)
LEMMA ChatTakesNext ==
  ASSUME ChatsNumbered, NEW bill, Billed(NextChat, bill)
  PROVE  /\ ChatsNumbered' /\ NextChat \in Nat /\ NextChat > MaxCalls /\ NextChat \notin Chatted
         /\ NextChat \in Chatted' /\ Chatted \subseteq Chatted'
<1>. DEFINE k == Cardinality(Chatted)
<1>1. MaxCalls \in Nat
  BY MediaAssumption
<1>2. k \in Nat
  BY FS_CardinalityType DEF ChatsNumbered
<1>3. NextChat = MaxCalls + k + 1
  BY DEF NextChat
<1>4. DOMAIN bills' = DOMAIN bills \cup {NextChat}
  BY DEF Billed
<1>5. NextChat \in Nat /\ NextChat > MaxCalls
  BY <1>1, <1>2, <1>3
<1>6. Chatted = MaxCalls + 1..MaxCalls + k /\ IsFiniteSet(Chatted)
  BY DEF ChatsNumbered
<1>. HIDE DEF k
<1>7. NextChat \notin Chatted
  BY <1>1, <1>2, <1>3, <1>6
<1>8. Chatted' = Chatted \cup {NextChat}
  BY <1>4, <1>5 DEF Chatted
<1>9. IsFiniteSet(Chatted') /\ Cardinality(Chatted') = k + 1
  BY <1>6, <1>7, <1>8, FS_AddElement DEF k
<1>10. Chatted' = MaxCalls + 1..MaxCalls + (k + 1)
  BY <1>1, <1>2, <1>3, <1>6, <1>8
<1>11. ChatsNumbered'
  BY <1>4, <1>5, <1>9, <1>10 DEF ChatsNumbered
<1>. QED
  BY <1>5, <1>7, <1>8, <1>11

-----------------------------------------------------------------------------
(* What a provider's endpoint can make of a call *)

(* A request is refused here with a failure there is a code for.           *)
LEMMA FaultsAreErrors ==
  ASSUME NEW type, NEW endpoint, NEW request, FaultHere(type, endpoint, request) # None
  PROVE  FaultHere(type, endpoint, request)[1] \in Errors \ {"refused"}
<1>1. {"unsupported", "invalid"} \subseteq Errors \ {"refused"}
  BY DEF Errors, CodeOf
<1>2. \A size : SizeFault(size) = None \/ SizeFault(size)[1] \in {"unsupported", "invalid"}
  BY DEF SizeFault, None, Some, When
<1>3. \/ GeminiPictureFault(request) = None
      \/ GeminiPictureFault(request)[1] \in {"unsupported", "invalid"}
  BY <1>2 DEF GeminiPictureFault, None, Some
<1>4. GeminiSpeechFault(request) = None \/ GeminiSpeechFault(request)[1] = "unsupported"
  BY DEF GeminiSpeechFault, None, When
<1>5. OpenAISpeechFault(request) = None \/ OpenAISpeechFault(request)[1] = "unsupported"
  BY DEF OpenAISpeechFault, None, When
<1>. QED
  BY <1>1, <1>3, <1>4, <1>5 DEF FaultHere

(* So is a reply that cannot be read, or that says something went wrong.   *)
LEMMA ReadingsAreErrors ==
  ASSUME NEW type \in {"gemini", "openai"}, NEW endpoint \in DOMAIN KindAt,
         NEW reply, NEW request, NEW model,
         ReadReply(type, endpoint, reply, request, model).error # None
  PROVE  ReadReply(type, endpoint, reply, request, model).error[1] \in Errors
<1>. DEFINE Reads(reading) == reading.error = None \/ reading.error[1] \in Errors
<1>1. /\ \A value : Reads(Answer(value))
      /\ \A error \in Errors : Reads(Fails(error))
  BY DEF Answer, Fails, Some
<1>2. {"auth", "not_found", "timeout", "rate_limited_for", "rate_limited", "invalid", "transient",
       "unreadable", "unsupported", "refused"} \subseteq Errors
  BY DEF Errors, CodeOf
<1>. HIDE DEF Reads
<1>3. \A status, after : Reads(Fails(Check(status, after)))
  BY <1>1, <1>2 DEF Check
<1>4. \A body : Reads(ReadOpenAIEmbeddings(body, request, model))
  BY <1>1, <1>2 DEF ReadOpenAIEmbeddings
<1>5. \A body : Reads(ReadGeminiEmbeddings(body, request, model))
  BY <1>1, <1>2 DEF ReadGeminiEmbeddings
<1>6. \A body : Reads(ReadOpenAIPictures(body, request, model))
  BY <1>1, <1>2 DEF ReadOpenAIPictures
<1>7. \A body : Reads(InlineParts(body))
  BY <1>1, <1>2 DEF InlineParts
<1>8. \A body : Reads(ReadGeminiPictures(body, request, model))
  BY <1>1, <1>2, <1>7 DEF ReadGeminiPictures
<1>9. \A body : Reads(ReadOpenAISpeech(body, request, model))
  BY <1>1, <1>2 DEF ReadOpenAISpeech
<1>10. \A part, format : Reads(Shape(part, format))
  BY <1>1, <1>2 DEF Shape
<1>11. \A body : Reads(ReadGeminiSpeech(body, request, model))
  BY <1>1, <1>2, <1>7, <1>10 DEF ReadGeminiSpeech
<1>12. \A body : Reads(ReadTranscription(body, request, model))
  BY <1>1, <1>2 DEF ReadTranscription
<1>13. \A body : Reads(ReadBody(type, endpoint, body, request, model))
  BY <1>4, <1>5, <1>6, <1>8, <1>9, <1>11, <1>12 DEF ReadBody, KindAt
<1>14. Reads(ReadReply(type, endpoint, reply, request, model))
  BY <1>3, <1>13 DEF ReadReply
<1>. QED
  BY <1>14 DEF Reads

(* What an answer cost is said in one of four ways.                        *)
LEMMA CostsSayWhy ==
  ASSUME NEW built, NEW target, NEW served, NEW usage, NEW units
  PROVE  CostWith(built, target, served, usage, units).status \in Statuses
<1>. DEFINE Price(model) == PriceOf(built, model, usage, units)
<1>1. \A priced, edition : PricedCost(priced, edition).status \in Statuses
  BY DEF PricedCost, Statuses
<1>2. \A model : Price(model) = None \/ Price(model)[1].status \in Statuses
  BY <1>1 DEF PriceOf, None, Some
<1>3. Free.status \in Statuses /\ Unpriced.status \in Statuses
  BY DEF Free, Unpriced, CostSaying, Statuses
<1>. QED
  BY <1>2, <1>3 DEF CostWith, OrElse, Or

-----------------------------------------------------------------------------
(* The tries of a call *)

(* Each option of the tries' failures is one or the other.                 *)
LEMMA OptionIs ==
  ASSUME NEW S, NEW option \in Options(S)
  PROVE  option = None \/ (option # None /\ option[1] \in S /\ option = Some(option[1]))
BY DEF Options, None, Some

(* One more try counts for its own route.                                  *)
LEMMA TimesGrow ==
  ASSUME NEW tries \in Seq(Tries), NEW try \in Tries, NEW at
  PROVE  /\ TimesAsked(tries, at) \in Nat
         /\ TimesAsked(Append(tries, try), at)
              = IF try.route = at THEN TimesAsked(tries, at) + 1 ELSE TimesAsked(tries, at)
<1>. DEFINE n == Len(tries)
            more == Append(tries, try)
            A == {j \in DOMAIN tries : tries[j].route = at}
            B == {j \in DOMAIN more : more[j].route = at}
<1>1. n \in Nat /\ DOMAIN tries = 1..n /\ DOMAIN more = 1..n + 1
  OBVIOUS
<1>2. \A j \in 1..n : more[j] = tries[j]
  OBVIOUS
<1>3. more[n + 1] = try
  OBVIOUS
<1>. HIDE DEF n, more
<1>4. IsFiniteSet(A)
  <2>1. IsFiniteSet(1..n)
    BY <1>1, FS_Interval
  <2>. QED
    BY <1>1, <2>1, FS_Subset
<1>5. \A j \in 1..n + 1 : j \in 1..n \/ j = n + 1
  BY <1>1
<1>6. n + 1 \notin A /\ n + 1 \in 1..n + 1 /\ 1..n \subseteq 1..n + 1
  BY <1>1
<1>7. CASE try.route = at
  <2>1. B = A \cup {n + 1}
    BY <1>1, <1>2, <1>3, <1>5, <1>6, <1>7
  <2>. QED
    BY <1>4, <1>6, <1>7, <2>1, FS_AddElement, FS_CardinalityType DEF TimesAsked, more
<1>8. CASE try.route # at
  <2>1. B = A
    BY <1>1, <1>2, <1>3, <1>5, <1>6, <1>8
  <2>. QED
    BY <1>4, <1>8, <2>1, FS_CardinalityType DEF TimesAsked, more
<1>. QED
  BY <1>7, <1>8

(* An entry whose tries stay the same is as good as it was.                *)
LEMMA EntryStays ==
  ASSUME NEW entry, EntryOK(entry), NEW e, DOMAIN e = DOMAIN entry,
         e.sends = entry.sends, e.plan = entry.plan, e.tries = entry.tries
  PROVE  EntryOK(e)
BY Zenon DEF EntryOK, TriesKept

(* An entry whose last try has failed.                                     *)
WithFailure(entry, error) == [entry EXCEPT !.tries[Len(entry.tries)].failed = Some(error)]

(* The last try failing changes nothing else.                              *)
LEMMA TryFails ==
  ASSUME NEW entry, EntryOK(entry), entry.tries # <<>>, NEW error \in Errors,
         NEW e, e = WithFailure(entry, error)
  PROVE  /\ EntryOK(e) /\ DOMAIN e = DOMAIN entry
         /\ e.sends = entry.sends /\ e.plan = entry.plan /\ e.how = entry.how
         /\ Len(e.tries) = Len(entry.tries) /\ Len(entry.tries) \in Nat \ {0}
         /\ \A i \in 1..Len(e.tries) :
              /\ e.tries[i].route = entry.tries[i].route /\ e.tries[i].at = entry.tries[i].at
              /\ i < Len(e.tries) => e.tries[i] = entry.tries[i]
         /\ e.tries[Len(e.tries)].failed = Some(error)
         /\ \A at \in Nat : TimesAsked(e.tries, at) = TimesAsked(entry.tries, at)
<1>. DEFINE n == Len(entry.tries)
            last == [entry.tries[n] EXCEPT !.failed = Some(error)]
            fresh == [entry.tries EXCEPT ![n] = last]
<1>1. /\ DOMAIN entry = {"sends", "plan", "tries", "how", "answer", "billed"}
      /\ entry.sends \in Sends /\ entry.plan \in Options(Plans) /\ entry.tries \in Seq(Tries)
      /\ entry.plan # None => TriesKept(entry)
  BY DEF EntryOK
<1>2. n \in Nat \ {0} /\ DOMAIN entry.tries = 1..n /\ n \in 1..n
  <2>1. n \in Nat /\ DOMAIN entry.tries = 1..n
    BY <1>1, LenProperties
  <2>2. n # 0
    BY <1>1, EmptySeq
  <2>. QED
    BY <2>1, <2>2
<1>3. \A i \in 1..n : entry.tries[i] \in Tries
  BY <1>1, <1>2
<1>4. e = [entry EXCEPT !.tries = fresh]
  BY DEF WithFailure
<1>5. /\ DOMAIN e = DOMAIN entry /\ e.sends = entry.sends /\ e.plan = entry.plan
      /\ e.how = entry.how /\ e.tries = fresh
  BY <1>1, <1>4
<1>6. last \in Tries /\ last.failed = Some(error)
      /\ last.route = entry.tries[n].route /\ last.at = entry.tries[n].at
  <2>1. entry.tries[n] \in Tries
    BY <1>2, <1>3
  <2>. QED
    BY <2>1 DEF Tries, Options
<1>. HIDE DEF last, n
<1>7. fresh \in Seq(Tries) /\ Len(fresh) = n /\ DOMAIN fresh = 1..n
  BY <1>1, <1>2, <1>6, ExceptSeq, LenProperties DEF n
<1>8. \A i \in 1..n : fresh[i] = IF i = n THEN last ELSE entry.tries[i]
  BY <1>2
<1>. HIDE DEF fresh
<1>9. \A i \in 1..n : /\ fresh[i].route = entry.tries[i].route /\ fresh[i].at = entry.tries[i].at
                      /\ i # n => fresh[i] = entry.tries[i]
  BY <1>2, <1>6, <1>8
<1>10. ASSUME NEW at PROVE TimesAsked(fresh, at) = TimesAsked(entry.tries, at)
  <2>1. {j \in DOMAIN fresh : fresh[j].route = at}
          = {j \in DOMAIN entry.tries : entry.tries[j].route = at}
    BY <1>2, <1>7, <1>9
  <2>. QED
    BY <2>1 DEF TimesAsked
<1>11. \A i \in 1..n - 1 : i \in 1..n /\ i + 1 \in 1..n /\ i # n /\ i < n
  BY <1>2
<1>12. ASSUME entry.plan # None PROVE TriesKept(e)
  <2>1. TriesKept(entry)
    BY <1>1, <1>12
  <2>. DEFINE plan == entry.plan[1]
              route(i) == Split[plan.routes[entry.tries[i].route]]
  <2>2. ASSUME NEW i \in 1..n
        PROVE  /\ plan.deadline # None => fresh[i].at < plan.deadline[1]
               /\ entry.sends.private \/ plan.on_device =>
                    Built[Split[plan.routes[fresh[i].route]].provider].on_device
               /\ TimesAsked(fresh, fresh[i].route) <= plan.attempts
    <3>1. fresh[i].route = entry.tries[i].route /\ fresh[i].at = entry.tries[i].at
      BY <1>9
    <3>2. /\ plan.deadline # None => entry.tries[i].at < plan.deadline[1]
          /\ entry.sends.private \/ plan.on_device => Built[route(i).provider].on_device
          /\ TimesAsked(entry.tries, entry.tries[i].route) <= plan.attempts
      BY <1>2, <2>1, Zenon DEF TriesKept
    <3>. QED
      BY <1>10, <3>1, <3>2, Zenon
  <2>3. ASSUME NEW i \in 1..n - 1
        PROVE  /\ fresh[i].failed \notin {None, Some("refused")}
               /\ \/ fresh[i].route < fresh[i + 1].route
                  \/ fresh[i].route = fresh[i + 1].route /\ Repeats(plan, fresh[i], fresh[i + 1])
    <3>1. /\ fresh[i] = entry.tries[i] /\ fresh[i + 1].route = entry.tries[i + 1].route
          /\ fresh[i + 1].at = entry.tries[i + 1].at
      BY <1>9, <1>11
    <3>2. /\ entry.tries[i].failed \notin {None, Some("refused")}
          /\ \/ entry.tries[i].route < entry.tries[i + 1].route
             \/ /\ entry.tries[i].route = entry.tries[i + 1].route
                /\ Repeats(plan, entry.tries[i], entry.tries[i + 1])
      BY <1>2, <2>1, Zenon DEF TriesKept, n
    <3>3. Repeats(plan, entry.tries[i], entry.tries[i + 1]) => Repeats(plan, fresh[i], fresh[i + 1])
      BY <3>1 DEF Repeats
    <3>. QED
      BY <3>1, <3>2, <3>3
  <2>. QED
    BY <1>5, <1>7, <2>2, <2>3, ZenonT(30) DEF TriesKept
<1>13. EntryOK(e)
  BY <1>1, <1>5, <1>7, <1>12 DEF EntryOK
<1>14. \A at \in Nat : TimesAsked(e.tries, at) = TimesAsked(entry.tries, at)
  BY <1>5, <1>10
<1>15. fresh[n].failed = Some(error)
  BY <1>2, <1>6, <1>8
<1>16. Len(entry.tries) = n /\ Len(e.tries) = n
  BY <1>5, <1>7 DEF n
<1>17. \A i \in 1..n :
         /\ e.tries[i].route = entry.tries[i].route /\ e.tries[i].at = entry.tries[i].at
         /\ i < n => e.tries[i] = entry.tries[i]
  BY <1>2, <1>5, <1>9
<1>18. e.tries[n].failed = Some(error)
  BY <1>5, <1>15
<1>. HIDE DEF fresh
<1>. QED
  BY <1>2, <1>5, <1>13, <1>14, <1>16, <1>17, <1>18

(* What a plan has to allow of a try after those there are.                *)
Allowed(entry, try) ==
  LET plan == entry.plan[1]
      tries == entry.tries
      last == tries[Len(tries)]
  IN /\ plan.deadline # None => try.at < plan.deadline[1]
     /\ entry.sends.private \/ plan.on_device =>
          Built[Split[plan.routes[try.route]].provider].on_device
     /\ TimesAsked(tries, try.route) + 1 <= plan.attempts
     /\ plan.attempts \in Nat
     /\ tries # <<>> =>
          /\ last.failed \notin {None, Some("refused")}
          /\ \/ last.route < try.route
             \/ last.route = try.route /\ Repeats(plan, last, try)

(* A list of tries with one more.                                          *)
LEMMA MoreTries ==
  ASSUME NEW s \in Seq(Tries), NEW try \in Tries, NEW t, t = Append(s, try)
  PROVE  /\ t \in Seq(Tries) /\ t # <<>> /\ Len(s) \in Nat /\ Len(t) = Len(s) + 1
         /\ DOMAIN s = 1..Len(s) /\ DOMAIN t = 1..Len(s) + 1
         /\ t[Len(s) + 1] = try
         /\ \A i \in 1..Len(s) : t[i] = s[i]
OBVIOUS

(* A try that its plan allows may be added.                                *)
LEMMA TryBegins ==
  ASSUME NEW entry, EntryOK(entry), entry.plan # None,
         NEW try \in Tries, NEW e, e = Tried(entry, try),
         Allowed(entry, try)
  PROVE  /\ EntryOK(e) /\ DOMAIN e = DOMAIN entry
         /\ e.sends = entry.sends /\ e.plan = entry.plan /\ e.how = entry.how
         /\ Len(entry.tries) \in Nat /\ Len(e.tries) = Len(entry.tries) + 1
         /\ \A i \in 1..Len(entry.tries) : e.tries[i] = entry.tries[i]
         /\ e.tries[Len(e.tries)] = try /\ e.tries # <<>>
         /\ TimesAsked(e.tries, try.route) = TimesAsked(entry.tries, try.route) + 1
<1>. DEFINE n == Len(entry.tries)
            more == Append(entry.tries, try)
            plan == entry.plan[1]
<1>1. /\ DOMAIN entry = {"sends", "plan", "tries", "how", "answer", "billed"}
      /\ entry.sends \in Sends /\ entry.plan \in Options(Plans) /\ entry.tries \in Seq(Tries)
      /\ TriesKept(entry)
  BY DEF EntryOK
<1>2. n \in Nat /\ DOMAIN entry.tries = 1..n
  BY <1>1, MoreTries
<1>3. more \in Seq(Tries) /\ Len(more) = n + 1 /\ DOMAIN more = 1..n + 1
  BY <1>1, MoreTries
<1>4. more[n + 1] = try /\ \A i \in 1..n : more[i] = entry.tries[i]
  BY <1>1, MoreTries
<1>5. more # <<>>
  BY <1>1, MoreTries
<1>6. /\ DOMAIN e = DOMAIN entry /\ e.sends = entry.sends /\ e.plan = entry.plan
      /\ e.how = entry.how /\ e.tries = more
  BY <1>1 DEF Tried
<1>7. \A at : /\ TimesAsked(entry.tries, at) \in Nat
             /\ TimesAsked(more, at) = IF try.route = at THEN TimesAsked(entry.tries, at) + 1
                                       ELSE TimesAsked(entry.tries, at)
  BY <1>1, TimesGrow
<1>8. n # 0 => entry.tries # <<>>
  <2>1. Len(<<>>) = 0
    OBVIOUS
  <2>. QED
    BY <2>1
<1>9. /\ plan.deadline # None => try.at < plan.deadline[1]
      /\ entry.sends.private \/ plan.on_device =>
           Built[Split[plan.routes[try.route]].provider].on_device
      /\ TimesAsked(entry.tries, try.route) + 1 <= plan.attempts
      /\ plan.attempts \in Nat
      /\ n # 0 =>
           /\ entry.tries[n].failed \notin {None, Some("refused")}
           /\ \/ entry.tries[n].route < try.route
              \/ entry.tries[n].route = try.route /\ Repeats(plan, entry.tries[n], try)
  BY <1>8 DEF Allowed
<1>. HIDE DEF n, more, plan
<1>10. ASSUME NEW i \in 1..n + 1
       PROVE  /\ plan.deadline # None => more[i].at < plan.deadline[1]
              /\ entry.sends.private \/ plan.on_device =>
                   Built[Split[plan.routes[more[i].route]].provider].on_device
              /\ TimesAsked(more, more[i].route) <= plan.attempts
  <2>1. CASE i = n + 1
    BY <1>4, <1>7, <1>9, <2>1, SMTT(30)
  <2>2. CASE i # n + 1
    <3>1. i \in 1..n /\ more[i] = entry.tries[i]
      BY <1>2, <1>4, <2>2
    <3>2. /\ plan.deadline # None => entry.tries[i].at < plan.deadline[1]
          /\ entry.sends.private \/ plan.on_device =>
               Built[Split[plan.routes[entry.tries[i].route]].provider].on_device
          /\ TimesAsked(entry.tries, entry.tries[i].route) <= plan.attempts
      BY <1>1, <1>2, <3>1, Zenon DEF TriesKept, plan
    <3>3. TimesAsked(more, entry.tries[i].route) <= plan.attempts
      BY <1>7, <1>9, <3>2
    <3>. QED
      BY <3>1, <3>2, <3>3
  <2>. QED
    BY <2>1, <2>2, SMTT(30)
<1>11. ASSUME NEW i \in 1..n
       PROVE  /\ more[i].failed \notin {None, Some("refused")}
              /\ \/ more[i].route < more[i + 1].route
                 \/ more[i].route = more[i + 1].route /\ Repeats(plan, more[i], more[i + 1])
  <2>1. CASE i = n
    BY <1>2, <1>4, <1>9, <2>1
  <2>2. CASE i # n
    <3>1. /\ i \in 1..n - 1 /\ i + 1 \in 1..n
          /\ more[i] = entry.tries[i] /\ more[i + 1] = entry.tries[i + 1]
      BY <1>2, <1>4, <2>2
    <3>2. /\ entry.tries[i].failed \notin {None, Some("refused")}
          /\ \/ entry.tries[i].route < entry.tries[i + 1].route
             \/ /\ entry.tries[i].route = entry.tries[i + 1].route
                /\ Repeats(plan, entry.tries[i], entry.tries[i + 1])
      BY <1>1, <3>1, Zenon DEF TriesKept, n, plan
    <3>. QED
      BY <3>1, <3>2
  <2>. QED
    BY <2>1, <2>2
<1>12. 1..Len(more) - 1 = 1..n
  BY <1>2, <1>3
<1>13. TriesKept(e)
  BY <1>3, <1>6, <1>10, <1>11, <1>12, Zenon DEF TriesKept, plan
<1>14. EntryOK(e)
  BY <1>1, <1>3, <1>6, <1>13 DEF EntryOK
<1>15. Len(entry.tries) = n
  BY DEF n
<1>. QED
  BY <1>2, <1>3, <1>4, <1>5, <1>6, <1>7, <1>14, <1>15

-----------------------------------------------------------------------------
(* Steps of a call *)

(* What a plan allows is a number of attempts, and a deadline may be.      *)
LEMMA PlansAllow ==
  ASSUME NEW plan \in Plans
  PROVE  /\ plan.attempts \in Nat \ {0}
         /\ plan.deadline = None \/ (plan.deadline # None /\ plan.deadline[1] \in Nat)
<1>1. CASE plan \in {Plan(MediaRoutes(Sets[s]), Sets[s].attempts, Sets[s].deadline,
                         Sets[s].on_device) : s \in DOMAIN Sets}
  <2>1. PICK s \in DOMAIN Sets : plan = Plan(MediaRoutes(Sets[s]), Sets[s].attempts,
                                            Sets[s].deadline, Sets[s].on_device)
    BY <1>1
  <2>2. plan.attempts = Sets[s].attempts /\ plan.deadline = Sets[s].deadline
    BY <2>1 DEF Plan
  <2>. QED
    BY <2>2, MediaAssumption
<1>2. CASE plan \in {Plan(<<m>>, 2, None, FALSE) : m \in DOMAIN Enabled}
  <2>1. plan.attempts = 2 /\ plan.deadline = None
    BY <1>2 DEF Plan
  <2>. QED
    BY <2>1
<1>. QED
  BY <1>1, <1>2 DEF Plans

(* What the invariant says of a call that is not over.                     *)
LEMMA CallFacts ==
  ASSUME MediaShape, Open, call.phase # "idle"
  PROVE  /\ Number \in Nat /\ Number \in 1..Number /\ Number <= MaxCalls
         /\ EntryOK(log[Number]) /\ log[Number].how = "open"
         /\ log[Number].plan = call.plan /\ call.plan # None /\ Chosen \in Plans
         /\ log[Number].sends = call.sends[1] /\ call.sends # None
         /\ Endpoint \in DOMAIN KindAt
         /\ Chosen.attempts \in Nat \ {0}
         /\ Chosen.deadline = None \/ (Chosen.deadline # None /\ Chosen.deadline[1] \in Nat)
         /\ call \in CallType /\ call.tries = Len(log[Number].tries)
         /\ call.at \in Nat /\ call.at >= 1 /\ call.attempt \in Nat
         /\ call.fell \in Nat /\ call.fell >= call.at - 1
         /\ call.elapsed \in Int /\ call.wait \in Int
         /\ call.last # Some("refused")
         /\ log[Number].tries \in Seq(Tries)
<1>1. Number \in Nat /\ DOMAIN log = 1..Number
  BY LenProperties DEF MediaShape, Number
<1>2. Number \in 1..Number /\ Number <= MaxCalls
  BY <1>1 DEF Open, MediaShape
<1>3. EntryOK(log[Number])
  BY <1>2 DEF MediaShape
<1>4. /\ call \in CallType
      /\ call.at \in Nat /\ call.attempt \in Nat /\ call.fell \in Nat
      /\ call.elapsed \in Int /\ call.wait \in Int
      /\ call.plan \in Options(Plans) /\ call.sends \in Options(Sends)
  BY DEF MediaShape, CallType
<1>5. Chosen \in Plans /\ call.sends[1] \in Sends
  BY <1>4, OptionIs DEF Open, Chosen
<1>6. Endpoint \in DOMAIN KindAt
  BY <1>5, MediaAssumption DEF Endpoint
<1>7. /\ Chosen.attempts \in Nat \ {0}
      /\ Chosen.deadline = None \/ (Chosen.deadline # None /\ Chosen.deadline[1] \in Nat)
  BY <1>5, PlansAllow
<1>8. log[Number].tries \in Seq(Tries)
  BY <1>3 DEF EntryOK
<1>. QED
  BY <1>1, <1>2, <1>3, <1>4, <1>5, <1>6, <1>7, <1>8 DEF Open

(* The number of a call that is not over is not one that left a row.       *)
LEMMA OpenLeftNoRow ==
  ASSUME MediaShape, Open, call.phase # "idle"
  PROVE  Number \notin Numbered /\ Number \notin Chatted /\ Number \notin LeftARow
<1>1. Number \in Nat /\ Number <= MaxCalls /\ log[Number].how = "open" /\ MaxCalls \in Nat
  BY CallFacts, MediaAssumption
<1>. QED
  BY <1>1 DEF Numbered, Chatted, LeftARow

(* The entry of the call is the only one of the log that changes.          *)
LEMMA EntryReplaced ==
  ASSUME MediaShape, Number \in 1..Number, NEW e, log' = [log EXCEPT ![Number] = e]
  PROVE  /\ log' \in Seq(ToSet(log')) /\ Number' = Number /\ log'[Number] = e
         /\ \A n \in 1..Number : n # Number => log'[n] = log[n]
<1>1. Number = Len(log) /\ Number' = Len(log') /\ log \in Seq(ToSet(log))
  BY DEF Number, MediaShape
<1>2. Number \in Nat /\ DOMAIN log = 1..Number
  BY <1>1, LenProperties
<1>3. DOMAIN log' = 1..Number /\ log' = [i \in DOMAIN log' |-> log'[i]]
  BY <1>2
<1>4. log'[Number] = e /\ \A n \in 1..Number : n # Number => log'[n] = log[n]
  BY <1>2
<1>5. ASSUME NEW t, t = log' PROVE t \in Seq(ToSet(t)) /\ Len(t) = Number
  <2>1. DOMAIN t = 1..Number /\ t = [i \in DOMAIN t |-> t[i]]
    BY <1>3, <1>5
  <2>. QED
    BY <1>2, <2>1, IsList
<1>. QED
  BY <1>1, <1>4, <1>5

(* A step in which the call goes on: no row changes.                       *)
LEMMA CallGoesOn ==
  ASSUME CallInv, RowInv, call.phase # "idle", UNCHANGED accounts, Chatted' = Chatted,
         NEW c \in CallType, call' = c, c.phase # "idle",
         c.plan = call.plan, c.sends = call.sends,
         c.at >= 1, c.fell >= c.at - 1, c.last # Some("refused"),
         NEW e, log' = [log EXCEPT ![Number] = e],
         EntryOK(e), e.how = "open", e.plan = log[Number].plan, e.sends = log[Number].sends,
         c.tries = Len(e.tries), ProgressAt(c, e.tries)
  PROVE  CallInv' /\ RowInv'
<1>1. /\ Number \in Nat /\ Number \in 1..Number /\ Number <= MaxCalls
      /\ log[Number].plan = call.plan /\ call.plan # None
      /\ log[Number].sends = call.sends[1] /\ call.sends # None
  BY CallFacts DEF CallInv
<1>2. log \in Seq(ToSet(log)) /\ \A n \in 1..Number : EntryOK(log[n])
  BY DEF CallInv, MediaShape
<1>3. /\ log' \in Seq(ToSet(log')) /\ Number' = Number /\ log'[Number] = e
      /\ \A n \in 1..Number : n # Number => log'[n] = log[n]
  BY <1>1, EntryReplaced, Zenon DEF CallInv
<1>4. MediaShape'
  <2>1. \A n \in 1..Number' : EntryOK(log'[n])
    BY <1>2, <1>3
  <2>2. (log \in Seq(ToSet(log)))'
    BY <1>3 DEF ToSet
  <2>3. call' \in CallType
    OBVIOUS
  <2>. QED
    BY <1>1, <1>3, <2>1, <2>2, <2>3, Zenon DEF MediaShape, CallType, Tries, EntryOK, TriesKept, Options, Plans
<1>5. Open'
  BY <1>1, <1>3 DEF Open
<1>6. Progress'
  BY <1>3 DEF Progress
<1>7. /\ AccountsShape /\ WalkOK /\ RowsOnce /\ RowsKept /\ RowsTell
      /\ UNCHANGED <<now, queue, table, nextId, walk, forgot>>
  BY DEF RowInv, accounts
<1>8. Number \notin Numbered /\ Number \notin LeftARow'
  <2>1. Number \notin LeftARow'
    BY <1>1, <1>3 DEF LeftARow
  <2>. QED
    BY <2>1, OpenLeftNoRow DEF CallInv
<1>9. AccountsShape' /\ RowsOnce' /\ RowsKept' /\ RowsTell'
  BY <1>1, <1>3, <1>7, <1>8, NoRowAdded
<1>10. WalkOK'
  <2>1. nextId \in Nat /\ nextId >= nextId /\ DOMAIN table \subseteq Nat
    BY <1>7, AccountsAssumption DEF AccountsShape, BeyondIds
  <2>. QED
    BY <1>7, <2>1, WalkStays
<1>. QED
  BY <1>4, <1>5, <1>6, <1>9, <1>10 DEF CallInv, RowInv

(* Between calls there is nothing to say of one.                           *)
LEMMA IdleIs ==
  Idle \in CallType /\ Idle.phase = "idle"
BY DEF Idle, CallType, Options, None

(* A call that ends with a row that tells of it, or with none.             *)
LEMMA CallEnds ==
  ASSUME CallInv, RowInv, call.phase # "idle", Chatted' = Chatted,
         NEW entry, NEW option, Ends(entry, option), EntryOK(entry),
         option = None => entry.how = "left",
         option # None => /\ entry.how \notin {"open", "unread", "left"}
                          /\ option[1].request_id = Number /\ Says(entry, option[1])
  PROVE  CallInv' /\ RowInv'
<1>1. Number \in Nat /\ Number \in 1..Number /\ Number <= MaxCalls
  BY CallFacts DEF CallInv
<1>2. /\ call' = Idle /\ log' = [log EXCEPT ![Number] = entry]
      /\ UNCHANGED <<now, table, nextId, walk, forgot>>
      /\ option = None => queue' = queue
      /\ option # None => Enqueue(option[1])
  BY DEF Ends
<1>3. /\ log' \in Seq(ToSet(log')) /\ Number' = Number /\ log'[Number] = entry
      /\ \A n \in 1..Number : n # Number => log'[n] = log[n]
  BY <1>1, <1>2, EntryReplaced DEF CallInv
<1>4. MediaShape'
  <2>1. \A n \in 1..Number' : EntryOK(log'[n])
    BY <1>3 DEF CallInv, MediaShape
  <2>2. (log \in Seq(ToSet(log)))'
    BY <1>3 DEF ToSet
  <2>3. call' \in CallType
    BY <1>2, IdleIs
  <2>. QED
    BY <1>1, <1>3, <2>1, <2>2, <2>3 DEF MediaShape
<1>5. CallInv'
  BY <1>2, <1>4, IdleIs DEF CallInv, Open, Progress
<1>6. AccountsShape /\ WalkOK /\ RowsOnce /\ RowsKept /\ RowsTell
  BY DEF RowInv
<1>7. Number \notin Numbered
  BY OpenLeftNoRow DEF CallInv
<1>8. /\ \A m \in 1..Number' : m # Number => m \in 1..Number /\ log'[m] = log[m]
      /\ 1..Number \subseteq 1..Number' /\ Chatted \subseteq Chatted'
  BY <1>3
<1>9. AccountsShape' /\ RowsOnce' /\ RowsKept' /\ RowsTell'
  <2>1. CASE option = None
    <3>1. Number \notin LeftARow'
      BY <1>3, <2>1 DEF LeftARow
    <3>. QED
      BY <1>2, <1>6, <1>7, <1>8, <2>1, <3>1, NoRowAdded
  <2>2. CASE option # None
    <3>1. Number \in Numbered'
      BY <1>1, <1>3, <2>2 DEF LeftARow, Numbered
    <3>2. Says(log'[Number], option[1]) /\ option[1].request_id = Number
      BY <1>3, <2>2
    <3>. QED
      BY <1>2, <1>6, <1>7, <1>8, <2>2, <3>1, <3>2, OneRowAdded
  <2>. QED
    BY <2>1, <2>2
<1>10. WalkOK'
  <2>1. nextId \in Nat /\ nextId >= nextId /\ DOMAIN table \subseteq Nat
    BY <1>6, AccountsAssumption DEF AccountsShape, BeyondIds
  <2>. QED
    BY <1>2, <1>6, <2>1, WalkStays
<1>. QED
  BY <1>5, <1>9, <1>10 DEF RowInv

(* A name that resolves without a refusal gives a plan.                    *)
LEMMA NamesGivePlans ==
  ASSUME NEW name, NEW kind, ResolveMedia(name, kind).code = None
  PROVE  /\ ResolveMedia(name, kind).plan # None
         /\ ResolveMedia(name, kind).plan \in Options(Plans)
<1>1. \A code : Refusal(code).code # None
  BY DEF Refusal, None, Some
<1>2. CASE name \in DOMAIN Sets /\ SetKind(Sets[name]) = kind
  <2>. DEFINE plan == Plan(MediaRoutes(Sets[name]), Sets[name].attempts,
                           Sets[name].deadline, Sets[name].on_device)
  <2>1. plan \in Plans
    BY <1>2 DEF Plans
  <2>. HIDE DEF plan
  <2>2. ResolveMedia(name, kind).plan = Some(plan)
    BY <1>2 DEF ResolveMedia, plan
  <2>. QED
    BY <2>1, <2>2 DEF Options, None, Some
<1>3. CASE name \notin DOMAIN Sets /\ name \in DOMAIN Split /\ name \in DOMAIN Enabled
           /\ Enabled[name] = kind
  <2>. DEFINE plan == Plan(<<name>>, 2, None, FALSE)
  <2>1. plan \in Plans
    BY <1>3 DEF Plans
  <2>. HIDE DEF plan
  <2>2. ResolveMedia(name, kind).plan = Some(plan)
    BY <1>3 DEF ResolveMedia, plan
  <2>. QED
    BY <2>1, <2>2 DEF Options, None, Some
<1>. QED
  BY <1>1, <1>2, <1>3 DEF ResolveMedia

(* A row of a request that got no answer.                                  *)
LEMMA FailedRowIs ==
  ASSUME NEW id, NEW asked, NEW code
  PROVE  /\ FailedRow(id, asked, code).request_id = id
         /\ FailedRow(id, asked, code).outcome = "error"
         /\ FailedRow(id, asked, code).attempts = 0
         /\ FailedRow(id, asked, code).route = None
         /\ FailedRow(id, asked, code).cost = NoCost
         /\ FailedRow(id, asked, code).code # None
BY DEF FailedRow, Row, None, Some

(* A call that comes in: refused with a row, unread without, or begun.     *)
LEMMA CallComes ==
  ASSUME CallInv, RowInv, NEW sends \in Sends, Arrive(sends), Chatted' = Chatted
  PROVE  CallInv' /\ RowInv'
<1>. DEFINE entry == [sends |-> sends, plan |-> None, tries |-> <<>>, how |-> "turned away",
                      answer |-> None, billed |-> None]
            found == ResolveMedia(AskedModel(sends.sent), KindAt[sends.endpoint])
            begun == [Idle EXCEPT !.phase = "choosing", !.sends = Some(sends),
                                  !.plan = found.plan, !.at = 1]
            n == Number + 1
<1>1. Number \in Nat /\ log \in Seq(ToSet(log)) /\ Number = Len(log) /\ Number' = Len(log')
  BY LenProperties DEF CallInv, MediaShape, Number
<1>2. Number < MaxCalls /\ UNCHANGED <<now, table, nextId, walk, forgot>>
  BY DEF Arrive
<1>3. PICK e : /\ log' = Append(log, e)
               /\ \/ e = [entry EXCEPT !.how = "unread"] /\ call' = Idle /\ queue' = queue
                  \/ /\ e = entry /\ call' = Idle
                     /\ \E code : Enqueue(FailedRow(Number + 1, AskedModel(sends.sent), code))
                  \/ /\ found.code = None /\ e = [entry EXCEPT !.how = "open", !.plan = found.plan]
                     /\ call' = begun /\ queue' = queue
  BY DEF Arrive
<1>. HIDE DEF begun
<1>4. /\ DOMAIN e = {"sends", "plan", "tries", "how", "answer", "billed"}
      /\ e.sends = sends /\ e.tries = <<>>
      /\ \/ e.plan = None /\ e.how = "unread" /\ call' = Idle /\ queue' = queue
         \/ /\ e.plan = None /\ e.how = "turned away" /\ call' = Idle
            /\ \E code : Enqueue(FailedRow(n, AskedModel(sends.sent), code))
         \/ /\ found.code = None /\ e.plan = found.plan /\ e.how = "open"
            /\ call' = begun /\ queue' = queue
  <2>1. CASE e = [entry EXCEPT !.how = "unread"] /\ call' = Idle /\ queue' = queue
    BY <2>1
  <2>2. CASE /\ e = entry /\ call' = Idle
             /\ \E code : Enqueue(FailedRow(Number + 1, AskedModel(sends.sent), code))
    <3>1. /\ DOMAIN e = {"sends", "plan", "tries", "how", "answer", "billed"}
          /\ e.sends = sends /\ e.tries = <<>> /\ e.plan = None /\ e.how = "turned away"
      BY <2>2
    <3>. QED
      BY <2>2, <3>1, Zenon
  <2>3. CASE /\ found.code = None /\ e = [entry EXCEPT !.how = "open", !.plan = found.plan]
             /\ call' = begun /\ queue' = queue
    <3>1. /\ DOMAIN e = {"sends", "plan", "tries", "how", "answer", "billed"}
          /\ e.sends = sends /\ e.tries = <<>> /\ e.plan = found.plan /\ e.how = "open"
      BY <2>3
    <3>. QED
      BY <2>3, <3>1, Zenon
  <2>. QED
    BY <1>3, <2>1, <2>2, <2>3, Zenon
<1>. HIDE DEF entry, found
<1>5. \/ e.plan = None
      \/ found.code = None /\ e.plan = found.plan /\ e.plan # None /\ e.plan \in Options(Plans)
  BY <1>4, NamesGivePlans DEF found
<1>6. EntryOK(e)
  <2>1. <<>> \in Seq(Tries) /\ Len(<<>>) = 0 /\ DOMAIN <<>> = {}
    OBVIOUS
  <2>2. DOMAIN e.tries = {} /\ Len(e.tries) = 0 /\ e.tries \in Seq(Tries)
    BY <1>4, <2>1
  <2>4. \A i \in 1..Len(e.tries) - 1 : FALSE
    BY <2>2
  <2>5. TriesKept(e)
    BY <2>2, <2>4 DEF TriesKept
  <2>3. e.plan \in Options(Plans)
    BY <1>5 DEF Options
  <2>. QED
    BY <1>4, <2>2, <2>3, <2>5 DEF EntryOK
<1>7. /\ log' \in Seq(ToSet(log')) /\ Number' = n /\ n \in Nat /\ n <= MaxCalls
      /\ log'[n] = e /\ \A m \in 1..Number : log'[m] = log[m]
  <2>1. MaxCalls \in Nat
    BY MediaAssumption
  <2>. QED
    BY <1>1, <1>2, <1>3, <2>1, Longer
<1>8. \A m \in 1..n : m \in 1..Number \/ m = n
  BY <1>1
<1>9. ASSUME found.code = None
      PROVE  /\ begun.phase = "choosing" /\ begun \in CallType /\ begun.plan = found.plan
             /\ begun.sends = Some(sends) /\ begun.at = 1 /\ begun.fell = 0 /\ begun.tries = 0
             /\ begun.last = None
  <2>1. found.plan \in Options(Plans)
    BY <1>9, NamesGivePlans DEF found
  <2>2. Some(sends) \in Options(Sends)
    BY DEF Options
  <2>3. Idle \in CallType /\ DOMAIN Idle = {"phase", "sends", "plan", "at", "attempt", "tries",
                                            "fell", "last", "elapsed", "wait"}
    BY IdleIs DEF Idle
  <2>4. begun \in CallType
    BY <2>1, <2>2, <2>3 DEF begun, CallType
  <2>. QED
    BY <2>3, <2>4 DEF begun, Idle
<1>10. MediaShape'
  <2>1. \A m \in 1..Number' : EntryOK(log'[m])
    BY <1>6, <1>7, <1>8 DEF CallInv, MediaShape
  <2>2. (log \in Seq(ToSet(log)))'
    BY <1>7 DEF ToSet
  <2>3. call' \in CallType
    BY <1>4, <1>9, IdleIs
  <2>. QED
    BY <1>7, <2>1, <2>2, <2>3 DEF MediaShape
<1>11. Open' /\ Progress'
  <2>1. CASE call' = Idle
    BY <2>1, IdleIs DEF Open, Progress
  <2>2. CASE /\ found.code = None /\ e.plan = found.plan /\ e.how = "open" /\ call' = begun
    <3>1. e.plan # None /\ Some(sends) # None /\ Some(sends)[1] = sends /\ None # Some("refused")
      BY <2>2, NamesGivePlans DEF found, None, Some
    <3>2. Len(e.tries) = 0
      <4>1. Len(<<>>) = 0
        OBVIOUS
      <4>. QED
        BY <1>4, <4>1
    <3>3. Open'
      <4>1. /\ call'.plan = e.plan /\ call'.sends = Some(sends) /\ call'.at = 1
            /\ call'.fell = 0 /\ call'.tries = 0 /\ call'.last = None
        BY <1>9, <2>2
      <4>2. log'[Number'] = e /\ e.sends = sends /\ Number' >= 1
        <5>1. n >= 1
          BY <1>1
        <5>. HIDE DEF n
        <5>2. Number' = n /\ log'[n] = e
          BY <1>7, Zenon
        <5>. QED
          BY <1>4, <5>1, <5>2
      <4>3. /\ Number' >= 1 /\ log'[Number'].how = "open"
            /\ call'.plan # None /\ log'[Number'].plan = call'.plan
        BY <2>2, <3>1, <4>1, <4>2
      <4>4. call'.sends # None /\ log'[Number'].sends = call'.sends[1]
        BY <3>1, <4>1, <4>2
      <4>5. /\ call'.at >= 1 /\ call'.fell >= call'.at - 1
            /\ call'.tries = Len(log'[Number'].tries) /\ call'.last # Some("refused")
        BY <3>1, <3>2, <4>1, <4>2
      <4>. QED
        BY <4>3, <4>4, <4>5 DEF Open
    <3>4. ProgressAt(begun, e.tries)
      BY <1>9, <2>2, <3>2 DEF ProgressAt, TriesSoFar, LastTry, Counted
    <3>. QED
      BY <1>7, <2>2, <3>3, <3>4 DEF Progress
  <2>. QED
    BY <1>4, <2>1, <2>2
<1>12. n \notin Numbered /\ n \notin Chatted
  <2>1. MaxCalls \in Nat
    BY MediaAssumption
  <2>. QED
    BY <1>1, <1>7, <2>1 DEF Numbered, Chatted, LeftARow
<1>13. AccountsShape /\ WalkOK /\ RowsOnce /\ RowsKept /\ RowsTell
  BY DEF RowInv
<1>14. /\ \A m \in 1..Number' : m # n => m \in 1..Number /\ log'[m] = log[m]
       /\ 1..Number \subseteq 1..Number' /\ n \in 1..Number'
  BY <1>1, <1>7, <1>8
<1>15. AccountsShape' /\ RowsOnce' /\ RowsKept' /\ RowsTell'
  <2>1. CASE e.how \in {"unread", "open"} /\ queue' = queue
    <3>1. n \notin LeftARow'
      BY <1>7, <2>1 DEF LeftARow
    <3>. QED
      BY <1>2, <1>12, <1>13, <1>14, <2>1, <3>1, NoRowAdded
  <2>2. CASE /\ e.plan = None /\ e.how = "turned away"
             /\ \E code : Enqueue(FailedRow(n, AskedModel(sends.sent), code))
    <3>0. PICK code : Enqueue(FailedRow(n, AskedModel(sends.sent), code))
      BY <2>2
    <3>. DEFINE row == FailedRow(n, AskedModel(sends.sent), code)
    <3>1. /\ Enqueue(row) /\ row.request_id = n /\ row.outcome = "error" /\ row.attempts = 0
      BY <3>0, FailedRowIs
    <3>. HIDE DEF row
    <3>2. n \in Numbered'
      BY <1>7, <1>14, <2>2 DEF LeftARow, Numbered
    <3>3. Says(log'[n], row)
      BY <1>7, <2>2, <3>1 DEF Says
    <3>. QED
      BY <1>2, <1>12, <1>13, <1>14, <3>1, <3>2, <3>3, OneRowAdded
  <2>. QED
    BY <1>4, <2>1, <2>2
<1>16. WalkOK'
  <2>1. nextId \in Nat /\ nextId >= nextId /\ DOMAIN table \subseteq Nat
    BY <1>13, AccountsAssumption DEF AccountsShape, BeyondIds
  <2>. QED
    BY <1>2, <1>13, <2>1, WalkStays
<1>. QED
  BY <1>10, <1>11, <1>15, <1>16 DEF CallInv, RowInv

(* A step that only moves the call on.                                     *)
LEMMA CallMoves ==
  ASSUME CallInv, RowInv, call.phase # "idle", Chatted' = Chatted,
         NEW c \in CallType, Steps(c), log' = log, c.phase # "idle",
         c.plan = call.plan, c.sends = call.sends, c.tries = call.tries,
         c.at >= 1, c.fell >= c.at - 1, c.last # Some("refused"),
         ProgressAt(c, log[Number].tries)
  PROVE  CallInv' /\ RowInv'
<1>. DEFINE e == log[Number]
<1>1. EntryOK(e) /\ e.how = "open" /\ call.tries = Len(e.tries) /\ Number \in 1..Number
  BY CallFacts DEF CallInv
<1>2. log \in Seq(ToSet(log))
  BY DEF CallInv, MediaShape
<1>3. log = [log EXCEPT ![Number] = e]
  <2>1. log = [i \in DOMAIN log |-> log[i]]
    BY <1>2
  <2>. QED
    BY <2>1
<1>4. call' = c /\ UNCHANGED accounts
  BY DEF Steps
<1>5. log' = [log EXCEPT ![Number] = e]
  BY <1>3
<1>. HIDE DEF e
<1>6. ProgressAt(c, e.tries) /\ e.plan = log[Number].plan /\ e.sends = log[Number].sends
  BY DEF e
<1>. QED
  BY <1>1, <1>4, <1>5, <1>6, CallGoesOn

(* What is left of a call's fields when some of them change.               *)
CallFields == {"phase", "sends", "plan", "at", "attempt", "tries", "fell", "last", "elapsed", "wait"}

(* A record of these fields is a call. *)
LEMMA CallIs ==
  ASSUME NEW c, DOMAIN c = CallFields, c = [f \in DOMAIN c |-> c[f]],
         c.phase \in {"idle", "choosing", "asking", "sent", "waiting"},
         c.sends \in Options(Sends), c.plan \in Options(Plans),
         c.at \in Nat, c.attempt \in Nat, c.tries \in Nat, c.fell \in Nat,
         c.last \in Options(Errors), c.elapsed \in Int, c.wait \in Int
  PROVE  c \in CallType
BY DEF CallType, CallFields

(* A call is a record of these fields. *)
LEMMA CallHas ==
  ASSUME NEW c \in CallType
  PROVE  /\ DOMAIN c = CallFields
         /\ c.phase \in {"idle", "choosing", "asking", "sent", "waiting"}
         /\ c.sends \in Options(Sends) /\ c.plan \in Options(Plans)
         /\ c.at \in Nat /\ c.attempt \in Nat /\ c.tries \in Nat /\ c.fell \in Nat
         /\ c.last \in Options(Errors) /\ c.elapsed \in Int /\ c.wait \in Int
BY DEF CallType, CallFields

(* What is known of each try. *)
LEMMA TryIs ==
  ASSUME NEW tries \in Seq(Tries), NEW i \in 1..Len(tries)
  PROVE  tries[i].route \in Nat /\ tries[i].at \in Int /\ tries[i].failed \in Options(Errors)
<1>1. tries[i] \in Tries
  OBVIOUS
<1>. QED
  BY <1>1 DEF Tries

(* The next route's turn: no try was of it, and all have failed.           *)
LEMMA PassesOn ==
  ASSUME NEW c, NEW tries \in Seq(Tries), NEW d, c.phase # "idle", c.at \in Nat,
         \A i \in 1..Len(tries) : /\ tries[i].route <= c.at
                                 /\ tries[i].failed # Some("refused") /\ tries[i].failed # None,
         d.phase = "choosing", d.at = c.at + 1
  PROVE  ProgressAt(d, tries)
<1>1. \A i \in 1..Len(tries) : tries[i].route \in Nat
  BY TryIs
<1>2. TriesSoFar(d, tries)
  BY <1>1 DEF TriesSoFar
<1>. QED
  BY <1>2 DEF ProgressAt, LastTry, Counted

(* A route that cannot be asked is passed over.                            *)
LEMMA RoutePassed ==
  ASSUME CallInv, RowInv, Chatted' = Chatted, call.phase \in {"choosing", "asking"},
         Steps(NextRoute([call EXCEPT !.fell = @ + 1])), log' = log
  PROVE  CallInv' /\ RowInv'
<1>. DEFINE c == NextRoute([call EXCEPT !.fell = @ + 1])
<1>1. /\ call \in CallType /\ call.at \in Nat /\ call.fell \in Nat /\ call.fell >= call.at - 1
      /\ call.last # Some("refused") /\ log[Number].tries \in Seq(Tries) /\ call.at >= 1
  BY CallFacts DEF CallInv
<1>2. DOMAIN call = CallFields
  BY <1>1, CallHas
<1>3. /\ DOMAIN c = CallFields /\ c = [f \in DOMAIN c |-> c[f]]
      /\ c.phase = "choosing" /\ c.at = call.at + 1 /\ c.attempt = 0 /\ c.fell = call.fell + 1
      /\ c.sends = call.sends /\ c.plan = call.plan /\ c.tries = call.tries /\ c.last = call.last
      /\ c.elapsed = call.elapsed /\ c.wait = call.wait
  BY <1>2 DEF NextRoute, CallFields
<1>. HIDE DEF c
<1>4. c \in CallType
  <2>1. /\ call.sends \in Options(Sends) /\ call.plan \in Options(Plans)
        /\ call.tries \in Nat /\ call.fell \in Nat /\ call.last \in Options(Errors)
        /\ call.elapsed \in Int /\ call.wait \in Int
    BY <1>1, CallHas
  <2>2. /\ c.phase \in {"idle", "choosing", "asking", "sent", "waiting"}
        /\ c.sends \in Options(Sends) /\ c.plan \in Options(Plans)
        /\ c.at \in Nat /\ c.attempt \in Nat /\ c.tries \in Nat /\ c.fell \in Nat
        /\ c.last \in Options(Errors) /\ c.elapsed \in Int /\ c.wait \in Int
    BY <1>1, <1>3, <2>1
  <2>. QED
    BY <1>3, <2>2, CallIs
<1>5. \A i \in 1..Len(log[Number].tries) :
        /\ log[Number].tries[i].route <= call.at
        /\ log[Number].tries[i].failed # Some("refused") /\ log[Number].tries[i].failed # None
  BY DEF CallInv, Progress, ProgressAt, TriesSoFar
<1>6. ProgressAt(c, log[Number].tries)
  BY <1>1, <1>3, <1>5, PassesOn
<1>7. c.at >= 1 /\ c.fell >= c.at - 1 /\ Steps(c)
  BY <1>1, <1>3 DEF c
<1>. QED
  BY <1>1, <1>3, <1>4, <1>6, <1>7, CallMoves

(* A route whose turn it is is asked for the first time.                   *)
LEMMA RouteTaken ==
  ASSUME CallInv, RowInv, Chatted' = Chatted, TakeUp
  PROVE  CallInv' /\ RowInv'
<1>. DEFINE c == [call EXCEPT !.phase = "asking", !.attempt = 1]
            tries == log[Number].tries
<1>0. call.phase = "choosing" /\ Steps(c) /\ log' = log
  BY DEF TakeUp
<1>1. /\ call \in CallType /\ call.at \in Nat /\ call.fell \in Nat /\ call.fell >= call.at - 1
      /\ call.last # Some("refused") /\ tries \in Seq(Tries) /\ call.at >= 1
      /\ Chosen.attempts \in Nat \ {0}
  BY <1>0, CallFacts DEF CallInv
<1>2. DOMAIN call = CallFields
  BY <1>1, CallHas
<1>3. /\ DOMAIN c = CallFields /\ c = [f \in DOMAIN c |-> c[f]]
      /\ c.phase = "asking" /\ c.at = call.at /\ c.attempt = 1 /\ c.fell = call.fell
      /\ c.sends = call.sends /\ c.plan = call.plan /\ c.tries = call.tries /\ c.last = call.last
      /\ c.elapsed = call.elapsed /\ c.wait = call.wait
  BY <1>2 DEF CallFields
<1>. HIDE DEF c, tries
<1>4. c \in CallType
  <2>1. /\ call.sends \in Options(Sends) /\ call.plan \in Options(Plans)
        /\ call.tries \in Nat /\ call.fell \in Nat /\ call.last \in Options(Errors)
        /\ call.elapsed \in Int /\ call.wait \in Int
    BY <1>1, CallHas
  <2>2. /\ c.phase \in {"idle", "choosing", "asking", "sent", "waiting"}
        /\ c.sends \in Options(Sends) /\ c.plan \in Options(Plans)
        /\ c.at \in Nat /\ c.attempt \in Nat /\ c.tries \in Nat /\ c.fell \in Nat
        /\ c.last \in Options(Errors) /\ c.elapsed \in Int /\ c.wait \in Int
    BY <1>1, <1>3, <2>1
  <2>. QED
    BY <1>3, <2>2, CallIs
<1>5. \A i \in 1..Len(tries) :
        /\ tries[i].route <= call.at /\ tries[i].route < call.at
        /\ tries[i].failed # Some("refused") /\ tries[i].failed # None
  BY <1>0 DEF CallInv, Progress, ProgressAt, TriesSoFar, tries
<1>6. TriesSoFar(c, tries)
  BY <1>3, <1>5 DEF TriesSoFar
<1>7. LastTry(c, tries)
  BY <1>3, SMTT(30) DEF LastTry
<1>8. MayBeAsked(c)
  BY <1>0, <1>3 DEF TakeUp, Barred, MayBeAsked, RouteAt, RouteName, Chosen, Provider
<1>9. TimesAsked(tries, c.at) = 0
  <2>1. DOMAIN tries = 1..Len(tries) /\ \A i \in 1..Len(tries) : tries[i].route \in Nat
    BY <1>1, LenProperties, TryIs
  <2>2. \A i \in DOMAIN tries : tries[i].route # c.at
    BY <1>1, <1>3, <1>5, <2>1
  <2>3. {j \in DOMAIN tries : tries[j].route = c.at} = {}
    BY <2>2
  <2>. QED
    BY <2>3, FS_EmptySet DEF TimesAsked
<1>10. Counted(c, tries)
  BY <1>1, <1>3, <1>8, <1>9 DEF Counted, Chosen
<1>11. ProgressAt(c, log[Number].tries)
  BY <1>6, <1>7, <1>10 DEF ProgressAt, tries
<1>. QED
  BY <1>0, <1>1, <1>3, <1>4, <1>11, CallMoves

(* A route is asked again after the wait.                                  *)
LEMMA RouteAskedAgain ==
  ASSUME CallInv, RowInv, Chatted' = Chatted, NEW late \in Late, Wake(late)
  PROVE  CallInv' /\ RowInv'
<1>. DEFINE c == [call EXCEPT !.phase = "asking", !.attempt = @ + 1, !.wait = 0,
                              !.elapsed = @ + call.wait + late]
            tries == log[Number].tries
<1>0. call.phase = "waiting" /\ Steps(c) /\ log' = log
  BY DEF Wake
<1>1. /\ call \in CallType /\ call.at \in Nat /\ call.fell \in Nat /\ call.fell >= call.at - 1
      /\ call.last # Some("refused") /\ tries \in Seq(Tries) /\ call.at >= 1
      /\ call.elapsed \in Int /\ call.wait \in Int /\ call.attempt \in Nat
      /\ Chosen.attempts \in Nat \ {0} /\ late \in Nat /\ RetryAfter \in Nat
  BY <1>0, CallFacts, MediaAssumption DEF CallInv
<1>2. DOMAIN call = CallFields
  BY <1>1, CallHas
<1>3. /\ DOMAIN c = CallFields /\ c = [f \in DOMAIN c |-> c[f]]
      /\ c.phase = "asking" /\ c.at = call.at /\ c.attempt = call.attempt + 1 /\ c.fell = call.fell
      /\ c.sends = call.sends /\ c.plan = call.plan /\ c.tries = call.tries /\ c.last = call.last
      /\ c.elapsed = call.elapsed + call.wait + late /\ c.wait = 0
  BY <1>2 DEF CallFields
<1>. HIDE DEF c, tries
<1>4. c \in CallType
  <2>1. /\ call.sends \in Options(Sends) /\ call.plan \in Options(Plans)
        /\ call.tries \in Nat /\ call.fell \in Nat /\ call.last \in Options(Errors)
        /\ call.elapsed \in Int /\ call.wait \in Int
    BY <1>1, CallHas
  <2>2. /\ c.phase \in {"idle", "choosing", "asking", "sent", "waiting"}
        /\ c.sends \in Options(Sends) /\ c.plan \in Options(Plans)
        /\ c.at \in Nat /\ c.attempt \in Nat /\ c.tries \in Nat /\ c.fell \in Nat
        /\ c.last \in Options(Errors) /\ c.elapsed \in Int /\ c.wait \in Int
    <3>1. c.elapsed \in Int /\ c.wait \in Int /\ c.attempt \in Nat
      BY <1>1, <1>3, SMTT(30)
    <3>2. /\ c.sends \in Options(Sends) /\ c.plan \in Options(Plans)
          /\ c.last \in Options(Errors) /\ c.at \in Nat /\ c.tries \in Nat /\ c.fell \in Nat
      BY <1>1, <1>3, <2>1, SMTT(30)
    <3>. QED
      BY <1>3, <3>1, <3>2
  <2>. QED
    BY <1>3, <2>2, CallIs
<1>5. ProgressAt(call, tries)
  BY <1>0 DEF CallInv, Progress, tries
<1>6. /\ MayBeAsked(call) /\ call.attempt \in 1..Chosen.attempts
      /\ call.attempt < Chosen.attempts /\ TimesAsked(tries, call.at) = call.attempt
  BY <1>0, <1>5 DEF ProgressAt, Counted, Chosen
<1>7. TriesSoFar(c, tries)
  BY <1>0, <1>1, <1>3, <1>5, <1>6 DEF ProgressAt, TriesSoFar
<1>8. LastTry(c, tries)
  <2>. DEFINE last == tries[Len(tries)]
  <2>1. tries # <<>> /\ MayRepeat(last, call.at, call.elapsed + call.wait)
    BY <1>0, <1>5 DEF ProgressAt, LastTry
  <2>2. last.at \in Int
    <3>1. Len(tries) \in 1..Len(tries)
      BY <1>1, <2>1, EmptySeq
    <3>. QED
      BY <1>1, <3>1, TryIs
  <2>3. MayRepeat(last, c.at, c.elapsed)
    BY <1>1, <1>3, <2>1, <2>2, SMTT(30) DEF MayRepeat
  <2>. QED
    BY <1>3, <2>1, <2>3 DEF LastTry
<1>9. Counted(c, tries)
  <2>1. MayBeAsked(c)
    BY <1>3, <1>6 DEF MayBeAsked, RouteAt
  <2>2. c.attempt \in 1..c.plan[1].attempts /\ c.attempt - 1 = call.attempt
    <3>1. c.plan[1].attempts = Chosen.attempts /\ c.attempt = call.attempt + 1
      BY <1>3 DEF Chosen
    <3>2. \A n, most \in Nat : \A m : m = n + 1 /\ n \in 1..most /\ n < most => m \in 1..most /\ m - 1 = n
      OBVIOUS
    <3>3. c.attempt \in 1..Chosen.attempts /\ c.attempt - 1 = call.attempt
      BY <1>1, <1>6, <3>1, <3>2
    <3>. QED
      BY <3>1, <3>3
  <2>. QED
    BY <1>3, <1>6, <2>1, <2>2 DEF Counted
<1>10. ProgressAt(c, log[Number].tries)
  BY <1>7, <1>8, <1>9 DEF ProgressAt, tries
<1>. QED
  BY <1>0, <1>1, <1>3, <1>4, <1>10, CallMoves

(* A call that is over without an answer, for a reason that is no refusal. *)
LEMMA ClosesEnds ==
  ASSUME CallInv, RowInv, call.phase # "idle", Chatted' = Chatted,
         NEW entry, EntryOK(entry), entry.plan # None, NEW error \in Errors \ {"refused"},
         \A i \in 1..Len(entry.tries) : entry.tries[i].failed # Some("refused"),
         Closes(entry, error)
  PROVE  CallInv' /\ RowInv'
<1>. DEFINE e == [entry EXCEPT !.how = error]
            row == FailedRow(Number, Asked, CodeOf[error])
<1>1. Ends(e, Some(row))
  BY DEF Closes
<1>2. DOMAIN entry = {"sends", "plan", "tries", "how", "answer", "billed"}
      /\ entry.tries \in Seq(Tries)
  BY DEF EntryOK
<1>3. /\ DOMAIN e = DOMAIN entry /\ e.sends = entry.sends /\ e.plan = entry.plan
      /\ e.tries = entry.tries /\ e.how = error
  BY <1>2
<1>4. /\ row.request_id = Number /\ row.outcome = "error" /\ row.route = None
      /\ row.cost = NoCost /\ row.code # None
  BY FailedRowIs
<1>. HIDE DEF e, row
<1>5. EntryOK(e)
  BY <1>3, EntryStays
<1>6. error \notin {"open", "unread", "left", "answered", "refused"}
  BY DEF Errors, CodeOf
<1>7. Says(e, row)
  <2>1. DOMAIN e.tries = 1..Len(entry.tries)
    BY <1>2, <1>3, LenProperties
  <2>2. ~ \E i \in DOMAIN e.tries : e.tries[i].failed = Some("refused")
    BY <1>3, <2>1
  <2>. QED
    BY <1>3, <1>4, <1>6, <2>2 DEF Says, RowTells
<1>8. Some(row) # None /\ Some(row)[1] = row
  BY DEF Some, None
<1>. QED
  BY <1>1, <1>3, <1>4, <1>5, <1>6, <1>7, <1>8, CallEnds

(* A call that is being asked for: how many tries there were, and that the *)
(* last of them may be followed by another.                                *)
LEMMA AskingIs ==
  ASSUME CallInv, call.phase = "asking"
  PROVE  LET tries == log[Number].tries
             last == tries[Len(tries)]
         IN /\ MayBeAsked(call) /\ call.attempt \in 1..Chosen.attempts
            /\ TimesAsked(tries, call.at) = call.attempt - 1
            /\ \A i \in 1..Len(tries) :
                 /\ tries[i].route <= call.at
                 /\ call.attempt = 1 => tries[i].route < call.at
                 /\ tries[i].failed # Some("refused") /\ tries[i].failed # None
            /\ call.attempt > 1 => tries # <<>> /\ MayRepeat(last, call.at, call.elapsed)
<1>. DEFINE tries == log[Number].tries
<1>1. TriesSoFar(call, tries) /\ LastTry(call, tries) /\ Counted(call, tries)
  BY DEF CallInv, Progress, ProgressAt
<1>. HIDE DEF tries
<1>2. /\ MayBeAsked(call) /\ call.attempt \in 1..Chosen.attempts
      /\ TimesAsked(tries, call.at) = call.attempt - 1
  BY <1>1 DEF Counted, Chosen
<1>3. \A i \in 1..Len(tries) :
        /\ tries[i].route <= call.at
        /\ call.attempt = 1 => tries[i].route < call.at
        /\ tries[i].failed # Some("refused") /\ tries[i].failed # None
  BY <1>1 DEF TriesSoFar
<1>4. call.attempt > 1 => tries # <<>> /\ MayRepeat(tries[Len(tries)], call.at, call.elapsed)
  BY <1>1 DEF LastTry
<1>. QED
  BY <1>2, <1>3, <1>4 DEF tries

(* The deadline is past before a request is sent. *)
LEMMA CallTooLate ==
  ASSUME CallInv, RowInv, Chatted' = Chatted, TooLate
  PROVE  CallInv' /\ RowInv'
<1>1. call.phase = "asking" /\ Closes(log[Number], "timeout")
  BY DEF TooLate
<1>2. EntryOK(log[Number]) /\ log[Number].plan # None
  BY <1>1, CallFacts DEF CallInv
<1>3. \A i \in 1..Len(log[Number].tries) : log[Number].tries[i].failed # Some("refused")
  BY <1>1, AskingIs
<1>4. "timeout" \in Errors \ {"refused"}
  BY DEF Errors, CodeOf
<1>. QED
  BY <1>1, <1>2, <1>3, <1>4, ClosesEnds

(* No route is left: the last failure is what the call comes to.           *)
LEMMA CallGivesUp ==
  ASSUME CallInv, RowInv, Chatted' = Chatted, GiveUp
  PROVE  CallInv' /\ RowInv'
<1>1. call.phase = "choosing" /\ Closes(log[Number], Or(call.last, "unsupported"))
  BY DEF GiveUp
<1>2. /\ EntryOK(log[Number]) /\ log[Number].plan # None
      /\ call \in CallType /\ call.last # Some("refused")
  BY <1>1, CallFacts DEF CallInv
<1>3. \A i \in 1..Len(log[Number].tries) : log[Number].tries[i].failed # Some("refused")
  BY <1>1 DEF CallInv, Progress, ProgressAt, TriesSoFar
<1>4. Or(call.last, "unsupported") \in Errors \ {"refused"}
  <2>1. call.last \in Options(Errors)
    BY <1>2, CallHas
  <2>2. "unsupported" \in Errors
    BY DEF Errors, CodeOf
  <2>. QED
    BY <1>2, <2>1, <2>2, OptionIs DEF Or
<1>. QED
  BY <1>1, <1>2, <1>3, <1>4, ClosesEnds

(* A client leaves: the call is over and leaves no row.                    *)
LEMMA ClientLeaves ==
  ASSUME CallInv, RowInv, Chatted' = Chatted, Leave
  PROVE  CallInv' /\ RowInv'
<1>. DEFINE e == [log[Number] EXCEPT !.how = "left"]
<1>1. call.phase # "idle" /\ Ends(e, None)
  BY DEF Leave
<1>2. EntryOK(log[Number])
  BY <1>1, CallFacts DEF CallInv
<1>3. /\ DOMAIN e = DOMAIN log[Number] /\ e.sends = log[Number].sends /\ e.plan = log[Number].plan
      /\ e.tries = log[Number].tries /\ e.how = "left"
  BY <1>2 DEF EntryOK
<1>. HIDE DEF e
<1>4. EntryOK(e)
  BY <1>2, <1>3, EntryStays
<1>. QED
  BY <1>1, <1>3, <1>4, CallEnds

(* A request goes out: a try that the plan allows.                         *)
LEMMA RequestGoesOut ==
  ASSUME CallInv, RowInv, Chatted' = Chatted, Begin
  PROVE  CallInv' /\ RowInv'
<1>. DEFINE entry == log[Number]
            tries == entry.tries
            try == [route |-> call.at, at |-> call.elapsed, failed |-> None]
            e == Tried(entry, try)
            c == [call EXCEPT !.phase = "sent", !.tries = @ + 1]
<1>1. /\ call.phase = "asking" /\ ~OutOfTime(call.elapsed, 0)
      /\ Serves(Provider.type, KindAt[Endpoint])
      /\ Steps(c) /\ log' = [log EXCEPT ![Number] = e]
  BY DEF Begin
<1>2. /\ Number \in 1..Number /\ EntryOK(entry) /\ entry.how = "open"
      /\ entry.plan = call.plan /\ call.plan # None /\ Chosen \in Plans
      /\ entry.sends = call.sends[1]
      /\ Chosen.attempts \in Nat \ {0}
      /\ Chosen.deadline = None \/ (Chosen.deadline # None /\ Chosen.deadline[1] \in Nat)
      /\ call \in CallType /\ call.tries = Len(tries)
      /\ call.at \in Nat /\ call.at >= 1 /\ call.attempt \in Nat
      /\ call.fell \in Nat /\ call.fell >= call.at - 1
      /\ call.elapsed \in Int /\ call.last # Some("refused") /\ tries \in Seq(Tries)
  BY <1>1, CallFacts DEF CallInv
<1>3. /\ MayBeAsked(call) /\ call.attempt \in 1..Chosen.attempts
      /\ TimesAsked(tries, call.at) = call.attempt - 1
      /\ \A i \in 1..Len(tries) :
           /\ tries[i].route <= call.at
           /\ call.attempt = 1 => tries[i].route < call.at
           /\ tries[i].failed # Some("refused") /\ tries[i].failed # None
      /\ call.attempt > 1 => tries # <<>> /\ MayRepeat(tries[Len(tries)], call.at, call.elapsed)
  BY <1>1, AskingIs
<1>4. try \in Tries /\ try.route = call.at /\ try.at = call.elapsed /\ try.failed = None
  BY <1>2, SMTT(30) DEF Tries, Options
<1>. HIDE DEF try
<1>5. Allowed(entry, try)
  <2>1. Chosen.deadline # None => try.at < Chosen.deadline[1]
    BY <1>1, <1>2, <1>4, SMTT(30) DEF OutOfTime, Or
  <2>2. entry.sends.private \/ Chosen.on_device =>
          Built[Split[Chosen.routes[try.route]].provider].on_device
    BY <1>2, <1>3, <1>4 DEF MayBeAsked, RouteAt, Chosen
  <2>3. TimesAsked(tries, try.route) + 1 <= Chosen.attempts /\ Chosen.attempts \in Nat
    BY <1>2, <1>3, <1>4
  <2>4. ASSUME tries # <<>>
        PROVE  LET last == tries[Len(tries)] IN
               /\ last.failed \notin {None, Some("refused")}
               /\ \/ last.route < try.route
                  \/ last.route = try.route /\ Repeats(Chosen, last, try)
    <3>. DEFINE last == tries[Len(tries)]
    <3>1. Len(tries) \in 1..Len(tries)
      BY <1>2, <2>4, EmptySeq
    <3>2. last.failed # Some("refused") /\ last.failed # None
      BY <1>3, <3>1
    <3>3. CASE call.attempt = 1
      BY <1>3, <1>4, <3>1, <3>2, <3>3
    <3>4. CASE call.attempt > 1
      <4>1. MayRepeat(last, call.at, call.elapsed)
        BY <1>3, <3>4
      <4>2. last.route = try.route /\ Repeats(Chosen, last, try)
        BY <1>4, <4>1 DEF MayRepeat, Repeats, Policy!IsRetryable
      <4>. QED
        BY <3>2, <4>2
    <3>5. call.attempt = 1 \/ call.attempt > 1
      BY <1>2, <1>3
    <3>. QED
      BY <3>3, <3>4, <3>5
  <2>. QED
    BY <1>2, <2>1, <2>2, <2>3, <2>4 DEF Allowed, Chosen
<1>. HIDE DEF entry, tries
<1>6. /\ EntryOK(e) /\ e.sends = entry.sends /\ e.plan = entry.plan /\ e.how = entry.how
      /\ Len(tries) \in Nat /\ Len(e.tries) = Len(tries) + 1
      /\ \A i \in 1..Len(tries) : e.tries[i] = tries[i]
      /\ e.tries[Len(e.tries)] = try /\ e.tries # <<>>
      /\ TimesAsked(e.tries, call.at) = call.attempt
  <2>1. /\ EntryOK(e) /\ e.sends = entry.sends /\ e.plan = entry.plan /\ e.how = entry.how
        /\ Len(tries) \in Nat /\ Len(e.tries) = Len(tries) + 1
        /\ \A i \in 1..Len(tries) : e.tries[i] = tries[i]
        /\ e.tries[Len(e.tries)] = try /\ e.tries # <<>>
        /\ TimesAsked(e.tries, call.at) = TimesAsked(tries, call.at) + 1
    BY <1>2, <1>4, <1>5, TryBegins DEF tries
  <2>2. (call.attempt - 1) + 1 = call.attempt
    BY <1>2
  <2>. QED
    BY <1>3, <2>1, <2>2
<1>7. /\ DOMAIN c = CallFields /\ c = [f \in DOMAIN c |-> c[f]]
      /\ c.phase = "sent" /\ c.at = call.at /\ c.attempt = call.attempt /\ c.fell = call.fell
      /\ c.sends = call.sends /\ c.plan = call.plan /\ c.tries = call.tries + 1
      /\ c.last = call.last /\ c.elapsed = call.elapsed /\ c.wait = call.wait
  BY <1>2, CallHas DEF CallFields
<1>. HIDE DEF c, e
<1>8. c \in CallType
  <2>1. /\ call.sends \in Options(Sends) /\ call.plan \in Options(Plans)
        /\ call.tries \in Nat /\ call.last \in Options(Errors) /\ call.wait \in Int
    BY <1>2, CallHas
  <2>2. /\ c.phase \in {"idle", "choosing", "asking", "sent", "waiting"}
        /\ c.sends \in Options(Sends) /\ c.plan \in Options(Plans)
        /\ c.at \in Nat /\ c.attempt \in Nat /\ c.tries \in Nat /\ c.fell \in Nat
        /\ c.last \in Options(Errors) /\ c.elapsed \in Int /\ c.wait \in Int
    BY <1>2, <1>7, <2>1
  <2>. QED
    BY <1>7, <2>2, CallIs
<1>9. TriesSoFar(c, e.tries)
  <2>1. ASSUME NEW i \in 1..Len(e.tries)
        PROVE  /\ e.tries[i].route <= c.at /\ e.tries[i].failed # Some("refused")
               /\ i < Len(e.tries) => e.tries[i].failed # None
    <3>1. CASE i \in 1..Len(tries)
      BY <1>3, <1>6, <1>7, <3>1
    <3>2. CASE i = Len(e.tries)
      <4>1. e.tries[i] = try /\ ~(i < Len(e.tries)) /\ call.at <= call.at
        BY <1>2, <1>6, <3>2
      <4>2. None # Some("refused")
        BY DEF None, Some
      <4>. QED
        BY <1>4, <1>7, <4>1, <4>2
    <3>. QED
      BY <1>6, <3>1, <3>2
  <2>. QED
    BY <1>7, <2>1 DEF TriesSoFar
<1>10. LastTry(c, e.tries)
  <2>1. Serves(Built[RouteAt(c).provider].type, KindAt[c.sends[1].endpoint])
    BY <1>1, <1>7, Zenon DEF RouteAt, Provider, RouteName, Chosen, Endpoint
  <2>2. try.at <= c.elapsed
    BY <1>2, <1>4, <1>7
  <2>. QED
    BY <1>4, <1>6, <1>7, <2>1, <2>2 DEF LastTry
<1>11. Counted(c, e.tries)
  <2>1. MayBeAsked(c)
    BY <1>3, <1>7 DEF MayBeAsked, RouteAt
  <2>. QED
    BY <1>3, <1>6, <1>7, <2>1, SMTT(30) DEF Counted, Chosen
<1>12. ProgressAt(c, e.tries)
  BY <1>9, <1>10, <1>11 DEF ProgressAt
<1>13. call' = c /\ UNCHANGED accounts /\ c.tries = Len(e.tries)
  BY <1>1, <1>2, <1>6, <1>7 DEF Steps
<1>14. e.how = "open" /\ e.plan = log[Number].plan /\ e.sends = log[Number].sends
  BY <1>2, <1>6 DEF entry
<1>. QED
  BY <1>1, <1>2, <1>6, <1>7, <1>8, <1>12, <1>13, <1>14, CallGoesOn

(* What a policy says before a route is asked again.                       *)
LEMMA WaitsAre ==
  ASSUME NEW attempts, NEW next, NEW error, NEW w \in Policy(attempts)!WaitsBefore(next, error)
  PROVE  /\ ~(next > attempts) /\ w \in Int
         /\ error \in {"rate_limited", "rate_limited_for", "timeout", "transient"}
         /\ error = "rate_limited_for" => w = RetryAfter
<1>1. RetryAfter \in Int
  BY MediaAssumption
<1>2. w \in Policy(attempts)!Jittered(next) => w \in Int
  BY DEF Policy!Jittered
<1>. QED
  BY <1>1, <1>2 DEF Policy!WaitsBefore, Policy!IsRetryable

(* What is known while a request is out.                                   *)
LEMMA SentIs ==
  ASSUME CallInv, call.phase = "sent"
  PROVE  LET tries == log[Number].tries
             last == tries[Len(tries)]
         IN /\ MayBeAsked(call) /\ call.attempt \in 1..Chosen.attempts
            /\ TimesAsked(tries, call.at) = call.attempt
            /\ \A i \in 1..Len(tries) :
                 /\ tries[i].route <= call.at /\ tries[i].failed # Some("refused")
                 /\ i < Len(tries) => tries[i].failed # None
            /\ tries # <<>> /\ last.failed = None /\ last.route = call.at
            /\ last.at <= call.elapsed
            /\ Serves(Provider.type, KindAt[Endpoint])
<1>. DEFINE tries == log[Number].tries
<1>1. TriesSoFar(call, tries) /\ LastTry(call, tries) /\ Counted(call, tries)
  BY DEF CallInv, Progress, ProgressAt
<1>. HIDE DEF tries
<1>2. /\ MayBeAsked(call) /\ call.attempt \in 1..Chosen.attempts
      /\ TimesAsked(tries, call.at) = call.attempt
  BY <1>1 DEF Counted, Chosen
<1>3. \A i \in 1..Len(tries) :
        /\ tries[i].route <= call.at /\ tries[i].failed # Some("refused")
        /\ i < Len(tries) => tries[i].failed # None
  BY <1>1 DEF TriesSoFar
<1>4. /\ tries # <<>> /\ tries[Len(tries)].failed = None /\ tries[Len(tries)].route = call.at
      /\ tries[Len(tries)].at <= call.elapsed
  BY <1>1 DEF LastTry
<1>5. Serves(Provider.type, KindAt[Endpoint])
  BY <1>1, Zenon DEF LastTry, RouteAt, Provider, RouteName, Chosen, Endpoint
<1>. QED
  BY <1>2, <1>3, <1>4, <1>5 DEF tries

(* A try fails: the call is over, or waits, or goes on to the next route.  *)
LEMMA TryFallsThrough ==
  ASSUME CallInv, RowInv, Chatted' = Chatted, call.phase = "sent",
         NEW error \in Errors, NEW after \in CallType, Fall(error, after),
         after.phase = "sent", after.sends = call.sends, after.plan = call.plan,
         after.at = call.at, after.attempt = call.attempt, after.tries = call.tries,
         after.fell = call.fell, after.elapsed >= call.elapsed
  PROVE  CallInv' /\ RowInv'
<1>. DEFINE entry == log[Number]
            tries == entry.tries
            e == WithFailure(entry, error)
            waits == Policy(Chosen.attempts)!WaitsBefore(after.attempt + 1, error)
            fallen == [after EXCEPT !.fell = @ + 1, !.last = Some(error)]
            refused == [e EXCEPT !.how = "refused"]
            waiting(w) == [fallen EXCEPT !.phase = "waiting", !.wait = w]
<1>1. \/ error = "refused" /\ Ends(refused, Some(RefusedRow(Number, Asked)))
      \/ /\ error # "refused" /\ Steps(NextRoute(fallen)) /\ log' = [log EXCEPT ![Number] = e]
      \/ /\ error # "refused"
         /\ \E w \in waits :
              \/ Closes(e, "timeout")
              \/ Steps(waiting(w)) /\ log' = [log EXCEPT ![Number] = e]
  BY DEF Fall, WithFailure
<1>2. /\ Number \in 1..Number /\ EntryOK(entry) /\ entry.how = "open"
      /\ entry.plan = call.plan /\ call.plan # None
      /\ entry.sends = call.sends[1] /\ Chosen.attempts \in Nat \ {0}
      /\ call \in CallType /\ call.tries = Len(tries)
      /\ call.at \in Nat /\ call.at >= 1 /\ call.attempt \in Nat
      /\ call.fell \in Nat /\ call.fell >= call.at - 1
      /\ call.elapsed \in Int /\ tries \in Seq(Tries)
  BY CallFacts DEF CallInv
<1>3. /\ MayBeAsked(call) /\ call.attempt \in 1..Chosen.attempts
      /\ TimesAsked(tries, call.at) = call.attempt
      /\ \A i \in 1..Len(tries) :
           /\ tries[i].route <= call.at /\ tries[i].failed # Some("refused")
           /\ i < Len(tries) => tries[i].failed # None
      /\ tries # <<>> /\ tries[Len(tries)].failed = None /\ tries[Len(tries)].route = call.at
      /\ tries[Len(tries)].at <= call.elapsed
  BY SentIs
<1>4. /\ EntryOK(e) /\ DOMAIN e = DOMAIN entry
      /\ e.sends = entry.sends /\ e.plan = entry.plan /\ e.how = entry.how
      /\ Len(e.tries) = Len(tries) /\ Len(tries) \in Nat \ {0}
      /\ \A i \in 1..Len(e.tries) :
           /\ e.tries[i].route = tries[i].route /\ e.tries[i].at = tries[i].at
           /\ i < Len(e.tries) => e.tries[i] = tries[i]
      /\ e.tries[Len(e.tries)].failed = Some(error)
      /\ \A at \in Nat : TimesAsked(e.tries, at) = TimesAsked(tries, at)
  <2>1. EntryOK(entry) /\ entry.tries # <<>> /\ tries = entry.tries
    BY <1>2, <1>3
  <2>. HIDE DEF entry, tries, waits, fallen
  <2>2. e = WithFailure(entry, error)
    OBVIOUS
  <2>. HIDE DEF e
  <2>3. /\ EntryOK(e) /\ DOMAIN e = DOMAIN entry
        /\ e.sends = entry.sends /\ e.plan = entry.plan /\ e.how = entry.how
        /\ Len(e.tries) = Len(entry.tries) /\ Len(entry.tries) \in Nat \ {0}
    BY <2>1, <2>2, TryFails
  <2>4. \A i \in 1..Len(e.tries) :
          /\ e.tries[i].route = entry.tries[i].route /\ e.tries[i].at = entry.tries[i].at
          /\ i < Len(e.tries) => e.tries[i] = entry.tries[i]
    BY <2>1, <2>2, TryFails
  <2>5. e.tries[Len(e.tries)].failed = Some(error)
    BY <2>1, <2>2, TryFails
  <2>6. \A at \in Nat : TimesAsked(e.tries, at) = TimesAsked(entry.tries, at)
    BY <2>1, <2>2, TryFails
  <2>. QED
    BY <2>1, <2>3, <2>4, <2>5, <2>6
<1>5. /\ DOMAIN fallen = CallFields /\ fallen = [f \in DOMAIN fallen |-> fallen[f]]
      /\ fallen.phase = "sent" /\ fallen.sends = call.sends /\ fallen.plan = call.plan
      /\ fallen.at = call.at /\ fallen.attempt = call.attempt /\ fallen.tries = call.tries
      /\ fallen.fell = call.fell + 1 /\ fallen.last = Some(error)
      /\ fallen.elapsed = after.elapsed /\ fallen.wait = after.wait
  BY CallHas DEF CallFields
<1>6. /\ call.sends \in Options(Sends) /\ call.plan \in Options(Plans) /\ call.tries \in Nat
      /\ after.elapsed \in Int /\ after.wait \in Int /\ Some(error) \in Options(Errors)
  BY <1>2, CallHas DEF Options
<1>. HIDE DEF fallen, e, entry, tries
<1>7. e.tries \in Seq(Tries)
  BY <1>4 DEF EntryOK
<1>8. ASSUME NEW i \in 1..Len(e.tries)
      PROVE  /\ e.tries[i].route <= call.at /\ e.tries[i].failed # None
             /\ error # "refused" => e.tries[i].failed # Some("refused")
  <2>1. i \in 1..Len(tries) /\ e.tries[i].route = tries[i].route
    BY <1>4
  <2>2. CASE i = Len(e.tries)
    <3>1. e.tries[i].failed = Some(error) /\ tries[i].route = call.at /\ call.at <= call.at
      BY <1>2, <1>3, <1>4, <2>2
    <3>2. Some(error) # None /\ (Some(error) = Some("refused") => error = "refused")
      BY DEF Some, None
    <3>. QED
      BY <2>1, <3>1, <3>2
  <2>3. CASE i # Len(e.tries)
    <3>1. i < Len(e.tries) /\ i < Len(tries)
      BY <1>4, <2>3
    <3>. QED
      BY <1>3, <1>4, <2>1, <3>1
  <2>. QED
    BY <2>2, <2>3
<1>9. e.plan = log[Number].plan /\ e.sends = log[Number].sends /\ e.how = "open" /\ e.plan # None
  BY <1>2, <1>4 DEF entry
<1>10. CASE error = "refused" /\ Ends(refused, Some(RefusedRow(Number, Asked)))
  <2>. DEFINE row == RefusedRow(Number, Asked)
  <2>1. /\ DOMAIN refused = DOMAIN e /\ refused.sends = e.sends /\ refused.plan = e.plan
        /\ refused.tries = e.tries /\ refused.how = "refused"
    BY <1>4 DEF EntryOK
  <2>2. /\ row.request_id = Number /\ row.outcome = "refused" /\ row.route = None
        /\ row.cost = NoCost /\ row.code # None
    BY DEF RefusedRow, FailedRow, Row, None, Some
  <2>. HIDE DEF refused, row
  <2>3. EntryOK(refused)
    BY <1>4, <2>1, EntryStays
  <2>4. \E i \in DOMAIN refused.tries : refused.tries[i].failed = Some("refused")
    <3>1. DOMAIN e.tries = 1..Len(e.tries) /\ Len(e.tries) \in 1..Len(e.tries)
      BY <1>4, <1>7, LenProperties
    <3>. QED
      BY <1>4, <1>10, <2>1, <3>1
  <2>5. Says(refused, row)
    BY <1>9, <2>1, <2>2, <2>4 DEF Says, RowTells
  <2>6. Some(row) # None /\ Some(row)[1] = row /\ Ends(refused, Some(row))
    BY <1>10 DEF Some, None, row
  <2>. QED
    BY <2>1, <2>2, <2>3, <2>5, <2>6, CallEnds
<1>11. CASE error # "refused" /\ Steps(NextRoute(fallen)) /\ log' = [log EXCEPT ![Number] = e]
  <2>. DEFINE c == NextRoute(fallen)
  <2>1. /\ DOMAIN c = CallFields /\ c = [f \in DOMAIN c |-> c[f]]
        /\ c.phase = "choosing" /\ c.at = call.at + 1 /\ c.attempt = 0 /\ c.fell = call.fell + 1
        /\ c.sends = call.sends /\ c.plan = call.plan /\ c.tries = call.tries
        /\ c.last = Some(error) /\ c.elapsed = after.elapsed /\ c.wait = after.wait
    BY <1>5 DEF NextRoute, CallFields
  <2>. HIDE DEF c
  <2>2. c \in CallType
    <3>1. /\ c.phase \in {"idle", "choosing", "asking", "sent", "waiting"}
          /\ c.sends \in Options(Sends) /\ c.plan \in Options(Plans)
          /\ c.at \in Nat /\ c.attempt \in Nat /\ c.tries \in Nat /\ c.fell \in Nat
          /\ c.last \in Options(Errors) /\ c.elapsed \in Int /\ c.wait \in Int
      BY <1>2, <1>6, <2>1, SMTT(30)
    <3>. QED
      BY <2>1, <3>1, CallIs
  <2>3. ProgressAt(c, e.tries)
    BY <1>2, <1>7, <1>8, <1>11, <2>1, PassesOn
  <2>4. call' = c /\ UNCHANGED accounts
    BY <1>11 DEF Steps, c
  <2>5. c.at >= 1 /\ c.fell >= c.at - 1 /\ c.last # Some("refused") /\ c.tries = Len(e.tries)
    BY <1>2, <1>4, <1>11, <2>1 DEF Some, tries
  <2>. QED
    BY <1>4, <1>9, <1>11, <2>1, <2>2, <2>3, <2>4, <2>5, CallGoesOn
<1>12. CASE error # "refused" /\ Closes(e, "timeout")
  <2>1. "timeout" \in Errors \ {"refused"}
    BY DEF Errors, CodeOf
  <2>. QED
    BY <1>4, <1>8, <1>9, <1>12, <2>1, ClosesEnds
<1>13. ASSUME error # "refused", NEW w \in waits, Steps(waiting(w)),
              log' = [log EXCEPT ![Number] = e]
       PROVE  CallInv' /\ RowInv'
  <2>. DEFINE c == waiting(w)
  <2>1. /\ DOMAIN c = CallFields /\ c = [f \in DOMAIN c |-> c[f]]
        /\ c.phase = "waiting" /\ c.at = call.at /\ c.attempt = call.attempt
        /\ c.fell = call.fell + 1 /\ c.sends = call.sends /\ c.plan = call.plan
        /\ c.tries = call.tries /\ c.last = Some(error)
        /\ c.elapsed = after.elapsed /\ c.wait = w
    BY <1>5 DEF CallFields
  <2>2. /\ ~(after.attempt + 1 > Chosen.attempts) /\ w \in Int
        /\ error \in {"rate_limited", "rate_limited_for", "timeout", "transient"}
        /\ error = "rate_limited_for" => w = RetryAfter
    BY <1>13, WaitsAre
  <2>. HIDE DEF c, waits
  <2>3. c \in CallType
    <3>1. /\ c.phase \in {"idle", "choosing", "asking", "sent", "waiting"}
          /\ c.sends \in Options(Sends) /\ c.plan \in Options(Plans)
          /\ c.at \in Nat /\ c.attempt \in Nat /\ c.tries \in Nat /\ c.fell \in Nat
          /\ c.last \in Options(Errors) /\ c.elapsed \in Int /\ c.wait \in Int
      BY <1>2, <1>6, <2>1, <2>2, SMTT(30)
    <3>. QED
      BY <2>1, <3>1, CallIs
  <2>4. TriesSoFar(c, e.tries)
    BY <1>8, <1>13, <2>1 DEF TriesSoFar
  <2>5. LastTry(c, e.tries)
    <3>. DEFINE last == e.tries[Len(e.tries)]
    <3>1. Len(tries) \in 1..Len(tries) /\ Len(e.tries) \in 1..Len(e.tries) /\ e.tries # <<>>
      <4>1. Len(<<>>) = 0
        OBVIOUS
      <4>. QED
        BY <1>4, <4>1
    <3>2. /\ last.route = call.at /\ last.failed = Some(error)
          /\ last.at <= call.elapsed /\ last.at \in Int
      BY <1>2, <1>3, <1>4, <3>1, TryIs
    <3>3. last.failed[1] = error
      BY <3>2 DEF Some
    <3>4. ASSUME error = "rate_limited_for" PROVE c.elapsed + c.wait >= last.at + RetryAfter
      <4>1. RetryAfter \in Nat /\ c.wait = RetryAfter
        BY <2>1, <2>2, <3>4, MediaAssumption
      <4>2. c.elapsed >= call.elapsed /\ c.elapsed \in Int
        BY <1>6, <2>1
      <4>. HIDE DEF last
      <4>. QED
        BY <1>2, <3>2, <4>1, <4>2
    <3>5. MayRepeat(last, c.at, c.elapsed + c.wait)
      BY <2>1, <2>2, <3>2, <3>3, <3>4 DEF MayRepeat
    <3>. QED
      BY <2>1, <3>1, <3>5 DEF LastTry
  <2>6. Counted(c, e.tries)
    <3>1. MayBeAsked(c)
      BY <1>3, <2>1 DEF MayBeAsked, RouteAt
    <3>2. c.attempt < Chosen.attempts
      BY <1>2, <2>1, <2>2
    <3>3. TimesAsked(e.tries, c.at) = c.attempt
      <4>1. TimesAsked(e.tries, call.at) = TimesAsked(tries, call.at)
        BY <1>2, <1>4
      <4>. QED
        BY <1>3, <2>1, <4>1
    <3>4. Chosen = c.plan[1]
      BY <2>1 DEF Chosen
    <3>. QED
      BY <1>3, <2>1, <3>1, <3>2, <3>3, <3>4 DEF Counted
  <2>7. call' = c /\ UNCHANGED accounts
    BY <1>13 DEF Steps, c
  <2>8. c.at >= 1 /\ c.fell >= c.at - 1 /\ c.last # Some("refused") /\ c.tries = Len(e.tries)
    BY <1>2, <1>4, <1>13, <2>1 DEF Some, tries
  <2>9. ProgressAt(c, e.tries)
    BY <2>4, <2>5, <2>6 DEF ProgressAt
  <2>. QED
    BY <1>4, <1>9, <1>13, <2>1, <2>3, <2>7, <2>8, <2>9, CallGoesOn
<1>. QED
  BY <1>1, <1>10, <1>11, <1>12, <1>13

(* A call that is answered leaves a row that says what the client is told. *)
LEMMA CallAnswered ==
  ASSUME CallInv, RowInv, Chatted' = Chatted, call.phase = "sent",
         NEW body, NEW cost, cost.status \in Statuses, NEW model, NEW usage, NEW bill, NEW provider,
         NEW e, e = [log[Number] EXCEPT
                       !.how = "answered",
                       !.answer = Some(WithHeaders(body, RouteName, call.tries, call.fell, cost)),
                       !.billed = Some(bill)],
         NEW row, row = AnsweredRow(Number, Asked, [name |-> RouteName, provider |-> provider],
                                    model, "ok", call.tries, call.fell, usage, cost),
         Ends(e, Some(row))
  PROVE  CallInv' /\ RowInv'
<1>. DEFINE entry == log[Number]
            told == WithHeaders(body, RouteName, call.tries, call.fell, cost)
<1>1. /\ EntryOK(entry) /\ entry.plan = call.plan /\ call.plan # None
      /\ call.tries = Len(entry.tries) /\ call.fell >= call.at - 1
  BY CallFacts DEF CallInv
<1>2. DOMAIN entry = {"sends", "plan", "tries", "how", "answer", "billed"}
  BY <1>1 DEF EntryOK
<1>3. /\ DOMAIN e = DOMAIN entry /\ e.sends = entry.sends /\ e.plan = entry.plan
      /\ e.tries = entry.tries /\ e.how = "answered" /\ e.answer = Some(told)
  BY <1>2
<1>4. /\ told.route = RouteName /\ told.attempts = call.tries /\ told.fell_through = call.fell
      /\ told.cost = cost
  BY DEF WithHeaders
<1>5. /\ row.request_id = Number /\ row.outcome = "ok" /\ row.code = None
      /\ row.route = Some(RouteName) /\ row.attempts = call.tries
      /\ row.fell_through = call.fell /\ row.served # None /\ row.cost = cost
  BY DEF AnsweredRow, Row, None, Some
<1>. HIDE DEF told
<1>6. EntryOK(e)
  BY <1>1, <1>3, EntryStays
<1>7. e.answer[1] = told
  BY <1>3 DEF Some
<1>8. Last(entry.tries).failed = None /\ Last(entry.tries).route = call.at
  BY SentIs DEF Last
<1>9. e.plan[1].routes[Last(e.tries).route] = RouteName
  BY <1>1, <1>3, <1>8 DEF RouteName, Chosen
<1>10. RowTells(e, row)
  BY <1>1, <1>3, <1>4, <1>5, <1>7, <1>8, <1>9 DEF RowTells
<1>11. Says(e, row)
  BY <1>1, <1>3, <1>10 DEF Says
<1>12. Some(row) # None /\ Some(row)[1] = row
  BY DEF Some, None
<1>. QED
  BY <1>3, <1>5, <1>6, <1>11, <1>12, CallEnds

(* A request that is out is heard of: refused here, answered, or lost.     *)
LEMMA CallIsHeardOf ==
  ASSUME CallInv, RowInv, Chatted' = Chatted,
         \/ RefusedHere
         \/ \E took \in Took : Respond(took)
         \/ \E error \in {"timeout", "transient"}, took \in Took : Unreached(error, took)
  PROVE  CallInv' /\ RowInv'
<1>. DEFINE later(took) == [call EXCEPT !.elapsed = @ + took]
<1>1. call.phase = "sent"
  BY DEF RefusedHere, Respond, Unreached
<1>2. /\ call \in CallType /\ call.elapsed \in Int /\ Endpoint \in DOMAIN KindAt
      /\ MayBeAsked(call) /\ Serves(Provider.type, KindAt[Endpoint])
  BY <1>1, CallFacts, SentIs DEF CallInv
<1>3. Took \subseteq Nat
  BY MediaAssumption
<1>4. ASSUME NEW took \in Took
      PROVE  /\ later(took) \in CallType /\ later(took).phase = "sent"
             /\ later(took).sends = call.sends /\ later(took).plan = call.plan
             /\ later(took).at = call.at /\ later(took).attempt = call.attempt
             /\ later(took).tries = call.tries /\ later(took).fell = call.fell
             /\ later(took).elapsed >= call.elapsed
  BY <1>1, <1>2, <1>3 DEF CallType
<1>5. CASE RefusedHere
  <2>. DEFINE error == FaultHere(Provider.type, Endpoint, Request)[1]
  <2>1. error \in Errors /\ Fall(error, call)
    BY <1>5, FaultsAreErrors DEF RefusedHere
  <2>2. call.elapsed >= call.elapsed
    BY <1>2
  <2>. HIDE DEF error
  <2>. QED
    BY <1>1, <1>2, <2>1, <2>2, TryFallsThrough
<1>6. ASSUME NEW took \in Took, Respond(took) PROVE CallInv' /\ RowInv'
  <2>. DEFINE reading(reply) == ReadReply(Provider.type, Endpoint, reply, Request, Target)
  <2>1. PICK reply : Hear(reading(reply), reply, took)
    BY <1>6 DEF Respond
  <2>2. Provider.type \in {"gemini", "openai"}
    <3>1. Provider.type \in {"anthropic", "gemini", "openai"}
      BY <1>2, MediaAssumption, Zenon DEF MayBeAsked, RouteAt, Provider, RouteName, Chosen
    <3>2. Provider.type # "anthropic"
      BY <1>2 DEF Serves
    <3>. QED
      BY <3>1, <3>2
  <2>3. CASE reading(reply).error # None
    <3>. DEFINE error == reading(reply).error[1]
                after == later(took)
    <3>1. error \in Errors
      BY <1>2, <2>2, <2>3, ReadingsAreErrors
    <3>2. Fall(error, after)
      BY <2>1, <2>3 DEF Hear
    <3>3. /\ after \in CallType /\ after.phase = "sent"
          /\ after.sends = call.sends /\ after.plan = call.plan
          /\ after.at = call.at /\ after.attempt = call.attempt
          /\ after.tries = call.tries /\ after.fell = call.fell
          /\ after.elapsed >= call.elapsed
      BY <1>4
    <3>. HIDE DEF error, after
    <3>. QED
      BY <1>1, <3>1, <3>2, <3>3, TryFallsThrough
  <2>4. CASE reading(reply).error = None
    <3>. DEFINE answer == reading(reply).value[1]
                units == Produced(Endpoint, Request, answer)
                cost == CostWith(Provider, Target, answer.model, answer.usage, units)
                body == WrittenBody(Endpoint, call.sends[1].sent.body, answer)
                provider == Split[RouteName].provider
                bill == [provider |-> provider, target |-> Target, served |-> answer.model,
                         replied |-> reply.body, consumed |-> Consumed(Endpoint, Request, answer),
                         reported |-> [tokens |-> answer.usage, units |-> units]]
                e == [log[Number] EXCEPT
                        !.how = "answered",
                        !.answer = Some(WithHeaders(body, RouteName, call.tries, call.fell, cost)),
                        !.billed = Some(bill)]
                row == AnsweredRow(Number, Asked, [name |-> RouteName, provider |-> provider],
                                   answer.model, "ok", call.tries, call.fell, answer.usage, cost)
    <3>1. Ends(e, Some(row))
      BY <2>1, <2>4 DEF Hear, Succeed
    <3>2. cost.status \in Statuses
      BY CostsSayWhy
    <3>. HIDE DEF answer, cost, body, bill, provider
    <3>. QED
      BY <1>1, <3>1, <3>2, CallAnswered
  <2>. QED
    BY <2>3, <2>4
<1>7. ASSUME NEW error \in {"timeout", "transient"}, NEW took \in Took, Unreached(error, took)
      PROVE  CallInv' /\ RowInv'
  <2>. DEFINE after == later(took)
  <2>1. error \in Errors /\ Fall(error, after)
    BY <1>7 DEF Unreached, Errors, CodeOf
  <2>2. /\ after \in CallType /\ after.phase = "sent"
        /\ after.sends = call.sends /\ after.plan = call.plan
        /\ after.at = call.at /\ after.attempt = call.attempt
        /\ after.tries = call.tries /\ after.fell = call.fell
        /\ after.elapsed >= call.elapsed
    BY <1>4
  <2>. HIDE DEF after
  <2>. QED
    BY <1>1, <2>1, <2>2, TryFallsThrough
<1>. QED
  BY <1>5, <1>6, <1>7

(* Every step of a call that is being served.                              *)
LEMMA CallIsServed ==
  ASSUME CallInv, RowInv, Chatted' = Chatted, Serve
  PROVE  CallInv' /\ RowInv'
<1>1. CASE PassOver
  BY <1>1, RoutePassed DEF PassOver
<1>2. CASE NoEndpoint
  BY <1>2, RoutePassed DEF NoEndpoint
<1>3. CASE TakeUp
  BY <1>3, RouteTaken
<1>4. CASE TooLate
  BY <1>4, CallTooLate
<1>5. CASE Begin
  BY <1>5, RequestGoesOut
<1>6. CASE GiveUp
  BY <1>6, CallGivesUp
<1>7. CASE Leave
  BY <1>7, ClientLeaves
<1>8. CASE \/ RefusedHere
           \/ \E took \in Took : Respond(took)
           \/ \E error \in {"timeout", "transient"}, took \in Took : Unreached(error, took)
  BY <1>8, CallIsHeardOf
<1>9. CASE \E late \in Late : Wake(late)
  BY <1>9, RouteAskedAgain
<1>. QED
  BY <1>1, <1>2, <1>3, <1>4, <1>5, <1>6, <1>7, <1>8, <1>9 DEF Serve

(* A media call takes no number of a chat call.                            *)
LEMMA MediaTakesNone ==
  ASSUME ChatsNumbered, NEW id \in Nat, id <= MaxCalls,
         UNCHANGED bills \/ \E bill : Billed(id, bill)
  PROVE  Chatted' = Chatted /\ ChatsNumbered'
<1>1. MaxCalls \in Nat
  BY MediaAssumption
<1>2. CASE UNCHANGED bills
  BY <1>2 DEF Chatted, ChatsNumbered
<1>3. CASE \E bill : Billed(id, bill)
  <2>1. DOMAIN bills' = DOMAIN bills \cup {id}
    BY <1>3 DEF Billed
  <2>2. Chatted' = Chatted
    BY <1>1, <2>1 DEF Chatted
  <2>. QED
    BY <2>1, <2>2 DEF ChatsNumbered
<1>. QED
  BY <1>2, <1>3

(* Nothing is said of calls by what leaves them alone.                     *)
LEMMA CallKept ==
  ASSUME CallInv, UNCHANGED <<call, log>>
  PROVE  CallInv'
<1>1. MediaShape'
  <2>1. (log \in Seq(ToSet(log)))'
    BY DEF CallInv, MediaShape, ToSet
  <2>2. Number' = Number
    BY DEF Number
  <2>. QED
    BY <2>1, <2>2 DEF CallInv, MediaShape
<1>2. Open'
  BY DEF CallInv, Open, Number
<1>3. Progress'
  BY DEF CallInv, Progress, Number
<1>. QED
  BY <1>1, <1>2, <1>3 DEF CallInv

-----------------------------------------------------------------------------
(* Every step *)

(* The steps of media calls. *)
LEMMA MediaStepIInv ==
  ASSUME IInv, MediaStep
  PROVE  IInv'
<1>1. CallInv /\ RowInv /\ ChatsNumbered /\ Serve
  BY DEF IInv, MediaStep
<1>2. call.phase # "idle"
  BY <1>1 DEF Serve, PassOver, TakeUp, TooLate, NoEndpoint, Begin, RefusedHere, GiveUp, Leave,
              Respond, Unreached, Wake
<1>3. Number \in Nat /\ Number <= MaxCalls
  BY <1>1, <1>2, CallFacts DEF CallInv
<1>4. UNCHANGED bills \/ \E bill : Billed(Number, bill)
  BY DEF MediaStep
<1>5. Chatted' = Chatted /\ ChatsNumbered'
  BY <1>1, <1>3, <1>4, MediaTakesNone
<1>. QED
  BY <1>1, <1>5, CallIsServed DEF IInv

(* A chat call, with the row it leaves. *)
LEMMA ChatCallIInv ==
  ASSUME IInv, NEW c \in Chats, ChatCall(c)
  PROVE  IInv'
<1>. DEFINE n == NextChat
<1>1. /\ UNCHANGED <<now, table, nextId, walk, forgot, call, log>>
      /\ \E bill : Billed(NextChat, bill)
      /\ \/ queue' = queue
         \/ \E row : row.request_id = NextChat /\ Enqueue(row)
  <2>1. \A route, served, outcome, reported, cost :
          AnsweredRow(NextChat, c.route, route, served, outcome, 1, 0, reported, cost).request_id
            = NextChat
    BY DEF AnsweredRow, Row
  <2>2. FailedRow(NextChat, c.route, "upstream_unavailable").request_id = NextChat
    BY FailedRowIs
  <2>. QED
    BY <2>1, <2>2 DEF ChatCall
<1>2. CallInv /\ AccountsShape /\ WalkOK /\ RowsOnce /\ RowsKept /\ RowsTell /\ ChatsNumbered
  BY DEF IInv, RowInv
<1>3. /\ ChatsNumbered' /\ n \in Nat /\ n > MaxCalls /\ n \notin Chatted
      /\ n \in Chatted' /\ Chatted \subseteq Chatted'
  BY <1>1, <1>2, ChatTakesNext
<1>4. CallInv'
  BY <1>1, <1>2, CallKept
<1>5. Number' = Number /\ log' = log /\ Number \in Nat /\ Number <= MaxCalls /\ MaxCalls \in Nat
  BY <1>1, <1>2, LenProperties, MediaAssumption DEF CallInv, MediaShape, Number
<1>. HIDE DEF n
<1>6. ~(n \in 1..Number)
  BY <1>3, <1>5
<1>7. n \notin LeftARow /\ n \notin LeftARow' /\ n \notin Numbered /\ n \in Numbered'
  BY <1>3, <1>5, <1>6 DEF LeftARow, Numbered
<1>8. /\ \A m \in 1..Number' : m # n => m \in 1..Number /\ log'[m] = log[m]
      /\ 1..Number \subseteq 1..Number'
  BY <1>5
<1>9. AccountsShape' /\ RowsOnce' /\ RowsKept' /\ RowsTell'
  <2>1. CASE queue' = queue
    BY <1>1, <1>2, <1>3, <1>7, <1>8, <2>1, NoRowAdded
  <2>2. CASE \E row : row.request_id = NextChat /\ Enqueue(row)
    <3>1. PICK row : row.request_id = n /\ Enqueue(row)
      BY <2>2 DEF n
    <3>2. n \in 1..Number' => Says(log'[n], row)
      BY <1>5, <1>6
    <3>. QED
      BY <1>1, <1>2, <1>3, <1>7, <1>8, <3>1, <3>2, OneRowAdded
  <2>. QED
    BY <1>1, <2>1, <2>2
<1>10. WalkOK'
  <2>1. nextId \in Nat /\ nextId >= nextId /\ DOMAIN table \subseteq Nat
    BY <1>2, AccountsAssumption DEF AccountsShape, BeyondIds
  <2>. QED
    BY <1>1, <1>2, <2>1, WalkStays
<1>. QED
  BY <1>3, <1>4, <1>9, <1>10 DEF IInv, RowInv

(* Rows written, read and forgotten, and time that passes.                 *)
LEMMA AccountsIInv ==
  ASSUME IInv, UNCHANGED <<call, log, ledger, bills>>,
         \/ Write \/ NextPage \/ EndWalk
         \/ \E filter \in Filters, limit \in Limits : StartWalk(filter, limit)
         \/ \E before \in 1..MaxNow : Forget(before)
         \/ Tick
  PROVE  IInv'
<1>1. CallInv /\ AccountsShape /\ WalkOK /\ RowsOnce /\ RowsKept /\ RowsTell /\ ChatsNumbered
  BY DEF IInv, RowInv
<1>2. CallInv' /\ ChatsNumbered'
  <2>1. Chatted' = Chatted
    BY CallsStay
  <2>. QED
    BY <1>1, <2>1, CallKept DEF ChatsNumbered
<1>3. nextId \in Nat /\ DOMAIN table \subseteq Nat
  BY <1>1, AccountsAssumption DEF AccountsShape, BeyondIds
<1>4. CASE Write
  <2>1. RowsOnce' /\ RowsKept' /\ RowsTell'
    BY <1>1, <1>4, WriteKeepsRows
  <2>2. /\ AccountsShape' /\ nextId' \in Nat /\ nextId' >= nextId /\ DOMAIN table' \subseteq Nat
        /\ \A id \in DOMAIN table' :
             \/ id \in DOMAIN table /\ id < nextId /\ table'[id] = table[id]
             \/ ~(id < nextId)
        /\ \A id \in DOMAIN table : id \in DOMAIN table' /\ table'[id] = table[id]
    BY <1>1, <1>4, WriteMoves
  <2>3. walk' = walk /\ forgot \subseteq forgot'
    BY <1>4 DEF Write
  <2>4. WalkOK'
    BY <1>1, <2>2, <2>3, WalkStays
  <2>. QED
    BY <1>2, <2>1, <2>2, <2>4 DEF IInv, RowInv
<1>5. CASE \E before \in 1..MaxNow : Forget(before)
  <2>1. PICK before : Forget(before)
    BY <1>5
  <2>2. RowsOnce' /\ RowsKept' /\ RowsTell'
    BY <1>1, <2>1, ForgetKeepsRows
  <2>3. /\ AccountsShape' /\ walk' = walk /\ nextId' = nextId
        /\ DOMAIN table' \subseteq Nat /\ forgot \subseteq forgot'
        /\ \A id \in DOMAIN table' : id \in DOMAIN table /\ table'[id] = table[id]
        /\ \A id \in DOMAIN table :
             \/ id \in DOMAIN table' /\ table'[id] = table[id]
             \/ table[id].request_id \in forgot'
    BY <1>1, <2>1, ForgetTakes
  <2>4. nextId' \in Nat /\ nextId' >= nextId
    BY <1>3, <2>3
  <2>5. WalkOK'
    BY <1>1, <2>3, <2>4, WalkStays
  <2>. QED
    BY <1>2, <2>2, <2>3, <2>5 DEF IInv, RowInv
<1>6. CASE \/ NextPage \/ EndWalk
           \/ \E filter \in Filters, limit \in Limits : StartWalk(filter, limit)
           \/ Tick
  <2>1. UNCHANGED <<queue, table, nextId, forgot>>
    BY <1>6 DEF NextPage, EndWalk, StartWalk, Tick
  <2>2. WalkOK'
    <3>1. CASE Tick
      <4>1. walk' = walk
        BY <3>1 DEF Tick
      <4>2. nextId' \in Nat /\ nextId' >= nextId /\ DOMAIN table' \subseteq Nat
        BY <1>3, <2>1
      <4>. QED
        BY <1>1, <2>1, <4>1, <4>2, WalkStays
    <3>2. CASE ~Tick
      BY <1>1, <1>6, <3>2, WalkGoesOn DEF RowsOnce
    <3>. QED
      BY <3>1, <3>2
  <2>3. AccountsShape'
    BY <1>1, <2>1 DEF AccountsShape, BeyondIds, ToSet
  <2>4. Numbered' = Numbered /\ LeftARow' = LeftARow /\ Number' = Number
    BY CallsStay DEF Number
  <2>5. RowsOnce' /\ RowsKept'
    BY <1>1, <2>1, <2>4 DEF RowsOnce, RowsKept
  <2>6. RowsTell'
    BY <1>1, <2>1, <2>4 DEF RowsTell
  <2>. QED
    BY <1>2, <2>2, <2>3, <2>5, <2>6 DEF IInv, RowInv
<1>. QED
  BY <1>4, <1>5, <1>6

(* Nothing yet: no call, no row, no reader.                                *)
LEMMA InitIInv ==
  Init => IInv
<1>. SUFFICES ASSUME Init PROVE IInv
  OBVIOUS
<1>1. /\ now = 0 /\ queue = <<>> /\ table = <<>> /\ nextId = 1 /\ walk = NoWalk /\ forgot = {}
      /\ call = Idle /\ log = <<>> /\ bills = <<>>
  BY DEF Init, MediaInit, AccountsInit, LowestId
<1>2. /\ DOMAIN <<>> = {} /\ Len(<<>>) = 0 /\ 1..0 = {}
  OBVIOUS
<1>3. <<>> \in Seq(ToSet(<<>>))
  BY EmptySeq, Zenon
<1>4. Number = 0 /\ MaxCalls \in Nat
  BY <1>1, <1>2, MediaAssumption DEF Number
<1>5. MediaShape
  BY <1>1, <1>2, <1>3, <1>4, IdleIs DEF MediaShape
<1>6. Open /\ Progress
  BY <1>1, IdleIs DEF Open, Progress
<1>7. AccountsShape
  <2>1. nextId \in 1..BeyondIds
    BY <1>1, AccountsAssumption DEF BeyondIds
  <2>. QED
    BY <1>1, <1>2, <1>3, <2>1 DEF AccountsShape
<1>8. WalkOK
  BY <1>1 DEF WalkOK, NoWalk
<1>9. Chatted = {} /\ LeftARow = {} /\ Numbered = {}
  BY <1>1, <1>2, <1>4 DEF Chatted, LeftARow, Numbered
<1>10. RowsOnce /\ RowsKept /\ RowsTell
  BY <1>1, <1>2, <1>4, <1>9 DEF RowsOnce, RowsKept, RowsTell
<1>11. ChatsNumbered
  <2>1. IsFiniteSet(Chatted) /\ Cardinality(Chatted) = 0
    BY <1>9, FS_EmptySet
  <2>2. MaxCalls + 1..MaxCalls + 0 = {}
    BY <1>4
  <2>. QED
    BY <1>1, <1>2, <1>9, <2>1, <2>2 DEF ChatsNumbered
<1>. QED
  BY <1>5, <1>6, <1>7, <1>8, <1>10, <1>11 DEF IInv, CallInv, RowInv

(* Every step keeps the inductive invariant.                               *)
LEMMA NextIInv ==
  IInv /\ [Next]_allVars => IInv'
<1>. SUFFICES ASSUME IInv, [Next]_allVars PROVE IInv'
  OBVIOUS
<1>1. ASSUME NEW sends \in Sends, Arrive(sends), UNCHANGED <<ledger, bills>> PROVE IInv'
  <2>1. Chatted' = Chatted /\ ChatsNumbered'
    BY <1>1 DEF IInv, ChatsNumbered, Chatted
  <2>. QED
    BY <1>1, <2>1, CallComes DEF IInv
<1>2. CASE MediaStep
  BY <1>2, MediaStepIInv
<1>3. ASSUME NEW c \in Chats, ChatCall(c) PROVE IInv'
  BY <1>3, ChatCallIInv
<1>4. CASE /\ \/ Write \/ NextPage \/ EndWalk
              \/ \E filter \in Filters, limit \in Limits : StartWalk(filter, limit)
              \/ \E before \in 1..MaxNow : Forget(before)
              \/ now < MaxNow /\ Tick
           /\ UNCHANGED <<call, log, ledger, bills>>
  BY <1>4, AccountsIInv
<1>5. CASE UNCHANGED allVars
  <2>1. UNCHANGED <<call, log, bills, now, queue, table, nextId, walk, forgot>>
    BY <1>5 DEF allVars, vars, accounts
  <2>2. CallInv /\ AccountsShape /\ WalkOK /\ RowsOnce /\ RowsKept /\ RowsTell /\ ChatsNumbered
    BY DEF IInv, RowInv
  <2>3. CallInv'
    BY <2>1, <2>2, CallKept
  <2>4. Numbered' = Numbered /\ LeftARow' = LeftARow /\ Number' = Number /\ Chatted' = Chatted
    BY <2>1, CallsStay DEF Number
  <2>5. ChatsNumbered'
    BY <2>1, <2>2, <2>4 DEF ChatsNumbered
  <2>6. AccountsShape'
    BY <2>1, <2>2 DEF AccountsShape, BeyondIds, ToSet
  <2>7. RowsOnce' /\ RowsKept'
    BY <2>1, <2>2, <2>4 DEF RowsOnce, RowsKept
  <2>8. RowsTell'
    BY <2>1, <2>2, <2>4 DEF RowsTell
  <2>9. WalkOK'
    <3>1. nextId \in Nat /\ nextId >= nextId /\ DOMAIN table \subseteq Nat
      BY <2>2, AccountsAssumption DEF AccountsShape, BeyondIds
    <3>. QED
      BY <2>1, <2>2, <3>1, WalkStays
  <2>. QED
    BY <2>3, <2>5, <2>6, <2>7, <2>8, <2>9 DEF IInv, RowInv
<1>. QED
  BY <1>1, <1>2, <1>3, <1>4, <1>5 DEF Next

-----------------------------------------------------------------------------
(* What is promised of rows *)

(* Rows that come once, are kept and say what happened are one row a call. *)
LEMMA RowsFollow ==
  ASSUME IInv
  PROVE  OneRowTellsTheCall
<1>. SUFFICES ASSUME NEW n \in DOMAIN log
              PROVE  /\ log[n].plan # None => TriesKept(log[n])
                     /\ Over(n) =>
                          /\ Cardinality(RowsOf(n)) <= 1
                          /\ (RowsOf(n) = {}) <=> (log[n].how \in {"unread", "left"} \/ n \in forgot)
                          /\ \A row \in RowsOf(n) : Says(log[n], row)
  BY DEF OneRowTellsTheCall, Says
<1>1. MediaShape /\ RowsOnce /\ RowsKept /\ RowsTell /\ MaxCalls \in Nat
  BY MediaAssumption DEF IInv, CallInv, RowInv
<1>2. n \in 1..Number /\ n \notin Chatted
  <2>1. DOMAIN log = 1..Number /\ Number \in Nat /\ Number <= MaxCalls
    BY <1>1, LenProperties DEF MediaShape, Number
  <2>. QED
    BY <1>1, <2>1 DEF Chatted
<1>3. log[n].plan # None => TriesKept(log[n])
  BY <1>1, <1>2 DEF MediaShape, EntryOK
<1>4. \A row \in RowsOf(n) :
        \/ \E i \in DOMAIN table : row = table[i] /\ table[i].request_id = n
        \/ \E j \in DOMAIN queue : row = queue[j] /\ queue[j].request_id = n
  BY DEF RowsOf, Rows, Range, ToSet
<1>5. ASSUME Over(n) PROVE Cardinality(RowsOf(n)) <= 1
  <2>1. \A a, b \in RowsOf(n) : a = b
    BY <1>1, <1>4 DEF RowsOnce
  <2>2. CASE RowsOf(n) = {}
    BY <2>2, FS_EmptySet
  <2>3. CASE RowsOf(n) # {}
    <3>1. PICK row : row \in RowsOf(n)
      BY <2>3
    <3>2. RowsOf(n) = {row}
      BY <2>1, <3>1
    <3>. QED
      BY <3>2, FS_Singleton
  <2>. QED
    BY <2>2, <2>3
<1>6. ASSUME Over(n), log[n].how \in {"unread", "left"} \/ n \in forgot
      PROVE  RowsOf(n) = {}
  <2>1. n \notin Numbered \ forgot
    BY <1>2, <1>6 DEF Numbered, LeftARow
  <2>2. \A row \in RowsOf(n) : FALSE
    BY <1>1, <1>4, <2>1 DEF RowsOnce
  <2>. QED
    BY <2>2
<1>7. ASSUME Over(n), ~(log[n].how \in {"unread", "left"} \/ n \in forgot)
      PROVE  RowsOf(n) # {}
  <2>1. n \in LeftARow \ forgot
    BY <1>2, <1>7 DEF LeftARow, Over
  <2>2. \E row : row \in RowsOf(n)
    BY <1>1, <2>1 DEF RowsKept, RowsOf, Rows, Range, ToSet
  <2>. QED
    BY <2>2
<1>8. ASSUME Over(n), NEW row \in RowsOf(n) PROVE Says(log[n], row)
  BY <1>1, <1>2, <1>4, <1>8 DEF RowsTell, Over
<1>. QED
  BY <1>3, <1>5, <1>6, <1>7, <1>8

(* The inductive invariant holds throughout.                               *)
THEOREM IInvHolds ==
  Spec => []IInv
BY InitIInv, NextIInv, PTL DEF Spec

(* A client that walks the pages to the end is given each request its first*)
(* query selected exactly once, but for those forgotten on the way, and    *)
(* none that came after (Store::usage_requests, next_before).              *)
THEOREM PagesListTheTotalsTheorem ==
  Spec => []PagesListTheTotals
<1>1. IInv => PagesListTheTotals
  BY PagesFollow DEF IInv, RowInv
<1>. QED
  BY <1>1, IInvHolds, PTL

(* A media call that is over has one row, but for a body that was no JSON, *)
(* a client that left and a row forgotten since; the row tells what the    *)
(* tries came to, and the tries are those its plan allows (Gateway::media, *)
(* Call::answered, Call::failed).                                          *)
THEOREM OneRowTellsTheCallTheorem ==
  Spec => []OneRowTellsTheCall
<1>1. IInv => OneRowTellsTheCall
  BY RowsFollow
<1>. QED
  BY <1>1, IInvHolds, PTL

-----------------------------------------------------------------------------
(***************************************************************************)
(* Part 2.  An answer is what was asked for: for any body a client can     *)
(* send, any provider of a plan and any reply of its vendor's.  What is not*)
(* at fault with the body comes first, then what each reader makes of each *)
(* reply, then the calls.                                                  *)
(***************************************************************************)

(* An answer is no failure, and a failure no answer.                       *)
LEMMA AnswersAre ==
  /\ \A value : Answer(value).error = None /\ Answer(value).value[1] = value
  /\ \A error : Fails(error).error # None
BY DEF Answer, Fails, None, Some

-----------------------------------------------------------------------------
(* What is not at fault with a body that was read *)

(* One list after another is empty when both are.                          *)
LEMMA BothEmpty ==
  ASSUME NEW S, NEW a \in Seq(S), NEW b \in Seq(S), a \o b = <<>>
  PROVE  a = <<>> /\ b = <<>>
<1>1. Len(a) + Len(b) = 0 /\ Len(a) \in Nat /\ Len(b) \in Nat
  BY ConcatProperties, EmptySeq
<1>2. Len(a) = 0 /\ Len(b) = 0
  BY <1>1
<1>. QED
  BY <1>2, EmptySeq

(* The names of the fields there may be a fault with.                      *)
Fields ==
  {"body", "model", "input", "encoding_format", "dimensions", "stream", "partial_images", "style",
   "moderation", "output_compression", "prompt", "n", "size", "quality", "background",
   "output_format", "response_format", "stream_format", "voice", "instructions", "speed"}

(* The fields at fault are a list of names.                                *)
LEMMA FaultsAreNames ==
  ASSUME NEW body
  PROVE  /\ \A c : \A field \in Fields : When(c, field) \in Seq(Fields)
         /\ \A field \in Fields : NoString(body, field) \in Seq(Fields)
         /\ \A field \in Fields : NoText(body, field) \in Seq(Fields)
         /\ \A least, most : \A field \in Fields : NotWithin(body, field, least, most) \in Seq(Fields)
         /\ \A values : \A field \in Fields : NotOneOf(body, field, values) \in Seq(Fields)
         /\ \A fields \in Seq(Fields) : Refused(body, fields) \in Seq(Fields)
<1>1. ASSUME NEW c, NEW field \in Fields PROVE When(c, field) \in Seq(Fields)
  <2>1. <<>> \in Seq(Fields) /\ <<field>> \in Seq(Fields)
    BY EmptySeq
  <2>2. CASE c
    BY <2>1, <2>2 DEF When, Some
  <2>3. CASE ~c
    BY <2>1, <2>3 DEF When, None
  <2>. QED
    BY <2>2, <2>3
<1>2. \A least, most : \A field \in Fields : NotWithin(body, field, least, most) \in Seq(Fields)
  BY <1>1 DEF NotWithin
<1>3. \A field \in Fields : NoString(body, field) \in Seq(Fields)
  BY <1>1 DEF NoString
<1>4. \A field \in Fields : NoText(body, field) \in Seq(Fields)
  BY <1>1 DEF NoText
<1>5. ASSUME NEW field \in Fields, NEW values PROVE NotOneOf(body, field, values) \in Seq(Fields)
  <2>. DEFINE amiss == ReadString(body, field) # None
                       /\ Or(ReadString(body, field), "") \notin values
  <2>1. When(amiss, field) \in Seq(Fields)
    BY <1>1
  <2>2. NotOneOf(body, field, values) = NoString(body, field) \o When(amiss, field)
    BY DEF NotOneOf
  <2>. HIDE DEF amiss
  <2>. QED
    BY <1>3, <2>1, <2>2, ConcatProperties
<1>6. ASSUME NEW fields \in Seq(Fields) PROVE Refused(body, fields) \in Seq(Fields)
  <2>. DEFINE S == {f \in ToSet(fields) : Given(body, f)}
  <2>1. Refused(body, fields) = Only(fields, S)
    BY DEF Refused
  <2>. HIDE DEF S
  <2>. QED
    BY <2>1, OnlyIsList
<1>. QED
  BY <1>1, <1>2, <1>3, <1>4, <1>5, <1>6

(* Nothing is at fault with a field that is none of the faults.            *)
LEMMA NoFault ==
  ASSUME NEW c, NEW field, When(c, field) = <<>>
  PROVE  ~c
BY DEF When, None

(* A string that has to be one of some values is one of them, or absent.   *)
LEMMA OneOf ==
  ASSUME NEW body, NEW field \in Fields, NEW values, NotOneOf(body, field, values) = <<>>
  PROVE  \/ ReadString(body, field) = None
         \/ \E v \in values : ReadString(body, field) = Some(v)
<1>. DEFINE read == ReadString(body, field)
            amiss == read # None /\ Or(read, "") \notin values
<1>1. When(amiss, field) \in Seq(Fields) /\ NoString(body, field) \in Seq(Fields)
  BY FaultsAreNames
<1>2. NotOneOf(body, field, values) = NoString(body, field) \o When(amiss, field)
  BY DEF NotOneOf
<1>3. read = None \/ (read # None /\ read = Some(Or(read, "")))
  BY DEF ReadString, When, None, Some, Or
<1>. HIDE DEF read, amiss
<1>4. When(amiss, field) = <<>>
  BY <1>1, <1>2, BothEmpty
<1>5. ~amiss
  BY <1>4, NoFault
<1>. QED
  BY <1>3, <1>5 DEF amiss, read

(* What is not at fault with a body that asks for pictures.                *)
LEMMA PicturesAskedFor ==
  ASSUME NEW body, NoModel(body) \o ImageFaults(body) = <<>>,
         Given(body, "n") => (body["n"].is = "number" => body["n"].n \in Int),
         NEW request, request = ReadMedia("images", body)
  PROVE  /\ request.count = None \/ (request.count # None /\ request.count[1] \in 1..10)
         /\ request.response_format \in {None, Some("url"), Some("b64_json")}
<1>. DEFINE a == Refused(body, <<"stream", "partial_images", "style", "moderation",
                                 "output_compression">>)
            b == NoText(body, "prompt")
            c == NotWithin(body, "n", 1, 10)
            d == NoString(body, "size")
            e == NoString(body, "quality")
            f == NoString(body, "background")
            g == NoString(body, "output_format")
            h == NotOneOf(body, "response_format", {"url", "b64_json"})
<1>1. /\ <<"stream", "partial_images", "style", "moderation", "output_compression">> \in Seq(Fields)
      /\ "model" \in Fields /\ "prompt" \in Fields /\ "n" \in Fields /\ "size" \in Fields /\ "quality" \in Fields
      /\ "background" \in Fields /\ "output_format" \in Fields /\ "response_format" \in Fields
  BY DEF Fields
<1>2. /\ a \in Seq(Fields) /\ b \in Seq(Fields) /\ c \in Seq(Fields) /\ d \in Seq(Fields)
      /\ e \in Seq(Fields) /\ f \in Seq(Fields) /\ g \in Seq(Fields) /\ h \in Seq(Fields)
  <2>1. a \in Seq(Fields)
    BY <1>1, FaultsAreNames
  <2>2. b \in Seq(Fields)
    BY <1>1, FaultsAreNames
  <2>3. c \in Seq(Fields)
    BY <1>1, FaultsAreNames
  <2>4. d \in Seq(Fields) /\ e \in Seq(Fields) /\ f \in Seq(Fields) /\ g \in Seq(Fields)
    BY <1>1, FaultsAreNames
  <2>5. h \in Seq(Fields)
    BY <1>1, FaultsAreNames
  <2>. HIDE DEF a, b, c, d, e, f, g, h
  <2>. QED
    BY <2>1, <2>2, <2>3, <2>4, <2>5
<1>3. ImageFaults(body) = ((((((a \o b) \o c) \o d) \o e) \o f) \o g) \o h
  BY DEF ImageFaults
<1>. DEFINE ab == a \o b
            abc == ab \o c
            abcd == abc \o d
            abcde == abcd \o e
            abcdef == abcde \o f
            abcdefg == abcdef \o g
<1>4. ImageFaults(body) = abcdefg \o h
  BY <1>3
<1>. HIDE DEF a, b, c, d, e, f, g, h
<1>5. ab \in Seq(Fields)
  BY <1>2, ConcatProperties
<1>. HIDE DEF ab
<1>6. abc \in Seq(Fields)
  BY <1>2, <1>5, ConcatProperties
<1>. HIDE DEF abc
<1>7. abcd \in Seq(Fields)
  BY <1>2, <1>6, ConcatProperties
<1>. HIDE DEF abcd
<1>8. abcde \in Seq(Fields)
  BY <1>2, <1>7, ConcatProperties
<1>. HIDE DEF abcde
<1>9. abcdef \in Seq(Fields)
  BY <1>2, <1>8, ConcatProperties
<1>. HIDE DEF abcdef
<1>10. abcdefg \in Seq(Fields)
  BY <1>2, <1>9, ConcatProperties
<1>. HIDE DEF abcdefg
<1>11. abcdefg = <<>> /\ h = <<>>
  <2>1. ImageFaults(body) \in Seq(Fields)
    BY <1>2, <1>4, <1>10, ConcatProperties
  <2>2. NoModel(body) \in Seq(Fields)
    BY <1>1, FaultsAreNames DEF NoModel
  <2>3. ImageFaults(body) = <<>>
    BY <2>1, <2>2, BothEmpty
  <2>. QED
    BY <1>2, <1>4, <1>10, <2>3, BothEmpty
<1>12. abcdef = <<>>
  BY <1>2, <1>9, <1>11, BothEmpty DEF abcdefg
<1>13. abcde = <<>>
  BY <1>2, <1>8, <1>12, BothEmpty DEF abcdef
<1>14. abcd = <<>>
  BY <1>2, <1>7, <1>13, BothEmpty DEF abcde
<1>15. abc = <<>>
  BY <1>2, <1>6, <1>14, BothEmpty DEF abcd
<1>16. c = <<>>
  BY <1>2, <1>5, <1>15, BothEmpty DEF abc
<1>17. Given(body, "n") => body["n"].n \in 1..10
  <2>1. ~(Given(body, "n") /\ ~(body["n"].is = "number" /\ body["n"].n >= 1 /\ body["n"].n <= 10))
    BY <1>16, NoFault DEF c, NotWithin
  <2>. QED
    BY <2>1
<1>18. request.count = When(Given(body, "n"), body["n"].n)
  BY DEF ReadMedia, ReadNumber
<1>19. request.count = None \/ (request.count # None /\ request.count[1] \in 1..10)
  BY <1>17, <1>18 DEF When, None
<1>20. \/ ReadString(body, "response_format") = None
       \/ \E v \in {"url", "b64_json"} : ReadString(body, "response_format") = Some(v)
  <2>. DEFINE values == {"url", "b64_json"}
  <2>1. NotOneOf(body, "response_format", values) = <<>>
    BY <1>11 DEF h
  <2>. HIDE DEF values
  <2>2. \/ ReadString(body, "response_format") = None
        \/ \E v \in values : ReadString(body, "response_format") = Some(v)
    BY <1>1, <2>1, OneOf
  <2>. QED
    BY <2>2 DEF values
<1>21. request.response_format = ReadString(body, "response_format")
  BY DEF ReadMedia
<1>. QED
  BY <1>19, <1>20, <1>21

(* What is not at fault with a body that asks for vectors.                 *)
LEMMA VectorsAskedFor ==
  ASSUME NEW body, NoModel(body) \o EmbeddingFaults(body) = <<>>,
         Embeddable(body) => ReadInputs(body) \in Seq(ToSet(ReadInputs(body))),
         NEW request, request = ReadMedia("embeddings", body)
  PROVE  request.inputs \in Seq(ToSet(request.inputs)) /\ request.inputs # <<>>
<1>. DEFINE a == When(~Embeddable(body), "input")
            b == NotOneOf(body, "encoding_format", {"float", "base64"})
            c == NotWithin(body, "dimensions", 1, LargestWidth)
            ab == a \o b
<1>1. "model" \in Fields /\ "input" \in Fields /\ "encoding_format" \in Fields /\ "dimensions" \in Fields
  BY DEF Fields
<1>2. a \in Seq(Fields)
  BY <1>1, FaultsAreNames
<1>3. b \in Seq(Fields)
  BY <1>1, FaultsAreNames
<1>4. c \in Seq(Fields)
  BY <1>1, FaultsAreNames
<1>5. EmbeddingFaults(body) = ab \o c
  BY DEF EmbeddingFaults
<1>. HIDE DEF a, b, c
<1>6. ab \in Seq(Fields)
  BY <1>2, <1>3, ConcatProperties
<1>. HIDE DEF ab
<1>7. ab = <<>>
  <2>1. EmbeddingFaults(body) \in Seq(Fields)
    BY <1>4, <1>5, <1>6, ConcatProperties
  <2>2. NoModel(body) \in Seq(Fields)
    BY <1>1, FaultsAreNames DEF NoModel
  <2>3. EmbeddingFaults(body) = <<>>
    BY <2>1, <2>2, BothEmpty
  <2>. QED
    BY <1>4, <1>5, <1>6, <2>3, BothEmpty
<1>8. a = <<>>
  BY <1>2, <1>3, <1>7, BothEmpty DEF ab
<1>9. Embeddable(body)
  BY <1>8, NoFault DEF a
<1>10. request.inputs = ReadInputs(body)
  BY DEF ReadMedia
<1>11. ReadInputs(body) # <<>>
  <2>1. \A s : <<s>> # <<>>
    OBVIOUS
  <2>. QED
    BY <1>9, <2>1 DEF Embeddable, ReadInputs
<1>. QED
  BY <1>9, <1>10, <1>11

-----------------------------------------------------------------------------
(* Vectors *)

(* What a reply holds for each text, in the order of the texts.            *)
InTheirPlaces(vectors, request) ==
  /\ [i \in DOMAIN vectors |-> vectors[i].of] = request.inputs
  /\ request.dimensions # None => vectors[1].width = request.dimensions[1]

(* The vendor's vectors, one for each text.                                *)
LEMMA VectorsAre ==
  ASSUME NEW request, request.inputs \in Seq(ToSet(request.inputs)), request.inputs # <<>>,
         NEW model, NEW n, n = Len(request.inputs),
         NEW vectors \in VectorsFrom(request, model)
  PROVE  /\ n \in Nat \ {0} /\ DOMAIN request.inputs = 1..n
         /\ vectors \in Seq(ToSet(vectors)) /\ Len(vectors) = n /\ DOMAIN vectors = 1..n
         /\ \A i \in 1..n : vectors[i].of = request.inputs[i]
<1>. DEFINE even == VectorsFor(request, model)
            uneven == [even EXCEPT ![Len(even)].width = @ + 1]
<1>1. n \in Nat /\ DOMAIN request.inputs = 1..n
  BY LenProperties
<1>2. n # 0
  BY EmptySeq
<1>3. vectors = even \/ vectors = uneven
  BY DEF VectorsFrom
<1>4. /\ DOMAIN even = 1..n /\ even = [i \in DOMAIN even |-> even[i]]
      /\ \A i \in 1..n : even[i].of = request.inputs[i]
      /\ \A i \in 1..n : DOMAIN even[i] = {"of", "width"}
  BY <1>1 DEF VectorsFor
<1>. HIDE DEF even
<1>5. /\ DOMAIN uneven = 1..n /\ uneven = [i \in DOMAIN uneven |-> uneven[i]]
      /\ \A i \in 1..n : uneven[i].of = request.inputs[i]
  BY <1>4
<1>. HIDE DEF uneven
<1>6. DOMAIN vectors = 1..n /\ vectors = [i \in DOMAIN vectors |-> vectors[i]]
      /\ \A i \in 1..n : vectors[i].of = request.inputs[i]
  BY <1>3, <1>4, <1>5
<1>7. vectors \in Seq(ToSet(vectors)) /\ Len(vectors) = n
  BY <1>1, <1>6, IsList
<1>. QED
  BY <1>1, <1>2, <1>6, <1>7

(* Vectors in their places are what was asked for.                         *)
LEMMA PlacedIsAsked ==
  ASSUME NEW request, request.inputs \in Seq(ToSet(request.inputs)), request.inputs # <<>>,
         NEW model, NEW vectors \in VectorsFrom(request, model),
         NEW read, DOMAIN read = DOMAIN request.inputs,
         \A i \in DOMAIN request.inputs : read[i] = vectors[i],
         Resized(request, read)
  PROVE  InTheirPlaces(read, request)
<1>. DEFINE n == Len(request.inputs)
<1>1. /\ n \in Nat \ {0} /\ DOMAIN request.inputs = 1..n
      /\ \A i \in 1..n : vectors[i].of = request.inputs[i]
  <2>1. n = Len(request.inputs)
    OBVIOUS
  <2>. HIDE DEF n
  <2>. QED
    BY <2>1, VectorsAre
<1>2. request.inputs = [i \in 1..n |-> request.inputs[i]]
  BY <1>1
<1>3. [i \in DOMAIN read |-> read[i].of] = request.inputs
  <2>1. \A i \in 1..n : read[i].of = request.inputs[i]
    BY <1>1
  <2>2. DOMAIN read = 1..n
    BY <1>1
  <2>. HIDE DEF n
  <2>3. [i \in DOMAIN read |-> read[i].of] = [i \in 1..n |-> request.inputs[i]]
    BY <2>1, <2>2
  <2>. QED
    BY <1>2, <2>3
<1>. QED
  BY <1>3 DEF InTheirPlaces, Resized

(* Gemini's vectors come in their places, or there are too few.            *)
LEMMA GeminiEmbeds ==
  ASSUME NEW request, request.inputs \in Seq(ToSet(request.inputs)), request.inputs # <<>>,
         NEW model, NEW body \in GeminiEmbedReplies(EmbedBody(request), model),
         NEW answer, answer = ReadGeminiEmbeddings(body, request, model), answer.error = None
  PROVE  InTheirPlaces(answer.value[1].vectors, request)
<1>0. PICK vectors \in VectorsFrom(request, model) :
        body \in {[data |-> PlacedFrom(vectors)], [data |-> Tail(PlacedFrom(vectors))]}
  BY DEF GeminiEmbedReplies, EmbedBody
<1>. DEFINE placed == PlacedFrom(vectors)
            read == [i \in DOMAIN body.data |-> body.data[i].vector]
            n == Len(request.inputs)
<1>1. body.data = placed \/ body.data = Tail(placed)
  <2>. HIDE DEF placed
  <2>. QED
    BY <1>0 DEF placed
<1>2. n \in Nat \ {0} /\ DOMAIN request.inputs = 1..n /\ DOMAIN vectors = 1..n
  BY VectorsAre
<1>3. Len(read) = n /\ Resized(request, read) /\ answer.value[1].vectors = read
  <2>1. /\ Len(read) = n /\ Resized(request, read)
        /\ answer = Answer(Embeddings(read, model, Absent))
    BY AnswersAre DEF ReadGeminiEmbeddings
  <2>. QED
    BY <2>1, AnswersAre DEF Embeddings
<1>4. DOMAIN placed = 1..n /\ \A i \in 1..n : placed[i].vector = vectors[i]
  BY <1>2 DEF PlacedFrom
<1>. HIDE DEF n
<1>5. placed \in Seq(ToSet(placed)) /\ Len(placed) = n
  <2>1. placed = [i \in DOMAIN placed |-> placed[i]]
    BY DEF PlacedFrom
  <2>. HIDE DEF placed
  <2>. QED
    BY <1>2, <1>4, <2>1, IsList
<1>. HIDE DEF placed
<1>6. body.data = placed
  <2>1. ASSUME body.data = Tail(placed) PROVE FALSE
    <3>1. Tail(placed) \in Seq(ToSet(placed)) /\ Len(Tail(placed)) = n - 1
      BY <1>2, <1>5
    <3>2. DOMAIN Tail(placed) = 1..n - 1
      BY <3>1, LenProperties
    <3>3. DOMAIN read = 1..n - 1 /\ read = [i \in DOMAIN read |-> read[i]]
      BY <2>1, <3>2
    <3>. HIDE DEF read
    <3>4. Len(read) = n - 1
      BY <1>2, <3>3, IsList
    <3>. QED
      BY <1>2, <1>3, <3>4
  <2>. QED
    BY <1>1, <2>1
<1>7. DOMAIN read = DOMAIN request.inputs /\ \A i \in DOMAIN request.inputs : read[i] = vectors[i]
  BY <1>2, <1>4, <1>6
<1>. HIDE DEF read
<1>8. InTheirPlaces(read, request)
  BY <1>3, <1>7, PlacedIsAsked
<1>. QED
  BY <1>3, <1>8

(* OpenAI's say which text they are of, in whatever order they come.       *)
LEMMA IndicesLineUp ==
  ASSUME NEW n \in Nat, NEW vectors, NEW data,
         \A k \in DOMAIN data, i \in 1..n : data[k].index = Some(i - 1) => data[k].vector = vectors[i],
         \A i \in 1..n : \E k \in DOMAIN data : data[k].index = Some(i - 1),
         NEW i \in 1..n
  PROVE  data[CHOOSE k \in DOMAIN data : data[k].index = Some(i - 1)].vector = vectors[i]
<1>. DEFINE k == CHOOSE j \in DOMAIN data : data[j].index = Some(i - 1)
<1>1. k \in DOMAIN data /\ data[k].index = Some(i - 1)
  OBVIOUS
<1>. QED
  BY <1>1

(* The vectors read are those of the texts, or the reply is no answer.     *)
LEMMA OpenAIEmbeds ==
  ASSUME NEW request, request.inputs \in Seq(ToSet(request.inputs)), request.inputs # <<>>,
         NEW model, NEW name, NEW body \in OpenAIEmbedReplies(EmbedBody(request), model),
         NEW answer, answer = ReadOpenAIEmbeddings(body, request, name), answer.error = None
  PROVE  InTheirPlaces(answer.value[1].vectors, request)
<1>0. PICK vectors \in VectorsFrom(request, model) : body \in ListedFrom(Indexed(vectors))
  BY DEF OpenAIEmbedReplies, EmbedBody
<1>. DEFINE n == Len(request.inputs)
            numbered == Indexed(vectors)
            first == [numbered EXCEPT ![Len(numbered)].index = Some(0)]
            none == [numbered EXCEPT ![1].index = None]
            data == body.data
            at(i) == CHOOSE r \in DOMAIN data : data[r].index = Some(i - 1)
            read == [i \in 1..n |-> data[at(i)].vector]
            usage == IF body.prompt = None THEN Absent
                     ELSE [c \in Counts |-> Some(IF c = "input" THEN body.prompt[1] ELSE 0)]
<1>1. data \in {numbered, Reverse(numbered), Front(numbered), first, none}
  <2>1. data \in {numbered, Reverse(numbered)} \cup Flawed(numbered)
    BY <1>0 DEF ListedFrom
  <2>2. Flawed(numbered) = {Front(numbered), first, none} \ {numbered}
    BY DEF Flawed
  <2>. HIDE DEF numbered, first, none, data
  <2>. QED
    BY <2>1, <2>2
<1>2. /\ n \in Nat \ {0} /\ DOMAIN request.inputs = 1..n
      /\ Len(vectors) = n /\ DOMAIN vectors = 1..n
  <2>1. n = Len(request.inputs)
    OBVIOUS
  <2>. HIDE DEF n
  <2>. QED
    BY <2>1, VectorsAre
<1>3. /\ Len(data) = n /\ \A i \in 1..n : \E r \in DOMAIN data : data[r].index = Some(i - 1)
      /\ Resized(request, read) /\ answer.value[1].vectors = read
  <2>1. /\ Len(data) = n /\ \A i \in 1..n : \E r \in DOMAIN data : data[r].index = Some(i - 1)
        /\ Resized(request, read)
        /\ answer = Answer(Embeddings(read, Or(body.model, name), usage))
    BY AnswersAre DEF ReadOpenAIEmbeddings
  <2>. HIDE DEF read, usage
  <2>2. answer.value[1] = Embeddings(read, Or(body.model, name), usage)
    BY <2>1, AnswersAre
  <2>. QED
    BY <2>1, <2>2 DEF Embeddings
<1>. HIDE DEF n, read, data
<1>4. /\ DOMAIN numbered = 1..n /\ numbered = [i \in DOMAIN numbered |-> numbered[i]]
      /\ \A i \in 1..n : numbered[i] = [index |-> Some(i - 1), vector |-> vectors[i]]
  BY <1>2 DEF Indexed
<1>. HIDE DEF numbered
<1>a. \A i \in 1..n : numbered[i].index = Some(i - 1) /\ numbered[i].vector = vectors[i]
  BY <1>4
<1>b. numbered \in Seq(ToSet(numbered)) /\ Len(numbered) = n
  BY <1>2, <1>4, IsList
<1>5. /\ DOMAIN first = 1..n /\ \A i \in 1..n : i # n => first[i] = numbered[i]
      /\ first[n].index = Some(0)
  BY <1>2, <1>4, <1>b
<1>c. n = 1 => first = numbered
  <2>1. SUFFICES ASSUME n = 1 PROVE first = numbered
    OBVIOUS
  <2>2. DOMAIN first = DOMAIN numbered /\ first = [i \in DOMAIN first |-> first[i]]
    BY <1>4
  <2>3. numbered[1] = [index |-> Some(0), vector |-> vectors[1]]
    BY <1>4, <2>1
  <2>4. first[1] = numbered[1]
    BY <1>4, <1>b, <2>1, <2>3
  <2>. HIDE DEF first
  <2>. QED
    BY <1>4, <2>1, <2>2, <2>4
<1>6. /\ DOMAIN none = 1..n /\ \A i \in 1..n : i # 1 => none[i] = numbered[i]
      /\ none[1].index = None
  BY <1>2, <1>4
<1>. HIDE DEF first, none
<1>8. \A i, j \in Nat : Some(i) = Some(j) => i = j
  BY DEF Some
<1>9. \A i \in Nat : Some(i) # None
  BY DEF Some, None
<1>10. data # Front(numbered)
  <2>1. n - 1 \in Nat /\ Len(Front(numbered)) = n - 1
    BY <1>2, <1>b DEF Front
  <2>. QED
    BY <1>2, <1>3, <2>1
<1>11. data = first => data = numbered
  <2>1. SUFFICES ASSUME data = first, n # 1 PROVE FALSE
    BY <1>c
  <2>2. n \in 1..n /\ n - 1 \in Nat
    BY <1>2
  <2>3. PICK r \in 1..n : first[r].index = Some(n - 1)
    BY <1>3, <1>5, <2>1, <2>2
  <2>4. CASE r = n
    <3>1. first[n].index = Some(n - 1) /\ 0 \in Nat
      BY <2>3, <2>4
    <3>2. n - 1 = 0
      BY <1>5, <1>8, <2>2, <3>1
    <3>. QED
      BY <1>2, <2>1, <3>2
  <2>5. CASE r # n
    <3>1. first[r].index = Some(r - 1) /\ r - 1 \in Nat
      BY <1>2, <1>a, <1>5, <2>3, <2>5
    <3>2. r - 1 = n - 1
      BY <1>8, <2>2, <2>3, <3>1
    <3>. QED
      BY <1>2, <2>5, <3>2
  <2>. QED
    BY <2>4, <2>5
<1>12. ASSUME data \in {numbered, Reverse(numbered), none}, NEW k \in DOMAIN data, NEW i \in 1..n,
              data[k].index = Some(i - 1)
       PROVE  data[k].vector = vectors[i]
  <2>1. i - 1 \in Nat
    BY <1>2
  <2>2. \A j \in 1..n : numbered[j].index = Some(i - 1) => numbered[j].vector = vectors[i]
    <3>1. ASSUME NEW j \in 1..n, numbered[j].index = Some(i - 1)
          PROVE  numbered[j].vector = vectors[i]
      <4>1. j - 1 \in Nat /\ Some(j - 1) = Some(i - 1)
        BY <1>2, <1>a, <3>1
      <4>2. j - 1 = i - 1
        BY <1>8, <2>1, <4>1
      <4>3. j = i
        BY <1>2, <4>2
      <4>. QED
        BY <1>a, <4>3
    <3>. QED
      BY <3>1
  <2>3. CASE data = numbered
    BY <1>4, <1>12, <2>2, <2>3
  <2>4. CASE data = Reverse(numbered)
    <3>1. DOMAIN data = 1..n /\ data[k] = numbered[(n - k) + 1]
      BY <1>b, <1>12, <2>4 DEF Reverse
    <3>2. (n - k) + 1 \in 1..n
      BY <1>2, <3>1
    <3>. QED
      BY <1>12, <2>2, <3>1, <3>2
  <2>5. CASE data = none
    BY <1>6, <1>9, <1>12, <2>1, <2>2, <2>5
  <2>. QED
    BY <1>12, <2>3, <2>4, <2>5
<1>13. data \in {numbered, Reverse(numbered), none}
  BY <1>1, <1>10, <1>11
<1>14. ASSUME NEW i \in 1..n PROVE read[i] = vectors[i]
  <2>1. data[at(i)].vector = vectors[i]
    BY <1>2, <1>3, <1>12, <1>13, IndicesLineUp
  <2>. QED
    BY <2>1 DEF read
<1>15. DOMAIN read = 1..n
  BY DEF read
<1>16. InTheirPlaces(read, request)
  BY <1>2, <1>3, <1>14, <1>15, PlacedIsAsked
<1>. QED
  BY <1>3, <1>16


-----------------------------------------------------------------------------
(* Pictures *)

(* Each in its place, and all that are bytes of one kind.                  *)
Pictured(drawn, pictures, kind) ==
  \A i \in DOMAIN drawn :
    /\ pictures[i].as = IF drawn[i].bytes # None THEN "b64_json" ELSE "url"
    /\ drawn[i].bytes # None => pictures[i].of = kind

(* Pictures that are all in their places are written so.                   *)
LEMMA PicturesWritten ==
  ASSUME NEW type, NEW request, NEW reply, NEW drawn, drawn = DrawnIn(type, reply),
         NEW n \in Nat, DOMAIN drawn = 1..n, drawn # <<>>,
         NEW form, \A i \in DOMAIN drawn : drawn[i].bytes # None => drawn[i].bytes[1] = form,
         NEW kind, form \in Signatures /\ SaysItsForm(type, request, reply, form) => kind = form,
         NEW pictures, pictures = [i \in DOMAIN drawn |-> pictures[i]],
         Pictured(drawn, pictures, kind),
         NEW answer, answer.pictures = pictures
  PROVE  Shows(type, request, reply, WrittenImages(answer))
<1>. DEFINE body == WrittenImages(answer)
            S == {p \in ToSet(pictures) : p.as = "b64_json"}
            bytes == Only(pictures, S)
<1>1. DOMAIN pictures = 1..n /\ pictures = [i \in DOMAIN pictures |-> pictures[i]]
  OBVIOUS
<1>2. pictures \in Seq(ToSet(pictures))
  BY <1>1, IsList
<1>3. body.data = pictures /\ body.format = When(bytes # <<>>, Head(bytes).of)
  BY DEF WrittenImages
<1>4. ASSUME NEW i \in DOMAIN drawn, drawn[i].bytes # None PROVE body.format = Some(kind)
  <2>1. i \in DOMAIN pictures /\ pictures[i] \in S
    BY <1>1, <1>4 DEF ToSet, Pictured
  <2>2. \A j \in DOMAIN pictures : pictures[j] \in S => pictures[j].of = kind
    BY <1>1 DEF Pictured
  <2>. HIDE DEF S, body
  <2>3. bytes # <<>> /\ \E j \in DOMAIN pictures : Head(bytes) = pictures[j] /\ pictures[j] \in S
    BY <1>2, <2>1, OnlyBegins
  <2>. HIDE DEF bytes
  <2>4. bytes # <<>> /\ Head(bytes).of = kind
    BY <2>2, <2>3
  <2>. QED
    BY <1>3, <2>4 DEF When, Some
<1>. HIDE DEF body
<1>5. ASSUME NEW i \in DOMAIN drawn
      PROVE  /\ body.data[i].as = IF drawn[i].bytes # None THEN "b64_json" ELSE "url"
             /\ drawn[i].bytes # None =>
                  /\ body.format = Some(body.data[i].of)
                  /\ /\ drawn[i].bytes[1] \in Signatures
                     /\ SaysItsForm(type, request, reply, drawn[i].bytes[1])
                     => body.data[i].of = drawn[i].bytes[1]
  BY <1>3, <1>4 DEF Pictured
<1>6. Shows(type, request, reply, body)
  BY <1>1, <1>3, <1>5 DEF Shows
<1>. QED
  BY <1>6 DEF body

Blank == [bytes |-> None, url |-> None]

(* What an OpenAI vendor may reply.                                        *)
LEMMA OpenAIReplyIs ==
  ASSUME NEW request,
         request.count = None \/ (request.count # None /\ request.count[1] \in 1..10),
         NEW reply \in OpenAIImageReplies(OpenAIPictureBody(request))
  PROVE  /\ reply.usage \in {Absent, Reported(SpentAt("images"))}
         /\ \E n \in Nat : DOMAIN reply.data = 1..n
         /\ \/ \E form : /\ reply.format \in {None, Some(form)}
                         /\ \A i \in DOMAIN reply.data : reply.data[i] \in Handed(form)
            \/ reply.data \in {<<>>, <<Blank>>}
<1>. DEFINE Replied(data, f, m, u) == [data |-> data, format |-> f, model |-> m, usage |-> u]
            drawn(k, first, rest) == [i \in 1..k |-> IF i = 1 THEN first ELSE rest]
            spent == Reported(SpentAt("images"))
            most == Or(request.count, 1) + 1
<1>1. \A data, f, m, u :
        /\ Replied(data, f, m, u).data = data /\ Replied(data, f, m, u).format = f
        /\ Replied(data, f, m, u).usage = u
  OBVIOUS
<1>2. \A k \in 1..most : k \in Nat
  <2>1. Or(request.count, 1) \in Nat
    BY DEF Or
  <2>. QED
    BY <2>1
<1>3. \/ \E form : reply \in Drawings(request, form)
      \/ \E data \in {<<>>, <<Blank>>} : reply = Replied(data, None, None, spent)
  BY Zenon DEF OpenAIImageReplies, OpenAIPictureBody, Blank
<1>4. ASSUME NEW form, reply \in Drawings(request, form)
      PROVE  \E k \in 1..most, first \in Handed(form), rest \in Handed(form),
                f \in {None, Some(form)}, m \in {None, Some(DatedAs)}, u \in {Absent, spent} :
               reply = Replied(drawn(k, first, rest), f, m, u)
  <2>1. reply \in {Replied(drawn(k, first, rest), f, m, u) :
                     k \in 1..most, first \in Handed(form), rest \in Handed(form),
                     f \in {None, Some(form)}, m \in {None, Some(DatedAs)}, u \in {Absent, spent}}
    BY <1>4 DEF Drawings
  <2>. HIDE DEF Replied, drawn, most, spent
  <2>. QED
    BY <2>1
<1>5. \A k, first, rest :
        /\ DOMAIN drawn(k, first, rest) = 1..k
        /\ \A i \in 1..k : drawn(k, first, rest)[i] = first \/ drawn(k, first, rest)[i] = rest
  OBVIOUS
<1>6. DOMAIN <<>> = 1..0 /\ DOMAIN <<Blank>> = 1..1
  OBVIOUS
<1>. HIDE DEF Replied, drawn, spent, most
<1>7. CASE \E form : reply \in Drawings(request, form)
  <2>1. PICK form : reply \in Drawings(request, form)
    BY <1>7
  <2>2. PICK k \in 1..most, first \in Handed(form), rest \in Handed(form),
             f \in {None, Some(form)}, m \in {None, Some(DatedAs)}, u \in {Absent, spent} :
          reply = Replied(drawn(k, first, rest), f, m, u)
    BY <1>4, <2>1
  <2>3. reply.data = drawn(k, first, rest) /\ reply.format = f /\ reply.usage = u
    BY <1>1, <2>2
  <2>. QED
    BY <1>2, <1>5, <2>2, <2>3 DEF spent
<1>8. CASE \E data \in {<<>>, <<Blank>>} : reply = Replied(data, None, None, spent)
  <2>1. PICK data \in {<<>>, <<Blank>>} : reply = Replied(data, None, None, spent)
    BY <1>8
  <2>2. reply.data = data /\ reply.usage = spent
    BY <1>1, <2>1
  <2>3. \E n \in Nat : DOMAIN data = 1..n
    BY <1>6
  <2>. QED
    BY <2>1, <2>2, <2>3 DEF spent
<1>. QED
  BY <1>3, <1>7, <1>8

(* OpenAI's pictures are all handed over, or there is no answer.           *)
LEMMA OpenAIDraws ==
  ASSUME NEW request,
         request.count = None \/ (request.count # None /\ request.count[1] \in 1..10),
         NEW model, NEW reply \in OpenAIImageReplies(OpenAIPictureBody(request)),
         NEW answer, answer = ReadOpenAIPictures(reply, request, model), answer.error = None
  PROVE  Honours("images", "openai", request, reply, WrittenImages(answer.value[1]))
<1>. DEFINE format == OrElse(reply.format, request.output_format)
            pictures == [i \in DOMAIN reply.data |-> ReadPicture(reply.data[i], format)]
            told == answer.value[1]
<1>1. /\ reply.data # <<>> /\ \A i \in DOMAIN reply.data : reply.data[i] # Blank
      /\ told.pictures = pictures
  <2>1. /\ reply.data # <<>> /\ \A i \in DOMAIN reply.data : reply.data[i] # Blank
        /\ answer = Answer(Images(pictures, Or(reply.model, model), TwoCounts(reply.usage)))
    BY AnswersAre DEF ReadOpenAIPictures, Blank
  <2>. HIDE DEF pictures
  <2>2. told = Images(pictures, Or(reply.model, model), TwoCounts(reply.usage))
    BY <2>1, AnswersAre
  <2>. QED
    BY <2>1, <2>2 DEF Images
<1>2. reply.data # <<Blank>>
  <2>1. DOMAIN <<Blank>> = {1} /\ <<Blank>>[1] = Blank
    OBVIOUS
  <2>. QED
    BY <1>1, <2>1
<1>3. PICK form : /\ reply.format \in {None, Some(form)}
                  /\ \A i \in DOMAIN reply.data : reply.data[i] \in Handed(form)
  BY <1>1, <1>2, OpenAIReplyIs
<1>4. PICK n \in Nat : DOMAIN reply.data = 1..n
  BY OpenAIReplyIs
<1>. DEFINE kind == PictureType(format, form)
<1>5. Some(form) # None /\ Some(form)[1] = form /\ \A g : Some(form) = Some(g) => form = g
  BY DEF Some, None
<1>6. \A i \in DOMAIN reply.data : reply.data[i].bytes # None => reply.data[i].bytes[1] = form
  <2>1. \A row \in Handed(form) : row.bytes # None => row.bytes = Some(form)
    BY DEF Handed
  <2>. QED
    BY <1>3, <1>5, <2>1
<1>7. Pictured(reply.data, pictures, kind)
  <2>1. ASSUME NEW row \in Handed(form)
        PROVE  /\ ReadPicture(row, format).as = IF row.bytes # None THEN "b64_json" ELSE "url"
               /\ row.bytes # None => ReadPicture(row, format).of = kind
    <3>1. \/ row.bytes = Some(form)
          \/ row.bytes = None
      BY DEF Handed
    <3>. HIDE DEF format
    <3>2. kind = PictureType(format, form)
      BY DEF kind
    <3>. HIDE DEF kind
    <3>. QED
      BY <1>5, <3>1, <3>2 DEF ReadPicture
  <2>2. \A i \in DOMAIN reply.data : pictures[i] = ReadPicture(reply.data[i], format)
    OBVIOUS
  <2>. HIDE DEF kind, pictures, format
  <2>. QED
    BY <1>3, <2>1, <2>2 DEF Pictured
<1>8. ASSUME form \in Signatures, SaysItsForm("openai", request, reply, form) PROVE kind = form
  <2>1. form \in {"png", "jpeg", "webp"}
    BY <1>8 DEF Signatures
  <2>2. format = Some(form) \/ format = None
    <3>1. reply.format = Some(form) \/ (reply.format = None /\ request.output_format \in {None, Some(form)})
      BY <1>8 DEF SaysItsForm
    <3>. QED
      BY <1>5, <3>1 DEF OrElse
  <2>3. format = Some(form) => kind = form
    <3>1. SUFFICES ASSUME format = Some(form) PROVE PictureType(Some(form), form) = form
      OBVIOUS
    <3>2. Some(form) = Some("png") \/ Some(form) = Some("webp") \/ Some(form) = Some("jpeg")
      BY <2>1
    <3>. QED
      BY <1>5, <2>1, <3>2 DEF PictureType
  <2>4. format = None => kind = form
    <3>1. \A g : Some(g) # None
      BY DEF Some, None
    <3>. QED
      BY <1>8, <3>1 DEF PictureType
  <2>. QED
    BY <2>2, <2>3, <2>4
<1>9. reply.data = DrawnIn("openai", reply)
  BY DEF DrawnIn
<1>10. pictures = [i \in DOMAIN reply.data |-> pictures[i]]
  OBVIOUS
<1>. HIDE DEF kind, pictures, told
<1>11. Shows("openai", request, reply, WrittenImages(told))
  BY <1>1, <1>4, <1>6, <1>7, <1>8, <1>9, <1>10, PicturesWritten
<1>. QED
  BY <1>11 DEF Honours, told

(* The parts of a reply of Gemini's. *)
LEMMA GeminiParts ==
  ASSUME NEW type, NEW ofs, NEW reply \in GeminiReplies(type, ofs)
  PROVE  reply.parts \in Seq({Caption, Inline("no base64", type)} \cup {Inline(type, of) : of \in ofs})
<1>. DEFINE spent == Reported(SpentAt("images"))
            broken == Inline("no base64", type)
            U == {Caption, broken} \cup {Inline(type, of) : of \in ofs}
<1>1. \/ reply \in Made(type, ofs, Absent) \/ reply \in Made(type, ofs, spent)
      \/ reply \in Unmade(type, spent) \/ reply \in Withheld(spent)
  BY DEF GeminiReplies
<1>2. Caption \in U /\ broken \in U /\ \A of \in ofs : Inline(type, of) \in U
  OBVIOUS
<1>. HIDE DEF U, broken
<1>3. /\ <<>> \in Seq(U) /\ <<Caption>> \in Seq(U) /\ <<broken>> \in Seq(U)
      /\ \A p \in U : <<Caption, p>> \in Seq(U) /\ <<Caption, p, p>> \in Seq(U)
  BY <1>2
<1>4. ASSUME NEW usage, reply \in Made(type, ofs, usage) PROVE reply.parts \in Seq(U)
  <2>1. PICK of \in ofs, m \in {None, Some(DatedAs)} :
          \/ reply = Generated(<<Caption, Inline(type, of)>>, "STOP", m, usage)
          \/ reply = Generated(<<Caption, Inline(type, of), Inline(type, of)>>, "STOP", m, usage)
    BY <1>4 DEF Made
  <2>2. \/ reply.parts = <<Caption, Inline(type, of)>>
        \/ reply.parts = <<Caption, Inline(type, of), Inline(type, of)>>
    BY <2>1 DEF Generated
  <2>. QED
    BY <1>2, <1>3, <2>2
<1>5. ASSUME NEW usage, reply \in Unmade(type, usage) PROVE reply.parts \in Seq(U)
  <2>1. PICK parts \in {<<Caption>>, <<>>, <<broken>>} :
          reply = Generated(parts, "STOP", None, usage)
    BY <1>5 DEF Unmade, broken
  <2>. QED
    BY <1>3, <2>1 DEF Generated
<1>6. ASSUME NEW usage, reply \in Withheld(usage) PROVE reply.parts \in Seq(U)
  <2>1. \/ reply = Generated(<<>>, "IMAGE_SAFETY", None, usage)
        \/ reply = [Generated(<<>>, "STOP", None, usage) EXCEPT !.blocked = TRUE]
    BY <1>6 DEF Withheld
  <2>2. reply.parts = <<>>
    BY <2>1 DEF Generated
  <2>. QED
    BY <1>3, <2>2
<1>7. reply.parts \in Seq(U)
  BY <1>1, <1>4, <1>5, <1>6
<1>. QED
  BY <1>7 DEF U, broken

(* What can be read of Gemini's reply is the media of the type asked for.  *)
LEMMA GeminiGives ==
  ASSUME NEW type, type # "text", type # "no base64", NEW ofs,
         NEW reply \in GeminiReplies(type, ofs), InlineParts(reply).error = None,
         NEW media, media = Typed(Or(InlineParts(reply).value, <<>>), type)
  PROVE  /\ media = Typed(reply.parts, type) /\ \E n \in Nat : DOMAIN media = 1..n
         /\ media # <<>> => DOMAIN media # {}
         /\ \A i \in DOMAIN media : media[i].of \in ofs
<1>. DEFINE broken == Inline("no base64", type)
            parts == reply.parts
            U == {Caption, broken} \cup {Inline(type, of) : of \in ofs}
            S == {p \in ToSet(parts) : p.type = type}
<1>1. parts \in Seq(U)
  BY GeminiParts
<1>2. Or(InlineParts(reply).value, <<>>) = parts
  <2>1. InlineParts(reply) = Answer(parts)
    BY AnswersAre DEF InlineParts
  <2>2. \A value : Or(Answer(value).value, <<>>) = value
    BY DEF Or, Answer, Some, None
  <2>. QED
    BY <2>1, <2>2
<1>3. media = Only(parts, S)
  BY <1>2 DEF Typed
<1>4. ASSUME NEW p \in U, p.type = type PROVE p.of \in ofs
  <2>1. Caption.type = "text" /\ broken.type = "no base64"
    BY DEF Caption, Inline
  <2>2. PICK of \in ofs : p = Inline(type, of)
    BY <1>4, <2>1
  <2>. QED
    BY <2>2 DEF Inline
<1>5. \A p \in S : p.type = type
  OBVIOUS
<1>. HIDE DEF U, S, parts
<1>6. /\ \E n \in Nat : DOMAIN media = 1..n
      /\ media # <<>> => DOMAIN media # {}
      /\ \A k \in DOMAIN media : \E i \in DOMAIN parts : media[k] = parts[i] /\ parts[i] \in S
  <2>1. media \in Seq(U)
    BY <1>1, <1>3, OnlyIsList
  <2>2. Len(media) \in Nat /\ DOMAIN media = 1..Len(media) /\ (media # <<>> => Len(media) # 0)
    BY <2>1, LenProperties, EmptySeq
  <2>3. \A k \in DOMAIN media : \E i \in DOMAIN parts : media[k] = parts[i] /\ parts[i] \in S
    <3>1. \A k \in DOMAIN Only(parts, S) :
            \E i \in DOMAIN parts : Only(parts, S)[k] = parts[i] /\ parts[i] \in S
      BY <1>1, OnlyIs
    <3>. QED
      BY <1>3, <3>1
  <2>4. Len(media) # 0 => DOMAIN media # {}
    BY <2>2, FirstOf
  <2>. QED
    BY <2>2, <2>3, <2>4
<1>7. \A i \in DOMAIN parts : parts[i] \in U
  BY <1>1, ElementOfSeq, LenProperties
<1>8. \A i \in DOMAIN media : media[i].of \in ofs
  BY <1>4, <1>5, <1>6, <1>7
<1>. QED
  BY <1>2, <1>6, <1>8 DEF parts

(* Gemini's pictures are all handed over, and it was not asked for what it *)
(* has not.                                                                *)
LEMMA GeminiDraws ==
  ASSUME NEW request, GeminiPictureFault(request) = None,
         NEW model, NEW reply \in GeminiReplies("image", {"png"}),
         NEW answer, answer = ReadGeminiPictures(reply, request, model), answer.error = None
  PROVE  /\ Honours("images", "gemini", request, reply, WrittenImages(answer.value[1]))
         /\ \E n \in Nat : /\ DOMAIN answer.value[1].pictures = 1..n
                           /\ Len(answer.value[1].pictures) = n
         /\ answer.value[1].usage = reply.usage
<1>. DEFINE media == Typed(Or(InlineParts(reply).value, <<>>), "image")
            pictures == [i \in DOMAIN media |-> [as |-> "b64_json", of |-> media[i].of]]
            drawn == [i \in DOMAIN media |-> [bytes |-> Some(media[i].of), url |-> None]]
            told == answer.value[1]
<1>1. /\ InlineParts(reply).error = None /\ media # <<>>
      /\ answer = Answer(Images(pictures, Or(reply.model, model), reply.usage))
  BY AnswersAre DEF ReadGeminiPictures
<1>2. told.pictures = pictures /\ told.usage = reply.usage
  <2>. HIDE DEF pictures
  <2>1. told = Images(pictures, Or(reply.model, model), reply.usage)
    BY <1>1, AnswersAre
  <2>. QED
    BY <2>1 DEF Images
<1>. HIDE DEF media, told
<1>3. /\ media = Typed(reply.parts, "image") /\ \E n \in Nat : DOMAIN media = 1..n
      /\ DOMAIN media # {}
      /\ \A i \in DOMAIN media : media[i].of \in {"png"}
  <2>1. media = Typed(Or(InlineParts(reply).value, <<>>), "image")
    BY DEF media
  <2>. DEFINE ofs == {"png"}
  <2>2. reply \in GeminiReplies("image", ofs) /\ "image" # "text" /\ "image" # "no base64"
    OBVIOUS
  <2>. HIDE DEF ofs
  <2>3. /\ media = Typed(reply.parts, "image") /\ \E n \in Nat : DOMAIN media = 1..n
        /\ media # <<>> => DOMAIN media # {}
        /\ \A i \in DOMAIN media : media[i].of \in ofs
    BY <1>1, <2>1, <2>2, GeminiGives
  <2>. QED
    BY <1>1, <2>3 DEF ofs
<1>4. PICK n \in Nat : DOMAIN media = 1..n
  BY <1>3
<1>5. request.count \in {None, Some(1)} /\ request.response_format \in {None, Some("b64_json")}
  <2>1. \A x : Some(x) # None
    BY DEF Some, None
  <2>. QED
    BY <2>1 DEF GeminiPictureFault
<1>6. drawn = DrawnIn("gemini", reply)
  BY <1>3 DEF DrawnIn
<1>7. /\ DOMAIN drawn = 1..n /\ pictures = [i \in DOMAIN drawn |-> pictures[i]]
      /\ DOMAIN pictures = 1..n /\ pictures = [i \in DOMAIN pictures |-> pictures[i]]
      /\ \A i \in DOMAIN drawn : drawn[i].bytes # None /\ drawn[i].bytes[1] = "png"
      /\ \A i \in DOMAIN drawn : pictures[i].as = "b64_json" /\ pictures[i].of = "png"
  BY <1>3, <1>4 DEF Some, None
<1>8. drawn # <<>>
  <2>1. DOMAIN drawn # {}
    BY <1>1, <1>3
  <2>. HIDE DEF drawn
  <2>. QED
    BY <2>1
<1>. HIDE DEF pictures, drawn
<1>9. Pictured(drawn, pictures, "png")
  BY <1>7 DEF Pictured
<1>10. Shows("gemini", request, reply, WrittenImages(told))
  BY <1>2, <1>6, <1>7, <1>8, <1>9, PicturesWritten
<1>11. Len(pictures) = n
  BY <1>7, IsList
<1>12. Honours("images", "gemini", request, reply, WrittenImages(told))
  BY <1>5, <1>10 DEF Honours
<1>. QED
  BY <1>2, <1>7, <1>11, <1>12 DEF told

-----------------------------------------------------------------------------
(* Speech *)

(* OpenAI's recording holds what its type says, and that was asked for.    *)
LEMMA OpenAISpeaks ==
  ASSUME NEW request, request.format = None \/ \E f : request.format = Some(f),
         OpenAISpeechFault(request) = None,
         NEW model, NEW reply \in OpenAISpeechReplies(OpenAISpeechBody(request)),
         NEW answer, answer = ReadOpenAISpeech(reply, request, model), answer.error = None
  PROVE  \A type, body : Honours("speech", type, request, body, WrittenSpeech(answer.value[1]))
<1>. DEFINE format == Or(request.format, "mp3")
            told == Spoken(SpokenTypes[format], format, model, Absent)
<1>1. reply.audio = Some(format) \/ reply.audio = None
  BY DEF OpenAISpeechReplies, OpenAISpeechBody
<1>2. /\ reply.audio # None
      /\ answer = Answer(Spoken(SpokenTypes[format], reply.audio[1], model, Absent))
  BY AnswersAre DEF ReadOpenAISpeech
<1>3. answer.value[1] = told
  <2>1. reply.audio[1] = format
    BY <1>1, <1>2 DEF Some
  <2>. HIDE DEF format
  <2>. QED
    BY <1>2, <2>1, AnswersAre
<1>4. /\ WrittenSpeech(told).recording = format
      /\ WrittenSpeech(told).content_type = SpokenTypes[format]
  BY DEF WrittenSpeech, Spoken
<1>5. request.format # None => format = request.format[1]
  BY DEF Or
<1>. HIDE DEF told, format
<1>. QED
  BY <1>3, <1>4, <1>5 DEF Honours

(* So does what is made of Gemini's.                                       *)
LEMMA GeminiSpeaks ==
  ASSUME NEW request, GeminiSpeechFault(request) = None,
         NEW model, NEW reply,
         NEW answer, answer = ReadGeminiSpeech(reply, request, model), answer.error = None
  PROVE  \A type, body : Honours("speech", type, request, body, WrittenSpeech(answer.value[1]))
<1>. DEFINE heard == Typed(Or(InlineParts(reply).value, <<>>), "audio")
            format == Or(request.format, "wav")
            shaped == Shape(Head(heard), format)
            served == Or(reply.model, model)
            told == Spoken(shaped.value[1][1], shaped.value[1][2], served, reply.usage)
<1>1. shaped.error = None /\ answer = Answer(told)
  BY AnswersAre DEF ReadGeminiSpeech
<1>2. format \in {"wav", "pcm"}
  BY DEF GeminiSpeechFault, When, None
<1>3. answer.value[1] = told
  <2>. HIDE DEF told
  <2>. QED
    BY <1>1, AnswersAre, SMTT(30)
<1>4. /\ format = "wav" => shaped = Answer(<<"audio/wav", "wav">>)
      /\ format = "pcm" => shaped = Answer(<<"audio/pcm", "pcm">>)
  <2>. HIDE DEF heard
  <2>. QED
    BY <1>1, AnswersAre DEF Shape
<1>5. /\ format = "wav" => shaped.value[1][1] = "audio/wav" /\ shaped.value[1][2] = "wav"
      /\ format = "pcm" => shaped.value[1][1] = "audio/pcm" /\ shaped.value[1][2] = "pcm"
  <2>1. <<"audio/wav", "wav">>[1] = "audio/wav" /\ <<"audio/wav", "wav">>[2] = "wav"
    OBVIOUS
  <2>2. <<"audio/pcm", "pcm">>[1] = "audio/pcm" /\ <<"audio/pcm", "pcm">>[2] = "pcm"
    OBVIOUS
  <2>. HIDE DEF shaped, format
  <2>. QED
    BY <1>4, <2>1, <2>2, AnswersAre
<1>6. shaped.value[1][2] = format /\ shaped.value[1][1] = SpokenTypes[format]
  <2>1. SpokenTypes["wav"] = "audio/wav" /\ SpokenTypes["pcm"] = "audio/pcm"
    BY DEF SpokenTypes
  <2>. HIDE DEF shaped, format
  <2>. QED
    BY <1>2, <1>5, <2>1
<1>7. /\ WrittenSpeech(told).recording = format
      /\ WrittenSpeech(told).content_type = SpokenTypes[format]
  <2>. HIDE DEF shaped, format
  <2>. QED
    BY <1>6 DEF WrittenSpeech, Spoken
<1>8. request.format # None => format = request.format[1]
  BY DEF Or
<1>. HIDE DEF told, format
<1>. QED
  BY <1>3, <1>7, <1>8 DEF Honours

(* The words that were said are what a transcription says.                 *)
LEMMA TextIsSaid ==
  ASSUME NEW request, NEW model, NEW reply \in TranscriptReplies(TranscriptionBody(request)),
         NEW answer, answer = ReadTranscription(reply, request, model), answer.error = None,
         NEW as_text
  PROVE  \A type, body :
           Honours("transcriptions", type, request, body,
                   WrittenTranscription(answer.value[1], as_text))
<1>. DEFINE told == answer.value[1]
<1>1. reply.text = Some("said") \/ reply.text = None
  BY DEF TranscriptReplies
<1>2. reply.text # None /\ told.text = reply.text[1]
  BY AnswersAre DEF ReadTranscription
<1>3. told.text = "said"
  BY <1>1, <1>2 DEF Some
<1>. HIDE DEF told
<1>4. WrittenTranscription(told, as_text).text = "said"
  BY <1>3 DEF WrittenTranscription
<1>. QED
  BY <1>4 DEF Honours, told
-----------------------------------------------------------------------------
(* A body that was read, and what is not at fault with it.                 *)
WellAsked(sends) ==
  sends.sent.read = "object" /\ Faults(sends.endpoint, sends.sent) = <<>>

(* An answer of any vendor's to what was well asked is what was asked for. *)
LEMMA RepliesHonour ==
  ASSUME NEW sends \in Sends, WellAsked(sends),
         NEW type \in {"gemini", "openai"}, Serves(type, KindAt[sends.endpoint]),
         NEW endpoint, endpoint = sends.endpoint,
         NEW sent, sent = sends.sent.body,
         NEW request, request = ReadMedia(endpoint, sent),
         FaultHere(type, endpoint, request) = None,
         NEW target,
         NEW reply \in Replies(type, endpoint, BodyFor(type, endpoint, request), target, Faulty),
         NEW answer, answer = ReadReply(type, endpoint, reply, request, target),
         answer.error = None
  PROVE  Honours(endpoint, type, request, reply.body, WrittenBody(endpoint, sent, answer.value[1]))
<1>. DEFINE body == reply.body
<1>0. SUFFICES Honours(endpoint, type, request, body, WrittenBody(endpoint, sent, answer.value[1]))
  OBVIOUS
<1>1. endpoint \in {"embeddings", "images", "speech", "transcriptions"} /\ Sendable(sends)
  BY MediaAssumption DEF KindAt
<1>2. /\ body \in Bodies(type, endpoint, BodyFor(type, endpoint, request), target)
      /\ answer = ReadBody(type, endpoint, body, request, target)
  <2>1. Success(reply.status) /\ answer = ReadBody(type, endpoint, body, request, target)
    BY AnswersAre DEF ReadReply
  <2>2. \A failed \in Faulty : ~Success(failed[1])
    BY MediaAssumption
  <2>3. CASE \E b \in Bodies(type, endpoint, BodyFor(type, endpoint, request), target) :
               reply = [status |-> 200, retry_after |-> FALSE, body |-> b]
    BY <2>1, <2>3
  <2>4. CASE \E s \in Faulty : reply = [status |-> s[1], retry_after |-> s[2], body |-> None]
    BY <2>1, <2>2, <2>4
  <2>. QED
    BY <2>3, <2>4 DEF Replies
<1>. HIDE DEF body
<1>3. NoModel(sent) \o FaultsAt(endpoint, sent) = <<>>
  BY DEF WellAsked, Faults
<1>4. CASE endpoint = "embeddings"
  <2>1. /\ Embeddable(sent) => ReadInputs(sent) \in Seq(ToSet(ReadInputs(sent)))
        /\ NoModel(sent) \o EmbeddingFaults(sent) = <<>>
    BY <1>1, <1>3, <1>4 DEF Sendable, WellAsked, FaultsAt
  <2>2. request.inputs \in Seq(ToSet(request.inputs)) /\ request.inputs # <<>>
    BY <1>4, <2>1, VectorsAskedFor
  <2>3. BodyFor(type, endpoint, request) = EmbedBody(request)
    BY <1>4 DEF BodyFor
  <2>4. InTheirPlaces(answer.value[1].vectors, request)
    <3>1. CASE type = "openai"
      <4>1. body \in OpenAIEmbedReplies(EmbedBody(request), target)
        BY <1>2, <1>4, <2>3, <3>1 DEF Bodies
      <4>2. answer = ReadOpenAIEmbeddings(body, request, target)
        BY <1>2, <1>4, <3>1 DEF ReadBody
      <4>. QED
        BY <2>2, <4>1, <4>2, OpenAIEmbeds
    <3>2. CASE type = "gemini"
      <4>1. body \in GeminiEmbedReplies(EmbedBody(request), target)
        BY <1>2, <1>4, <2>3, <3>2 DEF Bodies
      <4>2. answer = ReadGeminiEmbeddings(body, request, target)
        BY <1>2, <1>4, <3>2 DEF ReadBody
      <4>. QED
        BY <2>2, <4>1, <4>2, GeminiEmbeds
    <3>. QED
      BY <3>1, <3>2
  <2>5. WrittenBody(endpoint, sent, answer.value[1]).data = answer.value[1].vectors
    BY <1>4 DEF WrittenBody, WrittenEmbeddings
  <2>6. ASSUME NEW told, InTheirPlaces(told.data, request)
        PROVE  Honours(endpoint, type, request, body, told)
    BY <1>4, <2>6 DEF Honours, InTheirPlaces
  <2>. QED
    BY <2>4, <2>5, <2>6
<1>5. CASE endpoint = "images"
  <2>1. WrittenBody(endpoint, sent, answer.value[1]) = WrittenImages(answer.value[1])
    BY <1>5 DEF WrittenBody
  <2>2. CASE type = "openai"
    <3>1. /\ Given(sent, "n") => (sent["n"].is = "number" => sent["n"].n \in Int)
          /\ NoModel(sent) \o ImageFaults(sent) = <<>>
      BY <1>1, <1>3, <1>5 DEF Sendable, WellAsked, FaultsAt
    <3>2. request.count = None \/ (request.count # None /\ request.count[1] \in 1..10)
      BY <1>5, <3>1, PicturesAskedFor
    <3>4. BodyFor(type, endpoint, request) = OpenAIPictureBody(request)
      BY <1>5, <2>2 DEF BodyFor
    <3>5. body \in OpenAIImageReplies(OpenAIPictureBody(request))
      BY <1>2, <1>5, <2>2, <3>4 DEF Bodies
    <3>6. answer = ReadOpenAIPictures(body, request, target)
      BY <1>2, <1>5, <2>2 DEF ReadBody
    <3>. QED
      BY <1>5, <2>1, <2>2, <3>2, <3>5, <3>6, OpenAIDraws
  <2>3. CASE type = "gemini"
    <3>1. GeminiPictureFault(request) = None
      BY <1>5, <2>3 DEF FaultHere
    <3>2. body \in GeminiReplies("image", {"png"})
      BY <1>2, <1>5, <2>3 DEF Bodies
    <3>3. answer = ReadGeminiPictures(body, request, target)
      BY <1>2, <1>5, <2>3 DEF ReadBody
    <3>. QED
      BY <1>5, <2>1, <2>3, <3>1, <3>2, <3>3, GeminiDraws
  <2>. QED
    BY <2>2, <2>3
<1>6. CASE endpoint = "speech"
  <2>1. WrittenBody(endpoint, sent, answer.value[1]) = WrittenSpeech(answer.value[1])
    BY <1>6 DEF WrittenBody
  <2>2. CASE type = "openai"
    <3>1. request.format = None \/ \E f : request.format = Some(f)
      <4>1. request.format = ReadString(sent, "response_format")
        BY <1>6 DEF ReadMedia
      <4>. QED
        BY <4>1 DEF ReadString, When, None, Some
    <3>2. OpenAISpeechFault(request) = None
      BY <1>6, <2>2 DEF FaultHere
    <3>3. BodyFor(type, endpoint, request) = OpenAISpeechBody(request)
      BY <1>6, <2>2 DEF BodyFor
    <3>4. body \in OpenAISpeechReplies(OpenAISpeechBody(request))
      BY <1>2, <1>6, <2>2, <3>3 DEF Bodies
    <3>5. answer = ReadOpenAISpeech(body, request, target)
      BY <1>2, <1>6, <2>2 DEF ReadBody
    <3>. QED
      BY <1>6, <2>1, <3>1, <3>2, <3>4, <3>5, OpenAISpeaks
  <2>3. CASE type = "gemini"
    <3>1. GeminiSpeechFault(request) = None
      BY <1>6, <2>3 DEF FaultHere
    <3>2. answer = ReadGeminiSpeech(body, request, target)
      BY <1>2, <1>6, <2>3 DEF ReadBody
    <3>. QED
      BY <1>6, <2>1, <3>1, <3>2, GeminiSpeaks
  <2>. QED
    BY <2>2, <2>3
<1>7. CASE endpoint = "transcriptions"
  <2>. DEFINE as_text == ReadString(sent, "response_format") = Some("text")
  <2>1. WrittenBody(endpoint, sent, answer.value[1]) = WrittenTranscription(answer.value[1], as_text)
    BY <1>7 DEF WrittenBody
  <2>2. body \in TranscriptReplies(TranscriptionBody(request))
    BY <1>2, <1>7 DEF Bodies, BodyFor
  <2>3. answer = ReadTranscription(body, request, target)
    BY <1>2, <1>7 DEF ReadBody
  <2>. HIDE DEF as_text
  <2>. QED
    BY <1>7, <2>1, <2>2, <2>3, TextIsSaid
<1>. QED
  BY <1>1, <1>4, <1>5, <1>6, <1>7

-----------------------------------------------------------------------------
(* The calls *)

(* A call whose name was resolved was well asked, and its answer is what   *)
(* was asked for.                                                          *)
AsAsked(entry) ==
  /\ entry.plan # None => WellAsked(entry.sends)
  /\ entry.how = "answered" =>
       Honours(entry.sends.endpoint, Built[entry.billed[1].provider].type,
               ReadMedia(entry.sends.endpoint, entry.sends.sent.body), entry.billed[1].replied,
               entry.answer[1].body)

(* The inductive invariant, beside that of Bills.                          *)
AnswersInv == \A n \in 1..Number : AsAsked(log[n])

(* An entry that is no answer says as much of what was asked as before.    *)
LEMMA EntrySays ==
  ASSUME NEW entry, AsAsked(entry), NEW e, e.sends = entry.sends, e.plan = entry.plan,
         e.how # "answered"
  PROVE  AsAsked(e)
BY DEF AsAsked

(* The entry of the call is the only one there is something to say of.     *)
LEMMA OneEntryChanges ==
  ASSUME IInv, AnswersInv, call.phase # "idle",
         NEW e, log' = [log EXCEPT ![Number] = e], AsAsked(e)
  PROVE  AnswersInv'
<1>1. Number \in 1..Number /\ MediaShape
  BY CallFacts DEF IInv, CallInv
<1>2. /\ Number' = Number /\ log'[Number] = e
      /\ \A n \in 1..Number : n # Number => log'[n] = log[n]
  BY <1>1, EntryReplaced
<1>3. \A n \in 1..Number' : AsAsked(log'[n])
  BY <1>2 DEF AnswersInv
<1>. QED
  BY <1>3 DEF AnswersInv, AsAsked, WellAsked

(* Nothing to say where the log stays.                                     *)
LEMMA LogStays ==
  ASSUME AnswersInv, UNCHANGED log
  PROVE  AnswersInv'
<1>1. Number' = Number
  BY DEF Number
<1>2. \A n \in 1..Number' : AsAsked(log'[n])
  BY <1>1 DEF AnswersInv
<1>. QED
  BY <1>2 DEF AnswersInv, AsAsked, WellAsked

(* The call that is open is not answered yet, and was well asked.          *)
LEMMA CallIsAsked ==
  ASSUME IInv, AnswersInv, call.phase # "idle"
  PROVE  /\ AsAsked(log[Number]) /\ EntryOK(log[Number]) /\ log[Number].how = "open"
         /\ DOMAIN log[Number] = {"sends", "plan", "tries", "how", "answer", "billed"}
         /\ log[Number].sends = call.sends[1] /\ call.sends[1] \in Sends
         /\ WellAsked(call.sends[1])
<1>1. /\ Number \in 1..Number /\ EntryOK(log[Number]) /\ log[Number].how = "open"
      /\ log[Number].plan = call.plan /\ call.plan # None
      /\ log[Number].sends = call.sends[1]
  BY CallFacts DEF IInv, CallInv
<1>2. AsAsked(log[Number])
  BY <1>1 DEF AnswersInv
<1>3. log[Number].sends \in Sends /\ WellAsked(log[Number].sends)
  BY <1>1, <1>2 DEF AsAsked, EntryOK
<1>. QED
  BY <1>1, <1>2, <1>3 DEF EntryOK

(* A call that comes in is begun only when nothing is at fault with it.    *)
LEMMA AskedWell ==
  ASSUME IInv, AnswersInv, NEW sends \in Sends, Arrive(sends)
  PROVE  AnswersInv'
<1>. DEFINE entry == [sends |-> sends, plan |-> None, tries |-> <<>>, how |-> "turned away",
                      answer |-> None, billed |-> None]
            plan == ResolveMedia(AskedModel(sends.sent), KindAt[sends.endpoint]).plan
            unread == [entry EXCEPT !.how = "unread"]
            open == [entry EXCEPT !.how = "open", !.plan = plan]
            n == Number + 1
<1>1. PICK e : /\ log' = Append(log, e)
               /\ e = unread \/ e = entry \/ (e = open /\ WellAsked(sends))
  <2>1. Faults(sends.endpoint, sends.sent) = <<>> => sends.sent.read = "object"
    <3>1. <<"body">> # <<>>
      OBVIOUS
    <3>. QED
      BY <3>1 DEF Faults
  <2>. HIDE DEF plan
  <2>. QED
    BY <2>1 DEF Arrive, WellAsked, plan
<1>2. AsAsked(e)
  <2>1. /\ unread.plan = None /\ unread.how = "unread"
        /\ entry.plan = None /\ entry.how = "turned away"
        /\ open.sends = sends /\ open.how = "open"
    OBVIOUS
  <2>. HIDE DEF unread, entry, open
  <2>. QED
    BY <1>1, <2>1 DEF AsAsked
<1>3. Number \in Nat /\ log \in Seq(ToSet(log)) /\ Number = Len(log) /\ Number' = Len(log')
  BY LenProperties DEF IInv, CallInv, MediaShape, Number
<1>4. Number' = n /\ log'[n] = e /\ \A m \in 1..Number : log'[m] = log[m]
  <2>1. log' = Append(log, e)
    BY <1>1
  <2>. HIDE DEF unread, entry, open
  <2>2. /\ Len(Append(log, e)) = Len(log) + 1
        /\ Append(log, e)[Len(log) + 1] = e
        /\ \A m \in 1..Len(log) : Append(log, e)[m] = log[m]
    BY <1>3, Longer
  <2>. QED
    BY <1>3, <2>1, <2>2
<1>5. \A m \in 1..Number' : AsAsked(log'[m])
  <2>1. \A m \in 1..n : m \in 1..Number \/ m = n
    BY <1>3
  <2>. QED
    BY <1>2, <1>4, <2>1 DEF AnswersInv
<1>. QED
  BY <1>5 DEF AnswersInv, AsAsked, WellAsked

(* A call that is closed without an answer.                                *)
LEMMA ClosedIsNoAnswer ==
  ASSUME IInv, AnswersInv, call.phase # "idle",
         NEW entry, AsAsked(entry), DOMAIN entry = DOMAIN log[Number],
         NEW error, error # "answered", Closes(entry, error)
  PROVE  AnswersInv'
<1>. DEFINE e == [entry EXCEPT !.how = error]
<1>1. log' = [log EXCEPT ![Number] = e]
  BY DEF Closes, Ends
<1>2. DOMAIN entry = {"sends", "plan", "tries", "how", "answer", "billed"}
  BY CallIsAsked
<1>3. e.sends = entry.sends /\ e.plan = entry.plan /\ e.how = error
  BY <1>2
<1>. HIDE DEF e
<1>4. AsAsked(e)
  BY <1>3, EntrySays
<1>. QED
  BY <1>1, <1>4, OneEntryChanges

(* A try that fails leaves what was asked as it was.                       *)
LEMMA FailedIsNoAnswer ==
  ASSUME IInv, AnswersInv, call.phase # "idle", NEW error, NEW after, Fall(error, after)
  PROVE  AnswersInv'
<1>. DEFINE entry == log[Number]
            e == WithFailure(entry, error)
            refused == [e EXCEPT !.how = "refused"]
<1>1. \/ log' = [log EXCEPT ![Number] = refused]
      \/ log' = [log EXCEPT ![Number] = e]
      \/ Closes(e, "timeout")
  BY DEF Fall, WithFailure, Ends
<1>2. /\ AsAsked(entry) /\ entry.how = "open"
      /\ DOMAIN entry = {"sends", "plan", "tries", "how", "answer", "billed"}
  BY CallIsAsked
<1>3. /\ DOMAIN e = DOMAIN entry /\ e.sends = entry.sends /\ e.plan = entry.plan
      /\ e.how = "open"
  BY <1>2 DEF WithFailure
<1>4. refused.sends = entry.sends /\ refused.plan = entry.plan /\ refused.how = "refused"
  <2>. HIDE DEF e
  <2>. QED
    BY <1>2, <1>3
<1>. HIDE DEF e, refused
<1>5. AsAsked(e)
  <2>. HIDE DEF entry
  <2>. QED
    BY <1>2, <1>3, EntrySays
<1>6. AsAsked(refused)
  <2>. HIDE DEF entry
  <2>. QED
    BY <1>2, <1>4, EntrySays
<1>7. CASE Closes(e, "timeout")
  BY <1>3, <1>5, <1>7, ClosedIsNoAnswer
<1>8. CASE log' = [log EXCEPT ![Number] = refused]
  BY <1>6, <1>8, OneEntryChanges
<1>9. CASE log' = [log EXCEPT ![Number] = e]
  BY <1>5, <1>9, OneEntryChanges
<1>. QED
  BY <1>1, <1>7, <1>8, <1>9

(* A reply that can be read is what was asked for.                         *)
LEMMA AnswerIsAsAsked ==
  ASSUME IInv, AnswersInv, NEW took \in Took, Respond(took)
  PROVE  AnswersInv'
<1>. DEFINE sends == call.sends[1]
            sent == sends.sent.body
            type == Provider.type
            reading(reply) == ReadReply(type, Endpoint, reply, Request, Target)
<1>1. /\ call.phase = "sent" /\ FaultHere(type, Endpoint, Request) = None
      /\ call.phase # "idle"
  BY DEF Respond
<1>2. PICK reply \in Replies(type, Endpoint, BodyFor(type, Endpoint, Request), Target, Faulty) :
        Hear(reading(reply), reply, took)
  BY DEF Respond
<1>3. CASE reading(reply).error # None
  BY <1>1, <1>2, <1>3, FailedIsNoAnswer DEF Hear
<1>4. CASE reading(reply).error = None
  <2>. DEFINE answer == reading(reply)
              told == answer.value[1]
              units == Produced(Endpoint, Request, told)
              cost == CostWith(Provider, Target, told.model, told.usage, units)
              body == WrittenBody(Endpoint, sent, told)
              whole == WithHeaders(body, RouteName, call.tries, call.fell, cost)
              bill == [provider |-> Split[RouteName].provider, target |-> Target,
                       served |-> told.model, replied |-> reply.body,
                       consumed |-> Consumed(Endpoint, Request, told),
                       reported |-> [tokens |-> told.usage, units |-> units]]
              e == [log[Number] EXCEPT !.how = "answered", !.answer = Some(whole),
                                       !.billed = Some(bill)]
  <2>1. log' = [log EXCEPT ![Number] = e]
    BY <1>2, <1>4 DEF Hear, Succeed, Ends
  <2>2. /\ AsAsked(log[Number]) /\ log[Number].sends = sends /\ sends \in Sends
        /\ WellAsked(sends)
        /\ DOMAIN log[Number] = {"sends", "plan", "tries", "how", "answer", "billed"}
    BY <1>1, CallIsAsked
  <2>3. type \in {"gemini", "openai"} /\ Serves(type, KindAt[sends.endpoint])
    <3>1. MayBeAsked(call) /\ Serves(type, KindAt[Endpoint])
      BY <1>1, SentIs DEF IInv
    <3>2. type \in {"anthropic", "gemini", "openai"}
      BY <3>1, MediaAssumption, Zenon DEF MayBeAsked, RouteAt, Provider, RouteName, Chosen
    <3>3. type # "anthropic"
      BY <3>1 DEF Serves
    <3>. QED
      BY <3>1, <3>2, <3>3 DEF Endpoint
  <2>4. Honours(Endpoint, type, Request, reply.body, body)
    <3>1. /\ Endpoint = sends.endpoint /\ Request = ReadMedia(Endpoint, sent)
          /\ sent = sends.sent.body /\ answer.error = None
          /\ answer = ReadReply(type, Endpoint, reply, Request, Target)
      BY <1>4 DEF Endpoint, Request
    <3>2. reply \in Replies(type, Endpoint, BodyFor(type, Endpoint, Request), Target, Faulty)
      OBVIOUS
    <3>. HIDE DEF answer, type, sends, sent
    <3>. QED
      BY <1>1, <2>2, <2>3, <3>1, <3>2, RepliesHonour
  <2>5. /\ e.sends = sends /\ e.plan = log[Number].plan /\ e.how = "answered"
        /\ e.answer = Some(whole) /\ e.billed = Some(bill)
    <3>. HIDE DEF whole, bill
    <3>. QED
      BY <2>2
  <2>6. /\ whole.body = body /\ bill.replied = reply.body
        /\ Built[bill.provider].type = type
    BY DEF WithHeaders, Provider
  <2>. HIDE DEF e, whole, body, bill, type
  <2>7. /\ e.answer[1].body = body /\ e.billed[1].replied = reply.body
        /\ Built[e.billed[1].provider].type = type
    BY <2>5, <2>6 DEF Some
  <2>8. AsAsked(e)
    BY <2>2, <2>4, <2>5, <2>7 DEF AsAsked, Endpoint, Request
  <2>. QED
    BY <1>1, <2>1, <2>8, OneEntryChanges
<1>. QED
  BY <1>3, <1>4

(* A step of the call that is being served.                                *)
LEMMA ServedAsAsked ==
  ASSUME IInv, AnswersInv, Serve
  PROVE  AnswersInv'
<1>1. CASE PassOver \/ NoEndpoint \/ TakeUp \/ \E late \in Late : Wake(late)
  BY <1>1, LogStays DEF PassOver, NoEndpoint, TakeUp, Wake
<1>2. CASE TooLate
  <2>1. call.phase # "idle" /\ Closes(log[Number], "timeout")
    BY <1>2 DEF TooLate
  <2>2. AsAsked(log[Number])
    BY <2>1, CallIsAsked
  <2>. QED
    BY <2>1, <2>2, ClosedIsNoAnswer
<1>3. CASE GiveUp
  <2>. DEFINE error == Or(call.last, "unsupported")
  <2>1. call.phase # "idle" /\ Closes(log[Number], error)
    BY <1>3 DEF GiveUp
  <2>2. AsAsked(log[Number])
    BY <2>1, CallIsAsked
  <2>3. error # "answered"
    <3>1. call.last \in Options(Errors)
      BY CallHas DEF IInv, CallInv, MediaShape
    <3>2. "answered" \notin Errors
      BY DEF Errors, CodeOf
    <3>. QED
      BY <3>1, <3>2, OptionIs DEF Or
  <2>. HIDE DEF error
  <2>. QED
    BY <2>1, <2>2, <2>3, ClosedIsNoAnswer
<1>4. CASE Begin
  <2>. DEFINE try == [route |-> call.at, at |-> call.elapsed, failed |-> None]
              e == Tried(log[Number], try)
  <2>1. call.phase # "idle" /\ log' = [log EXCEPT ![Number] = e]
    BY <1>4 DEF Begin
  <2>2. /\ AsAsked(log[Number]) /\ log[Number].how = "open"
        /\ DOMAIN log[Number] = {"sends", "plan", "tries", "how", "answer", "billed"}
    BY <2>1, CallIsAsked
  <2>3. e.sends = log[Number].sends /\ e.plan = log[Number].plan /\ e.how = "open"
    <3>. HIDE DEF try
    <3>. QED
      BY <2>2 DEF Tried
  <2>. HIDE DEF e
  <2>4. AsAsked(e)
    BY <2>2, <2>3, EntrySays
  <2>. QED
    BY <2>1, <2>4, OneEntryChanges
<1>5. CASE Leave
  <2>. DEFINE e == [log[Number] EXCEPT !.how = "left"]
  <2>1. call.phase # "idle" /\ log' = [log EXCEPT ![Number] = e]
    BY <1>5 DEF Leave, Ends
  <2>2. /\ AsAsked(log[Number])
        /\ DOMAIN log[Number] = {"sends", "plan", "tries", "how", "answer", "billed"}
    BY <2>1, CallIsAsked
  <2>3. e.sends = log[Number].sends /\ e.plan = log[Number].plan /\ e.how = "left"
    BY <2>2
  <2>. HIDE DEF e
  <2>4. AsAsked(e)
    BY <2>2, <2>3, EntrySays
  <2>. QED
    BY <2>1, <2>4, OneEntryChanges
<1>6. CASE RefusedHere
  <2>1. call.phase # "idle"
        /\ Fall(FaultHere(Provider.type, Endpoint, Request)[1], call)
    BY <1>6 DEF RefusedHere
  <2>. QED
    BY <2>1, FailedIsNoAnswer
<1>7. ASSUME NEW error \in {"timeout", "transient"}, NEW took \in Took, Unreached(error, took)
      PROVE  AnswersInv'
  <2>1. call.phase # "idle" /\ Fall(error, [call EXCEPT !.elapsed = @ + took])
    BY <1>7 DEF Unreached
  <2>. QED
    BY <2>1, FailedIsNoAnswer
<1>8. ASSUME NEW took \in Took, Respond(took) PROVE AnswersInv'
  BY <1>8, AnswerIsAsAsked
<1>. QED
  BY <1>1, <1>2, <1>3, <1>4, <1>5, <1>6, <1>7, <1>8 DEF Serve

(* Every step keeps it.                                                    *)
LEMMA NextAnswersInv ==
  IInv /\ AnswersInv /\ [Next]_allVars => AnswersInv'
<1>. SUFFICES ASSUME IInv, AnswersInv, [Next]_allVars PROVE AnswersInv'
  OBVIOUS
<1>1. ASSUME NEW sends \in Sends, Arrive(sends) PROVE AnswersInv'
  BY <1>1, AskedWell
<1>2. CASE MediaStep
  BY <1>2, ServedAsAsked DEF MediaStep
<1>3. CASE UNCHANGED log
  BY <1>3, LogStays
<1>. QED
  BY <1>1, <1>2, <1>3 DEF Next, ChatCall, allVars, vars

(* Nothing was asked yet.                                                  *)
LEMMA InitAnswersInv ==
  Init => AnswersInv
<1>1. 1..0 = {} /\ Len(<<>>) = 0
  OBVIOUS
<1>. QED
  BY <1>1 DEF Init, MediaInit, AnswersInv, Number

(* An answer is what was asked for as far as the readers see to it,        *)
(* whatever the vendors send and whichever provider it fell through to: a  *)
(* vector for each input in its place, the first of the width asked for;   *)
(* every picture the vendor sent, as it came and typed as what it is unless*)
(* nothing told; speech that holds what its type says; and the words that  *)
(* were said (the readers of embed.rs, image.rs, audio.rs and              *)
(* gemini/media.rs, and the writers of media.rs).                          *)
THEOREM AnswersWhatWasAskedTheorem ==
  Spec => []AnswersWhatWasAsked
<1>1. Spec => []AnswersInv
  BY IInvHolds, InitAnswersInv, NextAnswersInv, PTL DEF Spec
<1>2. IInv /\ AnswersInv => AnswersWhatWasAsked
  <2>1. IInv => DOMAIN log = 1..Number
    BY LenProperties DEF IInv, CallInv, MediaShape, Number
  <2>. QED
    BY <2>1 DEF AnswersInv, AsAsked, AnswersWhatWasAsked
<1>. QED
  BY <1>1, <1>2, IInvHolds, PTL

(***************************************************************************)
(* Part 3.  A call keeps the promise of RequestPromise: for any names,     *)
(* plans and providers, and whatever the clients, the vendors and the      *)
(* deadline do.                                                            *)
(***************************************************************************)

-----------------------------------------------------------------------------
(* What is left of a promise *)

(* The routes of a plan are a list.                                        *)
LEMMA PlansList ==
  ASSUME NEW plan \in Plans
  PROVE  DOMAIN plan.routes = 1..Len(plan.routes) /\ Len(plan.routes) \in Nat
<1>1. CASE plan \in {Plan(MediaRoutes(Sets[s]), Sets[s].attempts, Sets[s].deadline,
                         Sets[s].on_device) : s \in DOMAIN Sets}
  <2>1. PICK s \in DOMAIN Sets : plan = Plan(MediaRoutes(Sets[s]), Sets[s].attempts,
                                            Sets[s].deadline, Sets[s].on_device)
    BY <1>1
  <2>2. Sets[s].routes \in Seq(ToSet(Sets[s].routes))
    BY MediaAssumption
  <2>3. MediaRoutes(Sets[s]) \in Seq(ToSet(Sets[s].routes))
    <3>. DEFINE S == {r \in DOMAIN Split \cap DOMAIN Enabled :
                        /\ Split[r].provider \in DOMAIN Built
                        /\ Enabled[r] = SetKind(Sets[s])
                        /\ Serves(Built[Split[r].provider].type, Enabled[r])}
    <3>1. MediaRoutes(Sets[s]) = Only(Sets[s].routes, S)
      BY DEF MediaRoutes
    <3>. HIDE DEF S
    <3>. QED
      BY <2>2, <3>1, OnlyIsList
  <2>4. plan.routes = MediaRoutes(Sets[s])
    BY <2>1 DEF Plan
  <2>. QED
    BY <2>3, <2>4, LenProperties
<1>2. CASE plan \in {Plan(<<m>>, 2, None, FALSE) : m \in DOMAIN Enabled}
  <2>1. PICK m \in DOMAIN Enabled : plan.routes = <<m>>
    BY <1>2 DEF Plan
  <2>2. <<m>> \in Seq({m}) /\ Len(<<m>>) = 1
    OBVIOUS
  <2>. QED
    BY <2>1, <2>2, LenProperties
<1>. QED
  BY <1>1, <1>2 DEF Plans

(* The routes from one on, and those after it.                             *)
From(wish, k) == {at \in wish.routes : at >= k}
After(wish, k) == {at \in wish.routes : at > k}

(* The route at hand is the one between them.                             *)
LEMMA RoutesLeft ==
  ASSUME NEW wish, wish.routes \subseteq Nat, NEW k \in Nat
  PROVE  /\ From(wish, k + 1) = After(wish, k) /\ From(wish, k) \ {k} = After(wish, k)
         /\ k \in wish.routes => k \in From(wish, k)
         /\ 0 \notin wish.routes => From(wish, 1) = wish.routes
<1>1. \A at \in Nat : (at >= k + 1 <=> at > k) /\ (at >= k /\ at # k <=> at > k) /\ k >= k
                      /\ (at # 0 => at >= 1)
  OBVIOUS
<1>2. From(wish, k + 1) = After(wish, k) /\ From(wish, k) \ {k} = After(wish, k)
  BY <1>1 DEF From, After
<1>. QED
  BY <1>1, <1>2 DEF From

(* A promise to choose, *)
LEMMA ChoosingHas ==
  ASSUME NEW wish, NEW c
  PROVE  /\ Choosing(wish, c).phase = "choosing" /\ Choosing(wish, c).wish = wish
         /\ Choosing(wish, c).left = From(wish, c.at)
         /\ Choosing(wish, c) = Abstract!Choosing(wish, From(wish, c.at))
BY DEF Choosing, From, Abstract!Choosing

(* and one that is being asked.                                            *)
LEMMA AskingHas ==
  ASSUME NEW wish, NEW c, NEW times
  PROVE  /\ Asking(wish, c, times).phase = "asking" /\ Asking(wish, c, times).wish = wish
         /\ Asking(wish, c, times).left = After(wish, c.at)
         /\ Asking(wish, c, times).at = c.at /\ Asking(wish, c, times).times = times
         /\ Asking(wish, c, times) = Abstract!Asking(wish, After(wish, c.at), c.at, times)
BY DEF Asking, After, Abstract!Asking

(* What is in hand, by the phase of the call.                              *)
LEMMA InHandIs ==
  ASSUME NEW wish, NEW c
  PROVE  /\ c.phase = "choosing" => InHand(wish, c) = Choosing(wish, c)
         /\ c.phase = "asking" /\ c.attempt = 1 => InHand(wish, c) = Choosing(wish, c)
         /\ c.phase = "asking" /\ c.attempt # 1 =>
              InHand(wish, c) = Asking(wish, c, c.attempt - 1)
         /\ c.phase \in {"sent", "waiting"} => InHand(wish, c) = Asking(wish, c, c.attempt)
BY DEF InHand

(* What is promised of a call, by what became of it.                       *)
LEMMA PromiseIs ==
  ASSUME NEW entry, NEW c
  PROVE  /\ entry.how = "open" => Promise(entry, c) = InHand(WishFor[entry.sends], c)
         /\ entry.how = "answered" => Promise(entry, c) = Abstract!Over(Last(entry.tries).route)
         /\ entry.how \notin {"open", "answered"} => Promise(entry, c) = Abstract!Over(0)
BY DEF Promise, Abstract!Over

-----------------------------------------------------------------------------
(* The inductive invariant, beside that of Bills *)

(* The plan of a call is the one its name resolves to, and only the call   *)
(* that is being served is open,                                           *)
PlannedFor(entry) ==
  entry.plan # None => entry.sends \in Planned /\ entry.plan = PlanFor[entry.sends]
PlansInv ==
  /\ \A n \in 1..Number : PlannedFor(log[n])
  /\ \A n \in 1..Number : log[n].how = "open" => n = Number /\ call.phase # "idle"

(* and the route it asks is one of its plan's.                             *)
PlaceInv == call.phase \in {"asking", "sent", "waiting"} => call.at <= Len(Chosen.routes)

(* What a name that gives a plan says of the call.                         *)
LEMMA CallResolves ==
  ASSUME NEW sends \in Sends, ResolveMedia(AskedModel(sends.sent), KindAt[sends.endpoint]).plan # None
  PROVE  sends \in Planned
         /\ PlanFor[sends] = ResolveMedia(AskedModel(sends.sent), KindAt[sends.endpoint]).plan
BY DEF Planned, PlanFor

(* Nothing was planned yet.                                                *)
LEMMA InitPlansInv ==
  Init => PlansInv /\ PlaceInv
<1>1. 1..0 = {} /\ Len(<<>>) = 0
  OBVIOUS
<1>. QED
  BY <1>1 DEF Init, MediaInit, PlansInv, PlaceInv, Number, Idle

(* An entry that keeps its plan.                                           *)
LEMMA EntryKeepsPlan ==
  ASSUME IInv, PlansInv, call.phase # "idle",
         NEW e, log' = [log EXCEPT ![Number] = e],
         e.sends = log[Number].sends, e.plan = log[Number].plan,
         e.how = "open" => call'.phase # "idle"
  PROVE  PlansInv'
<1>1. Number \in 1..Number /\ MediaShape
  BY CallFacts DEF IInv, CallInv
<1>2. /\ Number' = Number /\ log'[Number] = e
      /\ \A n \in 1..Number : n # Number => log'[n] = log[n]
  BY <1>1, EntryReplaced
<1>3. PlannedFor(log[Number])
  BY <1>1 DEF PlansInv
<1>4. PlannedFor(e)
  BY <1>3 DEF PlannedFor
<1>5. \A n \in 1..Number' : PlannedFor(log'[n])
  BY <1>2, <1>4 DEF PlansInv
<1>6. \A n \in 1..Number' : log'[n].how = "open" => n = Number' /\ call'.phase # "idle"
  BY <1>2 DEF PlansInv
<1>. QED
  BY <1>5, <1>6 DEF PlansInv, PlannedFor

-----------------------------------------------------------------------------
(* What a step makes of the call *)

(* The entry of the call is the one that changes, and keeps its plan.      *)
EntryBecomes(e) ==
  /\ log' = [log EXCEPT ![Number] = e]
  /\ e.sends = log[Number].sends /\ e.plan = log[Number].plan

(* The call goes on, or ends, with an answer or without.                   *)
GoesOn(phase, at, attempt) ==
  /\ call'.phase = phase /\ call'.at = at /\ call'.attempt = attempt /\ call'.plan = call.plan
  /\ \E e : EntryBecomes(e) /\ e.how = "open"
EndsWith ==
  call'.phase = "idle" /\ \E e : EntryBecomes(e) /\ e.how = "answered" /\ Last(e.tries).route = call.at
EndsWithout ==
  call'.phase = "idle" /\ \E e : EntryBecomes(e) /\ e.how \notin {"open", "answered"}

HasRoute == call.at <= Len(Chosen.routes)
NextTurn == GoesOn("choosing", call.at + 1, 0)

(* What may come of a call, phase by phase.                                *)
WhileChoosing ==
  call.phase = "choosing" /\ HasRoute /\ (NextTurn \/ GoesOn("asking", call.at, 1))
WhileAsking ==
  /\ call.phase = "asking"
  /\ \/ NextTurn
     \/ GoesOn("sent", call.at, call.attempt) /\ Serves(Provider.type, KindAt[Endpoint])
WhileSent ==
  call.phase = "sent" /\ (NextTurn \/ GoesOn("waiting", call.at, call.attempt) \/ EndsWith)
WhileWaiting == call.phase = "waiting" /\ GoesOn("asking", call.at, call.attempt + 1)

Course ==
  call.phase # "idle" /\ (WhileChoosing \/ WhileAsking \/ WhileSent \/ WhileWaiting \/ EndsWithout)

(* The entry that stays as it is.                                          *)
LEMMA SameEntry ==
  ASSUME IInv, call.phase # "idle", log' = log
  PROVE  \E e : EntryBecomes(e) /\ e.how = "open"
<1>. DEFINE e == log[Number]
<1>1. log \in Seq(ToSet(log))
  BY DEF IInv, CallInv, MediaShape
<1>2. log = [log EXCEPT ![Number] = e]
  <2>1. log = [i \in DOMAIN log |-> log[i]]
    BY <1>1
  <2>. QED
    BY <2>1
<1>3. e.how = "open"
  BY CallFacts DEF IInv, CallInv
<1>. HIDE DEF e
<1>4. e.sends = log[Number].sends /\ e.plan = log[Number].plan
  BY DEF e
<1>. QED
  BY <1>2, <1>3, <1>4 DEF EntryBecomes

(* A route that is passed over or that was given up.                       *)
LEMMA TurnsPass ==
  ASSUME NEW c, DOMAIN c = CallFields, c.at = call.at, c.plan = call.plan, Steps(NextRoute(c)),
         \E e : EntryBecomes(e) /\ e.how = "open"
  PROVE  NextTurn
<1>1. /\ NextRoute(c).phase = "choosing" /\ NextRoute(c).at = call.at + 1
      /\ NextRoute(c).attempt = 0 /\ NextRoute(c).plan = call.plan
  BY DEF NextRoute, CallFields
<1>. QED
  BY <1>1 DEF NextTurn, GoesOn, Steps

(* A call that is closed.                                                  *)
LEMMA ClosingEnds ==
  ASSUME NEW entry, DOMAIN entry = {"sends", "plan", "tries", "how", "answer", "billed"},
         entry.sends = log[Number].sends, entry.plan = log[Number].plan,
         NEW error \in Errors, Closes(entry, error)
  PROVE  EndsWithout
<1>. DEFINE e == [entry EXCEPT !.how = error]
<1>1. call' = Idle /\ log' = [log EXCEPT ![Number] = e]
  BY DEF Closes, Ends
<1>2. e.sends = entry.sends /\ e.plan = entry.plan /\ e.how = error
  OBVIOUS
<1>3. error \notin {"open", "answered"}
  BY DEF Errors, CodeOf
<1>. HIDE DEF e
<1>. QED
  BY <1>1, <1>2, <1>3, IdleIs DEF EndsWithout, EntryBecomes

(* What a failure comes to: the next route, a wait, or the end.            *)
LEMMA FailureComesTo ==
  ASSUME IInv, call.phase = "sent", NEW error, NEW after, DOMAIN after = CallFields,
         after.at = call.at, after.attempt = call.attempt, after.plan = call.plan,
         Fall(error, after)
  PROVE  NextTurn \/ GoesOn("waiting", call.at, call.attempt) \/ EndsWithout
<1>. DEFINE entry == log[Number]
            e == WithFailure(entry, error)
            refused == [e EXCEPT !.how = "refused"]
            fallen == [after EXCEPT !.fell = @ + 1, !.last = Some(error)]
            waiting(w) == [fallen EXCEPT !.phase = "waiting", !.wait = w]
<1>1. \/ Ends(refused, Some(RefusedRow(Number, Asked)))
      \/ Steps(NextRoute(fallen)) /\ log' = [log EXCEPT ![Number] = e]
      \/ \E w \in Policy(Chosen.attempts)!WaitsBefore(after.attempt + 1, error) :
           \/ Closes(e, "timeout")
           \/ Steps(waiting(w)) /\ log' = [log EXCEPT ![Number] = e]
  BY DEF Fall, WithFailure
<1>2. /\ DOMAIN entry = {"sends", "plan", "tries", "how", "answer", "billed"}
      /\ entry.how = "open"
  BY CallFacts DEF IInv, CallInv, EntryOK
<1>3. /\ DOMAIN e = DOMAIN entry /\ e.sends = entry.sends /\ e.plan = entry.plan
      /\ e.how = "open"
  BY <1>2 DEF WithFailure
<1>4. refused.sends = entry.sends /\ refused.plan = entry.plan /\ refused.how = "refused"
  <2>. HIDE DEF e
  <2>. QED
    BY <1>2, <1>3
<1>5. DOMAIN fallen = CallFields /\ fallen.at = call.at /\ fallen.plan = call.plan
      /\ fallen.attempt = call.attempt
  BY DEF CallFields
<1>6. \A w : /\ waiting(w).phase = "waiting" /\ waiting(w).at = call.at
             /\ waiting(w).plan = call.plan /\ waiting(w).attempt = call.attempt
  <2>. HIDE DEF fallen
  <2>. QED
    BY <1>5 DEF CallFields
<1>. HIDE DEF e, refused, fallen, waiting
<1>7. log' = [log EXCEPT ![Number] = e] => \E x : EntryBecomes(x) /\ x.how = "open"
  BY <1>3 DEF EntryBecomes
<1>8. CASE Ends(refused, Some(RefusedRow(Number, Asked)))
  BY <1>4, <1>8, IdleIs DEF Ends, EndsWithout, EntryBecomes
<1>9. CASE Steps(NextRoute(fallen)) /\ log' = [log EXCEPT ![Number] = e]
  BY <1>5, <1>7, <1>9, TurnsPass
<1>10. CASE Closes(e, "timeout")
  <2>1. "timeout" \in Errors
    BY DEF Errors, CodeOf
  <2>. QED
    BY <1>2, <1>3, <1>10, <2>1, ClosingEnds
<1>11. ASSUME NEW w, Steps(waiting(w)) /\ log' = [log EXCEPT ![Number] = e]
       PROVE  GoesOn("waiting", call.at, call.attempt)
  BY <1>6, <1>7, <1>11 DEF Steps, GoesOn
<1>. QED
  BY <1>1, <1>8, <1>9, <1>10, <1>11, SMTT(30)

(* A request that is out is heard of.                                      *)
LEMMA HeardOf ==
  ASSUME IInv,
         \/ RefusedHere
         \/ \E took \in Took : Respond(took)
         \/ \E error \in {"timeout", "transient"}, took \in Took : Unreached(error, took)
  PROVE  WhileSent \/ EndsWithout
<1>. DEFINE later(took) == [call EXCEPT !.elapsed = @ + took]
<1>1. call.phase = "sent"
  BY DEF RefusedHere, Respond, Unreached
<1>2. DOMAIN call = CallFields
  BY CallHas DEF IInv, CallInv, MediaShape
<1>3. \A took : /\ DOMAIN later(took) = CallFields /\ later(took).at = call.at
                /\ later(took).attempt = call.attempt /\ later(took).plan = call.plan
  BY <1>2 DEF CallFields
<1>. HIDE DEF later
<1>4. ASSUME NEW error, NEW took, Fall(error, later(took)) PROVE WhileSent \/ EndsWithout
  BY <1>1, <1>3, <1>4, FailureComesTo DEF WhileSent
<1>5. CASE RefusedHere
  <2>1. Fall(FaultHere(Provider.type, Endpoint, Request)[1], call)
    BY <1>5 DEF RefusedHere
  <2>. QED
    BY <1>1, <1>2, <2>1, FailureComesTo DEF WhileSent
<1>6. ASSUME NEW error, NEW took, Unreached(error, took) PROVE WhileSent \/ EndsWithout
  BY <1>4, <1>6 DEF Unreached, later
<1>7. ASSUME NEW took \in Took, Respond(took) PROVE WhileSent \/ EndsWithout
  <2>1. PICK result, reply : Hear(result, reply, took)
    BY <1>7 DEF Respond
  <2>2. CASE result.error # None
    BY <1>4, <2>1, <2>2 DEF Hear, later
  <2>3. CASE result.error = None
    <3>1. Succeed(result.value[1], reply, call.tries)
      BY <2>1, <2>3 DEF Hear
    <3>2. PICK answer, bill : /\ call' = Idle
                              /\ log' = [log EXCEPT ![Number] =
                                   [log[Number] EXCEPT !.how = "answered", !.answer = answer,
                                                       !.billed = bill]]
      BY <3>1 DEF Succeed, Ends
    <3>. DEFINE e == [log[Number] EXCEPT !.how = "answered", !.answer = answer, !.billed = bill]
    <3>3. DOMAIN log[Number] = {"sends", "plan", "tries", "how", "answer", "billed"}
      BY <1>1, CallFacts DEF IInv, CallInv, EntryOK
    <3>4. /\ e.sends = log[Number].sends /\ e.plan = log[Number].plan /\ e.how = "answered"
          /\ e.tries = log[Number].tries
      BY <3>3
    <3>. HIDE DEF e
    <3>5. Last(e.tries).route = call.at
      BY <1>1, <3>4, SentIs DEF IInv, Last
    <3>6. EntryBecomes(e)
      BY <3>2, <3>4 DEF EntryBecomes, e
    <3>. QED
      BY <1>1, <3>2, <3>4, <3>5, <3>6, IdleIs DEF WhileSent, EndsWith
  <2>. QED
    BY <2>2, <2>3
<1>. QED
  BY <1>5, <1>6, <1>7

(* Every step of a call takes its course.                                  *)
LEMMA ServedInCourse ==
  ASSUME IInv, Serve
  PROVE  Course
<1>0. /\ DOMAIN call = CallFields
      /\ log' = log /\ call.phase # "idle" => \E e : EntryBecomes(e) /\ e.how = "open"
  BY CallHas, SameEntry DEF IInv, CallInv, MediaShape
<1>1. CASE PassOver \/ NoEndpoint
  <2>. DEFINE c == [call EXCEPT !.fell = @ + 1]
  <2>1. Steps(NextRoute(c)) /\ log' = log /\ call.phase \in {"choosing", "asking"}
        /\ (call.phase = "choosing" => HasRoute)
    BY <1>1 DEF PassOver, NoEndpoint, HasRoute
  <2>2. DOMAIN c = CallFields /\ c.at = call.at /\ c.plan = call.plan
    BY <1>0 DEF CallFields
  <2>. HIDE DEF c
  <2>3. NextTurn
    BY <1>0, <2>1, <2>2, TurnsPass
  <2>. QED
    BY <2>1, <2>3 DEF Course, WhileChoosing, WhileAsking
<1>2. CASE TakeUp
  <2>. DEFINE c == [call EXCEPT !.phase = "asking", !.attempt = 1]
  <2>1. Steps(c) /\ log' = log /\ call.phase = "choosing" /\ HasRoute
    BY <1>2 DEF TakeUp, HasRoute
  <2>2. c.phase = "asking" /\ c.at = call.at /\ c.attempt = 1 /\ c.plan = call.plan
    BY <1>0 DEF CallFields
  <2>. HIDE DEF c
  <2>3. GoesOn("asking", call.at, 1)
    BY <1>0, <2>1, <2>2 DEF GoesOn, Steps
  <2>. QED
    BY <2>1, <2>3 DEF Course, WhileChoosing
<1>3. CASE TooLate \/ GiveUp
  <2>. DEFINE last == Or(call.last, "unsupported")
  <2>1. call.phase # "idle" /\ \E error \in {"timeout", last} : Closes(log[Number], error)
    BY <1>3 DEF TooLate, GiveUp
  <2>2. "timeout" \in Errors /\ last \in Errors
    <3>1. call.last \in Options(Errors)
      BY CallHas DEF IInv, CallInv, MediaShape
    <3>2. "timeout" \in Errors /\ "unsupported" \in Errors
      BY DEF Errors, CodeOf
    <3>. QED
      BY <3>1, <3>2, OptionIs DEF Or
  <2>3. DOMAIN log[Number] = {"sends", "plan", "tries", "how", "answer", "billed"}
    BY <2>1, CallFacts DEF IInv, CallInv, EntryOK
  <2>. HIDE DEF last
  <2>. QED
    BY <2>1, <2>2, <2>3, ClosingEnds DEF Course
<1>4. CASE Begin
  <2>. DEFINE c == [call EXCEPT !.phase = "sent", !.tries = @ + 1]
              try == [route |-> call.at, at |-> call.elapsed, failed |-> None]
              e == Tried(log[Number], try)
  <2>1. /\ Steps(c) /\ log' = [log EXCEPT ![Number] = e] /\ call.phase = "asking"
        /\ Serves(Provider.type, KindAt[Endpoint])
    BY <1>4 DEF Begin
  <2>2. c.phase = "sent" /\ c.at = call.at /\ c.attempt = call.attempt /\ c.plan = call.plan
    BY <1>0 DEF CallFields
  <2>3. e.sends = log[Number].sends /\ e.plan = log[Number].plan /\ e.how = "open"
    <3>1. /\ DOMAIN log[Number] = {"sends", "plan", "tries", "how", "answer", "billed"}
          /\ log[Number].how = "open"
      BY <2>1, CallFacts DEF IInv, CallInv, EntryOK
    <3>. HIDE DEF try
    <3>. QED
      BY <3>1 DEF Tried
  <2>. HIDE DEF c, e
  <2>4. GoesOn("sent", call.at, call.attempt)
    BY <2>1, <2>2, <2>3 DEF GoesOn, Steps, EntryBecomes
  <2>. QED
    BY <2>1, <2>4 DEF Course, WhileAsking
<1>5. ASSUME NEW late \in Late, Wake(late) PROVE Course
  <2>. DEFINE c == [call EXCEPT !.phase = "asking", !.attempt = @ + 1, !.wait = 0,
                                !.elapsed = @ + call.wait + late]
  <2>1. Steps(c) /\ log' = log /\ call.phase = "waiting"
    BY <1>5 DEF Wake
  <2>2. c.phase = "asking" /\ c.at = call.at /\ c.attempt = call.attempt + 1 /\ c.plan = call.plan
    BY <1>0 DEF CallFields
  <2>. HIDE DEF c
  <2>3. GoesOn("asking", call.at, call.attempt + 1)
    BY <1>0, <2>1, <2>2 DEF GoesOn, Steps
  <2>. QED
    BY <2>1, <2>3 DEF Course, WhileWaiting
<1>6. CASE Leave
  <2>. DEFINE e == [log[Number] EXCEPT !.how = "left"]
  <2>1. call.phase # "idle" /\ call' = Idle /\ log' = [log EXCEPT ![Number] = e]
    BY <1>6 DEF Leave, Ends
  <2>2. DOMAIN log[Number] = {"sends", "plan", "tries", "how", "answer", "billed"}
    BY <2>1, CallFacts DEF IInv, CallInv, EntryOK
  <2>3. e.sends = log[Number].sends /\ e.plan = log[Number].plan /\ e.how = "left"
    BY <2>2
  <2>. HIDE DEF e
  <2>. QED
    BY <2>1, <2>3, IdleIs DEF Course, EndsWithout, EntryBecomes
<1>7. CASE \/ RefusedHere
           \/ \E took \in Took : Respond(took)
           \/ \E error \in {"timeout", "transient"}, took \in Took : Unreached(error, took)
  <2>1. call.phase = "sent"
    BY <1>7 DEF RefusedHere, Respond, Unreached
  <2>. QED
    BY <1>7, <2>1, HeardOf DEF Course
<1>. QED
  BY <1>1, <1>2, <1>3, <1>4, <1>5, <1>6, <1>7 DEF Serve

-----------------------------------------------------------------------------
(* Every step keeps the invariant *)

(* A step of the call keeps its plan and its place among the routes.       *)
LEMMA CourseKeepsPlans ==
  ASSUME IInv, PlansInv, PlaceInv, Course
  PROVE  PlansInv' /\ PlaceInv'
<1>1. call.phase # "idle"
  BY DEF Course
<1>2. ASSUME NEW phase, NEW at, NEW attempt, GoesOn(phase, at, attempt), phase # "idle",
             phase \in {"asking", "sent", "waiting"} => at <= Len(Chosen.routes)
      PROVE  PlansInv' /\ PlaceInv'
  <2>1. PlansInv'
    BY <1>1, <1>2, EntryKeepsPlan DEF GoesOn, EntryBecomes
  <2>2. PlaceInv'
    BY <1>2 DEF GoesOn, PlaceInv, Chosen
  <2>. QED
    BY <2>1, <2>2
<1>3. CASE EndsWith \/ EndsWithout
  <2>1. PlansInv'
    BY <1>1, <1>3, EntryKeepsPlan DEF EndsWith, EndsWithout, EntryBecomes
  <2>2. PlaceInv'
    BY <1>3 DEF EndsWith, EndsWithout, PlaceInv
  <2>. QED
    BY <2>1, <2>2
<1>4. CASE NextTurn
  BY <1>2, <1>4 DEF NextTurn
<1>5. CASE WhileChoosing
  BY <1>2, <1>4, <1>5 DEF WhileChoosing, HasRoute
<1>6. CASE WhileAsking \/ WhileSent \/ WhileWaiting
  <2>1. call.at <= Len(Chosen.routes)
    BY <1>6 DEF WhileAsking, WhileSent, WhileWaiting, PlaceInv
  <2>. QED
    BY <1>2, <1>3, <1>4, <1>6, <2>1 DEF WhileAsking, WhileSent, WhileWaiting
<1>. QED
  BY <1>3, <1>5, <1>6 DEF Course

(* A call that comes in: what is logged of it, and what is served.         *)
Comes(sends, e) ==
  /\ log' = Append(log, e) /\ e.sends = sends
  /\ \/ e.plan = None /\ e.how \in {"unread", "turned away"} /\ call'.phase = "idle"
     \/ /\ e.plan # None /\ PlannedFor(e) /\ e.how = "open"
        /\ call'.phase = "choosing" /\ call'.at = 1

(* Whatever is sent comes in one of these ways.                            *)
LEMMA ArrivalComes ==
  ASSUME NEW sends \in Sends, Arrive(sends)
  PROVE  \E e : Comes(sends, e)
<1>. DEFINE entry == [sends |-> sends, plan |-> None, tries |-> <<>>, how |-> "turned away",
                      answer |-> None, billed |-> None]
            found == ResolveMedia(AskedModel(sends.sent), KindAt[sends.endpoint])
            unread == [entry EXCEPT !.how = "unread"]
            open == [entry EXCEPT !.how = "open", !.plan = found.plan]
            begun == [Idle EXCEPT !.phase = "choosing", !.sends = Some(sends),
                                  !.plan = found.plan, !.at = 1]
<1>1. \/ log' = Append(log, unread) /\ call' = Idle
      \/ log' = Append(log, entry) /\ call' = Idle
      \/ log' = Append(log, open) /\ call' = begun /\ found.code = None
  BY DEF Arrive
<1>2. /\ unread.sends = sends /\ unread.plan = None /\ unread.how = "unread"
      /\ entry.sends = sends /\ entry.plan = None /\ entry.how = "turned away"
  OBVIOUS
<1>3. open.sends = sends /\ open.plan = found.plan /\ open.how = "open"
  <2>. HIDE DEF found
  <2>. QED
    OBVIOUS
<1>4. begun.phase = "choosing" /\ begun.at = 1
  <2>. HIDE DEF found
  <2>. QED
    BY DEF Idle
<1>. HIDE DEF unread, entry, open, begun
<1>5. found.code = None => open.plan # None /\ PlannedFor(open)
  BY <1>3, NamesGivePlans, CallResolves DEF PlannedFor
<1>. HIDE DEF found
<1>. QED
  BY <1>1, <1>2, <1>3, <1>4, <1>5, IdleIs DEF Comes

(* What a call that comes in leaves of the log.                            *)
LEMMA LogGrows ==
  ASSUME IInv, NEW e, log' = Append(log, e)
  PROVE  /\ Number \in Nat /\ Number' = Number + 1 /\ log'[Number + 1] = e
         /\ DOMAIN log = 1..Number /\ DOMAIN log' = 1..Number + 1
         /\ \A m \in 1..Number : log'[m] = log[m]
<1>1. log \in Seq(ToSet(log)) /\ Number = Len(log) /\ Number' = Len(log')
  BY DEF IInv, CallInv, MediaShape, Number
<1>2. /\ Len(log) \in Nat /\ DOMAIN log = 1..Len(log) /\ DOMAIN log' = 1..Len(log) + 1
      /\ Len(log') = Len(log) + 1 /\ log'[Len(log) + 1] = e
      /\ \A m \in 1..Len(log) : log'[m] = log[m]
  BY <1>1, Longer
<1>. QED
  BY <1>1, <1>2

(* A call that comes in has the plan of its name.                          *)
LEMMA ArrivalKeepsPlans ==
  ASSUME IInv, PlansInv, call.phase = "idle", NEW sends, NEW e, Comes(sends, e)
  PROVE  PlansInv' /\ PlaceInv'
<1>1. /\ Number \in Nat /\ Number' = Number + 1 /\ log'[Number + 1] = e
      /\ \A m \in 1..Number : log'[m] = log[m]
  BY LogGrows DEF Comes
<1>2. \A m \in 1..Number + 1 : m \in 1..Number \/ m = Number + 1
  BY <1>1
<1>3. PlannedFor(e) /\ (e.how = "open" => call'.phase # "idle")
  BY DEF Comes, PlannedFor
<1>4. \A m \in 1..Number' : PlannedFor(log'[m])
  BY <1>1, <1>2, <1>3 DEF PlansInv
<1>5. \A m \in 1..Number' : log'[m].how = "open" => m = Number' /\ call'.phase # "idle"
  BY <1>1, <1>2, <1>3 DEF PlansInv
<1>6. PlansInv'
  BY <1>4, <1>5 DEF PlansInv, PlannedFor
<1>7. PlaceInv'
  BY DEF Comes, PlaceInv
<1>. QED
  BY <1>6, <1>7

(* Every step keeps both.                                                  *)
LEMMA NextPlansInv ==
  IInv /\ PlansInv /\ PlaceInv /\ [Next]_allVars => PlansInv' /\ PlaceInv'
<1>. SUFFICES ASSUME IInv, PlansInv, PlaceInv, [Next]_allVars PROVE PlansInv' /\ PlaceInv'
  OBVIOUS
<1>1. ASSUME NEW sends \in Sends, Arrive(sends) PROVE PlansInv' /\ PlaceInv'
  <2>1. call.phase = "idle"
    BY <1>1 DEF Arrive
  <2>. QED
    BY <1>1, <2>1, ArrivalComes, ArrivalKeepsPlans
<1>2. CASE MediaStep
  BY <1>2, ServedInCourse, CourseKeepsPlans DEF MediaStep
<1>3. CASE UNCHANGED <<call, log>>
  BY <1>3 DEF PlansInv, PlannedFor, PlaceInv, Number, Chosen
<1>. QED
  BY <1>1, <1>2, <1>3 DEF Next, ChatCall, allVars, vars

-----------------------------------------------------------------------------
(* Every step is a step of the promise, or none *)

(* All the promises, as RequestPromise sees them.                          *)
Promises == [n \in 1..MaxCalls |-> PromiseOf(n, log, call)]

(* What the call being served was promised.                                *)
Wish == WishFor[call.sends[1]]

(* It is what its plan allows.                                             *)
LEMMA WishHas ==
  ASSUME IInv, PlansInv, call.phase # "idle"
  PROVE  /\ Number \in 1..MaxCalls /\ Promises[Number] = InHand(Wish, call)
         /\ Wish.routes = 1..Len(Chosen.routes) /\ Len(Chosen.routes) \in Nat
         /\ Wish.attempts = Chosen.attempts
         /\ Wish.able = {at \in DOMAIN Chosen.routes :
                           CanServe(call.sends[1], Chosen, Chosen.routes[at])}
<1>1. /\ Number \in 1..Number /\ Number \in Nat /\ Number <= MaxCalls /\ MaxCalls \in Nat
      /\ log[Number].how = "open" /\ log[Number].plan = call.plan /\ call.plan # None
      /\ log[Number].sends = call.sends[1] /\ Chosen \in Plans
  BY CallFacts, MediaAssumption DEF IInv, CallInv
<1>2. call.sends[1] \in Planned /\ call.plan = PlanFor[call.sends[1]]
  BY <1>1 DEF PlansInv, PlannedFor
<1>3. DOMAIN Chosen.routes = 1..Len(Chosen.routes) /\ Len(Chosen.routes) \in Nat
  BY <1>1, PlansList
<1>4. Number \in 1..MaxCalls
  BY <1>1
<1>5. Number \in DOMAIN log
  BY <1>1, LenProperties DEF IInv, CallInv, MediaShape, Number
<1>6. Promises[Number] = InHand(Wish, call)
  BY <1>1, <1>4, <1>5, PromiseIs DEF Promises, PromiseOf, Wish
<1>7. Chosen = PlanFor[call.sends[1]][1]
  BY <1>2 DEF Chosen
<1>8. /\ Wish.routes = DOMAIN Chosen.routes /\ Wish.attempts = Chosen.attempts
      /\ Wish.able = {at \in DOMAIN Chosen.routes :
                        CanServe(call.sends[1], Chosen, Chosen.routes[at])}
  BY <1>2, <1>7 DEF Wish, WishFor
<1>. QED
  BY <1>3, <1>4, <1>6, <1>8

(* A step of the call changes its promise alone,                           *)
LEMMA OnePromiseMoves ==
  ASSUME IInv, PlansInv, call.phase # "idle", NEW e, EntryBecomes(e),
         NEW s, s = Promise(e, call')
  PROVE  Abstract!Becomes(Number, s) /\ (s = Promises[Number] => UNCHANGED Promises)
<1>1. /\ Number \in 1..Number /\ Number \in Nat /\ Number <= MaxCalls /\ MaxCalls \in Nat
      /\ MediaShape /\ DOMAIN log = 1..Number
  BY CallFacts, MediaAssumption, LenProperties DEF IInv, CallInv, MediaShape, Number
<1>2. /\ Number' = Number /\ log'[Number] = e /\ DOMAIN log' = DOMAIN log
      /\ \A n \in 1..Number : n # Number => log'[n] = log[n]
  BY <1>1, EntryReplaced DEF EntryBecomes
<1>3. ASSUME NEW n \in 1..MaxCalls
      PROVE  PromiseOf(n, log', call') = IF n = Number THEN s ELSE PromiseOf(n, log, call)
  <2>1. CASE n = Number
    BY <1>1, <1>2, <2>1 DEF PromiseOf
  <2>2. CASE n # Number /\ n \in DOMAIN log
    <3>1. log[n].how # "open" /\ log'[n] = log[n]
      BY <1>1, <1>2, <2>2 DEF PlansInv
    <3>2. Promise(log[n], call') = Promise(log[n], call)
      BY <3>1 DEF Promise
    <3>. QED
      BY <1>2, <2>2, <3>1, <3>2 DEF PromiseOf
  <2>3. CASE n # Number /\ n \notin DOMAIN log
    BY <1>2, <2>3 DEF PromiseOf
  <2>. QED
    BY <2>1, <2>2, <2>3
<1>4. [n \in 1..MaxCalls |-> PromiseOf(n, log', call')] = [Promises EXCEPT ![Number] = s]
  BY <1>3 DEF Promises
<1>5. Promises' = [n \in 1..MaxCalls |-> PromiseOf(n, log', call')]
  BY DEF Promises
<1>6. Promises' = [Promises EXCEPT ![Number] = s]
  BY <1>4, <1>5
<1>7. s = Promises[Number] => Promises' = Promises
  BY <1>6 DEF Promises
<1>. QED
  BY <1>6, <1>7 DEF Abstract!Becomes, Promises

(* and to what is in hand, as long as the call goes on.                    *)
LEMMA HandMoves ==
  ASSUME IInv, PlansInv, call.phase # "idle",
         NEW phase, NEW at, NEW attempt, GoesOn(phase, at, attempt)
  PROVE  /\ Abstract!Becomes(Number, InHand(Wish, call'))
         /\ InHand(Wish, call') = Promises[Number] => UNCHANGED Promises
<1>1. PICK e : EntryBecomes(e) /\ e.how = "open"
  BY DEF GoesOn
<1>2. e.sends = call.sends[1]
  BY <1>1, CallFacts DEF EntryBecomes, IInv, CallInv
<1>3. Promise(e, call') = InHand(Wish, call')
  BY <1>1, <1>2, PromiseIs DEF Wish
<1>. QED
  BY <1>1, <1>3, OnePromiseMoves

(* Of a call that ends without an answer nothing more is promised,         *)
LEMMA FailOne ==
  ASSUME IInv, PlansInv, call.phase # "idle", EndsWithout
  PROVE  Abstract!Fail(Number)
<1>1. PICK e : EntryBecomes(e) /\ e.how \notin {"open", "answered"}
  BY DEF EndsWithout
<1>2. Promise(e, call') = Abstract!Over(0)
  BY <1>1, PromiseIs
<1>3. Abstract!Becomes(Number, Abstract!Over(0))
  BY <1>1, <1>2, OnePromiseMoves
<1>4. Promises[Number].phase # "over"
  <2>1. call.phase \in {"choosing", "asking", "sent", "waiting"}
    BY CallHas DEF IInv, CallInv, MediaShape
  <2>2. InHand(Wish, call).phase # "over"
    BY <2>1, InHandIs, ChoosingHas, AskingHas
  <2>. QED
    BY <2>2, WishHas
<1>. QED
  BY <1>3, <1>4 DEF Abstract!Fail, Promises

(* and one that is answered is answered by the route it asked last.        *)
LEMMA ReplyOne ==
  ASSUME IInv, PlansInv, call.phase = "sent", EndsWith
  PROVE  Abstract!Reply(Number)
<1>1. PICK e : EntryBecomes(e) /\ e.how = "answered" /\ Last(e.tries).route = call.at
  BY DEF EndsWith
<1>2. Promise(e, call') = Abstract!Over(call.at)
  BY <1>1, PromiseIs
<1>3. Abstract!Becomes(Number, Abstract!Over(call.at))
  BY <1>1, <1>2, OnePromiseMoves
<1>4. Promises[Number] = Asking(Wish, call, call.attempt)
  BY WishHas, InHandIs
<1>5. Promises[Number].phase = "asking" /\ Promises[Number].at = call.at
  BY <1>4, AskingHas
<1>. QED
  BY <1>3, <1>5 DEF Abstract!Reply, Promises

(* The next turn passes a route that was not asked, or gives up one that   *)
(* was.                                                                    *)
LEMMA PassOrGiveUp ==
  ASSUME IInv, PlansInv, call.phase # "idle", HasRoute, NextTurn
  PROVE  /\ Promises[Number] = Choosing(Wish, call) => Abstract!Pass(Number)
         /\ \A times : Promises[Number] = Asking(Wish, call, times) => Abstract!GiveUpOn(Number)
<1>1. Abstract!Becomes(Number, InHand(Wish, call')) /\ call'.phase = "choosing"
      /\ call'.at = call.at + 1
  BY HandMoves DEF NextTurn, GoesOn
<1>2. call.at \in Nat /\ call.at >= 1
  BY CallFacts DEF IInv, CallInv
<1>3. Wish.routes \subseteq Nat /\ call.at \in Wish.routes
  BY <1>2, WishHas DEF HasRoute
<1>4. /\ From(Wish, call.at + 1) = After(Wish, call.at)
      /\ From(Wish, call.at) \ {call.at} = After(Wish, call.at)
      /\ call.at \in From(Wish, call.at)
  BY <1>2, <1>3, RoutesLeft
<1>5. InHand(Wish, call') = Abstract!Choosing(Wish, After(Wish, call.at))
  BY <1>1, <1>4, InHandIs, ChoosingHas
<1>6. Abstract!Becomes(Number, Abstract!Choosing(Wish, After(Wish, call.at)))
  BY <1>1, <1>5
<1>7. ASSUME Promises[Number] = Choosing(Wish, call) PROVE Abstract!Pass(Number)
  <2>1. /\ Promises[Number].phase = "choosing" /\ Promises[Number].wish = Wish
        /\ Promises[Number].left = From(Wish, call.at)
    BY <1>7, ChoosingHas
  <2>. QED
    BY <1>4, <1>6, <2>1 DEF Abstract!Pass, Promises
<1>8. ASSUME NEW times, Promises[Number] = Asking(Wish, call, times)
      PROVE  Abstract!GiveUpOn(Number)
  <2>1. /\ Promises[Number].phase = "asking" /\ Promises[Number].wish = Wish
        /\ Promises[Number].left = After(Wish, call.at)
    BY <1>8, AskingHas
  <2>. QED
    BY <1>6, <2>1 DEF Abstract!GiveUpOn, Promises
<1>. QED
  BY <1>7, <1>8

(* A request that goes out asks a route that can do it, for the first time *)
(* or again.                                                               *)
LEMMA AskOne ==
  ASSUME IInv, PlansInv, call.phase = "asking", HasRoute,
         GoesOn("sent", call.at, call.attempt), Serves(Provider.type, KindAt[Endpoint])
  PROVE  Abstract!Ask(Number) \/ Abstract!AskAgain(Number)
<1>1. Abstract!Becomes(Number, InHand(Wish, call')) /\ call'.phase = "sent"
      /\ call'.at = call.at /\ call'.attempt = call.attempt
  BY HandMoves DEF GoesOn
<1>2. /\ call.at \in Nat /\ call.at >= 1 /\ call.attempt \in Nat /\ Chosen.attempts \in Nat
      /\ MayBeAsked(call) /\ call.attempt \in 1..Chosen.attempts
  BY CallFacts, AskingIs DEF IInv, CallInv
<1>3. /\ Wish.routes \subseteq Nat /\ call.at \in Wish.routes
      /\ Wish.attempts = Chosen.attempts /\ call.at \in DOMAIN Chosen.routes
  <2>1. call.at \in 1..Len(Chosen.routes)
    BY <1>2, WishHas DEF HasRoute
  <2>2. DOMAIN Chosen.routes = 1..Len(Chosen.routes)
    BY CallFacts, PlansList DEF IInv, CallInv
  <2>. QED
    BY <2>1, <2>2, WishHas
<1>4. call.at \in Wish.able
  <2>1. CanServe(call.sends[1], Chosen, Chosen.routes[call.at])
    BY <1>2, Zenon DEF CanServe, MayBeAsked, RouteAt, Provider, RouteName, Chosen, Endpoint
  <2>. QED
    BY <1>3, <2>1, WishHas
<1>5. /\ From(Wish, call.at) \ {call.at} = After(Wish, call.at)
      /\ call.at \in From(Wish, call.at)
  BY <1>2, <1>3, RoutesLeft
<1>6. InHand(Wish, call') = Abstract!Asking(Wish, After(Wish, call.at), call.at, call.attempt)
  BY <1>1, InHandIs, AskingHas
<1>7. CASE call.attempt = 1
  <2>1. Promises[Number] = Choosing(Wish, call)
    BY <1>7, WishHas, InHandIs
  <2>2. /\ Promises[Number].phase = "choosing" /\ Promises[Number].wish = Wish
        /\ Promises[Number].left = From(Wish, call.at)
    BY <2>1, ChoosingHas
  <2>3. Abstract!Becomes(Number, Abstract!Asking(Wish, From(Wish, call.at) \ {call.at}, call.at, 1))
    BY <1>1, <1>5, <1>6, <1>7
  <2>. QED
    BY <1>4, <1>5, <2>2, <2>3 DEF Abstract!Ask, Promises
<1>8. CASE call.attempt # 1
  <2>1. Promises[Number] = Asking(Wish, call, call.attempt - 1)
    BY <1>8, WishHas, InHandIs
  <2>2. /\ Promises[Number].phase = "asking" /\ Promises[Number].wish = Wish
        /\ Promises[Number].times = call.attempt - 1
    BY <2>1, AskingHas
  <2>3. call.attempt - 1 < Wish.attempts
    BY <1>2, <1>3
  <2>4. [Promises[Number] EXCEPT !.times = Promises[Number].times + 1] = InHand(Wish, call')
    <3>1. call.attempt - 1 + 1 = call.attempt
      BY <1>2
    <3>2. \A left, n, m : [Abstract!Asking(Wish, left, call.at, n) EXCEPT !.times = m]
                            = Abstract!Asking(Wish, left, call.at, m)
      BY DEF Abstract!Asking
    <3>3. InHand(Wish, call') = Asking(Wish, call, call.attempt)
      BY <1>6, AskingHas
    <3>. QED
      BY <2>1, <2>2, <3>1, <3>2, <3>3, AskingHas
  <2>. QED
    BY <1>1, <2>2, <2>3, <2>4 DEF Abstract!AskAgain, Promises
<1>. QED
  BY <1>7, <1>8

(* Each step of a call is a step of its promise, or none.                  *)
LEMMA CourseKeepsPromise ==
  ASSUME IInv, PlansInv, PlaceInv, Course
  PROVE  Abstract!Next \/ UNCHANGED Promises
<1>0. /\ call.phase # "idle" /\ Number \in 1..MaxCalls
      /\ call.attempt \in Nat /\ call.at \in Nat
  BY WishHas, CallFacts DEF Course, IInv, CallInv
<1>1. ASSUME \/ Abstract!Pass(Number) \/ Abstract!Ask(Number) \/ Abstract!AskAgain(Number)
             \/ Abstract!GiveUpOn(Number) \/ Abstract!Reply(Number) \/ Abstract!Fail(Number)
      PROVE  Abstract!Next
  BY <1>0, <1>1 DEF Abstract!Next
<1>2. CASE WhileChoosing
  <2>1. call.phase = "choosing" /\ HasRoute /\ Promises[Number] = Choosing(Wish, call)
    BY <1>0, <1>2, WishHas, InHandIs DEF WhileChoosing
  <2>2. CASE NextTurn
    BY <1>0, <1>1, <2>1, <2>2, PassOrGiveUp
  <2>3. CASE GoesOn("asking", call.at, 1)
    <3>1. InHand(Wish, call') = Choosing(Wish, call')
      BY <2>3, InHandIs DEF GoesOn
    <3>2. Choosing(Wish, call') = Choosing(Wish, call)
      BY <2>3, ChoosingHas DEF GoesOn
    <3>. QED
      BY <1>0, <2>1, <2>3, <3>1, <3>2, HandMoves
  <2>. QED
    BY <1>2, <2>2, <2>3 DEF WhileChoosing
<1>3. CASE WhileAsking
  <2>1. call.phase = "asking" /\ HasRoute
    BY <1>3 DEF WhileAsking, PlaceInv, HasRoute
  <2>2. \/ Promises[Number] = Choosing(Wish, call)
        \/ Promises[Number] = Asking(Wish, call, call.attempt - 1)
    BY <1>0, <2>1, WishHas, InHandIs
  <2>. QED
    BY <1>0, <1>1, <1>3, <2>1, <2>2, PassOrGiveUp, AskOne DEF WhileAsking
<1>4. CASE WhileSent
  <2>1. call.phase = "sent" /\ HasRoute /\ Promises[Number] = Asking(Wish, call, call.attempt)
    BY <1>0, <1>4, WishHas, InHandIs DEF WhileSent, PlaceInv, HasRoute
  <2>2. CASE NextTurn
    BY <1>0, <1>1, <2>1, <2>2, PassOrGiveUp
  <2>3. CASE GoesOn("waiting", call.at, call.attempt)
    <3>1. InHand(Wish, call') = Asking(Wish, call', call.attempt)
      BY <2>3, InHandIs DEF GoesOn
    <3>2. Asking(Wish, call', call.attempt) = Asking(Wish, call, call.attempt)
      BY <2>3, AskingHas DEF GoesOn
    <3>. QED
      BY <1>0, <2>1, <2>3, <3>1, <3>2, HandMoves
  <2>4. CASE EndsWith
    BY <1>1, <2>1, <2>4, ReplyOne
  <2>. QED
    BY <1>4, <2>2, <2>3, <2>4 DEF WhileSent
<1>5. CASE WhileWaiting
  <2>1. /\ call.phase = "waiting" /\ GoesOn("asking", call.at, call.attempt + 1)
        /\ Promises[Number] = Asking(Wish, call, call.attempt)
    BY <1>0, <1>5, WishHas, InHandIs DEF WhileWaiting
  <2>2. call.attempt >= 1
    <3>1. Counted(call, log[Number].tries)
      BY <1>0 DEF IInv, CallInv, Progress, ProgressAt
    <3>2. call.attempt \in 1..call.plan[1].attempts
      BY <2>1, <3>1 DEF Counted
    <3>. QED
      BY <1>0, <3>2
  <2>3. InHand(Wish, call') = Asking(Wish, call', call.attempt)
    <3>1. call'.phase = "asking" /\ call'.attempt # 1 /\ call'.attempt - 1 = call.attempt
      <4>1. call'.phase = "asking" /\ call'.attempt = call.attempt + 1
        BY <2>1 DEF GoesOn
      <4>2. \A n \in Nat : \A m : n >= 1 /\ m = n + 1 => m # 1 /\ m - 1 = n
        OBVIOUS
      <4>. QED
        BY <1>0, <2>2, <4>1, <4>2
    <3>2. InHand(Wish, call') = Asking(Wish, call', call'.attempt - 1)
      BY <3>1, InHandIs
    <3>. QED
      BY <3>1, <3>2
  <2>4. Asking(Wish, call', call.attempt) = Asking(Wish, call, call.attempt)
    BY <2>1, AskingHas DEF GoesOn
  <2>. QED
    BY <1>0, <2>1, <2>3, <2>4, HandMoves
<1>6. CASE EndsWithout
  BY <1>0, <1>1, <1>6, FailOne
<1>. QED
  BY <1>2, <1>3, <1>4, <1>5, <1>6 DEF Course

(* A call that comes in is a request that is made, or that fails at once.  *)
LEMMA ArrivalKeepsPromise ==
  ASSUME IInv, PlansInv, call.phase = "idle", Number < MaxCalls, NEW sends, NEW e, Comes(sends, e)
  PROVE  Abstract!Next
<1>. DEFINE n == Number + 1
            wish == WishFor[sends]
<1>1. /\ Number \in Nat /\ log'[n] = e /\ DOMAIN log = 1..Number /\ DOMAIN log' = 1..n
      /\ \A m \in 1..Number : log'[m] = log[m]
  BY LogGrows DEF Comes
<1>2. n \in 1..MaxCalls /\ n \notin DOMAIN log /\ n \in DOMAIN log'
      /\ \A m : m # n => (m \in DOMAIN log' <=> m \in DOMAIN log)
  BY <1>1, MediaAssumption
<1>. HIDE DEF n
<1>3. ASSUME NEW m \in 1..MaxCalls
      PROVE  PromiseOf(m, log', call') =
               IF m = n THEN Promise(e, call') ELSE PromiseOf(m, log, call)
  <2>1. CASE m = n
    BY <1>1, <1>2, <2>1 DEF PromiseOf
  <2>2. CASE m # n /\ m \in DOMAIN log
    <3>1. log[m].how # "open" /\ log'[m] = log[m]
      BY <1>1, <2>2 DEF PlansInv
    <3>2. Promise(log[m], call') = Promise(log[m], call)
      BY <3>1 DEF Promise
    <3>. QED
      BY <1>2, <2>2, <3>1, <3>2 DEF PromiseOf
  <2>3. CASE m # n /\ m \notin DOMAIN log
    BY <1>2, <2>3 DEF PromiseOf
  <2>. QED
    BY <2>1, <2>2, <2>3
<1>4. Promises' = [Promises EXCEPT ![n] = Promise(e, call')]
  <2>1. [m \in 1..MaxCalls |-> PromiseOf(m, log', call')]
          = [Promises EXCEPT ![n] = Promise(e, call')]
    BY <1>3 DEF Promises
  <2>2. Promises' = [m \in 1..MaxCalls |-> PromiseOf(m, log', call')]
    BY DEF Promises
  <2>. QED
    BY <2>1, <2>2
<1>5. Abstract!Becomes(n, Promise(e, call'))
  BY <1>4 DEF Abstract!Becomes, Promises
<1>6. Promises[n].phase = "unmade"
  BY <1>2 DEF Promises, PromiseOf
<1>7. CASE e.plan = None /\ e.how \in {"unread", "turned away"}
  <2>1. Promise(e, call') = Abstract!Over(0)
    BY <1>7, PromiseIs
  <2>2. Abstract!Fail(n)
    BY <1>5, <1>6, <2>1 DEF Abstract!Fail, Promises
  <2>. QED
    BY <1>2, <2>2 DEF Abstract!Next
<1>8. CASE /\ e.plan # None /\ PlannedFor(e) /\ e.how = "open"
           /\ call'.phase = "choosing" /\ call'.at = 1
  <2>1. e.sends = sends /\ sends \in Planned /\ PlanFor[sends] # None
    BY <1>8 DEF Comes, PlannedFor, Planned
  <2>2. wish \in Wishes(n)
    BY <2>1 DEF Wishes, Wished
  <2>3. wish.routes \subseteq Nat /\ 0 \notin wish.routes
    <3>1. PlanFor[sends][1] \in Plans
      <4>1. PlanFor[sends] = ResolveMedia(AskedModel(sends.sent), KindAt[sends.endpoint]).plan
        BY <2>1 DEF Planned, PlanFor
      <4>2. ResolveMedia(AskedModel(sends.sent), KindAt[sends.endpoint]).code = None
        BY <2>1, <4>1 DEF ResolveMedia, Refusal
      <4>3. PlanFor[sends] \in Options(Plans)
        BY <4>1, <4>2, NamesGivePlans
      <4>. QED
        BY <2>1, <4>3, OptionIs
    <3>2. wish.routes = DOMAIN PlanFor[sends][1].routes
      BY <2>1 DEF WishFor
    <3>3. wish.routes = 1..Len(PlanFor[sends][1].routes)
      BY <3>1, <3>2, PlansList
    <3>. QED
      BY <3>3
  <2>4. From(wish, 1) = wish.routes
    BY <2>3, RoutesLeft
  <2>5. Promise(e, call') = Abstract!Choosing(wish, wish.routes)
    BY <1>8, <2>1, <2>4, PromiseIs, InHandIs, ChoosingHas
  <2>6. Abstract!Make(n)
    BY <1>5, <1>6, <2>2, <2>5 DEF Abstract!Make, Promises
  <2>. QED
    BY <1>2, <2>6 DEF Abstract!Next
<1>. QED
  BY <1>7, <1>8 DEF Comes

(* A media call keeps the promise of RequestPromise: the routes of its     *)
(* plan are taken up in turn and never come back to, each is asked within  *)
(* the plan's attempts and only if it was built, has the endpoint and may  *)
(* be given the data; the answer is of the route asked last, and once      *)
(* there is one, or a refusal, or no time, nobody is asked any more        *)
(* (Gateway::media).                                                       *)
THEOREM MediaKeepsPromiseTheorem ==
  Spec => MediaKeepsPromise
<1>1. Init => Abstract!Init
  <2>1. ASSUME log = <<>>, NEW n PROVE PromiseOf(n, log, call) = Abstract!Unmade
    <3>1. DOMAIN <<>> = {}
      OBVIOUS
    <3>. QED
      BY <2>1, <3>1 DEF PromiseOf, Abstract!Unmade
  <2>. QED
    BY <2>1 DEF Init, MediaInit, Abstract!Init
<1>2. IInv /\ PlansInv /\ PlaceInv /\ [Next]_allVars => Abstract!Next \/ UNCHANGED Promises
  <2>. SUFFICES ASSUME IInv, PlansInv, PlaceInv, [Next]_allVars
                PROVE  Abstract!Next \/ UNCHANGED Promises
    OBVIOUS
  <2>1. ASSUME NEW sends \in Sends, Arrive(sends) PROVE Abstract!Next
    <3>1. call.phase = "idle" /\ Number < MaxCalls
      BY <2>1 DEF Arrive
    <3>. QED
      BY <2>1, <3>1, ArrivalComes, ArrivalKeepsPromise
  <2>2. CASE MediaStep
    BY <2>2, ServedInCourse, CourseKeepsPromise DEF MediaStep
  <2>3. CASE UNCHANGED <<call, log>>
    BY <2>3 DEF Promises
  <2>. QED
    BY <2>1, <2>2, <2>3 DEF Next, ChatCall, allVars, vars
<1>3. IInv /\ PlansInv /\ PlaceInv /\ [Next]_allVars => [Abstract!Next]_Promises
  BY <1>2
<1>4. Spec => [](IInv /\ PlansInv /\ PlaceInv)
  BY IInvHolds, InitPlansInv, NextPlansInv, PTL DEF Spec
<1>. QED
  BY <1>1, <1>3, <1>4, PTL DEF Spec, MediaKeepsPromise, Abstract!Spec, Promises

-----------------------------------------------------------------------------
(***************************************************************************)
(* Part 4.  Amounts are floors of what the vendors bill: for any books, any*)
(* usage whatever is reported of it, any calls, and rows grouped any way.  *)
(***************************************************************************)

-----------------------------------------------------------------------------
(* What a price is of what is charged *)

(* A line is a floor of what is charged, and but for one the whole of it.  *)
LEMMA LineIsFloor ==
  ASSUME NEW count \in Nat, NEW price \in Nat, NEW per \in Nat \ {0}
  PROVE  /\ Line(count, price, per) \in Nat
         /\ Line(count, price, per) * per <= count * price
         /\ count * price <= Most => count * price < (Line(count, price, per) + 1) * per
<1>. DEFINE n == count * price
            held == Saturated(n)
            line == held \div per
<1>1. n \in Nat /\ held \in Nat /\ held <= n /\ (n <= Most => held = n)
  BY PricingAssumption DEF Saturated
<1>. HIDE DEF held
<1>2. line \in Nat /\ line * per <= held /\ held < (line + 1) * per
  BY <1>1, DivFloor
<1>. HIDE DEF line, n
<1>3. /\ line \in Nat /\ line * per <= n /\ (n <= Most => n < (line + 1) * per)
  BY <1>1, <1>2
<1>. QED
  BY <1>3 DEF line, held, n, Line

(* What a rate is for goes into a million a whole number of times.         *)
LEMMA PerDivides ==
  ASSUME NEW p \in UnitParts
  PROVE  /\ Per[p] \in Nat \ {0} /\ Measure[p] \in {"images", "audio_millis", "characters"}
         /\ Million \div Per[p] \in Nat \ {0} /\ Per[p] * (Million \div Per[p]) = Million
<1>1. /\ Million \in Nat \ {0} /\ Thousand \in Nat \ {0} /\ Million % Thousand = 0
  BY PricingAssumption
<1>2. CASE p = "image"
  <2>1. Per[p] = 1 /\ Measure[p] = "images"
    BY <1>2 DEF Per, Measure
  <2>2. Million \div 1 = Million
    BY <1>1
  <2>. QED
    BY <1>1, <2>1, <2>2
<1>3. CASE p = "audio_second"
  <2>1. Per[p] = Thousand /\ Measure[p] = "audio_millis"
    BY <1>3 DEF Per, Measure
  <2>2. Million \div Thousand \in Nat /\ Million = Thousand * (Million \div Thousand) + (Million % Thousand)
    BY <1>1
  <2>3. Million = Thousand * (Million \div Thousand)
    BY <1>1, <2>2
  <2>4. Million \div Thousand # 0
    BY <1>1, <2>3
  <2>. QED
    BY <1>1, <2>1, <2>2, <2>3, <2>4
<1>4. CASE p = "character"
  <2>1. Per[p] = Million /\ Measure[p] = "characters"
    BY <1>4 DEF Per, Measure
  <2>2. Million \div Million = 1
    BY <1>1
  <2>. QED
    BY <1>1, <2>1, <2>2
<1>. QED
  BY <1>2, <1>3, <1>4 DEF UnitParts

(* A rate has seven parts: four of tokens and three of units.              *)
LEMMA PartsAre ==
  /\ IsFiniteSet(Counts) /\ Cardinality(Counts) = 4
  /\ IsFiniteSet(UnitParts) /\ Cardinality(UnitParts) = 3
  /\ PartsOfARate = 7
<1>. DEFINE A == {"input"}
            B == A \cup {"cache_read"}
            C == B \cup {"cache_write"}
            D == C \cup {"output"}
            E == D \cup {"image"}
            F == E \cup {"audio_second"}
            G == F \cup {"character"}
            X == {"image"}
            Y == X \cup {"audio_second"}
            Z == Y \cup {"character"}
<1>1. IsFiniteSet(A) /\ Cardinality(A) = 1 /\ IsFiniteSet(X) /\ Cardinality(X) = 1
  BY FS_Singleton
<1>2. IsFiniteSet(B) /\ Cardinality(B) = 2 /\ IsFiniteSet(Y) /\ Cardinality(Y) = 2
  <2>1. "cache_read" \notin A /\ "audio_second" \notin X
    OBVIOUS
  <2>. HIDE DEF A, X
  <2>. QED
    BY <1>1, <2>1, FS_AddElement
<1>3. IsFiniteSet(C) /\ Cardinality(C) = 3 /\ IsFiniteSet(Z) /\ Cardinality(Z) = 3
  <2>1. "cache_write" \notin B /\ "character" \notin Y
    OBVIOUS
  <2>. HIDE DEF B, Y
  <2>. QED
    BY <1>2, <2>1, FS_AddElement
<1>4. IsFiniteSet(D) /\ Cardinality(D) = 4
  <2>1. "output" \notin C
    OBVIOUS
  <2>. HIDE DEF C
  <2>. QED
    BY <1>3, <2>1, FS_AddElement
<1>5. IsFiniteSet(E) /\ Cardinality(E) = 5
  <2>1. "image" \notin D
    OBVIOUS
  <2>. HIDE DEF D
  <2>. QED
    BY <1>4, <2>1, FS_AddElement
<1>6. IsFiniteSet(F) /\ Cardinality(F) = 6
  <2>1. "audio_second" \notin E
    OBVIOUS
  <2>. HIDE DEF E
  <2>. QED
    BY <1>5, <2>1, FS_AddElement
<1>7. IsFiniteSet(G) /\ Cardinality(G) = 7
  <2>1. "character" \notin F
    OBVIOUS
  <2>. HIDE DEF F
  <2>. QED
    BY <1>6, <2>1, FS_AddElement
<1>8. D = Counts /\ Z = UnitParts /\ G = Counts \cup UnitParts
  BY DEF Counts, UnitParts
<1>. HIDE DEF D, Z, G
<1>. QED
  BY <1>3, <1>4, <1>7, <1>8 DEF PartsOfARate

RateOf(book, model) == IF model \in DOMAIN book.rates THEN book.rates[model] ELSE NoRate
Rates == [Counts \cup UnitParts -> Nat]
UnitNames == {"images", "audio_millis", "characters"}
Uses == [tokens : [Counts -> Nat], units : [UnitNames -> Nat]]

(* What is reported is what was used, or nothing.                          *)
ToldOf(told, used) ==
  /\ \A c \in Counts : told.tokens[c] \in {None, Some(used.tokens[c])}
  /\ \A u \in UnitNames : told.units[u] \in {None, Some(used.units[u])}

TokenCharge(rate, tokens) == SumFunction([c \in Counts |-> tokens[c] * rate[c]])
UnitCharge(rate, units) ==
  SumFunction([p \in UnitParts |-> units[Measure[p]] * rate[p] * (Million \div Per[p])])

(* The tokens of a price, added up.                                        *)
TokenLines(usage, rate) == SumFunction([c \in Counts |-> Line(Or(usage[c], 0), rate[c], Million)])

(* The tokens' lines of a price are a floor of what they are charged for;  *)
(* with no count missing they are the charge but for truncation            *)
(* (Pricing::price_with).                                                  *)
LEMMA TokensAreFloors ==
  ASSUME NEW rate \in Rates, NEW tokens \in [Counts -> Nat], NEW usage,
         \A c \in Counts : usage[c] \in {None, Some(tokens[c])}
  PROVE  /\ TokenLines(usage, rate) \in Nat /\ TokenCharge(rate, tokens) \in Nat
         /\ TokenLines(usage, rate) * Million <= TokenCharge(rate, tokens)
         /\ (\A c \in Counts : usage[c] # None) /\ TokenCharge(rate, tokens) <= Most =>
              TokenCharge(rate, tokens) + 4 <= (TokenLines(usage, rate) + 4) * Million
         /\ ~ByToken(rate) => TokenCharge(rate, tokens) = 0
<1>. DEFINE lines == [c \in Counts |-> Line(Or(usage[c], 0), rate[c], Million)]
            charges == [c \in Counts |-> tokens[c] * rate[c]]
<1>1. Million \in Nat \ {0} /\ IsFiniteSet(Counts) /\ Cardinality(Counts) = 4
  BY PricingAssumption, PartsAre
<1>2. ASSUME NEW c \in Counts
      PROVE  /\ lines[c] \in Nat /\ charges[c] \in Nat /\ lines[c] * Million <= charges[c]
             /\ usage[c] # None /\ charges[c] <= Most => charges[c] < (lines[c] + 1) * Million
             /\ rate[c] = 0 => charges[c] = 0
  <2>1. tokens[c] \in Nat /\ rate[c] \in Nat /\ charges[c] = tokens[c] * rate[c]
    BY DEF Rates
  <2>2. tokens[c] * rate[c] \in Nat
    BY <2>1
  <2>3. rate[c] = 0 => charges[c] = 0
    BY <2>1
  <2>4. CASE usage[c] = None
    <3>1. lines[c] = Line(0, rate[c], Million)
      BY <2>4 DEF Or
    <3>2. lines[c] \in Nat /\ lines[c] * Million <= 0 * rate[c]
      BY <1>1, <2>1, <3>1, LineIsFloor
    <3>3. 0 * rate[c] = 0
      BY <2>1
    <3>4. charges[c] \in Nat
      BY <2>1, <2>2
    <3>5. lines[c] * Million <= 0
      BY <3>2, <3>3
    <3>6. lines[c] * Million <= charges[c]
      BY <1>1, <3>2, <3>4, <3>5
    <3>. QED
      BY <2>3, <2>4, <3>2, <3>4, <3>6
  <2>5. CASE usage[c] = Some(tokens[c])
    <3>0. usage[c] # None /\ usage[c][1] = tokens[c]
      BY <2>5 DEF Some, None
    <3>1. lines[c] = Line(tokens[c], rate[c], Million)
      <4>1. Or(usage[c], 0) = tokens[c]
        BY <3>0 DEF Or
      <4>. QED
        BY <4>1
    <3>2. /\ lines[c] \in Nat /\ lines[c] * Million <= charges[c]
          /\ charges[c] <= Most => charges[c] < (lines[c] + 1) * Million
      BY <1>1, <2>1, <3>1, LineIsFloor
    <3>. QED
      BY <2>1, <2>2, <2>3, <3>2
  <2>. QED
    BY <2>4, <2>5
<1>3. /\ TokenLines(usage, rate) = SumFunctionOnSet(lines, Counts)
      /\ TokenCharge(rate, tokens) = SumFunctionOnSet(charges, Counts)
  <2>1. DOMAIN lines = Counts /\ DOMAIN charges = Counts
    OBVIOUS
  <2>. QED
    BY <2>1 DEF TokenLines, TokenCharge, SumFunction
<1>. HIDE DEF lines, charges
<1>4. /\ SumFunctionOnSet(lines, Counts) \in Nat /\ SumFunctionOnSet(charges, Counts) \in Nat
      /\ SumFunctionOnSet(lines, Counts) * Million <= SumFunctionOnSet(charges, Counts)
  <2>1. SumFunctionOnSet(lines, Counts) \in Nat
    BY <1>1, <1>2, SumIsNat
  <2>2. SumFunctionOnSet(charges, Counts) \in Nat
    BY <1>1, <1>2, SumIsNat
  <2>3. SumFunctionOnSet(lines, Counts) * Million <= SumFunctionOnSet(charges, Counts)
    BY <1>1, <1>2, SumIsFloor
  <2>. QED
    BY <2>1, <2>2, <2>3
<1>5. ASSUME \A c \in Counts : usage[c] # None, SumFunctionOnSet(charges, Counts) <= Most
      PROVE  SumFunctionOnSet(charges, Counts) + 4 <= (SumFunctionOnSet(lines, Counts) + 4) * Million
  <2>1. ASSUME NEW c \in Counts PROVE charges[c] <= SumFunctionOnSet(charges, Counts)
    BY <1>1, <1>2, SumHasMember
  <2>2. ASSUME NEW c \in Counts
        PROVE  lines[c] \in Int /\ charges[c] \in Int /\ charges[c] < (lines[c] + 1) * Million
    <3>1. Most \in Nat /\ charges[c] <= SumFunctionOnSet(charges, Counts)
      BY <2>1, PricingAssumption
    <3>2. charges[c] \in Nat /\ charges[c] <= Most
      BY <1>2, <1>4, <1>5, <3>1
    <3>. QED
      BY <1>2, <1>5, <3>2
  <2>3. SumFunctionOnSet(charges, Counts) + Cardinality(Counts)
        <= (SumFunctionOnSet(lines, Counts) + Cardinality(Counts)) * Million
    BY <1>1, <2>2, SumIsNearByOne
  <2>. QED
    BY <1>1, <2>3
<1>6. ~ByToken(rate) => SumFunctionOnSet(charges, Counts) = 0
  <2>1. SUFFICES ASSUME ~ByToken(rate) PROVE SumFunctionOnSet(charges, Counts) = 0
    OBVIOUS
  <2>2. \A c \in Counts : charges[c] = 0
    BY <1>2, <2>1 DEF ByToken
  <2>. QED
    BY <1>1, <2>2, SumOfZeros
<1>. QED
  BY <1>3, <1>4, <1>5, <1>6

(* The same of the units, of the parts of a rate that they measure.        *)
LEMMA UnitsAreFloors ==
  ASSUME NEW rate \in Rates, NEW used \in [UnitNames -> Nat], NEW units,
         \A u \in UnitNames : units[u] \in {None, Some(used[u])},
         NEW measured, measured = {p \in UnitParts : rate[p] # 0 /\ units[Measure[p]] # None}
  PROVE  /\ UnitLines(units, rate, measured) \in Nat /\ UnitCharge(rate, used) \in Nat
         /\ IsFiniteSet(measured) /\ Cardinality(measured) \in 0..3
         /\ UnitLines(units, rate, measured) * Million <= UnitCharge(rate, used)
         /\ (\A p \in UnitParts : rate[p] # 0 => p \in measured) /\ UnitCharge(rate, used) <= Most =>
              UnitCharge(rate, used) + Cardinality(measured)
              <= (UnitLines(units, rate, measured) + Cardinality(measured)) * Million
<1>. DEFINE lines == [p \in measured |-> Line(units[Measure[p]][1], rate[p], Per[p])]
            charges == [p \in UnitParts |-> used[Measure[p]] * rate[p] * (Million \div Per[p])]
<1>1. /\ Million \in Nat \ {0} /\ IsFiniteSet(UnitParts) /\ measured \subseteq UnitParts
      /\ IsFiniteSet(measured) /\ Cardinality(measured) \in 0..3
  <2>1. Million \in Nat \ {0} /\ IsFiniteSet(UnitParts) /\ Cardinality(UnitParts) = 3
    BY PricingAssumption, PartsAre
  <2>2. IsFiniteSet(measured) /\ Cardinality(measured) <= 3 /\ Cardinality(measured) \in Nat
    BY <2>1, FS_Subset, FS_CardinalityType
  <2>. QED
    BY <2>1, <2>2
<1>2. ASSUME NEW p \in UnitParts
      PROVE  charges[p] \in Nat /\ (rate[p] = 0 => charges[p] = 0)
  <2>1. /\ used[Measure[p]] \in Nat /\ rate[p] \in Nat /\ Million \div Per[p] \in Nat
        /\ charges[p] = used[Measure[p]] * rate[p] * (Million \div Per[p])
    BY PerDivides DEF Rates, UnitNames
  <2>2. /\ used[Measure[p]] * rate[p] \in Nat
        /\ rate[p] = 0 => used[Measure[p]] * rate[p] = 0
    BY <2>1
  <2>. QED
    BY <2>1, <2>2
<1>3. ASSUME NEW p \in measured
      PROVE  /\ lines[p] \in Nat /\ lines[p] * Million <= charges[p]
             /\ charges[p] <= Most => charges[p] < (lines[p] + 1) * Million
  <2>. DEFINE n == used[Measure[p]]
              per == Per[p]
              m == Million \div Per[p]
              price == rate[p]
              line == Line(n, price, per)
              total == n * price
  <2>1. /\ n \in Nat /\ price \in Nat /\ per \in Nat \ {0} /\ m \in Nat \ {0} /\ per * m = Million
        /\ units[Measure[p]] = Some(n)
    BY <1>1, PerDivides DEF Rates, UnitNames
  <2>2. lines[p] = line /\ charges[p] = total * m
    BY <1>1, <2>1 DEF Some
  <2>. HIDE DEF n, per, m, price
  <2>3. /\ line \in Nat /\ total \in Nat /\ line * per <= total
        /\ total <= Most => total < (line + 1) * per
    <3>1. total \in Nat
      BY <2>1
    <3>2. /\ line \in Nat /\ line * per <= total
          /\ total <= Most => total < (line + 1) * per
      BY <2>1, LineIsFloor, Zenon
    <3>. QED
      BY <3>1, <3>2
  <2>. HIDE DEF line, total
  <2>4. line * Million = (line * per) * m /\ (line + 1) * Million = ((line + 1) * per) * m
    <3>1. line \in Int /\ line + 1 \in Int /\ per \in Int /\ m \in Int
      BY <2>1, <2>3
    <3>. QED
      BY <2>1, <3>1, Regroup
  <2>5. line * per \in Nat /\ (line + 1) * per \in Nat
    BY <2>1, <2>3
  <2>6. line * Million <= total * m
    BY <2>1, <2>3, <2>4, <2>5, Scale
  <2>7. ASSUME total * m <= Most PROVE total * m < (line + 1) * Million
    <3>1. total <= total * m /\ total * m \in Nat
      BY <2>1, <2>3, NoLess
    <3>2. total <= Most
      BY <2>3, <2>7, <3>1, PricingAssumption
    <3>3. total * m < ((line + 1) * per) * m
      BY <2>1, <2>3, <2>5, <3>2, ScaleLess
    <3>. QED
      BY <2>4, <3>3
  <2>. QED
    BY <2>2, <2>3, <2>6, <2>7
<1>4. /\ UnitLines(units, rate, measured) = SumFunctionOnSet(lines, measured)
      /\ UnitCharge(rate, used) = SumFunctionOnSet(charges, UnitParts)
  <2>1. DOMAIN lines = measured /\ DOMAIN charges = UnitParts
    OBVIOUS
  <2>. QED
    BY <2>1 DEF UnitLines, UnitCharge, SumFunction
<1>. HIDE DEF lines, charges
<1>5. /\ SumFunctionOnSet(lines, measured) \in Nat /\ SumFunctionOnSet(charges, UnitParts) \in Nat
      /\ SumFunctionOnSet(charges, measured) \in Nat
  BY <1>1, <1>2, <1>3, SumIsNat
<1>6. SumFunctionOnSet(lines, measured) * Million <= SumFunctionOnSet(charges, measured)
  <2>1. \A p \in measured : lines[p] \in Int /\ charges[p] \in Int /\ lines[p] * Million <= charges[p]
    BY <1>1, <1>2, <1>3
  <2>. QED
    BY <1>1, <2>1, SumIsFloor
<1>7. SumFunctionOnSet(charges, measured) <= SumFunctionOnSet(charges, UnitParts)
  BY <1>1, <1>2, SumOfPart
<1>8. SumFunctionOnSet(lines, measured) * Million <= SumFunctionOnSet(charges, UnitParts)
  <2>1. SumFunctionOnSet(lines, measured) * Million \in Int
    BY <1>1, <1>5
  <2>. QED
    BY <1>5, <1>6, <1>7, <2>1
<1>9. ASSUME \A p \in UnitParts : rate[p] # 0 => p \in measured,
             SumFunctionOnSet(charges, UnitParts) <= Most
      PROVE  SumFunctionOnSet(charges, UnitParts) + Cardinality(measured)
             <= (SumFunctionOnSet(lines, measured) + Cardinality(measured)) * Million
  <2>1. SumFunctionOnSet(charges, UnitParts) = SumFunctionOnSet(charges, measured)
    <3>1. \A p \in measured : charges[p] \in Int
      BY <1>1, <1>2
    <3>2. \A p \in UnitParts \ measured : charges[p] = 0
      BY <1>2, <1>9
    <3>. QED
      BY <1>1, <3>1, <3>2, SumLeavesOut
  <2>2. ASSUME NEW p \in measured
        PROVE  lines[p] \in Int /\ charges[p] \in Int /\ charges[p] < (lines[p] + 1) * Million
    <3>1. charges[p] \in Nat /\ charges[p] <= SumFunctionOnSet(charges, UnitParts)
      BY <1>1, <1>2, SumHasMember
    <3>2. charges[p] <= Most
      BY <1>5, <1>9, <3>1, PricingAssumption
    <3>. QED
      BY <1>3, <3>1, <3>2
  <2>3. SumFunctionOnSet(charges, measured) + Cardinality(measured)
        <= (SumFunctionOnSet(lines, measured) + Cardinality(measured)) * Million
    BY <1>1, <2>2, SumIsNearByOne
  <2>. QED
    BY <2>1, <2>3
<1>. QED
  BY <1>1, <1>4, <1>5, <1>8, <1>9

(* A charge is that of the tokens and that of the units.                   *)
LEMMA ChargeIs ==
  ASSUME NEW rate, NEW tokens, NEW units
  PROVE  Charge(rate, tokens, units) = TokenCharge(rate, tokens) + UnitCharge(rate, units)
BY Zenon DEF Charge, TokenCharge, UnitCharge

(* A well priced book has a whole rate for every model.                    *)
LEMMA RatesAre ==
  ASSUME NEW built, PricedWell(built), NEW model
  PROVE  RateOf(built.prices, model) \in Rates
<1>1. NoRate \in Rates
  BY DEF NoRate, Rates
<1>. QED
  BY <1>1 DEF PricedWell, RateOf, Rates

(* Usage whose coverage is exact has every count.                          *)
LEMMA CoverageIs ==
  ASSUME NEW usage
  PROVE  /\ Coverage(usage) \in {"absent", "partial", "exact"}
         /\ Coverage(usage) = "exact" => \A c \in Counts : usage[c] # None
BY DEF Coverage

(* What there is under a condition is there because it holds.              *)
LEMMA WhenIs ==
  ASSUME NEW c \in BOOLEAN, NEW x, NEW y, When(c, x) = Some(y)
  PROVE  c /\ x = y
<1>1. c
  BY DEF When, Some
<1>2. Some(x) = Some(y)
  BY <1>1 DEF When, Some
<1>. QED
  BY <1>1, <1>2 DEF Some

(* A price with no part of its rate missing falls short by less than a     *)
(* micro for each part; one with a part missing is a floor all the same.   *)
LEMMA PriceIsFloor ==
  ASSUME NEW book, NEW model, NEW usage, NEW units, NEW tokens, NEW used,
         RateOf(book, model) \in Rates, tokens \in [Counts -> Nat], used \in [UnitNames -> Nat],
         \A c \in Counts : usage[c] \in {None, Some(tokens[c])},
         \A u \in UnitNames : units[u] \in {None, Some(used[u])},
         NEW priced, PriceWith(book, model, usage, units) = Some(priced)
  PROVE  LET charge == Charge(RateOf(book, model), tokens, used) IN
         /\ DOMAIN priced = {"amount", "currency", "book", "coverage"}
         /\ charge \in Nat /\ priced.amount \in Nat /\ priced.currency = book.currency
         /\ priced.coverage \in {"exact", "partial"}
         /\ priced.amount * Million <= charge
         /\ priced.coverage = "exact" /\ charge <= Most =>
              charge < (priced.amount + PartsOfARate) * Million
<1>. DEFINE rate == RateOf(book, model)
            read == IF ByToken(rate) THEN Coverage(usage) ELSE "absent"
            charged == {p \in UnitParts : rate[p] # 0}
            measured == {p \in charged : units[Measure[p]] # None}
            missing == measured # charged \/ (ByToken(rate) /\ read = "absent")
            lines == TokenLines(usage, rate)
            counted == IF read = "absent" THEN 0 ELSE Saturated(lines)
            unit == UnitLines(units, rate, measured)
            coverage == IF missing THEN "partial" ELSE IF read = "absent" THEN "exact" ELSE read
            byTokens == TokenCharge(rate, tokens)
            byUnits == UnitCharge(rate, used)
            n == Cardinality(measured)
<1>0. Million \in Nat \ {0} /\ Most \in Nat /\ PartsOfARate = 7
  BY PricingAssumption, PartsAre
<1>1. /\ read # "absent" \/ measured # {}
      /\ priced = Priced(Saturated(counted + unit), book, coverage)
  <2>. DEFINE known == read # "absent" \/ measured # {}
              it == Priced(Saturated(counted + unit), book, coverage)
  <2>1. PriceWith(book, model, usage, units) = When(known, it)
    BY Zenon DEF PriceWith, RateOf, Tokens, TokenLines
  <2>2. known \in BOOLEAN
    OBVIOUS
  <2>. HIDE DEF known, it
  <2>3. known /\ it = priced
    BY <2>1, <2>2, WhenIs, Zenon
  <2>. QED
    BY <2>3 DEF known, it
<1>2. measured = {p \in UnitParts : rate[p] # 0 /\ units[Measure[p]] # None}
  OBVIOUS
<1>3. /\ lines \in Nat /\ byTokens \in Nat /\ lines * Million <= byTokens
      /\ (\A c \in Counts : usage[c] # None) /\ byTokens <= Most => byTokens + 4 <= (lines + 4) * Million
      /\ ~ByToken(rate) => byTokens = 0
  <2>. HIDE DEF rate
  <2>. QED
    BY TokensAreFloors DEF rate
<1>4. /\ unit \in Nat /\ byUnits \in Nat /\ IsFiniteSet(measured) /\ n \in 0..3
      /\ unit * Million <= byUnits
      /\ (\A p \in UnitParts : rate[p] # 0 => p \in measured) /\ byUnits <= Most =>
           byUnits + n <= (unit + n) * Million
  <2>. HIDE DEF rate, measured
  <2>. QED
    BY <1>2, UnitsAreFloors DEF rate
<1>5. /\ coverage \in {"exact", "partial"}
      /\ coverage = "exact" =>
           /\ \A p \in UnitParts : rate[p] # 0 => p \in measured
           /\ \/ read = "absent" /\ ~ByToken(rate)
              \/ read # "absent" /\ \A c \in Counts : usage[c] # None
  <2>1. read \in {"absent", "partial", "exact"} /\ (read = "exact" => \A c \in Counts : usage[c] # None)
    <3>. HIDE DEF rate
    <3>. QED
      BY CoverageIs
  <2>2. measured = charged => \A p \in UnitParts : rate[p] # 0 => p \in measured
    OBVIOUS
  <2>3. ByToken(rate) \in BOOLEAN /\ (read = "absent" \/ ByToken(rate))
    BY DEF ByToken
  <2>4. missing \in BOOLEAN /\ (~missing => measured = charged /\ ~(ByToken(rate) /\ read = "absent"))
    BY <2>3
  <2>. HIDE DEF read, measured, charged
  <2>5. coverage \in {"exact", "partial"} /\ (coverage = "exact" => ~missing /\ read \in {"absent", "exact"})
    BY <2>1, <2>4
  <2>. HIDE DEF coverage
  <2>. QED
    BY <2>1, <2>2, <2>3, <2>4, <2>5
<1>6. counted \in Nat /\ counted <= lines
  BY <1>0, <1>3 DEF Saturated
<1>7. measured # {} => n # 0
  <2>. HIDE DEF measured
  <2>. QED
    BY <1>4, FS_EmptySet
<1>8. Charge(rate, tokens, used) = byTokens + byUnits
  BY ChargeIs
<1>. HIDE DEF rate, read, charged, measured, missing, lines, counted, unit, coverage, byTokens, byUnits, n
<1>. DEFINE charge == Charge(rate, tokens, used)
            amount == Saturated(counted + unit)
<1>9. amount \in Nat /\ amount <= counted + unit /\ (counted + unit <= Most => amount = counted + unit)
  BY <1>0, <1>4, <1>6 DEF Saturated
<1>10. charge \in Nat /\ charge = byTokens + byUnits /\ byTokens <= charge /\ byUnits <= charge
  BY <1>3, <1>4, <1>8
<1>. HIDE DEF charge, amount
<1>11. (lines + unit) * Million <= charge
  <2>1. (lines + unit) * Million = lines * Million + unit * Million
    BY <1>0, <1>3, <1>4, Spread
  <2>2. lines * Million \in Int /\ unit * Million \in Int
    BY <1>0, <1>3, <1>4
  <2>. QED
    BY <1>3, <1>4, <1>10, <2>1, <2>2
<1>12. amount * Million <= charge
  <2>1. amount <= lines + unit /\ lines + unit \in Nat
    BY <1>3, <1>4, <1>6, <1>9
  <2>2. amount * Million <= (lines + unit) * Million
    BY <1>0, <1>9, <2>1, Scale
  <2>3. amount * Million \in Int /\ (lines + unit) * Million \in Int
    BY <1>0, <1>9, <2>1
  <2>. QED
    BY <1>10, <1>11, <2>2, <2>3
<1>13. ASSUME coverage = "exact", charge <= Most
       PROVE  charge < (amount + 7) * Million
  <2>1. byTokens <= Most /\ byUnits <= Most
    BY <1>0, <1>3, <1>4, <1>10, <1>13
  <2>2. byUnits + n <= (unit + n) * Million
    BY <1>4, <1>5, <1>13, <2>1
  <2>3. lines + unit <= Most /\ lines <= Most
    <3>1. lines + unit <= (lines + unit) * Million /\ (lines + unit) * Million \in Nat
      <4>1. lines + unit \in Nat
        BY <1>3, <1>4
      <4>. QED
        BY <1>0, <4>1, NoLess
    <3>. QED
      BY <1>0, <1>3, <1>4, <1>10, <1>11, <1>13, <3>1
  <2>4. PICK k \in {0, 4} : /\ byTokens + k <= (counted + k) * Million /\ k + n # 0
    <3>1. CASE read = "absent" /\ ~ByToken(rate)
      <4>1. byTokens = 0 /\ counted = 0 /\ n # 0
        BY <1>1, <1>3, <1>7, <3>1 DEF counted
      <4>2. byTokens + 0 <= (counted + 0) * Million /\ 0 + n # 0
        BY <1>0, <1>4, <4>1
      <4>. QED
        BY <4>2
    <3>2. CASE read # "absent" /\ \A c \in Counts : usage[c] # None
      <4>1. counted = lines
        BY <1>0, <1>3, <2>3, <3>2 DEF counted, Saturated
      <4>2. byTokens + 4 <= (counted + 4) * Million
        BY <1>3, <2>1, <3>2, <4>1
      <4>3. 4 + n # 0
        BY <1>4
      <4>. QED
        BY <4>2, <4>3
    <3>. QED
      BY <1>5, <1>13, <3>1, <3>2
  <2>5. amount = counted + unit
    BY <1>3, <1>4, <1>6, <1>9, <2>3, <1>0
  <2>6. k \in Nat /\ k + n <= 7 /\ n \in Nat
    BY <1>4, <2>4
  <2>7. ((counted + k) + (unit + n)) * Million = (counted + k) * Million + (unit + n) * Million
    BY <1>0, <1>4, <1>6, <2>6, Spread
  <2>8. ((counted + k) + (unit + n)) * Million <= (amount + 7) * Million
    <3>1. /\ (counted + k) + (unit + n) \in Int /\ amount + 7 \in Int
          /\ (counted + k) + (unit + n) <= amount + 7
      BY <1>4, <1>6, <2>5, <2>6
    <3>. QED
      BY <1>0, <3>1, Scale
  <2>9. /\ (counted + k) * Million \in Int /\ (unit + n) * Million \in Int /\ (amount + 7) * Million \in Int
        /\ ((counted + k) + (unit + n)) * Million \in Int
    BY <1>0, <1>4, <1>6, <1>9, <2>6
  <2>10. charge + (k + n) <= (amount + 7) * Million
    BY <1>3, <1>4, <1>10, <2>2, <2>4, <2>6, <2>7, <2>8, <2>9
  <2>. QED
    BY <1>10, <2>4, <2>6, <2>9, <2>10
<1>. QED
  BY <1>0, <1>1, <1>5, <1>9, <1>10, <1>12, <1>13 DEF Priced, charge, amount, rate

-----------------------------------------------------------------------------
(* What a row says a call cost, and what is billed for it *)

(* The two cases cost_with gets wrong, of a bill.                          *)
MisjudgedBill(bill) == bill.priced # None /\ bill.priced # bill.model
OverlookedBill(bill) ==
  bill.priced = None /\ bill.model # None /\ Built[bill.provider].on_device

BillOK(bill) ==
  /\ bill.provider \in DOMAIN Built /\ bill.amount \in Nat
  /\ bill.currency = Built[bill.provider].prices.currency

CostOK(cost) ==
  /\ cost.status \in Statuses \cup {"none"}
  /\ IF cost.status \in {"priced", "partial"}
     THEN /\ cost.micros # None /\ cost.micros[1] \in Nat
          /\ cost.currency # None /\ cost.currency = Some(cost.currency[1])
     ELSE cost.micros = None /\ cost.currency = None

(* What a row says of its cost, against what is billed.                    *)
CostBilled(cost, bill) ==
  /\ cost.micros # None => cost.currency = Some(bill.currency)
  /\ cost.micros # None /\ ~MisjudgedBill(bill) =>
       /\ cost.micros[1] * Million <= bill.amount
       /\ cost.status = "priced" /\ bill.amount <= Most =>
            bill.amount < (cost.micros[1] + PartsOfARate) * Million
  /\ cost.status = "free" => bill.amount = 0 \/ OverlookedBill(bill)
  /\ cost.status = "none" => bill.amount = 0

PricePossible(built, model) ==
  model \in DOMAIN built.origins /\ (built.on_device => built.origins[model].from = "manual")

(* A price of a model is what price_with makes of it, and only a model     *)
(* with a price in force has one (Pricing::cost_with).                     *)
LEMMA PriceOfIs ==
  ASSUME NEW built, built.on_device \in BOOLEAN, NEW model, NEW usage, NEW units,
         PriceOf(built, model, usage, units) # None
  PROVE  /\ PricePossible(built, model)
         /\ \E priced, edition :
              /\ PriceWith(built.prices, model, usage, units) = Some(priced)
              /\ PriceOf(built, model, usage, units) = Some(PricedCost(priced, edition))
<1>. DEFINE priced == PriceWith(built.prices, model, usage, units)
            edition == built.origins[model].edition
            barred == \/ model \notin DOMAIN built.origins
                      \/ built.on_device /\ built.origins[model].from # "manual"
<1>1. PriceOf(built, model, usage, units) =
        IF barred THEN None
        ELSE IF priced = None THEN None ELSE Some(PricedCost(priced[1], edition))
  BY Zenon DEF PriceOf
<1>2. ~barred /\ priced # None
  BY <1>1
<1>3. priced = Some(priced[1])
  <2>1. \E c, x : priced = When(c, x)
    BY Zenon DEF PriceWith
  <2>2. \A c, x : When(c, x) # None => When(c, x) = Some(When(c, x)[1])
    BY DEF When, None, Some
  <2>. HIDE DEF priced
  <2>. QED
    BY <1>2, <2>1, <2>2
<1>4. PricePossible(built, model)
  BY <1>2 DEF PricePossible
<1>5. PriceOf(built, model, usage, units) = Some(PricedCost(priced[1], edition))
  <2>. HIDE DEF priced, edition, barred
  <2>. QED
    BY <1>1, <1>2
<1>. QED
  BY <1>3, <1>4, <1>5

(* The price found for a model, against a bill at that model's rate.       *)
LEMMA PriceIsBilled ==
  ASSUME NEW built, PricedWell(built), NEW model, NEW usage, NEW units, NEW tokens, NEW used,
         tokens \in [Counts -> Nat], used \in [UnitNames -> Nat],
         \A c \in Counts : usage[c] \in {None, Some(tokens[c])},
         \A u \in UnitNames : units[u] \in {None, Some(used[u])},
         PriceOf(built, model, usage, units) # None,
         NEW cost, cost = PriceOf(built, model, usage, units)[1]
  PROVE  LET charge == Charge(built.prices.rates[model], tokens, used) IN
         /\ PricePossible(built, model) /\ CostOK(cost) /\ charge \in Nat
         /\ cost.status \in {"priced", "partial"} /\ cost.currency = Some(built.prices.currency)
         /\ cost.micros[1] * Million <= charge
         /\ cost.status = "priced" /\ charge <= Most =>
              charge < (cost.micros[1] + PartsOfARate) * Million
<1>0. built.on_device \in BOOLEAN /\ DOMAIN built.origins = DOMAIN built.prices.rates
  BY DEF PricedWell
<1>1. PICK priced, edition :
        /\ PriceWith(built.prices, model, usage, units) = Some(priced)
        /\ PriceOf(built, model, usage, units) = Some(PricedCost(priced, edition))
  BY <1>0, PriceOfIs
<1>2. PricePossible(built, model)
  BY <1>0, PriceOfIs
<1>3. cost = PricedCost(priced, edition)
  BY <1>1 DEF Some
<1>4. RateOf(built.prices, model) = built.prices.rates[model]
  BY <1>0, <1>2 DEF PricePossible, RateOf
<1>. DEFINE charge == Charge(built.prices.rates[model], tokens, used)
<1>5. RateOf(built.prices, model) \in Rates
  BY RatesAre
<1>6. /\ charge \in Nat /\ priced.amount \in Nat /\ priced.currency = built.prices.currency
      /\ priced.coverage \in {"exact", "partial"}
      /\ priced.amount * Million <= charge
      /\ priced.coverage = "exact" /\ charge <= Most =>
           charge < (priced.amount + PartsOfARate) * Million
  <2>1. charge = Charge(RateOf(built.prices, model), tokens, used)
    BY <1>4
  <2>. HIDE DEF charge
  <2>. QED
    BY <1>1, <1>5, <2>1, PriceIsFloor
<1>7. /\ cost.status = IF priced.coverage = "exact" THEN "priced" ELSE "partial"
      /\ cost.micros = Some(priced.amount) /\ cost.currency = Some(priced.currency)
  BY <1>3 DEF PricedCost
<1>. HIDE DEF charge
<1>8. /\ cost.micros # None /\ cost.micros[1] = priced.amount
      /\ cost.currency # None /\ cost.currency[1] = priced.currency
      /\ cost.status \in {"priced", "partial"} /\ (cost.status = "priced" => priced.coverage = "exact")
  BY <1>6, <1>7 DEF Some, None
<1>9. CostOK(cost)
  BY <1>6, <1>7, <1>8 DEF CostOK, Statuses
<1>. QED
  BY <1>2, <1>6, <1>7, <1>8, <1>9 DEF charge

(* A model with no rate is charged nothing for.                            *)
LEMMA NothingCharged ==
  ASSUME NEW tokens, NEW used, tokens \in [Counts -> Nat], used \in [UnitNames -> Nat]
  PROVE  Charge(NoRate, tokens, used) = 0
<1>. DEFINE byCount == [c \in Counts |-> tokens[c] * NoRate[c]]
            byPart == [p \in UnitParts |-> used[Measure[p]] * NoRate[p] * (Million \div Per[p])]
<1>1. \A c \in Counts : byCount[c] = 0
  BY DEF NoRate
<1>2. \A p \in UnitParts : byPart[p] = 0
  <2>. SUFFICES ASSUME NEW p \in UnitParts PROVE byPart[p] = 0
    OBVIOUS
  <2>1. /\ used[Measure[p]] \in Nat /\ NoRate[p] = 0 /\ Million \div Per[p] \in Nat
        /\ byPart[p] = used[Measure[p]] * NoRate[p] * (Million \div Per[p])
    BY PerDivides DEF NoRate, UnitNames
  <2>2. used[Measure[p]] * NoRate[p] = 0
    BY <2>1
  <2>. QED
    BY <2>1, <2>2
<1>3. SumFunctionOnSet(byCount, Counts) = 0 /\ SumFunctionOnSet(byPart, UnitParts) = 0
  <2>. HIDE DEF byCount, byPart
  <2>. QED
    BY <1>1, <1>2, PartsAre, SumOfZeros
<1>4. DOMAIN byCount = Counts /\ DOMAIN byPart = UnitParts
  OBVIOUS
<1>5. Charge(NoRate, tokens, used) = SumFunctionOnSet(byCount, Counts) + SumFunctionOnSet(byPart, UnitParts)
  BY <1>4 DEF Charge, SumFunction
<1>. QED
  BY <1>3, <1>5

(* A provider charges for the models it can price.                         *)
LEMMA ChargesPossible ==
  ASSUME NEW provider \in DOMAIN Built, NEW model
  PROVE  /\ Charges(provider, model) = PricePossible(Built[provider], model)
         /\ Charges(provider, model) \in BOOLEAN
BY DEF Charges, PricePossible

(* Every configured provider's book is well priced.                        *)
LEMMA WellPriced ==
  ASSUME NEW provider \in DOMAIN Built
  PROVE  PricedWell(Built[provider])
BY MediaAssumption

(* What there is under a condition, either way.                            *)
LEMMA WhenHas ==
  ASSUME NEW c \in BOOLEAN, NEW x
  PROVE  /\ When(c, x) # None <=> c
         /\ c => When(c, x) = Some(x)
         /\ ~c => When(c, x) = None
BY DEF When, None, Some

(* The first of two that there is.                                         *)
LEMMA EitherOf ==
  ASSUME NEW a \in BOOLEAN, NEW b \in BOOLEAN, NEW x, NEW y
  PROVE  LET it == OrElse(When(a, x), When(b, y)) IN
         /\ a => it = Some(x)
         /\ ~a /\ b => it = Some(y)
         /\ ~a /\ ~b => it = None
BY DEF When, None, Some, OrElse

(* Something is there, and is what it is of.                               *)
LEMMA SomeIs ==
  ASSUME NEW x
  PROVE  Some(x) # None /\ Some(x)[1] = x
BY DEF Some, None

(* What cost_with says of a call is what it is billed, in the sense of     *)
(* CostBilled, whatever the call was of and whatever of it was reported.   *)
LEMMA CostIsBilled ==
  ASSUME NEW provider \in DOMAIN Built, NEW target, NEW served, NEW used \in Uses, NEW told,
         ToldOf(told, used)
  PROVE  LET cost == CostWith(Built[provider], target, served, told.tokens, told.units)
             bill == Bill(provider, target, served, used, told)
         IN /\ CostOK(cost) /\ BillOK(bill) /\ CostBilled(cost, bill)
            /\ bill.provider = provider /\ cost.status \in Statuses
<1>. DEFINE built == Built[provider]
            price(m) == PriceOf(built, m, told.tokens, told.units)
            cost == CostWith(built, target, served, told.tokens, told.units)
            bill == Bill(provider, target, served, used, told)
            rates == built.prices.rates
            charge(m) == Charge(rates[m], used.tokens, used.units)
            known(m) == price(m) # None
            model == ModelBilled(provider, target, served)
            priced == ModelPriced(provider, target, served, told.tokens, told.units)
<1>1. PricedWell(built) /\ built.on_device \in BOOLEAN
  BY WellPriced DEF PricedWell
<1>2. /\ used.tokens \in [Counts -> Nat] /\ used.units \in [UnitNames -> Nat]
      /\ \A c \in Counts : told.tokens[c] \in {None, Some(used.tokens[c])}
      /\ \A u \in UnitNames : told.units[u] \in {None, Some(used.units[u])}
  BY DEF Uses, ToldOf
<1>3. ASSUME NEW m, known(m)
      PROVE  LET it == price(m)[1] IN
             /\ Charges(provider, m) /\ CostOK(it) /\ charge(m) \in Nat
             /\ it.status \in {"priced", "partial"} /\ it.currency = Some(built.prices.currency)
             /\ it.micros[1] * Million <= charge(m)
             /\ it.status = "priced" /\ charge(m) <= Most =>
                  charge(m) < (it.micros[1] + PartsOfARate) * Million
  BY <1>1, <1>2, <1>3, PriceIsBilled, ChargesPossible
<1>4. /\ bill.provider = provider /\ bill.currency = built.prices.currency
      /\ bill.amount = Charge(IF model = None THEN NoRate ELSE rates[model[1]], used.tokens, used.units)
      /\ bill.model = model /\ bill.priced = priced
  BY DEF Bill
<1>5. /\ Charges(provider, served) => model = Some(served)
      /\ ~Charges(provider, served) /\ Charges(provider, target) => model = Some(target)
      /\ ~Charges(provider, served) /\ ~Charges(provider, target) => model = None
  <2>1. Charges(provider, served) \in BOOLEAN /\ Charges(provider, target) \in BOOLEAN
    BY ChargesPossible
  <2>. QED
    BY <2>1, EitherOf DEF ModelBilled
<1>6. /\ known(served) => priced = Some(served)
      /\ ~known(served) /\ known(target) => priced = Some(target)
      /\ ~known(served) /\ ~known(target) => priced = None
  <2>1. known(served) \in BOOLEAN /\ known(target) \in BOOLEAN
    OBVIOUS
  <2>2. priced = OrElse(When(known(served), served), When(known(target), target))
    BY Zenon DEF ModelPriced
  <2>. HIDE DEF known, priced
  <2>. QED
    BY <2>1, <2>2, EitherOf
<1>7. cost = IF known(served) THEN price(served)[1]
             ELSE IF known(target) THEN price(target)[1]
             ELSE IF built.on_device THEN Free ELSE Unpriced
  BY DEF CostWith, Or, OrElse
<1>8. ASSUME NEW m, Charges(provider, m) PROVE rates[m] \in Rates
  BY <1>1, <1>8 DEF Charges, PricedWell, Rates
<1>9. ASSUME NEW rate \in Rates PROVE Charge(rate, used.tokens, used.units) \in Nat
  <2>1. TokenCharge(rate, used.tokens) \in Nat
    BY <1>2, TokensAreFloors
  <2>2. UnitCharge(rate, used.units) \in Nat
    <3>. DEFINE measured == {p \in UnitParts : rate[p] # 0 /\ told.units[Measure[p]] # None}
    <3>1. measured = {p \in UnitParts : rate[p] # 0 /\ told.units[Measure[p]] # None}
      OBVIOUS
    <3>. HIDE DEF measured
    <3>. QED
      BY <1>2, <3>1, UnitsAreFloors
  <2>. QED
    BY <2>1, <2>2, ChargeIs
<1>10. BillOK(bill)
  <2>1. (IF model = None THEN NoRate ELSE rates[model[1]]) \in Rates
    <3>1. NoRate \in Rates
      BY DEF NoRate, Rates
    <3>2. model # None => rates[model[1]] \in Rates
      BY <1>5, <1>8, SomeIs
    <3>. QED
      BY <3>1, <3>2
  <2>2. bill.amount \in Nat
    BY <1>4, <1>9, <2>1
  <2>. QED
    BY <1>4, <2>2 DEF BillOK
<1>. HIDE DEF known, model, priced, price, rates, charge, bill, cost
<1>11. ASSUME NEW m, known(m), cost = price(m)[1], priced = Some(m)
       PROVE  CostOK(cost) /\ CostBilled(cost, bill) /\ cost.status \in Statuses
  <2>1. /\ Charges(provider, m) /\ CostOK(cost) /\ charge(m) \in Nat
        /\ cost.status \in {"priced", "partial"} /\ cost.currency = Some(built.prices.currency)
        /\ cost.micros[1] * Million <= charge(m)
        /\ cost.status = "priced" /\ charge(m) <= Most =>
             charge(m) < (cost.micros[1] + PartsOfARate) * Million
    BY <1>3, <1>11 DEF price
  <2>2. ~MisjudgedBill(bill) => bill.amount = charge(m)
    <3>1. ~MisjudgedBill(bill) => model = Some(m)
      BY <1>4, <1>11, SomeIs DEF MisjudgedBill
    <3>2. model = Some(m) => bill.amount = charge(m)
      BY <1>4, SomeIs DEF charge, rates
    <3>. QED
      BY <3>1, <3>2
  <2>3. cost.status \in Statuses /\ cost.status # "free" /\ cost.status # "none"
    BY <2>1 DEF Statuses
  <2>. QED
    BY <1>4, <2>1, <2>2, <2>3 DEF CostBilled
<1>12. ASSUME ~known(served), ~known(target)
       PROVE  CostOK(cost) /\ CostBilled(cost, bill) /\ cost.status \in Statuses
  <2>1. cost = IF built.on_device THEN Free ELSE Unpriced
    BY <1>7, <1>12
  <2>2. /\ cost.micros = None /\ cost.currency = None /\ cost.status \in {"free", "unpriced"}
        /\ cost.status = "free" => built.on_device
    BY <1>1, <2>1 DEF Free, Unpriced, CostSaying
  <2>3. bill.priced = None
    BY <1>4, <1>6, <1>12
  <2>4. bill.model = None => bill.amount = 0
    <3>1. bill.model = None => bill.amount = Charge(NoRate, used.tokens, used.units)
      BY <1>4
    <3>. QED
      BY <1>2, <3>1, NothingCharged
  <2>5. cost.status = "free" => bill.amount = 0 \/ OverlookedBill(bill)
    BY <1>4, <2>2, <2>3, <2>4 DEF OverlookedBill
  <2>. QED
    BY <2>2, <2>5 DEF CostOK, CostBilled, Statuses
<1>13. CostOK(cost) /\ CostBilled(cost, bill) /\ cost.status \in Statuses
  <2>1. CASE known(served)
    BY <1>6, <1>7, <1>11, <2>1
  <2>2. CASE ~known(served) /\ known(target)
    BY <1>6, <1>7, <1>11, <2>2
  <2>. QED
    BY <1>12, <2>1, <2>2
<1>. QED
  BY <1>4, <1>10, <1>13 DEF bill, cost

-----------------------------------------------------------------------------
(* What a media call consumes, and what is reported of it *)

SpentTold(endpoint, usage) ==
  \A c \in Counts : usage[c] \in {None, Some(SpentAt(endpoint)[c])}

(* What an endpoint spends is counted, and said of it truthfully whether   *)
(* nothing, all or two of its counts are reported.                         *)
LEMMA SpentIs ==
  ASSUME NEW endpoint
  PROVE  /\ SpentAt(endpoint) \in [Counts -> Nat]
         /\ SpentTold(endpoint, Absent) /\ SpentTold(endpoint, Reported(SpentAt(endpoint)))
         /\ \A usage : SpentTold(endpoint, usage) => SpentTold(endpoint, TwoCounts(usage))
<1>1. SpentAt(endpoint) \in [Counts -> Nat]
  BY DEF SpentAt, Spent
<1>2. SpentTold(endpoint, Absent) /\ SpentTold(endpoint, Reported(SpentAt(endpoint)))
  BY Zenon DEF SpentTold, Absent, Reported
<1>3. ASSUME NEW usage, SpentTold(endpoint, usage) PROVE SpentTold(endpoint, TwoCounts(usage))
  BY <1>3 DEF SpentTold, TwoCounts
<1>. QED
  BY <1>1, <1>2, <1>3

(* What OpenAI's reader has of the usage of a reply with vectors.          *)
LEMMA VectorsSpend ==
  ASSUME NEW request, NEW model, NEW name, NEW body \in OpenAIEmbedReplies(EmbedBody(request), model),
         NEW answer, answer = ReadOpenAIEmbeddings(body, request, name), answer.error = None
  PROVE  SpentTold("embeddings", answer.value[1].usage)
<1>. DEFINE usage == IF body.prompt = None THEN Absent
                     ELSE [c \in Counts |-> Some(IF c = "input" THEN body.prompt[1] ELSE 0)]
<1>1. body.prompt \in {None, Some(7)}
  <2>1. PICK data : body \in ListedFrom(data)
    BY DEF OpenAIEmbedReplies
  <2>. QED
    BY <2>1 DEF ListedFrom
<1>2. answer.value[1].usage = usage
  <2>1. \E vectors, m : answer = Answer(Embeddings(vectors, m, usage))
    BY Zenon, AnswersAre DEF ReadOpenAIEmbeddings
  <2>. HIDE DEF usage
  <2>2. PICK vectors, m : answer.value[1] = Embeddings(vectors, m, usage)
    BY <2>1, AnswersAre
  <2>. QED
    BY <2>2 DEF Embeddings
<1>3. CASE body.prompt = None
  <2>1. usage = Absent
    BY <1>3
  <2>. QED
    BY <1>2, <2>1, SpentIs
<1>4. CASE body.prompt = Some(7)
  <2>1. usage = [c \in Counts |-> Some(IF c = "input" THEN 7 ELSE 0)]
    BY <1>4 DEF Some, None
  <2>2. \A c \in Counts : SpentAt("embeddings")[c] = IF c = "input" THEN 7 ELSE 0
    BY DEF SpentAt, Spent
  <2>3. \A c \in Counts : usage[c] = Some(SpentAt("embeddings")[c])
    BY <2>1, <2>2
  <2>. QED
    BY <1>2, <2>3 DEF SpentTold
<1>. QED
  BY <1>1, <1>3, <1>4

(* Of one with pictures: how many there are is known as well.              *)
LEMMA PicturesSpend ==
  ASSUME NEW request,
         request.count = None \/ (request.count # None /\ request.count[1] \in 1..10),
         NEW model, NEW reply \in OpenAIImageReplies(OpenAIPictureBody(request)),
         NEW answer, answer = ReadOpenAIPictures(reply, request, model), answer.error = None
  PROVE  SpentTold("images", answer.value[1].usage) /\ Len(answer.value[1].pictures) \in Nat
<1>. DEFINE format == OrElse(reply.format, request.output_format)
            pictures == [i \in DOMAIN reply.data |-> ReadPicture(reply.data[i], format)]
<1>1. answer.value[1].pictures = pictures /\ answer.value[1].usage = TwoCounts(reply.usage)
  <2>1. answer = Answer(Images(pictures, Or(reply.model, model), TwoCounts(reply.usage)))
    BY AnswersAre DEF ReadOpenAIPictures
  <2>. HIDE DEF pictures
  <2>2. answer.value[1] = Images(pictures, Or(reply.model, model), TwoCounts(reply.usage))
    BY <2>1, AnswersAre
  <2>. QED
    BY <2>2 DEF Images
<1>2. SpentTold("images", TwoCounts(reply.usage))
  BY OpenAIReplyIs, SpentIs
<1>3. PICK n \in Nat : DOMAIN reply.data = 1..n
  BY OpenAIReplyIs
<1>4. DOMAIN pictures = 1..n /\ pictures = [i \in DOMAIN pictures |-> pictures[i]]
  BY <1>3
<1>. HIDE DEF pictures
<1>5. Len(pictures) \in Nat
  BY <1>4, IsList
<1>. QED
  BY <1>1, <1>2, <1>5

(* What Gemini reports of a reply with media.                              *)
LEMMA GeminiSpends ==
  ASSUME NEW type, NEW ofs, NEW reply \in GeminiReplies(type, ofs)
  PROVE  SpentTold("images", reply.usage) /\ SpentTold("speech", reply.usage)
<1>. DEFINE spent == Reported(SpentAt("images"))
<1>1. \/ reply \in Made(type, ofs, Absent) \/ reply \in Made(type, ofs, spent)
      \/ reply \in Unmade(type, spent) \/ reply \in Withheld(spent)
  BY DEF GeminiReplies
<1>2. ASSUME NEW usage, reply \in Made(type, ofs, usage) \/ reply \in Unmade(type, usage)
                        \/ reply \in Withheld(usage)
      PROVE  reply.usage = usage
  <2>1. CASE reply \in Made(type, ofs, usage)
    <3>1. PICK of \in ofs, m \in {None, Some(DatedAs)} :
            \/ reply = Generated(<<Caption, Inline(type, of)>>, "STOP", m, usage)
            \/ reply = Generated(<<Caption, Inline(type, of), Inline(type, of)>>, "STOP", m, usage)
      BY <2>1 DEF Made
    <3>. QED
      BY <3>1 DEF Generated
  <2>2. CASE reply \in Unmade(type, usage)
    <3>1. PICK parts \in {<<Caption>>, <<>>, <<Inline("no base64", type)>>} :
            reply = Generated(parts, "STOP", None, usage)
      BY <2>2 DEF Unmade
    <3>. QED
      BY <3>1 DEF Generated
  <2>3. CASE reply \in Withheld(usage)
    <3>. DEFINE shut == Generated(<<>>, "STOP", None, usage)
    <3>1. shut.usage = usage /\ Generated(<<>>, "IMAGE_SAFETY", None, usage).usage = usage
          /\ shut = [blocked |-> FALSE, parts |-> <<>>, finish |-> "STOP", model |-> None,
                     usage |-> usage]
      BY DEF Generated
    <3>2. [shut EXCEPT !.blocked = TRUE].usage = usage
      BY <3>1
    <3>3. \/ reply = Generated(<<>>, "IMAGE_SAFETY", None, usage)
          \/ reply = [shut EXCEPT !.blocked = TRUE]
      BY <2>3, Zenon DEF Withheld
    <3>. HIDE DEF shut
    <3>. QED
      BY <3>1, <3>2, <3>3
  <2>. QED
    BY <1>2, <2>1, <2>2, <2>3
<1>3. reply.usage = Absent \/ reply.usage = spent
  <2>. HIDE DEF spent
  <2>. QED
    BY <1>1, <1>2
<1>4. SpentAt("speech") = SpentAt("images")
  BY DEF SpentAt
<1>. QED
  BY <1>3, <1>4, SpentIs

(* Usage read from Gemini's pictures is that of the reply (gemini_images). *)
LEMMA GeminiPicturesSpend ==
  ASSUME NEW request, GeminiPictureFault(request) = None,
         NEW model, NEW reply \in GeminiReplies("image", {"png"}),
         NEW answer, answer = ReadGeminiPictures(reply, request, model), answer.error = None
  PROVE  SpentTold("images", answer.value[1].usage) /\ Len(answer.value[1].pictures) \in Nat
BY GeminiDraws, GeminiSpends

(* Of a recording nothing is reported but by Gemini, and how long a text it*)
(* is of is known.                                                         *)
LEMMA SpeechSpends ==
  ASSUME NEW request, NEW model, NEW reply,
         NEW answer, answer = ReadOpenAISpeech(reply, request, model), answer.error = None
  PROVE  SpentTold("speech", answer.value[1].usage)
<1>1. \E type, holds : answer = Answer(Spoken(type, holds, model, Absent))
  BY Zenon, AnswersAre DEF ReadOpenAISpeech
<1>2. \E type, holds : answer.value[1] = Spoken(type, holds, model, Absent)
  BY <1>1, AnswersAre
<1>3. answer.value[1].usage = Absent
  BY <1>2 DEF Spoken
<1>. QED
  BY <1>3, SpentIs

(* Usage read from Gemini's speech is that of the reply (gemini_speech).   *)
LEMMA GeminiSpeechSpends ==
  ASSUME NEW request, NEW model, NEW ofs, NEW reply \in GeminiReplies("audio", ofs),
         NEW answer, answer = ReadGeminiSpeech(reply, request, model), answer.error = None,
         GeminiSpeechFault(request) = None
  PROVE  SpentTold("speech", answer.value[1].usage)
<1>. DEFINE heard == Typed(Or(InlineParts(reply).value, <<>>), "audio")
            shaped == Shape(Head(heard), Or(request.format, "wav"))
            served == Or(reply.model, model)
            told == Spoken(shaped.value[1][1], shaped.value[1][2], served, reply.usage)
<1>1. shaped.error = None /\ answer = Answer(told)
  BY AnswersAre DEF ReadGeminiSpeech
<1>2. answer.value[1] = told
  <2>. HIDE DEF told
  <2>. QED
    BY <1>1, AnswersAre
<1>3. told.usage = reply.usage
  <2>. HIDE DEF shaped, served
  <2>. QED
    BY DEF Spoken
<1>. HIDE DEF told
<1>. QED
  BY <1>2, <1>3, GeminiSpends

(* Usage read from a transcript is that of the reply (transcriptions).     *)
LEMMA TextSpends ==
  ASSUME NEW request, NEW model, NEW reply \in TranscriptReplies(TranscriptionBody(request)),
         NEW answer, answer = ReadTranscription(reply, request, model), answer.error = None
  PROVE  /\ SpentTold("transcriptions", answer.value[1].usage)
         /\ answer.value[1].millis \in {None, Some(25)}
<1>. DEFINE told == answer.value[1]
            spent == Reported(SpentAt("transcriptions"))
            usage == IF reply.metered = "tokens" THEN TwoCounts(reply.usage) ELSE Absent
            millis == IF reply.metered = "duration" THEN reply.millis ELSE None
<1>1. reply.usage \in {Absent, spent} /\ reply.millis \in {None, Some(25)}
  <2>. HIDE DEF spent
  <2>. QED
    BY DEF TranscriptReplies, spent
<1>2. told.usage = usage /\ told.millis = millis
  <2>1. answer = Answer([text |-> reply.text[1], model |-> model, usage |-> usage, millis |-> millis])
    BY AnswersAre DEF ReadTranscription
  <2>. HIDE DEF usage, millis
  <2>2. answer.value[1] = [text |-> reply.text[1], model |-> model, usage |-> usage, millis |-> millis]
    BY <2>1, AnswersAre
  <2>. QED
    BY <2>2
<1>3. SpentTold("transcriptions", reply.usage)
  BY <1>1, SpentIs
<1>4. SpentTold("transcriptions", usage)
  BY <1>3, SpentIs
<1>5. millis \in {None, Some(25)}
  BY <1>1
<1>. QED
  BY <1>2, <1>4, <1>5

(* What is not at fault with a body that asks for speech: there is a text. *)
LEMMA SpeechAskedFor ==
  ASSUME NEW body, NoModel(body) \o SpeechFaults(body) = <<>>
  PROVE  ReadString(body, "input") # None
<1>. DEFINE a == NotOneOf(body, "stream_format", {"audio"})
            b == NoText(body, "input")
            c == When(ReadVoice(body) = None, "voice")
            d == NoString(body, "response_format")
            e == NoString(body, "instructions")
            f == NotWithin(body, "speed", 25, 400)
            ab == a \o b
            abc == ab \o c
            abcd == abc \o d
            abcde == abcd \o e
<1>1. /\ "model" \in Fields /\ "input" \in Fields /\ "stream_format" \in Fields /\ "voice" \in Fields
      /\ "response_format" \in Fields /\ "instructions" \in Fields /\ "speed" \in Fields
  BY DEF Fields
<1>2. /\ a \in Seq(Fields) /\ b \in Seq(Fields) /\ c \in Seq(Fields)
      /\ d \in Seq(Fields) /\ e \in Seq(Fields) /\ f \in Seq(Fields)
  BY <1>1, FaultsAreNames, ZenonT(40)
<1>3. NoModel(body) \in Seq(Fields)
  BY <1>1, FaultsAreNames DEF NoModel
<1>4. SpeechFaults(body) = abcde \o f
  BY DEF SpeechFaults
<1>5. b = <<>> => Or(ReadString(body, "input"), <<>>) # <<>>
  BY NoFault DEF NoText
<1>. HIDE DEF a, b, c, d, e, f
<1>6. ab \in Seq(Fields)
  BY <1>2, ConcatProperties
<1>. HIDE DEF ab
<1>7. abc \in Seq(Fields)
  BY <1>2, <1>6, ConcatProperties
<1>. HIDE DEF abc
<1>8. abcd \in Seq(Fields)
  BY <1>2, <1>7, ConcatProperties
<1>. HIDE DEF abcd
<1>9. abcde \in Seq(Fields)
  BY <1>2, <1>8, ConcatProperties
<1>. HIDE DEF abcde
<1>10. SpeechFaults(body) = <<>>
  BY <1>2, <1>3, <1>4, <1>9, ConcatProperties, BothEmpty
<1>11. abcde = <<>>
  BY <1>2, <1>4, <1>9, <1>10, BothEmpty
<1>12. abcd = <<>>
  BY <1>2, <1>8, <1>11, BothEmpty DEF abcde
<1>13. abc = <<>>
  BY <1>2, <1>7, <1>12, BothEmpty DEF abcd
<1>14. ab = <<>>
  BY <1>2, <1>6, <1>13, BothEmpty DEF abc
<1>15. b = <<>>
  BY <1>2, <1>14, BothEmpty DEF ab
<1>16. Or(ReadString(body, "input"), <<>>) # <<>>
  BY <1>5, <1>15
<1>. QED
  BY <1>16 DEF Or

(* Whatever a vendor's answer to what was well asked is, what is reported  *)
(* of it is part of what it consumed.                                      *)
LEMMA AnswerIsOfUse ==
  ASSUME NEW sends \in Sends, WellAsked(sends),
         NEW type \in {"gemini", "openai"}, Serves(type, KindAt[sends.endpoint]),
         NEW endpoint, endpoint = sends.endpoint,
         NEW sent, sent = sends.sent.body,
         NEW request, request = ReadMedia(endpoint, sent),
         FaultHere(type, endpoint, request) = None,
         NEW target,
         NEW reply \in Replies(type, endpoint, BodyFor(type, endpoint, request), target, Faulty),
         NEW answer, answer = ReadReply(type, endpoint, reply, request, target),
         answer.error = None,
         NEW told, told = answer.value[1]
  PROVE  LET used == Consumed(endpoint, request, told)
             reported == [tokens |-> told.usage, units |-> Produced(endpoint, request, told)]
         IN used \in Uses /\ ToldOf(reported, used)
<1>. DEFINE body == reply.body
            used == Consumed(endpoint, request, told)
            units == Produced(endpoint, request, told)
            reported == [tokens |-> told.usage, units |-> units]
<1>1. endpoint \in {"embeddings", "images", "speech", "transcriptions"} /\ Sendable(sends)
  BY MediaAssumption DEF KindAt
<1>2. /\ body \in Bodies(type, endpoint, BodyFor(type, endpoint, request), target)
      /\ answer = ReadBody(type, endpoint, body, request, target)
  <2>1. Success(reply.status) /\ answer = ReadBody(type, endpoint, body, request, target)
    BY AnswersAre DEF ReadReply
  <2>2. \A failed \in Faulty : ~Success(failed[1])
    BY MediaAssumption
  <2>3. CASE \E b \in Bodies(type, endpoint, BodyFor(type, endpoint, request), target) :
               reply = [status |-> 200, retry_after |-> FALSE, body |-> b]
    BY <2>1, <2>3
  <2>4. CASE \E s \in Faulty : reply = [status |-> s[1], retry_after |-> s[2], body |-> None]
    BY <2>1, <2>2, <2>4
  <2>. QED
    BY <2>3, <2>4 DEF Replies
<1>. HIDE DEF body
<1>3. NoModel(sent) \o FaultsAt(endpoint, sent) = <<>>
  BY DEF WellAsked, Faults
<1>4. ASSUME SpentTold(endpoint, told.usage),
             endpoint = "images" => Len(told.pictures) \in Nat,
             endpoint = "speech" => Len(request.input) \in Nat,
             endpoint = "transcriptions" => told.millis \in {None, Some(25)}
      PROVE  used \in Uses /\ ToldOf(reported, used)
  <2>1. used.tokens = SpentAt(endpoint) /\ used.tokens \in [Counts -> Nat]
    BY SpentIs DEF Consumed
  <2>2. /\ used.units = [images |-> IF endpoint = "images" THEN Len(told.pictures) ELSE 0,
                         audio_millis |-> IF endpoint = "transcriptions" THEN 25 ELSE 0,
                         characters |-> IF endpoint = "speech" THEN Len(request.input) ELSE 0]
        /\ used = [tokens |-> used.tokens, units |-> used.units]
    BY Zenon DEF Consumed
  <2>3. used.units \in [UnitNames -> Nat]
    BY <1>4, <2>2, SMTT(30) DEF UnitNames
  <2>4. used \in Uses
    BY <2>1, <2>2, <2>3 DEF Uses
  <2>5. \A c \in Counts : reported.tokens[c] \in {None, Some(used.tokens[c])}
    BY <1>4, <2>1 DEF SpentTold
  <2>6. ASSUME NEW u \in UnitNames PROVE units[u] \in {None, Some(used.units[u])}
    <3>1. NoUnits[u] = None /\ NoUnits = [unit \in UnitNames |-> None]
      BY DEF NoUnits, UnitNames
    <3>2. CASE endpoint = "embeddings"
      BY <3>1, <3>2 DEF Produced
    <3>3. CASE endpoint = "images"
      <4>1. units = [NoUnits EXCEPT !["images"] = Some(Len(told.pictures))]
        BY <3>3 DEF Produced
      <4>2. used.units["images"] = Len(told.pictures)
        BY <2>2, <3>3
      <4>. HIDE DEF units, used
      <4>. QED
        BY <3>1, <4>1, <4>2 DEF UnitNames
    <3>4. CASE endpoint = "speech"
      <4>1. units = [NoUnits EXCEPT !["characters"] = Some(Len(request.input))]
        BY <3>4 DEF Produced
      <4>2. used.units["characters"] = Len(request.input)
        BY <2>2, <3>4
      <4>. HIDE DEF units, used
      <4>. QED
        BY <3>1, <4>1, <4>2 DEF UnitNames
    <3>5. CASE endpoint = "transcriptions"
      <4>1. units = [NoUnits EXCEPT !["audio_millis"] = told.millis]
        BY <3>5 DEF Produced
      <4>2. used.units["audio_millis"] = 25
        BY <2>2, <3>5
      <4>3. told.millis \in {None, Some(25)}
        BY <1>4, <3>5
      <4>. HIDE DEF units, used
      <4>. QED
        BY <3>1, <4>1, <4>2, <4>3 DEF UnitNames
    <3>. QED
      BY <1>1, <3>2, <3>3, <3>4, <3>5
  <2>7. reported.units = units
    OBVIOUS
  <2>. HIDE DEF used, units, reported
  <2>. QED
    BY <2>4, <2>5, <2>6, <2>7 DEF ToldOf
<1>. SUFFICES used \in Uses /\ ToldOf(reported, used)
  OBVIOUS
<1>. HIDE DEF used, reported, units
<1>5. CASE endpoint = "embeddings"
  <2>1. SpentTold(endpoint, told.usage)
    <3>0. BodyFor(type, endpoint, request) = EmbedBody(request)
      BY <1>5 DEF BodyFor
    <3>1. CASE type = "openai"
      <4>1. body \in OpenAIEmbedReplies(EmbedBody(request), target)
        BY <1>2, <1>5, <3>0, <3>1 DEF Bodies
      <4>2. answer = ReadOpenAIEmbeddings(body, request, target)
        BY <1>2, <1>5, <3>1 DEF ReadBody
      <4>. QED
        BY <1>5, <4>1, <4>2, VectorsSpend
    <3>2. CASE type = "gemini"
      <4>1. answer = ReadGeminiEmbeddings(body, request, target)
        BY <1>2, <1>5, <3>2 DEF ReadBody
      <4>2. \E vectors : answer = Answer(Embeddings(vectors, target, Absent))
        BY <4>1, Zenon, AnswersAre DEF ReadGeminiEmbeddings
      <4>3. \E vectors : told = Embeddings(vectors, target, Absent)
        BY <4>2, AnswersAre
      <4>4. told.usage = Absent
        BY <4>3 DEF Embeddings
      <4>. QED
        BY <4>4, SpentIs
    <3>. QED
      BY <3>1, <3>2
  <2>. QED
    BY <1>4, <1>5, <2>1
<1>6. CASE endpoint = "images"
  <2>1. SpentTold("images", told.usage) /\ Len(told.pictures) \in Nat
    <3>1. CASE type = "openai"
      <4>1. /\ Given(sent, "n") => (sent["n"].is = "number" => sent["n"].n \in Int)
            /\ NoModel(sent) \o ImageFaults(sent) = <<>>
        BY <1>1, <1>3, <1>6 DEF Sendable, WellAsked, FaultsAt
      <4>2. request.count = None \/ (request.count # None /\ request.count[1] \in 1..10)
        BY <1>6, <4>1, PicturesAskedFor
      <4>3. BodyFor(type, endpoint, request) = OpenAIPictureBody(request)
        BY <1>6, <3>1 DEF BodyFor
      <4>4. body \in OpenAIImageReplies(OpenAIPictureBody(request))
        BY <1>2, <1>6, <3>1, <4>3 DEF Bodies
      <4>5. answer = ReadOpenAIPictures(body, request, target)
        BY <1>2, <1>6, <3>1 DEF ReadBody
      <4>. QED
        BY <4>2, <4>4, <4>5, PicturesSpend
    <3>2. CASE type = "gemini"
      <4>1. body \in GeminiReplies("image", {"png"})
        BY <1>2, <1>6, <3>2 DEF Bodies
      <4>2. answer = ReadGeminiPictures(body, request, target)
        BY <1>2, <1>6, <3>2 DEF ReadBody
      <4>3. GeminiPictureFault(request) = None
        BY <1>6, <3>2 DEF FaultHere
      <4>. QED
        BY <4>1, <4>2, <4>3, GeminiPicturesSpend
    <3>. QED
      BY <3>1, <3>2
  <2>. QED
    BY <1>4, <1>6, <2>1
<1>7. CASE endpoint = "speech"
  <2>1. SpentTold("speech", told.usage)
    <3>1. CASE type = "openai"
      <4>1. answer = ReadOpenAISpeech(body, request, target)
        BY <1>2, <1>7, <3>1 DEF ReadBody
      <4>. QED
        BY <4>1, SpeechSpends
    <3>2. CASE type = "gemini"
      <4>1. GeminiSpeechFault(request) = None
        BY <1>7, <3>2 DEF FaultHere
      <4>2. body \in GeminiReplies("audio", {"l16", "wav", "mp3"})
        BY <1>2, <1>7, <3>2 DEF Bodies
      <4>3. answer = ReadGeminiSpeech(body, request, target)
        BY <1>2, <1>7, <3>2 DEF ReadBody
      <4>. QED
        BY <4>1, <4>2, <4>3, GeminiSpeechSpends
    <3>. QED
      BY <3>1, <3>2
  <2>2. Len(request.input) \in Nat
    <3>1. ReadString(sent, "input") # None
      <4>1. NoModel(sent) \o SpeechFaults(sent) = <<>>
        BY <1>3, <1>7 DEF FaultsAt
      <4>. QED
        BY <4>1, SpeechAskedFor
    <3>2. sent["input"].s \in Seq(ToSet(sent["input"].s))
      BY <1>1, <1>7, <3>1 DEF Sendable, WellAsked
    <3>3. request.input = ReadString(sent, "input")[1]
      BY <1>7 DEF ReadMedia
    <3>4. ReadString(sent, "input")[1] = sent["input"].s
      BY <3>1 DEF ReadString, When, Some, None
    <3>. QED
      BY <3>2, <3>3, <3>4, LenProperties
  <2>. QED
    BY <1>4, <1>7, <2>1, <2>2
<1>8. CASE endpoint = "transcriptions"
  <2>1. body \in TranscriptReplies(TranscriptionBody(request))
    BY <1>2, <1>8 DEF Bodies, BodyFor
  <2>2. answer = ReadTranscription(body, request, target)
    BY <1>2, <1>8 DEF ReadBody
  <2>3. SpentTold("transcriptions", told.usage) /\ told.millis \in {None, Some(25)}
    BY <2>1, <2>2, TextSpends
  <2>. QED
    BY <1>4, <1>8, <2>3
<1>. QED
  BY <1>1, <1>5, <1>6, <1>7, <1>8

-----------------------------------------------------------------------------
(* The inductive invariant: what rows say of their costs, and what is      *)
(* billed for the requests they are of                                     *)

TokensOK(tokens) == \A c \in Counts : tokens[c] \in Options(Nat)

(* A row of a request nothing is billed for says nothing of a cost.        *)
RowBilled(row, billed) ==
  /\ CostOK(row.cost) /\ TokensOK(row.tokens)
  /\ row.request_id \in DOMAIN billed => CostBilled(row.cost, billed[row.request_id])
  /\ row.request_id \notin DOMAIN billed => row.cost.status = "none"

RowsBilled ==
  /\ \A i \in DOMAIN table : RowBilled(table[i], bills)
  /\ \A j \in DOMAIN queue : RowBilled(queue[j], bills)

(* Nothing is billed for a call before it has an answer.                   *)
UnbilledYet ==
  call.phase # "idle" => log[Number].billed = None /\ Number \notin DOMAIN bills

BillsAre ==
  \A id \in DOMAIN bills : BillOK(bills[id]) /\ (id > MaxCalls \/ id \in 1..Number)

BilledInv == RowsBilled /\ UnbilledYet /\ BillsAre

(* Nothing is said of the cost of a request that failed.                   *)
LEMMA SaysNothing ==
  ASSUME NEW row, row.cost = NoCost, row.tokens = Absent, NEW billed,
         row.request_id \in DOMAIN billed => billed[row.request_id].amount = 0
  PROVE  RowBilled(row, billed)
<1>1. NoCost.status = "none" /\ NoCost.micros = None /\ NoCost.currency = None
  BY DEF NoCost, CostSaying
<1>2. CostOK(NoCost)
  BY <1>1 DEF CostOK
<1>3. TokensOK(Absent)
  BY DEF TokensOK, Absent, Options
<1>4. ASSUME NEW bill, bill.amount = 0 PROVE CostBilled(NoCost, bill)
  BY <1>1, <1>4 DEF CostBilled
<1>. QED
  BY <1>1, <1>2, <1>3, <1>4 DEF RowBilled

(* The row of a call that failed or was refused says nothing of cost or    *)
(* tokens (failed_row).                                                    *)
LEMMA FailedSaysNothing ==
  ASSUME NEW id, NEW asked, NEW code
  PROVE  /\ FailedRow(id, asked, code).cost = NoCost /\ FailedRow(id, asked, code).tokens = Absent
         /\ FailedRow(id, asked, code).request_id = id
         /\ RefusedRow(id, asked).cost = NoCost /\ RefusedRow(id, asked).tokens = Absent
         /\ RefusedRow(id, asked).request_id = id
<1>1. /\ FailedRow(id, asked, code).cost = NoCost /\ FailedRow(id, asked, code).tokens = Absent
      /\ FailedRow(id, asked, code).request_id = id
  BY DEF FailedRow, Row
<1>. DEFINE row == FailedRow(id, asked, "refused")
<1>2. row.cost = NoCost /\ row.tokens = Absent /\ row.request_id = id
  BY DEF FailedRow, Row
<1>3. DOMAIN row = {"at", "request_id", "asked", "route", "provider", "served", "outcome", "code",
                    "attempts", "fell_through", "tokens", "cost"}
  BY DEF FailedRow, Row
<1>4. RefusedRow(id, asked) = [row EXCEPT !.outcome = "refused"]
  BY DEF RefusedRow
<1>. HIDE DEF row
<1>. QED
  BY <1>1, <1>2, <1>3, <1>4

(* A row that is added leaves what the others say as it was, where nothing *)
(* else is billed for the requests they are of.                            *)
LEMMA RowsStayBilled ==
  ASSUME AccountsShape, RowsOnce, RowsBilled, UNCHANGED table,
         \A id \in Numbered : /\ (id \in DOMAIN bills') <=> (id \in DOMAIN bills)
                              /\ id \in DOMAIN bills => bills'[id] = bills[id],
         queue' = queue \/ \E row : Enqueue(row) /\ RowBilled(row, bills')
  PROVE  RowsBilled'
<1>1. ASSUME NEW row, row.request_id \in Numbered, RowBilled(row, bills)
      PROVE  RowBilled(row, bills')
  BY <1>1 DEF RowBilled
<1>2. \A i \in DOMAIN table : RowBilled(table[i], bills')
  BY <1>1 DEF RowsOnce, RowsBilled
<1>3. \A j \in DOMAIN queue : RowBilled(queue[j], bills')
  BY <1>1 DEF RowsOnce, RowsBilled
<1>4. \A j \in DOMAIN queue' : RowBilled(queue'[j], bills')
  <2>1. CASE queue' = queue
    BY <1>3, <2>1, Zenon
  <2>2. CASE \E row : Enqueue(row) /\ RowBilled(row, bills')
    <3>1. PICK row : queue' = Append(queue, row) /\ RowBilled(row, bills')
      BY <2>2 DEF Enqueue
    <3>2. queue \in Seq(ToSet(queue))
      BY DEF AccountsShape
    <3>3. /\ Len(queue) \in Nat /\ DOMAIN queue = 1..Len(queue)
          /\ DOMAIN queue' = 1..Len(queue) + 1 /\ queue'[Len(queue) + 1] = row
          /\ \A j \in 1..Len(queue) : queue'[j] = queue[j]
      BY <3>1, <3>2, Longer
    <3>4. \A j \in DOMAIN queue' : j \in DOMAIN queue \/ j = Len(queue) + 1
      BY <3>3
    <3>. QED
      BY <1>3, <3>1, <3>3, <3>4, Zenon
  <2>. QED
    BY <2>1, <2>2
<1>. QED
  BY <1>2, <1>4 DEF RowsBilled

(* One bill more leaves the others as they are.                            *)
LEMMA OneBillMore ==
  ASSUME NEW id, NEW bill, Billed(id, bill)
  PROVE  /\ DOMAIN bills' = DOMAIN bills \cup {id} /\ bills'[id] = bill
         /\ \A i \in DOMAIN bills : i # id => bills'[i] = bills[i]
BY DEF Billed

-----------------------------------------------------------------------------
(* A step of a media call *)

(* What a call that ends without an answer leaves: nothing to bill.        *)
Unanswered ==
  /\ log'[Number].billed = None /\ Number' = Number /\ table' = table
  /\ \/ queue' = queue
     \/ \E row : /\ Enqueue(row) /\ row.request_id = Number
                 /\ row.cost = NoCost /\ row.tokens = Absent

(* What one that ends with an answer leaves: what to bill, and a row that  *)
(* says what of it was reported.                                           *)
Answered ==
  \E b, row :
    /\ log'[Number].billed = Some(b) /\ Number' = Number /\ table' = table
    /\ b.provider \in DOMAIN Built /\ b.consumed \in Uses /\ ToldOf(b.reported, b.consumed)
    /\ Enqueue(row) /\ row.request_id = Number /\ row.tokens = b.reported.tokens
    /\ row.cost = CostWith(Built[b.provider], b.target, b.served, b.reported.tokens,
                           b.reported.units)
    /\ call'.phase = "idle"

(* A log entry replaced by one that is not billed is not billed.           *)
LEMMA EntryUnbilled ==
  ASSUME IInv, call.phase # "idle", NEW e, log' = [log EXCEPT ![Number] = e], e.billed = None
  PROVE  log'[Number].billed = None /\ Number' = Number
<1>1. Number \in 1..Number /\ MediaShape
  BY CallFacts DEF IInv, CallInv
<1>. QED
  BY <1>1, EntryReplaced

(* A call that ends with an error ends unbilled (Call::failed).            *)
LEMMA ClosedUnbilled ==
  ASSUME IInv, call.phase # "idle", NEW entry, entry.billed = None,
         DOMAIN entry = DOMAIN log[Number], NEW error, Closes(entry, error)
  PROVE  Unanswered
<1>. DEFINE e == [entry EXCEPT !.how = error]
<1>1. log' = [log EXCEPT ![Number] = e]
  BY DEF Closes, Ends
<1>2. DOMAIN log[Number] = {"sends", "plan", "tries", "how", "answer", "billed"}
  BY CallFacts DEF IInv, CallInv, EntryOK
<1>3. e.billed = None
  BY <1>2
<1>. HIDE DEF e
<1>4. log'[Number].billed = None /\ Number' = Number
  BY <1>1, <1>3, EntryUnbilled
<1>5. table' = table /\ Enqueue(FailedRow(Number, Asked, CodeOf[error]))
  BY Zenon, SomeIs DEF Closes, Ends
<1>. QED
  BY <1>4, <1>5, FailedSaysNothing DEF Unanswered

(* A try that failed leaves the call unbilled, ended or not (Router::run). *)
LEMMA FailureUnbilled ==
  ASSUME IInv, call.phase # "idle", log[Number].billed = None, NEW error, NEW after,
         Fall(error, after)
  PROVE  Unanswered
<1>. DEFINE entry == log[Number]
            e == WithFailure(entry, error)
            refused == [e EXCEPT !.how = "refused"]
<1>1. \/ /\ log' = [log EXCEPT ![Number] = refused] /\ table' = table
         /\ Enqueue(RefusedRow(Number, Asked))
      \/ log' = [log EXCEPT ![Number] = e] /\ queue' = queue /\ table' = table
      \/ Closes(e, "timeout")
  <2>1. CASE error = "refused"
    <3>1. Ends(refused, Some(RefusedRow(Number, Asked)))
      BY <2>1, Zenon DEF Fall, WithFailure
    <3>. QED
      BY <3>1, Zenon, SomeIs DEF Ends
  <2>2. CASE error # "refused"
    BY <2>2 DEF Fall, WithFailure, Steps, accounts
  <2>. QED
    BY <2>1, <2>2
<1>2. DOMAIN entry = {"sends", "plan", "tries", "how", "answer", "billed"}
  BY CallFacts DEF IInv, CallInv, EntryOK
<1>3. DOMAIN e = DOMAIN entry /\ e.billed = None
  BY <1>2 DEF WithFailure
<1>4. refused.billed = None
  <2>. HIDE DEF e
  <2>. QED
    BY <1>2, <1>3
<1>. HIDE DEF e, refused
<1>5. CASE Closes(e, "timeout")
  BY <1>3, <1>5, ClosedUnbilled
<1>6. CASE /\ log' = [log EXCEPT ![Number] = refused] /\ table' = table
           /\ Enqueue(RefusedRow(Number, Asked))
  <2>1. log'[Number].billed = None /\ Number' = Number
    BY <1>4, <1>6, EntryUnbilled
  <2>2. \E row : /\ Enqueue(row) /\ row.request_id = Number
                 /\ row.cost = NoCost /\ row.tokens = Absent
    BY <1>6, FailedSaysNothing
  <2>. QED
    BY <1>6, <2>1, <2>2 DEF Unanswered
<1>7. CASE log' = [log EXCEPT ![Number] = e] /\ queue' = queue /\ table' = table
  BY <1>3, <1>7, EntryUnbilled DEF Unanswered
<1>. QED
  BY <1>1, <1>5, <1>6, <1>7

(* A vendor's answer ends the call with a bill and a row that tells it, or *)
(* ends or goes on with neither (Call::answered).                          *)
LEMMA AnswerBilled ==
  ASSUME IInv, AnswersInv, log[Number].billed = None, NEW took \in Took, Respond(took)
  PROVE  Unanswered \/ Answered
<1>. DEFINE sends == call.sends[1]
            sent == sends.sent.body
            type == Provider.type
            reading(reply) == ReadReply(type, Endpoint, reply, Request, Target)
<1>1. /\ call.phase = "sent" /\ FaultHere(type, Endpoint, Request) = None
      /\ call.phase # "idle"
  BY DEF Respond
<1>2. PICK reply \in Replies(type, Endpoint, BodyFor(type, Endpoint, Request), Target, Faulty) :
        Hear(reading(reply), reply, took)
  BY DEF Respond
<1>3. CASE reading(reply).error # None
  BY <1>1, <1>2, <1>3, FailureUnbilled DEF Hear
<1>4. CASE reading(reply).error = None
  <2>. DEFINE answer == reading(reply)
              told == answer.value[1]
              units == Produced(Endpoint, Request, told)
              used == Consumed(Endpoint, Request, told)
              reported == [tokens |-> told.usage, units |-> units]
              cost == CostWith(Provider, Target, told.model, told.usage, units)
              body == WrittenBody(Endpoint, sent, told)
              whole == WithHeaders(body, RouteName, call.tries, call.fell, cost)
              provider == Split[RouteName].provider
              bill == [provider |-> provider, target |-> Target, served |-> told.model,
                       replied |-> reply.body, consumed |-> used, reported |-> reported]
              route == [name |-> RouteName, provider |-> provider]
              row == AnsweredRow(Number, Asked, route, told.model, "ok", call.tries, call.fell,
                                 told.usage, cost)
              e == [log[Number] EXCEPT !.how = "answered", !.answer = Some(whole),
                                       !.billed = Some(bill)]
  <2>1. /\ log' = [log EXCEPT ![Number] = e] /\ call' = Idle /\ Enqueue(row) /\ table' = table
    <3>1. Succeed(told, reply, call.tries)
      BY <1>2, <1>4 DEF Hear
    <3>2. Ends(e, Some(row))
      BY <3>1, Zenon DEF Succeed
    <3>. HIDE DEF e, row
    <3>. QED
      BY <3>2, Zenon, SomeIs DEF Ends
  <2>2. /\ log[Number].sends = sends /\ sends \in Sends /\ WellAsked(sends)
        /\ DOMAIN log[Number] = {"sends", "plan", "tries", "how", "answer", "billed"}
    BY <1>1, CallIsAsked
  <2>3. /\ type \in {"gemini", "openai"} /\ Serves(type, KindAt[sends.endpoint])
        /\ provider \in DOMAIN Built
    <3>1. MayBeAsked(call) /\ Serves(type, KindAt[Endpoint])
      BY <1>1, SentIs DEF IInv
    <3>2. type \in {"anthropic", "gemini", "openai"} /\ provider \in DOMAIN Built
      BY <3>1, MediaAssumption, Zenon DEF MayBeAsked, RouteAt, Provider, RouteName, Chosen
    <3>3. type # "anthropic"
      BY <3>1 DEF Serves
    <3>. QED
      BY <3>1, <3>2, <3>3 DEF Endpoint
  <2>4. used \in Uses /\ ToldOf(reported, used)
    <3>1. /\ Endpoint = sends.endpoint /\ Request = ReadMedia(Endpoint, sent)
          /\ sent = sends.sent.body /\ answer.error = None
          /\ answer = ReadReply(type, Endpoint, reply, Request, Target)
      BY <1>4 DEF Endpoint, Request
    <3>2. reply \in Replies(type, Endpoint, BodyFor(type, Endpoint, Request), Target, Faulty)
      OBVIOUS
    <3>3. told = answer.value[1]
      OBVIOUS
    <3>. HIDE DEF answer, type, sends, sent, told
    <3>. QED
      BY <1>1, <2>2, <2>3, <3>1, <3>2, <3>3, AnswerIsOfUse, SMTT(60)
  <2>5. e.billed = Some(bill)
    <3>. HIDE DEF whole, bill
    <3>. QED
      BY <2>2
  <2>6. log'[Number].billed = Some(bill) /\ Number' = Number
    <3>1. Number \in 1..Number /\ MediaShape
      BY <1>1, CallFacts DEF IInv, CallInv
    <3>. HIDE DEF e, bill
    <3>. QED
      BY <2>1, <2>5, <3>1, EntryReplaced
  <2>7. /\ row.request_id = Number /\ row.tokens = told.usage /\ row.cost = cost
    BY DEF AnsweredRow, Row
  <2>8. /\ bill.provider = provider /\ bill.target = Target /\ bill.served = told.model
        /\ bill.consumed = used /\ bill.reported = reported
    OBVIOUS
  <2>9. reported.tokens = told.usage /\ reported.units = units
    OBVIOUS
  <2>10. cost = CostWith(Built[provider], Target, told.model, told.usage, units)
    BY DEF Provider
  <2>11. call'.phase = "idle"
    BY <2>1, IdleIs
  <2>. HIDE DEF bill, row, cost, used, reported, provider, told, units, e
  <2>12. row.cost = CostWith(Built[bill.provider], bill.target, bill.served, bill.reported.tokens,
                             bill.reported.units)
    BY <2>7, <2>8, <2>9, <2>10
  <2>13. Answered
    BY <2>1, <2>3, <2>4, <2>6, <2>7, <2>8, <2>9, <2>11, <2>12 DEF Answered
  <2>. QED
    BY <2>13
<1>. QED
  BY <1>3, <1>4

(* The same of every step of a call to an endpoint beside chat             *)
(* (Gateway::media).                                                       *)
LEMMA ServedBilled ==
  ASSUME IInv, AnswersInv, call.phase # "idle", log[Number].billed = None, Serve
  PROVE  Unanswered \/ Answered
<1>1. CASE PassOver \/ NoEndpoint \/ TakeUp \/ \E late \in Late : Wake(late)
  BY <1>1 DEF PassOver, NoEndpoint, TakeUp, Wake, Steps, accounts, Unanswered, Number
<1>0. DOMAIN log[Number] = {"sends", "plan", "tries", "how", "answer", "billed"}
  BY CallFacts DEF IInv, CallInv, EntryOK
<1>2. CASE TooLate
  BY <1>2, ClosedUnbilled DEF TooLate
<1>3. CASE GiveUp
  BY <1>3, ClosedUnbilled DEF GiveUp
<1>4. CASE Begin
  <2>. DEFINE try == [route |-> call.at, at |-> call.elapsed, failed |-> None]
              e == Tried(log[Number], try)
  <2>1. log' = [log EXCEPT ![Number] = e] /\ queue' = queue /\ table' = table
    BY <1>4 DEF Begin, Steps, accounts
  <2>2. e.billed = None
    <3>. HIDE DEF try
    <3>. QED
      BY <1>0 DEF Tried
  <2>. HIDE DEF e
  <2>. QED
    BY <2>1, <2>2, EntryUnbilled DEF Unanswered
<1>5. CASE Leave
  <2>. DEFINE e == [log[Number] EXCEPT !.how = "left"]
  <2>1. log' = [log EXCEPT ![Number] = e] /\ queue' = queue /\ table' = table
    BY <1>5 DEF Leave, Ends
  <2>2. e.billed = None
    BY <1>0
  <2>. HIDE DEF e
  <2>. QED
    BY <2>1, <2>2, EntryUnbilled DEF Unanswered
<1>6. CASE RefusedHere
  BY <1>6, FailureUnbilled DEF RefusedHere
<1>7. ASSUME NEW error \in {"timeout", "transient"}, NEW took \in Took, Unreached(error, took)
      PROVE  Unanswered
  BY <1>7, FailureUnbilled DEF Unreached
<1>8. ASSUME NEW took \in Took, Respond(took) PROVE Unanswered \/ Answered
  BY <1>8, AnswerBilled
<1>. QED
  BY <1>1, <1>2, <1>3, <1>4, <1>5, <1>6, <1>7, <1>8 DEF Serve

-----------------------------------------------------------------------------
(* Every step keeps what is billed *)

(* The reply of a call that may have brought an answer.                    *)
LEMMA MediaStepBilled ==
  ASSUME IInv, AnswersInv, BilledInv, MediaStep
  PROVE  BilledInv'
<1>1. call.phase # "idle" /\ Serve
  BY DEF MediaStep, Serve, PassOver, TakeUp, TooLate, NoEndpoint, Begin, RefusedHere, GiveUp, Leave,
         Respond, Unreached, Wake
<1>2. /\ log[Number].billed = None /\ Number \notin DOMAIN bills
      /\ RowsBilled /\ BillsAre
  BY <1>1 DEF BilledInv, UnbilledYet
<1>3. Unanswered \/ Answered
  BY <1>1, <1>2, ServedBilled
<1>4. Number \notin Numbered
  BY <1>1, OpenLeftNoRow DEF IInv, CallInv
<1>5. Number \in 1..Number
  BY <1>1, CallFacts DEF IInv, CallInv
<1>6. AccountsShape /\ RowsOnce
  BY DEF IInv, RowInv
<1>7. CASE Unanswered
  <2>1. bills' = bills /\ log'[Number].billed = None /\ Number' = Number /\ table' = table
    BY <1>7 DEF MediaStep, Unanswered
  <2>2. queue' = queue \/ \E row : Enqueue(row) /\ RowBilled(row, bills')
    <3>1. \A row : row.request_id = Number /\ row.cost = NoCost /\ row.tokens = Absent
                     => RowBilled(row, bills')
      BY <1>2, <2>1, SaysNothing
    <3>. QED
      BY <1>7, <3>1 DEF Unanswered
  <2>3. RowsBilled'
    BY <1>2, <1>6, <2>1, <2>2, RowsStayBilled
  <2>4. UnbilledYet' /\ BillsAre'
    BY <1>2, <2>1 DEF UnbilledYet, BillsAre, BillOK
  <2>. QED
    BY <2>3, <2>4 DEF BilledInv
<1>8. CASE Answered
  <2>1. PICK b, row :
          /\ log'[Number].billed = Some(b) /\ Number' = Number /\ table' = table
          /\ b.provider \in DOMAIN Built /\ b.consumed \in Uses /\ ToldOf(b.reported, b.consumed)
          /\ Enqueue(row) /\ row.request_id = Number /\ row.tokens = b.reported.tokens
          /\ row.cost = CostWith(Built[b.provider], b.target, b.served, b.reported.tokens,
                                 b.reported.units)
          /\ call'.phase = "idle"
    BY <1>8 DEF Answered
  <2>. DEFINE bill == Bill(b.provider, b.target, b.served, b.consumed, b.reported)
  <2>2. Billed(Number, bill)
    <3>1. log'[Number].billed # None /\ log'[Number].billed[1] = b
      BY <2>1, SomeIs
    <3>. QED
      BY <3>1 DEF MediaStep
  <2>3. CostOK(row.cost) /\ BillOK(bill) /\ CostBilled(row.cost, bill) /\ row.cost.status # "none"
    <3>1. /\ CostOK(row.cost) /\ BillOK(bill) /\ CostBilled(row.cost, bill)
          /\ row.cost.status \in Statuses
      BY <2>1, CostIsBilled
    <3>2. "none" \notin Statuses
      BY DEF Statuses
    <3>. QED
      BY <3>1, <3>2
  <2>4. TokensOK(row.tokens)
    BY <2>1 DEF TokensOK, ToldOf, Uses, Options
  <2>. HIDE DEF bill
  <2>5. /\ DOMAIN bills' = DOMAIN bills \cup {Number} /\ bills'[Number] = bill
        /\ \A i \in DOMAIN bills : i # Number => bills'[i] = bills[i]
    BY <2>2, OneBillMore
  <2>6. RowBilled(row, bills')
    BY <2>1, <2>3, <2>4, <2>5 DEF RowBilled
  <2>7. \A id \in Numbered : /\ (id \in DOMAIN bills') <=> (id \in DOMAIN bills)
                             /\ id \in DOMAIN bills => bills'[id] = bills[id]
    BY <1>2, <1>4, <2>5
  <2>8. RowsBilled'
    BY <1>2, <1>6, <2>1, <2>6, <2>7, RowsStayBilled
  <2>9. UnbilledYet'
    BY <2>1 DEF UnbilledYet
  <2>10. BillsAre'
    <3>1. ASSUME NEW id \in DOMAIN bills'
          PROVE  BillOK(bills'[id]) /\ (id > MaxCalls \/ id \in 1..Number)
      BY <1>2, <1>5, <2>3, <2>5, <3>1 DEF BillsAre
    <3>. QED
      BY <2>1, <3>1 DEF BillsAre, BillOK
  <2>. QED
    BY <2>8, <2>9, <2>10 DEF BilledInv
<1>. QED
  BY <1>3, <1>7, <1>8

(* What a chat call used, and what is reported of it.                      *)
ChatUsed(c) == [tokens |-> c.consumed, units |-> NoUnitsUsed]
ChatTold(c) == [tokens |-> c.reported, units |-> NoUnits]
ChatBill(c) ==
  Bill(Split[c.route].provider, Split[c.route].model, c.served, ChatUsed(c), ChatTold(c))
ChatCost(c) ==
  CostWith(Built[Split[c.route].provider], Split[c.route].model, c.served, c.reported, NoUnits)

(* What a chat call used is counted, and what is reported of it is true of *)
(* it or missing.                                                          *)
LEMMA ChatIsCounted ==
  ASSUME NEW c \in Chats
  PROVE  /\ Split[c.route].provider \in DOMAIN Built
         /\ ChatUsed(c) \in Uses /\ ToldOf(ChatTold(c), ChatUsed(c)) /\ TokensOK(c.reported)
<1>1. ChatCounted(c)
  BY BillsAssumption
<1>2. /\ Split[c.route].provider \in DOMAIN Built /\ c.consumed \in [Counts -> Nat]
      /\ \A n \in Counts : c.reported[n] \in {None, Some(c.consumed[n])}
  BY <1>1 DEF ChatCounted
<1>3. NoUnitsUsed \in [UnitNames -> Nat] /\ \A u \in UnitNames : NoUnits[u] = None
  BY DEF NoUnitsUsed, NoUnits, UnitNames
<1>4. ChatUsed(c) \in Uses
  BY <1>2, <1>3 DEF ChatUsed, Uses
<1>5. ToldOf(ChatTold(c), ChatUsed(c))
  BY <1>2, <1>3 DEF ChatTold, ChatUsed, ToldOf
<1>6. TokensOK(c.reported)
  BY <1>2 DEF TokensOK, Options
<1>. QED
  BY <1>2, <1>4, <1>5, <1>6

(* A chat call's cost is what its bill says it is (Gateway::cost_with).    *)
LEMMA ChatIsBilled ==
  ASSUME NEW c \in Chats
  PROVE  /\ CostOK(ChatCost(c)) /\ BillOK(ChatBill(c)) /\ CostBilled(ChatCost(c), ChatBill(c))
         /\ ChatCost(c).status \in Statuses
<1>1. ChatTold(c).tokens = c.reported /\ ChatTold(c).units = NoUnits
  BY DEF ChatTold
<1>. QED
  BY <1>1, ChatIsCounted, CostIsBilled DEF ChatCost, ChatBill

(* A bill that has not to be paid.                                         *)
LEMMA NothingToPay ==
  ASSUME NEW bill, BillOK(bill), "amount" \in DOMAIN bill
  PROVE  LET none == [bill EXCEPT !.amount = 0] IN
         /\ BillOK(none) /\ none.amount = 0 /\ none.currency = bill.currency
         /\ none.provider = bill.provider
BY DEF BillOK

(* The three ends of a chat call.                                          *)
LEMMA ChatEnds ==
  ASSUME NEW c \in Chats, ChatCall(c)
  PROVE  /\ UNCHANGED <<now, table, nextId, walk, forgot, call, log>>
         /\ \/ /\ c.how = "answered" /\ Billed(NextChat, ChatBill(c))
               /\ ledger' = Record(ledger, BookOf(Split[c.route].provider), c.served, c.reported)
               /\ \E row : /\ Enqueue(row) /\ row.request_id = NextChat
                           /\ row.tokens = c.reported /\ row.cost = ChatCost(c)
            \/ /\ c.how = "cancelled" /\ Billed(NextChat, ChatBill(c)) /\ queue' = queue
               /\ ledger' = RecordCancelled(ledger)
            \/ /\ c.how = "failed" /\ Billed(NextChat, [ChatBill(c) EXCEPT !.amount = 0])
               /\ ledger' = ledger
               /\ \E row : /\ Enqueue(row) /\ row.request_id = NextChat
                           /\ row.tokens = Absent /\ row.cost = NoCost
<1>. DEFINE row == AnsweredRow(NextChat, c.route, RouteOf(c.route), c.served, c.outcome, 1, 0,
                               c.reported, ChatCost(c))
<1>1. row.request_id = NextChat /\ row.tokens = c.reported /\ row.cost = ChatCost(c)
  BY DEF AnsweredRow, Row
<1>2. /\ FailedRow(NextChat, c.route, "upstream_unavailable").request_id = NextChat
      /\ FailedRow(NextChat, c.route, "upstream_unavailable").tokens = Absent
      /\ FailedRow(NextChat, c.route, "upstream_unavailable").cost = NoCost
  BY FailedSaysNothing
<1>. HIDE DEF row
<1>3. /\ UNCHANGED <<now, table, nextId, walk, forgot, call, log>>
      /\ \/ /\ c.how = "answered" /\ Enqueue(row) /\ Billed(NextChat, ChatBill(c))
            /\ ledger' = Record(ledger, BookOf(Split[c.route].provider), c.served, c.reported)
         \/ /\ c.how = "cancelled" /\ Billed(NextChat, ChatBill(c)) /\ queue' = queue
            /\ ledger' = RecordCancelled(ledger)
         \/ /\ c.how = "failed" /\ Billed(NextChat, [ChatBill(c) EXCEPT !.amount = 0])
            /\ ledger' = ledger /\ Enqueue(FailedRow(NextChat, c.route, "upstream_unavailable"))
  BY Zenon DEF ChatCall, ChatBill, ChatCost, ChatUsed, ChatTold, row
<1>. QED
  BY <1>1, <1>2, <1>3

(* A chat call that ends adds a bill, and at most a row that tells it.     *)
LEMMA ChatBilled ==
  ASSUME IInv, BilledInv, NEW c \in Chats, ChatCall(c)
  PROVE  BilledInv'
<1>1. ChatsNumbered /\ AccountsShape /\ RowsOnce /\ RowsBilled /\ BillsAre /\ UnbilledYet
  BY DEF IInv, RowInv, BilledInv
<1>2. /\ UNCHANGED <<table, call, log>>
      /\ \E bill : Billed(NextChat, bill)
  BY ChatEnds
<1>3. NextChat \in Nat /\ NextChat > MaxCalls /\ NextChat \notin Chatted
  BY <1>1, <1>2, ChatTakesNext
<1>4. Number' = Number /\ Number \in Nat /\ Number <= MaxCalls /\ MaxCalls \in Nat
  BY <1>2, LenProperties, MediaAssumption DEF IInv, CallInv, MediaShape, Number
<1>5. NextChat \notin DOMAIN bills /\ NextChat \notin Numbered /\ Number # NextChat
  BY <1>3, <1>4 DEF Chatted, Numbered, LeftARow
<1>6. DOMAIN ChatBill(c) = {"provider", "currency", "amount", "model", "priced"}
  BY DEF ChatBill, Bill
<1>. DEFINE free == [ChatBill(c) EXCEPT !.amount = 0]
<1>7. PICK bill :
        /\ Billed(NextChat, bill) /\ BillOK(bill)
        /\ \/ queue' = queue
           \/ \E row : /\ Enqueue(row) /\ row.request_id = NextChat
                       /\ TokensOK(row.tokens) /\ CostOK(row.cost) /\ CostBilled(row.cost, bill)
  <2>1. CASE /\ Billed(NextChat, ChatBill(c))
             /\ \/ queue' = queue
                \/ \E row : /\ Enqueue(row) /\ row.request_id = NextChat
                            /\ row.tokens = c.reported /\ row.cost = ChatCost(c)
    BY <2>1, ChatIsBilled, ChatIsCounted
  <2>2. CASE /\ Billed(NextChat, free)
             /\ \E row : /\ Enqueue(row) /\ row.request_id = NextChat
                         /\ row.tokens = Absent /\ row.cost = NoCost
    <3>1. BillOK(free) /\ free.amount = 0
      BY <1>6, ChatIsBilled, NothingToPay
    <3>. HIDE DEF free
    <3>2. PICK row : /\ Enqueue(row) /\ row.request_id = NextChat
                     /\ row.tokens = Absent /\ row.cost = NoCost
      BY <2>2
    <3>. DEFINE alone == [i \in {NextChat} |-> free]
    <3>3. DOMAIN alone = {NextChat} /\ alone[NextChat] = free
      OBVIOUS
    <3>. HIDE DEF alone
    <3>4. RowBilled(row, alone)
      BY <3>1, <3>2, <3>3, SaysNothing
    <3>5. TokensOK(row.tokens) /\ CostOK(row.cost) /\ CostBilled(row.cost, free)
      BY <3>2, <3>3, <3>4 DEF RowBilled
    <3>. QED
      BY <2>2, <3>1, <3>2, <3>5
  <2>. QED
    BY <2>1, <2>2, ChatEnds
<1>8. /\ DOMAIN bills' = DOMAIN bills \cup {NextChat} /\ bills'[NextChat] = bill
      /\ \A i \in DOMAIN bills : i # NextChat => bills'[i] = bills[i]
  BY <1>7, OneBillMore
<1>9. RowsBilled'
  <2>1. queue' = queue \/ \E row : Enqueue(row) /\ RowBilled(row, bills')
    <3>1. ASSUME NEW row, row.request_id = NextChat, TokensOK(row.tokens), CostOK(row.cost),
                 CostBilled(row.cost, bill)
          PROVE  RowBilled(row, bills')
      BY <1>8, <3>1 DEF RowBilled
    <3>. QED
      BY <1>7, <3>1
  <2>2. \A id \in Numbered : /\ (id \in DOMAIN bills') <=> (id \in DOMAIN bills)
                             /\ id \in DOMAIN bills => bills'[id] = bills[id]
    BY <1>5, <1>8
  <2>. QED
    BY <1>1, <1>2, <2>1, <2>2, RowsStayBilled
<1>10. UnbilledYet'
  BY <1>1, <1>2, <1>4, <1>5, <1>8 DEF UnbilledYet
<1>11. BillsAre'
  <2>1. ASSUME NEW id \in DOMAIN bills'
        PROVE  BillOK(bills'[id]) /\ (id > MaxCalls \/ id \in 1..Number)
    BY <1>1, <1>3, <1>5, <1>7, <1>8, <2>1 DEF BillsAre
  <2>. QED
    BY <1>4, <2>1 DEF BillsAre, BillOK
<1>. QED
  BY <1>9, <1>10, <1>11 DEF BilledInv

(* A call that comes: nothing is billed for it yet.                        *)
LEMMA ArrivalBilled ==
  ASSUME IInv, BilledInv, NEW sends \in Sends, Arrive(sends), UNCHANGED bills
  PROVE  BilledInv'
<1>. DEFINE entry == [sends |-> sends, plan |-> None, tries |-> <<>>, how |-> "turned away",
                      answer |-> None, billed |-> None]
            plan == ResolveMedia(AskedModel(sends.sent), KindAt[sends.endpoint]).plan
            name == AskedModel(sends.sent)
<1>1. AccountsShape /\ RowsOnce /\ RowsBilled /\ BillsAre
  BY DEF IInv, RowInv, BilledInv
<1>2. /\ UNCHANGED table /\ Number < MaxCalls
      /\ \/ log' = Append(log, [entry EXCEPT !.how = "unread"]) /\ queue' = queue
         \/ log' = Append(log, entry) /\ \E code : Enqueue(FailedRow(Number + 1, name, code))
         \/ log' = Append(log, [entry EXCEPT !.how = "open", !.plan = plan]) /\ queue' = queue
  BY DEF Arrive
<1>3. PICK e : /\ log' = Append(log, e) /\ e.billed = None
               /\ \/ queue' = queue
                  \/ \E code : Enqueue(FailedRow(Number + 1, name, code))
  <2>1. entry.billed = None /\ [entry EXCEPT !.how = "unread"].billed = None
    OBVIOUS
  <2>2. [entry EXCEPT !.how = "open", !.plan = plan].billed = None
    OBVIOUS
  <2>. HIDE DEF entry, plan, name
  <2>. QED
    BY <1>2, <2>1, <2>2
<1>. HIDE DEF name
<1>4. Number \in Nat /\ Number' = Number + 1 /\ log'[Number + 1] = e
  BY <1>3, LogGrows
<1>5. Number + 1 \notin DOMAIN bills
  <2>1. MaxCalls \in Nat
    BY MediaAssumption
  <2>2. ~(Number + 1 > MaxCalls) /\ Number + 1 \notin 1..Number
    <3>1. Number < MaxCalls /\ Number \in Nat
      BY <1>2, <1>4
    <3>. QED
      BY <2>1, <3>1
  <2>. QED
    BY <1>1, <2>2 DEF BillsAre
<1>6. queue' = queue \/ \E row : Enqueue(row) /\ RowBilled(row, bills')
  <2>1. ASSUME NEW code, Enqueue(FailedRow(Number + 1, name, code))
        PROVE  \E row : Enqueue(row) /\ RowBilled(row, bills')
    <3>. DEFINE row == FailedRow(Number + 1, name, code)
    <3>1. row.cost = NoCost /\ row.tokens = Absent /\ row.request_id = Number + 1
      BY FailedSaysNothing
    <3>. HIDE DEF row
    <3>2. RowBilled(row, bills')
      BY <1>5, <3>1, SaysNothing
    <3>. QED
      BY <2>1, <3>2 DEF row
  <2>. QED
    BY <1>3, <2>1
<1>7. RowsBilled'
  BY <1>1, <1>2, <1>6, RowsStayBilled
<1>8. UnbilledYet'
  BY <1>3, <1>4, <1>5 DEF UnbilledYet
<1>9. BillsAre'
  <2>1. \A id \in 1..Number : id \in 1..Number'
    BY <1>4
  <2>. QED
    BY <1>1, <2>1 DEF BillsAre, BillOK
<1>. QED
  BY <1>7, <1>8, <1>9 DEF BilledInv

(* Rows that are written or forgotten say what they said.                  *)
LEMMA AccountsBilled ==
  ASSUME IInv, BilledInv, UNCHANGED <<call, log, bills>>,
         \/ Write \/ UNCHANGED <<queue, table>>
         \/ \E before : Forget(before)
  PROVE  BilledInv'
<1>1. AccountsShape /\ RowsBilled /\ BillsAre /\ UnbilledYet /\ Number' = Number
  BY DEF IInv, RowInv, BilledInv, Number
<1>2. UnbilledYet' /\ BillsAre'
  BY <1>1 DEF UnbilledYet, BillsAre, BillOK
<1>3. RowsBilled'
  <2>1. CASE Write
    <3>1. /\ DOMAIN queue' = {}
          /\ \A id \in DOMAIN table' :
               \/ id \in DOMAIN table /\ table'[id] = table[id]
               \/ id - nextId + 1 \in DOMAIN queue /\ table'[id] = queue[id - nextId + 1]
      BY <1>1, <2>1, WriteMoves
    <3>. QED
      BY <1>1, <3>1 DEF RowsBilled
  <2>2. CASE UNCHANGED <<queue, table>>
    BY <1>1, <2>2 DEF RowsBilled
  <2>3. ASSUME NEW before, Forget(before) PROVE RowsBilled'
    <3>1. /\ queue' = queue
          /\ \A id \in DOMAIN table' : id \in DOMAIN table /\ table'[id] = table[id]
      BY <1>1, <2>3, ForgetTakes
    <3>. QED
      BY <1>1, <3>1 DEF RowsBilled
  <2>. QED
    BY <2>1, <2>2, <2>3
<1>. QED
  BY <1>2, <1>3 DEF BilledInv

(* Every step keeps rows and bills in agreement.                           *)
LEMMA NextBilledInv ==
  IInv /\ AnswersInv /\ BilledInv /\ [Next]_allVars => BilledInv'
<1>. SUFFICES ASSUME IInv, AnswersInv, BilledInv, [Next]_allVars PROVE BilledInv'
  OBVIOUS
<1>1. ASSUME NEW sends \in Sends, Arrive(sends), UNCHANGED <<ledger, bills>> PROVE BilledInv'
  BY <1>1, ArrivalBilled
<1>2. CASE MediaStep
  BY <1>2, MediaStepBilled
<1>3. ASSUME NEW c \in Chats, ChatCall(c) PROVE BilledInv'
  BY <1>3, ChatBilled
<1>4. ASSUME \/ Write \/ NextPage \/ EndWalk
             \/ \E filter \in Filters, limit \in Limits : StartWalk(filter, limit)
             \/ \E before \in 1..MaxNow : Forget(before)
             \/ now < MaxNow /\ Tick,
             UNCHANGED <<call, log, ledger, bills>>
      PROVE  BilledInv'
  <2>1. \/ Write \/ UNCHANGED <<queue, table>>
        \/ \E before : Forget(before)
    BY <1>4 DEF NextPage, EndWalk, StartWalk, Tick
  <2>. QED
    BY <1>4, <2>1, AccountsBilled
<1>5. CASE UNCHANGED allVars
  BY <1>5, AccountsBilled DEF allVars, vars, accounts
<1>. QED
  BY <1>1, <1>2, <1>3, <1>4, <1>5 DEF Next

(* No row, and nothing billed.                                             *)
LEMMA InitBilledInv ==
  Init => BilledInv
<1>. SUFFICES ASSUME Init PROVE BilledInv
  OBVIOUS
<1>1. queue = <<>> /\ table = <<>> /\ call = Idle /\ bills = <<>>
  BY DEF Init, MediaInit, AccountsInit
<1>2. DOMAIN <<>> = {}
  OBVIOUS
<1>. QED
  BY <1>1, <1>2, IdleIs DEF BilledInv, RowsBilled, UnbilledYet, BillsAre

(* What a row says its request cost is what is billed for it, in the sense *)
(* of CostBilled: never more, and but for truncation all of it where the   *)
(* row says so, whoever served it and whatever of it was reported          *)
(* (cost_with, price_with, answered_row, Call::answered).                  *)
RowsAreBilled ==
  \A i \in DOMAIN table : table[i].request_id \in DOMAIN bills =>
    CostBilled(table[i].cost, bills[table[i].request_id])

(* Rows agree with bills in every state of every behaviour.                *)
THEOREM RowsAreBilledTheorem ==
  Spec => []RowsAreBilled
<1>1. Spec => [](IInv /\ AnswersInv)
  BY IInvHolds, InitAnswersInv, NextAnswersInv, PTL DEF Spec
<1>2. BilledInv => RowsAreBilled
  BY DEF BilledInv, RowsBilled, RowBilled, RowsAreBilled
<1>. QED
  BY <1>1, <1>2, InitBilledInv, NextBilledInv, PTL DEF Spec

-----------------------------------------------------------------------------
(* The inductive invariant: the lines of the ledger *)

(* What a line says of its call's cost, against what is billed for it.     *)
LineBilled(line, bill) ==
  line # None =>
    /\ line[1].currency = bill.currency /\ line[1].amount \in Nat
    /\ line[1].coverage \in {"exact", "partial"}
    /\ line[1].amount * Million <= bill.amount
    /\ line[1].coverage = "exact" /\ bill.amount <= Most =>
         bill.amount < (line[1].amount + PartsOfARate) * Million

(* Each line is of a chat call of its own, and the calls that have no line *)
(* cost nothing.                                                           *)
LedgerOf(calls) ==
  /\ DOMAIN calls = DOMAIN ledger /\ \A i \in DOMAIN ledger : calls[i] \in Chatted
  /\ \A i, j \in DOMAIN ledger : calls[i] = calls[j] => i = j
  /\ \A i \in DOMAIN ledger : LineBilled(ledger[i], bills[calls[i]])
  /\ \A id \in Chatted : bills[id].amount # 0 => \E i \in DOMAIN ledger : calls[i] = id

LedgerInv == ledger \in Seq(ToSet(ledger)) /\ \E calls : LedgerOf(calls)

(* A model there is no rate for has no price.                              *)
LEMMA UnknownHasNoPrice ==
  ASSUME NEW book, NEW model, NEW usage, NEW units, model \notin DOMAIN book.rates
  PROVE  PriceWith(book, model, usage, units) = None
<1>. DEFINE rate == IF model \in DOMAIN book.rates THEN book.rates[model] ELSE NoRate
            read == IF ByToken(rate) THEN Coverage(usage) ELSE "absent"
            charged == {p \in UnitParts : rate[p] # 0}
            measured == {p \in charged : units[Measure[p]] # None}
            missing == measured # charged \/ (ByToken(rate) /\ read = "absent")
            tokens == IF read = "absent" THEN 0 ELSE Tokens(usage, rate)
            coverage == IF missing THEN "partial" ELSE IF read = "absent" THEN "exact" ELSE read
            it == Priced(Saturated(tokens + UnitLines(units, rate, measured)), book, coverage)
            known == read # "absent" \/ measured # {}
<1>1. rate = NoRate
  OBVIOUS
<1>2. ~ByToken(rate) /\ charged = {}
  BY <1>1 DEF ByToken, NoRate
<1>3. known = FALSE
  BY <1>2
<1>4. PriceWith(book, model, usage, units) = When(known, it)
  BY Zenon DEF PriceWith
<1>. HIDE DEF known, it
<1>. QED
  BY <1>3, <1>4, WhenHas

(* What a condition gives is nothing, or one thing.                        *)
LEMMA WhenHasOne ==
  ASSUME NEW c, NEW x
  PROVE  When(c, x) = None \/ When(c, x) = Some(When(c, x)[1])
<1>1. CASE c
  BY <1>1 DEF When, Some
<1>2. CASE ~c
  BY <1>2 DEF When, None
<1>. QED
  BY <1>1, <1>2

(* A price is one price or none.                                           *)
LEMMA PriceIsOne ==
  ASSUME NEW book, NEW model, NEW usage, NEW units
  PROVE  LET price == PriceWith(book, model, usage, units) IN price = None \/ price = Some(price[1])
<1>. DEFINE rate == IF model \in DOMAIN book.rates THEN book.rates[model] ELSE NoRate
            read == IF ByToken(rate) THEN Coverage(usage) ELSE "absent"
            charged == {p \in UnitParts : rate[p] # 0}
            measured == {p \in charged : units[Measure[p]] # None}
            missing == measured # charged \/ (ByToken(rate) /\ read = "absent")
            tokens == IF read = "absent" THEN 0 ELSE Tokens(usage, rate)
            coverage == IF missing THEN "partial" ELSE IF read = "absent" THEN "exact" ELSE read
            it == Priced(Saturated(tokens + UnitLines(units, rate, measured)), book, coverage)
            known == read # "absent" \/ measured # {}
<1>1. PriceWith(book, model, usage, units) = When(known, it)
  BY Zenon DEF PriceWith
<1>. HIDE DEF known, it
<1>. QED
  BY <1>1, WhenHasOne

(* The line of a call that was answered.                                   *)
AnswerLine(c) ==
  LET book == BookOf(Split[c.route].provider) IN
  IF book = None THEN None ELSE PriceWith(book[1], c.served, c.reported, NoUnits)

(* A line of the ledger says of a chat call what it is billed for          *)
(* (Ledger::record).                                                       *)
LEMMA LineOfAnswer ==
  ASSUME NEW c \in Chats
  PROVE  LineBilled(AnswerLine(c), ChatBill(c))
<1>. DEFINE provider == Split[c.route].provider
            prices == Built[provider].prices
            paid == {model \in DOMAIN prices.rates : Charges(provider, model)}
            book == [prices EXCEPT !.rates = Restrict(@, paid)]
            rate == RateOf(book, c.served)
            bill == ChatBill(c)
            line == AnswerLine(c)
            price == PriceWith(book, c.served, c.reported, NoUnits)
<1>1. /\ provider \in DOMAIN Built /\ PricedWell(Built[provider])
      /\ ChatUsed(c) \in Uses /\ ToldOf(ChatTold(c), ChatUsed(c))
  BY ChatIsCounted, WellPriced
<1>2. /\ DOMAIN prices = {"id", "currency", "rates"}
      /\ \A model \in DOMAIN prices.rates : prices.rates[model] \in Rates
  BY <1>1 DEF PricedWell, Rates
<1>3. /\ book.currency = prices.currency /\ DOMAIN book.rates = paid
      /\ \A model \in paid : book.rates[model] = prices.rates[model]
  BY <1>2 DEF Restrict
<1>4. line = None \/ line = price
  <2>1. BookOf(provider) = When(paid # {}, book)
    BY Zenon DEF BookOf
  <2>2. BookOf(provider) = None \/ BookOf(provider) = Some(book)
    <3>. HIDE DEF paid, book
    <3>1. (paid # {}) \in BOOLEAN
      OBVIOUS
    <3>. QED
      BY <2>1, <3>1, WhenHas
  <2>. HIDE DEF book
  <2>. QED
    BY <2>2, SomeIs DEF AnswerLine
<1>5. bill.currency = prices.currency
  BY DEF ChatBill, Bill
<1>6. bill.amount = LET model == ModelBilled(provider, Split[c.route].model, c.served) IN
                    Charge(IF model = None THEN NoRate ELSE prices.rates[model[1]],
                           c.consumed, NoUnitsUsed)
  BY Zenon DEF ChatBill, Bill, ChatUsed
<1>7. /\ c.consumed \in [Counts -> Nat] /\ NoUnitsUsed \in [UnitNames -> Nat]
      /\ \A n \in Counts : c.reported[n] \in {None, Some(c.consumed[n])}
      /\ \A u \in UnitNames : NoUnits[u] \in {None, Some(NoUnitsUsed[u])}
  BY <1>1 DEF Uses, ToldOf, ChatUsed, ChatTold
<1>. HIDE DEF prices, book, bill, line
<1>8. ASSUME line # None PROVE LineBilled(line, bill)
  <2>1. c.served \in paid
    <3>. HIDE DEF paid
    <3>. QED
      BY <1>3, <1>4, <1>8, UnknownHasNoPrice
  <2>2. rate = prices.rates[c.served] /\ rate \in Rates
    BY <1>2, <1>3, <2>1 DEF RateOf
  <2>3. ModelBilled(provider, Split[c.route].model, c.served) = Some(c.served)
    <3>1. Charges(provider, c.served) \in BOOLEAN /\ Charges(provider, Split[c.route].model) \in BOOLEAN
      BY <1>1, ChargesPossible
    <3>2. Charges(provider, c.served)
      BY <2>1
    <3>. QED
      BY <3>1, <3>2, EitherOf DEF ModelBilled
  <2>4. bill.amount = Charge(rate, c.consumed, NoUnitsUsed)
    BY <1>6, <2>2, <2>3, SomeIs
  <2>5. line = Some(line[1]) /\ price = Some(line[1])
    <3>1. price = None \/ price = Some(price[1])
      BY PriceIsOne
    <3>. QED
      BY <1>4, <1>8, <3>1
  <2>. HIDE DEF rate, price, paid
  <2>. DEFINE priced == line[1]
              charge == Charge(rate, c.consumed, NoUnitsUsed)
  <2>6. /\ RateOf(book, c.served) \in Rates /\ charge = Charge(RateOf(book, c.served), c.consumed, NoUnitsUsed)
        /\ PriceWith(book, c.served, c.reported, NoUnits) = Some(priced)
    BY <2>2, <2>5 DEF rate, price
  <2>. HIDE DEF priced, charge
  <2>7. /\ priced.amount \in Nat /\ priced.currency = book.currency
        /\ priced.coverage \in {"exact", "partial"}
        /\ priced.amount * Million <= charge
        /\ priced.coverage = "exact" /\ charge <= Most =>
             charge < (priced.amount + PartsOfARate) * Million
    BY <1>7, <2>6, PriceIsFloor
  <2>8. line[1] = priced /\ bill.amount = charge
    BY <2>4 DEF priced, charge
  <2>. QED
    BY <1>3, <1>5, <2>7, <2>8 DEF LineBilled
<1>. QED
  BY <1>8 DEF LineBilled, line, bill

(* Lines of the ledger, and what is billed, where a call is added to both. *)
LEMMA LineAdded ==
  ASSUME LedgerInv, ChatsNumbered, NEW bill, Billed(NextChat, bill),
         NEW line, ledger' = Append(ledger, line), LineBilled(line, bill)
  PROVE  LedgerInv'
<1>. DEFINE k == Len(ledger)
<1>1. PICK calls : LedgerOf(calls)
  BY DEF LedgerInv
<1>2. /\ ledger' \in Seq(ToSet(ledger')) /\ k \in Nat
      /\ DOMAIN ledger = 1..k /\ DOMAIN ledger' = 1..k + 1
      /\ \A i \in 1..k : ledger'[i] = ledger[i]
      /\ ledger'[k + 1] = line
  BY Longer DEF LedgerInv
<1>3. NextChat \notin Chatted /\ NextChat \in Chatted' /\ Chatted \subseteq Chatted'
  BY ChatTakesNext
<1>4. /\ DOMAIN bills' = DOMAIN bills \cup {NextChat} /\ bills'[NextChat] = bill
      /\ \A id \in DOMAIN bills : id # NextChat => bills'[id] = bills[id]
  BY OneBillMore
<1>5. \A id \in Chatted : bills'[id] = bills[id] /\ id # NextChat
  BY <1>3, <1>4 DEF Chatted
<1>6. \A id \in Chatted' : id \in Chatted \/ id = NextChat
  BY <1>4 DEF Chatted
<1>. HIDE DEF k
<1>. DEFINE all == [i \in 1..k + 1 |-> IF i = k + 1 THEN NextChat ELSE calls[i]]
<1>7. /\ DOMAIN all = 1..k + 1 /\ all[k + 1] = NextChat
      /\ \A i \in 1..k : all[i] = calls[i] /\ i \in 1..k + 1
      /\ \A i \in 1..k + 1 : i \in 1..k \/ i = k + 1
  BY <1>2
<1>. HIDE DEF all
<1>8. \A i \in 1..k : all[i] \in Chatted /\ all[i] # NextChat
  BY <1>1, <1>2, <1>3, <1>7 DEF LedgerOf
<1>9. \A i, j \in DOMAIN ledger' : all[i] = all[j] => i = j
  <2>1. \A i, j \in 1..k : all[i] = all[j] => i = j
    BY <1>1, <1>2, <1>7 DEF LedgerOf
  <2>. QED
    BY <1>2, <1>7, <1>8, <2>1
<1>10. \A i \in DOMAIN ledger' : all[i] \in Chatted' /\ LineBilled(ledger'[i], bills'[all[i]])
  <2>1. \A i \in 1..k : LineBilled(ledger[i], bills[all[i]])
    BY <1>1, <1>2, <1>7 DEF LedgerOf
  <2>2. \A i \in 1..k : LineBilled(ledger'[i], bills'[all[i]])
    BY <1>2, <1>5, <1>8, <2>1
  <2>3. LineBilled(ledger'[k + 1], bills'[all[k + 1]])
    BY <1>2, <1>4, <1>7
  <2>. QED
    BY <1>2, <1>3, <1>7, <1>8, <2>2, <2>3
<1>11. \A id \in Chatted' : bills'[id].amount # 0 => \E i \in DOMAIN ledger' : all[i] = id
  <2>1. \A id \in Chatted : bills[id].amount # 0 => \E i \in 1..k : all[i] = id
    BY <1>1, <1>2, <1>7 DEF LedgerOf
  <2>. QED
    BY <1>2, <1>5, <1>6, <1>7, <2>1
<1>. QED
  BY <1>2, <1>7, <1>9, <1>10, <1>11 DEF LedgerInv, LedgerOf

(* Nothing is written of a call that costs nothing.                        *)
LEMMA NoLineAdded ==
  ASSUME LedgerInv, ledger' = ledger, Chatted \subseteq Chatted',
         \A id \in Chatted : bills'[id] = bills[id],
         \A id \in Chatted' : id \in Chatted \/ bills'[id].amount = 0
  PROVE  LedgerInv'
<1>1. PICK calls : LedgerOf(calls)
  BY DEF LedgerInv
<1>2. /\ DOMAIN calls = DOMAIN ledger' /\ \A i \in DOMAIN ledger' : calls[i] \in Chatted'
      /\ \A i, j \in DOMAIN ledger' : calls[i] = calls[j] => i = j
  BY <1>1 DEF LedgerOf
<1>3. \A i \in DOMAIN ledger' : LineBilled(ledger'[i], bills'[calls[i]])
  BY <1>1 DEF LedgerOf
<1>4. \A id \in Chatted' : bills'[id].amount # 0 => \E i \in DOMAIN ledger' : calls[i] = id
  BY <1>1 DEF LedgerOf
<1>5. (ledger \in Seq(ToSet(ledger)))'
  BY DEF LedgerInv, ToSet
<1>. QED
  BY <1>2, <1>3, <1>4, <1>5 DEF LedgerInv, LedgerOf

(* A chat call that ends adds at most a line, of that call.                *)
LEMMA ChatLedger ==
  ASSUME IInv, LedgerInv, NEW c \in Chats, ChatCall(c)
  PROVE  LedgerInv'
<1>1. ChatsNumbered
  BY DEF IInv
<1>2. CASE /\ Billed(NextChat, ChatBill(c))
           /\ ledger' = Record(ledger, BookOf(Split[c.route].provider), c.served, c.reported)
  <2>1. ledger' = Append(ledger, AnswerLine(c))
    BY <1>2, Zenon DEF Record, AnswerLine
  <2>. QED
    BY <1>1, <1>2, <2>1, LineOfAnswer, LineAdded
<1>3. CASE Billed(NextChat, ChatBill(c)) /\ ledger' = RecordCancelled(ledger)
  <2>1. ledger' = Append(ledger, None)
    BY <1>3 DEF RecordCancelled, RecordUnpriced
  <2>2. LineBilled(None, ChatBill(c))
    BY DEF LineBilled
  <2>. QED
    BY <1>1, <1>3, <2>1, <2>2, LineAdded
<1>4. CASE Billed(NextChat, [ChatBill(c) EXCEPT !.amount = 0]) /\ ledger' = ledger
  <2>. DEFINE free == [ChatBill(c) EXCEPT !.amount = 0]
  <2>1. free.amount = 0
    <3>1. "amount" \in DOMAIN ChatBill(c)
      BY DEF ChatBill, Bill
    <3>. QED
      BY <3>1
  <2>. HIDE DEF free
  <2>2. NextChat \notin Chatted /\ Chatted \subseteq Chatted'
    BY <1>1, <1>4, ChatTakesNext
  <2>3. /\ DOMAIN bills' = DOMAIN bills \cup {NextChat} /\ bills'[NextChat] = free
        /\ \A id \in DOMAIN bills : id # NextChat => bills'[id] = bills[id]
    BY <1>4, OneBillMore DEF free
  <2>4. \A id \in Chatted : bills'[id] = bills[id]
    BY <2>2, <2>3 DEF Chatted
  <2>5. \A id \in Chatted' : id \in Chatted \/ bills'[id].amount = 0
    BY <2>1, <2>3 DEF Chatted
  <2>. QED
    BY <1>4, <2>2, <2>4, <2>5, NoLineAdded
<1>. QED
  BY <1>2, <1>3, <1>4, ChatEnds

(* Every step keeps the ledger's lines those of chat calls of their own.   *)
LEMMA NextLedgerInv ==
  IInv /\ LedgerInv /\ [Next]_allVars => LedgerInv'
<1>. SUFFICES ASSUME IInv, LedgerInv, [Next]_allVars PROVE LedgerInv'
  OBVIOUS
<1>1. CASE MediaStep
  <2>1. call.phase # "idle"
    BY <1>1 DEF MediaStep, Serve, PassOver, TakeUp, TooLate, NoEndpoint, Begin, RefusedHere, GiveUp,
                Leave, Respond, Unreached, Wake
  <2>2. Number \in Nat /\ Number <= MaxCalls /\ MaxCalls \in Nat
    BY <2>1, CallFacts, MediaAssumption DEF IInv, CallInv
  <2>3. ledger' = ledger /\ (UNCHANGED bills \/ \E bill : Billed(Number, bill))
    BY <1>1 DEF MediaStep
  <2>4. Chatted' = Chatted
    BY <2>2, <2>3, MediaTakesNone DEF IInv
  <2>5. \A id \in Chatted : bills'[id] = bills[id]
    BY <2>2, <2>3 DEF Chatted, Billed
  <2>. QED
    BY <2>3, <2>4, <2>5, NoLineAdded
<1>2. ASSUME NEW c \in Chats, ChatCall(c) PROVE LedgerInv'
  BY <1>2, ChatLedger
<1>3. CASE UNCHANGED <<ledger, bills>>
  <2>1. Chatted' = Chatted
    BY <1>3 DEF Chatted
  <2>. QED
    BY <1>3, <2>1, NoLineAdded
<1>. QED
  BY <1>1, <1>2, <1>3 DEF Next, allVars

(* The ledger begins with no line.                                         *)
LEMMA InitLedgerInv ==
  Init => LedgerInv
<1>. SUFFICES ASSUME Init PROVE LedgerInv
  OBVIOUS
<1>1. ledger = <<>> /\ bills = <<>> /\ DOMAIN <<>> = {}
  BY DEF Init
<1>2. Chatted = {}
  BY <1>1 DEF Chatted
<1>3. <<>> \in Seq(ToSet(<<>>))
  BY EmptySeq, Zenon
<1>4. LedgerOf(<<>>)
  BY <1>1, <1>2 DEF LedgerOf
<1>. QED
  BY <1>1, <1>3, <1>4 DEF LedgerInv

-----------------------------------------------------------------------------
(* Many amounts against many bills *)

(* What one request is billed for in a currency.                           *)
BilledIn(id, currency) ==
  IF id \in DOMAIN bills /\ bills[id].currency = currency THEN bills[id].amount ELSE 0

(* What a request is billed for is a number.                               *)
LEMMA BilledInIs ==
  ASSUME BillsAre, NEW id, NEW currency
  PROVE  BilledIn(id, currency) \in Nat
BY DEF BillsAre, BillOK, BilledIn

(* A bill is the sum of what its requests are billed for.                  *)
LEMMA BillInIs ==
  ASSUME BillsAre, NEW ids, IsFiniteSet(ids), NEW currency,
         NEW each, \A id \in ids : each[id] = BilledIn(id, currency)
  PROVE  BillIn(ids, currency) = SumFunctionOnSet(each, ids) /\ BillIn(ids, currency) \in Nat
<1>. DEFINE T == {i \in ids \cap DOMAIN bills : bills[i].currency = currency}
            amounts == [id \in T |-> bills[id].amount]
<1>1. BillIn(ids, currency) = SumFunctionOnSet(amounts, T)
  <2>1. DOMAIN amounts = T
    OBVIOUS
  <2>. QED
    BY <2>1 DEF BillIn, SumFunction
<1>2. T \in SUBSET ids /\ IsFiniteSet(T)
  <2>1. T \subseteq ids
    OBVIOUS
  <2>. QED
    BY <2>1, FS_Subset
<1>3. \A id \in T : amounts[id] = each[id] /\ each[id] \in Int
  <2>1. \A id \in T : each[id] \in Nat
    BY BilledInIs
  <2>. QED
    BY <2>1 DEF BilledIn
<1>4. \A id \in ids \ T : each[id] = 0
  BY DEF BilledIn
<1>5. \A id \in ids : each[id] \in Nat
  BY BilledInIs
<1>. HIDE DEF T, amounts
<1>6. SumFunctionOnSet(amounts, T) = SumFunctionOnSet(each, T)
  BY <1>2, <1>3, SumSame
<1>7. SumFunctionOnSet(each, ids) = SumFunctionOnSet(each, T)
  BY <1>2, <1>3, <1>4, SumLeavesOut
<1>8. SumFunctionOnSet(each, ids) \in Nat
  BY <1>5, SumIsNat
<1>. QED
  BY <1>1, <1>6, <1>7, <1>8

(* Amounts that are each a floor of what its request is billed for add up  *)
(* to a floor of the bill of all of them; if each but for truncation is all*)
(* of it, so is their sum.                                                 *)
LEMMA SumIsBilled ==
  ASSUME BillsAre, NEW S, IsFiniteSet(S), NEW of, NEW amount, NEW currency,
         \A x, y \in S : of[x] = of[y] => x = y,
         \A x \in S : amount[x] \in Nat /\ amount[x] * Million <= BilledIn(of[x], currency)
  PROVE  LET ids == {of[x] : x \in S}
             sum == SumFunctionOnSet(amount, S)
             bill == BillIn(ids, currency)
         IN /\ sum \in Nat /\ bill \in Nat /\ sum * Million <= bill /\ IsFiniteSet(ids)
            /\ Cardinality(ids) = Cardinality(S)
            /\ /\ S # {} /\ bill <= Most
               /\ \A x \in S : BilledIn(of[x], currency) <= Most =>
                    BilledIn(of[x], currency) < (amount[x] + PartsOfARate) * Million
               => bill < (sum + Cardinality(S) * PartsOfARate) * Million
<1>. DEFINE ids == {of[x] : x \in S}
            sum == SumFunctionOnSet(amount, S)
            bill == BillIn(ids, currency)
            each == [id \in ids |-> BilledIn(id, currency)]
            billed == [x \in S |-> BilledIn(of[x], currency)]
            n == Cardinality(S)
<1>0. Million \in Nat \ {0} /\ Most \in Nat /\ PartsOfARate = 7
  BY PricingAssumption, PartsAre
<1>1. IsFiniteSet(ids) /\ Cardinality(ids) = n
  <2>. DEFINE it == [x \in S |-> of[x]]
  <2>1. it \in Bijection(S, ids)
    BY DEF Bijection, Injection, Surjection, IsInjective
  <2>. HIDE DEF ids, it
  <2>. QED
    BY <2>1, FS_Bijection DEF ExistsBijection
<1>2. \A id \in ids : each[id] = BilledIn(id, currency)
  OBVIOUS
<1>3. \A x \in S : billed[x] = BilledIn(of[x], currency) /\ billed[x] \in Nat
  BY BilledInIs
<1>4. \A x \in S : billed[x] = each[of[x]]
  OBVIOUS
<1>5. bill = SumFunctionOnSet(each, ids) /\ bill \in Nat
  <2>. HIDE DEF ids, each
  <2>. QED
    BY <1>1, <1>2, BillInIs
<1>. HIDE DEF each, billed, bill
<1>6. SumFunctionOnSet(each, ids) = SumFunctionOnSet(billed, S)
  <2>1. \A x \in S : billed[x] = each[of[x]] /\ billed[x] \in Int
    BY <1>3, <1>4
  <2>2. ids = {of[x] : x \in S}
    OBVIOUS
  <2>. HIDE DEF ids
  <2>. QED
    BY <2>1, <2>2, SumOver
<1>. HIDE DEF ids
<1>7. sum \in Nat /\ \A x \in S : amount[x] \in Int /\ billed[x] \in Int
  BY <1>3, SumIsNat
<1>8. sum * Million <= SumFunctionOnSet(billed, S)
  BY <1>0, <1>3, SumIsFloor
<1>9. ASSUME S # {}, bill <= Most,
             \A x \in S : BilledIn(of[x], currency) <= Most =>
               BilledIn(of[x], currency) < (amount[x] + PartsOfARate) * Million
      PROVE  bill < (sum + n * PartsOfARate) * Million
  <2>1. \A x \in S : billed[x] <= Most
    <3>1. \A x \in S : billed[x] <= SumFunctionOnSet(billed, S)
      BY <1>3, SumHasMember
    <3>2. SumFunctionOnSet(billed, S) = bill /\ bill \in Nat
      BY <1>5, <1>6
    <3>. HIDE DEF sum
    <3>. QED
      BY <1>0, <1>3, <1>9, <3>1, <3>2
  <2>2. \A x \in S : billed[x] < (amount[x] + 7) * Million
    BY <1>0, <1>3, <1>9, <2>1
  <2>3. bill + n <= (sum + n * 7) * Million
    <3>1. /\ Million \in Int /\ 7 \in Int
          /\ \A x \in S : amount[x] \in Int /\ billed[x] \in Int
                          /\ billed[x] < (amount[x] + 7) * Million
      BY <1>0, <1>7, <2>2
    <3>2. SumFunctionOnSet(billed, S) + n <= (sum + n * 7) * Million
      BY <3>1, SumIsNear, Zenon
    <3>. QED
      BY <1>5, <1>6, <3>2
  <2>4. n \in Nat /\ n # 0
    BY <1>9, FS_CardinalityType, FS_EmptySet
  <2>. HIDE DEF n, sum
  <2>5. (sum + n * 7) * Million \in Int
    BY <1>0, <1>7, <2>4
  <2>. DEFINE most == (sum + n * 7) * Million
  <2>6. bill < most
    <3>. HIDE DEF most
    <3>1. bill + n <= most /\ most \in Int
      BY <2>3, <2>5 DEF most
    <3>. QED
      BY <1>5, <2>4, <3>1
  <2>. QED
    BY <1>0, <2>6
<1>. QED
  BY <1>1, <1>5, <1>6, <1>7, <1>8, <1>9 DEF bill, ids

-----------------------------------------------------------------------------
(* The ledger is a floor *)

(* A total that is within what an i64 holds is the total.                  *)
LEMMA SaturatedIs ==
  ASSUME NEW n \in Nat
  PROVE  /\ Saturated(n) \in Nat /\ Saturated(n) <= n
         /\ n * Million <= Most => Saturated(n) = n
<1>1. Million \in Nat \ {0} /\ Most \in Nat
  BY PricingAssumption
<1>2. n <= n * Million /\ n * Million \in Nat
  BY <1>1, NoLess
<1>. DEFINE all == n * Million
<1>. HIDE DEF all
<1>3. n * Million = all
  BY DEF all
<1>. QED
  BY <1>1, <1>2, <1>3 DEF Saturated

(* A total that is held to what an i64 holds is no more than it was, and   *)
(* is what it was while the bill is within that (Ledger::total).           *)
LEMMA SaturatedIsFloor ==
  ASSUME NEW n \in Nat, NEW bill \in Nat, n * Million <= bill
  PROVE  Saturated(n) * Million <= bill /\ (bill <= Most => Saturated(n) = n)
<1>1. Million \in Nat \ {0} /\ Most \in Nat
  BY PricingAssumption
<1>2. /\ Saturated(n) \in Nat /\ Saturated(n) <= n
      /\ n * Million <= Most => Saturated(n) = n
  BY SaturatedIs
<1>3. Saturated(n) * Million <= n * Million
  BY <1>1, <1>2, Scale
<1>4. Saturated(n) * Million \in Nat /\ n * Million \in Nat
  BY <1>1, <1>2
<1>. DEFINE low == Saturated(n) * Million
            all == n * Million
<1>5. low \in Nat /\ all \in Nat /\ low <= all /\ all <= bill /\ (all <= Most => Saturated(n) = n)
  BY <1>2, <1>3, <1>4
<1>. HIDE DEF low, all
<1>6. low <= bill /\ (bill <= Most => Saturated(n) = n)
  BY <1>1, <1>5
<1>. QED
  BY <1>6 DEF low

(* What is billed for the lines is what is billed for all the chat calls.  *)
LEMMA LinesAreBilled ==
  ASSUME BillsAre, NEW ids, ids \subseteq Chatted, IsFiniteSet(Chatted),
         \A id \in Chatted : bills[id].amount # 0 => id \in ids, NEW currency
  PROVE  BillIn(Chatted, currency) = BillIn(ids, currency)
<1>. DEFINE each == [id \in Chatted |-> BilledIn(id, currency)]
<1>1. \A id \in Chatted : each[id] = BilledIn(id, currency)
  OBVIOUS
<1>2. \A id \in Chatted : each[id] \in Nat /\ (id \notin ids => each[id] = 0)
  BY BilledInIs DEF BilledIn
<1>. HIDE DEF each
<1>3. IsFiniteSet(ids) /\ ids \in SUBSET Chatted
  BY FS_Subset
<1>4. BillIn(Chatted, currency) = SumFunctionOnSet(each, Chatted)
  BY <1>1, BillInIs
<1>5. BillIn(ids, currency) = SumFunctionOnSet(each, ids)
  BY <1>1, <1>3, BillInIs
<1>6. SumFunctionOnSet(each, Chatted) = SumFunctionOnSet(each, ids)
  BY <1>2, <1>3, SumLeavesOut
<1>. QED
  BY <1>4, <1>5, <1>6

(* One line's amount, against what is billed in a currency.                *)
LEMMA LineIn ==
  ASSUME BillsAre, NEW line, NEW id \in DOMAIN bills, LineBilled(line, bills[id]), NEW currency,
         NEW amount, amount = IF line # None /\ line[1].currency = currency
                              THEN line[1].amount ELSE 0
  PROVE  /\ amount \in Nat /\ amount * Million <= BilledIn(id, currency)
         /\ line # None /\ (line[1].currency = currency => line[1].coverage = "exact") =>
              (BilledIn(id, currency) <= Most =>
                 BilledIn(id, currency) < (amount + PartsOfARate) * Million)
<1>1. Million \in Nat \ {0} /\ Most \in Nat /\ PartsOfARate = 7 /\ BilledIn(id, currency) \in Nat
  BY PricingAssumption, PartsAre, BilledInIs
<1>2. CASE line # None /\ line[1].currency = currency
  <2>1. BilledIn(id, currency) = bills[id].amount /\ amount = line[1].amount
    BY <1>2 DEF LineBilled, BilledIn
  <2>2. /\ amount \in Nat /\ amount * Million <= bills[id].amount
        /\ line[1].coverage = "exact" /\ bills[id].amount <= Most =>
             bills[id].amount < (amount + PartsOfARate) * Million
    BY <1>2, <2>1 DEF LineBilled
  <2>. DEFINE low == amount * Million
              high == (amount + PartsOfARate) * Million
  <2>3. /\ low <= bills[id].amount
        /\ line[1].coverage = "exact" /\ bills[id].amount <= Most => bills[id].amount < high
    BY <2>2
  <2>. HIDE DEF low, high
  <2>4. /\ low <= BilledIn(id, currency)
        /\ line[1].coverage = "exact" => (BilledIn(id, currency) <= Most => BilledIn(id, currency) < high)
    BY <2>1, <2>3
  <2>. QED
    BY <1>2, <2>2, <2>4 DEF low, high
<1>3. CASE ~(line # None /\ line[1].currency = currency)
  <2>1. amount = 0
    BY <1>3
  <2>2. line # None => BilledIn(id, currency) = 0
    BY <1>3 DEF BilledIn, LineBilled
  <2>3. 0 * Million = 0 /\ (0 + 7) * Million > 0
    BY <1>1
  <2>. QED
    BY <1>1, <2>1, <2>2, <2>3
<1>. QED
  BY <1>2, <1>3

(* What the ledger totals, of the calls its lines are of, is a floor of    *)
(* their bill.                                                             *)
LEMMA LedgerFloor ==
  IInv /\ BilledInv /\ LedgerInv => LedgerIsAFloor
<1>. SUFFICES ASSUME IInv, BilledInv, LedgerInv PROVE LedgerIsAFloor
  OBVIOUS
<1>. DEFINE S == DOMAIN ledger
            n == Len(ledger)
<1>1. BillsAre /\ IsFiniteSet(Chatted)
  BY DEF BilledInv, IInv, ChatsNumbered
<1>2. n \in Nat /\ S = 1..n
  BY LenProperties DEF LedgerInv
<1>3. IsFiniteSet(S) /\ Cardinality(S) = n
  <2>1. 1 \in Int /\ n \in Int
    BY <1>2
  <2>. HIDE DEF n, S
  <2>2. IsFiniteSet(1..n) /\ Cardinality(1..n) = IF 1 > n THEN 0 ELSE n - 1 + 1
    BY <2>1, FS_Interval
  <2>. QED
    BY <1>2, <2>2
<1>4. PICK calls : LedgerOf(calls)
  BY DEF LedgerInv
<1>5. Million \in Nat \ {0} /\ Most \in Nat /\ PartsOfARate = 7
  BY PricingAssumption, PartsAre
<1>6. PricedLines(ledger) \subseteq S /\ \A i \in S : i \in PricedLines(ledger) <=> ledger[i] # None
  BY DEF PricedLines
<1>7. ASSUME NEW c \in Currencies(ledger)
      PROVE  LET total == Figure(ledger, InCurrency(ledger, c)) bill == BillIn(Chatted, c) IN
             /\ total.amount * Million <= bill
             /\ total.kind = "exact" /\ bill <= Most => Within(total.amount, bill, n)
  <2>. DEFINE lines == InCurrency(ledger, c)
              of == [i \in S |-> calls[i]]
              amount == [i \in S |-> IF ledger[i] # None /\ ledger[i][1].currency = c
                                     THEN ledger[i][1].amount ELSE 0]
              told == [i \in lines |-> ledger[i][1].amount]
              ids == {of[i] : i \in S}
              sum == SumFunctionOnSet(amount, S)
              bill == BillIn(Chatted, c)
  <2>1. \A i \in S : of[i] = calls[i] /\ of[i] \in Chatted /\ of[i] \in DOMAIN bills
    BY <1>4 DEF LedgerOf, Chatted
  <2>2. \A i, j \in S : of[i] = of[j] => i = j
    BY <1>4 DEF LedgerOf
  <2>3. ASSUME NEW i \in S
        PROVE  /\ amount[i] \in Nat /\ amount[i] * Million <= BilledIn(of[i], c)
               /\ ledger[i] # None /\ (ledger[i][1].currency = c => ledger[i][1].coverage = "exact") =>
                    (BilledIn(of[i], c) <= Most =>
                       BilledIn(of[i], c) < (amount[i] + PartsOfARate) * Million)
    <3>1. LineBilled(ledger[i], bills[of[i]])
      BY <1>4, <2>1 DEF LedgerOf
    <3>2. amount[i] = IF ledger[i] # None /\ ledger[i][1].currency = c
                      THEN ledger[i][1].amount ELSE 0
      OBVIOUS
    <3>. DEFINE a == amount[i]
                id == of[i]
                line == ledger[i]
    <3>3. /\ LineBilled(line, bills[id]) /\ id \in DOMAIN bills
          /\ a = IF line # None /\ line[1].currency = c THEN line[1].amount ELSE 0
      BY <2>1, <3>1, <3>2
    <3>. HIDE DEF a, id, line
    <3>4. /\ a \in Nat /\ a * Million <= BilledIn(id, c)
          /\ line # None /\ (line[1].currency = c => line[1].coverage = "exact") =>
               (BilledIn(id, c) <= Most => BilledIn(id, c) < (a + PartsOfARate) * Million)
      BY <1>1, <3>3, LineIn, Zenon
    <3>. QED
      BY <3>4, Zenon DEF a, id, line
  <2>4. lines \in SUBSET S /\ \A i \in S : i \in lines <=> ledger[i] # None /\ ledger[i][1].currency = c
    BY DEF InCurrency, PricedLines
  <2>5. \A i \in lines : amount[i] = told[i]
    BY <2>4
  <2>6. \A i \in S : i \notin lines => amount[i] = 0
    BY <2>4
  <2>7. DOMAIN told = lines
    OBVIOUS
  <2>8. S # {}
    BY <1>6 DEF Currencies
  <2>9. Figure(ledger, lines).amount = Saturated(SumFunctionOnSet(told, lines))
    BY <2>7 DEF Figure, Amount, SumFunction
  <2>10. Figure(ledger, lines).kind = TotalKind(ledger, lines)
    BY DEF Figure
  <2>11. bill = BillIn(ids, c)
    <3>1. ids \subseteq Chatted /\ \A id \in Chatted : bills[id].amount # 0 => id \in ids
      BY <1>4, <2>1 DEF LedgerOf
    <3>. HIDE DEF ids
    <3>. QED
      BY <1>1, <3>1, LinesAreBilled
  <2>. HIDE DEF lines, of, amount, told, bill, n, S
  <2>12. SumFunctionOnSet(told, lines) = sum
    <3>1. IsFiniteSet(lines)
      BY <1>3, <2>4, FS_Subset
    <3>2. SumFunctionOnSet(told, lines) = SumFunctionOnSet(amount, lines)
      BY <2>5, <3>1, SumSame
    <3>3. SumFunctionOnSet(amount, S) = SumFunctionOnSet(amount, lines)
      <4>1. (\A i \in lines : amount[i] \in Int) /\ \A i \in S \ lines : amount[i] = 0
        BY <2>3, <2>4, <2>6
      <4>. QED
        BY <1>3, <2>4, <4>1, SumLeavesOut
    <3>. QED
      BY <3>2, <3>3
  <2>13. /\ sum \in Nat /\ bill \in Nat /\ sum * Million <= bill
         /\ /\ S # {} /\ bill <= Most
            /\ \A i \in S : BilledIn(of[i], c) <= Most =>
                 BilledIn(of[i], c) < (amount[i] + PartsOfARate) * Million
            => bill < (sum + Cardinality(S) * PartsOfARate) * Million
    <3>1. \A i \in S : amount[i] \in Nat /\ amount[i] * Million <= BilledIn(of[i], c)
      BY <2>3
    <3>2. /\ sum \in Nat /\ BillIn(ids, c) \in Nat /\ sum * Million <= BillIn(ids, c)
          /\ /\ S # {} /\ BillIn(ids, c) <= Most
             /\ \A i \in S : BilledIn(of[i], c) <= Most =>
                  BilledIn(of[i], c) < (amount[i] + PartsOfARate) * Million
             => BillIn(ids, c) < (sum + Cardinality(S) * PartsOfARate) * Million
      BY <1>1, <1>3, <2>2, <3>1, SumIsBilled, Zenon
    <3>. QED
      BY <2>11, <3>2, Zenon
  <2>. HIDE DEF sum
  <2>14. Saturated(sum) * Million <= bill /\ (bill <= Most => Saturated(sum) = sum)
    BY <2>13, SaturatedIsFloor
  <2>15. ASSUME TotalKind(ledger, lines) = "exact", bill <= Most
         PROVE  bill < (Saturated(sum) + n * PartsOfARate) * Million
    <3>1. UnpricedCalls(ledger) <= 0 \/ ~(UnpricedCalls(ledger) > 0)
      BY <2>15 DEF TotalKind
    <3>2. \A i \in lines : ledger[i][1].coverage = "exact"
      BY <2>15 DEF TotalKind
    <3>3. PricedLines(ledger) = S
      <4>1. /\ IsFiniteSet(PricedLines(ledger))
            /\ Cardinality(PricedLines(ledger)) <= Cardinality(S)
            /\ Cardinality(S) = Cardinality(PricedLines(ledger)) => S = PricedLines(ledger)
        BY <1>3, <1>6, FS_Subset
      <4>2. Cardinality(PricedLines(ledger)) \in Nat
        BY <4>1, FS_CardinalityType
      <4>3. UnpricedCalls(ledger) = n - Cardinality(PricedLines(ledger))
        BY DEF UnpricedCalls, n
      <4>. QED
        BY <1>2, <1>3, <3>1, <4>1, <4>2, <4>3
    <3>4. \A i \in S : BilledIn(of[i], c) <= Most =>
            BilledIn(of[i], c) < (amount[i] + PartsOfARate) * Million
      <4>1. ASSUME NEW i \in S
            PROVE  ledger[i] # None /\ (ledger[i][1].currency = c => ledger[i][1].coverage = "exact")
        BY <1>6, <2>4, <3>2, <3>3
      <4>. QED
        BY <2>3, <4>1, Zenon
    <3>5. bill < (sum + Cardinality(S) * PartsOfARate) * Million
      BY <2>8, <2>13, <2>15, <3>4, Zenon
    <3>6. Cardinality(S) = n /\ Saturated(sum) = sum
      BY <1>3, <2>14, <2>15
    <3>. QED
      BY <3>5, <3>6
  <2>16. Figure(ledger, lines).amount = Saturated(sum)
    BY <2>9, <2>12
  <2>. QED
    BY <2>10, <2>14, <2>15, <2>16, Zenon DEF Within, lines, bill
<1>8. (Total(ledger) = None) <=> (Cardinality(Currencies(ledger)) > 1)
  <2>1. Cardinality(Currencies(ledger)) \in Nat
    <3>. DEFINE f == [i \in PricedLines(ledger) |-> ledger[i][1].currency]
    <3>1. Currencies(ledger) = {f[i] : i \in PricedLines(ledger)}
      BY DEF Currencies
    <3>2. IsFiniteSet(PricedLines(ledger))
      BY <1>3, <1>6, FS_Subset
    <3>. HIDE DEF f
    <3>. QED
      BY <3>1, <3>2, ImageIsFinite, FS_CardinalityType
  <2>. DEFINE one == Cardinality(Currencies(ledger)) <= 1
  <2>2. one \in BOOLEAN /\ (one <=> ~(Cardinality(Currencies(ledger)) > 1))
    BY <2>1
  <2>3. Total(ledger) = When(one, Figure(ledger, PricedLines(ledger)))
    BY DEF Total
  <2>. HIDE DEF one
  <2>. QED
    BY <2>2, <2>3, WhenHas
<1>9. /\ DOMAIN Totals(ledger) = Currencies(ledger)
      /\ \A c \in Currencies(ledger) : Totals(ledger)[c] = Figure(ledger, InCurrency(ledger, c))
  BY DEF Totals
<1>. QED
  BY <1>7, <1>8, <1>9, Zenon DEF LedgerIsAFloor

-----------------------------------------------------------------------------
(* Totals of rows, whatever currencies they are in *)

Told(ids, c) == {id \in ids : table[id].tokens[c] # None}
Paid(ids) == {id \in ids : table[id].cost.currency # None}
PaidIn(ids, currency) == {id \in ids : table[id].cost.currency = Some(currency)}

OutcomesOf(ids) == [o \in Outcomes |-> Cardinality({id \in ids : table[id].outcome = o})]
CostsOf(ids) == [s \in Statuses |-> Cardinality({id \in ids : table[id].cost.status = s})]
MissingOf(ids) ==
  Cardinality({id \in ids : /\ table[id].outcome \in {"ok", "interrupted"}
                            /\ table[id].tokens = Absent})
TokensOf(ids) ==
  [c \in Counts |->
     When(Told(ids, c) # {}, SumFunction([id \in Told(ids, c) |-> table[id].tokens[c][1]]))]
CurrenciesOf(ids) == {table[id].cost.currency[1] : id \in Paid(ids)}
MicrosOf(ids) == SumFunction([id \in ids |-> table[id].cost.micros[1]])
AmountsOf(ids) == [c \in CurrenciesOf(ids) |-> MicrosOf(PaidIn(ids, c))]

TotalsOf(ids) ==
  [requests |-> Cardinality(ids), outcomes |-> OutcomesOf(ids), costs |-> CostsOf(ids),
   missing |-> MissingOf(ids), tokens |-> TokensOf(ids), amounts |-> AmountsOf(ids)]

(* What rows say of tokens and costs are numbers.                          *)
RowsAreRead == \A id \in DOMAIN table : CostOK(table[id].cost) /\ TokensOK(table[id].tokens)

(* What is there is one of what there can be.                              *)
LEMMA SomeHas ==
  ASSUME NEW S, NEW option, option \in Options(S), option # None
  PROVE  option[1] \in S /\ option = Some(option[1])
BY DEF Options, Some

(* A row with a currency has an amount in it.                              *)
LEMMA PaidIs ==
  ASSUME RowsAreRead, NEW id \in DOMAIN table, table[id].cost.currency # None
  PROVE  /\ table[id].cost.currency = Some(table[id].cost.currency[1])
         /\ table[id].cost.micros[1] \in Nat /\ table[id].cost.micros # None
         /\ table[id].cost.status \in {"priced", "partial"}
BY DEF RowsAreRead, CostOK

(* One line of the grouped query is the totals of its rows.                *)
LEMMA PartIsTotals ==
  ASSUME RowsAreRead, NEW ids, ids \subseteq DOMAIN table,
         NEW currency, \A id \in ids : table[id].cost.currency = currency
  PROVE  Part(ids) = TotalsOf(ids)
<1>. DEFINE amounts == [c \in CurrenciesOf(ids) |-> MicrosOf(Paid(ids))]
<1>1. Part(ids) = [requests |-> Cardinality(ids), outcomes |-> OutcomesOf(ids),
                   costs |-> CostsOf(ids), missing |-> MissingOf(ids), tokens |-> TokensOf(ids),
                   amounts |-> amounts]
  BY Zenon DEF Part, OutcomesOf, CostsOf, MissingOf, TokensOf, Told, CurrenciesOf, Paid, MicrosOf
<1>2. \A c \in CurrenciesOf(ids) : PaidIn(ids, c) = Paid(ids)
  <2>1. ASSUME NEW c \in CurrenciesOf(ids) PROVE PaidIn(ids, c) = Paid(ids)
    <3>1. PICK id \in Paid(ids) : c = table[id].cost.currency[1]
      BY DEF CurrenciesOf
    <3>2. id \in ids /\ currency # None /\ currency = Some(c)
      BY <3>1, PaidIs DEF Paid
    <3>. QED
      BY <3>2 DEF Paid, PaidIn
  <2>. QED
    BY <2>1
<1>3. amounts = AmountsOf(ids)
  BY <1>2 DEF AmountsOf
<1>. HIDE DEF amounts
<1>. QED
  BY <1>1, <1>3 DEF TotalsOf

(* No rows have the totals a sum begins with (UsageTotals::default).       *)
LEMMA NoTotalsIs ==
  TotalsOf({}) = NoTotals
<1>1. Cardinality({}) = 0 /\ MissingOf({}) = 0
  BY CountOfNone DEF MissingOf
<1>2. OutcomesOf({}) = [o \in Outcomes |-> 0]
  <2>1. \A o : Cardinality({id \in {} : table[id].outcome = o}) = 0
    BY CountOfNone
  <2>. QED
    BY <2>1 DEF OutcomesOf
<1>3. CostsOf({}) = [s \in Statuses |-> 0]
  <2>1. \A s : Cardinality({id \in {} : table[id].cost.status = s}) = 0
    BY CountOfNone
  <2>. QED
    BY <2>1 DEF CostsOf
<1>4. TokensOf({}) = Absent
  <2>1. ASSUME NEW c, NEW x PROVE When(Told({}, c) # {}, x) = None
    BY DEF Told, When, None
  <2>. QED
    BY <2>1 DEF TokensOf, Absent
<1>5. AmountsOf({}) = <<>>
  <2>1. CurrenciesOf({}) = {}
    BY DEF CurrenciesOf, Paid
  <2>. QED
    BY <2>1 DEF AmountsOf
<1>. QED
  BY <1>1, <1>2, <1>3, <1>4, <1>5 DEF TotalsOf, NoTotals

-----------------------------------------------------------------------------
(* Totals of two groups add up to those of both *)

(* Outcomes of two groups of rows add up.                                  *)
LEMMA OutcomesSplit ==
  ASSUME NEW A, NEW B, IsFiniteSet(A), IsFiniteSet(B), A \cap B = {}
  PROVE  OutcomesOf(A \cup B) = [o \in Outcomes |-> OutcomesOf(A)[o] + OutcomesOf(B)[o]]
<1>1. ASSUME NEW o \in Outcomes
      PROVE  Cardinality({id \in A \cup B : table[id].outcome = o})
               = OutcomesOf(A)[o] + OutcomesOf(B)[o]
  <2>. DEFINE X == {id \in A : table[id].outcome = o}
              Y == {id \in B : table[id].outcome = o}
              Z == {id \in A \cup B : table[id].outcome = o}
  <2>1. X \subseteq A /\ Y \subseteq B /\ Z = X \cup Y
    OBVIOUS
  <2>2. OutcomesOf(A)[o] = Cardinality(X) /\ OutcomesOf(B)[o] = Cardinality(Y)
    BY DEF OutcomesOf
  <2>. HIDE DEF X, Y, Z
  <2>3. Cardinality(Z) = Cardinality(X) + Cardinality(Y)
    BY <2>1, CountSplits
  <2>. QED
    BY <2>2, <2>3 DEF Z
<1>. QED
  BY <1>1 DEF OutcomesOf

(* Cost statuses of two groups of rows add up.                             *)
LEMMA CostsSplit ==
  ASSUME NEW A, NEW B, IsFiniteSet(A), IsFiniteSet(B), A \cap B = {}
  PROVE  CostsOf(A \cup B) = [s \in Statuses |-> CostsOf(A)[s] + CostsOf(B)[s]]
<1>1. ASSUME NEW s \in Statuses
      PROVE  Cardinality({id \in A \cup B : table[id].cost.status = s})
               = CostsOf(A)[s] + CostsOf(B)[s]
  <2>. DEFINE X == {id \in A : table[id].cost.status = s}
              Y == {id \in B : table[id].cost.status = s}
              Z == {id \in A \cup B : table[id].cost.status = s}
  <2>1. X \subseteq A /\ Y \subseteq B /\ Z = X \cup Y
    OBVIOUS
  <2>2. CostsOf(A)[s] = Cardinality(X) /\ CostsOf(B)[s] = Cardinality(Y)
    BY DEF CostsOf
  <2>. HIDE DEF X, Y, Z
  <2>3. Cardinality(Z) = Cardinality(X) + Cardinality(Y)
    BY <2>1, CountSplits
  <2>. QED
    BY <2>2, <2>3 DEF Z
<1>. QED
  BY <1>1 DEF CostsOf

(* Rows with no usage, of two groups, add up.                              *)
LEMMA MissingSplit ==
  ASSUME NEW A, NEW B, IsFiniteSet(A), IsFiniteSet(B), A \cap B = {}
  PROVE  MissingOf(A \cup B) = MissingOf(A) + MissingOf(B)
<1>. DEFINE Lacks(ids) == {id \in ids : /\ table[id].outcome \in {"ok", "interrupted"}
                                        /\ table[id].tokens = Absent}
<1>1. Lacks(A) \subseteq A /\ Lacks(B) \subseteq B /\ Lacks(A \cup B) = Lacks(A) \cup Lacks(B)
  OBVIOUS
<1>2. \A ids : MissingOf(ids) = Cardinality(Lacks(ids))
  BY DEF MissingOf
<1>. HIDE DEF Lacks
<1>3. Cardinality(Lacks(A \cup B)) = Cardinality(Lacks(A)) + Cardinality(Lacks(B))
  BY <1>1, CountSplits
<1>. QED
  BY <1>2, <1>3

(* Tokens of two groups add up, count by count, and a count neither group  *)
(* has stays missing.                                                      *)
LEMMA TokensSplit ==
  ASSUME RowsAreRead, NEW A, NEW B, IsFiniteSet(A), IsFiniteSet(B), A \cap B = {},
         A \cup B \subseteq DOMAIN table
  PROVE  TokensOf(A \cup B) = Merge(TokensOf(A), TokensOf(B))
<1>1. ASSUME NEW c \in Counts
      PROVE  TokensOf(A \cup B)[c] =
               IF TokensOf(A)[c] = None /\ TokensOf(B)[c] = None THEN None
               ELSE Some(Or(TokensOf(A)[c], 0) + Or(TokensOf(B)[c], 0))
  <2>. DEFINE X == Told(A, c)
              Y == Told(B, c)
              Z == Told(A \cup B, c)
              f == [id \in X |-> table[id].tokens[c][1]]
              g == [id \in Y |-> table[id].tokens[c][1]]
              h == [id \in Z |-> table[id].tokens[c][1]]
              a == TokensOf(A)[c]
              b == TokensOf(B)[c]
              n == SumFunction(f)
              m == SumFunction(g)
  <2>1. X \subseteq A /\ Y \subseteq B /\ Z = X \cup Y
    BY DEF Told
  <2>2. IsFiniteSet(X) /\ IsFiniteSet(Y) /\ X \cap Y = {}
    BY <2>1, FS_Subset
  <2>3. \A id \in Z : table[id].tokens[c][1] \in Nat
    <3>1. \A id \in Z : table[id].tokens[c] \in Options(Nat) /\ table[id].tokens[c] # None
      BY DEF RowsAreRead, TokensOK, Told
    <3>. QED
      BY <3>1, SomeHas
  <2>4. /\ DOMAIN f = X /\ DOMAIN g = Y /\ DOMAIN h = X \cup Y
        /\ (\A x \in X : f[x] \in Nat /\ h[x] = f[x]) /\ \A y \in Y : g[y] \in Nat /\ h[y] = g[y]
    BY <2>1, <2>3
  <2>5. a = When(X # {}, n) /\ b = When(Y # {}, m) /\ TokensOf(A \cup B)[c] = When(Z # {}, SumFunction(h))
    BY DEF TokensOf
  <2>. HIDE DEF X, Y, Z, f, g, h, a, b
  <2>6. SumFunction(h) = n + m
    BY <2>2, <2>4, SumSplitsIn
  <2>7. n \in Nat /\ m \in Nat /\ (X = {} => n = 0) /\ (Y = {} => m = 0)
    BY <2>2, <2>4, SumSplitsIn
  <2>. HIDE DEF n, m
  <2>8. TokensOf(A \cup B)[c] = IF a = None /\ b = None THEN None ELSE Some(Or(a, 0) + Or(b, 0))
    BY <2>1, <2>5, <2>6, <2>7 DEF When, None, Some, Or
  <2>. QED
    BY <2>8 DEF a, b
<1>2. TokensOf(A \cup B) = [c \in Counts |-> TokensOf(A \cup B)[c]]
  BY DEF TokensOf
<1>. QED
  BY <1>1, <1>2 DEF Merge

(* Micros of one currency add up over two groups.                          *)
LEMMA MicrosSplit ==
  ASSUME RowsAreRead, NEW A, NEW B, IsFiniteSet(A), IsFiniteSet(B), A \cap B = {},
         A \cup B \subseteq DOMAIN table, NEW c
  PROVE  /\ MicrosOf(PaidIn(A \cup B, c)) = MicrosOf(PaidIn(A, c)) + MicrosOf(PaidIn(B, c))
         /\ MicrosOf(PaidIn(A, c)) \in Nat
<1>. DEFINE X == PaidIn(A, c)
            Y == PaidIn(B, c)
            Z == PaidIn(A \cup B, c)
            f == [id \in X |-> table[id].cost.micros[1]]
            g == [id \in Y |-> table[id].cost.micros[1]]
            h == [id \in Z |-> table[id].cost.micros[1]]
<1>1. X \subseteq A /\ Y \subseteq B /\ Z = X \cup Y
  BY DEF PaidIn
<1>2. IsFiniteSet(X) /\ IsFiniteSet(Y) /\ X \cap Y = {}
  BY <1>1, FS_Subset
<1>3. \A id \in Z : table[id].cost.micros[1] \in Nat
  <2>1. \A id \in Z : id \in DOMAIN table /\ table[id].cost.currency # None
    BY SomeIs DEF PaidIn
  <2>. QED
    BY <2>1, PaidIs
<1>4. /\ DOMAIN f = X /\ DOMAIN g = Y /\ DOMAIN h = X \cup Y
      /\ (\A x \in X : f[x] \in Nat /\ h[x] = f[x]) /\ \A y \in Y : g[y] \in Nat /\ h[y] = g[y]
  BY <1>1, <1>3
<1>. HIDE DEF X, Y, Z, f, g, h
<1>5. SumFunction(h) = SumFunction(f) + SumFunction(g)
  BY <1>2, <1>4, SumSplitsIn
<1>6. SumFunction(f) \in Nat
  BY <1>2, <1>4, SumSplitsIn
<1>. QED
  BY <1>5, <1>6 DEF MicrosOf, X, Y, Z, f, g, h

(* An amount there is none of is nothing.                                  *)
LEMMA AmountOf ==
  ASSUME NEW ids, NEW c
  PROVE  /\ AmountIn(TotalsOf(ids), c) = MicrosOf(PaidIn(ids, c))
         /\ (IF c \in DOMAIN AmountsOf(ids) THEN AmountsOf(ids)[c] ELSE 0) = MicrosOf(PaidIn(ids, c))
<1>1. CASE c \in CurrenciesOf(ids)
  BY <1>1 DEF AmountIn, TotalsOf, AmountsOf
<1>2. CASE c \notin CurrenciesOf(ids)
  <2>1. PaidIn(ids, c) = {}
    <3>1. ASSUME NEW id \in PaidIn(ids, c) PROVE FALSE
      <4>1. id \in Paid(ids) /\ table[id].cost.currency[1] = c
        BY SomeIs DEF PaidIn, Paid
      <4>. QED
        BY <1>2, <4>1 DEF CurrenciesOf
    <3>. QED
      BY <3>1
  <2>2. MicrosOf({}) = 0
    <3>. DEFINE f == [id \in {} |-> table[id].cost.micros[1]]
    <3>1. DOMAIN f = {} /\ MicrosOf({}) = SumFunction(f)
      BY DEF MicrosOf
    <3>. HIDE DEF f
    <3>. QED
      BY <3>1, SumOfNone DEF SumFunction
  <2>. QED
    BY <1>2, <2>1, <2>2 DEF AmountIn, TotalsOf, AmountsOf
<1>. QED
  BY <1>1, <1>2

(* Amounts of two groups add up, currency by currency.                     *)
LEMMA AmountsIn ==
  ASSUME RowsAreRead, NEW A, NEW B, IsFiniteSet(A), IsFiniteSet(B), A \cap B = {},
         A \cup B \subseteq DOMAIN table, NEW a, NEW b, a = AmountsOf(A), b = AmountsOf(B)
  PROVE  /\ DOMAIN AmountsOf(A \cup B) = DOMAIN a \cup DOMAIN b
         /\ \A c \in DOMAIN AmountsOf(A \cup B) :
              AmountsOf(A \cup B)[c] = (IF c \in DOMAIN a THEN a[c] ELSE 0)
                                      + (IF c \in DOMAIN b THEN b[c] ELSE 0)
<1>1. CurrenciesOf(A \cup B) = CurrenciesOf(A) \cup CurrenciesOf(B)
  BY DEF CurrenciesOf, Paid
<1>2. DOMAIN a = CurrenciesOf(A) /\ DOMAIN b = CurrenciesOf(B)
      /\ DOMAIN AmountsOf(A \cup B) = CurrenciesOf(A \cup B)
  BY DEF AmountsOf
<1>3. ASSUME NEW c \in CurrenciesOf(A \cup B)
      PROVE  AmountsOf(A \cup B)[c] = (IF c \in DOMAIN a THEN a[c] ELSE 0)
                                     + (IF c \in DOMAIN b THEN b[c] ELSE 0)
  <2>1. MicrosOf(PaidIn(A \cup B, c)) = MicrosOf(PaidIn(A, c)) + MicrosOf(PaidIn(B, c))
    BY MicrosSplit
  <2>2. /\ (IF c \in DOMAIN AmountsOf(A) THEN AmountsOf(A)[c] ELSE 0) = MicrosOf(PaidIn(A, c))
        /\ (IF c \in DOMAIN AmountsOf(B) THEN AmountsOf(B)[c] ELSE 0) = MicrosOf(PaidIn(B, c))
    BY AmountOf
  <2>3. AmountsOf(A \cup B)[c] = MicrosOf(PaidIn(A \cup B, c))
    BY DEF AmountsOf
  <2>. QED
    BY <2>1, <2>2, <2>3
<1>. QED
  BY <1>1, <1>2, <1>3

(* What two groups of rows come to is what they come to together (absorb). *)
LEMMA TotalsSplit ==
  ASSUME RowsAreRead, NEW A, NEW B, IsFiniteSet(A), IsFiniteSet(B), A \cap B = {},
         A \cup B \subseteq DOMAIN table
  PROVE  TotalsOf(A \cup B) = AbsorbPart(TotalsOf(A), TotalsOf(B))
<1>1. Cardinality(A \cup B) = Cardinality(A) + Cardinality(B)
  BY CountOfBoth
<1>. DEFINE a == TotalsOf(A)
            b == TotalsOf(B)
<1>2. /\ a.requests = Cardinality(A) /\ a.outcomes = OutcomesOf(A) /\ a.costs = CostsOf(A)
      /\ a.missing = MissingOf(A) /\ a.tokens = TokensOf(A) /\ a.amounts = AmountsOf(A)
  BY DEF TotalsOf
<1>3. /\ b.requests = Cardinality(B) /\ b.outcomes = OutcomesOf(B) /\ b.costs = CostsOf(B)
      /\ b.missing = MissingOf(B) /\ b.tokens = TokensOf(B) /\ b.amounts = AmountsOf(B)
  BY DEF TotalsOf
<1>. HIDE DEF a, b
<1>4. Cardinality(A \cup B) = a.requests + b.requests
  BY <1>1, <1>2, <1>3
<1>5. OutcomesOf(A \cup B) = [o \in Outcomes |-> a.outcomes[o] + b.outcomes[o]]
  BY <1>2, <1>3, OutcomesSplit
<1>6. CostsOf(A \cup B) = [s \in Statuses |-> a.costs[s] + b.costs[s]]
  BY <1>2, <1>3, CostsSplit
<1>7. MissingOf(A \cup B) = a.missing + b.missing /\ TokensOf(A \cup B) = Merge(a.tokens, b.tokens)
  BY <1>2, <1>3, MissingSplit, TokensSplit
<1>8. AmountsOf(A \cup B) =
        [c \in DOMAIN a.amounts \cup DOMAIN b.amounts |->
           (IF c \in DOMAIN a.amounts THEN a.amounts[c] ELSE 0)
           + (IF c \in DOMAIN b.amounts THEN b.amounts[c] ELSE 0)]
  <2>. DEFINE all == DOMAIN a.amounts \cup DOMAIN b.amounts
              both(c) == (IF c \in DOMAIN a.amounts THEN a.amounts[c] ELSE 0)
                         + (IF c \in DOMAIN b.amounts THEN b.amounts[c] ELSE 0)
  <2>1. DOMAIN AmountsOf(A \cup B) = all
    BY <1>2, <1>3, AmountsIn, SMTT(30)
  <2>2. ASSUME NEW c \in all PROVE AmountsOf(A \cup B)[c] = both(c)
    BY <1>2, <1>3, <2>1, AmountsIn
  <2>3. AmountsOf(A \cup B) = [c \in DOMAIN AmountsOf(A \cup B) |-> AmountsOf(A \cup B)[c]]
    BY DEF AmountsOf
  <2>4. AmountsOf(A \cup B) = [c \in all |-> both(c)]
    <3>. HIDE DEF all, both
    <3>. QED
      BY <2>1, <2>2, <2>3
  <2>. QED
    BY <2>4, Zenon
<1>9. TotalsOf(A \cup B) = AbsorbPart(a, b)
  <2>. DEFINE outcomes == [o \in Outcomes |-> a.outcomes[o] + b.outcomes[o]]
              costs == [s \in Statuses |-> a.costs[s] + b.costs[s]]
              amounts == [c \in DOMAIN a.amounts \cup DOMAIN b.amounts |->
                            (IF c \in DOMAIN a.amounts THEN a.amounts[c] ELSE 0)
                            + (IF c \in DOMAIN b.amounts THEN b.amounts[c] ELSE 0)]
  <2>1. AbsorbPart(a, b) =
          [requests |-> a.requests + b.requests, outcomes |-> outcomes, costs |-> costs,
           missing |-> a.missing + b.missing, tokens |-> Merge(a.tokens, b.tokens),
           amounts |-> amounts]
    BY Zenon DEF AbsorbPart
  <2>2. OutcomesOf(A \cup B) = outcomes /\ CostsOf(A \cup B) = costs /\ AmountsOf(A \cup B) = amounts
    BY <1>5, <1>6, <1>8, Zenon
  <2>. HIDE DEF outcomes, costs, amounts
  <2>. QED
    BY <1>4, <1>7, <2>1, <2>2 DEF TotalsOf
<1>. QED
  BY <1>9 DEF a, b

-----------------------------------------------------------------------------
(* Totals of many groups add up to those of all of them *)

Absorbs(it, groups, S) ==
  it = [s \in SUBSET S |->
          IF s = {} THEN NoTotals
          ELSE AbsorbPart(it[s \ {CHOOSE x \in s : TRUE}], groups[CHOOSE x \in s : TRUE])]

(* Adding up totals is a recursive function on sets of them.               *)
LEMMA AbsorbAllIs ==
  ASSUME NEW groups
  PROVE  AbsorbAll(groups) = (CHOOSE it : Absorbs(it, groups, DOMAIN groups))[DOMAIN groups]
BY DEF AbsorbAll, FoldFunction, FoldFunctionOnSet, MapThenFoldSet, Absorbs

(* Totals of groups with no row in common add up to those of all their     *)
(* rows, in whatever order they are taken (absorb).                        *)
LEMMA AllAbsorbed ==
  ASSUME RowsAreRead, IsFiniteSet(DOMAIN table), NEW S, IsFiniteSet(S), NEW item,
         \A x \in S : item[x] \subseteq DOMAIN table,
         \A x \in S : \A y \in S : x # y => item[x] \cap item[y] = {},
         NEW groups, DOMAIN groups = S, \A x \in S : groups[x] = TotalsOf(item[x])
  PROVE  AbsorbAll(groups) = TotalsOf(UNION {item[x] : x \in S})
<1>. DEFINE All(s) == UNION {item[x] : x \in s}
            one(s) == CHOOSE x \in s : TRUE
<1>1. \A s \in SUBSET S : s # {} => one(s) \in s
  OBVIOUS
<1>2. ASSUME NEW s \in SUBSET S, NEW x \in s
      PROVE  TotalsOf(All(s)) = AbsorbPart(TotalsOf(All(s \ {x})), groups[x])
  <2>. DEFINE A == All(s \ {x})
              B == item[x]
  <2>1. All(s) = A \cup B
    OBVIOUS
  <2>2. A \cap B = {}
    <3>1. ASSUME NEW z \in A \cap B PROVE FALSE
      <4>1. PICK y \in s \ {x} : z \in item[y]
        OBVIOUS
      <4>2. item[x] \cap item[y] = {}
        BY <4>1
      <4>. QED
        BY <4>1, <4>2
    <3>. QED
      BY <3>1
  <2>3. A \cup B \subseteq DOMAIN table
    OBVIOUS
  <2>4. IsFiniteSet(A) /\ IsFiniteSet(B)
    <3>. HIDE DEF A, B
    <3>. QED
      BY <2>3, FS_Subset
  <2>5. groups[x] = TotalsOf(B)
    OBVIOUS
  <2>. HIDE DEF A, B, All
  <2>6. TotalsOf(A \cup B) = AbsorbPart(TotalsOf(A), TotalsOf(B))
    BY <2>2, <2>3, <2>4, TotalsSplit
  <2>. QED
    BY <2>1, <2>5, <2>6 DEF A
<1>3. TotalsOf(All({})) = NoTotals
  <2>1. All({}) = {}
    OBVIOUS
  <2>. HIDE DEF All
  <2>. QED
    BY <2>1, NoTotalsIs
<1>. HIDE DEF All, one
<1>4. \E it : Absorbs(it, groups, S)
  <2>. DEFINE it == [s \in SUBSET S |-> TotalsOf(All(s))]
              next(s) == IF s = {} THEN NoTotals ELSE AbsorbPart(it[s \ {one(s)}], groups[one(s)])
  <2>1. ASSUME NEW s \in SUBSET S PROVE TotalsOf(All(s)) = next(s)
    <3>1. CASE s = {}
      BY <1>3, <3>1
    <3>2. CASE s # {}
      <4>1. s \ {one(s)} \in SUBSET S /\ one(s) \in s
        BY <1>1, <3>2
      <4>2. it[s \ {one(s)}] = TotalsOf(All(s \ {one(s)}))
        BY <4>1
      <4>. QED
        BY <1>2, <3>2, <4>1, <4>2
    <3>. QED
      BY <3>1, <3>2
  <2>2. it = [s \in SUBSET S |-> next(s)]
    <3>. HIDE DEF next
    <3>. QED
      BY <2>1
  <2>3. Absorbs(it, groups, S)
    <3>. HIDE DEF it
    <3>. QED
      BY <2>2 DEF Absorbs, one
  <2>. HIDE DEF it
  <2>. QED
    BY <2>3
<1>5. ASSUME NEW it, Absorbs(it, groups, S)
      PROVE  it[S] = TotalsOf(All(S))
  <2>. DEFINE Good == {s \in SUBSET S : it[s] = TotalsOf(All(s))}
              next(s) == IF s = {} THEN NoTotals ELSE AbsorbPart(it[s \ {one(s)}], groups[one(s)])
  <2>1. \A s \in SUBSET S : it[s] = next(s)
    <3>1. it = [s \in SUBSET S |-> next(s)]
      BY <1>5, Zenon DEF Absorbs, one
    <3>. HIDE DEF next
    <3>. QED
      BY <3>1
  <2>2. ASSUME NEW s \in SUBSET S, \A x \in s : s \ {x} \in Good PROVE s \in Good
    <3>1. CASE s = {}
      BY <1>3, <2>1, <3>1
    <3>2. CASE s # {}
      <4>1. one(s) \in s
        BY <1>1, <3>2
      <4>2. it[s \ {one(s)}] = TotalsOf(All(s \ {one(s)}))
        BY <2>2, <4>1
      <4>3. it[s] = AbsorbPart(it[s \ {one(s)}], groups[one(s)])
        BY <2>1, <3>2
      <4>4. TotalsOf(All(s)) = AbsorbPart(TotalsOf(All(s \ {one(s)})), groups[one(s)])
        BY <1>2, <4>1
      <4>. QED
        BY <4>2, <4>3, <4>4
    <3>. QED
      BY <3>1, <3>2
  <2>3. \A s \in SUBSET S : s \in Good
    <3>. HIDE DEF Good
    <3>. QED
      BY <2>2, OneByOne
  <2>4. S \in Good
    <3>. HIDE DEF Good
    <3>. QED
      BY <2>3
  <2>. QED
    BY <2>4
<1>. DEFINE it == CHOOSE i : Absorbs(i, groups, S)
<1>6. Absorbs(it, groups, S)
  BY <1>4
<1>7. AbsorbAll(groups) = it[S]
  BY AbsorbAllIs
<1>. HIDE DEF it
<1>8. AbsorbAll(groups) = TotalsOf(All(S))
  BY <1>5, <1>6, <1>7
<1>. QED
  BY <1>8, Zenon DEF All

(* A query's rows of one key, and the same by currency as it is asked for. *)
KeysOf(filter, grouping) == {KeyOf(grouping, table[id]) : id \in Ids(filter)}
RowsFor(filter, grouping, key) == {id \in Ids(filter) : KeyOf(grouping, table[id]) = key}
PartsOf(ids) == {{id \in ids : table[id].cost.currency = c} : c \in {table[id].cost.currency : id \in ids}}

(* A summary has a total for each key of its rows (usage_summary).         *)
LEMMA SummaryIs ==
  ASSUME NEW filter, NEW grouping
  PROVE  /\ DOMAIN Summary(filter, grouping) = KeysOf(filter, grouping)
         /\ \A key \in KeysOf(filter, grouping) :
              Summary(filter, grouping)[key] =
                AbsorbAll([part \in PartsOf(RowsFor(filter, grouping, key)) |-> Part(part)])
<1>1. Summary(filter, grouping) =
        [key \in KeysOf(filter, grouping) |->
           AbsorbAll([part \in PartsOf(RowsFor(filter, grouping, key)) |-> Part(part)])]
  BY Zenon DEF Summary, KeysOf, RowsFor, PartsOf
<1>. QED
  BY <1>1

(* A key's rows, asked for by currency, add up to the key's totals         *)
(* (usage_summary).                                                        *)
LEMMA PartsAbsorbed ==
  ASSUME RowsAreRead, IsFiniteSet(DOMAIN table), NEW ids, ids \subseteq DOMAIN table
  PROVE  AbsorbAll([part \in PartsOf(ids) |-> Part(part)]) = TotalsOf(ids)
<1>. DEFINE S == PartsOf(ids)
            item == [part \in S |-> part]
            groups == [part \in S |-> Part(part)]
            by == [id \in ids |-> {x \in ids : table[x].cost.currency = table[id].cost.currency}]
<1>1. ASSUME NEW part \in S
      PROVE  \E c : part = {id \in ids : table[id].cost.currency = c}
  BY DEF PartsOf
<1>2. S = {by[id] : id \in ids}
  BY DEF PartsOf
<1>3. IsFiniteSet(ids)
  BY FS_Subset
<1>4. IsFiniteSet(S)
  <2>. HIDE DEF S, by
  <2>. QED
    BY <1>2, <1>3, ImageIsFinite
<1>5. UNION {item[x] : x \in S} = ids
  <2>1. UNION {item[x] : x \in S} = UNION S
    OBVIOUS
  <2>2. \A id \in ids : id \in by[id]
    OBVIOUS
  <2>3. \A id \in ids : by[id] \in S
    BY <1>2
  <2>4. \A part \in S : part \subseteq ids
    BY <1>1
  <2>. HIDE DEF S, by, item
  <2>. QED
    BY <2>1, <2>2, <2>3, <2>4
<1>6. \A x \in S : item[x] = x /\ x \subseteq DOMAIN table
  BY <1>1
<1>7. \A x \in S : \A y \in S : x # y => item[x] \cap item[y] = {}
  <2>1. ASSUME NEW x \in S, NEW y \in S, x # y, NEW id \in x \cap y PROVE FALSE
    <3>1. PICK c : x = {z \in ids : table[z].cost.currency = c}
      BY <1>1
    <3>2. PICK d : y = {z \in ids : table[z].cost.currency = d}
      BY <1>1
    <3>. HIDE DEF S, item, groups, by
    <3>3. id \in x /\ id \in y
      BY <2>1
    <3>4. c = d
      BY <3>1, <3>2, <3>3
    <3>. QED
      BY <2>1, <3>1, <3>2, <3>4
  <2>. QED
    BY <1>6, <2>1
<1>8. \A x \in S : groups[x] = TotalsOf(item[x])
  <2>1. ASSUME NEW x \in S PROVE groups[x] = TotalsOf(x)
    <3>1. PICK c : x = {id \in ids : table[id].cost.currency = c}
      BY <1>1
    <3>2. x \subseteq DOMAIN table /\ \A id \in x : table[id].cost.currency = c
      BY <3>1
    <3>. HIDE DEF S
    <3>. QED
      BY <3>2, PartIsTotals
  <2>. QED
    BY <1>6, <2>1
<1>9. DOMAIN groups = S
  OBVIOUS
<1>10. AbsorbAll(groups) = TotalsOf(UNION {item[x] : x \in S})
  <2>. HIDE DEF S, item, groups
  <2>. QED
    BY <1>4, <1>6, <1>7, <1>8, <1>9, AllAbsorbed
<1>11. AbsorbAll(groups) = TotalsOf(ids)
  BY <1>5, <1>10, Zenon
<1>. QED
  BY <1>11, Zenon

(* Every key's totals are those of its rows.                               *)
LEMMA KeyTotals ==
  ASSUME RowsAreRead, IsFiniteSet(DOMAIN table), NEW filter, NEW grouping
  PROVE  \A key \in KeysOf(filter, grouping) :
           Summary(filter, grouping)[key] = TotalsOf(RowsFor(filter, grouping, key))
<1>1. ASSUME NEW key \in KeysOf(filter, grouping)
      PROVE  AbsorbAll([part \in PartsOf(RowsFor(filter, grouping, key)) |-> Part(part)])
               = TotalsOf(RowsFor(filter, grouping, key))
  <2>. DEFINE ids == RowsFor(filter, grouping, key)
  <2>1. ids \subseteq DOMAIN table
    BY DEF RowsFor, Ids
  <2>. HIDE DEF ids
  <2>2. AbsorbAll([part \in PartsOf(ids) |-> Part(part)]) = TotalsOf(ids)
    BY <2>1, PartsAbsorbed
  <2>. QED
    BY <2>2, Zenon DEF ids
<1>. QED
  BY <1>1, SummaryIs

(* Grouped any way, the keys' totals come to those of all the rows.        *)
LEMMA KeysAbsorbed ==
  ASSUME RowsAreRead, IsFiniteSet(DOMAIN table), NEW filter, NEW grouping
  PROVE  AbsorbAll(Summary(filter, grouping)) = TotalsOf(Ids(filter))
<1>. DEFINE S == KeysOf(filter, grouping)
            item == [key \in S |-> RowsFor(filter, grouping, key)]
            key == [id \in Ids(filter) |-> KeyOf(grouping, table[id])]
<1>1. Ids(filter) \subseteq DOMAIN table
  BY DEF Ids
<1>2. IsFiniteSet(Ids(filter))
  BY <1>1, FS_Subset
<1>3. S = {key[id] : id \in Ids(filter)}
  BY DEF KeysOf
<1>4. IsFiniteSet(S)
  <2>. HIDE DEF S, key
  <2>. QED
    BY <1>2, <1>3, ImageIsFinite
<1>5. UNION {item[x] : x \in S} = Ids(filter)
  <2>1. \A id \in Ids(filter) : key[id] \in S /\ id \in item[key[id]]
    BY DEF RowsFor, KeysOf
  <2>2. \A x \in S : item[x] \subseteq Ids(filter)
    BY DEF RowsFor
  <2>. HIDE DEF S, item, key
  <2>. QED
    BY <2>1, <2>2
<1>6. \A x \in S : item[x] \subseteq DOMAIN table
  BY <1>1 DEF RowsFor
<1>7. \A x \in S : \A y \in S : x # y => item[x] \cap item[y] = {}
  BY DEF RowsFor
<1>8. DOMAIN Summary(filter, grouping) = S
  BY SummaryIs
<1>9. \A x \in S : Summary(filter, grouping)[x] = TotalsOf(item[x])
  BY KeyTotals
<1>10. AbsorbAll(Summary(filter, grouping)) = TotalsOf(UNION {item[x] : x \in S})
  <2>. DEFINE groups == Summary(filter, grouping)
  <2>. HIDE DEF S, item, groups
  <2>1. DOMAIN groups = S /\ \A x \in S : groups[x] = TotalsOf(item[x])
    BY <1>8, <1>9 DEF groups
  <2>2. AbsorbAll(groups) = TotalsOf(UNION {item[x] : x \in S})
    BY <1>4, <1>6, <1>7, <2>1, AllAbsorbed
  <2>. QED
    BY <2>2, Zenon DEF groups
<1>. QED
  BY <1>5, <1>10, Zenon

(* The total of a filter is that of its rows, of none where it selects     *)
(* none.                                                                   *)
LEMMA TotalIs ==
  ASSUME RowsAreRead, IsFiniteSet(DOMAIN table), NEW filter
  PROVE  TotalOf(filter) = TotalsOf(Ids(filter))
<1>1. DOMAIN Summary(filter, "none") = KeysOf(filter, "none")
  BY SummaryIs
<1>2. \A row : KeyOf("none", row) = None
  BY DEF KeyOf
<1>3. CASE Ids(filter) = {}
  <2>1. KeysOf(filter, "none") = {}
    BY <1>3 DEF KeysOf
  <2>2. TotalOf(filter) = NoTotals
    BY <1>1, <2>1 DEF TotalOf
  <2>. QED
    BY <1>3, <2>2, NoTotalsIs
<1>4. CASE Ids(filter) # {}
  <2>1. None \in KeysOf(filter, "none")
    BY <1>2, <1>4 DEF KeysOf
  <2>2. TotalOf(filter) = Summary(filter, "none")[None]
    BY <1>1, <2>1 DEF TotalOf
  <2>3. RowsFor(filter, "none", None) = Ids(filter)
    BY <1>2 DEF RowsFor
  <2>4. Summary(filter, "none")[None] = TotalsOf(RowsFor(filter, "none", None))
    BY <2>1, KeyTotals
  <2>. QED
    BY <2>2, <2>3, <2>4
<1>. QED
  BY <1>3, <1>4

(* However the rows are grouped, the groups add up to the total.           *)
LEMMA GroupsAddUp ==
  ASSUME RowsAreRead, IsFiniteSet(DOMAIN table), NEW filter, NEW grouping
  PROVE  AbsorbAll(Summary(filter, grouping)) = TotalOf(filter)
BY KeysAbsorbed, TotalIs

-----------------------------------------------------------------------------
(* What a query's amounts are, against what is billed *)

PaidOf(id, currency) ==
  IF table[id].cost.currency = Some(currency) THEN table[id].cost.micros[1] ELSE 0

(* What one row says in a currency is a floor of its request's bill, and   *)
(* that bill but for truncation where the row is complete.                 *)
LEMMA RowIsFloor ==
  ASSUME RowsBilled, BillsAre, NEW id \in DOMAIN table, NEW currency,
         NEW request, request = table[id].request_id,
         request \in DOMAIN bills => ~Misjudged(request)
  PROVE  /\ PaidOf(id, currency) \in Nat
         /\ PaidOf(id, currency) * Million <= BilledIn(request, currency)
         /\ /\ table[id].cost.status \notin {"partial", "unpriced"}
            /\ request \in DOMAIN bills => ~Overlooked(request)
            /\ BilledIn(request, currency) <= Most
            => BilledIn(request, currency) < (PaidOf(id, currency) + PartsOfARate) * Million
<1>. DEFINE cost == table[id].cost
            paid == PaidOf(id, currency)
            billed == BilledIn(request, currency)
            floor == paid * Million <= billed
            near == billed < (paid + PartsOfARate) * Million
<1>1. /\ CostOK(cost)
      /\ request \in DOMAIN bills => CostBilled(cost, bills[request]) /\ BillOK(bills[request])
      /\ request \notin DOMAIN bills => cost.status = "none"
  BY DEF RowsBilled, RowBilled, BillsAre
<1>2. Million \in Nat \ {0} /\ Most \in Nat /\ PartsOfARate = 7
  BY PricingAssumption, PartsAre
<1>3. paid = IF cost.currency = Some(currency) THEN cost.micros[1] ELSE 0
  BY DEF PaidOf
<1>4. billed = IF request \in DOMAIN bills /\ bills[request].currency = currency
               THEN bills[request].amount ELSE 0
  BY DEF BilledIn
<1>5. billed \in Nat
  BY <1>1, <1>4 DEF BillOK
<1>6. None # Some(currency)
  BY DEF None, Some
<1>. SUFFICES /\ paid \in Nat /\ floor
              /\ /\ cost.status \notin {"partial", "unpriced"}
                 /\ request \in DOMAIN bills => ~Overlooked(request)
                 /\ billed <= Most
                 => near
  OBVIOUS
<1>. HIDE DEF paid, billed, cost
<1>7. CASE paid = 0 /\ billed = 0
  <2>1. 0 * Million <= 0 /\ 0 < (0 + 7) * Million
    BY <1>2
  <2>2. floor
    BY <1>7, <2>1
  <2>3. near
    BY <1>2, <1>7, <2>1
  <2>4. paid \in Nat
    BY <1>7
  <2>. HIDE DEF floor, near
  <2>. QED
    BY <2>2, <2>3, <2>4, Zenon
<1>8. CASE request \notin DOMAIN bills
  <2>1. paid = 0 /\ billed = 0
    BY <1>1, <1>3, <1>4, <1>6, <1>8 DEF CostOK
  <2>. QED
    BY <1>7, <2>1
<1>9. CASE request \in DOMAIN bills /\ cost.micros = None
  <2>1. cost.currency = None /\ cost.status \notin {"priced", "partial"}
    BY <1>1, <1>9 DEF CostOK
  <2>2. paid = 0 /\ 0 * Million <= billed
    BY <1>2, <1>3, <1>5, <1>6, <2>1
  <2>4. floor /\ paid \in Nat
    BY <2>2
  <2>3. ASSUME cost.status \notin {"partial", "unpriced"}, ~Overlooked(request) PROVE near
    <3>1. cost.status \in {"free", "none"}
      BY <1>1, <2>1, <2>3 DEF CostOK, Statuses
    <3>2. bills[request].amount = 0
      BY <1>1, <1>9, <2>3, <3>1 DEF CostBilled, OverlookedBill, Overlooked
    <3>3. billed = 0
      BY <1>4, <3>2
    <3>4. 0 < (0 + 7) * Million
      BY <1>2
    <3>. QED
      BY <1>2, <2>2, <3>3, <3>4
  <2>. HIDE DEF floor, near
  <2>. QED
    BY <1>9, <2>3, <2>4, Zenon
<1>10. CASE request \in DOMAIN bills /\ cost.micros # None
  <2>. DEFINE bill == bills[request]
  <2>1. /\ cost.currency = Some(bill.currency) /\ cost.micros[1] \in Nat /\ bill.amount \in Nat
        /\ cost.status \in {"priced", "partial"}
    BY <1>1, <1>10 DEF CostOK, CostBilled, BillOK
  <2>2. CASE bill.currency # currency
    <3>1. Some(bill.currency) # Some(currency)
      BY <2>2 DEF Some
    <3>2. paid = 0 /\ billed = 0
      BY <1>3, <1>4, <2>1, <2>2, <3>1
    <3>. QED
      BY <1>7, <3>2
  <2>3. CASE bill.currency = currency
    <3>1. paid = cost.micros[1] /\ billed = bill.amount
      BY <1>3, <1>4, <1>10, <2>1, <2>3
    <3>2. ~MisjudgedBill(bill)
      BY <1>10 DEF Misjudged, MisjudgedBill
    <3>3. /\ floor
          /\ cost.status = "priced" /\ billed <= Most => near
      BY <1>1, <1>10, <3>1, <3>2 DEF CostBilled
    <3>4. paid \in Nat
      BY <2>1, <3>1
    <3>. HIDE DEF floor, near
    <3>5. cost.status \notin {"partial", "unpriced"} => cost.status = "priced"
      BY <2>1
    <3>. QED
      BY <3>3, <3>4, <3>5, Zenon
  <2>. QED
    BY <2>2, <2>3
<1>. QED
  BY <1>8, <1>9, <1>10

(* A query's amount is what its rows say, each of a request of its own.    *)
LEMMA AmountIsSum ==
  ASSUME RowsAreRead, NEW ids, IsFiniteSet(ids), ids \subseteq DOMAIN table, NEW currency,
         NEW amount, \A id \in ids : amount[id] = PaidOf(id, currency)
  PROVE  AmountIn(TotalsOf(ids), currency) = SumFunctionOnSet(amount, ids)
<1>. DEFINE A == PaidIn(ids, currency)
            f == [id \in A |-> table[id].cost.micros[1]]
<1>1. AmountIn(TotalsOf(ids), currency) = MicrosOf(A)
  BY AmountOf
<1>2. MicrosOf(A) = SumFunctionOnSet(f, A)
  <2>1. DOMAIN f = A
    OBVIOUS
  <2>. QED
    BY <2>1 DEF MicrosOf, SumFunction
<1>3. A \in SUBSET ids /\ IsFiniteSet(A)
  <2>1. A \in SUBSET ids
    BY DEF PaidIn
  <2>. QED
    BY <2>1, FS_Subset
<1>4. \A id \in A : f[id] = amount[id] /\ amount[id] \in Int
  <2>1. ASSUME NEW id \in A PROVE f[id] = amount[id] /\ amount[id] \in Int
    <3>1. id \in ids /\ table[id].cost.currency = Some(currency)
      BY DEF PaidIn
    <3>2. table[id].cost.currency # None
      BY <3>1 DEF None, Some
    <3>3. table[id].cost.micros[1] \in Nat
      BY <3>1, <3>2, PaidIs
    <3>. QED
      BY <3>1, <3>3 DEF PaidOf
  <2>. QED
    BY <2>1
<1>5. \A id \in ids \ A : amount[id] = 0
  BY DEF PaidIn, PaidOf
<1>. HIDE DEF A, f
<1>6. SumFunctionOnSet(f, A) = SumFunctionOnSet(amount, A)
  BY <1>3, <1>4, SumSame
<1>7. SumFunctionOnSet(amount, ids) = SumFunctionOnSet(amount, A)
  BY <1>3, <1>4, <1>5, SumLeavesOut
<1>. QED
  BY <1>1, <1>2, <1>6, <1>7

(* Complete totals have no row in them that is less than complete.         *)
LEMMA CompleteHasNone ==
  ASSUME NEW ids, IsFiniteSet(ids), Complete(TotalsOf(ids))
  PROVE  \A id \in ids : table[id].cost.status \notin {"partial", "unpriced"}
<1>1. ASSUME NEW s \in {"partial", "unpriced"}, NEW id \in ids, table[id].cost.status = s
      PROVE  FALSE
  <2>. DEFINE T == {x \in ids : table[x].cost.status = s}
  <2>1. T \subseteq ids /\ id \in T
    BY <1>1
  <2>2. Cardinality(T) = 0
    BY DEF Complete, TotalsOf, CostsOf, Statuses
  <2>. HIDE DEF T
  <2>3. IsFiniteSet(T)
    BY <2>1, FS_Subset
  <2>. QED
    BY <2>1, <2>2, <2>3, FS_EmptySet
<1>. QED
  BY <1>1

(* So is the sum of a group of rows of its requests' bill.                 *)
LEMMA GroupIsFloor ==
  ASSUME RowsBilled, BillsAre, RowsOnce, NEW ids, IsFiniteSet(ids), ids # {},
         ids \subseteq DOMAIN table, NEW currency, NEW requests, requests = RequestsOf(ids),
         NEW totals, totals = TotalsOf(ids), ~Among(requests, Misjudged)
  PROVE  LET amount == AmountIn(totals, currency)
             bill == BillIn(requests, currency)
         IN /\ amount * Million <= bill
            /\ Complete(totals) /\ ~Among(requests, Overlooked) /\ bill <= Most =>
                 Within(amount, bill, Cardinality(requests))
<1>. DEFINE of == [id \in ids |-> table[id].request_id]
            amount == [id \in ids |-> PaidOf(id, currency)]
            sum == SumFunctionOnSet(amount, ids)
            bill == BillIn(requests, currency)
<1>1. requests = {of[id] : id \in ids}
  BY DEF RequestsOf
<1>2. RowsAreRead
  BY DEF RowsAreRead, RowsBilled, RowBilled
<1>3. \A id \in ids : of[id] \in requests
  BY <1>1
<1>4. \A id \in ids : of[id] \in DOMAIN bills => ~Misjudged(of[id])
  BY <1>3 DEF Among
<1>5. \A id \in ids : amount[id] \in Nat /\ amount[id] * Million <= BilledIn(of[id], currency)
  <2>1. ASSUME NEW id \in ids PROVE amount[id] \in Nat /\ amount[id] * Million <= BilledIn(of[id], currency)
    <3>1. id \in DOMAIN table /\ of[id] = table[id].request_id /\ amount[id] = PaidOf(id, currency)
      OBVIOUS
    <3>. HIDE DEF of, amount
    <3>. QED
      BY <1>4, <3>1, RowIsFloor
  <2>. QED
    BY <2>1
<1>6. \A x, y \in ids : of[x] = of[y] => x = y
  BY DEF RowsOnce
<1>7. AmountIn(totals, currency) = sum
  <2>1. \A id \in ids : amount[id] = PaidOf(id, currency)
    OBVIOUS
  <2>. HIDE DEF amount
  <2>. QED
    BY <1>2, <2>1, AmountIsSum
<1>. DEFINE near(x) == BilledIn(of[x], currency) < (amount[x] + PartsOfARate) * Million
            all == \A x \in ids : BilledIn(of[x], currency) <= Most => near(x)
<1>8. /\ sum * Million <= bill /\ Cardinality(requests) = Cardinality(ids)
      /\ bill <= Most /\ all => bill < (sum + Cardinality(ids) * PartsOfARate) * Million
  <2>. HIDE DEF of, amount
  <2>1. LET them == {of[x] : x \in ids}
            owed == BillIn(them, currency)
        IN /\ sum * Million <= owed /\ Cardinality(them) = Cardinality(ids)
           /\ /\ ids # {} /\ owed <= Most
              /\ \A x \in ids : BilledIn(of[x], currency) <= Most => near(x)
              => owed < (sum + Cardinality(ids) * PartsOfARate) * Million
    BY <1>5, <1>6, SumIsBilled
  <2>. QED
    BY <1>1, <2>1
<1>9. ASSUME Complete(totals), ~Among(requests, Overlooked) PROVE all
  <2>1. \A id \in ids : table[id].cost.status \notin {"partial", "unpriced"}
    BY <1>9, CompleteHasNone
  <2>2. \A id \in ids : of[id] \in DOMAIN bills => ~Overlooked(of[id])
    BY <1>3, <1>9 DEF Among
  <2>3. ASSUME NEW id \in ids, BilledIn(of[id], currency) <= Most PROVE near(id)
    <3>1. id \in DOMAIN table /\ of[id] = table[id].request_id /\ amount[id] = PaidOf(id, currency)
      OBVIOUS
    <3>. HIDE DEF of, amount
    <3>. QED
      BY <1>4, <2>1, <2>2, <2>3, <3>1, RowIsFloor
  <2>. QED
    BY <2>3
<1>. HIDE DEF all, bill, sum
<1>10. AmountIn(totals, currency) * Million <= bill
  BY <1>7, <1>8
<1>11. Complete(totals) /\ ~Among(requests, Overlooked) /\ bill <= Most =>
         Within(AmountIn(totals, currency), bill, Cardinality(requests))
  BY <1>7, <1>8, <1>9 DEF Within
<1>. QED
  BY <1>10, <1>11 DEF bill

(* So are the amounts of every summary, and its groups add up to the       *)
(* total.                                                                  *)
LEMMA QueriesAreFloors ==
  ASSUME IInv, BilledInv, NEW filter, NEW grouping
  PROVE  SumsAreFloors(filter, grouping)
<1>1. RowsAreRead /\ RowsBilled /\ BillsAre /\ RowsOnce
  BY DEF RowsAreRead, RowsBilled, RowBilled, BilledInv, IInv, RowInv
<1>2. IsFiniteSet(DOMAIN table)
  <2>1. DOMAIN table \subseteq 1..nextId - 1 /\ nextId \in Nat
    BY AccountsAssumption DEF IInv, RowInv, AccountsShape, BeyondIds
  <2>2. IsFiniteSet(1..nextId - 1)
    BY <2>1, FS_Interval
  <2>. QED
    BY <2>1, <2>2, FS_Subset
<1>3. ASSUME NEW key \in KeysOf(filter, grouping), NEW currency \in Monies
      PROVE  LET totals == Summary(filter, grouping)[key]
                 requests == RequestsOf(RowsFor(filter, grouping, key))
                 amount == AmountIn(totals, currency)
                 bill == BillIn(requests, currency)
             IN ~Among(requests, Misjudged) =>
                  /\ amount * Million <= bill
                  /\ Complete(totals) /\ ~Among(requests, Overlooked) /\ bill <= Most =>
                       Within(amount, bill, Cardinality(requests))
  <2>. DEFINE ids == RowsFor(filter, grouping, key)
              totals == Summary(filter, grouping)[key]
              requests == RequestsOf(ids)
  <2>1. ids \subseteq DOMAIN table /\ ids # {}
    BY DEF RowsFor, Ids, KeysOf
  <2>2. totals = TotalsOf(ids)
    BY <1>1, <1>2, KeyTotals
  <2>. HIDE DEF ids, totals
  <2>3. IsFiniteSet(ids)
    BY <1>2, <2>1, FS_Subset
  <2>. HIDE DEF requests
  <2>4. ASSUME ~Among(requests, Misjudged)
        PROVE  LET amount == AmountIn(totals, currency)
                   bill == BillIn(requests, currency)
               IN /\ amount * Million <= bill
                  /\ Complete(totals) /\ ~Among(requests, Overlooked) /\ bill <= Most =>
                       Within(amount, bill, Cardinality(requests))
    <3>1. requests = RequestsOf(ids)
      BY DEF requests
    <3>. QED
      BY <1>1, <2>1, <2>2, <2>3, <2>4, <3>1, GroupIsFloor
  <2>. QED
    BY <2>4 DEF ids, totals, requests
<1>4. AbsorbAll(Summary(filter, grouping)) = TotalOf(filter)
  BY <1>1, <1>2, GroupsAddUp
<1>5. DOMAIN Summary(filter, grouping) = KeysOf(filter, grouping)
  BY SummaryIs
<1>. QED
  BY <1>3, <1>4, <1>5, Zenon DEF SumsAreFloors, RowsFor

(* Whatever rows there are, of calls anyone made, and however a client     *)
(* groups them, the amounts the management API gives are never more than   *)
(* the vendors bill for those requests, and where it says they are complete*)
(* they are that bill but for truncation; groups add up to the total; and  *)
(* the ledger keeps the same promise of chat calls (cost_with, price_with, *)
(* usage_summary, absorb, Ledger).                                         *)
THEOREM BillIsAFloorTheorem ==
  Spec => []BillIsAFloor
<1>1. Spec => [](IInv /\ AnswersInv)
  BY IInvHolds, InitAnswersInv, NextAnswersInv, PTL DEF Spec
<1>2. IInv /\ BilledInv /\ LedgerInv => BillIsAFloor
  BY QueriesAreFloors, LedgerFloor DEF BillIsAFloor
<1>3. Spec => [](IInv /\ BilledInv)
  BY <1>1, InitBilledInv, NextBilledInv, PTL DEF Spec
<1>4. Spec => [](IInv /\ LedgerInv)
  BY <1>1, InitLedgerInv, NextLedgerInv, PTL DEF Spec
<1>. QED
  BY <1>2, <1>3, <1>4, PTL

=============================================================================
