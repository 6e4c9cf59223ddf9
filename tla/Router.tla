------------------------------- MODULE Router -------------------------------
(***************************************************************************)
(* llmr's Router: requests in flight at once over one list of routes.      *)
(*                                                                         *)
(* Requests share the health of each route and the purse of the budget,    *)
(* which the code keeps in atomics.  Every atomic access that another      *)
(* task can come between, and every await, is a step of its own.           *)
(*                                                                         *)
(* Time is a tick that lowers every running timer, so a behaviour may last *)
(* for ever on finitely many states.  rests[r] is what is left of the time *)
(* before which route r is skipped; the code stores the instant it ends.   *)
(***************************************************************************)
EXTENDS Policies, FiniteSets

CONSTANTS
  NumRoutes,     (* routes are 1..NumRoutes, in the order they were written *)
  Requests,      (* the calls of chat and stream, each made once            *)
  Streamed,      (* those of them that are calls of stream                  *)
  Known,         (* routes whose provider knows its model                   *)
  Offers,        (* what each route can do                                  *)
  Needs,         (* what each request needs                                 *)
  ErrorsSeen,    (* the failures the providers of this instance answer with *)
  HasBreaker, HasPreflight,
  HasDeadline, Deadline,
  Order,         (* "as_listed", "cheapest" or "healthiest"                 *)
  HasBudget, Cap,
  AllowUnpriced, (* what the budget does about a route it cannot price      *)
  Pricing,       (* "rated", "unrated" or "foreign", for each route         *)
  PublishedRate, (* input plus output price of each route that has a rate   *)
  Limited,       (* requests that carry a max_tokens                        *)
  ReplyBound,    (* what a reply at that limit costs at each route's rate   *)
  ReplyCost,     (* the most one is charged: it is priced as the model that *)
                 (* the provider says answered                              *)
  InputBound     (* the most the input of a call costs                      *)

Routes == 1..NumRoutes

ASSUME RouterAssumption ==
  /\ NumRoutes \in Nat /\ IsFiniteSet(Requests)
  /\ Streamed \subseteq Requests /\ Limited \subseteq Requests
  /\ Known \subseteq Routes /\ ErrorsSeen \subseteq Failures
  /\ HasBreaker \in BOOLEAN /\ HasPreflight \in BOOLEAN
  /\ HasDeadline \in BOOLEAN /\ Deadline \in Nat
  /\ Order \in {"as_listed", "cheapest", "healthiest"}
  /\ HasBudget \in BOOLEAN /\ Cap \in Nat /\ AllowUnpriced \in BOOLEAN
  /\ Pricing \in [Routes -> {"rated", "unrated", "foreign"}]
  /\ PublishedRate \in [Routes -> Nat]
  /\ ReplyBound \in [Routes -> Nat] /\ ReplyCost \in [Routes -> Nat]
  /\ InputBound \in Nat

VARIABLES
  (* shared by every request *)
  rests,       (* Health.closed_until, as the time left                     *)
  failures,    (* Health.consecutive_failures                               *)
  denied,      (* Health.denied                                             *)
  spent,       (* Purse.spent                                               *)
  unmeasured,  (* Purse.unmeasured                                          *)
  (* one per request, and the startup check *)
  req,         (* the local variables of attempt, chat and stream           *)
  preflight,   (* where Router::preflight has got to                        *)
  (* history, read by the properties only *)
  told,        (* the routes whose health each request has counted against  *)
  broke,       (* requests that started with the cap already spent          *)
  overlapped,  (* whether a request ever started beside other work          *)
  asked,       (* time left of the wait a provider asked each request for   *)
  booked,      (* calls answered and not priced, by request                 *)
  found        (* time left of the rests each request found when it started *)
               (* on the routes that nobody has heard from since            *)

health  == <<rests, failures, denied>>
purse   == <<spent, unmeasured>>
history == <<told, broke, overlapped, asked, booked, found>>
vars    == <<rests, failures, denied, spent, unmeasured, req, preflight,
             told, broke, overlapped, asked, booked, found>>

None == "none"

Outcomes ==
  Failures \cup {"served", "gave_up", "over_budget", "circuit_open", "no_route", "dropped"}

Steps == {"idle", "look", "afford", "calling", "sleeping", "count", "rest",
          "served", "reopen", "undeny", "settle", "done", "measured", "charged"}

Journey ==
  [pc : Steps, left : SUBSET Routes, ranked : [Routes -> Nat],
   at : Routes \cup {0}, attempt : Nat, tries : Nat,
   error : Failures \cup {None}, failed : Nat, verdict : Outcomes \cup {None},
   last : Failures \cup {None}, resting : BOOLEAN, overBudget : BOOLEAN,
   asleep : Nat, elapsed : Nat, outcome : Outcomes \cup {None}]

TypeOK ==
  /\ rests \in [Routes -> Nat]
  /\ failures \in [Routes -> Nat]
  /\ denied \in [Routes -> BOOLEAN]
  /\ spent \in Nat
  /\ unmeasured \in Nat
  /\ req \in [Requests -> Journey]
  /\ preflight \in [at : 1..(NumRoutes + 1), pc : {"ask", "rest"}]
  /\ told \in [Requests -> SUBSET Routes]
  /\ broke \subseteq Requests
  /\ overlapped \in BOOLEAN
  /\ asked \in [Requests -> Nat]
  /\ booked \subseteq Requests
  /\ found \in [Requests -> [Routes -> Nat]]

Fresh ==
  [pc |-> "idle", left |-> Routes, ranked |-> [r \in Routes |-> 0],
   at |-> 0, attempt |-> 0, tries |-> 0,
   error |-> None, failed |-> 0, verdict |-> None,
   last |-> None, resting |-> FALSE, overBudget |-> FALSE,
   asleep |-> 0, elapsed |-> 0, outcome |-> None]

(* A call that returns keeps its outcome; its local variables are gone.    *)
Ended(j, outcome) ==
  [Fresh EXCEPT !.pc = "done", !.left = {}, !.outcome = outcome,
                !.at = j.at, !.tries = j.tries]

Init ==
  /\ rests = [r \in Routes |-> 0]
  /\ failures = [r \in Routes |-> 0]
  /\ denied = [r \in Routes |-> FALSE]
  /\ spent = 0 /\ unmeasured = 0
  /\ req = [q \in Requests |-> Fresh]
  /\ preflight = [at |-> IF HasPreflight THEN 1 ELSE NumRoutes + 1, pc |-> "ask"]
  /\ told = [q \in Requests |-> {}]
  /\ broke = {} /\ overlapped = FALSE /\ booked = {}
  /\ asked = [q \in Requests |-> 0]
  /\ found = [q \in Requests |-> [r \in Routes |-> 0]]

-----------------------------------------------------------------------------
(* Time *)

(* Request q's local variables are now those of journey. *)
Becomes(q, journey) == req' = [req EXCEPT ![q] = journey]

InFlight(q) == req[q].pc \notin {"idle", "done", "measured", "charged"}

(* A subtraction that is not checked. *)
Less_Unchecked(n) == n - 1

(* A timer that has run out, like a count at zero, stays there.            *)
Less(n) == IF n > 0 THEN n - 1 ELSE 0

(* elapsed() counts up to the deadline: nothing compares it beyond that.   *)
Tick ==
  /\ \/ \E r \in Routes : rests[r] > 0
     \/ \E q \in Requests : req[q].asleep > 0 \/ asked[q] > 0
     \/ HasDeadline /\ \E q \in Requests : InFlight(q) /\ req[q].elapsed < Deadline
  /\ rests' = [r \in Routes |-> Less(rests[r])]
  /\ req' = [q \in Requests |->
       [req[q] EXCEPT !.asleep = Less(@),
                      !.elapsed = IF HasDeadline /\ InFlight(q) /\ @ < Deadline
                                  THEN @ + 1 ELSE @]]
  /\ asked' = [q \in Requests |-> Less(asked[q])]
  /\ found' = [q \in Requests |-> [r \in Routes |-> Less(found[q][r])]]
  /\ UNCHANGED <<failures, denied, purse, preflight, told, broke, overlapped,
                 booked>>

-----------------------------------------------------------------------------
(* The order routes are reached for, fixed when a request starts.          *)

HasRate(r) == Pricing[r] # "unrated"

(* The sort key of a route; sorting is stable, so ties keep the list order.*)
Ranking ==
  [r \in Routes |-> IF Order = "healthiest" THEN failures[r] ELSE 0]

CheaperThan(r, s) ==
  \/ HasRate(r) /\ ~HasRate(s)
  \/ HasRate(r) /\ HasRate(s) /\ PublishedRate[r] < PublishedRate[s]

Precedes(ranked, r, s) ==
  IF Order = "cheapest"
  THEN CheaperThan(r, s) \/ (~CheaperThan(s, r) /\ r < s)
  ELSE ranked[r] < ranked[s] \/ (ranked[r] = ranked[s] /\ r < s)

(* r is the route the loop of attempt comes to next.                       *)
NextUp(q, r) ==
  /\ r \in req[q].left
  /\ \A s \in req[q].left \ {r} : Precedes(req[q].ranked, r, s)

-----------------------------------------------------------------------------
(* Choosing a route *)

Fits(q, r) == r \in Known /\ Needs[q] \subseteq Offers[r]

(* Request q has heard from its route what is about to change the rest.    *)
Telling(q) ==
  \/ req[q].pc \in {"served", "reopen"}
  \/ req[q].pc \in {"count", "rest"} /\ Opens(req[q].error)

Recording(r) ==
  \/ \E q \in Requests : req[q].at = r /\ Telling(q)
  \/ preflight.at = r /\ preflight.pc = "rest"

(* Route r is heard from: no rest found on it is owed any longer.          *)
HeardFrom(r) == found' = [p \in Requests |-> [found[p] EXCEPT ![r] = 0]]

Start(q) ==
  /\ req[q].pc = "idle"
  /\ Becomes(q, [req[q] EXCEPT !.pc = "look", !.ranked = Ranking])
  /\ overlapped' = (overlapped \/ preflight.at \in Routes
                             \/ \E p \in Requests \ {q} : InFlight(p) \/ p \in booked)
  /\ broke' = IF HasBudget /\ spent >= Cap THEN broke \cup {q} ELSE broke
  /\ found' = [found EXCEPT ![q] = [r \in Routes |-> IF Recording(r) THEN 0 ELSE rests[r]]]
  /\ UNCHANGED <<health, purse, preflight, told, asked, booked>>

(* The provider does not know the model, or the route cannot do the work.  *)
PassUnfit(q) ==
  /\ req[q].pc = "look"
  /\ \E r \in Routes :
       /\ NextUp(q, r) /\ ~Fits(q, r)
       /\ Becomes(q, [req[q] EXCEPT !.left = @ \ {r}])
  /\ UNCHANGED <<health, purse, preflight, history>>

(* Health::closed_for answers that the circuit is still open.              *)
PassResting(q) ==
  /\ req[q].pc = "look"
  /\ \E r \in Routes :
       /\ NextUp(q, r) /\ Fits(q, r) /\ rests[r] > 0
       /\ Becomes(q, [req[q] EXCEPT !.left = @ \ {r}, !.resting = TRUE])
  /\ UNCHANGED <<health, purse, preflight, history>>

FindOpen(q) ==
  /\ req[q].pc = "look"
  /\ \E r \in Routes :
       /\ NextUp(q, r) /\ Fits(q, r) /\ rests[r] = 0
       /\ Becomes(q, [req[q] EXCEPT !.left = @ \ {r}, !.at = r, !.pc = "afford"])
  /\ UNCHANGED <<health, purse, preflight, history>>

Remaining == IF spent >= Cap THEN 0 ELSE Cap - spent

(* The spent cap, or the bound on the reply, is forgotten. *)
Unaffordable_CapForgotten(q, r) ==
  /\ HasBudget
  /\ \/ Pricing[r] = "foreign"
     \/ Pricing[r] = "unrated" /\ ~AllowUnpriced
     \/ Pricing[r] = "rated" /\ q \in Limited /\ ReplyBound[r] > Remaining

Unaffordable_ReplyForgotten(q, r) ==
  /\ HasBudget
  /\ \/ Remaining = 0
     \/ Pricing[r] = "foreign"
     \/ Pricing[r] = "unrated" /\ ~AllowUnpriced

Unaffordable(q, r) ==
  /\ HasBudget
  /\ \/ Remaining = 0
     \/ Pricing[r] = "foreign"
     \/ Pricing[r] = "unrated" /\ ~AllowUnpriced
     \/ Pricing[r] = "rated" /\ q \in Limited /\ ReplyBound[r] > Remaining

PassUnaffordable(q) ==
  /\ req[q].pc = "afford"
  /\ Unaffordable(q, req[q].at)
  /\ Becomes(q, [req[q] EXCEPT !.overBudget = TRUE, !.pc = "look"])
  /\ UNCHANGED <<health, purse, preflight, history>>

OutOfTime(q) == HasDeadline /\ req[q].elapsed >= Deadline

NoRoomFor(q, wait) == HasDeadline /\ req[q].elapsed + wait >= Deadline

RunOutOfTime(q) ==
  /\ req[q].pc = "afford"
  /\ ~Unaffordable(q, req[q].at)
  /\ OutOfTime(q)
  /\ Becomes(q, Ended(req[q], "gave_up"))
  /\ UNCHANGED <<health, purse, preflight, history>>

Call(q) ==
  /\ req[q].pc = "afford"
  /\ ~Unaffordable(q, req[q].at)
  /\ ~OutOfTime(q)
  /\ Becomes(q, [req[q] EXCEPT !.pc = "calling", !.attempt = 1, !.tries = @ + 1])
  /\ UNCHANGED <<health, purse, preflight, history>>

(* The cap is blamed first. *)
Verdict_CapBlamedFirst(j) ==
  CASE j.overBudget -> "over_budget"
    [] ~j.overBudget /\ j.last # None -> j.last
    [] ~j.overBudget /\ j.last = None /\ j.resting -> "circuit_open"
    [] OTHER -> "no_route"

(* The list is used up without a reply.                                    *)
Verdict(j) ==
  CASE j.last # None -> j.last
    [] j.last = None /\ j.overBudget -> "over_budget"
    [] j.last = None /\ ~j.overBudget /\ j.resting -> "circuit_open"
    [] OTHER -> "no_route"

RunOutOfRoutes(q) ==
  /\ req[q].pc = "look" /\ req[q].left = {}
  /\ Becomes(q, Ended(req[q], Verdict(req[q])))
  /\ UNCHANGED <<health, purse, preflight, history>>

-----------------------------------------------------------------------------
(* What the provider answers *)

Answered(q) ==
  /\ req[q].pc = "calling"
  /\ Becomes(q, [req[q] EXCEPT !.pc = "served"])
  /\ HeardFrom(req[q].at)
  /\ UNCHANGED <<health, purse, preflight, told, broke, overlapped, asked, booked>>

(* The wait a provider asks for, remembered to judge the next attempt by.  *)
Hears(q, e) ==
  asked' = [asked EXCEPT ![q] = IF e = "rate_limited_for" THEN RetryAfter ELSE 0]

(* A refusal is an answer about the work: the request stops here.          *)
Refuses(q) ==
  /\ req[q].pc = "calling"
  /\ "refused" \in ErrorsSeen
  /\ Becomes(q, [req[q] EXCEPT !.pc = "count", !.error = "refused", !.verdict = "refused"])
  /\ UNCHANGED <<health, purse, preflight, history>>

(* Every attempt is counted against the route, not every request. *)
FailsAndWaits_Counts(q) ==
  /\ req[q].pc = "calling"
  /\ \E e \in ErrorsSeen \ {"refused"} : \E w \in WaitsBefore(req[q].attempt + 1, e) :
       /\ ~NoRoomFor(q, w)
       /\ Becomes(q, [req[q] EXCEPT !.pc = "sleeping", !.last = e, !.asleep = w])
       /\ Hears(q, e)
  /\ failures' = [failures EXCEPT ![req[q].at] = @ + 1]
  /\ told' = [told EXCEPT ![q] = @ \cup {req[q].at}]
  /\ UNCHANGED <<rests, denied, purse, preflight, broke, overlapped, booked, found>>

(* The policy has another attempt and the deadline leaves room to wait.    *)
FailsAndWaits(q) ==
  /\ req[q].pc = "calling"
  /\ \E e \in ErrorsSeen \ {"refused"} : \E w \in WaitsBefore(req[q].attempt + 1, e) :
       /\ ~NoRoomFor(q, w)
       /\ Becomes(q, [req[q] EXCEPT !.pc = "sleeping", !.last = e, !.asleep = w])
       /\ Hears(q, e)
  /\ UNCHANGED <<health, purse, preflight, told, broke, overlapped, booked, found>>

FailsWithNoRoom(q) ==
  /\ req[q].pc = "calling"
  /\ \E e \in ErrorsSeen \ {"refused"} : \E w \in WaitsBefore(req[q].attempt + 1, e) :
       /\ NoRoomFor(q, w)
       /\ Becomes(q, [req[q] EXCEPT !.pc = "count", !.error = e, !.verdict = "gave_up"])
  /\ HeardFrom(req[q].at)
  /\ UNCHANGED <<health, purse, preflight, told, broke, overlapped, asked, booked>>

FailsForGood(q) ==
  /\ req[q].pc = "calling"
  /\ \E e \in ErrorsSeen \ {"refused"} :
       /\ WaitsBefore(req[q].attempt + 1, e) = {}
       /\ Becomes(q, [req[q] EXCEPT !.pc = "count", !.error = e])
       /\ IF Opens(e) THEN HeardFrom(req[q].at) ELSE UNCHANGED found
  /\ UNCHANGED <<health, purse, preflight, told, broke, overlapped, asked, booked>>

(* The deadline is looked at on waking, and nobody returns. *)
CallAgain_NeverLate(q) ==
  /\ req[q].pc = "sleeping" /\ req[q].asleep = 0 /\ ~OutOfTime(q)
  /\ Becomes(q, [req[q] EXCEPT !.pc = "calling", !.attempt = @ + 1, !.tries = @ + 1])
  /\ UNCHANGED <<health, purse, preflight, history>>

(* The sleep is at least as long as asked; nothing is checked again.       *)
CallAgain(q) ==
  /\ req[q].pc = "sleeping" /\ req[q].asleep = 0
  /\ Becomes(q, [req[q] EXCEPT !.pc = "calling", !.attempt = @ + 1, !.tries = @ + 1])
  /\ UNCHANGED <<health, purse, preflight, history>>

(* The caller drops the future of chat or stream while it waits.           *)
Drop(q) ==
  /\ req[q].pc \in {"calling", "sleeping"}
  /\ Becomes(q, Ended(req[q], "dropped"))
  /\ UNCHANGED <<health, purse, preflight, history>>

-----------------------------------------------------------------------------
(* Telling the route's health: two atomic steps for a failure, three for a *)
(* reply.                                                                  *)

(* A refusal is shopped around. *)
MovesOn_Regardless(j) ==
  [j EXCEPT !.pc = "look", !.last = j.error, !.error = None, !.failed = 0, !.verdict = None]

(* Where the request goes once the failure is recorded: it is over when    *)
(* something decided so, and otherwise comes to the next route.            *)
MovesOn(j) ==
  IF j.verdict # None
  THEN Ended(j, j.verdict)
  ELSE [j EXCEPT !.pc = "look", !.last = j.error, !.error = None, !.failed = 0]

CountFailure(q) ==
  /\ req[q].pc = "count"
  /\ LET r == req[q].at IN
       /\ failures' = [failures EXCEPT ![r] = @ + 1]
       /\ told' = [told EXCEPT ![q] = @ \cup {r}]
       /\ Becomes(q, IF HasBreaker
                     THEN [req[q] EXCEPT !.pc = "rest", !.failed = failures[r] + 1]
                     ELSE MovesOn(req[q]))
  /\ UNCHANGED <<rests, denied, purse, preflight, broke, overlapped, asked, booked, found>>

(* The rest is stored over whatever is there, a longer one too.            *)
RestsFor(r, wait) == rests' = [rests EXCEPT ![r] = wait]

(* Any failure rests the route. *)
RestRoute_WhateverTheFailure(q) ==
  /\ req[q].pc = "rest"
  /\ RestsFor(req[q].at, OpeningFor(req[q].failed, req[q].error))
  /\ Becomes(q, MovesOn(req[q]))
  /\ UNCHANGED <<failures, denied, purse, preflight, history>>

RestRoute(q) ==
  /\ req[q].pc = "rest"
  /\ IF Opens(req[q].error)
     THEN RestsFor(req[q].at, OpeningFor(req[q].failed, req[q].error))
     ELSE UNCHANGED rests
  /\ Becomes(q, MovesOn(req[q]))
  /\ UNCHANGED <<failures, denied, purse, preflight, history>>

ForgetFailures(q) ==
  /\ req[q].pc = "served"
  /\ failures' = [failures EXCEPT ![req[q].at] = 0]
  /\ Becomes(q, [req[q] EXCEPT !.pc = "reopen"])
  /\ UNCHANGED <<rests, denied, purse, preflight, history>>

Reopen(q) ==
  /\ req[q].pc = "reopen"
  /\ RestsFor(req[q].at, 0)
  /\ Becomes(q, [req[q] EXCEPT !.pc = "undeny"])
  /\ UNCHANGED <<failures, denied, purse, preflight, history>>

Undeny(q) ==
  /\ req[q].pc = "undeny"
  /\ denied' = [denied EXCEPT ![req[q].at] = FALSE]
  /\ Becomes(q, [req[q] EXCEPT !.pc = "settle"])
  /\ UNCHANGED <<rests, failures, purse, preflight, history>>

-----------------------------------------------------------------------------
(* The purse *)

(* What a reply over route r can come to: its input, and its output within *)
(* the request's limit, at the rate of the model that answered.            *)
Amounts(q, r) == 0..(InputBound + ReplyCost[r])

(* The route's book can price the reply, when its usage was reported.      *)
CanPrice(r) == HasBudget /\ Pricing[r] = "rated"

Serve(q) == Becomes(q, Ended(req[q], "served"))

(* Pricing a whole reply takes a pending one off the count. *)
SettlePriced_TakesOneOff(q) ==
  /\ req[q].pc = "settle" /\ q \notin Streamed /\ CanPrice(req[q].at)
  /\ \E amount \in Amounts(q, req[q].at) : spent' = spent + amount
  /\ unmeasured' = Less(unmeasured)
  /\ Serve(q)
  /\ UNCHANGED <<health, preflight, history>>

SettlePriced(q) ==
  /\ req[q].pc = "settle" /\ q \notin Streamed /\ CanPrice(req[q].at)
  /\ \E amount \in Amounts(q, req[q].at) : spent' = spent + amount
  /\ Serve(q)
  /\ UNCHANGED <<health, unmeasured, preflight, history>>

(* Nobody could price it, or it is a stream whose usage is yet to come.    *)
SettleUnpriced(q) ==
  /\ req[q].pc = "settle" /\ HasBudget
  /\ unmeasured' = unmeasured + 1
  /\ booked' = booked \cup {q}
  /\ Serve(q)
  /\ UNCHANGED <<health, spent, preflight, told, broke, overlapped, asked, found>>

SettleWithoutBudget(q) ==
  /\ req[q].pc = "settle" /\ ~HasBudget
  /\ Serve(q)
  /\ UNCHANGED <<health, purse, preflight, history>>

(* Router::charge, called once with the transcript of a streamed reply.    *)
ChargeStream(q) ==
  /\ req[q].pc = "done" /\ req[q].outcome = "served" /\ q \in Streamed
  /\ CanPrice(req[q].at)
  /\ \E amount \in Amounts(q, req[q].at) : spent' = spent + amount
  /\ Becomes(q, [req[q] EXCEPT !.pc = "measured"])
  /\ UNCHANGED <<health, unmeasured, preflight, history>>

MeasuredAfterAll(q) ==
  /\ req[q].pc = "measured"
  /\ unmeasured' = Less(unmeasured)
  /\ booked' = booked \ {q}
  /\ Becomes(q, [req[q] EXCEPT !.pc = "charged"])
  /\ UNCHANGED <<health, spent, preflight, told, broke, overlapped, asked, found>>

-----------------------------------------------------------------------------
(* Router::preflight: one route after another, beside the requests.        *)

PreflightMoves == preflight' = [at |-> preflight.at + 1, pc |-> "ask"]

(* Ready and Unknown change nothing, and nor does Denied with no breaker.  *)
PreflightPasses ==
  /\ preflight.at \in Routes /\ preflight.pc = "ask"
  /\ PreflightMoves
  /\ UNCHANGED <<health, purse, req, history>>

PreflightDenies ==
  /\ preflight.at \in Routes /\ preflight.pc = "ask" /\ HasBreaker
  /\ denied' = [denied EXCEPT ![preflight.at] = TRUE]
  /\ preflight' = [preflight EXCEPT !.pc = "rest"]
  /\ HeardFrom(preflight.at)
  /\ UNCHANGED <<rests, failures, purse, req, told, broke, overlapped, asked, booked>>

PreflightRests ==
  /\ preflight.at \in Routes /\ preflight.pc = "rest"
  /\ RestsFor(preflight.at, Settled)
  /\ PreflightMoves
  /\ UNCHANGED <<failures, denied, purse, req, history>>

-----------------------------------------------------------------------------
(* What the code does by itself once a request has started.               *)
Proceed(q) ==
  \/ PassUnfit(q) \/ PassResting(q) \/ FindOpen(q)
  \/ PassUnaffordable(q) \/ RunOutOfTime(q) \/ Call(q) \/ RunOutOfRoutes(q)
  \/ Answered(q) \/ Refuses(q)
  \/ FailsAndWaits(q) \/ FailsWithNoRoom(q) \/ FailsForGood(q) \/ CallAgain(q)
  \/ CountFailure(q) \/ RestRoute(q)
  \/ ForgetFailures(q) \/ Reopen(q) \/ Undeny(q)
  \/ SettlePriced(q) \/ SettleUnpriced(q) \/ SettleWithoutBudget(q)
  \/ MeasuredAfterAll(q)

(* What its caller decides.                                                *)
Caller(q) == Start(q) \/ Drop(q) \/ ChargeStream(q)

Preflight == PreflightPasses \/ PreflightDenies \/ PreflightRests

Next == Tick \/ Preflight \/ \E q \in Requests : Proceed(q) \/ Caller(q)

Spec == Init /\ [][Next]_vars

(* Time passes, a started request is scheduled, and a provider's call ends *)
(* (its transport has a timeout).  Nothing says a caller ever calls.       *)
Fairness == WF_vars(Tick) /\ \A q \in Requests : WF_vars(Proceed(q))

FairSpec == Spec /\ Fairness

-----------------------------------------------------------------------------
(* Properties *)

(* A request wishes for the router's routes, and those that can do its     *)
(* work are known from the start.                                          *)
WishOf(q) ==
  [routes |-> Routes, able |-> {r \in Routes : Fits(q, r)}, attempts |-> Attempts]

Choosing(q, left) == [phase |-> "choosing", wish |-> WishOf(q), left |-> left]
Asking(q, left, r, n) ==
  [phase |-> "asking", wish |-> WishOf(q), left |-> left, at |-> r, times |-> n]

(* A route taken up but not asked yet still counts as one it may pass over;*)
(* a request whose verdict is in is over, though its failure is still      *)
(* being recorded.                                                         *)
Promise(q, j) ==
  CASE j.pc = "idle"   -> [phase |-> "unmade"]
    [] j.pc = "look"   -> Choosing(q, j.left)
    [] j.pc = "afford" -> Choosing(q, j.left \cup {j.at})
    [] \/ j.pc \in {"calling", "sleeping"}
       \/ j.pc \in {"count", "rest"} /\ j.verdict = None
                       -> Asking(q, j.left, j.at, j.attempt)
    [] \/ j.pc \in {"served", "reopen", "undeny", "settle"}
       \/ j.outcome = "served"
                       -> [phase |-> "over", at |-> j.at]
    [] OTHER           -> [phase |-> "over", at |-> 0]

Wishes(q) == {WishOf(q)}

Abstract == INSTANCE RequestPromise WITH promise <- [q \in Requests |-> Promise(q, req[q])]

(* Each request keeps the promise of RequestPromise: routes are taken up   *)
(* one at a time and never come back to, each asked within its attempts    *)
(* and only if it can do the work; a reply comes from the route being      *)
(* asked, and after the answer nobody is asked anything more.              *)
KeepsPromise == Abstract!Spec

(* A request that fails counts once against a route, however many attempts *)
(* it made there: three tries are one piece of evidence.                   *)
OneFailurePerRequest ==
  \A r \in Routes : failures[r] <= Cardinality({q \in Requests : r \in told[q]})

(* Once a refusal is heard no model is asked the question again, and the   *)
(* refusal is what the caller gets.                                        *)
RefusalIsFinal ==
  [][\A q \in Requests : "refused" \in {req[q].verdict, req[q].outcome} =>
       /\ req'[q].tries = req[q].tries
       /\ "refused" \in {req'[q].verdict, req'[q].outcome}]_vars

(* No attempt is made again before the wait the provider asked for.        *)
AskedWaitHonoured ==
  [][\A q \in Requests : req'[q].attempt > req[q].attempt /\ req[q].attempt > 0 =>
       asked[q] = 0 \/ req'[q].at # req[q].at]_vars

(* The answers that say nothing was sent are given only when nothing was,  *)
(* and a provider's error only when a provider was asked.                  *)
NothingSentIsTrue ==
  \A q \in Requests :
    /\ req[q].outcome \in {"over_budget", "circuit_open", "no_route"} => req[q].tries = 0
    /\ req[q].outcome \in Failures => req[q].tries > 0

(* Every request ends, however its providers, timers and neighbours behave.*)
EveryRequestEnds ==
  \A q \in Requests : InFlight(q) ~> ~InFlight(q)

(* A request that finds a route resting when it starts does not use the    *)
(* route before that rest is over, unless a request that was already       *)
(* asking the route, or the startup check, hears from it meanwhile: a      *)
(* reply, a denial, or a failure that opens the circuit.  A refusal and a  *)
(* failure that is about the request shorten nobody's rest.                *)
RestWaitedOut ==
  \A q \in Requests : req[q].pc \in {"afford", "calling", "sleeping"} =>
    found[q][req[q].at] = 0

(* A request that starts once the cap is spent sends nothing at all.       *)
SpentCapStopsNewWork == \A q \in broke : req[q].tries = 0

(* Every reply was priced no dearer than the check before its call bounded *)
(* it: the model that answered costs no more than the one that was asked.  *)
PricedAsBounded ==
  \A q \in Requests : req[q].outcome = "served" =>
    ReplyCost[req[q].at] <= ReplyBound[req[q].at]

(* One request after another, each with its reply limited, the spending    *)
(* passes the cap by the input of one call at most: the check before the   *)
(* call bounds the reply, unless a dearer model than the one asked         *)
(* answered it.                                                            *)
OvershootsByInputOnly ==
  ~overlapped /\ Limited = Requests /\ PricedAsBounded => spent <= Cap + InputBound

(* The unmeasured count is the calls answered and not yet priced: pricing  *)
(* one call never clears another.                                          *)
UnmeasuredIsPending == unmeasured = Cardinality(booked)
=============================================================================
