---------------------------- MODULE Router_proofs ----------------------------
(***************************************************************************)
(* Theorems about Router, for every number of routes and requests, every   *)
(* policy, order, budget and answer of the providers, in four parts:       *)
(*   1. its types and the inductive invariant the rest stands on;          *)
(*   2. the budget and the refusals;                                       *)
(*   3. waits, rests and failures, and the promise one request keeps;      *)
(*   4. that each step of the code is a step of RequestPromise, or none.   *)
(***************************************************************************)
EXTENDS Router, TLAPS, FiniteSetTheorems

-----------------------------------------------------------------------------
(***************************************************************************)
(* Part 1.  Types, and the inductive invariant.                            *)
(***************************************************************************)

-----------------------------------------------------------------------------
(* What the policies answer is a time. *)

(* Doubling a time and capping it gives a time. *)
LEMMA DoubledIsTime ==
  ASSUME NEW start \in Nat, NEW cap \in Nat, NEW d \in 0..BreakerDoublings
  PROVE  Doubled(start, d, cap) \in Nat
<1>1. 2^d \in Nat
  BY PowerAssumption
<1>2. start * 2^d \in Nat
  BY <1>1
<1> QED
  BY <1>2 DEF Doubled, Least

(* Every wait the retry policy may choose is a time. *)
LEMMA WaitsAreTimes ==
  ASSUME NEW next \in Nat, NEW e \in Failures
  PROVE  WaitsBefore(next, e) \subseteq Nat
<1> DEFINE d == Least(IF next <= 2 THEN 0 ELSE next - 2, RetryDoublings)
           capped == Doubled(Base, d, Ceiling)
<1>1. d \in 0..BreakerDoublings
  BY DEF Least, RetryDoublings, BreakerDoublings
<1>2. capped \in Nat
  BY <1>1, DoubledIsTime, PolicyAssumption
<1>3. Jittered(next) \subseteq Nat
  <2>1. capped \div 2 \in Nat
    BY <1>2
  <2> QED
    BY <1>2, <2>1 DEF Jittered
<1> QED
  BY <1>3, PolicyAssumption DEF WaitsBefore

(* How long the breaker closes a circuit for is a time. *)
LEMMA OpeningIsTime ==
  ASSUME NEW n \in Nat, NEW e \in Failures
  PROVE  OpeningFor(n, e) \in Nat
<1> DEFINE d == Least(IF n = 0 THEN 0 ELSE n - 1, BreakerDoublings)
<1>1. d \in 0..BreakerDoublings
  BY DEF Least, BreakerDoublings
<1>2. Backoff(n) \in Nat
  BY <1>1, DoubledIsTime, PolicyAssumption DEF Backoff
<1> QED
  BY <1>2, PolicyAssumption DEF OpeningFor

-----------------------------------------------------------------------------
(* Type correctness *)

(* Less of a time is a time. *)
LEMMA LessIsTime ==
  ASSUME NEW n \in Nat
  PROVE  Less(n) \in Nat
BY DEF Less

-----------------------------------------------------------------------------
(* The inductive invariant *)

(* The steps between the first call to a provider and the answer. *)
Asks == {"calling", "sleeping", "count", "rest", "served", "reopen", "undeny", "settle"}

(* What the local variables of a request say of one another.  The types    *)
(* alone are not inductive: counting a failure against req[q].at needs a   *)
(* route there, and an answer needs the attempts that led to it.           *)
Coherent(j) ==
  /\ j.pc \in Asks \cup {"afford", "measured"} \/ j.outcome = "served" => j.at \in Routes
  /\ j.outcome = None <=> j.pc \notin {"done", "measured", "charged"}
  /\ j.verdict # None => j.pc \in {"count", "rest"} /\ j.verdict \in {"refused", "gave_up"}
  /\ j.pc \in {"idle", "look", "afford"} => (j.tries = 0 <=> j.last = None)
  /\ j.pc = "idle" => j.tries = 0
  /\ j.pc \in Asks => j.tries > 0
  /\ j.pc \in {"count", "rest"} => j.error \in Failures
  /\ j.outcome \in {"over_budget", "circuit_open", "no_route"} => j.tries = 0
  /\ j.outcome \in Failures => j.tries > 0

IInv == TypeOK /\ \A q \in Requests : Coherent(req[q])

(* A request that has not started is a journey, and its parts agree.       *)
LEMMA FreshIsJourney == Fresh \in Journey /\ Coherent(Fresh)
<1>1. [r \in Routes |-> 0] \in [Routes -> Nat]
  OBVIOUS
<1>2. Fresh \in Journey
  BY <1>1 DEF Fresh, Journey, Steps
<1>3. Coherent(Fresh)
  BY DEF Fresh, Coherent, Asks, None, Failures
<1> QED
  BY <1>2, <1>3

(* One that ended is a journey too, and its parts agree if the outcome     *)
(* says no more than the attempts made.                                    *)
LEMMA EndedIsJourney ==
  ASSUME NEW j \in Journey, NEW o \in Outcomes,
         o = "served" => j.at \in Routes,
         o \in {"over_budget", "circuit_open", "no_route"} => j.tries = 0,
         o \in Failures => j.tries > 0
  PROVE  Ended(j, o) \in Journey /\ Coherent(Ended(j, o))
<1>1. j.at \in Routes \cup {0} /\ j.tries \in Nat
  BY DEF Journey
<1>2. Ended(j, o) \in Journey
  BY <1>1, FreshIsJourney, Zenon DEF Ended, Journey, Steps
<1>3. Coherent(Ended(j, o))
  BY <1>1 DEF Ended, Fresh, Coherent, Asks, Outcomes, None, Failures
<1> QED
  BY <1>2, <1>3

(* The answer given when the list is used up: an error some provider gave, *)
(* and only when none was asked that nothing was sent.                     *)
LEMMA VerdictIsOutcome ==
  ASSUME NEW j \in Journey, Coherent(j), j.pc = "look"
  PROVE  /\ Verdict(j) \in Outcomes
         /\ Ended(j, Verdict(j)) \in Journey /\ Coherent(Ended(j, Verdict(j)))
<1>1. j.last \in Failures \cup {None} /\ (j.tries = 0 <=> j.last = None) /\ j.tries \in Nat
  BY DEF Journey, Coherent
<1>2. CASE j.last # None
  <2>1. Verdict(j) = j.last
    BY <1>2 DEF Verdict
  <2>2. /\ Verdict(j) \in Failures /\ Verdict(j) \in Outcomes
        /\ Verdict(j) \notin {"served", "over_budget", "circuit_open", "no_route"}
    BY <1>1, <1>2, <2>1 DEF Outcomes, Failures, None
  <2> QED
    BY <1>1, <1>2, <2>2, EndedIsJourney
<1>3. CASE j.last = None
  <2>1. Verdict(j) \in {"over_budget", "circuit_open", "no_route"}
    BY <1>3 DEF Verdict
  <2>2. Verdict(j) \in Outcomes /\ Verdict(j) \notin Failures \cup {"served"}
    BY <2>1 DEF Outcomes, Failures
  <2> QED
    BY <1>1, <1>3, <2>2, EndedIsJourney
<1> QED
  BY <1>2, <1>3

(* A request that moves on after a failure is still a journey. *)
LEMMA MovesOnIsJourney ==
  ASSUME NEW j \in Journey, Coherent(j), j.pc \in {"count", "rest"}
  PROVE  MovesOn(j) \in Journey /\ Coherent(MovesOn(j))
<1>0. j.tries > 0 /\ j.error \in Failures
  BY DEF Coherent, Asks
<1>1. CASE j.verdict # None
  <2>1. j.verdict \in {"refused", "gave_up"}
    BY <1>1 DEF Coherent
  <2>2. /\ j.verdict \in Outcomes
        /\ j.verdict \notin {"served", "over_budget", "circuit_open", "no_route"}
    BY <2>1 DEF Outcomes, Failures
  <2> QED
    BY <1>0, <1>1, <2>2, EndedIsJourney DEF MovesOn
<1>2. CASE j.verdict = None
  <2>1. [j EXCEPT !.pc = "look", !.last = j.error, !.error = None, !.failed = 0] \in Journey
    BY <1>0, Zenon DEF Journey, Steps
  <2>2. Coherent([j EXCEPT !.pc = "look", !.last = j.error, !.error = None, !.failed = 0])
    BY <1>0, <1>2 DEF Coherent, Journey, Asks, None, Failures
  <2> QED
    BY <1>2, <2>1, <2>2 DEF MovesOn
<1> QED
  BY <1>1, <1>2

(* Giving one request a coherent journey keeps all of them so. *)
LEMMA BecomesKeepsJourneys ==
  ASSUME IInv, NEW q \in Requests, NEW j \in Journey, Coherent(j), Becomes(q, j)
  PROVE  req' \in [Requests -> Journey] /\ \A p \in Requests : Coherent(req'[p])
<1>1. req \in [Requests -> Journey] /\ \A p \in Requests : Coherent(req[p])
  BY DEF IInv, TypeOK
<1>2. req' = [req EXCEPT ![q] = j]
  BY DEF Becomes
<1>3. req' \in [Requests -> Journey]
  BY <1>1, <1>2, Zenon
<1>4. ASSUME NEW p \in Requests PROVE Coherent(req'[p])
  <2>1. req'[p] = IF p = q THEN j ELSE req[p]
    BY <1>1, <1>2
  <2> QED
    BY <1>1, <2>1
<1> QED
  BY <1>3, <1>4

(* The initial states satisfy it. *)
LEMMA InitIInv == Init => IInv
<1> SUFFICES ASSUME Init PROVE IInv
  OBVIOUS
<1>1. preflight \in [at : 1..(NumRoutes + 1), pc : {"ask", "rest"}]
  BY RouterAssumption DEF Init
<1>2. found \in [Requests -> [Routes -> Nat]]
  BY DEF Init
<1>3. TypeOK
  BY <1>1, <1>2, FreshIsJourney DEF Init, TypeOK
<1>4. \A q \in Requests : Coherent(req[q])
  BY FreshIsJourney DEF Init
<1> QED
  BY <1>3, <1>4 DEF IInv

(* Time passing keeps it. *)
LEMMA TickKeepsIInv ==
  ASSUME IInv, Tick
  PROVE  IInv'
<1>0. TypeOK /\ \A q \in Requests : Coherent(req[q])
  BY DEF IInv
<1>1. /\ rests' \in [Routes -> Nat]
      /\ asked' \in [Requests -> Nat]
  BY <1>0, LessIsTime DEF TypeOK, Tick
<1>2. found' \in [Requests -> [Routes -> Nat]]
  <2>1. \A q \in Requests : [r \in Routes |-> Less(found[q][r])] \in [Routes -> Nat]
    BY <1>0, LessIsTime DEF TypeOK
  <2> QED
    BY <2>1, Zenon DEF Tick
<1> DEFINE After(q) == IF HasDeadline /\ InFlight(q) /\ req[q].elapsed < Deadline
                       THEN req[q].elapsed + 1 ELSE req[q].elapsed
           Later(q) == [req[q] EXCEPT !.asleep = Less(req[q].asleep), !.elapsed = After(q)]
<1>3. ASSUME NEW q \in Requests
      PROVE  Later(q) \in Journey /\ Coherent(Later(q))
  <2>1. req[q] \in Journey /\ Coherent(req[q])
    BY <1>0 DEF TypeOK
  <2>2. Less(req[q].asleep) \in Nat
    BY <2>1, LessIsTime DEF Journey
  <2>3. After(q) \in Nat
    BY <2>1 DEF Journey
  <2> HIDE DEF After
  <2>4. Later(q) \in Journey
    BY <2>1, <2>2, <2>3, Zenon DEF Journey
  <2>5. Coherent(Later(q))
    BY <2>1 DEF Coherent, Journey
  <2> QED
    BY <2>4, <2>5
<1>4. req' = [q \in Requests |-> Later(q)]
  BY Zenon DEF Tick
<1> HIDE DEF Later
<1>5. req' \in [Requests -> Journey]
  BY <1>3, <1>4, Zenon
<1>6. \A q \in Requests : Coherent(req'[q])
  BY <1>3, <1>4
<1>7. TypeOK'
  BY <1>0, <1>1, <1>2, <1>5 DEF TypeOK, Tick, purse
<1> QED
  BY <1>6, <1>7 DEF IInv

(* The actions that change one request's local variables and, of what the  *)
(* requests share, nothing at all.                                         *)
LEMMA OwnStepKeepsIInv ==
  ASSUME IInv, NEW q \in Requests, NEW j \in Journey, Coherent(j), Becomes(q, j),
         UNCHANGED <<health, purse, preflight, history>>
  PROVE  IInv'
<1>1. req' \in [Requests -> Journey] /\ \A p \in Requests : Coherent(req'[p])
  BY BecomesKeepsJourneys
<1>2. TypeOK'
  BY <1>1 DEF IInv, TypeOK, health, purse, history
<1> QED
  BY <1>1, <1>2 DEF IInv

(* The other actions, once what they do to the shared state is typed. *)
LEMMA SharedStepKeepsIInv ==
  ASSUME IInv, NEW q \in Requests, NEW j \in Journey, Coherent(j), Becomes(q, j),
         rests' \in [Routes -> Nat], failures' \in [Routes -> Nat],
         denied' \in [Routes -> BOOLEAN], spent' \in Nat, unmeasured' \in Nat,
         UNCHANGED preflight,
         told' \in [Requests -> SUBSET Routes], broke' \subseteq Requests,
         overlapped' \in BOOLEAN,
         asked' \in [Requests -> Nat], booked' \subseteq Requests,
         found' \in [Requests -> [Routes -> Nat]]
  PROVE  IInv'
<1>1. req' \in [Requests -> Journey] /\ \A p \in Requests : Coherent(req'[p])
  BY BecomesKeepsJourneys
<1>2. preflight' \in [at : 1..(NumRoutes + 1), pc : {"ask", "rest"}]
  BY DEF IInv, TypeOK
<1>3. TypeOK'
  BY <1>1, <1>2 DEF TypeOK
<1> QED
  BY <1>1, <1>3 DEF IInv

(* What a request does before it asks a route. *)
LEMMA ChoosingKeepsIInv ==
  ASSUME IInv, NEW q \in Requests,
         \/ Start(q) \/ PassUnfit(q) \/ PassResting(q) \/ FindOpen(q)
         \/ PassUnaffordable(q) \/ RunOutOfTime(q) \/ Call(q) \/ RunOutOfRoutes(q)
  PROVE  IInv'
<1> DEFINE j == req[q]
<1>0. TypeOK /\ j \in Journey /\ Coherent(j)
  BY DEF IInv, TypeOK
<1>1. CASE Start(q)
  <2>1. Ranking \in [Routes -> Nat]
    BY <1>0 DEF TypeOK, Ranking
  <2>2. [j EXCEPT !.pc = "look", !.ranked = Ranking] \in Journey
    BY <1>0, <2>1, Zenon DEF Journey, Steps
  <2>3. Coherent([j EXCEPT !.pc = "look", !.ranked = Ranking])
    BY <1>0, <1>1 DEF Start, Coherent, Journey, Asks
  <2>4. /\ broke' \subseteq Requests
        /\ overlapped' \in BOOLEAN
    BY <1>0, <1>1, Zenon DEF Start, TypeOK
  <2>5. found' \in [Requests -> [Routes -> Nat]]
    <3> DEFINE rest == [r \in Routes |-> IF Recording(r) THEN 0 ELSE rests[r]]
    <3>1. rest \in [Routes -> Nat]
      BY <1>0 DEF TypeOK
    <3>2. found' = [found EXCEPT ![q] = rest]
      BY <1>1, Zenon DEF Start
    <3> HIDE DEF rest
    <3> QED
      BY <1>0, <3>1, <3>2 DEF TypeOK
  <2> QED
    BY <1>0, <1>1, <2>2, <2>3, <2>4, <2>5, SharedStepKeepsIInv DEF Start, TypeOK, health, purse
<1>2. CASE PassUnfit(q)
  <2>1. PICK r \in Routes : Becomes(q, [j EXCEPT !.left = j.left \ {r}])
    BY <1>2, Zenon DEF PassUnfit
  <2>2. j.left \ {r} \in SUBSET Routes
    BY <1>0 DEF Journey
  <2>3. [j EXCEPT !.left = j.left \ {r}] \in Journey
    BY <1>0, <2>2, Zenon DEF Journey
  <2>4. Coherent([j EXCEPT !.left = j.left \ {r}])
    BY <1>0 DEF Coherent, Journey
  <2> QED
    BY <1>2, <2>1, <2>3, <2>4, OwnStepKeepsIInv DEF PassUnfit
<1>3. CASE PassResting(q)
  <2>1. PICK r \in Routes : Becomes(q, [j EXCEPT !.left = j.left \ {r}, !.resting = TRUE])
    BY <1>3, Zenon DEF PassResting
  <2>2. j.left \ {r} \in SUBSET Routes
    BY <1>0 DEF Journey
  <2>3. [j EXCEPT !.left = j.left \ {r}, !.resting = TRUE] \in Journey
    BY <1>0, <2>2, Zenon DEF Journey
  <2>4. Coherent([j EXCEPT !.left = j.left \ {r}, !.resting = TRUE])
    BY <1>0 DEF Coherent, Journey
  <2> QED
    BY <1>3, <2>1, <2>3, <2>4, OwnStepKeepsIInv DEF PassResting
<1>4. CASE FindOpen(q)
  <2>1. PICK r \in Routes :
          Becomes(q, [j EXCEPT !.left = j.left \ {r}, !.at = r, !.pc = "afford"])
    BY <1>4, Zenon DEF FindOpen
  <2>2. j.left \ {r} \in SUBSET Routes /\ r \in Routes \cup {0}
    BY <1>0 DEF Journey
  <2>3. [j EXCEPT !.left = j.left \ {r}, !.at = r, !.pc = "afford"] \in Journey
    BY <1>0, <2>2, Zenon DEF Journey, Steps
  <2>4. Coherent([j EXCEPT !.left = j.left \ {r}, !.at = r, !.pc = "afford"])
    BY <1>0, <1>4 DEF FindOpen, Coherent, Journey, Asks
  <2> QED
    BY <1>4, <2>1, <2>3, <2>4, OwnStepKeepsIInv DEF FindOpen
<1>5. CASE PassUnaffordable(q)
  <2>1. [j EXCEPT !.overBudget = TRUE, !.pc = "look"] \in Journey
    BY <1>0, Zenon DEF Journey, Steps
  <2>2. Coherent([j EXCEPT !.overBudget = TRUE, !.pc = "look"])
    BY <1>0, <1>5 DEF PassUnaffordable, Coherent, Journey, Asks
  <2> QED
    BY <1>5, <2>1, <2>2, OwnStepKeepsIInv DEF PassUnaffordable
<1>6. CASE RunOutOfTime(q)
  <2>1. "gave_up" \in Outcomes /\ "gave_up" \notin Failures
    BY DEF Outcomes, Failures
  <2> QED
    BY <1>0, <1>6, <2>1, EndedIsJourney, OwnStepKeepsIInv DEF RunOutOfTime
<1>7. CASE RunOutOfRoutes(q)
  BY <1>0, <1>7, VerdictIsOutcome, OwnStepKeepsIInv DEF RunOutOfRoutes
<1>8. CASE Call(q)
  <2>1. j.tries + 1 \in Nat /\ 1 \in Nat
    BY <1>0 DEF Journey
  <2>2. [j EXCEPT !.pc = "calling", !.attempt = 1, !.tries = j.tries + 1] \in Journey
    BY <1>0, <2>1, Zenon DEF Journey, Steps
  <2>3. Coherent([j EXCEPT !.pc = "calling", !.attempt = 1, !.tries = j.tries + 1])
    <3>1. j.pc = "afford" /\ j.tries + 1 > 0
      BY <1>0, <1>8 DEF Call, Journey
    <3> QED
      BY <1>0, <3>1 DEF Coherent, Journey, Asks, None, Failures
  <2> QED
    BY <1>8, <2>2, <2>3, OwnStepKeepsIInv DEF Call
<1> QED
  BY <1>1, <1>2, <1>3, <1>4, <1>5, <1>6, <1>7, <1>8

(* Forgetting the rests found on a route leaves times in the history.      *)
LEMMA HeardIsTimes ==
  ASSUME TypeOK, NEW r \in Routes, HeardFrom(r)
  PROVE  found' \in [Requests -> [Routes -> Nat]]
<1>1. ASSUME NEW p \in Requests
      PROVE  [found[p] EXCEPT ![r] = 0] \in [Routes -> Nat]
  BY DEF TypeOK
<1> QED
  BY <1>1 DEF HeardFrom

(* What a request does with what the provider answers. *)
LEMMA AnswersKeepIInv ==
  ASSUME IInv, NEW q \in Requests,
         \/ Answered(q) \/ Refuses(q) \/ FailsAndWaits(q) \/ FailsWithNoRoom(q)
         \/ FailsForGood(q) \/ CallAgain(q) \/ Drop(q)
  PROVE  IInv'
<1> DEFINE j == req[q]
<1>0. TypeOK /\ j \in Journey /\ Coherent(j)
  BY DEF IInv, TypeOK
<1>a. j.pc = "calling" => j.at \in Routes
  BY <1>0 DEF Coherent, Asks
<1>1. CASE Answered(q)
  <2>1. [j EXCEPT !.pc = "served"] \in Journey
    BY <1>0, Zenon DEF Journey, Steps
  <2>2. Coherent([j EXCEPT !.pc = "served"])
    BY <1>0, <1>1 DEF Answered, Coherent, Journey, Asks, None, Failures
  <2>3. found' \in [Requests -> [Routes -> Nat]]
    BY <1>0, <1>a, <1>1, HeardIsTimes DEF Answered
  <2> QED
    BY <1>0, <1>1, <2>1, <2>2, <2>3, SharedStepKeepsIInv DEF Answered, TypeOK, health, purse
<1>2. CASE Refuses(q)
  <2>1. "refused" \in Failures \cup {None} /\ "refused" \in Outcomes \cup {None}
    BY DEF Failures, Outcomes
  <2>2. [j EXCEPT !.pc = "count", !.error = "refused", !.verdict = "refused"] \in Journey
    BY <1>0, <2>1, Zenon DEF Journey, Steps
  <2>3. Coherent([j EXCEPT !.pc = "count", !.error = "refused", !.verdict = "refused"])
    BY <1>0, <1>2, <2>1 DEF Refuses, Coherent, Journey, Asks, None, Failures
  <2> QED
    BY <1>2, <2>2, <2>3, OwnStepKeepsIInv DEF Refuses
<1>3. CASE FailsAndWaits(q)
  <2>0. PICK e \in ErrorsSeen \ {"refused"} : \E w \in WaitsBefore(j.attempt + 1, e) :
          /\ Becomes(q, [j EXCEPT !.pc = "sleeping", !.last = e, !.asleep = w])
          /\ Hears(q, e)
    BY <1>3, Zenon DEF FailsAndWaits
  <2>1. PICK w \in WaitsBefore(j.attempt + 1, e) :
          /\ Becomes(q, [j EXCEPT !.pc = "sleeping", !.last = e, !.asleep = w])
          /\ Hears(q, e)
    BY <2>0
  <2>2. e \in Failures /\ e \in Failures \cup {None}
    BY RouterAssumption
  <2>3. w \in Nat
    <3>1. j.attempt + 1 \in Nat
      BY <1>0 DEF Journey
    <3> QED
      BY <2>1, <2>2, <3>1, WaitsAreTimes
  <2>4. [j EXCEPT !.pc = "sleeping", !.last = e, !.asleep = w] \in Journey
    BY <1>0, <2>2, <2>3, Zenon DEF Journey, Steps
  <2>5. Coherent([j EXCEPT !.pc = "sleeping", !.last = e, !.asleep = w])
    <3>1. j.pc = "calling"
      BY <1>3 DEF FailsAndWaits
    <3> QED
      BY <1>0, <3>1 DEF Coherent, Journey, Asks, None, Failures
  <2>6. asked' \in [Requests -> Nat]
    BY <1>0, <2>1, PolicyAssumption DEF Hears, TypeOK
  <2> QED
    BY <1>0, <1>3, <2>1, <2>4, <2>5, <2>6, SharedStepKeepsIInv
    DEF FailsAndWaits, TypeOK, health, purse
<1>4. CASE FailsWithNoRoom(q)
  <2>1. PICK e \in ErrorsSeen \ {"refused"} :
          Becomes(q, [j EXCEPT !.pc = "count", !.error = e, !.verdict = "gave_up"])
    BY <1>4, Zenon DEF FailsWithNoRoom
  <2>2. /\ e \in Failures /\ e \in Failures \cup {None}
        /\ "gave_up" \in Outcomes \cup {None}
    BY RouterAssumption DEF Outcomes
  <2>3. [j EXCEPT !.pc = "count", !.error = e, !.verdict = "gave_up"] \in Journey
    BY <1>0, <2>2, Zenon DEF Journey, Steps
  <2>4. Coherent([j EXCEPT !.pc = "count", !.error = e, !.verdict = "gave_up"])
    <3>1. j.pc = "calling"
      BY <1>4 DEF FailsWithNoRoom
    <3> QED
      BY <1>0, <2>2, <3>1 DEF Coherent, Journey, Asks, None
  <2>5. found' \in [Requests -> [Routes -> Nat]]
    BY <1>0, <1>a, <1>4, HeardIsTimes DEF FailsWithNoRoom
  <2> QED
    BY <1>0, <1>4, <2>1, <2>3, <2>4, <2>5, SharedStepKeepsIInv
    DEF FailsWithNoRoom, TypeOK, health, purse
<1>5. CASE FailsForGood(q)
  <2>1. PICK e \in ErrorsSeen \ {"refused"} :
          Becomes(q, [j EXCEPT !.pc = "count", !.error = e])
    BY <1>5, Zenon DEF FailsForGood
  <2>2. e \in Failures /\ e \in Failures \cup {None}
    BY RouterAssumption
  <2>3. [j EXCEPT !.pc = "count", !.error = e] \in Journey
    BY <1>0, <2>2, Zenon DEF Journey, Steps
  <2>4. Coherent([j EXCEPT !.pc = "count", !.error = e])
    <3>1. j.pc = "calling"
      BY <1>5 DEF FailsForGood
    <3> QED
      BY <1>0, <2>2, <3>1 DEF Coherent, Journey, Asks, None
  <2>5. found' \in [Requests -> [Routes -> Nat]]
    <3>1. HeardFrom(j.at) \/ UNCHANGED found
      BY <1>5, Zenon DEF FailsForGood
    <3>2. j.at \in Routes
      BY <1>a, <1>5 DEF FailsForGood
    <3> QED
      BY <1>0, <3>1, <3>2, HeardIsTimes DEF TypeOK
  <2> QED
    BY <1>0, <1>5, <2>1, <2>3, <2>4, <2>5, SharedStepKeepsIInv
    DEF FailsForGood, TypeOK, health, purse
<1>6. CASE CallAgain(q)
  <2>1. j.attempt + 1 \in Nat /\ j.tries + 1 \in Nat
    BY <1>0 DEF Journey
  <2>2. [j EXCEPT !.pc = "calling", !.attempt = j.attempt + 1, !.tries = j.tries + 1] \in Journey
    BY <1>0, <2>1, Zenon DEF Journey, Steps
  <2>3. Coherent([j EXCEPT !.pc = "calling", !.attempt = j.attempt + 1, !.tries = j.tries + 1])
    BY <1>0, <1>6 DEF CallAgain, Coherent, Journey, Asks, None, Failures
  <2> QED
    BY <1>6, <2>2, <2>3, OwnStepKeepsIInv DEF CallAgain
<1>7. CASE Drop(q)
  <2>1. "dropped" \in Outcomes /\ "dropped" \notin Failures
    BY DEF Outcomes, Failures
  <2> QED
    BY <1>0, <1>7, <2>1, EndedIsJourney, OwnStepKeepsIInv DEF Drop
<1> QED
  BY <1>1, <1>2, <1>3, <1>4, <1>5, <1>6, <1>7

(* A rest stored for a route is a time. *)
LEMMA RestsAreTimes ==
  ASSUME TypeOK, NEW r \in Routes, NEW wait \in Nat, RestsFor(r, wait)
  PROVE  rests' \in [Routes -> Nat]
BY DEF TypeOK, RestsFor

(* What a request tells the health of the route it asked. *)
LEMMA HealthKeepsIInv ==
  ASSUME IInv, NEW q \in Requests,
         \/ CountFailure(q) \/ RestRoute(q)
         \/ ForgetFailures(q) \/ Reopen(q) \/ Undeny(q)
  PROVE  IInv'
<1> DEFINE j == req[q]  r == req[q].at
<1>0. TypeOK /\ j \in Journey /\ Coherent(j)
  BY DEF IInv, TypeOK
<1>1. r \in Routes
  BY <1>0 DEF CountFailure, RestRoute, ForgetFailures, Reopen, Undeny, Coherent, Asks
<1>2. CASE CountFailure(q)
  <2>1. failures[r] + 1 \in Nat
    BY <1>0, <1>1 DEF TypeOK
  <2>2. j.pc = "count" /\ MovesOn(j) \in Journey /\ Coherent(MovesOn(j))
    BY <1>0, <1>2, MovesOnIsJourney DEF CountFailure
  <2> DEFINE toRest == [j EXCEPT !.pc = "rest", !.failed = failures[r] + 1]
  <2>3. toRest \in Journey
    BY <1>0, <2>1, Zenon DEF Journey, Steps
  <2>4. Coherent(toRest)
    BY <1>0, <2>2 DEF Coherent, Journey, Asks, None, Failures
  <2>5. Becomes(q, toRest) \/ Becomes(q, MovesOn(j))
    BY <1>2 DEF CountFailure
  <2>6. /\ failures' \in [Routes -> Nat]
        /\ told' \in [Requests -> SUBSET Routes]
    BY <1>0, <1>1, <1>2, <2>1 DEF CountFailure, TypeOK
  <2> HIDE DEF toRest
  <2> QED
    BY <1>0, <1>2, <2>2, <2>3, <2>4, <2>5, <2>6, SharedStepKeepsIInv
    DEF CountFailure, TypeOK, purse
<1>3. CASE RestRoute(q)
  <2>1. MovesOn(j) \in Journey /\ Coherent(MovesOn(j)) /\ Becomes(q, MovesOn(j))
    BY <1>0, <1>3, MovesOnIsJourney DEF RestRoute
  <2>2. j.failed \in Nat /\ j.error \in Failures
    BY <1>0, <1>3 DEF RestRoute, Coherent, Journey
  <2>3. OpeningFor(j.failed, j.error) \in Nat
    BY <2>2, OpeningIsTime
  <2>4. rests' \in [Routes -> Nat]
    BY <1>0, <1>1, <1>3, <2>3, RestsAreTimes DEF RestRoute, TypeOK
  <2> QED
    BY <1>0, <1>3, <2>1, <2>4, SharedStepKeepsIInv DEF RestRoute, TypeOK, purse, history
<1>4. CASE ForgetFailures(q)
  <2>1. [j EXCEPT !.pc = "reopen"] \in Journey
    BY <1>0, Zenon DEF Journey, Steps
  <2>2. Coherent([j EXCEPT !.pc = "reopen"])
    BY <1>0, <1>4 DEF ForgetFailures, Coherent, Journey, Asks, None, Failures
  <2>3. failures' \in [Routes -> Nat]
    BY <1>0, <1>4 DEF ForgetFailures, TypeOK
  <2> QED
    BY <1>0, <1>4, <2>1, <2>2, <2>3, SharedStepKeepsIInv
    DEF ForgetFailures, TypeOK, purse, history
<1>5. CASE Reopen(q)
  <2>1. [j EXCEPT !.pc = "undeny"] \in Journey
    BY <1>0, Zenon DEF Journey, Steps
  <2>2. Coherent([j EXCEPT !.pc = "undeny"])
    BY <1>0, <1>5 DEF Reopen, Coherent, Journey, Asks, None, Failures
  <2>3. rests' \in [Routes -> Nat]
    BY <1>0, <1>1, <1>5, RestsAreTimes DEF Reopen
  <2> QED
    BY <1>0, <1>5, <2>1, <2>2, <2>3, SharedStepKeepsIInv DEF Reopen, TypeOK, purse, history
<1>6. CASE Undeny(q)
  <2>1. [j EXCEPT !.pc = "settle"] \in Journey
    BY <1>0, Zenon DEF Journey, Steps
  <2>2. Coherent([j EXCEPT !.pc = "settle"])
    BY <1>0, <1>6 DEF Undeny, Coherent, Journey, Asks, None, Failures
  <2>3. denied' \in [Routes -> BOOLEAN]
    BY <1>0, <1>6 DEF Undeny, TypeOK
  <2> QED
    BY <1>0, <1>6, <2>1, <2>2, <2>3, SharedStepKeepsIInv DEF Undeny, TypeOK, purse, history
<1> QED
  BY <1>2, <1>3, <1>4, <1>5, <1>6

(* What a reply does to the purse, at once or when its stream is charged.  *)
LEMMA PurseKeepsIInv ==
  ASSUME IInv, NEW q \in Requests,
         \/ SettlePriced(q) \/ SettleUnpriced(q) \/ SettleWithoutBudget(q)
         \/ ChargeStream(q) \/ MeasuredAfterAll(q)
  PROVE  IInv'
<1> DEFINE j == req[q]
<1>0. TypeOK /\ j \in Journey /\ Coherent(j)
  BY DEF IInv, TypeOK
<1>1. ASSUME j.pc = "settle"
      PROVE  Ended(j, "served") \in Journey /\ Coherent(Ended(j, "served"))
  <2>1. /\ "served" \in Outcomes
        /\ "served" \notin {"over_budget", "circuit_open", "no_route"} \cup Failures
    BY DEF Outcomes, Failures
  <2>2. j.at \in Routes
    BY <1>0, <1>1 DEF Coherent, Asks
  <2> QED
    BY <1>0, <2>1, <2>2, EndedIsJourney
<1>2. Amounts(q, j.at) \subseteq Nat
  BY DEF Amounts
<1>3. CASE SettlePriced(q)
  <2>1. spent' \in Nat
    BY <1>0, <1>2, <1>3 DEF SettlePriced, TypeOK
  <2> QED
    BY <1>0, <1>1, <1>3, <2>1, SharedStepKeepsIInv
    DEF SettlePriced, Serve, TypeOK, health, history
<1>4. CASE SettleUnpriced(q)
  BY <1>0, <1>1, <1>4, SharedStepKeepsIInv DEF SettleUnpriced, Serve, TypeOK, health
<1>5. CASE SettleWithoutBudget(q)
  BY <1>1, <1>5, OwnStepKeepsIInv DEF SettleWithoutBudget, Serve
<1>6. CASE ChargeStream(q)
  <2>1. [j EXCEPT !.pc = "measured"] \in Journey
    BY <1>0, Zenon DEF Journey, Steps
  <2>2. Coherent([j EXCEPT !.pc = "measured"])
    BY <1>0, <1>6 DEF ChargeStream, Coherent, Journey, Asks, None, Failures
  <2>3. spent' \in Nat
    BY <1>0, <1>2, <1>6 DEF ChargeStream, TypeOK
  <2> QED
    BY <1>0, <1>6, <2>1, <2>2, <2>3, SharedStepKeepsIInv
    DEF ChargeStream, TypeOK, health, history
<1>7. CASE MeasuredAfterAll(q)
  <2>1. [j EXCEPT !.pc = "charged"] \in Journey
    BY <1>0, Zenon DEF Journey, Steps
  <2>2. Coherent([j EXCEPT !.pc = "charged"])
    BY <1>0, <1>7 DEF MeasuredAfterAll, Coherent, Journey, Asks, None, Failures
  <2>3. unmeasured' \in Nat /\ booked' \subseteq Requests
    BY <1>0, <1>7, LessIsTime DEF MeasuredAfterAll, TypeOK
  <2> QED
    BY <1>0, <1>7, <2>1, <2>2, <2>3, SharedStepKeepsIInv DEF MeasuredAfterAll, TypeOK, health
<1> QED
  BY <1>3, <1>4, <1>5, <1>6, <1>7

(* What the startup check does to the health of the routes. *)
LEMMA PreflightKeepsIInv ==
  ASSUME IInv, Preflight
  PROVE  IInv'
<1>0. TypeOK /\ UNCHANGED req
  BY DEF IInv, Preflight, PreflightPasses, PreflightDenies, PreflightRests
<1>a. ASSUME preflight.at \in Routes, PreflightMoves
      PROVE  preflight' \in [at : 1..(NumRoutes + 1), pc : {"ask", "rest"}]
  <2>1. NumRoutes \in Nat
    BY RouterAssumption
  <2>2. preflight.at + 1 \in 1..(NumRoutes + 1)
    BY <1>a, <2>1 DEF Routes
  <2> QED
    BY <1>a, <2>2 DEF PreflightMoves
<1>1. CASE PreflightPasses
  <2>1. preflight' \in [at : 1..(NumRoutes + 1), pc : {"ask", "rest"}]
    BY <1>1, <1>a DEF PreflightPasses
  <2>2. UNCHANGED <<rests, failures, denied, spent, unmeasured, told, broke, overlapped,
                    asked, booked, found>>
    BY <1>1, Zenon DEF PreflightPasses, health, purse, history
  <2>3. TypeOK'
    BY <1>0, <2>1, <2>2 DEF TypeOK
  <2> QED
    BY <1>0, <2>3 DEF IInv
<1>2. CASE PreflightDenies
  <2>1. found' \in [Requests -> [Routes -> Nat]]
    BY <1>0, <1>2, HeardIsTimes DEF PreflightDenies
  <2>2. /\ denied' \in [Routes -> BOOLEAN]
        /\ preflight' \in [at : 1..(NumRoutes + 1), pc : {"ask", "rest"}]
    BY <1>0, <1>2 DEF PreflightDenies, TypeOK
  <2>3. UNCHANGED <<rests, failures, spent, unmeasured, told, broke, overlapped, asked, booked>>
    BY <1>2, Zenon DEF PreflightDenies, purse
  <2>4. TypeOK'
    BY <1>0, <2>1, <2>2, <2>3 DEF TypeOK
  <2> QED
    BY <1>0, <2>4 DEF IInv
<1>3. CASE PreflightRests
  <2>1. preflight' \in [at : 1..(NumRoutes + 1), pc : {"ask", "rest"}]
    BY <1>3, <1>a DEF PreflightRests
  <2>2. rests' \in [Routes -> Nat]
    BY <1>0, <1>3, PolicyAssumption, RestsAreTimes DEF PreflightRests
  <2>3. UNCHANGED <<failures, denied, spent, unmeasured, told, broke, overlapped, asked,
                    booked, found>>
    BY <1>3, Zenon DEF PreflightRests, purse, history
  <2>4. TypeOK'
    BY <1>0, <2>1, <2>2, <2>3 DEF TypeOK
  <2> QED
    BY <1>0, <2>4 DEF IInv
<1> QED
  BY <1>1, <1>2, <1>3 DEF Preflight

(* Every step keeps it. *)
LEMMA StepKeepsIInv == IInv /\ [Next]_vars => IInv'
<1> SUFFICES ASSUME IInv, [Next]_vars PROVE IInv'
  OBVIOUS
<1>1. CASE Tick
  BY <1>1, TickKeepsIInv
<1>2. CASE Preflight
  BY <1>2, PreflightKeepsIInv
<1>3. ASSUME NEW q \in Requests, Proceed(q) PROVE IInv'
  BY <1>3, ChoosingKeepsIInv, AnswersKeepIInv, HealthKeepsIInv, PurseKeepsIInv DEF Proceed
<1>4. ASSUME NEW q \in Requests, Caller(q) PROVE IInv'
  BY <1>4, ChoosingKeepsIInv, AnswersKeepIInv, PurseKeepsIInv DEF Caller
<1>5. CASE UNCHANGED vars
  BY <1>5 DEF vars, IInv, TypeOK
<1> QED
  BY <1>1, <1>2, <1>3, <1>4, <1>5 DEF Next

(* So every reachable state satisfies it. *)
THEOREM Invariance == Spec => []IInv
<1> QED
  BY InitIInv, StepKeepsIInv, PTL DEF Spec

-----------------------------------------------------------------------------
(* Whatever the number of routes and requests and whatever the policies,   *)
(* every variable keeps its type: no count or timer of the code's unsigned *)
(* integers is ever taken below zero, and health is only told of routes.   *)
THEOREM TypeCorrect == Spec => []TypeOK
<1>1. IInv => TypeOK
  BY DEF IInv
<1> QED
  BY <1>1, Invariance, PTL

(* The answers that say nothing was sent are given only when nothing was,  *)
(* and a provider's error only when a provider was asked.                  *)
THEOREM NothingSentIsTrueTheorem == Spec => []NothingSentIsTrue
<1>1. IInv => NothingSentIsTrue
  BY DEF IInv, TypeOK, Coherent, NothingSentIsTrue, Journey
<1> QED
  BY <1>1, Invariance, PTL

-----------------------------------------------------------------------------
(***************************************************************************)
(* Part 2.  The budget and the refusals.                                   *)
(***************************************************************************)

-----------------------------------------------------------------------------
(* Which steps make a call, and which end a request *)

(* A journey that changes is the one of a single request. *)
LEMMA BecomesOnlyOne ==
  ASSUME IInv, NEW q \in Requests, NEW j, Becomes(q, j)
  PROVE  req'[q] = j /\ \A p \in Requests \ {q} : req'[p] = req[p]
BY DEF IInv, TypeOK, Becomes

(* So a request leaves every other one where it is. *)
LEMMA OthersStay ==
  ASSUME IInv, NEW q \in Requests, Proceed(q) \/ Caller(q), NEW p \in Requests, p # q
  PROVE  req'[p] = req[p]
<1>1. PICK k : Becomes(q, k)
  BY DEF Proceed, Caller, Start, PassUnfit, PassResting, FindOpen, PassUnaffordable,
     RunOutOfTime, Call, RunOutOfRoutes, Answered, Refuses, FailsAndWaits, FailsWithNoRoom,
     FailsForGood, CallAgain, Drop, CountFailure, RestRoute, ForgetFailures, Reopen, Undeny,
     SettlePriced, SettleUnpriced, SettleWithoutBudget, Serve, ChargeStream, MeasuredAfterAll
<1> QED
  BY <1>1, BecomesOnlyOne

(* Attempts are made by Call and CallAgain alone: what every other action  *)
(* leaves a request with has the attempts it had.                          *)
LEMMA TriesGrowByCalls ==
  ASSUME IInv, [Next]_vars, NEW p \in Requests, ~Call(p), ~CallAgain(p)
  PROVE  req'[p].tries = req[p].tries
<1> DEFINE j == req[p]
<1>0. req \in [Requests -> Journey] /\ j \in Journey
  BY DEF IInv, TypeOK
<1>1. CASE Tick
  BY <1>0, <1>1 DEF Tick, Journey
<1>2. CASE Preflight \/ UNCHANGED vars
  BY <1>2 DEF Preflight, PreflightPasses, PreflightDenies, PreflightRests, vars
<1>3. ASSUME NEW k, Becomes(p, k), k.tries = j.tries
      PROVE  req'[p].tries = j.tries
  BY <1>3, BecomesOnlyOne
<1>4. ASSUME NEW o PROVE Ended(j, o).tries = j.tries
  BY DEF Ended, Fresh
<1>5. MovesOn(j).tries = j.tries
  BY <1>0, <1>4 DEF MovesOn, Journey
<1>6. ASSUME NEW q \in Requests, q # p, Proceed(q) \/ Caller(q)
      PROVE  req'[p].tries = j.tries
  BY <1>6, OthersStay
<1>7. CASE Start(p)
  <2>1. [j EXCEPT !.pc = "look", !.ranked = Ranking].tries = j.tries
    BY <1>0, Zenon DEF Journey
  <2> QED
    BY <1>3, <1>7, <2>1 DEF Start
<1>8. CASE PassUnfit(p) \/ PassResting(p) \/ FindOpen(p)
  <2>1. PICK r \in Routes :
          \/ Becomes(p, [j EXCEPT !.left = j.left \ {r}])
          \/ Becomes(p, [j EXCEPT !.left = j.left \ {r}, !.resting = TRUE])
          \/ Becomes(p, [j EXCEPT !.left = j.left \ {r}, !.at = r, !.pc = "afford"])
    BY <1>8, Zenon DEF PassUnfit, PassResting, FindOpen
  <2>2. /\ [j EXCEPT !.left = j.left \ {r}].tries = j.tries
        /\ [j EXCEPT !.left = j.left \ {r}, !.resting = TRUE].tries = j.tries
        /\ [j EXCEPT !.left = j.left \ {r}, !.at = r, !.pc = "afford"].tries = j.tries
    BY <1>0 DEF Journey
  <2> QED
    BY <1>3, <2>1, <2>2
<1>9. CASE PassUnaffordable(p)
  <2>1. [j EXCEPT !.overBudget = TRUE, !.pc = "look"].tries = j.tries
    BY <1>0 DEF Journey
  <2> QED
    BY <1>3, <1>9, <2>1 DEF PassUnaffordable
<1>10. CASE \/ RunOutOfTime(p) \/ RunOutOfRoutes(p) \/ Drop(p)
            \/ SettlePriced(p) \/ SettleUnpriced(p) \/ SettleWithoutBudget(p)
  BY <1>3, <1>4, <1>10 DEF RunOutOfTime, RunOutOfRoutes, Drop, SettlePriced,
     SettleUnpriced, SettleWithoutBudget, Serve
<1>11. CASE \/ Answered(p) \/ Refuses(p) \/ ForgetFailures(p) \/ Reopen(p) \/ Undeny(p)
            \/ ChargeStream(p) \/ MeasuredAfterAll(p)
  <2>1. /\ \A step : [j EXCEPT !.pc = step].tries = j.tries
        /\ [j EXCEPT !.pc = "count", !.error = "refused", !.verdict = "refused"].tries = j.tries
    BY <1>0 DEF Journey
  <2> QED
    BY <1>3, <1>11, <2>1 DEF Answered, Refuses, ForgetFailures, Reopen, Undeny,
       ChargeStream, MeasuredAfterAll
<1>12. CASE FailsAndWaits(p) \/ FailsWithNoRoom(p) \/ FailsForGood(p)
  <2>1. PICK e, w :
          \/ Becomes(p, [j EXCEPT !.pc = "sleeping", !.last = e, !.asleep = w])
          \/ Becomes(p, [j EXCEPT !.pc = "count", !.error = e, !.verdict = "gave_up"])
          \/ Becomes(p, [j EXCEPT !.pc = "count", !.error = e])
    BY <1>12, Zenon DEF FailsAndWaits, FailsWithNoRoom, FailsForGood
  <2>2. /\ [j EXCEPT !.pc = "sleeping", !.last = e, !.asleep = w].tries = j.tries
        /\ [j EXCEPT !.pc = "count", !.error = e, !.verdict = "gave_up"].tries = j.tries
        /\ [j EXCEPT !.pc = "count", !.error = e].tries = j.tries
    BY <1>0 DEF Journey
  <2> QED
    BY <1>3, <2>1, <2>2
<1>13. CASE CountFailure(p) \/ RestRoute(p)
  <2>1. \A n : [j EXCEPT !.pc = "rest", !.failed = n].tries = j.tries
    BY <1>0 DEF Journey
  <2> QED
    BY <1>3, <1>5, <1>13, <2>1 DEF CountFailure, RestRoute
<1> QED
  BY <1>1, <1>2, <1>6, <1>7, <1>8, <1>9, <1>10, <1>11, <1>12, <1>13
  DEF Next, Proceed, Caller

-----------------------------------------------------------------------------
(* The budget stops new work *)

(* Spending is never taken back. *)
LEMMA SpendingGrows ==
  ASSUME IInv, [Next]_vars
  PROVE  spent \in Nat /\ spent' >= spent
<1>0. spent \in Nat
  BY DEF IInv, TypeOK
<1>1. CASE UNCHANGED spent
  BY <1>0, <1>1
<1>2. ASSUME NEW q \in Requests, SettlePriced(q) \/ ChargeStream(q)
      PROVE  spent' >= spent
  BY <1>0, <1>2 DEF SettlePriced, ChargeStream, Amounts
<1> QED
  BY <1>0, <1>1, <1>2 DEF Next, Tick, Preflight, PreflightPasses, PreflightDenies,
     PreflightRests, Proceed, Caller, Start, PassUnfit, PassResting, FindOpen, PassUnaffordable,
     RunOutOfTime, Call, RunOutOfRoutes, Answered, Refuses, FailsAndWaits, FailsWithNoRoom,
     FailsForGood, CallAgain, Drop, CountFailure, RestRoute, ForgetFailures, Reopen, Undeny,
     SettleUnpriced, SettleWithoutBudget, MeasuredAfterAll, vars, purse

(* Only starting puts a request among those that found the cap spent. *)
LEMMA BrokeByStarting ==
  ASSUME [Next]_vars, NEW p \in broke', p \notin broke
  PROVE  p \in Requests /\ Start(p) /\ HasBudget /\ spent >= Cap
<1>1. CASE UNCHANGED broke
  BY <1>1
<1>2. ASSUME NEW q \in Requests, Start(q)
      PROVE  p = q /\ HasBudget /\ spent >= Cap
  BY <1>2 DEF Start
<1> QED
  BY <1>1, <1>2 DEF Next, Tick, Preflight, PreflightPasses, PreflightDenies,
     PreflightRests, Proceed, Caller, PassUnfit, PassResting, FindOpen, PassUnaffordable,
     RunOutOfTime, Call, RunOutOfRoutes, Answered, Refuses, FailsAndWaits, FailsWithNoRoom,
     FailsForGood, CallAgain, Drop, CountFailure, RestRoute, ForgetFailures, Reopen, Undeny,
     SettlePriced, ChargeStream, SettleUnpriced, SettleWithoutBudget, MeasuredAfterAll,
     vars, history

(* That a broke request sent nothing is kept because the cap stays spent.  *)
BrokeInv == \A q \in broke : HasBudget /\ spent >= Cap /\ req[q].tries = 0

(* A request that starts once the cap is spent sends nothing at all: the   *)
(* cap is looked at before each route, and spending is never taken back.   *)
THEOREM SpentCapStopsNewWorkTheorem == Spec => []SpentCapStopsNewWork
<1>1. Init => BrokeInv
  BY DEF Init, BrokeInv
<1>2. IInv /\ BrokeInv /\ [Next]_vars => BrokeInv'
  <2> SUFFICES ASSUME IInv, BrokeInv, [Next]_vars, NEW p \in broke'
               PROVE  HasBudget /\ spent' >= Cap /\ req'[p].tries = 0
    BY DEF BrokeInv
  <2>0. Cap \in Nat /\ spent \in Nat /\ spent' >= spent /\ spent' \in Nat
    <3>1. IInv'
      BY StepKeepsIInv
    <3> QED
      BY <3>1, SpendingGrows, RouterAssumption DEF IInv, TypeOK
  <2>1. CASE p \in broke
    <3>1. p \in Requests /\ Coherent(req[p]) /\ req[p] \in Journey
      BY <2>1 DEF IInv, TypeOK
    <3>2. HasBudget /\ spent >= Cap /\ req[p].tries = 0
      BY <2>1 DEF BrokeInv
    <3>3. ~Call(p)
      BY <3>2 DEF Call, Unaffordable, Remaining
    <3>4. ~CallAgain(p)
      BY <3>1, <3>2 DEF CallAgain, Coherent, Asks
    <3>5. req'[p].tries = 0
      BY <3>1, <3>2, <3>3, <3>4, TriesGrowByCalls
    <3> QED
      BY <2>0, <3>2, <3>5
  <2>2. CASE p \notin broke
    <3>1. p \in Requests /\ Start(p) /\ HasBudget /\ spent >= Cap
      BY <2>2, BrokeByStarting
    <3>2. req[p].tries = 0 /\ req[p].pc = "idle"
      BY <3>1 DEF IInv, Coherent, Start
    <3>3. req'[p].tries = 0
      BY <3>1, <3>2, TriesGrowByCalls DEF Call, CallAgain
    <3> QED
      BY <2>0, <3>1, <3>3
  <2> QED
    BY <2>1, <2>2
<1>3. BrokeInv => SpentCapStopsNewWork
  BY DEF BrokeInv, SpentCapStopsNewWork
<1> QED
  BY <1>1, <1>2, <1>3, Invariance, PTL DEF Spec

-----------------------------------------------------------------------------
(* A refusal is final *)

(* Once a refusal is heard no model is asked the question again, and the   *)
(* refusal is what the caller gets.                                        *)
THEOREM RefusalIsFinalTheorem == Spec => RefusalIsFinal
<1>1. IInv /\ [Next]_vars =>
        [\A q \in Requests : "refused" \in {req[q].verdict, req[q].outcome} =>
           /\ req'[q].tries = req[q].tries
           /\ "refused" \in {req'[q].verdict, req'[q].outcome}]_vars
  <2> SUFFICES ASSUME IInv, [Next]_vars, NEW p \in Requests,
                      "refused" \in {req[p].verdict, req[p].outcome}
               PROVE  /\ req'[p].tries = req[p].tries
                      /\ "refused" \in {req'[p].verdict, req'[p].outcome}
    BY Zenon
  <2> DEFINE j == req[p]
  <2>0. req \in [Requests -> Journey] /\ j \in Journey /\ Coherent(j)
    BY DEF IInv, TypeOK
  <2>1. \/ j.pc \in {"count", "rest"} /\ j.verdict = "refused"
        \/ j.pc \in {"done", "measured", "charged"} /\ j.outcome = "refused"
    BY <2>0 DEF Coherent, None
  <2>2. req'[p].tries = j.tries
    BY <2>1, TriesGrowByCalls DEF Call, CallAgain
  <2>3. ASSUME NEW k, Becomes(p, k), "refused" \in {k.verdict, k.outcome}
        PROVE  "refused" \in {req'[p].verdict, req'[p].outcome}
    BY <2>3, BecomesOnlyOne
  <2>4. CASE Tick
    BY <2>0, <2>4 DEF Tick, Journey
  <2>5. CASE Preflight \/ UNCHANGED vars
    BY <2>5 DEF Preflight, PreflightPasses, PreflightDenies, PreflightRests, vars
  <2>6. CASE \E q \in Requests \ {p} : Proceed(q) \/ Caller(q)
    BY <2>6, OthersStay
  <2>7. CASE Proceed(p) \/ Caller(p)
    <3>1. \/ CountFailure(p) \/ RestRoute(p) \/ MeasuredAfterAll(p)
      BY <2>1, <2>7 DEF Proceed, Caller, Start, PassUnfit, PassResting, FindOpen,
         PassUnaffordable, RunOutOfTime, Call, RunOutOfRoutes, Answered, Refuses,
         FailsAndWaits, FailsWithNoRoom, FailsForGood, CallAgain, Drop, ForgetFailures,
         Reopen, Undeny, SettlePriced, SettleUnpriced, SettleWithoutBudget, ChargeStream
    <3>2. ASSUME j.verdict = "refused" PROVE MovesOn(j).outcome = "refused"
      BY <3>2 DEF MovesOn, None, Ended, Fresh
    <3>3. \A n : [j EXCEPT !.pc = "rest", !.failed = n].verdict = j.verdict
      BY <2>0 DEF Journey
    <3>4. [j EXCEPT !.pc = "charged"].outcome = j.outcome
      BY <2>0 DEF Journey
    <3>5. CASE CountFailure(p)
      <4>1. j.verdict = "refused"
        BY <2>1, <3>5 DEF CountFailure
      <4> QED
        BY <2>2, <2>3, <3>2, <3>3, <3>5, <4>1 DEF CountFailure
    <3>6. CASE RestRoute(p)
      <4>1. j.verdict = "refused"
        BY <2>1, <3>6 DEF RestRoute
      <4> QED
        BY <2>2, <2>3, <3>2, <3>6, <4>1 DEF RestRoute
    <3>7. CASE MeasuredAfterAll(p)
      <4>1. j.outcome = "refused"
        BY <2>1, <3>7 DEF MeasuredAfterAll
      <4> QED
        BY <2>2, <2>3, <3>4, <3>7, <4>1 DEF MeasuredAfterAll
    <3> QED
      BY <3>1, <3>5, <3>6, <3>7
  <2> QED
    BY <2>2, <2>4, <2>5, <2>6, <2>7 DEF Next
<1> QED
  BY <1>1, Invariance, PTL DEF Spec, RefusalIsFinal

-----------------------------------------------------------------------------
(* Unmeasured calls *)

(* The steps that book a call or take it off the books. *)
Books(p) == SettleUnpriced(p) \/ MeasuredAfterAll(p)

(* Nothing else touches the books or the count. *)
LEMMA BookedByBooking ==
  ASSUME [Next]_vars, \A p \in Requests : ~Books(p)
  PROVE  UNCHANGED <<booked, unmeasured>>
<1>1. CASE UNCHANGED <<booked, unmeasured>>
  BY <1>1
<1> QED
  BY <1>1 DEF Books, Next, Tick, Preflight, PreflightPasses, PreflightDenies,
     PreflightRests, Proceed, Caller, Start, PassUnfit, PassResting, FindOpen, PassUnaffordable,
     RunOutOfTime, Call, RunOutOfRoutes, Answered, Refuses, FailsAndWaits, FailsWithNoRoom,
     FailsForGood, CallAgain, Drop, CountFailure, RestRoute, ForgetFailures, Reopen, Undeny,
     SettlePriced, ChargeStream, SettleWithoutBudget, vars, history, purse

(* The steps that end a request as served, and those that come after.      *)
Settles(p) ==
  \/ SettlePriced(p) \/ SettleUnpriced(p) \/ SettleWithoutBudget(p)
  \/ ChargeStream(p) \/ MeasuredAfterAll(p)

(* Any other step leaves a request where it was served, or not served.     *)
LEMMA ServedBySettling ==
  ASSUME IInv, [Next]_vars, NEW p \in Requests, ~Settles(p)
  PROVE  \/ req'[p].pc = req[p].pc /\ req'[p].outcome = req[p].outcome
         \/ /\ req[p].pc \notin {"settle", "done", "measured", "charged"}
            /\ req'[p].outcome # "served" /\ req'[p].pc # "measured"
<1> DEFINE j == req[p]
           Kept == req'[p].pc = j.pc /\ req'[p].outcome = j.outcome
           Unserved == /\ j.pc \notin {"settle", "done", "measured", "charged"}
                       /\ req'[p].outcome # "served" /\ req'[p].pc # "measured"
<1> SUFFICES Kept \/ Unserved
  OBVIOUS
<1>0. req \in [Requests -> Journey] /\ j \in Journey /\ Coherent(j)
  BY DEF IInv, TypeOK
<1>1. CASE Tick
  BY <1>0, <1>1 DEF Tick, Journey
<1>2. CASE Preflight \/ UNCHANGED vars
  BY <1>2 DEF Preflight, PreflightPasses, PreflightDenies, PreflightRests, vars
<1>3. CASE \E q \in Requests \ {p} : Proceed(q) \/ Caller(q)
  BY <1>3, OthersStay
<1>4. ASSUME NEW k, Becomes(p, k), j.pc \notin {"settle", "done", "measured", "charged"},
             k.outcome # "served", k.pc # "measured"
      PROVE  Unserved
  BY <1>4, BecomesOnlyOne
<1>5. ASSUME j.pc \notin {"done", "measured", "charged"} PROVE j.outcome # "served"
  BY <1>0, <1>5 DEF Coherent, None
<1>6. ASSUME NEW o, o # "served"
      PROVE  Ended(j, o).outcome # "served" /\ Ended(j, o).pc # "measured"
  BY <1>6 DEF Ended, Fresh
<1>7. CASE Start(p) \/ PassUnaffordable(p) \/ Call(p) \/ CallAgain(p)
  <2>1. ASSUME NEW k \in {[j EXCEPT !.pc = "look", !.ranked = Ranking],
                         [j EXCEPT !.overBudget = TRUE, !.pc = "look"],
                         [j EXCEPT !.pc = "calling", !.attempt = 1, !.tries = j.tries + 1],
                         [j EXCEPT !.pc = "calling", !.attempt = j.attempt + 1,
                                   !.tries = j.tries + 1]}
        PROVE  k.outcome = j.outcome /\ k.pc \in {"look", "calling"}
    BY <1>0 DEF Journey
  <2>2. j.pc \in {"idle", "afford", "sleeping"}
    BY <1>7 DEF Start, PassUnaffordable, Call, CallAgain
  <2>3. PICK k \in {[j EXCEPT !.pc = "look", !.ranked = Ranking],
                   [j EXCEPT !.overBudget = TRUE, !.pc = "look"],
                   [j EXCEPT !.pc = "calling", !.attempt = 1, !.tries = j.tries + 1],
                   [j EXCEPT !.pc = "calling", !.attempt = j.attempt + 1,
                             !.tries = j.tries + 1]} : Becomes(p, k)
    BY <1>7, Zenon DEF Start, PassUnaffordable, Call, CallAgain
  <2>4. k.outcome = j.outcome /\ k.pc \in {"look", "calling"}
    BY <2>1, <2>3
  <2> QED
    BY <1>4, <1>5, <2>2, <2>3, <2>4
<1>8. CASE PassUnfit(p) \/ PassResting(p) \/ FindOpen(p)
  <2>1. PICK r \in Routes :
          \/ Becomes(p, [j EXCEPT !.left = j.left \ {r}])
          \/ Becomes(p, [j EXCEPT !.left = j.left \ {r}, !.resting = TRUE])
          \/ Becomes(p, [j EXCEPT !.left = j.left \ {r}, !.at = r, !.pc = "afford"])
    BY <1>8, Zenon DEF PassUnfit, PassResting, FindOpen
  <2>2. j.pc = "look"
    BY <1>8 DEF PassUnfit, PassResting, FindOpen
  <2>3. /\ [j EXCEPT !.left = j.left \ {r}].outcome = j.outcome
        /\ [j EXCEPT !.left = j.left \ {r}].pc = j.pc
        /\ [j EXCEPT !.left = j.left \ {r}, !.resting = TRUE].outcome = j.outcome
        /\ [j EXCEPT !.left = j.left \ {r}, !.resting = TRUE].pc = j.pc
        /\ [j EXCEPT !.left = j.left \ {r}, !.at = r, !.pc = "afford"].outcome = j.outcome
        /\ [j EXCEPT !.left = j.left \ {r}, !.at = r, !.pc = "afford"].pc = "afford"
    BY <1>0 DEF Journey
  <2> QED
    BY <1>4, <1>5, <2>1, <2>2, <2>3
<1>9. CASE RunOutOfTime(p) \/ RunOutOfRoutes(p) \/ Drop(p)
  <2>1. j.pc \notin {"settle", "done", "measured", "charged"}
    BY <1>9 DEF RunOutOfTime, RunOutOfRoutes, Drop
  <2>2. ASSUME j.pc = "look" PROVE Verdict(j) # "served"
    <3>1. CASE j.last # None
      BY <1>0, <3>1 DEF Verdict, Journey, Failures
    <3>2. CASE j.last = None
      BY <3>2 DEF Verdict
    <3> QED
      BY <3>1, <3>2
  <2> HIDE DEF Unserved
  <2> QED
    BY <1>4, <1>6, <1>9, <2>1, <2>2 DEF RunOutOfTime, RunOutOfRoutes, Drop
<1>10. CASE \/ Answered(p) \/ Refuses(p) \/ ForgetFailures(p) \/ Reopen(p) \/ Undeny(p)
  <2>1. /\ \A step : /\ [j EXCEPT !.pc = step].outcome = j.outcome
                     /\ [j EXCEPT !.pc = step].pc = step
        /\ \A e : [j EXCEPT !.pc = "count", !.error = e, !.verdict = e].outcome = j.outcome
        /\ \A e : [j EXCEPT !.pc = "count", !.error = e, !.verdict = e].pc = "count"
    BY <1>0 DEF Journey
  <2>2. j.pc \in {"calling", "served", "reopen", "undeny"}
    BY <1>10 DEF Answered, Refuses, ForgetFailures, Reopen, Undeny
  <2>3. \/ \E step \in {"served", "reopen", "undeny", "settle"} :
             Becomes(p, [j EXCEPT !.pc = step])
        \/ Becomes(p, [j EXCEPT !.pc = "count", !.error = "refused", !.verdict = "refused"])
    BY <1>10, Zenon DEF Answered, Refuses, ForgetFailures, Reopen, Undeny
  <2> HIDE DEF Unserved
  <2> QED
    BY <1>4, <1>5, <2>1, <2>2, <2>3
<1>11. CASE FailsAndWaits(p) \/ FailsWithNoRoom(p) \/ FailsForGood(p)
  <2>1. PICK e, w :
          \/ Becomes(p, [j EXCEPT !.pc = "sleeping", !.last = e, !.asleep = w])
          \/ Becomes(p, [j EXCEPT !.pc = "count", !.error = e, !.verdict = "gave_up"])
          \/ Becomes(p, [j EXCEPT !.pc = "count", !.error = e])
    BY <1>11, Zenon DEF FailsAndWaits, FailsWithNoRoom, FailsForGood
  <2>2. j.pc = "calling"
    BY <1>11 DEF FailsAndWaits, FailsWithNoRoom, FailsForGood
  <2>3. /\ [j EXCEPT !.pc = "sleeping", !.last = e, !.asleep = w].outcome = j.outcome
        /\ [j EXCEPT !.pc = "sleeping", !.last = e, !.asleep = w].pc = "sleeping"
        /\ [j EXCEPT !.pc = "count", !.error = e, !.verdict = "gave_up"].outcome = j.outcome
        /\ [j EXCEPT !.pc = "count", !.error = e, !.verdict = "gave_up"].pc = "count"
        /\ [j EXCEPT !.pc = "count", !.error = e].outcome = j.outcome
        /\ [j EXCEPT !.pc = "count", !.error = e].pc = "count"
    BY <1>0 DEF Journey
  <2> QED
    BY <1>4, <1>5, <2>1, <2>2, <2>3
<1>12. CASE CountFailure(p) \/ RestRoute(p)
  <2>1. j.pc \in {"count", "rest"}
    BY <1>12 DEF CountFailure, RestRoute
  <2>2. MovesOn(j).outcome # "served" /\ MovesOn(j).pc # "measured"
    <3>1. CASE j.verdict # None
      BY <1>0, <1>6, <3>1 DEF MovesOn, Coherent
    <3>2. CASE j.verdict = None
      <4>1. /\ [j EXCEPT !.pc = "look", !.last = j.error, !.error = None, !.failed = 0].outcome
                 = j.outcome
            /\ [j EXCEPT !.pc = "look", !.last = j.error, !.error = None, !.failed = 0].pc
                 = "look"
        BY <1>0 DEF Journey
      <4> QED
        BY <1>5, <2>1, <3>2, <4>1 DEF MovesOn
    <3> QED
      BY <3>1, <3>2
  <2>3. \A n : /\ [j EXCEPT !.pc = "rest", !.failed = n].outcome = j.outcome
               /\ [j EXCEPT !.pc = "rest", !.failed = n].pc = "rest"
    BY <1>0 DEF Journey
  <2> HIDE DEF Unserved
  <2> QED
    BY <1>4, <1>5, <1>12, <2>1, <2>2, <2>3 DEF CountFailure, RestRoute
<1> QED
  BY <1>1, <1>2, <1>3, <1>7, <1>8, <1>9, <1>10, <1>11, <1>12
  DEF Next, Proceed, Caller, Settles

(* The books and the journeys agree: who is booked was served, and a       *)
(* streamed reply waiting to be charged, or just charged, is booked.       *)
BookInv ==
  /\ unmeasured = Cardinality(booked)
  /\ \A p \in Requests :
       /\ p \in booked => req[p].pc \in {"done", "measured"} /\ req[p].outcome = "served"
       /\ req[p].pc = "measured" => p \in booked
       /\ HasBudget /\ req[p].pc = "done" /\ req[p].outcome = "served" /\ p \in Streamed
            => p \in booked

(* Each step keeps them agreed. *)
LEMMA StepKeepsBookInv ==
  ASSUME IInv, BookInv, [Next]_vars
  PROVE  BookInv'
<1>0. /\ req \in [Requests -> Journey] /\ booked \subseteq Requests
      /\ unmeasured \in Nat /\ IsFiniteSet(booked)
  BY RouterAssumption, FS_Subset DEF IInv, TypeOK
<1>1. unmeasured' = Cardinality(booked')
  <2>1. CASE \A p \in Requests : ~Books(p)
    BY <2>1, BookedByBooking DEF BookInv
  <2>2. ASSUME NEW p \in Requests, SettleUnpriced(p)
        PROVE  unmeasured' = Cardinality(booked')
    <3>1. p \notin booked
      BY <2>2 DEF SettleUnpriced, BookInv
    <3>2. Cardinality(booked \cup {p}) = Cardinality(booked) + 1
      BY <1>0, <3>1, FS_AddElement
    <3> QED
      BY <2>2, <3>2 DEF SettleUnpriced, BookInv
  <2>3. ASSUME NEW p \in Requests, MeasuredAfterAll(p)
        PROVE  unmeasured' = Cardinality(booked')
    <3>1. p \in booked
      BY <2>3 DEF MeasuredAfterAll, BookInv
    <3>2. Cardinality(booked \ {p}) = Cardinality(booked) - 1
      BY <1>0, <3>1, FS_RemoveElement
    <3>3. unmeasured > 0
      BY <1>0, <3>1, FS_EmptySet DEF BookInv
    <3> QED
      BY <2>3, <3>2, <3>3 DEF MeasuredAfterAll, BookInv, Less
  <2> QED
    BY <2>1, <2>2, <2>3 DEF Books
<1>2. ASSUME NEW p \in Requests
      PROVE  /\ p \in booked' => req'[p].pc \in {"done", "measured"} /\ req'[p].outcome = "served"
             /\ req'[p].pc = "measured" => p \in booked'
             /\ HasBudget /\ req'[p].pc = "done" /\ req'[p].outcome = "served" /\ p \in Streamed
                  => p \in booked'
  <2> DEFINE j == req[p]
  <2>0. /\ j \in Journey /\ Coherent(j)
        /\ p \in booked => j.pc \in {"done", "measured"} /\ j.outcome = "served"
        /\ j.pc = "measured" => p \in booked
        /\ HasBudget /\ j.pc = "done" /\ j.outcome = "served" /\ p \in Streamed => p \in booked
    BY <1>0 DEF IInv, BookInv
  <2>1. ASSUME NEW k, Becomes(p, k) PROVE req'[p] = k
    BY <2>1, BecomesOnlyOne
  <2>2. Ended(j, "served").outcome = "served" /\ Ended(j, "served").pc = "done"
    BY DEF Ended, Fresh
  <2>3. CASE ~Settles(p)
    <3>1. p \in booked' <=> p \in booked
      <4>1. CASE \A q \in Requests : ~Books(q)
        BY <4>1, BookedByBooking
      <4>2. CASE \E q \in Requests \ {p} : Books(q)
        BY <4>2 DEF Books, SettleUnpriced, MeasuredAfterAll
      <4> QED
        BY <2>3, <4>1, <4>2 DEF Books, Settles
    <3> QED
      BY <2>0, <2>3, <3>1, ServedBySettling
  <2>4. CASE SettlePriced(p) \/ SettleWithoutBudget(p)
    <3>1. j.pc = "settle" /\ req'[p] = Ended(j, "served") /\ booked' = booked
      BY <2>1, <2>4 DEF SettlePriced, SettleWithoutBudget, Serve, history
    <3>2. ~HasBudget \/ p \notin Streamed
      BY <2>4 DEF SettlePriced, SettleWithoutBudget
    <3> QED
      BY <2>0, <2>2, <3>1, <3>2
  <2>5. CASE SettleUnpriced(p)
    <3>1. req'[p] = Ended(j, "served") /\ p \in booked'
      BY <2>1, <2>5 DEF SettleUnpriced, Serve
    <3> QED
      BY <2>2, <3>1
  <2>6. CASE ChargeStream(p)
    <3>1. p \in booked /\ booked' = booked /\ j.outcome = "served"
      BY <2>0, <2>6 DEF ChargeStream, CanPrice, history
    <3>2. [j EXCEPT !.pc = "measured"].pc = "measured"
           /\ [j EXCEPT !.pc = "measured"].outcome = j.outcome
      BY <2>0 DEF Journey
    <3>3. req'[p] = [j EXCEPT !.pc = "measured"]
      BY <2>1, <2>6 DEF ChargeStream
    <3> QED
      BY <3>1, <3>2, <3>3
  <2>7. CASE MeasuredAfterAll(p)
    <3>1. p \notin booked'
      BY <2>7 DEF MeasuredAfterAll
    <3>2. [j EXCEPT !.pc = "charged"].pc = "charged"
      BY <2>0 DEF Journey
    <3>3. req'[p] = [j EXCEPT !.pc = "charged"]
      BY <2>1, <2>7 DEF MeasuredAfterAll
    <3> QED
      BY <3>1, <3>2, <3>3
  <2> QED
    BY <2>3, <2>4, <2>5, <2>6, <2>7 DEF Settles
<1> QED
  BY <1>1, <1>2 DEF BookInv

(* Nothing is booked at the start. *)
LEMMA InitBookInv == Init => BookInv
BY FS_EmptySet DEF Init, BookInv, Fresh

(* The unmeasured count is the calls answered and not yet priced: pricing  *)
(* one call never clears another, and the count never wraps below zero.    *)
THEOREM UnmeasuredIsPendingTheorem == Spec => []UnmeasuredIsPending
<1>1. BookInv => UnmeasuredIsPending
  BY DEF BookInv, UnmeasuredIsPending
<1> QED
  BY <1>1, InitBookInv, StepKeepsBookInv, Invariance, PTL DEF Spec

-----------------------------------------------------------------------------
(* How far the cap is passed *)

(* A request asks a route by calling it, and stays there while it asks.    *)
LEMMA AsksWhereItCalled ==
  ASSUME IInv, NEW q \in Requests, Proceed(q) \/ Caller(q), req'[q].pc \in Asks
  PROVE  /\ req'[q].at = req[q].at
         /\ Call(q) \/ req[q].pc \in Asks
<1> DEFINE j == req[q]
<1>0. j \in Journey
  BY DEF IInv, TypeOK
<1>1. ASSUME NEW k, Becomes(q, k) PROVE req'[q] = k
  BY <1>1, BecomesOnlyOne
<1>2. \A o : Ended(j, o).pc \notin Asks
  BY DEF Ended, Fresh, Asks
<1>3. MovesOn(j).pc \notin Asks
  <2>1. [j EXCEPT !.pc = "look", !.last = j.error, !.error = None, !.failed = 0].pc = "look"
    BY <1>0 DEF Journey
  <2> QED
    BY <1>2, <2>1 DEF MovesOn, Asks
<1>4. CASE Call(q)
  <2>1. [j EXCEPT !.pc = "calling", !.attempt = 1, !.tries = j.tries + 1].at = j.at
    BY <1>0 DEF Journey
  <2> QED
    BY <1>1, <1>4, <2>1 DEF Call
<1>5. CASE CallAgain(q)
  <2>1. [j EXCEPT !.pc = "calling", !.attempt = j.attempt + 1, !.tries = j.tries + 1].at = j.at
    BY <1>0 DEF Journey
  <2> QED
    BY <1>1, <1>5, <2>1 DEF CallAgain, Asks
<1>6. CASE Start(q) \/ PassUnaffordable(q) \/ PassUnfit(q) \/ PassResting(q) \/ FindOpen(q)
  <2>1. PICK r :
          \/ Becomes(q, [j EXCEPT !.pc = "look", !.ranked = Ranking])
          \/ Becomes(q, [j EXCEPT !.overBudget = TRUE, !.pc = "look"])
          \/ j.pc = "look" /\ Becomes(q, [j EXCEPT !.left = j.left \ {r}])
          \/ j.pc = "look" /\ Becomes(q, [j EXCEPT !.left = j.left \ {r}, !.resting = TRUE])
          \/ Becomes(q, [j EXCEPT !.left = j.left \ {r}, !.at = r, !.pc = "afford"])
    BY <1>6, Zenon DEF Start, PassUnaffordable, PassUnfit, PassResting, FindOpen
  <2>2. /\ [j EXCEPT !.pc = "look", !.ranked = Ranking].pc = "look"
        /\ [j EXCEPT !.overBudget = TRUE, !.pc = "look"].pc = "look"
        /\ [j EXCEPT !.left = j.left \ {r}].pc = j.pc
        /\ [j EXCEPT !.left = j.left \ {r}, !.resting = TRUE].pc = j.pc
        /\ [j EXCEPT !.left = j.left \ {r}, !.at = r, !.pc = "afford"].pc = "afford"
    BY <1>0 DEF Journey
  <2> QED
    BY <1>1, <2>1, <2>2 DEF Asks
<1>7. CASE FailsAndWaits(q) \/ Refuses(q) \/ FailsWithNoRoom(q) \/ FailsForGood(q)
  <2>1. j.pc = "calling"
    BY <1>7 DEF FailsAndWaits, Refuses, FailsWithNoRoom, FailsForGood
  <2>2. PICK e, w :
          \/ Becomes(q, [j EXCEPT !.pc = "sleeping", !.last = e, !.asleep = w])
          \/ Becomes(q, [j EXCEPT !.pc = "count", !.error = "refused", !.verdict = "refused"])
          \/ Becomes(q, [j EXCEPT !.pc = "count", !.error = e, !.verdict = "gave_up"])
          \/ Becomes(q, [j EXCEPT !.pc = "count", !.error = e])
    BY <1>7, Zenon DEF FailsAndWaits, Refuses, FailsWithNoRoom, FailsForGood
  <2>3. /\ [j EXCEPT !.pc = "sleeping", !.last = e, !.asleep = w].at = j.at
        /\ [j EXCEPT !.pc = "count", !.error = "refused", !.verdict = "refused"].at = j.at
        /\ [j EXCEPT !.pc = "count", !.error = e, !.verdict = "gave_up"].at = j.at
        /\ [j EXCEPT !.pc = "count", !.error = e].at = j.at
    BY <1>0 DEF Journey
  <2> QED
    BY <1>1, <2>1, <2>2, <2>3 DEF Asks
<1>8. CASE Answered(q) \/ ForgetFailures(q) \/ Reopen(q) \/ Undeny(q)
  <2>1. PICK step : Becomes(q, [j EXCEPT !.pc = step])
    BY <1>8, Zenon DEF Answered, ForgetFailures, Reopen, Undeny
  <2>2. [j EXCEPT !.pc = step].at = j.at
    BY <1>0 DEF Journey
  <2>3. j.pc \in Asks
    BY <1>8 DEF Answered, ForgetFailures, Reopen, Undeny, Asks
  <2> QED
    BY <1>1, <2>1, <2>2, <2>3
<1>11. CASE ChargeStream(q) \/ MeasuredAfterAll(q)
  <2>1. /\ [j EXCEPT !.pc = "measured"].pc \notin Asks
        /\ [j EXCEPT !.pc = "charged"].pc \notin Asks
    BY <1>0 DEF Journey, Asks
  <2> QED
    BY <1>1, <1>11, <2>1 DEF ChargeStream, MeasuredAfterAll
<1>9. CASE CountFailure(q) \/ RestRoute(q)
  <2>1. [j EXCEPT !.pc = "rest", !.failed = failures[j.at] + 1].at = j.at
    BY <1>0 DEF Journey
  <2> QED
    BY <1>1, <1>3, <1>9, <2>1 DEF CountFailure, RestRoute, Asks
<1>10. CASE \/ RunOutOfTime(q) \/ RunOutOfRoutes(q) \/ Drop(q)
            \/ SettlePriced(q) \/ SettleUnpriced(q) \/ SettleWithoutBudget(q)
  BY <1>1, <1>2, <1>10 DEF RunOutOfTime, RunOutOfRoutes, Drop, SettlePriced,
     SettleUnpriced, SettleWithoutBudget, Serve
<1> QED
  BY <1>4, <1>5, <1>6, <1>7, <1>8, <1>9, <1>10, <1>11 DEF Proceed, Caller

(* Work that may still cost something. *)
Busy(p) == InFlight(p) \/ p \in booked

(* A request is in flight from its start on. *)
LEMMA FlightByStarting ==
  ASSUME IInv, [Next]_vars, NEW p \in Requests, InFlight(p)', ~Start(p)
  PROVE  InFlight(p)
<1> DEFINE j == req[p]
<1>0. req \in [Requests -> Journey] /\ j \in Journey
  BY DEF IInv, TypeOK
<1>1. CASE Tick
  BY <1>0, <1>1 DEF Tick, Journey, InFlight
<1>2. CASE Preflight \/ UNCHANGED vars
  BY <1>2 DEF Preflight, PreflightPasses, PreflightDenies, PreflightRests, vars, InFlight
<1>3. CASE \E q \in Requests \ {p} : Proceed(q) \/ Caller(q)
  BY <1>3, OthersStay DEF InFlight
<1>4. CASE ChargeStream(p) \/ MeasuredAfterAll(p)
  <2>1. /\ [j EXCEPT !.pc = "measured"].pc = "measured"
        /\ [j EXCEPT !.pc = "charged"].pc = "charged"
    BY <1>0 DEF Journey
  <2> QED
    BY <1>4, <2>1, BecomesOnlyOne DEF ChargeStream, MeasuredAfterAll, InFlight
<1>5. CASE (Proceed(p) \/ Caller(p)) /\ ~ChargeStream(p) /\ ~MeasuredAfterAll(p)
  BY <1>5 DEF Proceed, Caller, Start, PassUnfit, PassResting, FindOpen, PassUnaffordable,
     RunOutOfTime, Call, RunOutOfRoutes, Answered, Refuses, FailsAndWaits, FailsWithNoRoom,
     FailsForGood, CallAgain, Drop, CountFailure, RestRoute, ForgetFailures, Reopen, Undeny,
     SettlePriced, SettleUnpriced, SettleWithoutBudget, InFlight
<1> QED
  BY <1>1, <1>2, <1>3, <1>4, <1>5 DEF Next

(* So is its work; what is booked was in flight. *)
LEMMA BusyByStarting ==
  ASSUME IInv, [Next]_vars, NEW p \in Requests, Busy(p)', ~Start(p)
  PROVE  Busy(p)
<1>1. CASE InFlight(p)'
  BY <1>1, FlightByStarting DEF Busy
<1>2. CASE p \in booked' /\ p \notin booked
  <2>1. PICK q \in Requests : Books(q)
    BY <1>2, BookedByBooking
  <2>2. SettleUnpriced(p)
    BY <1>2, <2>1 DEF Books, SettleUnpriced, MeasuredAfterAll
  <2> QED
    BY <2>2 DEF SettleUnpriced, Busy, InFlight
<1> QED
  BY <1>1, <1>2 DEF Busy

(* Whether work ever overlapped is told when a request starts. *)
LEMMA OverlapByStarting ==
  ASSUME [Next]_vars, ~overlapped'
  PROVE  /\ ~overlapped
         /\ \A q \in Requests : Start(q) => \A p \in Requests \ {q} : ~Busy(p)
<1>1. ~overlapped
  BY DEF Next, Tick, Preflight, PreflightPasses, PreflightDenies, PreflightRests,
     Proceed, Caller, Start, PassUnfit, PassResting, FindOpen, PassUnaffordable, RunOutOfTime,
     Call, RunOutOfRoutes, Answered, Refuses, FailsAndWaits, FailsWithNoRoom, FailsForGood,
     CallAgain, Drop, CountFailure, RestRoute, ForgetFailures, Reopen, Undeny, SettlePriced,
     ChargeStream, SettleUnpriced, SettleWithoutBudget, MeasuredAfterAll, vars, history
<1>2. \A q \in Requests : Start(q) => \A p \in Requests \ {q} : ~Busy(p)
  BY DEF Start, Busy
<1> QED
  BY <1>1, <1>2

(* A call that may still be charged: in the making, or answered and booked.*)
Pending(p) == req[p].pc \in Asks \/ (req[p].pc = "done" /\ p \in booked)

(* One request after another, there is room under the cap for the reply of *)
(* the call that is pending.                                               *)
CapInv ==
  ~overlapped /\ Limited = Requests /\ PricedAsBounded =>
    /\ \A p, q \in Requests : Busy(p) /\ Busy(q) => p = q
    /\ spent <= Cap + InputBound
    /\ \A p \in Requests : Pending(p) /\ CanPrice(req[p].at) =>
         spent + ReplyBound[req[p].at] <= Cap

(* Requests start one at a time. *)
LEMMA StartsAlone ==
  ASSUME IInv, NEW p \in Requests, NEW q \in Requests, p # q, Start(p)
  PROVE  ~Start(q)
<1>1. req'[q] = req[q]
  BY OthersStay DEF Caller
<1>2. [req[q] EXCEPT !.pc = "look", !.ranked = Ranking].pc = "look"
  BY DEF IInv, TypeOK, Journey
<1> QED
  BY <1>1, <1>2, BecomesOnlyOne DEF Start

(* Work that never overlapped stays one request's. *)
LEMMA OneBusyAtATime ==
  ASSUME IInv, CapInv, [Next]_vars, ~overlapped', Limited = Requests, PricedAsBounded
  PROVE  \A p, q \in Requests : Busy(p)' /\ Busy(q)' => p = q
<1> SUFFICES ASSUME NEW p \in Requests, NEW q \in Requests, Busy(p)', Busy(q)', p # q
             PROVE  FALSE
  OBVIOUS
<1>1. ~overlapped /\ \A s \in Requests : Start(s) => \A t \in Requests \ {s} : ~Busy(t)
  BY OverlapByStarting
<1>2. CASE Start(p)
  BY <1>1, <1>2, StartsAlone, BusyByStarting
<1>3. CASE Start(q)
  BY <1>1, <1>3, StartsAlone, BusyByStarting
<1>4. CASE ~Start(p) /\ ~Start(q)
  BY <1>1, <1>4, BusyByStarting DEF CapInv
<1> QED
  BY <1>2, <1>3, <1>4

(* Who is pending was pending on the same route, or calls now with room.   *)
LEMMA PendingByCalling ==
  ASSUME IInv, BookInv, [Next]_vars, NEW p \in Requests, Pending(p)'
  PROVE  /\ req'[p].at = req[p].at
         /\ Pending(p) \/ Call(p)
<1> DEFINE j == req[p]
<1>0. req \in [Requests -> Journey] /\ j \in Journey
  BY DEF IInv, TypeOK
<1>1. CASE Tick
  <2>1. req'[p].pc = j.pc /\ req'[p].at = j.at /\ booked' = booked
    BY <1>0, <1>1 DEF Tick, Journey
  <2> QED
    BY <2>1 DEF Pending
<1>2. CASE Preflight \/ UNCHANGED vars
  <2>1. UNCHANGED <<req, booked>>
    BY <1>2 DEF Preflight, PreflightPasses, PreflightDenies, PreflightRests, vars, history
  <2> QED
    BY <2>1 DEF Pending
<1>3. CASE \E q \in Requests \ {p} : Proceed(q) \/ Caller(q)
  <2>1. req'[p] = j
    BY <1>3, OthersStay
  <2>2. ASSUME p \in booked', j.pc = "done" PROVE p \in booked
    <3>1. CASE \A q \in Requests : ~Books(q)
      BY <2>2, <3>1, BookedByBooking
    <3>2. ASSUME NEW q \in Requests, Books(q) PROVE p \in booked
      BY <2>2, <3>2 DEF Books, SettleUnpriced, MeasuredAfterAll
    <3> QED
      BY <3>1, <3>2
  <2> QED
    BY <2>1, <2>2 DEF Pending
<1>4. CASE Proceed(p) \/ Caller(p)
  <2>1. CASE req'[p].pc \in Asks
    BY <1>4, <2>1, AsksWhereItCalled DEF Pending
  <2>2. CASE req'[p].pc = "done" /\ p \in booked'
    <3>1. CASE SettleUnpriced(p)
      <4>1. req'[p] = Ended(j, "served")
        BY <3>1, BecomesOnlyOne DEF SettleUnpriced, Serve
      <4>2. Ended(j, "served").at = j.at /\ j.pc \in Asks
        BY <3>1 DEF Ended, SettleUnpriced, Asks
      <4> QED
        BY <4>1, <4>2 DEF Pending
    <3>2. CASE ~SettleUnpriced(p)
      <4>1. p \in booked
        <5>1. CASE \A q \in Requests : ~Books(q)
          BY <2>2, <5>1, BookedByBooking
        <5>2. ASSUME NEW q \in Requests, Books(q) PROVE p \in booked
          BY <2>2, <3>2, <5>2 DEF Books, SettleUnpriced, MeasuredAfterAll
        <5> QED
          BY <5>1, <5>2
      <4>2. j.pc \in {"done", "measured"}
        BY <4>1 DEF BookInv
      <4>3. ChargeStream(p) \/ MeasuredAfterAll(p)
        BY <1>4, <4>2 DEF Proceed, Caller, Start, PassUnfit, PassResting, FindOpen,
           PassUnaffordable, RunOutOfTime, Call, RunOutOfRoutes, Answered, Refuses,
           FailsAndWaits, FailsWithNoRoom, FailsForGood, CallAgain, Drop, CountFailure,
           RestRoute, ForgetFailures, Reopen, Undeny, SettlePriced, SettleUnpriced,
           SettleWithoutBudget
      <4>4. /\ [j EXCEPT !.pc = "measured"].pc = "measured"
            /\ [j EXCEPT !.pc = "charged"].pc = "charged"
        BY <1>0 DEF Journey
      <4>5. req'[p].pc # "done"
        BY <4>3, <4>4, BecomesOnlyOne DEF ChargeStream, MeasuredAfterAll
      <4> QED
        BY <2>2, <4>5
    <3> QED
      BY <3>1, <3>2
  <2> QED
    BY <2>1, <2>2 DEF Pending
<1> QED
  BY <1>1, <1>2, <1>3, <1>4 DEF Next

(* Only settling and charging spend. *)
LEMMA SpentBySettling ==
  ASSUME [Next]_vars, \A q \in Requests : ~SettlePriced(q) /\ ~ChargeStream(q)
  PROVE  spent' = spent
BY DEF Next, Tick, Preflight, PreflightPasses, PreflightDenies, PreflightRests,
   Proceed, Caller, Start, PassUnfit, PassResting, FindOpen, PassUnaffordable, RunOutOfTime,
   Call, RunOutOfRoutes, Answered, Refuses, FailsAndWaits, FailsWithNoRoom, FailsForGood,
   CallAgain, Drop, CountFailure, RestRoute, ForgetFailures, Reopen, Undeny,
   SettleUnpriced, SettleWithoutBudget, MeasuredAfterAll, vars, purse

(* Who settles or is charged was pending and is no more. *)
LEMMA SpenderWasPending ==
  ASSUME IInv, BookInv, [Next]_vars, NEW q \in Requests, SettlePriced(q) \/ ChargeStream(q)
  PROVE  Pending(q) /\ Busy(q) /\ CanPrice(req[q].at) /\ ~Pending(q)'
<1> DEFINE j == req[q]
<1>1. CASE SettlePriced(q)
  <2>1. j.pc = "settle" /\ CanPrice(j.at) /\ q \notin booked /\ booked' = booked
    BY <1>1 DEF SettlePriced, BookInv, history
  <2>2. Ended(j, "served").pc = "done"
    BY DEF Ended, Fresh
  <2>3. req'[q] = Ended(j, "served")
    BY <1>1, BecomesOnlyOne DEF SettlePriced, Serve
  <2> QED
    BY <2>1, <2>2, <2>3 DEF Pending, Busy, InFlight, Asks
<1>2. CASE ChargeStream(q)
  <2>1. j.pc = "done" /\ CanPrice(j.at) /\ q \in booked
    BY <1>2 DEF ChargeStream, BookInv, CanPrice
  <2>2. [j EXCEPT !.pc = "measured"].pc = "measured"
    BY DEF IInv, TypeOK, Journey
  <2>3. req'[q] = [j EXCEPT !.pc = "measured"]
    BY <1>2, BecomesOnlyOne DEF ChargeStream
  <2> QED
    BY <2>1, <2>2, <2>3 DEF Pending, Busy, Asks
<1> QED
  BY <1>1, <1>2

(* Time and the startup check leave every request where it is. *)
LEMMA BesideRequests ==
  ASSUME IInv, Tick \/ Preflight \/ UNCHANGED vars, NEW q \in Requests
  PROVE  /\ req'[q].pc = req[q].pc /\ req'[q].left = req[q].left /\ req'[q].at = req[q].at
         /\ req'[q].attempt = req[q].attempt
         /\ req'[q].verdict = req[q].verdict /\ req'[q].outcome = req[q].outcome
         /\ told' = told /\ failures' = failures
<1>0. req \in [Requests -> Journey]
  BY DEF IInv, TypeOK
<1>1. CASE Tick
  BY <1>0, <1>1 DEF Tick, Journey
<1>2. CASE Preflight \/ UNCHANGED vars
  <2>1. UNCHANGED <<req, told, failures>>
    BY <1>2 DEF Preflight, PreflightPasses, PreflightDenies, PreflightRests, vars, history,
       health
  <2> QED
    BY <2>1
<1> QED
  BY <1>1, <1>2

(* A reply stays where it came from. *)
LEMMA ServedStays ==
  ASSUME IInv, [Next]_vars, NEW p \in Requests, req[p].outcome = "served"
  PROVE  req'[p].outcome = "served" /\ req'[p].at = req[p].at
<1> DEFINE j == req[p]
<1>0. j \in Journey /\ j.pc \in {"done", "measured", "charged"}
  BY DEF IInv, TypeOK, Coherent, None
<1>1. CASE Tick \/ Preflight \/ UNCHANGED vars
  BY <1>1, BesideRequests
<1>2. CASE \E q \in Requests \ {p} : Proceed(q) \/ Caller(q)
  BY <1>2, OthersStay
<1>3. CASE Proceed(p) \/ Caller(p)
  <2>1. ChargeStream(p) \/ MeasuredAfterAll(p)
    BY <1>0, <1>3 DEF Proceed, Caller, Start, PassUnfit, PassResting, FindOpen,
       PassUnaffordable, RunOutOfTime, Call, RunOutOfRoutes, Answered, Refuses,
       FailsAndWaits, FailsWithNoRoom, FailsForGood, CallAgain, Drop, CountFailure,
       RestRoute, ForgetFailures, Reopen, Undeny, SettlePriced, SettleUnpriced,
       SettleWithoutBudget
  <2>2. ASSUME NEW step \in {"measured", "charged"}
        PROVE  [j EXCEPT !.pc = step].outcome = j.outcome /\ [j EXCEPT !.pc = step].at = j.at
    BY <1>0 DEF Journey
  <2> QED
    BY <2>1, <2>2, BecomesOnlyOne DEF ChargeStream, MeasuredAfterAll
<1> QED
  BY <1>1, <1>2, <1>3 DEF Next

(* So no reply was priced above its bound before if none is after, the one *)
(* that is charged by this step included.                                  *)
LEMMA PricedBefore ==
  ASSUME IInv, [Next]_vars, PricedAsBounded'
  PROVE  /\ PricedAsBounded
         /\ \A q \in Requests : SettlePriced(q) \/ ChargeStream(q) =>
              ReplyCost[req[q].at] <= ReplyBound[req[q].at]
<1>1. PricedAsBounded
  BY ServedStays DEF PricedAsBounded
<1>2. ASSUME NEW q \in Requests, SettlePriced(q) \/ ChargeStream(q)
      PROVE  ReplyCost[req[q].at] <= ReplyBound[req[q].at]
  <2>1. CASE SettlePriced(q)
    <3>1. req'[q] = Ended(req[q], "served")
      BY <2>1, BecomesOnlyOne DEF SettlePriced, Serve
    <3>2. Ended(req[q], "served").outcome = "served" /\ Ended(req[q], "served").at = req[q].at
      BY DEF Ended, Fresh
    <3> QED
      BY <3>1, <3>2 DEF PricedAsBounded
  <2>2. CASE ChargeStream(q)
    BY <1>1, <2>2 DEF ChargeStream, PricedAsBounded
  <2> QED
    BY <1>2, <2>1, <2>2
<1> QED
  BY <1>1, <1>2

(* Each step keeps room for the reply that is pending. *)
LEMMA StepKeepsCapInv ==
  ASSUME IInv, IInv', BookInv, CapInv, [Next]_vars
  PROVE  CapInv'
<1> SUFFICES ASSUME ~overlapped', Limited = Requests, PricedAsBounded'
             PROVE  /\ \A p, q \in Requests : Busy(p)' /\ Busy(q)' => p = q
                    /\ spent' <= Cap + InputBound
                    /\ \A p \in Requests : Pending(p)' /\ CanPrice(req'[p].at) =>
                         spent' + ReplyBound[req'[p].at] <= Cap
  BY DEF CapInv
<1>00. PricedAsBounded
  BY PricedBefore
<1>0. /\ ~overlapped /\ spent <= Cap + InputBound
      /\ \A p, q \in Requests : Busy(p) /\ Busy(q) => p = q
      /\ \A p \in Requests : Pending(p) /\ CanPrice(req[p].at) =>
           spent + ReplyBound[req[p].at] <= Cap
      /\ spent \in Nat /\ spent' \in Nat /\ Cap \in Nat /\ InputBound \in Nat
      /\ \A r \in Routes : ReplyBound[r] \in Nat /\ ReplyCost[r] \in Nat
  BY <1>00, OverlapByStarting, RouterAssumption DEF CapInv, IInv, TypeOK
<1>1. \A p, q \in Requests : Busy(p)' /\ Busy(q)' => p = q
  BY <1>00, OneBusyAtATime
<1>2. ASSUME NEW p \in Requests, Pending(p)'
      PROVE  /\ req'[p].at = req[p].at /\ Busy(p)
             /\ CanPrice(req[p].at) => spent + ReplyBound[req[p].at] <= Cap
  <2>1. req'[p].at = req[p].at /\ (Pending(p) \/ Call(p))
    BY <1>2, PendingByCalling
  <2>2. Busy(p)
    BY <2>1 DEF Pending, Call, Busy, InFlight, Asks
  <2>3. ASSUME Call(p), CanPrice(req[p].at) PROVE spent + ReplyBound[req[p].at] <= Cap
    <3>1. req[p].at \in Routes
      BY <2>3 DEF IInv, Coherent, Call
    <3> QED
      BY <1>0, <2>3, <3>1 DEF Call, Unaffordable, CanPrice, Remaining
  <2> QED
    BY <1>0, <2>1, <2>2, <2>3
<1>3. CASE \A q \in Requests : ~SettlePriced(q) /\ ~ChargeStream(q)
  <2>1. spent' = spent
    BY <1>3, SpentBySettling
  <2> QED
    BY <1>0, <1>1, <1>2, <2>1
<1>4. ASSUME NEW q \in Requests, SettlePriced(q) \/ ChargeStream(q)
      PROVE  /\ spent' <= Cap + InputBound
             /\ \A p \in Requests : ~Pending(p)'
  <2>1. Pending(q) /\ Busy(q) /\ CanPrice(req[q].at) /\ ~Pending(q)'
    BY <1>4, SpenderWasPending
  <2>2. req[q].at \in Routes
    BY <1>4, <2>1 DEF IInv, Coherent, Pending, Asks, SettlePriced, ChargeStream
  <2>3. PICK amount \in Amounts(q, req[q].at) : spent' = spent + amount
    BY <1>4 DEF SettlePriced, ChargeStream
  <2>4. spent + ReplyBound[req[q].at] <= Cap
    BY <1>0, <2>1
  <2>5. spent' <= Cap + InputBound
    <3>1. ReplyCost[req[q].at] <= ReplyBound[req[q].at]
      BY <1>4, PricedBefore
    <3> QED
      BY <1>0, <2>2, <2>3, <2>4, <3>1 DEF Amounts
  <2> QED
    BY <1>0, <1>2, <2>1, <2>5
<1> QED
  BY <1>1, <1>3, <1>4

(* One request after another, each with its reply limited, the spending    *)
(* passes the cap by the input of one call at most: the check before the   *)
(* call bounds the reply, and nobody else spends before it is charged.     *)
THEOREM OvershootsByInputOnlyTheorem == Spec => []OvershootsByInputOnly
<1>1. Init => CapInv
  BY RouterAssumption DEF Init, CapInv, Busy, InFlight, Pending, Fresh, Asks
<1>2. CapInv => OvershootsByInputOnly
  BY DEF CapInv, OvershootsByInputOnly
<1> QED
  BY <1>1, <1>2, InitBookInv, StepKeepsBookInv, StepKeepsCapInv, Invariance, PTL DEF Spec

-----------------------------------------------------------------------------
(***************************************************************************)
(* Part 3.  Waits, rests and failures, and the promise one request keeps.  *)
(***************************************************************************)

-----------------------------------------------------------------------------
(* What one step makes of the request it moves *)

(* The steps on which the route at hand is not counted against yet. *)
AtHand == {"afford", "calling", "sleeping", "count"}

TakesUp(j, k) ==
  /\ j.pc = "look" /\ k.pc = "afford"
  /\ k.at \in j.left /\ k.left = j.left \ {k.at}
  /\ k.attempt = j.attempt

AsksNow(j, k) ==
  /\ \/ j.pc = "afford" /\ k.attempt = 1
     \/ j.pc = "sleeping" /\ j.asleep = 0 /\ k.attempt = j.attempt + 1
  /\ k.pc = "calling"
  /\ k.left = j.left /\ k.at = j.at

HearsFailure(j, k) ==
  /\ j.pc = "calling" /\ k.pc \in {"sleeping", "count"}
  /\ k.left = j.left /\ k.at = j.at /\ k.attempt = j.attempt

LetsGo(j, k) ==
  /\ k.pc \notin AtHand \cup {"idle"}
  /\ k.left \subseteq j.left
  /\ k.attempt \in {0, j.attempt}

(* A request that ends, or moves on, lets go of the route. *)
LEMMA EndingLetsGo ==
  ASSUME NEW j \in Journey
  PROVE  /\ \A o : LetsGo(j, Ended(j, o))
         /\ LetsGo(j, MovesOn(j))
<1>1. \A o : LetsGo(j, Ended(j, o))
  BY DEF LetsGo, Ended, Fresh, AtHand
<1>2. LetsGo(j, [j EXCEPT !.pc = "look", !.last = j.error, !.error = None, !.failed = 0])
  BY DEF LetsGo, Journey, AtHand
<1> QED
  BY <1>1, <1>2 DEF MovesOn

(* A route found open is taken up: it is not left to be found again. *)
LEMMA FindingTakesUp ==
  ASSUME IInv, NEW q \in Requests, FindOpen(q)
  PROVE  TakesUp(req[q], req'[q])
<1> DEFINE j == req[q]
<1>0. j \in Journey
  BY DEF IInv, TypeOK
<1>1. PICK r \in Routes :
        r \in j.left /\ Becomes(q, [j EXCEPT !.left = j.left \ {r}, !.at = r, !.pc = "afford"])
  BY Zenon DEF FindOpen, NextUp
<1>2. j.pc = "look"
  BY DEF FindOpen
<1>3. TakesUp(j, [j EXCEPT !.left = j.left \ {r}, !.at = r, !.pc = "afford"])
  BY <1>0, <1>1, <1>2 DEF TakesUp, Journey
<1> QED
  BY <1>1, <1>3, BecomesOnlyOne

(* Each step takes a route up, asks it, hears a failure or lets it go.     *)
LEMMA StepOfOne ==
  ASSUME IInv, NEW q \in Requests, Proceed(q) \/ Caller(q)
  PROVE  \/ FindOpen(q) /\ TakesUp(req[q], req'[q])
         \/ (Call(q) \/ CallAgain(q)) /\ AsksNow(req[q], req'[q])
         \/ /\ FailsAndWaits(q) \/ Refuses(q) \/ FailsWithNoRoom(q) \/ FailsForGood(q)
            /\ HearsFailure(req[q], req'[q])
         \/ LetsGo(req[q], req'[q])
<1> DEFINE j == req[q]
<1>0. j \in Journey
  BY DEF IInv, TypeOK
<1>1. ASSUME NEW k, Becomes(q, k) PROVE req'[q] = k
  BY <1>1, BecomesOnlyOne
<1>2. \A o : LetsGo(j, Ended(j, o))
  BY <1>0, EndingLetsGo
<1>3. LetsGo(j, MovesOn(j))
  BY <1>0, EndingLetsGo
<1>4. CASE FindOpen(q)
  BY <1>4, FindingTakesUp
<1>5. CASE Call(q) \/ CallAgain(q)
  <2>1. ASSUME j.pc = "afford"
        PROVE  AsksNow(j, [j EXCEPT !.pc = "calling", !.attempt = 1, !.tries = j.tries + 1])
    BY <1>0, <2>1 DEF AsksNow, Journey
  <2>2. ASSUME j.pc = "sleeping", j.asleep = 0
        PROVE  AsksNow(j, [j EXCEPT !.pc = "calling", !.attempt = j.attempt + 1,
                                    !.tries = j.tries + 1])
    BY <1>0, <2>2 DEF AsksNow, Journey
  <2> QED
    BY <1>1, <1>5, <2>1, <2>2 DEF Call, CallAgain
<1>6. CASE FailsAndWaits(q) \/ Refuses(q) \/ FailsWithNoRoom(q) \/ FailsForGood(q)
  <2>1. j.pc = "calling"
    BY <1>6 DEF FailsAndWaits, Refuses, FailsWithNoRoom, FailsForGood
  <2>2. PICK e, w :
          \/ Becomes(q, [j EXCEPT !.pc = "sleeping", !.last = e, !.asleep = w])
          \/ Becomes(q, [j EXCEPT !.pc = "count", !.error = "refused", !.verdict = "refused"])
          \/ Becomes(q, [j EXCEPT !.pc = "count", !.error = e, !.verdict = "gave_up"])
          \/ Becomes(q, [j EXCEPT !.pc = "count", !.error = e])
    BY <1>6, Zenon DEF FailsAndWaits, Refuses, FailsWithNoRoom, FailsForGood
  <2>3. /\ HearsFailure(j, [j EXCEPT !.pc = "sleeping", !.last = e, !.asleep = w])
        /\ HearsFailure(j, [j EXCEPT !.pc = "count", !.error = "refused", !.verdict = "refused"])
        /\ HearsFailure(j, [j EXCEPT !.pc = "count", !.error = e, !.verdict = "gave_up"])
        /\ HearsFailure(j, [j EXCEPT !.pc = "count", !.error = e])
    BY <1>0, <2>1 DEF HearsFailure, Journey
  <2> QED
    BY <1>1, <1>6, <2>2, <2>3
<1>7. CASE PassUnfit(q) \/ PassResting(q)
  <2>1. PICK r \in Routes :
          \/ Becomes(q, [j EXCEPT !.left = j.left \ {r}])
          \/ Becomes(q, [j EXCEPT !.left = j.left \ {r}, !.resting = TRUE])
    BY <1>7, Zenon DEF PassUnfit, PassResting
  <2>2. j.pc = "look"
    BY <1>7 DEF PassUnfit, PassResting
  <2>3. /\ LetsGo(j, [j EXCEPT !.left = j.left \ {r}])
        /\ LetsGo(j, [j EXCEPT !.left = j.left \ {r}, !.resting = TRUE])
    BY <1>0, <2>2 DEF LetsGo, Journey, AtHand
  <2> QED
    BY <1>1, <2>1, <2>3
<1>8. CASE Start(q) \/ PassUnaffordable(q)
  <2>1. /\ LetsGo(j, [j EXCEPT !.pc = "look", !.ranked = Ranking])
        /\ LetsGo(j, [j EXCEPT !.overBudget = TRUE, !.pc = "look"])
    BY <1>0 DEF LetsGo, Journey, AtHand
  <2>2. \/ Becomes(q, [j EXCEPT !.pc = "look", !.ranked = Ranking])
        \/ Becomes(q, [j EXCEPT !.overBudget = TRUE, !.pc = "look"])
    BY <1>8, Zenon DEF Start, PassUnaffordable
  <2> QED
    BY <1>1, <2>1, <2>2
<1>9. CASE \/ Answered(q) \/ ForgetFailures(q) \/ Reopen(q) \/ Undeny(q)
           \/ ChargeStream(q) \/ MeasuredAfterAll(q)
  <2>1. ASSUME NEW step \in {"served", "reopen", "undeny", "settle", "measured", "charged"}
        PROVE  LetsGo(j, [j EXCEPT !.pc = step])
    BY <1>0 DEF LetsGo, Journey, AtHand
  <2> QED
    BY <1>1, <1>9, <2>1 DEF Answered, ForgetFailures, Reopen, Undeny, ChargeStream,
       MeasuredAfterAll
<1>10. CASE \/ RunOutOfTime(q) \/ RunOutOfRoutes(q) \/ Drop(q)
            \/ SettlePriced(q) \/ SettleUnpriced(q) \/ SettleWithoutBudget(q)
  BY <1>1, <1>2, <1>10 DEF RunOutOfTime, RunOutOfRoutes, Drop, SettlePriced,
     SettleUnpriced, SettleWithoutBudget, Serve
<1>11. CASE CountFailure(q) \/ RestRoute(q)
  <2>1. LetsGo(j, [j EXCEPT !.pc = "rest", !.failed = failures[j.at] + 1])
    BY <1>0 DEF LetsGo, Journey, AtHand
  <2> QED
    BY <1>1, <1>3, <1>11, <2>1 DEF CountFailure, RestRoute
<1> QED
  BY <1>4, <1>5, <1>6, <1>7, <1>8, <1>9, <1>10, <1>11 DEF Proceed, Caller

-----------------------------------------------------------------------------
(* One failure per request *)

Counted(r) == {q \in Requests : r \in told[q]}

(* A route counted against is never taken up again, and the one at hand is *)
(* not counted yet: so counting it adds a request that was not there.      *)
ToldInv ==
  /\ \A q \in Requests : told[q] \cap req[q].left = {}
  /\ \A q \in Requests : req[q].pc \in AtHand => req[q].at \notin req[q].left \cup told[q]

(* Only counting tells. *)
LEMMA ToldByCounting ==
  ASSUME IInv, [Next]_vars, NEW q \in Requests, ~CountFailure(q)
  PROVE  told'[q] = told[q]
<1>0. told \in [Requests -> SUBSET Routes]
  BY DEF IInv, TypeOK
<1>1. CASE UNCHANGED told
  BY <1>1
<1>2. ASSUME NEW p \in Requests \ {q}, CountFailure(p)
      PROVE  told'[q] = told[q]
  BY <1>0, <1>2 DEF CountFailure
<1> QED
  BY <1>1, <1>2 DEF Next, Tick, Preflight, PreflightPasses, PreflightDenies, PreflightRests,
     Proceed, Caller, Start, PassUnfit, PassResting, FindOpen, PassUnaffordable, RunOutOfTime,
     Call, RunOutOfRoutes, Answered, Refuses, FailsAndWaits, FailsWithNoRoom, FailsForGood,
     CallAgain, Drop, RestRoute, ForgetFailures, Reopen, Undeny, SettlePriced, ChargeStream,
     SettleUnpriced, SettleWithoutBudget, MeasuredAfterAll, vars, history

(* Only counting and being served change the count of a route. *)
LEMMA FailuresByCounting ==
  ASSUME IInv, [Next]_vars, \A q \in Requests : ~CountFailure(q)
  PROVE  \A r \in Routes : failures'[r] \in {0, failures[r]}
<1>0. failures \in [Routes -> Nat]
  BY DEF IInv, TypeOK
<1>1. CASE UNCHANGED failures
  BY <1>1
<1>2. ASSUME NEW p \in Requests, ForgetFailures(p)
      PROVE  \A r \in Routes : failures'[r] \in {0, failures[r]}
  BY <1>0, <1>2 DEF ForgetFailures
<1> QED
  BY <1>1, <1>2 DEF Next, Tick, Preflight, PreflightPasses, PreflightDenies, PreflightRests,
     Proceed, Caller, Start, PassUnfit, PassResting, FindOpen, PassUnaffordable, RunOutOfTime,
     Call, RunOutOfRoutes, Answered, Refuses, FailsAndWaits, FailsWithNoRoom, FailsForGood,
     CallAgain, Drop, RestRoute, Reopen, Undeny, SettlePriced, ChargeStream,
     SettleUnpriced, SettleWithoutBudget, MeasuredAfterAll, vars, health

(* Counting lets the route go: it is not at hand any more. *)
LEMMA CountingLetsGo ==
  ASSUME IInv, NEW q \in Requests, CountFailure(q)
  PROVE  /\ req[q].pc = "count" /\ LetsGo(req[q], req'[q])
         /\ told'[q] = told[q] \cup {req[q].at}
         /\ failures' = [failures EXCEPT ![req[q].at] = failures[req[q].at] + 1]
<1>1. /\ req[q].pc = "count"
      /\ told'[q] = told[q] \cup {req[q].at}
      /\ failures' = [failures EXCEPT ![req[q].at] = failures[req[q].at] + 1]
  BY DEF CountFailure, IInv, TypeOK
<1>2. LetsGo(req[q], req'[q])
  BY <1>1, StepOfOne DEF Proceed, FindOpen, Call, CallAgain, FailsAndWaits, Refuses,
     FailsWithNoRoom, FailsForGood
<1> QED
  BY <1>1, <1>2

(* Each step keeps the routes told of apart from those to come. *)
LEMMA StepKeepsToldInv ==
  ASSUME IInv, ToldInv, [Next]_vars
  PROVE  ToldInv'
<1> SUFFICES ASSUME NEW q \in Requests
             PROVE  /\ told'[q] \cap req'[q].left = {}
                    /\ req'[q].pc \in AtHand => req'[q].at \notin req'[q].left \cup told'[q]
  BY DEF ToldInv
<1>0. /\ told[q] \cap req[q].left = {}
      /\ req[q].pc \in AtHand => req[q].at \notin req[q].left \cup told[q]
      /\ told \in [Requests -> SUBSET Routes]
  BY DEF ToldInv, IInv, TypeOK
<1>1. CASE Tick \/ Preflight \/ UNCHANGED vars
  BY <1>0, <1>1, BesideRequests
<1>2. CASE CountFailure(q)
  BY <1>0, <1>2, CountingLetsGo DEF LetsGo, AtHand
<1>3. CASE ~CountFailure(q) /\ \E p \in Requests \ {q} : Proceed(p) \/ Caller(p)
  BY <1>0, <1>3, OthersStay, ToldByCounting
<1>4. CASE ~CountFailure(q) /\ (Proceed(q) \/ Caller(q))
  BY <1>0, <1>4, StepOfOne, ToldByCounting DEF TakesUp, AsksNow, HearsFailure, LetsGo, AtHand
<1> QED
  BY <1>1, <1>2, <1>3, <1>4 DEF Next

(* One failure counts each request once for each route, whatever the       *)
(* attempts: the breaker's "one piece of evidence, not three".             *)
THEOREM OneFailurePerRequestTheorem == Spec => []OneFailurePerRequest
<1> DEFINE Bounded == \A r \in Routes : failures[r] <= Cardinality(Counted(r))
<1>1. Init => ToldInv /\ Bounded
  <2> SUFFICES ASSUME Init PROVE ToldInv /\ Bounded
    OBVIOUS
  <2>1. ToldInv
    BY DEF Init, ToldInv, Fresh, AtHand
  <2>2. ASSUME NEW r \in Routes PROVE failures[r] <= Cardinality(Counted(r))
    <3>1. IsFiniteSet(Counted(r))
      BY RouterAssumption, FS_Subset DEF Counted
    <3>2. Cardinality(Counted(r)) \in Nat
      BY <3>1, FS_CardinalityType
    <3> QED
      BY <3>2 DEF Init
  <2> QED
    BY <2>1, <2>2
<1>2. IInv /\ ToldInv /\ Bounded /\ [Next]_vars => ToldInv' /\ Bounded'
  <2> SUFFICES ASSUME IInv, ToldInv, Bounded, [Next]_vars, NEW r \in Routes
               PROVE  failures'[r] <= Cardinality(Counted(r)')
    BY StepKeepsToldInv
  <2>0. /\ failures \in [Routes -> Nat] /\ failures[r] <= Cardinality(Counted(r))
        /\ IsFiniteSet(Counted(r)) /\ Cardinality(Counted(r)) \in Nat
    <3>1. IsFiniteSet(Counted(r))
      BY RouterAssumption, FS_Subset DEF Counted
    <3> QED
      BY <3>1, FS_CardinalityType DEF IInv, TypeOK
  <2>1. CASE \A q \in Requests : ~CountFailure(q)
    <3>1. Counted(r)' = Counted(r)
      BY <2>1, ToldByCounting DEF Counted
    <3>2. failures'[r] \in {0, failures[r]}
      BY <2>1, FailuresByCounting
    <3> QED
      BY <2>0, <3>1, <3>2
  <2>2. ASSUME NEW q \in Requests, CountFailure(q)
        PROVE  failures'[r] <= Cardinality(Counted(r)')
    <3>1. \A p \in Requests \ {q} : told'[p] = told[p]
      BY <2>2 DEF CountFailure, IInv, TypeOK
    <3>2. CASE r = req[q].at
      <4>1. Counted(r)' = Counted(r) \cup {q}
        BY <2>2, <3>1, <3>2, CountingLetsGo DEF Counted
      <4>2. q \notin Counted(r)
        BY <2>2, <3>2, CountingLetsGo DEF Counted, ToldInv, AtHand
      <4>3. Cardinality(Counted(r)') = Cardinality(Counted(r)) + 1
        BY <2>0, <4>1, <4>2, FS_AddElement
      <4>4. failures'[r] = failures[r] + 1
        BY <2>0, <2>2, <3>2, CountingLetsGo
      <4> QED
        BY <2>0, <4>3, <4>4
    <3>3. CASE r # req[q].at
      <4>1. Counted(r)' = Counted(r)
        BY <2>2, <3>1, <3>3, CountingLetsGo DEF Counted
      <4>2. failures'[r] = failures[r]
        BY <2>0, <2>2, <3>3, CountingLetsGo
      <4> QED
        BY <2>0, <4>1, <4>2
    <3> QED
      BY <3>2, <3>3
  <2> QED
    BY <2>1, <2>2
<1>3. Bounded => OneFailurePerRequest
  BY DEF OneFailurePerRequest, Counted
<1> QED
  BY <1>1, <1>2, <1>3, Invariance, PTL DEF Spec

-----------------------------------------------------------------------------
(* Rests *)

(* A rest remembered is no longer than the one there is, and nobody has    *)
(* heard from the route anything that would change it.                     *)
FoundInv ==
  /\ \A q \in Requests : \A r \in Routes :
       found[q][r] = 0 \/ (found[q][r] <= rests[r] /\ ~Recording(r))
  /\ \A q \in Requests : req[q].pc \in {"afford", "calling", "sleeping"} =>
       found[q][req[q].at] = 0

(* A request has something to tell of its route once it heard from it.     *)
LEMMA TellingByHearing ==
  ASSUME IInv, NEW p \in Requests, Proceed(p) \/ Caller(p), Telling(p)'
  PROVE  \/ Telling(p) /\ req'[p].at = req[p].at
         \/ HeardFrom(req'[p].at)
<1> DEFINE j == req[p]
<1>0. j \in Journey
  BY DEF IInv, TypeOK
<1>1. ASSUME NEW k, Becomes(p, k) PROVE req'[p] = k
  BY <1>1, BecomesOnlyOne
<1>2. req'[p].pc \in {"served", "reopen", "count", "rest"}
  BY DEF Telling
<1>3. CASE Answered(p)
  <2>1. [j EXCEPT !.pc = "served"].at = j.at
    BY <1>0 DEF Journey
  <2> QED
    BY <1>1, <1>3, <2>1 DEF Answered
<1>4. CASE Refuses(p)
  <2>1. LET k == [j EXCEPT !.pc = "count", !.error = "refused", !.verdict = "refused"]
        IN  k.pc = "count" /\ k.error = "refused"
    BY <1>0 DEF Journey
  <2> QED
    BY <1>1, <1>4, <2>1 DEF Refuses, Telling, Opens
<1>5. CASE FailsWithNoRoom(p)
  <2>1. PICK e : Becomes(p, [j EXCEPT !.pc = "count", !.error = e, !.verdict = "gave_up"])
    BY <1>5, Zenon DEF FailsWithNoRoom
  <2>2. [j EXCEPT !.pc = "count", !.error = e, !.verdict = "gave_up"].at = j.at
    BY <1>0 DEF Journey
  <2> QED
    BY <1>1, <1>5, <2>1, <2>2 DEF FailsWithNoRoom
<1>6. CASE FailsForGood(p)
  <2>1. PICK e : /\ Becomes(p, [j EXCEPT !.pc = "count", !.error = e])
                 /\ Opens(e) => HeardFrom(j.at)
    BY <1>6, Zenon DEF FailsForGood
  <2>2. LET k == [j EXCEPT !.pc = "count", !.error = e]
        IN  k.at = j.at /\ k.pc = "count" /\ k.error = e
    BY <1>0 DEF Journey
  <2> QED
    BY <1>1, <2>1, <2>2 DEF Telling
<1>7. CASE CountFailure(p)
  <2>1. j.pc = "count"
    BY <1>7 DEF CountFailure
  <2>2. MovesOn(j).pc \in {"done", "look"}
    BY <1>0 DEF MovesOn, Ended, Fresh, Journey
  <2>3. req'[p] = [j EXCEPT !.pc = "rest", !.failed = failures[j.at] + 1]
    BY <1>1, <1>2, <1>7, <2>2 DEF CountFailure
  <2>4. LET k == [j EXCEPT !.pc = "rest", !.failed = failures[j.at] + 1]
        IN  k.at = j.at /\ k.pc = "rest" /\ k.error = j.error
    BY <1>0 DEF Journey
  <2> QED
    BY <2>1, <2>3, <2>4 DEF Telling
<1>8. CASE ForgetFailures(p)
  <2>1. [j EXCEPT !.pc = "reopen"].at = j.at
    BY <1>0 DEF Journey
  <2> QED
    BY <1>1, <1>8, <2>1 DEF ForgetFailures, Telling
<1>9. CASE \/ RestRoute(p) \/ RunOutOfTime(p) \/ RunOutOfRoutes(p) \/ Drop(p)
           \/ SettlePriced(p) \/ SettleUnpriced(p) \/ SettleWithoutBudget(p)
  <2>1. \A o : Ended(j, o).pc = "done"
    BY DEF Ended, Fresh
  <2>2. MovesOn(j).pc \in {"done", "look"}
    BY <1>0, <2>1 DEF MovesOn, Journey
  <2> QED
    BY <1>1, <1>2, <1>9, <2>1, <2>2 DEF RestRoute, RunOutOfTime, RunOutOfRoutes, Drop,
       SettlePriced, SettleUnpriced, SettleWithoutBudget, Serve
<1>10. CASE Start(p) \/ PassUnaffordable(p) \/ Call(p) \/ CallAgain(p) \/ FailsAndWaits(p)
  <2>1. PICK e, w :
          \/ Becomes(p, [j EXCEPT !.pc = "look", !.ranked = Ranking])
          \/ Becomes(p, [j EXCEPT !.overBudget = TRUE, !.pc = "look"])
          \/ Becomes(p, [j EXCEPT !.pc = "calling", !.attempt = 1, !.tries = j.tries + 1])
          \/ Becomes(p, [j EXCEPT !.pc = "calling", !.attempt = j.attempt + 1,
                                  !.tries = j.tries + 1])
          \/ Becomes(p, [j EXCEPT !.pc = "sleeping", !.last = e, !.asleep = w])
    BY <1>10, Zenon DEF Start, PassUnaffordable, Call, CallAgain, FailsAndWaits
  <2>2. /\ [j EXCEPT !.pc = "look", !.ranked = Ranking].pc = "look"
        /\ [j EXCEPT !.overBudget = TRUE, !.pc = "look"].pc = "look"
        /\ [j EXCEPT !.pc = "calling", !.attempt = 1, !.tries = j.tries + 1].pc = "calling"
        /\ [j EXCEPT !.pc = "calling", !.attempt = j.attempt + 1,
                     !.tries = j.tries + 1].pc = "calling"
        /\ [j EXCEPT !.pc = "sleeping", !.last = e, !.asleep = w].pc = "sleeping"
    BY <1>0 DEF Journey
  <2> QED
    BY <1>1, <1>2, <2>1, <2>2
<1>11. CASE PassUnfit(p) \/ PassResting(p) \/ FindOpen(p)
  <2>1. PICK r \in Routes :
          \/ Becomes(p, [j EXCEPT !.left = j.left \ {r}])
          \/ Becomes(p, [j EXCEPT !.left = j.left \ {r}, !.resting = TRUE])
          \/ Becomes(p, [j EXCEPT !.left = j.left \ {r}, !.at = r, !.pc = "afford"])
    BY <1>11, Zenon DEF PassUnfit, PassResting, FindOpen
  <2>2. j.pc = "look"
    BY <1>11 DEF PassUnfit, PassResting, FindOpen
  <2>3. /\ [j EXCEPT !.left = j.left \ {r}].pc = j.pc
        /\ [j EXCEPT !.left = j.left \ {r}, !.resting = TRUE].pc = j.pc
        /\ [j EXCEPT !.left = j.left \ {r}, !.at = r, !.pc = "afford"].pc = "afford"
    BY <1>0 DEF Journey
  <2> QED
    BY <1>1, <1>2, <2>1, <2>2, <2>3
<1>12. CASE Reopen(p) \/ Undeny(p) \/ ChargeStream(p) \/ MeasuredAfterAll(p)
  <2>1. \A step : [j EXCEPT !.pc = step].pc = step
    BY <1>0 DEF Journey
  <2> QED
    BY <1>1, <1>2, <1>12, <2>1 DEF Reopen, Undeny, ChargeStream, MeasuredAfterAll
<1> QED
  BY <1>3, <1>4, <1>5, <1>6, <1>7, <1>8, <1>9, <1>10, <1>11, <1>12 DEF Proceed, Caller

(* What a rest is changed by is recorded by somebody, and whoever begins   *)
(* to record has just heard from the route.                                *)
LEMMA RecordingByHearing ==
  ASSUME IInv, [Next]_vars, NEW r \in Routes, Recording(r)'
  PROVE  Recording(r) \/ HeardFrom(r)
<1>1. CASE preflight'.at = r /\ preflight'.pc = "rest"
  <2>1. CASE UNCHANGED preflight
    BY <1>1, <2>1 DEF Recording
  <2>2. CASE Preflight
    <3>1. CASE PreflightDenies
      <4>1. preflight'.at = preflight.at
        BY <3>1 DEF PreflightDenies, IInv, TypeOK
      <4> QED
        BY <1>1, <3>1, <4>1 DEF PreflightDenies
    <3>2. CASE PreflightPasses \/ PreflightRests
      BY <1>1, <3>2 DEF PreflightPasses, PreflightRests, PreflightMoves
    <3> QED
      BY <2>2, <3>1, <3>2 DEF Preflight
  <2> QED
    BY <2>1, <2>2 DEF Next, Tick, Proceed, Caller, Start, PassUnfit, PassResting, FindOpen,
       PassUnaffordable, RunOutOfTime, Call, RunOutOfRoutes, Answered, Refuses, FailsAndWaits,
       FailsWithNoRoom, FailsForGood, CallAgain, Drop, CountFailure, RestRoute,
       ForgetFailures, Reopen, Undeny, SettlePriced, SettleUnpriced, SettleWithoutBudget,
       ChargeStream, MeasuredAfterAll, vars
<1>2. ASSUME NEW p \in Requests, req'[p].at = r, Telling(p)'
      PROVE  Recording(r) \/ HeardFrom(r)
  <2>1. CASE Proceed(p) \/ Caller(p)
    BY <1>2, <2>1, TellingByHearing DEF Recording
  <2>2. CASE \E q \in Requests \ {p} : Proceed(q) \/ Caller(q)
    <3>1. req'[p] = req[p]
      BY <2>2, OthersStay
    <3> QED
      BY <1>2, <3>1 DEF Recording, Telling
  <2>3. CASE Tick
    <3>1. req'[p].at = req[p].at /\ req'[p].pc = req[p].pc /\ req'[p].error = req[p].error
      BY ZenonT(40), <2>3 DEF Tick, IInv, TypeOK, Journey
    <3> QED
      BY <1>2, <3>1 DEF Recording, Telling
  <2>4. CASE Preflight \/ UNCHANGED vars
    <3>1. req'[p] = req[p]
      BY <2>4 DEF Preflight, PreflightPasses, PreflightDenies, PreflightRests, vars
    <3> QED
      BY <1>2, <3>1 DEF Recording, Telling
  <2> QED
    BY <2>1, <2>2, <2>3, <2>4 DEF Next
<1> QED
  BY <1>1, <1>2 DEF Recording

(* A rest that nobody is recording runs out, and does not change else.     *)
LEMMA RestsByRecording ==
  ASSUME IInv, [Next]_vars, ~Tick, NEW r \in Routes, ~Recording(r)
  PROVE  rests'[r] = rests[r]
<1>0. /\ rests \in [Routes -> Nat]
      /\ \A p \in Requests : Coherent(req[p])
  BY DEF IInv, TypeOK
<1>1. ASSUME NEW s \in Routes, NEW wait, RestsFor(s, wait), s # r
      PROVE  rests'[r] = rests[r]
  BY <1>0, <1>1 DEF RestsFor
<1>2. CASE UNCHANGED rests
  BY <1>2
<1>3. ASSUME NEW p \in Requests, RestRoute(p) PROVE rests'[r] = rests[r]
  <2>1. req[p].pc = "rest" /\ req[p].at \in Routes
    BY <1>0, <1>3 DEF RestRoute, Coherent, Asks
  <2>2. CASE Opens(req[p].error)
    <3>1. req[p].at # r
      BY <2>1, <2>2 DEF Recording, Telling
    <3> QED
      BY <1>1, <1>3, <2>1, <2>2, <3>1 DEF RestRoute
  <2>3. CASE ~Opens(req[p].error)
    BY <1>3, <2>3 DEF RestRoute
  <2> QED
    BY <2>2, <2>3
<1>4. ASSUME NEW p \in Requests, Reopen(p) PROVE rests'[r] = rests[r]
  <2>1. req[p].at \in Routes /\ req[p].at # r
    BY <1>0, <1>4 DEF Reopen, Coherent, Asks, Recording, Telling
  <2> QED
    BY <1>1, <1>4, <2>1 DEF Reopen
<1>5. CASE PreflightRests
  <2>1. preflight.at # r
    BY <1>5 DEF PreflightRests, Recording
  <2> QED
    BY <1>1, <1>5, <2>1 DEF PreflightRests
<1> QED
  BY ZenonT(40), <1>2, <1>3, <1>4, <1>5 DEF Next, Preflight, PreflightPasses, PreflightDenies,
     Proceed, Caller, Start, PassUnfit, PassResting, FindOpen, PassUnaffordable, RunOutOfTime,
     Call, RunOutOfRoutes, Answered, Refuses, FailsAndWaits, FailsWithNoRoom, FailsForGood,
     CallAgain, Drop, CountFailure, ForgetFailures, Undeny, SettlePriced, ChargeStream,
     SettleUnpriced, SettleWithoutBudget, MeasuredAfterAll, vars, health

(* Beside the clock, a rest is forgotten, kept, or found by a start.       *)
LEMMA FoundByStarting ==
  ASSUME IInv, [Next]_vars, ~Tick, NEW q \in Requests, NEW r \in Routes
  PROVE  \/ found'[q][r] = 0
         \/ found'[q][r] = found[q][r]
         \/ Start(q) /\ ~Recording(r) /\ found'[q][r] = rests[r]
<1>0. /\ found \in [Requests -> [Routes -> Nat]]
      /\ \A p \in Requests : Coherent(req[p])
  BY DEF IInv, TypeOK
<1>1. ASSUME NEW s, HeardFrom(s) PROVE found'[q][r] = 0 \/ found'[q][r] = found[q][r]
  BY <1>0, <1>1 DEF HeardFrom
<1>2. CASE UNCHANGED found
  BY <1>2
<1>3. ASSUME NEW p \in Requests, Start(p)
      PROVE  \/ found'[q][r] = 0
             \/ found'[q][r] = found[q][r]
             \/ Start(q) /\ ~Recording(r) /\ found'[q][r] = rests[r]
  <2> DEFINE rest == [s \in Routes |-> IF Recording(s) THEN 0 ELSE rests[s]]
  <2>1. found' = [found EXCEPT ![p] = rest]
    BY <1>3, Zenon DEF Start
  <2>2. rest[r] = 0 \/ (~Recording(r) /\ rest[r] = rests[r])
    OBVIOUS
  <2> HIDE DEF rest
  <2>3. found'[q] = IF p = q THEN rest ELSE found[q]
    BY <1>0, <2>1
  <2> QED
    BY <1>3, <2>2, <2>3
<1>4. ASSUME NEW p \in Requests, Answered(p) \/ FailsWithNoRoom(p) \/ FailsForGood(p)
      PROVE  found'[q][r] = 0 \/ found'[q][r] = found[q][r]
  <2>1. HeardFrom(req[p].at) \/ UNCHANGED found
    BY <1>4, Zenon DEF Answered, FailsWithNoRoom, FailsForGood
  <2> QED
    BY <1>1, <2>1
<1>5. CASE PreflightDenies
  BY <1>1, <1>5 DEF PreflightDenies
<1> QED
  BY <1>2, <1>3, <1>4, <1>5 DEF Next, Preflight, PreflightPasses, PreflightRests,
     Proceed, Caller, PassUnfit, PassResting, FindOpen, PassUnaffordable, RunOutOfTime,
     Call, RunOutOfRoutes, Refuses, FailsAndWaits, CallAgain, Drop, CountFailure, RestRoute,
     ForgetFailures, Reopen, Undeny, SettlePriced, ChargeStream,
     SettleUnpriced, SettleWithoutBudget, MeasuredAfterAll, vars, history

(* Every step keeps it, and only a start finds a rest anew. *)
LEMMA StepKeepsFound ==
  ASSUME IInv, IInv', FoundInv, [Next]_vars, NEW q \in Requests, NEW r \in Routes
  PROVE  /\ found'[q][r] = 0 \/ (found'[q][r] <= rests'[r] /\ ~Recording(r)')
         /\ found[q][r] = 0 /\ ~Start(q) => found'[q][r] = 0
<1>0. /\ rests \in [Routes -> Nat] /\ found \in [Requests -> [Routes -> Nat]]
      /\ found[q][r] \in Nat /\ rests[r] \in Nat
      /\ found[q][r] = 0 \/ (found[q][r] <= rests[r] /\ ~Recording(r))
  BY DEF IInv, TypeOK, FoundInv
<1>1. HeardFrom(r) => found'[q][r] = 0
  BY <1>0 DEF HeardFrom
<1>2. Recording(r)' => Recording(r) \/ found'[q][r] = 0
  BY <1>1, RecordingByHearing
<1>3. CASE Tick
  <2>1. found'[q][r] = Less(found[q][r]) /\ rests'[r] = Less(rests[r])
    BY <1>3 DEF Tick
  <2> QED
    BY <1>0, <1>2, <2>1 DEF Less
<1>4. CASE ~Tick
  <2>1. \/ found'[q][r] = 0
        \/ found'[q][r] = found[q][r]
        \/ Start(q) /\ ~Recording(r) /\ found'[q][r] = rests[r]
    BY <1>4, FoundByStarting
  <2>2. CASE found'[q][r] = 0
    BY <2>2
  <2>3. CASE found'[q][r] # 0
    <3>1. ~Recording(r) /\ found'[q][r] <= rests[r]
      BY <1>0, <2>1, <2>3
    <3>2. rests'[r] = rests[r]
      BY <1>4, <3>1, RestsByRecording
    <3> QED
      BY <1>2, <2>1, <2>3, <3>1, <3>2
  <2> QED
    BY <2>2, <2>3
<1> QED
  BY <1>3, <1>4

(* A request that finds a route resting when it starts does not use the    *)
(* route before that rest is over, unless a request that was already       *)
(* asking the route, or the startup check, hears from it meanwhile: a      *)
(* reply, a denial, or a failure that opens the circuit.  A refusal and a  *)
(* failure that is about the request shorten nobody's rest.                *)
THEOREM RestWaitedOutTheorem == Spec => []RestWaitedOut
<1>1. Init => FoundInv
  BY DEF Init, FoundInv, Fresh
<1>2. IInv /\ IInv' /\ FoundInv /\ [Next]_vars => FoundInv'
  <2> SUFFICES ASSUME IInv, IInv', FoundInv, [Next]_vars, NEW q \in Requests,
                      req'[q].pc \in {"afford", "calling", "sleeping"}
               PROVE  found'[q][req'[q].at] = 0
    BY StepKeepsFound DEF FoundInv
  <2>0. req'[q].at \in Routes
    BY DEF IInv, Coherent, Asks
  <2>1. ASSUME NEW r \in Routes, found[q][r] = 0, ~Start(q)
        PROVE  found'[q][r] = 0
    BY <2>1, StepKeepsFound
  <2>2. ~Start(q)
    <3>1. req[q] \in Journey
      BY DEF IInv, TypeOK
    <3>2. [req[q] EXCEPT !.pc = "look", !.ranked = Ranking].pc = "look"
      BY <3>1 DEF Journey
    <3>3. Start(q) => req'[q] = [req[q] EXCEPT !.pc = "look", !.ranked = Ranking]
      BY BecomesOnlyOne DEF Start
    <3> QED
      BY <3>2, <3>3
  <2>3. CASE req[q].pc \in {"afford", "calling", "sleeping"} /\ req'[q].at = req[q].at
    BY <2>0, <2>1, <2>2, <2>3 DEF FoundInv
  <2>4. CASE FindOpen(q)
    <3>1. PICK r \in Routes :
            /\ rests[r] = 0
            /\ Becomes(q, [req[q] EXCEPT !.left = req[q].left \ {r}, !.at = r, !.pc = "afford"])
      BY <2>4, Zenon DEF FindOpen
    <3>2. req'[q].at = r
      <4>1. req[q] \in Journey
        BY DEF IInv, TypeOK
      <4>2. [req[q] EXCEPT !.left = req[q].left \ {r}, !.at = r, !.pc = "afford"].at = r
        BY <4>1 DEF Journey
      <4> QED
        BY <3>1, <4>2, BecomesOnlyOne
    <3>3. found[q][r] = 0
      <4>1. found[q][r] \in Nat /\ (found[q][r] = 0 \/ found[q][r] <= rests[r])
        BY DEF FoundInv, IInv, TypeOK
      <4> QED
        BY <3>1, <4>1
    <3> QED
      BY <2>1, <2>2, <3>2, <3>3
  <2>5. CASE Tick \/ Preflight \/ UNCHANGED vars
    BY <2>3, <2>5, BesideRequests
  <2>6. CASE \E p \in Requests \ {q} : Proceed(p) \/ Caller(p)
    BY <2>3, <2>6, OthersStay
  <2>7. CASE Proceed(q) \/ Caller(q)
    BY <2>3, <2>4, <2>7, StepOfOne DEF AsksNow, HearsFailure, LetsGo, AtHand
  <2> QED
    BY <2>5, <2>6, <2>7 DEF Next
<1>3. FoundInv => RestWaitedOut
  BY DEF FoundInv, RestWaitedOut
<1> QED
  BY <1>1, <1>2, <1>3, Invariance, PTL DEF Spec

-----------------------------------------------------------------------------
(* The wait a provider asks for *)

(* A request sleeps at least as long as it was asked to. *)
WaitInv == \A q \in Requests : req[q].pc = "sleeping" => asked[q] <= req[q].asleep

(* Only hearing a failure, and time, change the wait asked for. *)
LEMMA AskedByHearing ==
  ASSUME IInv, [Next]_vars, NEW q \in Requests, ~Tick, ~FailsAndWaits(q)
  PROVE  asked'[q] = asked[q]
<1>0. asked \in [Requests -> Nat]
  BY DEF IInv, TypeOK
<1>1. CASE UNCHANGED asked
  BY <1>1
<1>2. ASSUME NEW p \in Requests \ {q}, FailsAndWaits(p)
      PROVE  asked'[q] = asked[q]
  BY <1>0, <1>2 DEF FailsAndWaits, Hears
<1> QED
  BY <1>1, <1>2 DEF Next, Preflight, PreflightPasses, PreflightDenies, PreflightRests,
     Proceed, Caller, Start, PassUnfit, PassResting, FindOpen, PassUnaffordable, RunOutOfTime,
     Call, RunOutOfRoutes, Answered, Refuses, FailsWithNoRoom, FailsForGood, CallAgain,
     Drop, CountFailure, RestRoute, ForgetFailures, Reopen, Undeny, SettlePriced, ChargeStream,
     SettleUnpriced, SettleWithoutBudget, MeasuredAfterAll, vars, history

(* A failure that is waited out is waited for as long as it asks. *)
LEMMA HearingSleeps ==
  ASSUME IInv, NEW q \in Requests, FailsAndWaits(q)
  PROVE  asked'[q] <= req'[q].asleep /\ req[q].attempt < Attempts
<1> DEFINE j == req[q]
<1>0. j \in Journey /\ asked \in [Requests -> Nat]
  BY DEF IInv, TypeOK
<1>1. PICK e \in ErrorsSeen \ {"refused"} : \E w \in WaitsBefore(j.attempt + 1, e) :
        Becomes(q, [j EXCEPT !.pc = "sleeping", !.last = e, !.asleep = w]) /\ Hears(q, e)
  BY Zenon DEF FailsAndWaits
<1>2. PICK w \in WaitsBefore(j.attempt + 1, e) :
        Becomes(q, [j EXCEPT !.pc = "sleeping", !.last = e, !.asleep = w]) /\ Hears(q, e)
  BY <1>1
<1>3. req'[q].asleep = w
  <2>1. [j EXCEPT !.pc = "sleeping", !.last = e, !.asleep = w].asleep = w
    BY <1>0 DEF Journey
  <2> QED
    BY <1>2, <2>1, BecomesOnlyOne
<1>4. j.attempt \in Nat /\ w \in Nat /\ j.attempt + 1 <= Attempts
  <2>1. j.attempt \in Nat
    BY <1>0 DEF Journey
  <2>2. w \in Nat
    <3>1. j.attempt + 1 \in Nat /\ e \in Failures
      BY <2>1, RouterAssumption
    <3> QED
      BY <1>2, <3>1, WaitsAreTimes
  <2>3. j.attempt + 1 <= Attempts
    BY <1>2, <2>1, PolicyAssumption DEF WaitsBefore
  <2> QED
    BY <2>1, <2>2, <2>3
<1>5. asked'[q] = (IF e = "rate_limited_for" THEN RetryAfter ELSE 0)
  BY <1>0, <1>2 DEF Hears
<1>6. e = "rate_limited_for" => w = RetryAfter
  BY <1>2 DEF WaitsBefore
<1> QED
  BY <1>3, <1>4, <1>5, <1>6, PolicyAssumption

(* A failure that is not waited out is counted next. *)
LEMMA OthersCount ==
  ASSUME IInv, NEW q \in Requests, Refuses(q) \/ FailsWithNoRoom(q) \/ FailsForGood(q)
  PROVE  req'[q].pc = "count"
<1> DEFINE j == req[q]
<1>0. j \in Journey
  BY DEF IInv, TypeOK
<1>1. PICK e, w :
        \/ Becomes(q, [j EXCEPT !.pc = "count", !.error = "refused", !.verdict = "refused"])
        \/ Becomes(q, [j EXCEPT !.pc = "count", !.error = e, !.verdict = "gave_up"])
        \/ Becomes(q, [j EXCEPT !.pc = "count", !.error = e])
  BY Zenon DEF Refuses, FailsWithNoRoom, FailsForGood
<1>2. /\ [j EXCEPT !.pc = "count", !.error = "refused", !.verdict = "refused"].pc = "count"
      /\ [j EXCEPT !.pc = "count", !.error = e, !.verdict = "gave_up"].pc = "count"
      /\ [j EXCEPT !.pc = "count", !.error = e].pc = "count"
  BY <1>0 DEF Journey
<1> QED
  BY <1>1, <1>2, BecomesOnlyOne

(* Each step keeps the sleep as long as what is left of the wait. *)
LEMMA StepKeepsWaitInv ==
  ASSUME IInv, WaitInv, [Next]_vars
  PROVE  WaitInv'
<1> SUFFICES ASSUME NEW q \in Requests, req'[q].pc = "sleeping"
             PROVE  asked'[q] <= req'[q].asleep
  BY DEF WaitInv
<1>0. /\ req \in [Requests -> Journey] /\ req[q] \in Journey
      /\ asked[q] \in Nat /\ req[q].asleep \in Nat
      /\ req[q].pc = "sleeping" => asked[q] <= req[q].asleep
  BY DEF IInv, TypeOK, WaitInv, Journey
<1>1. CASE Tick
  <2>1. asked'[q] = Less(asked[q])
    BY <1>1 DEF Tick
  <2>2. req'[q].pc = req[q].pc /\ req'[q].asleep = Less(req[q].asleep)
    BY <1>0, <1>1 DEF Tick, Journey
  <2> QED
    BY <1>0, <2>1, <2>2 DEF Less
<1>2. CASE FailsAndWaits(q)
  BY <1>2, HearingSleeps
<1>3. CASE ~Tick /\ ~FailsAndWaits(q) /\ req'[q] = req[q]
  BY <1>0, <1>3, AskedByHearing
<1>4. CASE Preflight \/ UNCHANGED vars
  <2>1. UNCHANGED <<req, asked>>
    BY <1>4 DEF Preflight, PreflightPasses, PreflightDenies, PreflightRests, vars, history
  <2> QED
    BY <1>0, <2>1
<1>5. CASE \E p \in Requests \ {q} : Proceed(p) \/ Caller(p)
  BY <1>1, <1>2, <1>3, <1>5, OthersStay
<1>6. CASE Proceed(q) \/ Caller(q)
  <2>1. FailsAndWaits(q) \/ Refuses(q) \/ FailsWithNoRoom(q) \/ FailsForGood(q)
    BY <1>6, StepOfOne DEF TakesUp, AsksNow, LetsGo, AtHand
  <2> QED
    BY <1>2, <2>1, OthersCount
<1> QED
  BY <1>1, <1>4, <1>5, <1>6 DEF Next

(* No attempt is made again before the wait the provider asked for.        *)
THEOREM AskedWaitHonouredTheorem == Spec => AskedWaitHonoured
<1>1. Init => WaitInv
  BY DEF Init, WaitInv, Fresh
<1>2. IInv /\ WaitInv /\ [Next]_vars => WaitInv'
  BY StepKeepsWaitInv
<1>3. IInv /\ WaitInv /\ [Next]_vars =>
        [\A q \in Requests : req'[q].attempt > req[q].attempt /\ req[q].attempt > 0 =>
           asked[q] = 0 \/ req'[q].at # req[q].at]_vars
  <2> SUFFICES ASSUME IInv, WaitInv, [Next]_vars, NEW q \in Requests,
                      req'[q].attempt > req[q].attempt, req[q].attempt > 0
               PROVE  asked[q] = 0
    BY Zenon
  <2>0. req[q].attempt \in Nat /\ req[q].asleep \in Nat /\ asked[q] \in Nat
    BY DEF IInv, TypeOK, Journey
  <2>1. Proceed(q) \/ Caller(q)
    BY <2>0, BesideRequests, OthersStay DEF Next
  <2>2. AsksNow(req[q], req'[q])
    BY <2>0, <2>1, StepOfOne DEF TakesUp, HearsFailure, LetsGo
  <2>3. req[q].pc = "sleeping" /\ req[q].asleep = 0
    BY <2>0, <2>2 DEF AsksNow
  <2> QED
    BY <2>0, <2>3 DEF WaitInv
<1> QED
  BY <1>1, <1>2, <1>3, Invariance, PTL DEF Spec, AskedWaitHonoured

-----------------------------------------------------------------------------
(***************************************************************************)
(* Part 4.  Router implements RequestPromise.                              *)
(***************************************************************************)

-----------------------------------------------------------------------------
(* The promise of a request, by where it is in the code *)

(* What is left of a request's promise, by where it is in the code. *)
Tells(q, j) ==
  /\ j.pc = "idle" => Promise(q, j) = Abstract!Unmade
  /\ j.pc = "look" => Promise(q, j) = Choosing(q, j.left)
  /\ j.pc = "afford" => Promise(q, j) = Choosing(q, j.left \cup {j.at})
  /\ j.pc \in {"calling", "sleeping"} =>
       Promise(q, j) = Asking(q, j.left, j.at, j.attempt)
  /\ j.pc \in {"count", "rest"} /\ j.verdict = None =>
       Promise(q, j) = Asking(q, j.left, j.at, j.attempt)
  /\ j.pc \in {"count", "rest"} /\ j.verdict # None =>
       Promise(q, j) = Abstract!Over(0)
  /\ j.pc \in {"served", "reopen", "undeny", "settle"} =>
       Promise(q, j) = Abstract!Over(j.at)
  /\ j.pc \in {"done", "measured", "charged"} /\ j.outcome = "served" =>
       Promise(q, j) = Abstract!Over(j.at)
  /\ j.pc \in {"done", "measured", "charged"} /\ j.outcome # "served" =>
       Promise(q, j) = Abstract!Over(0)

(* Where a request is in the code says what is left of its promise. *)
LEMMA PromiseByStep ==
  ASSUME NEW q, NEW j, j.outcome = "served" => j.pc \in {"done", "measured", "charged"}
  PROVE  Tells(q, j)
<1>0. ASSUME j.pc = "idle"
      PROVE  Promise(q, j) = Abstract!Unmade
  BY <1>0 DEF Promise, Abstract!Unmade
<1>1. ASSUME j.pc = "look"
      PROVE  Promise(q, j) = Choosing(q, j.left)
  BY <1>1 DEF Promise
<1>2. ASSUME j.pc = "afford"
      PROVE  Promise(q, j) = Choosing(q, j.left \cup {j.at})
  BY <1>2 DEF Promise
<1>3. ASSUME j.pc \in {"calling", "sleeping"}
      PROVE  Promise(q, j) = Asking(q, j.left, j.at, j.attempt)
  BY <1>3 DEF Promise
<1>4. ASSUME j.pc \in {"count", "rest"} /\ j.verdict = None
      PROVE  Promise(q, j) = Asking(q, j.left, j.at, j.attempt)
  BY <1>4 DEF Promise
<1>5. ASSUME j.pc \in {"count", "rest"} /\ j.verdict # None
      PROVE  Promise(q, j) = Abstract!Over(0)
  BY <1>5 DEF Promise, Abstract!Over
<1>6. ASSUME j.pc \in {"served", "reopen", "undeny", "settle"}
      PROVE  Promise(q, j) = Abstract!Over(j.at)
  BY <1>6 DEF Promise, Abstract!Over
<1>7. ASSUME j.pc \in {"done", "measured", "charged"} /\ j.outcome = "served"
      PROVE  Promise(q, j) = Abstract!Over(j.at)
  BY <1>7 DEF Promise, Abstract!Over
<1>8. ASSUME j.pc \in {"done", "measured", "charged"} /\ j.outcome # "served"
      PROVE  Promise(q, j) = Abstract!Over(0)
  BY <1>8 DEF Promise, Abstract!Over
<1> QED
  BY <1>0, <1>1, <1>2, <1>3, <1>4, <1>5, <1>6, <1>7, <1>8 DEF Tells

(* What the phases of a promise hold. *)
LEMMA WishFields ==
  ASSUME NEW q
  PROVE  /\ WishOf(q).routes = Routes /\ WishOf(q).attempts = Attempts
         /\ WishOf(q).able = {route \in Routes : Fits(q, route)}
BY DEF WishOf

(* The routes that are left, *)
LEMMA ChoosingFields ==
  ASSUME NEW q, NEW L
  PROVE  /\ Choosing(q, L).phase = "choosing" /\ Choosing(q, L).wish = WishOf(q)
         /\ Choosing(q, L).left = L
         /\ Choosing(q, L) = Abstract!Choosing(WishOf(q), L)
BY DEF Choosing, Abstract!Choosing

(* and the one being asked. *)
LEMMA AskingFields ==
  ASSUME NEW q, NEW L, NEW r, NEW n
  PROVE  /\ Asking(q, L, r, n).phase = "asking" /\ Asking(q, L, r, n).wish = WishOf(q)
         /\ Asking(q, L, r, n).left = L /\ Asking(q, L, r, n).at = r
         /\ Asking(q, L, r, n).times = n
         /\ Asking(q, L, r, n) = Abstract!Asking(WishOf(q), L, r, n)
BY DEF Asking, Abstract!Asking

(* All the promises, as RequestPromise sees them. *)
Promises == [q \in Requests |-> Promise(q, req[q])]

(* A step of one request changes its promise alone, *)
LEMMA OnePromiseMoves ==
  ASSUME NEW q \in Requests, \A p \in Requests \ {q} : req'[p] = req[p],
         NEW s, Promise(q, req'[q]) = s
  PROVE  Abstract!Becomes(q, s)
<1>1. \A p \in Requests : Promise(p, req'[p]) = [Promises EXCEPT ![q] = s][p]
  BY DEF Promises
<1>2. [p \in Requests |-> Promise(p, req'[p])] = [Promises EXCEPT ![q] = s]
  BY <1>1 DEF Promises
<1> QED
  BY <1>2 DEF Promises, Abstract!Becomes

(* or none. *)
LEMMA PromisesStay ==
  ASSUME \A p \in Requests : Promise(p, req'[p]) = Promise(p, req[p])
  PROVE  UNCHANGED Promises
BY DEF Promises

(* A request without a reply in hand has not been served. *)
LEMMA ServedAtTheEnd ==
  ASSUME IInv, NEW q \in Requests, req[q].pc \notin {"done", "measured", "charged"}
  PROVE  req[q].outcome = None
BY DEF IInv, Coherent

-----------------------------------------------------------------------------
(* What the promise needs to know of a request *)

(* No route is passed before the start, the route taken up can do the work,*)
(* and who waits has attempts left.                                        *)
AbleInv ==
  \A q \in Requests :
    /\ req[q].pc = "idle" => req[q].left = Routes
    /\ req[q].pc = "afford" => Fits(q, req[q].at)
    /\ req[q].pc = "sleeping" => req[q].attempt < Attempts

(* Every step keeps all three. *)
LEMMA StepKeepsAbleInv ==
  ASSUME IInv, AbleInv, [Next]_vars
  PROVE  AbleInv'
<1> SUFFICES ASSUME NEW q \in Requests
             PROVE  /\ req'[q].pc = "idle" => req'[q].left = Routes
                    /\ req'[q].pc = "afford" => Fits(q, req'[q].at)
                    /\ req'[q].pc = "sleeping" => req'[q].attempt < Attempts
  BY DEF AbleInv, Fits
<1>0. /\ req[q].pc = "idle" => req[q].left = Routes
      /\ req[q].pc = "afford" => Fits(q, req[q].at)
      /\ req[q].pc = "sleeping" => req[q].attempt < Attempts
      /\ req[q] \in Journey
  BY DEF AbleInv, IInv, TypeOK
<1>1. CASE Tick \/ Preflight \/ UNCHANGED vars
  BY <1>0, <1>1, BesideRequests
<1>2. CASE \E p \in Requests \ {q} : Proceed(p) \/ Caller(p)
  BY <1>0, <1>2, OthersStay
<1>3. CASE Proceed(q) \/ Caller(q)
  <2>1. CASE FindOpen(q)
    <3>1. PICK r \in Routes :
            /\ Fits(q, r)
            /\ Becomes(q, [req[q] EXCEPT !.left = req[q].left \ {r}, !.at = r, !.pc = "afford"])
      BY <2>1, Zenon DEF FindOpen
    <3>2. LET k == [req[q] EXCEPT !.left = req[q].left \ {r}, !.at = r, !.pc = "afford"]
          IN  k.at = r /\ k.pc = "afford"
      BY <1>0 DEF Journey
    <3> QED
      BY <3>1, <3>2, BecomesOnlyOne
  <2>2. CASE FailsAndWaits(q)
    <3>1. req'[q].pc \in {"sleeping", "count"} /\ req'[q].attempt = req[q].attempt
      <4>1. req[q].pc = "calling"
        BY <2>2 DEF FailsAndWaits
      <4>2. PICK e, w : Becomes(q, [req[q] EXCEPT !.pc = "sleeping", !.last = e, !.asleep = w])
        BY <2>2, Zenon DEF FailsAndWaits
      <4>3. LET k == [req[q] EXCEPT !.pc = "sleeping", !.last = e, !.asleep = w]
            IN  k.pc = "sleeping" /\ k.attempt = req[q].attempt
        BY <1>0 DEF Journey
      <4> QED
        BY <4>2, <4>3, BecomesOnlyOne
    <3> QED
      BY <2>2, <3>1, HearingSleeps
  <2>3. CASE Refuses(q) \/ FailsWithNoRoom(q) \/ FailsForGood(q)
    BY <2>3, OthersCount
  <2> QED
    BY <1>3, <2>1, <2>2, <2>3, StepOfOne DEF AsksNow, LetsGo, AtHand, HearsFailure, TakesUp
<1> QED
  BY <1>1, <1>2, <1>3 DEF Next

-----------------------------------------------------------------------------
(* Each step of the code is a step of the promise, or none *)

(* What has to change, and how, for each step of the promise. *)
LEMMA MakeOne ==
  ASSUME NEW q \in Requests, \A p \in Requests \ {q} : req'[p] = req[p],
         Promise(q, req[q]) = Abstract!Unmade, Promise(q, req'[q]) = Choosing(q, Routes)
  PROVE  Abstract!Make(q)
<1>1. Abstract!Becomes(q, Choosing(q, Routes))
  BY OnePromiseMoves
<1>2. Promises[q].phase = "unmade"
  BY DEF Promises, Abstract!Unmade
<1>3. WishOf(q) \in Wishes(q)
  BY DEF Wishes
<1>4. Choosing(q, Routes) = Abstract!Choosing(WishOf(q), WishOf(q).routes)
  BY WishFields, ChoosingFields
<1> QED
  BY <1>1, <1>2, <1>3, <1>4 DEF Abstract!Make, Promises

(* A route passed over. *)
LEMMA PassOne ==
  ASSUME NEW q \in Requests, \A p \in Requests \ {q} : req'[p] = req[p], NEW L, NEW r \in L,
         Promise(q, req[q]) = Choosing(q, L), Promise(q, req'[q]) = Choosing(q, L \ {r})
  PROVE  Abstract!Pass(q)
<1>1. Abstract!Becomes(q, Choosing(q, L \ {r}))
  BY OnePromiseMoves
<1>2. Promises[q].phase = "choosing" /\ Promises[q].wish = WishOf(q) /\ Promises[q].left = L
  BY ChoosingFields DEF Promises
<1>3. Choosing(q, L \ {r}) = Abstract!Choosing(WishOf(q), L \ {r})
  BY ChoosingFields
<1> QED
  BY <1>1, <1>2, <1>3 DEF Abstract!Pass, Promises

(* A route taken up and asked. *)
LEMMA AskOne ==
  ASSUME NEW q \in Requests, \A p \in Requests \ {q} : req'[p] = req[p], NEW L, NEW r \in L,
         r \in Routes, Fits(q, r),
         Promise(q, req[q]) = Choosing(q, L), Promise(q, req'[q]) = Asking(q, L \ {r}, r, 1)
  PROVE  Abstract!Ask(q)
<1>1. Abstract!Becomes(q, Asking(q, L \ {r}, r, 1))
  BY OnePromiseMoves
<1>2. Promises[q].phase = "choosing" /\ Promises[q].wish = WishOf(q) /\ Promises[q].left = L
  BY ChoosingFields DEF Promises
<1>3. r \in L \cap WishOf(q).able
  BY WishFields
<1>4. Asking(q, L \ {r}, r, 1) = Abstract!Asking(WishOf(q), L \ {r}, r, 1)
  BY AskingFields
<1> QED
  BY <1>1, <1>2, <1>3, <1>4 DEF Abstract!Ask, Promises

(* A route asked again. *)
LEMMA AskOnceMore ==
  ASSUME NEW q \in Requests, \A p \in Requests \ {q} : req'[p] = req[p],
         NEW L, NEW r, NEW n \in Nat, n < Attempts,
         Promise(q, req[q]) = Asking(q, L, r, n), Promise(q, req'[q]) = Asking(q, L, r, n + 1)
  PROVE  Abstract!AskAgain(q)
<1>1. Abstract!Becomes(q, Asking(q, L, r, n + 1))
  BY OnePromiseMoves
<1>2. Promises[q] = Asking(q, L, r, n)
  BY DEF Promises
<1>3. [Asking(q, L, r, n) EXCEPT !.times = Asking(q, L, r, n).times + 1]
        = Asking(q, L, r, n + 1)
  BY DEF Asking
<1> QED
  BY <1>1, <1>2, <1>3, AskingFields, WishFields DEF Abstract!AskAgain, Promises

(* A route given up on, or one that replies. *)
LEMMA LeaveOne ==
  ASSUME NEW q \in Requests, \A p \in Requests \ {q} : req'[p] = req[p],
         NEW L, NEW r, NEW n, Promise(q, req[q]) = Asking(q, L, r, n)
  PROVE  /\ Promise(q, req'[q]) = Choosing(q, L) => Abstract!GiveUpOn(q)
         /\ Promise(q, req'[q]) = Abstract!Over(r) => Abstract!Reply(q)
<1>1. \A s : Promise(q, req'[q]) = s => Abstract!Becomes(q, s)
  BY OnePromiseMoves
<1>2. Promises[q] = Asking(q, L, r, n)
  BY DEF Promises
<1> QED
  BY <1>1, <1>2, AskingFields, ChoosingFields DEF Abstract!GiveUpOn, Abstract!Reply, Promises

(* A request that ends with no reply. *)
LEMMA FailOne ==
  ASSUME NEW q \in Requests, \A p \in Requests \ {q} : req'[p] = req[p],
         Promise(q, req[q]).phase # "over", Promise(q, req'[q]) = Abstract!Over(0)
  PROVE  Abstract!Fail(q)
<1>1. Abstract!Becomes(q, Abstract!Over(0))
  BY OnePromiseMoves
<1>2. Promises[q] = Promise(q, req[q])
  BY DEF Promises
<1> QED
  BY <1>1, <1>2 DEF Abstract!Fail, Promises

(* No request starts to be asked, or stops, but by a step of its promise.  *)
LEMMA StepKeepsPromise ==
  ASSUME IInv, IInv', ToldInv, AbleInv, NEW q \in Requests, Proceed(q) \/ Caller(q)
  PROVE  Abstract!Next \/ UNCHANGED Promises
<1> DEFINE j == req[q]
           k == req'[q]
<1>0. /\ j \in Journey /\ k \in Journey /\ Coherent(j) /\ Coherent(k)
      /\ \A p \in Requests \ {q} : req'[p] = req[p]
  BY OthersStay DEF IInv, TypeOK
<1>1. Tells(q, j) /\ Tells(q, k)
  <2>1. /\ j.outcome = "served" => j.pc \in {"done", "measured", "charged"}
        /\ k.outcome = "served" => k.pc \in {"done", "measured", "charged"}
    BY <1>0 DEF Coherent, None
  <2> QED
    BY <2>1, PromiseByStep
<1>2. ASSUME NEW h, Becomes(q, h) PROVE k = h
  BY <1>2, BecomesOnlyOne
<1>3. ASSUME Promise(q, k) = Promise(q, j) PROVE UNCHANGED Promises
  BY <1>0, <1>3, PromisesStay
<1>4. ASSUME Abstract!Make(q) \/ Abstract!Pass(q) \/ Abstract!Ask(q) \/ Abstract!AskAgain(q)
               \/ Abstract!GiveUpOn(q) \/ Abstract!Reply(q) \/ Abstract!Fail(q)
      PROVE  Abstract!Next
  BY <1>4 DEF Abstract!Next
<1>5. \A o : /\ Ended(j, o).pc = "done" /\ Ended(j, o).outcome = o
             /\ Ended(j, o).at = j.at
  BY DEF Ended, Fresh
<1>6. j.pc \in {"look", "afford", "calling", "sleeping"} => Promise(q, j).phase # "over"
  BY <1>1, ChoosingFields, AskingFields DEF Tells
<1>7. CASE Start(q)
  <2>1. k.pc = "look" /\ k.left = j.left /\ j.pc = "idle" /\ j.left = Routes
    <3>1. LET h == [j EXCEPT !.pc = "look", !.ranked = Ranking]
          IN  h.pc = "look" /\ h.left = j.left
      BY <1>0 DEF Journey
    <3> QED
      BY <1>2, <1>7, <3>1 DEF Start, AbleInv
  <2>2. Promise(q, j) = Abstract!Unmade /\ Promise(q, k) = Choosing(q, Routes)
    BY <1>1, <2>1 DEF Tells
  <2> QED
    BY <1>0, <1>4, <2>2, MakeOne
<1>8. CASE PassUnfit(q) \/ PassResting(q)
  <2>1. PICK r \in Routes :
          /\ r \in j.left
          /\ \/ Becomes(q, [j EXCEPT !.left = j.left \ {r}])
             \/ Becomes(q, [j EXCEPT !.left = j.left \ {r}, !.resting = TRUE])
    BY <1>8, Zenon DEF PassUnfit, PassResting, NextUp
  <2>2. j.pc = "look"
    BY <1>8 DEF PassUnfit, PassResting
  <2>3. k.pc = "look" /\ k.left = j.left \ {r}
    <3>1. LET h == [j EXCEPT !.left = j.left \ {r}]
          IN  h.pc = j.pc /\ h.left = j.left \ {r}
      BY <1>0 DEF Journey
    <3>2. LET h == [j EXCEPT !.left = j.left \ {r}, !.resting = TRUE]
          IN  h.pc = j.pc /\ h.left = j.left \ {r}
      BY <1>0 DEF Journey
    <3> QED
      BY <1>2, <2>1, <2>2, <3>1, <3>2
  <2>4. /\ Promise(q, j) = Choosing(q, j.left)
        /\ Promise(q, k) = Choosing(q, j.left \ {r})
    BY <1>1, <2>2, <2>3 DEF Tells
  <2> QED
    BY <1>0, <1>4, <2>1, <2>4, PassOne
<1>9. CASE FindOpen(q)
  <2>1. TakesUp(j, k)
    BY <1>9, FindingTakesUp
  <2>2. j.pc = "look" /\ k.pc = "afford" /\ k.left \cup {k.at} = j.left
    BY <2>1 DEF TakesUp
  <2>3. /\ Promise(q, j) = Choosing(q, j.left)
        /\ Promise(q, k) = Choosing(q, k.left \cup {k.at})
    BY <1>1, <2>2 DEF Tells
  <2> QED
    BY <1>3, <2>2, <2>3
<1>10. CASE PassUnaffordable(q)
  <2>1. j.pc = "afford" /\ k.pc = "look" /\ k.left = j.left
    <3>1. LET h == [j EXCEPT !.overBudget = TRUE, !.pc = "look"]
          IN  h.pc = "look" /\ h.left = j.left
      BY <1>0 DEF Journey
    <3> QED
      BY <1>2, <1>10, <3>1 DEF PassUnaffordable
  <2>2. j.at \notin j.left
    BY <2>1 DEF ToldInv, AtHand
  <2>3. /\ Promise(q, j) = Choosing(q, j.left \cup {j.at})
        /\ Promise(q, k) = Choosing(q, j.left)
        /\ (j.left \cup {j.at}) \ {j.at} = j.left
    BY <1>1, <2>1, <2>2 DEF Tells
  <2> QED
    BY <1>0, <1>4, <2>3, PassOne
<1>11. CASE RunOutOfTime(q) \/ RunOutOfRoutes(q) \/ Drop(q)
  <2>1. j.pc \in {"look", "afford", "calling", "sleeping"}
    BY <1>11 DEF RunOutOfTime, RunOutOfRoutes, Drop
  <2>2. k.pc = "done" /\ k.outcome # "served"
    <3>1. ASSUME RunOutOfRoutes(q) PROVE Verdict(j) # "served"
      BY <1>0 DEF Verdict, Journey, Failures, None
    <3> QED
      BY <1>2, <1>5, <1>11, <3>1 DEF RunOutOfTime, RunOutOfRoutes, Drop
  <2>3. Promise(q, k) = Abstract!Over(0)
    BY <1>1, <2>2 DEF Tells
  <2> QED
    BY <1>0, <1>4, <1>6, <2>1, <2>3, FailOne
<1>12. CASE Call(q)
  <2>1. /\ j.pc = "afford" /\ k.pc = "calling" /\ k.left = j.left /\ k.at = j.at
        /\ k.attempt = 1
    <3>1. LET h == [j EXCEPT !.pc = "calling", !.attempt = 1, !.tries = j.tries + 1]
          IN  h.pc = "calling" /\ h.left = j.left /\ h.at = j.at /\ h.attempt = 1
      BY <1>0 DEF Journey
    <3> QED
      BY <1>2, <1>12, <3>1 DEF Call
  <2>2. j.at \notin j.left /\ j.at \in Routes /\ Fits(q, j.at)
    BY <1>0, <2>1 DEF ToldInv, AtHand, AbleInv, Coherent
  <2>3. /\ Promise(q, j) = Choosing(q, j.left \cup {j.at})
        /\ Promise(q, k) = Asking(q, j.left, j.at, 1)
        /\ (j.left \cup {j.at}) \ {j.at} = j.left
    BY <1>1, <2>1, <2>2 DEF Tells
  <2> QED
    BY <1>0, <1>4, <2>2, <2>3, AskOne
<1>13. CASE CallAgain(q)
  <2>1. /\ j.pc = "sleeping" /\ k.pc = "calling" /\ k.left = j.left /\ k.at = j.at
        /\ k.attempt = j.attempt + 1
    <3>1. LET h == [j EXCEPT !.pc = "calling", !.attempt = j.attempt + 1, !.tries = j.tries + 1]
          IN  h.pc = "calling" /\ h.left = j.left /\ h.at = j.at /\ h.attempt = j.attempt + 1
      BY <1>0 DEF Journey
    <3> QED
      BY <1>2, <1>13, <3>1 DEF CallAgain
  <2>2. j.attempt \in Nat /\ j.attempt < Attempts
    BY <1>0, <2>1 DEF AbleInv, Journey
  <2>3. /\ Promise(q, j) = Asking(q, j.left, j.at, j.attempt)
        /\ Promise(q, k) = Asking(q, j.left, j.at, j.attempt + 1)
    BY <1>1, <2>1 DEF Tells
  <2> QED
    BY <1>0, <1>4, <2>2, <2>3, AskOnceMore
<1>14. CASE Answered(q)
  <2>1. j.pc = "calling" /\ k.pc = "served" /\ k.at = j.at
    <3>1. LET h == [j EXCEPT !.pc = "served"] IN h.pc = "served" /\ h.at = j.at
      BY <1>0 DEF Journey
    <3> QED
      BY <1>2, <1>14, <3>1 DEF Answered
  <2>2. /\ Promise(q, j) = Asking(q, j.left, j.at, j.attempt)
        /\ Promise(q, k) = Abstract!Over(j.at)
    BY <1>1, <2>1 DEF Tells
  <2> QED
    BY <1>0, <1>4, <2>2, LeaveOne
<1>15. CASE Refuses(q) \/ FailsWithNoRoom(q)
  <2>1. PICK e, o :
          o # None /\ Becomes(q, [j EXCEPT !.pc = "count", !.error = e, !.verdict = o])
    <3>1. "refused" # None /\ "gave_up" # None
      BY DEF None
    <3> QED
      BY <1>15, <3>1, Zenon DEF Refuses, FailsWithNoRoom
  <2>2. j.pc = "calling" /\ k.pc = "count" /\ k.verdict # None
    <3>1. LET h == [j EXCEPT !.pc = "count", !.error = e, !.verdict = o]
          IN  h.pc = "count" /\ h.verdict = o
      BY <1>0 DEF Journey
    <3> QED
      BY <1>2, <1>15, <2>1, <3>1 DEF Refuses, FailsWithNoRoom
  <2>3. Promise(q, k) = Abstract!Over(0)
    BY <1>1, <2>2 DEF Tells
  <2> QED
    BY <1>0, <1>4, <1>6, <2>2, <2>3, FailOne
<1>16. CASE FailsAndWaits(q) \/ FailsForGood(q)
  <2>1. PICK e, w :
          \/ Becomes(q, [j EXCEPT !.pc = "sleeping", !.last = e, !.asleep = w])
          \/ Becomes(q, [j EXCEPT !.pc = "count", !.error = e])
    BY <1>16, Zenon DEF FailsAndWaits, FailsForGood
  <2>2. j.pc = "calling" /\ j.verdict = None
    BY <1>0, <1>16 DEF FailsAndWaits, FailsForGood, Coherent
  <2>3. /\ k.pc \in {"sleeping", "count"} /\ k.verdict = j.verdict
        /\ k.left = j.left /\ k.at = j.at /\ k.attempt = j.attempt
    <3>1. LET h == [j EXCEPT !.pc = "sleeping", !.last = e, !.asleep = w]
          IN  /\ h.pc = "sleeping" /\ h.verdict = j.verdict
              /\ h.left = j.left /\ h.at = j.at /\ h.attempt = j.attempt
      BY <1>0 DEF Journey
    <3>2. LET h == [j EXCEPT !.pc = "count", !.error = e]
          IN  /\ h.pc = "count" /\ h.verdict = j.verdict
              /\ h.left = j.left /\ h.at = j.at /\ h.attempt = j.attempt
      BY <1>0 DEF Journey
    <3> QED
      BY <1>2, <2>1, <3>1, <3>2
  <2> QED
    BY <1>1, <1>3, <2>2, <2>3 DEF Tells
<1>17. CASE CountFailure(q) \/ RestRoute(q)
  <2>1. j.pc \in {"count", "rest"}
    BY <1>17 DEF CountFailure, RestRoute
  <2>2. CASE k = [j EXCEPT !.pc = "rest", !.failed = failures[j.at] + 1]
    <3>1. /\ k.pc = "rest" /\ k.verdict = j.verdict
          /\ k.left = j.left /\ k.at = j.at /\ k.attempt = j.attempt
      BY <1>0, <2>2 DEF Journey
    <3> QED
      BY <1>1, <1>3, <2>1, <3>1 DEF Tells
  <2>3. CASE k = MovesOn(j)
    <3>1. CASE j.verdict # None
      <4>1. k = Ended(j, j.verdict) /\ j.verdict # "served"
        BY <1>0, <2>3, <3>1 DEF MovesOn, Coherent
      <4>2. k.pc = "done" /\ k.outcome # "served"
        BY <1>5, <4>1
      <4> QED
        BY <1>1, <1>3, <2>1, <3>1, <4>2 DEF Tells
    <3>2. CASE j.verdict = None
      <4>1. k.pc = "look" /\ k.left = j.left
        <5>1. LET h == [j EXCEPT !.pc = "look", !.last = j.error, !.error = None, !.failed = 0]
              IN  h.pc = "look" /\ h.left = j.left
          BY <1>0 DEF Journey
        <5> QED
          BY <2>3, <3>2, <5>1 DEF MovesOn
      <4>2. /\ Promise(q, j) = Asking(q, j.left, j.at, j.attempt)
            /\ Promise(q, k) = Choosing(q, j.left)
        BY <1>1, <2>1, <3>2, <4>1 DEF Tells
      <4> QED
        BY <1>0, <1>4, <4>2, LeaveOne
    <3> QED
      BY <3>1, <3>2
  <2> QED
    BY <1>2, <1>17, <2>2, <2>3 DEF CountFailure, RestRoute
<1>18. CASE ForgetFailures(q) \/ Reopen(q) \/ Undeny(q)
  <2>1. j.pc \in {"served", "reopen", "undeny"}
    BY <1>18 DEF ForgetFailures, Reopen, Undeny
  <2>2. k.pc \in {"reopen", "undeny", "settle"} /\ k.at = j.at
    <3>1. ASSUME NEW step \in {"reopen", "undeny", "settle"}
          PROVE  [j EXCEPT !.pc = step].pc = step /\ [j EXCEPT !.pc = step].at = j.at
      BY <1>0 DEF Journey
    <3> QED
      BY <1>2, <1>18, <3>1 DEF ForgetFailures, Reopen, Undeny
  <2> QED
    BY <1>1, <1>3, <2>1, <2>2 DEF Tells
<1>19. CASE SettlePriced(q) \/ SettleUnpriced(q) \/ SettleWithoutBudget(q)
  <2>1. j.pc = "settle" /\ k.pc = "done" /\ k.outcome = "served" /\ k.at = j.at
    BY <1>2, <1>5, <1>19 DEF SettlePriced, SettleUnpriced, SettleWithoutBudget, Serve
  <2> QED
    BY <1>1, <1>3, <2>1 DEF Tells
<1>20. CASE ChargeStream(q) \/ MeasuredAfterAll(q)
  <2>1. j.pc \in {"done", "measured"}
    BY <1>20 DEF ChargeStream, MeasuredAfterAll
  <2>2. k.pc \in {"measured", "charged"} /\ k.at = j.at /\ k.outcome = j.outcome
    <3>1. ASSUME NEW step \in {"measured", "charged"}
          PROVE  /\ [j EXCEPT !.pc = step].pc = step /\ [j EXCEPT !.pc = step].at = j.at
                 /\ [j EXCEPT !.pc = step].outcome = j.outcome
      BY <1>0 DEF Journey
    <3> QED
      BY <1>2, <1>20, <3>1 DEF ChargeStream, MeasuredAfterAll
  <2> QED
    BY <1>1, <1>3, <2>1, <2>2 DEF Tells
<1> QED
  BY <1>7, <1>8, <1>9, <1>10, <1>11, <1>12, <1>13, <1>14, <1>15, <1>16, <1>17, <1>18, <1>19,
     <1>20 DEF Proceed, Caller

(* Router implements RequestPromise: routes are taken up one at a time and *)
(* never come back to, each asked within its attempts and only if it can   *)
(* do the work; a reply comes from the route being asked, and after the    *)
(* answer nobody is asked anything more.                                   *)
THEOREM KeepsPromiseTheorem == Spec => KeepsPromise
<1>1. Init => ToldInv /\ AbleInv
  BY DEF Init, Fresh, ToldInv, AbleInv, AtHand
<1>2. Init => Abstract!Init
  <2> SUFFICES ASSUME Init PROVE Abstract!Init
    OBVIOUS
  <2>1. Fresh.pc = "idle" /\ Fresh.left = Routes /\ Fresh.outcome # "served"
    BY DEF Fresh, None
  <2>2. \A q \in Requests : Promise(q, req[q]) = Abstract!Unmade
    BY <2>1, PromiseByStep DEF Init, Tells
  <2> QED
    BY <2>2 DEF Abstract!Init
<1>3. IInv /\ ToldInv /\ AbleInv /\ [Next]_vars => ToldInv' /\ AbleInv'
  BY StepKeepsToldInv, StepKeepsAbleInv
<1>4. IInv /\ IInv' /\ ToldInv /\ AbleInv /\ [Next]_vars =>
        Abstract!Next \/ UNCHANGED Promises
  <2> SUFFICES ASSUME IInv, IInv', ToldInv, AbleInv, [Next]_vars
               PROVE  Abstract!Next \/ UNCHANGED Promises
    OBVIOUS
  <2>1. CASE Tick \/ Preflight \/ UNCHANGED vars
    <3>1. ASSUME NEW q \in Requests PROVE Promise(q, req'[q]) = Promise(q, req[q])
      BY <2>1, BesideRequests DEF Promise
    <3> QED
      BY <3>1, PromisesStay
  <2>2. CASE \E q \in Requests : Proceed(q) \/ Caller(q)
    BY <2>2, StepKeepsPromise
  <2> QED
    BY <2>1, <2>2 DEF Next
<1> QED
  BY <1>1, <1>2, <1>3, <1>4, Invariance, PTL DEF Spec, KeepsPromise, Abstract!Spec, Promises

==============================================================================
