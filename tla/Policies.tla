------------------------------ MODULE Policies ------------------------------
(***************************************************************************)
(* The two pure policies a router consults when a provider fails: Retry,   *)
(* which says how long one request waits before it asks the same route     *)
(* again, and Breaker, which says how long every request leaves a route    *)
(* alone.  Durations are natural numbers of clock ticks.                   *)
(***************************************************************************)
EXTENDS Integers

CONSTANTS
  First,          (* Breaker: the wait after the first failure             *)
  Longest,        (* Breaker: the ceiling of the waits it works out        *)
  Settled,        (* Breaker: the wait for what a person has to fix        *)
  Attempts,       (* Retry: attempts in total; 1 is a router with no policy*)
  Base,           (* Retry: the first wait                                 *)
  Ceiling,        (* Retry: the longest wait it works out                  *)
  RepeatTimeouts, (* Retry: whether a call that timed out is repeated      *)
  RetryAfter      (* what a provider that names a wait asks for            *)

ASSUME PolicyAssumption ==
  /\ First \in Nat /\ Longest \in Nat /\ Settled \in Nat
  /\ Attempts \in Nat \ {0} /\ Base \in Nat /\ Ceiling \in Nat
  /\ RepeatTimeouts \in BOOLEAN /\ RetryAfter \in Nat

(* Both policies stop doubling.  The breaker stops at the width of a u32;  *)
(* 30 is as far as TLC's integers go.                                      *)
BreakerDoublings == 30
RetryDoublings == 16

(* The arithmetic fact the provers do not have about the exponents used.   *)
ASSUME PowerAssumption == \A k \in 0..BreakerDoublings : 2^k \in Nat \ {0}

-----------------------------------------------------------------------------
(* What a provider can answer instead of a reply.  A rate limit comes with *)
(* the time it clears ("rate_limited_for") or without one.                 *)
Failures ==
  {"auth", "not_found", "rate_limited", "rate_limited_for", "timeout",
   "invalid", "unsupported", "refused", "transient", "unreadable"}

IsRetryable(e) == e \in {"rate_limited", "rate_limited_for", "timeout", "transient"}

Least(a, b) == IF a <= b THEN a ELSE b

(* start, doubled d times and then capped.                                 *)
Doubled(start, d, cap) == Least(start * 2^d, cap)

-----------------------------------------------------------------------------
(* Breaker *)

Backoff(failures) ==
  Doubled(First, Least(IF failures = 0 THEN 0 ELSE failures - 1, BreakerDoublings), Longest)

(* The failures that say nothing about the provider open no circuit.       *)
Opens(e) == e \notin {"refused", "invalid", "unsupported", "unreadable"}

OpeningFor(failures, e) ==
  CASE e = "rate_limited_for"        -> RetryAfter
    [] e \in {"auth", "not_found"}   -> Settled
    [] OTHER                         -> Backoff(failures)

-----------------------------------------------------------------------------
(* Retry *)

(* Equal jitter: half the doubled wait, plus a share of the other half.    *)
Jittered(next) ==
  LET capped == Doubled(Base, Least(IF next <= 2 THEN 0 ELSE next - 2, RetryDoublings), Ceiling)
  IN  (capped \div 2) .. capped

(* Two slips: one attempt too many, and the local backoff used even when   *)
(* the provider said how long to wait.                                     *)
WaitsBefore_OneMore(next, e) ==
  IF next > Attempts + 1 \/ ~IsRetryable(e) THEN {} ELSE Jittered(next)

WaitsBefore_NeverAsked(next, e) ==
  IF \/ next > Attempts
     \/ ~IsRetryable(e)
     \/ e = "timeout" /\ ~RepeatTimeouts
  THEN {}
  ELSE Jittered(next)

(* The waits the policy may choose before attempt number next; none when   *)
(* the route is not to be asked again.                                     *)
WaitsBefore(next, e) ==
  IF \/ next > Attempts
     \/ ~IsRetryable(e)
     \/ e = "timeout" /\ ~RepeatTimeouts
  THEN {}
  ELSE IF e = "rate_limited_for" THEN {RetryAfter} ELSE Jittered(next)
=============================================================================
