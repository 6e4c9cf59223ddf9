--------------------------- MODULE RequestPromise ---------------------------
(***************************************************************************)
(* What the loops of Router and of Gateway::media promise the caller of    *)
(* one request, whatever the other requests, the clock, the circuits and   *)
(* the budget do: routes are taken up one at a time and never come back    *)
(* to, each is asked a limited number of times and only if it can do the   *)
(* work, a reply comes from the route being asked, and once the answer is  *)
(* decided nobody is asked anything more.                                  *)
(*                                                                         *)
(* A wish is what a request comes with: the routes it may be sent to, the  *)
(* able ones among them, and how often one of them may be asked.           *)
(***************************************************************************)
EXTENDS Naturals

CONSTANTS
  Requests,
  Wishes(_)   (* the wishes a request may come with                        *)

VARIABLE promise  (* how far each request has got *)

Unmade           == [phase |-> "unmade"]
Choosing(w, left) == [phase |-> "choosing", wish |-> w, left |-> left]
Asking(w, left, r, n) ==
  [phase |-> "asking", wish |-> w, left |-> left, at |-> r, times |-> n]
Over(answer)     == [phase |-> "over", at |-> answer]

Init == promise = [q \in Requests |-> Unmade]

Becomes(q, state) == promise' = [promise EXCEPT ![q] = state]

Make(q) ==
  /\ promise[q].phase = "unmade"
  /\ \E w \in Wishes(q) : Becomes(q, Choosing(w, w.routes))

Pass(q) ==
  /\ promise[q].phase = "choosing"
  /\ \E r \in promise[q].left : Becomes(q, Choosing(promise[q].wish, promise[q].left \ {r}))

Ask(q) ==
  /\ promise[q].phase = "choosing"
  /\ \E r \in promise[q].left \cap promise[q].wish.able :
       Becomes(q, Asking(promise[q].wish, promise[q].left \ {r}, r, 1))

AskAgain(q) ==
  /\ promise[q].phase = "asking" /\ promise[q].times < promise[q].wish.attempts
  /\ Becomes(q, [promise[q] EXCEPT !.times = @ + 1])

GiveUpOn(q) ==
  /\ promise[q].phase = "asking"
  /\ Becomes(q, Choosing(promise[q].wish, promise[q].left))

Reply(q) ==
  /\ promise[q].phase = "asking"
  /\ Becomes(q, Over(promise[q].at))

(* There may be no answer at any time, and before anything is tried.       *)
Fail(q) ==
  /\ promise[q].phase # "over"
  /\ Becomes(q, Over(0))

Next == \E q \in Requests :
  \/ Make(q) \/ Pass(q) \/ Ask(q) \/ AskAgain(q) \/ GiveUpOn(q) \/ Reply(q) \/ Fail(q)

Spec == Init /\ [][Next]_promise
=============================================================================
