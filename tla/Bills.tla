------------------------------- MODULE Bills --------------------------------
(***************************************************************************)
(* Calls, the rows they leave and what is said of them, against what the   *)
(* vendors bill.  Media calls are served by Media; chat calls come with    *)
(* what they consumed and what of it was reported, and leave the row       *)
(* Completions has for them.  A program that uses the library instead of   *)
(* the gateway keeps a ledger of the same chat calls.                      *)
(***************************************************************************)
EXTENDS Media

CONSTANTS
  Chats,      (* chat calls: [how, route, served, outcome, reported, consumed] *)
  MaxChats, MaxNow,
  Filters, Limits

(* A chat call is of a model some provider has, and what is reported of it *)
(* is what it consumed.                                                    *)
ChatCounted(c) ==
  /\ c.route \in DOMAIN Split /\ Split[c.route].provider \in DOMAIN Built
  /\ c.consumed \in [Counts -> Nat]
  /\ DOMAIN c.reported = Counts
  /\ \A n \in Counts : c.reported[n] \in {None, Some(c.consumed[n])}

ASSUME BillsAssumption == Limits \subseteq Nat \ {0} /\ \A c \in Chats : ChatCounted(c)

VARIABLES
  ledger,  (* of a program that made the chat calls with the library       *)
  bills    (* history: what was billed for each request that had an answer *)

allVars == <<vars, ledger, bills>>

(* Chat calls are numbered after the media calls.                          *)
Chatted == {id \in DOMAIN bills : id > MaxCalls}
NextChat == MaxCalls + Cardinality(Chatted) + 1

Billed(id, bill) ==
  bills' = [i \in DOMAIN bills \cup {id} |-> IF i = id THEN bill ELSE bills[i]]

-----------------------------------------------------------------------------
(* What is billed, times Million, and only for what the provider's book has*)
(* a rate for.  Hardware of one's own costs what was set by hand.          *)

Charges(provider, model) ==
  /\ model \in DOMAIN Built[provider].origins
  /\ Built[provider].on_device => Built[provider].origins[model].from = "manual"

(* The model whose rate is billed: the one that served, or the one asked.  *)
ModelBilled(provider, target, served) ==
  OrElse(When(Charges(provider, served), served), When(Charges(provider, target), target))

NoUnitsUsed == [unit \in DOMAIN NoUnits |-> 0]

Charge(rate, tokens, units) ==
  SumFunction([c \in Counts |-> tokens[c] * rate[c]])
  + SumFunction([p \in UnitParts |-> units[Measure[p]] * rate[p] * (Million \div Per[p])])

(* The model whose price cost_with finds, of what is reported.             *)
ModelPriced(provider, target, served, usage, units) ==
  LET priced(model) == PriceOf(Built[provider], model, usage, units) # None IN
  OrElse(When(priced(served), served), When(priced(target), target))

(* used is what the call consumed, and told what is reported of it.        *)
Bill(provider, target, served, used, told) ==
  LET model == ModelBilled(provider, target, served)
      rate == IF model = None THEN NoRate ELSE Built[provider].prices.rates[model[1]]
  IN [provider |-> provider, currency |-> Built[provider].prices.currency,
      amount |-> Charge(rate, used.tokens, used.units),
      model |-> model, priced |-> ModelPriced(provider, target, served, told.tokens, told.units)]

(* What the requests are billed for in a currency.                         *)
BillIn(ids, currency) ==
  SumFunction([id \in {i \in ids \cap DOMAIN bills : bills[i].currency = currency} |->
                 bills[id].amount])

(* Each line of a bill is truncated, so a call may be short of one micro   *)
(* for each part of a rate.                                                *)
PartsOfARate == Cardinality(Counts \cup UnitParts)
Within(amount, bill, calls) == bill < (amount + calls * PartsOfARate) * Million

-----------------------------------------------------------------------------

RouteOf(name) == [name |-> name, provider |-> Split[name].provider]

(* The book a program with the library has for a provider: of the models it*)
(* pays for.                                                               *)
BookOf(provider) ==
  LET prices == Built[provider].prices
      paid == {model \in DOMAIN prices.rates : Charges(provider, model)}
  IN When(paid # {}, [prices EXCEPT !.rates = Restrict(@, paid)])

(* answered_row, a failed one, or none when a whole call's client left; and*)
(* the same call in the ledger.                                            *)
ChatCall(c) ==
  LET provider == Split[c.route].provider
      target == Split[c.route].model
      cost == CostWith(Built[provider], target, c.served, c.reported, NoUnits)
      bill == Bill(provider, target, c.served, [tokens |-> c.consumed, units |-> NoUnitsUsed],
                   [tokens |-> c.reported, units |-> NoUnits])
  IN /\ Cardinality(Chatted) < MaxChats
     /\ \/ /\ c.how = "answered"
           /\ Enqueue(AnsweredRow(NextChat, c.route, RouteOf(c.route), c.served, c.outcome, 1, 0,
                                  c.reported, cost))
           /\ ledger' = Record(ledger, BookOf(provider), c.served, c.reported)
           /\ Billed(NextChat, bill)
        \/ /\ c.how = "cancelled"
           /\ ledger' = RecordCancelled(ledger)
           /\ Billed(NextChat, bill)
           /\ UNCHANGED queue
        \/ /\ c.how = "failed"
           /\ Enqueue(FailedRow(NextChat, c.route, "upstream_unavailable"))
           /\ Billed(NextChat, [bill EXCEPT !.amount = 0])
           /\ UNCHANGED ledger
     /\ UNCHANGED <<now, table, nextId, walk, forgot, call, log>>

(* A step of the media call that may have brought an answer.               *)
MediaStep ==
  /\ Serve
  /\ LET answered == log'[Number].billed IN
     IF answered = None THEN UNCHANGED bills
     ELSE LET b == answered[1] IN
          Billed(Number, Bill(b.provider, b.target, b.served, b.consumed, b.reported))
  /\ UNCHANGED ledger

Init == MediaInit /\ ledger = <<>> /\ bills = <<>>

Next ==
  \/ (\E sends \in Sends : Arrive(sends)) /\ UNCHANGED <<ledger, bills>>
  \/ MediaStep
  \/ \E c \in Chats : ChatCall(c)
  \/ /\ \/ Write \/ NextPage \/ EndWalk
        \/ \E filter \in Filters, limit \in Limits : StartWalk(filter, limit)
        \/ \E before \in 1..MaxNow : Forget(before)
        \/ now < MaxNow /\ Tick
     /\ UNCHANGED <<call, log, ledger, bills>>

Spec == Init /\ [][Next]_allVars

-----------------------------------------------------------------------------
(* Properties *)

Monies == {Built[p].prices.currency : p \in DOMAIN Built}

AmountIn(totals, currency) ==
  IF currency \in DOMAIN totals.amounts THEN totals.amounts[currency] ELSE 0

(* The model that served has a price of its own, nothing measured it, and  *)
(* the row is at the price of the one asked for.                           *)
Misjudged(id) == bills[id].priced # None /\ bills[id].priced # bills[id].model

(* Nothing measured what was set by hand for one's own hardware, and the   *)
(* row says the call was free.                                             *)
Overlooked(id) ==
  bills[id].priced = None /\ bills[id].model # None /\ Built[bills[id].provider].on_device

Among(requests, Fault(_)) == \E id \in requests \cap DOMAIN bills : Fault(id)

SumsAreFloors(filter, grouping) ==
  LET summary == Summary(filter, grouping)
      requests(key) == RequestsOf({id \in Ids(filter) : KeyOf(grouping, table[id]) = key})
  IN /\ \A key \in DOMAIN summary, currency \in Monies :
          LET totals == summary[key]
              amount == AmountIn(totals, currency)
              bill == BillIn(requests(key), currency)
              calls == Cardinality(requests(key))
          IN ~Among(requests(key), Misjudged) =>
               /\ amount * Million <= bill
               /\ Complete(totals) /\ ~Among(requests(key), Overlooked) /\ bill <= Most =>
                    Within(amount, bill, calls)
     /\ AbsorbAll(summary) = TotalOf(filter)

LedgerIsAFloor ==
  LET totals == Totals(ledger) IN
  /\ \A c \in DOMAIN totals :
       LET total == totals[c] bill == BillIn(Chatted, c) IN
       /\ total.amount * Million <= bill
       /\ total.kind = "exact" /\ bill <= Most => Within(total.amount, bill, Len(ledger))
  /\ (Total(ledger) = None) <=> (Cardinality(DOMAIN totals) > 1)

(* Whatever the rows and however they are grouped, an amount is never more *)
(* than the vendors bill for the requests it is of, in its currency, unless*)
(* one of them is misjudged; where it is said to be complete, and the bill *)
(* is one an i64 holds and none is overlooked, it is that bill, but for the*)
(* micros truncation takes; groups add up to the total; and the ledger of  *)
(* the same calls keeps the same promise, of all of them (price_with,      *)
(* cost_with, usage_summary, Ledger).                                      *)
BillIsAFloor ==
  /\ \A filter \in {f \in Filters : Readable(f)}, grouping \in Groupings :
       SumsAreFloors(filter, grouping)
  /\ LedgerIsAFloor

-----------------------------------------------------------------------------
(* Media calls *)

Rows == Range(table) \cup ToSet(queue)
RowsOf(n) == {row \in Rows : row.request_id = n}
Over(n) == log[n].how # "open"

Repeats(plan, before, after) ==
  /\ Policy(plan.attempts)!IsRetryable(before.failed[1])
  /\ before.failed[1] = "rate_limited_for" => after.at >= before.at + RetryAfter

TimesAsked(tries, at) == Cardinality({j \in DOMAIN tries : tries[j].route = at})

(* The tries a plan allows: its routes in order, each as long as trying    *)
(* again is worth it, none past the deadline and none after a refusal.     *)
TriesKept(entry) ==
  LET tries == entry.tries plan == entry.plan[1] IN
  /\ \A i \in DOMAIN tries :
       LET try == tries[i] route == Split[plan.routes[try.route]] IN
       /\ plan.deadline # None => try.at < plan.deadline[1]
       /\ entry.sends.private \/ plan.on_device => Built[route.provider].on_device
       /\ TimesAsked(tries, try.route) <= plan.attempts
  /\ \A i \in 1..Len(tries) - 1 :
       /\ tries[i].failed \notin {None, Some("refused")}
       /\ \/ tries[i].route < tries[i + 1].route
          \/ tries[i].route = tries[i + 1].route /\ Repeats(plan, tries[i], tries[i + 1])

RowTells(entry, row) ==
  LET tries == entry.tries
      answering == entry.plan[1].routes[Last(tries).route]
  IN IF entry.how = "answered"
     THEN /\ row.outcome = "ok" /\ row.code = None /\ row.route = Some(answering)
          /\ row.attempts = Len(tries) /\ Last(tries).failed = None
          /\ row.fell_through >= Last(tries).route - 1
          /\ row.served # None /\ row.cost.status \in Statuses
          /\ LET told == entry.answer[1] IN
             /\ row.route = Some(told.route) /\ row.attempts = told.attempts
             /\ row.fell_through = told.fell_through /\ row.cost = told.cost
     ELSE /\ row.outcome = IF entry.how = "refused" THEN "refused" ELSE "error"
          /\ row.route = None /\ row.cost = NoCost /\ row.code # None
          /\ entry.how = "refused" <=> \E i \in DOMAIN tries : tries[i].failed = Some("refused")

(* A call to an endpoint beside chat that is over has one row, but for a   *)
(* body that was no JSON, a client that left and a row forgotten since; the*)
(* row tells what the tries came to and what the client was told, and the  *)
(* tries are those its plan allows: order, attempts, waits, floor and      *)
(* deadline (Gateway::media, Call::answered, Call::failed).                *)
OneRowTellsTheCall ==
  \A n \in DOMAIN log :
    LET entry == log[n] IN
    /\ entry.plan # None => TriesKept(entry)
    /\ Over(n) =>
         /\ Cardinality(RowsOf(n)) <= 1
         /\ (RowsOf(n) = {}) <=> (entry.how \in {"unread", "left"} \/ n \in forgot)
         /\ \A row \in RowsOf(n) :
              IF entry.plan = None THEN row.outcome = "error" /\ row.attempts = 0
              ELSE RowTells(entry, row)

(* The pictures in a vendor's reply.                                       *)
DrawnIn(type, reply) ==
  IF type = "openai" THEN reply.data
  ELSE LET made == Typed(reply.parts, "image")
       IN [i \in DOMAIN made |-> [bytes |-> Some(made[i].of), url |-> None]]

(* Gemini says what each picture is.  An OpenAI vendor says it of them all,*)
(* or says nothing of what it was asked to draw and drew.                  *)
SaysItsForm(type, request, reply, form) ==
  \/ type = "gemini"
  \/ reply.format = Some(form)
  \/ reply.format = None /\ request.output_format \in {None, Some(form)}

(* Every picture of the reply in its place, typed as what it is.           *)
Shows(type, request, reply, body) ==
  LET drawn == DrawnIn(type, reply) IN
  /\ drawn # <<>> /\ DOMAIN body.data = DOMAIN drawn
  /\ \A i \in DOMAIN drawn :
       LET given == body.data[i] bytes == drawn[i].bytes IN
       /\ given.as = IF bytes # None THEN "b64_json" ELSE "url"
       /\ bytes # None =>
            /\ body.format = Some(given.of)
            /\ bytes[1] \in Signatures /\ SaysItsForm(type, request, reply, bytes[1]) =>
                 given.of = bytes[1]

(* What a reply holds, against what was asked and what the vendor sent.    *)
Honours(endpoint, type, request, reply, body) ==
  CASE endpoint = "embeddings" ->
         /\ [i \in DOMAIN body.data |-> body.data[i].of] = request.inputs
         /\ request.dimensions # None => body.data[1].width = request.dimensions[1]
    [] endpoint = "images" ->
         /\ Shows(type, request, reply, body)
         /\ type = "gemini" =>
              request.count \in {None, Some(1)} /\ request.response_format \in {None, Some("b64_json")}
    [] endpoint = "speech" ->
         /\ request.format # None => body.recording = request.format[1]
         /\ body.content_type = SpokenTypes[body.recording]
    [] endpoint = "transcriptions" -> body.text = "said"

(* An answer is what was asked for as far as the readers see to it,        *)
(* whichever provider it fell through to: a vector for each input in the   *)
(* order of the inputs, the first of the width asked for; every picture the*)
(* vendor sent, in its place, as bytes or as a link as it came, and typed  *)
(* as what it is unless the vendor drew another form than it was asked for *)
(* and did not say so; none of a Gemini that was asked for more than one or*)
(* for links; speech that holds what its type says; and the words that were*)
(* said (the readers of embed.rs, image.rs, audio.rs and gemini/media.rs,  *)
(* and the writers of media.rs).  That pictures are as many as were asked  *)
(* for, or links when links were, and that a vector beside the first has   *)
(* the width, no reader looks at.                                          *)
AnswersWhatWasAsked ==
  \A n \in DOMAIN log :
    LET entry == log[n] IN
    entry.how = "answered" =>
      Honours(entry.sends.endpoint, Built[entry.billed[1].provider].type,
              ReadMedia(entry.sends.endpoint, entry.sends.sent.body), entry.billed[1].replied,
              entry.answer[1].body)

-----------------------------------------------------------------------------
(* What Gateway::media promises of a call, as the router does of a request *)

(* The plan its name resolves to, of every call that may be made.          *)
PlanFor ==
  [sends \in Sends |-> ResolveMedia(AskedModel(sends.sent), KindAt[sends.endpoint]).plan]
Planned == {sends \in Sends : PlanFor[sends] # None}

CanServe(sends, plan, route) ==
  LET place == Split[route].provider IN
  /\ place \in DOMAIN Built
  /\ Serves(Built[place].type, KindAt[sends.endpoint])
  /\ sends.private \/ plan.on_device => Built[place].on_device

(* Routes are told by their place: a plan may list one twice.              *)
WishFor ==
  [sends \in Planned |->
     LET plan == PlanFor[sends][1] IN
     [routes |-> DOMAIN plan.routes,
      able |-> {at \in DOMAIN plan.routes : CanServe(sends, plan, plan.routes[at])},
      attempts |-> plan.attempts]]

Wished == {WishFor[sends] : sends \in Planned}
Wishes(n) == Wished

(* A route taken up but not asked yet may still be passed over, and one    *)
(* that is to be asked again may still be given up.                        *)
Choosing(wish, c) ==
  [phase |-> "choosing", wish |-> wish, left |-> {at \in wish.routes : at >= c.at}]
Asking(wish, c, times) ==
  [phase |-> "asking", wish |-> wish, left |-> {at \in wish.routes : at > c.at},
   at |-> c.at, times |-> times]

InHand(wish, c) ==
  CASE c.phase = "choosing" -> Choosing(wish, c)
    [] c.phase = "asking"   -> IF c.attempt = 1 THEN Choosing(wish, c)
                               ELSE Asking(wish, c, c.attempt - 1)
    [] OTHER                -> Asking(wish, c, c.attempt)

(* What is left of a call's promise.                                       *)
Promise(entry, c) ==
  IF entry.how = "open" THEN InHand(WishFor[entry.sends], c)
  ELSE [phase |-> "over", at |-> IF entry.how = "answered" THEN Last(entry.tries).route ELSE 0]

PromiseOf(n, entries, c) ==
  IF n \in DOMAIN entries THEN Promise(entries[n], c) ELSE [phase |-> "unmade"]

Abstract == INSTANCE RequestPromise
  WITH Requests <- 1..MaxCalls, promise <- [n \in 1..MaxCalls |-> PromiseOf(n, log, call)]

(* A media call keeps the promise of RequestPromise: the routes of its     *)
(* plan are taken up in turn and never come back to, each is asked within  *)
(* the plan's attempts and only if it was built, has the endpoint and may  *)
(* be given the data; the answer is of the route asked last, and once      *)
(* there is one, or a refusal, or no time, nobody is asked any more        *)
(* (Gateway::media).                                                       *)
MediaKeepsPromise == Abstract!Spec
=============================================================================
