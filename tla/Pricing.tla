------------------------------ MODULE Pricing -------------------------------
(***************************************************************************)
(* What a call costs.  A rate charges by the token and by the unit, a book *)
(* has a rate for each model it lists, the gateway looks for the model     *)
(* that served and then for the one it asked, and a ledger adds up what    *)
(* the calls of a run came to.  Money is a whole number of micros.         *)
(***************************************************************************)
EXTENDS Integers, Chat

CONSTANTS
  Million,   (* tokens, or characters, a rate is for                       *)
  Thousand,  (* milliseconds of a second of audio                          *)
  Most       (* the largest amount an i64 holds                            *)

ASSUME PricingAssumption ==
  /\ Million \in Nat \ {0} /\ Thousand \in Nat \ {0} /\ Most \in Nat
  /\ Million % Thousand = 0

(* Parts of a rate that are not by the token: what measures each, and the  *)
(* number of it the rate is for.                                           *)
UnitParts == {"image", "audio_second", "character"}
Measure == [image |-> "images", audio_second |-> "audio_millis", character |-> "characters"]
Per == [image |-> 1, audio_second |-> Thousand, character |-> Million]

NoRate == [part \in Counts \cup UnitParts |-> 0]
NoUnits == [unit \in {"images", "audio_millis", "characters"} |-> None]

ByToken(rate) == \E c \in Counts : rate[c] # 0

Saturated(n) == IF n > Most THEN Most ELSE n

(* A line of the bill: truncated, and held at the largest amount.          *)
Line(count, price, per) == Saturated(count * price) \div per

Tokens(usage, rate) ==
  Saturated(SumFunction([c \in Counts |-> Line(Or(usage[c], 0), rate[c], Million)]))

(* What units come to, of the parts of a rate that they measure.           *)
UnitLines(units, rate, measured) ==
  SumFunction([p \in measured |-> Line(units[Measure[p]][1], rate[p], Per[p])])

Priced(amount, book, coverage) ==
  [amount |-> amount, currency |-> book.currency, book |-> book.id, coverage |-> coverage]

(* A part nothing measured is not missed. *)
PriceWith_MissingIsExact(book, model, usage, units) ==
  LET rate == IF model \in DOMAIN book.rates THEN book.rates[model] ELSE NoRate
      read == IF ByToken(rate) THEN Coverage(usage) ELSE "absent"
      measured == {p \in UnitParts : rate[p] # 0 /\ units[Measure[p]] # None}
      tokens == IF read = "absent" THEN 0 ELSE Tokens(usage, rate)
  IN When(read # "absent" \/ measured # {},
          Priced(Saturated(tokens + UnitLines(units, rate, measured)), book,
                 IF read = "absent" THEN "exact" ELSE read))

(* Each part of the rate by what measured it.  A part whose measure is     *)
(* missing is left out and said to be; nothing measured is no price.       *)
PriceWith(book, model, usage, units) ==
  LET rate == IF model \in DOMAIN book.rates THEN book.rates[model] ELSE NoRate
      read == IF ByToken(rate) THEN Coverage(usage) ELSE "absent"
      charged == {p \in UnitParts : rate[p] # 0}
      measured == {p \in charged : units[Measure[p]] # None}
      missing == measured # charged \/ (ByToken(rate) /\ read = "absent")
      tokens == IF read = "absent" THEN 0 ELSE Tokens(usage, rate)
      coverage == IF missing THEN "partial" ELSE IF read = "absent" THEN "exact" ELSE read
  IN When(read # "absent" \/ measured # {},
          Priced(Saturated(tokens + UnitLines(units, rate, measured)), book, coverage))

-----------------------------------------------------------------------------
(* What a usage row and a reply say of it *)

PricedCost(priced, edition) ==
  [status |-> IF priced.coverage = "exact" THEN "priced" ELSE "partial",
   micros |-> Some(priced.amount), currency |-> Some(priced.currency), book |-> Some(edition)]
CostSaying(status) == [status |-> status, micros |-> None, currency |-> None, book |-> None]
Unpriced == CostSaying("unpriced")
Free     == CostSaying("free")
NoCost   == CostSaying("none")

(* The price a provider has for a model, unless a published one is asked   *)
(* of hardware that is somebody's own.                                     *)
PriceOf(built, model, usage, units) ==
  IF \/ model \notin DOMAIN built.origins
     \/ built.on_device /\ built.origins[model].from # "manual"
  THEN None
  ELSE LET priced == PriceWith(built.prices, model, usage, units) IN
       IF priced = None THEN None
       ELSE Some(PricedCost(priced[1], built.origins[model].edition))

(* The model that served, then the one the route names.                    *)
CostWith(built, target, served, usage, units) ==
  LET price == OrElse(PriceOf(built, served, usage, units),
                      PriceOf(built, target, usage, units))
  IN Or(price, IF built.on_device THEN Free ELSE Unpriced)

-----------------------------------------------------------------------------
(* A ledger: the cost of each call, as it was recorded *)

RecordUnpriced(ledger) == Append(ledger, None)

(* What a reply to a chat came to, by the book there is for it.            *)
Record(ledger, book, model, usage) ==
  Append(ledger, IF book = None THEN None ELSE PriceWith(book[1], model, usage, NoUnits))

(* A call dropped before its reply was read was made all the same.         *)
RecordCancelled(ledger) == RecordUnpriced(ledger)

Absorb(ledger, other) == ledger \o other

(* The calls it has a price for, by their places.                          *)
PricedLines(ledger) == {i \in DOMAIN ledger : ledger[i] # None}
UnpricedCalls(ledger) == Len(ledger) - Cardinality(PricedLines(ledger))
Currencies(ledger) == {ledger[i][1].currency : i \in PricedLines(ledger)}
InCurrency(ledger, currency) == {i \in PricedLines(ledger) : ledger[i][1].currency = currency}

Amount(ledger, lines) == Saturated(SumFunction([i \in lines |-> ledger[i][1].amount]))

(* An estimate may be wrong either way, so it outranks a floor.            *)
TotalKind(ledger, lines) ==
  LET found == {ledger[i][1].coverage : i \in lines} IN
  IF "estimated" \in found THEN "about"
  ELSE IF UnpricedCalls(ledger) > 0 \/ ~(found \subseteq {"exact"}) THEN "at_least"
  ELSE "exact"

Figure(ledger, lines) == [kind |-> TotalKind(ledger, lines), amount |-> Amount(ledger, lines)]

(* One figure per currency, and one for the run when there is one currency.*)
Totals(ledger) == [c \in Currencies(ledger) |-> Figure(ledger, InCurrency(ledger, c))]

Total(ledger) == When(Cardinality(Currencies(ledger)) <= 1, Figure(ledger, PricedLines(ledger)))

Estimated(ledger) ==
  LET of(c) == {i \in InCurrency(ledger, c) : ledger[i][1].coverage = "estimated"}
  IN [c \in {d \in Currencies(ledger) : of(d) # {}} |-> Amount(ledger, of(c))]
=============================================================================
