--------------------------- MODULE Exchange_proofs ---------------------------
(***************************************************************************)
(* For any routes, names, questions and replies: no setting asked for is   *)
(* lost on the way to a vendor and nothing private leaves the device; and  *)
(* the vendor reads the conversation the client holds, which the client can*)
(* always send back.  A conversation is followed message by message through*)
(* the reader, then turn by turn through each protocol.                    *)
(***************************************************************************)
EXTENDS Exchange, Lists_proofs, FiniteSetsExt

-----------------------------------------------------------------------------
(* Optional values and lists *)

LEMMA SomeHas ==
  ASSUME NEW x
  PROVE  Some(x) # None /\ Some(x)[1] = x
BY DEF Some, None

LEMMA WhenIs ==
  ASSUME NEW U, NEW x \in U, NEW condition
  PROVE  /\ When(condition, x) \in Seq(U)
         /\ When(condition, x) = None <=> ~condition
BY DEF When, None

(* Lists that are nothing together are nothing each.                       *)
LEMMA NothingEach ==
  ASSUME NEW U, NEW s \in Seq(U), NEW t \in Seq(U)
  PROVE  /\ s \o t \in Seq(U)
         /\ s \o t = <<>> => s = <<>> /\ t = <<>>
OBVIOUS

(* What is kept of a list is nothing only where nothing is in the set.     *)
LEMMA KeepsNothing ==
  ASSUME NEW U, NEW s \in Seq(U), NEW S, Only(s, S) = <<>>
  PROVE  \A i \in DOMAIN s : s[i] \notin S
<1>. SUFFICES ASSUME NEW i \in DOMAIN s, s[i] \in S
              PROVE  FALSE
  OBVIOUS
<1>. QED
  BY OnlyBegins

-----------------------------------------------------------------------------
(* What is known of a request that was read *)

Faultless(body) ==
  /\ body.odd = {} /\ body.max # Some(0) /\ ~ReadMessages(body.messages).wrong
  /\ body.format # None => Or(body.format, "") \in Formats
  /\ body.effort # None => Or(body.effort, "") \in DOMAIN Efforts

(* Nothing is at fault with a body that is read.                           *)
LEMMA NoFaults ==
  ASSUME NEW body, Spelt(body), Faults(body) = <<>>
  PROVE  Faultless(body)
<1>. DEFINE read == ReadMessages(body.messages)
            odd == Only(CannotBeHonoured, body.odd)
            mute == read.wrong \/ read.messages = <<>>
            format == body.format # None /\ Or(body.format, "") \notin Formats
            effort == body.effort # None /\ Or(body.effort, "") \notin DOMAIN Efforts
            f1 == When(body.model = <<>>, "model")
            f3 == When(mute, "messages")
            f4 == When(body.max = Some(0), "max_tokens")
            f5 == When(body.temperature = Some("no number"), "temperature")
            f6 == When(body.top_p = Some("no number"), "top_p")
            f7 == When(~ReadTools(body.tools), "tools")
            f8 == When(format, "response_format")
            f9 == When(effort, "reasoning_effort")
<1>1. f1 \o odd \o f3 \o f4 \o f5 \o f6 \o f7 \o f8 \o f9 = <<>>
  BY DEF Faults
<1>. DEFINE Others == {"model", "messages", "max_tokens", "temperature", "top_p", "tools",
                       "response_format", "reasoning_effort"}
            Fields == ToSet(CannotBeHonoured) \cup Others
<1>2. CannotBeHonoured \in Seq(Fields)
  <2>1. DOMAIN CannotBeHonoured = 1..12
        /\ CannotBeHonoured = [i \in 1..12 |-> CannotBeHonoured[i]]
    BY DEF CannotBeHonoured
  <2>2. \A i \in 1..12 : CannotBeHonoured[i] \in Fields
    BY <2>1 DEF ToSet
  <2>. HIDE DEF Fields
  <2>3. CannotBeHonoured \in [1..12 -> Fields] /\ 12 \in Nat
    BY <2>1, <2>2
  <2>4. CannotBeHonoured \in UNION {[1..m -> Fields] : m \in Nat}
    BY <2>3, Zenon
  <2>. QED
    BY <2>4, SeqDef, Zenon
<1>3. /\ f1 \in Seq(Fields) /\ f3 \in Seq(Fields) /\ f4 \in Seq(Fields) /\ f5 \in Seq(Fields)
      /\ f6 \in Seq(Fields) /\ f7 \in Seq(Fields) /\ f8 \in Seq(Fields) /\ f9 \in Seq(Fields)
      /\ odd \in Seq(Fields)
  <2>1. /\ "model" \in Fields /\ "messages" \in Fields /\ "max_tokens" \in Fields
        /\ "temperature" \in Fields /\ "top_p" \in Fields /\ "tools" \in Fields
        /\ "response_format" \in Fields /\ "reasoning_effort" \in Fields
    OBVIOUS
  <2>. HIDE DEF Fields
  <2>2. odd \in Seq(Fields)
    BY <1>2, OnlyIsList
  <2>3. f1 \in Seq(Fields) /\ f3 \in Seq(Fields) /\ f4 \in Seq(Fields) /\ f5 \in Seq(Fields)
    BY <2>1, WhenIs, Zenon
  <2>4. f6 \in Seq(Fields) /\ f7 \in Seq(Fields) /\ f8 \in Seq(Fields) /\ f9 \in Seq(Fields)
    BY <2>1, WhenIs, Zenon
  <2>. QED
    BY <2>2, <2>3, <2>4
<1>4. /\ (f3 = <<>> => ~read.wrong) /\ (f4 = <<>> => body.max # Some(0))
      /\ (f8 = <<>> => ~format) /\ (f9 = <<>> => ~effort)
  BY WhenIs, Zenon DEF None
<1>. HIDE DEF Fields, odd, f1, f3, f4, f5, f6, f7, f8, f9
<1>5. odd = <<>> /\ f3 = <<>> /\ f4 = <<>> /\ f8 = <<>> /\ f9 = <<>>
  <2>. DEFINE to3 == f1 \o odd \o f3
              to4 == to3 \o f4
              to7 == to4 \o f5 \o f6 \o f7
              to8 == to7 \o f8
  <2>1. to3 \in Seq(Fields) /\ to4 \in Seq(Fields) /\ to7 \in Seq(Fields) /\ to8 \in Seq(Fields)
    BY <1>3, NothingEach
  <2>2. to8 = <<>> /\ f9 = <<>>
    BY <1>1, <1>3, <2>1, NothingEach
  <2>3. to7 = <<>> /\ f8 = <<>>
    BY <1>3, <2>1, <2>2, NothingEach
  <2>4. to4 = <<>>
    BY <1>3, <2>3, NothingEach
  <2>5. to3 = <<>> /\ f4 = <<>>
    BY <1>3, <2>1, <2>4, NothingEach
  <2>6. odd = <<>> /\ f3 = <<>>
    BY <1>3, <2>5, NothingEach
  <2>. QED
    BY <2>2, <2>3, <2>5, <2>6
<1>6. body.odd = {}
  <2>1. \A i \in DOMAIN CannotBeHonoured : CannotBeHonoured[i] \notin body.odd
    BY <1>2, <1>5, KeepsNothing DEF odd
  <2>2. body.odd \subseteq {CannotBeHonoured[i] : i \in DOMAIN CannotBeHonoured}
    BY Zenon DEF Spelt, ToSet
  <2>. QED
    BY <2>1, <2>2, Zenon
<1>. QED
  BY <1>4, <1>5, <1>6 DEF Faultless

(* The settings of a body, read.                                           *)
Reads(read, body) ==
  /\ read.max = body.max /\ read.temperature = body.temperature
  /\ read.top_p = body.top_p /\ read.tools = body.tools
  /\ read.schema = ReadResponseFormat(body.format)
  /\ read.thinking = ReadEffort(body.effort) /\ read.stream = body.stream

LEMMA ReadIs ==
  ASSUME NEW body, Spelt(body), ReadRequest(body).param = None
  PROVE  Faultless(body) /\ Reads(ReadRequest(body), body)
<1>1. Faults(body) = <<>>
  <2>1. SUFFICES ASSUME Faults(body) # <<>> PROVE FALSE
    OBVIOUS
  <2>2. ReadRequest(body).param = Some(Head(Faults(body)))
    BY <2>1 DEF ReadRequest
  <2>. QED
    BY <2>2, SomeHas, Zenon
<1>2. Reads(ReadRequest(body), body)
  BY <1>1 DEF ReadRequest, Reads
<1>. QED
  BY <1>1, <1>2, NoFaults

(* What is asked of a model's reasoning.                                   *)
Levels == {"low", "medium", "high", "xhigh", "max"}

LEMMA EffortIs ==
  ASSUME NEW body, Spelt(body), Faultless(body)
  PROVE  /\ ReadEffort(body.effort) \in {"unset", "off"} \cup Levels
         /\ ReadEffort(body.effort) = "unset" <=> body.effort = None
         /\ ReadEffort(body.effort) = "off" <=> body.effort = Some("none")
<1>1. CASE body.effort = None
  BY <1>1, SomeHas DEF ReadEffort
<1>2. CASE body.effort # None
  <2>. DEFINE e == body.effort[1]
  <2>1. e \in DOMAIN Efforts /\ body.effort = Some(e)
    BY <1>2 DEF Spelt, Optional, Faultless, Or
  <2>2. ReadEffort(body.effort) = Efforts[e]
    BY <1>2 DEF ReadEffort
  <2>3. e = "none" \/ e \in {"minimal", "low", "medium", "high", "xhigh", "max"}
    BY <2>1 DEF Efforts
  <2>4. /\ Efforts["none"] = "off" /\ Efforts["minimal"] = "low" /\ Efforts["low"] = "low"
        /\ Efforts["medium"] = "medium" /\ Efforts["high"] = "high"
        /\ Efforts["xhigh"] = "xhigh" /\ Efforts["max"] = "max"
    BY DEF Efforts
  <2>5. Efforts[e] \in {"off"} \cup Levels /\ (Efforts[e] = "off" <=> e = "none")
    BY <2>3, <2>4 DEF Levels
  <2>6. Some(e) = Some("none") <=> e = "none"
    BY DEF Some
  <2>. QED
    BY <1>2, <2>1, <2>2, <2>5, <2>6 DEF Levels
<1>. QED
  BY <1>1, <1>2

-----------------------------------------------------------------------------
(* What the bodies make of it *)

LEMMA SentHas ==
  ASSUME NEW read, NEW turns, NEW settings, Sent(read, turns, settings) # None
  PROVE  Sent(read, turns, settings)[1].settings = settings
<1>. DEFINE system == When(read.system # None, WireTurn("system", <<Says(Or(read.system, <<>>))>>))
            body == Body(system \o turns[1], settings)
<1>1. Sent(read, turns, settings) = Some(body)
  BY DEF Sent
<1>2. body.settings = settings
  BY DEF Body
<1>. HIDE DEF body
<1>. QED
  BY <1>1, <1>2, SomeHas

LEMMA AskedHas ==
  ASSUME NEW read
  PROVE  LET settings == Asked(read) IN
         /\ settings.max = read.max /\ settings.temperature = read.temperature
         /\ settings.top_p = read.top_p /\ settings.tools = read.tools
         /\ settings.schema = read.schema /\ settings.reasoning = None
BY DEF Asked

(* Reasoning leaves room for a reply, and there is some if there can be.   *)
LEMMA ReasoningFits ==
  ASSUME NEW level \in Levels, NEW max \in Nat \ {0}
  PROVE  /\ AnthropicReasoning(level, max) \in Nat /\ AnthropicReasoning(level, max) < max
         /\ AnthropicReasoning(level, max) = 0 => max = 1
<1>1. level \in DOMAIN AnthropicBudget
  BY DEF Levels, AnthropicBudget
<1>2. AnthropicBudget[level] \in Nat \ {0}
  <2>1. /\ AnthropicBudget["low"] = 2048 /\ AnthropicBudget["medium"] = 8192
        /\ AnthropicBudget["high"] = 24576 /\ AnthropicBudget["xhigh"] = 49152
        /\ AnthropicBudget["max"] = 98304
    BY DEF AnthropicBudget
  <2>. QED
    BY <2>1 DEF Levels
<1>. QED
  BY <1>1, <1>2 DEF AnthropicReasoning

LEMMA GeminiThinks ==
  ASSUME NEW level \in Levels
  PROVE  GeminiBudget[level] # 0
<1>1. /\ GeminiBudget["low"] = 2048 /\ GeminiBudget["medium"] = 8192
      /\ GeminiBudget["high"] = 24576 /\ GeminiBudget["xhigh"] = 32768
      /\ GeminiBudget["max"] = 32768
  BY DEF GeminiBudget
<1>. QED
  BY <1>1 DEF Levels

(* A request read from a body, and the body a vendor is sent for it.       *)
Carrying(to, body, read) ==
  /\ Spelt(body) /\ Faultless(body) /\ Reads(read, body)
  /\ VendorBodyOf(to.vendor, read) # None /\ to.body = VendorBodyOf(to.vendor, read)[1]

LEMMA SchemaIs ==
  ASSUME NEW read, NEW body, Reads(read, body)
  PROVE  read.schema # None <=> body.format = Some("json_schema")
BY WhenIs DEF Reads, ReadResponseFormat, When, None

LEMMA OpenAICarries ==
  ASSUME NEW to, NEW body, NEW read, Carrying(to, body, read), to.vendor = "openai"
  PROVE  CarriesSettings(to, body)
<1>1. to.body.settings = Asked(read)
  <2>. DEFINE turns == AllTurns(\A block \in BlocksOf(read) : OpenAITakes(block),
                               [i \in DOMAIN read.messages |-> OpenAITurns(read.messages[i])])
  <2>1. VendorBodyOf(to.vendor, read) = Sent(read, turns, Asked(read))
    BY DEF VendorBodyOf, OpenAIBodyOf
  <2>. HIDE DEF turns
  <2>2. Sent(read, turns, Asked(read)) # None /\ to.body = Sent(read, turns, Asked(read))[1]
    BY <2>1 DEF Carrying
  <2>3. Sent(read, turns, Asked(read))[1].settings = Asked(read)
    BY <2>2, SentHas
  <2>. QED
    BY <2>2, <2>3
<1>2. ~ToMessages(to.vendor)
  BY DEF ToMessages
<1>. QED
  BY <1>1, <1>2, AskedHas, SchemaIs DEF Carrying, CarriesSettings, Reads

LEMMA GeminiCarries ==
  ASSUME NEW to, NEW body, NEW read, Carrying(to, body, read), to.vendor = "gemini"
  PROVE  CarriesSettings(to, body)
<1>. DEFINE reasoning == CASE read.thinking = "unset" -> None
                           [] read.thinking = "off" -> Some(0)
                           [] OTHER -> Some(GeminiBudget[read.thinking])
            settings == [Asked(read) EXCEPT !.reasoning = reasoning]
<1>1. to.body.settings = settings
  <2>. DEFINE turns == AllTurns(\A block \in BlocksOf(read) : GeminiTakes(block),
                               [i \in DOMAIN read.messages |-> GeminiTurns(read.messages[i])])
  <2>1. VendorBodyOf(to.vendor, read) = Sent(read, turns, settings)
    <3>1. VendorBodyOf(to.vendor, read) = GeminiBodyOf(read)
      <4>. HIDE DEF turns, settings, reasoning
      <4>. QED
        BY DEF VendorBodyOf
    <3>2. GeminiBodyOf(read) = Sent(read, turns, settings)
      BY Zenon DEF GeminiBodyOf
    <3>. QED
      BY <3>1, <3>2
  <2>. HIDE DEF turns, settings
  <2>2. Sent(read, turns, settings) # None /\ to.body = Sent(read, turns, settings)[1]
    BY <2>1 DEF Carrying
  <2>3. Sent(read, turns, settings)[1].settings = settings
    BY <2>2, SentHas
  <2>. QED
    BY <2>2, <2>3
<1>2. /\ settings.max = read.max /\ settings.temperature = read.temperature
      /\ settings.top_p = read.top_p /\ settings.tools = read.tools
      /\ settings.schema = read.schema /\ settings.reasoning = reasoning
  BY DEF Asked
<1>3. reasoning \in {None, Some(0)} <=> body.effort \in {None, Some("none")}
  <2>1. /\ read.thinking \in {"unset", "off"} \cup Levels
        /\ read.thinking = "unset" <=> body.effort = None
        /\ read.thinking = "off" <=> body.effort = Some("none")
    BY EffortIs DEF Carrying, Reads
  <2>2. CASE read.thinking \in {"unset", "off"}
    BY <2>1, <2>2
  <2>3. CASE read.thinking \in Levels
    <3>1. reasoning = Some(GeminiBudget[read.thinking])
      BY <2>3 DEF Levels
    <3>2. Some(GeminiBudget[read.thinking]) # Some(0)
      BY <2>3, GeminiThinks DEF Some
    <3>3. Some(GeminiBudget[read.thinking]) # None
      BY SomeHas
    <3>4. read.thinking # "unset" /\ read.thinking # "off"
      BY <2>3 DEF Levels
    <3>. QED
      BY <2>1, <3>1, <3>2, <3>3, <3>4
  <2>. QED
    BY <2>1, <2>2, <2>3
<1>4. ~ToMessages(to.vendor)
  BY DEF ToMessages
<1>. HIDE DEF reasoning, settings
<1>. QED
  BY <1>1, <1>2, <1>3, <1>4, SchemaIs DEF Carrying, CarriesSettings, Reads

LEMMA AnthropicCarries ==
  ASSUME NEW to, NEW body, NEW read, Carrying(to, body, read),
         to.vendor \notin {"openai", "gemini"}
  PROVE  CarriesSettings(to, body)
<1>. DEFINE max == Or(read.max, 4096)
            level == read.thinking
            reasoning == IF level \in DOMAIN AnthropicBudget
                         THEN Some(AnthropicReasoning(level, max)) ELSE None
            settings == [Asked(read) EXCEPT !.max = Some(max), !.schema = None,
                                            !.reasoning = reasoning]
<1>1. to.body.settings = settings
  <2>. DEFINE turns == AllTurns(\A block \in BlocksOf(read) : AnthropicTakes(block),
                               [i \in DOMAIN read.messages |-> AnthropicTurns(read.messages[i])])
  <2>1. VendorBodyOf(to.vendor, read) = Sent(read, turns, settings)
    <3>1. VendorBodyOf(to.vendor, read) = AnthropicBodyOf(read)
      <4>. HIDE DEF turns, settings, reasoning, max, level
      <4>. QED
        BY DEF VendorBodyOf
    <3>2. AnthropicBodyOf(read) = Sent(read, turns, settings)
      BY Zenon DEF AnthropicBodyOf
    <3>. QED
      BY <3>1, <3>2
  <2>. HIDE DEF turns, settings
  <2>2. Sent(read, turns, settings) # None /\ to.body = Sent(read, turns, settings)[1]
    BY <2>1 DEF Carrying
  <2>3. Sent(read, turns, settings)[1].settings = settings
    BY <2>2, SentHas
  <2>. QED
    BY <2>2, <2>3
<1>2. /\ settings.max = Some(max) /\ settings.temperature = read.temperature
      /\ settings.top_p = read.top_p /\ settings.tools = read.tools
      /\ settings.schema = None /\ settings.reasoning = reasoning
  BY DEF Asked
<1>3. /\ max \in Nat \ {0}
      /\ body.max \in {None, Some(max)}
      /\ max = 1 => body.max = Some(1)
  <2>1. body.max = None \/ (body.max = Some(body.max[1]) /\ body.max[1] \in Nat)
    BY DEF Carrying, Spelt, Optional
  <2>2. body.max # Some(0) /\ max = Or(body.max, 4096)
    <3>1. read.max = body.max
      BY DEF Carrying, Reads
    <3>2. body.max # Some(0)
      BY DEF Carrying, Faultless
    <3>. QED
      BY <3>1, <3>2
  <2>3. CASE body.max = None
    BY <2>2, <2>3 DEF Or
  <2>4. CASE body.max # None
    <3>1. max = body.max[1]
      BY <2>2, <2>4 DEF Or
    <3>2. body.max[1] # 0
      BY <2>1, <2>2, <2>4
    <3>. HIDE DEF max
    <3>. QED
      BY <2>1, <2>4, <3>1, <3>2
  <2>. QED
    BY <2>3, <2>4
<1>. HIDE DEF max
<1>4. /\ reasoning # None => reasoning[1] < max
      /\ reasoning \in {None, Some(0)} <=> body.effort \in {None, Some("none")} \/ (level \in Levels /\ reasoning = Some(0))
      /\ level \in Levels /\ reasoning = Some(0) => max = 1
  <2>1. /\ level \in {"unset", "off"} \cup Levels
        /\ level = "unset" <=> body.effort = None
        /\ level = "off" <=> body.effort = Some("none")
    BY EffortIs DEF Carrying, Reads
  <2>2. level \in DOMAIN AnthropicBudget <=> level \in Levels
    BY DEF AnthropicBudget, Levels
  <2>3. CASE level \notin Levels
    <3>1. reasoning = None
      BY <2>2, <2>3
    <3>. QED
      BY <2>1, <2>3, <3>1
  <2>4. CASE level \in Levels
    <3>. DEFINE n == AnthropicReasoning(level, max)
    <3>1. n \in Nat /\ n < max /\ (n = 0 => max = 1)
      BY <1>3, <2>4, ReasoningFits
    <3>2. reasoning = Some(n) /\ Some(n) # None /\ Some(n)[1] = n
      BY <2>2, <2>4, SomeHas
    <3>3. Some(n) = Some(0) => n = 0
      BY DEF Some
    <3>4. level # "unset" /\ level # "off"
      BY <2>4 DEF Levels
    <3>. HIDE DEF n, reasoning, level
    <3>. QED
      BY <2>1, <2>4, <3>1, <3>2, <3>3, <3>4
  <2>. QED
    BY <2>3, <2>4
<1>5. Some(max)[1] = max
  BY SomeHas
<1>. HIDE DEF reasoning, settings, level
<1>6. ToMessages(to.vendor)
  BY DEF ToMessages
<1>7. \/ body.max = Some(1)
      \/ reasoning \in {None, Some(0)} <=> body.effort \in {None, Some("none")}
  BY <1>3, <1>4
<1>8. /\ settings.temperature = body.temperature /\ settings.top_p = body.top_p
      /\ settings.tools = body.tools
  BY <1>2 DEF Carrying, Reads
<1>9. settings.reasoning # None => settings.reasoning[1] < settings.max[1]
  BY <1>2, <1>4, <1>5
<1>. QED
  BY <1>1, <1>2, <1>3, <1>6, <1>7, <1>8, <1>9 DEF CarriesSettings

LEMMA BodyCarries ==
  ASSUME NEW to, NEW body, Spelt(body), ReadRequest(body).param = None,
         VendorBodyOf(to.vendor, ReadRequest(body)) # None,
         to.body = VendorBodyOf(to.vendor, ReadRequest(body))[1]
  PROVE  CarriesSettings(to, body) /\ body.odd = {}
<1>1. Faultless(body) /\ Reads(ReadRequest(body), body)
  BY ReadIs
<1>2. Carrying(to, body, ReadRequest(body))
  BY <1>1 DEF Carrying
<1>3. CarriesSettings(to, body)
  BY <1>2, OpenAICarries, GeminiCarries, AnthropicCarries
<1>. QED
  BY <1>1, <1>3 DEF Faultless

-----------------------------------------------------------------------------
(* The inductive invariant: while a request is in hand it is the one read  *)
(* from what was asked last; what was sent was made of it, and for a vendor*)
(* that may be given it.                                                   *)
WellAsked == asked # None /\ Spelt(asked[1]) /\ ReadRequest(asked[1]).param = None

SentFor(to) ==
  /\ WellAsked
  /\ VendorBodyOf(to.vendor, ReadRequest(asked[1])) # None
  /\ to.body = VendorBodyOf(to.vendor, ReadRequest(asked[1]))[1]
  /\ private => to.route.on_device

ReadInv == request # None => WellAsked /\ request = Some(ReadRequest(asked[1]))
SentInv == sent \in Seq(ToSet(sent)) /\ \A i \in DOMAIN sent : SentFor(sent[i])
IInv == ReadInv /\ SentInv

LEMMA NothingSent ==
  ASSUME sent = <<>>
  PROVE  SentInv
<1>1. sent \in Seq(ToSet(sent)) /\ DOMAIN sent = {}
  OBVIOUS
<1>. QED
  BY <1>1 DEF SentInv

LEMMA InitIInv ==
  Init => IInv
BY NothingSent DEF Init, IInv, ReadInv

(* A question changes nothing of a body but its model and its messages.    *)
LEMMA StillSpelt ==
  ASSUME NEW body, Spelt(body), NEW model, NEW messages
  PROVE  Spelt([body EXCEPT !.model = model, !.messages = messages])
<1>. DEFINE b == [body EXCEPT !.model = model, !.messages = messages]
<1>1. /\ DOMAIN b = DOMAIN body
      /\ b.odd = body.odd /\ b.max = body.max /\ b.format = body.format /\ b.effort = body.effort
      /\ b.stream = body.stream
  BY DEF Spelt
<1>. HIDE DEF b
<1>. QED
  BY <1>1 DEF Spelt

LEMMA AskKeepsIInv ==
  ASSUME NEW name \in Names, NEW question \in Questions, Ask(name, question)
  PROVE  IInv'
<1>. DEFINE messages == conversation \o Results(pending) \o question.adds
            body == [question.body EXCEPT !.model = name, !.messages = messages]
            read == ReadRequest(body)
            wrong == read.param # None \/ Resolve(name).error # None
<1>1. /\ asked' = Some(body) /\ sent' = <<>>
      /\ request' = IF wrong THEN None ELSE Some(read)
  BY DEF Ask
<1>2. Spelt(body)
  BY StillSpelt, ExchangeAssumption
<1>. HIDE DEF body
<1>3. asked' # None /\ asked'[1] = body
  BY <1>1, SomeHas
<1>4. request' # None => read.param = None /\ request' = Some(read)
  BY <1>1
<1>5. ReadInv'
  BY <1>2, <1>3, <1>4 DEF ReadInv, WellAsked
<1>6. SentInv'
  <2>1. sent' \in Seq(ToSet(sent')) /\ DOMAIN sent' = {}
    BY <1>1
  <2>. QED
    BY <2>1 DEF SentInv
<1>. QED
  BY <1>5, <1>6 DEF IInv

(* What is sent is made of the request in hand, for who may be given it.   *)
LEMMA SendsKeepsSent ==
  ASSUME IInv, Sends, UNCHANGED <<asked, private>>
  PROVE  SentInv'
<1>. DEFINE to == [vendor |-> Route.vendor, route |-> Route, body |-> BodyHere[1]]
<1>1. sent' = Append(sent, to) /\ CanServe /\ BodyHere # None /\ request # None
  BY DEF Sends, Trying
<1>2. WellAsked /\ request[1] = ReadRequest(asked[1])
  BY <1>1, SomeHas DEF IInv, ReadInv
<1>3. /\ to.vendor = Route.vendor /\ to.route = Route
      /\ to.body = VendorBodyOf(Route.vendor, ReadRequest(asked[1]))[1]
      /\ VendorBodyOf(Route.vendor, ReadRequest(asked[1])) # None
  BY <1>1, <1>2 DEF BodyHere
<1>4. private => Route.on_device
  BY <1>1 DEF CanServe, UnmetBy
<1>. HIDE DEF to
<1>5. SentFor(to)
  BY <1>2, <1>3, <1>4 DEF SentFor
<1>6. /\ sent' \in Seq(ToSet(sent'))
      /\ \A i \in DOMAIN sent' : sent'[i] = to \/ (i \in DOMAIN sent /\ sent'[i] = sent[i])
  <2>1. /\ sent' \in Seq(ToSet(sent')) /\ Len(sent) \in Nat
        /\ DOMAIN sent = 1..Len(sent) /\ DOMAIN sent' = 1..Len(sent) + 1
        /\ \A i \in 1..Len(sent) : sent'[i] = sent[i]
        /\ sent'[Len(sent) + 1] = to
    BY <1>1, Longer DEF IInv, SentInv
  <2>. QED
    BY <2>1
<1>7. \A i \in DOMAIN sent' : SentFor(sent'[i])
  BY <1>5, <1>6 DEF IInv, SentInv
<1>8. WellAsked' <=> WellAsked
  BY DEF WellAsked
<1>. QED
  BY <1>6, <1>7, <1>8 DEF SentInv, SentFor

(* Whatever leaves the question and what was sent for it alone.            *)
LEMMA SentStays ==
  ASSUME IInv, UNCHANGED <<asked, private, sent>>
  PROVE  SentInv'
BY DEF IInv, SentInv, SentFor, WellAsked

(* A request stays in hand or is let go.                                   *)
LEMMA RequestStays ==
  ASSUME IInv, asked' = asked, request' = request \/ request' = None
  PROVE  ReadInv'
BY DEF IInv, ReadInv, WellAsked

LEMMA NextIInv ==
  IInv /\ [Next]_vars => IInv'
<1>. SUFFICES ASSUME IInv, [Next]_vars
              PROVE  IInv'
  OBVIOUS
<1>1. CASE \E name \in Names, question \in Questions : Ask(name, question)
  BY <1>1, AskKeepsIInv
<1>2. CASE Skip
  BY <1>2, SentStays, RequestStays DEF Skip, IInv
<1>3. CASE CannotSay
  BY <1>3, SentStays, RequestStays DEF CannotSay, IInv
<1>4. CASE GiveUp
  BY <1>4, SentStays, RequestStays DEF GiveUp, IInv
<1>5. ASSUME NEW error, Fail(error)
      PROVE  IInv'
  BY <1>5, SendsKeepsSent, RequestStays DEF Fail, IInv
<1>6. ASSUME NEW answer, Respond(answer)
      PROVE  IInv'
  BY <1>6, SendsKeepsSent, RequestStays DEF Respond, IInv
<1>7. CASE UNCHANGED vars
  BY <1>7, SentStays, RequestStays DEF vars, IInv
<1>. QED
  BY <1>1, <1>2, <1>3, <1>4, <1>5, <1>6, <1>7 DEF Next

(* No setting asked for is lost on the way to any vendor, but for the three*)
(* the code leaves out, and nothing private leaves the device              *)
(* (read_request, body of each protocol, unmet_by).                        *)
THEOREM AskedIsCarriedTheorem ==
  Spec => []AskedIsCarried
<1>1. IInv => AskedIsCarried
  <2>. SUFFICES ASSUME IInv, NEW i \in DOMAIN sent
                PROVE  /\ CarriesSettings(sent[i], asked[1])
                       /\ asked[1].odd = {} /\ (private => sent[i].route.on_device)
    BY DEF AskedIsCarried
  <2>1. SentFor(sent[i])
    BY DEF IInv, SentInv
  <2>. QED
    BY <2>1, BodyCarries DEF SentFor, WellAsked
<1>. QED
  BY <1>1, InitIInv, NextIInv, PTL DEF Spec

(* The greatest of some numbers is one of them.                            *)
LEMMA MaxIs ==
  ASSUME NEW n \in Nat, NEW d \in SUBSET (1..n), d # {}
  PROVE  /\ Max(d) \in d /\ \A j \in d : j <= Max(d)
         /\ \A m \in d : (\A j \in d : j <= m) => Max(d) = m
<1>. DEFINE T == {n - i : i \in d}
<1>0. \A i \in d : i \in Nat /\ n - i \in Nat
  OBVIOUS
<1>1. T \in SUBSET Nat /\ T # {}
  BY <1>0
<1>2. PICK k \in T : \A m \in T : k <= m
  BY <1>1, NatMin
<1>3. PICK i \in d : k = n - i
  BY <1>2
<1>4. ASSUME NEW j \in d PROVE i >= j
  <2>1. k <= n - j
    BY <1>2
  <2>. QED
    BY <1>3, <2>1
<1>5. \E m \in d : \A j \in d : m >= j
  BY <1>4
<1>6. Max(d) \in d /\ \A j \in d : Max(d) >= j
  BY <1>5 DEF Max
<1>7. \A x, y \in d : x <= y /\ y <= x => x = y
  BY <1>0
<1>. QED
  BY <1>6, <1>7, Zenon

FoldsSides(it, s) ==
  it = [d \in SUBSET (DOMAIN s) |->
          IF d = {} THEN <<>> ELSE Joins(it[d \ {Max(d)}], s[Max(d)])]

(* The sides of a list are the fold over its whole domain.                 *)
LEMMA SidedIs ==
  ASSUME NEW s
  PROVE  Sided(s) = (CHOOSE it : FoldsSides(it, s))[DOMAIN s]
BY DEF Sided, FoldLeft, MapThenFoldSet, FoldsSides

(* There is such a fold.                                                   *)
LEMMA SidesExist ==
  ASSUME NEW S
  PROVE  \A s \in Seq(S) : \E it : FoldsSides(it, s)
<1>. DEFINE Good == {s \in Seq(S) : \E it : FoldsSides(it, s)}
<1>1. <<>> \in Good
  <2>. DEFINE it == [d \in SUBSET {} |-> <<>>]
  <2>1. FoldsSides(it, <<>>)
    <3>1. \A d \in SUBSET {} : d = {}
      OBVIOUS
    <3>2. it = [d \in SUBSET {} |-> IF d = {} THEN <<>> ELSE Joins(it[d \ {Max(d)}], <<>>[Max(d)])]
      BY <3>1
    <3>. HIDE DEF it
    <3>. QED
      BY <3>2 DEF FoldsSides
  <2>2. <<>> \in Seq(S)
    OBVIOUS
  <2>. HIDE DEF it
  <2>. QED
    BY <2>1, <2>2
<1>2. ASSUME NEW r \in Seq(S), NEW e \in S, r \in Good PROVE Append(r, e) \in Good
  <2>. DEFINE n == Len(r)
              s == Append(r, e)
  <2>1. PICK it : FoldsSides(it, r)
    BY <1>2
  <2>. DEFINE up == [d \in SUBSET (1..n + 1) |->
                       IF n + 1 \in d THEN Joins(it[d \ {n + 1}], e) ELSE it[d]]
  <2>2. /\ n \in Nat /\ s \in Seq(S) /\ DOMAIN s = 1..n + 1 /\ DOMAIN r = 1..n
        /\ s[n + 1] = e /\ \A i \in 1..n : s[i] = r[i]
    OBVIOUS
  <2>3. it = [d \in SUBSET (1..n) |->
                IF d = {} THEN <<>> ELSE Joins(it[d \ {Max(d)}], r[Max(d)])]
    BY <2>1, <2>2 DEF FoldsSides
  <2>. HIDE DEF s, n
  <2>4. ASSUME NEW d \in SUBSET (1..n + 1)
        PROVE  up[d] = IF d = {} THEN <<>> ELSE Joins(up[d \ {Max(d)}], s[Max(d)])
    <3>0. up[d] = IF n + 1 \in d THEN Joins(it[d \ {n + 1}], e) ELSE it[d]
      OBVIOUS
    <3>1. CASE n + 1 \in d
      <4>1. Max(d) = n + 1
        <5>1. n + 1 \in Nat /\ d # {} /\ \A j \in d : j <= n + 1
          BY <2>2, <3>1
        <5>. QED
          BY <3>1, <5>1, MaxIs
      <4>2. d \ {n + 1} \in SUBSET (1..n) /\ d \ {n + 1} \in SUBSET (1..n + 1)
        BY <2>2
      <4>3. up[d \ {n + 1}] = it[d \ {n + 1}]
        BY <4>2
      <4>. HIDE DEF up
      <4>. QED
        BY <2>2, <3>0, <3>1, <4>1, <4>3
    <3>2. CASE n + 1 \notin d
      <4>1. d \in SUBSET (1..n)
        BY <2>2, <3>2
      <4>2. up[d] = it[d]
        BY <3>0, <3>2
      <4>3. CASE d = {}
        <5>1. it[d] = <<>>
          BY <2>3, <4>1, <4>3
        <5>. QED
          BY <4>2, <4>3, <5>1
      <4>4. CASE d # {}
        <5>1. Max(d) \in 1..n
          BY <2>2, <4>1, <4>4, MaxIs
        <5>2. it[d] = Joins(it[d \ {Max(d)}], r[Max(d)])
          BY <2>3, <4>1, <4>4
        <5>3. up[d \ {Max(d)}] = it[d \ {Max(d)}]
          <6>. DEFINE c == d \ {Max(d)}
          <6>1. c \in SUBSET (1..n + 1) /\ n + 1 \notin c
            BY <3>2
          <6>. HIDE DEF c
          <6>2. up[c] = it[c]
            BY <6>1
          <6>. QED
            BY <6>2 DEF c
        <5>. HIDE DEF up
        <5>. QED
          BY <2>2, <4>2, <4>4, <5>1, <5>2, <5>3
      <4>. QED
        BY <4>3, <4>4
    <3>. QED
      BY <3>1, <3>2
  <2>5. up = [d \in SUBSET (1..n + 1) |->
                IF d = {} THEN <<>> ELSE Joins(up[d \ {Max(d)}], s[Max(d)])]
    <3>1. up = [d \in SUBSET (1..n + 1) |-> up[d]]
      OBVIOUS
    <3>. HIDE DEF up
    <3>. QED
      BY <2>4, <3>1
  <2>. HIDE DEF up
  <2>6. FoldsSides(up, s)
    BY <2>2, <2>5 DEF FoldsSides
  <2>7. s \in Good
    BY <2>2, <2>6
  <2>. QED
    BY <2>7 DEF s
<1>. HIDE DEF Good
<1>3. \A s \in Seq(S) : s \in Good
  BY <1>1, <1>2, ListInduct
<1>. QED
  BY <1>3 DEF Good

(* The fold of a longer list goes through that of the shorter.             *)
LEMMA SidesGoOn ==
  ASSUME NEW S, NEW r \in Seq(S), NEW e \in S,
         NEW it, FoldsSides(it, r), NEW up, FoldsSides(up, Append(r, e))
  PROVE  /\ it[1..Len(r)] = up[1..Len(r)]
         /\ up[1..Len(r) + 1] = Joins(up[1..Len(r)], e)
<1>. DEFINE n == Len(r)
            s == Append(r, e)
            T == {k \in 0..n : it[1..k] # up[1..k]}
<1>1. /\ n \in Nat /\ s \in Seq(S) /\ DOMAIN s = 1..n + 1 /\ DOMAIN r = 1..n
      /\ s[n + 1] = e /\ \A i \in 1..n : s[i] = r[i]
  OBVIOUS
<1>2. \A d \in SUBSET (1..n) :
         it[d] = IF d = {} THEN <<>> ELSE Joins(it[d \ {Max(d)}], r[Max(d)])
  BY <1>1 DEF FoldsSides
<1>3. \A d \in SUBSET (1..n + 1) :
         up[d] = IF d = {} THEN <<>> ELSE Joins(up[d \ {Max(d)}], s[Max(d)])
  BY <1>1 DEF FoldsSides
<1>. HIDE DEF n, s
<1>4. \A k \in 1..n + 1 : Max(1..k) = k /\ (1..k) \ {k} = 1..k - 1 /\ 1..k # {}
  <2>. SUFFICES ASSUME NEW k \in 1..n + 1
                PROVE  Max(1..k) = k /\ (1..k) \ {k} = 1..k - 1 /\ 1..k # {}
    OBVIOUS
  <2>1. k \in Nat /\ k \in 1..k /\ \A j \in 1..k : j <= k
    BY <1>1
  <2>2. (1..k) \ {k} = 1..k - 1
    BY <2>1
  <2>3. Max(1..k) = k
    BY <2>1, MaxIs
  <2>. QED
    BY <2>1, <2>2, <2>3
<1>5. \A k \in 1..n + 1 : up[1..k] = Joins(up[1..k - 1], s[k])
  <2>. SUFFICES ASSUME NEW k \in 1..n + 1 PROVE up[1..k] = Joins(up[1..k - 1], s[k])
    OBVIOUS
  <2>1. 1..k \in SUBSET (1..n + 1)
    BY <1>1
  <2>. QED
    BY <1>3, <1>4, <2>1
<1>6. \A k \in 1..n : it[1..k] = Joins(it[1..k - 1], r[k])
  <2>. SUFFICES ASSUME NEW k \in 1..n PROVE it[1..k] = Joins(it[1..k - 1], r[k])
    OBVIOUS
  <2>1. 1..k \in SUBSET (1..n) /\ k \in 1..n + 1
    BY <1>1
  <2>. QED
    BY <1>2, <1>4, <2>1
<1>7. T = {}
  <2>1. SUFFICES ASSUME T # {} PROVE FALSE
    OBVIOUS
  <2>2. PICK k \in T : \A m \in T : k <= m
    <3>1. T \in SUBSET Nat
      BY <1>1
    <3>. QED
      BY <2>1, <3>1, NatMin
  <2>3. k \in 0..n /\ it[1..k] # up[1..k]
    OBVIOUS
  <2>4. CASE k = 0
    <3>1. 1..k = {}
      BY <2>4
    <3>2. it[{}] = <<>> /\ up[{}] = <<>>
      BY <1>2, <1>3
    <3>. QED
      BY <2>3, <3>1, <3>2
  <2>5. CASE k # 0
    <3>1. k \in 1..n /\ k \in 1..n + 1 /\ k - 1 \in 0..n /\ ~(k <= k - 1)
      BY <1>1, <2>3, <2>5
    <3>2. it[1..k - 1] = up[1..k - 1]
      <4>1. k - 1 \notin T
        <5>. HIDE DEF T
        <5>. QED
          BY <2>2, <3>1
      <4>. QED
        BY <3>1, <4>1
    <3>. QED
      BY <1>1, <1>5, <1>6, <2>3, <3>1, <3>2
  <2>. QED
    BY <2>4, <2>5
<1>8. n + 1 \in 1..n + 1 /\ n \in 0..n /\ (n + 1) - 1 = n
  BY <1>1
<1>9. it[1..n] = up[1..n]
  BY <1>7, <1>8
<1>10. up[1..n + 1] = Joins(up[1..n], e)
  BY <1>1, <1>5, <1>8
<1>. QED
  BY <1>9, <1>10 DEF n

(* Where nobody spoke there are no sides.                                  *)
LEMMA SidedNone ==
  Sided(<<>>) = <<>>
<1>. DEFINE it == CHOOSE h : FoldsSides(h, <<>>)
<1>1. <<>> \in Seq({}) /\ DOMAIN <<>> = {}
  OBVIOUS
<1>2. FoldsSides(it, <<>>)
  BY <1>1, SidesExist
<1>. HIDE DEF it
<1>3. it[{}] = <<>>
  BY <1>1, <1>2 DEF FoldsSides
<1>. QED
  BY <1>1, <1>3, SidedIs DEF it

(* Who speaks next joins the sides.                                        *)
LEMMA SidedMore ==
  ASSUME NEW S, NEW r \in Seq(S), NEW e \in S
  PROVE  Sided(Append(r, e)) = Joins(Sided(r), e)
<1>. DEFINE it == CHOOSE h : FoldsSides(h, r)
            up == CHOOSE h : FoldsSides(h, Append(r, e))
<1>1. /\ Append(r, e) \in Seq(S) /\ Len(r) \in Nat
      /\ DOMAIN r = 1..Len(r) /\ DOMAIN Append(r, e) = 1..Len(r) + 1
  OBVIOUS
<1>2. FoldsSides(it, r) /\ FoldsSides(up, Append(r, e))
  BY <1>1, SidesExist
<1>3. Sided(r) = it[1..Len(r)] /\ Sided(Append(r, e)) = up[1..Len(r) + 1]
  BY <1>1, SidedIs
<1>. HIDE DEF it, up
<1>. QED
  BY <1>2, <1>3, SidesGoOn

-----------------------------------------------------------------------------
(* Sides *)

Kinds == {"image", "document", "audio"}
Sides ==
  [by : {"user", "model"}, words : Seq(Strings), calls : Seq(Strings),
   told : Seq(Seq(Strings)), shown : Seq(Kinds)]

(* A side is what it was made of.                                          *)
LEMMA SideIs ==
  ASSUME NEW by \in {"user", "model"}, NEW words \in Seq(Strings), NEW calls \in Seq(Strings),
         NEW told \in Seq(Seq(Strings)), NEW shown \in Seq(Kinds)
  PROVE  /\ Side(by, words, calls, told, shown) \in Sides
         /\ Side(by, words, calls, told, shown).by = by
         /\ Side(by, words, calls, told, shown).words = words
         /\ Side(by, words, calls, told, shown).calls = calls
         /\ Side(by, words, calls, told, shown).told = told
         /\ Side(by, words, calls, told, shown).shown = shown
BY DEF Side, Sides

(* What a side is made of.                                                 *)
LEMMA SideHas ==
  ASSUME NEW t \in Sides
  PROVE  /\ t.by \in {"user", "model"} /\ t.words \in Seq(Strings) /\ t.calls \in Seq(Strings)
         /\ t.told \in Seq(Seq(Strings)) /\ t.shown \in Seq(Kinds)
BY DEF Sides

(* A record of five fields is its fields.                                  *)
LEMMA RecordIs ==
  ASSUME NEW A, NEW B, NEW C, NEW D, NEW E,
         NEW t \in [by : A, words : B, calls : C, told : D, shown : E]
  PROVE  t = [by |-> t.by, words |-> t.words, calls |-> t.calls, told |-> t.told,
              shown |-> t.shown]
OBVIOUS

(* A side is made of its fields.                                           *)
LEMMA SideMade ==
  ASSUME NEW t \in Sides
  PROVE  t = Side(t.by, t.words, t.calls, t.told, t.shown)
BY RecordIs DEF Sides, Side

(* Lists of words, of media and of results go together in any order.       *)
LEMMA Associates ==
  \A a, b, c \in Seq(Strings) : (a \o b) \o c = a \o (b \o c)
OBVIOUS

LEMMA ShownAssociates ==
  \A a, b, c \in Seq(Kinds) : (a \o b) \o c = a \o (b \o c)
OBVIOUS

LEMMA ToldAssociates ==
  \A a, b, c \in Seq(Seq(Strings)) : (a \o b) \o c = a \o (b \o c)
OBVIOUS

(* Sides that say the same are the same.                                   *)
LEMMA SidesEqual ==
  ASSUME NEW s \in Sides, NEW t \in Sides, s.by = t.by, s.words = t.words,
         s.calls = t.calls, s.told = t.told, s.shown = t.shown
  PROVE  s = t
<1>1. s = Side(s.by, s.words, s.calls, s.told, s.shown)
  BY SideMade
<1>2. t = Side(t.by, t.words, t.calls, t.told, t.shown)
  BY SideMade
<1>. QED
  BY <1>1, <1>2

(* What two say together.                                                  *)
LEMMA BothIs ==
  ASSUME NEW s \in Sides, NEW t \in Sides
  PROVE  /\ Both(s, t) \in Sides /\ Both(s, t).by = s.by
         /\ Both(s, t).words = s.words \o t.words /\ Both(s, t).calls = s.calls \o t.calls
         /\ Both(s, t).told = s.told \o t.told /\ Both(s, t).shown = s.shown \o t.shown
<1>1. /\ s.words \o t.words \in Seq(Strings) /\ s.calls \o t.calls \in Seq(Strings)
      /\ s.told \o t.told \in Seq(Seq(Strings)) /\ s.shown \o t.shown \in Seq(Kinds)
      /\ s.by \in {"user", "model"}
  BY SideHas
<1>. DEFINE b == Both(s, t)
            w == s.words \o t.words
            c == s.calls \o t.calls
            o == s.told \o t.told
            h == s.shown \o t.shown
<1>2. b = Side(s.by, w, c, o, h)
  BY Zenon DEF Both
<1>4. w \in Seq(Strings) /\ c \in Seq(Strings) /\ o \in Seq(Seq(Strings)) /\ h \in Seq(Kinds)
  BY <1>1
<1>5. /\ w = s.words \o t.words /\ c = s.calls \o t.calls /\ o = s.told \o t.told
      /\ h = s.shown \o t.shown /\ b = Both(s, t)
  OBVIOUS
<1>. HIDE DEF b, w, c, o, h
<1>6. /\ b \in Sides /\ b.by = s.by /\ b.words = w /\ b.calls = c /\ b.told = o /\ b.shown = h
  <2>1. s.by \in {"user", "model"}
    BY <1>1
  <2>. QED
    <3>1. /\ Side(s.by, w, c, o, h) \in Sides
          /\ Side(s.by, w, c, o, h).by = s.by
          /\ Side(s.by, w, c, o, h).words = w
          /\ Side(s.by, w, c, o, h).calls = c
          /\ Side(s.by, w, c, o, h).told = o
          /\ Side(s.by, w, c, o, h).shown = h
      <4>. DEFINE y == s.by
      <4>1. y \in {"user", "model"} /\ y = s.by
        BY <2>1
      <4>. HIDE DEF y
      <4>2. /\ Side(y, w, c, o, h) \in Sides
            /\ Side(y, w, c, o, h).by = y
            /\ Side(y, w, c, o, h).words = w
            /\ Side(y, w, c, o, h).calls = c
            /\ Side(y, w, c, o, h).told = o
            /\ Side(y, w, c, o, h).shown = h
        BY <1>4, <4>1, SideIs
      <4>. QED
        BY <4>1, <4>2, Zenon
    <3>. QED
      BY <1>2, <3>1, Zenon
<1>3. /\ b \in Sides /\ b.by = s.by /\ b.words = s.words \o t.words
      /\ b.calls = s.calls \o t.calls /\ b.told = s.told \o t.told
      /\ b.shown = s.shown \o t.shown
  BY <1>5, <1>6, Zenon
<1>. QED
  BY <1>3, <1>5, Zenon

(* The same, of all sides.                                                 *)
LEMMA BothAre ==
  \A s, t \in Sides :
         /\ Both(s, t) \in Sides /\ Both(s, t).by = s.by
         /\ Both(s, t).words = s.words \o t.words /\ Both(s, t).calls = s.calls \o t.calls
         /\ Both(s, t).told = s.told \o t.told /\ Both(s, t).shown = s.shown \o t.shown
BY BothIs

(* Who is silent adds nothing.                                             *)
LEMMA SilentIs ==
  ASSUME NEW s \in Sides, NEW t \in Sides
  PROVE  /\ Silent(t) => Both(s, t) = s
         /\ Silent(s) /\ s.by = t.by => Both(s, t) = t
         /\ Silent(Both(s, t)) <=> Silent(s) /\ Silent(t)
<1>1. /\ s.words \in Seq(Strings) /\ s.calls \in Seq(Strings)
      /\ s.told \in Seq(Seq(Strings)) /\ s.shown \in Seq(Kinds)
      /\ t.words \in Seq(Strings) /\ t.calls \in Seq(Strings)
      /\ t.told \in Seq(Seq(Strings)) /\ t.shown \in Seq(Kinds)
  BY SideHas
<1>2. ASSUME Silent(t) PROVE Both(s, t) = s
  <2>1. /\ s.words \o <<>> = s.words /\ s.calls \o <<>> = s.calls
        /\ s.told \o <<>> = s.told /\ s.shown \o <<>> = s.shown
    BY <1>1
  <2>2. /\ t.words = <<>> /\ t.calls = <<>> /\ t.told = <<>> /\ t.shown = <<>>
    BY <1>2 DEF Silent
  <2>3. /\ Both(s, t) \in Sides /\ Both(s, t).by = s.by
        /\ Both(s, t).words = s.words /\ Both(s, t).calls = s.calls
        /\ Both(s, t).told = s.told /\ Both(s, t).shown = s.shown
    <3>1. /\ Both(s, t) \in Sides /\ Both(s, t).by = s.by
          /\ Both(s, t).words = s.words \o t.words /\ Both(s, t).calls = s.calls \o t.calls
          /\ Both(s, t).told = s.told \o t.told /\ Both(s, t).shown = s.shown \o t.shown
      BY BothAre, Zenon
    <3>. QED
      BY <2>1, <2>2, <3>1, Zenon
  <2>. QED
    BY <2>3, SidesEqual, Zenon
<1>3. ASSUME Silent(s), s.by = t.by PROVE Both(s, t) = t
  <2>1. /\ <<>> \o t.words = t.words /\ <<>> \o t.calls = t.calls
        /\ <<>> \o t.told = t.told /\ <<>> \o t.shown = t.shown
    BY <1>1
  <2>2. /\ s.words = <<>> /\ s.calls = <<>> /\ s.told = <<>> /\ s.shown = <<>>
    BY <1>3 DEF Silent
  <2>3. /\ Both(s, t) \in Sides /\ Both(s, t).by = t.by
        /\ Both(s, t).words = t.words /\ Both(s, t).calls = t.calls
        /\ Both(s, t).told = t.told /\ Both(s, t).shown = t.shown
    <3>1. /\ Both(s, t) \in Sides /\ Both(s, t).by = s.by
          /\ Both(s, t).words = s.words \o t.words /\ Both(s, t).calls = s.calls \o t.calls
          /\ Both(s, t).told = s.told \o t.told /\ Both(s, t).shown = s.shown \o t.shown
      BY BothAre, Zenon
    <3>. QED
      BY <1>3, <2>1, <2>2, <3>1, Zenon
  <2>. QED
    BY <2>3, SidesEqual, Zenon
<1>4. /\ s.words \o t.words = <<>> <=> s.words = <<>> /\ t.words = <<>>
      /\ s.calls \o t.calls = <<>> <=> s.calls = <<>> /\ t.calls = <<>>
      /\ s.told \o t.told = <<>> <=> s.told = <<>> /\ t.told = <<>>
      /\ s.shown \o t.shown = <<>> <=> s.shown = <<>> /\ t.shown = <<>>
  BY <1>1
<1>5. Silent(Both(s, t)) <=> Silent(s) /\ Silent(t)
  BY <1>4, BothIs DEF Silent
<1>. QED
  BY <1>2, <1>3, <1>5

(* Sides go together in any order.                                         *)
LEMMA BothAssociates ==
  ASSUME NEW s \in Sides, NEW t \in Sides, NEW u \in Sides
  PROVE  Both(Both(s, t), u) = Both(s, Both(t, u))
<1>1. /\ s.words \in Seq(Strings) /\ s.calls \in Seq(Strings)
      /\ s.told \in Seq(Seq(Strings)) /\ s.shown \in Seq(Kinds)
      /\ t.words \in Seq(Strings) /\ t.calls \in Seq(Strings)
      /\ t.told \in Seq(Seq(Strings)) /\ t.shown \in Seq(Kinds)
      /\ u.words \in Seq(Strings) /\ u.calls \in Seq(Strings)
      /\ u.told \in Seq(Seq(Strings)) /\ u.shown \in Seq(Kinds)
  BY SideHas
<1>3. /\ (s.words \o t.words) \o u.words = s.words \o (t.words \o u.words)
      /\ (s.calls \o t.calls) \o u.calls = s.calls \o (t.calls \o u.calls)
      /\ (s.told \o t.told) \o u.told = s.told \o (t.told \o u.told)
      /\ (s.shown \o t.shown) \o u.shown = s.shown \o (t.shown \o u.shown)
  <2>1. (s.words \o t.words) \o u.words = s.words \o (t.words \o u.words)
    <3>1. s.words \in Seq(Strings) /\ t.words \in Seq(Strings) /\ u.words \in Seq(Strings)
      BY <1>1, Zenon
    <3>. QED
      BY <3>1, Associates, Zenon
  <2>2. (s.calls \o t.calls) \o u.calls = s.calls \o (t.calls \o u.calls)
    <3>1. s.calls \in Seq(Strings) /\ t.calls \in Seq(Strings) /\ u.calls \in Seq(Strings)
      BY <1>1, Zenon
    <3>. QED
      BY <3>1, Associates, Zenon
  <2>3. (s.told \o t.told) \o u.told = s.told \o (t.told \o u.told)
    <3>1. s.told \in Seq(Seq(Strings)) /\ t.told \in Seq(Seq(Strings)) /\ u.told \in Seq(Seq(Strings))
      BY <1>1, Zenon
    <3>. QED
      BY <3>1, ToldAssociates, Zenon
  <2>4. (s.shown \o t.shown) \o u.shown = s.shown \o (t.shown \o u.shown)
    <3>1. s.shown \in Seq(Kinds) /\ t.shown \in Seq(Kinds) /\ u.shown \in Seq(Kinds)
      BY <1>1, Zenon
    <3>. QED
      BY <3>1, ShownAssociates, Zenon
  <2>. QED
    BY <2>1, <2>2, <2>3, <2>4
<1>4. Both(s, t) \in Sides /\ Both(t, u) \in Sides
  BY BothIs
<1>5. Both(Both(s, t), u) \in Sides /\ Both(s, Both(t, u)) \in Sides
  BY <1>4, BothIs
<1>6. /\ Both(Both(s, t), u).by = Both(s, Both(t, u)).by
      /\ Both(Both(s, t), u).words = Both(s, Both(t, u)).words
      /\ Both(Both(s, t), u).calls = Both(s, Both(t, u)).calls
      /\ Both(Both(s, t), u).told = Both(s, Both(t, u)).told
      /\ Both(Both(s, t), u).shown = Both(s, Both(t, u)).shown
  <2>0. /\ Both(s, t).by = s.by
        /\ Both(s, t).words = s.words \o t.words /\ Both(s, t).calls = s.calls \o t.calls
        /\ Both(s, t).told = s.told \o t.told /\ Both(s, t).shown = s.shown \o t.shown
        /\ Both(t, u).words = t.words \o u.words /\ Both(t, u).calls = t.calls \o u.calls
        /\ Both(t, u).told = t.told \o u.told /\ Both(t, u).shown = t.shown \o u.shown
    BY BothAre, Zenon
  <2>1. /\ Both(Both(s, t), u).by = s.by /\ Both(s, Both(t, u)).by = s.by
        /\ Both(Both(s, t), u).words = (s.words \o t.words) \o u.words
        /\ Both(s, Both(t, u)).words = s.words \o (t.words \o u.words)
        /\ Both(Both(s, t), u).calls = (s.calls \o t.calls) \o u.calls
        /\ Both(s, Both(t, u)).calls = s.calls \o (t.calls \o u.calls)
        /\ Both(Both(s, t), u).told = (s.told \o t.told) \o u.told
        /\ Both(s, Both(t, u)).told = s.told \o (t.told \o u.told)
        /\ Both(Both(s, t), u).shown = (s.shown \o t.shown) \o u.shown
        /\ Both(s, Both(t, u)).shown = s.shown \o (t.shown \o u.shown)
    <3>1. /\ Both(Both(s, t), u).by = Both(s, t).by
          /\ Both(Both(s, t), u).words = Both(s, t).words \o u.words
          /\ Both(Both(s, t), u).calls = Both(s, t).calls \o u.calls
          /\ Both(Both(s, t), u).told = Both(s, t).told \o u.told
          /\ Both(Both(s, t), u).shown = Both(s, t).shown \o u.shown
      BY <1>4, BothAre, Zenon
    <3>2. /\ Both(s, Both(t, u)).by = s.by
          /\ Both(s, Both(t, u)).words = s.words \o Both(t, u).words
          /\ Both(s, Both(t, u)).calls = s.calls \o Both(t, u).calls
          /\ Both(s, Both(t, u)).told = s.told \o Both(t, u).told
          /\ Both(s, Both(t, u)).shown = s.shown \o Both(t, u).shown
      BY <1>4, BothAre, Zenon
    <3>. QED
      BY <2>0, <3>1, <3>2
  <2>. QED
    BY <1>3, <2>1, Zenon
<1>. QED
  BY <1>5, <1>6, SidesEqual

(* The last of a longer list, and what is before it.                       *)
LEMMA LastIs ==
  ASSUME NEW S, NEW r \in Seq(S), NEW e \in S
  PROVE  Append(r, e) # <<>> /\ Last(Append(r, e)) = e /\ Front(Append(r, e)) = r
<1>. DEFINE s == Append(r, e)
<1>1. s \in Seq(S) /\ Len(s) = Len(r) + 1 /\ Len(r) \in Nat /\ s[Len(s)] = e
  OBVIOUS
<1>2. SubSeq(s, 1, Len(s) - 1) = r
  OBVIOUS
<1>. QED
  BY <1>1, <1>2 DEF Last, Front

(* Sides stay sides.                                                       *)
LEMMA JoinsIs ==
  ASSUME NEW sides \in Seq(Sides), NEW t \in Sides
  PROVE  Joins(sides, t) \in Seq(Sides)
<1>1. CASE sides = <<>>
  BY <1>1 DEF Joins
<1>2. CASE sides # <<>>
  <2>1. PICK r \in Seq(Sides), l \in Sides : sides = Append(r, l)
    BY <1>2, SequenceEmptyOrAppend
  <2>2. Last(sides) = l /\ Front(sides) = r
    BY <2>1, LastIs
  <2>4. Both(l, t) \in Sides
    BY BothIs
  <2>3. Append(r, Both(l, t)) \in Seq(Sides)
    BY <2>4, AppendProperties
  <2>. QED
    BY <1>2, <2>2, <2>3 DEF Joins
<1>. QED
  BY <1>1, <1>2

(* One after the other, or both at once.                                   *)
LEMMA JoinsTwice ==
  ASSUME NEW sides \in Seq(Sides), NEW s \in Sides, NEW t \in Sides, s.by = t.by
  PROVE  Joins(Joins(sides, s), t) = Joins(sides, Both(s, t))
<1>0. Both(s, t) \in Sides /\ Both(s, t).by = s.by
  BY BothIs
<1>1. CASE Silent(t)
  BY <1>1, SilentIs DEF Joins
<1>2. CASE Silent(s)
  BY <1>2, SilentIs DEF Joins
<1>3. CASE ~Silent(s) /\ ~Silent(t)
  <2>1. ~Silent(Both(s, t))
    BY <1>3, SilentIs
  <2>2. CASE sides # <<>> /\ Last(sides).by = s.by
    <3>1. PICK r \in Seq(Sides), l \in Sides : sides = Append(r, l)
      BY <2>2, SequenceEmptyOrAppend
    <3>2. Last(sides) = l /\ Front(sides) = r
      BY <3>1, LastIs
    <3>3. Joins(sides, s) = Append(r, Both(l, s)) /\ Both(l, s) \in Sides /\ Both(l, s).by = l.by
      BY <1>3, <2>2, <3>2, BothIs DEF Joins
    <3>4. /\ Joins(sides, s) # <<>> /\ Last(Joins(sides, s)) = Both(l, s)
          /\ Front(Joins(sides, s)) = r
      BY <3>3, LastIs
    <3>5. Joins(Joins(sides, s), t) = Append(r, Both(Both(l, s), t))
      BY <1>3, <2>2, <3>2, <3>3, <3>4 DEF Joins
    <3>6. Joins(sides, Both(s, t)) = Append(r, Both(l, Both(s, t)))
      BY <1>0, <2>1, <2>2, <3>2 DEF Joins
    <3>. QED
      BY <3>5, <3>6, BothAssociates
  <2>3. CASE ~(sides # <<>> /\ Last(sides).by = s.by)
    <3>1. Joins(sides, s) = Append(sides, s)
      BY <1>3, <2>3 DEF Joins
    <3>2. /\ Joins(sides, s) # <<>> /\ Last(Joins(sides, s)) = s
          /\ Front(Joins(sides, s)) = sides
      BY <3>1, LastIs
    <3>3. Joins(Joins(sides, s), t) = Append(sides, Both(s, t))
      BY <1>3, <3>2 DEF Joins
    <3>. QED
      BY <1>0, <2>1, <2>3, <3>3 DEF Joins
  <2>. QED
    BY <2>2, <2>3
<1>. QED
  BY <1>1, <1>2, <1>3

(* The sides of sides are sides.                                           *)
LEMMA SidedAre ==
  \A s \in Seq(Sides) : Sided(s) \in Seq(Sides)
<1>. DEFINE Good == {s \in Seq(Sides) : Sided(s) \in Seq(Sides)}
<1>1. <<>> \in Good
  <2>1. <<>> \in Seq(Sides)
    OBVIOUS
  <2>. QED
    BY <2>1, SidedNone
<1>2. ASSUME NEW r \in Seq(Sides), NEW e \in Sides, r \in Good PROVE Append(r, e) \in Good
  BY <1>2, SidedMore, JoinsIs
<1>. HIDE DEF Good
<1>3. \A s \in Seq(Sides) : s \in Good
  BY <1>1, <1>2, ListInduct
<1>. QED
  BY <1>3 DEF Good

FoldsReads(it, s) ==
  it = [d \in SUBSET (DOMAIN s) |->
          IF d = {} THEN NoMessages ELSE ReadNext(it[d \ {Max(d)}], s[Max(d)])]

(* What is read of a list is the fold over its whole domain.               *)
LEMMA ReadsIs ==
  ASSUME NEW s
  PROVE  ReadMessages(s) = (CHOOSE it : FoldsReads(it, s))[DOMAIN s]
BY DEF ReadMessages, FoldLeft, MapThenFoldSet, FoldsReads

(* There is such a fold.                                                   *)
LEMMA ReadsExist ==
  ASSUME NEW S
  PROVE  \A s \in Seq(S) : \E it : FoldsReads(it, s)
<1>. DEFINE Good == {s \in Seq(S) : \E it : FoldsReads(it, s)}
<1>1. <<>> \in Good
  <2>. DEFINE it == [d \in SUBSET {} |-> NoMessages]
  <2>1. FoldsReads(it, <<>>)
    <3>1. \A d \in SUBSET {} : d = {}
      OBVIOUS
    <3>2. it = [d \in SUBSET {} |-> IF d = {} THEN NoMessages ELSE ReadNext(it[d \ {Max(d)}], <<>>[Max(d)])]
      BY <3>1
    <3>. HIDE DEF it
    <3>. QED
      BY <3>2 DEF FoldsReads
  <2>2. <<>> \in Seq(S)
    OBVIOUS
  <2>. HIDE DEF it
  <2>. QED
    BY <2>1, <2>2
<1>2. ASSUME NEW r \in Seq(S), NEW e \in S, r \in Good PROVE Append(r, e) \in Good
  <2>. DEFINE n == Len(r)
              s == Append(r, e)
  <2>1. PICK it : FoldsReads(it, r)
    BY <1>2
  <2>. DEFINE up == [d \in SUBSET (1..n + 1) |->
                       IF n + 1 \in d THEN ReadNext(it[d \ {n + 1}], e) ELSE it[d]]
  <2>2. /\ n \in Nat /\ s \in Seq(S) /\ DOMAIN s = 1..n + 1 /\ DOMAIN r = 1..n
        /\ s[n + 1] = e /\ \A i \in 1..n : s[i] = r[i]
    OBVIOUS
  <2>3. it = [d \in SUBSET (1..n) |->
                IF d = {} THEN NoMessages ELSE ReadNext(it[d \ {Max(d)}], r[Max(d)])]
    BY <2>1, <2>2 DEF FoldsReads
  <2>. HIDE DEF s, n
  <2>4. ASSUME NEW d \in SUBSET (1..n + 1)
        PROVE  up[d] = IF d = {} THEN NoMessages ELSE ReadNext(up[d \ {Max(d)}], s[Max(d)])
    <3>0. up[d] = IF n + 1 \in d THEN ReadNext(it[d \ {n + 1}], e) ELSE it[d]
      OBVIOUS
    <3>1. CASE n + 1 \in d
      <4>1. Max(d) = n + 1
        <5>1. n + 1 \in Nat /\ d # {} /\ \A j \in d : j <= n + 1
          BY <2>2, <3>1
        <5>. QED
          BY <3>1, <5>1, MaxIs
      <4>2. d \ {n + 1} \in SUBSET (1..n) /\ d \ {n + 1} \in SUBSET (1..n + 1)
        BY <2>2
      <4>3. up[d \ {n + 1}] = it[d \ {n + 1}]
        BY <4>2
      <4>. HIDE DEF up
      <4>. QED
        BY <2>2, <3>0, <3>1, <4>1, <4>3
    <3>2. CASE n + 1 \notin d
      <4>1. d \in SUBSET (1..n)
        BY <2>2, <3>2
      <4>2. up[d] = it[d]
        BY <3>0, <3>2
      <4>3. CASE d = {}
        <5>1. it[d] = NoMessages
          BY <2>3, <4>1, <4>3
        <5>. QED
          BY <4>2, <4>3, <5>1
      <4>4. CASE d # {}
        <5>1. Max(d) \in 1..n
          BY <2>2, <4>1, <4>4, MaxIs
        <5>2. it[d] = ReadNext(it[d \ {Max(d)}], r[Max(d)])
          BY <2>3, <4>1, <4>4
        <5>3. up[d \ {Max(d)}] = it[d \ {Max(d)}]
          <6>. DEFINE c == d \ {Max(d)}
          <6>1. c \in SUBSET (1..n + 1) /\ n + 1 \notin c
            BY <3>2
          <6>. HIDE DEF c
          <6>2. up[c] = it[c]
            BY <6>1
          <6>. QED
            BY <6>2 DEF c
        <5>. HIDE DEF up
        <5>. QED
          BY <2>2, <4>2, <4>4, <5>1, <5>2, <5>3
      <4>. QED
        BY <4>3, <4>4
    <3>. QED
      BY <3>1, <3>2
  <2>5. up = [d \in SUBSET (1..n + 1) |->
                IF d = {} THEN NoMessages ELSE ReadNext(up[d \ {Max(d)}], s[Max(d)])]
    <3>1. up = [d \in SUBSET (1..n + 1) |-> up[d]]
      OBVIOUS
    <3>. HIDE DEF up
    <3>. QED
      BY <2>4, <3>1
  <2>. HIDE DEF up
  <2>6. FoldsReads(up, s)
    BY <2>2, <2>5 DEF FoldsReads
  <2>7. s \in Good
    BY <2>2, <2>6
  <2>. QED
    BY <2>7 DEF s
<1>. HIDE DEF Good
<1>3. \A s \in Seq(S) : s \in Good
  BY <1>1, <1>2, ListInduct
<1>. QED
  BY <1>3 DEF Good

(* The fold of a longer list goes through that of the shorter.             *)
LEMMA ReadsGoOn ==
  ASSUME NEW S, NEW r \in Seq(S), NEW e \in S,
         NEW it, FoldsReads(it, r), NEW up, FoldsReads(up, Append(r, e))
  PROVE  /\ it[1..Len(r)] = up[1..Len(r)]
         /\ up[1..Len(r) + 1] = ReadNext(up[1..Len(r)], e)
<1>. DEFINE n == Len(r)
            s == Append(r, e)
            T == {k \in 0..n : it[1..k] # up[1..k]}
<1>1. /\ n \in Nat /\ s \in Seq(S) /\ DOMAIN s = 1..n + 1 /\ DOMAIN r = 1..n
      /\ s[n + 1] = e /\ \A i \in 1..n : s[i] = r[i]
  OBVIOUS
<1>2. \A d \in SUBSET (1..n) :
         it[d] = IF d = {} THEN NoMessages ELSE ReadNext(it[d \ {Max(d)}], r[Max(d)])
  BY <1>1 DEF FoldsReads
<1>3. \A d \in SUBSET (1..n + 1) :
         up[d] = IF d = {} THEN NoMessages ELSE ReadNext(up[d \ {Max(d)}], s[Max(d)])
  BY <1>1 DEF FoldsReads
<1>. HIDE DEF n, s
<1>4. \A k \in 1..n + 1 : Max(1..k) = k /\ (1..k) \ {k} = 1..k - 1 /\ 1..k # {}
  <2>. SUFFICES ASSUME NEW k \in 1..n + 1
                PROVE  Max(1..k) = k /\ (1..k) \ {k} = 1..k - 1 /\ 1..k # {}
    OBVIOUS
  <2>1. k \in Nat /\ k \in 1..k /\ \A j \in 1..k : j <= k
    BY <1>1
  <2>2. (1..k) \ {k} = 1..k - 1
    BY <2>1
  <2>3. Max(1..k) = k
    BY <2>1, MaxIs
  <2>. QED
    BY <2>1, <2>2, <2>3
<1>5. \A k \in 1..n + 1 : up[1..k] = ReadNext(up[1..k - 1], s[k])
  <2>. SUFFICES ASSUME NEW k \in 1..n + 1 PROVE up[1..k] = ReadNext(up[1..k - 1], s[k])
    OBVIOUS
  <2>1. 1..k \in SUBSET (1..n + 1)
    BY <1>1
  <2>. QED
    BY <1>3, <1>4, <2>1
<1>6. \A k \in 1..n : it[1..k] = ReadNext(it[1..k - 1], r[k])
  <2>. SUFFICES ASSUME NEW k \in 1..n PROVE it[1..k] = ReadNext(it[1..k - 1], r[k])
    OBVIOUS
  <2>1. 1..k \in SUBSET (1..n) /\ k \in 1..n + 1
    BY <1>1
  <2>. QED
    BY <1>2, <1>4, <2>1
<1>7. T = {}
  <2>1. SUFFICES ASSUME T # {} PROVE FALSE
    OBVIOUS
  <2>2. PICK k \in T : \A m \in T : k <= m
    <3>1. T \in SUBSET Nat
      BY <1>1
    <3>. QED
      BY <2>1, <3>1, NatMin
  <2>3. k \in 0..n /\ it[1..k] # up[1..k]
    OBVIOUS
  <2>4. CASE k = 0
    <3>1. 1..k = {}
      BY <2>4
    <3>2. it[{}] = NoMessages /\ up[{}] = NoMessages
      BY <1>2, <1>3
    <3>. QED
      BY <2>3, <3>1, <3>2
  <2>5. CASE k # 0
    <3>1. k \in 1..n /\ k \in 1..n + 1 /\ k - 1 \in 0..n /\ ~(k <= k - 1)
      BY <1>1, <2>3, <2>5
    <3>2. it[1..k - 1] = up[1..k - 1]
      <4>1. k - 1 \notin T
        <5>. HIDE DEF T
        <5>. QED
          BY <2>2, <3>1
      <4>. QED
        BY <3>1, <4>1
    <3>. QED
      BY <1>1, <1>5, <1>6, <2>3, <3>1, <3>2
  <2>. QED
    BY <2>4, <2>5
<1>8. n + 1 \in 1..n + 1 /\ n \in 0..n /\ (n + 1) - 1 = n
  BY <1>1
<1>9. it[1..n] = up[1..n]
  BY <1>7, <1>8
<1>10. up[1..n + 1] = ReadNext(up[1..n], e)
  BY <1>1, <1>5, <1>8
<1>. QED
  BY <1>9, <1>10 DEF n

(* Of no messages nothing is read.                                         *)
LEMMA ReadsNone ==
  ReadMessages(<<>>) = NoMessages
<1>. DEFINE it == CHOOSE h : FoldsReads(h, <<>>)
<1>1. <<>> \in Seq({}) /\ DOMAIN <<>> = {}
  OBVIOUS
<1>2. FoldsReads(it, <<>>)
  BY <1>1, ReadsExist
<1>. HIDE DEF it
<1>3. it[{}] = NoMessages
  BY <1>1, <1>2 DEF FoldsReads
<1>. QED
  BY <1>1, <1>3, ReadsIs DEF it

(* The next message is read after the others.                              *)
LEMMA ReadsMore ==
  ASSUME NEW S, NEW r \in Seq(S), NEW e \in S
  PROVE  ReadMessages(Append(r, e)) = ReadNext(ReadMessages(r), e)
<1>. DEFINE it == CHOOSE h : FoldsReads(h, r)
            up == CHOOSE h : FoldsReads(h, Append(r, e))
<1>1. /\ Append(r, e) \in Seq(S) /\ Len(r) \in Nat
      /\ DOMAIN r = 1..Len(r) /\ DOMAIN Append(r, e) = 1..Len(r) + 1
  OBVIOUS
<1>2. FoldsReads(it, r) /\ FoldsReads(up, Append(r, e))
  BY <1>1, ReadsExist
<1>3. ReadMessages(r) = it[1..Len(r)] /\ ReadMessages(Append(r, e)) = up[1..Len(r) + 1]
  BY <1>1, ReadsIs
<1>. HIDE DEF it, up
<1>. QED
  BY <1>2, <1>3, ReadsGoOn

-----------------------------------------------------------------------------
(* What a turn of a request says, by its blocks *)

Texts == [kind : {"text"}, text : Seq(Strings)]
Medias ==
  [kind : Kinds, media : Strings \cup {AudioFormats[f] : f \in DOMAIN AudioFormats},
   source : {"bytes", "url"}]
ToolResults == [kind : {"tool_result"}, id : Strings, text : Seq(Strings)]
ToolUses ==
  [kind : {"tool_use"}, id : Strings, name : Strings, input : {FromStr(a) : a \in Seq(Strings)}]
Blocks == Texts \cup Medias \cup ToolResults \cup ToolUses

SaysOf == [b \in Blocks |-> IF b.kind = "text" THEN b.text ELSE <<>>]
CallsOf == [b \in Blocks |-> IF b.kind = "tool_use" THEN <<b.name>> ELSE <<>>]
ToldOf == [b \in Blocks |-> IF b.kind = "tool_result" THEN <<b.text>> ELSE <<>>]
ShowsOf == [b \in Blocks |-> IF b.kind \in Kinds THEN <<b.kind>> ELSE <<>>]

(* A block is of one kind.                                                 *)
LEMMA BlockIs ==
  ASSUME NEW b \in Blocks
  PROVE  /\ b.kind \in {"text", "image", "document", "audio", "tool_result", "tool_use"}
         /\ b.kind = "text" <=> b \in Texts
         /\ b.kind \in Kinds <=> b \in Medias
         /\ b.kind = "tool_result" <=> b \in ToolResults
         /\ b.kind = "tool_use" <=> b \in ToolUses
         /\ b \in Texts => b.text \in Seq(Strings)
         /\ b \in ToolResults => b.text \in Seq(Strings) /\ b.id \in Strings
         /\ b \in ToolUses => b.name \in Strings /\ b.id \in Strings
BY DEF Blocks, Texts, Medias, ToolResults, ToolUses, Kinds

(* What a block says, calls, was told and shows is a list.                 *)
LEMMA OfBlocks ==
  /\ Maps(SaysOf, Blocks, Strings) /\ Maps(CallsOf, Blocks, Strings)
  /\ Maps(ToldOf, Blocks, Seq(Strings)) /\ Maps(ShowsOf, Blocks, Kinds)
<1>1. ASSUME NEW b \in Blocks
      PROVE  (IF b.kind = "text" THEN b.text ELSE <<>>) \in Seq(Strings)
  <2>1. CASE b.kind = "text"
    <3>1. b.text \in Seq(Strings)
      BY <2>1, BlockIs
    <3>. QED
      BY <2>1, <3>1, Zenon
  <2>2. CASE ~(b.kind = "text")
    <3>1. <<>> \in Seq(Strings)
      OBVIOUS
    <3>. QED
      BY <2>2, <3>1, Zenon
  <2>. QED
    BY <2>1, <2>2, Zenon
<1>2. ASSUME NEW b \in Blocks
      PROVE  (IF b.kind = "tool_use" THEN <<b.name>> ELSE <<>>) \in Seq(Strings)
  <2>1. CASE b.kind = "tool_use"
    <3>1. <<b.name>> \in Seq(Strings)
      BY <2>1, BlockIs
    <3>. QED
      BY <2>1, <3>1, Zenon
  <2>2. CASE ~(b.kind = "tool_use")
    <3>1. <<>> \in Seq(Strings)
      OBVIOUS
    <3>. QED
      BY <2>2, <3>1, Zenon
  <2>. QED
    BY <2>1, <2>2, Zenon
<1>3. ASSUME NEW b \in Blocks
      PROVE  (IF b.kind = "tool_result" THEN <<b.text>> ELSE <<>>) \in Seq(Seq(Strings))
  <2>1. CASE b.kind = "tool_result"
    <3>1. <<b.text>> \in Seq(Seq(Strings))
      BY <2>1, BlockIs
    <3>. QED
      BY <2>1, <3>1, Zenon
  <2>2. CASE ~(b.kind = "tool_result")
    <3>1. <<>> \in Seq(Seq(Strings))
      OBVIOUS
    <3>. QED
      BY <2>2, <3>1, Zenon
  <2>. QED
    BY <2>1, <2>2, Zenon
<1>4. ASSUME NEW b \in Blocks
      PROVE  (IF b.kind \in Kinds THEN <<b.kind>> ELSE <<>>) \in Seq(Kinds)
  <2>1. CASE b.kind \in Kinds
    <3>1. <<b.kind>> \in Seq(Kinds)
      BY <2>1, BlockIs
    <3>. QED
      BY <2>1, <3>1, Zenon
  <2>2. CASE ~(b.kind \in Kinds)
    <3>1. <<>> \in Seq(Kinds)
      OBVIOUS
    <3>. QED
      BY <2>2, <3>1, Zenon
  <2>. QED
    BY <2>1, <2>2, Zenon
<1>. QED
  BY <1>1, <1>2, <1>3, <1>4 DEF Maps, SaysOf, CallsOf, ToldOf, ShowsOf

Said(by, content) ==
  Side(by, Gather(SaysOf, content), Gather(CallsOf, content), Gather(ToldOf, content),
       Gather(ShowsOf, content))

(* What content says.                                                      *)
LEMMA SaidIs ==
  ASSUME NEW by \in {"user", "model"}, NEW content \in Seq(Blocks)
  PROVE  /\ Said(by, content) \in Sides /\ Said(by, content).by = by
         /\ Said(by, content).words = Gather(SaysOf, content)
         /\ Said(by, content).calls = Gather(CallsOf, content)
         /\ Said(by, content).told = Gather(ToldOf, content)
         /\ Said(by, content).shown = Gather(ShowsOf, content)
         /\ Gather(SaysOf, content) \in Seq(Strings) /\ Gather(CallsOf, content) \in Seq(Strings)
         /\ Gather(ToldOf, content) \in Seq(Seq(Strings))
         /\ Gather(ShowsOf, content) \in Seq(Kinds)
<1>. DEFINE w == Gather(SaysOf, content)
            c == Gather(CallsOf, content)
            o == Gather(ToldOf, content)
            h == Gather(ShowsOf, content)
<1>1. w \in Seq(Strings) /\ c \in Seq(Strings) /\ o \in Seq(Seq(Strings)) /\ h \in Seq(Kinds)
  BY OfBlocks, GatherIs
<1>2. Said(by, content) = Side(by, w, c, o, h)
  BY DEF Said
<1>3. /\ w = Gather(SaysOf, content) /\ c = Gather(CallsOf, content)
      /\ o = Gather(ToldOf, content) /\ h = Gather(ShowsOf, content)
  OBVIOUS
<1>. HIDE DEF w, c, o, h
<1>4. /\ Side(by, w, c, o, h) \in Sides /\ Side(by, w, c, o, h).by = by
      /\ Side(by, w, c, o, h).words = w /\ Side(by, w, c, o, h).calls = c
      /\ Side(by, w, c, o, h).told = o /\ Side(by, w, c, o, h).shown = h
  BY <1>1, SideIs
<1>. QED
  BY <1>1, <1>2, <1>3, <1>4, Zenon

(* What is said in two parts is said at once.                              *)
LEMMA SaidBoth ==
  ASSUME NEW by \in {"user", "model"}, NEW s \in Seq(Blocks), NEW t \in Seq(Blocks)
  PROVE  /\ s \o t \in Seq(Blocks)
         /\ Said(by, s \o t) = Both(Said(by, s), Said(by, t))
<1>1. s \o t \in Seq(Blocks)
  OBVIOUS
<1>2. /\ Gather(SaysOf, s \o t) = Gather(SaysOf, s) \o Gather(SaysOf, t)
      /\ Gather(CallsOf, s \o t) = Gather(CallsOf, s) \o Gather(CallsOf, t)
      /\ Gather(ToldOf, s \o t) = Gather(ToldOf, s) \o Gather(ToldOf, t)
      /\ Gather(ShowsOf, s \o t) = Gather(ShowsOf, s) \o Gather(ShowsOf, t)
  <2>1. Gather(SaysOf, s \o t) = Gather(SaysOf, s) \o Gather(SaysOf, t)
    BY OfBlocks, GatherBoth
  <2>2. Gather(CallsOf, s \o t) = Gather(CallsOf, s) \o Gather(CallsOf, t)
    BY OfBlocks, GatherBoth
  <2>3. Gather(ToldOf, s \o t) = Gather(ToldOf, s) \o Gather(ToldOf, t)
    BY OfBlocks, GatherBoth
  <2>4. Gather(ShowsOf, s \o t) = Gather(ShowsOf, s) \o Gather(ShowsOf, t)
    BY OfBlocks, GatherBoth
  <2>. QED
    BY <2>1, <2>2, <2>3, <2>4
<1>3. /\ Said(by, s).by = by
      /\ Said(by, s).words = Gather(SaysOf, s) /\ Said(by, s).calls = Gather(CallsOf, s)
      /\ Said(by, s).told = Gather(ToldOf, s) /\ Said(by, s).shown = Gather(ShowsOf, s)
  BY SaidIs
<1>4. /\ Said(by, t).words = Gather(SaysOf, t) /\ Said(by, t).calls = Gather(CallsOf, t)
      /\ Said(by, t).told = Gather(ToldOf, t) /\ Said(by, t).shown = Gather(ShowsOf, t)
  BY SaidIs
<1>. QED
  BY <1>1, <1>2, <1>3, <1>4, Zenon DEF Said, Both

-----------------------------------------------------------------------------
(* What a conversation sounds like, turn by turn *)

Content(role) == IF role = "user" THEN Texts \cup Medias \cup ToolResults ELSE Texts \cup ToolUses
Turns ==
  {Message("user", c) : c \in Seq(Content("user"))}
    \cup {Message("assistant", c) : c \in Seq(Content("assistant"))}

Speaker(role) == IF role = "user" THEN "user" ELSE "model"
SideOf == [m \in Turns |-> Said(Speaker(m.role), m.content)]
Heard(messages) == Sided([i \in DOMAIN messages |-> SideOf[messages[i]]])

(* A turn is who speaks, and content.                                      *)
LEMMA TurnIs ==
  ASSUME NEW m \in Turns
  PROVE  /\ m.role \in {"user", "assistant"} /\ m.content \in Seq(Content(m.role))
         /\ m.content \in Seq(Blocks) /\ m = Message(m.role, m.content)
         /\ Speaker(m.role) \in {"user", "model"}
<1>1. \E role \in {"user", "assistant"} : \E c \in Seq(Content(role)) : m = Message(role, c)
  <2>1. CASE m \in {Message("user", c) : c \in Seq(Content("user"))}
    BY <2>1, Zenon
  <2>2. CASE m \in {Message("assistant", c) : c \in Seq(Content("assistant"))}
    BY <2>2, Zenon
  <2>. QED
    BY <2>1, <2>2, Zenon DEF Turns
<1>5. PICK role \in {"user", "assistant"} : \E c \in Seq(Content(role)) : m = Message(role, c)
  BY <1>1, Zenon
<1>6. PICK c \in Seq(Content(role)) : m = Message(role, c)
  BY <1>5, Zenon
<1>2. m.role = role /\ m.content = c
  BY <1>6 DEF Message
<1>3. Content(role) \subseteq Blocks
  BY DEF Content, Blocks
<1>4. c \in Seq(Blocks)
  BY <1>3
<1>. QED
  BY <1>2, <1>4, <1>6 DEF Speaker

(* A turn that is made of content says it.                                 *)
LEMMA TurnMade ==
  ASSUME NEW role \in {"user", "assistant"}, NEW c \in Seq(Content(role))
  PROVE  /\ Message(role, c) \in Turns
         /\ Message(role, c).role = role /\ Message(role, c).content = c
         /\ SideOf[Message(role, c)] = Said(Speaker(role), c)
<1>1. Message(role, c) \in Turns
  BY DEF Turns
<1>2. Message(role, c).role = role /\ Message(role, c).content = c
  BY DEF Message
<1>. QED
  BY <1>1, <1>2 DEF SideOf

(* A turn is a side.                                                       *)
LEMMA SideOfIs ==
  SideOf \in [Turns -> Sides]
<1>1. \A m \in Turns : Said(Speaker(m.role), m.content) \in Sides
  BY TurnIs, SaidIs
<1>. QED
  BY <1>1 DEF SideOf

(* What was heard are sides.                                               *)
LEMMA HeardIs ==
  ASSUME NEW messages \in Seq(Turns)
  PROVE  Heard(messages) \in Seq(Sides)
<1>1. [i \in DOMAIN messages |-> SideOf[messages[i]]] \in Seq(Sides)
  BY SideOfIs, EachIs
<1>. QED
  BY <1>1, SidedAre DEF Heard

(* The next turn is heard after the others.                                *)
LEMMA HeardMore ==
  ASSUME NEW messages \in Seq(Turns), NEW m \in Turns
  PROVE  Heard(Append(messages, m)) = Joins(Heard(messages), SideOf[m])
<1>1. [i \in DOMAIN messages |-> SideOf[messages[i]]] \in Seq(Sides) /\ SideOf[m] \in Sides
  BY SideOfIs, EachIs
<1>2. [i \in DOMAIN Append(messages, m) |-> SideOf[Append(messages, m)[i]]]
        = Append([i \in DOMAIN messages |-> SideOf[messages[i]]], SideOf[m])
  BY SideOfIs, EachMore
<1>. QED
  BY <1>1, <1>2, SidedMore DEF Heard

(* What a block of each kind says.                                         *)
LEMMA BlockSays ==
  /\ \A b \in Texts : /\ b \in Blocks /\ SaysOf[b] = b.text /\ CallsOf[b] = <<>>
                      /\ ToldOf[b] = <<>> /\ ShowsOf[b] = <<>>
  /\ \A b \in Medias : /\ b \in Blocks /\ SaysOf[b] = <<>> /\ CallsOf[b] = <<>>
                       /\ ToldOf[b] = <<>> /\ ShowsOf[b] = <<b.kind>>
  /\ \A b \in ToolResults : /\ b \in Blocks /\ SaysOf[b] = <<>> /\ CallsOf[b] = <<>>
                            /\ ToldOf[b] = <<b.text>> /\ ShowsOf[b] = <<>>
  /\ \A b \in ToolUses : /\ b \in Blocks /\ SaysOf[b] = <<>> /\ CallsOf[b] = <<b.name>>
                         /\ ToldOf[b] = <<>> /\ ShowsOf[b] = <<>>
BY DEF Blocks, Texts, Medias, ToolResults, ToolUses, SaysOf, CallsOf, ToldOf, ShowsOf, Kinds

(* One block.                                                              *)
LEMMA OneBlock ==
  ASSUME NEW b \in Blocks
  PROVE  /\ Gather(SaysOf, <<b>>) = SaysOf[b] /\ Gather(CallsOf, <<b>>) = CallsOf[b]
         /\ Gather(ToldOf, <<b>>) = ToldOf[b] /\ Gather(ShowsOf, <<b>>) = ShowsOf[b]
<1>1. Gather(SaysOf, <<b>>) = SaysOf[b]
  BY OfBlocks, GatherOne
<1>2. Gather(CallsOf, <<b>>) = CallsOf[b]
  BY OfBlocks, GatherOne
<1>3. Gather(ToldOf, <<b>>) = ToldOf[b]
  BY OfBlocks, GatherOne
<1>4. Gather(ShowsOf, <<b>>) = ShowsOf[b]
  BY OfBlocks, GatherOne
<1>. QED
  BY <1>1, <1>2, <1>3, <1>4

WordsIn(part) == IF part.type = "text" THEN part.text ELSE <<>>
ShownIn(part) == IF part.type \in DOMAIN MediaParts THEN <<MediaParts[part.type]>> ELSE <<>>

(* A block of media is one.                                                *)
LEMMA MediaIs ==
  ASSUME NEW kind \in Kinds,
         NEW media \in Strings \cup {AudioFormats[f] : f \in DOMAIN AudioFormats},
         NEW source \in {"bytes", "url"}
  PROVE  /\ [kind |-> kind, media |-> media, source |-> source] \in Medias
         /\ [kind |-> kind, media |-> media, source |-> source].kind = kind
BY DEF Medias

(* A part is read as a block that says the same, or not at all.            *)
LEMMA PartIs ==
  ASSUME NEW p, SpeltPart(p)
  PROVE  /\ WordsIn(p) \in Seq(Strings) /\ ShownIn(p) \in Seq(Kinds)
         /\ p.type = "text" => ReadPart(p) = <<Text(p.text)>> /\ Text(p.text) \in Texts
         /\ p.type \notin {"text", "image_url", "file", "input_audio"} => ReadPart(p) = <<>>
         /\ p.type \in {"image_url", "file", "input_audio"} =>
              \/ ReadPart(p) = <<>>
              \/ \E b \in Medias : ReadPart(p) = <<b>> /\ b.kind = MediaParts[p.type]
<1>1. MediaParts = [image_url |-> "image", file |-> "document", input_audio |-> "audio"]
  BY DEF MediaParts
<1>2. /\ DOMAIN MediaParts = {"image_url", "file", "input_audio"}
      /\ \A x \in DOMAIN MediaParts : MediaParts[x] \in Kinds
      /\ MediaParts["image_url"] = "image" /\ MediaParts["file"] = "document"
      /\ MediaParts["input_audio"] = "audio"
  <2>1. DOMAIN MediaParts = {"image_url", "file", "input_audio"}
    BY <1>1
  <2>2. MediaParts["image_url"] = "image" /\ MediaParts["file"] = "document"
        /\ MediaParts["input_audio"] = "audio"
    BY <1>1
  <2>. QED
    BY <2>1, <2>2 DEF Kinds
<1>3. WordsIn(p) \in Seq(Strings)
  <2>1. CASE p.type = "text"
    <3>1. p.text \in Seq(Strings)
      BY <2>1 DEF SpeltPart
    <3>. QED
      BY <2>1, <3>1, Zenon DEF WordsIn
  <2>2. CASE p.type # "text"
    BY <2>2 DEF WordsIn
  <2>. QED
    BY <2>1, <2>2
<1>4. ShownIn(p) \in Seq(Kinds)
  <2>1. CASE p.type \in DOMAIN MediaParts
    BY <1>2, <2>1 DEF ShownIn
  <2>2. CASE p.type \notin DOMAIN MediaParts
    BY <2>2 DEF ShownIn
  <2>. QED
    BY <2>1, <2>2
<1>5. ASSUME p.type = "text"
      PROVE  ReadPart(p) = <<Text(p.text)>> /\ Text(p.text) \in Texts
  <2>1. p.text \in Seq(Strings)
    BY <1>5 DEF SpeltPart
  <2>2. Text(p.text) \in Texts
    BY <2>1 DEF Text, Texts
  <2>. QED
    BY <1>5, <2>2 DEF ReadPart, Some
<1>6. ASSUME p.type \notin {"text", "image_url", "file", "input_audio"}
      PROVE  ReadPart(p) = <<>>
  BY <1>6 DEF ReadPart, None
<1>7. ASSUME p.type = "image_url"
      PROVE  ReadPart(p) = <<>> \/ \E b \in Medias : ReadPart(p) = <<b>> /\ b.kind = "image"
  <2>1. p.media \in Strings
    BY <1>7 DEF SpeltPart
  <2>2. ReadPart(p) = ReadImage(p)
    BY <1>7 DEF ReadPart
  <2>. DEFINE b == Image(p.media, IF p.by = "data" THEN "bytes" ELSE "url")
  <2>3. b \in Medias /\ b.kind = "image"
    <3>. DEFINE source == IF p.by = "data" THEN "bytes" ELSE "url"
    <3>1. source \in {"bytes", "url"}
      OBVIOUS
    <3>. HIDE DEF source
    <3>. QED
      BY <2>1, <3>1, MediaIs DEF Image, Kinds
  <2>4. ReadImage(p) = <<>> \/ ReadImage(p) = <<b>>
    BY DEF ReadImage, When
  <2>. QED
    BY <2>2, <2>3, <2>4
<1>8. ASSUME p.type = "file"
      PROVE  ReadPart(p) = <<>> \/ \E b \in Medias : ReadPart(p) = <<b>> /\ b.kind = "document"
  <2>1. p.media \in Strings
    BY <1>8 DEF SpeltPart
  <2>2. ReadPart(p) = ReadFile(p)
    BY <1>8 DEF ReadPart
  <2>. DEFINE b == Document(p.media, "bytes")
  <2>3. b \in Medias /\ b.kind = "document"
    BY <2>1, MediaIs DEF Document, Kinds
  <2>4. ReadFile(p) = <<>> \/ ReadFile(p) = <<b>>
    BY DEF ReadFile, When
  <2>. QED
    BY <2>2, <2>3, <2>4
<1>9. ASSUME p.type = "input_audio"
      PROVE  ReadPart(p) = <<>> \/ \E b \in Medias : ReadPart(p) = <<b>> /\ b.kind = "audio"
  <2>2. ReadPart(p) = ReadAudio(p)
    BY <1>9 DEF ReadPart
  <2>1. CASE p.media \in DOMAIN AudioFormats
    <3>1. AudioFormats[p.media] \in {AudioFormats[f] : f \in DOMAIN AudioFormats}
      BY <2>1
    <3>. DEFINE b == Audio(AudioFormats[p.media])
    <3>2. b \in Medias /\ b.kind = "audio"
      BY <3>1, MediaIs DEF Audio, Kinds
    <3>3. ReadAudio(p) = <<b>>
      BY <2>1 DEF ReadAudio, Some
    <3>. QED
      BY <2>2, <3>2, <3>3
  <2>3. CASE p.media \notin DOMAIN AudioFormats
    BY <2>2, <2>3 DEF ReadAudio, None
  <2>. QED
    BY <2>1, <2>3
<1>. QED
  BY <1>2, <1>3, <1>4, <1>5, <1>6, <1>7, <1>8, <1>9

(* A part that is read says in its block what the client put in it.        *)
LEMMA PartRead ==
  ASSUME NEW p, SpeltPart(p)
  PROVE  /\ ReadPart(p) \in Seq(Content("user"))
         /\ ReadPart(p) # <<>> =>
              /\ Gather(SaysOf, ReadPart(p)) = WordsIn(p)
              /\ Gather(CallsOf, ReadPart(p)) = <<>>
              /\ Gather(ToldOf, ReadPart(p)) = <<>>
              /\ Gather(ShowsOf, ReadPart(p)) = ShownIn(p)
<1>0. DOMAIN MediaParts = {"image_url", "file", "input_audio"}
  BY DEF MediaParts
<1>1. CASE p.type = "text"
  <2>1. ReadPart(p) = <<Text(p.text)>> /\ Text(p.text) \in Texts
    BY <1>1, PartIs
  <2>2. Text(p.text) \in Content("user") /\ Text(p.text) \in Blocks
    BY <2>1 DEF Content, Blocks
  <2>3. Text(p.text).text = p.text
    BY DEF Text
  <2>4. WordsIn(p) = p.text /\ ShownIn(p) = <<>>
    BY <1>0, <1>1 DEF WordsIn, ShownIn
  <2>5. /\ SaysOf[Text(p.text)] = p.text /\ CallsOf[Text(p.text)] = <<>>
        /\ ToldOf[Text(p.text)] = <<>> /\ ShowsOf[Text(p.text)] = <<>>
    BY <2>1, <2>3, BlockSays, Zenon
  <2>. QED
    BY <2>1, <2>2, <2>4, <2>5, OneBlock
<1>2. CASE p.type \in {"image_url", "file", "input_audio"}
  <2>1. CASE ReadPart(p) = <<>>
    BY <2>1
  <2>2. CASE ReadPart(p) # <<>>
    <3>1. PICK b \in Medias : ReadPart(p) = <<b>> /\ b.kind = MediaParts[p.type]
      BY <1>2, <2>2, PartIs
    <3>2. b \in Content("user") /\ b \in Blocks
      BY <3>1 DEF Content, Blocks
    <3>3. WordsIn(p) = <<>> /\ ShownIn(p) = <<b.kind>>
      BY <1>0, <1>2, <3>1 DEF WordsIn, ShownIn
    <3>4. /\ SaysOf[b] = <<>> /\ CallsOf[b] = <<>> /\ ToldOf[b] = <<>> /\ ShowsOf[b] = <<b.kind>>
      BY BlockSays, Zenon
    <3>. QED
      BY <3>1, <3>2, <3>3, <3>4, OneBlock
  <2>. QED
    BY <2>1, <2>2
<1>3. CASE p.type \notin {"text", "image_url", "file", "input_audio"}
  <2>1. ReadPart(p) = <<>>
    BY <1>3, PartIs
  <2>. QED
    BY <2>1
<1>. QED
  BY <1>1, <1>2, <1>3

(* What a client's parts are read as says what is in them.                 *)
LEMMA PartsRead ==
  ASSUME NEW P, \A p \in P : SpeltPart(p), NEW parts \in Seq(P),
         \A i \in DOMAIN parts : ReadPart(parts[i]) # <<>>
  PROVE  LET c == FlattenSeq([i \in DOMAIN parts |-> ReadPart(parts[i])]) IN
         /\ c \in Seq(Content("user"))
         /\ Said("user", c) = Side("user", FlattenSeq([i \in DOMAIN parts |-> WordsIn(parts[i])]),
              <<>>, <<>>, FlattenSeq([i \in DOMAIN parts |-> ShownIn(parts[i])]))
<1>. DEFINE r == [p \in P |-> ReadPart(p)]
            w == [p \in P |-> WordsIn(p)]
            h == [p \in P |-> ShownIn(p)]
            n == [p \in P |-> <<>>]
            c == FlattenSeq([i \in DOMAIN parts |-> ReadPart(parts[i])])
<1>1. \A i \in DOMAIN parts : parts[i] \in P
  OBVIOUS
<1>2. /\ Maps(r, P, Content("user")) /\ Maps(w, P, Strings) /\ Maps(h, P, Kinds)
      /\ Maps(n, P, Strings)
  <2>1. \A p \in P : ReadPart(p) \in Seq(Content("user"))
    BY PartRead
  <2>2. \A p \in P : WordsIn(p) \in Seq(Strings) /\ ShownIn(p) \in Seq(Kinds)
    BY PartIs
  <2>3. Maps(r, P, Content("user"))
    BY <2>1 DEF Maps
  <2>4. Maps(w, P, Strings) /\ Maps(h, P, Kinds)
    BY <2>2 DEF Maps
  <2>5. Maps(n, P, Strings)
    BY DEF Maps
  <2>. QED
    BY <2>3, <2>4, <2>5
<1>3. Maps(r, P, Blocks)
  <2>1. Content("user") \subseteq Blocks
    BY DEF Content, Blocks
  <2>2. Seq(Content("user")) \subseteq Seq(Blocks)
    BY <2>1
  <2>. HIDE DEF r
  <2>. QED
    BY <1>2, <2>2 DEF Maps
<1>4. c = Gather(r, parts)
  <2>1. [i \in DOMAIN parts |-> ReadPart(parts[i])] = [i \in DOMAIN parts |-> r[parts[i]]]
    BY <1>1
  <2>. QED
    BY <2>1, Zenon DEF Gather
<1>5. /\ FlattenSeq([i \in DOMAIN parts |-> WordsIn(parts[i])]) = Gather(w, parts)
      /\ FlattenSeq([i \in DOMAIN parts |-> ShownIn(parts[i])]) = Gather(h, parts)
  <2>1. [i \in DOMAIN parts |-> WordsIn(parts[i])] = [i \in DOMAIN parts |-> w[parts[i]]]
    BY <1>1
  <2>2. [i \in DOMAIN parts |-> ShownIn(parts[i])] = [i \in DOMAIN parts |-> h[parts[i]]]
    BY <1>1
  <2>. QED
    BY <2>1, <2>2, Zenon DEF Gather
<1>6. \A i \in DOMAIN parts :
        /\ Gather(SaysOf, r[parts[i]]) = w[parts[i]] /\ Gather(CallsOf, r[parts[i]]) = n[parts[i]]
        /\ Gather(ToldOf, r[parts[i]]) = n[parts[i]] /\ Gather(ShowsOf, r[parts[i]]) = h[parts[i]]
  <2>1. SUFFICES ASSUME NEW i \in DOMAIN parts
                 PROVE  /\ Gather(SaysOf, r[parts[i]]) = w[parts[i]]
                        /\ Gather(CallsOf, r[parts[i]]) = n[parts[i]]
                        /\ Gather(ToldOf, r[parts[i]]) = n[parts[i]]
                        /\ Gather(ShowsOf, r[parts[i]]) = h[parts[i]]
    BY Zenon
  <2>2. /\ r[parts[i]] = ReadPart(parts[i]) /\ w[parts[i]] = WordsIn(parts[i])
        /\ h[parts[i]] = ShownIn(parts[i]) /\ n[parts[i]] = <<>>
    BY <1>1
  <2>3. SpeltPart(parts[i]) /\ ReadPart(parts[i]) # <<>>
    BY <1>1
  <2>4. /\ Gather(SaysOf, ReadPart(parts[i])) = WordsIn(parts[i])
        /\ Gather(CallsOf, ReadPart(parts[i])) = <<>>
        /\ Gather(ToldOf, ReadPart(parts[i])) = <<>>
        /\ Gather(ShowsOf, ReadPart(parts[i])) = ShownIn(parts[i])
    BY <2>3, PartRead
  <2>. HIDE DEF r, w, h, n
  <2>. QED
    BY <2>2, <2>4, Zenon
<1>7. \A i \in DOMAIN parts : n[parts[i]] = <<>>
  BY <1>1
<1>. HIDE DEF r, w, h, n, c
<1>8. Gather(r, parts) \in Seq(Content("user"))
  BY <1>2, GatherIs
<1>9. Gather(n, parts) = <<>>
  BY <1>2, <1>7, GatherNothing
<1>10. /\ Gather(SaysOf, Gather(r, parts)) = Gather(w, parts)
       /\ Gather(CallsOf, Gather(r, parts)) = Gather(n, parts)
       /\ Gather(ToldOf, Gather(r, parts)) = Gather(n, parts)
       /\ Gather(ShowsOf, Gather(r, parts)) = Gather(h, parts)
  <2>1. Gather(SaysOf, Gather(r, parts)) = Gather(w, parts)
    BY <1>3, <1>6, OfBlocks, GatherThrough
  <2>2. Gather(CallsOf, Gather(r, parts)) = Gather(n, parts)
    BY <1>3, <1>6, OfBlocks, GatherThrough
  <2>3. Gather(ToldOf, Gather(r, parts)) = Gather(n, parts)
    BY <1>3, <1>6, OfBlocks, GatherThrough
  <2>4. Gather(ShowsOf, Gather(r, parts)) = Gather(h, parts)
    BY <1>3, <1>6, OfBlocks, GatherThrough
  <2>. QED
    BY <2>1, <2>2, <2>3, <2>4
<1>11. Said("user", Gather(r, parts)) = Side("user", Gather(w, parts), <<>>, <<>>, Gather(h, parts))
  BY <1>9, <1>10, Zenon DEF Said
<1>. QED
  BY <1>4, <1>5, <1>8, <1>11, Zenon DEF c

(* The calls a client replays.                                             *)
LEMMA CallsRead ==
  ASSUME NEW C, \A call \in C : SpeltCall(call), NEW calls \in Seq(C)
  PROVE  LET c == [i \in DOMAIN calls |-> ReadToolCall(calls[i])] IN
         /\ c \in Seq(ToolUses) /\ (c = <<>> <=> calls = <<>>)
         /\ Gather(SaysOf, c) = <<>> /\ Gather(ToldOf, c) = <<>> /\ Gather(ShowsOf, c) = <<>>
         /\ Gather(CallsOf, c) = [i \in DOMAIN calls |-> calls[i].name]
<1>. DEFINE r == [call \in C |-> ReadToolCall(call)]
            c == [i \in DOMAIN calls |-> ReadToolCall(calls[i])]
            one == [call \in C |-> <<r[call]>>]
            names == [call \in C |-> call.name]
            name == [call \in C |-> <<names[call]>>]
            none == [call \in C |-> <<>>]
<1>1. \A i \in DOMAIN calls : calls[i] \in C
  OBVIOUS
<1>2. ASSUME NEW call \in C
      PROVE  ReadToolCall(call) \in ToolUses /\ ReadToolCall(call).name = call.name
             /\ call.name \in Strings
  <2>1. call.id \in Strings /\ call.name \in Strings /\ call.arguments \in Seq(Strings)
    BY DEF SpeltCall
  <2>2. FromStr(call.arguments) \in {FromStr(a) : a \in Seq(Strings)}
    BY <2>1
  <2>. QED
    BY <2>1, <2>2 DEF ReadToolCall, ToolUse, ToolUses
<1>3. r \in [C -> ToolUses] /\ names \in [C -> Strings]
  BY <1>2
<1>4. c = [i \in DOMAIN calls |-> r[calls[i]]]
  BY <1>1
<1>5. [i \in DOMAIN calls |-> calls[i].name] = [i \in DOMAIN calls |-> names[calls[i]]]
  BY <1>1
<1>6. \A call \in C : r[call] \in ToolUses /\ r[call].name = names[call]
  BY <1>2
<1>. HIDE DEF r, names, c
<1>7. c \in Seq(ToolUses) /\ Len(c) = Len(calls)
  BY <1>3, <1>4, EachIs
<1>8. c = Gather(one, calls)
  <2>1. Gather(one, calls) = [i \in DOMAIN calls |-> r[calls[i]]]
    <3>2. Singly(one, r, C, ToolUses)
      BY <1>3 DEF Maps, Singly
    <3>. HIDE DEF one
    <3>. QED
      BY <3>2, GatherEach
  <2>. QED
    BY <1>4, <2>1
<1>9. Gather(name, calls) = [i \in DOMAIN calls |-> calls[i].name]
  <2>1. Gather(name, calls) = [i \in DOMAIN calls |-> names[calls[i]]]
    <3>2. Singly(name, names, C, Strings)
      BY <1>3 DEF Maps, Singly
    <3>. HIDE DEF name
    <3>. QED
      BY <3>2, GatherEach
  <2>. QED
    BY <1>5, <2>1
<1>10. Maps(one, C, Blocks)
  <2>1. \A call \in C : r[call] \in Blocks
    BY <1>6 DEF Blocks
  <2>. QED
    BY <2>1 DEF Maps
<1>11. Maps(none, C, Strings)
  BY DEF Maps
<1>12. ASSUME NEW call \in C
       PROVE  /\ Gather(SaysOf, one[call]) = none[call] /\ Gather(ToldOf, one[call]) = none[call]
              /\ Gather(ShowsOf, one[call]) = none[call] /\ Gather(CallsOf, one[call]) = name[call]
  <2>1. one[call] = <<r[call]>> /\ none[call] = <<>> /\ name[call] = <<names[call]>>
    OBVIOUS
  <2>. HIDE DEF one, none, name
  <2>2. r[call] \in ToolUses /\ r[call].name = names[call]
    BY <1>6
  <2>3. /\ r[call] \in Blocks /\ SaysOf[r[call]] = <<>> /\ ToldOf[r[call]] = <<>>
        /\ ShowsOf[r[call]] = <<>> /\ CallsOf[r[call]] = <<r[call].name>>
    BY <2>2, BlockSays, Zenon
  <2>4. /\ Gather(SaysOf, <<r[call]>>) = SaysOf[r[call]]
        /\ Gather(CallsOf, <<r[call]>>) = CallsOf[r[call]]
        /\ Gather(ToldOf, <<r[call]>>) = ToldOf[r[call]]
        /\ Gather(ShowsOf, <<r[call]>>) = ShowsOf[r[call]]
    BY <2>3, OneBlock
  <2>. QED
    BY <2>1, <2>2, <2>3, <2>4, Zenon
<1>13. \A i \in DOMAIN calls : none[calls[i]] = <<>>
  BY <1>1
<1>. HIDE DEF one, none, name
<1>14. Gather(none, calls) = <<>>
  BY <1>11, <1>13, GatherNothing
<1>15. \A i \in DOMAIN calls :
         /\ Gather(SaysOf, one[calls[i]]) = none[calls[i]]
         /\ Gather(ToldOf, one[calls[i]]) = none[calls[i]]
         /\ Gather(ShowsOf, one[calls[i]]) = none[calls[i]]
         /\ Gather(CallsOf, one[calls[i]]) = name[calls[i]]
  BY <1>1, <1>12, Zenon
<1>16. Gather(SaysOf, Gather(one, calls)) = Gather(none, calls)
  BY <1>10, <1>15, OfBlocks, GatherThrough
<1>17. Gather(ToldOf, Gather(one, calls)) = Gather(none, calls)
  BY <1>10, <1>15, OfBlocks, GatherThrough
<1>18. Gather(ShowsOf, Gather(one, calls)) = Gather(none, calls)
  BY <1>10, <1>15, OfBlocks, GatherThrough
<1>19. Gather(CallsOf, Gather(one, calls)) = Gather(name, calls)
  BY <1>10, <1>15, OfBlocks, GatherThrough
<1>20. c = <<>> <=> calls = <<>>
  <2>1. calls \in Seq(C) /\ c \in Seq(ToolUses) /\ Len(c) = Len(calls)
    BY <1>7
  <2>. QED
    BY <2>1, EmptySeq
<1>. QED
  BY <1>7, <1>8, <1>9, <1>14, <1>16, <1>17, <1>18, <1>19, <1>20, Zenon DEF c

-----------------------------------------------------------------------------
(* What a client's message says *)

PartsSay(parts) == FlattenSeq([i \in DOMAIN parts |-> WordsIn(parts[i])])
PartsShow(parts) == FlattenSeq([i \in DOMAIN parts |-> ShownIn(parts[i])])
Called(calls) == [i \in DOMAIN calls |-> calls[i].name]

(* What a message says, by its role.                                       *)
LEMMA MessageIs ==
  ASSUME NEW m
  PROVE  LET parts == Or(m.content, <<>>) IN
         /\ m.role = "assistant" => OfMessage(m) = Side("model", PartsSay(parts), Called(m.calls), <<>>, <<>>)
         /\ m.role = "tool" => OfMessage(m) = Side("user", <<>>, <<>>, <<PartsSay(parts)>>, <<>>)
         /\ m.role = "user" => OfMessage(m) = Side("user", PartsSay(parts), <<>>, <<>>, PartsShow(parts))
         /\ m.role \notin {"assistant", "tool", "user"} => OfMessage(m) = Nothing
<1>. DEFINE parts == Or(m.content, <<>>)
<1>1. OfMessage(m) =
        CASE m.role = "assistant" -> Side("model", PartsSay(parts), Called(m.calls), <<>>, <<>>)
          [] m.role = "tool" -> Side("user", <<>>, <<>>, <<PartsSay(parts)>>, <<>>)
          [] m.role = "user" -> Side("user", PartsSay(parts), <<>>, <<>>, PartsShow(parts))
          [] OTHER -> Nothing
  BY Zenon DEF OfMessage, PartsSay, PartsShow, Called, WordsIn, ShownIn
<1>. HIDE DEF parts
<1>2. /\ m.role = "assistant" => OfMessage(m) = Side("model", PartsSay(parts), Called(m.calls), <<>>, <<>>)
      /\ m.role = "tool" => OfMessage(m) = Side("user", <<>>, <<>>, <<PartsSay(parts)>>, <<>>)
      /\ m.role = "user" => OfMessage(m) = Side("user", PartsSay(parts), <<>>, <<>>, PartsShow(parts))
      /\ m.role \notin {"assistant", "tool", "user"} => OfMessage(m) = Nothing
  BY <1>1
<1>. QED
  BY <1>2 DEF parts

(* The words of a message, and what it shows and calls.                    *)
LEMMA MessageHas ==
  ASSUME NEW m, SpeltMessage(m)
  PROVE  LET parts == Or(m.content, <<>>) IN
         /\ parts \in Seq(ToSet(parts)) /\ \A p \in ToSet(parts) : SpeltPart(p)
         /\ PartsSay(parts) \in Seq(Strings) /\ PartsShow(parts) \in Seq(Kinds)
         /\ m.calls \in Seq(ToSet(m.calls)) /\ \A call \in ToSet(m.calls) : SpeltCall(call)
         /\ Called(m.calls) \in Seq(Strings)
         /\ m.content = None \/ \E x : m.content = Some(x)
         /\ TextOf(m.content) \in {None, Some(PartsSay(parts))}
<1>. DEFINE parts == Or(m.content, <<>>)
            P == ToSet(parts)
            w == [p \in P |-> WordsIn(p)]
            h == [p \in P |-> ShownIn(p)]
<1>1. /\ parts \in Seq(P) /\ \A i \in DOMAIN parts : SpeltPart(parts[i])
      /\ m.calls \in Seq(ToSet(m.calls)) /\ \A i \in DOMAIN m.calls : SpeltCall(m.calls[i])
  BY Zenon DEF SpeltMessage
<1>2. \A p \in P : SpeltPart(p)
  BY <1>1, Zenon DEF ToSet
<1>3. \A call \in ToSet(m.calls) : SpeltCall(call)
  BY <1>1, Zenon DEF ToSet
<1>4. m.content = None \/ \E x : m.content = Some(x)
  BY Zenon DEF SpeltMessage, Optional
<1>5. TextOf(m.content) \in {None, Some(PartsSay(parts))}
  BY Zenon DEF TextOf, PartsSay, WordsIn
<1>. HIDE DEF parts
<1>6. Maps(w, P, Strings) /\ Maps(h, P, Kinds)
  <2>1. \A p \in P : WordsIn(p) \in Seq(Strings) /\ ShownIn(p) \in Seq(Kinds)
    BY <1>2, PartIs
  <2>. QED
    BY <2>1 DEF Maps
<1>7. Gather(w, parts) = PartsSay(parts) /\ Gather(h, parts) = PartsShow(parts)
  <2>1. \A i \in DOMAIN parts : parts[i] \in P
    BY <1>1
  <2>2. [i \in DOMAIN parts |-> WordsIn(parts[i])] = [i \in DOMAIN parts |-> w[parts[i]]]
    BY <2>1
  <2>3. [i \in DOMAIN parts |-> ShownIn(parts[i])] = [i \in DOMAIN parts |-> h[parts[i]]]
    BY <2>1
  <2>. QED
    BY <2>2, <2>3, Zenon DEF Gather, PartsSay, PartsShow
<1>. HIDE DEF P, w, h
<1>8. Gather(w, parts) \in Seq(Strings) /\ Gather(h, parts) \in Seq(Kinds)
  BY <1>1, <1>6, GatherIs
<1>9. Called(m.calls) \in Seq(Strings)
  <2>. DEFINE c == m.calls
              C == ToSet(c)
              names == [call \in C |-> call.name]
  <2>1. c \in Seq(C)
    BY <1>1
  <2>2. names \in [C -> Strings]
    BY <1>3 DEF SpeltCall
  <2>. HIDE DEF c
  <2>3. Called(c) = [i \in DOMAIN c |-> names[c[i]]]
    BY <2>1 DEF Called
  <2>. HIDE DEF C, names
  <2>4. Called(c) \in Seq(Strings)
    BY <2>1, <2>2, <2>3, EachIs
  <2>. QED
    BY <2>4 DEF c
<1>. QED
  BY <1>1, <1>2, <1>3, <1>4, <1>5, <1>7, <1>8, <1>9, Zenon DEF parts, P

(* A message is a side.                                                    *)
LEMMA MessageSides ==
  ASSUME NEW m, SpeltMessage(m)
  PROVE  OfMessage(m) \in Sides
<1>. DEFINE parts == Or(m.content, <<>>)
            w == PartsSay(parts)
            h == PartsShow(parts)
            c == Called(m.calls)
<1>1. w \in Seq(Strings) /\ h \in Seq(Kinds) /\ c \in Seq(Strings)
  BY MessageHas, Zenon
<1>2. \/ OfMessage(m) = Side("model", w, c, <<>>, <<>>)
      \/ OfMessage(m) = Side("user", <<>>, <<>>, <<w>>, <<>>)
      \/ OfMessage(m) = Side("user", w, <<>>, <<>>, h)
      \/ OfMessage(m) = Side("user", <<>>, <<>>, <<>>, <<>>)
  BY MessageIs, Zenon DEF Nothing
<1>. HIDE DEF w, h, c
<1>3. /\ Side("model", w, c, <<>>, <<>>) \in Sides
      /\ Side("user", <<>>, <<>>, <<w>>, <<>>) \in Sides
      /\ Side("user", w, <<>>, <<>>, h) \in Sides
      /\ Side("user", <<>>, <<>>, <<>>, <<>>) \in Sides
  <2>1. <<>> \in Seq(Strings) /\ <<>> \in Seq(Seq(Strings)) /\ <<w>> \in Seq(Seq(Strings))
        /\ <<>> \in Seq(Kinds)
    BY <1>1
  <2>. QED
    BY <1>1, <2>1, SideIs
<1>. QED
  BY <1>2, <1>3, Zenon

(* The content that is read of a user's message says what it says.         *)
LEMMA UserRead ==
  ASSUME NEW m, SpeltMessage(m), m.role = "user", UserContent(m.content) # None
  PROVE  /\ UserContent(m.content)[1] \in Seq(Content("user"))
         /\ Said("user", UserContent(m.content)[1]) = OfMessage(m)
<1>. DEFINE parts == Or(m.content, <<>>)
            P == ToSet(parts)
            c == UserContent(m.content)[1]
<1>1. OfMessage(m) = Side("user", PartsSay(parts), <<>>, <<>>, PartsShow(parts))
  BY MessageIs, Zenon
<1>2. CASE m.content = None
  <2>. DEFINE b == Text(<<>>)
  <2>1. c = <<b>>
    BY <1>2 DEF UserContent, Some
  <2>2. parts = <<>>
    BY <1>2 DEF Or
  <2>3. PartsSay(<<>>) = <<>> /\ PartsShow(<<>>) = <<>>
    <3>1. [i \in DOMAIN <<>> |-> WordsIn(<<>>[i])] = <<>> /\ [i \in DOMAIN <<>> |-> ShownIn(<<>>[i])] = <<>>
      OBVIOUS
    <3>. QED
      BY <3>1, FlattenNone DEF PartsSay, PartsShow
  <2>4. b \in Texts /\ b.text = <<>>
    BY DEF Text, Texts
  <2>5. b \in Content("user") /\ b \in Blocks
    BY <2>4 DEF Content, Blocks
  <2>6. SaysOf[b] = <<>> /\ CallsOf[b] = <<>> /\ ToldOf[b] = <<>> /\ ShowsOf[b] = <<>>
    BY <2>4, BlockSays, Zenon
  <2>. HIDE DEF b
  <2>7. /\ Gather(SaysOf, <<b>>) = <<>> /\ Gather(CallsOf, <<b>>) = <<>>
        /\ Gather(ToldOf, <<b>>) = <<>> /\ Gather(ShowsOf, <<b>>) = <<>>
    BY <2>5, <2>6, OneBlock
  <2>8. Said("user", <<b>>) = Side("user", <<>>, <<>>, <<>>, <<>>)
    BY <2>7, Zenon DEF Said
  <2>9. <<b>> \in Seq(Content("user"))
    BY <2>5
  <2>. QED
    BY <1>1, <2>1, <2>2, <2>3, <2>8, <2>9
<1>3. CASE m.content # None
  <2>1. parts = m.content[1]
    BY <1>3 DEF Or
  <2>2. /\ \A i \in DOMAIN parts : ReadPart(parts[i]) # <<>>
        /\ c = FlattenSeq([i \in DOMAIN parts |-> ReadPart(parts[i])])
    <3>1. UserContent(m.content) =
            IF \E i \in DOMAIN parts : ReadPart(parts[i]) = None THEN None
            ELSE Some(FlattenSeq([i \in DOMAIN parts |-> ReadPart(parts[i])]))
      <4>. DEFINE read == [i \in DOMAIN parts |-> ReadPart(parts[i])]
      <4>1. UserContent(m.content) =
              IF \E i \in DOMAIN read : read[i] = None THEN None ELSE Some(FlattenSeq(read))
        BY <1>3, <2>1, Zenon DEF UserContent
      <4>2. DOMAIN read = DOMAIN parts /\ \A i \in DOMAIN parts : read[i] = ReadPart(parts[i])
        OBVIOUS
      <4>. HIDE DEF read
      <4>3. (\E i \in DOMAIN read : read[i] = None)
              <=> (\E i \in DOMAIN parts : ReadPart(parts[i]) = None)
        BY <4>2
      <4>. QED
        BY <4>1, <4>3, Zenon DEF read
    <3>2. \A i \in DOMAIN parts : ReadPart(parts[i]) # None
      BY <3>1, Zenon
    <3>3. UserContent(m.content) = Some(FlattenSeq([i \in DOMAIN parts |-> ReadPart(parts[i])]))
      BY <3>1, <3>2, Zenon
    <3>. QED
      BY <3>2, <3>3, SomeHas DEF None
  <2>3. parts \in Seq(P) /\ \A p \in P : SpeltPart(p)
    BY MessageHas, Zenon
  <2>. HIDE DEF parts, P, c
  <2>4. /\ FlattenSeq([i \in DOMAIN parts |-> ReadPart(parts[i])]) \in Seq(Content("user"))
        /\ Said("user", FlattenSeq([i \in DOMAIN parts |-> ReadPart(parts[i])]))
             = Side("user", PartsSay(parts), <<>>, <<>>, PartsShow(parts))
    BY <2>2, <2>3, PartsRead, Zenon DEF PartsSay, PartsShow
  <2>5. c \in Seq(Content("user")) /\ Said("user", c) = OfMessage(m)
    BY <1>1, <2>2, <2>4, Zenon
  <2>. QED
    BY <2>5 DEF c
<1>. QED
  BY <1>2, <1>3

(* So does that of an assistant's.                                         *)
LEMMA AssistantRead ==
  ASSUME NEW m, SpeltMessage(m), m.role = "assistant", AssistantContent(m) # None
  PROVE  /\ AssistantContent(m)[1] \in Seq(Content("assistant"))
         /\ Said("model", AssistantContent(m)[1]) = OfMessage(m)
<1>. DEFINE parts == Or(m.content, <<>>)
            w == PartsSay(parts)
            uses == [i \in DOMAIN m.calls |-> ReadToolCall(m.calls[i])]
            said == IF w = <<>> THEN <<>> ELSE <<Text(w)>>
            c == said \o uses
<1>1. OfMessage(m) = Side("model", w, Called(m.calls), <<>>, <<>>) /\ w \in Seq(Strings)
  BY MessageIs, MessageHas, Zenon
<1>2. AssistantContent(m) = Some(c)
  <2>. DEFINE text == TextOf(m.content)
              content == When(text # None /\ text # Some(<<>>), Text(Or(text, <<>>))) \o uses
              named == \A i \in DOMAIN m.calls : HasName(m.calls[i])
  <2>1. AssistantContent(m) = When(text # None /\ named /\ content # <<>>, content)
    BY Zenon DEF AssistantContent
  <2>2. text = Some(w)
    <3>1. text \in {None, Some(w)}
      BY MessageHas, Zenon
    <3>2. text # None
      BY <2>1 DEF When, None
    <3>. QED
      BY <3>1, <3>2
  <2>. HIDE DEF text, w, uses, named
  <2>3. text # None /\ Or(text, <<>>) = w /\ (text # Some(<<>>) <=> w # <<>>)
    BY <2>2 DEF Some, None, Or
  <2>4. content = c
    BY <2>3 DEF When
  <2>. HIDE DEF content
  <2>5. AssistantContent(m) = Some(content)
    BY <2>1 DEF When, None, Some
  <2>. QED
    BY <2>4, <2>5
<1>3. /\ uses \in Seq(ToolUses) /\ Gather(CallsOf, uses) = Called(m.calls)
      /\ Gather(SaysOf, uses) = <<>> /\ Gather(ToldOf, uses) = <<>> /\ Gather(ShowsOf, uses) = <<>>
  <2>. DEFINE calls == m.calls
  <2>1. calls \in Seq(ToSet(calls)) /\ \A call \in ToSet(calls) : SpeltCall(call)
    BY MessageHas, Zenon
  <2>2. uses = [i \in DOMAIN calls |-> ReadToolCall(calls[i])]
    OBVIOUS
  <2>. HIDE DEF calls, uses
  <2>3. LET d == [i \in DOMAIN calls |-> ReadToolCall(calls[i])] IN
         /\ d \in Seq(ToolUses)
         /\ Gather(SaysOf, d) = <<>> /\ Gather(ToldOf, d) = <<>> /\ Gather(ShowsOf, d) = <<>>
         /\ Gather(CallsOf, d) = [i \in DOMAIN calls |-> calls[i].name]
    BY <2>1, CallsRead, Zenon
  <2>. QED
    BY <2>2, <2>3, Zenon DEF Called, calls
<1>4. /\ said \in Seq(Texts) /\ Gather(SaysOf, said) = w /\ Gather(CallsOf, said) = <<>>
      /\ Gather(ToldOf, said) = <<>> /\ Gather(ShowsOf, said) = <<>>
  <2>. HIDE DEF w
  <2>1. CASE w = <<>>
    <3>1. said = <<>> /\ <<>> \in Seq(Texts)
      BY <2>1
    <3>. QED
      BY <2>1, <3>1, GatherNone
  <2>2. CASE w # <<>>
    <3>. DEFINE b == Text(w)
    <3>1. b \in Texts /\ b.text = w
      BY <1>1 DEF Text, Texts
    <3>2. /\ b \in Blocks /\ SaysOf[b] = w /\ CallsOf[b] = <<>> /\ ToldOf[b] = <<>>
          /\ ShowsOf[b] = <<>>
      BY <3>1, BlockSays, Zenon
    <3>3. said = <<b>>
      BY <2>2
    <3>. HIDE DEF b, said
    <3>4. <<b>> \in Seq(Texts)
      BY <3>1
    <3>. QED
      BY <3>2, <3>3, <3>4, OneBlock
  <2>. QED
    BY <2>1, <2>2
<1>. HIDE DEF said, uses, w
<1>5. said \in Seq(Blocks) /\ uses \in Seq(Blocks) /\ c \in Seq(Content("assistant"))
  <2>1. Content("assistant") = Texts \cup ToolUses
    BY DEF Content
  <2>2. said \in Seq(Content("assistant")) /\ uses \in Seq(Content("assistant"))
    BY <1>3, <1>4, <2>1
  <2>3. said \in Seq(Blocks) /\ uses \in Seq(Blocks)
    BY <1>3, <1>4 DEF Blocks
  <2>. QED
    BY <2>2, <2>3
<1>6. /\ Gather(SaysOf, c) = w \o <<>> /\ Gather(CallsOf, c) = <<>> \o Called(m.calls)
      /\ Gather(ToldOf, c) = <<>> \o <<>> /\ Gather(ShowsOf, c) = <<>> \o <<>>
  <2>1. Gather(SaysOf, c) = w \o <<>>
    <3>0. Maps(SaysOf, Blocks, Strings)
      BY OfBlocks
    <3>1. \A t \in Seq(Blocks) : Gather(SaysOf, said \o t) = Gather(SaysOf, said) \o Gather(SaysOf, t)
      BY <1>5, <3>0, GatherBoth
    <3>2. Gather(SaysOf, said \o uses) = Gather(SaysOf, said) \o Gather(SaysOf, uses)
      BY <1>5, <3>1, Zenon
    <3>. QED
      BY <1>3, <1>4, <3>2
  <2>2. Gather(CallsOf, c) = <<>> \o Called(m.calls)
    <3>0. Maps(CallsOf, Blocks, Strings)
      BY OfBlocks
    <3>1. \A t \in Seq(Blocks) : Gather(CallsOf, said \o t) = Gather(CallsOf, said) \o Gather(CallsOf, t)
      BY <1>5, <3>0, GatherBoth
    <3>2. Gather(CallsOf, said \o uses) = Gather(CallsOf, said) \o Gather(CallsOf, uses)
      BY <1>5, <3>1, Zenon
    <3>. QED
      BY <1>3, <1>4, <3>2
  <2>3. Gather(ToldOf, c) = <<>> \o <<>>
    <3>0. Maps(ToldOf, Blocks, Seq(Strings))
      BY OfBlocks
    <3>1. \A t \in Seq(Blocks) : Gather(ToldOf, said \o t) = Gather(ToldOf, said) \o Gather(ToldOf, t)
      BY <1>5, <3>0, GatherBoth
    <3>2. Gather(ToldOf, said \o uses) = Gather(ToldOf, said) \o Gather(ToldOf, uses)
      BY <1>5, <3>1, Zenon
    <3>. QED
      BY <1>3, <1>4, <3>2
  <2>4. Gather(ShowsOf, c) = <<>> \o <<>>
    <3>0. Maps(ShowsOf, Blocks, Kinds)
      BY OfBlocks
    <3>1. \A t \in Seq(Blocks) : Gather(ShowsOf, said \o t) = Gather(ShowsOf, said) \o Gather(ShowsOf, t)
      BY <1>5, <3>0, GatherBoth
    <3>2. Gather(ShowsOf, said \o uses) = Gather(ShowsOf, said) \o Gather(ShowsOf, uses)
      BY <1>5, <3>1, Zenon
    <3>. QED
      BY <1>3, <1>4, <3>2
  <2>. QED
    BY <2>1, <2>2, <2>3, <2>4
<1>7. w \o <<>> = w /\ <<>> \o Called(m.calls) = Called(m.calls) /\ <<>> \o <<>> = <<>>
  <2>1. Called(m.calls) \in Seq(Strings)
    BY MessageHas, Zenon
  <2>. QED
    BY <1>1, <2>1
<1>8. Said("model", c) = OfMessage(m)
  BY <1>1, <1>6, <1>7, Zenon DEF Said
<1>. QED
  BY <1>2, <1>5, <1>8, SomeHas

(* And that of a result.                                                   *)
LEMMA ToolRead ==
  ASSUME NEW m, SpeltMessage(m), m.role = "tool", TextOf(m.content) # None, m.id # None
  PROVE  LET b == ToolResult(m.id[1], TextOf(m.content)[1]) IN
         <<b>> \in Seq(Content("user")) /\ Said("user", <<b>>) = OfMessage(m)
<1>. DEFINE parts == Or(m.content, <<>>)
            w == PartsSay(parts)
            b == ToolResult(m.id[1], w)
<1>1. OfMessage(m) = Side("user", <<>>, <<>>, <<w>>, <<>>) /\ w \in Seq(Strings)
  BY MessageIs, MessageHas, Zenon
<1>2. TextOf(m.content)[1] = w
  <2>1. TextOf(m.content) = Some(w)
    BY MessageHas, Zenon
  <2>. HIDE DEF w
  <2>. QED
    BY <2>1, SomeHas
<1>3. m.id[1] \in Strings
  BY DEF SpeltMessage
<1>. HIDE DEF w
<1>4. b \in ToolResults /\ b.text = w
  BY <1>1, <1>3 DEF ToolResult, ToolResults
<1>5. /\ b \in Blocks /\ SaysOf[b] = <<>> /\ CallsOf[b] = <<>> /\ ToldOf[b] = <<w>>
      /\ ShowsOf[b] = <<>>
  BY <1>4, BlockSays, Zenon
<1>6. b \in Content("user")
  BY <1>4 DEF Content
<1>. HIDE DEF b
<1>7. /\ Gather(SaysOf, <<b>>) = <<>> /\ Gather(CallsOf, <<b>>) = <<>>
      /\ Gather(ToldOf, <<b>>) = <<w>> /\ Gather(ShowsOf, <<b>>) = <<>>
  BY <1>5, OneBlock
<1>8. Said("user", <<b>>) = OfMessage(m)
  BY <1>1, <1>7, Zenon DEF Said
<1>9. <<b>> \in Seq(Content("user"))
  BY <1>6
<1>. QED
  BY <1>2, <1>8, <1>9, Zenon DEF b

-----------------------------------------------------------------------------
(* What is read of a conversation *)

Flags == BOOLEAN
Readings ==
  [system : Seq(Seq(Strings)), messages : Seq(Turns), holds : Flags, wrong : Flags]
Holding(read) ==
  read.holds => read.messages # <<>> /\ read.messages[Len(read.messages)].role = "user"

(* What was read so far is of these.                                       *)
LEMMA ReadingIs ==
  ASSUME NEW read \in Readings
  PROVE  /\ read.system \in Seq(Seq(Strings)) /\ read.messages \in Seq(Turns)
         /\ read.holds \in Flags /\ read.wrong \in Flags
BY DEF Readings

(* Who speaks in a turn.                                                   *)
LEMMA SpeakerIs ==
  Speaker("user") = "user" /\ Speaker("assistant") = "model"
BY DEF Speaker

(* A turn of the user.                                                     *)
LEMMA UserTurn ==
  ASSUME NEW c \in Seq(Content("user"))
  PROVE  /\ Message("user", c) \in Turns
         /\ Message("user", c).role = "user" /\ Message("user", c).content = c
         /\ SideOf[Message("user", c)] = Said("user", c)
BY TurnMade, SpeakerIs

(* A turn with other content.                                              *)
LEMMA OtherContent ==
  ASSUME NEW role, NEW c, NEW d
  PROVE  [Message(role, c) EXCEPT !.content = d] = Message(role, d)
BY DEF Message

(* What the user says next is heard next, in a turn of its own or in one   *)
(* that holds results.                                                     *)
LEMMA TurnRead ==
  ASSUME NEW read \in Readings, Holding(read), NEW c \in Seq(Content("user"))
  PROVE  /\ Turn(read, c) \in Readings
         /\ Turn(read, c).system = read.system /\ Turn(read, c).wrong = read.wrong
         /\ Turn(read, c).messages # <<>>
         /\ Turn(read, c).messages[Len(Turn(read, c).messages)].role = "user"
         /\ Heard(Turn(read, c).messages) = Joins(Heard(read.messages), Said("user", c))
<1>. DEFINE t == Turn(read, c)
            s == read.messages
<1>0. /\ s \in Seq(Turns) /\ read.system \in Seq(Seq(Strings))
      /\ read.holds \in Flags /\ read.wrong \in Flags
  BY ReadingIs
<1>1. ASSUME NEW u \in Seq(Turns), t = [read EXCEPT !.messages = u]
      PROVE  t \in Readings /\ t.system = read.system /\ t.wrong = read.wrong /\ t.messages = u
  BY <1>1 DEF Readings
<1>2. CASE ~read.holds
  <2>. DEFINE m == Message("user", c)
  <2>1. m \in Turns /\ m.role = "user" /\ SideOf[m] = Said("user", c)
    BY UserTurn
  <2>2. t = [read EXCEPT !.messages = Append(s, m)]
    BY <1>2 DEF Turn
  <2>. HIDE DEF m, t, s
  <2>3. /\ Append(s, m) \in Seq(Turns) /\ Append(s, m) # <<>>
        /\ Append(s, m)[Len(Append(s, m))] = m
    <3>1. s \in Seq(Turns) /\ m \in Turns
      BY <1>0, <2>1
    <3>. QED
      BY <3>1
  <2>4. Heard(Append(s, m)) = Joins(Heard(s), SideOf[m])
    BY <1>0, <2>1, HeardMore
  <2>5. t \in Readings /\ t.system = read.system /\ t.wrong = read.wrong /\ t.messages = Append(s, m)
    BY <1>1, <2>2, <2>3
  <2>. QED
    BY <2>1, <2>3, <2>4, <2>5 DEF t, s
<1>3. CASE read.holds
  <2>1. s # <<>> /\ s[Len(s)].role = "user"
    BY <1>3 DEF Holding
  <2>2. PICK r \in Seq(Turns), l \in Turns : s = Append(r, l)
    BY <1>0, <2>1, SequenceEmptyOrAppend
  <2>3. Len(s) = Len(r) + 1 /\ Len(r) \in Nat /\ s[Len(s)] = l
        /\ DOMAIN s = 1..Len(s) /\ \A i \in 1..Len(r) : s[i] = r[i]
    BY <2>2
  <2>4. l.role = "user" /\ l.content \in Seq(Content("user")) /\ l = Message("user", l.content)
    <3>1. l.role = "user"
      BY <2>1, <2>3
    <3>2. l.content \in Seq(Content(l.role)) /\ l = Message(l.role, l.content)
      BY TurnIs
    <3>. QED
      BY <3>1, <3>2
  <2>. DEFINE d == l.content
              e == d \o c
              m == Message("user", e)
              u == [s EXCEPT ![Len(s)].content = @ \o c]
  <2>5. d \in Seq(Content("user")) /\ e \in Seq(Content("user"))
    BY <2>4
  <2>6. m \in Turns /\ m.role = "user" /\ SideOf[m] = Said("user", e)
    <3>. HIDE DEF e
    <3>. QED
      BY <2>5, UserTurn
  <2>7. u = Append(r, m)
    <3>1. [l EXCEPT !.content = @ \o c] = m
      <4>1. [l EXCEPT !.content = @ \o c] = [l EXCEPT !.content = e]
        OBVIOUS
      <4>. HIDE DEF e
      <4>2. [Message("user", d) EXCEPT !.content = e] = m
        BY OtherContent
      <4>. HIDE DEF d
      <4>. QED
        BY <2>4, <4>1, <4>2 DEF d, e
    <3>. DEFINE n == [l EXCEPT !.content = @ \o c]
    <3>2. u = [s EXCEPT ![Len(s)] = n]
      BY <2>3
    <3>. HIDE DEF n, m, e, d
    <3>3. [s EXCEPT ![Len(s)] = n] = Append(r, n)
      BY <1>0, <2>2, <2>3, LastOther
    <3>. QED
      BY <3>1, <3>2, <3>3 DEF n
  <2>8. t = [read EXCEPT !.messages = u]
    <3>1. t = [read EXCEPT !.messages[Len(read.messages)].content = @ \o c]
      BY <1>3 DEF Turn
    <3>. QED
      BY <1>0, <3>1 DEF Readings
  <2>9. Said("user", e) = Both(Said("user", d), Said("user", c))
    <3>1. Content("user") \subseteq Blocks
      BY DEF Content, Blocks
    <3>2. d \in Seq(Blocks) /\ c \in Seq(Blocks)
      BY <2>5, <3>1
    <3>. HIDE DEF d
    <3>. QED
      BY <3>2, SaidBoth
  <2>10. /\ Said("user", d) \in Sides /\ Said("user", d).by = "user"
         /\ Said("user", c) \in Sides /\ Said("user", c).by = "user"
    <3>1. Content("user") \subseteq Blocks
      BY DEF Content, Blocks
    <3>2. d \in Seq(Blocks) /\ c \in Seq(Blocks)
      BY <2>5, <3>1
    <3>. HIDE DEF d
    <3>. QED
      BY <3>2, SaidIs
  <2>11. SideOf[l] = Said("user", d)
    <3>1. SideOf[Message("user", d)] = Said("user", d)
      <4>. HIDE DEF d
      <4>. QED
        BY <2>5, UserTurn
    <3>. QED
      BY <2>4, <3>1
  <2>. HIDE DEF d, e, m, u, t
  <2>12. /\ u \in Seq(Turns) /\ u # <<>> /\ u[Len(u)] = m
    BY <2>2, <2>6, <2>7
  <2>13. Heard(u) = Joins(Heard(r), Said("user", e))
    <3>1. Heard(Append(r, m)) = Joins(Heard(r), SideOf[m])
      BY <2>6, HeardMore
    <3>. QED
      BY <2>6, <2>7, <3>1, Zenon
  <2>14. Heard(s) = Joins(Heard(r), Said("user", d))
    <3>1. Heard(Append(r, l)) = Joins(Heard(r), SideOf[l])
      BY <2>2, HeardMore
    <3>. QED
      BY <2>2, <2>11, <3>1, Zenon
  <2>15. Heard(r) \in Seq(Sides)
    BY HeardIs
  <2>16. Joins(Joins(Heard(r), Said("user", d)), Said("user", c)) = Joins(Heard(r), Said("user", e))
    BY <2>9, <2>10, <2>15, JoinsTwice
  <2>17. t \in Readings /\ t.system = read.system /\ t.wrong = read.wrong /\ t.messages = u
    BY <1>1, <2>8, <2>12
  <2>. QED
    BY <2>6, <2>12, <2>13, <2>14, <2>16, <2>17 DEF t
<1>. QED
  BY <1>0, <1>2, <1>3

-----------------------------------------------------------------------------
(* A conversation is read as it is said *)

ForSystem == {"system", "developer"}
ReadOn(read, m, next) ==
  /\ next \in Readings /\ Holding(next)
  /\ ~next.wrong =>
       /\ Heard(next.messages) = Joins(Heard(read.messages), OfMessage(m))
       /\ next.system # <<>> <=> read.system # <<>> \/ m.role \in ForSystem

(* After a message that is wrong nothing is promised.                      *)
LEMMA WrongRead ==
  ASSUME NEW read \in Readings, Holding(read), NEW m
  PROVE  ReadOn(read, m, [read EXCEPT !.wrong = TRUE])
<1>. DEFINE next == [read EXCEPT !.wrong = TRUE]
<1>1. TRUE \in Flags
  BY DEF Flags
<1>2. next \in Readings /\ next.wrong /\ next.holds = read.holds /\ next.messages = read.messages
  BY <1>1 DEF Readings
<1>3. Holding(next)
  <2>. HIDE DEF next
  <2>. QED
    BY <1>2, Zenon DEF Holding
<1>. QED
  BY <1>2, <1>3 DEF ReadOn

(* Only the flag changes.                                                  *)
LEMMA HoldsSet ==
  ASSUME NEW t \in Readings, NEW flag \in BOOLEAN
  PROVE  LET next == [t EXCEPT !.holds = flag] IN
         /\ next \in Readings /\ next.holds = flag /\ next.messages = t.messages
         /\ next.system = t.system /\ next.wrong = t.wrong
<1>1. flag \in Flags
  BY DEF Flags
<1>. QED
  BY <1>1 DEF Readings

(* A message of the user is read as it is said.                            *)
LEMMA UserNext ==
  ASSUME NEW read \in Readings, Holding(read), NEW m, SpeltMessage(m), m.role = "user"
  PROVE  ReadOn(read, m, ReadMessage(read, m))
<1>. DEFINE user == UserContent(m.content)
<1>0. ReadMessage(read, m) =
        IF user = None THEN [read EXCEPT !.wrong = TRUE]
        ELSE [Turn(read, user[1]) EXCEPT !.holds = FALSE]
  BY DEF ReadMessage
<1>1. CASE user = None
  BY <1>0, <1>1, WrongRead
<1>2. CASE user # None
  <2>. DEFINE c == user[1]
              t == Turn(read, c)
              next == [t EXCEPT !.holds = FALSE]
  <2>1. c \in Seq(Content("user")) /\ Said("user", c) = OfMessage(m)
    BY <1>2, UserRead
  <2>. HIDE DEF user, c
  <2>2. /\ t \in Readings /\ t.system = read.system
        /\ Heard(t.messages) = Joins(Heard(read.messages), Said("user", c))
    BY <2>1, TurnRead
  <2>. HIDE DEF t
  <2>3. next \in Readings /\ next.holds = FALSE /\ next.messages = t.messages
        /\ next.system = t.system
    BY <2>2, HoldsSet
  <2>4. ReadMessage(read, m) = next
    BY <1>0, <1>2 DEF t, c
  <2>5. m.role \notin ForSystem
    BY DEF ForSystem
  <2>. HIDE DEF next
  <2>. QED
    BY <2>1, <2>2, <2>3, <2>4, <2>5 DEF ReadOn, Holding
<1>. QED
  BY <1>1, <1>2

(* So is a result,                                                         *)
LEMMA ToolNext ==
  ASSUME NEW read \in Readings, Holding(read), NEW m, SpeltMessage(m), m.role = "tool"
  PROVE  ReadOn(read, m, ReadMessage(read, m))
<1>. DEFINE text == TextOf(m.content)
<1>0. ReadMessage(read, m) =
        IF text = None \/ m.id = None THEN [read EXCEPT !.wrong = TRUE]
        ELSE [Turn(read, <<ToolResult(m.id[1], text[1])>>) EXCEPT !.holds = TRUE]
  BY DEF ReadMessage
<1>1. CASE text = None \/ m.id = None
  BY <1>0, <1>1, WrongRead
<1>2. CASE ~(text = None \/ m.id = None)
  <2>. DEFINE c == <<ToolResult(m.id[1], text[1])>>
              t == Turn(read, c)
              next == [t EXCEPT !.holds = TRUE]
  <2>1. c \in Seq(Content("user")) /\ Said("user", c) = OfMessage(m)
    BY <1>2, ToolRead
  <2>. HIDE DEF text, c
  <2>2. /\ t \in Readings /\ t.system = read.system
        /\ t.messages # <<>> /\ t.messages[Len(t.messages)].role = "user"
        /\ Heard(t.messages) = Joins(Heard(read.messages), Said("user", c))
    BY <2>1, TurnRead
  <2>. HIDE DEF t
  <2>3. next \in Readings /\ next.holds = TRUE /\ next.messages = t.messages
        /\ next.system = t.system
    BY <2>2, HoldsSet
  <2>4. ReadMessage(read, m) = next
    BY <1>0, <1>2 DEF t, c
  <2>5. m.role \notin ForSystem
    BY DEF ForSystem
  <2>. HIDE DEF next
  <2>. QED
    BY <2>1, <2>2, <2>3, <2>4, <2>5 DEF ReadOn, Holding
<1>. QED
  BY <1>1, <1>2

(* what the model said,                                                    *)
LEMMA AssistantNext ==
  ASSUME NEW read \in Readings, Holding(read), NEW m, SpeltMessage(m), m.role = "assistant"
  PROVE  ReadOn(read, m, ReadMessage(read, m))
<1>. DEFINE said == AssistantContent(m)
<1>0. ReadMessage(read, m) =
        IF said = None THEN [read EXCEPT !.wrong = TRUE]
        ELSE [read EXCEPT !.messages = Append(@, Message("assistant", said[1])), !.holds = FALSE]
  BY DEF ReadMessage
<1>1. CASE said = None
  BY <1>0, <1>1, WrongRead
<1>2. CASE said # None
  <2>. DEFINE c == said[1]
              n == Message("assistant", c)
              s == read.messages
              u == Append(s, n)
              next == [read EXCEPT !.messages = u, !.holds = FALSE]
  <2>1. c \in Seq(Content("assistant")) /\ Said("model", c) = OfMessage(m)
    BY <1>2, AssistantRead
  <2>. HIDE DEF said, c
  <2>2. n \in Turns /\ SideOf[n] = Said("model", c)
    BY <2>1, TurnMade, SpeakerIs
  <2>. HIDE DEF n
  <2>3. s \in Seq(Turns)
    BY ReadingIs
  <2>4. u \in Seq(Turns) /\ Heard(u) = Joins(Heard(s), SideOf[n])
    <3>. HIDE DEF s
    <3>. QED
      BY <2>2, <2>3, HeardMore
  <2>5. ReadMessage(read, m) = next
    BY <1>0, <1>2 DEF n, c
  <2>. HIDE DEF u
  <2>6. FALSE \in Flags
    BY DEF Flags
  <2>7. next \in Readings /\ next.holds = FALSE /\ next.messages = u
        /\ next.system = read.system
    BY <2>4, <2>6 DEF Readings
  <2>8. m.role \notin ForSystem
    BY DEF ForSystem
  <2>. HIDE DEF next
  <2>. QED
    BY <2>1, <2>2, <2>4, <2>5, <2>7, <2>8 DEF ReadOn, Holding
<1>. QED
  BY <1>1, <1>2

(* and what the system says.                                               *)
LEMMA SystemNext ==
  ASSUME NEW read \in Readings, Holding(read), NEW m, SpeltMessage(m), m.role \in ForSystem
  PROVE  ReadOn(read, m, ReadMessage(read, m))
<1>. DEFINE text == TextOf(m.content)
<1>0. ReadMessage(read, m) =
        IF text = None THEN [read EXCEPT !.wrong = TRUE]
        ELSE [read EXCEPT !.system = Append(@, text[1])]
  BY DEF ReadMessage, ForSystem
<1>1. CASE text = None
  BY <1>0, <1>1, WrongRead
<1>2. CASE text # None
  <2>. DEFINE w == text[1]
              next == [read EXCEPT !.system = Append(@, w)]
              y == read.system
  <2>1. w \in Seq(Strings)
    <3>. DEFINE p == PartsSay(Or(m.content, <<>>))
    <3>1. p \in Seq(Strings) /\ text \in {None, Some(p)}
      BY MessageHas, Zenon
    <3>. HIDE DEF p, text
    <3>. QED
      BY <1>2, <3>1 DEF Some
  <2>2. OfMessage(m) = Nothing
    <3>1. m.role \notin {"assistant", "tool", "user"}
      BY DEF ForSystem
    <3>. QED
      BY <3>1, MessageIs, Zenon
  <2>3. Joins(Heard(read.messages), OfMessage(m)) = Heard(read.messages)
    BY <2>2 DEF Joins, Silent, Nothing, Side
  <2>4. ReadMessage(read, m) = next
    BY <1>0, <1>2
  <2>. HIDE DEF text, w
  <2>5. y \in Seq(Seq(Strings))
    BY ReadingIs
  <2>6. Append(y, w) \in Seq(Seq(Strings)) /\ Append(y, w) # <<>>
    <3>. HIDE DEF y
    <3>. QED
      BY <2>1, <2>5
  <2>7. next \in Readings /\ next.holds = read.holds /\ next.messages = read.messages
        /\ next.system = Append(y, w)
    BY <2>6 DEF Readings
  <2>. HIDE DEF next, y
  <2>8. Holding(next)
    BY <2>7, Zenon DEF Holding
  <2>. QED
    BY <2>3, <2>4, <2>6, <2>7, <2>8 DEF ReadOn
<1>. QED
  BY <1>1, <1>2

(* Whoever speaks next is read as they speak.                              *)
LEMMA NextRead ==
  ASSUME NEW read \in Readings, Holding(read), NEW m, SpeltMessage(m)
  PROVE  ReadOn(read, m, ReadMessage(read, m))
<1>1. CASE m.role \in ForSystem \cup {"user", "assistant", "tool"}
  BY <1>1, SystemNext, UserNext, AssistantNext, ToolNext
<1>2. CASE m.role \notin ForSystem \cup {"user", "assistant", "tool"}
  <2>1. ReadMessage(read, m) = [read EXCEPT !.wrong = TRUE]
    BY <1>2 DEF ReadMessage, ForSystem
  <2>. QED
    BY <2>1, WrongRead
<1>. QED
  BY <1>1, <1>2

(* What is read of a conversation that is not wrong: the same sides.       *)
ReadsTrue(s) ==
  LET read == ReadMessages(s) IN
  /\ read \in Readings /\ Holding(read)
  /\ ~read.wrong =>
       /\ Heard(read.messages) = Sided([i \in DOMAIN s |-> OfMessage(s[i])])
       /\ read.system # <<>> <=> \E i \in DOMAIN s : s[i].role \in ForSystem

(* Every conversation is read as it is said, message by message.           *)
LEMMA ConversationRead ==
  ASSUME NEW S, \A m \in S : SpeltMessage(m)
  PROVE  \A s \in Seq(S) : ReadsTrue(s)
<1>. DEFINE Good == {s \in Seq(S) : ReadsTrue(s)}
            sides == [m \in S |-> OfMessage(m)]
<1>1. sides \in [S -> Sides]
  BY MessageSides
<1>2. <<>> \in Good
  <2>1. NoMessages \in Readings /\ Holding(NoMessages)
    <3>1. FALSE \in Flags /\ <<>> \in Seq(Seq(Strings)) /\ <<>> \in Seq(Turns)
      BY DEF Flags
    <3>. QED
      BY <3>1 DEF NoMessages, Readings, Holding
  <2>2. NoMessages.messages = <<>> /\ NoMessages.system = <<>>
    BY DEF NoMessages
  <2>. DEFINE s == <<>>
  <2>3. [i \in DOMAIN s |-> OfMessage(s[i])] = <<>> /\ DOMAIN s = {}
    OBVIOUS
  <2>4. Heard(<<>>) = Sided(<<>>)
    <3>1. [i \in DOMAIN s |-> SideOf[s[i]]] = <<>>
      OBVIOUS
    <3>. QED
      BY <3>1 DEF Heard
  <2>5. s \in Seq(S)
    OBVIOUS
  <2>. HIDE DEF s
  <2>6. s = <<>>
    BY DEF s
  <2>. QED
    BY <2>1, <2>2, <2>3, <2>4, <2>5, <2>6, ReadsNone DEF ReadsTrue
<1>3. ASSUME NEW r \in Seq(S), NEW e \in S, r \in Good
      PROVE  Append(r, e) \in Good
  <2>. DEFINE s == Append(r, e)
              read == ReadMessages(r)
              next == ReadMessages(s)
              rs == [i \in DOMAIN r |-> OfMessage(r[i])]
              ss == [i \in DOMAIN s |-> OfMessage(s[i])]
  <2>1. s \in Seq(S) /\ next = ReadNext(read, e)
    BY ReadsMore
  <2>2. /\ read \in Readings /\ Holding(read)
        /\ ~read.wrong =>
             /\ Heard(read.messages) = Sided(rs)
             /\ read.system # <<>> <=> \E i \in DOMAIN r : r[i].role \in ForSystem
    BY <1>3 DEF ReadsTrue
  <2>3. Sided(ss) = Joins(Sided(rs), OfMessage(e))
    <3>1. rs = [i \in DOMAIN r |-> sides[r[i]]]
      OBVIOUS
    <3>2. ss = [i \in DOMAIN s |-> sides[s[i]]]
      BY <2>1
    <3>3. sides[e] = OfMessage(e)
      OBVIOUS
    <3>. HIDE DEF sides, rs, ss
    <3>4. rs \in Seq(Sides) /\ ss = Append(rs, sides[e])
      BY <1>1, <3>1, <3>2, EachIs, EachMore
    <3>5. sides[e] \in Sides
      BY <1>1
    <3>. HIDE DEF s
    <3>. QED
      BY <3>3, <3>4, <3>5, SidedMore
  <2>4. (\E i \in DOMAIN s : s[i].role \in ForSystem)
          <=> e.role \in ForSystem \/ \E i \in DOMAIN r : r[i].role \in ForSystem
    <3>1. /\ DOMAIN s = DOMAIN r \cup {Len(r) + 1} /\ s[Len(r) + 1] = e
          /\ \A i \in DOMAIN r : s[i] = r[i]
      OBVIOUS
    <3>. HIDE DEF s
    <3>. QED
      BY <3>1
  <2>5. SpeltMessage(e)
    OBVIOUS
  <2>. HIDE DEF s, next, rs, ss, read
  <2>6. ReadsTrue(s)
    <3>1. CASE read.wrong
      <4>1. next = read
        BY <2>1, <3>1 DEF ReadNext
      <4>. QED
        BY <2>2, <3>1, <4>1, Zenon DEF ReadsTrue, next
    <3>2. CASE ~read.wrong
      <4>1. next = ReadMessage(read, e)
        BY <2>1, <3>2 DEF ReadNext
      <4>2. ReadOn(read, e, next)
        BY <2>2, <2>5, <4>1, NextRead
      <4>3. next \in Readings /\ Holding(next)
        BY <4>2, Zenon DEF ReadOn
      <4>4. ~next.wrong =>
              /\ Heard(next.messages) = Sided(ss)
              /\ next.system # <<>> <=> \E i \in DOMAIN s : s[i].role \in ForSystem
        BY <2>2, <2>3, <2>4, <3>2, <4>2 DEF ReadOn
      <4>. QED
        BY <4>3, <4>4, Zenon DEF ReadsTrue, next, ss
    <3>. QED
      BY <3>1, <3>2
  <2>. QED
    BY <2>1, <2>6 DEF s
<1>. HIDE DEF Good
<1>4. \A s \in Seq(S) : s \in Good
  BY <1>2, <1>3, ListInduct
<1>. QED
  BY <1>4 DEF Good

-----------------------------------------------------------------------------
(* What a turn says to a vendor, by its items *)

Items ==
  {Says(w) : w \in Seq(Strings)}
    \cup {Calls(k, b.name, b.input) : k \in Strings, b \in ToolUses}
    \cup {Answers(k, b.text) : k \in Strings, b \in ToolResults}
    \cup {Shows(b) : b \in Medias}

ItemSays == [t \in Items |-> IF t.is = "text" THEN t.text ELSE <<>>]
ItemCalls == [t \in Items |-> IF t.is = "call" THEN <<t.name>> ELSE <<>>]
ItemTold == [t \in Items |-> IF t.is = "result" THEN <<t.text>> ELSE <<>>]
ItemShows == [t \in Items |-> IF t.is \in Kinds THEN <<t.is>> ELSE <<>>]

(* What an item of each kind says.                                         *)
LEMMA ItemIs ==
  /\ \A w \in Seq(Strings) :
       LET t == Says(w) IN
       /\ t \in Items /\ ItemSays[t] = w /\ ItemCalls[t] = <<>>
       /\ ItemTold[t] = <<>> /\ ItemShows[t] = <<>>
  /\ \A k \in Strings, b \in ToolUses :
       LET t == Calls(k, b.name, b.input) IN
       /\ t \in Items /\ ItemSays[t] = <<>> /\ ItemCalls[t] = <<b.name>>
       /\ ItemTold[t] = <<>> /\ ItemShows[t] = <<>>
  /\ \A k \in Strings, b \in ToolResults :
       LET t == Answers(k, b.text) IN
       /\ t \in Items /\ ItemSays[t] = <<>> /\ ItemCalls[t] = <<>>
       /\ ItemTold[t] = <<b.text>> /\ ItemShows[t] = <<>>
  /\ \A b \in Medias :
       LET t == Shows(b) IN
       /\ t \in Items /\ ItemSays[t] = <<>> /\ ItemCalls[t] = <<>>
       /\ ItemTold[t] = <<>> /\ ItemShows[t] = <<b.kind>>
<1>1. ASSUME NEW w \in Seq(Strings)
      PROVE  LET t == Says(w) IN
             /\ t \in Items /\ ItemSays[t] = w /\ ItemCalls[t] = <<>>
             /\ ItemTold[t] = <<>> /\ ItemShows[t] = <<>>
  <2>. DEFINE t == Says(w)
  <2>1. t \in Items
    BY DEF Items
  <2>2. t.is = "text" /\ t.text = w
    BY DEF Says
  <2>. QED
    BY <2>1, <2>2 DEF ItemSays, ItemCalls, ItemTold, ItemShows, Kinds
<1>2. ASSUME NEW k \in Strings, NEW b \in ToolUses
      PROVE  LET t == Calls(k, b.name, b.input) IN
             /\ t \in Items /\ ItemSays[t] = <<>> /\ ItemCalls[t] = <<b.name>>
             /\ ItemTold[t] = <<>> /\ ItemShows[t] = <<>>
  <2>. DEFINE t == Calls(k, b.name, b.input)
  <2>1. t \in Items
    BY DEF Items
  <2>2. t.is = "call" /\ t.name = b.name
    BY DEF Calls
  <2>. QED
    BY <2>1, <2>2 DEF ItemSays, ItemCalls, ItemTold, ItemShows, Kinds
<1>3. ASSUME NEW k \in Strings, NEW b \in ToolResults
      PROVE  LET t == Answers(k, b.text) IN
             /\ t \in Items /\ ItemSays[t] = <<>> /\ ItemCalls[t] = <<>>
             /\ ItemTold[t] = <<b.text>> /\ ItemShows[t] = <<>>
  <2>. DEFINE t == Answers(k, b.text)
  <2>1. t \in Items
    BY DEF Items
  <2>2. t.is = "result" /\ t.text = b.text
    BY DEF Answers
  <2>. QED
    BY <2>1, <2>2 DEF ItemSays, ItemCalls, ItemTold, ItemShows, Kinds
<1>4. ASSUME NEW b \in Medias
      PROVE  LET t == Shows(b) IN
             /\ t \in Items /\ ItemSays[t] = <<>> /\ ItemCalls[t] = <<>>
             /\ ItemTold[t] = <<>> /\ ItemShows[t] = <<b.kind>>
  <2>. DEFINE t == Shows(b)
  <2>1. t \in Items
    BY DEF Items
  <2>2. t.is = b.kind /\ b.kind \in Kinds
    BY DEF Shows, Medias
  <2>. QED
    BY <2>1, <2>2 DEF ItemSays, ItemCalls, ItemTold, ItemShows, Kinds
<1>. QED
  BY <1>1, <1>2, <1>3, <1>4

(* What an item says, calls, was told and shows is a list.                 *)
LEMMA OfItems ==
  /\ Maps(ItemSays, Items, Strings) /\ Maps(ItemCalls, Items, Strings)
  /\ Maps(ItemTold, Items, Seq(Strings)) /\ Maps(ItemShows, Items, Kinds)
<1>1. ASSUME NEW t \in Items
      PROVE  /\ ItemSays[t] \in Seq(Strings) /\ ItemCalls[t] \in Seq(Strings)
             /\ ItemTold[t] \in Seq(Seq(Strings)) /\ ItemShows[t] \in Seq(Kinds)
  <2>0. /\ <<>> \in Seq(Strings) /\ <<>> \in Seq(Seq(Strings)) /\ <<>> \in Seq(Kinds)
    OBVIOUS
  <2>1. CASE \E w \in Seq(Strings) : t = Says(w)
    BY <2>0, <2>1, ItemIs
  <2>2. CASE \E k \in Strings, b \in ToolUses : t = Calls(k, b.name, b.input)
    <3>1. PICK k \in Strings, b \in ToolUses : t = Calls(k, b.name, b.input)
      BY <2>2
    <3>2. b.name \in Strings
      BY DEF ToolUses
    <3>3. <<b.name>> \in Seq(Strings)
      BY <3>2
    <3>. QED
      BY <2>0, <3>1, <3>3, ItemIs
  <2>3. CASE \E k \in Strings, b \in ToolResults : t = Answers(k, b.text)
    <3>1. PICK k \in Strings, b \in ToolResults : t = Answers(k, b.text)
      BY <2>3
    <3>2. b.text \in Seq(Strings)
      BY DEF ToolResults
    <3>3. <<b.text>> \in Seq(Seq(Strings))
      BY <3>2
    <3>. QED
      BY <2>0, <3>1, <3>3, ItemIs
  <2>4. CASE \E b \in Medias : t = Shows(b)
    <3>1. PICK b \in Medias : t = Shows(b)
      BY <2>4
    <3>2. b.kind \in Kinds
      BY DEF Medias
    <3>3. <<b.kind>> \in Seq(Kinds)
      BY <3>2
    <3>. QED
      BY <2>0, <3>1, <3>3, ItemIs
  <2>5. \/ \E w \in Seq(Strings) : t = Says(w)
        \/ \E k \in Strings, b \in ToolUses : t = Calls(k, b.name, b.input)
        \/ \E k \in Strings, b \in ToolResults : t = Answers(k, b.text)
        \/ \E b \in Medias : t = Shows(b)
    BY DEF Items
  <2>. QED
    BY <2>1, <2>2, <2>3, <2>4, <2>5, Zenon
<1>2. /\ DOMAIN ItemSays = Items /\ DOMAIN ItemCalls = Items
      /\ DOMAIN ItemTold = Items /\ DOMAIN ItemShows = Items
  BY DEF ItemSays, ItemCalls, ItemTold, ItemShows
<1>3. /\ ItemSays = [t \in Items |-> ItemSays[t]] /\ ItemCalls = [t \in Items |-> ItemCalls[t]]
      /\ ItemTold = [t \in Items |-> ItemTold[t]] /\ ItemShows = [t \in Items |-> ItemShows[t]]
  BY DEF ItemSays, ItemCalls, ItemTold, ItemShows
<1>. QED
  BY <1>1, <1>3 DEF Maps

WireTurns == {WireTurn(role, items) : role \in {"system", "user", "assistant", "model", "tool"},
                                      items \in Seq(Items)}
WhoTurn(role) == IF role \in {"assistant", "model"} THEN "model" ELSE "user"

(* A turn of a body is who speaks, and items.                              *)
LEMMA WireTurnIs ==
  ASSUME NEW role \in {"system", "user", "assistant", "model", "tool"}, NEW items \in Seq(Items)
  PROVE  LET t == WireTurn(role, items) IN
         /\ t \in WireTurns /\ t.role = role /\ t.items = items
         /\ OfTurn(t) \in Sides
         /\ role # "system" =>
              OfTurn(t) = Side(WhoTurn(role), Gather(ItemSays, items), Gather(ItemCalls, items),
                               Gather(ItemTold, items), Gather(ItemShows, items))
<1>. DEFINE t == WireTurn(role, items)
            a == FlattenSeq([i \in DOMAIN items |->
                   IF items[i].is = "text" THEN items[i].text ELSE <<>>])
            b == FlattenSeq([i \in DOMAIN items |->
                   IF items[i].is = "call" THEN <<items[i].name>> ELSE <<>>])
            c == FlattenSeq([i \in DOMAIN items |->
                   IF items[i].is = "result" THEN <<items[i].text>> ELSE <<>>])
            d == FlattenSeq([i \in DOMAIN items |->
                   IF items[i].is \in Range(MediaParts) THEN <<items[i].is>> ELSE <<>>])
<1>1. t \in WireTurns /\ t.role = role /\ t.items = items
  BY DEF WireTurns, WireTurn
<1>2. OfTurn(t) = IF role = "system" THEN Nothing ELSE Side(WhoTurn(role), a, b, c, d)
  BY <1>1, Zenon DEF OfTurn, WhoTurn
<1>3. \A i \in DOMAIN items : items[i] \in Items
  OBVIOUS
<1>4. Range(MediaParts) = Kinds
  <2>1. MediaParts = [image_url |-> "image", file |-> "document", input_audio |-> "audio"]
    BY DEF MediaParts
  <2>2. /\ DOMAIN MediaParts = {"image_url", "file", "input_audio"}
        /\ MediaParts["image_url"] = "image" /\ MediaParts["file"] = "document"
        /\ MediaParts["input_audio"] = "audio"
    BY <2>1
  <2>. QED
    BY <2>2 DEF Range, Kinds
<1>5. a = Gather(ItemSays, items)
  <2>1. [i \in DOMAIN items |-> IF items[i].is = "text" THEN items[i].text ELSE <<>>]
          = [i \in DOMAIN items |-> ItemSays[items[i]]]
    BY <1>3 DEF ItemSays
  <2>. QED
    BY <2>1, Zenon DEF Gather
<1>6. b = Gather(ItemCalls, items)
  <2>1. [i \in DOMAIN items |-> IF items[i].is = "call" THEN <<items[i].name>> ELSE <<>>]
          = [i \in DOMAIN items |-> ItemCalls[items[i]]]
    BY <1>3 DEF ItemCalls
  <2>. QED
    BY <2>1, Zenon DEF Gather
<1>7. c = Gather(ItemTold, items)
  <2>1. [i \in DOMAIN items |-> IF items[i].is = "result" THEN <<items[i].text>> ELSE <<>>]
          = [i \in DOMAIN items |-> ItemTold[items[i]]]
    BY <1>3 DEF ItemTold
  <2>. QED
    BY <2>1, Zenon DEF Gather
<1>8. d = Gather(ItemShows, items)
  <2>1. [i \in DOMAIN items |-> IF items[i].is \in Kinds THEN <<items[i].is>> ELSE <<>>]
          = [i \in DOMAIN items |-> ItemShows[items[i]]]
    BY <1>3 DEF ItemShows
  <2>. QED
    BY <1>4, <2>1, Zenon DEF Gather
<1>9. /\ a \in Seq(Strings) /\ b \in Seq(Strings) /\ c \in Seq(Seq(Strings)) /\ d \in Seq(Kinds)
  BY <1>5, <1>6, <1>7, <1>8, OfItems, GatherIs
<1>. HIDE DEF a, b, c, d
<1>10. OfTurn(t) \in Sides
  <2>1. Side(WhoTurn(role), a, b, c, d) \in Sides
    <3>1. WhoTurn(role) \in {"user", "model"}
      BY DEF WhoTurn
    <3>. QED
      BY <1>9, <3>1, SideIs
  <2>2. Nothing \in Sides
    <3>1. <<>> \in Seq(Strings) /\ <<>> \in Seq(Seq(Strings)) /\ <<>> \in Seq(Kinds)
      OBVIOUS
    <3>. QED
      BY <3>1, SideIs DEF Nothing
  <2>. QED
    BY <1>2, <2>1, <2>2
<1>. QED
  BY <1>1, <1>2, <1>5, <1>6, <1>7, <1>8, <1>10, Zenon

(* An item for a block, that says what the block does.                     *)
Faithful(f) ==
  /\ f \in [Blocks -> Items]
  /\ \A b \in Blocks : /\ ItemSays[f[b]] = SaysOf[b] /\ ItemCalls[f[b]] = CallsOf[b]
                       /\ ItemTold[f[b]] = ToldOf[b] /\ ItemShows[f[b]] = ShowsOf[b]

(* Items that are faithful to blocks say what the blocks say.              *)
LEMMA ItemsSay ==
  ASSUME NEW f, Faithful(f), NEW c \in Seq(Blocks),
         NEW role \in {"user", "assistant", "model", "tool"}
  PROVE  LET items == [i \in DOMAIN c |-> f[c[i]]] IN
         /\ items \in Seq(Items) /\ WireTurn(role, items) \in WireTurns
         /\ OfTurn(WireTurn(role, items)) = Said(WhoTurn(role), c)
<1>. DEFINE items == [i \in DOMAIN c |-> f[c[i]]]
<1>1. f \in [Blocks -> Items]
  BY DEF Faithful
<1>2. items \in Seq(Items)
  BY <1>1, EachIs
<1>3. \A i \in DOMAIN c : c[i] \in Blocks
  OBVIOUS
<1>4. DOMAIN items = DOMAIN c /\ \A i \in DOMAIN c : items[i] = f[c[i]]
  OBVIOUS
<1>. HIDE DEF items
<1>5. Gather(ItemSays, items) = Gather(SaysOf, c)
  <2>1. [i \in DOMAIN items |-> ItemSays[items[i]]] = [i \in DOMAIN c |-> SaysOf[c[i]]]
    BY <1>3, <1>4 DEF Faithful
  <2>. QED
    BY <2>1, Zenon DEF Gather
<1>6. Gather(ItemCalls, items) = Gather(CallsOf, c)
  <2>1. [i \in DOMAIN items |-> ItemCalls[items[i]]] = [i \in DOMAIN c |-> CallsOf[c[i]]]
    BY <1>3, <1>4 DEF Faithful
  <2>. QED
    BY <2>1, Zenon DEF Gather
<1>7. Gather(ItemTold, items) = Gather(ToldOf, c)
  <2>1. [i \in DOMAIN items |-> ItemTold[items[i]]] = [i \in DOMAIN c |-> ToldOf[c[i]]]
    BY <1>3, <1>4 DEF Faithful
  <2>. QED
    BY <2>1, Zenon DEF Gather
<1>8. Gather(ItemShows, items) = Gather(ShowsOf, c)
  <2>1. [i \in DOMAIN items |-> ItemShows[items[i]]] = [i \in DOMAIN c |-> ShowsOf[c[i]]]
    BY <1>3, <1>4 DEF Faithful
  <2>. QED
    BY <2>1, Zenon DEF Gather
<1>9. /\ WireTurn(role, items) \in WireTurns
      /\ OfTurn(WireTurn(role, items)) =
           Side(WhoTurn(role), Gather(ItemSays, items), Gather(ItemCalls, items),
                Gather(ItemTold, items), Gather(ItemShows, items))
  <2>1. role \in {"system", "user", "assistant", "model", "tool"} /\ role # "system"
    OBVIOUS
  <2>. QED
    BY <1>2, <2>1, WireTurnIs
<1>10. OfTurn(WireTurn(role, items)) = Said(WhoTurn(role), c)
  BY <1>5, <1>6, <1>7, <1>8, <1>9, Zenon DEF Said
<1>. QED
  BY <1>2, <1>9, <1>10 DEF items

AnthropicOf == [b \in Blocks |-> AnthropicItem(b)]
GeminiOf == [b \in Blocks |-> GeminiItem(b)[1]]

(* A block is of one kind, and of the fields of that kind.                 *)
LEMMA BlocksAre ==
  ASSUME NEW b \in Blocks
  PROVE  \/ b \in Texts /\ b.kind = "text" /\ b.text \in Seq(Strings)
         \/ b \in Medias /\ b.kind \in Kinds
         \/ b \in ToolResults /\ b.kind = "tool_result" /\ b.id \in Strings /\ b.text \in Seq(Strings)
         \/ b \in ToolUses /\ b.kind = "tool_use" /\ b.id \in Strings /\ b.name \in Strings
BY BlockIs, Zenon DEF Blocks

(* The items of the Messages API are faithful,                             *)
LEMMA AnthropicFaithful ==
  Faithful(AnthropicOf)
<1>. DEFINE f == AnthropicOf
<1>1. ASSUME NEW b \in Blocks
      PROVE  /\ f[b] \in Items
             /\ ItemSays[f[b]] = SaysOf[b] /\ ItemCalls[f[b]] = CallsOf[b]
             /\ ItemTold[f[b]] = ToldOf[b] /\ ItemShows[f[b]] = ShowsOf[b]
  <2>1. f[b] = AnthropicItem(b)
    BY DEF AnthropicOf
  <2>. HIDE DEF f
  <2>2. CASE b \in Texts /\ b.kind = "text" /\ b.text \in Seq(Strings)
    <3>1. f[b] = Says(b.text)
      BY <2>1, <2>2 DEF AnthropicItem
    <3>. QED
      BY <2>2, <3>1, ItemIs, BlockSays
  <2>3. CASE b \in Medias /\ b.kind \in Kinds
    <3>1. f[b] = Shows(b)
      BY <2>1, <2>3 DEF AnthropicItem, Kinds
    <3>. QED
      BY <2>3, <3>1, ItemIs, BlockSays
  <2>4. CASE b \in ToolResults /\ b.kind = "tool_result" /\ b.id \in Strings
    <3>0. PICK k \in Strings : k = b.id
      BY <2>4
    <3>1. f[b] = Answers(k, b.text)
      BY <3>0, <2>1, <2>4 DEF AnthropicItem
    <3>3. /\ f[b] \in Items /\ ItemSays[f[b]] = <<>> /\ ItemCalls[f[b]] = <<>>
          /\ ItemTold[f[b]] = <<b.text>> /\ ItemShows[f[b]] = <<>>
      <4>. DEFINE t == Answers(k, b.text)
      <4>1. /\ t \in Items /\ ItemSays[t] = <<>> /\ ItemCalls[t] = <<>>
            /\ ItemTold[t] = <<b.text>> /\ ItemShows[t] = <<>>
        BY <2>4, ItemIs
      <4>. HIDE DEF t
      <4>2. f[b] = t
        BY <3>1 DEF t
      <4>. QED
        BY <4>1, <4>2
    <3>4. /\ SaysOf[b] = <<>> /\ CallsOf[b] = <<>>
          /\ ToldOf[b] = <<b.text>> /\ ShowsOf[b] = <<>>
      BY <2>4, BlockSays
    <3>. QED
      BY <3>3, <3>4
  <2>5. CASE b \in ToolUses /\ b.kind = "tool_use" /\ b.id \in Strings
    <3>0. PICK k \in Strings : k = b.id
      BY <2>5
    <3>1. f[b] = Calls(k, b.name, b.input)
      BY <3>0, <2>1, <2>5 DEF AnthropicItem
    <3>3. /\ f[b] \in Items /\ ItemSays[f[b]] = <<>> /\ ItemCalls[f[b]] = <<b.name>>
          /\ ItemTold[f[b]] = <<>> /\ ItemShows[f[b]] = <<>>
      <4>. DEFINE t == Calls(k, b.name, b.input)
      <4>1. /\ t \in Items /\ ItemSays[t] = <<>> /\ ItemCalls[t] = <<b.name>>
            /\ ItemTold[t] = <<>> /\ ItemShows[t] = <<>>
        BY <2>5, ItemIs
      <4>. HIDE DEF t
      <4>2. f[b] = t
        BY <3>1 DEF t
      <4>. QED
        BY <4>1, <4>2
    <3>4. /\ SaysOf[b] = <<>> /\ CallsOf[b] = <<b.name>>
          /\ ToldOf[b] = <<>> /\ ShowsOf[b] = <<>>
      BY <2>5, BlockSays
    <3>. QED
      BY <3>3, <3>4
  <2>. QED
    BY <2>2, <2>3, <2>4, <2>5, BlocksAre
<1>2. f = [b \in Blocks |-> f[b]]
  BY DEF AnthropicOf
<1>. HIDE DEF f
<1>3. f \in [Blocks -> Items]
  BY <1>1, <1>2
<1>4. Faithful(f)
  BY <1>1, <1>3 DEF Faithful
<1>. QED
  BY <1>4 DEF f

(* and those of Gemini.                                                    *)
LEMMA GeminiFaithful ==
  /\ Faithful(GeminiOf)
  /\ \A b \in Blocks : GeminiItem(b) = <<GeminiOf[b]>>
<1>. DEFINE f == GeminiOf
<1>1. ASSUME NEW b \in Blocks
      PROVE  /\ f[b] \in Items /\ GeminiItem(b) = <<f[b]>>
             /\ ItemSays[f[b]] = SaysOf[b] /\ ItemCalls[f[b]] = CallsOf[b]
             /\ ItemTold[f[b]] = ToldOf[b] /\ ItemShows[f[b]] = ShowsOf[b]
  <2>1. f[b] = GeminiItem(b)[1]
    BY DEF GeminiOf
  <2>. HIDE DEF f
  <2>2. CASE b \in Texts /\ b.kind = "text" /\ b.text \in Seq(Strings)
    <3>1. GeminiItem(b) = <<Says(b.text)>>
      BY <2>2 DEF GeminiItem
    <3>2. f[b] = Says(b.text)
      BY <2>1, <3>1
    <3>. QED
      BY <2>2, <3>1, <3>2, ItemIs, BlockSays
  <2>3. CASE b \in Medias /\ b.kind \in Kinds
    <3>1. GeminiItem(b) = <<Shows(b)>>
      BY <2>3 DEF GeminiItem, Kinds
    <3>2. f[b] = Shows(b)
      BY <2>1, <3>1
    <3>. QED
      BY <2>3, <3>1, <3>2, ItemIs, BlockSays
  <2>4. CASE b \in ToolResults /\ b.kind = "tool_result" /\ b.id \in Strings
    <3>1. GeminiItem(b) = <<Answers(b.id, b.text)>>
      BY <2>4 DEF GeminiItem
    <3>0. PICK k \in Strings : k = b.id
      BY <2>4
    <3>2. f[b] = Answers(k, b.text)
      BY <2>1, <3>0, <3>1
    <3>3. /\ f[b] \in Items /\ ItemSays[f[b]] = <<>> /\ ItemCalls[f[b]] = <<>>
          /\ ItemTold[f[b]] = <<b.text>> /\ ItemShows[f[b]] = <<>>
      <4>. DEFINE t == Answers(k, b.text)
      <4>1. /\ t \in Items /\ ItemSays[t] = <<>> /\ ItemCalls[t] = <<>>
            /\ ItemTold[t] = <<b.text>> /\ ItemShows[t] = <<>>
        BY <2>4, ItemIs
      <4>. HIDE DEF t
      <4>2. f[b] = t
        BY <3>2 DEF t
      <4>. QED
        BY <4>1, <4>2
    <3>4. /\ SaysOf[b] = <<>> /\ CallsOf[b] = <<>>
          /\ ToldOf[b] = <<b.text>> /\ ShowsOf[b] = <<>>
      BY <2>4, BlockSays
    <3>. QED
      BY <3>0, <3>1, <3>2, <3>3, <3>4
  <2>5. CASE b \in ToolUses /\ b.kind = "tool_use" /\ b.name \in Strings
    <3>1. GeminiItem(b) = <<Calls(b.name, b.name, b.input)>>
      BY <2>5 DEF GeminiItem
    <3>0. PICK k \in Strings : k = b.name
      BY <2>5
    <3>2. f[b] = Calls(k, b.name, b.input)
      BY <2>1, <3>0, <3>1
    <3>3. /\ f[b] \in Items /\ ItemSays[f[b]] = <<>> /\ ItemCalls[f[b]] = <<b.name>>
          /\ ItemTold[f[b]] = <<>> /\ ItemShows[f[b]] = <<>>
      <4>. DEFINE t == Calls(k, b.name, b.input)
      <4>1. /\ t \in Items /\ ItemSays[t] = <<>> /\ ItemCalls[t] = <<b.name>>
            /\ ItemTold[t] = <<>> /\ ItemShows[t] = <<>>
        BY <2>5, ItemIs
      <4>. HIDE DEF t
      <4>2. f[b] = t
        BY <3>2 DEF t
      <4>. QED
        BY <4>1, <4>2
    <3>4. /\ SaysOf[b] = <<>> /\ CallsOf[b] = <<b.name>>
          /\ ToldOf[b] = <<>> /\ ShowsOf[b] = <<>>
      BY <2>5, BlockSays
    <3>. QED
      BY <3>0, <3>1, <3>2, <3>3, <3>4
  <2>. QED
    BY <2>2, <2>3, <2>4, <2>5, BlocksAre
<1>2. f = [b \in Blocks |-> f[b]]
  BY DEF GeminiOf
<1>. HIDE DEF f
<1>3. f \in [Blocks -> Items]
  BY <1>1, <1>2
<1>4. Faithful(f)
  BY <1>1, <1>3 DEF Faithful
<1>. QED
  BY <1>1, <1>4 DEF f

-----------------------------------------------------------------------------
(* What turns say to a vendor that has heard others *)

OfTurns(turns) == [i \in DOMAIN turns |-> OfTurn(turns[i])]
TurnsSaid == {t \in WireTurns : t.role # "system"}
Carried(turns, side) ==
  /\ turns \in Seq(TurnsSaid) /\ side \in Sides
  /\ \A s \in Seq(WireTurns) : Sided(OfTurns(s \o turns)) = Joins(Sided(OfTurns(s)), side)

(* A turn of a body is a side.                                             *)
LEMMA WireSides ==
  \A t \in WireTurns : OfTurn(t) \in Sides
BY WireTurnIs DEF WireTurns

(* The next turn joins the sides.                                          *)
LEMMA OfTurnsMore ==
  ASSUME NEW r \in Seq(WireTurns), NEW e \in WireTurns
  PROVE  /\ Sided(OfTurns(Append(r, e))) = Joins(Sided(OfTurns(r)), OfTurn(e))
         /\ Sided(OfTurns(r)) \in Seq(Sides)
<1>. DEFINE side == [t \in WireTurns |-> OfTurn(t)]
            s == Append(r, e)
<1>1. side \in [WireTurns -> Sides] /\ side[e] = OfTurn(e) /\ side[e] \in Sides
  BY WireSides
<1>2. OfTurns(r) = [i \in DOMAIN r |-> side[r[i]]]
  BY DEF OfTurns
<1>3. OfTurns(s) = [i \in DOMAIN s |-> side[s[i]]]
  <2>1. s \in Seq(WireTurns)
    OBVIOUS
  <2>2. \A i \in DOMAIN s : s[i] \in WireTurns
    BY <2>1
  <2>. QED
    BY <2>2 DEF OfTurns
<1>. HIDE DEF side
<1>4. OfTurns(r) \in Seq(Sides) /\ OfTurns(s) = Append(OfTurns(r), side[e])
  BY <1>1, <1>2, <1>3, EachIs, EachMore
<1>5. Sided(OfTurns(s)) = Joins(Sided(OfTurns(r)), side[e])
  <2>. HIDE DEF s
  <2>. QED
    BY <1>1, <1>4, SidedMore
<1>6. Sided(OfTurns(r)) \in Seq(Sides)
  BY <1>4, SidedAre
<1>. QED
  BY <1>1, <1>5, <1>6

(* No turns carry silence.                                                 *)
LEMMA CarriedNone ==
  ASSUME NEW side \in Sides, Silent(side)
  PROVE  Carried(<<>>, side)
<1>1. \A s \in Seq(WireTurns) : s \o <<>> = s
  OBVIOUS
<1>2. \A s : Joins(s, side) = s
  BY DEF Joins
<1>3. <<>> \in Seq(TurnsSaid)
  OBVIOUS
<1>. QED
  BY <1>1, <1>2, <1>3 DEF Carried

(* A turn carries what it says.                                            *)
LEMMA CarriedOne ==
  ASSUME NEW t \in TurnsSaid
  PROVE  Carried(<<t>>, OfTurn(t))
<1>1. t \in WireTurns /\ OfTurn(t) \in Sides
  BY WireSides DEF TurnsSaid
<1>2. ASSUME NEW s \in Seq(WireTurns)
      PROVE  Sided(OfTurns(s \o <<t>>)) = Joins(Sided(OfTurns(s)), OfTurn(t))
  <2>1. s \o <<t>> = Append(s, t)
    BY <1>1
  <2>. QED
    BY <1>1, <2>1, OfTurnsMore
<1>3. <<t>> \in Seq(TurnsSaid)
  OBVIOUS
<1>. QED
  BY <1>1, <1>2, <1>3 DEF Carried

(* Turns that follow one another carry both.                               *)
LEMMA CarriedBoth ==
  ASSUME NEW u, NEW v, NEW a, NEW b, Carried(u, a), Carried(v, b), a.by = b.by
  PROVE  Carried(u \o v, Both(a, b))
<1>1. u \in Seq(TurnsSaid) /\ v \in Seq(TurnsSaid) /\ a \in Sides /\ b \in Sides
  BY DEF Carried
<1>2. u \in Seq(WireTurns) /\ v \in Seq(WireTurns)
  <2>1. TurnsSaid \subseteq WireTurns
    BY DEF TurnsSaid
  <2>. QED
    BY <1>1, <2>1
<1>3. u \o v \in Seq(TurnsSaid) /\ Both(a, b) \in Sides
  <2>1. u \o v \in Seq(TurnsSaid)
    BY <1>1
  <2>. QED
    BY <1>1, <2>1, BothAre
<1>4. ASSUME NEW s \in Seq(WireTurns)
      PROVE  Sided(OfTurns(s \o (u \o v))) = Joins(Sided(OfTurns(s)), Both(a, b))
  <2>1. s \o (u \o v) = (s \o u) \o v /\ s \o u \in Seq(WireTurns)
    BY <1>2
  <2>2. Sided(OfTurns((s \o u) \o v)) = Joins(Sided(OfTurns(s \o u)), b)
    BY <2>1 DEF Carried
  <2>3. Sided(OfTurns(s \o u)) = Joins(Sided(OfTurns(s)), a)
    BY DEF Carried
  <2>4. Sided(OfTurns(s)) \in Seq(Sides)
    <3>1. s = <<>> \/ \E r \in Seq(WireTurns), e \in WireTurns : s = Append(r, e)
      BY SequenceEmptyOrAppend
    <3>2. CASE s = <<>>
      <4>1. OfTurns(s) = <<>>
        BY <3>2 DEF OfTurns
      <4>2. <<>> \in Seq(Sides)
        OBVIOUS
      <4>. QED
        BY <4>1, <4>2, SidedAre
    <3>3. CASE \E r \in Seq(WireTurns), e \in WireTurns : s = Append(r, e)
      <4>1. PICK r \in Seq(WireTurns), e \in WireTurns : s = Append(r, e)
        BY <3>3
      <4>2. Sided(OfTurns(s)) = Joins(Sided(OfTurns(r)), OfTurn(e)) /\ Sided(OfTurns(r)) \in Seq(Sides)
        BY <4>1, OfTurnsMore
      <4>. QED
        BY <4>2, WireSides, JoinsIs
    <3>. QED
      BY <3>1, <3>2, <3>3
  <2>5. Joins(Joins(Sided(OfTurns(s)), a), b) = Joins(Sided(OfTurns(s)), Both(a, b))
    BY <1>1, <2>4, JoinsTwice
  <2>. QED
    BY <2>1, <2>2, <2>3, <2>5, Zenon
<1>. QED
  BY <1>3, <1>4 DEF Carried

(* A turn made of blocks.                                                  *)
LEMMA TurnCarried ==
  ASSUME NEW f, Faithful(f), NEW c \in Seq(Blocks),
         NEW role \in {"user", "assistant", "model", "tool"}
  PROVE  Carried(<<WireTurn(role, [i \in DOMAIN c |-> f[c[i]]])>>, Said(WhoTurn(role), c))
<1>. DEFINE t == WireTurn(role, [i \in DOMAIN c |-> f[c[i]]])
<1>1. t \in WireTurns /\ OfTurn(t) = Said(WhoTurn(role), c)
  BY ItemsSay
<1>2. t.role = role
  BY DEF WireTurn
<1>. HIDE DEF t
<1>3. t \in TurnsSaid
  BY <1>1, <1>2 DEF TurnsSaid
<1>4. Carried(<<t>>, OfTurn(t))
  BY <1>3, CarriedOne
<1>5. Carried(<<t>>, Said(WhoTurn(role), c))
  BY <1>1, <1>4
<1>. QED
  BY <1>5 DEF t

(* The turns made of a turn carry it, in the Messages API,                 *)
LEMMA AnthropicCarried ==
  ASSUME NEW m \in Turns
  PROVE  Carried(AnthropicTurns(m), SideOf[m])
<1>. DEFINE c == m.content
<1>1. /\ m.role \in {"user", "assistant"} /\ c \in Seq(Blocks)
      /\ SideOf[m] = Said(Speaker(m.role), c) /\ WhoTurn(m.role) = Speaker(m.role)
  BY TurnIs DEF SideOf, WhoTurn, Speaker
<1>2. AnthropicTurns(m) = <<WireTurn(m.role, [i \in DOMAIN c |-> AnthropicOf[c[i]]])>>
  <2>1. \A i \in DOMAIN c : c[i] \in Blocks
    BY <1>1
  <2>2. [i \in DOMAIN c |-> AnthropicItem(c[i])] = [i \in DOMAIN c |-> AnthropicOf[c[i]]]
    BY <2>1 DEF AnthropicOf
  <2>. QED
    BY <2>2, Zenon DEF AnthropicTurns
<1>. HIDE DEF c
<1>3. Carried(<<WireTurn(m.role, [i \in DOMAIN c |-> AnthropicOf[c[i]]])>>, Said(WhoTurn(m.role), c))
  <2>1. m.role \in {"user", "assistant", "model", "tool"}
    BY <1>1
  <2>. QED
    BY <1>1, <2>1, AnthropicFaithful, TurnCarried
<1>. QED
  BY <1>1, <1>2, <1>3

(* and in Gemini.                                                          *)
LEMMA GeminiCarried ==
  ASSUME NEW m \in Turns
  PROVE  Carried(GeminiTurns(m), SideOf[m])
<1>. DEFINE c == m.content
            role == IF m.role = "user" THEN "user" ELSE "model"
            k == [b \in Blocks |-> GeminiItem(b)]
            items == [i \in DOMAIN c |-> GeminiOf[c[i]]]
<1>1. /\ m.role \in {"user", "assistant"} /\ c \in Seq(Blocks)
      /\ SideOf[m] = Said(Speaker(m.role), c)
  BY TurnIs DEF SideOf
<1>2. WhoTurn(role) = Speaker(m.role) /\ role \in {"user", "assistant", "model", "tool"}
  BY <1>1 DEF WhoTurn, Speaker
<1>3. Gather(k, c) = items
  <2>1. GeminiOf \in [Blocks -> Items] /\ \A b \in Blocks : k[b] = <<GeminiOf[b]>>
    BY GeminiFaithful DEF Faithful
  <2>2. \A b \in Blocks : <<GeminiOf[b]>> \in Seq(Items)
    BY <2>1
  <2>3. Maps(k, Blocks, Items)
    <3>1. k = [b \in Blocks |-> k[b]]
      OBVIOUS
    <3>. HIDE DEF k
    <3>. QED
      BY <2>1, <2>2, <3>1 DEF Maps
  <2>. HIDE DEF k, c
  <2>4. Singly(k, GeminiOf, Blocks, Items)
    BY <2>1, <2>3 DEF Singly
  <2>. QED
    BY <1>1, <2>4, GatherEach
<1>4. Gather(k, c) = FlattenSeq([i \in DOMAIN c |-> GeminiItem(c[i])])
  <2>1. \A i \in DOMAIN c : c[i] \in Blocks
    BY <1>1
  <2>2. [i \in DOMAIN c |-> k[c[i]]] = [i \in DOMAIN c |-> GeminiItem(c[i])]
    BY <2>1
  <2>. HIDE DEF k
  <2>. QED
    BY <2>2, Zenon DEF Gather
<1>5. GeminiTurns(m) = <<WireTurn(role, FlattenSeq([i \in DOMAIN c |-> GeminiItem(c[i])]))>>
  BY Zenon DEF GeminiTurns
<1>6. GeminiTurns(m) = <<WireTurn(role, items)>>
  BY <1>3, <1>4, <1>5, Zenon
<1>. HIDE DEF c, role, k
<1>7. Carried(<<WireTurn(role, items)>>, Said(WhoTurn(role), c))
  BY <1>1, <1>2, GeminiFaithful, TurnCarried
<1>. QED
  BY <1>1, <1>2, <1>6, <1>7, Zenon

-----------------------------------------------------------------------------
(* The turns of the chat completions shape *)

(* The blocks of some kinds.                                               *)
Keep(K) == [b \in Blocks |-> IF b.kind \in K THEN <<b>> ELSE <<>>]

(* What is kept is a list of blocks.                                       *)
LEMMA KeepMaps ==
  ASSUME NEW K
  PROVE  /\ Maps(Keep(K), Blocks, Blocks)
         /\ \A b \in Blocks : Keep(K)[b] = IF b.kind \in K THEN <<b>> ELSE <<>>
<1>1. \A b \in Blocks : (IF b.kind \in K THEN <<b>> ELSE <<>>) \in Seq(Blocks)
  OBVIOUS
<1>. QED
  BY <1>1 DEF Maps, Keep

(* What only the kept blocks have is all there.                            *)
LEMMA KeepAll ==
  ASSUME NEW K, NEW U, NEW h, Maps(h, Blocks, U), NEW c \in Seq(Blocks),
         \A b \in Blocks : b.kind \notin K => h[b] = <<>>
  PROVE  Gather(h, Gather(Keep(K), c)) = Gather(h, c)
<1>1. Maps(Keep(K), Blocks, Blocks)
  BY KeepMaps
<1>2. ASSUME NEW b \in Blocks PROVE Gather(h, Keep(K)[b]) = h[b]
  <2>1. CASE b.kind \in K
    <3>1. Keep(K)[b] = <<b>>
      BY <2>1, KeepMaps
    <3>2. Gather(h, <<b>>) = h[b]
      BY GatherOne
    <3>. QED
      BY <3>1, <3>2
  <2>2. CASE b.kind \notin K
    <3>1. Keep(K)[b] = <<>>
      BY <2>2, KeepMaps
    <3>. QED
      BY <2>2, <3>1, GatherNone
  <2>. QED
    BY <2>1, <2>2
<1>3. \A i \in DOMAIN c : Gather(h, Keep(K)[c[i]]) = h[c[i]]
  BY <1>2
<1>. QED
  BY <1>1, <1>3, GatherThrough

(* What only the others have is not.                                       *)
LEMMA KeepNone ==
  ASSUME NEW K, NEW U, NEW h, Maps(h, Blocks, U), NEW c \in Seq(Blocks),
         \A b \in Blocks : b.kind \in K => h[b] = <<>>
  PROVE  Gather(h, Gather(Keep(K), c)) = <<>>
<1>. DEFINE k == [b \in Blocks |-> <<>>]
<1>1. Maps(Keep(K), Blocks, Blocks)
  BY KeepMaps
<1>2. ASSUME NEW b \in Blocks PROVE Gather(h, Keep(K)[b]) = k[b]
  <2>1. CASE b.kind \in K
    <3>1. Keep(K)[b] = <<b>>
      BY <2>1, KeepMaps
    <3>2. Gather(h, <<b>>) = h[b]
      BY GatherOne
    <3>. QED
      BY <2>1, <3>1, <3>2
  <2>2. CASE b.kind \notin K
    <3>1. Keep(K)[b] = <<>>
      BY <2>2, KeepMaps
    <3>. QED
      BY <2>2, <3>1, GatherNone
  <2>. QED
    BY <2>1, <2>2
<1>3. Maps(k, Blocks, U)
  <2>1. \A b \in Blocks : <<>> \in Seq(U)
    OBVIOUS
  <2>. QED
    BY <2>1 DEF Maps
<1>4. \A i \in DOMAIN c : k[c[i]] = <<>>
  OBVIOUS
<1>. HIDE DEF k
<1>5. \A i \in DOMAIN c : Gather(h, Keep(K)[c[i]]) = k[c[i]]
  BY <1>2
<1>6. Gather(h, Gather(Keep(K), c)) = Gather(k, c)
  BY <1>1, <1>5, GatherThrough
<1>7. Gather(k, c) = <<>>
  BY <1>3, <1>4, GatherNothing
<1>. QED
  BY <1>6, <1>7

(* The blocks of a kind are what is kept of it.                            *)
LEMMA KindKept ==
  ASSUME NEW kind, NEW c \in Seq(Blocks)
  PROVE  OfKind(c, kind) = Gather(Keep({kind}), c) /\ OfKind(c, kind) \in Seq(Blocks)
<1>1. [i \in DOMAIN c |-> When(c[i].kind = kind, c[i])] = [i \in DOMAIN c |-> Keep({kind})[c[i]]]
  <2>1. \A i \in DOMAIN c : c[i] \in Blocks
    OBVIOUS
  <2>2. \A i \in DOMAIN c : When(c[i].kind = kind, c[i]) = Keep({kind})[c[i]]
    BY <2>1, KeepMaps DEF When
  <2>. QED
    BY <2>2
<1>2. OfKind(c, kind) = Gather(Keep({kind}), c)
  BY <1>1, Zenon DEF OfKind, Gather
<1>3. Gather(Keep({kind}), c) \in Seq(Blocks)
  BY KeepMaps, GatherIs
<1>. QED
  BY <1>2, <1>3

(* Which blocks say nothing of a sort.                                     *)
LEMMA KindSilent ==
  /\ \A b \in Blocks : b.kind # "text" => SaysOf[b] = <<>>
  /\ \A b \in Blocks : b.kind # "tool_use" => CallsOf[b] = <<>>
  /\ \A b \in Blocks : b.kind # "tool_result" => ToldOf[b] = <<>>
  /\ \A b \in Blocks : b.kind \notin Kinds => ShowsOf[b] = <<>>
BY DEF SaysOf, CallsOf, ToldOf, ShowsOf

(* The blocks of text say all the words, and nothing else.                 *)
LEMMA TextsSaid ==
  ASSUME NEW c \in Seq(Blocks)
  PROVE  LET t == OfKind(c, "text") IN
         /\ Gather(SaysOf, t) = Gather(SaysOf, c) /\ Gather(CallsOf, t) = <<>>
         /\ Gather(ToldOf, t) = <<>> /\ Gather(ShowsOf, t) = <<>>
<1>. DEFINE K == {"text"}
            t == Gather(Keep(K), c)
<1>1. OfKind(c, "text") = t
  BY KindKept
<1>2. /\ \A b \in Blocks : b.kind \notin K => SaysOf[b] = <<>>
      /\ \A b \in Blocks : b.kind \in K => CallsOf[b] = <<>>
      /\ \A b \in Blocks : b.kind \in K => ToldOf[b] = <<>>
      /\ \A b \in Blocks : b.kind \in K => ShowsOf[b] = <<>>
  BY KindSilent DEF Kinds
<1>. HIDE DEF K
<1>3. Gather(SaysOf, t) = Gather(SaysOf, c)
  BY <1>2, OfBlocks, KeepAll
<1>4. Gather(CallsOf, t) = <<>>
  BY <1>2, OfBlocks, KeepNone
<1>5. Gather(ToldOf, t) = <<>>
  BY <1>2, OfBlocks, KeepNone
<1>6. Gather(ShowsOf, t) = <<>>
  BY <1>2, OfBlocks, KeepNone
<1>. QED
  BY <1>1, <1>3, <1>4, <1>5, <1>6

(* The calls say all the calls,                                            *)
LEMMA CallsSaid ==
  ASSUME NEW c \in Seq(Blocks)
  PROVE  LET t == OfKind(c, "tool_use") IN
         /\ Gather(SaysOf, t) = <<>> /\ Gather(CallsOf, t) = Gather(CallsOf, c)
         /\ Gather(ToldOf, t) = <<>> /\ Gather(ShowsOf, t) = <<>>
<1>. DEFINE K == {"tool_use"}
            t == Gather(Keep(K), c)
<1>1. OfKind(c, "tool_use") = t
  BY KindKept
<1>2. /\ \A b \in Blocks : b.kind \in K => SaysOf[b] = <<>>
      /\ \A b \in Blocks : b.kind \notin K => CallsOf[b] = <<>>
      /\ \A b \in Blocks : b.kind \in K => ToldOf[b] = <<>>
      /\ \A b \in Blocks : b.kind \in K => ShowsOf[b] = <<>>
  BY KindSilent DEF Kinds
<1>. HIDE DEF K
<1>3. Gather(SaysOf, t) = <<>>
  BY <1>2, OfBlocks, KeepNone
<1>4. Gather(CallsOf, t) = Gather(CallsOf, c)
  BY <1>2, OfBlocks, KeepAll
<1>5. Gather(ToldOf, t) = <<>>
  BY <1>2, OfBlocks, KeepNone
<1>6. Gather(ShowsOf, t) = <<>>
  BY <1>2, OfBlocks, KeepNone
<1>. QED
  BY <1>1, <1>3, <1>4, <1>5, <1>6

(* the results all the results,                                            *)
LEMMA ResultsSaid ==
  ASSUME NEW c \in Seq(Blocks)
  PROVE  LET t == OfKind(c, "tool_result") IN
         /\ Gather(SaysOf, t) = <<>> /\ Gather(CallsOf, t) = <<>>
         /\ Gather(ToldOf, t) = Gather(ToldOf, c) /\ Gather(ShowsOf, t) = <<>>
<1>. DEFINE K == {"tool_result"}
            t == Gather(Keep(K), c)
<1>1. OfKind(c, "tool_result") = t
  BY KindKept
<1>2. /\ \A b \in Blocks : b.kind \in K => SaysOf[b] = <<>>
      /\ \A b \in Blocks : b.kind \in K => CallsOf[b] = <<>>
      /\ \A b \in Blocks : b.kind \notin K => ToldOf[b] = <<>>
      /\ \A b \in Blocks : b.kind \in K => ShowsOf[b] = <<>>
  BY KindSilent DEF Kinds
<1>. HIDE DEF K
<1>3. Gather(SaysOf, t) = <<>>
  BY <1>2, OfBlocks, KeepNone
<1>4. Gather(CallsOf, t) = <<>>
  BY <1>2, OfBlocks, KeepNone
<1>5. Gather(ToldOf, t) = Gather(ToldOf, c)
  BY <1>2, OfBlocks, KeepAll
<1>6. Gather(ShowsOf, t) = <<>>
  BY <1>2, OfBlocks, KeepNone
<1>. QED
  BY <1>1, <1>3, <1>4, <1>5, <1>6

ShownBlocks(c) == FlattenSeq([i \in DOMAIN c |-> When(IsMedia(c[i]), c[i])])

(* and the media all that is shown.                                        *)
LEMMA MediaSaid ==
  ASSUME NEW c \in Seq(Blocks)
  PROVE  LET t == ShownBlocks(c) IN
         /\ t = Gather(Keep(Kinds), c) /\ t \in Seq(Blocks)
         /\ Gather(SaysOf, t) = <<>> /\ Gather(CallsOf, t) = <<>>
         /\ Gather(ToldOf, t) = <<>> /\ Gather(ShowsOf, t) = Gather(ShowsOf, c)
<1>. DEFINE t == Gather(Keep(Kinds), c)
<1>1. ShownBlocks(c) = t
  <2>1. \A i \in DOMAIN c : c[i] \in Blocks
    OBVIOUS
  <2>2. \A i \in DOMAIN c : When(IsMedia(c[i]), c[i]) = Keep(Kinds)[c[i]]
    <3>1. \A b : IsMedia(b) <=> b.kind \in Kinds
      BY Zenon DEF IsMedia, Kinds
    <3>. QED
      BY <2>1, <3>1, KeepMaps DEF When
  <2>3. [i \in DOMAIN c |-> When(IsMedia(c[i]), c[i])] = [i \in DOMAIN c |-> Keep(Kinds)[c[i]]]
    BY <2>2
  <2>. QED
    BY <2>3, Zenon DEF ShownBlocks, Gather
<1>2. /\ \A b \in Blocks : b.kind \in Kinds => SaysOf[b] = <<>>
      /\ \A b \in Blocks : b.kind \in Kinds => CallsOf[b] = <<>>
      /\ \A b \in Blocks : b.kind \in Kinds => ToldOf[b] = <<>>
      /\ \A b \in Blocks : b.kind \notin Kinds => ShowsOf[b] = <<>>
  BY KindSilent DEF Kinds
<1>3. Gather(SaysOf, t) = <<>>
  BY <1>2, OfBlocks, KeepNone
<1>4. Gather(CallsOf, t) = <<>>
  BY <1>2, OfBlocks, KeepNone
<1>5. Gather(ToldOf, t) = <<>>
  BY <1>2, OfBlocks, KeepNone
<1>6. Gather(ShowsOf, t) = Gather(ShowsOf, c)
  BY <1>2, OfBlocks, KeepAll
<1>7. t \in Seq(Blocks)
  BY KeepMaps, GatherIs
<1>. QED
  BY <1>1, <1>3, <1>4, <1>5, <1>6, <1>7

(* Blocks of one kind are of that kind.                                    *)
LEMMA KindIs ==
  ASSUME NEW K, NEW c \in Seq(Blocks)
  PROVE  Gather(Keep(K), c) \in Seq({b \in Blocks : b.kind \in K})
<1>. DEFINE Those == {b \in Blocks : b.kind \in K}
<1>1. Maps(Keep(K), Blocks, Those)
  <2>1. ASSUME NEW b \in Blocks
        PROVE  (IF b.kind \in K THEN <<b>> ELSE <<>>) \in Seq(Those)
    <3>1. b.kind \in K => b \in Those
      OBVIOUS
    <3>. HIDE DEF Those
    <3>2. b \in Those => <<b>> \in Seq(Those)
      OBVIOUS
    <3>3. <<>> \in Seq(Those)
      OBVIOUS
    <3>. QED
      BY <3>1, <3>2, <3>3, Zenon
  <2>. QED
    BY <2>1 DEF Maps, Keep
<1>. QED
  BY <1>1, GatherIs

(* The results of tools, one turn each.                                    *)
ResultTurns(r) == [i \in DOMAIN r |-> WireTurn("tool", <<Answers(r[i].id, r[i].text)>>)]

(* The turn of a result says it.                                           *)
LEMMA ResultTurn ==
  ASSUME NEW e \in ToolResults
  PROVE  LET t == WireTurn("tool", <<Answers(e.id, e.text)>>) IN
         t \in TurnsSaid /\ OfTurn(t) = Said("user", <<e>>)
<1>. DEFINE t == WireTurn("tool", <<Answers(e.id, e.text)>>)
            c == <<e>>
            items == [i \in DOMAIN c |-> AnthropicOf[c[i]]]
<1>1. e \in Blocks /\ e.kind = "tool_result" /\ c \in Seq(Blocks)
  BY BlockSays DEF ToolResults
<1>2. AnthropicOf[e] = Answers(e.id, e.text)
  BY <1>1 DEF AnthropicOf, AnthropicItem
<1>3. items = <<Answers(e.id, e.text)>>
  BY <1>2
<1>4. "tool" \in {"user", "assistant", "model", "tool"}
  OBVIOUS
<1>. HIDE DEF c
<1>5. /\ WireTurn("tool", items) \in WireTurns
      /\ OfTurn(WireTurn("tool", items)) = Said(WhoTurn("tool"), c)
  BY <1>1, <1>4, AnthropicFaithful, ItemsSay
<1>6. WhoTurn("tool") = "user"
  BY DEF WhoTurn
<1>7. t.role = "tool"
  BY DEF WireTurn
<1>8. t \in WireTurns /\ OfTurn(t) = Said("user", c)
  BY <1>3, <1>5, <1>6, Zenon
<1>. QED
  BY <1>7, <1>8 DEF TurnsSaid, c

(* The turns of results carry them all.                                    *)
LEMMA ResultsCarried ==
  \A r \in Seq(ToolResults) : Carried(ResultTurns(r), Said("user", r))
<1>. DEFINE Good == {r \in Seq(ToolResults) : Carried(ResultTurns(r), Said("user", r))}
            one == [e \in ToolResults |-> WireTurn("tool", <<Answers(e.id, e.text)>>)]
<1>0. one \in [ToolResults -> TurnsSaid] /\ ToolResults \subseteq Blocks
  BY ResultTurn, BlockSays
<1>1. <<>> \in Good
  <2>1. ResultTurns(<<>>) = <<>>
    BY DEF ResultTurns
  <2>2. Said("user", <<>>) \in Sides /\ Silent(Said("user", <<>>))
    <3>1. <<>> \in Seq(Blocks) /\ "user" \in {"user", "model"}
      OBVIOUS
    <3>. QED
      BY <3>1, SaidIs, GatherNone DEF Silent
  <2>3. <<>> \in Seq(ToolResults)
    OBVIOUS
  <2>. QED
    BY <2>1, <2>2, <2>3, CarriedNone
<1>2. ASSUME NEW r \in Seq(ToolResults), NEW e \in ToolResults, r \in Good
      PROVE  Append(r, e) \in Good
  <2>. DEFINE s == Append(r, e)
              a == Said("user", r)
              b == Said("user", <<e>>)
  <2>1. s \in Seq(ToolResults) /\ s = r \o <<e>>
    OBVIOUS
  <2>2. r \in Seq(Blocks) /\ <<e>> \in Seq(Blocks)
    BY <1>0
  <2>3. a.by = "user" /\ b.by = "user" /\ Said("user", r \o <<e>>) = Both(a, b)
    BY <2>2, SaidIs, SaidBoth
  <2>4. ResultTurns(s) = ResultTurns(r) \o <<one[e]>>
    <3>1. ResultTurns(r) = [i \in DOMAIN r |-> one[r[i]]]
      BY DEF ResultTurns
    <3>2. ResultTurns(s) = [i \in DOMAIN s |-> one[s[i]]]
      <4>1. \A i \in DOMAIN s : s[i] \in ToolResults
        BY <2>1
      <4>. HIDE DEF s
      <4>. QED
        BY <4>1 DEF ResultTurns
    <3>. HIDE DEF one
    <3>3. ResultTurns(r) \in Seq(TurnsSaid) /\ ResultTurns(s) = Append(ResultTurns(r), one[e])
      BY <1>0, <3>1, <3>2, EachIs, EachMore
    <3>4. one[e] \in TurnsSaid
      BY <1>0
    <3>. HIDE DEF s
    <3>. QED
      BY <3>3, <3>4
  <2>5. Carried(<<one[e]>>, b)
    <3>1. one[e] \in TurnsSaid /\ OfTurn(one[e]) = b
      BY ResultTurn
    <3>. HIDE DEF one, b
    <3>. QED
      BY <3>1, CarriedOne
  <2>6. Carried(ResultTurns(r), a)
    BY <1>2
  <2>. HIDE DEF a, b, one
  <2>7. Carried(ResultTurns(r) \o <<one[e]>>, Both(a, b))
    BY <2>3, <2>5, <2>6, CarriedBoth
  <2>8. Carried(ResultTurns(s), Said("user", s))
    <3>. HIDE DEF s
    <3>. QED
      BY <2>1, <2>3, <2>4, <2>7
  <2>. QED
    BY <2>1, <2>8
<1>. HIDE DEF Good
<1>3. \A s \in Seq(ToolResults) : s \in Good
  BY <1>1, <1>2, ListInduct
<1>. QED
  BY <1>3 DEF Good

(* The items of two lists of blocks, one after the other.                  *)
LEMMA FaithfulBoth ==
  ASSUME NEW g, Faithful(g), NEW s \in Seq(Blocks), NEW t \in Seq(Blocks)
  PROVE  [i \in DOMAIN (s \o t) |-> g[(s \o t)[i]]]
           = [i \in DOMAIN s |-> g[s[i]]] \o [i \in DOMAIN t |-> g[t[i]]]
<1>. DEFINE u == [i \in DOMAIN s |-> g[s[i]]]
            v == [i \in DOMAIN t |-> g[t[i]]]
            w == [i \in DOMAIN (s \o t) |-> g[(s \o t)[i]]]
            n == Len(s) + Len(t)
<1>0. g \in [Blocks -> Items]
  BY DEF Faithful
<1>1. /\ u \in Seq(Items) /\ Len(u) = Len(s) /\ v \in Seq(Items) /\ Len(v) = Len(t)
  <2>1. u \in Seq(Items) /\ Len(u) = Len(s)
    BY <1>0, EachIs
  <2>2. v \in Seq(Items) /\ Len(v) = Len(t)
    BY <1>0, EachIs
  <2>. QED
    BY <2>1, <2>2
<1>2. /\ s \o t \in Seq(Blocks) /\ Len(s \o t) = n /\ Len(s) \in Nat /\ Len(t) \in Nat /\ n \in Nat
      /\ \A i \in 1..n : (s \o t)[i] = IF i <= Len(s) THEN s[i] ELSE t[i - Len(s)]
  OBVIOUS
<1>3. DOMAIN (s \o t) = 1..n
  <2>. DEFINE q == s \o t
  <2>. HIDE DEF q, n
  <2>1. q \in Seq(Blocks) /\ Len(q) = n
    BY <1>2 DEF q
  <2>2. DOMAIN q = 1..n
    BY <2>1, LenProperties
  <2>. QED
    BY <2>2 DEF q
<1>4. \A i \in 1..n : w[i] = IF i <= Len(s) THEN g[s[i]] ELSE g[t[i - Len(s)]]
  BY <1>2, <1>3
<1>5. \A i \in 1..n : (u \o v)[i] = IF i <= Len(s) THEN g[s[i]] ELSE g[t[i - Len(s)]]
  <2>1. \A i \in 1..n : (u \o v)[i] = IF i <= Len(s) THEN u[i] ELSE v[i - Len(s)]
    <3>. HIDE DEF u, v
    <3>. QED
      BY <1>1, <1>2
  <2>2. /\ \A i \in 1..n : i <= Len(s) => i \in DOMAIN s
        /\ \A i \in 1..n : ~(i <= Len(s)) => i - Len(s) \in DOMAIN t
    BY <1>2
  <2>3. (\A i \in DOMAIN s : u[i] = g[s[i]]) /\ (\A i \in DOMAIN t : v[i] = g[t[i]])
    OBVIOUS
  <2>. HIDE DEF u, v
  <2>. QED
    BY <2>1, <2>2, <2>3
<1>6. u \o v = [i \in 1..n |-> (u \o v)[i]]
  <2>. HIDE DEF u, v
  <2>. DEFINE q == u \o v
  <2>1. q \in Seq(Items) /\ Len(q) = n
    <3>1. q \in Seq(Items) /\ Len(q) = Len(u) + Len(v)
      BY <1>1, ConcatProperties
    <3>. QED
      BY <1>1, <3>1
  <2>. HIDE DEF q, n
  <2>2. q \in [1..Len(q) -> Items]
    BY <2>1, LenProperties
  <2>3. q \in [1..n -> Items]
    BY <2>1, <2>2
  <2>4. q = [i \in 1..n |-> q[i]]
    BY <2>3
  <2>. QED
    BY <2>4 DEF q
<1>7. w = [i \in 1..n |-> w[i]]
  BY <1>3
<1>. HIDE DEF u, v, w, n
<1>8. \A i \in 1..n : w[i] = (u \o v)[i]
  BY <1>4, <1>5
<1>9. w = u \o v
  BY <1>6, <1>7, <1>8
<1>. QED
  BY <1>9, Zenon DEF u, v, w

(* What two lists of blocks say.                                           *)
LEMMA SaidParts ==
  ASSUME NEW s \in Seq(Blocks), NEW t \in Seq(Blocks)
  PROVE  /\ Gather(SaysOf, s \o t) = Gather(SaysOf, s) \o Gather(SaysOf, t)
         /\ Gather(CallsOf, s \o t) = Gather(CallsOf, s) \o Gather(CallsOf, t)
         /\ Gather(ToldOf, s \o t) = Gather(ToldOf, s) \o Gather(ToldOf, t)
         /\ Gather(ShowsOf, s \o t) = Gather(ShowsOf, s) \o Gather(ShowsOf, t)
<1>1. Gather(SaysOf, s \o t) = Gather(SaysOf, s) \o Gather(SaysOf, t)
  BY OfBlocks, GatherBoth
<1>2. Gather(CallsOf, s \o t) = Gather(CallsOf, s) \o Gather(CallsOf, t)
  BY OfBlocks, GatherBoth
<1>3. Gather(ToldOf, s \o t) = Gather(ToldOf, s) \o Gather(ToldOf, t)
  BY OfBlocks, GatherBoth
<1>4. Gather(ShowsOf, s \o t) = Gather(ShowsOf, s) \o Gather(ShowsOf, t)
  BY OfBlocks, GatherBoth
<1>. QED
  BY <1>1, <1>2, <1>3, <1>4

(* What is said beside the results of tools.                               *)
Beside(who, c) ==
  Side(who, Gather(SaysOf, c), Gather(CallsOf, c), <<>>, Gather(ShowsOf, c))

(* A side of results alone, and one of all but results.                    *)
LEMMA ResultsBeside ==
  ASSUME NEW who \in {"user", "model"}, NEW w \in Seq(Strings), NEW k \in Seq(Strings),
         NEW o \in Seq(Seq(Strings)), NEW h \in Seq(Kinds)
  PROVE  /\ Side(who, <<>>, <<>>, o, <<>>) \in Sides /\ Side(who, <<>>, <<>>, o, <<>>).by = who
         /\ Side(who, w, k, <<>>, h) \in Sides /\ Side(who, w, k, <<>>, h).by = who
<1>. DEFINE e == <<>>
<1>1. e \in Seq(Strings) /\ e \in Seq(Seq(Strings)) /\ e \in Seq(Kinds)
  OBVIOUS
<1>. HIDE DEF e
<1>2. Side(who, e, e, o, e) \in Sides /\ Side(who, e, e, o, e).by = who
  BY <1>1, SideIs
<1>3. Side(who, w, k, e, h) \in Sides /\ Side(who, w, k, e, h).by = who
  BY <1>1, SideIs
<1>. QED
  BY <1>2, <1>3 DEF e

(* What content says is its results, and what is beside them.              *)
LEMMA BesideIs ==
  ASSUME NEW who \in {"user", "model"}, NEW c \in Seq(Blocks)
  PROVE  LET r == OfKind(c, "tool_result") IN
         /\ Beside(who, c) \in Sides /\ Beside(who, c).by = who
         /\ Said(who, r) \in Sides /\ Said(who, r).by = who
         /\ Both(Said(who, r), Beside(who, c)) = Said(who, c)
<1>. DEFINE r == OfKind(c, "tool_result")
            w == Gather(SaysOf, c)
            k == Gather(CallsOf, c)
            o == Gather(ToldOf, c)
            h == Gather(ShowsOf, c)
<1>1. /\ w \in Seq(Strings) /\ k \in Seq(Strings) /\ o \in Seq(Seq(Strings)) /\ h \in Seq(Kinds)
      /\ Said(who, c) = Side(who, w, k, o, h)
  BY SaidIs DEF Said
<1>2. Said(who, r) = Side(who, <<>>, <<>>, o, <<>>)
  BY ResultsSaid DEF Said
<1>3. Beside(who, c) = Side(who, w, k, <<>>, h)
  BY DEF Beside
<1>. HIDE DEF w, k, o, h, r
<1>4. /\ <<>> \o w = w /\ <<>> \o k = k /\ o \o <<>> = o /\ <<>> \o h = h
      /\ <<>> \in Seq(Strings) /\ <<>> \in Seq(Seq(Strings)) /\ <<>> \in Seq(Kinds)
  BY <1>1
<1>5. /\ Side(who, <<>>, <<>>, o, <<>>) \in Sides /\ Side(who, <<>>, <<>>, o, <<>>).by = who
      /\ Side(who, w, k, <<>>, h) \in Sides /\ Side(who, w, k, <<>>, h).by = who
  <2>1. Side(who, <<>>, <<>>, o, <<>>) \in Sides /\ Side(who, <<>>, <<>>, o, <<>>).by = who
    BY <1>1, ResultsBeside
  <2>2. Side(who, w, k, <<>>, h) \in Sides /\ Side(who, w, k, <<>>, h).by = who
    BY <1>1, ResultsBeside
  <2>. QED
    BY <2>1, <2>2
<1>6. Both(Side(who, <<>>, <<>>, o, <<>>), Side(who, w, k, <<>>, h)) = Side(who, w, k, o, h)
  <2>1. Both(Side(who, <<>>, <<>>, o, <<>>), Side(who, w, k, <<>>, h))
          = Side(who, <<>> \o w, <<>> \o k, o \o <<>>, <<>> \o h)
    BY DEF Both, Side
  <2>. QED
    BY <1>4, <2>1
<1>. QED
  BY <1>1, <1>2, <1>3, <1>5, <1>6, Zenon DEF r

(* The turn that says the rest: its text, joined unless it shows something,*)
(* what it shows and its calls.                                            *)
LEMMA RestSaid ==
  ASSUME NEW who \in {"user", "model"}, NEW c \in Seq(Blocks)
  PROVE  LET texts == OfKind(c, "text")
             shown == ShownBlocks(c)
             calls == OfKind(c, "tool_use")
             x == IF shown = <<>> THEN <<Text(AnswerText(c))>> ELSE texts \o shown
         IN /\ x \in Seq(Blocks) /\ x \o calls \in Seq(Blocks)
            /\ Said(who, x \o calls) = Beside(who, c)
            /\ texts = <<>> /\ calls = <<>> /\ shown = <<>> => Silent(Beside(who, c))
<1>. DEFINE texts == OfKind(c, "text")
            shown == ShownBlocks(c)
            calls == OfKind(c, "tool_use")
            w == Gather(SaysOf, c)
            k == Gather(CallsOf, c)
            h == Gather(ShowsOf, c)
            x == IF shown = <<>> THEN <<Text(AnswerText(c))>> ELSE texts \o shown
<1>1. /\ texts \in Seq(Blocks) /\ Gather(SaysOf, texts) = w /\ Gather(CallsOf, texts) = <<>>
      /\ Gather(ToldOf, texts) = <<>> /\ Gather(ShowsOf, texts) = <<>>
  BY TextsSaid, KindKept
<1>2. /\ shown \in Seq(Blocks) /\ Gather(SaysOf, shown) = <<>> /\ Gather(CallsOf, shown) = <<>>
      /\ Gather(ToldOf, shown) = <<>> /\ Gather(ShowsOf, shown) = h
  BY MediaSaid
<1>3. /\ calls \in Seq(Blocks) /\ Gather(SaysOf, calls) = <<>> /\ Gather(CallsOf, calls) = k
      /\ Gather(ToldOf, calls) = <<>> /\ Gather(ShowsOf, calls) = <<>>
  BY CallsSaid, KindKept
<1>4. w \in Seq(Strings) /\ k \in Seq(Strings) /\ h \in Seq(Kinds)
  BY SaidIs
<1>5. AnswerText(c) = w
  <2>1. texts \in Seq({b \in Blocks : b.kind \in {"text"}})
    BY KindKept, KindIs
  <2>2. \A i \in DOMAIN texts : texts[i] \in Blocks /\ texts[i].kind = "text"
    <3>. HIDE DEF texts
    <3>1. \A i \in DOMAIN texts : texts[i] \in {b \in Blocks : b.kind \in {"text"}}
      BY <2>1
    <3>. QED
      BY <3>1
  <2>3. [i \in DOMAIN texts |-> texts[i].text] = [i \in DOMAIN texts |-> SaysOf[texts[i]]]
    <3>. HIDE DEF texts
    <3>. QED
      BY <2>2 DEF SaysOf
  <2>4. AnswerText(c) = FlattenSeq([i \in DOMAIN texts |-> texts[i].text])
    BY Zenon DEF AnswerText, Joined
  <2>5. AnswerText(c) = Gather(SaysOf, texts)
    <3>. HIDE DEF texts
    <3>. QED
      BY <2>3, <2>4, Zenon DEF Gather
  <2>. QED
    BY <1>1, <2>5
<1>6. /\ x \in Seq(Blocks) /\ Gather(SaysOf, x) = w /\ Gather(CallsOf, x) = <<>>
      /\ Gather(ToldOf, x) = <<>> /\ Gather(ShowsOf, x) = h
  <2>. HIDE DEF w, h, texts, shown
  <2>1. CASE shown = <<>>
    <3>. DEFINE b == Text(w)
    <3>1. x = <<b>>
      BY <1>5, <2>1
    <3>2. b \in Texts /\ b.text = w
      BY <1>4 DEF Text, Texts
    <3>3. b \in Blocks
      BY <3>2, BlockSays
    <3>. HIDE DEF b, x
    <3>4. h = <<>>
      BY <1>2, <2>1, GatherNone
    <3>5. SaysOf[b] = w /\ CallsOf[b] = <<>> /\ ToldOf[b] = <<>> /\ ShowsOf[b] = <<>>
      BY <3>2, BlockSays
    <3>6. x \in Seq(Blocks)
      BY <3>1, <3>3
    <3>. QED
      BY <3>1, <3>3, <3>4, <3>5, <3>6, OneBlock
  <2>2. CASE shown # <<>>
    <3>0. /\ Gather(SaysOf, texts \o shown) = Gather(SaysOf, texts) \o Gather(SaysOf, shown)
          /\ Gather(CallsOf, texts \o shown) = Gather(CallsOf, texts) \o Gather(CallsOf, shown)
          /\ Gather(ToldOf, texts \o shown) = Gather(ToldOf, texts) \o Gather(ToldOf, shown)
          /\ Gather(ShowsOf, texts \o shown) = Gather(ShowsOf, texts) \o Gather(ShowsOf, shown)
      BY <1>1, <1>2, SaidParts
    <3>1. x = texts \o shown
      BY <2>2
    <3>. HIDE DEF x
    <3>2. Gather(SaysOf, x) = w \o <<>> /\ w \o <<>> = w
      <4>1. Gather(SaysOf, x) = Gather(SaysOf, texts) \o Gather(SaysOf, shown)
        BY <3>0, <3>1
      <4>. QED
        BY <1>1, <1>2, <1>4, <4>1
    <3>3. Gather(CallsOf, x) = <<>>
      <4>1. Gather(CallsOf, x) = Gather(CallsOf, texts) \o Gather(CallsOf, shown)
        BY <3>0, <3>1
      <4>. QED
        BY <1>1, <1>2, <4>1
    <3>4. Gather(ToldOf, x) = <<>>
      <4>1. Gather(ToldOf, x) = Gather(ToldOf, texts) \o Gather(ToldOf, shown)
        BY <3>0, <3>1
      <4>. QED
        BY <1>1, <1>2, <4>1
    <3>5. Gather(ShowsOf, x) = <<>> \o h /\ <<>> \o h = h
      <4>1. Gather(ShowsOf, x) = Gather(ShowsOf, texts) \o Gather(ShowsOf, shown)
        BY <3>0, <3>1
      <4>. QED
        BY <1>1, <1>2, <1>4, <4>1
    <3>6. x \in Seq(Blocks)
      BY <1>1, <1>2, <3>1
    <3>. QED
      BY <3>2, <3>3, <3>4, <3>5, <3>6
  <2>. QED
    BY <2>1, <2>2
<1>. HIDE DEF x, calls
<1>7. x \o calls \in Seq(Blocks)
  BY <1>3, <1>6
<1>8. Said(who, x \o calls) = Beside(who, c)
  <2>1. Said(who, x \o calls) = Both(Said(who, x), Said(who, calls))
    BY <1>3, <1>6, SaidBoth
  <2>. HIDE DEF w, k, h
  <2>2. Said(who, x) = Side(who, w, <<>>, <<>>, h)
    BY <1>6, Zenon DEF Said
  <2>3. Said(who, calls) = Side(who, <<>>, k, <<>>, <<>>)
    BY <1>3, Zenon DEF Said
  <2>4. w \o <<>> = w /\ <<>> \o k = k /\ h \o <<>> = h /\ <<>> \o <<>> = <<>>
    BY <1>4
  <2>5. Both(Side(who, w, <<>>, <<>>, h), Side(who, <<>>, k, <<>>, <<>>))
          = Side(who, w \o <<>>, <<>> \o k, <<>> \o <<>>, h \o <<>>)
    BY DEF Both, Side
  <2>. QED
    BY <2>1, <2>2, <2>3, <2>4, <2>5, Zenon DEF Beside, w, k, h
<1>9. texts = <<>> /\ calls = <<>> /\ shown = <<>> => Silent(Beside(who, c))
  <2>. HIDE DEF w, k, h, texts, shown
  <2>1. SUFFICES ASSUME texts = <<>>, calls = <<>>, shown = <<>> PROVE Silent(Beside(who, c))
    OBVIOUS
  <2>2. w = <<>> /\ k = <<>> /\ h = <<>>
    BY <1>1, <1>2, <1>3, <2>1, GatherNone
  <2>3. Beside(who, c) = Side(who, w, k, <<>>, h)
    BY Zenon DEF Beside, w, k, h
  <2>. QED
    BY <2>2, <2>3 DEF Silent, Side
<1>. QED
  BY <1>6, <1>7, <1>8, <1>9 DEF x, calls

(* The turns made of a turn carry it, in chat completions.                 *)
LEMMA OpenAICarried ==
  ASSUME NEW m \in Turns
  PROVE  Carried(OpenAITurns(m), SideOf[m])
<1>. DEFINE c == m.content
            results == OfKind(c, "tool_result")
            texts == OfKind(c, "text")
            shown == ShownBlocks(c)
            calls == OfKind(c, "tool_use")
            x == IF shown = <<>> THEN <<Text(AnswerText(c))>> ELSE texts \o shown
            who == Speaker(m.role)
            some == texts # <<>> \/ calls # <<>> \/ shown # <<>>
            said == IF shown = <<>> THEN <<Says(AnswerText(c))>>
                    ELSE [i \in DOMAIN texts |-> Says(texts[i].text)]
                         \o [i \in DOMAIN shown |-> Shows(shown[i])]
            called == [i \in DOMAIN calls |-> Calls(calls[i].id, calls[i].name, calls[i].input)]
            f == AnthropicOf
<1>1. /\ m.role \in {"user", "assistant"} /\ c \in Seq(Blocks) /\ c \in Seq(Content(m.role))
      /\ who \in {"user", "model"}
      /\ SideOf[m] = Said(who, c) /\ WhoTurn(m.role) = who
  BY TurnIs DEF SideOf, WhoTurn, Speaker
<1>2. OpenAITurns(m) = ResultTurns(results) \o When(some, WireTurn(m.role, said \o called))
  BY Zenon DEF OpenAITurns, ResultTurns, ShownBlocks
<1>. HIDE DEF c, who
<1>3. /\ x \in Seq(Blocks) /\ x \o calls \in Seq(Blocks)
      /\ Said(who, x \o calls) = Beside(who, c)
      /\ ~some => Silent(Beside(who, c))
  BY <1>1, RestSaid
<1>4. /\ Beside(who, c) \in Sides /\ Beside(who, c).by = who
      /\ Said(who, results) \in Sides /\ Said(who, results).by = who
      /\ Both(Said(who, results), Beside(who, c)) = Said(who, c)
  BY <1>1, BesideIs
<1>5. /\ results \in Seq({b \in Blocks : b.kind \in {"tool_result"}})
      /\ texts \in Seq({b \in Blocks : b.kind \in {"text"}})
      /\ calls \in Seq({b \in Blocks : b.kind \in {"tool_use"}})
      /\ shown \in Seq({b \in Blocks : b.kind \in Kinds})
  <2>1. \A kind : OfKind(c, kind) = Gather(Keep({kind}), c)
    BY <1>1, KindKept, Zenon
  <2>2. shown = Gather(Keep(Kinds), c)
    BY <1>1, MediaSaid, Zenon
  <2>3. \A K : Gather(Keep(K), c) \in Seq({b \in Blocks : b.kind \in K})
    BY <1>1, KindIs, Zenon
  <2>4. /\ results \in Seq({b \in Blocks : b.kind \in {"tool_result"}})
        /\ texts \in Seq({b \in Blocks : b.kind \in {"text"}})
        /\ calls \in Seq({b \in Blocks : b.kind \in {"tool_use"}})
    BY <2>1, <2>3, Zenon
  <2>. QED
    BY <2>2, <2>3, <2>4, Zenon
<1>. HIDE DEF results, texts, calls, shown
<1>6. Carried(ResultTurns(results), Said(who, results))
  <2>1. {b \in Blocks : b.kind \in {"tool_result"}} \subseteq ToolResults
    BY BlockIs
  <2>2. results \in Seq(ToolResults)
    BY <1>5, <2>1
  <2>3. CASE who = "user"
    BY <2>2, <2>3, ResultsCarried
  <2>4. CASE who = "model"
    <3>1. m.role = "assistant"
      BY <1>1, <2>4 DEF who, Speaker
    <3>2. results = <<>>
      <4>1. c \in Seq(Texts \cup ToolUses)
        BY <1>1, <3>1 DEF Content
      <4>2. \A i \in DOMAIN c : c[i] \in Texts \cup ToolUses
        BY <4>1
      <4>3. \A i \in DOMAIN c : c[i] \in Blocks /\ c[i].kind # "tool_result"
        BY <4>2 DEF Blocks, Texts, ToolUses
      <4>4. \A i \in DOMAIN c : Keep({"tool_result"})[c[i]] = <<>>
        BY <4>3, KeepMaps
      <4>5. Gather(Keep({"tool_result"}), c) = <<>>
        BY <1>1, <4>4, KeepMaps, GatherNothing
      <4>. QED
        BY <1>1, <4>5, KindKept DEF results
    <3>3. ResultTurns(results) = <<>>
      BY <3>2 DEF ResultTurns
    <3>4. Silent(Said(who, results))
      <4>1. Said(who, <<>>) = Side(who, <<>>, <<>>, <<>>, <<>>)
        BY GatherNone DEF Said
      <4>. QED
        BY <3>2, <4>1 DEF Silent, Side
    <3>. QED
      BY <1>4, <3>3, <3>4, CarriedNone
  <2>. QED
    BY <1>1, <2>3, <2>4
<1>7. Carried(When(some, WireTurn(m.role, said \o called)), Beside(who, c))
  <2>1. CASE ~some
    <3>1. When(some, WireTurn(m.role, said \o called)) = <<>>
      BY <2>1 DEF When
    <3>. HIDE DEF some
    <3>. QED
      BY <1>3, <1>4, <2>1, <3>1, CarriedNone
  <2>2. CASE some
    <3>1. When(some, WireTurn(m.role, said \o called)) = <<WireTurn(m.role, said \o called)>>
      BY <2>2 DEF When
    <3>. HIDE DEF some
    <3>2. f \in [Blocks -> Items] /\ \A b \in Blocks : f[b] = AnthropicItem(b)
      BY AnthropicFaithful DEF Faithful, AnthropicOf
    <3>3. /\ texts \in Seq(Blocks) /\ shown \in Seq(Blocks) /\ calls \in Seq(Blocks)
          /\ \A i \in DOMAIN texts : texts[i] \in Blocks /\ texts[i].kind = "text"
          /\ \A i \in DOMAIN shown : shown[i] \in Blocks /\ shown[i].kind \in Kinds
          /\ \A i \in DOMAIN calls : calls[i] \in Blocks /\ calls[i].kind = "tool_use"
      <4>1. /\ \A i \in DOMAIN texts : texts[i] \in {b \in Blocks : b.kind \in {"text"}}
            /\ \A i \in DOMAIN shown : shown[i] \in {b \in Blocks : b.kind \in Kinds}
            /\ \A i \in DOMAIN calls : calls[i] \in {b \in Blocks : b.kind \in {"tool_use"}}
        BY <1>5
      <4>2. texts \in Seq(Blocks) /\ shown \in Seq(Blocks) /\ calls \in Seq(Blocks)
        BY <1>5
      <4>. QED
        BY <4>1, <4>2
    <3>. HIDE DEF f
    <3>10. m.role \in {"user", "assistant", "model", "tool"} /\ Faithful(f)
      BY <1>1, AnthropicFaithful DEF f
    <3>4. [i \in DOMAIN texts |-> Says(texts[i].text)] = [i \in DOMAIN texts |-> f[texts[i]]]
      BY <3>2, <3>3 DEF AnthropicItem
    <3>5. [i \in DOMAIN shown |-> Shows(shown[i])] = [i \in DOMAIN shown |-> f[shown[i]]]
      BY <3>2, <3>3 DEF AnthropicItem, Kinds
    <3>6. called = [i \in DOMAIN calls |-> f[calls[i]]]
      BY <3>2, <3>3 DEF AnthropicItem
    <3>7. said = [i \in DOMAIN x |-> f[x[i]]]
      <4>1. CASE shown = <<>>
        <5>. DEFINE b == Text(AnswerText(c))
        <5>1. said = <<Says(AnswerText(c))>> /\ x = <<b>>
          BY <4>1
        <5>. HIDE DEF x
        <5>2. b.kind = "text" /\ b.text = AnswerText(c)
          BY DEF Text
        <5>3. b \in Blocks
          <6>. HIDE DEF b
          <6>1. <<b>> \in Seq(Blocks)
            BY <1>3, <5>1
          <6>. QED
            BY <6>1
        <5>4. f[b] = Says(AnswerText(c))
          <6>. HIDE DEF b
          <6>. QED
            BY <3>2, <5>2, <5>3 DEF AnthropicItem
        <5>. HIDE DEF b, said
        <5>. QED
          BY <5>1, <5>4
      <4>2. CASE shown # <<>>
        <5>1. x = texts \o shown
          BY <4>2
        <5>2. said = [i \in DOMAIN texts |-> f[texts[i]]] \o [i \in DOMAIN shown |-> f[shown[i]]]
          BY <3>4, <3>5, <4>2
        <5>3. [i \in DOMAIN (texts \o shown) |-> f[(texts \o shown)[i]]]
                = [i \in DOMAIN texts |-> f[texts[i]]] \o [i \in DOMAIN shown |-> f[shown[i]]]
          BY <3>3, <3>10, FaithfulBoth
        <5>. HIDE DEF x, said
        <5>. QED
          BY <5>1, <5>2, <5>3, Zenon
      <4>. QED
        BY <4>1, <4>2
    <3>. DEFINE y == x \o calls
    <3>. HIDE DEF x, said, called
    <3>8. said \o called = [i \in DOMAIN y |-> f[y[i]]]
      <4>1. [i \in DOMAIN (x \o calls) |-> f[(x \o calls)[i]]]
              = [i \in DOMAIN x |-> f[x[i]]] \o [i \in DOMAIN calls |-> f[calls[i]]]
        BY <1>3, <3>3, <3>10, FaithfulBoth
      <4>. QED
        BY <3>6, <3>7, <4>1, Zenon
    <3>. HIDE DEF y
    <3>9. y \in Seq(Blocks) /\ Said(who, y) = Beside(who, c)
      BY <1>3 DEF y
    <3>11. Carried(<<WireTurn(m.role, [i \in DOMAIN y |-> f[y[i]]])>>, Said(WhoTurn(m.role), y))
      BY <3>9, <3>10, TurnCarried
    <3>. QED
      BY <1>1, <3>1, <3>8, <3>9, <3>11
  <2>. QED
    BY <2>1, <2>2
<1>. HIDE DEF some, said, called
<1>8. Carried(OpenAITurns(m), Both(Said(who, results), Beside(who, c)))
  BY <1>2, <1>4, <1>6, <1>7, CarriedBoth
<1>. QED
  BY <1>1, <1>4, <1>8

-----------------------------------------------------------------------------
(* The body made of a asks *)

(* Where every turn is carried, all that was heard is.                     *)
LEMMA TurnsCarried ==
  ASSUME NEW f, Maps(f, Turns, TurnsSaid), \A m \in Turns : Carried(f[m], SideOf[m]),
         NEW s \in Seq(WireTurns), Sided(OfTurns(s)) = <<>>
  PROVE  \A ms \in Seq(Turns) : Sided(OfTurns(s \o Gather(f, ms))) = Heard(ms)
<1>. DEFINE Good == {ms \in Seq(Turns) : Sided(OfTurns(s \o Gather(f, ms))) = Heard(ms)}
<1>1. <<>> \in Good
  <2>1. s \o Gather(f, <<>>) = s
    BY GatherNone
  <2>2. Heard(<<>>) = <<>>
    <3>1. [i \in DOMAIN <<>> |-> SideOf[<<>>[i]]] = <<>>
      OBVIOUS
    <3>. QED
      BY <3>1, SidedNone DEF Heard
  <2>3. <<>> \in Seq(Turns)
    OBVIOUS
  <2>. QED
    BY <2>1, <2>2, <2>3
<1>2. ASSUME NEW r \in Seq(Turns), NEW e \in Turns, r \in Good
      PROVE  Append(r, e) \in Good
  <2>. DEFINE g == Gather(f, r)
              t == Append(r, e)
  <2>1. Gather(f, t) = g \o f[e] /\ g \in Seq(TurnsSaid)
    BY GatherMore
  <2>2. Carried(f[e], SideOf[e]) /\ f[e] \in Seq(TurnsSaid)
    BY DEF Carried
  <2>3. TurnsSaid \subseteq WireTurns
    BY DEF TurnsSaid
  <2>4. Sided(OfTurns(s \o g)) = Heard(r)
    BY <1>2
  <2>5. Heard(t) = Joins(Heard(r), SideOf[e])
    BY HeardMore
  <2>6. t \in Seq(Turns)
    OBVIOUS
  <2>. DEFINE n == f[e]
  <2>. HIDE DEF g, t, n
  <2>7. g \in Seq(WireTurns) /\ n \in Seq(WireTurns)
    BY <2>1, <2>2, <2>3 DEF n
  <2>8. s \o (g \o n) = (s \o g) \o n /\ s \o g \in Seq(WireTurns)
    BY <2>7
  <2>9. Sided(OfTurns((s \o g) \o n)) = Joins(Sided(OfTurns(s \o g)), SideOf[e])
    BY <2>2, <2>8 DEF Carried, n
  <2>10. Sided(OfTurns(s \o Gather(f, t))) = Heard(t)
    BY <2>1, <2>4, <2>5, <2>8, <2>9, Zenon DEF n
  <2>. QED
    BY <2>6, <2>10 DEF t
<1>. HIDE DEF Good
<1>3. \A ms \in Seq(Turns) : ms \in Good
  BY <1>1, <1>2, ListInduct
<1>. QED
  BY <1>3 DEF Good

(* What is in front is the system's, and says nothing in the conversation. *)
LEMMA SystemTurn ==
  ASSUME NEW w \in Seq(Strings)
  PROVE  LET t == WireTurn("system", <<Says(w)>>) IN
         /\ t \in WireTurns /\ t.role = "system" /\ Sided(OfTurns(<<t>>)) = <<>>
<1>. DEFINE t == WireTurn("system", <<Says(w)>>)
            r == <<>>
<1>1. <<Says(w)>> \in Seq(Items)
  <2>. DEFINE it == Says(w)
  <2>1. it \in Items
    BY ItemIs
  <2>. HIDE DEF it
  <2>2. <<it>> \in Seq(Items)
    BY <2>1
  <2>. QED
    BY <2>2 DEF it
<1>2. t \in WireTurns /\ t.role = "system"
  <2>1. "system" \in {"system", "user", "assistant", "model", "tool"}
    OBVIOUS
  <2>. QED
    BY <1>1, <2>1, WireTurnIs
<1>3. OfTurn(t) = Nothing
  BY <1>2 DEF OfTurn
<1>. HIDE DEF t
<1>4. /\ Sided(OfTurns(Append(r, t))) = Joins(Sided(OfTurns(r)), OfTurn(t))
      /\ Append(r, t) = <<t>> /\ OfTurns(r) = <<>>
  <2>1. r \in Seq(WireTurns) /\ Append(r, t) = <<t>> /\ OfTurns(r) = <<>>
    BY DEF OfTurns
  <2>. HIDE DEF r
  <2>. QED
    BY <1>2, <2>1, OfTurnsMore
<1>5. \A s : Joins(s, Nothing) = s
  BY DEF Joins, Silent, Nothing, Side
<1>. QED
  BY <1>2, <1>3, <1>4, <1>5, SidedNone DEF t

(* The turns of a request as a vendor is to hear them.                     *)
RightTurns(turns, asks) ==
  /\ Sided(OfTurns(turns)) = Heard(asks.messages)
  /\ asks.system # None <=> turns # <<>> /\ turns[1].role = "system"
  /\ \A i \in DOMAIN turns : turns[i].role = "system" => i = 1

(* A body of these turns, with the system's in front if it spoke.          *)
LEMMA SentCarried ==
  ASSUME NEW f, Maps(f, Turns, TurnsSaid), \A m \in Turns : Carried(f[m], SideOf[m]),
         NEW asks, asks.messages \in Seq(Turns),
         asks.system = None \/ \E w \in Seq(Strings) : asks.system = Some(w),
         NEW taken, NEW settings, NEW body,
         body = Sent(asks, AllTurns(taken, [i \in DOMAIN asks.messages |->
                                                 f[asks.messages[i]]]), settings),
         body # None
  PROVE  RightTurns(body[1].turns, asks)
<1>. DEFINE ms == asks.messages
            g == Gather(f, ms)
            y == When(asks.system # None,
                      WireTurn("system", <<Says(Or(asks.system, <<>>))>>))
            turns == body[1].turns
<1>1. g \in Seq(TurnsSaid)
  BY GatherIs
<1>2. turns = y \o g
  <2>1. AllTurns(taken, [i \in DOMAIN ms |-> f[ms[i]]]) \in {None, Some(g)}
    BY Zenon DEF AllTurns, Gather
  <2>2. body = IF AllTurns(taken, [i \in DOMAIN ms |-> f[ms[i]]]) = None THEN None
               ELSE Some(Body(y \o AllTurns(taken, [i \in DOMAIN ms |-> f[ms[i]]])[1], settings))
    BY Zenon DEF Sent
  <2>. DEFINE a == AllTurns(taken, [i \in DOMAIN ms |-> f[ms[i]]])
  <2>. HIDE DEF g, y, a, ms
  <2>3. a = Some(g) /\ body = Some(Body(y \o a[1], settings))
    BY <2>1, <2>2 DEF a
  <2>4. a[1] = g
    BY <2>3 DEF Some
  <2>5. body = <<Body(y \o g, settings)>>
    BY <2>3, <2>4 DEF Some
  <2>6. body[1] = Body(y \o g, settings)
    BY <2>5
  <2>7. Body(y \o g, settings).turns = y \o g
    BY DEF Body
  <2>. QED
    BY <2>6, <2>7
<1>3. TurnsSaid \subseteq WireTurns /\ \A t \in TurnsSaid : t.role # "system"
  BY DEF TurnsSaid
<1>4. \A i \in DOMAIN g : g[i].role # "system"
  <2>. HIDE DEF g
  <2>. QED
    BY <1>1, <1>3
<1>5. CASE asks.system = None
  <2>1. y = <<>>
    BY <1>5 DEF When
  <2>2. turns = g
    <3>. HIDE DEF g, y, turns
    <3>. QED
      BY <1>1, <1>2, <2>1
  <2>. DEFINE s == <<>>
  <2>3. s \in Seq(WireTurns) /\ OfTurns(s) = <<>>
    BY DEF OfTurns
  <2>4. s \o g = g
    <3>. HIDE DEF g
    <3>. QED
      BY <1>1
  <2>. HIDE DEF s
  <2>5. Sided(OfTurns(s \o g)) = Heard(ms)
    BY <2>3, SidedNone, TurnsCarried
  <2>6. ~(g # <<>> /\ g[1].role = "system")
    <3>. HIDE DEF g
    <3>. QED
      BY <1>1, <1>4
  <2>. HIDE DEF g, turns
  <2>. QED
    BY <1>4, <1>5, <2>2, <2>4, <2>5, <2>6 DEF turns, RightTurns, ms
<1>6. CASE \E w \in Seq(Strings) : asks.system = Some(w)
  <2>1. PICK w \in Seq(Strings) : asks.system = Some(w)
    BY <1>6
  <2>. DEFINE t == WireTurn("system", <<Says(w)>>)
  <2>2. asks.system # None /\ Or(asks.system, <<>>) = w
    BY <2>1 DEF Some, None, Or
  <2>3. y = <<t>>
    BY <2>2, Zenon DEF When
  <2>4. t \in WireTurns /\ t.role = "system" /\ Sided(OfTurns(<<t>>)) = <<>>
    BY SystemTurn
  <2>. HIDE DEF t, y
  <2>. DEFINE s == <<t>>
  <2>5. s \in Seq(WireTurns) /\ Sided(OfTurns(s)) = <<>>
    BY <2>4
  <2>6. turns = s \o g
    BY <1>2, <2>3
  <2>7. /\ turns # <<>> /\ turns[1] = t
        /\ \A i \in DOMAIN turns : i # 1 => i - 1 \in DOMAIN g /\ turns[i] = g[i - 1]
    <3>1. g \in Seq(WireTurns)
      BY <1>1, <1>3
    <3>. HIDE DEF g, turns
    <3>. QED
      BY <2>4, <2>6, <3>1
  <2>. HIDE DEF s
  <2>8. Sided(OfTurns(s \o g)) = Heard(ms)
    BY <2>5, TurnsCarried
  <2>. HIDE DEF g, turns
  <2>. QED
    BY <1>4, <2>2, <2>4, <2>6, <2>7, <2>8 DEF turns, RightTurns, ms
<1>. QED
  BY <1>5, <1>6

VendorTurns(vendor) ==
  [m \in Turns |-> CASE vendor = "openai" -> OpenAITurns(m)
                     [] vendor = "gemini" -> GeminiTurns(m)
                     [] OTHER -> AnthropicTurns(m)]

(* Every vendor's turns carry the turn they are made of.                   *)
LEMMA VendorCarried ==
  ASSUME NEW vendor
  PROVE  /\ Maps(VendorTurns(vendor), Turns, TurnsSaid)
         /\ \A m \in Turns : Carried(VendorTurns(vendor)[m], SideOf[m])
<1>. DEFINE f == VendorTurns(vendor)
<1>1. ASSUME NEW m \in Turns
      PROVE  Carried(f[m], SideOf[m])
  <2>1. CASE vendor = "openai"
    <3>1. f[m] = OpenAITurns(m)
      BY <2>1 DEF VendorTurns
    <3>. QED
      BY <3>1, OpenAICarried
  <2>2. CASE vendor = "gemini"
    <3>1. f[m] = GeminiTurns(m)
      BY <2>2 DEF VendorTurns
    <3>. QED
      BY <3>1, GeminiCarried
  <2>3. CASE vendor \notin {"openai", "gemini"}
    <3>1. f[m] = AnthropicTurns(m)
      BY <2>3 DEF VendorTurns
    <3>. QED
      BY <3>1, AnthropicCarried
  <2>. QED
    BY <2>1, <2>2, <2>3
<1>2. \A m \in Turns : f[m] \in Seq(TurnsSaid)
  BY <1>1 DEF Carried
<1>3. f = [m \in Turns |-> f[m]]
  BY DEF VendorTurns
<1>. HIDE DEF f
<1>4. Maps(f, Turns, TurnsSaid)
  BY <1>2, <1>3 DEF Maps
<1>. QED
  BY <1>1, <1>4 DEF f

(* A body says what was read, after the system if it spoke.                *)
LEMMA BodyCarried ==
  ASSUME NEW vendor, NEW asks, asks.messages \in Seq(Turns),
         asks.system = None \/ \E w \in Seq(Strings) : asks.system = Some(w),
         VendorBodyOf(vendor, asks) # None
  PROVE  RightTurns(VendorBodyOf(vendor, asks)[1].turns, asks)
<1>. DEFINE f == VendorTurns(vendor)
            ms == asks.messages
            body == VendorBodyOf(vendor, asks)
            turns == [i \in DOMAIN ms |-> f[ms[i]]]
<1>0. \A i \in DOMAIN ms : ms[i] \in Turns
  OBVIOUS
<1>1. \E taken, settings : body = Sent(asks, AllTurns(taken, turns), settings)
  <2>1. CASE vendor = "openai"
    <3>1. turns = [i \in DOMAIN ms |-> OpenAITurns(ms[i])]
      BY <1>0, <2>1 DEF VendorTurns
    <3>. HIDE DEF f
    <3>2. body = OpenAIBodyOf(asks)
      BY <2>1 DEF VendorBodyOf
    <3>. QED
      BY <3>1, <3>2, Zenon DEF OpenAIBodyOf
  <2>2. CASE vendor = "gemini"
    <3>1. turns = [i \in DOMAIN ms |-> GeminiTurns(ms[i])]
      BY <1>0, <2>2 DEF VendorTurns
    <3>. HIDE DEF f
    <3>2. body = GeminiBodyOf(asks)
      BY <2>2 DEF VendorBodyOf
    <3>. QED
      BY <3>1, <3>2, Zenon DEF GeminiBodyOf
  <2>3. CASE vendor \notin {"openai", "gemini"}
    <3>1. turns = [i \in DOMAIN ms |-> AnthropicTurns(ms[i])]
      BY <1>0, <2>3 DEF VendorTurns
    <3>. HIDE DEF f
    <3>. DEFINE taken == \A block \in BlocksOf(asks) : AnthropicTakes(block)
                max == Or(asks.max, 4096)
                settings == [Asked(asks) EXCEPT
                   !.max = Some(max), !.schema = None,
                   !.reasoning = IF asks.thinking \in DOMAIN AnthropicBudget
                                 THEN Some(AnthropicReasoning(asks.thinking, max)) ELSE None]
    <3>2. body = Sent(asks, AllTurns(taken, [i \in DOMAIN ms |-> AnthropicTurns(ms[i])]), settings)
      <4>1. body = AnthropicBodyOf(asks)
        BY <2>3 DEF VendorBodyOf
      <4>. HIDE DEF body
      <4>2. AnthropicBodyOf(asks) =
              Sent(asks, AllTurns(taken, [i \in DOMAIN ms |-> AnthropicTurns(ms[i])]), settings)
        BY Zenon DEF AnthropicBodyOf
      <4>. QED
        BY <4>1, <4>2
    <3>. HIDE DEF settings, taken, body, turns
    <3>. QED
      BY <3>1, <3>2, Zenon
  <2>. QED
    BY <2>1, <2>2, <2>3
<1>2. PICK taken, settings : body = Sent(asks, AllTurns(taken, turns), settings)
  BY <1>1
<1>3. Maps(f, Turns, TurnsSaid) /\ \A m \in Turns : Carried(f[m], SideOf[m])
  BY VendorCarried
<1>4. body # None
  OBVIOUS
<1>. HIDE DEF f, body
<1>5. RightTurns(body[1].turns, asks)
  BY <1>2, <1>3, <1>4, SentCarried
<1>. QED
  BY <1>5 DEF body

(* What is read of a body that is not refused, and what a vendor is sent.  *)
LEMMA RequestCarried ==
  ASSUME NEW body, Spelt(body), NEW S, \A m \in S : SpeltMessage(m), body.messages \in Seq(S),
         ReadRequest(body).param = None, NEW vendor,
         VendorBodyOf(vendor, ReadRequest(body)) # None
  PROVE  SameConversation(VendorBodyOf(vendor, ReadRequest(body))[1].turns, body.messages)
<1>. DEFINE ms == body.messages
            read == ReadMessages(ms)
            asks == ReadRequest(body)
            turns == VendorBodyOf(vendor, asks)[1].turns
<1>1. Faults(body) = <<>>
  <2>1. SUFFICES ASSUME Faults(body) # <<>> PROVE FALSE
    OBVIOUS
  <2>2. ReadRequest(body).param = Some(Head(Faults(body)))
    BY <2>1 DEF ReadRequest
  <2>. QED
    BY <2>2, SomeHas, Zenon
<1>2. ~read.wrong
  BY ReadIs DEF Faultless
<1>3. /\ asks.messages = read.messages
      /\ asks.system = When(read.system # <<>>, FlattenSeq(read.system))
  BY <1>1 DEF ReadRequest
<1>4. ReadsTrue(ms)
  BY ConversationRead
<1>. HIDE DEF asks
<1>5. /\ read.messages \in Seq(Turns) /\ read.system \in Seq(Seq(Strings))
      /\ Heard(read.messages) = Sided([i \in DOMAIN ms |-> OfMessage(ms[i])])
      /\ read.system # <<>> <=> \E i \in DOMAIN ms : ms[i].role \in ForSystem
  <2>. HIDE DEF ms
  <2>. QED
    BY <1>2, <1>4, ReadingIs DEF ReadsTrue
<1>. HIDE DEF read
<1>6. \/ read.system = <<>> /\ asks.system = None
      \/ read.system # <<>> /\ asks.system # None /\ \E w \in Seq(Strings) : asks.system = Some(w)
  <2>1. FlattenSeq(read.system) \in Seq(Strings)
    BY <1>5, FlattenIs
  <2>. DEFINE w == FlattenSeq(read.system)
  <2>. HIDE DEF w
  <2>2. asks.system = IF read.system # <<>> THEN <<w>> ELSE <<>>
    BY <1>3, Zenon DEF When, w
  <2>. QED
    BY <2>1, <2>2 DEF Some, None, w
<1>7. RightTurns(turns, asks)
  <2>1. asks.messages \in Seq(Turns)
    BY <1>3, <1>5
  <2>2. VendorBodyOf(vendor, asks) # None
    BY DEF asks
  <2>. QED
    BY <1>6, <2>1, <2>2, BodyCarried
<1>. HIDE DEF turns
<1>8. SameConversation(turns, ms)
  BY <1>3, <1>5, <1>6, <1>7, Zenon DEF SameConversation, RightTurns, OfTurns, ForSystem
<1>. QED
  BY <1>8 DEF turns, asks

-----------------------------------------------------------------------------
(* What a client is told is made of strings, if what the vendor said is    *)

(* A list of calls is made of strings where each of them is, and has a name.*)
CallList(s) ==
  s \in Seq(ToSet(s)) /\ \A i \in DOMAIN s : SpeltCall(s[i]) /\ HasName(s[i])

(* The arguments of a call, as JSON or as what they were.                  *)
LEMMA ArgumentsAre ==
  /\ \A s \in Seq(Strings) : ToStr(FromStr(s)) \in Seq(Strings)
  /\ ToStr(EmptyObject) \in Seq(Strings)
<1>1. ASSUME NEW s \in Seq(Strings) PROVE ToStr(FromStr(s)) \in Seq(Strings)
  <2>1. /\ "json" \in DOMAIN [json |-> s] /\ [json |-> s].json = s
        /\ \A x : "json" \notin DOMAIN [raw |-> x] /\ [raw |-> x].raw = x
    OBVIOUS
  <2>2. \A x \in Seq(Strings) : <<"{raw:">> \o x \o <<"}">> \in Seq(Strings)
    <3>. DEFINE a == "{raw:"
                b == "}"
    <3>1. a \in Strings /\ b \in Strings
      BY DEF Strings
    <3>. HIDE DEF a, b
    <3>2. \A x \in Seq(Strings) : <<a>> \o x \o <<b>> \in Seq(Strings)
      BY <3>1
    <3>. QED
      BY <3>2 DEF a, b
  <2>3. \A x \in Seq(Strings) : ToStr([raw |-> x]) \in Seq(Strings)
    <3>. SUFFICES ASSUME NEW x \in Seq(Strings)
                  PROVE  ToStr([raw |-> x]) \in Seq(Strings)
      OBVIOUS
    <3>1. ToStr([raw |-> x]) = <<"{raw:">> \o x \o <<"}">>
      BY <2>1 DEF ToStr
    <3>. QED
      BY <2>2, <3>1
  <2>4. ToStr([json |-> s]) \in Seq(Strings)
    BY <2>1 DEF ToStr
  <2>5. CASE WellFormed(s) /\ Head(s) = "{raw:"
    <3>1. FromStr(s) = [raw |-> Front(Tail(s))]
      BY <2>5 DEF FromStr
    <3>2. Front(Tail(s)) \in Seq(Strings)
      <4>1. Len(s) >= 2
        BY <2>5 DEF WellFormed
      <4>2. Tail(s) \in Seq(Strings) /\ Len(Tail(s)) = Len(s) - 1
        BY <4>1
      <4>. DEFINE t == Tail(s)
      <4>. HIDE DEF t
      <4>3. t \in Seq(Strings) /\ Len(t) \in Nat \ {0}
        BY <4>1, <4>2 DEF t
      <4>4. SubSeq(t, 1, Len(t) - 1) \in Seq(Strings)
        BY <4>3
      <4>. QED
        BY <4>4 DEF Front, t
    <3>. QED
      BY <2>3, <3>1, <3>2
  <2>6. CASE ~(WellFormed(s) /\ Head(s) = "{raw:") /\ WellFormed(s) /\ Head(s) = "{"
    BY <2>4, <2>6 DEF FromStr
  <2>7. CASE ~(WellFormed(s) /\ Head(s) = "{raw:") /\ ~(WellFormed(s) /\ Head(s) = "{")
    BY <2>3, <2>7 DEF FromStr
  <2>. QED
    BY <2>5, <2>6, <2>7
<1>2. ToStr(EmptyObject) \in Seq(Strings)
  <2>1. EmptyObject.json = <<"{", "}">> /\ "json" \in DOMAIN EmptyObject
    BY DEF EmptyObject
  <2>2. <<"{", "}">> \in Seq(Strings)
    <3>. DEFINE a == "{"
                b == "}"
    <3>1. a \in Strings /\ b \in Strings
      BY DEF Strings
    <3>. HIDE DEF a, b
    <3>2. <<a, b>> \in Seq(Strings)
      BY <3>1
    <3>. QED
      BY <3>2 DEF a, b
  <2>. QED
    BY <2>1, <2>2 DEF ToStr
<1>. QED
  BY <1>1, <1>2

(* An event is made of strings where it adds to what a client is told.     *)
SpeltEvent(e) ==
  /\ e.is = "text" => e.text \in Seq(Strings)
  /\ e.is = "tool" => e.id \in Strings /\ e.name \in Strings
  /\ e.is = "arguments" => e.piece \in Seq(Strings)
EventList(s) == s \in Seq(ToSet(s)) /\ \A i \in DOMAIN s : SpeltEvent(s[i])

(* Which of the events a reply can be read in are, and when.               *)
LEMMA EventIs ==
  /\ \A x : /\ SpeltEvent(Started(x)) /\ SpeltEvent(ThinkingDelta(x))
            /\ SpeltEvent(ThinkingSignature(x)) /\ SpeltEvent(Metered(x))
  /\ \A x, y : SpeltEvent(Stopped(x, y))
  /\ \A t \in Seq(Strings) : SpeltEvent(TextDelta(t)) /\ SpeltEvent(ToolArgumentsDelta(t))
  /\ \A id \in Strings, name \in Strings : SpeltEvent(ToolUseStarted(id, name))
<1>1. \A x : /\ SpeltEvent(Started(x)) /\ SpeltEvent(ThinkingDelta(x))
             /\ SpeltEvent(ThinkingSignature(x)) /\ SpeltEvent(Metered(x))
  BY DEF SpeltEvent, Started, ThinkingDelta, ThinkingSignature, Metered
<1>2. \A x, y : SpeltEvent(Stopped(x, y))
  BY DEF SpeltEvent, Stopped
<1>3. \A t \in Seq(Strings) : SpeltEvent(TextDelta(t)) /\ SpeltEvent(ToolArgumentsDelta(t))
  BY DEF SpeltEvent, TextDelta, ToolArgumentsDelta
<1>4. \A id \in Strings, name \in Strings : SpeltEvent(ToolUseStarted(id, name))
  BY DEF SpeltEvent, ToolUseStarted
<1>. QED
  BY <1>1, <1>2, <1>3, <1>4

(* A list of events that are made of strings,                              *)
LEMMA EventsAre ==
  ASSUME NEW S, \A e \in S : SpeltEvent(e), NEW s \in Seq(S)
  PROVE  EventList(s)
<1>1. s \in Seq(ToSet(s)) /\ \A i \in DOMAIN s : s[i] \in S
  BY ListOfItself
<1>. QED
  BY <1>1 DEF EventList

(* of none of them,                                                        *)
LEMMA EventsNone ==
  EventList(<<>>)
<1>1. <<>> \in Seq({})
  OBVIOUS
<1>. QED
  BY <1>1, EventsAre

(* of one,                                                                 *)
LEMMA EventsOne ==
  ASSUME NEW e, SpeltEvent(e)
  PROVE  EventList(<<e>>)
<1>1. <<e>> \in Seq({e}) /\ \A x \in {e} : SpeltEvent(x)
  OBVIOUS
<1>. QED
  BY <1>1, EventsAre, Zenon

(* of one or none, by a condition,                                         *)
LEMMA EventsWhen ==
  ASSUME NEW condition, NEW e, condition => SpeltEvent(e)
  PROVE  EventList(When(condition, e))
<1>1. CASE condition
  BY <1>1, EventsOne, Zenon DEF When
<1>2. CASE ~condition
  BY <1>2, EventsNone, Zenon DEF When
<1>. QED
  BY <1>1, <1>2

(* and of two lists, one after the other.                                  *)
LEMMA EventsBoth ==
  ASSUME NEW s, NEW t, EventList(s), EventList(t)
  PROVE  EventList(s \o t)
<1>. DEFINE S == ToSet(s) \cup ToSet(t)
<1>1. \A e \in S : SpeltEvent(e)
  BY Zenon DEF EventList, ToSet
<1>2. s \in Seq(S) /\ t \in Seq(S)
  <2>1. s \in Seq(ToSet(s)) /\ t \in Seq(ToSet(t))
    BY DEF EventList
  <2>2. ToSet(s) \subseteq S /\ ToSet(t) \subseteq S
    OBVIOUS
  <2>. HIDE DEF S
  <2>. QED
    BY <2>1, <2>2
<1>. HIDE DEF S
<1>3. s \o t \in Seq(S)
  BY <1>2
<1>. QED
  BY <1>1, <1>3, EventsAre

(* The events of each member, one after the other.                         *)
LEMMA EventsAll ==
  ASSUME NEW B, NEW s \in Seq(B), NEW f, \A b \in B : EventList(f[b])
  PROVE  EventList(FlattenSeq([i \in DOMAIN s |-> f[s[i]]]))
<1>. DEFINE S == UNION {ToSet(f[b]) : b \in B}
            g == [b \in B |-> f[b]]
<1>1. \A e \in S : SpeltEvent(e)
  BY Zenon DEF EventList, ToSet
<1>2. \A b \in B : f[b] \in Seq(S)
  <2>. SUFFICES ASSUME NEW b \in B PROVE f[b] \in Seq(S)
    OBVIOUS
  <2>1. f[b] \in Seq(ToSet(f[b])) /\ ToSet(f[b]) \subseteq S
    BY DEF EventList
  <2>. HIDE DEF S
  <2>. QED
    BY <2>1
<1>. HIDE DEF S
<1>3. [i \in DOMAIN s |-> g[s[i]]] \in Seq(Seq(S))
  BY <1>2, EachIs
<1>4. [i \in DOMAIN s |-> f[s[i]]] = [i \in DOMAIN s |-> g[s[i]]]
  OBVIOUS
<1>. HIDE DEF g
<1>5. FlattenSeq([i \in DOMAIN s |-> g[s[i]]]) \in Seq(S)
  BY <1>3, FlattenIs
<1>. QED
  BY <1>1, <1>4, <1>5, EventsAre

-----------------------------------------------------------------------------
(* The chunks of a stream, and what a client makes of them                 *)

(* A chunk is made of strings where it adds to what a client is told.      *)
SpeltDelta(d) ==
  /\ d.is = "content" => d.what \in Seq(Strings)
  /\ d.is = "call" => d.what.id \in Strings /\ d.what.name \in Strings
  /\ d.is = "arguments" => d.what.piece \in Seq(Strings)
ChunkList(s) == s \in Seq(ToSet(s)) /\ \A i \in DOMAIN s : SpeltDelta(s[i].delta)

(* Which of the deltas that Write makes of events are, and when.           *)
LEMMA DeltaIs ==
  /\ \A x : /\ SpeltDelta(Delta("role", x)) /\ SpeltDelta(Delta("reasoning", x))
            /\ SpeltDelta(Delta("finish", x))
  /\ \A t \in Seq(Strings) : SpeltDelta(Delta("content", t))
  /\ \A n : \A id \in Strings, name \in Strings :
       SpeltDelta(Delta("call", [index |-> n, id |-> id, name |-> name]))
  /\ \A n : \A t \in Seq(Strings) : SpeltDelta(Delta("arguments", [index |-> n, piece |-> t]))
<1>1. \A x : /\ SpeltDelta(Delta("role", x)) /\ SpeltDelta(Delta("reasoning", x))
             /\ SpeltDelta(Delta("finish", x))
  BY DEF SpeltDelta, Delta
<1>2. \A t \in Seq(Strings) : SpeltDelta(Delta("content", t))
  BY DEF SpeltDelta, Delta
<1>3. ASSUME NEW n, NEW id \in Strings, NEW name \in Strings
      PROVE  SpeltDelta(Delta("call", [index |-> n, id |-> id, name |-> name]))
  BY DEF SpeltDelta, Delta
<1>4. ASSUME NEW n, NEW t \in Seq(Strings)
      PROVE  SpeltDelta(Delta("arguments", [index |-> n, piece |-> t]))
  BY DEF SpeltDelta, Delta
<1>. QED
  BY <1>1, <1>2, <1>3, <1>4

(* What is there by a condition is a list of it.                           *)
LEMMA WhenOf ==
  ASSUME NEW condition, NEW x
  PROVE  When(condition, x) \in Seq({x})
BY WhenIs

(* An event is one delta or none.                                          *)
LEMMA DeltasAre ==
  ASSUME NEW writer, NEW e, SpeltEvent(e)
  PROVE  \E d : SpeltDelta(d) /\ Deltas(writer, e) \in Seq({d})
<1>1. CASE e.is = "text"
  <2>1. Deltas(writer, e) = When(e.text # <<>>, Delta("content", e.text))
    BY <1>1 DEF Deltas
  <2>2. SpeltDelta(Delta("content", e.text))
    BY <1>1, DeltaIs DEF SpeltEvent
  <2>. QED
    BY <2>1, <2>2, WhenOf, Zenon
<1>2. CASE e.is = "thinking"
  <2>1. Deltas(writer, e) = When(e.text # <<>>, Delta("reasoning", e.text))
    BY <1>2 DEF Deltas
  <2>. QED
    BY <2>1, DeltaIs, WhenOf, Zenon
<1>3. CASE e.is = "tool"
  <2>. DEFINE d == Delta("call", [index |-> writer.calls, id |-> e.id, name |-> e.name])
  <2>1. Deltas(writer, e) = <<d>>
    BY <1>3 DEF Deltas
  <2>2. SpeltDelta(d)
    <3>1. e.id \in Strings /\ e.name \in Strings
      BY <1>3 DEF SpeltEvent
    <3>. QED
      BY <3>1, DeltaIs, Zenon
  <2>. HIDE DEF d
  <2>3. <<d>> \in Seq({d})
    OBVIOUS
  <2>. QED
    BY <2>1, <2>2, <2>3, Zenon
<1>4. CASE e.is = "arguments"
  <2>. DEFINE d == Delta("arguments", [index |-> InProgress(writer), piece |-> e.piece])
  <2>1. Deltas(writer, e) = When(e.piece # <<>>, d)
    BY <1>4 DEF Deltas
  <2>2. SpeltDelta(d)
    <3>1. e.piece \in Seq(Strings)
      BY <1>4 DEF SpeltEvent
    <3>. QED
      BY <3>1, DeltaIs, Zenon
  <2>. QED
    BY <2>1, <2>2, WhenOf, Zenon
<1>5. CASE e.is = "stopped"
  <2>. DEFINE d == Delta("finish", [finish |-> FinishReason(e.reason), stop |-> e.reason])
  <2>1. Deltas(writer, e) = <<d>>
    BY <1>5 DEF Deltas
  <2>2. SpeltDelta(d)
    BY DeltaIs
  <2>. HIDE DEF d
  <2>3. <<d>> \in Seq({d})
    OBVIOUS
  <2>. QED
    BY <2>1, <2>2, <2>3, Zenon
<1>6. CASE e.is \notin {"text", "thinking", "tool", "arguments", "stopped"}
  <2>. DEFINE d == Delta("role", "assistant")
  <2>1. Deltas(writer, e) = <<>>
    BY <1>6 DEF Deltas
  <2>2. SpeltDelta(d)
    BY DeltaIs
  <2>. HIDE DEF d
  <2>3. <<>> \in Seq({d})
    OBVIOUS
  <2>. QED
    BY <2>1, <2>2, <2>3, Zenon
<1>. QED
  BY <1>1, <1>2, <1>3, <1>4, <1>5, <1>6

(* A list of chunks that are made of strings,                              *)
LEMMA ChunksAre ==
  ASSUME NEW S, \A c \in S : SpeltDelta(c.delta), NEW s \in Seq(S)
  PROVE  ChunkList(s)
<1>1. s \in Seq(ToSet(s)) /\ \A i \in DOMAIN s : s[i] \in S
  BY ListOfItself
<1>. QED
  BY <1>1 DEF ChunkList

(* and two lists, one after the other.                                     *)
LEMMA ChunksBoth ==
  ASSUME NEW s, NEW t, ChunkList(s), ChunkList(t)
  PROVE  ChunkList(s \o t)
<1>. DEFINE S == ToSet(s) \cup ToSet(t)
<1>1. \A c \in S : SpeltDelta(c.delta)
  BY Zenon DEF ChunkList, ToSet
<1>2. s \in Seq(S) /\ t \in Seq(S)
  <2>1. s \in Seq(ToSet(s)) /\ t \in Seq(ToSet(t))
    BY DEF ChunkList
  <2>2. ToSet(s) \subseteq S /\ ToSet(t) \subseteq S
    OBVIOUS
  <2>. HIDE DEF S
  <2>. QED
    BY <2>1, <2>2
<1>. HIDE DEF S
<1>3. s \o t \in Seq(S)
  BY <1>2
<1>. QED
  BY <1>1, <1>3, ChunksAre

(* What Write makes of an event that is made of strings is too.            *)
LEMMA WrittenAre ==
  ASSUME NEW writer, NEW e, SpeltEvent(e)
  PROVE  ChunkList(Write(writer, e))
<1>1. PICK d : SpeltDelta(d) /\ Deltas(writer, e) \in Seq({d})
  BY DeltasAre
<1>. DEFINE role == Delta("role", "assistant")
            S == {role, d}
            model == Turned(writer, e).model
            opens == When(~writer.opened, role)
            deltas == opens \o Deltas(writer, e)
            C == {Chunk(model, x) : x \in S}
            chunks == [x \in S |-> Chunk(model, x)]
<1>2. Write(writer, e) = [i \in DOMAIN deltas |-> Chunk(model, deltas[i])]
  BY DEF Write
<1>3. deltas \in Seq(S)
  <2>1. opens \in Seq({role})
    BY WhenOf
  <2>. HIDE DEF opens, role
  <2>2. opens \in Seq(S) /\ Deltas(writer, e) \in Seq(S)
    BY <1>1, <2>1
  <2>. HIDE DEF S
  <2>. QED
    BY <2>2
<1>4. \A x \in S : SpeltDelta(x)
  BY <1>1, DeltaIs
<1>5. \A x : Chunk(model, x).delta = x
  BY DEF Chunk
<1>6. \A c \in C : SpeltDelta(c.delta)
  <2>. HIDE DEF S, model
  <2>. QED
    BY <1>4, <1>5, Zenon
<1>. HIDE DEF S, deltas, model
<1>7. chunks \in [S -> C] /\ \A i \in DOMAIN deltas : chunks[deltas[i]] = Chunk(model, deltas[i])
  BY <1>3
<1>8. Write(writer, e) = [i \in DOMAIN deltas |-> chunks[deltas[i]]]
  BY <1>2, <1>7
<1>. HIDE DEF C, chunks
<1>9. Write(writer, e) \in Seq(C)
  BY <1>3, <1>7, <1>8, EachIs
<1>. QED
  BY <1>6, <1>9, ChunksAre

(* What a client makes of them: words, and calls that are spelt.           *)
LEMMA UnderstoodIs ==
  ASSUME NEW chunks, ChunkList(chunks)
  PROVE  Understood(chunks).content \in Seq(Strings) /\ CallList(Understood(chunks).calls)
<1>. DEFINE Of(is) == FlattenSeq([i \in DOMAIN chunks |->
                        When(chunks[i].delta.is = is, chunks[i].delta.what)])
            words == [i \in DOMAIN chunks |->
                        IF chunks[i].delta.is = "content" THEN chunks[i].delta.what ELSE <<>>]
            calls == Of("call")
            pieces == Of("arguments")
            Arguments(index) ==
              FlattenSeq([i \in DOMAIN pieces |->
                IF pieces[i].index = index THEN pieces[i].piece ELSE <<>>])
            told == [i \in DOMAIN calls |->
                       [id |-> calls[i].id, name |-> calls[i].name, arguments |-> Arguments(i - 1)]]
<1>1. Understood(chunks).content = FlattenSeq(words) /\ Understood(chunks).calls = told
  BY DEF Understood
<1>2. /\ chunks \in Seq(ToSet(chunks)) /\ Len(chunks) \in Nat /\ DOMAIN chunks = 1..Len(chunks)
      /\ \A i \in DOMAIN chunks : SpeltDelta(chunks[i].delta)
  BY DEF ChunkList
<1>3. FlattenSeq(words) \in Seq(Strings)
  <2>1. \A i \in DOMAIN chunks : words[i] \in Seq(Strings)
    <3>1. <<>> \in Seq(Strings)
      OBVIOUS
    <3>. QED
      BY <1>2, <3>1 DEF SpeltDelta
  <2>2. words = [i \in 1..Len(chunks) |-> words[i]]
    BY <1>2
  <2>. HIDE DEF words
  <2>3. words \in Seq(Seq(Strings))
    BY <1>2, <2>1, <2>2
  <2>. QED
    BY <2>3, FlattenIs
<1>4. ASSUME NEW is
      PROVE  /\ Of(is) \in Seq(ToSet(Of(is)))
             /\ \A i \in DOMAIN Of(is) : SpeltDelta([is |-> is, what |-> Of(is)[i]])
  <2>. DEFINE W == {w \in {chunks[i].delta.what : i \in DOMAIN chunks} :
                      SpeltDelta([is |-> is, what |-> w])}
              those == [i \in DOMAIN chunks |->
                          When(chunks[i].delta.is = is, chunks[i].delta.what)]
  <2>1. ASSUME NEW i \in DOMAIN chunks
        PROVE  those[i] \in Seq(W)
    <3>. DEFINE w == chunks[i].delta.what
    <3>0. those[i] = When(chunks[i].delta.is = is, w)
      OBVIOUS
    <3>1. CASE chunks[i].delta.is = is
      <4>1. w \in W
        BY <1>2, <3>1 DEF SpeltDelta
      <4>. HIDE DEF W, w, those
      <4>2. those[i] = <<w>>
        BY <3>0, <3>1, Zenon DEF When
      <4>. QED
        BY <4>1, <4>2
    <3>2. CASE chunks[i].delta.is # is
      <4>. HIDE DEF W, w, those
      <4>1. those[i] = <<>>
        BY <3>0, <3>2, Zenon DEF When
      <4>. QED
        BY <4>1
    <3>. QED
      BY <3>1, <3>2
  <2>2. those = [i \in 1..Len(chunks) |-> those[i]]
    BY <1>2
  <2>3. Of(is) = FlattenSeq(those) /\ \A w \in W : SpeltDelta([is |-> is, what |-> w])
    OBVIOUS
  <2>. HIDE DEF those, W, Of
  <2>4. those \in Seq(Seq(W))
    BY <1>2, <2>1, <2>2
  <2>. DEFINE s == Of(is)
  <2>5. s \in Seq(W)
    BY <2>3, <2>4, FlattenIs
  <2>. HIDE DEF s
  <2>6. s \in Seq(ToSet(s)) /\ \A i \in DOMAIN s : s[i] \in W
    BY <2>5, ListOfItself
  <2>. QED
    BY <2>3, <2>6 DEF s
<1>. HIDE DEF Of
<1>5. /\ pieces \in Seq(ToSet(pieces)) /\ \A i \in DOMAIN pieces : pieces[i].piece \in Seq(Strings)
  BY <1>4 DEF SpeltDelta
<1>6. /\ calls \in Seq(ToSet(calls))
      /\ \A i \in DOMAIN calls : calls[i].id \in Strings /\ calls[i].name \in Strings
  BY <1>4 DEF SpeltDelta
<1>. HIDE DEF pieces, calls
<1>7. ASSUME NEW index PROVE Arguments(index) \in Seq(Strings)
  <2>. DEFINE s == [i \in DOMAIN pieces |->
                      IF pieces[i].index = index THEN pieces[i].piece ELSE <<>>]
  <2>1. \A i \in DOMAIN pieces : s[i] \in Seq(Strings)
    <3>1. <<>> \in Seq(Strings)
      OBVIOUS
    <3>. QED
      BY <1>5, <3>1
  <2>2. Len(pieces) \in Nat /\ DOMAIN pieces = 1..Len(pieces)
    BY <1>5
  <2>3. s = [i \in 1..Len(pieces) |-> s[i]]
    BY <2>2
  <2>. HIDE DEF s
  <2>4. s \in Seq(Seq(Strings))
    BY <2>1, <2>2, <2>3
  <2>. QED
    BY <2>4, FlattenIs DEF s
<1>. HIDE DEF Arguments
<1>8. CallList(told)
  <2>1. Len(calls) \in Nat /\ DOMAIN calls = 1..Len(calls)
    BY <1>6
  <2>2. \A i \in DOMAIN told : SpeltCall(told[i]) /\ HasName(told[i])
    BY <1>6, <1>7 DEF SpeltCall, HasName
  <2>3. told = [i \in 1..Len(calls) |-> told[i]]
    BY <2>1
  <2>. HIDE DEF told
  <2>4. told \in Seq(ToSet(told))
    BY <2>1, <2>3, IsList
  <2>. QED
    BY <2>2, <2>4 DEF CallList
<1>. QED
  BY <1>1, <1>3, <1>8

-----------------------------------------------------------------------------
(* The writer's fold over the events of a reply                            *)

(* What Tells makes of the events, in turn, and the fold it is read from.  *)
Retold(events) == FoldLeft(Tells, NothingTold, events)

FoldsTells(it, s) ==
  it = [d \in SUBSET (DOMAIN s) |->
          IF d = {} THEN NothingTold ELSE Tells(it[d \ {Max(d)}], s[Max(d)])]

(* What is read of a list is the fold over its whole domain.               *)
LEMMA TellsIs ==
  ASSUME NEW s
  PROVE  Retold(s) = (CHOOSE it : FoldsTells(it, s))[DOMAIN s]
BY DEF Retold, FoldLeft, MapThenFoldSet, FoldsTells

(* There is such a fold.                                                   *)
LEMMA TellsExist ==
  ASSUME NEW S
  PROVE  \A s \in Seq(S) : \E it : FoldsTells(it, s)
<1>. DEFINE Good == {s \in Seq(S) : \E it : FoldsTells(it, s)}
<1>1. <<>> \in Good
  <2>. DEFINE it == [d \in SUBSET {} |-> NothingTold]
  <2>1. FoldsTells(it, <<>>)
    <3>1. \A d \in SUBSET {} : d = {}
      OBVIOUS
    <3>2. it = [d \in SUBSET {} |-> IF d = {} THEN NothingTold ELSE Tells(it[d \ {Max(d)}], <<>>[Max(d)])]
      BY <3>1
    <3>. HIDE DEF it
    <3>. QED
      BY <3>2 DEF FoldsTells
  <2>2. <<>> \in Seq(S)
    OBVIOUS
  <2>. HIDE DEF it
  <2>. QED
    BY <2>1, <2>2
<1>2. ASSUME NEW r \in Seq(S), NEW e \in S, r \in Good PROVE Append(r, e) \in Good
  <2>. DEFINE n == Len(r)
              s == Append(r, e)
  <2>1. PICK it : FoldsTells(it, r)
    BY <1>2
  <2>. DEFINE up == [d \in SUBSET (1..n + 1) |->
                       IF n + 1 \in d THEN Tells(it[d \ {n + 1}], e) ELSE it[d]]
  <2>2. /\ n \in Nat /\ s \in Seq(S) /\ DOMAIN s = 1..n + 1 /\ DOMAIN r = 1..n
        /\ s[n + 1] = e /\ \A i \in 1..n : s[i] = r[i]
    OBVIOUS
  <2>3. it = [d \in SUBSET (1..n) |->
                IF d = {} THEN NothingTold ELSE Tells(it[d \ {Max(d)}], r[Max(d)])]
    BY <2>1, <2>2 DEF FoldsTells
  <2>. HIDE DEF s, n
  <2>4. ASSUME NEW d \in SUBSET (1..n + 1)
        PROVE  up[d] = IF d = {} THEN NothingTold ELSE Tells(up[d \ {Max(d)}], s[Max(d)])
    <3>0. up[d] = IF n + 1 \in d THEN Tells(it[d \ {n + 1}], e) ELSE it[d]
      OBVIOUS
    <3>1. CASE n + 1 \in d
      <4>1. Max(d) = n + 1
        <5>1. n + 1 \in Nat /\ d # {} /\ \A j \in d : j <= n + 1
          BY <2>2, <3>1
        <5>. QED
          BY <3>1, <5>1, MaxIs
      <4>2. d \ {n + 1} \in SUBSET (1..n) /\ d \ {n + 1} \in SUBSET (1..n + 1)
        BY <2>2
      <4>3. up[d \ {n + 1}] = it[d \ {n + 1}]
        BY <4>2
      <4>. HIDE DEF up
      <4>. QED
        BY <2>2, <3>0, <3>1, <4>1, <4>3
    <3>2. CASE n + 1 \notin d
      <4>1. d \in SUBSET (1..n)
        BY <2>2, <3>2
      <4>2. up[d] = it[d]
        BY <3>0, <3>2
      <4>3. CASE d = {}
        <5>1. it[d] = NothingTold
          BY <2>3, <4>1, <4>3
        <5>. QED
          BY <4>2, <4>3, <5>1
      <4>4. CASE d # {}
        <5>1. Max(d) \in 1..n
          BY <2>2, <4>1, <4>4, MaxIs
        <5>2. it[d] = Tells(it[d \ {Max(d)}], r[Max(d)])
          BY <2>3, <4>1, <4>4
        <5>3. up[d \ {Max(d)}] = it[d \ {Max(d)}]
          <6>. DEFINE c == d \ {Max(d)}
          <6>1. c \in SUBSET (1..n + 1) /\ n + 1 \notin c
            BY <3>2
          <6>. HIDE DEF c
          <6>2. up[c] = it[c]
            BY <6>1
          <6>. QED
            BY <6>2 DEF c
        <5>. HIDE DEF up
        <5>. QED
          BY <2>2, <4>2, <4>4, <5>1, <5>2, <5>3
      <4>. QED
        BY <4>3, <4>4
    <3>. QED
      BY <3>1, <3>2
  <2>5. up = [d \in SUBSET (1..n + 1) |->
                IF d = {} THEN NothingTold ELSE Tells(up[d \ {Max(d)}], s[Max(d)])]
    <3>1. up = [d \in SUBSET (1..n + 1) |-> up[d]]
      OBVIOUS
    <3>. HIDE DEF up
    <3>. QED
      BY <2>4, <3>1
  <2>. HIDE DEF up
  <2>6. FoldsTells(up, s)
    BY <2>2, <2>5 DEF FoldsTells
  <2>7. s \in Good
    BY <2>2, <2>6
  <2>. QED
    BY <2>7 DEF s
<1>. HIDE DEF Good
<1>3. \A s \in Seq(S) : s \in Good
  BY <1>1, <1>2, ListInduct
<1>. QED
  BY <1>3 DEF Good

(* The fold of a longer list goes through that of the shorter.             *)
LEMMA TellsGoOn ==
  ASSUME NEW S, NEW r \in Seq(S), NEW e \in S,
         NEW it, FoldsTells(it, r), NEW up, FoldsTells(up, Append(r, e))
  PROVE  /\ it[1..Len(r)] = up[1..Len(r)]
         /\ up[1..Len(r) + 1] = Tells(up[1..Len(r)], e)
<1>. DEFINE n == Len(r)
            s == Append(r, e)
            T == {k \in 0..n : it[1..k] # up[1..k]}
<1>1. /\ n \in Nat /\ s \in Seq(S) /\ DOMAIN s = 1..n + 1 /\ DOMAIN r = 1..n
      /\ s[n + 1] = e /\ \A i \in 1..n : s[i] = r[i]
  OBVIOUS
<1>2. \A d \in SUBSET (1..n) :
         it[d] = IF d = {} THEN NothingTold ELSE Tells(it[d \ {Max(d)}], r[Max(d)])
  BY <1>1 DEF FoldsTells
<1>3. \A d \in SUBSET (1..n + 1) :
         up[d] = IF d = {} THEN NothingTold ELSE Tells(up[d \ {Max(d)}], s[Max(d)])
  BY <1>1 DEF FoldsTells
<1>. HIDE DEF n, s
<1>4. \A k \in 1..n + 1 : Max(1..k) = k /\ (1..k) \ {k} = 1..k - 1 /\ 1..k # {}
  <2>. SUFFICES ASSUME NEW k \in 1..n + 1
                PROVE  Max(1..k) = k /\ (1..k) \ {k} = 1..k - 1 /\ 1..k # {}
    OBVIOUS
  <2>1. k \in Nat /\ k \in 1..k /\ \A j \in 1..k : j <= k
    BY <1>1
  <2>2. (1..k) \ {k} = 1..k - 1
    BY <2>1
  <2>3. Max(1..k) = k
    BY <2>1, MaxIs
  <2>. QED
    BY <2>1, <2>2, <2>3
<1>5. \A k \in 1..n + 1 : up[1..k] = Tells(up[1..k - 1], s[k])
  <2>. SUFFICES ASSUME NEW k \in 1..n + 1 PROVE up[1..k] = Tells(up[1..k - 1], s[k])
    OBVIOUS
  <2>1. 1..k \in SUBSET (1..n + 1)
    BY <1>1
  <2>. QED
    BY <1>3, <1>4, <2>1
<1>6. \A k \in 1..n : it[1..k] = Tells(it[1..k - 1], r[k])
  <2>. SUFFICES ASSUME NEW k \in 1..n PROVE it[1..k] = Tells(it[1..k - 1], r[k])
    OBVIOUS
  <2>1. 1..k \in SUBSET (1..n) /\ k \in 1..n + 1
    BY <1>1
  <2>. QED
    BY <1>2, <1>4, <2>1
<1>7. T = {}
  <2>1. SUFFICES ASSUME T # {} PROVE FALSE
    OBVIOUS
  <2>2. PICK k \in T : \A m \in T : k <= m
    <3>1. T \in SUBSET Nat
      BY <1>1
    <3>. QED
      BY <2>1, <3>1, NatMin
  <2>3. k \in 0..n /\ it[1..k] # up[1..k]
    OBVIOUS
  <2>4. CASE k = 0
    <3>1. 1..k = {}
      BY <2>4
    <3>2. it[{}] = NothingTold /\ up[{}] = NothingTold
      BY <1>2, <1>3
    <3>. QED
      BY <2>3, <3>1, <3>2
  <2>5. CASE k # 0
    <3>1. k \in 1..n /\ k \in 1..n + 1 /\ k - 1 \in 0..n /\ ~(k <= k - 1)
      BY <1>1, <2>3, <2>5
    <3>2. it[1..k - 1] = up[1..k - 1]
      <4>1. k - 1 \notin T
        <5>. HIDE DEF T
        <5>. QED
          BY <2>2, <3>1
      <4>. QED
        BY <3>1, <4>1
    <3>. QED
      BY <1>1, <1>5, <1>6, <2>3, <3>1, <3>2
  <2>. QED
    BY <2>4, <2>5
<1>8. n + 1 \in 1..n + 1 /\ n \in 0..n /\ (n + 1) - 1 = n
  BY <1>1
<1>9. it[1..n] = up[1..n]
  BY <1>7, <1>8
<1>10. up[1..n + 1] = Tells(up[1..n], e)
  BY <1>1, <1>5, <1>8
<1>. QED
  BY <1>9, <1>10 DEF n

(* Of no messages nothing is read.                                         *)
LEMMA TellsNone ==
  Retold(<<>>) = NothingTold
<1>. DEFINE it == CHOOSE h : FoldsTells(h, <<>>)
<1>1. <<>> \in Seq({}) /\ DOMAIN <<>> = {}
  OBVIOUS
<1>2. FoldsTells(it, <<>>)
  BY <1>1, TellsExist
<1>. HIDE DEF it
<1>3. it[{}] = NothingTold
  BY <1>1, <1>2 DEF FoldsTells
<1>. QED
  BY <1>1, <1>3, TellsIs DEF it

(* The next message is read after the others.                              *)
LEMMA TellsMore ==
  ASSUME NEW S, NEW r \in Seq(S), NEW e \in S
  PROVE  Retold(Append(r, e)) = Tells(Retold(r), e)
<1>. DEFINE it == CHOOSE h : FoldsTells(h, r)
            up == CHOOSE h : FoldsTells(h, Append(r, e))
<1>1. /\ Append(r, e) \in Seq(S) /\ Len(r) \in Nat
      /\ DOMAIN r = 1..Len(r) /\ DOMAIN Append(r, e) = 1..Len(r) + 1
  OBVIOUS
<1>2. FoldsTells(it, r) /\ FoldsTells(up, Append(r, e))
  BY <1>1, TellsExist
<1>3. Retold(r) = it[1..Len(r)] /\ Retold(Append(r, e)) = up[1..Len(r) + 1]
  BY <1>1, TellsIs
<1>. HIDE DEF it, up
<1>. QED
  BY <1>2, <1>3, TellsGoOn

(* Events that are spelt are written in chunks that are.                   *)
LEMMA RetoldIs ==
  ASSUME NEW events, EventList(events)
  PROVE  ChunkList(Retold(events).chunks)
<1>. DEFINE S == ToSet(events)
            Good == {s \in Seq(S) : ChunkList(Retold(s).chunks)}
<1>1. \A e \in S : SpeltEvent(e)
  BY Zenon DEF EventList, ToSet
<1>. HIDE DEF S
<1>2. <<>> \in Good
  <2>1. Retold(<<>>).chunks = <<>>
    BY TellsNone DEF NothingTold
  <2>2. <<>> \in Seq({}) /\ <<>> \in Seq(S)
    OBVIOUS
  <2>3. ChunkList(<<>>)
    BY <2>2, ChunksAre
  <2>. QED
    BY <2>1, <2>2, <2>3
<1>3. ASSUME NEW r \in Seq(S), NEW e \in S, r \in Good PROVE Append(r, e) \in Good
  <2>. DEFINE state == Retold(r)
  <2>1. Retold(Append(r, e)) = Tells(state, e)
    BY TellsMore
  <2>. HIDE DEF state
  <2>2. Tells(state, e).chunks = state.chunks \o Write(state.writer, e)
    BY DEF Tells
  <2>3. ChunkList(Write(state.writer, e))
    BY <1>1, WrittenAre
  <2>4. ChunkList(state.chunks)
    BY <1>3 DEF state
  <2>5. ChunkList(state.chunks \o Write(state.writer, e))
    BY <2>3, <2>4, ChunksBoth
  <2>6. Append(r, e) \in Seq(S)
    OBVIOUS
  <2>. QED
    BY <2>1, <2>2, <2>5, <2>6
<1>. HIDE DEF Good
<1>4. \A s \in Seq(S) : s \in Good
  BY <1>2, <1>3, ListInduct
<1>5. events \in Seq(S)
  BY DEF EventList, S
<1>. QED
  BY <1>4, <1>5 DEF Good

-----------------------------------------------------------------------------
(* The blocks of a reply that was read whole                               *)

(* What a vendor has to say.                                               *)
AnswerList(s) == s \in Seq(ToSet(s)) /\ \A i \in DOMAIN s : SpeltBlock(s[i])

(* A block is made of strings where a client is told of it.                *)
SpeltSaid(b) ==
  /\ b.kind = "text" => b.text \in Seq(Strings)
  /\ b.kind = "tool_use" =>
       b.id \in Strings /\ b.name \in Strings /\ ToStr(b.input) \in Seq(Strings)
SaidList(s) == s \in Seq(ToSet(s)) /\ \A i \in DOMAIN s : SpeltSaid(s[i])

(* What there is, and what stands for what there is not.                   *)
LEMMA OptionIs ==
  \A x, y : Or(Some(x), y) = x /\ Some(x)[1] = x /\ Some(x) # None /\ Or(None, y) = y
BY DEF Or, Some, None

(* A pair is its first, then its second.                                   *)
LEMMA PairIs ==
  \A x, y : <<x, y>> = <<x>> \o <<y>>
<1>. SUFFICES ASSUME NEW x, NEW y PROVE <<x, y>> = <<x>> \o <<y>>
  OBVIOUS
<1>. DEFINE S == {x, y}
            a == <<x>>
            b == <<y>>
            c == <<x, y>>
<1>1. a \in Seq(S) /\ b \in Seq(S) /\ c \in Seq(S)
  OBVIOUS
<1>2. /\ Len(a) = 1 /\ a[1] = x /\ Len(b) = 1 /\ b[1] = y
      /\ Len(c) = 2 /\ c[1] = x /\ c[2] = y
  OBVIOUS
<1>. HIDE DEF S, a, b, c
<1>3. /\ a \o b \in Seq(S) /\ Len(a \o b) = 2
      /\ (a \o b)[1] = x /\ (a \o b)[2] = y
  <2>1. /\ a \o b \in Seq(S) /\ Len(a \o b) = Len(a) + Len(b)
        /\ \A i \in 1..Len(a) + Len(b) :
             (a \o b)[i] = IF i <= Len(a) THEN a[i] ELSE b[i - Len(a)]
    BY <1>1, ConcatProperties
  <2>2. 1 \in 1..2 /\ 2 \in 1..2 /\ 1 <= 1 /\ ~(2 <= 1) /\ 2 - 1 = 1 /\ 1 + 1 = 2
    OBVIOUS
  <2>. QED
    BY <1>2, <2>1, <2>2
<1>4. \A i \in 1..2 : (a \o b)[i] = c[i]
  BY <1>2, <1>3
<1>5. a \o b = c
  BY <1>1, <1>2, <1>3, <1>4, SeqEqual
<1>. QED
  BY <1>5 DEF a, b, c

(* A list made of another, member by member.                               *)
LEMMA MadeOf ==
  ASSUME NEW s, s \in Seq(ToSet(s)), NEW t, DOMAIN t = DOMAIN s, t = [i \in DOMAIN t |-> t[i]]
  PROVE  t \in Seq(ToSet(t))
<1>1. Len(s) \in Nat /\ DOMAIN t = 1..Len(s)
  OBVIOUS
<1>. QED
  BY <1>1, IsList

(* The blocks of a kind are of it,                                         *)
LEMMA OfOneKind ==
  ASSUME NEW B, NEW s \in Seq(B), NEW kind
  PROVE  OfKind(s, kind) \in Seq({b \in B : b.kind = kind})
<1>. DEFINE K == {b \in B : b.kind = kind}
            each == [i \in DOMAIN s |-> When(s[i].kind = kind, s[i])]
<1>1. Len(s) \in Nat /\ DOMAIN s = 1..Len(s)
  OBVIOUS
<1>2. ASSUME NEW i \in DOMAIN s PROVE each[i] \in Seq(K)
  <2>. DEFINE b == s[i]
  <2>1. each[i] = When(b.kind = kind, b) /\ b \in B
    OBVIOUS
  <2>2. b.kind = kind => b \in K
    BY <2>1
  <2>. HIDE DEF each, K, b
  <2>3. CASE b.kind = kind
    <3>1. each[i] = <<b>>
      BY <2>1, <2>3, Zenon DEF When
    <3>. QED
      BY <2>2, <2>3, <3>1
  <2>4. CASE b.kind # kind
    <3>1. each[i] = <<>>
      BY <2>1, <2>4, Zenon DEF When
    <3>. QED
      BY <3>1
  <2>. QED
    BY <2>3, <2>4
<1>3. each = [i \in 1..Len(s) |-> each[i]]
  BY <1>1
<1>4. OfKind(s, kind) = FlattenSeq(each)
  BY DEF OfKind
<1>. HIDE DEF each, K
<1>5. each \in Seq(Seq(K))
  BY <1>1, <1>2, <1>3
<1>6. OfKind(s, kind) \in Seq(K)
  BY <1>4, <1>5, FlattenIs
<1>. QED
  BY <1>6 DEF K

(* and their texts, put together, are made of strings.                     *)
LEMMA JoinedIs ==
  ASSUME NEW B, NEW s \in Seq(B), NEW kind,
         \A b \in B : b.kind = kind => b.text \in Seq(Strings)
  PROVE  Joined(s, kind) \in Seq(Strings)
<1>. DEFINE K == {b \in B : b.kind = kind}
            those == OfKind(s, kind)
            texts == [b \in K |-> b.text]
            each == [i \in DOMAIN those |-> those[i].text]
<1>1. those \in Seq(K)
  BY OfOneKind
<1>2. texts \in [K -> Seq(Strings)] /\ \A b \in K : texts[b] = b.text
  OBVIOUS
<1>3. Joined(s, kind) = FlattenSeq(each)
  BY DEF Joined
<1>. HIDE DEF those, K, texts
<1>4. \A i \in DOMAIN those : those[i] \in K
  BY <1>1
<1>5. each = [i \in DOMAIN those |-> texts[those[i]]]
  BY <1>2, <1>4
<1>. HIDE DEF each
<1>6. each \in Seq(Seq(Strings))
  <2>. DEFINE V == Seq(Strings)
  <2>1. texts \in [K -> V]
    BY <1>2
  <2>. HIDE DEF V
  <2>2. each \in Seq(V)
    BY <1>1, <1>5, <2>1, EachIs
  <2>. QED
    BY <2>2 DEF V
<1>. QED
  BY <1>3, <1>6, FlattenIs

(* What a client is told of a reply that is spelt: words, and calls.       *)
LEMMA ResponseIs ==
  ASSUME NEW reply, SaidList(reply.blocks)
  PROVE  LET whole == WriteResponse(reply) IN
         Or(whole.content, <<>>) \in Seq(Strings) /\ CallList(whole.calls)
<1>. DEFINE B == ToSet(reply.blocks)
            blocks == reply.blocks
            K == {b \in B : b.kind = "tool_use"}
            text == AnswerText(blocks)
            calls == OfKind(blocks, "tool_use")
            told == [i \in DOMAIN calls |->
                       [id |-> calls[i].id, name |-> calls[i].name,
                        arguments |-> ToStr(calls[i].input)]]
<1>1. blocks \in Seq(B) /\ \A b \in B : SpeltSaid(b)
  BY Zenon DEF SaidList, ToSet
<1>2. /\ WriteResponse(reply).content = IF text = <<>> /\ calls # <<>> THEN None ELSE Some(text)
      /\ WriteResponse(reply).calls = told
  BY DEF WriteResponse
<1>3. \A b \in B : b.kind = "text" => b.text \in Seq(Strings)
  BY <1>1, Zenon DEF SpeltSaid
<1>4. \A b \in K : b.id \in Strings /\ b.name \in Strings /\ ToStr(b.input) \in Seq(Strings)
  BY <1>1 DEF SpeltSaid
<1>. HIDE DEF B, blocks
<1>5. text \in Seq(Strings)
  BY <1>1, <1>3, JoinedIs DEF AnswerText
<1>6. calls \in Seq(K)
  BY <1>1, OfOneKind
<1>. HIDE DEF K, text, calls
<1>7. Or(WriteResponse(reply).content, <<>>) \in Seq(Strings)
  <2>1. <<>> \in Seq(Strings)
    OBVIOUS
  <2>2. CASE text = <<>> /\ calls # <<>>
    <3>1. Or(WriteResponse(reply).content, <<>>) = <<>>
      BY <1>2, <2>2, OptionIs, Zenon
    <3>. QED
      BY <2>1, <3>1
  <2>3. CASE ~(text = <<>> /\ calls # <<>>)
    <3>1. Or(WriteResponse(reply).content, <<>>) = text
      BY <1>2, <2>3, OptionIs, Zenon
    <3>. QED
      BY <1>5, <3>1
  <2>. QED
    BY <2>2, <2>3
<1>8. CallList(told)
  <2>1. calls \in Seq(ToSet(calls)) /\ \A i \in DOMAIN calls : calls[i] \in K
    BY <1>6, ListOfItself
  <2>2. \A i \in DOMAIN told : SpeltCall(told[i]) /\ HasName(told[i])
    BY <1>4, <2>1 DEF SpeltCall, HasName
  <2>3. DOMAIN told = DOMAIN calls /\ told = [i \in DOMAIN told |-> told[i]]
    OBVIOUS
  <2>. HIDE DEF told
  <2>4. told \in Seq(ToSet(told))
    BY <2>1, <2>3, MadeOf
  <2>. QED
    BY <2>2, <2>4 DEF CallList
<1>. HIDE DEF told
<1>. QED
  BY <1>2, <1>7, <1>8, Zenon

(* A reply replayed is spelt as it was.                                    *)
LEMMA ReplayIs ==
  ASSUME NEW reply, SaidList(reply.blocks)
  PROVE  EventList(ReplayStream(reply))
<1>. DEFINE B == ToSet(reply.blocks)
            blocks == reply.blocks
            f == [b \in B |-> ReplayBlock(b)]
<1>1. blocks \in Seq(B) /\ \A b \in B : SpeltSaid(b)
  BY Zenon DEF SaidList, ToSet
<1>2. \A i \in DOMAIN blocks : blocks[i] \in B
  BY <1>1
<1>3. ASSUME NEW b, SpeltSaid(b) PROVE EventList(ReplayBlock(b))
  <2>1. CASE b.kind = "text"
    <3>1. ReplayBlock(b) = <<TextDelta(b.text)>>
      BY <2>1 DEF ReplayBlock
    <3>2. SpeltEvent(TextDelta(b.text))
      BY <1>3, <2>1, EventIs DEF SpeltSaid
    <3>. QED
      BY <3>1, <3>2, EventsOne, Zenon
  <2>2. CASE b.kind = "thinking"
    <3>. DEFINE says == <<ThinkingDelta(b.text)>>
                signs == When(b.signature # None, ThinkingSignature(Or(b.signature, "")))
    <3>1. ReplayBlock(b) = says \o signs
      BY <2>2 DEF ReplayBlock
    <3>2. EventList(says) /\ EventList(signs)
      BY EventIs, EventsOne, EventsWhen
    <3>. HIDE DEF says, signs
    <3>. QED
      BY <3>1, <3>2, EventsBoth
  <2>3. CASE b.kind = "tool_use"
    <3>. DEFINE starts == ToolUseStarted(b.id, b.name)
                goes == ToolArgumentsDelta(ToStr(b.input))
    <3>1. ReplayBlock(b) = <<starts, goes>>
      BY <2>3 DEF ReplayBlock
    <3>2. SpeltEvent(starts) /\ SpeltEvent(goes)
      <4>1. b.id \in Strings /\ b.name \in Strings /\ ToStr(b.input) \in Seq(Strings)
        BY <1>3, <2>3 DEF SpeltSaid
      <4>2. SpeltEvent(starts)
        BY <4>1, EventIs
      <4>3. SpeltEvent(goes)
        BY <4>1, EventIs
      <4>. QED
        BY <4>2, <4>3
    <3>. HIDE DEF starts, goes
    <3>3. <<starts, goes>> = <<starts>> \o <<goes>>
      BY PairIs, Zenon
    <3>. QED
      BY <3>1, <3>2, <3>3, EventsOne, EventsBoth
  <2>4. CASE b.kind = "opaque"
    <3>1. ReplayBlock(b) = <<OpaqueBlock(b.name, b.raw)>>
      BY <2>4 DEF ReplayBlock
    <3>2. SpeltEvent(OpaqueBlock(b.name, b.raw))
      BY DEF SpeltEvent, OpaqueBlock
    <3>. QED
      BY <3>1, <3>2, EventsOne, Zenon
  <2>5. CASE b.kind \notin {"text", "thinking", "tool_use", "opaque"}
    <3>1. ReplayBlock(b) = <<>>
      BY <2>5 DEF ReplayBlock
    <3>. QED
      BY <3>1, EventsNone
  <2>. QED
    BY <2>1, <2>2, <2>3, <2>4, <2>5
<1>4. \A b \in B : EventList(f[b])
  BY <1>1, <1>3, Zenon
<1>. DEFINE told == FlattenSeq([i \in DOMAIN blocks |-> ReplayBlock(blocks[i])])
            starts == <<Started(reply.model)>>
            stops == <<Stopped(reply.stop, reply.details)>>
            counts == <<Metered(reply.usage)>>
<1>5. EventList(told)
  <2>1. [i \in DOMAIN blocks |-> ReplayBlock(blocks[i])] = [i \in DOMAIN blocks |-> f[blocks[i]]]
    BY <1>2
  <2>. HIDE DEF f, B, blocks
  <2>. QED
    BY <1>1, <1>4, <2>1, EventsAll
<1>6. EventList(starts) /\ EventList(stops) /\ EventList(counts)
  BY EventIs, EventsOne
<1>7. ReplayStream(reply) = starts \o told \o <<Stopped(reply.stop, reply.details), Metered(reply.usage)>>
  BY DEF ReplayStream
<1>8. <<Stopped(reply.stop, reply.details), Metered(reply.usage)>> = stops \o counts
  BY PairIs, Zenon
<1>. HIDE DEF starts, told, stops, counts
<1>9. EventList(starts \o told) /\ EventList(stops \o counts)
  BY <1>5, <1>6, EventsBoth
<1>. QED
  BY <1>7, <1>8, <1>9, EventsBoth

-----------------------------------------------------------------------------
(* What each vendor says whole is read in blocks that are spelt            *)

(* Which of the blocks a reply can be read in are made of strings.         *)
LEMMA SayIs ==
  /\ \A t \in Seq(Strings) : SpeltSaid(Text(t))
  /\ \A x, y : SpeltSaid(Thinking(x, y))
  /\ \A id \in Strings, name \in Strings : \A input :
       ToStr(input) \in Seq(Strings) => SpeltSaid(ToolUse(id, name, input))
<1>1. \A t \in Seq(Strings) : SpeltSaid(Text(t))
  BY DEF SpeltSaid, Text
<1>2. \A x, y : SpeltSaid(Thinking(x, y))
  BY DEF SpeltSaid, Thinking
<1>3. ASSUME NEW id \in Strings, NEW name \in Strings, NEW input, ToStr(input) \in Seq(Strings)
      PROVE  SpeltSaid(ToolUse(id, name, input))
  <2>. DEFINE b == ToolUse(id, name, input)
  <2>1. b.kind = "tool_use" /\ b.id = id /\ b.name = name /\ b.input = input
    BY DEF ToolUse
  <2>. HIDE DEF b
  <2>. QED
    BY <1>3, <2>1 DEF SpeltSaid, b
<1>. QED
  BY <1>1, <1>2, <1>3

(* A list of blocks that are made of strings,                              *)
LEMMA SaysAre ==
  ASSUME NEW S, \A b \in S : SpeltSaid(b), NEW s \in Seq(S)
  PROVE  SaidList(s)
<1>1. s \in Seq(ToSet(s)) /\ \A i \in DOMAIN s : s[i] \in S
  BY ListOfItself
<1>. QED
  BY <1>1 DEF SaidList

(* and two lists, one after the other.                                     *)
LEMMA SaysJoin ==
  ASSUME NEW s, NEW t, SaidList(s), SaidList(t)
  PROVE  SaidList(s \o t)
<1>. DEFINE S == ToSet(s) \cup ToSet(t)
<1>1. \A b \in S : SpeltSaid(b)
  BY Zenon DEF SaidList, ToSet
<1>2. s \in Seq(S) /\ t \in Seq(S)
  <2>1. s \in Seq(ToSet(s)) /\ t \in Seq(ToSet(t))
    BY DEF SaidList
  <2>2. ToSet(s) \subseteq S /\ ToSet(t) \subseteq S
    OBVIOUS
  <2>. HIDE DEF S
  <2>. QED
    BY <2>1, <2>2
<1>. HIDE DEF S
<1>3. s \o t \in Seq(S)
  BY <1>2
<1>. QED
  BY <1>1, <1>3, SaysAre

(* A reply that was read is the reply,                                     *)
LEMMA UnlessIs ==
  ASSUME NEW condition, NEW reply, Unless(condition, reply) # None
  PROVE  Unless(condition, reply)[1] = reply
BY OptionIs, Zenon DEF Unless

(* and has its blocks.                                                     *)
LEMMA ReplyHas ==
  ASSUME NEW blocks, NEW stop, NEW details, NEW usage, NEW model
  PROVE  Reply(blocks, stop, details, usage, model).blocks = blocks
BY DEF Reply

(* The arguments of a call, as a vendor that writes JSON has them.         *)
InputOf(pieces) == IF pieces = <<>> THEN EmptyObject ELSE FromStr(pieces)

(* They are told as strings, read as JSON or kept as what they were.       *)
LEMMA InputIs ==
  ASSUME NEW pieces \in Seq(Strings)
  PROVE  ToStr(InputOf(pieces)) \in Seq(Strings)
BY ArgumentsAre, Zenon DEF InputOf

(* What the blocks of an answer are, and have.                             *)
LEMMA BlockKinds ==
  ASSUME NEW b, SpeltBlock(b)
  PROVE  /\ b.kind \in {"text", "thinking", "tool_use"}
         /\ b.kind # "tool_use" => b.text \in Seq(Strings)
         /\ b.kind = "tool_use" =>
              b.id \in Strings /\ b.name \in Strings /\ b.pieces \in Seq(Strings)
BY DEF SpeltBlock

(* A chat completion says the text in one string, and the calls in a list. *)
LEMMA OpenAISays ==
  ASSUME NEW answer, AnswerList(answer.blocks)
  PROVE  /\ OpenAIWhole(answer).content # None
         /\ OpenAIWhole(answer).content[1] \in Seq(Strings)
         /\ LET calls == OpenAIWhole(answer).calls IN
            /\ calls \in Seq(ToSet(calls))
            /\ \A i \in DOMAIN calls : SpeltSaid(OpenAICall(calls[i]))
<1>. DEFINE blocks == answer.blocks
            B == ToSet(blocks)
            K == {b \in B : b.kind = "tool_use"}
            calls == OfKind(blocks, "tool_use")
            text == AnswerText(blocks)
            Written(c) == [id |-> Some(c.id), name |-> Some(c.name), arguments |-> Some(c.pieces)]
            written == [i \in DOMAIN calls |-> Written(calls[i])]
<1>1. blocks \in Seq(B) /\ \A b \in B : SpeltBlock(b)
  BY Zenon DEF AnswerList, ToSet
<1>2. OpenAIWhole(answer).content = Some(text) /\ OpenAIWhole(answer).calls = written
  BY DEF OpenAIWhole, OpenAIBody
<1>3. \A b \in B : b.kind = "text" => b.text \in Seq(Strings)
  <2>. SUFFICES ASSUME NEW b \in B, b.kind = "text" PROVE b.text \in Seq(Strings)
    OBVIOUS
  <2>1. SpeltBlock(b) /\ b.kind # "tool_use"
    BY <1>1
  <2>. QED
    BY <2>1, BlockKinds
<1>4. ASSUME NEW c \in K PROVE SpeltSaid(OpenAICall(Written(c)))
  <2>. DEFINE w == Written(c)
  <2>1. c.id \in Strings /\ c.name \in Strings /\ c.pieces \in Seq(Strings)
    BY <1>1, BlockKinds
  <2>2. w.id = Some(c.id) /\ w.name = Some(c.name) /\ w.arguments = Some(c.pieces)
    OBVIOUS
  <2>. HIDE DEF w
  <2>3. OpenAICall(w) = ToolUse(c.id, c.name, FromStr(c.pieces))
    BY <2>2, OptionIs, Zenon DEF OpenAICall
  <2>4. ToStr(FromStr(c.pieces)) \in Seq(Strings)
    BY <2>1, ArgumentsAre
  <2>5. SpeltSaid(OpenAICall(w))
    BY <2>1, <2>3, <2>4, SayIs, Zenon
  <2>. QED
    BY <2>5 DEF w
<1>. HIDE DEF B, blocks
<1>5. text \in Seq(Strings)
  BY <1>1, <1>3, JoinedIs DEF AnswerText
<1>6. calls \in Seq(K)
  BY <1>1, OfOneKind
<1>. HIDE DEF K, text, calls
<1>7. calls \in Seq(ToSet(calls)) /\ \A i \in DOMAIN calls : calls[i] \in K
  BY <1>6, ListOfItself
<1>8. DOMAIN written = DOMAIN calls /\ \A i \in DOMAIN written : written[i] = Written(calls[i])
  OBVIOUS
<1>9. written = [i \in DOMAIN written |-> written[i]]
  OBVIOUS
<1>. HIDE DEF written, Written
<1>10. written \in Seq(ToSet(written))
  BY <1>7, <1>8, <1>9, MadeOf
<1>11. \A i \in DOMAIN written : SpeltSaid(OpenAICall(written[i]))
  BY <1>4, <1>7, <1>8
<1>. QED
  BY <1>2, <1>5, <1>10, <1>11, OptionIs

(* OpenAIRead makes blocks of strings of a whole chat completion,          *)
LEMMA OpenAIReads ==
  ASSUME NEW answer, AnswerList(answer.blocks), NEW asks,
         OpenAIRead(OpenAIWhole(answer), asks) # None
  PROVE  SaidList(OpenAIRead(OpenAIWhole(answer), asks)[1].blocks)
<1>. DEFINE body == OpenAIWhole(answer)
            text == When(Spoken(body.content), Text(Or(body.content, <<>>)))
            calls == [i \in DOMAIN body.calls |-> OpenAICall(body.calls[i])]
            blocks == text \o calls
            reply == Reply(blocks, ReadStop(OpenAIStops, body.finish), body.finish,
                           OpenAIUsage(body.usage), Or(body.model, asks))
<1>1. OpenAIRead(body, asks) = Unless(~body.choices \/ blocks = <<>>, reply)
  BY Zenon DEF OpenAIRead
<1>2. /\ body.content # None /\ body.content[1] \in Seq(Strings)
      /\ body.calls \in Seq(ToSet(body.calls))
      /\ \A i \in DOMAIN body.calls : SpeltSaid(OpenAICall(body.calls[i]))
  BY OpenAISays
<1>. HIDE DEF body
<1>3. SaidList(text)
  <2>. DEFINE t == Text(Or(body.content, <<>>))
  <2>1. SpeltSaid(t)
    BY <1>2, SayIs, Zenon DEF Or
  <2>2. \A b \in {t} : SpeltSaid(b)
    BY <2>1
  <2>3. text \in Seq({t})
    BY WhenOf
  <2>. HIDE DEF text, t
  <2>. QED
    BY <2>2, <2>3, SaysAre
<1>4. SaidList(calls)
  <2>1. DOMAIN calls = DOMAIN body.calls /\ calls = [i \in DOMAIN calls |-> calls[i]]
        /\ \A i \in DOMAIN calls : calls[i] = OpenAICall(body.calls[i])
    OBVIOUS
  <2>. HIDE DEF calls
  <2>2. \A i \in DOMAIN calls : SpeltSaid(calls[i])
    BY <1>2, <2>1
  <2>. DEFINE list == body.calls
  <2>3. list \in Seq(ToSet(list)) /\ DOMAIN calls = DOMAIN list
    BY <1>2, <2>1
  <2>. HIDE DEF list
  <2>4. calls \in Seq(ToSet(calls))
    BY <2>1, <2>3, MadeOf
  <2>. QED
    BY <2>2, <2>4 DEF SaidList
<1>. HIDE DEF text, calls
<1>5. SaidList(blocks)
  BY <1>3, <1>4, SaysJoin
<1>. HIDE DEF blocks
<1>6. reply.blocks = blocks
  BY ReplyHas
<1>. HIDE DEF reply
<1>7. OpenAIRead(body, asks)[1] = reply
  BY <1>1, UnlessIs DEF body
<1>. QED
  BY <1>5, <1>6, <1>7 DEF body

(* AnthropicRead of a whole message,                                       *)
LEMMA AnthropicReads ==
  ASSUME NEW answer, AnswerList(answer.blocks), NEW asks,
         AnthropicRead(AnthropicWhole(answer), asks) # None
  PROVE  SaidList(AnthropicRead(AnthropicWhole(answer), asks)[1].blocks)
<1>. DEFINE said == answer.blocks
            Block(block) ==
              CASE block.kind = "text" -> [type |-> "text", text |-> block.text]
                [] block.kind = "thinking" -> [type |-> "thinking", thinking |-> Some(block.text),
                                               signature |-> Some(block.proof)]
                [] block.kind = "tool_use" ->
                     [type |-> "tool_use", id |-> block.id, name |-> block.name,
                      input |-> Some(IF block.pieces = <<>> THEN EmptyObject
                                     ELSE FromStr(block.pieces))]
                [] block.kind = "redacted" -> [type |-> "redacted", raw |-> block.raw]
            body == AnthropicWhole(answer)
            blocks == [i \in DOMAIN body.content |-> AnthropicBlock(body.content[i])]
            reply == Reply(blocks, ReadStop(AnthropicStops, body.stop), body.sequence,
                           AnthropicUsage(body.usage), Or(body.model, asks))
<1>1. AnthropicRead(body, asks) = Unless(blocks = <<>>, reply)
  BY Zenon DEF AnthropicRead
<1>2. body.content = [i \in DOMAIN said |-> Block(said[i])]
  BY DEF AnthropicWhole
<1>3. said \in Seq(ToSet(said)) /\ \A i \in DOMAIN said : SpeltBlock(said[i])
  BY DEF AnswerList
<1>. HIDE DEF body
<1>4. ASSUME NEW b, SpeltBlock(b) PROVE SpeltSaid(AnthropicBlock(Block(b)))
  <2>. DEFINE w == Block(b)
  <2>1. CASE b.kind = "text"
    <3>1. w = [type |-> "text", text |-> b.text]
      BY <2>1
    <3>. HIDE DEF w
    <3>2. AnthropicBlock(w) = Text(b.text) /\ b.text \in Seq(Strings)
      BY <1>4, <2>1, <3>1, BlockKinds DEF AnthropicBlock
    <3>. QED
      BY <3>2, SayIs, Zenon DEF w
  <2>2. CASE b.kind = "thinking"
    <3>1. w = [type |-> "thinking", thinking |-> Some(b.text), signature |-> Some(b.proof)]
      BY <2>2
    <3>. HIDE DEF w
    <3>2. AnthropicBlock(w) = Thinking(Or(w.thinking, <<>>), w.signature)
      BY <3>1 DEF AnthropicBlock
    <3>. QED
      BY <3>2, SayIs, Zenon DEF w
  <2>3. CASE b.kind = "tool_use"
    <3>1. w = [type |-> "tool_use", id |-> b.id, name |-> b.name, input |-> Some(InputOf(b.pieces))]
      BY <2>3 DEF InputOf
    <3>. HIDE DEF w
    <3>2. w.type = "tool_use" /\ w.id = b.id /\ w.name = b.name /\ w.input = Some(InputOf(b.pieces))
      BY <3>1
    <3>3. AnthropicBlock(w) = ToolUse(w.id, w.name, Or(w.input, EmptyObject))
      BY <3>2 DEF AnthropicBlock
    <3>4. AnthropicBlock(w) = ToolUse(b.id, b.name, InputOf(b.pieces))
      BY <3>2, <3>3, OptionIs, Zenon
    <3>5. /\ b.id \in Strings /\ b.name \in Strings
          /\ ToStr(InputOf(b.pieces)) \in Seq(Strings)
      BY <1>4, <2>3, BlockKinds, InputIs
    <3>. QED
      BY <3>4, <3>5, SayIs, Zenon DEF w
  <2>. QED
    BY <1>4, <2>1, <2>2, <2>3, BlockKinds
<1>. HIDE DEF Block
<1>5. SaidList(blocks)
  <2>1. DOMAIN body.content = DOMAIN said /\ DOMAIN blocks = DOMAIN said
        /\ \A i \in DOMAIN said : body.content[i] = Block(said[i])
    BY <1>2
  <2>2. blocks = [i \in DOMAIN blocks |-> blocks[i]]
        /\ \A i \in DOMAIN said : blocks[i] = AnthropicBlock(Block(said[i]))
    BY <2>1
  <2>. HIDE DEF said, blocks
  <2>3. \A i \in DOMAIN blocks : SpeltSaid(blocks[i])
    BY <1>3, <1>4, <2>1, <2>2, Zenon
  <2>4. blocks \in Seq(ToSet(blocks))
    BY <1>3, <2>1, <2>2, MadeOf
  <2>. QED
    BY <2>3, <2>4 DEF SaidList
<1>6. reply.blocks = blocks
  BY ReplyHas
<1>. HIDE DEF reply, blocks
<1>7. AnthropicRead(body, asks)[1] = reply
  BY <1>1, UnlessIs DEF body
<1>. QED
  BY <1>5, <1>6, <1>7 DEF body

(* and GeminiRead of a whole list of parts.                                *)
LEMMA GeminiReads ==
  ASSUME NEW answer, AnswerList(answer.blocks), NEW asks,
         GeminiRead(GeminiWhole(answer), asks) # None
  PROVE  SaidList(GeminiRead(GeminiWhole(answer), asks)[1].blocks)
<1>. DEFINE said == answer.blocks
            Part(block) == IF block.kind = "tool_use" THEN GeminiAsks(block)
                           ELSE GeminiSays(block.text, block.kind = "thinking")
            body == GeminiWhole(answer)
            blocks == [i \in DOMAIN body.parts |-> GeminiPart(body.parts[i])]
            reply == Reply(blocks, ReadStop(GeminiStops, body.finish), None,
                           GeminiUsage(body.usage), Or(body.model, asks))
<1>1. GeminiRead(body, asks) = Unless(~body.candidates \/ blocks = <<>>, reply)
  BY Zenon DEF GeminiRead
<1>2. body.parts = [i \in DOMAIN said |-> Part(said[i])]
  BY DEF GeminiWhole, GeminiBody
<1>3. said \in Seq(ToSet(said)) /\ \A i \in DOMAIN said : SpeltBlock(said[i])
  BY DEF AnswerList
<1>. HIDE DEF body
<1>4. ASSUME NEW b, SpeltBlock(b) PROVE SpeltSaid(GeminiPart(Part(b)))
  <2>. DEFINE w == Part(b)
  <2>1. CASE b.kind = "tool_use"
    <3>1. w = GeminiAsks(b)
      BY <2>1
    <3>. HIDE DEF w
    <3>. DEFINE call == [id |-> None, name |-> b.name, args |-> Some(InputOf(b.pieces))]
    <3>2. w.call = Some(call)
      BY <3>1 DEF GeminiAsks, InputOf
    <3>3. call.id = None /\ call.name = b.name /\ call.args = Some(InputOf(b.pieces))
      OBVIOUS
    <3>. HIDE DEF call
    <3>4. GeminiPart(w) = ToolUse(Or(call.id, call.name), call.name,
                                  Or(call.args, EmptyObject))
      BY <3>2, OptionIs, Zenon DEF GeminiPart
    <3>5. GeminiPart(w) = ToolUse(b.name, b.name, InputOf(b.pieces))
      BY <3>3, <3>4, OptionIs, Zenon
    <3>6. b.name \in Strings /\ ToStr(InputOf(b.pieces)) \in Seq(Strings)
      BY <1>4, <2>1, BlockKinds, InputIs
    <3>. QED
      BY <3>5, <3>6, SayIs, Zenon DEF w
  <2>2. CASE b.kind # "tool_use"
    <3>1. w = GeminiSays(b.text, b.kind = "thinking")
      BY <2>2
    <3>. HIDE DEF w
    <3>2. w.call = None /\ w.text = Some(b.text) /\ b.text \in Seq(Strings)
      BY <1>4, <2>2, <3>1, BlockKinds DEF GeminiSays
    <3>3. GeminiPart(w) = Thinking(b.text, None) \/ GeminiPart(w) = Text(b.text)
      BY <3>2, OptionIs, Zenon DEF GeminiPart
    <3>4. SpeltSaid(GeminiPart(w))
      BY <3>2, <3>3, SayIs, Zenon
    <3>. QED
      BY <3>4 DEF w
  <2>. QED
    BY <2>1, <2>2
<1>. HIDE DEF Part
<1>5. SaidList(blocks)
  <2>1. DOMAIN body.parts = DOMAIN said /\ DOMAIN blocks = DOMAIN said
        /\ \A i \in DOMAIN said : body.parts[i] = Part(said[i])
    BY <1>2
  <2>2. blocks = [i \in DOMAIN blocks |-> blocks[i]]
        /\ \A i \in DOMAIN said : blocks[i] = GeminiPart(Part(said[i]))
    BY <2>1
  <2>. HIDE DEF said, blocks
  <2>3. \A i \in DOMAIN blocks : SpeltSaid(blocks[i])
    BY <1>3, <1>4, <2>1, <2>2, Zenon
  <2>4. blocks \in Seq(ToSet(blocks))
    BY <1>3, <2>1, <2>2, MadeOf
  <2>. QED
    BY <2>3, <2>4 DEF SaidList
<1>6. reply.blocks = blocks
  BY ReplyHas
<1>. HIDE DEF reply, blocks
<1>7. GeminiRead(body, asks)[1] = reply
  BY <1>1, UnlessIs DEF body
<1>. QED
  BY <1>5, <1>6, <1>7 DEF body

(* A reply that can be read is spelt, whoever wrote it.                    *)
LEMMA WholeIsSpelt ==
  ASSUME NEW vendor \in Vendor, NEW answer, AnswerList(answer.blocks), NEW asks,
         Read(vendor, Whole(vendor, answer), asks) # None
  PROVE  SaidList(Read(vendor, Whole(vendor, answer), asks)[1].blocks)
<1>1. CASE vendor = "openai"
  <2>1. Read(vendor, Whole(vendor, answer), asks) = OpenAIRead(OpenAIWhole(answer), asks)
    BY <1>1 DEF Read, Whole
  <2>. QED
    BY <2>1, OpenAIReads
<1>2. CASE vendor = "gemini"
  <2>1. Read(vendor, Whole(vendor, answer), asks) = GeminiRead(GeminiWhole(answer), asks)
    BY <1>2 DEF Read, Whole
  <2>. QED
    BY <2>1, GeminiReads
<1>3. CASE vendor \in {"anthropic", "bedrock"}
  <2>1. Read(vendor, Whole(vendor, answer), asks) = AnthropicRead(AnthropicWhole(answer), asks)
    BY <1>3 DEF Read, Whole
  <2>. QED
    BY <2>1, AnthropicReads
<1>. QED
  BY <1>1, <1>2, <1>3 DEF Vendor

-----------------------------------------------------------------------------
(* What each vendor streams is read in events that are spelt               *)

(* A list of what a function makes of the members of another,              *)
LEMMA EachOf ==
  ASSUME NEW B, NEW s \in Seq(B), NEW f, NEW T, \A b \in B : f[b] \in T
  PROVE  [i \in DOMAIN s |-> f[s[i]]] \in Seq(T)
<1>. DEFINE g == [b \in B |-> f[b]]
<1>1. g \in [B -> T] /\ \A i \in DOMAIN s : s[i] \in B /\ g[s[i]] = f[s[i]]
  OBVIOUS
<1>2. [i \in DOMAIN s |-> f[s[i]]] = [i \in DOMAIN s |-> g[s[i]]]
  BY <1>1
<1>. HIDE DEF g
<1>. QED
  BY <1>1, <1>2, EachIs

(* and of the lists it makes of them, put together.                        *)
LEMMA AllOf ==
  ASSUME NEW B, NEW s \in Seq(B), NEW f, NEW T, \A b \in B : f[b] \in Seq(T)
  PROVE  FlattenSeq([i \in DOMAIN s |-> f[s[i]]]) \in Seq(T)
<1>. DEFINE L == Seq(T)
            each == [i \in DOMAIN s |-> f[s[i]]]
<1>1. \A b \in B : f[b] \in L
  OBVIOUS
<1>. HIDE DEF L
<1>2. each \in Seq(L)
  BY <1>1, EachOf
<1>. HIDE DEF each
<1>. QED
  BY <1>2, FlattenIs DEF L, each

(* What is metered tells a client nothing.                                 *)
LEMMA MeteredIs ==
  ASSUME NEW usage
  PROVE  EventList(MeteredIfSaid(usage))
BY EventIs, EventsWhen DEF MeteredIfSaid

(* A frame of the chat completions is spelt where its words and calls are. *)
OpenAISpelt(b) ==
  /\ Spoken(b.content) => b.content[1] \in Seq(Strings)
  /\ b.calls \in Seq(ToSet(b.calls))
  /\ \A i \in DOMAIN b.calls : EventList(OpenAICallEvents(b.calls[i]))

(* OpenAIEvents reads such a frame in events that are made of strings.     *)
LEMMA OpenAIEventsAre ==
  ASSUME NEW b, OpenAISpelt(b)
  PROVE  EventList(OpenAIEvents(b))
<1>. DEFINE calls == b.calls
            f == [c \in ToSet(calls) |-> OpenAICallEvents(c)]
            s1 == When(b.model # None /\ b.role, Started(Or(b.model, "")))
            s2 == When(Spoken(b.content), TextDelta(Or(b.content, <<>>)))
            s3 == When(Spoken(b.reasoning), ThinkingDelta(Or(b.reasoning, <<>>)))
            s4 == FlattenSeq([i \in DOMAIN calls |-> OpenAICallEvents(calls[i])])
            s5 == When(b.finish # None, Stopped(ReadStop(OpenAIStops, b.finish), None))
            s6 == MeteredIfSaid(OpenAIUsage(b.usage))
<1>1. OpenAIEvents(b) = s1 \o s2 \o s3 \o s4 \o s5 \o s6
  BY DEF OpenAIEvents
<1>2. EventList(s1) /\ EventList(s3) /\ EventList(s5)
  BY EventIs, EventsWhen
<1>3. EventList(s2)
  <2>1. Spoken(b.content) => SpeltEvent(TextDelta(Or(b.content, <<>>)))
    <3>1. Spoken(b.content) => Or(b.content, <<>>) \in Seq(Strings)
      BY Zenon DEF OpenAISpelt, Spoken, Or
    <3>. QED
      BY <3>1, EventIs, Zenon
  <2>. QED
    BY <2>1, EventsWhen
<1>4. EventList(s4)
  <2>1. calls \in Seq(ToSet(calls)) /\ \A c \in ToSet(calls) : EventList(f[c])
    BY Zenon DEF OpenAISpelt, ToSet
  <2>2. \A i \in DOMAIN calls : calls[i] \in ToSet(calls)
    BY <2>1
  <2>3. [i \in DOMAIN calls |-> OpenAICallEvents(calls[i])] = [i \in DOMAIN calls |-> f[calls[i]]]
    BY <2>2
  <2>. HIDE DEF f, calls
  <2>. QED
    BY <2>1, <2>3, EventsAll
<1>5. EventList(s6)
  BY MeteredIs
<1>. HIDE DEF s1, s2, s3, s4, s5, s6
<1>6. EventList(s1 \o s2)
  BY <1>2, <1>3, EventsBoth
<1>7. EventList(s1 \o s2 \o s3)
  BY <1>2, <1>6, EventsBoth
<1>8. EventList(s1 \o s2 \o s3 \o s4)
  BY <1>4, <1>7, EventsBoth
<1>9. EventList(s1 \o s2 \o s3 \o s4 \o s5)
  BY <1>2, <1>8, EventsBoth
<1>. QED
  BY <1>1, <1>5, <1>9, EventsBoth

(* The frames of an answer: a word, a thought, a call's start, a piece of  *)
(* its arguments, and how a stream begins and ends.                        *)
Starting(id, name) == [id |-> Some(id), name |-> Some(name), arguments |-> Some(<<>>)]
Going(piece) == [id |-> None, name |-> None, arguments |-> Some(<<piece>>)]

(* A call's start, and a piece of its arguments, are read in such events,  *)
LEMMA OpenAICallsAre ==
  /\ \A id \in Strings, name \in Strings : EventList(OpenAICallEvents(Starting(id, name)))
  /\ \A piece \in Strings : EventList(OpenAICallEvents(Going(piece)))
<1>1. ASSUME NEW id \in Strings, NEW name \in Strings
      PROVE  EventList(OpenAICallEvents(Starting(id, name)))
  <2>. DEFINE c == Starting(id, name)
              starts == When(c.name # None, ToolUseStarted(Or(c.id, ""), Or(c.name, "")))
              goes == When(Spoken(c.arguments), ToolArgumentsDelta(Or(c.arguments, <<>>)))
  <2>1. c.id = Some(id) /\ c.name = Some(name) /\ c.arguments = Some(<<>>)
    BY DEF Starting
  <2>2. OpenAICallEvents(c) = starts \o goes
    BY Zenon DEF OpenAICallEvents
  <2>. HIDE DEF c
  <2>3. SpeltEvent(ToolUseStarted(Or(c.id, ""), Or(c.name, "")))
    <3>1. Or(c.id, "") = id /\ Or(c.name, "") = name
      BY <2>1, OptionIs, Zenon
    <3>. QED
      BY <3>1, EventIs
  <2>4. ~Spoken(c.arguments)
    BY <2>1, OptionIs, Zenon DEF Spoken
  <2>5. EventList(starts) /\ EventList(goes)
    BY <2>3, <2>4, EventsWhen
  <2>. HIDE DEF starts, goes
  <2>6. EventList(OpenAICallEvents(c))
    BY <2>2, <2>5, EventsBoth
  <2>. QED
    BY <2>6 DEF c
<1>2. ASSUME NEW piece \in Strings PROVE EventList(OpenAICallEvents(Going(piece)))
  <2>. DEFINE c == Going(piece)
              starts == When(c.name # None, ToolUseStarted(Or(c.id, ""), Or(c.name, "")))
              goes == When(Spoken(c.arguments), ToolArgumentsDelta(Or(c.arguments, <<>>)))
  <2>1. c.name = None /\ c.arguments = Some(<<piece>>)
    BY DEF Going
  <2>2. OpenAICallEvents(c) = starts \o goes
    BY Zenon DEF OpenAICallEvents
  <2>. HIDE DEF c
  <2>3. <<piece>> \in Seq(Strings)
    OBVIOUS
  <2>4. SpeltEvent(ToolArgumentsDelta(Or(c.arguments, <<>>)))
    BY <2>1, <2>3, OptionIs, EventIs, Zenon
  <2>5. EventList(starts) /\ EventList(goes)
    BY <2>1, <2>4, EventsWhen
  <2>. HIDE DEF starts, goes
  <2>6. EventList(OpenAICallEvents(c))
    BY <2>2, <2>5, EventsBoth
  <2>. QED
    BY <2>6 DEF c
<1>. QED
  BY <1>1, <1>2

(* Every frame of a stream, as it changes the empty one.                   *)
SaysWord(w) == [OpenAIBody EXCEPT !.content = Some(<<w>>)]
ThinksWord(w) == [OpenAIBody EXCEPT !.reasoning = Some(<<w>>)]
AsksCall(c) == [OpenAIBody EXCEPT !.calls = <<c>>]
OpenAIOpens == [OpenAIBody EXCEPT !.role = TRUE, !.content = Some(<<>>)]
OpenAIStop(stop) == [OpenAIBody EXCEPT !.finish = Some(Spelled("openai", stop))]
OpenAILast == [OpenAIBody EXCEPT !.choices = FALSE, !.usage = OpenAITotals]

(* and so is every frame of a stream of chat completions.                  *)
LEMMA OpenAIBodiesAre ==
  /\ \A w \in Strings : OpenAISpelt(SaysWord(w)) /\ OpenAISpelt(ThinksWord(w))
  /\ \A c : EventList(OpenAICallEvents(c)) => OpenAISpelt(AsksCall(c))
  /\ \A stop : OpenAISpelt(OpenAIStop(stop))
  /\ OpenAISpelt(OpenAIOpens) /\ OpenAISpelt(OpenAILast)
<1>1. ASSUME NEW b, b.content = None \/ b.content = Some(<<>>), b.calls = <<>>
      PROVE  OpenAISpelt(b)
  <2>1. ~Spoken(b.content)
    BY <1>1, OptionIs, Zenon DEF Spoken
  <2>2. <<>> \in Seq(ToSet(<<>>)) /\ DOMAIN <<>> = {}
    OBVIOUS
  <2>. QED
    BY <1>1, <2>1, <2>2 DEF OpenAISpelt
<1>2. ASSUME NEW w \in Strings PROVE OpenAISpelt(SaysWord(w))
  <2>. DEFINE b == SaysWord(w)
  <2>1. b.content = Some(<<w>>) /\ b.calls = <<>>
    BY DEF SaysWord, OpenAIBody
  <2>. HIDE DEF b
  <2>2. <<w>> \in Seq(Strings) /\ <<>> \in Seq(ToSet(<<>>)) /\ DOMAIN <<>> = {}
    OBVIOUS
  <2>3. b.content[1] \in Seq(Strings)
    BY <2>1, <2>2, OptionIs, Zenon
  <2>4. OpenAISpelt(b)
    BY <2>1, <2>2, <2>3 DEF OpenAISpelt
  <2>. QED
    BY <2>4 DEF b
<1>3. ASSUME NEW w \in Strings PROVE OpenAISpelt(ThinksWord(w))
  <2>1. ThinksWord(w).content = None /\ ThinksWord(w).calls = <<>>
    BY DEF ThinksWord, OpenAIBody
  <2>. QED
    BY <1>1, <2>1
<1>4. ASSUME NEW c, EventList(OpenAICallEvents(c)) PROVE OpenAISpelt(AsksCall(c))
  <2>. DEFINE b == AsksCall(c)
              list == <<c>>
  <2>1. b.content = None /\ b.calls = list
    BY DEF AsksCall, OpenAIBody
  <2>2. list \in Seq({c}) /\ DOMAIN list = {1} /\ list[1] = c
    OBVIOUS
  <2>. HIDE DEF b, list
  <2>3. list \in Seq(ToSet(list))
    BY <2>2, ListOfItself
  <2>4. ~Spoken(b.content)
    BY <2>1, Zenon DEF Spoken
  <2>5. OpenAISpelt(b)
    BY <1>4, <2>1, <2>2, <2>3, <2>4 DEF OpenAISpelt
  <2>. QED
    BY <2>5 DEF b
<1>5. ASSUME NEW stop PROVE OpenAISpelt(OpenAIStop(stop))
  <2>1. OpenAIStop(stop).content = None /\ OpenAIStop(stop).calls = <<>>
    BY DEF OpenAIStop, OpenAIBody
  <2>. QED
    BY <1>1, <2>1
<1>6. OpenAISpelt(OpenAIOpens)
  <2>1. OpenAIOpens.content = Some(<<>>) /\ OpenAIOpens.calls = <<>>
    BY DEF OpenAIOpens, OpenAIBody
  <2>. QED
    BY <1>1, <2>1
<1>7. OpenAISpelt(OpenAILast)
  <2>1. OpenAILast.content = None /\ OpenAILast.calls = <<>>
    BY DEF OpenAILast, OpenAIBody
  <2>. QED
    BY <1>1, <2>1
<1>. QED
  BY <1>2, <1>3, <1>4, <1>5, <1>6, <1>7

(* Frames that are each read in events that are spelt are together.        *)
LEMMA FramesRead ==
  ASSUME NEW vendor, vendor # "bedrock", NEW answer, NEW F, NEW frames \in Seq(F),
         Streamed(vendor, answer, FALSE) = frames,
         \A x \in F : EventList(ReadEvent(vendor, x).events)
  PROVE  EventList(TheEvents(vendor, answer))
<1>. DEFINE f == [x \in F |-> ReadEvent(vendor, x).events]
<1>1. TheEvents(vendor, answer)
        = FlattenSeq([i \in DOMAIN frames |-> ReadEvent(vendor, frames[i]).events])
  BY DEF TheEvents
<1>2. \A i \in DOMAIN frames : frames[i] \in F
  OBVIOUS
<1>3. [i \in DOMAIN frames |-> ReadEvent(vendor, frames[i]).events]
        = [i \in DOMAIN frames |-> f[frames[i]]]
  BY <1>2
<1>4. \A x \in F : EventList(f[x])
  OBVIOUS
<1>. HIDE DEF f
<1>. QED
  BY <1>1, <1>3, <1>4, EventsAll

(* The frames between a stream's first and its last.                       *)
OpenAIBodies ==
  {SaysWord(w) : w \in Strings} \cup {ThinksWord(w) : w \in Strings}
  \cup {AsksCall(Starting(id, name)) : id \in Strings, name \in Strings}
  \cup {AsksCall(Going(piece)) : piece \in Strings}

(* A block is streamed word by word, or piece by piece.                    *)
LEMMA OpenAIBlock ==
  ASSUME NEW b, SpeltBlock(b)
  PROVE  LET OneDelta(call) == [OpenAIBody EXCEPT !.calls = <<call>>] IN
         (CASE b.kind = "text" ->
                 [i \in DOMAIN b.text |-> [OpenAIBody EXCEPT !.content = Some(<<b.text[i]>>)]]
            [] b.kind = "thinking" ->
                 [i \in DOMAIN b.text |-> [OpenAIBody EXCEPT !.reasoning = Some(<<b.text[i]>>)]]
            [] b.kind = "tool_use" ->
                 <<OneDelta([id |-> Some(b.id), name |-> Some(b.name), arguments |-> Some(<<>>)])>>
                 \o [i \in DOMAIN b.pieces |->
                       OneDelta([id |-> None, name |-> None,
                              arguments |-> Some(<<b.pieces[i]>>)])])
           \in Seq(OpenAIBodies)
<1>. DEFINE T == OpenAIBodies
            words == [w \in Strings |-> SaysWord(w)]
            thoughts == [w \in Strings |-> ThinksWord(w)]
            goes == [w \in Strings |-> AsksCall(Going(w))]
            starts == AsksCall(Starting(b.id, b.name))
<1>1. /\ \A w \in Strings : words[w] \in T /\ thoughts[w] \in T /\ goes[w] \in T
      /\ b.kind = "tool_use" => starts \in T
  BY BlockKinds DEF OpenAIBodies
<1>2. b.kind # "tool_use" => b.text \in Seq(Strings)
  BY BlockKinds
<1>3. b.kind = "tool_use" => b.pieces \in Seq(Strings)
  BY BlockKinds
<1>4. CASE b.kind = "text"
  <2>1. [i \in DOMAIN b.text |-> words[b.text[i]]] \in Seq(T)
    <3>. HIDE DEF words, T
    <3>. QED
      BY <1>1, <1>2, <1>4, EachOf
  <2>2. [i \in DOMAIN b.text |-> words[b.text[i]]]
          = [i \in DOMAIN b.text |-> [OpenAIBody EXCEPT !.content = Some(<<b.text[i]>>)]]
    BY <1>2, <1>4 DEF SaysWord
  <2>. QED
    BY <1>4, <2>1, <2>2
<1>5. CASE b.kind = "thinking"
  <2>1. [i \in DOMAIN b.text |-> thoughts[b.text[i]]] \in Seq(T)
    <3>. HIDE DEF thoughts, T
    <3>. QED
      BY <1>1, <1>2, <1>5, EachOf
  <2>2. [i \in DOMAIN b.text |-> thoughts[b.text[i]]]
          = [i \in DOMAIN b.text |-> [OpenAIBody EXCEPT !.reasoning = Some(<<b.text[i]>>)]]
    BY <1>2, <1>5 DEF ThinksWord
  <2>. QED
    BY <1>5, <2>1, <2>2
<1>6. CASE b.kind = "tool_use"
  <2>. DEFINE going == [i \in DOMAIN b.pieces |-> goes[b.pieces[i]]]
              first == <<starts>>
  <2>1. going \in Seq(T)
    <3>. HIDE DEF goes, T
    <3>. QED
      BY <1>1, <1>3, <1>6, EachOf
  <2>2. going
          = [i \in DOMAIN b.pieces |->
               [OpenAIBody EXCEPT !.calls = <<[id |-> None, name |-> None,
                                               arguments |-> Some(<<b.pieces[i]>>)]>>]]
    BY <1>3, <1>6 DEF AsksCall, Going
  <2>3. first = <<[OpenAIBody EXCEPT !.calls = <<[id |-> Some(b.id), name |-> Some(b.name),
                                                  arguments |-> Some(<<>>)]>>]>>
    BY DEF AsksCall, Starting
  <2>4. first \in Seq(T)
    <3>. HIDE DEF starts, T
    <3>. QED
      BY <1>1, <1>6
  <2>. HIDE DEF going, first, T
  <2>5. first \o going \in Seq(T)
    BY <2>1, <2>4
  <2>. QED
    BY <1>6, <2>2, <2>3, <2>5 DEF T
<1>. QED
  BY <1>4, <1>5, <1>6, BlockKinds

(* An answer that is streamed as chat completions.                         *)
LEMMA OpenAIStreams ==
  ASSUME NEW answer, AnswerList(answer.blocks)
  PROVE  EventList(TheEvents("openai", answer))
<1>. DEFINE blocks == answer.blocks
            B == ToSet(blocks)
            OneDelta(call) == [OpenAIBody EXCEPT !.calls = <<call>>]
            SaysOne(b) ==
              CASE b.kind = "text" ->
                     [i \in DOMAIN b.text |-> [OpenAIBody EXCEPT !.content = Some(<<b.text[i]>>)]]
                [] b.kind = "thinking" ->
                     [i \in DOMAIN b.text |-> [OpenAIBody EXCEPT !.reasoning = Some(<<b.text[i]>>)]]
                [] b.kind = "tool_use" ->
                     <<OneDelta([id |-> Some(b.id), name |-> Some(b.name), arguments |-> Some(<<>>)])>>
                     \o [i \in DOMAIN b.pieces |->
                           OneDelta([id |-> None, name |-> None,
                                   arguments |-> Some(<<b.pieces[i]>>)])]
            saying == [b \in B |-> SaysOne(b)]
            said == FlattenSeq([i \in DOMAIN blocks |-> SaysOne(blocks[i])])
            ends == <<OpenAIStop(answer.stop), OpenAILast>>
            bodies == <<OpenAIOpens>> \o said \o ends
            T == OpenAIBodies \cup {OpenAIOpens, OpenAIStop(answer.stop), OpenAILast}
            done == [event |-> "", data |-> "[DONE]", body |-> OpenAIBody]
            frames == Unnamed(bodies) \o <<done>>
            F == {Frame("", b) : b \in T} \cup {done}
<1>1. blocks \in Seq(B) /\ \A b \in B : SpeltBlock(b)
  BY Zenon DEF AnswerList, ToSet
<1>2. OpenAIFrames(answer) = frames
  BY DEF OpenAIFrames, Each, OpenAIOpens, OpenAIStop, OpenAILast
<1>3. \A b \in B : saying[b] \in Seq(OpenAIBodies)
  <2>. SUFFICES ASSUME NEW b \in B PROVE SaysOne(b) \in Seq(OpenAIBodies)
    OBVIOUS
  <2>. QED
    BY <1>1, OpenAIBlock
<1>. HIDE DEF B, SaysOne, OneDelta
<1>4. said \in Seq(OpenAIBodies)
  <2>1. [i \in DOMAIN blocks |-> SaysOne(blocks[i])] = [i \in DOMAIN blocks |-> saying[blocks[i]]]
    BY <1>1
  <2>. HIDE DEF saying, blocks
  <2>. QED
    BY <1>1, <1>3, <2>1, AllOf
<1>5. bodies \in Seq(T)
  <2>1. OpenAIBodies \subseteq T /\ <<OpenAIOpens>> \in Seq(T) /\ ends \in Seq(T)
    OBVIOUS
  <2>. HIDE DEF said, ends, T
  <2>. QED
    BY <1>4, <2>1
<1>6. \A b \in T : OpenAISpelt(b)
  BY OpenAIBodiesAre, OpenAICallsAre DEF OpenAIBodies
<1>7. \A x \in F : EventList(ReadEvent("openai", x).events)
  <2>1. ASSUME NEW b \in T PROVE EventList(ReadEvent("openai", Frame("", b)).events)
    <3>1. Frame("", b).data = "json" /\ Frame("", b).body = b
      BY DEF Frame
    <3>2. ReadEvent("openai", Frame("", b)).events = OpenAIEvents(b)
      BY <3>1 DEF ReadEvent
    <3>. QED
      BY <1>6, <2>1, <3>2, OpenAIEventsAre
  <2>2. EventList(ReadEvent("openai", done).events)
    <3>1. ReadEvent("openai", done).events = <<>>
      BY DEF ReadEvent
    <3>. QED
      BY <3>1, EventsNone
  <2>. HIDE DEF T, done
  <2>. QED
    BY <2>1, <2>2
<1>. HIDE DEF bodies, T
<1>8. frames \in Seq(F)
  <2>. DEFINE named == [b \in T |-> Frame("", b)]
  <2>1. \A b \in T : named[b] \in F
    OBVIOUS
  <2>2. Unnamed(bodies) = [i \in DOMAIN bodies |-> named[bodies[i]]]
    <3>1. \A i \in DOMAIN bodies : bodies[i] \in T
      BY <1>5
    <3>2. \A i \in DOMAIN bodies : Frame("", bodies[i]) = named[bodies[i]]
      BY <3>1
    <3>. HIDE DEF named
    <3>. QED
      BY <3>2 DEF Unnamed
  <2>3. <<done>> \in Seq(F)
    OBVIOUS
  <2>. HIDE DEF F, done, named
  <2>4. Unnamed(bodies) \in Seq(F)
    BY <1>5, <2>1, <2>2, EachOf
  <2>. QED
    BY <2>3, <2>4
<1>9. Streamed("openai", answer, FALSE) = frames
  BY <1>2 DEF Streamed
<1>. HIDE DEF frames, F
<1>. QED
  BY <1>7, <1>8, <1>9, FramesRead

(* An answer that is streamed as messages.                                 *)
Begins(block) == Frame("content_block_start", [block |-> block])
Goes(type, piece) == Frame("content_block_delta", [type |-> type, piece |-> piece])
AnthropicBegins ==
  Frame("message_start", [model |-> Some("served"), usage |-> Some(AnthropicPrompt)])
AnthropicStop(stop) ==
  Frame("message_delta", [stop |-> Some(Spelled("anthropic", stop)),
                          sequence |-> None, usage |-> Some(AnthropicOutput)])
AnthropicEnds == Frame("message_stop", [type |-> "message_stop"])

(* A frame that is no error is read for its events.                        *)
LEMMA AnthropicFrame ==
  ASSUME NEW event, event # "error", NEW body
  PROVE  ReadEvent("anthropic", Frame(event, body)).events = AnthropicEvents(event, body)
<1>. DEFINE x == Frame(event, body)
<1>1. x.event = event /\ x.data = "json" /\ x.body = body
  BY DEF Frame
<1>. HIDE DEF x
<1>2. ReadEvent("anthropic", x).events = AnthropicEvents(event, body)
  BY <1>1 DEF ReadEvent
<1>. QED
  BY <1>2 DEF x

(* What is read of a frame is made of strings.                             *)
SpeltFrame(vendor, x) == EventList(ReadEvent(vendor, x).events)

(* Each frame of a message is read in events that are made of strings.     *)
LEMMA AnthropicFramesAre ==
  /\ \A id \in Strings, name \in Strings :
       SpeltFrame("anthropic", Begins([type |-> "tool_use", id |-> id, name |-> name]))
  /\ SpeltFrame("anthropic", Begins([type |-> "text"]))
  /\ SpeltFrame("anthropic", Begins([type |-> "thinking"]))
  /\ \A type \in {"text_delta", "thinking_delta", "input_json_delta"}, w \in Strings :
       SpeltFrame("anthropic", Goes(type, <<w>>))
  /\ \A proof : SpeltFrame("anthropic", Goes("signature_delta", proof))
  /\ \A stop : SpeltFrame("anthropic", AnthropicStop(stop))
  /\ SpeltFrame("anthropic", AnthropicBegins) /\ SpeltFrame("anthropic", AnthropicEnds)
<1>1. ASSUME NEW block
      PROVE  ReadEvent("anthropic", Begins(block)).events = AnthropicBlockStart(block)
  <2>1. AnthropicEvents("content_block_start", [block |-> block]) = AnthropicBlockStart(block)
    BY DEF AnthropicEvents
  <2>. QED
    BY <2>1, AnthropicFrame DEF Begins
<1>2. ASSUME NEW id \in Strings, NEW name \in Strings
      PROVE  SpeltFrame("anthropic", Begins([type |-> "tool_use", id |-> id, name |-> name]))
  <2>. DEFINE block == [type |-> "tool_use", id |-> id, name |-> name]
  <2>1. AnthropicBlockStart(block) = <<ToolUseStarted(id, name)>>
    BY DEF AnthropicBlockStart
  <2>2. SpeltEvent(ToolUseStarted(id, name))
    BY EventIs
  <2>. HIDE DEF block
  <2>3. SpeltFrame("anthropic", Begins(block))
    BY <1>1, <2>1, <2>2, EventsOne, Zenon DEF SpeltFrame
  <2>. QED
    BY <2>3 DEF block
<1>3. ASSUME NEW type \in {"text", "thinking"}
      PROVE  SpeltFrame("anthropic", Begins([type |-> type]))
  <2>. DEFINE block == [type |-> type]
  <2>1. AnthropicBlockStart(block) = <<>>
    BY DEF AnthropicBlockStart
  <2>. HIDE DEF block
  <2>2. SpeltFrame("anthropic", Begins(block))
    BY <1>1, <2>1, EventsNone, Zenon DEF SpeltFrame
  <2>. QED
    BY <2>2 DEF block
<1>4. ASSUME NEW type, NEW piece
      PROVE  ReadEvent("anthropic", Goes(type, piece)).events
               = AnthropicEvents("content_block_delta", [type |-> type, piece |-> piece])
  BY AnthropicFrame DEF Goes
<1>5. ASSUME NEW type \in {"text_delta", "thinking_delta", "input_json_delta"}, NEW w \in Strings
      PROVE  SpeltFrame("anthropic", Goes(type, <<w>>))
  <2>. DEFINE t == <<w>>
              body == [type |-> type, piece |-> t]
  <2>1. t \in Seq(Strings)
    OBVIOUS
  <2>. HIDE DEF t
  <2>2. body.type = type /\ body.piece = t
    OBVIOUS
  <2>. HIDE DEF body
  <2>3. \/ AnthropicEvents("content_block_delta", body) = <<TextDelta(t)>>
        \/ AnthropicEvents("content_block_delta", body) = <<ThinkingDelta(t)>>
        \/ AnthropicEvents("content_block_delta", body) = <<ToolArgumentsDelta(t)>>
    BY <2>2 DEF AnthropicEvents
  <2>4. SpeltEvent(TextDelta(t)) /\ SpeltEvent(ThinkingDelta(t)) /\ SpeltEvent(ToolArgumentsDelta(t))
    BY <2>1, EventIs
  <2>5. EventList(AnthropicEvents("content_block_delta", body))
    BY <2>3, <2>4, EventsOne, Zenon
  <2>. QED
    BY <1>4, <2>5 DEF SpeltFrame, body, t
<1>6. ASSUME NEW proof PROVE SpeltFrame("anthropic", Goes("signature_delta", proof))
  <2>. DEFINE body == [type |-> "signature_delta", piece |-> proof]
  <2>1. body.type = "signature_delta" /\ body.piece = proof
    OBVIOUS
  <2>. HIDE DEF body
  <2>2. AnthropicEvents("content_block_delta", body) = <<ThinkingSignature(proof)>>
    BY <2>1 DEF AnthropicEvents
  <2>3. EventList(AnthropicEvents("content_block_delta", body))
    BY <2>2, EventIs, EventsOne, Zenon
  <2>. QED
    BY <1>4, <2>3 DEF SpeltFrame, body
<1>7. ASSUME NEW stop PROVE SpeltFrame("anthropic", AnthropicStop(stop))
  <2>. DEFINE body == [stop |-> Some(Spelled("anthropic", stop)),
                       sequence |-> None, usage |-> Some(AnthropicOutput)]
              stops == When(body.stop # None,
                            Stopped(ReadStop(AnthropicStops, body.stop), body.sequence))
              counts == MeteredIfSaid(AnthropicUsage(body.usage))
  <2>1. ReadEvent("anthropic", AnthropicStop(stop)).events = AnthropicEvents("message_delta", body)
    BY AnthropicFrame DEF AnthropicStop
  <2>. HIDE DEF body
  <2>2. AnthropicEvents("message_delta", body) = stops \o counts
    BY DEF AnthropicEvents
  <2>3. EventList(stops) /\ EventList(counts)
    BY EventIs, EventsWhen, MeteredIs
  <2>. HIDE DEF stops, counts
  <2>. QED
    BY <2>1, <2>2, <2>3, EventsBoth DEF SpeltFrame
<1>8. SpeltFrame("anthropic", AnthropicBegins)
  <2>. DEFINE body == [model |-> Some("served"), usage |-> Some(AnthropicPrompt)]
              starts == When(body.model # None, Started(Or(body.model, "")))
              counts == MeteredIfSaid(AnthropicUsage(body.usage))
  <2>1. ReadEvent("anthropic", AnthropicBegins).events = AnthropicEvents("message_start", body)
    BY AnthropicFrame DEF AnthropicBegins
  <2>. HIDE DEF body
  <2>2. AnthropicEvents("message_start", body) = starts \o counts
    BY DEF AnthropicEvents
  <2>3. EventList(starts) /\ EventList(counts)
    BY EventIs, EventsWhen, MeteredIs
  <2>. HIDE DEF starts, counts
  <2>. QED
    BY <2>1, <2>2, <2>3, EventsBoth DEF SpeltFrame
<1>9. SpeltFrame("anthropic", AnthropicEnds)
  <2>1. AnthropicEvents("message_stop", [type |-> "message_stop"]) = <<>>
    BY DEF AnthropicEvents
  <2>. QED
    BY <2>1, AnthropicFrame, EventsNone DEF SpeltFrame, AnthropicEnds
<1>. QED
  BY <1>2, <1>3, <1>5, <1>6, <1>7, <1>8, <1>9

(* The frames of the blocks of a message, but for a signature.             *)
Gone(type) == {Goes(type, <<w>>) : w \in Strings}
AnthropicFrameSet ==
  {Begins([type |-> "text"]), Begins([type |-> "thinking"])}
  \cup {Begins([type |-> "tool_use", id |-> id, name |-> name]) : id \in Strings, name \in Strings}
  \cup Gone("text_delta") \cup Gone("thinking_delta") \cup Gone("input_json_delta")

(* A delta of a block is one of them,                                      *)
LEMMA GoesIn ==
  ASSUME NEW type \in {"text_delta", "thinking_delta", "input_json_delta"}, NEW w \in Strings
  PROVE  Goes(type, <<w>>) \in AnthropicFrameSet
<1>1. Goes(type, <<w>>) \in Gone(type)
  BY DEF Gone
<1>2. Gone(type) \subseteq AnthropicFrameSet
  BY DEF AnthropicFrameSet
<1>. QED
  BY <1>1, <1>2

(* and they are all read in events that are made of strings.               *)
LEMMA AnthropicFrameSetIs ==
  ASSUME NEW x \in AnthropicFrameSet
  PROVE  SpeltFrame("anthropic", x)
<1>1. CASE x \in {Begins([type |-> "text"]), Begins([type |-> "thinking"])}
  BY <1>1, AnthropicFramesAre
<1>2. CASE x \in {Begins([type |-> "tool_use", id |-> id, name |-> name]) :
                    id \in Strings, name \in Strings}
  <2>1. PICK id \in Strings, name \in Strings :
          x = Begins([type |-> "tool_use", id |-> id, name |-> name])
    BY <1>2
  <2>2. SpeltFrame("anthropic", Begins([type |-> "tool_use", id |-> id, name |-> name]))
    BY AnthropicFramesAre
  <2>. QED
    BY <2>1, <2>2, Zenon
<1>3. ASSUME NEW type \in {"text_delta", "thinking_delta", "input_json_delta"}, x \in Gone(type)
      PROVE  SpeltFrame("anthropic", x)
  <2>1. PICK w \in Strings : x = Goes(type, <<w>>)
    BY <1>3 DEF Gone
  <2>2. SpeltFrame("anthropic", Goes(type, <<w>>))
    BY AnthropicFramesAre
  <2>. QED
    BY <2>1, <2>2, Zenon
<1>. QED
  BY <1>1, <1>2, <1>3 DEF AnthropicFrameSet

(* An answer that is streamed as a message.                                *)
LEMMA AnthropicStreams ==
  ASSUME NEW answer, AnswerList(answer.blocks)
  PROVE  EventList(TheEvents("anthropic", answer))
<1>. DEFINE blocks == answer.blocks
            B == ToSet(blocks)
            Starts(block) == Frame("content_block_start", [block |-> block])
            OneDelta(type, piece) == Frame("content_block_delta", [type |-> type, piece |-> piece])
            AllDeltas(type, text) == [i \in DOMAIN text |-> OneDelta(type, <<text[i]>>)]
            SaysOne(block) ==
              (CASE block.kind = "text" ->
                      <<Starts([type |-> "text"])>> \o AllDeltas("text_delta", block.text)
                 [] block.kind = "thinking" ->
                      <<Starts([type |-> "thinking"])>> \o AllDeltas("thinking_delta", block.text)
                      \o <<OneDelta("signature_delta", block.proof)>>
                 [] block.kind = "tool_use" ->
                      <<Starts([type |-> "tool_use", id |-> block.id, name |-> block.name])>>
                      \o AllDeltas("input_json_delta", block.pieces)
                 [] block.kind = "redacted" ->
                      <<Starts([type |-> "redacted", raw |-> block.raw])>>)
            saying == [b \in B |-> SaysOne(b)]
            said == FlattenSeq([i \in DOMAIN blocks |-> SaysOne(blocks[i])])
            ends == <<AnthropicStop(answer.stop), AnthropicEnds>>
            frames == <<AnthropicBegins>> \o said \o ends
            S == AnthropicFrameSet \cup {Goes("signature_delta", b.proof) : b \in B}
            F == S \cup {AnthropicBegins, AnthropicStop(answer.stop), AnthropicEnds}
<1>1. blocks \in Seq(B) /\ \A b \in B : SpeltBlock(b)
  BY Zenon DEF AnswerList, ToSet
<1>2. AnthropicFrames(answer) = frames
  BY DEF AnthropicFrames, Each, AnthropicBegins, AnthropicStop, AnthropicEnds
<1>3. ASSUME NEW type \in {"text_delta", "thinking_delta", "input_json_delta"},
             NEW text \in Seq(Strings)
      PROVE  AllDeltas(type, text) \in Seq(S)
  <2>. DEFINE goes == [w \in Strings |-> Goes(type, <<w>>)]
  <2>1. ASSUME NEW w \in Strings PROVE goes[w] \in S
    <3>1. goes[w] = Goes(type, <<w>>)
      OBVIOUS
    <3>. HIDE DEF goes
    <3>. QED
      BY <3>1, GoesIn
  <2>2. AllDeltas(type, text) = [i \in DOMAIN text |-> goes[text[i]]]
    BY DEF Goes
  <2>. HIDE DEF goes, S, AllDeltas
  <2>. QED
    BY <2>1, <2>2, EachOf
<1>4. \A b \in B : saying[b] \in Seq(S)
  <2>. SUFFICES ASSUME NEW b \in B PROVE SaysOne(b) \in Seq(S)
    OBVIOUS
  <2>0. /\ b.kind \in {"text", "thinking", "tool_use"}
        /\ b.kind # "tool_use" => b.text \in Seq(Strings)
        /\ b.kind = "tool_use" =>
             b.id \in Strings /\ b.name \in Strings /\ b.pieces \in Seq(Strings)
    BY <1>1, BlockKinds
  <2>. HIDE DEF AllDeltas
  <2>1. CASE b.kind = "text"
    <3>. DEFINE first == Begins([type |-> "text"])
                goes == AllDeltas("text_delta", b.text)
    <3>1. SaysOne(b) = <<first>> \o goes
      BY <2>1 DEF Begins
    <3>2. first \in S
      BY DEF AnthropicFrameSet
    <3>. HIDE DEF first, S, SaysOne
    <3>3. goes \in Seq(S)
      BY <1>3, <2>0, <2>1
    <3>. HIDE DEF goes
    <3>. QED
      BY <3>1, <3>2, <3>3
  <2>2. CASE b.kind = "thinking"
    <3>. DEFINE first == Begins([type |-> "thinking"])
                goes == AllDeltas("thinking_delta", b.text)
                proof == Goes("signature_delta", b.proof)
    <3>1. SaysOne(b) = <<first>> \o goes \o <<proof>>
      BY <2>2 DEF Begins, Goes
    <3>2. first \in S /\ proof \in S
      BY DEF AnthropicFrameSet
    <3>. HIDE DEF first, proof, S, SaysOne
    <3>3. goes \in Seq(S)
      BY <1>3, <2>0, <2>2
    <3>. HIDE DEF goes
    <3>. QED
      BY <3>1, <3>2, <3>3
  <2>3. CASE b.kind = "tool_use"
    <3>. DEFINE first == Begins([type |-> "tool_use", id |-> b.id, name |-> b.name])
                goes == AllDeltas("input_json_delta", b.pieces)
    <3>1. SaysOne(b) = <<first>> \o goes
      BY <2>3 DEF Begins
    <3>2. first \in S
      BY <2>0, <2>3 DEF AnthropicFrameSet
    <3>. HIDE DEF first, S, SaysOne
    <3>3. goes \in Seq(S)
      BY <1>3, <2>0, <2>3
    <3>. HIDE DEF goes
    <3>. QED
      BY <3>1, <3>2, <3>3
  <2>. QED
    BY <2>0, <2>1, <2>2, <2>3
<1>5. \A x \in F : EventList(ReadEvent("anthropic", x).events)
  <2>1. \A x \in AnthropicFrameSet : SpeltFrame("anthropic", x)
    BY AnthropicFrameSetIs
  <2>2. \A x \in F : SpeltFrame("anthropic", x)
    BY <2>1, AnthropicFramesAre
  <2>. QED
    BY <2>2 DEF SpeltFrame
<1>. HIDE DEF B, SaysOne, Starts, OneDelta, AllDeltas
<1>6. said \in Seq(S)
  <2>1. [i \in DOMAIN blocks |-> SaysOne(blocks[i])] = [i \in DOMAIN blocks |-> saying[blocks[i]]]
    BY <1>1
  <2>. HIDE DEF saying, blocks, S
  <2>. QED
    BY <1>1, <1>4, <2>1, AllOf
<1>7. frames \in Seq(F)
  <2>1. S \subseteq F /\ <<AnthropicBegins>> \in Seq(F) /\ ends \in Seq(F)
    OBVIOUS
  <2>. HIDE DEF said, ends, S, F
  <2>. QED
    BY <1>6, <2>1
<1>8. Streamed("anthropic", answer, FALSE) = frames
  BY <1>2 DEF Streamed
<1>. HIDE DEF frames, F
<1>. QED
  BY <1>5, <1>7, <1>8, FramesRead

(* What is read of a part is made of strings.                              *)
GeminiSpelt(p) == EventList(GeminiPartEvents(p))

(* A part that asks for a call, or says a word, as it is or as a thought.  *)
LEMMA GeminiPartsAre ==
  /\ \A b : SpeltBlock(b) /\ b.kind = "tool_use" => GeminiSpelt(GeminiAsks(b))
  /\ \A w \in Strings : GeminiSpelt(GeminiSays(<<w>>, TRUE)) /\ GeminiSpelt(GeminiSays(<<w>>, FALSE))
<1>1. ASSUME NEW b, SpeltBlock(b), b.kind = "tool_use" PROVE GeminiSpelt(GeminiAsks(b))
  <2>. DEFINE w == GeminiAsks(b)
              call == [id |-> None, name |-> b.name, args |-> Some(InputOf(b.pieces))]
              starts == ToolUseStarted(Or(call.id, ""), call.name)
              goes == ToolArgumentsDelta(ToStr(Or(call.args, EmptyObject)))
  <2>1. w.text = None /\ w.call = Some(call)
    BY DEF GeminiAsks, InputOf
  <2>2. call.id = None /\ call.name = b.name /\ call.args = Some(InputOf(b.pieces))
    OBVIOUS
  <2>. HIDE DEF w, call
  <2>3. GeminiPartEvents(w) = <<starts, goes>>
    BY <2>1, OptionIs, Zenon DEF GeminiPartEvents
  <2>4. Or(call.id, "") = "" /\ Or(call.args, EmptyObject) = InputOf(b.pieces)
    BY <2>2, OptionIs, Zenon
  <2>5. "" \in Strings
    BY DEF Strings
  <2>6. b.name \in Strings /\ ToStr(InputOf(b.pieces)) \in Seq(Strings)
    BY <1>1, BlockKinds, InputIs
  <2>7. SpeltEvent(starts) /\ SpeltEvent(goes)
    BY <2>2, <2>4, <2>5, <2>6, EventIs
  <2>. HIDE DEF starts, goes
  <2>8. EventList(<<starts>> \o <<goes>>)
    BY <2>7, EventsOne, EventsBoth
  <2>9. EventList(GeminiPartEvents(w))
    BY <2>3, <2>8, PairIs, Zenon
  <2>. QED
    BY <2>9 DEF w, GeminiSpelt
<1>2. ASSUME NEW w \in Strings, NEW thought \in BOOLEAN
      PROVE  GeminiSpelt(GeminiSays(<<w>>, thought))
  <2>. DEFINE t == <<w>>
              p == GeminiSays(t, thought)
  <2>1. t \in Seq(Strings)
    OBVIOUS
  <2>. HIDE DEF t
  <2>2. p.text = Some(t)
    BY DEF GeminiSays
  <2>. HIDE DEF p
  <2>3. GeminiPartEvents(p) = <<ThinkingDelta(t)>>
          \/ GeminiPartEvents(p) = When(t # <<>>, TextDelta(t))
    BY <2>2, OptionIs, Zenon DEF GeminiPartEvents
  <2>4. SpeltEvent(ThinkingDelta(t)) /\ SpeltEvent(TextDelta(t))
    BY <2>1, EventIs, Zenon
  <2>5. EventList(<<ThinkingDelta(t)>>) /\ EventList(When(t # <<>>, TextDelta(t)))
    BY <2>4, EventsOne, EventsWhen
  <2>6. EventList(GeminiPartEvents(p))
    BY <2>3, <2>5, Zenon
  <2>. QED
    BY <2>6 DEF GeminiSpelt, p, t
<1>. QED
  BY <1>1, <1>2

(* A frame of one such part is read in events that are made of strings.    *)
LEMMA GeminiEventsAre ==
  ASSUME NEW body, NEW p, body.parts = <<p>>, GeminiSpelt(p)
  PROVE  EventList(GeminiEvents(body))
<1>. DEFINE list == <<p>>
            f == [x \in {p} |-> GeminiPartEvents(x)]
            s1 == When(body.model # None, Started(Or(body.model, "")))
            s2 == FlattenSeq([i \in DOMAIN list |-> GeminiPartEvents(list[i])])
            s3 == When(body.finish # None, Stopped(ReadStop(GeminiStops, body.finish), None))
            s4 == MeteredIfSaid(GeminiUsage(body.usage))
<1>1. body.parts = list
  OBVIOUS
<1>2. list \in Seq({p})
  OBVIOUS
<1>3. \A x \in {p} : EventList(f[x])
  BY DEF GeminiSpelt
<1>4. [i \in DOMAIN list |-> GeminiPartEvents(list[i])] = [i \in DOMAIN list |-> f[list[i]]]
  OBVIOUS
<1>5. EventList(s2)
  <2>. HIDE DEF f, list
  <2>. QED
    BY <1>2, <1>3, <1>4, EventsAll
<1>. HIDE DEF list
<1>6. GeminiEvents(body) = s1 \o s2 \o s3 \o s4
  BY <1>1 DEF GeminiEvents
<1>7. EventList(s1) /\ EventList(s3) /\ EventList(s4)
  BY EventIs, EventsWhen, MeteredIs
<1>. HIDE DEF s1, s2, s3, s4
<1>8. EventList(s1 \o s2)
  BY <1>5, <1>7, EventsBoth
<1>9. EventList(s1 \o s2 \o s3)
  BY <1>7, <1>8, EventsBoth
<1>. QED
  BY <1>6, <1>7, <1>9, EventsBoth

(* An answer that is streamed as parts.                                    *)
LEMMA GeminiStreams ==
  ASSUME NEW answer, AnswerList(answer.blocks)
  PROVE  EventList(TheEvents("gemini", answer))
<1>. DEFINE blocks == answer.blocks
            B == ToSet(blocks)
            Parts(block) ==
              IF block.kind = "tool_use" THEN <<GeminiAsks(block)>>
              ELSE [i \in DOMAIN block.text |->
                      GeminiSays(<<block.text[i]>>, block.kind = "thinking")]
            making == [b \in B |-> Parts(b)]
            parts == FlattenSeq([i \in DOMAIN blocks |-> Parts(blocks[i])])
            last == Len(parts)
            BodyOf(i) ==
              [GeminiBody EXCEPT
                 !.parts = <<parts[i]>>,
                 !.finish = IF i = last THEN Some(Spelled("gemini", answer.stop)) ELSE None,
                 !.usage = IF i = last \/ FALSE THEN GeminiTotals ELSE None]
            bodies == [i \in 1..last |-> BodyOf(i)]
            frames == Unnamed(bodies)
            S == {GeminiAsks(b) : b \in {c \in B : c.kind = "tool_use"}}
                 \cup {GeminiSays(<<w>>, TRUE) : w \in Strings}
                 \cup {GeminiSays(<<w>>, FALSE) : w \in Strings}
<1>1. blocks \in Seq(B) /\ \A b \in B : SpeltBlock(b)
  BY Zenon DEF AnswerList, ToSet
<1>2. GeminiFrames(answer, FALSE) = frames
  BY Zenon DEF GeminiFrames, Each
<1>3. ASSUME NEW p \in S PROVE GeminiSpelt(p)
  <2>1. CASE p \in {GeminiAsks(b) : b \in {c \in B : c.kind = "tool_use"}}
    BY <1>1, <2>1, GeminiPartsAre
  <2>2. CASE p \in {GeminiSays(<<w>>, TRUE) : w \in Strings}
    BY <2>2, GeminiPartsAre
  <2>3. CASE p \in {GeminiSays(<<w>>, FALSE) : w \in Strings}
    BY <2>3, GeminiPartsAre
  <2>. QED
    BY <2>1, <2>2, <2>3, Zenon
<1>4. \A b \in B : making[b] \in Seq(S)
  <2>. SUFFICES ASSUME NEW b \in B PROVE Parts(b) \in Seq(S)
    OBVIOUS
  <2>1. CASE b.kind = "tool_use"
    <3>. DEFINE asks == GeminiAsks(b)
    <3>1. asks \in S /\ Parts(b) = <<asks>>
      BY <2>1
    <3>. HIDE DEF asks, S, Parts
    <3>. QED
      BY <3>1
  <2>2. CASE b.kind # "tool_use"
    <3>. DEFINE thought == b.kind = "thinking"
                says == [w \in Strings |-> GeminiSays(<<w>>, thought)]
    <3>1. b.text \in Seq(Strings)
      BY <1>1, <2>2, BlockKinds
    <3>2. thought = TRUE \/ thought = FALSE
      OBVIOUS
    <3>3. Parts(b) = [i \in DOMAIN b.text |-> says[b.text[i]]]
      BY <2>2, <3>1
    <3>. HIDE DEF thought
    <3>4. \A w \in Strings : says[w] \in S
      BY <3>2
    <3>. HIDE DEF says, S, Parts
    <3>. QED
      BY <3>1, <3>3, <3>4, EachOf
  <2>. QED
    BY <2>1, <2>2
<1>. HIDE DEF B, Parts
<1>5. parts \in Seq(S)
  <2>1. [i \in DOMAIN blocks |-> Parts(blocks[i])] = [i \in DOMAIN blocks |-> making[blocks[i]]]
    BY <1>1
  <2>. HIDE DEF making, blocks, S
  <2>. QED
    BY <1>1, <1>4, <2>1, AllOf
<1>. HIDE DEF parts, S
<1>6. last \in Nat /\ \A i \in 1..last : parts[i] \in S
  BY <1>5
<1>7. ASSUME NEW i \in 1..last
      PROVE  EventList(ReadEvent("gemini", Frame("", BodyOf(i))).events)
  <2>1. BodyOf(i).parts = <<parts[i]>>
    BY DEF GeminiBody
  <2>2. GeminiSpelt(parts[i])
    BY <1>3, <1>6
  <2>. HIDE DEF BodyOf
  <2>3. Frame("", BodyOf(i)).data = "json" /\ Frame("", BodyOf(i)).body = BodyOf(i)
    BY DEF Frame
  <2>4. ReadEvent("gemini", Frame("", BodyOf(i))).events = GeminiEvents(BodyOf(i))
    BY <2>3 DEF ReadEvent
  <2>. QED
    BY <2>1, <2>2, <2>4, GeminiEventsAre
<1>. HIDE DEF BodyOf
<1>8. DOMAIN bodies = 1..last /\ DOMAIN frames = 1..last
      /\ \A i \in 1..last : frames[i] = Frame("", BodyOf(i))
  BY DEF Unnamed
<1>9. frames = [i \in DOMAIN frames |-> frames[i]]
  BY DEF Unnamed
<1>10. Streamed("gemini", answer, FALSE) = frames
  BY <1>2 DEF Streamed
<1>. HIDE DEF last, bodies, frames
<1>11. frames \in Seq(ToSet(frames))
  BY <1>6, <1>8, <1>9, IsList
<1>12. \A x \in ToSet(frames) : EventList(ReadEvent("gemini", x).events)
  BY <1>7, <1>8 DEF ToSet
<1>. QED
  BY <1>10, <1>11, <1>12, FramesRead

(* A stream is read in events that are made of strings, whichever vendor it*)
(* is of: the frames of its own, or the replay of what Bedrock answered.   *)
LEMMA EventsAreSpelt ==
  ASSUME NEW vendor \in Vendor, NEW answer, AnswerList(answer.blocks),
         Readable(vendor, answer, TRUE)
  PROVE  EventList(TheEvents(vendor, answer))
<1>1. CASE vendor = "bedrock"
  <2>. DEFINE read == Read(vendor, Whole(vendor, answer), "asked")
  <2>1. read # None
    BY <1>1 DEF Readable
  <2>2. SaidList(read[1].blocks)
    BY <2>1, WholeIsSpelt
  <2>3. TheEvents(vendor, answer) = ReplayStream(read[1])
    BY <1>1, Zenon DEF TheEvents
  <2>. HIDE DEF read
  <2>. QED
    BY <2>2, <2>3, ReplayIs
<1>. QED
  BY <1>1, OpenAIStreams, AnthropicStreams, GeminiStreams DEF Vendor

(* What Told gives a client of an answer made of strings is made of strings,*)
(* streamed or whole, so the turn it keeps can be read back.               *)
LEMMA ToldIs ==
  ASSUME NEW vendor \in Vendor, NEW answer, AnswerList(answer.blocks), NEW stream \in BOOLEAN,
         Readable(vendor, answer, stream)
  PROVE  /\ Told(vendor, answer, stream).content \in Seq(Strings)
         /\ CallList(Told(vendor, answer, stream).calls)
<1>. DEFINE told == Told(vendor, answer, stream)
<1>1. CASE stream
  <2>. DEFINE events == TheEvents(vendor, answer)
              chunks == Retold(events).chunks
  <2>0. stream = TRUE
    BY <1>1
  <2>1. EventList(events)
    BY <2>0, EventsAreSpelt
  <2>2. told = Understood(chunks)
    BY <1>1, Zenon DEF Told, Retold
  <2>. HIDE DEF told, events
  <2>3. ChunkList(chunks)
    BY <2>1, RetoldIs
  <2>. HIDE DEF chunks
  <2>4. told.content \in Seq(Strings) /\ CallList(told.calls)
    BY <2>2, <2>3, UnderstoodIs
  <2>. QED
    BY <2>4 DEF told
<1>2. CASE ~stream
  <2>. DEFINE read == Read(vendor, Whole(vendor, answer), "asked")
              whole == WriteResponse(read[1])
  <2>1. read # None
    BY <1>2, Zenon DEF Readable
  <2>2. SaidList(read[1].blocks)
    BY <2>1, WholeIsSpelt
  <2>3. told = [content |-> Or(whole.content, <<>>), calls |-> whole.calls]
    BY <1>2, Zenon DEF Told
  <2>. HIDE DEF told, read
  <2>4. Or(whole.content, <<>>) \in Seq(Strings) /\ CallList(whole.calls)
    BY <2>2, ResponseIs
  <2>. HIDE DEF whole
  <2>5. told.content \in Seq(Strings) /\ CallList(told.calls)
    BY <2>3, <2>4
  <2>. QED
    BY <2>5 DEF told
<1>. QED
  BY <1>1, <1>2

-----------------------------------------------------------------------------
(* What a client holds is made of strings, and goes back as it was told    *)

SpeltList(s) == s \in Seq(ToSet(s)) /\ \A i \in DOMAIN s : SpeltMessage(s[i])

(* Lists that are spelt are spelt together,                                *)
LEMMA SpeltBoth ==
  ASSUME NEW s, NEW t, SpeltList(s), SpeltList(t)
  PROVE  SpeltList(s \o t)
<1>. DEFINE S == ToSet(s) \cup ToSet(t)
            u == s \o t
<1>1. \A m \in S : SpeltMessage(m)
  BY Zenon DEF SpeltList, ToSet
<1>2. s \in Seq(S) /\ t \in Seq(S)
  <2>1. s \in Seq(ToSet(s)) /\ t \in Seq(ToSet(t))
    BY DEF SpeltList
  <2>2. ToSet(s) \subseteq S /\ ToSet(t) \subseteq S
    OBVIOUS
  <2>. HIDE DEF S
  <2>. QED
    BY <2>1, <2>2
<1>. HIDE DEF S
<1>3. u \in Seq(S)
  BY <1>2
<1>. HIDE DEF u
<1>4. u \in Seq(ToSet(u)) /\ \A i \in DOMAIN u : u[i] \in S
  BY <1>3, ListOfItself
<1>5. SpeltList(u)
  BY <1>1, <1>4 DEF SpeltList
<1>. QED
  BY <1>5 DEF u

(* and with one more message that is.                                      *)
LEMMA SpeltMore ==
  ASSUME NEW s, NEW m, SpeltList(s), SpeltMessage(m)
  PROVE  SpeltList(Append(s, m)) /\ SpeltList(<<m>>)
<1>1. SpeltList(Append(s, m))
  <2>. DEFINE t == Append(s, m)
  <2>1. /\ t \in Seq(ToSet(t)) /\ Len(s) \in Nat /\ DOMAIN s = 1..Len(s)
        /\ DOMAIN t = 1..Len(s) + 1 /\ t[Len(s) + 1] = m
        /\ \A i \in 1..Len(s) : t[i] = s[i]
    BY Longer DEF SpeltList
  <2>. HIDE DEF t
  <2>2. \A i \in DOMAIN t : t[i] = m \/ (i \in DOMAIN s /\ t[i] = s[i])
    BY <2>1
  <2>3. SpeltList(t)
    BY <2>1, <2>2 DEF SpeltList
  <2>. QED
    BY <2>3 DEF t
<1>2. SpeltList(<<m>>)
  <2>1. <<m>> \in Seq({m})
    OBVIOUS
  <2>2. <<m>> \in Seq(ToSet(<<m>>))
    BY <2>1, ListOfItself
  <2>3. \A i \in DOMAIN <<m>> : <<m>>[i] = m
    OBVIOUS
  <2>. QED
    BY <2>2, <2>3 DEF SpeltList
<1>. QED
  BY <1>1, <1>2

(* No messages are spelt.                                                  *)
LEMMA SpeltNone ==
  SpeltList(<<>>) /\ CallList(<<>>)
<1>. DEFINE s == <<>>
<1>1. s \in Seq(ToSet(s)) /\ DOMAIN s = {}
  OBVIOUS
<1>. HIDE DEF s
<1>2. SpeltList(s) /\ CallList(s)
  BY <1>1 DEF SpeltList, CallList
<1>. QED
  BY <1>2 DEF s

(* A message of text, and of calls.                                        *)
TextMessage(role, w, calls, id) ==
  [role |-> role, content |-> Some(<<[type |-> "text", text |-> w]>>), calls |-> calls, id |-> id]

(* It is spelt, and its text is what it was made of.                       *)
LEMMA TextSpelt ==
  ASSUME NEW role, NEW w \in Seq(Strings), NEW calls, CallList(calls), NEW id,
         id = None \/ \E x \in Strings : id = Some(x)
  PROVE  LET m == TextMessage(role, w, calls, id) IN
         /\ SpeltMessage(m) /\ TextOf(m.content) = Some(w)
         /\ m.role = role /\ m.calls = calls /\ m.id = id
<1>. DEFINE m == TextMessage(role, w, calls, id)
            p == [type |-> "text", text |-> w]
            parts == <<p>>
<1>1. m.content = Some(parts) /\ m.role = role /\ m.calls = calls /\ m.id = id
  BY DEF TextMessage
<1>2. p.type = "text" /\ p.text = w
  OBVIOUS
<1>. HIDE DEF p
<1>3. parts \in Seq({p}) /\ DOMAIN parts = {1} /\ parts[1] = p
  OBVIOUS
<1>. HIDE DEF m, parts
<1>4. Or(m.content, <<>>) = parts
  BY <1>1, SomeHas DEF Or
<1>5. parts \in Seq(ToSet(parts)) /\ \A i \in DOMAIN parts : SpeltPart(parts[i])
  BY <1>2, <1>3, ListOfItself DEF SpeltPart
<1>6. Optional(m.content) /\ Optional(m.id) /\ (m.id # None => m.id[1] \in Strings)
  BY <1>1, SomeHas DEF Optional
<1>7. SpeltMessage(m)
  BY <1>1, <1>4, <1>5, <1>6, Zenon DEF SpeltMessage, CallList
<1>8. FlattenSeq([i \in DOMAIN parts |-> IF parts[i].type = "text" THEN parts[i].text ELSE <<>>]) = w
  <2>. DEFINE r == <<>>
  <2>1. r \in Seq(Seq(Strings)) /\ r \o w = w
    OBVIOUS
  <2>2. FlattenSeq(Append(r, w)) = FlattenSeq(r) \o w
    <3>. HIDE DEF r
    <3>. QED
      BY <2>1, FlattenMore
  <2>3. [i \in DOMAIN parts |-> IF parts[i].type = "text" THEN parts[i].text ELSE <<>>] = Append(r, w)
    BY <1>2, <1>3
  <2>. QED
    BY <2>1, <2>2, <2>3, FlattenNone
<1>9. ~(\E i \in DOMAIN parts : parts[i].type \notin {"text", "refusal"})
  BY <1>2, <1>3
<1>10. TextOf(m.content) = Some(w)
  BY <1>4, <1>8, <1>9, Zenon DEF TextOf
<1>. QED
  BY <1>1, <1>7, <1>10 DEF m

ResultOf(call) == TextMessage("tool", <<call.name>>, <<>>, Some(call.id))

(* The result of a call is a message of a tool.                            *)
LEMMA ResultSpelt ==
  ASSUME NEW call, SpeltCall(call)
  PROVE  /\ SpeltMessage(ResultOf(call)) /\ ResultOf(call).role = "tool"
         /\ TextOf(ResultOf(call).content) # None /\ ResultOf(call).id # None
<1>1. <<call.name>> \in Seq(Strings) /\ call.id \in Strings
  BY DEF SpeltCall
<1>. DEFINE w == <<call.name>>
<1>. HIDE DEF w
<1>2. w \in Seq(Strings) /\ \E x \in Strings : Some(call.id) = Some(x)
  BY <1>1 DEF w
<1>3. LET m == TextMessage("tool", w, <<>>, Some(call.id)) IN
      /\ SpeltMessage(m) /\ TextOf(m.content) = Some(w)
      /\ m.role = "tool" /\ m.id = Some(call.id)
  BY <1>2, TextSpelt, SpeltNone
<1>. QED
  BY <1>3, SomeHas, Zenon DEF ResultOf, w

(* The results of a client's calls are spelt, and can always be read.      *)
ResultsRead(calls) ==
  /\ SpeltList(Results(calls))
  /\ \A s : SpeltList(s) /\ ~ReadMessages(s).wrong => ~ReadMessages(s \o Results(calls)).wrong

(* A result that has text and an id can be read.                           *)
LEMMA ToolNotWrong ==
  ASSUME NEW read \in Readings, Holding(read), NEW m, SpeltMessage(m), m.role = "tool",
         TextOf(m.content) # None, m.id # None, ~read.wrong
  PROVE  ~ReadNext(read, m).wrong
<1>. DEFINE c == <<ToolResult(m.id[1], TextOf(m.content)[1])>>
            t == Turn(read, c)
<1>1. c \in Seq(Content("user"))
  BY ToolRead
<1>2. ReadNext(read, m) = [t EXCEPT !.holds = TRUE]
  BY DEF ReadNext, ReadMessage
<1>. HIDE DEF c
<1>3. t \in Readings /\ t.wrong = read.wrong
  BY <1>1, TurnRead
<1>. HIDE DEF t
<1>4. [t EXCEPT !.holds = TRUE].wrong = t.wrong
  BY <1>3, HoldsSet
<1>. QED
  BY <1>2, <1>3, <1>4

(* So the results of any calls can be.                                     *)
LEMMA ResultsAreRead ==
  ASSUME NEW C, \A call \in C : SpeltCall(call)
  PROVE  \A calls \in Seq(C) : ResultsRead(calls)
<1>. DEFINE Good == {calls \in Seq(C) : ResultsRead(calls)}
<1>1. <<>> \in Good
  <2>1. Results(<<>>) = <<>>
    BY DEF Results
  <2>2. <<>> \in Seq(C)
    OBVIOUS
  <2>3. ASSUME NEW s, SpeltList(s) PROVE s \o <<>> = s
    <3>1. s \in Seq(ToSet(s))
      BY <2>3 DEF SpeltList
    <3>. QED
      BY <3>1
  <2>. QED
    BY <2>1, <2>2, <2>3, SpeltNone DEF ResultsRead
<1>2. ASSUME NEW r \in Seq(C), NEW e \in C, r \in Good
      PROVE  Append(r, e) \in Good
  <2>. DEFINE t == Append(r, e)
              one == [call \in C |-> ResultOf(call)]
              Those == {ResultOf(call) : call \in C}
              rs == Results(r)
              m == ResultOf(e)
  <2>1. /\ t \in Seq(C) /\ DOMAIN t = 1..Len(r) + 1 /\ DOMAIN r = 1..Len(r) /\ Len(r) \in Nat
        /\ \A i \in DOMAIN t : t[i] \in C
        /\ \A i \in DOMAIN r : r[i] \in C
    OBVIOUS
  <2>2. Results(t) = Append(rs, m)
    <3>1. one \in [C -> Those] /\ one[e] = m
      OBVIOUS
    <3>2. rs = [i \in DOMAIN r |-> one[r[i]]]
      <4>1. rs = [i \in DOMAIN r |-> ResultOf(r[i])]
        BY DEF Results, ResultOf, TextMessage
      <4>. HIDE DEF rs
      <4>. QED
        BY <2>1, <4>1
    <3>3. Results(t) = [i \in DOMAIN t |-> one[t[i]]]
      <4>1. Results(t) = [i \in DOMAIN t |-> ResultOf(t[i])]
        BY DEF Results, ResultOf, TextMessage
      <4>. HIDE DEF t
      <4>. QED
        BY <2>1, <4>1
    <3>. HIDE DEF one, rs, m, Those
    <3>. QED
      BY <3>1, <3>2, <3>3, EachMore
  <2>3. SpeltList(rs) /\ SpeltMessage(m) /\ m.role = "tool"
        /\ TextOf(m.content) # None /\ m.id # None
        /\ \A s : SpeltList(s) /\ ~ReadMessages(s).wrong => ~ReadMessages(s \o rs).wrong
    BY <1>2, ResultSpelt DEF ResultsRead
  <2>. HIDE DEF rs, t, m
  <2>4. SpeltList(Append(rs, m))
    BY <2>3, SpeltMore
  <2>5. ASSUME NEW s, SpeltList(s), ~ReadMessages(s).wrong
        PROVE  ~ReadMessages(s \o Append(rs, m)).wrong
    <3>. DEFINE u == s \o rs
                read == ReadMessages(u)
                S == ToSet(u) \cup {m}
    <3>1. SpeltList(u) /\ ~read.wrong
      BY <2>3, <2>5, SpeltBoth
    <3>2. s \o Append(rs, m) = Append(u, m)
      <4>1. s \in Seq(ToSet(s)) /\ rs \in Seq(ToSet(rs))
        BY <2>3, <2>5 DEF SpeltList
      <4>2. s \in Seq(ToSet(s) \cup ToSet(rs) \cup {m}) /\ rs \in Seq(ToSet(s) \cup ToSet(rs) \cup {m})
        BY <4>1
      <4>. QED
        BY <4>2
    <3>. HIDE DEF u
    <3>3. u \in Seq(S) /\ m \in S
      <4>1. u \in Seq(ToSet(u))
        BY <3>1 DEF SpeltList
      <4>. QED
        BY <4>1
    <3>4. \A x \in S : SpeltMessage(x)
      BY <2>3, <3>1, Zenon DEF SpeltList, ToSet
    <3>. HIDE DEF S
    <3>5. ReadMessages(Append(u, m)) = ReadNext(read, m)
      BY <3>3, ReadsMore
    <3>6. read \in Readings /\ Holding(read)
      BY <3>3, <3>4, ConversationRead DEF ReadsTrue
    <3>. HIDE DEF read
    <3>. QED
      BY <2>3, <3>1, <3>2, <3>5, <3>6, ToolNotWrong
  <2>6. ResultsRead(t)
    BY <2>2, <2>4, <2>5, Zenon DEF ResultsRead
  <2>. QED
    BY <2>1, <2>6 DEF t
<1>. HIDE DEF Good
<1>3. \A calls \in Seq(C) : calls \in Good
  BY <1>1, <1>2, ListInduct
<1>. QED
  BY <1>3 DEF Good

-----------------------------------------------------------------------------
(* The inductive invariant: what the client holds is spelt, what is asked   *)
(* is all of it, and who is asked is one of those who are known; and what   *)
(* was told can be read.                                                    *)
Failures == {None, Some("invalid"), Some("transient"), Some("unreadable")}
Talk ==
  /\ SpeltList(conversation) /\ CallList(pending)
  /\ routes \in Seq(AllRoutes) /\ failed \in Failures
  /\ asked # None => SpeltList(asked[1].messages)
  /\ request # None => asked[1].messages = conversation
ReadBack ==
  outcome = Answered /\ ReadMessages(conversation \o Results(pending)).wrong =>
    \E i \in DOMAIN conversation : SaidNothing(conversation[i])
TInv == IInv /\ Talk /\ ReadBack

(* Nothing else ends like an answer.                                       *)
LEMMA AnsweredIs ==
  /\ \A code, param : Ended(code, param) = Answered <=> code = "answered" /\ param = None
  /\ None # Answered
<1>1. \A code, param : Ended(code, param) = Some([code |-> code, param |-> param])
  BY DEF Ended
<1>2. Answered = Some([code |-> "answered", param |-> None])
  BY DEF Answered, Ended
<1>3. ASSUME NEW code, NEW param
      PROVE  Ended(code, param) = Answered <=> code = "answered" /\ param = None
  <2>. DEFINE r == [code |-> code, param |-> param]
              a == [code |-> "answered", param |-> None]
  <2>1. r = a <=> code = "answered" /\ param = None
    OBVIOUS
  <2>2. Ended(code, param) = Some(r) /\ Answered = Some(a)
    BY <1>1, <1>2
  <2>. HIDE DEF r, a
  <2>3. Some(r) = Some(a) <=> r = a
    BY DEF Some
  <2>. QED
    BY <2>1, <2>2, <2>3
<1>. QED
  BY <1>2, <1>3, SomeHas

(* A client that has not asked holds nothing.                              *)
LEMMA InitTalk ==
  Init => Talk /\ ReadBack
<1>. SUFFICES ASSUME Init
              PROVE  Talk /\ ReadBack
  OBVIOUS
<1>1. routes \in Seq(AllRoutes)
  BY DEF Init
<1>2. Talk
  BY <1>1, SpeltNone DEF Init, Talk, Failures
<1>3. ReadBack
  <2>1. Results(pending) = <<>>
    BY DEF Init, Results
  <2>2. conversation \o Results(pending) = <<>>
    BY <2>1 DEF Init
  <2>3. ~ReadMessages(<<>>).wrong
    BY ReadsNone DEF NoMessages
  <2>. QED
    BY <2>2, <2>3, Zenon DEF ReadBack
<1>. QED
  BY <1>2, <1>3

(* A name resolves to routes that are known.                               *)
LEMMA ResolveIs ==
  ASSUME NEW name, Resolve(name).error = None
  PROVE  Resolve(name).routes \in Seq(AllRoutes)
<1>1. CASE name \in DOMAIN Sets
  <2>. DEFINE list == Sets[name].routes
  <2>1. list \in Seq(ToSet(list)) /\ ToSet(list) \subseteq AllRoutes
    BY <1>1, ExchangeAssumption, Zenon DEF AllRoutes
  <2>2. Resolve(name) \in {Missing("wrong_endpoint"), Found(list, Sets[name].private)}
    BY <1>1, Zenon DEF Resolve
  <2>3. Missing("wrong_endpoint").error # None
    BY SomeHas DEF Missing
  <2>4. Found(list, Sets[name].private).routes = list
    BY DEF Found
  <2>5. Resolve(name).routes = list
    BY <2>2, <2>3, <2>4, Zenon
  <2>. HIDE DEF list
  <2>. QED
    BY <2>1, <2>5
<1>2. CASE name \notin DOMAIN Sets
  <2>1. \A code : Missing(code).error # None
    BY SomeHas DEF Missing
  <2>2. name \in DOMAIN Enabled /\ Resolve(name) = Found(<<Enabled[name].route>>, FALSE)
    <3>1. CASE Len(name) = 1 \/ name \notin DOMAIN Enabled
      <4>1. \E code : Resolve(name) = Missing(code)
        BY <1>2, <3>1 DEF Resolve
      <4>. QED
        BY <2>1, <4>1
    <3>2. CASE Len(name) # 1 /\ name \in DOMAIN Enabled
      <4>1. \/ Resolve(name) = Missing("wrong_endpoint")
            \/ Resolve(name) = Found(<<Enabled[name].route>>, FALSE)
        BY <1>2, <3>2 DEF Resolve
      <4>. QED
        BY <2>1, <3>2, <4>1
    <3>. QED
      BY <3>1, <3>2
  <2>3. Resolve(name).routes = <<Enabled[name].route>>
    BY <2>2 DEF Found
  <2>4. Enabled[name].route \in AllRoutes
    <3>1. Enabled[name].route \in {Enabled[n].route : n \in DOMAIN Enabled}
      BY <2>2
    <3>. QED
      BY <3>1, Zenon DEF AllRoutes
  <2>. QED
    BY <2>3, <2>4
<1>. QED
  BY <1>1, <1>2

(* A question is spelt, and so is what it adds to; it is not answered yet. *)
LEMMA AskKeepsTalk ==
  ASSUME Talk, NEW name \in Names, NEW question \in Questions, Ask(name, question)
  PROVE  Talk' /\ ReadBack'
<1>. DEFINE messages == conversation \o Results(pending) \o question.adds
            body == [question.body EXCEPT !.model = name, !.messages = messages]
            read == ReadRequest(body)
            found == Resolve(name)
            wrong == read.param # None \/ found.error # None
<1>1. /\ conversation' = messages /\ asked' = Some(body) /\ pending' = <<>> /\ failed' = None
      /\ outcome' = IF read.param # None THEN Ended("invalid_request", read.param)
                    ELSE IF found.error # None THEN Ended(found.error[1], Some("model"))
                    ELSE None
      /\ routes' = IF wrong THEN <<>> ELSE found.routes
  BY DEF Ask
<1>2. body.messages = messages
  BY ExchangeAssumption
<1>3. SpeltList(messages)
  <2>1. SpeltList(question.adds)
    BY ExchangeAssumption, Zenon DEF SpeltList
  <2>2. SpeltList(Results(pending))
    <3>1. pending \in Seq(ToSet(pending)) /\ \A call \in ToSet(pending) : SpeltCall(call)
      BY Zenon DEF Talk, CallList, ToSet
    <3>2. ResultsRead(pending)
      BY <3>1, ResultsAreRead
    <3>. QED
      BY <3>2 DEF ResultsRead
  <2>3. SpeltList(conversation \o Results(pending))
    BY <2>2, SpeltBoth DEF Talk
  <2>4. (conversation \o Results(pending)) \o question.adds = messages
    OBVIOUS
  <2>. HIDE DEF messages
  <2>. QED
    BY <2>1, <2>3, <2>4, SpeltBoth
<1>4. routes' \in Seq(AllRoutes)
  <2>1. ~wrong => found.routes \in Seq(AllRoutes)
    BY ResolveIs
  <2>. HIDE DEF wrong, found
  <2>. QED
    BY <1>1, <2>1
<1>. HIDE DEF body, messages
<1>5. asked'[1].messages = conversation'
  BY <1>1, <1>2, SomeHas
<1>6. Talk'
  BY <1>1, <1>3, <1>4, <1>5, SpeltNone DEF Talk, Failures
<1>7. outcome' # Answered
  <2>1. Some("model") # None
    BY SomeHas
  <2>. HIDE DEF read, found
  <2>. QED
    BY <1>1, <2>1, AnsweredIs
<1>8. (outcome = Answered)' <=> outcome' = Answered
  BY DEF Answered, Ended
<1>9. ReadBack'
  BY <1>7, <1>8, Zenon DEF ReadBack
<1>. QED
  BY <1>6, <1>9

(* A route that is left behind: what the client holds stays.               *)
LEMMA NextRoute ==
  ASSUME Talk, ReadBack, routes # <<>>, routes' = Tail(routes),
         failed' = failed \/ failed' \in Failures,
         UNCHANGED <<conversation, pending, asked, request, outcome>>
  PROVE  Talk' /\ ReadBack'
<1>1. routes' \in Seq(AllRoutes)
  <2>1. routes \in Seq(AllRoutes)
    BY DEF Talk
  <2>. QED
    BY <2>1
<1>2. Talk'
  BY <1>1 DEF Talk, SpeltList, CallList, Failures
<1>3. ReadBack'
  BY DEF ReadBack, Answered, Ended, SaidNothing, Results
<1>. QED
  BY <1>2, <1>3

(* What failed is told as a failure.                                       *)
LEMMA FailuresAre ==
  ASSUME failed \in Failures
  PROVE  CodeOf[Or(failed, "unsupported")] # "answered"
<1>. DEFINE e == Or(failed, "unsupported")
<1>1. e \in {"unsupported", "invalid", "transient", "unreadable"}
  <2>1. CASE failed = None
    BY <2>1 DEF Or
  <2>2. CASE failed # None
    <3>1. failed[1] \in {"invalid", "transient", "unreadable"}
      BY <2>2, SomeHas DEF Failures
    <3>. QED
      BY <2>2, <3>1 DEF Or
  <2>. QED
    BY <2>1, <2>2
<1>. HIDE DEF e
<1>2. CodeOf[e] # "answered"
  BY <1>1 DEF CodeOf
<1>. QED
  BY <1>2 DEF e

(* Giving up is no answer.                                                 *)
LEMMA GiveUpKeepsTalk ==
  ASSUME Talk, GiveUp
  PROVE  Talk' /\ ReadBack'
<1>1. Talk'
  BY DEF GiveUp, Talk, SpeltList, CallList, Failures
<1>2. outcome' # Answered
  BY FailuresAre, AnsweredIs DEF GiveUp, Talk
<1>3. (outcome = Answered)' <=> outcome' = Answered
  BY DEF Answered, Ended
<1>4. ReadBack'
  BY <1>2, <1>3, Zenon DEF ReadBack
<1>. QED
  BY <1>1, <1>4

(* What the model said is read, unless it said nothing.                    *)
LEMMA AssistantWrong ==
  ASSUME NEW read \in Readings, ~read.wrong, NEW m, m.role = "assistant",
         NEW w \in Seq(Strings), TextOf(m.content) = Some(w), NEW C, m.calls \in Seq(C),
         \A i \in DOMAIN m.calls : HasName(m.calls[i]),
         ReadNext(read, m).wrong
  PROVE  SaidNothing(m)
<1>. DEFINE calls == [i \in DOMAIN m.calls |-> ReadToolCall(m.calls[i])]
            text == When(Some(w) # None /\ Some(w) # Some(<<>>), Text(w))
            said == AssistantContent(m)
<1>1. Some(w) # None /\ Or(Some(w), <<>>) = w
  BY SomeHas DEF Or
<1>2. said = When(text \o calls # <<>>, text \o calls)
  BY <1>1 DEF AssistantContent
<1>3. ReadNext(read, m) =
        IF said = None THEN [read EXCEPT !.wrong = TRUE]
        ELSE [read EXCEPT !.messages = Append(@, Message("assistant", said[1])), !.holds = FALSE]
  BY DEF ReadNext, ReadMessage
<1>. HIDE DEF said
<1>4. said = None
  <2>1. SUFFICES ASSUME said # None PROVE FALSE
    OBVIOUS
  <2>. DEFINE next == [read EXCEPT !.messages = Append(@, Message("assistant", said[1])),
                                   !.holds = FALSE]
  <2>2. next.wrong = read.wrong
    OBVIOUS
  <2>. HIDE DEF next
  <2>. QED
    BY <1>3, <2>1, <2>2
<1>5. calls \in Seq({ReadToolCall(c) : c \in C}) /\ (calls = <<>> => m.calls = <<>>)
  BY DEF ReadToolCall
<1>. HIDE DEF calls
<1>6. text \in Seq({Text(w)}) /\ (text = <<>> => w = <<>>)
  <2>1. Some(w) # Some(<<>>) <=> w # <<>>
    BY DEF Some
  <2>2. text = IF w # <<>> THEN <<Text(w)>> ELSE <<>>
    BY <1>1, <2>1, Zenon DEF When
  <2>. HIDE DEF text
  <2>. DEFINE x == Text(w)
  <2>. HIDE DEF x
  <2>3. text = IF w # <<>> THEN <<x>> ELSE <<>>
    BY <2>2 DEF x
  <2>4. text \in Seq({x}) /\ (text = <<>> => w = <<>>)
    <3>1. CASE w = <<>>
      BY <2>3, <3>1
    <3>2. CASE w # <<>>
      <4>1. text = <<x>>
        BY <2>3, <3>2
      <4>. QED
        BY <4>1
    <3>. QED
      BY <3>1, <3>2
  <2>. QED
    BY <2>4 DEF x
<1>. HIDE DEF text
<1>7. text \o calls = <<>>
  <2>. DEFINE c == text \o calls
  <2>1. said = IF c # <<>> THEN <<c>> ELSE <<>>
    BY <1>2, Zenon DEF When
  <2>. HIDE DEF c
  <2>2. c = <<>>
    BY <1>4, <2>1 DEF None
  <2>. QED
    BY <2>2 DEF c
<1>8. text = <<>> /\ calls = <<>>
  <2>. DEFINE B == {Text(w)} \cup {ReadToolCall(c) : c \in C}
  <2>1. text \in Seq(B) /\ calls \in Seq(B)
    BY <1>5, <1>6
  <2>. HIDE DEF B
  <2>. QED
    BY <1>7, <2>1, NothingEach
<1>9. TextOf(m.content) = Some(<<>>)
  BY <1>6, <1>8
<1>. QED
  BY <1>5, <1>8, <1>9 DEF SaidNothing

(* What the client is told it keeps, and can send back.                    *)
LEMMA RespondKeepsTalk ==
  ASSUME IInv, Talk, NEW answer \in Replies, Respond(answer)
  PROVE  Talk' /\ ReadBack'
<1>. DEFINE told == Told(Route.vendor, answer, request[1].stream)
            w == told.content
            calls == told.calls
            m == TextMessage("assistant", w, calls, None)
            s == Append(conversation, m)
<1>1. /\ conversation' = s /\ pending' = calls /\ request' = None /\ routes' = <<>>
      /\ asked' = asked /\ failed' = failed
  BY DEF Respond, TextMessage
<1>2. WellAsked /\ request # None /\ request[1] = ReadRequest(asked[1]) /\ routes # <<>>
  BY SomeHas DEF Respond, Sends, Trying, IInv, ReadInv
<1>3. request[1].stream \in BOOLEAN /\ ~ReadMessages(asked[1].messages).wrong
  <2>. DEFINE body == asked[1]
  <2>1. Spelt(body) /\ ReadRequest(body).param = None /\ request[1] = ReadRequest(body)
    BY <1>2 DEF WellAsked
  <2>. HIDE DEF body
  <2>2. Faultless(body) /\ Reads(ReadRequest(body), body)
    BY <2>1, ReadIs
  <2>3. ReadRequest(body).stream = body.stream /\ body.stream \in BOOLEAN
    BY <2>1, <2>2 DEF Reads, Spelt
  <2>4. ~ReadMessages(body.messages).wrong
    BY <2>2 DEF Faultless
  <2>. QED
    BY <2>1, <2>3, <2>4 DEF body
<1>4. Route \in AllRoutes
  <2>1. routes \in Seq(AllRoutes)
    BY DEF Talk
  <2>. QED
    BY <1>2, <2>1 DEF Route
<1>5. w \in Seq(Strings) /\ CallList(calls)
  <2>1. Readable(Route.vendor, answer, request[1].stream)
    BY DEF Respond
  <2>2. Route.vendor \in Vendor /\ AnswerList(answer.blocks)
    BY <1>4, ExchangeAssumption DEF AnswerList
  <2>. QED
    BY <1>3, <2>1, <2>2, ToldIs
<1>. HIDE DEF w, calls
<1>6. /\ SpeltMessage(m) /\ TextOf(m.content) = Some(w)
      /\ m.role = "assistant" /\ m.calls = calls
  <2>. DEFINE id == None
  <2>1. id = None
    OBVIOUS
  <2>. HIDE DEF id
  <2>2. LET n == TextMessage("assistant", w, calls, id) IN
        /\ SpeltMessage(n) /\ TextOf(n.content) = Some(w)
        /\ n.role = "assistant" /\ n.calls = calls
    BY <1>5, <2>1, TextSpelt
  <2>. QED
    BY <2>1, <2>2
<1>. HIDE DEF m
<1>7. SpeltList(conversation) /\ SpeltList(s)
  BY <1>6, SpeltMore DEF Talk
<1>8. Talk'
  <2>1. routes' \in Seq(AllRoutes)
    BY <1>1
  <2>2. SpeltList(conversation)' /\ CallList(pending)'
    BY <1>1, <1>5, <1>7 DEF SpeltList, CallList
  <2>. HIDE DEF s
  <2>. QED
    BY <1>1, <2>1, <2>2 DEF Talk, SpeltList, Failures
<1>9. ReadMessages(s \o Results(calls)).wrong => \E i \in DOMAIN s : SaidNothing(s[i])
  <2>. DEFINE read == ReadMessages(conversation)
              S == ToSet(conversation) \cup {m}
  <2>1. ~read.wrong
    BY <1>2, <1>3 DEF Talk
  <2>2. conversation \in Seq(S) /\ m \in S
    BY <1>7 DEF SpeltList
  <2>3. \A x \in S : SpeltMessage(x)
    BY <1>6, <1>7, Zenon DEF SpeltList, ToSet
  <2>. HIDE DEF S
  <2>4. read \in Readings /\ ReadMessages(s) = ReadNext(read, m)
    BY <2>2, <2>3, ConversationRead, ReadsMore DEF ReadsTrue
  <2>. HIDE DEF read
  <2>5. CASE ReadMessages(s).wrong
    <3>1. calls \in Seq(ToSet(calls)) /\ \A i \in DOMAIN calls : HasName(calls[i])
      BY <1>5 DEF CallList
    <3>2. SaidNothing(m)
      BY <1>5, <1>6, <2>1, <2>4, <2>5, <3>1, AssistantWrong
    <3>3. Len(conversation) + 1 \in DOMAIN s /\ s[Len(conversation) + 1] = m
      BY <2>2
    <3>. QED
      BY <3>2, <3>3
  <2>6. CASE ~ReadMessages(s).wrong
    <3>1. calls \in Seq(ToSet(calls)) /\ \A call \in ToSet(calls) : SpeltCall(call)
      BY <1>5, Zenon DEF CallList, ToSet
    <3>2. ResultsRead(calls)
      BY <3>1, ResultsAreRead
    <3>. QED
      BY <1>7, <2>6, <3>2 DEF ResultsRead
  <2>. QED
    BY <2>5, <2>6
<1>10. ReadBack'
  <2>. HIDE DEF s
  <2>1. Results(pending)' = Results(calls)
    BY <1>1 DEF Results
  <2>. QED
    BY <1>1, <1>9, <2>1 DEF ReadBack, SaidNothing
<1>. QED
  BY <1>8, <1>10

(* Every step keeps it.                                                    *)
LEMMA NextTalk ==
  TInv /\ [Next]_vars => Talk' /\ ReadBack'
<1>. SUFFICES ASSUME TInv, [Next]_vars
              PROVE  Talk' /\ ReadBack'
  OBVIOUS
<1>0. IInv /\ Talk /\ ReadBack
  BY DEF TInv
<1>1. CASE \E name \in Names, question \in Questions : Ask(name, question)
  BY <1>0, <1>1, AskKeepsTalk
<1>2. CASE Skip
  BY <1>0, <1>2, NextRoute DEF Skip, Trying
<1>3. CASE CannotSay
  BY <1>0, <1>3, NextRoute DEF CannotSay, Trying, Failures
<1>4. CASE GiveUp
  BY <1>0, <1>4, GiveUpKeepsTalk
<1>5. ASSUME NEW error \in {"transient", "unreadable"}, Fail(error)
      PROVE  Talk' /\ ReadBack'
  BY <1>0, <1>5, NextRoute DEF Fail, Sends, Trying, Failures
<1>6. ASSUME NEW answer \in Replies, Respond(answer)
      PROVE  Talk' /\ ReadBack'
  BY <1>0, <1>6, RespondKeepsTalk
<1>7. CASE UNCHANGED vars
  <2>1. Talk'
    BY <1>0, <1>7 DEF vars, Talk, SpeltList, CallList, Failures
  <2>2. ReadBack'
    BY <1>0, <1>7 DEF vars, ReadBack, Answered, Ended, SaidNothing, Results
  <2>. QED
    BY <2>1, <2>2
<1>. QED
  BY <1>1, <1>2, <1>3, <1>4, <1>5, <1>6, <1>7 DEF Next

(* What any vendor is sent is the conversation its client holds: the same  *)
(* sides in the same order, with the same words, calls, results and media; *)
(* and whatever the client was told it can send back, unless the model said*)
(* nothing (read_messages, the turns of each protocol, write_response).    *)
THEOREM ConversationCarriedTheorem ==
  Spec => []ConversationCarried
<1>1. TInv => ConversationCarried
  <2>. SUFFICES ASSUME TInv, NEW i \in DOMAIN sent
                PROVE  SameConversation(sent[i].body.turns, asked[1].messages)
    BY DEF TInv, ReadBack, ConversationCarried
  <2>1. SentFor(sent[i])
    BY DEF TInv, IInv, SentInv
  <2>. DEFINE body == asked[1]
              s == body.messages
              S == ToSet(s)
  <2>2. SpeltList(s) /\ Spelt(body) /\ ReadRequest(body).param = None
    BY <2>1 DEF SentFor, WellAsked, TInv, Talk
  <2>3. s \in Seq(S) /\ \A x \in S : SpeltMessage(x)
    BY <2>2, Zenon DEF SpeltList, ToSet
  <2>4. /\ VendorBodyOf(sent[i].vendor, ReadRequest(body)) # None
        /\ sent[i].body = VendorBodyOf(sent[i].vendor, ReadRequest(body))[1]
    BY <2>1 DEF SentFor
  <2>. HIDE DEF body, S
  <2>5. SameConversation(VendorBodyOf(sent[i].vendor, ReadRequest(body))[1].turns, body.messages)
    BY <2>2, <2>3, <2>4, RequestCarried
  <2>. QED
    BY <2>4, <2>5 DEF body
<1>2. Init => TInv
  BY InitIInv, InitTalk DEF TInv
<1>3. TInv /\ [Next]_vars => TInv'
  BY NextIInv, NextTalk DEF TInv
<1>. QED
  BY <1>1, <1>2, <1>3, PTL DEF Spec
===============================================================================
