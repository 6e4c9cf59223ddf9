------------------------------- MODULE Media --------------------------------
(***************************************************************************)
(* The endpoints beside chat: embeddings, pictures, speech, transcription. *)
(* A call is read, its name resolved to a plan, and the plan's routes are  *)
(* tried in order by a loop that is not the chat router's: it looks at the *)
(* deadline itself, has no circuits and no budget, and runs in the handler,*)
(* which is dropped when its client leaves.                                *)
(*                                                                         *)
(* The gateway a call is served with is the one that was current when it   *)
(* was read, so it is a constant here.                                     *)
(***************************************************************************)
EXTENDS MediaWire, Accounts

CONSTANTS
  Split,      (* names written provider/model -> the provider and the model*)
  Built,      (* provider -> [type, on_device, prices, origins]            *)
  Enabled,    (* enabled names written provider/model -> their kind        *)
  Sets,       (* route sets -> [routes, attempts, deadline, on_device]     *)
  Sends,      (* what clients send: [endpoint, sent, private]              *)
  Faulty,     (* the statuses of failures, and whether they name a wait    *)
  RetryBase, RetryCeiling, RetryAfter,
  Took,       (* how long an attempt may take                              *)
  Late,       (* how long past its time a sleep may end                    *)
  MaxCalls    (* media calls made                                          *)

(* Texts are lists, of words or of characters, and a count is a whole      *)
(* number.                                                                 *)
Sendable(sends) ==
  sends.sent.read = "object" =>
    LET body == sends.sent.body IN
    /\ sends.endpoint = "embeddings" /\ Embeddable(body) =>
         ReadInputs(body) \in Seq(ToSet(ReadInputs(body)))
    /\ sends.endpoint = "images" /\ Given(body, "n") =>
         (body["n"].is = "number" => body["n"].n \in Int)
    /\ sends.endpoint = "speech" /\ ReadString(body, "input") # None =>
         body["input"].s \in Seq(ToSet(body["input"].s))

(* A provider's book has a rate for each model it says the origin of, and  *)
(* no negative price is taken into a book.                                 *)
PricedWell(built) ==
  /\ built.on_device \in BOOLEAN /\ DOMAIN built.prices = {"id", "currency", "rates"}
  /\ DOMAIN built.origins = DOMAIN built.prices.rates
  /\ \A model \in DOMAIN built.prices.rates :
       built.prices.rates[model] \in [Counts \cup UnitParts -> Nat]

(* What was configured, and what can be sent and go wrong: an option is a  *)
(* list of one at most.                                                    *)
ASSUME MediaAssumption ==
  /\ \A p \in DOMAIN Built :
       Built[p].type \in {"anthropic", "gemini", "openai"} /\ PricedWell(Built[p])
  /\ \A s \in DOMAIN Sets :
       /\ Sets[s].routes \in Seq(ToSet(Sets[s].routes))
       /\ Sets[s].attempts \in Nat \ {0}
       /\ Sets[s].deadline # None => Sets[s].deadline[1] \in Nat
  /\ \A sends \in Sends : sends.endpoint \in DOMAIN KindAt /\ Sendable(sends)
  /\ \A failed \in Faulty : ~Success(failed[1])
  /\ RetryAfter \in Nat /\ Took \subseteq Nat /\ Late \subseteq Nat /\ MaxCalls \in Nat

VARIABLES
  call,  (* the call being served                                          *)
  log    (* history: what became of each call                              *)

vars == <<call, log, accounts>>

Policy(attempts) ==
  INSTANCE Policies WITH
    First <- 0, Longest <- 0, Settled <- 0, Attempts <- attempts, Base <- RetryBase,
    Ceiling <- RetryCeiling, RepeatTimeouts <- FALSE, RetryAfter <- RetryAfter

-----------------------------------------------------------------------------
(* Names *)

(* A set is of the kind of its first enabled route.                        *)
SetKind(set) ==
  LET on == Only(set.routes, DOMAIN Enabled) IN
  IF on = <<>> THEN "chat" ELSE Enabled[Head(on)]

(* The routes a set that is not chat is served from.                       *)
MediaRoutes(set) ==
  Only(set.routes, {r \in DOMAIN Split \cap DOMAIN Enabled :
    /\ Split[r].provider \in DOMAIN Built
    /\ Enabled[r] = SetKind(set)
    /\ Serves(Built[Split[r].provider].type, Enabled[r])})

Plan(routes, attempts, deadline, on_device) ==
  [routes |-> routes, attempts |-> attempts, deadline |-> deadline, on_device |-> on_device]

Refusal(code) == [code |-> Some(code), plan |-> None]

(* A set by its name, and else an enabled model by its own.                *)
ResolveMedia(name, kind) ==
  IF name \in DOMAIN Sets
  THEN IF SetKind(Sets[name]) # kind THEN Refusal("wrong_endpoint")
       ELSE [code |-> None,
             plan |-> Some(Plan(MediaRoutes(Sets[name]), Sets[name].attempts,
                                Sets[name].deadline, Sets[name].on_device))]
  ELSE IF name \notin DOMAIN Split THEN Refusal("model_not_found")
  ELSE IF name \in DOMAIN Enabled
  THEN IF Enabled[name] # kind THEN Refusal("wrong_endpoint")
       ELSE [code |-> None, plan |-> Some(Plan(<<name>>, 2, None, FALSE))]
  ELSE Refusal(IF Split[name].provider \in DOMAIN Built
               THEN "model_not_enabled" ELSE "model_not_found")

(* What a failure is called in an answer and in a row.                     *)
CodeOf ==
  [unsupported |-> "no_route", invalid |-> "upstream_rejected_request",
   rate_limited |-> "rate_limited", rate_limited_for |-> "rate_limited", timeout |-> "timeout",
   transient |-> "upstream_unavailable", auth |-> "upstream_credential_rejected",
   not_found |-> "upstream_not_found", refused |-> "refused",
   unreadable |-> "upstream_unreadable"]

-----------------------------------------------------------------------------
(* What the client is given.  Usage nobody reported is left out.           *)

UsageView(usage) ==
  IF usage["input"] = None /\ usage["output"] = None THEN None
  ELSE Some([input |-> Or(usage["input"], 0), output |-> Or(usage["output"], 0)])

WrittenEmbeddings(answer) ==
  [data |-> answer.vectors, model |-> answer.model, usage |-> answer.usage["input"]]

(* The format of the first picture that came as bytes.                     *)
WrittenImages(answer) ==
  LET bytes == Only(answer.pictures, {p \in ToSet(answer.pictures) : p.as = "b64_json"}) IN
  [data |-> answer.pictures, format |-> When(bytes # <<>>, Head(bytes).of),
   usage |-> UsageView(answer.usage)]

WrittenSpeech(answer) == [content_type |-> answer.media_type, recording |-> answer.holds]

WrittenTranscription(answer, as_text) ==
  IF as_text THEN [text |-> answer.text]
  ELSE [text |-> answer.text, usage |-> UsageView(answer.usage),
        seconds |-> IF UsageView(answer.usage) = None THEN answer.millis ELSE None]

WrittenBody(endpoint, body, answer) ==
  CASE endpoint = "embeddings"     -> WrittenEmbeddings(answer)
    [] endpoint = "images"         -> WrittenImages(answer)
    [] endpoint = "speech"         -> WrittenSpeech(answer)
    [] endpoint = "transcriptions" ->
         WrittenTranscription(answer, ReadString(body, "response_format") = Some("text"))

(* A reply is its body and the headers that tell how it came about.        *)
WithHeaders(body, route, tries, fell, cost) ==
  [body |-> body, route |-> route, attempts |-> tries, fell_through |-> fell, cost |-> cost]

-----------------------------------------------------------------------------
(* One call *)

Idle ==
  [phase |-> "idle", sends |-> None, plan |-> None, at |-> 0, attempt |-> 0, tries |-> 0,
   fell |-> 0, last |-> None, elapsed |-> 0, wait |-> 0]

Number == Len(log)
Tried(entry, try) == [entry EXCEPT !.tries = Append(@, try)]
Asked == AskedModel(call.sends[1].sent)
Endpoint == call.sends[1].endpoint
Request == ReadMedia(Endpoint, call.sends[1].sent.body)
Chosen == call.plan[1]
RouteName == Chosen.routes[call.at]
Provider == Built[Split[RouteName].provider]
Target == Split[RouteName].model

MediaInit == AccountsInit /\ call = Idle /\ log = <<>>

(* How a call ended, with what was made of it, and the row it left.        *)
Ends(entry, row) ==
  /\ call' = Idle
  /\ log' = [log EXCEPT ![Number] = entry]
  /\ IF row = None THEN UNCHANGED queue ELSE Enqueue(row[1])
  /\ UNCHANGED <<now, table, nextId, walk, forgot>>

(* A body is refused, or its name is; or the routes of a plan are tried.   *)
Arrive(sends) ==
  LET sent == sends.sent
      name == AskedModel(sent)
      faults == Faults(sends.endpoint, sent)
      found == ResolveMedia(name, KindAt[sends.endpoint])
      entry == [sends |-> sends, plan |-> None, tries |-> <<>>, how |-> "turned away",
                answer |-> None, billed |-> None]
      refuse(code) == Enqueue(FailedRow(Number + 1, name, code)) /\ call' = Idle
  IN /\ call.phase = "idle" /\ Number < MaxCalls
     /\ \A n \in 1..Number : log[n].sends # sends
     /\ IF Unread(sends.endpoint, sent)
        THEN call' = Idle /\ log' = Append(log, [entry EXCEPT !.how = "unread"]) /\ UNCHANGED queue
        ELSE IF faults # <<>>
        THEN log' = Append(log, entry) /\ refuse("invalid_request")
        ELSE IF found.code # None
        THEN log' = Append(log, entry) /\ refuse(found.code[1])
        ELSE /\ call' = [Idle EXCEPT !.phase = "choosing", !.sends = Some(sends),
                                     !.plan = found.plan, !.at = 1]
             /\ log' = Append(log, [entry EXCEPT !.how = "open", !.plan = found.plan])
             /\ UNCHANGED queue
     /\ UNCHANGED <<now, table, nextId, walk, forgot>>

(* The end of the loop without an answer.                                  *)
Closes(entry, error) ==
  Ends([entry EXCEPT !.how = error], Some(FailedRow(Number, Asked, CodeOf[error])))

(* The moment the deadline is reached is still in time. *)
OutOfTime_Late(elapsed, wait) ==
  Chosen.deadline # None /\ elapsed + wait > Or(Chosen.deadline, 0)

OutOfTime(elapsed, wait) ==
  Chosen.deadline # None /\ elapsed + wait >= Or(Chosen.deadline, 0)

Steps(state) == call' = state /\ UNCHANGED accounts

NextRoute(state) == [state EXCEPT !.phase = "choosing", !.at = @ + 1, !.attempt = 0]

Barred == (call.sends[1].private \/ Chosen.on_device) /\ ~Provider.on_device

(* A provider that was not built, and a route off the device.              *)
PassOver ==
  /\ call.phase = "choosing" /\ call.at <= Len(Chosen.routes)
  /\ IF Split[RouteName].provider \in DOMAIN Built THEN Barred ELSE TRUE
  /\ Steps(NextRoute([call EXCEPT !.fell = @ + 1]))
  /\ UNCHANGED log

TakeUp ==
  /\ call.phase = "choosing" /\ call.at <= Len(Chosen.routes)
  /\ IF Split[RouteName].provider \in DOMAIN Built THEN ~Barred ELSE FALSE
  /\ Steps([call EXCEPT !.phase = "asking", !.attempt = 1])
  /\ UNCHANGED log

TooLate ==
  /\ call.phase = "asking" /\ OutOfTime(call.elapsed, 0)
  /\ Closes(log[Number], "timeout")

NoEndpoint ==
  /\ call.phase = "asking" /\ ~OutOfTime(call.elapsed, 0)
  /\ ~Serves(Provider.type, KindAt[Endpoint])
  /\ Steps(NextRoute([call EXCEPT !.fell = @ + 1]))
  /\ UNCHANGED log

(* The request goes out whether or not the provider has the endpoint. *)
Begin_AnyEndpoint ==
  /\ call.phase = "asking" /\ ~OutOfTime(call.elapsed, 0)
  /\ Steps([call EXCEPT !.phase = "sent", !.tries = @ + 1])
  /\ log' = [log EXCEPT ![Number] =
               Tried(@, [route |-> call.at, at |-> call.elapsed, failed |-> None])]

(* The request goes out, or the provider turns it down before it does.     *)
Begin ==
  /\ call.phase = "asking" /\ ~OutOfTime(call.elapsed, 0)
  /\ Serves(Provider.type, KindAt[Endpoint])
  /\ Steps([call EXCEPT !.phase = "sent", !.tries = @ + 1])
  /\ log' = [log EXCEPT ![Number] =
               Tried(@, [route |-> call.at, at |-> call.elapsed, failed |-> None])]

(* An answer is priced and its row recorded before it is written.          *)
Succeed(answer, reply, tries) ==
  LET units == Produced(Endpoint, Request, answer)
      cost == CostWith(Provider, Target, answer.model, answer.usage, units)
      route == [name |-> RouteName, provider |-> Split[RouteName].provider]
  IN Ends([log[Number] EXCEPT
             !.how = "answered",
             !.answer = Some(WithHeaders(WrittenBody(Endpoint, call.sends[1].sent.body, answer),
                                         RouteName, tries, call.fell, cost)),
             !.billed = Some([provider |-> route.provider, target |-> Target, served |-> answer.model,
                              replied |-> reply.body,
                              consumed |-> Consumed(Endpoint, Request, answer),
                              reported |-> [tokens |-> answer.usage, units |-> units]])],
          Some(AnsweredRow(Number, Asked, route, answer.model, "ok", tries, call.fell,
                           answer.usage, cost)))

(* A failure is final, or the route is asked again after a wait, or the    *)
(* next one is tried.  A wait past the deadline is not begun.              *)
Fall(error, after) ==
  LET waits == Policy(Chosen.attempts)!WaitsBefore(after.attempt + 1, error)
      fallen == [after EXCEPT !.fell = @ + 1, !.last = Some(error)]
      entry == [log[Number] EXCEPT !.tries[Len(log[Number].tries)].failed = Some(error)]
  IN IF error = "refused"
     THEN Ends([entry EXCEPT !.how = "refused"], Some(RefusedRow(Number, Asked)))
     ELSE \/ waits = {} /\ Steps(NextRoute(fallen)) /\ log' = [log EXCEPT ![Number] = entry]
          \/ \E w \in waits :
               IF OutOfTime(after.elapsed, w)
               THEN Closes(entry, "timeout")
               ELSE /\ Steps([fallen EXCEPT !.phase = "waiting", !.wait = w])
                    /\ log' = [log EXCEPT ![Number] = entry]

Hear(result, reply, took) ==
  IF result.error # None THEN Fall(result.error[1], [call EXCEPT !.elapsed = @ + took])
  ELSE Succeed(result.value[1], reply, call.tries)

RefusedHere ==
  /\ call.phase = "sent"
  /\ FaultHere(Provider.type, Endpoint, Request) # None
  /\ Fall(FaultHere(Provider.type, Endpoint, Request)[1], call)

Respond(took) ==
  /\ call.phase = "sent"
  /\ FaultHere(Provider.type, Endpoint, Request) = None
  /\ \E reply \in Replies(Provider.type, Endpoint, BodyFor(Provider.type, Endpoint, Request),
                          Target, Faulty) :
       Hear(ReadReply(Provider.type, Endpoint, reply, Request, Target), reply, took)

(* The transport gives up: out of time, or out of reach.                   *)
Unreached(error, took) ==
  /\ call.phase = "sent"
  /\ FaultHere(Provider.type, Endpoint, Request) = None
  /\ Fall(error, [call EXCEPT !.elapsed = @ + took])

Wake(late) ==
  /\ call.phase = "waiting"
  /\ Steps([call EXCEPT !.phase = "asking", !.attempt = @ + 1, !.wait = 0,
                        !.elapsed = @ + call.wait + late])
  /\ UNCHANGED log

GiveUp ==
  /\ call.phase = "choosing" /\ call.at > Len(Chosen.routes)
  /\ Closes(log[Number], Or(call.last, "unsupported"))

(* The client leaves, the handler is dropped where it waits, and no row    *)
(* tells of the call.                                                      *)
Leave ==
  /\ call.phase \in {"sent", "waiting"}
  /\ Ends([log[Number] EXCEPT !.how = "left"], None)

Serve ==
  \/ PassOver \/ TakeUp \/ TooLate \/ NoEndpoint \/ Begin \/ RefusedHere \/ GiveUp \/ Leave
  \/ \E took \in Took : Respond(took)
  \/ \E error \in {"timeout", "transient"}, took \in Took : Unreached(error, took)
  \/ \E late \in Late : Wake(late)
=============================================================================
