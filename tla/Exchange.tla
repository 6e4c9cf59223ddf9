------------------------------ MODULE Exchange ------------------------------
(***************************************************************************)
(* A conversation a client has through the gateway: it asks, the gateway   *)
(* reads the request, resolves the name it asks for, and sends the body    *)
(* each vendor takes, route after route; the reply goes back in the shape  *)
(* of the chat completions, whole or streamed.  The client keeps what it   *)
(* was told, answers the calls of tools, and asks again, of any model.     *)
(* When a route is tried again, rests or is too dear is in Router.         *)
(***************************************************************************)
EXTENDS VendorBody, VendorWire, ClientWire

CONSTANTS
  Sets,       (* route sets: name -> [kind, private, routes]               *)
  Enabled,    (* enabled models: <<provider, model>> -> [kind, route]      *)
  Providers,  (* the providers that are enabled and built                  *)
  Names,      (* what clients ask for                                      *)
  Questions,  (* what a client may ask: a body without its model, and the  *)
              (* messages it adds to those of the conversation             *)
  Replies,    (* what a vendor may answer                                  *)
  MaxTurns    (* bound: questions of a conversation                        *)

AllRoutes ==
  {Enabled[n].route : n \in DOMAIN Enabled} \cup UNION {ToSet(Sets[n].routes) : n \in DOMAIN Sets}

(* What any vendor may say, made of strings.                               *)
SpeltBlock(block) ==
  \/ block.kind \in {"text", "thinking"} /\ block.text \in Seq(Strings)
  \/ /\ block.kind = "tool_use"
     /\ block.id \in Strings /\ block.name \in Strings /\ block.pieces \in Seq(Strings)

ASSUME ExchangeAssumption ==
  /\ \A n \in DOMAIN Sets : Len(n) = 1 /\ Sets[n].routes \in Seq(ToSet(Sets[n].routes))
  /\ \A n \in DOMAIN Enabled : Len(n) = 2
  /\ \A route \in AllRoutes : route.vendor \in Vendor
  /\ \A question \in Questions :
       /\ Spelt(question.body) /\ {"model", "messages"} \subseteq DOMAIN question.body
       /\ question.adds \in Seq(ToSet(question.adds))
       /\ \A i \in DOMAIN question.adds : SpeltMessage(question.adds[i])
  /\ \A answer \in Replies :
       /\ answer.blocks \in Seq(ToSet(answer.blocks))
       /\ \A i \in DOMAIN answer.blocks : SpeltBlock(answer.blocks[i])
  /\ MaxTurns \in Nat \ {0}

VARIABLES
  conversation,  (* the messages the client holds                          *)
  pending,       (* the calls of tools it has not answered                 *)
  origins,       (* history: who made the calls it holds, and how          *)
  asked,         (* history: the body it sent last                         *)
  request,       (* the request read from it                               *)
  private,       (* whether it has to stay on the device                   *)
  routes,        (* the routes left to try                                 *)
  sent,          (* history: the bodies sent for it, and to whom           *)
  failed,        (* the error of the last route that failed                *)
  outcome,       (* how the last question ended                            *)
  turn           (* how many questions were asked                          *)

vars == <<conversation, pending, origins, asked, request, private, routes, sent, failed,
          outcome, turn>>

Ended(code, param) == Some([code |-> code, param |-> param])
Answered == Ended("answered", None)

-----------------------------------------------------------------------------
(* What a name resolves to: a route set, or an enabled model of a provider.*)

Found(list, on_device) == [error |-> None, routes |-> list, on_device |-> on_device]
Missing(code) == [error |-> Some(code), routes |-> <<>>, on_device |-> FALSE]

Resolve(name) ==
  IF name \in DOMAIN Sets
  THEN IF Sets[name].kind # "chat" THEN Missing("wrong_endpoint")
       ELSE Found(Sets[name].routes, Sets[name].private)
  ELSE IF Len(name) = 1 THEN Missing("model_not_found")
  ELSE IF name \in DOMAIN Enabled
  THEN IF Enabled[name].kind # "chat" THEN Missing("wrong_endpoint")
       ELSE Found(<<Enabled[name].route>>, FALSE)
  ELSE Missing(IF Head(name) \in Providers THEN "model_not_enabled" ELSE "model_not_found")

(* What a failure of a route is to the client.                             *)
CodeOf ==
  [unsupported |-> "no_route", invalid |-> "upstream_rejected_request",
   transient |-> "upstream_unavailable", unreadable |-> "upstream_unreadable"]

-----------------------------------------------------------------------------
Init ==
  /\ conversation = <<>> /\ pending = <<>> /\ origins = <<>> /\ asked = None
  /\ request = None /\ private = FALSE /\ routes = <<>> /\ sent = <<>> /\ failed = None
  /\ outcome = Answered /\ turn = 0

Results(calls) ==
  [i \in DOMAIN calls |->
     [role |-> "tool", content |-> Some(<<[type |-> "text", text |-> <<calls[i].name>>]>>),
      calls |-> <<>>, id |-> Some(calls[i].id)]]

(* The client answers the calls it was left with, adds what it has to say, *)
(* and asks.  A request that is wrong is refused before its model is       *)
(* looked up.                                                              *)
Ask(name, question) ==
  /\ request = None /\ outcome = Answered /\ turn < MaxTurns
  /\ LET messages == conversation \o Results(pending) \o question.adds
         body == [question.body EXCEPT !.model = name, !.messages = messages]
         read == ReadRequest(body)
         found == Resolve(name)
         wrong == read.param # None \/ found.error # None
     IN /\ conversation' = messages /\ asked' = Some(body)
        /\ outcome' = IF read.param # None THEN Ended("invalid_request", read.param)
                      ELSE IF found.error # None THEN Ended(found.error[1], Some("model"))
                      ELSE None
        /\ request' = IF wrong THEN None ELSE Some(read)
        /\ routes' = IF wrong THEN <<>> ELSE found.routes
        /\ private' = (~wrong /\ (found.on_device \/ question.private))
  /\ pending' = <<>> /\ sent' = <<>> /\ failed' = None /\ turn' = turn + 1
  /\ UNCHANGED origins

Trying == request # None /\ routes # <<>>
Route == Head(routes)
BodyHere == VendorBodyOf(Route.vendor, request[1])
CanServe == UnmetBy(request[1], private, Route) = {}

(* A model that cannot do what is needed is passed over.                   *)
Skip ==
  /\ Trying /\ ~CanServe
  /\ routes' = Tail(routes)
  /\ UNCHANGED <<conversation, pending, origins, asked, request, private, sent, failed,
                 outcome, turn>>

(* A body that cannot be made fails the route; nothing is sent.            *)
CannotSay ==
  /\ Trying /\ CanServe /\ BodyHere = None
  /\ routes' = Tail(routes) /\ failed' = Some("invalid")
  /\ UNCHANGED <<conversation, pending, origins, asked, request, private, sent, outcome, turn>>

Sends ==
  /\ Trying /\ CanServe /\ BodyHere # None
  /\ sent' = Append(sent, [vendor |-> Route.vendor, route |-> Route, body |-> BodyHere[1]])

(* The vendor is not there, or what it answers cannot be read.             *)
Fail(error) ==
  /\ Sends
  /\ routes' = Tail(routes) /\ failed' = Some(error)
  /\ UNCHANGED <<conversation, pending, origins, asked, request, private, outcome, turn>>

(* The events an answer that is streamed is read in.                       *)
TheEvents(vendor, answer) ==
  LET frames == Streamed(vendor, answer, FALSE) IN
  IF vendor = "bedrock" THEN ReplayStream(Read(vendor, Whole(vendor, answer), "asked")[1])
  ELSE FlattenSeq([i \in DOMAIN frames |-> ReadEvent(vendor, frames[i]).events])

(* The writer, and the chunks it has made of the events so far.            *)
NothingTold == [writer |-> NewWriter("asked"), chunks |-> <<>>]
Tells(state, e) ==
  [writer |-> Turned(state.writer, e), chunks |-> state.chunks \o Write(state.writer, e)]

(* What the client is told of an answer, with a reply that was streamed put*)
(* together from its chunks.                                               *)
Told(vendor, answer, stream) ==
  IF stream
  THEN Understood(FoldLeft(Tells, NothingTold, TheEvents(vendor, answer)).chunks)
  ELSE LET whole == WriteResponse(Read(vendor, Whole(vendor, answer), "asked")[1]) IN
       [content |-> Or(whole.content, <<>>), calls |-> whole.calls]

(* Bedrock does not stream: its reply is read whole, then replayed.        *)
Readable(vendor, answer, stream) ==
  \/ stream /\ vendor # "bedrock"
  \/ Read(vendor, Whole(vendor, answer), "asked") # None

(* The client keeps the turn: its text and its calls.                      *)
Respond(answer) ==
  /\ Sends /\ Readable(Route.vendor, answer, request[1].stream)
  /\ LET told == Told(Route.vendor, answer, request[1].stream) IN
     /\ conversation' = Append(conversation,
          [role |-> "assistant", content |-> Some(<<[type |-> "text", text |-> told.content]>>),
           calls |-> told.calls, id |-> None])
     /\ pending' = told.calls
     /\ origins' = Append(origins, [vendor |-> Route.vendor, streamed |-> request[1].stream,
                                     tools |-> [i \in DOMAIN told.calls |-> told.calls[i].name]])
  /\ request' = None /\ routes' = <<>> /\ outcome' = Answered
  /\ UNCHANGED <<asked, private, failed, turn>>

(* No route is left.  With none that failed, none could serve it.          *)
GiveUp ==
  /\ request # None /\ routes = <<>>
  /\ outcome' = Ended(CodeOf[Or(failed, "unsupported")], None)
  /\ request' = None
  /\ UNCHANGED <<conversation, pending, origins, asked, private, routes, sent, failed, turn>>

Next ==
  \/ \E name \in Names, question \in Questions : Ask(name, question)
  \/ Skip \/ CannotSay \/ GiveUp
  \/ \E error \in {"transient", "unreadable"} : Fail(error)
  \/ \E answer \in Replies : Respond(answer)

Spec == Init /\ [][Next]_vars

-----------------------------------------------------------------------------
(* Properties *)

ToMessages(vendor) == vendor \notin {"openai", "gemini"}

(* The settings a body was asked to have, in what a vendor is sent.  The   *)
(* code leaves a schema out of a body of the Messages API and reasoning out*)
(* of one of chat completions, where "a field the router cannot honour is  *)
(* a 400 naming it, never silently ignored"; and reasoning that has to     *)
(* leave room for a reply of one token is left none.                       *)
CarriesSettings(to, body) ==
  LET settings == to.body.settings IN
  /\ body.max \in {None, settings.max}
  /\ settings.temperature = body.temperature /\ settings.top_p = body.top_p
  /\ settings.tools = body.tools
  /\ \/ ToMessages(to.vendor)
     \/ settings.schema # None <=> body.format = Some("json_schema")
  /\ \/ to.vendor = "openai"
     \/ ToMessages(to.vendor) /\ body.max = Some(1)
     \/ settings.reasoning \in {None, Some(0)} <=> body.effort \in {None, Some("none")}
  /\ ToMessages(to.vendor) /\ settings.reasoning # None =>
       settings.reasoning[1] < settings.max[1]

(* No setting a client asked for is lost on the way to whoever is asked:   *)
(* every limit, sampling setting, tool, schema and level of reasoning is in*)
(* the body of every vendor it is sent to, but for the three above; a field*)
(* nobody can honour stops the request; reasoning leaves room for a reply; *)
(* and what has to stay on the device never leaves it (read_request, body  *)
(* of each protocol, unmet_by).                                            *)
AskedIsCarried ==
  \A i \in DOMAIN sent :
    /\ CarriesSettings(sent[i], asked[1])
    /\ asked[1].odd = {} /\ (private => sent[i].route.on_device)

(* What one side says in a turn, calls, was told and shows.                *)
Side(by, words, calls, told, shown) ==
  [by |-> by, words |-> words, calls |-> calls, told |-> told, shown |-> shown]
Nothing == Side("user", <<>>, <<>>, <<>>, <<>>)

Silent(t) == t.words = <<>> /\ t.calls = <<>> /\ t.told = <<>> /\ t.shown = <<>>
Both(s, t) ==
  Side(s.by, s.words \o t.words, s.calls \o t.calls, s.told \o t.told, s.shown \o t.shown)

(* A conversation by who speaks: the sides in turn, and what each said,    *)
(* called, was told and showed, in order.  Who says nothing has no turn.   *)
Joins(sides, t) ==
  IF Silent(t) THEN sides
  ELSE IF sides # <<>> /\ Last(sides).by = t.by THEN Append(Front(sides), Both(Last(sides), t))
  ELSE Append(sides, t)
Sided(turns) == FoldLeft(Joins, <<>>, turns)

MediaParts == [image_url |-> "image", file |-> "document", input_audio |-> "audio"]

OfMessage(m) ==
  LET parts == Or(m.content, <<>>)
      words == FlattenSeq([i \in DOMAIN parts |->
                 IF parts[i].type = "text" THEN parts[i].text ELSE <<>>])
      shown == FlattenSeq([i \in DOMAIN parts |->
                 IF parts[i].type \in DOMAIN MediaParts THEN <<MediaParts[parts[i].type]>>
                 ELSE <<>>])
      calls == [i \in DOMAIN m.calls |-> m.calls[i].name]
  IN CASE m.role = "assistant" -> Side("model", words, calls, <<>>, <<>>)
       [] m.role = "tool" -> Side("user", <<>>, <<>>, <<words>>, <<>>)
       [] m.role = "user" -> Side("user", words, <<>>, <<>>, shown)
       [] OTHER -> Nothing

OfTurn(t) ==
  LET items == t.items IN
  IF t.role = "system" THEN Nothing
  ELSE Side(IF t.role \in {"assistant", "model"} THEN "model" ELSE "user",
            FlattenSeq([i \in DOMAIN items |->
              IF items[i].is = "text" THEN items[i].text ELSE <<>>]),
            FlattenSeq([i \in DOMAIN items |->
              IF items[i].is = "call" THEN <<items[i].name>> ELSE <<>>]),
            FlattenSeq([i \in DOMAIN items |->
              IF items[i].is = "result" THEN <<items[i].text>> ELSE <<>>]),
            FlattenSeq([i \in DOMAIN items |->
              IF items[i].is \in Range(MediaParts) THEN <<items[i].is>> ELSE <<>>]))

(* A vendor reads the conversation the client holds: the same sides in the *)
(* same order, and on each the same words, calls, results and media.  The  *)
(* system speaks first and once, if it spoke at all.                       *)
SameConversation(turns, messages) ==
  /\ Sided([i \in DOMAIN turns |-> OfTurn(turns[i])])
       = Sided([i \in DOMAIN messages |-> OfMessage(messages[i])])
  /\ (\E i \in DOMAIN messages : messages[i].role \in {"system", "developer"})
       <=> turns # <<>> /\ turns[1].role = "system"
  /\ \A i \in DOMAIN turns : turns[i].role = "system" => i = 1

(* The model said nothing in a turn, and called nothing.                   *)
SaidNothing(m) ==
  m.role = "assistant" /\ m.calls = <<>> /\ TextOf(m.content) = Some(<<>>)

(* What a vendor is sent is the conversation its client holds, and the     *)
(* gateway reads back every turn it wrote, unless the model said nothing in*)
(* it (read_messages, the turns of each protocol, write_response).         *)
ConversationCarried ==
  /\ \A i \in DOMAIN sent : SameConversation(sent[i].body.turns, asked[1].messages)
  /\ outcome = Answered /\ ReadMessages(conversation \o Results(pending)).wrong =>
       \E i \in DOMAIN conversation : SaidNothing(conversation[i])

(* Where the results a vendor is sent find the calls they answer: on the   *)
(* model's side right before, one call under the key that vendor goes by   *)
(* and no other result for it; the Messages API wants them in the very next*)
(* turn, and first.                                                        *)
ResultsFound(to) ==
  LET turns == to.body.turns
      Of(t, is) == SelectSeq(t.items, LAMBDA it : it.is = is)
      IsModel(i) == turns[i].role \in {"assistant", "model"}
      Calling(i) == CHOOSE j \in 1..i : IsModel(j) /\ \A k \in j + 1..i : ~IsModel(k)
      Keyed(items, key) == Len(SelectSeq(items, LAMBDA it : it.key = key))
      ToldAfter(j) ==
        FlattenSeq([k \in DOMAIN turns |->
          IF k > j /\ \A l \in j + 1..k : ~IsModel(l) THEN Of(turns[k], "result") ELSE <<>>])
  IN \A i \in DOMAIN turns : Of(turns[i], "result") # <<>> =>
       /\ \E j \in 1..i - 1 : IsModel(j)
       /\ LET j == Calling(i) IN
          /\ \A r \in ToSet(Of(turns[i], "result")) :
               Keyed(Of(turns[j], "call"), r.key) = 1 /\ Keyed(ToldAfter(j), r.key) = 1
          /\ ToMessages(to.vendor) =>
               /\ i = j + 1
               /\ \A k \in DOMAIN Of(turns[i], "result") : turns[i].items[k].is = "result"

(* Gemini gives its calls no ids.  Streamed, they are all read under none, *)
(* and whole under the name of their tool: two that were streamed, or that *)
(* are of one tool, cannot be told apart (read_event, read_part).          *)
Alike(origin) ==
  /\ origin.vendor = "gemini"
  /\ \E i, j \in DOMAIN origin.tools :
       i # j /\ (origin.streamed \/ origin.tools[i] = origin.tools[j])

(* A call that goes by the name of its tool, as Gemini wants it back.      *)
ByItsName(origin) == origin.vendor = "gemini" /\ ~origin.streamed

(* Every result finds the one call it answers, whoever made the calls and  *)
(* whoever is sent them, but for the two ways it is lost: Gemini made calls*)
(* that are alike, or is sent calls that do not go by their names          *)
(* (read_messages, write_response, the turns of each protocol).            *)
ResultsFindTheirCalls ==
  \A i \in DOMAIN sent :
    \/ ResultsFound(sent[i])
    \/ \E j \in DOMAIN origins :
         /\ origins[j].tools # <<>>
         /\ Alike(origins[j]) \/ (sent[i].vendor = "gemini" /\ ~ByItsName(origins[j]))
=============================================================================
