--------------------------- MODULE ClientRequest ----------------------------
(***************************************************************************)
(* A chat completions request as the gateway reads it: what it refuses, by *)
(* the field that is named, the conversation it makes of the messages, and *)
(* what a model has to be able to do to be asked.                          *)
(*                                                                         *)
(* Content is optional, and when it is there a sequence of parts: a string *)
(* is one part of text.  A part of media says how it is sent and of what   *)
(* type it is, "" when nothing tells.                                      *)
(***************************************************************************)
EXTENDS Chat, Lists

Image(media, source) == [kind |-> "image", media |-> media, source |-> source]
Document(media, source) == [kind |-> "document", media |-> media, source |-> source]
Audio(media) == [kind |-> "audio", media |-> media, source |-> "bytes"]
ToolResult(id, text) == [kind |-> "tool_result", id |-> id, text |-> text]
Message(role, content) == [role |-> role, content |-> content]

-----------------------------------------------------------------------------
(* Content *)

(* Text alone.  A refusal is an assistant's turn the client replays.       *)
TextOf(content) ==
  LET parts == Or(content, <<>>) IN
  IF \E i \in DOMAIN parts : parts[i].type \notin {"text", "refusal"} THEN None
  ELSE Some(FlattenSeq([i \in DOMAIN parts |->
              IF parts[i].type = "text" THEN parts[i].text ELSE <<>>]))

(* A data URL says what it holds; a link is read by its extension.         *)
ReadImage(part) ==
  When(part.by \in {"data", "link"} /\ part.media # "",
       Image(part.media, IF part.by = "data" THEN "bytes" ELSE "url"))

(* A file's bytes, typed by the data URL or the name.  An upload that is   *)
(* only named is not here.                                                 *)
ReadFile(part) ==
  When(part.by = "data" /\ part.media # "", Document(part.media, "bytes"))

AudioFormats ==
  [wav |-> "audio/wav", mp3 |-> "audio/mpeg", flac |-> "audio/flac", ogg |-> "audio/ogg",
   aac |-> "audio/aac", m4a |-> "audio/mp4", webm |-> "audio/webm"]
ReadAudio(part) ==
  IF part.media \in DOMAIN AudioFormats THEN Some(Audio(AudioFormats[part.media])) ELSE None

(* A user's turn, the one place for media.                                 *)
ReadPart(part) ==
  CASE part.type = "text"        -> Some(Text(part.text))
    [] part.type = "image_url"   -> ReadImage(part)
    [] part.type = "file"        -> ReadFile(part)
    [] part.type = "input_audio" -> ReadAudio(part)
    [] OTHER                     -> None

UserContent(content) ==
  IF content = None THEN Some(<<Text(<<>>)>>)
  ELSE LET read == [i \in DOMAIN content[1] |-> ReadPart(content[1][i])] IN
       IF \E i \in DOMAIN read : read[i] = None THEN None ELSE Some(FlattenSeq(read))

(* A call without a function or a name says what it lacks.                 *)
HasName(call) == "lacks" \notin DOMAIN call
ReadToolCall(call) == ToolUse(call.id, call.name, FromStr(call.arguments))

(* A turn that calls tools is its calls. *)
AssistantContent_CallsOnly(message) ==
  LET text == TextOf(message.content)
      calls == [i \in DOMAIN message.calls |-> ReadToolCall(message.calls[i])]
      content == IF calls # <<>> THEN calls ELSE <<Text(Or(text, <<>>))>>
  IN When(text # None /\ (text # Some(<<>>) \/ calls # <<>>), content)

AssistantContent(message) ==
  LET text == TextOf(message.content)
      calls == [i \in DOMAIN message.calls |-> ReadToolCall(message.calls[i])]
      content == When(text # None /\ text # Some(<<>>), Text(Or(text, <<>>))) \o calls
      named == \A i \in DOMAIN message.calls : HasName(message.calls[i])
  IN When(text # None /\ named /\ content # <<>>, content)

-----------------------------------------------------------------------------
(* The conversation: results of tools that follow one another are one turn *)
(* of the user, and what the user says right after them joins it.          *)

NoMessages == [system |-> <<>>, messages |-> <<>>, holds |-> FALSE, wrong |-> FALSE]

(* Every result and what follows it is a turn of its own. *)
Turn_NeverJoined(read, content) ==
  [read EXCEPT !.messages = Append(@, Message("user", content))]

Turn(read, content) ==
  IF read.holds THEN [read EXCEPT !.messages[Len(read.messages)].content = @ \o content]
  ELSE [read EXCEPT !.messages = Append(@, Message("user", content))]

ReadMessage(read, message) ==
  LET Wrong == [read EXCEPT !.wrong = TRUE]
      text == TextOf(message.content)
      user == UserContent(message.content)
      said == AssistantContent(message)
  IN CASE message.role \in {"system", "developer"} ->
            IF text = None THEN Wrong ELSE [read EXCEPT !.system = Append(@, text[1])]
       [] message.role = "user" ->
            IF user = None THEN Wrong ELSE [Turn(read, user[1]) EXCEPT !.holds = FALSE]
       [] message.role = "assistant" ->
            IF said = None THEN Wrong
            ELSE [read EXCEPT !.messages = Append(@, Message("assistant", said[1])),
                              !.holds = FALSE]
       [] message.role = "tool" ->
            IF text = None \/ message.id = None THEN Wrong
            ELSE [Turn(read, <<ToolResult(message.id[1], text[1])>>) EXCEPT !.holds = TRUE]
       [] OTHER -> Wrong

(* Nothing is read after a message that is wrong.                          *)
ReadNext(read, message) == IF read.wrong THEN read ELSE ReadMessage(read, message)

ReadMessages(messages) == FoldLeft(ReadNext, NoMessages, messages)

-----------------------------------------------------------------------------
(* The fields *)

(* What cannot be carried through, in the order it is looked at.           *)
CannotBeHonoured ==
  <<"n", "stop", "presence_penalty", "frequency_penalty", "logprobs", "logit_bias",
    "tool_choice", "audio", "modalities", "prediction", "web_search_options", "functions">>

Sampling == {"temperature", "top_p"}

(* A body is odd by these fields alone, and a field it has not is None.    *)
Optional(field) == field = None \/ field = Some(field[1])
Spelt(body) ==
  /\ {"odd", "max", "format", "effort", "stream"} \subseteq DOMAIN body
  /\ body.odd \subseteq ToSet(CannotBeHonoured) /\ body.stream \in BOOLEAN
  /\ Optional(body.max) /\ (body.max # None => body.max[1] \in Nat)
  /\ Optional(body.format) /\ Optional(body.effort)

(* A message is made of parts and calls, and those of strings.             *)
SpeltPart(part) ==
  /\ part.type = "text" => part.text \in Seq(Strings)
  /\ part.type \in {"image_url", "file", "input_audio"} => part.media \in Strings
SpeltCall(call) ==
  call.id \in Strings /\ call.name \in Strings /\ call.arguments \in Seq(Strings)
SpeltMessage(message) ==
  /\ Optional(message.content) /\ Optional(message.id)
  /\ message.id # None => message.id[1] \in Strings
  /\ LET parts == Or(message.content, <<>>) IN
     parts \in Seq(ToSet(parts)) /\ \A i \in DOMAIN parts : SpeltPart(parts[i])
  /\ message.calls \in Seq(ToSet(message.calls))
  /\ \A i \in DOMAIN message.calls : SpeltCall(message.calls[i])

(* A tool is a function that has a name, or of a type of its own.          *)
ReadTools(tools) == \A i \in DOMAIN tools : tools[i].type = "function"

(* Only a schema constrains the reply.  A json_schema without one is no    *)
(* format, and neither is a json_object.                                   *)
Formats == {"text", "json_schema"}
ReadResponseFormat(format) == When(format = Some("json_schema"), "schema")

Efforts ==
  [none |-> "off", minimal |-> "low", low |-> "low", medium |-> "medium", high |-> "high",
   xhigh |-> "xhigh", max |-> "max"]
ReadEffort(effort) == IF effort = None THEN "unset" ELSE Efforts[effort[1]]

(* The fields at fault, in the order they are read: the first is named.    *)
Faults(body) ==
  LET read == ReadMessages(body.messages)
      odd == Only(CannotBeHonoured, body.odd)
  IN When(body.model = <<>>, "model")
     \o odd
     \o When(read.wrong \/ read.messages = <<>>, "messages")
     \o When(body.max = Some(0), "max_tokens")
     \o When(body.temperature = Some("no number"), "temperature")
     \o When(body.top_p = Some("no number"), "top_p")
     \o When(~ReadTools(body.tools), "tools")
     \o When(body.format # None /\ Or(body.format, "") \notin Formats, "response_format")
     \o When(body.effort # None /\ Or(body.effort, "") \notin DOMAIN Efforts,
             "reasoning_effort")

ReadRequest(body) ==
  LET read == ReadMessages(body.messages) IN
  IF Faults(body) # <<>> THEN [param |-> Some(Head(Faults(body)))]
  ELSE [param |-> None,
        system |-> When(read.system # <<>>, FlattenSeq(read.system)),
        messages |-> read.messages, max |-> body.max,
        temperature |-> body.temperature, top_p |-> body.top_p, tools |-> body.tools,
        schema |-> ReadResponseFormat(body.format), thinking |-> ReadEffort(body.effort),
        stream |-> body.stream, metered |-> body.metered]

-----------------------------------------------------------------------------
(* What a request needs of a model *)

Abilities == {"tools", "structured_output", "thinking", "images", "documents", "audio"}

Carries(request, kind) ==
  \E i \in DOMAIN request.messages : OfKind(request.messages[i].content, kind) # <<>>

(* No opinion is not the same as off, and neither asks for reasoning.      *)
Needs(request) ==
  {a \in Abilities :
     CASE a = "tools" -> request.tools # <<>>
       [] a = "structured_output" -> request.schema # None
       [] a = "thinking" -> request.thinking \notin {"unset", "off"}
       [] a = "images" -> Carries(request, "image")
       [] a = "documents" -> Carries(request, "document")
       [] a = "audio" -> Carries(request, "audio")}

(* What a model is missing; a floor on where the data goes comes first.    *)
UnmetBy(request, private, model) ==
  (IF private /\ ~model.on_device THEN {"on-device"} ELSE {})
  \cup (Needs(request) \ model.can)
=============================================================================
