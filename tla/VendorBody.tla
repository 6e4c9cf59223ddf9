----------------------------- MODULE VendorBody -----------------------------
(***************************************************************************)
(* The body each protocol makes of a request: turns of items, and what is  *)
(* asked of the model.  A body that cannot be made is None.  How an item   *)
(* is laid out in JSON is left out, what is on it is not: an item names the*)
(* call it belongs to by the key that vendor goes by.                      *)
(***************************************************************************)
EXTENDS ClientRequest

Says(text) == [is |-> "text", text |-> text]
Thinks(block) == [is |-> "thinking", text |-> block.text, signature |-> block.signature]
Calls(key, name, input) == [is |-> "call", key |-> key, name |-> name, input |-> input]
Answers(key, text) == [is |-> "result", key |-> key, text |-> text]
Shows(block) ==
  [is |-> block.kind, media |-> block.media, source |-> block.source]
Verbatim(block) == [is |-> "opaque", raw |-> block.raw]

WireTurn(role, items) == [role |-> role, items |-> items]
Body(turns, settings) == [turns |-> turns, settings |-> settings]

IsMedia(block) == block.kind \in {"image", "document", "audio"}
Asked(request) ==
  [max |-> request.max, temperature |-> request.temperature, top_p |-> request.top_p,
   tools |-> request.tools, schema |-> request.schema, reasoning |-> None]

(* The turns of a request, when every one of its blocks can be sent.       *)
AllTurns(taken, turns) == IF taken THEN Some(FlattenSeq(turns)) ELSE None

BlocksOf(request) ==
  UNION {ToSet(request.messages[i].content) : i \in DOMAIN request.messages}

(* What the system says is in front.                                       *)
Sent(request, turns, settings) ==
  LET system == When(request.system # None,
                     WireTurn("system", <<Says(Or(request.system, <<>>))>>))
  IN IF turns = None THEN None ELSE Some(Body(system \o turns[1], settings))

-----------------------------------------------------------------------------
(* The chat completions shape: system text is a turn, results are turns,   *)
(* and a turn is a string unless it shows something.  Reasoning and blocks *)
(* of other protocols have no place.                                       *)

OpenAITakes(block) ==
  CASE block.kind = "document" ->
         block.media = "application/pdf" /\ block.source = "bytes"
    [] block.kind = "audio" -> block.media \in {"audio/wav", "audio/mpeg"}
    [] OTHER -> TRUE

OpenAITurns(message) ==
  LET results == OfKind(message.content, "tool_result")
      texts == OfKind(message.content, "text")
      shown == FlattenSeq([i \in DOMAIN message.content |->
                 When(IsMedia(message.content[i]), message.content[i])])
      calls == OfKind(message.content, "tool_use")
      said == IF shown = <<>> THEN <<Says(AnswerText(message.content))>>
              ELSE [i \in DOMAIN texts |-> Says(texts[i].text)]
                   \o [i \in DOMAIN shown |-> Shows(shown[i])]
  IN [i \in DOMAIN results |-> WireTurn("tool", <<Answers(results[i].id, results[i].text)>>)]
     \o When(texts # <<>> \/ calls # <<>> \/ shown # <<>>,
             WireTurn(message.role,
                      said \o [i \in DOMAIN calls |->
                                 Calls(calls[i].id, calls[i].name, calls[i].input)]))

OpenAIBodyOf(request) ==
  Sent(request,
       AllTurns(\A block \in BlocksOf(request) : OpenAITakes(block),
                [i \in DOMAIN request.messages |-> OpenAITurns(request.messages[i])]),
       Asked(request))

-----------------------------------------------------------------------------
(* The Messages API: a block for a block.  Reasoning goes back with its    *)
(* signature and what is opaque as it came.  A limit is required.          *)

AnthropicTakes(block) ==
  CASE block.kind = "document" ->
         \/ block.media = "application/pdf"
         \/ block.media = "text/plain" /\ block.source = "bytes"
    [] block.kind = "audio" -> FALSE
    [] OTHER -> TRUE

AnthropicItem(block) ==
  CASE block.kind = "text" -> Says(block.text)
    [] block.kind = "thinking" -> Thinks(block)
    [] block.kind = "tool_use" -> Calls(block.id, block.name, block.input)
    [] block.kind = "tool_result" -> Answers(block.id, block.text)
    [] block.kind = "opaque" -> Verbatim(block)
    [] OTHER -> Shows(block)

AnthropicTurns(message) ==
  <<WireTurn(message.role, [i \in DOMAIN message.content |-> AnthropicItem(message.content[i])])>>

AnthropicBudget ==
  [low |-> 2048, medium |-> 8192, high |-> 24576, xhigh |-> 49152, max |-> 98304]

(* The reasoning may take what the limit leaves. *)
AnthropicReasoning_Unbounded(effort, max) == AnthropicBudget[effort]

(* Reasoning counts towards the limit, and must leave room for a reply.    *)
AnthropicReasoning(effort, max) ==
  IF AnthropicBudget[effort] < max THEN AnthropicBudget[effort] ELSE max - 1

AnthropicBodyOf(request) ==
  LET max == Or(request.max, 4096) IN
     Sent(request,
          AllTurns(\A block \in BlocksOf(request) : AnthropicTakes(block),
                   [i \in DOMAIN request.messages |-> AnthropicTurns(request.messages[i])]),
          [Asked(request) EXCEPT
             !.max = Some(max), !.schema = None,
             !.reasoning = IF request.thinking \in DOMAIN AnthropicBudget
                           THEN Some(AnthropicReasoning(request.thinking, max)) ELSE None])

-----------------------------------------------------------------------------
(* generateContent: takes every kind of media, and knows a call by the name*)
(* of its tool.                                                            *)

GeminiTakes(block) == TRUE

GeminiItem(block) ==
  CASE block.kind = "text" -> <<Says(block.text)>>
    [] block.kind = "thinking" -> <<[Thinks(block) EXCEPT !.signature = None]>>
    [] block.kind = "tool_use" -> <<Calls(block.name, block.name, block.input)>>
    [] block.kind = "tool_result" -> <<Answers(block.id, block.text)>>
    [] block.kind = "opaque" -> <<>>
    [] OTHER -> <<Shows(block)>>

GeminiTurns(message) ==
  <<WireTurn(IF message.role = "user" THEN "user" ELSE "model",
             FlattenSeq([i \in DOMAIN message.content |-> GeminiItem(message.content[i])]))>>

GeminiBudget ==
  [low |-> 2048, medium |-> 8192, high |-> 24576, xhigh |-> 32768, max |-> 32768]

(* Nought is how this vendor is told not to reason.                        *)
GeminiBodyOf(request) ==
     Sent(request,
          AllTurns(\A block \in BlocksOf(request) : GeminiTakes(block),
                   [i \in DOMAIN request.messages |-> GeminiTurns(request.messages[i])]),
          [Asked(request) EXCEPT
             !.reasoning = CASE request.thinking = "unset" -> None
                             [] request.thinking = "off" -> Some(0)
                             [] OTHER -> Some(GeminiBudget[request.thinking])])

-----------------------------------------------------------------------------
(* Bedrock sends the Messages body, with the model in the address instead. *)
VendorBodyOf(vendor, request) ==
  CASE vendor = "openai" -> OpenAIBodyOf(request)
    [] vendor = "gemini" -> GeminiBodyOf(request)
    [] OTHER -> AnthropicBodyOf(request)
=============================================================================
