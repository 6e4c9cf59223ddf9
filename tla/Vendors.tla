------------------------------ MODULE Vendors -------------------------------
(***************************************************************************)
(* How each protocol reads a vendor's reply: the body of a whole call, and *)
(* one frame of a stream.  A field of a body that may be missing is        *)
(* optional; a reply nothing can be read from is None.                     *)
(***************************************************************************)
EXTENDS Chat

Minus(total, part) == IF part > total THEN 0 ELSE total - part

(* A text that is there and says something.                                *)
Spoken(option) == option # None /\ option[1] # <<>>

Unless(condition, reply) == IF condition THEN None ELSE Some(reply)
MeteredIfSaid(usage) == When(Coverage(usage) # "absent", Metered(usage))

-----------------------------------------------------------------------------
(* The chat completions shape *)

OpenAIStops ==
  [stop |-> "end_turn", tool_calls |-> "tool_use", function_call |-> "tool_use",
   length |-> "max_tokens", content_filter |-> "refusal",
   context_length_exceeded |-> "context_window_exceeded"]
ReadStop(stops, reason) ==
  IF reason # None /\ reason[1] \in DOMAIN stops THEN stops[reason[1]] ELSE "other"

(* prompt_tokens is the whole prompt; input_tokens what was not cached.    *)
OpenAIUsage(u) ==
  IF u = None THEN Absent
  ELSE [Absent EXCEPT
          !["input"] = IF u[1].prompt = None THEN None
                       ELSE Some(Minus(u[1].prompt[1], Or(u[1].cached, 0))),
          !["cache_read"] = u[1].cached,
          !["output"] = u[1].completion]

OpenAICall(call) ==
  ToolUse(Or(call.id, ""), Or(call.name, ""), FromStr(Or(call.arguments, <<"{", "}">>)))

OpenAIRead(body, askedFor) ==
  LET blocks == When(Spoken(body.content), Text(Or(body.content, <<>>)))
                \o [i \in DOMAIN body.calls |-> OpenAICall(body.calls[i])]
  IN Unless(~body.choices \/ blocks = <<>>,
            Reply(blocks, ReadStop(OpenAIStops, body.finish), body.finish,
                  OpenAIUsage(body.usage), Or(body.model, askedFor)))

(* A name starts a call; arguments go on with the one that was started.    *)
OpenAICallEvents(call) ==
  When(call.name # None, ToolUseStarted(Or(call.id, ""), Or(call.name, "")))
  \o When(Spoken(call.arguments), ToolArgumentsDelta(Or(call.arguments, <<>>)))

OpenAIEvents(body) ==
  When(body.model # None /\ body.role, Started(Or(body.model, "")))
  \o When(Spoken(body.content), TextDelta(Or(body.content, <<>>)))
  \o When(Spoken(body.reasoning), ThinkingDelta(Or(body.reasoning, <<>>)))
  \o FlattenSeq([i \in DOMAIN body.calls |-> OpenAICallEvents(body.calls[i])])
  \o When(body.finish # None, Stopped(ReadStop(OpenAIStops, body.finish), None))
  \o MeteredIfSaid(OpenAIUsage(body.usage))

-----------------------------------------------------------------------------
(* The Messages API *)

AnthropicStops ==
  [end_turn |-> "end_turn", tool_use |-> "tool_use", stop_sequence |-> "stop_sequence",
   max_tokens |-> "max_tokens", refusal |-> "refusal", pause_turn |-> "pause_turn",
   model_context_window_exceeded |-> "context_window_exceeded"]

(* The counts are what a usage means already.                              *)
AnthropicUsage(u) == IF u = None THEN Absent ELSE u[1]

AnthropicBlock(block) ==
  CASE block.type = "text"     -> Text(block.text)
    [] block.type = "thinking" -> Thinking(Or(block.thinking, <<>>), block.signature)
    [] block.type = "tool_use" -> ToolUse(block.id, block.name, Or(block.input, EmptyObject))
    [] OTHER                   -> Opaque(block.type, block)

AnthropicRead(body, askedFor) ==
  LET blocks == [i \in DOMAIN body.content |-> AnthropicBlock(body.content[i])] IN
  Unless(blocks = <<>>,
         Reply(blocks, ReadStop(AnthropicStops, body.stop), body.sequence,
               AnthropicUsage(body.usage), Or(body.model, askedFor)))

(* Text and thinking open empty.  What is not modelled is kept verbatim.   *)
AnthropicBlockStart(block) ==
  CASE block.type \in {"text", "thinking"} -> <<>>
    [] block.type = "tool_use" -> <<ToolUseStarted(block.id, block.name)>>
    [] OTHER -> <<OpaqueBlock(block.type, block)>>

AnthropicEvents(event, body) ==
  CASE event = "message_start" ->
         When(body.model # None, Started(Or(body.model, "")))
         \o MeteredIfSaid(AnthropicUsage(body.usage))
    [] event = "content_block_start" -> AnthropicBlockStart(body.block)
    [] event = "content_block_delta" ->
         <<CASE body.type = "text_delta" -> TextDelta(body.piece)
             [] body.type = "thinking_delta" -> ThinkingDelta(body.piece)
             [] body.type = "signature_delta" -> ThinkingSignature(body.piece)
             [] body.type = "input_json_delta" -> ToolArgumentsDelta(body.piece)>>
    [] event = "message_delta" ->
         When(body.stop # None, Stopped(ReadStop(AnthropicStops, body.stop), body.sequence))
         \o MeteredIfSaid(AnthropicUsage(body.usage))
    [] OTHER -> <<>>

-----------------------------------------------------------------------------
(* generateContent *)

GeminiStops ==
  [STOP |-> "end_turn", MAX_TOKENS |-> "max_tokens", SAFETY |-> "refusal",
   PROHIBITED_CONTENT |-> "refusal", BLOCKLIST |-> "refusal", RECITATION |-> "refusal"]

(* Reasoning is billed: it is output, shown or not.                        *)
GeminiUsage(u) ==
  IF u = None THEN Absent
  ELSE [Absent EXCEPT
          !["input"] = IF u[1].prompt = None THEN None
                       ELSE Some(Minus(u[1].prompt[1], Or(u[1].cached, 0))),
          !["cache_read"] = u[1].cached,
          !["output"] = IF u[1].visible = None /\ u[1].thoughts = None THEN None
                        ELSE Some(Or(u[1].visible, 0) + Or(u[1].thoughts, 0))]

(* A part has a text, a call or both.  Whole, its call is read, and        *)
(* streamed its text.                                                      *)
GeminiPart(part) ==
  IF part.call # None
  THEN LET call == part.call[1] IN
       ToolUse(Or(call.id, call.name), call.name, Or(call.args, EmptyObject))
  ELSE LET text == Or(part.text, <<>>) IN
       IF part.thought THEN Thinking(text, None) ELSE Text(text)

GeminiRead(body, askedFor) ==
  LET blocks == [i \in DOMAIN body.parts |-> GeminiPart(body.parts[i])] IN
  Unless(~body.candidates \/ blocks = <<>>,
         Reply(blocks, ReadStop(GeminiStops, body.finish), None,
               GeminiUsage(body.usage), Or(body.model, askedFor)))

(* A call is whole in a frame.                                             *)
GeminiPartEvents(part) ==
  IF part.text # None
  THEN LET text == part.text[1] IN
       IF part.thought THEN <<ThinkingDelta(text)>> ELSE When(text # <<>>, TextDelta(text))
  ELSE LET call == part.call[1] IN
       <<ToolUseStarted(Or(call.id, ""), call.name),
         ToolArgumentsDelta(ToStr(Or(call.args, EmptyObject)))>>

GeminiEvents(body) ==
  When(body.model # None, Started(Or(body.model, "")))
  \o FlattenSeq([i \in DOMAIN body.parts |-> GeminiPartEvents(body.parts[i])])
  \o When(body.finish # None, Stopped(ReadStop(GeminiStops, body.finish), None))
  \o MeteredIfSaid(GeminiUsage(body.usage))

-----------------------------------------------------------------------------
(* One operator for each half of the trait Protocol that reads.  Bedrock   *)
(* answers with the Messages reply, and has no streaming form.             *)

Vendor == {"openai", "anthropic", "gemini", "bedrock"}

Read(vendor, body, askedFor) ==
  CASE vendor = "openai" -> OpenAIRead(body, askedFor)
    [] vendor = "gemini" -> GeminiRead(body, askedFor)
    [] vendor \in {"anthropic", "bedrock"} -> AnthropicRead(body, askedFor)

(* What read_event makes of a frame: its events, or the error it is.       *)
ReadEvent(vendor, frame) ==
  LET fails(error) == [error |-> Some(error), events |-> <<>>] IN
  IF frame.data = "[DONE]" /\ vendor = "openai" THEN [error |-> None, events |-> <<>>]
  ELSE IF frame.data \in {"[DONE]", "broken"} THEN fails("unreadable")
  ELSE IF vendor = "anthropic" /\ frame.event = "error" THEN fails("transient")
  ELSE [error |-> None, events |->
          CASE vendor = "openai" -> OpenAIEvents(frame.body)
            [] vendor = "gemini" -> GeminiEvents(frame.body)
            [] vendor = "anthropic" -> AnthropicEvents(frame.event, frame.body)]
=============================================================================
