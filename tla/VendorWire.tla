----------------------------- MODULE VendorWire -----------------------------
(***************************************************************************)
(* The vendors, as the code and its recorded replies take them to be: how  *)
(* each writes one answer as a whole body and as the frames of a stream.   *)
(* An answer is what the model said: blocks of words, reasoning with its   *)
(* proof, calls of tools, blocks nobody models; why it stopped; and what   *)
(* it consumed.                                                            *)
(***************************************************************************)
EXTENDS Vendors

Words(text) == [kind |-> "text", text |-> text]
Thought(text, proof) == [kind |-> "thinking", text |-> text, proof |-> proof]
Asks(id, name, pieces) == [kind |-> "tool_use", id |-> id, name |-> name, pieces |-> pieces]
Redacted(raw) == [kind |-> "redacted", raw |-> raw]

Answer(blocks, stop) == [blocks |-> blocks, stop |-> stop]

(* How a vendor spells why the model stopped.                              *)
Spelled(vendor, stop) ==
  CASE vendor = "openai" -> [end |-> "stop", tools |-> "tool_calls",
                             refusal |-> "content_filter", new |-> "unheard_of"][stop]
    [] vendor = "gemini" -> [end |-> "STOP", tools |-> "STOP",
                             refusal |-> "SAFETY", new |-> "UNHEARD_OF"][stop]
    [] OTHER -> [end |-> "end_turn", tools |-> "tool_use",
                 refusal |-> "refusal", new |-> "unheard_of"][stop]

(* A prompt of seven tokens, three of them cached; two said, one thought.  *)
OpenAITotals == Some([prompt |-> Some(7), cached |-> Some(3), completion |-> Some(3)])
GeminiTotals ==
  Some([prompt |-> Some(7), cached |-> Some(3), visible |-> Some(2), thoughts |-> Some(1)])
AnthropicPrompt ==
  [Absent EXCEPT !["input"] = Some(4), !["cache_read"] = Some(3), !["cache_write"] = Some(0)]
AnthropicOutput == [Absent EXCEPT !["output"] = Some(3)]

Pieces(text) == [i \in DOMAIN text |-> <<text[i]>>]
Each(blocks, F(_)) == FlattenSeq([i \in DOMAIN blocks |-> F(blocks[i])])
Frame(event, body) == [event |-> event, data |-> "json", body |-> body]
Unnamed(bodies) == [i \in DOMAIN bodies |-> Frame("", bodies[i])]

-----------------------------------------------------------------------------
OpenAIBody ==
  [choices |-> TRUE, model |-> Some("served"), role |-> FALSE, content |-> None,
   reasoning |-> None, calls |-> <<>>, finish |-> None, usage |-> None]

OpenAIWhole(answer) ==
  LET calls == OfKind(answer.blocks, "tool_use") IN
  [OpenAIBody EXCEPT
     !.content = Some(AnswerText(answer.blocks)),
     !.calls = [i \in DOMAIN calls |-> [id |-> Some(calls[i].id), name |-> Some(calls[i].name),
                                        arguments |-> Some(calls[i].pieces)]],
     !.finish = Some(Spelled("openai", answer.stop)), !.usage = OpenAITotals]

OpenAIFrames(answer) ==
  LET Delta(call) == [OpenAIBody EXCEPT !.calls = <<call>>]
      Says(block) ==
        CASE block.kind = "text" ->
               [i \in DOMAIN block.text |->
                  [OpenAIBody EXCEPT !.content = Some(<<block.text[i]>>)]]
          [] block.kind = "thinking" ->
               [i \in DOMAIN block.text |->
                  [OpenAIBody EXCEPT !.reasoning = Some(<<block.text[i]>>)]]
          [] block.kind = "tool_use" ->
               <<Delta([id |-> Some(block.id), name |-> Some(block.name),
                        arguments |-> Some(<<>>)])>>
               \o [i \in DOMAIN block.pieces |->
                     Delta([id |-> None, name |-> None,
                            arguments |-> Some(<<block.pieces[i]>>)])]
  IN Unnamed(<<[OpenAIBody EXCEPT !.role = TRUE, !.content = Some(<<>>)]>>
             \o Each(answer.blocks, Says)
             \o <<[OpenAIBody EXCEPT !.finish = Some(Spelled("openai", answer.stop))],
                  [OpenAIBody EXCEPT !.choices = FALSE, !.usage = OpenAITotals]>>)
     \o <<[event |-> "", data |-> "[DONE]", body |-> OpenAIBody]>>

-----------------------------------------------------------------------------
AnthropicWhole(answer) ==
  LET Block(block) ==
        CASE block.kind = "text" -> [type |-> "text", text |-> block.text]
          [] block.kind = "thinking" -> [type |-> "thinking", thinking |-> Some(block.text),
                                         signature |-> Some(block.proof)]
          [] block.kind = "tool_use" ->
               [type |-> "tool_use", id |-> block.id, name |-> block.name,
                input |-> Some(IF block.pieces = <<>> THEN EmptyObject
                               ELSE FromStr(block.pieces))]
          [] block.kind = "redacted" -> [type |-> "redacted", raw |-> block.raw]
  IN [content |-> [i \in DOMAIN answer.blocks |-> Block(answer.blocks[i])],
      stop |-> Some(Spelled("anthropic", answer.stop)), sequence |-> None,
      usage |-> Some(Merge(AnthropicPrompt, AnthropicOutput)), model |-> Some("served")]

AnthropicFrames(answer) ==
  LET Starts(block) == Frame("content_block_start", [block |-> block])
      Delta(type, piece) == Frame("content_block_delta", [type |-> type, piece |-> piece])
      Deltas(type, text) == [i \in DOMAIN text |-> Delta(type, <<text[i]>>)]
      Says(block) ==
        (CASE block.kind = "text" ->
                <<Starts([type |-> "text"])>> \o Deltas("text_delta", block.text)
           [] block.kind = "thinking" ->
                <<Starts([type |-> "thinking"])>> \o Deltas("thinking_delta", block.text)
                \o <<Delta("signature_delta", block.proof)>>
           [] block.kind = "tool_use" ->
                <<Starts([type |-> "tool_use", id |-> block.id, name |-> block.name])>>
                \o Deltas("input_json_delta", block.pieces)
           [] block.kind = "redacted" -> <<Starts([type |-> "redacted", raw |-> block.raw])>>)
  IN <<Frame("message_start", [model |-> Some("served"), usage |-> Some(AnthropicPrompt)])>>
     \o Each(answer.blocks, Says)
     \o <<Frame("message_delta", [stop |-> Some(Spelled("anthropic", answer.stop)),
                                  sequence |-> None, usage |-> Some(AnthropicOutput)]),
          Frame("message_stop", [type |-> "message_stop"])>>

-----------------------------------------------------------------------------
GeminiBody ==
  [candidates |-> TRUE, model |-> Some("served"), parts |-> <<>>, finish |-> None,
   usage |-> None]

GeminiSays(text, thought) == [text |-> Some(text), thought |-> thought, call |-> None]
GeminiAsks(block) ==
  [text |-> None, thought |-> FALSE,
   call |-> Some([id |-> None, name |-> block.name,
                  args |-> Some(IF block.pieces = <<>> THEN EmptyObject
                                ELSE FromStr(block.pieces))])]

GeminiWhole(answer) ==
  LET Part(block) == IF block.kind = "tool_use" THEN GeminiAsks(block)
                     ELSE GeminiSays(block.text, block.kind = "thinking")
  IN [GeminiBody EXCEPT
        !.parts = [i \in DOMAIN answer.blocks |-> Part(answer.blocks[i])],
        !.finish = Some(Spelled("gemini", answer.stop)), !.usage = GeminiTotals]

(* The totals come with the last frame, or are repeated on every one.      *)
GeminiFrames(answer, repeats) ==
  LET Parts(block) ==
        IF block.kind = "tool_use" THEN <<GeminiAsks(block)>>
        ELSE [i \in DOMAIN block.text |->
                GeminiSays(<<block.text[i]>>, block.kind = "thinking")]
      parts == Each(answer.blocks, Parts)
      last == Len(parts)
  IN Unnamed([i \in 1..last |->
       [GeminiBody EXCEPT
          !.parts = <<parts[i]>>,
          !.finish = IF i = last THEN Some(Spelled("gemini", answer.stop)) ELSE None,
          !.usage = IF i = last \/ repeats THEN GeminiTotals ELSE None]])

-----------------------------------------------------------------------------
Whole(vendor, answer) ==
  CASE vendor = "openai" -> OpenAIWhole(answer)
    [] vendor = "gemini" -> GeminiWhole(answer)
    [] OTHER -> AnthropicWhole(answer)

Streamed(vendor, answer, repeats) ==
  CASE vendor = "openai" -> OpenAIFrames(answer)
    [] vendor = "gemini" -> GeminiFrames(answer, repeats)
    [] vendor = "anthropic" -> AnthropicFrames(answer)
    [] vendor = "bedrock" -> <<>>
=============================================================================
