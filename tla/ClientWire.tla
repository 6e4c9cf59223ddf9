----------------------------- MODULE ClientWire -----------------------------
(***************************************************************************)
(* The chat completions shape as the gateway writes it to a client: a whole*)
(* reply, a refusal, and the chunks of a stream; and what a client makes   *)
(* of those chunks.                                                        *)
(***************************************************************************)
EXTENDS Chat

FinishReason(stop) ==
  CASE stop = "tool_use" -> "tool_calls"
    [] stop \in {"max_tokens", "context_window_exceeded"} -> "length"
    [] stop = "refusal" -> "content_filter"
    [] OTHER -> "stop"

(* Usage, or nothing when it cannot be written honestly.                   *)
UsageObject(usage) ==
  IF PromptTokens(usage) = None \/ usage["output"] = None THEN None
  ELSE Some([prompt_tokens |-> PromptTokens(usage)[1],
             completion_tokens |-> usage["output"][1],
             cached_tokens |-> usage["cache_read"]])

WriteResponse(reply) ==
  LET text == AnswerText(reply.blocks)
      calls == OfKind(reply.blocks, "tool_use")
  IN [content |-> IF text = <<>> /\ calls # <<>> THEN None ELSE Some(text),
      calls |-> [i \in DOMAIN calls |->
                   [id |-> calls[i].id, name |-> calls[i].name,
                    arguments |-> ToStr(calls[i].input)]],
      reasoning |-> Reasoning(reply.blocks),
      refusal |-> IF reply.stop = "refusal"
                  THEN OrElse(reply.details, Some("the model declined")) ELSE None,
      finish |-> FinishReason(reply.stop), stop |-> reply.stop,
      model |-> reply.model, usage |-> UsageObject(reply.usage)]

WriteRefusal(model, category) ==
  [content |-> None, calls |-> <<>>, reasoning |-> <<>>,
   refusal |-> OrElse(category, Some("the model declined")),
   finish |-> "content_filter", stop |-> "refusal", model |-> model, usage |-> None]

-----------------------------------------------------------------------------
(* ChunkWriter *)

NewWriter(model) == [model |-> model, opened |-> FALSE, calls |-> 0]

Chunk(model, delta) == [model |-> model, delta |-> delta]
Delta(is, what) == [is |-> is, what |-> what]

(* Which call a piece of arguments belongs to: the last one named.         *)
InProgress_Next(writer) == writer.calls
InProgress(writer) == IF writer.calls = 0 THEN 0 ELSE writer.calls - 1

(* The writer as one event leaves it, before its chunks are written.       *)
Turned(writer, e) ==
  [writer EXCEPT !.model = IF e.is = "started" THEN e.model ELSE @,
                 !.opened = TRUE,
                 !.calls = IF e.is = "tool" THEN @ + 1 ELSE @]

(* A signature or an opaque block has no place in this shape.              *)
Deltas(writer, e) ==
  CASE e.is = "text" -> When(e.text # <<>>, Delta("content", e.text))
    [] e.is = "thinking" -> When(e.text # <<>>, Delta("reasoning", e.text))
    [] e.is = "tool" ->
         <<Delta("call", [index |-> writer.calls, id |-> e.id, name |-> e.name])>>
    [] e.is = "arguments" ->
         When(e.piece # <<>>,
              Delta("arguments", [index |-> InProgress(writer), piece |-> e.piece]))
    [] e.is = "stopped" ->
         <<Delta("finish", [finish |-> FinishReason(e.reason), stop |-> e.reason])>>
    [] OTHER -> <<>>

(* The first chunk of all names the role.                                  *)
Write(writer, e) ==
  LET model == Turned(writer, e).model
      deltas == When(~writer.opened, Delta("role", "assistant")) \o Deltas(writer, e)
  IN [i \in DOMAIN deltas |-> Chunk(model, deltas[i])]

UsageChunk(writer, total) ==
  LET usage == UsageObject(total) IN
  When(usage # None, Chunk(writer.model, Delta("usage", Or(usage, 0))))

-----------------------------------------------------------------------------
(* A client, which puts the deltas of a stream together as the shape says: *)
(* the arguments of a call by its index.                                   *)

Understood(chunks) ==
  LET Of(is) == FlattenSeq([i \in DOMAIN chunks |->
                  When(chunks[i].delta.is = is, chunks[i].delta.what)])
      Spelt(is) == FlattenSeq([i \in DOMAIN chunks |->
                     IF chunks[i].delta.is = is THEN chunks[i].delta.what ELSE <<>>])
      calls == Of("call")
      pieces == Of("arguments")
      Arguments(index) ==
        FlattenSeq([i \in DOMAIN pieces |->
          IF pieces[i].index = index THEN pieces[i].piece ELSE <<>>])
      finish == Of("finish")
  IN [content |-> Spelt("content"),
      reasoning |-> Spelt("reasoning"),
      calls |-> [i \in DOMAIN calls |->
                   [id |-> calls[i].id, name |-> calls[i].name, arguments |-> Arguments(i - 1)]],
      finish |-> IF finish = <<>> THEN None ELSE Some(Last(finish)),
      model |-> IF chunks = <<>> THEN None ELSE Some(Last(chunks).model)]
=============================================================================
