-------------------------------- MODULE Chat --------------------------------
(***************************************************************************)
(* What a call says and what it consumed: the blocks of a message, the     *)
(* usage of a call, and the Transcript that folds the events of a stream   *)
(* back into a reply.  A text is a sequence of words, the arguments of a   *)
(* tool call a sequence of pieces of a JSON document, and an optional      *)
(* value a sequence of at most one element.                                *)
(***************************************************************************)
EXTENDS Naturals, Sequences, SequencesExt

None == <<>>
Some(x) == <<x>>
Or(option, default) == IF option = None THEN default ELSE option[1]
OrElse(option, other) == IF option = None THEN other ELSE option
When(condition, x) == IF condition THEN <<x>> ELSE <<>>

(* The strings.  Those the code writes by itself are named for the provers,*)
(* which do not know of a literal that it is one.                          *)
Strings == STRING \cup {"", "{", "{raw:", "}"}

(* The bytes of a JSON object, as pieces: an opening and a closing one.    *)
WellFormed(string) ==
  /\ Len(string) >= 2 /\ Last(string) = "}"
  /\ \/ Head(string) = "{raw:"
     \/ Head(string) = "{" /\ \A i \in 2..Len(string) - 1 : string[i] \notin {"{", "}"}

(* The value a string parses to, or the string under the key "raw".        *)
FromStr(string) ==
  CASE WellFormed(string) /\ Head(string) = "{raw:" -> [raw |-> Front(Tail(string))]
    [] WellFormed(string) /\ Head(string) = "{" -> [json |-> string]
    [] OTHER -> [raw |-> string]

ToStr(value) ==
  IF "json" \in DOMAIN value THEN value.json ELSE <<"{raw:">> \o value.raw \o <<"}">>

EmptyObject == [json |-> <<"{", "}">>]

-----------------------------------------------------------------------------
(* Content blocks *)

Text(text) == [kind |-> "text", text |-> text]
Thinking(text, signature) == [kind |-> "thinking", text |-> text, signature |-> signature]
ToolUse(id, name, input) == [kind |-> "tool_use", id |-> id, name |-> name, input |-> input]
Opaque(name, raw) == [kind |-> "opaque", name |-> name, raw |-> raw]

OfKind(blocks, kind) ==
  FlattenSeq([i \in DOMAIN blocks |-> When(blocks[i].kind = kind, blocks[i])])
Joined(blocks, kind) ==
  LET those == OfKind(blocks, kind) IN FlattenSeq([i \in DOMAIN those |-> those[i].text])

(* ChatResponse::text and the reasoning beside it.                         *)
AnswerText(blocks) == Joined(blocks, "text")
Reasoning(blocks) == Joined(blocks, "thinking")

-----------------------------------------------------------------------------
(* Usage.  No reader of a reply sets the estimated flag.                   *)

Counts == {"input", "cache_read", "cache_write", "output"}
Absent == [c \in Counts |-> None]

Merge(a, b) ==
  [c \in Counts |->
     IF a[c] = None /\ b[c] = None THEN None ELSE Some(Or(a[c], 0) + Or(b[c], 0))]

Coverage(usage) ==
  LET reported == {c \in Counts : usage[c] # None} IN
  CASE reported = {} -> "absent"
    [] reported = Counts -> "exact"
    [] OTHER -> "partial"

PromptTokens(usage) ==
  LET parts == <<usage["input"], usage["cache_read"], usage["cache_write"]>> IN
  IF \A i \in 1..3 : parts[i] = None
  THEN None ELSE Some(Or(parts[1], 0) + Or(parts[2], 0) + Or(parts[3], 0))

-----------------------------------------------------------------------------
(* Events, and the transcript they are folded into *)

Started(model) == [is |-> "started", model |-> model]
TextDelta(text) == [is |-> "text", text |-> text]
ThinkingDelta(text) == [is |-> "thinking", text |-> text]
ThinkingSignature(signature) == [is |-> "signature", signature |-> signature]
ToolUseStarted(id, name) == [is |-> "tool", id |-> id, name |-> name]
ToolArgumentsDelta(piece) == [is |-> "arguments", piece |-> piece]
OpaqueBlock(name, raw) == [is |-> "opaque", name |-> name, raw |-> raw]
Stopped(reason, details) == [is |-> "stopped", reason |-> reason, details |-> details]
Metered(usage) == [is |-> "metered", usage |-> usage]

NewTranscript ==
  [blocks |-> <<>>, tool |-> None, stop |-> None, usage |-> None, served |-> None]

CloseTool(t) ==
  IF t.tool = None THEN t
  ELSE LET call == t.tool[1] IN
       [t EXCEPT !.tool = None,
                 !.blocks = Append(@, ToolUse(call.id, call.name, FromStr(call.arguments)))]

Adds(t, block) == [t EXCEPT !.blocks = Append(@, block)]
Extends(t, i, text) == [t EXCEPT !.blocks[i].text = @ \o text]

(* The places of the thinking blocks whose signature has not arrived.      *)
OpenThinking(blocks) ==
  {i \in DOMAIN blocks : blocks[i].kind = "thinking" /\ blocks[i].signature = None}

Say(t, text) ==
  LET n == Len(t.blocks) IN
  IF n > 0 /\ t.blocks[n].kind = "text" THEN Extends(t, n, text) ELSE Adds(t, Text(text))

(* Reasoning joins the last thinking block, signed or not. *)
Think_AfterTheProof(t, text) ==
  LET n == Len(t.blocks) IN
  IF n > 0 /\ t.blocks[n].kind = "thinking"
  THEN Extends(t, n, text) ELSE Adds(t, Thinking(text, None))

(* Once the signature is there the block is finished.                      *)
Think(t, text) ==
  LET n == Len(t.blocks) IN
  IF n \in OpenThinking(t.blocks) THEN Extends(t, n, text) ELSE Adds(t, Thinking(text, None))

(* A signature is the last open block's, or it is kept by itself.          *)
Sign(t, signature) ==
  LET open == OpenThinking(t.blocks)
      last == CHOOSE i \in open : \A j \in open : j <= i
  IN IF open = {} THEN Adds(t, Opaque("signature_without_block", signature))
     ELSE [t EXCEPT !.blocks[last].signature = Some(signature)]

Push(t, e) ==
  CASE e.is = "started"   -> [t EXCEPT !.served = Some(e.model)]
    [] e.is = "text"      -> Say(CloseTool(t), e.text)
    [] e.is = "thinking"  -> Think(CloseTool(t), e.text)
    [] e.is = "signature" -> Sign(CloseTool(t), e.signature)
    [] e.is = "tool" -> [CloseTool(t) EXCEPT
                           !.tool = Some([id |-> e.id, name |-> e.name, arguments |-> <<>>])]
    [] e.is = "arguments" -> IF t.tool = None THEN t
                             ELSE [t EXCEPT !.tool[1].arguments = @ \o e.piece]
    [] e.is = "opaque"  -> Adds(CloseTool(t), Opaque(e.name, e.raw))
    [] e.is = "stopped" -> [CloseTool(t) EXCEPT !.stop = Some(<<e.reason, e.details>>)]
    [] e.is = "metered" -> [t EXCEPT !.usage = Some(IF @ = None THEN e.usage
                                                    ELSE Merge(@[1], e.usage))]

Reply(blocks, stop, details, usage, model) ==
  [blocks |-> blocks, stop |-> stop, details |-> details, usage |-> usage, model |-> model]

IsFinished(t) == t.stop # None

(* A transcript nobody ended is one whose stream ended early.              *)
Finish(t, askedFor) ==
  LET stop == Or(t.stop, <<"interrupted", Some("the stream ended early")>>) IN
  Reply(CloseTool(t).blocks, stop[1], stop[2], Or(t.usage, Absent), Or(t.served, askedFor))

-----------------------------------------------------------------------------
(* A whole reply as the events that would have produced it: what a protocol*)
(* that does not stream hands over in one burst.                           *)

ReplayBlock(block) ==
  CASE block.kind = "text" -> <<TextDelta(block.text)>>
    [] block.kind = "thinking" ->
         <<ThinkingDelta(block.text)>>
         \o When(block.signature # None, ThinkingSignature(Or(block.signature, "")))
    [] block.kind = "tool_use" ->
         <<ToolUseStarted(block.id, block.name), ToolArgumentsDelta(ToStr(block.input))>>
    [] block.kind = "opaque" -> <<OpaqueBlock(block.name, block.raw)>>
    [] OTHER -> <<>>

ReplayStream(reply) ==
  <<Started(reply.model)>>
  \o FlattenSeq([i \in DOMAIN reply.blocks |-> ReplayBlock(reply.blocks[i])])
  \o <<Stopped(reply.stop, reply.details), Metered(reply.usage)>>
=============================================================================
