----------------------------- MODULE MediaWire ------------------------------
(***************************************************************************)
(* EXTERNAL: the vendors of the endpoints beside chat.  A vendor does what *)
(* the body says, or gets it wrong in one of the ways a reply can show: in *)
(* the number, the order, the width or the form of what it sends.  What it *)
(* consumed is what it bills, whatever part of it the reply reports.       *)
(***************************************************************************)
EXTENDS MediaVendors

CONSTANT Resizes(_)  (* models whose vectors come in the width asked for   *)

NativeWidth == 8
DatedAs == "dated"  (* the alias a vendor answers under                    *)

(* Nothing of a media call is cached.                                      *)
Spent(input, output) ==
  [c \in Counts |-> IF c = "input" THEN input ELSE IF c = "output" THEN output ELSE 0]
Reported(spent) == [c \in Counts |-> Some(spent[c])]

SpentAt(endpoint) == IF endpoint = "embeddings" THEN Spent(7, 0) ELSE Spent(7, 5)

Consumed(endpoint, request, answer) ==
  [tokens |-> SpentAt(endpoint),
   units |-> [images |-> IF endpoint = "images" THEN Len(answer.pictures) ELSE 0,
              audio_millis |-> IF endpoint = "transcriptions" THEN 25 ELSE 0,
              characters |-> IF endpoint = "speech" THEN Len(request.input) ELSE 0]]

VectorsFor(body, model) ==
  [i \in DOMAIN body.inputs |->
     [of |-> body.inputs[i],
      width |-> IF Resizes(model) THEN Or(body.dimensions, NativeWidth) ELSE NativeWidth]]

(* All of the width asked for, or the last of another.                     *)
VectorsFrom(body, model) ==
  LET vectors == VectorsFor(body, model) IN
  {vectors, [vectors EXCEPT ![Len(vectors)].width = @ + 1]}

Indexed(vectors) == [i \in DOMAIN vectors |-> [index |-> Some(i - 1), vector |-> vectors[i]]]

(* Not one per input: one is missing, or twice there, or not numbered.     *)
Flawed(data) ==
  {Front(data), [data EXCEPT ![Len(data)].index = Some(0)], [data EXCEPT ![1].index = None]}
    \ {data}

(* One per input, listed in any order, or not one per input.               *)
ListedFrom(data) ==
  {[data |-> d, model |-> m, prompt |-> p] :
     d \in {data, Reverse(data)}, m \in {None, Some(DatedAs)}, p \in {None, Some(7)}}
  \cup {[data |-> d, model |-> None, prompt |-> None] : d \in Flawed(data)}

OpenAIEmbedReplies(body, model) ==
  UNION {ListedFrom(Indexed(vectors)) : vectors \in VectorsFrom(body, model)}

PlacedFrom(vectors) == [i \in DOMAIN vectors |-> [vector |-> vectors[i]]]
GeminiEmbedReplies(body, model) ==
  UNION {{[data |-> PlacedFrom(vectors)], [data |-> Tail(PlacedFrom(vectors))]} :
           vectors \in VectorsFrom(body, model)}

(* Pictures of one reply are all of one form.                              *)
Handed(form) == {[bytes |-> Some(form), url |-> None], [bytes |-> None, url |-> Some("link")]}

(* They come as bytes or as links whichever was asked for, fewer or more of*)
(* them than were asked for, and with or without a word of their form.     *)
Drawings(body, form) ==
  {[data |-> [i \in 1..n |-> IF i = 1 THEN first ELSE rest], format |-> f, model |-> m, usage |-> u] :
     n \in 1..Or(body.count, 1) + 1, first \in Handed(form), rest \in Handed(form),
     f \in {None, Some(form)}, m \in {None, Some(DatedAs)},
     u \in {Absent, Reported(SpentAt("images"))}}

(* In the form asked for, or in another; none at all; or an empty one.     *)
OpenAIImageReplies(body) ==
  (UNION {Drawings(body, form) : form \in {Or(body.output_format, "png"), "jpeg"}})
  \cup {[data |-> data, format |-> None, model |-> None, usage |-> Reported(SpentAt("images"))] :
          data \in {<<>>, <<[bytes |-> None, url |-> None]>>}}

Generated(parts, finish, model, usage) ==
  [blocked |-> FALSE, parts |-> parts, finish |-> finish, model |-> model, usage |-> usage]

Inline(type, of) == [type |-> type, of |-> of]
Caption == Inline("text", "caption")

(* Media of one type, once or twice, and text beside it.                   *)
Made(type, ofs, usage) ==
  UNION {{Generated(<<Caption, Inline(type, of)>>, "STOP", m, usage),
          Generated(<<Caption, Inline(type, of), Inline(type, of)>>, "STOP", m, usage)} :
           of \in ofs, m \in {None, Some(DatedAs)}}

(* Text alone, nothing, or what cannot be decoded.                         *)
Unmade(type, usage) ==
  {Generated(parts, "STOP", None, usage) :
     parts \in {<<Caption>>, <<>>, <<Inline("no base64", type)>>}}

(* Blocked as it was made, or before.                                      *)
Withheld(usage) ==
  {Generated(<<>>, "IMAGE_SAFETY", None, usage),
   [Generated(<<>>, "STOP", None, usage) EXCEPT !.blocked = TRUE]}

GeminiReplies(type, ofs) ==
  LET spent == Reported(SpentAt("images")) IN
  Made(type, ofs, Absent) \cup Made(type, ofs, spent) \cup Unmade(type, spent) \cup Withheld(spent)

OpenAISpeechReplies(body) == {[audio |-> Some(Or(body.format, "mp3"))], [audio |-> None]}

TranscriptReplies(body) ==
  {[text |-> Some("said"), metered |-> m, usage |-> Reported(SpentAt("transcriptions")),
    millis |-> Some(25)] : m \in {"tokens", "duration", "nothing"}}
  \cup {[text |-> None, metered |-> "nothing", usage |-> Absent, millis |-> None]}

Bodies(type, endpoint, body, model) ==
  CASE endpoint = "transcriptions" -> TranscriptReplies(body)
    [] type = "openai" /\ endpoint = "embeddings" -> OpenAIEmbedReplies(body, model)
    [] type = "gemini" /\ endpoint = "embeddings" -> GeminiEmbedReplies(body, model)
    [] type = "openai" /\ endpoint = "images" -> OpenAIImageReplies(body)
    [] type = "gemini" /\ endpoint = "images" -> GeminiReplies("image", {"png"})
    [] type = "openai" /\ endpoint = "speech" -> OpenAISpeechReplies(body)
    [] type = "gemini" /\ endpoint = "speech" -> GeminiReplies("audio", {"l16", "wav", "mp3"})

Replies(type, endpoint, body, model, statuses) ==
  {[status |-> 200, retry_after |-> FALSE, body |-> b] : b \in Bodies(type, endpoint, body, model)}
  \cup {[status |-> s[1], retry_after |-> s[2], body |-> None] : s \in statuses}
=============================================================================
