---------------------------- MODULE MediaVendors ----------------------------
(***************************************************************************)
(* The endpoints beside chat of each type of provider: what is refused     *)
(* before anything is sent, the body that is sent, and what is read of the *)
(* reply.  A reading is an answer or an error, and an error is one of the  *)
(* failures a policy decides about.  What a vendor answers is external: it *)
(* does what the body says, or gets it wrong in one of the ways the reader *)
(* looks for.                                                              *)
(***************************************************************************)
EXTENDS MediaRequest, Pricing

Answer(value) == [error |-> None, value |-> Some(value)]
Fails(error) == [error |-> Some(error), value |-> None]

(* The provider types that have an endpoint for each kind.                 *)
Serves(type, kind) ==
  CASE type = "anthropic" -> FALSE
    [] type = "gemini"    -> kind # "transcription"
    [] type = "openai"    -> TRUE

-----------------------------------------------------------------------------
(* Transport *)

Success(status) == status \in 200..299

(* What a status that is no success means.  A limit may say when it clears.*)
Check(status, retry_after) ==
  CASE status \in {401, 403} -> "auth"
    [] status = 404          -> "not_found"
    [] status = 408          -> "timeout"
    [] status = 429          -> IF retry_after THEN "rate_limited_for" ELSE "rate_limited"
    [] status \in {400, 422} -> "invalid"
    [] OTHER                 -> "transient"

-----------------------------------------------------------------------------
(* Embeddings.  A vector says which input it is of and how long it is.     *)

EmbedBody(request) == request

Resized(request, vectors) ==
  request.dimensions = None \/ vectors[1].width = request.dimensions[1]

Embeddings(vectors, model, usage) == [vectors |-> vectors, model |-> model, usage |-> usage]

(* Position alone says which input a vector is of. *)
ReadOpenAIEmbeddings_ByPosition(reply, request, model) ==
  LET vectors == [i \in DOMAIN reply.data |-> reply.data[i].vector] IN
  IF Len(vectors) # Len(request.inputs) THEN Fails("unreadable")
  ELSE IF ~Resized(request, vectors) THEN Fails("unsupported")
  ELSE Answer(Embeddings(vectors, Or(reply.model, model), [Absent EXCEPT !["input"] = reply.prompt]))

(* The indices have to be one per input, in whatever order they come.      *)
ReadOpenAIEmbeddings(reply, request, model) ==
  LET n == Len(request.inputs)
      at(i) == CHOOSE r \in DOMAIN reply.data : reply.data[r].index = Some(i - 1)
      lines_up == /\ Len(reply.data) = n
                  /\ \A i \in 1..n : \E r \in DOMAIN reply.data : reply.data[r].index = Some(i - 1)
      vectors == [i \in 1..n |-> reply.data[at(i)].vector]
      usage == IF reply.prompt = None THEN Absent
               ELSE [c \in Counts |-> Some(IF c = "input" THEN reply.prompt[1] ELSE 0)]
  IN IF ~lines_up THEN Fails("unreadable")
     ELSE IF ~Resized(request, vectors) THEN Fails("unsupported")
     ELSE Answer(Embeddings(vectors, Or(reply.model, model), usage))

(* There is no index, no model and no usage: position is all there is.     *)
ReadGeminiEmbeddings(reply, request, model) ==
  LET vectors == [i \in DOMAIN reply.data |-> reply.data[i].vector] IN
  IF Len(vectors) # Len(request.inputs) THEN Fails("unreadable")
  ELSE IF ~Resized(request, vectors) THEN Fails("unsupported")
  ELSE Answer(Embeddings(vectors, model, Absent))

-----------------------------------------------------------------------------
(* Pictures *)

Ratios ==
  {<<1, 1>>, <<2, 3>>, <<3, 2>>, <<3, 4>>, <<4, 3>>, <<4, 5>>, <<5, 4>>, <<9, 16>>, <<16, 9>>,
   <<21, 9>>}

(* Sizes that are WIDTHxHEIGHT.                                            *)
Parsed == ("1024x1024" :> <<1024, 1024>>) @@ ("1536x1024" :> <<1536, 1024>>)
          @@ ("1000x300" :> <<1000, 300>>)

(* The ratio a width and a height have, in its least terms, none of which  *)
(* is past 30 for the sizes here.                                          *)
Reduced(w, h) ==
  CHOOSE ratio \in (1..30) \X (1..30) :
    /\ ratio[1] * h = ratio[2] * w
    /\ \A d \in 2..30 : ratio[1] % d # 0 \/ ratio[2] % d # 0

SizeFault(size) ==
  IF size \in {None, Some("auto")} THEN None
  ELSE IF size[1] \notin DOMAIN Parsed THEN Some("invalid")
  ELSE LET s == Parsed[size[1]] IN When(Reduced(s[1], s[2]) \notin Ratios, "unsupported")

GeminiRatio(size) ==
  IF size \in {None, Some("auto")} THEN None
  ELSE LET s == Parsed[size[1]] IN Some(Reduced(s[1], s[2]))

(* Gemini draws one picture and hands it over.                             *)
GeminiPictureFault(request) ==
  IF \/ request.count \notin {None, Some(1)}
     \/ request.response_format \notin {None, Some("b64_json")}
     \/ \E f \in {"quality", "background", "output_format"} : request[f] # None
  THEN Some("unsupported")
  ELSE SizeFault(request.size)

GeminiPictureBody(request) == [prompt |-> request.prompt, ratio |-> GeminiRatio(request.size)]

OpenAIPictureBody(request) == request

Images(pictures, model, usage) == [pictures |-> pictures, model |-> model, usage |-> usage]

Signatures == {"png", "jpeg", "webp"}
PictureType(format, bytes) ==
  CASE format \in {Some("jpg"), Some("jpeg")}      -> "jpeg"
    [] format \in {Some("png"), Some("webp")}      -> format[1]
    [] OTHER -> IF bytes \in Signatures THEN bytes ELSE "octet-stream"

(* A picture is bytes, or else a link.  The format is the reply's word, the*)
(* one asked for, or what the bytes begin with.                            *)
ReadPicture(row, format) ==
  IF row.bytes # None THEN [as |-> "b64_json", of |-> PictureType(format, row.bytes[1])]
  ELSE [as |-> "url", of |-> ""]

(* Input and output are all that is read of the usage.                     *)
TwoCounts(usage) == [c \in Counts |-> IF c \in {"input", "output"} THEN usage[c] ELSE None]

ReadOpenAIPictures(reply, request, model) ==
  LET format == OrElse(reply.format, request.output_format) IN
  IF reply.data = <<>> \/ \E i \in DOMAIN reply.data : reply.data[i] = [bytes |-> None, url |-> None]
  THEN Fails("unreadable")
  ELSE Answer(Images([i \in DOMAIN reply.data |-> ReadPicture(reply.data[i], format)],
                     Or(reply.model, model), TwoCounts(reply.usage)))

(* The media in a reply of generateContent: blocked before or while it was *)
(* made is a refusal, and nothing at all is not a reply.                   *)
Blocking == {"SAFETY", "PROHIBITED_CONTENT", "IMAGE_SAFETY", "BLOCKLIST", "SPII"}
InlineParts(reply) ==
  IF reply.blocked THEN Fails("refused")
  ELSE IF \E i \in DOMAIN reply.parts : reply.parts[i].type = "no base64" THEN Fails("unreadable")
  ELSE IF reply.parts = <<>> THEN Fails(IF reply.finish \in Blocking THEN "refused" ELSE "unreadable")
  ELSE Answer(reply.parts)

Typed(parts, type) == Only(parts, {p \in ToSet(parts) : p.type = type})

ReadGeminiPictures(reply, request, model) ==
  LET inline == InlineParts(reply)
      drawn == Typed(Or(inline.value, <<>>), "image")
  IN IF inline.error # None THEN inline
     ELSE IF drawn = <<>> THEN Fails("unreadable")
     ELSE Answer(Images([i \in DOMAIN drawn |-> [as |-> "b64_json", of |-> drawn[i].of]],
                        Or(reply.model, model), reply.usage))

-----------------------------------------------------------------------------
(* Speech.  A recording says what it is typed as and what it holds.        *)

SpokenTypes ==
  [mp3 |-> "audio/mpeg", opus |-> "audio/ogg", aac |-> "audio/aac", flac |-> "audio/flac",
   wav |-> "audio/wav", pcm |-> "audio/pcm"]

Spoken(media_type, holds, model, usage) ==
  [media_type |-> media_type, holds |-> holds, model |-> model, usage |-> usage]

OpenAISpeechFault(request) == When(Or(request.format, "mp3") \notin DOMAIN SpokenTypes, "unsupported")

OpenAISpeechBody(request) == request

(* The reply is the recording, and the one who asked knows its type.       *)
ReadOpenAISpeech(reply, request, model) ==
  IF reply.audio = None THEN Fails("unreadable")
  ELSE Answer(Spoken(SpokenTypes[Or(request.format, "mp3")], reply.audio[1], model, Absent))

GeminiSpeechFault(request) ==
  When(\/ Or(request.format, "wav") \notin {"wav", "pcm"}
       \/ request.speed \notin {None, Some(100)},
       "unsupported")

(* How to read it goes before the text.                                    *)
GeminiSpeechBody(request) ==
  [text |-> Or(request.instructions, <<>>) \o request.input, voice |-> request.voice]

(* Samples become a WAV file and a WAV file its samples, as was asked.     *)
Shape(part, format) ==
  CASE format = "wav" /\ part.of \in {"l16", "pcm", "wav"} -> Answer(<<"audio/wav", "wav">>)
    [] format = "pcm" /\ part.of \in {"l16", "pcm", "wav"} -> Answer(<<"audio/pcm", "pcm">>)
    [] OTHER -> Fails("unreadable")

ReadGeminiSpeech(reply, request, model) ==
  LET inline == InlineParts(reply)
      heard == Typed(Or(inline.value, <<>>), "audio")
      shaped == Shape(Head(heard), Or(request.format, "wav"))
  IN IF inline.error # None THEN inline
     ELSE IF heard = <<>> THEN Fails("unreadable")
     ELSE IF shaped.error # None THEN shaped
     ELSE Answer(Spoken(shaped.value[1][1], shaped.value[1][2], Or(reply.model, model), reply.usage))

-----------------------------------------------------------------------------
(* Transcriptions *)

TranscriptionBody(request) == request

(* Tokens, or how long the recording was, by what the usage says it is.    *)
ReadTranscription(reply, request, model) ==
  IF reply.text = None THEN Fails("unreadable")
  ELSE Answer([text |-> reply.text[1], model |-> model,
               usage |-> IF reply.metered = "tokens" THEN TwoCounts(reply.usage) ELSE Absent,
               millis |-> IF reply.metered = "duration" THEN reply.millis ELSE None])

-----------------------------------------------------------------------------
(* One provider's endpoint: refused here, sent, read *)

FaultHere(type, endpoint, request) ==
  CASE type = "gemini" /\ endpoint = "images" -> GeminiPictureFault(request)
    [] type = "gemini" /\ endpoint = "speech" -> GeminiSpeechFault(request)
    [] type = "openai" /\ endpoint = "speech" -> OpenAISpeechFault(request)
    [] OTHER                                  -> None

BodyFor(type, endpoint, request) ==
  CASE endpoint = "embeddings"                -> EmbedBody(request)
    [] endpoint = "transcriptions"            -> TranscriptionBody(request)
    [] type = "openai" /\ endpoint = "images" -> OpenAIPictureBody(request)
    [] type = "gemini" /\ endpoint = "images" -> GeminiPictureBody(request)
    [] type = "openai" /\ endpoint = "speech" -> OpenAISpeechBody(request)
    [] type = "gemini" /\ endpoint = "speech" -> GeminiSpeechBody(request)

ReadBody(type, endpoint, reply, request, model) ==
  CASE endpoint = "transcriptions" -> ReadTranscription(reply, request, model)
    [] type = "openai" /\ endpoint = "embeddings" -> ReadOpenAIEmbeddings(reply, request, model)
    [] type = "gemini" /\ endpoint = "embeddings" -> ReadGeminiEmbeddings(reply, request, model)
    [] type = "openai" /\ endpoint = "images" -> ReadOpenAIPictures(reply, request, model)
    [] type = "gemini" /\ endpoint = "images" -> ReadGeminiPictures(reply, request, model)
    [] type = "openai" /\ endpoint = "speech" -> ReadOpenAISpeech(reply, request, model)
    [] type = "gemini" /\ endpoint = "speech" -> ReadGeminiSpeech(reply, request, model)

(* A reply is a status and, when that is a success, a body.                *)
ReadReply(type, endpoint, reply, request, model) ==
  IF ~Success(reply.status) THEN Fails(Check(reply.status, reply.retry_after))
  ELSE ReadBody(type, endpoint, reply.body, request, model)

(* What an answer is made of that is not tokens.  A transcription's length *)
(* counts when the vendor said it.                                         *)
Produced(endpoint, request, answer) ==
  CASE endpoint = "embeddings"     -> NoUnits
    [] endpoint = "images"         -> [NoUnits EXCEPT !["images"] = Some(Len(answer.pictures))]
    [] endpoint = "speech"         -> [NoUnits EXCEPT !["characters"] = Some(Len(request.input))]
    [] endpoint = "transcriptions" -> [NoUnits EXCEPT !["audio_millis"] = answer.millis]
=============================================================================
