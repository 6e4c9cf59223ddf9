---------------------------- MODULE MediaRequest ----------------------------
(***************************************************************************)
(* The requests of the endpoints beside chat as the gateway reads them:    *)
(* what is refused, by the field that is named, and what is asked of a     *)
(* provider.  The body is a function of its fields, and a value says what  *)
(* JSON it is: a string is [is, s], a number [is, n], an array of strings  *)
(* [is, many], an object [is, id].  A text is a sequence of characters,    *)
(* empty when it is nothing but spaces; speed is in hundredths.            *)
(***************************************************************************)
EXTENDS Chat, Lists

KindAt ==
  [embeddings |-> "embedding", images |-> "image", speech |-> "speech",
   transcriptions |-> "transcription"]

JSON(is) == [is |-> is]
String(s) == [is |-> "string", s |-> s]

Given(body, field) == field \in DOMAIN body /\ body[field].is # "null"
ReadString(body, field) == When(Given(body, field) /\ body[field].is = "string", body[field].s)
NoString(body, field) == When(Given(body, field) /\ body[field].is # "string", field)

NotOneOf(body, field, values) ==
  LET read == ReadString(body, field) IN
  NoString(body, field) \o When(read # None /\ Or(read, "") \notin values, field)

NoText(body, field) == When(Or(ReadString(body, field), <<>>) = <<>>, field)

NotWithin(body, field, least, most) ==
  When(/\ Given(body, field)
       /\ ~(body[field].is = "number" /\ body[field].n >= least /\ body[field].n <= most),
       field)

ReadNumber(body, field) == When(Given(body, field), body[field].n)

Refused(body, fields) == Only(fields, {f \in ToSet(fields) : Given(body, f)})

NoModel(body) == When(Or(ReadString(body, "model"), "") = "", "model")

-----------------------------------------------------------------------------
(* The fields at fault, in the order they are read: the first is named *)

LargestWidth == 1000000  (* dimensions fit a u32; this is past what is asked *)

(* A text, or texts.                                                       *)
Embeddable(body) ==
  /\ Given(body, "input")
  /\ body["input"].is = "string" \/ (body["input"].is = "strings" /\ body["input"].many # <<>>)

EmbeddingFaults(body) ==
  When(~Embeddable(body), "input")
  \o NotOneOf(body, "encoding_format", {"float", "base64"})
  \o NotWithin(body, "dimensions", 1, LargestWidth)

ImageFaults(body) ==
  Refused(body, <<"stream", "partial_images", "style", "moderation", "output_compression">>)
  \o NoText(body, "prompt")
  \o NotWithin(body, "n", 1, 10)
  \o NoString(body, "size") \o NoString(body, "quality") \o NoString(body, "background")
  \o NoString(body, "output_format")
  \o NotOneOf(body, "response_format", {"url", "b64_json"})

(* A voice is a name, or an object with an id.                             *)
ReadVoice(body) ==
  CASE ~Given(body, "voice")           -> None
    [] body["voice"].is = "string"     -> Some(body["voice"].s)
    [] body["voice"].is = "object"     -> body["voice"].id
    [] OTHER                           -> None

SpeechFaults(body) ==
  NotOneOf(body, "stream_format", {"audio"})
  \o NoText(body, "input")
  \o When(ReadVoice(body) = None, "voice")
  \o NoString(body, "response_format") \o NoString(body, "instructions")
  \o NotWithin(body, "speed", 25, 400)

(* A recording's type: what the upload said, or its extension.             *)
Extensions ==
  [mp3 |-> "audio/mpeg", mpga |-> "audio/mpeg", mpeg |-> "audio/mpeg", wav |-> "audio/wav",
   flac |-> "audio/flac", ogg |-> "audio/ogg", webm |-> "audio/webm", m4a |-> "audio/mp4",
   mp4 |-> "audio/mp4"]
Declarable == {"audio/mpeg", "audio/wav", "video/mp4"}
RecordingType(file) ==
  IF file.declared \in Declarable THEN Some(file.declared)
  ELSE When(file.extension \in DOMAIN Extensions, Extensions[file.extension])

(* The fields of a form are texts, and one of them is the file.            *)
TranscriptionFaults(form) ==
  LET refused == <<"timestamp_granularities[]", "include[]", "stream", "chunking_strategy">>
      held == "file" \in DOMAIN form /\ form["file"].bytes # <<>>
  IN SelectSeq(refused, LAMBDA f : f \in DOMAIN form)
     \o NotOneOf(form, "response_format", {"json", "text"})
     \o When(IF held THEN RecordingType(form["file"]) = None ELSE TRUE, "file")
     \o NotOneOf(form, "temperature", {"0", "0.5", "1"})

FaultsAt(endpoint, body) ==
  CASE endpoint = "embeddings"     -> EmbeddingFaults(body)
    [] endpoint = "images"         -> ImageFaults(body)
    [] endpoint = "speech"         -> SpeechFaults(body)
    [] endpoint = "transcriptions" -> TranscriptionFaults(body)

(* A body that is no JSON object is refused before it is anybody's call;   *)
(* a form that breaks off is refused and recorded.                         *)
Unread(endpoint, sent) == sent.read # "object" /\ endpoint # "transcriptions"

Faults(endpoint, sent) ==
  IF sent.read # "object" THEN <<"body">>
  ELSE NoModel(sent.body) \o FaultsAt(endpoint, sent.body)

(* The model a row names: "" until it was read.                            *)
AskedModel(sent) == IF sent.read = "object" THEN Or(ReadString(sent.body, "model"), "") ELSE ""

-----------------------------------------------------------------------------
(* What is asked of a provider *)

ReadInputs(body) ==
  IF body["input"].is = "string" THEN <<body["input"].s>> ELSE body["input"].many

ReadMedia(endpoint, body) ==
  CASE endpoint = "embeddings" ->
         [inputs |-> ReadInputs(body), dimensions |-> ReadNumber(body, "dimensions")]
    [] endpoint = "images" ->
         [prompt |-> ReadString(body, "prompt")[1], count |-> ReadNumber(body, "n"),
          size |-> ReadString(body, "size"), quality |-> ReadString(body, "quality"),
          background |-> ReadString(body, "background"),
          output_format |-> ReadString(body, "output_format"),
          response_format |-> ReadString(body, "response_format")]
    [] endpoint = "speech" ->
         [input |-> ReadString(body, "input")[1], voice |-> ReadVoice(body)[1],
          format |-> ReadString(body, "response_format"), speed |-> ReadNumber(body, "speed"),
          instructions |-> ReadString(body, "instructions")]
    [] endpoint = "transcriptions" ->
         [audio |-> body["file"].bytes, media_type |-> RecordingType(body["file"])[1],
          language |-> ReadString(body, "language"), prompt |-> ReadString(body, "prompt"),
          temperature |-> ReadString(body, "temperature")]
=============================================================================
