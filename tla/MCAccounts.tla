----------------------------- MODULE MCAccounts -----------------------------
(* Four providers, in two currencies, one of them somebody's own hardware, *)
(* and a model enabled at a fifth that was never built.                    *)
EXTENDS Bills

At(provider, model) == [provider |-> provider, model |-> model]
MCSplit ==
  ("o/gpt" :> At("o", "gpt")) @@ ("o/emb" :> At("o", "emb")) @@ ("o/img" :> At("o", "img"))
  @@ ("o/tts" :> At("o", "tts")) @@ ("o/stt" :> At("o", "stt")) @@ ("o/off" :> At("o", "off"))
  @@ ("g/gem" :> At("g", "gem")) @@ ("g/emb" :> At("g", "gemb")) @@ ("g/img" :> At("g", "gimg"))
  @@ ("g/tts" :> At("g", "gtts"))
  @@ ("home/llama" :> At("home", "llama")) @@ ("home/emb" :> At("home", "hemb"))
  @@ ("a/emb" :> At("a", "emb")) @@ ("x/emb" :> At("x", "emb")) @@ ("x/off" :> At("x", "off"))

MCEnabled ==
  [o \in {"o/gpt", "g/gem", "home/llama"} |-> "chat"]
  @@ [e \in {"o/emb", "g/emb", "home/emb", "a/emb", "x/emb"} |-> "embedding"]
  @@ [i \in {"o/img", "g/img"} |-> "image"] @@ [t \in {"o/tts", "g/tts"} |-> "speech"]
  @@ ("o/stt" :> "transcription")

(* Rates: by the token, and by what a model makes.                         *)
ByTokens(input, output) ==
  [NoRate EXCEPT !["input"] = input, !["output"] = output, !["cache_read"] = 1]
MCBuilt ==
  LET book(id, currency, rates) == [id |-> id, currency |-> currency, rates |-> rates]
      listed(b, from) == [m \in DOMAIN b.rates |-> [from |-> from, edition |-> b.id]]
      dollars == book("may", "USD",
        ("gpt" :> ByTokens(3, 7)) @@ ("gpt-mini" :> ByTokens(2, 2)) @@ (DatedAs :> ByTokens(1, 1))
        @@ ("emb" :> [NoRate EXCEPT !["input"] = 2])
        @@ ("img" :> [ByTokens(1, 40) EXCEPT !["image"] = 6])
        @@ ("tts" :> [NoRate EXCEPT !["character"] = 15])
        @@ ("stt" :> [NoRate EXCEPT !["audio_second"] = 9]))
      euros == book("june", "EUR",
        ("gem" :> ByTokens(4, 9)) @@ ("gimg" :> ByTokens(1, 8)) @@ ("gtts" :> ByTokens(2, 5)))
      own == book("mine", "USD", ("llama" :> ByTokens(20, 20)))
      shipped == book("may", "USD", ("hemb" :> ByTokens(1, 0)))
      none == book("none", "USD", <<>>)
  IN [o |-> [type |-> "openai", on_device |-> FALSE, prices |-> dollars,
             origins |-> listed(dollars, "shipped")],
      g |-> [type |-> "gemini", on_device |-> FALSE, prices |-> euros,
             origins |-> listed(euros, "shipped")],
      home |-> [type |-> "openai", on_device |-> TRUE,
                prices |-> [own EXCEPT !.rates = @ @@ shipped.rates],
                origins |-> listed(own, "manual") @@ listed(shipped, "shipped")],
      a |-> [type |-> "anthropic", on_device |-> FALSE, prices |-> none, origins |-> <<>>]]

Set(routes, attempts, deadline, on_device) ==
  [routes |-> routes, attempts |-> attempts, deadline |-> deadline, on_device |-> on_device]
MCSets ==
  [vectors |-> Set(<<"home/emb", "o/emb", "g/emb">>, 1, None, FALSE),
   pictures |-> Set(<<"g/img", "o/img">>, 2, Some(3), FALSE),
   voices |-> Set(<<"g/tts", "o/tts">>, 2, None, FALSE),
   kept |-> Set(<<"o/emb", "home/emb">>, 2, Some(2), TRUE),
   talk |-> Set(<<"o/gpt", "o/img">>, 2, None, FALSE)]
MCResizes(model) == model # "emb"

Body(model, fields) == ("model" :> String(model)) @@ fields
N(n) == [is |-> "number", n |-> n]
Field(name, value) == name :> value
Of(endpoint, body) ==
  [endpoint |-> endpoint, sent |-> [read |-> "object", body |-> body], private |-> FALSE]
Embed(model) == Of("embeddings", Body(model, Field("input", [is |-> "strings", many |-> <<"x", "y">>])))
Draw(model, fields) == Of("images", Body(model, Field("prompt", String(<<"p">>)) @@ fields))
Speak(model, fields) ==
  Of("speech", Body(model, Field("input", String(<<"h", "i">>)) @@ Field("voice", String("v")) @@ fields))
File(declared, extension, bytes) == [is |-> "file", declared |-> declared, extension |-> extension, bytes |-> bytes]
Record2(fields) ==
  Of("transcriptions", Body("o/stt", Field("file", File("audio/wav", "", <<"b">>)) @@ fields))

Well ==
  {Embed("vectors"), [Embed("vectors") EXCEPT !.private = TRUE], Embed("kept"), Embed("a/emb"),
   Embed("x/emb"),
   Of("embeddings", Body("vectors", Field("input", String("x")) @@ Field("dimensions", N(4)))),
   Draw("pictures", Field("n", N(2))),
   Draw("pictures", Field("size", String("1536x1024")) @@ Field("response_format", String("b64_json"))),
   Draw("pictures", Field("output_format", String("webp"))),
   Speak("voices", <<>>), Speak("voices", Field("response_format", String("pcm"))),
   Speak("voices", Field("speed", N(200)) @@ Field("response_format", String("mp4"))),
   Record2(Field("temperature", String("0"))), Record2(Field("response_format", String("text")))}

Ill ==
  {[endpoint |-> e, sent |-> [read |-> "other", body |-> <<>>], private |-> FALSE] :
     e \in {"embeddings", "transcriptions"}}
  \cup {Embed(m) : m \in {"", "nobody", "o/off", "x/off", "talk", "o/img"}}
  \cup {Of("embeddings", Body("vectors", Field("input", N(1)))),
        Draw("pictures", Field("style", String("vivid"))), Draw("pictures", Field("n", N(11))),
        Speak("voices", Field("voice", N(1))), Speak("voices", Field("speed", N(24))),
        Record2(Field("stream", String("true"))), Record2(Field("file", File("", "exe", <<"b">>)))}

(* The calls that have everything else happen around them.                 *)
Around == {Speak("o/tts", <<>>)}

MCSends == Well \cup Ill \cup Around
MCTook == {1}
MCLate == {0, 1}
MCFaulty == {<<400, FALSE>>, <<429, TRUE>>, <<503, FALSE>>}

Usage(input, output, read, write) ==
  [c \in Counts |-> CASE c = "input"      -> input
                      [] c = "output"     -> output
                      [] c = "cache_read" -> read
                      [] OTHER            -> write]
Told(n) == Some(n)
Chat(how, route, served, outcome, reported) ==
  [how |-> how, route |-> route, served |-> served, outcome |-> outcome, reported |-> reported,
   consumed |-> Usage(9, 6, 3, 0)]
MCChats ==
  {Chat("answered", "o/gpt", "gpt-mini", "ok", Usage(Told(9), Told(6), Told(3), Told(0))),
   Chat("answered", "g/gem", DatedAs, "interrupted", Usage(Told(9), None, Told(3), None)),
   Chat("answered", "home/llama", "llama", "refused", Absent),
   Chat("failed", "o/gpt", "gpt", "error", Absent),
   Chat("cancelled", "o/gpt", "gpt", "", Absent)}

Days(from, to) ==
  [from |-> from, to |-> to, provider |-> None, model |-> None, asked |-> None, outcome |-> None]
MCFilters == {Days(None, None), [Days(None, Some(1)) EXCEPT !.outcome = Some("ok")]}
MCLimits == {1}

(* A media call is made by itself: no chat calls before or after it, and   *)
(* but for one, with no reader and no time passing.                        *)
Apart ==
  log' # <<>> =>
    /\ Chatted' = {}
    /\ log'[1].sends \notin Around => walk' = NoWalk /\ now' = 0
=============================================================================
