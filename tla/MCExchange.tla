----------------------------- MODULE MCExchange -----------------------------
(* A gateway over every protocol, and the questions of a short conversation*)
EXTENDS Exchange

All == {"tools", "structured_output", "thinking", "images", "documents", "audio"}
RouteTo(vendor, can, on_device) == [vendor |-> vendor, can |-> can, on_device |-> on_device]
GPT == RouteTo("openai", All, FALSE)
Claude == RouteTo("anthropic", All \ {"audio"}, FALSE)
Gem == RouteTo("gemini", All, FALSE)
Bed == RouteTo("bedrock", All, FALSE)
Local == RouteTo("openai", {"tools"}, TRUE)

MCSets ==
  (<<"best">> :> [kind |-> "chat", private |-> FALSE, routes |-> <<Local, GPT, Gem>>]) @@
  (<<"home">> :> [kind |-> "chat", private |-> TRUE, routes |-> <<Claude, Local>>]) @@
  (<<"draw">> :> [kind |-> "image", private |-> FALSE, routes |-> <<GPT>>])
MCEnabled ==
  (<<"a", "claude">> :> [kind |-> "chat", route |-> Claude]) @@
  (<<"g", "gem">> :> [kind |-> "chat", route |-> Gem]) @@
  (<<"b", "claude">> :> [kind |-> "chat", route |-> Bed]) @@
  (<<"o", "embed">> :> [kind |-> "embedding", route |-> GPT])
MCProviders == {"a", "g", "b", "o"}
Known == {<<"best">>, <<"home">>, <<"a", "claude">>, <<"g", "gem">>, <<"b", "claude">>}
Unknown == {<<>>, <<"draw">>, <<"nope">>, <<"o", "embed">>, <<"o", "off">>, <<"x", "y">>}
MCNames == Known \cup Unknown

T(words) == [type |-> "text", text |-> words]
M(role, parts) == [role |-> role, content |-> parts, calls |-> <<>>, id |-> None]
User(parts) == M("user", Some(parts))
Media(type, by, media) == [type |-> type, by |-> by, media |-> media]
System == M("system", Some(<<T(<<"s">>)>>))
Hello == User(<<T(<<"w1">>), T(<<"w2">>)>>)

Plain ==
  [model |-> <<>>, odd |-> {}, messages |-> <<>>, max |-> None, temperature |-> None,
   top_p |-> None, tools |-> <<>>, format |-> None, effort |-> None, stream |-> FALSE,
   metered |-> FALSE]
Nameless == [id |-> "i1", name |-> "", arguments |-> <<>>, lacks |-> "name"]
Tools == [i \in 1..2 |-> [type |-> "function", name |-> <<"f", "g">>[i]]]
Asking(body, adds) == [body |-> body, adds |-> adds, private |-> FALSE]

Tooled(stream) == Asking([Plain EXCEPT !.tools = Tools, !.stream = stream], <<System, Hello>>)
GoesOn(stream) == Asking([Plain EXCEPT !.tools = Tools, !.stream = stream], <<>>)

Well ==
  {Tooled(FALSE), Tooled(TRUE), GoesOn(FALSE),
   Asking([Plain EXCEPT !.max = Some(1000), !.effort = Some("high"),
                        !.temperature = Some("warm")], <<Hello>>),
   Asking([Plain EXCEPT !.max = Some(1), !.effort = Some("low")], <<Hello>>),
   Asking([Plain EXCEPT !.effort = Some("none"), !.top_p = Some("half"),
                        !.format = Some("json_schema")], <<Hello>>),
   Asking([Plain EXCEPT !.effort = Some("minimal"), !.format = Some("text")],
          <<User(<<T(<<"w1">>), Media("image_url", "link", "image/png"),
                   Media("file", "data", "application/pdf")>>)>>),
   Asking(Plain, <<User(<<Media("file", "data", "text/plain")>>)>>),
   Asking(Plain, <<User(<<>>)>>),
   Asking(Plain, <<User(<<Media("input_audio", "data", "flac")>>)>>),
   [Asking(Plain, <<Hello>>) EXCEPT !.private = TRUE]}

Ill ==
  {Asking([Plain EXCEPT !.odd = {"stop", "audio"}, !.max = Some(0)], <<Hello>>),
   Asking([Plain EXCEPT !.temperature = Some("no number")], <<Hello>>),
   Asking([Plain EXCEPT !.tools = <<[type |-> "custom", name |-> "f"]>>], <<Hello>>),
   Asking([Plain EXCEPT !.tools = <<[type |-> "nameless", name |-> ""]>>], <<Hello>>),
   Asking([Plain EXCEPT !.format = Some("json_object")], <<Hello>>),
   Asking([Plain EXCEPT !.format = Some("no schema")], <<Hello>>),
   Asking(Plain, <<[M("assistant", Some(<<T(<<"w1">>)>>)) EXCEPT !.calls = <<Nameless>>]>>),
   Asking([Plain EXCEPT !.effort = Some("huge")], <<Hello>>),
   Asking(Plain, <<System>>), Asking(Plain, <<M("assistant", None)>>),
   Asking(Plain, <<M("critic", None)>>), Asking(Plain, <<M("tool", None)>>),
   Asking(Plain, <<User(<<Media("image_url", "link", "")>>)>>),
   Asking(Plain, <<User(<<Media("file", "id", "")>>)>>)}

MCQuestions == Well \cup Ill

MCReplies ==
  {Answer(<<Words(<<"w3">>)>>, "end"), Answer(<<Thought(<<"t1">>, "p1")>>, "refusal"),
   Answer(<<Words(<<"w3">>), Asks("i1", "f", <<"{", "a", "}">>),
            Asks("i2", "g", <<"{", "}">>)>>, "tools"),
   Answer(<<Asks("i1", "f", <<>>), Asks("i2", "f", <<"{", "}">>)>>, "tools")}
=============================================================================
