----------------------------- MODULE MCStreams ------------------------------
(* Small answers of every vendor, and the manners they are sent in.        *)
EXTENDS Streams

CONSTANTS Repeating  (* whether the vendors repeat their totals            *)

Says == Answer(<<Words(<<"w1", "w2">>)>>, "end")
Declines == Answer(<<Words(<<"w1">>)>>, "refusal")
Reasons == Answer(<<Thought(<<"t1", "t2">>, "proof"), Words(<<"w1">>)>>, "new")
CallsTwo == Answer(<<Words(<<"w1">>), Asks("i1", "f", <<"{", "a", "}">>),
                     Asks("i2", "g", <<"{", "}">>)>>, "tools")
CallsBadly == Answer(<<Asks("i1", "f", <<"{", "a">>), Asks("i2", "g", <<>>)>>, "tools")
CallsOne == Answer(<<Asks("i1", "f", <<"{", "}">>)>>, "tools")
Proves == Answer(<<Thought(<<"t1">>, "p1"), Thought(<<"t2">>, "p2"), Redacted("blob"),
                   Asks("i1", "f", <<"{", "}">>), Words(<<"w1">>)>>, "tools")
ThinksLast == Answer(<<Words(<<"w1">>), Thought(<<>>, "p1")>>, "end")

By(vendor, answers, metered) ==
  {[vendor |-> vendor, answer |-> a, metered |-> metered] : a \in answers}

MCCalls ==
  By("openai", {Says, Declines, Reasons, CallsTwo, CallsBadly}, TRUE)
  \cup By("anthropic", {Says, Reasons, CallsTwo, CallsBadly, Proves, ThinksLast}, FALSE)
  \cup By("gemini", {Says, Declines, Reasons, CallsOne}, TRUE)
  \cup By("bedrock", {Says, CallsTwo, Proves}, TRUE)

Manner(newline, comments, split, broken) ==
  [newline |-> newline, comments |-> comments, split |-> split, repeats |-> Repeating,
   broken |-> broken]

MCManners == {Manner("lf", FALSE, FALSE, 0), Manner("crlf", TRUE, TRUE, 0),
              Manner("lf", FALSE, FALSE, 3)}
=============================================================================
