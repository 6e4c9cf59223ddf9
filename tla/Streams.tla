------------------------------ MODULE Streams -------------------------------
(***************************************************************************)
(* One streamed call, from the bytes a vendor sends to the chunks a client *)
(* reads and the row that is recorded.  The bytes of a stream arrive in    *)
(* chunks cut anywhere; Frames puts server sent events together from them, *)
(* the protocol reads events from each, and the task of the call writes    *)
(* each event to the client and pushes it on the transcript.  The client   *)
(* stays: one that leaves is in Completions.                               *)
(***************************************************************************)
EXTENDS VendorWire, ClientWire

CONSTANTS
  Calls,     (* who is asked, what it answers, whether the client wants    *)
             (* the usage: [vendor, answer, metered]                       *)
  Manners,   (* how it is sent: [newline, comments, split, repeats, broken]*)
  MaxChunk   (* bound: bytes the transport hands over at once              *)

ASSUME StreamsAssumption ==
  /\ \A c \in Calls : c.vendor \in Vendor
  /\ \A m \in Manners : m.newline \in {"lf", "crlf"} /\ m.broken \in Nat
  /\ MaxChunk \in Nat \ {0}

VARIABLES
  call,        (* the call and the manner it is answered in                *)
  sent,        (* how many bytes the vendor has sent                       *)
  (* Frames *)
  buffer,      (* bytes that do not make a frame yet                       *)
  ready,       (* events read and not handed out                           *)
  done,        (* nothing more is read                                     *)
  (* the task *)
  heard,       (* history: the events it took                              *)
  transcript,  (* ... and put together                                     *)
  writer,      (* the ChunkWriter                                          *)
  chunks,      (* what it wrote to the client                              *)
  failure,     (* what stopped the stream                                  *)
  row          (* what was recorded                                        *)

vars == <<call, sent, buffer, ready, done, heard, transcript, writer, chunks, failure, row>>

AskedFor == "asked"

-----------------------------------------------------------------------------
(* The bytes of a frame: a line that names it, data lines, a blank line.   *)

CR == [of |-> "cr"]
LF == [of |-> "lf"]
Newline(manner) == IF manner.newline = "crlf" THEN <<CR, LF>> ELSE <<LF>>

FrameBytes(frame, manner) ==
  LET nl == Newline(manner) IN
  When(manner.comments, [of |-> "comment"]) \o (IF manner.comments THEN nl \o nl ELSE <<>>)
  \o When(frame.event # "", [of |-> "event", frame |-> frame])
  \o (IF frame.event # "" THEN nl ELSE <<>>)
  \o <<[of |-> "data", half |-> 1, frame |-> frame]>> \o (IF manner.split THEN nl ELSE <<>>)
  \o <<[of |-> "data", half |-> 2, frame |-> frame]>> \o nl \o nl

(* The frames of a call; one of them may be an error, or garbage.          *)
FramesOf(c) ==
  LET frames == Streamed(c.vendor, c.answer, c.manner.repeats) IN
  [i \in DOMAIN frames |->
     IF i # c.manner.broken THEN frames[i]
     ELSE IF c.vendor = "anthropic" THEN [event |-> "error", data |-> "json", body |-> <<>>]
     ELSE [frames[i] EXCEPT !.data = "broken"]]

Wire(c) ==
  LET frames == FramesOf(c) IN
  FlattenSeq([i \in DOMAIN frames |-> FrameBytes(frames[i], c.manner)])

-----------------------------------------------------------------------------
(* Frames *)

BlankLines == {<<LF, LF>>, <<CR, LF, CR, LF>>}

(* Where the first frame ends, and how long what ends it is.               *)
FrameEnd(bytes) ==
  LET Ends(i, blank) ==
        i + Len(blank) - 1 <= Len(bytes) /\ SubSeq(bytes, i, i + Len(blank) - 1) = blank
      ends == {i \in DOMAIN bytes : \E blank \in BlankLines : Ends(i, blank)}
      first == CHOOSE i \in ends : \A j \in ends : i <= j
  IN IF ends = {} THEN None
     ELSE Some([length |-> first - 1,
                blank |-> Len(CHOOSE blank \in BlankLines : Ends(first, blank))])

(* A frame without data is a comment.  Half a document is not one.         *)
ParseFrame(bytes) ==
  LET data == SelectSeq(bytes, LAMBDA b : b.of = "data")
      names == SelectSeq(bytes, LAMBDA b : b.of = "event")
      whole == Len(data) = 2 /\ data[1].half = 1 /\ data[2].half = 2
                 /\ data[1].frame = data[2].frame
  IN IF data = <<>> THEN None
     ELSE Some([event |-> IF names = <<>> THEN "" ELSE Last(names).frame.event,
                data |-> IF whole THEN data[1].frame.data ELSE "broken",
                body |-> data[1].frame.body])

(* Reads the frame there is after the others; stops at the first error.    *)
Hears(vendor, absorbed, bytes) ==
  LET frame == ParseFrame(bytes) IN
  IF frame = None THEN absorbed
  ELSE LET read == ReadEvent(vendor, frame[1]) IN
       [absorbed EXCEPT !.ready = @ \o read.events, !.error = read.error]

RECURSIVE Absorb(_, _)
Absorb(vendor, absorbed) ==
  LET end == FrameEnd(absorbed.buffer) IN
  IF end = None \/ absorbed.error # None THEN absorbed
  ELSE Absorb(vendor,
              [Hears(vendor, absorbed, SubSeq(absorbed.buffer, 1, end[1].length))
                 EXCEPT !.buffer = SubSeq(@, end[1].length + end[1].blank + 1, Len(@))])

Absorbed(bytes, events) == [buffer |-> bytes, ready |-> events, error |-> None]

-----------------------------------------------------------------------------
Init ==
  /\ \E c \in Calls, m \in Manners :
       /\ m.broken <= Len(Streamed(c.vendor, c.answer, m.repeats))
       /\ call = [vendor |-> c.vendor, answer |-> c.answer, manner |-> m, metered |-> c.metered]
  /\ sent = 0 /\ buffer = <<>> /\ heard = <<>>
  /\ IF call.vendor = "bedrock"
     THEN LET reply == Read("bedrock", Whole("bedrock", call.answer), AskedFor) IN
          ready = ReplayStream(reply[1]) /\ done = TRUE
     ELSE ready = <<>> /\ done = FALSE
  /\ transcript = NewTranscript /\ writer = NewWriter(AskedFor)
  /\ chunks = <<>> /\ failure = None /\ row = None

Reading == row = None /\ failure = None

(* The next event is written to the client and pushed.                     *)
Pop ==
  /\ Reading /\ ready # <<>>
  /\ heard' = Append(heard, Head(ready)) /\ ready' = Tail(ready)
  /\ chunks' = chunks \o Write(writer, Head(ready))
  /\ writer' = Turned(writer, Head(ready))
  /\ transcript' = Push(transcript, Head(ready))
  /\ UNCHANGED <<call, sent, buffer, done, failure, row>>

Polls == Reading /\ ready = <<>> /\ ~done

(* What a chunk or the end makes of the stream.  An error is handed out at *)
(* once: the events read before it stay behind.                            *)
Gives(absorbed) ==
  /\ buffer' = absorbed.buffer /\ ready' = absorbed.ready /\ failure' = absorbed.error

TakeChunk(n) ==
  /\ Polls /\ sent + n <= Len(Wire(call))
  /\ LET bytes == SubSeq(Wire(call), sent + 1, sent + n)
         absorbed == Absorb(call.vendor, Absorbed(buffer \o bytes, ready))
     IN Gives(absorbed) /\ done' = (absorbed.error # None)
  /\ sent' = sent + n
  /\ UNCHANGED <<call, heard, transcript, writer, chunks, row>>

(* The transport breaks.                                                   *)
Break ==
  /\ Polls
  /\ failure' = Some("transient") /\ done' = TRUE
  /\ UNCHANGED <<call, sent, buffer, ready, heard, transcript, writer, chunks, row>>

(* What no blank line ended is given up. *)
Close_TrailingDropped ==
  /\ Polls
  /\ Gives(Absorbed(<<>>, <<>>))
  /\ done' = TRUE
  /\ UNCHANGED <<call, sent, heard, transcript, writer, chunks, row>>

(* The connection ends, anywhere: a frame no blank line ended is a frame.  *)
Close ==
  /\ Polls
  /\ Gives(Hears(call.vendor, Absorbed(<<>>, <<>>), buffer))
  /\ done' = TRUE
  /\ UNCHANGED <<call, sent, heard, transcript, writer, chunks, row>>

(* What the loop left behind: a stream that ended before the model said why*)
(* it stopped broke, whatever the transport thinks.                        *)
Broke == IF failure # None THEN failure ELSE When(~IsFinished(transcript), "transient")

Outcome(broke, stop) ==
  CASE broke # None -> "interrupted"
    [] broke = None /\ stop = "refusal" -> "refused"
    [] OTHER -> "ok"

Closing(broke, usage) ==
  IF broke # None THEN <<Chunk("", Delta("error", broke[1]))>>
  ELSE (IF call.metered THEN UsageChunk(writer, usage) ELSE <<>>)
       \o <<Chunk("", Delta("done", "[DONE]"))>>

(* The row is recorded and the stream to the client closed.                *)
Conclude ==
  /\ row = None
  /\ failure # None \/ (ready = <<>> /\ done)
  /\ LET reply == Finish(transcript, AskedFor) IN
     /\ row' = Some([outcome |-> Outcome(Broke, reply.stop), stop |-> reply.stop,
                     model |-> reply.model, usage |-> reply.usage])
     /\ failure' = Broke
     /\ chunks' = chunks \o Closing(Broke, reply.usage)
  /\ UNCHANGED <<call, sent, buffer, ready, done, heard, transcript, writer>>

Next ==
  \/ Pop
  \/ \E n \in 1..MaxChunk : TakeChunk(n)
  \/ Break \/ Close
  \/ Conclude

Spec == Init /\ [][Next]_vars

-----------------------------------------------------------------------------
(* Properties *)

(* What the bytes sent so far say, read in one piece.                      *)
Said == Absorb(call.vendor, Absorbed(SubSeq(Wire(call), 1, sent), <<>>))

(* Where the bytes are cut does not matter: the events taken and those     *)
(* ready are the events of the frames that have arrived, once each and in  *)
(* order, up to the first frame that cannot be read.  What the end of the  *)
(* connection leaves without its blank line is a frame like the others.    *)
CutsDoNotMatter ==
  call.vendor # "bedrock" =>
    LET closed == done /\ Said.error = None /\ buffer = <<>>
        arrived == IF closed THEN Hears(call.vendor, Said, Said.buffer) ELSE Said
    IN /\ heard \o ready = arrived.ready
       /\ arrived.error # None => failure = arrived.error

(* Blocks as they are compared: texts one after the other are one text; a  *)
(* whole reply of the chat completions shape is read without its reasoning;*)
(* a call without an id of its own goes by its name, and one whose         *)
(* arguments were never written asks with no arguments; a proof kept by    *)
(* itself is that of reasoning nobody was shown.                           *)
Compared(vendor, blocks) ==
  LET kept == SelectSeq(blocks, LAMBDA b : ~(vendor = "openai" /\ b.kind = "thinking"))
      Call(b) == [b EXCEPT !.id = IF @ = "" THEN b.name ELSE @,
                           !.input = IF @ = [raw |-> <<>>] THEN EmptyObject ELSE @]
      Alone(b) == CASE b.kind = "tool_use" -> Call(b)
                    [] b.kind = "opaque" /\ b.name = "signature_without_block" ->
                         Thinking(<<>>, Some(b.raw))
                    [] OTHER -> b
      Joins(all, b) ==
        IF b.kind = "text" /\ all # <<>> /\ Last(all).kind = "text"
        THEN Append(Front(all), Text(Last(all).text \o b.text))
        ELSE Append(all, Alone(b))
  IN FoldLeft(Joins, <<>>, kept)

(* A stream that ended well folds into the reply the vendor would have     *)
(* given to a call that was not streamed: the same blocks with the same    *)
(* proofs, stopped for the same reason, by the same model; and each count  *)
(* of tokens is that reply's or is missing, never another number.  Totals  *)
(* that a vendor repeats are merged again and again: see the README.       *)
FoldsToTheReply ==
  (row # None /\ failure = None) =>
    LET whole == Read(call.vendor, Whole(call.vendor, call.answer), AskedFor)[1]
        streamed == Finish(transcript, AskedFor)
    IN /\ Compared(call.vendor, streamed.blocks) = Compared(call.vendor, whole.blocks)
       /\ streamed.stop = whole.stop /\ streamed.model = whole.model
       /\ ~call.manner.repeats =>
            \A c \in Counts : streamed.usage[c] \in {None, whole.usage[c]}

(* What the client puts together from its chunks is what the transcript    *)
(* holds, however far the stream got: the text, the reasoning, each call   *)
(* with its own arguments, why it stopped.  What closes the stream is what *)
(* the row says of it, and the usage it is shown is the usage recorded.    *)
ClientSeesWhatIsRecorded ==
  LET client == Understood(chunks)
      held == Finish(transcript, AskedFor)
      calls == OfKind(held.blocks, "tool_use")
      Closed(is) == \E i \in DOMAIN chunks : chunks[i].delta.is = is
      usage == SelectSeq(chunks, LAMBDA c : c.delta.is = "usage")
  IN /\ client.content = AnswerText(held.blocks)
     /\ client.reasoning = Reasoning(held.blocks)
     /\ Len(client.calls) = Len(calls)
     /\ \A i \in DOMAIN calls :
          /\ client.calls[i].id = calls[i].id /\ client.calls[i].name = calls[i].name
          /\ FromStr(client.calls[i].arguments) = calls[i].input
     /\ client.finish = IF IsFinished(transcript)
                        THEN Some([finish |-> FinishReason(held.stop), stop |-> held.stop])
                        ELSE None
     /\ row # None =>
          /\ Closed("error") <=> row[1].outcome = "interrupted"
          /\ Closed("done") <=> row[1].outcome \in {"ok", "refused"} /\ IsFinished(transcript)
          /\ usage # <<>> => Some(usage[1].delta.what) = UsageObject(row[1].usage)

(* "merging identical totals is idempotent and the last one wins with the  *)
(* same numbers it had before"                                             *)
TotalsAreMergedOnce ==
  (row # None /\ failure = None) =>
    LET whole == Read(call.vendor, Whole(call.vendor, call.answer), AskedFor)[1] IN
    \A c \in Counts : row[1].usage[c] \in {None, whole.usage[c]}
=============================================================================
