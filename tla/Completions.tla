----------------------------- MODULE Completions -----------------------------
(***************************************************************************)
(* POST /v1/chat/completions as the server handles it: the handler, the    *)
(* task a streamed call spawns, the channel between that task and the      *)
(* response body, the client, and the row each call leaves; then the       *)
(* graceful shutdown around them.  The router below is a provider that     *)
(* answers, fails or falls quiet.                                          *)
(***************************************************************************)
EXTENDS Recorder, FiniteSets

CONSTANTS
  Streams,   (* the calls that ask for a stream                            *)
  Channel,   (* frames the response channel holds: 64 in the code          *)
  MaxEvents, (* bound: events a provider sends in one stream               *)
  SyncOn     (* whether the price sync runs; it holds a Recorder for ever  *)

ASSUME CompletionsAssumption ==
  /\ Streams \subseteq Calls /\ Channel \in Nat \ {0} /\ MaxEvents \in Nat
  /\ SyncOn \in BOOLEAN

VARIABLES
  process,  (* where serve has got to                                      *)
  client,   (* what each call's client is doing                            *)
  task,     (* the handler of a plain call, the spawned task of a stream   *)
  chan,     (* frames in the response channel                              *)
  pending,  (* the frame a task waits to send                              *)
  events,   (* events taken from the provider                              *)
  stopped,  (* why the model stopped, once the transcript says             *)
  (* history *)
  seen,     (* frames the client has received, keep-alives aside           *)
  row       (* the outcome in the row a call recorded                      *)

wire == <<chan, pending, events, stopped, seen>>
vars == <<process, client, task, wire, row, rows>>

Frames == [kind : {"chunk", "error", "usage", "done", "ping"}, of : 0..MaxEvents]
Frame(kind, of) == [kind |-> kind, of |-> of]
Ping == Frame("ping", 0)

TypeOK ==
  /\ RecorderTypeOK
  /\ process \in {"serving", "stopping", "draining", "exited", "timed_out"}
  /\ client \in [Calls -> {"idle", "waiting", "receiving", "answered", "gone"}]
  /\ task \in [Calls -> {"none", "asking", "reading", "sending",
                         "error", "usage", "done", "ended"}]
  /\ chan \in [Calls -> Seq(Frames)] /\ \A c \in Calls : Len(chan[c]) <= Channel
  /\ pending \in [Calls -> Frames]
  /\ events \in [Calls -> 0..MaxEvents]
  /\ stopped \in [Calls -> {"no", "end", "refusal"}]
  /\ seen \in [Calls -> Seq(Frames)]
  /\ row \in [Calls -> {"none", "ok", "refused", "error", "interrupted"}]

Init ==
  /\ RecorderInit
  /\ process = "serving"
  /\ client = [c \in Calls |-> "idle"]
  /\ task = [c \in Calls |-> "none"]
  /\ chan = [c \in Calls |-> <<>>]
  /\ pending = [c \in Calls |-> Ping]
  /\ events = [c \in Calls |-> 0]
  /\ stopped = [c \in Calls |-> "no"]
  /\ seen = [c \in Calls |-> <<>>]
  /\ row = [c \in Calls |-> "none"]

Running == process \notin {"exited", "timed_out"}
Listening(c) == client[c] \in {"waiting", "receiving"}
At(c, where) == Running /\ task[c] = where

TaskGoes(c, where) == task' = [task EXCEPT ![c] = where]
ClientIs(c, what) == client' = [client EXCEPT ![c] = what]

(* A call leaves a row with this outcome.                                  *)
Leaves(c, outcome) == Record(c) /\ row' = [row EXCEPT ![c] = outcome]

-----------------------------------------------------------------------------
(* The handler *)

(* A body that is not JSON is answered before there is anything to record. *)
NotJson(c) ==
  /\ process = "serving" /\ client[c] = "idle"
  /\ ClientIs(c, "answered")
  /\ UNCHANGED <<process, task, wire, row, rows>>

(* What is wrong with the request is found before any route is asked.      *)
Reject(c) ==
  /\ process = "serving" /\ client[c] = "idle"
  /\ ClientIs(c, "answered")
  /\ Leaves(c, "error")
  /\ UNCHANGED <<process, task, wire>>

Ask(c) ==
  /\ process = "serving" /\ client[c] = "idle"
  /\ ClientIs(c, "waiting") /\ TaskGoes(c, "asking")
  /\ UNCHANGED <<process, wire, row, rows>>

(* Router::chat returns: between that and the row there is no await.       *)
Chat(c) ==
  /\ At(c, "asking") /\ c \notin Streams
  /\ \E outcome \in {"ok", "refused", "error"} : Leaves(c, outcome)
  /\ TaskGoes(c, "ended") /\ ClientIs(c, "answered")
  /\ UNCHANGED <<process, wire>>

(* The client closes the connection.  The server drops the future of the   *)
(* handler and the body of the response, and with it the channel's reader. *)
Leave(c) ==
  /\ Running /\ Listening(c)
  /\ ClientIs(c, "gone")
  /\ task' = IF c \in Streams THEN task ELSE [task EXCEPT ![c] = "ended"]
  /\ chan' = [chan EXCEPT ![c] = <<>>]
  /\ UNCHANGED <<process, pending, events, stopped, seen, row, rows>>

-----------------------------------------------------------------------------
(* The task of a streamed call *)

OpenFails(c) ==
  /\ At(c, "asking") /\ c \in Streams
  /\ \E outcome \in {"error", "refused"} : Leaves(c, outcome)
  /\ TaskGoes(c, "ended")
  /\ client' = [client EXCEPT ![c] = IF @ = "waiting" THEN "answered" ELSE @]
  /\ UNCHANGED <<process, wire>>

(* The client is told there is a stream, or there is nobody to tell.       *)
Open(c) ==
  /\ At(c, "asking") /\ c \in Streams
  /\ IF client[c] = "waiting"
     THEN TaskGoes(c, "reading") /\ ClientIs(c, "receiving")
     ELSE TaskGoes(c, "ended") /\ UNCHANGED client
  /\ UNCHANGED <<process, wire, row, rows>>

Sends(c, frame) ==
  pending' = [pending EXCEPT ![c] = frame] /\ TaskGoes(c, "sending")

(* The provider's stream yields an event; one of them says why it stopped. *)
Event(c) ==
  /\ At(c, "reading") /\ events[c] < MaxEvents
  /\ events' = [events EXCEPT ![c] = @ + 1]
  /\ \E why \in {"no", "end", "refusal"} :
       /\ stopped[c] # "no" => why = "no"
       /\ stopped' = IF why = "no" THEN stopped ELSE [stopped EXCEPT ![c] = why]
  /\ Sends(c, Frame("chunk", events[c] + 1))
  /\ UNCHANGED <<process, client, chan, seen, row, rows>>

KeepAlive(c) ==
  /\ At(c, "reading")
  /\ Sends(c, Ping)
  /\ UNCHANGED <<process, client, chan, events, stopped, seen, row, rows>>

Deliver(c) ==
  /\ At(c, "sending") /\ client[c] = "receiving" /\ Len(chan[c]) < Channel
  /\ chan' = [chan EXCEPT ![c] = Append(@, pending[c])]
  /\ TaskGoes(c, "reading")
  /\ UNCHANGED <<process, client, pending, events, stopped, seen, row, rows>>

(* From leaving the loop to the row there is no await.  The stream breaks, *)
(* or ends; one that ends before the model said it was done did not finish.*)
Break(c) ==
  /\ At(c, "reading")
  /\ Leaves(c, "interrupted") /\ TaskGoes(c, "error")
  /\ UNCHANGED <<process, client, wire>>

(* Whatever the transport closes is taken as complete. *)
End_AlwaysComplete(c) ==
  /\ At(c, "reading")
  /\ Leaves(c, IF stopped[c] = "refusal" THEN "refused" ELSE "ok")
  /\ \E next \in {"usage", "done"} : TaskGoes(c, next)
  /\ UNCHANGED <<process, client, wire>>

End(c) ==
  /\ At(c, "reading")
  /\ \/ /\ stopped[c] = "no"
        /\ Leaves(c, "interrupted") /\ TaskGoes(c, "error")
     \/ /\ stopped[c] # "no"
        /\ Leaves(c, IF stopped[c] = "refusal" THEN "refused" ELSE "ok")
        /\ \E next \in {"usage", "done"} : TaskGoes(c, next)
  /\ UNCHANGED <<process, client, wire>>

(* The reader is missed only when there is something to send. *)
NoticeLeft_WhenSending(c) ==
  /\ At(c, "sending") /\ client[c] = "gone"
  /\ Leaves(c, "interrupted") /\ TaskGoes(c, "ended")
  /\ UNCHANGED <<process, client, wire>>

(* A send that fails, or tx.closed() while the provider is quiet.          *)
NoticeLeft(c) ==
  /\ At(c, "reading") \/ At(c, "sending")
  /\ client[c] = "gone"
  /\ Leaves(c, "interrupted") /\ TaskGoes(c, "ended")
  /\ UNCHANGED <<process, client, wire>>

(* Every ending closes with [DONE]. *)
SendLast_AlwaysDone(c) ==
  /\ \E kind \in {"error", "usage", "done"} :
       /\ At(c, kind)
       /\ TaskGoes(c, IF kind = "done" THEN "ended" ELSE "done")
       /\ \/ client[c] = "gone" /\ UNCHANGED chan
          \/ /\ client[c] = "receiving" /\ Len(chan[c]) < Channel
             /\ chan' = [chan EXCEPT ![c] = Append(@, Frame(kind, 0))]
  /\ UNCHANGED <<process, client, pending, events, stopped, seen, row, rows>>

(* The error closes a broken stream; a usage chunk, when it was asked for, *)
(* and [DONE] close a whole one.  A send nobody receives is let go.        *)
SendLast(c) ==
  /\ \E kind \in {"error", "usage", "done"} :
       /\ At(c, kind)
       /\ TaskGoes(c, IF kind = "usage" THEN "done" ELSE "ended")
       /\ \/ client[c] = "gone" /\ UNCHANGED chan
          \/ /\ client[c] = "receiving" /\ Len(chan[c]) < Channel
             /\ chan' = [chan EXCEPT ![c] = Append(@, Frame(kind, 0))]
  /\ UNCHANGED <<process, client, pending, events, stopped, seen, row, rows>>

-----------------------------------------------------------------------------
(* The client of a stream *)

Read(c) ==
  /\ Running /\ client[c] = "receiving" /\ chan[c] # <<>>
  /\ chan' = [chan EXCEPT ![c] = Tail(@)]
  /\ seen' = IF Head(chan[c]) = Ping
             THEN seen ELSE [seen EXCEPT ![c] = Append(@, Head(chan[c]))]
  /\ UNCHANGED <<process, client, task, pending, events, stopped, row, rows>>

ReadEnd(c) ==
  /\ At(c, "ended") /\ client[c] = "receiving" /\ chan[c] = <<>>
  /\ ClientIs(c, "answered")
  /\ UNCHANGED <<process, task, wire, row, rows>>

-----------------------------------------------------------------------------
(* serve: the signal, the graceful shutdown, and the writer's last rows.   *)

Signal ==
  /\ process = "serving" /\ process' = "stopping"
  /\ UNCHANGED <<client, task, wire, row, rows>>

(* Every connection is finished; the state goes, and with it a Recorder.   *)
DropState ==
  /\ process = "stopping" /\ \A c \in Calls : ~Listening(c)
  /\ process' = "draining"
  /\ UNCHANGED <<client, task, wire, row, rows>>

(* Who still holds a Recorder.                                             *)
Senders ==
  \/ process \in {"serving", "stopping"} \/ SyncOn
  \/ \E c \in Streams : task[c] \notin {"none", "ended"}

Exit ==
  /\ process = "draining"
  /\ \/ writer = "ended" /\ process' = "exited"
     \/ writer # "ended" /\ process' = "timed_out"
  /\ UNCHANGED <<client, task, wire, row, rows>>

(* A transaction under way ends even when the process is on its way out.   *)
Writer ==
  /\ \/ Running /\ (Receive \/ Seal \/ WriterEnds(Senders))
     \/ Insert \/ InsertFails
  /\ UNCHANGED <<process, client, task, wire, row>>

Provider(c) == Chat(c) \/ OpenFails(c) \/ Open(c) \/ Event(c) \/ Break(c) \/ End(c)
Task(c) == Deliver(c) \/ NoticeLeft(c) \/ SendLast(c)
Client(c) == Ask(c) \/ NotJson(c) \/ Reject(c) \/ Leave(c) \/ Read(c) \/ ReadEnd(c)

Next ==
  \/ \E c \in Calls : Provider(c) \/ Task(c) \/ KeepAlive(c) \/ Client(c)
  \/ Writer \/ Signal \/ DropState \/ Exit

Spec == Init /\ [][Next]_vars

(* The runtime schedules the tasks that can run and the writer.  Nothing   *)
(* is assumed of clients, or of providers: they may stay quiet.            *)
Fairness == WF_vars(Writer) /\ \A c \in Calls : WF_vars(Task(c))

FairSpec == Spec /\ Fairness

-----------------------------------------------------------------------------
(* Properties *)

Times(c, s) == Cardinality({i \in DOMAIN s : s[i] = c})

(* A call that recorded a row has it in one place: waiting, written, lost  *)
(* with its batch or dropped at a full queue.  None is written twice.      *)
RowInOnePlace ==
  \A c \in Calls :
    Times(c, queue) + Times(c, batch) + Times(c, table)
      + (IF c \in lost THEN 1 ELSE 0) + (IF c \in dropped THEN 1 ELSE 0)
    = IF row[c] = "none" THEN 0 ELSE 1

Has(s, kind) == \E i \in DOMAIN s : s[i].kind = kind

(* A client that reads [DONE] has the whole reply: the model said it was   *)
(* done, and every chunk of it was read before, in order.                  *)
DoneIsWhole ==
  \A c \in Streams : Has(seen[c], "done") =>
    /\ stopped[c] # "no"
    /\ events[c] <= Len(seen[c])
    /\ \A i \in DOMAIN seen[c] :
         IF i <= events[c] THEN seen[c][i] = Frame("chunk", i)
         ELSE seen[c][i].kind # "chunk"

(* What the client can read of how the stream ended is what its row says.  *)
RowTellsTheEnding ==
  \A c \in Streams :
    /\ Has(seen[c] \o chan[c], "done")  => row[c] \in {"ok", "refused"}
    /\ Has(seen[c] \o chan[c], "error") => row[c] = "interrupted"

(* When the writer ends before the process does, every row that was queued *)
(* has been taken to the database.                                         *)
CleanExitWritesAll ==
  process = "exited" =>
    \A c \in Calls : row[c] # "none" => Times(c, table) = 1 \/ c \in lost \cup dropped

(* A client that leaves an open stream ends it, however quiet the provider:*)
(* the task drops the provider's stream and records what arrived.          *)
LeavingEndsTheStream ==
  \A c \in Streams :
    (task[c] \in {"reading", "sending"} /\ client[c] = "gone") ~> (task[c] = "ended" \/ ~Running)

(* No row waits for ever for company: the writer takes it to the database. *)
RowsAreWritten ==
  \A c \in Calls :
    row[c] # "none" ~> (Times(c, table) = 1 \/ c \in lost \cup dropped \/ ~Running)
=============================================================================
