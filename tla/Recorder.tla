------------------------------ MODULE Recorder ------------------------------
(***************************************************************************)
(* The usage recorder: a bounded queue of rows that requests put into      *)
(* without ever waiting, and one writer that takes them out in batches and *)
(* inserts each batch in one transaction.  A row stands for the call it is *)
(* about.                                                                  *)
(***************************************************************************)
EXTENDS Naturals, Sequences

CONSTANTS
  Calls,   (* the requests of the client API                               *)
  Queue,   (* QUEUE: rows that wait at most                                *)
  Batch    (* BATCH: rows per transaction                                  *)

ASSUME RecorderAssumption == Queue \in Nat \ {0} /\ Batch \in Nat \ {0}

VARIABLES
  queue,   (* rows sent and not received                                   *)
  batch,   (* rows the writer has received and not inserted                *)
  writer,  (* where the writer is                                          *)
  table,   (* the usage table                                              *)
  lost,    (* history: rows of a batch that could not be inserted          *)
  dropped  (* history: rows that found the queue full                      *)

rows == <<queue, batch, writer, table, lost, dropped>>

RecorderTypeOK ==
  /\ queue \in Seq(Calls) /\ Len(queue) <= Queue
  /\ batch \in Seq(Calls) /\ Len(batch) <= Batch
  /\ writer \in {"waiting", "filling", "writing", "ended"}
  /\ table \in Seq(Calls)
  /\ lost \subseteq Calls /\ dropped \subseteq Calls

RecorderInit ==
  /\ queue = <<>> /\ batch = <<>> /\ writer = "waiting"
  /\ table = <<>> /\ lost = {} /\ dropped = {}

(* The queue grows with its senders. *)
Record_NoLimit(c) ==
  /\ queue' = Append(queue, c)
  /\ UNCHANGED <<batch, writer, table, lost, dropped>>

(* record: queued, or dropped when there is no room.  Never waits.         *)
Record(c) ==
  /\ IF Len(queue) < Queue
     THEN queue' = Append(queue, c) /\ UNCHANGED dropped
     ELSE dropped' = dropped \cup {c} /\ UNCHANGED queue
  /\ UNCHANGED <<batch, writer, table, lost>>

(* recv waits for the first row of a batch; try_recv takes what else there *)
(* is.                                                                     *)
Receive ==
  /\ \/ writer = "waiting"
     \/ writer = "filling" /\ Len(batch) < Batch
  /\ queue # <<>>
  /\ batch' = Append(batch, Head(queue)) /\ queue' = Tail(queue)
  /\ writer' = "filling"
  /\ UNCHANGED <<table, lost, dropped>>

(* A batch that waits until it is full. *)
Seal_WhenFull ==
  /\ writer = "filling" /\ Len(batch) = Batch
  /\ writer' = "writing"
  /\ UNCHANGED <<queue, batch, table, lost, dropped>>

Seal ==
  /\ writer = "filling"
  /\ Len(batch) = Batch \/ queue = <<>>
  /\ writer' = "writing"
  /\ UNCHANGED <<queue, batch, table, lost, dropped>>

(* The rows written are not taken off the batch. *)
Insert_BatchKept ==
  /\ writer = "writing"
  /\ table' = table \o batch /\ UNCHANGED batch
  /\ writer' = IF Len(batch) < Batch THEN "filling" ELSE "waiting"
  /\ UNCHANGED <<queue, lost, dropped>>

Insert ==
  /\ writer = "writing"
  /\ table' = table \o batch /\ batch' = <<>>
  /\ writer' = "waiting"
  /\ UNCHANGED <<queue, lost, dropped>>

(* The transaction fails as a whole; the rows go to the log, and no further.*)
InsertFails ==
  /\ writer = "writing"
  /\ lost' = lost \cup {batch[i] : i \in DOMAIN batch} /\ batch' = <<>>
  /\ writer' = "waiting"
  /\ UNCHANGED <<queue, table, dropped>>

(* recv answers that every Recorder is gone, once the queue is empty.      *)
WriterEnds_RowsLeft(senders) ==
  /\ writer = "waiting" /\ ~senders
  /\ writer' = "ended"
  /\ UNCHANGED <<queue, batch, table, lost, dropped>>

WriterEnds(senders) ==
  /\ writer = "waiting" /\ queue = <<>> /\ ~senders
  /\ writer' = "ended"
  /\ UNCHANGED <<queue, batch, table, lost, dropped>>
=============================================================================
