------------------------- MODULE Completions_proofs -------------------------
(***************************************************************************)
(* Theorems about Completions and its Recorder, for any calls, any sizes of*)
(* the queue, the batch and the channel, with or without the price sync.   *)
(***************************************************************************)
EXTENDS Completions, FiniteSetTheorems, SequenceTheorems, TLAPS

-----------------------------------------------------------------------------
(* How often a call is in a sequence *)

Places(c, s) == {i \in DOMAIN s : s[i] = c}

(* Every place a row can be in is finite. *)
LEMMA PlacesFinite ==
  ASSUME NEW S, NEW s \in Seq(S), NEW c
  PROVE  /\ IsFiniteSet(Places(c, s)) /\ Places(c, s) \subseteq 1..Len(s)
         /\ Times(c, s) = Cardinality(Places(c, s)) /\ Times(c, s) \in Nat
<1>1. Places(c, s) \subseteq 1..Len(s)
  BY DEF Places
<1>2. IsFiniteSet(1..Len(s))
  BY FS_Interval
<1>3. IsFiniteSet(Places(c, s))
  BY <1>1, <1>2, FS_Subset
<1>. QED
  BY <1>1, <1>3, FS_CardinalityType DEF Times, Places

(* An empty sequence holds a row no times, *)
LEMMA TimesOfNothing == \A c : Times(c, <<>>) = 0
<1>. TAKE c
<1>1. {i \in DOMAIN <<>> : <<>>[i] = c} = {}
  OBVIOUS
<1>. QED
  BY <1>1, FS_EmptySet DEF Times

(* and so does a sequence it is nowhere in, *)
LEMMA TimesCounts ==
  ASSUME NEW S, NEW s \in Seq(S), NEW c
  PROVE  Times(c, s) = 0 <=> \A i \in DOMAIN s : s[i] # c
<1>1. Times(c, s) = 0 <=> Places(c, s) = {}
  BY PlacesFinite, FS_EmptySet
<1>. QED
  BY <1>1 DEF Places

(* Places moved along are as many. *)
LEMMA Shifted ==
  ASSUME NEW P \in SUBSET Nat, IsFiniteSet(P), NEW k \in Nat
  PROVE  LET Q == {i + k : i \in P}
         IN  IsFiniteSet(Q) /\ Cardinality(Q) = Cardinality(P)
<1>. DEFINE Q == {i + k : i \in P}
            f == [i \in P |-> i + k]
<1>1. f \in Injection(P, Q)
  BY DEF Injection, IsInjective
<1>2. f \in Surjection(P, Q)
  BY DEF Surjection
<1>3. ExistsBijection(P, Q)
  BY <1>1, <1>2 DEF Bijection, ExistsBijection
<1>. QED
  BY <1>3, FS_Bijection

(* one more place counts if the row is in it, *)
LEMMA TimesAppend ==
  ASSUME NEW S, NEW s \in Seq(S), NEW x \in S, NEW c
  PROVE  Times(c, Append(s, x)) = Times(c, s) + (IF x = c THEN 1 ELSE 0)
<1>. DEFINE t == Append(s, x)
<1>1. t \in Seq(S) /\ DOMAIN t = 1..Len(s) + 1 /\ Len(s) \in Nat
  OBVIOUS
<1>2. Places(c, t) = IF x = c THEN Places(c, s) \cup {Len(s) + 1} ELSE Places(c, s)
  BY <1>1 DEF Places
<1>3. IsFiniteSet(Places(c, s)) /\ Len(s) + 1 \notin Places(c, s)
  BY <1>1, PlacesFinite
<1>. HIDE DEF t
<1>4. Cardinality(Places(c, t)) = Cardinality(Places(c, s)) + (IF x = c THEN 1 ELSE 0)
  <2>1. CASE x = c
    BY <1>2, <1>3, <2>1, FS_AddElement
  <2>2. CASE x # c
    BY <1>2, <1>3, <2>2, FS_CardinalityType
  <2>. QED
    BY <2>1, <2>2
<1>. QED
  BY <1>1, <1>4, PlacesFinite DEF t

(* two sequences count together, *)
LEMMA TimesConcat ==
  ASSUME NEW S, NEW s \in Seq(S), NEW t \in Seq(S), NEW c
  PROVE  Times(c, s \o t) = Times(c, s) + Times(c, t)
<1>. DEFINE u == s \o t
            Q == {i + Len(s) : i \in Places(c, t)}
<1>1. /\ u \in Seq(S) /\ Len(s) \in Nat /\ Len(t) \in Nat /\ Len(u) = Len(s) + Len(t)
      /\ \A i \in 1..Len(s) : u[i] = s[i]
      /\ \A i \in 1..Len(t) : u[i + Len(s)] = t[i]
  OBVIOUS
<1>2. /\ IsFiniteSet(Places(c, s)) /\ Places(c, s) \subseteq 1..Len(s)
      /\ IsFiniteSet(Places(c, t)) /\ Places(c, t) \subseteq 1..Len(t)
      /\ Times(c, s) = Cardinality(Places(c, s)) /\ Times(c, t) = Cardinality(Places(c, t))
      /\ Times(c, u) = Cardinality(Places(c, u))
  BY <1>1, PlacesFinite
<1>3. IsFiniteSet(Q) /\ Cardinality(Q) = Cardinality(Places(c, t))
  <2>1. Places(c, t) \in SUBSET Nat
    BY <1>2
  <2>. QED
    BY <1>1, <1>2, <2>1, Shifted
<1>4. Places(c, s) \cap Q = {}
  <2>1. \A i \in Places(c, s) : i <= Len(s)
    BY <1>1, <1>2
  <2>2. \A i \in Places(c, t) : i \in Nat /\ i >= 1
    BY <1>1, <1>2
  <2>3. \A i \in Q : i > Len(s)
    BY <1>1, <2>2
  <2>4. \A i \in Places(c, s) : i \notin Q
    BY <1>1, <1>2, <2>1, <2>3
  <2>. QED
    BY <2>4
<1>5. Places(c, u) = Places(c, s) \cup Q
  <2>. HIDE DEF u
  <2>1. ASSUME NEW i \in Places(c, u) PROVE i \in Places(c, s) \cup Q
    <3>1. i \in 1..Len(s) + Len(t) /\ u[i] = c
      BY <1>1 DEF Places
    <3>2. CASE i <= Len(s)
      BY <1>1, <3>1, <3>2 DEF Places
    <3>3. CASE ~(i <= Len(s))
      <4>1. i - Len(s) \in 1..Len(t) /\ i = (i - Len(s)) + Len(s)
        BY <1>1, <3>1, <3>3
      <4>2. t[i - Len(s)] = c
        BY <1>1, <3>1, <4>1
      <4>. QED
        BY <4>1, <4>2 DEF Places
    <3>. QED
      BY <3>2, <3>3
  <2>2. ASSUME NEW i \in Places(c, s) PROVE i \in Places(c, u)
    <3>1. i \in 1..Len(s) /\ s[i] = c
      BY <1>1 DEF Places
    <3>2. i \in 1..Len(u) /\ u[i] = c
      BY <1>1, <3>1
    <3>. QED
      BY <1>1, <3>2 DEF Places
  <2>3. ASSUME NEW i \in Q PROVE i \in Places(c, u)
    <3>1. PICK j \in Places(c, t) : i = j + Len(s)
      OBVIOUS
    <3>2. j \in 1..Len(t) /\ t[j] = c
      BY <1>1, <3>1 DEF Places
    <3>3. i \in 1..Len(u) /\ u[i] = c
      BY <1>1, <3>1, <3>2
    <3>. QED
      BY <1>1, <3>3 DEF Places
  <2>. QED
    BY <2>1, <2>2, <2>3
<1>. HIDE DEF u, Q
<1>6. Cardinality(Places(c, s)) \in Nat /\ Cardinality(Q) \in Nat
  BY <1>2, <1>3, FS_CardinalityType
<1>7. Cardinality(Places(c, s) \cup Q) = Cardinality(Places(c, s)) + Cardinality(Q)
  <2>1. Cardinality(Places(c, s) \cup Q) =
          Cardinality(Places(c, s)) + Cardinality(Q) - Cardinality(Places(c, s) \cap Q)
    BY <1>2, <1>3, FS_Union
  <2>2. Cardinality(Places(c, s) \cap Q) = 0
    BY <1>4, FS_EmptySet
  <2>. QED
    BY <1>6, <2>1, <2>2
<1>. QED
  BY <1>2, <1>3, <1>5, <1>7 DEF u

(* and without its first a sequence has all but that. *)
LEMMA TimesTail ==
  ASSUME NEW S, NEW s \in Seq(S), s # <<>>, NEW c
  PROVE  Times(c, s) = (IF Head(s) = c THEN 1 ELSE 0) + Times(c, Tail(s))
<1>1. /\ Head(s) \in S /\ Tail(s) \in Seq(S) /\ Len(s) \in Nat /\ Len(s) # 0
      /\ Len(Tail(s)) = Len(s) - 1
      /\ \A i \in 1..Len(Tail(s)) : Tail(s)[i] = s[i + 1]
  BY HeadTailProperties, EmptySeq, LenProperties
<1>. DEFINE one == <<Head(s)>>
            u == one \o Tail(s)
<1>2. one \in Seq(S) /\ Len(one) = 1 /\ one[1] = Head(s) /\ Head(s) = s[1]
  BY <1>1
<1>3. s = u
  <2>1. /\ u \in Seq(S) /\ Len(u) = 1 + Len(Tail(s))
        /\ \A i \in 1..1 + Len(Tail(s)) : u[i] = IF i <= 1 THEN one[i] ELSE Tail(s)[i - 1]
    BY <1>1, <1>2, ConcatProperties
  <2>. HIDE DEF u, one
  <2>2. \A i \in 1..Len(s) : s[i] = u[i]
    BY <1>1, <1>2, <2>1
  <2>. QED
    BY <1>1, <2>1, <2>2, SeqEqual
<1>4. Times(c, one) = IF Head(s) = c THEN 1 ELSE 0
  <2>1. Places(c, one) = IF Head(s) = c THEN {1} ELSE {}
    BY <1>2 DEF Places
  <2>2. Times(c, one) = Cardinality(Places(c, one))
    BY <1>2, PlacesFinite
  <2>3. Cardinality({1}) = 1
    BY FS_Singleton
  <2>4. Cardinality({}) = 0
    BY FS_EmptySet
  <2>. HIDE DEF one
  <2>. QED
    BY <2>1, <2>2, <2>3, <2>4
<1>5. Times(c, u) = Times(c, one) + Times(c, Tail(s))
  BY <1>1, <1>2, TimesConcat
<1>. HIDE DEF one, u
<1>. QED
  BY <1>3, <1>4, <1>5

-----------------------------------------------------------------------------
(* Types *)

(* The type invariant is not inductive by itself: that a batch keeps to its*)
(* size rests on the writer starting each one empty.                       *)
BatchIsNew == writer \in {"waiting", "ended"} => batch = <<>>

WireTypeOK ==
  /\ process \in {"serving", "stopping", "draining", "exited", "timed_out"}
  /\ client \in [Calls -> {"idle", "waiting", "receiving", "answered", "gone"}]
  /\ task \in [Calls -> {"none", "asking", "reading", "sending",
                         "error", "usage", "done", "ended"}]
  /\ chan \in [Calls -> Seq(Frames)] /\ \A c \in Calls : Len(chan[c]) <= Channel
  /\ pending \in [Calls -> Frames]
  /\ events \in [Calls -> 0..MaxEvents]
  /\ stopped \in [Calls -> {"no", "end", "refusal"}]
  /\ seen \in [Calls -> Seq(Frames)]

RowTypeOK == row \in [Calls -> {"none", "ok", "refused", "error", "interrupted"}]

(* The type invariant, in its parts. *)
LEMMA TypesTogether == TypeOK <=> RecorderTypeOK /\ WireTypeOK /\ RowTypeOK
BY DEF TypeOK, WireTypeOK, RowTypeOK

RecIInv == RecorderTypeOK /\ BatchIsNew /\ RowTypeOK /\ RowInOnePlace

(* A step that records nothing leaves rows and recorder alone. *)
LEMMA NothingRecorded ==
  ASSUME RecIInv, UNCHANGED <<rows, row>>
  PROVE  RecIInv'
BY DEF RecIInv, RecorderTypeOK, BatchIsNew, RowTypeOK, RowInOnePlace, rows, Times

(* A call that has no row yet records one. *)
LEMMA OneRecorded ==
  ASSUME RecIInv, NEW c \in Calls, row[c] = "none",
         NEW outcome \in {"ok", "refused", "error", "interrupted"}, Leaves(c, outcome)
  PROVE  RecIInv'
<1>1. /\ RecorderTypeOK /\ RowTypeOK /\ BatchIsNew /\ row' = [row EXCEPT ![c] = outcome]
      /\ UNCHANGED <<batch, writer, table, lost>>
  BY DEF RecIInv, Leaves, Record
<1>2. RowTypeOK' /\ BatchIsNew'
  BY <1>1 DEF RowTypeOK, BatchIsNew
<1>3. /\ row'[c] = outcome /\ \A d \in Calls : d # c => row'[d] = row[d]
  BY <1>1 DEF RowTypeOK
<1>4. ASSUME NEW d \in Calls
      PROVE  /\ Times(d, queue) \in Nat /\ Times(d, batch) \in Nat /\ Times(d, table) \in Nat
             /\ Times(d, batch)' = Times(d, batch) /\ Times(d, table)' = Times(d, table)
  <2>1. Times(d, batch)' = Times(d, batch) /\ Times(d, table)' = Times(d, table)
    BY <1>1
  <2>2. Times(d, queue) \in Nat /\ Times(d, batch) \in Nat /\ Times(d, table) \in Nat
    BY <1>1, PlacesFinite DEF RecorderTypeOK
  <2>. QED
    BY <2>1, <2>2
<1>5. \A d \in Calls :
        Times(d, queue) + Times(d, batch) + Times(d, table)
          + (IF d \in lost THEN 1 ELSE 0) + (IF d \in dropped THEN 1 ELSE 0)
        = IF row[d] = "none" THEN 0 ELSE 1
  BY DEF RecIInv, RowInOnePlace
<1>6. CASE Len(queue) < Queue
  <2>1. queue' = Append(queue, c) /\ dropped' = dropped
    BY <1>6 DEF Leaves, Record
  <2>2. RecorderTypeOK'
    BY <1>1, <1>6, <2>1, RecorderAssumption DEF RecorderTypeOK
  <2>3. \A d \in Calls : Times(d, queue') = Times(d, queue) + (IF c = d THEN 1 ELSE 0)
    BY <1>1, <2>1, TimesAppend DEF RecorderTypeOK
  <2>4. RowInOnePlace'
    <3>. SUFFICES ASSUME NEW d \in Calls
         PROVE  Times(d, queue') + Times(d, batch) + Times(d, table)
                  + (IF d \in lost THEN 1 ELSE 0) + (IF d \in dropped THEN 1 ELSE 0)
                = IF row'[d] = "none" THEN 0 ELSE 1
      BY <1>1, <2>1 DEF RowInOnePlace
    <3>. QED
      BY <1>3, <1>4, <1>5, <2>3
  <2>. QED
    BY <1>2, <2>2, <2>4 DEF RecIInv
<1>7. CASE ~(Len(queue) < Queue)
  <2>1. queue' = queue /\ dropped' = dropped \cup {c}
    BY <1>7 DEF Leaves, Record
  <2>2. RecorderTypeOK'
    BY <1>1, <2>1 DEF RecorderTypeOK
  <2>3. c \notin dropped
    BY <1>4, <1>5
  <2>4. RowInOnePlace'
    <3>. SUFFICES ASSUME NEW d \in Calls
         PROVE  Times(d, queue) + Times(d, batch) + Times(d, table)
                  + (IF d \in lost THEN 1 ELSE 0) + (IF d \in dropped' THEN 1 ELSE 0)
                = IF row'[d] = "none" THEN 0 ELSE 1
      BY <1>1, <2>1 DEF RowInOnePlace
    <3>1. d \in dropped' <=> d = c \/ d \in dropped
      BY <2>1
    <3>. QED
      BY <1>3, <1>4, <1>5, <2>3, <3>1
  <2>. QED
    BY <1>2, <2>2, <2>4 DEF RecIInv
<1>. QED
  BY <1>6, <1>7

(* The writer moves rows on, or loses a batch as a whole. *)
LEMMA WriterMoves ==
  ASSUME RecIInv, Writer
  PROVE  RecIInv'
<1>1. RecorderTypeOK /\ RowTypeOK /\ BatchIsNew /\ row' = row /\ RowTypeOK'
  BY DEF RecIInv, Writer, RowTypeOK
<1>2. ASSUME NEW d \in Calls
      PROVE  /\ Times(d, queue) \in Nat /\ Times(d, batch) \in Nat /\ Times(d, table) \in Nat
             /\ Times(d, queue) + Times(d, batch) + Times(d, table)
                  + (IF d \in lost THEN 1 ELSE 0) + (IF d \in dropped THEN 1 ELSE 0)
                = IF row[d] = "none" THEN 0 ELSE 1
  BY <1>1, PlacesFinite DEF RecorderTypeOK, RecIInv, RowInOnePlace
<1>3. CASE Receive
  <2>1. /\ queue # <<>> /\ batch' = Append(batch, Head(queue)) /\ queue' = Tail(queue)
        /\ writer' = "filling" /\ UNCHANGED <<table, lost, dropped>>
        /\ writer = "waiting" \/ Len(batch) < Batch
    BY <1>3 DEF Receive
  <2>2. /\ queue' \in Seq(Calls) /\ Len(queue') <= Queue /\ Head(queue) \in Calls
        /\ batch' \in Seq(Calls) /\ Len(batch') <= Batch
    <3>1. Head(queue) \in Calls /\ Tail(queue) \in Seq(Calls) /\ Len(Tail(queue)) = Len(queue) - 1
      BY <1>1, <2>1, HeadTailProperties DEF RecorderTypeOK
    <3>2. Len(queue) \in Nat /\ Len(batch) \in Nat /\ Len(<<>>) = 0
      BY <1>1, LenProperties, EmptySeq DEF RecorderTypeOK
    <3>3. Len(batch) < Batch
      BY <1>1, <2>1, <3>2, RecorderAssumption DEF BatchIsNew
    <3>4. batch' \in Seq(Calls) /\ Len(batch') = Len(batch) + 1
      BY <1>1, <2>1, <3>1 DEF RecorderTypeOK
    <3>. QED
      BY <1>1, <2>1, <3>1, <3>2, <3>3, <3>4, RecorderAssumption DEF RecorderTypeOK
  <2>3. RecorderTypeOK' /\ BatchIsNew'
    BY <1>1, <2>1, <2>2 DEF RecorderTypeOK, BatchIsNew
  <2>4. ASSUME NEW d \in Calls
        PROVE  /\ Times(d, queue) = (IF Head(queue) = d THEN 1 ELSE 0) + Times(d, queue')
               /\ Times(d, batch') = Times(d, batch) + (IF Head(queue) = d THEN 1 ELSE 0)
               /\ Times(d, queue') \in Nat
    BY <1>1, <2>1, <2>2, TimesTail, TimesAppend, PlacesFinite DEF RecorderTypeOK
  <2>5. RowInOnePlace'
    <3>. SUFFICES ASSUME NEW d \in Calls
         PROVE  Times(d, queue') + Times(d, batch') + Times(d, table)
                  + (IF d \in lost THEN 1 ELSE 0) + (IF d \in dropped THEN 1 ELSE 0)
                = IF row[d] = "none" THEN 0 ELSE 1
      BY <1>1, <2>1 DEF RowInOnePlace
    <3>. QED
      BY <1>2, <2>4
  <2>. QED
    BY <1>1, <2>3, <2>5 DEF RecIInv
<1>4. CASE Seal \/ WriterEnds(Senders)
  <2>1. UNCHANGED <<queue, batch, table, lost, dropped>>
    BY <1>4 DEF Seal, WriterEnds
  <2>2. RecorderTypeOK' /\ BatchIsNew'
    BY <1>1, <1>4, <2>1 DEF Seal, WriterEnds, RecorderTypeOK, BatchIsNew
  <2>3. RowInOnePlace'
    BY <1>1, <2>1 DEF RecIInv, RowInOnePlace, Times
  <2>. QED
    BY <1>1, <2>2, <2>3 DEF RecIInv
<1>5. CASE Insert
  <2>1. /\ table' = table \o batch /\ batch' = <<>> /\ writer' = "waiting"
        /\ UNCHANGED <<queue, lost, dropped>>
    BY <1>5 DEF Insert
  <2>2. RecorderTypeOK' /\ BatchIsNew'
    BY <1>1, <2>1, RecorderAssumption DEF RecorderTypeOK, BatchIsNew
  <2>3. \A d \in Calls : Times(d, table') = Times(d, table) + Times(d, batch)
                          /\ Times(d, batch') = 0
    BY <1>1, <2>1, TimesConcat, TimesOfNothing DEF RecorderTypeOK
  <2>4. RowInOnePlace'
    <3>. SUFFICES ASSUME NEW d \in Calls
         PROVE  Times(d, queue) + Times(d, batch') + Times(d, table')
                  + (IF d \in lost THEN 1 ELSE 0) + (IF d \in dropped THEN 1 ELSE 0)
                = IF row[d] = "none" THEN 0 ELSE 1
      BY <1>1, <2>1 DEF RowInOnePlace
    <3>. QED
      BY <1>2, <2>3
  <2>. QED
    BY <1>1, <2>2, <2>4 DEF RecIInv
<1>6. CASE InsertFails
  <2>1. /\ lost' = lost \cup {batch[i] : i \in DOMAIN batch} /\ batch' = <<>>
        /\ writer' = "waiting" /\ UNCHANGED <<queue, table, dropped>>
    BY <1>6 DEF InsertFails
  <2>2. RecorderTypeOK' /\ BatchIsNew'
    BY <1>1, <2>1, RecorderAssumption DEF RecorderTypeOK, BatchIsNew
  <2>3. ASSUME NEW d \in Calls
        PROVE  /\ Times(d, batch') = 0
               /\ d \in lost' <=> d \in lost \/ Times(d, batch) # 0
    BY <1>1, <2>1, TimesCounts, TimesOfNothing DEF RecorderTypeOK
  <2>4. RowInOnePlace'
    <3>. SUFFICES ASSUME NEW d \in Calls
         PROVE  Times(d, queue) + Times(d, batch') + Times(d, table)
                  + (IF d \in lost' THEN 1 ELSE 0) + (IF d \in dropped THEN 1 ELSE 0)
                = IF row[d] = "none" THEN 0 ELSE 1
      BY <1>1, <2>1 DEF RowInOnePlace
    <3>1. CASE Times(d, batch) = 0
      BY <1>2, <2>3, <3>1
    <3>2. CASE Times(d, batch) # 0
      <4>1. d \notin lost /\ Times(d, batch) = 1
        BY <1>2, <3>2
      <4>. QED
        BY <1>2, <2>3, <4>1
    <3>. QED
      BY <3>1, <3>2
  <2>. QED
    BY <1>1, <2>2, <2>4 DEF RecIInv
<1>. QED
  BY <1>3, <1>4, <1>5, <1>6 DEF Writer

-----------------------------------------------------------------------------
(* Calls, their tasks and their clients *)

(* What frames are. *)
LEMMA FramesAre ==
  /\ Ping \in Frames /\ Ping.kind = "ping"
  /\ \A kind \in {"chunk", "error", "usage", "done", "ping"}, of \in 0..MaxEvents :
       Frame(kind, of) \in Frames /\ Frame(kind, of).kind = kind
  /\ 0 \in 0..MaxEvents
BY CompletionsAssumption DEF Ping, Frame, Frames

(* A sequence has what it had and what was added, *)
LEMMA HasOfAppend ==
  ASSUME NEW S, NEW s \in Seq(S), NEW x \in S, NEW kind
  PROVE  Has(Append(s, x), kind) => Has(s, kind) \/ x.kind = kind
BY DEF Has

(* its tail has no more, *)
LEMMA HasOfTail ==
  ASSUME NEW S, NEW s \in Seq(S), s # <<>>, NEW kind
  PROVE  /\ Has(Tail(s), kind) => Has(s, kind)
         /\ Head(s).kind = kind => Has(s, kind)
<1>1. /\ Len(s) \in Nat /\ Len(s) # 0 /\ Len(Tail(s)) = Len(s) - 1 /\ DOMAIN s = 1..Len(s)
      /\ Tail(s) \in Seq(S) /\ DOMAIN Tail(s) = 1..Len(Tail(s)) /\ Head(s) = s[1]
      /\ \A i \in 1..Len(Tail(s)) : Tail(s)[i] = s[i + 1]
  BY HeadTailProperties, EmptySeq, LenProperties
<1>2. Has(Tail(s), kind) => Has(s, kind)
  BY <1>1 DEF Has
<1>3. 1 \in DOMAIN s
  BY <1>1
<1>. QED
  BY <1>1, <1>2, <1>3 DEF Has

(* and two together have what either has. *)
LEMMA HasOfConcat ==
  ASSUME NEW S, NEW s \in Seq(S), NEW t \in Seq(S), NEW kind
  PROVE  Has(s \o t, kind) => Has(s, kind) \/ Has(t, kind)
<1>. SUFFICES ASSUME NEW i \in DOMAIN (s \o t), (s \o t)[i].kind = kind
              PROVE  Has(s, kind) \/ Has(t, kind)
  BY DEF Has
<1>1. /\ Len(s) \in Nat /\ Len(t) \in Nat /\ i \in 1..Len(s) + Len(t)
      /\ DOMAIN s = 1..Len(s) /\ DOMAIN t = 1..Len(t)
      /\ (s \o t)[i] = IF i <= Len(s) THEN s[i] ELSE t[i - Len(s)]
  BY ConcatProperties, LenProperties
<1>2. CASE i <= Len(s)
  BY <1>1, <1>2 DEF Has
<1>3. CASE ~(i <= Len(s))
  <2>1. i - Len(s) \in 1..Len(t)
    BY <1>1, <1>3
  <2>. QED
    BY <1>1, <1>3, <2>1 DEF Has
<1>. QED
  BY <1>2, <1>3

(* A call has its row when its task is past the event loop, and not before;*)
(* a plain call's handler lives as long as its client waits.               *)
RowComesLast ==
  \A c \in Calls :
    /\ row[c] # "none" => client[c] # "idle" /\ task[c] \notin {"asking", "reading", "sending"}
    /\ client[c] = "idle" => task[c] = "none"

PlainIsShort ==
  \A c \in Calls \ Streams :
    /\ task[c] \in {"none", "asking", "ended"}
    /\ task[c] = "asking" => client[c] = "waiting"

(* How the task of a stream ends is what its row says, and what it sends   *)
(* before its end says nothing of it.                                      *)
EndingIsKnown ==
  \A c \in Calls :
    /\ pending[c].kind \in {"chunk", "ping"}
    /\ task[c] = "error" => row[c] = "interrupted"
    /\ task[c] \in {"usage", "done"} => row[c] \in {"ok", "refused"}

Told(c, kind) == Has(seen[c], kind) \/ Has(chan[c], kind)

EndingIsTold ==
  \A c \in Calls :
    /\ Told(c, "done") => row[c] \in {"ok", "refused"}
    /\ Told(c, "error") => row[c] = "interrupted"

CallsIInv == WireTypeOK /\ RowComesLast /\ PlainIsShort /\ EndingIsKnown /\ EndingIsTold

(* A row is recorded by a call that has none. *)
LEMMA WhoRecords ==
  ASSUME RowTypeOK, CallsIInv, [Next]_vars, ~UNCHANGED <<rows, row>>
  PROVE  \/ Writer
         \/ \E c \in Calls, outcome \in {"ok", "refused", "error", "interrupted"} :
              row[c] = "none" /\ Leaves(c, outcome)
<1>1. ASSUME NEW c \in Calls, Reject(c) \/ Chat(c) \/ OpenFails(c) \/ Break(c) \/ End(c) \/ NoticeLeft(c)
      PROVE  \E outcome \in {"ok", "refused", "error", "interrupted"} :
               row[c] = "none" /\ Leaves(c, outcome)
  <2>1. row[c] = "none"
    BY <1>1 DEF CallsIInv, RowComesLast, Reject, Chat, OpenFails, Break, End, NoticeLeft, At
  <2>2. \E outcome \in {"ok", "refused", "error", "interrupted"} : Leaves(c, outcome)
    BY <1>1, Zenon DEF Reject, Chat, OpenFails, Break, End, NoticeLeft
  <2>. QED
    BY <2>1, <2>2
<1>2. ASSUME NEW c \in Calls,
             \/ NotJson(c) \/ Ask(c) \/ Leave(c) \/ Read(c) \/ ReadEnd(c) \/ Open(c) \/ Event(c)
             \/ KeepAlive(c) \/ Deliver(c) \/ SendLast(c)
      PROVE  UNCHANGED <<rows, row>>
  BY <1>2 DEF NotJson, Ask, Leave, Read, ReadEnd, Open, Event, KeepAlive, Deliver, SendLast
<1>3. ASSUME Signal \/ DropState \/ Exit \/ UNCHANGED vars
      PROVE  UNCHANGED <<rows, row>>
  BY <1>3 DEF Signal, DropState, Exit, vars
<1>. QED
  BY <1>1, <1>2, <1>3 DEF Next, Provider, Task, Client

(* Every step keeps the invariant of the recorder. *)
LEMMA NextRecIInv ==
  ASSUME RecIInv, CallsIInv, [Next]_vars
  PROVE  RecIInv'
<1>1. CASE UNCHANGED <<rows, row>>
  BY <1>1, NothingRecorded
<1>2. CASE Writer
  BY <1>2, WriterMoves
<1>3. ASSUME NEW c \in Calls, NEW outcome \in {"ok", "refused", "error", "interrupted"},
             row[c] = "none", Leaves(c, outcome)
      PROVE  RecIInv'
  BY <1>3, OneRecorded
<1>. QED
  BY <1>1, <1>2, <1>3, WhoRecords DEF RecIInv

(* The invariant of the calls holds at first. *)
LEMMA InitCallsIInv == Init => CallsIInv
<1>. SUFFICES ASSUME Init PROVE CallsIInv
  OBVIOUS
<1>1. WireTypeOK
  BY FramesAre, EmptySeq, CompletionsAssumption DEF Init, WireTypeOK
<1>. QED
  BY <1>1, FramesAre
  DEF Init, CallsIInv, RowComesLast, PlainIsShort, EndingIsKnown, EndingIsTold, Told, Has

(* What a step leaves of a call when it leaves its frames alone. *)
LEMMA FramesStay ==
  ASSUME CallsIInv, UNCHANGED <<chan, seen>>, \A c \in Calls : row[c] # "none" => row'[c] = row[c]
  PROVE  EndingIsTold'
BY DEF CallsIInv, EndingIsTold, Told, Has

(* A call left writes its row and no other. *)
LEMMA RowsStay ==
  ASSUME RowTypeOK, NEW c \in Calls, row[c] = "none", NEW outcome, Leaves(c, outcome)
  PROVE  /\ row'[c] = outcome
         /\ \A d \in Calls : d # c => row'[d] = row[d]
BY DEF RowTypeOK, Leaves

(* Every step keeps the invariant of the calls. *)
LEMMA NextCallsIInv ==
  ASSUME RowTypeOK, CallsIInv, [Next]_vars
  PROVE  CallsIInv'
<1>. USE DEF CallsIInv
<1>1. CASE UNCHANGED vars
  BY <1>1 DEF vars, wire, WireTypeOK, RowComesLast, PlainIsShort, EndingIsKnown, EndingIsTold,
              Told, Has
<1>2. CASE Writer \/ Signal \/ DropState \/ Exit
  <2>1. UNCHANGED <<client, task, wire, row>>
        /\ process' \in {"serving", "stopping", "draining", "exited", "timed_out"}
    BY <1>2 DEF Writer, Signal, DropState, Exit, WireTypeOK
  <2>. QED
    BY <2>1 DEF wire, WireTypeOK, RowComesLast, PlainIsShort, EndingIsKnown, EndingIsTold, Told, Has
<1>3. ASSUME NEW c \in Calls, NotJson(c) \/ Ask(c) \/ ReadEnd(c) \/ Open(c) PROVE CallsIInv'
  <2>1. UNCHANGED <<process, wire, row>>
    BY <1>3 DEF NotJson, Ask, ReadEnd, Open
  <2>2. WireTypeOK'
    BY <1>3, <2>1 DEF wire, WireTypeOK, NotJson, Ask, ReadEnd, Open, ClientIs, TaskGoes
  <2>3. RowComesLast' /\ PlainIsShort'
    <3>1. \A d \in Calls : d # c => task'[d] = task[d] /\ client'[d] = client[d]
      BY <1>3 DEF WireTypeOK, NotJson, Ask, ReadEnd, Open, ClientIs, TaskGoes
    <3>2. row[c] # "none" => client'[c] # "idle" /\ task'[c] \notin {"asking", "reading", "sending"}
      BY <1>3 DEF WireTypeOK, RowComesLast, NotJson, Ask, ReadEnd, Open, ClientIs, TaskGoes, At
    <3>3. client'[c] = "idle" => task'[c] = "none"
      BY <1>3 DEF WireTypeOK, RowComesLast, NotJson, Ask, ReadEnd, Open, ClientIs, TaskGoes, At
    <3>4. c \notin Streams => /\ task'[c] \in {"none", "asking", "ended"}
                              /\ task'[c] = "asking" => client'[c] = "waiting"
      BY <1>3 DEF WireTypeOK, PlainIsShort, NotJson, Ask, ReadEnd, Open, ClientIs, TaskGoes, At
    <3>. QED
      BY <2>1, <3>1, <3>2, <3>3, <3>4 DEF RowComesLast, PlainIsShort
  <2>4. EndingIsKnown'
    BY <1>3, <2>1 DEF wire, WireTypeOK, EndingIsKnown, NotJson, Ask, ReadEnd, Open,
                      ClientIs, TaskGoes
  <2>5. EndingIsTold'
    BY <2>1, FramesStay DEF wire
  <2>. QED
    BY <2>2, <2>3, <2>4, <2>5
<1>4. ASSUME NEW c \in Calls,
             Reject(c) \/ Chat(c) \/ OpenFails(c) \/ Break(c) \/ End(c) \/ NoticeLeft(c)
      PROVE  CallsIInv'
  <2>1. PICK outcome \in {"ok", "refused", "error", "interrupted"} :
          /\ Leaves(c, outcome)
          /\ task' \in {task, [task EXCEPT ![c] = "error"], [task EXCEPT ![c] = "usage"],
                       [task EXCEPT ![c] = "done"], [task EXCEPT ![c] = "ended"]}
          /\ task'[c] = "error" => outcome = "interrupted" \/ task' = task
          /\ task'[c] \in {"usage", "done"} => outcome \in {"ok", "refused"} \/ task' = task
    BY <1>4 DEF Reject, Chat, OpenFails, Break, End, NoticeLeft, TaskGoes, WireTypeOK
  <2>2. row[c] = "none" /\ UNCHANGED <<process, wire>>
    BY <1>4 DEF RowComesLast, Reject, Chat, OpenFails, Break, End, NoticeLeft, At
  <2>3. /\ row'[c] = outcome /\ \A d \in Calls : d # c => row'[d] = row[d]
    BY <2>1, <2>2, RowsStay
  <2>4. WireTypeOK'
    BY <1>4, <2>2 DEF wire, WireTypeOK, Reject, Chat, OpenFails, Break, End, NoticeLeft,
                      ClientIs, TaskGoes
  <2>5. task'[c] \notin {"asking", "reading", "sending"} /\ client'[c] # "idle"
    BY <1>4 DEF WireTypeOK, RowComesLast, Reject, Chat, OpenFails, Break, End, NoticeLeft,
                ClientIs, TaskGoes, At
  <2>6. \A d \in Calls : d # c => task'[d] = task[d] /\ client'[d] = client[d]
    BY <1>4 DEF WireTypeOK, Reject, Chat, OpenFails, Break, End, NoticeLeft, ClientIs, TaskGoes
  <2>7. RowComesLast'
    BY <2>3, <2>5, <2>6 DEF RowComesLast
  <2>8. c \in Calls \ Streams => task'[c] \in {"none", "ended"}
    BY <1>4 DEF WireTypeOK, RowComesLast, PlainIsShort, Reject, Chat, OpenFails, Break, End,
                NoticeLeft, TaskGoes, At
  <2>9. PlainIsShort'
    BY <2>6, <2>8 DEF PlainIsShort
  <2>10. EndingIsKnown'
    <3>1. task' = task => task[c] \notin {"error", "usage", "done"}
      BY <2>2, <2>5 DEF EndingIsKnown
    <3>. QED
      BY <2>1, <2>2, <2>3, <2>6, <3>1 DEF EndingIsKnown, wire
  <2>11. EndingIsTold'
    <3>1. UNCHANGED <<chan, seen>>
      BY <2>2 DEF wire
    <3>. QED
      BY <2>2, <2>3, <3>1, FramesStay
  <2>. QED
    BY <2>4, <2>7, <2>9, <2>10, <2>11
<1>5. ASSUME NEW c \in Calls, Leave(c) PROVE CallsIInv'
  <2>1. /\ client' = [client EXCEPT ![c] = "gone"] /\ Listening(c)
        /\ task' = IF c \in Streams THEN task ELSE [task EXCEPT ![c] = "ended"]
        /\ chan' = [chan EXCEPT ![c] = <<>>]
        /\ UNCHANGED <<process, pending, events, stopped, seen, row, rows>>
    BY <1>5 DEF Leave, ClientIs
  <2>2. WireTypeOK'
    BY <2>1, EmptySeq, CompletionsAssumption DEF WireTypeOK
  <2>3. RowComesLast' /\ PlainIsShort' /\ EndingIsKnown'
    BY <2>1 DEF WireTypeOK, RowComesLast, PlainIsShort, EndingIsKnown, Listening
  <2>4. \A d \in Calls : chan'[d] = IF d = c THEN <<>> ELSE chan[d]
    BY <2>1 DEF WireTypeOK
  <2>5. EndingIsTold'
    BY <2>1, <2>4 DEF EndingIsTold, Told, Has
  <2>. QED
    BY <2>2, <2>3, <2>5
<1>6. ASSUME NEW c \in Calls, Event(c) \/ KeepAlive(c) PROVE CallsIInv'
  <2>1. PICK frame \in Frames :
          /\ pending' = [pending EXCEPT ![c] = frame] /\ task' = [task EXCEPT ![c] = "sending"]
          /\ frame.kind \in {"chunk", "ping"}
    <3>1. CASE Event(c)
      <4>1. events[c] + 1 \in 0..MaxEvents
        BY <3>1, CompletionsAssumption DEF Event, WireTypeOK
      <4>. QED
        BY <3>1, <4>1, FramesAre DEF Event, Sends, TaskGoes
    <3>2. CASE KeepAlive(c)
      BY <3>2, FramesAre DEF KeepAlive, Sends, TaskGoes
    <3>. QED
      BY <1>6, <3>1, <3>2
  <2>2. At(c, "reading") /\ UNCHANGED <<process, client, chan, seen, row>>
    BY <1>6 DEF Event, KeepAlive
  <2>3. events' \in [Calls -> 0..MaxEvents] /\ stopped' \in [Calls -> {"no", "end", "refusal"}]
    <3>1. CASE Event(c)
      <4>1. /\ events[c] + 1 \in 0..MaxEvents /\ events' = [events EXCEPT ![c] = events[c] + 1]
        BY <3>1, CompletionsAssumption DEF Event, WireTypeOK
      <4>2. PICK why \in {"no", "end", "refusal"} :
              stopped' = IF why = "no" THEN stopped ELSE [stopped EXCEPT ![c] = why]
        BY <3>1 DEF Event
      <4>3. events' \in [Calls -> 0..MaxEvents]
        BY <4>1 DEF WireTypeOK
      <4>4. stopped' \in [Calls -> {"no", "end", "refusal"}]
        BY <4>2 DEF WireTypeOK
      <4>. QED
        BY <4>3, <4>4
    <3>2. CASE KeepAlive(c)
      BY <3>2 DEF KeepAlive, WireTypeOK
    <3>. QED
      BY <1>6, <3>1, <3>2
  <2>4. WireTypeOK'
    BY <2>1, <2>2, <2>3 DEF WireTypeOK
  <2>5. RowComesLast' /\ PlainIsShort' /\ EndingIsKnown'
    BY <2>1, <2>2 DEF WireTypeOK, RowComesLast, PlainIsShort, EndingIsKnown, At
  <2>6. EndingIsTold'
    BY <2>2, FramesStay
  <2>. QED
    BY <2>4, <2>5, <2>6
<1>7. ASSUME NEW c \in Calls, Deliver(c) PROVE CallsIInv'
  <2>1. /\ At(c, "sending") /\ Len(chan[c]) < Channel
        /\ chan' = [chan EXCEPT ![c] = Append(chan[c], pending[c])]
        /\ task' = [task EXCEPT ![c] = "reading"]
        /\ UNCHANGED <<process, client, pending, events, stopped, seen, row>>
    BY <1>7 DEF Deliver, TaskGoes
  <2>2. /\ chan[c] \in Seq(Frames) /\ pending[c] \in Frames /\ Len(chan[c]) \in Nat
        /\ Append(chan[c], pending[c]) \in Seq(Frames)
        /\ Len(Append(chan[c], pending[c])) = Len(chan[c]) + 1
    BY DEF WireTypeOK
  <2>3. \A d \in Calls : chan'[d] = IF d = c THEN Append(chan[c], pending[c]) ELSE chan[d]
    BY <2>1 DEF WireTypeOK
  <2>4. WireTypeOK'
    <3>1. chan' \in [Calls -> Seq(Frames)]
      BY <2>1, <2>2 DEF WireTypeOK
    <3>2. \A d \in Calls : Len(chan'[d]) <= Channel
      BY <2>1, <2>2, <2>3, CompletionsAssumption DEF WireTypeOK
    <3>. QED
      BY <2>1, <3>1, <3>2 DEF WireTypeOK
  <2>5. RowComesLast' /\ PlainIsShort' /\ EndingIsKnown'
    BY <2>1 DEF WireTypeOK, RowComesLast, PlainIsShort, EndingIsKnown, At
  <2>6. \A kind \in {"done", "error"} : Has(chan'[c], kind) => Has(chan[c], kind)
    BY <2>2, <2>3, HasOfAppend DEF EndingIsKnown
  <2>7. EndingIsTold'
    BY <2>1, <2>3, <2>6 DEF EndingIsTold, Told
  <2>. QED
    BY <2>4, <2>5, <2>7
<1>8. ASSUME NEW c \in Calls, SendLast(c) PROVE CallsIInv'
  <2>1. PICK kind \in {"error", "usage", "done"} :
          /\ At(c, kind)
          /\ task' = [task EXCEPT ![c] = IF kind = "usage" THEN "done" ELSE "ended"]
          /\ \/ UNCHANGED chan
             \/ /\ Len(chan[c]) < Channel
                /\ chan' = [chan EXCEPT ![c] = Append(chan[c], Frame(kind, 0))]
    BY <1>8 DEF SendLast, TaskGoes
  <2>2. UNCHANGED <<process, client, pending, events, stopped, seen, row>>
    BY <1>8 DEF SendLast
  <2>3. Frame(kind, 0) \in Frames /\ Frame(kind, 0).kind = kind
    BY FramesAre
  <2>4. /\ chan[c] \in Seq(Frames) /\ Len(chan[c]) \in Nat
        /\ Append(chan[c], Frame(kind, 0)) \in Seq(Frames)
        /\ Len(Append(chan[c], Frame(kind, 0))) = Len(chan[c]) + 1
    BY <2>3 DEF WireTypeOK
  <2>5. RowComesLast' /\ PlainIsShort' /\ EndingIsKnown'
    BY <2>1, <2>2 DEF WireTypeOK, RowComesLast, PlainIsShort, EndingIsKnown, At
  <2>6. WireTypeOK' /\ EndingIsTold'
    <3>1. CASE UNCHANGED chan
      BY <2>1, <2>2, <3>1, FramesStay DEF WireTypeOK
    <3>2. CASE /\ Len(chan[c]) < Channel
               /\ chan' = [chan EXCEPT ![c] = Append(chan[c], Frame(kind, 0))]
      <4>1. \A d \in Calls : chan'[d] = IF d = c THEN Append(chan[c], Frame(kind, 0)) ELSE chan[d]
        BY <3>2 DEF WireTypeOK
      <4>2. chan' \in [Calls -> Seq(Frames)] /\ \A d \in Calls : Len(chan'[d]) <= Channel
        <5>1. chan' \in [Calls -> Seq(Frames)]
          BY <2>4, <3>2 DEF WireTypeOK
        <5>2. \A d \in Calls : Len(chan'[d]) <= Channel
          BY <2>4, <3>2, <4>1, CompletionsAssumption DEF WireTypeOK
        <5>. QED
          BY <5>1, <5>2
      <4>3. \A k \in {"done", "error"} : Has(chan'[c], k) => Has(chan[c], k) \/ k = kind
        BY <2>3, <2>4, <4>1, HasOfAppend
      <4>4. /\ kind = "done" => row[c] \in {"ok", "refused"}
            /\ kind = "error" => row[c] = "interrupted"
        BY <2>1 DEF EndingIsKnown, At
      <4>5. EndingIsTold'
        BY <2>2, <4>1, <4>3, <4>4 DEF EndingIsTold, Told
      <4>. QED
        BY <2>1, <2>2, <4>2, <4>5 DEF WireTypeOK
    <3>. QED
      BY <2>1, <3>1, <3>2
  <2>. QED
    BY <2>5, <2>6
<1>9. ASSUME NEW c \in Calls, Read(c) PROVE CallsIInv'
  <2>1. /\ chan[c] # <<>> /\ chan' = [chan EXCEPT ![c] = Tail(chan[c])]
        /\ seen' = seen \/ seen' = [seen EXCEPT ![c] = Append(seen[c], Head(chan[c]))]
        /\ UNCHANGED <<process, client, task, pending, events, stopped, row>>
    BY <1>9 DEF Read
  <2>2. /\ chan[c] \in Seq(Frames) /\ seen[c] \in Seq(Frames) /\ Len(chan[c]) \in Nat
    BY DEF WireTypeOK
  <2>3. /\ Head(chan[c]) \in Frames /\ Tail(chan[c]) \in Seq(Frames)
        /\ Len(Tail(chan[c])) = Len(chan[c]) - 1
        /\ Append(seen[c], Head(chan[c])) \in Seq(Frames)
    BY <2>1, <2>2, HeadTailProperties
  <2>4. \A d \in Calls : chan'[d] = IF d = c THEN Tail(chan[c]) ELSE chan[d]
    BY <2>1 DEF WireTypeOK
  <2>5. \A d \in Calls : \/ seen'[d] = seen[d]
                         \/ d = c /\ seen'[d] = Append(seen[c], Head(chan[c]))
    BY <2>1 DEF WireTypeOK
  <2>6. WireTypeOK'
    <3>1. chan' \in [Calls -> Seq(Frames)] /\ seen' \in [Calls -> Seq(Frames)]
      BY <2>1, <2>3 DEF WireTypeOK
    <3>2. \A d \in Calls : Len(chan'[d]) <= Channel
      <4>1. \A d \in Calls : Len(chan[d]) <= Channel
        BY DEF WireTypeOK
      <4>2. Len(Tail(chan[c])) <= Channel
        BY <2>2, <2>3, <4>1, CompletionsAssumption
      <4>. QED
        BY <2>4, <4>1, <4>2
    <3>. QED
      BY <2>1, <3>1, <3>2 DEF WireTypeOK
  <2>7. \A kind : /\ Has(Tail(chan[c]), kind) => Has(chan[c], kind)
                  /\ Has(Append(seen[c], Head(chan[c])), kind) => Has(seen[c], kind) \/ Has(chan[c], kind)
    BY <2>1, <2>2, <2>3, HasOfTail, HasOfAppend
  <2>8. \A d \in Calls, kind \in {"done", "error"} : Told(d, kind)' => Told(d, kind)
    BY <2>4, <2>5, <2>7 DEF Told
  <2>9. EndingIsTold'
    BY <2>1, <2>8 DEF EndingIsTold
  <2>10. RowComesLast' /\ PlainIsShort' /\ EndingIsKnown'
    BY <2>1 DEF RowComesLast, PlainIsShort, EndingIsKnown
  <2>. QED
    BY <2>6, <2>9, <2>10
<1>. QED
  BY <1>1, <1>2, <1>3, <1>4, <1>5, <1>6, <1>7, <1>8, <1>9 DEF Next, Provider, Task, Client

-----------------------------------------------------------------------------
(* The end of the process *)

(* Once the state is dropped no client is left, and once the writer has    *)
(* ended there is nobody left to record and nothing left to write.         *)
StopsInOrder ==
  /\ process \notin {"serving", "stopping"} => \A c \in Calls : ~Listening(c)
  /\ writer = "ended" => ~Senders /\ queue = <<>>
  /\ process = "exited" => writer = "ended"

(* Every step keeps the order of the shutdown. *)
LEMMA NextStopsInOrder ==
  ASSUME RecIInv, CallsIInv, StopsInOrder, [Next]_vars
  PROVE  StopsInOrder'
<1>0. Streams \subseteq Calls
  BY CompletionsAssumption
<1>1. CASE UNCHANGED vars
  BY <1>1 DEF vars, wire, rows, StopsInOrder, Senders, Listening
<1>2. CASE Writer
  <2>1. UNCHANGED <<process, client, task>>
    BY <1>2 DEF Writer
  <2>2. writer = "ended" => UNCHANGED <<writer, queue>>
    BY <1>2 DEF Writer, Receive, Seal, WriterEnds, Insert, InsertFails
  <2>3. writer' = "ended" /\ writer # "ended" => ~Senders /\ queue' = <<>>
    BY <1>2 DEF Writer, Receive, Seal, WriterEnds, Insert, InsertFails
  <2>4. Senders' = Senders
    BY <2>1 DEF Senders
  <2>. QED
    BY <2>1, <2>2, <2>3, <2>4 DEF StopsInOrder, Listening
<1>3. CASE Signal \/ DropState \/ Exit
  <2>1. UNCHANGED <<client, task, writer, queue>>
    BY <1>3 DEF Signal, DropState, Exit, rows
  <2>2. /\ Senders' => Senders
        /\ process' \notin {"serving", "stopping"} =>
             process \notin {"serving", "stopping"} \/ \A c \in Calls : ~Listening(c)
        /\ process' = "exited" => writer = "ended"
    BY <1>3, <2>1 DEF Signal, DropState, Exit, Senders
  <2>. QED
    BY <2>1, <2>2 DEF StopsInOrder, Listening
<1>4. ASSUME NEW c \in Calls, Ask(c) \/ NotJson(c) \/ Reject(c) PROVE StopsInOrder'
  <2>1. process = "serving" /\ process' = process /\ writer' = writer
    BY <1>4 DEF Ask, NotJson, Reject, Leaves, Record, rows
  <2>. QED
    BY <2>1 DEF StopsInOrder, Senders
<1>5. ASSUME NEW c \in Calls, Leave(c) \/ Read(c) \/ ReadEnd(c) PROVE StopsInOrder'
  <2>1. /\ UNCHANGED <<process, writer, queue>> /\ Listening(c)
        /\ \A d \in Calls : Listening(d)' => Listening(d)
    BY <1>5 DEF Leave, Read, ReadEnd, rows, ClientIs, Listening, CallsIInv, WireTypeOK
  <2>2. \A d \in Streams : task'[d] = task[d]
    BY <1>0, <1>5 DEF Leave, Read, ReadEnd, CallsIInv, WireTypeOK
  <2>3. Senders' = Senders
    BY <2>1, <2>2 DEF Senders
  <2>. QED
    BY <2>1, <2>3 DEF StopsInOrder
<1>6. ASSUME NEW c \in Calls, Provider(c) \/ Task(c) \/ KeepAlive(c) PROVE StopsInOrder'
  <2>1. /\ UNCHANGED <<process, writer>>
        /\ task[c] \notin {"none", "ended"}
        /\ \A d \in Calls : d # c => task'[d] = task[d]
    BY <1>6 DEF Provider, Task, Chat, OpenFails, Open, Event, Break, End, KeepAlive, Deliver,
                NoticeLeft, SendLast, At, Leaves, Record, rows, Sends, TaskGoes, CallsIInv, WireTypeOK
  <2>2. \A d \in Calls : Listening(d)' => Listening(d)
    BY <1>6 DEF Provider, Task, Chat, OpenFails, Open, Event, Break, End, KeepAlive, Deliver,
                NoticeLeft, SendLast, Listening, ClientIs, CallsIInv, WireTypeOK
  <2>3. c \in Streams => Senders
    BY <2>1 DEF Senders
  <2>4. c \notin Streams => Listening(c) \/ process \in {"serving", "stopping"}
    BY <1>6, <2>1 DEF CallsIInv, PlainIsShort, Listening
  <2>5. writer # "ended"
    BY <2>3, <2>4 DEF StopsInOrder, Senders
  <2>. QED
    BY <2>1, <2>2, <2>5 DEF StopsInOrder
<1>. QED
  BY <1>1, <1>2, <1>3, <1>4, <1>5, <1>6 DEF Next, Client

-----------------------------------------------------------------------------
(* The theorems *)

IInv == RecIInv /\ CallsIInv /\ StopsInOrder

(* All of it together, at first *)
LEMMA InitIInv == Init => IInv
<1>. SUFFICES ASSUME Init PROVE IInv
  OBVIOUS
<1>1. RecorderTypeOK /\ BatchIsNew /\ RowTypeOK
  BY EmptySeq, RecorderAssumption DEF Init, RecorderInit, RecorderTypeOK, BatchIsNew, RowTypeOK
<1>2. RowInOnePlace
  <2>1. /\ queue = <<>> /\ batch = <<>> /\ table = <<>> /\ lost = {} /\ dropped = {}
        /\ \A c \in Calls : row[c] = "none"
    BY DEF Init, RecorderInit
  <2>2. \A c \in Calls : Times(c, queue) = 0 /\ Times(c, batch) = 0 /\ Times(c, table) = 0
    BY <2>1, TimesOfNothing
  <2>3. \A c \in Calls : c \notin lost /\ c \notin dropped /\ row[c] = "none"
    BY <2>1
  <2>. SUFFICES ASSUME NEW c \in Calls
       PROVE  Times(c, queue) + Times(c, batch) + Times(c, table)
                + (IF c \in lost THEN 1 ELSE 0) + (IF c \in dropped THEN 1 ELSE 0)
              = IF row[c] = "none" THEN 0 ELSE 1
    BY DEF RowInOnePlace
  <2>4. /\ (IF c \in lost THEN 1 ELSE 0) = 0 /\ (IF c \in dropped THEN 1 ELSE 0) = 0
        /\ (IF row[c] = "none" THEN 0 ELSE 1) = 0
    BY <2>3
  <2>5. 0 + 0 + 0 + 0 + 0 = 0
    OBVIOUS
  <2>. QED
    BY <2>2, <2>4, <2>5
<1>3. StopsInOrder
  BY DEF Init, RecorderInit, StopsInOrder
<1>. QED
  BY <1>1, <1>2, <1>3, InitCallsIInv DEF IInv, RecIInv

(* and by every step. *)
LEMMA NextIInv == IInv /\ [Next]_vars => IInv'
BY NextRecIInv, NextCallsIInv, NextStopsInOrder DEF IInv, RecIInv

(* Where each row is, where each call is, and in what order they end.      *)
THEOREM Invariance == Spec => []IInv
<1>. QED
  BY InitIInv, NextIInv, PTL DEF Spec

(* Every variable keeps its type: the queue, the batch and the channel     *)
(* never hold more than they have room for.                                *)
THEOREM TypeCorrect == Spec => []TypeOK
<1>1. IInv => TypeOK
  BY TypesTogether DEF IInv, RecIInv, CallsIInv
<1>. QED
  BY <1>1, Invariance, PTL

(* A call that recorded a row has it in exactly one place: waiting, with   *)
(* the writer, in the table, lost or dropped (UsageRecorder and its task). *)
THEOREM RowInOnePlaceTheorem == Spec => []RowInOnePlace
<1>1. IInv => RowInOnePlace
  BY DEF IInv, RecIInv
<1>. QED
  BY <1>1, Invariance, PTL

(* A client that is told a stream is done, or broke, is told what its row  *)
(* says (the end of the task of a streamed call).                          *)
THEOREM RowTellsTheEndingTheorem == Spec => []RowTellsTheEnding
<1>1. IInv => RowTellsTheEnding
  <2>. SUFFICES ASSUME IInv, NEW c \in Streams
                PROVE  /\ Has(seen[c] \o chan[c], "done")  => row[c] \in {"ok", "refused"}
                       /\ Has(seen[c] \o chan[c], "error") => row[c] = "interrupted"
    BY DEF RowTellsTheEnding
  <2>1. c \in Calls /\ seen[c] \in Seq(Frames) /\ chan[c] \in Seq(Frames)
    BY CompletionsAssumption DEF IInv, CallsIInv, WireTypeOK
  <2>2. \A kind : Has(seen[c] \o chan[c], kind) => Told(c, kind)
    BY <2>1, HasOfConcat DEF Told
  <2>. QED
    BY <2>1, <2>2 DEF IInv, CallsIInv, EndingIsTold
<1>. QED
  BY <1>1, Invariance, PTL

(* A process that ends after its writer has taken every row that was       *)
(* recorded to the database, but for what was lost or dropped on the way   *)
(* (serve, and the end of the writer when every Recorder is gone).         *)
THEOREM CleanExitWritesAllTheorem == Spec => []CleanExitWritesAll
<1>1. IInv => CleanExitWritesAll
  <2>. SUFFICES ASSUME IInv, process = "exited", NEW c \in Calls, row[c] # "none"
                PROVE  Times(c, table) = 1 \/ c \in lost \cup dropped
    BY DEF CleanExitWritesAll
  <2>1. queue = <<>> /\ batch = <<>>
    BY DEF IInv, StopsInOrder, RecIInv, BatchIsNew
  <2>2. Times(c, queue) = 0 /\ Times(c, batch) = 0 /\ Times(c, table) \in Nat
    BY <2>1, TimesOfNothing, PlacesFinite DEF IInv, RecIInv, RecorderTypeOK
  <2>3. Times(c, queue) + Times(c, batch) + Times(c, table)
          + (IF c \in lost THEN 1 ELSE 0) + (IF c \in dropped THEN 1 ELSE 0) = 1
    BY DEF IInv, RecIInv, RowInOnePlace
  <2>. QED
    BY <2>2, <2>3
<1>. QED
  BY <1>1, Invariance, PTL

-----------------------------------------------------------------------------
(* What a client has read and what is on its way *)

Last == {"error", "usage", "done"}

(* Chunks put in the channel: the one a task waits to send is not yet.     *)
Sent(c) ==
  IF task[c] = "sending" /\ pending[c].kind = "chunk" THEN events[c] - 1 ELSE events[c]

(* The client has read the first n chunks, in order, and nothing after them*)
(* but frames that end a stream.                                           *)
ReadUpTo(c, n) ==
  \A i \in DOMAIN seen[c] :
    IF i <= n THEN seen[c][i] = Frame("chunk", i) ELSE seen[c][i].kind \in Last

(* The channel holds the chunks from there to the last one sent, each once *)
(* and in order, and none after a frame that ends the stream.              *)
Between(c, n) ==
  /\ n <= Sent(c)
  /\ \A j \in DOMAIN chan[c] :
       /\ chan[c][j].kind = "chunk" => chan[c][j].of \in n + 1..Sent(c)
       /\ chan[c][j].kind = "ping" => chan[c][j] = Ping
       /\ \A k \in DOMAIN chan[c] : j < k /\ chan[c][k].kind = "chunk" =>
            /\ chan[c][j].kind \notin Last
            /\ chan[c][j].kind = "chunk" => chan[c][j].of < chan[c][k].of
  /\ \A v \in n + 1..Sent(c) : \E j \in DOMAIN chan[c] : chan[c][j] = Frame("chunk", v)
  /\ n < Len(seen[c]) => n = Sent(c)

(* How far a stream has got: who has not been answered yet has read        *)
(* nothing, nothing follows what ends the stream, and [DONE] comes when the*)
(* model has said why it stopped and everything was read.                  *)
InOrder(c, n) ==
  /\ ReadUpTo(c, n)
  /\ client[c] = "receiving" => Between(c, n)
  /\ Has(seen[c], "done") => n = events[c]

Stages(c) ==
  /\ client[c] # "receiving" => chan[c] = <<>>
  /\ client[c] = "idle" => task[c] = "none"
  /\ client[c] = "waiting" => task[c] = "asking"
  /\ task[c] = "asking" => client[c] \in {"waiting", "gone"}
  /\ task[c] \in {"none", "asking"} => events[c] = 0 /\ chan[c] = <<>> /\ seen[c] = <<>>
  /\ task[c] = "sending" => pending[c] = Ping \/ pending[c] = Frame("chunk", events[c])
  /\ task[c] \in {"usage", "done"} => stopped[c] # "no"
  /\ \A kind \in Last : Told(c, kind) => task[c] \in {"done", "ended"}
  /\ Told(c, "done") => task[c] = "ended" /\ stopped[c] # "no"

OrderIInv == \A c \in Calls : Stages(c) /\ \E n \in 0..Len(seen[c]) : InOrder(c, n)

(* Nothing about this call changes. *)
SamePlace(d) ==
  /\ client'[d] = client[d] /\ task'[d] = task[d] /\ chan'[d] = chan[d]
  /\ pending'[d] = pending[d] /\ events'[d] = events[d] /\ stopped'[d] = stopped[d]
  /\ seen'[d] = seen[d]

(* A call that does not move stays where it was. *)
LEMMA PlaceStays ==
  ASSUME NEW d, SamePlace(d), NEW n
  PROVE  /\ Stages(d) => Stages(d)'
         /\ InOrder(d, n) => InOrder(d, n)'
<1>1. Stages(d) => Stages(d)'
  BY DEF SamePlace, Stages, Told
<1>2. Sent(d)' = Sent(d)
  BY DEF SamePlace, Sent
<1>3. Between(d, n) => Between(d, n)'
  BY <1>2 DEF SamePlace, Between
<1>4. ReadUpTo(d, n) => ReadUpTo(d, n)'
  BY DEF SamePlace, ReadUpTo
<1>. QED
  BY <1>1, <1>3, <1>4 DEF InOrder, SamePlace

(* So a step of one call has only that call to answer for. *)
LEMMA OneMoves ==
  ASSUME OrderIInv, NEW c \in Calls, \A d \in Calls : d # c => SamePlace(d),
         Stages(c)', \E n \in 0..Len(seen'[c]) : InOrder(c, n)'
  PROVE  OrderIInv'
<1>1. ASSUME NEW d \in Calls, d # c
      PROVE  Stages(d)' /\ \E n \in 0..Len(seen'[d]) : InOrder(d, n)'
  <2>1. Stages(d)
    BY DEF OrderIInv
  <2>2. PICK n \in 0..Len(seen[d]) : InOrder(d, n)
    BY DEF OrderIInv
  <2>3. SamePlace(d)
    BY <1>1
  <2>4. seen'[d] = seen[d]
    BY <2>3 DEF SamePlace
  <2>. QED
    BY <2>1, <2>2, <2>3, <2>4, PlaceStays
<1>. QED
  BY <1>1 DEF OrderIInv

(* Where neither what was read nor what is on its way changes, a stream is *)
(* as far as it was.                                                       *)
LEMMA AsFar ==
  ASSUME NEW c, NEW n, InOrder(c, n), seen'[c] = seen[c],
         client'[c] = "receiving" =>
           client[c] = "receiving" /\ chan'[c] = chan[c] /\ Sent(c)' = Sent(c),
         Has(seen[c], "done") => events'[c] = events[c]
  PROVE  InOrder(c, n)'
<1>1. ReadUpTo(c, n)'
  BY DEF InOrder, ReadUpTo
<1>2. client'[c] = "receiving" => Between(c, n)'
  BY DEF InOrder, Between
<1>. QED
  BY <1>1, <1>2 DEF InOrder

(* At first nothing was sent. *)
LEMMA InitOrderIInv == Init => OrderIInv
<1>. SUFFICES ASSUME Init, NEW c \in Calls
              PROVE  Stages(c) /\ \E n \in 0..Len(seen[c]) : InOrder(c, n)
  BY DEF OrderIInv
<1>1. /\ client[c] = "idle" /\ task[c] = "none" /\ chan[c] = <<>> /\ seen[c] = <<>>
      /\ events[c] = 0 /\ DOMAIN seen[c] = {} /\ Len(seen[c]) = 0
  BY DEF Init
<1>2. Stages(c)
  BY <1>1 DEF Stages, Told, Has, Last
<1>3. InOrder(c, 0)
  BY <1>1 DEF InOrder, ReadUpTo, Has
<1>. QED
  BY <1>1, <1>2, <1>3

(* The steps that move neither what the client has read nor what is on its *)
(* way.                                                                    *)
LEMMA QuietSteps ==
  ASSUME WireTypeOK, OrderIInv, NEW c \in Calls,
         \/ NotJson(c) \/ Reject(c) \/ Ask(c) \/ Chat(c) \/ Leave(c) \/ OpenFails(c)
         \/ Break(c) \/ End(c) \/ NoticeLeft(c) \/ ReadEnd(c) \/ KeepAlive(c) \/ Event(c)
  PROVE  OrderIInv'
<1>0. Stages(c)
  BY DEF OrderIInv
<1>1. PICK n \in 0..Len(seen[c]) : InOrder(c, n)
  BY DEF OrderIInv
<1>2. seen' = seen /\ \A d \in Calls : d # c => SamePlace(d)
  BY DEF WireTypeOK, wire, NotJson, Reject, Ask, Chat, Leave, OpenFails, Break, End,
         NoticeLeft, ReadEnd, KeepAlive, Event, ClientIs, TaskGoes, Sends, SamePlace
<1>. SUFFICES Stages(c)' /\ InOrder(c, n)'
  BY <1>1, <1>2, OneMoves
<1>3. CASE NotJson(c) \/ Reject(c)
  <2>1. client'[c] = "answered" /\ UNCHANGED <<task, wire>> /\ client[c] = "idle"
    BY <1>3 DEF NotJson, Reject, ClientIs, WireTypeOK
  <2>2. Stages(c)'
    BY <1>0, <2>1 DEF Stages, wire, Told, Has
  <2>. QED
    BY <1>1, <2>1, <2>2, AsFar DEF wire
<1>4. CASE Ask(c)
  <2>1. client'[c] = "waiting" /\ task'[c] = "asking" /\ client[c] = "idle" /\ UNCHANGED wire
    BY <1>4 DEF Ask, ClientIs, TaskGoes, WireTypeOK
  <2>2. Stages(c)'
    BY <1>0, <2>1 DEF Stages, wire, Told, Has
  <2>. QED
    BY <1>1, <2>1, <2>2, AsFar DEF wire
<1>5. CASE Chat(c) \/ OpenFails(c)
  <2>1. /\ task[c] = "asking" /\ task'[c] = "ended" /\ UNCHANGED wire
        /\ client'[c] # "receiving" /\ client'[c] \notin {"idle", "waiting"}
    BY <1>0, <1>5 DEF Chat, OpenFails, At, ClientIs, TaskGoes, WireTypeOK, Stages
  <2>2. Stages(c)'
    <3>1. seen'[c] = <<>> /\ chan'[c] = <<>>
      BY <1>0, <2>1 DEF Stages, wire
    <3>2. \A kind : ~Told(c, kind)'
      BY <3>1 DEF Told, Has
    <3>. QED
      BY <2>1, <3>1, <3>2 DEF Stages
  <2>. QED
    BY <1>1, <2>1, <2>2, AsFar DEF wire
<1>6. CASE Leave(c)
  <2>1. /\ client'[c] = "gone" /\ task'[c] \in {task[c], "ended"} /\ chan'[c] = <<>>
        /\ UNCHANGED <<pending, events, stopped, seen>>
    BY <1>6 DEF Leave, ClientIs, WireTypeOK
  <2>2. Stages(c)'
    BY <1>0, <2>1 DEF Stages, Told, Has
  <2>. QED
    BY <1>1, <2>1, <2>2, AsFar
<1>7. CASE Break(c) \/ End(c)
  <2>1. /\ task[c] = "reading" /\ task'[c] \in {"error", "usage", "done"}
        /\ task'[c] \in {"usage", "done"} => stopped[c] # "no"
        /\ UNCHANGED <<client, wire>>
    BY <1>7 DEF Break, End, At, TaskGoes, WireTypeOK
  <2>2. Stages(c)'
    BY <1>0, <2>1 DEF Stages, wire, Told, Has, Last
  <2>3. Sent(c)' = Sent(c)
    BY <2>1 DEF Sent, wire
  <2>. QED
    BY <1>1, <2>1, <2>2, <2>3, AsFar DEF wire
<1>8. CASE NoticeLeft(c)
  <2>1. /\ task[c] \in {"reading", "sending"} /\ task'[c] = "ended" /\ client[c] = "gone"
        /\ UNCHANGED <<client, wire>>
    BY <1>8 DEF NoticeLeft, At, TaskGoes, WireTypeOK
  <2>2. Stages(c)'
    BY <1>0, <2>1 DEF Stages, wire, Told, Has, Last
  <2>. QED
    BY <1>1, <2>1, <2>2, AsFar DEF wire
<1>9. CASE ReadEnd(c)
  <2>1. /\ task[c] = "ended" /\ client'[c] = "answered" /\ chan[c] = <<>>
        /\ UNCHANGED <<task, wire>>
    BY <1>9 DEF ReadEnd, At, ClientIs, WireTypeOK
  <2>2. Stages(c)'
    BY <1>0, <2>1 DEF Stages, wire, Told, Has, Last
  <2>. QED
    BY <1>1, <2>1, <2>2, AsFar DEF wire
<1>10. CASE KeepAlive(c) \/ Event(c)
  <2>1. /\ task[c] = "reading" /\ task'[c] = "sending" /\ UNCHANGED <<client, chan, seen>>
        /\ \/ pending'[c] = Ping /\ UNCHANGED <<events, stopped>>
           \/ /\ pending'[c] = Frame("chunk", events[c] + 1) /\ events'[c] = events[c] + 1
              /\ stopped[c] # "no" => stopped'[c] # "no"
    BY <1>10 DEF KeepAlive, Event, Sends, At, TaskGoes, WireTypeOK
  <2>2. ~Told(c, "done") /\ \A kind \in Last : ~Told(c, kind)
    BY <1>0, <2>1 DEF Stages, Last
  <2>3. \A kind : Told(c, kind)' = Told(c, kind)
    BY <2>1 DEF Told, Has
  <2>4. Stages(c)'
    <3>1. pending'[c] = Ping \/ pending'[c] = Frame("chunk", events'[c])
      BY <2>1
    <3>2. \A kind \in Last : ~Told(c, kind)'
      BY <2>2, <2>3
    <3>3. ~Told(c, "done")'
      BY <2>2, <2>3
    <3>4. chan'[c] = chan[c] /\ client'[c] = client[c] /\ client[c] \notin {"idle", "waiting"}
      BY <1>0, <2>1 DEF Stages
    <3>5. client[c] # "receiving" => chan'[c] = <<>>
      BY <1>0, <3>4 DEF Stages
    <3>. QED
      BY <2>1, <3>1, <3>2, <3>3, <3>4, <3>5 DEF Stages
  <2>5. Sent(c)' = Sent(c)
    <3>1. Ping.kind = "ping" /\ Frame("chunk", events[c] + 1).kind = "chunk"
      BY DEF Ping, Frame
    <3>2. events[c] \in Nat
      BY DEF WireTypeOK
    <3>. QED
      BY <2>1, <3>1, <3>2 DEF Sent
  <2>. QED
    BY <1>1, <2>1, <2>2, <2>4, <2>5, AsFar DEF Told
<1>. QED
  BY <1>3, <1>4, <1>5, <1>6, <1>7, <1>8, <1>9, <1>10

(* The client is told of the stream and nothing has been sent yet. *)
LEMMA OpenOrder ==
  ASSUME WireTypeOK, OrderIInv, NEW c \in Calls, Open(c)
  PROVE  OrderIInv'
<1>0. Stages(c)
  BY DEF OrderIInv
<1>1. /\ UNCHANGED wire /\ \A d \in Calls : d # c => SamePlace(d)
      /\ task[c] = "asking"
      /\ \/ task'[c] = "reading" /\ client'[c] = "receiving"
         \/ task'[c] = "ended" /\ client'[c] = client[c] /\ client[c] # "waiting"
  BY DEF WireTypeOK, wire, Open, At, ClientIs, TaskGoes, SamePlace
<1>2. events[c] = 0 /\ chan[c] = <<>> /\ seen[c] = <<>> /\ client[c] # "idle"
  BY <1>0, <1>1 DEF Stages
<1>3. Stages(c)'
  BY <1>0, <1>1, <1>2 DEF Stages, wire, Told, Has, Last
<1>4. Sent(c)' = 0 /\ DOMAIN chan'[c] = {} /\ DOMAIN seen'[c] = {} /\ Len(seen'[c]) = 0
  BY <1>1, <1>2 DEF wire, Sent
<1>5. InOrder(c, 0)'
  BY <1>4 DEF InOrder, ReadUpTo, Between, Has
<1>. QED
  BY <1>1, <1>3, <1>4, <1>5, OneMoves

(* What a task delivers follows what it sent before. *)
LEMMA DeliverOrder ==
  ASSUME WireTypeOK, OrderIInv, NEW c \in Calls, Deliver(c)
  PROVE  OrderIInv'
<1>. DEFINE t == Append(chan[c], pending[c])
<1>0. Stages(c)
  BY DEF OrderIInv
<1>1. PICK n \in 0..Len(seen[c]) : InOrder(c, n)
  BY DEF OrderIInv
<1>2. /\ task[c] = "sending" /\ task'[c] = "reading" /\ client[c] = "receiving"
      /\ chan'[c] = t /\ UNCHANGED <<client, pending, events, stopped, seen>>
      /\ \A d \in Calls : d # c => SamePlace(d)
  BY DEF Deliver, At, TaskGoes, WireTypeOK, SamePlace
<1>3. /\ chan[c] \in Seq(Frames) /\ Len(chan[c]) \in Nat /\ events[c] \in Nat
      /\ DOMAIN t = 1..Len(chan[c]) + 1 /\ t[Len(chan[c]) + 1] = pending[c]
      /\ \A j \in DOMAIN chan[c] : t[j] = chan[c][j] /\ j \in DOMAIN t
      /\ \A j \in DOMAIN t : j \in DOMAIN chan[c] \/ j = Len(chan[c]) + 1
      /\ \A j \in DOMAIN chan[c] : ~(Len(chan[c]) + 1 < j)
  BY DEF WireTypeOK
<1>. HIDE DEF t
<1>4. \A kind \in Last : ~Has(seen[c], kind) /\ ~Has(chan[c], kind)
  BY <1>0, <1>2 DEF Stages, Told
<1>5. Ping.kind = "ping" /\ \A v : Frame("chunk", v).kind = "chunk" /\ Frame("chunk", v).of = v
  BY DEF Ping, Frame
<1>6. /\ pending[c] = Ping \/ pending[c] = Frame("chunk", events[c])
      /\ pending[c].kind \notin Last
  BY <1>0, <1>2, <1>5 DEF Stages, Last
<1>7. \A kind \in Last : ~Told(c, kind)'
  BY <1>2, <1>3, <1>4, <1>6 DEF Told, Has
<1>8. Stages(c)'
  <2>1. ~Told(c, "done")'
    BY <1>7 DEF Last
  <2>. QED
    BY <1>2, <1>7, <2>1 DEF Stages
<1>9. Between(c, n)
  BY <1>1, <1>2 DEF InOrder
<1>10. /\ Sent(c)' = events[c]
       /\ Sent(c) = IF pending[c] = Ping THEN events[c] ELSE events[c] - 1
       /\ Sent(c) \in Int /\ n \in Nat /\ n <= Sent(c)
  BY <1>2, <1>3, <1>5, <1>6, <1>9 DEF Sent, Between
<1>11. Between(c, n)'
  <2>1. n <= Sent(c)'
    BY <1>3, <1>10
  <2>2. ~(n < Len(seen'[c]))
    <3>1. SUFFICES ASSUME n < Len(seen[c]) PROVE FALSE
      BY <1>2
    <3>2. Len(seen[c]) \in Nat /\ n + 1 \in DOMAIN seen[c] /\ ~(n + 1 <= n)
      BY <1>10, <3>1 DEF WireTypeOK
    <3>3. seen[c][n + 1].kind \in Last
      BY <1>1, <3>2 DEF InOrder, ReadUpTo
    <3>. QED
      BY <1>4, <3>2, <3>3 DEF Has
  <2>3. ASSUME NEW j \in DOMAIN t
        PROVE  /\ t[j].kind = "chunk" => t[j].of \in n + 1..events[c]
               /\ t[j].kind = "ping" => t[j] = Ping
               /\ t[j].kind \notin Last
    <3>1. CASE j \in DOMAIN chan[c]
      <4>1. /\ chan[c][j].kind = "chunk" => chan[c][j].of \in n + 1..Sent(c)
            /\ chan[c][j].kind = "ping" => chan[c][j] = Ping
        BY <1>9, <3>1 DEF Between
      <4>2. chan[c][j].kind \notin Last
        BY <1>4, <3>1 DEF Has
      <4>. QED
        BY <1>3, <1>10, <3>1, <4>1, <4>2
    <3>2. CASE j = Len(chan[c]) + 1
      BY <1>3, <1>5, <1>6, <1>10, <3>2
    <3>. QED
      BY <1>3, <3>1, <3>2
  <2>4. ASSUME NEW j \in DOMAIN t, NEW k \in DOMAIN t, j < k,
               t[j].kind = "chunk", t[k].kind = "chunk"
        PROVE  t[j].of < t[k].of
    <3>1. j \in DOMAIN chan[c]
      BY <1>3, <2>4
    <3>2. CASE k \in DOMAIN chan[c]
      BY <1>3, <1>9, <2>4, <3>1, <3>2 DEF Between
    <3>3. CASE k = Len(chan[c]) + 1
      <4>1. pending[c] = Frame("chunk", events[c]) /\ pending[c] # Ping /\ t[k].of = events[c]
        BY <1>3, <1>5, <1>6, <2>4, <3>3
      <4>2. t[j].of \in n + 1..Sent(c)
        BY <1>3, <1>9, <2>4, <3>1 DEF Between
      <4>. QED
        BY <1>3, <1>10, <4>1, <4>2
    <3>. QED
      BY <1>3, <3>2, <3>3
  <2>5. ASSUME NEW v \in n + 1..events[c]
        PROVE  \E j \in DOMAIN t : t[j] = Frame("chunk", v)
    <3>1. CASE v \in n + 1..Sent(c)
      <4>1. PICK j \in DOMAIN chan[c] : chan[c][j] = Frame("chunk", v)
        BY <1>9, <3>1 DEF Between
      <4>. QED
        BY <1>3, <4>1
    <3>2. CASE v \notin n + 1..Sent(c)
      <4>1. v = events[c] /\ pending[c] # Ping
        BY <1>3, <1>10, <3>2
      <4>2. Len(chan[c]) + 1 \in DOMAIN t
        BY <1>3
      <4>. QED
        BY <1>3, <1>6, <4>1, <4>2
    <3>. QED
      BY <3>1, <3>2
  <2>. QED
    BY <1>2, <1>10, <2>1, <2>2, <2>3, <2>4, <2>5 DEF Between
<1>12. ReadUpTo(c, n)' /\ ~Has(seen'[c], "done")
  BY <1>1, <1>2, <1>4 DEF InOrder, ReadUpTo, Last
<1>. QED
  BY <1>1, <1>2, <1>8, <1>11, <1>12, OneMoves DEF InOrder

(* The frames that end a stream come after its chunks. *)
LEMMA SendLastOrder ==
  ASSUME WireTypeOK, OrderIInv, NEW c \in Calls, SendLast(c)
  PROVE  OrderIInv'
<1>0. Stages(c)
  BY DEF OrderIInv
<1>1. PICK n \in 0..Len(seen[c]) : InOrder(c, n)
  BY DEF OrderIInv
<1>2. PICK kind \in Last :
        /\ task[c] = kind /\ task'[c] = IF kind = "usage" THEN "done" ELSE "ended"
        /\ UNCHANGED <<client, pending, events, stopped, seen>>
        /\ \A d \in Calls : d # c => SamePlace(d)
        /\ \/ chan'[c] = chan[c]
           \/ client[c] = "receiving" /\ chan'[c] = Append(chan[c], Frame(kind, 0))
  BY DEF SendLast, At, TaskGoes, WireTypeOK, SamePlace, Last
<1>3. Sent(c)' = Sent(c)
  BY <1>2 DEF Sent, Last
<1>4. /\ Frame(kind, 0).kind = kind /\ Ping.kind = "ping"
      /\ kind \notin {"chunk", "ping", "none", "asking", "sending", "ended"}
  BY DEF Frame, Ping, Last
<1>5. client[c] \notin {"idle", "waiting"}
  BY <1>0, <1>2, <1>4 DEF Stages
<1>6. CASE chan'[c] = chan[c]
  <2>1. \A k : Told(c, k)' = Told(c, k)
    BY <1>2, <1>6 DEF Told
  <2>2. /\ \A k \in Last : Told(c, k) => task[c] = "done"
        /\ ~Told(c, "done")
    BY <1>0, <1>2, <1>4 DEF Stages
  <2>3. Stages(c)'
    <3>1. \A k \in Last : Told(c, k)' => task'[c] \in {"done", "ended"}
      BY <1>2, <2>1, <2>2
    <3>2. ~Told(c, "done")'
      BY <2>1, <2>2
    <3>3. task'[c] \in {"done", "ended"} /\ (task'[c] = "done" => stopped'[c] # "no")
      BY <1>0, <1>2, <1>4 DEF Stages, Last
    <3>4. client'[c] # "receiving" => chan'[c] = <<>>
      BY <1>0, <1>2, <1>6 DEF Stages
    <3>. QED
      BY <1>2, <1>5, <3>1, <3>2, <3>3, <3>4 DEF Stages
  <2>. QED
    BY <1>1, <1>2, <1>3, <1>6, <2>3, AsFar, OneMoves
<1>7. CASE client[c] = "receiving" /\ chan'[c] = Append(chan[c], Frame(kind, 0))
  <2>. DEFINE t == Append(chan[c], Frame(kind, 0))
  <2>1. /\ Len(chan[c]) \in Nat
        /\ DOMAIN t = 1..Len(chan[c]) + 1 /\ t[Len(chan[c]) + 1] = Frame(kind, 0)
        /\ \A j \in DOMAIN chan[c] : t[j] = chan[c][j] /\ j \in DOMAIN t
        /\ \A j \in DOMAIN t : j \in DOMAIN chan[c] \/ j = Len(chan[c]) + 1
        /\ \A j \in DOMAIN chan[c] : ~(Len(chan[c]) + 1 < j)
    <3>1. chan[c] \in Seq(Frames)
      BY DEF WireTypeOK
    <3>. QED
      BY <3>1
  <2>2. chan'[c] = t
    BY <1>7
  <2>. HIDE DEF t
  <2>3. Between(c, n) /\ ReadUpTo(c, n)
    BY <1>1, <1>7 DEF InOrder
  <2>4. Between(c, n)'
    <3>1. ASSUME NEW j \in DOMAIN t
          PROVE  /\ t[j].kind = "chunk" => t[j].of \in n + 1..Sent(c)
                 /\ t[j].kind = "ping" => t[j] = Ping
                 /\ t[j].kind \in {"chunk", "ping"} => j \in DOMAIN chan[c] /\ t[j] = chan[c][j]
      BY <1>4, <2>1, <2>3 DEF Between
    <3>2. ASSUME NEW j \in DOMAIN t, NEW k \in DOMAIN t, j < k, t[k].kind = "chunk"
          PROVE  /\ t[j].kind \notin Last
                 /\ t[j].kind = "chunk" => t[j].of < t[k].of
      <4>1. k \in DOMAIN chan[c] /\ t[k] = chan[c][k]
        BY <3>1, <3>2
      <4>2. j \in DOMAIN chan[c] /\ t[j] = chan[c][j]
        BY <2>1, <3>2, <4>1
      <4>. QED
        BY <2>3, <3>2, <4>1, <4>2 DEF Between
    <3>3. ASSUME NEW v \in n + 1..Sent(c)
          PROVE  \E j \in DOMAIN t : t[j] = Frame("chunk", v)
      BY <2>1, <2>3 DEF Between
    <3>4. n <= Sent(c) /\ (n < Len(seen[c]) => n = Sent(c))
      BY <2>3 DEF Between
    <3>. QED
      BY <1>2, <1>3, <2>2, <3>1, <3>2, <3>3, <3>4 DEF Between
  <2>5. \A k : Has(t, k) => Has(chan[c], k) \/ k = kind
    BY <1>4, <2>1 DEF Has
  <2>6. Stages(c)'
    <3>1. task'[c] \in {"done", "ended"} /\ (task'[c] = "done" => stopped'[c] # "no")
      BY <1>0, <1>2, <1>4 DEF Stages, Last
    <3>2. Told(c, "done")' => task'[c] = "ended" /\ stopped'[c] # "no"
      BY <1>0, <1>2, <2>2, <2>5 DEF Stages, Told
    <3>. QED
      BY <1>2, <1>5, <1>7, <3>1, <3>2 DEF Stages
  <2>7. InOrder(c, n)'
    <3>1. ReadUpTo(c, n)'
      BY <1>2, <2>3 DEF ReadUpTo
    <3>2. Has(seen'[c], "done") => n = events'[c]
      BY <1>1, <1>2 DEF InOrder
    <3>. QED
      BY <2>4, <3>1, <3>2 DEF InOrder
  <2>. QED
    BY <1>1, <1>2, <2>6, <2>7, OneMoves
<1>. QED
  BY <1>2, <1>6, <1>7

(* The client reads the next chunk, or an ending once there is none left. *)
LEMMA ReadOrder ==
  ASSUME WireTypeOK, OrderIInv, NEW c \in Calls, Read(c)
  PROVE  OrderIInv'
<1>. DEFINE head == chan[c][1]
            t == Tail(chan[c])
            s == Append(seen[c], head)
<1>0. Stages(c)
  BY DEF OrderIInv
<1>1. PICK n \in 0..Len(seen[c]) : InOrder(c, n)
  BY DEF OrderIInv
<1>2. /\ client[c] = "receiving" /\ chan[c] # <<>>
      /\ chan'[c] = t /\ UNCHANGED <<client, task, pending, events, stopped>>
      /\ seen'[c] = IF head = Ping THEN seen[c] ELSE s
      /\ \A d \in Calls : d # c => SamePlace(d)
  BY DEF Read, WireTypeOK, SamePlace
<1>3. /\ head \in Frames /\ 1 \in DOMAIN chan[c]
      /\ \A j \in DOMAIN t : j + 1 \in DOMAIN chan[c] /\ t[j] = chan[c][j + 1] /\ 1 < j + 1
      /\ \A j \in DOMAIN chan[c] : j # 1 => j - 1 \in DOMAIN t /\ t[j - 1] = chan[c][j] /\ 1 < j
      /\ \A j, k \in DOMAIN t : j < k => j + 1 < k + 1
  <2>1. chan[c] \in Seq(Frames) /\ Len(chan[c]) \in Nat /\ Len(chan[c]) # 0
    BY <1>2, EmptySeq DEF WireTypeOK
  <2>2. /\ DOMAIN chan[c] = 1..Len(chan[c]) /\ t \in Seq(Frames) /\ Len(t) = Len(chan[c]) - 1
        /\ \A j \in 1..Len(chan[c]) - 1 : t[j] = chan[c][j + 1]
    BY <1>2, <2>1, HeadTailProperties
  <2>3. DOMAIN t = 1..Len(chan[c]) - 1
    BY <2>1, <2>2
  <2>. HIDE DEF t
  <2>4. head \in Frames /\ 1 \in DOMAIN chan[c]
    BY <2>1, <2>2
  <2>5. ASSUME NEW j \in DOMAIN t
        PROVE  j + 1 \in DOMAIN chan[c] /\ t[j] = chan[c][j + 1] /\ 1 < j + 1
    BY <2>1, <2>2, <2>3
  <2>6. ASSUME NEW j \in DOMAIN chan[c], j # 1
        PROVE  j - 1 \in DOMAIN t /\ t[j - 1] = chan[c][j] /\ 1 < j
    <3>1. j - 1 \in 1..Len(chan[c]) - 1 /\ (j - 1) + 1 = j /\ 1 < j
      BY <2>1, <2>2, <2>6
    <3>. QED
      BY <2>2, <2>3, <3>1
  <2>7. \A j, k \in DOMAIN t : j < k => j + 1 < k + 1
    BY <2>3
  <2>. QED
    BY <2>4, <2>5, <2>6, <2>7
<1>4. /\ seen[c] \in Seq(Frames) /\ Len(seen[c]) \in Nat /\ DOMAIN seen[c] = 1..Len(seen[c])
      /\ DOMAIN s = 1..Len(seen[c]) + 1 /\ Len(s) = Len(seen[c]) + 1
      /\ s[Len(seen[c]) + 1] = head
      /\ \A i \in DOMAIN seen[c] : s[i] = seen[c][i]
  BY <1>3 DEF WireTypeOK
<1>5. Between(c, n) /\ ReadUpTo(c, n)
  BY <1>1, <1>2 DEF InOrder
<1>6. Sent(c)' = Sent(c) /\ Sent(c) \in Int /\ n \in Nat /\ n <= Sent(c) /\ n <= Len(seen[c])
  <2>1. events[c] \in Nat
    BY DEF WireTypeOK
  <2>. QED
    BY <1>2, <1>4, <1>5, <2>1 DEF Sent, Between
<1>. HIDE DEF t, s
<1>7. \A k : Has(s, k) => Has(seen[c], k) \/ Has(chan[c], k)
  BY <1>3, <1>4 DEF Has
<1>8. Stages(c)'
  <2>1. \A k : Has(t, k) => Has(chan[c], k)
    BY <1>3 DEF Has
  <2>3. \A k : Told(c, k)' => Told(c, k)
    BY <1>2, <1>7, <2>1 DEF Told
  <2>4. task[c] \notin {"none", "asking"}
    BY <1>0, <1>2 DEF Stages
  <2>. QED
    BY <1>0, <1>2, <2>3, <2>4 DEF Stages
(* Whatever is left follows what was read up to any m that leaves nothing  *)
(* out.                                                                    *)
<1>9. ASSUME NEW m \in Nat, m <= Sent(c), n <= m,
             \A j \in DOMAIN t : t[j].kind = "chunk" => t[j].of > m,
             \A v \in m + 1..Sent(c) : head # Frame("chunk", v),
             m < Len(seen'[c]) => m = Sent(c)
      PROVE  Between(c, m)'
  <2>1. ASSUME NEW j \in DOMAIN t
        PROVE  /\ t[j].kind = "chunk" => t[j].of \in m + 1..Sent(c)
               /\ t[j].kind = "ping" => t[j] = Ping
    <3>1. /\ chan[c][j + 1].kind = "chunk" => chan[c][j + 1].of \in n + 1..Sent(c)
          /\ chan[c][j + 1].kind = "ping" => chan[c][j + 1] = Ping
          /\ t[j] = chan[c][j + 1]
      BY <1>3, <1>5, <2>1 DEF Between
    <3>2. t[j].kind = "chunk" => t[j].of > m
      BY <1>9, <2>1
    <3>. QED
      BY <1>6, <3>1, <3>2
  <2>2. ASSUME NEW j \in DOMAIN t, NEW k \in DOMAIN t, j < k, t[k].kind = "chunk"
        PROVE  /\ t[j].kind \notin Last
               /\ t[j].kind = "chunk" => t[j].of < t[k].of
    <3>1. /\ j + 1 \in DOMAIN chan[c] /\ k + 1 \in DOMAIN chan[c] /\ j + 1 < k + 1
          /\ t[j] = chan[c][j + 1] /\ t[k] = chan[c][k + 1]
      BY <1>3, <2>2
    <3>. QED
      BY <1>5, <2>2, <3>1 DEF Between
  <2>3. ASSUME NEW v \in m + 1..Sent(c)
        PROVE  \E j \in DOMAIN t : t[j] = Frame("chunk", v)
    <3>1. v \in n + 1..Sent(c)
      BY <1>6, <1>9
    <3>2. PICK j \in DOMAIN chan[c] : chan[c][j] = Frame("chunk", v)
      BY <1>5, <3>1 DEF Between
    <3>3. j # 1
      BY <1>9, <3>2
    <3>. QED
      BY <1>3, <3>2, <3>3
  <2>. QED
    BY <1>2, <1>6, <1>9, <2>1, <2>2, <2>3 DEF Between
<1>10. Ping.kind = "ping" /\ \A v : Frame("chunk", v).kind = "chunk" /\ Frame("chunk", v).of = v
  BY DEF Ping, Frame
<1>11. \A j \in DOMAIN t : t[j].kind = "chunk" =>
         /\ t[j].of \in n + 1..Sent(c) /\ head.kind \notin Last
         /\ head.kind = "chunk" => head.of < t[j].of
  <2>. SUFFICES ASSUME NEW j \in DOMAIN t, t[j].kind = "chunk"
                PROVE  /\ t[j].of \in n + 1..Sent(c) /\ head.kind \notin Last
                       /\ head.kind = "chunk" => head.of < t[j].of
    OBVIOUS
  <2>1. j + 1 \in DOMAIN chan[c] /\ t[j] = chan[c][j + 1] /\ 1 < j + 1
    BY <1>3
  <2>. QED
    BY <1>3, <1>5, <2>1 DEF Between
<1>12. CASE head = Ping
  <2>1. Between(c, n)'
    <3>1. \A j \in DOMAIN t : t[j].kind = "chunk" => t[j].of > n
      BY <1>6, <1>11
    <3>2. \A v : head # Frame("chunk", v)
      BY <1>10, <1>12
    <3>3. n < Len(seen'[c]) => n = Sent(c)
      BY <1>2, <1>5, <1>12 DEF Between
    <3>. QED
      BY <1>6, <1>9, <3>1, <3>2, <3>3
  <2>2. InOrder(c, n)'
    BY <1>1, <1>2, <1>12, <2>1 DEF InOrder, ReadUpTo
  <2>. QED
    BY <1>1, <1>2, <1>8, <1>12, <2>2, OneMoves
<1>13. CASE head.kind = "chunk"
  <2>1. head.of \in n + 1..Sent(c)
    BY <1>3, <1>5, <1>13 DEF Between
  <2>2. n + 1 \in n + 1..Sent(c)
    BY <1>6, <2>1
  <2>3. PICK j \in DOMAIN chan[c] : chan[c][j] = Frame("chunk", n + 1)
    BY <1>5, <2>2 DEF Between
  <2>4. j = 1
    <3>1. SUFFICES ASSUME j # 1 PROVE FALSE
      OBVIOUS
    <3>2. j - 1 \in DOMAIN t /\ t[j - 1] = Frame("chunk", n + 1)
      BY <1>3, <2>3, <3>1
    <3>3. head.of < n + 1
      BY <1>10, <1>11, <1>13, <3>2
    <3>. QED
      BY <1>6, <2>1, <3>3
  <2>5. head = Frame("chunk", n + 1) /\ head # Ping /\ head.of = n + 1
    BY <1>10, <2>3, <2>4
  <2>6. n = Len(seen[c]) /\ n # Sent(c)
    BY <1>4, <1>5, <1>6, <2>1 DEF Between
  <2>7. seen'[c] = s /\ Len(seen'[c]) = n + 1
    BY <1>2, <1>4, <2>5, <2>6
  <2>8. ReadUpTo(c, n + 1)'
    <3>1. ASSUME NEW i \in DOMAIN s PROVE i <= n + 1 /\ s[i] = Frame("chunk", i)
      <4>1. CASE i = n + 1
        BY <1>4, <1>6, <2>5, <2>6, <4>1
      <4>2. CASE i # n + 1
        <5>1. i \in DOMAIN seen[c] /\ i <= n
          BY <1>4, <1>6, <2>6, <4>2
        <5>. QED
          BY <1>4, <1>5, <1>6, <5>1 DEF ReadUpTo
      <4>. QED
        BY <4>1, <4>2
    <3>. QED
      BY <2>7, <3>1 DEF ReadUpTo
  <2>9. Between(c, n + 1)'
    <3>1. ASSUME NEW i \in DOMAIN t, t[i].kind = "chunk" PROVE t[i].of > n + 1
      <4>1. t[i].of \in n + 1..Sent(c) /\ head.of < t[i].of
        BY <1>11, <1>13, <3>1
      <4>. QED
        BY <1>6, <2>5, <4>1
    <3>2. \A v \in (n + 1) + 1..Sent(c) : head # Frame("chunk", v)
      <4>. SUFFICES ASSUME NEW v \in (n + 1) + 1..Sent(c), head = Frame("chunk", v) PROVE FALSE
        OBVIOUS
      <4>1. head.of = v
        BY <1>10
      <4>. QED
        BY <1>6, <2>5, <4>1
    <3>3. n + 1 \in Nat /\ n + 1 <= Sent(c) /\ n <= n + 1 /\ ~(n + 1 < Len(seen'[c]))
      BY <1>6, <2>2, <2>7
    <3>. QED
      BY <1>9, <3>1, <3>2, <3>3
  <2>10. ~Has(seen'[c], "done")
    <3>1. \A i \in DOMAIN s : s[i].kind = "chunk"
      <4>. SUFFICES ASSUME NEW i \in DOMAIN s PROVE s[i].kind = "chunk"
        OBVIOUS
      <4>1. CASE i \in DOMAIN seen[c]
        <5>1. i <= n
          BY <1>4, <2>6, <4>1
        <5>. QED
          BY <1>4, <1>5, <1>10, <4>1, <5>1 DEF ReadUpTo
      <4>2. CASE i \notin DOMAIN seen[c]
        BY <1>4, <1>13, <4>2
      <4>. QED
        BY <4>1, <4>2
    <3>. QED
      BY <2>7, <3>1 DEF Has
  <2>11. n + 1 \in 0..Len(seen'[c])
    BY <1>6, <2>7
  <2>. QED
    BY <1>2, <1>8, <2>8, <2>9, <2>10, <2>11, OneMoves DEF InOrder
<1>14. CASE head.kind \in Last
  <2>1. \A j \in DOMAIN t : t[j].kind # "chunk"
    BY <1>11, <1>14
  <2>2. "chunk" \notin Last /\ "ping" \notin Last
    BY DEF Last
  <2>3. n = Sent(c)
    <3>1. SUFFICES ASSUME n + 1 \in n + 1..Sent(c) PROVE FALSE
      BY <1>6
    <3>2. PICK j \in DOMAIN chan[c] : chan[c][j] = Frame("chunk", n + 1)
      BY <1>5, <3>1 DEF Between
    <3>3. chan[c][j].kind = "chunk" /\ j # 1
      BY <1>10, <1>14, <2>2, <3>2
    <3>. QED
      BY <1>3, <2>1, <3>3
  <2>4. head # Ping /\ seen'[c] = s
    BY <1>2, <1>10, <1>14, <2>2
  <2>5. Between(c, n)'
    <3>1. \A v : head # Frame("chunk", v)
      BY <1>10, <1>14, <2>2
    <3>. QED
      BY <1>6, <1>9, <2>1, <2>3, <3>1
  <2>6. ReadUpTo(c, n)'
    <3>1. ASSUME NEW i \in DOMAIN s
          PROVE  IF i <= n THEN s[i] = Frame("chunk", i) ELSE s[i].kind \in Last
      <4>1. CASE i \in DOMAIN seen[c]
        BY <1>4, <1>5, <4>1 DEF ReadUpTo
      <4>2. CASE i \notin DOMAIN seen[c]
        <5>1. i = Len(seen[c]) + 1
          BY <1>4, <4>2
        <5>2. ~(i <= n)
          BY <1>4, <1>6, <5>1
        <5>. QED
          BY <1>4, <1>14, <5>1, <5>2
      <4>. QED
        BY <4>1, <4>2
    <3>. QED
      BY <2>4, <3>1 DEF ReadUpTo
  <2>7. Has(seen'[c], "done") => n = events'[c]
    <3>1. Has(s, "done") => Told(c, "done")
      BY <1>7 DEF Told
    <3>2. Told(c, "done") => Sent(c) = events[c]
      <4>1. Told(c, "done") => task[c] # "sending"
        BY <1>0 DEF Stages
      <4>. QED
        BY <4>1 DEF Sent
    <3>3. seen'[c] = s /\ events'[c] = events[c]
      BY <1>2, <2>4
    <3>. QED
      BY <2>3, <3>1, <3>2, <3>3
  <2>8. n \in 0..Len(seen'[c])
    BY <1>4, <1>6, <2>4
  <2>. QED
    BY <1>2, <1>8, <2>5, <2>6, <2>7, <2>8, OneMoves DEF InOrder
<1>15. head = Ping \/ head.kind = "chunk" \/ head.kind \in Last
  <2>1. head.kind = "ping" => head = Ping
    BY <1>3, <1>5 DEF Between
  <2>. QED
    BY <1>3, <2>1 DEF Frames, Last
<1>. QED
  BY <1>12, <1>13, <1>14, <1>15

(* Every step keeps every stream in order. *)
LEMMA NextOrderIInv == WireTypeOK /\ OrderIInv /\ [Next]_vars => OrderIInv'
<1>. SUFFICES ASSUME WireTypeOK, OrderIInv, [Next]_vars PROVE OrderIInv'
  OBVIOUS
<1>1. CASE UNCHANGED <<client, task, wire>>
  <2>1. \A d \in Calls : SamePlace(d)
    BY <1>1 DEF wire, SamePlace
  <2>2. \A d \in Calls : Stages(d)' /\ \E n \in 0..Len(seen[d]) : InOrder(d, n)'
    BY <2>1, PlaceStays DEF OrderIInv
  <2>. QED
    BY <1>1, <2>2 DEF OrderIInv, wire
<1>2. CASE UNCHANGED vars \/ Writer \/ Signal \/ DropState \/ Exit
  BY <1>1, <1>2 DEF vars, Writer, Signal, DropState, Exit
<1>3. ASSUME NEW c \in Calls, Provider(c) \/ Task(c) \/ KeepAlive(c) \/ Client(c)
      PROVE  OrderIInv'
  BY <1>3, QuietSteps, OpenOrder, DeliverOrder, SendLastOrder, ReadOrder DEF Provider, Task, Client
<1>. QED
  BY <1>2, <1>3 DEF Next

(* A client that reads [DONE] has read every chunk the provider sent, each *)
(* once and in order, and the model had said why it stopped, however full  *)
(* the channel ran, whatever keep-alives came between and whoever left     *)
(* (the task stream_chat spawns, and the body it feeds).                   *)
THEOREM DoneIsWholeTheorem == Spec => []DoneIsWhole
<1>1. OrderIInv => DoneIsWhole
  <2>. SUFFICES ASSUME OrderIInv, NEW c \in Streams, Has(seen[c], "done")
                PROVE  /\ stopped[c] # "no" /\ events[c] <= Len(seen[c])
                       /\ \A i \in DOMAIN seen[c] :
                            IF i <= events[c] THEN seen[c][i] = Frame("chunk", i)
                            ELSE seen[c][i].kind # "chunk"
    BY DEF DoneIsWhole
  <2>1. c \in Calls
    BY CompletionsAssumption
  <2>2. PICK n \in 0..Len(seen[c]) : InOrder(c, n)
    BY <2>1 DEF OrderIInv
  <2>3. Stages(c)
    BY <2>1 DEF OrderIInv
  <2>4. stopped[c] # "no" /\ n = events[c] /\ ReadUpTo(c, n)
    BY <2>2, <2>3 DEF Stages, Told, InOrder
  <2>5. n <= Len(seen[c])
    BY <2>2
  <2>. QED
    BY <2>4, <2>5 DEF ReadUpTo, Last
<1>2. IInv => WireTypeOK
  BY DEF IInv, CallsIInv
<1>. QED
  BY <1>1, <1>2, InitOrderIInv, NextOrderIInv, Invariance, PTL DEF Spec
=============================================================================
