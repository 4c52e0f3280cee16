-------------------------- MODULE PersistenceProofs --------------------------
(***************************************************************************)
(* Proofs about Persistence, for any set of messages, any queue and any    *)
(* batch size: the order of the pipeline, no send on a closed channel, the *)
(* metrics of what is lost, and the steps of the write-behind queue.       *)
(***************************************************************************)
EXTENDS Persistence, SequenceTheorems, FiniteSetTheorems, TLAPS

(* The flag and the channel follow Close, and from the flag on no Send is  *)
(* between its check and its unlock.                                       *)
CloseInv ==
  /\ persistClosed <=> closePc \in {"flagged", "waiting", "closed"}
  /\ chClosed <=> closePc \in {"waiting", "closed"}
  /\ closePc = "closed" => worker = "stopped"
  /\ persistClosed => \A m \in Msgs : send[m] \notin {"offering", "queued"}
  /\ closePc = "flagged" => \A m \in Msgs : send[m] # "checking"

(* A worker that selects has room in its batch, one that flushes has a     *)
(* message, and the last flush comes after the last message.               *)
WorkerInv ==
  /\ worker = "select" => Len(batch) < BatchSize
  /\ worker \in {"flush", "lastFlush"} => batch # <<>>
  /\ worker = "stopped" => batch = <<>>
  /\ worker \in {"lastFlush", "stopped"} => queue = <<>> /\ chClosed

(* What has entered the channel was sent by a Send that is past its offer. *)
EnqInv == \A i \in DOMAIN enq : send[enq[i]] \in {"queued", "returned"}

PersistenceInv == PipelineInv /\ CloseInv /\ WorkerInv /\ EnqInv

-----------------------------------------------------------------------------
(* Appending to the end of a concatenation.                                *)
LEMMA AppendToConcat ==
  ASSUME NEW s \in Seq(Msgs), NEW t \in Seq(Msgs), NEW e \in Msgs
  PROVE  Append(s \o t, e) = s \o Append(t, e)
<1>1. /\ s \o t \in Seq(Msgs) /\ <<e>> \in Seq(Msgs)
      /\ Append(s \o t, e) = (s \o t) \o <<e>>
      /\ Append(t, e) = t \o <<e>>
  BY ConcatProperties, AppendIsConcat
<1> QED
  BY <1>1, ConcatAssociative

(* Moving the head of the second part to the end of the first.             *)
LEMMA MoveHead ==
  ASSUME NEW S, NEW s \in Seq(S), NEW t \in Seq(S), t # <<>>
  PROVE  s \o t = Append(s, Head(t)) \o Tail(t)
<1> DEFINE h == Append(s, Head(t))
<1>1. Head(t) \in S /\ Tail(t) \in Seq(S) /\ Len(Tail(t)) = Len(t) - 1
  BY HeadTailProperties
<1>2. h \in Seq(S) /\ Len(h) = Len(s) + 1
      /\ h[Len(s) + 1] = Head(t) /\ \A i \in 1..Len(s) : h[i] = s[i]
  BY <1>1, AppendProperties
<1>3. \A i \in 1..Len(Tail(t)) : Tail(t)[i] = t[i + 1]
  BY HeadTailProperties
<1>4. Head(t) = t[1] /\ Len(s) \in Nat /\ Len(t) \in Nat \ {0}
  BY LenProperties, EmptySeq
<1>5. /\ s \o t \in Seq(S) /\ h \o Tail(t) \in Seq(S)
      /\ Len(s \o t) = Len(s) + Len(t)
      /\ Len(h \o Tail(t)) = Len(s) + Len(t)
  BY <1>1, <1>2, <1>4, ConcatProperties
<1>6. ASSUME NEW i \in 1..(Len(s) + Len(t))
      PROVE  (s \o t)[i] = (h \o Tail(t))[i]
  <2> HIDE DEF h
  <2>1. /\ (s \o t)[i] = IF i <= Len(s) THEN s[i] ELSE t[i - Len(s)]
        /\ (h \o Tail(t))[i] = IF i <= Len(h) THEN h[i]
                               ELSE Tail(t)[i - Len(h)]
    BY <1>1, <1>2, <1>4, ConcatProperties
  <2> QED
    BY <2>1, <1>1, <1>2, <1>3, <1>4
<1> QED
  BY <1>5, <1>6, SeqEqual

-----------------------------------------------------------------------------
(* At the start the pipeline is empty and open.                            *)
LEMMA InitHolds == Init => PersistenceInv
<1> SUFFICES ASSUME Init PROVE PersistenceInv
  OBVIOUS
<1>1. TypeOK
  <2>1. send \in [Msgs -> SendStage]
    BY DEF Init, SendStage
  <2>2. /\ queue \in Seq(Msgs) /\ batch \in Seq(Msgs)
        /\ enq \in Seq(Msgs) /\ settled \in Seq(Msgs)
    BY DEF Init
  <2>3. Len(queue) <= QueueCap /\ Len(batch) <= BatchSize
    BY PersistenceAssumption DEF Init
  <2>4. /\ chClosed \in BOOLEAN /\ persistClosed \in BOOLEAN
        /\ closePc \in {"open", "locking", "flagged", "waiting", "closed"}
        /\ worker \in {"select", "flush", "lastFlush", "stopped"}
        /\ stored \subseteq Msgs
        /\ persistQueued \in Nat /\ persistDropped \in Nat
        /\ persistFailed \in Nat
    BY DEF Init
  <2> QED
    BY <2>1, <2>2, <2>3, <2>4 DEF TypeOK
<1>2. FifoPipeline
  BY DEF Init, FifoPipeline
<1>3. CloseInv /\ WorkerInv /\ EnqInv
  BY PersistenceAssumption DEF Init, CloseInv, WorkerInv, EnqInv
<1> QED
  BY <1>1, <1>2, <1>3 DEF PersistenceInv, PipelineInv

(* The steps of a Send that leave the channel alone touch neither the      *)
(* sequences nor the worker.                                               *)
LEMMA SendKeeps ==
  ASSUME PersistenceInv, NEW m \in Msgs,
         Publish(m) \/ RLock(m) \/ CheckClosed(m) \/ DropFull(m) \/ CountQueued(m)
  PROVE  PersistenceInv'
<1> USE DEF PersistenceInv, PipelineInv, SetSend, closeVars, workerVars
<1>1. /\ UNCHANGED <<queue, chClosed, persistClosed, closePc, worker, batch,
                     stored, persistFailed, settled, enq>>
      /\ \E stage \in SendStage : send' = [send EXCEPT ![m] = stage]
      /\ persistQueued' \in Nat /\ persistDropped' \in Nat
  BY DEF Publish, RLock, CheckClosed, DropFull, CountQueued, SendStage, TypeOK
<1>2. TypeOK'
  BY <1>1 DEF TypeOK
<1>3. FifoPipeline' /\ WorkerInv'
  BY <1>1 DEF FifoPipeline, WorkerInv
<1>4. CloseInv'
  BY <1>1 DEF CloseInv, TypeOK, Publish, RLock, CheckClosed, DropFull,
              CountQueued, WriterHasMu
<1>5. EnqInv'
  BY <1>1 DEF EnqInv, TypeOK, Publish, RLock, CheckClosed, DropFull, CountQueued
<1> QED
  BY <1>2, <1>3, <1>4, <1>5

(* An offer that is accepted enters the channel behind the others.         *)
LEMMA EnqueueKeeps ==
  ASSUME PersistenceInv, NEW m \in Msgs, Enqueue(m)
  PROVE  PersistenceInv'
<1> USE DEF PersistenceInv, PipelineInv, Enqueue, SetSend, closeVars, workerVars
<1>1. /\ queue' \in Seq(Msgs) /\ Len(queue') = Len(queue) + 1
      /\ enq' \in Seq(Msgs) /\ Len(enq') = Len(enq) + 1
      /\ enq'[Len(enq) + 1] = m
      /\ \A i \in 1..Len(enq) : enq'[i] = enq[i]
  BY AppendProperties DEF TypeOK
<1>2. TypeOK'
  BY <1>1, PersistenceAssumption DEF TypeOK, SendStage
<1>3. FifoPipeline'
  <2>1. settled \o batch \in Seq(Msgs) /\ queue \in Seq(Msgs)
    BY ConcatProperties DEF TypeOK
  <2>2. Append((settled \o batch) \o queue, m)
          = (settled \o batch) \o Append(queue, m)
    BY <2>1, AppendToConcat
  <2> QED
    BY <2>2 DEF FifoPipeline
<1>4. ~persistClosed /\ ~chClosed
  BY DEF CloseInv
<1>5. CloseInv'
  BY <1>4 DEF CloseInv, TypeOK
<1>6. WorkerInv'
  BY <1>4 DEF WorkerInv
<1>7. EnqInv'
  BY <1>1 DEF EnqInv, TypeOK
<1> QED
  BY <1>2, <1>3, <1>5, <1>6, <1>7

(* The worker moves the head of the channel to the end of its batch.       *)
LEMMA RecvKeeps ==
  ASSUME PersistenceInv, Recv
  PROVE  PersistenceInv'
<1> USE DEF PersistenceInv, PipelineInv, Recv, closeVars
<1>1. /\ Head(queue) \in Msgs
      /\ Tail(queue) \in Seq(Msgs) /\ Len(Tail(queue)) = Len(queue) - 1
  BY HeadTailProperties DEF TypeOK
<1>2. batch' \in Seq(Msgs) /\ Len(batch') = Len(batch) + 1 /\ batch' # <<>>
  BY <1>1, AppendProperties DEF TypeOK
<1>3. TypeOK'
  BY <1>1, <1>2, PersistenceAssumption DEF TypeOK, WorkerInv
<1>4. FifoPipeline'
  <2>1. /\ settled \in Seq(Msgs) /\ batch \in Seq(Msgs)
        /\ queue \in Seq(Msgs) /\ queue # <<>>
    BY DEF TypeOK
  <2>2. settled \o batch \in Seq(Msgs)
    BY <2>1, ConcatProperties
  <2>3. (settled \o batch) \o queue
          = Append(settled \o batch, Head(queue)) \o Tail(queue)
    BY <2>1, <2>2, MoveHead
  <2>4. Append(settled \o batch, Head(queue)) = settled \o batch'
    BY <1>1, <2>1, AppendToConcat
  <2> QED
    BY <2>3, <2>4 DEF FifoPipeline
<1>5. CloseInv' /\ EnqInv'
  BY DEF CloseInv, EnqInv, WorkerInv
<1>6. WorkerInv'
  BY <1>2, PersistenceAssumption DEF WorkerInv, TypeOK
<1> QED
  BY <1>3, <1>4, <1>5, <1>6

(* A tick, or the end of the channel, only moves the worker.               *)
LEMMA SelectKeeps ==
  ASSUME PersistenceInv, Tick \/ RecvClosed
  PROVE  PersistenceInv'
<1> USE DEF PersistenceInv, PipelineInv, Tick, RecvClosed, closeVars
<1>1. TypeOK'
  BY DEF TypeOK
<1>2. FifoPipeline' /\ EnqInv'
  BY DEF FifoPipeline, EnqInv
<1>3. CloseInv' /\ WorkerInv'
  BY DEF CloseInv, WorkerInv
<1> QED
  BY <1>1, <1>2, <1>3

(* A flush settles the batch, whatever becomes of the save.                *)
LEMMA FlushKeeps ==
  ASSUME PersistenceInv, Flush
  PROVE  PersistenceInv'
<1> USE DEF PersistenceInv, PipelineInv, Flush, closeVars
<1>1. settled' \in Seq(Msgs)
  BY ConcatProperties DEF TypeOK
<1>2. batch' \in Seq(Msgs) /\ Len(batch') = 0
  BY EmptySeq
<1>3. ToSet(batch) \subseteq Msgs
  BY DEF ToSet, TypeOK
<1>4. TypeOK'
  BY <1>1, <1>2, <1>3, PersistenceAssumption DEF TypeOK
<1>5. FifoPipeline'
  BY DEF FifoPipeline, TypeOK
<1>6. CloseInv' /\ EnqInv'
  BY DEF CloseInv, EnqInv, WorkerInv
<1>7. WorkerInv'
  BY <1>2, PersistenceAssumption DEF WorkerInv
<1> QED
  BY <1>4, <1>5, <1>6, <1>7

(* The steps of Close only move its own flags; the flag waits for the      *)
(* readers.                                                                *)
LEMMA CloseKeeps ==
  ASSUME PersistenceInv, Close
  PROVE  PersistenceInv'
<1> USE DEF PersistenceInv, PipelineInv, Close, CloseLock, CloseFlag,
            CloseChannel, CloseWait, workerVars
<1>1. TypeOK'
  BY DEF TypeOK
<1>2. FifoPipeline' /\ EnqInv' /\ WorkerInv'
  BY DEF FifoPipeline, EnqInv, WorkerInv
<1>3. CloseInv'
  BY DEF CloseInv, Readers
<1> QED
  BY <1>1, <1>2, <1>3

(* Every step preserves the invariant.                                     *)
LEMMA NextKeeps == PersistenceInv /\ [Next]_vars => PersistenceInv'
<1> SUFFICES ASSUME PersistenceInv, [Next]_vars PROVE PersistenceInv'
  OBVIOUS
<1>1. CASE UNCHANGED vars
  BY <1>1 DEF PersistenceInv, PipelineInv, TypeOK, FifoPipeline, CloseInv,
              WorkerInv, EnqInv, vars, closeVars, workerVars
<1>2. CASE \E m \in Msgs : Publish(m) \/ EnqueuePersistence(m)
  BY <1>2, SendKeeps, EnqueueKeeps DEF EnqueuePersistence
<1>3. CASE Worker
  BY <1>3, RecvKeeps, SelectKeeps, FlushKeeps DEF Worker
<1>4. CASE Close
  BY <1>4, CloseKeeps
<1> QED
  BY <1>1, <1>2, <1>3, <1>4 DEF Next, Finished

(* The inductive invariant of the pipeline: the lock discipline of Close,  *)
(* the state of the worker and the order of the messages together.         *)
THEOREM PersistenceInvHolds == Spec => []PersistenceInv
  BY InitHolds, NextKeeps, PTL DEF Spec

-----------------------------------------------------------------------------
(* Messages are flushed in the order in which they entered the channel,    *)
(* each once, whatever saves fail and whenever Close comes.                *)
THEOREM PipelineIsFifo == Spec => []PipelineInv
<1>1. PersistenceInv => PipelineInv
  BY DEF PersistenceInv
<1> QED
  BY <1>1, PersistenceInvHolds, PTL

(* The read lock around check and offer keeps every Send off the closed    *)
(* channel.                                                                *)
THEOREM NoPanicOnClose == Spec => []NoSendOnClosed
<1>1. PersistenceInv => NoSendOnClosed
  BY DEF PersistenceInv, CloseInv, NoSendOnClosed
<1> QED
  BY <1>1, PersistenceInvHolds, PTL

-----------------------------------------------------------------------------
(* A message can be lost before its Send has counted it: the batch may     *)
(* fail between the offer and the metric.  So the bound is kept for every  *)
(* message that is past its offer or its drop.                             *)
Gone == {m \in Msgs : send[m] \in {"queued", "returned"}}
          \ (stored \cup ToSet(batch) \cup ToSet(queue))

LossInv == Cardinality(Gone) <= persistDropped + BatchSize * persistFailed

(* Messages make a finite set, whatever is lost of them.                   *)
LEMMA LossFinite ==
  ASSUME NEW S, S \subseteq Msgs
  PROVE  IsFiniteSet(S) /\ Cardinality(S) \in Nat
<1>1. IsFiniteSet(S)
  BY PersistenceAssumption, FS_Subset
<1>. QED  BY <1>1, FS_CardinalityType

(* A batch stands for no more messages than it is long.                    *)
LEMMA BatchSets ==
  ASSUME NEW b \in Seq(Msgs)
  PROVE  Cardinality(ToSet(b)) <= Len(b) /\ ToSet(b) \subseteq Msgs
<1>1. DOMAIN b = 1..Len(b) /\ Len(b) \in Nat
  BY LenProperties
<1>2. ToSet(b) = {b[i] : i \in 1..Len(b)} /\ ToSet(b) \subseteq Msgs
  BY <1>1 DEF ToSet
<1>3. IsFiniteSet(1..Len(b)) /\ Cardinality(1..Len(b)) = Len(b)
  BY <1>1, FS_Interval
<1> DEFINE f == [i \in 1..Len(b) |-> b[i]]
<1>4. f \in Surjection(1..Len(b), ToSet(b))
  BY <1>2 DEF Surjection
<1>5. Cardinality(ToSet(b)) <= Cardinality(1..Len(b))
  BY <1>3, <1>4, FS_Surjection
<1>. QED  BY <1>2, <1>3, <1>5

(* Receiving moves a message from the queue to the batch.                  *)
LEMMA RecvMoves ==
  ASSUME NEW b \in Seq(Msgs), NEW q \in Seq(Msgs), q # <<>>
  PROVE  ToSet(b) \cup ToSet(q)
           \subseteq ToSet(Append(b, Head(q))) \cup ToSet(Tail(q))
<1> DEFINE a == Append(b, Head(q))
           t == Tail(q)
<1>1. /\ Len(b) \in Nat /\ Len(q) \in Nat \ {0} /\ Head(q) = q[1]
      /\ Head(q) \in Msgs /\ t \in Seq(Msgs) /\ Len(t) = Len(q) - 1
      /\ \A i \in 1..Len(t) : t[i] = q[i + 1]
  BY LenProperties, EmptySeq, HeadTailProperties
<1>2. /\ a \in Seq(Msgs) /\ Len(a) = Len(b) + 1 /\ a[Len(b) + 1] = Head(q)
      /\ \A i \in 1..Len(b) : a[i] = b[i]
  BY <1>1, AppendProperties
<1>3. /\ DOMAIN b = 1..Len(b) /\ DOMAIN q = 1..Len(q)
      /\ DOMAIN t = 1..Len(t) /\ DOMAIN a = 1..Len(a)
  BY <1>1, <1>2, LenProperties
<1>. HIDE DEF a, t
<1>4. \A k \in 1..Len(b) : k \in DOMAIN a /\ a[k] = b[k]
  BY <1>1, <1>2, <1>3
<1>5. \A k \in 1..Len(q) : \/ Len(b) + 1 \in DOMAIN a /\ a[Len(b) + 1] = q[k]
                           \/ k - 1 \in DOMAIN t /\ t[k - 1] = q[k]
  <2> TAKE k \in 1..Len(q)
  <2>1. CASE k = 1
    BY <2>1, <1>1, <1>2, <1>3
  <2>2. CASE k # 1
    BY <2>2, <1>1, <1>3
  <2>. QED  BY <2>1, <2>2
<1>6. /\ \A x \in ToSet(b) : \E k \in DOMAIN a : a[k] = x
      /\ \A x \in ToSet(q) : \/ \E k \in DOMAIN a : a[k] = x
                             \/ \E k \in DOMAIN t : t[k] = x
  BY <1>3, <1>4, <1>5 DEF ToSet
<1>7. ToSet(b) \cup ToSet(q) \subseteq ToSet(a) \cup ToSet(t)
  BY <1>6 DEF ToSet
<1>. QED  BY <1>7 DEF a, t

(* Every step keeps the bound: a drop raises one side, a failed save the   *)
(* other, and whatever else moves stays in the channel, batch or database. *)
LEMMA LossStays ==
  ASSUME PersistenceInv, LossInv, [Next]_vars
  PROVE  LossInv'
<1>0. /\ Cardinality(Gone) \in Nat /\ IsFiniteSet(Gone)
      /\ persistDropped \in Nat /\ persistFailed \in Nat /\ BatchSize \in Nat
      /\ send \in [Msgs -> SendStage] /\ batch \in Seq(Msgs) /\ queue \in Seq(Msgs)
      /\ BatchSize * persistFailed \in Nat
  BY LossFinite, PersistenceAssumption DEF Gone, PersistenceInv, PipelineInv, TypeOK
(* Enough: nobody is lost, or one message is and a drop is counted.        *)
<1>1. ASSUME Gone' \subseteq Gone, UNCHANGED <<persistDropped, persistFailed>>
      PROVE  LossInv'
  <2>1. Cardinality(Gone') <= Cardinality(Gone) /\ Cardinality(Gone') \in Nat
    BY <1>0, <1>1, FS_Subset, FS_CardinalityType
  <2>. QED  BY <1>0, <1>1, <2>1 DEF LossInv
<1>2. ASSUME NEW m \in Msgs, Gone' \subseteq Gone \cup {m},
             persistDropped' = persistDropped + 1, UNCHANGED persistFailed
      PROVE  LossInv'
  <2>1. /\ IsFiniteSet(Gone \cup {m})
        /\ Cardinality(Gone \cup {m}) <= Cardinality(Gone) + 1
        /\ Cardinality(Gone \cup {m}) \in Nat
    <3>1. IsFiniteSet(Gone \cup {m})
      BY <1>0, FS_AddElement
    <3>. QED  BY <1>0, <3>1, FS_AddElement, FS_CardinalityType
  <2>2. /\ Cardinality(Gone') <= Cardinality(Gone \cup {m})
        /\ Cardinality(Gone') \in Nat
    BY <2>1, <1>2, FS_Subset, FS_CardinalityType
  <2>. QED  BY <1>0, <1>2, <2>1, <2>2 DEF LossInv
<1>3. ASSUME NEW m \in Msgs, Publish(m) \/ RLock(m) \/ CountQueued(m)
      PROVE  LossInv'
  <2>1. /\ send[m] \in {"new", "published", "queued"}
        /\ send'[m] \in {"published", "refused", "checking"} \/ send[m] = "queued"
        /\ \A n \in Msgs \ {m} : send'[n] = send[n]
        /\ UNCHANGED <<stored, batch, queue, persistDropped, persistFailed>>
    BY <1>0, <1>3 DEF Publish, RLock, CountQueued, SetSend, workerVars
  <2>2. Gone' \subseteq Gone
    BY <2>1 DEF Gone
  <2>. QED  BY <1>1, <2>1, <2>2
<1>4. ASSUME NEW m \in Msgs, CheckClosed(m) \/ DropFull(m)  PROVE LossInv'
  <2>1. /\ \A n \in Msgs \ {m} : send'[n] = send[n]
        /\ UNCHANGED <<stored, batch, queue, persistFailed>>
        /\ \/ send'[m] = "returned" /\ persistDropped' = persistDropped + 1
           \/ send'[m] = "offering" /\ persistDropped' = persistDropped
    BY <1>0, <1>4 DEF CheckClosed, DropFull, SetSend, workerVars
  <2>2. CASE send'[m] = "returned" /\ persistDropped' = persistDropped + 1
    <3>1. Gone' \subseteq Gone \cup {m}
      BY <2>1 DEF Gone
    <3>. QED  BY <1>2, <2>1, <2>2, <3>1
  <2>3. CASE send'[m] = "offering" /\ persistDropped' = persistDropped
    <3>1. Gone' \subseteq Gone
      BY <2>1, <2>3 DEF Gone
    <3>. QED  BY <1>1, <2>1, <2>3, <3>1
  <2>. QED  BY <2>1, <2>2, <2>3
<1>5. ASSUME NEW m \in Msgs, Enqueue(m)  PROVE LossInv'
  <2>1. /\ \A n \in Msgs \ {m} : send'[n] = send[n]
        /\ UNCHANGED <<stored, batch, persistDropped, persistFailed>>
        /\ queue' = Append(queue, m)
    BY <1>0, <1>5 DEF Enqueue, SetSend, workerVars
  <2>2. ToSet(queue) \cup {m} \subseteq ToSet(queue')
    <3>1. /\ queue' \in Seq(Msgs) /\ Len(queue') = Len(queue) + 1
          /\ queue'[Len(queue) + 1] = m /\ Len(queue) \in Nat
          /\ \A i \in 1..Len(queue) : queue'[i] = queue[i]
      BY <1>0, <2>1, AppendProperties, LenProperties
    <3>2. DOMAIN queue = 1..Len(queue) /\ DOMAIN queue' = 1..(Len(queue) + 1)
      BY <1>0, <3>1, LenProperties
    <3>. QED  BY <3>1, <3>2 DEF ToSet
  <2>3. Gone' \subseteq Gone
    BY <2>1, <2>2 DEF Gone
  <2>. QED  BY <1>1, <2>1, <2>3
<1>6. CASE Recv
  <2>1. /\ UNCHANGED <<send, stored, persistDropped, persistFailed>>
        /\ queue # <<>>
        /\ batch' = Append(batch, Head(queue)) /\ queue' = Tail(queue)
    BY <1>6 DEF Recv
  <2>2. ToSet(batch) \cup ToSet(queue) \subseteq ToSet(batch') \cup ToSet(queue')
    BY <1>0, <2>1, RecvMoves
  <2>3. Gone' \subseteq Gone
    BY <2>1, <2>2 DEF Gone
  <2>. QED  BY <1>1, <2>1, <2>3
<1>7. CASE Flush
  <2>1. UNCHANGED <<send, queue, persistDropped>> /\ batch' = <<>>
    BY <1>7 DEF Flush
  <2>2. CASE stored' = stored \cup ToSet(batch)
    <3>1. Gone' \subseteq Gone
      BY <2>1, <2>2 DEF Gone
    <3>2. Cardinality(Gone') <= Cardinality(Gone) /\ Cardinality(Gone') \in Nat
      BY <1>0, <3>1, FS_Subset, FS_CardinalityType
    <3>3. persistFailed' = persistFailed \/ persistFailed' = persistFailed + 1
      BY <1>7 DEF Flush
    <3>4. BatchSize * persistFailed' >= BatchSize * persistFailed
          /\ BatchSize * persistFailed' \in Nat
      BY <1>0, <3>3
    <3>. QED  BY <1>0, <2>1, <3>2, <3>4 DEF LossInv
  <2>3. CASE stored' = stored /\ persistFailed' = persistFailed + 1
    <3>1. Gone' \subseteq Gone \cup ToSet(batch)
      BY <2>1, <2>3 DEF Gone
    <3>2. /\ Cardinality(ToSet(batch)) <= BatchSize
          /\ Cardinality(ToSet(batch)) \in Nat /\ IsFiniteSet(ToSet(batch))
      <4>1. Cardinality(ToSet(batch)) <= Len(batch) /\ ToSet(batch) \subseteq Msgs
            /\ Len(batch) \in Nat
        BY <1>0, BatchSets, LenProperties
      <4>2. IsFiniteSet(ToSet(batch)) /\ Cardinality(ToSet(batch)) \in Nat
        BY <4>1, LossFinite
      <4>3. Len(batch) <= BatchSize
        BY DEF PersistenceInv, PipelineInv, TypeOK
      <4>. QED  BY <1>0, <4>1, <4>2, <4>3
    <3>3. /\ IsFiniteSet(Gone \cup ToSet(batch))
          /\ IsFiniteSet(Gone \cap ToSet(batch))
      BY <1>0, <3>2, FS_Union, FS_Subset
    <3>4. Cardinality(Gone \cup ToSet(batch)) =
            Cardinality(Gone) + Cardinality(ToSet(batch))
              - Cardinality(Gone \cap ToSet(batch))
      BY <1>0, <3>2, FS_Union
    <3>5. /\ Cardinality(Gone') <= Cardinality(Gone \cup ToSet(batch))
          /\ Cardinality(Gone') \in Nat
          /\ Cardinality(Gone \cap ToSet(batch)) \in Nat
      BY <3>1, <3>3, FS_Subset, FS_CardinalityType
    <3>6. BatchSize * persistFailed' = BatchSize * persistFailed + BatchSize
      BY <1>0, <2>3
    <3>. QED  BY <1>0, <2>1, <3>2, <3>4, <3>5, <3>6 DEF LossInv
  <2>. QED  BY <1>7, <2>2, <2>3 DEF Flush
<1>8. ASSUME UNCHANGED <<send, stored, batch, queue, persistDropped, persistFailed>>
      PROVE  LossInv'
  BY <1>1, <1>8 DEF Gone
<1>9. ASSUME Tick \/ RecvClosed \/ Close
      PROVE  UNCHANGED <<send, stored, batch, queue, persistDropped, persistFailed>>
  BY <1>9 DEF Tick, RecvClosed, Close, CloseLock, CloseFlag, CloseChannel,
              CloseWait, workerVars
<1>10. CASE UNCHANGED vars
  BY <1>8, <1>10 DEF vars, workerVars
<1>. QED
  BY <1>3, <1>4, <1>5, <1>6, <1>7, <1>8, <1>9, <1>10
  DEF Next, EnqueuePersistence, Worker, Finished

(* No message whose Send succeeded is lost without a metric for it: one    *)
(* drop each, or a failed batch, which accounts for BatchSize of them      *)
(* (enqueuePersistence, flush).                                            *)
THEOREM LossesAreCounted == Spec => []NoSilentLoss
<1>1. Init => LossInv
  <2>. SUFFICES ASSUME Init  PROVE LossInv
    OBVIOUS
  <2>1. Gone = {}
    BY DEF Gone, Init
  <2>. QED  BY <2>1, FS_EmptySet, PersistenceAssumption DEF Init, LossInv
<1>2. PersistenceInv /\ LossInv /\ [Next]_vars => LossInv'
  BY LossStays
<1>3. PersistenceInv /\ LossInv => NoSilentLoss
  <2>. SUFFICES ASSUME PersistenceInv, LossInv  PROVE NoSilentLoss
    OBVIOUS
  <2>1. Lost \subseteq Gone /\ Gone \subseteq Msgs
    BY DEF Lost, Gone
  <2>2. /\ Cardinality(Lost) <= Cardinality(Gone)
        /\ Cardinality(Lost) \in Nat /\ Cardinality(Gone) \in Nat
    BY <2>1, LossFinite, FS_Subset, FS_CardinalityType
  <2>3. persistDropped \in Nat /\ persistFailed \in Nat /\ BatchSize \in Nat
    BY PersistenceAssumption DEF PersistenceInv, PipelineInv, TypeOK
  <2>4. BatchSize * persistFailed \in Nat
    BY <2>3
  <2>. QED  BY <2>2, <2>3, <2>4 DEF LossInv, NoSilentLoss
<1>. QED  BY <1>1, <1>2, <1>3, PersistenceInvHolds, PTL DEF Spec

-----------------------------------------------------------------------------
(* A flush settles between one and BatchSize messages, none of which is    *)
(* still to enter the channel.                                             *)
LEMMA FlushSettles ==
  ASSUME PersistenceInv, Flush
  PROVE  /\ Len(batch) \in 1..BatchSize
         /\ Len(settled') = Len(settled) + Len(batch)
         /\ Len(settled') <= Len(enq)
<1> USE DEF PersistenceInv, PipelineInv
<1>1. /\ settled \in Seq(Msgs) /\ batch \in Seq(Msgs) /\ queue \in Seq(Msgs)
      /\ batch # <<>> /\ Len(batch) <= BatchSize
  BY DEF Flush, WorkerInv, TypeOK
<1>2. Len(batch) \in 1..BatchSize
  BY <1>1, EmptySeq, PersistenceAssumption
<1>3. /\ settled \o batch \in Seq(Msgs)
      /\ Len(settled \o batch) = Len(settled) + Len(batch)
  BY <1>1, ConcatProperties
<1>4. /\ Len((settled \o batch) \o queue) = Len(settled \o batch) + Len(queue)
      /\ Len(queue) \in Nat /\ Len(settled \o batch) \in Nat
  BY <1>1, <1>3, ConcatProperties, LenProperties
<1>5. enq = (settled \o batch) \o queue /\ settled' = settled \o batch
  BY DEF FifoPipeline, Flush
<1> QED
  BY <1>2, <1>3, <1>4, <1>5

(* Every step of the pipeline is a step of the write-behind queue, or is   *)
(* invisible to it: Accept is the offer, Settle the flush, Shut the flag   *)
(* and Finish the return of Close.                                         *)
LEMMA StepsRefine ==
  ASSUME PersistenceInv, [Next]_vars
  PROVE  [Pipeline!AbstractNext]_(Pipeline!abstractVars)
<1> USE DEF PersistenceInv, PipelineInv, closeVars, workerVars
<1> DEFINE Same == UNCHANGED <<enq, settled, persistClosed, closePc>>
<1>1. ASSUME NEW m \in Msgs, Enqueue(m) PROVE Pipeline!Accept(m)
  <2>1. m \notin ToSet(enq)
    BY <1>1 DEF Enqueue, EnqInv, ToSet
  <2>2. ~persistClosed /\ closePc # "closed"
    BY <1>1 DEF Enqueue, CloseInv
  <2> QED
    BY <1>1, <2>1, <2>2 DEF Enqueue, Pipeline!Accept, Pipeline!ToSet, ToSet
<1>2. ASSUME Flush PROVE Pipeline!Settle
  BY <1>2, FlushSettles DEF Flush, Pipeline!Settle
<1>3. ASSUME CloseFlag PROVE Pipeline!Shut
  BY <1>3 DEF CloseFlag, CloseInv, Pipeline!Shut
<1>4. ASSUME CloseWait PROVE Pipeline!Finish
  <2>1. /\ batch = <<>> /\ queue = <<>> /\ persistClosed
        /\ settled \in Seq(Msgs)
    BY <1>4 DEF CloseWait, CloseInv, WorkerInv, TypeOK
  <2>2. enq = settled
    BY <2>1, ConcatEmptySeq DEF FifoPipeline
  <2> QED
    BY <1>4, <2>1, <2>2 DEF CloseWait, Pipeline!Finish
<1>5. ASSUME CloseLock \/ CloseChannel
      PROVE  UNCHANGED (Pipeline!abstractVars)
  BY <1>5 DEF CloseLock, CloseChannel, CloseInv, Pipeline!abstractVars
<1>6. ASSUME Same PROVE UNCHANGED (Pipeline!abstractVars)
  BY <1>6 DEF Pipeline!abstractVars
<1>7. ASSUME NEW m \in Msgs,
             Publish(m) \/ RLock(m) \/ CheckClosed(m) \/ DropFull(m)
               \/ CountQueued(m)
      PROVE  Same
  BY <1>7 DEF Publish, RLock, CheckClosed, DropFull, CountQueued
<1>8. ASSUME Recv \/ Tick \/ RecvClosed PROVE Same
  BY <1>8 DEF Recv, Tick, RecvClosed
<1>9. ASSUME UNCHANGED vars PROVE Same
  BY <1>9 DEF vars
<1> HIDE DEF Same
<1>10. CASE \E m \in Msgs : Publish(m) \/ EnqueuePersistence(m)
  BY <1>10, <1>1, <1>6, <1>7 DEF EnqueuePersistence, Pipeline!AbstractNext
<1>11. CASE Worker
  BY <1>11, <1>2, <1>6, <1>8 DEF Worker, Pipeline!AbstractNext
<1>12. CASE Close
  BY <1>12, <1>3, <1>4, <1>5 DEF Close, Pipeline!AbstractNext
<1> QED
  BY <1>6, <1>9, <1>10, <1>11, <1>12 DEF Next, Finished

(* The pipeline implements the safety part of the write-behind queue: what *)
(* is accepted is settled in order, once, and before Close returns.        *)
THEOREM RefinesWriteBehind == Spec => Pipeline!AbstractSpec
<1>1. Init => Pipeline!AbstractInit
  BY DEF Init, Pipeline!AbstractInit
<1>2. PersistenceInv /\ [Next]_vars
        => [Pipeline!AbstractNext]_(Pipeline!abstractVars)
  BY StepsRefine
<1> QED
  BY <1>1, <1>2, PersistenceInvHolds, PTL DEF Spec, Pipeline!AbstractSpec
=============================================================================
