----------------------------- MODULE Persistence -----------------------------
(***************************************************************************)
(* The write-behind persistence of MessageService: Send publishes a        *)
(* message and offers it to a bounded channel, one worker collects batches *)
(* and saves them on size or on a tick, and Close stops the pipeline while *)
(* senders may still be running.                                           *)
(*                                                                         *)
(* A message is one Send; its goroutine is named after it.                 *)
(***************************************************************************)
EXTENDS Integers, Sequences, SequencesExt, FiniteSets

CONSTANTS
  Msgs,       \* the messages users send
  QueueCap,   \* capacity of persistCh
  BatchSize   \* batchSize of the worker

ASSUME PersistenceAssumption ==
  /\ IsFiniteSet(Msgs)
  /\ QueueCap \in Nat \ {0}
  /\ BatchSize \in Nat \ {0}

VARIABLES
  send,            \* how far each Send is
  queue,           \* contents of persistCh
  chClosed,        \* persistCh is closed
  persistClosed,   \* the flag persistClosed
  closePc,         \* progress of MessageService.Close
  worker,          \* where the persistence worker is
  batch,           \* the batch of the worker
  stored,          \* messages in the database
  persistQueued, persistDropped, persistFailed,   \* metrics
  enq,             \* history: messages that entered persistCh, in order
  settled          \* history: messages of flushed batches, in order

closeVars == <<chClosed, persistClosed, closePc>>
workerVars == <<worker, batch, stored, persistFailed, settled>>
vars == <<send, queue, closeVars, workerVars, persistQueued, persistDropped,
          enq>>

SendStage == {"new", "published", "checking", "offering", "queued",
              "returned", "refused"}

Init ==
  /\ send = [m \in Msgs |-> "new"]
  /\ queue = <<>> /\ batch = <<>>
  /\ chClosed = FALSE /\ persistClosed = FALSE
  /\ closePc = "open"
  /\ worker = "select"
  /\ stored = {}
  /\ persistQueued = 0 /\ persistDropped = 0 /\ persistFailed = 0
  /\ enq = <<>> /\ settled = <<>>

SetSend(m, stage) == send' = [send EXCEPT ![m] = stage]

-----------------------------------------------------------------------------
(* Send up to Publish.  Invalid content, a limit or an error of Publish    *)
(* ends the Send.                                                          *)
Publish(m) ==
  /\ send[m] = "new"
  /\ SetSend(m, "published") \/ SetSend(m, "refused")
  /\ UNCHANGED <<queue, closeVars, workerVars, persistQueued, persistDropped,
                 enq>>

(* persistMu is a RWMutex: a writer that waits keeps new readers out.      *)
Readers == {m \in Msgs : send[m] \in {"checking", "offering", "queued"}}

WriterHasMu == closePc \in {"locking", "flagged"}

(* enqueuePersistence takes the read lock ...                              *)
RLock(m) ==
  /\ send[m] = "published"
  /\ ~WriterHasMu
  /\ SetSend(m, "checking")
  /\ UNCHANGED <<queue, closeVars, workerVars, persistQueued, persistDropped,
                 enq>>

(* ... reads the flag, and counts a drop when the pipeline is closed ...   *)
CheckClosed(m) ==
  /\ send[m] = "checking"
  /\ IF persistClosed
     THEN SetSend(m, "returned") /\ persistDropped' = persistDropped + 1
     ELSE SetSend(m, "offering") /\ UNCHANGED persistDropped
  /\ UNCHANGED <<queue, closeVars, workerVars, persistQueued, enq>>

(* ... or offers the message to the channel without blocking.  On a closed *)
(* channel the offer would panic; NoSendOnClosed says that it never is.    *)
Enqueue(m) ==
  /\ send[m] = "offering"
  /\ Len(queue) < QueueCap
  /\ queue' = Append(queue, m)
  /\ enq' = Append(enq, m)
  /\ SetSend(m, "queued")
  /\ UNCHANGED <<closeVars, workerVars, persistQueued, persistDropped>>

DropFull_Uncounted(m) ==
  /\ send[m] = "offering"
  /\ Len(queue) >= QueueCap
  /\ SetSend(m, "returned")
  /\ UNCHANGED <<queue, closeVars, workerVars, persistQueued, persistDropped,
                 enq>>

DropFull(m) ==
  /\ send[m] = "offering"
  /\ Len(queue) >= QueueCap
  /\ persistDropped' = persistDropped + 1
  /\ SetSend(m, "returned")
  /\ UNCHANGED <<queue, closeVars, workerVars, persistQueued, enq>>

(* The metric of an accepted message and the read unlock.                  *)
CountQueued(m) ==
  /\ send[m] = "queued"
  /\ persistQueued' = persistQueued + 1
  /\ SetSend(m, "returned")
  /\ UNCHANGED <<queue, closeVars, workerVars, persistDropped, enq>>

-----------------------------------------------------------------------------
(* The worker takes a message and flushes a full batch ...                 *)
Recv ==
  /\ worker = "select"
  /\ queue # <<>>
  /\ batch' = Append(batch, Head(queue))
  /\ queue' = Tail(queue)
  /\ worker' = IF Len(batch') >= BatchSize THEN "flush" ELSE "select"
  /\ UNCHANGED <<send, closeVars, stored, persistFailed, settled,
                 persistQueued, persistDropped, enq>>

(* ... or the ticker fires; a flush of an empty batch does nothing ...     *)
Tick ==
  /\ worker = "select"
  /\ batch # <<>>
  /\ worker' = "flush"
  /\ UNCHANGED <<send, queue, closeVars, batch, stored, persistFailed,
                 settled, persistQueued, persistDropped, enq>>

(* ... or the channel is closed and drained: flush what is left and end.   *)
RecvClosed_WithoutFlush ==
  /\ worker = "select"
  /\ queue = <<>> /\ chClosed
  /\ worker' = "stopped"
  /\ UNCHANGED <<send, queue, closeVars, batch, stored, persistFailed,
                 settled, persistQueued, persistDropped, enq>>

RecvClosed_BreaksSelectOnly ==
  /\ worker = "select"
  /\ queue = <<>> /\ chClosed
  /\ worker' = IF batch = <<>> THEN "select" ELSE "flush"
  /\ UNCHANGED <<send, queue, closeVars, batch, stored, persistFailed,
                 settled, persistQueued, persistDropped, enq>>

RecvClosed ==
  /\ worker = "select"
  /\ queue = <<>> /\ chClosed
  /\ worker' = IF batch = <<>> THEN "stopped" ELSE "lastFlush"
  /\ UNCHANGED <<send, queue, closeVars, batch, stored, persistFailed,
                 settled, persistQueued, persistDropped, enq>>

(* SaveBatch returns within its write timeout: the transaction committed,  *)
(* or failed, or committed and the answer was lost.  The batch is emptied  *)
(* in every case.                                                          *)
Flush_KeepsBatch ==
  /\ worker \in {"flush", "lastFlush"}
  /\ \/ stored' = stored \cup ToSet(batch) /\ UNCHANGED persistFailed
     \/ stored' = stored /\ persistFailed' = persistFailed + 1
     \/ stored' = stored \cup ToSet(batch) /\ persistFailed' = persistFailed + 1
  /\ settled' = settled \o batch
  /\ batch' = IF persistFailed' = persistFailed THEN <<>> ELSE batch
  /\ worker' = IF worker = "flush" THEN "select" ELSE "stopped"
  /\ UNCHANGED <<send, queue, closeVars, persistQueued, persistDropped, enq>>

Flush ==
  /\ worker \in {"flush", "lastFlush"}
  /\ \/ stored' = stored \cup ToSet(batch) /\ UNCHANGED persistFailed
     \/ stored' = stored /\ persistFailed' = persistFailed + 1
     \/ stored' = stored \cup ToSet(batch) /\ persistFailed' = persistFailed + 1
  /\ settled' = settled \o batch
  /\ batch' = <<>>
  /\ worker' = IF worker = "flush" THEN "select" ELSE "stopped"
  /\ UNCHANGED <<send, queue, closeVars, persistQueued, persistDropped, enq>>

-----------------------------------------------------------------------------
(* Close announces itself to persistMu; it owns the lock when the readers  *)
(* of before are gone, and raises the flag.                                *)
CloseLock ==
  /\ closePc = "open"
  /\ closePc' = "locking"
  /\ UNCHANGED <<send, queue, chClosed, persistClosed, workerVars,
                 persistQueued, persistDropped, enq>>

CloseFlag_IgnoresReaders ==
  /\ closePc = "locking"
  /\ persistClosed' = TRUE
  /\ closePc' = "flagged"
  /\ UNCHANGED <<send, queue, chClosed, workerVars, persistQueued,
                 persistDropped, enq>>

CloseFlag ==
  /\ closePc = "locking"
  /\ Readers = {}
  /\ persistClosed' = TRUE
  /\ closePc' = "flagged"
  /\ UNCHANGED <<send, queue, chClosed, workerVars, persistQueued,
                 persistDropped, enq>>

(* close(persistCh) and the unlock.                                        *)
CloseChannel ==
  /\ closePc = "flagged"
  /\ chClosed' = TRUE
  /\ closePc' = "waiting"
  /\ UNCHANGED <<send, queue, persistClosed, workerVars, persistQueued,
                 persistDropped, enq>>

(* persistWorkers.Wait returns.                                            *)
CloseWait ==
  /\ closePc = "waiting"
  /\ worker = "stopped"
  /\ closePc' = "closed"
  /\ UNCHANGED <<send, queue, chClosed, persistClosed, workerVars,
                 persistQueued, persistDropped, enq>>

-----------------------------------------------------------------------------
EnqueuePersistence(m) ==
  RLock(m) \/ CheckClosed(m) \/ Enqueue(m) \/ DropFull(m)
    \/ CountQueued(m)

Worker == Recv \/ Tick \/ RecvClosed \/ Flush

Close == CloseLock \/ CloseFlag \/ CloseChannel \/ CloseWait

(* Every Send has returned and the service is closed.                      *)
Finished ==
  /\ \A m \in Msgs : send[m] \in {"returned", "refused"}
  /\ closePc = "closed"
  /\ UNCHANGED vars

Next == \/ \E m \in Msgs : Publish(m) \/ EnqueuePersistence(m)
        \/ Worker \/ Close \/ Finished

Spec == Init /\ [][Next]_vars

(* Goroutines that can go on do so, the ticker fires and SaveBatch returns *)
(* within its timeout; the operator closes the service when he likes.      *)
Fairness ==
  /\ \A m \in Msgs : WF_vars(EnqueuePersistence(m))
  /\ WF_vars(Recv) /\ WF_vars(Tick) /\ WF_vars(RecvClosed) /\ WF_vars(Flush)
  /\ WF_vars(CloseFlag) /\ WF_vars(CloseChannel) /\ WF_vars(CloseWait)

FairSpec == Spec /\ Fairness

-----------------------------------------------------------------------------
TypeOK ==
  /\ send \in [Msgs -> SendStage]
  /\ queue \in Seq(Msgs) /\ Len(queue) <= QueueCap
  /\ batch \in Seq(Msgs) /\ Len(batch) <= BatchSize
  /\ chClosed \in BOOLEAN /\ persistClosed \in BOOLEAN
  /\ closePc \in {"open", "locking", "flagged", "waiting", "closed"}
  /\ worker \in {"select", "flush", "lastFlush", "stopped"}
  /\ stored \subseteq Msgs
  /\ persistQueued \in Nat /\ persistDropped \in Nat /\ persistFailed \in Nat
  /\ enq \in Seq(Msgs) /\ settled \in Seq(Msgs)

(* No Send offers its message to a closed channel, although the flag, the  *)
(* channel and the offer are separate steps of senders and Close: the      *)
(* panic would end the process.                                            *)
NoSendOnClosed == chClosed => \A m \in Msgs : send[m] # "offering"

(* Messages reach the repository in the order in which they entered the    *)
(* channel, each once: nothing is lost, doubled or overtaken between the   *)
(* channel, the batch and the flushes, failed ones included.               *)
FifoPipeline == enq = settled \o batch \o queue

(* Both together: types, and the order of the pipeline.                    *)
PipelineInv == TypeOK /\ FifoPipeline

(* Every message whose Send succeeded and which is neither stored nor on   *)
(* its way is covered by a metric: one drop each, or a failed batch, which *)
(* accounts for at most BatchSize messages.                                *)
Lost == {m \in Msgs : send[m] = "returned"}
          \ (stored \cup ToSet(batch) \cup ToSet(queue))

NoSilentLoss ==
  Cardinality(Lost) <= persistDropped + BatchSize * persistFailed

(* Close returns, whatever the senders and the repository do.              *)
CloseReturns == (closePc = "locking") ~> (closePc = "closed")

(* The promise of the pipeline: in particular everything accepted is       *)
(* flushed at some time, without a later message to fill its batch, and    *)
(* before Close returns.                                                   *)
Pipeline == INSTANCE WriteBehind WITH
  accepted <- enq,
  settled <- Len(settled),
  mode <- CASE closePc = "closed" -> "closed"
            [] persistClosed /\ closePc # "closed" -> "shut"
            [] OTHER -> "open"

ImplementsWriteBehind == Pipeline!AbstractFairSpec
=============================================================================
