------------------------------- MODULE SendPath -------------------------------
(***************************************************************************)
(* The way of a message from the read pump of its sender to the channel of *)
(* the room and to the database, through MessageService.Send, the retries  *)
(* of the Redis client and the persistence pipeline, on a node that shuts  *)
(* down at any time.                                                       *)
(*                                                                         *)
(* The pipeline is the abstract one of WriteBehind, which Persistence      *)
(* implements; the connections and the shutdown are those of ClientConn    *)
(* and NodeLifecycle, reduced to what Send meets.                          *)
(***************************************************************************)
EXTENDS Integers, Sequences, SequencesExt, FiniteSets

CONSTANTS
  Conns,        \* connections of the node; each sends one message at a time
  MaxSends,     \* bound on the messages of a connection
  MaxMessages,  \* bound on the messages of all of them
  MaxAttempts,  \* how often the Redis client sends a command
  BatchSize     \* of the persistence worker

ASSUME SendAssumption ==
  /\ IsFiniteSet(Conns)
  /\ {MaxSends, MaxMessages, MaxAttempts, BatchSize} \subseteq Nat \ {0}

VARIABLES
  pc,         \* where the read pump of each connection is
  current,    \* number of its message
  tries,      \* PUBLISH commands sent for that message
  cancelled,  \* connections whose context is cancelled
  pending,    \* commands that Redis may still execute
  heard,      \* history: what the channel carried of each sender, in order
  acked,      \* history: messages whose Send returned no error
  main,       \* progress of the shutdown
  graceful,   \* Handler.Shutdown returned nil
  messagesPublished, persistQueued, persistDropped,  \* metrics
  lateDrops,  \* history: messages dropped because the pipeline was shut
  accepted, settled, mode,  \* the pipeline
  stored,         \* what the repository holds
  persistFailed   \* metric: batches whose save returned an error

pumpVars == <<pc, current, tries, cancelled, acked>>
redisVars == <<pending, heard>>
mainVars == <<main, graceful>>
metricVars == <<messagesPublished, persistQueued, persistDropped, lateDrops>>
storeVars == <<stored, persistFailed>>
pipeVars == <<accepted, settled, mode, stored, persistFailed>>
vars == <<pumpVars, redisVars, mainVars, metricVars, pipeVars>>

Messages == Conns \X (1..MaxSends)

Pipe == INSTANCE WriteBehind WITH Msgs <- Messages

Init ==
  /\ pc = [c \in Conns |-> "read"]
  /\ current = [c \in Conns |-> 0]
  /\ tries = [c \in Conns |-> 0]
  /\ cancelled = {} /\ pending = {} /\ acked = {}
  /\ heard = [c \in Conns |-> <<>>]
  /\ main = "serve" /\ graceful = FALSE
  /\ messagesPublished = 0 /\ persistQueued = 0 /\ persistDropped = 0
  /\ lateDrops = 0
  /\ Pipe!AbstractInit
  /\ stored = {} /\ persistFailed = 0

Go(c, place) == pc' = [pc EXCEPT ![c] = place]

-----------------------------------------------------------------------------
(* The messages read so far.                                               *)
Begun == {m \in Messages : m[2] <= current[m[1]]}

(* The read pump reads a danmaku and calls Send; invalid content, a limit  *)
(* or an error of the limiter ends it.                                     *)
Send(c) ==
  /\ pc[c] = "read"
  /\ current[c] < MaxSends /\ Cardinality(Begun) < MaxMessages
  /\ current' = [current EXCEPT ![c] = @ + 1]
  /\ tries' = [tries EXCEPT ![c] = 0]
  /\ Go(c, "publish") \/ UNCHANGED pc
  /\ UNCHANGED <<cancelled, acked, redisVars, mainVars, metricVars, pipeVars>>

(* Publish sends a command, unless the context is cancelled; the client    *)
(* library repeats a command that was not answered.                        *)
Attempt(c) ==
  /\ pc[c] = "publish" /\ c \notin cancelled
  /\ tries[c] < MaxAttempts
  /\ tries' = [tries EXCEPT ![c] = @ + 1]
  /\ pending' = pending \cup {<<c, current[c], tries'[c]>>}
  /\ Go(c, "wait")
  /\ UNCHANGED <<current, cancelled, acked, heard, mainVars, metricVars,
                 pipeVars>>

(* The answer arrives ...                                                  *)
Answer(c) ==
  /\ pc[c] = "answered"
  /\ messagesPublished' = messagesPublished + 1
  /\ Go(c, "persist")
  /\ UNCHANGED <<current, tries, cancelled, acked, redisVars, mainVars,
                 persistQueued, persistDropped, lateDrops, pipeVars>>

(* ... or is lost, or late; the command may be executed all the same.      *)
NoAnswer_CountsAsSuccess(c) ==
  /\ pc[c] \in {"wait", "answered"}
  /\ messagesPublished' = messagesPublished + 1
  /\ Go(c, "persist")
  /\ UNCHANGED <<current, tries, cancelled, acked, redisVars, mainVars,
                 persistQueued, persistDropped, lateDrops, pipeVars>>

NoAnswer(c) ==
  /\ pc[c] \in {"wait", "answered"}
  /\ Go(c, "publish")
  /\ UNCHANGED <<current, tries, cancelled, acked, redisVars, mainVars,
                 metricVars, pipeVars>>

(* Publish gives up: Send returns the error, nothing is stored.            *)
GiveUp_StoresAnyway(c) ==
  /\ pc[c] = "publish"
  /\ tries[c] = MaxAttempts \/ c \in cancelled
  /\ Go(c, "persist")
  /\ UNCHANGED <<current, tries, cancelled, acked, redisVars, mainVars,
                 metricVars, pipeVars>>

GiveUp(c) ==
  /\ pc[c] = "publish"
  /\ tries[c] = MaxAttempts \/ c \in cancelled
  /\ Go(c, "read")
  /\ UNCHANGED <<current, tries, cancelled, acked, redisVars, mainVars,
                 metricVars, pipeVars>>

(* enqueuePersistence: the pipeline takes the message, or is full, or is   *)
(* shut.  Send returns no error in any case.                               *)
Persist_FullUncounted(c) ==
  /\ pc[c] = "persist"
  /\ \/ /\ Pipe!Accept(<<c, current[c]>>)
        /\ persistQueued' = persistQueued + 1
        /\ UNCHANGED <<persistDropped, lateDrops, storeVars>>
     \/ /\ lateDrops' = lateDrops + (IF mode = "open" THEN 0 ELSE 1)
        /\ persistDropped' = persistDropped + lateDrops' - lateDrops
        /\ UNCHANGED <<persistQueued, pipeVars>>
  /\ acked' = acked \cup {<<c, current[c]>>}
  /\ Go(c, "read")
  /\ UNCHANGED <<current, tries, cancelled, redisVars, mainVars,
                 messagesPublished>>

Persist(c) ==
  /\ pc[c] = "persist"
  /\ \/ /\ Pipe!Accept(<<c, current[c]>>)
        /\ persistQueued' = persistQueued + 1
        /\ UNCHANGED <<persistDropped, lateDrops, storeVars>>
     \/ /\ persistDropped' = persistDropped + 1
        /\ lateDrops' = lateDrops + (IF mode = "open" THEN 0 ELSE 1)
        /\ UNCHANGED <<persistQueued, pipeVars>>
  /\ acked' = acked \cup {<<c, current[c]>>}
  /\ Go(c, "read")
  /\ UNCHANGED <<current, tries, cancelled, redisVars, mainVars,
                 messagesPublished>>

(* The peer leaves, or a pump fails.                                       *)
Disconnect(c) ==
  /\ c \notin cancelled
  /\ cancelled' = cancelled \cup {c}
  /\ UNCHANGED <<pc, current, tries, acked, redisVars, mainVars, metricVars,
                 pipeVars>>

(* The read pump meets the closed socket.                                  *)
PumpEnds(c) ==
  /\ pc[c] = "read" /\ c \in cancelled
  /\ Go(c, "ended")
  /\ UNCHANGED <<current, tries, cancelled, acked, redisVars, mainVars,
                 metricVars, pipeVars>>

-----------------------------------------------------------------------------
(* Redis executes a command it has received, possibly one that the client  *)
(* has given up.  A command that is lost stays pending for ever.           *)
Awaited(cmd) == LET c == cmd[1] IN
  pc[c] = "wait" /\ cmd[2] = current[c] /\ cmd[3] = tries[c]

Execute(cmd) ==
  /\ pending' = pending \ {cmd}
  /\ heard' = [heard EXCEPT ![cmd[1]] = Append(@, cmd[2])]
  /\ IF Awaited(cmd) THEN Go(cmd[1], "answered") ELSE UNCHANGED pc
  /\ UNCHANGED <<current, tries, cancelled, acked, mainVars, metricVars,
                 pipeVars>>

-----------------------------------------------------------------------------
(* main: Handler.Shutdown closes every client and returns when all of them *)
(* have ended, or at the deadline ...                                      *)
Shutdown ==
  /\ main = "serve"
  /\ main' = "waiting"
  /\ cancelled' = Conns
  /\ UNCHANGED <<pc, current, tries, acked, redisVars, graceful, metricVars,
                 pipeVars>>

AllEnded == \A c \in Conns : pc[c] = "ended"

ShutdownReturns_WithoutWait ==
  /\ main = "waiting"
  /\ main' = "service"
  /\ graceful' \in BOOLEAN
  /\ UNCHANGED <<pumpVars, redisVars, metricVars, pipeVars>>

ShutdownReturns ==
  /\ main = "waiting"
  /\ main' = "service"
  /\ graceful' \in {FALSE, AllEnded}
  /\ UNCHANGED <<pumpVars, redisVars, metricVars, pipeVars>>

(* ... then MessageService.Close shuts the pipeline and waits for it.      *)
ClosePipe ==
  /\ main = "service"
  /\ Pipe!Shut \/ Pipe!Finish
  /\ UNCHANGED <<pumpVars, redisVars, mainVars, metricVars, storeVars>>

(* The worker saves a batch: the repository takes it, or fails, or takes   *)
(* it and the answer is lost.  The batch is settled in every case.         *)
Batch == {accepted[k] : k \in (settled + 1)..settled'}

Settle ==
  /\ Pipe!Settle
  /\ \/ stored' = stored \cup Batch /\ UNCHANGED persistFailed
     \/ /\ persistFailed' = persistFailed + 1
        /\ stored' \in {stored, stored \cup Batch}
  /\ UNCHANGED <<pumpVars, redisVars, mainVars, metricVars>>

Finished ==
  /\ AllEnded /\ mode = "closed"
  /\ UNCHANGED vars

Pump(c) == Send(c) \/ Attempt(c) \/ Answer(c) \/ NoAnswer(c) \/ GiveUp(c)
             \/ Persist(c) \/ Disconnect(c) \/ PumpEnds(c)

Next ==
  \/ \E c \in Conns : Pump(c)
  \/ \E cmd \in pending : Execute(cmd)
  \/ Shutdown \/ ShutdownReturns \/ ClosePipe \/ Settle
  \/ Finished

Spec == Init /\ [][Next]_vars

-----------------------------------------------------------------------------
TypeOK ==
  /\ pc \in [Conns -> {"read", "publish", "wait", "answered", "persist",
                       "ended"}]
  /\ current \in [Conns -> 0..MaxSends]
  /\ tries \in [Conns -> 0..MaxAttempts]
  /\ cancelled \subseteq Conns
  /\ \A cmd \in pending : <<cmd[1], cmd[2]>> \in Messages
  /\ acked \subseteq Messages
  /\ main \in {"serve", "waiting", "service"}
  /\ mode \in {"open", "shut", "closed"}
  /\ settled <= Len(accepted)
  /\ stored \subseteq Messages

(* A message whose Send succeeded was carried by the channel, and a sender *)
(* is heard in the order in which it sent: the first copies of two such    *)
(* messages are in order, although retries and late commands may repeat    *)
(* either of them later.                                                   *)
FirstAt(c, i) == SelectInSeq(heard[c], LAMBDA j : j = i)

HeardInOrder ==
  \A c \in Conns : \A i, j \in 1..MaxSends :
    /\ <<c, i>> \in acked => FirstAt(c, i) # 0
    /\ {<<c, i>>, <<c, j>>} \subseteq acked /\ i < j
         => FirstAt(c, i) < FirstAt(c, j)

(* The history of a room shows only what its clients could have seen live: *)
(* what enters the pipeline was published before.                          *)
StoredWasHeard ==
  \A k \in DOMAIN accepted : FirstAt(accepted[k][1], accepted[k][2]) # 0

(* After a graceful Shutdown no Send meets a pipeline that is shut, and    *)
(* when the service is closed the repository holds every message whose     *)
(* Send succeeded, except what a metric accounts for: one message for each *)
(* drop at the full queue, and at most a batch for each failed save.  It   *)
(* holds nothing else.                                                     *)
GracefulLosesNothing ==
  graceful =>
    /\ lateDrops = 0
    /\ mode = "closed" =>
         /\ stored \subseteq acked
         /\ Cardinality(acked \ stored)
              <= persistDropped + BatchSize * persistFailed

(* The counters of Send and of the pipeline tell the same story: every     *)
(* published message is queued, dropped, or on its way to the queue.       *)
CountersAgree ==
  messagesPublished =
    persistQueued + persistDropped
      + Cardinality({c \in Conns : pc[c] = "persist"})

(* Types, and counters that agree.                                         *)
SendInv == TypeOK /\ CountersAgree
=============================================================================
