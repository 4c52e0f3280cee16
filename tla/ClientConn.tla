------------------------------ MODULE ClientConn ------------------------------
(***************************************************************************)
(* One WebSocket connection: readPump and writePump of the ws.Handler, the *)
(* queue and Close of its room.Client, and the deadlines that keep it      *)
(* alive, between a peer that may be healthy, silent or gone, the          *)
(* broadcasts of the hub and Handler.Shutdown.                             *)
(*                                                                         *)
(* Time passes in ticks.  What is ready to run does so before the next     *)
(* tick; only a Send, a write to a peer that does not read, and the peer   *)
(* itself take time.                                                       *)
(***************************************************************************)
EXTENDS Integers, Sequences

CONSTANTS
  PongWait, PingPeriod, WriteWait,  \* Client.cfg, in ticks
  SendTime,       \* longest Send of the message service, in ticks
  ReplyWait,      \* how long the library tries to answer a close frame
  PeerDelay,      \* how long a healthy peer takes to answer a ping
  SendCap,        \* capacity of Client.send
  InboxCap,       \* most frames of the peer's own that are not read yet
  MaxFrames,      \* bound on the frames of the peer's own
  MaxBroadcasts   \* bound on the messages offered by the hub

ASSUME ConnAssumption ==
  /\ {PongWait, PingPeriod, WriteWait, SendTime, ReplyWait, PeerDelay,
      SendCap, InboxCap} \subseteq Nat \ {0}
  /\ {MaxFrames, MaxBroadcasts} \subseteq Nat

VARIABLES
  rd,       \* where ServeWS and its readPump are
  wr,       \* where the writePump is
  once,     \* progress of Client.once: cancel, then conn.Close
  sd,       \* Handler.Shutdown on this client
  queue,    \* Client.send; messages are numbered as they are offered
  offered,  \* messages offered to the queue so far
  hand,     \* the message the writePump took last and has not written
  wire,     \* history: messages written to the peer
  byeSent,  \* a close frame is written; the library refuses further writes
  inbox,    \* frames on their way to the readPump
  frames,   \* how many frames of its own the peer has sent
  peer,     \* "healthy", "silent" or "gone"
  owed,     \* the peer has a ping to answer
  left,     \* ticks left of each deadline
  ticked,   \* the ping ticker has fired
  quiet,    \* history: ticks since the peer fell silent, while it is served
  lag       \* history: ticks since the context was cancelled, until the end

peerVars == <<frames, peer, owed>>
writerVars == <<wr, hand, wire>>
queueVars == <<queue, offered>>
closeVars == <<once, sd>>
clockVars == <<ticked, quiet, lag>>
vars == <<rd, inbox, peerVars, writerVars, queueVars, closeVars, byeSent,
          left, clockVars>>

(* The longest that the readPump is busy with one frame.                   *)
FrameTime == IF SendTime >= ReplyWait THEN SendTime ELSE ReplyWait

QuietBound == PongWait + (2 * InboxCap + 1) * SendTime + FrameTime - 1
Timers == {"read", "ping", "send", "reply", "write", "pong"}

Init ==
  /\ rd = "read" /\ wr = "select" /\ once = "new" /\ sd = "no"
  /\ queue = <<>> /\ hand = <<>> /\ wire = <<>> /\ inbox = <<>>
  /\ offered = 0 /\ frames = 0
  /\ peer = "healthy"
  /\ owed = FALSE /\ ticked = FALSE /\ byeSent = FALSE
  /\ left = [k \in Timers |-> CASE k = "read" -> PongWait
                                [] k = "ping" -> PingPeriod
                                [] OTHER -> 0]
  /\ quiet = 0 /\ lag = 0

Start(k, ticks) == left' = [left EXCEPT ![k] = ticks]

Enqueue_DropsOldest(m) ==
  queue' = Append(IF Len(queue) < SendCap THEN queue ELSE Tail(queue), m)

Enqueue(m) ==
  queue' = IF Len(queue) < SendCap THEN Append(queue, m) ELSE queue

(* Somebody offers the next message; a full queue drops it.                *)
Offer == offered' = offered + 1 /\ Enqueue(offered')

-----------------------------------------------------------------------------
(* Client.Close by ServeWS, the writePump or Shutdown: once.Do lets the    *)
(* first caller cancel and close, and the others wait for it.              *)
Closers == rd = "close" \/ wr = "close" \/ sd = "close"

Cancel ==
  /\ once = "new" /\ Closers
  /\ once' = "cancelled"
  /\ UNCHANGED <<rd, inbox, peerVars, writerVars, queueVars, sd, byeSent,
                 left, clockVars>>

CloseSocket ==
  /\ once = "cancelled"
  /\ once' = "closed"
  /\ left' = [left EXCEPT !["read"] = 0, !["pong"] = 0]
  /\ owed' = FALSE
  /\ UNCHANGED <<rd, inbox, frames, peer, writerVars, queueVars, sd, byeSent,
                 clockVars>>

Shutdown ==
  /\ \/ sd = "no" /\ rd # "left" /\ sd' = "close"
     \/ sd = "close" /\ once = "closed" /\ sd' = "done"
  /\ UNCHANGED <<rd, inbox, peerVars, writerVars, queueVars, once, byeSent,
                 left, clockVars>>

-----------------------------------------------------------------------------
(* The readPump gets the next frame.  Past the deadline, and after the     *)
(* close, it may still get what its buffer holds, or fail.                 *)
Reads(kind) ==
  /\ rd = "read"
  /\ inbox # <<>> /\ Head(inbox) = kind
  /\ inbox' = Tail(inbox)

(* The pong handler sets a new deadline; no other frame does.  On a closed *)
(* connection it fails, and ReadMessage with it.                           *)
ReadPong_KeepsDeadline ==
  /\ Reads("pong")
  /\ UNCHANGED <<rd, peerVars, writerVars, queueVars, closeVars, byeSent,
                 left, clockVars>>

ReadPong ==
  /\ Reads("pong")
  /\ \/ once # "closed" /\ Start("read", PongWait) /\ UNCHANGED rd
     \/ once = "closed" /\ rd' = "close" /\ UNCHANGED left
  /\ UNCHANGED <<peerVars, writerVars, queueVars, closeVars, byeSent,
                 clockVars>>

(* A danmaku is sent while nothing else is read.  A Send that begins with  *)
(* the cancelled context fails at once.                                    *)
ReadDanmaku_ExtendsDeadline ==
  /\ Reads("danmaku")
  /\ rd' = "send"
  /\ left' = [left EXCEPT !["send"] = IF once = "new" THEN SendTime ELSE 0,
                          !["read"] = PongWait]
  /\ UNCHANGED <<peerVars, writerVars, queueVars, closeVars, byeSent,
                 clockVars>>

ReadDanmaku_Background ==
  /\ Reads("danmaku")
  /\ rd' = "send"
  /\ Start("send", SendTime)
  /\ UNCHANGED <<peerVars, writerVars, queueVars, closeVars, byeSent,
                 clockVars>>

ReadDanmaku ==
  /\ Reads("danmaku")
  /\ rd' = "send"
  /\ Start("send", IF once = "new" THEN SendTime ELSE 0)
  /\ UNCHANGED <<peerVars, writerVars, queueVars, closeVars, byeSent,
                 clockVars>>

(* A ping, an unknown type or a malformed message is answered at once.     *)
ReadRequest ==
  /\ Reads("request")
  /\ Offer
  /\ UNCHANGED <<rd, peerVars, writerVars, closeVars, byeSent, left,
                 clockVars>>

(* A close frame, or a frame above the read limit: the library answers     *)
(* with a close frame of its own before ReadMessage fails.                 *)
ReadClose ==
  /\ Reads("close")
  /\ rd' = "reply"
  /\ Start("reply", ReplyWait)
  /\ UNCHANGED <<peerVars, writerVars, queueVars, closeVars, byeSent,
                 clockVars>>

Writable == once # "closed" /\ ~byeSent /\ peer # "gone"

ReplyFailing == ~Writable \/ left["reply"] = 0

(* The answer waits for the write in progress, if there is one, and is     *)
(* given up at its deadline or when it cannot be written.                  *)
ReplyEnds ==
  /\ rd = "reply"
  /\ \/ Writable /\ byeSent' = TRUE
     \/ ReplyFailing /\ UNCHANGED byeSent
  /\ rd' = "close"
  /\ Start("reply", 0)
  /\ UNCHANGED <<inbox, peerVars, writerVars, queueVars, closeVars, clockVars>>

ReadFails ==
  /\ rd = "read"
  /\ once = "closed" \/ left["read"] = 0 \/ peer = "gone"
  /\ rd' = "close"
  /\ inbox' = <<>>
  /\ UNCHANGED <<peerVars, writerVars, queueVars, closeVars, byeSent, left,
                 clockVars>>

(* Send returns; the sender is told of an error only.                      *)
SendReturns ==
  /\ rd = "send"
  /\ rd' = "read"
  /\ Offer \/ UNCHANGED queueVars
  /\ Start("send", 0)
  /\ UNCHANGED <<inbox, peerVars, writerVars, closeVars, byeSent, clockVars>>

(* ServeWS returns from its Close and waits for the writePump.             *)
ServeEnds ==
  /\ \/ rd = "close" /\ once = "closed" /\ rd' = "wait"
     \/ rd = "wait" /\ wr = "done" /\ rd' = "left"
  /\ UNCHANGED <<inbox, peerVars, writerVars, queueVars, closeVars, byeSent,
                 left, clockVars>>

-----------------------------------------------------------------------------
(* The select of the writePump takes any case that is ready.               *)
CancelSeen == once # "new"

Select ==
  /\ wr = "select"
  /\ \/ CancelSeen /\ wr' = "bye" /\ UNCHANGED <<ticked, hand, queue>>
     \/ ticked /\ wr' = "ping" /\ ticked' = FALSE /\ UNCHANGED <<hand, queue>>
     \/ /\ queue # <<>>
        /\ wr' = "message"
        /\ hand' = <<Head(queue)>> /\ queue' = Tail(queue)
        /\ UNCHANGED ticked
  /\ Start("write", WriteWait)
  /\ UNCHANGED <<rd, inbox, peerVars, wire, offered, closeVars, byeSent,
                 quiet, lag>>

(* The frame is written; a close frame is the last one.  A second ping     *)
(* does not put off the answer to the first.                               *)
WriteOk ==
  /\ Writable
  /\ \/ /\ wr = "message"
        /\ wire' = wire \o hand /\ hand' = <<>>
        /\ wr' = "select"
        /\ Start("write", 0)
        /\ UNCHANGED <<owed, byeSent>>
     \/ /\ wr = "ping"
        /\ owed' = TRUE
        /\ left' = [left EXCEPT !["write"] = 0,
                               !["pong"] = IF owed THEN @ ELSE PeerDelay]
        /\ wr' = "select"
        /\ UNCHANGED <<hand, wire, byeSent>>
     \/ /\ wr = "bye"
        /\ byeSent' = TRUE
        /\ wr' = "close"
        /\ Start("write", 0)
        /\ UNCHANGED <<hand, wire, owed>>
  /\ UNCHANGED <<rd, inbox, frames, peer, queueVars, closeVars, clockVars>>

(* The frame is not written: the connection is closed or broken, or the    *)
(* peer has not read for WriteWait.                                        *)
WriteFails ==
  /\ wr \in {"message", "ping", "bye"}
  /\ ~Writable \/ (peer = "silent" /\ left["write"] = 0)
  /\ wr' = "close"
  /\ Start("write", 0)
  /\ UNCHANGED <<rd, inbox, peerVars, hand, wire, queueVars, closeVars,
                 byeSent, clockVars>>

(* The deferred Close, and close(done).                                    *)
WriterEnds_OnByeOnly ==
  /\ wr = "close" /\ once = "closed"
  /\ byeSent
  /\ wr' = "done"
  /\ UNCHANGED <<rd, inbox, peerVars, hand, wire, queueVars, closeVars,
                 byeSent, left, clockVars>>

WriterEnds ==
  /\ wr = "close" /\ once = "closed"
  /\ wr' = "done"
  /\ UNCHANGED <<rd, inbox, peerVars, hand, wire, queueVars, closeVars,
                 byeSent, left, clockVars>>

-----------------------------------------------------------------------------
(* The hub offers a broadcast; the client stays in its room until both     *)
(* pumps have ended.                                                       *)
Broadcast ==
  /\ rd # "left"
  /\ offered < MaxBroadcasts
  /\ Offer
  /\ UNCHANGED <<rd, inbox, peerVars, writerVars, closeVars, byeSent, left,
                 clockVars>>

(* A frame that arrives past the read deadline, or after the close, is     *)
(* never read, unless a pong that sets a new deadline is ahead of it.      *)
CanArrive ==
  /\ rd \in {"read", "send"} /\ once # "closed"
  /\ left["read"] > 0 \/ \E p \in DOMAIN inbox : inbox[p] = "pong"

(* The peer sends a frame of its own.                                      *)
PeerSends ==
  /\ peer # "gone" /\ CanArrive
  /\ frames < MaxFrames /\ Len(inbox) < InboxCap
  /\ frames' = frames + 1
  /\ \/ \E kind \in {"danmaku", "request"} :
          inbox' = Append(inbox, kind) /\ UNCHANGED peer
     \/ inbox' = Append(inbox, "close") /\ peer' = "silent"
  /\ UNCHANGED <<rd, writerVars, queueVars, closeVars, byeSent, owed, left,
                 clockVars>>

(* A healthy peer answers a ping.                                          *)
PeerPongs ==
  /\ peer = "healthy" /\ owed
  /\ owed' = FALSE
  /\ inbox' = IF CanArrive THEN Append(inbox, "pong") ELSE inbox
  /\ UNCHANGED <<rd, frames, peer, writerVars, queueVars, closeVars, byeSent,
                 left, clockVars>>

(* The peer stops answering and reading, or its connection breaks.         *)
PeerFails ==
  /\ once # "closed"
  /\ \/ peer = "healthy" /\ peer' = "silent"
     \/ peer # "gone" /\ peer' = "gone"
  /\ UNCHANGED <<rd, inbox, frames, owed, writerVars, queueVars, closeVars,
                 byeSent, left, clockVars>>

-----------------------------------------------------------------------------
Ended == rd = "left" /\ wr = "done"

ReaderReady ==
  \/ rd = "read" /\ (\/ inbox # <<>> \/ left["read"] = 0
                     \/ once = "closed" \/ peer = "gone")
  \/ rd = "send" /\ left["send"] = 0
  \/ rd = "reply" /\ ReplyFailing
  \/ rd = "close"
  \/ rd = "wait" /\ wr = "done"

WriterReady ==
  \/ wr = "select" /\ (CancelSeen \/ ticked \/ queue # <<>>)
  \/ /\ wr \in {"message", "ping", "bye"}
     /\ ~Writable \/ peer = "healthy" \/ left["write"] = 0
  \/ wr = "close"

PeerReady == peer = "healthy" /\ owed /\ left["pong"] = 0

Count(n, running, bound) == IF running /\ n <= bound THEN n + 1 ELSE n

(* A tick: every deadline comes closer and the ticker fires at its period. *)
Tick ==
  /\ ~ReaderReady /\ ~WriterReady /\ ~PeerReady
  /\ once # "cancelled" /\ sd # "close" /\ ~Ended
  /\ left' = [k \in Timers |->
       CASE k = "ping" /\ left[k] = 1 -> PingPeriod
         [] left[k] = 0 -> 0
         [] OTHER -> left[k] - 1]
  /\ ticked' = (left["ping"] = 1 \/ ticked)
  /\ quiet' = Count(quiet, peer = "silent" /\ once = "new", QuietBound)
  /\ lag' = Count(lag, once # "new", SendTime)
  /\ UNCHANGED <<rd, inbox, peerVars, writerVars, queueVars, closeVars,
                 byeSent>>

ReadPump == ReadPong \/ ReadDanmaku \/ ReadRequest \/ ReadClose \/ ReplyEnds
              \/ ReadFails \/ SendReturns \/ ServeEnds

WritePump == Select \/ WriteOk \/ WriteFails \/ WriterEnds

Close == Cancel \/ CloseSocket \/ Shutdown

Environment == Broadcast \/ PeerSends \/ PeerPongs \/ PeerFails

Next == ReadPump \/ WritePump \/ Close \/ Environment \/ Tick
          \/ (Ended /\ UNCHANGED vars)

Spec == Init /\ [][Next]_vars

(* Goroutines that can go on do so, and time passes.                       *)
Fairness ==
  /\ WF_vars(ReadPump) /\ WF_vars(WritePump)
  /\ WF_vars(Cancel) /\ WF_vars(CloseSocket)
  /\ WF_vars(Shutdown /\ sd = "close")
  /\ WF_vars(PeerPongs) /\ WF_vars(Tick)

FairSpec == Spec /\ Fairness

-----------------------------------------------------------------------------
TypeOK ==
  /\ rd \in {"read", "send", "reply", "close", "wait", "left"}
  /\ wr \in {"select", "message", "ping", "bye", "close", "done"}
  /\ once \in {"new", "cancelled", "closed"}
  /\ sd \in {"no", "close", "done"}
  /\ Len(queue) <= SendCap /\ Len(hand) <= 1
  /\ offered <= MaxBroadcasts + MaxFrames /\ frames <= MaxFrames
  /\ peer \in {"healthy", "silent", "gone"}
  /\ \A k \in Timers : left[k] \in 0..(PongWait + PingPeriod + WriteWait
                                         + SendTime + ReplyWait + PeerDelay)
  /\ {owed, ticked, byeSent} \subseteq BOOLEAN

(* What the deadlines must leave room for.  The configuration is not       *)
(* validated; its defaults leave 10 seconds.                               *)
KeepAliveMargin ==
  PingPeriod + PeerDelay + (InboxCap + 1) * SendTime < PongWait

(* A peer that answers its pings is not disconnected, however many of its  *)
(* own messages are sent before the readPump gets to the pong; only        *)
(* Shutdown ends its connection.                                           *)
HealthyPeerKept ==
  KeepAliveMargin /\ peer = "healthy" /\ once # "new" => sd # "no"

(* A peer that has stopped answering is given up within the pong deadline, *)
(* the Sends of what it had sent and the answer to its close, even if it   *)
(* keeps sending messages.                                                 *)
SilentPeerDropped == quiet <= QuietBound

(* Types, and no silent peer outlives its deadline.                        *)
ConnInv == TypeOK /\ SilentPeerDropped

(* From the cancellation on, the whole handler of the connection takes no  *)
(* longer than one Send, whatever the peer does and whichever party closed *)
(* the client: this is what Handler.Shutdown waits for.                    *)
EndsPromptly == lag <= SendTime

(* Messages reach the peer in the order in which the queue accepted them,  *)
(* the readPump's own replies included, each once, and nothing is written  *)
(* after the close; an accepted message is written unless the connection   *)
(* ends.                                                                   *)
Out == INSTANCE Outbox WITH
  Messages <- 1..(MaxBroadcasts + MaxFrames),
  Cap <- SendCap,
  accepted <- wire \o hand \o queue,
  written <- Len(wire),
  open <- once # "closed" /\ ~byeSent

ImplementsOutbox == Out!OutboxSpec

(* A client that somebody closes is served to the end, and so is one whose *)
(* peer sent a close frame, behind whatever else: both pumps return and    *)
(* ServeWS goes on to its cleanup.                                         *)
CloseArrived == \E p \in DOMAIN inbox : inbox[p] = "close"

ClosedConnectionEnds == (once # "new" \/ CloseArrived) ~> Ended
=============================================================================
