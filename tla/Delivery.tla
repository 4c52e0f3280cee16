------------------------------- MODULE Delivery -------------------------------
(***************************************************************************)
(* The way of a message from the Redis channel of a room to the clients of *)
(* one node: the consumer goroutine of every broker subscription, the      *)
(* broadcast handler of MessageService, the Hub and the send queues of the *)
(* clients, while clients come and go and subscriptions with them          *)
(* (RoomSubscriptions).                                                    *)
(*                                                                         *)
(* The messages of a channel are numbered in the order in which Redis      *)
(* publishes them; who publishes them does not matter here.  The service   *)
(* stays open: its Close is in RoomSubscriptions and NodeLifecycle.        *)
(***************************************************************************)
EXTENDS RoomSubscriptions, Sequences, SequencesExt

CONSTANTS
  MaxMessages,  \* bound on the messages published per room
  SendCap       \* capacity of Client.send

ASSUME DeliveryAssumption ==
  MaxMessages \in Nat /\ SendCap \in Nat \ {0}

VARIABLES
  published,  \* messages published so far, per room
  listeners,  \* history: to how many subscriptions Redis pushed each message
  pos,        \* last message that left the buffer of each subscription
  cut,        \* last message Redis pushes to it
  consumer,   \* what the goroutine of each subscription is doing
  member,     \* "out", "in" or "left" the hub, per client
  since,      \* history: messages published before the client joined
  out,        \* Client.send: numbers of messages
  wire,       \* messages the write pump has written
  dropped,    \* history: messages a full queue has dropped, per client
  skipped     \* history: messages a subscription never handed on

hubVars == <<member, since, out, wire, dropped>>
redisVars == <<published, listeners, cut>>
vars == <<subVars, redisVars, pos, consumer, hubVars, skipped>>

Message == 1..MaxMessages
NotListening == -1
Select == [at |-> "select", msg |-> 0, room |-> {}, count |-> 0]
Stopped == [Select EXCEPT !.at = "stopped"]

Init ==
  /\ SubInit
  /\ published = [r \in Rooms |-> 0]
  /\ listeners = [r \in Rooms |-> [i \in Message |-> 0]]
  /\ pos = [s \in Conns |-> NotListening]
  /\ cut = [s \in Conns |-> MaxMessages]
  /\ consumer = [s \in Conns |-> Stopped]
  /\ member = [c \in Conns |-> "out"]
  /\ since = [c \in Conns |-> 0]
  /\ out = [c \in Conns |-> <<>>]
  /\ wire = [c \in Conns |-> <<>>]
  /\ dropped = [c \in Conns |-> {}]
  /\ skipped = [s \in Conns |-> {}]

Members(r) == {c \in Conns : RoomOf[c] = r /\ member[c] = "in"}

-----------------------------------------------------------------------------
(* Redis.                                                                  *)

(* A node publishes a message: Redis pushes it to every connection that    *)
(* listens to the channel.                                                 *)
Listening(r) ==
  {s \in Conns : RoomOf[s] = r /\ pos[s] # NotListening
                   /\ (sub[s] = "subscribing" \/ s \in live)}

Publish(r) ==
  /\ published[r] < MaxMessages
  /\ published' = [published EXCEPT ![r] = @ + 1]
  /\ listeners' =
       [listeners EXCEPT ![r][published'[r]] = Cardinality(Listening(r))]
  /\ UNCHANGED <<subVars, pos, cut, consumer, hubVars, skipped>>

(* Redis accepts the subscription; what it publishes from now on is        *)
(* buffered for it, although Subscribe has not returned yet.               *)
Listen(s) ==
  /\ sub[s] = "subscribing"
  /\ pos[s] = NotListening
  /\ pos' = [pos EXCEPT ![s] = published[RoomOf[s]]]
  /\ UNCHANGED <<subVars, redisVars, consumer, hubVars, skipped>>

-----------------------------------------------------------------------------
(* The subscription of a room; a new one starts its consumer.              *)
AcquireRoom(c) ==
  /\ Acquire(c)
  /\ c \in live' \ live => pos[c] # NotListening
  /\ consumer' = IF c \in live' \ live THEN [consumer EXCEPT ![c] = Select]
                 ELSE consumer
  /\ pos' = IF sub'[c] = "failed" THEN [pos EXCEPT ![c] = NotListening] ELSE pos
  /\ UNCHANGED <<redisVars, hubVars, skipped>>

(* Release after Leave; from the unsubscribe on Redis pushes nothing more, *)
(* but what it has pushed stays in the buffer of the subscription.         *)
ReleaseRoom(c) ==
  /\ member[c] = "left"
  /\ Release(c)
  /\ cut' = [s \in Conns |-> IF s \in live \ live' THEN published[RoomOf[s]]
                             ELSE cut[s]]
  /\ UNCHANGED <<published, listeners, pos, consumer, hubVars, skipped>>

(* Hub.Join, by a goroutine whose Acquire has succeeded.                   *)
Join(c) ==
  /\ sub[c] = "held"
  /\ member[c] = "out"
  /\ member' = [member EXCEPT ![c] = "in"]
  /\ since' = [since EXCEPT ![c] = published[RoomOf[c]]]
  /\ UNCHANGED <<subVars, redisVars, pos, consumer, out, wire, dropped,
                 skipped>>

(* The client is closed, both pumps have ended: Hub.Leave.  What is still  *)
(* in its queue is never written.  A closed client that is still in the    *)
(* hub behaves like one that does not write: Enqueue does not look.        *)
Leave(c) ==
  /\ member[c] = "in"
  /\ member' = [member EXCEPT ![c] = "left"]
  /\ since' = [since EXCEPT ![c] = 0]
  /\ out' = [out EXCEPT ![c] = <<>>]
  /\ wire' = [wire EXCEPT ![c] = <<>>]
  /\ dropped' = [dropped EXCEPT ![c] = {}]
  /\ UNCHANGED <<subVars, redisVars, pos, consumer, skipped>>

(* The write pump takes a message from the queue and writes it.            *)
Write(c) ==
  /\ member[c] = "in"
  /\ out[c] # <<>>
  /\ wire' = [wire EXCEPT ![c] = Append(@, Head(out[c]))]
  /\ out' = [out EXCEPT ![c] = Tail(@)]
  /\ UNCHANGED <<subVars, redisVars, pos, consumer, member, since, dropped,
                 skipped>>

-----------------------------------------------------------------------------
(* The consumer goroutine.  Its select may take a buffered message even    *)
(* when stop is closed.                                                    *)
Buffered(s) ==
  pos[s] < published[RoomOf[s]] /\ pos[s] < cut[s]

(* It takes a message; the handler starts with RoomSize.                   *)
Pick(s) ==
  /\ consumer[s].at = "select"
  /\ Buffered(s)
  /\ pos' = [pos EXCEPT ![s] = @ + 1]
  /\ consumer' = [consumer EXCEPT ![s] =
       [at |-> "sized", msg |-> pos'[s],
        room |-> Members(RoomOf[s]), count |-> 0]]
  /\ UNCHANGED <<subVars, redisVars, hubVars, skipped>>

(* A payload that does not decode is skipped; a message published while    *)
(* the client library reconnects, or dropped by its full buffer, is never  *)
(* seen.                                                                   *)
Skip_EndsConsumer(s) ==
  /\ consumer[s].at = "select"
  /\ Buffered(s)
  /\ pos' = [pos EXCEPT ![s] = @ + 1]
  /\ skipped' = [skipped EXCEPT ![s] = @ \cup {pos'[s]}]
  /\ consumer' = [consumer EXCEPT ![s] = Stopped]
  /\ UNCHANGED <<subVars, redisVars, hubVars>>

Skip(s) ==
  /\ consumer[s].at = "select"
  /\ Buffered(s)
  /\ pos' = [pos EXCEPT ![s] = @ + 1]
  /\ skipped' = [skipped EXCEPT ![s] = @ \cup {pos'[s]}]
  /\ UNCHANGED <<subVars, redisVars, consumer, hubVars>>

(* BroadcastLocal offers the message to every client of the room, under    *)
(* the read lock of the hub: nobody joins or leaves meanwhile.             *)
Broadcast_StopsAtFullQueue(s) ==
  LET m == consumer[s].msg
      ready == {c \in Members(RoomOf[s]) : Len(out[c]) < SendCap}
      full  == Members(RoomOf[s]) \ ready
      served == IF full = {} THEN ready ELSE {}
  IN
  /\ consumer[s].at = "sized"
  /\ out' = [c \in Conns |-> IF c \in served THEN Append(out[c], m)
                             ELSE out[c]]
  /\ dropped' = [c \in Conns |-> IF c \in full THEN dropped[c] \cup {m}
                                 ELSE dropped[c]]
  /\ consumer' = [consumer EXCEPT ![s].at = "counted",
                                  ![s].count = Cardinality(served)]
  /\ UNCHANGED <<subVars, redisVars, pos, member, since, wire, skipped>>

Broadcast(s) ==
  LET m == consumer[s].msg
      ready == {c \in Members(RoomOf[s]) : Len(out[c]) < SendCap}
      full  == Members(RoomOf[s]) \ ready
  IN
  /\ consumer[s].at = "sized"
  /\ out' = [c \in Conns |-> IF c \in ready THEN Append(out[c], m)
                             ELSE out[c]]
  /\ dropped' = [c \in Conns |-> IF c \in full THEN dropped[c] \cup {m}
                                 ELSE dropped[c]]
  /\ consumer' = [consumer EXCEPT ![s].at = "counted",
                                  ![s].count = Cardinality(ready)]
  /\ UNCHANGED <<subVars, redisVars, pos, member, since, wire, skipped>>

(* The metrics: the drop counter grows by what RoomSize and BroadcastLocal *)
(* differ by, a negative difference adds nothing.  The counter itself      *)
(* steers nothing and is left out.                                         *)
DropsAdded(s) == Max({0, Cardinality(consumer[s].room) - consumer[s].count})

CountDrops_Retries(s) ==
  /\ consumer[s].at = "counted"
  /\ consumer' = [consumer EXCEPT ![s] =
       IF DropsAdded(s) > 0 THEN [@ EXCEPT !.at = "sized"] ELSE Select]
  /\ UNCHANGED <<subVars, redisVars, pos, hubVars, skipped>>

CountDrops(s) ==
  /\ consumer[s].at = "counted"
  /\ consumer' = [consumer EXCEPT ![s] = Select]
  /\ UNCHANGED <<subVars, redisVars, pos, hubVars, skipped>>

(* It sees that stop is closed, or that its channel is; the subscription   *)
(* is gone with its buffer.                                                *)
Forget(s) ==
  /\ consumer' = [consumer EXCEPT ![s] = Stopped]
  /\ pos' = [pos EXCEPT ![s] = NotListening]
  /\ cut' = [cut EXCEPT ![s] = MaxMessages]
  /\ skipped' = [skipped EXCEPT ![s] = {}]

Stop_WhenDrained(s) ==
  /\ consumer[s].at = "select"
  /\ s \notin live
  /\ Members(RoomOf[s]) = {}
  /\ Forget(s)
  /\ UNCHANGED <<subVars, published, listeners, hubVars>>

Stop(s) ==
  /\ consumer[s].at = "select"
  /\ s \notin live
  /\ Forget(s)
  /\ UNCHANGED <<subVars, published, listeners, hubVars>>

-----------------------------------------------------------------------------
Client(c) == AcquireRoom(c) \/ Join(c) \/ Write(c) \/ Leave(c) \/ ReleaseRoom(c)

Consumer(s) == Pick(s) \/ Skip(s) \/ Broadcast(s) \/ CountDrops(s) \/ Stop(s)

(* All clients have come and gone.                                         *)
Done ==
  /\ \A c \in Conns : sub[c] \in {"failed", "released"}
  /\ \A c \in Conns : consumer[c] = Stopped
  /\ UNCHANGED vars

Next ==
  \/ \E c \in Conns : Client(c) \/ Listen(c) \/ Consumer(c)
  \/ \E r \in Rooms : Publish(r)
  \/ Done

Spec == Init /\ [][Next]_vars

(* Goroutines that can go on do so.  Clients join and leave, and Redis     *)
(* publishes, as they like.                                                *)
Fairness ==
  \A c \in Conns :
    /\ WF_vars(Write(c)) /\ WF_vars(Pick(c)) /\ WF_vars(Broadcast(c))
    /\ WF_vars(CountDrops(c)) /\ WF_vars(Stop(c))
    /\ WF_vars(ReleaseRoom(c))

FairSpec == Spec /\ Fairness

-----------------------------------------------------------------------------
TypeOK ==
  /\ SubTypeOK
  /\ published \in [Rooms -> 0..MaxMessages]
  /\ pos \in [Conns -> NotListening..MaxMessages]
  /\ cut \in [Conns -> 0..MaxMessages]
  /\ \A s \in Conns : consumer[s].at \in {"select", "sized", "counted", "stopped"}
  /\ \A s \in live : consumer[s].at # "stopped" /\ pos[s] # NotListening
  /\ member \in [Conns -> {"out", "in", "left"}]
  /\ \A c \in Conns : Len(out[c]) <= SendCap

Received(c) == ToSet(wire[c]) \cup ToSet(out[c])

(* A joined client misses nothing: every message published since it joined *)
(* was put into its queue, or dropped there because the queue was full, or *)
(* never came out of Redis, or is still on its way through the room's      *)
(* current subscription, although earlier holders of the room and their    *)
(* subscriptions come and go.                                              *)
OnItsWay(s, i) == i > pos[s] \/ (consumer[s].at = "sized" /\ consumer[s].msg = i)

NoGap ==
  \A c \in Conns : member[c] = "in" =>
    LET s == subOf[RoomOf[c]] IN
    \A i \in (since[c] + 1)..published[RoomOf[c]] :
      i \in Received(c) \cup dropped[c] \cup skipped[s] \/ OnItsWay(s, i)

(* Duplicates come from overlapping subscriptions only: a client gets no   *)
(* more copies of a message than subscriptions of its room were listening  *)
(* when it was published, however late they hand it on.                    *)
Copies(c, i) ==
  Cardinality({k \in DOMAIN (wire[c] \o out[c]) : (wire[c] \o out[c])[k] = i})

CopiesBounded ==
  \A c \in Conns : \A i \in Message :
    Copies(c, i) <= listeners[RoomOf[c]][i]

(* Types, and no more copies than subscriptions listened.                  *)
DeliveryInv == TypeOK /\ CopiesBounded

(* A joined client gets every message, unless it leaves, its queue is full *)
(* or the message never came out of Redis.                                 *)
Delivered(c, i) ==
  \/ member[c] # "in"
  \/ i \in ToSet(wire[c]) \cup dropped[c] \cup skipped[subOf[RoomOf[c]]]

EventuallyDelivered ==
  \A c \in Conns : \A i \in Message :
    (member[c] = "in" /\ since[c] < i /\ i <= published[RoomOf[c]])
      ~> Delivered(c, i)

(* The consumer of a subscription that has ended stops.                    *)
ConsumersStop ==
  \A s \in Conns :
    (s \notin live /\ consumer[s] # Stopped) ~> (consumer[s] = Stopped)

(* What a broadcast adds to danmakux_messages_broadcast_dropped_total is   *)
(* the number of full queues it met, wrong at most by the clients that     *)
(* left (counted as drops) or joined (each may hide one) between RoomSize  *)
(* and BroadcastLocal.                                                     *)
DropsAreCounted ==
  [][\A s \in Conns : consumer[s].at = "sized" /\ consumer'[s].at = "counted" =>
       LET room == consumer[s].room
           now  == Members(RoomOf[s])
           full == {c \in now : Len(out[c]) = SendCap}
       IN
       /\ DropsAdded(s)' <= Cardinality(full \cup (room \ now))
       /\ Cardinality(full) <= DropsAdded(s)' + Cardinality(now \ room)]_vars
=============================================================================
