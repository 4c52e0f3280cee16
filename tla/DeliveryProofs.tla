---------------------------- MODULE DeliveryProofs ----------------------------
(***************************************************************************)
(* Proofs about Delivery, for any clients, rooms, messages and capacity of *)
(* the send queues: a client that has joined misses nothing it is not told *)
(* of, duplicates come from overlapping subscriptions only, and the drop   *)
(* counter is off by no more than the clients that came or went.           *)
(***************************************************************************)
EXTENDS Delivery, RoomSubscriptionsProofs, SequenceTheorems, TLAPS

Consuming ==
  [at : {"select", "sized", "counted", "stopped"}, msg : 0..MaxMessages,
   room : SUBSET Conns, count : Nat]

(* The invariant.  Types, in full:                                         *)
DeliveryTyped ==
  /\ TypeOK
  /\ closeState = "open"
  /\ listeners \in [Rooms -> [Message -> Nat]]
  /\ consumer \in [Conns -> Consuming]
  /\ since \in [Conns -> 0..MaxMessages]
  /\ out \in [Conns -> Seq(Message)] /\ wire \in [Conns -> Seq(Message)]
  /\ dropped \in [Conns -> SUBSET Message]
  /\ skipped \in [Conns -> SUBSET Message]

(* A client in the hub holds its room.                                     *)
MemberInv == \A c \in Conns : member[c] = "in" => sub[c] = "held"

(* A subscription is never ahead of Redis.  Redis pushes everything to one *)
(* that is live, and nothing new to one that has ended; a caller that has  *)
(* not been through Subscribe has no consumer.                             *)
BufferInv ==
  \A s \in Conns :
    /\ pos[s] <= published[RoomOf[s]]
    /\ consumer[s].at = "sized" => consumer[s].msg \in 1..pos[s]
    /\ consumer[s].at # "stopped" => pos[s] # NotListening
    /\ sub[s] = "idle" => pos[s] = NotListening
    /\ sub[s] \in {"idle", "subscribing"} => consumer[s].at = "stopped"
    /\ s \in live \/ sub[s] \in {"idle", "subscribing"} => cut[s] = MaxMessages
    /\ s \notin live /\ sub[s] # "subscribing" /\ pos[s] # NotListening
         => cut[s] <= published[RoomOf[s]]

(* The subscriptions of a room that may still hand message i on.           *)
HandsOn(s, i) ==
  \/ pos[s] # NotListening /\ pos[s] < i /\ i <= cut[s]
  \/ consumer[s].at = "sized" /\ consumer[s].msg = i

ToCome(r, i) == {s \in Conns : RoomOf[s] = r /\ HandsOn(s, i)}

(* They and the copies a client has are no more than the subscriptions     *)
(* that listened when the message was published.                           *)
CopiesOf(c, i) ==
  IF i <= published[RoomOf[c]]
  THEN Copies(c, i) + Cardinality(ToCome(RoomOf[c], i)) <= listeners[RoomOf[c]][i]
  ELSE Copies(c, i) = 0

CopyInv == \A c \in Conns : \A i \in Message : CopiesOf(c, i)

DeliveryIndInv ==
  SubInv /\ DeliveryTyped /\ MemberInv /\ BufferInv /\ NoGap /\ CopyInv

-----------------------------------------------------------------------------
(* A live subscription was made by a caller that has left Acquire.         *)
LEMMA LiveWasAcquired ==
  ASSUME SubInv
  PROVE  \A s \in live : s \in Conns /\ sub[s] \in Acquired
<1>. SUFFICES ASSUME NEW s \in live  PROVE s \in Conns /\ sub[s] \in Acquired
  OBVIOUS
<1>1. s \in Conns /\ RoomOf[s] \in Rooms
  BY ConnsAssumption DEF SubInv, SubTypeOK
<1>2. CASE refs[RoomOf[s]] > 0 /\ subOf[RoomOf[s]] = s
  BY <1>1, <1>2, ConnsAssumption DEF SubInv, EntryInv
<1>3. CASE \E c \in Conns : Popper(s) = {c}
  <2>1. PICK c \in Conns : c \in Popper(s)
    BY <1>3
  <2>. QED  BY <1>1, <2>1 DEF Popper, Popping, SubInv, VictimInv
<1>. QED  BY <1>2, <1>3 DEF SubInv, LiveHasOneOwner

(* While the service is open, a holder has a live subscription of its room.*)
LEMMA HeldIsLive ==
  ASSUME SubInv, closeState = "open", NEW c \in Conns, sub[c] = "held"
  PROVE  /\ subOf[RoomOf[c]] \in live /\ subOf[RoomOf[c]] \in Conns
         /\ RoomOf[subOf[RoomOf[c]]] = RoomOf[c]
<1>1. RoomOf[c] \in Rooms /\ refs[RoomOf[c]] > 0
  BY HeldIsCounted, ConnsAssumption DEF SubInv
<1>2. subOf[RoomOf[c]] # None
  BY <1>1 DEF SubInv, EntryInv, SubTypeOK
<1>. QED  BY <1>1, <1>2 DEF SubInv, EntryInv, SubTypeOK

(* What Acquire and Release do, as far as a room's clients can tell.       *)
LEMMA AcquireDoes ==
  ASSUME SubInv, NEW c \in Conns, Acquire(c)
  PROVE  /\ closeState' = closeState /\ c \notin live
         /\ \A d \in Conns \ {c} : sub'[d] = sub[d]
         /\ \/ /\ sub[c] = "idle" /\ sub'[c] \in {"subscribing", "held"}
               /\ UNCHANGED <<live, subOf>>
            \/ /\ sub[c] = "subscribing" /\ sub'[c] = "failed"
               /\ UNCHANGED <<live, subOf>>
            \/ /\ sub[c] = "subscribing" /\ sub'[c] = "held"
               /\ live' = live \cup {c} /\ refs[RoomOf[c]] = 0
               /\ subOf' = [subOf EXCEPT ![RoomOf[c]] = c]
<1>1. sub[c] \in {"idle", "subscribing"}
  BY DEF Acquire, AcquireShared, AcquireFirst, SubscribeOk, SubscribeFail
<1>2. c \notin live
  BY <1>1, LiveWasAcquired DEF Acquired
<1>3. sub \in [Conns -> SubStage] /\ RoomOf[c] \in Rooms
  BY ConnsAssumption DEF SubInv, SubTypeOK
<1>4. sub[c] = "subscribing" => refs[RoomOf[c]] = 0
  BY DEF SubInv, LockInv
<1>5. CASE AcquireShared(c) \/ AcquireFirst(c)
  BY <1>2, <1>3, <1>5 DEF AcquireShared, AcquireFirst, SetSub
<1>6. CASE SubscribeOk(c)
  BY <1>2, <1>3, <1>4, <1>6 DEF SubscribeOk, SetSub
<1>7. CASE SubscribeFail(c)
  BY <1>2, <1>3, <1>7 DEF SubscribeFail, SetSub
<1>. QED  BY <1>5, <1>6, <1>7 DEF Acquire

(* ... a Release, one of its steps: only the last holder of a room takes   *)
(* its entry out of the map.                                               *)
LEMMA ReleaseDoes ==
  ASSUME SubInv, NEW c \in Conns, Release(c)
  PROVE  /\ closeState' = closeState
         /\ \A d \in Conns \ {c} : sub'[d] = sub[d]
         /\ sub[c] \in {"held", "popped", "unhooked"}
         /\ sub'[c] \in {"popped", "unhooked", "released"}
         /\ live' \subseteq live
         /\ \/ subOf' = subOf
            \/ /\ sub[c] = "held" /\ refs[RoomOf[c]] = 1
               /\ subOf' = [subOf EXCEPT ![RoomOf[c]] = None]
<1>1. sub \in [Conns -> SubStage]
  BY DEF SubInv, SubTypeOK
<1>2. CASE ReleaseShared(c) \/ ReleaseLast(c) \/ ReleaseMissing(c)
  BY <1>1, <1>2 DEF ReleaseShared, ReleaseLast, ReleaseMissing, SetSub
<1>3. CASE Unhook(c) \/ Unsubscribe(c)
  BY <1>1, <1>3 DEF Unhook, Unsubscribe, SetSub
<1>. QED  BY <1>2, <1>3 DEF Release

(* The steps of RoomSubscriptions are the only ones that touch its         *)
(* variables.                                                              *)
LEMMA SubStep == [Next]_vars => [SubNext]_subVars
BY DEF Next, Client, Consumer, AcquireRoom, ReleaseRoom, Join, Leave, Write,
   Listen, Publish, Pick, Skip, Broadcast, CountDrops, Stop, Done, vars, SubNext

-----------------------------------------------------------------------------
(* What a consumer remembers after its broadcast.                          *)
LEMMA CountedRecord ==
  ASSUME consumer \in [Conns -> Consuming], NEW s \in Conns, NEW n \in Nat,
         consumer' = [consumer EXCEPT ![s].at = "counted", ![s].count = n]
  PROVE  /\ consumer' \in [Conns -> Consuming]
         /\ consumer'[s].at = "counted" /\ consumer'[s].count = n
         /\ consumer'[s].room = consumer[s].room
         /\ \A t \in Conns \ {s} : consumer'[t] = consumer[t]
<1>1. /\ consumer'[s].at = "counted" /\ consumer'[s].count = n
      /\ consumer'[s].room = consumer[s].room
  BY DEF Consuming
<1>2. \A t \in Conns \ {s} : consumer'[t] = consumer[t]
  OBVIOUS
<1>3. consumer'[s] \in Consuming
  <2>1. \A k \in Consuming : [k EXCEPT !.at = "counted"] \in Consuming
    BY DEF Consuming
  <2>2. \A k \in Consuming : [k EXCEPT !.count = n] \in Consuming
    BY DEF Consuming
  <2>3. consumer'[s] = [[consumer[s] EXCEPT !.at = "counted"] EXCEPT !.count = n]
    OBVIOUS
  <2>. QED  BY <2>1, <2>2, <2>3
<1>4. consumer' \in [Conns -> Consuming]
  BY <1>2, <1>3
<1>. QED  BY <1>1, <1>2, <1>4

(* Every step preserves the types ...                                      *)
LEMMA DeliveryTypedStays ==
  ASSUME SubInv, SubInv', DeliveryTyped, BufferInv, [Next]_vars
  PROVE  DeliveryTyped'
<1>. USE DEF DeliveryTyped, TypeOK
<1>0. SubTypeOK'
  BY DEF SubInv
<1>1. ASSUME NEW r \in Rooms, Publish(r)  PROVE DeliveryTyped'
  <2>1. IsFiniteSet(Listening(r))
    BY ConnsAssumption, FS_Subset DEF Listening
  <2>2. Cardinality(Listening(r)) \in Nat
    BY <2>1, FS_CardinalityType
  <2>3. published' \in [Rooms -> 0..MaxMessages] /\ published'[r] \in Message
    BY <1>1, DeliveryAssumption DEF Publish, Message
  <2>4. listeners' \in [Rooms -> [Message -> Nat]]
    BY <1>1, <2>2, <2>3 DEF Publish
  <2>. QED  BY <1>0, <1>1, <2>3, <2>4 DEF Publish, subVars, hubVars
<1>2. ASSUME NEW s \in Conns, Listen(s)  PROVE DeliveryTyped'
  <2>1. RoomOf[s] \in Rooms
    BY ConnsAssumption
  <2>2. /\ pos' \in [Conns -> NotListening..MaxMessages]
        /\ \A t \in live : pos'[t] # NotListening
    BY <1>2, <2>1, DeliveryAssumption DEF Listen, NotListening
  <2>. QED  BY <1>0, <1>2, <2>2 DEF Listen, subVars, redisVars, hubVars
<1>3. ASSUME NEW c \in Conns, AcquireRoom(c)  PROVE DeliveryTyped'
  <2>1. Acquire(c) /\ closeState' = "open"
    BY <1>3, AcquireDoes DEF AcquireRoom
  <2>2. Select \in Consuming /\ Select.at = "select"
    BY DeliveryAssumption DEF Select, Consuming
  <2>3. consumer' \in [Conns -> Consuming]
    BY <1>3, <2>2 DEF AcquireRoom
  <2>4. pos' \in [Conns -> NotListening..MaxMessages]
    BY <1>3, DeliveryAssumption DEF AcquireRoom, NotListening
  <2>5. ASSUME NEW s \in live'
        PROVE  consumer'[s].at # "stopped" /\ pos'[s] # NotListening
    <3>1. s \in Conns
      BY <1>0 DEF SubTypeOK
    <3>2. CASE s = c
      <4>1. c \in live' \ live /\ sub'[c] # "failed"
        BY <2>1, <2>5, <3>2, AcquireDoes
      <4>. QED  BY <1>3, <2>2, <3>2, <4>1 DEF AcquireRoom
    <3>3. CASE s # c
      <4>1. s \in live
        <5>1. live' = live \/ live' = live \cup {c}
          BY <2>1, AcquireDoes
        <5>. QED  BY <5>1, <2>5, <3>3
      <4>2. consumer'[s] = consumer[s] /\ pos'[s] = pos[s]
        BY <1>3, <3>1, <3>3 DEF AcquireRoom
      <4>. QED  BY <4>1, <4>2
    <3>. QED  BY <3>2, <3>3
  <2>6. \A s \in Conns :
         consumer'[s].at \in {"select", "sized", "counted", "stopped"}
    BY <2>3 DEF Consuming
  <2>7. UNCHANGED <<redisVars, hubVars, skipped>>
    BY <1>3 DEF AcquireRoom
  <2>. QED  BY <1>0, <2>1, <2>3, <2>4, <2>5, <2>6, <2>7 DEF redisVars, hubVars
<1>4. ASSUME NEW c \in Conns, ReleaseRoom(c)  PROVE DeliveryTyped'
  <2>1. closeState' = "open" /\ live' \subseteq live
    BY <1>4, ReleaseDoes DEF ReleaseRoom
  <2>2. cut' \in [Conns -> 0..MaxMessages]
    BY <1>4, ConnsAssumption DEF ReleaseRoom
  <2>. QED  BY <1>0, <1>4, <2>1, <2>2 DEF ReleaseRoom, hubVars
<1>5. ASSUME NEW c \in Conns, Join(c)  PROVE DeliveryTyped'
  <2>1. since' \in [Conns -> 0..MaxMessages]
    BY <1>5, ConnsAssumption DEF Join
  <2>. QED  BY <1>0, <1>5, <2>1 DEF Join, subVars, redisVars
<1>6. ASSUME NEW c \in Conns, Leave(c)  PROVE DeliveryTyped'
  <2>1. /\ since' \in [Conns -> 0..MaxMessages]
        /\ dropped' \in [Conns -> SUBSET Message]
        /\ out' \in [Conns -> Seq(Message)] /\ wire' \in [Conns -> Seq(Message)]
    BY <1>6, DeliveryAssumption DEF Leave
  <2>2. \A d \in Conns : Len(out'[d]) <= SendCap
    BY <1>6, DeliveryAssumption DEF Leave
  <2>. QED  BY <1>0, <1>6, <2>1, <2>2 DEF Leave, subVars, redisVars
<1>7. ASSUME NEW c \in Conns, Write(c)  PROVE DeliveryTyped'
  <2>1. out[c] \in Seq(Message) /\ out[c] # <<>> /\ wire[c] \in Seq(Message)
    BY <1>7 DEF Write
  <2>2. /\ Head(out[c]) \in Message /\ Tail(out[c]) \in Seq(Message)
        /\ Len(Tail(out[c])) = Len(out[c]) - 1 /\ Len(out[c]) \in Nat
    BY <2>1, HeadTailProperties, LenProperties
  <2>3. Append(wire[c], Head(out[c])) \in Seq(Message)
    BY <2>1, <2>2, AppendProperties
  <2>4. out' \in [Conns -> Seq(Message)] /\ wire' \in [Conns -> Seq(Message)]
    BY <1>7, <2>2, <2>3 DEF Write
  <2>5. \A d \in Conns : Len(out'[d]) <= SendCap
    BY <1>7, <2>2, DeliveryAssumption DEF Write
  <2>. QED  BY <1>0, <1>7, <2>4, <2>5 DEF Write, subVars, redisVars
<1>8. ASSUME NEW s \in Conns, Pick(s)  PROVE DeliveryTyped'
  <2>1. pos[s] + 1 \in 0..MaxMessages
    BY <1>8, ConnsAssumption, DeliveryAssumption DEF Pick, Buffered, NotListening
  <2>2. pos' \in [Conns -> NotListening..MaxMessages] /\ pos'[s] \in 0..MaxMessages
        /\ \A t \in live : pos'[t] # NotListening
    BY <1>8, <2>1 DEF Pick, NotListening
  <2>3. Members(RoomOf[s]) \in SUBSET Conns
    BY DEF Members
  <2> DEFINE k == [at |-> "sized", msg |-> pos'[s], room |-> Members(RoomOf[s]),
                   count |-> 0]
  <2>4. k \in Consuming /\ k.at = "sized"
    BY <2>2, <2>3 DEF Consuming
  <2>5. consumer' = [consumer EXCEPT ![s] = k]
    BY <1>8 DEF Pick
  <2>. HIDE DEF k
  <2>6. consumer' \in [Conns -> Consuming]
        /\ \A t \in live : consumer'[t].at # "stopped"
    BY <2>4, <2>5
  <2>7. \A t \in Conns :
         consumer'[t].at \in {"select", "sized", "counted", "stopped"}
    BY <2>6 DEF Consuming
  <2>. QED  BY <1>0, <1>8, <2>2, <2>6, <2>7 DEF Pick, subVars, redisVars, hubVars
<1>9. ASSUME NEW s \in Conns, Skip(s)  PROVE DeliveryTyped'
  <2>1. pos[s] + 1 \in Message
    <3>1. consumer[s].at = "select" /\ pos[s] < published[RoomOf[s]]
      BY <1>9 DEF Skip, Buffered
    <3>2. pos[s] \in 0..MaxMessages /\ published[RoomOf[s]] \in 0..MaxMessages
      BY <3>1, ConnsAssumption DEF BufferInv, NotListening
    <3>. QED  BY <3>1, <3>2, DeliveryAssumption DEF Message
  <2>2. /\ pos' \in [Conns -> NotListening..MaxMessages]
        /\ \A t \in live : pos'[t] # NotListening
        /\ pos'[s] = pos[s] + 1
    BY <1>9, <2>1 DEF Skip, NotListening, Message
  <2>3. skipped' \in [Conns -> SUBSET Message]
    BY <1>9, <2>1, <2>2 DEF Skip
  <2>. QED
    BY <1>0, <1>9, <2>2, <2>3 DEF Skip, subVars, redisVars, hubVars
<1>10. ASSUME NEW s \in Conns, Broadcast(s)  PROVE DeliveryTyped'
  <2> DEFINE m == consumer[s].msg
             ready == {c \in Members(RoomOf[s]) : Len(out[c]) < SendCap}
  <2>1. m \in Message
    <3>1. consumer[s].at = "sized"
      BY <1>10 DEF Broadcast
    <3>. QED  BY <3>1, DeliveryAssumption DEF BufferInv, Message, NotListening
  <2>2. ready \subseteq Conns
    BY DEF Members
  <2>3. Cardinality(ready) \in Nat
    BY <2>2, ConnsAssumption, FS_Subset, FS_CardinalityType
  <2>4. out' = [c \in Conns |-> IF c \in ready THEN Append(out[c], m) ELSE out[c]]
    BY <1>10 DEF Broadcast
  <2>5. consumer' = [consumer EXCEPT ![s].at = "counted",
                                     ![s].count = Cardinality(ready)]
    BY <1>10 DEF Broadcast
  <2>6. dropped' \in [Conns -> SUBSET Message]
    BY <1>10, <2>1 DEF Broadcast
  <2>7. \A c \in ready : Len(out[c]) < SendCap
    OBVIOUS
  <2>. HIDE DEF m, ready
  <2>8. ASSUME NEW c \in Conns
        PROVE  out'[c] \in Seq(Message) /\ Len(out'[c]) <= SendCap
    <3>1. out[c] \in Seq(Message) /\ Len(out[c]) \in Nat /\ Len(out[c]) <= SendCap
      BY LenProperties
    <3>2. Append(out[c], m) \in Seq(Message)
          /\ Len(Append(out[c], m)) = Len(out[c]) + 1
      BY <2>1, <3>1, AppendProperties
    <3>. QED  BY <2>4, <2>7, <3>1, <3>2, DeliveryAssumption
  <2>9. out' \in [Conns -> Seq(Message)]
    BY <2>4, <2>8
  <2>10. consumer' \in [Conns -> Consuming]
         /\ \A t \in live : consumer'[t].at # "stopped"
    <3>1. /\ consumer' \in [Conns -> Consuming] /\ consumer'[s].at = "counted"
          /\ \A t \in Conns \ {s} : consumer'[t] = consumer[t]
      BY <2>3, <2>5, CountedRecord
    <3>. QED  BY <3>1, <1>0 DEF SubTypeOK
  <2>11. \A t \in Conns :
         consumer'[t].at \in {"select", "sized", "counted", "stopped"}
    BY <2>10 DEF Consuming
  <2>. QED
    BY <1>0, <1>10, <2>6, <2>8, <2>9, <2>10, <2>11 DEF Broadcast, subVars, redisVars
<1>11. ASSUME NEW s \in Conns, CountDrops(s)  PROVE DeliveryTyped'
  <2>1. Select \in Consuming /\ Select.at = "select"
    BY DeliveryAssumption DEF Select, Consuming
  <2>. QED  BY <1>0, <1>11, <2>1 DEF CountDrops, subVars, redisVars, hubVars
<1>12. ASSUME NEW s \in Conns, Stop(s)  PROVE DeliveryTyped'
  <2>1. Stopped \in Consuming /\ Stopped.at = "stopped"
    <3>1. Select \in Consuming
      BY DeliveryAssumption DEF Select, Consuming
    <3>. QED  BY <3>1 DEF Stopped, Consuming
  <2>. QED  BY <1>0, <1>12, <2>1, DeliveryAssumption
            DEF Stop, Forget, subVars, hubVars, NotListening
<1>13. CASE UNCHANGED vars
  BY <1>0, <1>13 DEF vars, subVars, redisVars, hubVars
<1>. QED
  BY <1>1, <1>2, <1>3, <1>4, <1>5, <1>6, <1>7, <1>8, <1>9, <1>10, <1>11,
     <1>12, <1>13 DEF Next, Client, Consumer, Done

(* ... who is in the hub ...                                               *)
LEMMA MemberStays ==
  ASSUME SubInv, DeliveryTyped, MemberInv, [Next]_vars
  PROVE  MemberInv'
<1>. USE DEF MemberInv
<1>1. ASSUME NEW c \in Conns, AcquireRoom(c)  PROVE MemberInv'
  <2>1. sub[c] # "held" /\ \A d \in Conns \ {c} : sub'[d] = sub[d]
    BY <1>1, AcquireDoes DEF AcquireRoom
  <2>. QED  BY <1>1, <2>1 DEF AcquireRoom, hubVars
<1>2. ASSUME NEW c \in Conns, ReleaseRoom(c)  PROVE MemberInv'
  <2>1. \A d \in Conns \ {c} : sub'[d] = sub[d]
    BY <1>2, ReleaseDoes DEF ReleaseRoom
  <2>. QED  BY <1>2, <2>1 DEF ReleaseRoom, hubVars
<1>3. ASSUME NEW c \in Conns, Join(c) \/ Leave(c) \/ Write(c)  PROVE MemberInv'
  BY <1>3 DEF Join, Leave, Write, subVars, DeliveryTyped, TypeOK
<1>4. ASSUME UNCHANGED <<subVars, member>>  PROVE MemberInv'
  BY <1>4 DEF subVars
<1>5. ASSUME NEW c \in Conns, Listen(c) \/ Consumer(c)
      PROVE  UNCHANGED <<subVars, member>>
  BY <1>5 DEF Listen, Consumer, Pick, Skip, Broadcast, CountDrops, Stop, hubVars
<1>6. ASSUME NEW r \in Rooms, Publish(r)  PROVE UNCHANGED <<subVars, member>>
  BY <1>6 DEF Publish, hubVars
<1>7. CASE UNCHANGED vars
  BY <1>4, <1>7 DEF vars, hubVars
<1>. QED
  BY <1>1, <1>2, <1>3, <1>4, <1>5, <1>6, <1>7 DEF Next, Client, Done

(* ... what Redis has pushed to the subscriptions ...                      *)
LEMMA BufferStays ==
  ASSUME SubInv, DeliveryTyped, BufferInv, [Next]_vars
  PROVE  BufferInv'
<1>. USE DEF BufferInv
<1>0. /\ \A s \in Conns : /\ RoomOf[s] \in Rooms /\ pos[s] \in Int
                         /\ published[RoomOf[s]] \in Int
      /\ published \in [Rooms -> Int]
      /\ pos \in [Conns -> Int] /\ cut \in [Conns -> 0..MaxMessages]
      /\ consumer \in [Conns -> Consuming]
  BY ConnsAssumption, DeliveryAssumption DEF DeliveryTyped, TypeOK, NotListening
<1>1. ASSUME NEW r \in Rooms, Publish(r)  PROVE BufferInv'
  <2>1. /\ \A q \in Rooms : published'[q] >= published[q] /\ published'[q] \in Int
        /\ UNCHANGED <<subVars, pos, cut, consumer>>
    BY <1>0, <1>1 DEF Publish
  <2>. QED  BY <1>0, <2>1 DEF subVars
<1>2. ASSUME NEW s \in Conns, Listen(s)  PROVE BufferInv'
  <2>1. /\ pos' = [pos EXCEPT ![s] = published[RoomOf[s]]]
        /\ UNCHANGED <<sub, live, published, cut, consumer>>
        /\ sub[s] = "subscribing"
    BY <1>2 DEF Listen, subVars, redisVars
  <2>2. published[RoomOf[s]] # NotListening
    BY <1>0 DEF DeliveryTyped, TypeOK, NotListening
  <2>. QED  BY <1>0, <2>1, <2>2
<1>3. ASSUME NEW c \in Conns, AcquireRoom(c)  PROVE BufferInv'
  <2>1. Acquire(c) /\ UNCHANGED <<published, cut>>
    BY <1>3 DEF AcquireRoom, redisVars
  <2>2. /\ c \notin live /\ \A d \in Conns \ {c} : sub'[d] = sub[d]
        /\ live' = live \/ live' = live \cup {c}
    BY <2>1, AcquireDoes
  <2>3. \A d \in Conns \ {c} : /\ consumer'[d] = consumer[d] /\ pos'[d] = pos[d]
                               /\ d \in live' <=> d \in live
    BY <1>3, <1>0, <2>2 DEF AcquireRoom
  <2>4. Select.at = "select"
    BY DEF Select
  <2>5. NotListening <= published[RoomOf[c]]
    BY <1>0 DEF DeliveryTyped, TypeOK, NotListening
  <2>6. CASE sub[c] = "idle" /\ sub'[c] \in {"subscribing", "held"} /\ live' = live
    <3>1. consumer' = consumer /\ pos' = pos
      BY <1>3, <2>6 DEF AcquireRoom
    <3>. QED  BY <2>1, <2>2, <2>6, <3>1
  <2>7. CASE sub[c] = "subscribing" /\ sub'[c] = "failed" /\ live' = live
    <3>1. consumer' = consumer /\ pos'[c] = NotListening
      BY <1>3, <1>0, <2>7 DEF AcquireRoom
    <3>. QED  BY <2>1, <2>2, <2>3, <2>5, <2>7, <3>1
  <2>8. CASE sub[c] = "subscribing" /\ sub'[c] = "held" /\ live' = live \cup {c}
    <3>1. consumer'[c] = Select /\ pos' = pos /\ pos[c] # NotListening
      BY <1>3, <1>0, <2>2, <2>8 DEF AcquireRoom
    <3>. QED  BY <2>1, <2>2, <2>3, <2>4, <2>8, <3>1
  <2>. QED  BY <2>1, <2>6, <2>7, <2>8, AcquireDoes
<1>4. ASSUME NEW c \in Conns, ReleaseRoom(c)  PROVE BufferInv'
  <2>1. /\ Release(c) /\ UNCHANGED <<published, pos, consumer>>
        /\ cut' = [s \in Conns |-> IF s \in live \ live' THEN published[RoomOf[s]]
                                   ELSE cut[s]]
    BY <1>4 DEF ReleaseRoom
  <2>2. /\ sub[c] \in {"held", "popped", "unhooked"} /\ live' \subseteq live
        /\ sub'[c] \in {"popped", "unhooked", "released"}
        /\ \A d \in Conns \ {c} : sub'[d] = sub[d]
    BY <2>1, ReleaseDoes
  <2>3. \A s \in live : sub[s] \notin {"idle", "subscribing"}
    BY LiveWasAcquired DEF Acquired
  <2>4. ASSUME NEW s \in Conns
        PROVE  /\ s \in live' \/ sub'[s] \in {"idle", "subscribing"}
                    => cut'[s] = MaxMessages
               /\ s \notin live' /\ sub'[s] # "subscribing" /\ pos[s] # NotListening
                    => cut'[s] <= published[RoomOf[s]]
    BY <1>0, <2>1, <2>2, <2>3
  <2>. QED  BY <2>1, <2>2, <2>4
<1>5. ASSUME NEW c \in Conns, Join(c) \/ Leave(c) \/ Write(c)  PROVE BufferInv'
  BY <1>5 DEF Join, Leave, Write, subVars, redisVars
<1>6. ASSUME NEW s \in Conns, Pick(s)  PROVE BufferInv'
  <2>1. /\ consumer[s].at = "select" /\ pos[s] < published[RoomOf[s]]
        /\ pos[s] < cut[s] /\ pos[s] # NotListening
        /\ pos' = [pos EXCEPT ![s] = pos[s] + 1]
        /\ UNCHANGED <<sub, live, published, cut>>
    BY <1>6 DEF Pick, Buffered, subVars, redisVars
  <2> DEFINE k == [at |-> "sized", msg |-> pos'[s], room |-> Members(RoomOf[s]),
                   count |-> 0]
  <2>2. consumer' = [consumer EXCEPT ![s] = k]
    BY <1>6 DEF Pick
  <2>3. k.at = "sized" /\ k.msg = pos'[s]
    OBVIOUS
  <2>. HIDE DEF k
  <2>4. pos[s] \in 0..MaxMessages /\ published[RoomOf[s]] \in Int
    BY <1>0, <2>1 DEF DeliveryTyped, TypeOK, NotListening
  <2>5. /\ pos'[s] = pos[s] + 1 /\ pos'[s] # NotListening /\ pos'[s] \in 1..pos'[s]
        /\ pos'[s] <= published[RoomOf[s]]
    BY <1>0, <2>1, <2>4 DEF NotListening
  <2>6. /\ consumer'[s].at = "sized" /\ consumer'[s].msg = pos'[s]
        /\ \A t \in Conns \ {s} : consumer'[t] = consumer[t] /\ pos'[t] = pos[t]
    BY <1>0, <2>1, <2>2, <2>3
  <2>. QED  BY <2>1, <2>5, <2>6
<1>7. ASSUME NEW s \in Conns, Skip(s)  PROVE BufferInv'
  <2>1. /\ consumer[s].at = "select" /\ pos[s] < published[RoomOf[s]]
        /\ pos[s] < cut[s] /\ pos[s] # NotListening
        /\ pos' = [pos EXCEPT ![s] = pos[s] + 1]
        /\ UNCHANGED <<sub, live, published, cut, consumer>>
    BY <1>7 DEF Skip, Buffered, subVars, redisVars
  <2>2. pos[s] \in 0..MaxMessages /\ published[RoomOf[s]] \in Int
    BY <1>0, <2>1 DEF DeliveryTyped, TypeOK, NotListening
  <2>3. pos'[s] = pos[s] + 1 /\ pos'[s] # NotListening
        /\ pos'[s] <= published[RoomOf[s]]
    BY <1>0, <2>1, <2>2 DEF NotListening
  <2>4. \A t \in Conns \ {s} : pos'[t] = pos[t]
    BY <1>0, <2>1
  <2>. QED  BY <2>1, <2>3, <2>4
<1>8. ASSUME NEW s \in Conns, Broadcast(s)  PROVE BufferInv'
  <2> DEFINE ready == {c \in Members(RoomOf[s]) : Len(out[c]) < SendCap}
  <2>1. /\ consumer[s].at = "sized" /\ UNCHANGED <<sub, live, published, cut, pos>>
        /\ consumer' = [consumer EXCEPT ![s].at = "counted",
                                        ![s].count = Cardinality(ready)]
    BY <1>8 DEF Broadcast, subVars, redisVars
  <2>2. Cardinality(ready) \in Nat
    BY ConnsAssumption, FS_Subset, FS_CardinalityType DEF Members
  <2>3. /\ consumer'[s].at = "counted"
        /\ \A t \in Conns \ {s} : consumer'[t] = consumer[t]
    BY <1>0, <2>1, <2>2, CountedRecord
  <2>. QED  BY <2>1, <2>3
<1>9. ASSUME NEW s \in Conns, CountDrops(s)  PROVE BufferInv'
  <2>1. /\ consumer[s].at = "counted" /\ consumer' = [consumer EXCEPT ![s] = Select]
        /\ UNCHANGED <<sub, live, published, cut, pos>>
    BY <1>9 DEF CountDrops, subVars, redisVars
  <2>2. Select.at = "select"
    BY DEF Select
  <2>. QED  BY <1>0, <2>1, <2>2
<1>10. ASSUME NEW s \in Conns, Stop(s)  PROVE BufferInv'
  <2>1. /\ s \notin live /\ consumer[s].at = "select"
        /\ consumer' = [consumer EXCEPT ![s] = Stopped]
        /\ pos' = [pos EXCEPT ![s] = NotListening]
        /\ cut' = [cut EXCEPT ![s] = MaxMessages]
        /\ UNCHANGED <<sub, live, published>>
    BY <1>10 DEF Stop, Forget, subVars
  <2>2. Stopped.at = "stopped"
    BY DEF Stopped, Select
  <2>3. NotListening <= published[RoomOf[s]]
    BY <1>0 DEF DeliveryTyped, TypeOK, NotListening
  <2>. QED  BY <1>0, <2>1, <2>2, <2>3
<1>11. CASE UNCHANGED vars
  BY <1>11 DEF vars, subVars, redisVars
<1>. QED
  BY <1>1, <1>2, <1>3, <1>4, <1>5, <1>6, <1>7, <1>8, <1>9, <1>10, <1>11
  DEF Next, Client, Consumer, Done

(* A message taken from the queue and written was received all along.      *)
LEMMA WriteKeepsReceived ==
  ASSUME NEW w \in Seq(Message), NEW q \in Seq(Message), q # <<>>
  PROVE  ToSet(w) \cup ToSet(q)
           \subseteq ToSet(Append(w, Head(q))) \cup ToSet(Tail(q))
<1>1. /\ Len(w) \in Nat /\ Len(q) \in Nat \ {0} /\ Head(q) = q[1]
      /\ Len(Tail(q)) = Len(q) - 1
      /\ \A i \in 1..Len(Tail(q)) : Tail(q)[i] = q[i + 1]
  BY LenProperties, EmptySeq, HeadTailProperties
<1>2. /\ Head(q) \in Message /\ Tail(q) \in Seq(Message)
  BY HeadTailProperties
<1>3. /\ Append(w, Head(q)) \in Seq(Message)
      /\ Len(Append(w, Head(q))) = Len(w) + 1
      /\ \A i \in 1..Len(w) : Append(w, Head(q))[i] = w[i]
      /\ Append(w, Head(q))[Len(w) + 1] = Head(q)
  BY <1>2, AppendProperties
<1>4. /\ DOMAIN w = 1..Len(w) /\ DOMAIN q = 1..Len(q)
      /\ DOMAIN Tail(q) = 1..Len(Tail(q))
      /\ DOMAIN Append(w, Head(q)) = 1..(Len(w) + 1)
  BY <1>2, <1>3, LenProperties
<1> DEFINE a == Append(w, Head(q))
           t == Tail(q)
<1>5. \A k \in 1..Len(w) : k \in DOMAIN a /\ a[k] = w[k]
  BY <1>1, <1>3, <1>4
<1>6. \A k \in 1..Len(q) : \/ Len(w) + 1 \in DOMAIN a /\ a[Len(w) + 1] = q[k]
                           \/ k - 1 \in DOMAIN t /\ t[k - 1] = q[k]
  <2> TAKE k \in 1..Len(q)
  <2>1. CASE k = 1
    BY <2>1, <1>1, <1>3, <1>4
  <2>2. CASE k # 1
    BY <2>2, <1>1, <1>4
  <2>. QED  BY <2>1, <2>2
<1>. HIDE DEF a, t
<1>7. /\ \A x \in ToSet(w) : \E k \in DOMAIN a : a[k] = x
      /\ \A x \in ToSet(q) : \/ \E k \in DOMAIN a : a[k] = x
                             \/ \E k \in DOMAIN t : t[k] = x
  BY <1>4, <1>5, <1>6 DEF ToSet
<1>8. ToSet(w) \cup ToSet(q) \subseteq ToSet(a) \cup ToSet(t)
  BY <1>7 DEF ToSet
<1>. QED  BY <1>8 DEF a, t

(* A message that enters the queue has been received, the others still are.*)
LEMMA AppendKeepsReceived ==
  ASSUME NEW q \in Seq(Message), NEW m \in Message
  PROVE  ToSet(Append(q, m)) = ToSet(q) \cup {m}
<1>1. /\ Append(q, m) \in Seq(Message) /\ Len(Append(q, m)) = Len(q) + 1
      /\ \A i \in 1..Len(q) : Append(q, m)[i] = q[i]
      /\ Append(q, m)[Len(q) + 1] = m
  BY AppendProperties
<1>2. /\ DOMAIN q = 1..Len(q) /\ Len(q) \in Nat
      /\ DOMAIN Append(q, m) = 1..(Len(q) + 1)
  BY <1>1, LenProperties
<1>. QED  BY <1>1, <1>2 DEF ToSet

(* ... and no joined client misses a message.                              *)
LEMMA NoGapStays ==
  ASSUME SubInv, DeliveryTyped, MemberInv, BufferInv, NoGap, [Next]_vars
  PROVE  NoGap'
<1>. SUFFICES ASSUME NEW c \in Conns, member'[c] = "in",
                     NEW i \in (since'[c] + 1)..published'[RoomOf[c]]
              PROVE  \/ i \in Received(c)' \cup dropped'[c]
                                \cup skipped'[subOf'[RoomOf[c]]]
                     \/ OnItsWay(subOf[RoomOf[c]], i)'
  BY DEF NoGap
<1>0. /\ RoomOf[c] \in Rooms /\ closeState = "open"
      /\ published \in [Rooms -> 0..MaxMessages]
      /\ pos \in [Conns -> NotListening..MaxMessages]
      /\ consumer \in [Conns -> Consuming]
      /\ out \in [Conns -> Seq(Message)] /\ wire \in [Conns -> Seq(Message)]
      /\ since \in [Conns -> 0..MaxMessages] /\ MaxMessages \in Nat
      /\ dropped \in [Conns -> SUBSET Message]
      /\ skipped \in [Conns -> SUBSET Message]
      /\ subOf \in [Rooms -> Conns \cup {None}]
  BY ConnsAssumption, DeliveryAssumption DEF DeliveryTyped, TypeOK, SubTypeOK
<1>s. PICK s : s = subOf[RoomOf[c]]
  OBVIOUS
<1>1. ASSUME member[c] = "in"
      PROVE  /\ s \in live /\ s \in Conns /\ RoomOf[s] = RoomOf[c]
             /\ sub[c] = "held" /\ refs[RoomOf[c]] > 0
             /\ sub[s] # "subscribing" /\ pos[s] # NotListening
             /\ c \in Members(RoomOf[s])
  <2>1. sub[c] = "held"
    BY <1>1 DEF MemberInv
  <2>2. s \in live /\ s \in Conns /\ RoomOf[s] = RoomOf[c]
    BY <1>0, <1>s, <2>1, HeldIsLive
  <2>3. refs[RoomOf[c]] > 0
    BY <1>0, <2>1, HeldIsCounted DEF SubInv
  <2>4. sub[s] # "subscribing" /\ pos[s] # NotListening
    BY <2>2, LiveWasAcquired DEF Acquired, DeliveryTyped, TypeOK
  <2>. QED  BY <1>1, <2>1, <2>2, <2>3, <2>4 DEF Members
(* What a step must keep of the way of message i to client c.              *)
<1>2. ASSUME member[c] = "in", UNCHANGED <<since, published>>,
             subOf'[RoomOf[c]] = subOf[RoomOf[c]],
             Received(c) \subseteq Received(c)', dropped[c] \subseteq dropped'[c],
             skipped[s] \subseteq skipped'[s],
             OnItsWay(s, i) =>
               \/ OnItsWay(s, i)'
               \/ i \in Received(c)' \cup dropped'[c] \cup skipped'[s]
      PROVE  \/ i \in Received(c)' \cup dropped'[c]
                        \cup skipped'[subOf'[RoomOf[c]]]
             \/ OnItsWay(subOf[RoomOf[c]], i)'
  <2>1. i \in Received(c) \cup dropped[c] \cup skipped[s] \/ OnItsWay(s, i)
    BY <1>2, <1>s DEF NoGap
  <2>2. s = subOf'[RoomOf[c]]
    BY <1>2, <1>s
  <2>3. \/ i \in Received(c)' \cup dropped'[c] \cup skipped'[s]
        \/ OnItsWay(s, i)'
    BY <1>2, <2>1
  <2>4. CASE OnItsWay(s, i)'
    BY <2>2, <2>4 DEF OnItsWay
  <2>. QED  BY <2>2, <2>3, <2>4
<1>3. ASSUME NEW r \in Rooms, Publish(r)
      PROVE  \/ i \in Received(c)' \cup dropped'[c]
                        \cup skipped'[subOf'[RoomOf[c]]]
             \/ OnItsWay(subOf[RoomOf[c]], i)'
  <2>1. /\ published' = [published EXCEPT ![r] = @ + 1]
        /\ UNCHANGED <<member, since, out, wire, dropped, skipped, pos, consumer,
                       subOf>>
    BY <1>3 DEF Publish, subVars, hubVars
  <2>2. CASE i <= published[RoomOf[c]]
    <3>1. i \in (since[c] + 1)..published[RoomOf[c]]
      BY <1>0, <2>1, <2>2
    <3>2. i \in Received(c) \cup dropped[c] \cup skipped[s] \/ OnItsWay(s, i)
      BY <1>s, <2>1, <3>1 DEF NoGap
    <3>. QED  BY <1>s, <2>1, <3>2 DEF Received, OnItsWay
  <2>3. CASE i > published[RoomOf[c]]
    <3>1. s \in Conns /\ RoomOf[s] = RoomOf[c]
      BY <1>1, <2>1
    <3>2. i > pos[s]
      BY <1>0, <2>3, <3>1 DEF BufferInv, NotListening
    <3>. QED  BY <1>s, <2>1, <3>2 DEF OnItsWay
  <2>. QED  BY <1>0, <2>1, <2>2, <2>3
<1>4. ASSUME NEW t \in Conns, Listen(t)
      PROVE  \/ i \in Received(c)' \cup dropped'[c]
                        \cup skipped'[subOf'[RoomOf[c]]]
             \/ OnItsWay(subOf[RoomOf[c]], i)'
  <2>1. /\ UNCHANGED <<member, since, out, wire, dropped, skipped, consumer,
                       subOf, published>>
        /\ pos' = [pos EXCEPT ![t] = published[RoomOf[t]]] /\ sub[t] = "subscribing"
    BY <1>4 DEF Listen, subVars, hubVars, redisVars
  <2>2. s \in Conns /\ s # t
    BY <1>1, <2>1
  <2>3. pos'[s] = pos[s]
    BY <1>0, <2>1, <2>2
  <2>. QED  BY <1>2, <2>1, <2>3 DEF Received, OnItsWay
<1>5. ASSUME NEW d \in Conns, AcquireRoom(d)
      PROVE  \/ i \in Received(c)' \cup dropped'[c]
                        \cup skipped'[subOf'[RoomOf[c]]]
             \/ OnItsWay(subOf[RoomOf[c]], i)'
  <2>1. /\ UNCHANGED <<member, since, out, wire, dropped, skipped, published>>
        /\ Acquire(d)
    BY <1>5 DEF AcquireRoom, hubVars, redisVars
  <2>2. d \notin live
    BY <2>1, AcquireDoes
  <2>3. s \in Conns /\ s # d /\ s \in live /\ refs[RoomOf[c]] > 0
    BY <1>1, <2>1, <2>2
  <2>4. pos'[s] = pos[s] /\ consumer'[s] = consumer[s]
    BY <1>0, <1>5, <2>3 DEF AcquireRoom
  <2>5. subOf'[RoomOf[c]] = subOf[RoomOf[c]]
    <3>1. \/ subOf' = subOf
          \/ subOf' = [subOf EXCEPT ![RoomOf[d]] = d] /\ refs[RoomOf[d]] = 0
      BY <2>1, AcquireDoes
    <3>. QED  BY <1>0, <2>3, <3>1
  <2>. QED  BY <1>2, <2>1, <2>4, <2>5 DEF Received, OnItsWay
<1>6. ASSUME NEW d \in Conns, ReleaseRoom(d)
      PROVE  \/ i \in Received(c)' \cup dropped'[c]
                        \cup skipped'[subOf'[RoomOf[c]]]
             \/ OnItsWay(subOf[RoomOf[c]], i)'
  <2>1. /\ UNCHANGED <<member, since, out, wire, dropped, skipped, published,
                       pos, consumer>>
        /\ Release(d) /\ member[d] = "left"
    BY <1>6 DEF ReleaseRoom, hubVars
  <2>2. subOf'[RoomOf[c]] = subOf[RoomOf[c]]
    <3>1. \/ subOf' = subOf
          \/ /\ sub[d] = "held" /\ refs[RoomOf[d]] = 1
             /\ subOf' = [subOf EXCEPT ![RoomOf[d]] = None]
      BY <2>1, ReleaseDoes
    <3>2. ASSUME sub[d] = "held", refs[RoomOf[d]] = 1  PROVE RoomOf[d] # RoomOf[c]
      <4>1. SUFFICES ASSUME RoomOf[d] = RoomOf[c]  PROVE FALSE
        OBVIOUS
      <4>2. c \in Holders(RoomOf[c]) /\ d \in Holders(RoomOf[c]) /\ c # d
        BY <1>1, <2>1, <3>2, <4>1 DEF Holders
      <4>3. Cardinality(Holders(RoomOf[c])) = 1
        BY <1>0, <3>2, <4>1 DEF SubInv, RefsCountHolders
      <4>4. \E x : Holders(RoomOf[c]) = {x}
        BY <1>0, <4>3, HoldersFinite, FS_Singleton
      <4>. QED  BY <4>2, <4>4
    <3>. QED  BY <1>0, <3>1, <3>2
  <2>. QED  BY <1>2, <2>1, <2>2 DEF Received, OnItsWay
<1>7. ASSUME NEW d \in Conns, Join(d) \/ Leave(d)
      PROVE  \/ i \in Received(c)' \cup dropped'[c]
                        \cup skipped'[subOf'[RoomOf[c]]]
             \/ OnItsWay(subOf[RoomOf[c]], i)'
  <2>1. d # c
    <3>1. CASE Join(d) /\ d = c
      <4>1. since'[c] = published'[RoomOf[c]]
        BY <1>0, <3>1 DEF Join, redisVars
      <4>. QED  BY <1>0, <3>1, <4>1 DEF Join, redisVars
    <3>2. CASE Leave(d) /\ d = c
      BY <3>2 DEF Leave, DeliveryTyped, TypeOK
    <3>. QED  BY <1>7, <3>1, <3>2
  <2>2. /\ member'[c] = member[c] /\ since'[c] = since[c] /\ out'[c] = out[c]
        /\ wire'[c] = wire[c] /\ dropped'[c] = dropped[c]
        /\ UNCHANGED <<skipped, pos, consumer, published, subOf>>
    BY <1>0, <1>7, <2>1 DEF Join, Leave, subVars, redisVars, DeliveryTyped, TypeOK
  <2>3. i \in Received(c) \cup dropped[c] \cup skipped[s] \/ OnItsWay(s, i)
    BY <1>s, <2>2 DEF NoGap
  <2>. QED  BY <1>s, <2>2, <2>3 DEF Received, OnItsWay
<1>8. ASSUME NEW d \in Conns, Write(d)
      PROVE  \/ i \in Received(c)' \cup dropped'[c]
                        \cup skipped'[subOf'[RoomOf[c]]]
             \/ OnItsWay(subOf[RoomOf[c]], i)'
  <2>1. /\ UNCHANGED <<member, since, dropped, skipped, pos, consumer, published,
                       subOf>>
        /\ out[d] # <<>>
    BY <1>8 DEF Write, subVars, redisVars
  <2>2. Received(c) \subseteq Received(c)'
    <3>1. CASE c = d
      <4>1. /\ out[c] \in Seq(Message) /\ wire[c] \in Seq(Message) /\ out[c] # <<>>
            /\ wire'[c] = Append(wire[c], Head(out[c])) /\ out'[c] = Tail(out[c])
        BY <1>0, <1>8, <3>1 DEF Write
      <4>. QED  BY <4>1, WriteKeepsReceived DEF Received
    <3>2. CASE c # d
      <4>1. out'[c] = out[c] /\ wire'[c] = wire[c]
        BY <1>0, <1>8, <3>2 DEF Write
      <4>. QED  BY <4>1 DEF Received
    <3>. QED  BY <3>1, <3>2
  <2>. QED  BY <1>2, <2>1, <2>2 DEF OnItsWay
<1>9. ASSUME NEW t \in Conns, Pick(t)
      PROVE  \/ i \in Received(c)' \cup dropped'[c]
                        \cup skipped'[subOf'[RoomOf[c]]]
             \/ OnItsWay(subOf[RoomOf[c]], i)'
  <2>1. /\ UNCHANGED <<member, since, out, wire, dropped, skipped, published,
                       subOf>>
        /\ consumer[t].at = "select" /\ pos' = [pos EXCEPT ![t] = @ + 1]
    BY <1>9 DEF Pick, subVars, redisVars, hubVars
  <2> DEFINE k == [at |-> "sized", msg |-> pos'[t], room |-> Members(RoomOf[t]),
                   count |-> 0]
  <2>2. consumer' = [consumer EXCEPT ![t] = k]
    BY <1>9 DEF Pick
  <2>3. k.at = "sized" /\ k.msg = pos'[t]
    OBVIOUS
  <2>. HIDE DEF k
  <2>4. s \in Conns
    BY <1>1, <2>1
  <2>5. OnItsWay(s, i) => OnItsWay(s, i)'
    <3>1. CASE s # t
      <4>1. pos'[s] = pos[s] /\ consumer'[s] = consumer[s]
        BY <1>0, <2>1, <2>2, <2>4, <3>1
      <4>. QED  BY <4>1 DEF OnItsWay
    <3>2. CASE s = t
      <4>1. /\ consumer'[s].at = "sized" /\ consumer'[s].msg = pos'[s]
            /\ pos'[s] = pos[s] + 1 /\ pos[s] \in Int /\ i \in Int
        BY <1>0, <2>1, <2>2, <2>3, <2>4, <3>2 DEF NotListening
      <4>. QED  BY <2>1, <3>2, <4>1 DEF OnItsWay
    <3>. QED  BY <3>1, <3>2
  <2>. QED  BY <1>2, <2>1, <2>5 DEF Received
<1>10. ASSUME NEW t \in Conns, Skip(t)
      PROVE  \/ i \in Received(c)' \cup dropped'[c]
                        \cup skipped'[subOf'[RoomOf[c]]]
             \/ OnItsWay(subOf[RoomOf[c]], i)'
  <2>1. /\ UNCHANGED <<member, since, out, wire, dropped, published, subOf,
                       consumer>>
        /\ pos' = [pos EXCEPT ![t] = @ + 1]
        /\ skipped' = [skipped EXCEPT ![t] = @ \cup {pos'[t]}]
    BY <1>10 DEF Skip, subVars, redisVars, hubVars
  <2>2. /\ s \in Conns /\ pos[s] \in Int /\ i \in Int
        /\ skipped[s] \subseteq skipped'[s]
    BY <1>0, <1>1, <2>1 DEF NotListening
  <2>3. OnItsWay(s, i) => i \in skipped'[s] \/ OnItsWay(s, i)'
    <3>1. \/ pos'[s] = pos[s]
          \/ pos'[s] = pos[s] + 1 /\ pos[s] + 1 \in skipped'[s]
      BY <1>0, <2>1, <2>2
    <3>. QED  BY <2>1, <2>2, <3>1 DEF OnItsWay
  <2>. QED  BY <1>2, <2>1, <2>2, <2>3 DEF Received
<1>11. ASSUME NEW t \in Conns, Broadcast(t)
      PROVE  \/ i \in Received(c)' \cup dropped'[c]
                        \cup skipped'[subOf'[RoomOf[c]]]
             \/ OnItsWay(subOf[RoomOf[c]], i)'
  <2> DEFINE m == consumer[t].msg
             ready == {d \in Members(RoomOf[t]) : Len(out[d]) < SendCap}
             full == Members(RoomOf[t]) \ ready
  <2>1. /\ UNCHANGED <<member, since, wire, skipped, published, subOf, pos>>
        /\ consumer[t].at = "sized"
    BY <1>11 DEF Broadcast, subVars, redisVars
  <2>2. /\ out' = [d \in Conns |-> IF d \in ready THEN Append(out[d], m)
                                   ELSE out[d]]
        /\ dropped' = [d \in Conns |-> IF d \in full THEN dropped[d] \cup {m}
                                       ELSE dropped[d]]
        /\ consumer' = [consumer EXCEPT ![t].at = "counted",
                                        ![t].count = Cardinality(ready)]
    BY <1>11 DEF Broadcast
  <2>3. m \in Message
    <3>1. pos[t] <= MaxMessages /\ m \in 1..pos[t] /\ pos[t] \in Int
      BY <1>0, <2>1 DEF BufferInv, NotListening
    <3>. QED  BY <1>0, <3>1 DEF Message
  <2>4. s \in Conns /\ c \in Members(RoomOf[s])
    BY <1>1, <2>1
  <2>5. Members(RoomOf[t]) = ready \cup full
    OBVIOUS
  <2>6. Cardinality(ready) \in Nat
    BY ConnsAssumption, FS_Subset, FS_CardinalityType DEF Members
  <2>7. /\ consumer'[t].at = "counted"
        /\ \A u \in Conns \ {t} : consumer'[u] = consumer[u]
    BY <1>0, <2>2, <2>6, CountedRecord
  <2>. HIDE DEF ready, full, m
  <2>8. /\ Received(c) \subseteq Received(c)' /\ dropped[c] \subseteq dropped'[c]
        /\ c \in ready \cup full => m \in Received(c)' \cup dropped'[c]
    <3>1. ToSet(Append(out[c], m)) = ToSet(out[c]) \cup {m}
      BY <1>0, <2>3, AppendKeepsReceived
    <3>. QED  BY <2>1, <2>2, <3>1 DEF Received
  <2>9. OnItsWay(s, i) => OnItsWay(s, i)' \/ i \in Received(c)' \cup dropped'[c]
    <3>1. CASE s # t
      BY <2>1, <2>4, <2>7, <3>1 DEF OnItsWay
    <3>2. CASE s = t
      BY <2>1, <2>4, <2>5, <2>8, <3>2 DEF OnItsWay, m
    <3>. QED  BY <3>1, <3>2
  <2>. QED  BY <1>2, <2>1, <2>8, <2>9
<1>12. ASSUME NEW t \in Conns, CountDrops(t) \/ Stop(t)
      PROVE  \/ i \in Received(c)' \cup dropped'[c]
                        \cup skipped'[subOf'[RoomOf[c]]]
             \/ OnItsWay(subOf[RoomOf[c]], i)'
  <2>1. UNCHANGED <<member, since, out, wire, dropped, published, subOf>>
    BY <1>12 DEF CountDrops, Stop, subVars, redisVars, hubVars
  <2>2. s \in Conns /\ s \in live
    BY <1>1, <2>1
  <2>3. CASE CountDrops(t)
    <3>1. /\ consumer[t].at = "counted" /\ UNCHANGED <<pos, skipped>>
          /\ \A u \in Conns \ {t} : consumer'[u] = consumer[u]
      BY <2>3, <1>0 DEF CountDrops
    <3>2. OnItsWay(s, i) => OnItsWay(s, i)'
      BY <2>2, <3>1 DEF OnItsWay
    <3>. QED  BY <1>2, <2>1, <3>1, <3>2 DEF Received
  <2>4. CASE Stop(t)
    <3>1. s # t
      BY <2>2, <2>4 DEF Stop
    <3>2. pos'[s] = pos[s] /\ skipped'[s] = skipped[s] /\ consumer'[s] = consumer[s]
      BY <1>0, <2>2, <2>4, <3>1 DEF Stop, Forget
    <3>. QED  BY <1>2, <2>1, <3>2 DEF Received, OnItsWay
  <2>. QED  BY <1>12, <2>3, <2>4
<1>13. CASE UNCHANGED vars
  <2>1. UNCHANGED <<member, since, out, wire, dropped, skipped, published, subOf,
                    pos, consumer>>
    BY <1>13 DEF vars, subVars, redisVars, hubVars
  <2>. QED  BY <1>2, <2>1 DEF Received, OnItsWay
<1>. QED
  BY <1>3, <1>4, <1>5, <1>6, <1>7, <1>8, <1>9, <1>10, <1>11, <1>12, <1>13
  DEF Next, Client, Consumer, Done

-----------------------------------------------------------------------------
(* The places of a message in a sequence, and what appending adds to them. *)
PlacesOf(f, i) == {k \in DOMAIN f : f[k] = i}

(* A sequence holds a message at finitely many places.                     *)
LEMMA PlacesFinite ==
  ASSUME NEW f \in Seq(Message), NEW i \in Message
  PROVE  IsFiniteSet(PlacesOf(f, i)) /\ Cardinality(PlacesOf(f, i)) \in Nat
<1>1. DOMAIN f = 1..Len(f) /\ Len(f) \in Nat
  BY LenProperties
<1>2. IsFiniteSet(1..Len(f))
  BY <1>1, FS_Interval
<1>3. PlacesOf(f, i) \subseteq 1..Len(f)
  BY <1>1 DEF PlacesOf
<1>4. IsFiniteSet(PlacesOf(f, i))
  BY <1>2, <1>3, FS_Subset
<1>. QED  BY <1>4, FS_CardinalityType

(* Appending a message adds one place of it, and none of another.          *)
LEMMA AppendCounts ==
  ASSUME NEW f \in Seq(Message), NEW m \in Message, NEW i \in Message
  PROVE  Cardinality(PlacesOf(Append(f, m), i)) =
           Cardinality(PlacesOf(f, i)) + (IF m = i THEN 1 ELSE 0)
<1> DEFINE n == Len(f) + 1
<1>1. /\ DOMAIN f = 1..Len(f) /\ Len(f) \in Nat
      /\ Append(f, m) \in Seq(Message)
      /\ Len(Append(f, m)) = n
      /\ \A k \in 1..Len(f) : Append(f, m)[k] = f[k]
      /\ Append(f, m)[n] = m
  BY LenProperties, AppendProperties
<1>2. DOMAIN Append(f, m) = 1..n
  BY <1>1, LenProperties
<1>3. /\ \A k \in 1..n : k \in 1..Len(f) \/ k = n
      /\ \A k \in 1..Len(f) : k \in 1..n
      /\ n \in 1..n /\ n \notin 1..Len(f)
  BY <1>1
<1>. HIDE DEF n
<1>4. IsFiniteSet(PlacesOf(f, i)) /\ Cardinality(PlacesOf(f, i)) \in Nat
  BY PlacesFinite
<1>5. CASE m = i
  <2>1. /\ PlacesOf(Append(f, m), i) = PlacesOf(f, i) \cup {n}
        /\ n \notin PlacesOf(f, i)
    BY <1>1, <1>2, <1>3, <1>5 DEF PlacesOf
  <2>. QED  BY <1>4, <1>5, <2>1, FS_AddElement
<1>6. CASE m # i
  <2>1. PlacesOf(Append(f, m), i) = PlacesOf(f, i)
    BY <1>1, <1>2, <1>3, <1>6 DEF PlacesOf
  <2>. QED  BY <1>4, <1>6, <2>1
<1>. QED  BY <1>5, <1>6

(* A message enters the queue behind everything the client has received.   *)
LEMMA QueueGrows ==
  ASSUME NEW w \in Seq(Message), NEW q \in Seq(Message), NEW m \in Message
  PROVE  w \o Append(q, m) = Append(w \o q, m)
<1>1. /\ w \o q \in Seq(Message) /\ <<m>> \in Seq(Message)
      /\ Append(w \o q, m) = (w \o q) \o <<m>>
      /\ Append(q, m) = q \o <<m>>
  BY ConcatProperties, AppendIsConcat
<1>. QED  BY <1>1, ConcatAssociative

(* Writing moves a message from the queue to the wire.                     *)
LEMMA WriteMoves ==
  ASSUME NEW w \in Seq(Message), NEW q \in Seq(Message), q # <<>>
  PROVE  Append(w, Head(q)) \o Tail(q) = w \o q
<1> DEFINE a == Append(w, Head(q))
           t == Tail(q)
<1>1. /\ Head(q) \in Message /\ t \in Seq(Message) /\ Head(q) = q[1]
      /\ Len(w) \in Nat /\ Len(q) \in Nat \ {0} /\ Len(t) = Len(q) - 1
      /\ \A i \in 1..Len(t) : t[i] = q[i + 1]
  BY LenProperties, EmptySeq, HeadTailProperties
<1>2. /\ a \in Seq(Message) /\ Len(a) = Len(w) + 1
      /\ a[Len(w) + 1] = q[1] /\ \A i \in 1..Len(w) : a[i] = w[i]
  BY <1>1, AppendProperties
<1>. HIDE DEF a, t
<1>3. /\ a \o t \in Seq(Message) /\ w \o q \in Seq(Message)
      /\ Len(a \o t) = Len(a) + Len(t) /\ Len(w \o q) = Len(w) + Len(q)
  BY <1>1, <1>2, ConcatProperties
<1>6. Len(a \o t) = Len(w) + Len(q)
  BY <1>1, <1>2, <1>3
<1>7. \A k \in 1..Len(t) : t[k] = q[k + 1]
  BY <1>1
<1>4. ASSUME NEW i \in 1..(Len(w) + Len(q))  PROVE (a \o t)[i] = (w \o q)[i]
  <2>1. /\ (a \o t)[i] = IF i <= Len(a) THEN a[i] ELSE t[i - Len(a)]
        /\ (w \o q)[i] = IF i <= Len(w) THEN w[i] ELSE q[i - Len(w)]
    BY <1>1, <1>2, ConcatProperties
  <2>2. CASE i <= Len(w)
    BY <1>1, <1>2, <2>1, <2>2
  <2>3. CASE i = Len(w) + 1
    <3>1. (a \o t)[i] = q[1] /\ (w \o q)[i] = q[i - Len(w)] /\ i - Len(w) = 1
      BY <1>1, <1>2, <2>1, <2>3
    <3>. QED  BY <3>1
  <2>4. CASE i > Len(w) + 1
    <3>1. (a \o t)[i] = t[i - Len(a)] /\ (w \o q)[i] = q[i - Len(w)]
      BY <1>1, <1>2, <2>1, <2>4
    <3>2. i - Len(a) \in 1..Len(t) /\ (i - Len(a)) + 1 = i - Len(w)
      BY <1>1, <1>2, <2>4
    <3>3. t[i - Len(a)] = q[(i - Len(a)) + 1]
      BY <1>7, <3>2
    <3>. QED  BY <3>1, <3>2, <3>3
  <2>5. Len(w) \in Nat /\ Len(q) \in Nat
    BY <1>1
  <2>6. i \in Nat
    BY <2>5
  <2>7. i <= Len(w) \/ i = Len(w) + 1 \/ i > Len(w) + 1
    BY <2>5, <2>6
  <2>. QED  BY <2>2, <2>3, <2>4, <2>7
<1>5. a \o t = w \o q
  BY <1>3, <1>4, <1>6, SeqEqual
<1>. QED  BY <1>5 DEF a, t

(* ... and no message has more copies than subscriptions listened to it.   *)
LEMMA CopiesStay ==
  ASSUME SubInv, DeliveryTyped, BufferInv, CopyInv, [Next]_vars
  PROVE  CopyInv'
<1>. SUFFICES ASSUME NEW c \in Conns, NEW i \in Message  PROVE CopiesOf(c, i)'
  BY DEF CopyInv
<1> DEFINE r == RoomOf[c]
<1>0. /\ r \in Rooms /\ MaxMessages \in Nat /\ i \in 1..MaxMessages
      /\ \A s \in Conns : RoomOf[s] \in Rooms /\ pos[s] \in Int
      /\ listeners \in [Rooms -> [Message -> Nat]]
      /\ published \in [Rooms -> 0..MaxMessages]
      /\ pos \in [Conns -> NotListening..MaxMessages]
      /\ cut \in [Conns -> 0..MaxMessages]
      /\ consumer \in [Conns -> Consuming]
      /\ out \in [Conns -> Seq(Message)] /\ wire \in [Conns -> Seq(Message)]
  <2>1. pos \in [Conns -> NotListening..MaxMessages]
    BY DEF DeliveryTyped, TypeOK
  <2>2. \A s \in Conns : RoomOf[s] \in Rooms /\ pos[s] \in Int
    BY <2>1, ConnsAssumption DEF NotListening
  <2>3. r \in Rooms /\ MaxMessages \in Nat /\ i \in 1..MaxMessages
    BY <2>2, DeliveryAssumption DEF Message
  <2>. QED  BY <2>1, <2>2, <2>3 DEF DeliveryTyped, TypeOK
<1>1. /\ wire[c] \o out[c] \in Seq(Message) /\ Copies(c, i) \in Nat
  BY <1>0, ConcatProperties, PlacesFinite DEF Copies, PlacesOf
<1>2. IsFiniteSet(ToCome(r, i)) /\ Cardinality(ToCome(r, i)) \in Nat
  BY ConnsAssumption, FS_Subset, FS_CardinalityType DEF ToCome
<1>3. CopiesOf(c, i)
  BY DEF CopyInv
<1>. HIDE DEF r
(* It is enough that the client gets no copy and nobody new may hand one   *)
(* on.                                                                     *)
<1>4. ASSUME \/ Copies(c, i)' = Copies(c, i)
             \/ Copies(c, i)' = 0,
             published'[r] = published[r], listeners'[r] = listeners[r],
             i <= published[r] => \A s \in Conns :
               RoomOf[s] = r /\ HandsOn(s, i)' => HandsOn(s, i)
      PROVE  CopiesOf(c, i)'
  <2>1. CASE i <= published[r]
    <3>1. ToCome(r, i)' \subseteq ToCome(r, i)
      BY <1>4, <2>1 DEF ToCome
    <3>2. /\ Cardinality(ToCome(r, i)') \in Nat
          /\ Cardinality(ToCome(r, i)') <= Cardinality(ToCome(r, i))
      BY <1>2, <3>1, FS_Subset, FS_CardinalityType
    <3>3. listeners[r][i] \in Nat
      BY <1>0 DEF Message
    <3>. QED  BY <1>0, <1>1, <1>2, <1>3, <1>4, <2>1, <3>2, <3>3 DEF CopiesOf, r
  <2>2. CASE ~(i <= published[r])
    BY <1>3, <1>4, <2>2 DEF CopiesOf, r
  <2>. QED  BY <2>1, <2>2
<1>5. ASSUME UNCHANGED <<wire, out>>  PROVE Copies(c, i)' = Copies(c, i)
  BY <1>5 DEF Copies
<1>6. ASSUME NEW q \in Rooms, Publish(q)  PROVE CopiesOf(c, i)'
  <2>1. /\ published[q] < MaxMessages
        /\ published' = [published EXCEPT ![q] = @ + 1]
        /\ listeners' = [listeners EXCEPT
             ![q][published'[q]] = Cardinality(Listening(q))]
        /\ UNCHANGED <<sub, live, pos, cut, consumer, wire, out>>
    BY <1>6 DEF Publish, subVars, hubVars
  <2>2. Copies(c, i)' = Copies(c, i)
    BY <1>5, <2>1
  <2>3. \A s \in Conns : HandsOn(s, i)' => HandsOn(s, i)
    BY <2>1 DEF HandsOn
  <2>4. CASE q # r
    BY <1>0, <1>4, <2>1, <2>2, <2>3, <2>4
  <2>5. CASE q = r /\ i <= published[r]
    <3>1. /\ published'[r] = published[r] + 1 /\ published[r] \in 0..MaxMessages
          /\ published'[r] \in Message /\ i # published'[r]
      BY <1>0, <2>1, <2>5 DEF Message
    <3>2. listeners'[r][i] = listeners[r][i] /\ listeners[r][i] \in Nat
      BY <1>0, <2>1, <2>5, <3>1 DEF Message
    <3>3. ToCome(r, i)' = ToCome(r, i)
      BY <2>1 DEF ToCome, HandsOn
    <3>. QED  BY <1>0, <1>3, <2>2, <2>5, <3>1, <3>2, <3>3 DEF CopiesOf, r
  <2>6. CASE q = r /\ i > published[r]
    <3>1. published'[r] = published[r] + 1 /\ published[r] \in 0..MaxMessages
      BY <1>0, <2>1, <2>6
    <3>2. Copies(c, i)' = 0
      BY <1>0, <1>3, <2>2, <2>6 DEF CopiesOf, r
    <3>3. ASSUME i = published[r] + 1
          PROVE  /\ listeners'[r][i] = Cardinality(Listening(r))
                 /\ Cardinality(ToCome(r, i)') \in Nat
                 /\ Cardinality(Listening(r)) \in Nat
                 /\ Cardinality(ToCome(r, i)') <= Cardinality(Listening(r))
      <4>1. listeners'[r][i] = Cardinality(Listening(r))
        BY <1>0, <2>1, <2>6, <3>1, <3>3 DEF Message
      <4>2. ASSUME NEW s \in Conns, RoomOf[s] = r, HandsOn(s, i)
            PROVE  s \in Listening(r)
        <5>1. published[r] < i /\ pos[s] <= published[r] /\ pos[s] \in Int
              /\ cut[s] \in Int /\ published[r] \in Int
          BY <1>0, <2>6, <4>2 DEF BufferInv
        <5>2. pos[s] # NotListening /\ i <= cut[s]
          <6>1. ~(consumer[s].at = "sized" /\ consumer[s].msg = i)
            BY <5>1 DEF BufferInv
          <6>. QED  BY <4>2, <6>1 DEF HandsOn
        <5>3. sub[s] = "subscribing" \/ s \in live
          BY <1>0, <4>2, <5>1, <5>2 DEF BufferInv
        <5>. QED  BY <4>2, <5>2, <5>3 DEF Listening
      <4>3. ToCome(r, i)' \subseteq Listening(r)
        BY <2>3, <4>2 DEF ToCome
      <4>4. IsFiniteSet(Listening(r))
        BY ConnsAssumption, FS_Subset DEF Listening
      <4>. QED  BY <4>1, <4>3, <4>4, FS_Subset, FS_CardinalityType
    <3>4. i = published[r] + 1 \/ i > published[r] + 1
      BY <1>0, <2>6, <3>1
    <3>. QED  BY <1>0, <3>1, <3>2, <3>3, <3>4 DEF CopiesOf, r
  <2>. QED  BY <1>0, <2>4, <2>5, <2>6
<1>7. ASSUME NEW t \in Conns, Listen(t)  PROVE CopiesOf(c, i)'
  <2>1. /\ pos' = [pos EXCEPT ![t] = published[RoomOf[t]]] /\ sub[t] = "subscribing"
        /\ UNCHANGED <<published, listeners, cut, consumer, wire, out>>
    BY <1>7 DEF Listen, redisVars, hubVars
  <2>2. consumer[t].at = "stopped"
    BY <2>1 DEF BufferInv
  <2>3. ASSUME i <= published[r], NEW s \in Conns, RoomOf[s] = r, HandsOn(s, i)'
        PROVE  HandsOn(s, i)
    <3>1. CASE s # t
      <4>1. pos'[s] = pos[s]
        BY <1>0, <2>1, <3>1
      <4>. QED  BY <2>1, <2>3, <4>1 DEF HandsOn
    <3>2. CASE s = t
      <4>1. pos'[s] = published[r]
        BY <1>0, <2>1, <2>3, <3>2
      <4>. QED  BY <1>0, <2>1, <2>2, <2>3, <3>2, <4>1 DEF HandsOn
    <3>. QED  BY <3>1, <3>2
  <2>. QED  BY <1>4, <1>5, <2>1, <2>3
<1>8. ASSUME NEW d \in Conns, AcquireRoom(d)  PROVE CopiesOf(c, i)'
  <2>1. /\ Acquire(d) /\ UNCHANGED <<published, listeners, cut, wire, out>>
    BY <1>8 DEF AcquireRoom, redisVars, hubVars
  <2>2. ASSUME NEW s \in Conns
        PROVE  /\ pos'[s] = pos[s] \/ pos'[s] = NotListening
               /\ consumer'[s] = consumer[s] \/ consumer'[s].at # "sized"
    <3>1. Select.at # "sized"
      BY DEF Select
    <3>. QED  BY <1>0, <1>8, <3>1 DEF AcquireRoom
  <2>3. \A s \in Conns : HandsOn(s, i)' => HandsOn(s, i)
    BY <2>1, <2>2 DEF HandsOn
  <2>. QED  BY <1>4, <1>5, <2>1, <2>3
<1>9. ASSUME NEW d \in Conns, ReleaseRoom(d)  PROVE CopiesOf(c, i)'
  <2>1. /\ UNCHANGED <<published, listeners, pos, consumer, wire, out>>
        /\ cut' = [s \in Conns |-> IF s \in live \ live' THEN published[RoomOf[s]]
                                   ELSE cut[s]]
    BY <1>9 DEF ReleaseRoom, hubVars
  <2>2. ASSUME NEW s \in Conns, HandsOn(s, i)'  PROVE HandsOn(s, i)
    <3>1. cut'[s] = cut[s] \/ cut[s] = MaxMessages
      BY <2>1 DEF BufferInv
    <3>2. i <= cut'[s] => i <= cut[s]
      BY <1>0, <3>1
    <3>3. pos'[s] = pos[s] /\ consumer'[s] = consumer[s]
      BY <2>1
    <3>. QED  BY <2>2, <3>2, <3>3 DEF HandsOn
  <2>. QED  BY <1>4, <1>5, <2>1, <2>2
<1>10. ASSUME NEW d \in Conns, Join(d) \/ Leave(d)  PROVE CopiesOf(c, i)'
  <2>1. UNCHANGED <<published, listeners, pos, cut, consumer>>
    BY <1>10 DEF Join, Leave, redisVars
  <2>2. Copies(c, i)' = Copies(c, i) \/ Copies(c, i)' = 0
    <3>1. \/ wire'[c] = wire[c] /\ out'[c] = out[c]
          \/ wire'[c] = <<>> /\ out'[c] = <<>>
      BY <1>0, <1>10 DEF Join, Leave
    <3>2. CASE wire'[c] = wire[c] /\ out'[c] = out[c]
      BY <3>2 DEF Copies
    <3>3. CASE wire'[c] = <<>> /\ out'[c] = <<>>
      <4>1. <<>> \o <<>> = <<>> /\ DOMAIN <<>> = {}
        BY EmptySeq, ConcatEmptySeq
      <4>2. {k \in DOMAIN (wire'[c] \o out'[c]) : (wire'[c] \o out'[c])[k] = i} = {}
        BY <3>3, <4>1
      <4>. QED  BY <4>2, FS_EmptySet DEF Copies
    <3>. QED  BY <3>1, <3>2, <3>3
  <2>. QED  BY <1>4, <2>1, <2>2 DEF HandsOn
<1>11. ASSUME NEW d \in Conns, Write(d)  PROVE CopiesOf(c, i)'
  <2>1. UNCHANGED <<published, listeners, pos, cut, consumer>>
    BY <1>11 DEF Write, redisVars
  <2>2. wire'[c] \o out'[c] = wire[c] \o out[c]
    <3>1. CASE c = d
      <4>1. /\ wire[c] \in Seq(Message) /\ out[c] \in Seq(Message) /\ out[c] # <<>>
            /\ wire'[c] = Append(wire[c], Head(out[c])) /\ out'[c] = Tail(out[c])
        BY <1>0, <1>11, <3>1 DEF Write
      <4>. QED  BY <4>1, WriteMoves
    <3>2. CASE c # d
      <4>1. wire'[c] = wire[c] /\ out'[c] = out[c]
        BY <1>0, <1>11, <3>2 DEF Write
      <4>. QED  BY <4>1
    <3>. QED  BY <3>1, <3>2
  <2>3. Copies(c, i)' = Copies(c, i)
    BY <2>2 DEF Copies
  <2>. QED  BY <1>4, <2>1, <2>3 DEF HandsOn
<1>12. ASSUME NEW t \in Conns, Pick(t)  PROVE CopiesOf(c, i)'
  <2>1. /\ UNCHANGED <<published, listeners, cut, wire, out>>
        /\ consumer[t].at = "select" /\ pos' = [pos EXCEPT ![t] = @ + 1]
        /\ pos[t] < cut[t]
    BY <1>12 DEF Pick, Buffered, redisVars, hubVars
  <2> DEFINE k == [at |-> "sized", msg |-> pos'[t], room |-> Members(RoomOf[t]),
                   count |-> 0]
  <2>2. consumer' = [consumer EXCEPT ![t] = k]
    BY <1>12 DEF Pick
  <2>3. k.msg = pos'[t]
    OBVIOUS
  <2>. HIDE DEF k
  <2>4. ASSUME NEW s \in Conns, HandsOn(s, i)'  PROVE HandsOn(s, i)
    <3>1. CASE s # t
      <4>1. pos'[s] = pos[s] /\ consumer'[s] = consumer[s]
        BY <1>0, <2>1, <2>2, <3>1
      <4>. QED  BY <2>1, <2>4, <4>1 DEF HandsOn
    <3>2. CASE s = t
      <4>1. /\ pos'[t] = pos[t] + 1 /\ consumer'[t].msg = pos[t] + 1
            /\ pos[t] # NotListening /\ pos[t] \in Int /\ cut[t] \in Int
        BY <1>0, <2>1, <2>2, <2>3 DEF BufferInv
      <4>. QED  BY <1>0, <2>1, <2>4, <3>2, <4>1 DEF HandsOn
    <3>. QED  BY <3>1, <3>2
  <2>. QED  BY <1>4, <1>5, <2>1, <2>4
<1>13. ASSUME NEW t \in Conns, Skip(t)  PROVE CopiesOf(c, i)'
  <2>1. /\ UNCHANGED <<published, listeners, cut, wire, out, consumer>>
        /\ consumer[t].at = "select" /\ pos' = [pos EXCEPT ![t] = @ + 1]
    BY <1>13 DEF Skip, redisVars, hubVars
  <2>2. pos[t] # NotListening
    BY <2>1 DEF BufferInv
  <2>3. ASSUME NEW s \in Conns, HandsOn(s, i)'  PROVE HandsOn(s, i)
    <3>1. pos'[s] = pos[s] \/ (pos'[s] = pos[s] + 1 /\ pos[s] # NotListening)
      BY <1>0, <2>1, <2>2
    <3>. QED  BY <1>0, <2>1, <2>3, <3>1 DEF HandsOn
  <2>. QED  BY <1>4, <1>5, <2>1, <2>3
<1>14. ASSUME NEW t \in Conns, Broadcast(t)  PROVE CopiesOf(c, i)'
  <2> DEFINE m == consumer[t].msg
             ready == {d \in Members(RoomOf[t]) : Len(out[d]) < SendCap}
  <2>1. /\ UNCHANGED <<published, listeners, cut, pos, wire>>
        /\ consumer[t].at = "sized"
    BY <1>14 DEF Broadcast, redisVars
  <2>2. /\ out' = [d \in Conns |-> IF d \in ready THEN Append(out[d], m)
                                   ELSE out[d]]
        /\ consumer' = [consumer EXCEPT ![t].at = "counted",
                                        ![t].count = Cardinality(ready)]
    BY <1>14 DEF Broadcast
  <2>3. m \in 1..pos[t] /\ m \in Message /\ m <= published[RoomOf[t]]
    <3>1. /\ pos[t] <= MaxMessages /\ m \in 1..pos[t] /\ pos[t] \in Int
          /\ pos[t] <= published[RoomOf[t]]
      BY <1>0, <2>1 DEF BufferInv, NotListening
    <3>2. published[RoomOf[t]] \in 0..MaxMessages
      BY <1>0, ConnsAssumption DEF DeliveryTyped, TypeOK
    <3>. QED  BY <3>1, <3>2, DeliveryAssumption DEF Message
  <2>4. Cardinality(ready) \in Nat
    BY ConnsAssumption, FS_Subset, FS_CardinalityType DEF Members
  <2>5. /\ consumer'[t].at = "counted"
        /\ \A u \in Conns \ {t} : consumer'[u] = consumer[u]
    BY <1>0, <2>2, <2>4, CountedRecord
  <2>6. c \in ready => r = RoomOf[t]
    BY DEF Members, r
  <2>. HIDE DEF ready, m
  <2>7. \A s \in Conns : HandsOn(s, i)' => HandsOn(s, i)
    BY <2>1, <2>5 DEF HandsOn
  <2>. DEFINE f == Append(wire[c] \o out[c], m)
  <2>10. wire[c] \o Append(out[c], m) = f
    <3>1. wire[c] \in Seq(Message) /\ out[c] \in Seq(Message)
      BY <1>0
    <3>. QED  BY <2>3, <3>1, QueueGrows
  <2>11. Cardinality(PlacesOf(f, i)) =
           Copies(c, i) + (IF m = i THEN 1 ELSE 0)
    <3> DEFINE g == wire[c] \o out[c]
    <3>1. Copies(c, i) = Cardinality(PlacesOf(g, i))
      BY DEF Copies, PlacesOf
    <3>2. g \in Seq(Message)
      BY <1>1
    <3>. HIDE DEF g
    <3>3. Cardinality(PlacesOf(Append(g, m), i)) =
            Cardinality(PlacesOf(g, i)) + (IF m = i THEN 1 ELSE 0)
      BY <2>3, <3>2, AppendCounts
    <3>. QED  BY <3>1, <3>3 DEF g
  <2>8. CASE ~(c \in ready /\ m = i)
    <3>1. Copies(c, i)' = Copies(c, i)
      <4>1. CASE c \in ready
        <5>1. wire'[c] \o out'[c] = f
          BY <2>1, <2>2, <2>10, <4>1
        <5>2. Cardinality(PlacesOf(f, i)) = Copies(c, i) + 0
          BY <2>8, <2>11, <4>1
        <5>. HIDE DEF f
        <5>3. Copies(c, i)' = Cardinality(PlacesOf(f, i))
          BY <5>1 DEF Copies, PlacesOf
        <5>. QED  BY <1>1, <5>2, <5>3
      <4>2. CASE c \notin ready
        <5>1. wire'[c] = wire[c] /\ out'[c] = out[c]
          BY <2>1, <2>2, <4>2
        <5>. QED  BY <5>1 DEF Copies
      <4>. QED  BY <4>1, <4>2
    <3>. QED  BY <1>4, <2>1, <2>7, <3>1
  <2>9. CASE c \in ready /\ m = i
    <3>1. Copies(c, i)' = Copies(c, i) + 1
      <4>1. wire'[c] \o out'[c] = f
        BY <2>1, <2>2, <2>9, <2>10
      <4>2. Cardinality(PlacesOf(f, i)) = Copies(c, i) + 1
        BY <2>9, <2>11
      <4>. HIDE DEF f
      <4>. QED  BY <4>1, <4>2 DEF Copies, PlacesOf
    <3>2. i <= published[r]
      BY <2>3, <2>6, <2>9
    <3>3. t \in ToCome(r, i)
      BY <2>1, <2>6, <2>9 DEF ToCome, HandsOn, m
    <3>4. ~HandsOn(t, i)'
      BY <1>0, <2>1, <2>3, <2>5, <2>9 DEF HandsOn
    <3>5. ToCome(r, i)' \subseteq ToCome(r, i) \ {t}
      BY <2>7, <3>4 DEF ToCome
    <3>6. /\ Cardinality(ToCome(r, i) \ {t}) = Cardinality(ToCome(r, i)) - 1
          /\ IsFiniteSet(ToCome(r, i) \ {t})
      BY <1>2, <3>3, FS_RemoveElement
    <3>7. /\ Cardinality(ToCome(r, i)') \in Nat
          /\ Cardinality(ToCome(r, i)') <= Cardinality(ToCome(r, i) \ {t})
      BY <3>5, <3>6, FS_Subset, FS_CardinalityType
    <3>8. listeners[r][i] \in Nat
      BY <1>0 DEF Message
    <3>9. Copies(c, i) + Cardinality(ToCome(r, i)) <= listeners[r][i]
      BY <1>3, <3>2 DEF CopiesOf, r
    <3>10. Copies(c, i)' + Cardinality(ToCome(r, i)') <= listeners[r][i]
      BY <1>1, <1>2, <3>1, <3>6, <3>7, <3>8, <3>9
    <3>. QED  BY <2>1, <3>2, <3>10 DEF CopiesOf, r
  <2>. QED  BY <2>8, <2>9
<1>15. ASSUME NEW t \in Conns, CountDrops(t) \/ Stop(t)  PROVE CopiesOf(c, i)'
  <2>1. UNCHANGED <<published, listeners, wire, out>>
    BY <1>15 DEF CountDrops, Stop, redisVars, hubVars
  <2>2. ASSUME NEW s \in Conns, HandsOn(s, i)'  PROVE HandsOn(s, i)
    <3>1. Select.at # "sized" /\ Stopped.at # "sized"
      BY DEF Select, Stopped
    <3>2. CASE s = t
      <4>1. consumer'[s].at # "sized"
        BY <1>0, <1>15, <3>1, <3>2 DEF CountDrops, Stop, Forget
      <4>2. \/ pos'[s] = NotListening
            \/ pos'[s] = pos[s] /\ cut'[s] = cut[s]
        BY <1>0, <1>15, <3>2 DEF CountDrops, Stop, Forget, redisVars
      <4>. QED  BY <2>2, <4>1, <4>2 DEF HandsOn
    <3>3. CASE s # t
      <4>1. pos'[s] = pos[s] /\ cut'[s] = cut[s] /\ consumer'[s] = consumer[s]
        BY <1>0, <1>15, <3>3 DEF CountDrops, Stop, Forget, redisVars
      <4>. QED  BY <2>2, <4>1 DEF HandsOn
    <3>. QED  BY <3>2, <3>3
  <2>. QED  BY <1>4, <1>5, <2>1, <2>2
<1>16. CASE UNCHANGED vars
  <2>1. UNCHANGED <<published, listeners, pos, cut, consumer, wire, out>>
    BY <1>16 DEF vars, redisVars, hubVars
  <2>. QED  BY <1>4, <1>5, <2>1 DEF HandsOn
<1>. QED
  BY <1>6, <1>7, <1>8, <1>9, <1>10, <1>11, <1>12, <1>13, <1>14, <1>15, <1>16
  DEF Next, Client, Consumer, Done

-----------------------------------------------------------------------------
(* The invariant of every run of Delivery: while subscriptions of a room   *)
(* follow and overlap each other, everything a joined client has not got   *)
(* is still before or in the hands of the room's current subscription, and *)
(* every copy is owed to a subscription that listened.                     *)
THEOREM DeliveryIndInvHolds == Spec => []DeliveryIndInv
<1>1. Init => DeliveryIndInv
  <2>. SUFFICES ASSUME Init  PROVE DeliveryIndInv
    OBVIOUS
  <2>. USE DEF Init
  <2>1. SubInv /\ SubTypeOK /\ live = {} /\ closeState = "open"
        /\ sub = [c \in Conns |-> "idle"]
    BY InitKeeps DEF SubInit, SubInv
  <2>2. Stopped \in Consuming /\ Stopped.at = "stopped"
    <3>1. Select \in Consuming
      BY DeliveryAssumption DEF Select, Consuming
    <3>. QED  BY <3>1 DEF Stopped, Consuming
  <2>3. <<>> \in Seq(Message) /\ Len(<<>>) = 0 /\ DOMAIN <<>> = {}
        /\ <<>> \o <<>> = <<>>
    BY EmptySeq, ConcatEmptySeq
  <2>4. DeliveryTyped
    BY <2>1, <2>2, <2>3, DeliveryAssumption
    DEF DeliveryTyped, TypeOK, NotListening
  <2>5. MemberInv /\ NoGap
    BY DEF MemberInv, NoGap
  <2>6. BufferInv
    BY <2>1, <2>2, ConnsAssumption DEF BufferInv, NotListening
  <2>7. CopyInv
    <3>. SUFFICES ASSUME NEW c \in Conns, NEW i \in Message  PROVE CopiesOf(c, i)
      BY DEF CopyInv
    <3>1. ~(i <= published[RoomOf[c]])
      BY ConnsAssumption, DeliveryAssumption DEF Message
    <3>2. {k \in DOMAIN (wire[c] \o out[c]) : (wire[c] \o out[c])[k] = i} = {}
      BY <2>3
    <3>3. Copies(c, i) = 0
      BY <3>2, FS_EmptySet DEF Copies
    <3>. QED  BY <3>1, <3>3 DEF CopiesOf
  <2>. QED  BY <2>1, <2>4, <2>5, <2>6, <2>7 DEF DeliveryIndInv
<1>2. DeliveryIndInv /\ [Next]_vars => DeliveryIndInv'
  <2>. SUFFICES ASSUME DeliveryIndInv, [Next]_vars  PROVE DeliveryIndInv'
    OBVIOUS
  <2>1. SubInv'
    BY SubStep, SubInvInductive DEF DeliveryIndInv
  <2>. QED  BY <2>1, DeliveryTypedStays, MemberStays, BufferStays, NoGapStays,
               CopiesStay DEF DeliveryIndInv
<1>. QED  BY <1>1, <1>2, PTL DEF Spec

(* Seen as subscriptions alone, a node that delivers messages is still     *)
(* RoomSubscriptions: what is proved there holds here.                     *)
THEOREM DeliveryImplementsSubscriptions == Spec => SubSpec
<1>1. Init => SubInit
  BY DEF Init
<1>. QED  BY <1>1, SubStep, PTL DEF Spec, SubSpec

(* A client that has joined its room gets every message published since,   *)
(* or the message is on its way, or was dropped by a full queue or never   *)
(* came out of Redis (consume, BroadcastLocal, Enqueue).                   *)
THEOREM JoinedClientsMissNothing == Spec => []NoGap
<1>1. DeliveryIndInv => NoGap
  BY DEF DeliveryIndInv
<1>. QED  BY <1>1, DeliveryIndInvHolds, PTL

(* A client gets no more copies of a message than subscriptions of its     *)
(* room listened when it was published (Acquire after Release).            *)
THEOREM DuplicatesAreBounded == Spec => []DeliveryInv
<1>1. DeliveryIndInv => DeliveryInv
  <2>. SUFFICES ASSUME DeliveryIndInv  PROVE CopiesBounded
    BY DEF DeliveryIndInv, DeliveryTyped, DeliveryInv
  <2>. SUFFICES ASSUME NEW c \in Conns, NEW i \in Message
                PROVE  Copies(c, i) <= listeners[RoomOf[c]][i]
    BY DEF CopiesBounded
  <2>1. /\ wire[c] \in Seq(Message) /\ out[c] \in Seq(Message)
        /\ listeners[RoomOf[c]][i] \in Nat
    BY ConnsAssumption DEF DeliveryIndInv, DeliveryTyped
  <2>2. Copies(c, i) \in Nat
    BY <2>1, ConcatProperties, PlacesFinite DEF Copies, PlacesOf
  <2>3. Cardinality(ToCome(RoomOf[c], i)) \in Nat
    BY ConnsAssumption, FS_Subset, FS_CardinalityType DEF ToCome
  <2>4. CopiesOf(c, i)
    BY DEF DeliveryIndInv, CopyInv
  <2>. QED  BY <2>1, <2>2, <2>3, <2>4 DEF CopiesOf
<1>. QED  BY <1>1, DeliveryIndInvHolds, PTL

-----------------------------------------------------------------------------
(* Only its own broadcast takes a consumer on to its metrics.              *)
LEMMA BroadcastCounts ==
  ASSUME DeliveryTyped, [Next]_vars, NEW s \in Conns,
         consumer[s].at = "sized", consumer'[s].at = "counted"
  PROVE  Broadcast(s)
<1>1. Select.at = "select" /\ Stopped.at = "stopped"
  BY DEF Select, Stopped
<1>2. consumer \in [Conns -> Consuming]
  BY DEF DeliveryTyped
<1>3. ASSUME NEW c \in Conns, AcquireRoom(c)  PROVE FALSE
  BY <1>1, <1>2, <1>3 DEF AcquireRoom
<1>4. ASSUME NEW t \in Conns, Pick(t)  PROVE FALSE
  <2> DEFINE k == [at |-> "sized", msg |-> pos'[t], room |-> Members(RoomOf[t]),
                   count |-> 0]
  <2>1. consumer' = [consumer EXCEPT ![t] = k] /\ k.at = "sized"
    BY <1>4 DEF Pick
  <2>. HIDE DEF k
  <2>. QED  BY <1>2, <2>1
<1>5. ASSUME NEW t \in Conns, CountDrops(t) \/ Stop(t)  PROVE FALSE
  BY <1>1, <1>2, <1>5 DEF CountDrops, Stop, Forget
<1>6. ASSUME NEW t \in Conns, Broadcast(t), t # s  PROVE FALSE
  <2> DEFINE ready == {c \in Members(RoomOf[t]) : Len(out[c]) < SendCap}
  <2>1. consumer' = [consumer EXCEPT ![t].at = "counted",
                                     ![t].count = Cardinality(ready)]
    BY <1>6 DEF Broadcast
  <2>2. consumer'[s] = consumer[s]
    BY <1>2, <1>6, <2>1
  <2>. QED  BY <2>2
<1>7. consumer' # consumer
  OBVIOUS
<1>8. ~UNCHANGED vars
  BY <1>7 DEF vars
<1>9. ASSUME NEW t \in Conns, ReleaseRoom(t) \/ Join(t) \/ Leave(t) \/ Write(t)
                              \/ Listen(t) \/ Skip(t)
      PROVE  FALSE
  BY <1>7, <1>9 DEF ReleaseRoom, Join, Leave, Write, Listen, Skip
<1>10. ASSUME NEW r \in Rooms, Publish(r)  PROVE FALSE
  BY <1>7, <1>10 DEF Publish
<1>. QED
  BY <1>3, <1>4, <1>5, <1>6, <1>8, <1>9, <1>10 DEF Next, Client, Consumer, Done

(* The larger of a difference and zero.                                    *)
LEMMA MaxWithZero ==
  ASSUME NEW n \in Int
  PROVE  /\ Max({0, n}) \in Int /\ Max({0, n}) >= 0 /\ Max({0, n}) >= n
         /\ Max({0, n}) = 0 \/ Max({0, n}) = n
<1>1. \E x \in {0, n} : \A y \in {0, n} : x >= y
  OBVIOUS
<1>2. /\ Max({0, n}) \in {0, n} /\ \A y \in {0, n} : Max({0, n}) >= y
  BY <1>1 DEF Max
<1>. QED  BY <1>2

(* The number of a union is at most the sum.                               *)
LEMMA AtMostTogether ==
  ASSUME NEW A, NEW B, NEW C, IsFiniteSet(A), IsFiniteSet(B), C \subseteq A \cup B
  PROVE  /\ Cardinality(C) \in Nat
         /\ Cardinality(A) \in Nat /\ Cardinality(B) \in Nat
         /\ Cardinality(C) <= Cardinality(A) + Cardinality(B)
<1>1. IsFiniteSet(A \cup B) /\ IsFiniteSet(A \cap B)
  BY FS_Union, FS_Subset
<1>2. /\ Cardinality(A) \in Nat /\ Cardinality(B) \in Nat
      /\ Cardinality(A \cup B) \in Nat /\ Cardinality(A \cap B) \in Nat
  BY <1>1, FS_CardinalityType
<1>3. Cardinality(A \cup B) =
        Cardinality(A) + Cardinality(B) - Cardinality(A \cap B)
  BY FS_Union
<1>4. IsFiniteSet(C) /\ Cardinality(C) <= Cardinality(A \cup B)
  BY <1>1, FS_Subset
<1>5. Cardinality(C) \in Nat
  BY <1>4, FS_CardinalityType
<1>. QED  BY <1>2, <1>3, <1>4, <1>5

(* The drop counter grows by the full queues of the room, give or take the *)
(* clients that left or joined between RoomSize and BroadcastLocal         *)
(* (the broadcast handler of Acquire).                                     *)
THEOREM DropsAreCountedHolds == Spec => DropsAreCounted
<1> DEFINE
  Now(s) == Members(RoomOf[s])
  Full(s) == {c \in Now(s) : Len(out[c]) = SendCap}
  Counted(s) ==
    consumer[s].at = "sized" /\ consumer'[s].at = "counted" =>
      /\ DropsAdded(s)' <= Cardinality(Full(s) \cup (consumer[s].room \ Now(s)))
      /\ Cardinality(Full(s)) <=
           DropsAdded(s)' + Cardinality(Now(s) \ consumer[s].room)
<1>1. DeliveryIndInv /\ [Next]_vars => [\A s \in Conns : Counted(s)]_vars
  <2>. SUFFICES ASSUME DeliveryIndInv, [Next]_vars, NEW s \in Conns,
                       consumer[s].at = "sized", consumer'[s].at = "counted"
                PROVE  Counted(s)
    OBVIOUS
  <2>1. Broadcast(s) /\ consumer \in [Conns -> Consuming]
    BY BroadcastCounts DEF DeliveryIndInv, DeliveryTyped
  <2> DEFINE room == consumer[s].room
             now == Now(s)
             full == Full(s)
             ready == {c \in now : Len(out[c]) < SendCap}
  <2>2. consumer' = [consumer EXCEPT ![s].at = "counted",
                                     ![s].count = Cardinality(ready)]
    BY <2>1 DEF Broadcast
  <2>3. room \subseteq Conns /\ now \subseteq Conns
    BY <2>1 DEF Consuming, Members
  <2>4. now = ready \cup full /\ ready \cap full = {}
    <3>1. \A c \in now : Len(out[c]) < SendCap \/ Len(out[c]) = SendCap
      <4>1. \A c \in Conns : Len(out[c]) \in Nat /\ Len(out[c]) <= SendCap
        BY LenProperties DEF DeliveryIndInv, DeliveryTyped, TypeOK
      <4>. QED  BY <2>3, <4>1, DeliveryAssumption
    <3>2. \A c \in now : ~(Len(out[c]) < SendCap /\ Len(out[c]) = SendCap)
      BY DeliveryAssumption
    <3>. QED  BY <3>1, <3>2
  <2>. HIDE DEF now, full, ready
  <2>5. /\ IsFiniteSet(room) /\ IsFiniteSet(now) /\ IsFiniteSet(ready)
        /\ IsFiniteSet(full) /\ IsFiniteSet(full \cup (room \ now))
        /\ IsFiniteSet(now \ room)
    <3>1. ready \subseteq Conns /\ full \subseteq Conns
      BY <2>3, <2>4
    <3>2. full \cup (room \ now) \subseteq Conns /\ now \ room \subseteq Conns
      BY <2>3, <3>1
    <3>. QED  BY <2>3, <3>1, <3>2, ConnsAssumption, FS_Subset
  <2>6. Cardinality(ready) \in Nat
    BY <2>5, FS_CardinalityType
  <2>7. consumer'[s].count = Cardinality(ready) /\ consumer'[s].room = room
    BY <2>1, <2>2, <2>6, CountedRecord
  <2>. HIDE DEF room
  <2>8. DropsAdded(s)' = Max({0, Cardinality(room) - Cardinality(ready)})
    BY <2>7 DEF DropsAdded
  <2>9. /\ Cardinality(room) \in Nat
        /\ Cardinality(full \cup (room \ now)) \in Nat
        /\ Cardinality(room) <=
             Cardinality(ready) + Cardinality(full \cup (room \ now))
    <3>1. room \subseteq ready \cup (full \cup (room \ now))
      BY <2>4
    <3>. QED  BY <2>5, <3>1, AtMostTogether
  <2>10. /\ Cardinality(now) \in Nat /\ Cardinality(now \ room) \in Nat
         /\ Cardinality(now) <= Cardinality(room) + Cardinality(now \ room)
    <3>1. now \subseteq room \cup (now \ room)
      OBVIOUS
    <3>. QED  BY <2>5, <3>1, AtMostTogether
  <2>11. /\ Cardinality(full) \in Nat
         /\ Cardinality(now) = Cardinality(ready) + Cardinality(full)
    <3>1. Cardinality(ready \cup full) =
            Cardinality(ready) + Cardinality(full) - Cardinality(ready \cap full)
      BY <2>5, FS_Union
    <3>2. Cardinality(ready \cap full) = 0
      BY <2>4, FS_EmptySet
    <3>3. Cardinality(full) \in Nat
      BY <2>5, FS_CardinalityType
    <3>. QED  BY <2>4, <2>6, <3>1, <3>2, <3>3
  <2> DEFINE d == Cardinality(room) - Cardinality(ready)
  <2>12. d \in Int
    BY <2>6, <2>9
  <2>13. /\ Max({0, d}) \in Int /\ Max({0, d}) >= 0 /\ Max({0, d}) >= d
         /\ Max({0, d}) = 0 \/ Max({0, d}) = d
    BY <2>12, MaxWithZero
  <2>14. /\ DropsAdded(s)' <= Cardinality(full \cup (room \ now))
         /\ Cardinality(full) <= DropsAdded(s)' + Cardinality(now \ room)
    BY <2>6, <2>8, <2>9, <2>10, <2>11, <2>13
  <2>. QED  BY <2>14 DEF room, now, full
<1>2. [\A s \in Conns : Counted(s)]_vars =>
      [\A s \in Conns : consumer[s].at = "sized" /\ consumer'[s].at = "counted" =>
         LET room == consumer[s].room
             now  == Members(RoomOf[s])
             full == {c \in now : Len(out[c]) = SendCap}
         IN
         /\ DropsAdded(s)' <= Cardinality(full \cup (room \ now))
         /\ Cardinality(full) <= DropsAdded(s)' + Cardinality(now \ room)]_vars
  OBVIOUS
<1>. QED  BY <1>1, <1>2, DeliveryIndInvHolds, PTL DEF Spec, DropsAreCounted
=============================================================================
