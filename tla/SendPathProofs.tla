---------------------------- MODULE SendPathProofs ----------------------------
(***************************************************************************)
(* Proofs about SendPath: what is stored was heard, a sender is heard in   *)
(* the order in which it sent, the counters agree, and after a graceful    *)
(* shutdown the repository holds what no metric accounts for.              *)
(***************************************************************************)
EXTENDS SendPath, SequenceTheorems, FiniteSetTheorems, TLAPS

(* What was heard of a sender holds its message i ...                      *)
Holds(h, i) == \E k \in DOMAIN h : h[k] = i

(* ... and message i comes before message j ever does.                     *)
Before(h, i, j) ==
  \A l \in DOMAIN h : h[l] = j => \E k \in DOMAIN h : k < l /\ h[k] = i

(* The invariant.  Types, in full:                                         *)
SendTyped ==
  /\ TypeOK
  /\ heard \in [Conns -> Seq(1..MaxSends)]
  /\ accepted \in Seq(Messages) /\ settled \in Nat
  /\ messagesPublished \in Nat /\ persistQueued \in Nat
  /\ persistDropped \in Nat /\ lateDrops \in Nat /\ persistFailed \in Nat
  /\ graceful \in BOOLEAN

(* A pump past its read has a message, and one that was answered was heard.*)
PumpInv ==
  \A c \in Conns :
    /\ pc[c] \in {"publish", "wait", "answered", "persist"} => current[c] > 0
    /\ pc[c] \in {"answered", "persist"} => Holds(heard[c], current[c])

(* Neither Redis nor the channel is ahead of a sender ...                  *)
NothingAhead ==
  /\ \A cmd \in pending : cmd[2] <= current[cmd[1]]
  /\ \A c \in Conns : \A k \in DOMAIN heard[c] : heard[c][k] <= current[c]

(* ... and a message that was acknowledged was heard, before any later one.*)
AckedInOrder ==
  \A c \in Conns : \A i \in 1..MaxSends : <<c, i>> \in acked =>
    /\ Holds(heard[c], i)
    /\ i < current[c] \/ (i = current[c] /\ pc[c] \in {"read", "ended"})
    /\ \A j \in 1..MaxSends : j > i => Before(heard[c], i, j)

(* Only acknowledged messages are in the pipeline and in the repository,   *)
(* and those that are in neither are accounted for by a metric.            *)
Waiting == {accepted[k] : k \in (settled + 1)..Len(accepted)}
Lost == acked \ (stored \cup Waiting)

LossCounted ==
  /\ IsFiniteSet(acked)
  /\ \A k \in DOMAIN accepted : accepted[k] \in acked
  /\ stored \subseteq acked
  /\ Cardinality(Lost) <= persistDropped + BatchSize * persistFailed

(* The pipeline is open until Handler.Shutdown has returned, and an open   *)
(* pipeline drops nothing late.                                            *)
CloseInv ==
  /\ main # "service" => mode = "open"
  /\ mode = "open" => lateDrops = 0
  /\ graceful => main = "service" /\ AllEnded /\ lateDrops = 0
  /\ mode = "closed" => settled = Len(accepted)

SendIndInv ==
  /\ SendTyped /\ PumpInv /\ NothingAhead /\ AckedInOrder
  /\ CountersAgree /\ LossCounted /\ CloseInv

-----------------------------------------------------------------------------
(* The bound of the batches is positive.                                   *)
LEMMA BatchSizePositive == BatchSize \in Nat \ {0}
BY SendAssumption DEF SendAssumption

(* A nonempty set of natural numbers has a least element: the intervals    *)
(* from 1 to its members are finite sets, and inclusion is well-founded on *)
(* finite sets.                                                            *)
LEMMA LeastExists ==
  ASSUME NEW S \in SUBSET Nat, S # {}
  PROVE  \E x \in S : \A y \in S : x =< y
<1> DEFINE T == {1..k : k \in S}
<1>1. T \subseteq FiniteSubsetsOf(Nat) /\ T # {}
  <2>1. \A k \in S : 1..k \in SUBSET Nat /\ IsFiniteSet(1..k)
    BY FS_Interval
  <2>2. \A k \in S : 1..k \in FiniteSubsetsOf(Nat)
    BY <2>1 DEF FiniteSubsetsOf
  <2>. QED  BY <2>2
<1>2. \E I \in T : \A J \in T : ~ (<<J, I>> \in StrictSubsetOrdering(Nat))
  <2> HIDE DEF T
  <2>. QED  BY <1>1, FS_StrictSubsetOrderingWellFounded, WFMin
<1>3. PICK x \in S : \A y \in S : ~ (<<1..y, 1..x>> \in StrictSubsetOrdering(Nat))
  BY <1>2
<1>4. ASSUME NEW y \in S, y < x  PROVE FALSE
  <2>1. /\ 1..y \subseteq 1..x /\ 1..y \in SUBSET Nat /\ 1..x \in SUBSET Nat
        /\ x \in 1..x /\ x \notin 1..y
    BY <1>4
  <2>. QED  BY <2>1, <1>3 DEF StrictSubsetOrdering
<1>. QED  BY <1>4

(* FirstAt is the place of the first copy of a message.                    *)
LEMMA FirstAtIsFirst ==
  ASSUME NEW c, NEW i, heard[c] \in Seq(Nat)
  PROVE  /\ FirstAt(c, i) # 0 <=> Holds(heard[c], i)
         /\ Holds(heard[c], i) => /\ FirstAt(c, i) \in DOMAIN heard[c]
                           /\ heard[c][FirstAt(c, i)] = i
                           /\ \A k \in DOMAIN heard[c] :
                                heard[c][k] = i => FirstAt(c, i) <= k
<1> DEFINE I == {k \in 1..Len(heard[c]) : heard[c][k] = i}
<1>1. DOMAIN heard[c] = 1..Len(heard[c]) /\ Len(heard[c]) \in Nat
  OBVIOUS
<1>2. FirstAt(c, i) = IF I # {} THEN CHOOSE x \in I : \A y \in I : x =< y ELSE 0
  BY DEF FirstAt, SelectInSeq, Min
<1>3. CASE I = {}
  BY <1>1, <1>2, <1>3 DEF Holds
<1>4. CASE I # {}
  <2>1. I \in SUBSET Nat
    BY <1>1
  <2>2. \E x \in I : \A y \in I : x =< y
    BY <2>1, <1>4, LeastExists
  <2>3. FirstAt(c, i) \in I /\ \A y \in I : FirstAt(c, i) =< y
    <3> HIDE DEF I
    <3>. QED  BY <2>2, <1>2, <1>4
  <2>. QED  BY <1>1, <2>3 DEF Holds
<1>. QED  BY <1>3, <1>4
-----------------------------------------------------------------------------
(* Every step preserves the types ...                                      *)
LEMMA SendTypedStays ==
  ASSUME SendTyped, PumpInv, [Next]_vars
  PROVE  SendTyped'
<1>. USE SendAssumption DEF SendAssumption, SendTyped, TypeOK, Messages
<1>1. ASSUME NEW c \in Conns, Send(c)  PROVE SendTyped'
  <2>1. current' \in [Conns -> 0..MaxSends] /\ tries' \in [Conns -> 0..MaxAttempts]
    BY <1>1 DEF Send
  <2>2. pc' \in [Conns -> {"read", "publish", "wait", "answered", "persist",
                         "ended"}]
    BY <1>1 DEF Send, Go
  <2>. QED
    BY <2>1, <2>2, <1>1 DEF Send, redisVars, mainVars, metricVars, pipeVars
<1>2. ASSUME NEW c \in Conns, Attempt(c)  PROVE SendTyped'
  <2>1. current[c] \in 1..MaxSends /\ tries' \in [Conns -> 0..MaxAttempts]
    BY <1>2 DEF Attempt, PumpInv
  <2>2. \A cmd \in pending' : <<cmd[1], cmd[2]>> \in Messages
    <3>1. ASSUME NEW cmd \in pending'  PROVE <<cmd[1], cmd[2]>> \in Messages
      <4>1. CASE cmd \in pending
        BY <4>1
      <4>2. CASE cmd = <<c, current[c], tries'[c]>>
        <5>1. cmd[1] = c /\ cmd[2] = current[c]
          BY <4>2
        <5>. QED  BY <5>1, <2>1
      <4>. QED  BY <4>1, <4>2, <3>1, <1>2 DEF Attempt
    <3>. QED  BY <3>1
  <2>3. pc' \in [Conns -> {"read", "publish", "wait", "answered", "persist",
                         "ended"}]
    BY <1>2 DEF Attempt, Go
  <2>. QED
    BY <2>1, <2>2, <2>3, <1>2 DEF Attempt, mainVars, metricVars, pipeVars
<1>3. ASSUME NEW c \in Conns, Answer(c)  PROVE SendTyped'
  <2>1. pc' \in [Conns -> {"read", "publish", "wait", "answered", "persist",
                         "ended"}]
    BY <1>3 DEF Answer, Go
  <2>2. messagesPublished' \in Nat
    BY <1>3 DEF Answer
  <2>. QED
    BY <2>1, <2>2, <1>3 DEF Answer, redisVars, mainVars, pipeVars
<1>4. ASSUME NEW c \in Conns, NoAnswer(c)  PROVE SendTyped'
  <2>1. pc' \in [Conns -> {"read", "publish", "wait", "answered", "persist",
                         "ended"}]
    BY <1>4 DEF NoAnswer, Go
  <2>. QED
    BY <2>1, <1>4 DEF NoAnswer, redisVars, mainVars, metricVars, pipeVars
<1>5. ASSUME NEW c \in Conns, GiveUp(c)  PROVE SendTyped'
  BY <1>5 DEF GiveUp, redisVars, mainVars, metricVars, pipeVars, Go
<1>6. ASSUME NEW c \in Conns, Persist(c)  PROVE SendTyped'
  <2>1. <<c, current[c]>> \in Messages
    BY <1>6 DEF Persist, PumpInv
  <2>2. acked' \subseteq Messages
    BY <2>1, <1>6 DEF Persist
  <2>3. pc' \in [Conns -> {"read", "publish", "wait", "answered", "persist",
                         "ended"}]
    BY <1>6 DEF Persist, Go
  <2>4. /\ persistQueued' \in Nat /\ persistDropped' \in Nat /\ lateDrops' \in Nat
        /\ UNCHANGED <<settled, mode, stored, persistFailed>>
    <3>1. CASE /\ Pipe!Accept(<<c, current[c]>>)
               /\ persistQueued' = persistQueued + 1
               /\ UNCHANGED <<persistDropped, lateDrops, storeVars>>
      <4>1. UNCHANGED <<settled, mode, stored, persistFailed>>
        BY <3>1 DEF Pipe!Accept, storeVars
      <4>2. persistQueued' = persistQueued + 1
        BY <3>1
      <4>. QED  BY <3>1, <4>1, <4>2 DEF SendTyped
    <3>2. CASE /\ persistDropped' = persistDropped + 1
               /\ lateDrops' = lateDrops + (IF mode = "open" THEN 0 ELSE 1)
               /\ UNCHANGED <<persistQueued, pipeVars>>
      <4>1. UNCHANGED <<settled, mode, stored, persistFailed>>
        BY <3>2 DEF pipeVars
      <4>. QED  BY <3>2, <4>1 DEF SendTyped
    <3>. QED  BY <3>1, <3>2, <1>6 DEF Persist
  <2>5. accepted' \in Seq(Messages) /\ Len(accepted') >= Len(accepted)
    <3>1. CASE accepted' = Append(accepted, <<c, current[c]>>)
      BY <3>1, <2>1
    <3>2. CASE UNCHANGED accepted
      BY <3>2
    <3>. QED  BY <3>1, <3>2, <1>6 DEF Persist, Pipe!Accept, pipeVars
  <2>. QED
    <3>1. settled' <= Len(accepted')
      BY <2>4, <2>5
    <3>2. UNCHANGED <<current, tries, cancelled, pending, heard, main, graceful,
                      messagesPublished>>
      BY <1>6 DEF Persist, redisVars, mainVars
    <3>3. TypeOK'
      BY <2>2, <2>3, <2>4, <3>1, <3>2
    <3>. QED  BY <2>4, <2>5, <3>2, <3>3
<1>7. ASSUME NEW c \in Conns, Disconnect(c)  PROVE SendTyped'
  BY <1>7 DEF Disconnect, redisVars, mainVars, metricVars, pipeVars
<1>8. ASSUME NEW c \in Conns, PumpEnds(c)  PROVE SendTyped'
  BY <1>8 DEF PumpEnds, redisVars, mainVars, metricVars, pipeVars, Go
<1>9. ASSUME NEW cmd \in pending, Execute(cmd)  PROVE SendTyped'
  <2>1. cmd[1] \in Conns /\ cmd[2] \in 1..MaxSends
    BY <1>9
  <2>2. heard' \in [Conns -> Seq(1..MaxSends)]
    BY <2>1, <1>9 DEF Execute
  <2>3. pc' \in [Conns -> {"read", "publish", "wait", "answered", "persist",
                         "ended"}]
    BY <2>1, <1>9 DEF Execute, Go
  <2>. QED
    BY <2>2, <2>3, <1>9 DEF Execute, mainVars, metricVars, pipeVars
<1>10. CASE Shutdown
  BY <1>10 DEF Shutdown, redisVars, metricVars, pipeVars
<1>11. CASE ShutdownReturns
  BY <1>11 DEF ShutdownReturns, AllEnded, pumpVars, redisVars, metricVars,
     pipeVars
<1>12. CASE ClosePipe
  BY <1>12 DEF ClosePipe, Pipe!Shut, Pipe!Finish, pumpVars, redisVars,
     mainVars, metricVars, storeVars
<1>13. CASE Settle
  <2>1. /\ settled' \in Nat /\ settled' <= Len(accepted)
        /\ UNCHANGED <<accepted, mode>>
    <3>1. BatchSize \in Nat
      BY BatchSizePositive
    <3>2. Pipe!Settle
      BY <1>13 DEF Settle
    <3>3. PICK n \in 1..BatchSize : settled' = settled + n
      BY <3>2 DEF Pipe!Settle
    <3>. QED  BY <3>1, <3>2, <3>3 DEF Pipe!Settle
  <2>2. stored' \subseteq Messages /\ persistFailed' \in Nat
    <3>1. \A k \in (settled + 1)..settled' : accepted[k] \in Messages
      BY <2>1, ElementOfSeq
    <3>2. Batch \subseteq Messages
      BY <3>1 DEF Batch
    <3>. QED  BY <3>2, <1>13 DEF Settle
  <2>. QED
    BY <2>1, <2>2, <1>13 DEF Settle, pumpVars, redisVars, mainVars, metricVars
<1>14. CASE UNCHANGED vars
  BY <1>14 DEF vars, pumpVars, redisVars, mainVars, metricVars, pipeVars
<1>. QED
  BY <1>1, <1>2, <1>3, <1>4, <1>5, <1>6, <1>7, <1>8, <1>9, <1>10, <1>11,
     <1>12, <1>13, <1>14 DEF Next, Pump, Finished

(* What Redis executes is appended to the channel, for its sender.         *)
LEMMA ExecuteAppends ==
  ASSUME SendTyped, NEW cmd \in pending, Execute(cmd)
  PROVE  /\ cmd[1] \in Conns /\ cmd[2] \in 1..MaxSends
         /\ heard'[cmd[1]] = Append(heard[cmd[1]], cmd[2])
         /\ \A c \in Conns \ {cmd[1]} : heard'[c] = heard[c]
<1>1. <<cmd[1], cmd[2]>> \in Conns \X (1..MaxSends)
  BY DEF SendTyped, TypeOK, Messages
<1>2. heard' = [heard EXCEPT ![cmd[1]] = Append(@, cmd[2])]
  BY DEF Execute
<1>. QED  BY <1>1, <1>2 DEF SendTyped

(* An append keeps what a sequence holds and in which order, and holds the *)
(* new element.                                                            *)
LEMMA AppendKeepsOrder ==
  ASSUME NEW h \in Seq(1..MaxSends), NEW m \in 1..MaxSends
  PROVE  /\ \A i : Holds(h, i) => Holds(Append(h, m), i)
         /\ Holds(Append(h, m), m)
         /\ \A i, j : Holds(h, i) /\ Before(h, i, j) => Before(Append(h, m), i, j)
         /\ \A k \in DOMAIN Append(h, m) :
              Append(h, m)[k] = m \/ (k \in DOMAIN h /\ Append(h, m)[k] = h[k])
<1> DEFINE g == Append(h, m)  n == Len(h)
<1>1. /\ n \in Nat /\ DOMAIN h = 1..n /\ DOMAIN g = 1..(n + 1)
      /\ g[n + 1] = m /\ \A k \in 1..n : g[k] = h[k]
  OBVIOUS
<1>. HIDE DEF g, n
<1>2. /\ \A i : Holds(h, i) => Holds(g, i)
      /\ Holds(g, m)
  BY <1>1 DEF Holds
<1>3. ASSUME NEW i, NEW j, Holds(h, i), Before(h, i, j)  PROVE Before(g, i, j)
  <2>1. ASSUME NEW l \in DOMAIN g, g[l] = j
        PROVE  \E k \in DOMAIN g : k < l /\ g[k] = i
    <3>1. CASE l \in 1..n
      BY <3>1, <2>1, <1>3, <1>1 DEF Before
    <3>2. CASE l = n + 1
      BY <3>2, <1>3, <1>1 DEF Holds
    <3>. QED  BY <3>1, <3>2, <1>1
  <2>. QED  BY <2>1 DEF Before
<1>4. \A k \in DOMAIN g : g[k] = m \/ (k \in DOMAIN h /\ g[k] = h[k])
  BY <1>1
<1>. QED  BY <1>2, <1>3, <1>4 DEF g

(* ... what is known of the pumps ...                                       *)
LEMMA PumpInvStays ==
  ASSUME SendTyped, PumpInv, [Next]_vars
  PROVE  PumpInv'
<1>. USE DEF PumpInv
<1>1. ASSUME NEW c \in Conns, Send(c)  PROVE PumpInv'
  BY <1>1 DEF Send, SendTyped, TypeOK, redisVars, mainVars, metricVars,
     pipeVars, Go
<1>2. ASSUME NEW c \in Conns, Attempt(c)  PROVE PumpInv'
  BY <1>2 DEF Attempt, SendTyped, TypeOK, mainVars, metricVars, pipeVars, Go
<1>3. ASSUME NEW c \in Conns, Answer(c)  PROVE PumpInv'
  BY <1>3 DEF Answer, SendTyped, TypeOK, redisVars, mainVars, pipeVars, Go
<1>4. ASSUME NEW c \in Conns, NoAnswer(c)  PROVE PumpInv'
  BY <1>4 DEF NoAnswer, SendTyped, TypeOK, redisVars, mainVars, metricVars,
     pipeVars, Go
<1>5. ASSUME NEW c \in Conns, GiveUp(c)  PROVE PumpInv'
  BY <1>5 DEF GiveUp, SendTyped, TypeOK, redisVars, mainVars, metricVars,
     pipeVars, Go
<1>6. ASSUME NEW c \in Conns, Persist(c)  PROVE PumpInv'
  BY <1>6 DEF Persist, SendTyped, TypeOK, redisVars, mainVars, pipeVars, Go
<1>7. ASSUME NEW c \in Conns, Disconnect(c)  PROVE PumpInv'
  BY <1>7 DEF Disconnect, SendTyped, TypeOK, redisVars, mainVars, metricVars,
     pipeVars
<1>8. ASSUME NEW c \in Conns, PumpEnds(c)  PROVE PumpInv'
  BY <1>8 DEF PumpEnds, SendTyped, TypeOK, redisVars, mainVars, metricVars,
     pipeVars, Go
<1>9. ASSUME NEW cmd \in pending, Execute(cmd)  PROVE PumpInv'
  <2> DEFINE d == cmd[1]
  <2>1. /\ d \in Conns /\ cmd[2] \in 1..MaxSends /\ heard[d] \in Seq(1..MaxSends)
        /\ heard'[d] = Append(heard[d], cmd[2])
        /\ \A c \in Conns \ {d} : heard'[c] = heard[c]
    BY <1>9, ExecuteAppends DEF SendTyped
  <2>2. /\ current' = current
        /\ \/ pc' = pc
           \/ /\ pc' = [pc EXCEPT ![d] = "answered"]
              /\ pc[d] = "wait" /\ cmd[2] = current[d]
    BY <1>9 DEF Execute, Go, Awaited
  <2>3. ASSUME NEW c \in Conns, Holds(heard[c], current[c])
        PROVE  Holds(heard'[c], current[c])
    <3>1. CASE c = d
      BY <3>1, <2>1, <2>3, AppendKeepsOrder
    <3>2. CASE c # d
      BY <3>2, <2>1, <2>3
    <3>. QED  BY <3>1, <3>2
  <2>4. Holds(heard'[d], cmd[2])
    BY <2>1, AppendKeepsOrder
  <2>5. pc \in [Conns -> {"read", "publish", "wait", "answered", "persist",
                        "ended"}]
    BY DEF SendTyped, TypeOK
  <2>. HIDE DEF d
  <2>. QED  BY <2>1, <2>2, <2>3, <2>4, <2>5
<1>10. CASE Shutdown
  BY <1>10 DEF Shutdown, SendTyped, TypeOK, redisVars, metricVars, pipeVars
<1>11. CASE ShutdownReturns
  BY <1>11 DEF ShutdownReturns, AllEnded, SendTyped, TypeOK, pumpVars,
     redisVars, metricVars, pipeVars
<1>12. CASE ClosePipe
  BY <1>12 DEF ClosePipe, Pipe!Shut, Pipe!Finish, SendTyped, TypeOK, pumpVars,
     redisVars, mainVars, metricVars
<1>13. CASE Settle
  BY <1>13 DEF Settle, Pipe!Settle, SendTyped, TypeOK, pumpVars, redisVars,
     mainVars, metricVars
<1>14. CASE UNCHANGED vars
  BY <1>14 DEF SendTyped, TypeOK, vars, pumpVars, redisVars, mainVars,
     metricVars, pipeVars
<1>. QED
  BY <1>1, <1>2, <1>3, <1>4, <1>5, <1>6, <1>7, <1>8, <1>9, <1>10, <1>11,
     <1>12, <1>13, <1>14 DEF Next, Pump, Finished

(* ... the order of sending ...                                            *)
LEMMA NothingAheadStays ==
  ASSUME SendTyped, NothingAhead, [Next]_vars
  PROVE  NothingAhead'
<1>. USE DEF NothingAhead
<1>1. ASSUME NEW c \in Conns, Send(c)  PROVE NothingAhead'
  <2>1. /\ \A d \in Conns : current[d] \in Nat /\ current'[d] \in Nat
                             /\ current[d] <= current'[d]
        /\ UNCHANGED <<pending, heard>>
    BY <1>1 DEF Send, redisVars, SendTyped, TypeOK
  <2>2. ASSUME NEW cmd \in pending  PROVE cmd[2] <= current'[cmd[1]]
    <3>1. <<cmd[1], cmd[2]>> \in Conns \X (1..MaxSends)
      BY DEF SendTyped, TypeOK, Messages
    <3>2. cmd[1] \in Conns /\ cmd[2] \in Nat
      BY <3>1
    <3>. QED  BY <3>2, <2>1
  <2>3. ASSUME NEW d \in Conns, NEW k \in DOMAIN heard[d]
        PROVE  heard[d][k] <= current'[d]
    <3>1. heard[d] \in Seq(1..MaxSends)
      BY DEF SendTyped
    <3>2. \A h \in Seq(1..MaxSends) : \A l \in DOMAIN h : h[l] \in 1..MaxSends
      BY LenProperties, ElementOfSeq
    <3>3. heard[d][k] \in Nat
      BY <3>1, <3>2
    <3>. QED  BY <3>3, <2>1
  <2>. QED  BY <2>1, <2>2, <2>3
<1>2. ASSUME NEW c \in Conns, Attempt(c)  PROVE NothingAhead'
  BY <1>2 DEF Attempt, SendTyped, TypeOK, mainVars, metricVars, pipeVars, Go
<1>3. ASSUME NEW c \in Conns, Answer(c)  PROVE NothingAhead'
  BY <1>3 DEF Answer, SendTyped, TypeOK, redisVars, mainVars, pipeVars, Go
<1>4. ASSUME NEW c \in Conns, NoAnswer(c)  PROVE NothingAhead'
  BY <1>4 DEF NoAnswer, SendTyped, TypeOK, redisVars, mainVars, metricVars,
     pipeVars, Go
<1>5. ASSUME NEW c \in Conns, GiveUp(c)  PROVE NothingAhead'
  BY <1>5 DEF GiveUp, SendTyped, TypeOK, redisVars, mainVars, metricVars,
     pipeVars, Go
<1>6. ASSUME NEW c \in Conns, Persist(c)  PROVE NothingAhead'
  BY <1>6 DEF Persist, SendTyped, TypeOK, redisVars, mainVars, pipeVars, Go
<1>7. ASSUME NEW c \in Conns, Disconnect(c)  PROVE NothingAhead'
  BY <1>7 DEF Disconnect, SendTyped, TypeOK, redisVars, mainVars, metricVars,
     pipeVars
<1>8. ASSUME NEW c \in Conns, PumpEnds(c)  PROVE NothingAhead'
  BY <1>8 DEF PumpEnds, SendTyped, TypeOK, redisVars, mainVars, metricVars,
     pipeVars, Go
<1>9. ASSUME NEW cmd \in pending, Execute(cmd)  PROVE NothingAhead'
  <2> DEFINE d == cmd[1]
  <2>1. /\ d \in Conns /\ cmd[2] \in 1..MaxSends /\ heard[d] \in Seq(1..MaxSends)
        /\ heard'[d] = Append(heard[d], cmd[2])
        /\ \A c \in Conns \ {d} : heard'[c] = heard[c]
    BY <1>9, ExecuteAppends DEF SendTyped
  <2>2. current' = current /\ pending' \subseteq pending
    BY <1>9 DEF Execute
  <2>3. ASSUME NEW k \in DOMAIN heard'[d]  PROVE heard'[d][k] <= current[d]
    BY <2>1, AppendKeepsOrder
  <2>. HIDE DEF d
  <2>. QED  BY <2>1, <2>2, <2>3
<1>10. CASE Shutdown
  BY <1>10 DEF Shutdown, SendTyped, TypeOK, redisVars, metricVars, pipeVars
<1>11. CASE ShutdownReturns
  BY <1>11 DEF ShutdownReturns, AllEnded, SendTyped, TypeOK, pumpVars,
     redisVars, metricVars, pipeVars
<1>12. CASE ClosePipe
  BY <1>12 DEF ClosePipe, Pipe!Shut, Pipe!Finish, SendTyped, TypeOK, pumpVars,
     redisVars, mainVars, metricVars
<1>13. CASE Settle
  BY <1>13 DEF Settle, Pipe!Settle, SendTyped, TypeOK, pumpVars, redisVars,
     mainVars, metricVars
<1>14. CASE UNCHANGED vars
  BY <1>14 DEF SendTyped, TypeOK, vars, pumpVars, redisVars, mainVars,
     metricVars, pipeVars
<1>. QED
  BY <1>1, <1>2, <1>3, <1>4, <1>5, <1>6, <1>7, <1>8, <1>9, <1>10, <1>11,
     <1>12, <1>13, <1>14 DEF Next, Pump, Finished

(* ... the acknowledged messages and their order ...                       *)
LEMMA AckedInOrderStays ==
  ASSUME SendTyped, PumpInv, NothingAhead, AckedInOrder, [Next]_vars
  PROVE  AckedInOrder'
<1>. USE DEF AckedInOrder
<1>1. ASSUME NEW c \in Conns, Send(c)  PROVE AckedInOrder'
  <2>1. /\ \A d \in Conns : /\ current[d] \in Nat
                            /\ current'[d] = IF d = c THEN current[d] + 1 ELSE current[d]
                            /\ d # c => pc'[d] = pc[d]
        /\ UNCHANGED <<acked, heard>>
    BY <1>1 DEF Send, Go, redisVars, SendTyped, TypeOK
  <2>. QED  BY <2>1
<1>2. ASSUME NEW c \in Conns, Attempt(c)  PROVE AckedInOrder'
  BY <1>2 DEF Attempt, SendTyped, TypeOK, mainVars, metricVars, pipeVars, Go
<1>3. ASSUME NEW c \in Conns, Answer(c)  PROVE AckedInOrder'
  BY <1>3 DEF Answer, SendTyped, TypeOK, redisVars, mainVars, pipeVars, Go
<1>4. ASSUME NEW c \in Conns, NoAnswer(c)  PROVE AckedInOrder'
  BY <1>4 DEF NoAnswer, SendTyped, TypeOK, redisVars, mainVars, metricVars,
     pipeVars, Go
<1>5. ASSUME NEW c \in Conns, GiveUp(c)  PROVE AckedInOrder'
  BY <1>5 DEF GiveUp, SendTyped, TypeOK, redisVars, mainVars, metricVars,
     pipeVars, Go
<1>6. ASSUME NEW c \in Conns, Persist(c)  PROVE AckedInOrder'
  <2>1. /\ pc[c] = "persist" /\ acked' = acked \cup {<<c, current[c]>>}
        /\ pc' = [pc EXCEPT ![c] = "read"] /\ UNCHANGED <<current, heard>>
    BY <1>6 DEF Persist, Go, redisVars
  <2>2. Holds(heard[c], current[c])
    BY <2>1 DEF PumpInv
  <2>3. ASSUME NEW j \in 1..MaxSends, j > current[c]
        PROVE  Before(heard[c], current[c], j)
    <3>1. \A l \in DOMAIN heard[c] : heard[c][l] # j
      BY <2>3 DEF NothingAhead, SendTyped, TypeOK
    <3>. QED  BY <3>1 DEF Before
  <2>4. pc'[c] = "read" /\ \A d \in Conns \ {c} : pc'[d] = pc[d]
    BY <2>1 DEF SendTyped, TypeOK
  <2>5. ASSUME NEW d \in Conns, NEW i \in 1..MaxSends, <<d, i>> \in acked'
        PROVE  /\ Holds(heard[d], i)
               /\ \/ i < current[d]
                  \/ i = current[d] /\ pc'[d] \in {"read", "ended"}
               /\ \A j \in 1..MaxSends : j > i => Before(heard[d], i, j)
    <3>1. CASE <<d, i>> \in acked
      BY <3>1, <2>1, <2>4
    <3>2. CASE d = c /\ i = current[c]
      BY <3>2, <2>2, <2>3, <2>4
    <3>. QED  BY <3>1, <3>2, <2>5, <2>1
  <2>. QED  BY <2>1, <2>5
<1>7. ASSUME NEW c \in Conns, Disconnect(c)  PROVE AckedInOrder'
  BY <1>7 DEF Disconnect, SendTyped, TypeOK, redisVars, mainVars, metricVars,
     pipeVars
<1>8. ASSUME NEW c \in Conns, PumpEnds(c)  PROVE AckedInOrder'
  BY <1>8 DEF PumpEnds, SendTyped, TypeOK, redisVars, mainVars, metricVars,
     pipeVars, Go
<1>9. ASSUME NEW cmd \in pending, Execute(cmd)  PROVE AckedInOrder'
  <2> DEFINE d == cmd[1]
  <2>1. /\ d \in Conns /\ cmd[2] \in 1..MaxSends /\ heard[d] \in Seq(1..MaxSends)
        /\ heard'[d] = Append(heard[d], cmd[2])
        /\ \A c \in Conns \ {d} : heard'[c] = heard[c]
    BY <1>9, ExecuteAppends DEF SendTyped
  <2>2. /\ current' = current /\ acked' = acked
        /\ \A c \in Conns : pc[c] \in {"read", "ended"} => pc'[c] = pc[c]
    BY <1>9 DEF Execute, Go, Awaited, SendTyped, TypeOK
  <2>. HIDE DEF d
  <2>3. ASSUME NEW c \in Conns, NEW i \in 1..MaxSends, <<c, i>> \in acked
        PROVE  /\ Holds(heard'[c], i)
               /\ \A j \in 1..MaxSends : j > i => Before(heard'[c], i, j)
    <3>1. CASE c = d
      BY <3>1, <2>1, <2>3, AppendKeepsOrder
    <3>2. CASE c # d
      BY <3>2, <2>1, <2>3
    <3>. QED  BY <3>1, <3>2
  <2>. QED  BY <2>2, <2>3
<1>10. CASE Shutdown
  BY <1>10 DEF Shutdown, SendTyped, TypeOK, redisVars, metricVars, pipeVars
<1>11. CASE ShutdownReturns
  BY <1>11 DEF ShutdownReturns, AllEnded, SendTyped, TypeOK, pumpVars,
     redisVars, metricVars, pipeVars
<1>12. CASE ClosePipe
  BY <1>12 DEF ClosePipe, Pipe!Shut, Pipe!Finish, SendTyped, TypeOK, pumpVars,
     redisVars, mainVars, metricVars
<1>13. CASE Settle
  BY <1>13 DEF Settle, Pipe!Settle, SendTyped, TypeOK, pumpVars, redisVars,
     mainVars, metricVars
<1>14. CASE UNCHANGED vars
  BY <1>14 DEF SendTyped, TypeOK, vars, pumpVars, redisVars, mainVars,
     metricVars, pipeVars
<1>. QED
  BY <1>1, <1>2, <1>3, <1>4, <1>5, <1>6, <1>7, <1>8, <1>9, <1>10, <1>11,
     <1>12, <1>13, <1>14 DEF Next, Pump, Finished

(* The pumps that are about to persist a message.                          *)
Persisting == {c \in Conns : pc[c] = "persist"}

(* ... the counters ...                                                    *)
LEMMA CountersAgreeStays ==
  ASSUME SendTyped, CountersAgree, [Next]_vars
  PROVE  CountersAgree'
<1>. USE DEF CountersAgree
<1>0. IsFiniteSet(Persisting) /\ Cardinality(Persisting) \in Nat
  BY SendAssumption, FS_Subset, FS_CardinalityType DEF Persisting
<1>1. ASSUME NEW c \in Conns, Send(c)  PROVE CountersAgree'
  <2>1. Persisting' = Persisting
    BY <1>1 DEF Send, Go, Persisting, SendTyped, TypeOK
  <2>2. UNCHANGED <<messagesPublished, persistQueued, persistDropped>>
    BY <1>1 DEF Send, metricVars
  <2>. QED  BY <2>1, <2>2 DEF Persisting
<1>2. ASSUME NEW c \in Conns, Attempt(c)  PROVE CountersAgree'
  <2>1. Persisting' = Persisting
    BY <1>2 DEF Attempt, Go, Persisting, SendTyped, TypeOK
  <2>2. UNCHANGED <<messagesPublished, persistQueued, persistDropped>>
    BY <1>2 DEF Attempt, metricVars
  <2>. QED  BY <2>1, <2>2 DEF Persisting
<1>3. ASSUME NEW c \in Conns, Answer(c)  PROVE CountersAgree'
  <2>1. Persisting' = Persisting \cup {c} /\ c \notin Persisting
    BY <1>3 DEF Answer, Go, Persisting, SendTyped, TypeOK
  <2>2. Cardinality(Persisting') = Cardinality(Persisting) + 1
    BY <2>1, <1>0, FS_AddElement
  <2>3. /\ messagesPublished' = messagesPublished + 1
        /\ UNCHANGED <<persistQueued, persistDropped>>
    BY <1>3 DEF Answer
  <2>. QED  BY <2>2, <2>3, <1>0 DEF SendTyped, Persisting
<1>4. ASSUME NEW c \in Conns, NoAnswer(c)  PROVE CountersAgree'
  <2>1. Persisting' = Persisting
    BY <1>4 DEF NoAnswer, Go, Persisting, SendTyped, TypeOK
  <2>2. UNCHANGED <<messagesPublished, persistQueued, persistDropped>>
    BY <1>4 DEF NoAnswer, metricVars
  <2>. QED  BY <2>1, <2>2 DEF Persisting
<1>5. ASSUME NEW c \in Conns, GiveUp(c)  PROVE CountersAgree'
  <2>1. Persisting' = Persisting
    BY <1>5 DEF GiveUp, Go, Persisting, SendTyped, TypeOK
  <2>2. UNCHANGED <<messagesPublished, persistQueued, persistDropped>>
    BY <1>5 DEF GiveUp, metricVars
  <2>. QED  BY <2>1, <2>2 DEF Persisting
<1>6. ASSUME NEW c \in Conns, Persist(c)  PROVE CountersAgree'
  <2>1. Persisting' = Persisting \ {c} /\ c \in Persisting
    BY <1>6 DEF Persist, Go, Persisting, SendTyped, TypeOK
  <2>2. Cardinality(Persisting') = Cardinality(Persisting) - 1
    BY <2>1, <1>0, FS_RemoveElement
  <2>3. /\ UNCHANGED messagesPublished
        /\ \/ persistQueued' = persistQueued + 1 /\ UNCHANGED persistDropped
           \/ persistDropped' = persistDropped + 1 /\ UNCHANGED persistQueued
    BY <1>6 DEF Persist
  <2>4. messagesPublished = persistQueued + persistDropped + Cardinality(Persisting)
    BY DEF Persisting
  <2>5. messagesPublished' =
          persistQueued' + persistDropped' + Cardinality(Persisting')
    BY <1>0, <2>2, <2>3, <2>4 DEF SendTyped
  <2>. QED  BY <2>5 DEF Persisting
<1>7. ASSUME NEW c \in Conns, Disconnect(c)  PROVE CountersAgree'
  BY <1>7 DEF Disconnect, Persisting, redisVars, mainVars, metricVars, pipeVars
<1>8. ASSUME NEW c \in Conns, PumpEnds(c)  PROVE CountersAgree'
  <2>1. Persisting' = Persisting
    BY <1>8 DEF PumpEnds, Go, Persisting, SendTyped, TypeOK
  <2>2. UNCHANGED <<messagesPublished, persistQueued, persistDropped>>
    BY <1>8 DEF PumpEnds, metricVars
  <2>. QED  BY <2>1, <2>2 DEF Persisting
<1>9. ASSUME NEW cmd \in pending, Execute(cmd)  PROVE CountersAgree'
  <2>1. cmd[1] \in Conns
    BY <1>9, ExecuteAppends
  <2>2. Persisting' = Persisting
    BY <2>1, <1>9 DEF Execute, Awaited, Go, Persisting, SendTyped, TypeOK
  <2>3. UNCHANGED <<messagesPublished, persistQueued, persistDropped>>
    BY <1>9 DEF Execute, metricVars
  <2>. QED  BY <2>2, <2>3 DEF Persisting
<1>10. CASE Shutdown
  BY <1>10 DEF Shutdown, Persisting, redisVars, metricVars, pipeVars
<1>11. CASE ShutdownReturns
  BY <1>11 DEF ShutdownReturns, AllEnded, Persisting, pumpVars, redisVars,
     metricVars, pipeVars
<1>12. CASE ClosePipe
  BY <1>12 DEF ClosePipe, Pipe!Shut, Pipe!Finish, Persisting, pumpVars,
     redisVars, mainVars, metricVars
<1>13. CASE Settle
  BY <1>13 DEF Settle, Pipe!Settle, Persisting, pumpVars, redisVars, mainVars,
     metricVars
<1>14. CASE UNCHANGED vars
  BY <1>14 DEF Persisting, vars, pumpVars, redisVars, mainVars, metricVars,
     pipeVars
<1>. QED
  BY <1>1, <1>2, <1>3, <1>4, <1>5, <1>6, <1>7, <1>8, <1>9, <1>10, <1>11,
     <1>12, <1>13, <1>14 DEF Next, Pump, Finished

(* What gains at most the elements of a set gains at most their number.    *)
LEMMA LossGrows ==
  ASSUME NEW A, IsFiniteSet(A), NEW C, IsFiniteSet(C), NEW B \in SUBSET (A \cup C)
  PROVE  /\ IsFiniteSet(B) /\ Cardinality(B) \in Nat
         /\ Cardinality(A) \in Nat /\ Cardinality(C) \in Nat
         /\ Cardinality(B) <= Cardinality(A) + Cardinality(C)
<1>1. /\ IsFiniteSet(A \cup C)
      /\ Cardinality(A \cup C) = Cardinality(A) + Cardinality(C)
                                   - Cardinality(A \cap C)
  BY FS_Union
<1>2. IsFiniteSet(B) /\ Cardinality(B) <= Cardinality(A \cup C)
  BY <1>1, FS_Subset
<1>3. IsFiniteSet(A \cap C)
  BY FS_Subset
<1>. QED  BY <1>1, <1>2, <1>3, FS_CardinalityType

(* The elements of a sequence behind the first s, up to the t-th: at most  *)
(* t - s, and the elements behind s are these and those behind t.          *)
Slice(q, s, t) == {q[k] : k \in (s + 1)..t}

LEMMA SliceIsBounded ==
  ASSUME NEW S, NEW q \in Seq(S), NEW s \in Nat, NEW n \in Nat,
         s + n <= Len(q)
  PROVE  /\ IsFiniteSet(Slice(q, s, s + n))
         /\ Cardinality(Slice(q, s, s + n)) \in Nat
         /\ Cardinality(Slice(q, s, s + n)) <= n
         /\ Slice(q, s, Len(q))
              \subseteq Slice(q, s + n, Len(q)) \cup Slice(q, s, s + n)
         /\ \A m \in Slice(q, s, s + n) : \E k \in DOMAIN q : m = q[k]
<1> DEFINE I == (s + 1)..(s + n)
<1>1. IsFiniteSet(I) /\ Cardinality(I) = n
  <2>1. /\ s + 1 \in Int /\ s + n \in Int
        /\ s + n - (s + 1) + 1 = n
        /\ s + 1 > s + n => n = 0
    OBVIOUS
  <2>. QED  BY <2>1, FS_Interval
<1>2. Slice(q, s, s + n) = {q[k] : k \in I}
  BY DEF Slice
<1>3. /\ Len(q) \in Nat /\ DOMAIN q = 1..Len(q)
  OBVIOUS
<1>4. \A k \in (s + 1)..Len(q) : k \in I \/ k \in (s + n + 1)..Len(q)
  BY <1>3
<1>5. \A k \in I : k \in DOMAIN q
  BY <1>3
<1>. HIDE DEF I
<1>6. /\ IsFiniteSet(Slice(q, s, s + n))
      /\ Cardinality(Slice(q, s, s + n)) <= Cardinality(I)
  <2> DEFINE f == [k \in I |-> q[k]]
  <2>1. f \in Surjection(I, Slice(q, s, s + n))
    BY <1>2 DEF Surjection
  <2>. HIDE DEF f
  <2>. QED  BY <1>1, <2>1, FS_Surjection
<1>7. Cardinality(Slice(q, s, s + n)) \in Nat
  BY <1>6, FS_CardinalityType
<1>8. Slice(q, s, Len(q)) \subseteq Slice(q, s + n, Len(q)) \cup {q[k] : k \in I}
  BY <1>4 DEF Slice
<1>. QED  BY <1>1, <1>2, <1>5, <1>6, <1>7, <1>8

(* A batch that is settled has at most BatchSize messages, and what waited *)
(* before waits still or is in the batch.                                  *)
LEMMA BatchIsBounded ==
  ASSUME SendTyped, Pipe!Settle
  PROVE  /\ IsFiniteSet(Batch) /\ Cardinality(Batch) \in Nat
         /\ Cardinality(Batch) <= BatchSize
         /\ Waiting \subseteq Waiting' \cup Batch
         /\ \A m \in Batch : \E k \in DOMAIN accepted : m = accepted[k]
<1>1. PICK n \in 1..BatchSize : settled' = settled + n
  BY DEF Pipe!Settle
<1>2. /\ n \in Nat /\ n <= BatchSize /\ BatchSize \in Nat
      /\ settled \in Nat /\ accepted \in Seq(Messages)
  BY BatchSizePositive DEF SendTyped
<1>3. settled + n <= Len(accepted) /\ accepted' = accepted
  BY <1>1 DEF Pipe!Settle
<1>4. /\ Batch = Slice(accepted, settled, settled + n)
      /\ Waiting = Slice(accepted, settled, Len(accepted))
      /\ Waiting' = Slice(accepted, settled + n, Len(accepted))
  BY <1>1, <1>3 DEF Batch, Waiting, Slice
<1>5. /\ IsFiniteSet(Batch) /\ Cardinality(Batch) \in Nat
      /\ Cardinality(Batch) <= n
      /\ Waiting \subseteq Waiting' \cup Batch
      /\ \A m \in Batch : \E k \in DOMAIN accepted : m = accepted[k]
  BY <1>2, <1>3, <1>4, SliceIsBounded
<1>. QED  BY <1>2, <1>5

(* ... what is stored and what is lost ...                                 *)
LEMMA LossCountedStays ==
  ASSUME SendTyped, LossCounted, [Next]_vars
  PROVE  LossCounted'
<1>. USE DEF LossCounted, Lost, Waiting
<1>0. BatchSize \in Nat \ {0}
  BY BatchSizePositive
<1>1. ASSUME NEW c \in Conns, Send(c)  PROVE LossCounted'
  BY <1>1 DEF Send, redisVars, mainVars, metricVars, pipeVars, Go
<1>2. ASSUME NEW c \in Conns, Attempt(c)  PROVE LossCounted'
  BY <1>2 DEF Attempt, mainVars, metricVars, pipeVars, Go
<1>3. ASSUME NEW c \in Conns, Answer(c)  PROVE LossCounted'
  BY <1>3 DEF Answer, redisVars, mainVars, pipeVars, Go
<1>4. ASSUME NEW c \in Conns, NoAnswer(c)  PROVE LossCounted'
  BY <1>4 DEF NoAnswer, redisVars, mainVars, metricVars, pipeVars, Go
<1>5. ASSUME NEW c \in Conns, GiveUp(c)  PROVE LossCounted'
  BY <1>5 DEF GiveUp, redisVars, mainVars, metricVars, pipeVars, Go
<1>6. ASSUME NEW c \in Conns, Persist(c)  PROVE LossCounted'
  <2> DEFINE m == <<c, current[c]>>
  <2>1. acked' = acked \cup {m} /\ UNCHANGED <<settled, stored, persistFailed>>
    BY <1>6 DEF Persist, Pipe!Accept, pipeVars, storeVars
  <2>2. IsFiniteSet(acked') /\ stored' \subseteq acked'
    BY <2>1, FS_AddElement
  <2>3. CASE accepted' = Append(accepted, m) /\ UNCHANGED persistDropped
    <3> HIDE DEF m
    <3>1. /\ Len(accepted') = Len(accepted) + 1 /\ accepted'[Len(accepted')] = m
          /\ \A k \in DOMAIN accepted' :
               accepted'[k] = m \/ (k \in DOMAIN accepted /\ accepted'[k] = accepted[k])
          /\ \A k \in DOMAIN accepted :
               k \in DOMAIN accepted' /\ accepted'[k] = accepted[k]
          /\ Len(accepted) \in Nat /\ DOMAIN accepted = 1..Len(accepted)
      BY <2>3 DEF SendTyped
    <3>2. /\ settled \in Nat /\ settled <= Len(accepted)
      BY DEF SendTyped, TypeOK
    <3>3. \A k \in DOMAIN accepted' : accepted'[k] \in acked'
      BY <3>1, <2>1
    <3>4. Waiting \cup {m} \subseteq Waiting'
      <4>1. \A k \in (settled + 1)..Len(accepted) :
              /\ k \in (settled' + 1)..Len(accepted')
              /\ accepted'[k] = accepted[k]
        BY <3>1, <3>2, <2>1
      <4>2. Len(accepted') \in (settled' + 1)..Len(accepted')
        BY <3>1, <3>2, <2>1
      <4>. QED  BY <4>1, <4>2, <3>1
    <3>5. Lost' \subseteq Lost
      <4>. HIDE DEF Waiting
      <4>. QED  BY <3>4, <2>1
    <3>6. Cardinality(Lost') <= Cardinality(Lost) /\ Cardinality(Lost') \in Nat
          /\ Cardinality(Lost) \in Nat
      <4>1. IsFiniteSet(Lost)
        BY FS_Subset
      <4>. HIDE DEF Lost
      <4>. QED  BY <4>1, <3>5, FS_Subset, FS_CardinalityType
    <3>7. Cardinality(Lost') <= persistDropped' + BatchSize * persistFailed'
      <4>1. BatchSize * persistFailed \in Nat /\ persistDropped \in Nat
        BY <1>0 DEF SendTyped
      <4>. HIDE DEF Lost
      <4>. QED  BY <3>6, <4>1, <2>1, <2>3
    <3>. QED  BY <2>2, <3>3, <3>7
  <2>4. CASE UNCHANGED accepted /\ persistDropped' = persistDropped + 1
    <3>1. Lost' \subseteq Lost \cup {m}
      BY <2>1, <2>4
    <3>2. \A k \in DOMAIN accepted' : accepted'[k] \in acked'
      BY <2>1, <2>4
    <3>3. /\ Cardinality(Lost') \in Nat /\ Cardinality(Lost) \in Nat
          /\ Cardinality(Lost') <= Cardinality(Lost) + 1
      <4>1. IsFiniteSet(Lost) /\ IsFiniteSet({m}) /\ Cardinality({m}) = 1
        BY FS_Subset, FS_Singleton
      <4>. HIDE DEF Lost, m
      <4>. QED  BY <4>1, <3>1, LossGrows
    <3>4. Cardinality(Lost') <= persistDropped' + BatchSize * persistFailed'
      <4>1. BatchSize * persistFailed \in Nat /\ persistDropped \in Nat
        BY <1>0 DEF SendTyped
      <4>. HIDE DEF Lost
      <4>. QED  BY <3>3, <4>1, <2>1, <2>4
    <3>. QED  BY <2>2, <3>2, <3>4
  <2>. QED  BY <2>3, <2>4, <1>6 DEF Persist, Pipe!Accept, pipeVars
<1>7. ASSUME NEW c \in Conns, Disconnect(c)  PROVE LossCounted'
  BY <1>7 DEF Disconnect, redisVars, mainVars, metricVars, pipeVars
<1>8. ASSUME NEW c \in Conns, PumpEnds(c)  PROVE LossCounted'
  BY <1>8 DEF PumpEnds, redisVars, mainVars, metricVars, pipeVars, Go
<1>9. ASSUME NEW cmd \in pending, Execute(cmd)  PROVE LossCounted'
  BY <1>9 DEF Execute, Awaited, mainVars, metricVars, pipeVars, Go
<1>10. CASE Shutdown
  BY <1>10 DEF Shutdown, redisVars, metricVars, pipeVars
<1>11. CASE ShutdownReturns
  BY <1>11 DEF ShutdownReturns, AllEnded, pumpVars, redisVars, metricVars,
     pipeVars
<1>12. CASE ClosePipe
  BY <1>12 DEF ClosePipe, Pipe!Shut, Pipe!Finish, pumpVars, redisVars,
     mainVars, metricVars, storeVars
<1>13. CASE Settle
  <2>1. UNCHANGED <<acked, accepted, persistDropped>> /\ Pipe!Settle
    BY <1>13 DEF Settle, Pipe!Settle, pumpVars, metricVars
  <2>2. /\ IsFiniteSet(Batch) /\ Cardinality(Batch) <= BatchSize
        /\ Waiting \subseteq Waiting' \cup Batch /\ Batch \subseteq acked
    BY <2>1, BatchIsBounded
  <2>3. stored' \in {stored, stored \cup Batch}
    BY <1>13 DEF Settle
  <2>4. IsFiniteSet(Lost)
    BY FS_Subset
  <2>5. BatchSize * persistFailed \in Nat /\ persistDropped \in Nat
        /\ persistFailed \in Nat
    BY <1>0 DEF SendTyped
  <2>6. CASE stored' = stored \cup Batch /\ UNCHANGED persistFailed
    <3>1. Lost' \subseteq Lost
      <4>. HIDE DEF Waiting
      <4>. QED  BY <2>1, <2>2, <2>6
    <3>2. /\ Cardinality(Lost') <= Cardinality(Lost)
          /\ Cardinality(Lost') \in Nat /\ Cardinality(Lost) \in Nat
      <4>. HIDE DEF Lost
      <4>. QED  BY <3>1, <2>4, FS_Subset, FS_CardinalityType
    <3>. HIDE DEF Lost
    <3>. QED  BY <3>2, <2>1, <2>2, <2>3, <2>5, <2>6
  <2>7. CASE persistFailed' = persistFailed + 1
    <3>1. Lost' \subseteq Lost \cup Batch
      <4>. HIDE DEF Waiting
      <4>. QED  BY <2>1, <2>2, <2>3
    <3>2. /\ Cardinality(Lost') <= Cardinality(Lost) + Cardinality(Batch)
          /\ Cardinality(Lost') \in Nat /\ Cardinality(Lost) \in Nat
          /\ Cardinality(Batch) \in Nat
      <4>. HIDE DEF Lost
      <4>. QED  BY <3>1, <2>2, <2>4, LossGrows
    <3>3. BatchSize * persistFailed' = BatchSize * persistFailed + BatchSize
      BY <2>5, <2>7, <1>0
    <3>4. Cardinality(Lost') <= persistDropped' + BatchSize * persistFailed'
      <4>. HIDE DEF Lost
      <4>. QED  BY <3>2, <3>3, <2>1, <2>2, <2>5, <1>0
    <3>. QED  BY <3>4, <2>1, <2>2, <2>3
  <2>. QED  BY <2>6, <2>7, <1>13 DEF Settle
<1>14. CASE UNCHANGED vars
  BY <1>14 DEF vars, pumpVars, redisVars, mainVars, metricVars, pipeVars
<1>. QED
  BY <1>1, <1>2, <1>3, <1>4, <1>5, <1>6, <1>7, <1>8, <1>9, <1>10, <1>11,
     <1>12, <1>13, <1>14 DEF Next, Pump, Finished

(* ... and how the pipeline is closed.                                     *)
LEMMA CloseInvStays ==
  ASSUME SendTyped, CloseInv, [Next]_vars
  PROVE  CloseInv'
<1>. USE DEF CloseInv
<1>1. ASSUME NEW c \in Conns, Send(c)  PROVE CloseInv'
  <2>1. graceful => AllEnded'
    BY <1>1 DEF Send, AllEnded, Go, SendTyped, TypeOK
  <2>. QED  BY <2>1, <1>1 DEF Send, mainVars, metricVars, pipeVars
<1>2. ASSUME NEW c \in Conns, Attempt(c)  PROVE CloseInv'
  <2>1. graceful => AllEnded'
    BY <1>2 DEF Attempt, AllEnded, Go, SendTyped, TypeOK
  <2>. QED  BY <2>1, <1>2 DEF Attempt, mainVars, metricVars, pipeVars
<1>3. ASSUME NEW c \in Conns, Answer(c)  PROVE CloseInv'
  <2>1. graceful => AllEnded'
    BY <1>3 DEF Answer, AllEnded, Go, SendTyped, TypeOK
  <2>. QED  BY <2>1, <1>3 DEF Answer, mainVars, metricVars, pipeVars
<1>4. ASSUME NEW c \in Conns, NoAnswer(c)  PROVE CloseInv'
  <2>1. graceful => AllEnded'
    BY <1>4 DEF NoAnswer, AllEnded, Go, SendTyped, TypeOK
  <2>. QED  BY <2>1, <1>4 DEF NoAnswer, mainVars, metricVars, pipeVars
<1>5. ASSUME NEW c \in Conns, GiveUp(c)  PROVE CloseInv'
  <2>1. graceful => AllEnded'
    BY <1>5 DEF GiveUp, AllEnded, Go, SendTyped, TypeOK
  <2>. QED  BY <2>1, <1>5 DEF GiveUp, mainVars, metricVars, pipeVars
<1>6. ASSUME NEW c \in Conns, Persist(c)  PROVE CloseInv'
  <2>1. ~graceful
    BY <1>6 DEF Persist, AllEnded
  <2>2. UNCHANGED <<main, graceful, mode, settled>>
    BY <1>6 DEF Persist, mainVars, pipeVars, Pipe!Accept
  <2>3. mode = "open" => lateDrops' = 0
    BY <1>6 DEF Persist, SendTyped
  <2>4. mode = "closed" => accepted' = accepted
    BY <1>6 DEF Persist, Pipe!Accept, pipeVars
  <2>. QED  BY <2>1, <2>2, <2>3, <2>4
<1>7. ASSUME NEW c \in Conns, Disconnect(c)  PROVE CloseInv'
  BY <1>7 DEF Disconnect, AllEnded, redisVars, mainVars, metricVars, pipeVars
<1>8. ASSUME NEW c \in Conns, PumpEnds(c)  PROVE CloseInv'
  <2>1. graceful => AllEnded'
    BY <1>8 DEF PumpEnds, AllEnded, Go, SendTyped, TypeOK
  <2>. QED  BY <2>1, <1>8 DEF PumpEnds, mainVars, metricVars, pipeVars
<1>9. ASSUME NEW cmd \in pending, Execute(cmd)  PROVE CloseInv'
  <2>1. cmd[1] \in Conns
    BY <1>9, ExecuteAppends
  <2>2. graceful => AllEnded'
    BY <2>1, <1>9 DEF Execute, Awaited, AllEnded
  <2>. QED  BY <2>2, <1>9 DEF Execute, mainVars, metricVars, pipeVars
<1>10. CASE Shutdown
  BY <1>10 DEF Shutdown, AllEnded, redisVars, metricVars, pipeVars
<1>11. CASE ShutdownReturns
  BY <1>11 DEF ShutdownReturns, AllEnded, pumpVars, redisVars, metricVars,
     pipeVars
<1>12. CASE ClosePipe
  BY <1>12 DEF ClosePipe, Pipe!Shut, Pipe!Finish, AllEnded, pumpVars,
     redisVars, mainVars, metricVars
<1>13. CASE Settle
  BY <1>13 DEF Settle, Pipe!Settle, AllEnded, pumpVars, redisVars, mainVars,
     metricVars
<1>14. CASE UNCHANGED vars
  BY <1>14 DEF AllEnded, vars, pumpVars, redisVars, mainVars,
     metricVars, pipeVars
<1>. QED
  BY <1>1, <1>2, <1>3, <1>4, <1>5, <1>6, <1>7, <1>8, <1>9, <1>10, <1>11,
     <1>12, <1>13, <1>14 DEF Next, Pump, Finished

-----------------------------------------------------------------------------
(* The invariant holds in every state.                                     *)
THEOREM SendIndInvHolds == Spec => []SendIndInv
<1>1. Init => SendIndInv
  <2>. SUFFICES ASSUME Init  PROVE SendIndInv
    OBVIOUS
  <2>1. SendTyped
    <3>1. 0 \in 0..MaxSends /\ 0 \in 0..MaxAttempts
      BY SendAssumption
    <3>2. /\ pc \in [Conns -> {"read", "publish", "wait", "answered", "persist",
                             "ended"}]
          /\ current \in [Conns -> 0..MaxSends]
          /\ tries \in [Conns -> 0..MaxAttempts]
          /\ heard \in [Conns -> Seq(1..MaxSends)]
      BY <3>1 DEF Init
    <3>3. accepted = <<>> /\ settled = 0 /\ mode = "open" /\ Len(accepted) = 0
      BY DEF Init, Pipe!AbstractInit
    <3>4. TypeOK
      BY <3>2, <3>3 DEF Init, TypeOK
    <3>5. accepted \in Seq(Messages) /\ settled \in Nat
      BY <3>3
    <3>6. /\ messagesPublished \in Nat /\ persistQueued \in Nat
          /\ persistDropped \in Nat /\ lateDrops \in Nat
          /\ persistFailed \in Nat /\ graceful \in BOOLEAN
      BY DEF Init
    <3>. QED  BY <3>2, <3>4, <3>5, <3>6 DEF SendTyped
  <2>2. CountersAgree
    <3>1. {c \in Conns : pc[c] = "persist"} = {}
      BY DEF Init
    <3>. QED  BY <3>1, FS_EmptySet DEF Init, CountersAgree
  <2>3. LossCounted
    <3>1. acked = {} /\ stored = {} /\ accepted = <<>> /\ Lost = {}
      BY DEF Init, Pipe!AbstractInit, Lost
    <3>2. persistDropped + BatchSize * persistFailed = 0
      BY SendAssumption DEF Init, SendAssumption
    <3>. QED  BY <3>1, <3>2, FS_EmptySet DEF LossCounted
  <2>4. PumpInv /\ AckedInOrder /\ CloseInv
    BY DEF Init, Pipe!AbstractInit, PumpInv, AckedInOrder, CloseInv
  <2>5. NothingAhead
    BY DEF Init, NothingAhead
  <2>. QED  BY <2>1, <2>2, <2>3, <2>4, <2>5 DEF SendIndInv
<1>2. SendIndInv /\ [Next]_vars => SendIndInv'
  BY SendTypedStays, PumpInvStays, NothingAheadStays, AckedInOrderStays,
     CountersAgreeStays, LossCountedStays, CloseInvStays DEF SendIndInv
<1>. QED  BY <1>1, <1>2, PTL DEF Spec

(* What is heard of a sender are natural numbers.                          *)
LEMMA HeardAreNaturals ==
  ASSUME SendIndInv, NEW c \in Conns
  PROVE  heard[c] \in Seq(Nat)
<1>1. heard[c] \in Seq(1..MaxSends) /\ 1..MaxSends \subseteq Nat
  BY DEF SendIndInv, SendTyped
<1>. QED  BY <1>1, SeqMonotonic

(* The metrics of Send and of the pipeline agree: a published message is   *)
(* queued, dropped, or on its way to the queue.                            *)
THEOREM CountersOfSendAgree == Spec => []SendInv
<1>1. SendIndInv => SendInv
  BY DEF SendIndInv, SendTyped, SendInv
<1>. QED  BY <1>1, SendIndInvHolds, PTL

(* Whatever enters the pipeline was carried by the channel before, though  *)
(* retries and late commands may have carried it more than once.           *)
THEOREM HistoryWasHeard == Spec => []StoredWasHeard
<1>1. SendIndInv => StoredWasHeard
  <2>. SUFFICES ASSUME SendIndInv, NEW k \in DOMAIN accepted
                PROVE  FirstAt(accepted[k][1], accepted[k][2]) # 0
    BY DEF StoredWasHeard
  <2>1. PICK c \in Conns, i \in 1..MaxSends : accepted[k] = <<c, i>>
    <3>1. accepted[k] \in Messages
      BY DEF SendIndInv, SendTyped, LossCounted, TypeOK
    <3>. QED  BY <3>1 DEF Messages
  <2>2. <<c, i>> \in acked
    BY <2>1 DEF SendIndInv, LossCounted
  <2>3. Holds(heard[c], i) /\ heard[c] \in Seq(Nat)
    BY <2>2, HeardAreNaturals DEF SendIndInv, AckedInOrder
  <2>. QED  BY <2>1, <2>3, FirstAtIsFirst
<1>. QED  BY <1>1, SendIndInvHolds, PTL

(* The first copies of two acknowledged messages of a sender are heard in  *)
(* the order in which it sent them.                                        *)
THEOREM SendersAreHeardInOrder == Spec => []HeardInOrder
<1>1. SendIndInv => HeardInOrder
  <2>. SUFFICES ASSUME SendIndInv, NEW c \in Conns,
                       NEW i \in 1..MaxSends, <<c, i>> \in acked
                PROVE  /\ FirstAt(c, i) # 0
                       /\ \A j \in 1..MaxSends :
                            <<c, j>> \in acked /\ i < j => FirstAt(c, i) < FirstAt(c, j)
    BY DEF HeardInOrder
  <2>1. Holds(heard[c], i) /\ heard[c] \in Seq(Nat)
    BY HeardAreNaturals DEF SendIndInv, AckedInOrder
  <2>2. FirstAt(c, i) # 0
    BY <2>1, FirstAtIsFirst
  <2>3. ASSUME NEW j \in 1..MaxSends, <<c, j>> \in acked, i < j
        PROVE  FirstAt(c, i) < FirstAt(c, j)
    <3>1. Holds(heard[c], j) /\ Before(heard[c], i, j)
      BY <2>3 DEF SendIndInv, AckedInOrder
    <3>2. FirstAt(c, j) \in DOMAIN heard[c] /\ heard[c][FirstAt(c, j)] = j
      BY <3>1, <2>1, FirstAtIsFirst
    <3>3. PICK k \in DOMAIN heard[c] : k < FirstAt(c, j) /\ heard[c][k] = i
      BY <3>1, <3>2 DEF Before
    <3>4. FirstAt(c, i) \in DOMAIN heard[c] /\ FirstAt(c, i) <= k
      BY <3>3, <2>1, FirstAtIsFirst
    <3>. QED  BY <2>1, <3>2, <3>3, <3>4
  <2>. QED  BY <2>2, <2>3
<1>. QED  BY <1>1, SendIndInvHolds, PTL

(* After a graceful Shutdown nothing is dropped late, and once the service *)
(* is closed the repository holds every acknowledged message, except for   *)
(* one for each counted drop and at most a batch for each failed save.     *)
THEOREM GracefulShutdownLosesNothing == Spec => []GracefulLosesNothing
<1>1. SendIndInv => GracefulLosesNothing
  <2>. SUFFICES ASSUME SendIndInv, graceful
                PROVE  /\ lateDrops = 0
                       /\ mode = "closed" =>
                            /\ stored \subseteq acked
                            /\ Cardinality(acked \ stored)
                                 <= persistDropped + BatchSize * persistFailed
    BY DEF GracefulLosesNothing
  <2>1. ASSUME mode = "closed"  PROVE Waiting = {}
    BY <2>1 DEF SendIndInv, CloseInv, SendTyped, Waiting
  <2>2. ASSUME mode = "closed"  PROVE Lost = acked \ stored
    BY <2>1, <2>2 DEF Lost
  <2>. QED  BY <2>2 DEF SendIndInv, CloseInv, LossCounted
<1>. QED  BY <1>1, SendIndInvHolds, PTL

-----------------------------------------------------------------------------
(* The pipeline of SendPath.                                               *)

(* An open pipeline has not seen the message that enqueuePersistence       *)
(* offers, so that the guard of Accept keeps out no message that the       *)
(* channel of the code would take.                                         *)
NothingRefused ==
  \A c \in Conns : pc[c] = "persist" => <<c, current[c]>> \notin ToSet(accepted)

(* The only Send of a message offers it once, after however many commands  *)
(* were repeated.                                                          *)
THEOREM PipelineRefusesNothing == Spec => []NothingRefused
<1>1. SendIndInv => NothingRefused
  <2>. SUFFICES ASSUME SendIndInv, NEW c \in Conns, pc[c] = "persist",
                       <<c, current[c]>> \in ToSet(accepted)
                PROVE  FALSE
    BY DEF NothingRefused
  <2>1. <<c, current[c]>> \in acked
    BY DEF SendIndInv, LossCounted, ToSet
  <2>2. current[c] \in 1..MaxSends
    BY <2>1 DEF SendIndInv, SendTyped, TypeOK, Messages
  <2>3. current[c] < current[c]
    BY <2>1, <2>2 DEF SendIndInv, AckedInOrder
  <2>. QED  BY <2>2, <2>3
<1>. QED  BY <1>1, SendIndInvHolds, PTL
=============================================================================
