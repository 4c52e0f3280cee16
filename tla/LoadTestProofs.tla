---------------------------- MODULE LoadTestProofs ----------------------------
(***************************************************************************)
(* Proofs about LoadTest, for any workers, rooms and number of messages:   *)
(* the accounting of the load generator.                                   *)
(***************************************************************************)
EXTENDS LoadTest, FiniteSetTheorems, FunctionTheorems, TLAPS

(* Messages that have entered the map, and those whose write has ended.    *)
Stored == {m \in Messages : m[2] <= seq[m[1]]}

Writing == {"write", "count"}

Ended == {m \in Stored : m[2] < seq[m[1]] \/ wk[m[1]] \notin Writing}

DoneReaders == {w \in Workers : reader[w] = "done"}

CountsTyped ==
  /\ sentOK \in Nat /\ sendFailed \in Nat /\ readErrors \in Nat
  /\ hand \in [Workers -> Messages \cup {None}]
  /\ served \subseteq Messages /\ echoed \subseteq Messages
  /\ samples \subseteq Messages \X Workers
  /\ rep \in [{"inflight", "samples"} -> Nat]

(* What each counter of the program counts.                                *)
CountInv ==
  /\ sentOK + sendFailed = Cardinality(Ended)
  /\ readErrors <= Cardinality(DoneReaders)
  /\ \A w \in Workers : wk[w] \in Writing => seq[w] > 0

(* A message moves from the map to one hand, and from there to one sample; *)
(* it is received only after it has entered the map.                       *)
FlowInv ==
  /\ inflight \subseteq Stored /\ served \subseteq Stored
  /\ echoed \subseteq served
  /\ \A s \in samples : s[1] \in echoed
  /\ \A w \in Workers : reader[w] = "record" =>
       /\ hand[w] \in echoed
       /\ \A s \in samples : s[1] # hand[w]
       /\ \A v \in Workers : reader[v] = "record" /\ hand[v] = hand[w] => v = w

(* Without a failed send no message is taken back, and a worker that is    *)
(* done has no reader at work.                                             *)
NothingLost ==
  sendFailed = 0 =>
    \A m \in Stored :
      \/ m \in inflight
      \/ \E w \in Workers : reader[w] = "record" /\ hand[w] = m
      \/ \E s \in samples : s[1] = m

(* The phases of the test: nobody is connected before its turn, a worker   *)
(* that is done has stopped its reader unless a send failed, and the       *)
(* report begins when all are done.                                        *)
StageInv ==
  /\ \A w \in Workers : wk[w] \in {"new", "dial"} =>
       reader[w] = "off" /\ seq[w] = 0
  /\ sendFailed = 0 => \A w \in Workers : wk[w] = "done" =>
       reader[w] \in {"off", "done"}
  /\ main = "preflight" => /\ \A w \in Workers : wk[w] = "new"
                           /\ rep = [inflight |-> 0, samples |-> 0]
                           /\ sentOK = 0
  /\ main = "report" => \A w \in Workers : wk[w] = "done"
  /\ main = "report" /\ sendFailed = 0 => rep.inflight = Cardinality(inflight)

LoadIndInv ==
  /\ LoadInv /\ CountsTyped /\ CountInv /\ FlowInv /\ NothingLost /\ StageInv
  /\ OneSamplePerMessage /\ ReportIsComplete

-----------------------------------------------------------------------------
(* The messages are finitely many.                                         *)
LEMMA MessagesFinite ==
  /\ IsFiniteSet(Messages)
  /\ Cardinality(Messages) = Cardinality(Workers) * MaxSeq
  /\ Cardinality(Workers) \in Nat
<1>1. IsFiniteSet(1..MaxSeq) /\ Cardinality(1..MaxSeq) = MaxSeq
  BY LoadAssumption, FS_Interval
<1> QED
  BY <1>1, LoadAssumption, FS_Product, FS_CardinalityType DEF Messages

(* So is every set of them.                                                *)
LEMMA SubsetsFinite ==
  ASSUME NEW M \in SUBSET Messages
  PROVE  /\ IsFiniteSet(M) /\ Cardinality(M) \in Nat
         /\ Cardinality(M) <= Cardinality(Workers) * MaxSeq
BY MessagesFinite, FS_Subset, FS_CardinalityType

-----------------------------------------------------------------------------
(* Before the start nothing is counted and nothing is under way.           *)
LEMMA InitHolds == Init => LoadIndInv
<1> SUFFICES ASSUME Init PROVE LoadIndInv
  OBVIOUS
<1>1. Stored = {} /\ Ended = {} /\ DoneReaders = {} /\ Cardinality({}) = 0
  BY FS_EmptySet, LoadAssumption DEF Init, Stored, Ended, Messages, DoneReaders
<1>2. LoadInv
  <2>1. 0 <= Cardinality(Workers) * MaxSeq /\ Cardinality(Workers) \in Nat
    BY <1>1, SubsetsFinite, MessagesFinite
  <2>2. \A w \in Workers : hand[w] = None /\ reader[w] = "off"
    BY DEF Init
  <2>3. /\ sentOK + sendFailed = 0 /\ readErrors = 0
        /\ \A w \in Workers : hand[w] # None <=> reader[w] = "record"
    BY <2>2 DEF Init
  <2>4. EchoIsMatched
    BY DEF Init, EchoIsMatched
  <2>5. /\ wk \in [Workers -> {"new", "dial", "run", "write", "count", "bye",
                               "done"}]
        /\ reader \in [Workers -> {"off", "read", "record", "done"}]
        /\ seq \in [Workers -> 0..MaxSeq]
    BY LoadAssumption DEF Init
  <2>6. /\ main \in {"preflight", "wait", "report", "exited"}
        /\ expired \in BOOLEAN /\ conn \subseteq Workers
        /\ inflight \subseteq Messages
    BY DEF Init
  <2> QED
    BY <2>1, <2>3, <2>4, <2>5, <2>6 DEF LoadInv, TypeOK
<1>3. CountsTyped
  BY DEF Init, CountsTyped
<1>4. CountInv /\ FlowInv /\ NothingLost /\ StageInv
  BY <1>1 DEF Init, CountInv, FlowInv, NothingLost, StageInv, Writing
<1>5. OneSamplePerMessage /\ ReportIsComplete
  BY DEF Init, OneSamplePerMessage, ReportIsComplete
<1> QED
  BY <1>2, <1>3, <1>4, <1>5 DEF LoadIndInv

(* The counted messages stay the same as long as no worker begins or ends  *)
(* a write.                                                                *)
LEMMA EndedStays ==
  ASSUME seq' = seq,
         \A v \in Workers : wk'[v] \in Writing <=> wk[v] \in Writing
  PROVE  Stored' = Stored /\ Ended' = Ended
BY DEF Stored, Ended, Messages

(* Counters that count messages and workers stay within their bounds.      *)
LEMMA CountsBounded ==
  ASSUME NEW E \in SUBSET Messages, NEW D \in SUBSET Workers,
         NEW ok \in Nat, NEW failed \in Nat, NEW errors \in Nat,
         ok + failed = Cardinality(E), errors <= Cardinality(D)
  PROVE  /\ ok + failed <= Cardinality(Workers) * MaxSeq
         /\ errors <= Cardinality(Workers)
<1>1. /\ Cardinality(D) <= Cardinality(Workers)
      /\ Cardinality(D) \in Nat /\ Cardinality(Workers) \in Nat
  BY LoadAssumption, FS_Subset, FS_CardinalityType
<1>2. Cardinality(E) <= Cardinality(Workers) * MaxSeq
  BY SubsetsFinite
<1> QED
  BY <1>1, <1>2

-----------------------------------------------------------------------------
(* The steps, one lemma each, or one for several that differ little.       *)
LEMMA MainKeeps ==
  ASSUME LoadIndInv, Preflight \/ Deadline
  PROVE  LoadIndInv'
<1> USE DEF LoadIndInv, LoadInv, Preflight, Deadline, workerVars, readerVars,
            statVars
<1>1. Stored' = Stored /\ Ended' = Ended /\ DoneReaders' = DoneReaders
  BY EndedStays DEF DoneReaders
<1>2. TypeOK' /\ EchoIsMatched' /\ CountsTyped'
  BY DEF TypeOK, EchoIsMatched, CountsTyped
<1>3. CountInv' /\ FlowInv' /\ NothingLost'
  BY <1>1 DEF CountInv, FlowInv, NothingLost
<1>4. StageInv' /\ OneSamplePerMessage'
  BY DEF StageInv, OneSamplePerMessage
<1>5. ReportIsComplete'
  BY DEF ReportIsComplete, StageInv
<1> QED
  BY <1>2, <1>3, <1>4, <1>5

(* The steps of a worker that leave the counters and the map alone.        *)
LEMMA WorkerMoves ==
  ASSUME LoadIndInv, main # "exited", NEW w \in Workers,
         GetToken(w) \/ Dial(w) \/ Write(w) \/ Bye(w) \/ ReadDone(w)
           \/ ServerCloses(w)
  PROVE  LoadIndInv'
<1> USE DEF LoadIndInv, LoadInv, Go, workerVars, readerVars, statVars
<1>1. /\ \A v \in Workers : wk'[v] \in Writing <=> wk[v] \in Writing
      /\ UNCHANGED <<main, seq, hand, echoed, samples, readErrors, inflight,
                     statVars, rep>>
      /\ conn' \subseteq Workers /\ expired' = expired
      /\ wk' \in [Workers -> {"new", "dial", "run", "write", "count", "bye",
                              "done"}]
  BY DEF TypeOK, Writing, GetToken, Dial, Write, Bye, ReadDone, ServerCloses
<1>2. \/ reader' = reader
      \/ wk[w] = "dial" /\ wk'[w] = "run" /\ reader[w] = "off"
         /\ reader' = [reader EXCEPT ![w] = "read"]
  <2>1. CASE Dial(w)
    BY <2>1 DEF StageInv, Dial, TypeOK
  <2>2. CASE ~Dial(w)
    BY <2>2 DEF GetToken, Write, Bye, ReadDone, ServerCloses
  <2> QED
    BY <2>1, <2>2
<1>3. \A v \in Workers : /\ reader'[v] = "record" <=> reader[v] = "record"
                         /\ reader'[v] = "done" <=> reader[v] = "done"
  BY <1>2 DEF TypeOK
<1>4. Stored' = Stored /\ Ended' = Ended /\ DoneReaders' = DoneReaders
  BY <1>1, <1>3, EndedStays DEF DoneReaders
<1>5. \/ served' = served
      \/ wk[w] = "write" /\ served' = served \cup {Content(w)}
  BY DEF GetToken, Dial, Write, Bye, ReadDone, ServerCloses
<1>6. wk[w] = "write" => Content(w) \in Stored
  BY DEF CountInv, Writing, Stored, Messages, Content, TypeOK
<1>7. TypeOK' /\ EchoIsMatched' /\ CountsTyped'
  BY <1>1, <1>2, <1>3, <1>5, <1>6
     DEF TypeOK, EchoIsMatched, CountsTyped, Stored
<1>8. CountInv'
  BY <1>1, <1>4 DEF CountInv
<1>9. FlowInv' /\ NothingLost'
  BY <1>1, <1>3, <1>4, <1>5, <1>6 DEF FlowInv, NothingLost
<1>10. StageInv'
  <2>1. wk'[w] \in {"new", "dial"} => wk[w] = "new" \/ wk' = wk
    BY DEF TypeOK, GetToken, Dial, Write, Bye, ReadDone, ServerCloses
  <2>2. wk'[w] = "done" /\ wk' # wk => reader'[w] \in {"off", "done"}
    BY DEF TypeOK, StageInv, GetToken, Dial, Write, Bye, ReadDone, ServerCloses
  <2>3. \A v \in Workers : v # w => wk'[v] = wk[v] /\ reader'[v] = reader[v]
    BY <1>2 DEF TypeOK, GetToken, Dial, Write, Bye, ReadDone, ServerCloses
  <2>4. main # "wait" => wk' = wk
    <3>1. main # "wait" => wk[w] \in {"new", "done"}
      BY DEF StageInv, TypeOK
    <3> QED
      BY <3>1 DEF GetToken, Dial, Write, Bye, ReadDone, ServerCloses
  <2> QED
    BY <1>1, <1>2, <2>1, <2>2, <2>3, <2>4 DEF StageInv, TypeOK
<1>11. OneSamplePerMessage' /\ ReportIsComplete'
  BY <1>1 DEF OneSamplePerMessage, ReportIsComplete
<1> QED
  BY <1>7, <1>8, <1>9, <1>10, <1>11

(* A message enters the map before it is written.                          *)
LEMMA StoreKeeps ==
  ASSUME LoadIndInv, main # "exited", NEW w \in Workers, Store(w)
  PROVE  LoadIndInv'
<1> USE DEF LoadIndInv, LoadInv, Store, Go, readerVars, statVars
<1> DEFINE m == <<w, seq[w] + 1>>
<1>1. /\ m \in Messages /\ m \notin Stored
      /\ inflight' = inflight \cup {m}
  <2>1. seq[w] + 1 \in 1..MaxSeq /\ seq'[w] = seq[w] + 1 /\ seq[w] \in Nat
    BY LoadAssumption DEF TypeOK
  <2> QED
    BY <2>1 DEF Stored, Messages
<1>2. Stored' = Stored \cup {m}
  <2>1. ASSUME NEW n \in Messages
        PROVE  n \in Stored' <=> n \in Stored \/ n = m
    <3>1. CASE n[1] = w
      BY <3>1 DEF Stored, Messages, TypeOK
    <3>2. CASE n[1] # w
      BY <3>2 DEF Stored, Messages, TypeOK
    <3> QED
      BY <3>1, <3>2
  <2> QED
    BY <1>1, <2>1 DEF Stored
<1>3. Ended' = Ended /\ DoneReaders' = DoneReaders
  BY DEF Ended, Stored, Messages, DoneReaders, Writing, TypeOK
<1> HIDE DEF m
<1>4. TypeOK'
  <2>1. seq' \in [Workers -> 0..MaxSeq]
    BY LoadAssumption DEF TypeOK
  <2> QED
    BY <1>1, <2>1 DEF TypeOK
<1>5. EchoIsMatched' /\ CountsTyped'
  BY <1>1, <1>2 DEF EchoIsMatched, CountsTyped, FlowInv
<1>6. CountInv'
  BY <1>3 DEF CountInv, TypeOK, Writing
<1>7. FlowInv' /\ NothingLost'
  BY <1>1, <1>2 DEF FlowInv, NothingLost
<1>8. main = "wait"
  BY DEF StageInv, TypeOK
<1>9. StageInv' /\ OneSamplePerMessage' /\ ReportIsComplete'
  BY <1>8 DEF StageInv, TypeOK, OneSamplePerMessage, ReportIsComplete
<1> QED
  BY <1>4, <1>5, <1>6, <1>7, <1>9

(* The end of a write counts its message.                                  *)
LEMMA WriteEnds ==
  ASSUME LoadIndInv, NEW w \in Workers, wk[w] \in Writing,
         seq' = seq, NEW place \in {"run", "done"}, Go(w, place)
  PROVE  /\ Stored' = Stored
         /\ Ended' = Ended \cup {Content(w)}
         /\ Cardinality(Ended') = Cardinality(Ended) + 1
<1> USE DEF LoadIndInv, LoadInv, Go
<1>1. Stored' = Stored
  BY DEF Stored
<1>2. Content(w) \in Stored /\ Content(w) \notin Ended
  BY DEF CountInv, Content, Stored, Ended, Messages, TypeOK
<1>3. Ended' = Ended \cup {Content(w)}
  BY <1>1, <1>2 DEF Ended, Stored, Messages, Content, TypeOK, Writing
<1>4. IsFiniteSet(Ended)
  BY SubsetsFinite DEF Ended, Stored
<1> QED
  BY <1>1, <1>2, <1>3, <1>4, FS_AddElement

(* A write that has succeeded is counted; its echo may be recorded by      *)
(* then.                                                                   *)
LEMMA CountSentKeeps ==
  ASSUME LoadIndInv, main # "exited", NEW w \in Workers, CountSent(w)
  PROVE  LoadIndInv'
<1> USE DEF LoadIndInv, LoadInv, CountSent, readerVars
<1>1. /\ Stored' = Stored
      /\ Cardinality(Ended') = Cardinality(Ended) + 1
      /\ DoneReaders' = DoneReaders
  BY WriteEnds DEF Writing, DoneReaders
<1>2. CountsTyped'
  BY DEF CountsTyped
<1>3. CountInv'
  BY <1>1 DEF CountInv, CountsTyped, Go, TypeOK, Writing
<1>4. TypeOK'
  <2>1. /\ Ended' \subseteq Messages /\ DoneReaders' \subseteq Workers
        /\ sentOK' \in Nat /\ sendFailed' \in Nat /\ readErrors' \in Nat
        /\ sentOK' + sendFailed' = Cardinality(Ended')
        /\ readErrors' <= Cardinality(DoneReaders')
    BY <1>2, <1>3 DEF Ended, Stored, DoneReaders, CountsTyped, CountInv
  <2>2. /\ sentOK' + sendFailed' <= Cardinality(Workers) * MaxSeq
        /\ readErrors' <= Cardinality(Workers)
    BY <2>1, CountsBounded
  <2> QED
    BY <2>2 DEF TypeOK, Go
<1>5. EchoIsMatched' /\ FlowInv' /\ NothingLost'
  BY <1>1 DEF EchoIsMatched, FlowInv, NothingLost
<1>6. main = "wait"
  BY DEF StageInv, TypeOK
<1>7. StageInv' /\ OneSamplePerMessage' /\ ReportIsComplete'
  BY <1>6 DEF StageInv, TypeOK, Go, OneSamplePerMessage, ReportIsComplete
<1> QED
  BY <1>2, <1>3, <1>4, <1>5, <1>7

(* A failed write takes the message out of the map again.                  *)
LEMMA WriteFailsKeeps ==
  ASSUME LoadIndInv, main # "exited", NEW w \in Workers, WriteFails(w)
  PROVE  LoadIndInv'
<1> USE DEF LoadIndInv, LoadInv, WriteFails, readerVars
<1>1. /\ Stored' = Stored
      /\ Cardinality(Ended') = Cardinality(Ended) + 1
      /\ DoneReaders' = DoneReaders
  BY WriteEnds DEF Writing, DoneReaders
<1>2. CountsTyped' /\ sendFailed' # 0
  BY DEF CountsTyped
<1>3. CountInv'
  BY <1>1 DEF CountInv, CountsTyped, Go, TypeOK, Writing
<1>4. TypeOK'
  <2>1. /\ Ended' \subseteq Messages /\ DoneReaders' \subseteq Workers
        /\ sentOK' \in Nat /\ sendFailed' \in Nat /\ readErrors' \in Nat
        /\ sentOK' + sendFailed' = Cardinality(Ended')
        /\ readErrors' <= Cardinality(DoneReaders')
    BY <1>2, <1>3 DEF Ended, Stored, DoneReaders, CountsTyped, CountInv
  <2>2. /\ sentOK' + sendFailed' <= Cardinality(Workers) * MaxSeq
        /\ readErrors' <= Cardinality(Workers)
    BY <2>1, CountsBounded
  <2> QED
    BY <2>2 DEF TypeOK, Go
<1>5. EchoIsMatched' /\ FlowInv' /\ NothingLost'
  BY <1>1, <1>2 DEF EchoIsMatched, FlowInv, NothingLost
<1>6. main = "wait"
  BY DEF StageInv, TypeOK
<1>7. StageInv' /\ OneSamplePerMessage' /\ ReportIsComplete'
  BY <1>2, <1>6 DEF StageInv, TypeOK, Go, OneSamplePerMessage, ReportIsComplete
<1> QED
  BY <1>2, <1>3, <1>4, <1>5, <1>7

-----------------------------------------------------------------------------
(* A reader takes an echoed message out of the map, and it alone.          *)
LEMMA ReceiveKeeps ==
  ASSUME LoadIndInv, main # "exited", NEW w \in Workers, NEW m \in Messages,
         Receive(w, m)
  PROVE  LoadIndInv'
<1> USE DEF LoadIndInv, LoadInv, Receive, Claim, workerVars, statVars
<1>1. /\ Stored' = Stored /\ Ended' = Ended /\ DoneReaders' = DoneReaders
      /\ echoed' = echoed \cup {m} /\ samples' = samples /\ m \in served
  BY EndedStays DEF DoneReaders, TypeOK
<1>2. m # None
  BY LoadAssumption DEF Messages
<1>3. CASE m \in inflight
  <2>1. /\ m \notin echoed
        /\ inflight' = inflight \ {m}
        /\ hand' = [hand EXCEPT ![w] = m]
        /\ reader' = [reader EXCEPT ![w] = "record"]
    BY <1>3 DEF EchoIsMatched
  <2>2. TypeOK'
    BY <1>2, <2>1 DEF TypeOK, CountsTyped
  <2>3. EchoIsMatched' /\ CountsTyped'
    BY <1>1, <2>1 DEF EchoIsMatched, CountsTyped
  <2>4. CountInv'
    BY <1>1 DEF CountInv
  <2>5. FlowInv'
    BY <1>1, <2>1 DEF FlowInv, TypeOK, CountsTyped
  <2>6. NothingLost'
    BY <1>1, <2>1 DEF NothingLost, TypeOK, CountsTyped
  <2>7. StageInv'
    BY <2>1 DEF StageInv, TypeOK
  <2>8. OneSamplePerMessage' /\ ReportIsComplete'
    BY DEF OneSamplePerMessage, ReportIsComplete
  <2> QED
    BY <2>2, <2>3, <2>4, <2>5, <2>6, <2>7, <2>8
<1>4. CASE m \notin inflight
  <2>1. UNCHANGED <<inflight, hand, reader>>
    BY <1>4
  <2>2. TypeOK' /\ EchoIsMatched' /\ CountsTyped'
    BY <1>1, <1>4, <2>1 DEF TypeOK, EchoIsMatched, CountsTyped
  <2>3. CountInv' /\ FlowInv' /\ NothingLost'
    BY <1>1, <2>1 DEF CountInv, FlowInv, NothingLost
  <2>4. StageInv' /\ OneSamplePerMessage' /\ ReportIsComplete'
    BY <2>1 DEF StageInv, OneSamplePerMessage, ReportIsComplete
  <2> QED
    BY <2>2, <2>3, <2>4
<1> QED
  BY <1>3, <1>4

(* The message in a reader's hand gives its only sample.                   *)
LEMMA RecordKeeps ==
  ASSUME LoadIndInv, main # "exited", NEW w \in Workers, Record(w)
  PROVE  LoadIndInv'
<1> USE DEF LoadIndInv, LoadInv, Record, workerVars, statVars
<1> DEFINE s == <<hand[w], w>>
<1>1. Stored' = Stored /\ Ended' = Ended /\ DoneReaders' = DoneReaders
  BY EndedStays DEF DoneReaders, TypeOK
<1>2. /\ s[1] = hand[w] /\ samples' = samples \cup {s}
      /\ s \in Messages \X Workers
      /\ hand[w] \in echoed
      /\ \A t \in samples : t[1] # s[1]
  BY DEF FlowInv, TypeOK, CountsTyped
<1> HIDE DEF s
<1>3. TypeOK'
  BY LoadAssumption DEF TypeOK, CountsTyped
<1>4. EchoIsMatched' /\ CountsTyped' /\ CountInv'
  BY <1>1, <1>2 DEF EchoIsMatched, CountsTyped, CountInv
<1>5. FlowInv'
  BY <1>1, <1>2 DEF FlowInv, TypeOK, CountsTyped
<1>6. NothingLost'
  BY <1>1, <1>2 DEF NothingLost, TypeOK, CountsTyped
<1>7. StageInv'
  BY DEF StageInv, TypeOK
<1>8. OneSamplePerMessage'
  BY <1>2 DEF OneSamplePerMessage
<1>9. ReportIsComplete'
  BY DEF ReportIsComplete
<1> QED
  BY <1>3, <1>4, <1>5, <1>6, <1>7, <1>8, <1>9

(* A reader that fails ends; it has no message in hand.                    *)
LEMMA ReadFailsKeeps ==
  ASSUME LoadIndInv, main # "exited", NEW w \in Workers, ReadFails(w)
  PROVE  LoadIndInv'
<1> USE DEF LoadIndInv, LoadInv, ReadFails, workerVars, statVars
<1>1. Stored' = Stored /\ Ended' = Ended
  BY EndedStays DEF TypeOK
<1>2. Cardinality(DoneReaders') = Cardinality(DoneReaders) + 1
      /\ Cardinality(DoneReaders) \in Nat
  <2>1. /\ DoneReaders' = DoneReaders \cup {w} /\ w \notin DoneReaders
        /\ DoneReaders \subseteq Workers
    BY DEF DoneReaders, TypeOK
  <2> QED
    BY <2>1, LoadAssumption, FS_Subset, FS_AddElement, FS_CardinalityType
<1>3. EchoIsMatched' /\ CountsTyped'
  BY DEF EchoIsMatched, CountsTyped
<1>4. CountInv'
  BY <1>1, <1>2 DEF CountInv, CountsTyped
<1>5. TypeOK'
  <2>1. /\ Ended' \subseteq Messages /\ DoneReaders' \subseteq Workers
        /\ sentOK' \in Nat /\ sendFailed' \in Nat /\ readErrors' \in Nat
        /\ sentOK' + sendFailed' = Cardinality(Ended')
        /\ readErrors' <= Cardinality(DoneReaders')
    BY <1>3, <1>4 DEF Ended, Stored, DoneReaders, CountsTyped, CountInv
  <2>2. /\ sentOK' + sendFailed' <= Cardinality(Workers) * MaxSeq
        /\ readErrors' <= Cardinality(Workers)
    BY <2>1, CountsBounded
  <2> QED
    BY <2>2 DEF TypeOK
<1>6. FlowInv' /\ NothingLost'
  BY <1>1 DEF FlowInv, NothingLost, TypeOK
<1>7. StageInv'
  BY DEF StageInv, TypeOK
<1>8. OneSamplePerMessage' /\ ReportIsComplete'
  BY DEF OneSamplePerMessage, ReportIsComplete
<1> QED
  BY <1>3, <1>4, <1>5, <1>6, <1>7, <1>8

-----------------------------------------------------------------------------
(* The report.  In its second step every worker is done; if no send has    *)
(* failed the readers are too, so that every stored message is in the map  *)
(* or in a sample, and every sample is of another message.                 *)
LEMMA ReportAddsUp ==
  ASSUME LoadIndInv, main = "report", sendFailed = 0
  PROVE  Cardinality(inflight) + Cardinality(samples) = sentOK
<1> USE DEF LoadIndInv, LoadInv
<1> DEFINE sampled == {m \in Messages : \E s \in samples : s[1] = m}
           first   == [s \in samples |-> s[1]]
<1>1. Stored = inflight \cup sampled /\ inflight \cap sampled = {}
  <2>1. \A w \in Workers : reader[w] # "record"
    BY DEF StageInv
  <2>2. Stored \subseteq inflight \cup sampled
    BY <2>1 DEF NothingLost, Stored
  <2>3. inflight \subseteq Stored /\ sampled \subseteq Stored
    BY DEF FlowInv
  <2>4. inflight \cap sampled = {}
    BY DEF FlowInv, EchoIsMatched
  <2> QED
    BY <2>2, <2>3, <2>4
<1>2. Ended = Stored
  BY DEF Ended, Stored, StageInv, Writing, Messages
<1>3. first \in Bijection(samples, sampled)
  <2>1. first \in [samples -> sampled]
    BY DEF CountsTyped
  <2>2. \A s, t \in samples : first[s] = first[t] => s = t
    BY DEF OneSamplePerMessage
  <2>3. \A m \in sampled : \E s \in samples : first[s] = m
    OBVIOUS
  <2> QED
    BY <2>1, <2>2, <2>3, Fun_IsBij
<1>4. IsFiniteSet(samples) /\ Cardinality(sampled) = Cardinality(samples)
  <2>1. IsFiniteSet(Messages \X Workers)
    BY MessagesFinite, LoadAssumption, FS_Product
  <2>2. IsFiniteSet(samples)
    BY <2>1, FS_Subset DEF CountsTyped
  <2>3. ExistsBijection(samples, sampled)
    BY <1>3 DEF ExistsBijection
  <2> QED
    BY <2>2, <2>3, FS_Bijection
<1>5. Cardinality(Stored) = Cardinality(inflight) + Cardinality(sampled)
  <2>1. IsFiniteSet(inflight) /\ IsFiniteSet(sampled)
    BY SubsetsFinite DEF TypeOK
  <2>2. Cardinality(inflight \cap sampled) = 0
    BY <1>1, FS_EmptySet
  <2>3. /\ Cardinality(inflight) \in Nat /\ Cardinality(sampled) \in Nat
        /\ Cardinality(inflight \cup sampled) =
             Cardinality(inflight) + Cardinality(sampled)
               - Cardinality(inflight \cap sampled)
    BY <2>1, FS_Union, FS_CardinalityType
  <2> QED
    BY <1>1, <2>2, <2>3
<1> QED
  BY <1>2, <1>4, <1>5 DEF CountInv, CountsTyped

(* The two counts of the report meet a map that nobody changes any more,   *)
(* unless a send has failed.                                               *)
LEMMA ReportKeeps ==
  ASSUME LoadIndInv, Report
  PROVE  LoadIndInv'
<1> USE DEF LoadIndInv, LoadInv, workerVars, readerVars, statVars
<1>1. /\ UNCHANGED <<expired, workerVars, readerVars, conn, inflight, served,
                     statVars>>
      /\ main' \in {"report", "exited"}
  BY DEF Report
<1>2. Stored' = Stored /\ Ended' = Ended /\ DoneReaders' = DoneReaders
  BY <1>1, EndedStays DEF DoneReaders
<1>3. /\ Cardinality(inflight) \in Nat /\ Cardinality(samples) \in Nat
  <2>1. IsFiniteSet(Messages \X Workers)
    BY MessagesFinite, LoadAssumption, FS_Product
  <2>2. IsFiniteSet(samples)
    BY <2>1, FS_Subset DEF CountsTyped
  <2> QED
    BY <2>2, SubsetsFinite, FS_CardinalityType DEF TypeOK
<1>4. CountsTyped'
  BY <1>1, <1>3 DEF CountsTyped, Report
<1>5. TypeOK' /\ EchoIsMatched' /\ OneSamplePerMessage'
  BY <1>1 DEF TypeOK, EchoIsMatched, OneSamplePerMessage
<1>6. CountInv' /\ FlowInv' /\ NothingLost'
  BY <1>1, <1>2 DEF CountInv, FlowInv, NothingLost
<1>7. StageInv'
  BY <1>1 DEF StageInv, Report, CountsTyped
<1>8. ReportIsComplete'
  <2> SUFFICES ASSUME main' = "exited", sendFailed = 0
               PROVE  rep'.inflight + rep'.samples = sentOK
    BY <1>1 DEF ReportIsComplete
  <2>1. main = "report" /\ rep' = [rep EXCEPT !.samples = Cardinality(samples)]
    BY DEF Report
  <2>2. /\ rep'.inflight = Cardinality(inflight)
        /\ rep'.samples = Cardinality(samples)
    BY <2>1 DEF StageInv, CountsTyped
  <2> QED
    BY <2>1, <2>2, ReportAddsUp
<1> QED
  BY <1>4, <1>5, <1>6, <1>7, <1>8

(* Every step of the test preserves the invariant.                         *)
LEMMA NextKeeps == LoadIndInv /\ [Next]_vars => LoadIndInv'
<1> SUFFICES ASSUME LoadIndInv, [Next]_vars PROVE LoadIndInv'
  OBVIOUS
<1>1. CASE UNCHANGED vars
  <2>1. Stored' = Stored /\ Ended' = Ended /\ DoneReaders' = DoneReaders
    BY <1>1, EndedStays DEF vars, workerVars, readerVars, DoneReaders
  <2> QED
    BY <1>1, <2>1
       DEF LoadIndInv, LoadInv, TypeOK, EchoIsMatched, CountsTyped, CountInv,
           FlowInv, NothingLost, StageInv, OneSamplePerMessage,
           ReportIsComplete, vars, workerVars, readerVars, statVars
<1>2. CASE Preflight \/ Deadline
  BY <1>2, MainKeeps
<1>3. CASE Report
  BY <1>3, ReportKeeps
<1>4. ASSUME main # "exited", NEW w \in Workers,
             Worker(w) \/ Reader(w) \/ ServerCloses(w)
      PROVE  LoadIndInv'
  BY <1>4, WorkerMoves, StoreKeeps, CountSentKeeps, WriteFailsKeeps,
     ReceiveKeeps, RecordKeeps, ReadFailsKeeps
     DEF Worker, Reader
<1> QED
  BY <1>1, <1>2, <1>3, <1>4 DEF Next

(* The inductive invariant of the load generator: the counters, the way of *)
(* a message from the map to its sample, and the phases of the test        *)
(* together.                                                               *)
THEOREM LoadIndInvHolds == Spec => []LoadIndInv
BY InitHolds, NextKeeps, PTL DEF Spec

-----------------------------------------------------------------------------
(* A message gives at most one sample, although all readers of the room    *)
(* look it up in the map that all workers share.                           *)
THEOREM SamplesAreDistinct == Spec => []OneSamplePerMessage
<1>1. LoadIndInv => OneSamplePerMessage
  BY DEF LoadIndInv
<1> QED
  BY <1>1, LoadIndInvHolds, PTL

(* Type correctness with the bounds of the counters, and no received       *)
(* message in the map.                                                     *)
THEOREM EchoesAreMatched == Spec => []LoadInv
<1>1. LoadIndInv => LoadInv
  BY DEF LoadIndInv
<1> QED
  BY <1>1, LoadIndInvHolds, PTL

(* Without a failed send the report accounts for every message sent.       *)
THEOREM ReportsAreComplete == Spec => []ReportIsComplete
<1>1. LoadIndInv => ReportIsComplete
  BY DEF LoadIndInv
<1> QED
  BY <1>1, LoadIndInvHolds, PTL
=============================================================================
