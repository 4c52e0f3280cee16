------------------------- MODULE NodeLifecycleProofs -------------------------
(***************************************************************************)
(* Proofs about NodeLifecycle, for any connections and rooms, on top of    *)
(* the invariant SubInv of RoomSubscriptions, whose steps the composition  *)
(* takes unchanged.                                                        *)
(***************************************************************************)
EXTENDS NodeLifecycle, RoomSubscriptionsProofs

Staged(P) == {c \in Conns : stage[c] \in P}

InHub      == {"joined", "drained"}
InGauge    == {"joined", "drained", "left"}
InMap      == {"registered", "joined", "drained", "left"}
InWaitGroup == {"registered", "joined", "drained", "left", "unmapped"}

(* How far a handler is says how far it is with its subscription.          *)
StageInv ==
  \A c \in Conns :
    /\ stage[c] \in {"new", "checked", "upgraded"} => sub[c] = "idle"
    /\ stage[c] = "registered" =>
         sub[c] \in {"idle", "subscribing", "held", "failed"}
    /\ stage[c] \in InHub => sub[c] = "held"
    /\ stage[c] = "left" => sub[c] \in {"held", "popped", "unhooked", "released"}
    /\ stage[c] \in {"unmapped", "done"} =>
         sub[c] \in {"idle", "failed", "released"}

(* The books of the handler, the hub and the metrics agree with that.      *)
BookInv ==
  /\ clients = Staged(InMap)
  /\ active = Cardinality(Staged(InWaitGroup))
  /\ wsActive = Cardinality(Staged(InGauge))
  /\ \A r \in Rooms : hub[r] = {c \in Staged(InHub) : RoomOf[c] = r}

(* The flag stays up and the copy of the clients covers those that are     *)
(* still registered; the service is not closed before its turn.            *)
ShutdownInv ==
  /\ closing <=> mainPc # "serve"
  /\ closing => clients \subseteq closed \cup toClose
  /\ mainPc # "closeClients" => toClose = {}
  /\ mainPc \in {"serve", "closeClients", "http"} => closeState = "open"

(* A graceful Shutdown has waited for everybody.                           *)
IdleInv ==
  graceful =>
    /\ closing
    /\ Staged(InWaitGroup) = {}
    /\ \A r \in Rooms : refs[r] = 0
    /\ live = {}

NodeIndInv ==
  /\ SubInv /\ TypeOK /\ StageInv /\ BookInv /\ ShutdownInv /\ IdleInv

-----------------------------------------------------------------------------
(* A handler that changes its stage enters or leaves the sets of handlers  *)
(* of certain stages.                                                      *)
LEMMA StagedCounts ==
  ASSUME NEW P
  PROVE  /\ IsFiniteSet(Staged(P))
         /\ Cardinality(Staged(P)) \in Nat
<1>1. Staged(P) \subseteq Conns
  BY DEF Staged
<1> QED
  BY <1>1, ConnsAssumption, FS_Subset, FS_CardinalityType

(* A handler that moves is counted at its new stage and no longer at the   *)
(* old one.                                                                *)
LEMMA StagedMoves ==
  ASSUME stage \in [Conns -> Stage], NEW c \in Conns, NEW s \in Stage,
         SetStage(c, s), NEW P
  PROVE  /\ Staged(P)' = IF s \in P THEN Staged(P) \cup {c}
                         ELSE Staged(P) \ {c}
         /\ Cardinality(Staged(P)') =
              IF s \in P
              THEN Cardinality(Staged(P)) + (IF stage[c] \in P THEN 0 ELSE 1)
              ELSE Cardinality(Staged(P)) - (IF stage[c] \in P THEN 1 ELSE 0)
<1>1. Staged(P)' = IF s \in P THEN Staged(P) \cup {c} ELSE Staged(P) \ {c}
  BY DEF Staged, SetStage
<1>2. c \in Staged(P) <=> stage[c] \in P
  BY DEF Staged
<1>3. IsFiniteSet(Staged(P)) /\ Cardinality(Staged(P)) \in Nat
  BY StagedCounts
<1>4. CASE s \in P
  <2>1. Cardinality(Staged(P) \cup {c}) =
          IF c \in Staged(P) THEN Cardinality(Staged(P))
          ELSE Cardinality(Staged(P)) + 1
    BY <1>3, FS_AddElement
  <2> QED
    BY <1>1, <1>2, <1>3, <1>4, <2>1
<1>5. CASE s \notin P
  <2>1. Cardinality(Staged(P) \ {c}) =
          IF c \in Staged(P) THEN Cardinality(Staged(P)) - 1
          ELSE Cardinality(Staged(P))
    BY <1>3, FS_RemoveElement
  <2> QED
    BY <1>1, <1>2, <1>3, <1>5, <2>1
<1> QED
  BY <1>4, <1>5

(* Nobody holds a subscription whom the handler does not count, so that no *)
(* subscription is left when its count is zero.                            *)
LEMMA NobodyWaitedForMeansIdle ==
  ASSUME SubInv, StageInv, closeState # "closed", Staged(InWaitGroup) = {},
         stage \in [Conns -> Stage]
  PROVE  (\A r \in Rooms : refs[r] = 0) /\ live = {}
<1>1. \A c \in Conns : sub[c] \in {"idle", "failed", "released"}
  BY DEF StageInv, Staged, InWaitGroup, Stage
<1>2. \A r \in Rooms : Holders(r) = {}
  BY <1>1 DEF Holders
<1>3. \A r \in Rooms : refs[r] = 0
  BY <1>2, FS_EmptySet DEF SubInv, RefsCountHolders
<1>4. \A s \in live : RoomOf[s] \in Rooms /\ s \in Conns
  BY ConnsAssumption DEF SubInv, SubTypeOK
<1>5. \A s \in live : \E c \in Conns : Popper(s) = {c}
  BY <1>3, <1>4 DEF SubInv, LiveHasOneOwner
<1>6. \A s : Popper(s) = {}
  BY <1>1 DEF Popper
<1> QED
  BY <1>3, <1>5, <1>6

(* Steps that leave the subscriptions alone keep their invariant.          *)
LEMMA SubInvStays ==
  ASSUME SubInv, UNCHANGED subVars
  PROVE  SubInv'
BY SubInvInductive

(* What a change of stage outside the WaitGroup, or within it, leaves as   *)
(* it was.                                                                 *)
LEMMA StagedStays ==
  ASSUME stage \in [Conns -> Stage], NEW c \in Conns, NEW s \in Stage,
         SetStage(c, s), NEW P, s \in P <=> stage[c] \in P
  PROVE  Staged(P)' = Staged(P)
<1>1. c \in Staged(P) <=> stage[c] \in P
  BY DEF Staged
<1> QED
  BY <1>1, StagedMoves

-----------------------------------------------------------------------------
(* At the start no handler runs and the map is empty.                      *)
LEMMA NodeInit == Init => NodeIndInv
<1> SUFFICES ASSUME Init PROVE NodeIndInv
  OBVIOUS
<1>1. SubInv
  BY InitKeeps DEF Init
<1>2. \A P : "new" \notin P => Staged(P) = {}
  BY DEF Init, Staged
<1>3. /\ Staged(InHub) = {} /\ Staged(InGauge) = {}
      /\ Staged(InMap) = {} /\ Staged(InWaitGroup) = {}
  BY <1>2 DEF InHub, InGauge, InMap, InWaitGroup
<1>4. TypeOK
  BY <1>1 DEF Init, TypeOK, SubInv, Stage, MainPc
<1>5. StageInv /\ BookInv
  BY <1>3, FS_EmptySet DEF Init, SubInit, StageInv, BookInv, InHub
<1>6. ShutdownInv /\ IdleInv
  BY DEF Init, SubInit, ShutdownInv, IdleInv
<1> QED
  BY <1>1, <1>4, <1>5, <1>6 DEF NodeIndInv

(* The checks and the upgrade at the beginning of ServeWS, failed or not:  *)
(* the handler is in nobody's books yet.                                   *)
LEMMA ArriveKeeps ==
  ASSUME NodeIndInv, NEW c \in Conns, Check(c) \/ Upgrade(c)
  PROVE  NodeIndInv'
<1> USE DEF NodeIndInv, mainVars
<1>1. /\ UNCHANGED <<subVars, closed, closing, clients, active, hub, wsActive,
                     mainVars>>
      /\ stage[c] \in {"new", "checked"}
  BY DEF Check, Upgrade
<1>2. PICK s \in {"checked", "upgraded", "done"} : SetStage(c, s)
  BY DEF Check, Upgrade
<1>3. SubInv'
  BY <1>1, SubInvStays
<1>4. TypeOK'
  BY <1>1, <1>2, <1>3 DEF TypeOK, SubInv, SetStage, Stage
<1>5. StageInv'
  BY <1>1, <1>2 DEF StageInv, SetStage, TypeOK, subVars, InHub
<1>6. /\ Staged(InHub)' = Staged(InHub) /\ Staged(InGauge)' = Staged(InGauge)
      /\ Staged(InMap)' = Staged(InMap)
      /\ Staged(InWaitGroup)' = Staged(InWaitGroup)
  BY <1>1, <1>2, StagedStays
     DEF InHub, InGauge, InMap, InWaitGroup, TypeOK, Stage
<1>7. BookInv'
  BY <1>1, <1>6 DEF BookInv
<1>8. ShutdownInv' /\ IdleInv'
  BY <1>1, <1>6 DEF ShutdownInv, IdleInv, subVars
<1> QED
  BY <1>3, <1>4, <1>5, <1>7, <1>8

(* registerClient: the handler enters the map and the WaitGroup together,  *)
(* or is refused once the flag is up.                                      *)
LEMMA RegisterKeeps ==
  ASSUME NodeIndInv, NEW c \in Conns, Register(c)
  PROVE  NodeIndInv'
<1> USE DEF NodeIndInv, mainVars
<1>1. /\ UNCHANGED <<subVars, closing, hub, wsActive, mainVars>>
      /\ stage[c] = "upgraded"
  BY DEF Register
<1>2. SubInv'
  BY <1>1, SubInvStays
<1>3. CASE ~closing
  <2>1. /\ SetStage(c, "registered") /\ closed' = closed
        /\ clients' = clients \cup {c} /\ active' = active + 1
    BY <1>3 DEF Register
  <2>2. /\ Staged(InHub)' = Staged(InHub) /\ Staged(InGauge)' = Staged(InGauge)
        /\ Staged(InMap)' = Staged(InMap) \cup {c}
        /\ Cardinality(Staged(InWaitGroup)') =
             Cardinality(Staged(InWaitGroup)) + 1
    BY <1>1, <2>1, StagedStays, StagedMoves
       DEF InHub, InGauge, InMap, InWaitGroup, TypeOK, Stage
  <2>3. TypeOK'
    BY <1>1, <1>2, <2>1 DEF TypeOK, SubInv, SetStage, Stage
  <2>4. StageInv'
    BY <1>1, <2>1 DEF StageInv, SetStage, TypeOK, subVars, InHub
  <2>5. BookInv'
    BY <1>1, <2>1, <2>2 DEF BookInv
  <2>6. ShutdownInv' /\ IdleInv'
    BY <1>1, <1>3, <2>1 DEF ShutdownInv, IdleInv, subVars
  <2> QED
    BY <1>2, <2>3, <2>4, <2>5, <2>6
<1>4. CASE closing
  <2>1. /\ SetStage(c, "done") /\ closed' = closed \cup {c}
        /\ clients' = clients /\ active' = active
    BY <1>4 DEF Register
  <2>2. /\ Staged(InHub)' = Staged(InHub) /\ Staged(InGauge)' = Staged(InGauge)
        /\ Staged(InMap)' = Staged(InMap)
        /\ Staged(InWaitGroup)' = Staged(InWaitGroup)
    BY <1>1, <2>1, StagedStays
       DEF InHub, InGauge, InMap, InWaitGroup, TypeOK, Stage
  <2>3. TypeOK'
    BY <1>1, <1>2, <2>1 DEF TypeOK, SubInv, SetStage, Stage
  <2>4. StageInv'
    BY <1>1, <2>1 DEF StageInv, SetStage, TypeOK, subVars, InHub
  <2>5. BookInv'
    BY <1>1, <2>1, <2>2 DEF BookInv
  <2>6. ShutdownInv' /\ IdleInv'
    BY <1>1, <2>1, <2>2 DEF ShutdownInv, IdleInv, subVars
  <2> QED
    BY <1>2, <2>3, <2>4, <2>5, <2>6
<1> QED
  BY <1>3, <1>4

(* The steps of Acquire and Release, taken by the handler in their stage.  *)
LEMMA SubscriptionKeeps ==
  ASSUME NodeIndInv, NEW c \in Conns, AcquireRoom(c) \/ ReleaseRoom(c)
  PROVE  NodeIndInv'
<1> USE DEF NodeIndInv, mainVars, handlerVars
<1>1. /\ UNCHANGED <<stage, closing, clients, active, hub, wsActive, mainVars>>
      /\ closed \subseteq closed' /\ closed' \subseteq Conns
      /\ Acquire(c) \/ Release(c)
  BY DEF AcquireRoom, ReleaseRoom, TypeOK
<1>2. SubInv' /\ closeState' = closeState
  <2>1. SubNext
    BY <1>1 DEF SubNext
  <2> QED
    BY <1>1, <2>1, SubInvInductive
       DEF Acquire, Release, AcquireShared, AcquireFirst, SubscribeOk,
           SubscribeFail, ReleaseShared, ReleaseLast, ReleaseMissing, Unhook,
           Unsubscribe
<1>3. \A P : Staged(P)' = Staged(P)
  BY <1>1 DEF Staged
<1>4. TypeOK'
  BY <1>1, <1>2 DEF TypeOK, SubInv
<1>5. StageInv'
  <2>1. CASE AcquireRoom(c)
    <3>1. stage[c] = "registered" /\ Acquire(c)
      BY <2>1 DEF AcquireRoom
    <3>2. \E s \in {"subscribing", "held", "failed"} : SetSub(c, s)
      BY <3>1 DEF Acquire, AcquireShared, AcquireFirst, SubscribeOk,
                  SubscribeFail
    <3> QED
      BY <1>1, <3>1, <3>2 DEF StageInv, SetSub, SubInv, SubTypeOK, InHub
  <2>2. CASE ReleaseRoom(c)
    <3>1. stage[c] = "left" /\ Release(c)
      BY <2>2 DEF ReleaseRoom
    <3>2. \E s \in {"popped", "unhooked", "released"} : SetSub(c, s)
      BY <3>1 DEF Release, ReleaseShared, ReleaseLast, ReleaseMissing, Unhook,
                  Unsubscribe
    <3> QED
      BY <1>1, <3>1, <3>2 DEF StageInv, SetSub, SubInv, SubTypeOK, InHub
  <2> QED
    BY <2>1, <2>2
<1>6. BookInv'
  BY <1>1, <1>3 DEF BookInv
<1>7. ShutdownInv'
  BY <1>1, <1>2 DEF ShutdownInv
<1>8. ~graceful
  <2>1. c \in Staged(InWaitGroup)
    BY DEF AcquireRoom, ReleaseRoom, Staged, InWaitGroup
  <2> QED
    BY <2>1 DEF IdleInv
<1>9. IdleInv'
  BY <1>1, <1>8 DEF IdleInv
<1> QED
  BY <1>2, <1>4, <1>5, <1>6, <1>7, <1>9

(* Hub.Join after a successful Acquire.                                    *)
LEMMA JoinKeeps ==
  ASSUME NodeIndInv, NEW c \in Conns, Join(c)
  PROVE  NodeIndInv'
<1> USE DEF NodeIndInv, mainVars
<1>1. /\ UNCHANGED <<subVars, closed, closing, clients, active, mainVars>>
      /\ stage[c] = "registered" /\ sub[c] = "held" /\ SetStage(c, "joined")
  BY DEF Join
<1>2. SubInv'
  BY <1>1, SubInvStays
<1>3. /\ Staged(InHub)' = Staged(InHub) \cup {c}
      /\ Cardinality(Staged(InGauge)') = Cardinality(Staged(InGauge)) + 1
      /\ Staged(InMap)' = Staged(InMap)
      /\ Staged(InWaitGroup)' = Staged(InWaitGroup)
  BY <1>1, StagedStays, StagedMoves
     DEF InHub, InGauge, InMap, InWaitGroup, TypeOK, Stage
<1>4. RoomOf[c] \in Rooms
  BY ConnsAssumption
<1>5. TypeOK'
  BY <1>1, <1>2, <1>4 DEF TypeOK, SubInv, SetStage, Stage, Join
<1>6. StageInv'
  BY <1>1 DEF StageInv, SetStage, TypeOK, subVars, InHub
<1>7. BookInv'
  <2>1. \A r \in Rooms : hub'[r] = {d \in Staged(InHub)' : RoomOf[d] = r}
    BY <1>3, <1>4 DEF BookInv, Join, TypeOK
  <2> QED
    BY <1>1, <1>3, <2>1 DEF BookInv, Join
<1>8. ShutdownInv' /\ IdleInv'
  BY <1>1, <1>3 DEF ShutdownInv, IdleInv, subVars
<1> QED
  BY <1>2, <1>5, <1>6, <1>7, <1>8

(* A pump or Shutdown closes a client.                                     *)
LEMMA ClosingKeeps ==
  ASSUME NodeIndInv, NEW c \in Conns, Disconnect(c) \/ CloseClient(c)
  PROVE  NodeIndInv'
<1> USE DEF NodeIndInv, mainVars
<1>1. /\ UNCHANGED <<subVars, stage, closing, clients, active, hub, wsActive,
                     mainPc, expired, graceful>>
      /\ closed' = closed \cup {c}
      /\ \/ toClose' = toClose
         \/ toClose' = toClose \ {c} /\ mainPc = "closeClients"
  BY DEF Disconnect, CloseClient
<1>2. SubInv'
  BY <1>1, SubInvStays
<1>3. \A P : Staged(P)' = Staged(P)
  BY <1>1 DEF Staged
<1>4. TypeOK'
  BY <1>1, <1>2 DEF TypeOK, SubInv
<1>5. StageInv' /\ BookInv'
  BY <1>1, <1>3 DEF StageInv, BookInv, subVars
<1>6. ShutdownInv' /\ IdleInv'
  BY <1>1, <1>3 DEF ShutdownInv, IdleInv, subVars
<1> QED
  BY <1>2, <1>4, <1>5, <1>6

(* Both pumps stop, then Hub.Leave.                                        *)
LEMMA LeaveKeeps ==
  ASSUME NodeIndInv, NEW c \in Conns, PumpsStop(c) \/ Leave(c)
  PROVE  NodeIndInv'
<1> USE DEF NodeIndInv, mainVars
<1>1. /\ UNCHANGED <<subVars, closed, closing, clients, active, wsActive,
                     mainVars>>
      /\ stage[c] \in InHub
      /\ \/ stage[c] = "joined" /\ SetStage(c, "drained") /\ hub' = hub
         \/ /\ stage[c] = "drained" /\ SetStage(c, "left")
            /\ hub' = [hub EXCEPT ![RoomOf[c]] = @ \ {c}]
  BY DEF PumpsStop, Leave, InHub
<1>2. PICK s \in {"drained", "left"} : SetStage(c, s)
  BY <1>1
<1>3. SubInv'
  BY <1>1, SubInvStays
<1>4. /\ Staged(InGauge)' = Staged(InGauge)
      /\ Staged(InMap)' = Staged(InMap)
      /\ Staged(InWaitGroup)' = Staged(InWaitGroup)
  BY <1>1, <1>2, StagedStays DEF InHub, InGauge, InMap, InWaitGroup, TypeOK, Stage
<1>5. RoomOf[c] \in Rooms
  BY ConnsAssumption
<1>6. TypeOK'
  BY <1>1, <1>3, <1>5 DEF TypeOK, SubInv, SetStage, Stage
<1>7. StageInv'
  BY <1>1 DEF StageInv, SetStage, TypeOK, subVars, InHub
<1>8. \A r \in Rooms : hub'[r] = {d \in Staged(InHub)' : RoomOf[d] = r}
  <2>1. CASE SetStage(c, "drained") /\ hub' = hub
    BY <1>1, <2>1, StagedStays DEF BookInv, InHub, TypeOK, Stage
  <2>2. CASE SetStage(c, "left") /\ hub' = [hub EXCEPT ![RoomOf[c]] = @ \ {c}]
    <3>1. Staged(InHub)' = Staged(InHub) \ {c}
      BY <2>2, StagedMoves DEF InHub, TypeOK, Stage
    <3> QED
      BY <1>5, <2>2, <3>1 DEF BookInv, TypeOK
  <2> QED
    BY <1>1, <2>1, <2>2
<1>9. BookInv'
  BY <1>1, <1>4, <1>8 DEF BookInv
<1>10. ShutdownInv' /\ IdleInv'
  BY <1>1, <1>4 DEF ShutdownInv, IdleInv, subVars
<1> QED
  BY <1>3, <1>6, <1>7, <1>9, <1>10

(* unregisterClient: out of the map, then out of the WaitGroup.            *)
LEMMA UnregisterKeeps ==
  ASSUME NodeIndInv, NEW c \in Conns, Unmap(c) \/ Done(c)
  PROVE  NodeIndInv'
<1> USE DEF NodeIndInv, mainVars
<1>1. SubInv' /\ UNCHANGED <<subVars, closed, closing, hub, mainVars>>
  BY SubInvStays DEF Unmap, Done
<1>2. CASE Unmap(c)
  <2>1. /\ SetStage(c, "unmapped") /\ active' = active
        /\ clients' = clients \ {c}
        /\ \/ stage[c] = "left" /\ sub[c] = "released" /\ wsActive' = wsActive - 1
           \/ stage[c] = "registered" /\ sub[c] = "failed" /\ wsActive' = wsActive
    BY <1>2 DEF Unmap
  <2>2. /\ Staged(InHub)' = Staged(InHub)
        /\ Staged(InMap)' = Staged(InMap) \ {c}
        /\ Staged(InWaitGroup)' = Staged(InWaitGroup)
    BY <2>1, StagedStays, StagedMoves
       DEF InHub, InMap, InWaitGroup, TypeOK, Stage
  <2>3. wsActive' = Cardinality(Staged(InGauge)')
    BY <2>1, StagedMoves, StagedCounts DEF BookInv, InGauge, TypeOK, Stage
  <2>4. wsActive' \in Nat
    <3>1. stage[c] = "left" => Staged(InGauge) # {}
      BY DEF Staged, InGauge
    <3>2. stage[c] = "left" => wsActive # 0
      BY <3>1, StagedCounts, FS_EmptySet DEF BookInv
    <3> QED
      BY <2>1, <3>2 DEF TypeOK
  <2>5. TypeOK'
    BY <1>1, <2>1, <2>4 DEF TypeOK, SubInv, SetStage, Stage
  <2>6. StageInv'
    BY <1>1, <2>1 DEF StageInv, SetStage, TypeOK, subVars, InHub
  <2>7. BookInv'
    BY <1>1, <2>1, <2>2, <2>3 DEF BookInv
  <2>8. ShutdownInv' /\ IdleInv'
    BY <1>1, <2>1, <2>2 DEF ShutdownInv, IdleInv, subVars
  <2> QED
    BY <1>1, <2>5, <2>6, <2>7, <2>8
<1>3. CASE Done(c)
  <2>1. /\ stage[c] = "unmapped" /\ SetStage(c, "done")
        /\ active' = active - 1 /\ UNCHANGED <<clients, wsActive>>
    BY <1>3 DEF Done
  <2>2. /\ Staged(InHub)' = Staged(InHub) /\ Staged(InGauge)' = Staged(InGauge)
        /\ Staged(InMap)' = Staged(InMap)
        /\ Staged(InWaitGroup)' = Staged(InWaitGroup) \ {c}
        /\ Cardinality(Staged(InWaitGroup)') =
             Cardinality(Staged(InWaitGroup)) - 1
    BY <2>1, StagedStays, StagedMoves
       DEF InHub, InGauge, InMap, InWaitGroup, TypeOK, Stage
  <2>3. c \in Staged(InWaitGroup)
    BY <2>1 DEF Staged, InWaitGroup
  <2>4. active' \in Nat
    <3>1. active # 0
      BY <2>3, StagedCounts, FS_EmptySet DEF BookInv
    <3> QED
      BY <2>1, <3>1 DEF TypeOK
  <2>5. TypeOK'
    BY <1>1, <2>1, <2>4 DEF TypeOK, SubInv, SetStage, Stage
  <2>6. StageInv'
    BY <1>1, <2>1 DEF StageInv, SetStage, TypeOK, subVars, InHub
  <2>7. BookInv'
    BY <1>1, <2>1, <2>2 DEF BookInv
  <2>8. ShutdownInv' /\ IdleInv'
    BY <1>1, <2>1, <2>2 DEF ShutdownInv, IdleInv, subVars
  <2> QED
    BY <1>1, <2>5, <2>6, <2>7, <2>8
<1> QED
  BY <1>2, <1>3

-----------------------------------------------------------------------------
(* The steps of main.                                                      *)
LEMMA MainKeeps ==
  ASSUME NodeIndInv, BeginShutdown \/ Expire \/ HttpShutdown \/ Exit
  PROVE  NodeIndInv'
<1> USE DEF NodeIndInv, handlerVars
<1>1. /\ UNCHANGED <<subVars, stage, closed, clients, active, hub, wsActive,
                     graceful>>
      /\ closing => closing'
      /\ expired' \in BOOLEAN /\ mainPc' \in MainPc
      /\ \/ mainPc = "serve" /\ mainPc' = "closeClients"
              /\ closing' /\ closing' \in BOOLEAN /\ toClose' = clients
         \/ mainPc' = mainPc /\ UNCHANGED <<closing, toClose>>
         \/ mainPc \in {"http", "closed"} /\ mainPc' \in {"service", "exited"}
              /\ UNCHANGED <<closing, toClose>>
  BY DEF BeginShutdown, Expire, HttpShutdown, Exit, MainPc, TypeOK
<1>2. SubInv' /\ \A P : Staged(P)' = Staged(P)
  BY <1>1, SubInvStays DEF Staged
<1>3. TypeOK'
  BY <1>1, <1>2 DEF TypeOK, SubInv
<1>4. StageInv' /\ BookInv'
  BY <1>1, <1>2 DEF StageInv, BookInv, subVars
<1>5. ShutdownInv'
  BY <1>1 DEF ShutdownInv, subVars
<1>6. IdleInv'
  BY <1>1, <1>2 DEF IdleInv, subVars
<1> QED
  BY <1>2, <1>3, <1>4, <1>5, <1>6

(* Shutdown returns nil only when the WaitGroup is at zero: this is where  *)
(* the node becomes idle.                                                  *)
LEMMA ShutdownReturnsKeeps ==
  ASSUME NodeIndInv, ShutdownReturns
  PROVE  NodeIndInv'
<1> USE DEF NodeIndInv, handlerVars, ShutdownReturns
<1>1. SubInv' /\ \A P : Staged(P)' = Staged(P)
  BY SubInvStays DEF Staged
<1>2. TypeOK'
  BY <1>1 DEF TypeOK, SubInv, MainPc
<1>3. StageInv' /\ BookInv'
  BY <1>1 DEF StageInv, BookInv, subVars
<1>4. ShutdownInv'
  BY DEF ShutdownInv, subVars
<1>5. active = 0 => Staged(InWaitGroup) = {}
  BY StagedCounts, FS_EmptySet DEF BookInv
<1>6. active = 0 => (\A r \in Rooms : refs[r] = 0) /\ live = {}
  BY <1>5, NobodyWaitedForMeansIdle DEF ShutdownInv, TypeOK
<1>7. IdleInv'
  BY <1>1, <1>5, <1>6 DEF IdleInv, ShutdownInv, subVars
<1> QED
  BY <1>1, <1>2, <1>3, <1>4, <1>7

(* A step of MessageService.Close on the subscriptions.                    *)
LEMMA CloseServiceKeeps ==
  ASSUME NodeIndInv, CloseService
  PROVE  NodeIndInv'
<1> USE DEF NodeIndInv, handlerVars, CloseService
<1>1. SubInv' /\ \A P : Staged(P)' = Staged(P)
  BY SubInvInductive DEF SubNext, Staged
<1>2. sub' = sub
  BY DEF CloseSubs, CloseLock, CloseRoom, CloseBroker
<1>3. mainPc = "service" /\ mainPc' \in {"service", "closed"}
  OBVIOUS
<1>4. TypeOK'
  BY <1>1, <1>3 DEF TypeOK, SubInv, MainPc
<1>5. StageInv' /\ BookInv'
  BY <1>1, <1>2 DEF StageInv, BookInv
<1>6. ShutdownInv'
  BY <1>3 DEF ShutdownInv
<1>7. IdleInv'
  BY <1>1 DEF IdleInv, CloseSubs, CloseLock, CloseRoom, CloseBroker, Unclosed
<1> QED
  BY <1>1, <1>4, <1>5, <1>6, <1>7

(* Every step of the node preserves the invariant.                         *)
LEMMA NodeNext == NodeIndInv /\ [Next]_vars => NodeIndInv'
<1> SUFFICES ASSUME NodeIndInv, [Next]_vars PROVE NodeIndInv'
  OBVIOUS
<1>1. CASE UNCHANGED vars
  <2>1. SubInv' /\ \A P : Staged(P)' = Staged(P)
    BY <1>1, SubInvStays DEF vars, handlerVars, Staged, NodeIndInv
  <2> QED
    BY <1>1, <2>1
       DEF NodeIndInv, TypeOK, SubInv, StageInv, BookInv, ShutdownInv, IdleInv,
           vars, subVars, handlerVars, mainVars
<1>2. ASSUME NEW c \in Conns, Serve(c) PROVE NodeIndInv'
  BY <1>2, ArriveKeeps, RegisterKeeps, SubscriptionKeeps, JoinKeeps,
     ClosingKeeps, LeaveKeeps, UnregisterKeeps
     DEF Serve
<1>3. CASE Main
  BY <1>3, MainKeeps, ClosingKeeps, ShutdownReturnsKeeps, CloseServiceKeeps
     DEF Main
<1> QED
  BY <1>1, <1>2, <1>3 DEF Next, Exited

(* The inductive invariant of the node: stages, books, the shutdown flag   *)
(* and the subscriptions together.                                         *)
THEOREM NodeIndInvHolds == Spec => []NodeIndInv
BY NodeInit, NodeNext, PTL DEF Spec

-----------------------------------------------------------------------------
(* Every behaviour of the node is one of its room subscriptions: what is   *)
(* proved of SubSpec holds for the handlers, the hub and main around it.   *)
THEOREM NodeImplementsSubscriptions == Spec => SubSpec
<1>1. Init => SubInit
  BY DEF Init
<1>2. [Next]_vars => [SubNext]_subVars
  <2> SUFFICES ASSUME [Next]_vars PROVE [SubNext]_subVars
    OBVIOUS
  <2>1. CASE UNCHANGED vars
    BY <2>1 DEF vars
  <2>2. ASSUME NEW c \in Conns, AcquireRoom(c) \/ ReleaseRoom(c)
        PROVE  SubNext
    BY <2>2 DEF AcquireRoom, ReleaseRoom, SubNext
  <2>3. ASSUME NEW c \in Conns,
               Check(c) \/ Upgrade(c) \/ Register(c) \/ Join(c)
                 \/ Disconnect(c) \/ PumpsStop(c) \/ Leave(c) \/ Unmap(c)
                 \/ Done(c) \/ CloseClient(c)
        PROVE  UNCHANGED subVars
    BY <2>3 DEF Check, Upgrade, Register, Join, Disconnect, PumpsStop, Leave,
                Unmap, Done, CloseClient
  <2>4. CASE BeginShutdown \/ Expire \/ ShutdownReturns \/ HttpShutdown \/ Exit
    BY <2>4 DEF BeginShutdown, Expire, ShutdownReturns, HttpShutdown, Exit
  <2>5. CASE CloseService
    BY <2>5 DEF CloseService, SubNext
  <2> QED
    BY <2>1, <2>2, <2>3, <2>4, <2>5 DEF Next, Serve, Main, Exited
<1> QED
  BY <1>1, <1>2, PTL DEF Spec, SubSpec

(* Types, and a client in the hub always has a live subscription behind    *)
(* its room while the service is open.                                     *)
THEOREM NoDeafClients == Spec => []NodeInv
<1>1. NodeIndInv => HubIsSubscribed
  <2> SUFFICES ASSUME NodeIndInv, closeState = "open",
                      NEW r \in Rooms, hub[r] # {}
               PROVE  refs[r] > 0 /\ subOf[r] \in live
    BY DEF HubIsSubscribed
  <2> USE DEF NodeIndInv
  <2>1. PICK c \in Conns : RoomOf[c] = r /\ stage[c] \in InHub
    BY DEF BookInv, Staged
  <2>2. sub[c] = "held"
    BY <2>1 DEF StageInv
  <2>3. refs[r] > 0
    BY <2>1, <2>2, HeldIsCounted DEF SubInv
  <2>4. subOf[r] \in closers
    BY <2>3 DEF SubInv, EntryInv, SubTypeOK
  <2> QED
    BY <2>3, <2>4 DEF SubInv, SubTypeOK
<1>2. NodeIndInv => NodeInv
  BY <1>1 DEF NodeIndInv, NodeInv
<1> QED
  BY <1>2, NodeIndInvHolds, PTL

(* Once Shutdown has gone through its copy, every registered client is     *)
(* closed: none slips in between the flag and the copy, or later.          *)
THEOREM NoClientSurvivesShutdown == Spec => []ShutdownClosesAll
<1>1. NodeIndInv => ShutdownClosesAll
  BY DEF NodeIndInv, ShutdownInv, ShutdownClosesAll
<1> QED
  BY <1>1, NodeIndInvHolds, PTL

(* A nil result of Shutdown means an idle node, from then on.              *)
THEOREM NilMeansIdle == Spec => []GracefulMeansIdle
<1>1. NodeIndInv => GracefulMeansIdle
  <2> SUFFICES ASSUME NodeIndInv, graceful
               PROVE  /\ \A r \in Rooms : hub[r] = {} /\ refs[r] = 0
                      /\ clients = {} /\ live = {} /\ closers = {}
                      /\ wsActive = 0
    BY DEF GracefulMeansIdle
  <2> USE DEF NodeIndInv
  <2>1. /\ Staged(InHub) = {} /\ Staged(InMap) = {} /\ Staged(InGauge) = {}
    BY DEF IdleInv, Staged, InHub, InMap, InGauge, InWaitGroup
  <2>2. (\A r \in Rooms : refs[r] = 0) /\ live = {} /\ closers = {}
    BY DEF IdleInv, SubInv, SubTypeOK
  <2> QED
    BY <2>1, <2>2, FS_EmptySet DEF BookInv
<1> QED
  BY <1>1, NodeIndInvHolds, PTL
=============================================================================
