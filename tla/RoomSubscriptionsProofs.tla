---------------------- MODULE RoomSubscriptionsProofs ----------------------
(***************************************************************************)
(* Proofs about RoomSubscriptions.  SubInv is the inductive invariant: it  *)
(* ties the map entries, the subscriptions that last Releases have popped  *)
(* and the exclusion by subMu together.                                    *)
(***************************************************************************)
EXTENDS RoomSubscriptions, FiniteSetTheorems, TLAPS

(* Stages of a caller whose Acquire has succeeded.                         *)
Acquired == {"held", "popped", "unhooked", "released"}

Popping == {"popped", "unhooked"}

(* While a caller is in broker.Subscribe it has subMu for itself, and its  *)
(* room has no entry.                                                      *)
LockInv ==
  /\ \A c \in Conns : sub[c] = "subscribing" =>
       closeState # "closing" /\ refs[RoomOf[c]] = 0
  /\ \A c, d \in Conns : sub[c] = "subscribing" /\ sub[d] = "subscribing"
                           => c = d

(* An entry refers to a subscription of its own room, made by a caller     *)
(* that has left Acquire, and known to the broker as long as it is live.   *)
EntryInv ==
  \A r \in Rooms :
    /\ refs[r] = 0 <=> subOf[r] = None
    /\ subOf[r] # None => RoomOf[subOf[r]] = r /\ sub[subOf[r]] \in Acquired
    /\ subOf[r] # None /\ closeState = "open" => subOf[r] \in closers
    /\ subOf[r] \in live => subOf[r] \in closers

(* A popped subscription belongs to the caller that popped it alone.       *)
VictimInv ==
  \A c \in Conns : sub[c] \in Popping =>
    /\ victim[c] \in Conns
    /\ sub[victim[c]] \in Acquired
    /\ \A r \in Rooms : subOf[r] # victim[c]
    /\ sub[c] = "unhooked" => victim[c] \notin closers
    /\ \A d \in Conns : sub[d] \in Popping /\ victim[d] = victim[c] => d = c

SubInv ==
  /\ SubTypeOK
  /\ LockInv
  /\ EntryInv
  /\ VictimInv
  /\ RefsCountHolders
  /\ LiveHasOneOwner

-----------------------------------------------------------------------------
(* The holders of a room are a finite set.                                 *)
LEMMA HoldersFinite ==
  ASSUME NEW r \in Rooms
  PROVE  /\ IsFiniteSet(Holders(r))
         /\ Cardinality(Holders(r)) \in Nat
<1>1. Holders(r) \subseteq Conns
  BY DEF Holders
<1>2. IsFiniteSet(Holders(r))
  BY <1>1, FS_Subset, ConnsAssumption
<1> QED
  BY <1>2, FS_CardinalityType

(* A caller that becomes a holder counts once, in its own room.            *)
LEMMA HolderJoins ==
  ASSUME SubTypeOK, NEW c \in Conns, sub[c] # "held", SetSub(c, "held"),
         NEW r \in Rooms
  PROVE  Cardinality(Holders(r)') =
           Cardinality(Holders(r)) + (IF r = RoomOf[c] THEN 1 ELSE 0)
<1>1. CASE r = RoomOf[c]
  <2>1. Holders(r)' = Holders(r) \cup {c}
    BY <1>1 DEF Holders, SetSub, SubTypeOK
  <2>2. c \notin Holders(r)
    BY DEF Holders
  <2> QED
    BY <1>1, <2>1, <2>2, HoldersFinite, FS_AddElement
<1>2. CASE r # RoomOf[c]
  <2>1. Holders(r)' = Holders(r)
    BY <1>2 DEF Holders, SetSub, SubTypeOK
  <2> QED
    BY <1>2, <2>1, HoldersFinite
<1> QED
  BY <1>1, <1>2

(* A holder that goes on to another stage is counted no more.              *)
LEMMA HolderLeaves ==
  ASSUME SubTypeOK, NEW c \in Conns, sub[c] = "held",
         NEW s, s # "held", SetSub(c, s), NEW r \in Rooms
  PROVE  Cardinality(Holders(r)') =
           Cardinality(Holders(r)) - (IF r = RoomOf[c] THEN 1 ELSE 0)
<1>1. CASE r = RoomOf[c]
  <2>1. Holders(r)' = Holders(r) \ {c}
    BY <1>1 DEF Holders, SetSub, SubTypeOK
  <2>2. c \in Holders(r)
    BY <1>1 DEF Holders
  <2> QED
    BY <1>1, <2>1, <2>2, HoldersFinite, FS_RemoveElement
<1>2. CASE r # RoomOf[c]
  <2>1. Holders(r)' = Holders(r)
    BY <1>2 DEF Holders, SetSub, SubTypeOK
  <2> QED
    BY <1>2, <2>1, HoldersFinite
<1> QED
  BY <1>1, <1>2

(* Other changes of stage leave the holders alone.                         *)
LEMMA HoldersStay ==
  ASSUME SubTypeOK, NEW c \in Conns, sub[c] # "held",
         NEW s, s # "held", SetSub(c, s), NEW r \in Rooms
  PROVE  Holders(r)' = Holders(r)
BY DEF Holders, SetSub, SubTypeOK

(* A held room has a positive count while the map is not emptied.          *)
LEMMA HeldIsCounted ==
  ASSUME SubTypeOK, RefsCountHolders, closeState # "closed",
         NEW c \in Conns, sub[c] = "held"
  PROVE  refs[RoomOf[c]] > 0
<1>1. RoomOf[c] \in Rooms
  BY ConnsAssumption
<1>2. c \in Holders(RoomOf[c])
  BY DEF Holders
<1>3. Cardinality(Holders(RoomOf[c])) # 0
  BY <1>1, <1>2, HoldersFinite, FS_EmptySet
<1> QED
  BY <1>1, <1>3, HoldersFinite DEF RefsCountHolders

-----------------------------------------------------------------------------
(* The steps.  Every lemma shows that one action keeps SubInv; a conjunct  *)
(* whose variables the action changes has a step of its own.               *)
LEMMA InitKeeps == SubInit => SubInv
<1> SUFFICES ASSUME SubInit PROVE SubInv
  OBVIOUS
<1>1. SubTypeOK
  BY DEF SubInit, SubTypeOK, SubStage
<1>2. LockInv /\ EntryInv /\ VictimInv /\ LiveHasOneOwner
  BY ConnsAssumption
  DEF SubInit, LockInv, EntryInv, VictimInv, LiveHasOneOwner, Popping
<1>3. RefsCountHolders
  <2>1. \A r \in Rooms : Holders(r) = {}
    BY DEF SubInit, Holders
  <2> QED
    BY <2>1, FS_EmptySet DEF SubInit, RefsCountHolders
<1> QED
  BY <1>1, <1>2, <1>3 DEF SubInv

(* A further reference.                                                    *)
LEMMA AcquireSharedKeeps ==
  ASSUME SubInv, NEW c \in Conns, AcquireShared(c)
  PROVE  SubInv'
<1>1. SubTypeOK'
  <2>1. RoomOf[c] \in Rooms /\ refs \in [Rooms -> Nat]
    BY ConnsAssumption DEF SubInv, SubTypeOK
  <2>2. refs' \in [Rooms -> Nat]
    BY <2>1 DEF AcquireShared
  <2> QED
    BY <2>2 DEF SubInv, SubTypeOK, SubStage, AcquireShared, SetSub
<1>2. LockInv'
  BY DEF SubInv, LockInv, AcquireShared, SetSub
<1>3. EntryInv'
  BY DEF SubInv, SubTypeOK, EntryInv, Acquired, AcquireShared, SetSub
<1>4. VictimInv'
  BY DEF SubInv, VictimInv, Acquired, Popping, AcquireShared, SetSub
<1>5. LiveHasOneOwner'
  BY DEF SubInv, SubTypeOK, LiveHasOneOwner, Popper, AcquireShared, SetSub
<1>6. RefsCountHolders'
  <2>1. sub[c] # "held" /\ SetSub(c, "held")
    BY DEF AcquireShared
  <2> QED
    BY <2>1, HolderJoins
    DEF SubInv, SubTypeOK, RefsCountHolders, AcquireShared
<1> QED
  BY <1>1, <1>2, <1>3, <1>4, <1>5, <1>6 DEF SubInv

(* A caller enters broker.Subscribe.                                       *)
LEMMA AcquireFirstKeeps ==
  ASSUME SubInv, NEW c \in Conns, AcquireFirst(c)
  PROVE  SubInv'
<1>1. SubTypeOK'
  BY DEF SubInv, SubTypeOK, SubStage, AcquireFirst, SetSub
<1>2. LockInv'
  BY DEF SubInv, LockInv, AcquireFirst, SetSub, SubMuFree
<1>3. EntryInv'
  BY DEF SubInv, EntryInv, AcquireFirst, SetSub
<1>4. VictimInv'
  BY DEF SubInv, VictimInv, Acquired, Popping, AcquireFirst, SetSub
<1>5. LiveHasOneOwner'
  BY DEF SubInv, LiveHasOneOwner, Popper, AcquireFirst, SetSub
<1>6. RefsCountHolders'
  <2>1. sub[c] # "held" /\ SetSub(c, "subscribing")
    BY DEF AcquireFirst
  <2> QED
    BY <2>1, HoldersStay DEF SubInv, RefsCountHolders, AcquireFirst
<1> QED
  BY <1>1, <1>2, <1>3, <1>4, <1>5, <1>6 DEF SubInv

(* The new subscription becomes the entry of its room.                     *)
LEMMA SubscribeOkKeeps ==
  ASSUME SubInv, NEW c \in Conns, SubscribeOk(c)
  PROVE  SubInv'
<1>1. SubTypeOK'
  BY DEF SubInv, SubTypeOK, SubStage, SubscribeOk, SetSub
<1>2. LockInv'
  BY DEF SubInv, SubTypeOK, LockInv, SubscribeOk, SetSub
<1>3. EntryInv'
  BY ConnsAssumption
  DEF SubInv, SubTypeOK, EntryInv, Acquired, SubscribeOk, SetSub
<1>4. VictimInv'
  BY DEF SubInv, VictimInv, Acquired, Popping, SubscribeOk, SetSub
<1>5. LiveHasOneOwner'
  <2> SUFFICES ASSUME NEW s \in live'
               PROVE  IF refs'[RoomOf[s]] > 0 /\ subOf'[RoomOf[s]] = s
                      THEN Popper(s)' = {}
                      ELSE \E d \in Conns : Popper(s)' = {d}
    BY DEF LiveHasOneOwner
  <2>1. Popper(s)' = Popper(s)
    BY DEF SubInv, Popper, SubscribeOk, SetSub
  <2>2. s \in Conns /\ RoomOf[s] \in Rooms /\ RoomOf[c] \in Rooms
    BY ConnsAssumption DEF SubInv, SubTypeOK, SubscribeOk
  <2>3. CASE s = c
    <3>1. Popper(s) = {}
      BY <2>3 DEF SubInv, VictimInv, Popper, Popping, Acquired, SubscribeOk
    <3>2. refs'[RoomOf[s]] = 1 /\ subOf'[RoomOf[s]] = s
      BY <2>2, <2>3 DEF SubInv, SubTypeOK, SubscribeOk
    <3> QED
      BY <2>1, <3>1, <3>2
  <2>4. CASE s # c
    <3>1. s \in live
      BY <2>4 DEF SubscribeOk
    <3>2. CASE RoomOf[s] = RoomOf[c]
      <4>1. refs[RoomOf[s]] = 0
        BY <3>2 DEF SubInv, LockInv, SubscribeOk
      <4>2. subOf'[RoomOf[s]] # s
        BY <2>2, <2>4, <3>2 DEF SubInv, SubTypeOK, SubscribeOk
      <4> QED
        BY <2>1, <3>1, <4>1, <4>2 DEF SubInv, LiveHasOneOwner
    <3>3. CASE RoomOf[s] # RoomOf[c]
      <4>1. /\ refs'[RoomOf[s]] = refs[RoomOf[s]]
            /\ subOf'[RoomOf[s]] = subOf[RoomOf[s]]
        BY <2>2, <3>3 DEF SubInv, SubTypeOK, SubscribeOk
      <4> QED
        BY <2>1, <3>1, <4>1 DEF SubInv, LiveHasOneOwner
    <3> QED
      BY <3>2, <3>3
  <2> QED
    BY <2>3, <2>4
<1>6. RefsCountHolders'
  <2>1. sub[c] # "held" /\ SetSub(c, "held")
    BY DEF SubscribeOk
  <2> QED
    BY <2>1, HolderJoins
    DEF SubInv, SubTypeOK, LockInv, RefsCountHolders, SubscribeOk
<1> QED
  BY <1>1, <1>2, <1>3, <1>4, <1>5, <1>6 DEF SubInv

(* A failed Subscribe leaves nothing behind.                               *)
LEMMA SubscribeFailKeeps ==
  ASSUME SubInv, NEW c \in Conns, SubscribeFail(c)
  PROVE  SubInv'
<1>1. SubTypeOK'
  BY DEF SubInv, SubTypeOK, SubStage, SubscribeFail, SetSub
<1>2. LockInv'
  BY DEF SubInv, LockInv, SubscribeFail, SetSub
<1>3. EntryInv'
  BY DEF SubInv, EntryInv, SubscribeFail, SetSub, LockInv
<1>4. VictimInv'
  BY DEF SubInv, VictimInv, Acquired, Popping, SubscribeFail, SetSub
<1>5. LiveHasOneOwner'
  BY DEF SubInv, LiveHasOneOwner, Popper, SubscribeFail, SetSub
<1>6. RefsCountHolders'
  <2>1. sub[c] # "held" /\ SetSub(c, "failed")
    BY DEF SubscribeFail
  <2> QED
    BY <2>1, HoldersStay DEF SubInv, RefsCountHolders, SubscribeFail
<1> QED
  BY <1>1, <1>2, <1>3, <1>4, <1>5, <1>6 DEF SubInv

(* One reference less.                                                     *)
LEMMA ReleaseSharedKeeps ==
  ASSUME SubInv, NEW c \in Conns, ReleaseShared(c)
  PROVE  SubInv'
<1>1. SubTypeOK'
  <2>1. RoomOf[c] \in Rooms /\ refs \in [Rooms -> Nat]
    BY ConnsAssumption DEF SubInv, SubTypeOK
  <2>2. refs' \in [Rooms -> Nat]
    BY <2>1 DEF ReleaseShared
  <2> QED
    BY <2>2 DEF SubInv, SubTypeOK, SubStage, ReleaseShared, SetSub
<1>2. LockInv'
  BY DEF SubInv, LockInv, ReleaseShared, SetSub
<1>3. EntryInv'
  BY DEF SubInv, EntryInv, Acquired, ReleaseShared, SetSub
<1>4. VictimInv'
  BY DEF SubInv, VictimInv, Acquired, Popping, ReleaseShared, SetSub
<1>5. LiveHasOneOwner'
  BY DEF SubInv, SubTypeOK, LiveHasOneOwner, Popper, ReleaseShared, SetSub
<1>6. RefsCountHolders'
  <2>1. sub[c] = "held" /\ SetSub(c, "released")
    BY DEF ReleaseShared
  <2> QED
    BY <2>1, HolderLeaves
    DEF SubInv, SubTypeOK, RefsCountHolders, ReleaseShared
<1> QED
  BY <1>1, <1>2, <1>3, <1>4, <1>5, <1>6 DEF SubInv

(* The entry becomes the victim of the caller.                             *)
LEMMA ReleaseLastKeeps ==
  ASSUME SubInv, NEW c \in Conns, ReleaseLast(c)
  PROVE  SubInv'
<1>1. SubTypeOK'
  BY ConnsAssumption DEF SubInv, SubTypeOK, SubStage, ReleaseLast, SetSub
<1>2. LockInv'
  BY DEF SubInv, LockInv, ReleaseLast, SetSub
<1>3. EntryInv'
  BY ConnsAssumption DEF SubInv, SubTypeOK, EntryInv, ReleaseLast, SetSub
<1>4. VictimInv'
  <2> DEFINE v == subOf[RoomOf[c]]
  <2>1. /\ v \in Conns
        /\ sub[v] \in Acquired
        /\ RoomOf[v] = RoomOf[c]
    <3>1. RoomOf[c] \in Rooms /\ refs[RoomOf[c]] = 1
      BY ConnsAssumption DEF ReleaseLast
    <3>2. v # None
      BY <3>1 DEF SubInv, EntryInv
    <3> QED
      BY <3>1, <3>2 DEF SubInv, SubTypeOK, EntryInv
  <2>2. /\ victim'[c] = v
        /\ \A d \in Conns \ {c} : victim'[d] = victim[d] /\ sub'[d] = sub[d]
        /\ sub'[c] = "popped"
    BY DEF SubInv, SubTypeOK, ReleaseLast, SetSub
  <2>3. \A r \in Rooms : subOf'[r] \in {subOf[r], None} /\ subOf'[r] # v
    BY <2>1, ConnsAssumption DEF SubInv, SubTypeOK, EntryInv, ReleaseLast
  <2>4. \A d \in Conns : sub[d] \in Acquired => sub'[d] \in Acquired
    BY <2>2 DEF Acquired
  <2>5. closers' = closers
    BY DEF ReleaseLast
  <2>6. \A d \in Conns : sub[d] \in Popping =>
          victim[d] \in Conns /\ victim[d] # v /\ sub[victim[d]] \in Acquired
    BY ConnsAssumption DEF SubInv, VictimInv
  <2> SUFFICES ASSUME NEW d \in Conns, sub'[d] \in Popping
               PROVE  /\ victim'[d] \in Conns
                      /\ sub'[victim'[d]] \in Acquired
                      /\ \A r \in Rooms : subOf'[r] # victim'[d]
                      /\ sub'[d] = "unhooked" => victim'[d] \notin closers'
                      /\ \A e \in Conns :
                           sub'[e] \in Popping /\ victim'[e] = victim'[d]
                             => e = d
    BY DEF VictimInv
  <2>7. CASE d = c
    BY <2>1, <2>2, <2>3, <2>4, <2>6, <2>7
  <2>8. CASE d # c
    <3>1. \A r \in Rooms : subOf[r] # victim[d]
      BY <2>2, <2>8 DEF SubInv, VictimInv
    <3>2. \A r \in Rooms : subOf'[r] # victim'[d]
      BY <2>2, <2>3, <2>6, <2>8, <3>1, ConnsAssumption
    <3>3. sub'[d] = "unhooked" => victim'[d] \notin closers'
      BY <2>2, <2>5, <2>8 DEF SubInv, VictimInv
    <3>4. \A e \in Conns : sub'[e] \in Popping /\ victim'[e] = victim'[d]
                              => e = d
      BY <2>2, <2>6, <2>8 DEF SubInv, VictimInv
    <3> QED
      BY <2>2, <2>4, <2>6, <2>8, <3>2, <3>3, <3>4
  <2> QED
    BY <2>7, <2>8
<1>5. LiveHasOneOwner'
  <2> DEFINE v == subOf[RoomOf[c]]
  <2> SUFFICES ASSUME NEW s \in live
               PROVE  IF refs'[RoomOf[s]] > 0 /\ subOf'[RoomOf[s]] = s
                      THEN Popper(s)' = {}
                      ELSE \E d \in Conns : Popper(s)' = {d}
    BY DEF LiveHasOneOwner, ReleaseLast
  <2>1. s \in Conns /\ RoomOf[s] \in Rooms /\ RoomOf[c] \in Rooms
    BY ConnsAssumption DEF SubInv, SubTypeOK
  <2>2. CASE s = v
    <3>1. RoomOf[s] = RoomOf[c] /\ refs[RoomOf[s]] = 1
      BY <2>1, <2>2, ConnsAssumption DEF SubInv, EntryInv, ReleaseLast
    <3>2. Popper(s) = {}
      BY <2>2, <3>1 DEF SubInv, LiveHasOneOwner
    <3>3. Popper(s)' = {c}
      BY <2>2, <3>2 DEF SubInv, SubTypeOK, Popper, ReleaseLast, SetSub
    <3>4. refs'[RoomOf[s]] = 0
      BY <2>1, <3>1 DEF SubInv, SubTypeOK, ReleaseLast
    <3> QED
      BY <3>3, <3>4
  <2>3. CASE s # v
    <3>1. Popper(s)' = Popper(s)
      BY <2>3 DEF SubInv, SubTypeOK, Popper, ReleaseLast, SetSub
    <3>2. CASE RoomOf[s] = RoomOf[c]
      <4>1. refs'[RoomOf[s]] = 0
        BY <2>1, <3>2 DEF SubInv, SubTypeOK, ReleaseLast
      <4> QED
        BY <2>3, <3>1, <3>2, <4>1 DEF SubInv, LiveHasOneOwner
    <3>3. CASE RoomOf[s] # RoomOf[c]
      <4>1. /\ refs'[RoomOf[s]] = refs[RoomOf[s]]
            /\ subOf'[RoomOf[s]] = subOf[RoomOf[s]]
        BY <2>1, <3>3 DEF SubInv, SubTypeOK, ReleaseLast
      <4> QED
        BY <3>1, <4>1 DEF SubInv, LiveHasOneOwner
    <3> QED
      BY <3>2, <3>3
  <2> QED
    BY <2>2, <2>3
<1>6. RefsCountHolders'
  <2>1. sub[c] = "held" /\ SetSub(c, "popped")
    BY DEF ReleaseLast
  <2> QED
    BY <2>1, HolderLeaves DEF SubInv, SubTypeOK, RefsCountHolders, ReleaseLast
<1> QED
  BY <1>1, <1>2, <1>3, <1>4, <1>5, <1>6 DEF SubInv

(* Possible only after Close: no holder is without a count before.         *)
LEMMA ReleaseMissingKeeps ==
  ASSUME SubInv, NEW c \in Conns, ReleaseMissing(c)
  PROVE  SubInv'
<1>1. SubTypeOK'
  BY DEF SubInv, SubTypeOK, SubStage, ReleaseMissing, SetSub
<1>2. LockInv'
  BY DEF SubInv, LockInv, ReleaseMissing, SetSub
<1>3. EntryInv'
  BY DEF SubInv, EntryInv, ReleaseMissing, SetSub
<1>4. VictimInv'
  BY DEF SubInv, VictimInv, Acquired, Popping, ReleaseMissing, SetSub
<1>5. LiveHasOneOwner'
  BY DEF SubInv, LiveHasOneOwner, Popper, ReleaseMissing, SetSub
<1>6. RefsCountHolders'
  <2>1. sub[c] = "held" /\ SetSub(c, "released")
    BY DEF ReleaseMissing
  <2> QED
    BY <2>1, HeldIsCounted DEF SubInv, RefsCountHolders, ReleaseMissing
<1> QED
  BY <1>1, <1>2, <1>3, <1>4, <1>5, <1>6 DEF SubInv

(* The victim is not the entry of any room.                                *)
LEMMA UnhookKeeps ==
  ASSUME SubInv, NEW c \in Conns, Unhook(c)
  PROVE  SubInv'
<1>1. SubTypeOK'
  BY DEF SubInv, SubTypeOK, SubStage, Unhook, SetSub
<1>2. LockInv'
  BY DEF SubInv, LockInv, Unhook, SetSub
<1>3. EntryInv'
  BY DEF SubInv, EntryInv, VictimInv, Acquired, Popping, Unhook, SetSub
<1>4. VictimInv'
  BY DEF SubInv, VictimInv, Acquired, Popping, Unhook, SetSub
<1>5. LiveHasOneOwner'
  BY DEF SubInv, LiveHasOneOwner, Popper, Unhook, SetSub
<1>6. RefsCountHolders'
  <2>1. sub[c] # "held" /\ SetSub(c, "unhooked")
    BY DEF Unhook
  <2> QED
    BY <2>1, HoldersStay DEF SubInv, RefsCountHolders, Unhook
<1> QED
  BY <1>1, <1>2, <1>3, <1>4, <1>5, <1>6 DEF SubInv

(* The victim ends, and no entry with it.                                  *)
LEMMA UnsubscribeKeeps ==
  ASSUME SubInv, NEW c \in Conns, Unsubscribe(c)
  PROVE  SubInv'
<1>1. SubTypeOK'
  BY DEF SubInv, SubTypeOK, SubStage, Unsubscribe, SetSub, VictimInv, Popping
<1>2. LockInv'
  BY DEF SubInv, LockInv, Unsubscribe, SetSub
<1>3. EntryInv'
  BY DEF SubInv, EntryInv, Acquired, Unsubscribe, SetSub
<1>4. VictimInv'
  BY DEF SubInv, SubTypeOK, VictimInv, Acquired, Popping, Unsubscribe, SetSub
<1>5. LiveHasOneOwner'
  <2>1. \A s : s # victim[c] => Popper(s)' = Popper(s)
    BY ConnsAssumption
    DEF SubInv, SubTypeOK, VictimInv, Popping, Popper, Unsubscribe, SetSub
  <2> QED
    BY <2>1 DEF SubInv, LiveHasOneOwner, Unsubscribe
<1>6. RefsCountHolders'
  <2>1. sub[c] # "held" /\ SetSub(c, "released")
    BY DEF Unsubscribe
  <2> QED
    BY <2>1, HoldersStay DEF SubInv, RefsCountHolders, Unsubscribe
<1> QED
  BY <1>1, <1>2, <1>3, <1>4, <1>5, <1>6 DEF SubInv

(* Close has subMu.                                                        *)
LEMMA CloseLockKeeps ==
  ASSUME SubInv, CloseLock
  PROVE  SubInv'
<1>1. SubTypeOK'
  BY DEF SubInv, SubTypeOK, CloseLock
<1>2. LockInv'
  BY DEF SubInv, LockInv, CloseLock, SubMuFree
<1>3. EntryInv'
  BY DEF SubInv, EntryInv, CloseLock
<1>4. VictimInv'
  BY DEF SubInv, VictimInv, CloseLock
<1>5. LiveHasOneOwner'
  BY DEF SubInv, LiveHasOneOwner, Popper, CloseLock
<1>6. RefsCountHolders'
  BY DEF SubInv, RefsCountHolders, Holders, CloseLock
<1> QED
  BY <1>1, <1>2, <1>3, <1>4, <1>5, <1>6 DEF SubInv

(* The entry of one room ends, and stays until the map is emptied.         *)
LEMMA CloseRoomKeeps ==
  ASSUME SubInv, NEW r \in Rooms, CloseRoom(r)
  PROVE  SubInv'
<1>1. SubTypeOK'
  BY DEF SubInv, SubTypeOK, CloseRoom
<1>2. LockInv'
  BY DEF SubInv, LockInv, CloseRoom
<1>3. EntryInv'
  BY DEF SubInv, EntryInv, CloseRoom
<1>4. VictimInv'
  BY DEF SubInv, VictimInv, CloseRoom
<1>5. LiveHasOneOwner'
  BY DEF SubInv, LiveHasOneOwner, Popper, CloseRoom
<1>6. RefsCountHolders'
  BY DEF SubInv, RefsCountHolders, Holders, CloseRoom
<1> QED
  BY <1>1, <1>2, <1>3, <1>4, <1>5, <1>6 DEF SubInv

(* What is live and unknown to the broker has been popped.                 *)
LEMMA CloseBrokerKeeps ==
  ASSUME SubInv, CloseBroker
  PROVE  SubInv'
<1>1. SubTypeOK'
  BY DEF SubInv, SubTypeOK, CloseBroker
<1>2. LockInv'
  BY DEF SubInv, LockInv, CloseBroker
<1>3. EntryInv'
  BY ConnsAssumption DEF SubInv, SubTypeOK, EntryInv, CloseBroker
<1>4. VictimInv'
  BY ConnsAssumption DEF SubInv, VictimInv, CloseBroker
<1>5. LiveHasOneOwner'
  BY ConnsAssumption
  DEF SubInv, SubTypeOK, EntryInv, LiveHasOneOwner, Popper, CloseBroker
<1>6. RefsCountHolders'
  BY DEF SubInv, RefsCountHolders, CloseBroker
<1> QED
  BY <1>1, <1>2, <1>3, <1>4, <1>5, <1>6 DEF SubInv

-----------------------------------------------------------------------------
(* SubInv is inductive.                                                    *)
LEMMA SubInvInductive == SubInv /\ [SubNext]_subVars => SubInv'
<1> SUFFICES ASSUME SubInv, [SubNext]_subVars PROVE SubInv'
  OBVIOUS
<1>1. ASSUME NEW c \in Conns, Acquire(c) PROVE SubInv'
  BY <1>1, AcquireSharedKeeps, AcquireFirstKeeps, SubscribeOkKeeps,
     SubscribeFailKeeps DEF Acquire
<1>2. ASSUME NEW c \in Conns, Release(c) PROVE SubInv'
  BY <1>2, ReleaseSharedKeeps, ReleaseLastKeeps, ReleaseMissingKeeps,
     UnhookKeeps, UnsubscribeKeeps DEF Release
<1>3. CASE CloseSubs
  BY <1>3, CloseLockKeeps, CloseRoomKeeps, CloseBrokerKeeps DEF CloseSubs
<1>4. CASE UNCHANGED subVars
  BY <1>4 DEF subVars, SubInv, SubTypeOK, LockInv, EntryInv, VictimInv,
              RefsCountHolders, Holders, LiveHasOneOwner, Popper
<1> QED
  BY <1>1, <1>2, <1>3, <1>4 DEF SubNext, SubDone

(* The inductive invariant of the subscription map: the lock, the entries, *)
(* the popped subscriptions and the closers of the broker together.        *)
THEOREM SubInvHolds == SubSpec => []SubInv
<1>1. SubInit => SubInv
  BY InitKeeps
<1>2. SubInv /\ [SubNext]_subVars => SubInv'
  BY SubInvInductive
<1> QED
  BY <1>1, <1>2, PTL DEF SubSpec

(* The state of the subscription map has its type, and the broker knows    *)
(* no subscription that has ended.                                         *)
THEOREM SubTypeCorrect == SubSpec => []SubTypeOK
<1>1. SubInv => SubTypeOK
  BY DEF SubInv
<1> QED
  BY <1>1, SubInvHolds, PTL

(* No interleaving of Acquire, failing Subscribe and Release loses or adds *)
(* a reference, for any number of callers and rooms.                       *)
THEOREM ReferencesAreExact == SubSpec => []RefsCountHolders
<1>1. SubInv => RefsCountHolders
  BY DEF SubInv
<1> QED
  BY <1>1, SubInvHolds, PTL

(* Every live subscription has exactly one party bound to end it.          *)
THEOREM NoSubscriptionLeaks == SubSpec => []LiveHasOneOwner
<1>1. SubInv => LiveHasOneOwner
  BY DEF SubInv
<1> QED
  BY <1>1, SubInvHolds, PTL

(* While the service is open, whoever holds a room has a live subscription *)
(* behind it: the holder is counted, so the room has an entry, and the     *)
(* entry of an open service is live.                                       *)
THEOREM HoldersAreSubscribed == SubSpec => []HolderIsSubscribed
<1>1. SubInv => HolderIsSubscribed
  <2> SUFFICES ASSUME SubInv, closeState = "open",
                      NEW c \in Conns, sub[c] = "held"
               PROVE  subOf[RoomOf[c]] \in live
    BY DEF HolderIsSubscribed
  <2>1. RoomOf[c] \in Rooms
    BY ConnsAssumption
  <2>2. refs[RoomOf[c]] > 0
    BY HeldIsCounted DEF SubInv
  <2>3. subOf[RoomOf[c]] # None
    BY <2>1, <2>2 DEF SubInv, EntryInv
  <2> QED
    BY <2>1, <2>3 DEF SubInv, SubTypeOK, EntryInv
<1> QED
  BY <1>1, SubInvHolds, PTL
=============================================================================
