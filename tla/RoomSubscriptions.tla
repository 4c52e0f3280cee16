-------------------------- MODULE RoomSubscriptions --------------------------
(***************************************************************************)
(* The per-room broker subscriptions of one node: the reference counted    *)
(* map of MessageService (Acquire, Release and the second half of Close)   *)
(* on top of the subscriptions of RedisPubSubBroker.                       *)
(*                                                                         *)
(* A caller is one ServeWS goroutine, which acquires its room once and     *)
(* releases it once.  A broker subscription is named by the caller whose   *)
(* Acquire created it, so names are unique as the subIndex of the broker   *)
(* makes them.                                                             *)
(***************************************************************************)
EXTENDS Integers, FiniteSets

CONSTANTS
  Conns,    \* the ServeWS goroutines of this node
  Rooms,    \* room identifiers
  RoomOf,   \* the room each goroutine serves
  None      \* no subscription

ASSUME ConnsAssumption ==
  /\ IsFiniteSet(Conns)
  /\ None \notin Conns
  /\ RoomOf \in [Conns -> Rooms]

VARIABLES
  sub,        \* how far each caller is in Acquire / Release
  refs,       \* subscriptions[room].refs, 0 when the map has no entry
  subOf,      \* the subscription that subscriptions[room].unsubscribe ends
  victim,     \* the entry a last Release has removed and must unsubscribe
  closers,    \* RedisPubSubBroker.closers
  live,       \* subscriptions whose goroutine still consumes the channel
  closeState  \* progress of MessageService.Close through its subMu section

subVars == <<sub, refs, subOf, victim, closers, live, closeState>>

SubStage == {"idle", "subscribing", "held", "failed",
             "popped", "unhooked", "released"}

SubInit ==
  /\ sub = [c \in Conns |-> "idle"]
  /\ refs = [r \in Rooms |-> 0]
  /\ subOf = [r \in Rooms |-> None]
  /\ victim = [c \in Conns |-> None]
  /\ closers = {}
  /\ live = {}
  /\ closeState = "open"

-----------------------------------------------------------------------------
(* subMu is held across the blocking Subscribe of a first Acquire and      *)
(* across the whole loop of Close; every other section is one step.        *)
SubMuFree_NotAcrossSubscribe == closeState # "closing"

SubMuFree ==
  /\ closeState # "closing"
  /\ \A c \in Conns : sub[c] # "subscribing"

Holders(r) == {c \in Conns : RoomOf[c] = r /\ sub[c] = "held"}

SetSub(c, stage) == sub' = [sub EXCEPT ![c] = stage]

-----------------------------------------------------------------------------
(* Acquire with an entry in the map: count one more reference.             *)
AcquireShared(c) ==
  LET r == RoomOf[c] IN
  /\ sub[c] = "idle"
  /\ SubMuFree
  /\ refs[r] > 0
  /\ refs' = [refs EXCEPT ![r] = @ + 1]
  /\ SetSub(c, "held")
  /\ UNCHANGED <<subOf, victim, closers, live, closeState>>

(* Acquire without an entry: call broker.Subscribe with subMu held.        *)
AcquireFirst(c) ==
  /\ sub[c] = "idle"
  /\ SubMuFree
  /\ refs[RoomOf[c]] = 0
  /\ SetSub(c, "subscribing")
  /\ UNCHANGED <<refs, subOf, victim, closers, live, closeState>>

(* Redis confirms: the consumer goroutine starts, the closer is recorded   *)
(* and the entry is stored with one reference.                             *)
SubscribeOk(c) ==
  LET r == RoomOf[c] IN
  /\ sub[c] = "subscribing"
  /\ live' = live \cup {c}
  /\ closers' = closers \cup {c}
  /\ refs' = [refs EXCEPT ![r] = 1]
  /\ subOf' = [subOf EXCEPT ![r] = c]
  /\ SetSub(c, "held")
  /\ UNCHANGED <<victim, closeState>>

(* The confirmation fails: the pubsub is closed and nothing is recorded.   *)
SubscribeFail(c) ==
  /\ sub[c] = "subscribing"
  /\ SetSub(c, "failed")
  /\ UNCHANGED <<refs, subOf, victim, closers, live, closeState>>

-----------------------------------------------------------------------------
(* Release that leaves other references.                                   *)
ReleaseShared(c) ==
  LET r == RoomOf[c] IN
  /\ sub[c] = "held"
  /\ SubMuFree
  /\ refs[r] > 1
  /\ refs' = [refs EXCEPT ![r] = @ - 1]
  /\ SetSub(c, "released")
  /\ UNCHANGED <<subOf, victim, closers, live, closeState>>

(* Release of the last reference: the entry leaves the map under subMu.    *)
(* The unsubscribe follows after the unlock, in the next two actions.      *)
ReleaseLast_OffByOne(c) ==
  LET r == RoomOf[c] IN
  /\ sub[c] = "held"
  /\ SubMuFree
  /\ refs[r] \in {1, 2}
  /\ refs' = [refs EXCEPT ![r] = 0]
  /\ subOf' = [subOf EXCEPT ![r] = None]
  /\ victim' = [victim EXCEPT ![c] = subOf[r]]
  /\ SetSub(c, "popped")
  /\ UNCHANGED <<closers, live, closeState>>

ReleaseLast(c) ==
  LET r == RoomOf[c] IN
  /\ sub[c] = "held"
  /\ SubMuFree
  /\ refs[r] = 1
  /\ refs' = [refs EXCEPT ![r] = 0]
  /\ subOf' = [subOf EXCEPT ![r] = None]
  /\ victim' = [victim EXCEPT ![c] = subOf[r]]
  /\ SetSub(c, "popped")
  /\ UNCHANGED <<closers, live, closeState>>

(* Release after Close emptied the map.                                    *)
ReleaseMissing(c) ==
  /\ sub[c] = "held"
  /\ SubMuFree
  /\ refs[RoomOf[c]] = 0
  /\ SetSub(c, "released")
  /\ UNCHANGED <<refs, subOf, victim, closers, live, closeState>>

(* The function Subscribe returned: first the closer leaves the map of the *)
(* broker under b.mu ...                                                   *)
Unhook_ClosesFirst(c) ==
  /\ sub[c] = "popped"
  /\ live' = live \ {victim[c]}
  /\ SetSub(c, "unhooked")
  /\ UNCHANGED <<refs, subOf, victim, closers, closeState>>

Unhook(c) ==
  /\ sub[c] = "popped"
  /\ closers' = closers \ {victim[c]}
  /\ SetSub(c, "unhooked")
  /\ UNCHANGED <<refs, subOf, victim, live, closeState>>

(* ... then once.Do stops the goroutine and closes the pubsub; a           *)
(* subscription that is already closed stays closed.                       *)
Unsubscribe_Skipped(c) ==
  /\ sub[c] = "unhooked"
  /\ SetSub(c, "released")
  /\ UNCHANGED <<refs, subOf, victim, closers, live, closeState>>

Unsubscribe(c) ==
  /\ sub[c] = "unhooked"
  /\ live' = live \ {victim[c]}
  /\ victim' = [victim EXCEPT ![c] = None]
  /\ SetSub(c, "released")
  /\ UNCHANGED <<refs, subOf, closers, closeState>>

-----------------------------------------------------------------------------
(* MessageService.Close takes subMu ...                                    *)
CloseLock ==
  /\ closeState = "open"
  /\ SubMuFree
  /\ closeState' = "closing"
  /\ UNCHANGED <<sub, refs, subOf, victim, closers, live>>

Unclosed(r) == refs[r] > 0 /\ subOf[r] \in closers

(* ... unsubscribes the entries in map order, errors included ...          *)
CloseRoom_LocksAgain(r) ==
  /\ closeState = "closing"
  /\ Unclosed(r)
  /\ UNCHANGED subVars  \* waits for the lock it holds

CloseRoom(r) ==
  /\ closeState = "closing"
  /\ Unclosed(r)
  /\ closers' = closers \ {subOf[r]}
  /\ live' = live \ {subOf[r]}
  /\ UNCHANGED <<sub, refs, subOf, victim, closeState>>

(* ... empties the map, lets the broker close what it still knows of, and  *)
(* unlocks.                                                                *)
CloseBroker ==
  /\ closeState = "closing"
  /\ \A r \in Rooms : ~Unclosed(r)
  /\ refs' = [r \in Rooms |-> 0]
  /\ subOf' = [r \in Rooms |-> None]
  /\ live' = live \ closers
  /\ closers' = {}
  /\ closeState' = "closed"
  /\ UNCHANGED <<sub, victim>>

-----------------------------------------------------------------------------
Acquire(c) == \/ AcquireShared(c) \/ AcquireFirst(c)
              \/ SubscribeOk(c) \/ SubscribeFail(c)

Release(c) == \/ ReleaseShared(c) \/ ReleaseLast(c) \/ ReleaseMissing(c)
              \/ Unhook(c) \/ Unsubscribe(c)

CloseSubs == CloseLock \/ (\E r \in Rooms : CloseRoom(r)) \/ CloseBroker

(* All callers have returned and the service is closed.                    *)
SubDone ==
  /\ \A c \in Conns : sub[c] \in {"failed", "released"}
  /\ closeState = "closed"
  /\ UNCHANGED subVars

SubNext == \/ \E c \in Conns : Acquire(c) \/ Release(c)
           \/ CloseSubs
           \/ SubDone

SubSpec == SubInit /\ [][SubNext]_subVars

-----------------------------------------------------------------------------
SubTypeOK ==
  /\ sub \in [Conns -> SubStage]
  /\ refs \in [Rooms -> Nat]
  /\ subOf \in [Rooms -> Conns \cup {None}]
  /\ victim \in [Conns -> Conns \cup {None}]
  /\ closers \subseteq live
  /\ live \subseteq Conns
  /\ closeState \in {"open", "closing", "closed"}

(* Until Close empties the map, the reference count of a room is the       *)
(* number of goroutines between a successful Acquire and their Release:    *)
(* no concurrent Acquire, failed Subscribe or Release loses or adds one.   *)
RefsCountHolders ==
  closeState # "closed" =>
    \A r \in Rooms : refs[r] = Cardinality(Holders(r))

(* While the service is open, a goroutine that holds its room has a live   *)
(* subscription behind it: nobody else's Release ends it early.            *)
HolderIsSubscribed ==
  closeState = "open" =>
    \A c \in Conns : sub[c] = "held" => subOf[RoomOf[c]] \in live

(* Every live subscription has exactly one party bound to end it: the map  *)
(* entry of its room, or one Release that has popped that entry.  So no    *)
(* subscription outlives its room, not even one made after Close.          *)
Popper(s) == {c \in Conns : sub[c] \in {"popped", "unhooked"} /\ victim[c] = s}

LiveHasOneOwner ==
  \A s \in live :
    IF refs[RoomOf[s]] > 0 /\ subOf[RoomOf[s]] = s
    THEN Popper(s) = {}
    ELSE \E c \in Conns : Popper(s) = {c}

(* The tests of concurrent Acquire expect one broker subscription per room *)
(* on a node.                                                              *)
OneSubscriptionPerRoom ==
  \A s, t \in live : RoomOf[s] = RoomOf[t] => s = t
=============================================================================
