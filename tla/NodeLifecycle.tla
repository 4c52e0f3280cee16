---------------------------- MODULE NodeLifecycle ----------------------------
(***************************************************************************)
(* The life of the connections of one node and its shutdown: ServeWS of    *)
(* the ws.Handler, the Hub, the room subscriptions (RoomSubscriptions) and *)
(* the shutdown sequence of main.                                          *)
(*                                                                         *)
(* A connection is one ServeWS goroutine.  Its two pumps are abstracted to *)
(* the fact that they run until client.Close, which either of them or      *)
(* Shutdown calls.                                                         *)
(***************************************************************************)
EXTENDS RoomSubscriptions

VARIABLES
  stage,     \* how far each ServeWS goroutine is
  closed,    \* clients whose Close ran: context cancelled, socket closed
  closing,   \* Handler.closing
  clients,   \* Handler.clients
  active,    \* counter of the WaitGroup Handler.active
  hub,       \* Hub.rooms; a missing room is the empty set
  wsActive,  \* Metrics.wsConnectionsActive
  mainPc,    \* progress of main from the signal to the exit
  toClose,   \* clients Shutdown has copied and not closed yet
  expired,   \* the deadline of shutdownCtx has passed
  graceful   \* Handler.Shutdown returned nil

handlerVars == <<stage, closed, closing, clients, active, hub, wsActive>>
mainVars == <<mainPc, toClose, expired, graceful>>
vars == <<subVars, handlerVars, mainVars>>

Stage == {"new", "checked", "upgraded", "registered", "joined",
          "drained", "left", "unmapped", "done"}

MainPc == {"serve", "closeClients", "http", "service", "closed", "exited"}

Init ==
  /\ SubInit
  /\ stage = [c \in Conns |-> "new"]
  /\ closed = {}
  /\ closing = FALSE
  /\ clients = {}
  /\ active = 0
  /\ hub = [r \in Rooms |-> {}]
  /\ wsActive = 0
  /\ mainPc = "serve"
  /\ toClose = {}
  /\ expired = FALSE
  /\ graceful = FALSE

SetStage(c, s) == stage' = [stage EXCEPT ![c] = s]

-----------------------------------------------------------------------------
(* The HTTP server accepts the request; isShuttingDown reads closing under *)
(* lifecycleMu; a bad query or token ends the request as well.             *)
Check(c) ==
  /\ stage[c] = "new"
  /\ mainPc \in {"serve", "closeClients"}
  /\ \/ ~closing /\ SetStage(c, "checked")
     \/ SetStage(c, "done")
  /\ UNCHANGED <<subVars, closed, closing, clients, active, hub, wsActive,
                 mainVars>>

(* The upgrade hijacks the connection, or fails and ends the request.      *)
Upgrade(c) ==
  /\ stage[c] = "checked"
  /\ SetStage(c, "upgraded") \/ SetStage(c, "done")
  /\ UNCHANGED <<subVars, closed, closing, clients, active, hub, wsActive,
                 mainVars>>

(* registerClient checks closing again, in the critical section that       *)
(* counts the client.                                                      *)
Register_Unchecked(c) ==
  /\ stage[c] = "upgraded"
  /\ clients' = clients \cup {c}
  /\ active' = active + 1
  /\ SetStage(c, "registered")
  /\ UNCHANGED <<subVars, closed, closing, hub, wsActive, mainVars>>

Register(c) ==
  /\ stage[c] = "upgraded"
  /\ \/ /\ ~closing
        /\ clients' = clients \cup {c}
        /\ active' = active + 1
        /\ SetStage(c, "registered")
        /\ UNCHANGED closed
     \/ /\ closing
        /\ closed' = closed \cup {c}
        /\ SetStage(c, "done")
        /\ UNCHANGED <<clients, active>>
  /\ UNCHANGED <<subVars, closing, hub, wsActive, mainVars>>

(* AcquireRoomSubscription; ServeWS closes the client when it fails.       *)
AcquireRoom(c) ==
  /\ stage[c] = "registered"
  /\ Acquire(c)
  /\ closed' = IF sub'[c] = "failed" THEN closed \cup {c} ELSE closed
  /\ UNCHANGED <<stage, closing, clients, active, hub, wsActive, mainVars>>

(* Hub.Join, the connection metric, and the pumps start.                   *)
Join(c) ==
  /\ stage[c] = "registered"
  /\ sub[c] = "held"
  /\ hub' = [hub EXCEPT ![RoomOf[c]] = @ \cup {c}]
  /\ wsActive' = wsActive + 1
  /\ SetStage(c, "joined")
  /\ UNCHANGED <<subVars, closed, closing, clients, active, mainVars>>

(* A pump meets a read or write error, the peer goes away, or the pong     *)
(* deadline passes: the pump returns and the client is closed.             *)
Disconnect(c) ==
  /\ stage[c] = "joined"
  /\ c \notin closed
  /\ closed' = closed \cup {c}
  /\ UNCHANGED <<subVars, stage, closing, clients, active, hub, wsActive,
                 mainVars>>

(* Close makes the other pump return too; ServeWS has waited for both.     *)
PumpsStop_OnShutdownOnly(c) ==
  /\ stage[c] = "joined"
  /\ c \in closed
  /\ closing
  /\ SetStage(c, "drained")
  /\ UNCHANGED <<subVars, closed, closing, clients, active, hub, wsActive,
                 mainVars>>

PumpsStop(c) ==
  /\ stage[c] = "joined"
  /\ c \in closed
  /\ SetStage(c, "drained")
  /\ UNCHANGED <<subVars, closed, closing, clients, active, hub, wsActive,
                 mainVars>>

(* Hub.Leave.                                                              *)
Leave(c) ==
  /\ stage[c] = "drained"
  /\ hub' = [hub EXCEPT ![RoomOf[c]] = @ \ {c}]
  /\ SetStage(c, "left")
  /\ UNCHANGED <<subVars, closed, closing, clients, active, wsActive,
                 mainVars>>

(* ReleaseRoomSubscription, after Leave.                                   *)
ReleaseRoom_BeforeLeave(c) ==
  /\ stage[c] \in {"drained", "left"}
  /\ Release(c)
  /\ UNCHANGED <<handlerVars, mainVars>>

ReleaseRoom(c) ==
  /\ stage[c] = "left"
  /\ Release(c)
  /\ UNCHANGED <<handlerVars, mainVars>>

(* The deferred DecWSConnection and the locked half of unregisterClient.   *)
Unmap(c) ==
  /\ \/ /\ stage[c] = "left" /\ sub[c] = "released"
        /\ wsActive' = wsActive - 1
     \/ /\ stage[c] = "registered" /\ sub[c] = "failed"
        /\ UNCHANGED wsActive
  /\ clients' = clients \ {c}
  /\ SetStage(c, "unmapped")
  /\ UNCHANGED <<subVars, closed, closing, active, hub, mainVars>>

(* active.Done, after the unlock.                                          *)
Done(c) ==
  /\ stage[c] = "unmapped"
  /\ active' = active - 1
  /\ SetStage(c, "done")
  /\ UNCHANGED <<subVars, closed, closing, clients, hub, wsActive, mainVars>>

-----------------------------------------------------------------------------
(* main sees the signal and calls Handler.Shutdown, whose critical section *)
(* raises closing and copies the clients.                                  *)
BeginShutdown ==
  /\ mainPc = "serve"
  /\ mainPc' = "closeClients"
  /\ closing' = TRUE
  /\ toClose' = clients
  /\ UNCHANGED <<subVars, stage, closed, clients, active, hub, wsActive,
                 expired, graceful>>

(* Shutdown closes one of the copied clients.                              *)
CloseClient(c) ==
  /\ mainPc = "closeClients"
  /\ c \in toClose
  /\ toClose' = toClose \ {c}
  /\ closed' = closed \cup {c}
  /\ UNCHANGED <<subVars, stage, closing, clients, active, hub, wsActive,
                 mainPc, expired, graceful>>

(* The deadline shared by both shutdowns passes.                           *)
Expire ==
  /\ mainPc \in {"closeClients", "http"}
  /\ ~expired
  /\ expired' = TRUE
  /\ UNCHANGED <<subVars, handlerVars, mainPc, toClose, graceful>>

(* Shutdown returns: nil once the WaitGroup is at zero, or the error of    *)
(* the context.                                                            *)
ShutdownReturns_WithoutWait ==
  /\ mainPc = "closeClients"
  /\ toClose = {}
  /\ graceful' = TRUE
  /\ mainPc' = "http"
  /\ UNCHANGED <<subVars, handlerVars, toClose, expired>>

ShutdownReturns ==
  /\ mainPc = "closeClients"
  /\ toClose = {}
  /\ \/ active = 0 /\ graceful' = TRUE
     \/ expired /\ UNCHANGED graceful
  /\ mainPc' = "http"
  /\ UNCHANGED <<subVars, handlerVars, toClose, expired>>

(* srv.Shutdown has stopped the listener; it waits for requests that are   *)
(* not hijacked yet, or for the deadline.                                  *)
HttpShutdown ==
  /\ mainPc = "http"
  /\ expired \/ \A c \in Conns : stage[c] # "checked"
  /\ mainPc' = "service"
  /\ UNCHANGED <<subVars, handlerVars, toClose, expired, graceful>>

(* MessageService.Close, the part after the persistence worker has ended.  *)
CloseService ==
  /\ mainPc = "service"
  /\ CloseSubs
  /\ mainPc' = IF closeState' = "closed" THEN "closed" ELSE mainPc
  /\ UNCHANGED <<handlerVars, toClose, expired, graceful>>

(* main returns and every goroutine ends with the process.                 *)
Exit ==
  /\ mainPc = "closed"
  /\ mainPc' = "exited"
  /\ UNCHANGED <<subVars, handlerVars, toClose, expired, graceful>>

Exited == mainPc = "exited" /\ UNCHANGED vars

-----------------------------------------------------------------------------
Serve(c) ==
  \/ Check(c) \/ Upgrade(c) \/ Register(c) \/ AcquireRoom(c) \/ Join(c)
  \/ Disconnect(c) \/ PumpsStop(c) \/ Leave(c) \/ ReleaseRoom(c)
  \/ Unmap(c) \/ Done(c)

Main ==
  \/ BeginShutdown \/ (\E c \in Conns : CloseClient(c)) \/ Expire
  \/ ShutdownReturns \/ HttpShutdown \/ CloseService \/ Exit

Next ==
  \/ /\ mainPc # "exited"
     /\ \E c \in Conns : Serve(c)
  \/ Main
  \/ Exited

Spec == Init /\ [][Next]_vars

(* What the Go scheduler and the standard library guarantee: a goroutine   *)
(* that can go on does so, a mutex is handed over, a deadline passes.      *)
(* Clients connect and leave, and the operator signals, as they like.      *)
CodeFairness ==
  /\ \A c \in Conns :
       /\ WF_vars(Upgrade(c)) /\ WF_vars(Register(c))
       /\ WF_vars(stage[c] = "registered" /\ AcquireRoom(c)
                    /\ sub[c] # "subscribing")
       /\ WF_vars(Join(c)) /\ WF_vars(PumpsStop(c)) /\ WF_vars(Leave(c))
       /\ WF_vars(ReleaseRoom(c)) /\ WF_vars(Unmap(c)) /\ WF_vars(Done(c))
       /\ WF_vars(CloseClient(c))
  /\ WF_vars(Expire) /\ WF_vars(ShutdownReturns) /\ WF_vars(HttpShutdown)
  /\ WF_vars(CloseService) /\ WF_vars(Exit)

(* Redis answers every Subscribe, with a confirmation or an error.         *)
RedisAnswers ==
  \A c \in Conns : WF_vars(AcquireRoom(c) /\ sub[c] = "subscribing")

FairSpec == Spec /\ CodeFairness /\ RedisAnswers
HungRedisSpec == Spec /\ CodeFairness

-----------------------------------------------------------------------------
TypeOK ==
  /\ SubTypeOK
  /\ stage \in [Conns -> Stage]
  /\ closed \subseteq Conns
  /\ closing \in BOOLEAN
  /\ clients \subseteq Conns
  /\ active \in Nat
  /\ hub \in [Rooms -> SUBSET Conns]
  /\ wsActive \in Nat
  /\ mainPc \in MainPc
  /\ toClose \subseteq Conns
  /\ expired \in BOOLEAN
  /\ graceful \in BOOLEAN

(* A client that BroadcastLocal can reach has a live broker subscription   *)
(* behind its room, so it is never joined and deaf: ServeWS acquires       *)
(* before it joins and leaves before it releases, whatever the other       *)
(* connections of the room do meanwhile.                                   *)
HubIsSubscribed ==
  closeState = "open" =>
    \A r \in Rooms : hub[r] # {} => refs[r] > 0 /\ subOf[r] \in live

(* Types, and no deaf client.                                              *)
NodeInv == TypeOK /\ HubIsSubscribed

(* Once Shutdown has closed its copy of the clients, every client still in *)
(* Handler.clients is closed: a registration cannot slip between the flag  *)
(* and the copy.                                                           *)
ShutdownClosesAll ==
  mainPc \notin {"serve", "closeClients"} \/ (closing /\ toClose = {})
    => clients \subseteq closed

(* When Shutdown returns nil, every handler it waited for is finished:     *)
(* no room has a client, no subscription is left, the gauge is at zero,    *)
(* and it stays so while main shuts down the rest.                         *)
GracefulMeansIdle ==
  graceful =>
    /\ \A r \in Rooms : hub[r] = {} /\ refs[r] = 0
    /\ clients = {} /\ live = {} /\ closers = {}
    /\ wsActive = 0

(* "Close ends all room subscriptions" (comment of MessageService.Close).  *)
CloseEndsAllSubscriptions == mainPc = "closed" => live = {}

(* Shutdown of the node ends, although connections may be anywhere in      *)
(* ServeWS when the signal arrives.                                        *)
ShutdownEnds == (mainPc = "closeClients") ~> (mainPc = "exited")

(* A registered connection whose client is closed runs through its whole   *)
(* cleanup and leaves the WaitGroup, unless the process ends first.        *)
ClosedIsCleanedUp ==
  \A c \in Conns :
    (stage[c] = "joined" /\ c \in closed)
      ~> (stage[c] = "done" \/ mainPc = "exited")
=============================================================================
