------------------------------- MODULE LoadTest -------------------------------
(***************************************************************************)
(* The Go load generator: workers that send danmaku to rooms, the readers  *)
(* of their connections, the map of unanswered messages they share, and    *)
(* the report.                                                             *)
(*                                                                         *)
(* The server is reduced to what a client sees: a message it has got may   *)
(* reach any client of the room, at any time and more than once, or none.  *)
(***************************************************************************)
EXTENDS Integers, FiniteSets

CONSTANTS
  Workers,
  RoomOf,   \* room of each worker, idx%roomCount in the code
  MaxSeq,   \* bound on the messages of a worker
  None

ASSUME LoadAssumption ==
  /\ IsFiniteSet(Workers)
  /\ MaxSeq \in Nat
  /\ None \notin Workers \X (1..MaxSeq)

VARIABLES
  main,      \* where main is
  expired,   \* the test duration is over: ctx is done
  wk,        \* where each worker is
  reader,    \* what its reading goroutine does
  conn,      \* workers whose connection neither side has closed
  seq,       \* number of its last message
  inflight,  \* the shared map: messages without an echo
  hand,      \* the message whose latency a reader is about to record
  served,    \* messages the server has got
  echoed,    \* history: messages some client has received
  samples,   \* latencyStore.values: message and the worker that recorded it
  sentOK, sendFailed, readErrors,  \* stats
  rep        \* what the report has counted so far

workerVars == <<wk, seq>>
readerVars == <<reader, hand, echoed, samples, readErrors>>
statVars == <<sentOK, sendFailed>>
vars == <<main, expired, workerVars, readerVars, conn, inflight, served,
          statVars, rep>>

Messages == Workers \X (1..MaxSeq)

Init ==
  /\ main = "preflight" /\ expired = FALSE
  /\ wk = [w \in Workers |-> "new"]
  /\ reader = [w \in Workers |-> "off"]
  /\ hand = [w \in Workers |-> None]
  /\ seq = [w \in Workers |-> 0]
  /\ conn = {} /\ inflight = {} /\ served = {} /\ echoed = {} /\ samples = {}
  /\ sentOK = 0 /\ sendFailed = 0 /\ readErrors = 0
  /\ rep = [inflight |-> 0, samples |-> 0]

Go(w, place) == wk' = [wk EXCEPT ![w] = place]
Content(w) == <<w, seq[w]>>

-----------------------------------------------------------------------------
(* main: the deadline runs from the start; a failed health check exits.    *)
Preflight ==
  /\ main = "preflight"
  /\ main' \in {"wait", "exited"}
  /\ UNCHANGED <<expired, workerVars, readerVars, conn, inflight, served,
                 statVars, rep>>

Deadline ==
  /\ ~expired
  /\ expired' = TRUE
  /\ UNCHANGED <<main, workerVars, readerVars, conn, inflight, served,
                 statVars, rep>>

(* The guest token; the request carries ctx.                               *)
GetToken(w) ==
  /\ main = "wait" /\ wk[w] = "new"
  /\ \/ ~expired /\ Go(w, "dial")
     \/ Go(w, "done")
  /\ UNCHANGED <<main, expired, seq, readerVars, conn, inflight, served,
                 statVars, rep>>

(* The connection, and its reader.                                         *)
Dial(w) ==
  /\ wk[w] = "dial"
  /\ \/ /\ Go(w, "run")
        /\ conn' = conn \cup {w}
        /\ reader' = [reader EXCEPT ![w] = "read"]
     \/ Go(w, "done") /\ UNCHANGED <<conn, reader>>
  /\ UNCHANGED <<main, expired, seq, hand, echoed, samples, readErrors,
                 inflight, served, statVars, rep>>

(* The ticker: the content enters the map before it is written.            *)
Store(w) ==
  /\ wk[w] = "run"
  /\ seq[w] < MaxSeq
  /\ seq' = [seq EXCEPT ![w] = @ + 1]
  /\ inflight' = inflight \cup {<<w, seq'[w]>>}
  /\ Go(w, "write")
  /\ UNCHANGED <<main, expired, readerVars, conn, served, statVars, rep>>

(* A write succeeds when the socket takes it: a server that has closed the *)
(* connection meanwhile does not get it.                                   *)
Write(w) ==
  /\ wk[w] = "write"
  /\ served' = IF w \in conn THEN served \cup {Content(w)} ELSE served
  /\ Go(w, "count")
  /\ UNCHANGED <<main, expired, seq, readerVars, conn, inflight, statVars,
                 rep>>

CountSent_StoresAfterWrite(w) ==
  /\ wk[w] = "count"
  /\ sentOK' = sentOK + 1
  /\ inflight' = inflight \cup {Content(w)}
  /\ Go(w, "run")
  /\ UNCHANGED <<main, expired, seq, readerVars, conn, served, sendFailed,
                 rep>>

CountSent(w) ==
  /\ wk[w] = "count"
  /\ sentOK' = sentOK + 1
  /\ Go(w, "run")
  /\ UNCHANGED <<main, expired, seq, readerVars, conn, inflight, served,
                 sendFailed, rep>>

(* A failed write takes the content back; the deferred Close ends the      *)
(* connection, but nobody waits for the reader.                            *)
WriteFails(w) ==
  /\ wk[w] = "write"
  /\ sendFailed' = sendFailed + 1
  /\ inflight' = inflight \ {Content(w)}
  /\ conn' = conn \ {w}
  /\ Go(w, "done")
  /\ UNCHANGED <<main, expired, seq, readerVars, served, sentOK, rep>>

(* The deadline: a close frame, then the worker waits for its reader.      *)
Bye_WithoutWait(w) ==
  /\ wk[w] = "run" /\ expired
  /\ Go(w, "done")
  /\ UNCHANGED <<main, expired, seq, readerVars, conn, inflight, served,
                 statVars, rep>>

Bye(w) ==
  /\ wk[w] = "run" /\ expired
  /\ Go(w, "bye")
  /\ UNCHANGED <<main, expired, seq, readerVars, conn, inflight, served,
                 statVars, rep>>

ReadDone(w) ==
  /\ wk[w] = "bye" /\ reader[w] = "done"
  /\ conn' = conn \ {w}
  /\ Go(w, "done")
  /\ UNCHANGED <<main, expired, seq, readerVars, inflight, served, statVars,
                 rep>>

-----------------------------------------------------------------------------
(* A reader gets a danmaku and takes it out of the map, unless another     *)
(* client of the room was faster.  What its buffer holds is read also      *)
(* after the connection was closed.                                        *)
Claim_LoadOnly(m) == UNCHANGED inflight

Claim(m) == inflight' = inflight \ {m}

Receive(w, m) ==
  /\ reader[w] = "read"
  /\ m \in served /\ RoomOf[m[1]] = RoomOf[w]
  /\ echoed' = echoed \cup {m}
  /\ IF m \in inflight
     THEN /\ Claim(m)
          /\ hand' = [hand EXCEPT ![w] = m]
          /\ reader' = [reader EXCEPT ![w] = "record"]
     ELSE UNCHANGED <<inflight, hand, reader>>
  /\ UNCHANGED <<main, expired, workerVars, samples, readErrors, conn, served,
                 statVars, rep>>

Record(w) ==
  /\ reader[w] = "record"
  /\ samples' = samples \cup {<<hand[w], w>>}
  /\ hand' = [hand EXCEPT ![w] = None]
  /\ reader' = [reader EXCEPT ![w] = "read"]
  /\ UNCHANGED <<main, expired, workerVars, echoed, readErrors, conn,
                 inflight, served, statVars, rep>>

(* The connection is closed by either side; before the deadline this is    *)
(* counted as an error.                                                    *)
ReadFails_Continues(w) ==
  /\ reader[w] = "read" /\ w \notin conn
  /\ readErrors' = IF expired \/ readErrors > 0 THEN readErrors ELSE 1
  /\ UNCHANGED <<main, expired, workerVars, reader, hand, echoed, samples,
                 conn, inflight, served, statVars, rep>>

ReadFails(w) ==
  /\ reader[w] = "read" /\ w \notin conn
  /\ readErrors' = readErrors + (IF expired THEN 0 ELSE 1)
  /\ reader' = [reader EXCEPT ![w] = "done"]
  /\ UNCHANGED <<main, expired, workerVars, hand, echoed, samples, conn,
                 inflight, served, statVars, rep>>

(* The server answers a close frame, or gives the connection up before.    *)
ServerCloses(w) ==
  /\ w \in conn
  /\ conn' = conn \ {w}
  /\ UNCHANGED <<main, expired, workerVars, readerVars, inflight, served,
                 statVars, rep>>

-----------------------------------------------------------------------------
(* The report: first the size of the map, then the latencies.              *)
Report ==
  /\ \/ /\ main = "wait"
        /\ \A w \in Workers : wk[w] = "done"
        /\ main' = "report"
        /\ rep' = [rep EXCEPT !.inflight = Cardinality(inflight)]
     \/ /\ main = "report"
        /\ main' = "exited"
        /\ rep' = [rep EXCEPT !.samples = Cardinality(samples)]
  /\ UNCHANGED <<expired, workerVars, readerVars, conn, inflight, served,
                 statVars>>

Worker(w) == GetToken(w) \/ Dial(w) \/ Store(w) \/ Write(w) \/ CountSent(w)
               \/ WriteFails(w) \/ Bye(w) \/ ReadDone(w)

Reader(w) == Record(w) \/ ReadFails(w) \/ \E m \in Messages : Receive(w, m)

Next ==
  \/ /\ main # "exited"
     /\ \/ Preflight \/ Deadline \/ Report
        \/ \E w \in Workers : Worker(w) \/ Reader(w) \/ ServerCloses(w)
  \/ main = "exited" /\ UNCHANGED vars

Spec == Init /\ [][Next]_vars

(* Goroutines that can go on do so, the deadline passes, requests time     *)
(* out, and the server answers a close frame.  A select that always finds  *)
(* its timer ready still sees ctx done at some time.                       *)
Fairness ==
  /\ WF_vars(Deadline) /\ WF_vars(Report)
  /\ \A w \in Workers :
       /\ WF_vars(GetToken(w)) /\ WF_vars(Dial(w)) /\ WF_vars(CountSent(w))
       /\ WF_vars(Write(w) \/ WriteFails(w))
       /\ SF_vars(Bye(w)) /\ WF_vars(ReadDone(w))
       /\ WF_vars(Record(w)) /\ WF_vars(ReadFails(w))
       /\ WF_vars(wk[w] = "bye" /\ ServerCloses(w))

FairSpec == Spec /\ Fairness

-----------------------------------------------------------------------------
TypeOK ==
  /\ main \in {"preflight", "wait", "report", "exited"}
  /\ expired \in BOOLEAN
  /\ wk \in [Workers -> {"new", "dial", "run", "write", "count", "bye", "done"}]
  /\ reader \in [Workers -> {"off", "read", "record", "done"}]
  /\ conn \subseteq Workers
  /\ seq \in [Workers -> 0..MaxSeq]
  /\ inflight \subseteq Messages
  /\ \A w \in Workers : hand[w] # None <=> reader[w] = "record"
  /\ sentOK + sendFailed <= Cardinality(Workers) * MaxSeq
  /\ readErrors <= Cardinality(Workers)

(* A message gives at most one latency sample, although every client of    *)
(* the room receives it and looks it up.                                   *)
OneSamplePerMessage ==
  \A s, t \in samples : s[1] = t[1] => s = t

(* The map holds only messages that nobody has received: an echo finds its *)
(* entry however fast it is, and the entry never comes back.               *)
EchoIsMatched == inflight \cap echoed = {}

(* Types, and a map without received messages.                             *)
LoadInv == TypeOK /\ EchoIsMatched

(* When no send has failed, the report accounts for every message sent:    *)
(* it is in the map or has given a sample.  (After a failed send a reader  *)
(* may still move a message from the one to the other meanwhile.)          *)
ReportIsComplete ==
  main = "exited" /\ sendFailed = 0
    => rep.inflight + rep.samples = sentOK

(* Every worker ends, and the report is printed, once the time is over.    *)
TestEnds == (main = "wait") ~> (main = "exited")
=============================================================================
