------------------------------- MODULE History -------------------------------
(***************************************************************************)
(* The history of a room: rows written by SaveBatch and read in pages by   *)
(* ListByRoom, newest first, each page ending before a time cursor.  The   *)
(* reader is a client of the history endpoint: it asks for the rows before *)
(* the last row of the page it got, until a page is empty.  Workers go on  *)
(* saving meanwhile.                                                       *)
(***************************************************************************)
EXTENDS Integers, FiniteSets

CONSTANTS
  Msgs,          \* messages
  RoomMsgs,      \* those of the room that is read
  MaxTime,       \* bound on the timestamps
  Limits,        \* values of the query parameter limit
  DefaultLimit,  \* 50
  MaxLimit       \* 100

ASSUME HistoryAssumption ==
  /\ IsFiniteSet(Msgs)
  /\ RoomMsgs \subseteq Msgs
  /\ MaxTime \in Nat
  /\ Limits \subseteq Int
  /\ DefaultLimit \in Nat \ {0}
  /\ MaxLimit \in Nat
  /\ DefaultLimit <= MaxLimit

VARIABLES
  created,  \* created_at of the rows, Zero for a message without a row
  cursor,   \* the next value of before, Zero for the first request
  page,     \* the last answer
  reader,   \* "start", "paging" or "end"
  seen,     \* history: rows of all answers
  again,    \* history: rows that came more than once
  cuts,     \* history: timestamps used as cursor
  known     \* history: rows of the room at the first request

readerVars == <<cursor, page, reader, seen, again, cuts, known>>
historyVars == <<created, readerVars>>

Zero == 0
Stamp == 1..MaxTime

HistoryInit ==
  /\ created = [m \in Msgs |-> Zero]
  /\ cursor = Zero
  /\ page = {}
  /\ reader = "start"
  /\ seen = {}
  /\ again = {}
  /\ cuts = {}
  /\ known = {}

-----------------------------------------------------------------------------
(* A worker commits a batch.  The timestamps were taken by Send on any     *)
(* node, so batches neither arrive in their order nor are they distinct.   *)
(* A batch that fails leaves no row, like one that is never saved.         *)
SaveBatch(batch, at) ==
  /\ batch # {}
  /\ \A m \in batch : created[m] = Zero
  /\ created' = [m \in Msgs |-> IF m \in batch THEN at[m] ELSE created[m]]
  /\ UNCHANGED readerVars

-----------------------------------------------------------------------------
(* A limit out of range is replaced by the default.                        *)
EffectiveLimit_LowerBoundOnly(limit) ==
  IF limit <= 0 THEN DefaultLimit ELSE limit

EffectiveLimit(limit) ==
  IF limit <= 0 \/ limit > MaxLimit THEN DefaultLimit ELSE limit

(* The rows of the WHERE clause.  Without a cursor, before is a day ahead, *)
(* later than every timestamp.                                             *)
Matching_CursorIncluded(before) ==
  {m \in RoomMsgs : created[m] # Zero /\ (before = Zero \/ created[m] <= before)}

Matching(before) ==
  {m \in RoomMsgs : created[m] # Zero /\ (before = Zero \/ created[m] < before)}

(* ORDER BY created_at DESC LIMIT n: the n newest; the database chooses    *)
(* among equal timestamps.                                                 *)
IsPage_Unordered(p, before, n) ==
  LET all == Cardinality(Matching(before)) IN
  /\ p \subseteq Matching(before)
  /\ Cardinality(p) = IF all < n THEN all ELSE n

IsPage(p, before, n) ==
  LET all == Cardinality(Matching(before)) IN
  /\ p \subseteq Matching(before)
  /\ Cardinality(p) = IF all < n THEN all ELSE n
  /\ \A r \in p, q \in Matching(before) \ p : created[q] <= created[r]

-----------------------------------------------------------------------------
(* One request.                                                            *)
Answer(p) ==
  /\ \E limit \in Limits : IsPage(p, cursor, EffectiveLimit(limit))
  /\ reader # "end"
  /\ page' = p
  /\ seen' = seen \cup p
  /\ again' = again \cup (seen \cap p)
  /\ known' = IF reader = "start" THEN Matching(Zero) ELSE known

(* The last row of the page becomes the cursor.                            *)
ReadPage(p, last) ==
  /\ Answer(p)
  /\ \A r \in p : created[last] <= created[r]
  /\ reader' = "paging"
  /\ cursor' = created[last]
  /\ cuts' = cuts \cup {created[last]}
  /\ UNCHANGED created

(* An empty page ends the history.                                         *)
ReadEnd ==
  /\ Answer({})
  /\ reader' = "end"
  /\ UNCHANGED <<created, cursor, cuts>>

Read == ReadEnd \/ \E p \in SUBSET RoomMsgs : \E last \in p : ReadPage(p, last)

Save == \E batch \in SUBSET Msgs : \E at \in [batch -> Stamp] :
          SaveBatch(batch, at)

(* The reader is done and every message is saved.                          *)
Done ==
  /\ reader = "end"
  /\ \A m \in Msgs : created[m] # Zero
  /\ UNCHANGED historyVars

HistoryNext == Save \/ Read \/ Done

HistorySpec == HistoryInit /\ [][HistoryNext]_historyVars

(* The reader goes on asking.                                              *)
FairHistorySpec == HistorySpec /\ WF_historyVars(Read)

-----------------------------------------------------------------------------
HistoryTypeOK ==
  /\ created \in [Msgs -> Nat]
  /\ cursor \in Nat
  /\ page \subseteq RoomMsgs
  /\ reader \in {"start", "paging", "end"}
  /\ seen \subseteq RoomMsgs
  /\ again \subseteq seen
  /\ cuts \subseteq Nat
  /\ known \subseteq RoomMsgs
  /\ Cardinality(page) <= MaxLimit

(* No row comes twice, whatever limits the reader asks for and however     *)
(* late older rows are saved between its requests.                         *)
NoRowTwice == again = {}

(* A reader that has reached the end has seen every row that was there     *)
(* when it began, except rows with exactly the timestamp at which a page   *)
(* was cut: the cursor cannot tell those apart.                            *)
HiddenByTiesOnly ==
  reader = "end" => \A r \in known : r \in seen \/ created[r] \in cuts

(* The reader reaches the end, also while rows are being saved.            *)
ReaderEnds == <>(reader = "end")
=============================================================================
