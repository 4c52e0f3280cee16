----------------------------- MODULE ClientProofs -----------------------------
(***************************************************************************)
(* Proofs about what a single client is given: the pages of a room's       *)
(* history (History), for any messages, limits and timestamps, and its     *)
(* connection (ClientConn), for any deadlines, capacities and durations.   *)
(***************************************************************************)
EXTENDS History, ClientConn, FiniteSetTheorems, SequenceTheorems, TLAPS

-----------------------------------------------------------------------------
(* History.  The pages of a reading repeat no row and hide none but ties.  *)

(* The row r is at or after the cursor: some page has reached its time.    *)
Passed(r) == cursor # Zero /\ created[r] >= cursor

HistoryInv ==
  /\ created \in [Msgs -> Nat]
  /\ cursor \in Nat
  /\ page \subseteq RoomMsgs
  /\ Cardinality(page) <= MaxLimit
  /\ reader \in {"start", "paging", "end"}
  /\ seen \subseteq RoomMsgs
  /\ again = {}
  /\ cuts \subseteq Nat
  /\ known \subseteq RoomMsgs
  /\ reader = "start" => cursor = Zero
  /\ \A r \in seen \cup known : created[r] # Zero
  /\ \A r \in seen : Passed(r)
  /\ \A r \in known : Passed(r) => r \in seen \/ created[r] \in cuts
  /\ reader # "start" /\ cursor = Zero => known = {}
  /\ reader = "end" => \A r \in known : Passed(r)

-----------------------------------------------------------------------------
(* An effective limit asks for at least one row and at most MaxLimit.      *)
LEMMA EffectiveLimitBounds ==
  ASSUME NEW limit \in Limits
  PROVE  EffectiveLimit(limit) \in 1..MaxLimit
BY HistoryAssumption DEF EffectiveLimit

(* A page is no longer than MaxLimit, and empty only if nothing matches.   *)
LEMMA PageSize ==
  ASSUME NEW before, NEW limit \in Limits, NEW p,
         IsPage(p, before, EffectiveLimit(limit))
  PROVE  /\ Cardinality(p) <= MaxLimit
         /\ p = {} => Matching(before) = {}
<1> DEFINE all == Matching(before)
<1>1. IsFiniteSet(all)
  BY HistoryAssumption, FS_Subset DEF Matching
<1>2. Cardinality(all) \in Nat
  BY <1>1, FS_CardinalityType
<1>3. EffectiveLimit(limit) \in 1..MaxLimit
  BY EffectiveLimitBounds
<1>4. Cardinality(p) = IF Cardinality(all) < EffectiveLimit(limit)
                       THEN Cardinality(all) ELSE EffectiveLimit(limit)
  BY DEF IsPage
<1>5. Cardinality(p) <= MaxLimit
  BY <1>2, <1>3, <1>4, HistoryAssumption
<1>6. ASSUME p = {} PROVE all = {}
  <2>1. Cardinality(p) = 0
    BY <1>6, FS_EmptySet
  <2>2. Cardinality(all) = 0
    BY <1>2, <1>3, <1>4, <2>1
  <2> QED
    BY <1>1, <2>2, FS_EmptySet
<1> QED
  BY <1>5, <1>6

-----------------------------------------------------------------------------
(* Before the first page nothing has been passed, seen or known.           *)
LEMMA HistoryInitHolds == HistoryInit => HistoryInv
<1> SUFFICES ASSUME HistoryInit PROVE HistoryInv
  OBVIOUS
<1>1. Cardinality(page) = 0
  BY FS_EmptySet DEF HistoryInit
<1> QED
  BY <1>1, HistoryAssumption DEF HistoryInit, HistoryInv, Passed, Zero

(* A batch adds rows that were in no answer and not there at the start.    *)
LEMMA SaveKeeps ==
  ASSUME HistoryInv, Save
  PROVE  HistoryInv'
<1>1. PICK batch \in SUBSET Msgs :
        \E at \in [batch -> Stamp] : SaveBatch(batch, at)
  BY DEF Save
<1>2. PICK at \in [batch -> Stamp] : SaveBatch(batch, at)
  BY <1>1
<1>3. created' \in [Msgs -> Nat]
  BY <1>2 DEF HistoryInv, SaveBatch, Stamp
<1>4. \A r \in seen \cup known : created'[r] = created[r]
  BY <1>2, HistoryAssumption DEF HistoryInv, SaveBatch
<1> QED
  BY <1>2, <1>3, <1>4 DEF HistoryInv, SaveBatch, readerVars, Passed

(* What every request does, empty or not.                                  *)
LEMMA AnswerFacts ==
  ASSUME HistoryInv, NEW p, Answer(p)
  PROVE  /\ p \subseteq Matching(cursor)
         /\ \A r \in p, q \in Matching(cursor) \ p : created[q] <= created[r]
         /\ Cardinality(p) <= MaxLimit
         /\ p = {} => Matching(cursor) = {}
         /\ seen \cap p = {}
<1>1. PICK limit \in Limits : IsPage(p, cursor, EffectiveLimit(limit))
  BY DEF Answer
<1>2. /\ p \subseteq Matching(cursor)
      /\ \A r \in p, q \in Matching(cursor) \ p : created[q] <= created[r]
  BY <1>1 DEF IsPage
<1>3. Cardinality(p) <= MaxLimit /\ (p = {} => Matching(cursor) = {})
  BY <1>1, PageSize
<1>4. seen \cap p = {}
  BY <1>2, HistoryAssumption DEF HistoryInv, Passed, Matching
<1> QED
  BY <1>2, <1>3, <1>4

(* Nothing matches: every row known from the start is at the cursor or     *)
(* after it.                                                               *)
LEMMA ReadEndKeeps ==
  ASSUME HistoryInv, ReadEnd
  PROVE  HistoryInv'
<1>1. Answer({}) /\ Matching(cursor) = {} /\ Cardinality({}) <= MaxLimit
  BY AnswerFacts DEF ReadEnd
<1>2. \A r \in known' : Passed(r)
  BY <1>1, HistoryAssumption DEF HistoryInv, Answer, Matching, Passed
<1>3. cursor = Zero => known' = {}
  BY <1>1 DEF HistoryInv, Answer
<1>4. known' \subseteq RoomMsgs /\ \A r \in known' : created[r] # Zero
  BY <1>1 DEF HistoryInv, Answer, Matching
<1>5. \A r \in known' : Passed(r) => r \in seen \/ created[r] \in cuts
  BY <1>1 DEF HistoryInv, Answer
<1> QED
  BY <1>1, <1>2, <1>3, <1>4, <1>5
  DEF HistoryInv, ReadEnd, Answer, Passed

(* A page moves the cursor to its last row.  A known row that is passed    *)
(* now and was not before is in the page or ties with that last row.       *)
LEMMA ReadPageKeeps ==
  ASSUME HistoryInv, NEW p \in SUBSET RoomMsgs, NEW last \in p,
         ReadPage(p, last)
  PROVE  HistoryInv'
<1>1. /\ Answer(p)
      /\ p \subseteq Matching(cursor)
      /\ \A r \in p, q \in Matching(cursor) \ p : created[q] <= created[r]
      /\ Cardinality(p) <= MaxLimit
      /\ seen \cap p = {}
  BY AnswerFacts DEF ReadPage
<1>2. /\ cursor' \in Nat /\ cursor' # Zero
      /\ cursor # Zero => cursor' < cursor
  BY <1>1, HistoryAssumption DEF HistoryInv, ReadPage, Matching, Zero
<1>3. \A r \in seen' : Passed(r)' /\ created[r] # Zero
  BY <1>1, <1>2, HistoryAssumption
  DEF HistoryInv, ReadPage, Answer, Passed, Matching
<1>4. known' \subseteq RoomMsgs /\ \A r \in known' : created[r] # Zero
  BY <1>1 DEF HistoryInv, Answer, Matching
<1>5. ASSUME NEW r \in known', Passed(r)'
      PROVE  r \in seen' \/ created'[r] \in cuts'
  <2>1. CASE reader # "start" /\ Passed(r)
    BY <1>1, <2>1 DEF HistoryInv, ReadPage, Answer
  <2>2. CASE r \in Matching(cursor)
    <3>1. CASE r \in p
      BY <1>1, <3>1 DEF Answer
    <3>2. CASE r \notin p
      <4>1. created[r] <= created[last]
        BY <1>1, <2>2, <3>2
      <4>2. created[r] = cursor'
        BY <1>2, <1>4, <1>5, <4>1, HistoryAssumption
        DEF HistoryInv, ReadPage, Passed
      <4> QED
        BY <4>2 DEF ReadPage
    <3> QED
      BY <3>1, <3>2
  <2>3. reader = "start" => r \in Matching(cursor)
    BY <1>1, <1>5 DEF HistoryInv, Answer
  <2>4. reader # "start" /\ ~Passed(r) => r \in Matching(cursor)
    BY <1>1, <1>4, <1>5, HistoryAssumption
    DEF HistoryInv, Answer, Passed, Matching
  <2> QED
    BY <2>1, <2>2, <2>3, <2>4
<1> QED
  BY <1>1, <1>2, <1>3, <1>4, <1>5
  DEF HistoryInv, ReadPage, Answer, Zero

-----------------------------------------------------------------------------
(* HistoryInv holds in every reachable state of the history, with any      *)
(* number of rows saved between the requests of the reader.                *)
THEOREM HistoryInvHolds == HistorySpec => []HistoryInv
<1>1. HistoryInit => HistoryInv
  BY HistoryInitHolds
<1>2. HistoryInv /\ [HistoryNext]_historyVars => HistoryInv'
  <2> SUFFICES ASSUME HistoryInv, [HistoryNext]_historyVars PROVE HistoryInv'
    OBVIOUS
  <2>1. CASE Save
    BY <2>1, SaveKeeps
  <2>2. CASE ReadEnd
    BY <2>2, ReadEndKeeps
  <2>3. ASSUME NEW p \in SUBSET RoomMsgs, NEW last \in p, ReadPage(p, last)
        PROVE  HistoryInv'
    BY <2>3, ReadPageKeeps
  <2>4. CASE UNCHANGED historyVars
    BY <2>4 DEF HistoryInv, historyVars, readerVars, Passed
  <2> QED
    BY <2>1, <2>2, <2>3, <2>4 DEF HistoryNext, Read, Done
<1> QED
  BY <1>1, <1>2, PTL DEF HistorySpec

(* Type correctness, and no answer is longer than the maximal limit.       *)
THEOREM HistoryTypeCorrect == HistorySpec => []HistoryTypeOK
<1>1. HistoryInv => HistoryTypeOK
  BY DEF HistoryInv, HistoryTypeOK
<1> QED
  BY <1>1, HistoryInvHolds, PTL

(* ListByRoom with the last created_at as the next cursor gives the same   *)
(* row at most once.                                                       *)
THEOREM PagesRepeatNothing == HistorySpec => []NoRowTwice
<1>1. HistoryInv => NoRowTwice
  BY DEF HistoryInv, NoRowTwice
<1> QED
  BY <1>1, HistoryInvHolds, PTL

(* A complete reading misses no row that was there at its beginning,       *)
(* except rows that tie with the end of a page.                            *)
THEOREM PagesHideTiesOnly == HistorySpec => []HiddenByTiesOnly
<1>1. HistoryInv => HiddenByTiesOnly
  BY DEF HistoryInv, HiddenByTiesOnly
<1> QED
  BY <1>1, HistoryInvHolds, PTL

-----------------------------------------------------------------------------
(* The connection.                                                         *)
Numbers == 1..(MaxBroadcasts + MaxFrames)

Frames == {"danmaku", "request", "close", "pong"}

(* The peer's own frames among the first p of s.                           *)
OwnIn(s, p) == {k \in DOMAIN s : k <= p /\ s[k] # "pong"}

Own(s) == Cardinality(OwnIn(s, Len(s)))

Ahead(p) == Cardinality(OwnIn(inbox, p))

(* The longest time that the Send of everything unread takes.              *)
Backlog == (InboxCap + 1) * SendTime

(* The invariant.  Types, in full:                                         *)
ControlTyped ==
  /\ rd \in {"read", "send", "reply", "close", "wait", "left"}
  /\ wr \in {"select", "message", "ping", "bye", "close", "done"}
  /\ once \in {"new", "cancelled", "closed"}
  /\ sd \in {"no", "close", "done"}
  /\ peer \in {"healthy", "silent", "gone"}
  /\ owed \in BOOLEAN /\ ticked \in BOOLEAN /\ byeSent \in BOOLEAN

QueueTyped ==
  /\ queue \in Seq(Numbers) /\ hand \in Seq(Numbers) /\ wire \in Seq(Numbers)
  /\ Len(queue) <= SendCap /\ Len(hand) <= 1
  /\ offered \in Nat

InboxTyped == inbox \in Seq(Frames) /\ frames \in 0..MaxFrames

TimersTyped ==
  /\ left \in [Timers -> Nat]
  /\ left["read"] <= PongWait /\ left["ping"] \in 1..PingPeriod
  /\ left["send"] <= SendTime /\ left["pong"] <= PeerDelay
  /\ left["reply"] <= ReplyWait
  /\ left["write"] <= WriteWait
  /\ quiet \in Nat /\ lag \in Nat

ConnTyped == ControlTyped /\ QueueTyped /\ InboxTyped /\ TimersTyped

(* Every reply answers a frame of the peer's own.                          *)
Unanswered == Own(inbox) + (IF rd = "send" THEN 1 ELSE 0)

OfferInv ==
  /\ Own(inbox) <= InboxCap
  /\ Unanswered <= frames
  /\ offered + Unanswered <= MaxBroadcasts + frames

(* The writePump has a message in hand when it writes one, or has failed.  *)
HandInv ==
  /\ wr = "message" => Len(hand) = 1
  /\ wr \in {"select", "ping", "bye"} => hand = <<>>

(* Who has passed Client.Close finds the connection closed.  From then on  *)
(* only a Send that had begun before takes time: one that begins later     *)
(* fails at once.                                                          *)
EndInv ==
  /\ rd \in {"wait", "left"} \/ wr = "done" => once = "closed"
  /\ rd = "left" => wr = "done"
  /\ rd # "send" => left["send"] = 0
  /\ once # "closed" => lag = 0
  /\ lag + left["send"] <= SendTime

(* A silent peer.  A pong it has sent before is read after what is ahead   *)
(* of it; then the deadline passes, and then what had arrived meanwhile is *)
(* read, a close frame, which is answered, last.                           *)
SilentServed == peer = "silent" /\ once = "new" /\ rd \in {"read", "send"}

LastPong ==
  \A p \in DOMAIN inbox : inbox[p] = "pong" =>
    quiet + left["send"] + Ahead(p) * SendTime <= Backlog

NoPong == \A p \in DOMAIN inbox : inbox[p] # "pong"

LastDeadline ==
  /\ left["read"] > 0 => quiet + left["read"] <= PongWait + Backlog
  /\ left["read"] = 0 /\ NoPong =>
       quiet + left["send"] + Own(inbox) * SendTime <= PongWait + 2 * Backlog - 1

LastReply ==
  peer = "silent" /\ once = "new" /\ rd = "reply" =>
    quiet + left["reply"] <= QuietBound

SilentInv ==
  /\ peer = "healthy" => quiet = 0
  /\ SilentServed => LastPong /\ LastDeadline
  /\ LastReply
  /\ quiet <= QuietBound

(* A healthy peer.  Before the read deadline a pong will be read: it has   *)
(* arrived, or is owed, or its ping is about to be written, or the ticker  *)
(* fires early enough.                                                     *)
PongArrived ==
  \E p \in DOMAIN inbox :
    inbox[p] = "pong" /\ left["read"] > left["send"] + Ahead(p) * SendTime

PongOwed == owed /\ left["read"] > left["pong"] + Backlog

PingDue ==
  ~owed /\ (ticked \/ wr = "ping") /\ left["read"] > PeerDelay + Backlog

PingAhead == left["read"] > left["ping"] + PeerDelay + Backlog

PongInTime == PongArrived \/ PongOwed \/ PingDue \/ PingAhead

Served ==
  /\ once = "new" /\ rd \in {"read", "send"}
  /\ wr \in {"select", "message", "ping"} /\ ~byeSent
  /\ \A k \in DOMAIN inbox : inbox[k] # "close"

HealthyInv ==
  KeepAliveMargin /\ peer = "healthy" /\ sd = "no" => Served /\ PongInTime

ConnIndInv ==
  /\ ConnTyped /\ OfferInv /\ HandInv /\ EndInv /\ SilentInv /\ HealthyInv

-----------------------------------------------------------------------------
(* Frames that are not pongs, counted.                                     *)

(* The constants are numbers, and a Send has room in a Backlog.            *)
LEMMA ConnNumbers ==
  /\ PongWait \in Nat \ {0} /\ PingPeriod \in Nat \ {0}
  /\ WriteWait \in Nat \ {0} /\ SendTime \in Nat \ {0}
  /\ ReplyWait \in Nat \ {0}
  /\ PeerDelay \in Nat \ {0} /\ SendCap \in Nat \ {0}
  /\ InboxCap \in Nat \ {0} /\ MaxFrames \in Nat /\ MaxBroadcasts \in Nat
BY ConnAssumption

(* One more Send takes SendTime more.                                      *)
LEMMA OneMoreSend ==
  ASSUME NEW n \in Nat
  PROVE  /\ n * SendTime \in Nat
         /\ (n + 1) * SendTime = n * SendTime + SendTime
BY ConnNumbers

(* More Sends take no less time.                                           *)
LEMMA MoreSends ==
  ASSUME NEW m \in Nat, NEW n \in Nat, m <= n
  PROVE  m * SendTime <= n * SendTime
BY ConnNumbers

(* A Backlog is the Sends of a full inbox and one in progress.             *)
LEMMA BacklogSplit ==
  /\ Backlog \in Nat
  /\ Backlog = InboxCap * SendTime + SendTime
  /\ InboxCap * SendTime \in Nat
  /\ InboxCap * SendTime >= SendTime
  /\ QuietBound \in Nat
  /\ QuietBound >= PongWait + 2 * Backlog - 1
  /\ QuietBound >= PongWait + 2 * Backlog - 1 - SendTime + ReplyWait
<1>1. /\ Backlog = InboxCap * SendTime + SendTime
      /\ InboxCap * SendTime \in Nat
  BY ConnNumbers, OneMoreSend DEF Backlog
<1>2. 1 * SendTime <= InboxCap * SendTime
  BY ConnNumbers, MoreSends
<1>3. (2 * InboxCap + 1) * SendTime = 2 * Backlog - SendTime
  BY ConnNumbers DEF Backlog
<1>4. QuietBound = PongWait + (2 * Backlog - SendTime) + FrameTime - 1
  BY <1>3 DEF QuietBound
<1> QED
  BY <1>1, <1>2, <1>4, ConnNumbers DEF FrameTime

(* The peer's own frames are some of the inbox's.                          *)
LEMMA OwnInBounds ==
  ASSUME NEW s \in Seq(Frames), NEW p \in Nat
  PROVE  /\ IsFiniteSet(OwnIn(s, p))
         /\ Cardinality(OwnIn(s, p)) \in Nat
         /\ IsFiniteSet(OwnIn(s, Len(s)))
         /\ Own(s) \in Nat
         /\ Cardinality(OwnIn(s, p)) <= Own(s)
         /\ Own(s) <= Len(s)
<1>1. IsFiniteSet(1..Len(s)) /\ Cardinality(1..Len(s)) = Len(s)
  <2>1. Len(s) \in Nat
    OBVIOUS
  <2>2. /\ IsFiniteSet(1..Len(s))
        /\ Cardinality(1..Len(s))
             = IF 1 > Len(s) THEN 0 ELSE Len(s) - 1 + 1
    BY <2>1, FS_Interval
  <2> QED
    BY <2>1, <2>2
<1>2. OwnIn(s, Len(s)) \subseteq 1..Len(s)
  BY DEF OwnIn
<1>3. OwnIn(s, p) \subseteq OwnIn(s, Len(s))
  BY DEF OwnIn
<1>4. IsFiniteSet(OwnIn(s, Len(s))) /\ Own(s) <= Len(s)
  BY <1>1, <1>2, FS_Subset DEF Own
<1>5. IsFiniteSet(OwnIn(s, p)) /\ Cardinality(OwnIn(s, p)) <= Own(s)
  BY <1>3, <1>4, FS_Subset DEF Own
<1> QED
  BY <1>4, <1>5, FS_CardinalityType DEF Own

(* What an appended frame changes.                                         *)
LEMMA OwnAppend ==
  ASSUME NEW s \in Seq(Frames), NEW f \in Frames
  PROVE  /\ Append(s, f) \in Seq(Frames)
         /\ DOMAIN Append(s, f) = DOMAIN s \cup {Len(s) + 1}
         /\ Append(s, f)[Len(s) + 1] = f
         /\ \A p \in DOMAIN s : /\ Append(s, f)[p] = s[p]
                                /\ OwnIn(Append(s, f), p) = OwnIn(s, p)
         /\ Own(Append(s, f)) = Own(s) + (IF f = "pong" THEN 0 ELSE 1)
<1> DEFINE t == Append(s, f)
           n == Len(s)
<1>1. /\ t \in Seq(Frames) /\ Len(t) = n + 1 /\ t[n + 1] = f
      /\ DOMAIN t = DOMAIN s \cup {n + 1}
      /\ \A p \in DOMAIN s : t[p] = s[p]
  OBVIOUS
<1>2. \A p \in DOMAIN s : OwnIn(t, p) = OwnIn(s, p)
  BY <1>1 DEF OwnIn
<1>3. Own(t) = Own(s) + (IF f = "pong" THEN 0 ELSE 1)
  <2>1. CASE f = "pong"
    <3>1. OwnIn(t, n + 1) = OwnIn(s, n)
      BY <1>1, <2>1 DEF OwnIn
    <3> QED
      BY <3>1, <1>1, <2>1, OwnInBounds DEF Own
  <2>2. CASE f # "pong"
    <3>1. OwnIn(t, n + 1) = OwnIn(s, n) \cup {n + 1} /\ n + 1 \notin OwnIn(s, n)
      BY <1>1, <2>2 DEF OwnIn
    <3>2. IsFiniteSet(OwnIn(s, n))
      BY OwnInBounds
    <3> QED
      BY <3>1, <3>2, <1>1, <2>2, FS_AddElement DEF Own
  <2> QED
    BY <2>1, <2>2
<1> QED
  BY <1>1, <1>2, <1>3

(* What reading the first frame changes.                                   *)
LEMMA OwnTail ==
  ASSUME NEW s \in Seq(Frames), s # <<>>
  PROVE  LET first == IF Head(s) = "pong" THEN 0 ELSE 1 IN
         /\ Tail(s) \in Seq(Frames)
         /\ Head(s) = s[1] /\ 1 \in DOMAIN s
         /\ \A p \in DOMAIN s \ {1} :
              /\ p - 1 \in DOMAIN Tail(s) /\ Tail(s)[p - 1] = s[p]
              /\ Cardinality(OwnIn(s, p))
                   = Cardinality(OwnIn(Tail(s), p - 1)) + first
         /\ \A q \in DOMAIN Tail(s) : q + 1 \in DOMAIN s \ {1}
         /\ Own(s) = Own(Tail(s)) + first
<1> DEFINE t == Tail(s)
           first == IF Head(s) = "pong" THEN 0 ELSE 1
<1>1. /\ t \in Seq(Frames) /\ Len(s) \in Nat \ {0} /\ Len(t) = Len(s) - 1
      /\ Head(s) = s[1] /\ 1 \in DOMAIN s
      /\ \A q \in DOMAIN t : q + 1 \in DOMAIN s \ {1} /\ t[q] = s[q + 1]
      /\ \A p \in DOMAIN s \ {1} : p - 1 \in DOMAIN t /\ t[p - 1] = s[p]
      /\ DOMAIN t \subseteq Nat \ {0} /\ DOMAIN s \subseteq Nat \ {0}
  OBVIOUS
<1>2. ASSUME NEW p \in Nat \ {0}
      PROVE  Cardinality(OwnIn(s, p)) = Cardinality(OwnIn(t, p - 1)) + first
  <2> DEFINE behind == OwnIn(s, p) \ {1}
             shift == [q \in OwnIn(t, p - 1) |-> q + 1]
  <2>1. /\ \A q \in OwnIn(t, p - 1) : q \in Nat /\ q + 1 \in behind
        /\ \A k \in behind : k \in Nat /\ k - 1 \in OwnIn(t, p - 1)
    BY <1>1 DEF OwnIn
  <2>2. shift \in Bijection(OwnIn(t, p - 1), behind)
    <3>1. shift \in [OwnIn(t, p - 1) -> behind]
      BY <2>1
    <3>2. \A a, b \in OwnIn(t, p - 1) : shift[a] = shift[b] => a = b
      BY <2>1
    <3>3. \A k \in behind : \E q \in OwnIn(t, p - 1) : shift[q] = k
      <4>1. \A k \in behind : shift[k - 1] = k
        BY <2>1
      <4> QED
        BY <4>1, <2>1
    <3> QED
      BY <3>1, <3>2, <3>3 DEF Bijection, Injection, Surjection, IsInjective
  <2>3. IsFiniteSet(OwnIn(t, p - 1)) /\ IsFiniteSet(OwnIn(s, p))
    <3>1. p - 1 \in Nat /\ p \in Nat
      OBVIOUS
    <3> QED
      BY <3>1, <1>1, OwnInBounds
  <2>4. Cardinality(behind) = Cardinality(OwnIn(t, p - 1))
    BY <2>2, <2>3, FS_Bijection DEF ExistsBijection
  <2>5. CASE Head(s) = "pong"
    <3>1. 1 \notin OwnIn(s, p)
      BY <2>5, <1>1 DEF OwnIn
    <3>2. Cardinality(behind) = Cardinality(OwnIn(s, p))
      BY <3>1, <2>3, FS_RemoveElement
    <3>3. Cardinality(OwnIn(s, p)) \in Nat
      BY OwnInBounds
    <3> QED
      BY <3>2, <3>3, <2>4, <2>5
  <2>6. CASE Head(s) # "pong"
    <3>1. 1 \in OwnIn(s, p)
      BY <2>6, <1>1 DEF OwnIn
    <3>2. Cardinality(behind) = Cardinality(OwnIn(s, p)) - 1
      BY <3>1, <2>3, FS_RemoveElement
    <3>3. Cardinality(OwnIn(s, p)) \in Nat
      BY OwnInBounds
    <3> QED
      BY <3>2, <3>3, <2>4, <2>6
  <2> QED
    BY <2>5, <2>6
<1>3. Own(s) = Own(t) + first
  BY <1>1, <1>2 DEF Own
<1> QED
  BY <1>1, <1>2, <1>3

-----------------------------------------------------------------------------
(* The initial state, and the types.                                       *)

(* The invariant holds when the connection is opened.                      *)
LEMMA ConnInitHolds == Init => ConnIndInv
<1> SUFFICES ASSUME Init
             PROVE  ConnIndInv
  OBVIOUS
<1>1. /\ left["read"] = PongWait /\ left["ping"] = PingPeriod
      /\ left["send"] = 0 /\ left["write"] = 0 /\ left["pong"] = 0
      /\ left["reply"] = 0
      /\ left \in [Timers -> Nat]
  BY ConnNumbers DEF Init, Timers
<1>2. ConnTyped
  <2>1. ControlTyped
    BY DEF Init, ControlTyped
  <2>2. QueueTyped /\ InboxTyped
    BY ConnNumbers DEF Init, QueueTyped, InboxTyped
  <2>3. TimersTyped
    BY <1>1, ConnNumbers DEF Init, TimersTyped
  <2> QED
    BY <2>1, <2>2, <2>3 DEF ConnTyped
<1>3. Own(inbox) = 0
  <2>1. OwnIn(inbox, Len(inbox)) = {}
    BY DEF Init, OwnIn
  <2> QED
    BY <2>1, FS_EmptySet DEF Own
<1>4. OfferInv
  BY <1>3, ConnNumbers DEF Init, OfferInv, Unanswered
<1>5. HandInv /\ EndInv
  BY <1>1, ConnNumbers DEF Init, HandInv, EndInv
<1>6. SilentInv
  <2>1. peer = "healthy" /\ quiet = 0
    BY DEF Init
  <2>2. 0 <= QuietBound
    BY ConnNumbers, BacklogSplit
  <2> QED
    BY <2>1, <2>2 DEF SilentInv, SilentServed, LastReply
<1>7. HealthyInv
  <2>1. KeepAliveMargin => left["read"] > left["ping"] + PeerDelay + Backlog
    BY <1>1, ConnNumbers, BacklogSplit DEF KeepAliveMargin, Backlog
  <2> QED
    BY <2>1 DEF Init, HealthyInv, Served, PongInTime, PingAhead
<1> QED
  BY <1>2, <1>4, <1>5, <1>6, <1>7 DEF ConnIndInv

(* No step leaves the states of the two pumps, Close and the peer.         *)
LEMMA ControlTypedStep ==
  ASSUME ControlTyped, [Next]_vars
  PROVE  ControlTyped'
<1> USE DEF ControlTyped, peerVars, writerVars, queueVars, closeVars, clockVars
<1>1. CASE ReadPong \/ ReadDanmaku \/ ReadRequest \/ ReadClose
  BY <1>1 DEF ReadPong, ReadDanmaku, ReadRequest, ReadClose
<1>2. CASE ReplyEnds \/ ReadFails \/ SendReturns \/ ServeEnds
  BY <1>2 DEF ReplyEnds, ReadFails, SendReturns, ServeEnds
<1>3. CASE Select
  BY <1>3 DEF Select
<1>4. CASE WriteOk
  BY <1>4 DEF WriteOk
<1>5. CASE WriteFails \/ WriterEnds
  BY <1>5 DEF WriteFails, WriterEnds
<1>6. CASE Close
  BY <1>6 DEF Close, Cancel, CloseSocket, Shutdown
<1>7. CASE Environment
  BY <1>7 DEF Environment, Broadcast, PeerSends, PeerPongs, PeerFails
<1>8. CASE Tick
  <2>1. ticked' \in BOOLEAN
    BY <1>8 DEF Tick
  <2> QED
    BY <1>8, <2>1 DEF Tick
<1>9. CASE UNCHANGED vars
  BY <1>9 DEF vars
<1> QED
  BY <1>1, <1>2, <1>3, <1>4, <1>5, <1>6, <1>7, <1>8, <1>9
     DEF Next, ReadPump, WritePump

(* A message that is offered gets the next number, and the queue keeps to  *)
(* its capacity.                                                           *)
LEMMA OfferTyped ==
  ASSUME QueueTyped, Offer, offered < MaxBroadcasts + MaxFrames
  PROVE  /\ offered' = offered + 1 /\ offered' \in Numbers
         /\ queue' \in Seq(Numbers) /\ Len(queue') <= SendCap
         /\ queue' = queue \/ (/\ Len(queue) < SendCap
                               /\ queue' = Append(queue, offered'))
<1>1. offered' = offered + 1 /\ offered' \in Numbers
  BY ConnNumbers DEF QueueTyped, Offer, Numbers
<1>2. CASE Len(queue) < SendCap
  <2>1. queue' = Append(queue, offered')
    BY <1>2 DEF Offer, Enqueue
  <2> QED
    BY <1>1, <1>2, <2>1, ConnNumbers DEF QueueTyped
<1>3. CASE ~(Len(queue) < SendCap)
  <2>1. queue' = queue
    BY <1>3 DEF Offer, Enqueue
  <2> QED
    BY <1>1, <2>1 DEF QueueTyped
<1> QED
  BY <1>2, <1>3

(* Every message that is offered finds its number below the bound.         *)
LEMMA OfferBounded ==
  ASSUME ConnTyped, OfferInv, ReadRequest \/ SendReturns \/ Broadcast
  PROVE  offered < MaxBroadcasts + MaxFrames
<1> USE DEF ConnTyped, QueueTyped, InboxTyped
<1>1. Own(inbox) \in Nat
  <2>1. Len(inbox) \in Nat
    OBVIOUS
  <2> QED
    BY <2>1, OwnInBounds
<1>2. CASE ReadRequest
  <2>1. inbox # <<>> /\ Head(inbox) = "request"
    BY <1>2 DEF ReadRequest, Reads
  <2>2. Own(inbox) = Own(Tail(inbox)) + 1 /\ Tail(inbox) \in Seq(Frames)
    BY <2>1, OwnTail
  <2>3. Own(Tail(inbox)) \in Nat
    BY <2>2, OwnInBounds
  <2> QED
    BY <2>2, <2>3, ConnNumbers DEF OfferInv, Unanswered
<1>3. CASE SendReturns
  BY <1>1, <1>3, ConnNumbers DEF SendReturns, OfferInv, Unanswered
<1>4. CASE Broadcast
  BY <1>4, ConnNumbers DEF Broadcast
<1> QED
  BY <1>2, <1>3, <1>4

(* The queue, the message in hand and the messages written stay messages.  *)
LEMMA QueueTypedStep ==
  ASSUME ConnTyped, OfferInv, [Next]_vars
  PROVE  QueueTyped'
<1> USE DEF peerVars, writerVars, queueVars, closeVars, clockVars
<1>1. QueueTyped
  BY DEF ConnTyped
<1>2. CASE ReadRequest \/ SendReturns \/ Broadcast
  <2>1. offered < MaxBroadcasts + MaxFrames
    BY <1>2, OfferBounded
  <2>2. CASE Offer
    BY <1>1, <1>2, <2>1, <2>2, OfferTyped
       DEF QueueTyped, ReadRequest, SendReturns, Broadcast
  <2>3. CASE UNCHANGED queueVars
    BY <1>1, <1>2, <2>3 DEF QueueTyped, ReadRequest, SendReturns, Broadcast
  <2> QED
    BY <1>2, <2>2, <2>3 DEF ReadRequest, SendReturns, Broadcast
<1>3. CASE Select
  <2>1. CASE UNCHANGED <<queue, hand>>
    BY <1>1, <1>3, <2>1 DEF QueueTyped, Select
  <2>2. CASE /\ queue # <<>>
             /\ hand' = <<Head(queue)>> /\ queue' = Tail(queue)
    <3>1. Head(queue) \in Numbers /\ queue' \in Seq(Numbers)
      BY <1>1, <2>2 DEF QueueTyped
    <3>2. Len(queue') <= SendCap
      BY <1>1, <2>2, ConnNumbers DEF QueueTyped
    <3>3. hand' \in Seq(Numbers) /\ Len(hand') = 1
      BY <2>2, <3>1
    <3> QED
      BY <1>1, <1>3, <3>1, <3>2, <3>3 DEF QueueTyped, Select
  <2> QED
    BY <1>3, <2>1, <2>2 DEF Select
<1>4. CASE WriteOk
  <2>1. CASE UNCHANGED <<hand, wire>>
    BY <1>1, <1>4, <2>1 DEF QueueTyped, WriteOk
  <2>2. CASE wire' = wire \o hand /\ hand' = <<>>
    <3>1. wire' \in Seq(Numbers) /\ hand' \in Seq(Numbers) /\ Len(hand') = 0
      BY <1>1, <2>2 DEF QueueTyped
    <3> QED
      BY <1>1, <1>4, <3>1 DEF QueueTyped, WriteOk
  <2> QED
    BY <1>4, <2>1, <2>2 DEF WriteOk
<1>5. CASE UNCHANGED <<queueVars, hand, wire>>
  BY <1>1, <1>5 DEF QueueTyped
<1>6. \/ ReadRequest \/ SendReturns \/ Broadcast \/ Select \/ WriteOk
      \/ UNCHANGED <<queueVars, hand, wire>>
  BY DEF Next, vars, ReadPump, ReadPong, ReadDanmaku, ReadClose, ReplyEnds,
         ReadFails, ServeEnds, WritePump, WriteFails, WriterEnds, Close,
         Cancel, CloseSocket, Shutdown, Environment, PeerSends, PeerPongs,
         PeerFails, Tick
<1> QED
  BY <1>2, <1>3, <1>4, <1>5, <1>6

(* Frames arrive at the end of the inbox and are read from its front.      *)
LEMMA InboxTypedStep ==
  ASSUME InboxTyped, [Next]_vars
  PROVE  InboxTyped'
<1> USE DEF InboxTyped, peerVars, writerVars, queueVars, closeVars, clockVars
<1>1. CASE ReadPong \/ ReadDanmaku \/ ReadRequest \/ ReadClose
  BY <1>1 DEF ReadPong, ReadDanmaku, ReadRequest, ReadClose, Reads
<1>2. CASE ReadFails
  BY <1>2 DEF ReadFails
<1>3. CASE PeerSends
  BY <1>3, ConnNumbers DEF PeerSends, Frames
<1>4. CASE PeerPongs
  BY <1>4 DEF PeerPongs, Frames
<1>5. CASE UNCHANGED <<inbox, frames>>
  BY <1>5
<1>6. \/ ReadPong \/ ReadDanmaku \/ ReadRequest \/ ReadClose \/ ReadFails
      \/ PeerSends \/ PeerPongs \/ UNCHANGED <<inbox, frames>>
  BY DEF Next, vars, ReadPump, ReplyEnds, SendReturns, ServeEnds, WritePump,
         Select, WriteOk, WriteFails, WriterEnds, Close, Cancel, CloseSocket,
         Shutdown, Environment, Broadcast, PeerFails, Tick
<1> QED
  BY <1>1, <1>2, <1>3, <1>4, <1>5, <1>6

(* What a tick does to the deadlines.                                      *)
LEMMA TickTimers ==
  ASSUME TimersTyped, Tick
  PROVE  /\ left' \in [Timers -> Nat]
         /\ \A k \in {"read", "send", "reply", "write", "pong"} :
              left'[k] = IF left[k] = 0 THEN 0 ELSE left[k] - 1
         /\ left'["ping"] = IF left["ping"] = 1 THEN PingPeriod
                                                ELSE left["ping"] - 1
BY ConnNumbers DEF TimersTyped, Tick, Timers

(* No deadline is further away than it was set.                            *)
LEMMA TimersTypedStep ==
  ASSUME TimersTyped, [Next]_vars
  PROVE  TimersTyped'
<1> USE ConnNumbers
    DEF TimersTyped, Start, Timers, peerVars, writerVars, queueVars,
        closeVars, clockVars
<1>1. CASE ReadPong \/ ReadDanmaku \/ ReadClose \/ ReplyEnds
  <2>1. CASE ReadPong
    BY <2>1 DEF ReadPong
  <2>2. CASE ReadDanmaku
    BY <2>2 DEF ReadDanmaku
  <2>3. CASE ReadClose \/ ReplyEnds
    BY <2>3 DEF ReadClose, ReplyEnds
  <2> QED
    BY <1>1, <2>1, <2>2, <2>3
<1>2. CASE SendReturns \/ Select \/ WriteFails
  <2>1. CASE SendReturns
    BY <2>1 DEF SendReturns
  <2>2. CASE Select
    BY <2>2 DEF Select
  <2>3. CASE WriteFails
    BY <2>3 DEF WriteFails
  <2> QED
    BY <1>2, <2>1, <2>2, <2>3
<1>3. CASE WriteOk
  BY <1>3 DEF WriteOk
<1>4. CASE CloseSocket
  BY <1>4 DEF CloseSocket
<1>5. CASE Tick
  <2>1. quiet' \in Nat /\ lag' \in Nat
    BY <1>5 DEF Tick, Count
  <2> QED
    BY <1>5, <2>1, TickTimers
<1>6. CASE UNCHANGED <<left, quiet, lag>>
  BY <1>6
<1>7. \/ ReadPong \/ ReadDanmaku \/ ReadClose \/ ReplyEnds \/ SendReturns
      \/ Select \/ WriteFails \/ WriteOk \/ CloseSocket \/ Tick
      \/ UNCHANGED <<left, quiet, lag>>
  BY DEF Next, vars, ReadPump, ReadRequest, ReadFails, ServeEnds, WritePump,
         WriterEnds, Close, Cancel, Shutdown, Environment, Broadcast,
         PeerSends, PeerPongs, PeerFails
<1> QED
  BY <1>1, <1>2, <1>3, <1>4, <1>5, <1>6, <1>7

(* Together: the types.                                                    *)
LEMMA ConnTypedStep ==
  ASSUME ConnTyped, OfferInv, [Next]_vars
  PROVE  ConnTyped'
BY ControlTypedStep, QueueTypedStep, InboxTypedStep, TimersTypedStep
   DEF ConnTyped

-----------------------------------------------------------------------------
(* Replies, the message in hand, and the end.                              *)

(* The frames of its own that the peer has sent are counted.               *)
LEMMA OwnIsCount ==
  ASSUME InboxTyped
  PROVE  Own(inbox) \in Nat /\ Own(inbox) <= Len(inbox) /\ Len(inbox) \in Nat
<1>1. inbox \in Seq(Frames) /\ Len(inbox) \in Nat
  BY DEF InboxTyped
<1> QED
  BY <1>1, OwnInBounds

(* Reading a frame takes it from the peer's own, unless it is a pong.      *)
LEMMA ReadsOwn ==
  ASSUME InboxTyped, NEW kind \in Frames, Reads(kind)
  PROVE  /\ rd = "read" /\ inbox # <<>> /\ Head(inbox) = kind
         /\ inbox' = Tail(inbox) /\ Own(inbox') \in Nat
         /\ Own(inbox) = Own(inbox') + (IF kind = "pong" THEN 0 ELSE 1)
<1>1. /\ rd = "read" /\ inbox # <<>> /\ Head(inbox) = kind
      /\ inbox' = Tail(inbox) /\ inbox \in Seq(Frames)
  BY DEF Reads, InboxTyped
<1>2. /\ Own(inbox) = Own(inbox') + (IF kind = "pong" THEN 0 ELSE 1)
      /\ inbox' \in Seq(Frames)
  BY <1>1, OwnTail
<1>3. Len(inbox') \in Nat
  BY <1>2
<1> QED
  BY <1>1, <1>2, <1>3, OwnInBounds

(* The peer's frame comes after the others.                                *)
LEMMA PeerSendsOwn ==
  ASSUME InboxTyped, PeerSends
  PROVE  \E f \in Frames \ {"pong"} :
           /\ inbox' = Append(inbox, f)
           /\ Own(inbox') = Own(inbox) + 1
           /\ IF f = "close" THEN peer' = "silent" ELSE UNCHANGED peer
<1>1. PICK f \in Frames \ {"pong"} :
           /\ inbox' = Append(inbox, f)
           /\ IF f = "close" THEN peer' = "silent" ELSE UNCHANGED peer
  BY DEF PeerSends, Frames
<1>2. Own(inbox') = Own(inbox) + 1
  BY <1>1, OwnAppend DEF InboxTyped
<1> QED
  BY <1>1, <1>2

(* Each reply uses up a frame of the peer's own.                           *)
LEMMA OfferInvStep ==
  ASSUME ConnTyped, OfferInv, [Next]_vars
  PROVE  OfferInv'
<1> USE ConnNumbers
    DEF OfferInv, Unanswered, peerVars, writerVars, queueVars, closeVars,
        clockVars
<1>1. /\ InboxTyped /\ frames \in Nat /\ offered \in Nat
      /\ Own(inbox) \in Nat /\ Own(inbox) <= Len(inbox) /\ Len(inbox) \in Nat
  BY OwnIsCount DEF ConnTyped, QueueTyped, InboxTyped
<1>2. CASE ReadPong
  BY <1>1, <1>2, ReadsOwn DEF ReadPong, Frames
<1>3. CASE ReadDanmaku
  BY <1>1, <1>3, ReadsOwn DEF ReadDanmaku, Frames
<1>4. CASE ReadRequest
  BY <1>1, <1>4, ReadsOwn DEF ReadRequest, Frames, Offer
<1>5. CASE ReadClose \/ ReplyEnds
  <2>1. CASE ReadClose
    BY <1>1, <2>1, ReadsOwn DEF ReadClose, Frames
  <2>2. CASE ReplyEnds
    BY <1>1, <2>2 DEF ReplyEnds
  <2> QED
    BY <1>5, <2>1, <2>2
<1>6. CASE ReadFails
  <2>1. Own(inbox') = 0
    <3>1. OwnIn(inbox', Len(inbox')) = {}
      BY <1>6 DEF ReadFails, OwnIn
    <3> QED
      BY <3>1, FS_EmptySet DEF Own
  <2> QED
    BY <1>1, <1>6, <2>1 DEF ReadFails
<1>7. CASE SendReturns
  BY <1>1, <1>7 DEF SendReturns, Offer
<1>8. CASE ServeEnds
  BY <1>1, <1>8 DEF ServeEnds
<1>9. CASE Broadcast
  BY <1>1, <1>9 DEF Broadcast, Offer
<1>10. CASE PeerSends
  BY <1>1, <1>10, PeerSendsOwn DEF PeerSends
<1>11. CASE PeerPongs
  <2>1. Own(inbox') = Own(inbox)
    BY <1>1, <1>11, OwnAppend DEF PeerPongs, InboxTyped, Frames
  <2> QED
    BY <1>1, <1>11, <2>1 DEF PeerPongs
<1>12. CASE UNCHANGED <<rd, inbox, frames, offered>>
  BY <1>1, <1>12
<1>13. UNCHANGED <<rd, inbox, frames, offered>>
         \/ ReadPump \/ Broadcast \/ PeerSends \/ PeerPongs
  BY DEF Next, vars, WritePump, Select, WriteOk, WriteFails, WriterEnds,
         Close, Cancel, CloseSocket, Shutdown, Environment, PeerFails, Tick
<1> QED
  BY <1>2, <1>3, <1>4, <1>5, <1>6, <1>7, <1>8, <1>9, <1>10, <1>11, <1>12,
     <1>13 DEF ReadPump

(* The message in hand is the one being written.                           *)
LEMMA HandInvStep ==
  ASSUME ConnTyped, HandInv, [Next]_vars
  PROVE  HandInv'
<1> USE DEF HandInv, peerVars, writerVars
<1>1. CASE Select
  <2>1. wr' = "message" => Len(hand') = 1
    BY <1>1 DEF Select
  <2> QED
    BY <1>1, <2>1 DEF Select
<1>2. CASE WriteOk
  BY <1>2 DEF WriteOk
<1>3. CASE WriteFails \/ WriterEnds
  BY <1>3 DEF WriteFails, WriterEnds
<1>4. CASE UNCHANGED <<wr, hand>>
  BY <1>4
<1>5. WritePump \/ UNCHANGED <<wr, hand>>
  BY DEF Next, vars, ReadPump, ReadPong, ReadDanmaku, ReadRequest, ReadClose,
         ReplyEnds, ReadFails, SendReturns, ServeEnds, Close, Cancel,
         CloseSocket, Shutdown, Environment, Broadcast, PeerSends, PeerPongs,
         PeerFails, Tick
<1> QED
  BY <1>1, <1>2, <1>3, <1>4, <1>5 DEF WritePump

(* After the connection is closed time passes only while a Send is in      *)
(* progress: everything else is ready.                                     *)
LEMMA TickInSend ==
  ASSUME ConnTyped, EndInv, Tick, once # "new"
  PROVE  once = "closed" /\ rd = "send" /\ left["send"] > 0
<1>1. once = "closed"
  BY DEF Tick, ConnTyped, ControlTyped
<1>2. wr = "done"
  BY <1>1 DEF Tick, WriterReady, CancelSeen, Writable, ConnTyped,
              ControlTyped
<1>3. rd = "send"
  BY <1>1, <1>2 DEF Tick, ReaderReady, ReplyFailing, Writable, Ended,
                    ConnTyped, ControlTyped
<1>4. left["send"] # 0 /\ left["send"] \in Nat
  BY <1>3 DEF Tick, ReaderReady, ConnTyped, TimersTyped, Timers
<1> QED
  BY <1>1, <1>3, <1>4

(* The end takes no longer than the Send that it finds in progress.        *)
LEMMA EndInvStep ==
  ASSUME ConnTyped, EndInv, [Next]_vars
  PROVE  EndInv'
<1> USE ConnNumbers
    DEF EndInv, peerVars, writerVars, queueVars, closeVars, clockVars
<1>1. /\ left \in [Timers -> Nat] /\ left["send"] \in Nat /\ lag \in Nat
      /\ left["send"] <= SendTime
      /\ rd \in {"read", "send", "reply", "close", "wait", "left"}
      /\ wr \in {"select", "message", "ping", "bye", "close", "done"}
      /\ once \in {"new", "cancelled", "closed"}
  BY DEF ConnTyped, ControlTyped, TimersTyped, Timers
<1>2. CASE ReadPong
  BY <1>1, <1>2 DEF ReadPong, Reads, Start, Timers
<1>3. CASE ReadDanmaku
  BY <1>1, <1>3 DEF ReadDanmaku, Reads, Start, Timers
<1>4. CASE ReadRequest \/ ReadClose \/ ReplyEnds \/ ReadFails
  <2>1. CASE ReadRequest \/ ReadFails
    BY <1>1, <2>1 DEF ReadRequest, ReadFails, Reads
  <2>2. CASE ReadClose
    BY <1>1, <2>2 DEF ReadClose, Reads, Start, Timers
  <2>3. CASE ReplyEnds
    BY <1>1, <2>3 DEF ReplyEnds, Start, Timers
  <2> QED
    BY <1>4, <2>1, <2>2, <2>3
<1>5. CASE SendReturns
  BY <1>1, <1>5 DEF SendReturns, Start, Timers
<1>6. CASE ServeEnds
  BY <1>1, <1>6 DEF ServeEnds
<1>7. CASE Select \/ WriteFails
  BY <1>1, <1>7 DEF Select, WriteFails, Start, Timers
<1>8. CASE WriteOk
  <2>1. left'["send"] = left["send"]
    BY <1>1, <1>8 DEF WriteOk, Start, Timers
  <2> QED
    BY <1>1, <1>8, <2>1 DEF WriteOk
<1>9. CASE WriterEnds
  BY <1>1, <1>9 DEF WriterEnds
<1>10. CASE CloseSocket
  BY <1>1, <1>10 DEF CloseSocket, Timers
<1>11. CASE Cancel \/ Shutdown
  BY <1>1, <1>11 DEF Cancel, Shutdown
<1>12. CASE Environment
  BY <1>1, <1>12 DEF Environment, Broadcast, PeerSends, PeerPongs, PeerFails
<1>13. CASE Tick
  <2>1. left'["send"] = IF left["send"] = 0 THEN 0 ELSE left["send"] - 1
    BY <1>13, TickTimers DEF ConnTyped
  <2>2. CASE once = "new"
    <3>1. lag' = lag
      BY <1>13, <2>2 DEF Tick, Count
    <3> QED
      BY <1>1, <1>13, <2>1, <2>2, <3>1 DEF Tick
  <2>3. CASE once # "new"
    <3>1. once = "closed" /\ rd = "send" /\ left["send"] > 0
      BY <1>13, <2>3, TickInSend
    <3>2. lag' <= lag + 1
      BY <1>1, <1>13 DEF Tick, Count
    <3> QED
      BY <1>1, <1>13, <2>1, <3>1, <3>2 DEF Tick, Count
  <2> QED
    BY <2>2, <2>3
<1>14. CASE UNCHANGED vars
  BY <1>14 DEF vars
<1> QED
  BY <1>2, <1>3, <1>4, <1>5, <1>6, <1>7, <1>8, <1>9, <1>10, <1>11, <1>12,
     <1>13, <1>14 DEF Next, ReadPump, WritePump, Close

-----------------------------------------------------------------------------
(* The silent peer.                                                        *)

(* What is unread takes no longer than the Sends of a full inbox.          *)
LEMMA AheadBounded ==
  ASSUME InboxTyped, OfferInv
  PROVE  /\ Own(inbox) * SendTime \in Nat
         /\ Own(inbox) * SendTime <= InboxCap * SendTime
         /\ \A p \in DOMAIN inbox :
              /\ p \in Nat /\ Ahead(p) \in Nat /\ Ahead(p) * SendTime \in Nat
              /\ Ahead(p) * SendTime <= InboxCap * SendTime
<1>1. ASSUME NEW n \in Nat, n <= InboxCap
      PROVE  n * SendTime \in Nat /\ n * SendTime <= InboxCap * SendTime
  BY <1>1, ConnNumbers, OneMoreSend, MoreSends
<1>2. Own(inbox) \in Nat /\ Own(inbox) <= InboxCap
  BY OwnIsCount DEF OfferInv
<1>3. ASSUME NEW p \in DOMAIN inbox
      PROVE  p \in Nat /\ Ahead(p) \in Nat /\ Ahead(p) <= InboxCap
  <2>1. p \in Nat /\ inbox \in Seq(Frames)
    BY DEF InboxTyped
  <2>2. Ahead(p) \in Nat /\ Ahead(p) <= Own(inbox)
    BY <2>1, OwnInBounds DEF Ahead
  <2> QED
    BY <1>2, <2>1, <2>2, ConnNumbers
<1> QED
  BY <1>1, <1>2, <1>3

(* After a read every frame has moved up, and a Send less is ahead of it   *)
(* unless the frame read was a pong.                                       *)
LEMMA AheadRead ==
  ASSUME InboxTyped, NEW kind \in Frames, Reads(kind)
  PROVE  LET first == IF kind = "pong" THEN 0 ELSE SendTime IN
         /\ 1 \in DOMAIN inbox /\ inbox[1] = kind
         /\ \A q \in DOMAIN inbox' :
              /\ q + 1 \in DOMAIN inbox /\ inbox'[q] = inbox[q + 1]
              /\ Ahead(q)' * SendTime \in Nat
              /\ Ahead(q + 1) * SendTime = Ahead(q)' * SendTime + first
         /\ \A p \in DOMAIN inbox \ {1} : \E q \in DOMAIN inbox' : p = q + 1
         /\ Own(inbox') * SendTime \in Nat
         /\ Own(inbox) * SendTime = Own(inbox') * SendTime + first
<1> DEFINE frame == IF kind = "pong" THEN 0 ELSE 1
           first == IF kind = "pong" THEN 0 ELSE SendTime
<1>1. /\ inbox \in Seq(Frames) /\ inbox # <<>> /\ Head(inbox) = kind
      /\ inbox' = Tail(inbox) /\ inbox' \in Seq(Frames)
  BY DEF Reads, InboxTyped
<1>2. /\ 1 \in DOMAIN inbox /\ inbox[1] = kind
      /\ \A p \in DOMAIN inbox \ {1} :
           /\ p - 1 \in DOMAIN inbox' /\ inbox'[p - 1] = inbox[p]
           /\ Cardinality(OwnIn(inbox, p))
                = Cardinality(OwnIn(inbox', p - 1)) + frame
      /\ \A q \in DOMAIN inbox' : q + 1 \in DOMAIN inbox \ {1}
  BY <1>1, OwnTail
<1>3. /\ \A q \in DOMAIN inbox' : q \in Nat /\ q + 1 - 1 = q
      /\ \A p \in DOMAIN inbox : p \in Nat /\ p = p - 1 + 1
  BY <1>1
<1>4. ASSUME NEW m \in Nat, NEW n \in Nat, m = n + frame
      PROVE  n * SendTime \in Nat /\ m * SendTime = n * SendTime + first
  BY <1>4, OneMoreSend, ConnNumbers
<1>5. Own(inbox) \in Nat /\ Own(inbox') \in Nat /\ Own(inbox) = Own(inbox') + frame
  BY ReadsOwn, OwnIsCount
<1>6. ASSUME NEW q \in DOMAIN inbox'
      PROVE  /\ q + 1 \in DOMAIN inbox /\ inbox'[q] = inbox[q + 1]
             /\ Ahead(q)' * SendTime \in Nat
             /\ Ahead(q + 1) * SendTime = Ahead(q)' * SendTime + first
  <2>1. q \in Nat /\ q + 1 \in Nat /\ q + 1 - 1 = q
    BY <1>3
  <2>2. Ahead(q + 1) \in Nat /\ Ahead(q)' \in Nat
    BY <1>1, <2>1, OwnInBounds DEF Ahead
  <2>3. q + 1 \in DOMAIN inbox \ {1}
    BY <1>2
  <2>4. Ahead(q + 1) = Ahead(q)' + frame /\ inbox'[q] = inbox[q + 1]
    BY <1>2, <2>1, <2>3 DEF Ahead
  <2> QED
    BY <1>4, <2>2, <2>3, <2>4
<1>7. \A p \in DOMAIN inbox \ {1} : \E q \in DOMAIN inbox' : p = q + 1
  BY <1>2, <1>3
<1> QED
  BY <1>2, <1>3, <1>4, <1>5, <1>6, <1>7

(* Reading another frame reads no pong.                                    *)
LEMMA NoPongRead ==
  ASSUME InboxTyped, NEW kind \in Frames \ {"pong"}, Reads(kind), NoPong'
  PROVE  NoPong
<1>1. /\ inbox[1] = kind
      /\ \A p \in DOMAIN inbox \ {1} :
           \E q \in DOMAIN inbox' : inbox'[q] = inbox[p]
  BY AheadRead
<1> QED
  BY <1>1 DEF NoPong

(* A frame that arrives changes nothing for those before it.               *)
LEMMA AheadAppended ==
  ASSUME InboxTyped, NEW f \in Frames, inbox' = Append(inbox, f)
  PROVE  /\ DOMAIN inbox' = DOMAIN inbox \cup {Len(inbox) + 1}
         /\ inbox'[Len(inbox) + 1] = f
         /\ \A p \in DOMAIN inbox : inbox'[p] = inbox[p] /\ Ahead(p)' = Ahead(p)
         /\ f = "pong" =>
              Cardinality(OwnIn(inbox', Len(inbox) + 1)) = Own(inbox)
<1>1. inbox \in Seq(Frames)
  BY DEF InboxTyped
<1>2. /\ DOMAIN inbox' = DOMAIN inbox \cup {Len(inbox) + 1}
      /\ inbox'[Len(inbox) + 1] = f
      /\ \A p \in DOMAIN inbox : /\ inbox'[p] = inbox[p]
                                 /\ OwnIn(inbox', p) = OwnIn(inbox, p)
      /\ Own(inbox') = Own(inbox) + (IF f = "pong" THEN 0 ELSE 1)
  BY <1>1, OwnAppend
<1>3. \A p \in DOMAIN inbox : Ahead(p)' = Ahead(p)
  BY <1>2 DEF Ahead
<1>4. f = "pong" => Cardinality(OwnIn(inbox', Len(inbox) + 1)) = Own(inbox)
  <2>1. Len(inbox') = Len(inbox) + 1 /\ Own(inbox) \in Nat
    BY <1>1, OwnIsCount
  <2>2. Own(inbox') = Cardinality(OwnIn(inbox', Len(inbox) + 1))
    BY <2>1 DEF Own
  <2> QED
    BY <1>2, <2>1, <2>2
<1> QED
  BY <1>2, <1>3, <1>4

(* A peer falls silent with a full deadline and backlog before it.         *)
LEMMA FallsSilent ==
  ASSUME ConnTyped, OfferInv, quiet = 0
  PROVE  LastPong /\ LastDeadline
<1>1. /\ left["send"] \in Nat /\ left["send"] <= SendTime
      /\ left["read"] \in Nat /\ left["read"] <= PongWait
  BY DEF ConnTyped, TimersTyped, Timers
<1>2. LastPong
  BY <1>1, ConnNumbers, AheadBounded, BacklogSplit DEF LastPong, ConnTyped
<1>3. LastDeadline
  BY <1>1, ConnNumbers, AheadBounded, BacklogSplit
     DEF LastDeadline, ConnTyped
<1> QED
  BY <1>2, <1>3

(* What the readPump does brings the end of a silent peer no later.        *)
LEMMA SilentRead ==
  ASSUME ConnTyped, OfferInv, EndInv, SilentInv,
         ReadPong \/ ReadDanmaku \/ ReadRequest, SilentServed
  PROVE  (LastPong /\ LastDeadline)'
<1> USE ConnNumbers DEF clockVars
<1>1. /\ LastPong /\ LastDeadline /\ InboxTyped /\ quiet \in Nat
      /\ left \in [Timers -> Nat] /\ left["send"] = 0 /\ quiet' = quiet
  BY DEF SilentInv, ConnTyped, TimersTyped, EndInv, ReadPong, ReadDanmaku,
         ReadRequest, Reads
<1>2. left["read"] \in Nat
  BY <1>1 DEF Timers
<1>3. CASE ReadPong
  <2>1. Reads("pong") /\ "pong" \in Frames
    BY <1>3 DEF ReadPong, Frames
  <2>2. left'["read"] = PongWait /\ left'["send"] = 0
    BY <1>1, <1>3 DEF ReadPong, Start, Timers, SilentServed
  <2>3. LastPong'
    <3> SUFFICES ASSUME NEW q \in DOMAIN inbox', inbox'[q] = "pong"
                 PROVE  quiet' + left'["send"] + Ahead(q)' * SendTime <= Backlog
      BY DEF LastPong
    <3>1. q + 1 \in DOMAIN inbox /\ inbox[q + 1] = "pong"
      BY <1>1, <2>1, AheadRead
    <3>2. /\ Ahead(q)' * SendTime \in Nat
          /\ Ahead(q + 1) * SendTime = Ahead(q)' * SendTime + 0
      BY <1>1, <2>1, <3>1, AheadRead
    <3>3. quiet + left["send"] + Ahead(q + 1) * SendTime <= Backlog
      BY <1>1, <3>1 DEF LastPong
    <3> QED
      BY <1>1, <2>1, <2>2, <3>2, <3>3
  <2>4. quiet <= Backlog
    <3>1. /\ 1 \in DOMAIN inbox /\ inbox[1] = "pong"
          /\ Ahead(1) * SendTime \in Nat
      BY <1>1, <2>1, AheadRead, AheadBounded
    <3> QED
      BY <1>1, <3>1, BacklogSplit DEF LastPong
  <2>5. LastDeadline'
    BY <1>1, <2>2, <2>4, BacklogSplit DEF LastDeadline
  <2> QED
    BY <2>3, <2>5
<1>4. CASE ReadDanmaku
  <2>1. Reads("danmaku") /\ "danmaku" \in Frames
    BY <1>4 DEF ReadDanmaku, Frames
  <2>2. left'["read"] = left["read"] /\ left'["send"] = SendTime
    BY <1>1, <1>4 DEF ReadDanmaku, Start, Timers, SilentServed
  <2>3. LastPong'
    <3> SUFFICES ASSUME NEW q \in DOMAIN inbox', inbox'[q] = "pong"
                 PROVE  quiet' + left'["send"] + Ahead(q)' * SendTime <= Backlog
      BY DEF LastPong
    <3>1. q + 1 \in DOMAIN inbox /\ inbox[q + 1] = "pong"
      BY <1>1, <2>1, AheadRead
    <3>2. /\ Ahead(q)' * SendTime \in Nat
          /\ Ahead(q + 1) * SendTime = Ahead(q)' * SendTime + SendTime
      BY <1>1, <2>1, <3>1, AheadRead
    <3>3. quiet + left["send"] + Ahead(q + 1) * SendTime <= Backlog
      BY <1>1, <3>1 DEF LastPong
    <3> QED
      BY <1>1, <2>1, <2>2, <3>2, <3>3
  <2>4. NoPong' => NoPong
    BY <1>1, <2>1, NoPongRead DEF Frames
  <2>5. LastDeadline'
    BY <1>1, <1>2, <2>1, <2>2, <2>4, AheadRead, BacklogSplit DEF LastDeadline
  <2> QED
    BY <2>3, <2>5
<1>5. CASE ReadRequest
  <2>1. Reads("request") /\ "request" \in Frames /\ left' = left
    BY <1>5 DEF ReadRequest, Frames
  <2>2. LastPong'
    <3> SUFFICES ASSUME NEW q \in DOMAIN inbox', inbox'[q] = "pong"
                 PROVE  quiet' + left'["send"] + Ahead(q)' * SendTime <= Backlog
      BY DEF LastPong
    <3>1. q + 1 \in DOMAIN inbox /\ inbox[q + 1] = "pong"
      BY <1>1, <2>1, AheadRead
    <3>2. /\ Ahead(q)' * SendTime \in Nat
          /\ Ahead(q + 1) * SendTime = Ahead(q)' * SendTime + SendTime
      BY <1>1, <2>1, <3>1, AheadRead
    <3>3. quiet + left["send"] + Ahead(q + 1) * SendTime <= Backlog
      BY <1>1, <3>1 DEF LastPong
    <3> QED
      BY <1>1, <2>1, <3>2, <3>3, BacklogSplit
  <2>3. NoPong' => NoPong
    BY <1>1, <2>1, NoPongRead DEF Frames
  <2>4. LastDeadline'
    BY <1>1, <1>2, <2>1, <2>3, AheadRead, BacklogSplit DEF LastDeadline
  <2> QED
    BY <2>2, <2>4
<1> QED
  BY <1>3, <1>4, <1>5

(* A frame that a silent peer still sends is not a pong, and after the     *)
(* deadline it arrives behind a pong only.                                 *)
LEMMA SilentSends ==
  ASSUME ConnTyped, OfferInv, SilentInv, PeerSends, SilentServed'
  PROVE  (LastPong /\ LastDeadline)'
<1> USE ConnNumbers DEF clockVars
<1>1. /\ InboxTyped /\ left["read"] \in Nat
      /\ left["read"] > 0 \/ \E p \in DOMAIN inbox : inbox[p] = "pong"
      /\ UNCHANGED <<left, quiet, once, rd>>
  BY DEF ConnTyped, TimersTyped, Timers, PeerSends, CanArrive, closeVars
<1>2. LastPong /\ LastDeadline
  <2>1. CASE peer = "healthy"
    BY <2>1, FallsSilent DEF SilentInv
  <2>2. CASE peer = "silent"
    BY <1>1, <2>2 DEF SilentInv, SilentServed
  <2> QED
    BY <2>1, <2>2 DEF PeerSends, ConnTyped, ControlTyped
<1>3. PICK f \in Frames \ {"pong"} : inbox' = Append(inbox, f)
  BY <1>1, PeerSendsOwn
<1>4. LastPong'
  BY <1>1, <1>2, <1>3, AheadAppended DEF LastPong
<1>5. LastDeadline'
  <2>1. CASE left["read"] > 0
    BY <1>1, <1>2, <2>1 DEF LastDeadline
  <2>2. CASE \E p \in DOMAIN inbox : inbox[p] = "pong"
    <3>1. ~NoPong'
      BY <1>1, <1>3, <2>2, AheadAppended DEF NoPong
    <3> QED
      BY <1>1, <1>2, <3>1 DEF LastDeadline
  <2> QED
    BY <1>1, <2>1, <2>2
<1> QED
  BY <1>4, <1>5

(* A tick brings a silent peer nearer to its end.                          *)
LEMMA SilentTick ==
  ASSUME ConnTyped, OfferInv, EndInv, SilentInv, Tick, SilentServed
  PROVE  (LastPong /\ LastDeadline)' /\ quiet' <= QuietBound
<1> USE ConnNumbers, BacklogSplit
<1>1. /\ LastPong /\ LastDeadline /\ quiet <= QuietBound
      /\ InboxTyped /\ inbox' = inbox
      /\ left["read"] \in Nat /\ left["send"] \in Nat /\ quiet \in Nat
      /\ left["send"] <= SendTime
  BY DEF SilentInv, ConnTyped, TimersTyped, Timers, Tick
<1>2. /\ left'["read"] = IF left["read"] = 0 THEN 0 ELSE left["read"] - 1
      /\ left'["send"] = IF left["send"] = 0 THEN 0 ELSE left["send"] - 1
  BY TickTimers DEF ConnTyped
<1>3. quiet' = quiet + 1
  BY <1>1 DEF Tick, Count, SilentServed
<1>4. /\ Own(inbox) * SendTime \in Nat
      /\ Own(inbox) * SendTime <= InboxCap * SendTime
      /\ Own(inbox') = Own(inbox)
      /\ \A p \in DOMAIN inbox : /\ Ahead(p) * SendTime \in Nat
                                 /\ Ahead(p)' = Ahead(p)
  BY <1>1, AheadBounded DEF Ahead
<1>5. CASE rd = "read"
  <2>1. inbox = <<>> /\ left["read"] > 0 /\ left["send"] = 0
    <3>1. inbox = <<>> /\ left["read"] # 0
      BY <1>5 DEF Tick, ReaderReady
    <3>2. left["send"] = 0
      BY <1>5 DEF EndInv
    <3> QED
      BY <1>1, <3>1, <3>2
  <2>2. LastPong'
    BY <1>1, <2>1 DEF LastPong
  <2>3. Own(inbox) * SendTime = 0
    <3>1. Own(inbox) = 0
      BY <1>1, <2>1, OwnIsCount
    <3> QED
      BY <3>1
  <2>4. LastDeadline'
    BY <1>1, <1>2, <1>3, <1>4, <2>1, <2>3 DEF LastDeadline
  <2> QED
    BY <1>1, <1>3, <2>1, <2>2, <2>4 DEF LastDeadline
<1>6. CASE rd = "send"
  <2>1. left["send"] > 0
    BY <1>1, <1>6 DEF Tick, ReaderReady
  <2>2. LastPong'
    BY <1>1, <1>2, <1>3, <1>4, <2>1 DEF LastPong
  <2>3. LastDeadline'
    <3>1. NoPong' = NoPong
      BY <1>1 DEF NoPong
    <3> QED
      BY <1>1, <1>2, <1>3, <1>4, <2>1, <3>1 DEF LastDeadline
  <2>4. quiet' <= QuietBound
    <3>1. CASE left["read"] > 0 \/ NoPong
      BY <1>1, <1>3, <1>4, <2>1, <3>1 DEF LastDeadline
    <3>2. CASE ~NoPong
      BY <1>1, <1>3, <1>4, <2>1, <3>2 DEF NoPong, LastPong
    <3> QED
      BY <3>1, <3>2
  <2> QED
    BY <2>2, <2>3, <2>4
<1> QED
  BY <1>5, <1>6 DEF SilentServed

(* The close frame of a silent peer is read in time for the answer.        *)
LEMMA ReplyInTime ==
  ASSUME ConnTyped, OfferInv, SilentInv, ReadClose
  PROVE  LastReply'
<1> USE ConnNumbers, BacklogSplit
<1>1. /\ InboxTyped /\ quiet \in Nat /\ left["read"] \in Nat
      /\ left["send"] \in Nat /\ left'["reply"] = ReplyWait
      /\ UNCHANGED <<peer, once, quiet>> /\ rd = "read"
  BY DEF ConnTyped, TimersTyped, ReadClose, Reads, Start, Timers, peerVars,
         closeVars, clockVars
<1>2. Own(inbox) * SendTime \in Nat /\ Own(inbox) * SendTime >= SendTime
  <2>1. /\ Own(inbox') * SendTime \in Nat
        /\ Own(inbox) * SendTime = Own(inbox') * SendTime + SendTime
    BY <1>1, AheadRead DEF ReadClose, Frames
  <2> QED
    BY <2>1
<1>3. SUFFICES ASSUME SilentServed
               PROVE  quiet + ReplyWait <= QuietBound
  BY <1>1 DEF LastReply, SilentServed
<1>4. LastPong /\ LastDeadline
  BY <1>3 DEF SilentInv
<1>5. CASE left["read"] > 0
  BY <1>1, <1>4, <1>5 DEF LastDeadline
<1>6. CASE left["read"] = 0 /\ NoPong
  BY <1>1, <1>2, <1>4, <1>6 DEF LastDeadline
<1>7. CASE ~NoPong
  <2>1. PICK p \in DOMAIN inbox : inbox[p] = "pong"
    BY <1>7 DEF NoPong
  <2>2. quiet + left["send"] + Ahead(p) * SendTime <= Backlog
    BY <1>4, <2>1 DEF LastPong
  <2>3. Ahead(p) * SendTime \in Nat
    BY <1>1, <2>1, AheadBounded
  <2> QED
    BY <1>1, <2>2, <2>3
<1> QED
  BY <1>1, <1>5, <1>6, <1>7

(* The answer to a silent peer's close is given up at its deadline.        *)
LEMMA LastReplyStep ==
  ASSUME ConnTyped, OfferInv, SilentInv, [Next]_vars
  PROVE  LastReply'
<1> USE DEF peerVars, writerVars, queueVars, closeVars, clockVars
<1>1. /\ left \in [Timers -> Nat] /\ left["reply"] \in Nat
      /\ left["reply"] <= ReplyWait /\ quiet \in Nat /\ LastReply
  BY DEF ConnTyped, TimersTyped, Timers, SilentInv
<1>2. CASE ReadClose
  BY <1>2, ReplyInTime
<1>3. CASE rd' # "reply" \/ once' # "new"
  BY <1>3 DEF LastReply
<1>4. CASE PeerFails
  <2>1. UNCHANGED <<rd, once, quiet, left>>
    BY <1>4 DEF PeerFails
  <2>2. peer = "healthy" => quiet + left["reply"] <= QuietBound
    BY <1>1, ConnNumbers, BacklogSplit DEF SilentInv
  <2> QED
    BY <1>1, <1>4, <2>1, <2>2 DEF PeerFails, LastReply
<1>5. CASE Tick
  <2>1. UNCHANGED <<rd, once, peer>> /\ ~ReaderReady
    BY <1>5 DEF Tick
  <2>2. /\ left'["reply"] = IF left["reply"] = 0 THEN 0 ELSE left["reply"] - 1
        /\ quiet' = quiet \/ quiet' = quiet + 1
    BY <1>5, TickTimers DEF ConnTyped, Tick, Count
  <2>3. rd = "reply" => left["reply"] # 0
    BY <2>1 DEF ReaderReady, ReplyFailing
  <2> QED
    BY <1>1, <2>1, <2>2, <2>3, BacklogSplit DEF LastReply
<1>6. CASE /\ UNCHANGED <<rd, once, peer, quiet>>
           /\ left'["reply"] = left["reply"]
  BY <1>1, <1>6 DEF LastReply
<1>7. CASE Select \/ WriteOk \/ WriteFails
  <2>1. CASE Select \/ WriteFails
    BY <1>1, <1>6, <2>1 DEF Select, WriteFails, Start, Timers
  <2>2. CASE WriteOk
    BY <1>1, <1>6, <2>2 DEF WriteOk, Start, Timers
  <2> QED
    BY <1>7, <2>1, <2>2
<1>8. \/ ReadClose \/ PeerFails \/ Tick \/ Select \/ WriteOk \/ WriteFails
      \/ rd' # "reply" \/ once' # "new"
      \/ UNCHANGED <<rd, once, peer, quiet, left>>
  <2>1. CASE ReadPump \/ PeerSends
    BY <2>1 DEF ReadPump, ReadPong, ReadDanmaku, ReadRequest, Reads,
                ReplyEnds, ReadFails, SendReturns, ServeEnds, PeerSends,
                CanArrive
  <2>2. CASE Cancel \/ CloseSocket
    BY <2>2 DEF Cancel, CloseSocket
  <2> QED
    BY <2>1, <2>2
       DEF Next, vars, WritePump, WriterEnds, Close, Shutdown, Environment,
           Broadcast, PeerPongs
<1> QED
  BY <1>2, <1>3, <1>4, <1>5, <1>6, <1>7, <1>8

(* No silent peer is served longer than its bound.                         *)
LEMMA SilentInvStep ==
  ASSUME ConnTyped, OfferInv, EndInv, SilentInv, [Next]_vars
  PROVE  SilentInv'
<1> USE LastReplyStep
    DEF peerVars, writerVars, queueVars, closeVars, clockVars
<1>1. CASE Tick
  <2>1. CASE SilentServed
    <3>1. (LastPong /\ LastDeadline)' /\ quiet' <= QuietBound
      BY <1>1, <2>1, SilentTick
    <3> QED
      BY <1>1, <2>1, <3>1 DEF SilentInv, SilentServed, Tick
  <2>2. CASE ~SilentServed
    <3>1. peer = "silent" /\ once = "new" => rd = "reply" /\ left["reply"] # 0
      BY <1>1, <2>2 DEF SilentServed, Tick, ReaderReady, ReplyFailing, EndInv,
                        ConnTyped, ControlTyped
    <3>2. /\ left["reply"] \in Nat /\ quiet \in Nat
          /\ QuietBound \in Nat
      BY BacklogSplit DEF ConnTyped, TimersTyped, Timers
    <3>3. quiet' <= QuietBound
      BY <1>1, <3>1, <3>2 DEF Tick, Count, SilentInv, LastReply
    <3>4. peer = "healthy" => quiet' = quiet
      BY <1>1 DEF Tick, Count
    <3> QED
      BY <1>1, <2>2, <3>3, <3>4 DEF SilentInv, SilentServed, Tick
  <2> QED
    BY <2>1, <2>2
<1>2. CASE ReadPong \/ ReadDanmaku \/ ReadRequest
  <2>1. UNCHANGED <<peer, once, quiet>> /\ rd = "read"
    BY <1>2 DEF ReadPong, ReadDanmaku, ReadRequest, Reads
  <2>2. SilentServed' => (LastPong /\ LastDeadline)'
    BY <1>2, <2>1, SilentRead DEF SilentServed
  <2> QED
    BY <2>1, <2>2 DEF SilentInv
<1>3. CASE PeerSends
  <2>1. peer' = "healthy" => peer = "healthy"
    BY <1>3 DEF PeerSends
  <2>2. quiet' = quiet
    BY <1>3 DEF PeerSends
  <2> QED
    BY <1>3, <2>1, <2>2, SilentSends DEF SilentInv
<1>4. CASE PeerFails
  <2>1. UNCHANGED <<quiet, inbox, left, once, rd>> /\ peer' # "healthy"
    BY <1>4 DEF PeerFails
  <2>2. SilentServed' => quiet = 0
    BY <1>4 DEF PeerFails, SilentServed, SilentInv
  <2>3. SilentServed' => (LastPong /\ LastDeadline)'
    <3>1. SilentServed' => LastPong /\ LastDeadline
      BY <2>2, FallsSilent
    <3> QED
      BY <2>1, <3>1 DEF LastPong, LastDeadline, NoPong, Ahead
  <2> QED
    BY <2>1, <2>3 DEF SilentInv
<1>5. CASE SendReturns
  <2>1. /\ UNCHANGED <<quiet, inbox, once, peer>> /\ rd = "send"
        /\ left'["read"] = left["read"] /\ left'["send"] = 0
        /\ left["send"] \in Nat /\ quiet \in Nat
    BY <1>5 DEF SendReturns, Start, ConnTyped, TimersTyped, Timers
  <2>2. /\ Own(inbox) * SendTime \in Nat
        /\ \A p \in DOMAIN inbox : Ahead(p) * SendTime \in Nat
    BY AheadBounded DEF ConnTyped
  <2>3. SilentServed' => LastPong /\ LastDeadline
    BY <2>1 DEF SilentInv, SilentServed
  <2>4. SilentServed' => LastPong'
    BY <2>1, <2>2, <2>3, BacklogSplit DEF LastPong, Ahead
  <2>5. SilentServed' => LastDeadline'
    BY <2>1, <2>2, <2>3, BacklogSplit, ConnNumbers DEF LastDeadline, NoPong
  <2> QED
    BY <2>1, <2>4, <2>5 DEF SilentInv
<1>6. CASE UNCHANGED <<peer, quiet>> /\ ~SilentServed'
  BY <1>6 DEF SilentInv
<1>7. CASE /\ UNCHANGED <<rd, once, peer, inbox, quiet>>
           /\ left'["read"] = left["read"] /\ left'["send"] = left["send"]
  BY <1>7 DEF SilentInv, SilentServed, LastPong, LastDeadline, NoPong, Ahead
<1>8. CASE ReadClose \/ ReplyEnds \/ ReadFails \/ ServeEnds \/ Cancel
             \/ CloseSocket \/ PeerPongs
  BY <1>6, <1>8
     DEF ReadClose, ReplyEnds, ReadFails, ServeEnds, Cancel, CloseSocket,
         PeerPongs, SilentServed
<1>9. CASE Select \/ WriteOk \/ WriteFails
  <2>1. left \in [Timers -> Nat]
    BY DEF ConnTyped, TimersTyped
  <2>2. CASE Select \/ WriteFails
    BY <1>7, <2>1, <2>2 DEF Select, WriteFails, Start, Timers
  <2>3. CASE WriteOk
    BY <1>7, <2>1, <2>3 DEF WriteOk, Start, Timers
  <2> QED
    BY <1>9, <2>2, <2>3
<1>10. CASE WriterEnds \/ Shutdown \/ Broadcast \/ UNCHANGED vars
  BY <1>7, <1>10 DEF WriterEnds, Shutdown, Broadcast, vars
<1> QED
  BY <1>1, <1>2, <1>3, <1>4, <1>5, <1>8, <1>9, <1>10
     DEF Next, ReadPump, WritePump, Close, Environment

-----------------------------------------------------------------------------
(* The healthy peer.                                                       *)

(* While a pong comes in time the deadline has not passed.                 *)
LEMMA DeadlineAhead ==
  ASSUME ConnTyped, OfferInv, PongInTime
  PROVE  left["read"] \in Nat \ {0}
<1>1. /\ left["read"] \in Nat /\ left["send"] \in Nat /\ left["pong"] \in Nat
      /\ left["ping"] \in Nat
  BY DEF ConnTyped, TimersTyped, Timers
<1>2. \A p \in DOMAIN inbox : Ahead(p) * SendTime \in Nat
  BY AheadBounded DEF ConnTyped
<1> QED
  BY <1>1, <1>2, ConnNumbers, BacklogSplit
     DEF PongInTime, PongArrived, PongOwed, PingDue, PingAhead

(* Nobody closes the connection of a healthy peer that is served.          *)
LEMMA ServedGoesOn ==
  ASSUME ConnTyped, OfferInv, peer = "healthy", sd = "no", Served, PongInTime,
         Next
  PROVE  \/ ReadPong \/ ReadDanmaku \/ ReadRequest \/ SendReturns \/ Select
         \/ WriteOk \/ Shutdown \/ Environment \/ Tick \/ UNCHANGED vars
<1>1. ~ReadClose
  <2>1. CASE inbox # <<>> /\ Head(inbox) = "close"
    <3>1. 1 \in DOMAIN inbox /\ inbox[1] = "close"
      BY <2>1 DEF ConnTyped, InboxTyped
    <3> QED
      BY <3>1 DEF Served
  <2> QED
    BY <2>1 DEF ReadClose, Reads
<1>2. ~ReadFails /\ ~ReplyEnds
  BY DeadlineAhead DEF ReadFails, ReplyEnds, Served
<1>3. ~ServeEnds /\ ~WriterEnds /\ ~Cancel /\ ~CloseSocket
  BY DEF ServeEnds, WriterEnds, Cancel, Closers, CloseSocket, Served
<1>4. ~WriteFails
  BY DEF WriteFails, Writable, Served
<1> QED
  BY <1>1, <1>2, <1>3, <1>4 DEF Next, ReadPump, WritePump, Close

(* The peer and Shutdown do not start over.                                *)
LEMMA HealthyBefore ==
  ASSUME [Next]_vars, peer' = "healthy", sd' = "no"
  PROVE  peer = "healthy" /\ sd = "no"
<1> USE DEF peerVars, closeVars
<1>1. CASE PeerSends \/ PeerFails \/ Shutdown
  BY <1>1 DEF PeerSends, PeerFails, Shutdown
<1>2. PeerSends \/ PeerFails \/ Shutdown \/ UNCHANGED <<peer, sd>>
  BY DEF Next, vars, ReadPump, ReadPong, ReadDanmaku, ReadRequest, ReadClose,
         ReplyEnds, ReadFails, SendReturns, ServeEnds, WritePump, Select,
         WriteOk, WriteFails, WriterEnds, Close, Cancel, CloseSocket,
         Environment, Broadcast, PeerPongs, Tick
<1> QED
  BY <1>1, <1>2

(* What the readPump does keeps a pong on its way, or sets a deadline that *)
(* leaves room for the next one.                                           *)
LEMMA HealthyRead ==
  ASSUME ConnTyped, OfferInv, EndInv, KeepAliveMargin, Served, PongInTime,
         ReadPong \/ ReadDanmaku \/ ReadRequest
  PROVE  Served' /\ PongInTime'
<1> USE ConnNumbers, BacklogSplit
    DEF peerVars, writerVars, closeVars, clockVars
<1>1. /\ InboxTyped /\ left \in [Timers -> Nat] /\ left["send"] = 0
      /\ left["ping"] \in 1..PingPeriod
      /\ UNCHANGED <<once, wr, byeSent, owed, ticked>>
      /\ once = "new" /\ rd = "read" /\ rd' \in {"read", "send"}
  BY DEF ConnTyped, TimersTyped, EndInv, ReadPong, ReadDanmaku, ReadRequest,
         Reads, Served
<1>2. PICK kind \in Frames : Reads(kind)
  BY DEF ReadPong, ReadDanmaku, ReadRequest, Frames
<1>3. Served'
  BY <1>1, <1>2, AheadRead DEF Served
<1>4. CASE ReadPong
  <2>1. left'["read"] = PongWait /\ left'["ping"] = left["ping"]
    BY <1>1, <1>4 DEF ReadPong, Start, Timers
  <2>2. PongWait > PingPeriod + PeerDelay + Backlog
    BY DEF KeepAliveMargin, Backlog
  <2>3. PingAhead'
    BY <1>1, <2>1, <2>2 DEF PingAhead
  <2> QED
    BY <1>3, <2>3 DEF PongInTime
<1>5. CASE ReadDanmaku \/ ReadRequest
  <2> DEFINE takes == IF rd' = "send" THEN SendTime ELSE 0
  <2>1. /\ left'["read"] = left["read"] /\ left'["ping"] = left["ping"]
        /\ left'["pong"] = left["pong"] /\ left'["send"] = takes
        /\ takes <= SendTime /\ takes \in Nat
    BY <1>1, <1>5 DEF ReadDanmaku, ReadRequest, Start, Timers
  <2>2. Reads("danmaku") \/ Reads("request")
    BY <1>5 DEF ReadDanmaku, ReadRequest
  <2>3. ASSUME PongArrived
        PROVE  PongArrived'
    <3>1. PICK p \in DOMAIN inbox :
               /\ inbox[p] = "pong"
               /\ left["read"] > left["send"] + Ahead(p) * SendTime
      BY <2>3 DEF PongArrived
    <3>2. PICK q \in DOMAIN inbox' :
               /\ p = q + 1 /\ inbox'[q] = "pong"
               /\ Ahead(q)' * SendTime \in Nat
               /\ Ahead(p) * SendTime = Ahead(q)' * SendTime + SendTime
      BY <1>1, <2>2, <3>1, AheadRead DEF Frames
    <3>3. left'["read"] > left'["send"] + Ahead(q)' * SendTime
      <4>1. left["read"] \in Nat
        BY <1>1 DEF Timers
      <4> QED
        BY <1>1, <2>1, <3>1, <3>2, <4>1
    <3> QED
      BY <3>2, <3>3 DEF PongArrived
  <2>4. PongInTime'
    BY <1>1, <2>1, <2>3
       DEF PongInTime, PongOwed, PingDue, PingAhead
  <2> QED
    BY <1>3, <2>4
<1> QED
  BY <1>4, <1>5

(* A Send that returns leaves more time, and what the writePump does turns *)
(* a tick into a ping and the ping into an answer.                         *)
LEMMA HealthyRuns ==
  ASSUME ConnTyped, OfferInv, KeepAliveMargin, Served, PongInTime,
         SendReturns \/ Select \/ WriteOk
  PROVE  Served' /\ PongInTime'
<1> USE ConnNumbers, BacklogSplit
    DEF peerVars, writerVars, queueVars, closeVars, clockVars
<1>1. /\ left \in [Timers -> Nat] /\ left["send"] \in Nat /\ inbox' = inbox
      /\ left'["read"] = left["read"] /\ left'["ping"] = left["ping"]
      /\ left'["send"] \in Nat /\ left'["send"] <= left["send"]
      /\ left["read"] \in Nat
  <2>1. /\ left \in [Timers -> Nat] /\ left["send"] \in Nat
        /\ left["read"] \in Nat
    BY DEF ConnTyped, TimersTyped, Timers
  <2>2. CASE SendReturns \/ Select
    BY <2>1, <2>2 DEF SendReturns, Select, Start, Timers
  <2>3. CASE WriteOk
    BY <2>1, <2>3 DEF WriteOk, Start, Timers
  <2> QED
    BY <2>1, <2>2, <2>3 DEF SendReturns, Select, WriteOk
<1>2. Served'
  <2>1. CASE SendReturns
    BY <1>1, <2>1 DEF SendReturns, Served
  <2>2. CASE Select
    BY <1>1, <2>2 DEF Select, CancelSeen, Served
  <2>3. CASE WriteOk
    BY <1>1, <2>3 DEF WriteOk, Served
  <2> QED
    BY <2>1, <2>2, <2>3
<1>3. ASSUME PongArrived
      PROVE  PongArrived'
  <2>1. PICK p \in DOMAIN inbox :
             /\ inbox[p] = "pong"
             /\ left["read"] > left["send"] + Ahead(p) * SendTime
    BY <1>3 DEF PongArrived
  <2>2. Ahead(p) * SendTime \in Nat /\ Ahead(p)' = Ahead(p)
    BY <1>1, AheadBounded DEF ConnTyped, Ahead
  <2> QED
    BY <1>1, <2>1, <2>2 DEF PongArrived
<1>4. CASE SendReturns
  <2>1. UNCHANGED <<owed, ticked, wr>> /\ left'["pong"] = left["pong"]
    BY <1>1, <1>4 DEF SendReturns, Start, Timers
  <2> QED
    BY <1>1, <1>2, <1>3, <2>1
       DEF PongInTime, PongOwed, PingDue, PingAhead
<1>5. CASE Select
  <2>1. /\ owed' = owed /\ left'["pong"] = left["pong"]
        /\ ticked \/ wr = "ping" => ticked' \/ wr' = "ping"
    BY <1>1, <1>5 DEF Select, Start, Timers
  <2> QED
    BY <1>1, <1>2, <1>3, <2>1
       DEF PongInTime, PongOwed, PingDue, PingAhead
<1>6. CASE WriteOk
  <2>1. CASE wr = "ping"
    <3>1. owed' /\ left'["pong"] = IF owed THEN left["pong"] ELSE PeerDelay
      BY <1>1, <1>6, <2>1 DEF WriteOk, Timers
    <3> QED
      BY <1>1, <1>2, <1>3, <3>1
         DEF PongInTime, PongOwed, PingDue, PingAhead
  <2>2. CASE wr # "ping"
    <3>1. UNCHANGED <<owed, ticked>> /\ left'["pong"] = left["pong"]
      BY <1>1, <1>6, <2>2 DEF WriteOk, Start, Timers
    <3> QED
      BY <1>1, <1>2, <1>3, <2>2, <3>1
         DEF PongInTime, PongOwed, PingDue, PingAhead
  <2> QED
    BY <2>1, <2>2
<1> QED
  BY <1>4, <1>5, <1>6

(* A pong arrives behind a full inbox at most, and nothing overtakes it.   *)
LEMMA HealthySends ==
  ASSUME ConnTyped, OfferInv, Served, PongInTime, peer' = "healthy",
         PeerSends \/ PeerPongs
  PROVE  Served' /\ PongInTime'
<1> USE ConnNumbers, BacklogSplit
    DEF peerVars, writerVars, queueVars, closeVars, clockVars
<1>1. /\ UNCHANGED <<left, rd, wr, once, byeSent, ticked>>
      /\ left["read"] \in Nat /\ left["send"] \in Nat
      /\ left["send"] <= SendTime /\ left["pong"] \in Nat /\ InboxTyped
  BY DEF PeerSends, PeerPongs, ConnTyped, TimersTyped, Timers
<1>2. PICK f \in Frames \ {"close"} :
           /\ inbox' = Append(inbox, f)
           /\ IF f = "pong" THEN owed /\ ~owed' ELSE owed' = owed
  <2>1. CASE PeerSends
    <3>1. PICK f \in Frames \ {"pong"} :
               /\ inbox' = Append(inbox, f)
               /\ f = "close" => peer' = "silent"
      BY <1>1, <2>1, PeerSendsOwn
    <3> QED
      BY <2>1, <3>1 DEF PeerSends
  <2>2. CASE PeerPongs
    <3>1. CanArrive
      BY DeadlineAhead DEF Served, CanArrive
    <3>2. inbox' = Append(inbox, "pong") /\ owed /\ ~owed'
      BY <2>2, <3>1 DEF PeerPongs
    <3>3. "pong" \in Frames \ {"close"}
      BY DEF Frames
    <3> WITNESS "pong" \in Frames \ {"close"}
    <3> QED
      BY <3>2
  <2> QED
    BY <2>1, <2>2
<1>3. /\ DOMAIN inbox' = DOMAIN inbox \cup {Len(inbox) + 1}
      /\ inbox'[Len(inbox) + 1] = f
      /\ \A p \in DOMAIN inbox : inbox'[p] = inbox[p] /\ Ahead(p)' = Ahead(p)
      /\ f = "pong" =>
           Cardinality(OwnIn(inbox', Len(inbox) + 1)) = Own(inbox)
  BY <1>1, <1>2, AheadAppended
<1>4. Served'
  BY <1>1, <1>2, <1>3 DEF Served
<1>5. PongArrived => PongArrived'
  BY <1>1, <1>3 DEF PongArrived
<1>6. CASE f = "pong"
  <2>1. ASSUME PongOwed
        PROVE  PongArrived'
    <3>1. Own(inbox) * SendTime \in Nat
          /\ Own(inbox) * SendTime <= InboxCap * SendTime
      BY <1>1, AheadBounded
    <3>2. left["read"] > left["send"] + Own(inbox) * SendTime
      BY <1>1, <2>1, <3>1 DEF PongOwed
    <3>3. left'["read"]
            > left'["send"]
                + Cardinality(OwnIn(inbox', Len(inbox) + 1)) * SendTime
      BY <1>1, <1>3, <1>6, <3>2
    <3> QED
      BY <1>3, <1>6, <3>3 DEF PongArrived, Ahead
  <2> QED
    BY <1>1, <1>2, <1>4, <1>5, <1>6, <2>1
       DEF PongInTime, PingDue, PingAhead
<1>7. CASE f # "pong"
  BY <1>1, <1>2, <1>4, <1>5, <1>7
     DEF PongInTime, PongOwed, PingDue, PingAhead
<1> QED
  BY <1>6, <1>7

(* Time passes only while the pong is on its way or the ticker runs, and   *)
(* the ticker fires when PeerDelay and the Backlog are left.               *)
LEMMA HealthyTick ==
  ASSUME ConnTyped, OfferInv, EndInv, peer = "healthy", Served, PongInTime,
         Tick
  PROVE  Served' /\ PongInTime'
<1> USE ConnNumbers, BacklogSplit
<1>1. /\ left["read"] \in Nat /\ left["send"] \in Nat /\ left["pong"] \in Nat
      /\ left["ping"] \in Nat \ {0} /\ left["pong"] <= PeerDelay
      /\ owed \in BOOLEAN
  BY DEF ConnTyped, ControlTyped, TimersTyped, Timers
<1>2. /\ left'["read"] = IF left["read"] = 0 THEN 0 ELSE left["read"] - 1
      /\ left'["send"] = IF left["send"] = 0 THEN 0 ELSE left["send"] - 1
      /\ left'["pong"] = IF left["pong"] = 0 THEN 0 ELSE left["pong"] - 1
      /\ left'["ping"] = IF left["ping"] = 1 THEN PingPeriod
                                             ELSE left["ping"] - 1
  BY TickTimers DEF ConnTyped
<1>3. UNCHANGED <<rd, wr, once, byeSent, inbox, owed>>
  BY DEF Tick, peerVars, writerVars, closeVars
<1>4. Served'
  BY <1>3 DEF Served
<1>5. ~ticked /\ wr # "ping"
  BY DEF Tick, WriterReady, Served
<1>6. owed => left["pong"] > 0
  BY <1>1 DEF Tick, PeerReady
<1>7. CASE PongArrived
  <2>1. PICK p \in DOMAIN inbox :
             /\ inbox[p] = "pong"
             /\ left["read"] > left["send"] + Ahead(p) * SendTime
    BY <1>7 DEF PongArrived
  <2>2. inbox # <<>>
    BY <2>1
  <2>3. left["send"] > 0
    <3>1. ~ReaderReady /\ rd \in {"read", "send"}
      BY DEF Tick, Served
    <3>2. left["send"] # 0
      BY <2>2, <3>1 DEF ReaderReady
    <3> QED
      BY <1>1, <3>2
  <2>4. Ahead(p) * SendTime \in Nat /\ Ahead(p)' = Ahead(p)
    BY <1>3, AheadBounded DEF ConnTyped, Ahead
  <2>5. left'["read"] > left'["send"] + Ahead(p)' * SendTime
    BY <1>1, <1>2, <2>1, <2>3, <2>4
  <2>6. PongArrived'
    BY <1>3, <2>1, <2>5 DEF PongArrived
  <2> QED
    BY <1>4, <2>6 DEF PongInTime
<1>8. CASE PongOwed
  <2>1. PongOwed'
    BY <1>1, <1>2, <1>3, <1>6, <1>8 DEF PongOwed
  <2> QED
    BY <1>4, <2>1 DEF PongInTime
<1>9. CASE PingDue
  BY <1>5, <1>9 DEF PingDue
<1>10. CASE PingAhead
  <2>1. CASE left["ping"] > 1
    <3>1. PingAhead'
      BY <1>1, <1>2, <1>10, <2>1 DEF PingAhead
    <3> QED
      BY <1>4, <3>1 DEF PongInTime
  <2>2. CASE left["ping"] = 1
    <3>1. left'["read"] > PeerDelay + Backlog /\ ticked'
      <4>1. left'["read"] > PeerDelay + Backlog
        BY <1>1, <1>2, <1>10, <2>2 DEF PingAhead
      <4>2. ticked'
        BY <2>2 DEF Tick
      <4> QED
        BY <4>1, <4>2
    <3>2. CASE owed
      <4>1. PongOwed'
        BY <1>1, <1>2, <1>3, <1>6, <3>1, <3>2 DEF PongOwed
      <4> QED
        BY <1>4, <4>1 DEF PongInTime
    <3>3. CASE ~owed
      <4>1. PingDue'
        BY <1>3, <3>1, <3>3 DEF PingDue
      <4> QED
        BY <1>4, <4>1 DEF PongInTime
    <3> QED
      BY <3>2, <3>3
  <2> QED
    BY <1>1, <2>1, <2>2
<1> QED
  BY <1>7, <1>8, <1>9, <1>10 DEF PongInTime

(* A healthy peer is served until Shutdown.                                *)
LEMMA HealthyInvStep ==
  ASSUME ConnTyped, OfferInv, EndInv, HealthyInv, [Next]_vars
  PROVE  HealthyInv'
<1> SUFFICES ASSUME KeepAliveMargin, peer' = "healthy", sd' = "no"
             PROVE  Served' /\ PongInTime'
  BY DEF HealthyInv, KeepAliveMargin
<1>1. peer = "healthy" /\ sd = "no"
  BY HealthyBefore
<1>2. Served /\ PongInTime
  BY <1>1 DEF HealthyInv
<1>3. CASE ReadPong \/ ReadDanmaku \/ ReadRequest
  BY <1>2, <1>3, HealthyRead
<1>4. CASE SendReturns \/ Select \/ WriteOk
  BY <1>2, <1>4, HealthyRuns
<1>5. CASE PeerSends \/ PeerPongs
  BY <1>2, <1>5, HealthySends
<1>6. CASE Tick
  BY <1>1, <1>2, <1>6, HealthyTick
<1>7. CASE UNCHANGED <<rd, wr, once, byeSent, inbox, left, owed, ticked>>
  BY <1>2, <1>7
     DEF Served, PongInTime, PongArrived, PongOwed, PingDue, PingAhead, Ahead
<1>8. ~Shutdown /\ ~PeerFails
  BY <1>1 DEF Shutdown, PeerFails
<1>9. CASE Broadcast \/ UNCHANGED vars
  BY <1>7, <1>9 DEF Broadcast, vars, peerVars, writerVars, closeVars, clockVars
<1> QED
  BY <1>1, <1>2, <1>3, <1>4, <1>5, <1>6, <1>8, <1>9, ServedGoesOn
     DEF Environment

-----------------------------------------------------------------------------
(* The theorems.                                                           *)

(* Every step of the connection keeps the invariant.                       *)
LEMMA ConnNextPreserves ==
  ASSUME ConnIndInv, [Next]_vars
  PROVE  ConnIndInv'
BY ConnTypedStep, OfferInvStep, HandInvStep, EndInvStep, SilentInvStep,
   HealthyInvStep
   DEF ConnIndInv

(* The inductive invariant of a connection: what the inbox and the         *)
(* deadlines of readPump, writePump, Client.Close and the peer leave.      *)
THEOREM ConnIndInvHolds == Spec => []ConnIndInv
BY ConnInitHolds, ConnNextPreserves, PTL DEF Spec

(* The types that a run checks are among it.                               *)
LEMMA ConnTypesImplied ==
  ASSUME ConnIndInv
  PROVE  TypeOK
<1> USE ConnNumbers DEF ConnIndInv, ConnTyped
<1>1. \A k \in Timers : left[k] \in 0..(PongWait + PingPeriod + WriteWait
                                          + SendTime + ReplyWait + PeerDelay)
  BY DEF TimersTyped, Timers
<1>2. Own(inbox) \in Nat
  BY OwnIsCount
<1>3. offered <= MaxBroadcasts + MaxFrames /\ frames <= MaxFrames
  BY <1>2 DEF OfferInv, Unanswered, QueueTyped, InboxTyped
<1>4. {owed, ticked, byeSent} \subseteq BOOLEAN
  BY DEF ControlTyped
<1> QED
  BY <1>1, <1>3, <1>4 DEF TypeOK, ControlTyped, QueueTyped

(* Types, and a peer that has stopped answering is given up: the pong      *)
(* deadline of readPump ends its connection within PongWait and the Sends  *)
(* of what it had sent, whatever it still sends.                           *)
THEOREM SilentPeerIsDropped == Spec => []ConnInv
<1>1. ConnIndInv => ConnInv
  BY ConnTypesImplied DEF ConnIndInv, SilentInv, ConnInv, SilentPeerDropped
<1> QED
  BY <1>1, ConnIndInvHolds, PTL

(* A cancelled connection takes no longer than one Send to end: this is    *)
(* what Handler.Shutdown waits for.                                        *)
THEOREM CancelledConnEndsPromptly == Spec => []EndsPromptly
<1>1. ConnIndInv => EndsPromptly
  BY ConnNumbers
     DEF ConnIndInv, EndInv, EndsPromptly, ConnTyped, TimersTyped, Timers
<1> QED
  BY <1>1, ConnIndInvHolds, PTL

(* A peer that answers its pings keeps its connection until Shutdown, if   *)
(* the deadlines leave room for a ping, the answer and the Sends of a full *)
(* inbox: the pong handler then always sets a new deadline in time.        *)
THEOREM HealthyPeerIsKept == Spec => []HealthyPeerKept
<1>1. ConnIndInv => HealthyPeerKept
  BY DEF ConnIndInv, HealthyInv, Served, HealthyPeerKept, ConnTyped,
         ControlTyped
<1> QED
  BY <1>1, ConnIndInvHolds, PTL

-----------------------------------------------------------------------------
(* The refinement.                                                         *)

Accepted == wire \o hand \o queue
Open == once # "closed" /\ ~byeSent

(* A message that the queue takes comes last.                              *)
LEMMA AcceptLast ==
  ASSUME QueueTyped, UNCHANGED <<wire, hand>>, NEW m \in Numbers,
         queue' = Append(queue, m)
  PROVE  Accepted' = Append(Accepted, m)
BY DEF QueueTyped, Accepted

(* Behind what is written there are the message in hand and the queue.     *)
LEMMA AcceptedLength ==
  ASSUME QueueTyped
  PROVE  /\ Len(Accepted) = Len(wire) + Len(hand) + Len(queue)
         /\ Len(wire) \in Nat /\ Len(hand) \in Nat /\ Len(queue) \in Nat
BY DEF QueueTyped, Accepted

(* What the hub or the readPump offers is accepted or dropped.             *)
LEMMA OfferRefines ==
  ASSUME ConnIndInv, ReadRequest \/ SendReturns \/ Broadcast
  PROVE  \/ \E m \in Numbers : Out!Accept(m)
         \/ UNCHANGED <<Accepted, Len(wire), Open>>
<1> USE DEF writerVars, queueVars, closeVars
<1>1. /\ QueueTyped /\ UNCHANGED <<wire, hand, once, byeSent>>
      /\ Offer \/ UNCHANGED queue
  BY DEF ReadRequest, SendReturns, Broadcast, ConnIndInv, ConnTyped
<1>2. CASE UNCHANGED queue
  BY <1>1, <1>2 DEF Accepted, Open
<1>3. CASE Offer /\ queue' # queue
  <2>1. /\ offered' \in Numbers /\ Len(queue) < SendCap
        /\ queue' = Append(queue, offered')
    BY <1>1, <1>3, OfferBounded, OfferTyped DEF ConnIndInv
  <2>2. Accepted' = Append(Accepted, offered')
    BY <1>1, <2>1, AcceptLast
  <2>3. Len(Accepted) - Len(wire) <= SendCap
    BY <1>1, <2>1, AcceptedLength, ConnNumbers DEF QueueTyped
  <2>4. Out!Accept(offered')
    BY <1>1, <2>2, <2>3 DEF Out!Accept, Accepted
  <2> QED
    BY <2>1, <2>4
<1> QED
  BY <1>1, <1>2, <1>3

(* What the writePump takes is in hand, and what it writes is the next.    *)
LEMMA WriterRefines ==
  ASSUME ConnIndInv, Select \/ WriteOk
  PROVE  Out!Write \/ Out!End \/ UNCHANGED <<Accepted, Len(wire), Open>>
<1> USE DEF writerVars, queueVars, closeVars
<1>1. /\ QueueTyped /\ HandInv
      /\ Len(Accepted) = Len(wire) + Len(hand) + Len(queue)
      /\ Len(wire) \in Nat /\ Len(hand) \in Nat /\ Len(queue) \in Nat
  BY AcceptedLength DEF ConnIndInv, ConnTyped
<1>2. CASE Select
  <2>1. UNCHANGED <<wire, once, byeSent>>
    BY <1>2 DEF Select
  <2>2. CASE UNCHANGED <<hand, queue>>
    BY <2>1, <2>2 DEF Accepted, Open
  <2>3. CASE /\ queue # <<>>
             /\ hand' = <<Head(queue)>> /\ queue' = Tail(queue)
    <3>1. hand = <<>> /\ queue = <<Head(queue)>> \o Tail(queue)
      BY <1>1, <1>2, <2>3 DEF Select, HandInv, QueueTyped
    <3>2. Accepted' = Accepted
      BY <1>1, <2>1, <2>3, <3>1 DEF Accepted, QueueTyped
    <3> QED
      BY <2>1, <3>2 DEF Open
  <2> QED
    BY <1>2, <2>2, <2>3 DEF Select
<1>3. CASE WriteOk
  <2>1. queue' = queue /\ once' = once /\ Open
    BY <1>3 DEF WriteOk, Writable, Open
  <2>2. CASE wr = "message"
    <3>1. wire' = wire \o hand /\ hand' = <<>> /\ byeSent' = byeSent
      BY <1>3, <2>2 DEF WriteOk
    <3>2. Accepted' = Accepted
      BY <1>1, <2>1, <3>1 DEF Accepted, QueueTyped
    <3>3. Len(hand) = 1 /\ Len(wire') = Len(wire) + 1
      <4>1. Len(hand) = 1
        BY <1>1, <2>2 DEF HandInv
      <4>2. Len(wire') = Len(wire) + Len(hand)
        BY <1>1, <3>1 DEF QueueTyped
      <4> QED
        BY <4>1, <4>2
    <3>4. Out!Write
      BY <1>1, <2>1, <3>1, <3>2, <3>3 DEF Out!Write, Accepted, Open
    <3> QED
      BY <3>4
  <2>3. CASE wr = "ping"
    BY <1>3, <2>1, <2>3 DEF WriteOk, Accepted, Open
  <2>4. CASE wr = "bye"
    <3>1. UNCHANGED <<wire, hand>> /\ byeSent'
      BY <1>3, <2>4 DEF WriteOk
    <3>2. Out!End
      BY <2>1, <3>1 DEF Out!End, Accepted, Open
    <3> QED
      BY <3>2
  <2> QED
    BY <1>3, <2>2, <2>3, <2>4 DEF WriteOk
<1> QED
  BY <1>2, <1>3

(* The connection ends once, for whoever closes it.                        *)
LEMMA EndRefines ==
  ASSUME ConnIndInv, (ReplyEnds /\ byeSent') \/ CloseSocket
  PROVE  Out!End \/ UNCHANGED <<Accepted, Len(wire), Open>>
<1> USE DEF writerVars, queueVars, closeVars
<1>1. /\ UNCHANGED <<wire, hand, queue>> /\ ~Open'
  BY DEF ReplyEnds, CloseSocket, Open
<1> QED
  BY <1>1 DEF Out!End, Accepted, Open

(* Each step is one of the queue's promise, or leaves what it is about.    *)
LEMMA StepRefines ==
  ASSUME ConnIndInv, [Next]_vars
  PROVE  [Out!OutboxNext]_Out!outboxVars
<1> USE DEF writerVars, queueVars, closeVars, Accepted, Open
<1>1. CASE ReadRequest \/ SendReturns \/ Broadcast
  BY <1>1, OfferRefines DEF Out!OutboxNext, Out!outboxVars, Numbers
<1>2. CASE Select \/ WriteOk
  BY <1>2, WriterRefines DEF Out!OutboxNext, Out!outboxVars
<1>3. CASE (ReplyEnds /\ byeSent') \/ CloseSocket
  BY <1>3, EndRefines DEF Out!OutboxNext, Out!outboxVars
<1>4. CASE UNCHANGED <<wire, hand, queue, once, byeSent>>
  BY <1>4 DEF Out!outboxVars
<1>5. CASE Cancel
  BY <1>5 DEF Cancel, Out!outboxVars
<1>6. \/ ReadRequest \/ SendReturns \/ Broadcast \/ Select \/ WriteOk
      \/ (ReplyEnds /\ byeSent') \/ CloseSocket \/ Cancel
      \/ UNCHANGED <<wire, hand, queue, once, byeSent>>
  BY DEF Next, vars, ReadPump, ReadPong, ReadDanmaku, ReadClose, ReplyEnds,
         ReadFails, ServeEnds, WritePump, WriteFails, WriterEnds, Close,
         Shutdown, Environment, PeerSends, PeerPongs, PeerFails, Tick
<1> QED
  BY <1>1, <1>2, <1>3, <1>4, <1>5, <1>6

(* The connection keeps the promise of its Outbox: the peer is written     *)
(* what Client.send accepted, in that order, each message once, and        *)
(* nothing after the end.                                                  *)
THEOREM ConnImplementsOutbox == Spec => Out!OutboxSafety
<1>1. Init => Out!OutboxInit
  BY DEF Init, Out!OutboxInit
<1>2. ConnIndInv /\ [Next]_vars => [Out!OutboxNext]_Out!outboxVars
  BY StepRefines
<1> QED
  BY <1>1, <1>2, ConnIndInvHolds, PTL DEF Spec, Out!OutboxSafety
=============================================================================
