---------------------------- MODULE LimiterProofs ----------------------------
(***************************************************************************)
(* Proofs about Limiter, for any calls, users, addresses, limits, windows  *)
(* and number of retries: the counters count what their window admitted,   *)
(* the burst across a border of two windows is bounded, RetryAfter is long *)
(* enough, and no call is rejected by a window that admitted nothing.      *)
(***************************************************************************)
EXTENDS Limiter, FiniteSetTheorems, TLAPS

(* Where the current window of a key begins; without a window, now.        *)
Border(k) == IF count[k] > 0 THEN expireAt[k] - Window[k[1]] ELSE now

(* The admissions of the current window, and those of the time before it   *)
(* that an interval as long as a window can reach.                         *)
Since(k) == {e \in Admissions(k) : e.at >= Border(k)}

Recent(k) ==
  {e \in Admissions(k) : e.at < Border(k) /\ e.at >= Border(k) - Window[k[1]]}

(* The invariant.  A call that may still run the script has attempts left, *)
(* and no two executions write the same entry of the log.                  *)
AttemptsInv ==
  /\ \A c \in Calls : pc[c] = "ready" => attempts[c] < MaxAttempts
  /\ IsFiniteSet(log)
  /\ \A e \in log :
       /\ e.call \in Calls /\ e.at \in 0..now
       /\ e.attempt \in Nat /\ e.attempt < attempts[e.call]

(* A key counts the admissions since the border, within its limit, and the *)
(* first of them is at the border.                                         *)
WindowOf(k) ==
  /\ count[k] = Cardinality(Since(k))
  /\ count[k] > 0 =>
       /\ Usable /\ count[k] <= Limit[k[1]]
       /\ \E e \in Admissions(k) : e.at = Border(k)

WindowInv == \A k \in Keys : WindowOf(k)

(* The window before has passed its first admission at least.              *)
RecentOf(k) == Usable => Cardinality(Recent(k)) <= Limit[k[1]] - 1

RecentInv == \A k \in Keys : RecentOf(k)

(* What a call has been told.                                              *)
Answers ==
  [allowed : BOOLEAN, scope : Scopes \cup {"none"}, retryAfter : Int, at : Nat]

(* The window that rejected a call ends when the call was told; a later    *)
(* one begins later than that.                                             *)
ToldUntil(c) == answer[c].at + answer[c].retryAfter

AnswerOf(c) ==
  answer[c].scope # "none" =>
    LET k == Key(c, answer[c].scope) IN
    /\ answer[c].at \in 0..now /\ answer[c].retryAfter \in Nat
    /\ \/ count[k] > 0 /\ expireAt[k] = ToldUntil(c)
       \/ now > ToldUntil(c) /\ Border(k) > ToldUntil(c)

AnswerInv ==
  answer \in [Calls -> Answers] /\ \A c \in Calls : AnswerOf(c)

LimiterIndInv ==
  TypeOK /\ AttemptsInv /\ WindowInv /\ RecentInv /\ AnswerInv

-----------------------------------------------------------------------------
(* The parts of a key.                                                     *)
LEMMA KeyParts ==
  /\ \A c \in Calls, s \in Scopes : Key(c, s) \in Keys /\ Key(c, s)[1] = s
  /\ \A k \in Keys : k[1] \in Scopes
  /\ \A k \in Keys : \A c \in Calls :
       k \in {Key(c, s) : s \in Scopes} <=> Key(c, k[1]) = k
<1>1. \A c, s : Key(c, s)[1] = s
  BY DEF Key
<1>2. \A k \in Keys : \E c \in Calls, s \in Scopes : k = Key(c, s)
  BY DEF Keys
<1>3. \A c \in Calls, s \in Scopes : Key(c, s) \in Keys
  BY DEF Keys
<1>. QED  BY <1>1, <1>2, <1>3

(* Usable limits are positive.                                             *)
LEMMA UsableLimits ==
  ASSUME TypeOK, NEW s \in Scopes
  PROVE  /\ Limit[s] \in Int /\ Window[s] \in Int
         /\ Usable => Limit[s] > 0 /\ Window[s] > 0
<1>1. config.limit \in [Scopes -> Int] /\ config.window \in [Scopes -> Int]
  BY DEF TypeOK
<1>. QED  BY <1>1 DEF Limit, Window, Usable

(* The rule that rejects has a key, which has counted its limit.           *)
LEMMA RejectingRule ==
  ASSUME TypeOK, Usable, NEW c \in Calls, Exceeded(c) # {}
  PROVE  /\ Rule[Min(Exceeded(c))] \in Scopes
         /\ count[Key(c, Rule[Min(Exceeded(c))])] > 0
<1> DEFINE X == Exceeded(c)
<1>1. X \subseteq 1..3 /\ \A i \in X : /\ Rule[i] \in Scopes
                                     /\ count[Key(c, Rule[i])] >= Limit[Rule[i]]
  BY DEF Exceeded, Rule, Scopes
<1>2. \E x \in X : \A y \in X : x =< y
  <2>. HIDE DEF X
  <2>1. 1 \in X \/ (1 \notin X /\ 2 \in X) \/ X = {3}
    BY <1>1 DEF X
  <2>. QED  BY <2>1, <1>1
<1>3. Min(X) \in X
  BY <1>2 DEF Min
<1>4. /\ Rule[Min(X)] \in Scopes
      /\ count[Key(c, Rule[Min(X)])] >= Limit[Rule[Min(X)]]
  BY <1>1, <1>3
<1>5. count[Key(c, Rule[Min(X)])] \in Nat
  BY <1>4, KeyParts DEF TypeOK
<1>. QED  BY <1>4, <1>5, UsableLimits

(* A rejection changes the answer of its call and nothing of the counters. *)
LEMMA RejectEffect ==
  ASSUME TypeOK, NEW c \in Calls, Reject(c)
  PROVE  /\ UNCHANGED <<config, now, count, expireAt, log>>
         /\ \E s \in Scopes :
              /\ count[Key(c, s)] > 0
              /\ answer' = [answer EXCEPT ![c] =
                   [allowed |-> FALSE, scope |-> s,
                    retryAfter |-> expireAt[Key(c, s)] - now, at |-> now]]
<1> DEFINE s == Rule[Min(Exceeded(c))]  k == Key(c, s)
<1>1. s \in Scopes /\ count[k] > 0
  BY RejectingRule DEF Reject, Executes
<1>2. k \in Keys
  BY <1>1, KeyParts
<1>3. expireAt[k] # NoTTL
  BY <1>1, <1>2 DEF TypeOK, NoTTL
<1>. HIDE DEF s
<1>4. /\ expireAt' = [expireAt EXCEPT ![k] = expireAt[k]]
      /\ answer' = [answer EXCEPT ![c] =
           [allowed |-> FALSE, scope |-> s,
            retryAfter |-> expireAt[k] - now, at |-> now]]
      /\ UNCHANGED <<config, now, count, log>>
  BY <1>3 DEF Reject, s
<1>5. expireAt' = expireAt
  BY <1>4 DEF TypeOK
<1>. QED  BY <1>1, <1>4, <1>5

-----------------------------------------------------------------------------
(* Every step preserves the types ...                                      *)
LEMMA LimiterTypeStays ==
  ASSUME TypeOK, AttemptsInv, [Next]_vars
  PROVE  TypeOK'
<1>1. ASSUME NEW c \in Calls, Executes(c)
      PROVE  /\ pc' \in [Calls -> {"ready", "returned", "failed"}]
             /\ attempts' \in [Calls -> 0..MaxAttempts]
  <2>1. attempts[c] + 1 \in 0..MaxAttempts
    BY <1>1, LimiterAssumption DEF Executes, TypeOK, AttemptsInv
  <2>. QED  BY <2>1, <1>1 DEF Executes, TypeOK
<1>2. ASSUME NEW c \in Calls, Refuse(c)  PROVE TypeOK'
  BY <1>2 DEF Refuse, TypeOK, Window
<1>3. ASSUME NEW c \in Calls, Reject(c)  PROVE TypeOK'
  <2>1. Executes(c)
    BY <1>3 DEF Reject
  <2>. QED  BY <2>1, <1>1, <1>3, RejectEffect DEF TypeOK, Window
<1>4. ASSUME NEW c \in Calls, Admit(c)  PROVE TypeOK'
  <2>1. UNCHANGED <<config, now>> /\ Usable /\ Executes(c)
    BY <1>4 DEF Admit, Executes
  <2>2. ASSUME NEW k \in Keys
        PROVE  /\ Window[k[1]] \in Nat \ {0} /\ now \in Nat /\ count[k] \in Nat
               /\ count'[k] \in Nat /\ expireAt'[k] \in Int
               /\ \/ count'[k] = 0 /\ expireAt'[k] = NoTTL
                  \/ /\ count'[k] > 0
                     /\ expireAt'[k] \in now..(now + Window[k[1]])
    <3>1. Window[k[1]] \in Nat \ {0} /\ now \in Nat
      BY <2>1, KeyParts, UsableLimits DEF TypeOK
    <3>2. count[k] \in Nat /\ expireAt[k] \in Int
          /\ \/ count[k] = 0 /\ expireAt[k] = NoTTL
             \/ count[k] > 0 /\ expireAt[k] \in now..(now + Window[k[1]])
      BY DEF TypeOK
    <3>3. \/ /\ count'[k] = count[k] + 1
             /\ expireAt'[k] =
                   IF count[k] = 0 THEN now + Window[k[1]] ELSE expireAt[k]
          \/ count'[k] = count[k] /\ expireAt'[k] = expireAt[k]
      BY <1>4 DEF Admit
    <3>. QED  BY <3>1, <3>2, <3>3
  <2>3. count' \in [Keys -> Nat] /\ expireAt' \in [Keys -> Int]
    BY <2>2, <1>4 DEF Admit
  <2>. QED  BY <2>1, <2>2, <2>3, <1>1 DEF TypeOK, Window
<1>5. CASE Tick
  <2>1. /\ UNCHANGED <<config, pc, attempts>> /\ now' \in 0..MaxTime
        /\ now' = now + 1 /\ now \in Nat
    BY <1>5, LimiterAssumption DEF Tick, TypeOK
  <2>2. ASSUME NEW k \in Keys
        PROVE  /\ count'[k] \in Nat /\ expireAt'[k] \in Int
               /\ \/ count'[k] = 0 /\ expireAt'[k] = NoTTL
                  \/ /\ count'[k] > 0
                     /\ expireAt'[k] \in now'..(now' + Window[k[1]])
    <3>1. Window[k[1]] \in Int
      BY KeyParts, UsableLimits
    <3>2. count[k] \in Nat /\ expireAt[k] \in Int
          /\ \/ count[k] = 0 /\ expireAt[k] = NoTTL
             \/ count[k] > 0 /\ expireAt[k] \in now..(now + Window[k[1]])
      BY DEF TypeOK
    <3>3. \/ count'[k] = 0 /\ expireAt'[k] = NoTTL
          \/ /\ expireAt[k] # now
             /\ count'[k] = count[k] /\ expireAt'[k] = expireAt[k]
      BY <1>5 DEF Tick
    <3>. QED  BY <2>1, <3>1, <3>2, <3>3 DEF NoTTL
  <2>3. count' \in [Keys -> Nat] /\ expireAt' \in [Keys -> Int]
    BY <2>2, <1>5 DEF Tick
  <2>. QED  BY <2>1, <2>2, <2>3 DEF TypeOK, Window
<1>6. CASE UNCHANGED vars
  BY <1>6 DEF vars, TypeOK, Window
<1>. QED  BY <1>2, <1>3, <1>4, <1>5, <1>6 DEF Next, Done

(* ... the attempts and the log ...                                        *)
LEMMA AttemptsStay ==
  ASSUME TypeOK, AttemptsInv, [Next]_vars
  PROVE  AttemptsInv'
<1>1. ASSUME NEW c \in Calls, Executes(c)
      PROVE  /\ \A d \in Calls : pc'[d] = "ready" => attempts'[d] < MaxAttempts
             /\ \A d \in Calls : attempts[d] <= attempts'[d]
             /\ attempts[c] < attempts'[c] /\ attempts[c] \in Nat
  BY <1>1 DEF Executes, AttemptsInv, TypeOK
<1>2. ASSUME NEW e \in log
      PROVE  e.call \in Calls /\ e.at \in Nat /\ e.at <= now /\ e.attempt \in Nat
             /\ attempts[e.call] \in Nat /\ e.attempt < attempts[e.call]
  BY DEF AttemptsInv, TypeOK
<1>3. ASSUME NEW c \in Calls, Refuse(c)  PROVE AttemptsInv'
  BY <1>3 DEF Refuse, AttemptsInv, TypeOK
<1>4. ASSUME NEW c \in Calls, Reject(c)  PROVE AttemptsInv'
  <2>1. Executes(c) /\ UNCHANGED <<now, log>>
    BY <1>4, RejectEffect DEF Reject
  <2>2. attempts' \in [Calls -> Int]
    BY <2>1 DEF Executes, TypeOK
  <2>. QED  BY <2>1, <2>2, <1>1, <1>2 DEF AttemptsInv
<1>5. ASSUME NEW c \in Calls, Admit(c)  PROVE AttemptsInv'
  <2> DEFINE new == [call |-> c, attempt |-> attempts[c], at |-> now]
  <2>1. Executes(c) /\ now' = now /\ log' = log \cup {new}
    BY <1>5 DEF Admit
  <2>2. attempts' \in [Calls -> Int]
    BY <2>1 DEF Executes, TypeOK
  <2>3. new.call = c /\ new.attempt = attempts[c] /\ new.at = now /\ now \in Nat
    BY DEF TypeOK
  <2>. HIDE DEF new
  <2>4. IsFiniteSet(log')
    BY <2>1, FS_AddElement DEF AttemptsInv
  <2>5. ASSUME NEW e \in log'
        PROVE  /\ e.call \in Calls /\ e.at \in 0..now
               /\ e.attempt \in Nat /\ e.attempt < attempts'[e.call]
    BY <2>1, <2>2, <2>3, <1>1, <1>2
  <2>. QED  BY <2>1, <2>4, <2>5, <1>1 DEF AttemptsInv
<1>6. CASE Tick
  BY <1>6, <1>2 DEF Tick, AttemptsInv, TypeOK
<1>7. CASE UNCHANGED vars
  BY <1>7 DEF vars, AttemptsInv
<1>. QED  BY <1>3, <1>4, <1>5, <1>6, <1>7 DEF Next, Done

(* What is known of a key.                                                 *)
LEMMA KeyTyped ==
  ASSUME TypeOK, WindowInv, NEW k \in Keys
  PROVE  /\ k[1] \in Scopes /\ now \in Nat /\ count[k] \in Nat
         /\ expireAt[k] \in Int /\ Window[k[1]] \in Int /\ Limit[k[1]] \in Int
         /\ count[k] > 0 => /\ expireAt[k] >= now /\ Border(k) <= now
                            /\ Window[k[1]] > 0
         /\ count[k] = 0 => Border(k) = now
         /\ Border(k) \in Int
<1>1. k[1] \in Scopes /\ WindowOf(k)
  BY KeyParts DEF WindowInv
<1>2. /\ now \in Nat /\ count[k] \in Nat /\ expireAt[k] \in Int
      /\ count[k] > 0 => expireAt[k] \in now..(now + Window[k[1]])
  BY DEF TypeOK
<1>3. Window[k[1]] \in Int /\ Limit[k[1]] \in Int
      /\ (count[k] > 0 => Window[k[1]] > 0)
  BY <1>1, UsableLimits DEF WindowOf
<1>. QED  BY <1>1, <1>2, <1>3 DEF Border

(* What the actions that count do to one key.                              *)
LEMMA AdmitKey ==
  ASSUME TypeOK, AttemptsInv, NEW c \in Calls, Admit(c), NEW k \in Keys
  PROVE  LET new == [call |-> c, attempt |-> attempts[c], at |-> now] IN
         /\ UNCHANGED <<config, now>> /\ Usable /\ new \notin log
         /\ new.at = now
         /\ \/ /\ Admissions(k)' = Admissions(k) \cup {new}
               /\ count'[k] = count[k] + 1 /\ count[k] < Limit[k[1]]
               /\ expireAt'[k] =
                    IF count[k] = 0 THEN now + Window[k[1]] ELSE expireAt[k]
            \/ /\ Admissions(k)' = Admissions(k)
               /\ count'[k] = count[k] /\ expireAt'[k] = expireAt[k]
<1> DEFINE new == [call |-> c, attempt |-> attempts[c], at |-> now]
           mine == {Key(c, s) : s \in Scopes}
<1>1. UNCHANGED <<config, now>> /\ Usable /\ log' = log \cup {new}
  BY DEF Admit, Executes
<1>2. new.call = c /\ new.attempt = attempts[c] /\ new.at = now
  OBVIOUS
<1>3. new \notin log
  <2>. HIDE DEF new
  <2>. QED  BY <1>2 DEF AttemptsInv, TypeOK
<1>4. k \in mine <=> Key(c, k[1]) = k
  BY KeyParts
<1>5. /\ count'[k] = IF k \in mine THEN count[k] + 1 ELSE count[k]
      /\ expireAt'[k] = IF k \in mine /\ count[k] = 0 THEN now + Window[k[1]]
                        ELSE expireAt[k]
  BY DEF Admit
<1>6. CASE k \in mine
  <2>1. Admissions(k)' = Admissions(k) \cup {new}
    <3>. HIDE DEF new
    <3>. QED  BY <1>1, <1>2, <1>4, <1>6 DEF Admissions
  <2>2. count[k] < Limit[k[1]]
    <3>1. PICK i \in 1..3 : k[1] = Rule[i]
      BY KeyParts DEF Scopes, Rule
    <3>2. Exceeded(c) = {} /\ DOMAIN Rule = 1..3
      BY DEF Admit, Rule
    <3>3. ~ (count[k] >= Limit[k[1]])
      BY <3>1, <3>2, <1>4, <1>6 DEF Exceeded
    <3>4. count[k] \in Int /\ Limit[k[1]] \in Int
      BY KeyParts, UsableLimits DEF TypeOK
    <3>. QED  BY <3>3, <3>4
  <2>. QED  BY <1>1, <1>2, <1>3, <1>5, <1>6, <2>1, <2>2
<1>7. CASE k \notin mine
  <2>1. Admissions(k)' = Admissions(k)
    <3>. HIDE DEF new
    <3>. QED  BY <1>1, <1>2, <1>4, <1>7 DEF Admissions
  <2>. QED  BY <1>1, <1>2, <1>3, <1>5, <1>7, <2>1
<1>. QED  BY <1>6, <1>7

(* A tick empties the keys whose deadline it passes and leaves the others. *)
LEMMA TickKey ==
  ASSUME TypeOK, Tick, NEW k \in Keys
  PROVE  /\ UNCHANGED <<config, log, answer>> /\ now' = now + 1
         /\ Admissions(k)' = Admissions(k)
         /\ \/ expireAt[k] = now /\ count'[k] = 0
            \/ /\ expireAt[k] # now
               /\ count'[k] = count[k] /\ expireAt'[k] = expireAt[k]
BY DEF Tick, Admissions

-----------------------------------------------------------------------------
(* ... what the keys have counted in their windows and before ...          *)
LEMMA WindowStays ==
  ASSUME TypeOK, AttemptsInv, WindowInv, RecentInv, [Next]_vars, NEW k \in Keys
  PROVE  WindowOf(k)' /\ RecentOf(k)'
<1> DEFINE W == Window[k[1]]  L == Limit[k[1]]  A == Admissions(k)
           B == Border(k)
<1>1. WindowOf(k) /\ RecentOf(k)
  BY DEF WindowInv, RecentInv
<1>2. IsFiniteSet(A) /\ IsFiniteSet(Since(k)) /\ IsFiniteSet(Recent(k))
      /\ Cardinality(Since(k)) \in Nat /\ Cardinality(Recent(k)) \in Nat
  <2>1. A \subseteq log /\ Since(k) \subseteq log /\ Recent(k) \subseteq log
    BY DEF Admissions, Since, Recent
  <2>. QED  BY <2>1, FS_Subset, FS_CardinalityType DEF AttemptsInv
<1>3. \A e \in A : e.at \in Nat /\ e.at <= now
  BY DEF Admissions, AttemptsInv, TypeOK
<1>4. count[k] = 0 => \A e \in A : e.at < now
  <2>1. count[k] = 0 => Since(k) = {}
    BY <1>1, <1>2, FS_EmptySet DEF WindowOf
  <2>. QED  BY <2>1, <1>3, KeyTyped DEF Since
<1>5. ASSUME UNCHANGED <<config, now, count, expireAt, log>>
      PROVE  WindowOf(k)' /\ RecentOf(k)'
  BY <1>1, <1>5 DEF WindowOf, RecentOf, Since, Recent, Admissions, Border,
     Window, Limit, Usable
<1>6. ASSUME NEW c \in Calls, Refuse(c)  PROVE WindowOf(k)' /\ RecentOf(k)'
  BY <1>5, <1>6 DEF Refuse
<1>7. ASSUME NEW c \in Calls, Reject(c)  PROVE WindowOf(k)' /\ RecentOf(k)'
  BY <1>5, <1>7, RejectEffect
<1>8. ASSUME NEW c \in Calls, Admit(c)  PROVE WindowOf(k)' /\ RecentOf(k)'
  <2> DEFINE new == [call |-> c, attempt |-> attempts[c], at |-> now]
  <2>1. /\ UNCHANGED <<config, now>> /\ Usable /\ new \notin log /\ new.at = now
    BY <1>8, AdmitKey
  <2>2. /\ Limit' = Limit /\ Window' = Window /\ Usable'
    BY <2>1 DEF Limit, Window, Usable
  <2>3. CASE /\ Admissions(k)' = A \cup {new}
             /\ count'[k] = count[k] + 1 /\ count[k] < L
             /\ expireAt'[k] = IF count[k] = 0 THEN now + W ELSE expireAt[k]
    <3>. HIDE DEF new
    <3>1. Border(k)' = B /\ B \in Int /\ B <= now
      BY <2>1, <2>2, <2>3, KeyTyped DEF Border
    <3>2. Since(k)' = Since(k) \cup {new} /\ new \notin Since(k)
      BY <2>1, <2>3, <3>1 DEF Since, Admissions
    <3>3. Cardinality(Since(k)') = Cardinality(Since(k)) + 1
      BY <3>2, <1>2, FS_AddElement
    <3>4. Recent(k)' = Recent(k)
      <4>1. Recent(k)' = {e \in A \cup {new} : e.at < B /\ e.at >= B - W}
        BY <2>2, <2>3, <3>1 DEF Recent
      <4>2. ~ (new.at < B)
        BY <2>1, <3>1, KeyTyped
      <4>. QED  BY <4>1, <4>2 DEF Recent
    <3>5. \E e \in Admissions(k)' : e.at = Border(k)'
      <4>1. CASE count[k] = 0
        BY <4>1, <2>1, <2>3, <3>1, KeyTyped
      <4>2. CASE count[k] > 0
        BY <4>2, <1>1, <2>3, <3>1 DEF WindowOf
      <4>. QED  BY <4>1, <4>2, KeyTyped
    <3>6. WindowOf(k)'
      BY <1>1, <2>2, <2>3, <3>3, <3>5, KeyTyped DEF WindowOf
    <3>. QED  BY <1>1, <2>1, <2>2, <3>4, <3>6 DEF RecentOf
  <2>4. CASE /\ Admissions(k)' = A
             /\ count'[k] = count[k] /\ expireAt'[k] = expireAt[k]
    <3>1. Border(k)' = B
      BY <2>1, <2>2, <2>4 DEF Border
    <3>2. Since(k)' = Since(k) /\ Recent(k)' = Recent(k)
      BY <2>2, <2>4, <3>1 DEF Since, Recent
    <3>. QED  BY <1>1, <2>1, <2>2, <2>4, <3>1, <3>2 DEF WindowOf, RecentOf
  <2>. QED  BY <2>3, <2>4, <1>8, AdmitKey
<1>9. CASE Tick
  <2>1. UNCHANGED <<config>> /\ now' = now + 1 /\ Admissions(k)' = A
    BY <1>9, TickKey
  <2>2. Limit' = Limit /\ Window' = Window /\ Usable' = Usable
    BY <2>1 DEF Limit, Window, Usable
  <2>3. ASSUME count'[k] = 0,
               Usable => Cardinality(Recent(k)') <= L - 1
        PROVE  WindowOf(k)' /\ RecentOf(k)'
    <3>1. Border(k)' = now + 1
      BY <2>1, <2>3 DEF Border
    <3>2. Since(k)' = {}
      BY <2>1, <3>1, <1>3, KeyTyped DEF Since
    <3>3. WindowOf(k)'
      BY <2>3, <3>2, FS_EmptySet DEF WindowOf
    <3>. QED  BY <2>2, <2>3, <3>3 DEF RecentOf
  <2>4. CASE expireAt[k] = now /\ count'[k] = 0 /\ count[k] > 0
    <3>1. Border(k)' = now + 1 /\ B = now - W /\ B \in Int
      BY <2>1, <2>4, KeyTyped DEF Border
    <3>2. PICK e \in A : e.at = B
      BY <2>4, <1>1 DEF WindowOf
    <3>3. e \in Since(k) /\ Recent(k)' \subseteq Since(k) \ {e}
      BY <2>1, <2>2, <3>1, <3>2, <1>3, KeyTyped DEF Since, Recent
    <3>4. IsFiniteSet(Since(k) \ {e})
          /\ Cardinality(Since(k) \ {e}) = Cardinality(Since(k)) - 1
      BY <3>3, <1>2, FS_RemoveElement
    <3>5. Cardinality(Recent(k)') <= Cardinality(Since(k)) - 1
          /\ Cardinality(Recent(k)') \in Nat
      BY <3>3, <3>4, FS_Subset, FS_CardinalityType
    <3>6. Cardinality(Since(k)) <= L
      BY <2>4, <1>1 DEF WindowOf
    <3>. QED  BY <3>5, <3>6, <2>3, <2>4, <1>2, KeyTyped
  <2>5. CASE count[k] = 0 /\ count'[k] = 0
    <3>1. Border(k)' = now + 1 /\ B = now
      BY <2>1, <2>5, KeyTyped DEF Border
    <3>2. Recent(k)' \subseteq Recent(k)
      BY <2>1, <2>2, <2>5, <3>1, <1>3, <1>4, KeyTyped DEF Recent
    <3>3. /\ Cardinality(Recent(k)') <= Cardinality(Recent(k))
          /\ Cardinality(Recent(k)') \in Nat
      BY <3>2, <1>2, FS_Subset, FS_CardinalityType
    <3>. QED  BY <3>3, <2>3, <2>5, <1>1, <1>2, KeyTyped DEF RecentOf
  <2>6. CASE /\ count[k] > 0
             /\ count'[k] = count[k] /\ expireAt'[k] = expireAt[k]
    <3>1. Border(k)' = B
      BY <2>1, <2>2, <2>6 DEF Border
    <3>2. Since(k)' = Since(k) /\ Recent(k)' = Recent(k)
      BY <2>1, <2>2, <3>1 DEF Since, Recent
    <3>. QED  BY <1>1, <2>1, <2>2, <2>6, <3>1, <3>2 DEF WindowOf, RecentOf
  <2>. QED  BY <2>4, <2>5, <2>6, <1>9, TickKey, KeyTyped
<1>10. CASE UNCHANGED vars
  BY <1>5, <1>10 DEF vars
<1>. QED  BY <1>6, <1>7, <1>8, <1>9, <1>10 DEF Next, Done

(* The border of a key never moves back, and its window ends in time.      *)
LEMMA BorderMoves ==
  ASSUME TypeOK, AttemptsInv, WindowInv, [Next]_vars, NEW k \in Keys
  PROVE  /\ Border(k) \in Int /\ Border(k)' \in Int /\ Border(k)' >= Border(k)
         /\ now \in Nat /\ now' \in Nat /\ now' >= now
         /\ count[k] > 0 =>
              \/ count'[k] > 0 /\ expireAt'[k] = expireAt[k]
              \/ now' = expireAt[k] + 1 /\ Border(k)' = now'
<1>1. ASSUME UNCHANGED <<config, now, count, expireAt>>
      PROVE  Border(k)' = Border(k)
  BY <1>1 DEF Border, Window
<1>2. ASSUME NEW c \in Calls, Refuse(c)
      PROVE  UNCHANGED <<config, now, count, expireAt>>
  BY <1>2 DEF Refuse
<1>3. ASSUME NEW c \in Calls, Reject(c)
      PROVE  UNCHANGED <<config, now, count, expireAt>>
  BY <1>3, RejectEffect
<1>4. ASSUME NEW c \in Calls, Admit(c)
      PROVE  /\ Border(k)' = Border(k) /\ now' = now
             /\ count[k] > 0 => count'[k] > 0 /\ expireAt'[k] = expireAt[k]
  <2>1. UNCHANGED <<config, now>>
    BY <1>4 DEF Admit
  <2>2. \/ /\ count'[k] = count[k] + 1
           /\ expireAt'[k] =
                   IF count[k] = 0 THEN now + Window[k[1]] ELSE expireAt[k]
        \/ count'[k] = count[k] /\ expireAt'[k] = expireAt[k]
    BY <1>4, AdmitKey
  <2>. QED  BY <2>1, <2>2, KeyTyped DEF Border, Window
<1>5. CASE Tick
  <2>1. UNCHANGED config /\ now' = now + 1
    BY <1>5, TickKey
  <2>2. \/ expireAt[k] = now /\ count'[k] = 0
        \/ count'[k] = count[k] /\ expireAt'[k] = expireAt[k]
    BY <1>5, TickKey
  <2>. QED  BY <2>1, <2>2, KeyTyped DEF Border, Window
<1>6. CASE UNCHANGED vars
  BY <1>1, <1>6, KeyTyped DEF vars
<1>. QED  BY <1>1, <1>2, <1>3, <1>4, <1>5, <1>6, KeyTyped DEF Next, Done

(* ... and what the answers have told.                                     *)
LEMMA AnswersStay ==
  ASSUME TypeOK, AttemptsInv, WindowInv, AnswerInv, [Next]_vars
  PROVE  AnswerInv'
<1>1. ASSUME NEW c \in Calls, answer'[c] = answer[c]  PROVE AnswerOf(c)'
  <2>. SUFFICES ASSUME answer[c].scope # "none"  PROVE AnswerOf(c)'
    BY <1>1 DEF AnswerOf
  <2>1. answer[c].scope \in Scopes /\ answer[c].retryAfter \in Int
    BY DEF AnswerInv, Answers
  <2>2. PICK k \in Keys : k = Key(c, answer[c].scope)
    BY <2>1, KeyParts
  <2>3. /\ answer[c].at \in 0..now /\ answer[c].retryAfter \in Nat
        /\ \/ count[k] > 0 /\ expireAt[k] = ToldUntil(c)
           \/ now > ToldUntil(c) /\ Border(k) > ToldUntil(c)
    BY <2>2 DEF AnswerInv, AnswerOf
  <2>4. PICK t \in Int : t = ToldUntil(c) /\ ToldUntil(c)' = t
    BY <1>1, <2>3 DEF ToldUntil
  <2>5. /\ Border(k) \in Int /\ Border(k)' \in Int /\ Border(k)' >= Border(k)
        /\ now \in Nat /\ now' \in Nat /\ now' >= now
        /\ count[k] > 0 =>
             \/ count'[k] > 0 /\ expireAt'[k] = expireAt[k]
             \/ now' = expireAt[k] + 1 /\ Border(k)' = now'
    BY BorderMoves
  <2>6. \/ count'[k] > 0 /\ expireAt'[k] = t
        \/ now' > t /\ Border(k)' > t
    BY <2>3, <2>4, <2>5
  <2>7. answer[c].at \in 0..now'
    BY <2>3, <2>5
  <2>. QED  BY <1>1, <2>2, <2>3, <2>4, <2>6, <2>7 DEF AnswerOf
<1>2. ASSUME UNCHANGED answer  PROVE AnswerInv'
  BY <1>1, <1>2 DEF AnswerInv
<1>3. ASSUME NEW c \in Calls, Refuse(c)  PROVE AnswerInv'
  BY <1>2, <1>3 DEF Refuse
<1>4. ASSUME NEW c \in Calls, Reject(c)  PROVE AnswerInv'
  <2>1. PICK s \in Scopes :
          /\ count[Key(c, s)] > 0
          /\ answer' = [answer EXCEPT ![c] =
               [allowed |-> FALSE, scope |-> s,
                retryAfter |-> expireAt[Key(c, s)] - now, at |-> now]]
    BY <1>4, RejectEffect
  <2> DEFINE k == Key(c, s)
             a == [allowed |-> FALSE, scope |-> s,
                   retryAfter |-> expireAt[k] - now, at |-> now]
  <2>2. k \in Keys /\ UNCHANGED <<config, now, count, expireAt, log>>
    BY <1>4, KeyParts, RejectEffect
  <2>3. now \in Nat /\ expireAt[k] \in Int /\ expireAt[k] >= now
    BY <2>1, <2>2, KeyTyped
  <2>4. a \in Answers /\ a.scope = s /\ a.at = now
        /\ a.retryAfter = expireAt[k] - now
    BY <2>3 DEF Answers
  <2>5. answer'[c] = a /\ \A d \in Calls \ {c} : answer'[d] = answer[d]
    BY <2>1 DEF AnswerInv
  <2>6. answer' \in [Calls -> Answers]
    BY <2>1, <2>4 DEF AnswerInv
  <2>7. AnswerOf(c)'
    <3>. HIDE DEF a
    <3>1. ToldUntil(c)' = expireAt[k]
      BY <2>3, <2>4, <2>5 DEF ToldUntil
    <3>2. a.at \in 0..now' /\ a.retryAfter \in Nat
      BY <2>2, <2>3, <2>4
    <3>3. count'[k] > 0 /\ expireAt'[k] = expireAt[k]
      BY <2>1, <2>2
    <3>. QED  BY <2>4, <2>5, <3>1, <3>2, <3>3 DEF AnswerOf
  <2>. QED  BY <1>1, <2>5, <2>6, <2>7 DEF AnswerInv
<1>5. ASSUME NEW c \in Calls, Admit(c)  PROVE AnswerInv'
  <2>1. answer' = [answer EXCEPT ![c] = Unrejected(TRUE)]
    BY <1>5 DEF Admit
  <2> DEFINE a == Unrejected(TRUE)
  <2>2. a \in Answers /\ a.scope = "none"
    BY DEF Unrejected, Answers
  <2>3. answer'[c] = a /\ \A d \in Calls \ {c} : answer'[d] = answer[d]
    BY <2>1 DEF AnswerInv
  <2>4. answer' \in [Calls -> Answers]
    BY <2>1, <2>2 DEF AnswerInv
  <2>5. AnswerOf(c)'
    <3>. HIDE DEF a
    <3>. QED  BY <2>2, <2>3 DEF AnswerOf
  <2>. QED  BY <1>1, <2>3, <2>4, <2>5 DEF AnswerInv
<1>6. CASE Tick
  BY <1>2, <1>6 DEF Tick
<1>7. CASE UNCHANGED vars
  BY <1>2, <1>7 DEF vars
<1>. QED  BY <1>3, <1>4, <1>5, <1>6, <1>7 DEF Next, Done

-----------------------------------------------------------------------------
(* The invariant holds in every state.                                     *)
THEOREM LimiterIndInvHolds == Spec => []LimiterIndInv
<1>1. Init => LimiterIndInv
  <2>. SUFFICES ASSUME Init  PROVE LimiterIndInv
    OBVIOUS
  <2>1. /\ now = 0 /\ log = {} /\ count = [k \in Keys |-> 0]
        /\ expireAt = [k \in Keys |-> NoTTL] /\ pc = [c \in Calls |-> "ready"]
        /\ attempts = [c \in Calls |-> 0]
        /\ answer = [c \in Calls |-> Unrejected(FALSE)]
    BY DEF Init
  <2>2. config \in [{"limit", "window"} -> [Scopes -> Int]]
    <3>1. PICK env \in Settings : config = Load(env)
      BY DEF Init
    <3>2. env \in [{"limit", "window"} -> [Scopes -> SUBSET Int]]
      BY LimiterAssumption
    <3>3. ASSUME NEW f \in {"limit", "window"}, NEW s \in Scopes
          PROVE  Number(env[f][s], Fallback[f][s]) \in Int
      <4>1. env[f][s] \subseteq Int /\ Fallback[f][s] \in Int
        BY <3>2, LimiterAssumption
      <4>2. env[f][s] # {} => (CHOOSE n \in env[f][s] : TRUE) \in env[f][s]
        OBVIOUS
      <4>. QED  BY <4>1, <4>2 DEF Number
    <3>. QED  BY <3>1, <3>3 DEF Load
  <2>3. TypeOK
    BY <2>1, <2>2, LimiterAssumption DEF TypeOK, NoTTL
  <2>4. AttemptsInv
    BY <2>1, LimiterAssumption, FS_EmptySet DEF AttemptsInv
  <2>5. \A k \in Keys : Since(k) = {} /\ Recent(k) = {} /\ count[k] = 0
    BY <2>1 DEF Since, Recent, Admissions
  <2>6. WindowInv
    BY <2>5, FS_EmptySet DEF WindowInv, WindowOf
  <2>7. RecentInv
    <3>1. ASSUME NEW k \in Keys, Usable
          PROVE  Cardinality(Recent(k)) <= Limit[k[1]] - 1
      <4>1. Limit[k[1]] \in Int /\ Limit[k[1]] > 0
        BY <2>3, <3>1, KeyParts, UsableLimits
      <4>. QED  BY <4>1, <2>5, FS_EmptySet
    <3>. QED  BY <3>1 DEF RecentInv, RecentOf
  <2>8. AnswerInv
    BY <2>1 DEF AnswerInv, AnswerOf, Answers, Unrejected
  <2>. QED  BY <2>3, <2>4, <2>6, <2>7, <2>8 DEF LimiterIndInv
<1>2. LimiterIndInv /\ [Next]_vars => LimiterIndInv'
  <2>. SUFFICES ASSUME LimiterIndInv, [Next]_vars  PROVE LimiterIndInv'
    OBVIOUS
  <2>. USE DEF LimiterIndInv
  <2>1. TypeOK' /\ AttemptsInv'
    BY LimiterTypeStays, AttemptsStay
  <2>2. Keys' = Keys
    BY DEF Keys
  <2>3. WindowInv' /\ RecentInv'
    BY WindowStays DEF WindowInv, RecentInv
  <2>4. AnswerInv'
    BY AnswersStay
  <2>. QED  BY <2>1, <2>3, <2>4
<1>. QED  BY <1>1, <1>2, PTL DEF Spec

(* The entries of the current window are those since the border.           *)
LEMMA InWindowIsSince ==
  ASSUME LimiterIndInv, NEW k \in Keys, count[k] > 0
  PROVE  InWindow(k) = Since(k) /\ Cardinality(InWindow(k)) = count[k]
BY DEF LimiterIndInv, WindowInv, WindowOf, InWindow, Since, Border

(* Each counter is the number of admissions in its current window: a       *)
(* rejected call consumes nothing of any rule.                             *)
THEOREM CountersCountAdmissions == Spec => []CountsInv
<1>1. LimiterIndInv => CountsInv
  BY InWindowIsSince DEF LimiterIndInv, CountsInv, CountsAgree
<1>. QED  BY <1>1, LimiterIndInvHolds, PTL

(* No interval as long as a window admits twice the limit, across the      *)
(* border of two windows and retries included.                             *)
THEOREM BurstsAreBounded == Spec => []BurstBound
<1>1. LimiterIndInv => BurstBound
  <2>. SUFFICES ASSUME LimiterIndInv, Usable, NEW k \in Keys
                PROVE  Cardinality({e \in Admissions(k) : e.at >= now - Window[k[1]]})
                         <= 2 * Limit[k[1]] - 1
    BY DEF BurstBound
  <2> DEFINE burst == {e \in Admissions(k) : e.at >= now - Window[k[1]]}
  <2>1. /\ Limit[k[1]] \in Int /\ Limit[k[1]] > 0 /\ Window[k[1]] \in Int
        /\ now \in Int /\ Border(k) \in Int /\ Border(k) <= now
        /\ count[k] \in Nat
    BY KeyParts, UsableLimits, KeyTyped DEF LimiterIndInv
  <2>2. \A e \in Admissions(k) : e.at \in Int
    BY DEF LimiterIndInv, AttemptsInv, Admissions
  <2>3. burst \subseteq Since(k) \cup Recent(k)
    BY <2>1, <2>2 DEF Since, Recent
  <2>4. IsFiniteSet(Since(k)) /\ IsFiniteSet(Recent(k))
    <3>1. Since(k) \subseteq log /\ Recent(k) \subseteq log
      BY DEF Since, Recent, Admissions
    <3>. QED  BY <3>1, FS_Subset DEF LimiterIndInv, AttemptsInv
  <2>5. /\ Cardinality(Since(k)) \in Nat /\ Cardinality(Recent(k)) \in Nat
        /\ IsFiniteSet(Since(k) \cup Recent(k))
        /\ Cardinality(Since(k) \cup Recent(k))
              = Cardinality(Since(k)) + Cardinality(Recent(k))
    <3>1. Since(k) \cap Recent(k) = {}
      BY <2>1, <2>2 DEF Since, Recent
    <3>2. /\ Cardinality(Since(k)) \in Nat /\ Cardinality(Recent(k)) \in Nat
          /\ Cardinality(Since(k) \cap Recent(k)) = 0
      BY <3>1, <2>4, FS_EmptySet, FS_CardinalityType
    <3>3. /\ IsFiniteSet(Since(k) \cup Recent(k))
          /\ Cardinality(Since(k) \cup Recent(k))
               = Cardinality(Since(k)) + Cardinality(Recent(k))
                   - Cardinality(Since(k) \cap Recent(k))
      BY <2>4, FS_Union
    <3>. QED  BY <3>2, <3>3
  <2>6. /\ Cardinality(burst) \in Nat
        /\ Cardinality(burst) <= Cardinality(Since(k)) + Cardinality(Recent(k))
    BY <2>3, <2>5, FS_Subset, FS_CardinalityType
  <2>7. Cardinality(Since(k)) <= Limit[k[1]]
    BY <2>1 DEF LimiterIndInv, WindowInv, WindowOf
  <2>8. Cardinality(Recent(k)) <= Limit[k[1]] - 1
    BY DEF LimiterIndInv, RecentInv, RecentOf
  <2>. HIDE DEF burst
  <2>9. Cardinality(burst) <= 2 * Limit[k[1]] - 1
    BY <2>1, <2>5, <2>6, <2>7, <2>8
  <2>. QED  BY <2>9 DEF burst
<1>. QED  BY <1>1, LimiterIndInvHolds, PTL

(* Later than RetryAfter says, the window that rejected the call is over.  *)
THEOREM RetryAfterIsEnough == Spec => []RetryAfterSuffices
<1>1. LimiterIndInv => RetryAfterSuffices
  <2>. SUFFICES ASSUME LimiterIndInv, NEW c \in Calls, answer[c].scope # "none",
                       now > answer[c].at + answer[c].retryAfter,
                       NEW e \in InWindow(Key(c, answer[c].scope)),
                       count[Key(c, answer[c].scope)] > 0
                PROVE  e.at > answer[c].at
    BY DEF RetryAfterSuffices
  <2>1. PICK k \in Keys : k = Key(c, answer[c].scope)
    BY KeyParts DEF LimiterIndInv, AnswerInv, Answers
  <2>2. /\ answer[c].at \in Nat /\ answer[c].retryAfter \in Nat
        /\ \/ expireAt[k] = ToldUntil(c)
           \/ Border(k) > ToldUntil(c)
    BY <2>1 DEF LimiterIndInv, AnswerInv, AnswerOf
  <2>3. /\ expireAt[k] >= now /\ Border(k) \in Int /\ now \in Int
        /\ expireAt[k] \in Int
    BY <2>1, KeyTyped DEF LimiterIndInv
  <2>4. Border(k) > answer[c].at + answer[c].retryAfter
    BY <2>2, <2>3 DEF ToldUntil
  <2>5. e \in Since(k)
    BY <2>1, InWindowIsSince
  <2>6. e.at >= Border(k) /\ e.at \in Int
    BY <2>5 DEF Since, Admissions, LimiterIndInv, AttemptsInv
  <2>. QED  BY <2>2, <2>3, <2>4, <2>6
<1>. QED  BY <1>1, LimiterIndInvHolds, PTL

(* A rejection names a rule whose window has admitted something, whatever  *)
(* limits the node was started with.                                       *)
THEOREM RejectionsNameABusyRule == Spec => RejectionsAreEarned
<1>1. ASSUME LimiterIndInv, [Next]_vars
      PROVE  [\A c \in Calls :
                LET a == answer'[c] IN
                a # answer[c] /\ a.scope # "none"
                  => InWindow(Key(c, a.scope)) # {}]_vars
  <2>. SUFFICES ASSUME NEW d \in Calls, answer'[d] # answer[d],
                       answer'[d].scope # "none"
                PROVE  InWindow(Key(d, answer'[d].scope)) # {}
    OBVIOUS
  <2>1. ASSUME NEW c \in Calls, Reject(c)
        PROVE  InWindow(Key(d, answer'[d].scope)) # {}
    <3>1. PICK s \in Scopes :
            /\ count[Key(c, s)] > 0
            /\ answer' = [answer EXCEPT ![c] =
                 [allowed |-> FALSE, scope |-> s,
                  retryAfter |-> expireAt[Key(c, s)] - now, at |-> now]]
      BY <1>1, <2>1, RejectEffect DEF LimiterIndInv
    <3>2. d = c /\ answer'[d].scope = s
      BY <1>1, <3>1 DEF LimiterIndInv, AnswerInv
    <3>3. Key(c, s) \in Keys
      BY KeyParts
    <3>4. Cardinality(InWindow(Key(c, s))) > 0
      BY <1>1, <3>1, <3>3, InWindowIsSince
    <3>. QED  BY <3>2, <3>4, FS_EmptySet
  <2>2. ASSUME NEW c \in Calls, Admit(c)  PROVE FALSE
    <3>1. answer' = [answer EXCEPT ![c] = Unrejected(TRUE)]
      BY <2>2 DEF Admit
    <3>2. d = c /\ answer'[d] = Unrejected(TRUE)
      BY <1>1, <3>1 DEF LimiterIndInv, AnswerInv
    <3>. QED  BY <3>2 DEF Unrejected
  <2>3. ASSUME UNCHANGED answer  PROVE FALSE
    BY <2>3
  <2>. QED  BY <1>1, <2>1, <2>2, <2>3 DEF Next, Refuse, Tick, Done, vars
<1>. QED  BY <1>1, LimiterIndInvHolds, PTL DEF Spec, RejectionsAreEarned
=============================================================================
