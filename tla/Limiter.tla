------------------------------- MODULE Limiter -------------------------------
(***************************************************************************)
(* The rate limit of one room: MessageService.checkLimit calls             *)
(* RedisFixedWindowLimiter.Allow with three rules (user, IP, room), and a  *)
(* Lua script checks and counts them in one Redis step.                    *)
(*                                                                         *)
(* The limits come from the environment (config.Load), unchecked; Allow    *)
(* refuses them when they are unusable.                                    *)
(*                                                                         *)
(* Time is a clock of ticks.  The Redis client repeats a script whose      *)
(* answer is lost, so one Allow may run the script more than once.         *)
(***************************************************************************)
EXTENDS Integers, FiniteSets, FiniteSetsExt

CONSTANTS
  Calls,        \* calls of Allow
  UserOf, IPOf, \* user and address of each call
  Settings,     \* environments the node may start with, see Load
  Fallback,     \* the limits and windows of Load for what is not set
  MaxAttempts,  \* executions of the script per call: the first and retries
  MaxTime       \* bound of the clock

Scopes == {"user", "ip", "room"}

(* The order of the rules in checkLimit.                                   *)
Rule == <<"user", "ip", "room">>

(* Of a variable of the environment only its number matters: {n}, or {}    *)
(* when it is not set or does not parse.                                   *)
ASSUME LimiterAssumption ==
  /\ Settings \subseteq
       [{"limit", "window"} -> [Scopes -> SUBSET Int]]
  /\ \A e \in Settings : \A f \in {"limit", "window"} : \A s \in Scopes :
       Cardinality(e[f][s]) <= 1
  /\ Fallback \in [{"limit", "window"} -> [Scopes -> Nat \ {0}]]
  /\ MaxAttempts \in Nat \ {0}
  /\ MaxTime \in Nat

VARIABLES
  config,    \* what Load made of the environment, fixed at the start
  now,       \* the Redis clock
  count,     \* value of each key, 0 when it is absent
  expireAt,  \* when each key expires, NoTTL without a timeout
  pc,        \* progress of each call
  attempts,  \* executions of the script so far, per call
  answer,    \* result of the last execution, per call
  log        \* history: admitting executions

vars == <<config, now, count, expireAt, pc, attempts, answer, log>>

NoTTL == -1

Key(c, scope) == <<scope, CASE scope = "user" -> UserOf[c]
                            [] scope = "ip"   -> IPOf[c]
                            [] scope = "room" -> "room">>

Keys == {Key(c, s) : c \in Calls, s \in Scopes}

(* The Decision of a call that no rule rejects, or not yet.                *)
Unrejected(allowed) ==
  [allowed |-> allowed, scope |-> "none", retryAfter |-> 0, at |-> 0]

(* getEnvInt and getEnvDuration.                                           *)
Number(value, fallback) ==
  IF value = {} THEN fallback ELSE CHOOSE n \in value : TRUE

(* Nothing else checks the numbers.                                        *)
Load(env) ==
  [f \in {"limit", "window"} |->
     [s \in Scopes |-> Number(env[f][s], Fallback[f][s])]]

Limit == config.limit
Window == config.window

Init ==
  /\ config \in {Load(env) : env \in Settings}
  /\ now = 0
  /\ count = [k \in Keys |-> 0]
  /\ expireAt = [k \in Keys |-> NoTTL]
  /\ pc = [c \in Calls |-> "ready"]
  /\ attempts = [c \in Calls |-> 0]
  /\ answer = [c \in Calls |-> Unrejected(FALSE)]
  /\ log = {}

-----------------------------------------------------------------------------
(* Allow validates all rules before it talks to Redis.                     *)
Usable_ZeroLimit ==
  \A s \in Scopes : Limit[s] >= 0 /\ Window[s] > 0

Usable == \A s \in Scopes : Limit[s] > 0 /\ Window[s] > 0

Refuse(c) ==
  /\ ~Usable
  /\ pc[c] = "ready"
  /\ pc' = [pc EXCEPT ![c] = "failed"]
  /\ UNCHANGED <<config, now, count, expireAt, attempts, answer, log>>

(* Rules that have no unit left, by their place in the script.             *)
Exceeded_OffByOne(c) ==
  {i \in DOMAIN Rule : count[Key(c, Rule[i])] > Limit[Rule[i]]}

Exceeded(c) ==
  {i \in DOMAIN Rule : count[Key(c, Rule[i])] >= Limit[Rule[i]]}

(* One execution of the script.  Its answer makes Allow return a decision; *)
(* when the answer is lost the client tries again, or gives up with an     *)
(* error.                                                                  *)
Executes(c) ==
  /\ Usable
  /\ pc[c] = "ready"
  /\ attempts' = [attempts EXCEPT ![c] = @ + 1]
  /\ \/ pc' = [pc EXCEPT ![c] = "returned"]
     \/ pc' = [pc EXCEPT ![c] =
                 IF attempts'[c] < MaxAttempts THEN "ready" ELSE "failed"]

(* PTTL of the key that rejects, 0 at its deadline; a key without a        *)
(* timeout gets one.                                                       *)
Reject_FirstKeyTTL(c) ==
  LET scope == Rule[Min(Exceeded(c))]
      key   == Key(c, scope)
      until == IF expireAt[key] = NoTTL THEN now + Window[scope]
               ELSE expireAt[key]
  IN
  /\ Executes(c)
  /\ Exceeded(c) # {}
  /\ expireAt' = [expireAt EXCEPT ![key] = until]
  /\ answer' = [answer EXCEPT ![c] =
       [allowed |-> FALSE, scope |-> scope,
        retryAfter |-> expireAt[Key(c, "user")] - now, at |-> now]]
  /\ UNCHANGED <<config, now, count, log>>

Reject_CountsFirst(c) ==
  LET scope == Rule[Min(Exceeded(c))]
      key   == Key(c, scope)
      until == IF expireAt[key] = NoTTL THEN now + Window[scope]
               ELSE expireAt[key]
      seen  == {Key(c, Rule[i]) : i \in 1..(Min(Exceeded(c)) - 1)}
  IN
  /\ Executes(c)
  /\ Exceeded(c) # {}
  /\ count' = [k \in Keys |-> IF k \in seen THEN count[k] + 1 ELSE count[k]]
  /\ expireAt' = [expireAt EXCEPT ![key] = until]
  /\ answer' = [answer EXCEPT ![c] =
       [allowed |-> FALSE, scope |-> scope,
        retryAfter |-> until - now, at |-> now]]
  /\ UNCHANGED <<config, now, log>>

Reject(c) ==
  LET scope == Rule[Min(Exceeded(c))]
      key   == Key(c, scope)
      until == IF expireAt[key] = NoTTL THEN now + Window[scope]
               ELSE expireAt[key]
  IN
  /\ Executes(c)
  /\ Exceeded(c) # {}
  /\ expireAt' = [expireAt EXCEPT ![key] = until]
  /\ answer' = [answer EXCEPT ![c] =
       [allowed |-> FALSE, scope |-> scope,
        retryAfter |-> until - now, at |-> now]]
  /\ UNCHANGED <<config, now, count, log>>

(* INCR of every key; the first count of a window starts its timeout.      *)
Admit(c) ==
  LET mine == {Key(c, s) : s \in Scopes} IN
  /\ Executes(c)
  /\ Exceeded(c) = {}
  /\ count' = [k \in Keys |-> IF k \in mine THEN count[k] + 1 ELSE count[k]]
  /\ expireAt' = [k \in Keys |->
       IF k \in mine /\ count[k] = 0 THEN now + Window[k[1]] ELSE expireAt[k]]
  /\ answer' = [answer EXCEPT ![c] = Unrejected(TRUE)]
  /\ log' = log \cup {[call |-> c, attempt |-> attempts[c], at |-> now]}
  /\ UNCHANGED <<config, now>>

(* Time passes and Redis drops the keys whose deadline has passed; at the  *)
(* deadline a key still counts.                                            *)
Tick ==
  LET gone == {k \in Keys : expireAt[k] = now} IN
  /\ now < MaxTime
  /\ now' = now + 1
  /\ count' = [k \in Keys |-> IF k \in gone THEN 0 ELSE count[k]]
  /\ expireAt' = [k \in Keys |-> IF k \in gone THEN NoTTL ELSE expireAt[k]]
  /\ UNCHANGED <<config, pc, attempts, answer, log>>

Done ==
  /\ now = MaxTime
  /\ \A c \in Calls : pc[c] \in {"returned", "failed"}
  /\ UNCHANGED vars

Next ==
  \/ \E c \in Calls : Refuse(c) \/ Reject(c) \/ Admit(c)
  \/ Tick
  \/ Done

Spec == Init /\ [][Next]_vars

-----------------------------------------------------------------------------
TypeOK ==
  /\ config \in [{"limit", "window"} -> [Scopes -> Int]]
  /\ now \in 0..MaxTime
  /\ count \in [Keys -> Nat] /\ expireAt \in [Keys -> Int]
  /\ \A k \in Keys :
       \/ count[k] = 0 /\ expireAt[k] = NoTTL
       \/ count[k] > 0 /\ expireAt[k] \in now..(now + Window[k[1]])
  /\ pc \in [Calls -> {"ready", "returned", "failed"}]
  /\ attempts \in [Calls -> 0..MaxAttempts]

Admissions(k) == {e \in log : Key(e.call, k[1]) = k}

(* A window runs from the first admission to the deadline of the key.      *)
InWindow(k) == {e \in Admissions(k) : e.at >= expireAt[k] - Window[k[1]]}

(* The three counters agree on what was admitted: each is the number of    *)
(* admissions in its current window, so that a rejected call consumes      *)
(* nothing of any rule, in any order of calls, expiries and retries.       *)
CountsAgree ==
  \A k \in Keys : count[k] > 0 => count[k] = Cardinality(InWindow(k))

(* Types, no counter without a timeout, and counters that agree.           *)
CountsInv == TypeOK /\ CountsAgree

(* Fixed windows bound the burst across a window border: any interval as   *)
(* long as the window, its two ends included, here the one that ends now,  *)
(* holds fewer than twice the limit, retries included.                     *)
BurstBound ==
  Usable => \A k \in Keys :
    Cardinality({e \in Admissions(k) : e.at >= now - Window[k[1]]})
      <= 2 * Limit[k[1]] - 1

(* RetryAfter suffices: for a call made later than it says, the window     *)
(* that rejected is over, however late the answer was and whoever else     *)
(* called.  At the very instant that it names the window may still reject. *)
RetryAfterSuffices ==
  \A c \in Calls :
    LET a == answer[c] IN
    a.scope # "none" /\ now > a.at + a.retryAfter =>
      \A e \in InWindow(Key(c, a.scope)) :
        count[Key(c, a.scope)] > 0 => e.at > a.at

(* No call is told to wait in vain: a rejection names a rule whose window  *)
(* holds an admission, whatever limits the node was started with.  Load    *)
(* checks none of them, so a limit of 0 reaches Allow.                     *)
RejectionsAreEarned ==
  [][\A c \in Calls :
       LET a == answer'[c] IN
       a # answer[c] /\ a.scope # "none" => InWindow(Key(c, a.scope)) # {}]_vars
=============================================================================
