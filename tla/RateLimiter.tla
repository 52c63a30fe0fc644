------------------------------ MODULE RateLimiter ------------------------------
(***************************************************************************)
(* The relay's per-address limiter (server/limiter.go): a budget of        *)
(* maxRequests per fixed window, counted in a map whose expired entries    *)
(* are dropped from time to time.                                          *)
(*                                                                         *)
(* Time is in ticks.  Every call reads the clock before it takes the       *)
(* mutex, so it may decide with a time up to Lag old, and two calls may    *)
(* decide in the other order than they read it.  Reset is only called by   *)
(* tests and left out.                                                     *)
(***************************************************************************)
EXTENDS Integers

CONSTANTS
    Key,            \* source addresses
    Window,         \* rateLimiter.window
    MaxRequests,    \* rateLimiter.maxRequests
    CleanupEvery,   \* a quarter of the window, at least 30 seconds
    Lag,            \* longest wait for the mutex
    MaxTime         \* bound: the clock stops there

ASSUME LimiterAssumption ==
    /\ Window \in Nat \ {0} /\ MaxRequests \in Nat \ {0} /\ CleanupEvery \in Nat \ {0}
    /\ Lag \in Nat /\ Lag < Window /\ MaxTime \in Nat /\ Lag <= MaxTime

VARIABLES
    clock,
    hits,           \* Count and ResetAt of each key; Count 0 is no entry
    nextCleanup,
    grants,         \* history: requests granted until the end of each tick, as of now
    answer          \* history: what the last call said, during this tick

limiterVars == <<clock, hits, nextCleanup, grants, answer>>

Time  == 0 .. MaxTime
NoHit == [count |-> 0, resetAt |-> 0]
None  == [call |-> "none"]

LimiterTypeOK ==
    /\ clock \in Time
    /\ \A k \in Key : hits[k] \in [count : Nat, resetAt : 0 .. MaxTime + Window]
    /\ nextCleanup \in 0 .. MaxTime + CleanupEvery
    /\ grants \in [Key -> [Time -> Nat]]
    /\ answer \in {None} \cup [call : {"Allow", "Blocked"}, key : Key, yes : BOOLEAN]

LimiterInit ==
    /\ clock = Lag
    /\ hits = [k \in Key |-> NoHit]
    /\ nextCleanup = 0
    /\ grants = [k \in Key |-> [t \in Time |-> 0]]
    /\ answer = None

\* A time.Now() of a call that decides now.
Now == (clock - Lag) .. clock

\* pruneExpiredLocked
Pruned(now) == [k \in Key |-> IF hits[k].resetAt > now THEN hits[k] ELSE NoHit]

\* prepareLocked: the entries a call works on.
Prepared(now) == IF now >= nextCleanup THEN Pruned(now) ELSE hits

NextCleanup(now) == IF now >= nextCleanup THEN now + CleanupEvery ELSE nextCleanup

\* Mutant: every attempt restarts the window.
CountedSliding(hit, now) == [count |-> hit.count + 1, resetAt |-> now + Window]

\* The first request of a window.
Opens(hit, now) == hit.resetAt < now \/ hit.count = 0

\* A further request of a window.
Counted(hit, now) == [hit EXCEPT !.count = @ + 1]

\* Mutant: one more than the budget.
WithinOffByOne(hit, now) == Opens(hit, now) \/ hit.count <= MaxRequests

\* Whether Allow grants a request, given the entry it finds.
Within(hit, now) == Opens(hit, now) \/ hit.count + 1 <= MaxRequests

\* One more request granted at this tick.
OneMoreGrant(k) == [grants EXCEPT ![k] = [t \in Time |-> IF t < clock THEN @[t] ELSE @[t] + 1]]

Allow(k, now) ==
    LET hit == Prepared(now)[k]
        yes == Within(hit, now)
    IN  /\ hits' = [Prepared(now) EXCEPT ![k] =
                      IF Opens(hit, now) THEN [count |-> 1, resetAt |-> now + Window]
                      ELSE Counted(hit, now)]
        /\ nextCleanup' = NextCleanup(now)
        /\ answer' = [call |-> "Allow", key |-> k, yes |-> yes]
        /\ grants' = IF yes THEN OneMoreGrant(k) ELSE grants
        /\ UNCHANGED clock

BlockedBy(hit, now) == hit.resetAt > now /\ hit.count >= MaxRequests

Blocked(k, now) ==
    /\ hits' = Prepared(now)
    /\ nextCleanup' = NextCleanup(now)
    /\ answer' = [call |-> "Blocked", key |-> k, yes |-> BlockedBy(hits'[k], now)]
    /\ UNCHANGED <<clock, grants>>

\* rateLimiterCleanupLoop, every 30 seconds.
PruneExpired(now) ==
    /\ hits' = Pruned(now)
    /\ nextCleanup' = now + CleanupEvery
    /\ UNCHANGED <<clock, grants, answer>>

Tick ==
    /\ clock < MaxTime
    /\ clock' = clock + 1
    /\ answer' = None
    /\ UNCHANGED <<hits, nextCleanup, grants>>

\* Bound: a refused client's further attempts only raise a count that stays too
\* high.
CountBound(k) == hits[k].count <= MaxRequests

LimiterNext ==
    \/ Tick
    \/ \E now \in Now : \/ \E k \in Key : (CountBound(k) /\ Allow(k, now)) \/ Blocked(k, now)
                        \/ PruneExpired(now)

LimiterSpec == LimiterInit /\ [][LimiterNext]_limiterVars

-----------------------------------------------------------------------------
Before(k, t) == IF t = 0 THEN 0 ELSE grants[k][t - 1]

\* The requests granted from one tick to another, which may be one yet to come.
Granted(k, from, to) == grants[k][IF to < MaxTime THEN to ELSE MaxTime] - Before(k, from)

\* No address gets more than two budgets within one window less the lag, wherever
\* the fixed windows, the pruning and the order of calls fall (limiter.go, Allow).
TwoBudgetsAtMost ==
    \A k \in Key, t \in Time : Granted(k, t, t + (Window - Lag) - 1) <= 2 * MaxRequests

\* A refusal, by Allow or by Blocked, means that the address did use a whole budget
\* within the last window: refused attempts do not prolong the wait, and "valid
\* joins do not consume the failed-join budget".
RefusedOnlyOverBudget ==
    answer # None /\ answer.yes = (answer.call = "Blocked")
      => Granted(answer.key, IF clock > Window + Lag THEN clock - Window - Lag ELSE 0, clock)
           >= MaxRequests
=============================================================================
