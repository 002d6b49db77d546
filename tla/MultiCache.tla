------------------------------ MODULE MultiCache ------------------------------
(***************************************************************************)
(* The page cache of a deployment: memory (L1), Redis (L2), both           *)
(* (MultiCache, internal/cache/multi.go), or none (NoOpCache).  Each tier  *)
(* is taken for what LossyCache promises: it may lose an entry at any time *)
(* and has lost it when its time to live is over.  A MultiCache consults   *)
(* L1, then L2, and on a hit of L2 leaves a goroutine behind that copies   *)
(* the result to L1: it serialises the object whose address the caller     *)
(* has received, as it is when the goroutine runs.                         *)
(*                                                                         *)
(* Entries carry the age of their page, counted from its fetch in the      *)
(* units of their times to live.  A backfill may wait to be scheduled: its *)
(* own timeout of a second means nothing to the memory cache, which does   *)
(* not look at the context.                                                *)
(***************************************************************************)
EXTENDS Integers

CONSTANTS
    Keys,         \* normalised URLs
    Requests,     \* goroutines that use the cache
    TTL,          \* PageCacheTTL
    BackfillTTL,  \* backfillTTL
    Lag,          \* units of time a write to the cache may come late
    Miss          \* no entry

ASSUME TTLAssumption == TTL \in Nat /\ BackfillTTL \in Nat
ASSUME LagAssumption == Lag \in Nat

VARIABLES
    mode,    \* CACHE_MODE: which tiers there are
    l1,      \* l1[k]: the entry of the memory tier, or Miss
    l2,      \* l2[k]: the entry of the Redis tier, or Miss
    filling, \* requests whose GetHTML has left a backfill goroutine behind
    late     \* late[r]: how long that goroutine has been waiting

cacheVars == <<mode, l1, l2, filling, late>>

HasL1 == mode \in {"memory", "multi"}
HasL2 == mode \in {"redis", "multi"}

Entry(page, age, ttl) == [page |-> page, age |-> age, left |-> ttl]

CacheInit ==
    /\ mode \in {"memory", "redis", "multi", "disabled"}
    /\ l1 = [k \in Keys |-> Miss]
    /\ l2 = [k \in Keys |-> Miss]
    /\ filling = {}
    /\ late = [r \in Requests |-> 0]
-----------------------------------------------------------------------------
\* Variant: a hit gives the entry a new time to live.
HitL1Renewing(k) ==
    /\ l1[k] # Miss
    /\ l1' = [l1 EXCEPT ![k].left = BackfillTTL]
    /\ UNCHANGED <<mode, l2, filling, late>>

\* GetHTML of L1 finds k.
HitL1(k) ==
    /\ l1[k] # Miss
    /\ UNCHANGED cacheVars

\* GetHTML of L2 finds k; in a MultiCache the backfill of r is now under way.
HitL2(r, k) ==
    /\ l2[k] # Miss
    /\ filling' = IF HasL1 THEN filling \cup {r} ELSE filling
    /\ UNCHANGED <<mode, l1, l2, late>>

\* Neither tier answers: a miss, or an error of Redis.
MissL2 == UNCHANGED cacheVars

\* The backfill goroutine of r, which got the page it copies from key k: it
\* replaces whatever has been stored there since.
Backfill(r, k, page, age) ==
    /\ r \in filling
    /\ filling' = filling \ {r}
    /\ late' = [late EXCEPT ![r] = 0]
    /\ l1' = [l1 EXCEPT ![k] = Entry(page, age, BackfillTTL)]
    /\ UNCHANGED <<mode, l2>>

SetL1(k, page, age) ==
    /\ l1' = IF HasL1 THEN [l1 EXCEPT ![k] = Entry(page, age, TTL)] ELSE l1
    /\ UNCHANGED <<mode, l2, filling, late>>

\* The write to L2, which may fail: its caller logs that and goes on.
SetL2(k, page, age) ==
    /\ \/ HasL2 /\ l2' = [l2 EXCEPT ![k] = Entry(page, age, TTL)]
       \/ UNCHANGED l2
    /\ UNCHANGED <<mode, l1, filling, late>>

\* Eviction, a restart of Redis.
Lose(k) ==
    /\ l1[k] # Miss \/ l2[k] # Miss
    /\ \/ l1' = [l1 EXCEPT ![k] = Miss] /\ UNCHANGED l2
       \/ l2' = [l2 EXCEPT ![k] = Miss] /\ UNCHANGED l1
    /\ UNCHANGED <<mode, filling, late>>

Older(e) ==
    IF e = Miss \/ e.left = 0 THEN Miss ELSE [e EXCEPT !.left = @ - 1, !.age = @ + 1]

\* A unit of time passes for every entry and for every pending backfill.
CacheTick ==
    /\ \A r \in filling : late[r] < Lag
    /\ l1' = [k \in Keys |-> Older(l1[k])]
    /\ l2' = [k \in Keys |-> Older(l2[k])]
    /\ late' = [r \in Requests |-> IF r \in filling THEN late[r] + 1 ELSE 0]
    /\ UNCHANGED <<mode, filling>>
=============================================================================
