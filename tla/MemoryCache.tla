----------------------------- MODULE MemoryCache -----------------------------
(***************************************************************************)
(* MemoryCache (internal/cache/memory.go): a map of entries with deadlines *)
(* mirrored by a list in order of use, bounded by evicting from the back   *)
(* of the list, and a goroutine that removes expired entries until Close.  *)
(*                                                                         *)
(* Every operation holds the mutex from beginning to end and is one step.  *)
(* A deadline is the time that is left until it, so no clock is needed:    *)
(* -1 stands for every moment after the deadline.  Hit, miss and eviction  *)
(* counters, which nothing reads, are left out.                            *)
(***************************************************************************)
EXTENDS Integers, Sequences, FiniteSets

CONSTANTS
    Keys,     \* cache keys, of pages and links alike
    Values,   \* serialised values
    TTLs,     \* the ttl arguments of callers
    MaxTTL,   \* maxTTL (24 hours)
    MaxSize,  \* maxSize
    Closers,  \* goroutines that call Close
    Miss      \* no entry; ErrCacheMiss

ASSUME SizeAssumption == MaxSize \in Nat \ {0}
ASSUME TimeAssumption == TTLs \subseteq Nat /\ MaxTTL \in Nat
ASSUME MissAssumption == Miss \notin Keys \cup Values \cup [value : Values, left : -1..MaxTTL]

VARIABLES
    items,    \* items[k]: the entry of k, or Miss
    lru,      \* keys in the list, the most recently used first
    answer,   \* the last Get and what it returned
    loop,     \* cleanupLoop: "running" until it sees stopCleanup, then "done"
    stopped,  \* stopCleanup is closed
    closing,  \* closing[c]: "no", "once" (inside closeOnce), "returned"
    newer     \* history: <<k, l>> if k was set or hit after l was

cacheVars == <<items, lru, newer>>
closeVars == <<loop, stopped, closing>>
vars == <<cacheVars, answer, closeVars>>

Entries == [value : Values, left : -1..MaxTTL]

TypeOK ==
    /\ items \in [Keys -> Entries \cup {Miss}]
    /\ lru \in Seq(Keys)
    /\ answer \in [key : Keys \cup {Miss}, got : Values \cup {Miss}]
    /\ loop \in {"running", "done"}
    /\ stopped \in BOOLEAN
    /\ closing \in [Closers -> {"no", "once", "returned"}]
    /\ newer \in SUBSET (Keys \X Keys)

Init ==
    /\ items = [k \in Keys |-> Miss]
    /\ lru = <<>>
    /\ answer = [key |-> Miss, got |-> Miss]
    /\ loop = "running"
    /\ stopped = FALSE
    /\ closing = [c \in Closers |-> "no"]
    /\ newer = {}
-----------------------------------------------------------------------------
Present == {k \in Keys : items[k] # Miss}

Expired(k) == items[k] # Miss /\ items[k].left < 0

\* container/list: Remove of these keys, PushFront and MoveToFront.
Without(gone) ==
    LET Kept[n \in 0..Len(lru)] ==
          IF n = 0 THEN <<>>
          ELSE IF lru[n] \in gone THEN Kept[n - 1] ELSE Append(Kept[n - 1], lru[n])
    IN Kept[Len(lru)]

Front(k) == <<k>> \o Without({k})

\* The history of uses after one of k.
Used(k) == {p \in newer : p[2] # k} \cup {<<k, l>> : l \in Keys \ {k}}

\* Variant: Get does not look at the deadline.
GetNoRemoval(k) ==
    /\ answer' = [key |-> k, got |-> IF items[k] # Miss THEN items[k].value ELSE Miss]
    /\ UNCHANGED <<cacheVars, closeVars>>

\* Variant: a hit does not move the entry to the front.
GetInPlace(k) ==
    /\ IF items[k] = Miss \/ Expired(k)
       THEN /\ answer' = [key |-> k, got |-> Miss]
            /\ items' = [items EXCEPT ![k] = Miss]
            /\ lru' = Without({k})
            /\ UNCHANGED newer
       ELSE /\ answer' = [key |-> k, got |-> items[k].value]
            /\ newer' = Used(k)
            /\ UNCHANGED <<items, lru>>
    /\ UNCHANGED closeVars

\* memoryGet: an expired entry is removed on the way.
Get(k) ==
    /\ \/ /\ items[k] = Miss
          /\ answer' = [key |-> k, got |-> Miss]
          /\ UNCHANGED cacheVars
       \/ /\ Expired(k)
          /\ answer' = [key |-> k, got |-> Miss]
          /\ items' = [items EXCEPT ![k] = Miss]
          /\ lru' = Without({k})
          /\ UNCHANGED newer
       \/ /\ items[k] # Miss /\ ~Expired(k)
          /\ answer' = [key |-> k, got |-> items[k].value]
          /\ lru' = Front(k)
          /\ newer' = Used(k)
          /\ UNCHANGED items
    /\ UNCHANGED closeVars

Granted(ttl) == IF ttl > MaxTTL THEN MaxTTL ELSE ttl

Entry(v, ttl) == [value |-> v, left |-> Granted(ttl)]

\* Variant: the entry evicted for a new key stays in the map.
SetLeakingEntry(k, v, ttl) ==
    /\ items' = [items EXCEPT ![k] = Entry(v, ttl)]
    /\ lru' = IF items[k] = Miss /\ Len(lru) >= MaxSize
              THEN <<k>> \o SubSeq(lru, 1, Len(lru) - 1)
              ELSE Front(k)
    /\ newer' = Used(k)
    /\ UNCHANGED <<answer, closeVars>>

\* memorySet: an entry is replaced in place, or added after evictOldest has
\* made room for it.
Set(k, v, ttl) ==
    /\ \/ /\ items[k] # Miss
          /\ items' = [items EXCEPT ![k] = Entry(v, ttl)]
          /\ lru' = Front(k)
       \/ /\ items[k] = Miss /\ Len(lru) < MaxSize
          /\ items' = [items EXCEPT ![k] = Entry(v, ttl)]
          /\ lru' = <<k>> \o lru
       \/ /\ items[k] = Miss /\ Len(lru) >= MaxSize
          /\ items' = [items EXCEPT ![lru[Len(lru)]] = Miss, ![k] = Entry(v, ttl)]
          /\ lru' = <<k>> \o SubSeq(lru, 1, Len(lru) - 1)
    /\ newer' = Used(k)
    /\ UNCHANGED <<answer, closeVars>>

Tick ==
    /\ items' = [k \in Keys |->
         IF items[k] # Miss /\ ~Expired(k) THEN [items[k] EXCEPT !.left = @ - 1] ELSE items[k]]
    /\ UNCHANGED <<lru, newer, answer, closeVars>>

RemoveExpired ==
    /\ items' = [k \in Keys |-> IF Expired(k) THEN Miss ELSE items[k]]
    /\ lru' = Without({k \in Keys : Expired(k)})
    /\ UNCHANGED <<newer, answer, closeVars>>

\* Variant: the loop takes expired entries from the back of the list only.
CleanupFromBack ==
    /\ loop = "running"
    /\ lru # <<>> /\ Expired(lru[Len(lru)])
    /\ items' = [items EXCEPT ![lru[Len(lru)]] = Miss]
    /\ lru' = SubSeq(lru, 1, Len(lru) - 1)
    /\ UNCHANGED <<newer, answer, closeVars>>

\* cleanupLoop: its ticker fires (a tick that finds nothing is no step).
CleanupTick ==
    /\ loop = "running"
    /\ \E k \in Keys : Expired(k)
    /\ RemoveExpired

\* The exported CleanupExpired, which any caller may run.
CleanupExpired == RemoveExpired

\* Variant: the loop ends once it has nothing left to remove.
LoopStopsWhenEmpty ==
    /\ loop = "running"
    /\ stopped
    /\ lru = <<>>
    /\ loop' = "done"
    /\ UNCHANGED <<cacheVars, answer, stopped, closing>>

LoopStops ==
    /\ loop = "running"
    /\ stopped
    /\ loop' = "done"
    /\ UNCHANGED <<cacheVars, answer, stopped, closing>>
-----------------------------------------------------------------------------
(* Close, of which only the first call runs the body of closeOnce *)

CloseBegins(c) ==
    /\ closing[c] = "no"
    /\ ~stopped
    /\ stopped' = TRUE
    /\ closing' = [closing EXCEPT ![c] = "once"]
    /\ UNCHANGED <<cacheVars, answer, loop>>

\* The first caller waits for cleanupDone; the others for the first, inside Do.
CloseReturns(c) ==
    /\ \/ closing[c] = "once" /\ loop = "done"
       \/ closing[c] = "no" /\ \E d \in Closers : closing[d] = "returned"
    /\ closing' = [closing EXCEPT ![c] = "returned"]
    /\ UNCHANGED <<cacheVars, answer, loop, stopped>>
-----------------------------------------------------------------------------
Next ==
    \/ \E k \in Keys : Get(k) \/ \E v \in Values, ttl \in TTLs : Set(k, v, ttl)
    \/ Tick \/ CleanupTick \/ CleanupExpired \/ LoopStops
    \/ \E c \in Closers : CloseBegins(c) \/ CloseReturns(c)

Spec == Init /\ [][Next]_vars

\* The loop's goroutine and the callers of Close are scheduled.
Fairness ==
    /\ WF_vars(CleanupTick) /\ WF_vars(LoopStops)
    /\ \A c \in Closers : WF_vars(CloseReturns(c))

FairSpec == Spec /\ Fairness
-----------------------------------------------------------------------------
\* The list and the map hold the same keys, each once, and no more of them
\* than maxSize: eviction never frees one without the other.
ListMirrorsMap ==
    /\ \A k \in Keys : items[k] # Miss <=> \E i \in 1..Len(lru) : lru[i] = k
    /\ \A i, j \in 1..Len(lru) : lru[i] = lru[j] => i = j
    /\ Len(lru) <= MaxSize

\* What is further to the front was used later.
ListInOrderOfUse == \A i, j \in 1..Len(lru) : i < j => <<lru[i], lru[j]>> \in newer

\* A live entry leaves the cache only to make room for another key, and only
\* if every entry that stays was used after it.
EvictsLeastRecent ==
    [][\A k \in Keys : (items[k] # Miss /\ ~Expired(k) /\ items'[k] = Miss) =>
         /\ Cardinality(Present') = MaxSize
         /\ \A l \in Present \ {k} : <<l, k>> \in newer]_vars

\* Cleanup has ended once any Close has returned, also one that found the
\* cache being closed by somebody else.
CloseWaitsForCleanup ==
    (\E c \in Closers : closing[c] = "returned") => loop = "done"

\* The map, the list and the goroutine agree: a key is in the map exactly if it
\* is in the list, which has the keys in the order of their use, neither
\* outgrows the capacity, nothing is granted more than maxTTL, and after a
\* Close nobody touches the cache behind its owner's back.
CacheInv == TypeOK /\ ListMirrorsMap /\ ListInOrderOfUse /\ CloseWaitsForCleanup

\* Lossy, but never stale: a hit is the live value last set.
Contract == INSTANCE LossyCache WITH content <- items

ImplementsLossyCache == Contract!Spec

\* An entry nobody asks for again does not stay for ever: until the cache is
\* closed it is removed, or set anew, after its deadline.
ExpiredEntriesLeave ==
    \A k \in Keys : Expired(k) ~> (~Expired(k) \/ stopped)

\* Close returns for the caller that stops the cleanup.
CloseEnds ==
    \A c \in Closers : (closing[c] = "once") ~> (closing[c] = "returned")
=============================================================================
