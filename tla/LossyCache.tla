----------------------------- MODULE LossyCache -----------------------------
(***************************************************************************)
(* What the Cache interface (internal/cache/cache.go) promises its users,  *)
(* whatever the tier behind it: a map whose entries carry a time to live.  *)
(* A Get answers with the value last set for its key while that value is   *)
(* alive, or misses; the cache may lose any entry at any time, but never   *)
(* serves one past its time to live, revives one it has lost or answers    *)
(* with a value that has been replaced.  MemoryCache implements this       *)
(* specification.                                                          *)
(***************************************************************************)
EXTENDS Integers

CONSTANTS
    Keys,    \* cache keys
    Values,  \* what is stored under them
    TTLs,    \* times to live a caller may ask for
    MaxTTL,  \* the longest the cache grants
    Miss     \* ErrCacheMiss

VARIABLES
    content,  \* content[k]: the entry of k, or Miss
    answer    \* the last call and what it returned

vars == <<content, answer>>

Granted(ttl) == IF ttl > MaxTTL THEN MaxTTL ELSE ttl

Entry(v, ttl) == [value |-> v, left |-> Granted(ttl)]

\* time.Now().After(expiresAt) is false: at the deadline itself an entry lives.
Alive(e) == e # Miss /\ e.left >= 0

Init ==
    /\ content = [k \in Keys |-> Miss]
    /\ answer = [key |-> Miss, got |-> Miss]

Set(k, v, ttl) ==
    /\ \E lost \in SUBSET (Keys \ {k}) :
         content' = [i \in Keys |-> IF i = k THEN Entry(v, ttl)
                                    ELSE IF i \in lost THEN Miss ELSE content[i]]
    /\ UNCHANGED answer

Hit(k) ==
    /\ Alive(content[k])
    /\ answer' = [key |-> k, got |-> content[k].value]
    /\ UNCHANGED content

MissOn(k) ==
    /\ ~Alive(content[k])
    /\ answer' = [key |-> k, got |-> Miss]
    /\ content' \in {content, [content EXCEPT ![k] = Miss]}

\* Entries are lost: evicted, expired or removed by the cleanup.
Lose == /\ \E lost \in SUBSET Keys :
             content' = [i \in Keys |-> IF i \in lost THEN Miss ELSE content[i]]
        /\ UNCHANGED answer

\* A unit of time passes.  Of a dead entry only that it is dead matters.
Tick ==
    /\ content' = [k \in Keys |->
         IF Alive(content[k]) THEN [content[k] EXCEPT !.left = @ - 1] ELSE content[k]]
    /\ UNCHANGED answer

Next ==
    \/ \E k \in Keys : Hit(k) \/ MissOn(k) \/ \E v \in Values, ttl \in TTLs : Set(k, v, ttl)
    \/ Lose \/ Tick

Spec == Init /\ [][Next]_vars
=============================================================================
