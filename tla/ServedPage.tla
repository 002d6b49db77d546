------------------------------ MODULE ServedPage ------------------------------
(***************************************************************************)
(* What a request is served, next to what it asked for: Service.Analyze    *)
(* over a cache of analyses that were made for earlier requests, under the *)
(* key of the URL their fetch ended at, with their collectors' base URL    *)
(* and limit.  AnalyzeService has the steps of concurrent requests and     *)
(* caches; here requests come one at a time, and which page an analysis is *)
(* of, and what it holds, counts.                                          *)
(*                                                                         *)
(* The cache is one entry: a look-up sees no other, and a store of another *)
(* page may evict it.                                                      *)
(***************************************************************************)
EXTENDS CacheKeys

CONSTANTS
    Landings,      \* where redirects lead
    Found,         \* how many links a page may have
    Limits,        \* values of Options.MaxLinks
    DefaultLimit,  \* the limit of a collector that is given none
    Nothing        \* no URL, no analysis, no entry

ASSUME LandingsAssumption == Landings \subseteq URLs

VARIABLES
    stored,  \* the entry of the cache: a key and an analysis
    at,      \* "idle", "asked", "fetching", "served" or "failed"
    url, limit,  \* AnalysisRequest
    result,  \* AnalysisResult
    hit      \* whether tryCache found it

vars == <<stored, at, url, limit, result, hit>>

Init ==
    /\ stored = Nothing
    /\ at = "idle" /\ url = Nothing /\ limit = 0 /\ result = Nothing /\ hit = FALSE

Analyze(u, n) ==
    /\ at = "idle"
    /\ at' = "asked" /\ url' = u /\ limit' = n
    /\ UNCHANGED <<stored, result, hit>>

\* MemoryCache.GetHTML marks its copy; RedisCache.GetHTML returns what it
\* read.  Either may have the entry.
tryCache(tier) ==
    /\ at = "asked"
    /\ IF stored # Nothing /\ stored.key = NormalizeURL(url)
       THEN /\ at' = "served" /\ hit' = TRUE
            /\ result' = [stored.page EXCEPT !.cacheHit = @ \/ tier = "memory"]
       ELSE at' = "fetching" /\ UNCHANGED <<hit, result>>
    /\ UNCHANGED <<stored, url, limit>>

Origin(u) == [scheme |-> u.scheme, host |-> u.host, port |-> u.port]

\* NewLinksCollector: no limit is the default one.
MaxLinks(n) == IF n <= 0 THEN DefaultLimit ELSE n

\* The collectors get the URL of the request, the result that of the fetch.
Collected(u, final, n, found) ==
    [url |-> final, base |-> Origin(u),
     links |-> IF found <= MaxLinks(n) THEN found ELSE MaxLinks(n),
     truncated |-> found > MaxLinks(n), cacheHit |-> FALSE]

\* Variant: a page is stored under the URL of the request.
fetchAndAnalyzeByRequest ==
    /\ at = "fetching"
    /\ \/ /\ at' = "served"
          /\ \E final \in {url} \cup Landings, found \in Found :
                result' = Collected(url, final, limit, found)
          /\ \/ stored' = [key |-> NormalizeURL(url), page |-> result']
             \/ UNCHANGED stored
       \/ at' = "failed" /\ UNCHANGED <<result, stored>>
    /\ UNCHANGED <<url, limit, hit>>

\* SetHTML may fail; that is logged.
fetchAndAnalyze ==
    /\ at = "fetching"
    /\ \/ /\ at' = "served"
          /\ \E final \in {url} \cup Landings, found \in Found :
                result' = Collected(url, final, limit, found)
          /\ \/ stored' = [key |-> NormalizeURL(result'.url), page |-> result']
             \/ UNCHANGED stored
       \/ at' = "failed" /\ UNCHANGED <<result, stored>>
    /\ UNCHANGED <<url, limit, hit>>

NextRequest ==
    /\ at \in {"served", "failed"}
    /\ at' = "idle" /\ url' = Nothing /\ limit' = 0 /\ result' = Nothing /\ hit' = FALSE
    /\ UNCHANGED stored

Expire ==
    /\ at = "idle"
    /\ stored' = Nothing
    /\ UNCHANGED <<at, url, limit, result, hit>>

Next ==
    \/ \E u \in URLs, n \in Limits : Analyze(u, n)
    \/ \E tier \in {"memory", "redis"} : tryCache(tier)
    \/ fetchAndAnalyze \/ NextRequest \/ Expire

Spec == Init /\ [][Next]_vars
-----------------------------------------------------------------------------
(***************************************************************************)
(* A request whose URL has no escaped slashes and a query that parses is   *)
(* served from the cache only the page of its own URL, also when pages got *)
(* there through redirects from elsewhere (NormalizeURL, SetHTML, GetHTML).*)
(***************************************************************************)
PagesAreOfTheirURL ==
    at = "served" /\ hit /\ Plain(url) /\ Plain(result.url) => SamePage(url, result.url)

(***************************************************************************)
(* Such a page in the cache is not fetched again, whether the default port *)
(* or one trailing slash is written and in whatever order the parameters   *)
(* are, unless a URL is spelled with an empty port, a mark without a query *)
(* or a letter escaped that need not be: those have keys of their own      *)
(* (NormalizeURL, sortQueryParams).                                        *)
(***************************************************************************)
KeysMatchPages ==
    at = "fetching" /\ stored # Nothing =>
        LET page == stored.page.url IN
        Usual(url) /\ Usual(page) /\ OneSlash(url) /\ OneSlash(page) => ~SamePage(url, page)

(***************************************************************************)
(* Violated: "Different URLs should generate different keys"               *)
(* (keys_test.go:114).  A pair that does not parse is left out of the key, *)
(* and an escaped slash becomes a slash when the path ends in one.         *)
(***************************************************************************)
DifferentPagesDifferentKeys == at = "served" /\ hit => SamePage(url, result.url)

(***************************************************************************)
(* Violated: "remove trailing slash except for root" (keys.go:28).  One    *)
(* slash is removed, so a path that ends in two keeps one.                 *)
(***************************************************************************)
TrailingSlashesAreIgnored ==
    at = "fetching" /\ stored # Nothing =>
        (Usual(url) /\ Usual(stored.page.url) => ~SamePage(url, stored.page.url))

(***************************************************************************)
(* Violated: "Same domain = internal" (DECISIONS.md:255).  A page that was *)
(* reached through a redirect has its links resolved against, and compared *)
(* with, the server that was asked; under its own URL it is then served to *)
(* requests that asked for it directly.                                    *)
(***************************************************************************)
InternalMeansOwnHost == at = "served" => result.base.host = result.url.host

(***************************************************************************)
(* Violated: MaxLinks is an "Upper bound" (domain/analysis.go:17).  It is  *)
(* not part of the key, so a request gets as many links as the request     *)
(* that filled the cache asked for, or as few.                             *)
(***************************************************************************)
UpperBoundHonoured == at = "served" => result.links <= MaxLinks(limit)

(***************************************************************************)
(* Violated: CacheHit says "Was result from cache" (domain/analysis.go:74).*)
(* Only the memory tier sets it.                                           *)
(***************************************************************************)
HitsAreMarked == at = "served" => result.cacheHit = hit
=============================================================================
