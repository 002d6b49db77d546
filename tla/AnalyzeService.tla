---------------------------- MODULE AnalyzeService ----------------------------
(***************************************************************************)
(* Service.Analyze (internal/analyzer/service.go) for concurrent requests, *)
(* over a MultiCache: look the page up, else fetch it, walk it and store   *)
(* it, then submit its links to the link checker and, in a synchronous     *)
(* request, wait for them.                                                 *)
(*                                                                         *)
(* The link checker is LinkCheckPool seen from here: a job ends when it    *)
(* likes, or never.  A fetch ends because the HTTP client has a timeout.   *)
(* Of a page only what the cache and the check do to it is kept.           *)
(*                                                                         *)
(* Time passes (Tick) at any moment, also while requests fetch, wait for   *)
(* their links or have a backfill pending.  One thing is assumed of it: a  *)
(* page that was fetched, or found in L2, is written to the cache at most  *)
(* Lag units later, since between the two there is only computation, a     *)
(* goroutine to be scheduled and a call of Redis with its timeouts.        *)
(***************************************************************************)
EXTENDS MultiCache

CONSTANTS
    Redirect,  \* Redirect[u]: the URL a fetch of u ends at
    Linked,    \* URLs of the pages that have links
    NoJob      \* an empty CheckJobID

URLs == Keys

ASSUME RedirectAssumption == Redirect \in [URLs -> URLs] /\ Linked \subseteq URLs
ASSUME URLsAssumption == URLs # {}
ASSUME NoJobAssumption == NoJob \notin Requests

VARIABLES
    at,        \* at[r]: where request r is in Analyze
    url,       \* url[r]: req.URL
    checks,    \* checks[r]: req.Options.CheckLinks
    result,    \* result[r]: the object r holds a pointer to
    age        \* age[r]: the age of the page r, or its backfill, will store

requestVars == <<at, url, checks, result, age>>
vars == <<cacheVars, requestVars>>

Running == {"l1", "l2", "fetch", "walk", "storeL1", "storeL2", "check", "mode",
            "wait", "ended", "result"}
Storing == {"walk", "storeL1", "storeL2"}
Places == Running \cup {"new", "done", "failed"}

\* The modes of link checking that handlers and the command line ask for.
Options == {"disabled", "async", "sync"}

\* walked: the collectors have written to it.  job, status, checked: its
\* CheckJobID, CheckStatus ("none" for an empty one) and whether there is a
\* CheckResult.
Pages == [url : URLs, walked : BOOLEAN, job : Requests \cup {NoJob},
          status : {"none", "completed", "pending", "failed"}, checked : BOOLEAN]

NewPage(u) == [url |-> u, walked |-> FALSE, job |-> NoJob, status |-> "none", checked |-> FALSE]

Entries == [page : Pages, age : Nat, left : Nat]

TypeOK ==
    /\ mode \in {"memory", "redis", "multi", "disabled"}
    /\ l1 \in [Keys -> Entries \cup {Miss}]
    /\ l2 \in [Keys -> Entries \cup {Miss}]
    /\ filling \subseteq Requests
    /\ late \in [Requests -> 0..Lag]
    /\ at \in [Requests -> Places]
    /\ url \in [Requests -> URLs]
    /\ checks \in [Requests -> Options]
    /\ result \in [Requests -> Pages]
    /\ age \in [Requests -> Nat]

SomeURL == CHOOSE u \in URLs : TRUE

Init ==
    /\ CacheInit
    /\ at = [r \in Requests |-> "new"]
    /\ url = [r \in Requests |-> SomeURL]
    /\ checks = [r \in Requests |-> "disabled"]
    /\ result = [r \in Requests |-> NewPage(SomeURL)]
    /\ age = [r \in Requests |-> 0]

Move(r, to) == at' = [at EXCEPT ![r] = to]

\* What an error leaves of a request: nobody gets its result.
Reset(r, to) ==
    /\ Move(r, to)
    /\ url' = [url EXCEPT ![r] = SomeURL]
    /\ checks' = [checks EXCEPT ![r] = "disabled"]
    /\ result' = [result EXCEPT ![r] = NewPage(SomeURL)]
    /\ age' = [age EXCEPT ![r] = 0]
-----------------------------------------------------------------------------
(* tryCache *)

Analyze(r, u) ==
    /\ at[r] = "new"
    /\ Move(r, "l1")
    /\ url' = [url EXCEPT ![r] = u]
    /\ UNCHANGED <<cacheVars, checks, result, age>>

Receive(r, entry) ==
    /\ result' = [result EXCEPT ![r] = entry.page]
    /\ Move(r, "check")
    /\ UNCHANGED <<url, checks>>

LookupL1(r) ==
    /\ at[r] = "l1"
    /\ \/ HitL1(url[r]) /\ Receive(r, l1[url[r]]) /\ UNCHANGED age
       \/ /\ l1[url[r]] = Miss
          /\ Move(r, "l2")
          /\ UNCHANGED <<cacheVars, url, checks, result, age>>

LookupL2(r) ==
    /\ at[r] = "l2"
    /\ \/ /\ HitL2(r, url[r])
          /\ Receive(r, l2[url[r]])
          /\ age' = [age EXCEPT ![r] = IF HasL1 THEN l2[url[r]].age ELSE 0]
       \/ MissL2 /\ Move(r, "fetch") /\ UNCHANGED <<url, checks, result, age>>

BackfillL1(r) ==
    /\ Backfill(r, url[r], result[r], age[r])
    /\ age' = [age EXCEPT ![r] = 0]
    /\ UNCHANGED <<at, url, checks, result>>
-----------------------------------------------------------------------------
(* fetchAndAnalyze *)

\* Fetcher.Fetch, when it succeeds: the client follows redirects, and the URL
\* of the last response is the one the result gets.
FinalURL(u) == Redirect[u]

\* NewAnalysisResult and Fetch.  Every failure of the fetcher looks the same.
Fetch(r) ==
    /\ at[r] = "fetch"
    /\ \/ /\ Move(r, "walk")
          /\ result' = [result EXCEPT ![r] = NewPage(FinalURL(url[r]))]
          /\ UNCHANGED <<url, checks, age>>
       \/ Reset(r, "failed")
    /\ UNCHANGED cacheVars

Walked(page) == [page EXCEPT !.walked = TRUE, !.status = "completed"]

\* Variant: a page that cannot be parsed is stored all the same.
WalkLeniently(r) ==
    /\ at[r] = "walk"
    /\ result' \in {result, [result EXCEPT ![r] = Walked(@)]}
    /\ Move(r, "storeL1")
    /\ UNCHANGED <<cacheVars, url, checks, age>>

\* Walk: the links collector sets CheckStatus to completed.
Walk(r) ==
    /\ at[r] = "walk"
    /\ \/ /\ result' = [result EXCEPT ![r] = Walked(@)]
          /\ Move(r, "storeL1")
          /\ UNCHANGED <<url, checks, age>>
       \/ Reset(r, "failed")
    /\ UNCHANGED cacheVars

\* SetHTML, under the URL of the result and not of the request.
StoreL1(r) ==
    /\ at[r] = "storeL1"
    /\ SetL1(result[r].url, result[r], age[r])
    /\ Move(r, "storeL2")
    /\ UNCHANGED <<url, checks, result, age>>

StoreL2(r) ==
    /\ at[r] = "storeL2"
    /\ SetL2(result[r].url, result[r], age[r])
    /\ Move(r, "check")
    /\ age' = [age EXCEPT ![r] = 0]
    /\ UNCHANGED <<url, checks, result>>
-----------------------------------------------------------------------------
(* performLinkCheck, on the object that a backfill may be reading: in one    *)
(* step, since a mix of two states of it differs in the check alone.         *)

\* The option of the request is chosen here, where it is first looked at.
SubmitJob(r, option) ==
    /\ at[r] = "check"
    /\ checks' = [checks EXCEPT ![r] = option]
    /\ \/ /\ option = "disabled" \/ result[r].url \notin Linked
          /\ Move(r, "done")
          /\ UNCHANGED result
       \/ /\ option # "disabled" /\ result[r].url \in Linked
          /\ Move(r, "mode")
          /\ result' = [result EXCEPT ![r].job = r]
    /\ UNCHANGED <<cacheVars, url, age>>

MarkPending(r) ==
    /\ at[r] = "mode"
    /\ \/ /\ checks[r] = "sync"
          /\ Move(r, "wait")
          /\ UNCHANGED result
       \/ /\ checks[r] = "async"
          /\ Move(r, "done")
          /\ result' = [result EXCEPT ![r].status = "pending"]
    /\ UNCHANGED <<cacheVars, url, checks, age>>

\* Variant: a timeout leaves CheckStatus alone.
TimeoutQuietly(r) ==
    /\ at[r] \in {"wait", "ended"}
    /\ Move(r, "done")
    /\ UNCHANGED <<cacheVars, url, checks, result, age>>

\* WaitForJob fails: its deadline has passed, or the job is gone.
Timeout(r) ==
    /\ at[r] \in {"wait", "ended"}
    /\ Move(r, "done")
    /\ result' = [result EXCEPT ![r].status = "failed"]
    /\ UNCHANGED <<cacheVars, url, checks, age>>

\* The link checker completes the job of r, or rejected it.
JobEnds(r) ==
    /\ at[r] = "wait"
    /\ Move(r, "ended")
    /\ UNCHANGED <<cacheVars, url, checks, result, age>>

TakeStatus(r) ==
    /\ at[r] = "ended"
    /\ Move(r, "result")
    /\ \E s \in {"completed", "failed"} : result' = [result EXCEPT ![r].status = s]
    /\ UNCHANGED <<cacheVars, url, checks, age>>

\* Variant: the page is stored once more, with the outcome of the check.
TakeResultAndStore(r) ==
    /\ at[r] = "result"
    /\ Move(r, "done")
    /\ result' = [result EXCEPT ![r].checked = TRUE]
    /\ SetL2(result[r].url, result'[r], age[r])
    /\ UNCHANGED <<url, checks, age>>

TakeResult(r) ==
    /\ at[r] = "result"
    /\ Move(r, "done")
    /\ result' = [result EXCEPT ![r].checked = TRUE]
    /\ UNCHANGED <<cacheVars, url, checks, age>>
-----------------------------------------------------------------------------
\* Nothing refers to an answered request: its place is taken by a new one.
Forget(r) ==
    /\ at[r] \in {"done", "failed"}
    /\ r \notin filling
    /\ Reset(r, "new")
    /\ UNCHANGED cacheVars

\* A unit of time passes, whatever requests and backfills are doing.
Tick ==
    /\ \A r \in Requests : at[r] \in Storing => age[r] < Lag
    /\ CacheTick
    /\ age' = [r \in Requests |-> IF at[r] \in Storing \/ r \in filling
                                 THEN age[r] + 1 ELSE age[r]]
    /\ UNCHANGED <<at, url, checks, result>>

RequestStep(r) ==
    \/ LookupL1(r) \/ LookupL2(r) \/ Fetch(r) \/ Walk(r) \/ StoreL1(r) \/ StoreL2(r)
    \/ \E option \in Options : SubmitJob(r, option)
    \/ MarkPending(r) \/ Timeout(r) \/ TakeStatus(r) \/ TakeResult(r)

Next ==
    \/ \E r \in Requests :
         \/ \E u \in URLs : Analyze(r, u)
         \/ RequestStep(r) \/ BackfillL1(r) \/ JobEnds(r) \/ Forget(r)
    \/ \E k \in Keys : Lose(k) /\ UNCHANGED requestVars
    \/ Tick

Spec == Init /\ [][Next]_vars
-----------------------------------------------------------------------------
NoCheck(page) == page.job = NoJob /\ page.status = "completed" /\ ~page.checked

\* How old a page of L1 can become, and so be when it is served from there.
MaxAge == IF mode = "multi" THEN TTL + BackfillTTL + 2 * Lag ELSE TTL + Lag

\* How stale a page is that a tier can serve: L2, or a single tier, keeps it
\* for TTL; the L1 of two tiers for as long as both times to live together,
\* since it can be filled at the last moment of L2's entry, but no longer, as
\* nothing refills L2 from L1.  Every store on the way may come late by Lag:
\* that of the page, and a backfill that other requests have overtaken.
CachedAgeBounded ==
    \A k \in Keys : /\ l1[k] # Miss => l1[k].age <= MaxAge
                    /\ l2[k] # Miss => l2[k].age <= TTL + Lag

\* What other instances read, and the only tier there is, holds pages as they
\* were before any link check: no job id and no result of another request.
SharedPagesHoldNoCheck ==
    \A k \in Keys : /\ l2[k] # Miss => NoCheck(l2[k].page)
                    /\ mode = "memory" /\ l1[k] # Miss => NoCheck(l1[k].page)

\* A fetch or a parse that fails leaves nothing behind that a later request
\* could take for an analysis.
OnlyWalkedPagesServed ==
    /\ \A k \in Keys : /\ l1[k] # Miss => l1[k].page.walked
                       /\ l2[k] # Miss => l2[k].page.walked
    /\ \A r \in Requests : at[r] = "done" => result[r].walked

\* CheckStatus is "completed" from the walk on: a synchronous request that
\* says so after a check has submitted its links and has the result of that job.
CompletedMeansChecked ==
    \A r \in Requests :
        (at[r] = "done" /\ checks[r] = "sync" /\ result[r].url \in Linked) =>
            /\ result[r].job = r
            /\ result[r].status = "completed" => result[r].checked

-----------------------------------------------------------------------------
(* The inductive invariant behind the theorems of AnalyzeService_proofs *)

\* Only tiers of the mode hold pages, pages that were analysed; a page and
\* the rest of its time to live do not add up to more than the mode allows.
TiersInv ==
    \A k \in Keys :
        /\ l1[k] # Miss => /\ HasL1
                           /\ l1[k].page.walked
                           /\ mode = "memory" => NoCheck(l1[k].page)
                           /\ l1[k].age + l1[k].left <= MaxAge
        /\ l2[k] # Miss => /\ HasL2
                           /\ l2[k].page.walked
                           /\ NoCheck(l2[k].page)
                           /\ l2[k].age + l2[k].left <= TTL + Lag

\* A backfill belongs to a request that has its page from L2.
FillingInv ==
    \A r \in filling :
        /\ mode = "multi"
        /\ at[r] \in {"check", "mode", "wait", "ended", "result", "done"}
        /\ result[r].walked
        /\ age[r] <= TTL + Lag + late[r]

\* What a request has at each place: an analysed page from the walk on,
\* without a check until it has been stored; a job of its own from SubmitJob.
RequestInv ==
    \A r \in Requests :
        /\ r \notin filling => age[r] <= IF at[r] \in Storing THEN Lag ELSE 0
        /\ at[r] = "walk" => result[r].job = NoJob /\ ~result[r].checked
        /\ at[r] \in {"storeL1", "storeL2"} => result[r].walked /\ NoCheck(result[r])
        /\ at[r] \in {"check", "mode", "wait", "ended", "result", "done"} =>
              result[r].walked
        /\ at[r] = "mode" => checks[r] # "disabled"
        /\ at[r] \in {"wait", "ended", "result"} => checks[r] = "sync"
        /\ at[r] \in {"mode", "wait", "ended", "result"} => result[r].job = r

\* Together with the honesty of the answers this is inductive.
ServiceInv ==
    /\ TypeOK /\ TiersInv /\ FillingInv /\ RequestInv /\ CompletedMeansChecked
-----------------------------------------------------------------------------
\* "Stale data up to TTL" (DECISIONS.md:130), a store that comes late allowed
\* for: the memory tier of two keeps a page beyond that.
StaleUpToTTL ==
    \A k \in Keys : /\ l1[k] # Miss => l1[k].age <= TTL + Lag
                    /\ l2[k] # Miss => l2[k].age <= TTL + Lag

\* SetHTML stores the analysis, which excludes link check results.
CacheExcludesLinkChecks ==
    \A k \in Keys : l1[k] # Miss => NoCheck(l1[k].page)
=============================================================================
