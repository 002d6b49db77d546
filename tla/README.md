# Verification of page-analyzer

page-analyzer fetches a web page, reports its HTML version, title, headings,
links and login forms, and checks in the background whether the links answer.
It runs as a command line tool and as an HTTP server with a REST API and a web
UI. This directory holds TLA+ models of it, TLC configurations that check
them, and proofs about most of them that the TLA+ proof system checks.

All paths below are relative to the repository; line numbers are those of the
files as modelled. `PROJECT.json` maps every definition to the lines it models
and lists the hazards each property is for.

## 1. The system

| Component | State it keeps | Operations | Modules |
|---|---|---|---|
| Link check worker pool (`internal/analyzer/linkchecker_pool.go`) | channel of jobs, map of jobs, status and result of each job, counters of each running job | Start, Stop, Submit, GetJob, WaitForJob, worker loop, `processJob`, job collection | `LinkCheckPool`, `JobLifecycle`, `LinkCheck_proofs` |
| Link request (`linkchecker_http.go`) | none | HEAD, GET on 403/405/406, classification of failures | `LinkRequest`, `HttpClient`, `MCRequests_proofs` |
| Clients of jobs (`service.go`, `presentation/rest/jobs.go`, `web/static/app.js`) | what a request or a page has read of a job | wait with a deadline, poll, display | `LinkCheckClients`, `LinkCheck_proofs` |
| Memory cache (`internal/cache/memory.go`) | map, LRU list, cleanup goroutine | Get, Set, cleanup, Close | `MemoryCache`, `LossyCache`, `MemoryCache_proofs` |
| Multi-tier cache (`multi.go`, `redis.go`, `noop.go`) | two tiers, backfill goroutines | GetHTML, SetHTML | `MultiCache`, `ServedPage` (as one entry) |
| Cache keys (`keys.go`) | none | NormalizeURL | `CacheKeys`, `ServedPage`, `ServedPage_proofs` |
| Analysis service (`service.go`) | the result object of each request | Analyze, tryCache, fetchAndAnalyze, performLinkCheck | `AnalyzeService`, `AnalyzeService_proofs`, `ServedPage`, `RequestTiming`, `MCRequests_proofs` |
| Fetcher, errors (`fetcher.go`, `domain/errors.go`) | none | Fetch, status codes of failures | `PageFetch`, `HttpClient` |
| Walker and collectors (`walker.go`, `collectors/`) | five collectors fed token by token | Collect, Apply, Walk | `PageWalk`, `PageWalk_proofs` |
| Handlers and CLI (`presentation/`, `cmd_analyze.go`) | none that outlives a call | decoding of options, answers | `AnalyzeRequest`, `MCRequests_proofs` |
| Router and middleware (`internal/server/`) | gauge of active requests | Recovery, RequestID, Logger, CORS, Metrics | `RequestPipeline`, `RequestPipeline_proofs` |
| Server (`cmd_serve.go`, `internal/server/server.go`) | main goroutine, two channels, deferred calls | start, signals, shutdown | `ServerLifecycle`, `ServeCommand`, `ServerLifecycle_proofs` |
| Observability (`internal/observability/`) | two providers | InitOTEL, NewMetrics, shutdown | `Telemetry`, `ServeCommand` |
| Configuration, deployment | none | - | not modelled (section 8) |

How they interact. A request passes the middleware and reaches a handler,
which turns its options into an analysis request and calls `Service.Analyze`.
That asks the cache, else fetches the page and feeds it to the walker, stores
the result, and submits the links to the worker pool, which sends one request
per link. A synchronous request then polls the job under a deadline; an
asynchronous one returns a job id that a browser script polls over
`GET /api/jobs/{id}`. The pool and the service share the cache, and the pool,
its clients and the garbage collector share the job objects. The main
goroutine owns them all and takes them down in the order of its deferred
calls, the telemetry last.

What is hard in it:

- job objects are written under a lock and read without one by the REST
  handler and by `performLinkCheck`;
- the collector deletes jobs that a worker still holds, and the worker stores
  them again;
- after Stop, Go's `select` lets a worker take a job or leave;
- the goroutines of one job share counters, a semaphore and a wait group;
- the backfill of a multi-tier cache serialises, in a goroutine, an object its
  receiver goes on changing, and gives it a new time to live;
- an analysis is stored under the URL its fetch ended at, with the options of
  the request that happened to fetch it, and served to others;
- four timeouts nest or follow each other: of one link, of the fetch, of the
  wait for the links, and of the connection the answer is written to;
- polls of a page overtake each other;
- templates fail after their first byte, and handlers panic inside of
  middleware that keeps books about them;
- a shutdown deadline, handlers, a failing listener and signals race.

What each component must guarantee is stated by the properties in section 4.

## 2. The modules

**JobLifecycle** is what a client is promised about a job, without queue,
workers or locks: it is rejected at once or waits, starts once, and ends with
a result in which each link is either accessible or listed as inaccessible;
then it never changes.

**LinkCheckPool** is the detailed pool. `urls`, `status`, `result` are the
fields of a job, `results` the keys of the `sync.Map`, `queue` the channel,
`step` and `serving` the program counter and the job of each worker, `task`
and `verdict` the program counter and the local verdict of the goroutine that
checks one link of one job, `accessible` and `inaccessible` the variables of
`processJob`, `cached` the link cache, `old` the jobs past `maxAge`, and
`sweep` what a running `gcOldJobs` has left to visit. One action is one
critical section or one call. The two critical sections of `processJob` are
two steps each (lock, then write and unlock), so that other modules can say
what an unlocked reader sees meanwhile. Wall-clock time appears as `Age`,
`CacheDrop` and the free choice of when a check ends. `SharedCache` says
whether the link cache is Redis: a cancelled context is refused by its client
before anything is sent (`CacheReachable`), while the memory cache does not
look at it.

**LinkCheckClients** extends the pool with its readers: `WaitForJob` and the
copy `performLinkCheck` makes, and the page whose script sends polls that
`HandleGetJob` serves. A read without the lock is a data race, and nothing
orders the two reads of `HandleGetJob` or what they see. So each of them may
miss any write made since the job was stored, whatever the other has seen; a
string may come half from before and half from after (`Torn`), a result with
its fields still zero (`Parts`: the container image is built for arm64 too).
Only a job found through the last Store of its worker comes with all that was
written to it (`settled`).

**HttpClient** is one call of `http.Client.Do` as both users configure it: a
timer for all of its requests, a limit on redirects, and a host and a network
that do as they like. It is external code, apart from the `CheckRedirect` and
the `Timeout` it is given. **LinkRequest** extends it with `checkLink`,
`doRequest` and `extractReason`. Since failures are told apart by searching the
text of an error, and that text names a URL, a URL is kept as the set of
searched words it contains, and a cause of a failure may have such words of its
own, as "TLS handshake timeout" has. **PageFetch** extends it with
`Fetcher.Fetch` and the status codes of `domain/errors.go`; a body is its
length.

**AnalyzeRequest** extends `PageFetch` with the three ways to ask for an
analysis. It has the options as given and as understood, and the answer.
Whether all configured collectors are registered is chosen once (`known`).

**RequestPipeline** has, per connection, where its request is in the
middleware and what each layer holds of its status: what net/http has sent,
what the wrappers saw, what was logged and counted. The two wrappers see the
same calls and are one variable.

**RequestTiming** extends it to a whole request on one clock: after the
analysis come the looks and sleeps of `WaitForJob` for a synchronous check,
and the write of the answer against the deadline of net/http. The job may be
collected meanwhile and stored again (`gone`), and a look that misses it ends
the wait as failed. Only the fetch and the sleeps take time.

**MCRequests** runs such requests and the link checks of an instance of
`LinkRequest` side by side. They are the two users of the HTTP client, each
with its own limits, and share no state; so they take turns, and the states
are the sum and not the product of both.

**LossyCache** is what the `Cache` interface promises: entries may be lost at
any time, but a hit is the value last set and within its time to live.
**MemoryCache** is the implementation; a deadline is kept as the time left
until it. Its history variable `newer` records the order of uses, and
the removal of a key from the list is a recursive function over its places.

**CacheKeys** defines `NormalizeURL` and `sortQueryParams` on URLs that are
records of a scheme, a host, a port, a path of names and slashes and a query of
pairs, and what it means for two URLs to name one page. A port may be empty, a
name may be spelled with escapes that need not be (`Names`), and a `?` may have
nothing after it (`mark`). It has no state.
**ServedPage** extends it with `Service.Analyze` over a cache of one entry,
found by its key: which page an analysis is of, where redirects led, and the
base URL and the limit its collectors had. Requests come one at a time; what
concurrent ones do to each other is the subject of the next module.

**MultiCache** has one variable per tier and the set of requests whose lookup
left a backfill behind; `mode` is the `CACHE_MODE` of the deployment. Each
tier is taken for what `LossyCache` promises. **AnalyzeService** extends it
with concurrent requests. A page is reduced to its URL, whether the
collectors wrote to it, and the three fields of the link check; `age` is a
history variable. Time passes (`Tick`) at any moment: while a page is fetched,
while its links are waited for, and while a backfill is pending, whose page
ages with it. One thing is assumed of time: between the fetch of a page, or its
hit in L2, and its write to a cache there is computation, a call of Redis with
its timeouts and a goroutine to be scheduled, and that takes at most `Lag`
units. What an analysis holds besides is left to `ServedPage`.

**PageWalk** walks a page token by token through the five collectors. A token
is its type, its tag, and the one attribute or text a collector looks at.
Tokenising (golang.org/x/net/html) and the resolution of an href are inputs.
The collectors are compared with sets of places of the whole page. Whether the
forms of a page balance is stated by its tags alone: each form has an end tag,
with no tag of another form before it and as many start as end tags between;
that needs no stack, and the rest of the page may be of any shape.

**ServerLifecycle** has the program counter of `runServe`, the goroutine of
`srv.Start`, the two channels, and one handler per request. A connection is
accepted while the server listens (`Connect`), its handler may start later,
also when `Shutdown` has begun (`Begin`), and may take any time; net/http
contributes what `Shutdown` and `ListenAndServe` promise. **Telemetry** has the
steps that set up, feed and shut down the providers, each of which may fail;
what a provider does with what it is given is external. **ServeCommand**
composes the two: the providers are set up before any service is created,
handlers and the link checker record while they run, and the call deferred
first flushes last, with handlers that a deadline left behind, and link checks
that `Stop` cancelled, perhaps still at work. The history variable `late` names
who recorded when it was too late.

`LinkCheckClients` extends `LinkCheckPool`, `AnalyzeService` extends
`MultiCache`, `ServedPage` extends `CacheKeys`, and `LinkRequest`,
`PageFetch`, through that `AnalyzeRequest` and through that `RequestTiming`
extend `HttpClient`. `ServeCommand` extends `ServerLifecycle` and instantiates
`Telemetry`, `MCRequests` extends `RequestTiming` and instantiates
`LinkRequest`. `LinkCheckPool` instantiates `JobLifecycle` under the identity
mapping of `urls`, `status` and `result`; `MemoryCache` instantiates
`LossyCache` with `content <- items`. The other `MC*` modules only add
definitions of constants and symmetry sets. Operators introduced by "Variant:"
are forms of the operator below them with one plausible mistake; no
specification uses them, and each makes one property fail when put in the
place of the original.

## 3. The runs

| Run | Instance | Result |
|---|---|---|
| `pool_safety` | 2 jobs, 2 links, 2 workers, queue of 1, semaphore of 1, a link cache that others share, symmetric | holds, 850 thousand states |
| `pool_liveness` | 2 jobs, 1 link, 1 worker, queue of 1 | holds |
| `clients` | 1 job, 1 link, 1 worker, 2 polls under way, 2 attempts, with fairness | holds, 450 thousand states |
| `memory_cache` | 3 keys, 2 values, ttl 0 and 2, maxTTL 1, 2 entries, 2 callers of Close | holds |
| `analyze_service` | 2 requests, a page with links and a URL redirecting to it, all four cache modes, both times to live 1, writes late by up to 1, symmetric | holds, 530 thousand states |
| `page_cache` | URLs of 2 schemes, 2 hosts (a name and an IPv6 address), 4 ports (one of them empty) and 19 targets; a redirect to one other page; a page of 2 links, limits 0 and 1, default limit 4 | holds, 1.9 million states |
| `requests` | pages: codes 200, 304 and 404, 2 requests per fetch, timeout 2, bodies up to two units over a limit of 2, waits of 4 (as long as the write timeout) and 3, sleeps of 2; links: codes 200, 304, 404 and 405, 2 requests per call, timeout 2, all sets of words in URLs, a cause with a word of its own | holds, 140 thousand states |
| `request_pipeline` | 2 connections, four codes, with and without metrics | holds |
| `page_walk` | every page of up to 6 tokens in three vocabularies, limit 6 tokens, 2 links | holds, 1.5 million states |
| `server_lifecycle` | 3 requests, all four settings of the telemetry, 2 records per provider, with fairness | holds, 490 thousand states |
| `job_api_torn` | as `clients`, with links and jobs symmetric | violated (section 6) |
| `cache_leak` | as `analyze_service` | violated (section 6) |

Why these bounds are enough to show the interesting cases:

- with two jobs, a queue of one and two workers, a job can wait, be rejected
  and be served next to another one; both can check the same link and meet in
  the link cache; with two links and a semaphore of one the loop blocks on the
  semaphore and one link ends before the other; both jobs can be collected
  while served. More is covered by the proofs, which bound nothing;
- in `clients` one job has at most one submitter, and readers of different
  jobs share nothing; two polls are enough for one to overtake the other, and
  two attempts for the limit to be met while both are under way;
- three keys for two places make every Set of a new key choose a victim among
  two; a ttl above maxTTL and one of zero are the two ends of its range;
- two requests are enough for a backfill of one to meet the link check of the
  other, and times to live of one unit for every order of setting, filling,
  expiring and refilling; a lag of one unit is as long as they are, so that a
  late backfill meets a newer page, or one that has expired since;
- a limit of two requests has a redirect that is followed and one that is not;
  codes are told apart as success, redirect, refusal of a method and other
  failures only, and a timeout of two lets an answer come early or in the last
  moment;
- one unit over the limit is what `LimitReader` can see of a body, two are more
  than that;
- a wait of 3 is no multiple of the sleep of 2, so that the last sleep passes
  the deadline, and one of 4 is as long as the write timeout, which is the
  default of the server;
- one redirect target is enough in `page_cache`: what a second one adds is
  another stored URL, and any page can be the stored one. The paths have none,
  one and two slashes at the end, in the root and below it, and an escaped
  slash with and without one at the end, and a name spelled with an escape
  that need not be; the queries have two orders of the same and of different
  names, a pair that does not parse, alone and next to one that does, and none
  after a `?`;
- six tokens hold two titles or a form, an element and an input inside and
  outside of it, or more distinct links than the limit of two; a page of six
  is the one that meets the token limit, since the end of the page counts as a
  token;
- `MaxRecords`, `MaxAttempts`, the numbers of units and the sizes above are the
  only bounds: everything else is finite by itself;
- deadlock is checked in every run: where a system may stop, an explicit
  stuttering step (`Terminated`, `Returned`, `Ended`, `Over`) says when, and
  requests and links are followed by the next one.

## 4. The properties

*Pool.* `ResultAccountsForEveryLink`: a completed job has put every link on
exactly one side. `RequestsBounded`: checks under way are bounded by workers
times semaphore. `YoungJobsAreKept`: no sweep loses a job younger than maxAge.
`StopIsKeptPrivate`: Stop cuts checks short, and their verdicts count links as
broken; none of them gets into a link cache that other instances read.
`IndInv`: the inductive invariant, which says among others
that an unfinished job is in the channel or with one worker and never with
two. `ImplementsJobLifecycle`: the refinement. Liveness: `PendingJobsSettle`,
`StartedJobsComplete`, `StoppedPoolDrains`, `JobsAreForgotten`.

*Clients.* `SyncAnswerIsFinal`: the unlocked copy of a synchronous request is
the final status and result of one job. `ClientsInv`: a poll that finds a job
through the last Store of its worker carries its final status and result, and
a page never has more polls counted than its limit. `ShownResultAgrees`: a
displayed result contradicts no number and no link of the final one, whatever
overtook what and whatever part of a worker's writes a read saw. Liveness:
`WaitingEnds`: a synchronous request does not wait for ever, nor does a page
poll for ever, whatever becomes of the job, its pool and the polls.

*Caches.* `CacheInv`: list and map hold the same keys, the list each of them
once and in the order of their use, and Close returns only after the cleanup
goroutine has ended; `EvictsLeastRecent`,
`ImplementsLossyCache`; liveness `ExpiredEntriesLeave`, `CloseEnds`.
`PagesAreOfTheirURL`: whatever redirects led into the cache, a hit is the page
of the URL that was asked for; `KeysMatchPages`: a page that is in the cache is
found under each usual spelling of its URL. Both except escaped slashes and
unparsable queries, the second also a second slash at the end (section 6), an
empty port, a `?` without a query and escapes that need not be: these only
cost a fetch.

*Service.* `ServiceInv`: the inductive invariant, which says among others that
nothing a failed fetch or parse left is served. `CachedAgeBounded`: how stale
a served page can be. In a multi-tier deployment that is the sum of both times
to live and of the delays of a store and a backfill, and not the page TTL that
`docs/DECISIONS.md:130` names: `StaleUpToTTL` says so and is refuted.
`SharedPagesHoldNoCheck`: Redis, and a memory cache that is the only tier,
hold pages without link checks. `CompletedMeansChecked`: "completed", which is
also the default of the links collector, never stands for a check that timed
out. `TimingInv`: how long a synchronous request
takes at most, and which jobs its wait may give up on.

*Requests of links and pages.* `VerdictIsFair`: a link is blamed for refusing
only after both methods, and for the right reason unless a URL or the cause
holds a word the reason is searched by. `LinkInv`: a link is done after two
timeouts at most. `AnswerBlamesRightSide`: the status code of the REST API
tells input, page, other host and configuration apart, and success is a whole
page.

*Walk.* Each collector against a definition over the whole page:
`ResultIsOfWholePage` (which also has that a page with as many tokens as the
limit fails and leaves no result, since its end counts as one more),
`LinksAccountForPage`, `LoginFormsAreFound` (no login form is missed, however
a page nests) and `BalancedFormsAreExact` (none is invented, and none missed,
where each form is closed, holds as many start as end tags and no other form;
the rest of the page may be of any shape). Forms in forms are left out: HTML
has none, and the collector takes the first end tag for that of the outer one
or of the inner one as the depth decides. So are void and unclosed elements in
a form, where the code invents login forms (section 6).

*Server.* `GracefulAnswersAll`: a
shutdown reported as graceful cut nobody off. `ServicesOutliveHandlers`: pool
and cache go down under a handler only after the deadline or when the listener
died, and in the right order. Liveness: `ShutdownEnds`. `ActiveIsExact`: the
gauge of active requests never drifts. `AnswersAreRecorded`: everybody is
answered, and log and metrics agree. `TelemetryIsFlushed`: no exporter is left
running when the process ends, whatever failed before, and after a graceful
shutdown nothing is lost of what handlers recorded, or link checks until the
pool was stopped, unless something failed.

## 5. Fairness

- `LinkCheckPool`: goroutines are scheduled (weak fairness of each worker and
  link goroutine); a check ends since the HTTP client has a timeout; time
  passes and tickers fire. Start, Stop, Submit and the cache owe nothing. Weak
  fairness is enough although the select is random: a worker takes a step if
  any of its cases stays ready.
- `LinkCheckClients`: the timer of the page fires and a poll is answered or
  lost (`HandleGetJob` waits for nobody); time passes for a waiting request and
  its goroutine is scheduled. Of the pool nothing is assumed but that a worker
  leaves the critical section it is in: it may never be started.
- `MemoryCache`: the cleanup goroutine and the callers of Close are scheduled.
  `CleanupTick` assumes the ticker of `cleanupLoop` fires.
- `ServeCommand`: only the main goroutine, from the set-up of the telemetry to
  its flush, with the deadline of Shutdown and exporters that answer or fail;
  nothing of handlers, the listener or the operating system. The flush itself
  has no deadline (`cmd_serve.go:79`): that an exporter ends is an assumption
  about it, and `ShutdownEnds` holds only under it.
- The other modules state safety only and no fairness.

## 6. What the checks found

Each is a definition in its module whose comment says what the code or its
documentation promises, and a finding in `PROJECT.json` with the line it
contradicts. `job_api_torn` and `cache_leak` are runs. The others
are refuted by TLC too when the definition is put in the place of the
INVARIANTs of the configuration of its module, named in brackets; those of
`LinkRequest` with its own `Spec`, and the bounds of `LinkCodes`, `LinkVia` and
`LinkTimeout`.

Jobs and links:

1. `OnlyFinishedJobsCollected` (MCLinkCheckPool): `gcOldJobs` deletes by age
   alone, also jobs that wait or run; their clients get a 404 until the worker
   stores the job once more.
2. `FinishedPageShowsResult` (run `job_api_torn`): `HandleGetJob` reads a job
   without its lock. A response can say "completed" and carry no result; the
   script then stops polling and shows none.
3. `FinishedPageSaysSo` (MCLinkCheckClients): a poll overtaken by a later one
   sets the status text back after the timer is cleared.
4. `OneTimeoutPerLink` (LinkRequest): HEAD and GET have a timeout each.
5. `ReasonIsHonest` (LinkRequest): words in a URL decide the reason.
6. `FollowsUpToLimit` (LinkRequest): one redirect fewer than the limit is
   followed, here and in the fetcher.

Pages and caches:

7. `CacheExcludesLinkChecks` (run `cache_leak`): a backfill can store another
   request's job id, status and result in the memory tier.
8. `StaleUpToTTL` (MCAnalyzeService): a page copied from Redis to memory gets
   a new time to live, so it is served past the page TTL.
9. `InternalMeansOwnHost` (MCServedPage): after a redirect links are
   resolved against, and compared with, the host that was asked for.
10. `UpperBoundHonoured` (MCServedPage): the number of links is that of
   whoever filled the cache.
11. `HitsAreMarked` (MCServedPage): hits in Redis are not marked.
12. `DifferentPagesDifferentKeys` (MCServedPage): escaped slashes and
    unparsable pairs get lost in keys.
13. `TrailingSlashesAreIgnored` (MCServedPage): one of several goes.
14. `OnlyLoginFormsReported` (MCPageWalk): after an element left open
    inside a form, a password input outside every form counts as a login form.
15. `LargePagesAreTruncated` (MCRequests): they are rejected.

Requests and answers:

16. `TimeoutsAre504` (MCRequests): a timeout of the fetch is a 502.
17. `MissingProtocolIsInvalid` (MCRequests): a 502 as well.
18. `WebReportsStatus` (MCRequests): the web form answers 400 to everything.
19. `ChecksOnlyWhenAsked` (MCRequests): options without a mode start an
    asynchronous check.
20. `TimeoutIsHonoured` (MCRequests): the documented timeout is not decoded.
    Nor are `sync_check_limit` and `allow_stale`, which nothing would read.
21. `TimeoutIsOverall` (MCRequests): it bounds the wait alone.
22. `FailedChecksAreDelivered` (MCRequests): by default the wait is as
    long as the server's write timeout, so a wait that times out cannot say so.

Book-keeping:

23. `StatusLoggedIsSent` (MCRequestPipeline): a page whose template fails late
    is sent as 200 and logged as 500.
24. `EveryRequestIsLogged` (MCRequestPipeline): a panic skips the log and the
    count of requests.
25. `EnabledMetricsAreExported` (MCServeCommand): metrics without tracing go
    nowhere.
26. `CancelledChecksAreTraced` (MCServeCommand): `Stop` is not as graceful as
    its comment says: it waits for no worker, so the spans of the checks it
    cancels may end when the exporter is gone.

## 7. What is proved

For every value of the constants, under the assumptions stated in the modules
(finite sets of links, workers and connections, positive capacities and
timeouts, markers distinct from data).

**LinkCheck_proofs, the pool.** The theorems are `TypeCorrect`,
`ExclusiveServiceCorrect`, `NoJobOrphanedCorrect`, `ResultCorrect`,
`YoungJobsCorrect`, `RequestsCorrect`, `StopCorrect` and
`PoolImplementsLifecycle`. They rest on `IndInvCorrect`. None of the properties
is inductive alone: that a result is complete needs the counters to agree with
the goroutines that have reported (`TaskInv`), which needs a job's goroutines
to exist only while one worker serves it (`ServiceInv`, `ExclusiveService`),
which needs the channel to hold distinct pending jobs (`QueueInv`); `ResultInv`
carries the counters over to the published result. The proof has a lemma per
conjunct and a step per action. The counters are compared with the cardinality
of a set of links, which a report enlarges by one (`SameTally`, `TaskStep`).
`YoungJobsCorrect` needs only that a sweep visits old jobs (`KeepInv`). For
`RequestsCorrect` the checks of one job hold different slots (`SlotsInv`) and
only jobs that are served have any, so the checks under way number at most the
pairs of a worker and a slot. `StopCorrect` needs that neither a goroutine nor
the cache, which feeds other goroutines, holds the verdict of a check cut short
before Stop (`CutShortInv`). The refinement (`LifecycleStep`) maps the first
critical section of `processJob` to `Begin`, the second to `Complete` with the
links whose verdict is not ok, Submit to `Queue` or `Reject`, and every other
action to a stutter.

**LinkCheck_proofs, its clients.** They build on the invariant of the pool,
which holds under the clients because they change nothing of it but by Submit
(`PoolUnderClients`). Three facts about the pool carry everything: a finished
job has a result and keeps it (`FinishedHasResult`, `FinishedStays`); the
outcome of a job is decided when its worker takes the lock to publish it, and
stays (`FinalizingEnds`, `OutcomeStays`); and so what an unlocked read may have
seen of it agrees with it ever after. Hence `SyncAnswerCorrect`;
`ClientsInvCorrect`, by what each poll under way has read so far (`PollOK`) and
what each page has sent (`PagesInv`); and `ShownCorrect`, since a page displays
what a poll read.

**AnalyzeService_proofs.** `ServiceInvCorrect`, and from it `AgeCorrect`,
`SharedPagesCorrect`, `WalkedCorrect` and `HonestCorrect`. The age of a served
page is bounded because a page is at most `Lag` old when it is stored, so that
in L2 its age and what it has left to live never exceed `TTL + Lag`, a backfill
carries a page no older than that and the time it has been waiting, and the
same sum bounds what it stores in L1 (`TiersInv`, `FillingInv`); what is stored
has no link check because a result gets one only after both stores
(`RequestInv`), and only L1 can be filled with an object that has been given
one since.

**MemoryCache_proofs.** `CacheImplementsContract` maps Set to `Set`, a Get to
`Hit` or `MissOn`, and evictions, cleanups and time to losses and to the
passing of time. It needs nothing of the list: Set evicts before it inserts,
so the entry it stores is there whatever the list says, and any entry it drops
may be lost. `CacheInvCorrect` is about the list: it has the keys of the map,
each once, and for two places the key in front was used later (`newer`). What
a removal leaves is what the list was without some keys, in the same order
(`WithoutKeeps`, an induction over the places of the list); to put a key in
front (`Pushed`), to remove (`Removed`) and to evict (`Evicted`) keep the
invariant. Since the order of the list is that of use, its last key is the
least recent, hence `EvictionCorrect`. `CloseCorrect` rests on the state of
the cleanup goroutine alone.

**ServedPage_proofs.** Two plain URLs of one key are spellings of one
page (`OneKeyOnePage`), and two usual spellings of one page have one key
(`OnePageOneKey`). That is a matter of
the normal form of paths, which takes one slash from the end or nothing
(`TakenAway`), of authorities and of the multiset of pairs that stands for a
sorted query. With it, that a cached entry is under the key of the page it
holds is inductive, and gives `HitsAreOfTheirURL` and `NoPageIsFetchedTwice`
for URLs of any length.

**PageWalk_proofs.** Each collector has an invariant about the tokens fed so
far, and a lemma that one more token keeps it (`TitleFed`, `VersionFed`,
`HeadingsFed`, `LoginInvFed`, `BalanceFed`, `LinksFed`); a walk that is done has
fed the whole page (`WalkInv`). Title and version are those of the first place
that has one. The links seen are the URLs whose first place was fed, so a new
URL is to be kept exactly if fewer than `MaxLinks` were seen (`SeenNext`), and
both lists together are as long as the smaller of the two numbers: hence
`LinksAreTheFirst`. `NoLoginFormIsMissed`: while a form is open, `inForm` is
set, whatever the depth. For `BalancedFormsExact` the collector's depth is kept
equal to the count of start tags less that of end tags (`DepthNext`), the form
it is in is the last one that began (`LastFormStays`), and since that one holds
as many start as end tags its depth is reached again by its own end tag
(`NextTagEndsForm`), whatever the elements in it do in between.

**MCRequests_proofs.** `RequestInvCorrect` and `AnswerCorrect`: where the
fetch is, how many requests it has made and what failed belong together, and
the status code is a function of them. `TimedImplementsAnalysis`: the analysis
inside a timed request is one of `AnalyzeRequest`, so what is proved of that
holds of it. `TimingInvCorrect` takes the time of the fetch from there; the
rest of `TimingInv` is inductive. `LinkInvCorrect` (time spent and time left of
the call under way stay within one timeout per method) and `VerdictCorrect` are
about `LinkRequest` alone, and `UsersAreApart` shows that both users of the
client, side by side, behave as they do alone; so `LinksAreBounded` and
`LinksAreBlamedFairly` hold of what the run `requests` checks.

**RequestPipeline_proofs.** `GaugeCorrect`: the gauge is the cardinality of the
set of requests inside handlers, which each step changes by at most one
element. `RecordsCorrect`: for each place in the pipeline, what sent, seen,
counted and logged status can be.

**ServerLifecycle_proofs.** `LifecycleInvCorrect`, and from it
`GracefulCorrect` and `ServicesCorrect`, for any number of requests: where the
main goroutine is decides which services are up and whether an outcome is
known, and a graceful outcome leaves no handler that the end of the process
could cut. `CommandImplementsLifecycle` shows that the serve command with its
telemetry is a `ServerLifecycle` with steps in between, and `CommandCorrect`
carries both properties over to it. `FlushCorrect` needs in addition that the
providers come up and go down with the program counter (`PhasesInv`), that an
exporter that is gone has exported what it was given unless something failed
(`ExportersInv`), and that whoever is late after a graceful shutdown was
cancelled (`LateInv`).

*Induction over data.* The library's induction theorems take an operator as a
parameter, which the installed provers cannot instantiate. Where a proof needs
one (the list of the memory cache), it is first order: a set of numbers has a
least element (`NatLeast`, from the well-foundedness of `<`), so a set that has
0 and with n also n + 1 has all of them (`Induction`), and a recursive function
over `0..n` exists (`Recursion`). Elsewhere definitions by sets of places, a
first place or a pairing take the place of folds, and the induction is that of
the behaviour.

Only model-checked: the eight liveness properties, since they rest on fairness
and with it on ENABLED, which the proof system cannot do. Every safety
property and every refinement that a passing run checks is a theorem.

## 8. What is not modelled

- Formatting, templates, JSON, the text of logs and the attributes of spans,
  and the headers a link request sends: no branch depends on them.
- Request ids. `router.go:20` says "Log with request ID", but
  `LoggerWithContext` has no caller, so no line carries one.
- Metrics of caches, links and analyses (`RecordCacheHit`, `RecordCacheMiss`,
  `RecordLinksChecked`, `RecordAnalysisDuration`): nothing calls them.
- Redis itself: a tier that loses entries and may fail.
- The single-link side of `MultiCache`: the same code shape as the page side;
  the pool's `cached` is nondeterministic enough to include it.
- The sorting of links in `renderResult` while a backfill serialises them:
  both happen inside library calls, and what a torn read of a slice holds is
  not about any promise the code makes beyond `SharedPagesHoldNoCheck`.
- `Registry.List`, `Registry.Has`, `MultiCache` statistics and other code
  without callers.
- Configuration: values read once, without checks, that are constants here.
- A second Start or Stop, and the crash of the process: nothing is persisted
  but Redis entries, which are written whole.
- `JobWorkers`, which the code does not use (the semaphore is 10).

## 9. Plan

Done: (1) pool and life cycle of jobs, (2) clients, (3) memory cache and
cache contract, (4) service over the multi-tier cache, (5) walker and
collectors, (6) server, (7) proofs about pool and server, (8) link request,
fetcher and the answers of the handlers over one model of the HTTP client,
(9) middleware, time of requests, telemetry, (10) keys and contents of the
cache, (11) proofs about service, memory cache and the modules of (8) and (9),
(12) proofs about the clients of jobs, the bound on checks and the telemetry,
(13) proofs about the LRU list, the keys and contents of the page cache, and
the walker with its collectors.

Left: the single-link tiers of the cache are worth a module of their own only
when they stop having the shape of the page tiers. Liveness stays with TLC.
