---------------------------- MODULE AnalyzeRequest ----------------------------
(***************************************************************************)
(* One analysis as its clients see it: what the REST handler, the web form *)
(* and the command line make of their input, and what they answer.  The    *)
(* fetch in between is PageFetch; what concurrent analyses do to each      *)
(* other and to the caches is AnalyzeService.                              *)
(***************************************************************************)
EXTENDS PageFetch, Integers

CONSTANTS
    MaxLinks,  \* values of the option for the number of links
    Default    \* DefaultOptions().MaxLinks

ASSUME LinksAssumption == MaxLinks \subseteq Int /\ Default \in Nat \ {0}

VARIABLES
    client,  \* who asks: "none", "rest", "web" or "cli"
    url,     \* the URL of the analysis request
    asked,   \* history: the options as they were given
    mode,    \* Options.CheckLinks of the analysis request
    limit,   \* Options.MaxLinks of the analysis request
    wait,    \* Options.Timeout of the analysis request
    answer,  \* the status code answered, Exit or Unanswered
    known    \* whether all the configured collectors are registered

requestVars == <<client, url, asked, mode, limit, wait, known>>
vars == <<fetchVars, requestVars, answer>>

Unanswered == 0

\* How the command line fails; it has no status codes.
Exit == 1

\* The fields of a request's options; "" and 0 are absent or left empty.
Given == [check : {"", "sync", "async", "disabled", "other"},
          max : MaxLinks \cup {0},
          timeout : {"", "1m"}]

NoOptions == [check |-> "none", max |-> 0, timeout |-> ""]

Modes == {"sync", "async", "disabled"}

TypeOK ==
    /\ client \in {"none", "rest", "web", "cli"}
    /\ url \in URLs
    /\ asked \in Given \cup {NoOptions}
    /\ mode \in Modes
    /\ limit \in MaxLinks \cup {0, Default}
    /\ wait \in {"30s", "5s"}
    /\ answer \in {Unanswered, Exit, 200, 400, 422, 500, 502, 504}
    /\ known \in BOOLEAN

\* DefaultOptions.
Init ==
    /\ FetchInit
    /\ client = "none" /\ url = "empty" /\ asked = NoOptions
    /\ mode = "async" /\ limit = Default /\ wait = "30s"
    /\ answer = Unanswered
    /\ known \in BOOLEAN
-----------------------------------------------------------------------------
(* Decoding *)

\* The REST body is no JSON, the form does not parse, or the URL is blank.
Reject(c) ==
    /\ client = "none"
    /\ client' = c
    /\ answer' = 400
    /\ UNCHANGED <<fetchVars, url, asked, mode, limit, wait, known>>

Request(c, u, o, m, l, w) ==
    /\ client = "none"
    /\ client' = c /\ url' = u /\ asked' = o
    /\ mode' = m /\ limit' = l /\ wait' = w
    /\ UNCHANGED <<fetchVars, answer, known>>

\* Only a positive number replaces the default.
Positive(max) == IF max > 0 THEN max ELSE Default

RestMode(o) ==
    IF o = NoOptions THEN "disabled"
    ELSE IF o.check \in Modes THEN o.check ELSE "async"

\* Variant: a blank URL is left to the fetcher.
RestAnalyzesAny ==
    \E o \in Given \cup {NoOptions}, u \in URLs :
        Request("rest", u, o, RestMode(o), Positive(o.max), "30s")

\* The decoded options have no field for a timeout.
RestAnalyzes ==
    \E o \in Given \cup {NoOptions}, u \in URLs \ {"empty"} :
        Request("rest", u, o, RestMode(o), Positive(o.max), "30s")

\* The form has a box to tick and a number that need not be one.
WebAnalyzes ==
    \E o \in Given, u \in URLs \ {"empty"} :
        /\ o.check \in {"", "async"} /\ o.timeout = ""
        /\ Request("web", u, o, IF o.check = "async" THEN "async" ELSE "disabled",
                   Positive(o.max), "30s")

\* The number of links is passed on as it is given, and the timeout of one
\* link is the timeout of the wait.
CliAnalyzes ==
    \E o \in Given, u \in URLs :
        /\ o.check \in {"", "sync"} /\ o.timeout = ""
        /\ Request("cli", u, o, IF o.check = "sync" THEN "sync" ELSE "disabled", o.max, "5s")
-----------------------------------------------------------------------------
(* The analysis and the answer *)

Asking == client # "none" /\ answer = Unanswered

\* A page in the cache needs no fetch; a command line's cache is its own.
CacheHit ==
    /\ Asking /\ at = "idle"
    /\ client # "cli"
    /\ url = "fine"
    /\ answer' = 200
    /\ UNCHANGED <<fetchVars, requestVars>>

CacheMiss == Asking /\ Fetch(url) /\ UNCHANGED <<requestVars, answer>>

\* The status code of an error: its own for REST, one for all for the web.
Reported(status) ==
    CASE client = "rest" -> status
      [] client = "web"  -> 400
      [] client = "cli"  -> Exit

FetchFailed ==
    /\ Asking /\ at = "done"
    /\ fault # "none"
    /\ answer' = Reported(StatusOf(fault))
    /\ UNCHANGED <<fetchVars, requestVars>>

Fetched == Asking /\ at = "done" /\ fault = "none"

\* A name from the environment that the registry does not know is found out
\* when the page is there: a plain error, of every request.
BuildFails ==
    /\ Fetched /\ ~known
    /\ answer' = Reported(500)
    /\ UNCHANGED <<fetchVars, requestVars>>

\* The walk fails on a page of too many tokens: ErrParsingFailed.
Walked ==
    /\ Fetched /\ known
    /\ answer' \in {200, Reported(422)}
    /\ UNCHANGED <<fetchVars, requestVars>>

Fetching == FetchNext /\ UNCHANGED <<requestVars, answer>>

\* The client has its answer; the next request is decoded anew.
NextRequest ==
    /\ answer # Unanswered
    /\ call' = "none" /\ code' = 0 /\ via' = 0 /\ left' = 0
    /\ at' = "idle" /\ size' = 0 /\ body' = 0 /\ fault' = "none" /\ spent' = 0
    /\ client' = "none" /\ url' = "empty" /\ asked' = NoOptions
    /\ mode' = "async" /\ limit' = Default /\ wait' = "30s"
    /\ answer' = Unanswered
    /\ UNCHANGED known

Next ==
    \/ Reject("rest") \/ Reject("web")
    \/ RestAnalyzes \/ WebAnalyzes \/ CliAnalyzes
    \/ CacheHit \/ CacheMiss \/ Fetching \/ FetchFailed \/ BuildFails \/ Walked
    \/ NextRequest

Spec == Init /\ [][Next]_vars
-----------------------------------------------------------------------------
(***************************************************************************)
(* What a request is, where its fetch is and what was answered belong      *)
(* together: nothing is answered while a fetch goes on, and only the       *)
(* command line lets a blank URL or a limit of no links through.           *)
(***************************************************************************)
RequestInv ==
    /\ TypeOK
    /\ FetchInv
    /\ client = "none" => at = "idle" /\ answer = Unanswered
    /\ at # "idle" => client # "none" /\ (fault = "empty" => url = "empty")
    /\ answer # Unanswered => at \in {"idle", "done"}
    /\ client # "cli" => limit > 0
    /\ client \in {"rest", "web"} /\ url = "empty" => at = "idle" /\ answer = 400

(***************************************************************************)
(* The status code of the REST API says on whose side an analysis failed:  *)
(* 400 only for input that made nothing leave the process, 422 for a page  *)
(* that arrived whole, 502 or 504 for everything about the other host, and *)
(* 500 only for collectors that nobody registered; whoever asks, success   *)
(* means a whole page or a cached one.                                     *)
(* (HandleAnalyze, Fetch, StatusCode, fetchAndAnalyze)                     *)
(***************************************************************************)
AnswerBlamesRightSide ==
    /\ client = "rest" =>
          /\ answer = 400 => via = 0
          /\ answer = 422 => via > 0 /\ fault = "none"
          /\ answer \in {502, 504} => fault # "none"
          /\ answer = 500 => ~known /\ fault = "none"
    /\ answer = 200 => at = "idle" \/ (at = "done" /\ fault = "none" /\ body = size)

(***************************************************************************)
(* Violated: an AnalysisError holds its status code "for proper error      *)
(* reporting" (errors.go:23); the web form answers 400 to all of them.     *)
(***************************************************************************)
WebReportsStatus ==
    client = "web" /\ at = "done" /\ fault # "none" /\ answer # Unanswered =>
        answer = StatusOf(fault)

(***************************************************************************)
(* Violated: openapi.yaml:95 answers a URL without a protocol with 400.    *)
(* Nothing checks the protocol before the client fails to send: 502.       *)
(***************************************************************************)
MissingProtocolIsInvalid ==
    client = "rest" /\ url = "no protocol" /\ answer # Unanswered => answer = 400

(***************************************************************************)
(* Violated: the default of check_links is disabled (openapi.yaml:192).    *)
(* Options without it ask for an asynchronous check.                       *)
(***************************************************************************)
ChecksOnlyWhenAsked ==
    client = "rest" /\ asked.check \in {"none", ""} => mode = "disabled"

(***************************************************************************)
(* Violated: openapi.yaml:209 offers a timeout for the synchronous check.  *)
(* The REST handler decodes no such option.                                *)
(***************************************************************************)
TimeoutIsHonoured ==
    client = "rest" /\ asked.timeout # "" => wait = asked.timeout
=============================================================================
