---------------------------- MODULE RequestPipeline ----------------------------
(***************************************************************************)
(* The way of HTTP requests through the middleware (internal/server):      *)
(* Recovery, RequestID, Logger, CORS, Metrics and the handlers, and back.  *)
(* What is at stake is the book-keeping: which status is sent, which one   *)
(* is logged and counted, and the gauge of active requests, when handlers  *)
(* fail in the middle of an answer or panic.                               *)
(***************************************************************************)
EXTENDS Integers, FiniteSets

CONSTANTS
    Requests,  \* connections, each of which carries one request at a time
    Codes      \* the status codes that handlers choose

ASSUME RequestsAssumption == IsFiniteSet(Requests)
ASSUME CodesAssumption == {400, 404, 500} \subseteq Codes /\ Codes \subseteq Nat \ {0}

VARIABLES
    metricsOn,  \* whether the router uses the Metrics middleware
    at,         \* how far each request has come
    wire,       \* the status that net/http has sent, 0 before
    seen,       \* the statusCode of the wrappers of Logger and Metrics
    begun,      \* whether the handler has written a header or a body
    logged,     \* the status in the request's line of the log, 0 without one
    counted,    \* the status the metrics have recorded, 0 without one
    active      \* the gauge httpActiveRequests

vars == <<metricsOn, at, wire, seen, begun, logged, counted, active>>

Places == {"idle", "cors", "metrics", "handler", "template", "returned",
           "unwinding", "panicked", "recovering", "done"}

TypeOK ==
    /\ metricsOn \in BOOLEAN
    /\ at \in [Requests -> Places]
    /\ wire \in [Requests -> Codes \cup {0, 200}]
    /\ seen \in [Requests -> Codes \cup {200}]
    /\ begun \in [Requests -> BOOLEAN]
    /\ logged \in [Requests -> Codes \cup {0, 200}]
    /\ counted \in [Requests -> Codes \cup {0, 200}]
    /\ active \in Int

Init ==
    /\ metricsOn \in BOOLEAN
    /\ at = [r \in Requests |-> "idle"]
    /\ wire = [r \in Requests |-> 0]
    /\ seen = [r \in Requests |-> 200]
    /\ begun = [r \in Requests |-> FALSE]
    /\ logged = [r \in Requests |-> 0]
    /\ counted = [r \in Requests |-> 0]
    /\ active = 0
-----------------------------------------------------------------------------
(* The response writers *)

Go(r, from, to) == at[r] = from /\ at' = [at EXCEPT ![r] = to]

\* net/http sends the first status and ignores later ones.
Send(r, code) == wire' = [wire EXCEPT ![r] = IF @ = 0 THEN code ELSE @]

\* Variant: a wrapper passes the status on and does not keep it.
WriteHeaderUnseen(r, code) ==
    Send(r, code) /\ begun' = [begun EXCEPT ![r] = TRUE] /\ UNCHANGED seen

\* Both wrappers keep the last status that is written through them.
WriteHeader(r, code) ==
    /\ Send(r, code)
    /\ seen' = [seen EXCEPT ![r] = code]
    /\ begun' = [begun EXCEPT ![r] = TRUE]

\* Write is not wrapped: the 200 it implies is sent past the wrappers.
Write(r) ==
    /\ Send(r, 200)
    /\ begun' = [begun EXCEPT ![r] = TRUE]
    /\ UNCHANGED seen

books == <<logged, counted, active, metricsOn>>
writers == <<wire, seen, begun>>
-----------------------------------------------------------------------------
(* On the way in *)

\* Recovery, RequestID and Logger, which wraps the writer; the connection
\* may have carried a request before.
Arrive(r) ==
    /\ at[r] \in {"idle", "done"}
    /\ at' = [at EXCEPT ![r] = "cors"]
    /\ wire' = [wire EXCEPT ![r] = 0]
    /\ seen' = [seen EXCEPT ![r] = 200]
    /\ begun' = [begun EXCEPT ![r] = FALSE]
    /\ logged' = [logged EXCEPT ![r] = 0]
    /\ counted' = [counted EXCEPT ![r] = 0]
    /\ UNCHANGED <<active, metricsOn>>

\* OPTIONS ends in CORS.
Preflight(r) ==
    /\ Go(r, "cors", "unwinding")
    /\ WriteHeader(r, 200)
    /\ UNCHANGED books

PassCORS(r) ==
    /\ Go(r, "cors", IF metricsOn THEN "metrics" ELSE "handler")
    /\ UNCHANGED <<writers, books>>

EnterMetrics(r) ==
    /\ Go(r, "metrics", "handler")
    /\ active' = active + 1
    /\ UNCHANGED <<writers, logged, counted, metricsOn>>
-----------------------------------------------------------------------------
(* The handlers *)

\* respondJSON, the file server and chi's own answers.
Respond(r) ==
    /\ Go(r, "handler", "returned")
    /\ \E code \in Codes \cup {200} : WriteHeader(r, code)
    /\ UNCHANGED books

\* HandleIndex and renderResult: the template writes as it goes.
RenderPage(r) ==
    /\ Go(r, "handler", "template")
    /\ Write(r)
    /\ UNCHANGED books

\* renderError and Handle404.
RenderError(r) ==
    /\ Go(r, "handler", "template")
    /\ \E code \in {400, 404} : WriteHeader(r, code)
    /\ UNCHANGED books

TemplateEnds(r) == Go(r, "template", "returned") /\ UNCHANGED <<writers, books>>

\* http.Error: 500, or 404 from Handle404, after whatever was written.
TemplateFails(r) ==
    /\ at[r] \in {"handler", "template"}
    /\ at' = [at EXCEPT ![r] = "returned"]
    /\ \E code \in {404, 500} : WriteHeader(r, code)
    /\ UNCHANGED books

\* Anywhere in a handler.
Panic(r) ==
    /\ at[r] \in {"handler", "template"}
    /\ at' = [at EXCEPT ![r] = "panicked"]
    /\ UNCHANGED <<writers, books>>
-----------------------------------------------------------------------------
(* On the way out *)

LeaveMetrics(r) ==
    /\ Go(r, "returned", "unwinding")
    /\ counted' = IF metricsOn THEN [counted EXCEPT ![r] = seen[r]] ELSE counted
    /\ active' = IF metricsOn THEN active - 1 ELSE active
    /\ UNCHANGED <<writers, logged, metricsOn>>

Log(r) ==
    /\ Go(r, "unwinding", "done")
    /\ logged' = [logged EXCEPT ![r] = seen[r]]
    /\ UNCHANGED <<writers, counted, active, metricsOn>>

\* Variant: the gauge is decremented after the handler, not by a defer.
UnwindWithoutDefer(r) == Go(r, "panicked", "recovering") /\ UNCHANGED <<writers, books>>

\* Of Metrics a panic leaves the deferred decrement.
Unwind(r) ==
    /\ Go(r, "panicked", "recovering")
    /\ active' = IF metricsOn THEN active - 1 ELSE active
    /\ UNCHANGED <<writers, logged, counted, metricsOn>>

\* Recovery has the writer of net/http, not the wrappers.
Recover(r) ==
    /\ Go(r, "recovering", "done")
    /\ Send(r, 500)
    /\ UNCHANGED <<seen, begun, books>>

Next ==
    \E r \in Requests :
        \/ Arrive(r) \/ Preflight(r) \/ PassCORS(r) \/ EnterMetrics(r)
        \/ Respond(r) \/ RenderPage(r) \/ RenderError(r) \/ TemplateEnds(r) \/ TemplateFails(r)
        \/ Panic(r) \/ LeaveMetrics(r) \/ Log(r) \/ Unwind(r) \/ Recover(r)

Spec == Init /\ [][Next]_vars
-----------------------------------------------------------------------------
\* Requests between the increment of the gauge and its decrement.
Inside == {r \in Requests : metricsOn /\ at[r] \in {"handler", "template", "returned", "panicked"}}

(***************************************************************************)
(* The gauge counts the requests that handlers work on, exactly, through   *)
(* every interleaving of answers and panics: it neither drifts nor goes    *)
(* below zero (Metrics, IncActiveRequests, DecActiveRequests).             *)
(***************************************************************************)
ActiveIsExact == TypeOK /\ active = Cardinality(Inside)

(***************************************************************************)
(* Every request gets an answer, a panic before the first byte a 500; and  *)
(* what is logged and counted of a request agrees, and is what was sent    *)
(* unless the handler wrote a second header after a first one failed to    *)
(* finish (responseWriter, Logger, Metrics, Recovery).                     *)
(***************************************************************************)
AnswersAreRecorded ==
    \A r \in Requests : at[r] = "done" =>
        /\ wire[r] # 0
        /\ ~begun[r] => wire[r] = 500 /\ logged[r] = 0
        /\ logged[r] # 0 => counted[r] \in {0, logged[r]}
        /\ logged[r] \notin {0, wire[r]} => logged[r] \in {404, 500}

(***************************************************************************)
(* Violated: "Wrap ResponseWriter to capture status code" (middleware.go:  *)
(* 17).  A page whose template fails half way was sent as 200 and is       *)
(* logged and counted as 500.                                              *)
(***************************************************************************)
StatusLoggedIsSent ==
    \A r \in Requests : at[r] = "done" /\ logged[r] # 0 => logged[r] = wire[r]

(***************************************************************************)
(* Violated: "Logger middleware logs HTTP requests" (middleware.go:11). A  *)
(* request whose handler panics has no line in the log and no count.       *)
(***************************************************************************)
EveryRequestIsLogged ==
    \A r \in Requests : at[r] = "done" => logged[r] # 0
=============================================================================
