----------------------------- MODULE ServeCommand -----------------------------
(***************************************************************************)
(* The serve command with its telemetry: runServe sets the providers up    *)
(* before it creates the services, and the call that was deferred first,   *)
(* otelShutdown, runs last, when handlers that a shutdown left behind may  *)
(* still end spans.                                                        *)
(***************************************************************************)
EXTENDS ServerLifecycle

CONSTANT MaxRecords  \* spans and points recorded in a run (a bound)

VARIABLES
    tracing, metrics, telemetry, provider, shutdown, instruments, recorded, exported, late, broken

T == INSTANCE Telemetry WITH at <- telemetry

telemetryVars ==
    <<tracing, metrics, telemetry, provider, shutdown, instruments, recorded, exported, late,
      broken>>
allVars == <<vars, telemetryVars>>

ServeInit == Init /\ T!Init

SetUp ==
    /\ main = "creating"
    /\ T!NewResource \/ T!initTracing \/ T!initMetrics \/ T!NewMetrics
    /\ UNCHANGED vars

\* Nothing is created before the telemetry is there or given up, and the
\* process does not end before it is flushed.
MainGoesOn ==
    /\ main = "creating" => telemetry = "serving"
    /\ main = "flush" => telemetry = "exited"
    /\ MainStep
    /\ UNCHANGED telemetryVars

\* Variant: the telemetry is shut down with the services still at work.
FlushEarly ==
    /\ main \in {"stop", "close", "flush"}
    /\ T!Stop \/ T!ShutDownMeter \/ T!ShutDownTracer
    /\ UNCHANGED vars

Flush ==
    /\ main = "flush"
    /\ T!Stop \/ T!ShutDownMeter \/ T!ShutDownTracer
    /\ UNCHANGED vars

MainThread == SetUp \/ MainGoesOn \/ Flush

Others ==
    /\ \/ Signal \/ Listen \/ ServeFails
       \/ \E r \in Requests : Connect(r) \/ Begin(r) \/ Answer(r)
    /\ UNCHANGED telemetryVars

\* A request ends its spans, and is counted, before its handler returns.
RecordRequest(p) ==
    /\ Alive
    /\ InFlight # {}
    /\ T!Record(p, "handler")
    /\ UNCHANGED vars

\* A job that a request has left to the link checker has spans of its own.
\* Stop cancels its checks and waits for none, so they may end at any time.
RecordJob ==
    /\ Alive
    /\ \E r \in Requests : handler[r] = "answered"
    /\ T!Record("tracer", IF "pool" \in services THEN "checker" ELSE "cancelled")
    /\ UNCHANGED vars

ExportTick(p) == Alive /\ T!ExportTick(p) /\ UNCHANGED vars

Over == ~Alive /\ UNCHANGED allVars

ServeNext ==
    \/ SetUp \/ MainGoesOn \/ Flush \/ Others \/ RecordJob \/ Over
    \/ \E p \in {"tracer", "meter"} : RecordRequest(p) \/ ExportTick(p)

ServeSpec == ServeInit /\ [][ServeNext]_allVars

\* The main goroutine is scheduled, the context of Shutdown has a deadline and
\* an exporter answers or fails.  Nothing is assumed of handlers, the listener
\* or the operating system.
ServeFairSpec == ServeSpec /\ WF_allVars(MainThread)
-----------------------------------------------------------------------------
(***************************************************************************)
(* Whatever step of the set-up fails and however the server comes down, no *)
(* exporter is left running when the process ends; and unless something    *)
(* failed, a graceful shutdown loses nothing that requests recorded, nor   *)
(* what the link checker did before it was stopped (runServe's deferred    *)
(* calls and their order, InitOTEL).                                       *)
(***************************************************************************)
TelemetryIsFlushed ==
    main = "exited" => \A p \in {"tracer", "meter"} :
        /\ provider[p] # "active"
        /\ outcome = "graceful" /\ ~broken =>
              exported[p] = recorded[p] /\ late \subseteq {"cancelled"}

(***************************************************************************)
(* Violated: "Stop gracefully shuts down the worker pool"                  *)
(* (linkchecker_pool.go:106).  It does not wait for the workers, so the    *)
(* checks it cancels end their spans when the exporter may be gone.        *)
(***************************************************************************)
CancelledChecksAreTraced ==
    main = "exited" /\ outcome = "graceful" /\ ~broken => late = {}

(***************************************************************************)
(* Violated: MetricsEnabled is "Enable OpenTelemetry metrics"              *)
(* (config.go:108).  The meter provider is built only if tracing is on:    *)
(* without it the instruments record into nothing.                         *)
(***************************************************************************)
EnabledMetricsAreExported ==
    telemetry = "serving" /\ instruments /\ ~broken => provider["meter"] = "active"
=============================================================================
