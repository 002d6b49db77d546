------------------------------ MODULE Telemetry ------------------------------
(***************************************************************************)
(* The telemetry of the serve command (internal/observability/otel.go and  *)
(* metrics.go, cmd_serve.go): InitOTEL builds a tracer and a meter         *)
(* provider, each step of which may fail; the server goes on without the   *)
(* ones it has not got, and shuts down the ones it has when it ends.       *)
(*                                                                         *)
(* The providers are OpenTelemetry's: an active one keeps what it is given *)
(* and exports it now and then and when it is shut down.  An export that   *)
(* fails loses what it had.  When a step may happen is up to ServeCommand. *)
(***************************************************************************)
EXTENDS Naturals

CONSTANT MaxRecords  \* spans and points recorded in a run (a bound)

Providers == {"tracer", "meter"}

VARIABLES
    tracing, metrics,  \* Observability.TracingEnabled and .MetricsEnabled
    at,           \* where the main goroutine is
    provider,     \* provider[p]: "none", "active" or "shut"
    shutdown,     \* otelShutdown: "nil", "noop" or "both"
    instruments,  \* the server was given a Metrics
    recorded, exported,  \* per provider, what it was given and what got out
    late,         \* history: whose spans and points came when the provider was shut
    broken        \* history: an initialisation or an export has failed

config == <<tracing, metrics>>
records == <<recorded, exported, late>>

Init ==
    /\ tracing \in BOOLEAN /\ metrics \in BOOLEAN
    /\ at = "resource"
    /\ provider = [p \in Providers |-> "none"]
    /\ shutdown = "nil" /\ instruments = FALSE
    /\ recorded = [p \in Providers |-> 0] /\ exported = [p \in Providers |-> 0]
    /\ late = {}
    /\ broken = FALSE

\* A provider exports what it has, or fails to.
Export(p) ==
    \/ exported' = [exported EXCEPT ![p] = recorded[p]] /\ UNCHANGED broken
    \/ exported[p] # recorded[p] /\ broken' = TRUE /\ UNCHANGED exported
-----------------------------------------------------------------------------
(* InitOTEL *)

InitFails ==
    /\ at' = "instruments" /\ broken' = TRUE
    /\ UNCHANGED <<config, shutdown, instruments, records>>

\* Without tracing there is nothing to do; metrics are not looked at.
NewResource ==
    /\ at = "resource"
    /\ \/ /\ ~tracing
          /\ at' = "instruments" /\ shutdown' = "noop"
          /\ UNCHANGED <<config, provider, instruments, records, broken>>
       \/ /\ tracing
          /\ at' = "tracing"
          /\ UNCHANGED <<config, provider, shutdown, instruments, records, broken>>
       \/ tracing /\ InitFails /\ UNCHANGED provider

initTracing ==
    /\ at = "tracing"
    /\ \/ /\ at' = "metrics"
          /\ provider' = [provider EXCEPT !["tracer"] = "active"]
          /\ UNCHANGED <<config, shutdown, instruments, records, broken>>
       \/ InitFails /\ UNCHANGED provider

initMetrics ==
    /\ at = "metrics"
    /\ \/ /\ at' = "instruments"
          /\ provider' = [provider EXCEPT !["meter"] = "active"]
          /\ shutdown' = "both"
          /\ UNCHANGED <<config, instruments, records, broken>>
       \/ InitFails /\ provider' = [provider EXCEPT !["tracer"] = "shut"]
-----------------------------------------------------------------------------
\* NewMetrics, on whatever meter provider there is; it may fail.
NewMetrics ==
    /\ at = "instruments"
    /\ at' = "serving"
    /\ \/ metrics /\ instruments' = TRUE /\ UNCHANGED broken
       \/ metrics /\ broken' = TRUE /\ UNCHANGED instruments
       \/ ~metrics /\ UNCHANGED <<instruments, broken>>
    /\ UNCHANGED <<config, provider, shutdown, records>>

\* Something at work ends a span or counts something; a provider that is shut
\* down drops what it is given.
Record(p, who) ==
    /\ at \in {"serving", "meter", "tracer", "exited"}
    /\ p = "meter" => instruments
    /\ \/ /\ provider[p] = "active" /\ recorded[p] < MaxRecords
          /\ recorded' = [recorded EXCEPT ![p] = @ + 1]
          /\ UNCHANGED late
       \/ /\ provider[p] = "shut"
          /\ late' = late \cup {who}
          /\ UNCHANGED recorded
    /\ UNCHANGED <<config, at, provider, shutdown, instruments, exported, broken>>

ExportTick(p) ==
    /\ at \in {"serving", "meter", "tracer"}
    /\ provider[p] = "active"
    /\ Export(p)
    /\ UNCHANGED <<config, at, provider, shutdown, instruments, recorded, late>>

\* The deferred otelShutdown, the last of the deferred calls.
Stop ==
    /\ at = "serving"
    /\ at' = IF shutdown = "both" THEN "meter" ELSE "exited"
    /\ UNCHANGED <<config, provider, shutdown, instruments, records, broken>>

ShutDown(p, next) ==
    /\ at = p
    /\ Export(p)
    /\ provider' = [provider EXCEPT ![p] = "shut"]
    /\ at' = next
    /\ UNCHANGED <<config, shutdown, instruments, recorded, late>>

\* An error of the meter is kept, and the tracer is shut down all the same.
ShutDownMeter == ShutDown("meter", "tracer")
ShutDownTracer == ShutDown("tracer", "exited")
=============================================================================
