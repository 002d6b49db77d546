------------------------ MODULE ServerLifecycle_proofs ------------------------
(***************************************************************************)
(* Theorems about ServerLifecycle for any number of requests: what a       *)
(* graceful shutdown owes them, and the order in which services go down.   *)
(***************************************************************************)
EXTENDS ServeCommand, TLAPS

LEMMA LifecycleInit == Init => LifecycleInv
  BY DEF Init, LifecycleInv, TypeOK, Mains, InFlight

\* The steps of the main goroutine.
LEMMA MainStepKeepsInv == LifecycleInv /\ MainStep => LifecycleInv'
<1> SUFFICES ASSUME LifecycleInv, MainStep PROVE LifecycleInv'
  OBVIOUS
<1> USE DEF LifecycleInv, TypeOK, Mains, InFlight, Goto, serverVars
<1>1. CASE CreateServices
  BY <1>1 DEF CreateServices
<1>2. CASE NoWebHandler
  BY <1>2 DEF NoWebHandler
<1>3. CASE SpawnServer
  BY <1>3 DEF SpawnServer
<1>4. CASE Notify
  BY <1>4 DEF Notify
<1>5. CASE Select
  BY <1>5 DEF Select
<1>6. CASE SelectErr
  BY <1>6 DEF SelectErr
<1>7. CASE SelectSignal
  BY <1>7 DEF SelectSignal
<1>8. CASE ShutdownReturns
  BY <1>8 DEF ShutdownReturns
<1>9. CASE ShutdownExpires
  BY <1>9 DEF ShutdownExpires
<1>10. CASE StopService
  BY <1>10 DEF StopService
<1>11. CASE CloseCache
  BY <1>11 DEF CloseCache
<1>12. CASE Exit
  BY <1>12 DEF Exit, CutHandlers
<1> QED
  BY <1>1, <1>2, <1>3, <1>4, <1>5, <1>6, <1>7, <1>8, <1>9, <1>10, <1>11, <1>12 DEF MainStep

\* The steps of everybody else.
LEMMA OtherStepKeepsInv ==
    LifecycleInv /\ (\/ Signal \/ Listen \/ ServeFails
                     \/ \E r \in Requests : Connect(r) \/ Begin(r) \/ Answer(r)) => LifecycleInv'
<1> SUFFICES ASSUME LifecycleInv,
                    \/ Signal \/ Listen \/ ServeFails
                    \/ \E r \in Requests : Connect(r) \/ Begin(r) \/ Answer(r)
             PROVE  LifecycleInv'
  OBVIOUS
<1> USE DEF LifecycleInv, TypeOK, Mains, InFlight, Goto, serverVars, Alive
<1>1. CASE Signal
  BY ZenonT(40), <1>1 DEF Signal, Notified, CutHandlers
<1>2. CASE Listen
  BY <1>2 DEF Listen
<1>3. CASE ServeFails
  BY <1>3 DEF ServeFails
<1>4. ASSUME NEW r \in Requests, Connect(r) PROVE LifecycleInv'
  <2>1. handler' \in [Requests -> {"none", "connected", "running", "answered", "cut"}]
    BY <1>4 DEF Connect
  <2>2. InFlight' = InFlight /\ \A s \in Requests : handler[s] # "cut" => handler'[s] # "cut"
    BY <1>4 DEF Connect
  <2>3. serve # "none"
    BY <1>4 DEF Connect
  <2>4. UNCHANGED <<main, serve, errChan, inShutdown, sigChan, signaled, services, outcome>>
    BY <1>4 DEF Connect
  <2> QED
    BY <2>1, <2>2, <2>3, <2>4
<1>5. ASSUME NEW r \in Requests, Begin(r) PROVE LifecycleInv'
  <2>1. handler' \in [Requests -> {"none", "connected", "running", "answered", "cut"}]
    BY <1>5 DEF Begin
  <2>2. \A s \in Requests : handler[s] # "cut" => handler'[s] # "cut"
    BY <1>5 DEF Begin
  <2>3. serve # "none" /\ outcome \notin {"graceful", "noHandler"} /\ Alive
    BY <1>5 DEF Begin
  <2>4. UNCHANGED <<main, serve, errChan, inShutdown, sigChan, signaled, services, outcome>>
    BY <1>5 DEF Begin
  <2> QED
    BY <2>1, <2>2, <2>3, <2>4
<1>6. ASSUME NEW r \in Requests, Answer(r) PROVE LifecycleInv'
  BY <1>6 DEF Answer
<1> QED
  BY <1>1, <1>2, <1>3, <1>4, <1>5, <1>6

LEMMA NextKeepsInv == LifecycleInv /\ [Next]_vars => LifecycleInv'
<1>1. LifecycleInv /\ UNCHANGED vars => LifecycleInv'
  BY DEF LifecycleInv, TypeOK, InFlight, vars, serverVars
<1> QED
  BY <1>1, MainStepKeepsInv, OtherStepKeepsInv DEF Next, Ended

\* Where main is decides which services are up and what became of handlers.
THEOREM LifecycleInvCorrect == Spec => []LifecycleInv
  BY LifecycleInit, NextKeepsInv, PTL DEF Spec

\* "server stopped gracefully" is said only if every request whose handler had
\* started was answered, and stays true to the end of the process.
THEOREM GracefulCorrect == Spec => []GracefulAnswersAll
<1>1. LifecycleInv => GracefulAnswersAll
  BY DEF LifecycleInv, TypeOK, InFlight, GracefulAnswersAll
<1> QED
  BY <1>1, LifecycleInvCorrect, PTL

\* Handlers lose the link checker or the cache only when the shutdown ran out
\* of time or the listener died, and the cache outlives the link checker.
THEOREM ServicesCorrect == Spec => []ServicesOutliveHandlers
<1>1. LifecycleInv => ServicesOutliveHandlers
  BY DEF LifecycleInv, TypeOK, Mains, InFlight, ServicesOutliveHandlers
<1> QED
  BY <1>1, LifecycleInvCorrect, PTL
-----------------------------------------------------------------------------
(***************************************************************************)
(* With its telemetry the serve command is still the server whose shutdown *)
(* the theorems above are about: setting providers up, recording and       *)
(* flushing are stutters of it, and only delay its main goroutine.         *)
(***************************************************************************)
THEOREM CommandImplementsLifecycle == ServeSpec => Spec
<1>1. ServeInit => Init
  BY DEF ServeInit
<1>2. [ServeNext]_allVars => [Next]_vars
  BY DEF ServeNext, SetUp, MainGoesOn, Flush, Others, Over, RecordRequest, RecordJob, ExportTick, allVars, Next
<1> QED
  BY <1>1, <1>2, PTL DEF ServeSpec, Spec

(***************************************************************************)
(* A graceful end of the serve command, whatever happened to its           *)
(* telemetry, has cut off no request and taken no service from a handler.  *)
(***************************************************************************)
THEOREM CommandCorrect == ServeSpec => [](GracefulAnswersAll /\ ServicesOutliveHandlers)
  BY CommandImplementsLifecycle, GracefulCorrect, ServicesCorrect, PTL
-----------------------------------------------------------------------------
\* Where main is with the telemetry.
PhasesInv ==
    /\ telemetry \in {"resource", "tracing", "metrics", "instruments", "serving",
                      "meter", "tracer", "exited"}
    /\ main \notin {"creating", "killed"} =>
          telemetry \in {"serving", "meter", "tracer", "exited"}
    /\ telemetry \in {"meter", "tracer", "exited"} => main \in {"flush", "exited", "killed"}
    /\ main = "exited" => telemetry = "exited"

\* Which exporters run where, and that one that does not has nothing left.
ExportersInv ==
    /\ provider \in [T!Providers -> {"none", "active", "shut"}]
    /\ recorded \in [T!Providers -> Nat] /\ exported \in [T!Providers -> Nat]
    /\ telemetry \in {"resource", "tracing", "exited"} =>
          \A p \in T!Providers : provider[p] # "active"
    /\ telemetry \in {"resource", "tracing", "metrics"} => shutdown # "both"
    /\ telemetry \in {"metrics", "tracer"} => provider["meter"] # "active"
    /\ telemetry \in {"instruments", "serving"} /\ shutdown # "both" =>
          \A p \in T!Providers : provider[p] # "active"
    /\ ~broken => \A p \in T!Providers :
          /\ provider[p] # "active" => exported[p] = recorded[p]
          /\ provider[p] = "shut" => telemetry \in {"tracer", "exited"}

\* Nobody is late before the flush, and then it takes a cancelled check or a
\* handler that a shutdown without grace has left.
LateInv ==
    ~broken =>
        /\ main \notin {"flush", "exited", "killed"} => late = {}
        /\ outcome = "graceful" => late \subseteq {"cancelled"}

TelemetryInv == PhasesInv /\ ExportersInv /\ LateInv

LEMMA TelemetryInit == ServeInit => TelemetryInv
  BY DEF ServeInit, Init, T!Init, T!Providers, TelemetryInv, PhasesInv, ExportersInv, LateInv

\* Setting up: an exporter runs only on the way to a shutdown of both.
LEMMA SetUpKeepsTelemetry == LifecycleInv /\ TelemetryInv /\ SetUp => TelemetryInv'
<1> SUFFICES ASSUME TelemetryInv, SetUp PROVE TelemetryInv'
  OBVIOUS
<1> USE DEF SetUp, vars, serverVars, T!config, T!records, T!InitFails, T!Providers
<1>1. PhasesInv'
  BY DEF TelemetryInv, PhasesInv, T!NewResource, T!initTracing, T!initMetrics, T!NewMetrics
<1>2. ExportersInv'
  <2>1. CASE T!NewResource
    BY <2>1 DEF TelemetryInv, ExportersInv, T!NewResource
  <2>2. CASE T!initTracing
    BY <2>2 DEF TelemetryInv, ExportersInv, T!initTracing
  <2>3. CASE T!initMetrics
    BY <2>3 DEF TelemetryInv, ExportersInv, T!initMetrics
  <2>4. CASE T!NewMetrics
    BY <2>4 DEF TelemetryInv, ExportersInv, T!NewMetrics
  <2> QED
    BY <2>1, <2>2, <2>3, <2>4
<1>3. LateInv'
  BY DEF TelemetryInv, LateInv, T!NewResource, T!initTracing, T!initMetrics, T!NewMetrics
<1> QED
  BY <1>1, <1>2, <1>3 DEF TelemetryInv

\* Flushing: an export that does not fail leaves nothing behind.
LEMMA FlushKeepsTelemetry == LifecycleInv /\ TelemetryInv /\ Flush => TelemetryInv'
<1> SUFFICES ASSUME TelemetryInv, Flush PROVE TelemetryInv'
  OBVIOUS
<1> USE DEF Flush, vars, serverVars, T!config, T!records, T!Providers
<1>1. PhasesInv'
  BY DEF TelemetryInv, PhasesInv, T!Stop, T!ShutDownMeter, T!ShutDownTracer, T!ShutDown
<1>2. ExportersInv'
  <2>1. CASE T!Stop
    BY <2>1 DEF TelemetryInv, ExportersInv, T!Stop
  <2>2. CASE T!ShutDownMeter
    BY <2>2 DEF TelemetryInv, ExportersInv, T!ShutDownMeter, T!ShutDown, T!Export
  <2>3. CASE T!ShutDownTracer
    BY <2>3 DEF TelemetryInv, ExportersInv, T!ShutDownTracer, T!ShutDown, T!Export
  <2> QED
    BY <2>1, <2>2, <2>3
<1>3. LateInv'
  BY DEF TelemetryInv, LateInv, T!Stop, T!ShutDownMeter, T!ShutDownTracer, T!ShutDown, T!Export
<1> QED
  BY <1>1, <1>2, <1>3 DEF TelemetryInv

\* The services go up and down with the exporters as they are.
LEMMA ServicesKeepTelemetry ==
    LifecycleInv /\ TelemetryInv /\ (MainGoesOn \/ Others \/ Over) => TelemetryInv'
<1> SUFFICES ASSUME LifecycleInv, TelemetryInv, MainGoesOn \/ Others \/ Over PROVE TelemetryInv'
  OBVIOUS
<1>1. UNCHANGED telemetryVars
  BY DEF MainGoesOn, Others, Over, allVars
<1>2. ExportersInv'
  BY <1>1 DEF TelemetryInv, ExportersInv, telemetryVars
<1>3. CASE MainGoesOn
  <2>1. /\ main = "creating" => main' = "created" /\ telemetry = "serving"
        /\ main = "flush" => main' = "exited" /\ telemetry = "exited"
        /\ main \notin {"creating", "flush"} =>
              /\ main \notin {"exited", "killed"}
              /\ main' \in {"spawned", "notified", "select", "shutdown", "stop", "close", "flush"}
    BY <1>3 DEF MainGoesOn, MainStep, CreateServices, NoWebHandler, SpawnServer, Notify, Select,
       SelectErr, SelectSignal, ShutdownReturns, ShutdownExpires, StopService, CloseCache, Exit, Goto
  <2>2. outcome' = outcome \/ main \notin {"flush", "exited", "killed"}
    BY <1>3 DEF MainGoesOn, MainStep, CreateServices, NoWebHandler, SpawnServer, Notify, Select,
       SelectErr, SelectSignal, ShutdownReturns, ShutdownExpires, StopService, CloseCache, Exit
  <2>3. PhasesInv'
    BY <1>1, <2>1 DEF TelemetryInv, PhasesInv, telemetryVars
  <2>4. LateInv'
    BY <1>1, <2>1, <2>2 DEF TelemetryInv, LateInv, telemetryVars
  <2> QED
    BY <1>2, <2>3, <2>4 DEF TelemetryInv
<1>4. CASE Others \/ Over
  <2>1. /\ outcome' = outcome
        /\ main' = main \/ main' = "killed"
    BY <1>4 DEF Others, Over, allVars, vars, Signal, Listen, ServeFails, Connect, Begin, Answer, Goto
  <2>2. main \in {"exited", "killed"} => main' = main
    BY <1>4 DEF Others, Over, allVars, vars, Signal, Listen, ServeFails, Connect, Begin, Answer, Alive
  <2>3. PhasesInv' /\ LateInv'
    BY <1>1, <2>1, <2>2 DEF TelemetryInv, PhasesInv, LateInv, telemetryVars
  <2> QED
    BY <1>2, <2>3 DEF TelemetryInv
<1> QED
  BY <1>3, <1>4

\* Who records: what comes too late after a graceful shutdown was cancelled.
LEMMA RecordsKeepTelemetry ==
    /\ LifecycleInv /\ TelemetryInv
    /\ RecordJob \/ \E p \in T!Providers : RecordRequest(p) \/ ExportTick(p)
    => TelemetryInv'
<1> SUFFICES ASSUME LifecycleInv, TelemetryInv,
                    RecordJob \/ \E p \in T!Providers : RecordRequest(p) \/ ExportTick(p)
             PROVE  TelemetryInv'
  OBVIOUS
<1>1. ASSUME NEW p \in T!Providers, NEW who, T!Record(p, who), UNCHANGED vars, Alive,
             outcome = "graceful" /\ main = "flush" => who = "cancelled"
      PROVE  TelemetryInv'
  <2>1. PhasesInv'
    BY <1>1 DEF TelemetryInv, PhasesInv, T!Record, vars
  <2>2. ExportersInv'
    BY <1>1 DEF TelemetryInv, ExportersInv, T!Record, T!config, T!Providers
  <2>3. LateInv'
    <3>1. broken' = broken /\ main' = main /\ outcome' = outcome /\ main \notin {"exited", "killed"}
      BY <1>1 DEF T!Record, vars, Alive
    <3>2. CASE late' = late
      BY <3>1, <3>2 DEF TelemetryInv, LateInv
    <3>3. CASE provider[p] = "shut" /\ late' = late \cup {who}
      <4>1. ~broken => main = "flush"
        BY <3>1, <3>3, <1>1 DEF TelemetryInv, PhasesInv, ExportersInv
      <4> QED
        BY <1>1, <3>1, <3>3, <4>1 DEF TelemetryInv, LateInv
    <3> QED
      BY <1>1, <3>2, <3>3 DEF T!Record
  <2> QED
    BY <2>1, <2>2, <2>3 DEF TelemetryInv
<1>2. CASE RecordJob
  <2>1. "tracer" \in T!Providers
    BY DEF T!Providers
  <2>2. main = "flush" => "pool" \notin services
    BY DEF LifecycleInv
  <2> QED
    BY <1>1, <1>2, <2>1, <2>2 DEF RecordJob
<1>3. ASSUME NEW p \in T!Providers, RecordRequest(p) PROVE TelemetryInv'
  <2>1. outcome # "graceful"
    BY <1>3 DEF RecordRequest, LifecycleInv
  <2> QED
    BY <1>1, <1>3, <2>1 DEF RecordRequest
<1>4. ASSUME NEW p \in T!Providers, ExportTick(p) PROVE TelemetryInv'
  <2>1. PhasesInv'
    BY <1>4 DEF TelemetryInv, PhasesInv, ExportTick, T!ExportTick, vars
  <2>2. ExportersInv'
    BY <1>4 DEF TelemetryInv, ExportersInv, ExportTick, T!ExportTick, T!Export, T!config, T!Providers
  <2>3. LateInv'
    BY <1>4 DEF TelemetryInv, LateInv, ExportTick, T!ExportTick, T!Export, vars
  <2> QED
    BY <2>1, <2>2, <2>3 DEF TelemetryInv
<1> QED
  BY <1>2, <1>3, <1>4

(***************************************************************************)
(* Whatever fails and however long it takes, no exporter is left running,  *)
(* and a graceful shutdown with telemetry that works loses nothing but the *)
(* end of the checks it cancels.                                           *)
(***************************************************************************)
THEOREM FlushCorrect == ServeSpec => []TelemetryIsFlushed
<1>1. LifecycleInv /\ TelemetryInv /\ [ServeNext]_allVars => TelemetryInv'
  <2>1. LifecycleInv /\ TelemetryInv /\ UNCHANGED allVars => TelemetryInv'
    BY DEF allVars, vars, telemetryVars, TelemetryInv, PhasesInv, ExportersInv, LateInv
  <2> QED
    BY <2>1, SetUpKeepsTelemetry, FlushKeepsTelemetry, ServicesKeepTelemetry, RecordsKeepTelemetry
       DEF ServeNext, T!Providers
<1>2. TelemetryInv => TelemetryIsFlushed
  BY DEF TelemetryInv, PhasesInv, ExportersInv, LateInv, TelemetryIsFlushed, T!Providers
<1>3. ServeSpec => []LifecycleInv
  BY CommandImplementsLifecycle, LifecycleInvCorrect, PTL
<1> QED
  BY <1>1, <1>2, <1>3, TelemetryInit, PTL DEF ServeSpec
=============================================================================
