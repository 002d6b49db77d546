--------------------------- MODULE ServerLifecycle ---------------------------
(***************************************************************************)
(* The serve command (cmd/analyzer/cmd_serve.go, internal/server/server.go)*)
(* from the creation of the services to the end of the process: the main   *)
(* goroutine, the goroutine that runs ListenAndServe, the two channels     *)
(* between them and the operating system, and the handlers of requests.    *)
(*                                                                         *)
(* The services are the link checker and the cache, which handlers use and *)
(* the deferred calls of main take down.  Of net/http only what Shutdown   *)
(* and ListenAndServe promise is kept.  A handler may take any time.       *)
(***************************************************************************)
EXTENDS Naturals, FiniteSets

CONSTANT Requests  \* requests that reach the server (a bound)

VARIABLES
    main,       \* where runServe is, or how the process ended
    serve,      \* the goroutine of srv.Start
    errChan,    \* errChan holds what srv.Start returned
    sigChan,    \* sigChan holds a signal
    signaled,   \* history: a signal came after signal.Notify
    inShutdown, \* the http.Server is shutting down
    services,   \* which of "pool" and "cache" are created and not taken down
    handler,    \* handler[r]: the connection of request r, then its handler
    outcome     \* what runServe returns

serverVars == <<serve, errChan, inShutdown>>
vars == <<main, serverVars, sigChan, signaled, services, handler, outcome>>

Mains == {"creating", "created", "spawned", "notified", "select", "shutdown",
          "stop", "close", "flush", "exited", "killed"}

TypeOK ==
    /\ main \in Mains
    /\ serve \in {"none", "spawned", "listening", "returned"}
    /\ errChan \in BOOLEAN /\ sigChan \in BOOLEAN /\ signaled \in BOOLEAN
    /\ inShutdown \in BOOLEAN
    /\ services \subseteq {"pool", "cache"}
    /\ handler \in [Requests -> {"none", "connected", "running", "answered", "cut"}]
    /\ outcome \in {"none", "graceful", "startFailed", "shutdownFailed", "noHandler"}

Init ==
    /\ main = "creating"
    /\ serve = "none"
    /\ errChan = FALSE
    /\ sigChan = FALSE
    /\ signaled = FALSE
    /\ inShutdown = FALSE
    /\ services = {}
    /\ handler = [r \in Requests |-> "none"]
    /\ outcome = "none"

Goto(to) == main' = to

InFlight == {r \in Requests : handler[r] = "running"}

\* The process ends, and with it every goroutine.
CutHandlers ==
    handler' = [r \in Requests |-> IF handler[r] = "running" THEN "cut" ELSE handler[r]]
-----------------------------------------------------------------------------
(* runServe *)

CreateServices ==
    /\ main = "creating"
    /\ Goto("created")
    /\ services' = {"pool", "cache"}
    /\ UNCHANGED <<serverVars, sigChan, signaled, handler, outcome>>

\* The templates of the web handler do not parse.
NoWebHandler ==
    /\ main = "created"
    /\ Goto("stop")
    /\ outcome' = "noHandler"
    /\ UNCHANGED <<serverVars, sigChan, signaled, services, handler>>

SpawnServer ==
    /\ main = "created"
    /\ Goto("spawned")
    /\ serve' = "spawned"
    /\ UNCHANGED <<errChan, inShutdown, sigChan, signaled, services, handler, outcome>>

Notify ==
    /\ main = "spawned"
    /\ Goto("notified")
    /\ UNCHANGED <<serverVars, sigChan, signaled, services, handler, outcome>>

Select ==
    /\ main = "notified"
    /\ Goto("select")
    /\ UNCHANGED <<serverVars, sigChan, signaled, services, handler, outcome>>

SelectErr ==
    /\ main = "select"
    /\ errChan
    /\ errChan' = FALSE
    /\ outcome' = "startFailed"
    /\ Goto("stop")
    /\ UNCHANGED <<serve, inShutdown, sigChan, signaled, services, handler>>

\* Variant: the link checker is stopped before the server is shut down.
SelectSignalStopsFirst ==
    /\ main = "select"
    /\ sigChan
    /\ sigChan' = FALSE
    /\ inShutdown' = TRUE
    /\ services' = services \ {"pool"}
    /\ Goto("shutdown")
    /\ UNCHANGED <<serve, errChan, signaled, handler, outcome>>

\* Go picks either case of the select if both are ready.
SelectSignal ==
    /\ main = "select"
    /\ sigChan
    /\ sigChan' = FALSE
    /\ inShutdown' = TRUE
    /\ Goto("shutdown")
    /\ UNCHANGED <<serve, errChan, signaled, services, handler, outcome>>

\* Variant: the listeners are closed and nobody is waited for.
ShutdownReturnsEarly ==
    /\ main = "shutdown"
    /\ outcome' = "graceful"
    /\ Goto("stop")
    /\ UNCHANGED <<serverVars, sigChan, signaled, services, handler>>

\* Shutdown returns nil: no connection is active, and the others are closed.
ShutdownReturns ==
    /\ main = "shutdown"
    /\ InFlight = {}
    /\ outcome' = "graceful"
    /\ Goto("stop")
    /\ UNCHANGED <<serverVars, sigChan, signaled, services, handler>>

\* ShutdownTimeout has passed with connections still active.
ShutdownExpires ==
    /\ main = "shutdown"
    /\ InFlight # {}
    /\ outcome' = "shutdownFailed"
    /\ Goto("stop")
    /\ UNCHANGED <<serverVars, sigChan, signaled, services, handler>>

\* The deferred calls, the last one deferred first.
StopService ==
    /\ main = "stop"
    /\ services' = services \ {"pool"}
    /\ Goto("close")
    /\ UNCHANGED <<serverVars, sigChan, signaled, handler, outcome>>

CloseCache ==
    /\ main = "close"
    /\ services' = services \ {"cache"}
    /\ Goto("flush")
    /\ UNCHANGED <<serverVars, sigChan, signaled, handler, outcome>>

\* otelShutdown, and the end of the process.
Exit ==
    /\ main = "flush"
    /\ Goto("exited")
    /\ CutHandlers
    /\ UNCHANGED <<serverVars, sigChan, signaled, services, outcome>>
-----------------------------------------------------------------------------
(* The operating system *)

Notified == main \in {"notified", "select", "shutdown", "stop", "close", "flush"}

\* Variant: sigChan has no buffer, and a signal nobody receives is dropped.
SignalUnbuffered ==
    /\ main \notin {"exited", "killed"}
    /\ \/ /\ Notified
          /\ sigChan' = (main = "select")
          /\ signaled' = TRUE
          /\ UNCHANGED <<main, handler>>
       \/ /\ ~Notified
          /\ Goto("killed")
          /\ CutHandlers
          /\ UNCHANGED <<sigChan, signaled>>
    /\ UNCHANGED <<serverVars, services, outcome>>

\* Before signal.Notify a signal ends the process there and then; after it
\* the signal is kept, and any further one changes nothing.
Signal ==
    /\ main \notin {"exited", "killed"}
    /\ \/ /\ Notified
          /\ sigChan' = TRUE
          /\ signaled' = TRUE
          /\ UNCHANGED <<main, handler>>
       \/ /\ ~Notified
          /\ Goto("killed")
          /\ CutHandlers
          /\ UNCHANGED <<sigChan, signaled>>
    /\ UNCHANGED <<serverVars, services, outcome>>
-----------------------------------------------------------------------------
(* srv.Start and the handlers *)

Alive == main \notin {"exited", "killed"}

Listen ==
    /\ Alive
    /\ serve = "spawned"
    /\ ~inShutdown
    /\ serve' = "listening"
    /\ UNCHANGED <<main, errChan, inShutdown, sigChan, signaled, services, handler, outcome>>

\* ListenAndServe fails: it cannot listen, it cannot accept any more, or the
\* server is shutting down (ErrServerClosed, which is sent like any other).
ServeFails ==
    /\ Alive
    /\ serve \in {"spawned", "listening"}
    /\ serve' = "returned"
    /\ errChan' = TRUE
    /\ UNCHANGED <<main, inShutdown, sigChan, signaled, services, handler, outcome>>

\* A connection is accepted; its request may still be on the way.
Connect(r) ==
    /\ Alive
    /\ serve = "listening"
    /\ ~inShutdown
    /\ handler[r] = "none"
    /\ handler' = [handler EXCEPT ![r] = "connected"]
    /\ UNCHANGED <<main, serverVars, sigChan, signaled, services, outcome>>

\* A request that has come starts its handler also while Shutdown waits or the
\* listener is gone; a connection that Shutdown closed as idle starts none.
Begin(r) ==
    /\ Alive
    /\ handler[r] = "connected"
    /\ outcome # "graceful"
    /\ handler' = [handler EXCEPT ![r] = "running"]
    /\ UNCHANGED <<main, serverVars, sigChan, signaled, services, outcome>>

\* The handler writes its answer, with or without the help of the services.
Answer(r) ==
    /\ Alive
    /\ handler[r] = "running"
    /\ handler' = [handler EXCEPT ![r] = "answered"]
    /\ UNCHANGED <<main, serverVars, sigChan, signaled, services, outcome>>
-----------------------------------------------------------------------------
MainStep ==
    \/ CreateServices \/ NoWebHandler \/ SpawnServer \/ Notify \/ Select
    \/ SelectErr \/ SelectSignal \/ ShutdownReturns \/ ShutdownExpires
    \/ StopService \/ CloseCache \/ Exit

\* The process is over.
Ended == ~Alive /\ UNCHANGED vars

Next ==
    \/ MainStep \/ Signal \/ Listen \/ ServeFails \/ Ended
    \/ \E r \in Requests : Connect(r) \/ Begin(r) \/ Answer(r)

Spec == Init /\ [][Next]_vars

\* The main goroutine is scheduled and the context of Shutdown has a deadline.
\* Nothing is assumed of handlers, the listener or the operating system.
FairSpec == Spec /\ WF_vars(MainStep)
-----------------------------------------------------------------------------
\* "server stopped gracefully" is true: no handler was cut off, be it one that
\* started while Shutdown was waiting, and none starts after the last answer.
GracefulAnswersAll ==
    outcome = "graceful" =>
        \A r \in Requests : handler[r] \in {"none", "connected", "answered"}

\* A running handler finds the link checker and the cache alive unless the
\* shutdown ran out of time or the listener died under it; and the cache
\* outlives the link checker that uses it.
ServicesOutliveHandlers ==
    /\ (InFlight # {} /\ services # {"pool", "cache"}) =>
          outcome \in {"shutdownFailed", "startFailed"}
    /\ main # "creating" /\ "pool" \in services => "cache" \in services

\* The inductive invariant behind the theorems of ServerLifecycle_proofs: where
\* main is decides which services are up and whether an outcome is known, and
\* a graceful outcome leaves no handler that the end of the process could cut.
LifecycleInv ==
    /\ TypeOK
    /\ main \in {"creating", "created"} => serve = "none"
    /\ serve = "none" => \A r \in Requests : handler[r] = "none"
    /\ main = "shutdown" => inShutdown
    /\ main = "creating" => services = {}
    /\ main \in {"created", "spawned", "notified", "select", "shutdown", "stop"} =>
          services = {"pool", "cache"}
    /\ main = "close" => services = {"cache"}
    /\ main = "flush" => services = {}
    /\ "pool" \in services => "cache" \in services
    /\ main \in {"stop", "close", "flush"} => outcome # "none"
    /\ main \in {"creating", "created", "spawned", "notified", "select", "shutdown", "killed"} =>
          outcome = "none"
    /\ outcome \in {"graceful", "noHandler"} => InFlight = {}
    /\ outcome = "graceful" => inShutdown
    /\ outcome = "noHandler" => serve = "none"
    /\ main \in {"exited", "killed"} => InFlight = {}
    /\ main \notin {"exited", "killed"} => \A r \in Requests : handler[r] # "cut"
    /\ outcome = "graceful" => \A r \in Requests : handler[r] # "cut"

\* A signal ends the process whatever the handlers do and whenever it comes:
\* before main listens to it, before the server listens, or while it fails.
ShutdownEnds == signaled ~> (main = "exited")
=============================================================================
