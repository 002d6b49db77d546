------------------------------ MODULE HttpClient ------------------------------
(***************************************************************************)
(* One call of http.Client.Do (net/http), as the fetcher and the link      *)
(* checker use it: a Timeout that covers all the requests of the call, and *)
(* a CheckRedirect that refuses to go on after MaxVia requests.  What the  *)
(* other host and the network do is chosen freely.                         *)
(***************************************************************************)
EXTENDS Naturals

CONSTANTS
    Codes,    \* status codes of responses that are not followed any further
    MaxVia,   \* the limit in CheckRedirect
    Timeout   \* Client.Timeout, in ticks

ASSUME CodesAssumption == Codes \subseteq Nat \ {0}
ASSUME LimitAssumption == MaxVia \in Nat \ {0}
ASSUME TimeoutAssumption == Timeout \in Nat \ {0}

VARIABLES
    call,  \* "none", "sent", "answered", or how the call failed
    code,  \* the status code of the answer, 0 without one
    via,   \* requests of the call so far
    left   \* ticks until its timer fires

clientVars == <<call, code, via, left>>

Failures == {"timeout", "canceled", "refused", "network", "redirects"}

Ended == call = "answered" \/ call \in Failures

ClientTypeOK ==
    /\ call \in {"none", "sent", "answered"} \cup Failures
    /\ code \in Codes \cup {0}
    /\ via \in 0..MaxVia
    /\ left \in 0..Timeout

ClientInit == call = "none" /\ code = 0 /\ via = 0 /\ left = 0

\* The first request of a call goes out and the timer starts.
Do == call' = "sent" /\ code' = 0 /\ via' = 1 /\ left' = Timeout

Fail(failure) == call = "sent" /\ call' = failure /\ UNCHANGED <<code, via, left>>

\* Any response that is no redirect, or a redirect without a Location.
Respond(c) == call = "sent" /\ call' = "answered" /\ code' = c /\ UNCHANGED <<via, left>>

\* CheckRedirect sees the requests made so far, the first one included.
Follow ==
    \/ /\ call = "sent"
       /\ via < MaxVia
       /\ via' = via + 1
       /\ UNCHANGED <<call, code, left>>
    \/ via >= MaxVia /\ Fail("redirects")

\* The timer and an answer race: both may happen in the last moment.
TimerFires == left = 0 /\ Fail("timeout")

\* The context is cancelled, the port is closed, or the network breaks.
Break == \E f \in {"canceled", "refused", "network"} : Fail(f)

\* A unit of time passes for a call whose timer is running.
ClientTick == left > 0 /\ left' = left - 1 /\ UNCHANGED <<call, code, via>>
=============================================================================
