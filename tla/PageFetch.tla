------------------------------ MODULE PageFetch ------------------------------
(***************************************************************************)
(* Fetcher.Fetch (internal/analyzer/fetcher.go): one GET request, the      *)
(* redirects it follows and the reading of the body up to a limit; and the *)
(* status code that internal/domain/errors.go gives each way to fail.      *)
(***************************************************************************)
EXTENDS HttpClient

CONSTANT MaxBody  \* FetchingConfig.MaxBodySize, in units of body

ASSUME MaxBodyAssumption == MaxBody \in Nat

VARIABLES
    at,     \* "idle", "asking", "reading" or "done"
    size,   \* how much the other host sends as a body
    body,   \* how much of it has been read
    fault,  \* how Fetch failed, "none" if it did not
    spent   \* history: ticks since Fetch was called

fetchVars == <<clientVars, at, size, body, fault, spent>>

\* A host may send more than the limit; how much more does not matter.
Sizes == 0..(MaxBody + 2)

Faults == {"none", "empty", "invalid", "timeout", "connection", "status", "read", "large"}

\* A URL as Fetch sees it: without a protocol it parses, but cannot be sent.
URLs == {"empty", "unparsable", "no protocol", "fine"}

FetchTypeOK ==
    /\ ClientTypeOK
    /\ at \in {"idle", "asking", "reading", "done"}
    /\ size \in Sizes /\ body \in 0..(MaxBody + 1)
    /\ fault \in Faults
    /\ spent \in Nat

FetchInit ==
    /\ ClientInit
    /\ at = "idle" /\ size = 0 /\ body = 0 /\ fault = "none" /\ spent = 0
-----------------------------------------------------------------------------
\* GetStatusCode of the error Fetch returns; ErrEmptyURL is a plain error.
StatusOf(f) ==
    CASE f = "empty"   -> 500
      [] f = "invalid" -> 400
      [] f = "timeout" -> 504
      [] OTHER         -> 502

FailWith(f) == at' = "done" /\ fault' = f /\ UNCHANGED <<size, body, spent>>

Fetch(url) ==
    /\ at = "idle"
    /\ \/ url = "fine" /\ at' = "asking" /\ Do /\ UNCHANGED <<size, body, fault, spent>>
       \/ url = "empty" /\ FailWith("empty") /\ UNCHANGED clientVars
       \/ url = "unparsable" /\ FailWith("invalid") /\ UNCHANGED clientVars
       \/ url = "no protocol" /\ FailWith("connection") /\ UNCHANGED clientVars

\* ctx.Err(): callers cancel a context, and none gives it a deadline.  The
\* timer of the client cancels a context of its own and not this one.
CtxErr == IF call = "canceled" THEN "canceled" ELSE "none"

CallFails ==
    /\ at = "asking"
    /\ call \in Failures
    /\ FailWith(IF CtxErr = "deadline exceeded" THEN "timeout" ELSE "connection")
    /\ UNCHANGED clientVars

BadStatus ==
    /\ at = "asking"
    /\ call = "answered"
    /\ code \notin 200..299
    /\ FailWith("status")
    /\ UNCHANGED clientVars

\* A body of any size follows the headers.
GoodStatus ==
    /\ at = "asking"
    /\ call = "answered"
    /\ code \in 200..299
    /\ at' = "reading"
    /\ size' \in Sizes
    /\ UNCHANGED <<clientVars, body, fault, spent>>

\* What LimitReader lets through: one unit more than is accepted.
Available == IF size <= MaxBody + 1 THEN size ELSE MaxBody + 1

ReadSome ==
    /\ at = "reading"
    /\ body < Available
    /\ body' = body + 1
    /\ UNCHANGED <<clientVars, at, size, fault, spent>>

\* The timer covers the body as well, and the connection may break.
ReadFails ==
    /\ at = "reading"
    /\ FailWith("read")
    /\ UNCHANGED clientVars

ReadEnds ==
    /\ at = "reading"
    /\ body = Available
    /\ at' = "done"
    /\ fault' = IF body > MaxBody THEN "large" ELSE "none"
    /\ UNCHANGED <<clientVars, size, body, spent>>

HostStep ==
    /\ TimerFires \/ Break \/ Follow \/ \E c \in Codes : Respond(c)
    /\ UNCHANGED <<at, size, body, fault, spent>>

\* The timer of the call runs until the body has been read.
Tick ==
    /\ call = "sent" \/ at = "reading"
    /\ ClientTick
    /\ spent' = spent + 1
    /\ UNCHANGED <<at, size, body, fault>>

FetchNext ==
    \/ CallFails \/ BadStatus \/ GoodStatus
    \/ ReadSome \/ ReadFails \/ ReadEnds \/ HostStep \/ Tick
-----------------------------------------------------------------------------
(***************************************************************************)
(* A page that was fetched is the whole body, within the limit; and with   *)
(* all its redirects and its body a fetch takes no longer than the         *)
(* client's timeout, which is what bounds a request that only fetches      *)
(* (Fetch, client.Timeout, LimitReader).                                   *)
(***************************************************************************)
FetchInv ==
    /\ FetchTypeOK
    /\ spent <= Timeout
    /\ at = "idle" => call = "none" /\ via = 0 /\ body = 0 /\ spent = 0 /\ fault = "none"
    /\ at \in {"asking", "reading"} => spent + left = Timeout /\ via > 0
    /\ at = "asking" => call # "none" /\ body = 0
    /\ at = "reading" => body <= Available /\ call = "answered"
    /\ at = "done" =>
          /\ fault = "none" => body = size /\ size <= MaxBody
          /\ fault \in {"empty", "invalid"} => via = 0
          /\ fault \in {"none", "status", "read", "large"} => via > 0
          /\ via > 0 <=> call # "none"
          /\ call # "sent"

(***************************************************************************)
(* Violated: "Check if it's a timeout" (fetcher.go:73) looks at the        *)
(* context of the request, which the client's timer does not touch; a      *)
(* timeout is reported as a failed connection, 502 instead of 504.         *)
(***************************************************************************)
TimeoutsAre504 == at = "done" /\ call = "timeout" => StatusOf(fault) = 504

(***************************************************************************)
(* Violated: DECISIONS.md:252 says of the limit on a page's size "Large    *)
(* SPAs may be truncated".  They are rejected.                             *)
(***************************************************************************)
LargePagesAreTruncated == fault # "large"
=============================================================================
