----------------------------- MODULE LinkRequest -----------------------------
(***************************************************************************)
(* The check of one link (internal/analyzer/linkchecker_http.go): a HEAD   *)
(* request, a GET request if the host refuses HEAD, and the translation of *)
(* what happened into an error, a status code and a reason.                *)
(*                                                                         *)
(* The text of an error holds the URL of the request that failed, and the  *)
(* failure and its reason are found by searching that text: of a URL only  *)
(* the words that are searched for matter.  The text of the cause may hold *)
(* one itself: a name lookup that the network breaks ends in an "i/o       *)
(* timeout".                                                               *)
(***************************************************************************)
EXTENDS HttpClient

VARIABLES
    at,      \* "idle", "asking" or "done"
    method,  \* the method of the call under way
    link,    \* those of Words that the URL of the link contains
    words,   \* those that the last request's URL and the text of a cause contain
    err,     \* what checkLink returns
    spent    \* history: ticks since the check began

vars == <<clientVars, at, method, link, words, err, spent>>

\* A query may hold a space, so the last of these may be part of a URL too.
Words == {"timeout", "connection_refused", "network_error", "connection refused"}

NoError == [prefix |-> "", code |-> 0, text |-> {}]

Prefixes == {"", "timeout", "connection_refused", "network_error", "http_", "invalid_url"}

Errors == [prefix : Prefixes, code : Codes \cup {0}, text : SUBSET (Words \cup Prefixes)]

TypeOK ==
    /\ ClientTypeOK
    /\ at \in {"idle", "asking", "done"}
    /\ method \in {"HEAD", "GET"}
    /\ link \in SUBSET Words /\ words \in SUBSET Words
    /\ err \in Errors
    /\ spent \in Nat

Init ==
    /\ ClientInit
    /\ at = "idle"
    /\ method = "HEAD"
    /\ link = {} /\ words = {}
    /\ err = NoError
    /\ spent = 0
-----------------------------------------------------------------------------
(* doRequest *)

\* fmt.Errorf("prefix: %w", err): the text of the cause names the URL.
Wrapped(prefix) == [prefix |-> prefix, code |-> 0, text |-> {prefix} \cup words]

\* httpError, which holds the code and nothing else.
HttpError(c) == [prefix |-> "http_", code |-> c, text |-> {"http_"}]

\* Whether err.Error() contains "connection refused".
SaysRefused == call = "refused" \/ "connection refused" \in words

\* What doRequest makes of the end of its call.
Outcome ==
    IF call = "answered"
    THEN IF code >= 200 /\ code < 400 THEN NoError ELSE HttpError(code)
    ELSE Wrapped(IF call \in {"timeout", "canceled"} THEN "timeout"
                 ELSE IF SaysRefused THEN "connection_refused" ELSE "network_error")
-----------------------------------------------------------------------------
(* checkLink *)

\* A URL that does not parse never leaves the process.
CheckLink(ws) ==
    /\ at = "idle"
    /\ link' = ws /\ words' = ws
    /\ \/ at' = "asking" /\ Do /\ UNCHANGED err
       \/ /\ at' = "done"
          /\ err' = [prefix |-> "invalid_url", code |-> 0, text |-> {"invalid_url"} \cup ws]
          /\ UNCHANGED clientVars
    /\ UNCHANGED <<method, spent>>

Returned == at = "asking" /\ Ended

\* The codes that may mean no more than that the host dislikes HEAD.
Refusals == {403, 405, 406}

AskAgain == method' = "GET" /\ words' = link /\ Do /\ UNCHANGED <<at, err>>

GiveVerdict == at' = "done" /\ err' = Outcome /\ UNCHANGED <<clientVars, method, words>>

\* Variant: a refused HEAD is the last word.
FirstAnswerDecides == Returned /\ GiveVerdict /\ UNCHANGED <<link, spent>>

\* Variant: a refused GET is repeated as well.
AskWhileRefused ==
    /\ Returned
    /\ IF Outcome.code \in Refusals THEN AskAgain ELSE GiveVerdict
    /\ UNCHANGED <<link, spent>>

\* A HEAD that is refused is repeated as a GET, from the link's own URL.
RequestEnds ==
    /\ Returned
    /\ IF method = "HEAD" /\ Outcome.code \in Refusals THEN AskAgain ELSE GiveVerdict
    /\ UNCHANGED <<link, spent>>

\* The goroutine of the link takes the verdict; the next link is a new check.
Take ==
    /\ at = "done"
    /\ at' = "idle" /\ method' = "HEAD" /\ link' = {} /\ words' = {}
    /\ err' = NoError /\ spent' = 0
    /\ call' = "none" /\ code' = 0 /\ via' = 0 /\ left' = 0
-----------------------------------------------------------------------------
(* The other host, the network and the clock *)

\* The request after a redirect has a URL of its own, and an error about a
\* redirect that is not followed names that URL too.
Redirected ==
    /\ Follow
    /\ words' \in SUBSET Words
    /\ UNCHANGED <<at, method, link, err, spent>>

HostStep ==
    /\ \/ (TimerFires \/ \E c \in Codes : Respond(c)) /\ UNCHANGED words
       \/ Break /\ words' \in {words, words \cup {"timeout"}}
    /\ UNCHANGED <<at, method, link, err, spent>>

Tick ==
    /\ call = "sent"
    /\ ClientTick
    /\ spent' = spent + 1
    /\ UNCHANGED <<at, method, link, words, err>>

Next ==
    \/ \E ws \in SUBSET Words : CheckLink(ws)
    \/ RequestEnds \/ Take \/ Redirected \/ HostStep \/ Tick

Spec == Init /\ [][Next]_vars
-----------------------------------------------------------------------------
(* The reason that is shown *)

\* The order of the searches is the order of the code.
extractReason(e) ==
    IF e = NoError THEN ""
    ELSE IF "timeout" \in e.text THEN "timeout"
    ELSE IF "connection_refused" \in e.text THEN "connection refused"
    ELSE IF "network_error" \in e.text THEN "network error"
    ELSE IF e.prefix = "http_" THEN "HTTP"
    ELSE IF "invalid_url" \in e.text THEN "invalid URL" ELSE "unknown error"

\* What went wrong, told from the call and not from the text of the error.
TrueReason ==
    IF call = "none" THEN "invalid URL"
    ELSE IF call = "answered" THEN IF code \in 200..399 THEN "" ELSE "HTTP"
    ELSE IF call \in {"timeout", "canceled"} THEN "timeout"
    ELSE IF call = "refused" THEN "connection refused"
    ELSE "network error"
-----------------------------------------------------------------------------
(***************************************************************************)
(* A link is blamed for refusing a request only after both methods were    *)
(* refused, whatever redirects came in between; and unless a URL or a      *)
(* cause contains one of the words, the reason that is found in the text   *)
(* is what ended the last call (checkLink, doRequest, extractReason).      *)
(***************************************************************************)
VerdictIsFair ==
    at = "done" =>
        /\ err.prefix = "http_" /\ err.code \in Refusals => method = "GET"
        /\ words = {} => extractReason(err) = TrueReason

(***************************************************************************)
(* A goroutine of a job, and with it a place in the job's semaphore, is    *)
(* held by one link for at most two timeouts, however the other host       *)
(* answers, redirects or refuses: each of the two calls has a timer of its *)
(* own (checkLink, client.Timeout), and nothing else is waited for.  A     *)
(* verdict is what ended the last call.                                    *)
(***************************************************************************)
LinkInv ==
    /\ TypeOK
    /\ spent <= 2 * Timeout
    /\ at = "idle" => call = "none" /\ method = "HEAD" /\ spent = 0
    /\ at = "asking" =>
          /\ spent + left <= 2 * Timeout
          /\ method = "HEAD" => spent + left <= Timeout
    /\ at = "done" =>
          \/ call = "none" /\ err.prefix = "invalid_url" /\ err.text = {"invalid_url"} \cup words
          \/ Ended /\ err = Outcome

(***************************************************************************)
(* Violated: DECISIONS.md:253 promises "5s timeout per link".  A host that *)
(* refuses HEAD late and never answers GET takes twice that.               *)
(***************************************************************************)
OneTimeoutPerLink == spent <= Timeout

(***************************************************************************)
(* Violated: Reason is the "Reason for failure" (domain/links.go:72), but  *)
(* a URL that contains a word the search looks for decides the reason.     *)
(***************************************************************************)
ReasonIsHonest == at = "done" => extractReason(err) = TrueReason

(***************************************************************************)
(* Violated: "Follow up to 5 redirects" (linkchecker_pool.go:85).  via     *)
(* counts requests, so the fifth redirect is not followed.                 *)
(***************************************************************************)
FollowsUpToLimit == call = "redirects" => via > MaxVia
=============================================================================
