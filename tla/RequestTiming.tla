---------------------------- MODULE RequestTiming ----------------------------
(***************************************************************************)
(* The time of one request: the analysis of AnalyzeRequest with its fetch, *)
(* then, for a synchronous check, the wait for the links of the page       *)
(* (performLinkCheck, WaitForJob), and the write of the answer, which      *)
(* net/http allows only until WriteTimeout has passed.  The steps in       *)
(* between take no time; a sleep lasts as long as it says.                 *)
(***************************************************************************)
EXTENDS AnalyzeRequest

CONSTANTS
    Waits,         \* Waits[w]: the duration that Options.Timeout w stands for
    PollPeriod,    \* the sleep in WaitForJob
    WriteTimeout   \* Server.WriteTimeout

ASSUME TimesAssumption ==
    /\ Waits \in [{"30s", "5s"} -> Nat \ {0}]
    /\ PollPeriod \in Nat \ {0} /\ WriteTimeout \in Nat \ {0}

VARIABLES
    phase,     \* "analyze", "look", "sleep", "write", "sent" or "dropped"
    waited,    \* how long WaitForJob has taken
    slept,     \* how much of that is the present sleep
    finished,  \* whether the job is over
    finish,    \* when in the wait it became so
    gone,      \* whether the pool no longer holds the job
    status     \* CheckStatus: "none" yet, "job" that of the job, or "failed"

timingVars == <<phase, waited, slept, finished, finish, gone, status>>
timedVars == <<vars, timingVars>>

\* What is left when the wait does not go on.
Waiting == phase \in {"look", "sleep"}

Took == spent + waited

TimedInit ==
    /\ Init
    /\ phase = "analyze" /\ waited = 0 /\ slept = 0
    /\ finished = FALSE /\ finish = 0 /\ gone = FALSE /\ status = "none"

AnalysisStep ==
    /\ phase = "analyze" /\ answer = Unanswered
    /\ Next
    /\ UNCHANGED timingVars

\* An analysis that succeeded, from the cache or not, submits the links of its
\* page; a page may have none, and only a synchronous check waits.
Submit ==
    /\ phase = "analyze" /\ answer # Unanswered
    /\ \/ answer = 200 /\ mode = "sync" /\ phase' = "look"
       \/ phase' = "write"
    /\ UNCHANGED <<vars, waited, slept, finished, finish, gone, status>>

\* The worker publishes the result of the job.
JobFinishes ==
    /\ Waiting
    /\ ~finished
    /\ finished' = TRUE /\ finish' = waited
    /\ UNCHANGED <<vars, phase, waited, slept, gone, status>>

\* The cleaner deletes a job that is too old, whatever its state; the worker
\* that serves it stores it again.
Collect ==
    /\ Waiting
    /\ gone' = ~gone
    /\ UNCHANGED <<vars, phase, waited, slept, finished, finish, status>>

\* A job that is not found ends the wait as the deadline does.
Look ==
    /\ phase = "look" /\ waited < Waits[wait]
    /\ \/ gone /\ phase' = "write" /\ status' = "failed" /\ UNCHANGED slept
       \/ ~gone /\ finished /\ phase' = "write" /\ status' = "job" /\ UNCHANGED slept
       \/ ~gone /\ ~finished /\ phase' = "sleep" /\ slept' = 0 /\ UNCHANGED status
    /\ UNCHANGED <<vars, waited, finished, finish, gone>>

SleepTick ==
    /\ phase = "sleep"
    /\ slept < PollPeriod
    /\ slept' = slept + 1 /\ waited' = waited + 1
    /\ UNCHANGED <<vars, phase, finished, finish, gone, status>>

Wake ==
    /\ phase = "sleep"
    /\ slept = PollPeriod
    /\ phase' = "look"
    /\ UNCHANGED <<vars, waited, slept, finished, finish, gone, status>>

\* Variant: the wait ends when the next sleep would pass the deadline.
GiveUpBeforeSleep ==
    /\ phase = "look" /\ waited + PollPeriod > Waits[wait]
    /\ phase' = "write" /\ status' = "failed"
    /\ UNCHANGED <<vars, waited, slept, finished, finish, gone>>

\* The deadline is compared before the job is looked at.
GiveUp ==
    /\ phase = "look" /\ waited >= Waits[wait]
    /\ phase' = "write" /\ status' = "failed"
    /\ UNCHANGED <<vars, waited, slept, finished, finish, gone>>

\* The write deadline counts from the time the request was read; the command
\* line has none.
Deliver ==
    /\ phase = "write"
    /\ client = "cli" \/ Took <= WriteTimeout
    /\ phase' = "sent"
    /\ UNCHANGED <<vars, waited, slept, finished, finish, gone, status>>

Drop ==
    /\ phase = "write"
    /\ client # "cli" /\ Took >= WriteTimeout
    /\ phase' = "dropped"
    /\ UNCHANGED <<vars, waited, slept, finished, finish, gone, status>>

Again ==
    /\ phase \in {"sent", "dropped"}
    /\ NextRequest
    /\ phase' = "analyze" /\ waited' = 0 /\ slept' = 0
    /\ finished' = FALSE /\ finish' = 0 /\ gone' = FALSE /\ status' = "none"

TimedNext ==
    \/ AnalysisStep \/ Submit \/ JobFinishes \/ Collect \/ Look \/ SleepTick \/ Wake \/ GiveUp
    \/ Deliver \/ Drop \/ Again

TimedSpec == TimedInit /\ [][TimedNext]_timedVars
-----------------------------------------------------------------------------
TimesTypeOK ==
    /\ phase \in {"analyze", "look", "sleep", "write", "sent", "dropped"}
    /\ waited \in Nat /\ slept \in 0..PollPeriod
    /\ finished \in BOOLEAN /\ finish \in 0..waited /\ gone \in BOOLEAN
    /\ status \in {"none", "job", "failed"}

(***************************************************************************)
(* A request is over, delivered or not, after the timeouts of its fetch    *)
(* and of its wait and less than one sleep; only a synchronous one with a  *)
(* page waits; and a wait gives up on a job only if the pool had deleted   *)
(* it or it was not over one sleep before the deadline (WaitForJob,        *)
(* performLinkCheck).                                                      *)
(***************************************************************************)
TimingInv ==
    /\ TimesTypeOK
    /\ Took < Timeout + Waits[wait] + PollPeriod
    /\ status = "failed" /\ finished /\ ~gone => finish + PollPeriod >= Waits[wait]
    /\ waited > 0 \/ Waiting => answer = 200 /\ mode = "sync"
    /\ phase = "analyze" => waited = 0 /\ status = "none" /\ ~finished
    /\ phase # "analyze" => answer # Unanswered
    /\ Waiting => status = "none"
    /\ phase = "sleep" => slept <= waited /\ waited - slept < Waits[wait]
    /\ phase = "look" => waited < Waits[wait] + PollPeriod
    /\ phase = "sleep" /\ finished => finish + slept >= waited
    /\ phase = "look" /\ finished => finish + PollPeriod >= waited

(***************************************************************************)
(* Violated: a wait that ends without the job must not "fail the analysis, *)
(* just mark check as failed" (service.go:232).  By default the wait is as *)
(* long as WriteTimeout, so the answer that says so cannot be written.     *)
(***************************************************************************)
FailedChecksAreDelivered == status = "failed" => phase # "dropped"

(***************************************************************************)
(* Violated: Options.Timeout is the "Overall timeout (default: 30s)"       *)
(* (domain/analysis.go:19).  It covers the wait for the links alone.       *)
(***************************************************************************)
TimeoutIsOverall == Took <= Waits[wait]
=============================================================================
