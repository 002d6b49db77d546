--------------------------- MODULE MCRequests_proofs --------------------------
(***************************************************************************)
(* The invariants of PageFetch, AnalyzeRequest, RequestTiming and          *)
(* LinkRequest, for any status codes, limits and timeouts.  The fetch is   *)
(* proved apart from the request around it: it keeps FetchInv whoever      *)
(* calls it.  The time of a request rests on that of its analysis: the     *)
(* fetch is over within Timeout, and the answer does not change while      *)
(* links are waited for.  The check of a link is the instance L, with a    *)
(* client and limits of its own.                                           *)
(***************************************************************************)
EXTENDS MCRequests, TLAPS

USE CodesAssumption, LimitAssumption, TimeoutAssumption, MaxBodyAssumption, LinksAssumption

\* Nothing has been sent yet.
LEMMA FetchInvInit == FetchInit => FetchInv
  BY DEF FetchInit, ClientInit, FetchInv, FetchTypeOK, ClientTypeOK, Sizes, Faults

\* A call of Fetch begins with the whole timeout, or ends without a request.
LEMMA FetchInvBegin == ASSUME FetchInv, NEW u, Fetch(u) PROVE FetchInv'
<1> USE DEF FetchInv, FetchTypeOK, ClientTypeOK, Failures
<1>0. at = "idle" /\ call = "none" /\ via = 0 /\ body = 0 /\ spent = 0 /\ fault = "none"
  BY DEF Fetch
<1>1. CASE at' = "asking" /\ Do /\ UNCHANGED <<size, body, fault, spent>>
  <2>1. 1 \in 0..MaxVia /\ Timeout \in 0..Timeout
    OBVIOUS
  <2> QED
    BY <1>0, <1>1, <2>1 DEF Do
<1>2. CASE \E f \in {"empty", "invalid", "connection"} : FailWith(f) /\ UNCHANGED clientVars
  <2>1. PICK f \in {"empty", "invalid", "connection"} : FailWith(f) /\ UNCHANGED clientVars
    BY <1>2
  <2> QED
    BY <1>0, <2>1 DEF FailWith, clientVars, Faults
<1> QED
  BY <1>1, <1>2 DEF Fetch

\* No more is read than LimitReader lets through.
LEMMA AvailableType == FetchInv => Available \in 0..(MaxBody + 1)
  BY DEF FetchInv, FetchTypeOK, Available, Sizes

\* Every step of a fetch keeps what a fetch promises.
LEMMA FetchInvNext == ASSUME FetchInv, FetchNext PROVE FetchInv'
<1> USE DEF FetchInv, FetchTypeOK, ClientTypeOK, Failures
<1>1. CASE CallFails
  BY <1>1 DEF CallFails, FailWith, clientVars, CtxErr, Faults
<1>2. CASE BadStatus
  BY <1>2 DEF BadStatus, FailWith, clientVars, Faults
<1>3. CASE GoodStatus
  BY <1>3 DEF GoodStatus, clientVars, Sizes, Available
<1>4. CASE ReadSome
  BY <1>4, AvailableType DEF ReadSome, clientVars, Available
<1>5. CASE ReadFails
  BY <1>5 DEF ReadFails, FailWith, clientVars, Faults
<1>6. CASE ReadEnds
  BY <1>6 DEF ReadEnds, clientVars, Available, Faults, Sizes
<1>7. CASE HostStep
  BY <1>7 DEF HostStep, TimerFires, Break, Follow, Respond, Fail, Available
<1>8. CASE Tick
  BY <1>8 DEF Tick, ClientTick, Available
<1> QED
  BY <1>1, <1>2, <1>3, <1>4, <1>5, <1>6, <1>7, <1>8 DEF FetchNext

\* What the fetcher does not do does not disturb it.
LEMMA FetchInvStutter == FetchInv /\ UNCHANGED fetchVars => FetchInv'
  BY DEF FetchInv, FetchTypeOK, ClientTypeOK, fetchVars, clientVars, Available
-----------------------------------------------------------------------------
\* The values of the options stay what the handlers can pass on.
LEMMA RequestInvInit == Init => RequestInv
<1> SUFFICES ASSUME Init PROVE RequestInv
  OBVIOUS
<1>1. FetchInv /\ at = "idle"
  BY FetchInvInit DEF Init, FetchInit
<1>2. TypeOK
  BY LinksAssumption DEF Init, TypeOK, URLs, Modes
<1> QED
  BY <1>1, <1>2 DEF Init, RequestInv

\* Decoding a request leaves the fetcher alone.
LEMMA DecodingStep ==
    ASSUME RequestInv, RestAnalyzes \/ WebAnalyzes \/ CliAnalyzes
    PROVE  RequestInv'
<1>1. PICK c \in {"rest", "web", "cli"}, u \in URLs, o \in Given \cup {NoOptions}, m \in Modes,
           l \in MaxLinks \cup {0, Default}, w \in {"30s", "5s"} :
        Request(c, u, o, m, l, w) /\ (c # "cli" => l > 0 /\ u # "empty")
  <2>1. \A max \in MaxLinks \cup {0} : Positive(max) \in MaxLinks \cup {Default} /\ Positive(max) > 0
    BY DEF Positive
  <2>2. \A o \in Given \cup {NoOptions} : RestMode(o) \in Modes /\ o.max \in MaxLinks \cup {0}
    <3>1. \A o \in Given \cup {NoOptions} : RestMode(o) \in Modes
      BY DEF RestMode, Modes
    <3>2. NoOptions.max = 0
      BY DEF NoOptions
    <3>3. \A o \in Given : o.max \in MaxLinks \cup {0}
      BY DEF Given
    <3> QED
      BY <3>1, <3>2, <3>3
  <2>3. CASE RestAnalyzes
    BY <2>1, <2>2, <2>3 DEF RestAnalyzes
  <2>4. CASE WebAnalyzes
    BY ZenonT(40), <2>1, <2>2, <2>4 DEF WebAnalyzes, Modes
  <2>5. CASE CliAnalyzes
    BY <2>2, <2>5 DEF CliAnalyzes, Modes
  <2> QED
    BY <2>3, <2>4, <2>5
<1>2. UNCHANGED <<fetchVars, answer>> /\ FetchInv' /\ at' = "idle" /\ answer = Unanswered
  BY <1>1, FetchInvStutter DEF Request, RequestInv, fetchVars
<1> QED
  BY <1>1, <1>2 DEF Request, RequestInv, TypeOK

\* Only a fetch that has begun and not ended takes steps.
LEMMA FetchIsRunning == ASSUME RequestInv, Fetching PROVE at \notin {"idle", "done"}
  BY DEF Fetching, FetchNext, RequestInv, FetchInv, CallFails, BadStatus, GoodStatus, ReadSome,
         ReadFails, ReadEnds, HostStep, TimerFires, Break, Follow, Respond, Fail, Tick, Failures

\* Every step of an analysis and of its client keeps the invariant.
LEMMA RequestInvNext == RequestInv /\ [Next]_vars => RequestInv'
<1> SUFFICES ASSUME RequestInv, [Next]_vars PROVE RequestInv'
  OBVIOUS
<1>1. ASSUME NEW c \in {"rest", "web"}, Reject(c) PROVE RequestInv'
  <2>1. FetchInv' /\ at' = "idle"
    BY <1>1, FetchInvStutter DEF Reject, RequestInv, fetchVars
  <2> QED
    BY <1>1, <2>1 DEF Reject, RequestInv, TypeOK, Unanswered
<1>2. CASE RestAnalyzes \/ WebAnalyzes \/ CliAnalyzes
  BY <1>2, DecodingStep
<1>3. CASE CacheHit
  <2>1. FetchInv' /\ at' = "idle"
    BY <1>3, FetchInvStutter DEF CacheHit, RequestInv, fetchVars
  <2> QED
    BY <1>3, <2>1 DEF CacheHit, Asking, RequestInv, TypeOK, requestVars
<1>4. CASE CacheMiss
  <2>1. FetchInv'
    BY <1>4, FetchInvBegin DEF CacheMiss, RequestInv
  <2>2. fault' = "empty" => url = "empty"
    BY <1>4 DEF CacheMiss, Fetch, FailWith, RequestInv, FetchInv
  <2>3. client \in {"rest", "web"} => url # "empty"
    BY <1>4 DEF CacheMiss, Asking, RequestInv, Unanswered
  <2> QED
    BY <1>4, <2>1, <2>2, <2>3 DEF CacheMiss, Asking, RequestInv, TypeOK, requestVars
<1>5. CASE Fetching
  <2>1. FetchInv'
    BY <1>5, FetchInvNext DEF Fetching, RequestInv
  <2>2. at # "idle" /\ at # "done"
    BY <1>5, FetchIsRunning
  <2>3. fault' \in {fault, "connection", "timeout", "status", "read", "large", "none"}
    BY <1>5 DEF Fetching, FetchNext, CallFails, BadStatus, GoodStatus, FailWith,
                ReadSome, ReadFails, ReadEnds, HostStep, Tick
  <2> QED
    BY <1>5, <2>1, <2>2, <2>3 DEF Fetching, RequestInv, TypeOK, requestVars
<1>6. CASE FetchFailed
  <2>1. FetchInv' /\ at' = "done" /\ fault' = fault
    BY <1>6, FetchInvStutter DEF FetchFailed, RequestInv, fetchVars
  <2>2. answer' \in {Exit, 400, 500, 502, 504}
    BY <1>6 DEF FetchFailed, Asking, Reported, StatusOf, RequestInv, TypeOK
  <2> QED
    BY <1>6, <2>1, <2>2 DEF FetchFailed, Asking, RequestInv, TypeOK, requestVars, Exit, Unanswered
<1>7. CASE BuildFails \/ Walked
  <2>1. FetchInv' /\ at' = "done" /\ fault' = fault
    BY <1>7, FetchInvStutter DEF BuildFails, Walked, Fetched, RequestInv, fetchVars
  <2>2. answer' \in {Exit, 200, 400, 422, 500}
    BY <1>7 DEF BuildFails, Walked, Fetched, Asking, Reported, RequestInv, TypeOK
  <2> QED
    BY <1>7, <2>1, <2>2
       DEF BuildFails, Walked, Fetched, Asking, RequestInv, TypeOK, requestVars, Exit, Unanswered
<1>8. CASE NextRequest
  <2>1. FetchInv'
    BY <1>8 DEF NextRequest, FetchInv, FetchTypeOK, ClientTypeOK, Sizes, Faults
  <2>2. TypeOK'
    BY ZenonT(40), <1>8 DEF NextRequest, RequestInv, TypeOK, URLs, Modes
  <2>3. client' = "none" /\ limit' = Default /\ at' = "idle" /\ answer' = Unanswered
    BY <1>8 DEF NextRequest
  <2> QED
    BY <2>1, <2>2, <2>3 DEF RequestInv
<1>9. CASE UNCHANGED vars
  <2>1. FetchInv'
    BY <1>9, FetchInvStutter DEF vars, RequestInv
  <2> QED
    BY <1>9, <2>1 DEF vars, fetchVars, requestVars, RequestInv, TypeOK
<1> QED
  BY <1>1, <1>2, <1>3, <1>4, <1>5, <1>6, <1>7, <1>8, <1>9 DEF Next

(***************************************************************************)
(* A fetched page is whole, a fetch is over when the timer is, and nothing *)
(* is answered in between.                                                 *)
(***************************************************************************)
THEOREM RequestInvCorrect == Spec => []RequestInv
  BY RequestInvInit, RequestInvNext, PTL DEF Spec

\* What the answer says once it has been given.
LEMMA AnswerNext == RequestInv /\ AnswerBlamesRightSide /\ [Next]_vars => AnswerBlamesRightSide'
<1> SUFFICES ASSUME RequestInv, AnswerBlamesRightSide, [Next]_vars PROVE AnswerBlamesRightSide'
  OBVIOUS
<1> USE DEF AnswerBlamesRightSide, Unanswered
<1>1. CASE UNCHANGED answer /\ answer = Unanswered
  BY <1>1
<1>2. ASSUME NEW c \in {"rest", "web"}, Reject(c) PROVE AnswerBlamesRightSide'
  BY <1>2 DEF Reject, RequestInv, FetchInv, fetchVars, clientVars
<1>3. CASE CacheHit
  BY <1>3 DEF CacheHit, fetchVars, clientVars
<1>4. CASE FetchFailed
  BY <1>4 DEF FetchFailed, Asking, Reported, StatusOf, RequestInv, TypeOK, FetchInv, FetchTypeOK,
              Faults, fetchVars, clientVars, requestVars, Exit
<1>5. CASE BuildFails \/ Walked
  BY <1>5 DEF BuildFails, Walked, Fetched, Asking, Reported, RequestInv, TypeOK, FetchInv, fetchVars,
              clientVars, requestVars, Exit
<1>6. CASE NextRequest
  BY <1>6 DEF NextRequest
<1>7. CASE UNCHANGED vars
  BY <1>7 DEF vars, fetchVars, clientVars, requestVars
<1>8. CASE Fetching \/ CacheMiss
  BY <1>1, <1>8, FetchIsRunning DEF Fetching, CacheMiss, Asking, RequestInv
<1> QED
  BY ZenonT(40), <1>1, <1>2, <1>3, <1>4, <1>5, <1>6, <1>7, <1>8
  DEF Next, RestAnalyzes, WebAnalyzes, CliAnalyzes,
     Request, RequestInv

(***************************************************************************)
(* The answer of the REST API blames the right side, for any codes, limits *)
(* and timeout.                                                            *)
(***************************************************************************)
THEOREM AnswerCorrect == Spec => []AnswerBlamesRightSide
<1>1. Init => AnswerBlamesRightSide
  BY DEF Init, AnswerBlamesRightSide, Unanswered
<1> QED
  BY <1>1, AnswerNext, RequestInvCorrect, PTL DEF Spec
-----------------------------------------------------------------------------
(* The time of a request *)

\* What the timing needs to know of an analysis.
LEMMA AnalysisBounds ==
    RequestInv => spent \in Nat /\ spent <= Timeout /\ Timeout \in Nat \ {0}
                  /\ Waits[wait] \in Nat \ {0} /\ PollPeriod \in Nat \ {0}
<1>1. RequestInv => wait \in {"30s", "5s"} /\ spent \in Nat /\ spent <= Timeout
  BY DEF RequestInv, TypeOK, FetchInv, FetchTypeOK
<1> QED
  BY <1>1, TimeoutAssumption, TimesAssumption DEF TimesAssumption

\* A request that begins has waited for nothing.
LEMMA TimingInvBegin ==
    ASSUME RequestInv', phase' = "analyze", waited' = 0, slept' = 0,
           finished' = FALSE, finish' = 0, gone' = FALSE, status' = "none"
    PROVE  TimingInv'
<1>1. /\ spent' \in Nat /\ spent' <= Timeout /\ Timeout \in Nat \ {0}
      /\ Waits[wait'] \in Nat \ {0} /\ PollPeriod \in Nat \ {0}
  <2>1. wait' \in {"30s", "5s"} /\ spent' \in Nat /\ spent' <= Timeout
    BY DEF RequestInv, TypeOK, FetchInv, FetchTypeOK
  <2> QED
    BY <2>1, TimeoutAssumption, TimesAssumption DEF TimesAssumption
<1>2. Took' < Timeout + Waits[wait'] + PollPeriod
  BY <1>1 DEF Took
<1>3. TimesTypeOK'
  <2>1. finished' \in BOOLEAN /\ gone' \in BOOLEAN
    OBVIOUS
  <2>2. slept' \in 0..PollPeriod /\ waited' \in Nat /\ finish' \in 0..waited'
    BY <1>1
  <2> QED
    BY <2>1, <2>2 DEF TimesTypeOK
<1> QED
  BY <1>2, <1>3 DEF TimingInv, Waiting

\* Every step of a request keeps TimingInv.
LEMMA TimingInvNext ==
    RequestInv /\ RequestInv' /\ TimingInv /\ [TimedNext]_timedVars => TimingInv'
<1> SUFFICES ASSUME RequestInv, RequestInv', TimingInv, [TimedNext]_timedVars PROVE TimingInv'
  OBVIOUS
<1>0. /\ spent \in Nat /\ spent <= Timeout /\ Timeout \in Nat \ {0}
      /\ Waits[wait] \in Nat \ {0} /\ PollPeriod \in Nat \ {0}
  BY AnalysisBounds
<1>1. CASE AnalysisStep
  <2>1. UNCHANGED timingVars /\ waited = 0 /\ status = "none" /\ ~finished /\ phase = "analyze"
    BY <1>1 DEF AnalysisStep, TimingInv
  <2>2. Took' < Timeout + Waits[wait'] + PollPeriod
    <3>1. wait' \in {"30s", "5s"} /\ spent' \in Nat /\ spent' <= Timeout
      BY DEF RequestInv, TypeOK, FetchInv, FetchTypeOK
    <3>2. Waits[wait'] \in Nat \ {0}
      BY <3>1, TimesAssumption DEF TimesAssumption
    <3> QED
      BY <1>0, <2>1, <3>1, <3>2 DEF Took, timingVars
  <2>3. TimesTypeOK'
    BY <2>1 DEF TimingInv, TimesTypeOK, timingVars
  <2> QED
    BY <2>1, <2>2, <2>3 DEF TimingInv, Waiting, timingVars
<1>2. CASE Again
  BY <1>2, TimingInvBegin DEF Again
<1>3. ASSUME UNCHANGED vars PROVE UNCHANGED <<spent, wait, answer, mode>>
  BY <1>3 DEF vars, fetchVars, requestVars
<1> USE <1>0, <1>3 DEF TimingInv, TimesTypeOK, Took, Waiting
<1>4. CASE Submit
  BY <1>4 DEF Submit
<1>5. CASE JobFinishes
  BY <1>5 DEF JobFinishes
<1>6. CASE Look
  BY <1>6 DEF Look
<1>7. CASE SleepTick
  BY <1>7 DEF SleepTick
<1>8. CASE Wake
  BY <1>8 DEF Wake
<1>9. CASE GiveUp
  BY <1>9 DEF GiveUp
<1>10. CASE Deliver \/ Drop
  BY <1>10 DEF Deliver, Drop
<1>11. CASE UNCHANGED timedVars
  BY <1>11 DEF timedVars, timingVars
<1>12. CASE Collect
  BY <1>12 DEF Collect
<1> QED
  BY <1>1, <1>2, <1>4, <1>5, <1>6, <1>7, <1>8, <1>9, <1>10, <1>11, <1>12 DEF TimedNext

\* The steps around an analysis leave it alone or are its own.
LEMMA AnalysisGoesOn == [TimedNext]_timedVars => [Next]_vars
  BY DEF TimedNext, timedVars, AnalysisStep, Submit, JobFinishes, Collect, Look, SleepTick, Wake, GiveUp,
         Deliver, Drop, Again, Next

(***************************************************************************)
(* Waiting for links and writing the answer changes nothing of what was    *)
(* proved of the analysis: its behaviours are those of AnalyzeRequest.     *)
(***************************************************************************)
THEOREM TimedImplementsAnalysis == TimedSpec => Spec
<1>1. TimedInit => Init
  BY DEF TimedInit
<1> QED
  BY <1>1, AnalysisGoesOn, PTL DEF TimedSpec, Spec

(***************************************************************************)
(* A request is over within the timeouts of its fetch and of its wait and  *)
(* one sleep, and gives up only on a job that was deleted or not over a    *)
(* sleep before the deadline (WaitForJob, performLinkCheck).               *)
(***************************************************************************)
THEOREM TimingInvCorrect == TimedSpec => []TimingInv
<1>1. TimedInit => RequestInv /\ TimingInv
  <2> SUFFICES ASSUME TimedInit PROVE RequestInv /\ TimingInv
    OBVIOUS
  <2>1. RequestInv
    BY RequestInvInit DEF TimedInit
  <2>2. /\ spent \in Nat /\ spent <= Timeout /\ Timeout \in Nat \ {0}
        /\ Waits[wait] \in Nat \ {0} /\ PollPeriod \in Nat \ {0}
    BY <2>1, AnalysisBounds
  <2>3. Took < Timeout + Waits[wait] + PollPeriod
    BY <2>2 DEF Took, TimedInit
  <2>4. TimesTypeOK
    <3>1. finished \in BOOLEAN /\ gone \in BOOLEAN
      BY DEF TimedInit
    <3>2. slept \in 0..PollPeriod /\ waited \in Nat /\ finish \in 0..waited
      BY <2>2 DEF TimedInit
    <3> QED
      BY <3>1, <3>2 DEF TimesTypeOK, TimedInit
  <2> QED
    BY <2>1, <2>3, <2>4 DEF TimingInv, TimedInit, Waiting
<1>2. RequestInv /\ TimingInv /\ [TimedNext]_timedVars => RequestInv' /\ TimingInv'
  BY AnalysisGoesOn, RequestInvNext, TimingInvNext
<1> QED
  BY <1>1, <1>2, PTL DEF TimedSpec
-----------------------------------------------------------------------------
(* The check of a link *)

USE LinkAssumption

\* What a call's end is translated to is an error of the right shape.
LEMMA OutcomeType == ASSUME L!TypeOK PROVE L!Outcome \in L!Errors
  BY ZenonT(40) DEF L!TypeOK, L!ClientTypeOK, L!Outcome, L!Errors,
                      L!NoError, L!HttpError, L!Wrapped, L!Prefixes, L!Words

\* The invariant holds when the link's goroutine has not called checkLink yet.
LEMMA LinkInvInit == L!Init => L!LinkInv
<1> SUFFICES ASSUME L!Init PROVE L!LinkInv
  OBVIOUS
<1>1. L!NoError \in L!Errors
  BY DEF L!NoError, L!Errors, L!Prefixes
<1> QED
  BY <1>1 DEF L!Init, L!ClientInit, L!LinkInv, L!TypeOK, L!ClientTypeOK

\* Every step of a check keeps the invariant.
LEMMA LinkInvNext == L!LinkInv /\ [L!Next]_(L!vars) => L!LinkInv'
<1> SUFFICES ASSUME L!LinkInv, [L!Next]_(L!vars) PROVE L!LinkInv'
  OBVIOUS
<1> USE DEF L!LinkInv, L!TypeOK, L!ClientTypeOK
<1>1. ASSUME NEW ws \in SUBSET L!Words, L!CheckLink(ws) PROVE L!LinkInv'
  <2>1. CASE L!Do /\ lat' = "asking" /\ UNCHANGED lerr
    BY <1>1, <2>1 DEF L!CheckLink, L!Do, L!Failures
  <2>2. CASE lat' = "done" /\ UNCHANGED L!clientVars
              /\ lerr' = [prefix |-> "invalid_url", code |-> 0, text |-> {"invalid_url"} \cup ws]
    <3>1. lerr' \in L!Errors
      BY <2>2 DEF L!Errors, L!Prefixes
    <3> QED
      BY <1>1, <2>2, <3>1 DEF L!CheckLink, L!clientVars
  <2> QED
    BY <1>1, <2>1, <2>2 DEF L!CheckLink
<1>2. CASE L!RequestEnds
  <2>1. CASE L!AskAgain /\ lmethod = "HEAD"
    <3>1. lspent \in Nat /\ lspent <= LinkTimeout /\ lleft' = LinkTimeout /\ lspent' = lspent
      BY <1>2, <2>1 DEF L!RequestEnds, L!Returned, L!AskAgain, L!Do
    <3>2. lcall' = "sent" /\ lcode' = 0 /\ lvia' = 1 /\ lat' = "asking" /\ lmethod' = "GET"
          /\ lwords' = llink /\ llink' = llink /\ lerr' = lerr
      BY <1>2, <2>1 DEF L!RequestEnds, L!Returned, L!AskAgain, L!Do
    <3>3. lspent' + lleft' <= 2 * LinkTimeout /\ lspent' <= 2 * LinkTimeout
      BY <3>1
    <3> QED
      BY <3>1, <3>2, <3>3
  <2>2. CASE L!GiveVerdict
    <3>1. L!Outcome \in L!Errors /\ L!Outcome' = L!Outcome /\ L!Ended'
      BY <1>2, <2>2, OutcomeType
         DEF L!RequestEnds, L!Returned, L!GiveVerdict, L!clientVars, L!Outcome,
             L!HttpError, L!Wrapped, L!SaysRefused, L!Ended
    <3>2. lspent' <= 2 * LinkTimeout
      BY <1>2 DEF L!RequestEnds, L!Returned
    <3> QED
      BY <1>2, <2>2, <3>1, <3>2 DEF L!RequestEnds, L!Returned, L!GiveVerdict, L!clientVars
  <2>3. (L!AskAgain /\ lmethod = "HEAD") \/ L!GiveVerdict
    BY <1>2 DEF L!RequestEnds
  <2> QED
    BY <2>1, <2>2, <2>3
<1>3. CASE L!Take
  <2>1. L!NoError \in L!Errors
    BY DEF L!NoError, L!Errors, L!Prefixes
  <2> QED
    BY <1>3, <2>1 DEF L!Take
<1>4. CASE L!Redirected
  BY <1>4 DEF L!Redirected, L!Follow, L!Fail, L!Failures, L!Ended
<1>5. CASE L!HostStep
  <2>1. lwords' \in SUBSET L!Words
    BY <1>5 DEF L!HostStep, L!Words
  <2>2. lcall = "sent" /\ lcode' \in LinkCodes \cup {0} /\ lvia' = lvia /\ lleft' = lleft
        /\ lcall' \in {"answered"} \cup L!Failures
    BY <1>5 DEF L!HostStep, L!TimerFires, L!Break, L!Fail, L!Respond, L!Failures
  <2>3. lat' = lat /\ lmethod' = lmethod /\ llink' = llink /\ lerr' = lerr /\ lspent' = lspent
    BY <1>5 DEF L!HostStep
  <2> QED
    BY <2>1, <2>2, <2>3 DEF L!Ended, L!Failures
<1>6. CASE L!Tick
  BY <1>6 DEF L!Tick, L!ClientTick, L!Ended, L!Failures
<1>7. CASE UNCHANGED L!vars
  BY <1>7 DEF L!vars, L!clientVars, L!Ended, L!Outcome, L!HttpError, L!Wrapped, L!SaysRefused
<1> QED
  BY <1>1, <1>2, <1>3, <1>4, <1>5, <1>6, <1>7 DEF L!Next

(***************************************************************************)
(* A link holds its goroutine for at most two timeouts.                    *)
(***************************************************************************)
THEOREM LinkInvCorrect == L!Spec => []L!LinkInv
  BY LinkInvInit, LinkInvNext, PTL DEF L!Spec

\* Both methods were refused when a refusal is the verdict.
Refused == lat = "done" /\ lerr.prefix = "http_" /\ lerr.code \in L!Refusals => lmethod = "GET"

LEMMA RefusedNext == L!LinkInv /\ Refused /\ [L!Next]_(L!vars) => Refused'
<1> SUFFICES ASSUME L!LinkInv, Refused, [L!Next]_(L!vars) PROVE Refused'
  OBVIOUS
<1> USE DEF Refused, L!LinkInv
<1>1. ASSUME NEW ws \in SUBSET L!Words, L!CheckLink(ws) PROVE Refused'
  BY <1>1 DEF L!CheckLink
<1>2. CASE L!RequestEnds
  BY <1>2 DEF L!RequestEnds, L!Returned, L!AskAgain, L!GiveVerdict, L!TypeOK
<1>3. CASE L!Take
  BY <1>3 DEF L!Take
<1>4. CASE L!Redirected \/ L!HostStep \/ L!Tick \/ UNCHANGED L!vars
  BY <1>4 DEF L!Redirected, L!HostStep, L!Tick, L!vars
<1> QED
  BY <1>1, <1>2, <1>3, <1>4 DEF L!Next

\* Of an innocuous URL the text says what ended the call.
LEMMA ReasonLemma ==
    ASSUME L!LinkInv, lat = "done", lwords = {}
    PROVE  L!extractReason(lerr) = L!TrueReason
<1>1. CASE lcall = "none" /\ lerr.prefix = "invalid_url" /\ lerr.text = {"invalid_url"}
  <2>1. L!NoError.prefix = ""
    BY DEF L!NoError
  <2> QED
    BY <1>1, <2>1 DEF L!extractReason, L!TrueReason
<1>2. CASE lcall = "answered" /\ lerr = L!Outcome
  <2>0. lcode \in Nat
    BY DEF L!LinkInv, L!TypeOK, L!ClientTypeOK
  <2>1. CASE lcode >= 200 /\ lcode < 400
    <3>1. lerr = L!NoError /\ lcode \in 200..399
      BY <1>2, <2>0, <2>1 DEF L!Outcome
    <3> QED
      BY <1>2, <3>1 DEF L!extractReason, L!TrueReason
  <2>2. CASE ~(lcode >= 200 /\ lcode < 400)
    <3>1. lerr = L!HttpError(lcode) /\ lcode \notin 200..399
      BY <1>2, <2>0, <2>2 DEF L!Outcome
    <3>2. lerr # L!NoError /\ lerr.prefix = "http_" /\ lerr.text = {"http_"}
      BY <3>1 DEF L!HttpError, L!NoError
    <3> QED
      BY <1>2, <3>1, <3>2 DEF L!extractReason, L!TrueReason
  <2> QED
    BY <2>1, <2>2
<1>3. CASE lcall \in L!Failures /\ lerr = L!Outcome
  <2> DEFINE cause == IF lcall \in {"timeout", "canceled"} THEN "timeout"
                      ELSE IF lcall = "refused" THEN "connection_refused" ELSE "network_error"
  <2>1. lerr = [prefix |-> cause, code |-> 0, text |-> {cause}]
    BY <1>3 DEF L!Outcome, L!Wrapped, L!SaysRefused, L!Failures
  <2>2. lerr # L!NoError /\ lerr.prefix = cause /\ lerr.text = {cause}
    BY <2>1 DEF L!NoError
  <2> QED
    BY <1>3, <2>2 DEF L!extractReason, L!TrueReason, L!Failures
<1> QED
  BY <1>1, <1>2, <1>3 DEF L!LinkInv, L!Ended

(***************************************************************************)
(* The verdict on a link is fair, for any codes, limits and timeouts.      *)
(***************************************************************************)
THEOREM VerdictCorrect == L!Spec => []L!VerdictIsFair
<1>1. L!Init => Refused
  BY DEF L!Init, Refused
<1>2. L!LinkInv /\ Refused => L!VerdictIsFair
  BY ReasonLemma DEF L!VerdictIsFair, Refused
<1> QED
  BY <1>1, <1>2, RefusedNext, LinkInvCorrect, PTL DEF L!Spec
-----------------------------------------------------------------------------
(* Both users together *)

\* A step of one leaves the other alone.
LEMMA EachOnItsOwn ==
    [MCNext]_<<timedVars, linkVars>> => [TimedNext]_timedVars /\ [L!Next]_(L!vars)
<1>1. UNCHANGED linkVars => UNCHANGED L!vars
  BY DEF linkVars, L!vars, L!clientVars
<1> QED
  BY <1>1 DEF MCNext

(***************************************************************************)
(* The two do not disturb each other: what either does is a behaviour of   *)
(* its own specification, so what was proved of it holds of both together. *)
(***************************************************************************)
THEOREM UsersAreApart == MCSpec => TimedSpec /\ L!Spec
<1>1. MCInit => TimedInit /\ L!Init
  BY DEF MCInit
<1> QED
  BY <1>1, EachOnItsOwn, PTL DEF MCSpec, TimedSpec, L!Spec

(***************************************************************************)
(* A goroutine of a job is held by one link for two timeouts at most, and  *)
(* a verdict is what ended the last call (checkLink).                      *)
(***************************************************************************)
THEOREM LinksAreBounded == MCSpec => []LinkInv
  BY UsersAreApart, LinkInvCorrect, PTL DEF LinkInv

(***************************************************************************)
(* A link is blamed for a refusal after both methods were refused, and the *)
(* reason is what ended the call unless a URL or a cause says otherwise    *)
(* (checkLink, extractReason).                                             *)
(***************************************************************************)
THEOREM LinksAreBlamedFairly == MCSpec => []VerdictIsFair
  BY UsersAreApart, VerdictCorrect, PTL DEF VerdictIsFair
=============================================================================
