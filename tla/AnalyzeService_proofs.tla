------------------------ MODULE AnalyzeService_proofs ------------------------
(***************************************************************************)
(* The invariants of AnalyzeService, proved for any numbers of requests    *)
(* and pages, any redirects and any times to live.                         *)
(***************************************************************************)
EXTENDS AnalyzeService, TLAPS

USE TTLAssumption, LagAssumption, RedirectAssumption, NoJobAssumption, URLsAssumption

LEMMA SomeURLExists == SomeURL \in URLs
  BY DEF SomeURL

\* What the service writes into a result leaves it a result.
LEMMA NewPageType == ASSUME NEW u \in URLs PROVE NewPage(u) \in Pages
  BY DEF NewPage, Pages

LEMMA WalkedType == ASSUME NEW p \in Pages PROVE Walked(p) \in Pages
  BY DEF Walked, Pages

LEMMA SubmittedType ==
  ASSUME NEW p \in Pages, NEW r \in Requests
  PROVE  [p EXCEPT !.job = r] \in Pages
  BY DEF Pages

LEMMA PendingType ==
  ASSUME NEW p \in Pages
  PROVE  [p EXCEPT !.status = "pending"] \in Pages
  BY DEF Pages

LEMMA CheckedType ==
  ASSUME NEW p \in Pages
  PROVE  [p EXCEPT !.checked = TRUE] \in Pages
  BY DEF Pages

\* A page that was just walked is ready to be stored.
LEMMA WalkedNoCheck ==
  ASSUME NEW p \in Pages, p.job = NoJob, ~p.checked
  PROVE  NoCheck(Walked(p)) /\ Walked(p).walked
  BY DEF Walked, Pages, NoCheck

\* A unit of time moves an entry from its time to live to its age, or ends it.
LEMMA OlderType ==
  ASSUME NEW e \in Entries \cup {Miss}
  PROVE  Older(e) \in Entries \cup {Miss}
<1>1. CASE e = Miss \/ e.left = 0
  BY <1>1 DEF Older
<1>2. CASE ~(e = Miss \/ e.left = 0)
  <2>1. e \in Entries /\ e.left - 1 \in Nat /\ e.age + 1 \in Nat
    BY <1>2 DEF Entries
  <2>2. Older(e) = [e EXCEPT !.left = e.left - 1, !.age = e.age + 1]
    BY <1>2 DEF Older
  <2> QED
    BY <2>1, <2>2 DEF Entries
<1> QED
  BY <1>1, <1>2

LEMMA OlderKeeps ==
  ASSUME NEW e \in Entries \cup {Miss}, Older(e) # Miss
  PROVE  /\ e # Miss /\ Older(e).page = e.page
         /\ Older(e).age + Older(e).left <= e.age + e.left
         /\ e.age + e.left \in Int /\ Older(e).age + Older(e).left \in Int
  BY DEF Older, Entries

\* Before the first request no tier holds a page and nobody holds a result.
LEMMA ServiceInvInit == Init => ServiceInv
<1> SUFFICES ASSUME Init PROVE ServiceInv
  OBVIOUS
<1> USE SomeURLExists DEF Init, CacheInit
<1>1. TypeOK
  <2>1. result \in [Requests -> Pages]
    BY NewPageType
  <2>2. late \in [Requests -> 0..Lag]
    OBVIOUS
  <2>3. age \in [Requests -> Nat]
    OBVIOUS
  <2>4. /\ at \in [Requests -> Places]
        /\ url \in [Requests -> URLs]
        /\ checks \in [Requests -> Options]
    BY DEF Places, Options
  <2> QED
    BY <2>1, <2>2, <2>3, <2>4 DEF TypeOK
<1>2. TiersInv /\ FillingInv /\ RequestInv /\ CompletedMeansChecked
  BY DEF TiersInv, FillingInv, RequestInv, CompletedMeansChecked
<1> QED
  BY <1>1, <1>2 DEF ServiceInv

\* A request that failed or is forgotten leaves nothing behind.
LEMMA ResetKeeps ==
  ASSUME ServiceInv, NEW r \in Requests \ filling, NEW to \in {"new", "failed"},
         Reset(r, to), UNCHANGED cacheVars
  PROVE  ServiceInv'
<1> USE SomeURLExists DEF ServiceInv, Reset, Move, cacheVars
<1>1. TypeOK'
  <2>1. result' \in [Requests -> Pages]
    BY NewPageType DEF TypeOK
  <2>2. late' \in [Requests -> 0..Lag]
    BY DEF TypeOK
  <2>3. age' \in [Requests -> Nat]
    BY DEF TypeOK
  <2>4. /\ at' \in [Requests -> Places]
        /\ url' \in [Requests -> URLs]
        /\ checks' \in [Requests -> Options]
    BY DEF TypeOK, Places, Options
  <2> QED
    BY <2>1, <2>2, <2>3, <2>4 DEF TypeOK
<1>2. TiersInv'
  BY DEF TiersInv, NoCheck, MaxAge, HasL1, HasL2
<1>3. FillingInv'
  BY DEF TypeOK, FillingInv
<1>4. RequestInv'
  BY DEF TypeOK, RequestInv, NoCheck, MaxAge
<1>5. CompletedMeansChecked'
  BY DEF TypeOK, CompletedMeansChecked
<1> QED
  BY <1>1, <1>2, <1>3, <1>4, <1>5

\* Every step of a request, of a backfill, of the tiers and of time keeps the
\* invariant.
LEMMA ServiceInvNext == ServiceInv /\ [Next]_vars => ServiceInv'
<1> SUFFICES ASSUME ServiceInv, [Next]_vars PROVE ServiceInv'
  OBVIOUS
<1> USE SomeURLExists
    DEF ServiceInv, cacheVars, requestVars, HasL1, HasL2, URLs, Options, Running, Storing, Places
<1>1. ASSUME NEW r \in Requests, NEW u \in URLs, Analyze(r, u) PROVE ServiceInv'
  <2> USE <1>1 DEF Analyze, Move
  <2>1. TypeOK'
    BY DEF TypeOK, Pages, Entries
  <2>2. TiersInv'
    BY DEF TypeOK, TiersInv, Pages, Entries, FillingInv, RequestInv, NoCheck, MaxAge
  <2>3. FillingInv'
    BY DEF TypeOK, TiersInv, Pages, Entries, FillingInv
  <2>4. RequestInv'
    BY DEF TypeOK, TiersInv, Pages, Entries, FillingInv, RequestInv, NoCheck, MaxAge
  <2>5. CompletedMeansChecked'
    BY DEF TypeOK, Pages, RequestInv, CompletedMeansChecked
  <2> QED
    BY <2>1, <2>2, <2>3, <2>4, <2>5
<1>2. ASSUME NEW r \in Requests, LookupL1(r) PROVE ServiceInv'
  <2> USE <1>2 DEF LookupL1, HitL1, Receive, Move
  <2>1. TypeOK'
    BY ZenonT(40) DEF TypeOK, Pages, Entries
  <2>2. TiersInv'
    BY DEF TypeOK, TiersInv, Pages, Entries, FillingInv, RequestInv, NoCheck, MaxAge
  <2>3. FillingInv'
    BY DEF TypeOK, TiersInv, Pages, Entries, FillingInv
  <2>4. RequestInv'
    BY DEF TypeOK, TiersInv, Pages, Entries, FillingInv, RequestInv, NoCheck, MaxAge
  <2>5. CompletedMeansChecked'
    BY DEF TypeOK, Pages, RequestInv, CompletedMeansChecked
  <2> QED
    BY <2>1, <2>2, <2>3, <2>4, <2>5
<1>3. ASSUME NEW r \in Requests, LookupL2(r) PROVE ServiceInv'
  <2> USE <1>3 DEF LookupL2, HitL2, MissL2, Receive, Move
  <2>1. TypeOK'
    <3>1. l2[url[r]] # Miss => l2[url[r]].page \in Pages /\ l2[url[r]].age \in Nat
      BY DEF TypeOK, Entries
    <3>2. age' \in [Requests -> Nat] /\ result' \in [Requests -> Pages]
      BY <3>1 DEF TypeOK
    <3>3. at' \in [Requests -> Places] /\ filling' \subseteq Requests
      BY DEF TypeOK
    <3>4. UNCHANGED <<mode, l1, l2, late, url, checks>>
      OBVIOUS
    <3> QED
      BY <3>2, <3>3, <3>4 DEF TypeOK
  <2>2. TiersInv'
    BY DEF TypeOK, TiersInv, Pages, Entries, FillingInv, RequestInv, NoCheck, MaxAge
  <2>3. FillingInv'
    BY DEF TypeOK, TiersInv, Pages, Entries, FillingInv
  <2>4. RequestInv'
    BY DEF TypeOK, TiersInv, Pages, Entries, FillingInv, RequestInv, NoCheck, MaxAge
  <2>5. CompletedMeansChecked'
    BY DEF TypeOK, Pages, RequestInv, CompletedMeansChecked
  <2> QED
    BY <2>1, <2>2, <2>3, <2>4, <2>5
<1>4. ASSUME NEW r \in Requests, Fetch(r) PROVE ServiceInv'
  <2>1. CASE Reset(r, "failed") /\ UNCHANGED cacheVars
    <3>1. r \notin filling
      BY <1>4 DEF Fetch, FillingInv
    <3> QED
      BY <2>1, <3>1, ResetKeeps
  <2>2. CASE /\ at[r] = "fetch" /\ at' = [at EXCEPT ![r] = "walk"]
             /\ result' = [result EXCEPT ![r] = NewPage(FinalURL(url[r]))]
             /\ UNCHANGED <<cacheVars, url, checks, age>>
    <3> DEFINE page == NewPage(FinalURL(url[r]))
    <3>1. page \in Pages /\ page.job = NoJob /\ ~page.checked
      BY NewPageType DEF TypeOK, FinalURL, NewPage
    <3>0. /\ at[r] = "fetch" /\ at' = [at EXCEPT ![r] = "walk"]
          /\ result' = [result EXCEPT ![r] = page]
          /\ UNCHANGED <<cacheVars, url, checks, age>>
      BY <2>2
    <3> HIDE DEF page
    <3> USE <3>0, <3>1
    <3>2. TypeOK'
      BY DEF TypeOK
    <3>3. TiersInv'
      BY DEF TiersInv, NoCheck, MaxAge
    <3>4. FillingInv'
      BY DEF TypeOK, FillingInv
    <3>5. RequestInv'
      BY DEF TypeOK, RequestInv, MaxAge
    <3>6. CompletedMeansChecked'
      BY DEF TypeOK, CompletedMeansChecked
    <3> QED
      BY <3>2, <3>3, <3>4, <3>5, <3>6
  <2> QED
    BY <1>4, <2>1, <2>2 DEF Fetch, Move
<1>5. ASSUME NEW r \in Requests, Walk(r) PROVE ServiceInv'
  <2>1. CASE Reset(r, "failed") /\ UNCHANGED cacheVars
    <3>1. r \notin filling
      BY <1>5 DEF Walk, FillingInv
    <3> QED
      BY <2>1, <3>1, ResetKeeps
  <2>2. CASE /\ at[r] = "walk" /\ at' = [at EXCEPT ![r] = "storeL1"]
             /\ result' = [result EXCEPT ![r] = Walked(result[r])]
             /\ UNCHANGED <<cacheVars, url, checks, age>>
    <3> DEFINE page == Walked(result[r])
    <3>1. page \in Pages /\ NoCheck(page) /\ page.walked
      BY <2>2, WalkedType, WalkedNoCheck DEF TypeOK, RequestInv
    <3>0. /\ at[r] = "walk" /\ at' = [at EXCEPT ![r] = "storeL1"]
          /\ result' = [result EXCEPT ![r] = page]
          /\ UNCHANGED <<cacheVars, url, checks, age>>
      BY <2>2
    <3> HIDE DEF page
    <3> USE <3>0, <3>1
    <3>2. TypeOK'
      BY DEF TypeOK
    <3>3. TiersInv'
      BY DEF TiersInv, NoCheck, MaxAge
    <3>4. FillingInv'
      BY DEF TypeOK, FillingInv
    <3>5. RequestInv'
      BY DEF TypeOK, RequestInv, MaxAge
    <3>6. CompletedMeansChecked'
      BY DEF TypeOK, CompletedMeansChecked
    <3> QED
      BY <3>2, <3>3, <3>4, <3>5, <3>6
  <2> QED
    BY <1>5, <2>1, <2>2 DEF Walk, Move
<1>6. ASSUME NEW r \in Requests, StoreL1(r) PROVE ServiceInv'
  <2> USE <1>6 DEF StoreL1, SetL1, Entry, Move
  <2>1. TypeOK'
    BY DEF TypeOK, Pages, Entries
  <2>2. TiersInv'
    BY DEF TypeOK, TiersInv, Pages, Entries, FillingInv, RequestInv, NoCheck, MaxAge
  <2>3. FillingInv'
    BY DEF TypeOK, TiersInv, Pages, Entries, FillingInv
  <2>4. RequestInv'
    BY DEF TypeOK, TiersInv, Pages, Entries, FillingInv, RequestInv, NoCheck, MaxAge
  <2>5. CompletedMeansChecked'
    BY DEF TypeOK, Pages, RequestInv, CompletedMeansChecked
  <2> QED
    BY <2>1, <2>2, <2>3, <2>4, <2>5
<1>7. ASSUME NEW r \in Requests, StoreL2(r) PROVE ServiceInv'
  <2> USE <1>7 DEF StoreL2, SetL2, Entry, Move
  <2>1. TypeOK'
    BY DEF TypeOK, Pages, Entries
  <2>2. TiersInv'
    BY DEF TypeOK, TiersInv, Pages, Entries, FillingInv, RequestInv, NoCheck, MaxAge
  <2>3. FillingInv'
    BY DEF TypeOK, TiersInv, Pages, Entries, FillingInv
  <2>4. RequestInv'
    BY DEF TypeOK, TiersInv, Pages, Entries, FillingInv, RequestInv, NoCheck, MaxAge
  <2>5. CompletedMeansChecked'
    BY DEF TypeOK, Pages, RequestInv, CompletedMeansChecked
  <2> QED
    BY <2>1, <2>2, <2>3, <2>4, <2>5
<1>8. ASSUME NEW r \in Requests, NEW option \in Options, SubmitJob(r, option) PROVE ServiceInv'
  <2> USE <1>8 DEF SubmitJob, Move
  <2>1. TypeOK'
    <3>1. [result[r] EXCEPT !.job = r] \in Pages
      BY SubmittedType DEF TypeOK
    <3>2. result' \in [Requests -> Pages]
      BY <3>1 DEF TypeOK
    <3>3. at' \in [Requests -> Places] /\ checks' \in [Requests -> Options]
      BY DEF TypeOK
    <3>4. UNCHANGED <<mode, l1, l2, filling, late, url, age>>
      OBVIOUS
    <3> QED
      BY <3>2, <3>3, <3>4 DEF TypeOK
  <2>2. TiersInv'
    BY DEF TypeOK, TiersInv, Pages, Entries, FillingInv, RequestInv, NoCheck, MaxAge
  <2>3. FillingInv'
    BY SMTT(30) DEF TypeOK, TiersInv, Pages, Entries, FillingInv
  <2>4. RequestInv'
    BY DEF TypeOK, TiersInv, Pages, Entries, FillingInv, RequestInv, NoCheck, MaxAge
  <2>5. CompletedMeansChecked'
    BY DEF TypeOK, Pages, RequestInv, CompletedMeansChecked
  <2> QED
    BY <2>1, <2>2, <2>3, <2>4, <2>5
<1>9. ASSUME NEW r \in Requests, MarkPending(r) PROVE ServiceInv'
  <2> USE <1>9 DEF MarkPending, Move
  <2>1. TypeOK'
    <3>1. [result[r] EXCEPT !.status = "pending"] \in Pages
      BY PendingType DEF TypeOK
    <3> QED
      BY <3>1 DEF TypeOK
  <2>2. TiersInv'
    BY DEF TypeOK, TiersInv, Pages, Entries, FillingInv, RequestInv, NoCheck, MaxAge
  <2>3. FillingInv'
    BY DEF TypeOK, TiersInv, Pages, Entries, FillingInv
  <2>4. RequestInv'
    BY DEF TypeOK, TiersInv, Pages, Entries, FillingInv, RequestInv, NoCheck, MaxAge
  <2>5. CompletedMeansChecked'
    BY DEF TypeOK, Pages, RequestInv, CompletedMeansChecked
  <2> QED
    BY <2>1, <2>2, <2>3, <2>4, <2>5
<1>10. ASSUME NEW r \in Requests, Timeout(r) PROVE ServiceInv'
  <2> USE <1>10 DEF Timeout, Move
  <2>1. TypeOK'
    BY DEF TypeOK, Pages, Entries
  <2>2. TiersInv'
    BY DEF TypeOK, TiersInv, Pages, Entries, FillingInv, RequestInv, NoCheck, MaxAge
  <2>3. FillingInv'
    BY DEF TypeOK, TiersInv, Pages, Entries, FillingInv
  <2>4. RequestInv'
    BY DEF TypeOK, TiersInv, Pages, Entries, FillingInv, RequestInv, NoCheck, MaxAge
  <2>5. CompletedMeansChecked'
    BY DEF TypeOK, Pages, RequestInv, CompletedMeansChecked
  <2> QED
    BY <2>1, <2>2, <2>3, <2>4, <2>5
<1>11. ASSUME NEW r \in Requests, JobEnds(r) PROVE ServiceInv'
  <2> USE <1>11 DEF JobEnds, Move
  <2>1. TypeOK'
    BY DEF TypeOK, Pages, Entries
  <2>2. TiersInv'
    BY DEF TypeOK, TiersInv, Pages, Entries, FillingInv, RequestInv, NoCheck, MaxAge
  <2>3. FillingInv'
    BY DEF TypeOK, TiersInv, Pages, Entries, FillingInv
  <2>4. RequestInv'
    BY DEF TypeOK, TiersInv, Pages, Entries, FillingInv, RequestInv, NoCheck, MaxAge
  <2>5. CompletedMeansChecked'
    BY DEF TypeOK, Pages, RequestInv, CompletedMeansChecked
  <2> QED
    BY <2>1, <2>2, <2>3, <2>4, <2>5
<1>12. ASSUME NEW r \in Requests, TakeStatus(r) PROVE ServiceInv'
  <2> USE <1>12 DEF TakeStatus, Move
  <2>1. TypeOK'
    BY SMTT(30) DEF TypeOK, Pages, Entries
  <2>2. TiersInv'
    BY DEF TypeOK, TiersInv, Pages, Entries, FillingInv, RequestInv, NoCheck, MaxAge
  <2>3. FillingInv'
    BY DEF TypeOK, TiersInv, Pages, Entries, FillingInv
  <2>4. RequestInv'
    BY DEF TypeOK, TiersInv, Pages, Entries, FillingInv, RequestInv, NoCheck, MaxAge
  <2>5. CompletedMeansChecked'
    BY DEF TypeOK, Pages, RequestInv, CompletedMeansChecked
  <2> QED
    BY <2>1, <2>2, <2>3, <2>4, <2>5
<1>13. ASSUME NEW r \in Requests, TakeResult(r) PROVE ServiceInv'
  <2> USE <1>13 DEF TakeResult, Move
  <2>1. TypeOK'
    <3>1. [result[r] EXCEPT !.checked = TRUE] \in Pages
      BY CheckedType DEF TypeOK
    <3> QED
      BY <3>1 DEF TypeOK
  <2>2. TiersInv'
    BY DEF TypeOK, TiersInv, Pages, Entries, FillingInv, RequestInv, NoCheck, MaxAge
  <2>3. FillingInv'
    BY DEF TypeOK, TiersInv, Pages, Entries, FillingInv
  <2>4. RequestInv'
    BY DEF TypeOK, TiersInv, Pages, Entries, FillingInv, RequestInv, NoCheck, MaxAge
  <2>5. CompletedMeansChecked'
    BY DEF TypeOK, Pages, RequestInv, CompletedMeansChecked
  <2> QED
    BY <2>1, <2>2, <2>3, <2>4, <2>5
<1>14. ASSUME NEW r \in Requests, BackfillL1(r) PROVE ServiceInv'
  <2> USE <1>14 DEF BackfillL1, Backfill, Entry
  <2>1. TypeOK'
    BY DEF TypeOK, Pages, Entries
  <2>2. TiersInv'
    BY DEF TypeOK, TiersInv, Pages, Entries, FillingInv, RequestInv, NoCheck, MaxAge
  <2>3. FillingInv'
    BY DEF TypeOK, TiersInv, Pages, Entries, FillingInv
  <2>4. RequestInv'
    BY DEF TypeOK, TiersInv, Pages, Entries, FillingInv, RequestInv, NoCheck, MaxAge
  <2>5. CompletedMeansChecked'
    BY DEF TypeOK, Pages, RequestInv, CompletedMeansChecked
  <2> QED
    BY <2>1, <2>2, <2>3, <2>4, <2>5
<1>15. ASSUME NEW r \in Requests, Forget(r) PROVE ServiceInv'
  BY <1>15, ResetKeeps DEF Forget
<1>16. ASSUME NEW k \in Keys, Lose(k) /\ UNCHANGED requestVars PROVE ServiceInv'
  <2> USE <1>16 DEF Lose
  <2>1. TypeOK'
    BY DEF TypeOK, Pages, Entries
  <2>2. TiersInv'
    <3>1. ASSUME NEW i \in Keys PROVE l1'[i] \in {l1[i], Miss} /\ l2'[i] \in {l2[i], Miss}
      BY DEF TypeOK
    <3> QED
      BY <3>1 DEF TiersInv, NoCheck, MaxAge
  <2>3. FillingInv'
    BY DEF TypeOK, TiersInv, Pages, Entries, FillingInv
  <2>4. RequestInv'
    BY DEF TypeOK, TiersInv, Pages, Entries, FillingInv, RequestInv, NoCheck, MaxAge
  <2>5. CompletedMeansChecked'
    BY DEF TypeOK, Pages, RequestInv, CompletedMeansChecked
  <2> QED
    BY <2>1, <2>2, <2>3, <2>4, <2>5
<1>17. ASSUME Tick PROVE ServiceInv'
  <2> USE <1>17 DEF Tick, CacheTick
  <2>1. TypeOK'
    BY OlderType DEF TypeOK
  <2>2. TiersInv'
    <3>1. ASSUME NEW i \in Keys, l1'[i] # Miss
          PROVE  /\ l1[i] # Miss /\ l1'[i].page = l1[i].page
                 /\ l1'[i].age + l1'[i].left <= l1[i].age + l1[i].left
                 /\ l1'[i].age + l1'[i].left \in Int /\ l1[i].age + l1[i].left \in Int
      BY <3>1, OlderKeeps DEF TypeOK
    <3>2. ASSUME NEW i \in Keys, l2'[i] # Miss
          PROVE  /\ l2[i] # Miss /\ l2'[i].page = l2[i].page
                 /\ l2'[i].age + l2'[i].left <= l2[i].age + l2[i].left
                 /\ l2'[i].age + l2'[i].left \in Int /\ l2[i].age + l2[i].left \in Int
      BY <3>2, OlderKeeps DEF TypeOK
    <3>3. MaxAge' = MaxAge /\ MaxAge \in Nat /\ mode' = mode
      BY DEF MaxAge
    <3> QED
      BY <3>1, <3>2, <3>3 DEF TiersInv, NoCheck
  <2>3. FillingInv'
    BY DEF TypeOK, TiersInv, Pages, Entries, FillingInv
  <2>4. RequestInv'
    BY DEF TypeOK, TiersInv, Pages, Entries, FillingInv, RequestInv, NoCheck, MaxAge
  <2>5. CompletedMeansChecked'
    BY DEF TypeOK, Pages, RequestInv, CompletedMeansChecked
  <2> QED
    BY <2>1, <2>2, <2>3, <2>4, <2>5
<1>18. ASSUME UNCHANGED vars PROVE ServiceInv'
  <2> USE <1>18 DEF vars
  <2>1. TypeOK'
    BY DEF TypeOK, Pages, Entries
  <2>2. TiersInv'
    BY DEF TypeOK, TiersInv, Pages, Entries, FillingInv, RequestInv, NoCheck, MaxAge
  <2>3. FillingInv'
    BY DEF TypeOK, TiersInv, Pages, Entries, FillingInv
  <2>4. RequestInv'
    BY DEF TypeOK, TiersInv, Pages, Entries, FillingInv, RequestInv, NoCheck, MaxAge
  <2>5. CompletedMeansChecked'
    BY DEF TypeOK, Pages, RequestInv, CompletedMeansChecked
  <2> QED
    BY <2>1, <2>2, <2>3, <2>4, <2>5
<1> QED
  BY <1>1, <1>2, <1>3, <1>4, <1>5, <1>6, <1>7, <1>8, <1>9, <1>10,
     <1>11, <1>12, <1>13, <1>14, <1>15, <1>16, <1>17, <1>18
  DEF Next, RequestStep

(***************************************************************************)
(* The inductive invariant of Service.Analyze over the page cache.         *)
(***************************************************************************)
THEOREM ServiceInvCorrect == Spec => []ServiceInv
  BY ServiceInvInit, ServiceInvNext, PTL DEF Spec

(***************************************************************************)
(* No tier holds a page, and so none is served, that is older than the     *)
(* times to live on its way allow, with every store on that way as late as *)
(* assumed: time passes during requests and while backfills are pending    *)
(* (MultiCache.GetHTML and its goroutine, SetHTML, tryCache).              *)
(***************************************************************************)
THEOREM AgeCorrect == Spec => []CachedAgeBounded
<1>1. ServiceInv => CachedAgeBounded
  <2> SUFFICES ASSUME ServiceInv, NEW k \in Keys
               PROVE  /\ l1[k] # Miss => l1[k].age <= MaxAge
                      /\ l2[k] # Miss => l2[k].age <= TTL + Lag
    BY DEF CachedAgeBounded
  <2>1. MaxAge \in Nat
    BY DEF MaxAge
  <2>2. ASSUME NEW e \in Entries, NEW n \in Nat, e.age + e.left <= n PROVE e.age <= n
    BY <2>2 DEF Entries
  <2> QED
    BY <2>1, <2>2 DEF ServiceInv, TypeOK, TiersInv
<1> QED
  BY <1>1, ServiceInvCorrect, PTL

(***************************************************************************)
(* Redis, and a memory cache on its own, hold no page with a link check    *)
(* (SetHTML in fetchAndAnalyze, before performLinkCheck).                  *)
(***************************************************************************)
THEOREM SharedPagesCorrect == Spec => []SharedPagesHoldNoCheck
<1>1. ServiceInv => SharedPagesHoldNoCheck
  BY DEF ServiceInv, TiersInv, SharedPagesHoldNoCheck
<1> QED
  BY <1>1, ServiceInvCorrect, PTL

(***************************************************************************)
(* Neither a tier nor an answered request holds a page whose fetch or      *)
(* whose walk failed (fetchAndAnalyze).                                    *)
(***************************************************************************)
THEOREM WalkedCorrect == Spec => []OnlyWalkedPagesServed
<1>1. ServiceInv => OnlyWalkedPagesServed
  BY DEF ServiceInv, TiersInv, RequestInv, OnlyWalkedPagesServed
<1> QED
  BY <1>1, ServiceInvCorrect, PTL

(***************************************************************************)
(* A synchronous request that says its links were checked holds the result *)
(* of its own job (performLinkCheck).                                      *)
(***************************************************************************)
THEOREM HonestCorrect == Spec => []CompletedMeansChecked
<1>1. ServiceInv => CompletedMeansChecked
  BY DEF ServiceInv
<1> QED
  BY <1>1, ServiceInvCorrect, PTL
=============================================================================
