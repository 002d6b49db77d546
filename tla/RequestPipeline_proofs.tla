------------------------ MODULE RequestPipeline_proofs ------------------------
(***************************************************************************)
(* The book-keeping of the middleware, proved for any number of concurrent *)
(* requests and any status codes.                                          *)
(***************************************************************************)
EXTENDS RequestPipeline, FiniteSetTheorems, TLAPS

USE RequestsAssumption, CodesAssumption

\* The middleware begins with an empty gauge and nobody inside.
LEMMA GaugeInit == Init => ActiveIsExact
<1> SUFFICES ASSUME Init PROVE ActiveIsExact
  OBVIOUS
<1>1. TypeOK
  BY DEF Init, TypeOK, Places
<1>2. Inside = {}
  BY DEF Init, Inside
<1> QED
  BY <1>1, <1>2, FS_EmptySet DEF Init, ActiveIsExact

\* A status that is written keeps the writers' types, whoever has been first.
LEMMA WriterTypes ==
    ASSUME TypeOK, NEW r \in Requests
    PROVE  /\ \A c \in Codes \cup {200} : Send(r, c) => wire' \in [Requests -> Codes \cup {0, 200}]
           /\ \A c \in Codes \cup {200} : WriteHeader(r, c) =>
                /\ wire' \in [Requests -> Codes \cup {0, 200}]
                /\ seen' \in [Requests -> Codes \cup {200}]
                /\ begun' \in [Requests -> BOOLEAN]
           /\ Write(r) =>
                /\ wire' \in [Requests -> Codes \cup {0, 200}]
                /\ seen' \in [Requests -> Codes \cup {200}]
                /\ begun' \in [Requests -> BOOLEAN]
<1>1. ASSUME NEW c \in Codes \cup {200}, Send(r, c) PROVE wire' \in [Requests -> Codes \cup {0, 200}]
  BY <1>1 DEF Send, TypeOK
<1>2. ASSUME NEW c \in Codes \cup {200}, WriteHeader(r, c)
      PROVE  seen' \in [Requests -> Codes \cup {200}] /\ begun' \in [Requests -> BOOLEAN]
  BY <1>2 DEF WriteHeader, TypeOK
<1>3. ASSUME Write(r)
      PROVE  seen' \in [Requests -> Codes \cup {200}] /\ begun' \in [Requests -> BOOLEAN]
  BY <1>3 DEF Write, TypeOK
<1> QED
  BY <1>1, <1>2, <1>3 DEF WriteHeader, Write

\* Every step keeps the types.
LEMMA TypeNext == TypeOK /\ [Next]_vars => TypeOK'
<1> SUFFICES ASSUME TypeOK, [Next]_vars PROVE TypeOK'
  OBVIOUS
<1> USE DEF TypeOK, Places, Go, books, writers
<1>1. ASSUME NEW r \in Requests, Arrive(r) PROVE TypeOK'
  BY <1>1 DEF Arrive
<1>2. ASSUME NEW r \in Requests, Preflight(r) \/ PassCORS(r) \/ EnterMetrics(r) PROVE TypeOK'
  BY <1>2, WriterTypes DEF Preflight, PassCORS, EnterMetrics
<1>3. ASSUME NEW r \in Requests, Respond(r) \/ RenderPage(r) \/ RenderError(r) PROVE TypeOK'
  BY <1>3, WriterTypes DEF Respond, RenderPage, RenderError
<1>4. ASSUME NEW r \in Requests, TemplateEnds(r) \/ TemplateFails(r) \/ Panic(r) PROVE TypeOK'
  BY <1>4, WriterTypes DEF TemplateEnds, TemplateFails, Panic
<1>5. ASSUME NEW r \in Requests, LeaveMetrics(r) \/ Log(r) PROVE TypeOK'
  BY <1>5 DEF LeaveMetrics, Log
<1>6. ASSUME NEW r \in Requests, Unwind(r) \/ Recover(r) PROVE TypeOK'
  BY <1>6 DEF Unwind, Recover, Send
<1>7. CASE UNCHANGED vars
  BY <1>7 DEF vars
<1> QED
  BY <1>1, <1>2, <1>3, <1>4, <1>5, <1>6, <1>7 DEF Next

Counting == {"handler", "template", "returned", "panicked"}

\* One request that enters or leaves Metrics moves the gauge by one.
LEMMA InsideMoves ==
    ASSUME TypeOK, NEW r \in Requests, metricsOn' = metricsOn,
           NEW q \in Places, at' = [at EXCEPT ![r] = q]
    PROVE  /\ metricsOn /\ q \in Counting /\ at[r] \notin Counting =>
                Cardinality(Inside') = Cardinality(Inside) + 1
           /\ metricsOn /\ q \notin Counting /\ at[r] \in Counting =>
                Cardinality(Inside') = Cardinality(Inside) - 1
           /\ ~metricsOn \/ (q \in Counting <=> at[r] \in Counting) =>
                Cardinality(Inside') = Cardinality(Inside)
<1>1. IsFiniteSet(Inside) /\ Cardinality(Inside) \in Nat
  BY FS_Subset, FS_CardinalityType DEF Inside
<1>2. CASE metricsOn /\ q \in Counting /\ at[r] \notin Counting
  <2>1. Inside' = Inside \cup {r} /\ r \notin Inside
    BY <1>2 DEF TypeOK, Inside, Counting
  <2> QED
    BY ZenonT(40), <1>1, <1>2, <2>1, FS_AddElement
<1>3. CASE metricsOn /\ q \notin Counting /\ at[r] \in Counting
  <2>1. Inside' = Inside \ {r} /\ r \in Inside
    BY <1>3 DEF TypeOK, Inside, Counting
  <2> QED
    BY ZenonT(40), <1>1, <1>3, <2>1, FS_RemoveElement
<1>4. CASE ~metricsOn \/ (q \in Counting <=> at[r] \in Counting)
  <2>1. Inside' = Inside
    BY <1>4 DEF TypeOK, Inside, Counting
  <2> QED
    BY <1>4, <2>1
<1> QED
  BY <1>2, <1>3, <1>4

\* Where the metrics are off no request waits for them.
MetricsPlace == \A r \in Requests : at[r] = "metrics" => metricsOn

\* Each step moves the gauge as it moves the request.
LEMMA GaugeNext == ActiveIsExact /\ MetricsPlace /\ [Next]_vars => ActiveIsExact' /\ MetricsPlace'
<1> SUFFICES ASSUME ActiveIsExact, MetricsPlace, [Next]_vars PROVE ActiveIsExact' /\ MetricsPlace'
  OBVIOUS
<1>1. TypeOK /\ TypeOK' /\ active = Cardinality(Inside)
  BY TypeNext DEF ActiveIsExact
<1>2. MetricsPlace'
  BY <1>1 DEF MetricsPlace, TypeOK, Next, vars, Go, books, writers, Arrive, Preflight, PassCORS,
     EnterMetrics, Respond, RenderPage, RenderError, TemplateEnds, TemplateFails, Panic,
     LeaveMetrics, Log, Unwind, Recover
<1>3. CASE UNCHANGED vars
  BY <1>1, <1>2, <1>3 DEF vars, Inside, ActiveIsExact
<1>4. ASSUME NEW r \in Requests, EnterMetrics(r) PROVE active' = Cardinality(Inside')
  <2>1. metricsOn /\ metricsOn' = metricsOn /\ at[r] = "metrics" /\ at' = [at EXCEPT ![r] = "handler"]
    BY <1>4 DEF EnterMetrics, Go, MetricsPlace
  <2> QED
    BY ZenonT(40), <1>1, <1>4, <2>1, InsideMoves DEF EnterMetrics, Counting, Places
<1>5. ASSUME NEW r \in Requests, LeaveMetrics(r) PROVE active' = Cardinality(Inside')
  <2>1. metricsOn' = metricsOn /\ at[r] = "returned" /\ at' = [at EXCEPT ![r] = "unwinding"]
    BY <1>5 DEF LeaveMetrics, Go
  <2> QED
    BY ZenonT(40), <1>1, <1>5, <2>1, InsideMoves DEF LeaveMetrics, Counting, Places, TypeOK
<1>6. ASSUME NEW r \in Requests, Unwind(r) PROVE active' = Cardinality(Inside')
  <2>1. metricsOn' = metricsOn /\ at[r] = "panicked" /\ at' = [at EXCEPT ![r] = "recovering"]
    BY <1>6 DEF Unwind, Go
  <2> QED
    BY ZenonT(40), <1>1, <1>6, <2>1, InsideMoves DEF Unwind, Counting, Places, TypeOK
<1>7. ASSUME NEW r \in Requests,
             \/ Arrive(r) \/ Preflight(r) \/ PassCORS(r) \/ Respond(r) \/ RenderPage(r) \/ RenderError(r)
             \/ TemplateEnds(r) \/ TemplateFails(r) \/ Panic(r) \/ Log(r) \/ Recover(r)
      PROVE  active' = Cardinality(Inside')
  <2>1. active' = active /\ metricsOn' = metricsOn
    BY <1>7 DEF Arrive, Preflight, PassCORS, Respond, RenderPage, RenderError, TemplateEnds,
       TemplateFails, Panic, Log, Recover, books
  <2>2. PICK q \in Places : /\ at' = [at EXCEPT ![r] = q]
                            /\ ~metricsOn \/ (q \in Counting <=> at[r] \in Counting)
    BY <1>7 DEF Arrive, Preflight, PassCORS, Respond, RenderPage, RenderError, TemplateEnds,
       TemplateFails, Panic, Log, Recover, Go, Counting, Places
  <2> QED
    BY ZenonT(40), <1>1, <2>1, <2>2, InsideMoves
<1> QED
  BY <1>1, <1>2, <1>3, <1>4, <1>5, <1>6, <1>7 DEF Next, ActiveIsExact

(***************************************************************************)
(* The gauge of active requests is exact, whatever panics.                 *)
(***************************************************************************)
THEOREM GaugeCorrect == Spec => []ActiveIsExact
<1>1. Init => MetricsPlace
  BY DEF Init, MetricsPlace
<1> QED
  BY <1>1, GaugeInit, GaugeNext, PTL DEF Spec
-----------------------------------------------------------------------------
\* What is written and recorded of a request by the time it is at a place.
Book(r) ==
    /\ at[r] \in {"cors", "metrics", "handler"} => wire[r] = 0 /\ ~begun[r] /\ seen[r] = 200
    /\ at[r] \notin {"idle", "done"} => logged[r] = 0 /\ (at[r] # "unwinding" => counted[r] = 0)
    /\ at[r] \in {"panicked", "recovering"} => (begun[r] <=> wire[r] # 0)
    /\ at[r] = "template" => seen[r] = wire[r]
    /\ at[r] \in {"template", "returned", "unwinding"} =>
          begun[r] /\ wire[r] # 0 /\ seen[r] # 0 /\ (seen[r] = wire[r] \/ seen[r] \in {404, 500})
    /\ at[r] = "unwinding" => counted[r] \in {0, seen[r]}

BooksInv == (\A r \in Requests : Book(r)) /\ AnswersAreRecorded

\* The step leaves the books of the other requests as they are.
Only(r) ==
    \A s \in Requests \ {r} :
        /\ at'[s] = at[s] /\ wire'[s] = wire[s] /\ seen'[s] = seen[s] /\ begun'[s] = begun[s]
        /\ logged'[s] = logged[s] /\ counted'[s] = counted[s]

Recorded(r) ==
    at[r] = "done" =>
        /\ wire[r] # 0
        /\ ~begun[r] => wire[r] = 500 /\ logged[r] = 0
        /\ logged[r] # 0 => counted[r] \in {0, logged[r]}
        /\ logged[r] \notin {0, wire[r]} => logged[r] \in {404, 500}

Step(r) ==
    \/ Arrive(r) \/ Preflight(r) \/ PassCORS(r) \/ EnterMetrics(r)
    \/ Respond(r) \/ RenderPage(r) \/ RenderError(r) \/ TemplateEnds(r) \/ TemplateFails(r)
    \/ Panic(r) \/ LeaveMetrics(r) \/ Log(r) \/ Unwind(r) \/ Recover(r)

\* A request writes nothing of another.
LEMMA StepIsLocal == ASSUME TypeOK, NEW r \in Requests, Step(r) PROVE Only(r)
<1> USE DEF TypeOK, Only, Go, books, writers, WriteHeader, Write, Send
<1>1. CASE Arrive(r) \/ Preflight(r) \/ PassCORS(r) \/ EnterMetrics(r)
  BY <1>1 DEF Arrive, Preflight, PassCORS, EnterMetrics
<1>2. CASE Respond(r) \/ RenderPage(r) \/ RenderError(r)
  BY <1>2 DEF Respond, RenderPage, RenderError
<1>3. CASE TemplateEnds(r) \/ TemplateFails(r) \/ Panic(r)
  BY <1>3 DEF TemplateEnds, TemplateFails, Panic
<1>4. CASE LeaveMetrics(r) \/ Log(r) \/ Unwind(r) \/ Recover(r)
  BY <1>4 DEF LeaveMetrics, Log, Unwind, Recover
<1> QED
  BY <1>1, <1>2, <1>3, <1>4 DEF Step

\* Each step of a request keeps its own books.
LEMMA StepKeepsBook ==
    ASSUME TypeOK, NEW r \in Requests, Book(r), Recorded(r), Step(r)
    PROVE  Book(r)' /\ Recorded(r)'
<1> USE DEF TypeOK, Book, Recorded, Go, books, writers
<1>1. CASE Arrive(r)
  BY <1>1 DEF Arrive
<1>2. CASE Preflight(r)
  BY <1>2 DEF Preflight, WriteHeader, Send
<1>3. CASE PassCORS(r) \/ EnterMetrics(r)
  BY <1>3 DEF PassCORS, EnterMetrics
<1>4. CASE Respond(r)
  BY <1>4 DEF Respond, WriteHeader, Send
<1>5. CASE RenderPage(r)
  BY <1>5 DEF RenderPage, Write, Send
<1>6. CASE RenderError(r)
  BY <1>6 DEF RenderError, WriteHeader, Send
<1>7. CASE TemplateEnds(r)
  BY <1>7 DEF TemplateEnds
<1>8. CASE TemplateFails(r)
  BY <1>8 DEF TemplateFails, WriteHeader, Send
<1>9. CASE Panic(r)
  BY <1>9 DEF Panic
<1>10. CASE LeaveMetrics(r)
  BY <1>10 DEF LeaveMetrics
<1>11. CASE Log(r)
  BY <1>11 DEF Log
<1>12. CASE Unwind(r)
  BY <1>12 DEF Unwind
<1>13. CASE Recover(r)
  BY <1>13 DEF Recover, Send
<1> QED
  BY <1>1, <1>2, <1>3, <1>4, <1>5, <1>6, <1>7, <1>8, <1>9, <1>10, <1>11, <1>12, <1>13 DEF Step

\* The books of all requests are kept by a step of any of them.
LEMMA BooksNext == TypeOK /\ BooksInv /\ [Next]_vars => BooksInv'
<1> SUFFICES ASSUME TypeOK, BooksInv, [Next]_vars PROVE BooksInv'
  OBVIOUS
<1>1. \A r \in Requests : Book(r) /\ Recorded(r)
  BY DEF BooksInv, AnswersAreRecorded, Recorded
<1>2. \A r \in Requests : Book(r)' /\ Recorded(r)'
  <2>1. CASE UNCHANGED vars
    BY <1>1, <2>1 DEF vars, Book, Recorded
  <2>2. ASSUME NEW q \in Requests, Step(q) PROVE \A r \in Requests : Book(r)' /\ Recorded(r)'
    <3>1. Book(q)' /\ Recorded(q)'
      BY <1>1, <2>2, StepKeepsBook
    <3>2. ASSUME NEW r \in Requests \ {q} PROVE Book(r)' /\ Recorded(r)'
      BY <1>1, <2>2, StepIsLocal DEF Only, Book, Recorded
    <3> QED
      BY <3>1, <3>2
  <2> QED
    BY <2>1, <2>2 DEF Next, Step
<1> QED
  BY <1>2 DEF BooksInv, AnswersAreRecorded, Recorded

(***************************************************************************)
(* Every request is answered, and its records are those of its answer, for *)
(* any number of requests.                                                 *)
(***************************************************************************)
THEOREM RecordsCorrect == Spec => []AnswersAreRecorded
<1>1. Init => BooksInv
  BY DEF Init, BooksInv, Book, AnswersAreRecorded
<1>2. BooksInv => AnswersAreRecorded
  BY DEF BooksInv
<1>3. ActiveIsExact => TypeOK
  BY DEF ActiveIsExact
<1> QED
  BY <1>1, <1>2, <1>3, BooksNext, GaugeCorrect, PTL DEF Spec
=============================================================================
