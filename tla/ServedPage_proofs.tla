--------------------------- MODULE ServedPage_proofs ---------------------------
(***************************************************************************)
(* The keys of the page cache, for URLs with any hosts, ports, paths and   *)
(* queries: plain URLs that have one key are URLs of one page, and those   *)
(* of one page have one key if they are spelled as usual.  From that, what *)
(* a request is served.                                                    *)
(***************************************************************************)
EXTENDS ServedPage, TLAPS

\* A path in the usual spelling: as long, with its slashes where they were.
LEMMA SpelledPath ==
    ASSUME NEW p \in Seq(STRING)
    PROVE  /\ Spelled(p) \in Seq(STRING) /\ Len(Spelled(p)) = Len(p)
           /\ \A i \in 1..Len(p) : /\ Spelled(p)[i] \notin DOMAIN Names
                                   /\ Spelled(p)[i] = "/" <=> p[i] = "/"
<1> DEFINE s == Spelled(p)
<1>1. s = [i \in 1..Len(p) |-> IF p[i] \in DOMAIN Names THEN Names[p[i]] ELSE p[i]]
  BY DEF Spelled
<1>2. ASSUME NEW i \in 1..Len(p)
      PROVE  s[i] \in STRING /\ s[i] \notin DOMAIN Names /\ (s[i] = "/" <=> p[i] = "/")
  <2>1. p[i] \in STRING
    OBVIOUS
  <2> QED
    BY <1>1, <2>1, NamesAssumption
<1> HIDE DEF s
<1>3. s \in [1..Len(p) -> STRING]
  BY <1>1, <1>2
<1>4. s \in Seq(STRING) /\ Len(s) = Len(p)
  BY <1>3
<1> QED
  BY <1>2, <1>4 DEF s

\* A path without escaped letters is in the usual spelling.
LEMMA SpelledStays ==
    ASSUME NEW S, NEW p \in Seq(S), \A i \in 1..Len(p) : p[i] \notin DOMAIN Names
    PROVE  Spelled(p) = p
<1>1. Spelled(p) = [i \in 1..Len(p) |-> p[i]]
  BY DEF Spelled
<1> QED
  BY <1>1

LEMMA RootIsUsual == Spelled(<<"/">>) = <<"/">>
<1> DEFINE root == <<"/">>
<1>1. root \in Seq({"/"})
  OBVIOUS
<1>2. Len(root) = 1 /\ root[1] = "/"
  OBVIOUS
<1>3. "/" \notin DOMAIN Names
  BY NamesAssumption
<1> HIDE DEF root
<1>4. \A i \in 1..Len(root) : root[i] \notin DOMAIN Names
  BY <1>2, <1>3
<1>5. Spelled(root) = root
  BY <1>1, <1>4, SpelledStays
<1> QED
  BY <1>5 DEF root

LEMMA PlainPath ==
    ASSUME NEW u \in URLs, Plain(u)
    PROVE  /\ u.target.path \in Seq(STRING)
           /\ Decoded(u.target.path) = Spelled(u.target.path)
<1>1. u.target.path \in Seq(STRING)
  BY TargetsAssumption DEF URLs
<1>2. \A i \in DOMAIN u.target.path : u.target.path[i] # Escaped
  BY DEF Plain, ToSet
<1>3. Decoded(u.target.path) = [i \in DOMAIN u.target.path |-> Spelled(u.target.path)[i]]
  BY <1>2 DEF Decoded
<1>4. Spelled(u.target.path) = [i \in DOMAIN u.target.path |-> Spelled(u.target.path)[i]]
  BY DEF Spelled
<1> QED
  BY <1>1, <1>3, <1>4

LEMMA UsualPath ==
    ASSUME NEW u \in URLs, Usual(u)
    PROVE  /\ u.target.path \in Seq(STRING)
           /\ Spelled(u.target.path) = u.target.path
           /\ Decoded(u.target.path) = u.target.path
<1>1. u.target.path \in Seq(STRING) /\ Decoded(u.target.path) = Spelled(u.target.path)
  BY PlainPath DEF Usual
<1>2. \A i \in 1..Len(u.target.path) : u.target.path[i] \notin DOMAIN Names
  BY <1>1 DEF Usual, ToSet
<1> QED
  BY <1>1, <1>2, SpelledStays

LEMMA PlainQuery ==
    ASSUME NEW u, Plain(u)
    PROVE  sortQueryParams(u.target.query) = Tally(u.target.query)
<1>1. {pair \in ToSet(u.target.query) : pair.parses} = ToSet(u.target.query)
  BY DEF Plain, ToSet
<1> QED
  BY <1>1 DEF sortQueryParams, Tally

\* The normal form of a path in terms of its slashes alone.
LEMMA Normalized ==
    ASSUME NEW p \in Seq(STRING), Decoded(p) = p
    PROVE  /\ p = <<>> => NormalPath(p) = <<"/">>
           /\ p = <<"/">> => NormalPath(p) = p
           /\ (Len(p) > 0 /\ p # <<"/">> /\ p[Len(p)] = "/") =>
                 NormalPath(p) = SubSeq(p, 1, Len(p) - 1)
           /\ (Len(p) > 0 /\ p[Len(p)] # "/") => NormalPath(p) = p
<1>1. p = <<>> <=> Len(p) = 0
  OBVIOUS
<1>2. <<"/">> # <<>>
  OBVIOUS
<1> QED
  BY <1>1, <1>2 DEF NormalPath, Last, Front

LEMMA SameAuthority ==
    ASSUME NEW u \in URLs, NEW v \in URLs
    PROVE  /\ Authority(u) = Authority(v) => SameOrigin(u, v)
           /\ (SameOrigin(u, v) /\ u.port # "empty" /\ v.port # "empty") =>
                 Authority(u) = Authority(v)
  BY DEF URLs, Authority, SameOrigin, Effective, DefaultPort

\* What NormalPath takes away from a path, however its names are spelled:
\* nothing, or the slash at its end.
LEMMA TakenAway ==
    ASSUME NEW p \in Seq(STRING), Decoded(p) = Spelled(p)
    PROVE  LET path == Spelled(p)
               normal == Spelled(NormalPath(p)) IN
           \/ path = <<>> /\ normal = <<"/">>
           \/ normal \in Seq(STRING) /\ normal # <<>> /\ path = Append(normal, "/")
           \/ normal = path /\ path # <<>>
<1> DEFINE s == Spelled(p)
           front == SubSeq(s, 1, Len(s) - 1)
<1>1. /\ s \in Seq(STRING) /\ Len(s) = Len(p)
      /\ \A i \in 1..Len(p) : s[i] \notin DOMAIN Names /\ (s[i] = "/" <=> p[i] = "/")
  BY SpelledPath
<1>2. p = <<>> <=> Len(p) = 0
  OBVIOUS
<1>3. s = <<>> <=> Len(p) = 0
  BY <1>1
<1>4. CASE p = <<>>
  <2>1. NormalPath(p) = <<"/">>
    BY <1>4 DEF NormalPath
  <2>2. Spelled(<<"/">>) = <<"/">>
    BY RootIsUsual
  <2> QED
    BY <1>2, <1>3, <1>4, <2>1, <2>2
<1>5. CASE p # <<>> /\ ~(p # <<"/">> /\ s[Len(s)] = "/")
  <2>1. NormalPath(p) = p
    BY <1>5 DEF NormalPath, Last
  <2> QED
    BY <1>2, <1>3, <1>5, <2>1
<1>6. CASE p # <<>> /\ p # <<"/">> /\ s[Len(s)] = "/"
  <2>1. NormalPath(p) = front
    <3>1. Last(Decoded(p)) = "/" /\ Front(Decoded(p)) = front
      BY <1>6 DEF Last, Front
    <3> QED
      BY <1>6, <3>1 DEF NormalPath
  <2>2. Len(s) \in Nat /\ Len(s) >= 2
    <3>1. Len(p) \in Nat /\ Len(p) > 0
      BY <1>2, <1>6
    <3>2. ASSUME Len(p) = 1 PROVE FALSE
      <4>1. p[1] = "/"
        BY <1>1, <1>6, <3>2
      <4>2. p = <<p[1]>>
        BY <3>2
      <4> QED
        BY <1>6, <4>1, <4>2
    <3> QED
      BY <1>1, <3>1, <3>2
  <2> HIDE DEF s
  <2>3. /\ front \in Seq(STRING) /\ Len(front) = Len(s) - 1
        /\ \A i \in 1..Len(front) : front[i] = s[i]
        /\ s = Append(front, "/")
    BY <1>1, <1>6, <2>2
  <2>4. front # <<>>
    <3> HIDE DEF front
    <3>1. Len(front) # 0
      BY <2>2, <2>3
    <3> QED
      BY <3>1
  <2>5. Spelled(front) = front
    <3>1. \A i \in 1..Len(front) : front[i] \notin DOMAIN Names
      BY <1>1, <2>2, <2>3
    <3> QED
      BY <2>3, <3>1, SpelledStays
  <2> QED
    BY <2>1, <2>3, <2>4, <2>5 DEF s
<1> QED
  BY <1>4, <1>5, <1>6

LEMMA Extended ==
    ASSUME NEW p \in Seq(STRING), NEW q \in Seq(STRING), p = Append(Root(q), "/")
    PROVE  /\ Root(q) \in Seq(STRING) /\ Root(q) # <<>>
           /\ ~ (Len(p) < 2)
<1>1. Root(q) \in Seq(STRING) /\ Root(q) # <<>>
  BY DEF Root
<1>2. Len(Root(q)) \in Nat \ {0} /\ Len(p) = Len(Root(q)) + 1
  BY <1>1
<1> QED
  BY <1>1, <1>2

LEMMA OneKeyOnePath ==
    ASSUME NEW p \in Seq(STRING), NEW q \in Seq(STRING),
           Decoded(p) = Spelled(p), Decoded(q) = Spelled(q), NormalPath(p) = NormalPath(q)
    PROVE  SamePath(Spelled(p), Spelled(q))
<1> DEFINE s == Spelled(p)
           t == Spelled(q)
           normal == Spelled(NormalPath(p))
<1>1. \/ s = <<>> /\ normal = <<"/">>
      \/ normal # <<>> /\ s = Append(normal, "/")
      \/ normal = s /\ s # <<>>
  BY TakenAway
<1>2. \/ t = <<>> /\ normal = <<"/">>
      \/ normal # <<>> /\ t = Append(normal, "/")
      \/ normal = t /\ t # <<>>
  BY TakenAway
<1>3. <<"/">> # <<>>
  OBVIOUS
<1> HIDE DEF s, t, normal
<1>4. SamePath(s, t)
  BY <1>1, <1>2, <1>3, ZenonT(30) DEF SamePath, Root
<1> QED
  BY <1>4 DEF s, t

LEMMA TwoSlashes ==
    ASSUME NEW e \in Seq(STRING), Len(e) = 2, e[1] = "/", e[2] = "/"
    PROVE  e = <<"/", "/">>
<1> DEFINE f == <<"/", "/">>
<1>1. f \in Seq(STRING) /\ Len(f) = 2 /\ f[1] = "/" /\ f[2] = "/"
  OBVIOUS
<1> HIDE DEF f
<1>2. \A i \in 1..2 : e[i] = f[i]
  BY <1>1
<1>3. e = f
  BY <1>1, <1>2
<1> QED
  BY <1>3 DEF f

\* Written with at most one slash at its end, a path has the key of the path
\* without it.
LEMMA OnePathOneKey ==
    ASSUME NEW p \in Seq(STRING), NEW q \in Seq(STRING), Decoded(p) = p, Decoded(q) = q,
           p = Append(Root(q), "/"),
           SubSeq(p, Len(p) - 1, Len(p)) # <<"/", "/">>
    PROVE  NormalPath(p) = NormalPath(q)
<1> DEFINE r == Root(q)
<1>1. r \in Seq(STRING) /\ r # <<>>
  BY Extended
<1>2. Len(r) \in Nat \ {0} /\ Len(p) = Len(r) + 1 /\ p[Len(p)] = "/" /\ p[Len(r)] = r[Len(r)]
  BY <1>1
<1>3. r[Len(r)] # "/"
  <2>1. ASSUME r[Len(r)] = "/" PROVE FALSE
    <3> DEFINE end == SubSeq(p, Len(p) - 1, Len(p))
    <3>1. end \in Seq(STRING) /\ Len(end) = 2
      BY <1>2
    <3>2. end[1] = p[Len(p) - 1] /\ end[2] = p[Len(p)]
      BY <1>2
    <3>3. p[Len(p) - 1] = "/" /\ p[Len(p)] = "/"
      BY <1>2, <2>1
    <3>4. end # <<"/", "/">>
      OBVIOUS
    <3> HIDE DEF end
    <3> QED
      BY <3>1, <3>2, <3>3, <3>4, TwoSlashes
  <2> QED
    BY <2>1
<1>4. q = r
  BY <1>3 DEF Root
<1>5. NormalPath(q) = q
  BY <1>2, <1>3, <1>4, Normalized
<1>6. p # <<"/">>
  BY <1>2
<1>7. NormalPath(p) = SubSeq(p, 1, Len(p) - 1)
  <2>1. Len(p) > 0
    BY <1>2
  <2> QED
    BY <1>2, <1>6, <2>1, Normalized
<1>8. SubSeq(p, 1, Len(p) - 1) = r
  BY <1>1, <1>2
<1> QED
  BY <1>4, <1>5, <1>7, <1>8

LEMMA OneKeyOnePage ==
    ASSUME NEW u \in URLs, NEW v \in URLs, Plain(u), Plain(v),
           NormalizeURL(u) = NormalizeURL(v)
    PROVE  SamePage(u, v)
<1>1. /\ Authority(u) = Authority(v)
      /\ NormalPath(u.target.path) = NormalPath(v.target.path)
      /\ sortQueryParams(u.target.query) = sortQueryParams(v.target.query)
  BY DEF NormalizeURL
<1>2. SamePath(Spelled(u.target.path), Spelled(v.target.path))
  BY <1>1, PlainPath, OneKeyOnePath
<1> QED
  BY <1>1, <1>2, PlainQuery, SameAuthority DEF SamePage

LEMMA OnePageOneKey ==
    ASSUME NEW u \in URLs, NEW v \in URLs, Usual(u), Usual(v), OneSlash(u), OneSlash(v),
           SamePage(u, v)
    PROVE  NormalizeURL(u) = NormalizeURL(v)
<1> DEFINE p == u.target.path
           q == v.target.path
<1>1. /\ p \in Seq(STRING) /\ q \in Seq(STRING) /\ Decoded(p) = p /\ Decoded(q) = q
      /\ SamePath(p, q)
  BY UsualPath DEF SamePage
<1>2. NormalPath(p) = NormalPath(q)
  <2>1. CASE Root(p) = Root(q)
    <3>1. p = q \/ (p \in {<<>>, <<"/">>} /\ q \in {<<>>, <<"/">>})
      BY <2>1 DEF Root
    <3> QED
      BY <1>1, <3>1, Normalized
  <2>2. CASE p = Append(Root(q), "/")
    <3>1. ~ (Len(p) < 2)
      BY <1>1, <2>2, Extended
    <3>2. SubSeq(p, Len(p) - 1, Len(p)) # <<"/", "/">>
      BY <3>1 DEF OneSlash
    <3> QED
      BY <1>1, <2>2, <3>2, OnePathOneKey
  <2>3. CASE q = Append(Root(p), "/")
    <3>1. ~ (Len(q) < 2)
      BY <1>1, <2>3, Extended
    <3>2. SubSeq(q, Len(q) - 1, Len(q)) # <<"/", "/">>
      BY <3>1 DEF OneSlash
    <3> QED
      BY <1>1, <2>3, <3>2, OnePathOneKey
  <2> QED
    BY <1>1, <2>1, <2>2, <2>3 DEF SamePath
<1>3. Authority(u) = Authority(v)
  BY SameAuthority DEF SamePage, Usual
<1>4. sortQueryParams(u.target.query) = sortQueryParams(v.target.query)
  BY PlainQuery DEF SamePage, Usual
<1>5. u.target.mark = v.target.mark
  <2>1. u.target.mark \in BOOLEAN /\ v.target.mark \in BOOLEAN
    BY TargetsAssumption DEF URLs
  <2> QED
    BY <2>1 DEF Usual
<1> QED
  BY <1>2, <1>3, <1>4, <1>5 DEF NormalizeURL
-----------------------------------------------------------------------------
IsAnalysis(a) ==
    /\ a = [url |-> a.url, base |-> a.base, links |-> a.links,
            truncated |-> a.truncated, cacheHit |-> a.cacheHit]
    /\ a.url \in URLs

\* An entry is under the key of the URL of its page, a hit is of the key that
\* was asked for, and what is being fetched is not what the entry is for.
ServedInv ==
    /\ stored = Nothing \/ (IsAnalysis(stored.page) /\ stored.key = NormalizeURL(stored.page.url))
    /\ at \in {"asked", "fetching", "served"} => url \in URLs
    /\ at # "served" => hit = FALSE
    /\ at = "served" /\ hit =>
          result.url \in URLs /\ NormalizeURL(result.url) = NormalizeURL(url)
    /\ at = "fetching" => stored = Nothing \/ stored.key # NormalizeURL(url)

LEMMA ServedInvInductive == Spec => []ServedInv
<1>1. Init => ServedInv
  BY DEF Init, ServedInv
<1>2. ServedInv /\ [Next]_vars => ServedInv'
  <2> SUFFICES ASSUME ServedInv, [Next]_vars
               PROVE  ServedInv'
    OBVIOUS
  <2>1. ASSUME NEW u \in URLs, NEW n \in Limits, Analyze(u, n)
        PROVE  ServedInv'
    BY <2>1 DEF Analyze, ServedInv
  <2>2. ASSUME NEW tier \in {"memory", "redis"}, tryCache(tier)
        PROVE  ServedInv'
    <3>1. at = "asked" /\ url \in URLs /\ hit = FALSE /\ UNCHANGED <<stored, url, limit>>
      BY <2>2 DEF tryCache, ServedInv
    <3>2. CASE stored # Nothing /\ stored.key = NormalizeURL(url)
      <4>1. at' = "served" /\ result' = [stored.page EXCEPT !.cacheHit = @ \/ tier = "memory"]
        BY <2>2, <3>2 DEF tryCache
      <4>2. IsAnalysis(stored.page) /\ stored.key = NormalizeURL(stored.page.url)
        BY <3>2 DEF ServedInv
      <4>3. result'.url = stored.page.url
        BY <4>1, <4>2 DEF IsAnalysis
      <4> QED
        BY <3>1, <3>2, <4>1, <4>2, <4>3 DEF ServedInv, IsAnalysis
    <3>3. CASE ~ (stored # Nothing /\ stored.key = NormalizeURL(url))
      <4>1. at' = "fetching" /\ hit' = FALSE
        BY <2>2, <3>1, <3>3 DEF tryCache
      <4> QED
        BY <3>1, <3>3, <4>1 DEF ServedInv
    <3> QED
      BY <3>2, <3>3
  <2>3. ASSUME fetchAndAnalyze
        PROVE  ServedInv'
    <3>1. at = "fetching" /\ url \in URLs /\ hit' = FALSE /\ url' = url
      BY <2>3 DEF fetchAndAnalyze, ServedInv
    <3>2. CASE at' = "failed" /\ stored' = stored
      BY <3>1, <3>2 DEF ServedInv
    <3>3. ASSUME NEW final \in {url} \cup Landings, NEW found \in Found, at' = "served",
                 result' = Collected(url, final, limit, found),
                 \/ stored' = [key |-> NormalizeURL(result'.url), page |-> result']
                 \/ stored' = stored
          PROVE  ServedInv'
      <4>1. IsAnalysis(result')
        BY <3>1, <3>3, LandingsAssumption DEF Collected, IsAnalysis
      <4>2. stored' = Nothing \/
              (IsAnalysis(stored'.page) /\ stored'.key = NormalizeURL(stored'.page.url))
        BY <3>3, <4>1 DEF ServedInv
      <4> QED
        BY <3>1, <3>3, <4>2 DEF ServedInv, IsAnalysis
    <3> QED
      BY <2>3, <3>2, <3>3 DEF fetchAndAnalyze
  <2>4. ASSUME NextRequest
        PROVE  ServedInv'
    BY <2>4 DEF NextRequest, ServedInv, IsAnalysis
  <2>5. ASSUME Expire
        PROVE  ServedInv'
    BY <2>5 DEF Expire, ServedInv, IsAnalysis
  <2>6. ASSUME UNCHANGED vars
        PROVE  ServedInv'
    BY <2>6 DEF vars, ServedInv, IsAnalysis
  <2> QED
    BY <2>1, <2>2, <2>3, <2>4, <2>5, <2>6 DEF Next
<1> QED
  BY <1>1, <1>2, PTL DEF Spec

(***************************************************************************)
(* Whatever was asked for, fetched, redirected, stored and evicted before, *)
(* a hit is the page of the URL that was asked for, for all plain URLs     *)
(* (tryCache, fetchAndAnalyze, NormalizeURL).                              *)
(***************************************************************************)
THEOREM HitsAreOfTheirURL == Spec => []PagesAreOfTheirURL
<1>1. ServedInv => PagesAreOfTheirURL
  BY OneKeyOnePage DEF ServedInv, PagesAreOfTheirURL
<1> QED
  BY <1>1, ServedInvInductive, PTL

(***************************************************************************)
(* No URL of a page that is in the cache is fetched, with or without the   *)
(* default port and a slash at the end, if it is spelled as usual          *)
(* (tryCache, NormalizeURL).                                               *)
(***************************************************************************)
THEOREM NoPageIsFetchedTwice == Spec => []KeysMatchPages
<1>1. ServedInv => KeysMatchPages
  BY OnePageOneKey DEF ServedInv, IsAnalysis, KeysMatchPages
<1> QED
  BY <1>1, ServedInvInductive, PTL
=============================================================================
