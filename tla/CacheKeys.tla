------------------------------ MODULE CacheKeys ------------------------------
(***************************************************************************)
(* The keys of the page cache (internal/cache/keys.go): GetHTML and        *)
(* SetHTML of every tier find a page by the normal form of its URL.        *)
(*                                                                         *)
(* A URL is kept as far as NormalizeURL tells its parts apart.  A path is  *)
(* a sequence of names, "/" and "%2F", the slash of a name; a name may be  *)
(* spelled with letters escaped that need not be.  A query is a sequence   *)
(* of pairs, of which url.Values has those that parse, and an empty one    *)
(* may have its question mark.  The hash of a normal form stands for it.   *)
(***************************************************************************)
EXTENDS SequencesExt

CONSTANTS
    Hosts,    \* Hosts[h]: whether host h is an IPv6 address, in brackets
    Ports,    \* the ports a URL may have: "none", "empty" or a number
    Targets,  \* what follows them: records of a path, a query and a mark
    Names     \* Names[s]: the name that s spells with letters escaped

ASSUME TargetsAssumption ==
    \A t \in Targets : t.path \in Seq(STRING) /\ t.mark \in BOOLEAN

Escaped == "%2F"

ASSUME NamesAssumption ==
    \A s \in DOMAIN Names :
        s \notin {"/", Escaped} /\ Names[s] \in STRING \ ({"/", Escaped} \cup DOMAIN Names)

\* Capitals in the scheme and the host are lowered, and a fragment goes: a
\* URL is what is left.
URLs == [scheme : {"http", "https"}, host : DOMAIN Hosts, port : Ports, target : Targets]

DefaultPort(scheme) == IF scheme = "http" THEN "80" ELSE "443"

\* Scheme, host and port in lower case, without the default port of the
\* scheme: SplitHostPort takes the brackets off an address, and they return.
\* An empty port is none of the default ports, and stays.
Authority(url) ==
    [scheme |-> url.scheme, host |-> url.host,
     port |-> IF url.port = DefaultPort(url.scheme) THEN "none" ELSE url.port,
     bracketed |-> Hosts[url.host]]

\* A path with its names in their usual spelling.
Spelled(path) ==
    [i \in DOMAIN path |-> IF path[i] \in DOMAIN Names THEN Names[path[i]] ELSE path[i]]

\* URL.Path, in which also an escaped slash is a slash; RawPath has the path
\* as it was written, and String prefers it as long as it decodes to Path.
Decoded(path) == [i \in DOMAIN path |-> IF path[i] = Escaped THEN "/" ELSE Spelled(path)[i]]

NormalPath(path) ==
    CASE path = <<>> -> <<"/">>
      [] path # <<>> /\ path # <<"/">> /\ Last(Decoded(path)) = "/" -> Front(Decoded(path))
      [] OTHER -> path

\* How often each of these pairs is in a query.
Times(query, pairs) ==
    [pair \in pairs |-> Cardinality({i \in DOMAIN query : query[i] = pair})]

Tally(query) == Times(query, ToSet(query))

\* Variant: the values of one name keep the order they were written in.
sortNames(query) ==
    [name \in {pair.name : pair \in ToSet(query)} |->
        SelectSeq(query, LAMBDA pair : pair.parses /\ pair.name = name)]

\* Sorted by names, then by values, the pairs no longer show the order they
\* were written in.
sortQueryParams(query) == Times(query, {pair \in ToSet(query) : pair.parses})

\* ForceQuery has String write the mark of a query without pairs.
NormalizeURL(url) ==
    <<Authority(url), NormalPath(url.target.path), sortQueryParams(url.target.query),
      url.target.mark>>
-----------------------------------------------------------------------------
(* Which URLs are those of one page *)

Effective(port, scheme) == IF port \in {"none", "empty"} THEN DefaultPort(scheme) ELSE port

SameOrigin(u, v) ==
    /\ u.scheme = v.scheme /\ u.host = v.host
    /\ Effective(u.port, u.scheme) = Effective(v.port, v.scheme)

Root(path) == IF path = <<>> THEN <<"/">> ELSE path

SamePath(p, q) ==
    \/ Root(p) = Root(q)
    \/ p = Append(Root(q), "/") \/ q = Append(Root(p), "/")

\* The same server, and targets that differ in a trailing slash, in spelling
\* and in the order of the parameters at most.
SamePage(u, v) ==
    /\ SameOrigin(u, v)
    /\ SamePath(Spelled(u.target.path), Spelled(v.target.path))
    /\ Tally(u.target.query) = Tally(v.target.query)

\* Without escaped slashes, and with a query that parses.
Plain(url) ==
    /\ Escaped \notin ToSet(url.target.path)
    /\ \A i \in DOMAIN url.target.query : url.target.query[i].parses

\* A plain URL spelled as one writes it: no empty port, no mark without a
\* query, and no letter escaped that need not be.
Usual(url) ==
    /\ Plain(url)
    /\ url.port # "empty" /\ ~url.target.mark
    /\ DOMAIN Names \cap ToSet(url.target.path) = {}

\* Whether the path of a URL has one slash at its end at most.
OneSlash(url) ==
    LET path == url.target.path IN
    Len(path) < 2 \/ SubSeq(path, Len(path) - 1, Len(path)) # <<"/", "/">>
=============================================================================
