------------------------------- MODULE PageWalk -------------------------------
(***************************************************************************)
(* Walker.Walk (internal/analyzer/walker.go) and the five collectors it    *)
(* feeds (internal/analyzer/collectors): one pass over the tokens of a     *)
(* page, after which the collectors write the result.                      *)
(*                                                                         *)
(* A token is its type, its tag (or the kind of its DOCTYPE) and what else *)
(* a collector looks at: an href, the type of an input, a text.  Resolving *)
(* an href against the base URL is a function, Target; the properties      *)
(* compare each collector with a definition over the page as a whole.      *)
(***************************************************************************)
EXTENDS Integers, Sequences, FiniteSets, SequencesExt, FiniteSetsExt

CONSTANTS
    Vocabularies,  \* sets of tokens: a page is written in one of them (a bound)
    PageLength,    \* tokens of the longest page (a bound)
    MaxTokens,     \* maxTokens of the walker
    MaxLinks,      \* maxLinks of the links collector
    Target,        \* Target[h]: the normalised URL of an href, or Skipped
    SameOrigin,    \* URLs with the scheme and the host of the base URL
    Skipped,       \* an empty, non-HTTP or invalid href
    NoResult       \* Walk has not returned a result

ASSUME LimitsAssumption ==
    PageLength \in Nat /\ MaxTokens \in Nat \ {0} /\ MaxLinks \in Nat \ {0}

VARIABLES
    page,      \* the tokens of the page
    count,     \* tokens fed to the collectors
    at,        \* "reading", "done", "failed"
    title,     \* TitleCollector
    version,   \* HTMLVersionCollector
    headings,  \* HeadingsCollector
    login,     \* LoginFormCollector
    links,     \* LinksCollector
    result     \* the AnalysisResult, or NoResult

collectors == <<title, version, headings, login, links>>
vars == <<page, count, at, collectors, result>>

\* The text of a <title> is one token, and no tag is seen before its end.
Tokenized(p) ==
    \A i \in 1..Len(p) :
        LET in == i > 1 /\ p[i-1].type = "start" /\ p[i-1].tag = "title"
            text == i > 1 /\ p[i-1].type = "text" IN
        /\ in => p[i].type = "text" \/ (p[i].type = "end" /\ p[i].tag = "title")
        /\ text => p[i].type = "end" /\ p[i].tag = "title"
        /\ p[i].type = "text" => in

WrittenPages == UNION {{p \in BoundedSeq(v, PageLength) : Tokenized(p)} : v \in Vocabularies}

Init ==
    /\ page \in WrittenPages
    /\ count = 0
    /\ at = "reading"
    /\ title = [text |-> "", in |-> FALSE, found |-> FALSE, buffer |-> ""]
    /\ version = ""
    /\ headings = [h \in 1..6 |-> 0]
    /\ login = [found |-> FALSE, in |-> FALSE, form |-> 0, depth |-> 0]
    /\ links = [internal |-> <<>>, external |-> <<>>, seen |-> {}, truncated |-> FALSE]
    /\ result = NoResult
-----------------------------------------------------------------------------
(* Collect, of each collector *)

\* Variant: a later title replaces an earlier one.
LastTitle(t) ==
    CASE t.type = "start" /\ t.tag = "title" -> [title EXCEPT !.in = TRUE, !.buffer = ""]
      [] t.type = "text" /\ title.in -> [title EXCEPT !.buffer = t.val]
      [] t.type = "end" /\ t.tag = "title" /\ title.in ->
           [title EXCEPT !.text = title.buffer, !.in = FALSE]
      [] OTHER -> title

CollectTitle(t) ==
    CASE title.found -> title
      [] ~title.found /\ t.type = "start" /\ t.tag = "title" ->
           [title EXCEPT !.in = TRUE, !.buffer = ""]
      [] ~title.found /\ t.type = "text" /\ title.in -> [title EXCEPT !.buffer = t.val]
      [] ~title.found /\ t.type = "end" /\ t.tag = "title" /\ title.in ->
           [title EXCEPT !.text = title.buffer, !.in = FALSE, !.found = TRUE]
      [] OTHER -> title

\* detectHTMLVersion, of a DOCTYPE that names a language and a flavour.
Detect(doctype) ==
    LET language == doctype[1]  flavour == doctype[2] IN
    CASE language = "html" /\ flavour = "" -> "HTML5"
      [] language = "html 4.01" /\ flavour = "strict" -> "HTML 4.01 Strict"
      [] language = "html 4.01" /\ flavour = "transitional" -> "HTML 4.01 Transitional"
      [] language = "html 4.01" /\ flavour = "frameset" -> "HTML 4.01 Frameset"
      [] language = "xhtml 1.0" /\ flavour = "strict" -> "XHTML 1.0 Strict"
      [] language = "xhtml 1.0" /\ flavour = "transitional" -> "XHTML 1.0 Transitional"
      [] language = "xhtml 1.1" -> "XHTML 1.1"
      [] language = "" -> "Unknown"
      [] OTHER -> "HTML (unknown version)"

CollectVersion(t) == IF version = "" /\ t.type = "doctype" THEN Detect(t.val) ELSE version

HeadingTags == <<"h1", "h2", "h3", "h4", "h5", "h6">>

CollectHeadings(t) ==
    [h \in 1..6 |-> IF t.type = "start" /\ t.tag = HeadingTags[h] THEN headings[h] + 1
                    ELSE headings[h]]

IsPassword(t) == t.type \in {"start", "selfclosing"} /\ t.tag = "input" /\ t.val = "password"

\* Variant: the end of a form ends it whatever the depth, and only a form
\* whose depth is known has been entered.
CollectLoginAtDepth(t) ==
    LET depth == login.depth + 1
        in == t.type = "start" /\ t.tag = "form" /\ ~login.in IN
    CASE t.type = "start" ->
           [found |-> login.found \/ (login.in /\ depth = login.form + 1 /\ IsPassword(t)),
            in |-> login.in \/ in,
            form |-> IF in THEN depth ELSE login.form,
            depth |-> depth]
      [] t.type = "end" ->
           [login EXCEPT !.depth = @ - 1, !.in = @ /\ t.tag # "form"]
      [] OTHER -> login

\* Variant: an end tag lowers the depth before the depth is compared.
CollectLoginAfterPop(t) ==
    LET depth == login.depth + 1
        in == login.in \/ t.tag = "form" IN
    CASE login.found -> login
      [] ~login.found /\ t.type \in {"start", "selfclosing"} ->
           [found |-> in /\ IsPassword(t),
            in |-> in,
            form |-> IF t.tag = "form" THEN depth ELSE login.form,
            depth |-> IF t.type = "selfclosing" THEN login.depth ELSE depth]
      [] ~login.found /\ t.type = "end" ->
           IF t.tag = "form" /\ login.in /\ login.depth - 1 = login.form
           THEN [login EXCEPT !.in = FALSE, !.form = 0, !.depth = @ - 1]
           ELSE [login EXCEPT !.depth = @ - 1]
      [] OTHER -> login

\* A self-closing tag is entered and left at once; an end tag lowers the depth
\* also where it closes nothing, and a start tag raises it also if it is void.
CollectLogin(t) ==
    LET depth == login.depth + 1
        in == login.in \/ t.tag = "form" IN
    CASE login.found -> login
      [] ~login.found /\ t.type \in {"start", "selfclosing"} ->
           [found |-> in /\ IsPassword(t),
            in |-> in,
            form |-> IF t.tag = "form" THEN depth ELSE login.form,
            depth |-> IF t.type = "selfclosing" THEN login.depth ELSE depth]
      [] ~login.found /\ t.type = "end" ->
           IF t.tag = "form" /\ login.in /\ login.depth = login.form
           THEN [login EXCEPT !.in = FALSE, !.form = 0, !.depth = @ - 1]
           ELSE [login EXCEPT !.depth = @ - 1]
      [] OTHER -> login

\* Variant: the limit is looked at before the duplicates.
CollectLinksLimitFirst(t) ==
    LET u == Target[t.val]
        full == Len(links.internal) + Len(links.external) >= MaxLinks IN
    IF t.type # "start" \/ t.tag # "a" \/ u = Skipped THEN links
    ELSE IF full THEN [links EXCEPT !.truncated = TRUE]
    ELSE IF u \in links.seen THEN links
    ELSE IF u \in SameOrigin
         THEN [links EXCEPT !.seen = @ \cup {u}, !.internal = Append(@, u)]
         ELSE [links EXCEPT !.seen = @ \cup {u}, !.external = Append(@, u)]

\* A URL over the limit is counted and not collected.
CollectLinks(t) ==
    LET u == Target[t.val]
        full == Len(links.internal) + Len(links.external) >= MaxLinks IN
    IF t.type # "start" \/ t.tag # "a" \/ u = Skipped \/ u \in links.seen THEN links
    ELSE IF full THEN [links EXCEPT !.seen = @ \cup {u}, !.truncated = TRUE]
    ELSE IF u \in SameOrigin
         THEN [links EXCEPT !.seen = @ \cup {u}, !.internal = Append(@, u)]
         ELSE [links EXCEPT !.seen = @ \cup {u}, !.external = Append(@, u)]
-----------------------------------------------------------------------------
(* Walk *)

\* Every collector sees every token that is within the limit.
Feed ==
    /\ at = "reading"
    /\ count < Len(page)
    /\ count + 1 <= MaxTokens
    /\ count' = count + 1
    /\ LET t == page[count + 1] IN
         /\ title' = CollectTitle(t)
         /\ version' = CollectVersion(t)
         /\ headings' = CollectHeadings(t)
         /\ login' = CollectLogin(t)
         /\ links' = CollectLinks(t)
    /\ UNCHANGED <<page, at, result>>

\* Apply, of each collector.
Applied ==
    [title |-> title.text,
     version |-> IF version = "" THEN "Unknown" ELSE version,
     headings |-> headings,
     login |-> login.found,
     internal |-> links.internal,
     external |-> links.external,
     total |-> Cardinality(links.seen),
     truncated |-> links.truncated]

\* The token over the limit is counted before it is looked at, be it the end
\* of the page.
ExceedLimit ==
    /\ at = "reading"
    /\ count + 1 > MaxTokens
    /\ at' = "failed"
    /\ UNCHANGED <<page, count, collectors, result>>

EmptyBody ==
    /\ at = "reading"
    /\ page = <<>>
    /\ at' = "failed"
    /\ UNCHANGED <<page, count, collectors, result>>

EndOfPage ==
    /\ at = "reading"
    /\ page # <<>>
    /\ count = Len(page)
    /\ count + 1 <= MaxTokens
    /\ at' = "done"
    /\ result' = Applied
    /\ UNCHANGED <<page, count, collectors>>

Returned == at \in {"done", "failed"} /\ UNCHANGED vars

Next == Feed \/ ExceedLimit \/ EmptyBody \/ EndOfPage \/ Returned

Spec == Init /\ [][Next]_vars
-----------------------------------------------------------------------------
Tagged(p, type, tag) == {i \in 1..Len(p) : p[i].type = type /\ p[i].tag = tag}
Doctypes(p) == {i \in 1..Len(p) : p[i].type = "doctype"}

TitleEnds(p) == {i \in Tagged(p, "end", "title") : \E b \in Tagged(p, "start", "title") : b < i}

\* The text of the first <title> that is closed.
FirstTitle(p) ==
    IF TitleEnds(p) = {} THEN ""
    ELSE LET last == p[Min(TitleEnds(p)) - 1] IN IF last.type = "text" THEN last.val ELSE ""

\* A result is of the whole page: every token was fed, all headings of the
\* page are counted, the first DOCTYPE decides, and so does the first title.
\* There is one if the page has a token and fewer than MaxTokens, so a page of
\* exactly MaxTokens tokens has none.
ResultIsOfWholePage ==
    /\ at = "failed" => result = NoResult /\ (page = <<>> \/ Len(page) >= MaxTokens)
    /\ at = "done" =>
        /\ page # <<>> /\ Len(page) < MaxTokens
        /\ result.title = FirstTitle(page)
        /\ \A h \in 1..6 :
             result.headings[h] = Cardinality(Tagged(page, "start", HeadingTags[h]))
        /\ result.version = IF Doctypes(page) = {} THEN "Unknown"
                            ELSE Detect(page[Min(Doctypes(page))].val)

\* URLs of the page in the order they first occur in, each once.
Places(p, u) == {i \in Tagged(p, "start", "a") : Target[p[i].val] = u}

Hrefs(p) == {Target[p[i].val] : i \in Tagged(p, "start", "a")} \ {Skipped}

FirstPlace(p, u) == Min(Places(p, u))

Before(p, u) == {v \in Hrefs(p) : FirstPlace(p, v) < FirstPlace(p, u)}

Kept(p) == {u \in Hrefs(p) : Cardinality(Before(p, u)) < MaxLinks}

\* The URLs of S in the order the page has them in.
Lists(p, s, S) ==
    /\ ToSet(s) = S /\ Len(s) = Cardinality(S)
    /\ \A i, j \in 1..Len(s) : i < j => FirstPlace(p, s[i]) < FirstPlace(p, s[j])

\* The links are the first MaxLinks distinct URLs of the page, in order and
\* each on the side of its origin, so the job they become checks no URL twice;
\* the total counts the others too, and Truncated says that there are others.
LinksAccountForPage ==
    at = "done" =>
        /\ Lists(page, result.internal, Kept(page) \cap SameOrigin)
        /\ Lists(page, result.external, Kept(page) \ SameOrigin)
        /\ result.total = Cardinality(Hrefs(page))
        /\ result.truncated <=> Cardinality(Hrefs(page)) > MaxLinks

FormStarts(p) == Tagged(p, "start", "form") \cup Tagged(p, "selfclosing", "form")
Passwords(p) == {i \in 1..Len(p) : IsPassword(p[i])}

\* Place i is inside a form: one begins before it and does not end before it.
InForm(p, i) ==
    \E b \in FormStarts(p) : b < i /\ \A e \in Tagged(p, "end", "form") : ~(b < e /\ e < i)

HasLoginForm(p) == \E i \in Passwords(p) : InForm(p, i)

\* However badly the page nests, no password input inside a form is missed.
LoginFormsAreFound == at = "done" => (HasLoginForm(page) => result.login)

Upto(S, n) == {i \in S : i <= n}
Starts(p) == {i \in 1..Len(p) : p[i].type = "start"}
Ends(p) == {i \in 1..Len(p) : p[i].type = "end"}

\* How many more elements begin than end within the first n tokens.
Depth(p, n) == Cardinality(Upto(Starts(p), n)) - Cardinality(Upto(Ends(p), n))

\* A form from b to e: its tags, with no other form's between them.
IsForm(p, b, e) ==
    /\ b \in Tagged(p, "start", "form") /\ e \in Tagged(p, "end", "form") /\ b < e
    /\ \A f \in FormStarts(p) \cup Tagged(p, "end", "form") : ~(b < f /\ f < e)

\* Every form is one with an end tag, with as many start tags as end tags in
\* it and no form in it.  Outside its forms the page may be of any shape.
FormsBalance(p) ==
    /\ Tagged(p, "selfclosing", "form") = {}
    /\ \A b \in Tagged(p, "start", "form") :
         \E e \in 1..Len(p) : IsForm(p, b, e) /\ Depth(p, e - 1) = Depth(p, b)

WithinForm(p, i) == \E b, e \in 1..Len(p) : IsForm(p, b, e) /\ b < i /\ i < e

\* On a page whose forms balance, however the rest of it nests, a login form
\* is reported exactly if a password input is between the tags of a form.
BalancedFormsAreExact ==
    (at = "done" /\ FormsBalance(page)) =>
        (result.login <=> \E i \in Passwords(page) : WithinForm(page, i))

\* The collector detects login forms by password inputs inside forms, so it
\* reports none on a page whose password inputs are all outside.
OnlyLoginFormsReported == at = "done" => (result.login => HasLoginForm(page))
=============================================================================
