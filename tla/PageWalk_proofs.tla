--------------------------- MODULE PageWalk_proofs ---------------------------
(***************************************************************************)
(* PageWalk for pages of any tokens and length and for any limits: what    *)
(* the five collectors wrote when the walk is done is what the definitions *)
(* over the page as a whole say.  Each collector has an invariant about    *)
(* the tokens fed so far, which one more token keeps; a walk that is done  *)
(* has fed them all.                                                       *)
(***************************************************************************)
EXTENDS PageWalk, WellFoundedInduction, FiniteSetTheorems, TLAPS
-----------------------------------------------------------------------------
(* Places of a page *)

\* Every set of numbers has a least one.
LEMMA NatLeast ==
  ASSUME NEW T \in SUBSET Nat, T # {}
  PROVE  \E x \in T : \A y \in T : x <= y
<1> DEFINE R == {ss \in Nat \X Nat : ss[1] < ss[2]}
<1>1. IsWellFoundedOn(R, Nat)
  <2>1. OpToRel(<, Nat) = R
    BY DEF OpToRel
  <2> QED
    BY <2>1, NatLessThanWellFounded
<1>2. \A x, y \in Nat : y < x => <<y, x>> \in R
  OBVIOUS
<1> HIDE DEF R
<1>3. PICK x \in T : \A y \in T : ~ (<<y, x>> \in R)
  BY <1>1, WFMin
<1>4. ASSUME NEW y \in T PROVE x <= y
  <2>1. x \in Nat /\ y \in Nat /\ ~ (<<y, x>> \in R)
    BY <1>3
  <2>2. ~ (y < x)
    BY <2>1, <1>2
  <2> QED
    BY <2>1, <2>2
<1> QED
  BY <1>4

\* Min returns the least of a set of places.
LEMMA MinIsLeast ==
  ASSUME NEW T \in SUBSET Nat, T # {}
  PROVE  Min(T) \in T /\ \A y \in T : Min(T) <= y
BY NatLeast DEF Min

\* A place that none is before is the least.
LEMMA IsMin ==
  ASSUME NEW T \in SUBSET Nat, NEW x \in T, \A y \in T : x <= y
  PROVE  Min(T) = x
<1>1. Min(T) \in T /\ Min(T) <= x /\ x <= Min(T)
  BY MinIsLeast
<1>2. Min(T) \in Nat /\ x \in Nat
  BY <1>1
<1> QED
  BY <1>1, <1>2

\* A written page is a sequence whose titles are tokenized as text.
LEMMA PageFacts ==
  ASSUME NEW p \in WrittenPages
  PROVE  Len(p) \in Nat /\ Tokenized(p)
<1>1. PICK v \in Vocabularies : p \in BoundedSeq(v, PageLength) /\ Tokenized(p)
  BY DEF WrittenPages
<1>2. PICK m \in 0..PageLength : p \in [1..m -> v]
  BY <1>1 DEF BoundedSeq, SeqOf
<1>3. m \in Nat
  BY LimitsAssumption
<1>4. p \in Seq(v)
  BY <1>2, <1>3
<1> QED
  BY <1>1, <1>4
-----------------------------------------------------------------------------
(* The walk *)

\* A result is written when every token was fed, and none over the limit.
WalkInv ==
    /\ page \in WrittenPages
    /\ count \in 0..Len(page)
    /\ at \in {"reading", "failed"} => result = NoResult
    /\ at = "failed" => page = <<>> \/ Len(page) >= MaxTokens
    /\ at = "done" => /\ page # <<>> /\ Len(page) < MaxTokens
                      /\ count = Len(page) /\ result = Applied

\* The walk keeps its place within the page, and fails for its length only.
LEMMA WalkInvInductive == Spec => []WalkInv
<1>1. ASSUME Init PROVE WalkInv
  <2>1. page \in WrittenPages /\ count = 0 /\ at = "reading" /\ result = NoResult
    BY <1>1 DEF Init
  <2>2. Len(page) \in Nat
    BY <2>1, PageFacts
  <2> QED
    BY <2>1, <2>2 DEF WalkInv
<1>2. WalkInv /\ [Next]_vars => WalkInv'
  <2> SUFFICES ASSUME WalkInv, [Next]_vars PROVE WalkInv'
    OBVIOUS
  <2>1. Len(page) \in Nat /\ MaxTokens \in Nat
    BY PageFacts, LimitsAssumption DEF WalkInv
  <2>2. CASE Feed
    BY <2>1, <2>2 DEF WalkInv, Feed
  <2>3. CASE ExceedLimit
    BY <2>1, <2>3 DEF WalkInv, ExceedLimit
  <2>4. CASE EmptyBody
    BY <2>1, <2>4 DEF WalkInv, EmptyBody
  <2>5. CASE EndOfPage
    <3>1. /\ page' = page /\ count' = count /\ Applied' = Applied
          /\ result' = Applied /\ at' = "done"
          /\ page # <<>> /\ count = Len(page) /\ count + 1 <= MaxTokens
      BY <2>5 DEF EndOfPage, Applied, collectors
    <3> QED
      BY <2>1, <3>1 DEF WalkInv
  <2>6. CASE UNCHANGED vars
    BY <2>1, <2>6 DEF WalkInv, vars, Applied, collectors
  <2> QED
    BY <2>2, <2>3, <2>4, <2>5, <2>6 DEF Next, Returned
<1> QED
  BY <1>1, <1>2, PTL DEF Spec

\* The collectors move with the place of the walk, or not at all.
LEMMA FedOrIdle ==
  ASSUME [Next]_vars, WalkInv
  PROVE  /\ page' = page
         /\ \/ Feed /\ count \in Nat /\ count + 1 \in 1..Len(page)
            \/ UNCHANGED <<count, title, version, headings, login, links>>
<1>1. Len(page) \in Nat
  BY PageFacts DEF WalkInv
<1>2. CASE Feed
  BY <1>1, <1>2 DEF Feed, WalkInv
<1> QED
  BY <1>2 DEF Next, ExceedLimit, EmptyBody, EndOfPage, Returned, vars, collectors
-----------------------------------------------------------------------------
(* Title, version and headings *)

TextBefore(p, e) == IF p[e - 1].type = "text" THEN p[e - 1].val ELSE ""

TitleShape ==
    /\ title = [text |-> title.text, in |-> title.in, found |-> title.found,
                buffer |-> title.buffer]
    /\ title.found \in BOOLEAN /\ title.in \in BOOLEAN

\* A title that was found is that of the first end tag that ends one.
TitleTaken ==
    \E e \in TitleEnds(page) :
        /\ e <= count /\ \A f \in TitleEnds(page) : e <= f
        /\ title.text = TextBefore(page, e)

\* The last token began the title the collector is in, or is its text.
TitleBegun ==
    /\ count > 0
    /\ \/ page[count].type = "start" /\ page[count].tag = "title" /\ title.buffer = ""
       \/ page[count].type = "text" /\ title.buffer = page[count].val
    /\ \E b \in Tagged(page, "start", "title") : b <= count

TitleAwaited ==
    /\ title.text = ""
    /\ \A e \in TitleEnds(page) : e > count
    /\ title.in => TitleBegun
    /\ ~title.in => \A b \in Tagged(page, "start", "title") : b > count

TitleInv ==
    /\ TitleShape
    /\ title.found => TitleTaken
    /\ ~title.found => TitleAwaited

\* One more token keeps what the title collector knows.
LEMMA TitleFed ==
  ASSUME WalkInv, TitleInv, Feed, count \in Nat, count + 1 \in 1..Len(page)
  PROVE  TitleInv'
<1> DEFINE t == page[count + 1]
           starts == Tagged(page, "start", "title")
           ends == TitleEnds(page)
<1>0. Len(page) \in Nat /\ Tokenized(page)
  BY PageFacts DEF WalkInv
<1>1. page' = page /\ count' = count + 1 /\ title' = CollectTitle(t)
  BY DEF Feed
<1>2. /\ starts \subseteq 1..Len(page) /\ ends \subseteq 1..Len(page)
      /\ count + 1 \in starts <=> t.type = "start" /\ t.tag = "title"
      /\ count + 1 \in ends <=>
           t.type = "end" /\ t.tag = "title" /\ \E b \in starts : b < count + 1
  BY DEF TitleEnds, Tagged
<1>3. \A i \in 1..Len(page) : i > count =>
         (i > count + 1 \/ i = count + 1) /\ count + 1 <= i
  BY <1>0
<1>4. CASE title.found
  <2>1. title' = title
    BY <1>1, <1>4 DEF CollectTitle
  <2>2. TitleTaken
    BY <1>4 DEF TitleInv
  <2>3. TitleTaken'
    BY <1>0, <1>1, <1>2, <2>1, <2>2 DEF TitleTaken
  <2> QED
    BY <1>4, <2>1, <2>3 DEF TitleInv, TitleShape
<1>5. CASE ~title.found /\ title.in
  <2>1. TitleBegun /\ TitleAwaited /\ TitleShape
    BY <1>5 DEF TitleInv, TitleAwaited
  <2>2. t.type = "text" \/ (t.type = "end" /\ t.tag = "title")
    <3>1. count > 0
      BY <2>1 DEF TitleBegun
    <3>2. count + 1 > 1 /\ (count + 1) - 1 = count
      BY <3>1
    <3> QED
      BY <1>0, <2>1, <3>2 DEF Tokenized, TitleBegun
  <2>3. PICK b \in starts : b <= count
    BY <2>1 DEF TitleBegun
  <2>4. CASE t.type = "text"
    <3>1. title' = [title EXCEPT !.buffer = t.val]
      BY <1>1, <1>5, <2>4 DEF CollectTitle
    <3>2. /\ TitleShape'
          /\ title'.text = title.text /\ title'.in /\ ~title'.found /\ title'.buffer = t.val
      BY <1>5, <2>1, <3>1 DEF TitleShape
    <3>3. \A e \in ends : e > count + 1
      BY <1>2, <1>3, <2>1, <2>4 DEF TitleAwaited
    <3>4. TitleBegun'
      BY <1>1, <1>2, <2>3, <2>4, <3>2 DEF TitleBegun
    <3>5. TitleAwaited'
      BY <1>1, <2>1, <3>2, <3>3, <3>4 DEF TitleAwaited
    <3> QED
      BY <3>2, <3>5 DEF TitleInv
  <2>5. CASE t.type = "end" /\ t.tag = "title"
    <3>1. title' = [title EXCEPT !.text = title.buffer, !.in = FALSE, !.found = TRUE]
      BY <1>1, <1>5, <2>5 DEF CollectTitle
    <3>2. TitleShape' /\ title'.text = title.buffer /\ title'.found
      BY <1>5, <2>1, <3>1 DEF TitleShape
    <3>3. count + 1 \in ends
      BY <1>2, <2>3, <2>5
    <3>4. \A e \in ends : count + 1 <= e
      <4>1. \A e \in ends : e > count
        BY <2>1 DEF TitleAwaited
      <4> QED
        BY <1>2, <1>3, <4>1
    <3>5. title.buffer = TextBefore(page, count + 1)
      <4>1. (count + 1) - 1 = count
        OBVIOUS
      <4> QED
        BY <2>1, <4>1 DEF TitleBegun, TextBefore
    <3>6. TitleTaken'
      BY <1>1, <3>2, <3>3, <3>4, <3>5 DEF TitleTaken
    <3> QED
      BY <3>2, <3>6 DEF TitleInv
  <2> QED
    BY <2>2, <2>4, <2>5
<1>6. CASE ~title.found /\ ~title.in
  <2>1. TitleAwaited /\ TitleShape
    BY <1>6 DEF TitleInv
  <2>2. \A b \in starts : b > count
    BY <1>6, <2>1 DEF TitleAwaited
  <2>3. \A e \in ends : e > count + 1
    <3>1. count + 1 \notin ends
      BY <1>2, <2>2
    <3> QED
      BY <1>2, <1>3, <2>1, <3>1 DEF TitleAwaited
  <2>4. CASE t.type = "start" /\ t.tag = "title"
    <3>1. title' = [title EXCEPT !.in = TRUE, !.buffer = ""]
      BY <1>1, <1>6, <2>4 DEF CollectTitle
    <3>2. /\ TitleShape'
          /\ title'.text = title.text /\ title'.in /\ ~title'.found /\ title'.buffer = ""
      BY <1>6, <2>1, <3>1 DEF TitleShape
    <3>3. TitleBegun'
      <4>1. count + 1 \in starts /\ count + 1 > 0 /\ count + 1 <= count + 1
        BY <1>2, <2>4
      <4> QED
        BY <1>1, <2>4, <3>2, <4>1 DEF TitleBegun
    <3>4. TitleAwaited'
      BY <1>1, <2>1, <2>3, <3>2, <3>3 DEF TitleAwaited
    <3> QED
      BY <3>2, <3>4 DEF TitleInv
  <2>5. CASE ~(t.type = "start" /\ t.tag = "title")
    <3>1. title' = title
      BY <1>1, <1>6, <2>5 DEF CollectTitle
    <3>2. \A b \in starts : b > count + 1
      BY <1>2, <1>3, <2>2, <2>5
    <3>3. TitleAwaited'
      BY <1>1, <1>6, <2>1, <2>3, <3>1, <3>2 DEF TitleAwaited
    <3> QED
      BY <1>6, <2>1, <3>1, <3>3 DEF TitleInv, TitleShape
  <2> QED
    BY <2>4, <2>5
<1> QED
  BY <1>4, <1>5, <1>6 DEF TitleInv, TitleShape

\* A DOCTYPE always gives a version, so the first one is kept.
LEMMA DetectNamesVersion == \A d : Detect(d) # ""
BY DEF Detect

\* A version that was found is that of the first DOCTYPE.
VersionInv ==
    /\ version = "" => \A d \in Doctypes(page) : d > count
    /\ version # "" => \E d \in Doctypes(page) :
                          /\ d <= count /\ \A e \in Doctypes(page) : d <= e
                          /\ version = Detect(page[d].val)

\* One more token keeps what the version collector knows.
LEMMA VersionFed ==
  ASSUME WalkInv, VersionInv, Feed, count \in Nat, count + 1 \in 1..Len(page)
  PROVE  VersionInv'
<1> DEFINE t == page[count + 1]
           types == Doctypes(page)
<1>1. page' = page /\ count' = count + 1 /\ version' = CollectVersion(t)
  BY DEF Feed
<1>2. /\ types \subseteq 1..Len(page)
      /\ count + 1 \in types <=> t.type = "doctype"
      /\ \A i \in 1..Len(page) : i > count =>
           (i > count + 1 \/ i = count + 1) /\ count + 1 <= i
  <2>1. Len(page) \in Nat
    BY PageFacts DEF WalkInv
  <2> QED
    BY <2>1 DEF Doctypes
<1>3. CASE version # ""
  <2>1. version' = version
    BY <1>1, <1>3 DEF CollectVersion
  <2>2. PICK d \in types :
          d <= count /\ (\A e \in types : d <= e) /\ version = Detect(page[d].val)
    BY <1>3 DEF VersionInv
  <2>3. d <= count + 1
    BY <1>2, <2>2
  <2> QED
    BY <1>1, <1>3, <2>1, <2>2, <2>3 DEF VersionInv
<1>4. CASE version = "" /\ t.type = "doctype"
  <2>1. version' = Detect(t.val) /\ version' # ""
    BY <1>1, <1>4, DetectNamesVersion DEF CollectVersion
  <2>2. \A e \in types : count + 1 <= e
    BY <1>2, <1>4 DEF VersionInv
  <2>3. count + 1 \in types
    BY <1>2, <1>4
  <2>4. count + 1 <= count + 1
    OBVIOUS
  <2> QED
    BY <1>1, <2>1, <2>2, <2>3, <2>4 DEF VersionInv
<1>5. CASE version = "" /\ t.type # "doctype"
  <2>1. version' = version
    BY <1>1, <1>5 DEF CollectVersion
  <2>2. \A e \in types : e > count + 1
    BY <1>2, <1>5 DEF VersionInv
  <2> QED
    BY <1>1, <1>5, <2>1, <2>2 DEF VersionInv
<1> QED
  BY <1>3, <1>4, <1>5

\* One more token adds one place at most.
LEMMA OnePlaceMore ==
  ASSUME NEW S \in SUBSET Nat, NEW n \in Nat
  PROVE  /\ IsFiniteSet(Upto(S, n)) /\ Cardinality(Upto(S, n)) \in Nat
         /\ Cardinality(Upto(S, n + 1)) =
              IF n + 1 \in S THEN Cardinality(Upto(S, n)) + 1 ELSE Cardinality(Upto(S, n))
<1>1. IsFiniteSet(Upto(S, n))
  <2>1. Upto(S, n) \in SUBSET Nat /\ \A i \in Upto(S, n) : i <= n
    BY DEF Upto
  <2> QED
    BY <2>1, FS_BoundedSetOfNaturals
<1>2. Cardinality(Upto(S, n)) \in Nat
  BY <1>1, FS_CardinalityType
<1>3. \A i \in S : i <= n + 1 <=> i <= n \/ i = n + 1
  OBVIOUS
<1>4. CASE n + 1 \in S
  <2>1. Upto(S, n + 1) = Upto(S, n) \cup {n + 1}
    BY <1>3, <1>4 DEF Upto
  <2>2. n + 1 \notin Upto(S, n)
    BY DEF Upto
  <2> QED
    BY <1>1, <1>2, <1>4, <2>1, <2>2, FS_AddElement
<1>5. CASE n + 1 \notin S
  <2>1. Upto(S, n + 1) = Upto(S, n)
    BY <1>3, <1>5 DEF Upto
  <2> QED
    BY <1>1, <1>2, <1>5, <2>1
<1> QED
  BY <1>4, <1>5

\* The headings among the tokens seen are counted.
HeadingsInv ==
    headings = [h \in 1..6 |-> Cardinality(Upto(Tagged(page, "start", HeadingTags[h]), count))]

\* One more token keeps the count of headings.
LEMMA HeadingsFed ==
  ASSUME WalkInv, HeadingsInv, Feed, count \in Nat, count + 1 \in 1..Len(page)
  PROVE  HeadingsInv'
<1> DEFINE t == page[count + 1]
           Seen(h, n) == Cardinality(Upto(Tagged(page, "start", HeadingTags[h]), n))
<1>1. page' = page /\ count' = count + 1 /\ headings' = CollectHeadings(t)
  BY DEF Feed
<1>2. ASSUME NEW h \in 1..6
      PROVE  Seen(h, count + 1) = IF t.type = "start" /\ t.tag = HeadingTags[h]
                                  THEN Seen(h, count) + 1 ELSE Seen(h, count)
  <2> DEFINE S == Tagged(page, "start", HeadingTags[h])
  <2>1. S \in SUBSET Nat
    BY DEF Tagged
  <2>2. count + 1 \in S <=> t.type = "start" /\ t.tag = HeadingTags[h]
    BY DEF Tagged
  <2> HIDE DEF S
  <2>3. Cardinality(Upto(S, count + 1)) =
          IF count + 1 \in S THEN Cardinality(Upto(S, count)) + 1 ELSE Cardinality(Upto(S, count))
    BY <2>1, OnePlaceMore
  <2> QED
    BY <2>2, <2>3 DEF S
<1>3. \A h \in 1..6 : headings[h] = Seen(h, count)
  BY DEF HeadingsInv
<1> HIDE DEF Seen
<1>4. headings' = [h \in 1..6 |-> Seen(h, count + 1)]
  BY <1>1, <1>2, <1>3 DEF CollectHeadings
<1>5. headings' =
        [h \in 1..6 |-> Cardinality(Upto(Tagged(page, "start", HeadingTags[h]), count + 1))]
  BY <1>4 DEF Seen
<1> QED
  BY <1>1, <1>5 DEF HeadingsInv
-----------------------------------------------------------------------------
(* Login forms *)

LoginShape ==
    /\ login = [found |-> login.found, in |-> login.in, form |-> login.form,
                depth |-> login.depth]
    /\ login.found \in BOOLEAN /\ login.in \in BOOLEAN

\* What CollectLogin does, told by its kind of token.
LEMMA LoginFed ==
  ASSUME LoginShape, NEW t, login' = CollectLogin(t)
  PROVE  /\ LoginShape'
         /\ login.found => login' = login
         /\ (~login.found /\ t.type \in {"start", "selfclosing"}) =>
              /\ login'.in <=> login.in \/ t.tag = "form"
              /\ login'.found <=> (login.in \/ t.tag = "form") /\ IsPassword(t)
              /\ login'.form = IF t.tag = "form" THEN login.depth + 1 ELSE login.form
              /\ login'.depth = IF t.type = "selfclosing" THEN login.depth ELSE login.depth + 1
         /\ (~login.found /\ t.type = "end") =>
              /\ ~login'.found /\ login'.depth = login.depth - 1
              /\ IF t.tag = "form" /\ login.in /\ login.depth = login.form
                 THEN ~login'.in
                 ELSE login'.in = login.in /\ login'.form = login.form
         /\ (~login.found /\ t.type \notin {"start", "selfclosing", "end"}) => login' = login
<1>1. IsPassword(t) \in BOOLEAN
  BY DEF IsPassword
<1>2. CASE login.found
  BY <1>2 DEF CollectLogin, LoginShape
<1>3. CASE ~login.found /\ t.type \in {"start", "selfclosing"}
  <2> DEFINE in == login.in \/ t.tag = "form"
             found == in /\ IsPassword(t)
             form == IF t.tag = "form" THEN login.depth + 1 ELSE login.form
             depth == IF t.type = "selfclosing" THEN login.depth ELSE login.depth + 1
  <2>1. login' = [found |-> found, in |-> in, form |-> form, depth |-> depth]
    BY <1>3 DEF CollectLogin
  <2>2. in \in BOOLEAN /\ found \in BOOLEAN
    BY <1>1 DEF LoginShape
  <2> HIDE DEF in, found, form, depth
  <2>3. /\ LoginShape' /\ login'.found = found /\ login'.in = in
        /\ login'.form = form /\ login'.depth = depth
    BY <2>1, <2>2 DEF LoginShape
  <2>4. login'.form = (IF t.tag = "form" THEN login.depth + 1 ELSE login.form)
    BY <2>3 DEF form
  <2>5. login'.depth = (IF t.type = "selfclosing" THEN login.depth ELSE login.depth + 1)
    BY <2>3 DEF depth
  <2>6. login'.in <=> login.in \/ t.tag = "form"
    BY <2>2, <2>3 DEF in
  <2>7. login'.found <=> (login.in \/ t.tag = "form") /\ IsPassword(t)
    BY <2>2, <2>3 DEF in, found
  <2>8. LoginShape' /\ ~login.found /\ t.type \in {"start", "selfclosing"} /\ t.type # "end"
    BY <1>3, <2>3
  <2> QED
    BY <2>4, <2>5, <2>6, <2>7, <2>8, Zenon
<1>4. CASE ~login.found /\ t.type = "end"
  <2>1. CASE t.tag = "form" /\ login.in /\ login.depth = login.form
    <3>1. login' = [login EXCEPT !.in = FALSE, !.form = 0, !.depth = @ - 1]
      BY <1>4, <2>1 DEF CollectLogin
    <3> QED
      BY <1>4, <2>1, <3>1 DEF LoginShape
  <2>2. CASE ~(t.tag = "form" /\ login.in /\ login.depth = login.form)
    <3>1. login' = [login EXCEPT !.depth = @ - 1]
      BY <1>4, <2>2 DEF CollectLogin
    <3> QED
      BY <1>4, <2>2, <3>1 DEF LoginShape
  <2> QED
    BY <2>1, <2>2
<1>5. CASE ~login.found /\ t.type \notin {"start", "selfclosing", "end"}
  <2>1. login' = login
    BY <1>5 DEF CollectLogin
  <2> QED
    BY <1>5, <2>1 DEF LoginShape
<1> QED
  BY <1>2, <1>3, <1>4, <1>5

\* A form begins within the first n tokens and does not end within them.
FormOpen(p, n) ==
    \E b \in FormStarts(p) : b <= n /\ \A e \in Tagged(p, "end", "form") : ~(b < e /\ e <= n)

\* The next token is inside a form if one is open before it.
LEMMA InFormIsOpenBefore ==
  ASSUME NEW p, NEW n \in Nat, n + 1 \in 1..Len(p), Len(p) \in Nat
  PROVE  InForm(p, n + 1) <=> FormOpen(p, n)
<1>1. \A i \in 1..Len(p) : i < n + 1 <=> i <= n
  OBVIOUS
<1>2. FormStarts(p) \subseteq 1..Len(p) /\ Tagged(p, "end", "form") \subseteq 1..Len(p)
  BY DEF FormStarts, Tagged
<1> QED
  BY <1>1, <1>2 DEF InForm, FormOpen

\* While a form is open the collector is in one, so no password was missed.
LoginInv ==
    /\ LoginShape
    /\ ~login.found =>
         /\ FormOpen(page, count) => login.in
         /\ \A i \in Passwords(page) : i <= count => ~InForm(page, i)

\* One more token keeps that no password input was missed.
LEMMA LoginInvFed ==
  ASSUME WalkInv, LoginInv, Feed, count \in Nat, count + 1 \in 1..Len(page)
  PROVE  LoginInv'
<1> DEFINE t == page[count + 1]
<1>0. Len(page) \in Nat
  BY PageFacts DEF WalkInv
<1>1. page' = page /\ count' = count + 1 /\ login' = CollectLogin(t)
  BY DEF Feed
<1>2. \A i \in 1..Len(page) : i <= count + 1 => i <= count \/ i = count + 1
  BY <1>0
<1>3. LoginShape /\ LoginShape'
  BY <1>1, LoginFed DEF LoginInv
<1> SUFFICES ASSUME ~login'.found
             PROVE  /\ FormOpen(page, count + 1) => login'.in
                    /\ \A i \in Passwords(page) : i <= count + 1 => ~InForm(page, i)
  BY <1>1, <1>3 DEF LoginInv
<1>4. ~login.found
  BY <1>1, <1>3, LoginFed
<1>5. /\ FormOpen(page, count) => login.in
      /\ \A i \in Passwords(page) : i <= count => ~InForm(page, i)
  BY <1>4 DEF LoginInv
<1>6. FormOpen(page, count + 1) => login'.in
  <2> SUFFICES ASSUME FormOpen(page, count + 1) PROVE login'.in
    OBVIOUS
  <2>1. PICK b \in FormStarts(page) :
          /\ b <= count + 1
          /\ \A e \in Tagged(page, "end", "form") : ~(b < e /\ e <= count + 1)
    BY DEF FormOpen
  <2>2. b \in 1..Len(page) /\ page[b].type \in {"start", "selfclosing"} /\ page[b].tag = "form"
    BY DEF FormStarts, Tagged
  <2>3. CASE b = count + 1
    BY <1>1, <1>3, <1>4, <2>2, <2>3, LoginFed
  <2>4. CASE b # count + 1
    <3>1. b <= count /\ b < count + 1
      BY <1>2, <2>1, <2>2, <2>4
    <3>2. FormOpen(page, count)
      <4>1. \A e \in 1..Len(page) : e <= count => e <= count + 1
        BY <1>0
      <4>2. Tagged(page, "end", "form") \subseteq 1..Len(page)
        BY DEF Tagged
      <4> QED
        BY <2>1, <3>1, <4>1, <4>2 DEF FormOpen
    <3>3. login.in
      BY <1>5, <3>2
    <3>4. ~(t.type = "end" /\ t.tag = "form")
      <4>1. count + 1 <= count + 1
        OBVIOUS
      <4>2. count + 1 \notin Tagged(page, "end", "form")
        BY <2>1, <3>1, <4>1
      <4> QED
        BY <4>2 DEF Tagged
    <3> QED
      BY <1>1, <1>3, <1>4, <3>3, <3>4, LoginFed
  <2> QED
    BY <2>3, <2>4
<1>7. ASSUME NEW i \in Passwords(page), i <= count + 1, InForm(page, i)
      PROVE  FALSE
  <2>1. i \in 1..Len(page) /\ IsPassword(page[i])
    BY DEF Passwords
  <2>2. i = count + 1
    BY <1>2, <1>5, <1>7, <2>1
  <2>3. login.in
    BY <1>0, <1>5, <1>7, <2>2, InFormIsOpenBefore
  <2>4. t.type \in {"start", "selfclosing"} /\ IsPassword(t)
    BY <2>1, <2>2 DEF IsPassword
  <2> QED
    BY <1>1, <1>3, <1>4, <2>3, <2>4, LoginFed
<1> QED
  BY <1>6, <1>7

\* A start tag raises the depth of the page, an end tag lowers it.
LEMMA DepthNext ==
  ASSUME NEW p, Len(p) \in Nat, NEW n \in Nat, n + 1 \in 1..Len(p)
  PROVE  /\ Depth(p, n) \in Int
         /\ Depth(p, n + 1) = CASE p[n + 1].type = "start" -> Depth(p, n) + 1
                                [] p[n + 1].type = "end" -> Depth(p, n) - 1
                                [] OTHER -> Depth(p, n)
<1> DEFINE starts(m) == Cardinality(Upto(Starts(p), m))
           ends(m) == Cardinality(Upto(Ends(p), m))
<1>1. Starts(p) \in SUBSET Nat /\ Ends(p) \in SUBSET Nat
  BY DEF Starts, Ends
<1>2. /\ starts(n) \in Nat
      /\ starts(n + 1) = IF n + 1 \in Starts(p) THEN starts(n) + 1 ELSE starts(n)
  BY <1>1, OnePlaceMore
<1>3. /\ ends(n) \in Nat
      /\ ends(n + 1) = IF n + 1 \in Ends(p) THEN ends(n) + 1 ELSE ends(n)
  BY <1>1, OnePlaceMore
<1>4. /\ n + 1 \in Starts(p) <=> p[n + 1].type = "start"
      /\ n + 1 \in Ends(p) <=> p[n + 1].type = "end"
  BY DEF Starts, Ends
<1>5. Depth(p, n) = starts(n) - ends(n) /\ Depth(p, n + 1) = starts(n + 1) - ends(n + 1)
  BY DEF Depth
<1> HIDE DEF starts, ends
<1> QED
  BY <1>2, <1>3, <1>4, <1>5

\* b is the last tag of a form within the first n tokens, and begins one.
LastFormTag(p, b, n) ==
    /\ b \in Tagged(p, "start", "form") /\ b <= n
    /\ \A f \in Tagged(p, "start", "form") \cup Tagged(p, "end", "form") : ~(b < f /\ f <= n)

\* A tag that is no form's leaves the last one as it is.
LEMMA LastFormStays ==
  ASSUME NEW p, Len(p) \in Nat, NEW n \in Nat, NEW b, LastFormTag(p, b, n),
         ~(p[n + 1].type \in {"start", "end"} /\ p[n + 1].tag = "form")
  PROVE  LastFormTag(p, b, n + 1)
<1> DEFINE forms == Tagged(p, "start", "form") \cup Tagged(p, "end", "form")
<1>1. b \in Tagged(p, "start", "form") /\ b <= n /\ \A f \in forms : ~(b < f /\ f <= n)
  BY DEF LastFormTag
<1>2. forms \subseteq 1..Len(p) /\ n + 1 \notin forms /\ b \in 1..Len(p)
  BY <1>1 DEF Tagged
<1> HIDE DEF forms
<1>3. \A f \in forms : ~(b < f /\ f <= n + 1)
  BY <1>1, <1>2
<1>4. b <= n + 1
  BY <1>1, <1>2
<1> QED
  BY <1>1, <1>3, <1>4 DEF LastFormTag, forms

\* The next tag of a form, after one that begins a form which balances, ends
\* that form, at the depth the form began with.
LEMMA NextTagEndsForm ==
  ASSUME NEW p, Len(p) \in Nat, FormsBalance(p), NEW n \in Nat, n + 1 \in 1..Len(p),
         NEW b, LastFormTag(p, b, n)
  PROVE  /\ p[n + 1].type = "end" /\ p[n + 1].tag = "form" => Depth(p, n) = Depth(p, b)
         /\ \E e \in 1..Len(p) : IsForm(p, b, e) /\ n < e
<1>1. b \in Tagged(p, "start", "form") /\ b \in 1..Len(p) /\ b <= n
  BY DEF LastFormTag, Tagged
<1>2. PICK e \in 1..Len(p) : IsForm(p, b, e) /\ Depth(p, e - 1) = Depth(p, b)
  BY <1>1 DEF FormsBalance
<1>3. e \in Tagged(p, "end", "form") /\ b < e
  BY <1>2 DEF IsForm
<1>4. n < e
  BY <1>1, <1>3 DEF LastFormTag
<1>5. ASSUME p[n + 1].type = "end", p[n + 1].tag = "form"
      PROVE  Depth(p, n) = Depth(p, b)
  <2>1. n + 1 \in Tagged(p, "end", "form")
    BY <1>5 DEF Tagged
  <2>2. ~(b < n + 1 /\ n + 1 < e)
    BY <1>2, <2>1 DEF IsForm
  <2>3. n + 1 = e
    BY <1>1, <1>4, <2>2
  <2>4. e - 1 = n
    BY <2>3
  <2> QED
    BY <1>2, <2>4
<1> QED
  BY <1>2, <1>4, <1>5

PasswordInForm == \E i \in Passwords(page) : WithinForm(page, i)

\* Where forms balance, the depth is that of the page, a collector in a form
\* knows the depth of the one it is in, and it has found none that is not.
BalanceInv ==
    FormsBalance(page) =>
        /\ login.found => PasswordInForm
        /\ ~login.found =>
             /\ login.depth = Depth(page, count)
             /\ login.in => \E b \in 1..Len(page) :
                  LastFormTag(page, b, count) /\ login.form = Depth(page, b)

\* One more token keeps what the collector knows where forms balance.
LEMMA BalanceFed ==
  ASSUME WalkInv, LoginShape, BalanceInv, Feed, count \in Nat, count + 1 \in 1..Len(page)
  PROVE  BalanceInv'
<1> DEFINE t == page[count + 1]
<1>0. Len(page) \in Nat
  BY PageFacts DEF WalkInv
<1>1. page' = page /\ count' = count + 1 /\ login' = CollectLogin(t)
  BY DEF Feed
<1> SUFFICES ASSUME FormsBalance(page)
             PROVE  /\ login'.found => PasswordInForm
                    /\ ~login'.found =>
                         /\ login'.depth = Depth(page, count + 1)
                         /\ login'.in => \E b \in 1..Len(page) :
                              LastFormTag(page, b, count + 1) /\ login'.form = Depth(page, b)
  BY <1>1 DEF BalanceInv, PasswordInForm
<1> DEFINE InOne == \E b \in 1..Len(page) :
                      LastFormTag(page, b, count) /\ login.form = Depth(page, b)
           InNext == \E b \in 1..Len(page) :
                      LastFormTag(page, b, count + 1) /\ login'.form = Depth(page, b)
<1>2. login.found => PasswordInForm
  BY DEF BalanceInv
<1>3. ~login.found => login.depth = Depth(page, count) /\ (login.in => InOne)
  BY DEF BalanceInv
<1>4. t.type = "selfclosing" => t.tag # "form"
  BY DEF FormsBalance, Tagged
<1>5. Depth(page, count) \in Int
      /\ Depth(page, count + 1) = CASE t.type = "start" -> Depth(page, count) + 1
                                    [] t.type = "end" -> Depth(page, count) - 1
                                    [] OTHER -> Depth(page, count)
  BY <1>0, DepthNext
<1>6. ASSUME NEW b \in 1..Len(page), LastFormTag(page, b, count), login.form = Depth(page, b),
             login'.form = login.form, ~(t.type \in {"start", "end"} /\ t.tag = "form")
      PROVE  InNext
  BY <1>0, <1>6, LastFormStays
<1>7. CASE login.found
  <2>1. login' = login
    BY <1>1, <1>7, LoginFed
  <2> QED
    BY <1>2, <1>7, <2>1
<1>8. CASE ~login.found /\ login'.found
  <2>1. t.type \in {"start", "selfclosing"} /\ IsPassword(t) /\ (login.in \/ t.tag = "form")
    BY <1>1, <1>8, LoginFed
  <2>2. login.in /\ t.tag = "input"
    BY <2>1 DEF IsPassword
  <2>3. PICK b \in 1..Len(page) : LastFormTag(page, b, count)
    BY <1>3, <1>8, <2>2
  <2>4. PICK e \in 1..Len(page) : IsForm(page, b, e) /\ count < e
    BY <1>0, <2>3, NextTagEndsForm
  <2>5. e # count + 1
    <3>1. page[e].type = "end"
      BY <2>4 DEF IsForm, Tagged
    <3> QED
      BY <2>1, <3>1
  <2>6. b < count + 1 /\ count + 1 < e
    <3>1. b <= count
      BY <2>3 DEF LastFormTag
    <3> QED
      BY <1>0, <2>4, <2>5, <3>1
  <2>7. WithinForm(page, count + 1)
    BY <2>4, <2>6 DEF WithinForm
  <2>8. count + 1 \in Passwords(page)
    BY <2>1 DEF Passwords
  <2> QED
    BY <1>8, <2>7, <2>8 DEF PasswordInForm
<1>9. CASE ~login.found /\ ~login'.found /\ t.type = "start"
  <2>1. login'.depth = Depth(page, count + 1)
    BY <1>1, <1>3, <1>5, <1>9, LoginFed
  <2>2. ASSUME login'.in PROVE InNext
    <3>1. CASE t.tag = "form"
      <4>1. login'.form = Depth(page, count + 1)
        BY <1>1, <1>3, <1>5, <1>9, <3>1, LoginFed
      <4>2. count + 1 \in Tagged(page, "start", "form")
        BY <1>9, <3>1 DEF Tagged
      <4>3. LastFormTag(page, count + 1, count + 1)
        <5>1. \A f \in 1..Len(page) : ~(count + 1 < f /\ f <= count + 1)
          BY <1>0
        <5>2. Tagged(page, "start", "form") \cup Tagged(page, "end", "form") \subseteq 1..Len(page)
          BY DEF Tagged
        <5>3. count + 1 <= count + 1
          OBVIOUS
        <5> QED
          BY <4>2, <5>1, <5>2, <5>3 DEF LastFormTag
      <4> QED
        BY <4>1, <4>3
    <3>2. CASE t.tag # "form"
      <4>1. login.in /\ login'.form = login.form
        BY <1>1, <1>9, <2>2, <3>2, LoginFed
      <4> QED
        BY <1>3, <1>6, <1>9, <3>2, <4>1
    <3> QED
      BY <3>1, <3>2
  <2> QED
    BY <1>9, <2>1, <2>2
<1>10. CASE ~login.found /\ ~login'.found /\ t.type = "selfclosing"
  <2>1. login'.depth = Depth(page, count + 1)
    BY <1>1, <1>3, <1>5, <1>10, LoginFed
  <2>2. ASSUME login'.in PROVE InNext
    <3>1. login.in /\ login'.form = login.form
      BY <1>1, <1>4, <1>10, <2>2, LoginFed
    <3> QED
      BY <1>3, <1>6, <1>10, <3>1
  <2> QED
    BY <1>10, <2>1, <2>2
<1>11. CASE ~login.found /\ ~login'.found /\ t.type = "end"
  <2>1. login'.depth = Depth(page, count + 1)
    BY <1>1, <1>3, <1>5, <1>11, LoginFed
  <2>2. ASSUME login'.in PROVE InNext
    <3>1. ~(t.tag = "form" /\ login.in /\ login.depth = login.form)
      BY <1>1, <1>11, <2>2, LoginFed
    <3>2. login.in /\ login'.form = login.form
      BY <1>1, <1>11, <2>2, <3>1, LoginFed
    <3>3. PICK b \in 1..Len(page) :
            LastFormTag(page, b, count) /\ login.form = Depth(page, b)
      BY <1>3, <1>11, <3>2
    <3>4. t.tag # "form"
      <4>1. t.tag = "form" => Depth(page, count) = Depth(page, b)
        BY <1>0, <1>11, <3>3, NextTagEndsForm
      <4> QED
        BY <1>3, <1>11, <3>1, <3>2, <3>3, <4>1
    <3> QED
      BY <1>6, <3>2, <3>3, <3>4
  <2> QED
    BY <1>11, <2>1, <2>2
<1>12. CASE ~login.found /\ ~login'.found /\ t.type \notin {"start", "selfclosing", "end"}
  <2>1. login' = login
    BY <1>1, <1>12, LoginFed
  <2>2. login'.depth = Depth(page, count + 1)
    BY <1>3, <1>5, <1>12, <2>1
  <2>3. login'.in => InNext
    BY <1>3, <1>6, <1>12, <2>1
  <2> QED
    BY <1>12, <2>2, <2>3
<1> QED
  BY <1>7, <1>8, <1>9, <1>10, <1>11, <1>12
-----------------------------------------------------------------------------
(* Links *)

\* A URL of the page has a first place.
LEMMA FirstPlaceIsFirst ==
  ASSUME NEW p, NEW u \in Hrefs(p)
  PROVE  /\ FirstPlace(p, u) \in Places(p, u) /\ FirstPlace(p, u) \in 1..Len(p)
         /\ \A i \in Places(p, u) : FirstPlace(p, u) <= i
         /\ u # Skipped
<1>1. Places(p, u) \in SUBSET Nat /\ Places(p, u) \subseteq 1..Len(p)
  BY DEF Places, Tagged
<1>2. Places(p, u) # {} /\ u # Skipped
  BY DEF Hrefs, Places
<1> QED
  BY <1>1, <1>2, MinIsLeast DEF FirstPlace

\* Two URLs do not begin at one place.
LEMMA FirstPlacesDiffer ==
  ASSUME NEW p, NEW u \in Hrefs(p), NEW v \in Hrefs(p), FirstPlace(p, u) = FirstPlace(p, v)
  PROVE  u = v
<1>1. FirstPlace(p, u) \in Places(p, u) /\ FirstPlace(p, v) \in Places(p, v)
  BY FirstPlaceIsFirst
<1> QED
  BY <1>1 DEF Places

\* The URLs within the first n tokens.
Seen(p, n) == {u \in Hrefs(p) : FirstPlace(p, u) <= n}

\* The URL of a token is one that was seen, or its first place is here and
\* those that were seen are the ones before it.
LEMMA SeenNext ==
  ASSUME NEW p, Len(p) \in Nat, NEW n \in Nat, n + 1 \in 1..Len(p), NEW u,
         u = Target[p[n + 1].val]
  PROVE  LET new == p[n + 1].type = "start" /\ p[n + 1].tag = "a" /\ u # Skipped
                    /\ u \notin Seen(p, n) IN
         /\ ~new => Seen(p, n + 1) = Seen(p, n)
         /\ new => /\ u \in Hrefs(p) /\ FirstPlace(p, u) = n + 1
                   /\ Seen(p, n + 1) = Seen(p, n) \cup {u} /\ Before(p, u) = Seen(p, n)
<1> DEFINE linked == n + 1 \in Tagged(p, "start", "a") /\ u # Skipped
<1>1. linked <=> p[n + 1].type = "start" /\ p[n + 1].tag = "a" /\ u # Skipped
  BY DEF Tagged
<1>2. linked => u \in Hrefs(p) /\ n + 1 \in Places(p, u)
  BY DEF Hrefs, Places
<1>3. \A v \in Hrefs(p) : /\ FirstPlace(p, v) \in 1..Len(p)
                          /\ FirstPlace(p, v) \in Places(p, v) /\ v # Skipped
  BY FirstPlaceIsFirst
<1>4. \A v \in Hrefs(p) : FirstPlace(p, v) = n + 1 => linked /\ v = u
  <2> SUFFICES ASSUME NEW v \in Hrefs(p), FirstPlace(p, v) = n + 1 PROVE linked /\ v = u
    OBVIOUS
  <2>1. n + 1 \in Places(p, v) /\ v # Skipped
    BY <1>3
  <2> QED
    BY <2>1 DEF Places
<1>5. \A i \in 1..Len(p) : /\ i <= n + 1 <=> i <= n \/ i = n + 1
                           /\ i < n + 1 <=> i <= n
  OBVIOUS
<1>6. CASE ~linked \/ u \in Seen(p, n)
  <2>1. ASSUME NEW v \in Hrefs(p), FirstPlace(p, v) = n + 1 PROVE FALSE
    <3>1. u \in Seen(p, n) /\ v = u
      BY <1>4, <1>6, <2>1
    <3> QED
      BY <2>1, <3>1 DEF Seen
  <2>2. Seen(p, n + 1) = Seen(p, n)
    BY <1>3, <1>5, <2>1 DEF Seen
  <2> QED
    BY <1>1, <1>6, <2>2
<1>7. CASE linked /\ u \notin Seen(p, n)
  <2>1. u \in Hrefs(p)
    BY <1>2, <1>7
  <2>2. FirstPlace(p, u) = n + 1
    <3>1. FirstPlace(p, u) <= n + 1
      BY <1>2, <1>7, FirstPlaceIsFirst
    <3>2. ~(FirstPlace(p, u) <= n)
      BY <1>7, <2>1 DEF Seen
    <3> QED
      BY <1>3, <1>5, <2>1, <3>1, <3>2
  <2>3. Seen(p, n + 1) = Seen(p, n) \cup {u}
    <3>1. ASSUME NEW v \in Hrefs(p) PROVE v \in Seen(p, n + 1) <=> v \in Seen(p, n) \cup {u}
      BY <1>3, <1>4, <1>5, <2>2 DEF Seen
    <3> QED
      BY <2>1, <3>1 DEF Seen
  <2>4. Before(p, u) = Seen(p, n)
    BY <1>3, <1>5, <2>2 DEF Seen, Before
  <2> QED
    BY <1>1, <1>7, <2>1, <2>2, <2>3, <2>4
<1> QED
  BY <1>6, <1>7

\* A later URL goes at the end of a list.
LEMMA ListsAppend ==
  ASSUME NEW p, NEW s \in Seq(Hrefs(p)), NEW S, IsFiniteSet(S), Lists(p, s, S),
         NEW u \in Hrefs(p), u \notin S, \A v \in S : FirstPlace(p, v) < FirstPlace(p, u)
  PROVE  Append(s, u) \in Seq(Hrefs(p)) /\ Lists(p, Append(s, u), S \cup {u})
<1> DEFINE r == Append(s, u)
<1>1. /\ r \in Seq(Hrefs(p)) /\ Len(r) = Len(s) + 1 /\ Len(s) \in Nat
      /\ \A i \in 1..Len(s) : r[i] = s[i]
      /\ r[Len(s) + 1] = u
  OBVIOUS
<1>2. ToSet(s) = S /\ Len(s) = Cardinality(S)
  BY DEF Lists
<1>3. Len(r) = Cardinality(S \cup {u})
  <2>1. Cardinality(S \cup {u}) = Cardinality(S) + 1
    BY FS_AddElement
  <2> QED
    BY <1>1, <1>2, <2>1
<1>4. DOMAIN s = 1..Len(s) /\ DOMAIN r = 1..(Len(s) + 1)
  BY <1>1
<1> DEFINE n == Len(s)
<1>5. \A i \in 1..n : s[i] \in S
  BY <1>2, <1>4 DEF ToSet
<1>6. \A i \in 1..(n + 1) : i \in 1..n \/ i = n + 1
  BY <1>1
<1> HIDE DEF r
<1>7. ToSet(r) = S \cup {u}
  <2>1. \A i \in 1..(n + 1) : r[i] \in S \cup {u}
    BY <1>1, <1>5, <1>6
  <2>2. \A v \in S : \E i \in 1..(n + 1) : r[i] = v
    BY <1>1, <1>2, <1>4 DEF ToSet
  <2>3. n + 1 \in 1..(n + 1)
    BY <1>1
  <2> QED
    BY <1>1, <1>4, <2>1, <2>2, <2>3 DEF ToSet
<1>8. ASSUME NEW i \in 1..Len(r), NEW j \in 1..Len(r), i < j
      PROVE  FirstPlace(p, r[i]) < FirstPlace(p, r[j])
  <2>1. i \in 1..n
    BY <1>1, <1>8
  <2>2. CASE j \in 1..n
    BY <1>1, <1>8, <2>1, <2>2 DEF Lists
  <2>3. CASE j = n + 1
    BY <1>1, <1>5, <2>1, <2>3
  <2> QED
    BY <1>1, <1>6, <2>2, <2>3
<1> QED
  BY <1>1, <1>3, <1>7, <1>8 DEF Lists, r

Smaller(m, n) == IF m <= n THEN m ELSE n

\* The URLs seen are those of the tokens seen; of them the ones to be kept are
\* listed, MaxLinks at most, and the collector knows when there are others.
LinksInv ==
    /\ links = [internal |-> links.internal, external |-> links.external,
                seen |-> links.seen, truncated |-> links.truncated]
    /\ links.seen = Seen(page, count) /\ IsFiniteSet(links.seen)
    /\ links.internal \in Seq(Hrefs(page)) /\ links.external \in Seq(Hrefs(page))
    /\ Lists(page, links.internal, (Kept(page) \cap SameOrigin) \cap links.seen)
    /\ Lists(page, links.external, (Kept(page) \ SameOrigin) \cap links.seen)
    /\ Len(links.internal) + Len(links.external) = Smaller(Cardinality(links.seen), MaxLinks)
    /\ links.truncated \in BOOLEAN
    /\ links.truncated <=> Cardinality(links.seen) > MaxLinks

\* What the collector has to hold after a token that it looked at.
LEMMA LinksInvNext ==
  ASSUME page' = page, count' = count + 1,
         NEW in \in Seq(Hrefs(page)), NEW ex \in Seq(Hrefs(page)),
         NEW truncated \in BOOLEAN, NEW seen, IsFiniteSet(seen), seen = Seen(page, count + 1),
         links' = [internal |-> in, external |-> ex, seen |-> seen, truncated |-> truncated],
         Lists(page, in, (Kept(page) \cap SameOrigin) \cap seen),
         Lists(page, ex, (Kept(page) \ SameOrigin) \cap seen),
         Len(in) + Len(ex) = Smaller(Cardinality(seen), MaxLinks),
         truncated <=> Cardinality(seen) > MaxLinks
  PROVE  LinksInv'
<1>1. /\ links'.internal = in /\ links'.external = ex /\ links'.seen = seen
      /\ links'.truncated = truncated
  OBVIOUS
<1> QED
  BY <1>1 DEF LinksInv

\* One more token keeps what the links collector holds.
LEMMA LinksFed ==
  ASSUME WalkInv, LinksInv, Feed, count \in Nat, count + 1 \in 1..Len(page)
  PROVE  LinksInv'
<1> DEFINE t == page[count + 1]
           u == Target[t.val]
           seen == links.seen
           in == links.internal
           ex == links.external
           K == Kept(page)
           full == Len(in) + Len(ex) >= MaxLinks
           new == t.type = "start" /\ t.tag = "a" /\ u # Skipped /\ u \notin seen
<1>0. Len(page) \in Nat /\ MaxLinks \in Nat /\ MaxLinks > 0
  BY PageFacts, LimitsAssumption DEF WalkInv
<1>1. page' = page /\ count' = count + 1 /\ links' = CollectLinks(t)
  BY DEF Feed
<1>2. /\ links = [internal |-> in, external |-> ex, seen |-> seen, truncated |-> links.truncated]
      /\ seen = Seen(page, count) /\ IsFiniteSet(seen)
      /\ in \in Seq(Hrefs(page)) /\ ex \in Seq(Hrefs(page))
      /\ Lists(page, in, (K \cap SameOrigin) \cap seen)
      /\ Lists(page, ex, (K \ SameOrigin) \cap seen)
      /\ Len(in) + Len(ex) = Smaller(Cardinality(seen), MaxLinks)
      /\ links.truncated \in BOOLEAN
      /\ links.truncated <=> Cardinality(seen) > MaxLinks
  BY DEF LinksInv
<1>3. /\ ~new => Seen(page, count + 1) = seen
      /\ new => /\ u \in Hrefs(page) /\ FirstPlace(page, u) = count + 1
                /\ Seen(page, count + 1) = seen \cup {u} /\ Before(page, u) = seen
  BY <1>0, <1>2, SeenNext
<1>4. CASE ~new
  <2>1. links' = links
    BY <1>1, <1>4 DEF CollectLinks
  <2>2. links'.seen = Seen(page', count')
    BY <1>1, <1>3, <1>4, <2>1
  <2> QED
    BY <1>1, <1>2, <2>1, <2>2 DEF LinksInv
<1>5. CASE new
  <2> DEFINE card == Cardinality(seen)
             now == seen \cup {u}
  <2>1. u \in Hrefs(page) /\ u \notin seen /\ Before(page, u) = seen /\ now = Seen(page, count + 1)
    BY <1>3, <1>5
  <2>2. card \in Nat /\ IsFiniteSet(now) /\ Cardinality(now) = card + 1
    BY <1>2, <2>1, FS_CardinalityType, FS_AddElement
  <2>3. u \in K <=> card < MaxLinks
    BY <2>1 DEF Kept
  <2>4. full <=> card >= MaxLinks
    BY <1>0, <1>2, <2>2 DEF Smaller
  <2>5. \A v \in seen : FirstPlace(page, v) < FirstPlace(page, u)
    BY <2>1 DEF Before
  <2>6. /\ IsFiniteSet((K \cap SameOrigin) \cap seen) /\ u \notin (K \cap SameOrigin) \cap seen
        /\ IsFiniteSet((K \ SameOrigin) \cap seen) /\ u \notin (K \ SameOrigin) \cap seen
    <3>1. \A S : IsFiniteSet(S \cap seen)
      BY <1>2, FS_Subset
    <3>2. u \notin seen
      BY <2>1
    <3> HIDE DEF K, seen, u
    <3> QED
      BY <3>1, <3>2
  <2>7. /\ Len(in) \in Nat /\ Len(ex) \in Nat
        /\ Len(Append(in, u)) = Len(in) + 1 /\ Len(Append(ex, u)) = Len(ex) + 1
    BY <1>2, <2>1
  <2>8. CASE full
    <3>1. links' = [links EXCEPT !.seen = @ \cup {u}, !.truncated = TRUE]
      BY <1>1, <1>5, <2>8 DEF CollectLinks
    <3>2. links' = [internal |-> in, external |-> ex, seen |-> now, truncated |-> TRUE]
      BY <1>2, <3>1
    <3> HIDE DEF in, ex, seen, full, K, new
    <3>3. (K \cap SameOrigin) \cap now = (K \cap SameOrigin) \cap seen
          /\ (K \ SameOrigin) \cap now = (K \ SameOrigin) \cap seen
      BY <2>2, <2>3, <2>4, <2>8, <1>0
    <3>4. Len(in) + Len(ex) = Smaller(card + 1, MaxLinks) /\ card + 1 > MaxLinks
      BY <1>0, <1>2, <2>2, <2>4, <2>8 DEF Smaller
    <3>5. /\ Lists(page, in, (K \cap SameOrigin) \cap now)
          /\ Lists(page, ex, (K \ SameOrigin) \cap now)
      BY <1>2, <3>3
    <3>6. /\ Len(in) + Len(ex) = Smaller(Cardinality(now), MaxLinks)
          /\ TRUE <=> Cardinality(now) > MaxLinks
      BY <2>2, <3>4
    <3>7. in \in Seq(Hrefs(page)) /\ ex \in Seq(Hrefs(page))
      BY <1>2
    <3> HIDE DEF now, card
    <3> QED
      BY <1>1, <2>1, <2>2, <3>2, <3>5, <3>6, <3>7, LinksInvNext DEF K
  <2>9. CASE ~full /\ u \in SameOrigin
    <3>1. links' = [links EXCEPT !.seen = @ \cup {u}, !.internal = Append(@, u)]
      BY <1>1, <1>5, <2>9 DEF CollectLinks
    <3>2. links' = [internal |-> Append(in, u), external |-> ex, seen |-> now,
                    truncated |-> links.truncated]
      BY <1>2, <3>1
    <3> HIDE DEF in, ex, seen, full, K, new
    <3>3. u \in K
      BY <1>0, <2>2, <2>3, <2>4, <2>9
    <3>4. (K \cap SameOrigin) \cap now = ((K \cap SameOrigin) \cap seen) \cup {u}
          /\ (K \ SameOrigin) \cap now = (K \ SameOrigin) \cap seen
      BY <2>9, <3>3
    <3>5. /\ Append(in, u) \in Seq(Hrefs(page))
          /\ Lists(page, Append(in, u), (K \cap SameOrigin) \cap now)
      BY <1>2, <2>1, <2>5, <2>6, <3>4, ListsAppend
    <3>6. Len(Append(in, u)) + Len(ex) = Smaller(card + 1, MaxLinks)
          /\ (card + 1 > MaxLinks <=> links.truncated)
      BY <1>0, <1>2, <2>2, <2>4, <2>7, <2>9 DEF Smaller
    <3>7. Lists(page, ex, (K \ SameOrigin) \cap now) /\ ex \in Seq(Hrefs(page))
      BY <1>2, <3>4
    <3> HIDE DEF now, card
    <3>8. links.truncated \in BOOLEAN /\ (links.truncated <=> Cardinality(now) > MaxLinks)
      BY <1>2, <2>2, <3>6 DEF card
    <3>9. Len(Append(in, u)) + Len(ex) = Smaller(Cardinality(now), MaxLinks)
      BY <2>2, <3>6 DEF card
    <3> QED
      BY <1>1, <2>1, <2>2, <3>2, <3>5, <3>7, <3>8, <3>9, LinksInvNext DEF K
  <2>10. CASE ~full /\ u \notin SameOrigin
    <3>1. links' = [links EXCEPT !.seen = @ \cup {u}, !.external = Append(@, u)]
      BY <1>1, <1>5, <2>10 DEF CollectLinks
    <3>2. links' = [internal |-> in, external |-> Append(ex, u), seen |-> now,
                    truncated |-> links.truncated]
      BY <1>2, <3>1
    <3> HIDE DEF in, ex, seen, full, K, new
    <3>3. u \in K
      BY <1>0, <2>2, <2>3, <2>4, <2>10
    <3>4. (K \ SameOrigin) \cap now = ((K \ SameOrigin) \cap seen) \cup {u}
          /\ (K \cap SameOrigin) \cap now = (K \cap SameOrigin) \cap seen
      BY <2>10, <3>3
    <3>5. /\ Append(ex, u) \in Seq(Hrefs(page))
          /\ Lists(page, Append(ex, u), (K \ SameOrigin) \cap now)
      BY <1>2, <2>1, <2>5, <2>6, <3>4, ListsAppend
    <3>6. Len(in) + Len(Append(ex, u)) = Smaller(card + 1, MaxLinks)
          /\ (card + 1 > MaxLinks <=> links.truncated)
      BY <1>0, <1>2, <2>2, <2>4, <2>7, <2>10 DEF Smaller
    <3>7. Lists(page, in, (K \cap SameOrigin) \cap now) /\ in \in Seq(Hrefs(page))
      BY <1>2, <3>4
    <3> HIDE DEF now, card
    <3>8. links.truncated \in BOOLEAN /\ (links.truncated <=> Cardinality(now) > MaxLinks)
      BY <1>2, <2>2, <3>6 DEF card
    <3>9. Len(in) + Len(Append(ex, u)) = Smaller(Cardinality(now), MaxLinks)
      BY <2>2, <3>6 DEF card
    <3> QED
      BY <1>1, <2>1, <2>2, <3>2, <3>5, <3>7, <3>8, <3>9, LinksInvNext DEF K
  <2> QED
    BY <2>8, <2>9, <2>10
<1> QED
  BY <1>4, <1>5
-----------------------------------------------------------------------------
(* All collectors *)

CollectorsInv ==
    TitleInv /\ VersionInv /\ HeadingsInv /\ LoginInv /\ BalanceInv /\ LinksInv

\* Before the first token there is nothing to know.
LEMMA CollectorsBegin ==
  ASSUME Init
  PROVE  CollectorsInv
<1>1. /\ page \in WrittenPages /\ count = 0
      /\ title = [text |-> "", in |-> FALSE, found |-> FALSE, buffer |-> ""]
      /\ version = ""
      /\ headings = [h \in 1..6 |-> 0]
      /\ login = [found |-> FALSE, in |-> FALSE, form |-> 0, depth |-> 0]
      /\ links = [internal |-> <<>>, external |-> <<>>, seen |-> {}, truncated |-> FALSE]
  BY DEF Init
<1>2. Len(page) \in Nat /\ \A i \in 1..Len(page) : i > count /\ ~(i <= count)
  <2>1. Len(page) \in Nat /\ count = 0
    BY <1>1, PageFacts
  <2>2. \A i \in 1..Len(page) : i > 0 /\ ~(i <= 0)
    BY <2>1
  <2> QED
    BY <2>1, <2>2
<1>3. TitleInv
  <2>1. \A i \in TitleEnds(page) \cup Tagged(page, "start", "title") : i > count
    BY <1>2 DEF TitleEnds, Tagged
  <2> QED
    BY <1>1, <2>1 DEF TitleInv, TitleShape, TitleAwaited
<1>4. VersionInv
  BY <1>1, <1>2 DEF VersionInv, Doctypes
<1>5. HeadingsInv
  <2>1. \A h \in 1..6 : Upto(Tagged(page, "start", HeadingTags[h]), count) = {}
    BY <1>2 DEF Upto, Tagged
  <2> QED
    BY <1>1, <2>1, FS_EmptySet DEF HeadingsInv
<1>6. LoginInv
  BY <1>1, <1>2 DEF LoginInv, LoginShape, FormOpen, FormStarts, Tagged, Passwords
<1>7. BalanceInv
  <2>1. Upto(Starts(page), count) = {} /\ Upto(Ends(page), count) = {}
    BY <1>2 DEF Upto, Starts, Ends
  <2>2. Depth(page, count) = 0
    BY <2>1, FS_EmptySet DEF Depth
  <2> QED
    BY <1>1, <2>2 DEF BalanceInv
<1>8. LinksInv
  <2>1. Seen(page, count) = {}
    BY <1>2, FirstPlaceIsFirst DEF Seen
  <2>2. /\ links.internal = <<>> /\ links.external = <<>> /\ links.seen = {}
        /\ links.truncated = FALSE
    BY <1>1
  <2>3. Cardinality({}) = 0 /\ IsFiniteSet({}) /\ MaxLinks \in Nat
    BY FS_EmptySet, LimitsAssumption
  <2>4. /\ Lists(page, links.internal, (Kept(page) \cap SameOrigin) \cap links.seen)
        /\ Lists(page, links.external, (Kept(page) \ SameOrigin) \cap links.seen)
    BY <2>2, <2>3 DEF Lists, ToSet
  <2>5. Len(links.internal) + Len(links.external) = Smaller(Cardinality(links.seen), MaxLinks)
    BY <2>2, <2>3 DEF Smaller
  <2>6. ~(Cardinality(links.seen) > MaxLinks)
    BY <2>2, <2>3
  <2>7. /\ links.internal \in Seq(Hrefs(page)) /\ links.external \in Seq(Hrefs(page))
        /\ links = [internal |-> links.internal, external |-> links.external,
                    seen |-> links.seen, truncated |-> links.truncated]
    <3>1. <<>> \in Seq(Hrefs(page))
      OBVIOUS
    <3> QED
      BY <1>1, <2>2, <3>1
  <2>8. links.seen = Seen(page, count) /\ IsFiniteSet(links.seen) /\ links.truncated \in BOOLEAN
    BY <2>1, <2>2, <2>3
  <2> QED
    BY <2>2, <2>4, <2>5, <2>6, <2>7, <2>8 DEF LinksInv
<1> QED
  BY <1>3, <1>4, <1>5, <1>6, <1>7, <1>8 DEF CollectorsInv

\* A step that feeds no token leaves the collectors as they are.
LEMMA CollectorsIdle ==
  ASSUME CollectorsInv, page' = page, UNCHANGED <<count, title, version, headings, login, links>>
  PROVE  CollectorsInv'
<1>1. TitleInv'
  BY DEF CollectorsInv, TitleInv, TitleShape, TitleTaken, TitleAwaited, TitleBegun
<1>2. VersionInv' /\ HeadingsInv'
  BY DEF CollectorsInv, VersionInv, HeadingsInv
<1>3. LoginInv' /\ BalanceInv'
  BY DEF CollectorsInv, LoginInv, LoginShape, BalanceInv, PasswordInForm
<1>4. LinksInv'
  BY DEF CollectorsInv, LinksInv
<1> QED
  BY <1>1, <1>2, <1>3, <1>4 DEF CollectorsInv

\* Every token fed keeps what all collectors know.
LEMMA CollectorsInvInductive == Spec => [](WalkInv /\ CollectorsInv)
<1>1. WalkInv /\ CollectorsInv /\ [Next]_vars => CollectorsInv'
  <2> SUFFICES ASSUME WalkInv, CollectorsInv, [Next]_vars PROVE CollectorsInv'
    OBVIOUS
  <2>1. CASE Feed /\ count \in Nat /\ count + 1 \in 1..Len(page)
    BY <2>1, TitleFed, VersionFed, HeadingsFed, LoginInvFed, BalanceFed, LinksFed
    DEF CollectorsInv, LoginInv
  <2>2. CASE page' = page /\ UNCHANGED <<count, title, version, headings, login, links>>
    BY <2>2, CollectorsIdle
  <2> QED
    BY <2>1, <2>2, FedOrIdle
<1>2. Init => CollectorsInv
  BY CollectorsBegin
<1> QED
  BY <1>1, <1>2, WalkInvInductive, PTL DEF Spec

\* What a result says when the walk is done.
LEMMA DoneIsWhole ==
  ASSUME WalkInv, at = "done"
  PROVE  /\ count = Len(page) /\ Len(page) \in Nat
         /\ result.title = title.text
         /\ result.version = IF version = "" THEN "Unknown" ELSE version
         /\ result.headings = headings /\ result.login = login.found
         /\ result.internal = links.internal /\ result.external = links.external
         /\ result.total = Cardinality(links.seen) /\ result.truncated = links.truncated
<1>1. page \in WrittenPages /\ count = Len(page) /\ result = Applied
  BY DEF WalkInv
<1>2. Len(page) \in Nat
  BY <1>1, PageFacts
<1> QED
  BY <1>1, <1>2 DEF Applied

\* A page within the limit has a result and no other has, and the result tells
\* the first title, the first DOCTYPE and the headings of the whole page: Walk
\* and Collect of three collectors agree with a definition over the page.
THEOREM WholePageIsCollected == Spec => []ResultIsOfWholePage
<1>1. WalkInv /\ CollectorsInv => ResultIsOfWholePage
  <2>0. WalkInv =>
          /\ at = "failed" => result = NoResult /\ (page = <<>> \/ Len(page) >= MaxTokens)
          /\ at = "done" => page # <<>> /\ Len(page) < MaxTokens
    BY DEF WalkInv
  <2> SUFFICES ASSUME WalkInv, CollectorsInv, at = "done"
               PROVE  /\ result.title = FirstTitle(page)
                      /\ \A h \in 1..6 :
                           result.headings[h] = Cardinality(Tagged(page, "start", HeadingTags[h]))
                      /\ result.version = IF Doctypes(page) = {} THEN "Unknown"
                                          ELSE Detect(page[Min(Doctypes(page))].val)
    BY <2>0 DEF ResultIsOfWholePage
  <2>10. count = Len(page) /\ Len(page) \in Nat
    BY DoneIsWhole
  <2>1. /\ TitleEnds(page) \in SUBSET Nat /\ Doctypes(page) \in SUBSET Nat
        /\ \A i \in TitleEnds(page) \cup Doctypes(page) : ~(i > count)
    BY <2>10 DEF TitleEnds, Tagged, Doctypes
  <2>2. result.title = FirstTitle(page)
    <3>1. CASE title.found
      <4>1. PICK e \in TitleEnds(page) : /\ \A f \in TitleEnds(page) : e <= f
                                         /\ title.text = TextBefore(page, e)
        BY <3>1 DEF CollectorsInv, TitleInv, TitleTaken
      <4>2. Min(TitleEnds(page)) = e
        BY <2>1, <4>1, IsMin
      <4> QED
        BY <4>1, <4>2, DoneIsWhole DEF FirstTitle, TextBefore
    <3>2. CASE ~title.found
      <4>1. title.text = "" /\ TitleEnds(page) = {}
        BY <2>1, <3>2 DEF CollectorsInv, TitleInv, TitleAwaited
      <4> QED
        BY <4>1, DoneIsWhole DEF FirstTitle
    <3> QED
      BY <3>1, <3>2
  <2>3. ASSUME NEW h \in 1..6
        PROVE  result.headings[h] = Cardinality(Tagged(page, "start", HeadingTags[h]))
    <3>1. Upto(Tagged(page, "start", HeadingTags[h]), count) = Tagged(page, "start", HeadingTags[h])
      BY <2>10 DEF Upto, Tagged
    <3> QED
      BY <3>1, DoneIsWhole DEF CollectorsInv, HeadingsInv
  <2>4. result.version = IF Doctypes(page) = {} THEN "Unknown"
                         ELSE Detect(page[Min(Doctypes(page))].val)
    <3>1. CASE version = ""
      <4>1. Doctypes(page) = {}
        BY <2>1, <3>1 DEF CollectorsInv, VersionInv
      <4> QED
        BY <3>1, <4>1, DoneIsWhole
    <3>2. CASE version # ""
      <4>1. PICK d \in Doctypes(page) : /\ \A e \in Doctypes(page) : d <= e
                                        /\ version = Detect(page[d].val)
        BY <3>2 DEF CollectorsInv, VersionInv
      <4>2. Min(Doctypes(page)) = d
        BY <2>1, <4>1, IsMin
      <4> QED
        BY <3>2, <4>1, <4>2, DoneIsWhole
    <3> QED
      BY <3>1, <3>2
  <2> QED
    BY <2>2, <2>3, <2>4
<1> QED
  BY <1>1, CollectorsInvInductive, PTL

\* The links of a result are the first MaxLinks URLs of the page, in order and
\* without duplicates, and total and Truncated tell of the others.
THEOREM LinksAreTheFirst == Spec => []LinksAccountForPage
<1>1. WalkInv /\ CollectorsInv => LinksAccountForPage
  <2> SUFFICES ASSUME WalkInv, CollectorsInv, at = "done"
               PROVE  /\ Lists(page, result.internal, Kept(page) \cap SameOrigin)
                      /\ Lists(page, result.external, Kept(page) \ SameOrigin)
                      /\ result.total = Cardinality(Hrefs(page))
                      /\ result.truncated <=> Cardinality(Hrefs(page)) > MaxLinks
    BY DEF LinksAccountForPage
  <2>1. Seen(page, count) = Hrefs(page)
    <3>1. count = Len(page) /\ Len(page) \in Nat
      BY DoneIsWhole
    <3>2. \A u \in Hrefs(page) : FirstPlace(page, u) \in 1..Len(page)
      BY FirstPlaceIsFirst
    <3> QED
      BY <3>1, <3>2 DEF Seen
  <2>2. /\ (Kept(page) \cap SameOrigin) \cap Hrefs(page) = Kept(page) \cap SameOrigin
        /\ (Kept(page) \ SameOrigin) \cap Hrefs(page) = Kept(page) \ SameOrigin
    BY DEF Kept
  <2> QED
    BY <2>1, <2>2, DoneIsWhole DEF CollectorsInv, LinksInv
<1> QED
  BY <1>1, CollectorsInvInductive, PTL

\* A walk that is done has missed no login form.
LEMMA MissedNone == WalkInv /\ CollectorsInv => LoginFormsAreFound
<1> SUFFICES ASSUME WalkInv, CollectorsInv, at = "done", ~result.login,
                    NEW i \in Passwords(page), InForm(page, i)
             PROVE  FALSE
  BY DEF LoginFormsAreFound, HasLoginForm
<1>1. count = Len(page) /\ Len(page) \in Nat /\ result.login = login.found
  BY DoneIsWhole
<1>2. i <= count
  BY <1>1 DEF Passwords
<1> QED
  BY <1>1, <1>2 DEF CollectorsInv, LoginInv

\* No password input inside a form is missed, however the page nests.
THEOREM NoLoginFormIsMissed == Spec => []LoginFormsAreFound
BY MissedNone, CollectorsInvInductive, PTL

\* A password input between the tags of a form that has no other form in it is
\* inside a form as LoginFormsAreFound has it.
LEMMA WithinIsInForm ==
  ASSUME NEW p, Len(p) \in Nat, NEW i \in 1..Len(p), WithinForm(p, i)
  PROVE  InForm(p, i)
<1>1. PICK b, e \in 1..Len(p) : IsForm(p, b, e) /\ b < i /\ i < e
  BY DEF WithinForm
<1>2. b \in FormStarts(p)
  BY <1>1 DEF IsForm, FormStarts
<1>3. ASSUME NEW f \in Tagged(p, "end", "form"), b < f, f < i
      PROVE  FALSE
  <2>1. f \in 1..Len(p)
    BY DEF Tagged
  <2>2. f < e
    BY <1>1, <1>3, <2>1
  <2> QED
    BY <1>1, <1>3, <2>2 DEF IsForm
<1> QED
  BY <1>1, <1>2, <1>3 DEF InForm

\* Where the forms of a page balance, the depth tells the end of each form
\* whatever the page is outside them, and login forms are reported exactly.
THEOREM BalancedFormsExact == Spec => []BalancedFormsAreExact
<1>1. WalkInv /\ CollectorsInv => BalancedFormsAreExact
  <2> SUFFICES ASSUME WalkInv, CollectorsInv, at = "done", FormsBalance(page)
               PROVE  result.login <=> PasswordInForm
    BY DEF BalancedFormsAreExact, PasswordInForm
  <2>1. result.login => PasswordInForm
    BY DoneIsWhole DEF CollectorsInv, BalanceInv
  <2>2. PasswordInForm => result.login
    <3> SUFFICES ASSUME NEW i \in Passwords(page), WithinForm(page, i)
                 PROVE  result.login
      BY DEF PasswordInForm
    <3>1. InForm(page, i)
      BY DoneIsWhole, WithinIsInForm DEF Passwords
    <3> QED
      BY <3>1, MissedNone DEF LoginFormsAreFound, HasLoginForm
  <2>3. result.login \in BOOLEAN
    BY DoneIsWhole DEF CollectorsInv, LoginInv, LoginShape
  <2> QED
    BY <2>1, <2>2, <2>3
<1> QED
  BY <1>1, CollectorsInvInductive, PTL
=============================================================================
