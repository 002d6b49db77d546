------------------------------ MODULE MCRequests ------------------------------
(***************************************************************************)
(* The two users of the HTTP client: the requests for an analysis, and the *)
(* check of a link.  They share nothing, so one rests while the other is   *)
(* at work; the check of a link does not depend on known.                  *)
(***************************************************************************)
EXTENDS RequestTiming

CONSTANTS
    LinkCodes, LinkVia, LinkTimeout  \* Codes, MaxVia and Timeout of the link checker

ASSUME LinkAssumption ==
    /\ LinkCodes \subseteq Nat \ {0}
    /\ LinkVia \in Nat \ {0} /\ LinkTimeout \in Nat \ {0}

VARIABLES lcall, lcode, lvia, lleft, lat, lmethod, llink, lwords, lerr, lspent

L == INSTANCE LinkRequest WITH
    Codes <- LinkCodes, MaxVia <- LinkVia, Timeout <- LinkTimeout,
    call <- lcall, code <- lcode, via <- lvia, left <- lleft, at <- lat, method <- lmethod,
    link <- llink, words <- lwords, err <- lerr, spent <- lspent

linkVars == <<lcall, lcode, lvia, lleft, lat, lmethod, llink, lwords, lerr, lspent>>

\* A limit that must not be passed on, and one that must.
MCMaxLinks == {-1, 7}

MCWaits == [w \in {"30s", "5s"} |-> IF w = "30s" THEN 4 ELSE 3]

MCInit == TimedInit /\ L!Init

MCNext ==
    \/ TimedNext /\ lat = "idle" /\ UNCHANGED linkVars
    \/ client = "none" /\ phase = "analyze" /\ known /\ L!Next /\ UNCHANGED timedVars

MCSpec == MCInit /\ [][MCNext]_<<timedVars, linkVars>>

\* Of LinkRequest: a link is blamed fairly, and is done within two timeouts.
VerdictIsFair == L!VerdictIsFair
LinkInv == L!LinkInv
=============================================================================
