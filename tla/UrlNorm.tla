------------------------------- MODULE UrlNorm -------------------------------
(***************************************************************************)
(* core/urlnorm.py: the spelling of a URL under which a mention is stored. *)
(*                                                                         *)
(* A URL is a record of what normalize_url looks at: how many "www." its   *)
(* host starts with, a port (0: none given), a path that is a name with    *)
(* slashes after it (the name "" for the root), and its query as a         *)
(* sequence of numbered parameters.  Letter case of scheme and host is     *)
(* left out: both are folded first, and nothing later depends on it.       *)
(***************************************************************************)
EXTENDS Integers, SequencesExt

CONSTANT TrackingParams    \* TRACKING_PARAMS and the utm_ prefix

Urls == [scheme : {"http", "https"}, www : Nat, host : STRING, port : Nat,
         name : STRING, slashes : Nat, query : Seq(Nat), fragment : BOOLEAN]

\* host.startswith("www.") is tested once: one "www." goes, a second stays.
LessOneWww(u) == IF u.www > 0 THEN u.www - 1 ELSE 0

DefaultPort(u) == \/ u.scheme = "https" /\ u.port = 443
                  \/ u.scheme = "http" /\ u.port = 80
PortLeft(u)    == IF DefaultPort(u) THEN 0 ELSE u.port

\* No path becomes "/"; "/" stays; any longer path loses all its last slashes,
\* even when it has nothing else.
SlashesLeft(u) == IF u.name = "" /\ u.slashes <= 1 THEN 1 ELSE 0

\* The parameters at some places of a query, sorted: the i-th is the least one
\* that at least i of them do not exceed.
UpTo(query, places, p) == {k \in places : query[k] <= p}
InOrder(query, places) ==
    [i \in 1..Cardinality(places) |->
        Min({p \in {query[k] : k \in places} : Cardinality(UpTo(query, places, p)) >= i})]

AllParams(u)  == InOrder(u.query, DOMAIN u.query)
KeptParams(u) == InOrder(u.query, {k \in DOMAIN u.query : u.query[k] \notin TrackingParams})

normalize_url(u) ==
    [u EXCEPT !.www = LessOneWww(u), !.port = PortLeft(u), !.slashes = SlashesLeft(u),
              !.query = KeptParams(u), !.fragment = FALSE]

-----------------------------------------------------------------------------
(***************************************************************************)
(* The reference: when two spellings are one page for the record.          *)
(***************************************************************************)

Count(s, x) == Cardinality({i \in DOMAIN s : s[i] = x})

SamePort(u, v) == u.port = v.port \/ {u.port, v.port} = {0, IF u.scheme = "https" THEN 443 ELSE 80}

\* "https://host//" is no spelling of "https://host/": the double slash is a path.
SamePath(u, v) ==
    u.name = v.name /\ (u.name = "" => (u.slashes <= 1 <=> v.slashes <= 1))

\* Nothing but tracking parameters, the order of the others, a leading "www.",
\* the scheme's own port, last slashes and the fragment may differ.
SamePage(u, v) ==
    /\ u.scheme = v.scheme
    /\ u.host = v.host
    /\ u.www = v.www \/ {u.www, v.www} = {0, 1}
    /\ SamePort(u, v)
    /\ SamePath(u, v)
    /\ \A p \in (Range(u.query) \cup Range(v.query)) \ TrackingParams :
          Count(u.query, p) = Count(v.query, p)
=============================================================================
