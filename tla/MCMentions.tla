------------------------------ MODULE MCMentions ------------------------------
(***************************************************************************)
(* Mentions for TLC: every way normalize_url can join or part two          *)
(* spellings of a page, and a few of them found by crawls.                 *)
(***************************************************************************)
EXTENDS Mentions

CONSTANTS t1, t2, n1, c1, c2

Page == [scheme |-> "https", www |-> 0, host |-> "h", port |-> 0,
         name |-> "p", slashes |-> 0, query |-> << >>, fragment |-> FALSE]
Root == [Page EXCEPT !.name = "", !.slashes = 0]

\* Parameter 9 is a tracking parameter.
MCTracking == {9}

MCSpellings ==
    {[u EXCEPT !.scheme = scheme, !.www = www, !.port = port, !.query = query] :
        u      \in {Page, [Page EXCEPT !.slashes = 2, !.fragment = TRUE],
                   Root, [Root EXCEPT !.slashes = 1], [Root EXCEPT !.slashes = 2]},
        scheme \in {"http", "https"},
        www    \in 0..2,
        port   \in {0, 80, 443},
        query  \in {<< >>, << 9 >>, << 1, 2 >>, << 2, 9, 1 >>, << 1, 1, 2 >>}}

\* One page in two spellings with two terms, and two other pages.
Other  == [Page EXCEPT !.www = 1, !.port = 443, !.query = << 9 >>]
MCHits ==
    [url : {Page, Other}, matched_terms : {{t1}, {t2}}]
        \cup [url : {Root, [Page EXCEPT !.port = 80]}, matched_terms : {{t1}}]
MCNotes    == {n1}
MCCrawls   == {c1, c2}
MCSymmetry == Permutations(MCCrawls)
=============================================================================
