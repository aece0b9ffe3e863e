--------------------------- MODULE MCCrawlCapture ---------------------------
(***************************************************************************)
(* CrawlCapture for TLC: the oldest mention sits on a host that never      *)
(* answers for its robots.txt.                                             *)
(***************************************************************************)
EXTENDS CrawlCapture

MCDown == {1}
=============================================================================
