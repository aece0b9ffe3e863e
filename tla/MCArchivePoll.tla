---------------------------- MODULE MCArchivePoll ----------------------------
(***************************************************************************)
(* ArchivePoll for TLC: overlapping polls, three attempts one and two      *)
(* ticks apart, the same shape as the six of archiver.BACKOFF.             *)
(***************************************************************************)
EXTENDS ArchivePoll

MCBackoff == << 1, 2 >>
=============================================================================
