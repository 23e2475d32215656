---------------------------- MODULE MCConcurrentRequests ----------------------------
(* Two workers that serve requests of one thread, for TLC.                            *)
EXTENDS ConcurrentRequests

\* Enough for two requests at a time and two after them, that find what those left.
MCMaxRequests == 4
\* A draft and its revision.
MCMaxRounds == 2
=============================================================================
