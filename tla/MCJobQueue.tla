----------------------------- MODULE MCJobQueue -----------------------------
(* Two jobs and two processes for TLC.                                      *)
EXTENDS JobQueue, TLC
=============================================================================
