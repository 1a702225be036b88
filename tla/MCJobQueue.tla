----------------------------- MODULE MCJobQueue -----------------------------
(* A small instance of JobQueue for TLC: more jobs than can run at once, so *)
(* that a job is queued behind another's retry.                             *)
EXTENDS JobQueue
=============================================================================
