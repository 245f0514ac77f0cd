------------------------------- MODULE MCTasks -------------------------------
(* Instances of Tasks for TLC. *)
EXTENDS Tasks

CONSTANTS plain, risky, b1, b2

\* a sprint whose first two entries have been removed
MCBoard == <<<<b1, 2>>, <<b1, 3>>, None>>
=============================================================================
