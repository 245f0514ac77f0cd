---------------------------- MODULE MCScheduler ----------------------------
(* Model-checking instances of Scheduler. *)
EXTENDS Scheduler, TLC

CONSTANTS t1, t2, t3, t4

(* Plans: a chain, and a fork with a tail. *)
Chain == t1 :> {} @@ t2 :> {t1}
Fork == t1 :> {} @@ t2 :> {t1} @@ t3 :> {t1} @@ t4 :> {t2}
=============================================================================
