------------------------------ MODULE MCGossip ------------------------------
(* Instances of Gossip for TLC. *)
EXTENDS Gossip

CONSTANTS n1, n2, a, b, t, f1, f2, w1, w2

\* a is the parent of b, which lives in another workflow and whose author is
\* trusted by exactly the margin more; t is the tombstone of a.
MCHome     == [w \in Workers |-> n2]
MCOrigin   == [f \in Flows |-> {n1}]
MCWf       == [r \in Recs |-> IF r = b THEN f2 ELSE f1]
MCBucket   == [r \in Recs |-> IF r = b THEN 1 ELSE 0]
MCParents  == [r \in Recs |-> IF r = b THEN {a} ELSE {}]
MCTrust    == [r \in Recs |-> IF r = b THEN 2 ELSE 1]
MCTarget   == [r \in Recs |-> IF r = t THEN a ELSE r]
MCAgents   == [n \in Nodes |-> Recs]
\* the clocks differ by exactly the window
MCClock    == [n \in Nodes |-> IF n = n1 THEN 0 ELSE Window]
MCAllow    == [n \in Nodes |-> IF n = n1 THEN {n2} ELSE {}]
=============================================================================
