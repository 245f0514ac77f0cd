------------------------------ MODULE MCMemory ------------------------------
(* Instances of Memory for TLC. *)
EXTENDS Memory, TLC

CONSTANTS a, b, t, p, q

\* b, by an author trusted exactly enough more, cites a; both are written to
\* one slot; t revokes a.
MCSlot   == a :> 1 @@ b :> 1 @@ t :> 2
MCConf   == a :> 70 @@ b :> 80 @@ t :> 100
MCRank   == a :> 40 @@ b :> 55 @@ t :> 10
MCTrust  == a :> 60 @@ b :> 65 @@ t :> 60
MCText   == a :> "yes" @@ b :> "no" @@ t :> "revoked"
MCCites  == a :> {} @@ b :> {a} @@ t :> {a}
MCTarget == a :> None @@ b :> None @@ t :> a

\* p and q are similar enough, and not the same
MCNear == p :> (p :> 100 @@ q :> 92) @@ q :> (p :> 92 @@ q :> 100)
\* the second release knows one more marker
MCPoisons == <<{"failed"}, {"failed", "vague"}>>
=============================================================================
