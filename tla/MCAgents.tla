------------------------------ MODULE MCAgents ------------------------------
(* Instances of Agents for TLC. *)
EXTENDS Agents, TLC

CONSTANTS a, b

\* b is cheaper and preferred until the trust of a rises; both can verify
MCSkills == a :> {"risk", "plan", "verification"} @@ b :> {"risk", "plan", "verification"}
MCInitially == a :> "active" @@ b :> "degraded"
MCCost == a :> 2 @@ b :> 1
MCBase == a :> 40 @@ b :> 160
MCNodes == <<"risk", "plan">>
MCAlpha == <<6, 4>>
MCKept == <<10, 3>>
=============================================================================
