-------------------------- MODULE ApprovalContract --------------------------
(***************************************************************************)
(* What an approval request promises (backend/app/api/approvals.py,        *)
(* _merged_approval_status): "The approval state machine only moves        *)
(* forward: pending -> approved / denied / expired."                       *)
(***************************************************************************)
VARIABLE verdict

Verdicts == {"approved", "denied", "expired"}

Init == verdict = "none"

Open == verdict = "none" /\ verdict' = "pending"

Decide == verdict = "pending" /\ verdict' \in Verdicts

Next == Open \/ Decide

Spec == Init /\ [][Next]_verdict
=============================================================================
