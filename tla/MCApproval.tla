----------------------------- MODULE MCApproval -----------------------------
(* Model-checking instances of Approval. *)
EXTENDS Approval

(* Reviewers on the originating node. *)
LocalBoth == {<<Origin, "approved">>, <<Origin, "denied">>}
LocalApprove == {<<Origin, "approved">>}
LocalDeny == {<<Origin, "denied">>}

(* Reviewers on two nodes. *)
Peer == CHOOSE n \in Node : n # Origin
BothNodes == {<<Origin, "approved">>, <<Peer, "denied">>}
=============================================================================
