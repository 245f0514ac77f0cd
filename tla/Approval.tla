------------------------------ MODULE Approval ------------------------------
(***************************************************************************)
(* One human-in-the-loop approval request on a federation of nodes         *)
(* (backend/app/safety/approval.py, approval_janitor.py,                   *)
(* federated_approval.py, backend/app/api/approvals.py, and the approval   *)
(* gate of orchestration/scheduler.py with the resume endpoint).           *)
(*                                                                         *)
(* Every node has a Redis - the request's status under a key with a TTL,   *)
(* and the set of pending ids - and a CRDT store, where the request and    *)
(* its decisions have signed twins that gossip copies between nodes.  The  *)
(* store is the sequence of those records in the order of the node's own   *)
(* created_at column, which gossip does not carry.  Reviewers, the         *)
(* janitors, the workflow and the clients that resume it interleave at     *)
(* every await.                                                            *)
(***************************************************************************)
EXTENDS Naturals, Sequences, FiniteSets

CONSTANTS
    Node,           \* federated nodes
    Origin,         \* the node that runs the workflow
    Decider,        \* reviewers' calls: <<node, "approved" or "denied">>
    MaxFaults,      \* bound: best-effort writes that fail
    MaxResumes,     \* bound: calls of the resume endpoint
    Prompt          \* TRUE: reviewers act before the request expires, and a
                    \* handler is done before the keys it wrote are evicted

ASSUME OriginAssumption == Origin \in Node
ASSUME DeciderAssumption == Decider \subseteq Node \X {"approved", "denied"}
ASSUME BoundsAssumption == MaxFaults \in Nat /\ MaxResumes \in Nat /\ Prompt \in BOOLEAN

VARIABLES
    phase,      \* the clock: before expires_at, in the grace period, after it
    redis,      \* per node: the status under the request's key, or "none"
    inSet,      \* per node: is the id in the pending set?
    store,      \* per node: the CRDT records, in local insertion order
    request,    \* how far request_approval and the gate have come
    workflow,   \* per node: the status of its workflow row
    outcome,    \* per node: what the gated task did there
    dpc,        \* per reviewer's call: its program counter
    jpc,        \* per node: the janitor's program counter
    handled,    \* per node: has this tick handled the request?
    orphan,     \* per node: did pass 1 find the id without a payload?
    faults,     \* best-effort writes that failed so far
    resumes,    \* resume calls so far
    acked,      \* history: the calls answered 200
    inTime      \* history: decisions in both stores while the workflow was
                \* parked and the request live

vars == <<phase, redis, inSet, store, request, workflow, outcome, dpc, jpc,
          handled, orphan, faults, resumes, acked, inTime>>

Verdict == {"approved", "denied", "expired"}
Status == Verdict \cup {"pending"}

(* A record's author tells two records with the same status apart. *)
Record == [status : Status, by : Node \cup Decider]

Records(n) == {store[n][i] : i \in DOMAIN store[n]}

DecisionsOf(n) == {i \in DOMAIN store[n] : store[n][i].status # "pending"}

(* find_many_by_request_id: the newest decision by local created_at beats  *)
(* a pending record.                                                       *)
CrdtStatus(n) ==
    CASE store[n] = <<>> -> "none"
      [] DecisionsOf(n) # {} ->
            store[n][CHOOSE i \in DecisionsOf(n) : \A j \in DecisionsOf(n) : j <= i].status
      [] OTHER -> "pending"

(* FederatedApprovalStore.get_pending: a request without any decision. *)
CrdtPending(n) == CrdtStatus(n) = "pending"

(* Mutant of Merged: the CRDT twin is only asked about pending requests. *)
MergedRedisFirst(n) == IF redis[n] = "pending" THEN CrdtStatus(n) ELSE redis[n]

(* _merged_approval_status *)
Merged(n) ==
    IF redis[n] = "none" \/ (redis[n] = "pending" /\ CrdtStatus(n) \notin {"none", "pending"})
    THEN CrdtStatus(n)
    ELSE redis[n]

Expired == phase # "live"

TypeOK ==
    /\ phase \in {"live", "late", "gone"}
    /\ redis \in [Node -> Status \cup {"none"}]
    /\ inSet \in [Node -> BOOLEAN]
    /\ \A n \in Node : store[n] \in Seq(Record) /\ Cardinality(Records(n)) = Len(store[n])
    /\ request \in {"new", "created", "twinned", "done"}
    /\ workflow \in [Node -> {"running", "awaiting", "failed", "shadow", "done", "repaused"}]
    /\ outcome \in [Node -> {"none", "executed", "skipped"}]
    /\ dpc \in [Decider -> {"start", "set", "twin", "fallback", "end"}]
    /\ jpc \in [Node -> {"idle", "mark", "twin", "fail", "scan", "drop"}]
    /\ handled \in [Node -> BOOLEAN]
    /\ orphan \in [Node -> BOOLEAN]
    /\ faults \in 0..MaxFaults
    /\ resumes \in 0..MaxResumes
    /\ acked \subseteq Decider
    /\ inTime \subseteq Decider

Init ==
    /\ phase = "live"
    /\ redis = [n \in Node |-> "none"]
    /\ inSet = [n \in Node |-> FALSE]
    /\ store = [n \in Node |-> <<>>]
    /\ request = "new"
    /\ workflow = [n \in Node |-> IF n = Origin THEN "running" ELSE "shadow"]
    /\ outcome = [n \in Node |-> "none"]
    /\ dpc = [d \in Decider |-> "start"]
    /\ jpc = [n \in Node |-> "idle"]
    /\ handled = [n \in Node |-> FALSE]
    /\ orphan = [n \in Node |-> FALSE]
    /\ faults = 0
    /\ resumes = 0
    /\ acked = {}
    /\ inTime = {}

-----------------------------------------------------------------------------
requestVars == <<request, workflow, outcome, resumes>>
janitorVars == <<jpc, handled, orphan>>
deciderVars == <<dpc, acked, inTime>>

(* CRDTStore.put: a record that is there already is not written again. *)
Put(n, rec) ==
    store' = IF rec \in Records(n) THEN store
             ELSE [store EXCEPT ![n] = Append(@, rec)]

(* A best-effort write happens, or fails and is only logged. *)
BestEffort(write) ==
    \/ write /\ UNCHANGED faults
    \/ faults < MaxFaults /\ faults' = faults + 1 /\ UNCHANGED store

-----------------------------------------------------------------------------
(* request_approval: the key and the pending set, in one MULTI. *)
CreateRequest ==
    /\ request = "new"
    /\ redis' = [redis EXCEPT ![Origin] = "pending"]
    /\ inSet' = [inSet EXCEPT ![Origin] = TRUE]
    /\ request' = "created"
    /\ UNCHANGED <<phase, store, workflow, outcome, resumes, deciderVars, janitorVars, faults>>

(* request_approval: the federation twin, best effort. *)
TwinRequest ==
    /\ request = "created"
    /\ BestEffort(Put(Origin, [status |-> "pending", by |-> Origin]))
    /\ request' = "twinned"
    /\ UNCHANGED <<phase, redis, inSet, workflow, outcome, resumes, deciderVars, janitorVars>>

(* check_status reads the key only; the gate takes a key that is gone for *)
(* no pending request.                                                    *)
CheckStatus(n) == redis[n]

(* The gate: a request that is still pending parks the workflow; any other *)
(* status lets the task run.                                               *)
Park ==
    /\ request = "twinned"
    /\ request' = "done"
    /\ IF CheckStatus(Origin) = "pending"
       THEN /\ workflow' = [workflow EXCEPT ![Origin] = "awaiting"]
            /\ UNCHANGED outcome
       ELSE /\ workflow' = [workflow EXCEPT ![Origin] = "done"]
            /\ outcome' = [outcome EXCEPT ![Origin] = "executed"]
    /\ UNCHANGED <<phase, redis, inSet, store, resumes, deciderVars, janitorVars, faults>>

(* POST /workflows/{id}/resume.  With an approval id the merged status     *)
(* must be approved; the id is optional.  restore() sets RUNNING from any  *)
(* status.                                                                 *)
Resume(n, withId) ==
    /\ request = "done"
    /\ workflow[n] \in {"awaiting", "failed", "shadow"}
    /\ resumes < MaxResumes
    /\ withId => Merged(n) = "approved"
    /\ n # Origin => store[n] # <<>>
    /\ workflow' = [workflow EXCEPT ![n] = "running"]
    /\ resumes' = resumes + 1
    /\ UNCHANGED <<phase, redis, inSet, store, request, outcome, deciderVars, janitorVars, faults>>

(* find_decision_for_node: the request's twin carries the node id and is   *)
(* joined with the newest decision.                                        *)
DecisionForNode(n) == IF \E rec \in Records(n) : rec.status = "pending" THEN CrdtStatus(n) ELSE "none"

(* Mutants of Gate: only a denial stops the task; only a missing decision  *)
(* stops it.                                                               *)
GateRunsUndecided(n) ==
    /\ workflow[n] = "running"
    /\ request = "done"
    /\ workflow' = [workflow EXCEPT ![n] = "done"]
    /\ outcome' = [outcome EXCEPT ![n] = IF CrdtStatus(n) = "denied" THEN "skipped" ELSE "executed"]
    /\ UNCHANGED <<phase, redis, inSet, store, request, resumes, deciderVars, janitorVars, faults>>

GateIgnoresDenial(n) ==
    /\ workflow[n] = "running"
    /\ request = "done"
    /\ IF CrdtStatus(n) \in Verdict
       THEN /\ workflow' = [workflow EXCEPT ![n] = "done"]
            /\ outcome' = [outcome EXCEPT ![n] = "executed"]
       ELSE /\ workflow' = [workflow EXCEPT ![n] = "repaused"]
            /\ UNCHANGED outcome
    /\ UNCHANGED <<phase, redis, inSet, store, request, resumes, deciderVars, janitorVars, faults>>

(* The resumed scheduler reaches the gate again.  Denied skips the task,   *)
(* approved and expired run it, and without a decision a new request parks *)
(* the workflow again.                                                     *)
Gate(n) ==
    /\ workflow[n] = "running"
    /\ request = "done"
    /\ CASE DecisionForNode(n) = "denied" ->
              /\ workflow' = [workflow EXCEPT ![n] = "done"]
              /\ outcome' = [outcome EXCEPT ![n] = "skipped"]
         [] DecisionForNode(n) \in {"approved", "expired"} ->
              /\ workflow' = [workflow EXCEPT ![n] = "done"]
              /\ outcome' = [outcome EXCEPT ![n] = "executed"]
         [] OTHER ->
              /\ workflow' = [workflow EXCEPT ![n] = "repaused"]
              /\ UNCHANGED outcome
    /\ UNCHANGED <<phase, redis, inSet, store, request, resumes, deciderVars, janitorVars, faults>>

-----------------------------------------------------------------------------
(* approve_request / deny_request: _decide reads the key.  A decided       *)
(* request is 409, a missing one falls back to the CRDT twin; expiry is    *)
(* not looked at.                                                          *)
DecideRead(d) ==
    /\ dpc[d] = "start"
    /\ Prompt => phase = "live"
    /\ LET seen == redis[d[1]]
       IN  dpc' = [dpc EXCEPT ![d] =
                     CASE seen = "pending" -> "set"
                       [] seen = "none" /\ CrdtPending(d[1]) -> "fallback"
                       [] OTHER -> "end"]
    /\ UNCHANGED <<phase, redis, inSet, store, requestVars, acked, inTime, janitorVars, faults>>

(* _decide: SET and SREM, without looking at the status again. *)
DecideSet(d) ==
    /\ dpc[d] = "set"
    /\ redis' = [redis EXCEPT ![d[1]] = d[2]]
    /\ inSet' = [inSet EXCEPT ![d[1]] = FALSE]
    /\ dpc' = [dpc EXCEPT ![d] = "twin"]
    /\ UNCHANGED <<phase, store, requestVars, acked, inTime, janitorVars, faults>>

Answer(d) ==
    /\ dpc' = [dpc EXCEPT ![d] = "end"]
    /\ acked' = acked \cup {d}
    /\ inTime' = IF phase = "live" /\ workflow[Origin] = "awaiting" /\ store' # store
                 THEN inTime \cup {d} ELSE inTime

(* _decide: the decision twin, best effort, and the 200. *)
DecideTwin(d) ==
    /\ dpc[d] = "twin"
    /\ BestEffort(Put(d[1], [status |-> d[2], by |-> d]))
    /\ Answer(d)
    /\ UNCHANGED <<phase, redis, inSet, requestVars, janitorVars>>

(* The CRDT fallback writes the decision twin only. *)
DecideFallback(d) ==
    /\ dpc[d] = "fallback"
    /\ Put(d[1], [status |-> d[2], by |-> d])
    /\ Answer(d)
    /\ UNCHANGED <<phase, redis, inSet, requestVars, janitorVars, faults>>

(* ApprovalManager.get_pending drops ids that are decided, expired or gone. *)
Stale(n) == inSet[n] /\ (redis[n] # "pending" \/ Expired)

(* list_pending_approvals *)
ListPending(n) ==
    /\ Stale(n)
    /\ inSet' = [inSet EXCEPT ![n] = FALSE]
    /\ UNCHANGED <<phase, redis, store, requestVars, deciderVars, janitorVars, faults>>

-----------------------------------------------------------------------------
JGoto(n, label) == jpc' = [jpc EXCEPT ![n] = label]

(* _reap_expired, pass 1: the pending set and the payload. *)
ReapRedis(n) ==
    /\ jpc[n] = "idle"
    /\ handled' = [handled EXCEPT ![n] = inSet[n] /\ redis[n] = "pending" /\ Expired]
    /\ orphan' = [orphan EXCEPT ![n] = inSet[n] /\ redis[n] = "none"]
    /\ JGoto(n, IF handled'[n] THEN "mark" ELSE "scan")
    /\ UNCHANGED <<phase, redis, inSet, store, requestVars, deciderVars, faults>>

(* _mark_expired: SET and SREM from the request read before. *)
MarkExpired(n) ==
    /\ jpc[n] = "mark"
    /\ redis' = [redis EXCEPT ![n] = "expired"]
    /\ inSet' = [inSet EXCEPT ![n] = FALSE]
    /\ JGoto(n, "twin")
    /\ UNCHANGED <<phase, store, requestVars, deciderVars, handled, orphan, faults>>

(* _mark_expired: the decision twin, best effort. *)
TwinExpired(n) ==
    /\ jpc[n] = "twin"
    /\ BestEffort(Put(n, [status |-> "expired", by |-> n]))
    /\ JGoto(n, "fail")
    /\ UNCHANGED <<phase, redis, inSet, requestVars, deciderVars, handled, orphan>>

(* Mutant of FailWorkflow: the approval's status is written to the row. *)
FailWorkflowWrongEnum(n) ==
    /\ jpc[n] = "fail"
    /\ workflow' = [workflow EXCEPT ![n] = "expired"]
    /\ JGoto(n, "drop")
    /\ UNCHANGED <<phase, redis, inSet, store, request, outcome, resumes, deciderVars, handled, orphan, faults>>

(* _transition_workflow_to_failed: one conditional UPDATE, whose failure   *)
(* is only logged.  Pass 2 follows, unless it is where the request came    *)
(* from.                                                                   *)
FailWorkflow(n) ==
    /\ jpc[n] = "fail"
    /\ \/ /\ workflow' = [workflow EXCEPT ![n] = IF @ = "awaiting" THEN "failed" ELSE @]
          /\ UNCHANGED faults
       \/ /\ faults < MaxFaults
          /\ faults' = faults + 1
          /\ UNCHANGED workflow
    /\ JGoto(n, "drop")
    /\ UNCHANGED <<phase, redis, inSet, store, request, outcome, resumes, deciderVars, handled, orphan>>

(* Mutants of ReapCrdt: decisions do not count; the pass is left out. *)
ReapCrdtBlind(n) ==
    /\ jpc[n] = "scan"
    /\ LET expire == (\E rec \in Records(n) : rec.status = "pending") /\ Expired
       IN  /\ handled' = [handled EXCEPT ![n] = expire]
           /\ JGoto(n, IF expire THEN "mark" ELSE "drop")
    /\ UNCHANGED <<phase, redis, inSet, store, requestVars, deciderVars, orphan, faults>>

ReapCrdtSkipped(n) ==
    /\ jpc[n] = "scan"
    /\ JGoto(n, "drop")
    /\ UNCHANGED <<phase, redis, inSet, store, requestVars, deciderVars, handled, orphan, faults>>

(* _reap_expired, pass 2: pending twins without any decision.  It does not *)
(* look at Redis.                                                          *)
ReapCrdt(n) ==
    /\ jpc[n] = "scan"
    /\ LET expire == CrdtPending(n) /\ Expired
       IN  /\ handled' = [handled EXCEPT ![n] = expire]
           /\ JGoto(n, IF expire THEN "mark" ELSE "drop")
    /\ UNCHANGED <<phase, redis, inSet, store, requestVars, deciderVars, orphan, faults>>

(* The end of a tick: an id that nothing could account for is dropped. *)
DropOrphan(n) ==
    /\ jpc[n] = "drop"
    /\ inSet' = [inSet EXCEPT ![n] = @ /\ (orphan[n] => handled[n])]
    /\ handled' = [handled EXCEPT ![n] = FALSE]
    /\ orphan' = [orphan EXCEPT ![n] = FALSE]
    /\ JGoto(n, "idle")
    /\ UNCHANGED <<phase, redis, store, requestVars, deciderVars, faults>>

-----------------------------------------------------------------------------
(* Gossip: n pulls a record of m and stores it with its own created_at. *)
Gossip(n, m) ==
    /\ \E rec \in Records(m) \ Records(n) : Put(n, rec)
    /\ UNCHANGED <<phase, redis, inSet, requestVars, deciderVars, janitorVars, faults>>

(* Time passes.  The request is created and parked long before it expires. *)
Tick ==
    /\ request = "done"
    /\ Prompt => \A d \in Decider : dpc[d] \in {"start", "end"}
    /\ \/ phase = "live" /\ phase' = "late"
       \/ phase = "late" /\ phase' = "gone"
    /\ UNCHANGED <<redis, inSet, store, requestVars, deciderVars, janitorVars, faults>>

(* Redis drops the key: after the grace period on the node that has the    *)
(* full TTL, 60 s after the write on the others.                           *)
Evict(n) ==
    /\ redis[n] # "none"
    /\ n = Origin => phase = "gone"
    /\ Prompt => jpc[n] # "twin"
    /\ redis' = [redis EXCEPT ![n] = "none"]
    /\ UNCHANGED <<phase, inSet, store, requestVars, deciderVars, janitorVars, faults>>

-----------------------------------------------------------------------------
Janitor(n) ==
    \/ ReapRedis(n)
    \/ MarkExpired(n)
    \/ TwinExpired(n)
    \/ FailWorkflow(n)
    \/ ReapCrdt(n)
    \/ DropOrphan(n)

Next ==
    \/ CreateRequest
    \/ TwinRequest
    \/ Park
    \/ \E n \in Node, withId \in BOOLEAN : Resume(n, withId)
    \/ \E n \in Node : Gate(n)
    \/ \E d \in Decider : DecideRead(d) \/ DecideSet(d) \/ DecideTwin(d) \/ DecideFallback(d)
    \/ \E n \in Node : ListPending(n) \/ Janitor(n) \/ Evict(n)
    \/ \E n \in Node, m \in Node : Gossip(n, m)
    \/ Tick

(* The janitor loop survives every error and ticks for ever, time passes,  *)
(* and a call that began ends; nothing makes a reviewer answer or a client *)
(* resume.                                                                 *)
Fairness ==
    /\ WF_vars(Tick)
    /\ WF_vars(CreateRequest \/ TwinRequest \/ Park)
    /\ \A n \in Node : WF_vars(Janitor(n))
    /\ \A d \in Decider : WF_vars(DecideSet(d) \/ DecideTwin(d) \/ DecideFallback(d))

Spec == Init /\ [][Next]_vars /\ Fairness

-----------------------------------------------------------------------------
Approvals(ds) == {d \in ds : d[2] = "approved"}
Denials(ds) == {d \in ds : d[2] = "denied"}

(* A task that a reviewer denied while the workflow was parked and the     *)
(* request live, and that nobody approved, is not executed, whenever and   *)
(* wherever the workflow is resumed (scheduler.py: "Honour the decision    *)
(* and skip the gate").                                                    *)
DenialHonoured ==
    Denials(inTime) # {} /\ Approvals(acked) = {} =>
        \A n \in Node : outcome[n] # "executed"

(* A decision made in time is never turned into a timeout: the janitor     *)
(* neither reports the request expired nor fails the workflow for it.      *)
InTimeKept ==
    inTime # {} => Merged(Origin) # "expired" /\ workflow[Origin] # "failed"

(* A parked workflow whose request nobody decides does not stay parked:    *)
(* the janitor fails it, even when get_pending has dropped the id from the *)
(* pending set before.                                                     *)
NobodyWaitsForever ==
    workflow[Origin] = "awaiting" ~> (workflow[Origin] # "awaiting" \/ acked # {})

(* While the request is live and no reviewer has answered, the gated task  *)
(* runs on no node, however often the workflow is resumed there.           *)
NothingRunsUnanswered ==
    (\E n \in Node : outcome[n] = "executed") =>
        Expired \/ acked # {} \/ \E d \in Decider : dpc[d] = "twin"

(* A request that a node reports as decided is never reported as pending   *)
(* or missing there again, as long as no best-effort write has failed: the *)
(* CRDT twin takes over when Redis evicts the key.                         *)
DecidedStaysDecided ==
    [][faults = 0 => \A n \in Node : Merged(n) \in Verdict => Merged(n)' \in Verdict]_vars

(* The merged status on the originating node implements the contract.      *)
Contract == INSTANCE ApprovalContract WITH verdict <- Merged(Origin)
ImplementsContract == Contract!Spec

-----------------------------------------------------------------------------
(* Expectations that the repository states and the code does not meet.     *)

(* A task whose denial was answered with 200, and that nobody approved, is *)
(* not executed.                                                           *)
DeniedNeverExecutes ==
    Denials(acked) # {} /\ Approvals(acked) = {} =>
        \A n \in Node : outcome[n] # "executed"

(* "The approval state machine only moves forward: pending -> approved /   *)
(* denied / expired": a decided status is not replaced by another one.     *)
ForwardOnly ==
    [][\A n \in Node : redis[n] \in Verdict => redis'[n] \in {redis[n], "none"}]_vars

(* Two nodes that hold the same records report the same decision: what     *)
(* "peers reconcile" comes to.                                             *)
VerdictsAgree ==
    \A n \in Node, m \in Node :
        Records(n) = Records(m) => CrdtStatus(n) = CrdtStatus(m)

(* workflows.py: "the gossiped decision in CRDT wins over the stale Redis  *)
(* entry": a reviewer's decision that reached a node is not expired there. *)
GossipedDecisionWins ==
    [][\A n \in Node : redis[n] = "pending" /\ CrdtStatus(n) \in {"approved", "denied"}
                          => redis'[n] # "expired"]_vars
=============================================================================
