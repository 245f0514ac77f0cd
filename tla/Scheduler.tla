------------------------------ MODULE Scheduler ------------------------------
(***************************************************************************)
(* One workflow executed by WorkflowScheduler.execute_workflow             *)
(* (backend/app/orchestration/scheduler.py), its DAG (dag.py), checkpoints *)
(* (checkpoint.py), resume.py, and the endpoints and background tasks of   *)
(* api/workflows.py that start, resume, cancel and clean it up.            *)
(*                                                                         *)
(* A run is one call of execute_workflow: run 1 is the one that POST       *)
(* /workflows starts, every POST /workflows/{id}/resume starts another,    *)
(* and nothing keeps two of them apart but the lock on the workflow's row. *)
(* Each run works on its own DAG object and in one long transaction, which *)
(* commits at an approval gate and at the end.                             *)
(***************************************************************************)
EXTENDS Naturals, FiniteSets

CONSTANTS
    Plan,           \* the tasks the decomposer planned
    Parents,        \* depends_on of every planned task
    HighRisk,       \* planned tasks whose capability needs an approval
    Policies,       \* verdicts the policy rules give: allow, deny, escalate
    Reflections,    \* what reflection answers: accept, retry, replan, abort
    Faults,         \* what may go wrong: budget, llm, post, release,
                    \* checkpoint, agents, crash, timeout
    Outside,        \* what others may do: decide, expire, cancel, cleanup,
                    \* early and double (see Resume)
    MaxRetries,     \* MAX_RETRIES_PER_TASK
    MaxReplans,     \* MAX_REPLANS_PER_WORKFLOW
    PerNode,        \* iterations allowed per node, 5 in the code
    Floor,          \* the least iteration limit, 50 in the code
    MaxAlt,         \* bound: length of a chain of alternatives
    MaxRuns,        \* bound: runs of the scheduler
    None

ASSUME PlanAssumption ==
    /\ IsFiniteSet(Plan)
    /\ Parents \in [Plan -> SUBSET Plan]
    /\ HighRisk \subseteq Plan
ASSUME BoundsAssumption ==
    /\ {MaxRetries, MaxReplans, PerNode, Floor, MaxAlt} \subseteq Nat
    /\ MaxRuns \in Nat \ {0}
    /\ None \notin 1..MaxRuns

(* DAG.validate: the plan has no cycle, so every set of tasks has one      *)
(* whose dependencies are all outside it.                                  *)
Acyclic == \A S \in SUBSET Plan : S # {} => \E p \in S : Parents[p] \cap S = {}
ASSUME AcyclicAssumption == Acyclic

Run == 1..MaxRuns

(* <<p, k>> is task p with k suffixes "_alt". *)
Node == Plan \X (0..MaxAlt)
Alt(n) == <<n[1], n[2] + 1>>
DependsOn(n) == Parents[n[1]] \X {0}
Risky == HighRisk \X (0..MaxAlt)

VARIABLES
    pc,         \* per run: its program counter
    dag,        \* per run: the status of every node of its DAG object
    staffed,    \* per run: the nodes an agent was selected for
    batch,      \* per run: the nodes of node_contexts
    gate,       \* per run: the nodes that still have to pass the gate
    asked,      \* per run: the node it has just requested an approval for
    iter,       \* per run: iterations of the loop
    replans,    \* per run: alternatives injected
    lock,       \* the run that holds the lock on the workflow's row
    row,        \* the committed status of the workflow
    snap,       \* the committed dag_snapshot
    prow,       \* per run: the status it flushed and has not committed
    psnap,      \* per run: the dag_snapshot it flushed and has not committed
    ledger,     \* committed wallet events, results and retry counts
    pend,       \* per run: those it flushed and has not committed
    ckpts,      \* durable checkpoints (their DAG snapshots)
    drafts,     \* per run: checkpoints saved in its own transaction
    decision,   \* per node: the newest answer to its approval request
    cancel,     \* the DELETE request: idle, read or done
    aborted     \* history: runs that a reflection aborted

runVars == <<pc, dag, staffed, batch, gate, asked, iter, replans>>
storeVars == <<row, snap, prow, ledger, pend, ckpts, drafts>>
dbVars == <<lock, psnap, storeVars>>
vars == <<runVars, dbVars, decision, cancel, aborted>>

Status == {"absent", "pending", "running", "completed", "failed", "skipped"}
RowStatus == {"pending", "running", "awaiting", "completed", "failed", "cancelled"}
ASSUME NoneAssumption == None \notin RowStatus \cup [Node -> Status]

Event == [node : Node, kind : {"reserve", "charge", "release", "result", "retry"}, nth : Nat]
Ev(n, kind, nth) == [node |-> n, kind |-> kind, nth |-> nth]

(* What a run's transaction sees. *)
Visible(r) == ledger \cup pend[r]
Has(r, n, kind) == \E e \in Visible(r) : e.node = n /\ e.kind = kind

(* task.retry_count *)
Retries(r, n) == Cardinality({e \in Visible(r) : e.node = n /\ e.kind = "retry"})

Present(d) == {n \in Node : d[n] # "absent"}
Of(d, status) == {n \in Node : d[n] = status}

(* Mutant of Cap: the limit does not grow with the number of nodes. *)
CapFixed(r) == IF PerNode > Floor THEN PerNode ELSE Floor

(* max_iterations_defensive *)
Cap(r) ==
    LET limit == PerNode * Cardinality(staffed[r])
    IN  IF limit > Floor THEN limit ELSE Floor

TypeOK ==
    /\ pc \in [Run -> {"unused", "launched", "loop", "policy", "gate", "asked",
                       "results", "commit", "failing", "ended"}]
    /\ dag \in [Run -> [Node -> Status]]
    /\ staffed \in [Run -> SUBSET Node]
    /\ batch \in [Run -> SUBSET Node]
    /\ gate \in [Run -> SUBSET Node]
    /\ asked \in [Run -> Node \cup {None}]
    /\ iter \in [Run -> Nat]
    /\ replans \in [Run -> 0..MaxReplans]
    /\ lock \in Run \cup {None}
    /\ row \in RowStatus
    /\ snap \in [Node -> Status]
    /\ prow \in [Run -> RowStatus \cup {None}]
    /\ psnap \in [Run -> [Node -> Status] \cup {None}]
    /\ ledger \subseteq Event /\ IsFiniteSet(ledger)
    /\ pend \in [Run -> SUBSET Event] /\ \A r \in Run : IsFiniteSet(pend[r])
    /\ ckpts \subseteq [Node -> Status]
    /\ drafts \in [Run -> SUBSET [Node -> Status]]
    /\ decision \in [Node -> {"none", "pending", "approved", "denied", "expired"}]
    /\ cancel \in {"idle", "read", "done"}
    /\ aborted \subseteq Run

Planned == [n \in Node |-> IF n[2] = 0 THEN "pending" ELSE "absent"]

Init ==
    /\ pc = [r \in Run |-> IF r = 1 THEN "launched" ELSE "unused"]
    /\ dag = [r \in Run |-> Planned]
    /\ staffed = [r \in Run |-> {}]
    /\ batch = [r \in Run |-> {}]
    /\ gate = [r \in Run |-> {}]
    /\ asked = [r \in Run |-> None]
    /\ iter = [r \in Run |-> 0]
    /\ replans = [r \in Run |-> 0]
    /\ lock = None
    /\ row = "pending"
    /\ snap = Planned
    /\ prow = [r \in Run |-> None]
    /\ psnap = [r \in Run |-> None]
    /\ ledger = {}
    /\ pend = [r \in Run |-> {}]
    /\ ckpts = {}
    /\ drafts = [r \in Run |-> {}]
    /\ decision = [n \in Node |-> "none"]
    /\ cancel = "idle"
    /\ aborted = {}

-----------------------------------------------------------------------------
(* DAG *)

(* Mutant of Ready: a node waits for failures only, not for completion. *)
ReadyEager(d) ==
    {n \in Node : d[n] = "pending" /\ \A m \in DependsOn(n) : d[m] \notin {"failed", "skipped"}}

(* get_ready_nodes *)
Ready(d) ==
    {n \in Node : d[n] = "pending" /\ \A m \in DependsOn(n) : d[m] = "completed"}

(* is_complete *)
Complete(d) == Present(d) \subseteq UNION {Of(d, s) : s \in {"completed", "failed", "skipped"}}

(* The search of mark_failed: the least set that holds every pending node  *)
(* that depends on a node of F or of the set itself.                       *)
ClosedUnder(d, F, S) ==
    \A n \in Node : d[n] = "pending" /\ DependsOn(n) \cap (F \cup S) # {} => n \in S
Cascade(d, F) ==
    {n \in Node : \A S \in SUBSET Of(d, "pending") : ClosedUnder(d, F, S) => n \in S}

(* Mutant of MarkFailed: only the direct dependents are skipped. *)
MarkFailedShallow(d, F) ==
    [n \in Node |-> CASE n \in F -> "failed"
                      [] d[n] = "pending" /\ DependsOn(n) \cap F # {} -> "skipped"
                      [] OTHER -> d[n]]

(* mark_failed, for every node of F *)
MarkFailed(d, F) ==
    [n \in Node |-> CASE n \in F -> "failed"
                      [] n \in Cascade(d, F) \ F -> "skipped"
                      [] OTHER -> d[n]]

-----------------------------------------------------------------------------
(* Transactions *)

MayLock(r) == lock \in {None, r}

(* COMMIT of run r's session. *)
CommitTxn(r) ==
    /\ ledger' = ledger \cup pend[r]
    /\ pend' = [pend EXCEPT ![r] = {}]
    /\ ckpts' = ckpts \cup drafts[r]
    /\ drafts' = [drafts EXCEPT ![r] = {}]
    /\ row' = IF prow[r] = None THEN row ELSE prow[r]
    /\ prow' = [prow EXCEPT ![r] = None]
    /\ snap' = IF psnap[r] = None THEN snap ELSE psnap[r]
    /\ psnap' = [psnap EXCEPT ![r] = None]
    /\ lock' = IF lock = r THEN None ELSE lock

(* ROLLBACK of run r's session. *)
RollbackTxn(r) ==
    /\ pend' = [pend EXCEPT ![r] = {}]
    /\ drafts' = [drafts EXCEPT ![r] = {}]
    /\ prow' = [prow EXCEPT ![r] = None]
    /\ psnap' = [psnap EXCEPT ![r] = None]
    /\ lock' = IF lock = r THEN None ELSE lock
    /\ UNCHANGED <<ledger, ckpts, row, snap>>

Goto(r, label) == pc' = [pc EXCEPT ![r] = label]

(* The end of an iteration: dag_snapshot is flushed, under the row's lock. *)
PersistDag(r, d) ==
    /\ MayLock(r)
    /\ lock' = r
    /\ psnap' = [psnap EXCEPT ![r] = d]

-----------------------------------------------------------------------------
(* The run takes the row's lock with its first flush.  Run 1 decomposes    *)
(* the prompt; a resumed run commits RUNNING and loads dag_snapshot.       *)
Claim(r) ==
    /\ pc[r] = "launched"
    /\ lock = None
    /\ lock' = r
    /\ dag' = [dag EXCEPT ![r] = IF r = 1 THEN Planned ELSE snap]
    /\ staffed' = [staffed EXCEPT ![r] = Present(dag'[r])]
    /\ IF r = 1
       THEN /\ prow' = [prow EXCEPT ![r] = "running"]
            /\ UNCHANGED row
       ELSE /\ row' = "running"
            /\ UNCHANGED prow
    /\ Goto(r, "loop")
    /\ UNCHANGED <<batch, gate, asked, iter, replans, snap, psnap, ledger, pend, ckpts, drafts,
                   decision, cancel, aborted>>

(* A resumed run that finds no agents returns. *)
SelectFails(r) ==
    /\ pc[r] = "launched"
    /\ r # 1
    /\ "agents" \in Faults
    /\ Goto(r, "ended")
    /\ UNCHANGED <<dag, staffed, batch, gate, asked, iter, replans, dbVars, decision, cancel, aborted>>

(* Phase 1: reserve and start every ready node.  A node without an agent,  *)
(* or with a new reservation that the budget does not allow, fails; a      *)
(* reservation with the same idempotency key is found again.               *)
Prepare(r) ==
    /\ pc[r] = "loop"
    /\ ~Complete(dag[r])
    /\ iter[r] < Cap(r)
    /\ MayLock(r)
    /\ LET ready == Ready(dag[r])
           fresh == {n \in ready \cap staffed[r] : ~Has(r, n, "reserve")}
       IN  /\ ready # {}
           /\ \E broke \in IF "budget" \in Faults THEN SUBSET fresh ELSE {{}} :
                LET started == (ready \cap staffed[r]) \ broke
                    d == MarkFailed(dag[r], ready \ started)
                IN  /\ dag' = [dag EXCEPT ![r] =
                                 [n \in Node |-> IF n \in started THEN "running" ELSE d[n]]]
                    /\ batch' = [batch EXCEPT ![r] = started]
                    /\ pend' = [pend EXCEPT ![r] =
                                  @ \cup {Ev(n, "reserve", 0) : n \in started \cap fresh}]
    /\ iter' = [iter EXCEPT ![r] = @ + 1]
    /\ lock' = r
    /\ Goto(r, "policy")
    /\ UNCHANGED <<staffed, gate, asked, replans, row, snap, prow, psnap, ledger, ckpts, drafts,
                   decision, cancel, aborted>>

(* Where a run goes on: the rest of the gate, the batch, the next iteration. *)
After(toPass, left) ==
    IF toPass # {} THEN "gate" ELSE IF left # {} THEN "results" ELSE "loop"

(* Mutant of Policy: the gate is entered with the transaction open. *)
PolicyUncommitted(r) ==
    /\ pc[r] = "policy"
    /\ \E verdict \in [batch[r] -> Policies] :
         LET denied == {n \in batch[r] : verdict[n] = "deny"}
             escalated == {n \in batch[r] : verdict[n] = "escalate"}
         IN  /\ batch' = [batch EXCEPT ![r] = @ \ denied]
             /\ gate' = [gate EXCEPT ![r] = (batch[r] \cap Risky) \cup escalated]
    /\ Goto(r, After(gate'[r], batch'[r]))
    /\ IF gate'[r] \cup batch'[r] = {}
       THEN PersistDag(r, dag[r]) /\ UNCHANGED storeVars
       ELSE UNCHANGED dbVars
    /\ UNCHANGED <<dag, staffed, asked, iter, replans, decision, cancel, aborted>>

(* Phase 1.5: the policy rules.  A denied node leaves the batch, but keeps *)
(* RUNNING in the DAG, and the gate's list if it is high-risk.  A batch    *)
(* with a gate commits before it.                                          *)
Policy(r) ==
    /\ pc[r] = "policy"
    /\ \E verdict \in [batch[r] -> Policies] :
         LET denied == {n \in batch[r] : verdict[n] = "deny"}
             escalated == {n \in batch[r] : verdict[n] = "escalate"}
         IN  /\ batch' = [batch EXCEPT ![r] = @ \ denied]
             /\ gate' = [gate EXCEPT ![r] = (batch[r] \cap Risky) \cup escalated]
    /\ Goto(r, After(gate'[r], batch'[r]))
    /\ IF gate'[r] # {} THEN CommitTxn(r)
       ELSE IF batch'[r] = {} THEN PersistDag(r, dag[r]) /\ UNCHANGED storeVars
       ELSE UNCHANGED dbVars
    /\ UNCHANGED <<dag, staffed, asked, iter, replans, decision, cancel, aborted>>

(* The gate takes the high-risk nodes first, then the escalated ones. *)
GateNext(r) == IF gate[r] \cap Risky # {} THEN gate[r] \cap Risky ELSE gate[r]

AfterGate(r, n, d, left) ==
    /\ dag' = [dag EXCEPT ![r] = d]
    /\ gate' = [gate EXCEPT ![r] = @ \ {n}]
    /\ batch' = [batch EXCEPT ![r] = left]
    /\ Goto(r, After(gate[r] \ {n}, left))
    /\ IF After(gate[r] \ {n}, left) = "loop"
       THEN PersistDag(r, d)
       ELSE UNCHANGED <<lock, psnap>>

(* The approval was decided before: a resumed run honours it.  Denied      *)
(* fails the node, approved and expired let it run.                        *)
GateHonour(r, n) ==
    /\ pc[r] = "gate"
    /\ n \in GateNext(r) \cap batch[r]
    /\ decision[n] \in {"approved", "denied", "expired"}
    /\ IF decision[n] = "denied"
       THEN AfterGate(r, n, MarkFailed(dag[r], {n}), batch[r] \ {n})
       ELSE AfterGate(r, n, dag[r], batch[r])
    /\ UNCHANGED <<staffed, asked, iter, replans, storeVars, decision, cancel, aborted>>

(* A checkpoint is the status of every node; the store is content-          *)
(* addressed, so saving the same statuses again changes nothing.           *)
Saved(checkpoints, d) == checkpoints \cup {d}

(* Mutant of GateAsk: the node keeps RUNNING in the checkpoint. *)
GateAskRunning(r, n) ==
    /\ pc[r] = "gate"
    /\ n \in GateNext(r) \cap batch[r]
    /\ decision[n] \in {"none", "pending"}
    /\ UNCHANGED dag
    /\ ckpts' = Saved(ckpts, dag[r])
    /\ decision' = [decision EXCEPT ![n] = "pending"]
    /\ asked' = [asked EXCEPT ![r] = n]
    /\ Goto(r, "asked")
    /\ UNCHANGED <<staffed, batch, gate, iter, replans, lock, row, snap, prow, psnap, ledger, pend,
                   drafts, cancel, aborted>>

(* No decision yet: the node goes back to PENDING, a checkpoint is saved   *)
(* in a session of its own (best effort), and an approval is requested.    *)
GateAsk(r, n) ==
    /\ pc[r] = "gate"
    /\ n \in GateNext(r) \cap batch[r]
    /\ decision[n] \in {"none", "pending"}
    /\ dag' = [dag EXCEPT ![r][n] = "pending"]
    /\ \/ ckpts' = Saved(ckpts, dag'[r])
       \/ "checkpoint" \in Faults /\ UNCHANGED ckpts
    /\ decision' = [decision EXCEPT ![n] = "pending"]
    /\ asked' = [asked EXCEPT ![r] = n]
    /\ Goto(r, "asked")
    /\ UNCHANGED <<staffed, batch, gate, iter, replans, lock, row, snap, prow, psnap, ledger, pend,
                   drafts, cancel, aborted>>

(* check_status: a request that is still pending ends the run, with        *)
(* AWAITING_APPROVAL written by a session of its own (best effort);        *)
(* otherwise the node falls through to Phase 2.                            *)
GateCheck(r) ==
    /\ pc[r] = "asked"
    /\ asked' = [asked EXCEPT ![r] = None]
    /\ IF decision[asked[r]] = "pending"
       THEN /\ \/ lock = None /\ row' = "awaiting"
               \/ "status" \in Faults /\ UNCHANGED row
            /\ Goto(r, "ended")
            /\ UNCHANGED <<dag, batch, gate, lock, psnap>>
       ELSE AfterGate(r, asked[r], dag[r], batch[r]) /\ UNCHANGED row
    /\ UNCHANGED <<staffed, iter, replans, snap, prow, ledger, pend, ckpts, drafts,
                   decision, cancel, aborted>>

-----------------------------------------------------------------------------
(* Phases 2 and 3: the LLM calls, and their results one by one.  The last  *)
(* result of a batch ends the iteration.                                   *)
Processing(r, n, d) ==
    /\ pc[r] = "results"
    /\ n \in batch[r]
    /\ MayLock(r)
    /\ lock' = r
    /\ dag' = [dag EXCEPT ![r] = d]
    /\ batch' = [batch EXCEPT ![r] = @ \ {n}]
    /\ Goto(r, After({}, batch'[r]))
    /\ psnap' = IF batch'[r] = {} THEN [psnap EXCEPT ![r] = d] ELSE psnap
    /\ UNCHANGED <<staffed, gate, asked, iter, row, snap, ledger, ckpts, decision, cancel>>

(* The LLM call fails: the reservation is released (best effort), and the  *)
(* node and its dependents are given up.                                   *)
LlmFails(r, n) ==
    /\ "llm" \in Faults
    /\ Processing(r, n, MarkFailed(dag[r], {n}))
    /\ \/ pend' = [pend EXCEPT ![r] = @ \cup {Ev(n, "release", 0)}]
       \/ "release" \in Faults /\ UNCHANGED pend
    /\ UNCHANGED <<replans, prow, drafts, aborted>>

ChargeEvents(r, n) ==
    IF Has(r, n, "charge") THEN {} ELSE {Ev(n, "charge", Retries(r, n))}

(* The charge under the node's idempotency key, the result in shared       *)
(* memory.                                                                 *)
Paid(r, n) == ChargeEvents(r, n) \cup {Ev(n, "result", Retries(r, n))}

(* An exception after the call: before the charge the reservation is       *)
(* released (best effort), after it nothing is; the node fails.            *)
PostFails(r, n) ==
    /\ "post" \in Faults
    /\ Processing(r, n, MarkFailed(dag[r], {n}))
    /\ \/ pend' = [pend EXCEPT ![r] = @ \cup {Ev(n, "release", 0)}]
       \/ pend' = [pend EXCEPT ![r] = @ \cup ChargeEvents(r, n)]
       \/ pend' = [pend EXCEPT ![r] = @ \cup Paid(r, n)]
       \/ "release" \in Faults /\ UNCHANGED pend
    /\ UNCHANGED <<replans, prow, drafts, aborted>>

(* accept, or an action that is refused because its limit is reached *)
Accepts(r, n) ==
    /\ Processing(r, n, [dag[r] EXCEPT ![n] = "completed"])
    /\ pend' = [pend EXCEPT ![r] = @ \cup Paid(r, n)]
    /\ UNCHANGED <<replans, prow, drafts, aborted>>

(* retry_task: the node goes back to PENDING, at most MaxRetries times. *)
Retry(r, n) ==
    /\ "retry" \in Reflections
    /\ Retries(r, n) < MaxRetries
    /\ Processing(r, n, [dag[r] EXCEPT ![n] = "pending"])
    /\ pend' = [pend EXCEPT ![r] =
                  @ \cup Paid(r, n) \cup {Ev(n, "retry", Retries(r, n) + 1)}]
    /\ UNCHANGED <<replans, prow, drafts, aborted>>

(* Mutant of Replan: the limit is not looked at. *)
ReplanUncapped(r, n) ==
    /\ "replan" \in Reflections
    /\ n[2] < MaxAlt
    /\ dag[r][Alt(n)] = "absent"
    /\ Processing(r, n, [dag[r] EXCEPT ![n] = "completed", ![Alt(n)] = "pending"])
    /\ pend' = [pend EXCEPT ![r] = @ \cup Paid(r, n)]
    /\ replans' = [replans EXCEPT ![r] = @ + 1]
    /\ UNCHANGED <<prow, drafts, aborted>>

(* re_plan, add_verifier: an alternative with the same dependencies, for   *)
(* which this run has no agent.                                            *)
Replan(r, n) ==
    /\ "replan" \in Reflections
    /\ replans[r] < MaxReplans
    /\ n[2] < MaxAlt
    /\ dag[r][Alt(n)] = "absent"
    /\ Processing(r, n, [dag[r] EXCEPT ![n] = "completed", ![Alt(n)] = "pending"])
    /\ pend' = [pend EXCEPT ![r] = @ \cup Paid(r, n)]
    /\ replans' = [replans EXCEPT ![r] = @ + 1]
    /\ UNCHANGED <<prow, drafts, aborted>>

(* abort: a checkpoint in the run's own transaction (best effort), and     *)
(* FAILED; the loop goes on.                                               *)
Abort(r, n) ==
    /\ "abort" \in Reflections
    /\ Processing(r, n, [dag[r] EXCEPT ![n] = "completed"])
    /\ pend' = [pend EXCEPT ![r] = @ \cup Paid(r, n)]
    /\ \/ drafts' = [drafts EXCEPT ![r] = Saved(@, dag'[r])]
       \/ "checkpoint" \in Faults /\ UNCHANGED drafts
    /\ prow' = [prow EXCEPT ![r] = "failed"]
    /\ aborted' = aborted \cup {r}
    /\ UNCHANGED replans

-----------------------------------------------------------------------------
(* The end of the loop: everything is terminal, or nothing is ready. *)
Finish(r) ==
    /\ pc[r] = "loop"
    /\ Complete(dag[r]) \/ (iter[r] < Cap(r) /\ Ready(dag[r]) = {})
    /\ MayLock(r)
    /\ lock' = r
    /\ prow' = [prow EXCEPT ![r] =
                  IF Of(dag[r], "failed") # {} /\ Of(dag[r], "completed") = {}
                  THEN "failed" ELSE "completed"]
    /\ psnap' = [psnap EXCEPT ![r] = dag[r]]
    /\ Goto(r, "commit")
    /\ UNCHANGED <<dag, staffed, batch, gate, asked, iter, replans, row, snap, ledger, pend,
                   ckpts, drafts, decision, cancel, aborted>>

(* The iteration limit. *)
Runaway(r) ==
    /\ pc[r] = "loop"
    /\ ~Complete(dag[r])
    /\ iter[r] >= Cap(r)
    /\ MayLock(r)
    /\ lock' = r
    /\ prow' = [prow EXCEPT ![r] = "failed"]
    /\ Goto(r, "commit")
    /\ UNCHANGED <<dag, staffed, batch, gate, asked, iter, replans, row, snap, psnap, ledger, pend,
                   ckpts, drafts, decision, cancel, aborted>>

(* The session's context manager commits. *)
EndRun(r) ==
    /\ pc[r] = "commit"
    /\ CommitTxn(r)
    /\ Goto(r, "ended")
    /\ UNCHANGED <<dag, staffed, batch, gate, asked, iter, replans, decision, cancel, aborted>>

Active(r) == pc[r] \in {"loop", "policy", "gate", "asked", "results", "commit"}

(* The 600 s timeout cancels the run in the middle. *)
Timeout(r) ==
    /\ "timeout" \in Faults
    /\ Active(r)
    /\ RollbackTxn(r)
    /\ Goto(r, IF r = 1 THEN "failing" ELSE "ended")
    /\ UNCHANGED <<dag, staffed, batch, gate, asked, iter, replans, decision, cancel, aborted>>

(* An exception outside the guarded parts: any step may raise one, and the *)
(* gate does when it looks up a node that a policy has denied.  In run 1   *)
(* it leaves the session; a resumed run logs it and the session commits.   *)
Crash(r) ==
    /\ \/ "crash" \in Faults /\ Active(r)
       \/ pc[r] = "gate" /\ GateNext(r) \ batch[r] # {}
    /\ IF r = 1
       THEN RollbackTxn(r) /\ Goto(r, "failing")
       ELSE CommitTxn(r) /\ Goto(r, "ended")
    /\ UNCHANGED <<dag, staffed, batch, gate, asked, iter, replans, decision, cancel, aborted>>

(* Mutant of MarkWorkflowFailed: the UPDATE is lost. *)
MarkWorkflowFailedLost(r) ==
    /\ pc[r] = "failing"
    /\ Goto(r, "ended")
    /\ UNCHANGED <<dag, staffed, batch, gate, asked, iter, replans, dbVars, decision, cancel, aborted>>

(* _mark_workflow_failed, from a session of its own. *)
MarkWorkflowFailed(r) ==
    /\ pc[r] = "failing"
    /\ lock = None
    /\ row' = "failed"
    /\ Goto(r, "ended")
    /\ UNCHANGED <<dag, staffed, batch, gate, asked, iter, replans, lock, snap, prow, psnap, ledger,
                   pend, ckpts, drafts, decision, cancel, aborted>>

(* load_latest, load_by_hash and restore_dag: the latest checkpoint, or    *)
(* the one whose hash the client gives, becomes the DAG.                   *)
Load == snap' \in ckpts

-----------------------------------------------------------------------------
(* POST /workflows/{id}/resume: any checkpoint, whatever the status is.    *)
(* Nothing in the code keeps it from run 1 before that has parked (early), *)
(* or from another resumed run (double); a client may.                     *)
Resume(r) ==
    /\ pc[r] = "unused"
    /\ \A q \in Run : pc[q] \in {"unused", "ended"}
                       \/ (IF q = 1 THEN "early" ELSE "double") \in Outside
    /\ r = 1 + Cardinality({q \in Run : pc[q] # "unused"})
    /\ lock = None
    /\ row' = "running"
    /\ Load
    /\ Goto(r, "launched")
    /\ UNCHANGED <<dag, staffed, batch, gate, asked, iter, replans, lock, prow, psnap, ledger, pend,
                   ckpts, drafts, decision, cancel, aborted>>

(* A reviewer answers. *)
Decide(n, verdict) ==
    /\ "decide" \in Outside
    /\ decision[n] = "pending"
    /\ decision' = [decision EXCEPT ![n] = verdict]
    /\ UNCHANGED <<runVars, dbVars, cancel, aborted>>

(* The janitor: nobody answered. *)
Expire(n) ==
    /\ "expire" \in Outside
    /\ decision[n] = "pending"
    /\ lock = None
    /\ decision' = [decision EXCEPT ![n] = "expired"]
    /\ row' = IF row = "awaiting" THEN "failed" ELSE row
    /\ UNCHANGED <<runVars, lock, snap, prow, psnap, ledger, pend, ckpts, drafts, cancel, aborted>>

(* DELETE /workflows/{id}: the status is read, then written. *)
CancelRead ==
    /\ "cancel" \in Outside
    /\ cancel = "idle"
    /\ row \in {"pending", "running"}
    /\ cancel' = "read"
    /\ UNCHANGED <<runVars, dbVars, decision, aborted>>

CancelWrite ==
    /\ cancel = "read"
    /\ lock = None
    /\ row' = "cancelled"
    /\ cancel' = "done"
    /\ UNCHANGED <<runVars, lock, snap, prow, psnap, ledger, pend, ckpts, drafts, decision, aborted>>

(* POST /workflows/cleanup-stale, ten minutes after the start: one         *)
(* conditional UPDATE.                                                     *)
CleanupStale ==
    /\ "cleanup" \in Outside
    /\ pc[1] = "ended"
    /\ lock = None
    /\ row \in {"pending", "running"}
    /\ row' = "failed"
    /\ UNCHANGED <<runVars, lock, snap, prow, psnap, ledger, pend, ckpts, drafts, decision, cancel, aborted>>

-----------------------------------------------------------------------------
Step(r) ==
    \/ Claim(r) \/ SelectFails(r) \/ Prepare(r) \/ Policy(r) \/ GateCheck(r)
    \/ \E n \in Node : GateHonour(r, n) \/ GateAsk(r, n)
    \/ \E n \in Node : LlmFails(r, n) \/ PostFails(r, n) \/ Accepts(r, n) \/ Retry(r, n)
                         \/ Replan(r, n) \/ Abort(r, n)
    \/ Finish(r) \/ Runaway(r) \/ EndRun(r) \/ Crash(r) \/ MarkWorkflowFailed(r)

Next ==
    \/ \E r \in Run : Step(r) \/ Timeout(r) \/ Resume(r)
    \/ \E n \in Node : Expire(n) \/ \E verdict \in {"approved", "denied"} : Decide(n, verdict)
    \/ CancelRead
    \/ CancelWrite
    \/ CleanupStale

(* The event loop runs every coroutine on; nothing makes a reviewer answer *)
(* or a client resume, cancel or clean up.                                 *)
Fairness ==
    /\ \A r \in Run : WF_vars(Step(r))
    /\ WF_vars(CancelWrite)

Spec == Init /\ [][Next]_vars /\ Fairness

-----------------------------------------------------------------------------
(* A node runs or is completed only when everything it depends on is       *)
(* completed, in every run, through retries, alternatives and resumes      *)
(* (get_ready_nodes; scheduler.py: "Dependency-aware parallel execution"). *)
DependenciesFirst ==
    \A r \in Run : \A n \in Node :
        dag[r][n] \in {"running", "completed"} \/ n \in batch[r] =>
            \A m \in DependsOn(n) : dag[r][m] = "completed"

(* No node is left pending behind a failure: "Will be handled by           *)
(* mark_failed cascade" (dag.py).                                          *)
NobodyStranded ==
    \A r \in Run : \A n \in Node :
        (\E m \in DependsOn(n) : dag[r][m] \in {"failed", "skipped"}) =>
            dag[r][n] \in {"absent", "failed", "skipped"}

(* The retry and re-plan limits end the loop before the iteration limit    *)
(* does.                                                                   *)
RunawayNeverFires ==
    \A r \in Run : iter[r] <= Cap(r) /\ (pc[r] = "loop" /\ ~Complete(dag[r]) => iter[r] < Cap(r))

(* A durable checkpoint claims a task completed only if its result and its *)
(* charge are durable too, so a resume after a crash skips only work that  *)
(* is paid for and stored.                                                 *)
CheckpointsBacked ==
    \A c \in ckpts : \A n \in Of(c, "completed") :
        \A kind \in {"result", "charge"} : \E e \in ledger : e.node = n /\ e.kind = kind

(* A workflow reported completed, with neither failed nor skipped tasks,   *)
(* completed all of its tasks.                                             *)
HonestCompletion ==
    row = "completed" /\ Of(snap, "failed") \cup Of(snap, "skipped") = {} =>
        Of(snap, "completed") = Present(snap)

(* A workflow does not stay pending or running for ever after its first    *)
(* run: it ends, or waits for a reviewer ("marks the workflow FAILED so    *)
(* /status reflects the real terminal state"). A resumed run that fails    *)
(* has no such handler.                                                    *)
WorkflowEnds ==
    row \in {"pending", "running"} ~>
        row \notin {"pending", "running"} \/ \E r \in Run \ {1} : pc[r] # "unused"

-----------------------------------------------------------------------------
(* Expectations that the repository states and the code does not meet.     *)

(* A workflow that a reflection aborted does not end as completed          *)
(* (end_to_end_flow.md: "abort -> signed checkpoint + break").             *)
AbortSticks ==
    aborted = {1} /\ pc[1] = "ended" /\ (\A r \in Run \ {1} : pc[r] = "unused") => row # "completed"

(* A cancelled workflow stays cancelled, unless someone resumes it         *)
(* (openclaw.md: "Stop polling when status" is cancelled).                 *)
CancelSticks ==
    [][row = "cancelled" => row' = "cancelled" \/ \E r \in Run : Resume(r)]_vars

(* A result that a run wrote survives the run's end ("task rows are        *)
(* inserted + committed by the scheduler's per-task flushes").             *)
ProgressKept ==
    [][\A r \in Run : \A e \in pend[r] :
         e.kind = "result" /\ pc'[r] \in {"ended", "failing"} => e \in ledger']_vars

(* "Three total alternatives per workflow": MAX_REPLANS_PER_WORKFLOW.      *)
ReplansCapped ==
    \A r \in Run : Cardinality({n \in Present(dag[r]) : n[2] > 0}) <= MaxReplans

(* Once every run has ended, every reservation was charged or released     *)
(* (openclaw.md: "any reserved-but-not-spent amount is released").         *)
ReservationsSettled ==
    row \in {"completed", "failed"} /\ (\A r \in Run : pc[r] \in {"unused", "ended"}) =>
        \A e \in ledger : e.kind = "reserve" =>
            \E f \in ledger : f.node = e.node /\ f.kind \in {"charge", "release"}

(* Every result that was paid to the LLM was charged (openclaw.md: "then   *)
(* charges the actual cost after completion").                             *)
EveryAttemptCharged ==
    \A e \in ledger : e.kind = "result" => Ev(e.node, "charge", e.nth) \in ledger
=============================================================================
