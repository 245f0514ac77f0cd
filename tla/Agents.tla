------------------------------- MODULE Agents -------------------------------
(***************************************************************************)
(* The agents table and those who write it: health checks (the worker and   *)
(* the endpoint), workflow runs that select agents and record trust, the    *)
(* trust decay worker, the promotion worker, and administrators             *)
(* (services/agent_service, trust_service, evolution_service,               *)
(* consensus_service, workers/health_check, orchestration/selector).        *)
(*                                                                          *)
(* They write different columns of a row, and SQLAlchemy updates only the   *)
(* columns an object has changed: a behaviour of the model exercises the    *)
(* writers of one column (focus).                                           *)
(***************************************************************************)
EXTENDS Integers, Sequences, FiniteSets, FiniteSetsExt

CONSTANTS
    None,
    Agents,
    Initially,     \* Initially[a]: status at the start, active or degraded
    Skills,        \* Skills[a]: capabilities
    Cost,          \* Cost[a]: avg_cost_per_call
    Base,          \* Base[a]: the share of cost, latency and match in its score
    Checkers,      \* health checks: "worker", and calls of the endpoint
    DegradeAt,     \* health_check_degraded_threshold
    SuspendAt,     \* health_check_suspended_threshold
    Runs,          \* workflow runs
    Nodes,         \* capabilities of the DAG, in topological order
    HighRisk,      \* capabilities that are verified by consensus
    Budget,        \* budget of a run
    VerifierCount,
    Composites,    \* composite scores of a task
    Top,           \* the trust scale: 1.0
    Floor,         \* TRUST_FLOOR
    Ceiling,       \* TRUST_CEILING
    Start,         \* trust of a new agent
    Alpha,         \* Alpha[n]: learning rate after n - 1 interactions, of Top
    Kept,          \* Kept[k]: what decay leaves after k - 1 intervals, of Top
    Pool,          \* agents that are ranked
    Evaluators,    \* runs of promote_demote_agents
    MaxLevel,      \* highest safety_level
    MaxMoves,      \* bound: trust events outside of runs, and decays
    MaxDown,       \* bound: outages
    MaxAdmin       \* bound: requests of administrators

ASSUME AgentsAssumption ==
    /\ {Floor, Start, Ceiling, Top} \subseteq Nat
    /\ 0 < Floor /\ Floor <= Start /\ Start <= Ceiling /\ Ceiling <= Top
    /\ Kept \in Seq(0..Top) /\ Kept # <<>>
    /\ Alpha \in Seq(0..Top) /\ Alpha # <<>>
    /\ Composites \subseteq 0..Top
    /\ IsFiniteSet(Agents) /\ IsFiniteSet(Pool) /\ None \notin Agents \cup Runs \cup {"missed"}
    /\ Cost \in [Agents -> Nat] /\ Budget \in Nat
    /\ Len(Nodes) \in Nat \ {0} /\ DOMAIN Nodes = 1..Len(Nodes)
    /\ Initially \in [Agents -> {"active", "degraded"}]
    /\ 0 < DegradeAt /\ DegradeAt <= SuspendAt

Statuses == {"active", "degraded", "suspended", "inactive"}
Usable == {"active", "degraded"}

VARIABLES
    status,    \* agents.status
    failures,  \* the failure counter in Redis
    up,        \* the agent answers its health check
    check,     \* check[c]: the health check that c is making
    trust,     \* agents.trust_score
    events,    \* events[a]: trust_events of a, counted up to Len(Alpha)
    quiet,     \* quiet[a]: decay intervals since the last trust event
    run,       \* run[s]: the session of workflow run s
    decay,     \* decay[a]: what the decay worker is about to write, or None
    level,     \* level[a]: agents.safety_level
    eval,      \* eval[e]: what evaluation e is about to write
    focus, downs, admin, moves

healthvars == <<failures, up, check, downs>>
trustvars == <<trust, events, quiet, run, decay, moves>>
levelvars == <<level, eval>>
vars == <<status, failures, up, check, trust, events, quiet, run, decay, moves, level, eval, focus, downs, admin>>

-----------------------------------------------------------------------------
(* Administrators.                                                          *)

Ask == admin < MaxAdmin /\ admin' = admin + 1

\* delete_agent
Deactivate(a) ==
    /\ focus = "health" /\ Ask
    /\ status' = [status EXCEPT ![a] = "inactive"]
    /\ UNCHANGED <<healthvars, trustvars, levelvars, focus>>

\* update_agent of the status
PatchStatus(a, st) ==
    /\ focus = "health" /\ Ask
    /\ st # status[a]
    /\ status' = [status EXCEPT ![a] = st]
    /\ UNCHANGED <<healthvars, trustvars, levelvars, focus>>

\* update_agent of the safety level
PatchLevel(a, l) ==
    /\ focus = "levels" /\ Ask
    /\ level' = [level EXCEPT ![a] = l]
    /\ UNCHANGED <<status, healthvars, trustvars, eval, focus>>

-----------------------------------------------------------------------------
(* Health checks.  loaded: the statuses as the session read them; set: the  *)
(* statuses it will write; todo: agents still to be probed.                 *)

Resting == [todo |-> {}, loaded |-> [a \in Agents |-> None], set |-> [a \in Agents |-> None]]

\* Mutant: the worker looks after active agents only.
WatchedActive == {a \in Agents : status[a] = "active"}

\* whom the worker checks
Watched == {a \in Agents : status[a] \in Usable}

\* run_health_checks loads its agents once; the endpoint loads one, in any status
BeginCheck(c, S) ==
    /\ focus = "health" /\ check[c] = Resting
    /\ S # {}
    /\ IF c = "worker" THEN S = Watched ELSE Cardinality(S) = 1
    /\ check' = [check EXCEPT ![c] = [todo |-> S, set |-> [a \in Agents |-> None],
                                      loaded |-> [a \in Agents |-> IF a \in S THEN status[a] ELSE None]]]
    /\ UNCHANGED <<status, failures, up, downs, admin, trustvars, levelvars, focus>>

\* the status that a probe with f failures in a row gives to an agent
Judged(st, f) ==
    IF f = 0 THEN (IF st = "degraded" THEN "active" ELSE st)
    ELSE IF f >= SuspendAt THEN "suspended"
    ELSE IF f >= DegradeAt /\ st = "active" THEN "degraded"
    ELSE st

\* The counter in Redis changes at once, the row when the session commits.
Probe(c, a) ==
    LET f == IF up[a] THEN 0 ELSE Min({failures[a] + 1, SuspendAt})
        st == check[c].loaded[a]
    IN /\ a \in check[c].todo
       /\ failures' = [failures EXCEPT ![a] = f]
       /\ check' = [check EXCEPT ![c].todo = @ \ {a},
                                 ![c].set[a] = IF Judged(st, f) = st THEN None ELSE Judged(st, f)]
       /\ UNCHANGED <<status, up, downs, admin, trustvars, levelvars, focus>>

\* an UPDATE for the statuses that changed, whatever the row has become
Written(c) == [a \in Agents |-> IF check[c].set[a] # None THEN check[c].set[a] ELSE status[a]]

CommitCheck(c) ==
    /\ check[c] # Resting /\ check[c].todo = {}
    /\ status' = Written(c)
    /\ check' = [check EXCEPT ![c] = Resting]
    /\ UNCHANGED <<failures, up, downs, admin, trustvars, levelvars, focus>>

\* The session fails, and Celery starts the task again.
AbandonCheck(c) ==
    /\ check[c] # Resting /\ downs < MaxDown
    /\ downs' = downs + 1
    /\ check' = [check EXCEPT ![c] = Resting]
    /\ UNCHANGED <<status, failures, up, admin, trustvars, levelvars, focus>>

\* the counter's time to live runs out
FailuresExpire(a) ==
    /\ focus = "health" /\ failures[a] > 0
    /\ failures' = [failures EXCEPT ![a] = 0]
    /\ UNCHANGED <<status, up, check, downs, admin, trustvars, levelvars, focus>>

GoDown(a) ==
    /\ focus = "health" /\ up[a] /\ downs < MaxDown
    /\ downs' = downs + 1
    /\ up' = [up EXCEPT ![a] = FALSE]
    /\ UNCHANGED <<status, failures, check, admin, trustvars, levelvars, focus>>

ComeUp(a) ==
    /\ ~up[a]
    /\ up' = [up EXCEPT ![a] = TRUE]
    /\ UNCHANGED <<status, failures, check, downs, admin, trustvars, levelvars, focus>>

-----------------------------------------------------------------------------
(* Trust.  A run keeps one session: the agents it assigned stay in the      *)
(* identity map (seen) with the values of their first load, and the rows it *)
(* updated stay locked (pend) until it commits.                             *)

\* Mutant: a score may sink to zero.
ClampCeiling(x) == Min({x, Ceiling})

Clamp(x) == Max({Floor, Min({x, Ceiling})})

Decayed(x, k) == (x * Kept[Min({k + 1, Len(Kept)})]) \div Top

\* record_trust_event, steps 1 to 6; n interactions so far
Updated(old, composite, n, k) ==
    LET alpha == Alpha[Min({n + 1, Len(Alpha)})]
    IN Clamp(((Top - alpha) * Decayed(old, k) + alpha * composite) \div Top)

Counted(n) == Min({n, Len(Alpha)})

Fresh == [pc |-> "idle", node |-> 1, agent |-> [i \in DOMAIN Nodes |-> None], left |-> Budget,
          seen |-> [a \in Agents |-> None], pend |-> [a \in Agents |-> None], verdict |-> None]

\* somebody else holds the lock of the row
Held(s, a) == decay[a] # None \/ \E o \in Runs \ {s} : run[o].pend[a] # None

\* the trust score that session s sees in its object
View(s, a) == IF run[s].seen[a] # None THEN run[s].seen[a] ELSE trust[a]

StartRun(s) ==
    /\ focus = "trust" /\ run[s].pc = "idle"
    /\ run' = [run EXCEPT ![s].pc = "select"]
    /\ UNCHANGED <<status, healthvars, trust, events, quiet, decay, moves, levelvars, focus, admin>>

\* select_agent: the query filters the status of the row, the score is
\* computed from the object
Candidates(s, capability) ==
    {a \in Agents : status[a] \in Usable /\ capability \in Skills[a] /\ Cost[a] <= run[s].left}

Score(s, a) == 35 * View(s, a) + Base[a] + IF status[a] = "active" THEN 15 * Top ELSE (15 * Top) \div 2

\* Mutant: every node is offered the whole budget.
RemainingWhole(s, a) == run[s].left

Remaining(s, a) == run[s].left - Cost[a]

\* one node of select_agents_for_dag; without a candidate the run fails
SelectAgent(s) ==
    LET i == run[s].node
        C == Candidates(s, Nodes[i])
    IN /\ run[s].pc = "select"
       /\ \/ /\ C = {}
             /\ run' = [run EXCEPT ![s] = [Fresh EXCEPT !.pc = "failed"]]
          \/ \E a \in C :
               /\ \A b \in C : Score(s, b) <= Score(s, a)
               /\ run' = [run EXCEPT ![s].agent[i] = a, ![s].left = Remaining(s, a),
                                     ![s].seen[a] = View(s, a),
                                     ![s].node = IF i = Len(Nodes) THEN 1 ELSE i + 1,
                                     ![s].pc = IF i = Len(Nodes) THEN "record" ELSE "select"]
       /\ UNCHANGED <<status, healthvars, trust, events, quiet, decay, moves, levelvars, focus, admin>>

\* The row is locked and read, but the object in the identity map keeps the
\* value it has.
OldTrust(s, a) == View(s, a)

\* record_trust_event of the task of the current node, inside the run's
\* session; base: the value that the first update of the transaction used
RecordTrust(s, c) ==
    LET i == run[s].node
        who == run[s].agent[i]
        own == run[s].pend[who]
        old == OldTrust(s, who)
        new == IF own = None THEN Updated(old, c, events[who], quiet[who])
               ELSE Updated(old, c, events[who] + own.n, 0)
    IN /\ run[s].pc = "record"
       /\ ~Held(s, who)
       /\ run' = [run EXCEPT ![s].seen[who] = new,
                             ![s].pend[who] = IF own = None THEN [base |-> old, new |-> new, n |-> 1, dirty |-> old # new]
                                            ELSE [own EXCEPT !.new = new, !.n = @ + 1, !.dirty = @ \/ old # new],
                             ![s].pc = IF Nodes[i] \in HighRisk THEN "verify" ELSE "next"]
       /\ UNCHANGED <<status, healthvars, trust, events, quiet, decay, moves, levelvars, focus, admin>>

\* a flush emits an UPDATE only if the value has changed
Flushed(a, w) == IF w # None /\ w.dirty THEN w.new ELSE trust[a]

\* the scheduler commits between batches and at the end; its objects stay loaded
CommitRun(s) ==
    /\ run[s].pc = "next"
    /\ LET pend == run[s].pend
       IN /\ trust' = [a \in Agents |-> Flushed(a, pend[a])]
          /\ events' = [a \in Agents |-> IF pend[a] = None THEN events[a] ELSE Counted(events[a] + pend[a].n)]
          /\ quiet' = [a \in Agents |-> IF pend[a] = None THEN quiet[a] ELSE 0]
          /\ run' = [run EXCEPT ![s] = IF run[s].node = Len(Nodes) THEN [Fresh EXCEPT !.pc = "done"]
                                       ELSE [run[s] EXCEPT !.pc = "record", !.node = @ + 1, !.verdict = None,
                                                           !.pend = [a \in Agents |-> None]]]
    /\ UNCHANGED <<status, healthvars, decay, moves, levelvars, focus, admin>>

\* the next node of the batch, in the same transaction
NextNode(s) ==
    /\ run[s].pc = "next" /\ run[s].node < Len(Nodes)
    /\ run' = [run EXCEPT ![s].pc = "record", ![s].node = @ + 1, ![s].verdict = None]
    /\ UNCHANGED <<status, healthvars, trust, events, quiet, decay, moves, levelvars, focus, admin>>

\* Mutant: the session of a failed run is not closed.
FailedKeepsLocks(s) == [run[s] EXCEPT !.pc = "failed"]

\* what a failed run leaves behind: its transaction is rolled back
FailedRun(s) == [Fresh EXCEPT !.pc = "failed"]

\* a deadlock (see DeadlockVictim) or any other error of the database
FailRun(s) ==
    /\ run[s].pc \in {"record", "verify", "next"}
    /\ run' = [run EXCEPT ![s] = FailedRun(s)]
    /\ UNCHANGED <<status, healthvars, trust, events, quiet, decay, moves, levelvars, focus, admin>>

\* PostgreSQL aborts a transaction that waits in a circle.
DeadlockVictim(s) ==
    /\ \E o \in Runs \ {s} :
          /\ run[s].pc = "record" /\ run[o].pc = "record"
          /\ run[o].pend[run[s].agent[run[s].node]] # None
          /\ run[s].pend[run[o].agent[run[o].node]] # None
    /\ FailRun(s)

\* verify_with_consensus: the most trusted active verifiers
VerifierSets ==
    LET V == {a \in Agents : status[a] = "active" /\ "verification" \in Skills[a]}
    IN {S \in SUBSET V : /\ Cardinality(S) = Min({Cardinality(V), VerifierCount})
                         /\ \A a \in S, b \in V \ S : trust[b] <= trust[a]}

\* verdicts: yes and no with full confidence, a no without any, an error
Verdicts == {"yes", "no", "unsure", "error"}

Weight(s, votes, kinds) ==
    MapThenSumSet(LAMBDA a : View(s, a), {a \in DOMAIN votes : votes[a] \in kinds})

\* agreement_ratio in percent, and the confidence of the task after it
Agreement(s, votes) ==
    LET total == Weight(s, votes, {"yes", "no"})
    IN IF total = 0 THEN 100 ELSE (100 * Weight(s, votes, {"yes"})) \div total

Confidence(quality, ratio) == IF ratio >= 60 THEN quality ELSE Max({30, (quality * ratio) \div 100})

\* the consensus of a high-risk task, and the review gate for low confidence;
\* the verdict is noted when every verifier rejects
Verify(s) ==
    /\ run[s].pc = "verify"
    /\ \E S \in VerifierSets : \E votes \in [S -> Verdicts] :
          run' = [run EXCEPT ![s].pc = "next",
                             ![s].verdict = IF S # {} /\ \A a \in S : votes[a] = "no"
                                            THEN (IF Confidence(100, Agreement(s, votes)) < 40 THEN "reviewed" ELSE "missed")
                                            ELSE None]
    /\ UNCHANGED <<status, healthvars, trust, events, quiet, decay, moves, levelvars, focus, admin>>

\* POST /trust/{agent_id}/record: a session of its own
RecordDirect(a, c) ==
    /\ focus = "trust" /\ moves < MaxMoves
    /\ ~Held(None, a)
    /\ moves' = moves + 1
    /\ trust' = [trust EXCEPT ![a] = Updated(@, c, events[a], quiet[a])]
    /\ events' = [events EXCEPT ![a] = Counted(@ + 1)]
    /\ quiet' = [quiet EXCEPT ![a] = 0]
    /\ UNCHANGED <<status, healthvars, run, decay, levelvars, focus, admin>>

\* an interval passes; an agent without events never counts as idle
Tick ==
    /\ focus = "trust"
    /\ \E a \in Agents : quiet[a] + 1 < Len(Kept) /\ events[a] > 0
    /\ quiet' = [a \in Agents |-> IF events[a] > 0 THEN Min({quiet[a] + 1, Len(Kept) - 1}) ELSE quiet[a]]
    /\ UNCHANGED <<status, healthvars, trust, events, run, decay, moves, levelvars, focus, admin>>

\* Mutant: rows that others have locked are decayed too.
DecayableAll == {a \in Agents : status[a] \in Usable /\ quiet[a] >= 1}

\* FOR UPDATE SKIP LOCKED
Decayable == {a \in Agents : status[a] \in Usable /\ quiet[a] >= 1 /\ ~Held(None, a)}

\* decay_all_scores reads and locks its rows
DecayBegin ==
    /\ focus = "trust" /\ moves < MaxMoves
    /\ decay = [a \in Agents |-> None]
    /\ Decayable # {}
    /\ moves' = moves + 1
    /\ decay' = [a \in Agents |-> IF a \in Decayable THEN Max({Floor, Decayed(trust[a], quiet[a])}) ELSE None]
    /\ UNCHANGED <<status, healthvars, trust, events, quiet, run, levelvars, focus, admin>>

DecayCommit ==
    /\ decay # [a \in Agents |-> None]
    /\ trust' = [a \in Agents |-> IF decay[a] # None THEN decay[a] ELSE trust[a]]
    /\ decay' = [a \in Agents |-> None]
    /\ UNCHANGED <<status, healthvars, events, quiet, run, moves, levelvars, focus, admin>>

-----------------------------------------------------------------------------
(* Promotion and demotion.                                                  *)

Nobody == [up |-> {}, down |-> {}, avg |-> <<>>]

Ranked(avg) == {a \in Pool : avg[a] > 0}
\* composites[idx] of the list sorted downwards
Nth(avg, idx) ==
    CHOOSE v \in {avg[a] : a \in Ranked(avg)} :
        /\ Cardinality({a \in Ranked(avg) : avg[a] > v}) <= idx
        /\ Cardinality({a \in Ranked(avg) : avg[a] >= v}) > idx

\* int(n * (1 - 90 / 100)): the float is a little less than a tenth
PromoteIdx(n) == (10 * n - 1) \div 100

\* Mutant: the list is taken to be sorted upwards.
DemoteIdxLow(n) == n \div 10

DemoteIdx(n) == Min({n - 1, (90 * n) \div 100})

\* promote_demote_agents, the reads.  avg[a]: average composite score of an
\* active agent with three scores or more, else 0
Evaluate(e, avg) ==
    LET n == Cardinality(Ranked(avg))
        up_ == {a \in Ranked(avg) : avg[a] >= Nth(avg, PromoteIdx(n)) /\ level[a] < MaxLevel}
        down_ == {a \in Ranked(avg) \ up_ : avg[a] <= Nth(avg, DemoteIdx(n)) /\ level[a] > 1}
    IN /\ focus = "levels" /\ eval[e] = Nobody
       /\ n >= 5
       /\ up_ \cup down_ # {}
       /\ eval' = [eval EXCEPT ![e] = [up |-> up_, down |-> down_, avg |-> avg]]
       /\ UNCHANGED <<status, level, healthvars, trustvars, focus, admin>>

\* two UPDATEs with relative values, then the commit
CommitLevels(e) ==
    /\ eval[e] # Nobody
    /\ level' = [a \in Pool |-> IF a \in eval[e].up THEN level[a] + 1
                                ELSE IF a \in eval[e].down THEN level[a] - 1 ELSE level[a]]
    /\ eval' = [eval EXCEPT ![e] = Nobody]
    /\ UNCHANGED <<status, healthvars, trustvars, focus, admin>>

-----------------------------------------------------------------------------
Init ==
    /\ failures = [a \in Agents |-> 0]
    /\ up = [a \in Agents |-> TRUE]
    /\ check = [c \in Checkers |-> Resting]
    /\ trust = [a \in Agents |-> Start]
    /\ events = [a \in Agents |-> 0]
    /\ quiet = [a \in Agents |-> 0]
    /\ run = [s \in Runs |-> Fresh]
    /\ decay = [a \in Agents |-> None]
    /\ focus \in {"health", "trust", "levels"}
    /\ status = Initially
    /\ level \in [Pool -> IF focus = "levels" THEN {1, MaxLevel} ELSE {1}]
    /\ eval = [e \in Evaluators |-> Nobody]
    /\ downs = 0 /\ admin = 0 /\ moves = 0

CheckStep(c) == CommitCheck(c) \/ \E a \in Agents : Probe(c, a)
RunStep(s) ==
    \/ SelectAgent(s) \/ CommitRun(s) \/ NextNode(s) \/ Verify(s) \/ DeadlockVictim(s)
    \/ \E c \in Composites : RecordTrust(s, c)

Next ==
    \/ \E a \in Agents : \/ Deactivate(a) \/ FailuresExpire(a) \/ GoDown(a) \/ ComeUp(a)
                         \/ \E st \in Statuses : PatchStatus(a, st)
                         \/ \E c \in Composites : RecordDirect(a, c)
    \/ \E c \in Checkers : CheckStep(c) \/ AbandonCheck(c) \/ \E S \in SUBSET Agents : BeginCheck(c, S)
    \/ \E s \in Runs : StartRun(s) \/ RunStep(s) \/ FailRun(s)
    \/ Tick \/ DecayBegin \/ DecayCommit
    \/ \E a \in Pool, l \in {1, MaxLevel} : PatchLevel(a, l)
    \/ \E e \in Evaluators : CommitLevels(e) \/ \E avg \in [Pool -> 0..2] : Evaluate(e, avg)

\* Celery beat starts the health check every 60 s; sessions go on.
Fairness ==
    /\ WF_vars(BeginCheck("worker", Watched))
    /\ \A c \in Checkers : WF_vars(CheckStep(c))
    /\ \A s \in Runs : WF_vars(RunStep(s))
    /\ WF_vars(DecayCommit)

Spec == Init /\ [][Next]_vars /\ Fairness

-----------------------------------------------------------------------------
TypeOK ==
    /\ status \in [Agents -> Statuses]
    /\ failures \in [Agents -> 0..SuspendAt]
    /\ trust \in [Agents -> Floor..Ceiling]
    /\ quiet \in [Agents -> Nat] /\ events \in [Agents -> Nat]
    /\ \A s \in Runs : run[s].left \in Nat /\ run[s].pc \in {"idle", "select", "record", "verify", "next", "done", "failed"}
    /\ \A a \in Agents : decay[a] # None => decay[a] \in Floor..Ceiling

\* An agent that answers its checks does not stay degraded: the worker keeps
\* looking after degraded agents and clears the counter, although checks of
\* the endpoint interleave with it and administrators write the same column.
DegradedRecover ==
    \A a \in Agents :
        (focus = "health" /\ status[a] = "degraded") ~> (status[a] # "degraded" \/ ~up[a])

\* Only a recorded event raises trust: the decay worker never writes a value
\* that it computed before somebody else's update.
OnlyEventsRaise ==
    [][\A a \in Agents : trust'[a] > trust[a] => decay' = decay]_vars

\* A high-risk output that every verifier rejects goes to a human reviewer:
\* the votes have weight because trust never sinks to zero.
RejectionReviewed == \A s \in Runs : run[s].verdict # "missed"

\* The agents chosen for a DAG cost no more than the budget together, in
\* whatever way scores and statuses change between two selections.
PlanWithinBudget ==
    \A s \in Runs :
        MapThenSumSet(LAMBDA i : IF run[s].agent[i] = None THEN 0 ELSE Cost[run[s].agent[i]], DOMAIN Nodes) <= Budget

\* Runs that lock the same agents in opposite orders, with the decay worker in
\* between, all come to an end.
RunsFinish == \A s \in Runs : run[s].pc = "record" ~> run[s].pc \in {"done", "failed"}

\* One evaluation never promotes an agent that scores below one it demotes, and
\* of ten agents or fewer treats equals alike unless all are equal (of more than
\* ten, the two thresholds can meet in a tie that has agents above and below it).
RankedFairly ==
    \A e \in Evaluators : \A a \in eval[e].up, b \in eval[e].down :
        LET avg == eval[e].avg
        IN /\ avg[a] >= avg[b]
           /\ \/ avg[a] > avg[b]
              \/ Cardinality(Ranked(avg)) > 10
              \/ \A x, y \in Ranked(avg) : avg[x] = avg[y]

-----------------------------------------------------------------------------
(* Expectations that the repository states and the code does not meet.     *)

\* Every update of a score starts from the one before it
\* (trust_service.record_trust_event: the row lock is there "to prevent
\* concurrent trust score overwrites").
TrustUpdatesKept ==
    [][\A s \in Runs, a \in Agents :
          run[s].pend[a] # None /\ run'[s].pend[a] = None /\ run'[s].pc # "failed" =>
              run[s].pend[a].base = trust[a]]_vars

\* Safety levels stay within 1 and the highest one
\* (evolution_service.promote_demote_agents: the clamps "could never bind").
LevelsBounded == \A a \in Pool : level[a] \in 1..MaxLevel

\* A deactivated agent stays so unless an administrator says otherwise
\* (agent_service.delete_agent: "set status to inactive").
InactiveStays ==
    [][\A a \in Agents : status[a] = "inactive" /\ status'[a] # "inactive" => admin' # admin]_vars
=============================================================================
