-------------------------------- MODULE Tasks --------------------------------
(***************************************************************************)
(* Task rows and sprint boards, and the sessions that write them           *)
(* (services/task_service, task_test_service, project_service,             *)
(* orchestration/state_machine, the status writes of the scheduler).       *)
(*                                                                         *)
(* The two halves share no state: a behaviour exercises one (focus).  In    *)
(* both, a session reads rows, changes its objects, and an UPDATE writes    *)
(* only the columns that differ from what the object had loaded.  A row     *)
(* lock is taken by the flush and held until the session ends.              *)
(***************************************************************************)
EXTENDS Integers, Sequences, FiniteSets, FiniteSetsExt

CONSTANTS
    None,
    TaskIds,       \* tasks of the one workflow, all in one batch
    Gated,         \* those whose capability needs an approval
    Overriders,    \* calls of override_task
    Testers,       \* calls of run_test
    Kinds,         \* kinds of assertion a tester may use
    MaxRuns,       \* bound: executions of the workflow, the resumed ones included
    MaxTries,      \* bound: retries that reflection asks for, over all runs
    Backlog,       \* backlog tasks of the project
    Entries,       \* sprint_task_ids, numbers as they are sorted
    Requests,      \* calls of the board's endpoints
    Board,         \* Board[e]: entries at the start, as <<backlog task, position>>, or None
    MaxAsks        \* bound: board requests of a behaviour

ASSUME TasksAssumption == Gated \subseteq TaskIds /\ Entries \subseteq Nat

Statuses == {"todo", "pending", "assigned", "running", "awaiting_approval", "retrying",
             "completed", "failed", "skipped", "blocked"}
Actions == {"retry", "skip", "force_complete", "cancel"}

\* the columns of a tasks row, and those that the ORM object carries
Row == [st : Statuses, out : Nat, forced : BOOLEAN, by : Nat]
Image == [st : Statuses, out : Nat]

ASSUME RowAssumption == None \notin Row /\ None \notin Image

VARIABLES
    row,       \* row[t]: the committed tasks row, None before it exists
    work,      \* work[t]: what the scheduler's transaction has made of a row it locks, else None
    obj,       \* obj[t]: the scheduler's ORM object, None until its session has it
    dag,       \* dag[t]: status of the node in the scheduler's DAG
    sched,     \* where the scheduler is: [pc, active], active the nodes of the batch
    saved,     \* the DAG of the latest checkpoint, or None
    ruling,    \* what the approvers have said of the gated tasks
    call,      \* call[o]: override request o
    test,      \* test[x]: test request x
    verdicts,  \* task_tests: <<task, output tested, status>>
    runs, tries,
    backlog,   \* backlog tasks that exist
    entry,     \* entry[e]: the sprint_tasks row, or None
    req,       \* req[r]: board request r
    flows,     \* workflows that the board has started
    asks, focus

taskvars == <<row, work, obj, dag, sched, saved, ruling, call, test, verdicts, runs, tries>>
boardvars == <<backlog, entry, req, flows, asks>>
vars == <<row, work, obj, dag, sched, saved, ruling, call, test, verdicts, runs, tries,
          backlog, entry, req, flows, asks, focus>>

-----------------------------------------------------------------------------
(* The table of transitions.                                               *)

\* VALID_TRANSITIONS, the part for overrides: from a status, by an action
Target(st, a) ==
    CASE a = "retry" /\ st = "running" -> "retrying"
      [] a = "retry" /\ st \in {"failed", "blocked"} -> "pending"
      [] a = "skip" /\ st \in {"pending", "running", "blocked", "todo"} -> "skipped"
      [] a = "force_complete" /\ st \in {"running", "failed", "pending", "blocked", "todo"} -> "completed"
      [] a = "cancel" /\ st \in {"pending", "running", "blocked", "todo", "assigned"} -> "failed"
      [] OTHER -> None

-----------------------------------------------------------------------------
(* The scheduler's session.                                                *)

Resting == [pc |-> "idle", active |-> {}]

\* row locks that override requests hold
Locked(t) == \E o \in Overriders : call[o].pc = "locked" /\ call[o].task = t

\* executions are numbered
Attempt == runs + tries

\* The columns a flush writes (forced and by are history: whether an override
\* wrote the row last, and the execution that set its status): those that differ from the loaded object.
Flushed(t, new) ==
    LET base == IF work[t] # None THEN work[t] ELSE row[t]
    IN [base EXCEPT !.st = IF new.st = obj[t].st THEN @ ELSE new.st,
                    !.out = IF new.out = obj[t].out THEN @ ELSE new.out,
                    !.forced = FALSE,
                    !.by = IF new.st = obj[t].st THEN @ ELSE Attempt]

\* task_rec gets new values and is flushed; without a change nothing is written
Write(t, new) ==
    IF new = obj[t] THEN UNCHANGED <<work, obj>>
    ELSE /\ ~Locked(t)
         /\ work' = [work EXCEPT ![t] = Flushed(t, new)]
         /\ obj' = [obj EXCEPT ![t] = new]

\* the rows after the session's commit
Durable == [t \in TaskIds |-> IF work[t] # None THEN work[t] ELSE row[t]]
Nothing == [t \in TaskIds |-> None]

Status(t, st) == [obj[t] EXCEPT !.st = st]

StartRun ==
    /\ focus = "tasks" /\ sched = Resting /\ runs < MaxRuns
    /\ runs = 0 \/ saved # None
    /\ runs' = runs + 1
    /\ dag' = IF runs = 0 THEN [t \in TaskIds |-> "pending"] ELSE saved
    /\ sched' = [pc |-> "batch", active |-> {}]
    /\ obj' = Nothing
    /\ UNCHANGED <<row, work, saved, ruling, call, test, verdicts, tries, boardvars, focus>>

\* _upsert_task_row: the row is created, or the object that session.get returns is set
Upserted(t, st) ==
    IF row[t] = None /\ work[t] = None
    THEN /\ work' = [work EXCEPT ![t] = [st |-> st, out |-> 0, forced |-> FALSE, by |-> Attempt]]
         /\ obj' = [obj EXCEPT ![t] = [st |-> st, out |-> 0]]
    ELSE LET loaded == IF obj[t] # None THEN obj[t] ELSE [st |-> row[t].st, out |-> row[t].out]
             base == IF work[t] # None THEN work[t] ELSE row[t]
         IN /\ obj' = [obj EXCEPT ![t] = [loaded EXCEPT !.st = st]]
            /\ IF loaded.st = st THEN UNCHANGED work
               ELSE ~Locked(t) /\ work' = [work EXCEPT ![t] = [base EXCEPT !.st = st, !.forced = FALSE, !.by = Attempt]]

\* Phase 1: budget is reserved and the task marked running, or it fails
Prepare(t, funded) ==
    /\ sched.pc = "batch" /\ dag[t] = "pending"
    /\ Upserted(t, IF funded THEN "running" ELSE "failed")
    /\ dag' = [dag EXCEPT ![t] = IF funded THEN "running" ELSE "failed"]
    /\ sched' = IF funded THEN [sched EXCEPT !.active = @ \cup {t}] ELSE sched
    /\ UNCHANGED <<row, saved, ruling, call, test, verdicts, runs, tries, boardvars, focus>>

\* _policy_evaluate_nodes: a denied node leaves the batch, its DAG node stays running
PolicyDenies(t) ==
    /\ sched.pc = "batch" /\ t \in sched.active
    /\ \A u \in TaskIds : dag[u] # "pending"
    /\ Write(t, Status(t, "skipped"))
    /\ sched' = [sched EXCEPT !.active = @ \ {t}]
    /\ UNCHANGED <<row, dag, saved, ruling, call, test, verdicts, runs, tries, boardvars, focus>>

\* The commit in front of the approval gate; without a gated node the batch goes on.
ReachGate ==
    LET ask == sched.active \cap Gated
    IN /\ sched.pc = "batch"
       /\ \A u \in TaskIds : dag[u] # "pending"
       /\ sched' = [sched EXCEPT !.pc = IF ask # {} THEN "gate" ELSE "process"]
       /\ IF ask # {} THEN row' = Durable /\ work' = Nothing ELSE UNCHANGED <<row, work>>
       /\ UNCHANGED <<obj, dag, saved, ruling, call, test, verdicts, runs, tries, boardvars, focus>>

\* locks after a run has ended: none, whether it commits or rolls back
Unlocked == Nothing

\* No ruling yet: the pause.  A session of its own writes AWAITING_APPROVAL, the
\* DAG is saved, and the run ends: the first one rolls back, a resumed one commits.
Pause(t) ==
    LET kept == IF runs = 1 THEN row ELSE Durable
    IN /\ sched.pc = "gate" /\ t \in sched.active \cap Gated
       /\ ruling[t] = None /\ ~Locked(t)
       /\ saved' = [dag EXCEPT ![t] = "pending"]
       /\ row' = [kept EXCEPT ![t].st = "awaiting_approval", ![t].forced = FALSE]
       /\ work' = Unlocked
       /\ sched' = Resting
       /\ UNCHANGED <<obj, dag, ruling, call, test, verdicts, runs, tries, boardvars, focus>>

\* A ruling that the gate finds: the denied task is skipped
Refused(t) ==
    /\ sched.pc = "gate" /\ t \in sched.active \cap Gated
    /\ ruling[t] = "denied"
    /\ Write(t, Status(t, "skipped"))
    /\ dag' = [dag EXCEPT ![t] = "failed"]
    /\ sched' = [sched EXCEPT !.active = @ \ {t}]
    /\ UNCHANGED <<row, saved, ruling, call, test, verdicts, runs, tries, boardvars, focus>>

PassGate ==
    /\ sched.pc = "gate"
    /\ \A t \in sched.active \cap Gated : ruling[t] = "approved"
    /\ sched' = [sched EXCEPT !.pc = "process"]
    /\ UNCHANGED <<row, work, obj, dag, saved, ruling, call, test, verdicts, runs, tries, boardvars, focus>>

\* Mutant: the new output is put into the old JSON value, which is not seen as a change.
CompletedInPlace(t) == [st |-> "completed", out |-> IF obj[t].out = 0 THEN Attempt ELSE obj[t].out]

\* task_rec when the answer has been processed; an output is known by its execution
Completed(t) == [st |-> "completed", out |-> Attempt]

\* Phase 3: the call failed, the result is accepted, post-processing fails after
\* the task was marked completed, or reflection asks for a retry.
Process(t, outcome) ==
    /\ sched.pc = "process" /\ t \in sched.active
    /\ outcome = "retry" => tries < MaxTries
    /\ Write(t, CASE outcome = "failed" -> Status(t, "failed")
                  [] outcome = "accepted" -> Completed(t)
                  [] outcome = "broken" -> [Completed(t) EXCEPT !.st = "failed"]
                  [] outcome = "retry" -> [Completed(t) EXCEPT !.st = "pending"])
    /\ dag' = [dag EXCEPT ![t] = CASE outcome = "accepted" -> "completed"
                                   [] outcome = "retry" -> "pending"
                                   [] OTHER -> "failed"]
    /\ tries' = IF outcome = "retry" THEN tries + 1 ELSE tries
    /\ sched' = [sched EXCEPT !.active = @ \ {t}]
    /\ UNCHANGED <<row, saved, ruling, call, test, verdicts, runs, boardvars, focus>>

\* The loop goes on while a node is pending; then the session commits.
NextBatch ==
    /\ sched.pc = "process" /\ sched.active = {}
    /\ IF \E t \in TaskIds : dag[t] = "pending"
       THEN /\ sched' = [sched EXCEPT !.pc = "batch"]
            /\ UNCHANGED <<row, work>>
       ELSE /\ sched' = Resting
            /\ row' = Durable /\ work' = Unlocked
    /\ UNCHANGED <<obj, dag, saved, ruling, call, test, verdicts, runs, tries, boardvars, focus>>

\* Timeout, crash or error: rolled back, except that a resumed run swallows an
\* error inside the session's context, which then commits.
Abort ==
    /\ sched # Resting
    /\ sched' = Resting /\ work' = Unlocked
    /\ row' \in {row} \cup (IF runs > 1 THEN {Durable} ELSE {})
    /\ UNCHANGED <<obj, dag, saved, ruling, call, test, verdicts, runs, tries, boardvars, focus>>

\* a human approves or denies a gated task that waits
Rule(t, word) ==
    /\ focus = "tasks" /\ t \in Gated /\ saved # None /\ ruling[t] = None
    /\ ruling' = [ruling EXCEPT ![t] = word]
    /\ UNCHANGED <<row, work, obj, dag, sched, saved, call, test, verdicts, runs, tries, boardvars, focus>>

-----------------------------------------------------------------------------
(* override_task and run_test.                                             *)

NoCall == [pc |-> "idle", task |-> None, act |-> None, st |-> None]

Override(o, t, a) ==
    /\ focus = "tasks" /\ call[o] = NoCall /\ row[t] # None
    /\ call' = [call EXCEPT ![o] = [pc |-> "waiting", task |-> t, act |-> a, st |-> None]]
    /\ UNCHANGED <<row, work, obj, dag, sched, saved, ruling, test, verdicts, runs, tries, boardvars, focus>>

\* Mutant: the row is read without FOR UPDATE.
GrantedAlways(t) == TRUE

\* SELECT ... FOR UPDATE returns when nobody else holds the row
Granted(t) == work[t] = None /\ ~Locked(t)

LockTask(o) ==
    /\ call[o].pc = "waiting" /\ Granted(call[o].task)
    /\ call' = [call EXCEPT ![o].pc = "locked", ![o].st = row[call[o].task].st]
    /\ UNCHANGED <<row, work, obj, dag, sched, saved, ruling, test, verdicts, runs, tries, boardvars, focus>>

\* what the override makes of the row; output is forced if the request carries one
Overridden(o, output) ==
    LET r == row[call[o].task]
        to == Target(call[o].st, call[o].act)
    IN [r EXCEPT !.st = to, !.forced = TRUE, !.out = IF output /\ to = "completed" THEN 0 ELSE @]

\* The action is validated against the status read, applied and committed.
ApplyOverride(o, output) ==
    LET t == call[o].task
        ok == Target(call[o].st, call[o].act) # None
    IN /\ call[o].pc = "locked"
       /\ row' = IF ok THEN [row EXCEPT ![t] = Overridden(o, output)] ELSE row
       /\ call' = [call EXCEPT ![o] = [NoCall EXCEPT !.pc = IF ok THEN "done" ELSE "refused"]]
       /\ UNCHANGED <<work, obj, dag, sched, saved, ruling, test, verdicts, runs, tries, boardvars, focus>>

\* _eval_assertion, _eval_regex, _eval_schema, _eval_llm on an output (0: none, the
\* content is empty then): "lacks" passes without content, the judge may be absent.
Verdicts(kind, out) ==
    CASE kind = "contains" -> {IF out = 0 THEN "fail" ELSE "pass"}
      [] kind = "lacks" -> {IF out = 0 THEN "pass" ELSE "fail"}
      [] kind = "llm" -> {"pass", "fail", "skipped"}
      [] OTHER -> {"error"}

NoTest == [pc |-> "idle", task |-> None, out |-> None, kind |-> None]

\* the output is read ...
ReadOutput(x, t, kind) ==
    /\ focus = "tasks" /\ test[x] = NoTest /\ row[t] # None
    /\ test' = [test EXCEPT ![x] = [pc |-> "judging", task |-> t, out |-> row[t].out, kind |-> kind]]
    /\ UNCHANGED <<row, work, obj, dag, sched, saved, ruling, call, verdicts, runs, tries, boardvars, focus>>

\* ... and the verdict about it stored, whatever the task has become
StoreVerdict(x) ==
    /\ test[x].pc = "judging"
    /\ \E v \in Verdicts(test[x].kind, test[x].out) :
         verdicts' = verdicts \cup {<<test[x].task, test[x].out, v>>}
    /\ test' = [test EXCEPT ![x] = [NoTest EXCEPT !.pc = "done"]]
    /\ UNCHANGED <<row, work, obj, dag, sched, saved, ruling, call, runs, tries, boardvars, focus>>

-----------------------------------------------------------------------------
(* The board.  A request reads (Ask...), then writes and commits.  Only     *)
(* reorder_sprint_tasks locks several rows; the lock that a request takes   *)
(* with its last statement is not seen by anyone before its commit.         *)

NoReq == [kind |-> "idle", b |-> None, e |-> None, pos |-> None, st |-> None, wf |-> None,
          set |-> [e \in Entries |-> None], todo |-> {}, held |-> {}]

Held(e) == \E r \in Requests : e \in req[r].held
Live == {e \in Entries : entry[e] # None}
Of(b) == {e \in Live : entry[e].of = b}

Ask(r, q) ==
    /\ focus = "board" /\ req[r] = NoReq /\ asks < MaxAsks
    /\ asks' = asks + 1
    /\ req' = [req EXCEPT ![r] = q]
    /\ UNCHANGED <<taskvars, backlog, entry, flows, focus>>

\* the request ends: answered, or failed and rolled back
Ended(r) == req' = [req EXCEPT ![r] = NoReq]

CreateBacklogTask(b) ==
    /\ focus = "board" /\ b \notin backlog /\ asks < MaxAsks
    /\ asks' = asks + 1
    /\ backlog' = backlog \cup {b}
    /\ UNCHANGED <<taskvars, entry, req, flows, focus>>

\* add_task_to_sprint: the next position is computed from what is committed
AskAdd(r, b) ==
    /\ b \in backlog
    /\ Cardinality(Live) + Cardinality({q \in Requests : req[q].kind = "add"}) < Cardinality(Entries)  \* bound
    /\ Ask(r, [NoReq EXCEPT !.kind = "add", !.b = b,
                            !.pos = Max({-1} \cup {entry[e].pos : e \in Live}) + 1])

\* The foreign key is checked by the INSERT.
Add(r, e) ==
    /\ req[r].kind = "add" /\ entry[e] = None
    /\ entry' = IF req[r].b \in backlog
                THEN [entry EXCEPT ![e] = [of |-> req[r].b, pos |-> req[r].pos, st |-> "todo", wf |-> 0]]
                ELSE entry
    /\ Ended(r)
    /\ UNCHANGED <<taskvars, backlog, flows, asks, focus>>

\* delete_backlog_task: the ORM would null the foreign key of the entries it
\* finds, which the column refuses: the request fails
AskDelete(r, b) ==
    /\ b \in backlog /\ Of(b) = {}
    /\ Ask(r, [NoReq EXCEPT !.kind = "delete", !.b = b])

\* The DELETE cascades to the entries that were added meanwhile.
Delete(r) ==
    LET gone == Of(req[r].b)
    IN /\ req[r].kind = "delete" /\ \A e \in gone : ~Held(e)
       /\ backlog' = backlog \ {req[r].b}
       /\ entry' = [e \in Entries |-> IF e \in gone THEN None ELSE entry[e]]
       /\ Ended(r)
       /\ UNCHANGED <<taskvars, flows, asks, focus>>

AskRemove(r, e) == e \in Live /\ Ask(r, [NoReq EXCEPT !.kind = "remove", !.e = e])

Remove(r) ==
    /\ req[r].kind = "remove" /\ ~Held(req[r].e)
    /\ entry' = [entry EXCEPT ![req[r].e] = None]
    /\ Ended(r)
    /\ UNCHANGED <<taskvars, backlog, flows, asks, focus>>

\* update_sprint_task of the status or the position
AskPatch(r, e, st, pos) ==
    /\ e \in Live /\ (st # None \/ pos # None)
    /\ Ask(r, [NoReq EXCEPT !.kind = "patch", !.e = e,
                            !.st = IF st = entry[e].st THEN None ELSE st,
                            !.pos = IF pos = entry[e].pos THEN None ELSE pos])

\* execute_sprint_task: the workflow is created and run first, for any id at all
AskExecute(r, e) ==
    /\ focus = "board" /\ req[r] = NoReq /\ asks < MaxAsks
    /\ asks' = asks + 1
    /\ flows' = flows + 1
    /\ req' = [req EXCEPT ![r] = [NoReq EXCEPT !.kind = "run", !.e = e, !.wf = flows + 1]]
    /\ UNCHANGED <<taskvars, backlog, entry, focus>>

\* link_workflow loads the entry, or there is none
LoadLink(r) ==
    /\ req[r].kind = "run"
    /\ IF req[r].e \in Live
       THEN req' = [req EXCEPT ![r].kind = "patch", ![r].st = IF entry[req[r].e].st = "in_progress" THEN None
                                                             ELSE "in_progress"]
       ELSE Ended(r)
    /\ UNCHANGED <<taskvars, backlog, entry, flows, asks, focus>>

\* the workflow itself may fail, and nothing is linked
FailRun(r) ==
    /\ req[r].kind = "run"
    /\ Ended(r)
    /\ UNCHANGED <<taskvars, backlog, entry, flows, asks, focus>>

\* an UPDATE of the columns that the request has changed
Patched(r) ==
    [entry[req[r].e] EXCEPT !.st = IF req[r].st = None THEN @ ELSE req[r].st,
                            !.pos = IF req[r].pos = None THEN @ ELSE req[r].pos,
                            !.wf = IF req[r].wf = None THEN @ ELSE req[r].wf]

\* The UPDATE of a row that is gone fails.
Patch(r) ==
    /\ req[r].kind = "patch" /\ ~Held(req[r].e)
    /\ entry' = IF req[r].e \in Live THEN [entry EXCEPT ![req[r].e] = Patched(r)] ELSE entry
    /\ Ended(r)
    /\ UNCHANGED <<taskvars, backlog, flows, asks, focus>>

\* reorder_sprint_tasks: one SELECT for all ids, positions by the order of the list
AskReorder(r, order) ==
    LET at(e) == CHOOSE i \in DOMAIN order : order[i] = e
        named == {order[i] : i \in DOMAIN order}
    IN /\ named \subseteq Live
       /\ Ask(r, [NoReq EXCEPT !.kind = "reorder",
                    !.set = [e \in Entries |-> IF e \in named THEN at(e) - 1 ELSE None],
                    !.todo = {e \in named : entry[e].pos # at(e) - 1}])

\* Mutant: the rows are updated in the order of the list.
NextRowListed(r) == CHOOSE e \in req[r].todo : \A f \in req[r].todo : req[r].set[e] <= req[r].set[f]

\* the unit of work updates rows in the order of their primary keys
NextRow(r) == Min(req[r].todo)

LockRow(r) ==
    LET e == NextRow(r)
    IN /\ req[r].kind = "reorder" /\ req[r].todo # {} /\ ~Held(e)
       /\ IF e \in Live
          THEN req' = [req EXCEPT ![r].todo = @ \ {e}, ![r].held = @ \cup {e}]
          ELSE Ended(r)
       /\ UNCHANGED <<taskvars, backlog, entry, flows, asks, focus>>

Reorder(r) ==
    /\ req[r].kind = "reorder" /\ req[r].todo = {}
    /\ entry' = [e \in Entries |-> IF e \in req[r].held THEN [entry[e] EXCEPT !.pos = req[r].set[e]] ELSE entry[e]]
    /\ Ended(r)
    /\ UNCHANGED <<taskvars, backlog, flows, asks, focus>>

-----------------------------------------------------------------------------

Init ==
    /\ focus \in {"tasks", "board"}
    /\ row = Nothing /\ work = Nothing /\ obj = Nothing
    /\ dag = [t \in TaskIds |-> "pending"]
    /\ sched = Resting /\ saved = None
    /\ ruling = [t \in Gated |-> None]
    /\ call = [o \in Overriders |-> NoCall]
    /\ test = [x \in Testers |-> NoTest]
    /\ verdicts = {} /\ runs = 0 /\ tries = 0
    /\ entry = [e \in Entries |-> IF Board[e] = None THEN None
                                 ELSE [of |-> Board[e][1], pos |-> Board[e][2], st |-> "todo", wf |-> 0]]
    /\ backlog = {Board[e][1] : e \in {f \in Entries : Board[f] # None}}
    /\ req = [r \in Requests |-> NoReq]
    /\ flows = 0 /\ asks = 0

Orders == {<<e>> : e \in Entries} \cup {s \in [1..2 -> Entries] : s[1] # s[2]}

\* steps of the scheduler that its next statement takes by itself
Advance ==
    \/ \E t \in TaskIds, f \in BOOLEAN : Prepare(t, f)
    \/ \E t \in TaskIds : PolicyDenies(t)
    \/ ReachGate
    \/ \E t \in TaskIds : Pause(t) \/ Refused(t)
    \/ PassGate
    \/ \E t \in TaskIds : \E outcome \in {"failed", "accepted", "broken", "retry"} : Process(t, outcome)
    \/ NextBatch
    \/ Abort

\* a request that has begun goes on
Answer(r) ==
    \/ \E e \in Entries : Add(r, e)
    \/ Delete(r) \/ Remove(r) \/ Patch(r) \/ LoadLink(r) \/ FailRun(r) \/ LockRow(r) \/ Reorder(r)

Next ==
    \/ StartRun
    \/ Advance
    \/ \E t \in Gated : \E word \in {"approved", "denied"} : Rule(t, word)
    \/ \E o \in Overriders, t \in TaskIds, a \in Actions : Override(o, t, a)
    \/ \E o \in Overriders : LockTask(o) \/ \E out \in BOOLEAN : ApplyOverride(o, out)
    \/ \E x \in Testers, t \in TaskIds, k \in Kinds : ReadOutput(x, t, k)
    \/ \E x \in Testers : StoreVerdict(x)
    \/ \E b \in Backlog : CreateBacklogTask(b)
    \/ \E r \in Requests, b \in Backlog : AskAdd(r, b) \/ AskDelete(r, b)
    \/ \E r \in Requests, e \in Entries : AskRemove(r, e) \/ AskExecute(r, e)
    \/ \E r \in Requests, e \in Entries : \E st \in {None, "done"}, pos \in {None, 0} : AskPatch(r, e, st, pos)
    \/ \E r \in Requests : \E order \in Orders : AskReorder(r, order)
    \/ \E r \in Requests : Answer(r)

\* Statements return and sessions end; PostgreSQL serves waiters in turn.
Fairness ==
    /\ WF_vars(Advance)
    /\ \A o \in Overriders :
         /\ SF_vars(LockTask(o))
         /\ WF_vars(\E out \in BOOLEAN : ApplyOverride(o, out))
    /\ \A r \in Requests : WF_vars(Answer(r))

Spec == Init /\ [][Next]_vars /\ Fairness

-----------------------------------------------------------------------------
(* Properties.                                                             *)

\* The shape of the state.
TypeOK ==
    /\ \A t \in TaskIds : row[t] # None => row[t].st \in Statuses /\ row[t].out \in 0..(MaxRuns + MaxTries)
    /\ \A t \in TaskIds : work[t] # None => work[t].st \in Statuses
    /\ dag \in [TaskIds -> Statuses]
    /\ sched.pc \in {"idle", "batch", "gate", "process"} /\ sched.active \subseteq TaskIds
    /\ \A o \in Overriders : call[o].pc \in {"idle", "waiting", "locked", "done", "refused"}
    /\ \A e \in Live : entry[e].of \in backlog /\ entry[e].pos \in Nat
    /\ \A r \in Requests : req[r].held \subseteq Entries /\ req[r].todo \subseteq Entries

\* An override moves the task along an arrow of the table, from the status that
\* the row has when the override commits: the row lock keeps the status that was
\* validated, though the scheduler writes the same rows.
OverridesValid ==
    [][\A o \in Overriders :
         call[o].pc = "locked" /\ call'[o].pc = "done"
           => LET t == call[o].task IN row'[t].st = Target(row[t].st, call[o].act)]_vars

\* A completed task that nobody has forced shows the output of the very execution
\* that completed it, through retries, overrides in between, pauses and rolled back
\* runs, although an UPDATE leaves out a column that seems unchanged.
OutputBelongs ==
    \A t \in TaskIds :
      row[t] # None /\ row[t].st = "completed" /\ ~row[t].forced => row[t].out = row[t].by

\* Every override is answered, however long the scheduler's transaction holds the
\* row, and so is every board request: row locks are taken in one order.
RequestsEnd ==
    /\ \A o \in Overriders : call[o].pc = "waiting" ~> call[o].pc \in {"done", "refused"}
    /\ \A r \in Requests : req[r].kind # "idle" ~> req[r].kind = "idle"

-----------------------------------------------------------------------------
(* Expectations that the repository states and the code does not meet.     *)

\* The scheduler does not undo an override (override_task: "Uses SELECT FOR UPDATE
\* to prevent race conditions with the scheduler"): an override that commits after
\* the gate's commit is overwritten from the scheduler's older object.
OverrideSticks == [][\A t \in TaskIds : row[t] # None /\ row[t].forced /\ row[t].st # "pending" => row'[t].forced]_vars

\* No arrow of the table leaves SKIPPED (state_machine.py: "used by the scheduler,
\* override system, and DAG engine to enforce correct lifecycle behavior"): the
\* scheduler sets statuses without asking the table, this one too.
SkippedStaysSkipped == [][\A t \in TaskIds : row[t] # None /\ row[t].st = "skipped" => row'[t].st = "skipped"]_vars

\* Entries of a sprint have positions of their own (reorder_sprint_tasks: "setting
\* positions according to the list order"): a partial list, or two adds, repeat one.
PositionsDistinct == \A e, f \in Live : e # f => entry[e].pos # entry[f].pos

\* An execution shows on its entry (execute_sprint_task: "Creates a workflow for the
\* given prompt and links it to the sprint task"): a second one takes its place.
StartedIsLinked == [][\A e \in Entries : entry[e] # None /\ entry[e].wf # 0 /\ entry'[e] # None => entry'[e].wf = entry[e].wf]_vars
=============================================================================
