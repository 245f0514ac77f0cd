------------------------------- MODULE Wallet -------------------------------
(***************************************************************************)
(* The event-sourced wallet of one workflow                                *)
(* (backend/app/services/wallet_service.py, backend/app/api/wallet.py).    *)
(*                                                                         *)
(* Several database sessions - the scheduler's long transaction, and the   *)
(* one-request transactions of the wallet API - append RESERVE, RELEASE,   *)
(* DEBIT and CREDIT events to the ledger and update the workflow row,      *)
(* under READ COMMITTED: a statement sees the committed rows and the       *)
(* session's own.  The service reads the ledger only through the SUM of    *)
(* each event type, through the id of a RESERVE event and through an       *)
(* idempotency key, so the ledger is those four sums, the set of RESERVE   *)
(* events and the set of keys used by charges.  A RESERVE event written    *)
(* with an idempotency key is identified by the key.                       *)
(***************************************************************************)
EXTENDS Integers, FiniteSets

CONSTANTS
    Session,    \* concurrent database sessions on this workflow
    Spenders,   \* the sessions that charge or record internal costs
    Key,        \* idempotency keys: one per DAG node of the workflow
    Anon,       \* ids of RESERVE events written without a key
    Limit,      \* Workflow.budget_limit
    Amounts,    \* the positive amounts clients ask for
    Costs,      \* the actual costs of LLM calls; 0 on a cache hit
    MaxOps,     \* bound: operations per session
    Free,       \* the workflow row is not locked
    None        \* no value: an empty cache, a row not written

ASSUME SpendersAssumption == Spenders \subseteq Session
ASSUME LimitAssumption == Limit \in Nat
ASSUME AmountsAssumption == Amounts \subseteq Nat \ {0}
ASSUME CostsAssumption == Costs \subseteq Nat
ASSUME MaxOpsAssumption == MaxOps \in Nat
ASSUME FreeAssumption == Free \notin Session
ASSUME NoneAssumption == None \notin Nat \cup Key \cup Anon
ASSUME KeyAssumption == Key \cap Anon = {}

ResId == Key \cup Anon

VARIABLES
    ledger,     \* committed sums: see Tally
    reserved,   \* ids of the committed RESERVE events
    charged,    \* keys of the committed charges
    resAmt,     \* the amount of each RESERVE event
    settled,    \* history: committed reservations released or charged
    row,        \* committed Workflow.budget_used
    cache,      \* the Redis balance, or None
    pend,       \* per session: the sums of its uncommitted events
    txn,        \* per session: its other uncommitted writes
    lock,       \* the session that holds the workflow row's lock, or Free
    pc,         \* per session: where it is in an operation
    arg,        \* per session: the operation's arguments
    tmp,        \* per session: the budget_used it read
    ops,        \* per session: operations started (bounded by MaxOps)
    acked,      \* history: per session, the cost its open transaction acknowledged
    reader      \* what a get_balance call computed and has yet to cache, or None

vars == <<ledger, reserved, charged, resAmt, settled, row, cache, pend, txn,
          lock, pc, arg, tmp, ops, acked, reader>>

-----------------------------------------------------------------------------
(* The sums of a set of events.  `over' is history: the cost that was      *)
(* debited beyond what a reservation held for it.                          *)
Tally == [rsv : Nat, rel : Nat, deb : Nat, crd : Nat, over : Nat]

Zero == [rsv |-> 0, rel |-> 0, deb |-> 0, crd |-> 0, over |-> 0]

Plus(a, b) == [rsv  |-> a.rsv + b.rsv, rel |-> a.rel + b.rel,
               deb  |-> a.deb + b.deb, crd |-> a.crd + b.crd,
               over |-> a.over + b.over]

AtLeastZero(n) == IF n < 0 THEN 0 ELSE n

(* Mutant of Used: credits may exceed debits. *)
UsedUnclamped(t) == t.deb - t.crd

(* _compute_balance_from_events *)
Used(t) == AtLeastZero(t.deb - t.crd)

(* _compute_reserved *)
Reserved(t) == AtLeastZero(t.rsv - t.rel)

Available(used, t) == Limit - used - Reserved(t)

(* What is held or spent, without the two clamps at zero. *)
Exposure(t) == t.rsv - t.rel + t.deb - t.crd

EmptyTxn == [res |-> {}, chg |-> {}, set |-> {}, row |-> None]

View(s) == Plus(ledger, pend[s])
VisibleRes(s) == reserved \cup txn[s].res
VisibleChg(s) == charged \cup txn[s].chg

InReserve == {"res_lock", "res_used", "res_held"}
InCharge == {"chg_read", "chg_ins", "chg_upd"}
PC == {"idle", "open", "int_upd", "failed"} \cup InReserve \cup InCharge

NoArg == [rid |-> None, amt |-> 0, key |-> None]

Args == [rid : ResId \cup {None}, amt : Nat, key : Key \cup {None}]

Txns == [res : SUBSET ResId, chg : SUBSET Key, set : SUBSET ResId, row : Nat \cup {None}]

TypeOK ==
    /\ ledger \in Tally
    /\ reserved \subseteq ResId
    /\ charged \subseteq Key
    /\ settled \subseteq ResId
    /\ resAmt \in [ResId -> Nat]
    /\ row \in Nat
    /\ cache \in Nat \cup {None}
    /\ reader \in Nat \cup {None}
    /\ pend \in [Session -> Tally]
    /\ txn \in [Session -> Txns]
    /\ lock \in Session \cup {Free}
    /\ pc \in [Session -> PC]
    /\ arg \in [Session -> Args]
    /\ tmp \in [Session -> Nat]
    /\ ops \in [Session -> Nat]
    /\ acked \in [Session -> Nat]
    /\ \A s \in Session : pc[s] \in InReserve \cup InCharge => arg[s].rid \in ResId

Init ==
    /\ ledger = Zero
    /\ reserved = {}
    /\ charged = {}
    /\ settled = {}
    /\ resAmt = [r \in ResId |-> 0]
    /\ row = 0
    /\ cache = None
    /\ reader = None
    /\ pend = [s \in Session |-> Zero]
    /\ txn = [s \in Session |-> EmptyTxn]
    /\ lock = Free
    /\ pc = [s \in Session |-> "idle"]
    /\ arg = [s \in Session |-> NoArg]
    /\ tmp = [s \in Session |-> 0]
    /\ ops = [s \in Session |-> 0]
    /\ acked = [s \in Session |-> 0]

-----------------------------------------------------------------------------
committed == <<ledger, reserved, charged, settled, row>>

Goto(s, label) == pc' = [pc EXCEPT ![s] = label]

(* A session starts an operation: outside a transaction, or as the next    *)
(* one of the transaction it has open.                                     *)
Start(s) ==
    /\ pc[s] \in {"idle", "open"}
    /\ ops[s] < MaxOps
    /\ ops' = [ops EXCEPT ![s] = @ + 1]

(* Events the session flushes but has not committed. *)
Flush(s, events) == pend' = [pend EXCEPT ![s] = Plus(@, events)]

Debit(cost, uncovered) == [Zero EXCEPT !.deb = cost, !.over = uncovered]

(* The row lock, taken by SELECT FOR UPDATE and by UPDATE, is held until   *)
(* the transaction ends.                                                   *)
TakeLock(s) ==
    /\ lock \in {Free, s}
    /\ lock' = s

Unlocked(s) == IF lock = s THEN Free ELSE lock

(* Ids no RESERVE event has, nor will have once an open insert is flushed. *)
FreshAnon ==
    {r \in Anon : /\ r \notin reserved
                  /\ \A s \in Session : /\ r \notin txn[s].res
                                        /\ pc[s] \in InReserve => arg[s].rid # r}

-----------------------------------------------------------------------------
(* reserve_budget: the idempotency lookup, before any lock. *)
ReserveBegin(s, r, amt) ==
    /\ Start(s)
    /\ r \in Key \cup FreshAnon
    /\ IF r \in VisibleRes(s)
       THEN /\ Goto(s, "open")
            /\ UNCHANGED arg
       ELSE /\ Goto(s, "res_lock")
            /\ arg' = [arg EXCEPT ![s] = [rid |-> r, amt |-> amt, key |-> None]]
    /\ UNCHANGED <<committed, resAmt, cache, pend, txn, lock, tmp, acked, reader>>

(* Mutant of ReserveLock: SELECT without FOR UPDATE. *)
ReserveNoLock(s) ==
    /\ pc[s] = "res_lock"
    /\ Goto(s, "res_used")
    /\ UNCHANGED <<committed, resAmt, cache, pend, txn, lock, arg, tmp, ops, acked, reader>>

(* SELECT ... FOR UPDATE on the workflow row. *)
ReserveLock(s) ==
    /\ pc[s] = "res_lock"
    /\ TakeLock(s)
    /\ Goto(s, "res_used")
    /\ UNCHANGED <<committed, resAmt, cache, pend, txn, arg, tmp, ops, acked, reader>>

(* The first of the two reads of the ledger: budget_used. *)
ReserveUsed(s) ==
    /\ pc[s] = "res_used"
    /\ tmp' = [tmp EXCEPT ![s] = Used(View(s))]
    /\ Goto(s, "res_held")
    /\ UNCHANGED <<committed, resAmt, cache, pend, txn, lock, arg, ops, acked, reader>>

(* The second read, and BudgetExhaustedError: the transaction stays open,  *)
(* and with it the row lock.                                               *)
ReserveExhausted(s) ==
    /\ pc[s] = "res_held"
    /\ arg[s].amt > Available(tmp[s], View(s))
    /\ Goto(s, "open")
    /\ UNCHANGED <<committed, resAmt, cache, pend, txn, lock, arg, tmp, ops, acked, reader>>

(* The second read, the check and the INSERT. *)
ReserveInsert(s) ==
    /\ pc[s] = "res_held"
    /\ arg[s].amt <= Available(tmp[s], View(s))
    /\ \A t \in Session : arg[s].rid \notin txn[t].res
    /\ arg[s].rid \notin reserved
    /\ Flush(s, [Zero EXCEPT !.rsv = arg[s].amt])
    /\ txn' = [txn EXCEPT ![s].res = @ \cup {arg[s].rid}]
    /\ resAmt' = [resAmt EXCEPT ![arg[s].rid] = arg[s].amt]
    /\ cache' = None
    /\ Goto(s, "open")
    /\ UNCHANGED <<committed, lock, arg, tmp, ops, acked, reader>>

(* The INSERT meets a committed event with its key: IntegrityError, and    *)
(* session.rollback() throws away everything the session had not committed *)
(* before the existing event is returned.                                  *)
ReserveDuplicate(s) ==
    /\ pc[s] = "res_held"
    /\ arg[s].amt <= Available(tmp[s], View(s))
    /\ arg[s].rid \in reserved
    /\ pend' = [pend EXCEPT ![s] = Zero]
    /\ txn' = [txn EXCEPT ![s] = EmptyTxn]
    /\ lock' = Unlocked(s)
    /\ Goto(s, "open")
    /\ UNCHANGED <<committed, resAmt, cache, arg, tmp, ops, acked, reader>>

-----------------------------------------------------------------------------
(* charge: the idempotency lookup, the reservation lookup - which does not *)
(* ask whether the reservation was settled before - and the RELEASE event. *)
(* The scheduler passes a key, one per reservation; the API none.          *)
ChargeBegin(s, r, cost, key) ==
    /\ s \in Spenders
    /\ Start(s)
    /\ r \in VisibleRes(s)
    /\ key \in {None, r}
    /\ IF key \in VisibleChg(s)
       THEN /\ Goto(s, "open")
            /\ UNCHANGED <<pend, arg>>
       ELSE /\ Flush(s, [Zero EXCEPT !.rel = resAmt[r]])
            /\ arg' = [arg EXCEPT ![s] = [rid |-> r, amt |-> cost, key |-> key]]
            /\ Goto(s, "chg_read")
    /\ UNCHANGED <<committed, resAmt, cache, txn, lock, tmp, acked, reader>>

ChargeRead(s) ==
    /\ pc[s] = "chg_read"
    /\ tmp' = [tmp EXCEPT ![s] = Used(View(s))]
    /\ Goto(s, "chg_ins")
    /\ UNCHANGED <<committed, resAmt, cache, pend, txn, lock, arg, ops, acked, reader>>

(* The DEBIT event is flushed ahead of the UPDATE.  An uncommitted event   *)
(* of another session with the same key makes the INSERT wait.             *)
ChargeInsert(s) ==
    /\ pc[s] = "chg_ins"
    /\ arg[s].key \notin charged
    /\ \A t \in Session : arg[s].key \notin txn[t].chg
    /\ Flush(s, Debit(arg[s].amt, AtLeastZero(arg[s].amt - resAmt[arg[s].rid])))
    /\ txn' = [txn EXCEPT ![s].chg = @ \cup ({arg[s].key} \ {None})]
    /\ Goto(s, "chg_upd")
    /\ UNCHANGED <<committed, resAmt, cache, lock, arg, tmp, ops, acked, reader>>

(* IntegrityError is not handled in charge: the transaction is dead. *)
ChargeDuplicate(s) ==
    /\ pc[s] = "chg_ins"
    /\ arg[s].key \in charged
    /\ Goto(s, "failed")
    /\ UNCHANGED <<committed, resAmt, cache, pend, txn, lock, arg, tmp, ops, acked, reader>>

(* UPDATE workflows SET budget_used, computed from the earlier read. *)
ChargeUpdate(s) ==
    /\ pc[s] = "chg_upd"
    /\ TakeLock(s)
    /\ txn' = [txn EXCEPT ![s] = [txn[s] EXCEPT !.row = tmp[s] + arg[s].amt,
                                                   !.set = @ \cup {arg[s].rid}]]
    /\ acked' = [acked EXCEPT ![s] = @ + arg[s].amt]
    /\ cache' = None
    /\ Goto(s, "open")
    /\ UNCHANGED <<committed, resAmt, pend, arg, tmp, ops, reader>>

(* release_reservation; no caller passes it a key. *)
Release(s, r) ==
    /\ Start(s)
    /\ r \in VisibleRes(s)
    /\ Flush(s, [Zero EXCEPT !.rel = resAmt[r]])
    /\ txn' = [txn EXCEPT ![s].set = @ \cup {r}]
    /\ cache' = None
    /\ Goto(s, "open")
    /\ UNCHANGED <<committed, resAmt, lock, arg, tmp, acked, reader>>

(* record_internal_cost: the check, which looks at no reservation. *)
InternalCheck(s, amt) ==
    /\ s \in Spenders
    /\ Start(s)
    /\ IF Used(View(s)) + amt > Limit
       THEN /\ Goto(s, "open")
            /\ UNCHANGED <<arg, tmp>>
       ELSE /\ Goto(s, "int_upd")
            /\ arg' = [arg EXCEPT ![s] = [rid |-> None, amt |-> amt, key |-> None]]
            /\ tmp' = [tmp EXCEPT ![s] = Used(View(s))]
    /\ UNCHANGED <<committed, resAmt, cache, pend, txn, lock, acked, reader>>

(* Mutant of InternalUpdate: the row is not locked. *)
InternalNoLock(s) ==
    /\ pc[s] = "int_upd"
    /\ Flush(s, Debit(arg[s].amt, arg[s].amt))
    /\ txn' = [txn EXCEPT ![s].row = tmp[s] + arg[s].amt]
    /\ acked' = [acked EXCEPT ![s] = @ + arg[s].amt]
    /\ cache' = None
    /\ Goto(s, "open")
    /\ UNCHANGED <<committed, resAmt, lock, arg, tmp, ops, reader>>

(* record_internal_cost: the DEBIT event and the UPDATE. *)
InternalUpdate(s) ==
    /\ pc[s] = "int_upd"
    /\ TakeLock(s)
    /\ Flush(s, Debit(arg[s].amt, arg[s].amt))
    /\ txn' = [txn EXCEPT ![s].row = tmp[s] + arg[s].amt]
    /\ acked' = [acked EXCEPT ![s] = @ + arg[s].amt]
    /\ cache' = None
    /\ Goto(s, "open")
    /\ UNCHANGED <<committed, resAmt, arg, tmp, ops, reader>>

(* credit: an event, and no update of the workflow row. *)
Credit(s, amt) ==
    /\ Start(s)
    /\ Flush(s, [Zero EXCEPT !.crd = amt])
    /\ cache' = None
    /\ Goto(s, "open")
    /\ UNCHANGED <<committed, resAmt, txn, lock, arg, tmp, acked, reader>>

-----------------------------------------------------------------------------
(* Mutant of EndTxn: the lock outlives the transaction. *)
EndTxnLocked(s) ==
    /\ pend' = [pend EXCEPT ![s] = Zero]
    /\ txn' = [txn EXCEPT ![s] = EmptyTxn]
    /\ acked' = [acked EXCEPT ![s] = 0]
    /\ arg' = [arg EXCEPT ![s] = NoArg]
    /\ tmp' = [tmp EXCEPT ![s] = 0]
    /\ Goto(s, "idle")
    /\ UNCHANGED lock

(* The end of a transaction: its writes and its row lock are gone. *)
EndTxn(s) ==
    /\ pend' = [pend EXCEPT ![s] = Zero]
    /\ txn' = [txn EXCEPT ![s] = EmptyTxn]
    /\ acked' = [acked EXCEPT ![s] = 0]
    /\ arg' = [arg EXCEPT ![s] = NoArg]
    /\ tmp' = [tmp EXCEPT ![s] = 0]
    /\ lock' = Unlocked(s)
    /\ Goto(s, "idle")

(* get_db_session: commit when the request or the workflow step is done. *)
Commit(s) ==
    /\ pc[s] = "open"
    /\ ledger' = Plus(ledger, pend[s])
    /\ reserved' = reserved \cup txn[s].res
    /\ charged' = charged \cup txn[s].chg
    /\ settled' = settled \cup txn[s].set
    /\ row' = IF txn[s].row = None THEN row ELSE txn[s].row
    /\ EndTxn(s)
    /\ UNCHANGED <<resAmt, cache, ops, reader>>

(* get_db_session: rollback on any exception - an error response, the      *)
(* 600 s timeout's cancellation - at any await of the operation.           *)
Rollback(s) ==
    /\ pc[s] # "idle"
    /\ EndTxn(s)
    /\ UNCHANGED <<committed, resAmt, cache, ops, reader>>

(* PostgreSQL's deadlock detector picks s: it waits for t's uncommitted    *)
(* key while t waits for the row lock s holds.                             *)
DeadlockAbort(s) ==
    /\ pc[s] = "chg_ins"
    /\ lock = s
    /\ \E t \in Session \ {s} : /\ arg[s].key \in txn[t].chg
                                /\ pc[t] \in {"res_lock", "chg_upd", "int_upd"}
    /\ EndTxn(s)
    /\ UNCHANGED <<committed, resAmt, cache, ops, reader>>

(* get_balance on a cache miss: the computation, then the SET, with no     *)
(* lock between them.                                                      *)
BalanceCompute ==
    /\ reader = None
    /\ cache = None
    /\ reader' = Used(ledger)
    /\ UNCHANGED <<committed, resAmt, cache, pend, txn, lock, pc, arg, tmp, ops, acked>>

BalanceCache ==
    /\ reader # None
    /\ cache' = reader
    /\ reader' = None
    /\ UNCHANGED <<committed, resAmt, pend, txn, lock, pc, arg, tmp, ops, acked>>

(* BALANCE_CACHE_TTL *)
CacheExpire ==
    /\ cache # None
    /\ cache' = None
    /\ UNCHANGED <<committed, resAmt, pend, txn, lock, pc, arg, tmp, ops, acked, reader>>

(* The budget_used that a get_balance call would answer now: the cached    *)
(* ledger value or a fresh one, against the workflow row.                  *)
ReportedUsed ==
    LET l == IF cache = None THEN Used(ledger) ELSE cache
    IN  IF l > row THEN l ELSE row

-----------------------------------------------------------------------------
Step(s) ==
    \/ ReserveLock(s)
    \/ ReserveUsed(s)
    \/ ReserveExhausted(s)
    \/ ReserveInsert(s)
    \/ ReserveDuplicate(s)
    \/ ChargeRead(s)
    \/ ChargeInsert(s)
    \/ ChargeDuplicate(s)
    \/ ChargeUpdate(s)
    \/ InternalUpdate(s)
    \/ DeadlockAbort(s)

Call(s) ==
    \/ \E r \in ResId, amt \in Amounts : ReserveBegin(s, r, amt)
    \/ \E r \in ResId, cost \in Costs, key \in Key \cup {None} : ChargeBegin(s, r, cost, key)
    \/ \E r \in ResId : Release(s, r)
    \/ \E amt \in Amounts : InternalCheck(s, amt)
    \/ \E amt \in Amounts : Credit(s, amt)

Next ==
    \/ \E s \in Session : Step(s) \/ Call(s) \/ Commit(s) \/ Rollback(s)
    \/ BalanceCompute
    \/ BalanceCache
    \/ CacheExpire

(* A statement that can run runs, a failed transaction is rolled back and  *)
(* a request that has done its work commits: FastAPI's dependency and      *)
(* db_session_context end every session they open.                         *)
Fairness ==
    \A s \in Session : /\ WF_vars(Step(s))
                       /\ WF_vars(Commit(s))
                       /\ WF_vars(pc[s] = "failed" /\ Rollback(s))

Spec == Init /\ [][Next]_vars /\ Fairness

-----------------------------------------------------------------------------
(* Reservations never promise more than the budget: what is committed as   *)
(* held or spent exceeds the limit by no more than the cost that callers   *)
(* debited beyond a reservation (charge above the estimate, internal       *)
(* costs).  reserve_budget reads the ledger twice, and two sessions        *)
(* reserve at once; the row lock, which charge's UPDATE takes too, is what *)
(* makes the two reads safe.                                               *)
ExposureBounded == Exposure(ledger) <= Limit + ledger.over

(* A cost that charge or record_internal_cost acknowledged is still in the *)
(* transaction when it commits: the session.rollback() in reserve_budget's *)
(* IntegrityError handler never throws an acknowledged debit away.         *)
AckedDebitsKept == \A s \in Session : pc[s] = "open" => pend[s].deb = acked[s]

(* Every operation ends, whoever else holds the row lock or an uncommitted *)
(* key it waits for.                                                       *)
OperationsEnd == \A s \in Session : pc[s] # "idle" ~> pc[s] = "idle"

-----------------------------------------------------------------------------
(* Expectations that the repository states and the code does not meet.     *)

(* get_balance: "neither path can understate the budget" - the value it    *)
(* answers is never below what the ledger says was spent.                  *)
NeverUnderstated == ReportedUsed >= Used(ledger)

(* _compute_reserved counts "reserves that haven't been released/charged": *)
(* no unsettled reservation is missing from the sum.                       *)
UnsettledCovered ==
    \A r \in reserved \ settled : resAmt[r] <= Reserved(ledger)

(* record_internal_cost raises BudgetExhaustedError "if the cost would     *)
(* push usage past the cap": a debit it writes fits when it is written.    *)
InternalWithinCap ==
    [][\A s \in Session : InternalUpdate(s) => Used(View(s)) + arg[s].amt <= Limit]_vars
=============================================================================
