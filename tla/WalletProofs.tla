---------------------------- MODULE WalletProofs ----------------------------
(***************************************************************************)
(* Proofs about Wallet, for any number of sessions, keys and amounts.      *)
(* The inductive invariant says what the workflow row's lock protects.     *)
(***************************************************************************)
EXTENDS Wallet, TLAPS

(* Only the lock holder has uncommitted reservations; a debit is           *)
(* uncommitted without the lock only while its UPDATE waits for it.        *)
LockDiscipline(s) ==
    /\ lock # s => /\ pend[s].rsv = 0
                   /\ txn[s].res = {}
                   /\ pc[s] # "chg_upd" => pend[s].deb = 0 /\ pend[s].over = 0
    /\ pc[s] \in {"res_used", "res_held"} => lock = s
    /\ pc[s] = "idle" => pend[s] = Zero /\ txn[s] = EmptyTxn

(* A charge between its RELEASE and its DEBIT event still has the released *)
(* amount to spend.                                                        *)
Slack(s) == IF pc[s] \in {"chg_read", "chg_ins"} THEN resAmt[arg[s].rid] ELSE 0

ChargeVisible(s) == pc[s] \in InCharge => arg[s].rid \in VisibleRes(s)

(* The lock holder sees a ledger within the limit; what the others have    *)
(* not committed does not raise the exposure.                              *)
Bounded(s) ==
    IF lock = s
    THEN Exposure(ledger) + Exposure(pend[s]) + Slack(s) <= Limit + ledger.over + pend[s].over
    ELSE Exposure(pend[s]) + Slack(s) <= pend[s].over

(* What reserve_budget read first is still an upper bound of what is used  *)
(* when it reads the reservations.                                         *)
ReadStillSafe(s) ==
    pc[s] = "res_held" => tmp[s] >= ledger.deb + pend[s].deb - ledger.crd - pend[s].crd

SessionInv(s) ==
    /\ LockDiscipline(s)
    /\ ChargeVisible(s)
    /\ Bounded(s)
    /\ ReadStillSafe(s)

ExposureInv ==
    /\ TypeOK
    /\ ExposureBounded
    /\ \A s \in Session : SessionInv(s)

-----------------------------------------------------------------------------
(* Init satisfies the type invariant. *)
LEMMA TypeInit == Init => TypeOK
  BY DEF Init, TypeOK, Tally, Zero, EmptyTxn, PC, InReserve, InCharge, NoArg, ResId, Txns, Args

(* Sums of events are sums of events. *)
LEMMA PlusType ==
  ASSUME NEW a \in Tally, NEW b \in Tally
  PROVE  Plus(a, b) \in Tally
  BY DEF Tally, Plus

(* The sums an operation flushes are tallies. *)
LEMMA EventsType ==
  ASSUME NEW n \in Nat, NEW m \in Nat
  PROVE  /\ Zero \in Tally
         /\ [Zero EXCEPT !.rsv = n] \in Tally
         /\ [Zero EXCEPT !.rel = n] \in Tally
         /\ [Zero EXCEPT !.crd = n] \in Tally
         /\ Debit(n, m) \in Tally
  BY DEF Tally, Zero, Debit

(* Flushing a tally keeps the pending sums tallies. *)
LEMMA FlushType ==
  ASSUME TypeOK, NEW s \in Session, NEW e \in Tally, Flush(s, e)
  PROVE  pend' \in [Session -> Tally]
<1>1. pend \in [Session -> Tally]
  BY DEF TypeOK
<1>2. Plus(pend[s], e) \in Tally
  BY <1>1, PlusType
<1> QED
  BY <1>1, <1>2 DEF Flush

(* Reads of the ledger are natural numbers. *)
LEMMA UsedType ==
  ASSUME NEW t \in Tally
  PROVE  Used(t) \in Nat
  BY DEF Tally, Used, AtLeastZero

(* What a session sees is a tally. *)
LEMMA ViewType ==
  ASSUME TypeOK, NEW s \in Session
  PROVE  View(s) \in Tally /\ Used(View(s)) \in Nat
  BY PlusType, UsedType DEF TypeOK, View

(* Starting an operation keeps the type of the operation counters. *)
LEMMA StartType ==
  ASSUME TypeOK, NEW s \in Session, Start(s)
  PROVE  ops' \in [Session -> Nat]
  BY DEF TypeOK, Start

(* The types of one session's part of the state. *)
LEMMA SessionType ==
  ASSUME TypeOK, NEW s \in Session
  PROVE  /\ arg[s].rid \in ResId \cup {None}
         /\ arg[s].amt \in Nat
         /\ arg[s].key \in Key \cup {None}
         /\ txn[s].res \subseteq ResId
         /\ txn[s].chg \subseteq Key
         /\ txn[s].set \subseteq ResId
         /\ txn[s].row \in Nat \cup {None}
         /\ tmp[s] \in Nat
  BY DEF TypeOK, Args, Txns

(* The end of a transaction keeps the type invariant's conjuncts. *)
LEMMA EndTxnType ==
  ASSUME TypeOK, NEW s \in Session, EndTxn(s), UNCHANGED <<resAmt, cache, ops, reader>>,
         ledger' \in Tally, reserved' \subseteq ResId, charged' \subseteq Key,
         settled' \subseteq ResId, row' \in Nat
  PROVE  TypeOK'
<1>1. pend' \in [Session -> Tally]
  BY EventsType DEF TypeOK, EndTxn
<1>2. txn' \in [Session -> Txns]
  BY DEF TypeOK, EndTxn, EmptyTxn, Txns
<1>3. arg' \in [Session -> Args]
  BY DEF TypeOK, EndTxn, NoArg, Args
<1> QED
  BY <1>1, <1>2, <1>3 DEF TypeOK, EndTxn, Goto, Unlocked, PC, InReserve, InCharge, NoArg

(* Every step of an operation keeps the type invariant. *)
LEMMA TypeStep ==
  ASSUME TypeOK, NEW s \in Session, Step(s)
  PROVE  TypeOK'
<1> USE DEF PC, InReserve, InCharge, committed, Goto
<1>1. CASE ReserveLock(s)
  BY <1>1 DEF ReserveLock, TakeLock, TypeOK
<1>2. CASE ReserveUsed(s)
  BY <1>2, ViewType DEF ReserveUsed, TypeOK
<1>3. CASE ReserveExhausted(s)
  BY <1>3 DEF ReserveExhausted, TypeOK
<1>4. CASE ReserveInsert(s)
  <2>1. pend' \in [Session -> Tally]
    BY <1>4, SessionType, FlushType, EventsType DEF ReserveInsert
  <2>2. resAmt' \in [ResId -> Nat]
    BY <1>4, SessionType DEF ReserveInsert, TypeOK
  <2>3. txn' \in [Session -> Txns]
    <3>1. [txn[s] EXCEPT !.res = @ \cup {arg[s].rid}] \in Txns
      <4>1. arg[s].rid \in ResId /\ txn[s] \in Txns
        BY <1>4 DEF ReserveInsert, TypeOK
      <4> QED
        BY <4>1 DEF Txns
    <3> QED
      BY <1>4, <3>1 DEF ReserveInsert, TypeOK
  <2> QED
    BY <1>4, <2>1, <2>2, <2>3 DEF ReserveInsert, TypeOK
<1>5. CASE ReserveDuplicate(s)
  <2>1. pend' \in [Session -> Tally]
    BY <1>5, EventsType DEF ReserveDuplicate, TypeOK
  <2> QED
    BY <1>5, <2>1 DEF ReserveDuplicate, TypeOK, Unlocked, EmptyTxn, Txns
<1>6. CASE ChargeRead(s)
  BY <1>6, ViewType DEF ChargeRead, TypeOK
<1>7. CASE ChargeInsert(s)
  <2>1. AtLeastZero(arg[s].amt - resAmt[arg[s].rid]) \in Nat
    BY <1>7, SessionType DEF ChargeInsert, TypeOK, AtLeastZero
  <2>2. pend' \in [Session -> Tally]
    BY <1>7, <2>1, SessionType, FlushType, EventsType DEF ChargeInsert
  <2>3. txn' \in [Session -> Txns]
    <3>1. [txn[s] EXCEPT !.chg = @ \cup ({arg[s].key} \ {None})] \in Txns
      <4>1. arg[s].key \in Key \cup {None} /\ txn[s] \in Txns
        BY DEF TypeOK, Args
      <4> QED
        BY <4>1 DEF Txns
    <3> QED
      BY <1>7, <3>1 DEF ChargeInsert, TypeOK
  <2> QED
    BY <1>7, <2>2, <2>3 DEF ChargeInsert, TypeOK
<1>8. CASE ChargeDuplicate(s)
  BY <1>8 DEF ChargeDuplicate, TypeOK
<1>9. CASE ChargeUpdate(s)
  <2>1. txn' \in [Session -> Txns]
    <3>1. [txn[s] EXCEPT !.row = tmp[s] + arg[s].amt,
                         !.set = @ \cup {arg[s].rid}] \in Txns
      <4>1. tmp[s] + arg[s].amt \in Nat
        BY SessionType
      <4>2. arg[s].rid \in ResId
        BY <1>9 DEF ChargeUpdate, TypeOK
      <4>3. txn[s] \in Txns
        BY DEF TypeOK
      <4> QED
        BY <4>1, <4>2, <4>3 DEF Txns
    <3> QED
      BY <1>9, <3>1 DEF ChargeUpdate, TypeOK
  <2>2. acked' \in [Session -> Nat]
    BY <1>9, SessionType DEF ChargeUpdate, TypeOK
  <2> QED
    BY <1>9, <2>1, <2>2 DEF ChargeUpdate, TypeOK, TakeLock
<1>10. CASE InternalUpdate(s)
  <2>1. pend' \in [Session -> Tally]
    BY <1>10, SessionType, FlushType, EventsType DEF InternalUpdate
  <2>2. txn' \in [Session -> Txns]
    <3>1. [txn[s] EXCEPT !.row = tmp[s] + arg[s].amt] \in Txns
      <4>1. tmp[s] + arg[s].amt \in Nat
        BY SessionType
      <4>2. txn[s] \in Txns
        BY DEF TypeOK
      <4> QED
        BY <4>1, <4>2 DEF Txns
    <3> QED
      BY <1>10, <3>1 DEF InternalUpdate, TypeOK
  <2>3. acked' \in [Session -> Nat]
    BY <1>10, SessionType DEF InternalUpdate, TypeOK
  <2> QED
    BY <1>10, <2>1, <2>2, <2>3 DEF InternalUpdate, TypeOK, TakeLock
<1>11. CASE DeadlockAbort(s)
  BY <1>11, EndTxnType DEF DeadlockAbort, TypeOK
<1> QED
  BY <1>1, <1>2, <1>3, <1>4, <1>5, <1>6, <1>7, <1>8, <1>9, <1>10, <1>11 DEF Step

(* Every call of an operation keeps the type invariant. *)
LEMMA TypeCall ==
  ASSUME TypeOK, NEW s \in Session, Call(s)
  PROVE  TypeOK'
<1> USE DEF PC, InReserve, InCharge, committed, Goto
<1>1. ASSUME NEW r \in ResId, NEW amt \in Amounts, ReserveBegin(s, r, amt)
      PROVE  TypeOK'
  <2>1. arg' \in [Session -> Args]
    <3>1. [rid |-> r, amt |-> amt, key |-> None] \in Args
      BY AmountsAssumption DEF Args
    <3> QED
      BY <1>1, <3>1 DEF ReserveBegin, TypeOK
  <2> QED
    <3>1. ops' \in [Session -> Nat]
      BY <1>1, StartType DEF ReserveBegin
    <3>2. pc' \in [Session -> PC]
      BY <1>1 DEF ReserveBegin, TypeOK
    <3>3. \A t \in Session : pc'[t] \in InReserve \cup InCharge => arg'[t].rid \in ResId
      BY <1>1 DEF ReserveBegin, TypeOK, Args
    <3> QED
      BY <1>1, <2>1, <3>1, <3>2, <3>3 DEF ReserveBegin, TypeOK
<1>2. ASSUME NEW r \in ResId, NEW cost \in Costs, NEW key \in Key \cup {None},
             ChargeBegin(s, r, cost, key)
      PROVE  TypeOK'
  <2>1. pend' \in [Session -> Tally]
    <3>1. resAmt[r] \in Nat
      BY DEF TypeOK
    <3> QED
      BY <1>2, <3>1, FlushType, EventsType DEF ChargeBegin, TypeOK
  <2>2. arg' \in [Session -> Args]
    <3>1. [rid |-> r, amt |-> cost, key |-> key] \in Args
      BY CostsAssumption DEF Args
    <3> QED
      BY <1>2, <3>1 DEF ChargeBegin, TypeOK
  <2> QED
    <3>1. ops' \in [Session -> Nat]
      BY <1>2, StartType DEF ChargeBegin
    <3>2. pc' \in [Session -> PC]
      BY <1>2 DEF ChargeBegin, TypeOK
    <3>3. \A t \in Session : pc'[t] \in InReserve \cup InCharge => arg'[t].rid \in ResId
      BY <1>2 DEF ChargeBegin, TypeOK, Args
    <3> QED
      BY <1>2, <2>1, <2>2, <3>1, <3>2, <3>3 DEF ChargeBegin, TypeOK
<1>3. ASSUME NEW r \in ResId, Release(s, r)
      PROVE  TypeOK'
  <2>1. pend' \in [Session -> Tally]
    <3>1. resAmt[r] \in Nat
      BY DEF TypeOK
    <3> QED
      BY <1>3, <3>1, FlushType, EventsType DEF Release
  <2>2. txn' \in [Session -> Txns]
    <3>1. [txn[s] EXCEPT !.set = @ \cup {r}] \in Txns
      <4>1. txn[s] \in Txns
        BY DEF TypeOK
      <4> QED
        BY <4>1 DEF Txns
    <3> QED
      BY <1>3, <3>1 DEF Release, TypeOK
  <2> QED
    BY <1>3, <2>1, <2>2, StartType DEF Release, TypeOK
<1>4. ASSUME NEW amt \in Amounts, InternalCheck(s, amt)
      PROVE  TypeOK'
  <2>1. arg' \in [Session -> Args]
    <3>1. [rid |-> None, amt |-> amt, key |-> None] \in Args
      BY AmountsAssumption DEF Args
    <3> QED
      BY <1>4, <3>1 DEF InternalCheck, TypeOK
  <2>2. tmp' \in [Session -> Nat]
    BY <1>4, ViewType DEF InternalCheck, TypeOK
  <2> QED
    <3>1. ops' \in [Session -> Nat]
      BY <1>4, StartType DEF InternalCheck
    <3>2. pc' \in [Session -> PC]
      BY <1>4 DEF InternalCheck, TypeOK
    <3>3. \A t \in Session : pc'[t] \in InReserve \cup InCharge => arg'[t].rid \in ResId
      BY <1>4 DEF InternalCheck, TypeOK, Args
    <3> QED
      BY <1>4, <2>1, <2>2, <3>1, <3>2, <3>3 DEF InternalCheck, TypeOK
<1>5. ASSUME NEW amt \in Amounts, Credit(s, amt)
      PROVE  TypeOK'
  <2>1. pend' \in [Session -> Tally]
    BY <1>5, AmountsAssumption, FlushType, EventsType DEF Credit
  <2> QED
    BY <1>5, <2>1, StartType DEF Credit, TypeOK
<1> QED
  BY <1>1, <1>2, <1>3, <1>4, <1>5 DEF Call

(* The type invariant is inductive. *)
LEMMA TypeNext == TypeOK /\ [Next]_vars => TypeOK'
<1> SUFFICES ASSUME TypeOK, [Next]_vars
             PROVE  TypeOK'
  OBVIOUS
<1>1. ASSUME NEW s \in Session, Step(s)
      PROVE  TypeOK'
  BY <1>1, TypeStep
<1>2. ASSUME NEW s \in Session, Call(s)
      PROVE  TypeOK'
  BY <1>2, TypeCall
<1>3. ASSUME NEW s \in Session, Commit(s)
      PROVE  TypeOK'
  <2>1. ledger' \in Tally
    BY <1>3, PlusType DEF Commit, TypeOK
  <2>2. row' \in Nat
    BY <1>3, SessionType DEF Commit, TypeOK
  <2> QED
    BY <1>3, <2>1, <2>2, SessionType, EndTxnType DEF Commit, TypeOK
<1>4. ASSUME NEW s \in Session, Rollback(s)
      PROVE  TypeOK'
  BY <1>4, EndTxnType DEF Rollback, TypeOK, committed
<1>5. CASE BalanceCompute
  BY <1>5, UsedType DEF BalanceCompute, TypeOK, committed
<1>6. CASE BalanceCache
  BY <1>6 DEF BalanceCache, TypeOK, committed
<1>7. CASE CacheExpire
  BY <1>7 DEF CacheExpire, TypeOK, committed
<1>8. CASE UNCHANGED vars
  BY <1>8 DEF vars, TypeOK
<1> QED
  BY <1>1, <1>2, <1>3, <1>4, <1>5, <1>6, <1>7, <1>8 DEF Next

(* The variables of the wallet keep their types in every behaviour. *)
THEOREM TypeCorrect == Spec => []TypeOK
  BY TypeInit, TypeNext, PTL DEF Spec

-----------------------------------------------------------------------------
(* What one session's events add to its uncommitted sums. *)
LEMMA FlushSums ==
  ASSUME TypeOK, NEW s \in Session, NEW e \in Tally, Flush(s, e)
  PROVE  /\ pend'[s].rsv = pend[s].rsv + e.rsv
         /\ pend'[s].rel = pend[s].rel + e.rel
         /\ pend'[s].deb = pend[s].deb + e.deb
         /\ pend'[s].crd = pend[s].crd + e.crd
         /\ pend'[s].over = pend[s].over + e.over
         /\ \A t \in Session \ {s} : pend'[t] = pend[t]
  BY DEF TypeOK, Flush, Plus

(* The fields of a RESERVE event's tally. *)
LEMMA ReserveFields ==
  ASSUME NEW n \in Nat, NEW e, e = [Zero EXCEPT !.rsv = n]
  PROVE  e.rsv = n /\ e.rel = 0 /\ e.deb = 0 /\ e.crd = 0 /\ e.over = 0
  BY DEF Zero

(* The fields of a RELEASE event's tally. *)
LEMMA ReleaseFields ==
  ASSUME NEW n \in Nat, NEW e, e = [Zero EXCEPT !.rel = n]
  PROVE  e.rsv = 0 /\ e.rel = n /\ e.deb = 0 /\ e.crd = 0 /\ e.over = 0
  BY DEF Zero

(* The fields of a CREDIT event's tally. *)
LEMMA CreditFields ==
  ASSUME NEW n \in Nat, NEW e, e = [Zero EXCEPT !.crd = n]
  PROVE  e.rsv = 0 /\ e.rel = 0 /\ e.deb = 0 /\ e.crd = n /\ e.over = 0
  BY DEF Zero

(* The fields of a DEBIT event's tally. *)
LEMMA DebitFields ==
  ASSUME NEW n \in Nat, NEW m \in Nat, NEW e, e = Debit(n, m)
  PROVE  e.rsv = 0 /\ e.rel = 0 /\ e.deb = n /\ e.crd = 0 /\ e.over = m
  BY DEF Zero, Debit

(* The fields of a tally are natural numbers. *)
LEMMA TallyFields ==
  ASSUME NEW t \in Tally
  PROVE  t.rsv \in Nat /\ t.rel \in Nat /\ t.deb \in Nat /\ t.crd \in Nat /\ t.over \in Nat
  BY DEF Tally

(* A session that a step leaves alone keeps its part of the invariant. *)
LEMMA Frame ==
  ASSUME TypeOK, NEW t \in Session, SessionInv(t),
         ledger' = ledger, reserved' = reserved,
         pend'[t] = pend[t], txn'[t] = txn[t], pc'[t] = pc[t], arg'[t] = arg[t],
         tmp'[t] = tmp[t], lock' = t <=> lock = t,
         \A r \in VisibleRes(t) : resAmt'[r] = resAmt[r]
  PROVE  SessionInv(t)'
<1>1. LockDiscipline(t)'
  BY DEF SessionInv, LockDiscipline
<1>2. ChargeVisible(t)'
  BY DEF SessionInv, ChargeVisible, VisibleRes
<1>3. Slack(t)' = Slack(t)
  BY DEF SessionInv, ChargeVisible, Slack, InCharge
<1>4. Bounded(t)'
  BY <1>3 DEF SessionInv, Bounded, Exposure
<1>5. ReadStillSafe(t)'
  BY DEF SessionInv, ReadStillSafe
<1> QED
  BY <1>1, <1>2, <1>4, <1>5 DEF SessionInv
(* A step of an operation keeps the invariant of the session that takes it *)
(* and of the others.                                                      *)
LEMMA ExposureStep ==
  ASSUME ExposureInv, NEW s \in Session, Step(s)
  PROVE  \A t \in Session : SessionInv(t)'
<1> TypeOK /\ TypeOK' /\ SessionInv(s) /\ ExposureBounded
  BY TypeStep DEF ExposureInv
<1> SUFFICES ASSUME NEW t \in Session PROVE SessionInv(t)'
  OBVIOUS
<1> SessionInv(t)
  BY DEF ExposureInv
<1> pend[s] \in Tally /\ pend[t] \in Tally /\ ledger \in Tally
  BY DEF TypeOK
<1> Free \notin Session
  BY FreeAssumption
<1> Limit \in Int
  BY LimitAssumption
<1>1. CASE ReserveLock(s)
  <2>7. CASE t = s
    BY <1>1, <2>7, TallyFields
    DEF ReserveLock, TakeLock, Goto, committed, TypeOK, ExposureBounded, InCharge, InReserve, Exposure,
        SessionInv, LockDiscipline, ChargeVisible, Bounded, ReadStillSafe, Slack, VisibleRes
  <2>8. CASE t # s
    BY <1>1, <2>8, Frame DEF ReserveLock, TakeLock, Goto, committed, TypeOK
  <2> QED
    BY <2>7, <2>8
<1>2. CASE ReserveUsed(s)
  <2>1. Used(View(s)) >= ledger.deb + pend[s].deb - ledger.crd - pend[s].crd
    BY TallyFields DEF Used, View, Plus, AtLeastZero
  <2>7. CASE t = s
    BY <1>2, <2>7, <2>1, TallyFields
    DEF ReserveUsed, Goto, committed, TypeOK, InCharge, InReserve, Exposure,
        SessionInv, LockDiscipline, ChargeVisible, Bounded, ReadStillSafe, Slack, VisibleRes
  <2>8. CASE t # s
    BY <1>2, <2>8, Frame DEF ReserveUsed, Goto, committed, TypeOK
  <2> QED
    BY <2>7, <2>8
<1>3. CASE ReserveExhausted(s)
  <2>7. CASE t = s
    BY <1>3, <2>7, TallyFields
    DEF ReserveExhausted, Goto, committed, TypeOK, InCharge, InReserve, Exposure,
        SessionInv, LockDiscipline, ChargeVisible, Bounded, ReadStillSafe, Slack, VisibleRes
  <2>8. CASE t # s
    BY <1>3, <2>8, Frame DEF ReserveExhausted, Goto, committed, TypeOK
  <2> QED
    BY <2>7, <2>8
<1>4. CASE ReserveInsert(s)
  <2>1. /\ lock = s
        /\ arg[s].amt \in Nat
        /\ tmp[s] \in Nat
        /\ tmp[s] >= ledger.deb + pend[s].deb - ledger.crd - pend[s].crd
    BY <1>4, SessionType DEF ReserveInsert, SessionInv, LockDiscipline, ReadStillSafe
  <2>2. PICK e \in Tally : e = [Zero EXCEPT !.rsv = arg[s].amt]
    BY <2>1, EventsType
  <2>3. /\ pend'[s].rsv = pend[s].rsv + arg[s].amt
        /\ pend'[s].rel = pend[s].rel
        /\ pend'[s].deb = pend[s].deb
        /\ pend'[s].crd = pend[s].crd
        /\ pend'[s].over = pend[s].over
    <3>1. Flush(s, e)
      BY <1>4, <2>2 DEF ReserveInsert
    <3>2. e.rsv = arg[s].amt /\ e.rel = 0 /\ e.deb = 0 /\ e.crd = 0 /\ e.over = 0
      BY <2>1, <2>2, ReserveFields
    <3> QED
      BY <3>1, <3>2, FlushSums, TallyFields
  <2>4. arg[s].amt + tmp[s] + (ledger.rsv + pend[s].rsv) - (ledger.rel + pend[s].rel) <= Limit
    BY <1>4, <2>1, TallyFields DEF ReserveInsert, Available, Reserved, AtLeastZero, View, Plus
  <2>5. Exposure(ledger) + Exposure(pend'[s]) <= Limit + ledger.over + pend'[s].over
    BY <2>1, <2>3, <2>4, TallyFields DEF Exposure
  <2>7. CASE t = s
    BY <1>4, <2>1, <2>5, <2>7, TallyFields
    DEF ReserveInsert, Goto, committed, TypeOK, InCharge, InReserve, Exposure,
        SessionInv, LockDiscipline, ChargeVisible, Bounded, ReadStillSafe, Slack, VisibleRes
  <2>8. CASE t # s
    BY <1>4, <2>8, Frame DEF ReserveInsert, Goto, committed, TypeOK, Flush, VisibleRes
  <2> QED
    BY <2>7, <2>8
<1>5. CASE ReserveDuplicate(s)
  <2>1. lock = s /\ lock' = Free
    BY <1>5 DEF ReserveDuplicate, Unlocked, SessionInv, LockDiscipline
  <2>7. CASE t = s
    BY <1>5, <2>7, <2>1, TallyFields
    DEF ReserveDuplicate, Zero, EmptyTxn, Goto, committed, TypeOK, InCharge, InReserve, Exposure,
        SessionInv, LockDiscipline, ChargeVisible, Bounded, ReadStillSafe, Slack, VisibleRes
  <2>8. CASE t # s
    BY <1>5, <2>8, Frame DEF ReserveDuplicate, Unlocked, Goto, committed, TypeOK
  <2> QED
    BY <2>7, <2>8
<1>6. CASE ChargeRead(s)
  <2>7. CASE t = s
    BY <1>6, <2>7, TallyFields
    DEF ChargeRead, Goto, committed, TypeOK, InCharge, InReserve, Exposure,
        SessionInv, LockDiscipline, ChargeVisible, Bounded, ReadStillSafe, Slack, VisibleRes
  <2>8. CASE t # s
    BY <1>6, <2>8, Frame DEF ChargeRead, Goto, committed, TypeOK
  <2> QED
    BY <2>7, <2>8
<1>7. CASE ChargeInsert(s)
  <2> DEFINE uncovered == AtLeastZero(arg[s].amt - resAmt[arg[s].rid])
  <2>1. /\ arg[s].amt \in Nat
        /\ resAmt[arg[s].rid] \in Nat
        /\ uncovered \in Nat
        /\ uncovered >= arg[s].amt - resAmt[arg[s].rid]
    BY <1>7, SessionType DEF ChargeInsert, TypeOK, AtLeastZero, InCharge
  <2> HIDE DEF uncovered
  <2>2. PICK e \in Tally : e = Debit(arg[s].amt, uncovered)
    BY <2>1, EventsType
  <2>3. /\ pend'[s].rsv = pend[s].rsv
        /\ pend'[s].rel = pend[s].rel
        /\ pend'[s].deb = pend[s].deb + arg[s].amt
        /\ pend'[s].crd = pend[s].crd
        /\ pend'[s].over = pend[s].over + uncovered
    <3>1. Flush(s, e)
      BY <1>7, <2>2 DEF ChargeInsert, uncovered
    <3>2. e.rsv = 0 /\ e.rel = 0 /\ e.deb = arg[s].amt /\ e.crd = 0 /\ e.over = uncovered
      BY <2>1, <2>2, DebitFields
    <3>3. pend[s].rsv \in Nat /\ pend[s].rel \in Nat /\ pend[s].crd \in Nat
      BY TallyFields DEF TypeOK
    <3> QED
      BY <3>1, <3>2, <3>3, FlushSums
  <2>4. Slack(s) = resAmt[arg[s].rid]
    BY <1>7 DEF ChargeInsert, Slack
  <2>5. Exposure(pend'[s]) - pend'[s].over <= Exposure(pend[s]) + Slack(s) - pend[s].over
    BY <2>1, <2>3, <2>4, TallyFields DEF Exposure
  <2>6. Bounded(s)'
    <3>1. Slack(s)' = 0
      BY <1>7 DEF ChargeInsert, Goto, Slack, TypeOK
    <3>2. Exposure(pend[s]) \in Int /\ Exposure(pend'[s]) \in Int /\ Exposure(ledger) \in Int
      BY <2>1, <2>3, TallyFields DEF Exposure
    <3>3. pend'[s].over \in Int /\ pend[s].over \in Int /\ ledger.over \in Int
      BY <2>1, <2>3, TallyFields
    <3> QED
      BY <1>7, <2>1, <2>4, <2>5, <3>1, <3>2, <3>3 DEF ChargeInsert, SessionInv, Bounded, committed
  <2>7. CASE t = s
    BY <1>7, <2>3, <2>6, <2>7
    DEF ChargeInsert, Goto, committed, TypeOK, InCharge,
        SessionInv, LockDiscipline, ChargeVisible, ReadStillSafe, VisibleRes
  <2>8. CASE t # s
    BY <1>7, <2>8, Frame DEF ChargeInsert, Goto, committed, TypeOK, Flush
  <2> QED
    BY <2>7, <2>8
<1>8. CASE ChargeDuplicate(s)
  <2>1. Slack(s) >= 0
    BY <1>8 DEF Slack, TypeOK, InCharge
  <2>7. CASE t = s
    BY <1>8, <2>7, <2>1, TallyFields
    DEF ChargeDuplicate, Goto, committed, TypeOK, InCharge, InReserve, Exposure,
        SessionInv, LockDiscipline, ChargeVisible, Bounded, ReadStillSafe, Slack, VisibleRes
  <2>8. CASE t # s
    BY <1>8, <2>8, Frame DEF ChargeDuplicate, Goto, committed, TypeOK
  <2> QED
    BY <2>7, <2>8
<1>9. CASE ChargeUpdate(s)
  <2>7. CASE t = s
    BY <1>9, <2>7, TallyFields
    DEF ChargeUpdate, TakeLock, Goto, committed, ExposureBounded, TypeOK, InCharge, InReserve, Exposure,
        SessionInv, LockDiscipline, ChargeVisible, Bounded, ReadStillSafe, Slack, VisibleRes
  <2>8. CASE t # s
    BY <1>9, <2>8, Frame DEF ChargeUpdate, TakeLock, Goto, committed, TypeOK
  <2> QED
    BY <2>7, <2>8
<1>10. CASE InternalUpdate(s)
  <2>1. arg[s].amt \in Nat
    BY SessionType
  <2>2. PICK e \in Tally : e = Debit(arg[s].amt, arg[s].amt)
    BY <2>1, EventsType
  <2>3. /\ pend'[s].rsv = pend[s].rsv
        /\ pend'[s].rel = pend[s].rel
        /\ pend'[s].deb = pend[s].deb + arg[s].amt
        /\ pend'[s].crd = pend[s].crd
        /\ pend'[s].over = pend[s].over + arg[s].amt
    <3>1. Flush(s, e)
      BY <1>10, <2>2 DEF InternalUpdate
    <3>2. e.rsv = 0 /\ e.rel = 0 /\ e.deb = arg[s].amt /\ e.crd = 0 /\ e.over = arg[s].amt
      BY <2>1, <2>2, DebitFields
    <3>3. pend[s].rsv \in Nat /\ pend[s].rel \in Nat /\ pend[s].crd \in Nat
      BY TallyFields DEF TypeOK
    <3> QED
      BY <3>1, <3>2, <3>3, FlushSums
  <2>7. CASE t = s
    <3>1. Exposure(pend'[s]) - pend'[s].over = Exposure(pend[s]) - pend[s].over
      BY <2>1, <2>3, TallyFields DEF Exposure
    <3>2. Exposure(pend[s]) \in Int /\ Exposure(pend'[s]) \in Int /\ Exposure(ledger) \in Int
      BY <2>1, <2>3, TallyFields DEF Exposure
    <3>3. pend'[s].over \in Int /\ pend[s].over \in Int /\ ledger.over \in Int
      BY <2>1, <2>3, TallyFields
    <3>4. Bounded(s)'
      BY <1>10, <3>1, <3>2, <3>3
      DEF InternalUpdate, TakeLock, Goto, committed, TypeOK, ExposureBounded, SessionInv, Bounded, Slack
    <3> QED
      BY <1>10, <2>3, <2>7, <3>4
      DEF InternalUpdate, TakeLock, Goto, committed, TypeOK, InCharge,
          SessionInv, LockDiscipline, ChargeVisible, ReadStillSafe, VisibleRes
  <2>8. CASE t # s
    BY <1>10, <2>8, Frame DEF InternalUpdate, TakeLock, Goto, committed, TypeOK, Flush
  <2> QED
    BY <2>7, <2>8
<1>11. CASE DeadlockAbort(s)
  <2>7. CASE t = s
    BY <1>11, <2>7, TallyFields
    DEF DeadlockAbort, EndTxn, Unlocked, Goto, committed, Zero, EmptyTxn, NoArg, TypeOK, InCharge, InReserve, Exposure,
        SessionInv, LockDiscipline, ChargeVisible, Bounded, ReadStillSafe, Slack, VisibleRes
  <2>8. CASE t # s
    BY <1>11, <2>8, Frame DEF DeadlockAbort, EndTxn, Unlocked, Goto, committed, TypeOK
  <2> QED
    BY <2>7, <2>8
<1> QED
  BY <1>1, <1>2, <1>3, <1>4, <1>5, <1>6, <1>7, <1>8, <1>9, <1>10, <1>11 DEF Step
(* A call keeps the invariant of the session that makes it and of the      *)
(* others.                                                                 *)
LEMMA ExposureCall ==
  ASSUME ExposureInv, NEW s \in Session, Call(s)
  PROVE  \A t \in Session : SessionInv(t)'
<1> TypeOK /\ TypeOK' /\ SessionInv(s) /\ ExposureBounded
  BY TypeCall DEF ExposureInv
<1> SUFFICES ASSUME NEW t \in Session PROVE SessionInv(t)'
  OBVIOUS
<1> SessionInv(t)
  BY DEF ExposureInv
<1> pend[s] \in Tally /\ pend[t] \in Tally /\ ledger \in Tally
  BY DEF TypeOK
<1> Limit \in Int
  BY LimitAssumption
<1>1. ASSUME NEW r \in ResId, NEW amt \in Amounts, ReserveBegin(s, r, amt)
      PROVE  SessionInv(t)'
  <2>1. CASE t = s
    BY <1>1, <2>1, TallyFields
    DEF ReserveBegin, Start, Goto, committed, TypeOK, InCharge, InReserve, Exposure,
        SessionInv, LockDiscipline, ChargeVisible, Bounded, ReadStillSafe, Slack, VisibleRes
  <2>2. CASE t # s
    BY <1>1, <2>2, Frame DEF ReserveBegin, Goto, committed, TypeOK
  <2> QED
    BY <2>1, <2>2
<1>2. ASSUME NEW r \in ResId, NEW cost \in Costs, NEW key \in Key \cup {None},
             ChargeBegin(s, r, cost, key)
      PROVE  SessionInv(t)'
  <2>1. CASE key \in VisibleChg(s) /\ t = s
    BY <1>2, <2>1, TallyFields
    DEF ChargeBegin, Start, Goto, committed, TypeOK, InCharge, InReserve, Exposure,
        SessionInv, LockDiscipline, ChargeVisible, Bounded, ReadStillSafe, Slack, VisibleRes
  <2>2. CASE key \notin VisibleChg(s) /\ t = s
    <3>1. resAmt[r] \in Nat
      BY DEF TypeOK
    <3>2. PICK e \in Tally : e = [Zero EXCEPT !.rel = resAmt[r]]
      BY <3>1, EventsType
    <3>3. Flush(s, e)
      BY <1>2, <2>2, <3>2 DEF ChargeBegin
    <3>4. e.rsv = 0 /\ e.rel = resAmt[r] /\ e.deb = 0 /\ e.crd = 0 /\ e.over = 0
      BY <3>1, <3>2, ReleaseFields
    <3>5. /\ pend'[s].rsv = pend[s].rsv
          /\ pend'[s].rel = pend[s].rel + resAmt[r]
          /\ pend'[s].deb = pend[s].deb
          /\ pend'[s].crd = pend[s].crd
          /\ pend'[s].over = pend[s].over
      BY <3>3, <3>4, FlushSums, TallyFields
    <3>6. Slack(s) = 0 /\ Slack(s)' = resAmt[r]
      BY <1>2, <2>2 DEF ChargeBegin, Start, Goto, Slack, TypeOK
    <3>7. Exposure(pend'[s]) + Slack(s)' = Exposure(pend[s]) + Slack(s)
      BY <3>1, <3>5, <3>6, TallyFields DEF Exposure
    <3>8. Bounded(s)'
      BY <1>2, <3>1, <3>5, <3>6, <3>7, TallyFields DEF ChargeBegin, committed, SessionInv, Bounded, Exposure
    <3> QED
      BY <1>2, <2>2, <3>5, <3>8
      DEF ChargeBegin, Start, Goto, committed, TypeOK, InCharge,
          SessionInv, LockDiscipline, ChargeVisible, ReadStillSafe, VisibleRes
  <2>3. CASE t # s
    BY <1>2, <2>3, Frame DEF ChargeBegin, Goto, committed, TypeOK, Flush
  <2> QED
    BY <2>1, <2>2, <2>3
<1>3. ASSUME NEW r \in ResId, Release(s, r)
      PROVE  SessionInv(t)'
  <2>1. CASE t = s
    <3>1. resAmt[r] \in Nat
      BY DEF TypeOK
    <3>2. PICK e \in Tally : e = [Zero EXCEPT !.rel = resAmt[r]]
      BY <3>1, EventsType
    <3>3. Flush(s, e)
      BY <1>3, <3>2 DEF Release
    <3>4. e.rsv = 0 /\ e.rel = resAmt[r] /\ e.deb = 0 /\ e.crd = 0 /\ e.over = 0
      BY <3>1, <3>2, ReleaseFields
    <3>5. /\ pend'[s].rsv = pend[s].rsv
          /\ pend'[s].rel = pend[s].rel + resAmt[r]
          /\ pend'[s].deb = pend[s].deb
          /\ pend'[s].crd = pend[s].crd
          /\ pend'[s].over = pend[s].over
      BY <3>3, <3>4, FlushSums, TallyFields
    <3>6. Slack(s) = 0 /\ Slack(s)' = 0
      BY <1>3 DEF Release, Start, Goto, Slack, TypeOK
    <3>7. Bounded(s)'
      BY <1>3, <3>1, <3>5, <3>6, TallyFields DEF Release, committed, SessionInv, Bounded, Exposure
    <3> QED
      BY <1>3, <2>1, <3>5, <3>7
      DEF Release, Start, Goto, committed, TypeOK, InCharge,
          SessionInv, LockDiscipline, ChargeVisible, ReadStillSafe, VisibleRes
  <2>2. CASE t # s
    BY <1>3, <2>2, Frame DEF Release, Goto, committed, TypeOK, Flush
  <2> QED
    BY <2>1, <2>2
<1>4. ASSUME NEW amt \in Amounts, InternalCheck(s, amt)
      PROVE  SessionInv(t)'
  <2>1. CASE t = s
    BY <1>4, <2>1, TallyFields
    DEF InternalCheck, Start, Goto, committed, TypeOK, InCharge, InReserve, Exposure,
        SessionInv, LockDiscipline, ChargeVisible, Bounded, ReadStillSafe, Slack, VisibleRes
  <2>2. CASE t # s
    BY <1>4, <2>2, Frame DEF InternalCheck, Goto, committed, TypeOK
  <2> QED
    BY <2>1, <2>2
<1>5. ASSUME NEW amt \in Amounts, Credit(s, amt)
      PROVE  SessionInv(t)'
  <2>1. CASE t = s
    <3>1. amt \in Nat
      BY AmountsAssumption
    <3>2. PICK e \in Tally : e = [Zero EXCEPT !.crd = amt]
      BY <3>1, EventsType
    <3>3. Flush(s, e)
      BY <1>5, <3>2 DEF Credit
    <3>4. e.rsv = 0 /\ e.rel = 0 /\ e.deb = 0 /\ e.crd = amt /\ e.over = 0
      BY <3>1, <3>2, CreditFields
    <3>5. /\ pend'[s].rsv = pend[s].rsv
          /\ pend'[s].rel = pend[s].rel
          /\ pend'[s].deb = pend[s].deb
          /\ pend'[s].crd = pend[s].crd + amt
          /\ pend'[s].over = pend[s].over
      BY <3>3, <3>4, FlushSums, TallyFields
    <3>6. Slack(s) = 0 /\ Slack(s)' = 0
      BY <1>5 DEF Credit, Start, Goto, Slack, TypeOK
    <3>7. Bounded(s)'
      BY <1>5, <3>1, <3>5, <3>6, TallyFields DEF Credit, committed, SessionInv, Bounded, Exposure
    <3> QED
      BY <1>5, <2>1, <3>5, <3>7
      DEF Credit, Start, Goto, committed, TypeOK, InCharge,
          SessionInv, LockDiscipline, ChargeVisible, ReadStillSafe, VisibleRes
  <2>2. CASE t # s
    BY <1>5, <2>2, Frame DEF Credit, Goto, committed, TypeOK, Flush
  <2> QED
    BY <2>1, <2>2
<1> QED
  BY <1>1, <1>2, <1>3, <1>4, <1>5 DEF Call

(* A session whose transaction ended has nothing uncommitted. *)
LEMMA EndTxnInv ==
  ASSUME TypeOK, NEW s \in Session, SessionInv(s), EndTxn(s)
  PROVE  SessionInv(s)'
<1>1. /\ pend'[s] = Zero
      /\ txn'[s] = EmptyTxn
      /\ pc'[s] = "idle"
      /\ lock' # s
  BY FreeAssumption DEF EndTxn, TypeOK, Goto, Unlocked
<1> QED
  BY <1>1 DEF Zero, EmptyTxn, InCharge, Exposure,
     SessionInv, LockDiscipline, ChargeVisible, Bounded, ReadStillSafe, Slack, VisibleRes

(* A commit keeps the invariant: while another session holds the lock, a   *)
(* commit can only lower the exposure that session sees.                   *)
LEMMA ExposureCommit ==
  ASSUME ExposureInv, NEW s \in Session, Commit(s), TypeOK'
  PROVE  ExposureBounded' /\ \A t \in Session : SessionInv(t)'
<1> TypeOK /\ SessionInv(s) /\ ExposureBounded
  BY DEF ExposureInv
<1> pend[s] \in Tally /\ ledger \in Tally
  BY DEF TypeOK
<1> Limit \in Int
  BY LimitAssumption
<1>1. /\ ledger'.rsv = ledger.rsv + pend[s].rsv
      /\ ledger'.rel = ledger.rel + pend[s].rel
      /\ ledger'.deb = ledger.deb + pend[s].deb
      /\ ledger'.crd = ledger.crd + pend[s].crd
      /\ ledger'.over = ledger.over + pend[s].over
  BY DEF Commit, Plus
<1>2. Slack(s) = 0 /\ pc[s] = "open"
  BY DEF Commit, Slack
<1>3. ExposureBounded'
  BY <1>1, <1>2, TallyFields DEF ExposureBounded, SessionInv, Bounded, Exposure
<1>4. ASSUME NEW t \in Session, t # s
      PROVE  SessionInv(t)'
  <2>1. SessionInv(t) /\ pend[t] \in Tally
    BY DEF ExposureInv, TypeOK
  <2>2. /\ pend'[t] = pend[t] /\ txn'[t] = txn[t] /\ pc'[t] = pc[t] /\ arg'[t] = arg[t]
        /\ tmp'[t] = tmp[t] /\ resAmt' = resAmt
        /\ lock' = t <=> lock = t
    BY <1>4, FreeAssumption DEF Commit, EndTxn, TypeOK, Goto, Unlocked
  <2>3. Slack(t)' = Slack(t)
    BY <2>2 DEF Slack
  <2>4. lock = t => pend[s].rsv = 0 /\ pend[s].deb = 0 /\ pend[s].over = 0
    BY <1>2, <1>4 DEF SessionInv, LockDiscipline
  <2>5. Slack(t) \in Int
    BY DEF Slack, TypeOK, InCharge
  <2>6. Bounded(t)'
    <3>1. lock = t => /\ Exposure(ledger') <= Exposure(ledger)
                      /\ ledger'.over = ledger.over
      BY <1>1, <2>4, TallyFields DEF Exposure
    <3>2. /\ Exposure(ledger') \in Int /\ Exposure(ledger) \in Int /\ Exposure(pend[t]) \in Int
          /\ ledger.over \in Int /\ pend[t].over \in Int
      BY <1>1, <2>1, TallyFields DEF Exposure
    <3> QED
      BY <2>1, <2>2, <2>3, <2>5, <3>1, <3>2 DEF SessionInv, Bounded
  <2>7. ReadStillSafe(t)'
    <3>1. tmp[t] \in Int
      BY SessionType
    <3> QED
      BY <1>1, <2>1, <2>2, <2>4, <3>1, TallyFields DEF SessionInv, LockDiscipline, ReadStillSafe
  <2>8. LockDiscipline(t)'
    BY <2>1, <2>2 DEF SessionInv, LockDiscipline
  <2>9. ChargeVisible(t)'
    BY <2>1, <2>2 DEF SessionInv, ChargeVisible, VisibleRes, Commit
  <2> QED
    BY <2>6, <2>7, <2>8, <2>9 DEF SessionInv
<1>5. SessionInv(s)'
  BY EndTxnInv DEF Commit
<1> QED
  BY <1>3, <1>4, <1>5

(* The strengthened invariant holds initially and is kept by every step. *)
LEMMA ExposureInit == Init => ExposureInv
<1> SUFFICES ASSUME Init PROVE ExposureInv
  OBVIOUS
<1>1. ASSUME NEW s \in Session PROVE SessionInv(s)
  BY FreeAssumption DEF Init, Zero, EmptyTxn, InCharge, Exposure,
     SessionInv, LockDiscipline, ChargeVisible, Bounded, ReadStillSafe, Slack, VisibleRes
<1>2. ExposureBounded
  BY LimitAssumption DEF Init, ExposureBounded, Exposure, Zero
<1> QED
  BY <1>1, <1>2, TypeInit DEF ExposureInv

(* Every step keeps the exposure invariant. *)
LEMMA ExposureNext == ExposureInv /\ [Next]_vars => ExposureInv'
<1> SUFFICES ASSUME ExposureInv, [Next]_vars
             PROVE  ExposureInv'
  OBVIOUS
<1>1. TypeOK /\ TypeOK'
  BY TypeNext DEF ExposureInv
<1>2. ASSUME NEW s \in Session, Step(s)
      PROVE  ExposureInv'
  <2>1. ledger' = ledger
    BY <1>2 DEF Step, committed, ReserveLock, ReserveUsed, ReserveExhausted, ReserveInsert,
       ReserveDuplicate, ChargeRead, ChargeInsert, ChargeDuplicate, ChargeUpdate,
       InternalUpdate, DeadlockAbort
  <2> QED
    BY <1>1, <1>2, <2>1, ExposureStep DEF ExposureInv, ExposureBounded
<1>3. ASSUME NEW s \in Session, Call(s)
      PROVE  ExposureInv'
  <2>1. ledger' = ledger
    BY <1>3 DEF Call, committed, ReserveBegin, ChargeBegin, Release, InternalCheck, Credit
  <2> QED
    BY <1>1, <1>3, <2>1, ExposureCall DEF ExposureInv, ExposureBounded
<1>4. ASSUME NEW s \in Session, Commit(s)
      PROVE  ExposureInv'
  BY <1>1, <1>4, ExposureCommit DEF ExposureInv
<1>5. ASSUME NEW s \in Session, Rollback(s)
      PROVE  ExposureInv'
  <2>1. ASSUME NEW t \in Session, t # s PROVE SessionInv(t)'
    BY <1>1, <1>5, <2>1, FreeAssumption, Frame
    DEF ExposureInv, Rollback, EndTxn, Unlocked, Goto, committed, TypeOK
  <2>2. SessionInv(s)'
    BY <1>1, <1>5, EndTxnInv DEF ExposureInv, Rollback
  <2> QED
    BY <1>1, <1>5, <2>1, <2>2 DEF ExposureInv, Rollback, committed, ExposureBounded
<1>6. CASE BalanceCompute \/ BalanceCache \/ CacheExpire \/ UNCHANGED vars
  <2>1. UNCHANGED <<committed, resAmt, pend, txn, lock, pc, arg, tmp>>
    BY <1>6 DEF BalanceCompute, BalanceCache, CacheExpire, vars, committed
  <2>2. ASSUME NEW t \in Session PROVE SessionInv(t)'
    BY <1>1, <2>1, Frame DEF ExposureInv, committed
  <2> QED
    BY <1>1, <2>1, <2>2 DEF ExposureInv, ExposureBounded, committed
<1> QED
  BY <1>2, <1>3, <1>4, <1>5, <1>6 DEF Next

(* However many sessions reserve, charge, release and commit at once,      *)
(* what the committed ledger holds and has spent exceeds the budget limit  *)
(* only by cost that no reservation covered.                               *)
THEOREM ReservationsWithinBudget == Spec => []ExposureBounded
<1>1. Spec => []ExposureInv
  BY ExposureInit, ExposureNext, PTL DEF Spec
<1>2. ExposureInv => ExposureBounded
  BY DEF ExposureInv
<1> QED
  BY <1>1, <1>2, PTL
-----------------------------------------------------------------------------
(* What a session acknowledged is in its transaction, and a reservation    *)
(* that is about to meet its own key has no debit to lose.                 *)
AckedSession(s) ==
    /\ pend[s].deb = acked[s] + (IF pc[s] = "chg_upd" THEN arg[s].amt ELSE 0)
    /\ pc[s] \in InReserve /\ arg[s].rid \in reserved => pend[s].deb = 0

(* A step that leaves a session alone and commits no reservation keeps it. *)
LEMMA AckedFrame ==
  ASSUME NEW t \in Session, AckedSession(t), reserved' = reserved,
         pend'[t] = pend[t], pc'[t] = pc[t], arg'[t] = arg[t], acked'[t] = acked[t]
  PROVE  AckedSession(t)'
  BY DEF AckedSession

(* The steps of an operation keep what a session acknowledged.  The one    *)
(* that rolls a transaction back from inside an operation finds no debit   *)
(* in it.                                                                  *)
LEMMA AckedStep ==
  ASSUME TypeOK, NEW s \in Session, AckedSession(s), Step(s), TypeOK'
  PROVE  AckedSession(s)'
<1> USE DEF InReserve, Goto, committed
<1> arg[s].amt \in Nat /\ pend[s].deb \in Nat /\ acked[s] \in Nat /\ pend[s] \in Tally
  BY SessionType, TallyFields DEF TypeOK
<1>1. CASE ReserveLock(s) \/ ReserveUsed(s) \/ ReserveExhausted(s) \/ ChargeRead(s) \/ ChargeDuplicate(s)
  BY <1>1 DEF ReserveLock, ReserveUsed, ReserveExhausted, ChargeRead, ChargeDuplicate,
     AckedSession, TypeOK
<1>2. CASE ReserveInsert(s)
  <2>1. PICK e \in Tally : e = [Zero EXCEPT !.rsv = arg[s].amt]
    BY EventsType
  <2>2. Flush(s, e) /\ e.deb = 0
    BY <1>2, <2>1, ReserveFields DEF ReserveInsert
  <2>3. pend'[s].deb = pend[s].deb
    BY <2>2, FlushSums
  <2> QED
    BY <1>2, <2>3 DEF ReserveInsert, AckedSession, TypeOK
<1>3. CASE ReserveDuplicate(s)
  BY <1>3 DEF ReserveDuplicate, AckedSession, TypeOK, Zero
<1>4. CASE ChargeInsert(s)
  <2>1. AtLeastZero(arg[s].amt - resAmt[arg[s].rid]) \in Nat
    BY <1>4 DEF ChargeInsert, TypeOK, AtLeastZero, InCharge
  <2>2. PICK e \in Tally : e = Debit(arg[s].amt, AtLeastZero(arg[s].amt - resAmt[arg[s].rid]))
    BY <2>1, EventsType
  <2>3. Flush(s, e) /\ e.deb = arg[s].amt
    BY <1>4, <2>1, <2>2, DebitFields DEF ChargeInsert
  <2>4. pend'[s].deb = pend[s].deb + arg[s].amt
    BY <2>3, FlushSums
  <2> QED
    BY <1>4, <2>4 DEF ChargeInsert, AckedSession, TypeOK
<1>5. CASE ChargeUpdate(s)
  BY <1>5 DEF ChargeUpdate, AckedSession, TypeOK
<1>6. CASE InternalUpdate(s)
  <2>1. PICK e \in Tally : e = Debit(arg[s].amt, arg[s].amt)
    BY EventsType
  <2>2. Flush(s, e) /\ e.deb = arg[s].amt
    BY <1>6, <2>1, DebitFields DEF InternalUpdate
  <2>3. pend'[s].deb = pend[s].deb + arg[s].amt
    BY <2>2, FlushSums
  <2> QED
    BY <1>6, <2>3 DEF InternalUpdate, AckedSession, TypeOK
<1>7. CASE DeadlockAbort(s)
  BY <1>7 DEF DeadlockAbort, EndTxn, AckedSession, TypeOK, Zero
<1> QED
  BY <1>1, <1>2, <1>3, <1>4, <1>5, <1>6, <1>7 DEF Step

(* The calls keep what a session acknowledged. *)
LEMMA AckedCall ==
  ASSUME TypeOK, NEW s \in Session, AckedSession(s), Call(s), TypeOK'
  PROVE  AckedSession(s)'
<1> USE DEF InReserve, Goto, committed, Start
<1> pend[s].deb \in Nat /\ acked[s] \in Nat /\ pend[s] \in Tally
  BY SessionType, TallyFields DEF TypeOK
<1>1. ASSUME NEW r \in ResId, NEW amt \in Amounts, ReserveBegin(s, r, amt)
      PROVE  AckedSession(s)'
  BY <1>1 DEF ReserveBegin, AckedSession, TypeOK, VisibleRes
<1>2. ASSUME NEW r \in ResId, NEW cost \in Costs, NEW key \in Key \cup {None},
             ChargeBegin(s, r, cost, key)
      PROVE  AckedSession(s)'
  <2>0. resAmt[r] \in Nat
    BY DEF TypeOK
  <2>1. PICK e \in Tally : e = [Zero EXCEPT !.rel = resAmt[r]]
    BY <2>0, EventsType
  <2>3. e.deb = 0
    BY <2>0, <2>1, ReleaseFields
  <2>2. pend'[s].deb = pend[s].deb
    <3>1. CASE Flush(s, e)
      BY <2>3, <3>1, FlushSums
    <3>2. CASE pend' = pend
      BY <3>2
    <3> QED
      BY <1>2, <2>1, <3>1, <3>2 DEF ChargeBegin
  <2> QED
    BY <1>2, <2>2 DEF ChargeBegin, AckedSession, TypeOK
<1>3. ASSUME NEW r \in ResId, Release(s, r)
      PROVE  AckedSession(s)'
  <2>0. resAmt[r] \in Nat
    BY DEF TypeOK
  <2>1. PICK e \in Tally : e = [Zero EXCEPT !.rel = resAmt[r]]
    BY <2>0, EventsType
  <2>3. e.deb = 0
    BY <2>0, <2>1, ReleaseFields
  <2>2. pend'[s].deb = pend[s].deb
    <3>1. Flush(s, e)
      BY <1>3, <2>1 DEF Release
    <3> QED
      BY <2>3, <3>1, FlushSums
  <2> QED
    BY <1>3, <2>2 DEF Release, AckedSession, TypeOK
<1>4. ASSUME NEW amt \in Amounts, InternalCheck(s, amt)
      PROVE  AckedSession(s)'
  BY <1>4 DEF InternalCheck, AckedSession, TypeOK
<1>5. ASSUME NEW amt \in Amounts, Credit(s, amt)
      PROVE  AckedSession(s)'
  <2>0. amt \in Nat
    BY AmountsAssumption
  <2>1. PICK e \in Tally : e = [Zero EXCEPT !.crd = amt]
    BY <2>0, EventsType
  <2>3. e.deb = 0
    BY <2>0, <2>1, CreditFields
  <2>2. pend'[s].deb = pend[s].deb
    <3>1. Flush(s, e)
      BY <1>5, <2>1 DEF Credit
    <3> QED
      BY <2>3, <3>1, FlushSums
  <2> QED
    BY <1>5, <2>2 DEF Credit, AckedSession, TypeOK
<1> QED
  BY <1>1, <1>2, <1>3, <1>4, <1>5 DEF Call

(* Every step keeps it, given the lock discipline: a reservation commits   *)
(* under the lock, so no session that has debited can have missed it.      *)
LEMMA AckedNext ==
  ASSUME ExposureInv, \A s \in Session : AckedSession(s), [Next]_vars
  PROVE  \A s \in Session : AckedSession(s)'
<1> TypeOK /\ TypeOK'
  BY TypeNext DEF ExposureInv
<1> SUFFICES ASSUME NEW t \in Session PROVE AckedSession(t)'
  OBVIOUS
<1>1. ASSUME NEW s \in Session, Step(s)
      PROVE  AckedSession(t)'
  <2>1. CASE t = s
    BY <1>1, <2>1, AckedStep
  <2>2. CASE t # s
    BY <1>1, <2>2, AckedFrame
    DEF Step, committed, Goto, Flush, EndTxn, TypeOK, ReserveLock, ReserveUsed, ReserveExhausted,
        ReserveInsert, ReserveDuplicate, ChargeRead, ChargeInsert, ChargeDuplicate, ChargeUpdate,
        InternalUpdate, DeadlockAbort
  <2> QED
    BY <2>1, <2>2
<1>2. ASSUME NEW s \in Session, Call(s)
      PROVE  AckedSession(t)'
  <2>1. CASE t = s
    BY <1>2, <2>1, AckedCall
  <2>2. CASE t # s
    <3>1. CASE \E r \in ResId, amt \in Amounts : ReserveBegin(s, r, amt)
      BY <2>2, <3>1, AckedFrame DEF ReserveBegin, committed, Goto, TypeOK
    <3>2. CASE \E r \in ResId, cost \in Costs, key \in Key \cup {None} : ChargeBegin(s, r, cost, key)
      BY <2>2, <3>2, AckedFrame DEF ChargeBegin, committed, Goto, Flush, TypeOK
    <3>3. CASE \E r \in ResId : Release(s, r)
      BY <2>2, <3>3, AckedFrame DEF Release, committed, Goto, Flush, TypeOK
    <3>4. CASE \E amt \in Amounts : InternalCheck(s, amt)
      BY <2>2, <3>4, AckedFrame DEF InternalCheck, committed, Goto, TypeOK
    <3>5. CASE \E amt \in Amounts : Credit(s, amt)
      BY <2>2, <3>5, AckedFrame DEF Credit, committed, Goto, Flush, TypeOK
    <3> QED
      BY <1>2, <3>1, <3>2, <3>3, <3>4, <3>5 DEF Call
  <2> QED
    BY <2>1, <2>2
<1>3. ASSUME NEW s \in Session, Commit(s)
      PROVE  AckedSession(t)'
  <2>1. CASE t = s
    BY <1>3, <2>1 DEF Commit, EndTxn, Goto, AckedSession, InReserve, TypeOK, Zero
  <2>2. CASE t # s
    <3>1. /\ pend'[t] = pend[t] /\ pc'[t] = pc[t] /\ arg'[t] = arg[t] /\ acked'[t] = acked[t]
          /\ reserved' = reserved \cup txn[s].res
      BY <1>3, <2>2 DEF Commit, EndTxn, Goto, TypeOK
    <3>2. txn[s].res # {} => lock = s
      BY DEF ExposureInv, SessionInv, LockDiscipline
    <3>3. lock = s /\ pc[t] \in InReserve => pend[t].deb = 0
      BY <2>2 DEF ExposureInv, SessionInv, LockDiscipline, InReserve
    <3> QED
      BY <3>1, <3>2, <3>3 DEF AckedSession
  <2> QED
    BY <2>1, <2>2
<1>4. ASSUME NEW s \in Session, Rollback(s)
      PROVE  AckedSession(t)'
  <2>1. CASE t = s
    BY <1>4, <2>1 DEF Rollback, EndTxn, Goto, AckedSession, InReserve, TypeOK, Zero
  <2>2. CASE t # s
    BY <1>4, <2>2, AckedFrame DEF Rollback, EndTxn, Goto, TypeOK, committed
  <2> QED
    BY <2>1, <2>2
<1>5. CASE BalanceCompute \/ BalanceCache \/ CacheExpire \/ UNCHANGED vars
  BY <1>5, AckedFrame DEF BalanceCompute, BalanceCache, CacheExpire, vars, committed
<1> QED
  BY <1>1, <1>2, <1>3, <1>4, <1>5 DEF Next

(* No operation throws away a debit its session has acknowledged and not   *)
(* yet committed.                                                          *)
THEOREM AcknowledgedDebitsKept == Spec => []AckedDebitsKept
<1> DEFINE Inv == ExposureInv /\ \A s \in Session : AckedSession(s)
<1>1. Init => Inv
  BY ExposureInit DEF Init, AckedSession, Zero, InReserve
<1>2. Inv /\ [Next]_vars => Inv'
  BY ExposureNext, AckedNext
<1>3. Inv => AckedDebitsKept
  BY DEF AckedSession, AckedDebitsKept, ExposureInv, TypeOK
<1> QED
  BY <1>1, <1>2, <1>3, PTL DEF Spec
=============================================================================
