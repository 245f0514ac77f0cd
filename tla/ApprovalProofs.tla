--------------------------- MODULE ApprovalProofs ---------------------------
(***************************************************************************)
(* Proofs about Approval, for every federation, any set of reviewers and   *)
(* any number of faults and resumes, unless a theorem says otherwise.      *)
(***************************************************************************)
EXTENDS Approval, FiniteSetTheorems, WellFoundedInduction, TLAPS

(* CrdtStatus and Records as functions of one node's records. *)
Decided(s) == {i \in DOMAIN s : s[i].status # "pending"}
InStore(s) == {s[i] : i \in DOMAIN s}
StatusOf(s) ==
    CASE s = <<>> -> "none"
      [] Decided(s) # {} -> s[CHOOSE i \in Decided(s) : \A j \in Decided(s) : j <= i].status
      [] OTHER -> "pending"

(* No record is in the store twice. *)
Distinct(s) == \A i, j \in DOMAIN s : s[i] = s[j] => i = j

(* The inductive form of the type invariant. *)
TypeInv ==
    /\ phase \in {"live", "late", "gone"}
    /\ redis \in [Node -> Status \cup {"none"}]
    /\ inSet \in [Node -> BOOLEAN]
    /\ store \in [Node -> Seq(Record)] /\ \A n \in Node : Distinct(store[n])
    /\ request \in {"new", "created", "twinned", "done"}
    /\ workflow \in [Node -> {"running", "awaiting", "failed", "shadow", "done", "repaused"}]
    /\ outcome \in [Node -> {"none", "executed", "skipped"}]
    /\ dpc \in [Decider -> {"start", "set", "twin", "fallback", "end"}]
    /\ jpc \in [Node -> {"idle", "mark", "twin", "fail", "scan", "drop"}]
    /\ handled \in [Node -> BOOLEAN]
    /\ orphan \in [Node -> BOOLEAN]
    /\ faults \in 0..MaxFaults
    /\ resumes \in 0..MaxResumes
    /\ acked \subseteq Decider
    /\ inTime \subseteq Decider

-----------------------------------------------------------------------------
(* The natural numbers are well ordered. *)
LEMMA LeastNat ==
  ASSUME NEW T \in SUBSET Nat, T # {}
  PROVE  \E x \in T : \A y \in T : x <= y
<1>1. PICK x \in T : \A y \in T : ~ (<<y, x>> \in OpToRel(<, Nat))
  BY WFMin, NatLessThanWellFounded
<1>2. \A y \in T : ~ (y < x)
  BY <1>1 DEF OpToRel
<1>3. QED
  BY <1>2

(* A bounded set of numbers has a greatest element. *)
LEMMA GreatestNat ==
  ASSUME NEW S \in SUBSET Nat, S # {}, NEW k \in Nat, \A i \in S : i <= k
  PROVE  \E i \in S : \A j \in S : j <= i
<1> DEFINE T == {m \in Nat : \E i \in S : m = k - i}
<1>1. T \in SUBSET Nat /\ T # {}
  <2>1. PICK i \in S : TRUE
    OBVIOUS
  <2>2. k - i \in Nat /\ \E j \in S : k - i = k - j
    BY <2>1
  <2>3. k - i \in T
    BY <2>2
  <2>4. QED
    BY <2>3
<1>2. PICK m \in T : \A y \in T : m <= y
  BY <1>1, LeastNat
<1>3. PICK i \in S : m = k - i
  BY <1>2
<1>4. \A j \in S : k - j \in T
  OBVIOUS
<1>5. \A j \in S : j <= i
  BY <1>2, <1>3, <1>4
<1>6. QED
  BY <1>5

(* find_many_by_request_id on a node's records: the newest decision exists *)
(* when there is any, and the status is one that a record has.             *)
LEMMA StatusOfIs ==
  ASSUME NEW s \in Seq(Record)
  PROVE  /\ InStore(s) \subseteq Record
         /\ StatusOf(s) = "none" <=> InStore(s) = {}
         /\ StatusOf(s) = "pending" <=> InStore(s) # {} /\ \A rec \in InStore(s) : rec.status = "pending"
         /\ StatusOf(s) \in Verdict <=> \E rec \in InStore(s) : rec.status # "pending"
         /\ StatusOf(s) \in Verdict => \E rec \in InStore(s) : rec.status = StatusOf(s)
         /\ StatusOf(s) \in Verdict \cup {"none", "pending"}
         /\ s = <<>> <=> InStore(s) = {}
<1>1. DOMAIN s = 1..Len(s) /\ Len(s) \in Nat /\ \A i \in DOMAIN s : s[i] \in Record
  OBVIOUS
<1>2. s = <<>> <=> InStore(s) = {}
  BY <1>1 DEF InStore
<1>3. InStore(s) \subseteq Record
  BY <1>1 DEF InStore
<1>4. \A rec \in Record : rec.status \in Verdict \cup {"pending"}
  BY DEF Record, Status
<1>5. "pending" \notin Verdict /\ "none" \notin Verdict
  BY DEF Verdict
<1>6. CASE s = <<>>
  <2>1. Decided(s) = {}
    BY <1>1, <1>6 DEF Decided
  <2>2. StatusOf(s) = "none"
    BY <1>6, <2>1, Zenon DEF StatusOf
  <2>3. QED
    BY <1>2, <1>3, <1>5, <1>6, <2>2
<1>7. CASE s # <<>> /\ Decided(s) = {}
  <2>1. StatusOf(s) = "pending"
    BY <1>7 DEF StatusOf
  <2>2. \A rec \in InStore(s) : rec.status = "pending"
    BY <1>7 DEF InStore, Decided
  <2>3. QED
    BY <1>2, <1>3, <1>5, <1>7, <2>1, <2>2
<1>8. CASE s # <<>> /\ Decided(s) # {}
  <2> DEFINE newest == CHOOSE i \in Decided(s) : \A j \in Decided(s) : j <= i
  <2>1. Decided(s) \in SUBSET Nat /\ \A i \in Decided(s) : i <= Len(s)
    BY <1>1 DEF Decided
  <2>2. \E i \in Decided(s) : \A j \in Decided(s) : j <= i
    BY <1>1, <1>8, <2>1, GreatestNat
  <2>3. newest \in Decided(s)
    BY <2>2
  <2>4. StatusOf(s) = s[newest].status
    BY <1>8 DEF StatusOf
  <2> HIDE DEF newest
  <2>5. s[newest] \in InStore(s) /\ s[newest].status # "pending"
    BY <2>3 DEF InStore, Decided
  <2>6. StatusOf(s) \in Verdict
    BY <1>3, <1>4, <2>4, <2>5
  <2>7. QED
    BY <1>2, <1>3, <1>5, <1>8, <2>4, <2>5, <2>6
<1>9. QED
  BY <1>6, <1>7, <1>8

(* The model's operators are these functions of the node's records. *)
LEMMA StoreOperators ==
  ASSUME NEW n \in Node
  PROVE  /\ CrdtStatus(n) = StatusOf(store[n]) /\ CrdtStatus(n)' = StatusOf(store'[n])
         /\ Records(n) = InStore(store[n]) /\ Records(n)' = InStore(store'[n])
BY DEF CrdtStatus, StatusOf, DecisionsOf, Decided, Records, InStore

(* CRDTStore.put adds one record to one node. *)
LEMMA PutEffect ==
  ASSUME TypeInv, NEW n \in Node, NEW rec \in Record, Put(n, rec)
  PROVE  /\ store' \in [Node -> Seq(Record)] /\ \A m \in Node : Distinct(store[m])'
         /\ \A m \in Node \ {n} : store'[m] = store[m]
         /\ InStore(store'[n]) = InStore(store[n]) \cup {rec}
<1> DEFINE s == store[n]
<1>1. s \in Seq(Record) /\ Distinct(s) /\ DOMAIN s = 1..Len(s) /\ Len(s) \in Nat
  BY DEF TypeInv
<1>2. CASE rec \in InStore(s)
  <2>1. store' = store
    BY <1>2, StoreOperators DEF Put
  <2>2. QED
    BY <1>2, <2>1 DEF TypeInv
<1>3. CASE rec \notin InStore(s)
  <2>1. store' = [store EXCEPT ![n] = Append(s, rec)]
    BY <1>3, StoreOperators DEF Put
  <2> DEFINE t == Append(s, rec)
  <2>2. /\ t \in Seq(Record) /\ DOMAIN t = 1..(Len(s) + 1)
        /\ \A i \in 1..Len(s) : t[i] = s[i]
        /\ t[Len(s) + 1] = rec
    BY <1>1
  <2>3. store' \in [Node -> Seq(Record)] /\ store'[n] = t /\ \A m \in Node \ {n} : store'[m] = store[m]
    BY <2>1, <2>2 DEF TypeInv
  <2> HIDE DEF t
  <2>4. InStore(t) = InStore(s) \cup {rec}
    <3>1. ASSUME NEW x \in InStore(t) PROVE x \in InStore(s) \cup {rec}
      <4>1. PICK i \in 1..(Len(s) + 1) : x = t[i]
        BY <2>2, <3>1 DEF InStore
      <4>2. i \in 1..Len(s) \/ i = Len(s) + 1
        BY <1>1, <4>1
      <4>3. QED
        BY <1>1, <2>2, <4>1, <4>2 DEF InStore
    <3>2. ASSUME NEW x \in InStore(s) PROVE x \in InStore(t)
      <4>1. PICK i \in 1..Len(s) : x = s[i]
        BY <1>1, <3>2 DEF InStore
      <4>2. i \in 1..(Len(s) + 1) /\ x = t[i]
        BY <1>1, <2>2, <4>1
      <4>3. QED
        BY <2>2, <4>2 DEF InStore
    <3>3. rec \in InStore(t)
      <4>1. Len(s) + 1 \in DOMAIN t
        BY <1>1, <2>2
      <4>2. QED
        BY <2>2, <4>1 DEF InStore
    <3>4. QED
      BY <3>1, <3>2, <3>3
  <2>5. Distinct(t)
    <3>1. ASSUME NEW i \in 1..(Len(s) + 1), NEW j \in 1..(Len(s) + 1), t[i] = t[j]
          PROVE  i = j
      <4>1. \A k \in 1..Len(s) : t[k] # rec
        BY <1>1, <1>3, <2>2 DEF InStore
      <4>2. (i \in 1..Len(s) \/ i = Len(s) + 1) /\ (j \in 1..Len(s) \/ j = Len(s) + 1)
        BY <1>1
      <4>3. CASE i \in 1..Len(s) /\ j \in 1..Len(s)
        BY <1>1, <2>2, <3>1, <4>3 DEF Distinct
      <4>4. QED
        BY <2>2, <3>1, <4>1, <4>2, <4>3
    <3>2. QED
      BY <2>2, <3>1 DEF Distinct
  <2>6. \A m \in Node : Distinct(store[m])'
    BY <2>3, <2>5 DEF TypeInv, Distinct
  <2>7. QED
    BY <2>3, <2>4, <2>6
<1>4. QED
  BY <1>2, <1>3

(* A store without repetitions has as many records as it is long. *)
LEMMA DistinctCount ==
  ASSUME NEW s \in Seq(Record), Distinct(s)
  PROVE  Cardinality(InStore(s)) = Len(s)
<1>1. Len(s) \in Nat /\ DOMAIN s = 1..Len(s)
  OBVIOUS
<1>2. s \in Bijection(1..Len(s), InStore(s))
  BY <1>1 DEF Bijection, Injection, Surjection, IsInjective, Distinct, InStore
<1>3. ExistsBijection(1..Len(s), InStore(s))
  BY <1>2 DEF ExistsBijection
<1>4. QED
  BY <1>1, <1>3, FS_CountingElements

-----------------------------------------------------------------------------
(* A best-effort write is the write, or one more fault and no write. *)
LEMMA BestEffortEffect ==
  ASSUME TypeInv, NEW n \in Node, NEW rec \in Record, BestEffort(Put(n, rec))
  PROVE  /\ store' \in [Node -> Seq(Record)] /\ \A m \in Node : Distinct(store[m])'
         /\ \A m \in Node \ {n} : store'[m] = store[m]
         /\ InStore(store'[n]) \in {InStore(store[n]), InStore(store[n]) \cup {rec}}
         /\ faults' \in 0..MaxFaults /\ (faults' = 0 => faults = 0)
         /\ faults' = faults => InStore(store'[n]) = InStore(store[n]) \cup {rec}
<1>1. CASE Put(n, rec) /\ UNCHANGED faults
  <2>1. faults' \in 0..MaxFaults /\ (faults' = 0 => faults = 0)
    BY <1>1 DEF TypeInv
  <2>2. QED
    BY <1>1, <2>1, PutEffect
<1>2. CASE faults < MaxFaults /\ faults' = faults + 1 /\ UNCHANGED store
  <2>1. faults' \in 0..MaxFaults /\ faults' # 0 /\ faults' # faults
    BY <1>2, BoundsAssumption DEF TypeInv
  <2>2. store' \in [Node -> Seq(Record)] /\ \A m \in Node : Distinct(store[m])'
    BY <1>2 DEF TypeInv, Distinct
  <2>3. QED
    BY <1>2, <2>1, <2>2
<1>3. QED
  BY <1>1, <1>2 DEF BestEffort

(* The twins that the handlers write are records. *)
LEMMA TwinsAreRecords ==
  /\ [status |-> "pending", by |-> Origin] \in Record
  /\ \A n \in Node : [status |-> "expired", by |-> n] \in Record
  /\ \A d \in Decider : /\ [status |-> d[2], by |-> d] \in Record
                       /\ d[1] \in Node /\ d[2] \in {"approved", "denied"}
BY OriginAssumption, DeciderAssumption DEF Record, Status, Verdict

LEMMA TypeInit == Init => TypeInv
<1>1. Distinct(<<>>) /\ <<>> \in Seq(Record)
  BY DEF Distinct
<1>2. QED
  BY <1>1, BoundsAssumption DEF Init, TypeInv, Distinct

LEMMA TypeNext == TypeInv /\ [Next]_vars => TypeInv'
<1> SUFFICES ASSUME TypeInv, [Next]_vars PROVE TypeInv'
  OBVIOUS
<1> USE DEF Verdict, Status
<1>0. UNCHANGED store => store' \in [Node -> Seq(Record)] /\ \A m \in Node : Distinct(store[m])'
  BY DEF TypeInv, Distinct
<1>1. CASE CreateRequest
  BY <1>0, <1>1, OriginAssumption DEF TypeInv, CreateRequest, deciderVars, janitorVars
<1>2. CASE TwinRequest
  BY <1>2, OriginAssumption, TwinsAreRecords, BestEffortEffect
  DEF TypeInv, TwinRequest, deciderVars, janitorVars
<1>3. CASE Park
  BY <1>0, <1>3, OriginAssumption DEF TypeInv, Park, deciderVars, janitorVars
<1>4. ASSUME NEW n \in Node, NEW withId \in BOOLEAN, Resume(n, withId)
      PROVE  TypeInv'
  <2>1. resumes' \in 0..MaxResumes
    BY <1>4, BoundsAssumption DEF TypeInv, Resume
  <2>2. QED
    BY <1>0, <1>4, <2>1 DEF TypeInv, Resume, deciderVars, janitorVars
<1>5. ASSUME NEW n \in Node, Gate(n)
      PROVE  TypeInv'
  <2>1. \/ /\ workflow' = [workflow EXCEPT ![n] = "done"]
           /\ \E o \in {"executed", "skipped"} : outcome' = [outcome EXCEPT ![n] = o]
        \/ workflow' = [workflow EXCEPT ![n] = "repaused"] /\ UNCHANGED outcome
    BY <1>5 DEF Gate
  <2>2. /\ workflow' \in [Node -> {"running", "awaiting", "failed", "shadow", "done", "repaused"}]
        /\ outcome' \in [Node -> {"none", "executed", "skipped"}]
    <3>1. CASE workflow' = [workflow EXCEPT ![n] = "repaused"] /\ UNCHANGED outcome
      BY <3>1 DEF TypeInv
    <3>2. ASSUME workflow' = [workflow EXCEPT ![n] = "done"],
                 NEW o \in {"executed", "skipped"}, outcome' = [outcome EXCEPT ![n] = o]
          PROVE  /\ workflow' \in [Node -> {"running", "awaiting", "failed", "shadow", "done", "repaused"}]
                 /\ outcome' \in [Node -> {"none", "executed", "skipped"}]
      BY <3>2 DEF TypeInv
    <3>3. QED
      BY <2>1, <3>1, <3>2
  <2>3. QED
    BY <1>0, <1>5, <2>2 DEF TypeInv, Gate, deciderVars, janitorVars
<1>6. ASSUME NEW d \in Decider, DecideRead(d)
      PROVE  TypeInv'
  <2>1. dpc' \in [Decider -> {"start", "set", "twin", "fallback", "end"}]
    BY <1>6 DEF TypeInv, DecideRead
  <2>2. QED
    BY <1>0, <1>6, <2>1 DEF TypeInv, DecideRead, requestVars, janitorVars
<1>7. ASSUME NEW d \in Decider, DecideSet(d)
      PROVE  TypeInv'
  BY <1>0, <1>7, TwinsAreRecords DEF TypeInv, DecideSet, requestVars, janitorVars
<1>8. ASSUME NEW d \in Decider, DecideTwin(d)
      PROVE  TypeInv'
  BY <1>8, TwinsAreRecords, BestEffortEffect
  DEF TypeInv, DecideTwin, Answer, requestVars, janitorVars
<1>9. ASSUME NEW d \in Decider, DecideFallback(d)
      PROVE  TypeInv'
  BY <1>9, TwinsAreRecords, PutEffect
  DEF TypeInv, DecideFallback, Answer, requestVars, janitorVars
<1>10. ASSUME NEW n \in Node, ListPending(n)
       PROVE  TypeInv'
  BY <1>0, <1>10 DEF TypeInv, ListPending, requestVars, deciderVars, janitorVars
<1>11. ASSUME NEW n \in Node, Evict(n)
       PROVE  TypeInv'
  BY <1>0, <1>11 DEF TypeInv, Evict, requestVars, deciderVars, janitorVars
<1>12. ASSUME NEW n \in Node, NEW m \in Node, Gossip(n, m)
       PROVE  TypeInv'
  <2>1. PICK rec \in Records(m) : Put(n, rec)
    BY <1>12 DEF Gossip
  <2>2. rec \in Record
    BY <2>1, StoreOperators, StatusOfIs DEF TypeInv
  <2>3. QED
    BY <1>12, <2>1, <2>2, PutEffect DEF TypeInv, Gossip, requestVars, deciderVars, janitorVars
<1>13. CASE Tick
  BY <1>0, <1>13 DEF TypeInv, Tick, requestVars, deciderVars, janitorVars
<1>14. ASSUME NEW n \in Node, ReapRedis(n)
       PROVE  TypeInv'
  <2>1. /\ handled' \in [Node -> BOOLEAN] /\ orphan' \in [Node -> BOOLEAN]
        /\ jpc' \in [Node -> {"idle", "mark", "twin", "fail", "scan", "drop"}]
    BY <1>14 DEF TypeInv, ReapRedis, JGoto
  <2>2. QED
    BY <1>0, <1>14, <2>1 DEF TypeInv, ReapRedis, requestVars, deciderVars
<1>15. ASSUME NEW n \in Node, MarkExpired(n)
       PROVE  TypeInv'
  BY <1>0, <1>15 DEF TypeInv, MarkExpired, JGoto, requestVars, deciderVars
<1>16. ASSUME NEW n \in Node, TwinExpired(n)
       PROVE  TypeInv'
  BY <1>16, TwinsAreRecords, BestEffortEffect
  DEF TypeInv, TwinExpired, JGoto, requestVars, deciderVars
<1>17. ASSUME NEW n \in Node, FailWorkflow(n)
       PROVE  TypeInv'
  <2>1. workflow' \in [Node -> {"running", "awaiting", "failed", "shadow", "done", "repaused"}]
    BY <1>17 DEF TypeInv, FailWorkflow
  <2>2. faults' \in 0..MaxFaults
    BY <1>17, BoundsAssumption DEF TypeInv, FailWorkflow
  <2>3. QED
    BY <1>0, <1>17, <2>1, <2>2 DEF TypeInv, FailWorkflow, JGoto, deciderVars
<1>18. ASSUME NEW n \in Node, ReapCrdt(n)
       PROVE  TypeInv'
  <2> DEFINE expire == CrdtPending(n) /\ Expired
  <2>1. expire \in BOOLEAN
    BY DEF CrdtPending, Expired
  <2>2. /\ handled' = [handled EXCEPT ![n] = expire]
        /\ jpc' = [jpc EXCEPT ![n] = IF expire THEN "mark" ELSE "drop"]
    BY <1>18 DEF ReapCrdt, JGoto
  <2> HIDE DEF expire
  <2>3. QED
    BY <1>0, <1>18, <2>1, <2>2 DEF TypeInv, ReapCrdt, requestVars, deciderVars
<1>19. ASSUME NEW n \in Node, DropOrphan(n)
       PROVE  TypeInv'
  <2>1. inSet' \in [Node -> BOOLEAN]
    BY <1>19 DEF TypeInv, DropOrphan
  <2>2. QED
    BY <1>0, <1>19, <2>1 DEF TypeInv, DropOrphan, JGoto, requestVars, deciderVars
<1>20. CASE UNCHANGED vars
  BY <1>0, <1>20 DEF TypeInv, vars
<1>21. QED
  BY <1>1, <1>2, <1>3, <1>4, <1>5, <1>6, <1>7, <1>8, <1>9, <1>10, <1>11, <1>12, <1>13,
     <1>14, <1>15, <1>16, <1>17, <1>18, <1>19, <1>20 DEF Next, Janitor

(* What the other proofs rest on. *)
LEMMA TypeAlways == Spec => []TypeInv
BY TypeInit, TypeNext, PTL DEF Spec

(* Every handler, janitor pass and gossip pull keeps the request's state   *)
(* well formed on every node; in particular no store ever holds a record   *)
(* twice (CRDTStore.put does not write a record again).                    *)
THEOREM ApprovalTypeCorrect == Spec => []TypeOK
<1>1. TypeInv => TypeOK
  BY StoreOperators, DistinctCount DEF TypeInv, TypeOK
<1>2. QED
  BY <1>1, TypeAlways, PTL

-----------------------------------------------------------------------------
(* Nobody has answered and the request is live: no reviewer's SET is       *)
(* waiting for its twin, and no 200 was sent.                              *)
Unanswered == phase = "live" /\ acked = {} /\ \A d \in Decider : dpc[d] # "twin"

(* Then no trace of a decision is anywhere: not in a key, not in a store,  *)
(* not in a janitor, and the originating node still has the key.           *)
NoDecisionYet ==
    /\ \A n \in Node : outcome[n] # "executed"
    /\ \A n \in Node : \A rec \in InStore(store[n]) : rec.status = "pending"
    /\ \A n \in Node : redis[n] \in {"pending", "none"}
    /\ request # "new" => redis[Origin] = "pending"
    /\ \A n \in Node : jpc[n] \notin {"mark", "twin", "fail"}

(* What one step of the gate does to a node's task. *)
LEMMA GateEffect ==
  ASSUME TypeInv, NEW n \in Node, Gate(n)
  PROVE  /\ \A m \in Node \ {n} : outcome'[m] = outcome[m] /\ workflow'[m] = workflow[m]
         /\ workflow'[n] \in {"done", "repaused"}
         /\ outcome'[n] = "executed" =>
               \/ outcome[n] = "executed"
               \/ StatusOf(store[n]) \in {"approved", "expired"}
<1>1. DecisionForNode(n) \in {StatusOf(store[n]), "none"}
  BY StoreOperators DEF DecisionForNode
<1>2. CASE DecisionForNode(n) \in {"approved", "expired"} /\ workflow' = [workflow EXCEPT ![n] = "done"]
             /\ outcome' = [outcome EXCEPT ![n] = "executed"]
  BY <1>1, <1>2 DEF TypeInv
<1>3. CASE workflow' = [workflow EXCEPT ![n] = "done"] /\ outcome' = [outcome EXCEPT ![n] = "skipped"]
  BY <1>3 DEF TypeInv
<1>4. CASE workflow' = [workflow EXCEPT ![n] = "repaused"] /\ UNCHANGED outcome
  BY <1>4 DEF TypeInv
<1>5. QED
  BY <1>2, <1>3, <1>4 DEF Gate

LEMMA NoDecisionYetNext ==
  ASSUME TypeInv, Unanswered => NoDecisionYet, [Next]_vars, Unanswered'
  PROVE  NoDecisionYet'
<1>0. UNCHANGED store =>
        \A n \in Node : InStore(store[n])' = InStore(store[n])
  OBVIOUS
<1>a. Unanswered =>
        \A n \in Node : StatusOf(store[n]) \notin Verdict
  BY StatusOfIs DEF TypeInv, NoDecisionYet
<1>1. CASE CreateRequest
  <2>1. Unanswered
    BY <1>1 DEF CreateRequest, Unanswered, deciderVars
  <2>2. QED
    BY <1>0, <1>1, <2>1, OriginAssumption
    DEF TypeInv, CreateRequest, NoDecisionYet, janitorVars
<1>2. CASE TwinRequest
  <2>1. Unanswered
    BY <1>2 DEF TwinRequest, Unanswered, deciderVars
  <2>2. \A n \in Node : \A rec \in InStore(store[n])' : rec.status = "pending"
    <3> DEFINE twin == [status |-> "pending", by |-> Origin]
    <3>1. twin \in Record /\ twin.status = "pending" /\ BestEffort(Put(Origin, twin))
      BY <1>2, TwinsAreRecords DEF TwinRequest
    <3> HIDE DEF twin
    <3>2. \A n \in Node : InStore(store[n])' \subseteq InStore(store[n]) \cup {twin}
      BY <3>1, OriginAssumption, BestEffortEffect
    <3>3. QED
      BY <2>1, <3>1, <3>2 DEF NoDecisionYet
  <2>3. QED
    BY <1>2, <2>1, <2>2 DEF TwinRequest, NoDecisionYet, janitorVars
<1>3. CASE Park
  <2>1. Unanswered
    BY <1>3 DEF Park, Unanswered, deciderVars
  <2>2. UNCHANGED outcome
    BY <1>3, <2>1 DEF Park, NoDecisionYet, CheckStatus
  <2>3. QED
    BY <1>0, <1>3, <2>1, <2>2 DEF Park, NoDecisionYet, janitorVars
<1>4. ASSUME NEW n \in Node, NEW withId \in BOOLEAN, Resume(n, withId)
      PROVE  NoDecisionYet'
  <2>1. Unanswered
    BY <1>4 DEF Resume, Unanswered, deciderVars
  <2>2. QED
    BY <1>0, <1>4, <2>1 DEF Resume, NoDecisionYet, janitorVars
<1>5. ASSUME NEW n \in Node, Gate(n)
      PROVE  NoDecisionYet'
  <2>1. Unanswered
    BY <1>5 DEF Gate, Unanswered, deciderVars
  <2>2. \A m \in Node : outcome'[m] # "executed"
    BY <1>5, <1>a, <2>1, GateEffect DEF NoDecisionYet, Verdict
  <2>3. QED
    BY <1>0, <1>5, <2>1, <2>2 DEF Gate, NoDecisionYet, janitorVars
<1>6. ASSUME NEW d \in Decider, DecideRead(d)
      PROVE  NoDecisionYet'
  <2>1. Unanswered
    BY <1>6 DEF DecideRead, Unanswered, TypeInv
  <2>2. QED
    BY <1>0, <1>6, <2>1 DEF DecideRead, NoDecisionYet, requestVars, janitorVars
<1>7. ASSUME NEW d \in Decider, DecideSet(d)
      PROVE  NoDecisionYet'
  BY <1>7 DEF DecideSet, Unanswered, TypeInv
<1>8. ASSUME NEW d \in Decider, DecideTwin(d) \/ DecideFallback(d)
      PROVE  NoDecisionYet'
  BY <1>8 DEF DecideTwin, DecideFallback, Answer, Unanswered
<1>9. ASSUME NEW n \in Node, ListPending(n)
      PROVE  NoDecisionYet'
  <2>1. Unanswered
    BY <1>9 DEF ListPending, Unanswered, deciderVars
  <2>2. QED
    BY <1>0, <1>9, <2>1 DEF ListPending, NoDecisionYet, requestVars, janitorVars
<1>10. ASSUME NEW n \in Node, Evict(n)
       PROVE  NoDecisionYet'
  <2>1. Unanswered /\ n # Origin
    BY <1>10 DEF Evict, Unanswered, deciderVars
  <2>2. QED
    BY <1>0, <1>10, <2>1, OriginAssumption DEF TypeInv, Evict, NoDecisionYet, requestVars, janitorVars
<1>11. ASSUME NEW n \in Node, NEW m \in Node, Gossip(n, m)
       PROVE  NoDecisionYet'
  <2>1. Unanswered
    BY <1>11 DEF Gossip, Unanswered, deciderVars
  <2>2. PICK rec \in InStore(store[m]) : Put(n, rec)
    BY <1>11, StoreOperators DEF Gossip
  <2>3. rec \in Record /\ rec.status = "pending"
    BY <2>1, <2>2, StatusOfIs DEF TypeInv, NoDecisionYet
  <2>4. \A k \in Node : \A x \in InStore(store[k])' : x.status = "pending"
    <3>1. \A k \in Node : InStore(store[k])' \subseteq InStore(store[k]) \cup {rec}
      BY <2>2, <2>3, PutEffect
    <3>2. QED
      BY <2>1, <2>3, <3>1 DEF NoDecisionYet
  <2>5. QED
    BY <1>11, <2>1, <2>4 DEF Gossip, NoDecisionYet, requestVars, janitorVars
<1>12. CASE Tick
  BY <1>12 DEF Tick, Unanswered
<1>13. ASSUME NEW n \in Node, Janitor(n)
       PROVE  NoDecisionYet'
  <2>1. Unanswered
    BY <1>13 DEF Janitor, ReapRedis, MarkExpired, TwinExpired, FailWorkflow, ReapCrdt,
                 DropOrphan, Unanswered, deciderVars
  <2>2. jpc[n] \notin {"mark", "twin", "fail"} /\ ~ Expired
    BY <2>1 DEF NoDecisionYet, Unanswered, Expired
  <2>3. CASE ReapRedis(n)
    <3>1. handled'[n] = FALSE
      BY <2>2, <2>3 DEF ReapRedis, TypeInv
    <3>2. jpc' = [jpc EXCEPT ![n] = "scan"]
      BY <2>3, <3>1 DEF ReapRedis, JGoto
    <3>3. QED
      BY <1>0, <2>1, <2>3, <3>2 DEF TypeInv, ReapRedis, NoDecisionYet, requestVars
  <2>4. CASE ReapCrdt(n)
    <3>1. jpc' = [jpc EXCEPT ![n] = "drop"]
      BY <2>2, <2>4 DEF ReapCrdt, JGoto
    <3>2. QED
      BY <1>0, <2>1, <2>4, <3>1 DEF TypeInv, ReapCrdt, NoDecisionYet, requestVars
  <2>5. CASE DropOrphan(n)
    BY <1>0, <2>1, <2>5 DEF TypeInv, DropOrphan, JGoto, NoDecisionYet, requestVars
  <2>6. QED
    BY <1>13, <2>2, <2>3, <2>4, <2>5 DEF Janitor, MarkExpired, TwinExpired, FailWorkflow
<1>14. CASE UNCHANGED vars
  <2>1. Unanswered
    BY <1>14 DEF vars, Unanswered
  <2>2. QED
    BY <1>0, <1>14, <2>1 DEF vars, NoDecisionYet
<1>15. QED
  BY <1>1, <1>2, <1>3, <1>4, <1>5, <1>6, <1>7, <1>8, <1>9, <1>10, <1>11, <1>12, <1>13, <1>14
  DEF Next

(* On any federation, whatever is resumed wherever and however often, and  *)
(* whatever fails: while the request is live and no reviewer has answered, *)
(* no node has run the gated task.                                         *)
THEOREM NothingEverRunsUnanswered == Spec => []NothingRunsUnanswered
<1> DEFINE Inv == Unanswered => NoDecisionYet
<1>1. Init => Inv
  <2>1. InStore(<<>>) = {}
    BY DEF InStore
  <2>2. QED
    BY <2>1, OriginAssumption DEF Init, NoDecisionYet
<1>2. TypeInv /\ Inv /\ [Next]_vars => Inv'
  BY NoDecisionYetNext
<1>3. Inv => NothingRunsUnanswered
  BY DEF Unanswered, NoDecisionYet, NothingRunsUnanswered, Expired
<1> HIDE DEF Inv
<1>4. QED
  BY <1>1, <1>2, <1>3, TypeAlways, PTL DEF Spec

-----------------------------------------------------------------------------
(* The records of the originating node. *)
Held == InStore(store[Origin])

JanitorBusy == jpc[Origin] \in {"mark", "twin", "fail"}

(* On a node of its own: before expires_at nothing there says "expired".   *)
LiveClean ==
    phase = "live" =>
        /\ ~ JanitorBusy /\ redis[Origin] # "expired" /\ workflow[Origin] # "failed"
        /\ \A rec \in Held : rec.status # "expired"

(* Where the request and the reviewers' calls are tells what the key says. *)
CallsInStep ==
    /\ redis[Origin] = "none" => phase = "gone" \/ request = "new"
    /\ request = "new" =>
          redis[Origin] = "none" /\ Held = {} /\ \A d \in Decider : dpc[d] \in {"start", "end"}
    /\ \A d \in Decider : dpc[d] = "fallback" => phase = "gone"
    /\ \A d \in Decider : dpc[d] = "twin" => redis[Origin] # "pending"

(* An approval in the store was answered with 200. *)
ApprovalsAnswered == (\E rec \in Held : rec.status = "approved") => Approvals(acked) # {}

(* A decision made in time stays in the store, keeps the janitor away, and *)
(* nothing there says "expired" any more.                                  *)
InTimeHeld ==
    inTime # {} =>
        /\ ~ JanitorBusy /\ redis[Origin] \notin {"pending", "expired"} /\ workflow[Origin] # "failed"
        /\ \E rec \in Held : rec.status # "pending"
        /\ \A rec \in Held : rec.status # "expired"

(* A parked workflow has not run its task, and nothing is decided in time  *)
(* before it is parked; afterwards it takes an approval to run it.         *)
ParkedFirst ==
    /\ workflow[Origin] = "awaiting" => outcome[Origin] = "none" /\ request = "done"
    /\ request # "done" => phase = "live" /\ inTime = {} /\ outcome[Origin] = "none"
    /\ inTime # {} /\ Approvals(acked) = {} => outcome[Origin] # "executed"

SingleInv == LiveClean /\ CallsInStep /\ ApprovalsAnswered /\ InTimeHeld /\ ParkedFirst

LEMMA SingleInit == Init => SingleInv
<1>1. InStore(<<>>) = {}
  BY DEF InStore
<1>2. QED
  BY <1>1, OriginAssumption
  DEF Init, SingleInv, LiveClean, CallsInStep, ApprovalsAnswered, InTimeHeld, ParkedFirst, Held, JanitorBusy

LEMMA SingleNext ==
  ASSUME Node = {Origin}, TypeInv, SingleInv, [Next]_vars
  PROVE  SingleInv'
<1> USE OriginAssumption
<1> USE DEF SingleInv, LiveClean, CallsInStep, ApprovalsAnswered, InTimeHeld, ParkedFirst, JanitorBusy
<1>0. UNCHANGED store => UNCHANGED Held
  BY DEF Held
<1>d. \A d \in Decider : d[1] = Origin /\ d[2] \in {"approved", "denied"}
  BY TwinsAreRecords
<1>h. /\ \A rec \in Held : rec \in Record
      /\ CrdtStatus(Origin) = "pending" => Held # {} /\ \A rec \in Held : rec.status = "pending"
      /\ CrdtStatus(Origin) \in Verdict => \E rec \in Held : rec.status = CrdtStatus(Origin)
  BY StatusOfIs, StoreOperators DEF TypeInv, Held
<1>1. CASE CreateRequest
  BY <1>0, <1>1 DEF TypeInv, CreateRequest, deciderVars, janitorVars
<1>2. CASE TwinRequest
  <2> DEFINE twin == [status |-> "pending", by |-> Origin]
  <2>1. twin.status = "pending" /\ Held' \in {Held, Held \cup {twin}}
    BY <1>2, TwinsAreRecords, BestEffortEffect DEF TwinRequest, Held
  <2> HIDE DEF twin
  <2>2. QED
    BY <1>2, <2>1 DEF TwinRequest, deciderVars, janitorVars
<1>3. CASE Park
  BY <1>0, <1>3 DEF TypeInv, Park, CheckStatus, deciderVars, janitorVars
<1>4. ASSUME NEW n \in Node, NEW withId \in BOOLEAN, Resume(n, withId)
      PROVE  SingleInv'
  BY <1>0, <1>4 DEF TypeInv, Resume, deciderVars, janitorVars
<1>5. ASSUME NEW n \in Node, Gate(n)
      PROVE  SingleInv'
  <2>1. n = Origin
    OBVIOUS
  <2>2. /\ workflow'[Origin] \in {"done", "repaused"}
        /\ outcome'[Origin] = "executed" =>
               outcome[Origin] = "executed" \/ CrdtStatus(Origin) \in {"approved", "expired"}
    BY <1>5, <2>1, GateEffect, StoreOperators
  <2>3. outcome'[Origin] = "executed" /\ inTime # {} /\ Approvals(acked) = {} => outcome[Origin] = "executed"
    BY <1>h, <2>2 DEF Verdict
  <2>4. QED
    BY <1>0, <1>5, <2>2, <2>3 DEF Gate, deciderVars, janitorVars
<1>6. ASSUME NEW d \in Decider, DecideRead(d)
      PROVE  SingleInv'
  <2>1. /\ dpc'[d] \in {"set", "fallback", "end"} /\ \A e \in Decider \ {d} : dpc'[e] = dpc[e]
        /\ dpc'[d] = "set" => redis[Origin] = "pending"
        /\ dpc'[d] = "fallback" => redis[Origin] = "none" /\ CrdtStatus(Origin) = "pending"
    BY <1>6, <1>d DEF TypeInv, DecideRead, CrdtPending
  <2>2. QED
    BY <1>0, <1>6, <1>h, <2>1 DEF DecideRead, requestVars, janitorVars
<1>7. ASSUME NEW d \in Decider, DecideSet(d)
      PROVE  SingleInv'
  BY <1>0, <1>7, <1>d DEF TypeInv, DecideSet, requestVars, janitorVars
<1>8. ASSUME NEW d \in Decider, DecideTwin(d) \/ DecideFallback(d)
      PROVE  SingleInv'
  <2> DEFINE twin == [status |-> d[2], by |-> d]
  <2>1. /\ twin.status = d[2] /\ Held' \in {Held, Held \cup {twin}}
        /\ store' # store => twin \in Held'
    <3>1. twin \in Record /\ twin.status = d[2]
      BY TwinsAreRecords
    <3>2. CASE Put(Origin, twin)
      BY <3>1, <3>2, PutEffect DEF Held
    <3>3. CASE BestEffort(Put(Origin, twin))
      <4>1. UNCHANGED store \/ Put(Origin, twin)
        BY <3>3 DEF BestEffort
      <4>2. QED
        BY <1>0, <3>1, <3>2, <4>1
    <3>4. QED
      BY <1>8, <1>d, <3>1, <3>2, <3>3 DEF DecideTwin, DecideFallback
  <2> HIDE DEF twin
  <2>2. /\ dpc' = [dpc EXCEPT ![d] = "end"]
        /\ acked' = acked \cup {d}
        /\ inTime' # inTime => phase = "live" /\ workflow[Origin] = "awaiting" /\ store' # store
        /\ UNCHANGED <<phase, redis, inSet, requestVars, janitorVars>>
    BY <1>8 DEF DecideTwin, DecideFallback, Answer
  <2>3. Approvals(acked) \subseteq Approvals(acked') /\ (d[2] = "approved" => Approvals(acked') # {})
    BY <2>2 DEF Approvals
  <2>4. d[2] # "expired" /\ d[2] # "pending"
    BY <1>d
  <2>5. LiveClean' /\ CallsInStep' /\ ApprovalsAnswered'
    BY <1>8, <2>1, <2>2, <2>3, <2>4
    DEF TypeInv, requestVars, janitorVars, DecideTwin, DecideFallback
  <2>6. InTimeHeld'
    BY <1>8, <2>1, <2>2, <2>4 DEF TypeInv, requestVars, janitorVars, DecideTwin, DecideFallback
  <2>7. ParkedFirst'
    BY <1>8, <2>2, <2>3 DEF TypeInv, requestVars, janitorVars
  <2>8. QED
    BY <2>5, <2>6, <2>7
<1>9. ASSUME NEW n \in Node, ListPending(n)
      PROVE  SingleInv'
  BY <1>0, <1>9 DEF ListPending, requestVars, deciderVars, janitorVars
<1>10. ASSUME NEW n \in Node, Evict(n)
       PROVE  SingleInv'
  BY <1>0, <1>10 DEF TypeInv, Evict, requestVars, deciderVars, janitorVars
<1>11. ASSUME NEW n \in Node, NEW m \in Node, Gossip(n, m)
       PROVE  SingleInv'
  BY <1>11 DEF Gossip
<1>12. CASE Tick
  BY <1>0, <1>12 DEF Tick, requestVars, deciderVars, janitorVars
<1>13. ASSUME NEW n \in Node, ReapRedis(n)
       PROVE  SingleInv'
  <2>1. jpc'[Origin] \in {"mark", "scan"} /\ (jpc'[Origin] = "mark" => redis[Origin] = "pending" /\ Expired)
    BY <1>13 DEF TypeInv, ReapRedis, JGoto
  <2>2. QED
    BY <1>0, <1>13, <2>1 DEF ReapRedis, Expired, requestVars, deciderVars
<1>14. ASSUME NEW n \in Node, MarkExpired(n)
       PROVE  SingleInv'
  BY <1>0, <1>14 DEF TypeInv, MarkExpired, JGoto, requestVars, deciderVars
<1>15. ASSUME NEW n \in Node, TwinExpired(n)
       PROVE  SingleInv'
  <2> DEFINE twin == [status |-> "expired", by |-> Origin]
  <2>1. twin.status = "expired" /\ Held' \in {Held, Held \cup {twin}}
    BY <1>15, TwinsAreRecords, BestEffortEffect DEF TwinExpired, Held
  <2> HIDE DEF twin
  <2>2. QED
    BY <1>15, <2>1 DEF TypeInv, TwinExpired, JGoto, requestVars, deciderVars
<1>16. ASSUME NEW n \in Node, FailWorkflow(n)
       PROVE  SingleInv'
  BY <1>0, <1>16 DEF TypeInv, FailWorkflow, JGoto, deciderVars
<1>17. ASSUME NEW n \in Node, ReapCrdt(n)
       PROVE  SingleInv'
  <2>1. jpc'[Origin] \in {"mark", "drop"}
        /\ (jpc'[Origin] = "mark" => CrdtStatus(Origin) = "pending" /\ Expired)
    BY <1>17 DEF TypeInv, ReapCrdt, JGoto, CrdtPending
  <2>2. QED
    BY <1>0, <1>17, <1>h, <2>1 DEF ReapCrdt, Expired, requestVars, deciderVars
<1>18. ASSUME NEW n \in Node, DropOrphan(n)
       PROVE  SingleInv'
  BY <1>0, <1>18 DEF TypeInv, DropOrphan, JGoto, requestVars, deciderVars
<1>19. CASE UNCHANGED vars
  BY <1>0, <1>19 DEF vars
<1>20. QED
  BY <1>1, <1>2, <1>3, <1>4, <1>5, <1>6, <1>7, <1>8, <1>9, <1>10, <1>11, <1>12, <1>13,
     <1>14, <1>15, <1>16, <1>17, <1>18, <1>19 DEF Next, Janitor

LEMMA SingleAlways == ASSUME Node = {Origin} PROVE Spec => []SingleInv
<1>1. TypeInv /\ SingleInv /\ [Next]_vars => SingleInv'
  BY SingleNext
<1>2. QED
  BY <1>1, SingleInit, TypeAlways, PTL DEF Spec

(* On a node of its own, with any reviewers, faults, resumes and timing: a *)
(* task that was denied while the workflow was parked and the request      *)
(* live, and that nobody approved, is never executed.                      *)
THEOREM DenialsAreHonoured == ASSUME Node = {Origin} PROVE Spec => []DenialHonoured
<1>1. SingleInv => DenialHonoured
  BY DEF SingleInv, ParkedFirst, DenialHonoured, Denials
<1>2. QED
  BY <1>1, SingleAlways, PTL

(* On a node of its own, a decision that reached both stores in time is    *)
(* never turned into a timeout: no tick of the janitor reports the request *)
(* expired or fails the workflow afterwards, even when the key is evicted. *)
THEOREM InTimeAlwaysKept == ASSUME Node = {Origin} PROVE Spec => []InTimeKept
<1>1. TypeInv /\ SingleInv => InTimeKept
  <2> SUFFICES ASSUME TypeInv, SingleInv, inTime # {}
               PROVE  Merged(Origin) # "expired" /\ workflow[Origin] # "failed"
    BY DEF InTimeKept
  <2>1. CrdtStatus(Origin) # "expired"
    BY OriginAssumption, StatusOfIs, StoreOperators
    DEF TypeInv, SingleInv, InTimeHeld, Held, Verdict
  <2>2. QED
    BY <2>1 DEF SingleInv, InTimeHeld, Merged
<1>2. QED
  BY <1>1, SingleAlways, TypeAlways, PTL

-----------------------------------------------------------------------------
(* _merged_approval_status as a function of the key and the records. *)
MergedOf(r, s) ==
    IF r = "none" \/ (r = "pending" /\ StatusOf(s) \notin {"none", "pending"}) THEN StatusOf(s) ELSE r

HasDecision(s) == \E rec \in InStore(s) : rec.status # "pending"

LEMMA MergedIs ==
  ASSUME NEW n \in Node
  PROVE  Merged(n) = MergedOf(redis[n], store[n]) /\ Merged(n)' = MergedOf(redis'[n], store'[n])
BY StoreOperators DEF Merged, MergedOf

(* A request is reported as decided exactly when the key or a record says  *)
(* so.                                                                     *)
LEMMA MergedDecided ==
  ASSUME NEW r \in Status \cup {"none"}, NEW s \in Seq(Record)
  PROVE  MergedOf(r, s) \in Verdict <=> r \in Verdict \/ HasDecision(s)
<1>1. StatusOf(s) \in Verdict <=> HasDecision(s)
  BY StatusOfIs DEF HasDecision
<1>2. StatusOf(s) \in Verdict \cup {"none", "pending"}
  BY StatusOfIs
<1>3. "none" \notin Verdict /\ "pending" \notin Verdict
  BY DEF Verdict
<1>4. QED
  BY <1>1, <1>2, <1>3 DEF MergedOf, Status

(* No step takes a record out of a store. *)
LEMMA StoreGrows ==
  ASSUME TypeInv, [Next]_vars, NEW k \in Node
  PROVE  InStore(store[k]) \subseteq InStore(store'[k])
<1>1. ASSUME NEW n \in Node, NEW rec \in Record, Put(n, rec) \/ BestEffort(Put(n, rec))
      PROVE  InStore(store[k]) \subseteq InStore(store'[k])
  <2>1. Put(n, rec) \/ UNCHANGED store
    BY <1>1 DEF BestEffort
  <2>2. QED
    BY <2>1, PutEffect
<1>2. CASE UNCHANGED store
  BY <1>2
<1>3. CASE TwinRequest
  BY <1>1, <1>3, OriginAssumption, TwinsAreRecords DEF TwinRequest
<1>4. ASSUME NEW d \in Decider, DecideTwin(d) \/ DecideFallback(d)
      PROVE  InStore(store[k]) \subseteq InStore(store'[k])
  BY <1>1, <1>4, TwinsAreRecords DEF DecideTwin, DecideFallback
<1>5. ASSUME NEW n \in Node, TwinExpired(n)
      PROVE  InStore(store[k]) \subseteq InStore(store'[k])
  BY <1>1, <1>5, TwinsAreRecords DEF TwinExpired
<1>6. ASSUME NEW n \in Node, NEW m \in Node, Gossip(n, m)
      PROVE  InStore(store[k]) \subseteq InStore(store'[k])
  <2>1. PICK rec \in InStore(store[m]) : Put(n, rec)
    BY <1>6, StoreOperators DEF Gossip
  <2>2. rec \in Record
    BY <2>1, StatusOfIs DEF TypeInv
  <2>3. QED
    BY <1>1, <2>1, <2>2
<1>7. UNCHANGED store \/ TwinRequest
      \/ (\E d \in Decider : DecideTwin(d) \/ DecideFallback(d))
      \/ (\E n \in Node : TwinExpired(n)) \/ (\E n \in Node, m \in Node : Gossip(n, m))
  BY Zenon DEF Next, vars, Janitor, CreateRequest, Park, Resume, Gate, DecideRead, DecideSet, ListPending,
         ReapRedis, MarkExpired, FailWorkflow, ReapCrdt, DropOrphan, Evict, Tick
<1>8. QED
  BY <1>2, <1>3, <1>4, <1>5, <1>6, <1>7

(* A verdict in a key has its twin in the store, or the handler that wrote *)
(* the key is about to write it.                                           *)
TwinFollows ==
    faults = 0 => \A n \in Node : redis[n] \in Verdict =>
        HasDecision(store[n]) \/ jpc[n] = "twin" \/ \E d \in Decider : d[1] = n /\ dpc[d] = "twin"

(* With prompt reviewers their calls are over before the request expires;  *)
(* a key says "pending" on the originating node only.                      *)
PromptCalls ==
    /\ \A d \in Decider : dpc[d] \notin {"start", "end"} => phase = "live"
    /\ \A n \in Node : redis[n] = "pending" => n = Origin
    /\ \A d \in Decider : dpc[d] \in {"set", "twin"} => d[1] = Origin
    /\ \A n \in Node : jpc[n] \in {"mark", "twin", "fail"} => phase # "live"
    /\ request # "done" => phase = "live"
    /\ request = "new" => redis[Origin] = "none" /\ \A d \in Decider : dpc[d] \notin {"set", "twin"}

LEMMA PromptCallsNext ==
  ASSUME Prompt, TypeInv, PromptCalls, [Next]_vars
  PROVE  PromptCalls'
<1> USE OriginAssumption DEF PromptCalls, TypeInv
<1>d. \A d \in Decider : d[1] \in Node /\ d[2] \in {"approved", "denied"}
  BY TwinsAreRecords
<1>1. CASE CreateRequest
  BY <1>1 DEF CreateRequest, deciderVars, janitorVars
<1>2. CASE TwinRequest
  BY <1>2 DEF TwinRequest, deciderVars, janitorVars
<1>3. CASE Park
  BY <1>3 DEF Park, deciderVars, janitorVars
<1>4. ASSUME NEW n \in Node, NEW withId \in BOOLEAN, Resume(n, withId)
      PROVE  PromptCalls'
  BY <1>4 DEF Resume, deciderVars, janitorVars
<1>5. ASSUME NEW n \in Node, Gate(n)
      PROVE  PromptCalls'
  BY <1>5 DEF Gate, deciderVars, janitorVars
<1>6. ASSUME NEW d \in Decider, DecideRead(d)
      PROVE  PromptCalls'
  <2>1. /\ dpc'[d] \in {"set", "fallback", "end"} /\ \A e \in Decider \ {d} : dpc'[e] = dpc[e]
        /\ dpc'[d] = "set" => redis[d[1]] = "pending"
    BY <1>6 DEF DecideRead
  <2>2. QED
    BY <1>6, <1>d, <2>1 DEF DecideRead, requestVars, janitorVars
<1>7. ASSUME NEW d \in Decider, DecideSet(d)
      PROVE  PromptCalls'
  BY <1>7, <1>d DEF DecideSet, requestVars, janitorVars
<1>8. ASSUME NEW d \in Decider, DecideTwin(d) \/ DecideFallback(d)
      PROVE  PromptCalls'
  <2>1. /\ dpc' = [dpc EXCEPT ![d] = "end"]
        /\ UNCHANGED <<phase, redis, requestVars, janitorVars>>
    BY <1>8 DEF DecideTwin, DecideFallback, Answer
  <2>2. QED
    BY <2>1, <1>d DEF requestVars, janitorVars
<1>9. ASSUME NEW n \in Node, ListPending(n)
      PROVE  PromptCalls'
  BY <1>9 DEF ListPending, requestVars, deciderVars, janitorVars
<1>10. ASSUME NEW n \in Node, Evict(n)
       PROVE  PromptCalls'
  BY <1>10 DEF Evict, requestVars, deciderVars, janitorVars
<1>11. ASSUME NEW n \in Node, NEW m \in Node, Gossip(n, m)
       PROVE  PromptCalls'
  BY <1>11 DEF Gossip, requestVars, deciderVars, janitorVars
<1>12. CASE Tick
  BY <1>12 DEF Tick, requestVars, deciderVars, janitorVars
<1>13. ASSUME NEW n \in Node, ReapRedis(n)
       PROVE  PromptCalls'
  <2>1. /\ jpc'[n] \in {"mark", "scan"} /\ (jpc'[n] = "mark" => Expired)
        /\ \A m \in Node \ {n} : jpc'[m] = jpc[m]
    BY <1>13 DEF ReapRedis, JGoto
  <2>2. QED
    BY <1>13, <2>1 DEF ReapRedis, Expired, requestVars, deciderVars
<1>14. ASSUME NEW n \in Node, MarkExpired(n)
       PROVE  PromptCalls'
  BY <1>14 DEF MarkExpired, JGoto, requestVars, deciderVars
<1>15. ASSUME NEW n \in Node, TwinExpired(n)
       PROVE  PromptCalls'
  BY <1>15 DEF TwinExpired, JGoto, requestVars, deciderVars
<1>16. ASSUME NEW n \in Node, FailWorkflow(n)
       PROVE  PromptCalls'
  BY <1>16 DEF FailWorkflow, JGoto, deciderVars
<1>17. ASSUME NEW n \in Node, ReapCrdt(n)
       PROVE  PromptCalls'
  <2>1. /\ jpc'[n] \in {"mark", "drop"} /\ (jpc'[n] = "mark" => Expired)
        /\ \A m \in Node \ {n} : jpc'[m] = jpc[m]
    BY <1>17 DEF ReapCrdt, JGoto
  <2>2. QED
    BY <1>17, <2>1 DEF ReapCrdt, Expired, requestVars, deciderVars
<1>18. ASSUME NEW n \in Node, DropOrphan(n)
       PROVE  PromptCalls'
  BY <1>18 DEF DropOrphan, JGoto, requestVars, deciderVars
<1>19. CASE UNCHANGED vars
  BY <1>19 DEF vars
<1>20. QED
  BY <1>1, <1>2, <1>3, <1>4, <1>5, <1>6, <1>7, <1>8, <1>9, <1>10, <1>11, <1>12, <1>13,
     <1>14, <1>15, <1>16, <1>17, <1>18, <1>19 DEF Next, Janitor

LEMMA TwinFollowsNext ==
  ASSUME Prompt, TypeInv, PromptCalls, TwinFollows, [Next]_vars
  PROVE  TwinFollows'
<1> USE DEF TypeInv
<1>d. \A d \in Decider : d[1] \in Node /\ d[2] \in {"approved", "denied"}
  BY TwinsAreRecords
<1>g. \A k \in Node : HasDecision(store[k]) => HasDecision(store'[k])
  BY StoreGrows DEF HasDecision
<1>u. UNCHANGED faults /\ UNCHANGED <<redis, dpc, jpc>> => TwinFollows'
  BY <1>g DEF TwinFollows
<1>v. "pending" \notin Verdict /\ "none" \notin Verdict
  BY DEF Verdict
<1>k. ASSUME faults' = 0 => faults = 0, UNCHANGED redis,
             faults' = 0 => \A n \in Node : jpc[n] = "twin" => jpc'[n] = "twin" \/ HasDecision(store'[n]),
             faults' = 0 => \A d \in Decider : dpc[d] = "twin" => dpc'[d] = "twin" \/ HasDecision(store'[d[1]])
      PROVE  TwinFollows'
  <2> SUFFICES ASSUME faults' = 0, NEW n \in Node, redis[n] \in Verdict, ~ HasDecision(store'[n]), jpc'[n] # "twin"
               PROVE  \E d \in Decider : d[1] = n /\ dpc'[d] = "twin"
    BY <1>k DEF TwinFollows
  <2>1. \E d \in Decider : d[1] = n /\ dpc[d] = "twin"
    BY <1>g, <1>k DEF TwinFollows
  <2>2. QED
    BY <1>k, <2>1
<1>1. CASE CreateRequest
  BY <1>1, <1>g, <1>v DEF CreateRequest, TwinFollows, deciderVars, janitorVars
<1>2. CASE TwinRequest
  <2>1. faults' = 0 => faults = 0
    BY <1>2, OriginAssumption, TwinsAreRecords, BestEffortEffect DEF TwinRequest
  <2>2. QED
    BY <1>2, <1>g, <2>1 DEF TwinRequest, TwinFollows, deciderVars, janitorVars
<1>3. CASE Park \/ Tick
  BY <1>3, <1>u DEF Park, Tick, deciderVars, janitorVars
<1>4. ASSUME NEW n \in Node, NEW withId \in BOOLEAN, Resume(n, withId)
      PROVE  TwinFollows'
  BY <1>4, <1>u DEF Resume, deciderVars, janitorVars
<1>5. ASSUME NEW n \in Node, Gate(n) \/ ListPending(n)
      PROVE  TwinFollows'
  BY <1>5, <1>u DEF Gate, ListPending, deciderVars, janitorVars
<1>6. ASSUME NEW d \in Decider, DecideRead(d)
      PROVE  TwinFollows'
  <2>1. dpc[d] # "twin" /\ \A e \in Decider \ {d} : dpc'[e] = dpc[e]
    BY <1>6 DEF DecideRead
  <2>2. QED
    BY <1>6, <1>g, <2>1 DEF DecideRead, TwinFollows, requestVars, janitorVars
<1>7. ASSUME NEW d \in Decider, DecideSet(d)
      PROVE  TwinFollows'
  <2>1. dpc'[d] = "twin" /\ \A e \in Decider \ {d} : dpc'[e] = dpc[e]
    BY <1>7 DEF DecideSet
  <2>2. \A n \in Node \ {d[1]} : redis'[n] = redis[n]
    BY <1>7, <1>d DEF DecideSet
  <2>3. QED
    BY <1>7, <1>d, <1>g, <2>1, <2>2 DEF DecideSet, TwinFollows, requestVars, janitorVars
<1>8. ASSUME NEW d \in Decider, DecideTwin(d)
      PROVE  TwinFollows'
  <2> DEFINE twin == [status |-> d[2], by |-> d]
  <2>1. BestEffort(Put(d[1], twin)) /\ twin \in Record /\ twin.status # "pending"
    BY <1>8, TwinsAreRecords DEF DecideTwin
  <2> HIDE DEF twin
  <2>2. faults' = 0 => faults = 0 /\ twin \in InStore(store'[d[1]])
    <3> HIDE DEF TypeInv
    <3>1. /\ faults' = 0 => faults' = faults
          /\ faults' = faults => InStore(store'[d[1]]) = InStore(store[d[1]]) \cup {twin}
      BY <1>d, <2>1, BestEffortEffect
    <3>2. QED
      BY <3>1
  <2>3. faults' = 0 => HasDecision(store'[d[1]])
    BY <2>1, <2>2 DEF HasDecision
  <2>4. \A e \in Decider \ {d} : dpc'[e] = dpc[e]
    BY <1>8 DEF DecideTwin, Answer
  <2>5. QED
    BY <1>8, <1>k, <2>2, <2>3, <2>4 DEF DecideTwin, janitorVars
<1>9. ASSUME NEW d \in Decider, DecideFallback(d)
      PROVE  TwinFollows'
  <2>1. dpc[d] # "twin" /\ \A e \in Decider \ {d} : dpc'[e] = dpc[e]
    BY <1>9 DEF DecideFallback, Answer
  <2>2. QED
    BY <1>9, <1>k, <2>1 DEF DecideFallback, janitorVars
<1>10. ASSUME NEW n \in Node, Evict(n)
       PROVE  TwinFollows'
  <2>1. redis'[n] = "none" /\ \A m \in Node \ {n} : redis'[m] = redis[m]
    BY <1>10 DEF Evict
  <2>2. QED
    BY <1>10, <1>g, <1>v, <2>1 DEF Evict, TwinFollows, deciderVars, janitorVars
<1>11. ASSUME NEW n \in Node, NEW m \in Node, Gossip(n, m)
       PROVE  TwinFollows'
  BY <1>11, <1>u DEF Gossip, requestVars, deciderVars, janitorVars
<1>12. ASSUME NEW n \in Node, ReapRedis(n) \/ ReapCrdt(n) \/ DropOrphan(n)
       PROVE  TwinFollows'
  <2>1. jpc[n] # "twin" /\ (\A m \in Node \ {n} : jpc'[m] = jpc[m]) /\ UNCHANGED <<redis, dpc, faults>>
    BY <1>12 DEF ReapRedis, ReapCrdt, DropOrphan, JGoto, deciderVars
  <2>2. QED
    BY <1>k, <2>1
<1>13. ASSUME NEW n \in Node, MarkExpired(n)
       PROVE  TwinFollows'
  <2>1. jpc'[n] = "twin" /\ \A m \in Node \ {n} : jpc'[m] = jpc[m] /\ redis'[m] = redis[m]
    BY <1>13 DEF MarkExpired, JGoto
  <2>2. QED
    BY <1>13, <1>g, <2>1 DEF MarkExpired, TwinFollows, deciderVars
<1>14. ASSUME NEW n \in Node, TwinExpired(n)
       PROVE  TwinFollows'
  <2> DEFINE twin == [status |-> "expired", by |-> n]
  <2>1. BestEffort(Put(n, twin)) /\ twin \in Record /\ twin.status # "pending"
    BY <1>14, TwinsAreRecords DEF TwinExpired
  <2> HIDE DEF twin
  <2>2. faults' = 0 => faults = 0 /\ twin \in InStore(store'[n])
    <3> HIDE DEF TypeInv
    <3>1. /\ faults' = 0 => faults' = faults
          /\ faults' = faults => InStore(store'[n]) = InStore(store[n]) \cup {twin}
      BY <2>1, BestEffortEffect
    <3>2. QED
      BY <3>1
  <2>3. faults' = 0 => HasDecision(store'[n])
    BY <2>1, <2>2 DEF HasDecision
  <2>4. \A m \in Node \ {n} : jpc'[m] = jpc[m]
    BY <1>14 DEF TwinExpired, JGoto
  <2>5. QED
    BY <1>14, <1>k, <2>2, <2>3, <2>4 DEF TwinExpired, deciderVars
<1>15. ASSUME NEW n \in Node, FailWorkflow(n)
       PROVE  TwinFollows'
  <2>1. jpc[n] # "twin" /\ (\A m \in Node \ {n} : jpc'[m] = jpc[m]) /\ UNCHANGED <<redis, dpc>>
    BY <1>15 DEF FailWorkflow, JGoto, deciderVars
  <2>2. faults' = 0 => faults = 0
    BY <1>15 DEF FailWorkflow
  <2>3. QED
    BY <1>k, <2>1, <2>2
<1>16. CASE UNCHANGED vars
  BY <1>16, <1>u DEF vars
<1>17. QED
  BY <1>1, <1>2, <1>3, <1>4, <1>5, <1>6, <1>7, <1>8, <1>9, <1>10, <1>11, <1>12, <1>13,
     <1>14, <1>15, <1>16 DEF Next, Janitor

LEMMA PromptAlways == ASSUME Prompt PROVE Spec => [](TypeInv /\ PromptCalls /\ TwinFollows)
<1>1. Init => PromptCalls /\ TwinFollows
  BY OriginAssumption DEF Init, PromptCalls, TwinFollows, Verdict
<1>2. TypeInv /\ PromptCalls /\ TwinFollows /\ [Next]_vars => PromptCalls' /\ TwinFollows'
  BY PromptCallsNext, TwinFollowsNext
<1>3. QED
  BY <1>1, <1>2, TypeAlways, PTL DEF Spec

(* On any federation whose reviewers are prompt, a request that a node     *)
(* reports as decided is never reported as pending or missing there again, *)
(* as long as no best-effort write has failed: when Redis drops the key,   *)
(* the CRDT twin is there to take over.                                    *)
THEOREM DecidedRemainsDecided == ASSUME Prompt PROVE Spec => DecidedStaysDecided
<1> DEFINE Kept == faults = 0 => \A n \in Node : Merged(n) \in Verdict => Merged(n)' \in Verdict
<1>1. TypeInv /\ TypeInv' /\ PromptCalls /\ TwinFollows /\ [Next]_vars => Kept
  <2> SUFFICES ASSUME TypeInv, TypeInv', PromptCalls, TwinFollows, [Next]_vars, faults = 0,
                      NEW n \in Node, Merged(n) \in Verdict
               PROVE  Merged(n)' \in Verdict
    OBVIOUS
  <2>1. /\ redis[n] \in Verdict \/ HasDecision(store[n])
        /\ redis'[n] \in Verdict \/ HasDecision(store'[n]) => Merged(n)' \in Verdict
    <3>1. /\ redis[n] \in Status \cup {"none"} /\ store[n] \in Seq(Record)
          /\ redis'[n] \in Status \cup {"none"} /\ store'[n] \in Seq(Record)
      BY DEF TypeInv
    <3>2. /\ Merged(n) \in Verdict <=> redis[n] \in Verdict \/ HasDecision(store[n])
          /\ Merged(n)' \in Verdict <=> redis'[n] \in Verdict \/ HasDecision(store'[n])
      BY <3>1, MergedIs, MergedDecided
    <3>3. QED
      BY <3>2
  <2>2. HasDecision(store[n]) => HasDecision(store'[n])
    BY StoreGrows DEF HasDecision
  <2>3. ASSUME redis[n] \in Verdict, ~ HasDecision(store[n])
        PROVE  redis'[n] \in Verdict
    <3>1. \A d \in Decider : d[1] \in Node /\ d[2] \in Verdict
      BY TwinsAreRecords DEF Verdict
    <3>2. redis[n] # "none" /\ redis[n] # "pending"
      BY <2>3 DEF Verdict
    <3>3. ~ Evict(n)
      BY <2>3 DEF TwinFollows, PromptCalls, Evict
    <3>4. CASE UNCHANGED redis
      BY <2>3, <3>4
    <3>5. CASE CreateRequest
      BY <2>3, <3>2, <3>5, OriginAssumption DEF TypeInv, PromptCalls, CreateRequest
    <3>6. ASSUME NEW d \in Decider, DecideSet(d) PROVE redis'[n] \in Verdict
      BY <2>3, <3>1, <3>6 DEF TypeInv, DecideSet
    <3>7. ASSUME NEW m \in Node, MarkExpired(m) PROVE redis'[n] \in Verdict
      BY <2>3, <3>7 DEF TypeInv, MarkExpired, Verdict
    <3>8. ASSUME NEW m \in Node, Evict(m) PROVE redis'[n] \in Verdict
      BY <2>3, <3>3, <3>8 DEF TypeInv, Evict
    <3>9. \/ UNCHANGED redis \/ CreateRequest \/ (\E d \in Decider : DecideSet(d))
          \/ (\E m \in Node : MarkExpired(m)) \/ (\E m \in Node : Evict(m))
      BY Zenon DEF Next, vars, Janitor, TwinRequest, Park, Resume, Gate, DecideRead, DecideTwin, DecideFallback,
             ListPending, ReapRedis, TwinExpired, FailWorkflow, ReapCrdt, DropOrphan, Gossip, Tick
    <3>10. QED
      BY <3>4, <3>5, <3>6, <3>7, <3>8, <3>9
  <2>4. QED
    BY <2>1, <2>2, <2>3
<1>2. QED
  BY <1>1, PromptAlways, PTL DEF Spec, DecidedStaysDecided

-----------------------------------------------------------------------------
(* One node, one reviewer who acts in time, and no failing writes. *)
Calm == Prompt /\ Node = {Origin} /\ MaxFaults = 0 /\ \A d \in Decider, e \in Decider : d = e

NoDecision == \A rec \in Held : rec.status = "pending"

(* The key and the records never contradict each other. *)
OneVerdict ==
    /\ redis[Origin] \in Verdict => \A rec \in Held : rec.status \in {"pending", redis[Origin]}
    /\ \A r1, r2 \in Held : r1.status = "pending" \/ r2.status = "pending" \/ r1.status = r2.status
    /\ redis[Origin] = "pending" => NoDecision

(* What a handler has read is still so when it writes. *)
ReadsHold ==
    /\ jpc[Origin] = "mark" => redis[Origin] \notin Verdict /\ NoDecision
    /\ jpc[Origin] = "twin" => redis[Origin] = "expired"
    /\ request \in {"twinned", "done"} => Held # {}
    /\ \A d \in Decider : dpc[d] = "set" => redis[Origin] = "pending"
    /\ \A d \in Decider : dpc[d] = "twin" => redis[Origin] = d[2]

CalmInv == TypeInv /\ SingleInv /\ PromptCalls /\ TwinFollows /\ OneVerdict /\ ReadsHold

(* In these conditions nobody falls back to the CRDT twin. *)
LEMMA CalmReviewers ==
  ASSUME Calm, CalmInv
  PROVE  /\ faults = 0 /\ Origin \in Node
         /\ \A d \in Decider : d[1] = Origin /\ d[2] \in Verdict /\ dpc[d] # "fallback"
         /\ \A d \in Decider : dpc[d] \in {"set", "twin"} =>
               phase = "live" /\ request # "new" /\ redis[Origin] # "none" /\ ~ JanitorBusy
<1>1. faults = 0
  BY DEF Calm, CalmInv, TypeInv
<1>2. \A d \in Decider : d[1] = Origin /\ d[2] \in Verdict
  BY TwinsAreRecords DEF Calm, Verdict
<1>3. \A d \in Decider : dpc[d] # "fallback"
  BY DEF CalmInv, SingleInv, CallsInStep, PromptCalls
<1>4. \A d \in Decider : dpc[d] \in {"set", "twin"} =>
         phase = "live" /\ request # "new" /\ redis[Origin] # "none" /\ ~ JanitorBusy
  BY DEF CalmInv, SingleInv, CallsInStep, PromptCalls, LiveClean
<1>5. QED
  BY <1>1, <1>2, <1>3, <1>4, OriginAssumption

(* A twin that agrees with the key keeps the agreement. *)
LEMMA AgreeingTwin ==
  ASSUME OneVerdict, NEW rec, rec.status = redis[Origin], redis[Origin] \in Verdict,
         UNCHANGED redis, Held' \in {Held, Held \cup {rec}}
  PROVE  OneVerdict'
<1>1. "pending" \notin Verdict
  BY DEF Verdict
<1>2. \A x \in Held' : x.status \in {"pending", redis[Origin]}
  BY DEF OneVerdict
<1>3. QED
  BY <1>1, <1>2 DEF OneVerdict

LEMMA CalmNext ==
  ASSUME Calm, CalmInv, [Next]_vars
  PROVE  OneVerdict' /\ ReadsHold'
<1>t. TypeInv /\ Origin \in Node /\ faults = 0 /\ MaxFaults = 0 /\ Prompt /\ \A n \in Node : n = Origin
  BY CalmReviewers DEF CalmInv, Calm
<1>c. /\ \A d \in Decider : d[1] = Origin /\ d[2] \in Verdict /\ dpc[d] # "fallback"
      /\ \A d \in Decider : dpc[d] \in {"set", "twin"} =>
               phase = "live" /\ request # "new" /\ redis[Origin] # "none" /\ ~ JanitorBusy
  BY CalmReviewers
<1>i. OneVerdict /\ ReadsHold /\ LiveClean /\ CallsInStep /\ ParkedFirst
  BY DEF CalmInv, SingleInv
<1>e. \A d, e \in Decider : d = e
  BY DEF Calm
<1>0. UNCHANGED store => UNCHANGED Held
  BY DEF Held
<1>v. "pending" \notin Verdict /\ "none" \notin Verdict /\ "expired" \in Verdict
  BY DEF Verdict
<1>b. ~ (faults < MaxFaults)
  BY <1>t
<1>u. UNCHANGED <<store, redis, jpc, dpc, request>> => OneVerdict' /\ ReadsHold'
  BY <1>0, <1>i DEF OneVerdict, ReadsHold, NoDecision
<1>1. CASE CreateRequest
  BY <1>0, <1>1, <1>c, <1>i, <1>t, <1>v
  DEF TypeInv, CreateRequest, OneVerdict, ReadsHold, NoDecision, LiveClean, CallsInStep, ParkedFirst, JanitorBusy,
      deciderVars, janitorVars
<1>2. CASE TwinRequest
  <2> DEFINE twin == [status |-> "pending", by |-> Origin]
  <2>1. twin.status = "pending" /\ twin \in Record /\ Put(Origin, twin)
    BY <1>2, <1>b, TwinsAreRecords DEF TwinRequest, BestEffort
  <2>2. Held' = Held \cup {twin}
    BY <1>t, <2>1, PutEffect DEF Held
  <2> HIDE DEF twin
  <2>3. QED
    BY <1>2, <1>i, <2>1, <2>2 DEF TwinRequest, OneVerdict, ReadsHold, NoDecision, deciderVars, janitorVars
<1>3. CASE Park
  BY <1>0, <1>3, <1>i DEF Park, OneVerdict, ReadsHold, NoDecision, deciderVars, janitorVars
<1>4. CASE Tick
  BY <1>4, <1>u DEF Tick, requestVars, deciderVars, janitorVars
<1>5. ASSUME NEW n \in Node, NEW withId \in BOOLEAN, Resume(n, withId)
      PROVE  OneVerdict' /\ ReadsHold'
  BY <1>5, <1>u DEF Resume, deciderVars, janitorVars
<1>6. ASSUME NEW n \in Node, Gate(n) \/ ListPending(n)
      PROVE  OneVerdict' /\ ReadsHold'
  BY <1>6, <1>u DEF Gate, ListPending, requestVars, deciderVars, janitorVars
<1>7. ASSUME NEW d \in Decider, DecideRead(d)
      PROVE  OneVerdict' /\ ReadsHold'
  <2>1. /\ dpc'[d] \in {"set", "fallback", "end"} /\ \A e \in Decider \ {d} : dpc'[e] = dpc[e]
        /\ dpc'[d] = "set" => redis[Origin] = "pending"
    BY <1>7, <1>c, <1>t DEF TypeInv, DecideRead
  <2>2. UNCHANGED <<redis, Held, request, jpc>>
    BY <1>0, <1>7 DEF DecideRead, requestVars, janitorVars
  <2>3. QED
    BY <1>i, <2>1, <2>2 DEF OneVerdict, ReadsHold, NoDecision
<1>8. ASSUME NEW d \in Decider, DecideSet(d)
      PROVE  OneVerdict' /\ ReadsHold'
  <2>1. /\ redis[Origin] = "pending" /\ ~ JanitorBusy /\ NoDecision
        /\ redis'[Origin] = d[2] /\ d[2] \in Verdict /\ UNCHANGED <<Held, request, jpc>>
    BY <1>0, <1>8, <1>c, <1>i, <1>t DEF TypeInv, DecideSet, OneVerdict, ReadsHold, requestVars, janitorVars
  <2>2. \A e \in Decider : e = d /\ dpc'[e] = "twin"
    BY <1>8, <1>e, <1>t DEF TypeInv, DecideSet
  <2>3. QED
    BY <1>i, <1>v, <2>1, <2>2 DEF OneVerdict, ReadsHold, NoDecision, JanitorBusy
<1>9. ASSUME NEW d \in Decider, DecideTwin(d)
      PROVE  OneVerdict' /\ ReadsHold'
  <2> DEFINE twin == [status |-> d[2], by |-> d]
  <2>1. /\ twin.status = redis[Origin] /\ redis[Origin] \in Verdict /\ ~ JanitorBusy
        /\ UNCHANGED <<redis, request, jpc>>
    BY <1>9, <1>c, <1>i DEF DecideTwin, ReadsHold, requestVars, janitorVars
  <2>2. Held' = Held \cup {twin}
    <3>1. twin \in Record /\ Put(Origin, twin)
      BY <1>9, <1>b, <1>c, TwinsAreRecords DEF DecideTwin, BestEffort
    <3>2. QED
      BY <1>t, <3>1, PutEffect DEF Held
  <2>3. \A e \in Decider : dpc'[e] = "end"
    BY <1>9, <1>e, <1>t DEF TypeInv, DecideTwin, Answer
  <2> HIDE DEF twin
  <2>4. OneVerdict'
    BY <1>i, <2>1, <2>2, AgreeingTwin
  <2>5. QED
    BY <1>i, <2>1, <2>2, <2>3, <2>4 DEF ReadsHold, JanitorBusy
<1>10. ASSUME NEW d \in Decider, DecideFallback(d)
       PROVE  OneVerdict' /\ ReadsHold'
  BY <1>10, <1>c DEF DecideFallback
<1>11. ASSUME NEW n \in Node, Evict(n)
       PROVE  OneVerdict' /\ ReadsHold'
  <2>1. n = Origin /\ phase = "gone" /\ jpc[Origin] # "twin" /\ redis'[Origin] = "none"
    BY <1>11, <1>t DEF TypeInv, Evict
  <2>2. UNCHANGED <<Held, request, jpc, dpc>>
    BY <1>0, <1>11 DEF Evict, requestVars, deciderVars, janitorVars
  <2>3. QED
    BY <1>c, <1>i, <1>v, <2>1, <2>2 DEF OneVerdict, ReadsHold, NoDecision
<1>12. ASSUME NEW n \in Node, NEW m \in Node, Gossip(n, m)
       PROVE  OneVerdict' /\ ReadsHold'
  BY <1>12, <1>t DEF Gossip
<1>13. ASSUME NEW n \in Node, ReapRedis(n)
       PROVE  OneVerdict' /\ ReadsHold'
  <2>1. jpc'[Origin] \in {"mark", "scan"} /\ (jpc'[Origin] = "mark" => redis[Origin] = "pending")
    BY <1>13, <1>t DEF TypeInv, ReapRedis, JGoto
  <2>2. UNCHANGED <<redis, Held, request, dpc>>
    BY <1>0, <1>13 DEF ReapRedis, requestVars, deciderVars
  <2>3. QED
    BY <1>i, <1>v, <2>1, <2>2 DEF OneVerdict, ReadsHold, NoDecision
<1>14. ASSUME NEW n \in Node, MarkExpired(n)
       PROVE  OneVerdict' /\ ReadsHold'
  <2>1. jpc[Origin] = "mark" /\ jpc'[Origin] = "twin" /\ redis'[Origin] = "expired"
    BY <1>14, <1>t DEF TypeInv, MarkExpired, JGoto
  <2>2. UNCHANGED <<Held, request, dpc>>
    BY <1>0, <1>14 DEF MarkExpired, requestVars, deciderVars
  <2>3. QED
    BY <1>c, <1>i, <1>v, <2>1, <2>2 DEF OneVerdict, ReadsHold, NoDecision, JanitorBusy
<1>15. ASSUME NEW n \in Node, TwinExpired(n)
       PROVE  OneVerdict' /\ ReadsHold'
  <2> DEFINE twin == [status |-> "expired", by |-> Origin]
  <2>1. /\ twin.status = redis[Origin] /\ redis[Origin] \in Verdict
        /\ jpc'[Origin] = "fail" /\ UNCHANGED <<redis, request, dpc>>
    BY <1>15, <1>i, <1>t, <1>v DEF TypeInv, TwinExpired, ReadsHold, JGoto, requestVars, deciderVars
  <2>2. Held' = Held \cup {twin}
    <3>1. twin \in Record /\ Put(Origin, twin)
      BY <1>15, <1>b, <1>t, TwinsAreRecords DEF TwinExpired, BestEffort
    <3>2. QED
      BY <1>t, <3>1, PutEffect DEF Held
  <2> HIDE DEF twin
  <2>3. OneVerdict'
    BY <1>i, <2>1, <2>2, AgreeingTwin
  <2>4. QED
    BY <1>i, <2>1, <2>2, <2>3 DEF ReadsHold
<1>16. ASSUME NEW n \in Node, FailWorkflow(n) \/ DropOrphan(n)
       PROVE  OneVerdict' /\ ReadsHold'
  <2>1. jpc'[Origin] \in {"drop", "idle"} /\ UNCHANGED <<redis, store, request, dpc>>
    BY <1>16, <1>t DEF TypeInv, FailWorkflow, DropOrphan, JGoto, requestVars, deciderVars
  <2>2. QED
    BY <1>0, <1>i, <2>1 DEF OneVerdict, ReadsHold, NoDecision
<1>17. ASSUME NEW n \in Node, ReapCrdt(n)
       PROVE  OneVerdict' /\ ReadsHold'
  <2>1. /\ jpc[Origin] = "scan" /\ jpc'[Origin] \in {"mark", "drop"}
        /\ jpc'[Origin] = "mark" => CrdtStatus(Origin) = "pending" /\ phase # "live"
    BY <1>17, <1>t DEF TypeInv, ReapCrdt, JGoto, CrdtPending, Expired
  <2>2. UNCHANGED <<redis, Held, request, dpc>>
    BY <1>0, <1>17 DEF ReapCrdt, requestVars, deciderVars
  <2>3. CrdtStatus(Origin) = "pending" => NoDecision
    BY <1>t, StatusOfIs, StoreOperators DEF TypeInv, NoDecision, Held
  <2>4. NoDecision => ~ HasDecision(store[Origin])
    BY DEF NoDecision, HasDecision, Held
  <2>5. jpc'[Origin] = "mark" => redis[Origin] \notin Verdict
    BY <1>c, <1>t, <2>1, <2>3, <2>4 DEF CalmInv, TwinFollows
  <2>6. QED
    BY <1>i, <2>1, <2>2, <2>3, <2>5 DEF OneVerdict, ReadsHold, NoDecision
<1>18. CASE UNCHANGED vars
  BY <1>18, <1>u DEF vars
<1>19. QED
  BY <1>1, <1>2, <1>3, <1>4, <1>5, <1>6, <1>7, <1>8, <1>9, <1>10, <1>11, <1>12, <1>13,
     <1>14, <1>15, <1>16, <1>17, <1>18 DEF Next, Janitor

LEMMA CalmAlways == ASSUME Calm PROVE Spec => []CalmInv
<1>1. Prompt /\ Node = {Origin}
  BY DEF Calm
<1>2. Init => OneVerdict /\ ReadsHold
  <2>1. InStore(<<>>) = {}
    BY DEF InStore
  <2>2. QED
    BY <2>1, OriginAssumption DEF Init, OneVerdict, ReadsHold, NoDecision, Held, Verdict
<1>3. CalmInv /\ [Next]_vars => OneVerdict' /\ ReadsHold'
  BY CalmNext
<1>4. Spec => []SingleInv
  BY <1>1, SingleAlways
<1>5. Spec => [](TypeInv /\ PromptCalls /\ TwinFollows)
  BY <1>1, PromptAlways
<1>6. QED
  BY <1>2, <1>3, <1>4, <1>5, PTL DEF Spec, CalmInv

(* With key and records in agreement the key is the answer, or, once it is *)
(* gone, the records are.                                                  *)
LEMMA CalmMerged ==
  ASSUME NEW r \in Status \cup {"none"}, NEW s \in Seq(Record), r = "pending" => ~ HasDecision(s)
  PROVE  /\ MergedOf(r, s) = IF r = "none" THEN StatusOf(s) ELSE r
         /\ StatusOf(s) \in Verdict => \E rec \in InStore(s) : rec.status = StatusOf(s)
         /\ StatusOf(s) \in Verdict <=> HasDecision(s)
         /\ InStore(s) = {} => StatusOf(s) = "none"
         /\ InStore(s) # {} /\ ~ HasDecision(s) => StatusOf(s) = "pending"
<1>1. /\ StatusOf(s) \in Verdict <=> HasDecision(s)
      /\ StatusOf(s) \in Verdict \cup {"none", "pending"}
      /\ StatusOf(s) = "none" <=> InStore(s) = {}
      /\ StatusOf(s) \in Verdict => \E rec \in InStore(s) : rec.status = StatusOf(s)
  BY StatusOfIs DEF HasDecision
<1>2. QED
  BY <1>1 DEF MergedOf

LEMMA ContractStep ==
  ASSUME Calm, CalmInv, CalmInv', [Next]_vars
  PROVE  [Contract!Next]_(Merged(Origin))
<1> DEFINE o == Origin
<1>t. TypeInv /\ TypeInv' /\ o \in Node /\ \A n \in Node : n = o
  BY OriginAssumption DEF CalmInv, Calm
<1>i. OneVerdict /\ ReadsHold /\ CallsInStep /\ ParkedFirst /\ OneVerdict' /\ LiveClean
  BY DEF CalmInv, SingleInv
<1>h. /\ InStore(store[o]) = Held /\ InStore(store'[o]) = Held'
      /\ HasDecision(store[o]) <=> ~ NoDecision
      /\ HasDecision(store'[o]) <=> ~ NoDecision'
  BY DEF Held, HasDecision, NoDecision
<1>r. /\ redis[o] \in Status \cup {"none"} /\ store[o] \in Seq(Record)
      /\ redis'[o] \in Status \cup {"none"} /\ store'[o] \in Seq(Record)
  BY <1>t DEF TypeInv
<1>a. /\ redis[o] = "pending" => ~ HasDecision(store[o])
      /\ redis'[o] = "pending" => ~ HasDecision(store'[o])
  BY <1>h, <1>i DEF OneVerdict
<1>m. /\ Merged(o) = IF redis[o] = "none" THEN StatusOf(store[o]) ELSE redis[o]
      /\ Merged(o)' = IF redis'[o] = "none" THEN StatusOf(store'[o]) ELSE redis'[o]
  BY <1>a, <1>r, <1>t, MergedIs, CalmMerged
<1>v. "pending" \notin Verdict /\ "none" \notin Verdict /\ "expired" \in Verdict
  BY DEF Verdict
<1>w. Verdict = Contract!Verdicts
  BY DEF Verdict, Contract!Verdicts
<1>c. /\ \A d \in Decider : d[1] = o /\ d[2] \in Verdict /\ dpc[d] # "fallback"
      /\ \A d \in Decider : dpc[d] \in {"set", "twin"} =>
               phase = "live" /\ request # "new" /\ redis[o] # "none" /\ ~ JanitorBusy
  BY CalmReviewers
<1>1. CASE CreateRequest
  <2>1. redis[o] = "none" /\ Held = {} /\ redis'[o] = "pending"
    BY <1>1, <1>i, <1>t DEF TypeInv, CreateRequest, CallsInStep
  <2>2. Merged(o) = "none" /\ Merged(o)' = "pending"
    BY <1>h, <1>m, <1>r, <2>1, CalmMerged
  <2>3. QED
    BY <2>2 DEF Contract!Next, Contract!Open
<1>2. ASSUME NEW d \in Decider, DecideSet(d)
      PROVE  [Contract!Next]_(Merged(Origin))
  <2>1. redis[o] = "pending" /\ redis'[o] \in Verdict
    BY <1>2, <1>c, <1>i, <1>t DEF TypeInv, DecideSet, ReadsHold
  <2>2. Merged(o) = "pending" /\ Merged(o)' \in Contract!Verdicts
    BY <1>m, <1>v, <1>w, <2>1
  <2>3. QED
    BY <2>2 DEF Contract!Next, Contract!Decide
<1>3. ASSUME NEW n \in Node, MarkExpired(n)
      PROVE  [Contract!Next]_(Merged(Origin))
  <2>1. jpc[o] = "mark" /\ redis'[o] = "expired"
    BY <1>3, <1>t DEF TypeInv, MarkExpired
  <2>2. redis[o] \in {"pending", "none"} /\ NoDecision /\ Held # {}
    BY <1>i, <1>r, <2>1 DEF ReadsHold, LiveClean, ParkedFirst, JanitorBusy, Status
  <2>3. Merged(o) = "pending" /\ Merged(o)' \in Contract!Verdicts
    BY <1>h, <1>m, <1>r, <1>v, <1>w, <2>1, <2>2, CalmMerged
  <2>4. QED
    BY <2>3 DEF Contract!Next, Contract!Decide
<1>4. ASSUME NEW n \in Node, Evict(n)
      PROVE  [Contract!Next]_(Merged(Origin))
  <2>1. /\ redis[o] # "none" /\ redis'[o] = "none" /\ phase = "gone" /\ jpc[o] # "twin"
        /\ UNCHANGED store
    BY <1>4, <1>t DEF TypeInv, Evict, Calm
  <2>2. Held # {}
    BY <1>i, <2>1 DEF ReadsHold, ParkedFirst
  <2>3. CASE redis[o] = "pending"
    BY <1>a, <1>h, <1>m, <1>r, <2>1, <2>2, <2>3, CalmMerged
  <2>4. CASE redis[o] \in Verdict
    <3>1. HasDecision(store[o])
      BY <1>c, <1>t, <2>1, <2>4, CalmReviewers DEF CalmInv, TwinFollows
    <3>2. StatusOf(store[o]) \in Verdict /\ \E rec \in Held : rec.status = StatusOf(store[o])
      BY <1>h, <1>a, <1>r, <3>1, CalmMerged
    <3>3. StatusOf(store[o]) = redis[o]
      BY <1>i, <1>v, <2>4, <3>2 DEF OneVerdict
    <3>4. QED
      BY <1>m, <2>1, <3>3
  <2>5. QED
    BY <1>r, <2>1, <2>3, <2>4 DEF Status
<1>5. CASE UNCHANGED redis /\ (UNCHANGED store \/ redis[o] # "none")
  BY <1>5, <1>m
<1>6. ASSUME UNCHANGED redis, ~ UNCHANGED store
      PROVE  redis[o] # "none"
  <2>1. CASE TwinRequest
    BY <1>i, <2>1 DEF TwinRequest, CallsInStep, ParkedFirst
  <2>2. ASSUME NEW d \in Decider, DecideTwin(d) \/ DecideFallback(d)
        PROVE  redis[o] # "none"
    BY <1>c, <2>2 DEF DecideTwin, DecideFallback
  <2>3. ASSUME NEW n \in Node, TwinExpired(n)
        PROVE  redis[o] # "none"
    BY <1>i, <1>t, <2>3 DEF TwinExpired, ReadsHold
  <2>4. ASSUME NEW n \in Node, NEW m \in Node, Gossip(n, m)
        PROVE  redis[o] # "none"
    BY <1>t, <2>4 DEF Gossip
  <2>5. \/ TwinRequest \/ (\E d \in Decider : DecideTwin(d) \/ DecideFallback(d))
        \/ (\E n \in Node : TwinExpired(n)) \/ (\E n \in Node, m \in Node : Gossip(n, m))
    BY <1>6, Zenon DEF Next, vars, Janitor, CreateRequest, Park, Resume, Gate, DecideRead, DecideSet,
         ListPending, ReapRedis, MarkExpired, FailWorkflow, ReapCrdt, DropOrphan, Evict, Tick
  <2>6. QED
    BY <2>1, <2>2, <2>3, <2>4, <2>5
<1>7. \/ UNCHANGED redis \/ CreateRequest \/ (\E d \in Decider : DecideSet(d))
      \/ (\E n \in Node : MarkExpired(n)) \/ (\E n \in Node : Evict(n))
  BY Zenon DEF Next, vars, Janitor, TwinRequest, Park, Resume, Gate, DecideRead, DecideTwin, DecideFallback,
         ListPending, ReapRedis, TwinExpired, FailWorkflow, ReapCrdt, DropOrphan, Gossip, Tick
<1>8. QED
  BY <1>1, <1>2, <1>3, <1>4, <1>5, <1>6, <1>7

(* On a node of its own, with one reviewer who acts before the request     *)
(* expires and no failing write, the status that the API and the resume    *)
(* endpoint see implements ApprovalContract: it opens once, is decided     *)
(* once, and no tick of the janitor, eviction or resume changes it again.  *)
THEOREM ApprovalImplementsContract == ASSUME Calm PROVE Spec => ImplementsContract
<1>1. Init => Contract!Init
  <2>1. SUFFICES ASSUME Init PROVE Merged(Origin) = "none"
    BY DEF Contract!Init
  <2>2. redis[Origin] = "none" /\ store[Origin] = <<>>
    BY <2>1, OriginAssumption DEF Init
  <2>3. <<>> \in Seq(Record) /\ InStore(<<>>) = {}
    BY DEF InStore
  <2>4. QED
    BY <2>2, <2>3, OriginAssumption, MergedIs, StatusOfIs DEF MergedOf
<1>2. CalmInv /\ CalmInv' /\ [Next]_vars => [Contract!Next]_(Merged(Origin))
  BY ContractStep
<1>3. QED
  BY <1>1, <1>2, CalmAlways, PTL DEF Spec, ImplementsContract, Contract!Spec
=============================================================================
