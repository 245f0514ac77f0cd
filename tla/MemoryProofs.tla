---------------------------- MODULE MemoryProofs ----------------------------
(***************************************************************************)
(* Proofs about Memory, for any records, sessions, prompts and bounds.     *)
(***************************************************************************)
EXTENDS Memory, FiniteSetTheorems, WellFoundedInduction, TLAPS

(* The natural numbers are well ordered. *)
LEMMA LeastNat ==
  ASSUME NEW T \in SUBSET Nat, T # {}
  PROVE  \E x \in T : \A y \in T : x <= y
<1>1. PICK x \in T : \A y \in T : ~ (<<y, x>> \in OpToRel(<, Nat))
  BY WFMin, NatLessThanWellFounded
<1>2. \A y \in T : ~ (y < x)
  BY <1>1 DEF OpToRel
<1>3. QED
  BY <1>2

(* A function on a finite set has a greatest value there; a smallest set   *)
(* without one would still lack one after losing an element.               *)
LEMMA GreatestOf ==
  ASSUME NEW U, NEW f \in [U -> Nat], NEW S \in SUBSET U, IsFiniteSet(S), S # {}
  PROVE  \E x \in S : \A y \in S : f[y] <= f[x]
<1> DEFINE HasMax(T) == \E x \in T : \A y \in T : f[y] <= f[x]
           Bad == {k \in Nat : \E T \in SUBSET U : IsFiniteSet(T) /\ T # {} /\ Cardinality(T) = k /\ ~ HasMax(T)}
<1>1. SUFFICES ASSUME Bad # {} PROVE FALSE
  <2>1. Cardinality(S) \in Nat
    BY FS_CardinalityType
  <2>2. QED
    BY <1>1, <2>1
<1>2. PICK k \in Bad : \A j \in Bad : k <= j
  <2>1. Bad \in SUBSET Nat
    OBVIOUS
  <2> HIDE DEF Bad
  <2>2. QED
    BY <1>1, <2>1, LeastNat
<1>3. PICK T \in SUBSET U : IsFiniteSet(T) /\ T # {} /\ Cardinality(T) = k /\ ~ HasMax(T)
  BY <1>2
<1>4. PICK x \in T : TRUE
  BY <1>3
<1> DEFINE R == T \ {x}
<1>5. IsFiniteSet(R) /\ Cardinality(R) = k - 1 /\ Cardinality(R) \in Nat /\ k \in Nat
  BY <1>3, <1>4, FS_RemoveElement, FS_CardinalityType
<1>6. \A y \in T : f[y] \in Nat
  OBVIOUS
<1>7. CASE R = {}
  BY <1>3, <1>4, <1>6, <1>7
<1>8. CASE R # {}
  <2>1. k - 1 \notin Bad
    <3>1. k - 1 < k
      BY <1>5
    <3> HIDE DEF Bad
    <3>2. QED
      BY <1>2, <1>5, <3>1
  <2>2. HasMax(R)
    BY <1>5, <1>8, <2>1
  <2>3. PICK m \in R : \A y \in R : f[y] <= f[m]
    BY <2>2
  <2>4. CASE f[m] <= f[x]
    <3>1. \A y \in T : f[y] <= f[x]
      BY <1>4, <1>6, <2>3, <2>4
    <3>2. QED
      BY <1>3, <1>4, <3>1
  <2>5. CASE ~ (f[m] <= f[x])
    <3>1. \A y \in T : f[y] <= f[m]
      BY <1>4, <1>6, <2>3, <2>5
    <3>2. QED
      BY <1>3, <2>3, <3>1
  <2>6. QED
    BY <2>4, <2>5
<1>9. QED
  BY <1>7, <1>8

-----------------------------------------------------------------------------
(* What query_memory returns. *)
Candidate == [r : Recs, state : States]

IsReq(q) == q = [pc |-> q.pc, op |-> q.op, rec |-> q.rec, seen |-> q.seen, flips |-> q.flips, puts |-> q.puts]

(* A request supersedes only parents that its record outweighs, and its    *)
(* record is in the table or among the rows that it inserts itself.        *)
ReqOK(q) ==
    /\ IsReq(q)
    /\ \A r \in Recs : q.flips[r] \in {"none", "superseded", "tombstoned"}
    /\ \A r \in Recs : q.flips[r] = "superseded" => q.op = "write" /\ r \in Outweighed(q.rec)
    /\ q.op = "write" =>
          /\ q.rec \in Recs /\ q.pc \in {"put", "parents", "flip", "clear", "commit"}
          /\ q.pc # "put" => q.rec \in q.puts \/ rows[q.rec] # "none"
          /\ q.pc = "flip" => q.seen \subseteq Outweighed(q.rec)
    /\ q.op # "write" /\ q.pc = "put" => q.op = "tombstone"
    /\ q.pc = "parents" => q.op = "write"
    /\ q.pc = "store" => q.seen \subseteq Candidate
    /\ q.pc # "commit" /\ q.pc # "clear" => \A r \in Recs : q.flips[r] = "none"

RecTypes ==
    /\ rows \in [Recs -> States \cup {"none"}]
    /\ order \in [Recs -> Nat]
    /\ req = [s \in Sessions |-> req[s]]
    /\ qcache # None => qcache \subseteq Candidate

RecInv ==
    /\ RecTypes
    /\ \A s \in Sessions : ReqOK(req[s])
    /\ SupersededBySomething
    /\ PlansOnActiveFacts

(* What a request does to itself disturbs nothing else. *)
LEMMA ReqChange ==
  ASSUME RecInv, NEW s \in Sessions, NEW q, ReqOK(q), req' = [req EXCEPT ![s] = q],
         UNCHANGED <<rows, order>>, qcache' \in {None, qcache}, answer' = None
  PROVE  RecInv'
<1>1. req'[s] = q /\ (\A o \in Sessions \ {s} : req'[o] = req[o]) /\ req' = [o \in Sessions |-> req'[o]]
  BY DEF RecInv, RecTypes
<1>2. RecTypes'
  BY <1>1 DEF RecInv, RecTypes
<1>3. \A o \in Sessions : ReqOK(req[o])'
  BY <1>1 DEF RecInv, ReqOK, IsReq
<1>4. SupersededBySomething'
  BY DEF RecInv, SupersededBySomething
<1>5. PlansOnActiveFacts'
  BY DEF PlansOnActiveFacts
<1>6. QED
  BY <1>2, <1>3, <1>4, <1>5 DEF RecInv

(* Time and the other half of the model do not touch requests or rows. *)
LEMMA NoReqChange ==
  ASSUME RecInv, UNCHANGED <<rows, order, req>>, qcache' \in {None, qcache}, answer' \in {None, answer}
  PROVE  RecInv'
<1>1. RecTypes' /\ \A o \in Sessions : ReqOK(req[o])'
  BY DEF RecInv, RecTypes, ReqOK, IsReq
<1>2. SupersededBySomething' /\ PlansOnActiveFacts'
  BY DEF RecInv, SupersededBySomething, PlansOnActiveFacts
<1>3. QED
  BY <1>1, <1>2 DEF RecInv

(* A request starts with nothing flushed. *)
LEMMA IdleOK ==
  /\ ReqOK(Idle)
  /\ Idle.pc = "idle" /\ Idle.op = "none" /\ Idle.puts = {} /\ IsReq(Idle)
  /\ \A r \in Recs : Idle.flips[r] = "none"
BY DEF ReqOK, IsReq, Idle

(* _rank_candidates has a first one, whenever there is any. *)
LEMMA TopExists ==
  ASSUME RecTypes, NEW C, C # {}, C \subseteq Candidate, \A c \in C : c.state = "active"
  PROVE  Top(C) \in C
<1> DEFINE R == {r \in Recs : [r |-> r, state |-> "active"] \in C}
<1>1. \A c \in C : c.r \in R /\ c = [r |-> c.r, state |-> "active"]
  BY DEF Candidate
<1>2. IsFiniteSet(R) /\ R # {}
  BY <1>1, MemoryAssumption, FS_Subset
<1>3. PICK x \in R : \A y \in R : Rank[y] <= Rank[x]
  BY <1>2, MemoryAssumption, GreatestOf
<1> DEFINE Q == {y \in R : Rank[y] = Rank[x]}
<1>4. IsFiniteSet(Q) /\ Q # {}
  BY <1>2, <1>3, FS_Subset
<1>5. PICK z \in Q : \A y \in Q : order[y] <= order[z]
  BY <1>4, GreatestOf DEF RecTypes
<1> DEFINE c == [r |-> z, state |-> "active"]
<1>6. c \in C /\ c.r = z /\ z \in R
  BY <1>5
<1>7. ASSUME NEW y \in R PROVE Rank[y] < Rank[z] \/ (Rank[y] = Rank[z] /\ order[y] <= order[z])
  <2>1. Rank[y] \in Nat /\ Rank[z] \in Nat /\ Rank[z] = Rank[x] /\ Rank[y] <= Rank[x]
    BY <1>3, <1>5, MemoryAssumption
  <2>2. Rank[y] < Rank[z] \/ Rank[y] = Rank[x]
    BY <2>1
  <2>3. CASE Rank[y] = Rank[x]
    <3>1. y \in Q
      BY <2>3
    <3>2. QED
      BY <1>5, <2>1, <2>3, <3>1
  <2>4. QED
    BY <2>2, <2>3
<1>8. \A o \in C : \/ Rank[o.r] < Rank[c.r]
                   \/ Rank[o.r] = Rank[c.r] /\ order[o.r] <= order[c.r]
  BY <1>1, <1>6, <1>7
<1>9. QED
  BY <1>6, <1>8 DEF Top

(* resolve_fact looks at the states again. *)
LEMMA ResolveFilters ==
  ASSUME RecTypes, NEW found, found \subseteq Candidate, NEW mode, answer' = Resolve(found, mode)
  PROVE  PlansOnActiveFacts'
<1> DEFINE live == {c \in found : c.state = "active"}
<1>1. live # {} => Top(live) \in live
  BY TopExists
<1>2. \/ answer'.mode = "audit"
      \/ /\ answer'.listed = live
         /\ answer'.chosen = None \/ (live # {} /\ answer'.chosen = Top(live))
  <2>1. /\ answer'.mode = mode
        /\ answer'.listed = IF mode = "audit" THEN found ELSE live
        /\ answer'.chosen = IF mode = "audit" \/ (mode = "sensitive" /\ Tied(live)) \/ live = {} THEN None ELSE Top(live)
    BY Zenon DEF Resolve
  <2> HIDE DEF live
  <2>2. CASE mode = "audit"
    BY <2>1, <2>2
  <2>3. CASE mode # "audit"
    <3>1. answer'.listed = live
      BY <2>1, <2>3
    <3>2. answer'.chosen = None \/ (live # {} /\ answer'.chosen = Top(live))
      <4>1. CASE live = {}
        BY <2>1, <4>1
      <4>2. CASE live # {}
        BY <2>1, <2>3, <4>2
      <4>3. QED
        BY <4>1, <4>2
    <3>3. QED
      BY <3>1, <3>2
  <2>4. QED
    BY <2>2, <2>3
<1>3. QED
  BY <1>1, <1>2 DEF PlansOnActiveFacts

(* created_at of a new row is a number. *)
LEMMA StampType == ASSUME RecTypes PROVE Stamp \in Nat
<1> DEFINE T == {0} \cup {order[q] : q \in Recs}
<1>1. \A q \in Recs : order[q] \in Nat
  BY DEF RecTypes
<1>2. \E x \in T : \A y \in T : x >= y
  <2>1. CASE Recs = {}
    BY <2>1
  <2>2. CASE Recs # {}
    <3>1. PICK r \in Recs : \A q \in Recs : order[q] <= order[r]
      BY <2>2, MemoryAssumption, GreatestOf DEF RecTypes
    <3>2. order[r] \in T /\ order[r] >= 0
      BY <1>1
    <3>3. \A y \in T : order[r] >= y
      BY <1>1, <3>1, <3>2
    <3>4. QED
      BY <3>2, <3>3
  <2>3. QED
    BY <2>1, <2>2
<1>3. T \subseteq Nat
  BY <1>1
<1>4. Max(T) \in T
  <2> HIDE DEF T
  <2>1. QED
    BY <1>2 DEF Max
<1>5. Max(T) \in Nat
  BY <1>3, <1>4
<1>6. QED
  BY <1>5 DEF Stamp, Clock

(* The commit keeps the new row and the flip of its parents together. *)
LEMMA CommitStep ==
  ASSUME RecInv, NEW s \in Sessions, Commit(s)
  PROVE  RecInv'
<1> DEFINE q == req[s]
<1>1. /\ q.pc = "commit" /\ rows' = Applied(s) /\ answer' = None /\ UNCHANGED qcache
      /\ req' = [req EXCEPT ![s] = Idle]
      /\ order' = [r \in Recs |-> IF r \in q.puts THEN Stamp ELSE order[r]]
  BY DEF Commit
<1>2. ReqOK(q)
  BY DEF RecInv
<1>3. /\ rows' = [r \in Recs |-> rows'[r]]
      /\ \A r \in Recs : rows'[r] = IF q.flips[r] # "none" THEN q.flips[r]
                                    ELSE IF r \in q.puts THEN "active" ELSE rows[r]
  BY <1>1 DEF Applied
<1>4. \A r \in Recs : rows'[r] \in States \cup {"none"} /\ (rows[r] # "none" \/ r \in q.puts => rows'[r] # "none")
  BY <1>2, <1>3 DEF ReqOK, RecInv, RecTypes, States
<1>5. RecTypes'
  <2>1. rows' \in [Recs -> States \cup {"none"}]
    BY <1>3, <1>4
  <2>2. order' \in [Recs -> Nat]
    BY <1>1, StampType DEF RecInv, RecTypes
  <2>3. QED
    BY <1>1, <2>1, <2>2 DEF RecInv, RecTypes
<1>6. \A o \in Sessions : ReqOK(req[o])'
  <2>1. req'[s] = Idle /\ \A o \in Sessions \ {s} : req'[o] = req[o]
    BY <1>1 DEF RecInv, RecTypes
  <2>2. ReqOK(Idle)'
    BY DEF ReqOK, IsReq, Idle
  <2>3. ASSUME NEW o \in Sessions \ {s} PROVE ReqOK(req[o])'
    <3>1. ReqOK(req[o]) /\ req'[o] = req[o]
      BY <2>1 DEF RecInv
    <3>2. QED
      BY <1>4, <3>1 DEF ReqOK, IsReq, Outweighed
  <2>4. ReqOK(req[s])'
    BY <2>1, <2>2
  <2>5. QED
    BY <2>3, <2>4
<1>7. SupersededBySomething'
  <2> SUFFICES ASSUME NEW p \in Recs, rows'[p] = "superseded"
               PROVE  \E r \in Recs : rows'[r] # "none" /\ p \in Cites[r] /\ Trust[r] >= Trust[p] + TrustDelta
    BY DEF SupersededBySomething
  <2>1. CASE q.flips[p] = "superseded"
    <3>1. q.rec \in Recs /\ p \in Outweighed(q.rec) /\ (q.rec \in q.puts \/ rows[q.rec] # "none")
      BY <1>1, <1>2, <2>1 DEF ReqOK
    <3>2. rows'[q.rec] # "none"
      BY <1>4, <3>1
    <3>3. QED
      BY <3>1, <3>2 DEF Outweighed
  <2>2. CASE q.flips[p] # "superseded"
    <3>1. rows[p] = "superseded"
      BY <1>2, <1>3, <2>2 DEF ReqOK
    <3>2. PICK r \in Recs : rows[r] # "none" /\ p \in Cites[r] /\ Trust[r] >= Trust[p] + TrustDelta
      BY <3>1 DEF RecInv, SupersededBySomething
    <3>3. QED
      BY <1>4, <3>2
  <2>3. QED
    BY <2>1, <2>2
<1>8. PlansOnActiveFacts'
  BY <1>1 DEF PlansOnActiveFacts
<1>9. QED
  BY <1>5, <1>6, <1>7, <1>8 DEF RecInv

LEMMA RecNext == RecInv /\ [Next]_vars => RecInv'
<1> SUFFICES ASSUME RecInv, [Next]_vars PROVE RecInv'
  OBVIOUS
<1>0. /\ ReqOK(Idle) /\ Idle.pc = "idle" /\ Idle.op = "none" /\ Idle.puts = {} /\ IsReq(Idle)
      /\ \A r \in Recs : Idle.flips[r] = "none"
  BY IdleOK
<1>1. ASSUME NEW s \in Sessions, NEW r \in Recs, WriteMemory(s, r)
      PROVE  RecInv'
  <2> DEFINE q == [Idle EXCEPT !.pc = "put", !.op = "write", !.rec = r]
  <2>1. ReqOK(q)
    <3>1. q.pc = "put" /\ q.op = "write" /\ q.rec = r /\ q.flips = Idle.flips
      BY DEF Idle
    <3>2. q = [x \in {"pc", "op", "rec", "seen", "flips", "puts"} |-> q[x]]
      BY DEF Idle
    <3> HIDE DEF q
    <3>3. IsReq(q)
      BY <3>2 DEF IsReq
    <3>4. QED
      BY <1>0, <3>1, <3>3 DEF ReqOK
  <2>2. req' = [req EXCEPT ![s] = q] /\ UNCHANGED <<rows, order, qcache>> /\ answer' = None
    BY <1>1 DEF WriteMemory, Start
  <2> HIDE DEF q
  <2>3. QED
    BY <2>1, <2>2, ReqChange
<1>2. ASSUME NEW s \in Sessions, NEW t \in Recs, Tombstone(s, t)
      PROVE  RecInv'
  <2> DEFINE q == [Idle EXCEPT !.pc = "put", !.op = "tombstone", !.rec = t, !.seen = {Target[t]}]
  <2>1. ReqOK(q)
    <3>1. q.pc = "put" /\ q.op = "tombstone" /\ q.flips = Idle.flips
      BY DEF Idle
    <3>2. q = [x \in {"pc", "op", "rec", "seen", "flips", "puts"} |-> q[x]]
      BY DEF Idle
    <3> HIDE DEF q
    <3>3. IsReq(q)
      BY <3>2 DEF IsReq
    <3>4. QED
      BY <1>0, <3>1, <3>3 DEF ReqOK
  <2>2. req' = [req EXCEPT ![s] = q] /\ UNCHANGED <<rows, order, qcache>> /\ answer' = None
    BY <1>2 DEF Tombstone
  <2> HIDE DEF q
  <2>3. QED
    BY <2>1, <2>2, ReqChange
<1>3. ASSUME NEW s \in Sessions, NEW r \in Recs, Delete(s, r)
      PROVE  RecInv'
  <2> DEFINE q == [Idle EXCEPT !.pc = "flip", !.op = "delete", !.rec = r, !.seen = {r}]
  <2>1. ReqOK(q)
    <3>1. q.pc = "flip" /\ q.op = "delete" /\ q.flips = Idle.flips
      BY DEF Idle
    <3>2. q = [x \in {"pc", "op", "rec", "seen", "flips", "puts"} |-> q[x]]
      BY DEF Idle
    <3> HIDE DEF q
    <3>3. IsReq(q)
      BY <3>2 DEF IsReq
    <3>4. QED
      BY <1>0, <3>1, <3>3 DEF ReqOK
  <2>2. req' = [req EXCEPT ![s] = q] /\ UNCHANGED <<rows, order, qcache>> /\ answer' = None
    BY <1>3 DEF Delete
  <2> HIDE DEF q
  <2>3. QED
    BY <2>1, <2>2, ReqChange
<1>4. ASSUME NEW s \in Sessions, Collect(s)
      PROVE  RecInv'
  <2> DEFINE q == [Idle EXCEPT !.pc = "flip", !.op = "collect", !.seen = {r \in overdue : rows[r] \in {"active", "superseded"}}]
  <2>1. ReqOK(q)
    <3>1. q.pc = "flip" /\ q.op = "collect" /\ q.flips = Idle.flips
      BY DEF Idle
    <3>2. q = [x \in {"pc", "op", "rec", "seen", "flips", "puts"} |-> q[x]]
      BY DEF Idle
    <3> HIDE DEF q
    <3>3. IsReq(q)
      BY <3>2 DEF IsReq
    <3>4. QED
      BY <1>0, <3>1, <3>3 DEF ReqOK
  <2>2. req' = [req EXCEPT ![s] = q] /\ UNCHANGED <<rows, order, qcache>> /\ answer' = None
    BY <1>4 DEF Collect
  <2> HIDE DEF q
  <2>3. QED
    BY <2>1, <2>2, ReqChange
<1>5. ASSUME NEW s \in Sessions, Put(s)
      PROVE  RecInv'
  <2> DEFINE o == req[s]
             q == [pc |-> IF o.op = "tombstone" THEN "flip" ELSE IF o.rec \in Unsigned THEN "clear" ELSE "parents",
                   op |-> o.op, rec |-> o.rec, seen |-> o.seen, flips |-> o.flips,
                   puts |-> IF Exists(o.rec) THEN {} ELSE {o.rec}]
  <2>1. ReqOK(o) /\ o.pc = "put"
    BY <1>5 DEF RecInv, Put
  <2>2. req' = [req EXCEPT ![s] = q] /\ UNCHANGED <<rows, order, qcache>> /\ answer' = None
    <3>1. o = [pc |-> o.pc, op |-> o.op, rec |-> o.rec, seen |-> o.seen, flips |-> o.flips, puts |-> o.puts]
      BY <2>1 DEF ReqOK, IsReq
    <3>2. req = [x \in Sessions |-> req[x]]
      BY DEF RecInv, RecTypes
    <3>3. req'[s] = q
      BY <1>5, <3>1, <3>2 DEF Put
    <3>4. req' = [x \in Sessions |-> req'[x]] /\ \A x \in Sessions \ {s} : req'[x] = req[x]
      BY <1>5, <3>2 DEF Put
    <3>5. req' = [req EXCEPT ![s] = q]
      BY <3>2, <3>3, <3>4
    <3>6. QED
      BY <1>5, <3>5 DEF Put
  <2>3. ReqOK(q)
    BY <2>1 DEF ReqOK, IsReq, Exists
  <2> HIDE DEF q
  <2>4. QED
    BY <2>2, <2>3, ReqChange
<1>6. ASSUME NEW s \in Sessions, LoadParents(s)
      PROVE  RecInv'
  <2> DEFINE o == req[s]
             q == [pc |-> "flip", op |-> o.op, rec |-> o.rec,
                   seen |-> {p \in Outweighed(o.rec) : rows[p] = "active"}, flips |-> o.flips, puts |-> o.puts]
  <2>1. ReqOK(o) /\ o.pc = "parents"
    BY <1>6 DEF RecInv, LoadParents
  <2>2. req' = [req EXCEPT ![s] = q] /\ UNCHANGED <<rows, order, qcache>> /\ answer' = None
    <3>1. o = [pc |-> o.pc, op |-> o.op, rec |-> o.rec, seen |-> o.seen, flips |-> o.flips, puts |-> o.puts]
      BY <2>1 DEF ReqOK, IsReq
    <3>2. req = [x \in Sessions |-> req[x]]
      BY DEF RecInv, RecTypes
    <3>3. req'[s] = q
      BY <1>6, <3>1, <3>2 DEF LoadParents
    <3>4. req' = [x \in Sessions |-> req'[x]] /\ \A x \in Sessions \ {s} : req'[x] = req[x]
      BY <1>6, <3>2 DEF LoadParents
    <3>5. req' = [req EXCEPT ![s] = q]
      BY <3>2, <3>3, <3>4
    <3>6. QED
      BY <1>6, <3>5 DEF LoadParents
  <2>3. ReqOK(q)
    BY <2>1 DEF ReqOK, IsReq
  <2> HIDE DEF q
  <2>4. QED
    BY <2>2, <2>3, ReqChange
<1>7. ASSUME NEW s \in Sessions, Flip(s)
      PROVE  RecInv'
  <2> DEFINE o == req[s]
             q == [pc |-> IF o.op = "collect" THEN "commit" ELSE "clear", op |-> o.op, rec |-> o.rec, seen |-> o.seen,
                   flips |-> [r \in Recs |-> IF r \in o.seen THEN Flipped(s) ELSE "none"], puts |-> o.puts]
  <2>1. ReqOK(o) /\ o.pc = "flip"
    BY <1>7 DEF RecInv, Flip
  <2>2. req' = [req EXCEPT ![s] = q] /\ UNCHANGED <<rows, order, qcache>> /\ answer' = None
    <3>1. o = [pc |-> o.pc, op |-> o.op, rec |-> o.rec, seen |-> o.seen, flips |-> o.flips, puts |-> o.puts]
      BY <2>1 DEF ReqOK, IsReq
    <3>2. req = [x \in Sessions |-> req[x]]
      BY DEF RecInv, RecTypes
    <3>3. req'[s] = q
      BY <1>7, <3>1, <3>2 DEF Flip
    <3>4. req' = [x \in Sessions |-> req'[x]] /\ \A x \in Sessions \ {s} : req'[x] = req[x]
      BY <1>7, <3>2 DEF Flip
    <3>5. req' = [req EXCEPT ![s] = q]
      BY <3>2, <3>3, <3>4
    <3>6. QED
      BY <1>7, <3>5 DEF Flip
  <2>3. /\ \A r \in Recs : q.flips[r] = IF r \in o.seen THEN Flipped(s) ELSE "none"
        /\ q.pc \in {"clear", "commit"} /\ q.op = o.op /\ q.rec = o.rec /\ q.puts = o.puts /\ IsReq(q)
        /\ Flipped(s) = IF o.op = "write" THEN "superseded" ELSE "tombstoned"
    BY DEF IsReq, Flipped
  <2> HIDE DEF q
  <2>4. ReqOK(q)
    BY <2>1, <2>3 DEF ReqOK
  <2>5. QED
    BY <2>2, <2>4, ReqChange
<1>8. ASSUME NEW s \in Sessions, Invalidate(s)
      PROVE  RecInv'
  <2> DEFINE o == req[s]
             q == [pc |-> "commit", op |-> o.op, rec |-> o.rec, seen |-> o.seen, flips |-> o.flips, puts |-> o.puts]
  <2>1. ReqOK(o) /\ o.pc = "clear"
    BY <1>8 DEF RecInv, Invalidate
  <2>2. req' = [req EXCEPT ![s] = q] /\ UNCHANGED <<rows, order>> /\ qcache' = None /\ answer' = None
    <3>1. o = [pc |-> o.pc, op |-> o.op, rec |-> o.rec, seen |-> o.seen, flips |-> o.flips, puts |-> o.puts]
      BY <2>1 DEF ReqOK, IsReq
    <3>2. req = [x \in Sessions |-> req[x]]
      BY DEF RecInv, RecTypes
    <3>3. req'[s] = q
      BY <1>8, <3>1, <3>2 DEF Invalidate
    <3>4. req' = [x \in Sessions |-> req'[x]] /\ \A x \in Sessions \ {s} : req'[x] = req[x]
      BY <1>8, <3>2 DEF Invalidate
    <3>5. req' = [req EXCEPT ![s] = q]
      BY <3>2, <3>3, <3>4
    <3>6. QED
      BY <1>8, <3>5 DEF Invalidate
  <2>3. ReqOK(q)
    BY <2>1 DEF ReqOK, IsReq
  <2> HIDE DEF q
  <2>4. QED
    BY <2>2, <2>3, ReqChange
<1>9. ASSUME NEW s \in Sessions, Rollback(s)
      PROVE  RecInv'
  BY <1>0, <1>9, ReqChange DEF Rollback
<1>10. ASSUME NEW s \in Sessions, NEW mode \in {"planning", "sensitive", "audit"}, AskFact(s, mode)
       PROVE  RecInv'
  <2>1. CASE qcache # None
    <3>1. UNCHANGED <<rows, order, req, qcache>> /\ answer' = Resolve(qcache, mode)
      BY <1>10, <2>1 DEF AskFact, Answer
    <3>2. PlansOnActiveFacts'
      BY <2>1, <3>1, ResolveFilters DEF RecInv, RecTypes
    <3>3. RecTypes' /\ \A o \in Sessions : ReqOK(req[o])'
      BY <3>1 DEF RecInv, RecTypes, ReqOK, IsReq
    <3>4. QED
      BY <3>1, <3>2, <3>3 DEF RecInv, SupersededBySomething
  <2>2. CASE qcache = None
    <3> DEFINE q == [Idle EXCEPT !.pc = "store", !.op = mode, !.seen = Found(Asked(mode))]
    <3>1. Asked(mode) \subseteq States
      BY DEF Asked, States
    <3>2. Found(Asked(mode)) \subseteq Candidate
      BY <3>1 DEF Found, Candidate
    <3>3. ReqOK(q)
      <4>1. q.pc = "store" /\ q.op = mode /\ q.seen = Found(Asked(mode)) /\ q.flips = Idle.flips
        BY DEF Idle
      <4>2. q = [x \in {"pc", "op", "rec", "seen", "flips", "puts"} |-> q[x]]
        BY DEF Idle
      <4> HIDE DEF q
      <4>3. IsReq(q)
        BY <4>2 DEF IsReq
      <4>4. QED
        BY <1>0, <3>2, <4>1, <4>3 DEF ReqOK
    <3>4. req' = [req EXCEPT ![s] = q] /\ UNCHANGED <<rows, order, qcache>> /\ answer' = None
      BY <1>10, <2>2 DEF AskFact
    <3> HIDE DEF q
    <3>5. QED
      BY <3>3, <3>4, ReqChange
  <2>3. QED
    BY <2>1, <2>2
<1>11. ASSUME NEW s \in Sessions, StoreResult(s)
       PROVE  RecInv'
  <2>1. /\ req[s].pc = "store" /\ UNCHANGED <<rows, order>> /\ req' = [req EXCEPT ![s] = Idle]
        /\ qcache' \in {qcache, req[s].seen} /\ answer' = Resolve(req[s].seen, req[s].op)
    BY <1>11 DEF StoreResult, Answer
  <2>2. req[s].seen \subseteq Candidate
    BY <2>1 DEF RecInv, ReqOK
  <2>3. PlansOnActiveFacts'
    BY <2>1, <2>2, ResolveFilters DEF RecInv
  <2>4. RecTypes'
    BY <2>1, <2>2 DEF RecInv, RecTypes
  <2>5. \A o \in Sessions : ReqOK(req[o])'
    <3>1. req'[s] = Idle /\ \A o \in Sessions \ {s} : req'[o] = req[o]
      BY <2>1 DEF RecInv, RecTypes
    <3>2. ReqOK(req[s])'
      BY <1>0, <2>1, <3>1 DEF ReqOK, IsReq
    <3>3. \A o \in Sessions \ {s} : ReqOK(req[o])'
      BY <2>1, <3>1 DEF RecInv, ReqOK, IsReq
    <3>4. QED
      BY <3>2, <3>3
  <2>6. QED
    BY <2>1, <2>3, <2>4, <2>5 DEF RecInv, SupersededBySomething
<1>12. CASE Settle \/ ResultExpires \/ UNCHANGED vars
  BY <1>12, NoReqChange DEF Settle, ResultExpires, vars
<1>13. ASSUME NEW r \in Recs, Expire(r)
       PROVE  RecInv'
  BY <1>13, NoReqChange DEF Expire
<1>14. ASSUME \/ \E p \in Prompts, cap \in Caps : CheckCache(p, cap) \/ \E a \in Answers : StoreInCache(p, cap, a)
              \/ Release \/ CollectCache
              \/ \E e \in entries : EntryExpires(e)
       PROVE  RecInv'
  <2>1. UNCHANGED recvars
    BY <1>14, Zenon DEF CheckCache, StoreInCache, Release, CollectCache, EntryExpires
  <2>2. QED
    BY <2>1, NoReqChange DEF recvars
<1>15. QED
  BY <1>1, <1>2, <1>3, <1>4, <1>5, <1>6, <1>7, <1>8, <1>9, <1>10, <1>11, <1>12, <1>13, <1>14, CommitStep
  DEF Next, Progress

LEMMA RecAlways == Spec => []RecInv
<1>1. Init => RecInv
  BY IdleOK DEF Init, RecInv, RecTypes, SupersededBySomething, PlansOnActiveFacts, States
<1>2. QED
  BY <1>1, RecNext, PTL DEF Spec

(* For any requests that interleave, fail and roll back: a fact is         *)
(* superseded only when a committed record cites and outweighs it.         *)
THEOREM NothingSupersededByNothing == Spec => []SupersededBySomething
BY RecAlways, PTL DEF RecInv

(* For any order of reads, writes and cache hits: a planning or sensitive  *)
(* answer rests on active records only, although the three modes of        *)
(* resolve_fact share one cache entry.                                     *)
THEOREM PlansAlwaysOnActiveFacts == Spec => []PlansOnActiveFacts
BY RecAlways, PTL DEF RecInv

-----------------------------------------------------------------------------
(* The rows of the semantic cache have their own ids, and none holds an    *)
(* answer that its own marker list knows.                                  *)
EntriesOK ==
    /\ entries \subseteq Entry /\ IsFiniteSet(entries)
    /\ stores \in 0..MaxStores /\ guard \in DOMAIN Poisons
    /\ \A e \in entries : e.id <= stores /\ Cacheable(e.ver, e.text)
    /\ \A e, o \in entries : e.id = o.id => e = o

SemInv == EntriesOK /\ NothingHidden

(* One row is looked at, the nearest; when it does not serve, none would.  *)
LEMMA CheckCacheStep ==
  ASSUME EntriesOK, NEW p \in Prompts, NEW cap, CheckCache(p, cap)
  PROVE  SemInv'
<1> DEFINE E == Eligible(cap)
           near == {e \in E : \A o \in E : Near[p][o.prompt] <= Near[p][e.prompt]}
<1>1. UNCHANGED <<entries, guard, stores>>
  BY DEF CheckCache
<1>2. EntriesOK'
  BY <1>1 DEF EntriesOK, Cacheable
<1>3. E \in SUBSET entries /\ E \subseteq Entry /\ \A e \in E : e.ver = guard /\ Cacheable(guard, e.text)
  BY DEF EntriesOK, Eligible
<1>4. \A e \in E : e # None /\ Near[p][e.prompt] \in Nat
  BY <1>3, EntryAssumption, MemoryAssumption DEF Entry
<1>5. E # {} => near # {}
  <2> DEFINE f == [e \in E |-> Near[p][e.prompt]]
  <2>1. f \in [E -> Nat]
    BY <1>4
  <2>2. IsFiniteSet(E)
    BY <1>3, FS_Subset DEF EntriesOK
  <2>3. \A e \in E : f[e] = Near[p][e.prompt]
    OBVIOUS
  <2> HIDE DEF E, f
  <2>4. E # {} => \E x \in E : \A y \in E : f[y] <= f[x]
    BY <2>1, <2>2, GreatestOf
  <2>5. QED
    BY <2>3, <2>4
<1>6. ASSUME lookup'.hit = None
      PROVE  lookup'.prompt = p /\ lookup'.cap = cap /\ \A o \in E : Near[p][o.prompt] < Threshold
  <2>1. CASE near = {} /\ lookup' = [prompt |-> p, cap |-> cap, hit |-> None]
    <3>1. E = {}
      BY <1>5, <2>1
    <3> HIDE DEF E
    <3>2. QED
      BY <2>1, <3>1
  <2>2. ASSUME NEW e \in near,
               lookup' = [prompt |-> p, cap |-> cap,
                          hit |-> IF Near[p][e.prompt] >= Threshold /\ Cacheable(guard, e.text) THEN e ELSE None]
        PROVE  lookup'.prompt = p /\ lookup'.cap = cap /\ \A o \in E : Near[p][o.prompt] < Threshold
    <3>1. e \in E /\ \A o \in E : Near[p][o.prompt] <= Near[p][e.prompt]
      BY <2>2
    <3>2. Cacheable(guard, e.text) /\ e # None
      BY <1>3, <1>4, <3>1
    <3>3. ~ (Near[p][e.prompt] >= Threshold)
      BY <1>6, <2>2, <3>2
    <3>4. \A o \in E : Near[p][o.prompt] < Threshold
      BY <1>4, <3>1, <3>3, MemoryAssumption
    <3>5. QED
      BY <2>2, <3>4
  <2>3. QED
    BY <2>1, <2>2 DEF CheckCache
<1>7. NothingHidden'
  <2> SUFFICES ASSUME lookup' # None, lookup'.hit = None
               PROVE  \A e \in Eligible(lookup.cap)' : Near[lookup'.prompt][e.prompt] < Threshold
    BY DEF NothingHidden
  <2>1. lookup'.prompt = p /\ lookup'.cap = cap /\ \A o \in E : Near[p][o.prompt] < Threshold
    BY <1>6
  <2>2. Eligible(lookup.cap)' = E
    BY <1>1, <2>1 DEF Eligible
  <2> HIDE DEF E
  <2>3. QED
    BY <2>1, <2>2
<1>8. QED
  BY <1>2, <1>7 DEF SemInv

LEMMA SemNext == SemInv /\ [Next]_vars => SemInv'
<1> SUFFICES ASSUME SemInv, [Next]_vars PROVE SemInv'
  OBVIOUS
<1>a. lookup' = None => NothingHidden'
  BY DEF NothingHidden
<1>1. CASE UNCHANGED semvars
  BY <1>1 DEF semvars, SemInv, EntriesOK, NothingHidden, Eligible, Cacheable
<1>2. ASSUME NEW p \in Prompts, NEW cap \in Caps, NEW text \in Answers, StoreInCache(p, cap, text)
      PROVE  SemInv'
  <2> DEFINE e == [id |-> stores + 1, prompt |-> p, cap |-> cap, ver |-> guard, text |-> text, live |-> TRUE]
  <2>1. /\ stores < MaxStores /\ stores' = stores + 1 /\ Cacheable(guard, text) /\ UNCHANGED guard
        /\ entries' = entries \cup {e} /\ lookup' = None
    BY <1>2 DEF StoreInCache, Storable
  <2>2. stores + 1 \in 1..MaxStores /\ stores \in Nat
    BY <2>1, MemoryAssumption DEF SemInv, EntriesOK
  <2>3. e \in Entry /\ e.id = stores + 1 /\ e.ver = guard /\ e.text = text
    BY <2>2 DEF Entry, SemInv, EntriesOK
  <2> HIDE DEF e
  <2>4. IsFiniteSet(entries')
    BY <2>1, FS_AddElement DEF SemInv, EntriesOK
  <2>5. \A o \in entries : o.id \in Nat /\ o.id <= stores
    BY DEF SemInv, EntriesOK, Entry
  <2>6. \A o \in entries : o.id # e.id /\ o.id <= stores'
    BY <2>1, <2>2, <2>3, <2>5
  <2>7. \A x, y \in entries' : x.id = y.id => x = y
    BY <2>1, <2>6 DEF SemInv, EntriesOK
  <2>8. EntriesOK'
    BY <2>1, <2>2, <2>3, <2>4, <2>6, <2>7 DEF SemInv, EntriesOK, Cacheable
  <2>9. QED
    BY <1>a, <2>1, <2>8 DEF SemInv
<1>3. ASSUME NEW p \in Prompts, NEW cap \in Caps, CheckCache(p, cap)
      PROVE  SemInv'
  BY <1>3, CheckCacheStep DEF SemInv
<1>4. CASE Release
  <2>1. EntriesOK' /\ lookup' = None
    BY <1>4 DEF Release, SemInv, EntriesOK, Cacheable
  <2>2. QED
    BY <1>a, <2>1 DEF SemInv
<1>5. CASE CollectCache
  <2>1. entries' = Kept /\ lookup' = None /\ UNCHANGED <<guard, stores>>
    BY <1>5 DEF CollectCache
  <2>2. entries' \in SUBSET entries
    BY <2>1 DEF Kept, Newest
  <2>3. IsFiniteSet(entries')
    BY <2>2, FS_Subset DEF SemInv, EntriesOK
  <2>4. EntriesOK'
    BY <2>1, <2>2, <2>3 DEF SemInv, EntriesOK, Cacheable
  <2>5. QED
    BY <1>a, <2>1, <2>4 DEF SemInv
<1>6. ASSUME NEW e \in entries, EntryExpires(e)
      PROVE  SemInv'
  <2> DEFINE d == [e EXCEPT !.live = FALSE]
  <2>1. entries' = (entries \ {e}) \cup {d} /\ lookup' = None /\ UNCHANGED <<guard, stores>>
    BY <1>6 DEF EntryExpires
  <2>2. d \in Entry /\ d.id = e.id /\ d.ver = e.ver /\ d.text = e.text
    BY DEF SemInv, EntriesOK, Entry
  <2> HIDE DEF d
  <2>3. IsFiniteSet(entries')
    BY <2>1, FS_AddElement, FS_RemoveElement DEF SemInv, EntriesOK
  <2>4. \A o \in entries \ {e} : o.id # d.id
    BY <2>2 DEF SemInv, EntriesOK
  <2>5. \A x, y \in entries' : x.id = y.id => x = y
    BY <2>1, <2>4 DEF SemInv, EntriesOK
  <2>6. EntriesOK'
    BY <2>1, <2>2, <2>3, <2>5 DEF SemInv, EntriesOK, Cacheable
  <2>7. QED
    BY <1>a, <2>1, <2>6 DEF SemInv
<1>7. \/ UNCHANGED semvars
      \/ \E p \in Prompts, cap \in Caps : CheckCache(p, cap) \/ \E a \in Answers : StoreInCache(p, cap, a)
      \/ Release \/ CollectCache
      \/ \E e \in entries : EntryExpires(e)
  <2>1. UNCHANGED vars => UNCHANGED semvars
    BY DEF vars, semvars
  <2>2. QED
    BY <2>1, Zenon DEF Next, Progress, Put, LoadParents, Flip, Invalidate, Commit, StoreResult, Rollback, Collect, WriteMemory,
               Tombstone, Delete, AskFact, Settle, ResultExpires, Expire
<1>8. QED
  BY <1>1, <1>2, <1>3, <1>4, <1>5, <1>6, <1>7

LEMMA SemAlways == Spec => []SemInv
<1>1. Init => SemInv
  BY MemoryAssumption, EntryAssumption, FS_EmptySet DEF Init, SemInv, EntriesOK, NothingHidden
<1>2. QED
  BY <1>1, SemNext, PTL DEF Spec

(* For any prompts, similarities, marker lists and releases: a lookup that *)
(* misses hides nothing; the one row that _check_semantic_cache fetches is *)
(* never a degraded answer with a good one behind it.                      *)
THEOREM NothingIsHidden == Spec => []NothingHidden
BY SemAlways, PTL DEF SemInv

-----------------------------------------------------------------------------
(* Of a finite set of rows with ids of their own, the n newest are n rows, *)
(* or all of them.                                                         *)
LEMMA NewestCount ==
  ASSUME NEW U, \A e \in U : e.id \in Nat, \A e, o \in U : e.id = o.id => e = o,
         NEW n \in Nat, NEW S \in SUBSET U, IsFiniteSet(S)
  PROVE  Newest(S, n) = S \/ Cardinality(Newest(S, n)) >= n
<1> DEFINE Good(L) == Newest(L, n) = L \/ Cardinality(Newest(L, n)) >= n
           Bad == {k \in Nat : \E L \in SUBSET U : IsFiniteSet(L) /\ Cardinality(L) = k /\ ~ Good(L)}
<1>1. SUFFICES ASSUME Bad # {} PROVE FALSE
  <2>1. Cardinality(S) \in Nat
    BY FS_CardinalityType
  <2>2. QED
    BY <1>1, <2>1
<1>2. PICK k \in Bad : \A j \in Bad : k <= j
  <2>1. Bad \in SUBSET Nat
    OBVIOUS
  <2> HIDE DEF Bad
  <2>2. QED
    BY <1>1, <2>1, LeastNat
<1>3. PICK L \in SUBSET U : IsFiniteSet(L) /\ Cardinality(L) = k /\ ~ Good(L)
  BY <1>2
<1>4. L # {}
  <2>1. Newest({}, n) = {}
    BY DEF Newest
  <2>2. QED
    BY <1>3, <2>1
<1>5. PICK m \in L : \A e \in L : m.id <= e.id
  <2> DEFINE T == {e.id : e \in L}
  <2>1. T \in SUBSET Nat /\ T # {}
    BY <1>4
  <2>2. PICK x \in T : \A y \in T : x <= y
    BY <2>1, LeastNat
  <2>3. QED
    BY <2>2
<1> DEFINE R == L \ {m}
           After(W, e) == {o \in W : o.id > e.id}
<1>6. IsFiniteSet(R) /\ Cardinality(R) = k - 1 /\ Cardinality(R) \in Nat /\ k \in Nat
  BY <1>3, <1>5, FS_RemoveElement, FS_CardinalityType
<1>7. Good(R)
  <2>1. k - 1 \notin Bad
    <3>1. k - 1 < k
      BY <1>6
    <3> HIDE DEF Bad
    <3>2. QED
      BY <1>2, <1>6, <3>1
  <2>2. R \in SUBSET U
    OBVIOUS
  <2> HIDE DEF R, Good
  <2>3. QED
    BY <1>6, <2>1, <2>2
<1>8. \A e \in R : After(L, e) = After(R, e)
  BY <1>5
<1>9. Newest(R, n) = {e \in R : Cardinality(After(R, e)) < n} /\ Newest(L, n) = {e \in L : Cardinality(After(L, e)) < n}
  BY DEF Newest
<1>10. Newest(R, n) \subseteq Newest(L, n) /\ Newest(L, n) \subseteq Newest(R, n) \cup {m}
  <2> HIDE DEF After
  <2>1. QED
    BY <1>8, <1>9
<1>11. IsFiniteSet(Newest(L, n)) /\ Cardinality(Newest(L, n)) \in Nat
  BY <1>3, <1>9, FS_Subset, FS_CardinalityType
<1>12. CASE Cardinality(Newest(R, n)) >= n
  <2>1. Cardinality(Newest(R, n)) <= Cardinality(Newest(L, n)) /\ IsFiniteSet(Newest(R, n))
    BY <1>10, <1>11, FS_Subset
  <2>2. Cardinality(Newest(R, n)) \in Nat
    BY <2>1, FS_CardinalityType
  <2>3. Cardinality(Newest(L, n)) >= n
    BY <1>11, <1>12, <2>1, <2>2
  <2>4. QED
    BY <1>3, <2>3
<1>13. CASE Newest(R, n) = R
  <2>1. CASE m \in Newest(L, n)
    <3>1. Newest(L, n) = L
      BY <1>5, <1>9, <1>10, <1>13, <2>1
    <3>2. QED
      BY <1>3, <3>1
  <2>2. CASE m \notin Newest(L, n)
    <3>1. Newest(L, n) = R
      BY <1>10, <1>13, <2>2
    <3>2. After(L, m) \in SUBSET R
      BY <1>5
    <3>3. Cardinality(After(L, m)) \in Nat /\ Cardinality(After(L, m)) <= Cardinality(R)
      BY <1>6, <3>2, FS_Subset, FS_CardinalityType
    <3>4. ~ (Cardinality(After(L, m)) < n)
      <4> HIDE DEF After
      <4>1. QED
        BY <1>5, <1>9, <2>2
    <3>5. Cardinality(R) >= n
      <4> HIDE DEF After, R
      <4>1. QED
        BY <1>6, <3>3, <3>4
    <3>6. QED
      BY <1>3, <3>1, <3>5
  <2>3. QED
    BY <2>1, <2>2
<1>14. QED
  BY <1>7, <1>12, <1>13

(* The rows that _collect_semantic_cache keeps are newer than a live one   *)
(* that it drops, and as many as the cap.                                  *)
LEMMA CollectStep ==
  ASSUME EntriesOK, entries' = Kept, NEW e \in entries, e.live, e \notin entries'
  PROVE  Cardinality({o \in entries' : o.live /\ o.id > e.id}) >= CacheCap
<1> DEFINE L == {o \in entries : o.live}
           After(x) == {o \in L : o.id > x.id}
           N == Newest(L, CacheCap)
<1>1. CacheCap \in Nat /\ CacheCap # 0 /\ entries' = N
  BY MemoryAssumption DEF Kept
<1>2. IsFiniteSet(L) /\ L \in SUBSET entries /\ e \in L
  BY FS_Subset DEF EntriesOK
<1>3. N = {x \in L : Cardinality(After(x)) < CacheCap}
  BY DEF Newest
<1>4. \A o \in entries : o.id \in Nat
  BY DEF EntriesOK, Entry
<1>5. \A x \in L : After(x) \in SUBSET L
  OBVIOUS
<1>6. \A x \in L : IsFiniteSet(After(x)) /\ Cardinality(After(x)) \in Nat
  <2> HIDE DEF After, L
  <2>1. QED
    BY <1>2, <1>5, FS_Subset, FS_CardinalityType
<1>7. ~ (Cardinality(After(e)) < CacheCap)
  <2> HIDE DEF After, L, N
  <2>1. QED
    BY <1>1, <1>2, <1>3
<1>8. ASSUME NEW x \in N PROVE x.id > e.id
  <2>1. x \in L /\ Cardinality(After(x)) < CacheCap
    BY <1>3
  <2>2. SUFFICES ASSUME ~ (x.id > e.id) PROVE FALSE
    OBVIOUS
  <2>3. x.id \in Nat /\ e.id \in Nat
    BY <1>2, <1>4, <2>1
  <2>4. \A o \in L : o.id \in Nat
    BY <1>4
  <2>5. After(e) \in SUBSET After(x)
    BY <2>2, <2>3, <2>4
  <2> HIDE DEF After, L, N
  <2>6. Cardinality(After(e)) <= Cardinality(After(x))
    BY <1>6, <2>1, <2>5, FS_Subset
  <2>7. QED
    BY <1>1, <1>2, <1>6, <1>7, <2>1, <2>6
<1>9. {o \in entries' : o.live /\ o.id > e.id} = N
  BY <1>1, <1>3, <1>8
<1>10. N = L \/ Cardinality(N) >= CacheCap
  <2>1. \A x, y \in entries : x.id = y.id => x = y
    BY DEF EntriesOK
  <2> HIDE DEF L
  <2>2. QED
    BY <1>1, <1>2, <1>4, <2>1, NewestCount
<1>11. N # L
  BY <1>1, <1>2
<1>12. QED
  BY <1>9, <1>10, <1>11

(* For any entries, expiries and cap: the collector gives up a live entry  *)
(* only for newer live ones that fill the cap.                             *)
THEOREM TrimsSurplusOnly == Spec => TrimsOnlySurplus
<1> DEFINE A == \A e \in entries : e.live /\ (entries' # entries) /\ (\A o \in entries' : o.id # e.id) =>
                  Cardinality({o \in entries' : o.live /\ o.id > e.id}) >= CacheCap
<1>1. SemInv /\ [Next]_vars => A
  <2> SUFFICES ASSUME SemInv, [Next]_vars, NEW e \in entries, e.live, entries' # entries, \A o \in entries' : o.id # e.id
               PROVE  Cardinality({o \in entries' : o.live /\ o.id > e.id}) >= CacheCap
    OBVIOUS
  <2>1. e \notin entries'
    OBVIOUS
  <2>2. ASSUME NEW p, NEW cap, NEW a, StoreInCache(p, cap, a) PROVE FALSE
    BY <2>1, <2>2 DEF StoreInCache
  <2>3. ASSUME NEW d \in entries, EntryExpires(d) PROVE FALSE
    <3>1. d = e
      BY <2>1, <2>3 DEF EntryExpires
    <3>2. [d EXCEPT !.live = FALSE] \in entries' /\ [d EXCEPT !.live = FALSE].id = d.id
      BY <2>3 DEF EntryExpires, SemInv, EntriesOK, Entry
    <3>3. QED
      BY <3>1, <3>2
  <2>4. CASE CollectCache
    BY <2>1, <2>4, CollectStep DEF CollectCache, SemInv
  <2>5. \/ \E p \in Prompts, cap \in Caps, a \in Answers : StoreInCache(p, cap, a)
        \/ CollectCache \/ \E d \in entries : EntryExpires(d)
    BY Zenon DEF Next, vars, semvars, Progress, Put, LoadParents, Flip, Invalidate, Commit, StoreResult, Rollback, Collect,
               WriteMemory, Tombstone, Delete, AskFact, Settle, ResultExpires, Expire, CheckCache, Release
  <2>6. QED
    BY <2>2, <2>3, <2>4, <2>5
<1>2. QED
  BY <1>1, SemAlways, PTL DEF Spec, TrimsOnlySurplus
=============================================================================
