---------------------------- MODULE GossipProofs ----------------------------
(***************************************************************************)
(* Proofs about Gossip, for every federation, any set of records and any   *)
(* number of workers: every stored copy keeps its foreign keys, and no     *)
(* round takes the lifecycle of a row back.                                *)
(***************************************************************************)
EXTENDS Gossip, TLAPS

(* The record that describes a gossip round. *)
RoundType ==
    [pc : {"idle", "compare", "collect", "fetch", "persist", "shadow", "flush"},
     peer : Nodes \cup {None}, ours : SUBSET Recs, todo : SUBSET {Bucket[r] : r \in Recs},
     missing : SUBSET Recs, batch : SUBSET Fetched, rec : Fetched \cup {None},
     known : SUBSET Recs, kwf : SUBSET Flows,
     mine : [Recs -> States \cup {"none"}], shadow : SUBSET Flows]

(* A round that talks to a peer has one, and one that inserts has a record. *)
Staged(rd) ==
    /\ rd.pc # "idle" => rd.peer \in Nodes
    /\ rd.pc \in {"shadow", "flush"} => rd.rec \in Fetched

(* The inductive form of the type invariant. *)
TypeInv == TypeOK /\ \A w \in Workers : Staged(round[w])

(* What a round has flushed and not committed has its foreign keys among   *)
(* the rows that its session sees.                                         *)
KeysInv ==
    /\ ForeignKeysHold
    /\ \A w \in Workers, r \in Recs :
         round[w].mine[r] # "none" => Wf[r] \in FlowView(w) /\ r \in AgentsOf[Home[w]]

-----------------------------------------------------------------------------
(* The parts of the type invariant under names of their own. *)
LEMMA TypeParts ==
  ASSUME TypeInv
  PROVE  /\ rows \in [Nodes -> [Recs -> States \cup {"none"}]]
         /\ age \in [Nodes -> [Recs -> 0..2]]
         /\ expiry \in [Nodes -> [Recs -> {"never", "set", "past"}]]
         /\ wfs \in [Nodes -> SUBSET Flows]
         /\ cache \in [Nodes -> (SUBSET Recs) \cup {None}]
         /\ round \in [Workers -> RoundType]
         /\ locals \in 0..MaxLocal /\ faults \in 0..MaxFaults
         /\ Home \in [Workers -> Nodes]
         /\ \A w \in Workers : Staged(round[w])
BY GossipAssumption DEF TypeInv, TypeOK, RoundType

(* The idle round is a round. *)
LEMMA IdleType == Idle \in RoundType /\ Staged(Idle)
BY DEF Idle, RoundType, Staged, Empty

(* A step of one worker keeps the rounds well formed. *)
LEMMA StepType ==
  ASSUME TypeInv, NEW w \in Workers, NEW rd \in RoundType, Staged(rd), Step(w, rd)
  PROVE  round' \in [Workers -> RoundType] /\ \A v \in Workers : Staged(round[v])'
BY TypeParts DEF Step, Staged

(* Putting the parts together again. *)
LEMMA TypeFromParts ==
  ASSUME rows' \in [Nodes -> [Recs -> States \cup {"none"}]],
         age' \in [Nodes -> [Recs -> 0..2]],
         expiry' \in [Nodes -> [Recs -> {"never", "set", "past"}]],
         wfs' \in [Nodes -> SUBSET Flows],
         cache' \in [Nodes -> (SUBSET Recs) \cup {None}],
         round' \in [Workers -> RoundType] /\ \A w \in Workers : Staged(round[w])',
         locals' \in 0..MaxLocal, faults' \in 0..MaxFaults
  PROVE  TypeInv'
BY DEF TypeInv, TypeOK, RoundType

(* The summary of a node is a set of records. *)
LEMMA SummaryType ==
  ASSUME TypeInv, NEW n \in Nodes
  PROVE  /\ Active(n) \subseteq Recs /\ Summary(n) \subseteq Recs
         /\ Cached(n) => cache' \in [Nodes -> (SUBSET Recs) \cup {None}]
<1>1. Active(n) \subseteq Recs /\ Summary(n) \subseteq Recs
  BY TypeParts DEF Active, Summary
<1>2. Summary(n) \in (SUBSET Recs) \cup {None}
  BY <1>1
<1>3. ASSUME Cached(n)
      PROVE  cache' \in [Nodes -> (SUBSET Recs) \cup {None}]
  BY <1>2, <1>3, TypeParts DEF Cached
<1>4. QED
  BY <1>1, <1>3

(* What a session sees has the type of what is committed. *)
LEMMA ViewType ==
  ASSUME TypeInv, NEW w \in Workers
  PROVE  View(w) \in [Recs -> States \cup {"none"}] /\ FlowView(w) \subseteq Flows
BY TypeParts DEF View, FlowView, RoundType

(* The initial state. *)
LEMMA TypeInit == Init => TypeInv
<1> SUFFICES ASSUME Init PROVE TypeInv
  OBVIOUS
<1>1. round \in [Workers -> RoundType] /\ \A w \in Workers : Staged(round[w])
  BY IdleType DEF Init
<1>2. rows \in [Nodes -> [Recs -> States \cup {"none"}]]
  BY DEF Init, Empty
<1>3. age \in [Nodes -> [Recs -> 0..2]] /\ locals \in 0..MaxLocal /\ faults \in 0..MaxFaults
  BY GossipAssumption DEF Init
<1>4. /\ expiry \in [Nodes -> [Recs -> {"never", "set", "past"}]]
      /\ wfs \in [Nodes -> SUBSET Flows]
      /\ cache \in [Nodes -> (SUBSET Recs) \cup {None}]
  BY DEF Init
<1>5. QED
  BY <1>1, <1>2, <1>3, <1>4 DEF TypeInv, TypeOK, RoundType

-----------------------------------------------------------------------------
(* Local operations. *)
LEMMA TypeLocal ==
  ASSUME TypeInv, NEW n \in Nodes, NEW r \in Recs,
         Write(n, r) \/ Tombstone(n, r) \/ Delete(n, r) \/ Age(n, r) \/ Expire(n, r)
  PROVE  TypeInv'
<1> USE TypeParts
<1>1. Target[r] \in Recs
  BY GossipAssumption
<1>2. \A state \in States : Stored(n, r, state) \in [Recs -> States \cup {"none"}]
  BY DEF Stored
<1>3. Local => locals' \in 0..MaxLocal
  BY GossipAssumption DEF Local
<1>4. round' = round => round' \in [Workers -> RoundType] /\ \A w \in Workers : Staged(round[w])'
  BY DEF Staged
<1>5. CASE Write(n, r)
  <2>1. Stored(n, r, "active") \in [Recs -> States \cup {"none"}]
    BY <1>2 DEF States
  <2>2. rows' \in [Nodes -> [Recs -> States \cup {"none"}]]
    BY <1>5, <2>1 DEF Write, States
  <2>3. expiry' \in [Nodes -> [Recs -> {"never", "set", "past"}]]
    BY <1>5 DEF Write
  <2>4. QED
    BY <1>3, <1>4, <1>5, <2>2, <2>3, TypeFromParts DEF Write
<1>6. CASE Tombstone(n, r)
  <2>1. Stored(n, r, "active") \in [Recs -> States \cup {"none"}]
    BY <1>2 DEF States
  <2>2. rows' \in [Nodes -> [Recs -> States \cup {"none"}]]
    BY <1>1, <1>6, <2>1 DEF Tombstone, States
  <2>3. QED
    BY <1>3, <1>4, <1>6, <2>2, TypeFromParts DEF Tombstone
<1>7. CASE Delete(n, r)
  <2>1. rows' \in [Nodes -> [Recs -> States \cup {"none"}]]
    BY <1>7 DEF Delete, States
  <2>2. QED
    BY <1>3, <1>4, <1>7, <2>1, TypeFromParts DEF Delete
<1>8. CASE Age(n, r)
  <2>1. age[n][r] + 1 \in 0..2
    BY <1>8 DEF Age
  <2>2. age' \in [Nodes -> [Recs -> 0..2]]
    BY <1>8, <2>1 DEF Age
  <2>3. QED
    BY <1>3, <1>4, <1>8, <2>2, TypeFromParts DEF Age
<1>9. CASE Expire(n, r)
  <2>1. expiry' \in [Nodes -> [Recs -> {"never", "set", "past"}]]
    BY <1>9 DEF Expire
  <2>2. QED
    BY <1>4, <1>9, <2>1, TypeFromParts DEF Expire
<1>10. QED
  BY <1>5, <1>6, <1>7, <1>8, <1>9

(* Garbage collection and the expiry of a cached summary. *)
LEMMA TypeNode ==
  ASSUME TypeInv, NEW n \in Nodes, GarbageCollect(n) \/ SummaryExpires(n)
  PROVE  TypeInv'
<1> USE TypeParts
<1>1. \A r \in Recs : Collected(n, r) \in States \cup {"none"}
  BY DEF Collected, States
<1>2. round' = round => round' \in [Workers -> RoundType] /\ \A w \in Workers : Staged(round[w])'
  BY DEF Staged
<1>3. CASE GarbageCollect(n)
  <2>1. rows' \in [Nodes -> [Recs -> States \cup {"none"}]]
    BY <1>1, <1>3 DEF GarbageCollect
  <2>2. age' \in [Nodes -> [Recs -> 0..2]]
    BY <1>3 DEF GarbageCollect
  <2>3. expiry' \in [Nodes -> [Recs -> {"never", "set", "past"}]]
    BY <1>3 DEF GarbageCollect
  <2>4. QED
    BY <1>2, <1>3, <2>1, <2>2, <2>3, TypeFromParts DEF GarbageCollect
<1>4. CASE SummaryExpires(n)
  <2>1. cache' \in [Nodes -> (SUBSET Recs) \cup {None}]
    BY <1>4 DEF SummaryExpires
  <2>2. QED
    BY <1>2, <1>4, <2>1, TypeFromParts DEF SummaryExpires
<1>5. QED
  BY <1>3, <1>4
-----------------------------------------------------------------------------
(* The steps of a round that read: they change the round alone, or a cache. *)
LEMMA TypeReads ==
  ASSUME TypeInv, NEW w \in Workers,
         \/ Compare(w) \/ CollectMissing(w) \/ FetchBatch(w) \/ Persist(w) \/ NextBatch(w)
         \/ \E p \in Nodes : StartRound(w, p)
  PROVE  TypeInv'
<1> USE TypeParts
<1> DEFINE rd == round[w]
<1>1. rd \in RoundType /\ Staged(rd) /\ Home[w] \in Nodes
  OBVIOUS
<1>2. ASSUME NEW p \in Nodes, StartRound(w, p)
      PROVE  TypeInv'
  <2> DEFINE new == [Idle EXCEPT !.pc = "compare", !.peer = p, !.ours = Summary(Home[w])]
  <2>1. Summary(Home[w]) \subseteq Recs /\ cache' \in [Nodes -> (SUBSET Recs) \cup {None}]
    BY <1>1, <1>2, SummaryType DEF StartRound
  <2>2. new \in RoundType /\ Staged(new)
    BY <2>1, IdleType DEF RoundType, Staged, Idle
  <2>3. Step(w, new)
    BY <1>2 DEF StartRound
  <2> HIDE DEF new
  <2>4. round' \in [Workers -> RoundType] /\ \A v \in Workers : Staged(round[v])'
    BY <2>2, <2>3, StepType
  <2>5. QED
    BY <1>2, <2>1, <2>4, TypeFromParts DEF StartRound
<1>3. CASE Compare(w)
  <2> DEFINE divergent == DivergesFrom(rd.ours, Summary(rd.peer))
             new == [rd EXCEPT !.pc = "collect", !.todo = divergent, !.ours = {}]
  <2>1. rd.peer \in Nodes
    BY <1>1, <1>3 DEF Compare, Staged
  <2>2. cache' \in [Nodes -> (SUBSET Recs) \cup {None}]
    BY <1>3, <2>1, SummaryType DEF Compare
  <2>3. divergent \subseteq {Bucket[r] : r \in Recs}
    BY DEF DivergesFrom
  <2>4. new \in RoundType /\ Staged(new)
    <3> HIDE DEF divergent
    <3> QED BY <1>1, <2>1, <2>3 DEF RoundType, Staged
  <2>5. Step(w, new) \/ Step(w, Idle)
    BY <1>3 DEF Compare
  <2> HIDE DEF new
  <2>6. round' \in [Workers -> RoundType] /\ \A v \in Workers : Staged(round[v])'
    BY <2>4, <2>5, StepType, IdleType
  <2>7. QED
    BY <1>3, <2>2, <2>6, TypeFromParts DEF Compare
<1>4. CASE CollectMissing(w)
  <2>1. rd.peer \in Nodes
    BY <1>1, <1>4 DEF CollectMissing, Staged
  <2>2. PICK b \in rd.todo :
         LET missing == rd.missing \cup (Digest(Active(rd.peer), b) \ Digest(Active(Home[w]), b))
             left == rd.todo \ {b}
         IN  IF left # {} THEN Step(w, [rd EXCEPT !.todo = left, !.missing = missing])
             ELSE IF missing = {} THEN Step(w, Idle)
             ELSE Step(w, [rd EXCEPT !.pc = "fetch", !.todo = {}, !.missing = missing])
    BY <1>4 DEF CollectMissing
  <2> DEFINE missing == rd.missing \cup (Digest(Active(rd.peer), b) \ Digest(Active(Home[w]), b))
             left == rd.todo \ {b}
             new1 == [rd EXCEPT !.todo = left, !.missing = missing]
             new2 == [rd EXCEPT !.pc = "fetch", !.todo = {}, !.missing = missing]
  <2>3. Step(w, new1) \/ Step(w, Idle) \/ Step(w, new2)
    BY <2>2
  <2>4. missing \subseteq Recs /\ left \subseteq {Bucket[r] : r \in Recs}
    BY <1>1, <2>1, SummaryType DEF Digest, RoundType
  <2>5. new1 \in RoundType /\ Staged(new1) /\ new2 \in RoundType /\ Staged(new2)
    <3> HIDE DEF missing, left
    <3> QED BY <1>1, <1>4, <2>1, <2>4 DEF RoundType, Staged, CollectMissing
  <2> HIDE DEF new1, new2
  <2>6. round' \in [Workers -> RoundType] /\ \A v \in Workers : Staged(round[v])'
    BY <2>3, <2>5, StepType, IdleType
  <2>7. QED
    BY <1>4, <2>6, TypeFromParts DEF CollectMissing
<1>5. CASE FetchBatch(w)
  <2>1. rd.peer \in Nodes
    BY <1>1, <1>5 DEF FetchBatch, Staged
  <2>2. PICK B \in SUBSET rd.missing :
          Step(w, [rd EXCEPT
                !.pc = "persist", !.missing = @ \ B,
                !.batch = {[r |-> r, state |-> rows[rd.peer][r]] : r \in Served(rd.peer, B)},
                !.known = @ \cup {r \in Served(rd.peer, B) : View(w)[r] # "none"},
                !.kwf = @ \cup ({Wf[r] : r \in Served(rd.peer, B)} \cap FlowView(w))])
    BY <1>5 DEF FetchBatch
  <2> DEFINE served == Served(rd.peer, B)
             batch == {[r |-> r, state |-> rows[rd.peer][r]] : r \in served}
             known == {r \in served : View(w)[r] # "none"}
             kwf == {Wf[r] : r \in served} \cap FlowView(w)
             new == [rd EXCEPT !.pc = "persist", !.missing = @ \ B, !.batch = batch,
                               !.known = @ \cup known, !.kwf = @ \cup kwf]
  <2>3. served \subseteq Recs /\ \A r \in served : rows[rd.peer][r] \in States \ {"tombstoned"}
    BY <1>1, <2>1 DEF Served, RoundType
  <2>4. batch \subseteq Fetched /\ known \subseteq Recs
    <3> HIDE DEF served
    <3> QED BY <2>3 DEF Fetched
  <2>5. kwf \subseteq Flows
    BY ViewType
  <2>6. new \in RoundType /\ Staged(new)
    <3> HIDE DEF batch, known, kwf
    <3> QED BY <1>1, <2>1, <2>4, <2>5 DEF RoundType, Staged
  <2>7. Step(w, new)
    BY <2>2
  <2> HIDE DEF new
  <2>8. round' \in [Workers -> RoundType] /\ \A v \in Workers : Staged(round[v])'
    BY <2>6, <2>7, StepType
  <2>9. QED
    BY <1>5, <2>8, TypeFromParts DEF FetchBatch
<1>6. CASE Persist(w)
  <2>1. rd.peer \in Nodes
    BY <1>1, <1>6 DEF Persist, Staged
  <2>2. PICK e \in rd.batch :
          \/ Step(w, [rd EXCEPT !.pc = "shadow", !.rec = e])
          \/ Step(w, [rd EXCEPT !.batch = @ \ {e}, !.known = @ \cup {e.r}, !.kwf = @ \cup {Wf[e.r]}])
          \/ Step(w, [rd EXCEPT !.pc = "flush", !.rec = e, !.kwf = @ \cup {Wf[e.r]}])
    BY <1>6 DEF Persist
  <2>3. e \in Fetched /\ e.r \in Recs /\ Wf[e.r] \in Flows
    BY <1>1, GossipAssumption DEF RoundType, Fetched
  <2> DEFINE new1 == [rd EXCEPT !.pc = "shadow", !.rec = e]
             new2 == [rd EXCEPT !.batch = @ \ {e}, !.known = @ \cup {e.r}, !.kwf = @ \cup {Wf[e.r]}]
             new3 == [rd EXCEPT !.pc = "flush", !.rec = e, !.kwf = @ \cup {Wf[e.r]}]
  <2>4. new1 \in RoundType /\ Staged(new1)
    BY <1>1, <2>1, <2>3 DEF RoundType, Staged
  <2>5. new2 \in RoundType /\ Staged(new2)
    BY <1>1, <1>6, <2>1, <2>3 DEF RoundType, Staged, Persist
  <2>6. new3 \in RoundType /\ Staged(new3)
    BY <1>1, <2>1, <2>3 DEF RoundType, Staged
  <2>7. Step(w, new1) \/ Step(w, new2) \/ Step(w, new3)
    BY <2>2
  <2> HIDE DEF new1, new2, new3
  <2>8. round' \in [Workers -> RoundType] /\ \A v \in Workers : Staged(round[v])'
    BY <2>4, <2>5, <2>6, <2>7, StepType
  <2>9. QED
    BY <1>6, <2>8, TypeFromParts DEF Persist
<1>7. CASE NextBatch(w)
  <2> DEFINE new == [rd EXCEPT !.pc = "fetch"]
  <2>1. new \in RoundType /\ Staged(new)
    BY <1>1, <1>7 DEF RoundType, Staged, NextBatch
  <2>2. Step(w, new)
    BY <1>7 DEF NextBatch
  <2> HIDE DEF new
  <2>3. round' \in [Workers -> RoundType] /\ \A v \in Workers : Staged(round[v])'
    BY <2>1, <2>2, StepType
  <2>4. QED
    BY <1>7, <2>3, TypeFromParts DEF NextBatch
<1>8. QED
  BY <1>2, <1>3, <1>4, <1>5, <1>6, <1>7

(* What the inserts leave is a round. *)
LEMMA AfterType ==
  ASSUME TypeInv, NEW w \in Workers, round[w].pc \in {"shadow", "flush"}
  PROVE  /\ AfterShadow(w) \in RoundType /\ Staged(AfterShadow(w))
         /\ AfterFlush(w) \in RoundType /\ Staged(AfterFlush(w))
<1> USE TypeParts
<1> DEFINE rd == round[w]
<1>1. rd \in RoundType /\ rd.peer \in Nodes /\ rd.rec \in Fetched
  BY DEF Staged
<1>2. rd.rec.r \in Recs /\ Wf[rd.rec.r] \in Flows /\ rd.rec.state \in States \cup {"none"}
  BY <1>1, GossipAssumption DEF Fetched
<1>3. Empty \in [Recs -> States \cup {"none"}]
  BY DEF Empty
<1>4. AfterShadow(w) \in RoundType /\ Staged(AfterShadow(w))
  BY <1>1, <1>2, <1>3 DEF AfterShadow, RoundType, Staged
<1>5. AfterFlush(w) \in RoundType /\ Staged(AfterFlush(w))
  BY <1>1, <1>2 DEF AfterFlush, RoundType, Staged
<1>6. QED
  BY <1>4, <1>5

(* The steps of a round that write, end or fail. *)
LEMMA TypeWrites ==
  ASSUME TypeInv, NEW w \in Workers,
         \/ ShadowWorkflow(w) \/ Flush(w) \/ FlushFails(w) \/ DeadlockAbort(w)
         \/ CommitRound(w) \/ PeerFails(w) \/ WorkerCrash(w)
  PROVE  TypeInv'
<1> USE TypeParts
<1>1. CASE ShadowWorkflow(w) \/ Flush(w) \/ FlushFails(w)
  <2>1. \/ round[w].pc \in {"shadow", "flush"} /\ (Step(w, AfterShadow(w)) \/ Step(w, AfterFlush(w)))
        \/ Step(w, Idle)
    BY <1>1 DEF ShadowWorkflow, Flush, FlushFails
  <2>2. round' \in [Workers -> RoundType] /\ \A v \in Workers : Staged(round[v])'
    BY <2>1, AfterType, IdleType, StepType
  <2>3. QED
    BY <1>1, <2>2, TypeFromParts DEF ShadowWorkflow, Flush, FlushFails
<1>2. CASE DeadlockAbort(w)
  <2>1. PICK v \in Workers :
         /\ WaitsFor(w, v) /\ WaitsFor(v, w)
         /\ round' = [round EXCEPT ![w] = Idle,
                                   ![v] = IF @.pc = "shadow" THEN AfterShadow(v)
                                          ELSE IF Storable(v) THEN AfterFlush(v) ELSE Idle]
    BY <1>2 DEF DeadlockAbort
  <2>2. round[v].pc \in {"shadow", "flush"} /\ v # w
    BY <2>1 DEF WaitsFor
  <2>3. /\ AfterShadow(v) \in RoundType /\ Staged(AfterShadow(v))
        /\ AfterFlush(v) \in RoundType /\ Staged(AfterFlush(v))
    BY <2>2, AfterType
  <2>4. round'[w] = Idle /\ round'[v] \in {AfterShadow(v), AfterFlush(v), Idle}
    BY <2>1, <2>2
  <2>5. \A u \in Workers \ {w, v} : round'[u] = round[u]
    BY <2>1
  <2>6. \A u \in Workers : round'[u] \in RoundType /\ Staged(round'[u])
    BY <2>3, <2>4, <2>5, IdleType
  <2>7. round' \in [Workers -> RoundType] /\ \A u \in Workers : Staged(round[u])'
    BY <2>1, <2>6
  <2>8. QED
    BY <1>2, <2>7, TypeFromParts DEF DeadlockAbort
<1>3. CASE WorkerCrash(w)
  <2>1. round' \in [Workers -> RoundType] /\ \A v \in Workers : Staged(round[v])'
    BY <1>3, IdleType, StepType DEF WorkerCrash
  <2>2. faults' \in 0..MaxFaults
    BY <1>3, GossipAssumption DEF WorkerCrash
  <2>3. QED
    BY <1>3, <2>1, <2>2, TypeFromParts DEF WorkerCrash
<1>4. CASE CommitRound(w) \/ PeerFails(w)
  <2>1. Finish(w)
    BY <1>4 DEF CommitRound, PeerFails
  <2>2. round' \in [Workers -> RoundType] /\ \A v \in Workers : Staged(round[v])'
    BY <2>1, IdleType, StepType DEF Finish
  <2>3. /\ rows' \in [Nodes -> [Recs -> States \cup {"none"}]]
        /\ wfs' \in [Nodes -> SUBSET Flows]
    BY <2>1, ViewType DEF Finish
  <2>4. faults' \in 0..MaxFaults
    BY <1>4, GossipAssumption DEF CommitRound, PeerFails
  <2>5. QED
    BY <1>4, <2>2, <2>3, <2>4, TypeFromParts DEF CommitRound, PeerFails
<1>5. QED
  BY <1>1, <1>2, <1>3, <1>4

(* Every step keeps the types. *)
LEMMA TypeNext == TypeInv /\ [Next]_vars => TypeInv'
<1> SUFFICES ASSUME TypeInv, [Next]_vars PROVE TypeInv'
  OBVIOUS
<1>1. CASE Next
  BY <1>1, TypeNode, TypeLocal, TypeReads, TypeWrites DEF Next, Progress
<1>2. CASE UNCHANGED vars
  <2>1. round' \in [Workers -> RoundType] /\ \A v \in Workers : Staged(round[v])'
    BY <1>2, TypeParts DEF vars, Staged
  <2>2. QED
    BY <1>2, <2>1, TypeParts, TypeFromParts DEF vars
<1>3. QED
  BY <1>1, <1>2

(* Every reachable state is well typed: what a node stores, caches and     *)
(* serves, and what a round carries from one stage to the next.            *)
THEOREM GossipTypeCorrect == Spec => []TypeOK
<1>1. TypeInv => TypeOK
  BY DEF TypeInv
<1>2. QED
  BY <1>1, TypeInit, TypeNext, PTL DEF Spec

-----------------------------------------------------------------------------
(* A step of w that neither changes rows or workflows, nor adds to what a  *)
(* session has flushed, keeps the keys.                                    *)
LEMMA KeysKept ==
  ASSUME TypeInv, KeysInv, TypeInv',
         rows' = rows, wfs' = wfs,
         \A v \in Workers : \/ round'[v].mine = round[v].mine /\ round'[v].shadow = round[v].shadow
                            \/ round'[v].mine = Empty
  PROVE  KeysInv'
<1>1. ForeignKeysHold'
  BY DEF KeysInv, ForeignKeysHold
<1>2. ASSUME NEW v \in Workers, NEW r \in Recs, round'[v].mine[r] # "none"
      PROVE  Wf[r] \in FlowView(v)' /\ r \in AgentsOf[Home[v]]
  <2>1. round'[v].mine = round[v].mine /\ round'[v].shadow = round[v].shadow
    BY <1>2 DEF Empty
  <2>2. QED
    BY <1>2, <2>1 DEF KeysInv, FlowView
<1>3. QED
  BY <1>1, <1>2 DEF KeysInv

(* An insert of w: the workflow row it shadows, or the record that is      *)
(* Storable, joins what the session sees.                                  *)
LEMMA InsertKeys ==
  ASSUME TypeInv, KeysInv, NEW w \in Workers, round[w].pc \in {"shadow", "flush"}
  PROVE  /\ \A r \in Recs : AfterShadow(w).mine[r] # "none" =>
               Wf[r] \in wfs[Home[w]] \cup AfterShadow(w).shadow /\ r \in AgentsOf[Home[w]]
         /\ Storable(w) =>
               \A r \in Recs : AfterFlush(w).mine[r] # "none" =>
                 Wf[r] \in wfs[Home[w]] \cup AfterFlush(w).shadow /\ r \in AgentsOf[Home[w]]
<1> USE TypeParts
<1> DEFINE rd == round[w]
<1>1. rd \in RoundType /\ rd.rec \in Fetched
  BY DEF Staged
<1>2. \A r \in Recs : rd.mine[r] # "none" => Wf[r] \in wfs[Home[w]] \cup rd.shadow /\ r \in AgentsOf[Home[w]]
  BY DEF KeysInv, FlowView
<1>3. ASSUME NEW r \in Recs, AfterShadow(w).mine[r] # "none"
      PROVE  Wf[r] \in wfs[Home[w]] \cup AfterShadow(w).shadow /\ r \in AgentsOf[Home[w]]
  <2>1. CASE Wf[rd.rec.r] \in wfs[Home[w]]
    BY <1>1, <1>3, <2>1 DEF AfterShadow, Empty, RoundType
  <2>2. CASE Wf[rd.rec.r] \notin wfs[Home[w]]
    <3>1. AfterShadow(w).mine = rd.mine /\ rd.shadow \subseteq AfterShadow(w).shadow
      BY <1>1, <2>2 DEF AfterShadow, RoundType
    <3>2. QED
      BY <1>2, <1>3, <3>1
  <2>3. QED
    BY <2>1, <2>2
<1>4. ASSUME Storable(w), NEW r \in Recs, AfterFlush(w).mine[r] # "none"
      PROVE  Wf[r] \in wfs[Home[w]] \cup AfterFlush(w).shadow /\ r \in AgentsOf[Home[w]]
  <2>1. AfterFlush(w).shadow = rd.shadow /\ rd.mine \in [Recs -> States \cup {"none"}]
    BY <1>1 DEF AfterFlush, RoundType
  <2>2. r # rd.rec.r => AfterFlush(w).mine[r] = rd.mine[r]
    BY <1>1 DEF AfterFlush, RoundType, Fetched
  <2>3. CASE r = rd.rec.r
    BY <1>4, <2>1, <2>3 DEF Storable, FlowView
  <2>4. QED
    BY <1>2, <1>4, <2>1, <2>2, <2>3
<1>5. QED
  BY <1>3, <1>4

(* The local operations insert what is Insertable. *)
LEMMA KeysLocal ==
  ASSUME TypeInv, KeysInv, NEW n \in Nodes, NEW r \in Recs,
         Write(n, r) \/ Tombstone(n, r) \/ Delete(n, r) \/ Age(n, r) \/ Expire(n, r)
  PROVE  KeysInv'
<1> USE TypeParts
<1>1. wfs' = wfs /\ round' = round
  BY DEF Write, Tombstone, Delete, Age, Expire
<1>2. ASSUME NEW m \in Nodes, NEW q \in Recs, rows'[m][q] # "none"
      PROVE  rows[m][q] # "none" \/ (m = n /\ q = r /\ Insertable(n, r))
  <2>1. CASE m # n
    BY <1>2, <2>1 DEF Write, Tombstone, Delete, Age, Expire
  <2>2. CASE m = n /\ Write(n, r)
    BY <1>2, <2>2 DEF Write, Stored
  <2>3. CASE m = n /\ Tombstone(n, r)
    <3>1. Target[r] \in Recs
      BY GossipAssumption
    <3>2. QED
      BY <1>2, <2>3, <3>1 DEF Tombstone, Stored
  <2>4. CASE m = n /\ (Delete(n, r) \/ Age(n, r) \/ Expire(n, r))
    BY <1>2, <2>4 DEF Delete, Age, Expire
  <2>5. QED
    BY <2>1, <2>2, <2>3, <2>4
<1>3. ForeignKeysHold'
  BY <1>1, <1>2 DEF KeysInv, ForeignKeysHold, Insertable
<1>4. QED
  BY <1>1, <1>3 DEF KeysInv, FlowView

(* Every step keeps the foreign keys, of the rows and of what is flushed. *)
LEMMA KeysNext == TypeInv /\ KeysInv /\ [Next]_vars => KeysInv'
<1> SUFFICES ASSUME TypeInv, KeysInv, [Next]_vars PROVE KeysInv'
  OBVIOUS
<1> USE TypeParts
<1>0. TypeInv'
  BY TypeNext
<1>1. ASSUME NEW n \in Nodes, GarbageCollect(n)
      PROVE  KeysInv'
  <2>1. \A r \in Recs : Collected(n, r) # "none" => rows[n][r] # "none"
    BY DEF Collected
  <2>2. \A m \in Nodes, r \in Recs : rows'[m][r] # "none" => rows[m][r] # "none"
    BY <1>1, <2>1 DEF GarbageCollect
  <2>3. wfs' = wfs /\ round' = round
    BY <1>1 DEF GarbageCollect
  <2>4. QED
    BY <2>2, <2>3 DEF KeysInv, ForeignKeysHold, FlowView
<1>2. ASSUME NEW n \in Nodes, SummaryExpires(n)
      PROVE  KeysInv'
  BY <1>0, <1>2, KeysKept DEF SummaryExpires
<1>3. ASSUME NEW w \in Workers,
             \/ Compare(w) \/ CollectMissing(w) \/ FetchBatch(w) \/ Persist(w) \/ NextBatch(w)
             \/ FlushFails(w) \/ WorkerCrash(w) \/ \E p \in Nodes : StartRound(w, p)
      PROVE  KeysInv'
  <2>1. rows' = rows /\ wfs' = wfs
    BY <1>3 DEF Compare, CollectMissing, FetchBatch, Persist, NextBatch, FlushFails, WorkerCrash, StartRound
  <2>2. \A v \in Workers \ {w} : round'[v] = round[v]
    BY <1>3 DEF Compare, CollectMissing, FetchBatch, Persist, NextBatch, FlushFails, WorkerCrash, StartRound, Step
  <2>3. \/ round'[w].mine = round[w].mine /\ round'[w].shadow = round[w].shadow
        \/ round'[w].mine = Empty
    <3> DEFINE rd == round[w]
    <3>1. rd \in RoundType
      OBVIOUS
    <3>2. \A new \in RoundType : Step(w, new) => round'[w] = new
      BY DEF Step
    <3>3. Idle.mine = Empty
      BY DEF Idle
    <3>4. ASSUME NEW p \in Nodes, StartRound(w, p)
          PROVE  round'[w].mine = Empty
      BY <3>4 DEF StartRound, Step, Idle
    <3>5. CASE Compare(w)
      <4>1. PICK D : round'[w] = Idle \/ round'[w] = [rd EXCEPT !.pc = "collect", !.todo = D, !.ours = {}]
        BY <3>5 DEF Compare, Step
      <4>2. LET new == [rd EXCEPT !.pc = "collect", !.todo = D, !.ours = {}]
            IN  new.mine = rd.mine /\ new.shadow = rd.shadow
        BY <3>1 DEF RoundType
      <4>3. QED
        BY <3>3, <4>1, <4>2
    <3>6. CASE CollectMissing(w)
      <4>1. PICK L, M : \/ round'[w] = Idle \/ round'[w] = [rd EXCEPT !.todo = L, !.missing = M]
                        \/ round'[w] = [rd EXCEPT !.pc = "fetch", !.todo = {}, !.missing = M]
        <5>1. PICK L, M : \/ Step(w, Idle) \/ Step(w, [rd EXCEPT !.todo = L, !.missing = M])
                          \/ Step(w, [rd EXCEPT !.pc = "fetch", !.todo = {}, !.missing = M])
          BY <3>6, Zenon DEF CollectMissing
        <5>2. \A new : Step(w, new) => round'[w] = new
          BY DEF Step
        <5>3. QED
          BY <5>1, <5>2, Zenon
      <4>2. LET new == [rd EXCEPT !.todo = L, !.missing = M]
            IN  new.mine = rd.mine /\ new.shadow = rd.shadow
        BY <3>1 DEF RoundType
      <4>3. LET new == [rd EXCEPT !.pc = "fetch", !.todo = {}, !.missing = M]
            IN  new.mine = rd.mine /\ new.shadow = rd.shadow
        BY <3>1 DEF RoundType
      <4>4. QED
        BY <3>3, <4>1, <4>2, <4>3
    <3>7. CASE FetchBatch(w)
      BY <3>1, <3>7 DEF FetchBatch, Step, RoundType
    <3>8. CASE Persist(w)
      BY <3>1, <3>8 DEF Persist, Step, RoundType
    <3>9. CASE NextBatch(w)
      BY <3>1, <3>9 DEF NextBatch, Step, RoundType
    <3>10. CASE FlushFails(w) \/ WorkerCrash(w)
      BY <3>3, <3>10 DEF FlushFails, WorkerCrash, Step
    <3>11. QED
      BY <1>3, <3>4, <3>5, <3>6, <3>7, <3>8, <3>9, <3>10
  <2>4. QED
    BY <1>0, <2>1, <2>2, <2>3, KeysKept
<1>4. ASSUME NEW w \in Workers, ShadowWorkflow(w) \/ Flush(w)
      PROVE  KeysInv'
  <2>1. rows' = rows /\ wfs' = wfs
    BY <1>4 DEF ShadowWorkflow, Flush
  <2>2. \A v \in Workers \ {w} : round'[v] = round[v]
    BY <1>4 DEF ShadowWorkflow, Flush, Step
  <2>3. \/ round'[w] = AfterShadow(w) /\ round[w].pc = "shadow"
        \/ round'[w] = AfterFlush(w) /\ round[w].pc = "flush" /\ Storable(w)
    BY <1>4 DEF ShadowWorkflow, Flush, Step
  <2>4. \A r \in Recs : round'[w].mine[r] # "none" =>
           Wf[r] \in wfs[Home[w]] \cup round'[w].shadow /\ r \in AgentsOf[Home[w]]
    BY <2>3, InsertKeys
  <2>5. QED
    BY <2>1, <2>2, <2>4 DEF KeysInv, ForeignKeysHold, FlowView
<1>5. ASSUME NEW w \in Workers, DeadlockAbort(w)
      PROVE  KeysInv'
  <2>1. PICK v \in Workers :
         /\ WaitsFor(w, v) /\ WaitsFor(v, w)
         /\ round' = [round EXCEPT ![w] = Idle,
                                   ![v] = IF @.pc = "shadow" THEN AfterShadow(v)
                                          ELSE IF Storable(v) THEN AfterFlush(v) ELSE Idle]
    BY <1>5 DEF DeadlockAbort
  <2>2. round[v].pc \in {"shadow", "flush"} /\ v # w
    BY <2>1 DEF WaitsFor
  <2>3. rows' = rows /\ wfs' = wfs
    BY <1>5 DEF DeadlockAbort
  <2>4. round'[w] = Idle /\ (round'[v] = AfterShadow(v) \/ (Storable(v) /\ round'[v] = AfterFlush(v)) \/ round'[v] = Idle)
    BY <2>1, <2>2
  <2>5. \A u \in Workers \ {w, v} : round'[u] = round[u]
    BY <2>1
  <2>6. \A r \in Recs : Idle.mine[r] = "none"
    BY DEF Idle, Empty
  <2>7. \A u \in {w, v}, r \in Recs : round'[u].mine[r] # "none" =>
           Wf[r] \in wfs[Home[u]] \cup round'[u].shadow /\ r \in AgentsOf[Home[u]]
    BY <2>2, <2>4, <2>6, InsertKeys
  <2>8. QED
    BY <2>3, <2>5, <2>7 DEF KeysInv, ForeignKeysHold, FlowView
<1>6. ASSUME NEW w \in Workers, CommitRound(w) \/ PeerFails(w)
      PROVE  KeysInv'
  <2>1. Finish(w)
    BY <1>6 DEF CommitRound, PeerFails
  <2> DEFINE n == Home[w]
  <2>2. /\ \A m \in Nodes \ {n} : rows'[m] = rows[m] /\ wfs'[m] = wfs[m]
        /\ rows'[n] = View(w) /\ wfs'[n] = FlowView(w)
        /\ \A v \in Workers \ {w} : round'[v] = round[v]
        /\ round'[w] = Idle
    BY <2>1 DEF Finish, Step
  <2>3. \A m \in Nodes : wfs[m] \subseteq wfs'[m]
    BY <2>2 DEF FlowView
  <2>4. \A r \in Recs : View(w)[r] # "none" => Wf[r] \in FlowView(w) /\ r \in AgentsOf[n]
    BY DEF View, FlowView, KeysInv, ForeignKeysHold
  <2>5. ForeignKeysHold'
    BY <2>2, <2>3, <2>4 DEF KeysInv, ForeignKeysHold
  <2>6. \A r \in Recs : Idle.mine[r] = "none"
    BY DEF Idle, Empty
  <2>7. QED
    BY <2>2, <2>3, <2>5, <2>6 DEF KeysInv, FlowView
<1>7. CASE UNCHANGED vars
  BY <1>7 DEF vars, KeysInv, ForeignKeysHold, FlowView
<1>8. QED
  BY <1>1, <1>2, <1>3, <1>4, <1>5, <1>6, <1>7, KeysLocal DEF Next, Progress

(* Every copy that a node stores has its workflow row and its agent row,   *)
(* whatever rounds were rolled back while it was on its way.               *)
THEOREM ForeignKeysAlwaysHold == Spec => []ForeignKeysHold
<1>1. Init => KeysInv
  BY GossipAssumption DEF Init, KeysInv, ForeignKeysHold, Idle, Empty
<1>2. KeysInv => ForeignKeysHold
  BY DEF KeysInv
<1>3. QED
  BY <1>1, <1>2, TypeInit, TypeNext, KeysNext, PTL DEF Spec

-----------------------------------------------------------------------------
(* No row goes back. *)
Forward ==
    \A n \in Nodes, r \in Recs :
        rows[n][r] # "none" /\ rows'[n][r] # "none" => Rank[rows[n][r]] <= Rank[rows'[n][r]]

(* The ranks follow the order of the lifecycle. *)
LEMMA Ranks ==
  /\ \A s \in States : Rank[s] <= Rank[s] /\ Rank[s] <= Rank["tombstoned"]
  /\ Rank["active"] <= Rank["superseded"]
  /\ Rank["active"] <= Rank["historical"] /\ Rank["superseded"] <= Rank["historical"]
<1>1. /\ Rank["active"] = 0 /\ Rank["superseded"] = 1
      /\ Rank["historical"] = 2 /\ Rank["tombstoned"] = 3
  BY DEF Rank, States
<1>2. QED
  BY <1>1 DEF States

(* It is enough to look at the one node whose rows change. *)
LEMMA ForwardFrom ==
  ASSUME TypeInv, NEW n \in Nodes,
         \A m \in Nodes \ {n} : rows'[m] = rows[m],
         \A r \in Recs : rows[n][r] # "none" /\ rows'[n][r] # "none" => Rank[rows[n][r]] <= Rank[rows'[n][r]]
  PROVE  Forward
<1>1. \A m \in Nodes, r \in Recs : rows[m][r] # "none" => Rank[rows[m][r]] <= Rank[rows[m][r]]
  BY TypeParts, Ranks
<1>2. SUFFICES ASSUME NEW m \in Nodes, NEW r \in Recs, rows[m][r] # "none", rows'[m][r] # "none"
               PROVE  Rank[rows[m][r]] <= Rank[rows'[m][r]]
  BY DEF Forward
<1>3. CASE m = n
  BY <1>2, <1>3
<1>4. CASE m # n
  <2>1. rows'[m] = rows[m]
    BY <1>4
  <2>2. QED
    BY <1>1, <1>2, <2>1
<1>5. QED
  BY <1>3, <1>4

(* Every step takes every row forward or leaves it. *)
LEMMA ForwardNext == TypeInv /\ [Next]_vars => Forward
<1> SUFFICES ASSUME TypeInv, [Next]_vars PROVE Forward
  OBVIOUS
<1> USE TypeParts, Ranks
<1>1. ASSUME rows' = rows
      PROVE  Forward
  BY <1>1, Ranks DEF Forward
<1>2. ASSUME NEW n \in Nodes, NEW r \in Recs, Write(n, r)
      PROVE  Forward
  <2>1. \A q \in Recs : rows[n][q] # "none" =>
            rows'[n][q] = rows[n][q] \/ (rows[n][q] = "active" /\ rows'[n][q] = "superseded")
    BY <1>2 DEF Write, Stored
  <2>2. \A m \in Nodes \ {n} : rows'[m] = rows[m]
    BY <1>2 DEF Write
  <2>3. \A q \in Recs : rows[n][q] # "none" /\ rows'[n][q] # "none" => Rank[rows[n][q]] <= Rank[rows'[n][q]]
    BY <2>1
  <2>4. QED
    BY <2>2, <2>3, ForwardFrom
<1>3. ASSUME NEW n \in Nodes, NEW r \in Recs, Tombstone(n, r) \/ Delete(n, r)
      PROVE  Forward
  <2>1. Target[r] \in Recs
    BY GossipAssumption
  <2>2. \A q \in Recs : rows[n][q] # "none" => rows'[n][q] = rows[n][q] \/ rows'[n][q] = "tombstoned"
    <3>1. CASE Delete(n, r)
      BY <3>1 DEF Delete
    <3>2. CASE Tombstone(n, r)
      BY <2>1, <3>2 DEF Tombstone, Stored
    <3>3. QED
      BY <1>3, <3>1, <3>2
  <2>3. \A m \in Nodes \ {n} : rows'[m] = rows[m]
    BY <1>3 DEF Tombstone, Delete
  <2>4. \A q \in Recs : rows[n][q] # "none" /\ rows'[n][q] # "none" => Rank[rows[n][q]] <= Rank[rows'[n][q]]
    BY <2>2
  <2>5. QED
    BY <2>3, <2>4, ForwardFrom
<1>4. ASSUME NEW n \in Nodes, GarbageCollect(n)
      PROVE  Forward
  <2>1. \A q \in Recs : \/ Collected(n, q) \in {rows[n][q], "none", "tombstoned"}
                        \/ rows[n][q] \in {"active", "superseded"} /\ Collected(n, q) = "historical"
    BY DEF Collected
  <2>2. \A q \in Recs : rows'[n][q] = Collected(n, q)
    BY <1>4 DEF GarbageCollect
  <2>3. \A m \in Nodes \ {n} : rows'[m] = rows[m]
    BY <1>4 DEF GarbageCollect
  <2>4. \A q \in Recs : rows[n][q] # "none" /\ rows'[n][q] # "none" => Rank[rows[n][q]] <= Rank[rows'[n][q]]
    <3>1. SUFFICES ASSUME NEW q \in Recs, rows[n][q] # "none", rows'[n][q] # "none"
                   PROVE  Rank[rows[n][q]] <= Rank[rows'[n][q]]
      OBVIOUS
    <3>2. rows[n][q] \in States
      BY <3>1
    <3>3. CASE rows'[n][q] \in {rows[n][q], "tombstoned"}
      BY <3>2, <3>3
    <3>4. CASE rows[n][q] \in {"active", "superseded"} /\ rows'[n][q] = "historical"
      BY <3>4
    <3>5. QED
      BY <2>1, <2>2, <3>1, <3>3, <3>4
  <2>5. QED
    BY <2>3, <2>4, ForwardFrom
<1>5. ASSUME NEW w \in Workers, Finish(w)
      PROVE  Forward
  <2>1. /\ rows'[Home[w]] = View(w)
        /\ \A m \in Nodes \ {Home[w]} : rows'[m] = rows[m]
    BY <1>5 DEF Finish
  <2>2. \A q \in Recs : rows[Home[w]][q] # "none" => View(w)[q] = rows[Home[w]][q]
    BY DEF View
  <2>3. QED
    BY <2>1, <2>2, ForwardFrom
<1>6. ASSUME NEW w \in Workers, Progress(w) \/ PeerFails(w) \/ WorkerCrash(w) \/ \E p \in Nodes : StartRound(w, p)
      PROVE  rows' = rows \/ Finish(w)
  BY <1>6 DEF Progress, Compare, CollectMissing, FetchBatch, Persist, NextBatch, FlushFails, WorkerCrash,
              StartRound, ShadowWorkflow, Flush, DeadlockAbort, CommitRound, PeerFails
<1>7. ASSUME NEW n \in Nodes, NEW r \in Recs, Age(n, r) \/ Expire(n, r) \/ SummaryExpires(n)
      PROVE  rows' = rows
  BY <1>7 DEF Age, Expire, SummaryExpires
<1>8. ASSUME NEW n \in Nodes, SummaryExpires(n)
      PROVE  rows' = rows
  BY <1>8 DEF SummaryExpires
<1>9. CASE UNCHANGED vars
  BY <1>1, <1>9 DEF vars
<1>10. QED
  BY <1>1, <1>2, <1>3, <1>4, <1>5, <1>6, <1>7, <1>8, <1>9 DEF Next

(* A row that stays on a node never goes back in the lifecycle, on any     *)
(* node and through any interleaving of writes, collections and rounds.    *)
THEOREM LifecycleNeverGoesBack == Spec => LifecycleForward
<1>1. TypeInv /\ [Next]_vars => [Forward]_vars
  BY ForwardNext
<1>2. Spec => [][Forward]_vars
  BY <1>1, TypeInit, TypeNext, PTL DEF Spec
<1>3. QED
  BY <1>2 DEF LifecycleForward, Forward
=============================================================================
