-------------------------- MODULE SchedulerProofs --------------------------
(***************************************************************************)
(* Proofs about Scheduler, for every plan and any number of runs: the DAG  *)
(* objects stay well formed, durable checkpoints are backed by durable     *)
(* results and charges, the iteration limit never ends a run, and plans    *)
(* whose tasks follow one another are completed when they are reported to  *)
(* be.                                                                     *)
(***************************************************************************)
EXTENDS Scheduler, FiniteSetTheorems, WellFoundedInduction, NaturalsInduction, TLAPS

(* A DAG whose started nodes have completed dependencies, and in which     *)
(* nothing waits behind a failure.                                         *)
GoodDag(d) ==
    /\ \A n \in Node : d[n] \in {"running", "completed"} =>
           \A m \in DependsOn(n) : d[m] = "completed"
    /\ \A n \in Node : (\E m \in DependsOn(n) : d[m] \in {"failed", "skipped"}) =>
           d[n] \in {"absent", "failed", "skipped"}

(* A node of the batch is not terminal, and its dependencies are done. *)
Started(d, n) ==
    /\ d[n] \in {"running", "pending"}
    /\ \A m \in DependsOn(n) : d[m] = "completed"

(* The inductive invariant: every DAG a run works on or may load is good,  *)
(* snapshots and checkpoints included.                                     *)
DagInv ==
    /\ \A r \in Run : GoodDag(dag[r])
    /\ GoodDag(snap)
    /\ \A c \in ckpts : GoodDag(c)
    /\ \A r \in Run : \A c \in drafts[r] : GoodDag(c)
    /\ \A r \in Run : psnap[r] # None => GoodDag(psnap[r])
    /\ \A r \in Run : \A n \in batch[r] : Started(dag[r], n)
    /\ \A r \in Run : pc[r] \in {"unused", "launched"} => batch[r] = {}

(* What a DAG calls completed has its result and its charge in L. *)
Backed(d, L) ==
    \A n \in Of(d, "completed") : \A kind \in {"result", "charge"} :
        \E e \in L : e.node = n /\ e.kind = kind

(* The inductive invariant of CheckpointsBacked: snapshots and checkpoints *)
(* are backed by what is committed, the DAG of an active run by what its   *)
(* transaction sees, and at a gate that is the same.                       *)
BackedInv ==
    /\ \A c \in ckpts : Backed(c, ledger)
    /\ Backed(snap, ledger)
    /\ \A r \in Run : Active(r) => Backed(dag[r], Visible(r))
    /\ \A r \in Run : Active(r) => \A c \in drafts[r] : Backed(c, Visible(r))
    /\ \A r \in Run : pc[r] \in {"gate", "asked"} => pend[r] = {}
    /\ \A r \in Run : Active(r) /\ psnap[r] # None => Backed(psnap[r], Visible(r))
    /\ \A r \in Run : pc[r] \in {"unused", "launched"} => drafts[r] = {} /\ psnap[r] = None

(* The labels of an active run. *)
ActivePc == {"loop", "policy", "gate", "asked", "results", "commit"}

(* What a run has used up of node n, given its DAG, batch, staffed nodes   *)
(* and the events that it sees: the node's first start, each of its        *)
(* retries, and the start of the alternative that it injected.             *)
Spent(d, B, S, V, n, k) ==
    \/ k = 0 /\ (d[n] # "pending" \/ n \in B)
    \/ k \in 1..MaxRetries /\ Ev(n, "retry", k) \in V
    \/ k = MaxRetries + 1 /\ n[2] < MaxAlt /\ Alt(n) \notin S /\ d[Alt(n)] \notin {"absent", "pending"}
Tokens(d, B, S, V) ==
    {x \in S \X (0..(MaxRetries + 1)) : Spent(d, B, S, V, x[1], x[2])}

(* The retries of a node are numbered without gaps, up to the limit. *)
Stacked(L) ==
    \A e \in L : e.kind = "retry" =>
        e.nth \in 1..MaxRetries /\ \A k \in 1..e.nth : Ev(e.node, "retry", k) \in L

(* Only nodes with an agent are started; the others are alternatives of    *)
(* nodes with an agent that are completed.                                 *)
StaffOK(label, d, B, S) ==
    /\ B \subseteq S
    /\ label = "loop" => B = {}
    /\ label = "policy" => \A m \in B : d[m] # "pending"
    /\ \A m \in S : d[m] # "absent"
    /\ \A m \in Node \ S : d[m] # "absent" =>
          /\ d[m] \in {"pending", "failed", "skipped"}
          /\ \E n \in S : n[2] < MaxAlt /\ m = Alt(n) /\ d[n] = "completed" /\ n \notin B

(* The inductive invariant of RunawayNeverFires: every iteration has used  *)
(* up a token, and there are MaxRetries + 2 of them per staffed node.      *)
LoopInv ==
    /\ Stacked(ledger)
    /\ \A r \in Run : Stacked(Visible(r))
    /\ \A r \in Run : Active(r) =>
          /\ StaffOK(pc[r], dag[r], batch[r], staffed[r])
          /\ iter[r] <= Cardinality(Tokens(dag[r], batch[r], staffed[r], Visible(r)))
    /\ \A r \in Run : pc[r] \in {"unused", "launched"} => iter[r] = 0 /\ batch[r] = {}
    /\ \A r \in Run : iter[r] <= Cap(r)

(* One task after the other: of two tasks one is needed by the other; no   *)
(* policy denies, and a client resumes only when no run is under way.      *)
NeededBy(p, q) ==
    \A S \in SUBSET Plan : q \in S /\ (\A x \in S : Parents[x] \subseteq S) => p \in S
InSeries ==
    /\ \A p, q \in Plan : p = q \/ NeededBy(p, q) \/ NeededBy(q, p)
    /\ "deny" \notin Policies
    /\ "early" \notin Outside /\ "double" \notin Outside

Honest(d) ==
    Of(d, "failed") \cup Of(d, "skipped") = {} => Of(d, "completed") = Present(d)

(* A DAG that may be resumed: nothing runs, no task is missing, and no     *)
(* alternative waits.                                                      *)
Clean(d) ==
    \A n \in Node : /\ d[n] # "running"
                    /\ n[2] = 0 => d[n] # "absent"
                    /\ n[2] # 0 => d[n] # "pending"

(* A run works on one planned task at a time; only between two iterations  *)
(* does an alternative wait, which has no agent and will fail.             *)
OneByOne(label, d, B, S) ==
    /\ \A m, n \in B : m = n
    /\ \A n \in B : n[2] = 0
    /\ \A n \in Node : d[n] = "running" => n \in B
    /\ label \in {"loop", "commit"} => B = {}
    /\ \A n \in Node : n[2] = 0 => d[n] # "absent"
    /\ \A n \in S : d[n] # "absent"
    /\ \A n \in Node : n[2] # 0 /\ d[n] = "pending" =>
          /\ n \notin S /\ label \in {"loop", "commit"}
          /\ \A m \in DependsOn(n) : d[m] = "completed"

(* COMPLETED is flushed together with an honest DAG, at the end only. *)
Reported(label, status, s) ==
    status = "completed" => label = "commit" /\ s # None /\ Honest(s)

Busy(r) == pc[r] \notin {"unused", "ended"}

(* The inductive invariant of HonestCompletion. *)
HonestInv ==
    /\ \A r, q \in Run : Busy(r) /\ Busy(q) => r = q
    /\ row = "completed" => Honest(snap) /\ \A r \in Run : ~Busy(r)
    /\ \A c \in ckpts : Clean(c)
    /\ \A r \in Run : Active(r) =>
          /\ OneByOne(pc[r], dag[r], batch[r], staffed[r])
          /\ Reported(pc[r], prow[r], psnap[r])
          /\ \A c \in drafts[r] : Clean(c)
    /\ \A r \in Run : pc[r] = "launched" => r = 1 \/ Clean(snap)
    /\ \A r \in Run : pc[r] \in {"unused", "launched"} => prow[r] = None /\ drafts[r] = {} /\ batch[r] = {}

-----------------------------------------------------------------------------
(* The dependencies of a node are planned nodes, never alternatives. *)
LEMMA DependsOnType ==
  ASSUME NEW n \in Node
  PROVE  /\ DependsOn(n) \subseteq Node
         /\ \A m \in DependsOn(n) : m[2] = 0
         /\ n[2] < MaxAlt => Alt(n) \in Node /\ Alt(n) # n /\ DependsOn(Alt(n)) = DependsOn(n)
                             /\ \A k \in Node : Alt(n) \notin DependsOn(k)
<1>1. n[1] \in Plan /\ n[2] \in 0..MaxAlt
  BY DEF Node
<1>2. \A k \in Node : k[1] \in Plan /\ Parents[k[1]] \subseteq Plan
  BY PlanAssumption DEF Node
<1>3. \A k \in Node : \A m \in DependsOn(k) : m \in Plan \X {0}
  BY <1>2 DEF DependsOn
<1>4. 0 \in 0..MaxAlt
  BY BoundsAssumption
<1>5. \A k \in Node : \A m \in DependsOn(k) : m \in Node /\ m[2] = 0
  BY <1>3, <1>4 DEF Node
<1>6. ASSUME n[2] < MaxAlt
      PROVE  Alt(n) \in Node /\ Alt(n) # n /\ DependsOn(Alt(n)) = DependsOn(n)
             /\ \A k \in Node : Alt(n) \notin DependsOn(k)
  <2>1. n[2] + 1 \in 0..MaxAlt /\ n[2] + 1 # 0 /\ n[2] + 1 # n[2]
    BY <1>1, <1>6, BoundsAssumption
  <2>2. Alt(n) \in Node /\ Alt(n)[1] = n[1] /\ Alt(n)[2] = n[2] + 1
    BY <1>1, <2>1 DEF Alt, Node
  <2> QED
    BY <2>1, <2>2, <1>5 DEF DependsOn
<1> QED
  BY <1>5, <1>6

(* The cascade holds pending nodes only; it is closed, and every node of   *)
(* it depends on a failed one or on another node of it.                    *)
LEMMA CascadeFacts ==
  ASSUME NEW d \in [Node -> Status], NEW F \in SUBSET Node
  PROVE  /\ Cascade(d, F) \subseteq Of(d, "pending")
         /\ ClosedUnder(d, F, Cascade(d, F))
         /\ \A n \in Cascade(d, F) : DependsOn(n) \cap (F \cup Cascade(d, F)) # {}
<1>1. Cascade(d, F) \subseteq Of(d, "pending")
  <2>1. ClosedUnder(d, F, Of(d, "pending"))
    BY DEF ClosedUnder, Of
  <2> QED
    BY <2>1 DEF Cascade
<1>2. ClosedUnder(d, F, Cascade(d, F))
  <2> SUFFICES ASSUME NEW n \in Node, d[n] = "pending",
                      NEW m \in DependsOn(n), m \in F \cup Cascade(d, F),
                      NEW S \in SUBSET Of(d, "pending"), ClosedUnder(d, F, S)
               PROVE  n \in S
    BY DEF ClosedUnder, Cascade
  <2>1. m \in F \cup S
    BY DEF Cascade
  <2> QED
    BY <2>1 DEF ClosedUnder
<1>3. ASSUME NEW n \in Cascade(d, F), DependsOn(n) \cap (F \cup Cascade(d, F)) = {}
      PROVE  FALSE
  <2> DEFINE S == Cascade(d, F) \ {n}
  <2>1. S \in SUBSET Of(d, "pending")
    BY <1>1
  <2>2. ClosedUnder(d, F, S)
    BY <1>2, <1>3 DEF ClosedUnder
  <2>3. n \in S
    BY <2>1, <2>2 DEF Cascade
  <2> QED
    BY <2>3
<1> QED
  BY <1>1, <1>2, <1>3

(* mark_failed, applied to started or ready nodes, keeps a DAG good, and   *)
(* leaves other started nodes alone.                                       *)
LEMMA MarkFailedGood ==
  ASSUME NEW d \in [Node -> Status], GoodDag(d), NEW F \in SUBSET Node,
         \A n \in F : d[n] \in {"running", "pending"}
  PROVE  /\ MarkFailed(d, F) \in [Node -> Status]
         /\ GoodDag(MarkFailed(d, F))
         /\ \A n \in Node \ F : Started(d, n) => MarkFailed(d, F)[n] = d[n]
         /\ \A n \in Node : d[n] = "completed" <=> MarkFailed(d, F)[n] = "completed"
<1> DEFINE e == MarkFailed(d, F)
           C == Cascade(d, F)
<1>1. e \in [Node -> Status]
  BY DEF MarkFailed, Status
<1>2. \A n \in Node : e[n] = IF n \in F THEN "failed" ELSE IF n \in C THEN "skipped" ELSE d[n]
  BY DEF MarkFailed
<1>3. C \subseteq Node /\ \A n \in C : d[n] = "pending"
  BY CascadeFacts DEF Of
<1>4. \A n \in Node : d[n] = "completed" <=> e[n] = "completed"
  BY <1>2, <1>3
<1>5. \A n \in Node : e[n] \in {"running", "completed"} => d[n] = e[n]
  BY <1>2
<1>6. ASSUME NEW n \in Node, e[n] \in {"running", "completed"}, NEW m \in DependsOn(n)
      PROVE  e[m] = "completed"
  <2>1. m \in Node /\ d[m] = "completed"
    BY <1>5, <1>6, DependsOnType DEF GoodDag
  <2> QED
    BY <2>1, <1>4
<1>7. ASSUME NEW n \in Node, NEW m \in DependsOn(n), e[m] \in {"failed", "skipped"}
      PROVE  e[n] \in {"absent", "failed", "skipped"}
  <2>1. m \in Node
    BY DependsOnType
  <2>2. CASE m \in F \cup C
    <3>1. d[n] \notin {"running", "completed"}
      BY <2>1, <2>2, <1>3 DEF GoodDag
    <3>2. d[n] = "pending" => n \in C
      BY <2>2, CascadeFacts DEF ClosedUnder
    <3> QED
      BY <3>1, <3>2, <1>2 DEF Status
  <2>3. CASE m \notin F \cup C
    <3>1. d[n] \in {"absent", "failed", "skipped"}
      BY <2>1, <2>3, <1>2, <1>7 DEF GoodDag
    <3> QED
      BY <3>1, <1>2
  <2> QED
    BY <2>2, <2>3
<1>8. ASSUME NEW n \in Node \ F, Started(d, n)
      PROVE  e[n] = d[n]
  <2>1. n \notin C
    BY <1>3, <1>8, CascadeFacts DEF Started
  <2> QED
    BY <2>1, <1>2
<1> QED
  BY <1>1, <1>4, <1>6, <1>7, <1>8 DEF GoodDag

(* Completing a started node, or putting it back, keeps a DAG good. *)
LEMMA SetGood ==
  ASSUME NEW d \in [Node -> Status], GoodDag(d), NEW n \in Node, Started(d, n),
         NEW s \in {"pending", "completed"}
  PROVE  /\ [d EXCEPT ![n] = s] \in [Node -> Status]
         /\ GoodDag([d EXCEPT ![n] = s])
         /\ \A k \in Node : Started(d, k) => \A m \in DependsOn(k) : m # n
<1>1. \A k \in Node : DependsOn(k) \subseteq Node
  BY DependsOnType
<1> QED
  BY <1>1 DEF GoodDag, Started, Status

(* So does adding an alternative of it. *)
LEMMA AltGood ==
  ASSUME NEW d \in [Node -> Status], GoodDag(d), NEW n \in Node, Started(d, n),
         n[2] < MaxAlt, d[Alt(n)] = "absent"
  PROVE  LET e == [d EXCEPT ![n] = "completed", ![Alt(n)] = "pending"]
         IN  e \in [Node -> Status] /\ GoodDag(e)
<1> DEFINE f == [d EXCEPT ![n] = "completed"]
<1>1. f \in [Node -> Status] /\ GoodDag(f)
  BY SetGood
<1>2. /\ Alt(n) \in Node /\ Alt(n) # n /\ DependsOn(Alt(n)) = DependsOn(n)
      /\ \A k \in Node : Alt(n) \notin DependsOn(k)
      /\ \A k \in Node : DependsOn(k) \subseteq Node
  BY DependsOnType
<1>3. \A m \in DependsOn(n) : f[m] = "completed"
  BY <1>2 DEF Started
<1> HIDE DEF f
<1>4. [f EXCEPT ![Alt(n)] = "pending"] \in [Node -> Status] /\ GoodDag([f EXCEPT ![Alt(n)] = "pending"])
  BY <1>1, <1>2, <1>3 DEF GoodDag, Status
<1> QED
  BY <1>4 DEF f

-----------------------------------------------------------------------------
(* There are finitely many nodes. *)
LEMMA NodeFinite == IsFiniteSet(Node)
<1>1. IsFiniteSet(0..MaxAlt)
  BY FS_Interval, BoundsAssumption
<1> QED
  BY <1>1, FS_Product, PlanAssumption DEF Node

(* Numbers of retries are natural numbers, and events are events. *)
LEMMA EventTypes ==
  ASSUME TypeOK, NEW r \in Run, NEW n \in Node
  PROVE  /\ Retries(r, n) \in Nat
         /\ ChargeEvents(r, n) \subseteq Event /\ IsFiniteSet(ChargeEvents(r, n))
         /\ Paid(r, n) \subseteq Event /\ IsFiniteSet(Paid(r, n))
         /\ Ev(n, "retry", Retries(r, n) + 1) \in Event
         /\ Ev(n, "release", 0) \in Event
         /\ Ev(n, "reserve", 0) \in Event
<1>1. IsFiniteSet(Visible(r))
  BY FS_Union DEF TypeOK, Visible
<1>2. IsFiniteSet({e \in Visible(r) : e.node = n /\ e.kind = "retry"})
  BY <1>1, FS_Subset
<1>3. Retries(r, n) \in Nat
  BY <1>2, FS_CardinalityType DEF Retries
<1>4. \A k \in Nat : /\ Ev(n, "charge", k) \in Event
                     /\ Ev(n, "result", k) \in Event
                     /\ Ev(n, "retry", k + 1) \in Event
                     /\ Ev(n, "release", k) \in Event
                     /\ Ev(n, "reserve", k) \in Event
  BY DEF Ev, Event
<1>5. ChargeEvents(r, n) \subseteq Event /\ IsFiniteSet(ChargeEvents(r, n))
  BY <1>3, <1>4, FS_EmptySet, FS_Singleton DEF ChargeEvents
<1>6. IsFiniteSet({Ev(n, "result", Retries(r, n))})
  BY FS_Singleton
<1>7. Paid(r, n) \subseteq Event /\ IsFiniteSet(Paid(r, n))
  BY <1>3, <1>4, <1>5, <1>6, FS_Union DEF Paid
<1> QED
  BY <1>3, <1>4, <1>5, <1>7

(* Init satisfies the type invariant. *)
LEMMA TypeInit == Init => TypeOK
<1> SUFFICES ASSUME Init PROVE TypeOK
  OBVIOUS
<1>1. Planned \in [Node -> Status]
  BY DEF Planned, Status
<1>2. IsFiniteSet({})
  BY FS_EmptySet
<1> QED
  BY <1>1, <1>2, BoundsAssumption DEF Init, TypeOK, RowStatus, Run

(* Commits and rollbacks keep the types of what they change. *)
LEMMA TxnTypes ==
  ASSUME TypeOK, NEW r \in Run, CommitTxn(r) \/ RollbackTxn(r)
  PROVE  /\ ledger' \subseteq Event /\ IsFiniteSet(ledger')
         /\ pend' \in [Run -> SUBSET Event] /\ \A q \in Run : IsFiniteSet(pend'[q])
         /\ ckpts' \subseteq [Node -> Status]
         /\ drafts' \in [Run -> SUBSET [Node -> Status]]
         /\ row' \in RowStatus
         /\ prow' \in [Run -> RowStatus \cup {None}]
         /\ lock' \in Run \cup {None}
         /\ snap' \in [Node -> Status]
         /\ psnap' \in [Run -> [Node -> Status] \cup {None}]
<1>1. IsFiniteSet(ledger \cup pend[r])
  BY FS_Union DEF TypeOK
<1>2. IsFiniteSet({})
  BY FS_EmptySet
<1>3. pend' = [pend EXCEPT ![r] = {}] /\ drafts' = [drafts EXCEPT ![r] = {}]
      /\ prow' = [prow EXCEPT ![r] = None]
  BY DEF CommitTxn, RollbackTxn
<1>4. \A q \in Run : IsFiniteSet(pend'[q])
  BY <1>2, <1>3 DEF TypeOK
<1>5. pend' \in [Run -> SUBSET Event] /\ drafts' \in [Run -> SUBSET [Node -> Status]]
  BY <1>3 DEF TypeOK
<1>6. ledger' \subseteq Event /\ IsFiniteSet(ledger') /\ ckpts' \subseteq [Node -> Status]
  BY <1>1 DEF TypeOK, CommitTxn, RollbackTxn
<1>7. row' \in RowStatus /\ lock' \in Run \cup {None}
  <2>1. prow[r] \in RowStatus \cup {None}
    BY DEF TypeOK
  <2> QED
    BY <2>1 DEF TypeOK, CommitTxn, RollbackTxn
<1>8. prow' \in [Run -> RowStatus \cup {None}]
  BY <1>3 DEF TypeOK
<1>9. snap' \in [Node -> Status] /\ psnap' \in [Run -> [Node -> Status] \cup {None}]
  <2>1. psnap[r] \in [Node -> Status] \cup {None} /\ psnap' = [psnap EXCEPT ![r] = None]
    BY DEF TypeOK, CommitTxn, RollbackTxn
  <2>2. psnap' \in [Run -> [Node -> Status] \cup {None}]
    BY <2>1 DEF TypeOK
  <2> QED
    BY <2>1, <2>2 DEF TypeOK, CommitTxn, RollbackTxn
<1> QED
  BY <1>4, <1>5, <1>6, <1>7, <1>8, <1>9

(* What Processing changes keeps its type, whatever else the step does. *)
LEMMA ProcessTypes ==
  ASSUME TypeOK, NEW r \in Run, NEW n \in Node, NEW d \in [Node -> Status], Processing(r, n, d),
         NEW E \in SUBSET Event, IsFiniteSet(E), pend' = [pend EXCEPT ![r] = @ \cup E],
         replans' \in [Run -> 0..MaxReplans],
         prow' \in [Run -> RowStatus \cup {None}],
         drafts' \in [Run -> SUBSET [Node -> Status]],
         aborted' \subseteq Run
  PROVE  TypeOK'
<1>1. IsFiniteSet(pend[r] \cup E)
  BY FS_Union DEF TypeOK
<1>2. \A q \in Run : IsFiniteSet(pend'[q])
  BY <1>1 DEF TypeOK
<1>3. pend' \in [Run -> SUBSET Event]
  BY DEF TypeOK
<1>4. dag' \in [Run -> [Node -> Status]] /\ psnap' \in [Run -> [Node -> Status] \cup {None}]
  BY DEF TypeOK, Processing
<1>5. pc' \in [Run -> {"unused", "launched", "loop", "policy", "gate", "asked",
                       "results", "commit", "failing", "ended"}]
  BY DEF TypeOK, Processing, Goto, After
<1>6. batch' \in [Run -> SUBSET Node]
  BY DEF TypeOK, Processing
<1> QED
  BY <1>2, <1>3, <1>4, <1>5, <1>6 DEF TypeOK, Processing

(* mark_failed yields a DAG. *)
LEMMA MarkFailedType ==
  ASSUME NEW d \in [Node -> Status], NEW F \in SUBSET Node
  PROVE  MarkFailed(d, F) \in [Node -> Status]
  BY DEF MarkFailed, Status

(* The steps that process a result keep the type invariant. *)
LEMMA TypeResult ==
  ASSUME TypeOK, NEW r \in Run, NEW n \in Node,
         \/ LlmFails(r, n) \/ PostFails(r, n) \/ Accepts(r, n)
         \/ Retry(r, n) \/ Replan(r, n) \/ Abort(r, n)
  PROVE  TypeOK'
<1>1. dag[r] \in [Node -> Status] /\ pend \in [Run -> SUBSET Event] /\ pend[r] \subseteq Event
  BY DEF TypeOK
<1>2. MarkFailed(dag[r], {n}) \in [Node -> Status]
  BY <1>1, MarkFailedType
<1>3. [dag[r] EXCEPT ![n] = "completed"] \in [Node -> Status]
      /\ [dag[r] EXCEPT ![n] = "pending"] \in [Node -> Status]
      /\ [dag[r] EXCEPT ![n] = "completed", ![Alt(n)] = "pending"] \in [Node -> Status]
  BY <1>1 DEF Status
<1>4. IsFiniteSet({}) /\ {} \in SUBSET Event
  BY FS_EmptySet
<1>5. {Ev(n, "release", 0)} \in SUBSET Event /\ IsFiniteSet({Ev(n, "release", 0)})
  BY EventTypes, FS_Singleton
<1>6. /\ replans \in [Run -> 0..MaxReplans]
      /\ prow \in [Run -> RowStatus \cup {None}]
      /\ drafts \in [Run -> SUBSET [Node -> Status]]
      /\ aborted \subseteq Run
      /\ dag \in [Run -> [Node -> Status]]
  BY DEF TypeOK
<1>7. CASE LlmFails(r, n)
  <2>1. Processing(r, n, MarkFailed(dag[r], {n}))
    BY <1>7 DEF LlmFails
  <2>2. CASE pend' = [pend EXCEPT ![r] = @ \cup {Ev(n, "release", 0)}]
    BY <1>7, <1>2, <1>5, <1>6, <2>1, <2>2, ProcessTypes DEF LlmFails
  <2>3. CASE UNCHANGED pend
    <3>1. pend' = [pend EXCEPT ![r] = @ \cup {}]
      BY <2>3, <1>1
    <3> QED
      BY <1>7, <1>2, <1>4, <1>6, <2>1, <3>1, ProcessTypes DEF LlmFails
  <2> QED
    BY <1>7, <2>2, <2>3 DEF LlmFails
<1>8. CASE PostFails(r, n)
  <2>1. Processing(r, n, MarkFailed(dag[r], {n}))
    BY <1>8 DEF PostFails
  <2>2. CASE pend' = [pend EXCEPT ![r] = @ \cup {Ev(n, "release", 0)}]
    BY <1>8, <1>2, <1>5, <1>6, <2>1, <2>2, ProcessTypes DEF PostFails
  <2>3. CASE pend' = [pend EXCEPT ![r] = @ \cup ChargeEvents(r, n)]
    <3>1. ChargeEvents(r, n) \in SUBSET Event /\ IsFiniteSet(ChargeEvents(r, n))
      BY EventTypes
    <3> QED
      BY <1>8, <1>2, <3>1, <1>6, <2>1, <2>3, ProcessTypes DEF PostFails
  <2>4. CASE pend' = [pend EXCEPT ![r] = @ \cup Paid(r, n)]
    <3>1. Paid(r, n) \in SUBSET Event /\ IsFiniteSet(Paid(r, n))
      BY EventTypes
    <3> QED
      BY <1>8, <1>2, <3>1, <1>6, <2>1, <2>4, ProcessTypes DEF PostFails
  <2>5. CASE UNCHANGED pend
    <3>1. pend' = [pend EXCEPT ![r] = @ \cup {}]
      BY <2>5, <1>1
    <3> QED
      BY <1>8, <1>2, <1>4, <1>6, <2>1, <3>1, ProcessTypes DEF PostFails
  <2> QED
    BY <1>8, <2>2, <2>3, <2>4, <2>5 DEF PostFails
<1>9. Paid(r, n) \in SUBSET Event /\ IsFiniteSet(Paid(r, n))
  BY EventTypes
<1>10. CASE Accepts(r, n)
  <2>1. Processing(r, n, [dag[r] EXCEPT ![n] = "completed"])
    BY <1>10 DEF Accepts
  <2> QED
    BY <1>10, <1>3, <1>6, <1>9, <2>1, ProcessTypes DEF Accepts
<1>11. CASE Retry(r, n)
  <2>1. Processing(r, n, [dag[r] EXCEPT ![n] = "pending"])
    BY <1>11 DEF Retry
  <2> DEFINE E == Paid(r, n) \cup {Ev(n, "retry", Retries(r, n) + 1)}
  <2>2. E \in SUBSET Event /\ IsFiniteSet(E)
    BY <1>9, EventTypes, FS_Singleton, FS_Union
  <2>3. pend' = [pend EXCEPT ![r] = @ \cup E]
    BY <1>11, <1>1 DEF Retry
  <2> HIDE DEF E
  <2> QED
    BY <1>11, <1>3, <1>6, <2>1, <2>2, <2>3, ProcessTypes DEF Retry
<1>12. CASE Replan(r, n)
  <2>1. Processing(r, n, [dag[r] EXCEPT ![n] = "completed", ![Alt(n)] = "pending"])
    BY <1>12 DEF Replan
  <2>2. replans' \in [Run -> 0..MaxReplans]
    BY <1>12, <1>6, BoundsAssumption DEF Replan
  <2> QED
    BY <1>12, <1>3, <1>6, <1>9, <2>1, <2>2, ProcessTypes DEF Replan
<1>13. CASE Abort(r, n)
  <2>1. Processing(r, n, [dag[r] EXCEPT ![n] = "completed"])
    BY <1>13 DEF Abort, Saved
  <2>2. dag'[r] \in [Node -> Status]
    BY <1>3, <1>6, <2>1 DEF Processing
  <2>3. drafts' \in [Run -> SUBSET [Node -> Status]]
    <3>1. CASE drafts' = [drafts EXCEPT ![r] = @ \cup {dag'[r]}]
      BY <3>1, <1>6, <2>2
    <3> QED
      BY <1>13, <1>6, <3>1 DEF Abort, Saved
  <2>4. prow' \in [Run -> RowStatus \cup {None}] /\ replans' \in [Run -> 0..MaxReplans] /\ aborted' \subseteq Run
    BY <1>13, <1>6 DEF Abort, Saved, RowStatus
  <2>5. pend' = [pend EXCEPT ![r] = @ \cup Paid(r, n)]
    BY <1>13 DEF Abort, Saved
  <2> QED
    BY <1>3, <1>9, <2>1, <2>3, <2>4, <2>5, ProcessTypes
<1> QED
  BY <1>7, <1>8, <1>10, <1>11, <1>12, <1>13

(* Leaving the gate keeps the types of what it changes. *)
LEMMA AfterGateType ==
  ASSUME TypeOK, NEW r \in Run, NEW n, NEW d \in [Node -> Status], NEW left \in SUBSET Node,
         AfterGate(r, n, d, left)
  PROVE  /\ pc' \in [Run -> {"unused", "launched", "loop", "policy", "gate", "asked",
                             "results", "commit", "failing", "ended"}]
         /\ gate' \in [Run -> SUBSET Node]
         /\ batch' \in [Run -> SUBSET Node]
         /\ dag' \in [Run -> [Node -> Status]]
         /\ lock' \in Run \cup {None}
         /\ psnap' \in [Run -> [Node -> Status] \cup {None}]
<1>1. gate' \in [Run -> SUBSET Node] /\ batch' \in [Run -> SUBSET Node] /\ dag' \in [Run -> [Node -> Status]]
  BY DEF AfterGate, TypeOK
<1>2. \E label \in {"gate", "results", "loop"} : pc' = [pc EXCEPT ![r] = label]
  BY DEF AfterGate, Goto, After
<1>3. lock' \in Run \cup {None} /\ psnap' \in [Run -> [Node -> Status] \cup {None}]
  <2>1. PersistDag(r, d) \/ UNCHANGED <<lock, psnap>>
    BY DEF AfterGate
  <2>2. CASE PersistDag(r, d)
    BY <2>2 DEF PersistDag, TypeOK
  <2>3. CASE UNCHANGED <<lock, psnap>>
    BY <2>3 DEF TypeOK
  <2> QED
    BY <2>1, <2>2, <2>3
<1> QED
  BY <1>1, <1>2, <1>3 DEF TypeOK

(* The other steps of a run keep the type invariant. *)
LEMMA TypeStep ==
  ASSUME TypeOK, NEW r \in Run, Step(r)
  PROVE  TypeOK'
<1> DEFINE PCs == {"unused", "launched", "loop", "policy", "gate", "asked",
                   "results", "commit", "failing", "ended"}
<1>0. /\ dag \in [Run -> [Node -> Status]] /\ snap \in [Node -> Status]
      /\ pend \in [Run -> SUBSET Event] /\ pend[r] \subseteq Event
      /\ pc \in [Run -> PCs]
      /\ dag[r] \in [Node -> Status]
  BY DEF TypeOK
<1>1. CASE Claim(r)
  <2>1. dag' \in [Run -> [Node -> Status]]
    BY <1>1, <1>0 DEF Claim, Planned, Status
  <2>2. staffed' \in [Run -> SUBSET Node]
    BY <1>1 DEF Claim, TypeOK, Present
  <2>3. row' \in RowStatus /\ prow' \in [Run -> RowStatus \cup {None}] /\ lock' \in Run \cup {None}
    BY <1>1 DEF Claim, TypeOK, RowStatus
  <2>4. pc' \in [Run -> PCs]
    BY <1>1, <1>0 DEF Claim, Goto
  <2> QED
    BY <1>1, <2>1, <2>2, <2>3, <2>4 DEF Claim, TypeOK
<1>2. CASE SelectFails(r)
  BY <1>2 DEF SelectFails, TypeOK, Goto, dbVars, storeVars
<1>3. CASE Prepare(r)
  <2> DEFINE ready == Ready(dag[r])
             fresh == {n \in ready \cap staffed[r] : ~Has(r, n, "reserve")}
  <2>1. PICK broke \in (IF "budget" \in Faults THEN SUBSET fresh ELSE {{}}) :
          LET started == (ready \cap staffed[r]) \ broke
              d == MarkFailed(dag[r], ready \ started)
          IN  /\ dag' = [dag EXCEPT ![r] =
                           [n \in Node |-> IF n \in started THEN "running" ELSE d[n]]]
              /\ batch' = [batch EXCEPT ![r] = started]
              /\ pend' = [pend EXCEPT ![r] =
                            @ \cup {Ev(n, "reserve", 0) : n \in started \cap fresh}]
    BY <1>3 DEF Prepare
  <2> DEFINE started == (ready \cap staffed[r]) \ broke
             d == MarkFailed(dag[r], ready \ started)
             E == {Ev(n, "reserve", 0) : n \in started \cap fresh}
  <2>2. ready \subseteq Node /\ started \subseteq Node
    BY DEF Ready
  <2>3. d \in [Node -> Status]
    BY <2>2, <1>0, MarkFailedType
  <2>4. dag' \in [Run -> [Node -> Status]]
    <3>1. [n \in Node |-> IF n \in started THEN "running" ELSE d[n]] \in [Node -> Status]
      BY <2>3 DEF Status
    <3> HIDE DEF started, d
    <3> QED
      BY <2>1, <3>1, <1>0 DEF started, d
  <2>5. E \subseteq Event
    BY <2>2, EventTypes
  <2>6. IsFiniteSet(E)
    <3>1. IsFiniteSet(started \cap fresh)
      BY <2>2, NodeFinite, FS_Subset
    <3> HIDE DEF started, fresh
    <3> DEFINE f == [n \in started \cap fresh |-> Ev(n, "reserve", 0)]
    <3>2. f \in Surjection(started \cap fresh, E)
      BY DEF Surjection
    <3> QED
      BY <3>1, <3>2, FS_Surjection
  <2>7. IsFiniteSet(pend[r] \cup E)
    BY <2>6, FS_Union DEF TypeOK
  <2>8. pend' = [pend EXCEPT ![r] = @ \cup E] /\ batch' = [batch EXCEPT ![r] = started]
    BY <2>1
  <2> HIDE DEF E, started
  <2>9. pend' \in [Run -> SUBSET Event] /\ \A q \in Run : IsFiniteSet(pend'[q])
    BY <2>5, <2>7, <2>8 DEF TypeOK
  <2>10. batch' \in [Run -> SUBSET Node] /\ pc' \in [Run -> PCs] /\ iter' \in [Run -> Nat]
    BY <1>3, <1>0, <2>2, <2>8 DEF TypeOK, Prepare, Goto
  <2> QED
    BY <1>3, <2>4, <2>9, <2>10 DEF Prepare, TypeOK
<1>4. CASE Policy(r)
  <2>1. PICK verdict \in [batch[r] -> Policies] :
          /\ batch' = [batch EXCEPT ![r] = @ \ {n \in batch[r] : verdict[n] = "deny"}]
          /\ gate' = [gate EXCEPT ![r] = (batch[r] \cap Risky)
                                            \cup {n \in batch[r] : verdict[n] = "escalate"}]
    BY <1>4 DEF Policy
  <2>2. batch' \in [Run -> SUBSET Node] /\ gate' \in [Run -> SUBSET Node]
    BY <2>1 DEF TypeOK
  <2>3. pc' \in [Run -> PCs]
    BY <1>4, <1>0 DEF Policy, Goto, After
  <2>4. CASE CommitTxn(r)
    BY <1>4, <2>2, <2>3, <2>4, TxnTypes DEF Policy, TypeOK
  <2>5. CASE PersistDag(r, dag[r]) /\ UNCHANGED storeVars
    <3>1. lock' \in Run \cup {None} /\ psnap' \in [Run -> [Node -> Status] \cup {None}]
      BY <1>0, <2>5 DEF PersistDag, TypeOK
    <3> QED
      BY <1>4, <2>2, <2>3, <2>5, <3>1 DEF Policy, TypeOK, storeVars
  <2>6. CASE UNCHANGED dbVars
    BY <1>4, <2>2, <2>3, <2>6 DEF Policy, TypeOK, dbVars, storeVars
  <2> QED
    BY <1>4, <2>4, <2>5, <2>6 DEF Policy
<1>5. CASE GateCheck(r)
  <2>1. asked' \in [Run -> Node \cup {None}]
    BY <1>5 DEF GateCheck, TypeOK
  <2>2. CASE decision[asked[r]] = "pending"
    <3>1. pc' \in [Run -> PCs] /\ row' \in RowStatus
      BY <1>5, <1>0, <2>2 DEF GateCheck, Goto, TypeOK, RowStatus
    <3> QED
      BY <1>5, <2>1, <2>2, <3>1 DEF GateCheck, TypeOK
  <2>3. CASE decision[asked[r]] # "pending"
    <3>1. AfterGate(r, asked[r], dag[r], batch[r]) /\ row' = row /\ batch[r] \in SUBSET Node
      BY <1>5, <2>3 DEF GateCheck, TypeOK
    <3>2. /\ pc' \in [Run -> PCs] /\ gate' \in [Run -> SUBSET Node] /\ batch' \in [Run -> SUBSET Node]
          /\ dag' \in [Run -> [Node -> Status]] /\ lock' \in Run \cup {None}
          /\ psnap' \in [Run -> [Node -> Status] \cup {None}]
      BY <1>0, <3>1, AfterGateType
    <3> QED
      BY <1>5, <2>1, <3>1, <3>2 DEF GateCheck, TypeOK
  <2> QED
    BY <2>2, <2>3
<1>6. ASSUME NEW n \in Node, GateHonour(r, n)
      PROVE  TypeOK'
  <2>1. MarkFailed(dag[r], {n}) \in [Node -> Status] /\ batch[r] \in SUBSET Node /\ batch[r] \ {n} \in SUBSET Node
    BY <1>0, MarkFailedType DEF TypeOK
  <2>2. AfterGate(r, n, dag[r], batch[r]) \/ AfterGate(r, n, MarkFailed(dag[r], {n}), batch[r] \ {n})
    BY <1>6 DEF GateHonour
  <2>3. /\ pc' \in [Run -> PCs] /\ gate' \in [Run -> SUBSET Node] /\ batch' \in [Run -> SUBSET Node]
        /\ dag' \in [Run -> [Node -> Status]] /\ lock' \in Run \cup {None}
        /\ psnap' \in [Run -> [Node -> Status] \cup {None}]
    BY <1>0, <2>1, <2>2, AfterGateType
  <2> QED
    BY <1>6, <2>3 DEF GateHonour, TypeOK, storeVars
<1>7. ASSUME NEW n \in Node, GateAsk(r, n)
      PROVE  TypeOK'
  <2>1. dag' \in [Run -> [Node -> Status]] /\ dag'[r] \in [Node -> Status]
    BY <1>7, <1>0 DEF GateAsk, Saved, Status
  <2>2. ckpts' \subseteq [Node -> Status]
    <3>1. CASE ckpts' = ckpts \cup {dag'[r]}
      BY <3>1, <2>1 DEF TypeOK
    <3> QED
      BY <1>7, <3>1 DEF GateAsk, Saved, TypeOK
  <2> QED
    BY <1>7, <2>1, <2>2 DEF GateAsk, Saved, TypeOK, Goto
<1>8. ASSUME NEW n \in Node,
             \/ LlmFails(r, n) \/ PostFails(r, n) \/ Accepts(r, n)
             \/ Retry(r, n) \/ Replan(r, n) \/ Abort(r, n)
      PROVE  TypeOK'
  BY <1>8, TypeResult
<1>9. CASE Finish(r)
  BY <1>9 DEF Finish, TypeOK, Goto, RowStatus
<1>10. CASE Runaway(r)
  BY <1>10 DEF Runaway, TypeOK, Goto, RowStatus
<1>11. CASE EndRun(r)
  BY <1>11, <1>0, TxnTypes DEF EndRun, TypeOK, Goto
<1>12. CASE Crash(r)
  <2>1. CommitTxn(r) \/ RollbackTxn(r)
    BY <1>12 DEF Crash
  <2>2. pc' \in [Run -> PCs]
    BY <1>12, <1>0 DEF Crash, Goto
  <2> QED
    BY <1>12, <2>1, <2>2, TxnTypes DEF Crash, TypeOK
<1>13. CASE MarkWorkflowFailed(r)
  BY <1>13 DEF MarkWorkflowFailed, TypeOK, Goto, RowStatus
<1> QED
  BY <1>1, <1>2, <1>3, <1>4, <1>5, <1>6, <1>7, <1>8, <1>9, <1>10, <1>11, <1>12, <1>13 DEF Step

(* Every step keeps the type invariant. *)
LEMMA TypeNext == TypeOK /\ [Next]_vars => TypeOK'
<1> SUFFICES ASSUME TypeOK, [Next]_vars PROVE TypeOK'
  OBVIOUS
<1>1. ASSUME NEW r \in Run, Timeout(r) PROVE TypeOK'
  BY <1>1, TxnTypes DEF Timeout, TypeOK, Goto
<1>2. ASSUME NEW r \in Run, Resume(r) PROVE TypeOK'
  BY <1>2 DEF Resume, Load, TypeOK, Goto, RowStatus
<1>3. ASSUME NEW n \in Node, Expire(n) PROVE TypeOK'
  BY <1>3 DEF Expire, TypeOK, RowStatus, runVars
<1>4. ASSUME NEW n \in Node, NEW verdict \in {"approved", "denied"}, Decide(n, verdict) PROVE TypeOK'
  BY <1>4 DEF Decide, TypeOK, runVars, dbVars, storeVars
<1>5. CASE CancelRead
  BY <1>5 DEF CancelRead, TypeOK, runVars, dbVars, storeVars
<1>6. CASE CancelWrite
  BY <1>6 DEF CancelWrite, TypeOK, runVars, RowStatus
<1>7. CASE CleanupStale
  BY <1>7 DEF CleanupStale, TypeOK, runVars, RowStatus
<1>8. CASE UNCHANGED vars
  BY <1>8 DEF TypeOK, vars, runVars, dbVars, storeVars
<1> QED
  BY <1>1, <1>2, <1>3, <1>4, <1>5, <1>6, <1>7, <1>8, TypeStep DEF Next

(* The state always has its types: in particular a run never injects more  *)
(* than MAX_REPLANS_PER_WORKFLOW alternatives.                             *)
THEOREM SchedulerTypeCorrect == Spec => []TypeOK
  BY TypeInit, TypeNext, PTL DEF Spec

-----------------------------------------------------------------------------
(* Init satisfies the DAG invariant: nothing is started or failed. *)
LEMMA DagInit == Init => DagInv
<1> SUFFICES ASSUME Init PROVE DagInv
  OBVIOUS
<1>1. GoodDag(Planned)
  <2>1. \A n \in Node : Planned[n] \in {"pending", "absent"}
    BY DEF Planned
  <2> QED
    BY <2>1, DependsOnType DEF GoodDag
<1> QED
  BY <1>1 DEF Init, DagInv

(* A step that replaces one run's DAG and batch by good ones. *)
LEMMA DagStep ==
  ASSUME TypeOK, DagInv, NEW r \in Run,
         NEW d, GoodDag(d), dag' = [dag EXCEPT ![r] = d],
         NEW B, \A n \in B : Started(d, n), batch' = [batch EXCEPT ![r] = B],
         NEW label, label \notin {"unused", "launched"}, pc' = [pc EXCEPT ![r] = label],
         GoodDag(snap'),
         \A c \in ckpts' : GoodDag(c),
         \A q \in Run : \A c \in drafts'[q] : GoodDag(c),
         \A q \in Run : psnap'[q] # None => GoodDag(psnap'[q])
  PROVE  DagInv'
<1>1. \A q \in Run : dag'[q] = (IF q = r THEN d ELSE dag[q]) /\ batch'[q] = (IF q = r THEN B ELSE batch[q])
                     /\ pc'[q] = (IF q = r THEN label ELSE pc[q])
  BY DEF TypeOK
<1>2. \A q \in Run : GoodDag(dag'[q])
  BY <1>1 DEF DagInv
<1>3. \A q \in Run : \A n \in batch'[q] : Started(dag'[q], n)
  BY <1>1 DEF DagInv
<1>4. \A q \in Run : pc'[q] \in {"unused", "launched"} => batch'[q] = {}
  BY <1>1 DEF DagInv
<1> QED
  BY <1>2, <1>3, <1>4 DEF DagInv, GoodDag, Started

(* Commits and rollbacks keep checkpoints good. *)
LEMMA DagTxn ==
  ASSUME TypeOK, DagInv, NEW r \in Run, CommitTxn(r) \/ RollbackTxn(r)
  PROVE  /\ \A c \in ckpts' : GoodDag(c)
         /\ \A q \in Run : \A c \in drafts'[q] : GoodDag(c)
         /\ \A q \in Run : psnap'[q] # None => GoodDag(psnap'[q])
         /\ GoodDag(snap')
<1>1. \A q \in Run : drafts'[q] \subseteq drafts[q] /\ psnap'[q] \in {None, psnap[q]}
  BY DEF CommitTxn, RollbackTxn, TypeOK
<1>2. ckpts' \subseteq ckpts \cup drafts[r] /\ (snap' = snap \/ (psnap[r] # None /\ snap' = psnap[r]))
  BY DEF CommitTxn, RollbackTxn
<1> QED
  BY <1>1, <1>2 DEF DagInv

(* The snapshots that a run flushes are good when its DAG is. *)
LEMMA DagPersist ==
  ASSUME TypeOK, DagInv, NEW r \in Run, NEW d, GoodDag(d),
         psnap' = psnap \/ psnap' = [psnap EXCEPT ![r] = d]
  PROVE  \A q \in Run : psnap'[q] # None => GoodDag(psnap'[q])
<1>1. \A q \in Run : psnap'[q] \in {d, psnap[q]}
  BY DEF TypeOK
<1> QED
  BY <1>1 DEF DagInv

(* The batch that is left after node n was set aside is still started. *)
LEMMA BatchLeft ==
  ASSUME TypeOK, DagInv, NEW r \in Run, NEW n \in batch[r]
  PROVE  /\ n \in Node /\ dag[r] \in [Node -> Status] /\ GoodDag(dag[r]) /\ Started(dag[r], n)
         /\ GoodDag(MarkFailed(dag[r], {n}))
         /\ \A m \in batch[r] \ {n} : Started(MarkFailed(dag[r], {n}), m)
         /\ \A s \in {"pending", "completed"} :
              /\ GoodDag([dag[r] EXCEPT ![n] = s])
              /\ \A m \in batch[r] \ {n} : Started([dag[r] EXCEPT ![n] = s], m)
         /\ \A m \in batch[r] : Started([dag[r] EXCEPT ![n] = "pending"], m)
<1>1. n \in Node /\ dag[r] \in [Node -> Status] /\ GoodDag(dag[r]) /\ Started(dag[r], n)
  BY DEF TypeOK, DagInv
<1>2. \A m \in batch[r] : m \in Node /\ Started(dag[r], m) /\ DependsOn(m) \subseteq Node
  BY DependsOnType DEF TypeOK, DagInv
<1>3. /\ GoodDag(MarkFailed(dag[r], {n}))
      /\ \A m \in Node \ {n} : Started(dag[r], m) => MarkFailed(dag[r], {n})[m] = dag[r][m]
      /\ \A m \in Node : dag[r][m] = "completed" <=> MarkFailed(dag[r], {n})[m] = "completed"
  BY <1>1, MarkFailedGood DEF Started
<1>4. \A m \in batch[r] \ {n} : Started(MarkFailed(dag[r], {n}), m)
  BY <1>2, <1>3 DEF Started
<1>5. ASSUME NEW s \in {"pending", "completed"}
      PROVE  /\ GoodDag([dag[r] EXCEPT ![n] = s])
             /\ \A m \in batch[r] \ {n} : Started([dag[r] EXCEPT ![n] = s], m)
  <2>1. GoodDag([dag[r] EXCEPT ![n] = s])
        /\ \A k \in Node : Started(dag[r], k) => \A m \in DependsOn(k) : m # n
    BY <1>1, <1>5, SetGood
  <2> QED
    BY <2>1, <1>1, <1>2 DEF Started
<1>6. \A m \in batch[r] : Started([dag[r] EXCEPT ![n] = "pending"], m)
  <2>1. \A k \in Node : Started(dag[r], k) => \A m \in DependsOn(k) : m # n
    BY <1>1, SetGood
  <2> QED
    BY <2>1, <1>1, <1>2 DEF Started
<1> QED
  BY <1>1, <1>3, <1>4, <1>5, <1>6

(* Processing a result keeps the DAG invariant. *)
LEMMA DagResult ==
  ASSUME TypeOK, DagInv, NEW r \in Run, NEW n \in Node,
         \/ LlmFails(r, n) \/ PostFails(r, n) \/ Accepts(r, n)
         \/ Retry(r, n) \/ Replan(r, n) \/ Abort(r, n)
  PROVE  DagInv'
<1> DEFINE B == batch[r] \ {n}
<1>1. PICK d :
        /\ Processing(r, n, d)
        /\ \/ d = MarkFailed(dag[r], {n})
           \/ d = [dag[r] EXCEPT ![n] = "completed"]
           \/ d = [dag[r] EXCEPT ![n] = "pending"]
           \/ d = [dag[r] EXCEPT ![n] = "completed", ![Alt(n)] = "pending"] /\ Replan(r, n)
        /\ drafts' = drafts \/ (drafts' = [drafts EXCEPT ![r] = @ \cup {dag'[r]}])
  BY Zenon DEF LlmFails, PostFails, Accepts, Retry, Replan, Abort, Saved
<1>2. /\ n \in batch[r] /\ batch' = [batch EXCEPT ![r] = B] /\ dag' = [dag EXCEPT ![r] = d]
      /\ snap' = snap /\ ckpts' = ckpts
      /\ dag \in [Run -> [Node -> Status]]
      /\ psnap' = psnap \/ psnap' = [psnap EXCEPT ![r] = d]
      /\ \E label \in {"loop", "results"} : pc' = [pc EXCEPT ![r] = label]
  BY <1>1 DEF Processing, Goto, TypeOK, After
<1>3. PICK label \in {"loop", "results"} : pc' = [pc EXCEPT ![r] = label]
  BY <1>2
<1>4. GoodDag(d) /\ \A m \in B : Started(d, m)
  <2>1. CASE d = MarkFailed(dag[r], {n})
    BY <1>2, <2>1, BatchLeft
  <2>3. CASE d = [dag[r] EXCEPT ![n] = "completed"]
    BY <1>2, <2>3, BatchLeft
  <2>4. CASE d = [dag[r] EXCEPT ![n] = "pending"]
    BY <1>2, <2>4, BatchLeft
  <2>2. CASE d = [dag[r] EXCEPT ![n] = "completed", ![Alt(n)] = "pending"] /\ Replan(r, n)
    <3>1. n[2] < MaxAlt /\ dag[r][Alt(n)] = "absent"
      BY <2>2 DEF Replan
    <3>2. GoodDag(d)
      BY <1>2, <2>2, <3>1, BatchLeft, AltGood
    <3>3. \A m \in B : Started([dag[r] EXCEPT ![n] = "completed"], m) /\ m \in Node /\ dag[r][m] # "absent"
      BY <1>2, BatchLeft DEF TypeOK, DagInv, Started
    <3>4. Alt(n) \in Node /\ \A k \in Node : Alt(n) \notin DependsOn(k) /\ DependsOn(k) \subseteq Node
      BY <3>1, DependsOnType
    <3>5. \A m \in B : Started(d, m)
      BY <2>2, <3>1, <3>3, <3>4, <1>2 DEF Started
    <3> QED
      BY <3>2, <3>5
  <2> QED
    BY <1>1, <2>1, <2>2, <2>3, <2>4
<1>5. \A q \in Run : \A c \in drafts'[q] : GoodDag(c)
  <2>1. \A q \in Run : drafts'[q] \subseteq drafts[q] \cup {d}
    <3>1. dag'[r] = d
      BY <1>2
    <3>2. drafts' = drafts \/ drafts' = [drafts EXCEPT ![r] = @ \cup {d}]
      BY <1>1, <3>1
    <3>3. DOMAIN drafts = Run
      BY DEF TypeOK
    <3> QED
      BY <3>2, <3>3
  <2> QED
    BY <2>1, <1>4 DEF DagInv
<1>6. \A q \in Run : psnap'[q] # None => GoodDag(psnap'[q])
  BY <1>2, <1>4, DagPersist
<1>7. GoodDag(snap') /\ (\A c \in ckpts' : GoodDag(c)) /\ label \notin {"unused", "launched"}
  BY <1>2 DEF DagInv
<1> HIDE DEF B
<1> QED
  BY <1>2, <1>3, <1>4, <1>5, <1>6, <1>7, DagStep

(* Phase 1 keeps the DAG invariant: ready nodes have completed             *)
(* dependencies, so failing some and starting the others is sound.         *)
LEMMA DagPrepare ==
  ASSUME TypeOK, DagInv, NEW r \in Run, Prepare(r)
  PROVE  DagInv'
<1> DEFINE ready == Ready(dag[r])
           fresh == {n \in ready \cap staffed[r] : ~Has(r, n, "reserve")}
<1>1. PICK broke \in (IF "budget" \in Faults THEN SUBSET fresh ELSE {{}}) :
        LET started == (ready \cap staffed[r]) \ broke
            d == MarkFailed(dag[r], ready \ started)
        IN  /\ dag' = [dag EXCEPT ![r] =
                         [n \in Node |-> IF n \in started THEN "running" ELSE d[n]]]
            /\ batch' = [batch EXCEPT ![r] = started]
  BY DEF Prepare
<1> DEFINE started == (ready \cap staffed[r]) \ broke
           F == ready \ started
           d == MarkFailed(dag[r], F)
           e == [n \in Node |-> IF n \in started THEN "running" ELSE d[n]]
<1>2. dag' = [dag EXCEPT ![r] = e] /\ batch' = [batch EXCEPT ![r] = started]
  BY <1>1
<1>3. ready \subseteq Node /\ \A n \in ready : Started(dag[r], n) /\ dag[r][n] = "pending"
  BY DEF Ready, Started
<1>4. started \subseteq ready
  OBVIOUS
<1> HIDE DEF ready, started
<1>5. dag[r] \in [Node -> Status] /\ GoodDag(dag[r])
  BY DEF TypeOK, DagInv
<1>6. F \in SUBSET Node /\ \A n \in F : dag[r][n] \in {"running", "pending"}
  BY <1>3
<1>7. /\ d \in [Node -> Status]
      /\ GoodDag(d)
      /\ \A n \in Node : dag[r][n] = "completed" <=> d[n] = "completed"
  BY <1>5, <1>6, MarkFailedGood
<1>8. \A n \in Node : DependsOn(n) \subseteq Node
  BY DependsOnType
<1>9. \A n \in started : \A m \in DependsOn(n) : d[m] = "completed" /\ m \notin started
  BY <1>3, <1>4, <1>7, <1>8 DEF Started
<1>10. \A m \in Node : d[m] = "completed" => m \notin started /\ e[m] = "completed"
  BY <1>3, <1>4, <1>7
<1> HIDE DEF d
<1>11. GoodDag(e)
  <2>1. ASSUME NEW n \in Node, e[n] \in {"running", "completed"}, NEW m \in DependsOn(n)
        PROVE  e[m] = "completed"
    BY <2>1, <1>7, <1>8, <1>9, <1>10 DEF GoodDag
  <2>2. ASSUME NEW n \in Node, NEW m \in DependsOn(n), e[m] \in {"failed", "skipped"}
        PROVE  e[n] \in {"absent", "failed", "skipped"}
    <3>1. m \in Node /\ m \notin started /\ d[m] = e[m]
      BY <2>2, <1>8
    <3>2. n \notin started
      BY <2>2, <3>1, <1>9
    <3> QED
      BY <2>2, <3>1, <3>2, <1>7 DEF GoodDag
  <2> QED
    BY <2>1, <2>2 DEF GoodDag
<1>12. \A n \in started : Started(e, n)
  BY <1>3, <1>4, <1>8, <1>9, <1>10 DEF Started
<1>13. /\ pc' = [pc EXCEPT ![r] = "policy"] /\ snap' = snap /\ ckpts' = ckpts /\ drafts' = drafts
       /\ psnap' = psnap
  BY DEF Prepare, Goto
<1>14. "policy" \notin {"unused", "launched"}
  OBVIOUS
<1> HIDE DEF e
<1> QED
  BY <1>2, <1>11, <1>12, <1>13, <1>14, DagStep DEF DagInv

(* A step of a run that leaves its DAG alone and shrinks its batch. *)
LEMMA DagSame ==
  ASSUME TypeOK, DagInv, NEW r \in Run, UNCHANGED dag,
         NEW B, B \subseteq batch[r], batch' = [batch EXCEPT ![r] = B],
         NEW label, label \notin {"unused", "launched"}, pc' = [pc EXCEPT ![r] = label],
         GoodDag(snap'),
         \A c \in ckpts' : GoodDag(c),
         \A q \in Run : \A c \in drafts'[q] : GoodDag(c),
         \A q \in Run : psnap'[q] # None => GoodDag(psnap'[q])
  PROVE  DagInv'
<1> DEFINE d == dag[r]
<1>1. dag' = [dag EXCEPT ![r] = d]
  BY DEF TypeOK
<1>2. GoodDag(d) /\ \A n \in B : Started(d, n)
  BY DEF DagInv
<1> HIDE DEF d
<1> QED
  BY <1>1, <1>2, DagStep

(* The policy rules and the approval gate keep the DAG invariant: a node   *)
(* that is asked about goes back to pending, and nothing depends on it.    *)
LEMMA DagGate ==
  ASSUME TypeOK, DagInv, NEW r \in Run,
         Policy(r) \/ GateCheck(r) \/ \E n \in Node : GateHonour(r, n) \/ GateAsk(r, n)
  PROVE  DagInv'
<1>1. CASE Policy(r)
  <2>1. PICK B \in SUBSET batch[r] : batch' = [batch EXCEPT ![r] = B]
    <3>1. PICK verdict \in [batch[r] -> Policies] :
            batch' = [batch EXCEPT ![r] = @ \ {n \in batch[r] : verdict[n] = "deny"}]
      BY <1>1 DEF Policy
    <3> WITNESS batch[r] \ {n \in batch[r] : verdict[n] = "deny"} \in SUBSET batch[r]
    <3> QED
      BY <3>1
  <2>2. PICK label \in {"gate", "results", "loop"} : pc' = [pc EXCEPT ![r] = label]
    <3> DEFINE label == After(gate'[r], batch'[r])
    <3>1. label \in {"gate", "results", "loop"}
      BY DEF After
    <3>2. pc' = [pc EXCEPT ![r] = label]
      BY <1>1 DEF Policy, Goto
    <3> QED
      BY <3>1, <3>2
  <2>3. dag' = dag /\ GoodDag(dag[r])
    BY <1>1 DEF Policy, DagInv
  <2>4. /\ GoodDag(snap')
        /\ \A c \in ckpts' : GoodDag(c)
        /\ \A q \in Run : \A c \in drafts'[q] : GoodDag(c)
        /\ \A q \in Run : psnap'[q] # None => GoodDag(psnap'[q])
    <3>1. CASE CommitTxn(r)
      BY <3>1, DagTxn
    <3>2. CASE /\ snap' = snap /\ ckpts' = ckpts /\ drafts' = drafts
               /\ psnap' = psnap \/ psnap' = [psnap EXCEPT ![r] = dag[r]]
      <4>1. \A q \in Run : psnap'[q] # None => GoodDag(psnap'[q])
        BY <2>3, <3>2, DagPersist
      <4> QED
        BY <3>2, <4>1 DEF DagInv
    <3> QED
      BY <1>1, <3>1, <3>2 DEF Policy, PersistDag, dbVars, storeVars
  <2>5. label \notin {"unused", "launched"}
    OBVIOUS
  <2> QED
    BY <2>1, <2>2, <2>3, <2>4, <2>5, DagSame
<1>2. ASSUME NEW n, NEW d, NEW B,
             GoodDag(d), \A m \in B : Started(d, m), AfterGate(r, n, d, B),
             UNCHANGED <<snap, ckpts, drafts>>
      PROVE  DagInv'
  <2>1. /\ dag' = [dag EXCEPT ![r] = d] /\ batch' = [batch EXCEPT ![r] = B]
        /\ psnap' = psnap \/ psnap' = [psnap EXCEPT ![r] = d]
        /\ \E label \in {"gate", "results", "loop"} : pc' = [pc EXCEPT ![r] = label]
    BY <1>2 DEF AfterGate, PersistDag, Goto, After
  <2>2. PICK label \in {"gate", "results", "loop"} : pc' = [pc EXCEPT ![r] = label]
    BY <2>1
  <2>3. \A q \in Run : psnap'[q] # None => GoodDag(psnap'[q])
    BY <1>2, <2>1, DagPersist
  <2>4. /\ GoodDag(snap') /\ label \notin {"unused", "launched"}
        /\ \A c \in ckpts' : GoodDag(c)
        /\ \A q \in Run : \A c \in drafts'[q] : GoodDag(c)
    BY <1>2 DEF DagInv
  <2> QED
    BY <1>2, <2>1, <2>2, <2>3, <2>4, DagStep
<1>3. CASE GateCheck(r)
  <2>1. UNCHANGED <<snap, ckpts, drafts>>
    BY <1>3 DEF GateCheck
  <2>2. CASE decision[asked[r]] = "pending"
    <3>1. /\ dag' = dag /\ batch' = batch /\ psnap' = psnap /\ pc' = [pc EXCEPT ![r] = "ended"]
          /\ batch' = [batch EXCEPT ![r] = batch[r]] /\ batch[r] \subseteq batch[r]
      BY <1>3, <2>2 DEF GateCheck, Goto, TypeOK
    <3>2. /\ GoodDag(snap') /\ "ended" \notin {"unused", "launched"}
          /\ \A c \in ckpts' : GoodDag(c)
          /\ \A q \in Run : \A c \in drafts'[q] : GoodDag(c)
          /\ \A q \in Run : psnap'[q] # None => GoodDag(psnap'[q])
      BY <2>1, <3>1 DEF DagInv
    <3> QED
      BY <3>1, <3>2, DagSame
  <2>3. CASE decision[asked[r]] # "pending"
    <3>1. AfterGate(r, asked[r], dag[r], batch[r])
      BY <1>3, <2>3 DEF GateCheck
    <3>2. GoodDag(dag[r]) /\ \A m \in batch[r] : Started(dag[r], m)
      BY DEF DagInv
    <3> QED
      BY <1>2, <2>1, <3>1, <3>2
  <2> QED
    BY <2>2, <2>3
<1>4. ASSUME NEW n \in Node, GateHonour(r, n) PROVE DagInv'
  <2>1. n \in batch[r] /\ UNCHANGED <<snap, ckpts, drafts>>
    BY <1>4 DEF GateHonour, storeVars
  <2>2. /\ GoodDag(MarkFailed(dag[r], {n})) /\ \A m \in batch[r] \ {n} : Started(MarkFailed(dag[r], {n}), m)
        /\ GoodDag(dag[r]) /\ \A m \in batch[r] : Started(dag[r], m)
    BY <2>1, BatchLeft DEF DagInv
  <2>3. AfterGate(r, n, dag[r], batch[r]) \/ AfterGate(r, n, MarkFailed(dag[r], {n}), batch[r] \ {n})
    BY <1>4 DEF GateHonour
  <2> QED
    BY <1>2, <2>1, <2>2, <2>3
<1>5. ASSUME NEW n \in Node, GateAsk(r, n) PROVE DagInv'
  <2> DEFINE d == [dag[r] EXCEPT ![n] = "pending"]
             B == batch[r]
  <2>1. n \in batch[r] /\ dag \in [Run -> [Node -> Status]] /\ batch \in [Run -> SUBSET Node]
    BY <1>5 DEF GateAsk, Saved, TypeOK
  <2>2. /\ dag' = [dag EXCEPT ![r] = d] /\ batch' = [batch EXCEPT ![r] = B] /\ dag'[r] = d
        /\ snap' = snap /\ drafts' = drafts /\ psnap' = psnap /\ pc' = [pc EXCEPT ![r] = "asked"]
    BY <1>5, <2>1 DEF GateAsk, Saved, Goto
  <2>3. GoodDag(d) /\ \A m \in B : Started(d, m)
    BY <2>1, BatchLeft
  <2> HIDE DEF d, B
  <2>4. ckpts' \subseteq ckpts \cup {d}
    BY <1>5, <2>2 DEF GateAsk, Saved
  <2>5. /\ GoodDag(snap') /\ "asked" \notin {"unused", "launched"}
        /\ \A c \in ckpts' : GoodDag(c)
        /\ \A q \in Run : \A c \in drafts'[q] : GoodDag(c)
        /\ \A q \in Run : psnap'[q] # None => GoodDag(psnap'[q])
    BY <2>2, <2>3, <2>4 DEF DagInv
  <2> QED
    BY <2>2, <2>3, <2>5, DagStep
<1> QED
  BY <1>1, <1>3, <1>4, <1>5

(* Every other step of a run keeps the DAG invariant. *)
LEMMA DagRun ==
  ASSUME TypeOK, DagInv, NEW r \in Run,
         \/ Claim(r) \/ SelectFails(r) \/ Finish(r) \/ Runaway(r) \/ EndRun(r)
         \/ Crash(r) \/ Timeout(r) \/ MarkWorkflowFailed(r) \/ Resume(r)
  PROVE  DagInv'
<1>0. batch = [batch EXCEPT ![r] = batch[r]] /\ batch[r] \subseteq batch[r]
  BY DEF TypeOK
<1>1. CASE Claim(r)
  <2> DEFINE d == IF r = 1 THEN Planned ELSE snap
             B == batch[r]
  <2>1. GoodDag(Planned)
    <3>1. \A n \in Node : Planned[n] \in {"pending", "absent"}
      BY DEF Planned
    <3> QED
      BY <3>1, DependsOnType DEF GoodDag
  <2>2. GoodDag(d)
    BY <2>1 DEF DagInv
  <2>3. B = {} /\ batch' = [batch EXCEPT ![r] = B]
    BY <1>0, <1>1 DEF Claim, DagInv
  <2>4. /\ dag' = [dag EXCEPT ![r] = d] /\ pc' = [pc EXCEPT ![r] = "loop"]
        /\ snap' = snap /\ ckpts' = ckpts /\ drafts' = drafts /\ psnap' = psnap
    BY <1>1 DEF Claim, Goto
  <2> HIDE DEF d, B
  <2>5. /\ GoodDag(snap') /\ "loop" \notin {"unused", "launched"}
        /\ \A c \in ckpts' : GoodDag(c)
        /\ \A q \in Run : \A c \in drafts'[q] : GoodDag(c)
        /\ \A q \in Run : psnap'[q] # None => GoodDag(psnap'[q])
    BY <2>4 DEF DagInv
  <2>6. \A n \in B : Started(d, n)
    BY <2>3
  <2> QED
    BY <2>2, <2>3, <2>4, <2>5, <2>6, DagStep
<1>2. CASE SelectFails(r) \/ Finish(r) \/ Runaway(r) \/ MarkWorkflowFailed(r)
  <2>1. /\ dag' = dag /\ batch' = batch /\ snap' = snap /\ ckpts' = ckpts /\ drafts' = drafts
        /\ psnap' = psnap \/ psnap' = [psnap EXCEPT ![r] = dag[r]]
        /\ \E label \in {"ended", "commit"} : pc' = [pc EXCEPT ![r] = label]
    BY <1>2 DEF SelectFails, Finish, Runaway, MarkWorkflowFailed, Goto, dbVars, storeVars
  <2>2. PICK label \in {"ended", "commit"} : pc' = [pc EXCEPT ![r] = label]
    BY <2>1
  <2>3. /\ GoodDag(snap') /\ label \notin {"unused", "launched"}
        /\ \A c \in ckpts' : GoodDag(c)
        /\ \A q \in Run : \A c \in drafts'[q] : GoodDag(c)
    BY <2>1 DEF DagInv
  <2>4. GoodDag(dag[r])
    BY DEF DagInv
  <2>5. \A q \in Run : psnap'[q] # None => GoodDag(psnap'[q])
    BY <2>1, <2>4, DagPersist
  <2> QED
    BY <1>0, <2>1, <2>2, <2>3, <2>5, DagSame
<1>3. CASE EndRun(r) \/ Crash(r) \/ Timeout(r)
  <2>1. /\ dag' = dag /\ batch' = batch
        /\ CommitTxn(r) \/ RollbackTxn(r)
        /\ \E label \in {"ended", "failing"} : pc' = [pc EXCEPT ![r] = label]
    BY <1>3 DEF EndRun, Crash, Timeout, Goto
  <2>2. PICK label \in {"ended", "failing"} : pc' = [pc EXCEPT ![r] = label]
    BY <2>1
  <2>3. label \notin {"unused", "launched"}
    OBVIOUS
  <2>4. /\ GoodDag(snap')
        /\ \A c \in ckpts' : GoodDag(c)
        /\ \A q \in Run : \A c \in drafts'[q] : GoodDag(c)
        /\ \A q \in Run : psnap'[q] # None => GoodDag(psnap'[q])
    BY <2>1, DagTxn
  <2> QED
    BY <1>0, <2>1, <2>2, <2>3, <2>4, DagSame
<1>4. CASE Resume(r)
  <2>1. /\ dag' = dag /\ batch' = batch /\ snap' \in ckpts /\ ckpts' = ckpts /\ drafts' = drafts
        /\ psnap' = psnap /\ pc[r] = "unused" /\ \A q \in Run : q # r => pc'[q] = pc[q]
    BY <1>4 DEF Resume, Load, Goto, TypeOK
  <2> QED
    BY <2>1 DEF DagInv, GoodDag, Started
<1> QED
  BY <1>1, <1>2, <1>3, <1>4

(* Every step keeps the DAG invariant. *)
LEMMA DagNext == TypeOK /\ DagInv /\ [Next]_vars => DagInv'
<1> SUFFICES ASSUME TypeOK, DagInv, [Next]_vars PROVE DagInv'
  OBVIOUS
<1>1. ASSUME NEW r \in Run, Step(r) \/ Timeout(r) \/ Resume(r) PROVE DagInv'
  BY <1>1, DagRun, DagGate, DagResult, DagPrepare DEF Step
<1>2. CASE UNCHANGED <<runVars, snap, ckpts, drafts, psnap>>
  BY <1>2 DEF DagInv, runVars, GoodDag, Started
<1>3. ASSUME NEW n \in Node, Expire(n) \/ \E verdict \in {"approved", "denied"} : Decide(n, verdict)
      PROVE  UNCHANGED <<runVars, snap, ckpts, drafts, psnap>>
  BY <1>3 DEF Expire, Decide, dbVars, storeVars
<1>4. CASE CancelRead \/ CancelWrite \/ CleanupStale \/ UNCHANGED vars
  BY <1>2, <1>4 DEF CancelRead, CancelWrite, CleanupStale, vars, dbVars, storeVars
<1> QED
  BY <1>1, <1>2, <1>3, <1>4 DEF Next

(* A node runs or is completed only after everything it depends on, for    *)
(* every plan, through retries, alternatives, gates and resumes.           *)
THEOREM DependenciesComeFirst == Spec => []DependenciesFirst
<1>1. DagInv => DependenciesFirst
  BY DEF DagInv, DependenciesFirst, GoodDag, Started
<1> QED
  BY <1>1, TypeInit, TypeNext, DagInit, DagNext, PTL DEF Spec

(* No node of any DAG is left waiting behind a failed or skipped node.     *)
THEOREM NobodyIsStranded == Spec => []NobodyStranded
<1>1. DagInv => NobodyStranded
  BY DEF DagInv, NobodyStranded, GoodDag
<1> QED
  BY <1>1, TypeInit, TypeNext, DagInit, DagNext, PTL DEF Spec

-----------------------------------------------------------------------------
(* A larger ledger backs more, and a DAG that claims less is still backed. *)
LEMMA BackedMono ==
  ASSUME NEW d, NEW L, Backed(d, L), NEW M, L \subseteq M, NEW e, Of(e, "completed") \subseteq Of(d, "completed")
  PROVE  Backed(e, M)
  BY DEF Backed

(* A failure, or a node that goes back to pending, claims nothing new. *)
LEMMA ClaimsLess ==
  ASSUME NEW d \in [Node -> Status], NEW n \in Node
  PROVE  /\ Of(MarkFailed(d, {n}), "completed") \subseteq Of(d, "completed")
         /\ Of([d EXCEPT ![n] = "pending"], "completed") \subseteq Of(d, "completed")
  BY DEF Of, MarkFailed

(* What has to be shown of a step of run r. *)
LEMMA BackedStep ==
  ASSUME TypeOK, BackedInv, NEW r \in Run,
         ledger \subseteq ledger',
         \A q \in Run \ {r} : /\ pend'[q] = pend[q] /\ dag'[q] = dag[q]
                               /\ drafts'[q] = drafts[q] /\ pc'[q] = pc[q] /\ psnap'[q] = psnap[q],
         \A c \in ckpts' : Backed(c, ledger'),
         Backed(snap', ledger'),
         Active(r)' => /\ Backed(dag'[r], ledger' \cup pend'[r])
                       /\ \A c \in drafts'[r] : Backed(c, ledger' \cup pend'[r])
                       /\ psnap'[r] # None => Backed(psnap'[r], ledger' \cup pend'[r]),
         pc'[r] \in {"gate", "asked"} => pend'[r] = {},
         pc'[r] \in {"unused", "launched"} => drafts'[r] = {} /\ psnap'[r] = None
  PROVE  BackedInv'
<1>1. ASSUME NEW q \in Run, Active(q)'
      PROVE  /\ Backed(dag'[q], ledger' \cup pend'[q])
             /\ \A c \in drafts'[q] : Backed(c, ledger' \cup pend'[q])
             /\ psnap'[q] # None => Backed(psnap'[q], ledger' \cup pend'[q])
  <2>1. CASE q = r
    BY <1>1, <2>1
  <2>2. CASE q # r
    <3>1. Active(q) /\ Visible(q) \subseteq ledger' \cup pend'[q]
      BY <1>1, <2>2 DEF Active, Visible
    <3>2. /\ Backed(dag[q], Visible(q)) /\ \A c \in drafts[q] : Backed(c, Visible(q))
          /\ psnap[q] # None => Backed(psnap[q], Visible(q))
      BY <3>1 DEF BackedInv
    <3>3. dag'[q] = dag[q] /\ drafts'[q] = drafts[q] /\ psnap'[q] = psnap[q]
      BY <2>2
    <3> QED
      BY <3>1, <3>2, <3>3, BackedMono
  <2> QED
    BY <2>1, <2>2
<1>2. \A q \in Run : pc'[q] \in {"gate", "asked"} => pend'[q] = {}
  BY DEF BackedInv
<1>3. \A q \in Run : pc'[q] \in {"unused", "launched"} => drafts'[q] = {} /\ psnap'[q] = None
  BY DEF BackedInv
<1>4. (\A c \in ckpts : Backed(c, ledger))' /\ Backed(snap, ledger)'
  BY DEF Backed, Of
<1>5. \A q \in Run : Active(q)' => /\ Backed(dag[q], Visible(q))'
                                  /\ (\A c \in drafts[q] : Backed(c, Visible(q)))'
                                  /\ (psnap[q] # None => Backed(psnap[q], Visible(q)))'
  BY <1>1 DEF Backed, Of, Visible
<1> QED
  BY <1>2, <1>3, <1>4, <1>5 DEF BackedInv

(* Nothing is claimed at first. *)
LEMMA BackedInit == Init => BackedInv
<1> SUFFICES ASSUME Init PROVE BackedInv
  OBVIOUS
<1>1. \A L : Backed(Planned, L)
  BY DEF Backed, Of, Planned
<1> QED
  BY <1>1 DEF Init, BackedInv

(* A commit makes durable what the transaction saw; a rollback drops it. *)
LEMMA BackedTxn ==
  ASSUME TypeOK, BackedInv, NEW r \in Run, CommitTxn(r) \/ RollbackTxn(r), CommitTxn(r) => Active(r)
  PROVE  /\ ledger \subseteq ledger' /\ (CommitTxn(r) => ledger' = Visible(r))
         /\ pend'[r] = {} /\ drafts'[r] = {} /\ psnap'[r] = None
         /\ \A q \in Run \ {r} : pend'[q] = pend[q] /\ drafts'[q] = drafts[q] /\ psnap'[q] = psnap[q]
         /\ \A c \in ckpts' : Backed(c, ledger')
         /\ Backed(snap', ledger')
<1>1. /\ ledger \subseteq ledger' /\ pend'[r] = {} /\ drafts'[r] = {} /\ psnap'[r] = None
      /\ \A q \in Run \ {r} : pend'[q] = pend[q] /\ drafts'[q] = drafts[q] /\ psnap'[q] = psnap[q]
      /\ (CommitTxn(r) => ledger' = Visible(r))
  BY DEF CommitTxn, RollbackTxn, Visible, TypeOK
<1>2. Backed(snap, ledger')
  BY <1>1, BackedMono DEF BackedInv
<1>3. \A c \in ckpts : Backed(c, ledger')
  BY <1>1, BackedMono DEF BackedInv
<1>4. CASE CommitTxn(r)
  <2>1. \A c \in drafts[r] : Backed(c, ledger')
    BY <1>1, <1>4 DEF BackedInv
  <2>2. ckpts' = ckpts \cup drafts[r]
    BY <1>4 DEF CommitTxn
  <2>3. Backed(snap', ledger')
    <3>1. psnap[r] # None => Backed(psnap[r], ledger')
      BY <1>1, <1>4 DEF BackedInv
    <3> QED
      BY <1>2, <1>4, <3>1 DEF CommitTxn
  <2> QED
    BY <1>1, <1>3, <2>1, <2>2, <2>3
<1>5. CASE RollbackTxn(r)
  BY <1>1, <1>2, <1>3, <1>5 DEF RollbackTxn
<1> QED
  BY <1>4, <1>5

(* Processing a result: the node that is claimed completed is paid for in  *)
(* the same transaction, or was before.                                    *)
LEMMA BackedResult ==
  ASSUME TypeOK, BackedInv, NEW r \in Run, NEW n \in Node,
         \/ LlmFails(r, n) \/ PostFails(r, n) \/ Accepts(r, n)
         \/ Retry(r, n) \/ Replan(r, n) \/ Abort(r, n)
  PROVE  BackedInv'
<1> DEFINE V == ledger' \cup pend'[r]
<1>1. PICK d :
        /\ Processing(r, n, d)
        /\ \/ d = MarkFailed(dag[r], {n})
           \/ d = [dag[r] EXCEPT ![n] = "pending"]
           \/ /\ d \in {[dag[r] EXCEPT ![n] = "completed"],
                        [dag[r] EXCEPT ![n] = "completed", ![Alt(n)] = "pending"]}
              /\ pend' = [pend EXCEPT ![r] = @ \cup Paid(r, n)]
        /\ drafts' = drafts \/ (drafts' = [drafts EXCEPT ![r] = @ \cup {dag'[r]}])
        /\ pend' = pend \/ \E E : pend' = [pend EXCEPT ![r] = @ \cup E]
  <2>1. CASE LlmFails(r, n)
    BY <2>1 DEF LlmFails
  <2>2. CASE PostFails(r, n)
    BY <2>2 DEF PostFails
  <2>3. CASE Accepts(r, n)
    BY <2>3 DEF Accepts
  <2>4. CASE Retry(r, n)
    BY <2>4 DEF Retry
  <2>5. CASE Replan(r, n)
    BY <2>5 DEF Replan
  <2>6. CASE Abort(r, n)
    BY <2>6 DEF Abort, Saved
  <2> QED
    BY <2>1, <2>2, <2>3, <2>4, <2>5, <2>6
<1>2. /\ ledger' = ledger /\ ckpts' = ckpts /\ snap' = snap
      /\ pc'[r] \in {"loop", "results"} /\ \A q \in Run \ {r} : pc'[q] = pc[q]
      /\ Active(r) /\ dag[r] \in [Node -> Status] /\ dag \in [Run -> [Node -> Status]]
      /\ pend \in [Run -> SUBSET Event] /\ drafts \in [Run -> SUBSET [Node -> Status]]
      /\ dag' = [dag EXCEPT ![r] = d] /\ dag'[r] = d
      /\ psnap'[r] \in {psnap[r], d} /\ \A q \in Run \ {r} : psnap'[q] = psnap[q]
  BY <1>1 DEF Processing, Goto, TypeOK, Active, After
<1>3. \A q \in Run \ {r} : pend'[q] = pend[q] /\ dag'[q] = dag[q] /\ drafts'[q] = drafts[q]
  BY <1>1, <1>2
<1>4. pend[r] \subseteq pend'[r] /\ Visible(r) \subseteq V
  BY <1>1, <1>2 DEF Visible
<1>5. /\ Backed(dag[r], Visible(r)) /\ \A c \in drafts[r] : Backed(c, Visible(r))
      /\ psnap[r] # None => Backed(psnap[r], Visible(r))
  BY <1>2 DEF BackedInv
<1>6. /\ Backed(dag[r], V) /\ \A c \in drafts[r] : Backed(c, V)
      /\ psnap[r] # None => Backed(psnap[r], V)
  BY <1>4, <1>5, BackedMono
<1>7. Backed(d, V)
  <2>1. CASE d \in {MarkFailed(dag[r], {n}), [dag[r] EXCEPT ![n] = "pending"]}
    <3>1. Of(d, "completed") \subseteq Of(dag[r], "completed")
      BY <1>2, <2>1, ClaimsLess
    <3> QED
      BY <1>6, <3>1, BackedMono
  <2>2. CASE /\ pend' = [pend EXCEPT ![r] = @ \cup Paid(r, n)]
             /\ d \in {[dag[r] EXCEPT ![n] = "completed"],
                       [dag[r] EXCEPT ![n] = "completed", ![Alt(n)] = "pending"]}
    <3>1. pend'[r] = pend[r] \cup Paid(r, n)
      BY <1>2, <2>2
    <3>2. \A kind \in {"result", "charge"} : \E e \in V : e.node = n /\ e.kind = kind
      <4>1. Ev(n, "result", Retries(r, n)) \in V
        BY <3>1 DEF Paid
      <4>2. Ev(n, "result", Retries(r, n)).node = n /\ Ev(n, "result", Retries(r, n)).kind = "result"
        BY DEF Ev
      <4>3. \E e \in V : e.node = n /\ e.kind = "charge"
        <5>1. CASE Has(r, n, "charge")
          BY <5>1, <1>4 DEF Has
        <5>2. CASE ~Has(r, n, "charge")
          <6>1. Ev(n, "charge", Retries(r, n)) \in V
            BY <5>2, <3>1 DEF Paid, ChargeEvents
          <6>2. Ev(n, "charge", Retries(r, n)).node = n /\ Ev(n, "charge", Retries(r, n)).kind = "charge"
            BY DEF Ev
          <6> QED
            BY <6>1, <6>2
        <5> QED
          BY <5>1, <5>2
      <4> QED
        BY <4>1, <4>2, <4>3
    <3>3. Of(d, "completed") \subseteq Of(dag[r], "completed") \cup {n}
      BY <1>2, <2>2 DEF Of
    <3> HIDE DEF V
    <3> QED
      BY <1>6, <3>2, <3>3 DEF Backed
  <2> QED
    BY <1>1, <2>1, <2>2
<1>8. drafts'[r] \subseteq drafts[r] \cup {d}
  BY <1>1, <1>2
<1>9. (\A c \in ckpts' : Backed(c, ledger')) /\ Backed(snap', ledger')
  BY <1>2 DEF BackedInv
<1>10. /\ Backed(dag'[r], V) /\ \A c \in drafts'[r] : Backed(c, V)
       /\ psnap'[r] # None => Backed(psnap'[r], V)
  BY <1>2, <1>6, <1>7, <1>8
<1> QED
  BY <1>2, <1>3, <1>9, <1>10, BackedStep

(* The gate: the run's transaction is committed before it, so a checkpoint *)
(* saved there claims what is durable.                                     *)
LEMMA BackedGate ==
  ASSUME TypeOK, BackedInv, NEW r \in Run,
         Policy(r) \/ GateCheck(r) \/ \E n \in Node : GateHonour(r, n) \/ GateAsk(r, n)
  PROVE  BackedInv'
<1>0. /\ Active(r) /\ Backed(dag[r], Visible(r)) /\ \A c \in drafts[r] : Backed(c, Visible(r))
      /\ psnap[r] # None => Backed(psnap[r], Visible(r))
      /\ dag[r] \in [Node -> Status] /\ dag \in [Run -> [Node -> Status]]
      /\ psnap \in [Run -> [Node -> Status] \cup {None}]
  BY DEF Policy, GateCheck, GateHonour, GateAsk, Saved, Active, BackedInv, TypeOK
<1>1. CASE Policy(r)
  <2>1. dag' = dag
    BY <1>1 DEF Policy
  <2>2. /\ pc' = [pc EXCEPT ![r] = After(gate'[r], batch'[r])]
        /\ pc \in [Run -> {"unused", "launched", "loop", "policy", "gate", "asked",
                            "results", "commit", "failing", "ended"}]
    BY <1>1 DEF Policy, Goto, TypeOK
  <2>3. CASE gate'[r] # {}
    <3>1. CommitTxn(r)
      BY <1>1, <2>3 DEF Policy
    <3>2. pc'[r] = "gate" /\ \A q \in Run \ {r} : pc'[q] = pc[q]
      BY <2>2, <2>3 DEF After
    <3>3. /\ ledger \subseteq ledger' /\ ledger' = Visible(r)
          /\ pend'[r] = {} /\ drafts'[r] = {} /\ psnap'[r] = None
          /\ \A q \in Run \ {r} : pend'[q] = pend[q] /\ drafts'[q] = drafts[q] /\ psnap'[q] = psnap[q]
          /\ \A c \in ckpts' : Backed(c, ledger')
          /\ Backed(snap', ledger')
      BY <1>0, <3>1, BackedTxn
    <3>4. Backed(dag'[r], ledger' \cup pend'[r])
      BY <1>0, <2>1, <3>3, BackedMono
    <3> QED
      BY <2>1, <3>2, <3>3, <3>4, BackedStep
  <2>4. CASE gate'[r] = {}
    <3>1. /\ ledger' = ledger /\ pend' = pend /\ drafts' = drafts /\ ckpts' = ckpts /\ snap' = snap
          /\ psnap' = psnap \/ psnap' = [psnap EXCEPT ![r] = dag[r]]
      BY <1>1, <2>4 DEF Policy, PersistDag, dbVars, storeVars
    <3>2. pc'[r] \in {"results", "loop"} /\ \A q \in Run \ {r} : pc'[q] = pc[q]
      BY <2>2, <2>4 DEF After
    <3>3. (\A c \in ckpts' : Backed(c, ledger')) /\ Backed(snap', ledger')
      BY <3>1 DEF BackedInv
    <3>4. psnap'[r] \in {psnap[r], dag[r]} /\ \A q \in Run \ {r} : psnap'[q] = psnap[q]
      BY <1>0, <3>1
    <3>5. /\ Backed(dag'[r], ledger' \cup pend'[r]) /\ \A c \in drafts'[r] : Backed(c, ledger' \cup pend'[r])
          /\ psnap'[r] # None => Backed(psnap'[r], ledger' \cup pend'[r])
      BY <1>0, <2>1, <3>1, <3>4 DEF Visible
    <3> QED
      BY <2>1, <3>1, <3>2, <3>3, <3>4, <3>5, BackedStep
  <2> QED
    BY <2>3, <2>4
<1>2. ASSUME NEW n, NEW d, NEW B, AfterGate(r, n, d, B),
             pc[r] \in {"gate", "asked"}, Of(d, "completed") \subseteq Of(dag[r], "completed"),
             UNCHANGED <<snap, ckpts, drafts, ledger, pend>>
      PROVE  BackedInv'
  <2>1. /\ dag' = [dag EXCEPT ![r] = d]
        /\ psnap' = psnap \/ psnap' = [psnap EXCEPT ![r] = d]
        /\ pend[r] = {}
    BY <1>2 DEF AfterGate, PersistDag, BackedInv
  <2>2. pc'[r] \in {"gate", "results", "loop"} /\ \A q \in Run \ {r} : pc'[q] = pc[q]
    BY <1>2 DEF AfterGate, Goto, After, TypeOK
  <2>3. /\ dag'[r] = d /\ psnap'[r] \in {psnap[r], d}
        /\ \A q \in Run \ {r} : psnap'[q] = psnap[q] /\ dag'[q] = dag[q]
    BY <1>0, <2>1
  <2>4. (\A c \in ckpts' : Backed(c, ledger')) /\ Backed(snap', ledger')
    BY <1>2 DEF BackedInv
  <2>5. Backed(d, Visible(r)) /\ Visible(r) = ledger' \cup pend'[r]
    BY <1>0, <1>2, BackedMono DEF Visible
  <2>6. /\ Backed(dag'[r], ledger' \cup pend'[r]) /\ \A c \in drafts'[r] : Backed(c, ledger' \cup pend'[r])
        /\ psnap'[r] # None => Backed(psnap'[r], ledger' \cup pend'[r])
    BY <1>0, <1>2, <2>3, <2>5
  <2> QED
    BY <1>2, <2>1, <2>2, <2>3, <2>4, <2>6, BackedStep
<1>3. CASE GateCheck(r)
  <2>1. UNCHANGED <<snap, ckpts, drafts, ledger, pend>> /\ pc[r] = "asked" /\ pend[r] = {}
    BY <1>3 DEF GateCheck, BackedInv
  <2>2. CASE decision[asked[r]] = "pending"
    <3>1. /\ dag' = dag /\ psnap' = psnap /\ pc'[r] = "ended"
          /\ \A q \in Run \ {r} : pc'[q] = pc[q]
      BY <1>3, <2>2 DEF GateCheck, Goto, TypeOK
    <3>2. (\A c \in ckpts' : Backed(c, ledger')) /\ Backed(snap', ledger') /\ ~Active(r)'
      BY <2>1, <3>1 DEF BackedInv, Active
    <3> QED
      BY <2>1, <3>1, <3>2, BackedStep
  <2>3. CASE decision[asked[r]] # "pending"
    <3>1. AfterGate(r, asked[r], dag[r], batch[r])
      BY <1>3, <2>3 DEF GateCheck
    <3> QED
      BY <1>2, <2>1, <3>1
  <2> QED
    BY <2>2, <2>3
<1>4. ASSUME NEW n \in Node, GateHonour(r, n) PROVE BackedInv'
  <2>1. UNCHANGED <<snap, ckpts, drafts, ledger, pend>> /\ pc[r] = "gate"
    BY <1>4 DEF GateHonour, storeVars
  <2>2. AfterGate(r, n, dag[r], batch[r]) \/ AfterGate(r, n, MarkFailed(dag[r], {n}), batch[r] \ {n})
    BY <1>4 DEF GateHonour
  <2>3. Of(MarkFailed(dag[r], {n}), "completed") \subseteq Of(dag[r], "completed")
    BY <1>0, ClaimsLess
  <2> QED
    BY <1>2, <2>1, <2>2, <2>3
<1>5. ASSUME NEW n \in Node, GateAsk(r, n) PROVE BackedInv'
  <2>1. /\ snap' = snap /\ ledger' = ledger /\ pend' = pend /\ drafts' = drafts /\ psnap' = psnap
        /\ pend[r] = {}
    BY <1>5 DEF GateAsk, Saved, BackedInv
  <2>2. pc'[r] = "asked" /\ \A q \in Run \ {r} : pc'[q] = pc[q]
    BY <1>5 DEF GateAsk, Saved, Goto, TypeOK
  <2>3. dag'[r] = [dag[r] EXCEPT ![n] = "pending"] /\ \A q \in Run \ {r} : dag'[q] = dag[q]
    BY <1>0, <1>5 DEF GateAsk, Saved
  <2>4. Of(dag'[r], "completed") \subseteq Of(dag[r], "completed")
    BY <1>0, <2>3, ClaimsLess
  <2>5. Backed(dag'[r], Visible(r)) /\ Visible(r) = ledger
    BY <1>0, <2>1, <2>4, BackedMono DEF Visible
  <2>6. ckpts' \subseteq ckpts \cup {dag'[r]}
    BY <1>5 DEF GateAsk, Saved
  <2>7. (\A c \in ckpts' : Backed(c, ledger')) /\ Backed(snap', ledger')
    BY <2>1, <2>5, <2>6 DEF BackedInv
  <2>8. /\ Backed(dag'[r], ledger' \cup pend'[r]) /\ \A c \in drafts'[r] : Backed(c, ledger' \cup pend'[r])
        /\ psnap'[r] # None => Backed(psnap'[r], ledger' \cup pend'[r])
    BY <1>0, <2>1, <2>5 DEF Visible
  <2> QED
    BY <2>1, <2>2, <2>3, <2>7, <2>8, BackedStep
<1> QED
  BY <1>1, <1>3, <1>4, <1>5

(* Phase 1 completes nothing. *)
LEMMA BackedPrepare ==
  ASSUME TypeOK, BackedInv, NEW r \in Run, Prepare(r)
  PROVE  BackedInv'
<1>1. /\ ledger' = ledger /\ ckpts' = ckpts /\ snap' = snap /\ drafts' = drafts /\ psnap' = psnap
      /\ pc'[r] = "policy" /\ \A q \in Run \ {r} : pc'[q] = pc[q]
      /\ Active(r) /\ dag[r] \in [Node -> Status] /\ dag \in [Run -> [Node -> Status]]
      /\ pend \in [Run -> SUBSET Event]
  BY DEF Prepare, Goto, TypeOK, Active
<1>2. PICK F, S, E :
        /\ dag' = [dag EXCEPT ![r] = [n \in Node |-> IF n \in S THEN "running" ELSE MarkFailed(dag[r], F)[n]]]
        /\ pend' = [pend EXCEPT ![r] = @ \cup E]
  <2> DEFINE ready == Ready(dag[r])
             fresh == {n \in ready \cap staffed[r] : ~Has(r, n, "reserve")}
  <2>1. PICK broke \in (IF "budget" \in Faults THEN SUBSET fresh ELSE {{}}) :
          LET started == (ready \cap staffed[r]) \ broke
              d == MarkFailed(dag[r], ready \ started)
          IN  /\ dag' = [dag EXCEPT ![r] =
                           [n \in Node |-> IF n \in started THEN "running" ELSE d[n]]]
              /\ pend' = [pend EXCEPT ![r] =
                            @ \cup {Ev(n, "reserve", 0) : n \in started \cap fresh}]
    BY DEF Prepare
  <2> DEFINE started == (ready \cap staffed[r]) \ broke
  <2> WITNESS ready \ started, started, {Ev(n, "reserve", 0) : n \in started \cap fresh}
  <2> QED
    BY <2>1
<1>3. /\ Of(dag'[r], "completed") \subseteq Of(dag[r], "completed")
      /\ Visible(r) \subseteq ledger' \cup pend'[r]
      /\ \A q \in Run \ {r} : pend'[q] = pend[q] /\ dag'[q] = dag[q]
  BY <1>1, <1>2 DEF Of, MarkFailed, Visible
<1>4. /\ Backed(dag[r], Visible(r)) /\ \A c \in drafts[r] : Backed(c, Visible(r))
      /\ psnap[r] # None => Backed(psnap[r], Visible(r))
  BY <1>1 DEF BackedInv
<1>5. /\ Backed(dag'[r], ledger' \cup pend'[r]) /\ \A c \in drafts'[r] : Backed(c, ledger' \cup pend'[r])
      /\ psnap'[r] # None => Backed(psnap'[r], ledger' \cup pend'[r])
  BY <1>1, <1>3, <1>4, BackedMono
<1>6. (\A c \in ckpts' : Backed(c, ledger')) /\ Backed(snap', ledger')
  BY <1>1 DEF BackedInv
<1> QED
  BY <1>1, <1>3, <1>5, <1>6, BackedStep

(* The start and the end of a run. *)
LEMMA BackedRun ==
  ASSUME TypeOK, BackedInv, NEW r \in Run,
         \/ Claim(r) \/ SelectFails(r) \/ Finish(r) \/ Runaway(r) \/ EndRun(r)
         \/ Crash(r) \/ Timeout(r) \/ MarkWorkflowFailed(r) \/ Resume(r)
  PROVE  BackedInv'
<1>0. dag \in [Run -> [Node -> Status]] /\ dag[r] \in [Node -> Status]
  BY DEF TypeOK
<1>1. CASE Claim(r)
  <2>1. /\ ledger' = ledger /\ ckpts' = ckpts /\ snap' = snap /\ drafts' = drafts /\ pend' = pend
        /\ pc'[r] = "loop" /\ \A q \in Run \ {r} : pc'[q] = pc[q]
        /\ drafts[r] = {} /\ psnap' = psnap /\ psnap[r] = None
    BY <1>1 DEF Claim, Goto, TypeOK, BackedInv
  <2>2. dag'[r] \in {Planned, snap} /\ \A q \in Run \ {r} : dag'[q] = dag[q]
    BY <1>0, <1>1 DEF Claim
  <2>3. Backed(Planned, ledger) /\ Backed(snap, ledger)
    BY DEF Backed, Of, Planned, BackedInv
  <2>4. Backed(dag'[r], ledger' \cup pend'[r])
    <3>1. Backed(dag'[r], ledger)
      BY <2>2, <2>3
    <3> QED
      BY <2>1, <3>1, BackedMono
  <2>5. (\A c \in ckpts' : Backed(c, ledger')) /\ Backed(snap', ledger')
    BY <2>1 DEF BackedInv
  <2> QED
    BY <2>1, <2>2, <2>4, <2>5, BackedStep
<1>2. CASE SelectFails(r) \/ Finish(r) \/ Runaway(r) \/ MarkWorkflowFailed(r)
  <2>1. /\ dag' = dag /\ snap' = snap /\ ckpts' = ckpts /\ drafts' = drafts
        /\ ledger' = ledger /\ pend' = pend
        /\ pc'[r] \in {"ended", "commit"} /\ \A q \in Run \ {r} : pc'[q] = pc[q]
        /\ pc'[r] = "commit" => Active(r)
        /\ psnap'[r] \in {psnap[r], dag[r]} /\ \A q \in Run \ {r} : psnap'[q] = psnap[q]
    BY <1>2 DEF SelectFails, Finish, Runaway, MarkWorkflowFailed, Goto, dbVars, storeVars, TypeOK, Active
  <2>2. Active(r)' => /\ Backed(dag'[r], ledger' \cup pend'[r])
                      /\ \A c \in drafts'[r] : Backed(c, ledger' \cup pend'[r])
                      /\ psnap'[r] # None => Backed(psnap'[r], ledger' \cup pend'[r])
    <3>1. Active(r)' => Active(r)
      BY <2>1 DEF Active
    <3> QED
      BY <2>1, <3>1 DEF BackedInv, Visible
  <2>3. (\A c \in ckpts' : Backed(c, ledger')) /\ Backed(snap', ledger')
    BY <2>1 DEF BackedInv
  <2> QED
    BY <2>1, <2>2, <2>3, BackedStep
<1>3. CASE EndRun(r) \/ Crash(r) \/ Timeout(r)
  <2>1. /\ dag' = dag
        /\ CommitTxn(r) \/ RollbackTxn(r)
        /\ pc'[r] \in {"ended", "failing"} /\ \A q \in Run \ {r} : pc'[q] = pc[q]
        /\ Active(r)
    BY <1>3 DEF EndRun, Crash, Timeout, Goto, TypeOK, Active
  <2>2. /\ ledger \subseteq ledger' /\ (CommitTxn(r) => ledger' = Visible(r))
        /\ pend'[r] = {} /\ drafts'[r] = {} /\ psnap'[r] = None
        /\ \A q \in Run \ {r} : pend'[q] = pend[q] /\ drafts'[q] = drafts[q] /\ psnap'[q] = psnap[q]
        /\ \A c \in ckpts' : Backed(c, ledger')
        /\ Backed(snap', ledger')
    BY <2>1, BackedTxn
  <2>4. ~Active(r)'
    BY <2>1 DEF Active
  <2> QED
    BY <2>1, <2>2, <2>4, BackedStep
<1>4. CASE Resume(r)
  <2>1. /\ dag' = dag /\ snap' \in ckpts /\ ckpts' = ckpts /\ drafts' = drafts
        /\ ledger' = ledger /\ pend' = pend
        /\ pc'[r] = "launched" /\ \A q \in Run \ {r} : pc'[q] = pc[q]
        /\ drafts[r] = {} /\ psnap' = psnap /\ psnap[r] = None
    BY <1>4 DEF Resume, Load, Goto, TypeOK, BackedInv
  <2>2. (\A c \in ckpts' : Backed(c, ledger')) /\ Backed(snap', ledger') /\ ~Active(r)'
    BY <2>1 DEF BackedInv, Active
  <2> QED
    BY <2>1, <2>2, BackedStep
<1> QED
  BY <1>1, <1>2, <1>3, <1>4

(* Every step keeps what is claimed backed. *)
LEMMA BackedNext == TypeOK /\ BackedInv /\ [Next]_vars => BackedInv'
<1> SUFFICES ASSUME TypeOK, BackedInv, [Next]_vars PROVE BackedInv'
  OBVIOUS
<1>1. ASSUME NEW r \in Run, Step(r) \/ Timeout(r) \/ Resume(r) PROVE BackedInv'
  BY <1>1, BackedRun, BackedGate, BackedResult, BackedPrepare DEF Step
<1>2. CASE UNCHANGED <<runVars, snap, psnap, ckpts, drafts, ledger, pend>>
  BY <1>2 DEF BackedInv, runVars, Backed, Of, Visible, Active
<1>3. ASSUME NEW n \in Node, Expire(n) \/ \E verdict \in {"approved", "denied"} : Decide(n, verdict)
      PROVE  UNCHANGED <<runVars, snap, psnap, ckpts, drafts, ledger, pend>>
  BY <1>3 DEF Expire, Decide, dbVars, storeVars
<1>4. CASE CancelRead \/ CancelWrite \/ CleanupStale \/ UNCHANGED vars
  BY <1>2, <1>4 DEF CancelRead, CancelWrite, CleanupStale, vars, dbVars, storeVars
<1> QED
  BY <1>1, <1>2, <1>3, <1>4 DEF Next

(* A durable checkpoint claims a task completed only if its result and its *)
(* charge are durable, whatever crashes, times out or is resumed.          *)
THEOREM CheckpointsAreBacked == Spec => []CheckpointsBacked
<1>1. BackedInv => CheckpointsBacked
  BY DEF BackedInv, CheckpointsBacked, Backed
<1> QED
  BY <1>1, TypeInit, TypeNext, BackedInit, BackedNext, PTL DEF Spec

-----------------------------------------------------------------------------
(* A set of numbers has a least one. *)
LEMMA LeastNat ==
  ASSUME NEW T \in SUBSET Nat, T # {}
  PROVE  \E x \in T : \A y \in T : x <= y
<1>1. PICK x \in T : \A y \in T : ~ (<<y, x>> \in OpToRel(<, Nat))
  BY WFMin, NatLessThanWellFounded
<1>2. \A y \in T : ~ (y < x)
  BY <1>1 DEF OpToRel
<1> QED
  BY <1>2

(* The number of retries that a run sees is the number of the last one. *)
LEMMA RetriesCount ==
  ASSUME NEW V \in SUBSET Event, Stacked(V), NEW n \in Node,
         NEW j, j = Cardinality({e \in V : e.node = n /\ e.kind = "retry"})
  PROVE  /\ j \in Nat
         /\ Ev(n, "retry", j + 1) \notin V
         /\ \A k \in 1..j : Ev(n, "retry", k) \in V
<1> DEFINE K == {k \in Nat : Ev(n, "retry", k + 1) \notin V}
           R == {e \in V : e.node = n /\ e.kind = "retry"}
<1>0. MaxRetries \in Nat
  BY BoundsAssumption
<1>1. \A k : Ev(n, "retry", k).node = n /\ Ev(n, "retry", k).kind = "retry" /\ Ev(n, "retry", k).nth = k
  BY DEF Ev
<1>2. MaxRetries \in K
  BY <1>0, <1>1 DEF Stacked
<1>3. PICK m \in K : \A y \in K : m <= y
  BY <1>2, LeastNat
<1>4. m \in Nat /\ Ev(n, "retry", m + 1) \notin V
  BY <1>3
<1>5. \A k \in 1..m : Ev(n, "retry", k) \in V
  <2> SUFFICES ASSUME NEW k \in 1..m PROVE Ev(n, "retry", k) \in V
    OBVIOUS
  <2>1. k - 1 \in Nat /\ k - 1 < m /\ (k - 1) + 1 = k
    BY <1>4
  <2>2. k - 1 \notin K
    BY <1>3, <2>1
  <2> QED
    BY <2>1, <2>2
<1>6. \A e \in R : e.nth \in 1..m /\ e = Ev(n, "retry", e.nth)
  <2> SUFFICES ASSUME NEW e \in R PROVE e.nth \in 1..m /\ e = Ev(n, "retry", e.nth)
    OBVIOUS
  <2>1. e.nth \in 1..MaxRetries /\ \A k \in 1..e.nth : Ev(n, "retry", k) \in V
    BY DEF Stacked
  <2>2. ~(m + 1 \in 1..e.nth)
    BY <1>4, <2>1
  <2>3. e.nth <= m
    BY <1>0, <1>4, <2>1, <2>2
  <2>4. e = Ev(n, "retry", e.nth)
    BY DEF Event, Ev
  <2> QED
    BY <1>0, <1>4, <2>1, <2>3, <2>4
<1>7. j = m
  <2> DEFINE f == [k \in 1..m |-> Ev(n, "retry", k)]
  <2>1. \A k \in 1..m : f[k] \in R
    BY <1>1, <1>5
  <2>2. \A k, l \in 1..m : f[k] = f[l] => k = l
    BY <1>1
  <2>3. \A e \in R : \E k \in 1..m : f[k] = e
    BY <1>6
  <2>4. f \in [1..m -> R]
    BY <2>1
  <2> HIDE DEF f, R
  <2>5. f \in Bijection(1..m, R)
    BY <2>2, <2>3, <2>4 DEF Bijection, Injection, Surjection, IsInjective
  <2>6. Cardinality(R) = m
    BY <1>4, <2>5, FS_CountingElements DEF ExistsBijection
  <2> QED
    BY <2>6 DEF R
<1> QED
  BY <1>4, <1>5, <1>7

(* Views that are numbered without gaps stay so when they are joined, or   *)
(* gain events that are no retries.                                        *)
LEMMA StackedJoin ==
  ASSUME NEW L, NEW M, Stacked(L), Stacked(M) \/ \A e \in M : e.kind # "retry"
  PROVE  Stacked(L \cup M)
  BY DEF Stacked

(* So they do with the next retry. *)
LEMMA StackedRetry ==
  ASSUME NEW V \in SUBSET Event, Stacked(V), NEW n \in Node,
         NEW j, j = Cardinality({e \in V : e.node = n /\ e.kind = "retry"}), j < MaxRetries
  PROVE  Stacked(V \cup {Ev(n, "retry", j + 1)})
<1>1. /\ j \in Nat /\ MaxRetries \in Nat
      /\ \A k \in 1..j : Ev(n, "retry", k) \in V
  BY RetriesCount, BoundsAssumption
<1>2. j + 1 \in 1..MaxRetries /\ \A k \in 1..(j + 1) : k \in 1..j \/ k = j + 1
  <2>1. \A a, b \in Nat : a < b => a + 1 \in 1..b /\ \A k \in 1..(a + 1) : k \in 1..a \/ k = a + 1
    OBVIOUS
  <2> QED
    BY <1>1, <2>1, Zenon
<1>3. Ev(n, "retry", j + 1).node = n /\ Ev(n, "retry", j + 1).nth = j + 1
  BY DEF Ev
<1> QED
  BY <1>1, <1>2, <1>3 DEF Stacked

(* The tokens are finitely many: MaxRetries + 2 per staffed node. *)
LEMMA TokensFinite ==
  ASSUME NEW S \in SUBSET Node, NEW d, NEW B, NEW V
  PROVE  /\ IsFiniteSet(S) /\ Cardinality(S) \in Nat
         /\ IsFiniteSet(S \X (0..(MaxRetries + 1)))
         /\ Cardinality(S \X (0..(MaxRetries + 1))) = Cardinality(S) * (MaxRetries + 2)
         /\ Tokens(d, B, S, V) \in SUBSET (S \X (0..(MaxRetries + 1)))
         /\ IsFiniteSet(Tokens(d, B, S, V)) /\ Cardinality(Tokens(d, B, S, V)) \in Nat
<1>0. MaxRetries \in Nat
  BY BoundsAssumption
<1>1. IsFiniteSet(S) /\ Cardinality(S) \in Nat
  BY NodeFinite, FS_Subset, FS_CardinalityType
<1>2. IsFiniteSet(0..(MaxRetries + 1)) /\ Cardinality(0..(MaxRetries + 1)) = MaxRetries + 2
  BY <1>0, FS_Interval
<1>3. IsFiniteSet(S \X (0..(MaxRetries + 1)))
      /\ Cardinality(S \X (0..(MaxRetries + 1))) = Cardinality(S) * (MaxRetries + 2)
  BY <1>1, <1>2, FS_Product
<1>4. Tokens(d, B, S, V) \in SUBSET (S \X (0..(MaxRetries + 1)))
  BY DEF Tokens
<1> QED
  BY <1>1, <1>3, <1>4, FS_Subset, FS_CardinalityType

(* A run that keeps its tokens has no fewer of them. *)
LEMMA TokensGrow ==
  ASSUME NEW S \in SUBSET Node, NEW d, NEW B, NEW V, NEW e, NEW C, NEW W,
         \A n \in S : \A k \in 0..(MaxRetries + 1) : Spent(d, B, S, V, n, k) => Spent(e, C, S, W, n, k)
  PROVE  /\ Tokens(d, B, S, V) \subseteq Tokens(e, C, S, W)
         /\ Cardinality(Tokens(d, B, S, V)) <= Cardinality(Tokens(e, C, S, W))
<1>1. Tokens(d, B, S, V) \subseteq Tokens(e, C, S, W)
  BY DEF Tokens
<1> QED
  BY <1>1, TokensFinite, FS_Subset

(* With the limits of the code, no run needs more iterations than it has. *)
LEMMA CapBound ==
  ASSUME MaxRetries + 2 <= PerNode, NEW c \in Nat
  PROVE  LET cap == IF PerNode * c > Floor THEN PerNode * c ELSE Floor
         IN  c * (MaxRetries + 2) \in Nat /\ cap \in Nat /\ c * (MaxRetries + 2) <= cap
<1>1. PerNode \in Nat /\ MaxRetries \in Nat /\ Floor \in Nat
  BY BoundsAssumption
<1>2. PICK x \in Nat : PerNode = (MaxRetries + 2) + x
  <2>1. PerNode - (MaxRetries + 2) \in Nat
    BY <1>1
  <2> QED
    BY <1>1, <2>1
<1>3. x * c \in Nat /\ PerNode * c \in Nat /\ c * (MaxRetries + 2) \in Nat
  BY <1>1
<1>4. PerNode * c = c * (MaxRetries + 2) + x * c
  BY <1>1, <1>2
<1> QED
  BY <1>1, <1>3, <1>4

(* What has to be shown of a step of run r. *)
LEMMA LoopStep ==
  ASSUME TypeOK, TypeOK', LoopInv, MaxRetries + 2 <= PerNode, NEW r \in Run,
         NEW label, label \notin {"unused", "launched"}, pc' = [pc EXCEPT ![r] = label],
         ledger \subseteq ledger',
         \A q \in Run \ {r} : /\ pend'[q] = pend[q] /\ dag'[q] = dag[q] /\ batch'[q] = batch[q]
                               /\ staffed'[q] = staffed[q] /\ iter'[q] = iter[q],
         Stacked(ledger'), \A q \in Run : Stacked(ledger' \cup pend'[q]),
         label \in ActivePc =>
           /\ StaffOK(label, dag'[r], batch'[r], staffed'[r])
           /\ iter'[r] <= Cardinality(Tokens(dag'[r], batch'[r], staffed'[r], ledger' \cup pend'[r])),
         label \notin ActivePc => iter'[r] = iter[r] /\ staffed'[r] = staffed[r]
  PROVE  LoopInv'
<1>0. \A q \in Run : pc'[q] = IF q = r THEN label ELSE pc[q]
  BY DEF TypeOK
<1>1. ASSUME NEW q \in Run, pc'[q] \in ActivePc
      PROVE  /\ StaffOK(pc'[q], dag'[q], batch'[q], staffed'[q])
             /\ iter'[q] <= Cardinality(Tokens(dag'[q], batch'[q], staffed'[q], ledger' \cup pend'[q]))
  <2>1. CASE q = r
    BY <1>0, <1>1, <2>1
  <2>2. CASE q # r
    <3>1. /\ pc'[q] = pc[q] /\ pend'[q] = pend[q] /\ dag'[q] = dag[q] /\ batch'[q] = batch[q]
          /\ staffed'[q] = staffed[q] /\ iter'[q] = iter[q]
      BY <1>0, <2>2
    <3>2. Active(q)
      BY <1>1, <3>1 DEF Active, ActivePc
    <3>3. /\ StaffOK(pc[q], dag[q], batch[q], staffed[q])
          /\ iter[q] <= Cardinality(Tokens(dag[q], batch[q], staffed[q], Visible(q)))
      BY <3>2 DEF LoopInv
    <3>4. Visible(q) \subseteq ledger' \cup pend'[q] /\ staffed[q] \in SUBSET Node /\ iter[q] \in Nat
      BY <3>1 DEF Visible, TypeOK
    <3>5. \A n \in staffed[q] : \A k \in 0..(MaxRetries + 1) :
            Spent(dag[q], batch[q], staffed[q], Visible(q), n, k)
              => Spent(dag[q], batch[q], staffed[q], ledger' \cup pend'[q], n, k)
      BY <3>4 DEF Spent
    <3>6. Cardinality(Tokens(dag[q], batch[q], staffed[q], Visible(q)))
            <= Cardinality(Tokens(dag[q], batch[q], staffed[q], ledger' \cup pend'[q]))
      BY <3>4, <3>5, TokensGrow
    <3>7. /\ Cardinality(Tokens(dag[q], batch[q], staffed[q], Visible(q))) \in Nat
          /\ Cardinality(Tokens(dag[q], batch[q], staffed[q], ledger' \cup pend'[q])) \in Nat
      BY <3>4, TokensFinite
    <3>8. iter[q] <= Cardinality(Tokens(dag[q], batch[q], staffed[q], ledger' \cup pend'[q]))
      BY <3>3, <3>4, <3>6, <3>7
    <3> QED
      BY <3>1, <3>3, <3>8
  <2> QED
    BY <2>1, <2>2
<1>2. ASSUME NEW q \in Run
      PROVE  iter'[q] <= Cap(q)'
  <2>1. CASE pc'[q] \in ActivePc
    <3> DEFINE T == Tokens(dag'[q], batch'[q], staffed'[q], ledger' \cup pend'[q])
               P == staffed'[q] \X (0..(MaxRetries + 1))
    <3>1. staffed'[q] \in SUBSET Node /\ iter'[q] \in Nat
      BY DEF TypeOK
    <3>2. T \in SUBSET P /\ IsFiniteSet(P) /\ Cardinality(T) \in Nat
          /\ Cardinality(P) = Cardinality(staffed'[q]) * (MaxRetries + 2)
      BY <3>1, TokensFinite
    <3>3. Cardinality(T) <= Cardinality(P)
      <4> HIDE DEF T, P
      <4> QED
        BY <3>2, FS_Subset
    <3>0. Cardinality(staffed'[q]) \in Nat
      BY <3>1, TokensFinite
    <3>4. /\ Cap(q)' \in Nat /\ Cardinality(staffed'[q]) * (MaxRetries + 2) <= Cap(q)'
          /\ Cardinality(staffed'[q]) * (MaxRetries + 2) \in Nat
      BY <3>0, CapBound DEF Cap
    <3>5. iter'[q] <= Cardinality(T)
      BY <1>1, <2>1
    <3> HIDE DEF T, P
    <3> QED
      BY <3>1, <3>2, <3>3, <3>4, <3>5
  <2>2. CASE pc'[q] \notin ActivePc
    <3>1. iter'[q] = iter[q] /\ staffed'[q] = staffed[q]
      BY <1>0, <2>2
    <3>2. Cap(q)' = Cap(q)
      BY <3>1 DEF Cap
    <3> QED
      BY <3>1, <3>2 DEF LoopInv
  <2> QED
    BY <2>1, <2>2
<1>3. \A q \in Run : pc'[q] \in {"unused", "launched"} => iter'[q] = 0 /\ batch'[q] = {}
  BY <1>0 DEF LoopInv
<1>4. \A q \in Run : Active(q)' => pc'[q] \in ActivePc
  BY DEF Active, ActivePc
<1>5. \A q \in Run : Active(q)' =>
          /\ StaffOK(pc[q], dag[q], batch[q], staffed[q])'
          /\ (iter[q] <= Cardinality(Tokens(dag[q], batch[q], staffed[q], Visible(q))))'
  BY <1>1, <1>4, Zenon DEF StaffOK, Tokens, Spent, Visible
<1> QED
  BY <1>2, <1>3, <1>5 DEF LoopInv, Visible, Stacked

(* mark_failed only moves nodes away from pending, and makes none of them  *)
(* appear or disappear.                                                    *)
LEMMA FailedAway ==
  ASSUME NEW d \in [Node -> Status], NEW F \in SUBSET Node
  PROVE  \A n \in Node :
           /\ n \in F => MarkFailed(d, F)[n] = "failed"
           /\ n \notin F => MarkFailed(d, F)[n] \in {d[n], "skipped"}
           /\ n \notin F /\ d[n] # "pending" => MarkFailed(d, F)[n] = d[n]
<1>1. \A n \in Cascade(d, F) : n \in Node /\ d[n] = "pending"
  BY CascadeFacts DEF Of
<1> QED
  BY <1>1 DEF MarkFailed

(* What a step adds to the ledger that a run sees keeps it without gaps. *)
LEMMA StackedPend ==
  ASSUME TypeOK, LoopInv, NEW r \in Run, ledger' = ledger, NEW E, \A e \in E : e.kind # "retry",
         pend' = pend \/ pend' = [pend EXCEPT ![r] = @ \cup E]
  PROVE  /\ \A q \in Run : Stacked(ledger' \cup pend'[q])
         /\ \A q \in Run \ {r} : pend'[q] = pend[q]
         /\ Visible(r) \subseteq ledger' \cup pend'[r]
<1>1. \A q \in Run : pend'[q] = pend[q] \/ (q = r /\ pend'[q] = pend[q] \cup E)
  BY DEF TypeOK
<1>2. \A q \in Run : Stacked(Visible(q)) /\ Stacked(Visible(q) \cup E)
  BY StackedJoin DEF LoopInv
<1>3. \A q \in Run : ledger' \cup pend'[q] \in {Visible(q), Visible(q) \cup E}
  BY <1>1 DEF Visible
<1> QED
  BY <1>1, <1>2, <1>3 DEF Visible

(* A node of the batch is a staffed node that has used its first token. *)
LEMMA LoopBatch ==
  ASSUME TypeOK, LoopInv, NEW r \in Run, Active(r)
  PROVE  /\ dag[r] \in [Node -> Status] /\ staffed[r] \in SUBSET Node /\ batch[r] \subseteq staffed[r]
         /\ StaffOK(pc[r], dag[r], batch[r], staffed[r])
         /\ iter[r] \in Nat
         /\ iter[r] <= Cardinality(Tokens(dag[r], batch[r], staffed[r], Visible(r)))
  BY DEF TypeOK, LoopInv, StaffOK

(* A run in which the nodes of F fail and leave the batch keeps its        *)
(* tokens.                                                                 *)
LEMMA LoopFailed ==
  ASSUME NEW d \in [Node -> Status], NEW S \in SUBSET Node, NEW B, NEW V, NEW n \in B, NEW W, V \subseteq W,
         NEW from, StaffOK(from, d, B, S), NEW label, label # "policy", label = "loop" => B \ {n} = {}
  PROVE  /\ StaffOK(label, MarkFailed(d, {n}), B \ {n}, S)
         /\ Cardinality(Tokens(d, B, S, V)) <= Cardinality(Tokens(MarkFailed(d, {n}), B \ {n}, S, W))
<1> DEFINE e == MarkFailed(d, {n})
<1>0. n \in S /\ n \in Node
  BY DEF StaffOK
<1>1. /\ e[n] = "failed"
      /\ \A m \in Node \ {n} : e[m] \in {d[m], "skipped"} /\ (d[m] # "pending" => e[m] = d[m])
  BY <1>0, FailedAway
<1> HIDE DEF e
<1>2. StaffOK(label, e, B \ {n}, S)
  <2>1. \A m \in S : e[m] # "absent"
    BY <1>1 DEF StaffOK
  <2>2. ASSUME NEW m \in Node \ S, e[m] # "absent"
        PROVE  /\ e[m] \in {"pending", "failed", "skipped"}
               /\ \E k \in S : k[2] < MaxAlt /\ m = Alt(k) /\ e[k] = "completed" /\ k \notin B \ {n}
    <3>1. m # n /\ d[m] # "absent"
      BY <1>0, <1>1, <2>2
    <3>2. PICK k \in S : k[2] < MaxAlt /\ m = Alt(k) /\ d[k] = "completed" /\ k \notin B
      BY <3>1 DEF StaffOK
    <3>3. k # n /\ e[k] = "completed"
      BY <1>1, <3>2
    <3>4. e[m] \in {"pending", "failed", "skipped"}
      BY <1>1, <3>1 DEF StaffOK
    <3> QED
      BY <3>2, <3>3, <3>4
  <2> QED
    BY <2>1, <2>2 DEF StaffOK
<1>3. \A m \in S : \A k \in 0..(MaxRetries + 1) : Spent(d, B, S, V, m, k) => Spent(e, B \ {n}, S, W, m, k)
  <2> SUFFICES ASSUME NEW m \in S, NEW k \in 0..(MaxRetries + 1), Spent(d, B, S, V, m, k)
               PROVE  Spent(e, B \ {n}, S, W, m, k)
    OBVIOUS
  <2>1. CASE k = 0 /\ (d[m] # "pending" \/ m \in B)
    BY <1>1, <2>1 DEF Spent
  <2>2. CASE k \in 1..MaxRetries /\ Ev(m, "retry", k) \in V
    BY <2>2 DEF Spent
  <2>3. CASE k = MaxRetries + 1 /\ m[2] < MaxAlt /\ Alt(m) \notin S /\ d[Alt(m)] \notin {"absent", "pending"}
    <3>1. Alt(m) \in Node /\ Alt(m) # n
      BY <1>0, <2>3, DependsOnType
    <3> QED
      BY <1>1, <2>3, <3>1 DEF Spent
  <2> QED
    BY <2>1, <2>2, <2>3 DEF Spent
<1>4. Cardinality(Tokens(d, B, S, V)) <= Cardinality(Tokens(e, B \ {n}, S, W))
  BY <1>3, TokensGrow
<1> QED
  BY <1>2, <1>4 DEF e

(* So does a run that completes a node of its batch, *)
LEMMA LoopCompleted ==
  ASSUME NEW d \in [Node -> Status], NEW S \in SUBSET Node, NEW B, NEW V, NEW n \in B, NEW W, V \subseteq W,
         NEW from, StaffOK(from, d, B, S), NEW label, label # "policy", label = "loop" => B \ {n} = {},
         NEW e, \/ e = [d EXCEPT ![n] = "completed"]
                \/ e = [d EXCEPT ![n] = "completed", ![Alt(n)] = "pending"]
                     /\ n[2] < MaxAlt /\ d[Alt(n)] = "absent"
  PROVE  /\ StaffOK(label, e, B \ {n}, S)
         /\ Cardinality(Tokens(d, B, S, V)) <= Cardinality(Tokens(e, B \ {n}, S, W))
<1>0. n \in S /\ n \in Node
  BY DEF StaffOK
<1>1. /\ e[n] = "completed"
      /\ \A m \in Node \ {n} : \/ e[m] = d[m]
                               \/ m = Alt(n) /\ n[2] < MaxAlt /\ d[m] = "absent" /\ e[m] = "pending"
  <2>1. n[2] < MaxAlt => Alt(n) \in Node /\ Alt(n) # n
    BY <1>0, DependsOnType
  <2> QED
    BY <1>0, <2>1
<1>2. StaffOK(label, e, B \ {n}, S)
  <2>1. \A m \in S : e[m] # "absent"
    BY <1>1 DEF StaffOK
  <2>2. ASSUME NEW m \in Node \ S, e[m] # "absent"
        PROVE  /\ e[m] \in {"pending", "failed", "skipped"}
               /\ \E k \in S : k[2] < MaxAlt /\ m = Alt(k) /\ e[k] = "completed" /\ k \notin B \ {n}
    <3>1. m # n
      BY <1>0
    <3>2. CASE e[m] = d[m]
      <4>1. PICK k \in S : k[2] < MaxAlt /\ m = Alt(k) /\ d[k] = "completed" /\ k \notin B
        BY <2>2, <3>2 DEF StaffOK
      <4>2. e[k] = "completed"
        BY <1>1, <4>1
      <4> QED
        BY <2>2, <3>2, <4>1, <4>2 DEF StaffOK
    <3>3. CASE m = Alt(n) /\ n[2] < MaxAlt /\ d[m] = "absent" /\ e[m] = "pending"
      BY <1>0, <1>1, <3>3
    <3> QED
      BY <1>1, <3>1, <3>2, <3>3
  <2> QED
    BY <2>1, <2>2 DEF StaffOK
<1>3. \A m \in S : \A k \in 0..(MaxRetries + 1) : Spent(d, B, S, V, m, k) => Spent(e, B \ {n}, S, W, m, k)
  <2> SUFFICES ASSUME NEW m \in S, NEW k \in 0..(MaxRetries + 1), Spent(d, B, S, V, m, k)
               PROVE  Spent(e, B \ {n}, S, W, m, k)
    OBVIOUS
  <2>1. CASE k = 0 /\ (d[m] # "pending" \/ m \in B)
    <3>1. d[m] # "absent"
      BY DEF StaffOK
    <3> QED
      BY <1>1, <2>1, <3>1 DEF Spent
  <2>2. CASE k \in 1..MaxRetries /\ Ev(m, "retry", k) \in V
    BY <2>2 DEF Spent
  <2>3. CASE k = MaxRetries + 1 /\ m[2] < MaxAlt /\ Alt(m) \notin S /\ d[Alt(m)] \notin {"absent", "pending"}
    <3>1. Alt(m) \in Node /\ Alt(m) # n
      BY <1>0, <2>3, DependsOnType
    <3> QED
      BY <1>1, <2>3, <3>1 DEF Spent
  <2> QED
    BY <2>1, <2>2, <2>3 DEF Spent
<1> QED
  BY <1>2, <1>3, TokensGrow

(* and one that retries it: the token of its start is traded for that of   *)
(* the retry.                                                              *)
LEMMA LoopRetried ==
  ASSUME NEW d \in [Node -> Status], NEW S \in SUBSET Node, NEW B, NEW V \in SUBSET Event, NEW n \in B, NEW W, V \subseteq W,
         NEW from, StaffOK(from, d, B, S), NEW label, label # "policy", label = "loop" => B \ {n} = {},
         Stacked(V), NEW j, j = Cardinality({e \in V : e.node = n /\ e.kind = "retry"}), j < MaxRetries,
         Ev(n, "retry", j + 1) \in W
  PROVE  /\ StaffOK(label, [d EXCEPT ![n] = "pending"], B \ {n}, S)
         /\ Cardinality(Tokens(d, B, S, V)) <= Cardinality(Tokens([d EXCEPT ![n] = "pending"], B \ {n}, S, W))
<1> DEFINE e == [d EXCEPT ![n] = "pending"]
           T == Tokens(d, B, S, V)
           U == Tokens(e, B \ {n}, S, W)
           X == (T \ {<<n, 0>>}) \cup {<<n, j + 1>>}
<1>0. n \in S /\ n \in Node
  BY DEF StaffOK
<1>1. e[n] = "pending" /\ \A m \in Node \ {n} : e[m] = d[m]
  BY <1>0
<1>2. j \in Nat /\ Ev(n, "retry", j + 1) \notin V /\ MaxRetries \in Nat
  BY <1>0, RetriesCount, BoundsAssumption
<1>3. j + 1 \in 1..MaxRetries /\ j + 1 # 0 /\ j + 1 # MaxRetries + 1 /\ j + 1 \in 0..(MaxRetries + 1)
  <2>1. \A a, b \in Nat : a < b => a + 1 \in 1..b /\ a + 1 # 0 /\ a + 1 # b + 1 /\ a + 1 \in 0..(b + 1)
    OBVIOUS
  <2> QED
    BY <1>2, <2>1, Zenon
<1> HIDE DEF e
<1>4. StaffOK(label, e, B \ {n}, S)
  <2>1. \A m \in S : e[m] # "absent"
    BY <1>1 DEF StaffOK
  <2>2. ASSUME NEW m \in Node \ S, e[m] # "absent"
        PROVE  /\ e[m] \in {"pending", "failed", "skipped"}
               /\ \E k \in S : k[2] < MaxAlt /\ m = Alt(k) /\ e[k] = "completed" /\ k \notin B \ {n}
    <3>1. m # n /\ e[m] = d[m]
      BY <1>0, <1>1
    <3>2. PICK k \in S : k[2] < MaxAlt /\ m = Alt(k) /\ d[k] = "completed" /\ k \notin B
      BY <2>2, <3>1 DEF StaffOK
    <3>3. k # n /\ e[k] = "completed"
      BY <1>1, <3>2
    <3> QED
      BY <2>2, <3>1, <3>2, <3>3 DEF StaffOK
  <2> QED
    BY <2>1, <2>2 DEF StaffOK
<1>5. <<n, j + 1>> \notin T
  BY <1>2, <1>3 DEF Tokens, Spent
<1>6. X \subseteq U
  <2>1. <<n, j + 1>> \in U
    BY <1>0, <1>3 DEF Tokens, Spent
  <2>2. ASSUME NEW m \in S, NEW k \in 0..(MaxRetries + 1), Spent(d, B, S, V, m, k), <<m, k>> # <<n, 0>>
        PROVE  Spent(e, B \ {n}, S, W, m, k)
    <3>1. CASE k = 0 /\ (d[m] # "pending" \/ m \in B)
      BY <1>1, <2>2, <3>1 DEF Spent
    <3>2. CASE k \in 1..MaxRetries /\ Ev(m, "retry", k) \in V
      BY <3>2 DEF Spent
    <3>3. CASE k = MaxRetries + 1 /\ m[2] < MaxAlt /\ Alt(m) \notin S /\ d[Alt(m)] \notin {"absent", "pending"}
      <4>1. Alt(m) \in Node /\ Alt(m) # n
        BY <1>0, <3>3, DependsOnType
      <4> QED
        BY <1>1, <3>3, <4>1 DEF Spent
    <3> QED
      BY <2>2, <3>1, <3>2, <3>3 DEF Spent
  <2>3. ASSUME NEW x \in T, x # <<n, 0>> PROVE x \in U
    <3>1. /\ x \in S \X (0..(MaxRetries + 1)) /\ Spent(d, B, S, V, x[1], x[2])
          /\ x[1] \in S /\ x[2] \in 0..(MaxRetries + 1) /\ x = <<x[1], x[2]>>
      BY DEF Tokens
    <3>2. Spent(e, B \ {n}, S, W, x[1], x[2])
      BY <2>2, <2>3, <3>1
    <3> QED
      BY <3>1, <3>2 DEF Tokens
  <2> QED
    BY <2>1, <2>3
<1>7. IsFiniteSet(T) /\ IsFiniteSet(U) /\ Cardinality(T) \in Nat /\ Cardinality(U) \in Nat
  BY TokensFinite
<1> HIDE DEF T, U
<1>8. Cardinality(T) <= Cardinality(X)
  <2> DEFINE Y == T \ {<<n, 0>>}
  <2>1. IsFiniteSet(Y) /\ Cardinality(Y) = IF <<n, 0>> \in T THEN Cardinality(T) - 1 ELSE Cardinality(T)
    BY <1>7, FS_RemoveElement
  <2>2. <<n, j + 1>> \notin Y
    BY <1>5
  <2> HIDE DEF Y
  <2>3. Cardinality(Y \cup {<<n, j + 1>>}) = Cardinality(Y) + 1
    BY <2>1, <2>2, FS_AddElement
  <2> QED
    BY <1>7, <2>1, <2>3 DEF Y
<1>9. Cardinality(X) <= Cardinality(U) /\ Cardinality(X) \in Nat
  BY <1>6, <1>7, FS_Subset, FS_CardinalityType
<1>10. Cardinality(T) <= Cardinality(U)
  BY <1>7, <1>8, <1>9
<1> QED
  BY <1>4, <1>10 DEF e, T, U

(* Processing a result keeps the loop's invariant. *)
LEMMA LoopResult ==
  ASSUME TypeOK, TypeOK', LoopInv, MaxRetries + 2 <= PerNode, NEW r \in Run, NEW n \in Node,
         \/ LlmFails(r, n) \/ PostFails(r, n) \/ Accepts(r, n)
         \/ Retry(r, n) \/ Replan(r, n) \/ Abort(r, n)
  PROVE  LoopInv'
<1> DEFINE B == batch[r] \ {n}
           W == ledger' \cup pend'[r]
<1>1. PICK d :
        /\ Processing(r, n, d)
        /\ \/ /\ \/ d = MarkFailed(dag[r], {n})
                 \/ d = [dag[r] EXCEPT ![n] = "completed"]
                 \/ /\ d = [dag[r] EXCEPT ![n] = "completed", ![Alt(n)] = "pending"]
                    /\ n[2] < MaxAlt /\ dag[r][Alt(n)] = "absent"
              /\ \/ pend' = pend
                 \/ \E E : pend' = [pend EXCEPT ![r] = @ \cup E] /\ \A e \in E : e.kind # "retry"
           \/ /\ d = [dag[r] EXCEPT ![n] = "pending"]
              /\ Retry(r, n)
  <2>0. /\ \A e \in {Ev(n, "release", 0)} : e.kind # "retry"
        /\ \A e \in ChargeEvents(r, n) : e.kind # "retry"
        /\ \A e \in Paid(r, n) : e.kind # "retry"
    BY DEF Ev, ChargeEvents, Paid
  <2>1. CASE LlmFails(r, n)
    BY <2>0, <2>1, Zenon DEF LlmFails
  <2>2. CASE PostFails(r, n)
    BY <2>0, <2>2, Zenon DEF PostFails
  <2>3. CASE Accepts(r, n)
    BY <2>0, <2>3, Zenon DEF Accepts
  <2>4. CASE Retry(r, n)
    BY <2>4, Zenon DEF Retry
  <2>5. CASE Replan(r, n)
    BY <2>0, <2>5, Zenon DEF Replan
  <2>6. CASE Abort(r, n)
    BY <2>0, <2>6, Zenon DEF Abort
  <2> QED
    BY <2>1, <2>2, <2>3, <2>4, <2>5, <2>6
<1>2. PICK label : /\ pc' = [pc EXCEPT ![r] = label]
                   /\ label \in {"loop", "results"} /\ (label = "loop" => B = {})
  <2>1. pc' = [pc EXCEPT ![r] = After({}, batch'[r])] /\ batch'[r] = B
    BY <1>1 DEF Processing, Goto, TypeOK
  <2> QED
    BY <2>1 DEF After
<1>3. /\ n \in batch[r] /\ Active(r) /\ pc[r] = "results"
      /\ dag'[r] = d /\ batch'[r] = B /\ staffed' = staffed /\ iter' = iter /\ ledger' = ledger
      /\ \A q \in Run \ {r} : dag'[q] = dag[q] /\ batch'[q] = batch[q]
  BY <1>1 DEF Processing, TypeOK, Active
<1>4. /\ dag[r] \in [Node -> Status] /\ staffed[r] \in SUBSET Node
      /\ StaffOK(pc[r], dag[r], batch[r], staffed[r])
      /\ iter[r] \in Nat
      /\ iter[r] <= Cardinality(Tokens(dag[r], batch[r], staffed[r], Visible(r)))
  BY <1>3, LoopBatch
<1>5. /\ \A q \in Run : Stacked(ledger' \cup pend'[q])
      /\ \A q \in Run \ {r} : pend'[q] = pend[q]
      /\ Visible(r) \subseteq W
      /\ StaffOK(label, d, B, staffed[r])
      /\ Cardinality(Tokens(dag[r], batch[r], staffed[r], Visible(r))) <= Cardinality(Tokens(d, B, staffed[r], W))
  <2>1. CASE /\ \/ pend' = pend
                \/ \E E : pend' = [pend EXCEPT ![r] = @ \cup E] /\ \A e \in E : e.kind # "retry"
             /\ \/ d = MarkFailed(dag[r], {n})
                \/ d = [dag[r] EXCEPT ![n] = "completed"]
                \/ /\ d = [dag[r] EXCEPT ![n] = "completed", ![Alt(n)] = "pending"]
                   /\ n[2] < MaxAlt /\ dag[r][Alt(n)] = "absent"
    <3>1. PICK E : /\ pend' = pend \/ pend' = [pend EXCEPT ![r] = @ \cup E]
                   /\ \A e \in E : e.kind # "retry"
      <4>1. CASE pend' = pend
        <5> DEFINE Z == {}
        <5>1. \A e \in Z : e.kind # "retry"
          OBVIOUS
        <5> HIDE DEF Z
        <5> QED
          BY <4>1, <5>1, Zenon
      <4> QED
        BY <2>1, <4>1
    <3>2. /\ \A q \in Run : Stacked(ledger' \cup pend'[q])
          /\ \A q \in Run \ {r} : pend'[q] = pend[q]
          /\ Visible(r) \subseteq W
      BY <1>3, <3>1, StackedPend
    <3>3. CASE d = MarkFailed(dag[r], {n})
      <4> HIDE DEF W
      <4>1. /\ StaffOK(label, MarkFailed(dag[r], {n}), batch[r] \ {n}, staffed[r])
            /\ Cardinality(Tokens(dag[r], batch[r], staffed[r], Visible(r)))
                 <= Cardinality(Tokens(MarkFailed(dag[r], {n}), batch[r] \ {n}, staffed[r], W))
        BY <1>2, <1>3, <1>4, <3>2, LoopFailed
      <4> QED
        BY <3>2, <3>3, <4>1
    <3>4. CASE \/ d = [dag[r] EXCEPT ![n] = "completed"]
               \/ /\ d = [dag[r] EXCEPT ![n] = "completed", ![Alt(n)] = "pending"]
                  /\ n[2] < MaxAlt /\ dag[r][Alt(n)] = "absent"
      BY <1>2, <1>3, <1>4, <3>2, <3>4, LoopCompleted
    <3> QED
      BY <2>1, <3>3, <3>4
  <2>2. CASE d = [dag[r] EXCEPT ![n] = "pending"] /\ Retry(r, n)
    <3> DEFINE j == Retries(r, n)
               x == Ev(n, "retry", j + 1)
    <3>1. /\ pend' = [pend EXCEPT ![r] = (@ \cup Paid(r, n)) \cup {x}]
          /\ j < MaxRetries
      BY <2>2 DEF Retry
    <3>2. /\ pend'[r] = (pend[r] \cup Paid(r, n)) \cup {x}
          /\ \A q \in Run \ {r} : pend'[q] = pend[q]
      BY <3>1 DEF TypeOK
    <3>3. Visible(r) \subseteq Event /\ Stacked(Visible(r))
      BY DEF Visible, TypeOK, LoopInv
    <3>4. j = Cardinality({e \in Visible(r) : e.node = n /\ e.kind = "retry"})
      BY DEF Retries
    <3> HIDE DEF j
    <3>5. Stacked(Visible(r) \cup {x})
      BY <3>1, <3>3, <3>4, StackedRetry
    <3>6. \A e \in Paid(r, n) : e.kind # "retry"
      BY DEF Ev, ChargeEvents, Paid
    <3>7. W = (Visible(r) \cup {x}) \cup Paid(r, n)
      BY <1>3, <3>2 DEF Visible
    <3>8. Stacked(W)
      BY <3>5, <3>6, <3>7, StackedJoin
    <3>9. \A q \in Run : Stacked(ledger' \cup pend'[q])
      BY <1>3, <3>2, <3>8 DEF LoopInv, Visible
    <3>10. x \in W /\ Visible(r) \subseteq W
      BY <3>7
    <3> HIDE DEF W
    <3>11. /\ StaffOK(label, d, B, staffed[r])
           /\ Cardinality(Tokens(dag[r], batch[r], staffed[r], Visible(r))) <= Cardinality(Tokens(d, B, staffed[r], W))
      <4>1. j < MaxRetries
        BY <3>1
      <4> DEFINE V == Visible(r)
      <4>2. V \in SUBSET Event /\ Stacked(V) /\ V \subseteq W /\ Ev(n, "retry", j + 1) \in W
            /\ j = Cardinality({e \in V : e.node = n /\ e.kind = "retry"})
        BY <3>3, <3>4, <3>10
      <4> HIDE DEF V
      <4>3. /\ StaffOK(label, [dag[r] EXCEPT ![n] = "pending"], batch[r] \ {n}, staffed[r])
            /\ Cardinality(Tokens(dag[r], batch[r], staffed[r], V))
                 <= Cardinality(Tokens([dag[r] EXCEPT ![n] = "pending"], batch[r] \ {n}, staffed[r], W))
        BY <1>2, <1>3, <1>4, <4>1, <4>2, LoopRetried
      <4> QED
        BY <2>2, <4>3 DEF V
    <3> QED
      BY <3>2, <3>9, <3>10, <3>11
  <2> QED
    BY <1>1, <2>1, <2>2
<1>6. iter[r] <= Cardinality(Tokens(d, B, staffed[r], W))
  <2>1. /\ Cardinality(Tokens(dag[r], batch[r], staffed[r], Visible(r))) \in Nat
        /\ Cardinality(Tokens(d, B, staffed[r], W)) \in Nat
    BY <1>4, TokensFinite
  <2> QED
    BY <1>4, <1>5, <2>1
<1>7. label \in ActivePc /\ label \notin {"unused", "launched"}
  BY <1>2 DEF ActivePc
<1>8. /\ \A q \in Run \ {r} : /\ pend'[q] = pend[q] /\ dag'[q] = dag[q] /\ batch'[q] = batch[q]
                               /\ staffed'[q] = staffed[q] /\ iter'[q] = iter[q]
      /\ Stacked(ledger')
  BY <1>3, <1>5 DEF LoopInv
<1>9. /\ StaffOK(label, dag'[r], batch'[r], staffed'[r])
      /\ iter'[r] <= Cardinality(Tokens(dag'[r], batch'[r], staffed'[r], ledger' \cup pend'[r]))
  BY <1>3, <1>5, <1>6
<1> QED
  BY <1>2, <1>3, <1>5, <1>7, <1>8, <1>9, LoopStep

(* Phase 1 uses up a token: a ready node is started, or fails. *)
LEMMA LoopPrepare ==
  ASSUME TypeOK, TypeOK', LoopInv, MaxRetries + 2 <= PerNode, NEW r \in Run, Prepare(r)
  PROVE  LoopInv'
<1> DEFINE S == staffed[r]
           V == Visible(r)
           W == ledger' \cup pend'[r]
           d == dag[r]
           ready == Ready(d)
<1>1. /\ pc[r] = "loop" /\ Active(r) /\ ready # {} /\ pc' = [pc EXCEPT ![r] = "policy"]
      /\ staffed' = staffed /\ iter'[r] = iter[r] + 1 /\ ledger' = ledger
      /\ \A q \in Run \ {r} : iter'[q] = iter[q]
  BY DEF Prepare, Active, Goto, TypeOK
<1>2. /\ d \in [Node -> Status] /\ S \in SUBSET Node
      /\ StaffOK("loop", d, batch[r], S) /\ batch[r] = {}
      /\ iter[r] \in Nat
      /\ iter[r] <= Cardinality(Tokens(d, {}, S, V))
  <2>1. /\ d \in [Node -> Status] /\ S \in SUBSET Node
        /\ StaffOK("loop", d, batch[r], S) /\ iter[r] \in Nat
        /\ iter[r] <= Cardinality(Tokens(d, batch[r], S, V))
    BY <1>1, LoopBatch
  <2>2. batch[r] = {}
    BY <2>1 DEF StaffOK
  <2> QED
    BY <2>1, <2>2
<1>3. PICK started, E :
        /\ started \subseteq ready \cap S
        /\ dag' = [dag EXCEPT ![r] =
             [n \in Node |-> IF n \in started THEN "running" ELSE MarkFailed(d, ready \ started)[n]]]
        /\ batch' = [batch EXCEPT ![r] = started]
        /\ pend' = [pend EXCEPT ![r] = @ \cup E] /\ \A e \in E : e.kind # "retry"
  <2>1. \A N : \A e \in {Ev(n, "reserve", 0) : n \in N} : e.kind # "retry"
    BY DEF Ev
  <2> DEFINE fresh == {n \in ready \cap S : ~Has(r, n, "reserve")}
  <2>2. PICK broke : LET st == (ready \cap S) \ broke
                         f == MarkFailed(d, ready \ st)
                     IN  /\ dag' = [dag EXCEPT ![r] = [n \in Node |-> IF n \in st THEN "running" ELSE f[n]]]
                         /\ batch' = [batch EXCEPT ![r] = st]
                         /\ pend' = [pend EXCEPT ![r] = @ \cup {Ev(n, "reserve", 0) : n \in st \cap fresh}]
    BY Zenon DEF Prepare
  <2> DEFINE st == (ready \cap S) \ broke
             X == {Ev(n, "reserve", 0) : n \in st \cap fresh}
  <2>3. /\ st \subseteq ready \cap S /\ \A e \in X : e.kind # "retry"
        /\ dag' = [dag EXCEPT ![r] = [n \in Node |-> IF n \in st THEN "running" ELSE MarkFailed(d, ready \ st)[n]]]
        /\ batch' = [batch EXCEPT ![r] = st]
        /\ pend' = [pend EXCEPT ![r] = @ \cup X]
    BY <2>1, <2>2
  <2> HIDE DEF st, X
  <2> QED
    BY <2>3
<1> DEFINE F == ready \ started
           e == [n \in Node |-> IF n \in started THEN "running" ELSE MarkFailed(d, F)[n]]
<1>4. /\ dag'[r] = e /\ batch'[r] = started
      /\ \A q \in Run \ {r} : dag'[q] = dag[q] /\ batch'[q] = batch[q]
  BY <1>3 DEF TypeOK
<1>5. \A n \in ready : n \in Node /\ d[n] = "pending"
  BY DEF Ready
<1>6. F \in SUBSET Node /\ started \subseteq S
  BY <1>3, <1>5
<1>7. /\ \A n \in started : e[n] = "running"
      /\ \A n \in F : n \notin started /\ e[n] = "failed"
      /\ \A n \in Node : n \notin started /\ n \notin F => e[n] \in {d[n], "skipped"} /\ (d[n] # "pending" => e[n] = d[n])
  BY <1>2, <1>3, <1>5, <1>6, FailedAway
<1>8. /\ \A q \in Run : Stacked(ledger' \cup pend'[q])
      /\ \A q \in Run \ {r} : pend'[q] = pend[q]
      /\ V \subseteq W
  BY <1>1, <1>3, StackedPend
<1> HIDE DEF S, V, W, d, ready, F, e
<1>9. \A n \in Node : d[n] # "pending" => e[n] = d[n]
  BY <1>3, <1>5, <1>7 DEF F
<1>10. \A n \in Node : e[n] # "absent" => d[n] # "absent"
  BY <1>9
<1>11. StaffOK("policy", e, started, S)
  <2>1. \A m \in S : e[m] # "absent"
    <3> SUFFICES ASSUME NEW m \in S PROVE e[m] # "absent"
      OBVIOUS
    <3>1. m \in Node /\ d[m] # "absent"
      BY <1>2 DEF StaffOK
    <3> QED
      BY <1>7, <3>1
  <2>2. ASSUME NEW m \in Node \ S, e[m] # "absent"
        PROVE  /\ e[m] \in {"pending", "failed", "skipped"}
               /\ \E k \in S : k[2] < MaxAlt /\ m = Alt(k) /\ e[k] = "completed" /\ k \notin started
    <3>1. d[m] # "absent" /\ m \notin started
      BY <1>6, <1>10, <2>2
    <3>2. PICK k \in S : k[2] < MaxAlt /\ m = Alt(k) /\ d[k] = "completed"
      BY <1>2, <3>1 DEF StaffOK
    <3>3. k \in Node /\ e[k] = "completed" /\ k \notin started
      BY <1>2, <1>7, <1>9, <3>2
    <3>4. e[m] \in {"pending", "failed", "skipped"}
      BY <1>2, <1>7, <3>1 DEF StaffOK
    <3> QED
      BY <3>2, <3>3, <3>4
  <2> QED
    BY <1>6, <1>7, <2>1, <2>2 DEF StaffOK
<1> DEFINE T == Tokens(d, {}, S, V)
           U == Tokens(e, started, S, W)
<1>12. T \subseteq U /\ Cardinality(T) <= Cardinality(U)
  <2>1. ASSUME NEW m \in S, NEW k \in 0..(MaxRetries + 1), Spent(d, {}, S, V, m, k)
        PROVE  Spent(e, started, S, W, m, k)
    <3>0. m \in Node
      BY <1>2
    <3>1. CASE k = 0 /\ d[m] # "pending"
      BY <1>9, <3>0, <3>1 DEF Spent
    <3>2. CASE k \in 1..MaxRetries /\ Ev(m, "retry", k) \in V
      BY <1>8, <3>2 DEF Spent
    <3>3. CASE k = MaxRetries + 1 /\ m[2] < MaxAlt /\ Alt(m) \notin S /\ d[Alt(m)] \notin {"absent", "pending"}
      <4>1. Alt(m) \in Node
        BY <3>0, <3>3, DependsOnType
      <4> QED
        BY <1>9, <3>3, <4>1 DEF Spent
    <3> QED
      BY <2>1, <3>1, <3>2, <3>3 DEF Spent
  <2> QED
    BY <1>2, <2>1, TokensGrow
<1>13. \E x : x \in U /\ x \notin T
  <2>0. MaxRetries \in Nat
    BY BoundsAssumption
  <2>1. PICK n \in ready : TRUE
    BY <1>1
  <2>2. n \in Node /\ d[n] = "pending" /\ e[n] # "pending" /\ (n \notin S => n \in F)
    BY <1>3, <1>5, <1>7, <2>1 DEF F
  <2>3. CASE n \in S
    <3>1. <<n, 0>> \in U
      BY <2>0, <2>2, <2>3 DEF Tokens, Spent
    <3>2. <<n, 0>> \notin T
      BY <2>0, <2>2 DEF Tokens, Spent
    <3> QED
      BY <3>1, <3>2
  <2>4. CASE n \notin S
    <3>1. PICK k \in S : k[2] < MaxAlt /\ n = Alt(k)
      BY <1>2, <2>2, <2>4 DEF StaffOK
    <3>2. e[n] = "failed"
      BY <1>7, <2>2, <2>4
    <3>3. <<k, MaxRetries + 1>> \in U
      BY <2>0, <2>4, <3>1, <3>2 DEF Tokens, Spent
    <3>4. <<k, MaxRetries + 1>> \notin T
      BY <2>0, <2>2, <3>1 DEF Tokens, Spent
    <3> QED
      BY <3>3, <3>4
  <2> QED
    BY <2>3, <2>4
<1>14. iter[r] + 1 <= Cardinality(U)
  <2>1. IsFiniteSet(T) /\ IsFiniteSet(U) /\ Cardinality(T) \in Nat /\ Cardinality(U) \in Nat
    BY <1>2, TokensFinite
  <2>2. iter[r] <= Cardinality(T)
    BY <1>2
  <2> HIDE DEF T, U
  <2>3. Cardinality(T) # Cardinality(U)
    <3>1. Cardinality(U) = Cardinality(T) => U = T
      BY <1>12, <2>1, FS_Subset
    <3> QED
      BY <1>13, <3>1
  <2> QED
    BY <1>2, <1>12, <2>1, <2>2, <2>3
<1>15. /\ StaffOK("policy", dag'[r], batch'[r], staffed'[r])
       /\ iter'[r] <= Cardinality(Tokens(dag'[r], batch'[r], staffed'[r], ledger' \cup pend'[r]))
  BY <1>1, <1>4, <1>11, <1>14 DEF S, W
<1>16. "policy" \in ActivePc /\ "policy" \notin {"unused", "launched"}
  BY DEF ActivePc
<1>17. \A q \in Run \ {r} : /\ pend'[q] = pend[q] /\ dag'[q] = dag[q] /\ batch'[q] = batch[q]
                             /\ staffed'[q] = staffed[q] /\ iter'[q] = iter[q]
  BY <1>1, <1>4, <1>8
<1>18. ledger \subseteq ledger' /\ Stacked(ledger')
  BY <1>1 DEF LoopInv
<1> QED
  BY <1>1, <1>8, <1>15, <1>16, <1>17, <1>18, LoopStep

(* A commit or rollback of run r keeps what the others see without gaps. *)
LEMMA StackedTxn ==
  ASSUME TypeOK, LoopInv, NEW r \in Run, CommitTxn(r) \/ RollbackTxn(r)
  PROVE  /\ Stacked(ledger')
         /\ \A q \in Run : Stacked(ledger' \cup pend'[q])
         /\ \A q \in Run \ {r} : pend'[q] = pend[q]
         /\ ledger \subseteq ledger'
         /\ CommitTxn(r) => ledger' \cup pend'[r] = Visible(r)
<1>1. /\ pend'[r] = {} /\ \A q \in Run \ {r} : pend'[q] = pend[q]
      /\ ledger \subseteq ledger'
      /\ CommitTxn(r) => ledger' = Visible(r)
      /\ RollbackTxn(r) => ledger' = ledger
  BY DEF CommitTxn, RollbackTxn, Visible, TypeOK
<1>2. \A q \in Run : Stacked(Visible(q)) /\ Stacked(Visible(r) \cup Visible(q))
  BY StackedJoin DEF LoopInv
<1>5. Stacked(ledger)
  BY DEF LoopInv
<1>3. CASE CommitTxn(r)
  <2>1. \A q \in Run \ {r} : ledger' \cup pend'[q] = Visible(r) \cup Visible(q)
    BY <1>1, <1>3 DEF Visible
  <2>2. ledger' \cup pend'[r] = Visible(r)
    BY <1>1, <1>3
  <2> QED
    BY <1>1, <1>2, <1>3, <2>1, <2>2
<1>4. CASE RollbackTxn(r)
  <2>1. \A q \in Run \ {r} : ledger' \cup pend'[q] = Visible(q)
    BY <1>1, <1>4 DEF Visible
  <2>2. ledger' \cup pend'[r] = ledger
    BY <1>1, <1>4
  <2>3. CommitTxn(r) => ledger' \cup pend'[r] = Visible(r)
    BY <1>1
  <2> QED
    BY <1>1, <1>2, <1>4, <1>5, <2>1, <2>2, <2>3
<1> QED
  BY <1>3, <1>4

(* A step of an active run that keeps its agents and its iterations: what  *)
(* has to be shown of its DAG and batch.                                   *)
LEMMA LoopMove ==
  ASSUME TypeOK, TypeOK', LoopInv, MaxRetries + 2 <= PerNode, NEW r \in Run, Active(r),
         NEW label \in ActivePc, pc' = [pc EXCEPT ![r] = label],
         ledger \subseteq ledger', staffed' = staffed, iter' = iter,
         \A q \in Run \ {r} : pend'[q] = pend[q] /\ dag'[q] = dag[q] /\ batch'[q] = batch[q],
         Stacked(ledger'), \A q \in Run : Stacked(ledger' \cup pend'[q]), Visible(r) \subseteq ledger' \cup pend'[r],
         StaffOK(label, dag'[r], batch'[r], staffed[r]),
         \A V, W : V \subseteq W => Cardinality(Tokens(dag[r], batch[r], staffed[r], V))
                                     <= Cardinality(Tokens(dag'[r], batch'[r], staffed[r], W))
  PROVE  LoopInv'
<1> DEFINE W == ledger' \cup pend'[r]
<1>1. /\ iter[r] \in Nat /\ staffed[r] \in SUBSET Node
      /\ iter[r] <= Cardinality(Tokens(dag[r], batch[r], staffed[r], Visible(r)))
  BY LoopBatch
<1>2. Cardinality(Tokens(dag[r], batch[r], staffed[r], Visible(r))) <= Cardinality(Tokens(dag'[r], batch'[r], staffed[r], W))
  OBVIOUS
<1>3. /\ Cardinality(Tokens(dag[r], batch[r], staffed[r], Visible(r))) \in Nat
      /\ Cardinality(Tokens(dag'[r], batch'[r], staffed[r], W)) \in Nat
  BY <1>1, TokensFinite
<1>4. iter'[r] <= Cardinality(Tokens(dag'[r], batch'[r], staffed'[r], W))
  BY <1>1, <1>2, <1>3
<1>5. label \notin {"unused", "launched"}
  BY DEF ActivePc
<1> QED
  BY <1>4, <1>5, LoopStep

(* The same tokens, and more events: no fewer tokens. *)
LEMMA TokensSame ==
  ASSUME NEW S \in SUBSET Node, NEW d, NEW B, NEW C, \A n \in B \ C : d[n] # "pending"
  PROVE  \A V, W : V \subseteq W => Cardinality(Tokens(d, B, S, V)) <= Cardinality(Tokens(d, C, S, W))
<1> SUFFICES ASSUME NEW V, NEW W, V \subseteq W
             PROVE  Cardinality(Tokens(d, B, S, V)) <= Cardinality(Tokens(d, C, S, W))
  OBVIOUS
<1>1. \A n \in S : \A k \in 0..(MaxRetries + 1) : Spent(d, B, S, V, n, k) => Spent(d, C, S, W, n, k)
  BY DEF Spent
<1> QED
  BY <1>1, TokensGrow

(* The policies and the gate keep the loop's invariant: a node that leaves *)
(* the batch there was started, or fails.                                  *)
LEMMA LoopPolicy ==
  ASSUME TypeOK, TypeOK', LoopInv, MaxRetries + 2 <= PerNode, NEW r \in Run, Policy(r)
  PROVE  LoopInv'
<1>1. /\ pc[r] = "policy" /\ Active(r) /\ batch'[r] \subseteq batch[r]
      /\ dag' = dag /\ staffed' = staffed /\ iter' = iter
      /\ \A q \in Run \ {r} : batch'[q] = batch[q]
      /\ pc' = [pc EXCEPT ![r] = After(gate'[r], batch'[r])]
      /\ CommitTxn(r) \/ (ledger' = ledger /\ pend' = pend)
  BY DEF Policy, Active, TypeOK, Goto, dbVars, storeVars
<1>2. PICK label \in {"gate", "results", "loop"} :
        pc' = [pc EXCEPT ![r] = label] /\ (label = "loop" => batch'[r] = {})
  BY <1>1 DEF After
<1>3. /\ Stacked(ledger') /\ \A q \in Run : Stacked(ledger' \cup pend'[q])
      /\ \A q \in Run \ {r} : pend'[q] = pend[q]
      /\ ledger \subseteq ledger' /\ ledger' \cup pend'[r] = Visible(r)
  <2>1. CASE CommitTxn(r)
    BY <2>1, StackedTxn
  <2>2. CASE ledger' = ledger /\ pend' = pend
    BY <2>2 DEF LoopInv, Visible
  <2> QED
    BY <1>1, <2>1, <2>2
<1>4. StaffOK("policy", dag[r], batch[r], staffed[r]) /\ staffed[r] \in SUBSET Node
  BY <1>1, LoopBatch
<1>5. StaffOK(label, dag'[r], batch'[r], staffed[r])
  BY <1>1, <1>2, <1>4 DEF StaffOK
<1>6. \A n \in batch[r] \ batch'[r] : dag[r][n] # "pending"
  BY <1>4 DEF StaffOK
<1>7. \A V, W : V \subseteq W => Cardinality(Tokens(dag[r], batch[r], staffed[r], V))
                                   <= Cardinality(Tokens(dag[r], batch'[r], staffed[r], W))
  BY <1>4, <1>6, TokensSame
<1>8. label \in ActivePc
  BY DEF ActivePc
<1> QED
  BY <1>1, <1>2, <1>3, <1>5, <1>7, <1>8, LoopMove

LEMMA LoopGate ==
  ASSUME TypeOK, TypeOK', LoopInv, MaxRetries + 2 <= PerNode, NEW r \in Run,
         GateCheck(r) \/ \E n \in Node : GateHonour(r, n) \/ GateAsk(r, n)
  PROVE  LoopInv'
<1>1. /\ Active(r) /\ pc[r] \in {"gate", "asked"}
      /\ staffed' = staffed /\ iter' = iter /\ ledger' = ledger /\ pend' = pend
  BY DEF GateCheck, GateHonour, GateAsk, Active, storeVars
<1>2. /\ StaffOK(pc[r], dag[r], batch[r], staffed[r]) /\ staffed[r] \in SUBSET Node
      /\ dag[r] \in [Node -> Status] /\ dag \in [Run -> [Node -> Status]] /\ batch \in [Run -> SUBSET Node]
  BY <1>1, LoopBatch DEF TypeOK
<1>3. /\ Stacked(ledger') /\ \A q \in Run : Stacked(ledger' \cup pend'[q])
      /\ ledger \subseteq ledger' /\ Visible(r) \subseteq ledger' \cup pend'[r]
  BY <1>1 DEF LoopInv, Visible
<1>4. ASSUME NEW n, AfterGate(r, n, dag[r], batch[r])
      PROVE  LoopInv'
  <2>1. /\ dag'[r] = dag[r] /\ batch'[r] = batch[r]
        /\ \A q \in Run \ {r} : dag'[q] = dag[q] /\ batch'[q] = batch[q]
    BY <1>2, <1>4 DEF AfterGate
  <2>2. PICK label \in {"gate", "results", "loop"} :
          pc' = [pc EXCEPT ![r] = label] /\ (label = "loop" => batch[r] = {})
    BY <1>4 DEF AfterGate, Goto, After
  <2>3. StaffOK(label, dag'[r], batch'[r], staffed[r]) /\ label \in ActivePc
    BY <1>2, <2>1, <2>2 DEF StaffOK, ActivePc
  <2>4. \A V, W : V \subseteq W => Cardinality(Tokens(dag[r], batch[r], staffed[r], V))
                                     <= Cardinality(Tokens(dag[r], batch[r], staffed[r], W))
    BY <1>2, TokensSame
  <2> QED
    BY <1>1, <1>3, <2>1, <2>2, <2>3, <2>4, LoopMove
<1>5. ASSUME NEW n \in batch[r], AfterGate(r, n, MarkFailed(dag[r], {n}), batch[r] \ {n})
      PROVE  LoopInv'
  <2>1. /\ dag'[r] = MarkFailed(dag[r], {n}) /\ batch'[r] = batch[r] \ {n}
        /\ \A q \in Run \ {r} : dag'[q] = dag[q] /\ batch'[q] = batch[q]
    BY <1>2, <1>5 DEF AfterGate
  <2>2. PICK label \in {"gate", "results", "loop"} :
          pc' = [pc EXCEPT ![r] = label] /\ (label = "loop" => batch[r] \ {n} = {})
    BY <1>5 DEF AfterGate, Goto, After
  <2>3. \A V, W : V \subseteq W =>
          /\ StaffOK(label, MarkFailed(dag[r], {n}), batch[r] \ {n}, staffed[r])
          /\ Cardinality(Tokens(dag[r], batch[r], staffed[r], V))
               <= Cardinality(Tokens(MarkFailed(dag[r], {n}), batch[r] \ {n}, staffed[r], W))
    BY <1>2, <1>5, <2>2, LoopFailed
  <2>4. StaffOK(label, dag'[r], batch'[r], staffed[r]) /\ label \in ActivePc
    BY <2>1, <2>3 DEF ActivePc
  <2> QED
    BY <1>1, <1>3, <2>1, <2>2, <2>3, <2>4, LoopMove
<1>6. ASSUME NEW n \in Node, GateHonour(r, n)
      PROVE  LoopInv'
  <2>1. n \in batch[r]
    BY <1>6 DEF GateHonour
  <2> QED
    BY <1>4, <1>5, <1>6, <2>1 DEF GateHonour
<1>7. ASSUME NEW n \in Node, GateAsk(r, n)
      PROVE  LoopInv'
  <2>1. /\ dag'[r] = [dag[r] EXCEPT ![n] = "pending"] /\ batch' = batch /\ n \in batch[r]
        /\ \A q \in Run \ {r} : dag'[q] = dag[q]
        /\ pc' = [pc EXCEPT ![r] = "asked"]
    BY <1>2, <1>7 DEF GateAsk, Goto
  <2>2. dag'[r][n] = "pending" /\ \A m \in Node \ {n} : dag'[r][m] = dag[r][m]
    BY <1>2, <2>1
  <2>3. StaffOK("asked", dag'[r], batch'[r], staffed[r])
    <3>1. \A m \in staffed[r] : dag'[r][m] # "absent"
      BY <1>2, <2>2 DEF StaffOK
    <3>2. ASSUME NEW m \in Node \ staffed[r], dag'[r][m] # "absent"
          PROVE  /\ dag'[r][m] \in {"pending", "failed", "skipped"}
                 /\ \E k \in staffed[r] : k[2] < MaxAlt /\ m = Alt(k) /\ dag'[r][k] = "completed" /\ k \notin batch[r]
      <4>1. n \in staffed[r] /\ m # n
        BY <1>2, <2>1 DEF StaffOK
      <4>2. dag'[r][m] = dag[r][m]
        BY <2>2, <4>1
      <4>3. PICK k \in staffed[r] : k[2] < MaxAlt /\ m = Alt(k) /\ dag[r][k] = "completed" /\ k \notin batch[r]
        BY <1>2, <3>2, <4>2 DEF StaffOK
      <4>4. k # n /\ dag'[r][k] = "completed"
        BY <1>2, <2>1, <2>2, <4>3
      <4> QED
        BY <1>2, <3>2, <4>2, <4>3, <4>4 DEF StaffOK
    <3> QED
      BY <1>2, <2>1, <3>1, <3>2 DEF StaffOK
  <2>4. ASSUME NEW V, NEW W, V \subseteq W
        PROVE  Cardinality(Tokens(dag[r], batch[r], staffed[r], V))
                 <= Cardinality(Tokens(dag'[r], batch'[r], staffed[r], W))
    <3>1. ASSUME NEW m \in staffed[r], NEW k \in 0..(MaxRetries + 1), Spent(dag[r], batch[r], staffed[r], V, m, k)
          PROVE  Spent(dag'[r], batch'[r], staffed[r], W, m, k)
      <4>1. CASE k = 0 /\ (dag[r][m] # "pending" \/ m \in batch[r])
        BY <1>2, <2>1, <2>2, <4>1 DEF Spent
      <4>2. CASE k \in 1..MaxRetries /\ Ev(m, "retry", k) \in V
        BY <2>4, <4>2 DEF Spent
      <4>3. CASE /\ k = MaxRetries + 1 /\ m[2] < MaxAlt /\ Alt(m) \notin staffed[r]
                 /\ dag[r][Alt(m)] \notin {"absent", "pending"}
        <5>1. Alt(m) \in Node /\ Alt(m) # n
          BY <1>2, <2>1, <4>3, DependsOnType DEF StaffOK
        <5> QED
          BY <2>2, <4>3, <5>1 DEF Spent
      <4> QED
        BY <3>1, <4>1, <4>2, <4>3 DEF Spent
    <3> QED
      BY <1>2, <3>1, TokensGrow
  <2>5. "asked" \in ActivePc
    BY DEF ActivePc
  <2> QED
    BY <1>1, <1>3, <2>1, <2>3, <2>4, <2>5, LoopMove
<1>8. CASE GateCheck(r)
  <2>1. CASE decision[asked[r]] = "pending"
    <3>1. /\ dag' = dag /\ batch' = batch /\ pc' = [pc EXCEPT ![r] = "ended"]
      BY <1>8, <2>1 DEF GateCheck, Goto
    <3>2. "ended" \notin ActivePc
      BY DEF ActivePc
    <3> QED
      BY <1>1, <1>3, <3>1, <3>2, LoopStep
  <2>2. CASE decision[asked[r]] # "pending"
    <3>1. AfterGate(r, asked[r], dag[r], batch[r])
      BY <1>8, <2>2 DEF GateCheck
    <3> QED
      BY <1>4, <3>1
  <2> QED
    BY <2>1, <2>2
<1> QED
  BY <1>6, <1>7, <1>8

(* A run starts with no iteration, a staffed DAG and an empty batch. *)
LEMMA LoopClaim ==
  ASSUME TypeOK, TypeOK', LoopInv, MaxRetries + 2 <= PerNode, NEW r \in Run, Claim(r)
  PROVE  LoopInv'
<1>1. /\ pc[r] = "launched" /\ pc' = [pc EXCEPT ![r] = "loop"]
      /\ iter' = iter /\ iter[r] = 0 /\ batch' = batch /\ batch[r] = {}
      /\ ledger' = ledger /\ pend' = pend
      /\ staffed'[r] = Present(dag'[r])
      /\ \A q \in Run \ {r} : dag'[q] = dag[q] /\ staffed'[q] = staffed[q]
  BY DEF Claim, LoopInv, TypeOK, Goto
<1>2. dag'[r] \in [Node -> Status] /\ staffed'[r] \in SUBSET Node
  BY DEF TypeOK
<1>3. StaffOK("loop", dag'[r], batch'[r], staffed'[r])
  BY <1>1, <1>2 DEF StaffOK, Present
<1>4. iter'[r] <= Cardinality(Tokens(dag'[r], batch'[r], staffed'[r], ledger' \cup pend'[r]))
  <2> DEFINE c == Cardinality(Tokens(dag'[r], batch'[r], staffed'[r], ledger' \cup pend'[r]))
  <2>1. c \in Nat
    BY <1>2, TokensFinite
  <2>2. iter'[r] = 0
    BY <1>1
  <2> HIDE DEF c
  <2>3. iter'[r] <= c
    BY <2>1, <2>2
  <2> QED
    BY <2>3 DEF c
<1>5. /\ Stacked(ledger') /\ \A q \in Run : Stacked(ledger' \cup pend'[q])
      /\ "loop" \in ActivePc /\ ledger \subseteq ledger'
  BY <1>1 DEF LoopInv, Visible, ActivePc
<1> QED
  BY <1>1, <1>3, <1>4, <1>5, LoopStep

(* The ends of a run and its other steps. *)
LEMMA LoopRun ==
  ASSUME TypeOK, TypeOK', LoopInv, MaxRetries + 2 <= PerNode, NEW r \in Run,
         \/ SelectFails(r) \/ Finish(r) \/ Runaway(r) \/ EndRun(r)
         \/ Crash(r) \/ Timeout(r) \/ MarkWorkflowFailed(r)
  PROVE  LoopInv'
<1>1. dag' = dag /\ batch' = batch /\ staffed' = staffed /\ iter' = iter
  BY DEF SelectFails, Finish, Runaway, EndRun, Crash, Timeout, MarkWorkflowFailed
<1>2. CASE Finish(r) \/ Runaway(r)
  <2>1. /\ pc[r] = "loop" /\ Active(r) /\ pc' = [pc EXCEPT ![r] = "commit"] /\ ledger' = ledger /\ pend' = pend
    BY <1>2 DEF Finish, Runaway, Goto, Active
  <2>2. StaffOK(pc[r], dag[r], batch[r], staffed[r]) /\ staffed[r] \in SUBSET Node
    BY <2>1, LoopBatch
  <2>3. StaffOK("commit", dag'[r], batch'[r], staffed[r]) /\ "commit" \in ActivePc
    BY <1>1, <2>1, <2>2 DEF StaffOK, ActivePc
  <2>4. \A V, W : V \subseteq W => Cardinality(Tokens(dag[r], batch[r], staffed[r], V))
                                     <= Cardinality(Tokens(dag[r], batch[r], staffed[r], W))
    BY <2>2, TokensSame
  <2>5. /\ Stacked(ledger') /\ \A q \in Run : Stacked(ledger' \cup pend'[q])
        /\ ledger \subseteq ledger' /\ Visible(r) \subseteq ledger' \cup pend'[r]
    BY <2>1 DEF LoopInv, Visible
  <2> QED
    BY <1>1, <2>1, <2>3, <2>4, <2>5, LoopMove
<1>3. CASE SelectFails(r) \/ MarkWorkflowFailed(r) \/ EndRun(r) \/ Crash(r) \/ Timeout(r)
  <2>1. PICK label \in {"ended", "failing"} : pc' = [pc EXCEPT ![r] = label]
    BY <1>3 DEF SelectFails, MarkWorkflowFailed, EndRun, Crash, Timeout, Goto
  <2>2. CommitTxn(r) \/ RollbackTxn(r) \/ (ledger' = ledger /\ pend' = pend)
    BY <1>3 DEF SelectFails, MarkWorkflowFailed, EndRun, Crash, Timeout, dbVars, storeVars
  <2>3. /\ Stacked(ledger') /\ \A q \in Run : Stacked(ledger' \cup pend'[q])
        /\ ledger \subseteq ledger' /\ \A q \in Run \ {r} : pend'[q] = pend[q]
    <3>1. CASE ledger' = ledger /\ pend' = pend
      BY <3>1 DEF LoopInv, Visible
    <3> QED
      BY <2>2, <3>1, StackedTxn
  <2>4. label \notin ActivePc /\ label \notin {"unused", "launched"}
    BY DEF ActivePc
  <2> QED
    BY <1>1, <2>1, <2>3, <2>4, LoopStep
<1> QED
  BY <1>2, <1>3

(* Every step keeps the loop's invariant. *)
LEMMA LoopNext ==
  ASSUME MaxRetries + 2 <= PerNode
  PROVE  TypeOK /\ TypeOK' /\ LoopInv /\ [Next]_vars => LoopInv'
<1> SUFFICES ASSUME TypeOK, TypeOK', LoopInv, [Next]_vars PROVE LoopInv'
  OBVIOUS
<1>1. ASSUME NEW r \in Run, Step(r) \/ Timeout(r) PROVE LoopInv'
  BY <1>1, LoopClaim, LoopRun, LoopPolicy, LoopGate, LoopResult, LoopPrepare, Zenon DEF Step
<1>2. ASSUME UNCHANGED <<dag, staffed, batch, iter, ledger, pend>>,
             \A q \in Run : pc'[q] = pc[q] \/ (pc[q] = "unused" /\ pc'[q] = "launched")
      PROVE  LoopInv'
  <2>1. \A q \in Run : Active(q)' => Active(q) /\ pc'[q] = pc[q]
    BY <1>2 DEF Active
  <2>2. \A q \in Run : pc'[q] \in {"unused", "launched"} => pc[q] \in {"unused", "launched"}
    BY <1>2
  <2>3. \A q \in Run : Active(q)' =>
          /\ StaffOK(pc'[q], dag'[q], batch'[q], staffed'[q])
          /\ iter'[q] <= Cardinality(Tokens(dag'[q], batch'[q], staffed'[q], Visible(q)'))
    BY <1>2, <2>1 DEF LoopInv, Visible
  <2>4. \A q \in Run : iter'[q] <= Cap(q)'
    BY <1>2 DEF LoopInv, Cap
  <2>5. Stacked(ledger') /\ \A q \in Run : Stacked(Visible(q)')
    BY <1>2 DEF LoopInv, Visible
  <2>6. \A q \in Run : pc'[q] \in {"unused", "launched"} => iter'[q] = 0 /\ batch'[q] = {}
    BY <1>2, <2>2 DEF LoopInv
  <2> QED
    BY <2>3, <2>4, <2>5, <2>6, Zenon DEF LoopInv, Stacked, StaffOK, Tokens, Spent
<1>3. ASSUME NEW r \in Run, Resume(r) PROVE LoopInv'
  BY <1>2, <1>3 DEF Resume, Goto, TypeOK
<1>4. ASSUME NEW n \in Node, Expire(n) \/ \E verdict \in {"approved", "denied"} : Decide(n, verdict)
      PROVE  LoopInv'
  BY <1>2, <1>4 DEF Expire, Decide, runVars, dbVars, storeVars
<1>5. CASE CancelRead \/ CancelWrite \/ CleanupStale \/ UNCHANGED vars
  BY <1>2, <1>5 DEF CancelRead, CancelWrite, CleanupStale, vars, runVars, dbVars, storeVars
<1> QED
  BY <1>1, <1>3, <1>4, <1>5, Zenon DEF Next

LEMMA LoopInit == TypeOK /\ Init => LoopInv
<1> SUFFICES ASSUME TypeOK, Init PROVE LoopInv
  OBVIOUS
<1>1. \A r \in Run : ~Active(r) /\ iter[r] = 0 /\ batch[r] = {} /\ Visible(r) = {} /\ staffed[r] = {}
  BY DEF Init, Active, Visible
<1>2. Stacked({}) /\ ledger = {}
  BY DEF Stacked, Init
<1>3. ASSUME NEW r \in Run PROVE Cap(r) \in Nat
  <2>1. Cardinality(staffed[r]) = 0
    BY <1>1, FS_EmptySet
  <2>2. PerNode \in Nat /\ Floor \in Nat
    BY BoundsAssumption
  <2>3. PerNode * Cardinality(staffed[r]) \in Nat
    BY <2>1, <2>2
  <2> QED
    BY <2>2, <2>3 DEF Cap
<1> QED
  BY <1>1, <1>2, <1>3 DEF LoopInv

(* In the loop, a node that is not terminal still has a token. *)
LEMMA LoopLeft ==
  ASSUME TypeOK, LoopInv, MaxRetries + 2 <= PerNode, NEW r \in Run, pc[r] = "loop", ~Complete(dag[r])
  PROVE  iter[r] < Cap(r)
<1> DEFINE S == staffed[r]
           T == Tokens(dag[r], batch[r], S, Visible(r))
           P == S \X (0..(MaxRetries + 1))
<1>0. MaxRetries \in Nat
  BY BoundsAssumption
<1>1. /\ dag[r] \in [Node -> Status] /\ S \in SUBSET Node /\ batch[r] = {}
      /\ StaffOK("loop", dag[r], batch[r], S) /\ iter[r] \in Nat /\ iter[r] <= Cardinality(T)
  <2>1. Active(r)
    BY DEF Active
  <2> QED
    BY <2>1, LoopBatch DEF StaffOK
<1>2. PICK n \in Node : dag[r][n] \in {"pending", "running"}
  BY <1>1 DEF Complete, Present, Of, Status
<1>3. \E x \in P : x \notin T
  <2>1. CASE n \in S /\ dag[r][n] = "pending"
    <3>1. <<n, 0>> \in P /\ <<n, 0>> \notin T
      BY <1>0, <1>1, <2>1 DEF Tokens, Spent
    <3> QED
      BY <3>1
  <2>2. CASE n \in S /\ dag[r][n] = "running"
    <3>1. n[2] < MaxAlt /\ Alt(n) \notin S => dag[r][Alt(n)] = "absent"
      <4> SUFFICES ASSUME n[2] < MaxAlt, Alt(n) \notin S, dag[r][Alt(n)] # "absent"
                   PROVE  FALSE
        OBVIOUS
      <4>1. Alt(n) \in Node \ S
        BY DependsOnType
      <4>2. PICK k \in S : k[2] < MaxAlt /\ Alt(n) = Alt(k) /\ dag[r][k] = "completed"
        BY <1>1, <4>1 DEF StaffOK
      <4>3. k \in Node /\ n[1] = k[1] /\ n[2] + 1 = k[2] + 1
        BY <1>1, <4>2 DEF Alt
      <4>4. n[2] \in Nat /\ k[2] \in Nat /\ n = <<n[1], n[2]>> /\ k = <<k[1], k[2]>>
        BY <4>3 DEF Node
      <4> QED
        BY <2>2, <4>2, <4>3, <4>4
    <3>2. <<n, MaxRetries + 1>> \in P /\ <<n, MaxRetries + 1>> \notin T
      BY <1>0, <2>2, <3>1 DEF Tokens, Spent
    <3> QED
      BY <3>2
  <2>3. CASE n \notin S
    <3>1. PICK k \in S : k[2] < MaxAlt /\ n = Alt(k)
      BY <1>1, <1>2, <2>3 DEF StaffOK
    <3>2. dag[r][n] = "pending"
      BY <1>1, <1>2, <2>3 DEF StaffOK
    <3>3. <<k, MaxRetries + 1>> \in P /\ <<k, MaxRetries + 1>> \notin T
      BY <1>0, <3>1, <3>2 DEF Tokens, Spent
    <3> QED
      BY <3>3
  <2> QED
    BY <1>2, <2>1, <2>2, <2>3
<1>4. /\ T \in SUBSET P /\ IsFiniteSet(P) /\ Cardinality(T) \in Nat /\ Cardinality(S) \in Nat
      /\ Cardinality(P) = Cardinality(S) * (MaxRetries + 2)
  BY <1>1, TokensFinite
<1>5. /\ Cardinality(S) * (MaxRetries + 2) \in Nat /\ Cap(r) \in Nat
      /\ Cardinality(S) * (MaxRetries + 2) <= Cap(r)
  BY <1>4, CapBound DEF Cap
<1> HIDE DEF T, P
<1>6. Cardinality(T) <= Cardinality(P) /\ Cardinality(T) # Cardinality(P)
  BY <1>3, <1>4, FS_Subset
<1> QED
  BY <1>1, <1>4, <1>5, <1>6

(* With the limits of the code (MAX_RETRIES_PER_TASK = 2 and five          *)
(* iterations per node) the iteration limit ends no run, for any plan, any *)
(* number of runs that overlap, and whatever fails or is retried: each     *)
(* iteration uses up a start, a retry or an alternative of a node.         *)
THEOREM RunawaysNeverFire == ASSUME MaxRetries + 2 <= PerNode PROVE Spec => []RunawayNeverFires
<1>1. TypeOK /\ LoopInv => RunawayNeverFires
  BY LoopLeft DEF RunawayNeverFires, LoopInv
<1>2. TypeOK /\ TypeOK' /\ LoopInv /\ [Next]_vars => LoopInv'
  BY LoopNext
<1> QED
  BY <1>1, <1>2, TypeInit, TypeNext, LoopInit, PTL DEF Spec

-----------------------------------------------------------------------------
(* What has to be shown of a step of the run that is under way. *)
LEMMA HonestStep ==
  ASSUME TypeOK, HonestInv, NEW r \in Run, Busy(r),
         NEW label, label \notin {"unused", "launched"}, pc' = [pc EXCEPT ![r] = label],
         row' = "completed" => label = "ended" /\ Honest(snap'),
         \A c \in ckpts' : Clean(c),
         label \in ActivePc => /\ OneByOne(label, dag'[r], batch'[r], staffed'[r])
                               /\ Reported(label, prow'[r], psnap'[r])
                               /\ \A c \in drafts'[r] : Clean(c),
         \A q \in Run \ {r} : prow'[q] = prow[q] /\ drafts'[q] = drafts[q] /\ batch'[q] = batch[q]
  PROVE  HonestInv'
<1>1. \A q \in Run : pc'[q] = IF q = r THEN label ELSE pc[q]
  BY DEF TypeOK
<1>2. \A q \in Run \ {r} : pc[q] \in {"unused", "ended"} /\ pc'[q] = pc[q]
  BY <1>1 DEF HonestInv, Busy
<1>3. \A q \in Run : pc'[q] \in ActivePc => q = r /\ pc'[q] = label
  BY <1>1, <1>2 DEF ActivePc
<1>4. \A q \in Run : pc'[q] # "launched"
  BY <1>1, <1>2
<1>5. \A q \in Run : pc'[q] = "unused" => prow'[q] = None /\ drafts'[q] = {} /\ batch'[q] = {}
  BY <1>1, <1>2 DEF HonestInv
<1>6. \A q \in Run : Active(q)' => pc'[q] \in ActivePc
  BY DEF Active, ActivePc
<1>7. \A q \in Run : Active(q)' =>
          /\ OneByOne(pc'[q], dag'[q], batch'[q], staffed'[q])
          /\ Reported(pc'[q], prow'[q], psnap'[q])
          /\ \A c \in drafts'[q] : Clean(c)
  BY <1>3, <1>6
<1>8. \A p, q \in Run : Busy(p)' /\ Busy(q)' => p = q
  BY <1>2 DEF Busy
<1>9. row' = "completed" => Honest(snap') /\ \A q \in Run : ~Busy(q)'
  BY <1>1, <1>2 DEF Busy
<1> QED
  BY <1>4, <1>5, <1>7, <1>8, <1>9, Zenon DEF HonestInv, OneByOne, Reported, Clean, Honest, Of, Present

(* What the invariant says of the active run. *)
LEMMA HonestActive ==
  ASSUME TypeOK, HonestInv, NEW r \in Run, Active(r)
  PROVE  /\ Busy(r) /\ row # "completed"
         /\ dag[r] \in [Node -> Status] /\ dag \in [Run -> [Node -> Status]]
         /\ batch[r] \subseteq Node /\ staffed[r] \subseteq Node /\ batch \in [Run -> SUBSET Node]
         /\ OneByOne(pc[r], dag[r], batch[r], staffed[r])
         /\ Reported(pc[r], prow[r], psnap[r])
         /\ pc[r] # "commit" => prow[r] # "completed"
         /\ \A c \in drafts[r] : Clean(c)
         /\ \A c \in ckpts : Clean(c)
<1>1. Busy(r)
  BY DEF Active, Busy
<1> QED
  BY <1>1 DEF HonestInv, TypeOK, Reported

(* A commit reports what the run flushed. *)
LEMMA HonestTxn ==
  ASSUME TypeOK, HonestInv, NEW r \in Run, Active(r), CommitTxn(r) \/ RollbackTxn(r)
  PROVE  /\ row' = "completed" => CommitTxn(r) /\ pc[r] = "commit" /\ Honest(snap')
         /\ \A c \in ckpts' : Clean(c)
         /\ prow'[r] = None /\ drafts'[r] = {}
         /\ \A q \in Run \ {r} : prow'[q] = prow[q] /\ drafts'[q] = drafts[q]
<1>1. /\ row # "completed" /\ Reported(pc[r], prow[r], psnap[r])
      /\ \A c \in drafts[r] : Clean(c)
      /\ \A c \in ckpts : Clean(c)
  BY HonestActive
<1>2. /\ prow'[r] = None /\ drafts'[r] = {}
      /\ \A q \in Run \ {r} : prow'[q] = prow[q] /\ drafts'[q] = drafts[q]
  BY DEF CommitTxn, RollbackTxn, TypeOK
<1>3. \A c \in ckpts' : Clean(c)
  BY <1>1 DEF CommitTxn, RollbackTxn
<1>4. row' = "completed" => CommitTxn(r) /\ pc[r] = "commit" /\ Honest(snap')
  BY <1>1 DEF CommitTxn, RollbackTxn, Reported
<1> QED
  BY <1>2, <1>3, <1>4

(* Where a run goes on after the gate or a result. *)
LEMMA AfterLabel ==
  ASSUME NEW G, NEW B
  PROVE  /\ After(G, B) \in {"gate", "results", "loop"}
         /\ After(G, B) = "loop" => B = {}
  BY DEF After

(* Two tasks in series are never ready together. *)
LEMMA ReadyAlone ==
  ASSUME InSeries, NEW d \in [Node -> Status], GoodDag(d), NEW m \in Ready(d), NEW n \in Ready(d), m[2] = 0, n[2] = 0
  PROVE  m = n
<1>1. /\ m \in Node /\ n \in Node /\ m = <<m[1], 0>> /\ n = <<n[1], 0>> /\ m[1] \in Plan /\ n[1] \in Plan
      /\ d[m] = "pending" /\ d[n] = "pending"
  BY DEF Ready, Node
<1>2. ASSUME NEW x \in Plan, NEW y \in Plan, x # y, <<y, 0>> \in Ready(d), NeededBy(x, y)
      PROVE  d[<<x, 0>>] = "completed"
  <2> DEFINE S == {y} \cup {z \in Plan : d[<<z, 0>>] = "completed"}
  <2>0. 0 \in 0..MaxAlt
    BY BoundsAssumption
  <2>1. \A z \in Plan : <<z, 0>> \in Node /\ DependsOn(<<z, 0>>) = Parents[z] \X {0} /\ Parents[z] \subseteq Plan
    BY <2>0, PlanAssumption DEF Node, DependsOn
  <2>2. \A k \in DependsOn(<<y, 0>>) : d[k] = "completed"
    BY <1>2 DEF Ready
  <2>3. \A z \in Plan : d[<<z, 0>>] = "completed" => \A k \in DependsOn(<<z, 0>>) : d[k] = "completed"
    BY <2>1 DEF GoodDag
  <2>4. ASSUME NEW z \in S, NEW w \in Parents[z] PROVE w \in S
    <3>1. z \in Plan /\ w \in Plan /\ <<w, 0>> \in DependsOn(<<z, 0>>)
      BY <1>2, <2>1, <2>4
    <3>2. d[<<w, 0>>] = "completed"
      BY <2>2, <2>3, <2>4, <3>1
    <3> QED
      BY <3>1, <3>2
  <2>5. S \in SUBSET Plan /\ y \in S
    BY <1>2
  <2>6. x \in S
    <3>1. \A z \in S : Parents[z] \subseteq S
      BY <2>4
    <3> HIDE DEF S
    <3> QED
      BY <1>2, <2>5, <3>1 DEF NeededBy
  <2> QED
    BY <1>2, <2>6
<1>3. m[1] = n[1] \/ NeededBy(m[1], n[1]) \/ NeededBy(n[1], m[1])
  BY <1>1 DEF InSeries
<1>4. m[1] = n[1]
  BY <1>1, <1>2, <1>3
<1> QED
  BY <1>1, <1>4

(* When nothing is ready, nothing runs and nothing has failed, everything  *)
(* is completed: the plan has no cycle.                                    *)
LEMMA NothingLeft ==
  ASSUME NEW d \in [Node -> Status], Ready(d) = {},
         \A n \in Node : d[n] # "running" /\ d[n] \notin {"failed", "skipped"},
         \A n \in Node : n[2] = 0 => d[n] # "absent"
  PROVE  \A n \in Node : d[n] # "absent" => d[n] = "completed"
<1>0. 0 \in 0..MaxAlt
  BY BoundsAssumption
<1>1. \A z \in Plan : <<z, 0>> \in Node /\ <<z, 0>>[2] = 0 /\ DependsOn(<<z, 0>>) = Parents[z] \X {0} /\ Parents[z] \subseteq Plan
  BY <1>0, PlanAssumption DEF Node, DependsOn
<1> DEFINE S == {z \in Plan : d[<<z, 0>>] = "pending"}
<1>2. \A n \in Node : d[n] = "pending" => \E m \in DependsOn(n) : d[m] # "completed"
  BY DEF Ready
<1>3. \A n \in Node : d[n] \in {"absent", "pending", "completed"}
  BY DEF Status
<1>4. \A z \in Plan \ S : d[<<z, 0>>] = "completed"
  BY <1>1, <1>3
<1>5. S = {}
  <2> SUFFICES ASSUME S # {} PROVE FALSE
    OBVIOUS
  <2>1. PICK p \in S : Parents[p] \cap S = {}
    BY AcyclicAssumption DEF Acyclic
  <2>2. PICK m \in DependsOn(<<p, 0>>) : d[m] # "completed"
    BY <1>1, <1>2
  <2>3. m \in Parents[p] \X {0}
    BY <1>1, <2>2
  <2>4. m = <<m[1], 0>> /\ m[1] \in Plan \ S
    BY <1>1, <2>1, <2>3
  <2> QED
    BY <1>4, <2>2, <2>4
<1>6. ASSUME NEW n \in Node, d[n] = "pending" PROVE FALSE
  <2>1. PICK m \in DependsOn(n) : d[m] # "completed"
    BY <1>2, <1>6
  <2>2. m = <<m[1], 0>> /\ m[1] \in Plan
    BY PlanAssumption DEF DependsOn, Node
  <2> QED
    BY <1>4, <1>5, <2>1, <2>2
<1> QED
  BY <1>3, <1>6

(* A run begins with a DAG that may be resumed. *)
LEMMA HonestClaim ==
  ASSUME TypeOK, TypeOK', HonestInv, NEW r \in Run, Claim(r)
  PROVE  HonestInv'
<1>1. /\ pc[r] = "launched" /\ pc' = [pc EXCEPT ![r] = "loop"] /\ Busy(r) /\ row # "completed"
      /\ batch' = batch /\ batch[r] = {} /\ drafts' = drafts /\ drafts[r] = {} /\ ckpts' = ckpts
      /\ prow[r] = None /\ (r # 1 => Clean(snap))
  BY DEF Claim, Goto, Busy, HonestInv
<1>2. /\ row' # "completed" /\ prow'[r] \in {None, "running"}
      /\ \A q \in Run \ {r} : prow'[q] = prow[q]
      /\ dag'[r] = (IF r = 1 THEN Planned ELSE snap) /\ staffed'[r] = Present(dag'[r])
  BY <1>1 DEF Claim, TypeOK
<1>3. Clean(Planned)
  BY DEF Clean, Planned
<1>4. Clean(dag'[r])
  BY <1>1, <1>2, <1>3
<1>5. OneByOne("loop", dag'[r], batch'[r], staffed'[r])
  BY <1>1, <1>2, <1>4 DEF OneByOne, Clean, Present
<1>6. Reported("loop", prow'[r], psnap'[r])
  BY <1>2, NoneAssumption DEF Reported, RowStatus
<1>7. /\ \A c \in ckpts' : Clean(c)
      /\ \A c \in drafts'[r] : Clean(c)
      /\ \A q \in Run \ {r} : prow'[q] = prow[q] /\ drafts'[q] = drafts[q] /\ batch'[q] = batch[q]
  BY <1>1, <1>2 DEF HonestInv
<1> QED
  BY <1>1, <1>2, <1>5, <1>6, <1>7, HonestStep

(* Phase 1 starts at most one task, and fails the alternatives that wait. *)
LEMMA HonestPrepare ==
  ASSUME InSeries, TypeOK, DagInv, HonestInv, NEW r \in Run, Prepare(r)
  PROVE  HonestInv'
<1> DEFINE d == dag[r]
           ready == Ready(d)
<1>1. /\ pc[r] = "loop" /\ Active(r) /\ pc' = [pc EXCEPT ![r] = "policy"]
      /\ staffed' = staffed /\ row' = row /\ ckpts' = ckpts /\ drafts' = drafts /\ prow' = prow /\ psnap' = psnap
  BY DEF Prepare, Active, Goto
<1>2. /\ Busy(r) /\ row # "completed" /\ d \in [Node -> Status] /\ GoodDag(d) /\ batch[r] = {}
      /\ OneByOne("loop", d, batch[r], staffed[r]) /\ prow[r] # "completed"
      /\ \A c \in drafts[r] : Clean(c)
      /\ \A c \in ckpts : Clean(c)
  BY <1>1, HonestActive DEF DagInv, OneByOne
<1>3. PICK st : /\ st \subseteq ready \cap staffed[r]
                /\ dag' = [dag EXCEPT ![r] =
                     [n \in Node |-> IF n \in st THEN "running" ELSE MarkFailed(d, ready \ st)[n]]]
                /\ batch' = [batch EXCEPT ![r] = st]
  BY Zenon DEF Prepare
<1> DEFINE F == ready \ st
           e == [n \in Node |-> IF n \in st THEN "running" ELSE MarkFailed(d, F)[n]]
<1>4. /\ dag'[r] = e /\ batch'[r] = st /\ \A q \in Run \ {r} : batch'[q] = batch[q]
  BY <1>3 DEF TypeOK
<1>5. \A n \in ready : n \in Node /\ d[n] = "pending"
  BY DEF Ready
<1>6. F \in SUBSET Node
  BY <1>5
<1>7. /\ \A n \in st : e[n] = "running"
      /\ \A n \in F : e[n] = "failed"
      /\ \A n \in Node : n \notin st /\ n \notin F => e[n] \in {d[n], "skipped"}
      /\ \A n \in Node : n \notin st => e[n] # "running"
  <2>1. \A n \in Node : d[n] # "running"
    BY <1>2 DEF OneByOne
  <2> QED
    BY <1>2, <1>3, <1>5, <1>6, <2>1, FailedAway
<1> HIDE DEF e
<1>8. OneByOne("policy", e, st, staffed[r])
  <2>1. \A n \in st : n \in ready /\ n \in staffed[r] /\ n[2] = 0
    BY <1>2, <1>3, <1>5 DEF OneByOne
  <2>2. \A m, n \in st : m = n
    BY <1>2, <2>1, ReadyAlone
  <2>3. \A n \in Node : e[n] = "absent" => d[n] = "absent"
    BY <1>5, <1>7
  <2>4. \A n \in Node : n[2] # 0 => e[n] # "pending"
    <3> SUFFICES ASSUME NEW n \in Node, n[2] # 0, e[n] = "pending" PROVE FALSE
      OBVIOUS
    <3>1. n \notin st /\ n \notin F /\ d[n] = "pending"
      BY <1>7
    <3>2. \A m \in DependsOn(n) : d[m] = "completed"
      BY <1>2, <3>1 DEF OneByOne
    <3>3. n \in ready
      BY <3>1, <3>2 DEF Ready
    <3> QED
      BY <3>1, <3>3
  <2>5. staffed[r] \subseteq Node
    BY DEF TypeOK
  <2> HIDE DEF d, ready, F
  <2> QED
    BY <1>2, <1>7, <2>1, <2>2, <2>3, <2>4, <2>5 DEF OneByOne
<1>9. Reported("policy", prow'[r], psnap'[r])
  BY <1>1, <1>2 DEF Reported
<1>10. "policy" \notin {"unused", "launched"} /\ row' # "completed"
  BY <1>1, <1>2
<1>11. OneByOne("policy", dag'[r], batch'[r], staffed'[r])
  BY <1>1, <1>4, <1>8
<1> QED
  BY <1>1, <1>2, <1>4, <1>9, <1>10, <1>11, HonestStep

(* The policies keep every node in the batch. *)
LEMMA HonestPolicy ==
  ASSUME InSeries, TypeOK, HonestInv, NEW r \in Run, Policy(r)
  PROVE  HonestInv'
<1>1. /\ pc[r] = "policy" /\ Active(r) /\ dag' = dag /\ staffed' = staffed
      /\ pc' = [pc EXCEPT ![r] = After(gate'[r], batch'[r])]
      /\ CommitTxn(r) \/ (row' = row /\ ckpts' = ckpts /\ drafts' = drafts /\ prow' = prow)
  BY DEF Policy, Active, Goto, dbVars, storeVars
<1>2. batch'[r] = batch[r] /\ \A q \in Run \ {r} : batch'[q] = batch[q]
  <2>1. PICK verdict \in [batch[r] -> Policies] :
          batch' = [batch EXCEPT ![r] = @ \ {n \in batch[r] : verdict[n] = "deny"}]
    BY Zenon DEF Policy
  <2>2. {n \in batch[r] : verdict[n] = "deny"} = {}
    BY DEF InSeries
  <2> QED
    BY <2>1, <2>2 DEF TypeOK
<1>3. PICK label \in {"gate", "results", "loop"} :
        pc' = [pc EXCEPT ![r] = label] /\ (label = "loop" => batch[r] = {})
  BY <1>1, <1>2, AfterLabel
<1>4. /\ Busy(r) /\ row # "completed" /\ OneByOne("policy", dag[r], batch[r], staffed[r])
      /\ prow[r] # "completed"
      /\ \A c \in drafts[r] : Clean(c)
      /\ \A c \in ckpts : Clean(c)
  BY <1>1, HonestActive
<1>5. OneByOne(label, dag'[r], batch'[r], staffed'[r])
  BY <1>1, <1>2, <1>3, <1>4 DEF OneByOne
<1>6. /\ row' # "completed" /\ prow'[r] # "completed"
      /\ \A c \in drafts'[r] : Clean(c)
      /\ \A c \in ckpts' : Clean(c)
      /\ \A q \in Run \ {r} : prow'[q] = prow[q] /\ drafts'[q] = drafts[q]
  <2>1. CASE CommitTxn(r)
    <3>1. None # "completed"
      BY NoneAssumption DEF RowStatus
    <3> QED
      BY <1>1, <2>1, <3>1, HonestTxn
  <2>2. CASE row' = row /\ ckpts' = ckpts /\ drafts' = drafts /\ prow' = prow
    BY <1>4, <2>2
  <2> QED
    BY <1>1, <2>1, <2>2
<1>7. Reported(label, prow'[r], psnap'[r]) /\ label \notin {"unused", "launched"}
  BY <1>6 DEF Reported
<1> QED
  BY <1>2, <1>3, <1>4, <1>5, <1>6, <1>7, HonestStep

(* A failed node of the batch leaves nothing running. *)
LEMMA OneFailed ==
  ASSUME NEW d \in [Node -> Status], NEW S \in SUBSET Node, NEW B \in SUBSET Node, NEW n \in B, NEW from,
         from \notin {"loop", "commit"}, OneByOne(from, d, B, S), NEW label
  PROVE  B \ {n} = {} /\ OneByOne(label, MarkFailed(d, {n}), B \ {n}, S)
<1> DEFINE e == MarkFailed(d, {n})
<1>1. e[n] = "failed" /\ \A m \in Node \ {n} : e[m] \in {d[m], "skipped"}
  BY FailedAway
<1>2. B \ {n} = {}
  BY DEF OneByOne
<1> HIDE DEF e
<1>3. OneByOne(label, e, {}, S)
  BY <1>1, <1>2 DEF OneByOne
<1> QED
  BY <1>2, <1>3 DEF e

(* So does one that is completed or put back. *)
LEMMA OneSet ==
  ASSUME NEW d \in [Node -> Status], NEW S \in SUBSET Node, NEW B \in SUBSET Node, NEW n \in B, NEW from,
         from \notin {"loop", "commit"}, OneByOne(from, d, B, S), NEW label, NEW s \in {"pending", "completed"}
  PROVE  /\ B \ {n} = {}
         /\ OneByOne(label, [d EXCEPT ![n] = s], B \ {n}, S)
         /\ label \notin {"loop", "commit"} => OneByOne(label, [d EXCEPT ![n] = s], B, S)
         /\ Clean([d EXCEPT ![n] = s])
<1> DEFINE e == [d EXCEPT ![n] = s]
<1>1. e[n] = s /\ n[2] = 0 /\ \A m \in Node \ {n} : e[m] = d[m]
  BY DEF OneByOne
<1>2. B \ {n} = {} /\ B = {n}
  BY DEF OneByOne
<1> HIDE DEF e
<1>3. \A m \in Node : /\ e[m] # "running"
                      /\ e[m] = "absent" => d[m] = "absent"
                      /\ m[2] # 0 => e[m] # "pending"
  BY <1>1, <1>2 DEF OneByOne
<1>4. OneByOne(label, e, {}, S) /\ Clean(e)
  BY <1>3 DEF OneByOne, Clean
<1>5. label \notin {"loop", "commit"} => OneByOne(label, e, {n}, S)
  BY <1>1, <1>3 DEF OneByOne
<1> QED
  BY <1>2, <1>4, <1>5 DEF e

(* The gate leaves at most its one node, started or given up. *)
LEMMA HonestGate ==
  ASSUME TypeOK, HonestInv, NEW r \in Run,
         GateCheck(r) \/ \E n \in Node : GateHonour(r, n) \/ GateAsk(r, n)
  PROVE  HonestInv'
<1>1. /\ Active(r) /\ pc[r] \in {"gate", "asked"} /\ staffed' = staffed /\ drafts' = drafts /\ prow' = prow
  BY DEF GateCheck, GateHonour, GateAsk, Active, storeVars
<1>2. /\ Busy(r) /\ row # "completed" /\ dag[r] \in [Node -> Status] /\ OneByOne(pc[r], dag[r], batch[r], staffed[r])
      /\ prow[r] # "completed" /\ batch[r] \in SUBSET Node /\ staffed[r] \in SUBSET Node
      /\ \A c \in drafts[r] : Clean(c)
      /\ \A c \in ckpts : Clean(c)
  BY <1>1, HonestActive
<1>3. ASSUME NEW label, label \notin {"unused", "launched"}, pc' = [pc EXCEPT ![r] = label], row' # "completed",
             \A c \in ckpts' : Clean(c), \A q \in Run \ {r} : batch'[q] = batch[q],
             label \in ActivePc => OneByOne(label, dag'[r], batch'[r], staffed[r])
      PROVE  HonestInv'
  <2>1. Reported(label, prow'[r], psnap'[r])
    BY <1>1, <1>2 DEF Reported
  <2> QED
    BY <1>1, <1>2, <1>3, <2>1, HonestStep
<1>4. ASSUME NEW n, NEW d, NEW B, AfterGate(r, n, d, B), row' = row, ckpts' = ckpts,
             \A label \in {"gate", "results", "loop"} : (label = "loop" => B = {}) => OneByOne(label, d, B, staffed[r])
      PROVE  HonestInv'
  <2>1. PICK label \in {"gate", "results", "loop"} : pc' = [pc EXCEPT ![r] = label] /\ (label = "loop" => B = {})
    BY <1>4, AfterLabel DEF AfterGate, Goto
  <2>2. dag'[r] = d /\ batch'[r] = B /\ \A q \in Run \ {r} : batch'[q] = batch[q]
    BY <1>4 DEF AfterGate, TypeOK
  <2> QED
    BY <1>2, <1>3, <1>4, <2>1, <2>2
<1>5. \A label \in {"gate", "results", "loop"} :
         (label = "loop" => batch[r] = {}) => OneByOne(label, dag[r], batch[r], staffed[r])
  BY <1>1, <1>2 DEF OneByOne
<1>6. CASE GateCheck(r)
  <2>1. CASE pc' = [pc EXCEPT ![r] = "ended"] /\ row' \in {"awaiting", row} /\ batch' = batch /\ ckpts' = ckpts
    BY <1>2, <1>3, <2>1 DEF ActivePc
  <2>2. CASE AfterGate(r, asked[r], dag[r], batch[r]) /\ row' = row /\ ckpts' = ckpts
    BY <1>4, <1>5, <2>2
  <2> QED
    BY <1>6, <2>1, <2>2 DEF GateCheck, Goto
<1>7. ASSUME NEW n \in Node, GateHonour(r, n) PROVE HonestInv'
  <2>1. n \in batch[r] /\ row' = row /\ ckpts' = ckpts
    BY <1>7 DEF GateHonour, storeVars
  <2>2. CASE AfterGate(r, n, MarkFailed(dag[r], {n}), batch[r] \ {n})
    <3>1. \A label : OneByOne(label, MarkFailed(dag[r], {n}), batch[r] \ {n}, staffed[r])
      BY <1>1, <1>2, <2>1, OneFailed
    <3> QED
      BY <1>4, <2>1, <2>2, <3>1
  <2>3. CASE AfterGate(r, n, dag[r], batch[r])
    BY <1>4, <1>5, <2>1, <2>3
  <2> QED
    BY <1>7, <2>2, <2>3 DEF GateHonour
<1>8. ASSUME NEW n \in Node, GateAsk(r, n) PROVE HonestInv'
  <2> DEFINE d == [dag[r] EXCEPT ![n] = "pending"]
  <2>1. /\ n \in batch[r] /\ row' = row /\ batch' = batch /\ pc' = [pc EXCEPT ![r] = "asked"]
        /\ dag'[r] = d /\ ckpts' \subseteq ckpts \cup {d}
    BY <1>2, <1>8 DEF GateAsk, Saved, Goto, TypeOK
  <2>2. OneByOne("asked", d, batch[r], staffed[r]) /\ Clean(d)
    <3>1. pc[r] \notin {"loop", "commit"} /\ "asked" \notin {"loop", "commit"} /\ "pending" \in {"pending", "completed"}
      BY <1>1
    <3> QED
      BY <1>2, <2>1, <3>1, OneSet, Zenon
  <2> HIDE DEF d
  <2> QED
    BY <1>2, <1>3, <2>1, <2>2
<1> QED
  BY <1>6, <1>7, <1>8

(* An alternative waits with every dependency of its original completed. *)
LEMMA OneAlternative ==
  ASSUME NEW d \in [Node -> Status], NEW S \in SUBSET Node, NEW B \in SUBSET Node, NEW n \in B, Started(d, n),
         n[2] < MaxAlt, d[Alt(n)] = "absent", OneByOne("results", d, B, S)
  PROVE  OneByOne("loop", [d EXCEPT ![n] = "completed", ![Alt(n)] = "pending"], {}, S)
<1> DEFINE e == [d EXCEPT ![n] = "completed", ![Alt(n)] = "pending"]
<1>1. /\ Alt(n) \in Node /\ Alt(n) # n /\ DependsOn(Alt(n)) = DependsOn(n)
      /\ DependsOn(n) \subseteq Node /\ Alt(n) \notin DependsOn(n)
  BY DependsOnType
<1>2. /\ e[n] = "completed" /\ e[Alt(n)] = "pending"
      /\ \A m \in Node \ {n, Alt(n)} : e[m] = d[m]
  BY <1>1
<1> HIDE DEF e
<1>3. Alt(n) \notin S /\ B = {n} /\ n[2] = 0
  BY DEF OneByOne
<1>4. \A m \in Node : /\ e[m] # "running"
                      /\ e[m] = "absent" => d[m] = "absent"
                      /\ m[2] # 0 /\ e[m] = "pending" => m = Alt(n)
  BY <1>2, <1>3 DEF OneByOne
<1>5. \A m \in DependsOn(n) : e[m] = "completed"
  BY <1>1, <1>2 DEF Started
<1>6. OneByOne("loop", e, {}, S)
  BY <1>1, <1>3, <1>4, <1>5 DEF OneByOne
<1> QED
  BY <1>6 DEF e

(* A result ends the iteration, because the batch has no other node. *)
LEMMA HonestResult ==
  ASSUME TypeOK, DagInv, HonestInv, NEW r \in Run, NEW n \in Node,
         \/ LlmFails(r, n) \/ PostFails(r, n) \/ Accepts(r, n)
         \/ Retry(r, n) \/ Replan(r, n) \/ Abort(r, n)
  PROVE  HonestInv'
<1>1. PICK d :
        /\ Processing(r, n, d)
        /\ \/ d = MarkFailed(dag[r], {n})
           \/ d = [dag[r] EXCEPT ![n] = "completed"]
           \/ d = [dag[r] EXCEPT ![n] = "pending"]
           \/ d = [dag[r] EXCEPT ![n] = "completed", ![Alt(n)] = "pending"] /\ Replan(r, n)
        /\ \/ drafts' = drafts /\ prow' = prow
           \/ /\ d = [dag[r] EXCEPT ![n] = "completed"]
              /\ drafts' = drafts \/ drafts' = [drafts EXCEPT ![r] = @ \cup {dag'[r]}]
              /\ prow' = [prow EXCEPT ![r] = "failed"]
  BY Zenon DEF LlmFails, PostFails, Accepts, Retry, Replan, Abort, Saved
<1>2. /\ n \in batch[r] /\ batch' = [batch EXCEPT ![r] = batch[r] \ {n}] /\ dag' = [dag EXCEPT ![r] = d]
      /\ pc[r] = "results" /\ Active(r) /\ row' = row /\ ckpts' = ckpts /\ staffed' = staffed
      /\ pc' = [pc EXCEPT ![r] = After({}, batch'[r])]
  BY <1>1 DEF Processing, Goto, Active
<1>3. /\ Busy(r) /\ row # "completed" /\ dag[r] \in [Node -> Status] /\ OneByOne("results", dag[r], batch[r], staffed[r])
      /\ prow[r] # "completed" /\ batch[r] \in SUBSET Node /\ staffed[r] \in SUBSET Node
      /\ \A c \in drafts[r] : Clean(c)
      /\ \A c \in ckpts : Clean(c)
  BY <1>2, HonestActive
<1>4. /\ dag'[r] = d /\ batch'[r] = batch[r] \ {n} /\ \A q \in Run \ {r} : batch'[q] = batch[q]
  BY <1>2 DEF TypeOK
<1>5. batch[r] \ {n} = {}
  BY <1>2, <1>3 DEF OneByOne
<1>6. ASSUME NEW s \in {"pending", "completed"}
       PROVE  OneByOne("loop", [dag[r] EXCEPT ![n] = s], batch[r] \ {n}, staffed[r]) /\ Clean([dag[r] EXCEPT ![n] = s])
  <2>1. "results" \notin {"loop", "commit"}
    OBVIOUS
  <2>2. /\ n \in batch[r] /\ batch[r] \in SUBSET Node /\ staffed[r] \in SUBSET Node /\ dag[r] \in [Node -> Status]
        /\ OneByOne("results", dag[r], batch[r], staffed[r])
    BY <1>2, <1>3
  <2>3. OneByOne("loop", [dag[r] EXCEPT ![n] = s], batch[r] \ {n}, staffed[r])
    BY <1>6, <2>1, <2>2, OneSet
  <2>4. Clean([dag[r] EXCEPT ![n] = s])
    BY <1>6, <2>1, <2>2, OneSet
  <2> QED
    BY <2>3, <2>4
<1>7. pc' = [pc EXCEPT ![r] = "loop"]
  BY <1>2, <1>4, <1>5 DEF After
<1>8. OneByOne("loop", d, {}, staffed[r])
  <2>0. "results" \notin {"loop", "commit"}
    OBVIOUS
  <2>1. CASE d = MarkFailed(dag[r], {n})
    BY <1>2, <1>3, <1>5, <2>0, <2>1, OneFailed
  <2>2. CASE d = [dag[r] EXCEPT ![n] = "completed"]
    BY <1>5, <1>6, <2>2
  <2>3. CASE d = [dag[r] EXCEPT ![n] = "pending"]
    BY <1>5, <1>6, <2>3
  <2>4. CASE d = [dag[r] EXCEPT ![n] = "completed", ![Alt(n)] = "pending"] /\ Replan(r, n)
    <3>1. n[2] < MaxAlt /\ dag[r][Alt(n)] = "absent" /\ Started(dag[r], n)
      BY <1>2, <2>4 DEF Replan, DagInv
    <3> QED
      BY <1>2, <1>3, <2>4, <3>1, OneAlternative
  <2> QED
    BY <1>1, <2>1, <2>2, <2>3, <2>4
<1>9. /\ prow'[r] # "completed" /\ \A c \in drafts'[r] : Clean(c)
      /\ \A q \in Run \ {r} : prow'[q] = prow[q] /\ drafts'[q] = drafts[q]
  <2>1. CASE drafts' = drafts /\ prow' = prow
    BY <1>3, <2>1
  <2>2. CASE /\ d = [dag[r] EXCEPT ![n] = "completed"]
             /\ drafts' = drafts \/ drafts' = [drafts EXCEPT ![r] = @ \cup {dag'[r]}]
             /\ prow' = [prow EXCEPT ![r] = "failed"]
    <3>1. Clean(d)
      BY <1>6, <2>2
    <3>2. /\ drafts'[r] \subseteq drafts[r] \cup {d} /\ \A q \in Run \ {r} : drafts'[q] = drafts[q]
      BY <1>4, <2>2 DEF TypeOK
    <3>3. prow'[r] = "failed" /\ \A q \in Run \ {r} : prow'[q] = prow[q]
      BY <2>2 DEF TypeOK
    <3> QED
      BY <1>3, <3>1, <3>2, <3>3
  <2> QED
    BY <1>1, <2>1, <2>2
<1>10. /\ Reported("loop", prow'[r], psnap'[r]) /\ OneByOne("loop", dag'[r], batch'[r], staffed'[r])
      /\ row' # "completed" /\ "loop" \notin {"unused", "launched"}
      /\ \A c \in ckpts' : Clean(c)
  BY <1>2, <1>3, <1>4, <1>5, <1>8, <1>9 DEF Reported
<1> QED
  BY <1>3, <1>4, <1>7, <1>9, <1>10, HonestStep

(* At the end of the loop a DAG without failures is completed. *)
LEMMA EndsHonest ==
  ASSUME NEW d \in [Node -> Status], NEW S, OneByOne("loop", d, {}, S), Complete(d) \/ Ready(d) = {}
  PROVE  Honest(d)
<1> SUFFICES ASSUME Of(d, "failed") \cup Of(d, "skipped") = {}
             PROVE  Of(d, "completed") = Present(d)
  BY DEF Honest
<1>1. \A n \in Node : d[n] \notin {"failed", "skipped"}
  BY DEF Of
<1>2. \A n \in Node : d[n] # "running" /\ (n[2] = 0 => d[n] # "absent")
  BY DEF OneByOne
<1>3. \A n \in Node : d[n] # "absent" => d[n] = "completed"
  <2>1. CASE Complete(d)
    BY <1>1, <2>1 DEF Complete, Present, Of
  <2>2. CASE Ready(d) = {}
    BY <1>1, <1>2, <2>2, NothingLeft
  <2> QED
    BY <2>1, <2>2
<1> QED
  BY <1>3 DEF Of, Present

(* A run that ends reports COMPLETED with an honest DAG only. *)
LEMMA HonestRun ==
  ASSUME TypeOK, HonestInv, NEW r \in Run,
         \/ SelectFails(r) \/ Finish(r) \/ Runaway(r) \/ EndRun(r)
         \/ Crash(r) \/ Timeout(r) \/ MarkWorkflowFailed(r)
  PROVE  HonestInv'
<1>1. dag' = dag /\ batch' = batch /\ staffed' = staffed
  BY DEF SelectFails, Finish, Runaway, EndRun, Crash, Timeout, MarkWorkflowFailed
<1>2. CASE Finish(r) \/ Runaway(r)
  <2>1. /\ pc[r] = "loop" /\ Active(r) /\ pc' = [pc EXCEPT ![r] = "commit"]
        /\ row' = row /\ ckpts' = ckpts /\ drafts' = drafts
    BY <1>2 DEF Finish, Runaway, Goto, Active
  <2>2. /\ Busy(r) /\ row # "completed" /\ dag[r] \in [Node -> Status]
        /\ OneByOne("loop", dag[r], batch[r], staffed[r])
        /\ \A c \in drafts[r] : Clean(c)
        /\ \A c \in ckpts : Clean(c)
    BY <2>1, HonestActive
  <2>3. batch[r] = {} /\ OneByOne("commit", dag[r], batch[r], staffed[r])
    BY <2>2 DEF OneByOne
  <2>4. Reported("commit", prow'[r], psnap'[r]) /\ \A q \in Run \ {r} : prow'[q] = prow[q]
    <3>1. CASE Finish(r)
      <4>1. psnap'[r] = dag[r] /\ \A q \in Run \ {r} : prow'[q] = prow[q]
        BY <3>1 DEF Finish, TypeOK
      <4>2. Complete(dag[r]) \/ Ready(dag[r]) = {}
        BY <3>1 DEF Finish
      <4>3. Honest(dag[r])
        BY <2>2, <2>3, <4>2, EndsHonest
      <4>4. dag[r] # None
        BY <2>2, NoneAssumption
      <4> QED
        BY <4>1, <4>3, <4>4 DEF Reported
    <3>2. CASE Runaway(r)
      <4>1. prow'[r] = "failed" /\ \A q \in Run \ {r} : prow'[q] = prow[q]
        BY <3>2 DEF Runaway, TypeOK
      <4> QED
        BY <4>1 DEF Reported
    <3> QED
      BY <1>2, <3>1, <3>2
  <2>5. "commit" \notin {"unused", "launched"}
    OBVIOUS
  <2> QED
    BY <1>1, <2>1, <2>2, <2>3, <2>4, <2>5, HonestStep
<1>3. CASE SelectFails(r) \/ MarkWorkflowFailed(r) \/ EndRun(r) \/ Crash(r) \/ Timeout(r)
  <2>1. PICK label \in {"ended", "failing"} : pc' = [pc EXCEPT ![r] = label] /\ (label = "ended" \/ RollbackTxn(r))
    BY <1>3 DEF SelectFails, MarkWorkflowFailed, EndRun, Crash, Timeout, Goto
  <2>2. Busy(r) /\ (EndRun(r) \/ Crash(r) \/ Timeout(r) => Active(r))
    BY <1>3 DEF SelectFails, MarkWorkflowFailed, EndRun, Crash, Timeout, Active, Busy
  <2>3. row # "completed"
    BY <2>2 DEF HonestInv
  <2>4. label \notin ActivePc /\ label \notin {"unused", "launched"}
    BY DEF ActivePc
  <2>5. /\ row' = "completed" => label = "ended" /\ Honest(snap')
        /\ \A c \in ckpts' : Clean(c)
        /\ \A q \in Run \ {r} : prow'[q] = prow[q] /\ drafts'[q] = drafts[q]
    <3>1. CASE SelectFails(r) \/ MarkWorkflowFailed(r)
      <4>1. row' \in {row, "failed"} /\ ckpts' = ckpts /\ prow' = prow /\ drafts' = drafts
        BY <3>1 DEF SelectFails, MarkWorkflowFailed, dbVars, storeVars
      <4> QED
        BY <2>3, <4>1 DEF HonestInv
    <3>2. CASE EndRun(r) \/ Crash(r) \/ Timeout(r)
      <4>1. Active(r) /\ (CommitTxn(r) \/ RollbackTxn(r))
        BY <2>2, <3>2 DEF EndRun, Crash, Timeout
      <4>2. RollbackTxn(r) => row' = row
        BY DEF RollbackTxn
      <4> QED
        BY <2>1, <2>3, <4>1, <4>2, HonestTxn
    <3> QED
      BY <1>3, <3>1, <3>2
  <2> QED
    BY <1>1, <2>1, <2>2, <2>4, <2>5, HonestStep
<1> QED
  BY <1>2, <1>3

(* A client that waits for the run before resumes from a clean checkpoint. *)
LEMMA HonestResume ==
  ASSUME InSeries, TypeOK, HonestInv, NEW r \in Run, Resume(r)
  PROVE  HonestInv'
<1>1. /\ pc[r] = "unused" /\ pc' = [pc EXCEPT ![r] = "launched"] /\ row' = "running" /\ snap' \in ckpts
      /\ ckpts' = ckpts /\ prow' = prow /\ drafts' = drafts /\ batch' = batch
      /\ \A q \in Run : pc[q] \in {"unused", "ended"}
  BY DEF Resume, Load, Goto, InSeries
<1>2. \A q \in Run : pc'[q] = IF q = r THEN "launched" ELSE pc[q]
  BY <1>1 DEF TypeOK
<1>3. \A q \in Run : ~Active(q)' /\ (Busy(q)' => q = r)
  BY <1>1, <1>2 DEF Active, Busy
<1>4. Clean(snap') /\ \A c \in ckpts' : Clean(c)
  BY <1>1 DEF HonestInv
<1>5. \A q \in Run : pc'[q] \in {"unused", "launched"} => prow'[q] = None /\ drafts'[q] = {} /\ batch'[q] = {}
  BY <1>1, <1>2 DEF HonestInv
<1>6. row' # "completed"
  BY <1>1
<1> QED
  BY <1>3, <1>4, <1>5, <1>6, Zenon DEF HonestInv, Clean

LEMMA HonestInit == Init => HonestInv
<1> SUFFICES ASSUME Init PROVE HonestInv
  OBVIOUS
<1>1. \A r \in Run : /\ pc[r] = (IF r = 1 THEN "launched" ELSE "unused")
                    /\ prow[r] = None /\ drafts[r] = {} /\ batch[r] = {}
  BY DEF Init
<1>2. row # "completed" /\ ckpts = {}
  BY DEF Init
<1> QED
  BY <1>1, <1>2 DEF HonestInv, Busy, Active

(* Every step of a plan in series keeps the invariant. *)
LEMMA HonestNext ==
  ASSUME InSeries
  PROVE  TypeOK /\ TypeOK' /\ DagInv /\ HonestInv /\ [Next]_vars => HonestInv'
<1> SUFFICES ASSUME TypeOK, TypeOK', DagInv, HonestInv, [Next]_vars PROVE HonestInv'
  OBVIOUS
<1>1. ASSUME NEW r \in Run, Step(r) \/ Timeout(r) PROVE HonestInv'
  BY <1>1, HonestClaim, HonestRun, HonestPolicy, HonestGate, HonestResult, HonestPrepare, Zenon DEF Step
<1>2. ASSUME NEW r \in Run, Resume(r) PROVE HonestInv'
  BY <1>2, HonestResume
<1>3. ASSUME UNCHANGED <<pc, dag, staffed, batch, snap, prow, psnap, ckpts, drafts>>,
             row' = "completed" => row = "completed"
      PROVE  HonestInv'
  <2>1. \A r \in Run : (Active(r)' <=> Active(r)) /\ (Busy(r)' <=> Busy(r))
    BY <1>3 DEF Active, Busy
  <2>2. \A r \in Run : Active(r)' =>
          /\ OneByOne(pc'[r], dag'[r], batch'[r], staffed'[r])
          /\ Reported(pc'[r], prow'[r], psnap'[r])
          /\ \A c \in drafts'[r] : Clean(c)
    BY <1>3, <2>1 DEF HonestInv
  <2>3. /\ \A r, q \in Run : Busy(r)' /\ Busy(q)' => r = q
        /\ row' = "completed" => Honest(snap') /\ \A r \in Run : ~Busy(r)'
        /\ \A c \in ckpts' : Clean(c)
        /\ \A r \in Run : pc'[r] = "launched" => r = 1 \/ Clean(snap')
        /\ \A r \in Run : pc'[r] \in {"unused", "launched"} => prow'[r] = None /\ drafts'[r] = {} /\ batch'[r] = {}
    BY <1>3, <2>1 DEF HonestInv
  <2> QED
    BY <2>2, <2>3, Zenon DEF HonestInv, OneByOne, Reported, Clean, Honest, Of, Present
<1>4. ASSUME NEW n \in Node, Expire(n) \/ \E verdict \in {"approved", "denied"} : Decide(n, verdict)
      PROVE  HonestInv'
  BY <1>3, <1>4 DEF Expire, Decide, runVars, dbVars, storeVars
<1>5. CASE CancelRead \/ CancelWrite \/ CleanupStale \/ UNCHANGED vars
  BY <1>3, <1>5 DEF CancelRead, CancelWrite, CleanupStale, vars, runVars, dbVars, storeVars
<1> QED
  BY <1>1, <1>2, <1>4, <1>5, Zenon DEF Next

(* When the tasks of the plan follow one another, no policy denies and a   *)
(* client resumes only what has ended, a workflow that is reported         *)
(* completed without failed or skipped tasks has completed all of them,    *)
(* through crashes, timeouts, retries, alternatives, aborts and any number *)
(* of resumes.  A task that runs beside another one, or that a policy      *)
(* denied, would stay RUNNING in the DAG of a checkpoint, and a resumed    *)
(* run does not start it again.                                            *)
THEOREM CompletionsAreHonest == ASSUME InSeries PROVE Spec => []HonestCompletion
<1>1. HonestInv => HonestCompletion
  BY DEF HonestInv, HonestCompletion, Honest
<1>2. TypeOK /\ TypeOK' /\ DagInv /\ HonestInv /\ [Next]_vars => HonestInv'
  BY HonestNext
<1> QED
  BY <1>1, <1>2, TypeInit, TypeNext, DagInit, DagNext, HonestInit, PTL DEF Spec
=============================================================================
