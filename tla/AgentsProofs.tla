---------------------------- MODULE AgentsProofs ----------------------------
(***************************************************************************)
(* Proofs about Agents, for any agents, runs, budgets and learning rates.  *)
(***************************************************************************)
EXTENDS Agents, FiniteSetTheorems, WellFoundedInduction, TLAPS

(***************************************************************************)
(* Extremes of small sets, and the least number of a set.                  *)
(***************************************************************************)

LEMMA MaxPair ==
  ASSUME NEW x \in Int, NEW y \in Int
  PROVE  Max({x, y}) = IF x >= y THEN x ELSE y
BY DEF Max

LEMMA MinPair ==
  ASSUME NEW x \in Int, NEW y \in Int
  PROVE  Min({x, y}) = IF x <= y THEN x ELSE y
BY DEF Min

LEMMA LeastNat ==
  ASSUME NEW T \in SUBSET Nat, T # {}
  PROVE  \E x \in T : \A y \in T : x <= y
<1>1. PICK x \in T : \A y \in T : ~ (<<y, x>> \in OpToRel(<, Nat))
  BY WFMin, NatLessThanWellFounded
<1>2. \A y \in T : ~ (y < x)
  BY <1>1 DEF OpToRel
<1>3. QED
  BY <1>2

(***************************************************************************)
(* Sums over finite sets.  MapThenSumSet adds the elements one by one,     *)
(* along a recursive function on the subsets; the facts below are proved   *)
(* with a smallest counterexample.                                         *)
(***************************************************************************)

Pick(s) == CHOOSE x \in s : TRUE

(* F is the running sum of g over the subsets of S. *)
Adding(g, S, F) == [s \in SUBSET S |-> IF s = {} THEN 0 ELSE g[Pick(s)] + F[s \ {Pick(s)}]]
Adds(g, S, F) == F = Adding(g, S, F)

LEMMA PickIn ==
  ASSUME NEW s, s # {}
  PROVE  Pick(s) \in s
BY DEF Pick

LEMMA Smaller ==
  ASSUME NEW s, IsFiniteSet(s), s # {}
  PROVE  /\ IsFiniteSet(s \ {Pick(s)})
         /\ Cardinality(s) \in Nat /\ Cardinality(s \ {Pick(s)}) = Cardinality(s) - 1
         /\ Cardinality(s \ {Pick(s)}) \in Nat
BY PickIn, FS_RemoveElement, FS_CardinalityType

(* The running sum exists. *)
LEMMA SumExists ==
  ASSUME NEW S, IsFiniteSet(S), NEW g
  PROVE  \E F : Adds(g, S, F)
<1> DEFINE D(n) == {s \in SUBSET S : Cardinality(s) <= n}
           Good(n, f) == /\ f = [s \in D(n) |-> f[s]]
                         /\ \A s \in D(n) : f[s] = IF s = {} THEN 0 ELSE g[Pick(s)] + f[s \ {Pick(s)}]
           T == {n \in Nat : ~ \E f : Good(n, f)}
<1>1. \A s \in SUBSET S : IsFiniteSet(s) /\ Cardinality(s) \in Nat /\ Cardinality(s) <= Cardinality(S)
  BY FS_Subset, FS_CardinalityType
<1>2. T = {}
  <2> SUFFICES ASSUME T # {} PROVE FALSE
    OBVIOUS
  <2>1. PICK n \in T : \A m \in T : n <= m
    BY LeastNat
  <2>2. CASE n = 0
    <3> DEFINE f == [s \in D(0) |-> 0]
    <3>1. \A s \in D(0) : s = {}
      BY <1>1, FS_EmptySet
    <3>2. Good(0, f)
      BY <3>1
    <3>3. QED
      BY <2>1, <2>2, <3>2
  <2>3. CASE n > 0
    <3>0. T \subseteq Nat
      OBVIOUS
    <3>1. n - 1 \in Nat /\ n - 1 \notin T
      <4> HIDE DEF T
      <4>1. QED
        BY <2>1, <2>3, <3>0
    <3>2. PICK f : Good(n - 1, f)
      BY <3>1
    <3> DEFINE h == [s \in D(n) |-> IF s = {} THEN 0 ELSE g[Pick(s)] + f[s \ {Pick(s)}]]
    <3>3. \A s \in D(n - 1) : s \in D(n) /\ h[s] = f[s]
      BY <1>1, <2>1, <3>1, <3>2
    <3>4. \A s \in D(n) : s # {} => s \ {Pick(s)} \in D(n - 1)
      BY <1>1, <2>1, <2>3, Smaller
    <3>5. \A s \in D(n) : h[s] = IF s = {} THEN 0 ELSE g[Pick(s)] + h[s \ {Pick(s)}]
      BY <3>3, <3>4
    <3>6. h = [s \in D(n) |-> h[s]]
      OBVIOUS
    <3> HIDE DEF h
    <3>7. Good(n, h)
      BY <3>5, <3>6
    <3>8. QED
      BY <2>1, <3>7
  <2>4. QED
    BY <2>1, <2>2, <2>3
<1>3. PICK f : Good(Cardinality(S), f)
  BY <1>1, <1>2
<1>4. D(Cardinality(S)) = SUBSET S
  BY <1>1
<1> HIDE DEF D
<1>5. QED
  BY <1>3, <1>4 DEF Adds, Adding

LEMMA SumStep ==
  ASSUME NEW S, NEW g, NEW F, Adds(g, S, F)
  PROVE  /\ F[{}] = 0
         /\ \A s \in SUBSET S : s # {} => F[s] = g[Pick(s)] + F[s \ {Pick(s)}]
<1>1. \A s \in SUBSET S : F[s] = IF s = {} THEN 0 ELSE g[Pick(s)] + F[s \ {Pick(s)}]
  BY DEF Adds, Adding
<1>2. QED
  BY <1>1

(* The sum of natural numbers is one, and positive when there is a         *)
(* positive one among them.                                                *)
LEMMA SumPositive ==
  ASSUME NEW S, IsFiniteSet(S), NEW g, \A x \in S : g[x] \in Nat /\ g[x] > 0, NEW F, Adds(g, S, F)
  PROVE  \A s \in SUBSET S : F[s] \in Nat /\ (s # {} => F[s] > 0)
<1> DEFINE Good(s) == F[s] \in Nat /\ (s # {} => F[s] > 0)
           T == {Cardinality(s) : s \in {r \in SUBSET S : ~Good(r)}}
<1>1. \A s \in SUBSET S : IsFiniteSet(s) /\ Cardinality(s) \in Nat
  BY FS_Subset, FS_CardinalityType
<1>2. T = {}
  <2> SUFFICES ASSUME T # {} PROVE FALSE
    OBVIOUS
  <2>1. PICK n \in T : \A m \in T : n <= m
    BY <1>1, LeastNat
  <2>2. PICK s \in SUBSET S : ~Good(s) /\ Cardinality(s) = n
    BY <2>1
  <2>3. s # {}
    <3>1. Good({})
      BY SumStep
    <3> HIDE DEF Good
    <3>2. QED
      BY <2>2, <3>1
  <2>4. Pick(s) \in s /\ F[s] = g[Pick(s)] + F[s \ {Pick(s)}]
    BY <2>3, PickIn, SumStep
  <2>5. Cardinality(s \ {Pick(s)}) < n /\ Cardinality(s \ {Pick(s)}) \in Nat /\ n \in Nat
    BY <1>1, <2>2, <2>3, Smaller
  <2>6. Good(s \ {Pick(s)})
    <3> HIDE DEF Good
    <3>1. Cardinality(s \ {Pick(s)}) \notin T
      BY <2>1, <2>5
    <3>2. QED
      BY <3>1
  <2>7. QED
    BY <2>2, <2>3, <2>4, <2>6
<1>3. QED
  BY <1>2

(* Two families of integers that differ at i only have sums that differ by *)
(* as much.                                                                *)
LEMMA SumChange ==
  ASSUME NEW S, IsFiniteSet(S), NEW i \in S, NEW g, NEW h,
         \A x \in S : g[x] \in Int /\ h[x] \in Int, \A x \in S \ {i} : g[x] = h[x],
         NEW F, Adds(g, S, F), NEW G, Adds(h, S, G)
  PROVE  F[S] \in Int /\ G[S] = F[S] + (h[i] - g[i])
<1> DEFINE Good(s) == F[s] \in Int /\ G[s] = F[s] + (IF i \in s THEN h[i] - g[i] ELSE 0)
           T == {Cardinality(s) : s \in {r \in SUBSET S : ~Good(r)}}
<1>1. \A s \in SUBSET S : IsFiniteSet(s) /\ Cardinality(s) \in Nat
  BY FS_Subset, FS_CardinalityType
<1>2. T = {}
  <2> SUFFICES ASSUME T # {} PROVE FALSE
    OBVIOUS
  <2>1. PICK n \in T : \A m \in T : n <= m
    BY <1>1, LeastNat
  <2>2. PICK s \in SUBSET S : ~Good(s) /\ Cardinality(s) = n
    BY <2>1
  <2>3. s # {}
    <3>1. Good({})
      BY SumStep
    <3> HIDE DEF Good
    <3>2. QED
      BY <2>2, <3>1
  <2> DEFINE x == Pick(s)
             r == s \ {x}
  <2>4. x \in s /\ F[s] = g[x] + F[r] /\ G[s] = h[x] + G[r]
    BY <2>3, PickIn, SumStep
  <2>5. Cardinality(r) < n /\ Cardinality(r) \in Nat /\ n \in Nat
    BY <1>1, <2>2, <2>3, Smaller
  <2>6. Good(r)
    <3> HIDE DEF Good
    <3>1. Cardinality(r) \notin T
      BY <2>1, <2>5
    <3>2. QED
      BY <3>1
  <2>7. i \in s <=> i \in r \/ i = x
    BY <2>4
  <2>8. x = i => i \notin r
    OBVIOUS
  <2> HIDE DEF x, r
  <2>9. Good(s)
    <3>1. x \in S /\ g[x] \in Int /\ h[x] \in Int /\ g[i] \in Int /\ h[i] \in Int
      BY <2>4
    <3>2. CASE x = i
      BY <2>4, <2>6, <2>7, <2>8, <3>1, <3>2
    <3>3. CASE x # i
      BY <2>4, <2>6, <2>7, <3>1, <3>3
    <3>4. QED
      BY <3>2, <3>3
  <2>10. QED
    BY <2>2, <2>9
<1>3. Good(S)
  BY <1>2
<1>4. QED
  BY <1>3

(***************************************************************************)
(* The shape of the trust columns and of the runs' sessions.               *)
(***************************************************************************)

Scores == Floor..Ceiling
Pends == [base : Scores, new : Scores, n : Nat, dirty : BOOLEAN]
Sessions == [pc : {"idle", "select", "record", "verify", "next", "done", "failed"}, node : Nat,
             agent : [DOMAIN Nodes -> Agents \cup {None}], left : Nat, seen : [Agents -> Scores \cup {None}],
             pend : [Agents -> Pends \cup {None}], verdict : {None, "reviewed", "missed"}]

TrustTypes ==
    /\ trust \in [Agents -> Scores]
    /\ events \in [Agents -> Nat] /\ quiet \in [Agents -> Nat]
    /\ decay \in [Agents -> Scores \cup {None}]
    /\ run \in [Runs -> Sessions]

(* What the decay worker is about to write is no more than what the row    *)
(* has, and no run has an update of that row in its transaction.           *)
DecayOK ==
    \A a \in Agents : decay[a] # None => decay[a] <= trust[a] /\ \A s \in Runs : run[s].pend[a] = None

Price(s) == [i \in DOMAIN Nodes |-> IF run[s].agent[i] = None THEN 0 ELSE Cost[run[s].agent[i]]]

(* What is left of the budget is what the chosen agents do not cost, and   *)
(* nodes that are still to come have no agent.                             *)
BudgetOK ==
    \A s \in Runs :
        /\ \A F : Adds(Price(s), DOMAIN Nodes, F) => F[DOMAIN Nodes] = Budget - run[s].left
        /\ run[s].pc \in {"idle", "select"} =>
              /\ run[s].node \in DOMAIN Nodes
              /\ \A j \in DOMAIN Nodes : j >= run[s].node => run[s].agent[j] = None

AgentsInv == TrustTypes /\ DecayOK /\ BudgetOK /\ RejectionReviewed

(* What the assumption on the constants says of them, part by part. *)
LEMMA Scale == Floor \in Nat /\ Ceiling \in Nat /\ Floor <= Ceiling
BY AgentsAssumption

LEMMA KeptIs == Len(Kept) \in Nat /\ Len(Kept) > 0 /\ \A j \in 1..Len(Kept) : Kept[j] \in Nat /\ Kept[j] <= Top
BY AgentsAssumption

LEMMA AlphaIs == Len(Alpha) \in Nat /\ Len(Alpha) > 0 /\ \A j \in 1..Len(Alpha) : Alpha[j] \in Nat
BY AgentsAssumption

LEMMA CompositeIs == \A c \in Composites : c \in Nat
BY AgentsAssumption

LEMMA NodesAre ==
  Len(Nodes) \in Nat /\ Len(Nodes) > 0 /\ DOMAIN Nodes = 1..Len(Nodes) /\ IsFiniteSet(DOMAIN Nodes)
BY AgentsAssumption, FS_Interval

LEMMA ScoreRange ==
  /\ Scores \subseteq Nat /\ \A x \in Scores : x > 0
  /\ Start \in Scores /\ Floor \in Scores /\ Top \in Nat /\ Top > 0
BY AgentsAssumption DEF Scores

(* Decay never raises a score. *)
LEMMA DecayedIs ==
  ASSUME NEW x \in Nat, NEW k \in Nat
  PROVE  Decayed(x, k) \in Nat /\ Decayed(x, k) <= x
<1> DEFINE j == Min({k + 1, Len(Kept)})
           m == Kept[j]
<1>1. Len(Kept) \in Nat /\ Len(Kept) > 0
  BY KeptIs
<1>2. j \in 1..Len(Kept)
  BY <1>1, MinPair
<1>3. m \in Nat /\ m <= Top
  BY <1>2, KeptIs
<1>4. Top \in Nat /\ Top > 0
  BY ScoreRange
<1> HIDE DEF j, m
<1>5. x * m \in Nat /\ x * m <= x * Top
  BY <1>3, <1>4
<1>6. (x * m) \div Top \in Nat /\ (x * m) \div Top <= x
  <2> DEFINE y == x * m
             q == y \div Top
  <2>1. y \in Nat /\ y <= x * Top /\ q \in Int /\ q * Top <= y /\ y < (q + 1) * Top
    BY <1>4, <1>5
  <2> HIDE DEF y, q
  <2>2. q * Top <= x * Top
    BY <1>4, <2>1
  <2>3. q <= x /\ q >= 0
    BY <1>4, <2>1, <2>2
  <2>4. QED
    BY <2>1, <2>3 DEF q, y
<1>7. QED
  BY <1>6 DEF Decayed, j, m

LEMMA ClampIs ==
  ASSUME NEW x \in Int
  PROVE  Clamp(x) \in Scores
<1> DEFINE m == Min({x, Ceiling})
<1>1. m \in Int /\ m <= Ceiling
  BY Scale, MinPair
<1> HIDE DEF m
<1>2. Max({Floor, m}) = IF Floor >= m THEN Floor ELSE m
  BY <1>1, Scale, MaxPair
<1>3. Max({Floor, m}) \in Scores
  BY <1>1, <1>2, Scale DEF Scores
<1>4. QED
  BY <1>3 DEF Clamp, m

LEMMA UpdatedIs ==
  ASSUME NEW old \in Nat, NEW c \in Composites, NEW n \in Nat, NEW k \in Nat
  PROVE  Updated(old, c, n, k) \in Scores
<1> DEFINE j == Min({n + 1, Len(Alpha)})
           alpha == Alpha[j]
           d == Decayed(old, k)
<1>1. Len(Alpha) \in Nat /\ Len(Alpha) > 0
  BY AlphaIs
<1>2. j \in 1..Len(Alpha)
  BY <1>1, MinPair
<1>3. alpha \in Nat /\ c \in Nat /\ d \in Nat /\ Top \in Nat /\ Top > 0
  BY <1>2, AlphaIs, CompositeIs, DecayedIs, ScoreRange
<1> HIDE DEF j, alpha, d
<1>4. ((Top - alpha) * d + alpha * c) \div Top \in Int
  BY <1>3
<1>5. QED
  BY <1>4, ClampIs DEF Updated, j, alpha, d

LEMMA CountedIs ==
  ASSUME NEW n \in Nat
  PROVE  Counted(n) \in Nat
BY MinPair, AlphaIs DEF Counted

LEMMA FreshIs ==
  Fresh \in Sessions
BY AgentsAssumption DEF Fresh, Sessions

(* An empty plan costs nothing. *)
LEMMA NoPrice ==
  ASSUME NEW S, IsFiniteSet(S), NEW g, \A x \in S : g[x] = 0, NEW F, Adds(g, S, F)
  PROVE  F[S] = 0
<1> DEFINE T == {Cardinality(s) : s \in {r \in SUBSET S : F[r] # 0}}
<1>1. \A s \in SUBSET S : IsFiniteSet(s) /\ Cardinality(s) \in Nat
  BY FS_Subset, FS_CardinalityType
<1>2. T = {}
  <2> SUFFICES ASSUME T # {} PROVE FALSE
    OBVIOUS
  <2>1. PICK n \in T : \A m \in T : n <= m
    BY <1>1, LeastNat
  <2>2. PICK s \in SUBSET S : F[s] # 0 /\ Cardinality(s) = n
    BY <2>1
  <2>3. s # {}
    BY <2>2, SumStep
  <2>4. Pick(s) \in s /\ F[s] = g[Pick(s)] + F[s \ {Pick(s)}]
    BY <2>3, PickIn, SumStep
  <2>5. Cardinality(s \ {Pick(s)}) < n /\ Cardinality(s \ {Pick(s)}) \in Nat /\ n \in Nat
    BY <1>1, <2>2, <2>3, Smaller
  <2>6. F[s \ {Pick(s)}] = 0
    <3>1. Cardinality(s \ {Pick(s)}) \notin T
      BY <2>1, <2>5
    <3>2. QED
      BY <3>1
  <2>7. QED
    BY <2>2, <2>4, <2>6
<1>3. QED
  BY <1>2

LEMMA AgentsInvInit == Init => AgentsInv
<1> SUFFICES ASSUME Init PROVE AgentsInv
  OBVIOUS
<1>1. /\ trust = [a \in Agents |-> Start] /\ events = [a \in Agents |-> 0] /\ quiet = [a \in Agents |-> 0]
      /\ run = [s \in Runs |-> Fresh] /\ decay = [a \in Agents |-> None]
  BY DEF Init
<1>2. TrustTypes
  BY <1>1, FreshIs, ScoreRange DEF TrustTypes
<1>3. DecayOK
  BY <1>1 DEF DecayOK
<1>4. BudgetOK
  <2> SUFFICES ASSUME NEW s \in Runs
               PROVE  /\ \A F : Adds(Price(s), DOMAIN Nodes, F) => F[DOMAIN Nodes] = Budget - run[s].left
                      /\ run[s].node \in DOMAIN Nodes
                      /\ \A j \in DOMAIN Nodes : run[s].agent[j] = None
    BY DEF BudgetOK
  <2>1. run[s].left = Budget /\ run[s].node = 1 /\ \A j \in DOMAIN Nodes : run[s].agent[j] = None
    BY <1>1 DEF Fresh
  <2>2. \A j \in DOMAIN Nodes : Price(s)[j] = 0
    BY <2>1 DEF Price
  <2>3. IsFiniteSet(DOMAIN Nodes) /\ 1 \in DOMAIN Nodes /\ Budget \in Nat
    BY NodesAre, AgentsAssumption
  <2>4. ASSUME NEW F, Adds(Price(s), DOMAIN Nodes, F)
        PROVE  F[DOMAIN Nodes] = 0
    BY <2>2, <2>3, <2>4, NoPrice
  <2>5. QED
    BY <2>1, <2>3, <2>4
<1>5. RejectionReviewed
  BY <1>1, AgentsAssumption DEF RejectionReviewed, Fresh
<1>6. QED
  BY <1>2, <1>3, <1>4, <1>5 DEF AgentsInv

(***************************************************************************)
(* Steps that change one session only.                                     *)
(***************************************************************************)

(* The plan of session s adds up, as BudgetOK says of every session. *)
PlanOK(s) ==
    /\ \A F : Adds(Price(s), DOMAIN Nodes, F) => F[DOMAIN Nodes] = Budget - run[s].left
    /\ run[s].pc \in {"idle", "select"} =>
          /\ run[s].node \in DOMAIN Nodes
          /\ \A j \in DOMAIN Nodes : j >= run[s].node => run[s].agent[j] = None

LEMMA SessionKeeps ==
  ASSUME AgentsInv, NEW s \in Runs, NEW q \in Sessions, run' = [run EXCEPT ![s] = q],
         UNCHANGED <<trust, events, quiet, decay>>,
         \A a \in Agents : decay[a] # None => q.pend[a] = None,
         q.verdict # "missed", PlanOK(s)'
  PROVE  AgentsInv'
<1> USE DEF AgentsInv
<1>1. run' \in [Runs -> Sessions] /\ run'[s] = q /\ \A o \in Runs \ {s} : run'[o] = run[o]
  BY DEF TrustTypes
<1>2. TrustTypes'
  BY <1>1 DEF TrustTypes
<1>3. DecayOK'
  BY <1>1 DEF DecayOK
<1>4. RejectionReviewed'
  BY <1>1 DEF RejectionReviewed
<1>5. BudgetOK'
  <2>1. \A o \in Runs : PlanOK(o)'
    <3> SUFFICES ASSUME NEW o \in Runs, o # s PROVE PlanOK(o)'
      OBVIOUS
    <3>1. Price(o)' = Price(o)
      BY <1>1 DEF Price
    <3>2. PlanOK(o)
      BY DEF BudgetOK, PlanOK
    <3>3. QED
      BY <1>1, <3>1, <3>2 DEF PlanOK
  <2>2. QED
    BY <2>1 DEF BudgetOK, PlanOK
<1>6. QED
  BY <1>2, <1>3, <1>4, <1>5

(* A session that keeps its plan. *)
LEMMA PlanKept ==
  ASSUME AgentsInv, NEW s \in Runs, run'[s].agent = run[s].agent, run'[s].left = run[s].left,
         run'[s].pc \in {"idle", "select"} => run[s].pc \in {"idle", "select"} /\ run'[s].node = run[s].node
  PROVE  PlanOK(s)'
<1>1. Price(s)' = Price(s)
  BY DEF Price
<1>2. PlanOK(s)
  BY DEF AgentsInv, BudgetOK, PlanOK
<1>3. QED
  BY <1>1, <1>2 DEF PlanOK

(* A session that starts over. *)
LEMMA PlanEmpty ==
  ASSUME NEW s \in Runs, \A j \in DOMAIN Nodes : run'[s].agent[j] = None, run'[s].left = Budget,
         run'[s].pc \notin {"idle", "select"}
  PROVE  PlanOK(s)'
<1>1. \A j \in DOMAIN Nodes : (Price(s)')[j] = 0
  BY DEF Price
<1>2. ASSUME NEW F, Adds(Price(s)', DOMAIN Nodes, F)
      PROVE  F[DOMAIN Nodes] = 0
  BY <1>1, <1>2, NodesAre, NoPrice
<1>3. Budget \in Nat
  BY AgentsAssumption
<1>4. QED
  BY <1>2, <1>3 DEF PlanOK

LEMMA FailedKeeps ==
  ASSUME AgentsInv, NEW s \in Runs, run' = [run EXCEPT ![s] = [Fresh EXCEPT !.pc = "failed"]],
         UNCHANGED <<trust, events, quiet, decay>>
  PROVE  AgentsInv'
<1> DEFINE q == [Fresh EXCEPT !.pc = "failed"]
<1>1. /\ q.pc = "failed" /\ q.left = Budget /\ q.verdict = None
      /\ \A j \in DOMAIN Nodes : q.agent[j] = None
      /\ \A a \in Agents : q.pend[a] = None
  BY DEF Fresh
<1>2. q \in Sessions
  BY FreshIs DEF Sessions
<1>3. run'[s] = q
  BY DEF AgentsInv, TrustTypes
<1> HIDE DEF q
<1>4. PlanOK(s)'
  BY <1>1, <1>3, PlanEmpty
<1>5. q.verdict # "missed"
  BY <1>1, AgentsAssumption
<1>6. run' = [run EXCEPT ![s] = q]
  BY DEF q
<1>7. QED
  BY <1>1, <1>2, <1>4, <1>5, <1>6, SessionKeeps

LEMMA StartRunKeeps ==
  ASSUME AgentsInv, NEW s \in Runs, StartRun(s)
  PROVE  AgentsInv'
<1> DEFINE q == [run[s] EXCEPT !.pc = "select"]
<1>0. run[s] \in Sessions /\ run[s].verdict # "missed"
  BY DEF AgentsInv, TrustTypes, RejectionReviewed
<1>1. UNCHANGED <<trust, events, quiet, decay>> /\ run[s].pc = "idle" /\ run' = [run EXCEPT ![s] = q]
  BY DEF StartRun
<1>2. /\ q \in Sessions /\ q.pc = "select" /\ q.node = run[s].node /\ q.agent = run[s].agent
      /\ q.left = run[s].left /\ q.pend = run[s].pend /\ q.verdict = run[s].verdict
  BY <1>0 DEF Sessions
<1>3. run'[s] = q
  BY <1>1 DEF AgentsInv, TrustTypes
<1> HIDE DEF q
<1>4. PlanOK(s)'
  BY <1>1, <1>2, <1>3, PlanKept
<1>5. \A a \in Agents : decay[a] # None => q.pend[a] = None
  BY <1>2 DEF AgentsInv, DecayOK
<1>6. QED
  BY <1>0, <1>1, <1>2, <1>4, <1>5, SessionKeeps

LEMMA NextNodeKeeps ==
  ASSUME AgentsInv, NEW s \in Runs, NextNode(s)
  PROVE  AgentsInv'
<1> DEFINE q == [run[s] EXCEPT !.pc = "record", !.node = @ + 1, !.verdict = None]
<1>0. run[s] \in Sessions
  BY DEF AgentsInv, TrustTypes
<1>1. UNCHANGED <<trust, events, quiet, decay>> /\ run' = [run EXCEPT ![s] = q]
  BY DEF NextNode
<1>2. /\ q \in Sessions /\ q.pc = "record" /\ q.agent = run[s].agent
      /\ q.left = run[s].left /\ q.pend = run[s].pend /\ q.verdict = None
  <2> DEFINE k == run[s].node + 1
  <2>1. k \in Nat
    BY <1>0 DEF Sessions
  <2>2. q = [run[s] EXCEPT !.pc = "record", !.node = k, !.verdict = None]
    OBVIOUS
  <2> HIDE DEF k
  <2>3. QED
    BY <1>0, <2>1, <2>2 DEF Sessions
<1>3. run'[s] = q
  BY <1>1 DEF AgentsInv, TrustTypes
<1> HIDE DEF q
<1>4. PlanOK(s)'
  BY <1>1, <1>2, <1>3, PlanKept
<1>5. \A a \in Agents : decay[a] # None => q.pend[a] = None
  BY <1>2 DEF AgentsInv, DecayOK
<1>6. q.verdict # "missed"
  BY <1>2, AgentsAssumption
<1>7. QED
  BY <1>1, <1>2, <1>4, <1>5, <1>6, SessionKeeps

LEMMA FailRunKeeps ==
  ASSUME AgentsInv, NEW s \in Runs, FailRun(s) \/ DeadlockVictim(s)
  PROVE  AgentsInv'
<1>1. UNCHANGED <<trust, events, quiet, decay>> /\ run' = [run EXCEPT ![s] = [Fresh EXCEPT !.pc = "failed"]]
  BY DEF FailRun, DeadlockVictim, FailedRun
<1>2. QED
  BY <1>1, FailedKeeps

(* What a session sees of a score is a score. *)
LEMMA ViewIs ==
  ASSUME TrustTypes, NEW s \in Runs, NEW a \in Agents
  PROVE  View(s, a) \in Scores
BY DEF TrustTypes, View, Sessions

LEMMA SelectAgentKeeps ==
  ASSUME AgentsInv, NEW s \in Runs, SelectAgent(s)
  PROVE  AgentsInv'
<1> DEFINE i == run[s].node
           C == Candidates(s, Nodes[i])
<1>0. run[s] \in Sessions /\ run[s].verdict # "missed" /\ run[s].pc = "select"
  BY DEF AgentsInv, TrustTypes, RejectionReviewed, SelectAgent
<1>1. UNCHANGED <<trust, events, quiet, decay>>
  BY DEF SelectAgent
<1>2. CASE run' = [run EXCEPT ![s] = [Fresh EXCEPT !.pc = "failed"]]
  BY <1>1, <1>2, FailedKeeps
<1>3. ASSUME NEW a \in C,
             run' = [run EXCEPT ![s].agent[i] = a, ![s].left = Remaining(s, a),
                                ![s].seen[a] = View(s, a),
                                ![s].node = IF i = Len(Nodes) THEN 1 ELSE i + 1,
                                ![s].pc = IF i = Len(Nodes) THEN "record" ELSE "select"]
      PROVE  AgentsInv'
  <2>1. a \in Agents /\ Cost[a] \in Nat /\ run[s].left \in Nat /\ Cost[a] <= run[s].left
    BY <1>0, AgentsAssumption DEF Candidates, Sessions
  <2> DEFINE left == Remaining(s, a)
             v == View(s, a)
             k == IF i = Len(Nodes) THEN 1 ELSE i + 1
             p == IF i = Len(Nodes) THEN "record" ELSE "select"
             ag == [run[s].agent EXCEPT ![i] = a]
             se == [run[s].seen EXCEPT ![a] = v]
             q == [run[s] EXCEPT !.agent = ag, !.left = left, !.seen = se, !.node = k, !.pc = p]
  <2>2. left \in Nat /\ left = run[s].left - Cost[a]
    BY <2>1 DEF Remaining
  <2>3. v \in Scores
    BY <2>1, ViewIs DEF AgentsInv
  <2>4. i \in DOMAIN Nodes /\ \A j \in DOMAIN Nodes : j >= i => run[s].agent[j] = None
    BY <1>0 DEF AgentsInv, BudgetOK
  <2>5. k \in Nat /\ (p = "select" => k \in DOMAIN Nodes /\ k = i + 1) /\ p \in {"select", "record"}
    BY <2>4, NodesAre
  <2>6. run' = [run EXCEPT ![s] = q]
    BY <1>0, <1>3, <2>1 DEF Sessions, AgentsInv, TrustTypes
  <2>7. ag \in [DOMAIN Nodes -> Agents \cup {None}] /\ se \in [Agents -> Scores \cup {None}]
    BY <1>0, <2>1, <2>3 DEF Sessions
  <2>8. ag[i] = a /\ \A j \in DOMAIN Nodes \ {i} : ag[j] = run[s].agent[j]
    BY <1>0, <2>4 DEF Sessions
  <2> HIDE DEF left, v, k, p, ag, se
  <2>9. /\ q \in Sessions /\ q.agent = ag /\ q.left = left /\ q.node = k /\ q.pc = p
        /\ q.pend = run[s].pend /\ q.verdict = run[s].verdict
    BY <1>0, <2>2, <2>5, <2>7 DEF Sessions
  <2> HIDE DEF q
  <2>10. run'[s] = q
    BY <2>6 DEF AgentsInv, TrustTypes
  <2>11. PlanOK(s)'
    <3> DEFINE g == Price(s)
               h == Price(s)'
    <3>1. \A j \in DOMAIN Nodes : h[j] = IF ag[j] = None THEN 0 ELSE Cost[ag[j]]
      BY <2>9, <2>10 DEF Price
    <3>2. \A j \in DOMAIN Nodes : g[j] = IF run[s].agent[j] = None THEN 0 ELSE Cost[run[s].agent[j]]
      BY DEF Price
    <3>3. g[i] = 0 /\ h[i] = Cost[a]
      <4>1. a # None
        BY <2>1, AgentsAssumption
      <4>2. run[s].agent[i] = None
        BY <2>4, NodesAre
      <4>3. QED
        BY <2>4, <2>8, <3>1, <3>2, <4>1, <4>2
    <3>4. \A j \in DOMAIN Nodes \ {i} : g[j] = h[j]
      BY <2>8, <3>1, <3>2
    <3>5. \A j \in DOMAIN Nodes : g[j] \in Int /\ h[j] \in Int
      <4>1. \A b \in Agents : Cost[b] \in Int
        BY AgentsAssumption
      <4>2. run[s].agent \in [DOMAIN Nodes -> Agents \cup {None}]
        BY <1>0 DEF Sessions
      <4>3. QED
        BY <2>7, <3>1, <3>2, <4>1, <4>2
    <3> HIDE DEF g, h
    <3>6. PICK F : Adds(g, DOMAIN Nodes, F)
      BY NodesAre, SumExists
    <3>7. F[DOMAIN Nodes] = Budget - run[s].left
      BY <3>6 DEF AgentsInv, BudgetOK, g
    <3>8. ASSUME NEW G, Adds(h, DOMAIN Nodes, G)
          PROVE  G[DOMAIN Nodes] = Budget - left
      <4>0. IsFiniteSet(DOMAIN Nodes) /\ i \in DOMAIN Nodes
        BY <2>4, NodesAre
      <4>1. G[DOMAIN Nodes] = F[DOMAIN Nodes] + (h[i] - g[i])
        <5> HIDE DEF i
        <5>1. QED
          BY <3>4, <3>5, <3>6, <3>8, <4>0, SumChange
      <4>2. Budget \in Nat
        BY AgentsAssumption
      <4>3. QED
        BY <2>1, <2>2, <3>3, <3>7, <4>1, <4>2
    <3>9. p = "select" => k \in DOMAIN Nodes /\ \A j \in DOMAIN Nodes : j >= k => ag[j] = None
      <4> SUFFICES ASSUME p = "select", NEW j \in DOMAIN Nodes, j >= k
                   PROVE  ag[j] = None
        BY <2>5
      <4>1. j >= i /\ j # i
        BY <2>4, <2>5, NodesAre
      <4>2. QED
        BY <2>4, <2>8, <4>1
    <3>10. \A G : Adds(Price(s)', DOMAIN Nodes, G) => G[DOMAIN Nodes] = Budget - left
      BY <3>8 DEF h
    <3>11. QED
      BY <2>5, <2>9, <2>10, <3>9, <3>10 DEF PlanOK
  <2>12. \A b \in Agents : decay[b] # None => q.pend[b] = None
    BY <2>9 DEF AgentsInv, DecayOK
  <2>13. QED
    BY <1>0, <1>1, <2>6, <2>9, <2>11, <2>12, SessionKeeps
<1>4. QED
  BY <1>2, <1>3 DEF SelectAgent

LEMMA RecordTrustKeeps ==
  ASSUME AgentsInv, NEW s \in Runs, NEW c \in Composites, RecordTrust(s, c)
  PROVE  AgentsInv'
<1> DEFINE i == run[s].node
           who == run[s].agent[i]
           own == run[s].pend[who]
           old == OldTrust(s, who)
           new == IF own = None THEN Updated(old, c, events[who], quiet[who])
                  ELSE Updated(old, c, events[who] + own.n, 0)
           w == IF own = None THEN [base |-> old, new |-> new, n |-> 1, dirty |-> old # new]
                ELSE [own EXCEPT !.new = new, !.n = @ + 1, !.dirty = @ \/ old # new]
           p == IF Nodes[i] \in HighRisk THEN "verify" ELSE "next"
           se == [run[s].seen EXCEPT ![who] = new]
           pe == [run[s].pend EXCEPT ![who] = w]
           q == [run[s] EXCEPT !.seen = se, !.pend = pe, !.pc = p]
<1>0. run[s] \in Sessions /\ run[s].verdict # "missed" /\ run[s].pc = "record"
  BY DEF AgentsInv, TrustTypes, RejectionReviewed, RecordTrust
<1>1. UNCHANGED <<trust, events, quiet, decay>> /\ decay[who] = None
  BY DEF RecordTrust, Held
<1>2. run' = [run EXCEPT ![s].seen[who] = new, ![s].pend[who] = w, ![s].pc = p]
  BY DEF RecordTrust
<1>3. who \in Agents => new \in Scores /\ w \in Pends
  <2> SUFFICES ASSUME who \in Agents PROVE new \in Scores /\ w \in Pends
    OBVIOUS
  <2> HIDE DEF who
  <2>1. old \in Scores /\ old \in Nat
    BY ViewIs, ScoreRange DEF OldTrust, AgentsInv
  <2>2. events[who] \in Nat /\ quiet[who] \in Nat /\ own \in Pends \cup {None}
    BY <1>0 DEF AgentsInv, TrustTypes, Sessions
  <2> HIDE DEF old, own
  <2>3. CASE own = None
    <3>1. new \in Scores
      BY <2>1, <2>2, <2>3, UpdatedIs
    <3> HIDE DEF new
    <3>2. QED
      BY <2>1, <2>3, <3>1 DEF Pends
  <2>4. CASE own # None
    <3>1. own.n \in Nat /\ own.base \in Scores /\ own.dirty \in BOOLEAN /\ own \in Pends
      BY <2>2, <2>4 DEF Pends
    <3>2. new \in Scores
      BY <2>1, <2>2, <2>4, <3>1, UpdatedIs
    <3> DEFINE n2 == own.n + 1
               d2 == own.dirty \/ old # new
    <3>3. n2 \in Nat /\ d2 \in BOOLEAN
      BY <3>1
    <3>4. w = [own EXCEPT !.new = new, !.n = n2, !.dirty = d2]
      BY <2>4
    <3> HIDE DEF new, n2, d2, w
    <3>5. w \in Pends
      BY <3>1, <3>2, <3>3, <3>4 DEF Pends
    <3>6. QED
      BY <3>2, <3>5
  <2>5. QED
    BY <2>3, <2>4
<1>4. p \in {"verify", "next"}
  OBVIOUS
<1> HIDE DEF new, w, p, own, old
<1>5. run' = [run EXCEPT ![s] = q]
  BY <1>0, <1>2 DEF Sessions, AgentsInv, TrustTypes
<1>6. se \in [Agents -> Scores \cup {None}] /\ pe \in [Agents -> Pends \cup {None}]
  BY <1>0, <1>3 DEF Sessions
<1>7. \A a \in Agents : decay[a] # None => pe[a] = None
  <2> SUFFICES ASSUME NEW a \in Agents, decay[a] # None PROVE pe[a] = None
    OBVIOUS
  <2>1. a # who /\ run[s].pend[a] = None
    BY <1>1 DEF AgentsInv, DecayOK
  <2>2. QED
    BY <1>0, <2>1 DEF Sessions
<1> HIDE DEF se, pe, who
<1>8. /\ q \in Sessions /\ q.pc = p /\ q.agent = run[s].agent
      /\ q.left = run[s].left /\ q.pend = pe /\ q.verdict = run[s].verdict
  BY <1>0, <1>4, <1>6 DEF Sessions
<1> HIDE DEF q
<1>9. run'[s] = q
  BY <1>5 DEF AgentsInv, TrustTypes
<1>10. PlanOK(s)'
  BY <1>4, <1>8, <1>9, PlanKept
<1>11. QED
  BY <1>0, <1>1, <1>5, <1>7, <1>8, <1>10, SessionKeeps

(* The weight of voters is positive as soon as there is one, for no score  *)
(* is zero.                                                                *)
LEMMA WeightIs ==
  ASSUME TrustTypes, NEW s \in Runs, NEW votes, DOMAIN votes \subseteq Agents, NEW kinds
  PROVE  LET V == {a \in DOMAIN votes : votes[a] \in kinds}
         IN  /\ Weight(s, votes, kinds) \in Nat
             /\ V = {} => Weight(s, votes, kinds) = 0
             /\ V # {} => Weight(s, votes, kinds) > 0
<1> DEFINE V == {a \in DOMAIN votes : votes[a] \in kinds}
           g == [a \in V |-> View(s, a)]
           Step(F) == [r \in SUBSET V |-> IF r = {} THEN 0 ELSE View(s, CHOOSE x \in r : TRUE) + F[r \ {CHOOSE x \in r : TRUE}]]
           W == CHOOSE F : F = Step(F)
<1>1. Weight(s, votes, kinds) = W[V]
  BY DEF Weight, MapThenSumSet, MapThenFoldSet
<1>2. IsFiniteSet(V)
  BY FS_Subset, AgentsAssumption
<1>3. ASSUME NEW F PROVE Step(F) = Adding(g, V, F)
  <2>1. \A r \in SUBSET V : r # {} => View(s, Pick(r)) = g[Pick(r)]
    BY PickIn
  <2> HIDE DEF V, g
  <2>2. QED
    BY <2>1 DEF Adding, Pick
<1>4. \A a \in V : g[a] \in Nat /\ g[a] > 0
  BY ViewIs, ScoreRange
<1> HIDE DEF V, g, Step
<1>5. PICK F : Adds(g, V, F)
  BY <1>2, SumExists
<1>6. \E f : f = Step(f)
  BY <1>3, <1>5 DEF Adds
<1>7. W = Step(W)
  BY <1>6
<1> HIDE DEF W
<1>8. Adds(g, V, W)
  BY <1>3, <1>7 DEF Adds
<1>9. W[V] \in Nat /\ (V # {} => W[V] > 0) /\ (V = {} => W[V] = 0)
  <2>1. W[V] \in Nat /\ (V # {} => W[V] > 0)
    BY <1>2, <1>4, <1>8, SumPositive
  <2>2. V = {} => W[V] = 0
    BY <1>8, SumStep
  <2>3. QED
    BY <2>1, <2>2
<1>10. QED
  BY <1>1, <1>9 DEF V

(* A unanimous no leaves no confidence: 30, the least there is. *)
LEMMA UnanimousNo ==
  ASSUME TrustTypes, NEW s \in Runs, NEW S \in SUBSET Agents, S # {}, NEW votes \in [S -> Verdicts],
         \A a \in S : votes[a] = "no"
  PROVE  Confidence(100, Agreement(s, votes)) < 40
<1>1. DOMAIN votes = S
  OBVIOUS
<1>2. {a \in DOMAIN votes : votes[a] \in {"yes", "no"}} # {} /\ {a \in DOMAIN votes : votes[a] \in {"yes"}} = {}
  BY <1>1
<1> DEFINE total == Weight(s, votes, {"yes", "no"})
           yes == Weight(s, votes, {"yes"})
<1>3. total \in Nat /\ total > 0
  BY <1>1, <1>2, WeightIs
<1>4. yes = 0
  BY <1>1, <1>2, WeightIs
<1>5. Agreement(s, votes) = IF total = 0 THEN 100 ELSE (100 * yes) \div total
  BY DEF Agreement
<1> HIDE DEF total, yes
<1>6. Agreement(s, votes) = 0
  BY <1>3, <1>4, <1>5
<1>7. Confidence(100, 0) = Max({30, 0})
  <2>1. (100 * 0) \div 100 = 0
    OBVIOUS
  <2>2. QED
    BY <2>1 DEF Confidence
<1>8. Max({30, 0}) = 30
  BY MaxPair
<1>9. QED
  BY <1>6, <1>7, <1>8

LEMMA VerifyKeeps ==
  ASSUME AgentsInv, NEW s \in Runs, Verify(s)
  PROVE  AgentsInv'
<1>0. run[s] \in Sessions /\ TrustTypes
  BY DEF AgentsInv, TrustTypes
<1>1. UNCHANGED <<trust, events, quiet, decay>>
  BY DEF Verify
<1>2. PICK S \in VerifierSets : \E votes \in [S -> Verdicts] :
          run' = [run EXCEPT ![s].pc = "next",
                             ![s].verdict = IF S # {} /\ \A a \in S : votes[a] = "no"
                                            THEN (IF Confidence(100, Agreement(s, votes)) < 40 THEN "reviewed" ELSE "missed")
                                            ELSE None]
  BY DEF Verify
<1>3. PICK votes \in [S -> Verdicts] :
          run' = [run EXCEPT ![s].pc = "next",
                             ![s].verdict = IF S # {} /\ \A a \in S : votes[a] = "no"
                                            THEN (IF Confidence(100, Agreement(s, votes)) < 40 THEN "reviewed" ELSE "missed")
                                            ELSE None]
  BY <1>2
<1>4. S \in SUBSET Agents
  BY DEF VerifierSets
<1> DEFINE v == IF S # {} /\ \A a \in S : votes[a] = "no"
                THEN (IF Confidence(100, Agreement(s, votes)) < 40 THEN "reviewed" ELSE "missed")
                ELSE None
           q == [run[s] EXCEPT !.pc = "next", !.verdict = v]
<1>5. v \in {None, "reviewed"}
  BY <1>0, <1>4, UnanimousNo
<1>6. run' = [run EXCEPT ![s] = q]
  BY <1>3
<1> HIDE DEF v
<1>7. /\ q \in Sessions /\ q.pc = "next" /\ q.agent = run[s].agent
      /\ q.left = run[s].left /\ q.pend = run[s].pend /\ q.verdict = v
  BY <1>0, <1>5 DEF Sessions
<1> HIDE DEF q
<1>8. run'[s] = q
  BY <1>6 DEF AgentsInv, TrustTypes
<1>9. PlanOK(s)'
  BY <1>7, <1>8, PlanKept
<1>10. \A a \in Agents : decay[a] # None => q.pend[a] = None
  BY <1>7 DEF AgentsInv, DecayOK
<1>11. q.verdict # "missed"
  BY <1>5, <1>7, AgentsAssumption
<1>12. QED
  BY <1>1, <1>6, <1>7, <1>9, <1>10, <1>11, SessionKeeps

(***************************************************************************)
(* Steps that change scores.                                               *)
(***************************************************************************)

LEMMA CommitRunKeeps ==
  ASSUME AgentsInv, NEW s \in Runs, CommitRun(s)
  PROVE  AgentsInv'
<1> DEFINE pend == run[s].pend
           none == [a \in Agents |-> None]
           q1 == [Fresh EXCEPT !.pc = "done"]
           q2 == [run[s] EXCEPT !.pc = "record", !.node = @ + 1, !.verdict = None, !.pend = none]
           q == IF run[s].node = Len(Nodes) THEN q1 ELSE q2
<1>0. run[s] \in Sessions /\ run[s].pc = "next"
  BY DEF AgentsInv, TrustTypes, CommitRun
<1>1. /\ trust' = [a \in Agents |-> Flushed(a, pend[a])]
      /\ events' = [a \in Agents |-> IF pend[a] = None THEN events[a] ELSE Counted(events[a] + pend[a].n)]
      /\ quiet' = [a \in Agents |-> IF pend[a] = None THEN quiet[a] ELSE 0]
      /\ run' = [run EXCEPT ![s] = q]
      /\ decay' = decay
  BY DEF CommitRun
<1>2. \A a \in Agents : pend[a] # None => pend[a].new \in Scores /\ pend[a].n \in Nat
  BY <1>0 DEF Sessions, Pends
<1>3. \A a \in Agents : trust'[a] \in Scores /\ (pend[a] = None => trust'[a] = trust[a])
  BY <1>1, <1>2 DEF Flushed, AgentsInv, TrustTypes
<1>4. trust' \in [Agents -> Scores]
  BY <1>1, <1>3
<1>5. events' \in [Agents -> Nat] /\ quiet' \in [Agents -> Nat]
  <2>1. \A a \in Agents : events[a] \in Nat /\ quiet[a] \in Nat
    BY DEF AgentsInv, TrustTypes
  <2>2. \A a \in Agents : pend[a] # None => Counted(events[a] + pend[a].n) \in Nat
    BY <1>2, <2>1, CountedIs
  <2> HIDE DEF pend
  <2>3. QED
    BY <1>1, <2>1, <2>2
<1>6. /\ q1 \in Sessions /\ q1.pc = "done" /\ q1.left = Budget /\ q1.verdict = None
      /\ \A j \in DOMAIN Nodes : q1.agent[j] = None
      /\ \A a \in Agents : q1.pend[a] = None
  BY FreshIs DEF Fresh, Sessions
<1>7. /\ q2 \in Sessions /\ q2.pc = "record" /\ q2.agent = run[s].agent /\ q2.left = run[s].left
      /\ q2.verdict = None /\ \A a \in Agents : q2.pend[a] = None
  <2> DEFINE k == run[s].node + 1
  <2>1. k \in Nat /\ none \in [Agents -> Pends \cup {None}] /\ \A a \in Agents : none[a] = None
    BY <1>0 DEF Sessions
  <2>2. q2 = [run[s] EXCEPT !.pc = "record", !.node = k, !.verdict = None, !.pend = none]
    OBVIOUS
  <2> HIDE DEF k, none, q2
  <2>3. q2 \in Sessions /\ q2.pend = none
    BY <1>0, <2>1, <2>2 DEF Sessions
  <2>4. q2.pc = "record" /\ q2.agent = run[s].agent /\ q2.left = run[s].left /\ q2.verdict = None
    BY <1>0, <2>1, <2>2 DEF Sessions
  <2>5. QED
    BY <2>1, <2>3, <2>4
<1> HIDE DEF q1, q2, pend
<1>8. q \in Sessions /\ q.verdict = None /\ \A a \in Agents : q.pend[a] = None
  BY <1>6, <1>7
<1>9. run'[s] = q /\ run' \in [Runs -> Sessions] /\ \A o \in Runs \ {s} : run'[o] = run[o]
  BY <1>1, <1>8 DEF AgentsInv, TrustTypes
<1>10. TrustTypes'
  BY <1>1, <1>4, <1>5, <1>9 DEF AgentsInv, TrustTypes
<1>11. DecayOK'
  <2> SUFFICES ASSUME NEW a \in Agents, decay[a] # None
               PROVE  decay[a] <= trust'[a] /\ \A o \in Runs : run'[o].pend[a] = None
    BY <1>1 DEF DecayOK
  <2>1. decay[a] <= trust[a] /\ \A o \in Runs : run[o].pend[a] = None
    BY DEF AgentsInv, DecayOK
  <2>2. trust'[a] = trust[a]
    BY <1>3, <2>1 DEF pend
  <2>3. QED
    BY <1>8, <1>9, <2>1, <2>2
<1>12. RejectionReviewed'
  BY <1>8, <1>9, AgentsAssumption DEF AgentsInv, RejectionReviewed
<1>13. \A o \in Runs : PlanOK(o)'
  <2>1. PlanOK(s)'
    <3>1. CASE run[s].node = Len(Nodes)
      BY <1>6, <1>9, <3>1, PlanEmpty
    <3>2. CASE run[s].node # Len(Nodes)
      BY <1>7, <1>9, <3>2, PlanKept
    <3>3. QED
      BY <3>1, <3>2
  <2>2. ASSUME NEW o \in Runs, o # s PROVE PlanOK(o)'
    <3>1. run'[o] = run[o]
      BY <1>9, <2>2
    <3>2. QED
      BY <3>1, PlanKept
  <2>3. QED
    BY <2>1, <2>2
<1>14. BudgetOK'
  BY <1>13 DEF BudgetOK, PlanOK
<1>15. QED
  BY <1>10, <1>11, <1>12, <1>14 DEF AgentsInv

(* Sessions untouched: their plans and verdicts stay. *)
LEMMA RunsUntouched ==
  ASSUME AgentsInv, run' = run
  PROVE  BudgetOK' /\ RejectionReviewed'
<1>1. \A o \in Runs : PlanOK(o)'
  BY PlanKept
<1>2. QED
  BY <1>1 DEF BudgetOK, PlanOK, AgentsInv, RejectionReviewed

LEMMA RecordDirectKeeps ==
  ASSUME AgentsInv, NEW a \in Agents, NEW c \in Composites, RecordDirect(a, c)
  PROVE  AgentsInv'
<1> DEFINE v == Updated(trust[a], c, events[a], quiet[a])
           k == Counted(events[a] + 1)
<1>1. /\ run' = run /\ decay' = decay /\ decay[a] = None
      /\ trust' = [trust EXCEPT ![a] = v] /\ events' = [events EXCEPT ![a] = k] /\ quiet' = [quiet EXCEPT ![a] = 0]
  BY DEF RecordDirect, Held
<1>2. trust[a] \in Nat /\ events[a] \in Nat /\ quiet[a] \in Nat
  BY ScoreRange DEF AgentsInv, TrustTypes
<1>3. v \in Scores /\ k \in Nat
  BY <1>2, UpdatedIs, CountedIs
<1> HIDE DEF v, k
<1>4. TrustTypes'
  BY <1>1, <1>3 DEF AgentsInv, TrustTypes
<1>5. DecayOK'
  BY <1>1 DEF AgentsInv, TrustTypes, DecayOK
<1>6. QED
  BY <1>1, <1>4, <1>5, RunsUntouched DEF AgentsInv

LEMMA TickKeeps ==
  ASSUME AgentsInv, Tick
  PROVE  AgentsInv'
<1>1. /\ UNCHANGED <<trust, events, run, decay>>
      /\ quiet' = [a \in Agents |-> IF events[a] > 0 THEN Min({quiet[a] + 1, Len(Kept) - 1}) ELSE quiet[a]]
  BY DEF Tick
<1>2. \A a \in Agents : quiet[a] \in Nat /\ Min({quiet[a] + 1, Len(Kept) - 1}) \in Nat
  <2> SUFFICES ASSUME NEW a \in Agents PROVE quiet[a] \in Nat /\ Min({quiet[a] + 1, Len(Kept) - 1}) \in Nat
    OBVIOUS
  <2>1. quiet[a] \in Nat /\ quiet[a] + 1 \in Nat /\ Len(Kept) - 1 \in Nat
    BY KeptIs DEF AgentsInv, TrustTypes
  <2>2. QED
    BY <2>1, MinPair
<1>3. quiet' \in [Agents -> Nat]
  BY <1>1, <1>2
<1>4. TrustTypes' /\ DecayOK'
  BY <1>1, <1>3 DEF AgentsInv, TrustTypes, DecayOK
<1>5. QED
  BY <1>1, <1>4, RunsUntouched DEF AgentsInv

LEMMA DecayBeginKeeps ==
  ASSUME AgentsInv, DecayBegin
  PROVE  AgentsInv'
<1> DEFINE d(a) == Max({Floor, Decayed(trust[a], quiet[a])})
<1>1. /\ UNCHANGED <<trust, events, quiet, run>>
      /\ decay = [a \in Agents |-> None]
      /\ decay' = [a \in Agents |-> IF a \in Decayable THEN d(a) ELSE None]
  BY DEF DecayBegin
<1>2. \A a \in Agents : d(a) \in Scores /\ d(a) <= trust[a]
  <2> SUFFICES ASSUME NEW a \in Agents PROVE d(a) \in Scores /\ d(a) <= trust[a]
    OBVIOUS
  <2>1. trust[a] \in Scores /\ trust[a] \in Nat /\ quiet[a] \in Nat
    BY ScoreRange DEF AgentsInv, TrustTypes
  <2> DEFINE x == Decayed(trust[a], quiet[a])
  <2>2. x \in Nat /\ x <= trust[a]
    BY <2>1, DecayedIs
  <2> HIDE DEF x
  <2>3. Max({Floor, x}) = IF Floor >= x THEN Floor ELSE x
    BY <2>2, Scale, MaxPair
  <2>4. Max({Floor, x}) \in Scores /\ Max({Floor, x}) <= trust[a]
    BY <2>1, <2>2, <2>3, Scale DEF Scores
  <2>5. QED
    BY <2>4 DEF x
<1>3. \A a \in Decayable : \A s \in Runs : run[s].pend[a] = None
  <2> SUFFICES ASSUME NEW a \in Decayable, NEW s \in Runs PROVE run[s].pend[a] = None
    OBVIOUS
  <2>1. ~Held(None, a)
    BY DEF Decayable
  <2>2. CASE s # None
    BY <2>1, <2>2 DEF Held
  <2>3. CASE s = None
    BY <2>3, AgentsAssumption
  <2>4. QED
    BY <2>2, <2>3
<1> HIDE DEF d
<1>4. TrustTypes'
  BY <1>1, <1>2 DEF AgentsInv, TrustTypes
<1>5. DecayOK'
  BY <1>1, <1>2, <1>3 DEF AgentsInv, DecayOK
<1>6. QED
  BY <1>1, <1>4, <1>5, RunsUntouched DEF AgentsInv

LEMMA DecayCommitKeeps ==
  ASSUME AgentsInv, DecayCommit
  PROVE  AgentsInv' /\ \A a \in Agents : trust'[a] <= trust[a]
<1>1. /\ UNCHANGED <<events, quiet, run>>
      /\ trust' = [a \in Agents |-> IF decay[a] # None THEN decay[a] ELSE trust[a]]
      /\ decay' = [a \in Agents |-> None]
  BY DEF DecayCommit
<1>2. TrustTypes' /\ DecayOK'
  BY <1>1 DEF AgentsInv, TrustTypes, DecayOK
<1>3. \A a \in Agents : trust[a] \in Nat
  BY ScoreRange DEF AgentsInv, TrustTypes
<1>4. QED
  BY <1>1, <1>2, <1>3, RunsUntouched DEF AgentsInv, DecayOK

LEMMA OthersKeep ==
  ASSUME AgentsInv, UNCHANGED <<trust, events, quiet, run, decay>>
  PROVE  AgentsInv'
<1>1. TrustTypes' /\ DecayOK'
  BY DEF AgentsInv, TrustTypes, DecayOK
<1>2. QED
  BY <1>1, RunsUntouched DEF AgentsInv

(* The steps that write scores or sessions, and what the others leave.     *)
LEMMA StepCases ==
  ASSUME Next
  PROVE  \/ \E s \in Runs : \/ StartRun(s) \/ SelectAgent(s) \/ CommitRun(s) \/ NextNode(s) \/ Verify(s)
                            \/ DeadlockVictim(s) \/ FailRun(s)
                            \/ \E c \in Composites : RecordTrust(s, c)
         \/ \E a \in Agents, c \in Composites : RecordDirect(a, c)
         \/ Tick \/ DecayBegin \/ DecayCommit
         \/ UNCHANGED trustvars
<1>1. ASSUME NEW a, NEW st, Deactivate(a) \/ FailuresExpire(a) \/ GoDown(a) \/ ComeUp(a) \/ PatchStatus(a, st)
      PROVE  UNCHANGED trustvars
  BY <1>1, Zenon DEF Deactivate, FailuresExpire, GoDown, ComeUp, PatchStatus
<1>2. ASSUME NEW c, NEW a, Probe(c, a)
      PROVE  UNCHANGED trustvars
  BY <1>2, Zenon DEF Probe
<1>3. ASSUME NEW c, NEW S, CommitCheck(c) \/ AbandonCheck(c) \/ BeginCheck(c, S)
      PROVE  UNCHANGED trustvars
  BY <1>3, Zenon DEF CommitCheck, AbandonCheck, BeginCheck
<1>4. ASSUME NEW a, NEW l, PatchLevel(a, l)
      PROVE  UNCHANGED trustvars
  BY <1>4, Zenon DEF PatchLevel
<1>5. ASSUME NEW e, NEW avg, CommitLevels(e) \/ Evaluate(e, avg)
      PROVE  UNCHANGED trustvars
  BY <1>5, Zenon DEF CommitLevels, Evaluate
<1>6. QED
  BY <1>1, <1>2, <1>3, <1>4, <1>5, Zenon DEF Next, CheckStep, RunStep

LEMMA AgentsInvNext == AgentsInv /\ [Next]_vars => AgentsInv'
<1>1. ASSUME AgentsInv, UNCHANGED vars PROVE AgentsInv'
  BY <1>1, OthersKeep DEF vars
<1>2. ASSUME AgentsInv, UNCHANGED trustvars PROVE AgentsInv'
  BY <1>2, OthersKeep DEF trustvars
<1>3. ASSUME AgentsInv, Next PROVE AgentsInv'
  BY <1>2, <1>3, StepCases, StartRunKeeps, SelectAgentKeeps, CommitRunKeeps, NextNodeKeeps, VerifyKeeps, FailRunKeeps,
     RecordTrustKeeps, RecordDirectKeeps, TickKeeps, DecayBeginKeeps, DecayCommitKeeps, Zenon
<1>4. QED
  BY <1>1, <1>3

LEMMA AgentsInvAlways == Spec => []AgentsInv
BY AgentsInvInit, AgentsInvNext, PTL DEF Spec

(* A high-risk output that every verifier rejects goes to a reviewer       *)
(* (consensus_service.verify_with_consensus, the scheduler's review gate): *)
(* scores stay at the floor or above, so that a vote always has weight.    *)
THEOREM RejectionsReviewed == Spec => []RejectionReviewed
BY AgentsInvAlways, PTL DEF AgentsInv

(* The sum that the property names is the one the invariant speaks of.     *)
LEMMA PlanCosts ==
  ASSUME AgentsInv
  PROVE  PlanWithinBudget
<1> SUFFICES ASSUME NEW s \in Runs
             PROVE  MapThenSumSet(LAMBDA i : IF run[s].agent[i] = None THEN 0 ELSE Cost[run[s].agent[i]], DOMAIN Nodes)
                      <= Budget
  BY DEF PlanWithinBudget
<1> DEFINE N == DOMAIN Nodes
           g == Price(s)
           Step(F) == [r \in SUBSET N |->
                         IF r = {} THEN 0
                         ELSE (IF run[s].agent[CHOOSE x \in r : TRUE] = None THEN 0
                               ELSE Cost[run[s].agent[CHOOSE x \in r : TRUE]]) + F[r \ {CHOOSE x \in r : TRUE}]]
           W == CHOOSE F : F = Step(F)
<1>1. ASSUME NEW F PROVE Step(F) = Adding(g, N, F)
  <2>1. \A r \in SUBSET N : r # {} =>
          g[Pick(r)] = IF run[s].agent[Pick(r)] = None THEN 0 ELSE Cost[run[s].agent[Pick(r)]]
    BY PickIn DEF Price
  <2> HIDE DEF N, g
  <2>2. QED
    BY <2>1 DEF Adding, Pick
<1>2. IsFiniteSet(N)
  BY NodesAre
<1> HIDE DEF g, Step
<1>3. PICK F : Adds(g, N, F)
  BY <1>2, SumExists
<1>4. \E f : f = Step(f)
  BY <1>1, <1>3 DEF Adds
<1>5. W = Step(W)
  BY <1>4
<1> HIDE DEF W
<1>6. Adds(g, N, W)
  BY <1>1, <1>5 DEF Adds
<1>7. W[N] = Budget - run[s].left
  BY <1>6 DEF AgentsInv, BudgetOK, g
<1>8. run[s].left \in Nat /\ Budget \in Nat
  BY AgentsAssumption DEF AgentsInv, TrustTypes, Sessions
<1>9. W[N] <= Budget
  BY <1>7, <1>8
<1>10. QED
  BY <1>9 DEF W, Step, MapThenSumSet, MapThenFoldSet

(* The agents chosen for a DAG of any size cost no more than the budget    *)
(* together (selector.select_agents_for_dag): what is left and what the    *)
(* plan costs always add up to the budget.                                 *)
THEOREM PlansWithinBudget == Spec => []PlanWithinBudget
<1>1. AgentsInv => PlanWithinBudget
  BY PlanCosts
<1>2. QED
  BY <1>1, AgentsInvAlways, PTL

LEMMA RaiseStep ==
  ASSUME AgentsInv, [Next]_vars, NEW a \in Agents, trust'[a] > trust[a]
  PROVE  decay' = decay
<1>1. trust[a] \in Nat
  BY ScoreRange DEF AgentsInv, TrustTypes
<1>2. trust' # trust
  BY <1>1
<1>3. Next
  BY <1>2 DEF vars
<1>4. ASSUME NEW s \in Runs,
             \/ StartRun(s) \/ SelectAgent(s) \/ CommitRun(s) \/ NextNode(s) \/ Verify(s)
             \/ DeadlockVictim(s) \/ FailRun(s)
             \/ \E c \in Composites : RecordTrust(s, c)
      PROVE  decay' = decay
  BY <1>4, Zenon DEF StartRun, SelectAgent, CommitRun, NextNode, Verify, DeadlockVictim, FailRun, RecordTrust
<1>5. ASSUME NEW b \in Agents, NEW c \in Composites, RecordDirect(b, c)
      PROVE  decay' = decay
  BY <1>5, Zenon DEF RecordDirect
<1>6. Tick => decay' = decay
  BY Zenon DEF Tick
<1>7. DecayBegin => FALSE
  BY <1>2, Zenon DEF DecayBegin
<1>8. DecayCommit => FALSE
  <2> SUFFICES ASSUME DecayCommit PROVE FALSE
    OBVIOUS
  <2>1. trust'[a] <= trust[a] /\ trust'[a] \in Nat
    BY DecayCommitKeeps, ScoreRange DEF AgentsInv, TrustTypes
  <2>2. QED
    BY <1>1, <2>1
<1>9. UNCHANGED trustvars => decay' = decay
  BY Zenon DEF trustvars
<1>10. QED
  BY <1>3, <1>4, <1>5, <1>6, <1>7, <1>8, <1>9, StepCases, Zenon

(* The decay worker never raises a score (trust_service.decay_all_scores,  *)
(* FOR UPDATE SKIP LOCKED): nobody writes a row between the worker's read  *)
(* and its commit, and what it computed was no more than what it read.     *)
THEOREM OnlyEventsEverRaise == Spec => OnlyEventsRaise
<1>1. AgentsInv /\ [Next]_vars => [\A a \in Agents : trust'[a] > trust[a] => decay' = decay]_vars
  BY RaiseStep
<1>2. QED
  BY <1>1, AgentsInvAlways, PTL DEF Spec, OnlyEventsRaise

(***************************************************************************)
(* Promotion.                                                              *)
(***************************************************************************)

LEMMA RankedFinite ==
  ASSUME NEW avg
  PROVE  /\ IsFiniteSet(Ranked(avg)) /\ Cardinality(Ranked(avg)) \in Nat
         /\ \A T \in SUBSET Ranked(avg) : IsFiniteSet(T) /\ Cardinality(T) \in Nat /\ Cardinality(T) <= Cardinality(Ranked(avg))
<1>1. IsFiniteSet(Ranked(avg))
  BY FS_Subset, AgentsAssumption DEF Ranked
<1>2. QED
  BY <1>1, FS_Subset, FS_CardinalityType

Above(avg, v) == {a \in Ranked(avg) : avg[a] > v}
AtLeast(avg, v) == {a \in Ranked(avg) : avg[a] >= v}

(* The score at a position of the sorted list exists. *)
LEMMA NthIs ==
  ASSUME NEW avg \in [Pool -> 0..2], NEW idx \in Nat, idx < Cardinality(Ranked(avg))
  PROVE  /\ \E a \in Ranked(avg) : avg[a] = Nth(avg, idx)
         /\ Cardinality(Above(avg, Nth(avg, idx))) <= idx
         /\ Cardinality(AtLeast(avg, Nth(avg, idx))) > idx
<1> DEFINE R == Ranked(avg)
           V == {avg[a] : a \in R}
           P(v) == Cardinality(Above(avg, v)) <= idx /\ Cardinality(AtLeast(avg, v)) > idx
<1>1. \A a \in R : avg[a] = 1 \/ avg[a] = 2
  BY DEF Ranked
<1>2. /\ AtLeast(avg, 1) = R /\ Above(avg, 2) = {} /\ AtLeast(avg, 2) = Above(avg, 1)
      /\ Above(avg, 1) \in SUBSET R
  BY <1>1 DEF Above, AtLeast
<1>3. Cardinality({}) = 0
  BY FS_EmptySet
<1>4. Cardinality(R) \in Nat /\ Cardinality(Above(avg, 1)) \in Nat
  BY <1>2, RankedFinite
<1>5. \E v \in V : P(v)
  <2>1. CASE Cardinality(Above(avg, 1)) <= idx
    <3>1. Above(avg, 1) # R
      BY <1>4, <2>1
    <3>2. 1 \in V
      BY <1>1, <1>2, <3>1 DEF Above
    <3>3. P(1)
      BY <1>2, <1>4, <2>1
    <3>4. QED
      BY <3>2, <3>3
  <2>2. CASE Cardinality(Above(avg, 1)) > idx
    <3>1. Above(avg, 1) # {}
      BY <1>3, <2>2
    <3>2. 2 \in V
      BY <1>1, <3>1 DEF Above
    <3>3. P(2)
      BY <1>2, <1>3, <2>2
    <3>4. QED
      BY <3>2, <3>3
  <2>3. QED
    BY <1>4, <2>1, <2>2
<1>6. Nth(avg, idx) = CHOOSE v \in V : P(v)
  BY DEF Nth, Above, AtLeast
<1> HIDE DEF P, V
<1>7. Nth(avg, idx) \in V /\ P(Nth(avg, idx))
  BY <1>5, <1>6
<1>8. QED
  BY <1>7 DEF P, V

(* The threshold of promotion is not below that of demotion; of ten agents *)
(* or fewer they are the best and the worst score.                         *)
LEMMA Thresholds ==
  ASSUME NEW avg \in [Pool -> 0..2], Cardinality(Ranked(avg)) >= 5
  PROVE  LET n == Cardinality(Ranked(avg))
             hi == Nth(avg, PromoteIdx(n))
             lo == Nth(avg, DemoteIdx(n))
         IN  /\ hi \in Int /\ lo \in Int /\ hi >= lo
             /\ n <= 10 => \A x \in Ranked(avg) : avg[x] <= hi /\ avg[x] >= lo
<1> DEFINE R == Ranked(avg)
           n == Cardinality(R)
           p == PromoteIdx(n)
           d == DemoteIdx(n)
           hi == Nth(avg, p)
           lo == Nth(avg, d)
<1>1. n \in Nat
  BY RankedFinite
<1>2. p \in Nat /\ p < n /\ (n <= 10 => p = 0)
  BY <1>1 DEF PromoteIdx
<1>3. d = IF n - 1 <= (90 * n) \div 100 THEN n - 1 ELSE (90 * n) \div 100
  <2> DEFINE x == n - 1
             y == (90 * n) \div 100
  <2>1. x \in Int /\ y \in Int
    BY <1>1
  <2>2. d = Min({x, y})
    BY DEF DemoteIdx
  <2> HIDE DEF x, y, d
  <2>3. d = IF x <= y THEN x ELSE y
    BY <2>1, <2>2, MinPair
  <2>4. QED
    BY <2>3 DEF x, y
<1>4. d \in Nat /\ d < n /\ p <= d /\ (n <= 10 => d = n - 1)
  BY <1>1, <1>2, <1>3 DEF PromoteIdx
<1> HIDE DEF p, d
<1>5. \A a \in R : avg[a] \in Int
  BY DEF Ranked
<1>6. hi \in Int /\ Cardinality(Above(avg, hi)) <= p /\ Cardinality(AtLeast(avg, hi)) > p
  BY <1>2, <1>5, NthIs
<1>7. lo \in Int /\ Cardinality(Above(avg, lo)) <= d /\ Cardinality(AtLeast(avg, lo)) > d
  BY <1>4, <1>5, NthIs
<1> HIDE DEF hi, lo
<1>8. Above(avg, hi) \in SUBSET R /\ AtLeast(avg, lo) \in SUBSET R
  BY DEF Above, AtLeast
<1>9. hi >= lo
  <2> SUFFICES ASSUME hi < lo PROVE FALSE
    BY <1>6, <1>7
  <2>1. AtLeast(avg, lo) \in SUBSET Above(avg, hi)
    BY <1>5, <1>6, <1>7 DEF AtLeast, Above
  <2>2. IsFiniteSet(Above(avg, hi)) /\ Cardinality(Above(avg, hi)) \in Nat
    BY <1>8, RankedFinite
  <2>3. Cardinality(AtLeast(avg, lo)) <= Cardinality(Above(avg, hi)) /\ Cardinality(AtLeast(avg, lo)) \in Nat
    BY <1>8, <2>1, <2>2, FS_Subset, RankedFinite
  <2>4. QED
    BY <1>2, <1>4, <1>6, <1>7, <2>2, <2>3
<1>10. ASSUME n <= 10, NEW x \in R
       PROVE  avg[x] <= hi /\ avg[x] >= lo
  <2>1. Above(avg, hi) = {}
    <3>1. Cardinality(Above(avg, hi)) = 0 /\ IsFiniteSet(Above(avg, hi))
      BY <1>2, <1>6, <1>8, <1>10, RankedFinite
    <3>2. QED
      BY <3>1, FS_EmptySet
  <2>2. AtLeast(avg, lo) = R
    <3>1. Cardinality(AtLeast(avg, lo)) = Cardinality(R) /\ IsFiniteSet(R)
      BY <1>1, <1>4, <1>7, <1>8, <1>10, RankedFinite
    <3>2. QED
      BY <1>8, <3>1, FS_Subset
  <2>3. x \notin Above(avg, hi) /\ x \in AtLeast(avg, lo)
    BY <2>1, <2>2
  <2>4. QED
    BY <1>5, <1>6, <1>7, <2>3 DEF Above, AtLeast
<1>11. QED
  BY <1>6, <1>7, <1>9, <1>10 DEF hi, lo, p, d

FairEval(v) ==
    \A a \in v.up, b \in v.down :
        /\ v.avg[a] >= v.avg[b]
        /\ \/ v.avg[a] > v.avg[b]
           \/ Cardinality(Ranked(v.avg)) > 10
           \/ \A x, y \in Ranked(v.avg) : v.avg[x] = v.avg[y]

LevelInv == eval = [e \in Evaluators |-> eval[e]] /\ \A e \in Evaluators : FairEval(eval[e])

LEMMA EvaluateFair ==
  ASSUME NEW e \in Evaluators, NEW avg \in [Pool -> 0..2], LevelInv, Evaluate(e, avg)
  PROVE  LevelInv'
<1> DEFINE n == Cardinality(Ranked(avg))
           hi == Nth(avg, PromoteIdx(n))
           lo == Nth(avg, DemoteIdx(n))
           up_ == {a \in Ranked(avg) : avg[a] >= hi /\ level[a] < MaxLevel}
           down_ == {a \in Ranked(avg) \ up_ : avg[a] <= lo /\ level[a] > 1}
           v == [up |-> up_, down |-> down_, avg |-> avg]
<1>1. n >= 5 /\ eval' = [eval EXCEPT ![e] = v]
  BY DEF Evaluate
<1>2. hi \in Int /\ lo \in Int /\ hi >= lo /\ (n <= 10 => \A x \in Ranked(avg) : avg[x] <= hi /\ avg[x] >= lo)
  BY <1>1, Thresholds
<1>3. n \in Nat /\ \A a \in Ranked(avg) : avg[a] \in Int
  BY RankedFinite DEF Ranked
<1> HIDE DEF hi, lo, n
<1>4. \A a \in up_, b \in down_ : avg[a] >= avg[b] /\ (avg[a] > avg[b] \/ n > 10 \/ hi = lo)
  BY <1>2, <1>3
<1>5. hi = lo /\ n <= 10 => \A x, y \in Ranked(avg) : avg[x] = avg[y]
  BY <1>2, <1>3
<1>6. v.up = up_ /\ v.down = down_ /\ v.avg = avg
  OBVIOUS
<1> HIDE DEF up_, down_, v
<1>7. FairEval(v)
  BY <1>3, <1>4, <1>5, <1>6 DEF FairEval, n
<1>8. QED
  BY <1>1, <1>7 DEF LevelInv

LEMMA LevelInvNext == LevelInv /\ [Next]_vars => LevelInv'
<1> SUFFICES ASSUME LevelInv, [Next]_vars PROVE LevelInv'
  OBVIOUS
<1>1. ASSUME NEW e \in Evaluators, CommitLevels(e)
      PROVE  LevelInv'
  <2>1. eval' = [eval EXCEPT ![e] = Nobody]
    BY <1>1 DEF CommitLevels
  <2>2. FairEval(Nobody)
    BY DEF FairEval, Nobody
  <2>3. QED
    BY <2>1, <2>2 DEF LevelInv
<1>2. ASSUME eval' = eval PROVE LevelInv'
  BY <1>2 DEF LevelInv
<1>3. \/ eval' = eval
      \/ \E e \in Evaluators : CommitLevels(e) \/ \E avg \in [Pool -> 0..2] : Evaluate(e, avg)
  <2>0. UNCHANGED levelvars \/ UNCHANGED vars => eval' = eval
    BY DEF levelvars, vars
  <2>1. ASSUME NEW a, NEW st, NEW c,
               Deactivate(a) \/ FailuresExpire(a) \/ GoDown(a) \/ ComeUp(a) \/ PatchStatus(a, st) \/ RecordDirect(a, c)
        PROVE  UNCHANGED levelvars
    BY <2>1, Zenon DEF Deactivate, FailuresExpire, GoDown, ComeUp, PatchStatus, RecordDirect
  <2>2. ASSUME NEW c, NEW a, NEW S, Probe(c, a) \/ CommitCheck(c) \/ AbandonCheck(c) \/ BeginCheck(c, S)
        PROVE  UNCHANGED levelvars
    BY <2>2, Zenon DEF Probe, CommitCheck, AbandonCheck, BeginCheck
  <2>3. ASSUME NEW s, NEW c, StartRun(s) \/ FailRun(s) \/ SelectAgent(s) \/ CommitRun(s) \/ NextNode(s) \/ Verify(s)
                             \/ DeadlockVictim(s) \/ RecordTrust(s, c)
        PROVE  UNCHANGED levelvars
    BY <2>3, Zenon DEF StartRun, FailRun, SelectAgent, CommitRun, NextNode, Verify, DeadlockVictim, RecordTrust
  <2>4. ASSUME Tick \/ DecayBegin \/ DecayCommit PROVE UNCHANGED levelvars
    BY <2>4, Zenon DEF Tick, DecayBegin, DecayCommit
  <2>5. ASSUME NEW a, NEW l, PatchLevel(a, l) PROVE eval' = eval
    BY <2>5, Zenon DEF PatchLevel
  <2>6. QED
    BY <2>0, <2>1, <2>2, <2>3, <2>4, <2>5, Zenon DEF Next, CheckStep, RunStep
<1>4. QED
  BY <1>1, <1>2, <1>3, EvaluateFair

(* However many agents are ranked, and whatever their levels, one run of   *)
(* promote_demote_agents never promotes an agent below one it demotes, and *)
(* of ten or fewer treats equals alike unless all are equal.               *)
THEOREM RankedFairlyAlways == Spec => []RankedFairly
<1>1. Init => LevelInv
  BY DEF Init, LevelInv, FairEval, Nobody
<1>2. LevelInv => RankedFairly
  BY DEF LevelInv, FairEval, RankedFairly
<1>3. QED
  BY <1>1, <1>2, LevelInvNext, PTL DEF Spec
=============================================================================
