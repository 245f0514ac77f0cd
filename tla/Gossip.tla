------------------------------- MODULE Gossip -------------------------------
(***************************************************************************)
(* The signed record store of a federation of MassClaw nodes: local writes, *)
(* tombstones and garbage collection, the cached Merkle summary, and the    *)
(* pull rounds of the gossip workers (backend/app/crdt, workers/crdt_gossip,*)
(* the lifecycle half of services/memory_service).                          *)
(*                                                                          *)
(* A record is its content hash; what the hash covers never changes.  A row *)
(* is the copy a node holds: its lifecycle state, its age and its expiry,   *)
(* none of which the hash covers.                                           *)
(***************************************************************************)
EXTENDS Naturals, FiniteSets

CONSTANTS
    None,       \* no peer, no record, no cached summary
    Nodes,      \* federated nodes
    Recs,       \* content hashes of signed records
    Flows,      \* workflow ids
    Workers,    \* Celery workers that run gossip ticks
    Home,       \* Home[w]: the node of worker w
    Origin,     \* Origin[f]: the nodes that have a row for workflow f at the start
    Wf,         \* Wf[r]: the workflow record r belongs to
    Bucket,     \* Bucket[r]: the Merkle bucket of r, its first byte
    Parents,    \* Parents[r]: the hashes r cites
    Trust,      \* Trust[r]: the trust of r's author, the same on every node
    Delta,      \* the trust margin of decide_supersede
    Target,     \* Target[t]: the record that tombstone t revokes, t otherwise
    Ttl,        \* records written with a time to live
    Faint,      \* records whose confidence is below the archive threshold
    AgentsOf,   \* AgentsOf[n]: records whose source agent node n has a row for
    Clock,      \* Clock[n]: the wall clock of n
    Window,     \* PEER_AUTH_WINDOW_SECONDS
    Allow,      \* Allow[n]: the allowlist of n, {} for "any valid signature"
    BatchSize,  \* _FETCH_BATCH_SIZE
    MaxLocal,   \* bound: local lifecycle operations, all nodes together
    MaxFaults   \* bound: peer calls that fail, worker crashes

ASSUME GossipAssumption ==
    /\ IsFiniteSet(Recs) /\ IsFiniteSet(Flows)
    /\ Home \in [Workers -> Nodes] /\ Origin \in [Flows -> SUBSET Nodes]
    /\ Wf \in [Recs -> Flows] /\ Bucket \in [Recs -> Nat]
    /\ Parents \in [Recs -> SUBSET Recs] /\ Trust \in [Recs -> Nat]
    /\ Target \in [Recs -> Recs] /\ AgentsOf \in [Nodes -> SUBSET Recs]
    /\ Clock \in [Nodes -> Nat] /\ Allow \in [Nodes -> SUBSET Nodes]
    /\ Ttl \subseteq Recs /\ Faint \subseteq Recs
    /\ Delta \in Nat /\ Window \in Nat /\ BatchSize \in Nat \ {0}
    /\ MaxLocal \in Nat /\ MaxFaults \in Nat

VARIABLES
    rows,    \* rows[n][r]: the committed row of r on n, or "none"
    age,     \* age[n][r]: 0 fresh, 1 past the grace period, 2 past the archive age
    expiry,  \* expiry[n][r]: "never", "set" or "past"
    wfs,     \* wfs[n]: the workflow rows of n
    cache,   \* cache[n]: the summary cached in Redis, a set of hashes, or None
    round,   \* round[w]: the gossip round that worker w is in
    locals, faults

vars == <<rows, age, expiry, wfs, cache, round, locals, faults>>

States == {"active", "superseded", "historical", "tombstoned"}
Empty == [r \in Recs |-> "none"]

\* A worker between two ticks.
Idle == [pc |-> "idle", peer |-> None, ours |-> {}, todo |-> {}, missing |-> {},
         batch |-> {}, rec |-> None, known |-> {}, kwf |-> {}, mine |-> Empty, shadow |-> {}]

\* A record as a peer serves it: /sync/fetch leaves out tombstoned rows.
Fetched == [r : Recs, state : States \ {"tombstoned"}]

Active(n) == {r \in Recs : rows[n][r] = "active"}

\* bucket digests of a set of hashes; SHA-256 is taken to be injective
Digest(H, b) == {r \in H : Bucket[r] = b}

DivergesFrom(H, G) == {b \in {Bucket[r] : r \in Recs} : Digest(H, b) # Digest(G, b)}

\* SyncService.summarise: the cached summary while it lives
Summary(n) == IF cache[n] = None THEN Active(n) ELSE cache[n]

Cached(n) == cache' = [cache EXCEPT ![n] = Summary(n)]

Distance(i, j) == IF i < j THEN j - i ELSE i - j

\* verify_peer_request on node p, for a request signed by node n just now
VerifyPeer(n, p) ==
    /\ Distance(Clock[n], Clock[p]) <= Window
    /\ Allow[p] = {} \/ n \in Allow[p]

\* what the session of worker w sees of its node's rows
View(w) == [r \in Recs |-> IF rows[Home[w]][r] # "none" THEN rows[Home[w]][r] ELSE round[w].mine[r]]

FlowView(w) == wfs[Home[w]] \cup round[w].shadow

\* Nobody else on n has an uncommitted row with this hash or workflow id;
\* otherwise the unique index makes the insert wait.
HashFree(n, me, r) == \A v \in Workers \ {me} : Home[v] = n => round[v].mine[r] = "none"
FlowFree(n, me, f) == \A v \in Workers \ {me} : Home[v] = n => f \notin round[v].shadow

-----------------------------------------------------------------------------
(* Local operations: one committed transaction each.                        *)

Local == locals < MaxLocal /\ locals' = locals + 1

Supersedes(r) == {p \in Parents[r] : Trust[r] >= Trust[p] + Delta}

\* Mutant: put overwrites the row that exists.
StoredUpsert(n, r, state) == [rows[n] EXCEPT ![r] = state]

\* store.put of r on node n: a row that exists wins, whatever its state.
Stored(n, r, state) == [rows[n] EXCEPT ![r] = IF @ = "none" THEN state ELSE @]

\* Can a transaction on n insert r: the foreign keys resolve, the index is free.
Insertable(n, r) ==
    /\ Wf[r] \in wfs[n]
    /\ r \in AgentsOf[n]
    /\ HashFree(n, None, r)

Write(n, r) ==
    /\ Local
    /\ Target[r] = r
    /\ Insertable(n, r)
    /\ LET put == Stored(n, r, "active") IN
       rows' = [rows EXCEPT ![n] = [q \in Recs |->
                   IF q \in Supersedes(r) /\ put[q] = "active" THEN "superseded" ELSE put[q]]]
    /\ expiry' = [expiry EXCEPT ![n][r] = IF rows[n][r] # "none" THEN @
                                          ELSE IF r \in Ttl THEN "set" ELSE "never"]
    /\ UNCHANGED <<age, wfs, cache, round, faults>>

\* tombstone_memory: assert_can_tombstone, the tombstone record, the flip.
Tombstone(n, t) ==
    /\ Local
    /\ Target[t] # t
    /\ rows[n][Target[t]] \notin {"none", "tombstoned"}
    /\ Insertable(n, t)
    /\ rows' = [rows EXCEPT ![n] = [Stored(n, t, "active") EXCEPT ![Target[t]] = "tombstoned"]]
    /\ UNCHANGED <<age, expiry, wfs, cache, round, faults>>

\* delete_memory of a signed record
Delete(n, r) ==
    /\ Local
    /\ rows[n][r] # "none"
    /\ rows' = [rows EXCEPT ![n][r] = "tombstoned"]
    /\ UNCHANGED <<age, expiry, wfs, cache, round, faults>>

\* garbage_collect, in its order: expire, hard-delete, archive.  The second
\* statement sees what the first one flushed.
Collected(n, r) ==
    LET expired  == rows[n][r] \in {"active", "superseded"} /\ expiry[n][r] = "past"
        state    == IF expired THEN "tombstoned" ELSE rows[n][r]
    IN  CASE state = "tombstoned" /\ age[n][r] >= 1 -> "none"
          [] state \in {"active", "superseded"} /\ age[n][r] = 2 /\ r \in Faint -> "historical"
          [] OTHER -> state

GarbageCollect(n) ==
    /\ \E r \in Recs : Collected(n, r) # rows[n][r]
    /\ rows' = [rows EXCEPT ![n] = [r \in Recs |-> Collected(n, r)]]
    /\ age' = [age EXCEPT ![n] = [r \in Recs |-> IF Collected(n, r) = "none" THEN 0 ELSE age[n][r]]]
    /\ expiry' = [expiry EXCEPT ![n] =
                    [r \in Recs |-> IF Collected(n, r) = "none" THEN "never" ELSE expiry[n][r]]]
    /\ UNCHANGED <<wfs, cache, round, locals, faults>>

\* Time: a row grows old, a time to live runs out, a cached summary is evicted.
Age(n, r) ==
    /\ Local
    /\ rows[n][r] # "none" /\ age[n][r] < 2
    /\ age' = [age EXCEPT ![n][r] = @ + 1]
    /\ UNCHANGED <<rows, expiry, wfs, cache, round, faults>>

Expire(n, r) ==
    /\ expiry[n][r] = "set"
    /\ expiry' = [expiry EXCEPT ![n][r] = "past"]
    /\ UNCHANGED <<rows, age, wfs, cache, round, locals, faults>>

\* Mutant: the summary is cached without a time to live.
SummaryKept(n) == FALSE /\ UNCHANGED vars

SummaryExpires(n) ==
    /\ cache[n] # None
    /\ cache' = [cache EXCEPT ![n] = None]
    /\ UNCHANGED <<rows, age, expiry, wfs, round, locals, faults>>

-----------------------------------------------------------------------------
(* A gossip round of worker w: reconcile_with, then the commit of the tick. *)

Step(w, r) == round' = [round EXCEPT ![w] = r]

\* session.commit: what the round flushed becomes visible.
Finish(w) ==
    LET n == Home[w] IN
    /\ rows' = [rows EXCEPT ![n] = View(w)]
    /\ wfs' = [wfs EXCEPT ![n] = FlowView(w)]
    /\ Step(w, Idle)

StartRound(w, p) ==
    /\ round[w].pc = "idle"
    /\ p # Home[w]
    /\ Cached(Home[w])
    /\ Step(w, [Idle EXCEPT !.pc = "compare", !.peer = p, !.ours = Summary(Home[w])])
    /\ UNCHANGED <<rows, age, expiry, wfs, locals, faults>>

\* The peer answers with its own, possibly cached, summary.
Compare(w) ==
    LET p == round[w].peer
        divergent == DivergesFrom(round[w].ours, Summary(p))
    IN  /\ round[w].pc = "compare"
        /\ VerifyPeer(Home[w], p)
        /\ Cached(p)
        /\ IF divergent = {} THEN Step(w, Idle)
           ELSE Step(w, [round[w] EXCEPT !.pc = "collect", !.todo = divergent, !.ours = {}])
        /\ UNCHANGED <<rows, age, expiry, wfs, locals, faults>>

\* One divergent bucket: the peer's hashes now, less ours now.
CollectMissing(w) ==
    /\ round[w].pc = "collect"
    /\ VerifyPeer(Home[w], round[w].peer)
    /\ \E b \in round[w].todo :
         LET missing == round[w].missing \cup
                          (Digest(Active(round[w].peer), b) \ Digest(Active(Home[w]), b))
             left == round[w].todo \ {b}
         IN  IF left # {} THEN Step(w, [round[w] EXCEPT !.todo = left, !.missing = missing])
             ELSE IF missing = {} THEN Step(w, Idle)
             ELSE Step(w, [round[w] EXCEPT !.pc = "fetch", !.todo = {}, !.missing = missing])
    /\ UNCHANGED <<rows, age, expiry, wfs, cache, locals, faults>>

\* SyncService.fetch_records on node p
Served(p, B) == {r \in B : rows[p][r] \notin {"none", "tombstoned"}}

\* One batch: the peer serves what it holds and has not tombstoned; _extend_known.
FetchBatch(w) ==
    LET p == round[w].peer IN
    /\ round[w].pc = "fetch" /\ round[w].missing # {}
    /\ VerifyPeer(Home[w], p)
    /\ \E B \in SUBSET round[w].missing :
         /\ Cardinality(B) = (IF Cardinality(round[w].missing) < BatchSize
                              THEN Cardinality(round[w].missing) ELSE BatchSize)
         /\ LET served == Served(p, B) IN
            Step(w, [round[w] EXCEPT
                !.pc = "persist", !.missing = @ \ B,
                !.batch = {[r |-> r, state |-> rows[p][r]] : r \in served},
                !.known = @ \cup {r \in served : View(w)[r] # "none"},
                !.kwf = @ \cup ({Wf[r] : r \in served} \cap FlowView(w))])
    /\ UNCHANGED <<rows, age, expiry, wfs, cache, locals, faults>>

\* _persist_peer_record up to its next write: the workflow, the duplicate
\* check, the pre-check of put.
Persist(w) ==
    /\ round[w].pc = "persist"
    /\ \E e \in round[w].batch :
         Step(w, IF Wf[e.r] \notin round[w].kwf /\ Wf[e.r] \notin FlowView(w)
                 THEN [round[w] EXCEPT !.pc = "shadow", !.rec = e]
                 ELSE IF e.r \in round[w].known \/ View(w)[e.r] # "none"
                 THEN [round[w] EXCEPT !.batch = @ \ {e}, !.known = @ \cup {e.r},
                                       !.kwf = @ \cup {Wf[e.r]}]
                 ELSE [round[w] EXCEPT !.pc = "flush", !.rec = e, !.kwf = @ \cup {Wf[e.r]}])
    /\ UNCHANGED <<rows, age, expiry, wfs, cache, locals, faults>>

\* _auto_shadow_workflow: insert a PAUSED row; when another tick was first, the
\* whole transaction is rolled back and the round goes on.
AfterShadowKept(w) ==  \* mutant: only the shadow row is rolled back
    LET f == Wf[round[w].rec.r]
        lost == f \in wfs[Home[w]]
    IN  [round[w] EXCEPT !.pc = "persist", !.rec = None, !.kwf = @ \cup {f},
                         !.shadow = IF lost THEN {} ELSE @ \cup {f}]

AfterShadow(w) ==
    LET f == Wf[round[w].rec.r]
        lost == f \in wfs[Home[w]]
    IN  [round[w] EXCEPT !.pc = "persist", !.rec = None, !.kwf = @ \cup {f},
                         !.mine = IF lost THEN Empty ELSE @,
                         !.shadow = IF lost THEN {} ELSE @ \cup {f}]

ShadowWorkflow(w) ==
    /\ round[w].pc = "shadow"
    /\ FlowFree(Home[w], w, Wf[round[w].rec.r])
    /\ Step(w, AfterShadow(w))
    /\ UNCHANGED <<rows, age, expiry, wfs, cache, locals, faults>>

\* Does the insert of put succeed: nobody was first, the foreign keys resolve.
Storable(w) ==
    LET r == round[w].rec.r IN
    rows[Home[w]][r] = "none" /\ r \in AgentsOf[Home[w]] /\ Wf[r] \in FlowView(w)

\* The copy has no expiry and the state the peer reported.
AfterFlush(w) ==
    LET e == round[w].rec IN
    [round[w] EXCEPT !.pc = "persist", !.rec = None, !.batch = @ \ {e},
                     !.known = @ \cup {e.r}, !.mine[e.r] = e.state]

Flush(w) ==
    /\ round[w].pc = "flush"
    /\ HashFree(Home[w], w, round[w].rec.r)
    /\ Storable(w)
    /\ Step(w, AfterFlush(w))
    /\ UNCHANGED <<rows, age, expiry, wfs, cache, locals, faults>>

\* begin_nested flushes before it opens the savepoint, so a failed flush takes the
\* outer transaction with it, the commit of the tick raises and the tick ends.
FlushFails(w) ==
    /\ round[w].pc = "flush"
    /\ HashFree(Home[w], w, round[w].rec.r)
    /\ ~Storable(w)
    /\ Step(w, Idle)
    /\ UNCHANGED <<rows, age, expiry, wfs, cache, locals, faults>>

\* w waits at the unique index for an uncommitted insert of v.
WaitsFor(w, v) ==
    /\ v # w /\ Home[v] = Home[w]
    /\ \/ round[w].pc = "flush" /\ round[v].mine[round[w].rec.r] # "none"
       \/ round[w].pc = "shadow" /\ Wf[round[w].rec.r] \in round[v].shadow

\* Two rounds that inserted in opposite orders wait for each other.  PostgreSQL
\* aborts one, whose tick ends as in FlushFails, and the other one gets its insert.
DeadlockAbort(w) ==
    /\ \E v \in Workers :
         /\ WaitsFor(w, v) /\ WaitsFor(v, w)
         /\ round' = [round EXCEPT ![w] = Idle,
                                   ![v] = IF @.pc = "shadow" THEN AfterShadow(v)
                                          ELSE IF Storable(v) THEN AfterFlush(v) ELSE Idle]
    /\ UNCHANGED <<rows, age, expiry, wfs, cache, locals, faults>>

NextBatch(w) ==
    /\ round[w].pc = "persist" /\ round[w].batch = {} /\ round[w].missing # {}
    /\ Step(w, [round[w] EXCEPT !.pc = "fetch"])
    /\ UNCHANGED <<rows, age, expiry, wfs, cache, locals, faults>>

CommitRound(w) ==
    /\ round[w].pc = "persist" /\ round[w].batch = {} /\ round[w].missing = {}
    /\ Finish(w)
    /\ UNCHANGED <<age, expiry, cache, locals, faults>>

\* A peer call fails: the error is caught and what the round persisted is committed.
PeerFails(w) ==
    /\ round[w].pc \in {"compare", "collect", "fetch"}
    /\ IF VerifyPeer(Home[w], round[w].peer)
       THEN faults < MaxFaults /\ faults' = faults + 1
       ELSE UNCHANGED faults
    /\ Finish(w)
    /\ UNCHANGED <<age, expiry, cache, locals>>

\* The worker process dies: its transaction is rolled back.
WorkerCrash(w) ==
    /\ round[w].pc # "idle"
    /\ faults < MaxFaults /\ faults' = faults + 1
    /\ Step(w, Idle)
    /\ UNCHANGED <<rows, age, expiry, wfs, cache, locals>>

-----------------------------------------------------------------------------
Init ==
    /\ rows = [n \in Nodes |-> Empty]
    /\ age = [n \in Nodes |-> [r \in Recs |-> 0]]
    /\ expiry = [n \in Nodes |-> [r \in Recs |-> "never"]]
    /\ wfs = [n \in Nodes |-> {f \in Flows : n \in Origin[f]}]
    /\ cache = [n \in Nodes |-> None]
    /\ round = [w \in Workers |-> Idle]
    /\ locals = 0 /\ faults = 0

\* What a round does by itself, whatever the environment does.
Progress(w) ==
    \/ Compare(w) \/ CollectMissing(w) \/ FetchBatch(w) \/ Persist(w)
    \/ ShadowWorkflow(w) \/ Flush(w) \/ FlushFails(w) \/ DeadlockAbort(w)
    \/ NextBatch(w) \/ CommitRound(w)

Next ==
    \/ \E n \in Nodes : GarbageCollect(n) \/ SummaryExpires(n)
    \/ \E n \in Nodes, r \in Recs :
         Write(n, r) \/ Tombstone(n, r) \/ Delete(n, r) \/ Age(n, r) \/ Expire(n, r)
    \/ \E w \in Workers, p \in Nodes : StartRound(w, p)
    \/ \E w \in Workers : Progress(w) \/ PeerFails(w) \/ WorkerCrash(w)

\* Celery beat starts ticks for ever, with peers drawn at random; a round goes on;
\* a cached summary lives 30 seconds.
Fairness ==
    /\ \A n \in Nodes : WF_vars(SummaryExpires(n))
    /\ \A w \in Workers : WF_vars(Progress(w) \/ PeerFails(w))
    /\ \A w \in Workers : \A p \in Nodes \ {Home[w]} : SF_vars(StartRound(w, p))

Spec == Init /\ [][Next]_vars /\ Fairness

-----------------------------------------------------------------------------
(* Properties                                                               *)

\* Every variable has its type, and a round holds what its stage allows.
TypeOK ==
    /\ rows \in [Nodes -> [Recs -> States \cup {"none"}]]
    /\ age \in [Nodes -> [Recs -> 0..2]]
    /\ expiry \in [Nodes -> [Recs -> {"never", "set", "past"}]]
    /\ wfs \in [Nodes -> SUBSET Flows]
    /\ cache \in [Nodes -> (SUBSET Recs) \cup {None}]
    /\ round \in [Workers ->
         [pc : {"idle", "compare", "collect", "fetch", "persist", "shadow", "flush"},
          peer : Nodes \cup {None}, ours : SUBSET Recs, todo : SUBSET {Bucket[r] : r \in Recs},
          missing : SUBSET Recs, batch : SUBSET Fetched, rec : Fetched \cup {None},
          known : SUBSET Recs, kwf : SUBSET Flows,
          mine : [Recs -> States \cup {"none"}], shadow : SUBSET Flows]]
    /\ locals \in 0..MaxLocal /\ faults \in 0..MaxFaults

\* A stored record has its workflow row and its agent row, although the shadow
\* workflow of a round may be rolled back between two records of one batch
\* (_auto_shadow_workflow and the foreign keys of memory_records).
ForeignKeysHold ==
    \A n \in Nodes, r \in Recs : rows[n][r] # "none" => Wf[r] \in wfs[n] /\ r \in AgentsOf[n]

Rank == [s \in States |-> CASE s = "active" -> 0 [] s = "superseded" -> 1
                             [] s = "historical" -> 2 [] s = "tombstoned" -> 3]

\* A row that stays on a node never goes back in the lifecycle: neither a second
\* write of the same content nor a peer that still serves the record as active
\* undoes a supersession or a tombstone (CRDTStore.put, _persist_peer_record).
LifecycleForward ==
    [][\A n \in Nodes, r \in Recs :
         rows[n][r] # "none" /\ rows'[n][r] # "none" => Rank[rows[n][r]] <= Rank[rows'[n][r]]]_vars

\* A record that stays active on a node reaches every node that gossips and
\* whose requests are accepted, in spite of cached summaries, lost races and failed rounds
\* (reconcile_with: "summary, diff, fetch, persist").
Spread ==
    \A n \in {Home[w] : w \in Workers} : \A m \in Nodes \ {n}, r \in Recs :
        VerifyPeer(n, m) =>
            (rows[m][r] = "active" ~> (rows[n][r] # "none" \/ rows[m][r] # "active"))

-----------------------------------------------------------------------------
(* Expectations that the repository states and the code does not meet       *)

\* "they apply the state flip locally when they fetch it" (api/memory.py:139):
\* no node holds a tombstone together with its active target.
TombstonesApplied ==
    \A n \in Nodes, t \in Recs :
        Target[t] # t /\ rows[n][t] = "active" => rows[n][Target[t]] # "active"

\* "keep tombstoned records for 24h so peers can learn about them"
\* (services/memory_lifecycle.py:39): a node that has hard-deleted a record does
\* not get it back from a peer.
NoResurrection ==
    [][\A w \in Workers, r \in Recs :
         round[w].pc # "idle" /\ round'[w].pc = "idle" =>
           ~(rows[Home[w]][r] = "none" /\ rows'[Home[w]][r] = "active" /\ locals = MaxLocal)]_vars
=============================================================================
