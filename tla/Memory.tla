------------------------------- MODULE Memory -------------------------------
(***************************************************************************)
(* Collective memory on one node: concurrent writes, tombstones, deletions  *)
(* and garbage collection, the Redis cache of query results, the fact       *)
(* resolver (services/memory_service, services/memory_fact_resolver), and   *)
(* the semantic result cache of the scheduler, which lives in the same      *)
(* table (memory_type 'cache') and which the collector trims.               *)
(*                                                                          *)
(* Each request runs in one transaction: what it flushes is locked, and     *)
(* others see it when it commits.  The two kinds of rows do not influence   *)
(* each other; a behaviour of the model exercises one of them (focus).      *)
(***************************************************************************)
EXTENDS Naturals, FiniteSets, FiniteSetsExt

CONSTANTS
    None,        \* no record, no cached result
    Recs,        \* records that clients write
    Slot,        \* Slot[r]: workflow, agent and memory type of r
    Conf,        \* Conf[r]: confidence, in percent
    Rank,        \* Rank[r]: confidence x freshness x author trust, in percent
    Trust,       \* Trust[r]: trust of the author, in percent
    Text,        \* Text[r]: the content
    Cites,       \* Cites[r]: parent_hashes
    Target,      \* Target[t]: the record that tombstone t revokes, else None
    Unsigned,    \* legacy records without a content hash
    Sessions,    \* requests
    TrustDelta,  \* _DEFAULT_SUPERSEDE_TRUST_DELTA
    MinConf,     \* sensitive_min_confidence
    RankDelta,   \* sensitive_rank_delta
    MaxOps,      \* bound: requests that change records
    MaxReads,    \* bound: reads
    Prompts,     \* prompts of the semantic cache
    Caps,        \* capabilities
    Near,        \* Near[p][q]: similarity of two prompts, in percent
    Threshold,   \* semantic_cache_similarity_threshold, in percent
    CacheCap,    \* semantic_cache_max_entries, 0 for none
    Poisons,     \* Poisons[v]: the degraded texts that marker list v knows
    Answers,     \* texts of LLM answers
    MaxStores    \* bound: entries stored

ASSUME MemoryAssumption ==
    /\ Cites \in [Recs -> SUBSET Recs] /\ Target \in [Recs -> Recs \cup {None}]
    /\ Conf \in [Recs -> Nat] /\ Rank \in [Recs -> Nat] /\ Trust \in [Recs -> Nat]
    /\ Near \in [Prompts -> [Prompts -> Nat]] /\ CacheCap \in Nat
    /\ MaxOps \in Nat /\ MaxReads \in Nat /\ MaxStores \in Nat
    /\ IsFiniteSet(Recs) /\ Threshold \in Nat

\* rows of the semantic cache
Entry == [id : 1..MaxStores, prompt : Prompts, cap : Caps, ver : DOMAIN Poisons, text : Answers, live : BOOLEAN]

ASSUME EntryAssumption == None \notin Entry /\ 1 \in DOMAIN Poisons

States == {"active", "superseded", "historical", "tombstoned"}

VARIABLES
    rows,     \* rows[r]: the committed state of r, or "none"
    order,    \* order[r]: rank of created_at, 0 while r does not exist
    recent,   \* records younger than the conflict window
    overdue,  \* records whose expires_at has passed
    req,      \* req[s]: the request session s is serving
    qcache,   \* the cached result of the query: a set of [r, state], or None
    answer,   \* the answer that resolve_fact has just given, if any
    entries,  \* rows of the semantic cache
    guard,    \* the cache version of the running code
    lookup,   \* the last lookup in the semantic cache
    focus, ops, reads, stores

recvars == <<rows, order, recent, overdue, req, qcache, answer, ops, reads>>
semvars == <<entries, guard, lookup, stores>>
vars == <<rows, order, recent, overdue, req, qcache, answer, entries, guard, lookup, focus, ops, reads, stores>>

Clock(S) == Max({0} \cup S)

-----------------------------------------------------------------------------
(* Requests that change records.                                            *)

\* seen: states as the session's objects were loaded; flips: the states it has
\* flushed; puts: the rows it has inserted
Idle == [pc |-> "idle", op |-> "none", rec |-> None, seen |-> {}, flips |-> [r \in Recs |-> "none"], puts |-> {}]

Start(s, op, r, pc) ==
    /\ focus = "records" /\ req[s].pc = "idle" /\ ops < MaxOps
    /\ ops' = ops + 1
    /\ req' = [req EXCEPT ![s] = [Idle EXCEPT !.pc = pc, !.op = op, !.rec = r]]

\* Another session has flushed a change of row r: its lock makes us wait.
RowLocked(s, r) == \E o \in Sessions \ {s} : req[o].flips[r] # "none" \/ r \in req[o].puts

Exists(r) == rows[r] # "none"

\* _check_conflict: the newest row of the slot inside the window, in any state
Conflict(r) ==
    LET same == {q \in recent : Slot[q] = Slot[r]}
    IN {q \in same : \A o \in same : order[o] <= order[q]}

\* write_memory keeps the recent row of the slot unless r is more confident
\* than it; a client may send one record twice
WriteMemory(s, r) ==
    /\ Target[r] = None
    /\ \A q \in Conflict(r) : Conf[r] > Conf[q]
    /\ Start(s, "write", r, "put")
    /\ answer' = None
    /\ UNCHANGED <<rows, order, recent, overdue, qcache, reads, semvars, focus>>

\* store.put: a hash that exists is returned as it is
Put(s) ==
    LET r == req[s].rec IN
    /\ req[s].pc = "put"
    /\ ~RowLocked(s, r)
    /\ req' = [req EXCEPT ![s].puts = IF Exists(r) THEN {} ELSE {r},
                          ![s].pc = IF req[s].op = "tombstone" THEN "flip"
                                    ELSE IF r \in Unsigned THEN "clear" ELSE "parents"]
    /\ answer' = None
    /\ UNCHANGED <<rows, order, recent, overdue, qcache, ops, reads, semvars, focus>>

\* decide_supersede
Outweighed(r) == {p \in Cites[r] : Trust[r] >= Trust[p] + TrustDelta}

\* apply_supersede_rules, the reads: the parents, then the trust of the authors
LoadParents(s) ==
    /\ req[s].pc = "parents"
    /\ req' = [req EXCEPT ![s].seen = {p \in Outweighed(req[s].rec) : rows[p] = "active"}, ![s].pc = "flip"]
    /\ answer' = None
    /\ UNCHANGED <<rows, order, recent, overdue, qcache, ops, reads, semvars, focus>>

\* The state that a flush of session s gives to its rows, by primary key and
\* whatever others have committed since the load
Flipped(s) == IF req[s].op = "write" THEN "superseded" ELSE "tombstoned"

\* Mutant: the flush commits.
FlipCommits(s) ==
    /\ req[s].pc = "flip"
    /\ \A p \in req[s].seen : ~RowLocked(s, p)
    /\ rows' = [r \in Recs |-> IF r \in req[s].seen THEN Flipped(s) ELSE rows[r]]
    /\ req' = [req EXCEPT ![s].pc = "clear"]
    /\ answer' = None
    /\ UNCHANGED <<order, recent, overdue, qcache, ops, reads, semvars, focus>>

Flip(s) ==
    /\ req[s].pc = "flip"
    /\ \A p \in req[s].seen : ~RowLocked(s, p)
    /\ req' = [req EXCEPT ![s].flips = [r \in Recs |-> IF r \in req[s].seen THEN Flipped(s) ELSE "none"],
                          ![s].pc = IF req[s].op = "collect" THEN "commit" ELSE "clear"]
    /\ answer' = None
    /\ UNCHANGED <<rows, order, recent, overdue, qcache, ops, reads, semvars, focus>>

\* tombstone_memory: assert_can_tombstone, then the put, then the flip
Tombstone(s, t) ==
    /\ Target[t] # None /\ Target[t] \notin Unsigned
    /\ rows[Target[t]] \in States \ {"tombstoned"}
    /\ focus = "records" /\ req[s].pc = "idle" /\ ops < MaxOps
    /\ ops' = ops + 1
    /\ req' = [req EXCEPT ![s] = [Idle EXCEPT !.pc = "put", !.op = "tombstone", !.rec = t, !.seen = {Target[t]}]]
    /\ answer' = None
    /\ UNCHANGED <<rows, order, recent, overdue, qcache, reads, semvars, focus>>

\* delete_memory: any record, whatever its state
Delete(s, r) ==
    /\ Exists(r)
    /\ focus = "records" /\ req[s].pc = "idle" /\ ops < MaxOps
    /\ ops' = ops + 1
    /\ req' = [req EXCEPT ![s] = [Idle EXCEPT !.pc = "flip", !.op = "delete", !.rec = r, !.seen = {r}]]
    /\ answer' = None
    /\ UNCHANGED <<rows, order, recent, overdue, qcache, reads, semvars, focus>>

\* garbage_collect, step 1: rows that expired become tombstones
Collect(s) ==
    /\ focus = "records" /\ req[s].pc = "idle" /\ ops < MaxOps
    /\ ops' = ops + 1
    /\ req' = [req EXCEPT ![s] = [Idle EXCEPT !.pc = "flip", !.op = "collect",
                                              !.seen = {r \in overdue : rows[r] \in {"active", "superseded"}}]]
    /\ answer' = None
    /\ UNCHANGED <<rows, order, recent, overdue, qcache, reads, semvars, focus>>

\* _invalidate_cache runs before the commit; the collector has no such call
Invalidate(s) ==
    /\ req[s].pc = "clear"
    /\ qcache' = None
    /\ req' = [req EXCEPT ![s].pc = "commit"]
    /\ answer' = None
    /\ UNCHANGED <<rows, order, recent, overdue, ops, reads, semvars, focus>>

\* the table after the transaction of s
Applied(s) ==
    [r \in Recs |-> IF req[s].flips[r] # "none" THEN req[s].flips[r]
                    ELSE IF r \in req[s].puts THEN "active" ELSE rows[r]]

\* created_at of a row inserted now
Stamp == Clock({order[q] : q \in Recs}) + 1

Commit(s) ==
    /\ req[s].pc = "commit"
    /\ rows' = Applied(s)
    /\ order' = [r \in Recs |-> IF r \in req[s].puts THEN Stamp ELSE order[r]]
    /\ recent' = recent \cup req[s].puts
    /\ req' = [req EXCEPT ![s] = Idle]
    /\ answer' = None
    /\ UNCHANGED <<overdue, qcache, ops, reads, semvars, focus>>

\* a request fails before its commit, and its transaction is rolled back
Rollback(s) ==
    /\ req[s].pc \notin {"idle", "store"}
    /\ req' = [req EXCEPT ![s] = Idle]
    /\ answer' = None
    /\ UNCHANGED <<rows, order, recent, overdue, qcache, ops, reads, semvars, focus>>

\* five seconds pass
Settle ==
    /\ recent # {}
    /\ recent' = {}
    /\ answer' = None
    /\ UNCHANGED <<rows, order, overdue, req, qcache, ops, reads, semvars, focus>>

\* the time to live of r runs out; a tombstone has none
Expire(r) ==
    /\ Exists(r) /\ r \notin overdue /\ Target[r] = None
    /\ overdue' = overdue \cup {r}
    /\ answer' = None
    /\ UNCHANGED <<rows, order, recent, req, qcache, ops, reads, semvars, focus>>

-----------------------------------------------------------------------------
(* Reads.                                                                   *)

Found(S) == {[r |-> r, state |-> rows[r]] : r \in {q \in Recs \ overdue : rows[q] \in S}}

\* the states that a mode asks query_memory for
Asked(mode) == IF mode = "audit" THEN States \ {"tombstoned"} ELSE {"active"}

\* _rank_candidates: by rank, then by age
Top(C) ==
    CHOOSE c \in C : \A o \in C : \/ Rank[o.r] < Rank[c.r]
                                  \/ Rank[o.r] = Rank[c.r] /\ order[o.r] <= order[c.r]

Apart(i, j) == IF i < j THEN j - i ELSE i - j

\* _has_high_confidence_conflict: somebody ties with the top
Tied(C) ==
    /\ C # {}
    /\ LET best == Top(C).r IN
          /\ Conf[best] >= MinConf
          /\ \E c \in C : /\ Conf[c.r] >= MinConf /\ Text[c.r] # Text[best]
                          /\ Apart(Rank[best], Rank[c.r]) <= RankDelta

\* Mutant: resolve_fact relies on the query's lifecycle filter.
ResolveUnfiltered(found, mode) ==
    LET hitl == mode = "sensitive" /\ Tied(found) IN
    [mode |-> mode, hitl |-> hitl,
     listed |-> found,
     chosen |-> IF mode = "audit" \/ hitl \/ found = {} THEN None ELSE Top(found)]

\* resolve_fact of the candidates that the query found
Resolve(found, mode) ==
    LET live == {c \in found : c.state = "active"}
        hitl == mode = "sensitive" /\ Tied(live)
    IN [mode |-> mode, hitl |-> hitl,
        listed |-> IF mode = "audit" THEN found ELSE live,
        chosen |-> IF mode = "audit" \/ hitl \/ live = {} THEN None ELSE Top(live)]

Answer(found, mode) == answer' = Resolve(found, mode)

\* query_memory: the cache key leaves out include_states, so that the modes
\* share one entry; an empty cached list counts as a miss.  A miss queries the
\* database.
AskFact(s, mode) ==
    /\ focus = "records" /\ req[s].pc = "idle" /\ reads < MaxReads
    /\ reads' = reads + 1
    /\ IF qcache # None
       THEN Answer(qcache, mode) /\ UNCHANGED req
       ELSE /\ req' = [req EXCEPT ![s] = [Idle EXCEPT !.pc = "store", !.op = mode, !.seen = Found(Asked(mode))]]
            /\ answer' = None
    /\ UNCHANGED <<rows, order, recent, overdue, qcache, ops, semvars, focus>>

\* _set_cached, then the answer
StoreResult(s) ==
    /\ req[s].pc = "store"
    /\ qcache' = IF req[s].seen = {} THEN qcache ELSE req[s].seen
    /\ Answer(req[s].seen, req[s].op)
    /\ req' = [req EXCEPT ![s] = Idle]
    /\ UNCHANGED <<rows, order, recent, overdue, ops, reads, semvars, focus>>

\* Mutant: the entry is stored without ex=.
ResultKept == FALSE /\ UNCHANGED vars

\* the entry lives for 60 seconds
ResultExpires ==
    /\ qcache # None
    /\ qcache' = None
    /\ answer' = None
    /\ UNCHANGED <<rows, order, recent, overdue, req, ops, reads, semvars, focus>>

-----------------------------------------------------------------------------
(* The semantic cache.                                                      *)

Cacheable(v, text) == text \notin Poisons[v]

\* Mutant: whatever the model answered is stored.
StorableAny(text) == TRUE

\* _store_in_cache refuses degraded answers
Storable(text) == Cacheable(guard, text)

StoreInCache(p, cap, text) ==
    /\ focus = "semantic" /\ stores < MaxStores
    /\ Storable(text)
    /\ stores' = stores + 1
    /\ entries' = entries \cup {[id |-> stores + 1, prompt |-> p, cap |-> cap, ver |-> guard, text |-> text, live |-> TRUE]}
    /\ lookup' = None
    /\ UNCHANGED <<recvars, guard, focus>>

\* what the query of _check_semantic_cache may take as the nearest row
Eligible(cap) == {e \in entries : e.live /\ e.cap = cap /\ e.ver = guard}

\* _check_semantic_cache takes one row, and looks at its text only then
CheckCache(p, cap) ==
    LET near == {e \in Eligible(cap) : \A o \in Eligible(cap) : Near[p][o.prompt] <= Near[p][e.prompt]} IN
    /\ focus = "semantic"
    /\ \/ near = {} /\ lookup' = [prompt |-> p, cap |-> cap, hit |-> None]
       \/ \E e \in near :
             lookup' = [prompt |-> p, cap |-> cap,
                        hit |-> IF Near[p][e.prompt] >= Threshold /\ Cacheable(guard, e.text) THEN e ELSE None]
    /\ UNCHANGED <<recvars, entries, guard, stores, focus>>

\* a release with another marker list bumps _CACHE_GUARD_VERSION
Release ==
    /\ focus = "semantic"
    /\ guard + 1 \in DOMAIN Poisons
    /\ guard' = guard + 1
    /\ lookup' = None
    /\ UNCHANGED <<recvars, entries, stores, focus>>

EntryExpires(e) ==
    /\ e.live
    /\ entries' = (entries \ {e}) \cup {[e EXCEPT !.live = FALSE]}
    /\ lookup' = None
    /\ UNCHANGED <<recvars, guard, stores, focus>>

Newest(S, n) == {e \in S : Cardinality({o \in S : o.id > e.id}) < n}

\* Mutant: the surplus is computed before the expired rows are gone.
KeptTrimFirst == {e \in (IF CacheCap = 0 THEN entries ELSE Newest(entries, CacheCap)) : e.live}

\* _collect_semantic_cache: the expired rows go, then the oldest of the surplus
Kept ==
    LET live == {e \in entries : e.live}
    IN IF CacheCap = 0 THEN live ELSE Newest(live, CacheCap)

CollectCache ==
    /\ focus = "semantic"
    /\ entries' = Kept
    /\ lookup' = None
    /\ UNCHANGED <<recvars, guard, stores, focus>>

-----------------------------------------------------------------------------
Init ==
    /\ rows = [r \in Recs |-> "none"]
    /\ order = [r \in Recs |-> 0]
    /\ recent = {} /\ overdue = {} 
    /\ req = [s \in Sessions |-> Idle]
    /\ qcache = None
    /\ answer = None
    /\ entries = {}
    /\ guard = 1
    /\ lookup = None
    /\ focus \in {"records", "semantic"}
    /\ ops = 0 /\ reads = 0 /\ stores = 0

Progress(s) == Put(s) \/ LoadParents(s) \/ Flip(s) \/ Invalidate(s) \/ Commit(s) \/ StoreResult(s)

Next ==
    \/ \E s \in Sessions :
          \/ Progress(s) \/ Rollback(s) \/ Collect(s)
          \/ \E r \in Recs : WriteMemory(s, r) \/ Tombstone(s, r) \/ Delete(s, r)
          \/ \E mode \in {"planning", "sensitive", "audit"} : AskFact(s, mode)
    \/ Settle \/ ResultExpires
    \/ \E r \in Recs : Expire(r)
    \/ \E p \in Prompts, cap \in Caps : CheckCache(p, cap) \/ \E a \in Answers : StoreInCache(p, cap, a)
    \/ Release \/ CollectCache
    \/ \E e \in entries : EntryExpires(e)

\* Redis expires the cached result; requests go on.
Fairness == WF_vars(ResultExpires) /\ \A s \in Sessions : WF_vars(Progress(s))

Spec == Init /\ [][Next]_vars /\ Fairness

-----------------------------------------------------------------------------
TypeOK ==
    /\ rows \in [Recs -> States \cup {"none"}]
    /\ order \in [Recs -> Nat] /\ \A r, q \in Recs : order[r] = order[q] /\ order[r] > 0 => r = q
    /\ recent \subseteq Recs /\ overdue \subseteq Recs
    /\ qcache # None => qcache \subseteq [r : Recs, state : States]
    /\ \A e \in entries : e.ver <= guard

\* A fact is superseded only by a write that was really committed: the flip of
\* the parents and the new row stand or fall together, also when the request
\* fails in between (apply_supersede_rules inside the transaction of
\* write_memory).
SupersededBySomething ==
    \A p \in Recs : rows[p] = "superseded" =>
        \E r \in Recs : rows[r] # "none" /\ p \in Cites[r] /\ Trust[r] >= Trust[p] + TrustDelta

\* A planning or sensitive answer never rests on a record that the query knew
\* to be superseded or archived, although an audit query shares its cache
\* entry (the cache key omits include_states; resolve_fact filters again).
PlansOnActiveFacts ==
    answer # None /\ answer.mode # "audit" =>
        /\ answer.chosen # None => answer.chosen.state = "active"
        /\ \A c \in answer.listed : c.state = "active"

\* A revoked record does not stay in the cached answers: also when a reader
\* cached it after the invalidation, or when the collector tombstoned it
\* without invalidating anything.
RevokedLeavesCache ==
    \A r \in Recs :
        (rows[r] = "tombstoned" /\ qcache # None) ~> (qcache = None \/ rows[r] # "tombstoned")

\* The semantic cache misses only when it has nothing to offer: no live entry
\* of this capability and of the current guard version is close enough.  One
\* row is fetched, so a degraded answer that got in would hide the good one
\* behind it.
NothingHidden ==
    lookup # None /\ lookup.hit = None =>
        \A e \in Eligible(lookup.cap) : Near[lookup.prompt][e.prompt] < Threshold

\* The collector sacrifices a live entry only for newer live ones that fill
\* the cap: expired rows go first and do not count.
TrimsOnlySurplus ==
    [][\A e \in entries : e.live /\ (entries' # entries) /\ (\A o \in entries' : o.id # e.id) =>
          Cardinality({o \in entries' : o.live /\ o.id > e.id}) >= CacheCap]_vars

-----------------------------------------------------------------------------
(* Expectations that the repository states and the code does not meet.     *)

\* A tombstoned record is not served again (api/memory.py: "tombstoned records
\* are eligible for garbage collection and must not be served"): a write that
\* loaded its parent before the tombstone flips it to superseded afterwards.
TombstonesStick == [][\A r \in Recs : rows[r] = "tombstoned" => rows'[r] # "superseded"]_vars

\* Of two writes to one slot within the window the more confident one stands
\* alone (write_memory: "last-writer-wins weighted by confidence"): two
\* concurrent writers do not see each other.
WindowHolds ==
    \A r, q \in recent : r # q /\ Slot[r] = Slot[q] /\ order[r] < order[q] => Conf[r] < Conf[q]

\* An audit read returns every state (memory_service.resolve_fact: "Audit mode
\* should see every lifecycle state the caller listed"): the entry that a
\* planning query cached has the active ones only.
AuditSeesAll ==
    [][answer' # None /\ answer' # answer /\ answer'.mode = "audit" =>
          \A r \in Recs \ overdue : rows[r] = "superseded" => \E c \in answer'.listed : c.r = r]_vars
=============================================================================
