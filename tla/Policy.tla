------------------------------- MODULE Policy -------------------------------
(***************************************************************************)
(* The policy layer.  Two engines live side by side:                        *)
(*                                                                          *)
(*  - the stored rules (table policy_rules), edited through the CRUD calls  *)
(*    of services/policy_service or of safety/policy_engine, and evaluated  *)
(*    either straight from the table (the service) or through a copy cached *)
(*    in Redis for five minutes (the engine);                               *)
(*  - the registry of built-in Python rules (safety/registry, safety/rules),*)
(*    one copy per server process, which the scheduler consults for every   *)
(*    task of a batch and which the API can switch on, switch off and try.  *)
(*                                                                          *)
(* The two share no state, so that a behaviour of the model exercises one   *)
(* of them (focus) and nothing is lost by not interleaving them.            *)
(***************************************************************************)
EXTENDS Naturals, Sequences, FiniteSets, FiniteSetsExt

CONSTANTS
    None,       \* no row, no cached list, no value
    Names,      \* names of stored rules (unique in the table)
    Payloads,   \* the rule bodies that clients send
    Patches,    \* sets of fields that a PATCH gives
    Conds,      \* condition documents and their sub-documents
    Kind,       \* Kind[c]: "all", "any", "not" or "leaf"
    Kids,       \* Kids[c]: the sub-documents of a combinator, a sequence
    Shape,      \* Shape[c]: how well formed a leaf is
    ActKey,     \* ActKey[c]: the value of the "action" key of c, or None
    Inputs,     \* actions that callers ask about, with their context
    Admins,     \* requests that edit the stored rules
    Callers,    \* requests that evaluate them
    Processes,  \* server processes, each with its own registry
    Contexts,   \* PolicyContexts the registry is asked about
    Switched,   \* built-in rules that operators switch on and off
    MaxEdits,   \* bound: edits of stored rules
    MaxAsks,    \* bound: evaluations of stored rules
    MaxGates,   \* bound: registry evaluations
    MaxFaults   \* bound: failing Redis calls, failing audit writes, restarts

ASSUME PolicyAssumption ==
    /\ Kind \in [Conds -> {"all", "any", "not", "leaf"}]
    /\ Kids \in [Conds -> Seq(Conds)] /\ \A c \in Conds : Kind[c] = "not" => Len(Kids[c]) = 1
    /\ Shape \in [Conds -> {"ok", "engineonly", "novalue", "badop", "nokeys"}]
    /\ \A p \in Payloads : p.cond \in Conds
    /\ MaxEdits \in Nat /\ MaxAsks \in Nat /\ MaxGates \in Nat /\ MaxFaults \in Nat

\* documents are finite trees: no document is part of itself
ASSUME DepthAssumption ==
    /\ IsFiniteSet(Conds)
    /\ \E d \in [Conds -> 0..Cardinality(Conds)] :
          \A c \in Conds : \A k \in 1..Len(Kids[c]) : d[Kids[c][k]] < d[c]

Blocking == {"deny", "require_approval"}
Fields == {"id", "type", "cond", "action", "priority", "enabled"}

\* the row that create_rule inserts
NewRow(p, id) == [f \in Fields |-> IF f = "id" THEN id ELSE p[f]]

ASSUME NoneAssumption == \A p \in Payloads, id \in 0..MaxEdits : NewRow(p, id) # None

VARIABLES
    rules,    \* rules[n]: the committed row of rule n, or None
    cache,    \* the active rules cached in Redis, or None
    admin,    \* admin[a]: the edit that request a is making
    caller,   \* caller[e]: the evaluation that request e is making
    enabled,  \* enabled[p]: the built-in rules switched on in process p
    gate,     \* the last registry evaluation
    trail,    \* the policy decisions written as signed records
    focus, edits, asks, gates, faults

stored == <<rules, cache, admin, caller, edits, asks>>
registry == <<enabled, gate, trail, gates, focus>>
vars == <<rules, cache, admin, caller, enabled, gate, trail, focus, edits, asks, gates, faults>>

Fault == faults < MaxFaults /\ faults' = faults + 1

-----------------------------------------------------------------------------
(* Conditions.                                                              *)

FirstThat(s, P(_)) == {k \in 1..Len(s) : P(s[k]) /\ \A j \in 1..(k - 1) : ~P(s[j])}

\* PolicyEngine._evaluate_condition: what the document c says of input i, or
\* "raise".  i.leaf[c] is what comparing the field of leaf c gives: "true",
\* "false", "missing" (no such field) or "mismatch" (TypeError).
Evaluate(i) ==
    LET E[c \in Conds] ==
        LET Until(v) == FirstThat(Kids[c], LAMBDA k : E[k] # v)
            Stop(v) == IF Until(v) = {} THEN v ELSE E[Kids[c][CHOOSE k \in Until(v) : TRUE]]
        IN CASE Kind[c] = "all" -> Stop("true")
             [] Kind[c] = "any" -> Stop("false")
             [] Kind[c] = "not" -> LET v == E[Kids[c][1]]
                                   IN IF v = "raise" THEN v ELSE IF v = "true" THEN "false" ELSE "true"
             [] Kind[c] = "leaf" /\ Shape[c] \in {"badop", "nokeys"} -> "raise"
             [] OTHER -> IF i.leaf[c] = "true" THEN "true" ELSE "false"
    IN E

\* Mutant: an operator nobody knows is accepted.
ValidAnyOp ==
    LET V[c \in Conds] ==
        CASE Kind[c] \in {"all", "any"} -> Kids[c] # <<>> /\ \A k \in 1..Len(Kids[c]) : V[Kids[c][k]]
          [] Kind[c] = "not" -> V[Kids[c][1]]
          [] OTHER -> Shape[c] \in {"ok", "engineonly", "badop"}
    IN V

\* PolicyEngine._validate_condition
Valid ==
    LET V[c \in Conds] ==
        CASE Kind[c] \in {"all", "any"} -> Kids[c] # <<>> /\ \A k \in 1..Len(Kids[c]) : V[Kids[c][k]]
          [] Kind[c] = "not" -> V[Kids[c][1]]
          [] OTHER -> Shape[c] \in {"ok", "engineonly"}
    IN V

\* The service's own _matches: an action key and one comparison, no
\* combinators, neither "exists" nor "not_in".
Matches(r, i) ==
    /\ ActKey[r.cond] \in {None, i.action}
    /\ r.type = "content" => i.content
    /\ \/ Kind[r.cond] = "leaf" /\ Shape[r.cond] = "ok" /\ i.leaf[r.cond] = "true"
       \/ (Kind[r.cond] # "leaf" \/ Shape[r.cond] = "nokeys") /\ ActKey[r.cond] # None

\* The engine takes the rules whose type the action starts with; a rule that
\* raises is skipped.
Triggers(r, i) == r.type \in i.types /\ Evaluate(i)[r.cond] = "true"

\* The answers that are possible when the rules of hits apply: a blocking rule of
\* the least priority decides; the query leaves rules of one priority unordered.
Verdicts(hits) ==
    LET block == {r \in hits : r.action \in Blocking}
    IN IF block = {} THEN {"allow"}
       ELSE {r.action : r \in {q \in block : \A o \in block : q.priority <= o.priority}}

-----------------------------------------------------------------------------
(* Editing the stored rules.  A request reads the row, flushes its change   *)
(* (and then holds the row lock) and commits when the response is ready.    *)

Rows == {rules[n] : n \in {m \in Names : rules[m] # None}}
Active == {r \in Rows : r.enabled}

NoEdit == [pc |-> "idle", via |-> "service", op |-> "none", name |-> None, old |-> None, new |-> None]

\* SQLAlchemy emits no statement for an object that did not change.
Touches(e) == e.new # e.old

\* Another request has an uncommitted change of rule n: the row lock, or the
\* unique index on the name, makes this one wait.
Locked(a, n) == \E b \in Admins \ {a} : admin[b].name = n /\ admin[b].pc \in {"clear", "commit"} /\ Touches(admin[b])

Begin(a, e) ==
    /\ focus = "stored" /\ admin[a].pc = "idle"
    /\ edits < MaxEdits
    /\ edits' = edits + 1
    /\ admin' = [admin EXCEPT ![a] = e]

\* create_rule; the engine's checks the condition first, the service's does not
CreateRule(a, via, n, p) ==
    /\ via = "engine" => Valid[p.cond]
    /\ Begin(a, [pc |-> "loaded", via |-> via, op |-> "create", name |-> n, old |-> None,
                 new |-> NewRow(p, edits)])
    /\ UNCHANGED <<rules, cache, caller, asks, registry, faults>>

\* update_rule: the fields of the PATCH, a set, are set to the payload's values
UpdateRule(a, via, n, F, p) ==
    /\ rules[n] # None
    /\ via = "engine" /\ "cond" \in F => Valid[p.cond]
    /\ Begin(a, [pc |-> "loaded", via |-> via, op |-> "update", name |-> n, old |-> rules[n],
                 new |-> [f \in Fields |-> IF f \in F THEN p[f] ELSE rules[n][f]]])
    /\ UNCHANGED <<rules, cache, caller, asks, registry, faults>>

\* toggle_rule: the service flips what it read
ToggleRule(a, n) ==
    /\ rules[n] # None
    /\ Begin(a, [pc |-> "loaded", via |-> "service", op |-> "update", name |-> n, old |-> rules[n],
                 new |-> [rules[n] EXCEPT !.enabled = ~@]])
    /\ UNCHANGED <<rules, cache, caller, asks, registry, faults>>

\* delete_rule exists in the service only
DeleteRule(a, n) ==
    /\ rules[n] # None
    /\ Begin(a, [pc |-> "loaded", via |-> "service", op |-> "delete", name |-> n, old |-> rules[n], new |-> None])
    /\ UNCHANGED <<rules, cache, caller, asks, registry, faults>>

\* the row that was read is still there
Standing(e) == rules[e.name] # None /\ rules[e.name].id = e.old.id

\* Mutant: an UPDATE that finds no row inserts it.
ConflictsNever(e) == e.op = "create" /\ rules[e.name] # None

\* session.flush() raises: the name exists, or an UPDATE matches no row.  A
\* DELETE that matches no row only warns.
Conflicts(e) ==
    \/ e.op = "create" /\ rules[e.name] # None
    \/ e.op = "update" /\ Touches(e) /\ ~Standing(e)

Flush(a) ==
    LET e == admin[a] IN
    /\ e.pc = "loaded"
    /\ Touches(e) => ~Locked(a, e.name)
    /\ admin' = [admin EXCEPT ![a] = IF Conflicts(e) THEN NoEdit
                                     ELSE [e EXCEPT !.pc = IF e.via = "engine" THEN "clear" ELSE "commit"]]
    /\ UNCHANGED <<rules, cache, caller, edits, asks, registry, faults>>

\* _invalidate_cache, which only logs a failure
Invalidate(a) ==
    /\ admin[a].pc = "clear"
    /\ admin' = [admin EXCEPT ![a].pc = "commit"]
    /\ \/ cache' = None /\ UNCHANGED faults
       \/ Fault /\ UNCHANGED cache
    /\ UNCHANGED <<rules, caller, edits, asks, registry>>

\* Mutant: the UPDATE writes every column of the object.
WrittenWhole(e) == IF e.op = "delete" /\ ~Standing(e) THEN rules[e.name] ELSE e.new

\* The row that the flushed statement leaves: an UPDATE names the columns that
\* differ from what was read, and no others.
Written(e) ==
    CASE e.op = "create" -> e.new
      [] e.op = "delete" -> IF Standing(e) THEN None ELSE rules[e.name]
      [] e.op = "update" /\ ~Touches(e) -> rules[e.name]
      [] OTHER -> [f \in Fields |-> IF e.new[f] # e.old[f] \/ ~Standing(e) THEN e.new[f] ELSE rules[e.name][f]]

\* get_db_session commits after the handler has returned
Commit(a) ==
    LET e == admin[a] IN
    /\ e.pc = "commit"
    /\ rules' = [rules EXCEPT ![e.name] = Written(e)]
    /\ admin' = [admin EXCEPT ![a] = NoEdit]
    /\ UNCHANGED <<cache, caller, edits, asks, registry, faults>>

-----------------------------------------------------------------------------
(* Evaluating the stored rules.                                             *)

NoAsk == [pc |-> "idle", via |-> "service", input |-> None, list |-> {}, answer |-> "none"]

\* PolicyService.evaluate_action: one query, then no await
AskService(e, i) ==
    /\ focus = "stored" /\ caller[e].pc = "idle" /\ asks < MaxAsks
    /\ asks' = asks + 1
    /\ \E v \in Verdicts({r \in Active : Matches(r, i)}) :
          caller' = [caller EXCEPT ![e] = [pc |-> "idle", via |-> "service", input |-> i, list |-> Active, answer |-> v]]
    /\ UNCHANGED <<rules, cache, admin, edits, registry, faults>>

Answered(e, i, S) ==
    \E v \in Verdicts({r \in S : Triggers(r, i)}) :
        caller' = [caller EXCEPT ![e] = [pc |-> "idle", via |-> "engine", input |-> i, list |-> S, answer |-> v]]

\* PolicyEngine._load_active_rules: GET, then the query, then SET
AskEngine(e, i) ==
    /\ focus = "stored" /\ caller[e].pc = "idle" /\ asks < MaxAsks
    /\ asks' = asks + 1
    /\ \/ cache # None /\ Answered(e, i, cache) /\ UNCHANGED faults
       \/ /\ IF cache = None THEN UNCHANGED faults ELSE Fault
          /\ caller' = [caller EXCEPT ![e] = [pc |-> "query", via |-> "engine", input |-> i, list |-> {}, answer |-> "none"]]
    /\ UNCHANGED <<rules, cache, admin, edits, registry>>

Query(e) ==
    /\ caller[e].pc = "query"
    /\ caller' = [caller EXCEPT ![e].pc = "set", ![e].list = Active]
    /\ UNCHANGED <<rules, cache, admin, edits, asks, registry, faults>>

SetCache(e) ==
    /\ caller[e].pc = "set"
    /\ \/ cache' = caller[e].list /\ UNCHANGED faults
       \/ Fault /\ UNCHANGED cache
    /\ Answered(e, caller[e].input, caller[e].list)
    /\ UNCHANGED <<rules, admin, edits, asks, registry>>

\* Mutant: SET without ex=.
ExpireNever == FALSE /\ UNCHANGED vars

\* the key is set with ex=300
Expire ==
    /\ cache # None
    /\ cache' = None
    /\ UNCHANGED <<rules, admin, caller, edits, asks, registry, faults>>

-----------------------------------------------------------------------------
(* The built-in rules.  Each says "allow", "deny", "escalate" or "abstain"  *)
(* of a context c; a rule that raises counts as an abstention.              *)

Sensitive == {"payment", "deploy", "destructive"}

\* trust in tenths: hard floor 0.4, allow floor 0.6; amount 0 is also "none"
TrustFloor(c) ==
    IF (c.category # "payment" /\ c.verb # "pay") \/ c.amount = 0 THEN "abstain"
    ELSE IF c.trust = None THEN "deny"
    ELSE IF c.trust < 4 THEN "deny" ELSE IF c.trust < 6 THEN "escalate" ELSE "allow"

PiiGuard(c) == IF c.category = "pii_access" \/ c.tool = "pii" THEN "escalate" ELSE "abstain"

\* No caller gives the rule both a tool name and a Redis handle.
RateLimit(c) == "abstain"

IsMemoryWrite(c) == c.category = "memory_write" \/ c.verb = "write_memory"

MemoryWriteAttribution(c) ==
    IF ~IsMemoryWrite(c) THEN "abstain" ELSE IF c.did = "supported" THEN "allow" ELSE "deny"

SignatureRequires(c) ==
    IF ~IsMemoryWrite(c) THEN "abstain" ELSE IF c.signed THEN "allow" ELSE "deny"

\* thresholds 10 and 50; float() of an override that is no number raises
CostCaps(c) ==
    IF c.cost = None \/ c.garbled THEN "abstain"
    ELSE IF c.cost >= 50 THEN "deny" ELSE IF c.cost >= 10 THEN "escalate" ELSE "allow"

CredentialRequires(c) ==
    IF ~c.needCred \/ c.category \notin Sensitive THEN "abstain" ELSE IF c.cred THEN "allow" ELSE "deny"

TimeOfDay(c) ==
    IF c.category \notin Sensitive THEN "abstain" ELSE IF c.hour \in 8..19 THEN "allow" ELSE "escalate"

Delegation(c) ==
    IF c.category # "delegation" /\ c.verb # "delegate_task" THEN "abstain" ELSE IF c.depth > 2 THEN "escalate" ELSE "allow"

UnknownTool(c) ==
    IF c.tool = None \/ c.known = None THEN "abstain" ELSE IF c.tool \in c.known THEN "abstain" ELSE "deny"

Builtin == {"trust_floor", "pii_guard", "rate_limit", "attribution", "signature", "cost_caps",
            "credential", "time_of_day", "delegation", "unknown_tool"}

\* set_enabled refuses a name that is not registered
ASSUME SwitchedAssumption == Switched \subseteq Builtin

Priority == [trust_floor |-> 10, pii_guard |-> 15, rate_limit |-> 20, attribution |-> 25, signature |-> 26,
             cost_caps |-> 30, credential |-> 35, time_of_day |-> 40, delegation |-> 50, unknown_tool |-> 999]

Vote(c) ==
    [trust_floor |-> TrustFloor(c), pii_guard |-> PiiGuard(c), rate_limit |-> RateLimit(c),
     attribution |-> MemoryWriteAttribution(c), signature |-> SignatureRequires(c), cost_caps |-> CostCaps(c),
     credential |-> CredentialRequires(c), time_of_day |-> TimeOfDay(c), delegation |-> Delegation(c),
     unknown_tool |-> UnknownTool(c)]

\* Mutant: the loop stops at the first rule that takes a stand.
ConsultedUntilAny(S, c) ==
    {r \in S : \A q \in S : Priority[q] < Priority[r] => Vote(c)[q] \notin {"deny", "escalate"}}

\* evaluate asks the rules of S in order of priority and stops at a denial.
Consulted(S, c) == {r \in S : \A q \in S : Priority[q] < Priority[r] => Vote(c)[q] # "deny"}

\* aggregate: deny, then escalate, then allow, then abstain; the first rule
\* with that vote gives the reason
Aggregate(S, c) ==
    LET says(v) == {r \in S : Vote(c)[r] = v}
        action == IF says("deny") # {} THEN "deny" ELSE IF says("escalate") # {} THEN "escalate"
                  ELSE IF says("allow") # {} THEN "allow" ELSE "abstain"
    IN [action |-> action,
        rule |-> IF action = "abstain" THEN None
                 ELSE CHOOSE r \in says(action) : \A q \in says(action) : Priority[r] <= Priority[q],
        contributing |-> S \ says("abstain")]

Decide(S, c) == Aggregate(Consulted(S, c), c)

-----------------------------------------------------------------------------
(* The registry at work.                                                    *)

NoGate == [pc |-> "idle", proc |-> None, ctx |-> None, force |-> {}, decision |-> None, task |-> "none"]

\* the policy gate of the scheduler, for one task of the batch
GateTask(p, c) ==
    /\ focus = "registry" /\ gate.pc = "idle" /\ gates < MaxGates
    /\ c.site = "scheduler"
    /\ gates' = gates + 1
    /\ gate' = [pc |-> IF enabled[p] = {} THEN "idle" ELSE "audit", proc |-> p, ctx |-> c, force |-> enabled[p],
                decision |-> Decide(enabled[p], c), task |-> IF enabled[p] = {} THEN "runs" ELSE "none"]
    /\ UNCHANGED <<stored, enabled, trail, focus, faults>>

\* evaluate_registry: a dry run over the named rules, the disabled ones too
DryRun(p, c, S) ==
    /\ focus = "registry" /\ gate.pc = "idle" /\ gates < MaxGates
    /\ c.site = "api"
    /\ gates' = gates + 1
    /\ gate' = [pc |-> "idle", proc |-> p, ctx |-> c, force |-> S, decision |-> Decide(S, c), task |-> "none"]
    /\ UNCHANGED <<stored, enabled, trail, focus, faults>>

\* record_decision: an abstention is not written, a failing write is logged
Audit ==
    /\ gate.pc = "audit"
    /\ gate' = [gate EXCEPT !.pc = "apply"]
    /\ \/ /\ trail' = IF gate.decision.action = "abstain" THEN trail ELSE trail \cup {gate.decision}
          /\ UNCHANGED faults
       \/ gate.decision.action # "abstain" /\ Fault /\ UNCHANGED trail
    /\ UNCHANGED <<stored, enabled, focus, gates>>

\* what the scheduler makes of the decision
Apply ==
    /\ gate.pc = "apply"
    /\ gate' = [gate EXCEPT !.pc = "idle",
                            !.task = CASE gate.decision.action = "deny" -> "skipped"
                                       [] gate.decision.action = "escalate" -> "asks"
                                       [] OTHER -> "runs"]
    /\ UNCHANGED <<stored, enabled, trail, focus, gates, faults>>

\* set_enabled, in the process that serves the request
SetEnabled(p, r, on) ==
    /\ focus = "registry" /\ (r \in enabled[p]) # on
    /\ enabled' = [enabled EXCEPT ![p] = IF on THEN @ \cup {r} ELSE @ \ {r}]
    /\ UNCHANGED <<stored, gate, trail, focus, gates, faults>>

\* a process starts again: importing the rules registers them switched on
Restart(p) ==
    /\ focus = "registry" /\ Fault
    /\ gate.proc # p \/ gate.pc = "idle"
    /\ enabled' = [enabled EXCEPT ![p] = Builtin]
    /\ UNCHANGED <<stored, gate, trail, focus, gates>>

-----------------------------------------------------------------------------
Init ==
    /\ rules = [n \in Names |-> None]
    /\ cache = None
    /\ admin = [a \in Admins |-> NoEdit]
    /\ caller = [e \in Callers |-> NoAsk]
    /\ enabled = [p \in Processes |-> Builtin]
    /\ gate = NoGate
    /\ trail = {}
    /\ focus \in {"stored", "registry"}
    /\ edits = 0 /\ asks = 0 /\ gates = 0 /\ faults = 0

Edit(a) ==
    \/ \E n \in Names, p \in Payloads, via \in {"service", "engine"} :
          CreateRule(a, via, n, p) \/ \E F \in Patches : UpdateRule(a, via, n, F, p)
    \/ \E n \in Names : ToggleRule(a, n) \/ DeleteRule(a, n)

AdminStep(a) == Flush(a) \/ Invalidate(a) \/ Commit(a)
CallerStep(e) == Query(e) \/ SetCache(e)

Next ==
    \/ \E a \in Admins : Edit(a) \/ AdminStep(a)
    \/ \E e \in Callers : CallerStep(e) \/ \E i \in Inputs : AskService(e, i) \/ AskEngine(e, i)
    \/ Expire
    \/ \E p \in Processes : \/ \E c \in Contexts : GateTask(p, c) \/ \E S \in {enabled[p], Switched} : DryRun(p, c, S)
                            \/ \E r \in Switched, on \in BOOLEAN : SetEnabled(p, r, on)
                            \/ Restart(p)
    \/ Audit \/ Apply

\* Requests run to their end; Redis expires the key.
Fairness ==
    /\ WF_vars(Expire)
    /\ \A a \in Admins : WF_vars(AdminStep(a))
    /\ \A e \in Callers : WF_vars(CallerStep(e))

Spec == Init /\ [][Next]_vars /\ Fairness

-----------------------------------------------------------------------------
Rule == [id : 0..MaxEdits, type : {"content", "access", "resource", "budget", "custom"}, cond : Conds,
         action : Blocking \cup {"allow", "flag", "log"}, priority : 1..1000, enabled : BOOLEAN]

TypeOK ==
    /\ rules \in [Names -> Rule \cup {None}]
    /\ cache = None \/ cache \subseteq Rule
    /\ \A a \in Admins : admin[a].pc \in {"idle", "loaded", "clear", "commit"}
    /\ \A e \in Callers : caller[e].answer \in Blocking \cup {"allow", "none"}
    /\ enabled \in [Processes -> SUBSET Builtin]
    /\ gate.task \in {"none", "runs", "skipped", "asks"}

\* A PATCH never takes back what a concurrent PATCH changed: a commit alters
\* the columns its own request set to something new, whatever the rest of the
\* row looked like when the request read it (update_rule, toggle_rule).
OnlyAskedColumns ==
    [][\A n \in Names, f \in Fields :
          rules[n] # None /\ rules'[n] # None /\ rules'[n][f] # rules[n][f] =>
              \E a \in Admins : admin[a].name = n /\ admin[a].pc = "commit" /\ admin[a].new[f] # admin[a].old[f]]_vars

\* A rule that was deleted comes back only through create_rule: a PATCH or a
\* toggle that read the row before the delete fails instead of writing it.
DeletedStaysDeleted ==
    [][\A n \in Names : rules[n] = None /\ rules'[n] # None =>
          \E a \in Admins : admin[a].name = n /\ admin[a].pc = "commit" /\ admin[a].op = "create"]_vars

\* A condition that the engine accepted never makes its rule drop out of an
\* evaluation: _validate_condition refuses whatever _evaluate_condition would
\* raise on, for every input and however the combinators nest.
AcceptedNeverRaises ==
    \A a \in Admins : LET e == admin[a] IN
        e.via = "engine" /\ e.pc # "idle" /\ (e.op = "create" \/ e.new.cond # e.old.cond) =>
            \A i \in Inputs : Evaluate(i)[e.new.cond] # "raise"

\* The built-in rules in force decide by precedence and not by priority: one
\* denial skips the task, wherever it stands in the order and whatever was
\* consulted before it, and one escalation sends it to a human otherwise.
PrecedenceNotOrder ==
    gate.decision # None =>
        LET votes == {Vote(gate.ctx)[r] : r \in gate.force}
            strongest == CHOOSE v \in {"deny", "escalate", "allow", "abstain"} :
                            /\ v \in votes \cup {"abstain"}
                            /\ "deny" \in votes => v = "deny"
                            /\ "escalate" \in votes => v \in {"deny", "escalate"}
                            /\ "allow" \in votes => v # "abstain"
        IN /\ gate.decision.action = strongest
           /\ gate.task = "skipped" => strongest = "deny"
           /\ gate.task = "runs" => strongest \in {"allow", "abstain"}

\* The engine does not apply an outdated rule list for ever, although a reader
\* may cache the old rules after the invalidation and before the commit, and
\* the service's edits invalidate nothing: the key expires.
StaleListEnds ==
    (cache # None /\ cache # Active) ~> (cache = None \/ cache = Active)

-----------------------------------------------------------------------------
(* Expectations that the repository states and the code does not meet.     *)

\* Every rule that denies is named (decision.py: "If more than one rule denies,
\* the first is canonical but the aggregated decision lists them all").
DeniersListed ==
    gate.decision # None =>
        \A r \in gate.force : Vote(gate.ctx)[r] = "deny" => r \in gate.decision.contributing

\* The rule list cached for the engine is the committed one (policy_engine.py:
\* "cached in Redis with a 5-minute TTL that is invalidated on any mutation").
CacheFresh == (\A a \in Admins : admin[a].pc = "idle") /\ (\A e \in Callers : caller[e].pc = "idle") =>
    cache = None \/ cache = Active

\* All processes apply the same built-in rules ("enabling/disabling rules is
\* just a matter of toggling the registry entry").
ProcessesAgree == \A p, q \in Processes : enabled[p] = enabled[q]
=============================================================================
