---------------------------- MODULE PolicyProofs ----------------------------
(***************************************************************************)
(* Proofs about Policy, for any rules, patches, administrators, processes  *)
(* and contexts.                                                           *)
(***************************************************************************)
EXTENDS Policy, FiniteSetTheorems, WellFoundedInduction, TLAPS

Votes(S, c) == {Vote(c)[r] : r \in S}

(* deny, then escalate, then allow, then abstain. *)
StrongestOf(votes) ==
    CHOOSE v \in {"deny", "escalate", "allow", "abstain"} :
        /\ v \in votes \cup {"abstain"}
        /\ "deny" \in votes => v = "deny"
        /\ "escalate" \in votes => v \in {"deny", "escalate"}
        /\ "allow" \in votes => v # "abstain"

LEMMA StrongestIs ==
  ASSUME NEW votes
  PROVE  StrongestOf(votes) = IF "deny" \in votes THEN "deny" ELSE IF "escalate" \in votes THEN "escalate"
                              ELSE IF "allow" \in votes THEN "allow" ELSE "abstain"
<1> DEFINE P(v) == /\ v \in votes \cup {"abstain"}
                   /\ "deny" \in votes => v = "deny"
                   /\ "escalate" \in votes => v \in {"deny", "escalate"}
                   /\ "allow" \in votes => v # "abstain"
           s == IF "deny" \in votes THEN "deny" ELSE IF "escalate" \in votes THEN "escalate"
                ELSE IF "allow" \in votes THEN "allow" ELSE "abstain"
           Four == {"deny", "escalate", "allow", "abstain"}
<1>1. s \in Four /\ P(s)
  OBVIOUS
<1>2. \A v \in Four : P(v) => v = s
  OBVIOUS
<1>3. StrongestOf(votes) = CHOOSE v \in Four : P(v)
  BY DEF StrongestOf
<1> HIDE DEF P, s, Four
<1>4. QED
  BY <1>1, <1>2, <1>3 DEF s

(* The natural numbers are well ordered. *)
LEMMA LeastNat ==
  ASSUME NEW T \in SUBSET Nat, T # {}
  PROVE  \E x \in T : \A y \in T : x <= y
<1>1. PICK x \in T : \A y \in T : ~ (<<y, x>> \in OpToRel(<, Nat))
  BY WFMin, NatLessThanWellFounded
<1>2. \A y \in T : ~ (y < x)
  BY <1>1 DEF OpToRel
<1>3. QED
  BY <1>2

(* Stopping at the first denial does not lose a denial: of the rules that  *)
(* deny, one of the least priority is always consulted.                    *)
LEMMA DenialIsReached ==
  ASSUME NEW S \in SUBSET Builtin, NEW c, NEW r \in S, Vote(c)[r] = "deny"
  PROVE  \E d \in Consulted(S, c) : Vote(c)[d] = "deny"
<1>1. \A q \in Builtin : Priority[q] \in Nat
  BY DEF Builtin, Priority
<1> DEFINE D == {q \in S : Vote(c)[q] = "deny"}
           T == {Priority[q] : q \in D}
<1>2. T \in SUBSET Nat /\ T # {}
  BY <1>1
<1>3. PICK x \in T : \A y \in T : x <= y
  BY <1>2, LeastNat
<1>4. PICK d \in D : x = Priority[d]
  BY <1>3
<1>5. \A q \in S : Priority[q] < Priority[d] => Vote(c)[q] # "deny"
  BY <1>1, <1>3, <1>4
<1>6. QED
  BY <1>4, <1>5 DEF Consulted

(* The registry's answer is the strongest vote of the rules in force.      *)
LEMMA DecideIsStrongest ==
  ASSUME NEW S \in SUBSET Builtin, NEW c
  PROVE  Decide(S, c).action = StrongestOf(Votes(S, c))
<1> DEFINE C == Consulted(S, c)
           says(v) == {r \in C : Vote(c)[r] = v}
           action == IF says("deny") # {} THEN "deny" ELSE IF says("escalate") # {} THEN "escalate"
                     ELSE IF says("allow") # {} THEN "allow" ELSE "abstain"
<1>1. Decide(S, c).action = action
  BY DEF Decide, Aggregate
<1>2. says("deny") # {} <=> "deny" \in Votes(S, c)
  BY DenialIsReached DEF Votes, Consulted
<1>3. "deny" \notin Votes(S, c) => C = S
  BY DEF Votes, Consulted
<1>4. "deny" \notin Votes(S, c) => \A v : says(v) # {} <=> v \in Votes(S, c)
  BY <1>3 DEF Votes
<1>5. action = IF "deny" \in Votes(S, c) THEN "deny" ELSE IF "escalate" \in Votes(S, c) THEN "escalate"
               ELSE IF "allow" \in Votes(S, c) THEN "allow" ELSE "abstain"
  BY <1>2, <1>4
<1>6. QED
  BY <1>1, <1>5, StrongestIs

-----------------------------------------------------------------------------
(* The last evaluation answered for the rules that were in force when it   *)
(* began, and the scheduler did what the answer says.                      *)
GateInv ==
    /\ enabled \in [Processes -> SUBSET Builtin]
    /\ gate = [pc |-> gate.pc, proc |-> gate.proc, ctx |-> gate.ctx, force |-> gate.force,
               decision |-> gate.decision, task |-> gate.task]
    /\ \/ gate = NoGate
       \/ /\ gate.force \in SUBSET Builtin
          /\ gate.decision = Decide(gate.force, gate.ctx)
          /\ gate.task = "skipped" => gate.decision.action = "deny"
          /\ gate.task = "runs" => gate.decision.action \in {"allow", "abstain"}

LEMMA GateNext == GateInv /\ [Next]_vars => GateInv'
<1> SUFFICES ASSUME GateInv, [Next]_vars PROVE GateInv'
  OBVIOUS
<1>a. \A S \in SUBSET Builtin : \A c : Decide(S, c).action \in {"deny", "escalate", "allow", "abstain"}
  BY DecideIsStrongest, StrongestIs
<1>b. \A c : Decide({}, c).action = "abstain"
  BY DEF Decide, Aggregate, Consulted
<1>1. CASE UNCHANGED <<enabled, gate>>
  BY <1>1 DEF GateInv
<1>2. ASSUME NEW p \in Processes, NEW c, GateTask(p, c)
      PROVE  GateInv'
  <2>1. enabled[p] \in SUBSET Builtin /\ UNCHANGED enabled
    BY <1>2 DEF GateInv, GateTask
  <2>2. /\ gate'.force = enabled[p] /\ gate'.ctx = c /\ gate'.decision = Decide(enabled[p], c)
        /\ gate'.task = IF enabled[p] = {} THEN "runs" ELSE "none"
        /\ gate' = [pc |-> gate'.pc, proc |-> gate'.proc, ctx |-> gate'.ctx, force |-> gate'.force,
                    decision |-> gate'.decision, task |-> gate'.task]
    BY <1>2 DEF GateTask
  <2>3. QED
    BY <1>b, <2>1, <2>2 DEF GateInv
<1>3. ASSUME NEW p \in Processes, NEW c, NEW S \in {enabled[p], Switched}, DryRun(p, c, S)
      PROVE  GateInv'
  <2>1. S \in SUBSET Builtin /\ UNCHANGED enabled
    BY <1>3, SwitchedAssumption DEF GateInv, DryRun
  <2>2. /\ gate'.force = S /\ gate'.ctx = c /\ gate'.decision = Decide(S, c) /\ gate'.task = "none"
        /\ gate' = [pc |-> gate'.pc, proc |-> gate'.proc, ctx |-> gate'.ctx, force |-> gate'.force,
                    decision |-> gate'.decision, task |-> gate'.task]
    BY <1>3 DEF DryRun
  <2>3. QED
    BY <2>1, <2>2 DEF GateInv
<1>4. CASE Audit
  <2>1. gate # NoGate
    BY <1>4 DEF Audit, NoGate
  <2>2. gate' = [gate EXCEPT !.pc = "apply"] /\ UNCHANGED enabled
    BY <1>4 DEF Audit
  <2>3. QED
    BY <2>1, <2>2 DEF GateInv
<1>5. CASE Apply
  <2>1. gate # NoGate
    BY <1>5 DEF Apply, NoGate
  <2>2. PICK t : /\ gate' = [gate EXCEPT !.pc = "idle", !.task = t] /\ UNCHANGED enabled
                 /\ t = CASE gate.decision.action = "deny" -> "skipped"
                           [] gate.decision.action = "escalate" -> "asks"
                           [] OTHER -> "runs"
    BY <1>5 DEF Apply
  <2>3. gate.decision.action \in {"deny", "escalate", "allow", "abstain"}
    BY <1>a, <2>1 DEF GateInv
  <2>4. /\ t = "skipped" => gate.decision.action = "deny"
        /\ t = "runs" => gate.decision.action \in {"allow", "abstain"}
    BY <2>2, <2>3
  <2>5. QED
    BY <2>1, <2>2, <2>4 DEF GateInv
<1>6. ASSUME NEW p \in Processes, NEW r \in Switched, NEW on \in BOOLEAN, SetEnabled(p, r, on)
      PROVE  GateInv'
  <2>1. enabled' \in [Processes -> SUBSET Builtin]
    BY <1>6, SwitchedAssumption DEF GateInv, SetEnabled
  <2>2. QED
    BY <1>6, <2>1 DEF GateInv, SetEnabled
<1>7. ASSUME NEW p \in Processes, Restart(p)
      PROVE  GateInv'
  BY <1>7 DEF GateInv, Restart
<1>8. ASSUME NEW a \in Admins, Edit(a) \/ AdminStep(a)
      PROVE  GateInv'
  <2>1. UNCHANGED <<enabled, gate>>
    BY <1>8 DEF Edit, AdminStep, CreateRule, UpdateRule, ToggleRule, DeleteRule, Flush, Invalidate, Commit, registry
  <2>2. QED
    BY <1>1, <2>1
<1>9. ASSUME NEW e \in Callers, CallerStep(e) \/ \E i \in Inputs : AskService(e, i) \/ AskEngine(e, i)
      PROVE  GateInv'
  <2>1. UNCHANGED <<enabled, gate>>
    BY <1>9 DEF CallerStep, Query, SetCache, AskService, AskEngine, registry
  <2>2. QED
    BY <1>1, <2>1
<1>10. CASE Expire \/ UNCHANGED vars
  BY <1>1, <1>10 DEF Expire, registry, vars
<1>11. QED
  BY <1>2, <1>3, <1>4, <1>5, <1>6, <1>7, <1>8, <1>9, <1>10 DEF Next

(* For any built-in rules in force in any process, and any context: one    *)
(* denial skips the task wherever it stands in the order, one escalation   *)
(* sends it to a human otherwise, although the evaluation stops early.     *)
THEOREM PrecedenceAlways == Spec => []PrecedenceNotOrder
<1>1. Init => GateInv
  BY DEF Init, GateInv, NoGate
<1>2. GateInv => PrecedenceNotOrder
  <2> SUFFICES ASSUME GateInv, gate.decision # None
               PROVE  LET votes == {Vote(gate.ctx)[r] : r \in gate.force}
                          strongest == StrongestOf(votes)
                      IN /\ gate.decision.action = strongest
                         /\ gate.task = "skipped" => strongest = "deny"
                         /\ gate.task = "runs" => strongest \in {"allow", "abstain"}
    BY DEF PrecedenceNotOrder, StrongestOf
  <2>1. gate # NoGate
    BY DEF NoGate
  <2>2. gate.decision.action = StrongestOf(Votes(gate.force, gate.ctx))
    BY <2>1, DecideIsStrongest DEF GateInv
  <2>3. QED
    BY <2>1, <2>2 DEF GateInv, Votes
<1>3. QED
  BY <1>1, <1>2, GateNext, PTL DEF Spec

-----------------------------------------------------------------------------
IsEdit(e) == e = [pc |-> e.pc, via |-> e.via, op |-> e.op, name |-> e.name, old |-> e.old, new |-> e.new]

(* The row lock, or the unique index, is held. *)
Holds(e) == e.pc \in {"clear", "commit"} /\ Touches(e)

EditsOK ==
    /\ edits \in 0..MaxEdits
    /\ rules = [n \in Names |-> rules[n]]
    /\ admin = [a \in Admins |-> admin[a]]
    /\ \A a \in Admins : IsEdit(admin[a])
    /\ \A a \in Admins : admin[a].pc # "idle" =>
          /\ admin[a].name \in Names /\ admin[a].op \in {"create", "update", "delete"}
          /\ admin[a].op = "create" => admin[a].old = None /\ admin[a].new # None
          /\ admin[a].op = "delete" => admin[a].old # None /\ admin[a].new = None

(* At most one request holds the lock of a row. *)
Exclusive ==
    \A a, b \in Admins : a # b /\ Holds(admin[a]) /\ Holds(admin[b]) => admin[a].name # admin[b].name

(* What the flush found is still so at the commit. *)
FlushHolds ==
    \A a \in Admins : Holds(admin[a]) =>
        /\ admin[a].op = "create" => rules[admin[a].name] = None
        /\ admin[a].op = "update" => Standing(admin[a])

RowInv == EditsOK /\ Exclusive /\ FlushHolds

(* A request that begins has no lock yet. *)
LEMMA BeginEffect ==
  ASSUME RowInv, NEW a \in Admins, NEW e, Begin(a, e), UNCHANGED rules,
         IsEdit(e), e.pc = "loaded", e.name \in Names, e.op \in {"create", "update", "delete"},
         e.op = "create" => e.old = None /\ e.new # None,
         e.op = "delete" => e.old # None /\ e.new = None
  PROVE  RowInv'
<1>1. admin' = [admin EXCEPT ![a] = e] /\ edits < MaxEdits /\ edits' = edits + 1
  BY DEF Begin
<1>2. admin'[a] = e /\ (\A b \in Admins \ {a} : admin'[b] = admin[b])
      /\ admin' = [b \in Admins |-> admin'[b]]
  BY <1>1 DEF RowInv, EditsOK
<1>3. edits' \in 0..MaxEdits
  BY <1>1, PolicyAssumption DEF RowInv, EditsOK
<1>4. EditsOK'
  BY <1>2, <1>3 DEF RowInv, EditsOK, IsEdit
<1>5. ~ Holds(admin'[a])
  BY <1>2 DEF Holds
<1>6. QED
  BY <1>2, <1>4, <1>5 DEF RowInv, Exclusive, FlushHolds, Standing

LEMMA RowNext == RowInv /\ [Next]_vars => RowInv'
<1> SUFFICES ASSUME RowInv, [Next]_vars PROVE RowInv'
  OBVIOUS
<1>0. CASE UNCHANGED <<rules, admin, edits>>
  BY <1>0 DEF RowInv, EditsOK, Exclusive, FlushHolds, Standing, Holds, Touches, IsEdit
<1>1. ASSUME NEW a \in Admins, NEW n \in Names, NEW p \in Payloads, NEW via, CreateRule(a, via, n, p)
      PROVE  RowInv'
  <2>1. NewRow(p, edits) # None
    BY NoneAssumption DEF RowInv, EditsOK
  <2> DEFINE e == [pc |-> "loaded", via |-> via, op |-> "create", name |-> n, old |-> None, new |-> NewRow(p, edits)]
  <2>2. Begin(a, e) /\ UNCHANGED rules
    BY <1>1 DEF CreateRule
  <2>3. /\ IsEdit(e) /\ e.pc = "loaded" /\ e.name \in Names /\ e.op = "create" /\ e.old = None
        /\ e.new # None
    BY <2>1 DEF IsEdit
  <2> HIDE DEF e
  <2>4. QED
    BY <2>2, <2>3, BeginEffect
<1>2. ASSUME NEW a \in Admins, NEW n \in Names, NEW p \in Payloads, NEW via, NEW F, UpdateRule(a, via, n, F, p)
      PROVE  RowInv'
  <2> DEFINE e == [pc |-> "loaded", via |-> via, op |-> "update", name |-> n, old |-> rules[n],
                   new |-> [f \in Fields |-> IF f \in F THEN p[f] ELSE rules[n][f]]]
  <2>1. Begin(a, e) /\ UNCHANGED rules
    BY <1>2 DEF UpdateRule
  <2>2. IsEdit(e) /\ e.pc = "loaded" /\ e.name \in Names /\ e.op = "update"
    BY DEF IsEdit
  <2> HIDE DEF e
  <2>3. QED
    BY <2>1, <2>2, BeginEffect
<1>3. ASSUME NEW a \in Admins, NEW n \in Names, ToggleRule(a, n)
      PROVE  RowInv'
  <2> DEFINE e == [pc |-> "loaded", via |-> "service", op |-> "update", name |-> n, old |-> rules[n],
                   new |-> [rules[n] EXCEPT !.enabled = ~@]]
  <2>1. Begin(a, e) /\ UNCHANGED rules
    BY <1>3 DEF ToggleRule
  <2>2. IsEdit(e) /\ e.pc = "loaded" /\ e.name \in Names /\ e.op = "update"
    BY DEF IsEdit
  <2> HIDE DEF e
  <2>3. QED
    BY <2>1, <2>2, BeginEffect
<1>4. ASSUME NEW a \in Admins, NEW n \in Names, DeleteRule(a, n)
      PROVE  RowInv'
  <2> DEFINE e == [pc |-> "loaded", via |-> "service", op |-> "delete", name |-> n, old |-> rules[n], new |-> None]
  <2>1. Begin(a, e) /\ UNCHANGED rules /\ rules[n] # None
    BY <1>4 DEF DeleteRule
  <2>2. /\ IsEdit(e) /\ e.pc = "loaded" /\ e.name \in Names /\ e.op = "delete" /\ e.new = None
        /\ e.old # None
    BY <2>1 DEF IsEdit
  <2> HIDE DEF e
  <2>3. QED
    BY <2>1, <2>2, BeginEffect
<1>5. ASSUME NEW a \in Admins, Flush(a)
      PROVE  RowInv'
  <2> DEFINE e == admin[a]
             new == IF Conflicts(e) THEN NoEdit
                    ELSE [e EXCEPT !.pc = IF e.via = "engine" THEN "clear" ELSE "commit"]
  <2>1. /\ e.pc = "loaded" /\ (Touches(e) => ~ Locked(a, e.name))
        /\ admin' = [admin EXCEPT ![a] = new] /\ UNCHANGED <<rules, edits>>
    BY <1>5 DEF Flush
  <2>2. admin'[a] = new /\ (\A b \in Admins \ {a} : admin'[b] = admin[b])
        /\ admin' = [b \in Admins |-> admin'[b]]
    BY <2>1 DEF RowInv, EditsOK
  <2>3. CASE Conflicts(e)
    <3>1. new = NoEdit /\ NoEdit.pc = "idle" /\ IsEdit(NoEdit)
      BY <2>3 DEF NoEdit, IsEdit
    <3> HIDE DEF new
    <3>2. QED
      BY <2>1, <2>2, <3>1 DEF RowInv, EditsOK, Exclusive, FlushHolds, Standing, Holds
  <2>4. CASE ~ Conflicts(e)
    <3>1. /\ new.pc \in {"clear", "commit"} /\ new.op = e.op /\ new.name = e.name
          /\ new.old = e.old /\ new.new = e.new /\ IsEdit(new)
      BY <2>4 DEF RowInv, EditsOK, IsEdit
    <3> HIDE DEF new
    <3>2. EditsOK'
      BY <2>1, <2>2, <3>1 DEF RowInv, EditsOK, IsEdit
    <3>3. Touches(new) <=> Touches(e)
      BY <3>1 DEF Touches
    <3>4. \A b \in Admins \ {a} : Holds(new) /\ Holds(admin[b]) => admin[b].name # new.name
      BY <2>1, <3>1, <3>3 DEF Locked, Holds
    <3>5. Exclusive'
      BY <2>2, <3>4 DEF RowInv, Exclusive, Holds, Touches
    <3>6. /\ new.op = "create" => rules[new.name] = None
          /\ new.op = "update" /\ Touches(new) => Standing(new)
      BY <2>4, <3>1, <3>3 DEF Conflicts, Standing
    <3>7. FlushHolds'
      BY <2>1, <2>2, <3>6 DEF RowInv, FlushHolds, Holds, Touches, Standing
    <3>8. QED
      BY <3>2, <3>5, <3>7 DEF RowInv
  <2>5. QED
    BY <2>3, <2>4
<1>6. ASSUME NEW a \in Admins, Invalidate(a)
      PROVE  RowInv'
  <2> DEFINE new == [admin[a] EXCEPT !.pc = "commit"]
  <2>1. /\ admin[a].pc = "clear" /\ admin' = [admin EXCEPT ![a] = new] /\ UNCHANGED <<rules, edits>>
    BY <1>6 DEF Invalidate
  <2>2. admin'[a] = new /\ (\A b \in Admins \ {a} : admin'[b] = admin[b])
        /\ admin' = [b \in Admins |-> admin'[b]]
    BY <2>1 DEF RowInv, EditsOK
  <2>3. /\ new.pc = "commit" /\ new.op = admin[a].op /\ new.name = admin[a].name
        /\ new.old = admin[a].old /\ new.new = admin[a].new /\ IsEdit(new)
    BY DEF RowInv, EditsOK, IsEdit
  <2> HIDE DEF new
  <2>4. EditsOK'
    BY <2>1, <2>2, <2>3 DEF RowInv, EditsOK, IsEdit
  <2>5. \A b \in Admins : Holds(admin'[b]) => Holds(admin[b]) /\ admin'[b].name = admin[b].name
    BY <2>1, <2>2, <2>3 DEF Holds, Touches
  <2>6. \A b \in Admins : admin'[b].op = admin[b].op /\ admin'[b].old = admin[b].old
    BY <2>2, <2>3
  <2>7. QED
    BY <2>1, <2>4, <2>5, <2>6 DEF RowInv, Exclusive, FlushHolds, Standing
<1>7. ASSUME NEW a \in Admins, Commit(a)
      PROVE  RowInv'
  <2> DEFINE e == admin[a]
  <2>1. /\ e.pc = "commit" /\ admin' = [admin EXCEPT ![a] = NoEdit] /\ UNCHANGED edits
        /\ rules' = [rules EXCEPT ![e.name] = Written(e)]
    BY <1>7 DEF Commit
  <2>2. admin'[a] = NoEdit /\ (\A b \in Admins \ {a} : admin'[b] = admin[b])
        /\ admin' = [b \in Admins |-> admin'[b]]
        /\ rules' = [n \in Names |-> rules'[n]]
        /\ (\A n \in Names \ {e.name} : rules'[n] = rules[n]) /\ e.name \in Names
        /\ rules'[e.name] = Written(e)
    BY <2>1 DEF RowInv, EditsOK
  <2>3. NoEdit.pc = "idle" /\ IsEdit(NoEdit)
    BY DEF NoEdit, IsEdit
  <2>4. EditsOK'
    BY <2>1, <2>2, <2>3 DEF RowInv, EditsOK, IsEdit
  <2>5. Exclusive'
    BY <2>2, <2>3 DEF RowInv, Exclusive, Holds
  <2>6. ~ Touches(e) => rules'[e.name] = rules[e.name]
    BY <2>1, <2>2 DEF RowInv, EditsOK, Written, Touches
  <2>7. \A b \in Admins \ {a} : Holds(admin[b]) => rules'[admin[b].name] = rules[admin[b].name]
    BY <2>1, <2>2, <2>6 DEF RowInv, EditsOK, Exclusive, Holds
  <2>8. FlushHolds'
    BY <2>2, <2>3, <2>7 DEF RowInv, FlushHolds, Standing, Holds
  <2>9. QED
    BY <2>4, <2>5, <2>8 DEF RowInv
<1>8. CASE \E a \in Admins : Edit(a) \/ AdminStep(a)
  BY <1>1, <1>2, <1>3, <1>4, <1>5, <1>6, <1>7, <1>8 DEF Edit, AdminStep
<1>9. ASSUME NEW e \in Callers, CallerStep(e) \/ \E i \in Inputs : AskService(e, i) \/ AskEngine(e, i)
      PROVE  RowInv'
  <2>1. UNCHANGED <<rules, admin, edits>>
    BY <1>9 DEF CallerStep, Query, SetCache, AskService, AskEngine
  <2>2. QED
    BY <1>0, <2>1
<1>10. ASSUME NEW p \in Processes, \/ \E c \in Contexts : GateTask(p, c) \/ \E S \in {enabled[p], Switched} : DryRun(p, c, S)
                                   \/ \E r \in Switched, on \in BOOLEAN : SetEnabled(p, r, on)
                                   \/ Restart(p)
       PROVE  RowInv'
  <2>1. UNCHANGED <<rules, admin, edits>>
    BY <1>10 DEF GateTask, DryRun, SetEnabled, Restart, stored
  <2>2. QED
    BY <1>0, <2>1
<1>11. CASE Expire \/ Audit \/ Apply \/ UNCHANGED vars
  BY <1>0, <1>11 DEF Expire, Audit, Apply, stored, vars
<1>12. QED
  BY <1>8, <1>9, <1>10, <1>11 DEF Next

(* Only a commit changes the table. *)
LEMMA CommitsOnly ==
  ASSUME RowInv, [Next]_vars, NEW n \in Names, rules'[n] # rules[n]
  PROVE  \E a \in Admins : admin[a].pc = "commit" /\ admin[a].name = n /\ rules'[n] = Written(admin[a])
                         /\ Touches(admin[a])
<1>1. \E a \in Admins : Commit(a)
  BY Zenon DEF Next, vars, Edit, AdminStep, CallerStep, CreateRule, UpdateRule, ToggleRule, DeleteRule, Flush, Invalidate,
               Query, SetCache, AskService, AskEngine, Expire, GateTask, DryRun, SetEnabled, Restart, Audit, Apply, stored
<1>2. PICK a \in Admins : Commit(a)
  BY <1>1
<1>3. admin[a].pc = "commit" /\ rules' = [rules EXCEPT ![admin[a].name] = Written(admin[a])]
  BY <1>2 DEF Commit
<1>4. admin[a].name = n /\ rules'[n] = Written(admin[a])
  BY <1>3 DEF RowInv, EditsOK
<1>5. Touches(admin[a])
  BY <1>3, <1>4 DEF RowInv, EditsOK, Written, Touches
<1>6. QED
  BY <1>3, <1>4, <1>5

LEMMA RowAlways == Spec => []RowInv
<1>1. Init => RowInv
  <2>1. NoEdit.pc = "idle" /\ IsEdit(NoEdit)
    BY DEF NoEdit, IsEdit
  <2>2. QED
    BY <2>1, PolicyAssumption DEF Init, RowInv, EditsOK, Exclusive, FlushHolds, Holds
<1>2. QED
  BY <1>1, RowNext, PTL DEF Spec

(* For any number of concurrent edits: a commit alters only the columns    *)
(* that its own request set to something new, although the request read    *)
(* the row before others committed.                                        *)
THEOREM AskedColumnsOnly == Spec => OnlyAskedColumns
<1> DEFINE A == \A n \in Names, f \in Fields :
                  rules[n] # None /\ rules'[n] # None /\ rules'[n][f] # rules[n][f] =>
                      \E a \in Admins : admin[a].name = n /\ admin[a].pc = "commit" /\ admin[a].new[f] # admin[a].old[f]
<1>1. RowInv /\ [Next]_vars => A
  <2> SUFFICES ASSUME RowInv, [Next]_vars, NEW n \in Names, NEW f \in Fields,
                      rules[n] # None, rules'[n] # None, rules'[n][f] # rules[n][f]
               PROVE  \E a \in Admins : admin[a].name = n /\ admin[a].pc = "commit" /\ admin[a].new[f] # admin[a].old[f]
    OBVIOUS
  <2>1. PICK a \in Admins : admin[a].pc = "commit" /\ admin[a].name = n /\ rules'[n] = Written(admin[a]) /\ Touches(admin[a])
    BY CommitsOnly
  <2>2. admin[a].op = "update" /\ Standing(admin[a])
    BY <2>1 DEF RowInv, EditsOK, FlushHolds, Holds, Written
  <2>3. rules'[n] = [g \in Fields |-> IF admin[a].new[g] # admin[a].old[g] THEN admin[a].new[g] ELSE rules[n][g]]
    BY <2>1, <2>2 DEF Written
  <2>4. admin[a].new[f] # admin[a].old[f]
    BY <2>3
  <2>5. QED
    BY <2>1, <2>4
<1>2. QED
  BY <1>1, RowAlways, PTL DEF Spec, OnlyAskedColumns

(* For any number of concurrent edits: a deleted rule comes back only      *)
(* through create_rule; an edit that read the row before the delete fails  *)
(* at its flush, and the row lock keeps a delete from slipping in after.   *)
THEOREM DeletedRemainsDeleted == Spec => DeletedStaysDeleted
<1> DEFINE A == \A n \in Names : rules[n] = None /\ rules'[n] # None =>
                  \E a \in Admins : admin[a].name = n /\ admin[a].pc = "commit" /\ admin[a].op = "create"
<1>1. RowInv /\ [Next]_vars => A
  <2> SUFFICES ASSUME RowInv, [Next]_vars, NEW n \in Names, rules[n] = None, rules'[n] # None
               PROVE  \E a \in Admins : admin[a].name = n /\ admin[a].pc = "commit" /\ admin[a].op = "create"
    OBVIOUS
  <2>1. PICK a \in Admins : admin[a].pc = "commit" /\ admin[a].name = n /\ rules'[n] = Written(admin[a]) /\ Touches(admin[a])
    BY CommitsOnly
  <2>2. admin[a].op = "create"
    BY <2>1 DEF RowInv, EditsOK, FlushHolds, Holds, Standing, Written
  <2>3. QED
    BY <2>1, <2>2
<1>2. QED
  BY <1>1, RowAlways, PTL DEF Spec, DeletedStaysDeleted

(***************************************************************************)
(* Conditions.  Both recursions go from a document to its parts; their     *)
(* equations have a solution because documents have a depth, shown with a  *)
(* smallest counterexample, and so is what the evaluation says of a        *)
(* document that the validation accepts.                                   *)
(***************************************************************************)

(* One step of _evaluate_condition and of _validate_condition, F being     *)
(* what is known of the parts.                                             *)
Says(i, c, F) ==
    LET Until(v) == FirstThat(Kids[c], LAMBDA k : F[k] # v)
        Stop(v) == IF Until(v) = {} THEN v ELSE F[Kids[c][CHOOSE k \in Until(v) : TRUE]]
    IN CASE Kind[c] = "all" -> Stop("true")
         [] Kind[c] = "any" -> Stop("false")
         [] Kind[c] = "not" -> LET v == F[Kids[c][1]]
                               IN IF v = "raise" THEN v ELSE IF v = "true" THEN "false" ELSE "true"
         [] Kind[c] = "leaf" /\ Shape[c] \in {"badop", "nokeys"} -> "raise"
         [] OTHER -> IF i.leaf[c] = "true" THEN "true" ELSE "false"

Accepts(c, F) ==
    CASE Kind[c] \in {"all", "any"} -> Kids[c] # <<>> /\ \A k \in 1..Len(Kids[c]) : F[Kids[c][k]]
      [] Kind[c] = "not" -> F[Kids[c][1]]
      [] OTHER -> Shape[c] \in {"ok", "engineonly"}

LEMMA KidsAre ==
  ASSUME NEW c \in Conds
  PROVE  /\ Len(Kids[c]) \in Nat /\ \A k \in 1..Len(Kids[c]) : Kids[c][k] \in Conds
         /\ Kind[c] \in {"all", "any", "not", "leaf"}
         /\ Kind[c] = "not" => Len(Kids[c]) = 1
BY PolicyAssumption

(* A step looks at the parts only. *)
LEMMA SaysLocal ==
  ASSUME NEW i, NEW c \in Conds, NEW F, NEW G, \A k \in 1..Len(Kids[c]) : F[Kids[c][k]] = G[Kids[c][k]]
  PROVE  Says(i, c, F) = Says(i, c, G)
<1> DEFINE U(H, v) == {k \in 1..Len(Kids[c]) : H[Kids[c][k]] # v /\ \A j \in 1..(k - 1) : ~(H[Kids[c][j]] # v)}
           St(H, v) == IF U(H, v) = {} THEN v ELSE H[Kids[c][CHOOSE k \in U(H, v) : TRUE]]
<1>1. \A v : U(F, v) = U(G, v)
  BY KidsAre
<1>2. \A v : U(F, v) # {} => (CHOOSE k \in U(F, v) : TRUE) \in 1..Len(Kids[c])
  OBVIOUS
<1>3. ASSUME NEW v PROVE St(F, v) = St(G, v)
  <2>1. U(F, v) = U(G, v)
    BY <1>1
  <2>2. U(F, v) # {} => (CHOOSE k \in U(F, v) : TRUE) \in 1..Len(Kids[c])
    BY <1>2
  <2> HIDE DEF U
  <2>3. QED
    BY <2>1, <2>2
<1>4. Kind[c] = "not" => F[Kids[c][1]] = G[Kids[c][1]]
  BY KidsAre
<1>5. ASSUME NEW H
      PROVE  Says(i, c, H) = CASE Kind[c] = "all" -> St(H, "true")
                               [] Kind[c] = "any" -> St(H, "false")
                               [] Kind[c] = "not" -> LET v == H[Kids[c][1]]
                                                     IN IF v = "raise" THEN v ELSE IF v = "true" THEN "false" ELSE "true"
                               [] Kind[c] = "leaf" /\ Shape[c] \in {"badop", "nokeys"} -> "raise"
                               [] OTHER -> IF i.leaf[c] = "true" THEN "true" ELSE "false"
  BY DEF Says, FirstThat
<1> HIDE DEF St
<1>6. QED
  BY <1>3, <1>4, <1>5, KidsAre

LEMMA AcceptsLocal ==
  ASSUME NEW c \in Conds, NEW F, NEW G, \A k \in 1..Len(Kids[c]) : F[Kids[c][k]] = G[Kids[c][k]]
  PROVE  Accepts(c, F) = Accepts(c, G)
<1>1. Kind[c] = "not" => F[Kids[c][1]] = G[Kids[c][1]]
  BY KidsAre
<1>2. QED
  BY <1>1, KidsAre DEF Accepts

(* The depth of documents. *)
Depths(d) == d \in [Conds -> Nat] /\ \A c \in Conds : \A k \in 1..Len(Kids[c]) : d[Kids[c][k]] < d[c]

LEMMA DepthExists == \E d : Depths(d) /\ \E m \in Nat : \A c \in Conds : d[c] <= m
<1>1. Cardinality(Conds) \in Nat
  BY DepthAssumption, FS_CardinalityType
<1>2. PICK d \in [Conds -> 0..Cardinality(Conds)] : \A c \in Conds : \A k \in 1..Len(Kids[c]) : d[Kids[c][k]] < d[c]
  BY DepthAssumption
<1>3. d \in [Conds -> Nat] /\ \A c \in Conds : d[c] <= Cardinality(Conds)
  BY <1>1, <1>2
<1>4. Depths(d)
  BY <1>2, <1>3 DEF Depths
<1>5. QED
  BY <1>1, <1>3, <1>4

LEMMA SaysSolved ==
  ASSUME NEW i
  PROVE  \E E : E = [c \in Conds |-> Says(i, c, E)]
<1>1. PICK d : Depths(d) /\ \E m \in Nat : \A c \in Conds : d[c] <= m
  BY DepthExists
<1>2. PICK m \in Nat : \A c \in Conds : d[c] <= m
  BY <1>1
<1> DEFINE D(n) == {c \in Conds : d[c] <= n}
           Good(n, f) == f = [c \in D(n) |-> f[c]] /\ \A c \in D(n) : f[c] = Says(i, c, f)
           T == {n \in Nat : ~ \E f : Good(n, f)}
<1>3. \A c \in Conds : d[c] \in Nat /\ \A k \in 1..Len(Kids[c]) : Kids[c][k] \in Conds /\ d[Kids[c][k]] < d[c]
  BY <1>1, KidsAre DEF Depths
<1>4. T = {}
  <2> SUFFICES ASSUME T # {} PROVE FALSE
    OBVIOUS
  <2>0. T \subseteq Nat
    OBVIOUS
  <2>1. PICK n \in T : \A k \in T : n <= k
    <3> HIDE DEF T
    <3>1. QED
      BY <2>0, LeastNat
  <2>2. \E f : \A c \in D(n) : \A k \in 1..Len(Kids[c]) : Kids[c][k] \in D(n) /\ f[Kids[c][k]] = Says(i, Kids[c][k], f)
    <3>1. CASE n = 0
      <4>1. \A c \in D(0) : \A k \in 1..Len(Kids[c]) : FALSE
        BY <1>3
      <4>2. QED
        BY <3>1, <4>1
    <3>2. CASE n # 0
      <4>1. n - 1 \in Nat /\ n - 1 \notin T
        <5> HIDE DEF T
        <5>1. QED
          BY <2>0, <2>1, <3>2
      <4>2. PICK f : Good(n - 1, f)
        BY <4>1
      <4>3. \A c \in D(n) : \A k \in 1..Len(Kids[c]) : Kids[c][k] \in D(n - 1) /\ Kids[c][k] \in D(n)
        BY <1>3, <2>0, <2>1
      <4>4. QED
        BY <4>2, <4>3
    <3>3. QED
      BY <3>1, <3>2
  <2>3. PICK f : \A c \in D(n) : \A k \in 1..Len(Kids[c]) : Kids[c][k] \in D(n) /\ f[Kids[c][k]] = Says(i, Kids[c][k], f)
    BY <2>2
  <2> DEFINE h == [c \in D(n) |-> Says(i, c, f)]
  <2>4. \A c \in D(n) : \A k \in 1..Len(Kids[c]) : h[Kids[c][k]] = f[Kids[c][k]]
    BY <2>3
  <2>5. \A c \in D(n) : h[c] = Says(i, c, h)
    <3> SUFFICES ASSUME NEW c \in D(n) PROVE Says(i, c, f) = Says(i, c, h)
      OBVIOUS
    <3>1. c \in Conds /\ \A k \in 1..Len(Kids[c]) : f[Kids[c][k]] = h[Kids[c][k]]
      BY <2>4
    <3> HIDE DEF h
    <3>2. QED
      BY <3>1, SaysLocal
  <2>6. h = [c \in D(n) |-> h[c]]
    OBVIOUS
  <2> HIDE DEF h
  <2>7. Good(n, h)
    BY <2>5, <2>6
  <2>8. QED
    BY <2>1, <2>7
<1>5. PICK f : Good(m, f)
  BY <1>4
<1>6. D(m) = Conds
  BY <1>2
<1> HIDE DEF D
<1>7. QED
  BY <1>5, <1>6

LEMMA AcceptsSolved == \E V : V = [c \in Conds |-> Accepts(c, V)]
<1>1. PICK d : Depths(d) /\ \E m \in Nat : \A c \in Conds : d[c] <= m
  BY DepthExists
<1>2. PICK m \in Nat : \A c \in Conds : d[c] <= m
  BY <1>1
<1> DEFINE D(n) == {c \in Conds : d[c] <= n}
           Good(n, f) == f = [c \in D(n) |-> f[c]] /\ \A c \in D(n) : f[c] = Accepts(c, f)
           T == {n \in Nat : ~ \E f : Good(n, f)}
<1>3. \A c \in Conds : d[c] \in Nat /\ \A k \in 1..Len(Kids[c]) : Kids[c][k] \in Conds /\ d[Kids[c][k]] < d[c]
  BY <1>1, KidsAre DEF Depths
<1>4. T = {}
  <2> SUFFICES ASSUME T # {} PROVE FALSE
    OBVIOUS
  <2>0. T \subseteq Nat
    OBVIOUS
  <2>1. PICK n \in T : \A k \in T : n <= k
    <3> HIDE DEF T
    <3>1. QED
      BY <2>0, LeastNat
  <2>2. \E f : \A c \in D(n) : \A k \in 1..Len(Kids[c]) : Kids[c][k] \in D(n) /\ f[Kids[c][k]] = Accepts(Kids[c][k], f)
    <3>1. CASE n = 0
      <4>1. \A c \in D(0) : \A k \in 1..Len(Kids[c]) : FALSE
        BY <1>3
      <4>2. QED
        BY <3>1, <4>1
    <3>2. CASE n # 0
      <4>1. n - 1 \in Nat /\ n - 1 \notin T
        <5> HIDE DEF T
        <5>1. QED
          BY <2>0, <2>1, <3>2
      <4>2. PICK f : Good(n - 1, f)
        BY <4>1
      <4>3. \A c \in D(n) : \A k \in 1..Len(Kids[c]) : Kids[c][k] \in D(n - 1) /\ Kids[c][k] \in D(n)
        BY <1>3, <2>0, <2>1
      <4>4. QED
        BY <4>2, <4>3
    <3>3. QED
      BY <3>1, <3>2
  <2>3. PICK f : \A c \in D(n) : \A k \in 1..Len(Kids[c]) : Kids[c][k] \in D(n) /\ f[Kids[c][k]] = Accepts(Kids[c][k], f)
    BY <2>2
  <2> DEFINE h == [c \in D(n) |-> Accepts(c, f)]
  <2>4. \A c \in D(n) : \A k \in 1..Len(Kids[c]) : h[Kids[c][k]] = f[Kids[c][k]]
    BY <2>3
  <2>5. \A c \in D(n) : h[c] = Accepts(c, h)
    <3> SUFFICES ASSUME NEW c \in D(n) PROVE Accepts(c, f) = Accepts(c, h)
      OBVIOUS
    <3>1. c \in Conds /\ \A k \in 1..Len(Kids[c]) : f[Kids[c][k]] = h[Kids[c][k]]
      BY <2>4
    <3> HIDE DEF h
    <3>2. QED
      BY <3>1, AcceptsLocal
  <2>6. h = [c \in D(n) |-> h[c]]
    OBVIOUS
  <2> HIDE DEF h
  <2>7. Good(n, h)
    BY <2>5, <2>6
  <2>8. QED
    BY <2>1, <2>7
<1>5. PICK f : Good(m, f)
  BY <1>4
<1>6. D(m) = Conds
  BY <1>2
<1> HIDE DEF D
<1>7. QED
  BY <1>5, <1>6

LEMMA EvaluateIs ==
  ASSUME NEW i, NEW c \in Conds
  PROVE  Evaluate(i)[c] = Says(i, c, Evaluate(i))
<1> DEFINE X == CHOOSE E : E = [b \in Conds |-> Says(i, b, E)]
<1>1. Evaluate(i) = X
  BY DEF Evaluate, Says
<1>2. X = [b \in Conds |-> Says(i, b, X)]
  BY SaysSolved
<1> HIDE DEF X
<1>3. QED
  BY <1>1, <1>2

LEMMA ValidIs ==
  ASSUME NEW c \in Conds
  PROVE  Valid[c] = Accepts(c, Valid)
<1> DEFINE X == CHOOSE V : V = [b \in Conds |-> Accepts(b, V)]
<1>1. Valid = X
  BY DEF Valid, Accepts
<1>2. X = [b \in Conds |-> Accepts(b, X)]
  BY AcceptsSolved
<1> HIDE DEF X
<1>3. QED
  BY <1>1, <1>2

(* If no part raises, a combinator does not. *)
LEMMA SaysCalm ==
  ASSUME NEW i, NEW c \in Conds, NEW F, \A k \in 1..Len(Kids[c]) : F[Kids[c][k]] # "raise",
         Kind[c] = "leaf" => Shape[c] \in {"ok", "engineonly"}
  PROVE  Says(i, c, F) # "raise"
<1> DEFINE U(v) == {k \in 1..Len(Kids[c]) : F[Kids[c][k]] # v /\ \A j \in 1..(k - 1) : ~(F[Kids[c][j]] # v)}
           St(v) == IF U(v) = {} THEN v ELSE F[Kids[c][CHOOSE k \in U(v) : TRUE]]
<1>1. ASSUME NEW v, v # "raise" PROVE St(v) # "raise"
  <2>1. U(v) # {} => (CHOOSE k \in U(v) : TRUE) \in 1..Len(Kids[c])
    OBVIOUS
  <2> HIDE DEF U
  <2>2. QED
    BY <1>1, <2>1
<1>2. Kind[c] = "not" => F[Kids[c][1]] # "raise"
  BY KidsAre
<1>3. Says(i, c, F) = CASE Kind[c] = "all" -> St("true")
                        [] Kind[c] = "any" -> St("false")
                        [] Kind[c] = "not" -> LET v == F[Kids[c][1]]
                                              IN IF v = "raise" THEN v ELSE IF v = "true" THEN "false" ELSE "true"
                        [] Kind[c] = "leaf" /\ Shape[c] \in {"badop", "nokeys"} -> "raise"
                        [] OTHER -> IF i.leaf[c] = "true" THEN "true" ELSE "false"
  BY DEF Says, FirstThat
<1>4. St("true") # "raise" /\ St("false") # "raise"
  BY <1>1
<1> HIDE DEF St
<1>5. CASE Kind[c] = "all"
  BY <1>3, <1>4, <1>5
<1>6. CASE Kind[c] = "any"
  BY <1>3, <1>4, <1>6
<1>7. CASE Kind[c] = "not"
  BY <1>2, <1>3, <1>7
<1>8. CASE Kind[c] = "leaf"
  BY <1>3, <1>8
<1>9. QED
  BY <1>5, <1>6, <1>7, <1>8, KidsAre

(* What _validate_condition accepts, _evaluate_condition never raises on,  *)
(* however deeply the document nests.                                      *)
LEMMA ValidNeverRaises ==
  ASSUME NEW i, NEW c0 \in Conds, Valid[c0]
  PROVE  Evaluate(i)[c0] # "raise"
<1> DEFINE Bad == {c \in Conds : Valid[c] /\ Evaluate(i)[c] = "raise"}
<1>1. PICK d : Depths(d)
  BY DepthExists
<1> DEFINE T == {d[c] : c \in Bad}
<1>2. T = {}
  <2> SUFFICES ASSUME T # {} PROVE FALSE
    OBVIOUS
  <2>1. T \in SUBSET Nat
    BY <1>1 DEF Depths
  <2>2. PICK n \in T : \A k \in T : n <= k
    <3> HIDE DEF T
    <3>1. QED
      BY <2>1, LeastNat
  <2>3. PICK c \in Bad : d[c] = n
    BY <2>2
  <2>4. c \in Conds /\ Valid[c] /\ Evaluate(i)[c] = "raise"
    BY <2>3
  <2>5. \A k \in 1..Len(Kids[c]) : Kids[c][k] \in Conds /\ d[Kids[c][k]] < n /\ d[Kids[c][k]] \in Nat /\ n \in Nat
    BY <1>1, <2>3, <2>4, KidsAre DEF Depths
  <2>6. \A k \in 1..Len(Kids[c]) : Kids[c][k] \notin Bad
    <3> SUFFICES ASSUME NEW k \in 1..Len(Kids[c]), Kids[c][k] \in Bad PROVE FALSE
      OBVIOUS
    <3>1. d[Kids[c][k]] \in T
      OBVIOUS
    <3> HIDE DEF T, Bad
    <3>2. QED
      BY <2>2, <2>5, <3>1
  <2>7. Accepts(c, Valid)
    BY <2>4, ValidIs
  <2>8. /\ Kind[c] = "leaf" => Shape[c] \in {"ok", "engineonly"}
        /\ Kind[c] \in {"all", "any"} => \A k \in 1..Len(Kids[c]) : Valid[Kids[c][k]]
        /\ Kind[c] = "not" => \A k \in 1..Len(Kids[c]) : Valid[Kids[c][k]]
    BY <2>4, <2>7, KidsAre DEF Accepts
  <2>9. \A k \in 1..Len(Kids[c]) : Kind[c] # "leaf" => Evaluate(i)[Kids[c][k]] # "raise"
    BY <2>4, <2>5, <2>6, <2>8, KidsAre
  <2>10. Says(i, c, Evaluate(i)) # "raise"
    <3>1. CASE Kind[c] # "leaf"
      BY <2>4, <2>8, <2>9, <3>1, SaysCalm
    <3>2. CASE Kind[c] = "leaf"
      BY <2>8, <3>2 DEF Says
    <3>3. QED
      BY <3>1, <3>2
  <2>11. QED
    BY <2>4, <2>10, EvaluateIs
<1>3. QED
  BY <1>2

(* What an edit of the engine is about to store has been validated, unless *)
(* it leaves the condition as it was.                                      *)
CheckedOK ==
    /\ admin = [a \in Admins |-> admin[a]]
    /\ \A a \in Admins : LET e == admin[a] IN
        e.via = "engine" /\ e.pc # "idle" /\ (e.op = "create" \/ e.new.cond # e.old.cond) =>
            e.new.cond \in Conds /\ Valid[e.new.cond]


LEMMA CheckedNext == CheckedOK /\ [Next]_vars => CheckedOK'
<1> SUFFICES ASSUME CheckedOK, [Next]_vars PROVE CheckedOK'
  OBVIOUS
<1> DEFINE Fine(e) == e.via = "engine" /\ e.pc # "idle" /\ (e.op = "create" \/ e.new.cond # e.old.cond) =>
                        e.new.cond \in Conds /\ Valid[e.new.cond]
<1>0. ASSUME NEW a \in Admins, NEW e, Fine(e), admin' = [admin EXCEPT ![a] = e]
      PROVE  CheckedOK'
  <2>1. admin' = [b \in Admins |-> admin'[b]] /\ admin'[a] = e /\ \A b \in Admins \ {a} : admin'[b] = admin[b]
    BY <1>0 DEF CheckedOK
  <2>2. QED
    BY <1>0, <2>1 DEF CheckedOK
<1>1. ASSUME NEW a \in Admins, NEW n \in Names, NEW p \in Payloads, NEW via, CreateRule(a, via, n, p)
      PROVE  CheckedOK'
  <2> DEFINE e == [pc |-> "loaded", via |-> via, op |-> "create", name |-> n, old |-> None, new |-> NewRow(p, edits)]
  <2>1. (via = "engine" => Valid[p.cond]) /\ admin' = [admin EXCEPT ![a] = e]
    BY <1>1 DEF CreateRule, Begin
  <2>2. e.new.cond = p.cond /\ p.cond \in Conds /\ e.via = via
    BY PolicyAssumption DEF NewRow, Fields
  <2> HIDE DEF e
  <2>3. QED
    BY <1>0, <2>1, <2>2
<1>2. ASSUME NEW a \in Admins, NEW n \in Names, NEW p \in Payloads, NEW via, NEW F, UpdateRule(a, via, n, F, p)
      PROVE  CheckedOK'
  <2> DEFINE r == [f \in Fields |-> IF f \in F THEN p[f] ELSE rules[n][f]]
             e == [pc |-> "loaded", via |-> via, op |-> "update", name |-> n, old |-> rules[n], new |-> r]
  <2>1. (via = "engine" /\ "cond" \in F => Valid[p.cond]) /\ admin' = [admin EXCEPT ![a] = e]
    BY <1>2 DEF UpdateRule, Begin
  <2>2. r.cond = IF "cond" \in F THEN p.cond ELSE rules[n].cond
    BY DEF Fields
  <2>3. p.cond \in Conds
    BY PolicyAssumption
  <2> HIDE DEF r
  <2>4. e.new.cond = r.cond /\ e.old = rules[n] /\ e.via = via /\ e.op = "update"
    OBVIOUS
  <2> HIDE DEF e
  <2>5. Fine(e)
    BY <2>1, <2>2, <2>3, <2>4
  <2>6. QED
    BY <1>0, <2>1, <2>5
<1>3. ASSUME NEW a \in Admins, NEW n \in Names, ToggleRule(a, n) \/ DeleteRule(a, n)
      PROVE  CheckedOK'
  <2>1. PICK e : e.via = "service" /\ admin' = [admin EXCEPT ![a] = e]
    BY <1>3 DEF ToggleRule, DeleteRule, Begin
  <2>2. Fine(e)
    BY <2>1
  <2>3. QED
    BY <1>0, <2>1, <2>2
<1>4. Fine(NoEdit)
  BY DEF NoEdit
<1>5. ASSUME NEW a \in Admins, Flush(a) \/ Invalidate(a) \/ Commit(a)
      PROVE  CheckedOK'
  <2>1. Fine(admin[a]) /\ (Flush(a) \/ Invalidate(a) => admin[a].pc # "idle")
    BY DEF CheckedOK, Flush, Invalidate
  <2>2. \/ admin' = [admin EXCEPT ![a] = NoEdit]
        \/ \E pc : admin' = [admin EXCEPT ![a] = [admin[a] EXCEPT !.pc = pc]] /\ admin[a].pc # "idle"
    BY <1>5, <2>1 DEF Flush, Invalidate, Commit
  <2>3. CASE admin' = [admin EXCEPT ![a] = NoEdit]
    BY <1>0, <1>4, <2>3
  <2>4. ASSUME NEW pc, admin' = [admin EXCEPT ![a] = [admin[a] EXCEPT !.pc = pc]], admin[a].pc # "idle"
        PROVE  CheckedOK'
    <3> DEFINE e == [admin[a] EXCEPT !.pc = pc]
    <3>1. e.via = admin[a].via /\ e.op = admin[a].op /\ e.old = admin[a].old /\ e.new = admin[a].new
      OBVIOUS
    <3> HIDE DEF e
    <3>2. Fine(e)
      BY <2>1, <2>4, <3>1
    <3>3. QED
      BY <1>0, <2>4, <3>2 DEF e
  <2>5. QED
    BY <2>2, <2>3, <2>4
<1>6. admin' = admin => CheckedOK'
  BY DEF CheckedOK
<1>7. \/ admin' = admin
      \/ \E a \in Admins : \/ \E n \in Names, p \in Payloads, via \in {"engine", "service"} :
                                CreateRule(a, via, n, p) \/ \E F \in Patches : UpdateRule(a, via, n, F, p)
                           \/ \E n \in Names : ToggleRule(a, n) \/ DeleteRule(a, n)
                           \/ Flush(a) \/ Invalidate(a) \/ Commit(a)
  BY Zenon DEF Next, vars, Edit, AdminStep, CallerStep, Query, SetCache, AskService, AskEngine, Expire, GateTask, DryRun,
               SetEnabled, Restart, Audit, Apply, stored
<1>8. QED
  BY <1>1, <1>2, <1>3, <1>5, <1>6, <1>7

(* No rule that the engine accepted drops out of an evaluation             *)
(* (PolicyEngine._validate_condition against _evaluate_condition), for     *)
(* documents of any depth and any width and for every input.               *)
THEOREM AcceptedNeverRaise == Spec => []AcceptedNeverRaises
<1>1. Init => CheckedOK
  <2>1. NoEdit.pc = "idle"
    BY DEF NoEdit
  <2>2. QED
    BY <2>1 DEF Init, CheckedOK
<1>2. CheckedOK => AcceptedNeverRaises
  BY ValidNeverRaises DEF CheckedOK, AcceptedNeverRaises
<1>3. QED
  BY <1>1, <1>2, CheckedNext, PTL DEF Spec
=============================================================================
