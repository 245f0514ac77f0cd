----------------------------- MODULE TasksProofs -----------------------------
(***************************************************************************)
(* Proofs about the task rows of Tasks: the scheduler's transaction and    *)
(* the override requests, for any tasks, gates, overriders and bounds.     *)
(***************************************************************************)
EXTENDS Tasks, TLAPS

Calls == [pc : {"idle", "waiting", "locked", "done", "refused"}, task : TaskIds \cup {None},
          act : Actions \cup {None}, st : Statuses \cup {None}]

(* The shape of what the two write. *)
RowTypes ==
    /\ row \in [TaskIds -> Row \cup {None}]
    /\ work \in [TaskIds -> Row \cup {None}]
    /\ obj \in [TaskIds -> Image \cup {None}]
    /\ dag \in [TaskIds -> Statuses]
    /\ sched \in [pc : {"idle", "batch", "gate", "process"}, active : SUBSET TaskIds]
    /\ saved \in [TaskIds -> Statuses] \cup {None}
    /\ call \in [Overriders -> Calls]
    /\ runs \in Nat /\ tries \in Nat

(* An override that waits or holds a lock is about a row that exists; the  *)
(* holder is the only one, the scheduler has not written the row, and the  *)
(* status that was read is the status of the row.                          *)
CallsOK ==
    \A o \in Overriders : call[o].pc \in {"waiting", "locked"} => call[o].task \in TaskIds /\ row[call[o].task] # None
LocksOK ==
    \A o \in Overriders : call[o].pc = "locked" =>
        /\ work[call[o].task] = None
        /\ call[o].st = row[call[o].task].st
        /\ \A p \in Overriders : call[p].pc = "locked" /\ call[p].task = call[o].task => p = o

Honest(r) == r.st = "completed" /\ ~r.forced => r.out = r.by

(* No output is newer than the execution in progress, and completed rows   *)
(* show the output of the execution that completed them.                   *)
RowsOK ==
    \A t \in TaskIds :
        /\ row[t] # None => Honest(row[t]) /\ row[t].out <= Attempt
        /\ work[t] # None => Honest(work[t]) /\ work[t].out <= Attempt

(* The object of a task that is still to be executed carries an older      *)
(* output than the one the execution makes: the new one is a change.       *)
BatchOK ==
    /\ sched.pc = "idle" => sched.active = {} /\ work = Nothing
    /\ sched.pc # "idle" => runs > 0
    /\ \A t \in TaskIds :
        /\ work[t] # None => obj[t] # None
        /\ obj[t] # None => obj[t].out <= Attempt
        /\ sched.pc # "idle" /\ obj[t] = None /\ row[t] # None => row[t].out < Attempt
        /\ sched.pc # "idle" /\ dag[t] = "pending" /\ obj[t] # None => obj[t].out < Attempt
        /\ t \in sched.active =>
              /\ dag[t] # "pending"
              /\ obj[t] # None /\ obj[t].st = "running" /\ obj[t].out < Attempt
              /\ row[t] # None \/ work[t] # None
              /\ sched.pc = "gate" => row[t] # None

TasksInv == RowTypes /\ CallsOK /\ LocksOK /\ RowsOK /\ BatchOK

USE RowAssumption

LEMMA TasksInvInit == Init => TasksInv
<1> SUFFICES ASSUME Init PROVE TasksInv
  OBVIOUS
<1> USE DEF Init, Nothing, Resting
<1>1. RowTypes
  BY DEF RowTypes, NoCall, Calls, Statuses
<1>2. CallsOK /\ LocksOK
  BY DEF CallsOK, LocksOK, NoCall
<1>3. RowsOK
  BY DEF RowsOK
<1>4. BatchOK
  BY DEF BatchOK
<1>5. QED
  BY <1>1, <1>2, <1>3, <1>4 DEF TasksInv

LEMMA TargetType ==
  ASSUME NEW s, NEW a
  PROVE  Target(s, a) \in Statuses \cup {None}
BY DEF Target, Statuses

(***************************************************************************)
(* What a flush of the scheduler's session does.                           *)
(***************************************************************************)

(* The object of t becomes n, and the row the session has in work is the   *)
(* old one or an honest new one, which a lock would not have let through.  *)
Touched(t, n) ==
    /\ n \in Image
    /\ obj' \in [TaskIds -> Image \cup {None}] /\ obj'[t] = n
    /\ work' \in [TaskIds -> Row \cup {None}]
    /\ \A u \in TaskIds \ {t} : obj'[u] = obj[u] /\ work'[u] = work[u]
    /\ \/ work'[t] = work[t]
       \/ ~Locked(t) /\ work'[t] \in Row /\ Honest(work'[t]) /\ work'[t].out <= Attempt
    /\ row[t] # None \/ work'[t] # None

LEMMA WriteTouches ==
  ASSUME TasksInv, NEW t \in sched.active, NEW new \in Image, new.st # "running",
         new.out = Attempt \/ (new.out = obj[t].out /\ new.st # "completed"), Write(t, new)
  PROVE  t \in TaskIds /\ Touched(t, new)
<1> USE DEF TasksInv
<1>1. t \in TaskIds /\ obj[t] \in Image /\ obj[t].st = "running" /\ obj[t].out < Attempt /\ Attempt \in Nat
  BY DEF RowTypes, BatchOK, Attempt
<1> DEFINE base == IF work[t] # None THEN work[t] ELSE row[t]
           w == Flushed(t, new)
<1>2. base \in Row /\ base.out <= Attempt
  BY <1>1 DEF RowTypes, BatchOK, RowsOK
<1>3. new # obj[t]
  BY <1>1
<1>4. /\ ~Locked(t)
      /\ work' = [work EXCEPT ![t] = w]
      /\ obj' = [obj EXCEPT ![t] = new]
  BY <1>3 DEF Write
<1>5. w = [base EXCEPT !.st = new.st, !.out = IF new.out = obj[t].out THEN @ ELSE new.out, !.forced = FALSE, !.by = Attempt]
  BY <1>1 DEF Flushed
<1> HIDE DEF base, w
<1>6. w \in Row /\ w.st = new.st /\ w.by = Attempt /\ w.out = IF new.out = obj[t].out THEN base.out ELSE new.out
  BY <1>1, <1>2, <1>5 DEF Row, Image
<1>7. Honest(w) /\ w.out <= Attempt
  BY <1>1, <1>2, <1>6 DEF Honest, Image
<1>8. QED
  BY <1>1, <1>4, <1>6, <1>7 DEF Touched, RowTypes

LEMMA UpsertTouches ==
  ASSUME TasksInv, NEW t \in TaskIds, sched.pc = "batch", dag[t] = "pending",
         NEW st \in {"running", "failed"}, Upserted(t, st)
  PROVE  \E n : Touched(t, n) /\ n.st = st /\ n.out < Attempt
<1> USE DEF TasksInv
<1>1. Attempt \in Nat /\ Attempt > 0
  BY DEF RowTypes, BatchOK, Attempt
<1>2. CASE row[t] = None /\ work[t] = None
  <2> DEFINE w == [st |-> st, out |-> 0, forced |-> FALSE, by |-> Attempt]
             n == [st |-> st, out |-> 0]
  <2>1. w \in Row /\ n \in Image /\ Honest(w) /\ w.out <= Attempt /\ n.st = st /\ n.out < Attempt
    BY <1>1 DEF Row, Image, Honest, Statuses
  <2>2. work' = [work EXCEPT ![t] = w] /\ obj' = [obj EXCEPT ![t] = n]
    BY <1>2 DEF Upserted
  <2>3. ~Locked(t)
    BY <1>2 DEF Locked, CallsOK
  <2> HIDE DEF w, n
  <2>4. Touched(t, n)
    BY <2>1, <2>2, <2>3 DEF Touched, RowTypes
  <2>5. QED
    BY <2>1, <2>4
<1>3. CASE ~(row[t] = None /\ work[t] = None)
  <2> DEFINE loaded == IF obj[t] # None THEN obj[t] ELSE [st |-> row[t].st, out |-> row[t].out]
             base == IF work[t] # None THEN work[t] ELSE row[t]
             n == [loaded EXCEPT !.st = st]
             w == [base EXCEPT !.st = st, !.forced = FALSE, !.by = Attempt]
  <2>1. /\ obj' = [obj EXCEPT ![t] = n]
        /\ IF loaded.st = st THEN UNCHANGED work ELSE ~Locked(t) /\ work' = [work EXCEPT ![t] = w]
    BY <1>3 DEF Upserted
  <2>2. base \in Row /\ base.out <= Attempt
    BY <1>3 DEF RowTypes, RowsOK
  <2>3. loaded \in Image /\ loaded.out < Attempt
    <3>1. CASE obj[t] # None
      BY <3>1 DEF RowTypes, BatchOK
    <3>2. CASE obj[t] = None
      <4>1. work[t] = None /\ row[t] \in Row /\ row[t].out < Attempt
        BY <1>3, <3>2 DEF RowTypes, BatchOK
      <4>2. QED
        BY <3>2, <4>1 DEF Row, Image
    <3>3. QED
      BY <3>1, <3>2
  <2> HIDE DEF loaded, base
  <2>4. n \in Image /\ n.st = st /\ n.out < Attempt
    BY <2>3 DEF Image, Statuses
  <2>5. w \in Row /\ w.st = st /\ w.out <= Attempt
    BY <2>2, <1>1 DEF Row, Statuses
  <2>6. Honest(w)
    BY <2>5 DEF Honest
  <2>7. row[t] # None \/ work[t] # None
    BY <1>3
  <2> HIDE DEF n, w
  <2>8. Touched(t, n)
    <3>1. CASE loaded.st = st
      BY <2>1, <2>4, <2>7, <3>1 DEF Touched, RowTypes
    <3>2. CASE loaded.st # st
      BY <2>1, <2>4, <2>5, <2>6, <3>2 DEF Touched, RowTypes
    <3>3. QED
      BY <3>1, <3>2
  <2>9. QED
    BY <2>4, <2>8
<1>4. QED
  BY <1>2, <1>3

(* A flush disturbs neither the overrides nor the honesty of the rows. *)
LEMMA TouchedKeeps ==
  ASSUME TasksInv, NEW t \in TaskIds, NEW n, Touched(t, n), UNCHANGED <<row, call>>,
         Attempt' \in Nat, Attempt' >= Attempt
  PROVE  CallsOK' /\ LocksOK' /\ RowsOK'
<1> USE DEF TasksInv
<1>0. Attempt \in Nat
  BY DEF Attempt, RowTypes
<1>1. CallsOK'
  BY DEF CallsOK
<1>2. LocksOK'
  <2> SUFFICES ASSUME NEW o \in Overriders, call[o].pc = "locked"
               PROVE  work'[call[o].task] = None
    BY DEF LocksOK
  <2>1. call[o].task \in TaskIds /\ work[call[o].task] = None
    BY DEF LocksOK, CallsOK
  <2>2. CASE call[o].task = t
    BY <2>1, <2>2 DEF Touched, Locked
  <2>3. CASE call[o].task # t
    BY <2>1, <2>3 DEF Touched
  <2>4. QED
    BY <2>2, <2>3
<1>3. RowsOK'
  <2> SUFFICES ASSUME NEW u \in TaskIds
               PROVE  /\ row[u] # None => Honest(row[u]) /\ row[u].out <= Attempt'
                      /\ work'[u] # None => Honest(work'[u]) /\ work'[u].out <= Attempt'
    BY DEF RowsOK
  <2>1. row[u] # None => Honest(row[u]) /\ row[u].out <= Attempt /\ row[u].out \in Nat
    BY DEF RowsOK, RowTypes, Row
  <2>2. work'[u] # None => Honest(work'[u]) /\ work'[u].out <= Attempt /\ work'[u].out \in Nat
    <3>1. work[u] # None => Honest(work[u]) /\ work[u].out <= Attempt /\ work[u].out \in Nat
      BY DEF RowsOK, RowTypes, Row
    <3>2. work'[u] = work[u] \/ (work'[u] \in Row /\ Honest(work'[u]) /\ work'[u].out <= Attempt)
      BY DEF Touched
    <3>3. QED
      BY <3>1, <3>2 DEF Row
  <2>3. QED
    BY <1>0, <2>1, <2>2
<1>4. QED
  BY <1>1, <1>2, <1>3

(***************************************************************************)
(* The scheduler's steps.                                                  *)
(***************************************************************************)

LEMMA PrepareKeeps ==
  ASSUME TasksInv, NEW t \in TaskIds, NEW funded \in BOOLEAN, Prepare(t, funded)
  PROVE  TasksInv'
<1> USE DEF TasksInv
<1> DEFINE st == IF funded THEN "running" ELSE "failed"
<1>1. PICK n : Touched(t, n) /\ n.st = st /\ n.out < Attempt
  BY UpsertTouches DEF Prepare
<1>2. /\ UNCHANGED <<row, call, runs, tries, saved>>
      /\ sched.pc = "batch"
      /\ dag' = [dag EXCEPT ![t] = st]
      /\ sched' = IF funded THEN [sched EXCEPT !.active = @ \cup {t}] ELSE sched
  BY DEF Prepare
<1>3. Attempt' = Attempt /\ Attempt \in Nat
  BY <1>2 DEF Attempt, RowTypes
<1>4. CallsOK' /\ LocksOK' /\ RowsOK'
  BY <1>1, <1>2, <1>3, TouchedKeeps DEF RowTypes
<1>5. /\ sched'.pc = "batch" /\ sched'.active \in SUBSET TaskIds
      /\ sched' \in [pc : {"idle", "batch", "gate", "process"}, active : SUBSET TaskIds]
      /\ \A u \in sched'.active : u \in sched.active \/ (u = t /\ funded)
  BY <1>2 DEF RowTypes
<1>6. RowTypes'
  <2>1. dag' \in [TaskIds -> Statuses]
    BY <1>2 DEF RowTypes, Statuses
  <2>2. QED
    BY <1>1, <1>2, <1>5, <2>1 DEF RowTypes, Touched
<1>7. BatchOK'
  <2>1. runs' > 0
    BY <1>2 DEF BatchOK
  <2>2. ASSUME NEW u \in TaskIds, u # t
        PROVE  /\ work'[u] # None => obj'[u] # None
               /\ obj'[u] # None => obj'[u].out <= Attempt
               /\ obj'[u] = None /\ row[u] # None => row[u].out < Attempt
               /\ dag'[u] = "pending" /\ obj'[u] # None => obj'[u].out < Attempt
               /\ u \in sched'.active =>
                     /\ dag'[u] # "pending"
                     /\ obj'[u] # None /\ obj'[u].st = "running" /\ obj'[u].out < Attempt
                     /\ row[u] # None \/ work'[u] # None
    <3>1. obj'[u] = obj[u] /\ work'[u] = work[u] /\ dag'[u] = dag[u] /\ (u \in sched'.active => u \in sched.active)
      BY <1>1, <1>2, <1>5, <2>2 DEF Touched, RowTypes
    <3>2. QED
      BY <1>2, <3>1 DEF BatchOK
  <2>3. /\ dag'[t] # "pending"
        /\ obj'[t] = n /\ n # None /\ n.out \in Nat /\ n.out < Attempt
        /\ t \in sched'.active => n.st = "running" /\ (row[t] # None \/ work'[t] # None)
    <3>1. obj'[t] = n /\ n \in Image /\ (row[t] # None \/ work'[t] # None)
      BY <1>1 DEF Touched
    <3>2. dag'[t] # "pending"
      BY <1>2 DEF RowTypes
    <3>3. t \notin sched.active
      BY <1>2 DEF BatchOK, Prepare
    <3>4. QED
      BY <1>1, <1>5, <3>1, <3>2, <3>3 DEF Image
  <2>4. QED
    BY <1>2, <1>3, <1>5, <2>1, <2>2, <2>3 DEF BatchOK
<1>8. QED
  BY <1>4, <1>6, <1>7

(* What a flush of a task that leaves the batch does to the batch. *)
LEMMA LeavesBatch ==
  ASSUME TasksInv, NEW t \in sched.active, NEW n, Touched(t, n), UNCHANGED <<row, runs>>,
         Attempt' \in Nat, Attempt' >= Attempt, n.out <= Attempt, sched.pc # "idle",
         dag' \in [TaskIds -> Statuses], dag'[t] = "pending" => n.out < Attempt',
         \A u \in TaskIds \ {t} : dag'[u] = dag[u],
         sched' = [sched EXCEPT !.active = @ \ {t}]
  PROVE  /\ BatchOK'
         /\ sched' \in [pc : {"idle", "batch", "gate", "process"}, active : SUBSET TaskIds]
<1> USE DEF TasksInv
<1>0. Attempt \in Nat /\ t \in TaskIds
  BY DEF Attempt, RowTypes
<1>1. /\ sched'.pc = sched.pc /\ sched'.active = sched.active \ {t}
      /\ sched' \in [pc : {"idle", "batch", "gate", "process"}, active : SUBSET TaskIds]
  BY DEF RowTypes
<1>2. n # None /\ obj'[t] = n /\ n.out \in Nat
  BY DEF Touched, Image
<1>3. ASSUME NEW u \in TaskIds, u # t
      PROVE  /\ work'[u] # None => obj'[u] # None
             /\ obj'[u] # None => obj'[u].out <= Attempt'
             /\ obj'[u] = None /\ row[u] # None => row[u].out < Attempt'
             /\ dag'[u] = "pending" /\ obj'[u] # None => obj'[u].out < Attempt'
             /\ u \in sched'.active =>
                   /\ dag'[u] # "pending"
                   /\ obj'[u] # None /\ obj'[u].st = "running" /\ obj'[u].out < Attempt'
                   /\ row[u] # None \/ work'[u] # None
                   /\ sched.pc = "gate" => row[u] # None
  <2>1. obj'[u] = obj[u] /\ work'[u] = work[u] /\ dag'[u] = dag[u] /\ (u \in sched'.active => u \in sched.active)
    BY <1>1, <1>3 DEF Touched
  <2>2. (obj[u] # None => obj[u].out \in Nat) /\ (row[u] # None => row[u].out \in Nat)
    BY DEF RowTypes, Row, Image
  <2>3. QED
    BY <1>0, <2>1, <2>2 DEF BatchOK
<1>4. runs' > 0
  BY DEF BatchOK
<1>5. QED
  BY <1>0, <1>1, <1>2, <1>3, <1>4 DEF BatchOK

LEMMA SkippedKeeps ==
  ASSUME TasksInv, NEW t \in TaskIds, PolicyDenies(t) \/ Refused(t)
  PROVE  TasksInv'
<1> USE DEF TasksInv
<1> DEFINE n == Status(t, "skipped")
<1>1. /\ t \in sched.active /\ sched.pc # "idle" /\ Write(t, n)
      /\ UNCHANGED <<row, call, runs, tries, saved>>
      /\ sched' = [sched EXCEPT !.active = @ \ {t}]
      /\ dag' = dag \/ dag' = [dag EXCEPT ![t] = "failed"]
  BY DEF PolicyDenies, Refused
<1>2. Attempt' = Attempt /\ Attempt \in Nat
  BY <1>1 DEF Attempt, RowTypes
<1>3. obj[t] \in Image /\ obj[t].out < Attempt
  BY <1>1 DEF RowTypes, BatchOK
<1>4. n \in Image /\ n.st = "skipped" /\ n.out = obj[t].out
  BY <1>3 DEF Status, Image, Statuses
<1> HIDE DEF n
<1>5. Touched(t, n)
  BY <1>1, <1>4, WriteTouches
<1>6. CallsOK' /\ LocksOK' /\ RowsOK'
  BY <1>1, <1>2, <1>5, TouchedKeeps
<1>7. dag' \in [TaskIds -> Statuses] /\ dag'[t] # "pending" /\ \A u \in TaskIds \ {t} : dag'[u] = dag[u]
  BY <1>1 DEF RowTypes, BatchOK, Statuses
<1>8. /\ BatchOK'
      /\ sched' \in [pc : {"idle", "batch", "gate", "process"}, active : SUBSET TaskIds]
  <2>1. n.out <= Attempt
    BY <1>2, <1>3, <1>4 DEF Image
  <2>2. QED
    BY <1>1, <1>2, <1>5, <1>7, <2>1, LeavesBatch
<1>9. RowTypes'
  BY <1>1, <1>5, <1>7, <1>8 DEF RowTypes, Touched
<1>10. QED
  BY <1>6, <1>8, <1>9

LEMMA ProcessKeeps ==
  ASSUME TasksInv, NEW t \in TaskIds, NEW outcome \in {"failed", "accepted", "broken", "retry"}, Process(t, outcome)
  PROVE  TasksInv'
<1> USE DEF TasksInv
<1> DEFINE n == CASE outcome = "failed" -> Status(t, "failed")
                  [] outcome = "accepted" -> Completed(t)
                  [] outcome = "broken" -> [Completed(t) EXCEPT !.st = "failed"]
                  [] outcome = "retry" -> [Completed(t) EXCEPT !.st = "pending"]
           d == CASE outcome = "accepted" -> "completed"
                  [] outcome = "retry" -> "pending"
                  [] OTHER -> "failed"
<1>1. /\ t \in sched.active /\ sched.pc # "idle" /\ Write(t, n)
      /\ UNCHANGED <<row, call, runs, saved>>
      /\ sched' = [sched EXCEPT !.active = @ \ {t}]
      /\ dag' = [dag EXCEPT ![t] = d]
      /\ tries' = IF outcome = "retry" THEN tries + 1 ELSE tries
  BY DEF Process
<1>2. /\ Attempt \in Nat /\ tries' \in Nat
      /\ Attempt' = IF outcome = "retry" THEN Attempt + 1 ELSE Attempt
  BY <1>1 DEF Attempt, RowTypes
<1>3. obj[t] \in Image /\ obj[t].out < Attempt
  BY <1>1 DEF RowTypes, BatchOK
<1>4. /\ n \in Image /\ n.st # "running"
      /\ n.out = Attempt \/ (n.out = obj[t].out /\ n.st # "completed")
  <2>1. CASE outcome = "failed"
    BY <1>3, <2>1 DEF Status, Image, Statuses
  <2>2. CASE outcome = "accepted"
    BY <1>2, <2>2 DEF Completed, Image, Statuses
  <2>3. CASE outcome = "broken"
    BY <1>2, <2>3 DEF Completed, Image, Statuses
  <2>4. CASE outcome = "retry"
    BY <1>2, <2>4 DEF Completed, Image, Statuses
  <2>5. QED
    BY <2>1, <2>2, <2>3, <2>4
<1>5. d \in Statuses /\ (d = "pending" => outcome = "retry")
  BY DEF Statuses
<1> HIDE DEF n, d
<1>6. Touched(t, n)
  BY <1>1, <1>4, WriteTouches
<1>7. Attempt' \in Nat /\ Attempt' >= Attempt
  BY <1>2
<1>8. CallsOK' /\ LocksOK' /\ RowsOK'
  BY <1>1, <1>6, <1>7, TouchedKeeps
<1>9. dag' \in [TaskIds -> Statuses] /\ dag'[t] = d /\ \A u \in TaskIds \ {t} : dag'[u] = dag[u]
  BY <1>1, <1>5 DEF RowTypes
<1>10. n.out <= Attempt /\ (d = "pending" => n.out < Attempt')
  BY <1>2, <1>3, <1>4, <1>5 DEF Image
<1>11. /\ BatchOK'
       /\ sched' \in [pc : {"idle", "batch", "gate", "process"}, active : SUBSET TaskIds]
  BY <1>1, <1>6, <1>7, <1>9, <1>10, LeavesBatch
<1>12. RowTypes'
  BY <1>1, <1>2, <1>6, <1>9, <1>11 DEF RowTypes, Touched
<1>13. QED
  BY <1>8, <1>11, <1>12

(* What a commit or a rollback of the scheduler's session does to a row:   *)
(* nothing, or it takes an honest value that no override has locked out.   *)
Settled ==
    /\ row' \in [TaskIds -> Row \cup {None}]
    /\ work' \in [TaskIds -> Row \cup {None}]
    /\ \A u \in TaskIds :
        /\ work'[u] = None \/ work'[u] = work[u]
        /\ \/ row'[u] = row[u]
           \/ ~Locked(u) /\ row'[u] \in Row /\ Honest(row'[u]) /\ row'[u].out <= Attempt

LEMMA DurableIs ==
  ASSUME TasksInv, NEW u \in TaskIds
  PROVE  /\ Durable \in [TaskIds -> Row \cup {None}]
         /\ Durable[u] = IF work[u] # None THEN work[u] ELSE row[u]
         /\ \/ Durable[u] = row[u]
            \/ ~Locked(u) /\ Durable[u] \in Row /\ Honest(Durable[u]) /\ Durable[u].out <= Attempt
<1> USE DEF TasksInv
<1>1. /\ Durable \in [TaskIds -> Row \cup {None}]
      /\ Durable[u] = IF work[u] # None THEN work[u] ELSE row[u]
  BY DEF Durable, RowTypes
<1>2. CASE work[u] # None
  <2>1. ~Locked(u)
    BY <1>2 DEF Locked, LocksOK
  <2>2. QED
    BY <1>1, <1>2, <2>1 DEF RowsOK, RowTypes
<1>3. CASE work[u] = None
  BY <1>1, <1>3
<1>4. QED
  BY <1>1, <1>2, <1>3

LEMMA CommitSettles ==
  ASSUME TasksInv, row' = Durable \/ row' = row, work' = Nothing
  PROVE  Settled
<1>1. row' \in [TaskIds -> Row \cup {None}]
  <2>1. row \in [TaskIds -> Row \cup {None}]
    BY DEF TasksInv, RowTypes
  <2>2. Durable \in [TaskIds -> Row \cup {None}]
    BY DEF Durable, TasksInv, RowTypes
  <2>3. QED
    BY <2>1, <2>2
<1>2. work' \in [TaskIds -> Row \cup {None}] /\ \A u \in TaskIds : work'[u] = None
  BY DEF Nothing
<1>3. QED
  BY <1>1, <1>2, DurableIs DEF Settled

LEMMA SettledKeeps ==
  ASSUME TasksInv, Settled, UNCHANGED <<call, runs, tries>>
  PROVE  CallsOK' /\ LocksOK' /\ RowsOK' /\ \A u \in TaskIds : row[u] # None => row'[u] # None
<1> USE DEF TasksInv
<1>0. \A u \in TaskIds : row[u] # None => row'[u] # None
  BY DEF Settled
<1>1. CallsOK'
  BY <1>0 DEF CallsOK
<1>2. LocksOK'
  <2> SUFFICES ASSUME NEW o \in Overriders, call[o].pc = "locked"
               PROVE  work'[call[o].task] = None /\ row'[call[o].task] = row[call[o].task]
    BY DEF LocksOK
  <2>1. call[o].task \in TaskIds /\ work[call[o].task] = None /\ Locked(call[o].task)
    BY DEF LocksOK, CallsOK, Locked
  <2>2. QED
    BY <2>1 DEF Settled
<1>3. RowsOK'
  <2>1. Attempt' = Attempt
    BY DEF Attempt
  <2>2. QED
    BY <2>1 DEF RowsOK, Settled
<1>4. QED
  BY <1>0, <1>1, <1>2, <1>3

LEMMA StartRunKeeps ==
  ASSUME TasksInv, StartRun
  PROVE  TasksInv'
<1> USE DEF TasksInv
<1>1. /\ UNCHANGED <<row, work, saved, call, tries>> /\ runs' = runs + 1 /\ obj' = Nothing
      /\ dag' \in [TaskIds -> Statuses]
      /\ sched' = [pc |-> "batch", active |-> {}]
      /\ sched.pc = "idle"
  <2>1. [t \in TaskIds |-> "pending"] \in [TaskIds -> Statuses]
    BY DEF Statuses
  <2>2. QED
    BY <2>1 DEF StartRun, RowTypes, Resting
<1>2. Attempt \in Nat /\ Attempt' = Attempt + 1
  BY <1>1 DEF Attempt, RowTypes
<1>3. CallsOK' /\ LocksOK'
  BY <1>1 DEF CallsOK, LocksOK
<1>4. \A t \in TaskIds : (row[t] # None => row[t].out \in Nat /\ row[t].out <= Attempt) /\ work[t] = None /\ obj'[t] = None
  BY <1>1 DEF BatchOK, RowsOK, RowTypes, Row, Nothing
<1>5. RowsOK'
  BY <1>1, <1>2, <1>4 DEF RowsOK
<1>6. RowTypes'
  BY <1>1 DEF RowTypes, Nothing
<1>7. BatchOK'
  <2>1. sched'.pc = "batch" /\ sched'.active = {} /\ runs' > 0
    BY <1>1 DEF RowTypes
  <2>2. QED
    BY <1>1, <1>2, <1>4, <2>1 DEF BatchOK
<1>8. QED
  BY <1>3, <1>5, <1>6, <1>7

LEMMA ReachGateKeeps ==
  ASSUME TasksInv, ReachGate
  PROVE  TasksInv'
<1> USE DEF TasksInv
<1> DEFINE ask == sched.active \cap Gated
<1>1. /\ UNCHANGED <<obj, dag, saved, call, runs, tries>>
      /\ sched.pc = "batch"
      /\ sched' = [sched EXCEPT !.pc = IF ask # {} THEN "gate" ELSE "process"]
      /\ IF ask # {} THEN row' = Durable /\ work' = Nothing ELSE UNCHANGED <<row, work>>
  BY DEF ReachGate
<1>2. Settled
  <2>1. CASE ask # {}
    BY <1>1, <2>1, CommitSettles
  <2>2. CASE ask = {}
    BY <1>1, <2>2 DEF Settled, RowTypes
  <2>3. QED
    BY <2>1, <2>2
<1>3. CallsOK' /\ LocksOK' /\ RowsOK'
  BY <1>1, <1>2, SettledKeeps
<1>4. /\ sched' \in [pc : {"idle", "batch", "gate", "process"}, active : SUBSET TaskIds]
      /\ sched'.pc = (IF ask # {} THEN "gate" ELSE "process") /\ sched'.active = sched.active
  BY <1>1 DEF RowTypes
<1>5. RowTypes'
  BY <1>1, <1>2, <1>4 DEF RowTypes, Settled
<1>6. BatchOK'
  <2>1. Attempt' = Attempt /\ runs' > 0
    BY <1>1 DEF Attempt, BatchOK
  <2>2. ASSUME NEW t \in TaskIds
        PROVE  /\ work'[t] # None => obj[t] # None
               /\ obj[t] = None /\ row'[t] # None => row'[t].out < Attempt
               /\ t \in sched.active => row'[t] # None \/ (work'[t] # None /\ ask = {})
    <3>1. CASE ask # {}
      <4>1. row'[t] = IF work[t] # None THEN work[t] ELSE row[t]
        BY <1>1, <3>1, DurableIs
      <4>2. work'[t] = None
        BY <1>1, <3>1 DEF Nothing
      <4>3. QED
        BY <1>1, <4>1, <4>2 DEF BatchOK
    <3>2. CASE ask = {}
      BY <1>1, <3>2 DEF BatchOK
    <3>3. QED
      BY <3>1, <3>2
  <2>3. QED
    BY <1>1, <1>4, <2>1, <2>2 DEF BatchOK
<1>7. QED
  BY <1>3, <1>5, <1>6

(* A run that ends leaves nothing in work and nothing active. *)
LEMMA RestKeeps ==
  ASSUME TasksInv, Settled, work' = Nothing, sched' = Resting, UNCHANGED <<obj, dag, call, runs, tries>>,
         saved' \in [TaskIds -> Statuses] \cup {None}
  PROVE  TasksInv'
<1> USE DEF TasksInv
<1>1. CallsOK' /\ LocksOK' /\ RowsOK'
  BY SettledKeeps
<1>2. RowTypes'
  BY DEF RowTypes, Settled, Resting
<1>3. BatchOK'
  <2>1. Attempt' = Attempt
    BY DEF Attempt
  <2>2. sched'.pc = "idle" /\ sched'.active = {} /\ \A t \in TaskIds : work'[t] = None
    BY DEF Resting, Nothing
  <2>3. QED
    BY <2>1, <2>2 DEF BatchOK
<1>4. QED
  BY <1>1, <1>2, <1>3

LEMMA PauseKeeps ==
  ASSUME TasksInv, NEW t \in TaskIds, Pause(t)
  PROVE  TasksInv'
<1> USE DEF TasksInv
<1> DEFINE kept == IF runs = 1 THEN row ELSE Durable
<1>1. /\ UNCHANGED <<obj, dag, call, runs, tries>>
      /\ sched.pc = "gate" /\ t \in sched.active /\ ~Locked(t)
      /\ saved' = [dag EXCEPT ![t] = "pending"]
      /\ row' = [kept EXCEPT ![t].st = "awaiting_approval", ![t].forced = FALSE]
      /\ work' = Nothing /\ sched' = Resting
  BY DEF Pause, Unlocked
<1>2. /\ kept \in [TaskIds -> Row \cup {None}]
      /\ \A u \in TaskIds : \/ kept[u] = row[u]
                            \/ ~Locked(u) /\ kept[u] \in Row /\ Honest(kept[u]) /\ kept[u].out <= Attempt
  BY DurableIs DEF RowTypes
<1>3. kept[t] \in Row /\ kept[t].out <= Attempt
  BY <1>1, <1>2 DEF BatchOK, RowsOK, RowTypes
<1> HIDE DEF kept
<1>4. row' \in [TaskIds -> Row \cup {None}] /\ \A u \in TaskIds \ {t} : row'[u] = kept[u]
  BY <1>1, <1>2, <1>3 DEF Row, Statuses
<1>5. row'[t] \in Row /\ row'[t].st = "awaiting_approval" /\ row'[t].out = kept[t].out
  BY <1>1, <1>2, <1>3 DEF Row, Statuses
<1>6. Honest(row'[t])
  BY <1>5 DEF Honest
<1>7. Settled
  <2>1. work' \in [TaskIds -> Row \cup {None}] /\ \A u \in TaskIds : work'[u] = None
    BY <1>1 DEF Nothing
  <2>2. QED
    BY <1>1, <1>2, <1>3, <1>4, <1>5, <1>6, <2>1 DEF Settled
<1>8. saved' \in [TaskIds -> Statuses]
  BY <1>1 DEF RowTypes, Statuses
<1>9. QED
  BY <1>1, <1>7, <1>8, RestKeeps

LEMMA PassGateKeeps ==
  ASSUME TasksInv, PassGate
  PROVE  TasksInv'
<1> USE DEF TasksInv
<1>1. /\ UNCHANGED <<row, work, obj, dag, saved, call, runs, tries>>
      /\ sched.pc = "gate" /\ sched' = [sched EXCEPT !.pc = "process"]
  BY DEF PassGate
<1>2. /\ sched' \in [pc : {"idle", "batch", "gate", "process"}, active : SUBSET TaskIds]
      /\ sched'.pc = "process" /\ sched'.active = sched.active
  BY <1>1 DEF RowTypes
<1>3. Attempt' = Attempt
  BY <1>1 DEF Attempt
<1>4. RowTypes' /\ CallsOK' /\ LocksOK' /\ RowsOK'
  BY <1>1, <1>2, <1>3 DEF RowTypes, CallsOK, LocksOK, RowsOK
<1>5. BatchOK'
  BY <1>1, <1>2, <1>3 DEF BatchOK
<1>6. QED
  BY <1>4, <1>5

LEMMA NextBatchKeeps ==
  ASSUME TasksInv, NextBatch
  PROVE  TasksInv'
<1> USE DEF TasksInv
<1>1. UNCHANGED <<obj, dag, saved, call, runs, tries>> /\ sched.pc = "process" /\ sched.active = {}
  BY DEF NextBatch
<1>2. CASE UNCHANGED <<row, work>> /\ sched' = [sched EXCEPT !.pc = "batch"]
  <2>1. /\ sched' \in [pc : {"idle", "batch", "gate", "process"}, active : SUBSET TaskIds]
        /\ sched'.pc = "batch" /\ sched'.active = {}
    BY <1>1, <1>2 DEF RowTypes
  <2>2. Attempt' = Attempt
    BY <1>1 DEF Attempt
  <2>3. RowTypes' /\ CallsOK' /\ LocksOK' /\ RowsOK'
    BY <1>1, <1>2, <2>1, <2>2 DEF RowTypes, CallsOK, LocksOK, RowsOK
  <2>4. BatchOK'
    BY <1>1, <1>2, <2>1, <2>2 DEF BatchOK
  <2>5. QED
    BY <2>3, <2>4
<1>3. CASE row' = Durable /\ work' = Nothing /\ sched' = Resting
  <2>1. Settled
    BY <1>3, CommitSettles
  <2>2. QED
    BY <1>1, <1>3, <2>1, RestKeeps DEF RowTypes
<1>4. QED
  BY <1>2, <1>3 DEF NextBatch, Unlocked

LEMMA AbortKeeps ==
  ASSUME TasksInv, Abort
  PROVE  TasksInv'
<1>1. /\ UNCHANGED <<obj, dag, saved, call, runs, tries>>
      /\ work' = Nothing /\ sched' = Resting
      /\ row' = Durable \/ row' = row
  BY DEF Abort, Unlocked
<1>2. Settled
  BY <1>1, CommitSettles
<1>3. saved' \in [TaskIds -> Statuses] \cup {None}
  BY <1>1 DEF TasksInv, RowTypes
<1>4. QED
  BY <1>1, <1>2, <1>3, RestKeeps

(***************************************************************************)
(* The overrides, and everything else.                                     *)
(***************************************************************************)

(* Steps that leave all this alone: rulings, tests and the board. *)
LEMMA OthersKeep ==
  ASSUME TasksInv, UNCHANGED <<row, work, obj, dag, sched, saved, call, runs, tries>>
  PROVE  TasksInv'
<1> USE DEF TasksInv
<1>1. RowTypes' /\ CallsOK' /\ LocksOK'
  BY DEF RowTypes, CallsOK, LocksOK
<1>2. RowsOK' /\ BatchOK'
  BY DEF RowsOK, BatchOK, Attempt, Nothing
<1>3. QED
  BY <1>1, <1>2

LEMMA OverrideKeeps ==
  ASSUME TasksInv, NEW o \in Overriders, NEW t \in TaskIds, NEW a \in Actions, Override(o, t, a)
  PROVE  TasksInv'
<1> USE DEF TasksInv
<1> DEFINE q == [pc |-> "waiting", task |-> t, act |-> a, st |-> None]
<1>1. /\ UNCHANGED <<row, work, obj, dag, sched, saved, runs, tries>>
      /\ row[t] # None /\ call' = [call EXCEPT ![o] = q]
  BY DEF Override
<1>2. q \in Calls /\ q.pc = "waiting" /\ q.task = t
  BY DEF Calls
<1> HIDE DEF q
<1>3. call' \in [Overriders -> Calls] /\ call'[o] = q /\ \A p \in Overriders \ {o} : call'[p] = call[p]
  BY <1>1, <1>2 DEF RowTypes
<1>4. RowTypes'
  BY <1>1, <1>3 DEF RowTypes
<1>5. CallsOK'
  BY <1>1, <1>2, <1>3 DEF CallsOK
<1>6. LocksOK'
  BY <1>1, <1>2, <1>3 DEF LocksOK
<1>7. RowsOK' /\ BatchOK'
  BY <1>1 DEF RowsOK, BatchOK, Attempt, Nothing
<1>8. QED
  BY <1>4, <1>5, <1>6, <1>7

LEMMA LockTaskKeeps ==
  ASSUME TasksInv, NEW o \in Overriders, LockTask(o)
  PROVE  TasksInv'
<1> USE DEF TasksInv
<1> DEFINE t == call[o].task
<1>1. /\ UNCHANGED <<row, work, obj, dag, sched, saved, runs, tries>>
      /\ call[o].pc = "waiting" /\ work[t] = None /\ ~Locked(t)
      /\ call' = [call EXCEPT ![o].pc = "locked", ![o].st = row[t].st]
  BY DEF LockTask, Granted
<1>2. call[o] \in Calls /\ t \in TaskIds /\ row[t] \in Row
  BY <1>1 DEF CallsOK, RowTypes
<1>3. /\ call'[o] \in Calls /\ call'[o].pc = "locked" /\ call'[o].task = t /\ call'[o].st = row[t].st
      /\ \A p \in Overriders \ {o} : call'[p] = call[p]
  BY <1>1, <1>2 DEF RowTypes, Calls, Row
<1>4. call' \in [Overriders -> Calls]
  BY <1>1, <1>2, <1>3 DEF RowTypes, Calls, Row
<1>5. RowTypes'
  BY <1>1, <1>4 DEF RowTypes
<1>6. CallsOK'
  BY <1>1, <1>2, <1>3 DEF CallsOK
<1>7. LocksOK'
  <2> SUFFICES ASSUME NEW p \in Overriders, call'[p].pc = "locked"
               PROVE  /\ work[call'[p].task] = None
                      /\ call'[p].st = row[call'[p].task].st
                      /\ \A k \in Overriders : call'[k].pc = "locked" /\ call'[k].task = call'[p].task => k = p
    BY <1>1 DEF LocksOK
  <2>1. \A k \in Overriders \ {o} : call[k].pc = "locked" => call[k].task # t
    BY <1>1 DEF Locked
  <2> HIDE DEF t
  <2>2. CASE p = o
    <3>1. call'[p].task = t /\ call'[p].st = row[t].st
      BY <1>3, <2>2
    <3>2. ASSUME NEW k \in Overriders, k # p, call'[k].pc = "locked", call'[k].task = t
          PROVE  FALSE
      <4>1. call'[k] = call[k]
        BY <1>3, <2>2, <3>2
      <4>2. QED
        BY <2>1, <2>2, <3>2, <4>1
    <3>3. work[t] = None
      BY <1>1
    <3>4. QED
      BY <3>1, <3>2, <3>3
  <2>3. CASE p # o
    <3>1. call'[p] = call[p]
      BY <1>3, <2>3
    <3>2. \A k \in Overriders : call'[k].pc = "locked" /\ call'[k].task = call'[p].task => k = p
      BY <1>3, <2>1, <2>3, <3>1 DEF LocksOK
    <3>3. QED
      BY <3>1, <3>2 DEF LocksOK
  <2>4. QED
    BY <2>2, <2>3
<1>8. RowsOK' /\ BatchOK'
  BY <1>1 DEF RowsOK, BatchOK, Attempt, Nothing
<1>9. QED
  BY <1>5, <1>6, <1>7, <1>8

(* An override that is done has moved the row along the table, from the    *)
(* status it had.                                                          *)
LEMMA Applied ==
  ASSUME TasksInv, NEW o \in Overriders, NEW output \in BOOLEAN, ApplyOverride(o, output)
  PROVE  LET t == call[o].task
             to == Target(row[t].st, call[o].act)
         IN /\ UNCHANGED <<work, obj, dag, sched, saved, runs, tries>>
            /\ call[o].pc = "locked" /\ t \in TaskIds /\ row[t] \in Row /\ work[t] = None
            /\ call' \in [Overriders -> Calls]
            /\ call'[o].pc = IF to # None THEN "done" ELSE "refused"
            /\ \A p \in Overriders \ {o} : call'[p] = call[p]
            /\ \A u \in TaskIds \ {t} : row'[u] = row[u]
            /\ row' \in [TaskIds -> Row \cup {None}]
            /\ IF to # None
               THEN row'[t] \in Row /\ row'[t].st = to /\ row'[t].forced /\ row'[t].out \in {0, row[t].out}
               ELSE row'[t] = row[t]
<1> USE DEF TasksInv
<1> DEFINE t == call[o].task
           to == Target(row[t].st, call[o].act)
           w == Overridden(o, output)
           q == [NoCall EXCEPT !.pc = IF to # None THEN "done" ELSE "refused"]
<1>1. call[o].pc = "locked" /\ t \in TaskIds /\ row[t] \in Row /\ work[t] = None /\ call[o].st = row[t].st
  BY DEF ApplyOverride, CallsOK, LocksOK, RowTypes
<1>2. /\ UNCHANGED <<work, obj, dag, sched, saved, runs, tries>>
      /\ row' = IF to # None THEN [row EXCEPT ![t] = w] ELSE row
      /\ call' = [call EXCEPT ![o] = q]
  BY <1>1 DEF ApplyOverride
<1>3. q \in Calls /\ q.pc = IF to # None THEN "done" ELSE "refused"
  BY DEF NoCall, Calls
<1>4. to \in Statuses \cup {None}
  BY TargetType
<1>5. w = [row[t] EXCEPT !.st = to, !.forced = TRUE, !.out = IF output /\ to = "completed" THEN 0 ELSE @]
  BY <1>1 DEF Overridden
<1> HIDE DEF to, w, q
<1>6. to # None => w \in Row /\ w.st = to /\ w.forced = TRUE /\ w.out \in {0, row[t].out}
  BY <1>1, <1>4, <1>5 DEF Row
<1>7. call' \in [Overriders -> Calls] /\ call'[o] = q /\ \A p \in Overriders \ {o} : call'[p] = call[p]
  BY <1>2, <1>3 DEF RowTypes
<1>8. /\ row' \in [TaskIds -> Row \cup {None}]
      /\ row'[t] = IF to # None THEN w ELSE row[t]
      /\ \A u \in TaskIds \ {t} : row'[u] = row[u]
  BY <1>1, <1>2, <1>6 DEF RowTypes
<1> HIDE DEF t
<1>9. IF to # None
      THEN row'[t] \in Row /\ row'[t].st = to /\ row'[t].forced /\ row'[t].out \in {0, row[t].out}
      ELSE row'[t] = row[t]
  BY <1>6, <1>8
<1>10. call'[o].pc = IF to # None THEN "done" ELSE "refused"
  BY <1>3, <1>7
<1>11. QED
  BY <1>1, <1>2, <1>7, <1>8, <1>9, <1>10 DEF t, to

LEMMA ApplyOverrideKeeps ==
  ASSUME TasksInv, NEW o \in Overriders, NEW output \in BOOLEAN, ApplyOverride(o, output)
  PROVE  TasksInv'
<1> USE DEF TasksInv
<1> DEFINE t == call[o].task
<1>1. /\ UNCHANGED <<work, obj, dag, sched, saved, runs, tries>>
      /\ call[o].pc = "locked" /\ t \in TaskIds /\ row[t] \in Row /\ work[t] = None
      /\ call' \in [Overriders -> Calls]
      /\ call'[o].pc \in {"done", "refused"}
      /\ \A p \in Overriders \ {o} : call'[p] = call[p]
      /\ \A u \in TaskIds \ {t} : row'[u] = row[u]
      /\ row' \in [TaskIds -> Row \cup {None}]
      /\ row'[t] \in Row
      /\ row'[t] = row[t] \/ (row'[t].forced /\ row'[t].out \in {0, row[t].out})
  BY Applied
<1> HIDE DEF t
<1>2. Attempt' = Attempt /\ Attempt \in Nat
  BY <1>1 DEF Attempt, RowTypes
<1>3. row[t].out \in Nat /\ row[t].out <= Attempt /\ row[t] # None /\ row'[t] # None
  BY <1>1 DEF RowsOK, Row
<1>4. RowTypes'
  BY <1>1 DEF RowTypes
<1>5. CallsOK'
  BY <1>1, <1>3 DEF CallsOK
<1>6. LocksOK'
  <2> SUFFICES ASSUME NEW p \in Overriders, call'[p].pc = "locked"
               PROVE  /\ work[call'[p].task] = None
                      /\ call'[p].st = row'[call'[p].task].st
                      /\ \A k \in Overriders : call'[k].pc = "locked" /\ call'[k].task = call'[p].task => k = p
    BY <1>1 DEF LocksOK
  <2>1. p # o /\ call'[p] = call[p]
    BY <1>1
  <2>2. call[p].task \in TaskIds /\ call[p].task # t
    BY <1>1, <2>1 DEF LocksOK, CallsOK, t
  <2>3. QED
    BY <1>1, <2>1, <2>2 DEF LocksOK
<1>7. RowsOK'
  <2>1. Honest(row'[t]) /\ row'[t].out <= Attempt
    BY <1>1, <1>2, <1>3 DEF Honest, RowsOK
  <2>2. QED
    BY <1>1, <1>2, <2>1 DEF RowsOK
<1>8. BatchOK'
  <2>1. sched.pc # "idle" /\ obj[t] = None => row'[t].out < Attempt
    BY <1>1, <1>2, <1>3 DEF BatchOK
  <2>2. ASSUME NEW u \in TaskIds
        PROVE  /\ sched.pc # "idle" /\ obj[u] = None /\ row'[u] # None => row'[u].out < Attempt
               /\ row[u] # None => row'[u] # None
    <3>1. CASE u = t
      BY <1>3, <2>1, <3>1
    <3>2. CASE u # t
      BY <1>1, <3>2 DEF BatchOK
    <3>3. QED
      BY <3>1, <3>2
  <2>3. QED
    BY <1>1, <1>2, <2>2 DEF BatchOK, Nothing
<1>9. QED
  BY <1>4, <1>5, <1>6, <1>7, <1>8

(* The steps that matter here, and what the others leave alone. *)
LEMMA StepCases ==
  ASSUME Next
  PROVE  \/ StartRun \/ ReachGate \/ PassGate \/ NextBatch \/ Abort
         \/ \E t \in TaskIds : \/ \E f \in BOOLEAN : Prepare(t, f)
                               \/ PolicyDenies(t) \/ Refused(t) \/ Pause(t)
                               \/ \E c \in {"failed", "accepted", "broken", "retry"} : Process(t, c)
         \/ \E o \in Overriders : \/ \E t \in TaskIds, a \in Actions : Override(o, t, a)
                                  \/ LockTask(o)
                                  \/ \E out \in BOOLEAN : ApplyOverride(o, out)
         \/ UNCHANGED <<row, work, obj, dag, sched, saved, call, runs, tries>>
<1>1. ASSUME NEW t \in Gated, NEW word, Rule(t, word)
      PROVE  UNCHANGED <<row, work, obj, dag, sched, saved, call, runs, tries>>
  BY <1>1 DEF Rule
<1>2. ASSUME NEW x, NEW t, NEW k, ReadOutput(x, t, k) \/ StoreVerdict(x)
      PROVE  UNCHANGED <<row, work, obj, dag, sched, saved, call, runs, tries>>
  BY <1>2 DEF ReadOutput, StoreVerdict
<1>3. ASSUME NEW b, NEW r, CreateBacklogTask(b) \/ AskAdd(r, b) \/ AskDelete(r, b)
      PROVE  UNCHANGED taskvars
  BY <1>3, Zenon DEF CreateBacklogTask, AskAdd, AskDelete, Ask
<1>4. ASSUME NEW r, NEW e, AskRemove(r, e) \/ AskExecute(r, e)
      PROVE  UNCHANGED taskvars
  BY <1>4, Zenon DEF AskRemove, AskExecute, Ask
<1>5. ASSUME NEW r, NEW e, NEW st, NEW pos, AskPatch(r, e, st, pos)
      PROVE  UNCHANGED taskvars
  BY <1>5, Zenon DEF AskPatch, Ask
<1>6. ASSUME NEW r, NEW order, AskReorder(r, order)
      PROVE  UNCHANGED taskvars
  BY <1>6, Zenon DEF AskReorder, Ask
<1>7. ASSUME NEW r, Answer(r)
      PROVE  UNCHANGED taskvars
  <2>1. ASSUME NEW e, Add(r, e) PROVE UNCHANGED taskvars
    BY <2>1, Zenon DEF Add
  <2>2. ASSUME Delete(r) \/ Remove(r) \/ Patch(r) \/ LoadLink(r) \/ FailRun(r) \/ LockRow(r) \/ Reorder(r)
        PROVE  UNCHANGED taskvars
    BY <2>2, Zenon DEF Delete, Remove, Patch, LoadLink, FailRun, LockRow, Reorder
  <2>3. QED
    BY <1>7, <2>1, <2>2, Zenon DEF Answer
<1>8. UNCHANGED taskvars => UNCHANGED <<row, work, obj, dag, sched, saved, call, runs, tries>>
  BY DEF taskvars
<1>9. QED
  BY <1>1, <1>2, <1>3, <1>4, <1>5, <1>6, <1>7, <1>8, Zenon DEF Next, Advance

LEMMA TasksInvNext == TasksInv /\ [Next]_vars => TasksInv'
<1>1. ASSUME TasksInv, UNCHANGED vars PROVE TasksInv'
  BY <1>1, OthersKeep DEF vars
<1>2. ASSUME TasksInv, Next PROVE TasksInv'
  BY <1>2, StepCases, StartRunKeeps, ReachGateKeeps, PassGateKeeps, NextBatchKeeps, AbortKeeps, PrepareKeeps,
     SkippedKeeps, PauseKeeps, ProcessKeeps, OverrideKeeps, LockTaskKeeps, ApplyOverrideKeeps, OthersKeep, Zenon
<1>3. QED
  BY <1>1, <1>2

LEMMA TasksInvAlways == Spec => []TasksInv
BY TasksInvInit, TasksInvNext, PTL DEF Spec

(* A completed task that nobody forced shows the output of the execution   *)
(* that completed it (scheduler._process_node_result sets output_data and  *)
(* the status in one flush that writes changed columns only): an object    *)
(* that is still to be executed carries an older output, so the new one is *)
(* never taken for unchanged.                                              *)
THEOREM OutputsBelong == Spec => []OutputBelongs
<1>1. TasksInv => OutputBelongs
  BY DEF TasksInv, RowsOK, Honest, OutputBelongs
<1>2. QED
  BY <1>1, TasksInvAlways, PTL

LEMMA OverrideStep ==
  ASSUME TasksInv, [Next]_vars, NEW o \in Overriders, call[o].pc = "locked", call'[o].pc = "done"
  PROVE  LET t == call[o].task IN row'[t].st = Target(row[t].st, call[o].act)
<1>1. call \in [Overriders -> Calls]
  BY DEF TasksInv, RowTypes
<1>2. call' # call
  OBVIOUS
<1>3. Next
  BY <1>2 DEF vars
<1>4. ASSUME NEW p \in Overriders, NEW t \in TaskIds, NEW a \in Actions, Override(p, t, a)
      PROVE  FALSE
  BY <1>1, <1>4 DEF Override, NoCall
<1>5. ASSUME NEW p \in Overriders, LockTask(p)
      PROVE  FALSE
  BY <1>1, <1>5 DEF LockTask, Calls
<1>6. UNCHANGED call => FALSE
  BY <1>2
<1>7. ASSUME NEW t \in TaskIds,
             \/ \E f \in BOOLEAN : Prepare(t, f)
             \/ PolicyDenies(t) \/ Refused(t) \/ Pause(t)
             \/ \E c \in {"failed", "accepted", "broken", "retry"} : Process(t, c)
      PROVE  UNCHANGED call
  BY <1>7, Zenon DEF Prepare, PolicyDenies, Refused, Pause, Process
<1>8. StartRun \/ ReachGate \/ PassGate \/ NextBatch \/ Abort => UNCHANGED call
  BY Zenon DEF StartRun, ReachGate, PassGate, NextBatch, Abort
<1>9. PICK p \in Overriders, out \in BOOLEAN : ApplyOverride(p, out)
  BY <1>3, <1>4, <1>5, <1>6, <1>7, <1>8, StepCases
<1>10. p = o
  BY <1>9, Applied
<1>11. QED
  BY <1>9, <1>10, Applied

(* An override that is answered "done" moved the task along an arrow of    *)
(* VALID_TRANSITIONS from the status that the row had when it committed    *)
(* (task_service.override_task, SELECT FOR UPDATE): the inductive          *)
(* invariant says that the status read under the lock stays the row's.     *)
THEOREM OverridesAlwaysValid == Spec => OverridesValid
<1>1. TasksInv /\ [Next]_vars =>
        [\A o \in Overriders :
           call[o].pc = "locked" /\ call'[o].pc = "done"
             => LET t == call[o].task IN row'[t].st = Target(row[t].st, call[o].act)]_vars
  BY OverrideStep
<1>2. QED
  BY <1>1, TasksInvAlways, PTL DEF Spec, OverridesValid
=============================================================================
