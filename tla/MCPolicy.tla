------------------------------ MODULE MCPolicy ------------------------------
(* Instances of Policy for TLC. *)
EXTENDS Policy, TLC

\* {"all": [{"not": low}, odd]}: low reads a field that may be missing, odd
\* has an operator that nobody knows and stands behind a short circuit.
MCConds == {"low", "odd", "notlow", "both", "act"}
MCKind == "low" :> "leaf" @@ "odd" :> "leaf" @@ "notlow" :> "not" @@ "both" :> "all" @@ "act" :> "leaf"
MCKids == "low" :> <<>> @@ "odd" :> <<>> @@ "notlow" :> <<"low">> @@ "both" :> <<"notlow", "odd">> @@ "act" :> <<>>
MCShape == "low" :> "ok" @@ "odd" :> "badop" @@ "notlow" :> "ok" @@ "both" :> "ok" @@ "act" :> "nokeys"
MCActKey == [c \in MCConds |-> IF c = "act" THEN "write" ELSE None]
MCInputs == {[action |-> "write", types |-> {"access"}, content |-> FALSE,
              leaf |-> [c \in MCConds |-> v]] : v \in {"true", "missing"}}

Body(c, a, p) == [type |-> "access", cond |-> c, action |-> a, priority |-> p, enabled |-> TRUE]
MCPayloads == {Body("notlow", "deny", 1), [Body("both", "require_approval", 1) EXCEPT !.enabled = FALSE]}
MCPatches == {{"enabled"}, {"cond", "action"}}

Quiet == [site |-> "scheduler", category |-> "other", verb |-> "execute", trust |-> 5, amount |-> 0, tool |-> None,
          did |-> "none", signed |-> FALSE, cost |-> None, garbled |-> FALSE, needCred |-> FALSE, cred |-> FALSE,
          hour |-> 12, depth |-> 0, known |-> None]
\* what the scheduler can ask about, and dry runs that reach the other rules
MCContexts ==
    {[Quiet EXCEPT !.category = k, !.hour = h] : k \in {"payment", "memory_write", "pii_access", "delegation"}, h \in {7, 20}}
    \cup {[Quiet EXCEPT !.site = "api", !.verb = "pay", !.category = "payment", !.amount = 1, !.trust = t, !.cost = x] :
             t \in {None, 3, 4, 6}, x \in {9, 10, 50}}
    \cup {[Quiet EXCEPT !.site = "api", !.tool = "pii", !.known = {"web"}, !.cost = 50, !.garbled = g] : g \in BOOLEAN}
=============================================================================
