SPECIFICATION Spec
CONSTANTS
    t1 = t1
    t2 = t2
    t3 = t3
    t4 = t4
    None = None
    Plan = {t1, t2, t3, t4}
    Parents <- Fork
    HighRisk = {t2}
    Policies = {"allow", "deny"}
    Reflections = {"accept", "retry", "replan"}
    Faults = {"budget", "llm", "status"}
    Outside = {"decide", "early"}
    MaxRetries = 1
    MaxReplans = 1
    PerNode = 5
    Floor = 0
    MaxAlt = 2
    MaxRuns = 2
CHECK_DEADLOCK FALSE
INVARIANT TypeOK
INVARIANT DependenciesFirst
INVARIANT NobodyStranded
INVARIANT CheckpointsBacked
INVARIANT RunawayNeverFires
