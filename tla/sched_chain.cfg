SPECIFICATION Spec
CONSTANTS
    t1 = t1
    t2 = t2
    t3 = t3
    t4 = t4
    None = None
    Plan = {t1, t2}
    Parents <- Chain
    HighRisk = {t1}
    Policies = {"escalate"}
    Reflections = {"accept", "abort", "retry"}
    Faults = {"agents", "llm", "post", "release", "crash", "timeout", "checkpoint"}
    Outside = {"decide", "expire", "cancel", "cleanup"}
    MaxRetries = 1
    MaxReplans = 0
    PerNode = 1
    Floor = 0
    MaxAlt = 0
    MaxRuns = 2
CHECK_DEADLOCK FALSE
INVARIANT HonestCompletion
 
