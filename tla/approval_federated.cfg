SPECIFICATION Spec
CONSTANTS
    Node = {o, p}
    Origin = o
    Decider <- BothNodes
    MaxFaults = 1
    MaxResumes = 1
    Prompt = TRUE
INVARIANT NothingRunsUnanswered
PROPERTY DecidedStaysDecided
