SPECIFICATION Spec
CONSTANTS
    Node = {o}
    Origin = o
    Decider <- LocalDeny
    MaxFaults = 0
    MaxResumes = 1
    Prompt = FALSE
INVARIANT DeniedNeverExecutes
