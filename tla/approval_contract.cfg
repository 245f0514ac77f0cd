SPECIFICATION Spec
CONSTANTS
    Node = {o}
    Origin = o
    Decider <- LocalApprove
    MaxFaults = 0
    MaxResumes = 2
    Prompt = TRUE
PROPERTY ImplementsContract
