SPECIFICATION Spec
CONSTANTS
    Node = {o}
    Origin = o
    Decider <- LocalBoth
    MaxFaults = 0
    MaxResumes = 2
    Prompt = FALSE
INVARIANTS
    TypeOK
    DenialHonoured
    InTimeKept
PROPERTY NobodyWaitsForever
