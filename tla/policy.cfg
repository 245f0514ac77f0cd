SPECIFICATION Spec
CONSTANTS
    None = None
    Names = {"n"}
    Payloads <- MCPayloads
    Patches <- MCPatches
    Conds <- MCConds
    Kind <- MCKind
    Kids <- MCKids
    Shape <- MCShape
    ActKey <- MCActKey
    Inputs <- MCInputs
    Admins = {"a1", "a2"}
    Callers = {"e1"}
    Processes = {"p1", "p2"}
    Contexts <- MCContexts
    Switched = {"attribution", "time_of_day"}
    MaxEdits = 3
    MaxAsks = 2
    MaxGates = 2
    MaxFaults = 1
CHECK_DEADLOCK FALSE
INVARIANTS  PrecedenceNotOrder
PROPERTIES OnlyAskedColumns DeletedStaysDeleted 
