SPECIFICATION Spec
CONSTANTS
    None = None  a = a  b = b
    Agents = {a, b}
    Initially <- MCInitially
    Skills <- MCSkills
    Cost <- MCCost
    Base <- MCBase
    Checkers = {"worker", "call"}
    DegradeAt = 2
    SuspendAt = 3
    Runs = {"r1", "r2"}
    Nodes <- MCNodes
    HighRisk = {"risk"}
    Budget = 3
    VerifierCount = 1
    Composites = {0, 10}
    Top = 10
    Floor = 1
    Ceiling = 9
    Start = 5
    Alpha <- MCAlpha
    Kept <- MCKept
    Pool = {1, 2, 3, 4, 5}
    Evaluators = {"e1"}
    MaxLevel = 2
    MaxMoves = 1
    MaxDown = 1
    MaxAdmin = 1
CHECK_DEADLOCK FALSE
INVARIANTS   RankedFairly
PROPERTIES DegradedRecover OnlyEventsRaise RunsFinish
