SPECIFICATION Spec
CONSTANTS
    None = None  plain = plain  risky = risky  b1 = b1  b2 = b2
    TaskIds = {plain, risky}
    Gated = {risky}
    Overriders = {"o1"}
    Testers = {"x1"}
    Kinds = {"contains", "lacks", "llm", "other"}
    MaxRuns = 2
    MaxTries = 1
    Backlog = {b1, b2}
    Entries = {1, 2, 3}
    Board <- MCBoard
    Requests = {"r1", "r2"}
    MaxAsks = 3
CHECK_DEADLOCK FALSE
 
PROPERTIES OverridesValid RequestsEnd
