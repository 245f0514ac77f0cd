SPECIFICATION Spec
CONSTANTS
    Session = {s1, s2}
    Spenders = {s1, s2}
    Key = {k1}
    Anon = {a1}
    Limit = 3
    Amounts = {1, 2}
    Costs = {2}
    MaxOps = 2
    Free = Free
    None = None
INVARIANTS
    TypeOK
    
    AckedDebitsKept
PROPERTY OperationsEnd
