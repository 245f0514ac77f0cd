SPECIFICATION Spec
CONSTANTS
    None = None  a = a  b = b  t = t  p = p  q = q
    Recs = {a, b, t}
    Slot <- MCSlot
    Conf <- MCConf
    Rank <- MCRank
    Trust <- MCTrust
    Text <- MCText
    Cites <- MCCites
    Target <- MCTarget
    Unsigned = {}
    Sessions = {"s1", "s2"}
    TrustDelta = 5
    MinConf = 70
    RankDelta = 15
    MaxOps = 3
    MaxReads = 2
    Prompts = {p, q}
    Caps = {"research"}
    Near <- MCNear
    Threshold = 92
    CacheCap = 2
    Poisons <- MCPoisons
    Answers = {"good", "vague", "failed"}
    MaxStores = 3
CHECK_DEADLOCK FALSE
INVARIANTS  PlansOnActiveFacts NothingHidden
PROPERTIES  TrimsOnlySurplus
