SPECIFICATION Spec
CONSTANTS
    None = None  n1 = n1  n2 = n2  a = a  b = b  t = t  f1 = f1  f2 = f2  w1 = w1  w2 = w2
    Nodes = {n1, n2}
    Recs = {a, b, t}
    Flows = {f1, f2}
    Workers = {w1, w2}
    Home <- MCHome
    Origin <- MCOrigin
    Wf <- MCWf
    Bucket <- MCBucket
    Parents <- MCParents
    Trust <- MCTrust
    Delta = 1
    Target <- MCTarget
    Ttl = {a}
    Faint = {}
    AgentsOf <- MCAgents
    Clock <- MCClock
    Window = 2
    Allow <- MCAllow
    BatchSize = 1
    MaxLocal = 2
    MaxFaults = 1
 
PROPERTIES  Spread

