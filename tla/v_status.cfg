SPECIFICATION FairSpec
CONSTANTS
    None = None  NoPref = NoPref
    p1 = p1  p2 = p2  def = def  q1 = q1  q2 = q2  n1 = n1  n2 = n2  n3 = n3
    x1 = x1  a1 = a1  a2 = a2  c1 = c1  c2 = c2  low = low  high = high
    Policies = {p1}
    Keys <- OneKey
    DefaultPolicy = def
    Peers = {q1}
    PeerKey <- OnePeerIsDef
    Pods = {x1}
    Paths = {n1}
    PathName <- OneName
    ASes = {a1}
    Cidrs = {c1}
    Prefs = {low}
    PolicySpecs <- OneSpec
    PeerSpecs <- OneCluster
    HasScionClient = TRUE
    StatusWritable = FALSE
    MaxUid = 1
    MaxGen = 1
    MaxVer = 0
    MaxFaults = 0
PROPERTY StartedIsFinished
CHECK_DEADLOCK FALSE
