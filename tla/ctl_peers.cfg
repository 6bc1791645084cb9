SPECIFICATION Spec
CONSTANTS
    None = None  NoPref = NoPref
    p1 = p1  p2 = p2  def = def  q1 = q1  q2 = q2  n1 = n1  n2 = n2  n3 = n3
    x1 = x1  a1 = a1  a2 = a2  c1 = c1  c2 = c2  low = low  high = high
    Policies = {p1}
    Keys <- OneKey
    DefaultPolicy = def
    Peers = {q1, q2}
    PeerKey <- PeerIsDef
    Pods = {}
    Paths = {n1, n2}
    PathName <- TwoNames
    ASes = {a1, a2}
    Cidrs = {c1, c2}
    Prefs = {low}
    PolicySpecs <- LowOnly
    PeerSpecs <- TwoClusters
    HasScionClient = TRUE
    StatusWritable = TRUE
    MaxUid = 1
    MaxGen = 1
    MaxVer = 0
    MaxFaults = 2
INVARIANTS ReadyPathsExist PathsAreCoherent
CHECK_DEADLOCK FALSE
