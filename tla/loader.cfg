\* Two interfaces, two pods and two policy ids, a path cache full with one
\* entry, and two loads of the objects.
CONSTANTS
    Ifaces = {i1, i2}
    Ips <- MCIps
    Addresses <- MCAddresses
    BigEndian = FALSE
    Compiled = {"tc", "xdp"}
    PolicyIds = {0, 42}
    LocalKey = 0
    NextHops = {hop}
    None = None
    i1 = i1
    i2 = i2
    hop = hop
    Entries <- MCEntries
    EgressPackets <- MCEgress
    IngressPackets <- MCIngress
    PodMax = 1
    PathMax = 1
    MaxInstances = 4
SYMMETRY NodeSymmetry
SPECIFICATION Spec
CHECK_DEADLOCK FALSE
INVARIANTS
    TypeOK
    EgressFollowsAgent
    XdpIsHeld
    NothingLeaks
    
    ReadsAreInside
    WholePacketsGetThrough
PROPERTY ImplementsNodeEgress
