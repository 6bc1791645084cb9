\* One loader, whose Close must leave no XDP program behind.
CONSTANTS
    Ifaces = {i1, i2}
    Ips <- MCIps
    Addresses <- MCAddresses
    BigEndian = FALSE
    Compiled = {"tc", "xdp"}
    PolicyIds = {0, 42}
    LocalKey = 0
    NextHops = {hop}
    None = None
    i1 = i1
    i2 = i2
    hop = hop
    Entries <- MCEntries
    EgressPackets <- MCEgress
    IngressPackets <- MCIngress
    PodMax = 1
    PathMax = 1
    MaxInstances = 4
SPECIFICATION Spec
CHECK_DEADLOCK FALSE
PROPERTY CloseDetaches
