------------------------------- MODULE Datapath -------------------------------
(***************************************************************************)
(* The two eBPF programs of a node, bpf/tc_egress.c and bpf/xdp_ingress.c, *)
(* as functions of a packet and of the maps they look into.  A packet is   *)
(* the header fields that decide its fate; lengths are in bytes and count  *)
(* from the end of the Ethernet header.  The value of a program is the set *)
(* of its possible outcomes: a helper call may fail.                       *)
(***************************************************************************)
EXTENDS MapKeys

CONSTANTS
    PolicyIds, \* keys of scion_path_cache
    LocalKey,  \* the key 0 at which xdp_ingress looks up its MAC key
    NextHops   \* border routers

ASSUME DatapathAssumption == LocalKey \in PolicyIds

(* sizeof of the headers (bpf/headers/scion.h and Linux).                  *)
IpLen    == 20
UdpLen   == 8
ScionLen == 12
AddrLen  == 24
MetaLen  == 7
InfoLen  == 8
HopLen   == 16
E2eLen   == 8

MaxPathLen == 256
U16 == 65536

(* struct scion_path_entry: next hop and path_len. *)
Entry == [via : NextHops, len : 0 .. U16 - 1]

(* The contents of one instance of pod_policy_map and scion_path_cache.    *)
(* A key of pod_policy_map is four bytes in memory.                        *)
Tables == [pods : [Ips -> PolicyIds \cup {None}], cache : [PolicyIds -> Entry \cup {None}]]

EmptyTables == [pods |-> [x \in Ips |-> None], cache |-> [k \in PolicyIds |-> None]]

Untouched == [act |-> "pass"]
Dropped   == [act |-> "drop"]

-----------------------------------------------------------------------------
(* tc_egress. *)

(* What adjust_room opens between the Ethernet and the IP header.          *)
EncapLen(e) == IpLen + UdpLen + ScionLen + AddrLen + e.len + E2eLen

(* The path of the policy of the source pod, if both lookups succeed.      *)
PathOf(t, src) == IF t.pods[src] = None THEN None ELSE t.cache[t.pods[src]]

(* write_scion_headers: next hop, and the 16-bit tot_len and udp len.      *)
Encapsulated(e, p) ==
    [act |-> "encap", via |-> e.via, room |-> EncapLen(e),
     totLen |-> (p.len + EncapLen(e)) % U16,
     udpLen |-> (p.len + EncapLen(e) - IpLen) % U16]

(* Mutant: path_len is not checked. *)
TcEgressUnchecked(t, p) ==
    IF ~p.ipv4 \/ PathOf(t, p.src) = None THEN {Untouched}
    ELSE {Dropped, Encapsulated(PathOf(t, p.src), p)}

(* The program: cleartext without a policy or a path, and otherwise        *)
(* encapsulated, unless the entry is too long or a helper fails.           *)
TcEgress(t, p) ==
    LET e == PathOf(t, p.src)
    IN  IF ~p.ipv4 \/ e = None THEN {Untouched}
        ELSE IF e.len > MaxPathLen THEN {Dropped}
        ELSE {Dropped, Encapsulated(e, p)}

-----------------------------------------------------------------------------
(* xdp_ingress.  Offsets count from the first byte of the frame. *)

EthLen == 14

(* Bounds check: the frame of p holds `size` bytes from `off` on.          *)
Holds(p, off, size) == off + size <= EthLen + p.len

(* Where the headers start, as the packet itself says. *)
UdpOff(p)   == EthLen + p.ihl * 4
ScionOff(p) == UdpOff(p) + UdpLen
MetaOff(p)  == ScionOff(p) + ScionLen + AddrLen
InfOff(p)   == MetaOff(p) + MetaLen
HopOff(p)   == InfOff(p) + p.numInf * InfoLen + p.curHf * HopLen

(* encap_len: the bytes between the Ethernet header and the inner IP       *)
(* header, with every field the meta header counts.                        *)
StripLen(p) ==
    LET pathHdrLen == MetaLen + p.numInf * InfoLen + p.numHf * HopLen
    IN  p.ihl * 4 + UdpLen + ScionLen + AddrLen + pathHdrLen + E2eLen

HasPathMeta(p) == Holds(p, MetaOff(p), MetaLen)

(* Mutant: the hop field may start at the end of the frame. *)
HopFieldStarts(p) == Holds(p, HopOff(p), 0)

HasHopField(p) == Holds(p, HopOff(p), HopLen)

(* Mutant: the inner packet must be longer than its IP header. *)
InnerIpAndMore(p) == Holds(p, StripLen(p) + EthLen, IpLen + 1)

(* After the shift: the inner IP header is there. *)
HasInnerIp(p) == Holds(p, StripLen(p) + EthLen, IpLen)

(* calculate_scion_mac is a stub: the MAC of every hop field is zero.      *)
ScionMac(p) == 0

(* verify_scion_mac of the current hop field. *)
MacVerifies(p) == p.mac = ScionMac(p)

(* The lookup of the MAC key: an entry, or None. *)
LocalCrypto(t) == t.cache[LocalKey]

(* The program is a chain of steps.  Each uses bytes of the frame, given   *)
(* as <<offset, size>>, and goes on or ends the program.                   *)
Step(uses, goesOn) == [uses |-> uses, goesOn |-> goesOn]

Through(chain) == \A j \in DOMAIN chain : chain[j].goesOn

(* Up to the port: a packet that does not get through is passed.           *)
Classify(p) == <<
    Step({}, Holds(p, 0, EthLen + IpLen + UdpLen)),
    Step({<<12, 2>>}, p.ipv4),
    Step({}, Holds(p, EthLen, IpLen)),
    Step({<<EthLen + 9, 1>>}, p.udp),
    Step({<<EthLen, 1>>}, Holds(p, UdpOff(p), UdpLen)),
    Step({<<UdpOff(p) + 2, 2>>}, p.scionPort) >>

(* From there on, with the result of the lookup: one that does not get     *)
(* through is dropped.                                                     *)
Decapsulate(localCrypto, p) == <<
    Step({}, Holds(p, ScionOff(p), ScionLen)),
    Step({}, HasPathMeta(p)),
    Step({<<MetaOff(p), MetaLen>>}, HasHopField(p)),
    Step({<<MetaOff(p), MetaLen>>, <<EthLen, 1>>}, Holds(p, EthLen, StripLen(p))),
    Step({}, Holds(p, InfOff(p), InfoLen)),
    Step({}, localCrypto # None),
    Step({<<InfOff(p), InfoLen>>, <<HopOff(p), HopLen>>}, MacVerifies(p)),
    Step({<<0, EthLen>>}, Holds(p, StripLen(p), EthLen)),
    Step({<<StripLen(p), EthLen>>}, HasInnerIp(p)) >>

(* UDP to port 30041. *)
IsScion(p) == Through(Classify(p))

(* The program.  bpf_xdp_adjust_head may fail, and the packet is dropped.  *)
XdpIngress(localCrypto, p) ==
    IF ~IsScion(p) THEN {Untouched}
    ELSE IF ~Through(Decapsulate(localCrypto, p)) THEN {Dropped}
    ELSE {Dropped, [act |-> "decap", inner |-> p.len - StripLen(p)]}
=============================================================================
