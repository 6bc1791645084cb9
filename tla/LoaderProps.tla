------------------------------ MODULE LoaderProps ------------------------------
(***************************************************************************)
(* What a node must keep true between the calls of its agent, and what the *)
(* comments and the specification say of it that it does not.              *)
(***************************************************************************)
EXTENDS Loader

CONSTANTS
    EgressPackets,  \* packets that leave the node
    IngressPackets  \* packets that arrive at it

ASSUME PacketAssumption ==
    /\ EgressPackets \subseteq [ipv4 : BOOLEAN, src : Ips, len : Nat]
    /\ IngressPackets \subseteq
         [ipv4 : BOOLEAN, udp : BOOLEAN, scionPort : BOOLEAN, ihl : Nat, len : Nat,
          numInf : Nat, numHf : Nat, curHf : Nat, mac : Nat]

-----------------------------------------------------------------------------
(* AttachTC (lines 56-95) returns nil only when the filter is the running  *)
(* agent's: from then on packets leaving the interface are treated as its  *)
(* map writes (lines 139-169) say, pod by pod, whatever a crashed agent    *)
(* left behind.                                                            *)
EgressFollowsAgent ==
    \A i \in tcOn, p \in EgressPackets :
        filter[i] # None /\ TcEgress(maps[filter[i]], p) = TcEgress(told, p)

(* An XDP program stays attached only through a link of this process: the  *)
(* link AttachXDP and Close (lines 117-133, 177-183) hold, or one they     *)
(* lost, whose finalizer never detaches the program of the current one.    *)
XdpIsHeld ==
    /\ \A i \in Ifaces : xdp[i] # None => i = link \/ i \in lost
    /\ link # None => link \notin lost /\ xdp[link] # None

(* No way through Load (lines 45-54), a failure between its two objects or *)
(* a second Load included, and through Close leaves a program or a map open*)
(* that nobody will close: the Loader still refers to it, or nobody does   *)
(* and its finalizer is to come.                                           *)
NothingLeaks ==
    /\ open \subseteq {tc, ing} \cup dropped
    /\ ~loading /\ ing = None => open \subseteq dropped

(* The largest room tc_egress makes, at the limit of path_len (line 170).  *)
LargestRoom == EncapLen([len |-> MaxPathLen])

(* The outer tot_len and UDP length (tc_egress.c, lines 96 and 114) are    *)
(* the real ones for every path the agent may write, as long as the packet *)
(* leaves room for the largest; and they are wrong exactly when the outer  *)
(* packet is too long for 16 bits, as that of an offloaded segment may be. *)
LengthsAreHonest ==
    \A n \in Instances, p \in EgressPackets : \A r \in TcEgress(maps[n], p) :
        r.act = "encap" =>
          LET honest == r.totLen = p.len + r.room /\ r.udpLen + IpLen = r.totLen
          IN  /\ p.len + LargestRoom < U16 => honest
              /\ honest => p.len + r.room < U16

-----------------------------------------------------------------------------
(* The ingress program, for the maps of any instance. *)

(* The steps of the program for a packet, in their order.                  *)
XdpSteps(e, p) == Classify(p) \o Decapsulate(e, p)

Inside(p, uses) == \A u \in uses : Holds(p, u[1], u[2])

UsesInside(e, p) ==
    LET steps == XdpSteps(e, p)
    IN  \A j \in DOMAIN steps : (\A i \in 1 .. j - 1 : steps[i].goesOn) => Inside(p, steps[j].uses)

(* What the lookup may return with every packet safe. *)
SafeLookups == {e \in Entries \cup {None} : \A p \in IngressPackets : UsesInside(e, p)}

(* Each step of the chain of xdp_ingress.c (lines 60-162) that is reached  *)
(* uses bytes that earlier steps have checked, for packets that end        *)
(* anywhere and count their fields wrongly: no pointer into a packet with  *)
(* offsets from its own headers leaves the frame.                          *)
ReadsAreInside == \A n \in Instances : LocalCrypto(maps[n]) \in SafeLookups

(* A SCION packet that is what its headers count, down to an inner IP      *)
(* header with nothing after it.                                           *)
Whole(p) ==
    /\ p.ipv4 /\ p.udp /\ p.scionPort
    /\ p.curHf < p.numHf
    /\ p.len >= StripLen(p) + IpLen

GetsThrough(e, p) ==
    Whole(p) /\ MacVerifies(p)
      => [act |-> "decap", inner |-> p.len - StripLen(p)] \in XdpIngress(e, p)

(* The keys with which every whole packet gets through. *)
ServingKeys == {e \in Entries : \A p \in IngressPackets : GetsThrough(e, p)}

(* The bounds checks of xdp_ingress.c refuse no whole packet, not even one *)
(* that ends with the last byte they ask for: with a key (line 121) and a  *)
(* MAC that verifies it is handed on, shorter by what line 105 counts.     *)
WholePacketsGetThrough ==
    \A n \in Instances : LocalCrypto(maps[n]) \in ServingKeys \cup {None}

-----------------------------------------------------------------------------
(* The node implements the treatment of leaving packets in NodeEgress.     *)
AbsEgress == [i \in Ifaces |-> IF filter[i] = None THEN None ELSE maps[filter[i]]]

Egress == INSTANCE NodeEgress WITH
    Pods <- Ips, Ids <- PolicyIds, on <- tcOn, egress <- AbsEgress

(* Every behaviour of the Loader (lines 43-183), of its map operations at  *)
(* their limits, of crashes and of interfaces that come and go is one of   *)
(* NodeEgress: one entry changes per call that returns nil, on all attached*)
(* interfaces at once, and nothing that a former agent left ever changes.  *)
ImplementsNodeEgress == Egress!Spec

-----------------------------------------------------------------------------
(* loader.go:175: "Close detaches the XDP link".                           *)
CloseDetaches == [][Close => \A i \in Ifaces : xdp'[i] = None]_vars

(* specification.md:18: the ingress program verifies the MAC, strips the   *)
(* headers and passes the inner packet.  Once the agent has written a path *)
(* at the key the program looks up, whole packets get through.             *)
IngressDelivers ==
    \A i \in Ifaces, p \in IngressPackets :
        /\ tc # None /\ xdp[i] # None /\ xdp[i] = ing
        /\ LocalCrypto(maps[tc]) # None
        /\ Whole(p) /\ MacVerifies(p)
        => \E r \in XdpIngress(LocalCrypto(maps[xdp[i]]), p) : r.act = "decap"
=============================================================================
