------------------------------- MODULE MapKeys -------------------------------
(***************************************************************************)
(* pkg/bpf/types.go: how a pod's address becomes a key of pod_policy_map.  *)
(* The Go side makes a number of it, cilium/ebpf writes the number into    *)
(* memory, and the eBPF program looks up the bytes of iph->saddr; all of   *)
(* it must come out at the same four bytes.                                *)
(***************************************************************************)
EXTENDS Integers, Sequences

CONSTANTS
    BigEndian, \* the byte order of the node's CPU
    Ips,       \* addresses of pods, in network order
    None       \* no address, no entry

Byte == 0 .. 255
Octets == [1 .. 4 -> Byte]

ASSUME AddressAssumption ==
    /\ BigEndian \in BOOLEAN
    /\ Ips \subseteq Octets
    /\ None \notin Ips

-----------------------------------------------------------------------------
(* binary.BigEndian.Uint32 and binary.NativeEndian.                        *)
BigEndianUint32(b) == ((b[1] * 256 + b[2]) * 256 + b[3]) * 256 + b[4]

NativeUint32(b) ==
    IF BigEndian THEN BigEndianUint32(b) ELSE BigEndianUint32(<<b[4], b[3], b[2], b[1]>>)

NativeOctets(k) ==
    LET w == (k \div 65536) \div 256
        x == (k \div 65536) % 256
        y == (k \div 256) % 256
        z == k % 256
    IN  IF BigEndian THEN <<w, x, y, z>> ELSE <<z, y, x, w>>

(* net.IP.To4: the address, given in four bytes or in sixteen.             *)
V4Prefix == [j \in 1 .. 12 |-> IF j > 10 THEN 255 ELSE 0]

To4(a) ==
    IF Len(a) = 4 THEN a
    ELSE IF Len(a) = 16 /\ SubSeq(a, 1, 12) = V4Prefix THEN SubSeq(a, 13, 16)
    ELSE None

(* Mutant: the key is made in network byte order. *)
IPToNetworkKey(a) == IF To4(a) = None THEN None ELSE BigEndianUint32(To4(a))

(* The key of an IPv4 address; None is the error for any other.            *)
IPToKey(a) == IF To4(a) = None THEN None ELSE NativeUint32(To4(a))

IPFromKey(k) == NativeOctets(k)

(* The bytes cilium/ebpf hands to the kernel for a uint32 key.             *)
Marshalled(k) == NativeOctets(k)
=============================================================================
