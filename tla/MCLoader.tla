------------------------------- MODULE MCLoader -------------------------------
(* Small instances of a node for TLC. *)
EXTENDS LoaderProps, TLC

CONSTANTS i1, i2, hop

(* Two pods whose addresses are each other's in the wrong byte order, given*)
(* in four or in sixteen bytes, and an IPv6 address.                       *)
Pod1 == <<10, 0, 0, 1>>
Pod2 == <<1, 0, 0, 10>>
MCIps == {Pod1, Pod2}
MCAddresses == {Pod1, V4Prefix \o Pod2, [j \in 1 .. 16 |-> j]}

(* A path of one info and two hop fields, and one that path_len allows but *)
(* hop_fields cannot hold.                                                 *)
MCEntries == {[via |-> hop, len |-> MetaLen + InfoLen + 2 * HopLen], [via |-> hop, len |-> U16 - 1]}

(* The smallest packet of one pod, and a segment to be offloaded of the    *)
(* other, which has no room left for the headers.                          *)
MCEgress == {[ipv4 |-> TRUE, src |-> Pod1, len |-> IpLen],
             [ipv4 |-> TRUE, src |-> Pod2, len |-> 65500]}

(* One info and two hop fields, cut off around the end of the headers; a   *)
(* wrong MAC; a current hop field beyond the last one; an IP header length *)
(* that is too small; and a UDP packet for somebody else.                  *)
MCIngress ==
    LET whole == [ipv4 |-> TRUE, udp |-> TRUE, scionPort |-> TRUE, ihl |-> 5, len |-> 1500,
                  numInf |-> 1, numHf |-> 2, curHf |-> 1, mac |-> 0]
        end   == StripLen(whole)
    IN  {[whole EXCEPT !.len = n] : n \in {IpLen, end - 1, end, end + IpLen - 1, end + IpLen}}
        \cup {[whole EXCEPT !.mac = 1], [whole EXCEPT !.curHf = 2, !.len = end],
              [whole EXCEPT !.ihl = 0, !.len = end], [whole EXCEPT !.scionPort = FALSE]}

NodeSymmetry == Permutations({i1, i2})
=============================================================================
