----------------------------- MODULE LoaderProofs -----------------------------
(***************************************************************************)
(* Safety of a node for any number of interfaces, pods, policies and       *)
(* loads, and for every packet.                                            *)
(***************************************************************************)
EXTENDS LoaderProps, TLAPS

-----------------------------------------------------------------------------
(* The inductive invariant. *)

(* The objects the Loader refers to are open, and no finalizer runs for    *)
(* them.                                                                   *)
Objects ==
    /\ tc # None => tc \in open \ dropped
    /\ ing # None => ing \in (open \ dropped) \ {tc}

(* What a Loader without an object, or still inside Load, has done: nothing. *)
Unloaded ==
    /\ loading => tc # None
    /\ tc = None \/ loading => tcOn = {} /\ told = EmptyTables
    /\ ing = None => link = None
    /\ ~loading /\ ing = None => tc = None

(* The filters with the running program are those AttachTC added; others   *)
(* have programs loaded earlier.                                           *)
FiltersAreOurs ==
    /\ \A i \in tcOn : filter[i] = tc
    /\ \A i \in Ifaces : filter[i] # None => filter[i] <= used
    /\ tc # None => \A i \in Ifaces : filter[i] = tc => i \in tcOn

(* The canonical maps hold what the agent has said, and maps that are not  *)
(* loaded yet are empty.                                                   *)
ToldIsStored ==
    /\ tc # None => told = maps[tc]
    /\ \A n \in Instances : n > used => maps[n] = EmptyTables

(* A lost link still keeps a program attached.                             *)
LostAreAttached == \A i \in lost : xdp[i] # None

IInv ==
    /\ TypeOK
    /\ Objects
    /\ Unloaded
    /\ FiltersAreOurs
    /\ ToldIsStored
    /\ LostAreAttached
    /\ XdpIsHeld
    /\ NothingLeaks

-----------------------------------------------------------------------------
(* Lemmas about the operators. *)

LEMMA EmptyTablesType == EmptyTables \in Tables
BY DEF EmptyTables, Tables

(* The octets of a number are those it was made of. *)
LEMMA OctetsOfNumber ==
    ASSUME NEW w \in Byte, NEW x \in Byte, NEW y \in Byte, NEW z \in Byte
    PROVE  NativeOctets(BigEndianUint32(<<w, x, y, z>>)) =
             IF BigEndian THEN <<w, x, y, z>> ELSE <<z, y, x, w>>
<1> DEFINE k == BigEndianUint32(<<w, x, y, z>>)
<1>1. k = ((w * 256 + x) * 256 + y) * 256 + z
  BY DEF BigEndianUint32
<1>2. /\ (k \div 65536) \div 256 = w /\ (k \div 65536) % 256 = x
      /\ (k \div 256) % 256 = y /\ k % 256 = z
  BY <1>1 DEF Byte
<1> HIDE DEF k
<1>3. NativeOctets(k) = IF BigEndian THEN <<w, x, y, z>> ELSE <<z, y, x, w>>
  BY <1>2 DEF NativeOctets
<1> QED
  BY <1>3 DEF k

(* Go and eBPF agree on the key of an address, in either byte order.       *)
LEMMA NativeInverse == ASSUME NEW b \in Octets PROVE NativeOctets(NativeUint32(b)) = b
<1>1. b[1] \in Byte /\ b[2] \in Byte /\ b[3] \in Byte /\ b[4] \in Byte
  BY DEF Octets
<1>2. b = <<b[1], b[2], b[3], b[4]>>
  BY DEF Octets
<1>3. CASE BigEndian
  <2>1. NativeOctets(BigEndianUint32(<<b[1], b[2], b[3], b[4]>>)) = <<b[1], b[2], b[3], b[4]>>
    BY <1>1, <1>3, OctetsOfNumber, ZenonT(30)
  <2>2. NativeUint32(b) = BigEndianUint32(<<b[1], b[2], b[3], b[4]>>)
    BY <1>2, <1>3 DEF NativeUint32
  <2> QED
    BY <1>2, <2>1, <2>2
<1>4. CASE ~BigEndian
  <2>1. NativeOctets(BigEndianUint32(<<b[4], b[3], b[2], b[1]>>)) = <<b[1], b[2], b[3], b[4]>>
    BY <1>1, <1>4, OctetsOfNumber, ZenonT(30)
  <2>2. NativeUint32(b) = BigEndianUint32(<<b[4], b[3], b[2], b[1]>>)
    BY <1>4 DEF NativeUint32
  <2> QED
    BY <1>2, <2>1, <2>2
<1> QED
  BY <1>3, <1>4

LEMMA PodKeyIsAddress ==
    ASSUME NEW a \in Addresses, IPToKey(a) # None
    PROVE  To4(a) \in Ips /\ PodKey(a) = To4(a)
<1>1. To4(a) \in Ips /\ IPToKey(a) = NativeUint32(To4(a))
  BY LoaderAssumption DEF IPToKey
<1>2. NativeOctets(NativeUint32(To4(a))) = To4(a)
  BY <1>1, NativeInverse, AddressAssumption
<1> QED
  BY <1>1, <1>2 DEF PodKey, Marshalled

(* IPFromKey (types.go, lines 43-47) is the inverse of IPToKey (lines      *)
(* 34-40), whether the address is given in four bytes or in sixteen.       *)
THEOREM IPFromKeyInverts ==
    ASSUME NEW a \in Addresses, IPToKey(a) # None
    PROVE  IPFromKey(IPToKey(a)) = To4(a)
BY PodKeyIsAddress DEF PodKey, Marshalled, IPFromKey

(* Two addresses get one key only when they are the same IPv4 address: no  *)
(* pod is treated by the policy of another one.                            *)
THEOREM KeysAreUnique ==
    ASSUME NEW a \in Addresses, NEW b \in Addresses, IPToKey(a) = IPToKey(b), IPToKey(a) # None
    PROVE  To4(a) = To4(b)
BY PodKeyIsAddress DEF PodKey

(* A Put that succeeds sets the key and nothing else. *)
LEMMA PutSets ==
    ASSUME NEW f, NEW k, NEW v, NEW max, NEW g \in Put(f, k, v, max)
    PROVE  g = [f EXCEPT ![k] = v]
BY DEF Put

LEMMA PathLenType == ASSUME NEW e \in Entry PROVE e.len \in Nat
<1>1. e.len \in 0 .. U16 - 1
  BY DEF Entry
<1> QED
  BY <1>1

(* Outcomes of tc_egress: the lengths are right exactly when they fit.     *)
LEMMA EncapsulatedLengths ==
    ASSUME NEW t \in Tables, NEW p \in EgressPackets, NEW r \in TcEgress(t, p),
           r.act = "encap"
    PROVE  /\ p.len + LargestRoom < U16 => r.totLen = p.len + r.room /\ r.udpLen + IpLen = r.totLen
           /\ r.totLen = p.len + r.room => p.len + r.room < U16
<1>1. /\ PathOf(t, p.src) # None /\ ~(PathOf(t, p.src).len > MaxPathLen)
      /\ r = Encapsulated(PathOf(t, p.src), p)
  BY DEF TcEgress, Untouched, Dropped
<1>2. p.src \in Ips /\ p.len \in Nat
  BY PacketAssumption
<1>3. PathOf(t, p.src) \in Entry
  BY <1>1, <1>2 DEF PathOf, Tables
<1> DEFINE e == PathOf(t, p.src)
<1>4. e.len \in Nat /\ e.len <= 256
  <2>1. e.len \in Nat
    BY <1>3, PathLenType
  <2>2. ~(e.len > 256)
    BY <1>1 DEF MaxPathLen
  <2> QED
    BY <2>1, <2>2
<1>5. EncapLen(e) = 72 + e.len
  BY <1>4 DEF EncapLen, IpLen, UdpLen, ScionLen, AddrLen, E2eLen
<1>6. LargestRoom = 328
  BY DEF LargestRoom, EncapLen, IpLen, UdpLen, ScionLen, AddrLen, E2eLen, MaxPathLen
<1>7. r.room = EncapLen(e) /\ r.totLen = (p.len + EncapLen(e)) % U16
      /\ r.udpLen = (p.len + EncapLen(e) - IpLen) % U16
  BY <1>1 DEF Encapsulated
<1> HIDE DEF e
<1>8. ASSUME p.len + 328 < 65536
      PROVE  /\ (p.len + EncapLen(e)) % 65536 = p.len + EncapLen(e)
             /\ (p.len + EncapLen(e) - 20) % 65536 = p.len + EncapLen(e) - 20
  BY <1>2, <1>4, <1>5, <1>8
<1>9. (p.len + EncapLen(e)) % 65536 < 65536
  BY <1>2, <1>4, <1>5
<1> QED
  BY <1>2, <1>4, <1>5, <1>6, <1>7, <1>8, <1>9 DEF U16, IpLen

(* A map operation that succeeds changes one entry of the canonical maps,  *)
(* the one the agent has named.                                            *)
LEMMA WritesWhatIsTold ==
    ASSUME IInv, Writing
    PROVE  \E t \in Tables :
              /\ tc # None
              /\ WriteTables(t, t)
              /\ \/ \E x \in Ips, k \in PolicyIds \cup {None} : t = [told EXCEPT !.pods[x] = k]
                 \/ \E k \in PolicyIds, e \in Entries \cup {None} : t = [told EXCEPT !.cache[k] = e]
<1>0. tc # None
  BY DEF Writing, UpdatePodPolicy, DeletePodPolicy, UpdateScionPath, DeleteScionPath
<1>1. maps[tc] = told /\ told \in Tables
  BY <1>0 DEF IInv, ToldIsStored, TypeOK, ProcessOK
<1>2. ASSUME NEW x \in Ips, NEW k \in PolicyIds \cup {None}
      PROVE  /\ [told EXCEPT !.pods[x] = k] \in Tables
             /\ [told EXCEPT !.pods = [told.pods EXCEPT ![x] = k]] = [told EXCEPT !.pods[x] = k]
  BY <1>1 DEF Tables
<1>3. ASSUME NEW k \in PolicyIds, NEW e \in Entry \cup {None}
      PROVE  /\ [told EXCEPT !.cache[k] = e] \in Tables
             /\ [told EXCEPT !.cache = [told.cache EXCEPT ![k] = e]] = [told EXCEPT !.cache[k] = e]
  BY <1>1 DEF Tables
<1>4. ASSUME NEW a \in Addresses, NEW k \in PolicyIds, UpdatePodPolicy(a, k)
      PROVE  WriteTables([told EXCEPT !.pods[To4(a)] = k], [told EXCEPT !.pods[To4(a)] = k])
             /\ To4(a) \in Ips
  <2>1. To4(a) \in Ips /\ PodKey(a) = To4(a)
    BY <1>4, PodKeyIsAddress DEF UpdatePodPolicy
  <2>2. PICK f \in Put(told.pods, To4(a), k, PodMax) :
             WriteTables([told EXCEPT !.pods = f], [told EXCEPT !.pods[To4(a)] = k])
    BY <1>1, <1>4, <2>1 DEF UpdatePodPolicy
  <2>3. f = [told.pods EXCEPT ![To4(a)] = k]
    BY <2>2, PutSets
  <2> QED
    BY <1>2, <2>1, <2>2, <2>3
<1>5. ASSUME NEW a \in Addresses, DeletePodPolicy(a)
      PROVE  WriteTables([told EXCEPT !.pods[To4(a)] = None], [told EXCEPT !.pods[To4(a)] = None])
             /\ To4(a) \in Ips
  BY <1>1, <1>5, PodKeyIsAddress DEF DeletePodPolicy
<1>6. ASSUME NEW k \in PolicyIds, NEW e \in Entries, UpdateScionPath(k, e)
      PROVE  WriteTables([told EXCEPT !.cache[k] = e], [told EXCEPT !.cache[k] = e])
  <2>1. PICK f \in Put(told.cache, k, e, PathMax) :
             WriteTables([told EXCEPT !.cache = f], [told EXCEPT !.cache[k] = e])
    BY <1>1, <1>6 DEF UpdateScionPath
  <2>2. f = [told.cache EXCEPT ![k] = e]
    BY <2>1, PutSets
  <2> QED
    BY <1>3, <2>1, <2>2, LoaderAssumption
<1>7. ASSUME NEW k \in PolicyIds, DeleteScionPath(k)
      PROVE  WriteTables([told EXCEPT !.cache[k] = None], [told EXCEPT !.cache[k] = None])
  BY <1>1, <1>7 DEF DeleteScionPath
<1>8. ASSUME NEW x \in Ips, NEW k \in PolicyIds \cup {None},
             WriteTables([told EXCEPT !.pods[x] = k], [told EXCEPT !.pods[x] = k])
      PROVE  \E t \in Tables : WriteTables(t, t)
                /\ \E y \in Ips, j \in PolicyIds \cup {None} : t = [told EXCEPT !.pods[y] = j]
  BY <1>2, <1>8
<1>9. ASSUME NEW k \in PolicyIds, NEW e \in Entries \cup {None},
             WriteTables([told EXCEPT !.cache[k] = e], [told EXCEPT !.cache[k] = e])
      PROVE  \E t \in Tables : WriteTables(t, t)
                /\ \E j \in PolicyIds, d \in Entries \cup {None} : t = [told EXCEPT !.cache[j] = d]
  BY <1>3, <1>9, LoaderAssumption
<1> QED
  BY <1>0, <1>4, <1>5, <1>6, <1>7, <1>8, <1>9 DEF Writing

-----------------------------------------------------------------------------
(* Every step keeps the invariant. *)

LEMMA IInvInit == Init => IInv
<1> SUFFICES ASSUME Init PROVE IInv
  OBVIOUS
<1>1. ~loading /\ loading \in BOOLEAN
  BY DEF Init
<1>2. KernelOK /\ ProcessOK
  BY <1>1, EmptyTablesType, LoaderAssumption DEF Init, KernelOK, ProcessOK, Instances
<1>3. Objects /\ Unloaded /\ FiltersAreOurs /\ ToldIsStored
  BY <1>1, LoaderAssumption DEF Init, Objects, Unloaded, FiltersAreOurs, ToldIsStored
<1>4. LostAreAttached /\ XdpIsHeld /\ NothingLeaks
  BY <1>1 DEF Init, LostAreAttached, XdpIsHeld, NothingLeaks
<1> QED
  BY <1>2, <1>3, <1>4 DEF IInv, TypeOK

LEMMA IInvStep == IInv /\ [Next]_vars => IInv'
<1> SUFFICES ASSUME IInv, [Next]_vars PROVE IInv'
  OBVIOUS
<1> USE LoaderAssumption
<1> USE DEF IInv, TypeOK, KernelOK, ProcessOK, Objects, Unloaded, FiltersAreOurs, LostAreAttached,
            XdpIsHeld, NothingLeaks, ToldIsStored, Instances, objects, history
<1>1. CASE LoadTc
  <2>1. /\ used' = used + 1 /\ used \in Nat /\ used + 1 <= MaxInstances
        /\ open' = open \cup {used + 1}
        /\ tc' = used + 1 /\ tc' # None /\ tc' # ing
        /\ dropped' = dropped \cup ({tc} \ {None})
        /\ tcOn' = {} /\ told' = EmptyTables
        /\ UNCHANGED <<present, qdisc, filter, xdp, maps, ing, link, lost>>
    BY <1>1 DEF LoadTc, LoadTcEgressObjects, NewHistory, kernel
  <2>2. loading' /\ loading' \in BOOLEAN
    BY <1>1 DEF LoadTc
  <2>3. KernelOK' /\ ProcessOK'
    <3>1. KernelOK'
      BY <2>1
    <3>2. used' \in 0 .. MaxInstances /\ 1 .. used \subseteq 1 .. used' /\ used + 1 \in 1 .. used'
      BY <2>1
    <3>3. open' \subseteq 1 .. used' /\ dropped' \subseteq open'
      BY <2>1, <3>2
    <3> QED
      BY <2>1, <2>2, <3>1, <3>2, <3>3, EmptyTablesType
  <2>4. Objects' /\ Unloaded'
    BY <2>1, <2>2
  <2>5. FiltersAreOurs' /\ ToldIsStored'
    BY <2>1
  <2>6. LostAreAttached' /\ XdpIsHeld'
    BY <2>1
  <2>7. NothingLeaks'
    <3>1. open \subseteq {ing} \cup dropped'
      BY <2>1
    <3> QED
      BY <2>1, <2>2, <3>1
  <2> QED
    BY <2>3, <2>4, <2>5, <2>6, <2>7
<1>2. CASE LoadXdp \/ LoadXdpFails
  <2>1. CASE LoadXdp
    <3>1. /\ loading /\ tc # None /\ tcOn = {} /\ told = EmptyTables
          /\ used' = used + 1 /\ used \in Nat /\ used + 1 <= MaxInstances
          /\ open' = open \cup {used + 1}
          /\ ing' = used + 1 /\ ing' # None /\ ing' # tc
          /\ dropped' = dropped \cup ({ing} \ {None})
          /\ UNCHANGED <<present, qdisc, filter, xdp, maps, tc, link, lost, tcOn, told>>
      BY <2>1 DEF LoadXdp, LoadXdpIngressObjects, kernel
    <3>2. ~loading' /\ loading' \in BOOLEAN
      BY <2>1 DEF LoadXdp
    <3>3. KernelOK' /\ ProcessOK'
      <4>1. KernelOK'
        BY <3>1
      <4>2. used' \in 0 .. MaxInstances /\ 1 .. used \subseteq 1 .. used' /\ used + 1 \in 1 .. used'
        BY <3>1
      <4>3. open' \subseteq 1 .. used' /\ dropped' \subseteq open'
        BY <3>1, <4>2
      <4> QED
        BY <3>1, <3>2, <4>1, <4>2, <4>3
    <3>4. Objects' /\ Unloaded'
      BY <3>1, <3>2
    <3>5. FiltersAreOurs' /\ ToldIsStored'
      BY <3>1
    <3>6. LostAreAttached' /\ XdpIsHeld'
      BY <3>1
    <3>7. NothingLeaks'
      <4>1. open \subseteq {tc} \cup dropped'
        BY <3>1
      <4> QED
        BY <3>1, <4>1
    <3> QED
      BY <3>3, <3>4, <3>5, <3>6, <3>7
  <2>2. CASE LoadXdpFails
    <3>1. /\ loading /\ tc # None /\ tcOn = {} /\ told = EmptyTables
          /\ open' = open \ {tc} /\ tc' = None
          /\ UNCHANGED <<present, qdisc, filter, xdp, maps, used, ing, dropped, link, lost, tcOn, told>>
      BY <2>2 DEF LoadXdpFails, TcEgressClose, kernel
    <3>2. ~loading' /\ loading' \in BOOLEAN
      BY <2>2 DEF LoadXdpFails
    <3>3. KernelOK' /\ ProcessOK'
      BY <3>1, <3>2
    <3>4. Objects' /\ Unloaded'
      BY <3>1, <3>2
    <3>5. FiltersAreOurs' /\ ToldIsStored'
      BY <3>1
    <3>6. LostAreAttached' /\ XdpIsHeld'
      BY <3>1
    <3>7. NothingLeaks'
      BY <3>1, <3>2
    <3> QED
      BY <3>3, <3>4, <3>5, <3>6, <3>7
  <2> QED
    BY <1>2, <2>1, <2>2
<1>3. CASE ~loading /\ Close
  BY <1>3, EmptyTablesType DEF Close, Unlink, TcEgressClose, XdpIngressClose, NewHistory
<1>4. CASE Crash
  BY <1>4, EmptyTablesType DEF Crash, Unlink, NewHistory
<1>5. ASSUME ~loading, NEW i \in Ifaces, AttachTC(i) PROVE IInv'
  BY <1>5 DEF AttachTC, process
<1>6. ASSUME NEW i \in Ifaces, AttachTCFails(i) PROVE IInv'
  BY <1>6 DEF AttachTCFails, process
<1>7. ASSUME NEW i \in Ifaces, DetachTC(i) PROVE IInv'
  BY <1>7 DEF DetachTC, process
<1>8. ASSUME ~loading, NEW i \in Ifaces, AttachXDP(i) PROVE IInv'
  BY <1>8 DEF AttachXDP, Forgotten
<1>9. ASSUME NEW i \in Ifaces, AttachXDPFails(i) PROVE IInv'
  BY <1>9 DEF AttachXDPFails, Forgotten, kernel
<1>10. ASSUME NEW i \in Ifaces, Finalize(i) PROVE IInv'
  BY <1>10 DEF Finalize
<1>11. ASSUME ~loading, tc # None, NEW t \in Tables, WriteTables(t, t) PROVE IInv'
  BY <1>11 DEF WriteTables, kernel, process
<1>12. CASE ~loading /\ Writing
  BY <1>11, <1>12, WritesWhatIsTold
<1>13. ASSUME NEW i \in Ifaces, InterfaceGone(i) PROVE IInv'
  BY <1>13 DEF InterfaceGone
<1>14. ASSUME NEW i \in Ifaces, InterfaceNew(i) PROVE IInv'
  BY <1>14 DEF InterfaceNew, process
<1>15. ASSUME NEW n \in dropped, FinalizeObject(n) PROVE IInv'
  BY <1>15 DEF FinalizeObject, kernel
<1>16. CASE UNCHANGED vars
  BY <1>16 DEF vars, kernel, process
<1> QED
  BY <1>1, <1>2, <1>3, <1>4, <1>5, <1>6, <1>7, <1>8, <1>9, <1>10, <1>12, <1>13, <1>14, <1>15, <1>16
     DEF Next, Attaching, Around

LEMMA Inductive == Spec => []IInv
BY IInvInit, IInvStep, PTL DEF Spec

-----------------------------------------------------------------------------
(* The theorems. *)

(* Every field of the Loader and of the kernel objects keeps its type.     *)
THEOREM TypeCorrect == Spec => []TypeOK
<1>1. IInv => TypeOK
  BY DEF IInv
<1> QED
  BY <1>1, Inductive, PTL

(* Where AttachTC succeeded, packets leave as the running agent wrote it.  *)
THEOREM AttachedIsObeyed == Spec => []EgressFollowsAgent
<1>1. IInv => EgressFollowsAgent
  BY LoaderAssumption
     DEF IInv, TypeOK, ProcessOK, Unloaded, FiltersAreOurs, ToldIsStored, EgressFollowsAgent,
         Instances
<1> QED
  BY <1>1, Inductive, PTL

(* No XDP program outlives the links of the process, and no finalizer of a *)
(* lost link detaches the current program.                                 *)
THEOREM XdpStaysHeld == Spec => []XdpIsHeld
<1>1. IInv => XdpIsHeld
  BY DEF IInv
<1> QED
  BY <1>1, Inductive, PTL

(* Whatever failed or was closed, nothing stays open beside the Loader.    *)
THEOREM OpenIsOwned == Spec => []NothingLeaks
<1>1. IInv => NothingLeaks
  BY DEF IInv
<1> QED
  BY <1>1, Inductive, PTL

(* The outer lengths are right for every path the agent may ever write, on *)
(* every packet that leaves room for them.                                 *)
THEOREM LengthsStayHonest == Spec => []LengthsAreHonest
<1>1. IInv => LengthsAreHonest
  BY EncapsulatedLengths DEF IInv, TypeOK, KernelOK, LengthsAreHonest
<1> QED
  BY <1>1, Inductive, PTL

-----------------------------------------------------------------------------
(* The ingress program, for every packet whatever its headers count.       *)

(* The offsets of the program are those the headers say, without overlap.  *)
LEMMA IngressOffsets ==
    ASSUME NEW p \in IngressPackets
    PROVE  /\ p.len \in Nat /\ p.ihl \in Nat /\ p.numInf \in Nat /\ p.numHf \in Nat /\ p.curHf \in Nat
           /\ UdpOff(p) = 14 + p.ihl * 4
           /\ ScionOff(p) = UdpOff(p) + 8
           /\ MetaOff(p) = ScionOff(p) + 36
           /\ InfOff(p) = MetaOff(p) + 7
           /\ HopOff(p) = InfOff(p) + p.numInf * 8 + p.curHf * 16
           /\ StripLen(p) = InfOff(p) - 14 + p.numInf * 8 + p.numHf * 16 + 8
<1>1. p.len \in Nat /\ p.ihl \in Nat /\ p.numInf \in Nat /\ p.numHf \in Nat /\ p.curHf \in Nat
  BY PacketAssumption
<1>2. /\ UdpOff(p) = 14 + p.ihl * 4
      /\ ScionOff(p) = UdpOff(p) + 8
      /\ MetaOff(p) = ScionOff(p) + 36
      /\ InfOff(p) = MetaOff(p) + 7
      /\ HopOff(p) = InfOff(p) + p.numInf * 8 + p.curHf * 16
  BY <1>1 DEF UdpOff, ScionOff, MetaOff, InfOff, HopOff, EthLen, UdpLen, ScionLen, AddrLen, MetaLen,
              InfoLen, HopLen
<1>3. StripLen(p) = p.ihl * 4 + 8 + 12 + 24 + (7 + p.numInf * 8 + p.numHf * 16) + 8
  BY <1>1 DEF StripLen, UdpLen, ScionLen, AddrLen, MetaLen, InfoLen, HopLen, E2eLen
<1> QED
  BY <1>1, <1>2, <1>3

(* What is whole gets through: no bounds check of xdp_ingress.c refuses a  *)
(* packet that is what its headers count, for any number of fields.        *)
THEOREM WholeGetsThrough ==
    ASSUME NEW e, e # None, NEW p \in IngressPackets PROVE GetsThrough(e, p)
<1> SUFFICES ASSUME Whole(p), MacVerifies(p) PROVE IsScion(p) /\ Through(Decapsulate(e, p))
  BY DEF GetsThrough, XdpIngress
<1>1. /\ p.len \in Nat /\ p.ihl \in Nat /\ p.numInf \in Nat /\ p.numHf \in Nat /\ p.curHf \in Nat
      /\ p.curHf + 1 <= p.numHf /\ p.len >= StripLen(p) + 20
  BY IngressOffsets DEF Whole, IpLen
<1>2. /\ Holds(p, 0, EthLen + IpLen + UdpLen) /\ Holds(p, EthLen, IpLen)
      /\ Holds(p, UdpOff(p), UdpLen) /\ Holds(p, ScionOff(p), ScionLen) /\ HasPathMeta(p)
      /\ HasHopField(p) /\ Holds(p, EthLen, StripLen(p)) /\ Holds(p, InfOff(p), InfoLen)
      /\ Holds(p, StripLen(p), EthLen) /\ HasInnerIp(p)
  <2>1. /\ UdpOff(p) = 14 + p.ihl * 4
        /\ ScionOff(p) = UdpOff(p) + 8
        /\ MetaOff(p) = ScionOff(p) + 36
        /\ InfOff(p) = MetaOff(p) + 7
        /\ HopOff(p) = InfOff(p) + p.numInf * 8 + p.curHf * 16
        /\ StripLen(p) = InfOff(p) - 14 + p.numInf * 8 + p.numHf * 16 + 8
    BY IngressOffsets
  <2>2. /\ 0 + 42 <= 14 + p.len /\ 14 + 20 <= 14 + p.len
        /\ UdpOff(p) + 8 <= 14 + p.len /\ ScionOff(p) + 12 <= 14 + p.len
        /\ MetaOff(p) + 7 <= 14 + p.len /\ HopOff(p) + 16 <= 14 + p.len
        /\ 14 + StripLen(p) <= 14 + p.len /\ InfOff(p) + 8 <= 14 + p.len
        /\ StripLen(p) + 14 <= 14 + p.len /\ StripLen(p) + 14 + 20 <= 14 + p.len
    BY <1>1, <2>1
  <2> QED
    BY <2>2 DEF Holds, HasPathMeta, HasHopField, HasInnerIp, EthLen, IpLen, UdpLen, ScionLen,
                MetaLen, InfoLen, HopLen
<1>3. ASSUME NEW uses, NEW goesOn, goesOn PROVE Step(uses, goesOn).goesOn
  BY <1>3 DEF Step
<1>4. IsScion(p)
  <2>1. DOMAIN Classify(p) = 1 .. 6
    BY DEF Classify
  <2>2. \A j \in 1 .. 6 : j \in {1, 2, 3, 4, 5, 6}
    OBVIOUS
  <2>3. /\ Classify(p)[1].goesOn /\ Classify(p)[2].goesOn /\ Classify(p)[3].goesOn
        /\ Classify(p)[4].goesOn /\ Classify(p)[5].goesOn /\ Classify(p)[6].goesOn
    BY <1>2, <1>3 DEF Classify, Whole
  <2> QED
    BY <2>1, <2>2, <2>3 DEF IsScion, Through
<1>5. Through(Decapsulate(e, p))
  <2>1. DOMAIN Decapsulate(e, p) = 1 .. 9
    BY DEF Decapsulate
  <2>2. \A j \in 1 .. 9 : j \in {1, 2, 3, 4, 5, 6, 7, 8, 9}
    OBVIOUS
  <2>3. LET d == Decapsulate(e, p)
        IN  /\ d[1].goesOn /\ d[2].goesOn /\ d[3].goesOn /\ d[4].goesOn /\ d[5].goesOn
            /\ d[6].goesOn /\ d[7].goesOn /\ d[8].goesOn /\ d[9].goesOn
    BY <1>2, <1>3 DEF Decapsulate
  <2> QED
    BY <2>1, <2>2, <2>3 DEF Through
<1> QED
  BY <1>4, <1>5

(* No packet makes the program use a byte outside its frame, wherever it   *)
(* ends and whatever its headers count.                                    *)
THEOREM UsesStayInside == ASSUME NEW e, NEW p \in IngressPackets PROVE UsesInside(e, p)
<1> DEFINE s == XdpSteps(e, p)
<1>1. DOMAIN s = 1 .. 15
  BY DEF XdpSteps, Classify, Decapsulate
<1>2. /\ s[1] = Step({}, Holds(p, 0, EthLen + IpLen + UdpLen))
      /\ s[2] = Step({<<12, 2>>}, p.ipv4)
      /\ s[3] = Step({}, Holds(p, EthLen, IpLen))
      /\ s[4] = Step({<<EthLen + 9, 1>>}, p.udp)
      /\ s[5] = Step({<<EthLen, 1>>}, Holds(p, UdpOff(p), UdpLen))
      /\ s[6] = Step({<<UdpOff(p) + 2, 2>>}, p.scionPort)
  BY DEF XdpSteps, Classify, Decapsulate
<1>3. /\ s[7] = Step({}, Holds(p, ScionOff(p), ScionLen))
      /\ s[8] = Step({}, HasPathMeta(p))
      /\ s[9] = Step({<<MetaOff(p), MetaLen>>}, HasHopField(p))
      /\ s[10] = Step({<<MetaOff(p), MetaLen>>, <<EthLen, 1>>}, Holds(p, EthLen, StripLen(p)))
      /\ s[11] = Step({}, Holds(p, InfOff(p), InfoLen))
      /\ s[12] = Step({}, e # None)
  BY DEF XdpSteps, Classify, Decapsulate
<1>4. /\ s[13] = Step({<<InfOff(p), InfoLen>>, <<HopOff(p), HopLen>>}, MacVerifies(p))
      /\ s[14] = Step({<<0, EthLen>>}, Holds(p, StripLen(p), EthLen))
      /\ s[15] = Step({<<StripLen(p), EthLen>>}, HasInnerIp(p))
  BY DEF XdpSteps, Classify, Decapsulate
<1>5. ASSUME NEW uses, NEW goesOn
      PROVE  Step(uses, goesOn).uses = uses /\ (Step(uses, goesOn).goesOn => goesOn)
  BY DEF Step
<1> HIDE DEF s
<1>6. /\ s[1].goesOn => Holds(p, 0, EthLen + IpLen + UdpLen)
      /\ s[5].goesOn => Holds(p, UdpOff(p), UdpLen)
      /\ s[8].goesOn => HasPathMeta(p)
      /\ s[9].goesOn => HasHopField(p)
      /\ s[11].goesOn => Holds(p, InfOff(p), InfoLen)
      /\ s[14].goesOn => Holds(p, StripLen(p), EthLen)
  BY <1>2, <1>3, <1>4, <1>5
<1>7. /\ Holds(p, 0, EthLen + IpLen + UdpLen) =>
           Holds(p, 12, 2) /\ Holds(p, EthLen + 9, 1) /\ Holds(p, EthLen, 1) /\ Holds(p, 0, EthLen)
      /\ Holds(p, UdpOff(p), UdpLen) => Holds(p, UdpOff(p) + 2, 2)
  <2>1. p.len \in Nat /\ UdpOff(p) \in Nat
    BY IngressOffsets
  <2> QED
    BY <2>1 DEF Holds, EthLen, IpLen, UdpLen
<1>8. ASSUME NEW a, NEW b, Holds(p, a, b) PROVE Inside(p, {<<a, b>>})
  BY <1>8 DEF Inside
<1>9. ASSUME NEW j \in 1 .. 15, \A i \in 1 .. j - 1 : s[i].goesOn PROVE Inside(p, s[j].uses)
  <2>1. j \in {1, 3, 7, 8, 11, 12} \/ j \in {2, 4, 5, 6, 9, 10, 13, 14, 15}
    OBVIOUS
  <2>2. CASE j \in {1, 3, 7, 8, 11, 12}
    BY <1>2, <1>3, <1>5, <2>2 DEF Inside
  <2>3. /\ j > 1 => s[1].goesOn
        /\ j > 5 => s[5].goesOn
        /\ j > 8 => s[8].goesOn
        /\ j > 9 => s[9].goesOn
        /\ j > 11 => s[11].goesOn
        /\ j > 14 => s[14].goesOn
    BY <1>9
  <2>4. CASE j = 2
    <3>1. Holds(p, 12, 2)
      BY <1>6, <1>7, <2>3, <2>4
    <3>2. s[2].uses = {<<12, 2>>}
      BY <1>2, <1>5
    <3> QED
      BY <1>8, <2>4, <3>1, <3>2
  <2>5. CASE j = 4
    <3>1. Holds(p, EthLen + 9, 1)
      BY <1>6, <1>7, <2>3, <2>5
    <3>2. s[4].uses = {<<EthLen + 9, 1>>}
      BY <1>2, <1>5
    <3> QED
      BY <1>8, <2>5, <3>1, <3>2
  <2>6. CASE j = 5
    <3>1. Holds(p, EthLen, 1)
      BY <1>6, <1>7, <2>3, <2>6
    <3>2. s[5].uses = {<<EthLen, 1>>}
      BY <1>2, <1>5
    <3> QED
      BY <1>8, <2>6, <3>1, <3>2
  <2>7. CASE j = 6
    <3>1. Holds(p, UdpOff(p) + 2, 2)
      BY <1>6, <1>7, <2>3, <2>7
    <3>2. s[6].uses = {<<UdpOff(p) + 2, 2>>}
      BY <1>2, <1>5
    <3> QED
      BY <1>8, <2>7, <3>1, <3>2
  <2>8. CASE j = 9
    <3>1. Holds(p, MetaOff(p), MetaLen)
      BY <1>6, <1>7, <2>3, <2>8 DEF HasPathMeta
    <3>2. s[9].uses = {<<MetaOff(p), MetaLen>>}
      BY <1>3, <1>5
    <3> QED
      BY <1>8, <2>8, <3>1, <3>2
  <2>9. CASE j = 10
    <3>1. Holds(p, MetaOff(p), MetaLen) /\ Holds(p, EthLen, 1)
      BY <1>6, <1>7, <2>3, <2>9 DEF HasPathMeta
    <3>2. s[10].uses = {<<MetaOff(p), MetaLen>>, <<EthLen, 1>>}
      BY <1>3, <1>5
    <3> QED
      BY <2>9, <3>1, <3>2 DEF Inside
  <2>10. CASE j = 13
    <3>1. Holds(p, InfOff(p), InfoLen) /\ Holds(p, HopOff(p), HopLen)
      BY <1>6, <1>7, <2>3, <2>10 DEF HasHopField
    <3>2. s[13].uses = {<<InfOff(p), InfoLen>>, <<HopOff(p), HopLen>>}
      BY <1>4, <1>5
    <3> QED
      BY <2>10, <3>1, <3>2 DEF Inside
  <2>11. CASE j = 14
    <3>1. Holds(p, 0, EthLen)
      BY <1>6, <1>7, <2>3, <2>11
    <3>2. s[14].uses = {<<0, EthLen>>}
      BY <1>4, <1>5
    <3> QED
      BY <1>8, <2>11, <3>1, <3>2
  <2>12. CASE j = 15
    <3>1. Holds(p, StripLen(p), EthLen)
      BY <1>6, <1>7, <2>3, <2>12
    <3>2. s[15].uses = {<<StripLen(p), EthLen>>}
      BY <1>4, <1>5
    <3> QED
      BY <1>8, <2>12, <3>1, <3>2
  <2> QED
    BY <2>1, <2>2, <2>4, <2>5, <2>6, <2>7, <2>8, <2>9, <2>10, <2>11, <2>12
<1> QED
  BY <1>1, <1>9 DEF UsesInside, s

-----------------------------------------------------------------------------
(* The refinement: each step of a node is a step of NodeEgress, or changes *)
(* nothing it speaks about.                                                *)
LEMMA EgressInit == Init => Egress!Init
BY DEF Init, Egress!Init, Egress!Nothing, EmptyTables, AbsEgress

(* Interfaces treat packets as before when filters and their maps stay.    *)
LEMMA SameEgress ==
    ASSUME filter' = filter, maps' = maps PROVE AbsEgress' = AbsEgress
BY DEF AbsEgress

(* A filter that goes. *)
LEMMA GoneEgress ==
    ASSUME TypeOK, NEW i \in Ifaces, filter' = [filter EXCEPT ![i] = None], maps' = maps
    PROVE  AbsEgress' = [AbsEgress EXCEPT ![i] = None]
BY DEF AbsEgress, TypeOK, KernelOK

LEMMA EgressStep == IInv /\ [Next]_vars => [Egress!Next]_(Egress!vars)
<1> SUFFICES ASSUME IInv, [Next]_vars PROVE [Egress!Next]_(Egress!vars)
  OBVIOUS
<1> USE LoaderAssumption
<1>0. TypeOK
  BY DEF IInv
<1>1. CASE UNCHANGED <<filter, maps, history>>
  BY <1>1, SameEgress DEF Egress!vars, history
<1>2. CASE LoadTc \/ Close \/ Crash
  <2>1. told' = Egress!Nothing /\ tcOn' = {} /\ filter' = filter /\ maps' = maps
    BY <1>2 DEF LoadTc, Close, Crash, NewHistory, EmptyTables, Egress!Nothing, kernel
  <2> QED
    BY <2>1, SameEgress DEF Egress!Leave, Egress!Next
<1>3. ASSUME NEW i \in Ifaces, AttachTC(i) PROVE Egress!Attach(i)
  <2>1. /\ filter[i] = None /\ tc # None /\ tc \in Instances /\ told = maps[tc]
        /\ filter' = [filter EXCEPT ![i] = tc] /\ maps' = maps /\ told' = told
        /\ tcOn' = tcOn \cup {i}
    BY <1>0, <1>3 DEF AttachTC, IInv, ToldIsStored, TypeOK, ProcessOK, Instances
  <2>2. AbsEgress[i] = None
    BY <2>1 DEF AbsEgress
  <2>3. AbsEgress' = [AbsEgress EXCEPT ![i] = told]
    BY <1>0, <2>1 DEF AbsEgress, TypeOK, KernelOK
  <2> QED
    BY <2>1, <2>2, <2>3 DEF Egress!Attach
<1>4. ASSUME NEW i \in Ifaces, DetachTC(i) PROVE Egress!Detach(i)
  BY <1>0, <1>4, GoneEgress DEF DetachTC, Egress!Detach
<1>5. ASSUME NEW i \in Ifaces, InterfaceGone(i) PROVE Egress!Detach(i)
  BY <1>0, <1>5, GoneEgress DEF InterfaceGone, Egress!Detach
<1>6. CASE Writing
  <2>1. PICK t \in Tables :
           /\ tc # None
           /\ WriteTables(t, t)
           /\ \/ \E x \in Ips, k \in PolicyIds \cup {None} : t = [told EXCEPT !.pods[x] = k]
              \/ \E k \in PolicyIds, e \in Entries \cup {None} : t = [told EXCEPT !.cache[k] = e]
    BY <1>6, WritesWhatIsTold
  <2>2. /\ maps' = [maps EXCEPT ![tc] = t] /\ told' = t
        /\ filter' = filter /\ tcOn' = tcOn /\ tc \in Instances
    BY <1>0, <2>1 DEF WriteTables, kernel, TypeOK, ProcessOK, Instances
  <2>3. ASSUME NEW i \in Ifaces
        PROVE  AbsEgress'[i] = IF i \in tcOn THEN t ELSE AbsEgress[i]
    <3>1. CASE i \in tcOn
      BY <1>0, <2>1, <2>2, <3>1 DEF AbsEgress, IInv, FiltersAreOurs, TypeOK, KernelOK
    <3>2. CASE i \notin tcOn
      <4>1. filter[i] # tc
        BY <2>1, <3>2 DEF IInv, FiltersAreOurs
      <4> QED
        BY <1>0, <2>2, <3>2, <4>1 DEF AbsEgress, TypeOK, KernelOK
    <3> QED
      BY <3>1, <3>2
  <2>4. AbsEgress' = [i \in Ifaces |-> AbsEgress'[i]]
    BY DEF AbsEgress
  <2>5. AbsEgress' = [i \in Ifaces |-> IF i \in tcOn THEN t ELSE AbsEgress[i]]
    BY <2>3, <2>4
  <2>6. Egress!Say(t)
    BY <2>2, <2>5 DEF Egress!Say
  <2> QED
    BY <2>1, <2>6 DEF Egress!Next
<1>7. CASE LoadXdp \/ LoadXdpFails \/ \E n \in dropped : FinalizeObject(n)
  BY <1>1, <1>7 DEF LoadXdp, LoadXdpFails, FinalizeObject, kernel
<1>8. ASSUME NEW i \in Ifaces,
             AttachTCFails(i) \/ AttachXDP(i) \/ AttachXDPFails(i) \/ Finalize(i) \/ InterfaceNew(i)
      PROVE  UNCHANGED Egress!vars
  BY <1>8, SameEgress
     DEF AttachTCFails, AttachXDP, AttachXDPFails, Finalize, InterfaceNew, kernel, history, Egress!vars
<1>9. CASE UNCHANGED vars
  BY <1>1, <1>9 DEF vars, kernel
<1> QED
  BY <1>2, <1>3, <1>4, <1>5, <1>6, <1>7, <1>8, <1>9 DEF Next, Attaching, Around, Egress!Next

(* A node treats leaving packets as NodeEgress says, for any constants.    *)
THEOREM Implementation == Spec => ImplementsNodeEgress
BY EgressInit, EgressStep, Inductive, PTL DEF Spec, ImplementsNodeEgress, Egress!Spec

-----------------------------------------------------------------------------
(* What is left of the properties that do not hold.                        *)

(* Close (loader.go, lines 175-183) leaves XDP programs only where         *)
(* AttachXDP lost the link.                                                *)
CloseLeavesOnlyLost == [][Close => \A i \in Ifaces : xdp'[i] # None => i \in lost']_vars

(* An XDP program that is attached drops all SCION traffic: its lookup in  *)
(* scion_path_cache (xdp_ingress.c, line 121) never succeeds.              *)
ScionIsDropped ==
    \A i \in Ifaces, p \in IngressPackets :
        xdp[i] # None /\ IsScion(p) => XdpIngress(LocalCrypto(maps[xdp[i]]), p) = {Dropped}

(* The maps of an XDP object, of this process or attached, are not those   *)
(* the map operations write, and nobody has written them.                  *)
DeafInstance(n) == n <= used /\ n # tc /\ maps[n] = EmptyTables

IngressIsDeaf ==
    /\ ing # None => DeafInstance(ing)
    /\ \A i \in Ifaces : xdp[i] # None => DeafInstance(xdp[i])

LEMMA DeafStep == IInv /\ IngressIsDeaf /\ [Next]_vars => IngressIsDeaf'
<1> SUFFICES ASSUME IInv, IngressIsDeaf, [Next]_vars PROVE IngressIsDeaf'
  OBVIOUS
<1> USE LoaderAssumption DEF IngressIsDeaf, DeafInstance
<1>0. /\ used \in Nat /\ maps \in [Instances -> Tables]
      /\ ing # None => ing \in Instances
      /\ \A i \in Ifaces : xdp[i] # None => xdp[i] \in Instances
      /\ xdp \in [Ifaces -> Instances \cup {None}]
      /\ \A n \in Instances : n > used => maps[n] = EmptyTables
  BY DEF IInv, TypeOK, KernelOK, ProcessOK, Instances, ToldIsStored, Unloaded
<1>1. CASE LoadTc
  BY <1>0, <1>1 DEF LoadTc, LoadTcEgressObjects, kernel, Instances
<1>2. CASE LoadXdp \/ LoadXdpFails
  <2>1. tc # None => tc \in 1 .. used
    BY DEF IInv, TypeOK, ProcessOK
  <2>2. CASE LoadXdp
    BY <1>0, <2>1, <2>2 DEF LoadXdp, LoadXdpIngressObjects, kernel, Instances
  <2>3. CASE LoadXdpFails
    BY <1>0, <2>3 DEF LoadXdpFails, kernel, Instances
  <2> QED
    BY <1>2, <2>2, <2>3
<1>3. CASE Close \/ Crash
  BY <1>0, <1>3 DEF Close, Crash, Unlink, Instances
<1>4. CASE Attaching \/ (\E i \in Ifaces : Finalize(i)) \/ (\E n \in dropped : FinalizeObject(n))
  BY <1>0, <1>4 DEF Attaching, AttachTC, AttachTCFails, DetachTC, AttachXDP, AttachXDPFails,
     Finalize, FinalizeObject, kernel, process, objects
<1>5. CASE Writing
  <2>1. PICK t \in Tables : WriteTables(t, t)
    BY <1>5, WritesWhatIsTold
  <2> QED
    BY <1>0, <2>1 DEF WriteTables, kernel, process, objects
<1>6. ASSUME NEW i \in Ifaces, InterfaceGone(i) \/ InterfaceNew(i) PROVE IngressIsDeaf'
  BY <1>0, <1>6 DEF InterfaceGone, InterfaceNew, process, objects
<1>7. CASE UNCHANGED vars
  BY <1>7 DEF vars, kernel, process, objects
<1> QED
  BY <1>1, <1>2, <1>3, <1>4, <1>5, <1>6, <1>7 DEF Next, Around

(* After a Close no program is attached but those of lost links.           *)
THEOREM CloseMissesOnlyLost == Spec => CloseLeavesOnlyLost
<1>1. IInv /\ [Next]_vars => [Close => \A i \in Ifaces : xdp'[i] # None => i \in lost']_vars
  BY LoaderAssumption DEF IInv, XdpIsHeld, Close, Unlink
<1> QED
  BY <1>1, Inductive, PTL DEF Spec, CloseLeavesOnlyLost

(* Whatever the agent does and writes, SCION packets that arrive at a node *)
(* are dropped: the map writes go to the TC object.                        *)
THEOREM IngressAlwaysDrops == Spec => []ScionIsDropped
<1>1. Init => IngressIsDeaf
  BY DEF Init, IngressIsDeaf
<1>2. IInv /\ IngressIsDeaf => ScionIsDropped
  <2> SUFFICES ASSUME IngressIsDeaf, NEW i \in Ifaces, NEW p \in IngressPackets,
                      xdp[i] # None, IsScion(p)
               PROVE  XdpIngress(LocalCrypto(maps[xdp[i]]), p) = {Dropped}
    BY DEF ScionIsDropped
  <2>1. LocalCrypto(maps[xdp[i]]) = None
    BY DatapathAssumption DEF LocalCrypto, IngressIsDeaf, DeafInstance, EmptyTables
  <2>2. 6 \in DOMAIN Decapsulate(None, p)
    BY DEF Decapsulate
  <2>3. Decapsulate(None, p)[6] = Step({}, None # None)
    BY DEF Decapsulate
  <2>4. ~Step({}, None # None).goesOn
    BY DEF Step
  <2> QED
    BY <2>1, <2>2, <2>3, <2>4 DEF XdpIngress, Through
<1> QED
  BY <1>1, <1>2, DeafStep, Inductive, PTL DEF Spec
=============================================================================
