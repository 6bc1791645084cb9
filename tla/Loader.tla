-------------------------------- MODULE Loader --------------------------------
(***************************************************************************)
(* pkg/bpf: the Loader of one node, used by an agent process that may die  *)
(* at any time, and what the kernel keeps: BPF maps, qdiscs, TC filters    *)
(* and XDP links.                                                          *)
(*                                                                         *)
(* Every loaded object has map instances of its own (the comment of type   *)
(* Loader), so an instance number stands for the program and its maps.  A  *)
(* TC filter outlives the process; an XDP link lives as long as the file   *)
(* descriptor in its link.Link.  One call runs at a time.                  *)
(***************************************************************************)
EXTENDS Datapath, FiniteSets

CONSTANTS
    Ifaces,      \* network interfaces
    Addresses,   \* values of net.IP the agent passes
    Compiled,    \* objects whose ELF is embedded: "tc", "xdp"
    Entries,     \* path entries the agent writes
    PodMax,      \* max_entries of pod_policy_map
    PathMax,     \* max_entries of scion_path_cache
    MaxInstances \* bound: objects that are ever loaded

ASSUME LoaderAssumption ==
    /\ Entries \subseteq Entry
    /\ \A a \in Addresses : To4(a) \in Ips \cup {None}
    /\ Compiled \subseteq {"tc", "xdp"}
    /\ {PodMax, PathMax, MaxInstances} \subseteq Nat
    /\ None \notin 1 .. MaxInstances
    /\ None \notin Ifaces
    /\ None \notin PolicyIds
    /\ None \notin Entry

Instances == 1 .. MaxInstances

VARIABLES
    present, \* kernel: the interfaces that exist
    qdisc,   \* kernel: those with a clsact qdisc
    filter,  \* kernel: the instance in the tc_egress filter of each interface
    xdp,     \* kernel: the instance of the XDP program of each interface
    maps,    \* kernel: the contents of the maps of each instance
    used,    \* instances loaded so far
    open,    \* instances the process has file descriptors of
    loading, \* Load has loaded its first object and not yet the second
    tc, ing, \* l.tcObjs and l.xdpObjs; None when they are nil or closed
    dropped, \* open instances that neither of them refers to any more
    link,    \* l.xdpLink: the interface it keeps the program attached to
    lost,    \* links that are open but no longer referenced
    tcOn,    \* history: interfaces for which AttachTC returned nil since the last Load
    told     \* history: what map operations that returned nil have said since then

kernel  == <<present, qdisc, filter, xdp>>
objects == <<open, loading, tc, ing, dropped>>
process == <<objects, link, lost>>
history == <<tcOn, told>>
vars    == <<kernel, maps, used, process, history>>

KernelOK ==
    /\ present \subseteq Ifaces
    /\ qdisc \subseteq present
    /\ filter \in [Ifaces -> Instances \cup {None}]
    /\ xdp \in [Ifaces -> Instances \cup {None}]
    /\ \A i \in Ifaces : filter[i] # None => i \in qdisc
    /\ \A i \in Ifaces : xdp[i] # None => i \in present
    /\ maps \in [Instances -> Tables]

ProcessOK ==
    /\ used \in 0 .. MaxInstances
    /\ open \subseteq 1 .. used
    /\ tc \in 1 .. used \cup {None}
    /\ ing \in 1 .. used \cup {None}
    /\ loading \in BOOLEAN
    /\ dropped \subseteq open
    /\ link \in Ifaces \cup {None}
    /\ lost \subseteq Ifaces
    /\ tcOn \subseteq present
    /\ told \in Tables

TypeOK == KernelOK /\ ProcessOK

Init ==
    /\ present = Ifaces
    /\ qdisc = {}
    /\ filter = [i \in Ifaces |-> None]
    /\ xdp = filter
    /\ maps = [n \in Instances |-> EmptyTables]
    /\ used = 0
    /\ open = {}
    /\ loading = FALSE
    /\ tc = None
    /\ ing = None
    /\ dropped = {}
    /\ link = None
    /\ lost = {}
    /\ tcOn = {}
    /\ told = EmptyTables

-----------------------------------------------------------------------------
(* The generated bindings: an object is loaded as the next instance, if    *)
(* its ELF is there, and closed with its programs and maps.                *)

LoadTcEgressObjects(n) == "tc" \in Compiled /\ n \in Instances

LoadXdpIngressObjects(n) == "xdp" \in Compiled /\ n \in Instances

TcEgressClose(fds) == fds \ {tc}

XdpIngressClose(fds) == fds \ {ing}

-----------------------------------------------------------------------------
(* Load. *)

(* The agent starts afresh: filters that are there were somebody else's.   *)
NewHistory == tcOn' = {} /\ told' = EmptyTables

(* The first object, with fresh maps.  A second Load overwrites that of    *)
(* the first one, which stays open.                                        *)
LoadTc ==
    /\ LoadTcEgressObjects(used + 1)
    /\ used' = used + 1
    /\ open' = open \cup {used + 1}
    /\ tc' = used + 1
    /\ dropped' = dropped \cup ({tc} \ {None})
    /\ loading' = TRUE
    /\ NewHistory
    /\ UNCHANGED <<kernel, maps, ing, link, lost>>

LoadXdp ==
    /\ loading
    /\ LoadXdpIngressObjects(used + 1)
    /\ used' = used + 1
    /\ open' = open \cup {used + 1}
    /\ ing' = used + 1
    /\ dropped' = dropped \cup ({ing} \ {None})
    /\ loading' = FALSE
    /\ UNCHANGED <<kernel, maps, tc, link, lost, history>>

(* Mutant: Load returns the error without closing the first object. *)
LoadXdpFailsLeaks ==
    /\ loading
    /\ loading' = FALSE
    /\ UNCHANGED <<kernel, maps, used, open, tc, ing, dropped, link, lost, history>>

(* The second object fails to load, and the first is closed again.         *)
LoadXdpFails ==
    /\ loading
    /\ open' = TcEgressClose(open)
    /\ tc' = None
    /\ loading' = FALSE
    /\ UNCHANGED <<kernel, maps, used, ing, dropped, link, lost, history>>

-----------------------------------------------------------------------------
(* TC. *)

(* Mutant: EEXIST of FilterAdd is ignored like that of QdiscAdd. *)
AttachTCAnyway(i) ==
    /\ tc # None
    /\ i \in present
    /\ qdisc' = qdisc \cup {i}
    /\ filter' = IF filter[i] = None THEN [filter EXCEPT ![i] = tc] ELSE filter
    /\ tcOn' = tcOn \cup {i}
    /\ UNCHANGED <<present, xdp, maps, used, process, told>>

(* Mutant: the interface gets no clsact qdisc. *)
AttachTCWithoutQdisc(i) ==
    /\ tc # None
    /\ i \in present
    /\ filter[i] = None
    /\ filter' = [filter EXCEPT ![i] = tc]
    /\ tcOn' = tcOn \cup {i}
    /\ UNCHANGED <<present, qdisc, xdp, maps, used, process, told>>

(* The clsact qdisc, new or already there, and then the filter.            *)
AttachTC(i) ==
    /\ tc # None
    /\ i \in present
    /\ filter[i] = None
    /\ qdisc' = qdisc \cup {i}
    /\ filter' = [filter EXCEPT ![i] = tc]
    /\ tcOn' = tcOn \cup {i}
    /\ UNCHANGED <<present, xdp, maps, used, process, told>>

(* FilterAdd returns an error, EEXIST where a filter is left from before,  *)
(* EINVAL where the program is closed; the qdisc stays.                    *)
AttachTCFails(i) ==
    /\ i \in present
    /\ qdisc' = qdisc \cup {i}
    /\ UNCHANGED <<present, filter, xdp, maps, used, process, history>>

(* The filter named tc_egress goes, whoever added it; the qdisc stays.     *)
(* AttachTC gives it one handle and priority, so there is only one.        *)
DetachTC(i) ==
    /\ i \in present
    /\ filter' = [filter EXCEPT ![i] = None]
    /\ tcOn' = tcOn \ {i}
    /\ UNCHANGED <<present, qdisc, xdp, maps, used, process, told>>

-----------------------------------------------------------------------------
(* XDP. *)

(* The link in l.xdpLink is overwritten. *)
Forgotten == lost \cup ({link} \ {None})

AttachXDP(i) ==
    /\ ing # None
    /\ i \in present
    /\ xdp[i] = None
    /\ xdp' = [xdp EXCEPT ![i] = ing]
    /\ lost' = Forgotten
    /\ link' = i
    /\ UNCHANGED <<present, qdisc, filter, maps, used, objects, history>>

(* link.AttachXDP fails, with EBUSY where a link holds the interface or    *)
(* because the program is closed, and its nil result is assigned as well.  *)
AttachXDPFails(i) ==
    /\ i \in present
    /\ lost' = Forgotten
    /\ link' = None
    /\ UNCHANGED <<kernel, maps, used, objects, history>>

(* The Go finalizer of a lost link closes it. *)
Finalize(i) ==
    /\ i \in lost
    /\ lost' = lost \ {i}
    /\ xdp' = [xdp EXCEPT ![i] = None]
    /\ UNCHANGED <<present, qdisc, filter, maps, used, objects, link, history>>

-----------------------------------------------------------------------------
(* The maps.  Both are written in the instance of the TC object.           *)

Taken(f) == {k \in DOMAIN f : f[k] # None}

(* The maps after a Put: the kernel refuses a new key (E2BIG) in a hash    *)
(* map that is full.                                                       *)
Put(f, k, v, max) ==
    IF k \in Taken(f) \/ Cardinality(Taken(f)) < max THEN {[f EXCEPT ![k] = v]} ELSE {}

(* A map operation that returns nil: the maps become t, and the agent has  *)
(* told its Loader `said`.                                                 *)
WriteTables(t, said) ==
    /\ maps' = [maps EXCEPT ![tc] = t]
    /\ told' = said
    /\ UNCHANGED <<kernel, used, process, tcOn>>

(* The bytes the map operations use as the key of an address.              *)
PodKey(a) == Marshalled(IPToKey(a))

UpdatePodPolicy(a, k) ==
    /\ tc # None
    /\ IPToKey(a) # None
    /\ \E f \in Put(maps[tc].pods, PodKey(a), k, PodMax) :
         WriteTables([maps[tc] EXCEPT !.pods = f], [told EXCEPT !.pods[To4(a)] = k])

DeletePodPolicy(a) ==
    /\ tc # None
    /\ IPToKey(a) # None
    /\ maps[tc].pods[PodKey(a)] # None
    /\ WriteTables([maps[tc] EXCEPT !.pods[PodKey(a)] = None],
                   [told EXCEPT !.pods[To4(a)] = None])

UpdateScionPath(k, e) ==
    /\ tc # None
    /\ \E f \in Put(maps[tc].cache, k, e, PathMax) :
         WriteTables([maps[tc] EXCEPT !.cache = f], [told EXCEPT !.cache[k] = e])

DeleteScionPath(k) ==
    /\ tc # None
    /\ maps[tc].cache[k] # None
    /\ WriteTables([maps[tc] EXCEPT !.cache[k] = None], [told EXCEPT !.cache[k] = None])

-----------------------------------------------------------------------------
(* The links in `gone` are closed and their programs detached.             *)
Unlink(gone) == xdp' = [i \in Ifaces |-> IF i \in gone THEN None ELSE xdp[i]]

(* Mutant: Close leaves the XDP link to the end of the process. *)
CloseKeepsLink ==
    /\ open' = XdpIngressClose(TcEgressClose(open))
    /\ tc' = None
    /\ ing' = None
    /\ link' = None
    /\ NewHistory
    /\ UNCHANGED <<kernel, maps, used, loading, dropped, lost>>

(* Close: the link in l.xdpLink, the programs and the maps.  TC filters    *)
(* stay, and their maps with them.                                         *)
Close ==
    /\ Unlink({link})
    /\ open' = XdpIngressClose(TcEgressClose(open))
    /\ tc' = None
    /\ ing' = None
    /\ link' = None
    /\ NewHistory
    /\ UNCHANGED <<present, qdisc, filter, maps, used, loading, dropped, lost>>

(* The Go finalizers of an object that nobody refers to close it.          *)
FinalizeObject(n) ==
    /\ n \in dropped
    /\ open' = open \ {n}
    /\ dropped' = dropped \ {n}
    /\ UNCHANGED <<kernel, maps, used, loading, tc, ing, link, lost, history>>

(* The agent dies: the kernel closes all its file descriptors.             *)
Crash ==
    /\ Unlink({link} \cup lost)
    /\ open' = {}
    /\ loading' = FALSE
    /\ tc' = None
    /\ ing' = None
    /\ dropped' = {}
    /\ link' = None
    /\ lost' = {}
    /\ NewHistory
    /\ UNCHANGED <<present, qdisc, filter, maps, used>>

(* The veth of a pod goes with everything attached to it, and a new one    *)
(* gets its name.                                                          *)
InterfaceGone(i) ==
    /\ i \in present
    /\ present' = present \ {i}
    /\ qdisc' = qdisc \ {i}
    /\ filter' = [filter EXCEPT ![i] = None]
    /\ xdp' = [xdp EXCEPT ![i] = None]
    /\ link' = IF link = i THEN None ELSE link
    /\ lost' = lost \ {i}
    /\ tcOn' = tcOn \ {i}
    /\ UNCHANGED <<maps, used, objects, told>>

InterfaceNew(i) ==
    /\ i \notin present
    /\ present' = present \cup {i}
    /\ UNCHANGED <<qdisc, filter, xdp, maps, used, process, history>>

-----------------------------------------------------------------------------
Attaching ==
    \E i \in Ifaces :
        \/ AttachTC(i) \/ AttachTCFails(i) \/ DetachTC(i)
        \/ AttachXDP(i) \/ AttachXDPFails(i)

Writing ==
    \/ \E a \in Addresses, k \in PolicyIds : UpdatePodPolicy(a, k)
    \/ \E a \in Addresses : DeletePodPolicy(a)
    \/ \E k \in PolicyIds, e \in Entries : UpdateScionPath(k, e)
    \/ \E k \in PolicyIds : DeleteScionPath(k)

(* What happens between two calls of the agent, and inside Load.           *)
Around ==
    \/ Crash
    \/ \E i \in Ifaces : Finalize(i) \/ InterfaceGone(i) \/ InterfaceNew(i)
    \/ \E n \in dropped : FinalizeObject(n)

Next ==
    \/ ~loading /\ (LoadTc \/ Close \/ Attaching \/ Writing)
    \/ LoadXdp \/ LoadXdpFails
    \/ Around

Spec == Init /\ [][Next]_vars
=============================================================================
