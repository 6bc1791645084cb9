------------------------------ MODULE CilionApi ------------------------------
(***************************************************************************)
(* The objects of the cilion.cilion.io API group as the Global Controller  *)
(* sees them (api/v1alpha1), reduced to the fields its decisions and its   *)
(* outputs depend on.                                                      *)
(*                                                                         *)
(* A Key is a namespaced name, as in a ctrl.Request.  Strings are model    *)
(* values, except computed path names: fmt.Sprintf("%s-to-%s", ...) is the *)
(* function PathName, which need not be injective.                         *)
(***************************************************************************)
EXTENDS Naturals, FiniteSets

CONSTANTS
    Keys,           \* namespaced names that can be in the work queue
    Policies,       \* those at which a ScionPathPolicy may be created
    DefaultPolicy,  \* kube-system/default-scion-policy
    Peers,          \* namespaced names of ScionClusterPeers
    PeerKey,        \* the request that a watch event of a peer enqueues
    Pods,           \* the pods the controller watches
    Paths,          \* namespaced names of ScionComputedPaths
    PathName,       \* PathName[k][q]: "k-to-q" in the namespace of policy k
    ASes, Cidrs,    \* remote ASes and remote pod CIDRs
    Prefs,          \* path preferences, e.g. "low_latency"
    PolicySpecs,    \* policy specs users apply
    PeerSpecs,      \* peer specs operators apply
    NoPref,         \* the nil of *string Preference
    None            \* no object, or a field that is not set

ASSUME KeyAssumption ==
    /\ Policies \subseteq Keys
    /\ DefaultPolicy \in Keys
    /\ PeerKey \in [Peers -> Keys]
    /\ PathName \in [Policies -> [Peers -> Paths]]

ASSUME SpecAssumption ==
    /\ PolicySpecs \subseteq [pref : Prefs \cup {NoPref}, selects : SUBSET Pods]
    /\ PeerSpecs \subseteq [as : ASes, cidr : Cidrs]

(* What FetchPath returns when the path is ready: next hop and hop fields. *)
(* `ver` stands for the rotation of the path inside the SCION control      *)
(* service.                                                                *)
Hop == [as : ASes, pref : Prefs, ver : Nat]

(* The Ready condition: ObservedGeneration, and the destinations whose     *)
(* number the message reports.                                             *)
Ready == [gen : Nat, dests : SUBSET Peers]

(* A ScionPathPolicy.  uid tells incarnations of a name apart, the first   *)
(* is 1; gen is metadata.generation; deleting is a set deletionTimestamp.  *)
Uid == Nat \ {0}

Policy == [uid : Uid, gen : Nat, deleting : BOOLEAN, finalizer : BOOLEAN,
           spec : PolicySpecs, ready : Ready \cup {None}]

(* A ScionComputedPath.  owner and uid are the name and the UID in its     *)
(* controller owner reference; PolicyRef equals owner.                     *)
ComputedPath == [owner : Policies, uid : Uid, cidr : Cidrs, hop : Hop]

ASSUME NoneAssumption ==
    /\ None \notin Keys
    /\ None \notin Peers
    /\ None \notin Policy
    /\ None \notin ComputedPath
    /\ None \notin PeerSpecs
    /\ None \notin Hop
    /\ None \notin Ready
    /\ NoPref \notin Prefs

(* None is no UID and no reference to an owner. *)
ASSUME OwnerAssumption ==
    /\ None \notin Nat
    /\ None \notin [key : Policies, inc : Nat]

-----------------------------------------------------------------------------
(* Both are the same incarnation of one object name. *)
Same(a, b) == a # None /\ b # None /\ a.uid = b.uid

(* controllerutil.ContainsFinalizer, and a deletion not yet requested. *)
Settled(p) == p # None /\ p.finalizer /\ ~p.deleting

(* Paths[n] = x belongs to the incarnation p of the policy k. *)
OwnedBy(x, k, p) == x # None /\ p # None /\ x.owner = k /\ x.uid = p.uid
=============================================================================
