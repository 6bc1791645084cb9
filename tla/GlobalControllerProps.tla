----------------------- MODULE GlobalControllerProps -----------------------
(***************************************************************************)
(* What the Global Controller must keep true, and what its documents say   *)
(* of it that it does not.                                                 *)
(***************************************************************************)
EXTENDS GlobalController

Reconciled(k) ==
    policy[k] # None /\ policy[k].ready # None /\ policy[k].ready.gen = policy[k].gen

Going(k) == policy[k] = None \/ policy[k].deleting

-----------------------------------------------------------------------------
(* The finalizer protocol of Reconcile (lines 65-84): while a Reconcile    *)
(* computes and writes paths, the API server holds the very incarnation it *)
(* read, and that incarnation has the finalizer, however late the caches   *)
(* are and whichever Update of an earlier Reconcile arrives meanwhile.     *)
WritesOnlyForLivePolicies ==
    pc \in {"loop", "write"} => Same(pol, policy[req]) /\ policy[req].finalizer

(* A Ready condition (lines 146-158) is never ahead of the paths: whenever *)
(* a policy is Ready, each destination its message counts has a computed   *)
(* path that belongs to this incarnation of the policy.                    *)
ReadyPathsExist ==
    \A k \in Policies : policy[k] # None /\ policy[k].ready # None =>
        \A q \in policy[k].ready.dests : OwnedBy(paths[PathName[k][q]], k, policy[k])

(* A path is written from one snapshot of its peer (lines 86-96): its CIDR *)
(* and the AS its hop fields lead to come from one peer spec, although the *)
(* peer may change between the List, FetchPath and the write.              *)
PathsAreCoherent ==
    \A n \in Paths : paths[n] # None =>
        \E v \in PeerSpecs : v.cidr = paths[n].cidr /\ v.as = paths[n].hop.as

(* A path whose owner is still there keeps its owner (lines 110-131): no   *)
(* step, of a policy whose path has the same name or of the garbage        *)
(* collector, takes it away.                                               *)
OwnerKeepsPath ==
    [][\A n \in Paths, k \in Policies :
         OwnedBy(paths[n], k, policy[k]) /\ Same(policy[k], policy'[k]) =>
            OwnedBy(paths'[n], k, policy'[k])]_vars

(* A write of a path carries the version it was computed from (lines       *)
(* 121-131): whatever Create or Update of an earlier Reconcile, or of an   *)
(* earlier leader, arrives late, it never puts hop fields in place of      *)
(* fresher ones of the same AS.                                            *)
HopsNeverGoBack ==
    [][\A n \in Paths :
         paths[n] # None /\ paths'[n] # None /\ paths'[n].hop.as = paths[n].hop.as =>
            paths'[n].hop.ver >= paths[n].hop.ver]_vars

(* The spec and the deletion mark are the user's: no Update of the         *)
(* controller undoes a change the user made meanwhile, however late it     *)
(* arrives, although those of the finalizer (lines 70 and 80) send the     *)
(* whole object back as it was read.                                       *)
UserChangesStay ==
    [][\A k \in Policies : Same(policy[k], policy'[k]) =>
         \/ policy'[k].gen > policy[k].gen
         \/ /\ policy'[k].gen = policy[k].gen
            /\ policy'[k].spec = policy[k].spec
            /\ policy'[k].deleting = policy[k].deleting]_vars

-----------------------------------------------------------------------------
(* What the liveness below rests on: no wake-up is lost.                   *)

(* The cache has yet to hear of the policy k, by an event that the filter  *)
(* of generations lets through.                                            *)
EventDue(k) == polCache[k] # policy[k] /\ GenerationChanged(polCache[k], policy[k])

(* A Reconcile of k is under way or will come without anyone's help.       *)
Pending(k) ==
    \/ k \in queue \cup later
    \/ pc # "idle" /\ req = k
    \/ EventDue(k)

(* A terminating policy is never left alone with its finalizer (lines      *)
(* 64-75): the Update that removes it is under way, will be tried again,   *)
(* or an event that leads to it is due, whatever failed or went astray.    *)
DeletionIsPending ==
    \A k \in Policies : policy[k] # None /\ policy[k].deleting => Pending(k)

Started(k) ==
    policy[k].ready # None \/ \E n \in Paths : OwnedBy(paths[n], k, policy[k])

(* Neither is a policy that has a path or was Ready, and is not Ready for  *)
(* its current generation (lines 99-144 and 225): the rest of its paths,   *)
(* its status or its changed spec will be dealt with.                      *)
ComputationIsPending ==
    \A k \in Policies : Settled(policy[k]) /\ Started(k) /\ ~Reconciled(k) => Pending(k)

(* A pod that gets its IP is heard by each policy that selects it (lines   *)
(* 181-221): the map function finds the policy in the cache, or the cache  *)
(* lags and the event that is due enqueues the policy itself.  A policy    *)
(* that was deleted and created again while the watch was broken is left   *)
(* out: the one event for both is filtered when the generations agree.     *)
PodsAreHeard ==
    [][\A x \in Pods, k \in Policies :
         /\ PodIPAssigned(pod[x], pod'[x])
         /\ policy[k] # None /\ x \in policy[k].spec.selects
         /\ ~Recreated(k)
         => k \in queue' \/ EventDue(k)]_vars

-----------------------------------------------------------------------------
(* The controller implements the ownership of computed paths stated in     *)
(* PathOwnership.                                                          *)
AbsLive == [k \in Policies |-> IF policy[k] = None THEN None ELSE policy[k].uid]

AbsOwner == [n \in Paths |->
    IF paths[n] = None THEN None ELSE [key |-> paths[n].owner, inc |-> paths[n].uid]]

AbsPromised == [k \in Policies |->
    IF policy[k] = None \/ policy[k].ready = None
      THEN {} ELSE {PathName[k][q] : q \in policy[k].ready.dests}]

Ownership == INSTANCE PathOwnership WITH
    Keys <- Policies, Names <- Paths,
    born <- uids, live <- AbsLive, owner <- AbsOwner, promised <- AbsPromised

(* Every behaviour of the controller (lines 55-159), of its users and of   *)
(* the garbage collector is one of PathOwnership: paths are claimed free or*)
(* from an earlier self, collected ownerless, and promised when owned,     *)
(* also by calls that arrive when their Reconcile is over.                 *)
ImplementsPathOwnership == Ownership!Spec

-----------------------------------------------------------------------------
(* A policy that is being deleted gets deleted (lines 64-75): conflicts,   *)
(* lost calls and restarts do not leave its finalizer behind.              *)
DeletionCompletes ==
    \A k \in Policies : policy[k] # None /\ policy[k].deleting ~>
        policy[k] = None \/ ~policy[k].deleting

(* A policy whose computation was started is finished (lines 99-144): the  *)
(* failures and waits in between end in a Ready condition for the current  *)
(* generation, or the policy is deleted.                                   *)
StartedIsFinished ==
    \A k \in Policies : pc = "loop" /\ req = k ~> Reconciled(k) \/ Going(k)

(* A changed spec is picked up (line 225): a policy that was Ready for an  *)
(* older generation becomes Ready for its current one.                     *)
ReadyFollowsSpec ==
    \A k \in Policies : policy[k] # None /\ policy[k].ready # None ~> Reconciled(k) \/ Going(k)

-----------------------------------------------------------------------------
(* reconciling.md:268: the user applies a policy, the controller wakes up, *)
(* computes the paths and creates the computed path objects.               *)
AppliedIsComputed ==
    \A k \in Policies : policy[k] # None ~> Reconciled(k) \/ Going(k)

(* Comment at line 232: "if a new cluster is added, recalculate all        *)
(* policies!".  A policy that is Ready gets a path to every known peer.    *)
PeersAreReached ==
    \A k \in Policies, q \in Peers :
        policy[k] # None /\ policy[k].ready # None /\ peers[q] # None ~>
            \/ Going(k)
            \/ peers[q] = None
            \/ OwnedBy(paths[PathName[k][q]], k, policy[k])

(* Comment at line 119: CreateOrUpdate "updates it if the SCION path has   *)
(* rotated/changed".  When the controller reports a generation as Ready,   *)
(* the paths it counts have been computed with that generation's spec.     *)
ReadyPathsAreCurrent ==
    [][\A k \in Policies :
         Same(policy[k], policy'[k]) /\ policy'[k].ready # policy[k].ready =>
            \A q \in policy'[k].ready.dests :
                paths[PathName[k][q]].hop.pref = policy[k].spec.pref]_vars
=============================================================================
