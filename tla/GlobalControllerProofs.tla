----------------------- MODULE GlobalControllerProofs -----------------------
(***************************************************************************)
(* Safety of the Global Controller for any number of policies, peers,      *)
(* pods and paths, any path names and any number of faults.                *)
(***************************************************************************)
EXTENDS GlobalControllerProps, TLAPS

-----------------------------------------------------------------------------
(* What the shared endings of a Reconcile leave in the locals and the      *)
(* delay queue.                                                            *)
LEMMA ReturnType == Return => FrameOK'
BY DEF Return, FrameOK, NoPeers

LEMMA RequeueType ==
    ASSUME TypeOK, pc # "idle", Requeue
    PROVE  FrameOK' /\ later' \subseteq Keys
BY ReturnType, KeyAssumption DEF Requeue, TypeOK, WatchOK, FrameOK

LEMMA FailsType ==
    ASSUME TypeOK, pc # "idle", Fails
    PROVE  FrameOK' /\ later' \subseteq Keys /\ faults' \in Nat
BY RequeueType DEF Fails, TypeOK, NetOK

LEMMA BumpedType == ASSUME NEW p \in Policy PROVE Bumped(p) \in Policy
BY DEF Bumped, Policy

LEMMA ReadyConditionType == ASSUME pol \in Policy PROVE ReadyCondition \in Ready
BY DEF ReadyCondition, Ready, Policy

LEMMA DesiredType ==
    ASSUME TypeOK, pc = "write"
    PROVE  Desired \in ComputedPath /\ PathName[req][cur] \in Paths
<1>1. /\ req \in Policies /\ cur \in Peers /\ pol \in Policy /\ hop \in Hop
      /\ listed[cur] \in PeerSpecs
  BY DEF TypeOK, FrameOK
<1> QED
  BY <1>1, KeyAssumption, SpecAssumption DEF Desired, ComputedPath, Policy

LEMMA PathWriteType ==
    ASSUME TypeOK, pc = "write"
    PROVE  PathWrite \in PathCall
BY DesiredType DEF PathWrite, PathCall, TypeOK, WatchOK

(* The three values Reconcile updates a policy to.                         *)
LEMMA UpdatedType ==
    ASSUME pol \in Policy
    PROVE  /\ [pol EXCEPT !.finalizer = TRUE] \in Policy
           /\ [pol EXCEPT !.ready = ReadyCondition] \in Policy
BY ReadyConditionType DEF Policy

(* An Update keeps the types, whether it is taken or goes astray.          *)
LEMMA UpdateType ==
    ASSUME TypeOK, pc # "idle", NEW v \in Policy \cup {None}, Update(v)
    PROVE  TypeOK'
<1>1. PolicyWrite(v) \in PolicyCall
  BY NoneAssumption DEF PolicyWrite, PolicyCall, TypeOK, FrameOK
<1>2. CASE TakePolicy(PolicyWrite(v)) /\ Return /\ UNCHANGED <<later, net>>
  <2>1. policy' \in [Policies -> Policy \cup {None}]
    BY <1>1, <1>2 DEF TakePolicy, PolicyCall, TypeOK, StoreOK
  <2> QED
    BY <1>2, <2>1, ReturnType DEF Update, TypeOK, StoreOK, WatchOK, NetOK, net, caches
<1>3. CASE /\ Fails /\ latePol' = latePol \cup {PolicyWrite(v)} /\ UNCHANGED <<policy, latePaths>>
  BY <1>1, <1>3, FailsType DEF Update, TypeOK, StoreOK, WatchOK, NetOK, caches
<1> QED
  BY <1>2, <1>3 DEF Update

(* The lookup of a pod's policies only names keys. *)
LEMMA RequestsAreKeys ==
    ASSUME NEW x, NEW cache PROVE PodToPolicies(x, cache) \subseteq Keys
BY KeyAssumption DEF PodToPolicies

LEMMA InitialRequestsAreKeys ==
    ASSUME NEW P, NEW Q, NEW X PROVE InitialRequests(P, Q, X) \subseteq Keys
BY KeyAssumption, RequestsAreKeys DEF InitialRequests

-----------------------------------------------------------------------------
(* Every step keeps the types. *)
LEMMA TypeStep == TypeOK /\ [Next]_vars => TypeOK'
<1> SUFFICES ASSUME TypeOK, [Next]_vars PROVE TypeOK'
  OBVIOUS
<1> USE KeyAssumption, SpecAssumption, NoneAssumption
<1> USE DEF TypeOK
<1>0. net' = net => NetOK'
  BY DEF net, NetOK
<1>1. ASSUME NEW k \in Policies, NEW s \in PolicySpecs, CreatePolicy(k, s) PROVE TypeOK'
  BY <1>0, <1>1 DEF CreatePolicy, caches, work, frame, Policy, Uid, StoreOK, WatchOK, FrameOK
<1>2. ASSUME NEW k \in Policies, NEW s \in PolicySpecs, UpdatePolicy(k, s) PROVE TypeOK'
  <2>1. policy[k] \in Policy
    BY <1>2 DEF UpdatePolicy, StoreOK
  <2>2. [Bumped(policy[k]) EXCEPT !.spec = s] \in Policy
    BY <2>1, BumpedType DEF Policy
  <2>3. StoreOK'
    BY <1>2, <2>2 DEF UpdatePolicy, StoreOK
  <2> QED
    BY <1>0, <1>2, <2>3 DEF UpdatePolicy, caches, work, frame, WatchOK, FrameOK
<1>3. ASSUME NEW k \in Policies, DeletePolicy(k) PROVE TypeOK'
  <2>1. policy[k] \in Policy
    BY <1>3 DEF DeletePolicy, StoreOK
  <2>2. [Bumped(policy[k]) EXCEPT !.deleting = TRUE] \in Policy
    BY <2>1, BumpedType DEF Policy
  <2>3. StoreOK'
    BY <1>3, <2>2 DEF DeletePolicy, StoreOK
  <2> QED
    BY <1>0, <1>3, <2>3 DEF DeletePolicy, caches, work, frame, WatchOK, FrameOK
<1>4. ASSUME NEW q \in Peers, NEW v \in PeerSpecs \cup {None}, SetPeer(q, v) PROVE TypeOK'
  BY <1>0, <1>4 DEF SetPeer, store, work, frame, StoreOK, WatchOK, FrameOK
<1>5. ASSUME NEW x \in Pods, NEW v \in {"absent", "noIP", "hasIP"}, PodEvent(x, v) PROVE TypeOK'
  <2>1. queue' \subseteq Keys
    BY <1>5, RequestsAreKeys DEF PodEvent, WatchOK
  <2>2. WatchOK'
    BY <1>5, <2>1 DEF PodEvent, WatchOK
  <2> QED
    BY <1>0, <1>5, <2>2 DEF PodEvent, store, frame, StoreOK, FrameOK
<1>6. ASSUME NEW a \in ASes, ScionUp(a) PROVE TypeOK'
  <2>1. scion' \in [ASes -> [up : BOOLEAN, ver : Nat]]
    BY <1>6 DEF ScionUp, StoreOK
  <2> QED
    BY <1>0, <1>6, <2>1 DEF ScionUp, caches, work, frame, StoreOK, WatchOK, FrameOK
<1>7. ASSUME NEW a \in ASes, NEW ready \in BOOLEAN, ScionRotate(a, ready) PROVE TypeOK'
  <2>1. scion' \in [ASes -> [up : BOOLEAN, ver : Nat]]
    BY <1>7 DEF ScionRotate, StoreOK
  <2> QED
    BY <1>0, <1>7, <2>1 DEF ScionRotate, caches, work, frame, StoreOK, WatchOK, FrameOK
<1>8. ASSUME NEW n \in Paths, GarbageCollect(n) PROVE TypeOK'
  BY <1>0, <1>8 DEF GarbageCollect, caches, work, frame, StoreOK, WatchOK, FrameOK
<1>9. ASSUME NEW k \in Policies, SyncPolicy(k) PROVE TypeOK'
  <2>1. PICK new \in {policy[k], None} : polCache' = [polCache EXCEPT ![k] = new]
    BY <1>9 DEF SyncPolicy
  <2>2. queue' \subseteq Keys
    BY <1>9 DEF SyncPolicy, WatchOK
  <2> QED
    BY <1>0, <1>9, <2>1, <2>2 DEF SyncPolicy, store, frame, StoreOK, WatchOK, FrameOK
<1>10. ASSUME NEW n \in Paths, SyncPath(n) PROVE TypeOK'
  BY <1>0, <1>10 DEF SyncPath, store, work, frame, StoreOK, WatchOK, FrameOK
<1>11. ASSUME NEW k \in Keys, TimerFires(k) PROVE TypeOK'
  BY <1>0, <1>11 DEF TimerFires, store, caches, frame, StoreOK, WatchOK, FrameOK
<1>12. ASSUME NEW k \in Keys, StartReconcile(k) PROVE TypeOK'
  <2>1. StoreOK' /\ WatchOK'
    BY <1>12 DEF StartReconcile, store, caches, StoreOK, WatchOK
  <2>2. CASE NothingToDo(k)
    BY <1>0, <1>12, <2>1, <2>2 DEF StartReconcile, frame, FrameOK
  <2>3. CASE ~NothingToDo(k)
    <3>1. k \in Policies /\ polCache[k] \in Policy
      BY <2>3 DEF NothingToDo, WatchOK
    <3>2. Dispatch(k)
      BY <1>12, <2>3 DEF StartReconcile
    <3>3. /\ req' = k /\ pol' = polCache[k] /\ allReady' = TRUE /\ cur' = None /\ hop' = None
          /\ pc' \in {"unfinalize", "finalize", "loop"}
      BY <3>2 DEF Dispatch, Enter
    <3>4. /\ listed' \in [Peers -> PeerSpecs \cup {None}]
          /\ todo' \subseteq {q \in Peers : listed'[q] # None}
      <4>1. CASE listed' = NoPeers /\ todo' = {}
        BY <4>1 DEF NoPeers
      <4>2. CASE listed' = peers /\ todo' = {q \in Peers : peers[q] # None}
        BY <4>2 DEF WatchOK
      <4> QED
        BY <3>2, <4>1, <4>2 DEF Dispatch
    <3>5. FrameOK'
      BY <3>1, <3>3, <3>4 DEF FrameOK
    <3> QED
      BY <1>0, <1>12, <2>1, <3>5 DEF StartReconcile
  <2> QED
    BY <2>2, <2>3
<1>13. CASE RemoveFinalizer
  BY <1>13, UpdateType DEF RemoveFinalizer
<1>14. CASE AddFinalizer
  BY <1>14, UpdateType, UpdatedType DEF AddFinalizer, FrameOK
<1>15. ASSUME NEW q \in Peers, FetchPath(q) PROVE TypeOK'
  <2>1. StoreOK' /\ WatchOK'
    BY <1>15 DEF FetchPath, store, caches, work, StoreOK, WatchOK
  <2>2. listed[q] \in PeerSpecs /\ listed[q].as \in ASes
    BY <1>15 DEF FetchPath, FrameOK
  <2>3. pol \in Policy /\ pol.spec.pref \in Prefs
    BY <1>15 DEF FetchPath, CanFetch, FrameOK, Policy
  <2>4. [as |-> listed[q].as, pref |-> pol.spec.pref, ver |-> scion[listed[q].as].ver] \in Hop
    BY <2>2, <2>3 DEF Hop, StoreOK
  <2>5. FrameOK'
    BY <1>15, <2>2, <2>4 DEF FetchPath, SkipPeer, FrameOK
  <2> QED
    BY <1>0, <1>15, <2>1, <2>5 DEF FetchPath
<1>16. CASE WritePath
  <2>1. req \in Policies /\ cur \in Peers /\ pol \in Policy /\ listed[cur] \in PeerSpecs
    BY <1>16 DEF WritePath, FrameOK
  <2>2. PathWrite \in PathCall
    BY <1>16, PathWriteType DEF WritePath
  <2>3. CASE Fails /\ latePaths' = latePaths \cup {PathWrite} /\ UNCHANGED <<paths, latePol>>
    BY <1>16, <2>2, <2>3, FailsType DEF WritePath, caches, StoreOK, WatchOK, NetOK
  <2>4. CASE /\ IF PathWrite.old = PathWrite.new THEN UNCHANGED paths ELSE TakePath(PathWrite)
             /\ pc' = "loop" /\ cur' = None /\ hop' = None
             /\ UNCHANGED <<req, pol, listed, todo, allReady, later, net>>
    <3>1. paths' \in [Paths -> ComputedPath \cup {None}]
      BY <2>2, <2>4 DEF TakePath, PathCall, StoreOK
    <3>2. StoreOK' /\ WatchOK'
      BY <1>16, <2>4, <3>1 DEF WritePath, caches, StoreOK, WatchOK
    <3>3. FrameOK'
      BY <1>16, <2>1, <2>4 DEF WritePath, FrameOK
    <3> QED
      BY <1>0, <2>4, <3>2, <3>3
  <2> QED
    BY <1>16, <2>3, <2>4 DEF WritePath
<1>17. CASE NotReady
  BY <1>0, <1>17, RequeueType DEF NotReady, store, caches, StoreOK, WatchOK
<1>18. CASE UpdateStatus
  BY <1>18, UpdateType, UpdatedType DEF UpdateStatus, FrameOK
<1>19. CASE CallRefused
  BY <1>0, <1>19, RequeueType DEF CallRefused, Refused, store, caches, StoreOK, WatchOK
<1>20. CASE FetchFails
  BY <1>20, FailsType DEF FetchFails, store, caches, StoreOK, WatchOK, NetOK
<1>21. CASE Restart
  <2>1. polCache' \in [Policies -> Policy \cup {None}]
    <3>1. PICK new : polCache' = [k \in Policies |-> IF k \in new THEN policy[k] ELSE polCache[k]]
      BY <1>21 DEF Restart
    <3> QED
      BY <3>1 DEF StoreOK, WatchOK
  <2>2. pathCache' \in [Paths -> ComputedPath \cup {None}]
    <3>1. PICK new : pathCache' = [n \in Paths |-> IF n \in new THEN paths[n] ELSE pathCache[n]]
      BY <1>21 DEF Restart
    <3> QED
      BY <3>1 DEF StoreOK, WatchOK
  <2> QED
    BY <1>21, <2>1, <2>2, ReturnType, InitialRequestsAreKeys
       DEF Restart, store, StoreOK, WatchOK, NetOK
<1>23. ASSUME NEW c \in latePol, LandPolicy(c) PROVE TypeOK'
  <2>1. policy' \in [Policies -> Policy \cup {None}]
    BY <1>23 DEF LandPolicy, TakePolicy, PolicyCall, NetOK, StoreOK
  <2> QED
    BY <1>23, <2>1 DEF LandPolicy, caches, work, frame, StoreOK, WatchOK, FrameOK, NetOK
<1>24. ASSUME NEW c \in latePaths, LandPath(c) PROVE TypeOK'
  <2>1. paths' \in [Paths -> ComputedPath \cup {None}]
    BY <1>24 DEF LandPath, TakePath, PathCall, NetOK, StoreOK
  <2> QED
    BY <1>24, <2>1 DEF LandPath, caches, work, frame, StoreOK, WatchOK, FrameOK, NetOK
<1>25. ASSUME NEW k \in Keys, ReadFails(k) PROVE TypeOK'
  BY <1>25 DEF ReadFails, store, caches, frame, StoreOK, WatchOK, FrameOK, NetOK
<1>22. CASE UNCHANGED vars
  BY <1>0, <1>22 DEF vars, store, caches, work, frame, StoreOK, WatchOK, FrameOK
<1> QED
  BY <1>1, <1>2, <1>3, <1>4, <1>5, <1>6, <1>7, <1>8, <1>9, <1>10, <1>11, <1>12, <1>13, <1>14,
     <1>15, <1>16, <1>17, <1>18, <1>19, <1>20, <1>21, <1>22, <1>23, <1>24, <1>25
     DEF Next, Environment, Delivery, ReconcileStep

(* The initial state has the types. *)
LEMMA TypeInit == Init => TypeOK
BY DEF Init, TypeOK, StoreOK, WatchOK, FrameOK, NetOK, NoPeers

(* Every field of every object and every local of Reconcile keeps its type *)
(* in every behaviour of the controller, faults included.                  *)
THEOREM TypeCorrect == Spec => []TypeOK
BY TypeInit, TypeStep, PTL DEF Spec
-----------------------------------------------------------------------------
(* The inductive invariant.                                                *)

(* UIDs are never reused: whatever is cached, stored as a path or held by  *)
(* Reconcile has a UID that was given out, a stored policy the last one.   *)
UidsKnown ==
    /\ \A k \in Policies : policy[k] # None => policy[k].uid = uids[k]
    /\ \A k \in Policies : polCache[k] # None => polCache[k].uid <= uids[k]
    /\ \A n \in Paths : paths[n] # None => paths[n].uid <= uids[paths[n].owner]
    /\ \A n \in Paths : pathCache[n] # None => pathCache[n].uid <= uids[pathCache[n].owner]
    /\ pc # "idle" => pol.uid <= uids[req]

(* A cached policy is an earlier version: what it has, the stored one has. *)
(* And it cannot be settled when its incarnation is gone, because only a   *)
(* Reconcile that saw the deletion lets the incarnation go.                *)
CacheBehind ==
    \A k \in Policies :
        /\ Same(polCache[k], policy[k]) =>
              /\ polCache[k].deleting => policy[k].deleting
              /\ polCache[k].finalizer => policy[k].finalizer
        /\ Settled(polCache[k]) => Same(polCache[k], policy[k])

(* The policy k may go: its deletion is known to the cache, and no         *)
(* Reconcile computes paths for it.                                        *)
Removable(k) ==
    /\ policy[k].deleting
    /\ Same(polCache[k], policy[k]) => polCache[k].deleting
    /\ pc \in {"loop", "write"} /\ req = k => ~Same(pol, policy[k])

(* What Reconcile holds. *)
PolicyHeld ==
    /\ pc \in {"loop", "write"} =>
          Settled(pol) /\ Same(pol, policy[req]) /\ policy[req].finalizer
    /\ pc = "unfinalize" => (Same(pol, policy[req]) => Removable(req))

(* A path cached as owned by a live policy is stored as owned by it.       *)
PathCacheBehind ==
    \A n \in Paths, k \in Policies :
        OwnedBy(pathCache[n], k, policy[k]) => OwnedBy(paths[n], k, policy[k])

(* The peers the loop has dealt with have a path of the policy.            *)
LoopProgress ==
    /\ pc = "loop" => cur = None
    /\ pc \in {"loop", "write"} /\ allReady =>
          \A q \in Peers : listed[q] # None /\ q \notin todo /\ q # cur =>
              OwnedBy(paths[PathName[req][q]], req, policy[req])

(* The paths a Ready condition r of the policy k counts are there.         *)
Backed(k, r) == \A q \in r.dests : OwnedBy(paths[PathName[k][q]], k, policy[k])

(* An Update of a policy that does no harm whenever it is taken.           *)
SoundUpdate(c) ==
    /\ c.old.uid <= uids[c.at]
    /\ c.new = None => (Same(c.old, policy[c.at]) => Removable(c.at))
    /\ c.new # None =>
          /\ c.new.uid = c.old.uid
          /\ c.new.deleting = c.old.deleting
          /\ c.old.finalizer => c.new.finalizer
          /\ c.new.ready # c.old.ready =>
                c.new.ready # None /\ (Same(c.new, policy[c.at]) => Backed(c.at, c.new.ready))

(* A write of a path that does no harm whenever it is taken.               *)
SoundPut(c) ==
    /\ c.new.uid <= uids[c.new.owner]
    /\ c.old # None =>
          /\ c.old.owner = c.new.owner
          /\ c.old.uid <= c.new.uid
          /\ c.old.hop.as = c.new.hop.as => c.old.hop.ver <= c.new.hop.ver

LateSound ==
    /\ \A c \in latePol : SoundUpdate(c)
    /\ \A c \in latePaths : SoundPut(c)

(* The computed paths that are stored, cached or on their way.             *)
Seen == ({paths[n] : n \in Paths} \cup {pathCache[n] : n \in Paths}
           \cup {c.new : c \in latePaths}) \ {None}

(* They come from one peer spec, and are no fresher than the path that the *)
(* control service has and that Reconcile has fetched.                     *)
Coherent(x) == \E v \in PeerSpecs : v.cidr = x.cidr /\ v.as = x.hop.as

SeenBehind ==
    /\ \A x \in Seen :
          /\ Coherent(x)
          /\ x.hop.ver <= scion[x.hop.as].ver
          /\ pc = "write" /\ x.hop.as = hop.as => x.hop.ver <= hop.ver
    /\ pc = "write" => hop.as = listed[cur].as /\ hop.ver <= scion[hop.as].ver

IInv ==
    /\ TypeOK
    /\ UidsKnown
    /\ CacheBehind
    /\ PolicyHeld
    /\ PathCacheBehind
    /\ LoopProgress
    /\ ReadyPathsExist
    /\ LateSound
    /\ SeenBehind

-----------------------------------------------------------------------------
(* Steps that touch neither policies nor paths, and those that only end a  *)
(* Reconcile.                                                              *)
Quiet == UNCHANGED <<policy, uids, paths, polCache, pathCache, frame, latePol, latePaths>>
Leave == Return /\ UNCHANGED <<policy, uids, paths, polCache, pathCache, latePol, latePaths>>

(* The other steps, by what they do to a policy or to a path.              *)
UserStep ==
    \/ \E k \in Policies, s \in PolicySpecs : CreatePolicy(k, s) \/ UpdatePolicy(k, s)
    \/ \E k \in Policies : DeletePolicy(k)

CacheStep ==
    \/ \E k \in Policies : SyncPolicy(k)
    \/ \E n \in Paths : SyncPath(n)
    \/ Restart

UpdateStep == RemoveFinalizer \/ AddFinalizer \/ UpdateStatus

ControllerStep ==
    \/ \E k \in Policies : StartReconcile(k) /\ Dispatch(k) /\ polCache[k] # None
    \/ \E q \in Peers : FetchPath(q)
    \/ UpdateStep
    \/ WritePath

LandStep == (\E c \in latePol : LandPolicy(c)) \/ (\E c \in latePaths : LandPath(c))

LEMMA StepCases ==
    ASSUME [Next]_vars
    PROVE  \/ Quiet \/ Leave
           \/ UserStep \/ CacheStep \/ ControllerStep \/ LandStep
           \/ \E n \in Paths : GarbageCollect(n)
<1>1. CASE Environment
  BY <1>1 DEF Environment, UserStep, Quiet, SetPeer, PodEvent, ScionUp, ScionRotate, store,
     caches, work, frame, net
<1>2. CASE Delivery
  BY <1>2 DEF Delivery, CacheStep, LandStep, Quiet, TimerFires, store, caches, frame, net
<1>3. ASSUME NEW k \in Keys, StartReconcile(k) PROVE Quiet \/ ControllerStep
  BY <1>3 DEF StartReconcile, ControllerStep, NothingToDo, Quiet, store, caches, net
<1>4. CASE ReconcileStep
  BY <1>4 DEF ReconcileStep, ControllerStep, UpdateStep, Leave, NotReady, CallRefused, Requeue,
     store, caches, net
<1>5. CASE FetchFails
  BY <1>5 DEF FetchFails, Fails, Leave, Requeue, store, caches
<1>6. CASE Restart
  BY <1>6 DEF CacheStep
<1>7. CASE UNCHANGED vars
  BY <1>7 DEF vars, store, caches, net, Quiet
<1>8. ASSUME NEW k \in Keys, ReadFails(k) PROVE Quiet
  BY <1>8 DEF ReadFails, Quiet, store, caches
<1> QED
  BY <1>1, <1>2, <1>3, <1>4, <1>5, <1>6, <1>7, <1>8 DEF Next

(* An Update ends Reconcile either way. *)
LEMMA UpdateEnds == ASSUME NEW v, Update(v) PROVE Return
BY DEF Update, Fails, Requeue

(* A running Reconcile has a policy name and a policy. *)
LEMMA Held ==
    ASSUME TypeOK, pc # "idle"
    PROVE  req \in Policies /\ pol \in Policy /\ pol # None
BY NoneAssumption DEF TypeOK, FrameOK

LEMMA BumpedKeeps ==
    ASSUME NEW p \in Policy
    PROVE  /\ Bumped(p).uid = p.uid
           /\ Bumped(p).deleting = p.deleting
           /\ Bumped(p).finalizer = p.finalizer
           /\ Bumped(p).ready = p.ready
BY DEF Bumped, Policy

(* The Update a step of Reconcile makes. *)
Issues(c) ==
    \/ RemoveFinalizer /\ c = PolicyWrite(None)
    \/ AddFinalizer /\ c = PolicyWrite([pol EXCEPT !.finalizer = TRUE])
    \/ UpdateStatus /\ c = PolicyWrite([pol EXCEPT !.ready = ReadyCondition])

LEMMA IssuedType ==
    ASSUME TypeOK, NEW c, Issues(c)
    PROVE  c \in PolicyCall /\ c.at = req /\ c.old = pol /\ pc # "idle"
<1>1. pc # "idle"
  BY DEF Issues, RemoveFinalizer, AddFinalizer, UpdateStatus
<1>2. req \in Policies /\ pol \in Policy
  BY <1>1, Held
<1>3. PICK v \in Policy \cup {None} : c = PolicyWrite(v)
  BY <1>2, UpdatedType DEF Issues
<1> QED
  BY <1>1, <1>2, <1>3 DEF PolicyWrite, PolicyCall

LEMMA CallTypes ==
    ASSUME TypeOK
    PROVE  /\ \A c \in PolicyCall : c.at \in Policies /\ c.old \in Policy /\ c.old # None
                                      /\ c.new \in Policy \cup {None}
           /\ \A c \in PathCall : c.at \in Paths /\ c.old \in ComputedPath \cup {None}
                                    /\ c.new \in ComputedPath /\ c.new # None
           /\ latePol \subseteq PolicyCall /\ latePaths \subseteq PathCall
BY NoneAssumption DEF PolicyCall, PathCall, TypeOK, NetOK

(* A policy changes by its users or by a call of a Reconcile, past or      *)
(* present, that is taken.                                                 *)
LEMMA PolicyMoves ==
    ASSUME TypeOK, [Next]_vars
    PROVE  \/ policy' = policy /\ uids' = uids
           \/ UserStep
           \/ \E c \in PolicyCall : /\ c \in latePol \/ Issues(c)
                                    /\ TakePolicy(c)
                                    /\ uids' = uids /\ paths' = paths
<1>1. ASSUME NEW c \in latePol, LandPolicy(c)
      PROVE  c \in PolicyCall /\ TakePolicy(c) /\ uids' = uids /\ paths' = paths
  BY <1>1, CallTypes DEF LandPolicy
<1>2. ASSUME NEW v, NEW c, Update(v), c = PolicyWrite(v)
      PROVE  \/ policy' = policy /\ uids' = uids
             \/ TakePolicy(c) /\ uids' = uids /\ paths' = paths
  BY <1>2 DEF Update
<1>3. CASE UpdateStep
  <2>1. PICK c : /\ Issues(c)
                 /\ \/ policy' = policy /\ uids' = uids
                    \/ TakePolicy(c) /\ uids' = uids /\ paths' = paths
    BY <1>2, <1>3 DEF UpdateStep, Issues, RemoveFinalizer, AddFinalizer, UpdateStatus
  <2> QED
    BY <2>1, IssuedType
<1> QED
  BY <1>1, <1>3, StepCases
     DEF Quiet, Leave, CacheStep, ControllerStep, LandStep, GarbageCollect, SyncPolicy, SyncPath,
         Restart, StartReconcile, FetchPath, WritePath, LandPath, store

(* A path changes by the garbage collector or by a call that is taken.     *)
LEMMA PathMoves ==
    ASSUME TypeOK, [Next]_vars
    PROVE  \/ paths' = paths
           \/ \E n \in Paths : GarbageCollect(n)
           \/ \E c \in PathCall : /\ c \in latePaths \/ (WritePath /\ c = PathWrite)
                                  /\ TakePath(c)
                                  /\ policy' = policy /\ uids' = uids
<1>1. ASSUME NEW c \in latePaths, LandPath(c)
      PROVE  c \in PathCall /\ TakePath(c) /\ policy' = policy /\ uids' = uids
  BY <1>1, CallTypes DEF LandPath
<1>2. CASE WritePath
  <2>1. PathWrite \in PathCall /\ policy' = policy /\ uids' = uids
    BY <1>2, PathWriteType DEF WritePath
  <2>2. paths' = paths \/ TakePath(PathWrite)
    BY <1>2 DEF WritePath
  <2> QED
    BY <1>2, <2>1, <2>2
<1>3. CASE UpdateStep
  BY <1>3 DEF UpdateStep, RemoveFinalizer, AddFinalizer, UpdateStatus, Update
<1> QED
  BY <1>1, <1>2, <1>3, StepCases
     DEF Quiet, Leave, UserStep, CreatePolicy, UpdatePolicy, DeletePolicy, CacheStep, SyncPolicy,
         SyncPath, Restart, ControllerStep, StartReconcile, FetchPath, LandStep, LandPolicy, store

(* The calls that are astray were so before, or have just been made.       *)
LEMMA CallMoves ==
    ASSUME TypeOK, [Next]_vars
    PROVE  /\ \A c \in latePol' : c \in latePol \/ Issues(c)
           /\ \A c \in latePaths' : c \in latePaths \/ (WritePath /\ c = PathWrite)
<1>1. CASE WritePath
  BY <1>1 DEF WritePath, net
<1>2. ASSUME NEW v, Update(v)
      PROVE  latePol' \subseteq latePol \cup {PolicyWrite(v)} /\ latePaths' = latePaths
  BY <1>2 DEF Update, net
<1>3. CASE UpdateStep
  BY <1>2, <1>3 DEF UpdateStep, Issues, RemoveFinalizer, AddFinalizer, UpdateStatus
<1> QED
  BY <1>1, <1>3, StepCases
     DEF Quiet, Leave, UserStep, CreatePolicy, UpdatePolicy, DeletePolicy, CacheStep, SyncPolicy,
         SyncPath, Restart, ControllerStep, StartReconcile, FetchPath, LandStep, LandPolicy,
         LandPath, GarbageCollect, net

(* What a step does to the caches: nothing, or they take over what is      *)
(* stored, or a deletion that is part of its past.                         *)
LEMMA CacheMoves ==
    ASSUME TypeOK, [Next]_vars
    PROVE  /\ \A k \in Policies :
                 \/ polCache'[k] = polCache[k]
                 \/ policy' = policy /\ polCache'[k] \in {policy[k], None}
           /\ \A n \in Paths :
                 \/ pathCache'[n] = pathCache[n]
                 \/ policy' = policy /\ paths' = paths /\ pathCache'[n] = paths[n]
<1> USE DEF TypeOK, WatchOK
<1>1. CASE polCache' = polCache /\ pathCache' = pathCache
  BY <1>1
<1>2. ASSUME NEW j \in Policies, SyncPolicy(j)
      PROVE  /\ pathCache' = pathCache /\ policy' = policy
             /\ \A k \in Policies : polCache'[k] \in {polCache[k], policy[k], None}
  <2>1. PICK new \in {policy[j], None} : polCache' = [polCache EXCEPT ![j] = new]
    BY <1>2 DEF SyncPolicy
  <2> QED
    BY <1>2, <2>1 DEF SyncPolicy, store
<1>3. ASSUME NEW m \in Paths, SyncPath(m)
      PROVE  /\ polCache' = polCache /\ policy' = policy /\ paths' = paths
             /\ \A n \in Paths : pathCache'[n] \in {pathCache[n], paths[n]}
  BY <1>3 DEF SyncPath, store
<1>4. CASE Restart
  <2>1. \A k \in Policies : polCache'[k] \in {policy[k], polCache[k]}
    BY <1>4 DEF Restart
  <2>2. \A n \in Paths : pathCache'[n] \in {paths[n], pathCache[n]}
    BY <1>4 DEF Restart
  <2> QED
    BY <1>4, <2>1, <2>2 DEF Restart, store
<1>5. CASE UpdateStep
  BY <1>1, <1>5 DEF UpdateStep, RemoveFinalizer, AddFinalizer, UpdateStatus, Update, caches
<1> QED
  BY <1>1, <1>2, <1>3, <1>4, <1>5, StepCases
     DEF Quiet, Leave, UserStep, CreatePolicy, UpdatePolicy, DeletePolicy, CacheStep,
         ControllerStep, StartReconcile, FetchPath, WritePath, LandStep, LandPolicy, LandPath,
         GarbageCollect, caches

(* What a step does to the locals of Reconcile: it is over, nothing, or    *)
(* one of the three steps that go on with it.                              *)
Goes == pc' = "idle" \/ UNCHANGED frame

Continues == /\ WritePath /\ pc' = "loop" /\ cur' = None
             /\ UNCHANGED <<req, pol, listed, todo, allReady>>

LEMMA FrameMoves ==
    ASSUME TypeOK, [Next]_vars
    PROVE  \/ Goes
           \/ \E k \in Policies : StartReconcile(k) /\ Dispatch(k) /\ polCache[k] # None
           \/ \E q \in Peers : FetchPath(q)
           \/ Continues
<1>1. CASE WritePath
  BY <1>1 DEF WritePath, Continues, Fails, Requeue, Return, Goes
<1>2. CASE UpdateStep
  BY <1>2, UpdateEnds DEF UpdateStep, RemoveFinalizer, AddFinalizer, UpdateStatus, Return, Goes
<1> QED
  BY <1>1, <1>2, StepCases
     DEF Quiet, Leave, Return, UserStep, CreatePolicy, UpdatePolicy, DeletePolicy, CacheStep,
         SyncPolicy, SyncPath, Restart, ControllerStep, LandStep, LandPolicy, LandPath,
         GarbageCollect, frame, Goes

(* The control service never goes back to an older path.                   *)
LEMMA ScionGrows ==
    ASSUME TypeOK, [Next]_vars
    PROVE  \A a \in ASes : scion'[a].ver \in Nat /\ scion[a].ver \in Nat
                             /\ scion'[a].ver >= scion[a].ver
<1> USE DEF TypeOK, StoreOK
<1>1. CASE scion' = scion
  BY <1>1
<1>2. ASSUME NEW b \in ASes, ScionUp(b) \/ \E ready \in BOOLEAN : ScionRotate(b, ready)
      PROVE  \A a \in ASes : scion'[a].ver \in Nat /\ scion[a].ver \in Nat
                               /\ scion'[a].ver >= scion[a].ver
  BY <1>2 DEF ScionUp, ScionRotate
<1>3. CASE UpdateStep
  BY <1>1, <1>3 DEF UpdateStep, RemoveFinalizer, AddFinalizer, UpdateStatus, Update
<1> QED
  BY <1>1, <1>2, <1>3
     DEF Next, Environment, Delivery, ReconcileStep, UpdateStep, CreatePolicy, UpdatePolicy,
         DeletePolicy, SetPeer, PodEvent, GarbageCollect, SyncPolicy, SyncPath, TimerFires,
         LandPolicy, LandPath, StartReconcile, ReadFails, FetchPath, WritePath, NotReady,
         CallRefused, FetchFails, Restart, store, vars

-----------------------------------------------------------------------------
(* The calls Reconcile makes are sound.                                    *)

(* UIDs of the stored and the cached objects are numbers. *)
LEMMA UidTypes ==
    ASSUME TypeOK
    PROVE  /\ \A k \in Policies : uids[k] \in Nat
           /\ \A k \in Policies : policy[k] # None => policy[k].uid \in Nat
           /\ \A k \in Policies : polCache[k] # None => polCache[k].uid \in Nat
           /\ \A n \in Paths : paths[n] # None => paths[n].uid \in Nat /\ paths[n].owner \in Policies
           /\ \A n \in Paths :
                 pathCache[n] # None => pathCache[n].uid \in Nat /\ pathCache[n].owner \in Policies
           /\ pc # "idle" => pol.uid \in Nat
BY Held DEF TypeOK, StoreOK, WatchOK, Policy, ComputedPath, Uid

LEMMA IssuedIsSound ==
    ASSUME IInv, NEW c, Issues(c)
    PROVE  SoundUpdate(c)
<1>1. /\ TypeOK /\ c \in PolicyCall /\ c.at = req /\ c.old = pol /\ pc # "idle"
      /\ req \in Policies /\ pol \in Policy
  BY IssuedType, Held DEF IInv
<1>2. c.old.uid <= uids[c.at]
  BY <1>1 DEF IInv, UidsKnown
<1>3. CASE RemoveFinalizer /\ c = PolicyWrite(None)
  BY <1>1, <1>2, <1>3 DEF RemoveFinalizer, PolicyWrite, SoundUpdate, IInv, PolicyHeld
<1>4. CASE AddFinalizer /\ c = PolicyWrite([pol EXCEPT !.finalizer = TRUE])
  <2>0. c.new = [pol EXCEPT !.finalizer = TRUE]
    BY <1>4 DEF PolicyWrite
  <2>1. c.new \in Policy /\ c.new # None
    BY <1>1, <2>0, UpdatedType, NoneAssumption
  <2>2. /\ c.new.uid = pol.uid /\ c.new.deleting = pol.deleting
        /\ c.new.finalizer /\ c.new.ready = pol.ready
    BY <1>1, <2>0 DEF Policy
  <2> QED
    BY <1>1, <1>2, <2>1, <2>2 DEF SoundUpdate
<1>5. CASE UpdateStatus /\ c = PolicyWrite([pol EXCEPT !.ready = ReadyCondition])
  <2>1. c.new = [pol EXCEPT !.ready = ReadyCondition] /\ c.new # None
    BY <1>1, <1>5, UpdatedType, NoneAssumption DEF PolicyWrite
  <2>2. /\ c.new.uid = pol.uid /\ c.new.deleting = pol.deleting
        /\ c.new.finalizer = pol.finalizer /\ c.new.ready = ReadyCondition
    BY <1>1, <2>1 DEF Policy
  <2>3. ReadyCondition # None
    BY <1>1, ReadyConditionType, NoneAssumption
  <2>4. Backed(req, ReadyCondition)
    BY <1>5, NoneAssumption DEF UpdateStatus, ReadyCondition, Backed, IInv, LoopProgress
  <2> QED
    BY <1>1, <1>2, <2>1, <2>2, <2>3, <2>4 DEF SoundUpdate
<1> QED
  BY <1>3, <1>4, <1>5 DEF Issues

LEMMA PutIsSound ==
    ASSUME IInv, WritePath
    PROVE  PathWrite \in PathCall /\ SoundPut(PathWrite)
<1>1. TypeOK /\ pc = "write" /\ req \in Policies /\ PathWrite \in PathCall
  BY PathWriteType, Held DEF WritePath, IInv
<1>2. /\ PathWrite.new = Desired /\ PathWrite.old = pathCache[PathWrite.at]
      /\ PathWrite.at \in Paths
  BY <1>1 DEF PathWrite, PathCall
<1>3. Desired.owner = req /\ Desired.uid = pol.uid /\ Desired.hop = hop
  BY DEF Desired
<1>4. pol.uid <= uids[req] /\ pol.uid = uids[req]
  BY <1>1 DEF IInv, UidsKnown, PolicyHeld, Same
<1>5. ASSUME PathWrite.old # None
      PROVE  /\ PathWrite.old.owner = req /\ PathWrite.old.uid <= uids[req]
             /\ PathWrite.old.hop.as = hop.as => PathWrite.old.hop.ver <= hop.ver
  <2>1. PathWrite.old.owner = req
    BY <1>5 DEF WritePath, MayOwn
  <2>2. PathWrite.old.uid <= uids[req]
    BY <1>1, <1>2, <1>5, <2>1 DEF IInv, UidsKnown
  <2>3. PathWrite.old \in Seen
    BY <1>2, <1>5 DEF Seen
  <2> QED
    BY <1>1, <2>1, <2>2, <2>3 DEF IInv, SeenBehind
<1> QED
  BY <1>1, <1>2, <1>3, <1>4, <1>5 DEF SoundPut

(* Every call that is taken is sound.                                      *)
LEMMA TakenIsSound ==
    ASSUME IInv
    PROVE  /\ \A c : c \in latePol \/ Issues(c) => SoundUpdate(c)
           /\ \A c : c \in latePaths \/ (WritePath /\ c = PathWrite) => SoundPut(c)
BY IssuedIsSound, PutIsSound DEF IInv, LateSound

-----------------------------------------------------------------------------
(* What a step does to the policy k in the API server: it appears with a   *)
(* new UID, goes, or stays with its UID and with the marks it had.         *)
Appears(k) ==
    /\ policy[k] = None
    /\ uids'[k] = uids[k] + 1
    /\ policy'[k] # None
    /\ policy'[k].uid = uids[k] + 1
    /\ ~policy'[k].deleting /\ ~policy'[k].finalizer
    /\ policy'[k].ready = None

Disappears(k) ==
    /\ policy'[k] = None
    /\ uids'[k] = uids[k]
    /\ policy[k] # None => ~policy[k].finalizer \/ Removable(k)

Stays(k) ==
    /\ policy[k] # None /\ policy'[k] # None
    /\ uids'[k] = uids[k]
    /\ policy'[k].uid = policy[k].uid
    /\ policy[k].deleting => policy'[k].deleting
    /\ policy[k].finalizer => policy'[k].finalizer
    /\ policy'[k].ready # policy[k].ready =>
          policy'[k].ready # None /\ Backed(k, policy'[k].ready)

LEMMA PolicyStep ==
    ASSUME IInv, [Next]_vars, NEW k \in Policies
    PROVE  Appears(k) \/ Disappears(k) \/ Stays(k)
<1> USE NoneAssumption DEF TypeOK, StoreOK
<1>0. TypeOK /\ policy[k] \in Policy \cup {None}
  BY DEF IInv
<1>1. CASE policy' = policy /\ uids' = uids
  BY <1>1 DEF Disappears, Stays
<1>2. ASSUME NEW j \in Policies, NEW s \in PolicySpecs, CreatePolicy(j, s)
      PROVE  Appears(k) \/ Disappears(k) \/ Stays(k)
  <2>1. [uid |-> uids[j] + 1, gen |-> 1, deleting |-> FALSE,
         finalizer |-> FALSE, spec |-> s, ready |-> None] \in Policy
    BY <1>0 DEF Policy, Uid
  <2> QED
    BY <1>0, <1>2, <2>1 DEF CreatePolicy, Appears, Disappears, Stays
<1>3. ASSUME NEW j \in Policies, NEW s \in PolicySpecs, UpdatePolicy(j, s)
      PROVE  Disappears(k) \/ Stays(k)
  <2>1. [Bumped(policy[j]) EXCEPT !.spec = s] \in Policy
    BY <1>0, <1>3, BumpedType, SpecAssumption DEF UpdatePolicy, Policy
  <2> QED
    BY <1>0, <1>3, <2>1, BumpedType, BumpedKeeps DEF UpdatePolicy, Disappears, Stays, Policy
<1>4. ASSUME NEW j \in Policies, DeletePolicy(j)
      PROVE  Disappears(k) \/ Stays(k)
  <2>1. policy[j] \in Policy
    BY <1>0, <1>4 DEF DeletePolicy
  <2>2. [Bumped(policy[j]) EXCEPT !.deleting = TRUE] \in Policy
    BY <2>1, BumpedType DEF Policy
  <2>3. CASE k # j
    BY <1>0, <1>4, <2>3 DEF DeletePolicy, Disappears, Stays
  <2>4. CASE k = j /\ ~policy[j].finalizer
    BY <1>0, <1>4, <2>4 DEF DeletePolicy, Disappears
  <2>5. CASE k = j /\ policy[j].finalizer
    <3>1. policy'[k] = [Bumped(policy[j]) EXCEPT !.deleting = TRUE] /\ uids' = uids
      BY <1>0, <1>4, <2>5 DEF DeletePolicy
    <3>2. /\ policy'[k].uid = policy[k].uid
          /\ policy'[k].deleting = TRUE
          /\ policy'[k].finalizer = policy[k].finalizer
          /\ policy'[k].ready = policy[k].ready
      BY <2>1, <2>5, <3>1, BumpedType, BumpedKeeps DEF Policy
    <3>3. policy[k] # None /\ policy'[k] # None
      BY <2>1, <2>2, <2>5, <3>1
    <3> QED
      BY <3>1, <3>2, <3>3 DEF Stays
  <2> QED
    BY <2>3, <2>4, <2>5
<1>5. ASSUME NEW c \in PolicyCall, c \in latePol \/ Issues(c), TakePolicy(c), uids' = uids
      PROVE  Disappears(k) \/ Stays(k)
  <2>1. SoundUpdate(c) /\ c.old # None /\ policy[c.at] = c.old
    BY <1>0, <1>5, TakenIsSound, CallTypes DEF TakePolicy
  <2>2. CASE k # c.at
    BY <1>0, <1>5, <2>2 DEF TakePolicy, Disappears, Stays
  <2>3. CASE k = c.at
    <3>1. policy'[k] = c.new /\ policy[k] = c.old
      BY <1>0, <1>5, <2>3 DEF TakePolicy
    <3>2. CASE c.new = None
      BY <1>5, <2>1, <2>3, <3>1, <3>2 DEF SoundUpdate, Same, Disappears
    <3>3. CASE c.new # None
      BY <1>5, <2>1, <2>3, <3>1, <3>3 DEF SoundUpdate, Same, Stays
    <3> QED
      BY <3>2, <3>3
  <2> QED
    BY <2>2, <2>3
<1> QED
  BY <1>0, <1>1, <1>2, <1>3, <1>4, <1>5, PolicyMoves DEF UserStep

(* What a step does to a path: nothing, collect it ownerless, or write it  *)
(* where it was free or of the same owner, of the same or an earlier self. *)
Collected(n) ==
    /\ paths'[n] = None /\ policy' = policy
    /\ \A k \in Policies : ~OwnedBy(paths[n], k, policy[k])

Written(n) ==
    /\ policy' = policy /\ uids' = uids
    /\ paths'[n] \in ComputedPath
    /\ paths'[n].uid <= uids[paths'[n].owner]
    /\ paths[n] # None =>
          /\ paths[n].owner = paths'[n].owner
          /\ paths[n].uid <= paths'[n].uid
          /\ paths[n].hop.as = paths'[n].hop.as => paths[n].hop.ver <= paths'[n].hop.ver

LEMMA PathStep ==
    ASSUME IInv, [Next]_vars, NEW n \in Paths
    PROVE  paths'[n] = paths[n] \/ Collected(n) \/ Written(n)
<1> USE DEF TypeOK, StoreOK
<1>0. TypeOK
  BY DEF IInv
<1>1. ASSUME NEW m \in Paths, GarbageCollect(m)
      PROVE  paths'[n] = paths[n] \/ Collected(n)
  BY <1>0, <1>1 DEF GarbageCollect, OwnedBy, Collected
<1>2. ASSUME NEW c \in PathCall, c \in latePaths \/ (WritePath /\ c = PathWrite),
             TakePath(c), policy' = policy, uids' = uids
      PROVE  paths'[n] = paths[n] \/ Written(n)
  <2>1. SoundPut(c) /\ c.new \in ComputedPath
    BY <1>0, <1>2, TakenIsSound, CallTypes
  <2>2. CASE n # c.at
    BY <1>0, <1>2, <2>2 DEF TakePath
  <2>3. CASE n = c.at
    <3>1. paths'[n] = c.new /\ paths[n] = c.old
      BY <1>0, <1>2, <2>3 DEF TakePath
    <3> QED
      BY <1>2, <2>1, <3>1 DEF SoundPut, Written
  <2> QED
    BY <2>2, <2>3
<1> QED
  BY <1>0, <1>1, <1>2, PathMoves

-----------------------------------------------------------------------------
(* Each conjunct of the invariant is kept.                                 *)
LEMMA UidsGrow ==
    ASSUME IInv, [Next]_vars, NEW k \in Policies
    PROVE  uids'[k] \in Nat /\ uids'[k] >= uids[k]
BY PolicyStep, UidTypes DEF IInv, Appears, Disappears, Stays

LEMMA UidsStep == IInv /\ [Next]_vars => UidsKnown'
<1> SUFFICES ASSUME IInv, [Next]_vars PROVE UidsKnown'
  OBVIOUS
<1> USE UidTypes, UidsGrow DEF IInv, UidsKnown
<1>1. ASSUME NEW k \in Policies, policy'[k] # None PROVE policy'[k].uid = uids'[k]
  BY <1>1, PolicyStep DEF Appears, Disappears, Stays
<1>2. ASSUME NEW k \in Policies, polCache'[k] # None PROVE polCache'[k].uid <= uids'[k]
  <2>1. CASE polCache'[k] = polCache[k]
    BY <1>2, <2>1
  <2>2. CASE policy' = policy /\ polCache'[k] = policy[k]
    BY <1>2, <2>2, <1>1
  <2> QED
    BY <1>2, <2>1, <2>2, CacheMoves
<1>3. ASSUME NEW n \in Paths, paths'[n] # None PROVE paths'[n].uid <= uids'[paths'[n].owner]
  BY <1>3, PathStep DEF Collected, Written
<1>4. ASSUME NEW n \in Paths, pathCache'[n] # None
      PROVE  pathCache'[n].uid <= uids'[pathCache'[n].owner]
  BY <1>4, CacheMoves
<1>5. ASSUME pc' # "idle" PROVE pol'.uid <= uids'[req']
  <2>1. CASE pc # "idle" /\ req' = req /\ pol' = pol
    BY <2>1, Held
  <2>2. ASSUME NEW k \in Policies, StartReconcile(k), Dispatch(k), polCache[k] # None
        PROVE  pol'.uid <= uids'[req']
    BY <2>2 DEF StartReconcile, Dispatch, Enter, store
  <2> QED
    BY <1>5, <2>1, <2>2, FrameMoves DEF Goes, Continues, frame, FetchPath, WritePath
<1> QED
  BY <1>1, <1>2, <1>3, <1>4, <1>5

LEMMA CacheStepInv == IInv /\ [Next]_vars => CacheBehind'
<1> SUFFICES ASSUME IInv, [Next]_vars, NEW k \in Policies
             PROVE  /\ Same(polCache'[k], policy'[k]) =>
                          /\ polCache'[k].deleting => policy'[k].deleting
                          /\ polCache'[k].finalizer => policy'[k].finalizer
                    /\ Settled(polCache'[k]) => Same(polCache'[k], policy'[k])
  BY DEF CacheBehind
<1> USE UidTypes DEF IInv, CacheBehind, Same, Settled
<1>1. CASE policy' = policy /\ polCache'[k] \in {policy[k], None}
  BY <1>1
<1>2. CASE polCache'[k] = polCache[k] /\ Appears(k)
  BY <1>2 DEF Appears, UidsKnown
<1>3. CASE polCache'[k] = polCache[k] /\ Stays(k)
  BY <1>3 DEF Stays
<1>4. CASE polCache'[k] = polCache[k] /\ Disappears(k)
  BY <1>4 DEF Disappears, Removable
<1> QED
  BY <1>1, <1>2, <1>3, <1>4, CacheMoves, PolicyStep

(* What one Update may remove, it may remove as long as it can be taken.   *)
LEMMA RemovableStays ==
    ASSUME IInv, [Next]_vars, NEW k \in Policies, NEW p \in Policy,
           p.uid <= uids[k], Same(p, policy[k]) => Removable(k), Same(p, policy'[k])
    PROVE  Removable(k)'
<1> USE DEF Same
<1>1. Stays(k)
  BY PolicyStep, UidTypes DEF Appears, Disappears, IInv, Policy, Uid
<1>2. Removable(k) /\ policy'[k].uid = policy[k].uid
  BY <1>1 DEF Stays
<1>3. policy'[k].deleting
  BY <1>1, <1>2 DEF Stays, Removable
<1>4. Same(polCache'[k], policy'[k]) => polCache'[k].deleting
  BY <1>1, <1>2, <1>3, CacheMoves DEF IInv, Removable, Stays
<1>5. pc' \in {"loop", "write"} /\ req' = k => ~Same(pol', policy'[k])
  <2>1. CASE Goes
    BY <1>1, <1>2, <2>1 DEF Goes, frame, Removable, Stays
  <2>2. ASSUME NEW j \in Policies, StartReconcile(j), Dispatch(j), polCache[j] # None
        PROVE  pc' \in {"loop", "write"} /\ req' = k => ~Same(pol', policy'[k])
    BY <1>1, <1>2, <2>2 DEF StartReconcile, Dispatch, Enter, Removable, Stays
  <2>3. ASSUME NEW q \in Peers, FetchPath(q)
        PROVE  pc' \in {"loop", "write"} /\ req' = k => ~Same(pol', policy'[k])
    BY <1>1, <1>2, <2>3 DEF FetchPath, Removable, Stays
  <2>4. CASE Continues
    BY <1>1, <1>2, <2>4 DEF Continues, WritePath, Removable, Stays
  <2> QED
    BY <2>1, <2>2, <2>3, <2>4, FrameMoves DEF IInv
<1> QED
  BY <1>3, <1>4, <1>5 DEF Removable

LEMMA HeldStep == IInv /\ [Next]_vars => PolicyHeld'
<1> SUFFICES ASSUME IInv, [Next]_vars PROVE PolicyHeld'
  OBVIOUS
<1> USE DEF IInv, PolicyHeld, Same, Settled
<1>1. CASE pc' # "idle" /\ UNCHANGED frame
  <2>1. req \in Policies /\ pol \in Policy /\ req' = req /\ pol' = pol /\ pc' = pc /\ pc # "idle"
    BY <1>1, Held DEF frame
  <2>2. pol.uid <= uids[req] /\ pol.uid \in Nat /\ uids[req] \in Nat
    BY <2>1, UidTypes DEF UidsKnown
  <2>3. Appears(req) \/ Disappears(req) \/ Stays(req)
    BY <2>1, PolicyStep
  <2>4. CASE pc \in {"loop", "write"}
    BY <2>1, <2>2, <2>3, <2>4 DEF Appears, Disappears, Stays, Removable
  <2>5. CASE pc = "unfinalize"
    BY <2>1, <2>2, <2>5, RemovableStays
  <2> QED
    BY <2>1, <2>4, <2>5
<1>2. ASSUME NEW k \in Policies, StartReconcile(k), Dispatch(k), polCache[k] # None
      PROVE  PolicyHeld'
  BY <1>2 DEF StartReconcile, Dispatch, Enter, store, caches, CacheBehind, Removable
<1>3. ASSUME NEW q \in Peers, FetchPath(q) PROVE PolicyHeld'
  BY <1>3 DEF FetchPath, SkipPeer, store
<1>4. CASE Continues
  BY <1>4 DEF Continues, WritePath
<1>5. CASE pc' = "idle"
  BY <1>5
<1> QED
  BY <1>1, <1>2, <1>3, <1>4, <1>5, FrameMoves DEF Goes

(* A path owned by a live policy stays its own. *)
LEMMA OwnedStep ==
    ASSUME IInv, [Next]_vars, NEW n \in Paths, NEW k \in Policies,
           OwnedBy(paths[n], k, policy[k]), policy'[k] # None, policy'[k].uid = policy[k].uid
    PROVE  OwnedBy(paths'[n], k, policy'[k])
<1> USE DEF OwnedBy
<1>1. CASE paths'[n] = paths[n]
  BY <1>1
<1>2. CASE Written(n)
  <2>1. paths[n].uid = uids[k] /\ uids[k] \in Nat
    BY UidTypes DEF IInv, UidsKnown
  <2>2. paths'[n] # None /\ paths'[n].uid \in Nat /\ paths'[n].owner = k
    BY <1>2, NoneAssumption DEF Written, ComputedPath, Uid
  <2> QED
    BY <1>2, <2>1, <2>2 DEF Written
<1> QED
  BY <1>1, <1>2, PathStep DEF Collected

LEMMA PathCacheStep == IInv /\ [Next]_vars => PathCacheBehind'
<1> SUFFICES ASSUME IInv, [Next]_vars, NEW n \in Paths, NEW k \in Policies,
                    OwnedBy(pathCache'[n], k, policy'[k])
             PROVE  OwnedBy(paths'[n], k, policy'[k])
  BY DEF PathCacheBehind
<1>1. CASE policy' = policy /\ paths' = paths /\ pathCache'[n] = paths[n]
  BY <1>1
<1>2. CASE pathCache'[n] = pathCache[n]
  <2>1. policy'[k] # None /\ pathCache[n] # None /\ pathCache[n].owner = k
        /\ pathCache[n].uid = policy'[k].uid
    BY <1>2 DEF OwnedBy
  <2>2. ~Appears(k)
    BY <2>1, UidTypes DEF Appears, IInv, UidsKnown
  <2>3. Stays(k)
    BY <2>1, <2>2, PolicyStep DEF Disappears
  <2>4. OwnedBy(pathCache[n], k, policy[k])
    BY <2>1, <2>3 DEF Stays, OwnedBy
  <2>5. OwnedBy(paths[n], k, policy[k])
    BY <2>4 DEF IInv, PathCacheBehind
  <2> QED
    BY <2>3, <2>5, OwnedStep DEF Stays
<1> QED
  BY <1>1, <1>2, CacheMoves DEF IInv

(* A condition that is backed stays so while its policy does.              *)
LEMMA BackedStays ==
    ASSUME IInv, [Next]_vars, NEW k \in Policies, NEW r \in Ready, Backed(k, r), Stays(k)
    PROVE  Backed(k, r)'
<1> SUFFICES ASSUME NEW q \in r.dests PROVE OwnedBy(paths'[PathName[k][q]], k, policy'[k])
  BY DEF Backed
<1>1. PathName[k][q] \in Paths
  BY KeyAssumption DEF Ready
<1> QED
  BY <1>1, OwnedStep DEF Backed, Stays

(* While paths are computed, the policy in hand stays. *)
LEMMA LoopStays ==
    ASSUME IInv, [Next]_vars, pc \in {"loop", "write"}
    PROVE  req \in Policies /\ Stays(req)
BY PolicyStep, Held DEF IInv, PolicyHeld, Same, Appears, Disappears, Removable

(* After a write that succeeded, the policy in hand owns the path.         *)
LEMMA WriteOwns ==
    ASSUME IInv, WritePath, pc' = "loop"
    PROVE  OwnedBy(paths'[PathName[req][cur]], req, policy'[req])
<1> DEFINE n == PathName[req][cur]
<1>1. req \in Policies /\ n \in Paths /\ Desired # None
  BY Held, DesiredType, NoneAssumption DEF IInv, WritePath
<1>2. policy' = policy /\ OwnedBy(Desired, req, policy[req])
  BY <1>1 DEF IInv, PolicyHeld, WritePath, Same, OwnedBy, Desired
<1>3. CASE TakePath(PathWrite)
  BY <1>1, <1>2, <1>3 DEF TakePath, PathWrite, IInv, TypeOK, StoreOK
<1>4. CASE pathCache[n] = Desired /\ UNCHANGED paths
  BY <1>1, <1>2, <1>4 DEF IInv, PathCacheBehind
<1> QED
  BY <1>3, <1>4 DEF WritePath, PathWrite, Fails, Requeue, Return

LEMMA LoopStep == IInv /\ [Next]_vars => LoopProgress'
<1> SUFFICES ASSUME IInv, [Next]_vars PROVE LoopProgress'
  OBVIOUS
<1> USE DEF IInv, LoopProgress
<1>1. CASE Goes
  <2>1. CASE pc' = "idle"
    BY <2>1
  <2>2. CASE pc' # "idle" /\ UNCHANGED frame
    <3>1. pc' = pc /\ req' = req /\ listed' = listed /\ todo' = todo /\ allReady' = allReady
          /\ cur' = cur
      BY <2>2 DEF frame
    <3>2. ASSUME pc \in {"loop", "write"}, allReady, NEW q \in Peers,
                 listed[q] # None, q \notin todo, q # cur
          PROVE  OwnedBy(paths'[PathName[req][q]], req, policy'[req])
      BY <3>2, LoopStays, OwnedStep, KeyAssumption DEF Stays
    <3> QED
      BY <3>1, <3>2
  <2> QED
    BY <1>1, <2>1, <2>2 DEF Goes
<1>2. ASSUME NEW k \in Policies, StartReconcile(k), Dispatch(k), polCache[k] # None
      PROVE  LoopProgress'
  BY <1>2 DEF Dispatch, Enter
<1>3. ASSUME NEW q \in Peers, FetchPath(q) PROVE LoopProgress'
  BY <1>3, NoneAssumption DEF FetchPath, SkipPeer, store
<1>4. CASE Continues
  <2>1. ASSUME allReady, NEW q \in Peers, listed[q] # None, q \notin todo
        PROVE  OwnedBy(paths'[PathName[req][q]], req, policy'[req])
    <3>1. CASE q = cur
      BY <1>4, <3>1, WriteOwns DEF Continues
    <3>2. CASE q # cur
      BY <1>4, <2>1, <3>2, LoopStays, OwnedStep, KeyAssumption DEF Continues, WritePath, Stays
    <3> QED
      BY <3>1, <3>2
  <2> QED
    BY <1>4, <2>1 DEF Continues
<1> QED
  BY <1>1, <1>2, <1>3, <1>4, FrameMoves

LEMMA ReadyStep == IInv /\ [Next]_vars => ReadyPathsExist'
<1> SUFFICES ASSUME IInv, [Next]_vars, NEW k \in Policies,
                    policy'[k] # None, NEW r, r = policy'[k].ready, r # None
             PROVE  Backed(k, r)'
  BY DEF ReadyPathsExist, Backed
<1>1. Stays(k)
  BY PolicyStep DEF Appears, Disappears
<1>2. r \in Ready
  BY TypeStep DEF IInv, TypeOK, StoreOK, Policy
<1>3. Backed(k, r)
  BY <1>1 DEF IInv, ReadyPathsExist, Backed, Stays
<1> QED
  BY <1>1, <1>2, <1>3, BackedStays

(* A sound call stays sound as long as it is on its way.                   *)
LEMMA SoundUpdateStays ==
    ASSUME IInv, [Next]_vars, NEW c \in PolicyCall, SoundUpdate(c)
    PROVE  SoundUpdate(c)'
<1>1. c.at \in Policies /\ c.old \in Policy /\ c.old # None /\ c.new \in Policy \cup {None}
  BY CallTypes DEF IInv
<1>2. c.old.uid <= uids'[c.at]
  BY <1>1, UidsGrow, UidTypes DEF SoundUpdate, IInv, Policy, Uid
<1>3. ASSUME c.new = None, Same(c.old, policy'[c.at]) PROVE Removable(c.at)'
  BY <1>1, <1>3, RemovableStays DEF SoundUpdate
<1>4. ASSUME c.new # None, c.new.ready # c.old.ready, Same(c.new, policy'[c.at])
      PROVE  Backed(c.at, c.new.ready)'
  <2>1. c.new.uid = c.old.uid /\ c.new.ready # None
    BY <1>4 DEF SoundUpdate
  <2>2. Stays(c.at)
    <3>1. c.old.uid \in Nat /\ uids[c.at] \in Nat /\ c.old.uid <= uids[c.at]
      BY <1>1, UidTypes DEF SoundUpdate, IInv, Policy, Uid
    <3>2. policy'[c.at] # None /\ policy'[c.at].uid = c.old.uid
      BY <1>4, <2>1 DEF Same
    <3> QED
      BY <1>1, <3>1, <3>2, PolicyStep DEF Appears, Disappears
  <2>3. Backed(c.at, c.new.ready)
    BY <1>4, <2>2 DEF Stays, Same, SoundUpdate
  <2>4. c.new.ready \in Ready
    BY <1>1, <1>4, <2>1 DEF Policy
  <2> QED
    BY <1>1, <2>2, <2>3, <2>4, BackedStays
<1> QED
  BY <1>2, <1>3, <1>4 DEF SoundUpdate

LEMMA SoundPutStays ==
    ASSUME IInv, [Next]_vars, NEW c \in PathCall, SoundPut(c)
    PROVE  SoundPut(c)'
<1>1. c.new.owner \in Policies /\ c.new.uid \in Nat
  BY CallTypes DEF IInv, ComputedPath, Uid
<1>2. c.new.uid <= uids'[c.new.owner]
  BY <1>1, UidsGrow, UidTypes DEF SoundPut, IInv
<1> QED
  BY <1>2 DEF SoundPut

LEMMA LateStep == IInv /\ [Next]_vars => LateSound'
<1> SUFFICES ASSUME IInv, [Next]_vars PROVE LateSound'
  OBVIOUS
<1>1. ASSUME NEW c \in latePol' PROVE SoundUpdate(c)'
  <2>1. c \in PolicyCall /\ SoundUpdate(c)
    BY CallMoves, CallTypes, IssuedType, TakenIsSound DEF IInv
  <2> QED
    BY <2>1, SoundUpdateStays
<1>2. ASSUME NEW c \in latePaths' PROVE SoundPut(c)'
  <2>1. c \in PathCall /\ SoundPut(c)
    BY CallMoves, CallTypes, PutIsSound, TakenIsSound DEF IInv
  <2> QED
    BY <2>1, SoundPutStays
<1> QED
  BY <1>1, <1>2 DEF LateSound

(* The paths that are seen after a step were seen before, or are what      *)
(* Reconcile writes.                                                       *)
LEMMA SeenMoves ==
    ASSUME IInv, [Next]_vars, NEW x \in Seen'
    PROVE  x \in Seen \/ (WritePath /\ x = Desired)
<1>0. TypeOK /\ x # None
  BY DEF IInv, Seen
<1>1. PathWrite.new = Desired
  BY DEF PathWrite
<1>2. ASSUME NEW n \in Paths, x = paths'[n] PROVE x \in Seen \/ (WritePath /\ x = Desired)
  <2>1. CASE paths'[n] = paths[n]
    BY <1>0, <1>2, <2>1 DEF Seen
  <2>2. ASSUME NEW m \in Paths, GarbageCollect(m) PROVE paths'[n] \in {paths[n], None}
    BY <1>0, <2>2 DEF GarbageCollect, TypeOK, StoreOK
  <2>3. ASSUME NEW c \in PathCall, c \in latePaths \/ (WritePath /\ c = PathWrite), TakePath(c)
        PROVE  x \in Seen \/ (WritePath /\ x = Desired)
    <3>1. paths'[n] = paths[n] \/ paths'[n] = c.new
      BY <1>0, <2>3 DEF TakePath, TypeOK, StoreOK
    <3> QED
      BY <1>0, <1>1, <1>2, <2>1, <2>3, <3>1 DEF Seen
  <2> QED
    BY <1>0, <1>2, <2>1, <2>2, <2>3, PathMoves
<1>3. ASSUME NEW n \in Paths, x = pathCache'[n] PROVE x \in Seen
  BY <1>0, <1>3, CacheMoves DEF Seen
<1>4. ASSUME NEW c \in latePaths', x = c.new PROVE x \in Seen \/ (WritePath /\ x = Desired)
  BY <1>0, <1>1, <1>4, CallMoves DEF Seen
<1> QED
  BY <1>2, <1>3, <1>4 DEF Seen

LEMMA SeenTypes == ASSUME TypeOK, NEW x \in Seen PROVE x \in ComputedPath /\ x.hop \in Hop
BY CallTypes DEF Seen, TypeOK, StoreOK, WatchOK, ComputedPath

LEMMA SeenStep == IInv /\ [Next]_vars => SeenBehind'
<1> SUFFICES ASSUME IInv, [Next]_vars PROVE SeenBehind'
  OBVIOUS
<1> USE DEF Hop
<1>0. TypeOK
  BY DEF IInv
<1>1. ASSUME NEW x \in Seen
      PROVE  x.hop.as \in ASes /\ x.hop.ver \in Nat /\ Coherent(x)
             /\ x.hop.ver <= scion[x.hop.as].ver /\ x.hop.ver <= scion'[x.hop.as].ver
  BY <1>0, <1>1, SeenTypes, ScionGrows DEF IInv, SeenBehind
<1>2. ASSUME WritePath
      PROVE  Coherent(Desired) /\ Desired.hop.ver <= scion'[Desired.hop.as].ver /\ pc' # "write"
  <2>1. pc = "write" /\ hop \in Hop /\ listed[cur] \in PeerSpecs /\ Desired.hop = hop
        /\ Desired.cidr = listed[cur].cidr
    BY <1>0, <1>2 DEF WritePath, TypeOK, FrameOK, Desired
  <2>2. hop.as = listed[cur].as /\ hop.ver <= scion[hop.as].ver
    BY <2>1 DEF IInv, SeenBehind
  <2>3. pc' # "write"
    BY <1>2 DEF WritePath, Fails, Requeue, Return
  <2> QED
    BY <1>0, <2>1, <2>2, <2>3, ScionGrows DEF Coherent
<1>3. ASSUME NEW x \in Seen' PROVE Coherent(x) /\ x.hop.ver <= scion'[x.hop.as].ver
  BY <1>1, <1>2, <1>3, SeenMoves
<1>4. CASE pc' # "write"
  BY <1>3, <1>4 DEF SeenBehind, Coherent
<1>5. CASE pc' = "write" /\ UNCHANGED frame
  <2>1. pc = "write" /\ hop' = hop /\ listed' = listed /\ cur' = cur /\ hop \in Hop
    BY <1>0, <1>5 DEF frame, TypeOK, FrameOK
  <2>2. hop.as = listed[cur].as /\ hop.ver <= scion[hop.as].ver /\ hop.ver <= scion'[hop.as].ver
    BY <1>0, <2>1, ScionGrows DEF IInv, SeenBehind
  <2>3. ASSUME NEW x \in Seen', x.hop.as = hop.as PROVE x.hop.ver <= hop.ver
    BY <1>2, <1>5, <2>1, <2>3, SeenMoves DEF IInv, SeenBehind
  <2> QED
    BY <1>3, <2>1, <2>2, <2>3 DEF SeenBehind, Coherent
<1>6. ASSUME NEW q \in Peers, FetchPath(q), pc' = "write" PROVE SeenBehind'
  <2>1. /\ hop'.as = listed[q].as /\ hop'.ver = scion[listed[q].as].ver
        /\ cur' = q /\ listed' = listed /\ scion' = scion
    BY <1>6 DEF FetchPath, SkipPeer, store
  <2>2. listed[q].as \in ASes /\ scion[listed[q].as].ver \in Nat
    BY <1>0, <1>6, SpecAssumption DEF FetchPath, TypeOK, FrameOK, StoreOK
  <2>3. ASSUME NEW x \in Seen' PROVE x \in Seen
    BY <1>2, <1>6, <2>3, SeenMoves
  <2>4. ASSUME NEW x \in Seen', x.hop.as = hop'.as PROVE x.hop.ver <= hop'.ver
    BY <1>1, <2>1, <2>3, <2>4
  <2> QED
    BY <1>3, <2>1, <2>2, <2>4 DEF SeenBehind, Coherent
<1>7. ASSUME NEW k \in Policies, Dispatch(k) PROVE pc' # "write"
  BY <1>7 DEF Dispatch, Enter
<1> QED
  BY <1>0, <1>4, <1>5, <1>6, <1>7, FrameMoves DEF Goes, Continues

-----------------------------------------------------------------------------
(* The theorems.                                                           *)

LEMMA IInvInit == Init => IInv
BY TypeInit
   DEF Init, IInv, UidsKnown, CacheBehind, PolicyHeld, PathCacheBehind, LoopProgress,
       ReadyPathsExist, LateSound, SeenBehind, Seen, Same, Settled, OwnedBy

LEMMA IInvStep == IInv /\ [Next]_vars => IInv'
BY TypeStep, UidsStep, CacheStepInv, HeldStep, PathCacheStep, LoopStep, ReadyStep, LateStep, SeenStep
   DEF IInv

LEMMA Inductive == Spec => []IInv
BY IInvInit, IInvStep, PTL DEF Spec

(* Reconcile computes and writes paths only while the incarnation it read  *)
(* is stored with its finalizer, for any lag of the caches.                *)
THEOREM LivePoliciesOnly == Spec => []WritesOnlyForLivePolicies
<1>1. IInv => WritesOnlyForLivePolicies
  BY DEF IInv, PolicyHeld, WritesOnlyForLivePolicies
<1> QED
  BY <1>1, Inductive, PTL

(* A Ready policy owns a computed path for every destination it counts.    *)
THEOREM ReadyMeansPaths == Spec => []ReadyPathsExist
<1>1. IInv => ReadyPathsExist
  BY DEF IInv
<1> QED
  BY <1>1, Inductive, PTL

(* A path whose owner is still there keeps its owner, whatever names the   *)
(* paths of other policies have.                                           *)
THEOREM OwnersKeepTheirPaths == Spec => OwnerKeepsPath
<1>1. ASSUME IInv, [Next]_vars, NEW n \in Paths, NEW k \in Policies,
             OwnedBy(paths[n], k, policy[k]), Same(policy[k], policy'[k])
      PROVE  OwnedBy(paths'[n], k, policy'[k])
  BY <1>1, OwnedStep DEF Same
<1>2. IInv /\ [Next]_vars =>
        [\A n \in Paths, k \in Policies :
           OwnedBy(paths[n], k, policy[k]) /\ Same(policy[k], policy'[k]) =>
              OwnedBy(paths'[n], k, policy'[k])]_vars
  BY <1>1
<1> QED
  BY <1>2, Inductive, PTL DEF OwnerKeepsPath, Spec

(* The CIDR and the hop fields of a stored path come from one peer spec.   *)
THEOREM CoherentPaths == Spec => []PathsAreCoherent
<1>1. IInv => PathsAreCoherent
  <2> SUFFICES ASSUME IInv, NEW n \in Paths, paths[n] # None
               PROVE  Coherent(paths[n])
    BY DEF PathsAreCoherent, Coherent
  <2>1. paths[n] \in Seen
    BY DEF Seen
  <2> QED
    BY <2>1 DEF IInv, SeenBehind
<1> QED
  BY <1>1, Inductive, PTL

(* No write of a path, however late, puts older hop fields of an AS in     *)
(* place of fresher ones.                                                  *)
THEOREM HopsOnlyAdvance == Spec => HopsNeverGoBack
<1>1. ASSUME IInv, [Next]_vars, NEW n \in Paths,
             paths[n] # None, paths'[n] # None, paths'[n].hop.as = paths[n].hop.as
      PROVE  paths'[n].hop.ver >= paths[n].hop.ver
  <2>1. paths[n].hop.ver \in Nat
    BY <1>1 DEF IInv, TypeOK, StoreOK, ComputedPath, Hop
  <2>2. CASE paths'[n] = paths[n]
    BY <2>1, <2>2
  <2>3. CASE Written(n)
    <3>1. paths'[n].hop.ver \in Nat
      BY <2>3 DEF Written, ComputedPath, Hop
    <3> QED
      BY <1>1, <2>1, <2>3, <3>1 DEF Written
  <2> QED
    BY <1>1, <2>2, <2>3, PathStep DEF Collected
<1>2. IInv /\ [Next]_vars =>
        [\A n \in Paths :
           paths[n] # None /\ paths'[n] # None /\ paths'[n].hop.as = paths[n].hop.as =>
              paths'[n].hop.ver >= paths[n].hop.ver]_vars
  BY <1>1
<1> QED
  BY <1>2, Inductive, PTL DEF HopsNeverGoBack, Spec

-----------------------------------------------------------------------------
(* The refinement: each step of the controller is a step of PathOwnership, *)
(* or changes nothing it speaks about.                                     *)
LEMMA OwnershipInit == Init => Ownership!Init
BY DEF Init, Ownership!Init, AbsLive, AbsOwner, AbsPromised

(* A policy that keeps its UID and its Ready condition looks the same.     *)
LEMMA LooksTheSame ==
    ASSUME NEW k \in Policies, StoreOK,
           policy[k] # None, NEW p \in Policy, policy' = [policy EXCEPT ![k] = p],
           p.uid = policy[k].uid
    PROVE  /\ AbsLive' = AbsLive
           /\ p.ready = policy[k].ready => AbsPromised' = AbsPromised
<1>1. p # None
  BY NoneAssumption
<1> QED
  BY <1>1 DEF StoreOK, AbsLive, AbsPromised

(* A policy that is gone is removed, with what it promised.                *)
LEMMA GoneIsRemoved ==
    ASSUME NEW k \in Policies, StoreOK, policy[k] # None,
           policy' = [policy EXCEPT ![k] = None], UNCHANGED <<uids, paths>>
    PROVE  Ownership!Remove(k)
<1>1. policy[k].uid # None
  BY NoneAssumption, OwnerAssumption DEF StoreOK, Policy, Uid
<1>2. AbsLive[k] # None /\ AbsLive' = [AbsLive EXCEPT ![k] = None]
  BY <1>1 DEF StoreOK, AbsLive
<1>3. AbsPromised' = [AbsPromised EXCEPT ![k] = {}]
  BY DEF StoreOK, AbsPromised
<1>4. AbsOwner' = AbsOwner
  BY DEF AbsOwner
<1> QED
  BY <1>2, <1>3, <1>4 DEF Ownership!Remove

(* A Ready condition that is replaced replaces the promise.                *)
LEMMA NewPromise ==
    ASSUME NEW k \in Policies, StoreOK, NEW p, p # None, p.ready # None,
           policy' = [policy EXCEPT ![k] = p]
    PROVE  AbsPromised' = [AbsPromised EXCEPT ![k] = {PathName[k][q] : q \in p.ready.dests}]
<1> DEFINE S == {PathName[k][q] : q \in p.ready.dests}
<1>1. \A j \in Policies : AbsPromised'[j] = IF j = k THEN S ELSE AbsPromised[j]
  <2>1. policy'[k] = p
    BY DEF StoreOK
  <2>2. AbsPromised'[k] = S
    BY <2>1 DEF AbsPromised
  <2>3. ASSUME NEW j \in Policies, j # k PROVE AbsPromised'[j] = AbsPromised[j]
    BY <2>3 DEF StoreOK, AbsPromised
  <2> QED
    BY <2>2, <2>3
<1> HIDE DEF S
<1>2. /\ AbsPromised' = [j \in Policies |-> AbsPromised'[j]]
      /\ [AbsPromised EXCEPT ![k] = S] = [j \in Policies |-> IF j = k THEN S ELSE AbsPromised[j]]
  BY DEF AbsPromised
<1>3. AbsPromised' = [AbsPromised EXCEPT ![k] = S]
  BY <1>1, <1>2
<1> QED
  BY <1>3 DEF S

LEMMA OwnershipStep == IInv /\ [Next]_vars => [Ownership!Next]_(Ownership!vars)
<1> SUFFICES ASSUME IInv, [Next]_vars PROVE [Ownership!Next]_(Ownership!vars)
  OBVIOUS
<1> USE NoneAssumption, OwnerAssumption
<1>0. TypeOK /\ StoreOK
  BY DEF IInv, TypeOK
<1>1. CASE UNCHANGED <<policy, uids, paths>>
  BY <1>1 DEF Ownership!vars, AbsLive, AbsOwner, AbsPromised
<1>2. ASSUME NEW k \in Policies, NEW s \in PolicySpecs, CreatePolicy(k, s)
      PROVE  Ownership!Create(k)
  <2> DEFINE new == [uid |-> uids[k] + 1, gen |-> 1, deleting |-> FALSE,
                     finalizer |-> FALSE, spec |-> s, ready |-> None]
  <2>0. new \in Policy
    BY <1>0 DEF Policy, Uid, StoreOK
  <2>1. new # None /\ new.uid = uids[k] + 1 /\ new.ready = None
    BY <2>0
  <2>2. /\ policy[k] = None
        /\ policy' = [policy EXCEPT ![k] = new]
        /\ uids' = [uids EXCEPT ![k] = uids[k] + 1]
        /\ paths' = paths
    BY <1>2 DEF CreatePolicy
  <2> HIDE DEF new
  <2>3. AbsLive[k] = None /\ AbsLive' = [AbsLive EXCEPT ![k] = uids[k] + 1]
    BY <2>1, <2>2, <1>0 DEF StoreOK, AbsLive
  <2>4. AbsPromised' = AbsPromised /\ AbsOwner' = AbsOwner
    BY <2>1, <2>2, <1>0 DEF StoreOK, AbsPromised, AbsOwner
  <2> QED
    BY <2>2, <2>3, <2>4 DEF Ownership!Create
<1>3. ASSUME NEW k \in Policies, NEW s \in PolicySpecs, UpdatePolicy(k, s)
      PROVE  UNCHANGED Ownership!vars
  <2>1. policy[k] # None /\ policy[k] \in Policy /\ UNCHANGED <<uids, paths>>
    BY <1>3, <1>0 DEF UpdatePolicy, StoreOK
  <2> DEFINE new == [Bumped(policy[k]) EXCEPT !.spec = s]
  <2>2. new \in Policy /\ new.uid = policy[k].uid /\ new.ready = policy[k].ready
    BY <2>1, BumpedType, BumpedKeeps DEF Policy
  <2>3. policy' = [policy EXCEPT ![k] = new]
    BY <1>3 DEF UpdatePolicy
  <2> HIDE DEF new
  <2> QED
    BY <1>0, <2>1, <2>2, <2>3, LooksTheSame DEF Ownership!vars, AbsOwner
<1>4. ASSUME NEW k \in Policies, DeletePolicy(k)
      PROVE  Ownership!Remove(k) \/ UNCHANGED Ownership!vars
  <2>1. policy[k] # None /\ policy[k] \in Policy /\ UNCHANGED <<uids, paths>>
    BY <1>4, <1>0 DEF DeletePolicy, StoreOK
  <2>2. CASE ~policy[k].finalizer
    BY <1>0, <1>4, <2>1, <2>2, GoneIsRemoved DEF DeletePolicy
  <2>3. CASE policy[k].finalizer
    <3> DEFINE new == [Bumped(policy[k]) EXCEPT !.deleting = TRUE]
    <3>0. new \in Policy
      BY <2>1, BumpedType DEF Policy
    <3>1. new.uid = policy[k].uid /\ new.ready = policy[k].ready
      <4>1. Bumped(policy[k]) \in Policy
        BY <2>1, BumpedType
      <4>2. /\ Bumped(policy[k]).uid = policy[k].uid
            /\ Bumped(policy[k]).ready = policy[k].ready
        BY <2>1, BumpedKeeps
      <4>3. new.uid = Bumped(policy[k]).uid /\ new.ready = Bumped(policy[k]).ready
        BY <4>1 DEF Policy
      <4> QED
        BY <4>2, <4>3
    <3>2. policy' = [policy EXCEPT ![k] = new]
      BY <1>4, <2>3 DEF DeletePolicy
    <3> HIDE DEF new
    <3> QED
      BY <1>0, <2>1, <3>0, <3>1, <3>2, LooksTheSame DEF Ownership!vars, AbsOwner
  <2> QED
    BY <2>2, <2>3
<1>5. ASSUME NEW c \in PolicyCall, c \in latePol \/ Issues(c), TakePolicy(c), UNCHANGED <<uids, paths>>
      PROVE  Ownership!Next \/ UNCHANGED Ownership!vars
  <2> DEFINE k == c.at
             r == c.new.ready
             S == {PathName[k][q] : q \in r.dests}
  <2>1. /\ k \in Policies /\ policy[k] = c.old /\ policy[k] # None /\ policy[k] \in Policy
        /\ SoundUpdate(c) /\ policy' = [policy EXCEPT ![k] = c.new]
        /\ c.new \in Policy \cup {None}
    BY <1>0, <1>5, CallTypes, TakenIsSound DEF TakePolicy
  <2>2. CASE c.new = None
    BY <1>0, <1>5, <2>1, <2>2, GoneIsRemoved DEF Ownership!Next
  <2>3. ASSUME c.new # None PROVE c.new \in Policy /\ c.new.uid = policy[k].uid
    BY <2>1, <2>3 DEF SoundUpdate
  <2>4. CASE c.new # None /\ r = policy[k].ready
    BY <1>0, <1>5, <2>1, <2>3, <2>4, LooksTheSame DEF Ownership!vars, AbsOwner
  <2>5. CASE c.new # None /\ r # policy[k].ready
    <3>1. r # None /\ Backed(k, r)
      BY <2>1, <2>3, <2>5 DEF SoundUpdate, Same
    <3>2. r \in Ready
      BY <2>3, <2>5, <3>1 DEF Policy
    <3>3. S \subseteq Paths
      BY <2>1, <3>2, KeyAssumption DEF Ready
    <3>4. ASSUME NEW n \in S PROVE AbsOwner[n] = [key |-> k, inc |-> AbsLive[k]]
      BY <2>1, <3>1, <3>3 DEF Backed, OwnedBy, AbsOwner, AbsLive
    <3>5. AbsLive[k] # None
      BY <2>1 DEF AbsLive, Policy, Uid
    <3>6. AbsLive' = AbsLive /\ AbsOwner' = AbsOwner
      BY <1>0, <1>5, <2>1, <2>3, <2>5, LooksTheSame DEF AbsOwner
    <3>7. AbsPromised' = [AbsPromised EXCEPT ![k] = S]
      BY <1>0, <2>1, <2>5, <3>1, NewPromise
    <3> HIDE DEF S
    <3>8. Ownership!Promise(k, S)
      BY <1>5, <3>4, <3>5, <3>6, <3>7 DEF Ownership!Promise
    <3> QED
      BY <2>1, <3>3, <3>8 DEF Ownership!Next
  <2> QED
    BY <2>2, <2>4, <2>5
<1>6. ASSUME NEW c \in PathCall, c \in latePaths \/ (WritePath /\ c = PathWrite), TakePath(c),
             UNCHANGED <<policy, uids>>
      PROVE  Ownership!Next
  <2> DEFINE n == c.at
             k == c.new.owner
             i == c.new.uid
  <2>1. /\ n \in Paths /\ paths[n] = c.old /\ paths' = [paths EXCEPT ![n] = c.new]
        /\ SoundPut(c) /\ c.new \in ComputedPath /\ c.new # None
    BY <1>0, <1>6, CallTypes, TakenIsSound DEF TakePath
  <2>2. k \in Policies /\ i \in 1 .. uids[k]
    <3>1. k \in Policies /\ i \in Nat /\ i # 0
      BY <2>1 DEF ComputedPath, Uid
    <3>2. uids[k] \in Nat /\ i <= uids[k]
      BY <1>0, <2>1, <3>1 DEF SoundPut, StoreOK
    <3> QED
      BY <3>1, <3>2
  <2>3. AbsLive' = AbsLive /\ AbsPromised' = AbsPromised
    BY <1>6 DEF AbsLive, AbsPromised
  <2>4. AbsOwner' = [AbsOwner EXCEPT ![n] = [key |-> k, inc |-> i]]
    BY <1>0, <2>1 DEF StoreOK, AbsOwner
  <2>5. AbsOwner[n] = None \/ (AbsOwner[n].key = k /\ AbsOwner[n].inc <= i)
    BY <2>1 DEF AbsOwner, SoundPut
  <2>6. Ownership!Claim(k, n, i)
    BY <1>6, <2>3, <2>4, <2>5 DEF Ownership!Claim
  <2> QED
    BY <2>1, <2>2, <2>6 DEF Ownership!Next
<1>9. ASSUME NEW n \in Paths, GarbageCollect(n) PROVE Ownership!Collect(n)
  <2>1. /\ paths[n] # None /\ paths[n] \in ComputedPath
        /\ paths' = [paths EXCEPT ![n] = None]
        /\ UNCHANGED <<policy, uids>>
    BY <1>0, <1>9 DEF GarbageCollect, StoreOK
  <2>2. AbsOwner[n] = [key |-> paths[n].owner, inc |-> paths[n].uid]
    BY <2>1 DEF AbsOwner
  <2>3. paths[n].owner \in Policies /\ paths[n].uid \in Nat
    BY <2>1 DEF ComputedPath, Uid
  <2>4. AbsOwner[n] # None
    BY <2>2, <2>3
  <2>5. AbsLive[paths[n].owner] # paths[n].uid
    BY <1>9, <2>1, <2>3 DEF GarbageCollect, OwnedBy, AbsLive
  <2>6. AbsOwner' = [AbsOwner EXCEPT ![n] = None]
    BY <1>0, <2>1 DEF StoreOK, AbsOwner
  <2>7. AbsLive' = AbsLive /\ AbsPromised' = AbsPromised
    BY <2>1 DEF AbsLive, AbsPromised
  <2> QED
    BY <2>1, <2>2, <2>4, <2>5, <2>6, <2>7 DEF Ownership!Collect
<1>10. CASE UserStep
  BY <1>2, <1>3, <1>4, <1>10 DEF UserStep, Ownership!Next
<1>11. policy' # policy \/ uids' # uids => Ownership!Next \/ UNCHANGED Ownership!vars
  BY <1>0, <1>5, <1>10, PolicyMoves
<1>12. paths' # paths => Ownership!Next
  BY <1>0, <1>6, <1>9, PathMoves DEF Ownership!Next
<1> QED
  BY <1>1, <1>11, <1>12

(* The controller implements PathOwnership for any constants.              *)
THEOREM Implementation == Spec => ImplementsPathOwnership
BY OwnershipInit, OwnershipStep, Inductive, PTL DEF Spec, ImplementsPathOwnership, Ownership!Spec

=============================================================================
