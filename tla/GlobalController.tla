-------------------------- MODULE GlobalController --------------------------
(***************************************************************************)
(* The Global Controller: ScionPathPolicyReconciler with its informer      *)
(* caches and its work queue, beside the API server it writes to, the      *)
(* users, the SCION control service and the garbage collector.             *)
(*                                                                         *)
(* Reads go to the caches (polCache, pathCache, peers), which lag behind   *)
(* the API server; writes go to the API server (policy, paths) and succeed *)
(* only when what the controller read is still what is stored.  One        *)
(* reconcile runs at a time; every call that leaves the process is a step  *)
(* of its own, so that anything may happen between two of them.  A call    *)
(* whose reply does not come is astray: the controller goes on, and the    *)
(* call may still reach the API server later, or never.                    *)
(***************************************************************************)
EXTENDS Watches

CONSTANTS
    HasScionClient,  \* the ScionClient field of the reconciler is set
    StatusWritable,  \* RBAC grants update on scionpathpolicies/status
    MaxUid,          \* bound: how often a policy name is created
    MaxGen,          \* bound: the generation user updates may reach
    MaxVer,          \* bound: path rotations per AS
    MaxFaults        \* bound: calls that fail or go astray, and restarts

ASSUME ControllerAssumption ==
    /\ HasScionClient \in BOOLEAN
    /\ StatusWritable \in BOOLEAN
    /\ {MaxUid, MaxGen, MaxVer, MaxFaults} \subseteq Nat

VARIABLES
    policy,     \* API server: the ScionPathPolicies
    uids,       \* API server: UIDs given out so far, per policy name
    paths,      \* API server: the ScionComputedPaths
    scion,      \* SCION control service: the path to each AS
    polCache,   \* informer cache of policies
    pathCache,  \* informer cache of computed paths
    peers,      \* informer cache of ScionClusterPeers
    pod,        \* informer cache of pods: "absent", "noIP" or "hasIP"
    queue,      \* work queue: keys ready to be reconciled
    later,      \* work queue: keys to be added after a delay
    pc,         \* what the running Reconcile does next
    req,        \* its request
    pol,        \* policy, as read at its start
    listed,     \* peers.Items
    todo,       \* the peers the loop has not visited
    allReady,   \* allPathsReady
    cur, hop,   \* the loop's peer and what FetchPath returned for it
    latePol,    \* astray Updates of policies
    latePaths,  \* astray Creates and Updates of computed paths
    faults      \* faults injected so far

store  == <<policy, uids, paths, scion>>
caches == <<polCache, pathCache, peers, pod>>
work   == <<queue, later>>
frame  == <<pc, req, pol, listed, todo, allReady, cur, hop>>
net    == <<latePol, latePaths, faults>>
vars   == <<store, caches, work, frame, net>>

NoPeers == [q \in Peers |-> None]

(* A write: the object's name, what the writer has read there (which stands *)
(* for its resourceVersion), and what it leaves behind: None is a removal.  *)
PolicyCall == [at : Policies, old : Policy, new : Policy \cup {None}]
PathCall   == [at : Paths, old : ComputedPath \cup {None}, new : ComputedPath]

StoreOK ==
    /\ policy \in [Policies -> Policy \cup {None}]
    /\ uids \in [Policies -> Nat]
    /\ paths \in [Paths -> ComputedPath \cup {None}]
    /\ scion \in [ASes -> [up : BOOLEAN, ver : Nat]]

WatchOK ==
    /\ polCache \in [Policies -> Policy \cup {None}]
    /\ pathCache \in [Paths -> ComputedPath \cup {None}]
    /\ peers \in [Peers -> PeerSpecs \cup {None}]
    /\ pod \in [Pods -> {"absent", "noIP", "hasIP"}]
    /\ queue \subseteq Keys
    /\ later \subseteq Keys

NetOK ==
    /\ latePol \subseteq PolicyCall
    /\ latePaths \subseteq PathCall
    /\ faults \in Nat

FrameOK ==
    /\ pc \in {"idle", "unfinalize", "finalize", "loop", "write"}
    /\ req \in Policies \cup {None}
    /\ pol \in Policy \cup {None}
    /\ listed \in [Peers -> PeerSpecs \cup {None}]
    /\ todo \subseteq {q \in Peers : listed[q] # None}
    /\ allReady \in BOOLEAN
    /\ cur \in Peers \cup {None}
    /\ hop \in Hop \cup {None}
    /\ pc # "idle" => req # None /\ pol # None
    /\ pc = "write" => cur # None /\ hop # None /\ listed[cur] # None

TypeOK == StoreOK /\ WatchOK /\ FrameOK /\ NetOK

Init ==
    /\ policy = [k \in Policies |-> None]
    /\ uids = [k \in Policies |-> 0]
    /\ paths = [n \in Paths |-> None]
    /\ scion = [a \in ASes |-> [up |-> FALSE, ver |-> 0]]
    /\ polCache = policy
    /\ pathCache = paths
    /\ peers = NoPeers
    /\ pod = [x \in Pods |-> "absent"]
    /\ queue = {}
    /\ later = {}
    /\ pc = "idle"
    /\ req = None
    /\ pol = None
    /\ listed = NoPeers
    /\ todo = {}
    /\ allReady = TRUE
    /\ cur = None
    /\ hop = None
    /\ latePol = {}
    /\ latePaths = {}
    /\ faults = 0

-----------------------------------------------------------------------------
(* Users, operators, pods and the SCION control service.                   *)

(* kubectl apply of a new policy. *)
CreatePolicy(k, s) ==
    /\ policy[k] = None
    /\ uids[k] < MaxUid
    /\ uids' = [uids EXCEPT ![k] = @ + 1]
    /\ policy' = [policy EXCEPT ![k] =
         [uid |-> uids[k] + 1, gen |-> 1, deleting |-> FALSE,
          finalizer |-> FALSE, spec |-> s, ready |-> None]]
    /\ UNCHANGED <<paths, scion, caches, work, frame, net>>

(* The API server bumps the generation when spec or deletion mark change.  *)
Bumped(p) == [p EXCEPT !.gen = p.gen + 1]

(* kubectl apply of a changed spec.                                        *)
UpdatePolicy(k, s) ==
    /\ policy[k] # None
    /\ policy[k].spec # s
    /\ policy[k].gen < MaxGen
    /\ policy' = [policy EXCEPT ![k] = [Bumped(policy[k]) EXCEPT !.spec = s]]
    /\ UNCHANGED <<uids, paths, scion, caches, work, frame, net>>

(* kubectl delete: with a finalizer the object stays, marked; without one  *)
(* it is gone.                                                             *)
DeletePolicy(k) ==
    /\ policy[k] # None
    /\ ~policy[k].deleting
    /\ policy' = [policy EXCEPT ![k] =
         IF policy[k].finalizer
           THEN [Bumped(policy[k]) EXCEPT !.deleting = TRUE] ELSE None]
    /\ UNCHANGED <<uids, paths, scion, caches, work, frame, net>>

(* A ScionClusterPeer is applied, changed or deleted.  The watch has no    *)
(* predicate and enqueues the name of the peer itself.                     *)
SetPeer(q, v) ==
    /\ peers[q] # v
    /\ peers' = [peers EXCEPT ![q] = v]
    /\ queue' = queue \cup {PeerKey[q]}
    /\ UNCHANGED <<store, polCache, pathCache, pod, later, frame, net>>

(* A pod is seen with a new status; the handler maps the event to policies.*)
PodEvent(x, v) ==
    /\ pod[x] # v
    /\ pod' = [pod EXCEPT ![x] = v]
    /\ queue' = IF PodIPAssigned(pod[x], v) THEN queue \cup PodToPolicies(x, polCache)
                                            ELSE queue
    /\ UNCHANGED <<store, polCache, pathCache, peers, later, frame, net>>

(* The control service has computed the path to a. *)
ScionUp(a) ==
    /\ ~scion[a].up
    /\ scion' = [scion EXCEPT ![a].up = TRUE]
    /\ UNCHANGED <<policy, uids, paths, caches, work, frame, net>>

(* The path to a expires; the next one is ready at once or later.          *)
ScionRotate(a, ready) ==
    /\ scion[a].ver < MaxVer
    /\ scion' = [scion EXCEPT ![a] = [up |-> ready, ver |-> @.ver + 1]]
    /\ UNCHANGED <<policy, uids, paths, caches, work, frame, net>>

(* The garbage collector deletes a path whose owner incarnation is gone.   *)
GarbageCollect(n) ==
    /\ paths[n] # None
    /\ ~OwnedBy(paths[n], paths[n].owner, policy[paths[n].owner])
    /\ paths' = [paths EXCEPT ![n] = None]
    /\ UNCHANGED <<policy, uids, scion, caches, work, frame, net>>

-----------------------------------------------------------------------------
(* Watches.                                                                *)

(* The cache shows an earlier incarnation of the policy k. *)
Recreated(k) ==
    policy[k] # None /\ polCache[k] # None /\ ~Same(polCache[k], policy[k])

(* The informer catches up with the policy k and the handler filters the   *)
(* event by generation.  A name deleted and created again gives a Delete   *)
(* and a Create, or one Update when the watch broke and the list is read   *)
(* again.                                                                  *)
SyncPolicy(k) ==
    /\ polCache[k] # policy[k]
    /\ \E new \in IF Recreated(k) THEN {policy[k], None} ELSE {policy[k]} :
         /\ polCache' = [polCache EXCEPT ![k] = new]
         /\ queue' = IF GenerationChanged(polCache[k], new) THEN queue \cup {k} ELSE queue
    /\ UNCHANGED <<store, pathCache, peers, pod, later, frame, net>>

(* Nothing Owns or Watches ScionComputedPaths: their cache only serves the *)
(* Get of CreateOrUpdate.                                                  *)
SyncPath(n) ==
    /\ pathCache[n] # paths[n]
    /\ pathCache' = [pathCache EXCEPT ![n] = paths[n]]
    /\ UNCHANGED <<store, polCache, peers, pod, work, frame, net>>

TimerFires(k) ==
    /\ k \in later
    /\ later' = later \ {k}
    /\ queue' = queue \cup {k}
    /\ UNCHANGED <<store, caches, frame, net>>

-----------------------------------------------------------------------------
(* Reconcile.                                                              *)

(* Reconcile returns and its locals are gone. *)
Return ==
    /\ pc' = "idle"
    /\ req' = None
    /\ pol' = None
    /\ listed' = NoPeers
    /\ todo' = {}
    /\ allReady' = TRUE
    /\ cur' = None
    /\ hop' = None

(* Mutant: the error is logged and swallowed. *)
SwallowError == Return /\ UNCHANGED later

(* It returns an error or RequeueAfter. *)
Requeue == Return /\ later' = later \cup {req}

(* A call fails in Reconcile's eyes, whatever becomes of it. *)
Fails == faults < MaxFaults /\ faults' = faults + 1 /\ Requeue

Enter(step, k) ==
    /\ pc' = step
    /\ req' = k
    /\ pol' = polCache[k]
    /\ allReady' = TRUE
    /\ cur' = None
    /\ hop' = None

(* A policy that is not found, or is being deleted without the finalizer.  *)
NothingToDo(k) ==
    k \in Policies =>
        polCache[k] = None \/ (polCache[k].deleting /\ ~polCache[k].finalizer)

(* Mutant: no finalizer is added. *)
DispatchWithoutFinalizer(k) ==
    IF polCache[k].deleting
      THEN Enter("unfinalize", k) /\ listed' = NoPeers /\ todo' = {}
      ELSE Enter("loop", k) /\ listed' = peers /\ todo' = {q \in Peers : peers[q] # None}

(* What Reconcile does with any other policy: its early returns in their   *)
(* order, and for the loop the List of the peers.                          *)
Dispatch(k) ==
    LET p == polCache[k]
    IN  \/ /\ p.deleting
           /\ Enter("unfinalize", k) /\ listed' = NoPeers /\ todo' = {}
        \/ /\ ~p.deleting /\ ~p.finalizer
           /\ Enter("finalize", k) /\ listed' = NoPeers /\ todo' = {}
        \/ /\ ~p.deleting /\ p.finalizer
           /\ Enter("loop", k) /\ listed' = peers
           /\ todo' = {q \in Peers : peers[q] # None}

(* A worker takes k from the queue and Reconcile gets k from the cache.    *)
StartReconcile(k) ==
    /\ pc = "idle"
    /\ k \in queue
    /\ queue' = queue \ {k}
    /\ IF NothingToDo(k) THEN UNCHANGED frame ELSE Dispatch(k)
    /\ UNCHANGED <<store, caches, later, net>>

(* The Get of the policy, or the List of the peers, returns an error other *)
(* than NotFound, before anything is written.                              *)
ReadFails(k) ==
    /\ pc = "idle"
    /\ k \in queue
    /\ faults < MaxFaults
    /\ faults' = faults + 1
    /\ queue' = queue \ {k}
    /\ later' = later \cup {k}
    /\ UNCHANGED <<store, caches, frame, latePol, latePaths>>

(* Mutant: a forced apply, whatever the API server holds. *)
ForcePath(c) == paths' = [paths EXCEPT ![c.at] = c.new]

(* The API server takes a write when what was read is still what it holds. *)
TakePath(c) == paths[c.at] = c.old /\ paths' = [paths EXCEPT ![c.at] = c.new]

(* Mutant: an Update without resourceVersion; only the UID is compared.    *)
ForcePolicy(c) == Same(policy[c.at], c.old) /\ policy' = [policy EXCEPT ![c.at] = c.new]

TakePolicy(c) == policy[c.at] = c.old /\ policy' = [policy EXCEPT ![c.at] = c.new]

(* Reconcile's Update of the policy it has read, to v: it is taken and     *)
(* Reconcile returns, or it goes astray.                                   *)
PolicyWrite(v) == [at |-> req, old |-> pol, new |-> v]

Update(v) ==
    /\ \/ TakePolicy(PolicyWrite(v)) /\ Return /\ UNCHANGED <<later, net>>
       \/ /\ Fails
          /\ latePol' = latePol \cup {PolicyWrite(v)}
          /\ UNCHANGED <<policy, latePaths>>
    /\ UNCHANGED <<uids, paths, scion, caches, queue>>

(* The last finalizer of a policy that is being deleted goes, and so does  *)
(* the policy.                                                             *)
RemoveFinalizer == pc = "unfinalize" /\ Update(None)

AddFinalizer == pc = "finalize" /\ Update([pol EXCEPT !.finalizer = TRUE])

(* Mutant: no panic, the empty preference is passed on. *)
CanFetchAnything == HasScionClient

(* FetchPath of the next peer can be called: the client is there and the   *)
(* preference can be dereferenced.                                         *)
CanFetch == HasScionClient /\ pol.spec.pref # NoPref

(* Mutant: the loop forgets that it skipped a peer. *)
SkipSilently == UNCHANGED <<pc, cur, hop, allReady>>

(* The peer has no path yet: go on with the others. *)
SkipPeer == allReady' = FALSE /\ UNCHANGED <<pc, cur, hop>>

(* One turn of the loop: ask for the path to the peer.                     *)
FetchPath(q) ==
    LET a == listed[q].as
    IN  /\ pc = "loop"
        /\ q \in todo
        /\ CanFetch
        /\ todo' = todo \ {q}
        /\ IF scion[a].up
             THEN /\ pc' = "write"
                  /\ cur' = q
                  /\ hop' = [as |-> a, pref |-> pol.spec.pref, ver |-> scion[a].ver]
                  /\ UNCHANGED allReady
             ELSE SkipPeer
        /\ UNCHANGED <<store, caches, work, req, pol, listed, net>>

(* Mutant: the peer is read again when its path is written. *)
DesiredFromCache ==
    [owner |-> req, uid |-> pol.uid, hop |-> hop,
     cidr |-> IF peers[cur] = None THEN listed[cur].cidr ELSE peers[cur].cidr]

(* The computed path the mutate function of CreateOrUpdate leaves behind.  *)
Desired == [owner |-> req, uid |-> pol.uid, cidr |-> listed[cur].cidr, hop |-> hop]

(* Mutant: the owner reference is set without SetControllerReference. *)
MayOwnAnything(x) == TRUE

(* SetControllerReference takes a path that has no controller, or whose    *)
(* controller has this policy's name, whatever its UID.                    *)
MayOwn(x) == x # None => x.owner = req

(* What CreateOrUpdate sends: a Create when the cache has no path, else an *)
(* Update of the cached one, unless that is already the desired one.       *)
PathWrite ==
    LET n == PathName[req][cur] IN [at |-> n, old |-> pathCache[n], new |-> Desired]

(* The loop writes the path and goes on to the next peer, or fails there.  *)
WritePath ==
    LET c == PathWrite
    IN  /\ pc = "write"
        /\ MayOwn(c.old)
        /\ \/ /\ IF c.old = c.new THEN UNCHANGED paths ELSE TakePath(c)
              /\ pc' = "loop"
              /\ cur' = None
              /\ hop' = None
              /\ UNCHANGED <<req, pol, listed, todo, allReady, later, net>>
           \/ /\ c.old # c.new
              /\ Fails
              /\ latePaths' = latePaths \cup {c}
              /\ UNCHANGED <<paths, latePol>>
        /\ UNCHANGED <<policy, uids, scion, caches, queue>>

(* Mutant: missing paths are not tried again. *)
GiveUp ==
    /\ pc = "loop" /\ todo = {} /\ ~allReady
    /\ Return
    /\ UNCHANGED <<store, caches, work, net>>

(* Some path was missing: try again after ten seconds. *)
NotReady ==
    /\ pc = "loop"
    /\ todo = {}
    /\ ~allReady
    /\ Requeue
    /\ UNCHANGED <<store, caches, queue, net>>

(* The status update of a policy whose paths are all there. *)
ReadyCondition == [gen |-> pol.gen, dests |-> {q \in Peers : listed[q] # None}]

UpdateStatus ==
    /\ pc = "loop"
    /\ todo = {}
    /\ allReady
    /\ StatusWritable
    /\ Update([pol EXCEPT !.ready = ReadyCondition])

-----------------------------------------------------------------------------
(* Failures.                                                               *)

(* The next call is answered with an error: a conflict or an object that   *)
(* is gone or already there, a path with another controller, a forbidden   *)
(* status, or a nil dereference, which controller-runtime recovers.        *)
Refused ==
    \/ pc \in {"unfinalize", "finalize"} /\ policy[req] # pol
    \/ pc = "loop" /\ todo # {} /\ ~CanFetch
    \/ pc = "loop" /\ todo = {} /\ allReady /\ (~StatusWritable \/ policy[req] # pol)
    \/ /\ pc = "write"
       /\ LET c == PathWrite
          IN  c.old # c.new /\ (paths[c.at] # c.old \/ ~MayOwn(c.old))

CallRefused ==
    /\ Refused
    /\ Requeue
    /\ UNCHANGED <<store, caches, queue, net>>

(* FetchPath returns an error. *)
FetchFails ==
    /\ pc = "loop"
    /\ todo # {}
    /\ CanFetch
    /\ Fails
    /\ UNCHANGED <<store, caches, queue, latePol, latePaths>>

(* An astray call reaches the API server at last, and is taken. *)
LandPolicy(c) ==
    /\ TakePolicy(c)
    /\ latePol' = latePol \ {c}
    /\ UNCHANGED <<uids, paths, scion, caches, work, frame, latePaths, faults>>

LandPath(c) ==
    /\ TakePath(c)
    /\ latePaths' = latePaths \ {c}
    /\ UNCHANGED <<policy, uids, scion, caches, work, frame, latePol, faults>>

(* The process dies, or loses the leadership, and the next one fills its   *)
(* caches and queue from scratch, with lists that may be as old as what    *)
(* its predecessor has seen.  Calls that are astray stay so.               *)
Restart ==
    /\ faults < MaxFaults
    /\ faults' = faults + 1
    /\ \E new \in SUBSET Policies :
         polCache' = [k \in Policies |-> IF k \in new THEN policy[k] ELSE polCache[k]]
    /\ \E new \in SUBSET Paths :
         pathCache' = [n \in Paths |-> IF n \in new THEN paths[n] ELSE pathCache[n]]
    /\ queue' = InitialRequests(polCache', peers, pod)
    /\ later' = {}
    /\ Return
    /\ UNCHANGED <<store, peers, pod, latePol, latePaths>>

-----------------------------------------------------------------------------
Environment ==
    \/ \E k \in Policies, s \in PolicySpecs : CreatePolicy(k, s) \/ UpdatePolicy(k, s)
    \/ \E k \in Policies : DeletePolicy(k)
    \/ \E q \in Peers, v \in PeerSpecs \cup {None} : SetPeer(q, v)
    \/ \E x \in Pods, v \in {"absent", "noIP", "hasIP"} : PodEvent(x, v)
    \/ \E a \in ASes : ScionUp(a) \/ \E ready \in BOOLEAN : ScionRotate(a, ready)
    \/ \E n \in Paths : GarbageCollect(n)

Delivery ==
    \/ \E k \in Policies : SyncPolicy(k)
    \/ \E n \in Paths : SyncPath(n)
    \/ \E k \in Keys : TimerFires(k)
    \/ \E c \in latePol : LandPolicy(c)
    \/ \E c \in latePaths : LandPath(c)

(* The steps of a Reconcile that has started. *)
ReconcileStep ==
    \/ RemoveFinalizer \/ AddFinalizer
    \/ \E q \in Peers : FetchPath(q)
    \/ WritePath \/ NotReady \/ UpdateStatus \/ CallRefused

Next ==
    \/ Environment
    \/ Delivery
    \/ \E k \in Keys : StartReconcile(k) \/ ReadFails(k)
    \/ ReconcileStep
    \/ FetchFails \/ Restart

Spec == Init /\ [][Next]_vars

(* The queue is first-in first-out, so a key that keeps being added gets   *)
(* its turn; watches deliver, delays end, calls return, paths get computed.*)
Fairness ==
    /\ \A k \in Policies : WF_vars(SyncPolicy(k))
    /\ \A n \in Paths : WF_vars(SyncPath(n)) /\ WF_vars(GarbageCollect(n))
    /\ \A k \in Policies : SF_vars(StartReconcile(k)) /\ WF_vars(TimerFires(k))
    /\ \A a \in ASes : WF_vars(ScionUp(a))
    /\ WF_vars(ReconcileStep)

FairSpec == Spec /\ Fairness
=============================================================================
