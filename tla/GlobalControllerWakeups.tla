------------------------ MODULE GlobalControllerWakeups ------------------------
(***************************************************************************)
(* No wake-up of the Global Controller is lost: the safety part of its     *)
(* liveness, and what its Updates and its map function do to users, for    *)
(* any number of policies, peers, pods and faults.                         *)
(***************************************************************************)
EXTENDS GlobalControllerProofs

-----------------------------------------------------------------------------
(* The inductive invariant, on top of IInv.                                *)

(* A generation has one spec and one deletion mark, and the cache is never *)
(* ahead of the API server: what it missed has a newer generation.         *)
CacheKnowsGeneration ==
    \A k \in Policies : Same(polCache[k], policy[k]) =>
        /\ polCache[k].gen <= policy[k].gen
        /\ polCache[k].gen = policy[k].gen =>
              /\ polCache[k].spec = policy[k].spec
              /\ polCache[k].deleting = policy[k].deleting

(* The finalizer comes before everything that is done for a policy, and    *)
(* before a deletion that waits for it.                                    *)
FinalizerFirst ==
    /\ \A k \in Policies :
          /\ polCache[k] # None /\ polCache[k].deleting => polCache[k].finalizer
          /\ policy[k] # None /\ (policy[k].deleting \/ policy[k].ready # None) =>
                policy[k].finalizer
    /\ \A n \in Paths, k \in Policies :
          OwnedBy(paths[n], k, policy[k]) => policy[k].finalizer
    /\ \A c \in latePaths, k \in Policies :
          OwnedBy(c.new, k, policy[k]) => policy[k].finalizer

(* The cache has heard of the incarnation that is stored.  That comes      *)
(* before the finalizer: the controller adds it to what it has read.       *)
CacheKnows(k) == Same(polCache[k], policy[k])

KnownFirst ==
    /\ \A k \in Policies : policy[k] # None /\ policy[k].finalizer => CacheKnows(k)
    /\ pc # "idle" /\ Same(pol, policy[req]) => CacheKnows(req)
    /\ \A c \in latePol : Same(c.old, policy[c.at]) => CacheKnows(c.at)

(* An Update that leaves spec, generation and deletion mark as they were   *)
(* read, and reports as Ready the generation it leaves.                    *)
FaithfulUpdate(c) ==
    c.new # None =>
        /\ c.new.gen = c.old.gen
        /\ c.new.spec = c.old.spec
        /\ c.new.ready # c.old.ready =>
              c.old.finalizer /\ c.new.ready.gen = c.new.gen

UpdatesFaithful ==
    /\ \A c \in latePol : FaithfulUpdate(c)
    /\ pc = "finalize" => ~pol.deleting /\ ~pol.finalizer

(* ComputationIsPending, where paths that are still under way count too.   *)
Begun(k) == Started(k) \/ \E c \in latePaths : OwnedBy(c.new, k, policy[k])

BegunIsPending ==
    \A k \in Policies : Settled(policy[k]) /\ Begun(k) /\ ~Reconciled(k) => Pending(k)

WInv ==
    /\ IInv
    /\ CacheKnowsGeneration
    /\ FinalizerFirst
    /\ KnownFirst
    /\ UpdatesFaithful
    /\ DeletionIsPending
    /\ BegunIsPending

-----------------------------------------------------------------------------
(* What a step does to a policy that stays.                                *)

(* Its users change it, and it gets a new generation. *)
Touched(k) ==
    /\ policy'[k].gen > policy[k].gen
    /\ policy'[k].deleting => policy[k].deleting \/ policy[k].finalizer
    /\ policy'[k].finalizer = policy[k].finalizer
    /\ policy'[k].ready = policy[k].ready

(* The controller updates it, or nothing happens to it. *)
Updated(k) ==
    /\ policy'[k].gen = policy[k].gen
    /\ policy'[k].spec = policy[k].spec
    /\ policy'[k].deleting = policy[k].deleting
    /\ policy'[k].ready # policy[k].ready =>
          policy[k].finalizer /\ policy'[k].ready.gen = policy'[k].gen
    /\ policy'[k].finalizer # policy[k].finalizer => CacheKnows(k)

LEMMA GenTypes ==
    ASSUME TypeOK, NEW k \in Policies
    PROVE  /\ policy[k] # None => policy[k].gen \in Nat
           /\ polCache[k] # None => polCache[k].gen \in Nat
BY DEF TypeOK, StoreOK, WatchOK, Policy

LEMMA IssuedIsFaithful ==
    ASSUME WInv, NEW c, Issues(c)
    PROVE  FaithfulUpdate(c)
<1>1. pol \in Policy /\ c.old = pol
  BY IssuedType, Held DEF WInv, IInv
<1>2. CASE RemoveFinalizer /\ c = PolicyWrite(None)
  BY <1>2 DEF PolicyWrite, FaithfulUpdate
<1>3. CASE AddFinalizer /\ c = PolicyWrite([pol EXCEPT !.finalizer = TRUE])
  <2>1. c.new = [pol EXCEPT !.finalizer = TRUE]
    BY <1>3 DEF PolicyWrite
  <2>2. c.new.gen = pol.gen /\ c.new.spec = pol.spec /\ c.new.ready = pol.ready
    BY <1>1, <2>1 DEF Policy
  <2> QED
    BY <1>1, <2>2 DEF FaithfulUpdate
<1>4. CASE UpdateStatus /\ c = PolicyWrite([pol EXCEPT !.ready = ReadyCondition])
  <2>1. c.new = [pol EXCEPT !.ready = ReadyCondition]
    BY <1>4 DEF PolicyWrite
  <2>2. c.new.gen = pol.gen /\ c.new.spec = pol.spec /\ c.new.ready.gen = pol.gen
    BY <1>1, <2>1 DEF Policy, ReadyCondition
  <2>3. pol.finalizer
    BY <1>4 DEF UpdateStatus, WInv, IInv, PolicyHeld, Settled
  <2> QED
    BY <1>1, <2>2, <2>3 DEF FaithfulUpdate
<1> QED
  BY <1>2, <1>3, <1>4 DEF Issues

LEMMA EditStep ==
    ASSUME WInv, [Next]_vars, NEW k \in Policies, Same(policy[k], policy'[k])
    PROVE  Touched(k) \/ Updated(k)
<1> USE NoneAssumption DEF TypeOK, StoreOK
<1>0. TypeOK /\ policy[k] # None /\ policy'[k] # None /\ policy[k] \in Policy
      /\ policy[k].gen \in Nat
  BY GenTypes DEF WInv, IInv, Same
<1>1. CASE policy'[k] = policy[k]
  BY <1>1 DEF Updated
<1>2. ASSUME NEW j \in Policies, NEW s \in PolicySpecs, CreatePolicy(j, s)
      PROVE  policy'[k] = policy[k]
  BY <1>0, <1>2 DEF CreatePolicy
<1>3. ASSUME NEW s \in PolicySpecs, UpdatePolicy(k, s)
      PROVE  Touched(k)
  <2>1. policy'[k] = [Bumped(policy[k]) EXCEPT !.spec = s]
    BY <1>0, <1>3 DEF UpdatePolicy
  <2>2. /\ policy'[k].gen = policy[k].gen + 1
        /\ policy'[k].deleting = policy[k].deleting
        /\ policy'[k].finalizer = policy[k].finalizer
        /\ policy'[k].ready = policy[k].ready
    BY <1>0, <2>1 DEF Bumped, Policy
  <2> QED
    BY <1>0, <2>2 DEF Touched
<1>4. CASE DeletePolicy(k)
  <2>1. policy[k].finalizer /\ policy'[k] = [Bumped(policy[k]) EXCEPT !.deleting = TRUE]
    BY <1>0, <1>4 DEF DeletePolicy
  <2>2. /\ policy'[k].gen = policy[k].gen + 1
        /\ policy'[k].finalizer = policy[k].finalizer
        /\ policy'[k].ready = policy[k].ready
    BY <1>0, <2>1 DEF Bumped, Policy
  <2>3. policy'[k].deleting => policy[k].deleting \/ policy[k].finalizer
    BY <2>1
  <2>4. policy'[k].gen > policy[k].gen
    BY <1>0, <2>2
  <2> QED
    BY <2>2, <2>3, <2>4 DEF Touched
<1>5. ASSUME NEW j \in Policies, j # k,
             DeletePolicy(j) \/ \E s \in PolicySpecs : UpdatePolicy(j, s)
      PROVE  policy'[k] = policy[k]
  BY <1>0, <1>5 DEF DeletePolicy, UpdatePolicy
<1>6. ASSUME NEW c \in PolicyCall, c \in latePol \/ Issues(c), TakePolicy(c), c.at = k
      PROVE  Updated(k)
  <2>1. policy'[k] = c.new /\ policy[k] = c.old
    BY <1>0, <1>6 DEF TakePolicy
  <2>2. FaithfulUpdate(c) /\ SoundUpdate(c)
    BY <1>6, IssuedIsFaithful, TakenIsSound DEF WInv, UpdatesFaithful
  <2>3. Same(c.old, policy[k])
    BY <1>0, <2>1 DEF Same
  <2>4. CacheKnows(k)
    BY <1>0, <1>6, <2>3, IssuedType DEF WInv, KnownFirst
  <2> QED
    BY <1>0, <2>1, <2>2, <2>4 DEF FaithfulUpdate, SoundUpdate, Updated
<1>7. ASSUME NEW c \in PolicyCall, TakePolicy(c), c.at # k PROVE policy'[k] = policy[k]
  BY <1>0, <1>7 DEF TakePolicy
<1> QED
  BY <1>0, <1>1, <1>2, <1>3, <1>4, <1>5, <1>6, <1>7, PolicyMoves DEF UserStep

-----------------------------------------------------------------------------
(* The conjuncts about generations, finalizers and Updates are kept.       *)
LEMMA GenerationStep == WInv /\ [Next]_vars => CacheKnowsGeneration'
<1> SUFFICES ASSUME WInv, [Next]_vars, NEW k \in Policies, Same(polCache'[k], policy'[k])
             PROVE  /\ polCache'[k].gen <= policy'[k].gen
                    /\ polCache'[k].gen = policy'[k].gen =>
                          /\ polCache'[k].spec = policy'[k].spec
                          /\ polCache'[k].deleting = policy'[k].deleting
  BY DEF CacheKnowsGeneration
<1>0. TypeOK /\ TypeOK'
  BY TypeStep DEF WInv, IInv
<1>1. CASE policy' = policy /\ polCache'[k] \in {policy[k], None}
  BY <1>0, <1>1, GenTypes DEF Same
<1>2. CASE polCache'[k] = polCache[k]
  <2>1. ~Appears(k)
    BY <1>0, <1>2, UidTypes DEF Appears, Same, WInv, IInv, UidsKnown
  <2>2. Stays(k)
    BY <2>1, PolicyStep DEF Disappears, Same, WInv
  <2>3. Same(policy[k], policy'[k]) /\ Same(polCache[k], policy[k])
    BY <1>2, <2>2 DEF Stays, Same
  <2>4. /\ polCache[k].gen <= policy[k].gen
        /\ polCache[k].gen = policy[k].gen =>
              /\ polCache[k].spec = policy[k].spec
              /\ polCache[k].deleting = policy[k].deleting
    BY <2>3 DEF WInv, CacheKnowsGeneration
  <2>5. policy[k].gen \in Nat /\ policy'[k].gen \in Nat /\ polCache[k].gen \in Nat
    BY <1>0, <2>3 DEF Same, TypeOK, StoreOK, WatchOK, Policy
  <2> QED
    BY <1>2, <2>3, <2>4, <2>5, EditStep DEF Touched, Updated
<1> QED
  BY <1>0, <1>1, <1>2, CacheMoves

(* Where a path comes from that is stored, or under way, after a step.     *)
LEMMA PathOrigin ==
    ASSUME TypeOK, [Next]_vars
    PROVE  /\ \A n \in Paths : paths'[n] # None =>
                 \/ paths'[n] = paths[n]
                 \/ \E c \in latePaths : paths'[n] = c.new
                 \/ WritePath /\ paths'[n] = Desired
           /\ \A d \in latePaths' : d \in latePaths \/ (WritePath /\ d.new = Desired)
<1>1. ASSUME NEW n \in Paths, NEW m \in Paths, GarbageCollect(m), paths'[n] # None
      PROVE  paths'[n] = paths[n]
  BY <1>1 DEF GarbageCollect, TypeOK, StoreOK
<1>2. PathWrite.new = Desired
  BY DEF PathWrite
<1>3. ASSUME NEW n \in Paths, NEW c \in PathCall, TakePath(c)
      PROVE  paths'[n] = paths[n] \/ paths'[n] = c.new
  BY <1>3 DEF TakePath, TypeOK, StoreOK
<1> QED
  BY <1>1, <1>2, <1>3, PathMoves, CallMoves

(* Whatever a policy owns is of an incarnation that was there before.      *)
LEMMA OwnersStay ==
    ASSUME IInv, [Next]_vars, NEW k \in Policies, NEW x, x # None,
           x.owner \in Policies => x.uid \in Nat /\ x.uid <= uids[x.owner],
           OwnedBy(x, k, policy'[k])
    PROVE  Stays(k) /\ OwnedBy(x, k, policy[k])
<1>1. x.owner = k /\ x.uid = policy'[k].uid /\ policy'[k] # None
  BY DEF OwnedBy
<1>2. x.uid \in Nat /\ x.uid <= uids[k] /\ uids[k] \in Nat
  BY <1>1, UidTypes DEF IInv
<1>3. ~Appears(k)
  BY <1>1, <1>2 DEF Appears
<1>4. Stays(k)
  BY <1>1, <1>3, PolicyStep DEF Disappears
<1> QED
  BY <1>1, <1>4 DEF Stays, OwnedBy

(* What Reconcile writes belongs to the policy it holds.                   *)
LEMMA DesiredIsOwned ==
    ASSUME IInv, WritePath, NEW k \in Policies, OwnedBy(Desired, k, policy'[k])
    PROVE  k = req /\ policy'[k] = policy[k] /\ policy[k].finalizer
<1>1. k = req
  BY DEF OwnedBy, Desired
<1> QED
  BY <1>1 DEF WritePath, IInv, PolicyHeld

(* UIDs of stored paths and of those under way are known after a step.     *)
LEMMA OwnedWasOwned ==
    ASSUME WInv, [Next]_vars, NEW k \in Policies, NEW x, OwnedBy(x, k, policy'[k]),
           \/ \E n \in Paths : x = paths[n]
           \/ \E c \in latePaths : x = c.new
    PROVE  Stays(k) /\ OwnedBy(x, k, policy[k])
<1>1. IInv /\ x # None
  BY DEF WInv, OwnedBy
<1>2. x.owner \in Policies => x.uid \in Nat /\ x.uid <= uids[x.owner]
  <2>1. ASSUME NEW n \in Paths, x = paths[n]
        PROVE  x.uid \in Nat /\ x.uid <= uids[x.owner]
    BY <1>1, <2>1, UidTypes DEF IInv, UidsKnown
  <2>2. ASSUME NEW c \in latePaths, x = c.new
        PROVE  x.uid \in Nat /\ x.uid <= uids[x.owner]
    <3>1. c.new \in ComputedPath /\ SoundPut(c)
      BY <1>1, CallTypes DEF IInv, LateSound
    <3> QED
      BY <2>2, <3>1 DEF SoundPut, ComputedPath, Uid
  <2> QED
    BY <2>1, <2>2
<1> QED
  BY <1>1, <1>2, OwnersStay

LEMMA FinalizerStep == WInv /\ [Next]_vars => FinalizerFirst'
<1> SUFFICES ASSUME WInv, [Next]_vars PROVE FinalizerFirst'
  OBVIOUS
<1>0. IInv /\ TypeOK /\ FinalizerFirst
  BY DEF WInv, IInv
<1>1. ASSUME NEW k \in Policies, polCache'[k] # None, polCache'[k].deleting
      PROVE  polCache'[k].finalizer
  BY <1>0, <1>1, CacheMoves DEF FinalizerFirst
<1>2. ASSUME NEW k \in Policies, policy'[k] # None,
             policy'[k].deleting \/ policy'[k].ready # None
      PROVE  policy'[k].finalizer
  <2>1. Stays(k)
    BY <1>0, <1>2, PolicyStep DEF Appears, Disappears
  <2>2. Touched(k) \/ Updated(k)
    BY <2>1, EditStep DEF Stays, Same
  <2>3. CASE Touched(k)
    BY <1>0, <1>2, <2>1, <2>3 DEF Touched, Stays, FinalizerFirst
  <2>4. CASE Updated(k)
    BY <1>0, <1>2, <2>1, <2>4 DEF Updated, Stays, FinalizerFirst
  <2> QED
    BY <2>2, <2>3, <2>4
<1>3. ASSUME NEW k \in Policies, NEW x, OwnedBy(x, k, policy'[k]),
             \/ \E n \in Paths : x = paths[n]
             \/ \E c \in latePaths : x = c.new
      PROVE  policy'[k].finalizer
  <2>1. Stays(k) /\ OwnedBy(x, k, policy[k])
    BY <1>3, OwnedWasOwned
  <2>2. policy[k].finalizer
    BY <1>0, <1>3, <2>1 DEF FinalizerFirst
  <2> QED
    BY <2>1, <2>2 DEF Stays
<1>4. ASSUME NEW k \in Policies, WritePath, OwnedBy(Desired, k, policy'[k])
      PROVE  policy'[k].finalizer
  BY <1>0, <1>4, DesiredIsOwned
<1>5. ASSUME NEW n \in Paths, NEW k \in Policies, OwnedBy(paths'[n], k, policy'[k])
      PROVE  policy'[k].finalizer
  <2>1. paths'[n] # None
    BY <1>5 DEF OwnedBy
  <2> QED
    BY <1>0, <1>3, <1>4, <1>5, <2>1, PathOrigin
<1>6. ASSUME NEW c \in latePaths', NEW k \in Policies, OwnedBy(c.new, k, policy'[k])
      PROVE  policy'[k].finalizer
  BY <1>0, <1>3, <1>4, <1>6, PathOrigin
<1> QED
  BY <1>1, <1>2, <1>5, <1>6 DEF FinalizerFirst

LEMMA FaithfulStep == WInv /\ [Next]_vars => UpdatesFaithful'
<1> SUFFICES ASSUME WInv, [Next]_vars PROVE UpdatesFaithful'
  OBVIOUS
<1>0. IInv /\ TypeOK /\ UpdatesFaithful
  BY DEF WInv, IInv
<1>1. ASSUME NEW c \in latePol' PROVE FaithfulUpdate(c)
  BY <1>0, CallMoves, IssuedIsFaithful DEF UpdatesFaithful
<1>2. ASSUME pc' = "finalize" PROVE ~pol'.deleting /\ ~pol'.finalizer
  <2>1. CASE UNCHANGED frame
    BY <1>0, <1>2, <2>1 DEF frame, UpdatesFaithful
  <2>2. ASSUME NEW k \in Policies, Dispatch(k)
        PROVE  ~pol'.deleting /\ ~pol'.finalizer
    BY <1>2, <2>2 DEF Dispatch, Enter
  <2>3. ASSUME NEW q \in Peers, FetchPath(q)
        PROVE  ~pol'.deleting /\ ~pol'.finalizer
    BY <1>2, <2>3 DEF FetchPath, SkipPeer
  <2> QED
    BY <1>0, <1>2, <2>1, <2>2, <2>3, FrameMoves DEF Goes, Continues
<1> QED
  BY <1>1, <1>2 DEF UpdatesFaithful, FaithfulUpdate

-----------------------------------------------------------------------------
(* What the cache knows.                                                   *)

(* The cached policy changes when the informer catches up or starts anew.  *)
LEMMA CacheLearns ==
    ASSUME TypeOK, [Next]_vars, NEW k \in Policies, polCache'[k] # polCache[k]
    PROVE  SyncPolicy(k) \/ Restart
<1>1. UNCHANGED caches => polCache' = polCache
  BY DEF caches
<1>2. ASSUME NEW j \in Policies, SyncPolicy(j), j # k PROVE FALSE
  BY <1>2 DEF SyncPolicy, TypeOK, WatchOK
<1>3. CASE UpdateStep
  BY <1>1, <1>3 DEF UpdateStep, RemoveFinalizer, AddFinalizer, UpdateStatus, Update
<1> QED
  BY <1>1, <1>2, <1>3, StepCases
     DEF Quiet, Leave, UserStep, CreatePolicy, UpdatePolicy, DeletePolicy, CacheStep, SyncPath,
         ControllerStep, StartReconcile, FetchPath, WritePath, LandStep, LandPolicy, LandPath,
         GarbageCollect

(* An incarnation the cache has heard of is not forgotten while it is      *)
(* stored.                                                                 *)
LEMMA KnowsStays ==
    ASSUME TypeOK, [Next]_vars, NEW k \in Policies, Same(policy[k], policy'[k]), CacheKnows(k)
    PROVE  CacheKnows(k)'
<1>1. CASE polCache'[k] = polCache[k]
  BY <1>1 DEF CacheKnows, Same
<1>2. CASE SyncPolicy(k)
  <2>1. ~Recreated(k)
    BY DEF CacheKnows, Recreated
  <2>2. polCache'[k] = policy[k]
    BY <1>2, <2>1 DEF SyncPolicy, TypeOK, WatchOK
  <2> QED
    BY <2>2 DEF CacheKnows, Same
<1>3. CASE Restart
  <2>1. polCache'[k] \in {policy[k], polCache[k]}
    BY <1>3 DEF Restart
  <2> QED
    BY <2>1 DEF CacheKnows, Same
<1> QED
  BY <1>1, <1>2, <1>3, CacheLearns

(* What somebody has read of a stored policy, the cache keeps knowing.     *)
LEMMA ReadIsKnown ==
    ASSUME WInv, [Next]_vars, NEW k \in Policies, NEW p, p.uid \in Nat, p.uid <= uids[k],
           Same(p, policy[k]) => CacheKnows(k), Same(p, policy'[k])
    PROVE  CacheKnows(k)'
<1>1. policy'[k] # None /\ policy'[k].uid = p.uid /\ p # None
  BY DEF Same
<1>2. ~Appears(k)
  BY <1>1, UidTypes DEF Appears, WInv, IInv
<1>3. Stays(k)
  BY <1>1, <1>2, PolicyStep DEF Disappears, WInv
<1>4. Same(p, policy[k]) /\ Same(policy[k], policy'[k])
  BY <1>1, <1>3 DEF Stays, Same
<1> QED
  BY <1>4, KnowsStays DEF WInv, IInv

LEMMA KnownStep == WInv /\ [Next]_vars => KnownFirst'
<1> SUFFICES ASSUME WInv, [Next]_vars PROVE KnownFirst'
  OBVIOUS
<1>0. IInv /\ TypeOK /\ KnownFirst
  BY DEF WInv, IInv
<1>1. ASSUME NEW k \in Policies, policy'[k] # None, policy'[k].finalizer
      PROVE  CacheKnows(k)'
  <2>1. Stays(k)
    BY <1>0, <1>1, PolicyStep DEF Appears, Disappears
  <2>2. Same(policy[k], policy'[k])
    BY <2>1 DEF Stays, Same
  <2>3. policy[k].finalizer \/ CacheKnows(k)
    BY <1>1, <2>2, EditStep DEF Touched, Updated
  <2>4. CacheKnows(k)
    BY <1>0, <2>1, <2>3 DEF KnownFirst, Stays
  <2> QED
    BY <1>0, <2>2, <2>4, KnowsStays
<1>2. ASSUME pc' # "idle", Same(pol', policy'[req'])
      PROVE  Same(polCache'[req'], policy'[req'])
  <2>1. CASE pc # "idle" /\ req' = req /\ pol' = pol
    <3>1. PICK k \in Policies : k = req
      BY <1>0, <2>1, Held
    <3>2. pol.uid \in Nat /\ pol.uid <= uids[k]
      BY <1>0, <2>1, <3>1, UidTypes DEF IInv, UidsKnown
    <3>3. Same(pol, policy[k]) => CacheKnows(k)
      BY <1>0, <2>1, <3>1 DEF KnownFirst, CacheKnows
    <3>4. CacheKnows(k)'
      BY <1>2, <2>1, <3>1, <3>2, <3>3, ReadIsKnown
    <3> QED
      BY <2>1, <3>1, <3>4 DEF CacheKnows
  <2>2. ASSUME NEW k \in Policies, StartReconcile(k), Dispatch(k)
        PROVE  Same(polCache'[req'], policy'[req'])
    BY <1>2, <2>2 DEF StartReconcile, Dispatch, Enter, store, caches
  <2> QED
    BY <1>0, <1>2, <2>1, <2>2, FrameMoves DEF Goes, Continues, frame, FetchPath, WritePath
<1>3. ASSUME NEW c \in latePol', Same(c.old, policy'[c.at]) PROVE CacheKnows(c.at)'
  <2>1. c \in PolicyCall /\ (c \in latePol \/ Issues(c)) /\ SoundUpdate(c)
    BY <1>0, CallMoves, CallTypes, IssuedType, TakenIsSound
  <2>2. c.at \in Policies /\ c.old.uid \in Nat /\ c.old.uid <= uids[c.at]
    BY <1>0, <2>1, CallTypes DEF SoundUpdate, Policy, Uid
  <2>3. Same(c.old, policy[c.at]) => CacheKnows(c.at)
    BY <1>0, <2>1, IssuedType DEF KnownFirst
  <2> QED
    BY <1>3, <2>2, <2>3, ReadIsKnown
<1> QED
  BY <1>1, <1>2, <1>3 DEF KnownFirst, CacheKnows

(* Whatever the controller deals with, the cache knows. *)
LEMMA SettledIsKnown ==
    ASSUME WInv, NEW k \in Policies, policy[k] # None, policy[k].deleting \/ policy[k].finalizer
    PROVE  policy[k].finalizer /\ CacheKnows(k)
BY DEF WInv, FinalizerFirst, KnownFirst

-----------------------------------------------------------------------------
(* Where a wake-up goes.                                                   *)

(* A key leaves the queue when its Reconcile starts. *)
LEMMA KeyMoves ==
    ASSUME TypeOK, [Next]_vars, NEW k \in queue \cup later
    PROVE  k \in queue' \cup later' \/ StartReconcile(k) \/ Restart
<1>1. UNCHANGED work => k \in queue' \cup later'
  BY DEF work
<1>2. ASSUME NEW v, Update(v) PROVE k \in queue' \cup later'
  BY <1>2 DEF Update, Fails, Requeue
<1>3. CASE Environment
  BY <1>1, <1>3 DEF Environment, CreatePolicy, UpdatePolicy, DeletePolicy, SetPeer, PodEvent,
     ScionUp, ScionRotate, GarbageCollect
<1>4. CASE Delivery
  BY <1>1, <1>4 DEF Delivery, SyncPolicy, SyncPath, TimerFires, LandPolicy, LandPath
<1>5. ASSUME NEW j \in Keys, StartReconcile(j) \/ ReadFails(j)
      PROVE  k \in queue' \cup later' \/ StartReconcile(k)
  BY <1>5 DEF StartReconcile, ReadFails
<1>6. CASE ReconcileStep
  BY <1>1, <1>2, <1>6 DEF ReconcileStep, RemoveFinalizer, AddFinalizer, UpdateStatus, FetchPath,
     WritePath, NotReady, CallRefused, Fails, Requeue
<1>7. CASE FetchFails
  BY <1>7 DEF FetchFails, Fails, Requeue
<1>8. CASE UNCHANGED vars
  BY <1>1, <1>8 DEF vars
<1> QED
  BY <1>3, <1>4, <1>5, <1>6, <1>7, <1>8 DEF Next

(* A Reconcile goes on, requeues its request, or ends with an Update that  *)
(* is taken.                                                               *)
LEMMA RunMoves ==
    ASSUME TypeOK, [Next]_vars, pc # "idle"
    PROVE  \/ pc' # "idle" /\ req' = req
           \/ req \in later'
           \/ Restart
           \/ \E c : Issues(c) /\ TakePolicy(c)
<1>1. UNCHANGED frame => pc' # "idle" /\ req' = req
  BY DEF frame
<1>2. Requeue => req \in later'
  BY DEF Requeue
<1>3. ASSUME NEW v, Update(v) PROVE req \in later' \/ TakePolicy(PolicyWrite(v))
  BY <1>2, <1>3 DEF Update, Fails
<1>4. CASE Environment
  BY <1>1, <1>4 DEF Environment, CreatePolicy, UpdatePolicy, DeletePolicy, SetPeer, PodEvent,
     ScionUp, ScionRotate, GarbageCollect
<1>5. CASE Delivery
  BY <1>1, <1>5 DEF Delivery, SyncPolicy, SyncPath, TimerFires, LandPolicy, LandPath
<1>6. ASSUME NEW k \in Keys PROVE ~StartReconcile(k) /\ ~ReadFails(k)
  BY DEF StartReconcile, ReadFails
<1>7. CASE UpdateStep
  BY <1>3, <1>7 DEF UpdateStep, RemoveFinalizer, AddFinalizer, UpdateStatus, Issues
<1>8. ASSUME NEW q \in Peers, FetchPath(q) PROVE pc' # "idle" /\ req' = req
  BY <1>8 DEF FetchPath, SkipPeer
<1>9. CASE WritePath
  BY <1>2, <1>9 DEF WritePath, Fails
<1>10. CASE NotReady \/ CallRefused \/ FetchFails
  BY <1>2, <1>10 DEF NotReady, CallRefused, FetchFails, Fails
<1>11. CASE UNCHANGED vars
  BY <1>1, <1>11 DEF vars
<1> QED
  BY <1>4, <1>5, <1>6, <1>7, <1>8, <1>9, <1>10, <1>11 DEF Next, ReconcileStep, UpdateStep

(* After a restart every policy the cache knows is in the queue.           *)
LEMMA RestartQueues ==
    ASSUME Restart, NEW k \in Policies, CacheKnows(k)
    PROVE  k \in queue'
<1>1. polCache'[k] \in {policy[k], polCache[k]}
  BY DEF Restart
<1> QED
  BY <1>1 DEF Restart, InitialRequests, CacheKnows, Same

(* An event of a known policy is due when its generation has moved on.     *)
LEMMA WhenDue ==
    ASSUME NEW k \in Policies
    PROVE  CacheKnows(k) => (EventDue(k) <=> polCache[k].gen # policy[k].gen)
BY DEF EventDue, CacheKnows, Same, GenerationChanged

LEMMA WhenDueNext ==
    ASSUME NEW k \in Policies
    PROVE  CacheKnows(k)' => (EventDue(k)' <=> polCache'[k].gen # policy'[k].gen)
BY DEF EventDue, CacheKnows, Same, GenerationChanged

(* A due event stays due until the informer delivers it to the queue.      *)
LEMMA DueStays ==
    ASSUME WInv, [Next]_vars, NEW k \in Policies, Same(policy[k], policy'[k]), CacheKnows(k),
           EventDue(k)
    PROVE  Pending(k)'
<1>0. TypeOK /\ TypeOK' /\ policy[k] # None /\ policy'[k] # None /\ polCache[k] # None
  BY TypeStep DEF WInv, IInv, Same, CacheKnows
<1>1. CASE polCache'[k] = polCache[k]
  <2>1. polCache[k].gen <= policy[k].gen /\ polCache[k].gen # policy[k].gen
    BY <1>0, WhenDue DEF WInv, CacheKnowsGeneration, CacheKnows
  <2>2. polCache[k].gen \in Nat /\ policy[k].gen \in Nat /\ policy'[k].gen \in Nat
    BY <1>0 DEF TypeOK, StoreOK, WatchOK, Policy
  <2>3. policy'[k].gen >= policy[k].gen
    BY <2>2, EditStep DEF Touched, Updated
  <2>4. CacheKnows(k)'
    BY <1>0, KnowsStays
  <2> QED
    BY <1>1, <2>1, <2>2, <2>3, <2>4, WhenDueNext DEF Pending
<1>2. CASE SyncPolicy(k)
  <2>1. ~Recreated(k)
    BY DEF CacheKnows, Recreated
  <2>2. k \in queue'
    BY <1>2, <2>1 DEF SyncPolicy, EventDue
  <2> QED
    BY <2>2 DEF Pending
<1>3. CASE Restart
  BY <1>3, RestartQueues DEF Pending
<1> QED
  BY <1>0, <1>1, <1>2, <1>3, CacheLearns

(* A Reconcile of a policy that is there for it to deal with goes on.      *)
LEMMA StartLeavesPending ==
    ASSUME WInv, NEW k \in Policies, StartReconcile(k), policy[k] # None,
           policy[k].deleting \/ policy[k].finalizer
    PROVE  Pending(k)'
<1>1. polCache[k] # None /\ (polCache[k].deleting => polCache[k].finalizer)
  BY SettledIsKnown DEF CacheKnows, Same, WInv, FinalizerFirst
<1>2. Dispatch(k)
  BY <1>1 DEF StartReconcile, NothingToDo
<1>3. pc' # "idle" /\ req' = k
  BY <1>2 DEF Dispatch, Enter
<1> QED
  BY <1>3 DEF Pending

(* What is pending stays so, until Reconcile ends with an Update that is   *)
(* taken.                                                                  *)
LEMMA PendingStays ==
    ASSUME WInv, [Next]_vars, NEW k \in Policies, Same(policy[k], policy'[k]), Pending(k),
           policy[k].deleting \/ policy[k].finalizer
    PROVE  Pending(k)' \/ \E c : Issues(c) /\ TakePolicy(c) /\ c.at = k
<1>0. TypeOK /\ policy[k] # None /\ k \in Keys /\ CacheKnows(k)
  BY KeyAssumption, SettledIsKnown DEF WInv, IInv, Same
<1>1. CASE k \in queue \cup later
  <2>1. k \in queue' \cup later' => Pending(k)'
    BY DEF Pending
  <2> QED
    BY <1>0, <1>1, <2>1, KeyMoves, StartLeavesPending, RestartQueues
<1>2. CASE pc # "idle" /\ req = k
  <2>1. (pc' # "idle" /\ req' = k) \/ k \in later' => Pending(k)'
    BY DEF Pending
  <2>2. Restart => Pending(k)'
    BY <1>0, RestartQueues DEF Pending
  <2>3. \A c : Issues(c) => c.at = k
    BY <1>0, <1>2, IssuedType
  <2> QED
    BY <1>0, <1>2, <2>1, <2>2, <2>3, RunMoves
<1>3. CASE EventDue(k)
  BY <1>0, <1>3, DueStays
<1> QED
  BY <1>1, <1>2, <1>3 DEF Pending

(* An Update by users is an event that is due, once there is a finalizer.  *)
LEMMA TouchedIsDue ==
    ASSUME WInv, [Next]_vars, NEW k \in Policies, Same(policy[k], policy'[k]), Touched(k),
           policy[k].finalizer
    PROVE  Pending(k)'
<1>0. TypeOK /\ TypeOK' /\ policy[k] # None /\ policy'[k] # None /\ policy[k].gen \in Nat
  BY TypeStep, GenTypes DEF WInv, IInv, Same
<1>1. policy' # policy
  BY <1>0 DEF Touched
<1>2. polCache'[k] = polCache[k]
  BY <1>0, <1>1, CacheMoves
<1>3. CacheKnows(k) /\ polCache[k] # None
  BY <1>0, SettledIsKnown DEF CacheKnows, Same
<1>4. polCache[k].gen # policy'[k].gen
  <2>1. polCache[k].gen \in Nat /\ policy'[k].gen \in Nat
    BY <1>0, <1>3 DEF TypeOK, StoreOK, WatchOK, Policy
  <2>2. polCache[k].gen <= policy[k].gen
    BY <1>3 DEF WInv, CacheKnowsGeneration, CacheKnows
  <2> QED
    BY <1>0, <2>1, <2>2 DEF Touched
<1> QED
  BY <1>0, <1>2, <1>3, <1>4, KnowsStays, WhenDueNext DEF Pending

-----------------------------------------------------------------------------
(* The conjuncts about wake-ups are kept.                                  *)

(* The Update with which a Reconcile ends, and what is stored after it.    *)
LEMMA EndsWith ==
    ASSUME WInv, NEW c, Issues(c), TakePolicy(c)
    PROVE  /\ c.at \in Policies /\ policy[c.at] = pol /\ policy'[c.at] = c.new
           /\ \/ c.new = None
              \/ ~policy[c.at].deleting /\ ~policy[c.at].finalizer
              \/ /\ ~policy[c.at].deleting
                 /\ c.new.ready # None /\ c.new.ready.gen = policy[c.at].gen
<1>1. /\ TypeOK /\ c.at \in Policies /\ c.at = req /\ c.old = pol
      /\ pol \in Policy /\ pc # "idle"
  BY IssuedType, Held DEF WInv, IInv
<1>2. policy[c.at] = pol /\ policy'[c.at] = c.new
  BY <1>1 DEF TakePolicy, TypeOK, StoreOK
<1>3. CASE RemoveFinalizer /\ c = PolicyWrite(None)
  BY <1>1, <1>2, <1>3 DEF PolicyWrite
<1>4. CASE AddFinalizer
  BY <1>1, <1>2, <1>4 DEF AddFinalizer, WInv, UpdatesFaithful
<1>5. CASE UpdateStatus /\ c = PolicyWrite([pol EXCEPT !.ready = ReadyCondition])
  <2>1. c.new = [pol EXCEPT !.ready = ReadyCondition]
    BY <1>5 DEF PolicyWrite
  <2>2. c.new.ready = ReadyCondition /\ ReadyCondition.gen = pol.gen
    BY <1>1, <2>1 DEF Policy, ReadyCondition
  <2>3. ReadyCondition # None
    BY <1>1, ReadyConditionType, NoneAssumption
  <2>4. ~pol.deleting
    BY <1>5 DEF UpdateStatus, WInv, IInv, PolicyHeld, Settled
  <2> QED
    BY <1>1, <1>2, <2>2, <2>3, <2>4
<1> QED
  BY <1>1, <1>2, <1>3, <1>4, <1>5 DEF Issues

LEMMA DeletionStep == WInv /\ [Next]_vars => DeletionIsPending'
<1> SUFFICES ASSUME WInv, [Next]_vars, NEW k \in Policies,
                    policy'[k] # None, policy'[k].deleting
             PROVE  Pending(k)'
  BY DEF DeletionIsPending, Pending, EventDue
<1>1. Stays(k)
  BY PolicyStep DEF Appears, Disappears, WInv
<1>2. Same(policy[k], policy'[k])
  BY <1>1 DEF Stays, Same
<1>3. CASE Touched(k)
  <2>1. policy[k].finalizer
    BY <1>1, <1>3, SettledIsKnown DEF Touched, Stays
  <2> QED
    BY <1>2, <1>3, <2>1, TouchedIsDue
<1>4. CASE Updated(k)
  <2>1. policy[k].deleting
    BY <1>4 DEF Updated
  <2>2. Pending(k)
    BY <1>1, <2>1 DEF WInv, DeletionIsPending, Stays
  <2>3. ASSUME NEW c, Issues(c), TakePolicy(c), c.at = k PROVE FALSE
    <3>1. c.new = None \/ ~policy[k].deleting
      BY <2>3, EndsWith
    <3>2. policy'[k] = c.new
      BY <2>3, EndsWith
    <3> QED
      BY <2>1, <3>1, <3>2
  <2> QED
    BY <1>2, <2>1, <2>2, <2>3, PendingStays
<1> QED
  BY <1>2, <1>3, <1>4, EditStep

(* A computation has begun before a step, or begins with a write.          *)
LEMMA BegunMoves ==
    ASSUME WInv, [Next]_vars, NEW k \in Policies, Begun(k)', policy'[k].ready = policy[k].ready
    PROVE  Begun(k) \/ (WritePath /\ req = k)
<1>0. IInv /\ TypeOK
  BY DEF WInv, IInv
<1>1. CASE policy'[k].ready # None
  BY <1>1 DEF Begun, Started
<1>2. ASSUME NEW x, OwnedBy(x, k, policy'[k]),
             \/ \E n \in Paths : x = paths[n]
             \/ \E c \in latePaths : x = c.new
             \/ WritePath /\ x = Desired
      PROVE  Begun(k) \/ (WritePath /\ req = k)
  <2>1. CASE WritePath /\ x = Desired
    BY <1>0, <1>2, <2>1, DesiredIsOwned
  <2>2. CASE ~(WritePath /\ x = Desired)
    BY <1>2, <2>2, OwnedWasOwned DEF Begun, Started
  <2> QED
    BY <2>1, <2>2
<1>3. ASSUME NEW n \in Paths, OwnedBy(paths'[n], k, policy'[k])
      PROVE  Begun(k) \/ (WritePath /\ req = k)
  <2>1. paths'[n] # None
    BY <1>3 DEF OwnedBy
  <2> QED
    BY <1>0, <1>2, <1>3, <2>1, PathOrigin
<1>4. ASSUME NEW c \in latePaths', OwnedBy(c.new, k, policy'[k])
      PROVE  Begun(k) \/ (WritePath /\ req = k)
  BY <1>0, <1>2, <1>4, PathOrigin
<1> QED
  BY <1>1, <1>3, <1>4 DEF Begun, Started

LEMMA BegunStep == WInv /\ [Next]_vars => BegunIsPending'
<1> SUFFICES ASSUME WInv, [Next]_vars, NEW k \in Policies,
                    Settled(policy'[k]), Begun(k)', ~Reconciled(k)'
             PROVE  Pending(k)'
  BY DEF BegunIsPending, Begun, Started, Reconciled, Pending, EventDue
<1>1. Stays(k)
  BY PolicyStep DEF Appears, Disappears, WInv, Settled
<1>2. Same(policy[k], policy'[k])
  BY <1>1 DEF Stays, Same
<1>3. CASE Touched(k)
  BY <1>2, <1>3, TouchedIsDue DEF Touched, Settled
<1>4. CASE Updated(k)
  <2>1. policy'[k].ready = policy[k].ready
    BY <1>1, <1>4 DEF Updated, Stays, Reconciled
  <2>2. policy[k] # None /\ ~policy[k].deleting /\ ~Reconciled(k)
    BY <1>1, <1>4, <2>1 DEF Updated, Stays, Settled, Reconciled
  <2>3. CASE WritePath /\ req = k
    BY <2>3 DEF WritePath, Fails, Requeue, Pending
  <2>4. CASE Begun(k)
    <3>1. policy[k].finalizer
      BY <2>2, <2>4 DEF Begun, Started, WInv, FinalizerFirst
    <3>2. Pending(k)
      BY <2>2, <2>4, <3>1 DEF WInv, BegunIsPending, Settled
    <3>3. ASSUME NEW c, Issues(c), TakePolicy(c), c.at = k PROVE FALSE
      <4>1. /\ policy'[k] = c.new
            /\ \/ c.new = None
               \/ ~policy[k].finalizer
               \/ c.new.ready # None /\ c.new.ready.gen = policy[k].gen
        BY <3>3, EndsWith
      <4> QED
        BY <1>1, <1>4, <3>1, <4>1 DEF Stays, Updated, Reconciled
    <3> QED
      BY <1>2, <3>1, <3>2, <3>3, PendingStays
  <2> QED
    BY <2>1, <2>3, <2>4, BegunMoves
<1> QED
  BY <1>2, <1>3, <1>4, EditStep

-----------------------------------------------------------------------------
(* The theorems.                                                           *)
LEMMA WInvInit == Init => WInv
BY IInvInit
   DEF Init, WInv, CacheKnowsGeneration, FinalizerFirst, KnownFirst, UpdatesFaithful,
       DeletionIsPending, BegunIsPending, Same, Settled, OwnedBy

LEMMA WInvStep == WInv /\ [Next]_vars => WInv'
BY IInvStep, GenerationStep, FinalizerStep, KnownStep, FaithfulStep, DeletionStep, BegunStep DEF WInv

LEMMA WInductive == Spec => []WInv
BY WInvInit, WInvStep, PTL DEF Spec

(* A terminating policy always has a wake-up coming that leads to the      *)
(* removal of its finalizer, through conflicts, lost calls and restarts.   *)
THEOREM DeletionNeverStalls == Spec => []DeletionIsPending
<1>1. WInv => DeletionIsPending
  BY DEF WInv
<1> QED
  BY <1>1, WInductive, PTL

(* A policy whose computation was begun and is not Ready for its current   *)
(* generation always has a wake-up coming.                                 *)
THEOREM ComputationNeverStalls == Spec => []ComputationIsPending
<1>1. WInv => ComputationIsPending
  BY DEF WInv, BegunIsPending, Begun, ComputationIsPending
<1> QED
  BY <1>1, WInductive, PTL

(* The controller's Updates never undo what a user changed.                *)
THEOREM UpdatesUndoNothing == Spec => UserChangesStay
<1>1. ASSUME WInv, [Next]_vars, NEW k \in Policies, Same(policy[k], policy'[k])
      PROVE  \/ policy'[k].gen > policy[k].gen
             \/ /\ policy'[k].gen = policy[k].gen
                /\ policy'[k].spec = policy[k].spec
                /\ policy'[k].deleting = policy[k].deleting
  BY <1>1, EditStep DEF Touched, Updated
<1>2. WInv /\ [Next]_vars =>
        [\A k \in Policies : Same(policy[k], policy'[k]) =>
           \/ policy'[k].gen > policy[k].gen
           \/ /\ policy'[k].gen = policy[k].gen
              /\ policy'[k].spec = policy[k].spec
              /\ policy'[k].deleting = policy[k].deleting]_vars
  BY <1>1
<1> QED
  BY <1>2, WInductive, PTL DEF UserChangesStay, Spec

(* A pod is seen anew, and what that enqueues. *)
LEMMA PodMoves ==
    ASSUME TypeOK, [Next]_vars, NEW x \in Pods, PodIPAssigned(pod[x], pod'[x])
    PROVE  queue' = queue \cup PodToPolicies(x, polCache)
<1>0. pod'[x] # pod[x]
  BY DEF PodIPAssigned
<1>1. ASSUME NEW y \in Pods, NEW v \in {"absent", "noIP", "hasIP"}, PodEvent(y, v)
      PROVE  queue' = queue \cup PodToPolicies(x, polCache)
  <2>1. y = x
    BY <1>0, <1>1 DEF PodEvent, TypeOK, WatchOK
  <2>2. pod'[x] = v
    BY <1>1, <2>1 DEF PodEvent, TypeOK, WatchOK
  <2> QED
    BY <1>1, <2>1, <2>2 DEF PodEvent
<1>2. UNCHANGED caches => pod' = pod
  BY DEF caches
<1>3. CASE Environment
  BY <1>0, <1>1, <1>2, <1>3 DEF Environment, CreatePolicy, UpdatePolicy, DeletePolicy, SetPeer,
     ScionUp, ScionRotate, GarbageCollect
<1>4. CASE Delivery
  BY <1>0, <1>2, <1>4 DEF Delivery, SyncPolicy, SyncPath, TimerFires, LandPolicy, LandPath
<1>5. CASE ReconcileStep \/ FetchFails \/ Restart
             \/ \E k \in Keys : StartReconcile(k) \/ ReadFails(k)
  BY <1>0, <1>2, <1>5 DEF ReconcileStep, RemoveFinalizer, AddFinalizer, UpdateStatus, Update,
     FetchPath, WritePath, NotReady, CallRefused, FetchFails, Restart, StartReconcile, ReadFails
<1> QED
  BY <1>0, <1>2, <1>3, <1>4, <1>5 DEF Next, vars, caches

(* A pod that gets its IP is heard by every policy that selects it, also   *)
(* while the cache the map function reads lags behind.                     *)
THEOREM SelectedAreHeard == Spec => PodsAreHeard
<1>1. ASSUME WInv, [Next]_vars, NEW x \in Pods, NEW k \in Policies,
             PodIPAssigned(pod[x], pod'[x]), policy[k] # None, x \in policy[k].spec.selects,
             ~Recreated(k), ~EventDue(k)
      PROVE  k \in queue'
  <2>1. Same(polCache[k], policy[k]) /\ polCache[k].gen = policy[k].gen
    BY <1>1 DEF Recreated, EventDue, GenerationChanged
  <2>2. polCache[k] # None /\ x \in polCache[k].spec.selects
    BY <1>1, <2>1 DEF WInv, CacheKnowsGeneration, Same
  <2>3. k \in PodToPolicies(x, polCache)
    BY <2>2 DEF PodToPolicies
  <2> QED
    BY <1>1, <2>3, PodMoves DEF WInv, IInv
<1>2. WInv /\ [Next]_vars =>
        [\A x \in Pods, k \in Policies :
           /\ PodIPAssigned(pod[x], pod'[x])
           /\ policy[k] # None /\ x \in policy[k].spec.selects
           /\ ~Recreated(k)
           => k \in queue' \/ EventDue(k)]_vars
  BY <1>1
<1> QED
  BY <1>2, WInductive, PTL DEF PodsAreHeard, Spec
=============================================================================
