---------------------- MODULE GlobalControllerDeployment ----------------------
(***************************************************************************)
(* What the Global Controller does in particular deployments: with the     *)
(* RBAC rules of the repository, without a SCION client as cmd/main.go     *)
(* starts it, and with policies and peers whose path names do not collide. *)
(***************************************************************************)
EXTENDS GlobalControllerProofs

-----------------------------------------------------------------------------
(* No policy ever has a Ready condition (lines 146-158).                   *)
NothingIsReady == \A k \in Policies : policy[k] # None => policy[k].ready = None

(* Nothing is ever computed (lines 96-138): there is no path, and a policy *)
(* is Ready at most for no destination at all.                             *)
NothingIsComputed ==
    /\ \A n \in Paths : paths[n] = None
    /\ \A k \in Policies : policy[k] # None /\ policy[k].ready # None => policy[k].ready.dests = {}

(* A Reconcile never finds a path of another policy under the name it      *)
(* writes to (lines 121-125).                                              *)
NobodyIsInTheWay == pc = "write" => MayOwn(paths[PathWrite.at]) /\ MayOwn(PathWrite.old)

NamesAreApart ==
    \A k, j \in Policies, q, r \in Peers : PathName[k][q] = PathName[j][r] => k = j

-----------------------------------------------------------------------------
(* Every Ready condition that is stored, cached, held or under way is in R.*)
ReadyWithin(R) ==
    /\ \A k \in Policies : policy[k] # None => policy[k].ready \in R
    /\ \A k \in Policies : polCache[k] # None => polCache[k].ready \in R
    /\ pc # "idle" => pol.ready \in R
    /\ \A c \in latePol : c.new # None => c.new.ready \in R

LEMMA ReadyWithinInit == ASSUME NEW R PROVE Init => ReadyWithin(R)
BY DEF Init, ReadyWithin

LEMMA IssuedWithin ==
    ASSUME TypeOK, NEW R, ReadyWithin(R), UpdateStatus => ReadyCondition \in R,
           NEW c, Issues(c), c.new # None
    PROVE  c.new.ready \in R
<1>1. pc # "idle" /\ pol \in Policy
  BY IssuedType, Held
<1>2. CASE RemoveFinalizer /\ c = PolicyWrite(None)
  BY <1>2 DEF PolicyWrite
<1>3. CASE AddFinalizer /\ c = PolicyWrite([pol EXCEPT !.finalizer = TRUE])
  BY <1>1, <1>3 DEF PolicyWrite, Policy, ReadyWithin
<1>4. CASE UpdateStatus /\ c = PolicyWrite([pol EXCEPT !.ready = ReadyCondition])
  BY <1>1, <1>4 DEF PolicyWrite, Policy
<1> QED
  BY <1>2, <1>3, <1>4 DEF Issues

LEMMA ReadyWithinStep ==
    ASSUME TypeOK, [Next]_vars, NEW R, None \in R,
           ReadyWithin(R), UpdateStatus => ReadyCondition \in R
    PROVE  ReadyWithin(R)'
<1>1. ASSUME NEW k \in Policies, policy'[k] # None PROVE policy'[k].ready \in R
  <2> USE DEF TypeOK, StoreOK
  <2>1. CASE policy' = policy
    BY <1>1, <2>1 DEF ReadyWithin
  <2>2. ASSUME NEW j \in Policies, NEW s \in PolicySpecs, CreatePolicy(j, s)
        PROVE  policy'[k].ready \in R
    BY <1>1, <2>2 DEF CreatePolicy, ReadyWithin
  <2>3. ASSUME NEW j \in Policies, NEW s \in PolicySpecs, UpdatePolicy(j, s)
        PROVE  policy'[k].ready \in R
    BY <1>1, <2>3 DEF UpdatePolicy, Bumped, Policy, ReadyWithin
  <2>4. ASSUME NEW j \in Policies, DeletePolicy(j) PROVE policy'[k].ready \in R
    BY <1>1, <2>4 DEF DeletePolicy, Bumped, Policy, ReadyWithin
  <2>5. ASSUME NEW c \in PolicyCall, c \in latePol \/ Issues(c), TakePolicy(c)
        PROVE  policy'[k].ready \in R
    BY <1>1, <2>5, IssuedWithin DEF TakePolicy, ReadyWithin
  <2> QED
    BY <2>1, <2>2, <2>3, <2>4, <2>5, PolicyMoves DEF UserStep
<1>2. ASSUME NEW k \in Policies, polCache'[k] # None PROVE polCache'[k].ready \in R
  BY <1>2, CacheMoves DEF ReadyWithin
<1>3. ASSUME pc' # "idle" PROVE pol'.ready \in R
  BY <1>3, FrameMoves
     DEF Goes, frame, Dispatch, Enter, FetchPath, Continues, WritePath, ReadyWithin
<1>4. ASSUME NEW c \in latePol', c.new # None PROVE c.new.ready \in R
  BY <1>4, CallMoves, IssuedWithin DEF ReadyWithin
<1> QED
  BY <1>1, <1>2, <1>3, <1>4 DEF ReadyWithin

(* With the RBAC rules of the repository, which grant no access to         *)
(* scionpathpolicies/status, no policy is ever reported Ready.             *)
THEOREM NoGrantNoStatus ==
    ASSUME ~StatusWritable PROVE Spec => []NothingIsReady
<1> DEFINE I == TypeOK /\ ReadyWithin({None})
<1>1. Init => I
  BY TypeInit, ReadyWithinInit
<1>2. I /\ [Next]_vars => I'
  <2> SUFFICES ASSUME I, [Next]_vars PROVE I'
    OBVIOUS
  <2>1. ~UpdateStatus
    BY DEF UpdateStatus
  <2> QED
    BY <2>1, TypeStep, ReadyWithinStep
<1>3. I => NothingIsReady
  BY DEF ReadyWithin, NothingIsReady
<1> QED
  BY <1>1, <1>2, <1>3, PTL DEF Spec

-----------------------------------------------------------------------------
(* Without a client Reconcile never leaves the head of the loop.           *)
NeverFetched ==
    /\ pc # "write"
    /\ pc = "loop" => todo = {q \in Peers : listed[q] # None}
    /\ latePaths = {}
    /\ \A n \in Paths : paths[n] = None

ReadyForNobody == {None} \cup {r \in Ready : r.dests = {}}

LEMMA NeverFetchedStep ==
    ASSUME ~HasScionClient, TypeOK, NeverFetched, [Next]_vars
    PROVE  NeverFetched'
<1>1. ~WritePath /\ \A q \in Peers : ~FetchPath(q)
  BY DEF NeverFetched, WritePath, FetchPath, CanFetch
<1>2. latePaths' = {}
  BY <1>1, CallMoves DEF NeverFetched
<1>3. ASSUME NEW n \in Paths PROVE paths'[n] = None
  BY <1>1, <1>3, PathMoves DEF NeverFetched, GarbageCollect
<1>4. pc' # "write" /\ (pc' = "loop" => todo' = {q \in Peers : listed'[q] # None})
  <2>1. CASE Goes
    BY <2>1 DEF Goes, frame, NeverFetched
  <2>2. ASSUME NEW k \in Policies, StartReconcile(k), Dispatch(k)
        PROVE  pc' # "write" /\ (pc' = "loop" => todo' = {q \in Peers : listed'[q] # None})
    BY <2>2 DEF Dispatch, Enter
  <2> QED
    BY <1>1, <2>1, <2>2, FrameMoves DEF Continues
<1> QED
  BY <1>2, <1>3, <1>4 DEF NeverFetched

(* The controller as cmd/main.go starts it, without a ScionClient,         *)
(* computes nothing: every Reconcile that sees a peer ends in the recovered*)
(* panic of the nil client.                                                *)
THEOREM NoClientNoPaths ==
    ASSUME ~HasScionClient PROVE Spec => []NothingIsComputed
<1> DEFINE I == TypeOK /\ NeverFetched /\ ReadyWithin(ReadyForNobody)
<1>1. Init => I
  BY TypeInit, ReadyWithinInit DEF Init, NeverFetched
<1>2. I /\ [Next]_vars => I'
  <2> SUFFICES ASSUME I, [Next]_vars PROVE I'
    OBVIOUS
  <2>1. ASSUME UpdateStatus PROVE ReadyCondition \in ReadyForNobody
    <3>1. ReadyCondition \in Ready
      BY <2>1, ReadyConditionType, Held DEF UpdateStatus
    <3>2. ReadyCondition.dests = {}
      BY <2>1 DEF UpdateStatus, NeverFetched, ReadyCondition
    <3> QED
      BY <3>1, <3>2 DEF ReadyForNobody
  <2>2. None \in ReadyForNobody
    BY DEF ReadyForNobody
  <2> QED
    BY <2>1, <2>2, TypeStep, NeverFetchedStep, ReadyWithinStep
<1>3. I => NothingIsComputed
  BY DEF ReadyWithin, ReadyForNobody, NeverFetched, NothingIsComputed
<1> QED
  BY <1>1, <1>2, <1>3, PTL DEF Spec

-----------------------------------------------------------------------------
(* Every path that is stored, cached or under way has a name its owner     *)
(* computes.                                                               *)
NamedBy(n, x) == x # None => \E q \in Peers : n = PathName[x.owner][q]

PathsAreNamed ==
    /\ \A n \in Paths : NamedBy(n, paths[n]) /\ NamedBy(n, pathCache[n])
    /\ \A c \in latePaths : NamedBy(c.at, c.new)

LEMMA NamedStep == TypeOK /\ PathsAreNamed /\ [Next]_vars => PathsAreNamed'
<1> SUFFICES ASSUME TypeOK, PathsAreNamed, [Next]_vars PROVE PathsAreNamed'
  OBVIOUS
<1>1. WritePath => NamedBy(PathWrite.at, PathWrite.new)
  BY DEF WritePath, TypeOK, FrameOK, PathWrite, Desired, NamedBy
<1>2. ASSUME NEW n \in Paths PROVE NamedBy(n, paths'[n])
  <2> USE DEF TypeOK, StoreOK
  <2>1. ASSUME NEW m \in Paths, GarbageCollect(m) PROVE NamedBy(n, paths'[n])
    BY <1>2, <2>1 DEF GarbageCollect, NamedBy, PathsAreNamed
  <2>2. ASSUME NEW c \in PathCall, TakePath(c), NamedBy(c.at, c.new)
        PROVE  NamedBy(n, paths'[n])
    BY <1>2, <2>2 DEF TakePath, PathsAreNamed
  <2> QED
    BY <1>1, <1>2, <2>1, <2>2, PathMoves DEF PathsAreNamed
<1>3. ASSUME NEW n \in Paths PROVE NamedBy(n, pathCache'[n])
  BY <1>3, CacheMoves DEF PathsAreNamed
<1>4. ASSUME NEW c \in latePaths' PROVE NamedBy(c.at, c.new)
  BY <1>1, <1>4, CallMoves DEF PathsAreNamed
<1> QED
  BY <1>2, <1>3, <1>4 DEF PathsAreNamed, NamedBy

(* As long as the names that "%s-to-%s" makes are apart, no policy is ever *)
(* kept from its path by another one.                                      *)
THEOREM ApartNamesNeverBlock ==
    ASSUME NamesAreApart PROVE Spec => []NobodyIsInTheWay
<1> DEFINE I == TypeOK /\ PathsAreNamed
<1>1. Init => I
  BY TypeInit DEF Init, PathsAreNamed, NamedBy
<1>2. I /\ [Next]_vars => I'
  BY TypeStep, NamedStep
<1>3. I => NobodyIsInTheWay
  <2> SUFFICES ASSUME I, pc = "write" PROVE MayOwn(paths[PathWrite.at]) /\ MayOwn(PathWrite.old)
    BY DEF NobodyIsInTheWay
  <2>1. /\ req \in Policies /\ cur \in Peers
        /\ PathWrite.at = PathName[req][cur] /\ PathWrite.old = pathCache[PathWrite.at]
        /\ PathWrite.at \in Paths
    BY KeyAssumption DEF TypeOK, FrameOK, PathWrite
  <2>2. ASSUME NEW x \in ComputedPath \cup {None}, NamedBy(PathWrite.at, x) PROVE MayOwn(x)
    BY <2>1, <2>2 DEF NamedBy, MayOwn, NamesAreApart, ComputedPath
  <2> QED
    BY <2>1, <2>2 DEF PathsAreNamed, TypeOK, StoreOK, WatchOK
<1> QED
  BY <1>1, <1>2, <1>3, PTL DEF Spec
=============================================================================
