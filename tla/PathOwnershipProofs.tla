-------------------------- MODULE PathOwnershipProofs --------------------------
(***************************************************************************)
(* What the abstract ownership of computed paths is good for: whoever      *)
(* implements it keeps promises and never robs an owner that is there.     *)
(***************************************************************************)
EXTENDS PathOwnership, TLAPS

Owners == [key : Keys, inc : Nat]

(* None is no incarnation and no owner: OwnerAssumption of CilionApi. *)
NoneIsApart == None \notin Nat /\ None \notin Owners

Owns(k, n) == live[k] # None /\ owner[n] = [key |-> k, inc |-> live[k]]

(* What a policy is Ready with it owns (Reconcile, lines 140-158): no step *)
(* of another policy, of the collector or of an earlier self breaks it.    *)
PromisesAreKept == \A k \in Keys : \A n \in promised[k] : Owns(k, n)

(* As long as an incarnation lives, what it owns stays its own (lines      *)
(* 121-125), and between incarnations a path only passes to a later self.  *)
OwnersAreNotRobbed ==
    [][\A k \in Keys, n \in Names :
         /\ Owns(k, n) /\ live'[k] = live[k] => owner'[n] = owner[n]
         /\ owner[n] # None /\ owner'[n] # None =>
               owner'[n].key = owner[n].key /\ owner'[n].inc >= owner[n].inc]_vars

-----------------------------------------------------------------------------
(* A live incarnation is the last one born, and nobody owns a path before  *)
(* he is born.                                                             *)
OwnershipInv ==
    /\ born \in [Keys -> Nat]
    /\ live \in [Keys -> Nat \cup {None}]
    /\ owner \in [Names -> Owners \cup {None}]
    /\ promised \in [Keys -> SUBSET Names]
    /\ \A k \in Keys : live[k] # None => live[k] = born[k]
    /\ \A n \in Names : owner[n] # None => owner[n].inc <= born[owner[n].key]
    /\ PromisesAreKept

LEMMA OwnershipInvInit == Init => OwnershipInv
BY DEF Init, OwnershipInv, PromisesAreKept

(* A claim leaves alone what belongs to a live incarnation. *)
LEMMA ClaimSparesOwners ==
    ASSUME NoneIsApart, OwnershipInv, NEW k \in Keys, NEW n \in Names, NEW i \in 1 .. born[k],
           Claim(k, n, i), NEW j \in Keys, NEW m \in Names, Owns(j, m)
    PROVE  owner'[m] = owner[m]
<1>0. owner' = [owner EXCEPT ![n] = [key |-> k, inc |-> i]]
  BY DEF Claim
<1>1. CASE m # n
  BY <1>0, <1>1 DEF OwnershipInv
<1>2. CASE m = n
  <2>1. /\ owner[n] = [key |-> j, inc |-> live[j]] /\ live[j] = born[j] /\ born[j] \in Nat
        /\ owner[n] # None
    BY <1>2 DEF Owns, Owners, OwnershipInv, NoneIsApart
  <2>2. k = j /\ live[j] <= i
    BY <2>1 DEF Claim
  <2>3. i = live[j]
    BY <2>1, <2>2
  <2> QED
    BY <1>0, <1>2, <2>1, <2>2, <2>3 DEF OwnershipInv
<1> QED
  BY <1>1, <1>2

LEMMA OwnershipInvStep == NoneIsApart /\ OwnershipInv /\ [Next]_vars => OwnershipInv'
<1> SUFFICES ASSUME NoneIsApart, OwnershipInv, [Next]_vars PROVE OwnershipInv'
  OBVIOUS
<1> USE DEF OwnershipInv, NoneIsApart, Owners, PromisesAreKept, Owns
<1>1. ASSUME NEW k \in Keys, Create(k) PROVE OwnershipInv'
  <2>0. ASSUME NEW n \in promised[k] PROVE FALSE
    BY <1>1, <2>0 DEF Create
  <2>1. born'[k] = born[k] + 1 /\ born[k] + 1 \in Nat
    BY <1>1 DEF Create
  <2>2. \A n \in Names : owner'[n] # None => owner'[n].inc <= born'[owner'[n].key]
    BY <1>1 DEF Create
  <2>3. PromisesAreKept'
    BY <1>1, <2>0 DEF Create
  <2> QED
    BY <1>1, <2>1, <2>2, <2>3 DEF Create
<1>2. ASSUME NEW k \in Keys, Remove(k) PROVE OwnershipInv'
  BY <1>2 DEF Remove
<1>3. ASSUME NEW k \in Keys, NEW n \in Names, NEW i \in 1 .. born[k], Claim(k, n, i)
      PROVE  OwnershipInv'
  <2>1. [key |-> k, inc |-> i] \in Owners /\ i <= born[k]
    OBVIOUS
  <2>2. PromisesAreKept'
    BY <1>3, ClaimSparesOwners DEF Claim
  <2> QED
    BY <1>3, <2>1, <2>2 DEF Claim
<1>4. ASSUME NEW n \in Names, Collect(n) PROVE OwnershipInv'
  BY <1>4 DEF Collect
<1>5. ASSUME NEW k \in Keys, NEW S \in SUBSET Names, Promise(k, S) PROVE OwnershipInv'
  BY <1>5 DEF Promise
<1>6. CASE UNCHANGED vars
  BY <1>6 DEF vars
<1> QED
  BY <1>1, <1>2, <1>3, <1>4, <1>5, <1>6 DEF Next

(* Whatever implements PathOwnership keeps its promises. *)
THEOREM PromisesHold ==
    ASSUME NoneIsApart PROVE Spec => []PromisesAreKept
<1>1. OwnershipInv /\ [Next]_vars => OwnershipInv'
  BY OwnershipInvStep
<1>2. OwnershipInv => PromisesAreKept
  BY DEF OwnershipInv
<1> QED
  BY <1>1, <1>2, OwnershipInvInit, PTL DEF Spec

(* Whatever implements PathOwnership never takes a path from a live owner, *)
(* and passes it on only along the incarnations of one name.               *)
THEOREM NobodyIsRobbed ==
    ASSUME NoneIsApart PROVE Spec => OwnersAreNotRobbed
<1> DEFINE Kept == \A k \in Keys, n \in Names :
         /\ Owns(k, n) /\ live'[k] = live[k] => owner'[n] = owner[n]
         /\ owner[n] # None /\ owner'[n] # None =>
               owner'[n].key = owner[n].key /\ owner'[n].inc >= owner[n].inc
<1>1. OwnershipInv /\ [Next]_vars => OwnershipInv'
  BY OwnershipInvStep
<1>2. ASSUME OwnershipInv, [Next]_vars PROVE Kept
  <2> SUFFICES ASSUME NEW k \in Keys, NEW n \in Names
               PROVE  /\ Owns(k, n) /\ live'[k] = live[k] => owner'[n] = owner[n]
                      /\ owner[n] # None /\ owner'[n] # None =>
                           owner'[n].key = owner[n].key /\ owner'[n].inc >= owner[n].inc
    OBVIOUS
  <2>0. owner[n] # None => owner[n].inc \in Nat
    BY <1>2 DEF OwnershipInv, Owners
  <2>1. CASE owner' = owner
    BY <2>0, <2>1
  <2>2. ASSUME NEW j \in Keys, NEW m \in Names, NEW i \in 1 .. born[j], Claim(j, m, i)
        PROVE  /\ Owns(k, n) => owner'[n] = owner[n]
               /\ owner[n] # None =>
                     owner'[n].key = owner[n].key /\ owner'[n].inc >= owner[n].inc
    <3>1. Owns(k, n) => owner'[n] = owner[n]
      BY <1>2, <2>2, ClaimSparesOwners
    <3>2. CASE m = n
      BY <1>2, <2>0, <2>2, <3>1, <3>2 DEF Claim, OwnershipInv
    <3>3. CASE m # n
      BY <1>2, <2>0, <2>2, <3>1, <3>3 DEF Claim, OwnershipInv
    <3> QED
      BY <3>2, <3>3
  <2>3. ASSUME NEW m \in Names, Collect(m)
        PROVE  /\ Owns(k, n) => owner'[n] = owner[n]
               /\ owner[n] # None /\ owner'[n] # None =>
                     owner'[n].key = owner[n].key /\ owner'[n].inc >= owner[n].inc
    BY <1>2, <2>0, <2>3 DEF Collect, OwnershipInv, Owns
  <2> QED
    BY <1>2, <2>1, <2>2, <2>3 DEF Next, Create, Remove, Promise, vars
<1>3. OwnershipInv /\ [Next]_vars => [Kept]_vars
  BY <1>2
<1> QED
  BY <1>1, <1>3, OwnershipInvInit, PTL DEF Spec, OwnersAreNotRobbed
=============================================================================
