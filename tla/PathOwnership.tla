---------------------------- MODULE PathOwnership ----------------------------
(***************************************************************************)
(* What the Global Controller promises about computed paths, without its   *)
(* caches, queue and calls: a path belongs to one incarnation of a policy, *)
(* is never taken from a policy of another name or by an earlier self from *)
(* a later one, stays as long as its owner does, and can be relied on once *)
(* the owner is Ready.                                                     *)
(***************************************************************************)
EXTENDS Naturals

CONSTANTS Keys, Names, None

VARIABLES
    born,     \* incarnations each policy name has had
    live,     \* its current incarnation, or None
    owner,    \* the incarnation that owns each path, or None
    promised  \* the paths each policy is Ready with

vars == <<born, live, owner, promised>>

Init ==
    /\ born = [k \in Keys |-> 0]
    /\ live = [k \in Keys |-> None]
    /\ owner = [n \in Names |-> None]
    /\ promised = [k \in Keys |-> {}]

Create(k) ==
    /\ live[k] = None
    /\ born' = [born EXCEPT ![k] = @ + 1]
    /\ live' = [live EXCEPT ![k] = born[k] + 1]
    /\ UNCHANGED <<owner, promised>>

(* A policy goes and its promises with it; its paths are left behind.      *)
Remove(k) ==
    /\ live[k] # None
    /\ live' = [live EXCEPT ![k] = None]
    /\ promised' = [promised EXCEPT ![k] = {}]
    /\ UNCHANGED <<born, owner>>

(* A policy takes a free path, or one of an earlier self; even a policy    *)
(* that is gone, when its write is late, but never from its later self.    *)
Claim(k, n, i) ==
    /\ owner[n] = None \/ (owner[n].key = k /\ owner[n].inc <= i)
    /\ owner' = [owner EXCEPT ![n] = [key |-> k, inc |-> i]]
    /\ UNCHANGED <<born, live, promised>>

(* Only a path whose owner is gone is collected.                           *)
Collect(n) ==
    /\ owner[n] # None
    /\ live[owner[n].key] # owner[n].inc
    /\ owner' = [owner EXCEPT ![n] = None]
    /\ UNCHANGED <<born, live, promised>>

(* A policy becomes Ready with paths it owns.                              *)
Promise(k, S) ==
    /\ live[k] # None
    /\ \A n \in S : owner[n] = [key |-> k, inc |-> live[k]]
    /\ promised' = [promised EXCEPT ![k] = S]
    /\ UNCHANGED <<born, live, owner>>

Next ==
    \/ \E k \in Keys : Create(k) \/ Remove(k)
    \/ \E k \in Keys, n \in Names : \E i \in 1 .. born[k] : Claim(k, n, i)
    \/ \E n \in Names : Collect(n)
    \/ \E k \in Keys, S \in SUBSET Names : Promise(k, S)

Spec == Init /\ [][Next]_vars
=============================================================================
