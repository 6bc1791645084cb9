------------------------------- MODULE Watches -------------------------------
(***************************************************************************)
(* The event side of the Global Controller: the predicates and the map     *)
(* function SetupWithManager registers, as functions of the old and the    *)
(* new view of an object.  None is the view of an object that is absent,   *)
(* so a Create event has old = None and a Delete event new = None.         *)
(***************************************************************************)
EXTENDS CilionApi

(* Mutant: only Create and Delete events pass. *)
CreatedOrDeleted(old, new) == old = None \/ new = None

(* predicate.GenerationChangedPredicate: only its Update filter looks.     *)
GenerationChanged(old, new) ==
    (old # None /\ new # None) => old.gen # new.gen

(* podIPAssignedPredicate.  It sets UpdateFunc and CreateFunc only, and    *)
(* predicate.Funcs lets every event through whose function is nil.         *)
PodIPAssigned(old, new) ==
    \/ old = "absent" /\ new = "hasIP"
    \/ old = "noIP" /\ new = "hasIP"
    \/ old # "absent" /\ new = "absent"

(* podToPolicyMapper: the policies of the cache that select the pod, or    *)
(* the default policy when there is none.                                  *)
PodToPolicies(x, cache) ==
    LET matching == {k \in Policies : cache[k] # None /\ x \in cache[k].spec.selects}
    IN  IF matching = {} THEN {DefaultPolicy} ELSE matching

(* The requests of the Create events that a cache filled anew hands out.   *)
InitialRequests(pols, peers, pod) ==
    {k \in Policies : pols[k] # None}
      \cup {PeerKey[q] : q \in {r \in Peers : peers[r] # None}}
      \cup UNION {PodToPolicies(x, pols) : x \in {y \in Pods : PodIPAssigned("absent", pod[y])}}
=============================================================================
