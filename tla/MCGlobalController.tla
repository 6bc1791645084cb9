------------------------ MODULE MCGlobalController ------------------------
(***************************************************************************)
(* Small instances of the Global Controller for TLC.                       *)
(***************************************************************************)
EXTENDS GlobalControllerProps, TLC

CONSTANTS p1, p2, def, q1, q2, n1, n2, n3, x1, a1, a2, c1, c2, low, high

(* Requests for a peer never name a policy here. *)
OneKey    == {p1, def}
TwoKeys   == {p1, p2, def}
PeerIsDef == [q \in {q1, q2} |-> def]
OnePeerIsDef == [q \in {q1} |-> def]

(* One path per policy and peer. *)
OneName  == [k \in {p1} |-> [q \in {q1} |-> n1]]
TwoNames == [k \in {p1} |-> [q \in {q1, q2} |-> IF q = q1 THEN n1 ELSE n2]]
(* "a" with peer "b-to-c" and "a-to-b" with peer "c" compute one name.      *)
Colliding == [k \in {p1, p2} |-> [q \in {q1} |-> n1]]

(* The two policies that share a path name are interchangeable. *)
PolicySymmetry == Permutations({p1, p2})

LowOrHigh == {[pref |-> r, selects |-> {}] : r \in {low, high}}
OneSpec   == {[pref |-> low, selects |-> {x1}]}
LowOrNil  == {[pref |-> r, selects |-> {}] : r \in {low, NoPref}}
NilOnly   == {[pref |-> NoPref, selects |-> {x1}]}
LowOnly   == {[pref |-> low, selects |-> {}]}
TwoClusters == {[as |-> a1, cidr |-> c1], [as |-> a2, cidr |-> c2]}
OneCluster  == {[as |-> a1, cidr |-> c1]}
=============================================================================
