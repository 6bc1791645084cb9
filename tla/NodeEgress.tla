------------------------------ MODULE NodeEgress ------------------------------
(***************************************************************************)
(* What a node promises about the packets that leave it, without programs, *)
(* maps and links: on an interface the agent has attached, packets are     *)
(* treated as the agent has said up to now.  An interface it has not       *)
(* detached when it goes stays as it was, until someone detaches it.       *)
(***************************************************************************)
CONSTANTS Ifaces, Pods, Ids, Entries, None

VARIABLES
    told,   \* what the running agent has said: policies of pods, paths of policies
    on,     \* the interfaces it has attached
    egress  \* how packets are treated on each interface; None is not at all

vars == <<told, on, egress>>

Nothing == [pods |-> [x \in Pods |-> None], cache |-> [k \in Ids |-> None]]

Init ==
    /\ told = Nothing
    /\ on = {}
    /\ egress = [i \in Ifaces |-> None]

(* The agent says one thing, at once for all the interfaces it has.        *)
Say(t) ==
    /\ told' = t
    /\ egress' = [i \in Ifaces |-> IF i \in on THEN t ELSE egress[i]]
    /\ UNCHANGED on

Attach(i) ==
    /\ egress[i] = None
    /\ egress' = [egress EXCEPT ![i] = told]
    /\ on' = on \cup {i}
    /\ UNCHANGED told

(* DetachTC, or the interface is deleted. *)
Detach(i) ==
    /\ egress' = [egress EXCEPT ![i] = None]
    /\ on' = on \ {i}
    /\ UNCHANGED told

(* The agent closes its Loader, or dies. *)
Leave ==
    /\ told' = Nothing
    /\ on' = {}
    /\ UNCHANGED egress

Next ==
    \/ \E x \in Pods, k \in Ids \cup {None} : Say([told EXCEPT !.pods[x] = k])
    \/ \E k \in Ids, e \in Entries \cup {None} : Say([told EXCEPT !.cache[k] = e])
    \/ \E i \in Ifaces : Attach(i) \/ Detach(i)
    \/ Leave

Spec == Init /\ [][Next]_vars
=============================================================================
