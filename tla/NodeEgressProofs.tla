---------------------------- MODULE NodeEgressProofs ----------------------------
(***************************************************************************)
(* What the abstract node is good for: whoever implements it treats the    *)
(* packets of attached interfaces as the running agent has said, and all   *)
(* of them alike.                                                          *)
(***************************************************************************)
EXTENDS NodeEgress, TLAPS

(* An attached interface follows the agent (AttachTC and the map writes of *)
(* the Loader, loader.go lines 56-95 and 139-169).                         *)
AttachedFollow == \A i \in on : egress[i] = told

(* An interface that is not attached, left by an agent that has gone, only *)
(* changes by being detached or, once it treats packets no more, attached: *)
(* nothing a later agent says reaches it (the comment of type Loader).     *)
LeftoversStay ==
    [][\A i \in Ifaces : i \notin on /\ egress'[i] # egress[i] =>
          \/ egress'[i] = None
          \/ egress[i] = None /\ egress'[i] = told /\ i \in on']_vars

-----------------------------------------------------------------------------
EgressInv ==
    /\ on \subseteq Ifaces
    /\ DOMAIN egress = Ifaces
    /\ AttachedFollow

LEMMA EgressInvInit == Init => EgressInv
BY DEF Init, EgressInv, AttachedFollow

LEMMA EgressInvStep == EgressInv /\ [Next]_vars => EgressInv'
<1> SUFFICES ASSUME EgressInv, [Next]_vars PROVE EgressInv'
  OBVIOUS
<1> USE DEF EgressInv, AttachedFollow
<1>1. ASSUME NEW t, Say(t) PROVE EgressInv'
  BY <1>1 DEF Say
<1>2. ASSUME NEW i \in Ifaces, Attach(i) PROVE EgressInv'
  BY <1>2 DEF Attach
<1>3. ASSUME NEW i \in Ifaces, Detach(i) PROVE EgressInv'
  BY <1>3 DEF Detach
<1>4. CASE Leave
  BY <1>4 DEF Leave
<1>5. CASE UNCHANGED vars
  BY <1>5 DEF vars
<1> QED
  BY <1>1, <1>2, <1>3, <1>4, <1>5 DEF Next

(* Whatever implements NodeEgress does on attached interfaces what the     *)
(* running agent has said, and nothing else.                               *)
THEOREM AttachedAreAlike == Spec => []AttachedFollow
<1>1. EgressInv => AttachedFollow
  BY DEF EgressInv
<1> QED
  BY <1>1, EgressInvInit, EgressInvStep, PTL DEF Spec

(* Whatever implements NodeEgress leaves the interfaces of former agents   *)
(* alone until they are detached.                                          *)
THEOREM LeftoversAreLeft == Spec => LeftoversStay
<1> DEFINE Stay == \A i \in Ifaces : i \notin on /\ egress'[i] # egress[i] =>
          \/ egress'[i] = None
          \/ egress[i] = None /\ egress'[i] = told /\ i \in on'
<1>1. ASSUME EgressInv, [Next]_vars PROVE Stay
  <2> SUFFICES ASSUME NEW i \in Ifaces, i \notin on, egress'[i] # egress[i]
               PROVE  \/ egress'[i] = None
                      \/ egress[i] = None /\ egress'[i] = told /\ i \in on'
    OBVIOUS
  <2>1. ASSUME NEW j \in Ifaces, Attach(j)
        PROVE  egress[i] = None /\ egress'[i] = told /\ i \in on'
    BY <1>1, <2>1 DEF Attach, EgressInv
  <2>2. ASSUME NEW j \in Ifaces, Detach(j) PROVE egress'[i] = None
    BY <1>1, <2>2 DEF Detach, EgressInv
  <2>3. ASSUME NEW t, Say(t) PROVE FALSE
    BY <2>3 DEF Say
  <2> QED
    BY <1>1, <2>1, <2>2, <2>3 DEF Next, Leave, vars
<1>2. EgressInv /\ [Next]_vars => [Stay]_vars
  BY <1>1
<1> QED
  BY <1>2, EgressInvInit, EgressInvStep, PTL DEF Spec, LeftoversStay
=============================================================================
