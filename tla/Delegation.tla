----------------------------- MODULE Delegation -----------------------------
(***************************************************************************)
(* What multi-cluster scheduling promises to whoever looks at a pod of the *)
(* source cluster: it is shown on a node only after it was started in the  *)
(* cluster that the node stands for, for this incarnation of the pod; it   *)
(* stays there until it goes; and its incarnations come one after another. *)
(* How clusters are chosen, and by whom, is left out.                      *)
(***************************************************************************)
EXTENDS Naturals

CONSTANTS
    Targets,  \* clusters
    MaxUID,   \* bound on incarnations
    None      \* no node

VARIABLES
    uid,        \* UID of the pod, 0 if there is none
    node,       \* the node that it is shown on
    last,       \* UID of the latest incarnation
    delegates   \* <<t, u>>: incarnation u was started in cluster t

delegationVars == <<uid, node, last, delegates>>

DelegationInit ==
    /\ uid = 1
    /\ node = None
    /\ last = 1
    /\ delegates = {}

Start(t, u) ==
    /\ delegates' = delegates \cup {<<t, u>>}
    /\ UNCHANGED <<uid, node, last>>

Show(t) ==
    /\ uid # 0
    /\ node = None
    /\ <<t, uid>> \in delegates
    /\ node' = t
    /\ UNCHANGED <<uid, last, delegates>>

Leave ==
    /\ uid # 0
    /\ uid' = 0
    /\ node' = None
    /\ UNCHANGED <<last, delegates>>

Arrive ==
    /\ uid = 0
    /\ last' = last + 1
    /\ uid' = last + 1
    /\ UNCHANGED <<node, delegates>>

DelegationNext ==
    \/ \E t \in Targets : Show(t) \/ \E u \in 1..MaxUID : Start(t, u)
    \/ Leave
    \/ Arrive

DelegationSpec == DelegationInit /\ [][DelegationNext]_delegationVars
=============================================================================
