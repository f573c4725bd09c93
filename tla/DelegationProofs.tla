-------------------------- MODULE DelegationProofs --------------------------
(***************************************************************************)
(* MulticlusterScheduling implements Delegation. Steps that leave the UID  *)
(* and node of the proxy pod, the latest UID and the history of delegates  *)
(* alone are stuttering steps. The others are few: a candidate is bound    *)
(* (Start), the proxy pod is bound (Show, which needs DelegateBeforeProxy  *)
(* of IndInv: the cycle's delegate was bound, for the UID that the API     *)
(* server checks), goes (Leave) or comes back (Arrive).                    *)
(***************************************************************************)
EXTENDS SchedulingProofs

(* Steps that do not change what the abstract specification sees.          *)
LEMMA Stutter ==
    ASSUME UNCHANGED <<proxy, lastUID, everBound>>
    PROVE  UNCHANGED Promise!delegationVars
BY DEF Promise!delegationVars

(* A new proxy pod is there.                                               *)
LEMMA NewProxyFields ==
    ASSUME NEW u \in UIDs
    PROVE  NewProxy(u) # None /\ NewProxy(u).uid = u /\ NewProxy(u).node = None
<1>1. NewProxy(u) # None
    BY NewObjects, NoneAssumption
<1>. QED
    BY <1>1 DEF NewProxy

(* An existing proxy pod has a UID that is not 0.                          *)
LEMMA UidPositive ==
    ASSUME TypeOK, proxy # None
    PROVE  proxy.uid \in Nat /\ proxy.uid # 0
BY ConstantsAssumption DEF TypeOK, ApiTypeOK, ProxyPods, UIDs

(* Steps in which the proxy pod goes, or changes in other fields.          *)
LEMMA GoneOrSame ==
    ASSUME TypeOK, UNCHANGED <<lastUID, everBound>>,
           proxy' # None => proxy # None /\ proxy'.uid = proxy.uid /\ proxy'.node = proxy.node
    PROVE  [Promise!DelegationNext]_(Promise!delegationVars)
<1>1. CASE proxy' = None /\ proxy # None
    BY <1>1, UidPositive DEF Promise!DelegationNext, Promise!Leave
<1>2. CASE ~(proxy' = None /\ proxy # None)
    BY <1>2 DEF Promise!delegationVars
<1>. QED
    BY <1>1, <1>2

(* The proxy pod is bound only to where its delegate was bound.            *)
LEMMA SchedulerImplements ==
    ASSUME IndInv, ProxySchedulerNext
    PROVE  [Promise!DelegationNext]_(Promise!delegationVars)
<1>1. CASE Bind \/ BindError
  <2>1. UNCHANGED <<lastUID, everBound>>
    BY <1>1 DEF Bind, BindError
  <2>2. CASE UNCHANGED proxy
    BY <2>1, <2>2, Stutter
  <2>3. CASE BindProxy
    <3>1. <<cycle.node, proxy.uid>> \in everBound
      BY <1>1, <2>3 DEF Bind, BindError, BindProxy, Bindable, IndInv, DelegateBeforeProxy
    <3>2. cycle.node \in Targets
      BY <3>1 DEF IndInv, TypeOK, ApiTypeOK
    <3>3. proxy # None /\ proxy.node = None /\ proxy \in ProxyPods
      BY <2>3 DEF BindProxy, Bindable, IndInv, TypeOK, ApiTypeOK
    <3>4. proxy.uid # 0
      BY <3>3, UidPositive DEF IndInv
    <3>5. proxy' = [proxy EXCEPT !.node = cycle.node, !.status = "bound"]
      BY <2>3 DEF BindProxy
    <3>6. proxy' \in ProxyPods
      BY <3>2, <3>3, <3>5 DEF ProxyPods, Status
    <3>7. proxy' # None
      BY <3>6, NoneAssumption
    <3>8. proxy'.uid = proxy.uid /\ proxy'.node = cycle.node
      BY <3>3, <3>5 DEF ProxyPods
    <3>. QED
      BY <2>1, <3>1, <3>2, <3>3, <3>4, <3>7, <3>8 DEF Promise!DelegationNext, Promise!Show
  <2>. QED
    BY <1>1, <2>2, <2>3 DEF Bind, BindError
<1>2. CASE ~(Bind \/ BindError)
    BY <1>2, Stutter DEF ProxySchedulerNext, SchedulerStep, StartCycle, Filter,
       FilterGivesUp, Select, PostFilter, Reserve, ReserveError, PreBind, PreBindTimeout,
       PostBind, CreateTimesOut, LateCreate, Crash, apiVars
<1>. QED
    BY <1>1, <1>2

(* Candidates are bound, one at a time.                                    *)
LEMMA CandidateImplements ==
    ASSUME IndInv, NEW c \in Cand, CandidateStep(c)
    PROVE  [Promise!DelegationNext]_(Promise!delegationVars)
<1>1. UNCHANGED <<proxy, lastUID>>
    BY DEF CandidateStep, PreFilter, Unschedulable, CandidateReserve,
       CandidatePreBind, CandidatePreBindTimeout, CandidateBind, CandidateBindFails,
       OtherSchedulerBinds, OtherSchedulerFails, BindPod, apiVars
<1>2. CASE UNCHANGED everBound
    BY <1>1, <1>2, Stutter
<1>3. CASE BindPod(c)
  <2>1. pod[c] # None
    BY DEF CandidateStep, IndInv, CycleHasPod, PreFilter, Unschedulable, CandidateReserve,
       CandidatePreBind, CandidatePreBindTimeout, CandidateBind, CandidateBindFails,
       OtherSchedulerBinds, OtherSchedulerFails
  <2>2. pod[c].uid \in 1..MaxUID /\ c[1] \in Targets
    BY <2>1, CandTarget DEF IndInv, TypeOK, ApiTypeOK, Pods, UIDs
  <2>. QED
    BY <1>1, <1>3, <2>2 DEF BindPod, Promise!DelegationNext, Promise!Start
<1>. QED
    BY <1>2, <1>3 DEF CandidateStep, PreFilter, Unschedulable, CandidateReserve,
       CandidatePreBind, CandidatePreBindTimeout, CandidateBind, CandidateBindFails,
       OtherSchedulerBinds, OtherSchedulerFails, apiVars

(* Caches, garbage collectors, kubelets and users.                         *)
LEMMA EnvironmentImplements ==
    ASSUME IndInv, EnvironmentStep
    PROVE  [Promise!DelegationNext]_(Promise!delegationVars)
<1>1. CASE CreateProxy
  <2>0. lastUID + 1 \in UIDs
    BY <1>1, ConstantsAssumption DEF CreateProxy, IndInv, TypeOK, ApiTypeOK, UIDs
  <2>1. proxy' # None /\ proxy'.uid = lastUID + 1 /\ proxy'.node = None
    BY <1>1, <2>0, NewProxyFields DEF CreateProxy
  <2>. QED
    BY <1>1, <2>1 DEF CreateProxy, Promise!DelegationNext, Promise!Arrive
<1>2. CASE DeleteProxy
    BY <1>2, GoneOrSame DEF DeleteProxy, Deleted, IndInv, TypeOK, ApiTypeOK, ProxyPods
<1>. QED
    BY <1>1, <1>2, Stutter DEF EnvironmentStep, SyncCandidate, CollectGarbageStep,
       CollectGarbage, PodGone, StartContainersStep, StartContainers, EvictStep, Evict,
       SyncProxy, UserStep, DeleteChaperon, Annotate, apiVars, CandidateCrashStep,
       CandidateCrash

(* Multi-cluster scheduling, with all of its faults, implements the        *)
(* abstract specification of delegation.                                   *)
THEOREM DelegationImplemented == Spec => ImplementsDelegation
<1>1. Init => Promise!DelegationInit
  <2>1. 1 \in UIDs
    BY ConstantsAssumption DEF UIDs
  <2>. QED
    BY <2>1, NewProxyFields DEF Init, ApiInit, Promise!DelegationInit
<1>2. IndInv /\ [Next]_vars => [Promise!DelegationNext]_(Promise!delegationVars)
  <2> SUFFICES ASSUME IndInv, [Next]_vars
               PROVE  [Promise!DelegationNext]_(Promise!delegationVars)
    OBVIOUS
  <2>1. CASE UNCHANGED vars
    BY <2>1, Stutter DEF vars, apiVars
  <2>2. CASE \E c \in Cand : ChaperonStep(c)
    BY <2>2, Stutter DEF ChaperonStep, ChaperonHandle
  <2>3. CASE \E t \in Targets : FeedbackStep(t)
    BY <2>3, FeedbackProxy, GoneOrSame DEF FeedbackStep, FeedbackHandle, IndInv, TypeOK
  <2>. QED
    BY <2>1, <2>2, <2>3, NextCases, SchedulerImplements, CandidateImplements,
       EnvironmentImplements
<1>. QED
    BY <1>1, <1>2, Inductive, PTL DEF Spec, ImplementsDelegation, Promise!DelegationSpec
=============================================================================
