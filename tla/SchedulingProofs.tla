-------------------------- MODULE SchedulingProofs --------------------------
(***************************************************************************)
(* Theorems about MulticlusterScheduling, for any number of targets,       *)
(* generated names, incarnations and mishaps, and any set of faults.       *)
(*                                                                         *)
(* 1. Types. CandidateTypeOK alone does not exclude that a scheduler sets  *)
(*    the status of a pod that is gone, so TypeOK is proved together with  *)
(*    CycleHasPod (TypeStep).                                              *)
(* 2. IndInv. BoundOnlyIfAllowed needs that a candidate past its PreBind   *)
(*    is allowed (AllowedBeforeBind), which needs that no chaperon loses   *)
(*    is-allowed (ChapChange) and that a name is not used again while a    *)
(*    cycle of its pod is under way (CycleHasPod). ProxyFollowsDelegate    *)
(*    needs that a "scheduled" status, wherever it was copied, is that of  *)
(*    a pod that was bound for the same incarnation (BoundIsRecorded,      *)
(*    SameParent), and that PreBind read one (DelegateBeforeProxy).        *)
(* 3. Action properties and OneCandidate, from what each step makes of a   *)
(*    chaperon (SchedulerChap, OthersKeep) and of the proxy pod            *)
(*    (FeedbackProxy).                                                     *)
(***************************************************************************)
EXTENDS MulticlusterScheduling, TLAPS

(* The target cluster of a candidate.                                      *)
LEMMA CandTarget ==
    ASSUME NEW c \in Cand PROVE c[1] \in Targets
BY DEF Cand

(* What the webhook and MakeDelegatePod create is well formed.             *)
LEMMA NewObjects ==
    ASSUME NEW u \in UIDs
    PROVE  NewProxy(u) \in ProxyPods /\ MakeDelegatePod(u) \in Chaperons
BY ConstantsAssumption
   DEF NewProxy, MakeDelegatePod, ProxyPods, Chaperons, KnownFinalizers, Status, Extras

(* The idle cycle is well formed.                                          *)
LEMMA IdleType ==
    Idle \in [phase: Phases, uid: UIDs \cup {0},
              node: Targets \cup {None}, verdict: [Targets -> Verdicts]]
BY DEF Idle, Undecided, Phases, Verdicts

(* Deleting chaperons keeps the others well formed.                        *)
LEMMA WithoutType ==
    ASSUME ApiTypeOK, NEW C
    PROVE  Without(C) \in [Cand -> Chaperons \cup {None}]
BY DEF ApiTypeOK, Without

(* Types hold initially.                                                   *)
LEMMA InitType == Init => TypeOK
<1> SUFFICES ASSUME Init PROVE TypeOK
    OBVIOUS
<1>0. 1 \in UIDs
    BY ConstantsAssumption DEF UIDs
<1>1. ApiTypeOK
    BY <1>0, NewObjects, ConstantsAssumption DEF Init, ApiInit, ApiTypeOK
<1>2. CacheTypeOK
    BY DEF Init, CacheInit, CacheTypeOK
<1>3. SchedulerTypeOK
    BY IdleType DEF Init, SchedulerInit, SchedulerTypeOK, Idle
<1>4. CandidateTypeOK
    BY DEF Init, CandidateInit, CandidateTypeOK, Stages
<1>. QED
    BY <1>1, <1>2, <1>3, <1>4 DEF TypeOK

(* Types: a candidate is created.                                          *)
LEMMA CreateType ==
    ASSUME ApiTypeOK, NEW t \in Targets, NEW u \in UIDs, CreateCandidate(t, u)
    PROVE  chap' \in [Cand -> Chaperons \cup {None}]
BY NewObjects DEF CreateCandidate, FreshNames, ApiTypeOK

(* Types: a cycle that fails.                                              *)
LEMMA UnreserveType ==
    ASSUME SchedulerTypeOK, cycle.phase \notin {"idle", "filter"}, Unreserve
    PROVE  /\ cycle' \in [phase: Phases, uid: UIDs \cup {0},
                          node: Targets \cup {None}, verdict: [Targets -> Verdicts]]
           /\ cycle'.phase = "idle"
           /\ failedNodes' \in [UIDs -> SUBSET Targets]
<1>1. cycle.uid \in UIDs /\ cycle.node \in Targets
    BY DEF SchedulerTypeOK
<1>. QED
    BY <1>1, IdleType DEF Unreserve, Idle, SchedulerTypeOK

(* Types: a cycle that advances.                                           *)
LEMMA AdvanceType ==
    ASSUME SchedulerTypeOK, cycle.phase \notin {"idle", "filter"},
           NEW p \in Phases \ {"idle", "filter"}, Advance(p)
    PROVE  /\ cycle' \in [phase: Phases, uid: UIDs \cup {0},
                          node: Targets \cup {None}, verdict: [Targets -> Verdicts]]
           /\ cycle'.uid \in UIDs /\ cycle'.node \in Targets
           /\ failedNodes' \in [UIDs -> SUBSET Targets]
BY DEF Advance, SchedulerTypeOK

(* Types: a verdict of Filter.                                             *)
LEMMA DecideType ==
    ASSUME SchedulerTypeOK, cycle.phase = "filter",
           NEW t \in Targets, NEW v \in Verdicts, Decide(t, v)
    PROVE  /\ cycle' \in [phase: Phases, uid: UIDs \cup {0},
                          node: Targets \cup {None}, verdict: [Targets -> Verdicts]]
           /\ cycle'.phase = "filter" /\ cycle'.uid \in UIDs
BY DEF Decide, SchedulerTypeOK

(* Types: is-allowed is set on a chaperon that exists.                     *)
LEMMA AllowType ==
    ASSUME ApiTypeOK, NEW c \in Cand, chap[c] # None, AllowCandidate(c)
    PROVE  chap' \in [Cand -> Chaperons \cup {None}]
BY DEF ApiTypeOK, AllowCandidate, Chaperons

(* Types: a mishap is counted.                                             *)
LEMMA MishapType ==
    ASSUME ApiTypeOK, NEW f, Mishap(f) PROVE mishaps' \in 0..MaxMishaps
BY ConstantsAssumption DEF ApiTypeOK, Mishap

(* Types: every step of the proxy scheduler.                               *)
LEMMA SchedulerStepType ==
    ASSUME ApiTypeOK, SchedulerTypeOK, ProxySchedulerNext
    PROVE  ApiTypeOK' /\ SchedulerTypeOK'
<1>1. CASE StartCycle
  <2>1. proxy \in ProxyPods /\ proxy.uid \in UIDs
    BY <1>1 DEF StartCycle, ApiTypeOK, ProxyPods
  <2>2. \A t \in Targets : FilterAtOnce(t, proxy.uid) \in Verdicts
    BY DEF FilterAtOnce, Verdicts
  <2>3. SchedulerTypeOK'
    BY <1>1, <2>1, <2>2 DEF StartCycle, SchedulerTypeOK, Phases
  <2>. QED
    BY <1>1, <2>3 DEF StartCycle, ApiTypeOK, apiVars
<1>2. ASSUME NEW t \in Targets, Filter(t) PROVE ApiTypeOK' /\ SchedulerTypeOK'
  <2>0. cycle.phase = "filter" /\ cycle.uid \in UIDs
    BY <1>2 DEF Filter, SchedulerTypeOK
  <2>1. chap' \in [Cand -> Chaperons \cup {None}]
    BY <1>2, <2>0, CreateType DEF Filter, Poll, ApiTypeOK
  <2>2. \/ UNCHANGED cycle
        \/ \E v \in Verdicts : Decide(t, v)
    BY <1>2 DEF Filter, Poll, Verdicts
  <2>3. SchedulerTypeOK'
    BY <1>2, <2>0, <2>2, DecideType DEF Filter, SchedulerTypeOK
  <2>. QED
    BY <1>2, <2>1, <2>3 DEF Filter, ApiTypeOK
<1>3. ASSUME NEW t \in Targets, FilterGivesUp(t) PROVE ApiTypeOK' /\ SchedulerTypeOK'
  <2>1. SchedulerTypeOK'
    BY <1>3, DecideType DEF FilterGivesUp, SchedulerTypeOK, Verdicts
  <2>. QED
    BY <1>3, <2>1 DEF FilterGivesUp, ApiTypeOK, apiVars
<1>4. ASSUME NEW t \in Targets, Select(t) PROVE ApiTypeOK' /\ SchedulerTypeOK'
  <2>1. SchedulerTypeOK'
    BY <1>4 DEF Select, SchedulerTypeOK, Phases, Undecided, Verdicts
  <2>. QED
    BY <1>4, <2>1 DEF Select, ApiTypeOK, apiVars
<1>5. CASE PostFilter
  <2>1. SchedulerTypeOK'
    BY <1>5, IdleType DEF PostFilter, SchedulerTypeOK, Idle
  <2>. QED
    BY <1>5, <2>1 DEF PostFilter, ApiTypeOK, apiVars
<1>6. CASE Reserve
  <2>0. cycle.phase = "reserve" /\ cycle.uid \in UIDs /\ cycle.node \in Targets
    BY <1>6 DEF Reserve, SchedulerTypeOK
  <2>1. chap' \in [Cand -> Chaperons \cup {None}]
    BY <1>6, <2>0, CreateType, AllowType DEF Reserve, Candidates, ApiTypeOK
  <2>2. Advance("prebind") \/ Unreserve
    BY <1>6 DEF Reserve
  <2>3. SchedulerTypeOK'
    BY <1>6, <2>0, <2>2, UnreserveType, AdvanceType DEF Reserve, SchedulerTypeOK, Phases
  <2>. QED
    BY <1>6, <2>1, <2>3 DEF Reserve, ApiTypeOK
<1>7. CASE ReserveError
  <2>1. chap' \in [Cand -> Chaperons \cup {None}]
    BY <1>7, AllowType DEF ReserveError, Candidates, ApiTypeOK
  <2>2. SchedulerTypeOK'
    BY <1>7, UnreserveType DEF ReserveError, SchedulerTypeOK
  <2>. QED
    BY <1>7, <2>1, <2>2, MishapType DEF ReserveError, ApiTypeOK
<1>8. CASE PreBind
  <2>1. Advance("bind") \/ Unreserve
    BY <1>8 DEF PreBind
  <2>2. SchedulerTypeOK'
    BY <1>8, <2>1, UnreserveType, AdvanceType DEF PreBind, SchedulerTypeOK, Phases
  <2>. QED
    BY <1>8, <2>2 DEF PreBind, ApiTypeOK, apiVars
<1>9. CASE PreBindTimeout
  <2>1. SchedulerTypeOK'
    BY <1>9, UnreserveType DEF PreBindTimeout, SchedulerTypeOK
  <2>. QED
    BY <1>9, <2>1 DEF PreBindTimeout, ApiTypeOK, apiVars
<1>10. CASE Bind
  <2>1. Advance("postbind") \/ Unreserve
    BY <1>10 DEF Bind
  <2>2. SchedulerTypeOK'
    BY <1>10, <2>1, UnreserveType, AdvanceType DEF Bind, SchedulerTypeOK, Phases
  <2>3. cycle.node \in Targets
    BY <1>10 DEF Bind, SchedulerTypeOK
  <2>4. proxy' \in ProxyPods \cup {None}
    BY <1>10, <2>3 DEF Bind, BindProxy, Bindable, ApiTypeOK, ProxyPods, Status
  <2>. QED
    BY <1>10, <2>2, <2>4 DEF Bind, ApiTypeOK
<1>11. CASE BindError
  <2>1. SchedulerTypeOK'
    BY <1>11, UnreserveType DEF BindError, SchedulerTypeOK
  <2>2. cycle.node \in Targets
    BY <1>11 DEF BindError, SchedulerTypeOK
  <2>3. proxy' \in ProxyPods \cup {None}
    BY <1>11, <2>2 DEF BindError, BindProxy, Bindable, ApiTypeOK, ProxyPods, Status
  <2>. QED
    BY <1>11, <2>1, <2>3, MishapType DEF BindError, ApiTypeOK
<1>12. CASE PostBind
  <2>1. SchedulerTypeOK'
    BY <1>12, IdleType DEF PostBind, SchedulerTypeOK, Idle
  <2>2. chap' \in [Cand -> Chaperons \cup {None}]
    BY <1>12, WithoutType DEF PostBind
  <2>. QED
    BY <1>12, <2>1, <2>2 DEF PostBind, ApiTypeOK
<1>13. ASSUME NEW t \in Targets, CreateTimesOut(t) PROVE ApiTypeOK' /\ SchedulerTypeOK'
  <2>0. cycle.uid \in UIDs
    BY <1>13 DEF CreateTimesOut, SchedulerTypeOK
  <2>1. inflight' \subseteq Targets \X UIDs
    BY <1>13, <2>0 DEF CreateTimesOut, SchedulerTypeOK
  <2>2. CASE cycle.phase = "filter" /\ Decide(t, "fail") /\ UNCHANGED failedNodes
    BY <1>13, <2>1, <2>2, DecideType, MishapType
       DEF CreateTimesOut, SchedulerTypeOK, Verdicts, ApiTypeOK
  <2>3. CASE cycle.phase = "reserve" /\ Unreserve
    BY <1>13, <2>1, <2>3, UnreserveType, MishapType
       DEF CreateTimesOut, SchedulerTypeOK, ApiTypeOK
  <2>. QED
    BY <1>13, <2>2, <2>3 DEF CreateTimesOut
<1>14. ASSUME NEW t \in Targets, NEW u \in UIDs, LateCreate(t, u)
       PROVE  ApiTypeOK' /\ SchedulerTypeOK'
    BY <1>14, CreateType DEF LateCreate, ApiTypeOK, SchedulerTypeOK
<1>15. CASE Crash
  <2>1. SchedulerTypeOK'
    BY <1>15, IdleType DEF Crash, SchedulerTypeOK, Idle
  <2>. QED
    BY <1>15, <2>1, MishapType DEF Crash, ApiTypeOK
<1>. QED
    BY <1>1, <1>2, <1>3, <1>4, <1>5, <1>6, <1>7, <1>8, <1>9, <1>10, <1>11, <1>12,
       <1>13, <1>14, <1>15 DEF ProxySchedulerNext, SchedulerStep

(* A stage of a candidate cycle is entered; no other cycle is touched.     *)
LEMMA EnterType ==
    ASSUME CandidateTypeOK, NEW c \in Cand, NEW st \in Stages, Enter(c, st)
    PROVE  /\ CandidateTypeOK'
           /\ candCycle'[c] = st
           /\ \A d \in Cand \ {c} : candCycle'[d] = candCycle[d]
BY DEF Enter, CandidateTypeOK

(* The status of an existing pod is set.                                   *)
LEMMA SetStatusType ==
    ASSUME ApiTypeOK, NEW c \in Cand, NEW s \in Status, pod[c] # None, SetStatus(c, s)
    PROVE  /\ pod' \in [Cand -> Pods \cup {None}]
           /\ pod'[c] # None
           /\ pod'[c].status = s /\ pod'[c].uid = pod[c].uid
           /\ \A d \in Cand \ {c} : pod'[d] = pod[d]
BY NoneAssumption DEF SetStatus, ApiTypeOK, Pods

(* is-reserved is patched on an existing chaperon; the rest is kept.       *)
LEMMA PatchReservedType ==
    ASSUME ApiTypeOK, NEW c \in Cand, NEW b \in BOOLEAN, chap[c] # None, PatchReserved(c, b)
    PROVE  /\ chap' \in [Cand -> Chaperons \cup {None}]
           /\ chap'[c] # None
           /\ chap'[c].uid = chap[c].uid
           /\ chap'[c].allowed = chap[c].allowed
           /\ chap'[c].status = chap[c].status
           /\ \A d \in Cand \ {c} : chap'[d] = chap[d]
BY NoneAssumption DEF PatchReserved, ApiTypeOK, Chaperons

(* Types and CycleHasPod: every step of a candidate scheduler.             *)
LEMMA CandidateStepType ==
    ASSUME ApiTypeOK, CandidateTypeOK, CycleHasPod, NEW c \in Cand, CandidateStep(c)
    PROVE  ApiTypeOK' /\ CandidateTypeOK' /\ CycleHasPod'
<1>0. /\ {"queued", "filter", "prebind", "bind"} \subseteq Stages
      /\ {"error", "unschedulable", "bound"} \subseteq Status
      /\ c[1] \in Targets
    BY CandTarget DEF Stages, Status
<1>1. pod[c] # None
    BY DEF CandidateStep, CycleHasPod, PreFilter, Unschedulable, CandidateReserve,
       CandidatePreBind, CandidatePreBindTimeout, CandidateBind, CandidateBindFails,
       OtherSchedulerBinds, OtherSchedulerFails
<1>2. \/ UNCHANGED candCycle
      \/ \E st \in Stages : Enter(c, st)
    BY <1>0 DEF CandidateStep, PreFilter, Unschedulable, CandidateReserve,
       CandidatePreBind, CandidatePreBindTimeout, CandidateBind, CandidateBindFails,
       OtherSchedulerBinds, OtherSchedulerFails, CycleFails
<1>3. \/ UNCHANGED pod
      \/ \E s \in Status : SetStatus(c, s)
    BY <1>0 DEF CandidateStep, PreFilter, Unschedulable, CandidateReserve,
       CandidatePreBind, CandidatePreBindTimeout, CandidateBind, CandidateBindFails,
       OtherSchedulerBinds, OtherSchedulerFails, CycleFails, BindPod, apiVars
<1>4. \/ UNCHANGED chap
      \/ chap[c] # None /\ \E b \in BOOLEAN : PatchReserved(c, b)
    BY DEF CandidateStep, PreFilter, Unschedulable, CandidateReserve,
       CandidatePreBind, CandidatePreBindTimeout, CandidateBind, CandidateBindFails,
       OtherSchedulerBinds, OtherSchedulerFails, BindPod, apiVars
<1>5. /\ UNCHANGED <<proxy, lastUID>>
      /\ UNCHANGED mishaps \/ Mishap("unschedulable")
      /\ \/ UNCHANGED everBound
         \/ everBound' = everBound \cup {<<c[1], pod[c].uid>>}
    BY DEF CandidateStep, PreFilter, Unschedulable, CandidateReserve,
       CandidatePreBind, CandidatePreBindTimeout, CandidateBind, CandidateBindFails,
       OtherSchedulerBinds, OtherSchedulerFails, BindPod, apiVars
<1>6. pod[c].uid \in UIDs
    BY <1>1 DEF ApiTypeOK, Pods
<1>7. ApiTypeOK'
  <2>1. pod' \in [Cand -> Pods \cup {None}]
    BY <1>1, <1>3, SetStatusType DEF ApiTypeOK
  <2>2. chap' \in [Cand -> Chaperons \cup {None}]
    BY <1>4, PatchReservedType DEF ApiTypeOK
  <2>3. everBound' \subseteq Targets \X UIDs
    BY <1>0, <1>5, <1>6 DEF ApiTypeOK
  <2>. QED
    BY <1>5, <2>1, <2>2, <2>3, MishapType DEF ApiTypeOK
<1>8. CandidateTypeOK'
    BY <1>2, EnterType DEF CandidateTypeOK
<1>9. CycleHasPod'
    BY <1>1, <1>2, <1>3, EnterType, SetStatusType DEF CycleHasPod
<1>. QED
    BY <1>7, <1>8, <1>9

-----------------------------------------------------------------------------
(* What listers return is well formed.                                     *)
LEMMA ViewTypes ==
    ASSUME ApiTypeOK, CacheTypeOK
    PROVE  /\ \A c \in Cand : /\ CachedChaperon(c) \in Chaperons \cup {None}
                              /\ CachedPod(c) \in Pods \cup {None}
                              /\ SeenChaperon(c) \in Chaperons \cup {None}
           /\ \A t \in Targets : SeenProxy(t) \in ProxyPods \cup {None}
BY DEF ApiTypeOK, CacheTypeOK, CachedChaperon, CachedPod, SeenChaperon, SeenProxy

(* What a version written by the chaperon controller has in common with    *)
(* the one it replaces.                                                    *)
LEMMA ReflectionFacts ==
    ASSUME ApiTypeOK, NEW c \in Cand, NEW k \in Chaperons, NEW p \in Pods,
           NEW r \in Reflections(c, k, p)
    PROVE  /\ r \in Chaperons \cup {None}
           /\ r = None <=> chap[c] = None
           /\ r # None => /\ r.uid = chap[c].uid
                          /\ r.allowed = chap[c].allowed
                          /\ r.status \in {chap[c].status, p.status}
<1>0. chap[c] \in Chaperons \cup {None} /\ p.status \in Status /\ p.extra \in Extras
    BY DEF ApiTypeOK, Pods
<1>1. CASE chap[c] = None
    BY <1>1 DEF Reflections
<1>2. CASE chap[c] # None /\ r = chap[c]
    BY <1>0, <1>2
<1>3. CASE chap[c] # None /\ r = [chap[c] EXCEPT !.missing = FALSE]
    BY <1>0, <1>3, NoneAssumption DEF Chaperons
<1>4. CASE chap[c] # None /\ chap[c] = k /\ r = [k EXCEPT !.status = p.status]
    BY <1>0, <1>4, NoneAssumption DEF Chaperons
<1>5. CASE /\ chap[c] # None /\ chap[c] = k
           /\ r = [k EXCEPT !.status = p.status, !.extra = p.extra]
    BY <1>0, <1>5, NoneAssumption DEF Chaperons
<1>. QED
    BY <1>1, <1>2, <1>3, <1>4, <1>5 DEF Reflections, IsLatest

(* The pod that the chaperon controller creates.                           *)
LEMMA NewPodType ==
    ASSUME NEW k \in Chaperons PROVE NewPod(k) \in Pods
BY DEF NewPod, Chaperons, Pods, Status

(* Types: every step of the chaperon controller.                           *)
LEMMA ChaperonStepType ==
    ASSUME ApiTypeOK, CacheTypeOK, CycleHasPod, NEW c \in Cand, ChaperonStep(c)
    PROVE  ApiTypeOK' /\ CycleHasPod'
<1> DEFINE k == CachedChaperon(c)
           p == CachedPod(c)
<1>0. PICK overdue \in BOOLEAN : ChaperonHandle(c, overdue)
    BY DEF ChaperonStep
<1>1. k \in Chaperons /\ p \in Pods \cup {None}
    BY <1>0, ViewTypes DEF ChaperonHandle
<1>2. ASSUME NEW q \in Pods, Reflect(c, k, q)
      PROVE  chap' \in [Cand -> Chaperons \cup {None}]
    BY <1>1, <1>2, ReflectionFacts DEF Reflect, ApiTypeOK
<1>3. CASE CreatePod(c, k)
  <2>1. chap' \in [Cand -> Chaperons \cup {None}]
    BY <1>1, <1>2, <1>3, NewPodType DEF CreatePod, ApiTypeOK
  <2>2. pod' \in [Cand -> Pods \cup {None}] /\ CycleHasPod'
    BY <1>1, <1>3, NewPodType, NoneAssumption
       DEF CreatePod, ApiTypeOK, CycleHasPod, ChaperonStep
  <2>. QED
    BY <1>0, <2>1, <2>2 DEF ApiTypeOK, ChaperonHandle
<1>4. CASE MarkMissing(c)
    BY <1>0, <1>4 DEF MarkMissing, ApiTypeOK, Chaperons, ChaperonHandle, CycleHasPod, ChaperonStep
<1>5. CASE p # None /\ Reflect(c, k, p) /\ UNCHANGED pod
    BY <1>0, <1>1, <1>2, <1>5 DEF ApiTypeOK, ChaperonHandle, CycleHasPod, ChaperonStep
<1>. QED
    BY <1>0, <1>3, <1>4, <1>5 DEF ChaperonHandle

(* What a feedback controller can make of the proxy pod.                   *)
LEMMA FeedbackProxy ==
    ASSUME ApiTypeOK, CacheTypeOK, NEW t \in Targets, FeedbackHandle(t)
    PROVE  /\ proxy' \in ProxyPods \cup {None}
           /\ proxy' # None =>
                /\ proxy # None
                /\ proxy'.uid = proxy.uid
                /\ proxy'.node = proxy.node
                /\ proxy'.finalizers \subseteq proxy.finalizers
                /\ proxy.terminating => proxy'.terminating
<1>1. CASE UNCHANGED proxy
    BY <1>1 DEF ApiTypeOK, ProxyPods
<1>2. ASSUME NEW q \in ProxyPods, proxy' = NoCandidate(t, q)
      PROVE  /\ proxy' \in ProxyPods \cup {None}
             /\ proxy' # None =>
                  /\ proxy # None
                  /\ proxy'.uid = proxy.uid
                  /\ proxy'.node = proxy.node
                  /\ proxy'.finalizers \subseteq proxy.finalizers
                  /\ proxy.terminating => proxy'.terminating
    BY <1>2, NoneAssumption
       DEF NoCandidate, IsLatestProxy, RemoveFinalizer, Deleted, ApiTypeOK, ProxyPods
<1>3. ASSUME NEW q \in ProxyPods, NEW d \in Chaperons, proxy' \in Mirrors(t, q, d)
      PROVE  /\ proxy' \in ProxyPods \cup {None}
             /\ proxy' # None =>
                  /\ proxy # None
                  /\ proxy'.uid = proxy.uid
                  /\ proxy'.node = proxy.node
                  /\ proxy'.finalizers \subseteq proxy.finalizers
                  /\ proxy.terminating => proxy'.terminating
  <2>0. d.status \in Status /\ d.extra \in Extras
    BY DEF Chaperons
  <2>1. CASE proxy' = proxy
    BY <2>1 DEF ApiTypeOK
  <2>2. CASE proxy = q /\ proxy' = [q EXCEPT !.extra = d.extra]
    BY <2>0, <2>2, NoneAssumption DEF ProxyPods
  <2>3. CASE proxy = q /\ proxy' = [q EXCEPT !.extra = d.extra, !.status = d.status]
    BY <2>0, <2>3, NoneAssumption DEF ProxyPods
  <2>. QED
    BY <1>3, <2>1, <2>2, <2>3 DEF Mirrors, IsLatestProxy
<1>4. SeenProxy(t) # None => SeenProxy(t) \in ProxyPods
    BY ViewTypes
<1>5. \A c \in SeenByUID(t, SeenProxy(t).uid) : SeenChaperon(c) \in Chaperons
    BY ViewTypes DEF SeenByUID, SeenByName
<1>. QED
    BY <1>1, <1>2, <1>3, <1>4, <1>5 DEF FeedbackHandle, DeleteOrphans, Reconcile

(* A feedback controller only deletes chaperons.                           *)
LEMMA FeedbackChap ==
    ASSUME NEW t \in Targets, FeedbackHandle(t)
    PROVE  chap' = chap \/ \E D : chap' = Without(D)
BY DEF FeedbackHandle, DeleteOrphans, Reconcile

(* Types: every step of a feedback controller.                             *)
LEMMA FeedbackStepType ==
    ASSUME ApiTypeOK, CacheTypeOK, NEW t \in Targets, FeedbackStep(t)
    PROVE  ApiTypeOK'
<1>1. chap' \in [Cand -> Chaperons \cup {None}]
    BY FeedbackChap, WithoutType DEF FeedbackStep, ApiTypeOK
<1>2. proxy' \in ProxyPods \cup {None}
    BY FeedbackProxy DEF FeedbackStep
<1>. QED
    BY <1>1, <1>2 DEF FeedbackStep, FeedbackHandle, ApiTypeOK

-----------------------------------------------------------------------------
(* Steps of the environment: users, nodes, the garbage collector, watches, *)
(* restarts.                                                               *)
EnvironmentStep ==
    \/ \E c \in Cand : \/ SyncCandidate(c) \/ CollectGarbageStep(c)
                       \/ StartContainersStep(c) \/ EvictStep(c)
                       \/ CandidateCrashStep(c)
    \/ \E t \in Targets : SyncProxy(t)
    \/ UserStep

(* Types: a pod disappears and its cycle with it.                          *)
LEMMA PodGoneType ==
    ASSUME ApiTypeOK, CandidateTypeOK, CycleHasPod, NEW c \in Cand,
           PodGone(c), ForgetPod(c), mishaps' \in 0..MaxMishaps
    PROVE  /\ ApiTypeOK' /\ CandidateTypeOK' /\ CycleHasPod'
<1>1. ApiTypeOK'
    BY DEF PodGone, ApiTypeOK
<1>2. /\ CandidateTypeOK' /\ candCycle'[c] = "queued"
      /\ \A d \in Cand \ {c} : candCycle'[d] = candCycle[d]
    BY EnterType DEF ForgetPod, Stages
<1>3. \A d \in Cand \ {c} : pod'[d] = pod[d]
    BY DEF PodGone, ApiTypeOK
<1>. QED
    BY <1>1, <1>2, <1>3 DEF CycleHasPod

(* Types: informers, users, garbage collector, kubelets, restarts.         *)
LEMMA EnvironmentStepType ==
    ASSUME TypeOK, CycleHasPod, EnvironmentStep
    PROVE  TypeOK' /\ CycleHasPod'
<1>1. ASSUME NEW c \in Cand, SyncCandidate(c) PROVE TypeOK' /\ CycleHasPod'
  <2>1. CacheTypeOK'
    BY <1>1 DEF TypeOK, SyncCandidate, SyncChaperon, SyncPod, SyncChapSeen, CacheTypeOK,
       ApiTypeOK
  <2>. QED
    BY <1>1, <2>1 DEF TypeOK, SyncCandidate, ApiTypeOK, SchedulerTypeOK, CandidateTypeOK,
       CycleHasPod, apiVars, schedulerVars
<1>2. ASSUME NEW c \in Cand, CollectGarbageStep(c) PROVE TypeOK' /\ CycleHasPod'
    BY <1>2, PodGoneType DEF CollectGarbageStep, CollectGarbage, TypeOK, ApiTypeOK,
       CacheTypeOK, SchedulerTypeOK, cacheVars, schedulerVars
<1>3. ASSUME NEW c \in Cand, EvictStep(c) PROVE TypeOK' /\ CycleHasPod'
    BY <1>3, PodGoneType, MishapType DEF EvictStep, Evict, TypeOK,
       CacheTypeOK, SchedulerTypeOK, cacheVars, schedulerVars
<1>4. ASSUME NEW c \in Cand, pod[c] # None,
             \/ pod' = [pod EXCEPT ![c].status = "running"]
             \/ pod' = [pod EXCEPT ![c].extra = 1]
      PROVE  /\ pod' \in [Cand -> Pods \cup {None}]
             /\ pod'[c] # None /\ \A d \in Cand \ {c} : pod'[d] = pod[d]
    BY <1>4, NoneAssumption DEF TypeOK, ApiTypeOK, Pods, Status, Extras
<1>5. ASSUME NEW c \in Cand, StartContainersStep(c) PROVE TypeOK' /\ CycleHasPod'
  <2>1. ApiTypeOK' /\ CycleHasPod'
    BY <1>4, <1>5 DEF StartContainersStep, StartContainers, TypeOK, ApiTypeOK, CycleHasPod
  <2>. QED
    BY <1>5, <2>1 DEF StartContainersStep, TypeOK,
       CacheTypeOK, SchedulerTypeOK, CandidateTypeOK, cacheVars, schedulerVars
<1>6. ASSUME NEW t \in Targets, SyncProxy(t) PROVE TypeOK' /\ CycleHasPod'
  <2>1. CacheTypeOK'
    BY <1>6 DEF TypeOK, SyncProxy, SyncProxySeen, CacheTypeOK, ApiTypeOK
  <2>. QED
    BY <1>6, <2>1 DEF TypeOK, SyncProxy, ApiTypeOK, SchedulerTypeOK, CandidateTypeOK,
       CycleHasPod, apiVars, schedulerVars
<1>7. CASE UserStep
  <2>1. ASSUME CreateProxy PROVE ApiTypeOK'
    <3>1. lastUID + 1 \in UIDs
      BY <2>1, ConstantsAssumption DEF CreateProxy, TypeOK, ApiTypeOK, UIDs
    <3>. QED
      BY <2>1, <3>1, NewObjects DEF CreateProxy, TypeOK, ApiTypeOK
  <2>2. ASSUME DeleteProxy PROVE ApiTypeOK'
    BY <2>2 DEF DeleteProxy, Deleted, TypeOK, ApiTypeOK, ProxyPods
  <2>3. ASSUME NEW c \in Cand, DeleteChaperon(c) PROVE ApiTypeOK'
    BY <2>3, WithoutType, MishapType DEF DeleteChaperon, TypeOK, ApiTypeOK
  <2>4. ASSUME NEW c \in Cand, Annotate(c) PROVE ApiTypeOK' /\ CycleHasPod'
    BY <1>4, <1>7, <2>4 DEF Annotate, TypeOK, ApiTypeOK, CycleHasPod, UserStep
  <2>5. ApiTypeOK' /\ CycleHasPod'
    <3>1. CASE pod' = pod
      BY <1>7, <2>1, <2>2, <2>3, <2>4, <3>1
         DEF UserStep, CycleHasPod, CreateProxy, DeleteProxy, TypeOK, ApiTypeOK
    <3>2. CASE \E c \in Cand : Annotate(c)
      BY <2>4, <3>2
    <3>. QED
      BY <1>7, <3>1, <3>2 DEF UserStep, CreateProxy, DeleteProxy, DeleteChaperon
  <2>. QED
    BY <1>7, <2>5 DEF UserStep, TypeOK,
       CacheTypeOK, SchedulerTypeOK, CandidateTypeOK, cacheVars, schedulerVars
<1>8. ASSUME NEW c \in Cand, CandidateCrashStep(c) PROVE TypeOK' /\ CycleHasPod'
  <2>1. ApiTypeOK'
    BY <1>8, MishapType DEF CandidateCrashStep, CandidateCrash, TypeOK, ApiTypeOK
  <2>2. CandidateTypeOK' /\ CycleHasPod'
    BY <1>8, EnterType DEF CandidateCrashStep, CandidateCrash, TypeOK, CycleHasPod, Stages
  <2>. QED
    BY <1>8, <2>1, <2>2 DEF CandidateCrashStep, TypeOK,
       CacheTypeOK, SchedulerTypeOK, cacheVars, schedulerVars
<1>. QED
    BY <1>1, <1>2, <1>3, <1>5, <1>6, <1>7, <1>8 DEF EnvironmentStep

(* A step is one of these.                                                 *)
LEMMA NextCases ==
    ASSUME Next
    PROVE  \/ ProxySchedulerNext
           \/ \E c \in Cand : CandidateStep(c)
           \/ \E c \in Cand : ChaperonStep(c)
           \/ \E t \in Targets : FeedbackStep(t)
           \/ EnvironmentStep
BY DEF Next, EnvironmentStep

(* Next and stuttering preserve the types.                                 *)
LEMMA TypeStep ==
    ASSUME TypeOK, CycleHasPod, [Next]_vars
    PROVE  TypeOK' /\ CycleHasPod'
<1>1. CASE ProxySchedulerNext
  <2>1. UNCHANGED pod
    BY <1>1 DEF ProxySchedulerNext, SchedulerStep, StartCycle, Filter, FilterGivesUp, Select,
       PostFilter, Reserve, ReserveError, PreBind, PreBindTimeout, Bind, BindError,
       BindProxy, Bindable, PostBind,
       CreateTimesOut, LateCreate, Crash, apiVars
  <2>. QED
    BY <1>1, <2>1, SchedulerStepType DEF TypeOK, ProxySchedulerNext, CacheTypeOK,
       CandidateTypeOK, CycleHasPod, cacheVars
<1>2. ASSUME NEW c \in Cand, CandidateStep(c) PROVE TypeOK' /\ CycleHasPod'
    BY <1>2, CandidateStepType DEF TypeOK, CandidateStep, CacheTypeOK, SchedulerTypeOK,
       cacheVars, schedulerVars
<1>3. ASSUME NEW c \in Cand, ChaperonStep(c) PROVE TypeOK' /\ CycleHasPod'
    BY <1>3, ChaperonStepType DEF TypeOK, ChaperonStep, ChaperonHandle, CacheTypeOK,
       SchedulerTypeOK, CandidateTypeOK, cacheVars, schedulerVars
<1>4. ASSUME NEW t \in Targets, FeedbackStep(t) PROVE TypeOK' /\ CycleHasPod'
    BY <1>4, FeedbackStepType DEF TypeOK, FeedbackStep, FeedbackHandle, CacheTypeOK,
       SchedulerTypeOK, CandidateTypeOK, CycleHasPod, cacheVars, schedulerVars
<1>5. CASE UNCHANGED vars
    BY <1>5 DEF vars, TypeOK, ApiTypeOK, CacheTypeOK, SchedulerTypeOK, CandidateTypeOK,
       CycleHasPod, apiVars, cacheVars, schedulerVars
<1>. QED
    BY <1>1, <1>2, <1>3, <1>4, <1>5, NextCases, EnvironmentStepType

(* No candidate cycle is under way initially.                              *)
LEMMA InitCycleHasPod == Init => CycleHasPod
BY DEF Init, CandidateInit, CycleHasPod

(* Types: every object, cache and cycle stays well formed, in particular no *)
(* scheduler writes to an object that is gone.                             *)
THEOREM TypeCorrect == Spec => []TypeOK
<1>1. Init => TypeOK /\ CycleHasPod
    BY InitType, InitCycleHasPod
<1>2. TypeOK /\ CycleHasPod /\ [Next]_vars => (TypeOK /\ CycleHasPod)'
    BY TypeStep
<1>. QED
    BY <1>1, <1>2, PTL DEF Spec

-----------------------------------------------------------------------------
(* What a step makes of a chaperon: it is the same candidate as before with *)
(* the same status, still allowed if it was; or it is gone or was absent;  *)
(* or it is a new candidate under a name that nothing remembers.           *)
Kept(c) ==
    /\ chap[c] # None /\ chap'[c] # None
    /\ chap'[c].uid = chap[c].uid
    /\ chap[c].allowed => chap'[c].allowed
KeptStatus(c) == Kept(c) /\ chap'[c].status = chap[c].status
Appeared(c) ==
    /\ chap[c] = None /\ pod[c] = None /\ chapCache[c] = None /\ podCache[c] = None
    /\ chap'[c] \in Chaperons /\ chap'[c].status = "none"
ChapChange(c) == chap'[c] = None \/ KeptStatus(c) \/ Appeared(c)

(* An untouched chaperon.                                                  *)
LEMMA UnchangedChap ==
    ASSUME UNCHANGED chap, NEW c \in Cand PROVE ChapChange(c)
BY DEF ChapChange, KeptStatus, Kept

(* Chaperons are deleted.                                                  *)
LEMMA WithoutChap ==
    ASSUME ApiTypeOK, NEW D, chap' = Without(D), NEW c \in Cand PROVE ChapChange(c)
BY DEF ChapChange, KeptStatus, Kept, Without, ApiTypeOK

(* A chaperon is created under a fresh name.                               *)
LEMMA CreateChap ==
    ASSUME ApiTypeOK, NEW t \in Targets, NEW u \in UIDs, CreateCandidate(t, u), NEW c \in Cand
    PROVE  ChapChange(c)
<1>1. PICK n \in FreshNames(t) : chap' = [chap EXCEPT ![n] = MakeDelegatePod(u)]
    BY DEF CreateCandidate
<1>2. n \in Cand
    BY <1>1 DEF FreshNames
<1>3. CASE c = n
    BY <1>1, <1>2, <1>3, NewObjects
       DEF ChapChange, Appeared, FreshNames, ApiTypeOK, MakeDelegatePod
<1>4. CASE c # n
    BY <1>1, <1>2, <1>4 DEF ChapChange, KeptStatus, Kept, ApiTypeOK
<1>. QED
    BY <1>3, <1>4

(* A chaperon is allowed.                                                  *)
LEMMA AllowChap ==
    ASSUME ApiTypeOK, NEW d \in Cand, chap[d] # None, AllowCandidate(d), NEW c \in Cand
    PROVE  ChapChange(c)
BY NoneAssumption DEF ChapChange, KeptStatus, Kept, ApiTypeOK, AllowCandidate, Chaperons

(* What the proxy scheduler makes of a chaperon.                           *)
LEMMA SchedulerChap ==
    ASSUME ApiTypeOK, SchedulerTypeOK, ProxySchedulerNext, NEW c \in Cand
    PROVE  ChapChange(c)
<1>1. CASE UNCHANGED chap
    BY <1>1, UnchangedChap
<1>2. CASE \E D : chap' = Without(D)
    BY <1>2, WithoutChap
<1>3. CASE \E t \in Targets, u \in UIDs : CreateCandidate(t, u)
    BY <1>3, CreateChap
<1>4. CASE \E d \in Cand : chap[d] # None /\ AllowCandidate(d)
    BY <1>4, AllowChap
<1>5. ASSUME NEW t \in Targets, Filter(t)
      PROVE  UNCHANGED chap \/ (CreateCandidate(t, cycle.uid) /\ cycle.uid \in UIDs)
    BY <1>5 DEF Filter, Poll, SchedulerTypeOK
<1>6. ASSUME Reserve
      PROVE  \/ UNCHANGED chap
             \/ /\ CreateCandidate(cycle.node, cycle.uid)
                /\ cycle.uid \in UIDs /\ cycle.node \in Targets
             \/ \E d \in Cand : chap[d] # None /\ AllowCandidate(d)
    BY <1>6 DEF Reserve, SchedulerTypeOK, Candidates
<1>7. ASSUME ReserveError
      PROVE  \/ UNCHANGED chap
             \/ \E d \in Cand : chap[d] # None /\ AllowCandidate(d)
    BY <1>7 DEF ReserveError, Candidates
<1>8. ASSUME PostBind PROVE \E D : chap' = Without(D)
    BY <1>8 DEF PostBind
<1>9. ASSUME NEW t \in Targets, NEW u \in UIDs, LateCreate(t, u) PROVE CreateCandidate(t, u)
    BY <1>9 DEF LateCreate
<1>. QED
    BY <1>1, <1>2, <1>3, <1>4, <1>5, <1>6, <1>7, <1>8, <1>9
       DEF ProxySchedulerNext, SchedulerStep, StartCycle, FilterGivesUp, Select, PostFilter,
       PreBind, PreBindTimeout, Bind, BindError, CreateTimesOut, Crash, apiVars

(* A step that leaves pods, their cycles, caches and history alone and     *)
(* changes chaperons only in these ways preserves what is said of them.    *)
LEMMA ChapChangeSafe ==
    ASSUME IndInv, TypeOK', \A c \in Cand : ChapChange(c),
           UNCHANGED <<pod, candCycle, chapCache, podCache, everBound>>
    PROVE  SameParent' /\ BoundIsRecorded' /\ AllowedBeforeBind' /\ BoundOnlyIfAllowed'
<1>1. SameParent'
    BY DEF IndInv, SameParent, Agree, ChapChange, KeptStatus, Kept, Appeared
<1>2. BoundIsRecorded'
    BY DEF IndInv, BoundIsRecorded, Recorded, ChapChange, KeptStatus, Kept, Appeared, IsScheduled
<1>3. AllowedBeforeBind'
    BY DEF IndInv, AllowedBeforeBind, CycleHasPod, ChapChange, KeptStatus, Kept, Appeared
<1>4. BoundOnlyIfAllowed'
    BY DEF IndInv, BoundOnlyIfAllowed, ChapChange, KeptStatus, Kept, Appeared
<1>. QED
    BY <1>1, <1>2, <1>3, <1>4

(* IndInv is preserved by the proxy scheduler.                             *)
LEMMA SchedulerSafe ==
    ASSUME IndInv, TypeOK', ProxySchedulerNext
    PROVE  IndInv'
<1>1. UNCHANGED <<pod, candCycle, chapCache, podCache, everBound>>
    BY DEF ProxySchedulerNext, SchedulerStep, StartCycle, Filter, FilterGivesUp, Select,
       PostFilter, Reserve, ReserveError, PreBind, PreBindTimeout, Bind, BindError,
       BindProxy, Bindable, PostBind,
       CreateTimesOut, LateCreate, Crash, apiVars, cacheVars
<1>2. SameParent' /\ BoundIsRecorded' /\ AllowedBeforeBind' /\ BoundOnlyIfAllowed'
    BY <1>1, SchedulerChap, ChapChangeSafe DEF IndInv, TypeOK
<1>3. CycleHasPod'
    BY <1>1 DEF IndInv, CycleHasPod
<1>4. DelegateBeforeProxy'
  <2>1. CASE PreBind
    <3>1. ASSUME NEW c \in Candidates(cycle.node, cycle.uid), IsScheduled(chap[c].status)
          PROVE  <<cycle.node, cycle.uid>> \in everBound
      BY <3>1 DEF Candidates, IndInv, BoundIsRecorded, Recorded
    <3>2. Unreserve \/ \E c \in Candidates(cycle.node, cycle.uid) :
                          IsScheduled(chap[c].status) /\ Advance("bind")
      BY <2>1 DEF PreBind
    <3>. QED
      BY <1>1, <3>1, <3>2 DEF Unreserve, Advance, Idle, DelegateBeforeProxy, IndInv, TypeOK,
         SchedulerTypeOK
  <2>2. CASE Bind
    BY <1>1, <2>2 DEF Bind, Unreserve, Advance, Idle, DelegateBeforeProxy, IndInv, TypeOK,
       SchedulerTypeOK
  <2>3. CASE cycle'.phase \notin {"bind", "postbind"} \/ cycle' = cycle
    BY <1>1, <2>3 DEF DelegateBeforeProxy, IndInv
  <2>4. CASE Unreserve \/ cycle' = Idle
    BY <2>3, <2>4 DEF Unreserve, Idle
  <2>5. ASSUME NEW t \in Targets, NEW v, cycle.phase = "filter", Decide(t, v)
        PROVE  cycle'.phase \notin {"bind", "postbind"}
    BY <2>5 DEF Decide, IndInv, TypeOK, SchedulerTypeOK
  <2>6. CASE \E t \in Targets : Filter(t) \/ FilterGivesUp(t)
    BY <2>3, <2>5, <2>6 DEF Filter, FilterGivesUp, Poll
  <2>7. CASE StartCycle \/ (\E t \in Targets : Select(t))
    <3>1. StartCycle => cycle'.phase = "filter"
      BY DEF StartCycle
    <3>2. \A t \in Targets : Select(t) => cycle'.phase = "reserve"
      BY DEF Select, IndInv, TypeOK, SchedulerTypeOK
    <3>. QED
      BY <2>3, <2>7, <3>1, <3>2
  <2>8. ASSUME Reserve PROVE Unreserve \/ cycle'.phase = "prebind"
    BY <2>8 DEF Reserve, Advance, IndInv, TypeOK, SchedulerTypeOK
  <2>9. ASSUME NEW t \in Targets, CreateTimesOut(t)
        PROVE  Unreserve \/ cycle'.phase \notin {"bind", "postbind"}
    BY <2>5, <2>9 DEF CreateTimesOut
  <2>. QED
    BY <2>1, <2>2, <2>3, <2>4, <2>6, <2>7, <2>8, <2>9 DEF ProxySchedulerNext, SchedulerStep,
       PostFilter, ReserveError, PreBindTimeout, BindError, PostBind, LateCreate, Crash
<1>5. ProxyFollowsDelegate'
  <2>1. CASE Bind \/ BindError
    BY <1>1, <2>1 DEF Bind, BindError, BindProxy, Bindable, IndInv, TypeOK, ApiTypeOK, ProxyPods, ProxyFollowsDelegate,
       DelegateBeforeProxy
  <2>2. CASE UNCHANGED proxy
    BY <1>1, <2>2 DEF IndInv, ProxyFollowsDelegate
  <2>. QED
    BY <2>1, <2>2 DEF ProxySchedulerNext, SchedulerStep, StartCycle, Filter,
       FilterGivesUp, Select, PostFilter, Reserve, ReserveError, PreBind, PreBindTimeout,
       PostBind, CreateTimesOut, LateCreate, Crash, apiVars
<1>. QED
    BY <1>2, <1>3, <1>4, <1>5 DEF IndInv

(* IndInv is preserved by the candidate schedulers.                        *)
LEMMA CandidateSafe ==
    ASSUME IndInv, TypeOK', CycleHasPod', NEW c \in Cand, CandidateStep(c)
    PROVE  IndInv'
<1>0. /\ pod[c] # None
      /\ UNCHANGED <<proxy, chapCache, podCache, cycle>>
      /\ everBound \subseteq everBound'
    BY DEF IndInv, CandidateStep, CycleHasPod, PreFilter, Unschedulable, CandidateReserve,
       CandidatePreBind, CandidatePreBindTimeout, CandidateBind, CandidateBindFails,
       OtherSchedulerBinds, OtherSchedulerFails, BindPod, apiVars, cacheVars, schedulerVars
<1>1. /\ DelegateBeforeProxy'
      /\ ProxyFollowsDelegate'
    BY <1>0 DEF IndInv, DelegateBeforeProxy, ProxyFollowsDelegate
(* the steps that fail a cycle, and those of a scheduler that fails        *)
<1>2. ASSUME NEW s \in {"error", "unschedulable"}, SetStatus(c, s),
             UNCHANGED <<chap, everBound>>, UNCHANGED candCycle \/ Enter(c, "queued")
      PROVE  IndInv'
  <2>1. /\ pod'[c] # None /\ pod'[c].status = s /\ pod'[c].uid = pod[c].uid
        /\ \A d \in Cand \ {c} : pod'[d] = pod[d]
    BY <1>0, <1>2, SetStatusType DEF IndInv, TypeOK, Status
  <2>2. \A d \in Cand : candCycle'[d] = "bind" => candCycle[d] = "bind"
    BY <1>2 DEF Enter, IndInv, TypeOK, CandidateTypeOK
  <2>3. SameParent'
    BY <1>0, <1>2, <2>1 DEF IndInv, SameParent, Agree
  <2>4. BoundIsRecorded'
    BY <1>0, <1>2, <2>1 DEF IndInv, BoundIsRecorded, Recorded, IsScheduled
  <2>5. AllowedBeforeBind'
    BY <1>2, <2>2 DEF IndInv, AllowedBeforeBind
  <2>6. BoundOnlyIfAllowed'
    BY <1>2, <2>1 DEF IndInv, BoundOnlyIfAllowed, IsScheduled
  <2>. QED
    BY <1>1, <2>3, <2>4, <2>5, <2>6 DEF IndInv
(* the steps that move on, having patched the chaperon or seen it allowed  *)
<1>3. ASSUME NEW st \in Stages, Enter(c, st), UNCHANGED <<pod, everBound>>,
             \/ UNCHANGED chap
             \/ chap[c] # None /\ \E b \in BOOLEAN : PatchReserved(c, b),
             st = "bind" => chap[c] # None /\ chap[c].allowed
      PROVE  IndInv'
  <2>1. \A d \in Cand : chap'[d] # None =>
            /\ chap[d] # None /\ chap'[d].uid = chap[d].uid
            /\ chap'[d].allowed = chap[d].allowed /\ chap'[d].status = chap[d].status
    BY <1>3, PatchReservedType DEF IndInv, TypeOK
  <2>2. candCycle'[c] = st /\ \A d \in Cand \ {c} : candCycle'[d] = candCycle[d]
    BY <1>3, EnterType DEF IndInv, TypeOK
  <2>3. SameParent'
    BY <1>0, <1>3, <2>1 DEF IndInv, SameParent, Agree
  <2>4. BoundIsRecorded'
    BY <1>0, <1>3, <2>1 DEF IndInv, BoundIsRecorded, Recorded
  <2>5. AllowedBeforeBind'
    BY <1>3, <2>1, <2>2 DEF IndInv, AllowedBeforeBind
  <2>6. BoundOnlyIfAllowed'
    BY <1>3, <2>1 DEF IndInv, BoundOnlyIfAllowed
  <2>. QED
    BY <1>1, <2>3, <2>4, <2>5, <2>6 DEF IndInv
(* the steps that bind the pod                                             *)
<1>4. ASSUME BindPod(c), UNCHANGED candCycle \/ Enter(c, "queued"),
             NoReservation \/ candCycle[c] = "bind"
      PROVE  IndInv'
  <2>1. /\ pod'[c] # None /\ pod'[c].status = "bound" /\ pod'[c].uid = pod[c].uid
        /\ \A d \in Cand \ {c} : pod'[d] = pod[d]
    BY <1>0, <1>4, SetStatusType DEF BindPod, IndInv, TypeOK, Status
  <2>2. \A d \in Cand : candCycle'[d] = "bind" => candCycle[d] = "bind"
    BY <1>4 DEF Enter, IndInv, TypeOK, CandidateTypeOK
  <2>3. SameParent'
    BY <1>0, <1>4, <2>1 DEF IndInv, SameParent, Agree, BindPod
  <2>4. BoundIsRecorded'
    BY <1>0, <1>4, <2>1 DEF IndInv, BoundIsRecorded, Recorded, BindPod
  <2>5. AllowedBeforeBind'
    BY <1>4, <2>2 DEF IndInv, AllowedBeforeBind, BindPod
  <2>6. BoundOnlyIfAllowed'
    BY <1>4, <2>1 DEF IndInv, BoundOnlyIfAllowed, AllowedBeforeBind, BindPod
  <2>. QED
    BY <1>1, <2>3, <2>4, <2>5, <2>6 DEF IndInv
<1>5. CASE PreFilter(c) \/ CandidateReserve(c)
    BY <1>2, <1>3, <1>5 DEF PreFilter, CandidateReserve, CycleFails, Stages
<1>6. CASE Unschedulable(c) \/ CandidatePreBindTimeout(c) \/ CandidateBindFails(c)
    BY <1>2, <1>6 DEF Unschedulable, CandidatePreBindTimeout, CandidateBindFails, CycleFails
<1>7. CASE CandidatePreBind(c)
    BY <1>3, <1>7 DEF CandidatePreBind, IsAllowed, apiVars, Stages
<1>8. CASE CandidateBind(c) \/ OtherSchedulerBinds(c)
    BY <1>4, <1>8 DEF CandidateBind, OtherSchedulerBinds
<1>9. CASE OtherSchedulerFails(c)
    BY <1>2, <1>9 DEF OtherSchedulerFails
<1>. QED
    BY <1>5, <1>6, <1>7, <1>8, <1>9 DEF CandidateStep

(* IndInv is preserved by the chaperon controllers.                        *)
LEMMA ChaperonSafe ==
    ASSUME IndInv, TypeOK', CycleHasPod', NEW c \in Cand, ChaperonStep(c)
    PROVE  IndInv'
<1> DEFINE k == CachedChaperon(c)
           p == CachedPod(c)
<1>0. PICK overdue \in BOOLEAN : ChaperonHandle(c, overdue)
    BY DEF ChaperonStep
<1>1. k \in Chaperons /\ p \in Pods \cup {None}
    BY <1>0, ViewTypes DEF ChaperonHandle, IndInv, TypeOK
<1>2. UNCHANGED <<proxy, everBound, chapCache, podCache, candCycle, cycle>>
    BY <1>0 DEF ChaperonHandle, ChaperonStep, cacheVars, schedulerVars
<1>3. DelegateBeforeProxy' /\ ProxyFollowsDelegate'
    BY <1>2 DEF IndInv, DelegateBeforeProxy, ProxyFollowsDelegate
(* the chaperon keeps all but its status, which is its old one or a pod's  *)
<1>4. ASSUME \A d \in Cand : chap'[d] = None \/ Kept(d),
             \A d \in Cand : chap'[d] # None =>
                 \/ chap'[d].status = chap[d].status
                 \/ ~IsScheduled(chap'[d].status)
                 \/ <<d[1], chap'[d].uid>> \in everBound,
             \A d \in Cand :
                 \/ pod'[d] = pod[d]
                 \/ /\ pod[d] = None /\ pod'[d] \in Pods /\ pod'[d].status = "pending"
                    /\ Agree(chap[d], pod'[d]) /\ Agree(pod'[d], chapCache[d])
                    /\ Agree(pod'[d], podCache[d])
      PROVE  IndInv'
  <2>1. SameParent'
    BY <1>2, <1>4 DEF IndInv, SameParent, Agree, Kept
  <2>2. BoundIsRecorded'
    BY <1>2, <1>4 DEF IndInv, BoundIsRecorded, Recorded, Kept, IsScheduled
  <2>3. AllowedBeforeBind'
    BY <1>2, <1>4 DEF IndInv, AllowedBeforeBind, Kept
  <2>4. BoundOnlyIfAllowed'
    BY <1>2, <1>4 DEF IndInv, BoundOnlyIfAllowed, Kept, IsScheduled
  <2>. QED
    BY <1>3, <2>1, <2>2, <2>3, <2>4 DEF IndInv
<1>5. ASSUME NEW q \in Pods, Reflect(c, k, q)
      PROVE  /\ \A d \in Cand : chap'[d] = None \/ Kept(d)
             /\ \A d \in Cand \ {c} : chap'[d] = chap[d]
             /\ chap'[c] # None => chap'[c].status \in {chap[c].status, q.status}
    BY <1>1, <1>5, ReflectionFacts DEF Reflect, Kept, IndInv, TypeOK, ApiTypeOK
<1>6. CASE CreatePod(c, k)
  <2>1. NewPod(k) \in Pods /\ NewPod(k).status = "pending" /\ NewPod(k).uid = k.uid
    BY <1>1, NewPodType DEF NewPod
  <2>2. /\ Agree(chap[c], NewPod(k)) /\ Agree(NewPod(k), chapCache[c])
        /\ Agree(NewPod(k), podCache[c])
    BY <1>1, <2>1, NoneAssumption DEF Agree, CachedChaperon, IndInv, SameParent
  <2>3. /\ pod[c] = None /\ pod'[c] = NewPod(k)
        /\ \A d \in Cand \ {c} : pod'[d] = pod[d]
    BY <1>6 DEF CreatePod, IndInv, TypeOK, ApiTypeOK
  <2>4. CASE UNCHANGED chap
    BY <1>4, <2>1, <2>2, <2>3, <2>4 DEF Kept
  <2>5. CASE Reflect(c, k, NewPod(k))
    BY <1>4, <1>5, <2>1, <2>2, <2>3, <2>5 DEF IsScheduled
  <2>. QED
    BY <1>6, <2>4, <2>5 DEF CreatePod
<1>7. CASE MarkMissing(c)
  <2>1. \A d \in Cand : /\ chap'[d] = None \/ Kept(d)
                        /\ chap'[d] # None => chap'[d].status = chap[d].status
    BY <1>7, NoneAssumption DEF MarkMissing, Kept, IndInv, TypeOK, ApiTypeOK, Chaperons
  <2>. QED
    BY <1>4, <1>7, <2>1 DEF MarkMissing
<1>8. CASE p # None /\ Reflect(c, k, p) /\ UNCHANGED pod
  <2>1. p.status = chap'[c].status /\ chap'[c] # None /\ IsScheduled(p.status)
            => <<c[1], chap'[c].uid>> \in everBound
    BY <1>1, <1>5, <1>8 DEF CachedPod, IndInv, BoundIsRecorded, Recorded, SameParent, Agree, Kept
  <2>. QED
    BY <1>1, <1>4, <1>5, <1>8, <2>1
<1>. QED
    BY <1>0, <1>6, <1>7, <1>8 DEF ChaperonHandle

(* IndInv is preserved by the feedback controllers.                        *)
LEMMA FeedbackSafe ==
    ASSUME IndInv, TypeOK', CycleHasPod', NEW t \in Targets, FeedbackStep(t)
    PROVE  IndInv'
<1>1. UNCHANGED <<pod, candCycle, chapCache, podCache, everBound, cycle>>
    BY DEF FeedbackStep, FeedbackHandle, cacheVars, schedulerVars
<1>2. \A c \in Cand : ChapChange(c)
    BY FeedbackChap, UnchangedChap, WithoutChap DEF FeedbackStep, IndInv, TypeOK
<1>3. SameParent' /\ BoundIsRecorded' /\ AllowedBeforeBind' /\ BoundOnlyIfAllowed'
    BY <1>1, <1>2, ChapChangeSafe
<1>4. DelegateBeforeProxy'
    BY <1>1 DEF IndInv, DelegateBeforeProxy
<1>5. ProxyFollowsDelegate'
    BY <1>1, FeedbackProxy DEF FeedbackStep, IndInv, TypeOK, ProxyFollowsDelegate
<1>. QED
    BY <1>3, <1>4, <1>5 DEF IndInv

(* IndInv is preserved by everything else.                                 *)
LEMMA EnvironmentSafe ==
    ASSUME IndInv, TypeOK', CycleHasPod', EnvironmentStep
    PROVE  IndInv'
<1>1. ASSUME NEW c \in Cand, SyncCandidate(c) PROVE IndInv'
  <2>1. SameParent'
    BY <1>1 DEF IndInv, TypeOK, ApiTypeOK, CacheTypeOK, SyncCandidate, SyncChaperon, SyncPod,
       SyncChapSeen, SameParent, Agree, apiVars
  <2>2. BoundIsRecorded'
    BY <1>1 DEF IndInv, TypeOK, ApiTypeOK, CacheTypeOK, SyncCandidate, SyncChaperon, SyncPod,
       SyncChapSeen, BoundIsRecorded, Recorded, apiVars
  <2>. QED
    BY <1>1, <2>1, <2>2 DEF IndInv, SyncCandidate, AllowedBeforeBind, DelegateBeforeProxy,
       BoundOnlyIfAllowed, ProxyFollowsDelegate, apiVars, schedulerVars
<1>2. ASSUME NEW t \in Targets, SyncProxy(t) PROVE IndInv'
    BY <1>2 DEF IndInv, SyncProxy, SyncProxySeen, SameParent, BoundIsRecorded, Recorded,
       AllowedBeforeBind, DelegateBeforeProxy, BoundOnlyIfAllowed, ProxyFollowsDelegate,
       apiVars, schedulerVars
<1>3. ASSUME NEW c \in Cand, PodGone(c), ForgetPod(c), UNCHANGED <<cacheVars, schedulerVars>>
      PROVE  IndInv'
  <2>1. \A d \in Cand : pod'[d] = None \/ pod'[d] = pod[d]
    BY <1>3 DEF PodGone, IndInv, TypeOK, ApiTypeOK
  <2>2. \A d \in Cand : candCycle'[d] = "bind" => candCycle[d] = "bind"
    BY <1>3 DEF ForgetPod, Enter, IndInv, TypeOK, CandidateTypeOK
  <2>3. SameParent' /\ BoundIsRecorded'
    BY <1>3, <2>1 DEF IndInv, PodGone, SameParent, Agree, BoundIsRecorded, Recorded, cacheVars
  <2>4. AllowedBeforeBind' /\ BoundOnlyIfAllowed'
    BY <1>3, <2>1, <2>2 DEF IndInv, PodGone, AllowedBeforeBind, BoundOnlyIfAllowed
  <2>. QED
    BY <1>3, <2>3, <2>4 DEF IndInv, PodGone, DelegateBeforeProxy, ProxyFollowsDelegate,
       schedulerVars
<1>4. ASSUME NEW c \in Cand, pod[c] # None,
             \/ pod[c].status = "bound" /\ pod' = [pod EXCEPT ![c].status = "running"]
             \/ pod' = [pod EXCEPT ![c].extra = 1],
             UNCHANGED <<proxy, chap, everBound, cacheVars, schedulerVars, candCycle>>
      PROVE  IndInv'
  <2>1. \A d \in Cand : pod'[d] # None =>
            /\ pod[d] # None /\ pod'[d].uid = pod[d].uid
            /\ IsScheduled(pod'[d].status) => IsScheduled(pod[d].status)
    BY <1>4, NoneAssumption DEF IndInv, TypeOK, ApiTypeOK, Pods, IsScheduled
  <2>2. SameParent' /\ BoundIsRecorded'
    BY <1>4, <2>1 DEF IndInv, SameParent, Agree, BoundIsRecorded, Recorded, cacheVars
  <2>3. AllowedBeforeBind' /\ BoundOnlyIfAllowed'
    BY <1>4, <2>1 DEF IndInv, AllowedBeforeBind, BoundOnlyIfAllowed
  <2>. QED
    BY <1>4, <2>2, <2>3 DEF IndInv, DelegateBeforeProxy, ProxyFollowsDelegate, schedulerVars
<1>5. CASE UserStep
  <2>1. ASSUME CreateProxy \/ DeleteProxy PROVE ProxyFollowsDelegate' /\ UNCHANGED <<chap, pod, everBound>>
    BY <2>1 DEF CreateProxy, NewProxy, DeleteProxy, Deleted, IndInv, TypeOK, ApiTypeOK,
       ProxyPods, ProxyFollowsDelegate
  <2>2. ASSUME NEW c \in Cand, DeleteChaperon(c)
        PROVE  /\ \A d \in Cand : ChapChange(d)
               /\ UNCHANGED <<pod, everBound, proxy>>
    BY <2>2, WithoutChap DEF DeleteChaperon, IndInv, TypeOK
  <2>3. CASE \E c \in Cand : Annotate(c)
    BY <1>4, <1>5, <2>3 DEF UserStep, Annotate
  <2>4. CASE CreateProxy \/ DeleteProxy \/ \E c \in Cand : DeleteChaperon(c)
    <3>1. /\ \A d \in Cand : ChapChange(d)
          /\ UNCHANGED <<pod, everBound>>
          /\ ProxyFollowsDelegate'
      BY <2>1, <2>2, <2>4, UnchangedChap DEF IndInv, ProxyFollowsDelegate
    <3>2. SameParent' /\ BoundIsRecorded' /\ AllowedBeforeBind' /\ BoundOnlyIfAllowed'
      BY <1>5, <3>1, ChapChangeSafe DEF UserStep, cacheVars
    <3>. QED
      BY <1>5, <3>1, <3>2 DEF IndInv, UserStep, DelegateBeforeProxy, schedulerVars
  <2>. QED
    BY <1>5, <2>3, <2>4 DEF UserStep
<1>6. ASSUME NEW c \in Cand, CollectGarbageStep(c) \/ EvictStep(c) PROVE IndInv'
    BY <1>3, <1>6 DEF CollectGarbageStep, CollectGarbage, EvictStep, Evict
<1>7. ASSUME NEW c \in Cand, StartContainersStep(c) PROVE IndInv'
    BY <1>4, <1>7 DEF StartContainersStep, StartContainers
<1>8. ASSUME NEW c \in Cand, CandidateCrashStep(c) PROVE IndInv'
  <2>1. \A d \in Cand : candCycle'[d] = "bind" => candCycle[d] = "bind"
    BY <1>8 DEF CandidateCrashStep, CandidateCrash, Enter, IndInv, TypeOK, CandidateTypeOK
  <2>. QED
    BY <1>8, <2>1 DEF CandidateCrashStep, CandidateCrash, IndInv, SameParent, BoundIsRecorded,
       Recorded, AllowedBeforeBind, DelegateBeforeProxy, BoundOnlyIfAllowed,
       ProxyFollowsDelegate, cacheVars, schedulerVars
<1>. QED
    BY <1>1, <1>2, <1>5, <1>6, <1>7, <1>8 DEF EnvironmentStep

(* IndInv is preserved by every step.                                      *)
LEMMA IndInvStep ==
    ASSUME IndInv, [Next]_vars PROVE IndInv'
<1>1. TypeOK' /\ CycleHasPod'
    BY TypeStep DEF IndInv
<1>2. CASE UNCHANGED vars
    BY <1>1, <1>2 DEF IndInv, vars, SameParent, BoundIsRecorded, Recorded, AllowedBeforeBind,
       DelegateBeforeProxy, BoundOnlyIfAllowed, ProxyFollowsDelegate, apiVars, cacheVars,
       schedulerVars
<1>. QED
    BY <1>1, <1>2, NextCases, SchedulerSafe, CandidateSafe, ChaperonSafe, FeedbackSafe,
       EnvironmentSafe

(* IndInv holds initially.                                                 *)
LEMMA InitIndInv == Init => IndInv
<1> SUFFICES ASSUME Init PROVE IndInv
    OBVIOUS
<1>1. TypeOK /\ CycleHasPod
    BY InitType, InitCycleHasPod
<1>2. SameParent /\ BoundIsRecorded /\ AllowedBeforeBind /\ BoundOnlyIfAllowed
    BY DEF Init, ApiInit, CacheInit, SameParent, Agree, BoundIsRecorded, Recorded,
       AllowedBeforeBind, BoundOnlyIfAllowed
<1>3. DelegateBeforeProxy /\ ProxyFollowsDelegate
    BY DEF Init, ApiInit, NewProxy, SchedulerInit, Idle, DelegateBeforeProxy,
       ProxyFollowsDelegate
<1>. QED
    BY <1>1, <1>2, <1>3 DEF IndInv

(* IndInv is an invariant.                                                 *)
LEMMA Inductive == Spec => []IndInv
BY InitIndInv, IndInvStep, PTL DEF Spec

(* No candidate pod is bound before the proxy scheduler has elected it,    *)
(* whatever the delays of the caches and the failures of the calls.        *)
THEOREM ElectionRespected == Spec => []BoundOnlyIfAllowed
<1>1. IndInv => BoundOnlyIfAllowed
    BY DEF IndInv
<1>. QED
    BY <1>1, Inductive, PTL

(* No proxy pod is bound to a virtual node before its delegate was bound   *)
(* in the target cluster.                                                  *)
THEOREM DelegateFirst == Spec => []ProxyFollowsDelegate
<1>1. IndInv => ProxyFollowsDelegate
    BY DEF IndInv
<1>. QED
    BY <1>1, Inductive, PTL

-----------------------------------------------------------------------------
(* Only the proxy scheduler creates chaperons; what other steps leave of a *)
(* chaperon keeps its parent and its election.                             *)
LEMMA OthersKeep ==
    ASSUME TypeOK, CycleHasPod, NEW c \in Cand,
           \/ \E d \in Cand : CandidateStep(d) \/ ChaperonStep(d)
           \/ \E t \in Targets : FeedbackStep(t)
           \/ EnvironmentStep
    PROVE  chap'[c] = None \/ Kept(c)
<1>1. ASSUME UNCHANGED chap PROVE chap'[c] = None \/ Kept(c)
    BY <1>1 DEF Kept
<1>2. ASSUME NEW D, chap' = Without(D) PROVE chap'[c] = None \/ Kept(c)
    BY <1>2 DEF Kept, Without, TypeOK, ApiTypeOK
<1>3. ASSUME NEW d \in Cand, CandidateStep(d) PROVE chap'[c] = None \/ Kept(c)
  <2>1. \/ UNCHANGED chap
        \/ chap[d] # None /\ \E b \in BOOLEAN : PatchReserved(d, b)
    BY <1>3 DEF CandidateStep, PreFilter, Unschedulable, CandidateReserve,
       CandidatePreBind, CandidatePreBindTimeout, CandidateBind, CandidateBindFails,
       OtherSchedulerBinds, OtherSchedulerFails, BindPod, apiVars
  <2>. QED
    BY <1>1, <2>1, PatchReservedType DEF Kept, TypeOK
<1>4. ASSUME NEW d \in Cand, ChaperonStep(d) PROVE chap'[c] = None \/ Kept(c)
  <2> DEFINE k == CachedChaperon(d)
             p == CachedPod(d)
  <2>1. PICK overdue \in BOOLEAN : ChaperonHandle(d, overdue)
    BY <1>4 DEF ChaperonStep
  <2>2. k \in Chaperons /\ p \in Pods \cup {None} /\ NewPod(k) \in Pods
    BY <2>1, ViewTypes, NewPodType DEF ChaperonHandle, TypeOK
  <2>3. ASSUME NEW q \in Pods, Reflect(d, k, q) PROVE chap'[c] = None \/ Kept(c)
    BY <2>2, <2>3, ReflectionFacts DEF Reflect, Kept, TypeOK, ApiTypeOK
  <2>4. CASE MarkMissing(d)
    BY <2>4, NoneAssumption DEF MarkMissing, Kept, TypeOK, ApiTypeOK, Chaperons
  <2>. QED
    BY <1>1, <2>1, <2>2, <2>3, <2>4 DEF ChaperonHandle, CreatePod
<1>5. ASSUME NEW t \in Targets, FeedbackStep(t) PROVE chap'[c] = None \/ Kept(c)
    BY <1>1, <1>2, <1>5, FeedbackChap DEF FeedbackStep
<1>6. ASSUME EnvironmentStep PROVE UNCHANGED chap \/ \E D : chap' = Without(D)
    BY <1>6 DEF EnvironmentStep, SyncCandidate, CollectGarbageStep, CollectGarbage, PodGone,
       StartContainersStep, StartContainers, EvictStep, Evict, SyncProxy, UserStep,
       CreateProxy, DeleteProxy, DeleteChaperon, Annotate, apiVars, CandidateCrashStep,
       CandidateCrash
<1>. QED
    BY <1>1, <1>2, <1>3, <1>4, <1>5, <1>6

(* An election is never taken back by a later write to the chaperon.       *)
THEOREM ElectionIsFinal == Spec => AllowedIsKept
<1>1. TypeOK /\ CycleHasPod /\ Next => KeepsAllowed
  <2> SUFFICES ASSUME TypeOK, CycleHasPod, Next PROVE KeepsAllowed
    OBVIOUS
  <2>1. CASE ProxySchedulerNext
    BY <2>1, SchedulerChap DEF ChapChange, KeptStatus, Kept, Appeared, TypeOK, KeepsAllowed
  <2>. QED
    BY <2>1, NextCases, OthersKeep DEF Kept, KeepsAllowed
<1>2. TypeOK /\ CycleHasPod /\ [Next]_vars => (TypeOK /\ CycleHasPod)'
    BY TypeStep
<1>3. Init => TypeOK /\ CycleHasPod
    BY InitType, InitCycleHasPod
<1>. QED
    BY <1>1, <1>2, <1>3, PTL DEF Spec, AllowedIsKept

(* Writers of the proxy pod never undo each other's writes.                *)
THEOREM ProxyUpdatesKept == Spec => NoLostUpdate
<1>1. TypeOK /\ CycleHasPod /\ Next => ProxyAdvances
  <2> SUFFICES ASSUME TypeOK, CycleHasPod, Next PROVE ProxyAdvances
    OBVIOUS
  <2>1. ASSUME UNCHANGED proxy PROVE ProxyAdvances
    BY <2>1 DEF ProxyAdvances, TypeOK, ApiTypeOK, ProxyPods
  <2>2. CASE \E t \in Targets : FeedbackStep(t)
    BY <2>2, FeedbackProxy DEF FeedbackStep, TypeOK, ProxyAdvances
  <2>3. CASE ProxySchedulerNext
    <3>1. CASE Bind \/ BindError
      BY <3>1 DEF Bind, BindError, BindProxy, Bindable, ProxyAdvances, TypeOK, ApiTypeOK, ProxyPods
    <3>. QED
      BY <2>1, <2>3, <3>1 DEF ProxySchedulerNext, SchedulerStep, StartCycle, Filter,
         FilterGivesUp, Select, PostFilter, Reserve, ReserveError, PreBind, PreBindTimeout,
         PostBind, CreateTimesOut, LateCreate, Crash, apiVars
  <2>4. CASE EnvironmentStep
    <3>1. CASE CreateProxy
      BY <3>1 DEF CreateProxy, ProxyAdvances
    <3>2. CASE DeleteProxy
      BY <3>2 DEF DeleteProxy, ProxyAdvances, Deleted, TypeOK, ApiTypeOK, ProxyPods
    <3>. QED
      BY <2>1, <2>4, <3>1, <3>2 DEF EnvironmentStep, SyncCandidate, CollectGarbageStep,
         CollectGarbage, PodGone, StartContainersStep, StartContainers, EvictStep, Evict,
         SyncProxy, UserStep, DeleteChaperon, Annotate, apiVars, CandidateCrashStep,
         CandidateCrash
  <2>5. CASE \E c \in Cand : CandidateStep(c) \/ ChaperonStep(c)
    BY <2>1, <2>5 DEF CandidateStep, PreFilter, Unschedulable, CandidateReserve,
       CandidatePreBind, CandidatePreBindTimeout, CandidateBind, CandidateBindFails,
       OtherSchedulerBinds, OtherSchedulerFails, BindPod, apiVars, ChaperonStep, ChaperonHandle
  <2>. QED
    BY <2>2, <2>3, <2>4, <2>5, NextCases
<1>2. TypeOK /\ CycleHasPod /\ [Next]_vars => (TypeOK /\ CycleHasPod)'
    BY TypeStep
<1>3. Init => TypeOK /\ CycleHasPod
    BY InitType, InitCycleHasPod
<1>. QED
    BY <1>1, <1>2, <1>3, PTL DEF Spec, NoLostUpdate

-----------------------------------------------------------------------------
(* Without late Create calls none is ever in flight.                       *)
NothingInFlight == "lateCreate" \notin Faults => inflight = {}

(* A candidate created when none is listed is the only one.                *)
LEMMA CreateOne ==
    ASSUME TypeOK, OneCandidate, "lateCreate" \notin Faults,
           NEW t \in Targets, NEW u \in UIDs,
           Candidates(t, u) = {}, CreateCandidate(t, u)
    PROVE  OneCandidate'
<1>1. PICK n \in FreshNames(t) : chap' = [chap EXCEPT ![n] = MakeDelegatePod(u)]
    BY DEF CreateCandidate
<1>2. n \in Cand /\ n[1] = t /\ chap[n] = None
    BY <1>1 DEF FreshNames
<1>3. chap'[n].uid = u /\ \A c \in Cand \ {n} : chap'[c] = chap[c]
    BY <1>1, <1>2 DEF TypeOK, ApiTypeOK, MakeDelegatePod
<1>4. \A c \in Cand \ {n} : c[1] = t /\ chap'[c] # None => chap'[c].uid # u
    BY <1>3 DEF Candidates
<1>. QED
    BY <1>2, <1>3, <1>4 DEF OneCandidate

(* OneCandidate is inductive when no Create call is late.                  *)
LEMMA OneStep ==
    ASSUME TypeOK, CycleHasPod, OneCandidate, NothingInFlight, [Next]_vars
    PROVE  OneCandidate' /\ NothingInFlight'
<1>1. ASSUME \A c \in Cand : chap'[c] = None \/ Kept(c) PROVE OneCandidate'
    BY <1>1 DEF OneCandidate, Kept
<1>2. ASSUME UNCHANGED chap PROVE OneCandidate'
    BY <1>2 DEF OneCandidate
<1>3. CASE ProxySchedulerNext
  <2>1. NothingInFlight'
    BY <1>3 DEF NothingInFlight, ProxySchedulerNext, SchedulerStep, StartCycle, Filter,
       FilterGivesUp, Select, PostFilter, Reserve, ReserveError, PreBind, PreBindTimeout, Bind,
       BindError, PostBind, CreateTimesOut, Mishap, LateCreate, Crash
  <2> SUFFICES ASSUME "lateCreate" \notin Faults PROVE OneCandidate'
    BY <2>1 DEF OneCandidate
  <2>2. ASSUME NEW t \in Targets, Filter(t) PROVE OneCandidate'
    BY <1>2, <2>2, CreateOne DEF Filter, Poll, TypeOK, SchedulerTypeOK
  <2>3. ASSUME NEW d \in Cand, chap[d] # None, AllowCandidate(d) PROVE OneCandidate'
    <3>1. \A c \in Cand : chap'[c] = None \/ Kept(c)
      BY <2>3, NoneAssumption DEF AllowCandidate, Kept, TypeOK, ApiTypeOK, Chaperons
    <3>. QED
      BY <1>1, <3>1
  <2>4. CASE Reserve
    <3>1. cycle.uid \in UIDs /\ cycle.node \in Targets
      BY <2>4 DEF Reserve, TypeOK, SchedulerTypeOK
    <3>. QED
      BY <1>2, <2>3, <2>4, <3>1, CreateOne DEF Reserve, Candidates
  <2>5. CASE ReserveError
    BY <1>2, <2>3, <2>5 DEF ReserveError, Candidates
  <2>6. CASE PostBind
    <3>1. PICK D : chap' = Without(D)
      BY <2>6 DEF PostBind
    <3>2. \A c \in Cand : chap'[c] = None \/ Kept(c)
      BY <3>1 DEF Without, Kept, TypeOK, ApiTypeOK
    <3>. QED
      BY <1>1, <3>2
  <2>7. \A t \in Targets, u \in UIDs : ~LateCreate(t, u)
    BY DEF LateCreate, NothingInFlight
  <2>. QED
    BY <1>2, <1>3, <2>2, <2>4, <2>5, <2>6, <2>7 DEF ProxySchedulerNext, SchedulerStep,
       StartCycle, FilterGivesUp, Select, PostFilter, PreBind, PreBindTimeout, Bind,
       BindError, CreateTimesOut, Crash, apiVars
<1>4. CASE \/ \E d \in Cand : CandidateStep(d) \/ ChaperonStep(d)
           \/ \E t \in Targets : FeedbackStep(t)
           \/ EnvironmentStep
  <2>1. OneCandidate'
    BY <1>1, <1>4, OthersKeep
  <2>2. UNCHANGED inflight
    BY <1>4 DEF CandidateStep, ChaperonStep, FeedbackStep, EnvironmentStep, SyncCandidate,
       CollectGarbageStep, StartContainersStep, EvictStep, SyncProxy, UserStep, CandidateCrashStep, schedulerVars
  <2>. QED
    BY <2>1, <2>2 DEF NothingInFlight
<1>5. CASE UNCHANGED vars
    BY <1>2, <1>5 DEF vars, apiVars, schedulerVars, NothingInFlight
<1>. QED
    BY <1>3, <1>4, <1>5, NextCases

(* Filter's list-then-create makes at most one candidate per target.       *)
THEOREM CandidateIsUnique == Spec => []OneCandidate
<1>1. Init => TypeOK /\ CycleHasPod /\ OneCandidate /\ NothingInFlight
    BY InitType, InitCycleHasPod
       DEF Init, ApiInit, SchedulerInit, OneCandidate, NothingInFlight
<1>2. TypeOK /\ CycleHasPod /\ OneCandidate /\ NothingInFlight /\ [Next]_vars
        => (TypeOK /\ CycleHasPod /\ OneCandidate /\ NothingInFlight)'
    BY TypeStep, OneStep
<1>. QED
    BY <1>1, <1>2, PTL DEF Spec

=============================================================================
