----------------------- MODULE MulticlusterScheduling -----------------------
(***************************************************************************)
(* Admiralty's multi-cluster scheduling of one pod: the proxy scheduler,   *)
(* the candidate schedulers, the chaperon controllers and the feedback     *)
(* controllers, run concurrently against the API servers of the source     *)
(* and target clusters. They share nothing but API objects.                *)
(***************************************************************************)
EXTENDS ProxyScheduler, CandidateScheduler, Chaperon, Feedback

vars == <<apiVars, cacheVars, schedulerVars, candCycle>>

(* Objects, caches and cycles are well formed: no write of a scheduler or  *)
(* controller makes a part of an object that is gone.                      *)
TypeOK ==
    /\ ApiTypeOK
    /\ CacheTypeOK
    /\ SchedulerTypeOK
    /\ CandidateTypeOK

Init ==
    /\ ApiInit
    /\ CacheInit
    /\ SchedulerInit
    /\ CandidateInit

-----------------------------------------------------------------------------
SchedulerStep ==
    \/ StartCycle
    \/ \E t \in Targets : Filter(t) \/ FilterGivesUp(t) \/ Select(t)
    \/ PostFilter
    \/ Reserve \/ ReserveError
    \/ PreBind \/ PreBindTimeout
    \/ Bind \/ BindError \/ PostBind

ProxySchedulerNext ==
    /\ \/ SchedulerStep
       \/ \E t \in Targets : CreateTimesOut(t)
       \/ \E t \in Targets, u \in UIDs : LateCreate(t, u)
       \/ Crash
    /\ UNCHANGED <<cacheVars, candCycle>>

CandidateStep(c) ==
    /\ \/ PreFilter(c)
       \/ Unschedulable(c)
       \/ CandidateReserve(c)
       \/ CandidatePreBind(c) \/ CandidatePreBindTimeout(c)
       \/ CandidateBind(c) \/ CandidateBindFails(c)
       \/ OtherSchedulerBinds(c) \/ OtherSchedulerFails(c)
    /\ UNCHANGED <<cacheVars, schedulerVars>>

CandidateCrashStep(c) ==
    /\ CandidateCrash(c)
    /\ UNCHANGED <<cacheVars, schedulerVars>>

ChaperonStep(c) ==
    /\ \E overdue \in BOOLEAN : ChaperonHandle(c, overdue)
    /\ UNCHANGED <<schedulerVars, candCycle>>

FeedbackStep(t) ==
    /\ FeedbackHandle(t)
    /\ UNCHANGED <<schedulerVars, candCycle>>

SyncCandidate(c) ==
    /\ SyncChaperon(c) \/ SyncPod(c) \/ SyncChapSeen(c)
    /\ UNCHANGED <<apiVars, schedulerVars, candCycle>>

SyncProxy(t) ==
    /\ SyncProxySeen(t)
    /\ UNCHANGED <<apiVars, schedulerVars, candCycle>>

CollectGarbageStep(c) ==
    /\ CollectGarbage(c)
    /\ ForgetPod(c)
    /\ UNCHANGED <<cacheVars, schedulerVars>>

StartContainersStep(c) ==
    /\ StartContainers(c)
    /\ UNCHANGED <<cacheVars, schedulerVars, candCycle>>

EvictStep(c) ==
    /\ Evict(c)
    /\ ForgetPod(c)
    /\ UNCHANGED <<cacheVars, schedulerVars>>

UserStep ==
    /\ \/ CreateProxy
       \/ DeleteProxy
       \/ \E c \in Cand : DeleteChaperon(c) \/ Annotate(c)
    /\ UNCHANGED <<cacheVars, schedulerVars, candCycle>>

Next ==
    \/ ProxySchedulerNext
    \/ \E c \in Cand :
         \/ CandidateStep(c) \/ CandidateCrashStep(c)
         \/ ChaperonStep(c) \/ SyncCandidate(c)
         \/ CollectGarbageStep(c) \/ StartContainersStep(c) \/ EvictStep(c)
    \/ \E t \in Targets : FeedbackStep(t) \/ SyncProxy(t)
    \/ UserStep

Spec == Init /\ [][Next]_vars

(***************************************************************************)
(* Fairness. Every controller has a work queue that retries a failed item  *)
(* with back-off, its informers resync every 30 seconds, and its worker    *)
(* loops for ever; the schedulers' queues retry unschedulable pods, and    *)
(* each wait of a plugin polls every second and ends with its deadline, so *)
(* Filter in particular gives up however often its candidate is deleted    *)
(* and created again; a watch delivers the latest version eventually; the  *)
(* garbage collector and the kubelets are those of Kubernetes. Nothing is  *)
(* assumed of users, of mishaps, or of which of its outcomes a step has.   *)
(***************************************************************************)
SchedulerFairness ==
    /\ WF_vars(SchedulerStep /\ UNCHANGED <<cacheVars, candCycle>>)
    /\ \A t \in Targets : WF_vars(FilterGivesUp(t) /\ UNCHANGED <<cacheVars, candCycle>>)

TargetFairness ==
    \A c \in Cand :
        /\ WF_vars(CandidateStep(c))
        /\ WF_vars(ChaperonStep(c))
        /\ WF_vars(CollectGarbageStep(c))
        /\ WF_vars(StartContainersStep(c))
        /\ WF_vars(SyncChaperon(c) /\ UNCHANGED <<apiVars, schedulerVars, candCycle>>)
        /\ WF_vars(SyncPod(c) /\ UNCHANGED <<apiVars, schedulerVars, candCycle>>)

FeedbackFairness ==
    /\ \A t \in Targets : WF_vars(FeedbackStep(t)) /\ WF_vars(SyncProxy(t))
    /\ \A c \in Cand :
         WF_vars(SyncChapSeen(c) /\ UNCHANGED <<apiVars, schedulerVars, candCycle>>)

FairSpec == Spec /\ SchedulerFairness /\ TargetFairness /\ FeedbackFairness

(* The source cluster's controllers are down or cannot reach the targets.  *)
DisconnectedSpec == Spec /\ SchedulerFairness /\ TargetFairness

-----------------------------------------------------------------------------
(* Safety                                                                  *)

(* A candidate pod is bound only after the proxy scheduler elected it: its *)
(* chaperon, as long as it exists, carries is-allowed. The annotation is   *)
(* written by one scheduler, read by another a wait later, and lives on an *)
(* object that the chaperon controller rewrites from its cache.            *)
BoundOnlyIfAllowed ==
    ~NoReservation =>
        \A c \in Cand :
            (pod[c] # None /\ chap[c] # None /\ IsScheduled(pod[c].status))
                => chap[c].allowed

(* A proxy pod bound to a virtual node stands for a delegate pod that was  *)
(* bound in that target cluster, for this incarnation of the proxy pod:    *)
(* what PreBind waits for, through the chaperon's copied status.           *)
ProxyFollowsDelegate ==
    proxy # None /\ proxy.node # None => <<proxy.node, proxy.uid>> \in everBound

(* A proxy pod has at most one candidate per target cluster, although      *)
(* Filter lists and creates in two calls under generated names. (Unless a  *)
(* Create call given up by the client is processed late.)                  *)
OneCandidate ==
    "lateCreate" \notin Faults =>
        \A c, d \in Cand :
            (/\ c[1] = d[1] /\ chap[c] # None /\ chap[d] # None
             /\ chap[c].uid = chap[d].uid) => c = d

(* What a step does to the is-allowed annotations.                         *)
KeepsAllowed ==
    \A c \in Cand : (chap[c] # None /\ chap[c].allowed /\ chap'[c] # None)
                        => chap'[c].allowed

(* An election is not taken back: while a chaperon exists it never loses   *)
(* is-allowed, although the chaperon controller writes all annotations     *)
(* back from its cache.                                                    *)
AllowedIsKept == [][KeepsAllowed]_vars

(* How the proxy pod may change in a step.                                 *)
ProxyAdvances ==
    proxy # None /\ proxy' # None =>
        \/ proxy'.uid > proxy.uid
        \/ /\ proxy'.uid = proxy.uid
           /\ proxy'.finalizers \subseteq proxy.finalizers
           /\ proxy.terminating => proxy'.terminating
           /\ proxy.node # None => proxy'.node = proxy.node

(* No write of one controller undoes a write of another on the proxy pod:  *)
(* an incarnation never gets a finalizer back, never stops terminating,    *)
(* never leaves its node, and is never replaced by an older one. Each      *)
(* feedback controller writes the whole object from a cache of its own.    *)
NoLostUpdate == [][ProxyAdvances]_vars

(* The pod as those see it who only look at its UID and its node.          *)
Promise == INSTANCE Delegation WITH
    uid <- IF proxy = None THEN 0 ELSE proxy.uid,
    node <- IF proxy = None THEN None ELSE proxy.node,
    last <- lastUID,
    delegates <- everBound

(* All of the schedulers and controllers together implement the abstract   *)
(* specification: binding of the proxy pod, which the API server does for  *)
(* a UID that a cycle read minutes earlier, follows that of a delegate of  *)
(* the same incarnation, and nothing else moves it.                        *)
ImplementsDelegation == Promise!DelegationSpec

-----------------------------------------------------------------------------
(* The inductive invariant behind the safety properties                    *)

(* A candidate scheduler has a cycle under way only for a pod that exists. *)
CycleHasPod == \A c \in Cand : pod[c] = None => candCycle[c] = "queued"

(* Two objects, or an object and a copy, have the same parent UID.         *)
Agree(x, y) == x # None /\ y # None => x.uid = y.uid

(* A chaperon, its pod and their copies belong to one incarnation.         *)
SameParent ==
    \A c \in Cand :
        /\ Agree(chap[c], pod[c])
        /\ Agree(chap[c], chapCache[c])
        /\ Agree(chap[c], podCache[c])
        /\ Agree(pod[c], chapCache[c])
        /\ Agree(pod[c], podCache[c])
        /\ Agree(chapCache[c], podCache[c])

(* The binding that this status reports did happen.                        *)
Recorded(c, x) == x # None /\ IsScheduled(x.status) => <<c[1], x.uid>> \in everBound

(* A status that says "scheduled" is that of a pod that was bound,         *)
(* wherever the status was copied to.                                      *)
BoundIsRecorded ==
    \A c \in Cand :
        Recorded(c, pod[c]) /\ Recorded(c, podCache[c]) /\ Recorded(c, chap[c])

(* A candidate scheduler past its PreBind saw is-allowed, and it is there. *)
AllowedBeforeBind ==
    \A c \in Cand : candCycle[c] = "bind" /\ chap[c] # None => chap[c].allowed

(* The proxy scheduler past its PreBind saw the delegate bound.            *)
DelegateBeforeProxy ==
    cycle.phase \in {"bind", "postbind"} => <<cycle.node, cycle.uid>> \in everBound

(* Inductive: together these facts are preserved by every step of every    *)
(* scheduler, controller, cache and user, however stale the caches are.    *)
IndInv ==
    /\ TypeOK
    /\ CycleHasPod
    /\ SameParent
    /\ BoundIsRecorded
    /\ AllowedBeforeBind
    /\ DelegateBeforeProxy
    /\ BoundOnlyIfAllowed
    /\ ProxyFollowsDelegate

-----------------------------------------------------------------------------
(* Liveness                                                                *)

(* If every wait is long enough and all targets have room, the proxy pod   *)
(* is bound and stays bound: no scheduler waits for the other for ever.    *)
EventuallyBound == <>[](proxy # None /\ proxy.node # None)

(* The proxy pod u is bound elsewhere and c is one of its candidates.      *)
Loser(c, u) ==
    /\ proxy # None /\ proxy.uid = u
    /\ proxy.node \notin {None, c[1]}
    /\ chap[c] # None /\ chap[c].uid = u

(* A candidate of a proxy pod that is bound elsewhere is deleted, even if  *)
(* PostBind's DeleteCollection failed and only logged the error.           *)
LosersDeleted == \A c \in Cand, u \in UIDs : Loser(c, u) ~> ~Loser(c, u)

(* The proxy pod u still waits and t is remembered as failed.              *)
FailedAndPending(t, u) ==
    /\ t \in failedNodes[u]
    /\ proxy # None /\ proxy.uid = u
    /\ ~proxy.terminating /\ proxy.node = None

(* "Filter a posteriori" is temporary: a virtual node that Unreserve       *)
(* remembers as failed is given another chance while the proxy pod waits.  *)
FailureForgotten ==
    \A t \in Targets, u \in UIDs : FailedAndPending(t, u) ~> ~FailedAndPending(t, u)

(* The proxy pod u is being deleted.                                       *)
Terminating(u) == proxy # None /\ proxy.uid = u /\ proxy.terminating

(* A terminating proxy pod goes away: every feedback controller removes    *)
(* its finalizer once it has deleted its candidate, although all of them   *)
(* update the same object.                                                 *)
ProxyFinalized == \A u \in UIDs : Terminating(u) ~> ~Terminating(u)

(* The proxy pod u is gone; its chaperon or pod c is not.                  *)
Orphaned(c, u) ==
    /\ proxy = None \/ proxy.uid # u
    /\ \/ chap[c] # None /\ chap[c].uid = u
       \/ pod[c] # None /\ pod[c].uid = u

(* Chaperons and pods of a proxy pod that is gone are deleted, those that  *)
(* a scheduling cycle creates after it is gone too, and those in a         *)
(* ClusterTarget, for which the proxy pod has no finalizer.                *)
OrphansCollected == \A c \in Cand, u \in UIDs : Orphaned(c, u) ~> ~Orphaned(c, u)

(* The proxy pod u is bound and its delegate pod does not exist.           *)
DelegateLost(u) ==
    /\ proxy # None /\ proxy.uid = u /\ proxy.node # None
    /\ \A c \in Cand : c[1] = proxy.node => (pod[c] = None \/ pod[c].uid # u)

(* A bound proxy pod whose delegate pod or chaperon disappears is deleted  *)
(* (restart policy other than Always): evicted, collected or deleted by    *)
(* hand, two controllers in two clusters have to notice.                   *)
LossDeletesProxy ==
    \A u \in UIDs : DelegateLost(u) ~> (proxy = None \/ proxy.uid # u)

(* The chaperon c has no pod.                                              *)
Abandoned(c) == chap[c] # None /\ pod[c] = None

(* A chaperon does not stay without a pod (restart policy Always): the     *)
(* chaperon controller creates and, a minute later, recreates it on its    *)
(* own, also while the source cluster is disconnected.                     *)
PodReplaced == \A c \in Cand : Abandoned(c) ~> ~Abandoned(c)

(* The pod c is the running delegate of the proxy pod.                     *)
Shown(c) ==
    /\ proxy # None /\ proxy.node = c[1]
    /\ pod[c] # None /\ pod[c].uid = proxy.uid
    /\ pod[c].status = "running"

(* The proxy pod comes to show the status and annotations of its delegate. *)
DelegateMirrored ==
    \A c \in Cand, x \in Extras :
        (Shown(c) /\ pod[c].extra = x) ~>
            \/ ~Shown(c)
            \/ pod[c].extra # x
            \/ proxy.status = "running" /\ proxy.extra = x

-----------------------------------------------------------------------------
(* What the repository says of the system and the code does not guarantee. *)

(* docs/concepts/scheduling.md: the candidate scheduler waits to be        *)
(* selected "as there can be only one" delegate pod.                       *)
AtMostOneDelegate ==
    \A c, d \in Cand :
        (/\ pod[c] # None /\ pod[d] # None /\ pod[c].uid = pod[d].uid
         /\ IsScheduled(pod[c].status) /\ IsScheduled(pod[d].status)) => c = d

(* pkg/controllers/chaperon/controller.go: a pod is created without regard *)
(* to the restart policy only if "podNeverExisted"; test/e2e/delete-delegate: *)
(* "the invariant that pods can't resuscitate".                            *)
NoResuscitation ==
    [][\A c \in Cand : (pod[c] = None /\ pod'[c] # None /\ ~RestartAlways)
            => <<c[1], pod'[c].uid>> \notin everBound]_vars

(* CHANGELOG.md: "delete proxy pod when pod chaperon is deleted"; not when *)
(* it exists. (For instances in which users do not delete the proxy pod.)  *)
DeletedOnlyWithChaperon ==
    [][\A u \in UIDs :
        (/\ proxy # None /\ proxy.uid = u /\ ~proxy.terminating
         /\ proxy' = None \/ proxy'.terminating)
            => Candidates(proxy.node, u) = {}]_vars
=============================================================================
