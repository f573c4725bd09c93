------------------------------ MODULE Clusters ------------------------------
(***************************************************************************)
(* The Kubernetes objects that Admiralty's schedulers and controllers      *)
(* communicate through, and what happens to them from outside: one proxy   *)
(* pod name in the source cluster (with successive incarnations, told      *)
(* apart by UID), the pod chaperons created for it in the target clusters, *)
(* and the candidate or delegate pods that the chaperons own.              *)
(*                                                                         *)
(* An API server is modelled by the latest version of each object: a read  *)
(* that bypasses the informers sees it, an unguarded Patch or Delete is    *)
(* applied to it, and an Update is refused unless the version it carries   *)
(* is the latest one (resourceVersion).                                    *)
(***************************************************************************)
EXTENDS Naturals, FiniteSets

CONSTANTS
    Targets,         \* target clusters, i.e., virtual nodes of the source cluster
    ClusterTargets,  \* those declared by a ClusterTarget, i.e., with namespace ""
    OtherNamespace,  \* those declared by a Target of another namespace
    Names,           \* generated names of pod chaperons in a target cluster
    MaxUID,          \* bound on the incarnations of the proxy pod
    NoReservation,   \* the proxy pod has the no-reservation annotation
    RestartAlways,   \* its restart policy is Always
    Faults,          \* which outside events the environment may produce
    MaxMishaps,      \* bound on the mishaps of a behaviour (see Mishap)
    None             \* no object, no node

UIDs == 1..MaxUID
Cand == Targets \X Names

(* What PodScheduled and Phase of a pod status say: "none" is the zero     *)
(* status of a new chaperon (Phase ""); "unschedulable" and "error" are    *)
(* PodScheduled=False with reason Unschedulable and SchedulerError.        *)
Status == {"none", "pending", "unschedulable", "error", "bound", "running"}
IsScheduled(s) == s \in {"bound", "running"}
Extras == {0, 1}   \* versions of the user's (non-multicluster) annotations

ProxyPods == [uid: UIDs, node: Targets \cup {None}, terminating: BOOLEAN,
              finalizers: SUBSET Targets, status: Status, extra: Extras]
Chaperons == [uid: UIDs, reserved: BOOLEAN, allowed: BOOLEAN,
              missing: BOOLEAN, status: Status, extra: Extras]
Pods == [uid: UIDs, status: Status, extra: Extras]

FaultNames == {"timeout", "apiError", "lateCreate", "crash", "bindFail",
               "unschedulable", "deleteProxy", "recreate", "evict",
               "deleteChaperon", "annotate", "chaperonLag", "feedbackLag"}

ASSUME ConstantsAssumption ==
    /\ ClusterTargets \subseteq Targets
    /\ OtherNamespace \subseteq Targets \ ClusterTargets
    /\ MaxUID \in Nat \ {0}
    /\ MaxMishaps \in Nat
    /\ NoReservation \in BOOLEAN
    /\ RestartAlways \in BOOLEAN
    /\ Faults \subseteq FaultNames

ASSUME NoneAssumption ==
    /\ None \notin Targets
    /\ None \notin ProxyPods
    /\ None \notin Chaperons
    /\ None \notin Pods

VARIABLES
    proxy,       \* the proxy pod of that name, in the source cluster
    lastUID,     \* UID of its latest incarnation
    mishaps,     \* mishaps so far
    chap,        \* chap[t, n]: pod chaperon n of target cluster t
    pod,         \* pod[t, n]: the candidate pod that this chaperon controls
    everBound    \* history: <<t, u>> when a delegate of incarnation u was bound in t

apiVars == <<proxy, lastUID, mishaps, chap, pod, everBound>>

ApiTypeOK ==
    /\ proxy \in ProxyPods \cup {None}
    /\ lastUID \in UIDs
    /\ mishaps \in 0..MaxMishaps
    /\ chap \in [Cand -> Chaperons \cup {None}]
    /\ pod \in [Cand -> Pods \cup {None}]
    /\ everBound \subseteq Targets \X UIDs

-----------------------------------------------------------------------------
(* The finalizers that the mutating webhook adds to a proxy pod: the known *)
(* finalizers of the pod's own namespace, so those of its Targets; those   *)
(* of ClusterTargets are filed under namespace "" and are never looked up. *)
KnownFinalizers == Targets \ (ClusterTargets \cup OtherNamespace)

(* Mutator.Default followed by the creation of the pod.                    *)
NewProxy(u) ==
    [uid |-> u, node |-> None, terminating |-> FALSE,
     finalizers |-> KnownFinalizers, status |-> "pending", extra |-> 0]

(* MakeDelegatePod: a chaperon that refers to its parent by UID label, has *)
(* the user's annotations of the source pod, and no status.                *)
MakeDelegatePod(u) ==
    [uid |-> u, reserved |-> FALSE, allowed |-> FALSE, missing |-> FALSE,
     status |-> "none", extra |-> 0]

(* The chaperons in target t labelled with parent UID u, as a List call to *)
(* the API server returns them.                                            *)
Candidates(t, u) ==
    {c \in Cand : c[1] = t /\ chap[c] # None /\ chap[c].uid = u}

Without(C) == [c \in Cand |-> IF c \in C THEN None ELSE chap[c]]

(* A pod is deleted at once (grace period 0) unless finalizers hold it.    *)
Deleted(p) ==
    CASE p = None -> None
      [] p # None /\ p.finalizers = {} -> None
      [] OTHER -> [p EXCEPT !.terminating = TRUE]

-----------------------------------------------------------------------------
(* An event that real clusters produce any number of times, but of which a *)
(* behaviour of the model has at most MaxMishaps: an eviction, a chaperon  *)
(* deleted by hand, a crash, a call whose answer is lost.                  *)
Mishap(fault) ==
    /\ fault \in Faults
    /\ mishaps < MaxMishaps
    /\ mishaps' = mishaps + 1

(* A StatefulSet, a Job or a user creates the next pod of the same name.   *)
CreateProxy ==
    /\ "recreate" \in Faults
    /\ proxy = None
    /\ lastUID < MaxUID
    /\ lastUID' = lastUID + 1
    /\ proxy' = NewProxy(lastUID + 1)
    /\ UNCHANGED <<mishaps, chap, pod, everBound>>

DeleteProxy ==
    /\ "deleteProxy" \in Faults
    /\ proxy # None
    /\ ~proxy.terminating
    /\ proxy' = Deleted(proxy)
    /\ UNCHANGED <<lastUID, mishaps, chap, pod, everBound>>

(* Somebody deletes a chaperon in the target cluster.                      *)
DeleteChaperon(c) ==
    /\ Mishap("deleteChaperon")
    /\ chap[c] # None
    /\ chap' = Without({c})
    /\ UNCHANGED <<proxy, lastUID, pod, everBound>>

(* A pod disappears: evicted, preempted or deleted in the target cluster,  *)
(* or collected because its chaperon, the owner, is gone.                  *)
PodGone(c) ==
    /\ pod[c] # None
    /\ pod' = [pod EXCEPT ![c] = None]
    /\ UNCHANGED <<proxy, lastUID, chap, everBound>>

Evict(c) == Mishap("evict") /\ PodGone(c)

CollectGarbage(c) == chap[c] = None /\ PodGone(c) /\ UNCHANGED mishaps

(* The kubelet of the target cluster starts a bound pod.                   *)
StartContainers(c) ==
    /\ pod[c] # None
    /\ pod[c].status = "bound"
    /\ pod' = [pod EXCEPT ![c].status = "running"]
    /\ UNCHANGED <<proxy, lastUID, mishaps, chap, everBound>>

(* Something in the target cluster annotates the pod.                      *)
Annotate(c) ==
    /\ "annotate" \in Faults
    /\ pod[c] # None
    /\ pod[c].extra = 0
    /\ pod' = [pod EXCEPT ![c].extra = 1]
    /\ UNCHANGED <<proxy, lastUID, mishaps, chap, everBound>>

ApiInit ==
    /\ proxy = NewProxy(1)
    /\ lastUID = 1
    /\ mishaps = 0
    /\ chap = [c \in Cand |-> None]
    /\ pod = [c \in Cand |-> None]
    /\ everBound = {}
=============================================================================
