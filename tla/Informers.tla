------------------------------ MODULE Informers ------------------------------
(***************************************************************************)
(* The informer caches that the controllers read through their listers.    *)
(* A cache follows the API server with any delay, object by object, and    *)
(* may skip versions; two caches are not synchronised with each other.     *)
(* Each feedback controller has informer factories of its own (one per     *)
(* target), the chaperon controller of a target cluster has another pair.  *)
(* Without the fault "chaperonLag" or "feedbackLag" the listers of that    *)
(* controller return the latest version and its caches are not used.       *)
(***************************************************************************)
EXTENDS Clusters

VARIABLES
    chapCache,   \* chaperon controller, in c[1]: its copy of chap[c]
    podCache,    \* chaperon controller, in c[1]: its copy of pod[c]
    proxySeen,   \* feedback controller of t: its copy of the proxy pod
    chapSeen     \* feedback controller of c[1]: its copy of chap[c]

cacheVars == <<chapCache, podCache, proxySeen, chapSeen>>

CacheTypeOK ==
    /\ chapCache \in [Cand -> Chaperons \cup {None}]
    /\ podCache \in [Cand -> Pods \cup {None}]
    /\ proxySeen \in [Targets -> ProxyPods \cup {None}]
    /\ chapSeen \in [Cand -> Chaperons \cup {None}]

ChaperonLag == "chaperonLag" \in Faults
FeedbackLag == "feedbackLag" \in Faults

(* What the listers of the chaperon controller return.                     *)
CachedChaperon(c) == IF ChaperonLag THEN chapCache[c] ELSE chap[c]
CachedPod(c) == IF ChaperonLag THEN podCache[c] ELSE pod[c]

(* What the listers of the feedback controller of a target return.         *)
SeenProxy(t) == IF FeedbackLag THEN proxySeen[t] ELSE proxy
SeenChaperon(c) == IF FeedbackLag THEN chapSeen[c] ELSE chap[c]

(* Names that GenerateName may produce in t. The API server never reuses a *)
(* generated name; here a name is used again once nothing remembers it.    *)
FreshNames(t) ==
    {c \in Cand : /\ c[1] = t
                  /\ chap[c] = None /\ pod[c] = None
                  /\ chapCache[c] = None /\ podCache[c] = None
                  /\ chapSeen[c] = None}

-----------------------------------------------------------------------------
SyncChaperon(c) ==
    /\ ChaperonLag
    /\ chapCache' = [chapCache EXCEPT ![c] = chap[c]]
    /\ UNCHANGED <<podCache, proxySeen, chapSeen>>

SyncPod(c) ==
    /\ ChaperonLag
    /\ podCache' = [podCache EXCEPT ![c] = pod[c]]
    /\ UNCHANGED <<chapCache, proxySeen, chapSeen>>

SyncProxySeen(t) ==
    /\ FeedbackLag
    /\ proxySeen' = [proxySeen EXCEPT ![t] = proxy]
    /\ UNCHANGED <<chapCache, podCache, chapSeen>>

SyncChapSeen(c) ==
    /\ FeedbackLag
    /\ chapSeen' = [chapSeen EXCEPT ![c] = chap[c]]
    /\ UNCHANGED <<chapCache, podCache, proxySeen>>

CacheInit ==
    /\ chapCache = [c \in Cand |-> None]
    /\ podCache = [c \in Cand |-> None]
    /\ proxySeen = [t \in Targets |-> None]
    /\ chapSeen = [c \in Cand |-> None]
=============================================================================
