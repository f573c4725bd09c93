------------------------------ MODULE Feedback ------------------------------
(***************************************************************************)
(* The feedback controllers of the source cluster, one per target          *)
(* (pkg/controllers/feedback/controller.go): copy the status and           *)
(* annotations of the delegate's chaperon to the proxy pod, delete         *)
(* chaperons that lost the election, lost their pod or lost their proxy    *)
(* pod, hold the terminating proxy pod by a finalizer until then, and      *)
(* delete a bound proxy pod that has no chaperon any more.                 *)
(***************************************************************************)
EXTENDS Informers

(* Chaperons whose annotations name this proxy pod, whatever its UID.      *)
SeenByName(t) == {c \in Cand : c[1] = t /\ SeenChaperon(c) # None}

(* Chaperons labelled with the UID of the proxy pod that is seen.          *)
SeenByUID(t, u) == {c \in SeenByName(t) : SeenChaperon(c).uid = u}

(* Mistakes: clean up only while terminating, or only after binding.       *)
ReleasedIfTerminating(t, q) == q.terminating
ReleasedIfElsewhere(t, q) == q.node \notin {None, t}

(* The proxy pod is terminating or bound to another target.                *)
Released(t, q) == q.terminating \/ q.node \notin {None, t}

(* A mistake: write the cached version over the latest one.                *)
ForceProxyUpdate(q) == TRUE

(* Every guarded write of version q to the proxy pod succeeds.             *)
IsLatestProxy(q) == proxy = q

RemoveFinalizer(t, q) ==
    LET r == [q EXCEPT !.finalizers = @ \ {t}] IN
    IF r.terminating /\ r.finalizers = {} THEN None ELSE r

(* A mistake: leave the proxy pod alone when its chaperon is gone.         *)
NoCandidateKeepsProxy(t, q) ==
    IF Released(t, q) /\ t \in q.finalizers /\ IsLatestProxy(q)
    THEN RemoveFinalizer(t, q) ELSE proxy

(* No candidate is seen: give the proxy pod up, then, if it is bound here, *)
(* delete the pod of that name. A refused Update ends the handler.         *)
NoCandidate(t, q) ==
    IF Released(t, q) /\ t \in q.finalizers
    THEN IF ~IsLatestProxy(q) THEN proxy
         ELSE IF q.node = t THEN Deleted(RemoveFinalizer(t, q)) ELSE RemoveFinalizer(t, q)
    ELSE IF q.node = t THEN Deleted(proxy) ELSE proxy

(* A mistake: an Update of the pod does not write its status.              *)
MirrorsAnnotationsOnly(t, q, d) ==
    IF q.node = t /\ IsLatestProxy(q) THEN {[q EXCEPT !.extra = d.extra]} ELSE {proxy}

(* The delegate d is seen: mirror its annotations, then its status.        *)
Mirrors(t, q, d) ==
    IF q.node = t /\ IsLatestProxy(q)
    THEN {[q EXCEPT !.extra = d.extra],
          [q EXCEPT !.extra = d.extra, !.status = d.status]}
    ELSE {proxy}

(* A mistake: nothing to do when the proxy pod is not found.               *)
IgnoreOrphans(t) == UNCHANGED <<chap, proxy>>

(* The proxy pod is not found: delete every chaperon of that name. The     *)
(* loop stops at the first error, so any part of them may be deleted.      *)
DeleteOrphans(t) ==
    /\ \E D \in SUBSET SeenByName(t) : chap' = Without(D)
    /\ UNCHANGED proxy

Reconcile(t, q) ==
    LET seen == SeenByUID(t, q.uid) IN
    \/ /\ seen = {}
       /\ proxy' = NoCandidate(t, q)
       /\ UNCHANGED chap
    \/ /\ Cardinality(seen) = 1
       /\ \E c \in seen :
            /\ chap' = Without(IF Released(t, q) \/ SeenChaperon(c).missing
                               THEN {c} ELSE {})
            /\ proxy' \in Mirrors(t, q, SeenChaperon(c))

(* Its informers are those of the target's namespace.                      *)
FeedbackHandle(t) ==
    /\ t \notin OtherNamespace
    /\ \/ SeenProxy(t) = None /\ DeleteOrphans(t)
       \/ SeenProxy(t) # None /\ Reconcile(t, SeenProxy(t))
    /\ UNCHANGED <<lastUID, mishaps, pod, everBound, cacheVars>>
=============================================================================
