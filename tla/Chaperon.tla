------------------------------ MODULE Chaperon ------------------------------
(***************************************************************************)
(* The chaperon controller of a target cluster                             *)
(* (pkg/controllers/chaperon/controller.go): creates the pod of a new      *)
(* chaperon, copies the pod's status and annotations back, marks the       *)
(* chaperon when the pod is missing, and recreates the pod if nobody has   *)
(* deleted the chaperon a minute later. It reads both objects from its     *)
(* caches; Update and UpdateStatus need the latest version, Patch does not.*)
(***************************************************************************)
EXTENDS Informers

PodNeverExisted(k) == k.status = "none"

(* A mistake: never recreate a pod.                                        *)
MayCreateOnce(k, overdue) == PodNeverExisted(k)

(* overdue: the pod has been missing for more than a minute.               *)
MayCreate(k, overdue) ==
    PodNeverExisted(k) \/ (k.missing /\ overdue /\ RestartAlways)

NewPod(k) == [uid |-> k.uid, status |-> "pending", extra |-> k.extra]

(* A mistake: write the cached version over the latest one.                *)
ForceUpdate(c, k) == TRUE

(* An Update or UpdateStatus of the version k is not refused.              *)
IsLatest(c, k) == chap[c] = k

(* The chaperon after the part of Handle that follows the look-up of the   *)
(* pod p. Removing the missing-since annotation changes the version, so    *)
(* the updates that follow it are refused; after UpdateStatus succeeded    *)
(* the Update of the annotations can still fail.                           *)
Reflections(c, k, p) ==
    IF chap[c] = None THEN {None}
    ELSE IF k.missing THEN {[chap[c] EXCEPT !.missing = FALSE]}
    ELSE IF IsLatest(c, k)
         THEN {[k EXCEPT !.status = p.status],
               [k EXCEPT !.status = p.status, !.extra = p.extra]}
         ELSE {chap[c]}

Reflect(c, k, p) == \E r \in Reflections(c, k, p) : chap' = [chap EXCEPT ![c] = r]

(* The pod is created, unless it exists already, and then looked at as if  *)
(* it had been in the cache (the controller may stop in between).          *)
CreatePod(c, k) ==
    /\ pod[c] = None
    /\ pod' = [pod EXCEPT ![c] = NewPod(k)]
    /\ UNCHANGED chap \/ Reflect(c, k, NewPod(k))

MarkMissing(c) ==
    /\ chap[c] # None
    /\ chap' = [chap EXCEPT ![c].missing = TRUE]
    /\ UNCHANGED pod

ChaperonHandle(c, overdue) ==
    LET k == CachedChaperon(c)
        p == CachedPod(c)
    IN
    /\ k # None
    /\ \/ /\ p = None
          /\ MayCreate(k, overdue)
          /\ CreatePod(c, k)
       \/ /\ p = None
          /\ ~MayCreate(k, overdue)
          /\ ~k.missing
          /\ MarkMissing(c)
       \/ /\ p # None
          /\ Reflect(c, k, p)
          /\ UNCHANGED pod
    /\ UNCHANGED <<proxy, lastUID, mishaps, everBound, cacheVars>>
=============================================================================
