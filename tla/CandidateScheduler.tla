------------------------- MODULE CandidateScheduler -------------------------
(***************************************************************************)
(* The candidate schedulers, one in each target cluster: a kube-scheduler  *)
(* whose "candidate" plugin (pkg/scheduler_plugins/candidate) tells the    *)
(* proxy scheduler, by an annotation on the chaperon, that a node has been *)
(* reserved, and binds the pod only when an annotation on the chaperon     *)
(* allows it. The framework reports a failed cycle in the pod's condition  *)
(* PodScheduled=False, "unschedulable" if no node fits, else "error".      *)
(***************************************************************************)
EXTENDS Informers

VARIABLE candCycle   \* candCycle[c]: how far the cycle of pod[c] has come

Stages == {"queued", "filter", "prebind", "bind"}
CandidateTypeOK == candCycle \in [Cand -> Stages]

Enter(c, stage) == candCycle' = [candCycle EXCEPT ![c] = stage]

SetStatus(c, s) == pod' = [pod EXCEPT ![c].status = s]

CycleFails(c, s) == Enter(c, "queued") /\ SetStatus(c, s)

PatchReserved(c, b) == chap' = [chap EXCEPT ![c].reserved = b]

(* Patching an annotation of the chaperon fails if it does not exist, or   *)
(* because the API server is not reachable.                                *)
MayFailToPatch(c) == chap[c] = None \/ "apiError" \in Faults

(* The chaperon's is-reserved annotation is removed; is-allowed stays.     *)
PreFilter(c) ==
    /\ ~NoReservation
    /\ pod[c] # None
    /\ ~IsScheduled(pod[c].status)
    /\ candCycle[c] = "queued"
    /\ \/ chap[c] # None /\ PatchReserved(c, FALSE) /\ Enter(c, "filter") /\ UNCHANGED pod
       \/ MayFailToPatch(c) /\ CycleFails(c, "error") /\ UNCHANGED chap
    /\ UNCHANGED <<proxy, lastUID, mishaps, everBound>>

(* No node of the target cluster fits.                                     *)
Unschedulable(c) ==
    /\ "unschedulable" \in Faults
    /\ candCycle[c] = "filter"
    /\ CycleFails(c, "unschedulable")
    /\ UNCHANGED <<proxy, lastUID, mishaps, chap, everBound>>

CandidateReserve(c) ==
    /\ candCycle[c] = "filter"
    /\ \/ chap[c] # None /\ PatchReserved(c, TRUE) /\ Enter(c, "prebind") /\ UNCHANGED pod
       \/ MayFailToPatch(c) /\ CycleFails(c, "error") /\ UNCHANGED chap
    /\ UNCHANGED <<proxy, lastUID, mishaps, everBound>>

(* A mistake: look for the chaperon, not for its annotation.               *)
IsFound(c) == chap[c] # None

IsAllowed(c) == chap[c] # None /\ chap[c].allowed

CandidatePreBind(c) ==
    /\ candCycle[c] = "prebind"
    /\ IsAllowed(c)
    /\ Enter(c, "bind")
    /\ UNCHANGED apiVars

(* Thirty seconds have passed. Unreserve leaves is-reserved in place.      *)
CandidatePreBindTimeout(c) ==
    /\ "timeout" \in Faults
    /\ candCycle[c] = "prebind"
    /\ CycleFails(c, "error")
    /\ UNCHANGED <<proxy, lastUID, mishaps, chap, everBound>>

BindPod(c) ==
    /\ SetStatus(c, "bound")
    /\ everBound' = everBound \cup {<<c[1], pod[c].uid>>}
    /\ UNCHANGED <<proxy, lastUID, mishaps, chap>>

CandidateBind(c) ==
    /\ candCycle[c] = "bind"
    /\ BindPod(c)
    /\ Enter(c, "queued")

CandidateBindFails(c) ==
    /\ "bindFail" \in Faults
    /\ candCycle[c] = "bind"
    /\ CycleFails(c, "error")
    /\ UNCHANGED <<proxy, lastUID, mishaps, chap, everBound>>

(* With the no-reservation annotation the pod keeps the scheduler of its   *)
(* source manifest, which binds it or finds it unschedulable on its own.   *)
OtherSchedulerBinds(c) ==
    /\ NoReservation
    /\ pod[c] # None
    /\ ~IsScheduled(pod[c].status)
    /\ BindPod(c)
    /\ UNCHANGED candCycle

OtherSchedulerFails(c) ==
    /\ NoReservation
    /\ Mishap("unschedulable")
    /\ pod[c] # None
    /\ pod[c].status = "pending"
    /\ SetStatus(c, "unschedulable")
    /\ UNCHANGED <<proxy, lastUID, chap, everBound, candCycle>>

(* The candidate scheduler restarts: the cycle is abandoned and nothing is *)
(* cleaned up; is-reserved and is-allowed stay as they are.                *)
CandidateCrash(c) ==
    /\ Mishap("crash")
    /\ candCycle[c] # "queued"
    /\ Enter(c, "queued")
    /\ UNCHANGED <<proxy, lastUID, chap, pod, everBound>>

(* The pod is gone: its cycle ends without effect.                         *)
ForgetPod(c) == Enter(c, "queued")

CandidateInit == candCycle = [c \in Cand |-> "queued"]
=============================================================================
