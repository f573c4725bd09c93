--------------------------- MODULE ProxyScheduler ---------------------------
(***************************************************************************)
(* The proxy scheduler of the source cluster: a kube-scheduler whose       *)
(* "proxy" plugin (pkg/scheduler_plugins/proxy) filters virtual nodes by   *)
(* sending candidates to all target clusters, elects one, waits for it to  *)
(* be bound, and deletes the others. The extension points run in the order *)
(* of the scheduling framework: Filter on every node, then PostFilter if   *)
(* no node is feasible, else Reserve, PreBind, Bind and PostBind on one of *)
(* them; a failure from Reserve on calls Unreserve and requeues the pod.   *)
(***************************************************************************)
EXTENDS Informers

VARIABLES
    cycle,         \* the scheduling or binding cycle of the proxy pod
    failedNodes,   \* failedNodeNamesByPodUID
    inflight       \* Create calls given up by the client, not yet processed

schedulerVars == <<cycle, failedNodes, inflight>>

Phases == {"idle", "filter", "reserve", "prebind", "bind", "postbind"}
Verdicts == {"wait", "pass", "fail"}

Undecided == [t \in Targets |-> "wait"]
Idle == [phase |-> "idle", uid |-> 0, node |-> None, verdict |-> Undecided]

SchedulerTypeOK ==
    /\ cycle \in [phase: Phases, uid: UIDs \cup {0},
                  node: Targets \cup {None}, verdict: [Targets -> Verdicts]]
    /\ cycle.phase # "idle" => cycle.uid \in UIDs
    /\ cycle.phase \notin {"idle", "filter"} => cycle.node \in Targets
    /\ failedNodes \in [UIDs -> SUBSET Targets]
    /\ inflight \subseteq Targets \X UIDs

-----------------------------------------------------------------------------
(* The candidate is created under a generated name. Two Create calls       *)
(* create two candidates: nothing makes the second one fail.               *)
CreateCandidate(t, u) ==
    \E c \in FreshNames(t) : chap' = [chap EXCEPT ![c] = MakeDelegatePod(u)]

IsCandidatePodUnschedulable(s) == s = "unschedulable"

(* The part of Filter that answers at once: the memory of failed nodes,    *)
(* targets of other namespaces, and pods that opt out of reservation. Only *)
(* this pod's own cycles write the memory, so it does not change meanwhile.*)
FilterAtOnce(t, u) ==
    CASE t \in failedNodes[u] -> "fail"
      [] t \notin failedNodes[u] /\ t \in OtherNamespace -> "fail"
      [] t \notin failedNodes[u] /\ t \notin OtherNamespace /\ NoReservation -> "pass"
      [] OTHER -> "wait"

StartCycle ==
    /\ cycle = Idle
    /\ proxy # None
    /\ ~proxy.terminating
    /\ proxy.node = None
    /\ cycle' = [phase |-> "filter", uid |-> proxy.uid, node |-> None,
                 verdict |-> [t \in Targets |-> FilterAtOnce(t, proxy.uid)]]
    /\ UNCHANGED <<apiVars, failedNodes, inflight>>

Decide(t, v) == cycle' = [cycle EXCEPT !.verdict[t] = v]

(* One iteration of Filter's poll that ends it or creates the candidate.   *)
(* A candidate that was once unschedulable is rejected even if it has been *)
(* reserved since, because both are read from the same object.             *)
Poll(t) ==
    LET found == Candidates(t, cycle.uid) IN
    \/ /\ Cardinality(found) > 1
       /\ Decide(t, "fail")
       /\ UNCHANGED chap
    \/ /\ found = {}
       /\ CreateCandidate(t, cycle.uid)
       /\ UNCHANGED cycle
    \/ /\ Cardinality(found) = 1
       /\ \E c \in found :
            /\ chap[c].reserved \/ IsCandidatePodUnschedulable(chap[c].status)
            /\ Decide(t, IF IsCandidatePodUnschedulable(chap[c].status)
                         THEN "fail" ELSE "pass")
       /\ UNCHANGED chap

Filter(t) ==
    /\ cycle.phase = "filter"
    /\ cycle.verdict[t] = "wait"
    /\ Poll(t)
    /\ UNCHANGED <<proxy, lastUID, mishaps, pod, everBound, failedNodes, inflight>>

(* Filter ends without a verdict of the target cluster: 30 seconds have    *)
(* passed, or a call failed, or another plugin rejected the virtual node.  *)
FilterGivesUp(t) ==
    /\ Faults \cap {"timeout", "apiError"} # {}
    /\ cycle.phase = "filter"
    /\ cycle.verdict[t] = "wait"
    /\ Decide(t, "fail")
    /\ UNCHANGED <<apiVars, failedNodes, inflight>>

(* A mistake: keep the memory when all virtual nodes are filtered out.     *)
PostFilterRemembers ==
    /\ cycle.phase = "filter"
    /\ \A t \in Targets : cycle.verdict[t] = "fail"
    /\ cycle' = Idle
    /\ UNCHANGED <<apiVars, failedNodes, inflight>>

(* No virtual node is feasible: forget the failed ones and requeue.        *)
PostFilter ==
    /\ cycle.phase = "filter"
    /\ \A t \in Targets : cycle.verdict[t] = "fail"
    /\ failedNodes' = [failedNodes EXCEPT ![cycle.uid] = {}]
    /\ cycle' = Idle
    /\ UNCHANGED <<apiVars, inflight>>

(* A mistake: go on to Reserve without a node.                             *)
SelectNothing(t) ==
    /\ cycle.phase = "filter"
    /\ \A s \in Targets : cycle.verdict[s] # "wait"
    /\ cycle' = [cycle EXCEPT !.phase = "reserve", !.verdict = Undecided]
    /\ UNCHANGED <<apiVars, failedNodes, inflight>>

(* Every virtual node was filtered; scoring picks one of the feasible ones.*)
Select(t) ==
    /\ cycle.phase = "filter"
    /\ \A s \in Targets : cycle.verdict[s] # "wait"
    /\ cycle.verdict[t] = "pass"
    /\ cycle' = [cycle EXCEPT !.phase = "reserve", !.node = t,
                              !.verdict = Undecided]
    /\ UNCHANGED <<apiVars, failedNodes, inflight>>

(* Remember the node as failed; the framework requeues the pod.            *)
Unreserve ==
    /\ failedNodes' = [failedNodes EXCEPT ![cycle.uid] = @ \cup {cycle.node}]
    /\ cycle' = Idle

Advance(phase) ==
    /\ cycle' = [cycle EXCEPT !.phase = phase]
    /\ UNCHANGED failedNodes

(* A mistake: the patch does not set the annotation that is waited for.    *)
AllowNothing(c) == UNCHANGED chap

AllowCandidate(c) == chap' = [chap EXCEPT ![c].allowed = TRUE]

(* A mistake: create a candidate whether or not there is one.              *)
ReserveCreatesAgain ==
    /\ cycle.phase = "reserve"
    /\ CreateCandidate(cycle.node, cycle.uid)
    /\ Advance("prebind")
    /\ UNCHANGED <<proxy, lastUID, mishaps, pod, everBound, inflight>>

Reserve ==
    LET found == Candidates(cycle.node, cycle.uid) IN
    /\ cycle.phase = "reserve"
    /\ \/ /\ Cardinality(found) = 1
          /\ \E c \in found : AllowCandidate(c)
          /\ Advance("prebind")
       \/ /\ found = {}
          /\ NoReservation
          /\ CreateCandidate(cycle.node, cycle.uid)
          /\ Advance("prebind")
       \/ /\ Cardinality(found) > 1 \/ (found = {} /\ ~NoReservation)
          /\ Unreserve
          /\ UNCHANGED chap
    /\ UNCHANGED <<proxy, lastUID, mishaps, pod, everBound, inflight>>

(* A call of Reserve fails, possibly after the target cluster applied it.  *)
ReserveError ==
    /\ Mishap("apiError")
    /\ cycle.phase = "reserve"
    /\ \/ UNCHANGED chap
       \/ \E c \in Candidates(cycle.node, cycle.uid) : AllowCandidate(c)
    /\ Unreserve
    /\ UNCHANGED <<proxy, lastUID, pod, everBound, inflight>>

(* The client gives up a Create call, of Filter or of Reserve, that the    *)
(* target cluster will still process.                                      *)
CreateTimesOut(t) ==
    /\ Mishap("lateCreate")
    /\ Candidates(t, cycle.uid) = {}
    /\ \/ /\ cycle.phase = "filter" /\ cycle.verdict[t] = "wait"
          /\ Decide(t, "fail")
          /\ UNCHANGED failedNodes
       \/ /\ cycle.phase = "reserve" /\ cycle.node = t /\ NoReservation
          /\ Unreserve
    /\ inflight' = inflight \cup {<<t, cycle.uid>>}
    /\ UNCHANGED <<proxy, lastUID, chap, pod, everBound>>

LateCreate(t, u) ==
    /\ <<t, u>> \in inflight
    /\ CreateCandidate(t, u)
    /\ inflight' = inflight \ {<<t, u>>}
    /\ UNCHANGED <<proxy, lastUID, mishaps, pod, everBound, cycle, failedNodes>>

(* A mistake: any candidate that has not failed counts as bound.           *)
PreBindTooEarly ==
    /\ cycle.phase = "prebind"
    /\ \E c \in Candidates(cycle.node, cycle.uid) :
         chap[c].status \notin {"unschedulable", "error"} /\ Advance("bind")
    /\ UNCHANGED <<apiVars, inflight>>

(* One iteration of PreBind's poll that ends it. A PodScheduled condition  *)
(* that is False ends it too, whichever cycle of the candidate left it.    *)
PreBind ==
    LET found == Candidates(cycle.node, cycle.uid) IN
    /\ cycle.phase = "prebind"
    /\ \/ found = {} /\ Unreserve
       \/ /\ Cardinality(found) = 1
          /\ \E c \in found :
               \/ IsScheduled(chap[c].status) /\ Advance("bind")
               \/ chap[c].status \in {"unschedulable", "error"} /\ Unreserve
    /\ UNCHANGED <<apiVars, inflight>>

PreBindTimeout ==
    /\ "timeout" \in Faults
    /\ cycle.phase = "prebind"
    /\ Unreserve
    /\ UNCHANGED <<apiVars, inflight>>

(* A mistake: bind whichever pod has the name.                             *)
BindableByName == proxy # None /\ ~proxy.terminating /\ proxy.node = None

(* The API server binds the pod with that UID if it is neither terminating *)
(* nor bound.                                                              *)
Bindable ==
    /\ proxy # None
    /\ proxy.uid = cycle.uid
    /\ ~proxy.terminating
    /\ proxy.node = None

BindProxy ==
    /\ Bindable
    /\ proxy' = [proxy EXCEPT !.node = cycle.node, !.status = "bound"]

Bind ==
    /\ cycle.phase = "bind"
    /\ \/ BindProxy /\ Advance("postbind")
       \/ ~Bindable /\ Unreserve /\ UNCHANGED proxy
    /\ UNCHANGED <<lastUID, mishaps, chap, pod, everBound, inflight>>

(* The Bind call fails, possibly after the API server applied it.          *)
BindError ==
    /\ Mishap("apiError")
    /\ cycle.phase = "bind"
    /\ BindProxy \/ UNCHANGED proxy
    /\ Unreserve
    /\ UNCHANGED <<lastUID, chap, pod, everBound, inflight>>

(* Delete the candidates of the other targets: one DeleteCollection per    *)
(* target, the errors of which are only logged, so any of them may fail.   *)
PostBind ==
    /\ cycle.phase = "postbind"
    /\ \E reached \in SUBSET (Targets \ ({cycle.node} \cup OtherNamespace)) :
         /\ "apiError" \notin Faults =>
              reached = Targets \ ({cycle.node} \cup OtherNamespace)
         /\ chap' = Without(UNION {Candidates(t, cycle.uid) : t \in reached})
    /\ failedNodes' = [failedNodes EXCEPT ![cycle.uid] = {}]
    /\ cycle' = Idle
    /\ UNCHANGED <<proxy, lastUID, mishaps, pod, everBound, inflight>>

(* The scheduler restarts or another replica takes the lead: the cycle is  *)
(* abandoned and the memory of failed nodes is lost.                       *)
Crash ==
    /\ Mishap("crash")
    /\ cycle' = Idle
    /\ failedNodes' = [u \in UIDs |-> {}]
    /\ UNCHANGED <<proxy, lastUID, chap, pod, everBound, inflight>>

SchedulerInit ==
    /\ cycle = Idle
    /\ failedNodes = [u \in UIDs |-> {}]
    /\ inflight = {}
=============================================================================
