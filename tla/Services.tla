------------------------------ MODULE Services ------------------------------
(***************************************************************************)
(* Services follow the pods that they select                               *)
(* (pkg/controllers/follow/service/controller.go). A service that selects  *)
(* a proxy pod is held by a finalizer per target, made global, rerouted to *)
(* the delegate pods by a change of its selector, whose original is kept   *)
(* in an annotation, and copied to every target cluster.                   *)
(*                                                                         *)
(* One service, created once (Follow has the incarnations of a name). Each *)
(* target has a controller with caches of its own; all of them, and the    *)
(* user, update the service. Update is refused unless it starts from the   *)
(* latest version; Delete is by name.                                      *)
(***************************************************************************)
EXTENDS Naturals, Labels

CONSTANTS
    Targets,      \* target clusters
    Selectors,    \* selectors that users give to the service
    ProxyLabels,  \* labels of the proxy pods that may exist
    Merging,      \* users change the selector by a merging patch (kubectl apply)
    MaxEdits,     \* bound on the changes that users make
    MaxMishaps,   \* bound on failed calls and lost copies
    None          \* no object, no annotation, no call in progress

VARIABLES
    svc,          \* the service in the source cluster
    wanted,       \* the selector that the user gave last
    svcCopy,      \* svcCopy[t]: the service of that name in target t
    configured,   \* targets in the configuration of the agent that runs
    proxies,      \* labels of the proxy pods that exist
    svcSeen,      \* controller of t: its cached copy of svc
    svcCopySeen,  \* controller of t: its cached copy of svcCopy[t]
    svcCall,      \* svcCall[t]: Handle has updated svc and goes on with the copy
    edits,        \* changes made by users so far
    mishaps       \* mishaps that may still happen

svcVars == <<svc, wanted, svcCopy, configured, proxies, svcSeen, svcCopySeen, svcCall,
             edits, mishaps>>

(* global stands for the two annotations that make the service global.     *)
NewService(s) ==
    [terminating |-> FALSE, finalizers |-> {}, selector |-> s,
     original |-> None, global |-> FALSE]

(* A service of that name that another user created in a target cluster.   *)
Foreign == [ours |-> FALSE, selector |-> None]

(* Selectors of the user's keys and of those that replace them.            *)
UserKeys == UNION {DOMAIN s : s \in Selectors}
SelectorKeys == UserKeys \cup {NewKey(k) : k \in UserKeys}
SelectorValues == UNION {Range(s) : s \in Selectors}
LabelMaps == UNION {[K -> SelectorValues] : K \in SUBSET SelectorKeys}

ServiceObjects ==
    [terminating: BOOLEAN, finalizers: SUBSET Targets, selector: LabelMaps,
     original: LabelMaps \cup {None}, global: BOOLEAN]
ServiceCopies == [ours: BOOLEAN, selector: LabelMaps \cup {None}]
ServiceCalls == [service: ServiceObjects, copy: ServiceCopies \cup {None}]

ASSUME ServicesAssumption ==
    /\ Selectors \subseteq LabelMaps
    /\ Merging \in BOOLEAN
    /\ MaxEdits \in Nat /\ MaxMishaps \in Nat
    /\ None \notin ServiceObjects \cup ServiceCopies \cup ServiceCalls

-----------------------------------------------------------------------------
(* A mistake: write the cached version over the latest one.                *)
ForceUpdateService(o) == svc # None

(* An Update that starts from version o is not refused.                    *)
IsLatestService(o) == svc = o

(* The service once the finalizers F are removed from it.                  *)
ReleasedService(o, F) ==
    LET rest == o.finalizers \ F IN
    IF o.terminating /\ rest = {} THEN None ELSE [o EXCEPT !.finalizers = rest]

IsOwn(k) == k[1] = Own
IsUsers(k) == k[1] # Own

(* The selector before rerouting, first part of shouldFollow: the labels   *)
(* without our prefix, which a user has put there since the service was    *)
(* rerouted, or else what the annotation says.                             *)
OriginalSelector(o) ==
    IF \E k \in DOMAIN o.selector : IsUsers(k)
    THEN RestrictDomain(o.selector, IsUsers)
    ELSE o.original

HasSelector(o) == DOMAIN o.selector # {}

(* "original selector not found" ends Handle with an error.                *)
IsRecoverable(o) == HasSelector(o) => OriginalSelector(o) # None

(* The service selects a proxy pod, anywhere.                              *)
ServiceShouldFollow(o) ==
    HasSelector(o) /\ \E p \in proxies : Matches(OriginalSelector(o), p)

(* makeRemoteService.                                                      *)
MakeRemoteService(o) == [ours |-> TRUE, selector |-> o.selector]

-----------------------------------------------------------------------------
(* The paths through Handle, in the controller of target t.                *)

(* A mistake: trust the finalizer to leave no orphans.                     *)
NoOrphanService(t) == FALSE /\ UNCHANGED <<svc, svcCopy, svcCall>>

DeleteOrphanService(t) ==
    /\ svcSeen[t] = None
    /\ svcCopySeen[t] # None
    /\ svcCopySeen[t].ours
    /\ svcCopy' = [svcCopy EXCEPT ![t] = None]
    /\ UNCHANGED <<svc, svcCall>>

(* A mistake: take whatever has the name for the copy.                     *)
FindsNamesake(t) == svcSeen[t] # None /\ IsRecoverable(svcSeen[t])

(* The service, and its copy if there is one; a service of somebody else   *)
(* in the target cluster makes Handle return.                              *)
FindsService(t) ==
    /\ svcSeen[t] # None
    /\ IsRecoverable(svcSeen[t])
    /\ svcCopySeen[t] # None => svcCopySeen[t].ours

DeleteServiceCopy(t) ==
    /\ FindsService(t)
    /\ svcSeen[t].terminating
    /\ svcCopySeen[t] # None
    /\ svcCopy' = [svcCopy EXCEPT ![t] = None]
    /\ UNCHANGED <<svc, svcCall>>

FinalizesService(t) ==
    FindsService(t) /\ svcSeen[t].terminating /\ svcCopySeen[t] = None

RemoveServiceFinalizer(t) ==
    /\ FinalizesService(t)
    /\ t \in svcSeen[t].finalizers
    /\ IsLatestService(svcSeen[t])
    /\ svc' = ReleasedService(svcSeen[t], {t})
    /\ UNCHANGED <<svcCopy, svcCall>>

AddServiceFinalizer(t, o) == [o EXCEPT !.finalizers = @ \cup {t}]

(* A mistake: reroute without a finalizer.                                 *)
GlobalOnly(t, o, s) ==
    [o EXCEPT !.global = TRUE, !.original = OriginalSelector(o), !.selector = s]

Rerouted(t, o, s) ==
    [AddServiceFinalizer(t, o) EXCEPT
        !.global = TRUE, !.original = OriginalSelector(o), !.selector = s]

(* ChangeLabels reports a change whenever it replaces a key, be it by the  *)
(* same key, so an Update is left out only if all keys keep their prefix.  *)
NeedsNoUpdate(t, o) == DOMAIN o.selector \subseteq NoPrefix /\ Rerouted(t, o, o.selector) = o

(* One Update makes the service held, global and rerouted.                 *)
UpdateService(t) ==
    LET o == svcSeen[t] IN
    /\ FindsService(t)
    /\ ~o.terminating
    /\ ServiceShouldFollow(o)
    /\ IsLatestService(o) \/ NeedsNoUpdate(t, o)
    /\ \E s \in ChangeLabels(o.selector) :
         /\ svc' = IF NeedsNoUpdate(t, o) THEN svc ELSE Rerouted(t, o, s)
         /\ svcCall' = [svcCall EXCEPT
              ![t] = [service |-> Rerouted(t, o, s), copy |-> svcCopySeen[t]]]
    /\ UNCHANGED svcCopy

HandleService(t) ==
    /\ svcCall[t] = None
    /\ \/ DeleteOrphanService(t)
       \/ DeleteServiceCopy(t)
       \/ RemoveServiceFinalizer(t)
       \/ UpdateService(t)
    /\ UNCHANGED <<wanted, configured, proxies, svcSeen, svcCopySeen, edits, mishaps>>

(* A mistake: never look at a copy that exists.                            *)
OnlyCreated(t, o, r) == IF svcCopy[t] = None THEN MakeRemoteService(o) ELSE svcCopy[t]

(* The object in target t after Handle has written the copy of o, having   *)
(* found r in its cache: Create ignores that the object exists, an Update  *)
(* of another version than the latest is refused.                          *)
WrittenService(t, o, r) ==
    CASE r = None /\ svcCopy[t] = None -> MakeRemoteService(o)
      [] r # None /\ r = svcCopy[t] -> [r EXCEPT !.selector = o.selector]
      [] OTHER -> svcCopy[t]

(* Handle after its Update of the service.                                 *)
HandleServiceRest(t) ==
    /\ svcCall[t] # None
    /\ svcCopy' = [svcCopy EXCEPT
          ![t] = WrittenService(t, svcCall[t].service, svcCall[t].copy)]
    /\ svcCall' = [svcCall EXCEPT ![t] = None]
    /\ UNCHANGED <<wanted, configured, svc, proxies, svcSeen, svcCopySeen, edits, mishaps>>

SyncService(t) ==
    /\ svcSeen' = [svcSeen EXCEPT ![t] = svc]
    /\ UNCHANGED <<wanted, configured, svc, svcCopy, proxies, svcCopySeen, svcCall, edits, mishaps>>

SyncServiceCopy(t) ==
    /\ svcCopySeen' = [svcCopySeen EXCEPT ![t] = svcCopy[t]]
    /\ UNCHANGED <<wanted, configured, svc, svcCopy, proxies, svcSeen, svcCall, edits, mishaps>>

-----------------------------------------------------------------------------
(* The environment.                                                        *)
UserEdits == edits < MaxEdits /\ edits' = edits + 1
Mishap == mishaps > 0 /\ mishaps' = mishaps - 1

(* The selector after the user gave s. A merging patch removes only keys   *)
(* that the user gave before and does not give any more.                   *)
Given(s) ==
    LET kept == DOMAIN svc.selector \ (DOMAIN wanted \ DOMAIN s) IN
    IF Merging
    THEN [k \in DOMAIN s \cup kept |-> IF k \in DOMAIN s THEN s[k] ELSE svc.selector[k]]
    ELSE s

ChangeSelector(s) ==
    /\ svc # None
    /\ s # wanted
    /\ UserEdits
    /\ svc' = [svc EXCEPT !.selector = Given(s)]
    /\ wanted' = s
    /\ UNCHANGED <<configured, svcCopy, proxies, svcSeen, svcCopySeen, svcCall, mishaps>>

DeleteService ==
    /\ svc # None
    /\ ~svc.terminating
    /\ svc' = ReleasedService([svc EXCEPT !.terminating = TRUE], {})
    /\ UNCHANGED <<wanted, configured, svcCopy, proxies, svcSeen, svcCopySeen, svcCall, edits, mishaps>>

(* Proxy pods come and go.                                                 *)
ChangePods(P) ==
    /\ P # proxies
    /\ proxies' = P
    /\ UserEdits
    /\ UNCHANGED <<wanted, configured, svc, svcCopy, svcSeen, svcCopySeen, svcCall, mishaps>>

(* Somebody deletes the service in the target cluster.                     *)
LoseServiceCopy(t) ==
    /\ Mishap
    /\ svcCopy[t] # None
    /\ svcCopy' = [svcCopy EXCEPT ![t] = None]
    /\ UNCHANGED <<wanted, configured, svc, proxies, svcSeen, svcCopySeen, svcCall, edits>>

(* The target cluster does not answer, or the agent restarts.              *)
ServiceCallFails(t) ==
    /\ Mishap
    /\ svcCall[t] # None
    /\ svcCall' = [svcCall EXCEPT ![t] = None]
    /\ UNCHANGED <<wanted, configured, svc, svcCopy, proxies, svcSeen, svcCopySeen, edits>>

-----------------------------------------------------------------------------
(* A new service; targets F have a service of that name of their own.      *)
ServicesInit ==
    /\ wanted \in Selectors
    /\ svc = NewService(wanted)
    /\ \E F \in SUBSET Targets :
         svcCopy = [t \in Targets |-> IF t \in F THEN Foreign ELSE None]
    /\ configured \in SUBSET Targets
    /\ proxies = ProxyLabels
    /\ svcSeen = [t \in Targets |-> None]
    /\ svcCopySeen = svcCopy
    /\ svcCall = [t \in Targets |-> None]
    /\ edits = 0
    /\ mishaps \in 0..MaxMishaps

ServiceSteps(t) ==
    \/ HandleService(t)
    \/ HandleServiceRest(t)
    \/ SyncService(t)
    \/ SyncServiceCopy(t)
    \/ LoseServiceCopy(t)
    \/ ServiceCallFails(t)

ServicesNext ==
    \/ \E t \in configured : ServiceSteps(t)
    \/ \E s \in Selectors : ChangeSelector(s)
    \/ \E P \in SUBSET ProxyLabels : ChangePods(P)
    \/ DeleteService

(* A part of IngressesTypeOK.                                              *)
ServicesTypeOK ==
    /\ svc \in ServiceObjects \cup {None}
    /\ wanted \in Selectors
    /\ configured \in SUBSET Targets
    /\ proxies \in SUBSET ProxyLabels
    /\ svcCopy \in [Targets -> ServiceCopies \cup {None}]
    /\ svcSeen \in [Targets -> ServiceObjects \cup {None}]
    /\ svcCopySeen \in [Targets -> ServiceCopies \cup {None}]
    /\ svcCall \in [Targets -> ServiceCalls \cup {None}]
    /\ edits \in 0..MaxEdits
    /\ mishaps \in 0..MaxMishaps
=============================================================================
