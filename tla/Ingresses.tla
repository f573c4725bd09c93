------------------------------ MODULE Ingresses ------------------------------
(***************************************************************************)
(* Ingresses follow the services that they route to                        *)
(* (pkg/controllers/follow/ingress/controller.go), composed with the       *)
(* controllers that make those services global: one ingress with a path to *)
(* the service of module Services. The ingress controller of a target      *)
(* shares the service cache of the service controller of that target. When *)
(* the chart is uninstalled, a job removes all finalizers                  *)
(* (cmd/remove-finalizers/main.go).                                        *)
(***************************************************************************)
EXTENDS Services

VARIABLES
    ing,          \* the ingress in the source cluster
    ingCopy,      \* ingCopy[t]: the ingress of that name in target t
    ingSeen,      \* controller of t: its cached copy of ing
    ingCopySeen,  \* controller of t: its cached copy of ingCopy[t]
    ingCall       \* ingCall[t]: Handle has updated ing and goes on with the copy

ingVars == <<ing, ingCopy, ingSeen, ingCopySeen, ingCall>>
vars == <<svcVars, ingVars>>

(* spec is a version of the spec; note is the value of an annotation of    *)
(* the user, 0 if it is absent.                                            *)
NewIngress == [terminating |-> FALSE, finalizers |-> {}, spec |-> 0, note |-> 0]

(* An ingress of that name that another user created in a target cluster.  *)
ForeignIngress == [ours |-> FALSE, spec |-> 0, note |-> 0]

IngressObjects ==
    [terminating: BOOLEAN, finalizers: SUBSET Targets, spec: 0..1, note: 0..2]
IngressCopies == [ours: BOOLEAN, spec: 0..1, note: 0..2]
IngressCalls == [ingress: IngressObjects, copy: IngressCopies \cup {None}]

ASSUME IngressesAssumption == None \notin IngressObjects \cup IngressCopies \cup IngressCalls

-----------------------------------------------------------------------------
IsLatestIngress(o) == ing = o

ReleasedIngress(o, F) ==
    LET rest == o.finalizers \ F IN
    IF o.terminating /\ rest = {} THEN None ELSE [o EXCEPT !.finalizers = rest]

(* shouldFollow: a path of the ingress leads to a service that is global.  *)
IngressShouldFollow(t) == svcSeen[t] # None /\ svcSeen[t].global

(* A mistake: copy the object as it is, its metadata included.             *)
WholeIngress(o) == o

MakeRemoteIngress(o) == [ours |-> TRUE, spec |-> o.spec, note |-> o.note]

(* A mistake: leave annotations alone.                                     *)
SpecOnly(r, o) == [r EXCEPT !.spec = o.spec]

(* shouldUpdate: the spec of the original, and those of its annotations    *)
(* that are missing or different; annotations are never removed.           *)
UpdatedIngress(r, o) ==
    [r EXCEPT !.spec = o.spec, !.note = IF o.note = 0 THEN @ ELSE o.note]

-----------------------------------------------------------------------------
(* The paths through Handle, in the controller of target t.                *)
DeleteOrphanIngress(t) ==
    /\ ingSeen[t] = None
    /\ ingCopySeen[t] # None
    /\ ingCopySeen[t].ours
    /\ ingCopy' = [ingCopy EXCEPT ![t] = None]
    /\ UNCHANGED <<ing, ingCall>>

(* The ingress, and its copy if there is one: see FindsService.            *)
FindsIngress(t) ==
    /\ ingSeen[t] # None
    /\ ingCopySeen[t] # None => ingCopySeen[t].ours

DeleteIngressCopy(t) ==
    /\ FindsIngress(t)
    /\ ingSeen[t].terminating
    /\ ingCopySeen[t] # None
    /\ ingCopy' = [ingCopy EXCEPT ![t] = None]
    /\ UNCHANGED <<ing, ingCall>>

FinalizesIngress(t) ==
    FindsIngress(t) /\ ingSeen[t].terminating /\ ingCopySeen[t] = None

RemoveIngressFinalizer(t) ==
    /\ FinalizesIngress(t)
    /\ t \in ingSeen[t].finalizers
    /\ IsLatestIngress(ingSeen[t])
    /\ ing' = ReleasedIngress(ingSeen[t], {t})
    /\ UNCHANGED <<ingCopy, ingCall>>

(* addFinalizer, unless the finalizer is there; the copy is written next.  *)
HoldIngress(t) ==
    LET o == ingSeen[t]
        held == [o EXCEPT !.finalizers = @ \cup {t}]
    IN
    /\ FindsIngress(t)
    /\ ~o.terminating
    /\ IngressShouldFollow(t)
    /\ held = o \/ IsLatestIngress(o)
    /\ ing' = IF held = o THEN ing ELSE held
    /\ ingCall' = [ingCall EXCEPT ![t] = [ingress |-> held, copy |-> ingCopySeen[t]]]
    /\ UNCHANGED ingCopy

HandleIngress(t) ==
    /\ ingCall[t] = None
    /\ \/ DeleteOrphanIngress(t)
       \/ DeleteIngressCopy(t)
       \/ RemoveIngressFinalizer(t)
       \/ HoldIngress(t)
    /\ UNCHANGED <<ingSeen, ingCopySeen, svcVars>>

WrittenIngress(t, o, r) ==
    CASE r = None /\ ingCopy[t] = None -> MakeRemoteIngress(o)
      [] r # None /\ r = ingCopy[t] -> UpdatedIngress(r, o)
      [] OTHER -> ingCopy[t]

HandleIngressRest(t) ==
    /\ ingCall[t] # None
    /\ ingCopy' = [ingCopy EXCEPT
          ![t] = WrittenIngress(t, ingCall[t].ingress, ingCall[t].copy)]
    /\ ingCall' = [ingCall EXCEPT ![t] = None]
    /\ UNCHANGED <<ing, ingSeen, ingCopySeen, svcVars>>

SyncIngress(t) ==
    /\ ingSeen' = [ingSeen EXCEPT ![t] = ing]
    /\ UNCHANGED <<ing, ingCopy, ingCopySeen, ingCall, svcVars>>

SyncIngressCopy(t) ==
    /\ ingCopySeen' = [ingCopySeen EXCEPT ![t] = ingCopy[t]]
    /\ UNCHANGED <<ing, ingCopy, ingSeen, ingCall, svcVars>>

-----------------------------------------------------------------------------
(* The user changes the spec, or sets or removes the annotation.           *)
EditIngress ==
    /\ ing # None
    /\ UserEdits
    /\ \/ ing' = [ing EXCEPT !.spec = 1 - @]
       \/ \E n \in 0..2 : n # ing.note /\ ing' = [ing EXCEPT !.note = n]
    /\ UNCHANGED <<ingCopy, ingSeen, ingCopySeen, ingCall, svc, wanted, svcCopy, configured,
                   proxies,
                   svcSeen, svcCopySeen, svcCall, mishaps>>

DeleteIngress ==
    /\ ing # None
    /\ ~ing.terminating
    /\ ing' = ReleasedIngress([ing EXCEPT !.terminating = TRUE], {})
    /\ UNCHANGED <<ingCopy, ingSeen, ingCopySeen, ingCall, svcVars>>

(* Somebody deletes the ingress in the target cluster.                     *)
LoseIngressCopy(t) ==
    /\ Mishap
    /\ ingCopy[t] # None
    /\ ingCopy' = [ingCopy EXCEPT ![t] = None]
    /\ UNCHANGED <<ing, ingSeen, ingCopySeen, ingCall, svc, wanted, svcCopy, configured,
                   proxies, svcSeen, svcCopySeen, svcCall, edits>>

IngressCallFails(t) ==
    /\ Mishap
    /\ ingCall[t] # None
    /\ ingCall' = [ingCall EXCEPT ![t] = None]
    /\ UNCHANGED <<ing, ingCopy, ingSeen, ingCopySeen, svc, wanted, svcCopy, configured,
                   proxies,
                   svcSeen, svcCopySeen, svcCall, edits>>

(* Agents of the source cluster stop for good.                             *)
Uninstall ==
    /\ Mishap
    /\ configured # {}
    /\ configured' = {}
    /\ svcCall' = [t \in Targets |-> None]
    /\ ingCall' = [t \in Targets |-> None]
    /\ UNCHANGED <<ing, ingCopy, ingSeen, ingCopySeen, svc, wanted, svcCopy, proxies,
                   svcSeen, svcCopySeen, edits>>

(* Then the job patches what has finalizers, services before ingresses. It *)
(* fails and starts again if the object is not there any more.             *)
HasFinalizer(o) == o # None /\ o.finalizers # {}

PatchServices ==
    /\ configured = {}
    /\ HasFinalizer(svc)
    /\ svc' = ReleasedService(svc, svc.finalizers)
    /\ UNCHANGED <<ingVars, wanted, svcCopy, configured, proxies, svcSeen, svcCopySeen,
                   svcCall, edits, mishaps>>

PatchIngresses ==
    /\ configured = {}
    /\ ~HasFinalizer(svc)
    /\ HasFinalizer(ing)
    /\ ing' = ReleasedIngress(ing, ing.finalizers)
    /\ UNCHANGED <<ingCopy, ingSeen, ingCopySeen, ingCall, svcVars>>

Init ==
    /\ ServicesInit
    /\ ing \in {NewIngress, None}
    /\ \E F \in SUBSET Targets :
         ingCopy = [t \in Targets |-> IF t \in F THEN ForeignIngress ELSE None]
    /\ ingSeen = [t \in Targets |-> None]
    /\ ingCopySeen = ingCopy
    /\ ingCall = [t \in Targets |-> None]

IngressSteps(t) ==
    \/ HandleIngress(t)
    \/ HandleIngressRest(t)
    \/ SyncIngress(t)
    \/ SyncIngressCopy(t)
    \/ LoseIngressCopy(t)
    \/ IngressCallFails(t)

Next ==
    \/ ServicesNext /\ UNCHANGED ingVars
    \/ \E t \in configured : IngressSteps(t)
    \/ EditIngress
    \/ DeleteIngress
    \/ Uninstall
    \/ PatchServices
    \/ PatchIngresses

Spec == Init /\ [][Next]_vars

(* Informers deliver every event in the end, and every event, error and    *)
(* 30-second resync puts the key back on the queue of the controller. The  *)
(* job is retried.                                                         *)
Fairness ==
    /\ WF_vars(PatchServices)
    /\ WF_vars(PatchIngresses)
    /\ \A t \in Targets :
         /\ WF_vars(t \in configured /\ HandleService(t) /\ UNCHANGED ingVars)
         /\ WF_vars(t \in configured /\ HandleServiceRest(t) /\ UNCHANGED ingVars)
         /\ WF_vars(t \in configured /\ SyncService(t) /\ UNCHANGED ingVars)
         /\ WF_vars(t \in configured /\ SyncServiceCopy(t) /\ UNCHANGED ingVars)
         /\ WF_vars(t \in configured /\ HandleIngress(t))
         /\ WF_vars(t \in configured /\ HandleIngressRest(t))
         /\ WF_vars(t \in configured /\ SyncIngress(t))
         /\ WF_vars(t \in configured /\ SyncIngressCopy(t))

FairSpec == Spec /\ Fairness

-----------------------------------------------------------------------------
(* No controller writes an annotation or a copy that is not well formed.   *)
IngressesTypeOK ==
    /\ ServicesTypeOK
    /\ ing \in IngressObjects \cup {None}
    /\ ingCopy \in [Targets -> IngressCopies \cup {None}]
    /\ ingSeen \in [Targets -> IngressObjects \cup {None}]
    /\ ingCopySeen \in [Targets -> IngressCopies \cup {None}]
    /\ ingCall \in [Targets -> IngressCalls \cup {None}]

(* Every label of the selector has been through ChangeLabels.              *)
IsRerouted(s) == DOMAIN s # {} /\ \A k \in DOMAIN s : IsOwn(k) \/ k \in NoPrefix

(* s has the labels of the user's selector u, each under its new key.      *)
Reroutes(s, u) ==
    /\ DOMAIN s = {NewKey(k) : k \in DOMAIN u}
    /\ \A k \in DOMAIN u : s[NewKey(k)] = u[k]

(* CHANGELOG.md: "Fix service reroute, which didn't stick after service    *)
(* was updated or re-applied". A selector that is rerouted is that of the  *)
(* user's latest selector, and the annotation keeps that one: several      *)
(* controllers rewrite both from their caches while users change them.     *)
RerouteFaithful ==
    svc # None /\ IsRerouted(svc.selector) =>
        svc.original = wanted /\ Reroutes(svc.selector, wanted)

(* A copy is created only while its original is held by the finalizer of   *)
(* that target, however old the versions are that Handle read.             *)
CopiesHeld ==
    [][\A t \in Targets :
         /\ svcCopy[t] = None /\ svcCopy'[t] # None => svc # None /\ t \in svc.finalizers
         /\ ingCopy[t] = None /\ ingCopy'[t] # None => ing # None /\ t \in ing.finalizers
      ]_vars

(* A service or ingress of that name that others created in a target       *)
(* cluster is left alone ("because we don't want to delete them").         *)
ForeignKept ==
    [][\A t \in Targets :
         (\/ svcCopy[t] = Foreign /\ svcCopy'[t] # Foreign
          \/ ingCopy[t] = ForeignIngress /\ ingCopy'[t] # ForeignIngress)
         => mishaps' < mishaps]_vars

(* A controller that goes on with a copy, and one that takes the original  *)
(* for held, are right, since nobody else removes the finalizer and agents *)
(* are gone before the job does.                                           *)
ServiceHeld(t) ==
    (\/ svcCall[t] # None
     \/ /\ t \in configured /\ svcSeen[t] # None
        /\ ~svcSeen[t].terminating /\ t \in svcSeen[t].finalizers)
    => t \in configured /\ svc # None /\ t \in svc.finalizers

IngressHeld(t) ==
    (\/ ingCall[t] # None
     \/ /\ t \in configured /\ ingSeen[t] # None
        /\ ~ingSeen[t].terminating /\ t \in ingSeen[t].finalizers)
    => t \in configured /\ ing # None /\ t \in ing.finalizers

(* With the types, inductive.                                              *)
HeldInv == \A t \in Targets : ServiceHeld(t) /\ IngressHeld(t)

(* What others created is known as such, and what is not theirs is ours.   *)
(* With the types, inductive.                                              *)
ForeignInv ==
    \A t \in Targets :
      /\ svcCopy[t] = Foreign => svcCopySeen[t] = Foreign /\ svcCall[t] = None
      /\ svcCopy[t] \notin {None, Foreign} => svcCopy[t].ours
      /\ ingCopy[t] = ForeignIngress => ingCopySeen[t] = ForeignIngress /\ ingCall[t] = None
      /\ ingCopy[t] \notin {None, ForeignIngress} => ingCopy[t].ours

(* Users give whole selectors of their own keys, which get a prefix, and   *)
(* no two of which get the same new key.                                   *)
PlainSelectors ==
    /\ ~Merging
    /\ \A s \in Selectors : \A k \in DOMAIN s :
         /\ IsUsers(k) /\ k \notin NoPrefix
         /\ \A j \in DOMAIN s : NewKey(j) = NewKey(k) => j = k

(* The service has the user's selector, or that one rerouted, the original *)
(* being kept. With the types, inductive for plain selectors.              *)
RerouteInv ==
    svc # None =>
        \/ svc.selector = wanted
        \/ svc.original = wanted /\ Reroutes(svc.selector, wanted)

(* The service selects a proxy pod, by what the user gave.                 *)
ServiceWanted(t) ==
    /\ t \in configured
    /\ svc # None /\ ~svc.terminating
    /\ DOMAIN wanted # {}
    /\ \E p \in proxies : Matches(wanted, p)
    /\ svcCopy[t] # Foreign

ServiceFollows(t) ==
    /\ svcCopy[t] # None
    /\ svcCopy[t].selector = svc.selector
    /\ Reroutes(svc.selector, wanted)
    /\ \A p \in proxies : \A d \in ChangeLabels(p) :
          Matches(wanted, p) <=> Matches(svc.selector, d)

(* As long as the service selects a proxy pod, it is rerouted for good,    *)
(* in the source cluster and in every target cluster, and selects the      *)
(* delegates of just those proxy pods that the user selected.              *)
ServiceFollowed ==
    \A t \in Targets : <>[]ServiceWanted(t) => <>[](ServiceWanted(t) => ServiceFollows(t))

(* The ingress routes to a service that follows.                           *)
IngressWanted(t) ==
    /\ ing # None /\ ~ing.terminating
    /\ ServiceWanted(t)
    /\ ingCopy[t] # ForeignIngress

IngressFollows(t) ==
    /\ ingCopy[t] # None
    /\ ingCopy[t].spec = ing.spec
    /\ ing.note # 0 => ingCopy[t].note = ing.note

(* CHANGELOG.md: "Ingresses follow services that follow matching           *)
(* cross-cluster pods", "Update remote Ingress on annotation change".      *)
IngressFollowed ==
    \A t \in Targets : <>[]IngressWanted(t) => <>[](IngressWanted(t) => IngressFollows(t))

(* Nothing is left of a service or an ingress that was deleted.            *)
ServiceCleared ==
    svc = None /\ \A t \in configured : svcCopy[t] = None \/ ~svcCopy[t].ours
IngressCleared ==
    ing = None /\ \A t \in configured : ingCopy[t] = None \/ ~ingCopy[t].ours

(* A service or an ingress that is deleted goes away, even if agents are   *)
(* gone. While they are not, so do all of its copies, those that Handle    *)
(* created while it was deleted too.                                       *)
Cleared ==
    /\ (svc = None \/ svc.terminating) ~> ServiceCleared
    /\ (ing = None \/ ing.terminating) ~> IngressCleared
=============================================================================
