--------------------------- MODULE IngressesProofs ---------------------------
(***************************************************************************)
(* Proofs about services and ingresses that follow, for every set of       *)
(* targets, every set of selectors and every bound.                        *)
(***************************************************************************)
EXTENDS Ingresses, TLAPS

-----------------------------------------------------------------------------
(* Label maps. Their set is closed under all that is done to selectors.    *)

(* A function between keys and values of selectors is a label map.         *)
LEMMA LabelMapIntro ==
    ASSUME NEW K \in SUBSET SelectorKeys, NEW m \in [K -> SelectorValues]
    PROVE  m \in LabelMaps
BY DEF LabelMaps

(* The keys and values of a label map.                                     *)
LEMMA LabelMapElim ==
    ASSUME NEW m \in LabelMaps
    PROVE  DOMAIN m \subseteq SelectorKeys /\ m \in [DOMAIN m -> SelectorValues]
<1>1. PICK K \in SUBSET SelectorKeys : m \in [K -> SelectorValues]
  BY DEF LabelMaps
<1> QED
  BY <1>1

(* A key that replaces another is not replaced again.                      *)
LEMMA NewKeyStays ==
    ASSUME NEW k
    PROVE  NewKey(NewKey(k)) = NewKey(k)
<1>1. CASE k \in NoPrefix
  BY <1>1 DEF NewKey
<1>2. CASE k \notin NoPrefix
  <2>1. NewKey(k) = <<Own, k[2]>>
    BY <1>2 DEF NewKey
  <2>2. <<Own, k[2]>>[2] = k[2]
    OBVIOUS
  <2>3. NewKey(<<Own, k[2]>>) = <<Own, k[2]>>
    BY <2>2 DEF NewKey
  <2> QED
    BY <2>1, <2>3
<1> QED
  BY <1>1, <1>2

(* A key that is replaced is replaced by a key of label maps.              *)
LEMMA NewKeyType ==
    ASSUME NEW k \in SelectorKeys
    PROVE  NewKey(k) \in SelectorKeys
BY NewKeyStays DEF SelectorKeys

(* ChangeLabels returns label maps.                                        *)
LEMMA ChangeLabelsType ==
    ASSUME NEW m \in LabelMaps, NEW c \in ChangeLabels(m)
    PROVE  c \in LabelMaps
<1> DEFINE K == {NewKey(k) : k \in DOMAIN m}
<1>1. K \in SUBSET SelectorKeys
  BY LabelMapElim, NewKeyType
<1>2. Range(m) \subseteq SelectorValues
  BY LabelMapElim DEF Range
<1>3. c \in [K -> Range(m)]
  BY DEF ChangeLabels
<1>4. c \in [K -> SelectorValues]
  BY <1>2, <1>3
<1> QED
  BY <1>1, <1>4, LabelMapIntro

(* What shouldFollow recovers is a label map, if there is one.             *)
LEMMA OriginalSelectorType ==
    ASSUME NEW o \in ServiceObjects
    PROVE  OriginalSelector(o) \in LabelMaps \cup {None}
<1> DEFINE m == o.selector
           K == {k \in DOMAIN m : IsUsers(k)}
<1>1. m \in LabelMaps /\ o.original \in LabelMaps \cup {None}
  BY DEF ServiceObjects
<1>2. K \in SUBSET SelectorKeys /\ m \in [DOMAIN m -> SelectorValues]
  BY <1>1, LabelMapElim
<1>3. [k \in K |-> m[k]] \in [K -> SelectorValues]
  BY <1>2
<1>4. RestrictDomain(m, IsUsers) = [k \in K |-> m[k]]
  BY DEF RestrictDomain, Restrict
<1>5. RestrictDomain(m, IsUsers) \in LabelMaps
  BY <1>2, <1>3, <1>4, LabelMapIntro
<1> QED
  BY <1>1, <1>5 DEF OriginalSelector

(* The selector after an edit is a label map, be it merged or replaced.    *)
LEMMA GivenType ==
    ASSUME svc \in ServiceObjects, NEW s \in LabelMaps
    PROVE  Given(s) \in LabelMaps
<1> DEFINE m == svc.selector
           R == DOMAIN m \ (DOMAIN wanted \ DOMAIN s)
           K == DOMAIN s \cup R
           g == [k \in K |-> IF k \in DOMAIN s THEN s[k] ELSE m[k]]
<1>1. m \in LabelMaps
  BY DEF ServiceObjects
<1>2. /\ DOMAIN m \subseteq SelectorKeys /\ m \in [DOMAIN m -> SelectorValues]
      /\ DOMAIN s \subseteq SelectorKeys /\ s \in [DOMAIN s -> SelectorValues]
  BY <1>1, LabelMapElim
<1>3. K \in SUBSET SelectorKeys /\ g \in [K -> SelectorValues]
  BY <1>2
<1>4. g \in LabelMaps
  BY <1>3, LabelMapIntro
<1> QED
  BY <1>4 DEF Given

-----------------------------------------------------------------------------
(* Types.                                                                  *)

(* What the assumptions say of the constants, part by part.                *)
LEMMA ServiceConstants ==
    /\ \A s \in Selectors : s \in LabelMaps
    /\ MaxEdits \in Nat /\ MaxMishaps \in Nat
    /\ None \notin ServiceObjects /\ None \notin ServiceCopies /\ None \notin ServiceCalls
    /\ None \notin IngressObjects /\ None \notin IngressCopies /\ None \notin IngressCalls
BY ServicesAssumption, IngressesAssumption

(* A service that loses finalizers is a service or gone.                   *)
LEMMA ReleasedServiceType ==
    ASSUME NEW o \in ServiceObjects, NEW F
    PROVE  ReleasedService(o, F) \in ServiceObjects \cup {None}
BY DEF ReleasedService, ServiceObjects

(* An ingress that loses finalizers is an ingress or gone.                 *)
LEMMA ReleasedIngressType ==
    ASSUME NEW o \in IngressObjects, NEW F
    PROVE  ReleasedIngress(o, F) \in IngressObjects \cup {None}
BY DEF ReleasedIngress, IngressObjects

(* A service that is rerouted has the finalizer, the selector and the      *)
(* annotations that Handle gave it.                                        *)
LEMMA ReroutedType ==
    ASSUME NEW t \in Targets, NEW o \in ServiceObjects, NEW s \in LabelMaps
    PROVE  /\ Rerouted(t, o, s) \in ServiceObjects
           /\ Rerouted(t, o, s).finalizers = o.finalizers \cup {t}
           /\ Rerouted(t, o, s).original = OriginalSelector(o)
           /\ Rerouted(t, o, s).selector = s
<1>1. OriginalSelector(o) \in LabelMaps \cup {None}
  BY OriginalSelectorType
<1> QED
  BY <1>1 DEF Rerouted, AddServiceFinalizer, ServiceObjects

(* What the second part of Handle leaves in the target cluster is a copy,  *)
(* if anything.                                                            *)
LEMMA WrittenServiceType ==
    ASSUME NEW t \in Targets, svcCopy[t] \in ServiceCopies \cup {None},
           NEW o \in ServiceObjects, NEW r \in ServiceCopies \cup {None}
    PROVE  WrittenService(t, o, r) \in ServiceCopies \cup {None}
BY DEF WrittenService, MakeRemoteService, ServiceObjects, ServiceCopies

(* The same for ingresses.                                                 *)
LEMMA WrittenIngressType ==
    ASSUME NEW t \in Targets, ingCopy[t] \in IngressCopies \cup {None},
           NEW o \in IngressObjects, NEW r \in IngressCopies \cup {None}
    PROVE  WrittenIngress(t, o, r) \in IngressCopies \cup {None}
BY DEF WrittenIngress, MakeRemoteIngress, UpdatedIngress, IngressObjects, IngressCopies

(* The initial states are well formed.                                     *)
LEMMA InitType == Init => IngressesTypeOK
<1> SUFFICES ASSUME Init PROVE IngressesTypeOK
  OBVIOUS
<1>1. wanted \in Selectors /\ wanted \in LabelMaps
  BY ServiceConstants DEF Init, ServicesInit
<1>2. svc \in ServiceObjects
  BY <1>1 DEF Init, ServicesInit, NewService, ServiceObjects
<1>3. svcCopy \in [Targets -> ServiceCopies \cup {None}]
  BY DEF Init, ServicesInit, Foreign, ServiceCopies
<1>4. ingCopy \in [Targets -> IngressCopies \cup {None}]
  BY DEF Init, ForeignIngress, IngressCopies
<1>5. ing \in IngressObjects \cup {None}
  <2>1. NewIngress \in IngressObjects
    BY DEF NewIngress, IngressObjects
  <2> QED
    BY <2>1 DEF Init
<1>6. ServicesTypeOK
  BY <1>1, <1>2, <1>3, ServiceConstants DEF Init, ServicesInit, ServicesTypeOK
<1> QED
  BY <1>4, <1>5, <1>6 DEF Init, IngressesTypeOK

(* The first part of Handle keeps services well formed.                    *)
LEMMA HandleServiceType ==
    ASSUME ServicesTypeOK, NEW t \in Targets, HandleService(t)
    PROVE  ServicesTypeOK'
<1> DEFINE o == svcSeen[t]
<1>0. o \in ServiceObjects \cup {None} /\ svcCopySeen[t] \in ServiceCopies \cup {None}
  BY DEF ServicesTypeOK
<1>1. CASE DeleteOrphanService(t) \/ DeleteServiceCopy(t)
  BY <1>1 DEF HandleService, DeleteOrphanService, DeleteServiceCopy, ServicesTypeOK
<1>2. CASE RemoveServiceFinalizer(t)
  <2>1. o \in ServiceObjects
    BY <1>0, <1>2 DEF RemoveServiceFinalizer, FinalizesService, FindsService
  <2>2. svc' \in ServiceObjects \cup {None}
    BY <1>2, <2>1, ReleasedServiceType DEF RemoveServiceFinalizer
  <2> QED
    BY <1>2, <2>2 DEF HandleService, RemoveServiceFinalizer, ServicesTypeOK
<1>3. CASE UpdateService(t)
  <2>1. o \in ServiceObjects /\ o.selector \in LabelMaps
    BY <1>0, <1>3 DEF UpdateService, FindsService, ServiceObjects
  <2>2. PICK s \in ChangeLabels(o.selector) :
          /\ svc' = IF NeedsNoUpdate(t, o) THEN svc ELSE Rerouted(t, o, s)
          /\ svcCall' = [svcCall EXCEPT
               ![t] = [service |-> Rerouted(t, o, s), copy |-> svcCopySeen[t]]]
    BY <1>3 DEF UpdateService
  <2>3. Rerouted(t, o, s) \in ServiceObjects
    BY <2>1, ChangeLabelsType, ReroutedType
  <2>4. [service |-> Rerouted(t, o, s), copy |-> svcCopySeen[t]] \in ServiceCalls
    BY <1>0, <2>3 DEF ServiceCalls
  <2>5. svc' \in ServiceObjects \cup {None}
    BY <2>2, <2>3 DEF ServicesTypeOK
  <2>6. svcCall' \in [Targets -> ServiceCalls \cup {None}]
    BY <2>2, <2>4 DEF ServicesTypeOK
  <2>7. UNCHANGED svcCopy
    BY <1>3 DEF UpdateService
  <2> QED
    BY <2>5, <2>6, <2>7 DEF HandleService, ServicesTypeOK
<1> QED
  BY <1>1, <1>2, <1>3 DEF HandleService

(* So does the second part, which writes the copy.                         *)
LEMMA HandleServiceRestType ==
    ASSUME ServicesTypeOK, NEW t \in Targets, HandleServiceRest(t)
    PROVE  ServicesTypeOK'
<1> DEFINE w == WrittenService(t, svcCall[t].service, svcCall[t].copy)
<1>1. svcCall[t] \in ServiceCalls /\ svcCopy[t] \in ServiceCopies \cup {None}
  BY DEF HandleServiceRest, ServicesTypeOK
<1>2. svcCall[t].service \in ServiceObjects /\ svcCall[t].copy \in ServiceCopies \cup {None}
  BY <1>1 DEF ServiceCalls
<1>3. w \in ServiceCopies \cup {None}
  BY <1>1, <1>2, WrittenServiceType
<1> HIDE DEF w
<1>4. svcCopy' = [svcCopy EXCEPT ![t] = w]
  BY DEF HandleServiceRest, w
<1> QED
  BY <1>3, <1>4 DEF HandleServiceRest, ServicesTypeOK

(* Every step of the service controllers and their environment keeps       *)
(* services well formed.                                                   *)
LEMMA ServicesNextType ==
    ASSUME ServicesTypeOK, ServicesNext
    PROVE  ServicesTypeOK'
<1>1. ASSUME NEW t \in configured, ServiceSteps(t)
      PROVE  ServicesTypeOK'
  <2>1. t \in Targets
    BY <1>1 DEF ServicesTypeOK
  <2>2. CASE HandleService(t)
    BY <2>1, <2>2, HandleServiceType
  <2>3. CASE HandleServiceRest(t)
    BY <2>1, <2>3, HandleServiceRestType
  <2>4. CASE SyncService(t) \/ SyncServiceCopy(t)
    BY <2>1, <2>4 DEF SyncService, SyncServiceCopy, ServicesTypeOK
  <2>5. CASE LoseServiceCopy(t) \/ ServiceCallFails(t)
    BY <2>1, <2>5, ServiceConstants DEF LoseServiceCopy, ServiceCallFails, Mishap, ServicesTypeOK
  <2> QED
    BY <1>1, <2>2, <2>3, <2>4, <2>5 DEF ServiceSteps
<1>2. ASSUME NEW s \in Selectors, ChangeSelector(s)
      PROVE  ServicesTypeOK'
  <2>1. svc \in ServiceObjects
    BY <1>2 DEF ChangeSelector, ServicesTypeOK
  <2>2. Given(s) \in LabelMaps
    BY <2>1, GivenType, ServiceConstants
  <2>3. svc' \in ServiceObjects
    BY <1>2, <2>1, <2>2 DEF ChangeSelector, ServiceObjects
  <2> QED
    BY <1>2, <2>3, ServiceConstants DEF ChangeSelector, UserEdits, ServicesTypeOK
<1>3. ASSUME NEW P \in SUBSET ProxyLabels, ChangePods(P)
      PROVE  ServicesTypeOK'
  BY <1>3, ServiceConstants DEF ChangePods, UserEdits, ServicesTypeOK
<1>4. CASE DeleteService
  <2>1. [svc EXCEPT !.terminating = TRUE] \in ServiceObjects
    BY <1>4 DEF DeleteService, ServicesTypeOK, ServiceObjects
  <2>2. svc' \in ServiceObjects \cup {None}
    BY <1>4, <2>1, ReleasedServiceType DEF DeleteService
  <2> QED
    BY <1>4, <2>2 DEF DeleteService, ServicesTypeOK
<1> QED
  BY <1>1, <1>2, <1>3, <1>4 DEF ServicesNext

(* The first part of Handle of the ingress controller keeps types.         *)
LEMMA HandleIngressType ==
    ASSUME IngressesTypeOK, NEW t \in Targets, HandleIngress(t)
    PROVE  IngressesTypeOK'
<1> DEFINE o == ingSeen[t]
           held == [o EXCEPT !.finalizers = @ \cup {t}]
           call == [ingress |-> held, copy |-> ingCopySeen[t]]
<1>0. o \in IngressObjects \cup {None} /\ ingCopySeen[t] \in IngressCopies \cup {None}
  BY DEF IngressesTypeOK
<1>s. ServicesTypeOK'
  BY DEF HandleIngress, svcVars, IngressesTypeOK, ServicesTypeOK
<1>1. CASE DeleteOrphanIngress(t) \/ DeleteIngressCopy(t)
  BY <1>s, <1>1 DEF HandleIngress, DeleteOrphanIngress, DeleteIngressCopy, IngressesTypeOK
<1>2. CASE RemoveIngressFinalizer(t)
  <2>1. o \in IngressObjects
    BY <1>0, <1>2 DEF RemoveIngressFinalizer, FinalizesIngress, FindsIngress
  <2>2. ing' \in IngressObjects \cup {None}
    BY <1>2, <2>1, ReleasedIngressType DEF RemoveIngressFinalizer
  <2> QED
    BY <1>s, <1>2, <2>2 DEF HandleIngress, RemoveIngressFinalizer, IngressesTypeOK
<1>3. CASE HoldIngress(t)
  <2>1. o \in IngressObjects
    BY <1>0, <1>3 DEF HoldIngress, FindsIngress
  <2>2. held \in IngressObjects
    BY <2>1 DEF IngressObjects
  <2>3. call \in IngressCalls
    BY <1>0, <2>2 DEF IngressCalls
  <2>4. /\ ing' = IF held = o THEN ing ELSE held
        /\ ingCall' = [ingCall EXCEPT ![t] = call]
        /\ UNCHANGED ingCopy
    BY <1>3 DEF HoldIngress
  <2> HIDE DEF held, call
  <2> QED
    BY <1>s, <2>2, <2>3, <2>4 DEF HandleIngress, IngressesTypeOK
<1> QED
  BY <1>1, <1>2, <1>3 DEF HandleIngress

(* So does the second part.                                                *)
LEMMA HandleIngressRestType ==
    ASSUME IngressesTypeOK, NEW t \in Targets, HandleIngressRest(t)
    PROVE  IngressesTypeOK'
<1> DEFINE w == WrittenIngress(t, ingCall[t].ingress, ingCall[t].copy)
<1>1. ingCall[t] \in IngressCalls /\ ingCopy[t] \in IngressCopies \cup {None}
  BY DEF HandleIngressRest, IngressesTypeOK
<1>2. ingCall[t].ingress \in IngressObjects /\ ingCall[t].copy \in IngressCopies \cup {None}
  BY <1>1 DEF IngressCalls
<1>3. w \in IngressCopies \cup {None}
  BY <1>1, <1>2, WrittenIngressType
<1> HIDE DEF w
<1>4. ingCopy' = [ingCopy EXCEPT ![t] = w]
  BY DEF HandleIngressRest, w
<1>5. ServicesTypeOK'
  BY DEF HandleIngressRest, svcVars, IngressesTypeOK, ServicesTypeOK
<1> QED
  BY <1>3, <1>4, <1>5 DEF HandleIngressRest, IngressesTypeOK

(* Every step keeps every variable well formed.                            *)
LEMMA NextType ==
    ASSUME IngressesTypeOK, [Next]_vars
    PROVE  IngressesTypeOK'
<1>0. ServicesTypeOK
  BY DEF IngressesTypeOK
<1>1. CASE ServicesNext /\ UNCHANGED ingVars
  BY <1>0, <1>1, ServicesNextType DEF ingVars, IngressesTypeOK
<1>2. ASSUME NEW t \in configured, IngressSteps(t)
      PROVE  IngressesTypeOK'
  <2>1. t \in Targets
    BY <1>0, <1>2 DEF ServicesTypeOK
  <2>2. CASE HandleIngress(t)
    BY <2>1, <2>2, HandleIngressType
  <2>3. CASE HandleIngressRest(t)
    BY <2>1, <2>3, HandleIngressRestType
  <2>4. CASE SyncIngress(t) \/ SyncIngressCopy(t)
    BY <2>1, <2>4 DEF SyncIngress, SyncIngressCopy, svcVars, IngressesTypeOK, ServicesTypeOK
  <2>5. CASE LoseIngressCopy(t) \/ IngressCallFails(t)
    BY <2>1, <2>5, ServiceConstants
       DEF LoseIngressCopy, IngressCallFails, Mishap, IngressesTypeOK, ServicesTypeOK
  <2> QED
    BY <1>2, <2>2, <2>3, <2>4, <2>5 DEF IngressSteps
<1>3. CASE EditIngress
  <2>1. ing' \in IngressObjects
    BY <1>3 DEF EditIngress, IngressesTypeOK, IngressObjects
  <2>2. edits' \in 0..MaxEdits
    BY <1>0, <1>3, ServiceConstants DEF EditIngress, UserEdits, ServicesTypeOK
  <2> QED
    BY <1>3, <2>1, <2>2 DEF EditIngress, IngressesTypeOK, ServicesTypeOK
<1>4. CASE DeleteIngress
  <2>1. [ing EXCEPT !.terminating = TRUE] \in IngressObjects
    BY <1>4 DEF DeleteIngress, IngressesTypeOK, IngressObjects
  <2>2. ing' \in IngressObjects \cup {None}
    BY <1>4, <2>1, ReleasedIngressType DEF DeleteIngress
  <2> QED
    BY <1>4, <2>2 DEF DeleteIngress, svcVars, IngressesTypeOK, ServicesTypeOK
<1>5. CASE Uninstall
  BY <1>5, ServiceConstants DEF Uninstall, Mishap, IngressesTypeOK, ServicesTypeOK
<1>6. CASE PatchServices
  <2>1. svc' \in ServiceObjects \cup {None}
    BY <1>0, <1>6, ReleasedServiceType DEF PatchServices, HasFinalizer, ServicesTypeOK
  <2> QED
    BY <1>6, <2>1 DEF PatchServices, ingVars, IngressesTypeOK, ServicesTypeOK
<1>7. CASE PatchIngresses
  <2>1. ing' \in IngressObjects \cup {None}
    BY <1>7, ReleasedIngressType DEF PatchIngresses, HasFinalizer, IngressesTypeOK
  <2> QED
    BY <1>7, <2>1 DEF PatchIngresses, svcVars, IngressesTypeOK, ServicesTypeOK
<1>8. CASE UNCHANGED vars
  BY <1>8 DEF vars, svcVars, ingVars, IngressesTypeOK, ServicesTypeOK
<1> QED
  BY <1>1, <1>2, <1>3, <1>4, <1>5, <1>6, <1>7, <1>8 DEF Next

(* Services, ingresses, their copies and what controllers know of them are *)
(* always well formed (follow/service and follow/ingress controller.go).   *)
THEOREM TypeCorrect == Spec => []IngressesTypeOK
BY InitType, NextType, PTL DEF Spec

-----------------------------------------------------------------------------
(* The finalizer protocol.                                                 *)

(* A release leaves the finalizers that it does not name, and the object   *)
(* as long as there is one.                                                *)
LEMMA ReleasedServiceKeeps ==
    ASSUME NEW o \in ServiceObjects, NEW F, NEW t \in o.finalizers, t \notin F
    PROVE  ReleasedService(o, F) # None /\ t \in ReleasedService(o, F).finalizers
<1>1. [o EXCEPT !.finalizers = o.finalizers \ F] \in ServiceObjects
  BY DEF ServiceObjects
<1> QED
  BY <1>1, ServiceConstants DEF ReleasedService, ServiceObjects

(* The same for ingresses.                                                 *)
LEMMA ReleasedIngressKeeps ==
    ASSUME NEW o \in IngressObjects, NEW F, NEW t \in o.finalizers, t \notin F
    PROVE  ReleasedIngress(o, F) # None /\ t \in ReleasedIngress(o, F).finalizers
<1>1. [o EXCEPT !.finalizers = o.finalizers \ F] \in IngressObjects
  BY DEF IngressObjects
<1> QED
  BY <1>1, ServiceConstants DEF ReleasedIngress, IngressObjects

(* A step that leaves the configuration, the calls and the caches alone    *)
(* and takes no finalizer away keeps what is held.                         *)
LEMMA ServiceKept ==
    ASSUME NEW u \in Targets, ServiceHeld(u),
           UNCHANGED <<configured, svcSeen>>, svcCall'[u] = svcCall[u],
           svc # None /\ u \in svc.finalizers => svc' # None /\ u \in svc'.finalizers
    PROVE  ServiceHeld(u)'
BY DEF ServiceHeld

(* The same for ingresses.                                                 *)
LEMMA IngressKept ==
    ASSUME NEW u \in Targets, IngressHeld(u),
           UNCHANGED <<configured, ingSeen>>, ingCall'[u] = ingCall[u],
           ing # None /\ u \in ing.finalizers => ing' # None /\ u \in ing'.finalizers
    PROVE  IngressHeld(u)'
BY DEF IngressHeld

(* Handle takes for held, and goes on with, only what it finds or makes    *)
(* held; it removes its finalizer only once it has seen the deletion.      *)
LEMMA HandleServiceHeld ==
    ASSUME IngressesTypeOK, NEW t \in configured, HandleService(t),
           NEW u \in Targets, ServiceHeld(u)
    PROVE  ServiceHeld(u)'
<1> DEFINE o == svcSeen[t]
<1>0. /\ t \in Targets /\ svc \in ServiceObjects \cup {None}
      /\ o \in ServiceObjects \cup {None}
      /\ svcCall \in [Targets -> ServiceCalls \cup {None}]
  BY DEF IngressesTypeOK, ServicesTypeOK
<1>1. CASE DeleteOrphanService(t) \/ DeleteServiceCopy(t)
  BY <1>1, ServiceKept DEF HandleService, DeleteOrphanService, DeleteServiceCopy
<1>2. CASE RemoveServiceFinalizer(t)
  <2>1. /\ svc = o /\ o \in ServiceObjects /\ o.terminating
        /\ svc' = ReleasedService(o, {t})
        /\ UNCHANGED <<configured, svcSeen, svcCall>> /\ svcCall[t] = None
    BY <1>0, <1>2 DEF HandleService, RemoveServiceFinalizer, FinalizesService, FindsService,
                      IsLatestService
  <2>2. CASE u = t
    BY <2>1, <2>2 DEF ServiceHeld
  <2>3. CASE u # t
    BY <2>1, <2>3, ServiceKept, ReleasedServiceKeeps
  <2> QED
    BY <2>2, <2>3
<1>3. CASE UpdateService(t)
  <2>1. o \in ServiceObjects /\ o.selector \in LabelMaps /\ ~o.terminating /\ o # None
    BY <1>0, <1>3 DEF UpdateService, FindsService, ServiceObjects
  <2>2. PICK s \in ChangeLabels(o.selector) :
          /\ svc' = IF NeedsNoUpdate(t, o) THEN svc ELSE Rerouted(t, o, s)
          /\ svcCall' = [svcCall EXCEPT
               ![t] = [service |-> Rerouted(t, o, s), copy |-> svcCopySeen[t]]]
    BY <1>3 DEF UpdateService
  <2>3. \A u1 \in Targets : u1 # t => svcCall'[u1] = svcCall[u1]
    BY <1>0, <2>2
  <2>4. UNCHANGED <<configured, svcSeen>>
    BY DEF HandleService
  <2>5. CASE NeedsNoUpdate(t, o)
    <3>1. t \in o.finalizers
      BY <1>0, <2>1, <2>5, ReroutedType DEF NeedsNoUpdate
    <3>2. svc' = svc
      BY <2>2, <2>5
    <3> QED
      BY <2>1, <2>3, <2>4, <3>1, <3>2 DEF ServiceHeld
  <2>6. CASE ~NeedsNoUpdate(t, o)
    <3>1. svc = o
      BY <1>3, <2>6 DEF UpdateService, IsLatestService
    <3>2. svc' = Rerouted(t, o, s)
      BY <2>2, <2>6
    <3>3. svc' \in ServiceObjects /\ svc'.finalizers = o.finalizers \cup {t}
      <4>1. s \in LabelMaps
        BY <2>1, ChangeLabelsType
      <4>2. /\ Rerouted(t, o, s) \in ServiceObjects
            /\ Rerouted(t, o, s).finalizers = o.finalizers \cup {t}
        BY <1>0, <2>1, <4>1, ReroutedType
      <4> QED
        BY <3>2, <4>2
    <3>4. svc' # None
      BY <3>3, ServiceConstants
    <3> QED
      BY <2>3, <2>4, <3>1, <3>3, <3>4 DEF ServiceHeld
  <2> QED
    BY <2>5, <2>6
<1> QED
  BY <1>1, <1>2, <1>3 DEF HandleService

(* The same for ingresses.                                                 *)
LEMMA HandleIngressHeld ==
    ASSUME IngressesTypeOK, NEW t \in configured, HandleIngress(t),
           NEW u \in Targets, IngressHeld(u)
    PROVE  IngressHeld(u)'
<1> DEFINE o == ingSeen[t]
           held == [o EXCEPT !.finalizers = @ \cup {t}]
           call == [ingress |-> held, copy |-> ingCopySeen[t]]
<1>0. /\ t \in Targets /\ ing \in IngressObjects \cup {None}
      /\ o \in IngressObjects \cup {None}
      /\ ingCall \in [Targets -> IngressCalls \cup {None}]
      /\ UNCHANGED <<configured, ingSeen>>
  BY DEF IngressesTypeOK, ServicesTypeOK, HandleIngress, svcVars
<1>1. CASE DeleteOrphanIngress(t) \/ DeleteIngressCopy(t)
  BY <1>0, <1>1, IngressKept DEF DeleteOrphanIngress, DeleteIngressCopy
<1>2. CASE RemoveIngressFinalizer(t)
  <2>1. /\ ing = o /\ o \in IngressObjects /\ o.terminating
        /\ ing' = ReleasedIngress(o, {t})
        /\ UNCHANGED ingCall /\ ingCall[t] = None
    BY <1>0, <1>2 DEF HandleIngress, RemoveIngressFinalizer, FinalizesIngress, FindsIngress,
                      IsLatestIngress
  <2>2. CASE u = t
    BY <1>0, <2>1, <2>2 DEF IngressHeld
  <2>3. CASE u # t
    BY <1>0, <2>1, <2>3, IngressKept, ReleasedIngressKeeps
  <2> QED
    BY <2>2, <2>3
<1>3. CASE HoldIngress(t)
  <2>1. o \in IngressObjects /\ ~o.terminating /\ o # None
    BY <1>0, <1>3 DEF HoldIngress, FindsIngress
  <2>2. held \in IngressObjects /\ held # None /\ held.finalizers = o.finalizers \cup {t}
    BY <1>0, <2>1, ServiceConstants DEF IngressObjects
  <2>3. /\ held = o \/ ing = o
        /\ ing' = IF held = o THEN ing ELSE held
        /\ ingCall' = [ingCall EXCEPT ![t] = call]
    BY <1>3 DEF HoldIngress, IsLatestIngress
  <2> HIDE DEF held, call
  <2>4. \A u1 \in Targets : u1 # t => ingCall'[u1] = ingCall[u1]
    BY <1>0, <2>3
  <2>5. CASE held = o
    BY <1>0, <2>1, <2>2, <2>3, <2>4, <2>5 DEF IngressHeld
  <2>6. CASE held # o
    BY <1>0, <2>1, <2>2, <2>3, <2>4, <2>6 DEF IngressHeld
  <2> QED
    BY <2>5, <2>6
<1> QED
  BY <1>1, <1>2, <1>3 DEF HandleIngress

(* Initially nothing is cached and no call is under way.                   *)
LEMMA HeldInit == Init => HeldInv
<1> SUFFICES ASSUME Init, NEW t \in Targets PROVE ServiceHeld(t) /\ IngressHeld(t)
  BY DEF HeldInv
<1>1. /\ svcSeen[t] = None /\ svcCall[t] = None
      /\ ingSeen[t] = None /\ ingCall[t] = None
  BY DEF Init, ServicesInit
<1> QED
  BY <1>1 DEF ServiceHeld, IngressHeld

(* The steps of the service controller of a target.                        *)
LEMMA ServiceStepsHeld ==
    ASSUME IngressesTypeOK, NEW t \in configured, ServiceSteps(t),
           NEW u \in Targets, ServiceHeld(u)
    PROVE  ServiceHeld(u)'
<1>0. t \in Targets /\ svcCall \in [Targets -> ServiceCalls \cup {None}]
  BY DEF IngressesTypeOK, ServicesTypeOK
<1>1. CASE HandleService(t)
  BY <1>1, HandleServiceHeld
<1>2. CASE HandleServiceRest(t) \/ ServiceCallFails(t)
  BY <1>0, <1>2 DEF HandleServiceRest, ServiceCallFails, ServiceHeld
<1>3. CASE SyncService(t)
  BY <1>0, <1>3 DEF SyncService, ServiceHeld, IngressesTypeOK, ServicesTypeOK
<1>4. CASE SyncServiceCopy(t) \/ LoseServiceCopy(t)
  BY <1>4, ServiceKept DEF SyncServiceCopy, LoseServiceCopy
<1> QED
  BY <1>1, <1>2, <1>3, <1>4 DEF ServiceSteps

(* The steps of the ingress controller of a target.                        *)
LEMMA IngressStepsHeld ==
    ASSUME IngressesTypeOK, NEW t \in configured, IngressSteps(t),
           NEW u \in Targets, IngressHeld(u)
    PROVE  IngressHeld(u)'
<1>0. t \in Targets /\ ingCall \in [Targets -> IngressCalls \cup {None}]
  BY DEF IngressesTypeOK, ServicesTypeOK
<1>1. CASE HandleIngress(t)
  BY <1>1, HandleIngressHeld
<1>2. CASE HandleIngressRest(t) \/ IngressCallFails(t)
  BY <1>0, <1>2 DEF HandleIngressRest, IngressCallFails, svcVars, IngressHeld
<1>3. CASE SyncIngress(t)
  BY <1>0, <1>3 DEF SyncIngress, svcVars, IngressHeld, IngressesTypeOK
<1>4. CASE SyncIngressCopy(t) \/ LoseIngressCopy(t)
  BY <1>4, IngressKept DEF SyncIngressCopy, LoseIngressCopy, svcVars
<1> QED
  BY <1>1, <1>2, <1>3, <1>4 DEF IngressSteps

(* Every step keeps services held: the job, which removes the finalizers   *)
(* of all targets, runs only when none is configured.                      *)
LEMMA ServiceHeldStep ==
    ASSUME IngressesTypeOK, HeldInv, [Next]_vars, NEW u \in Targets
    PROVE  ServiceHeld(u)'
<1>0. ServiceHeld(u) /\ svc \in ServiceObjects \cup {None}
  BY DEF HeldInv, IngressesTypeOK, ServicesTypeOK
<1>1. ASSUME NEW t \in configured, ServiceSteps(t)
      PROVE  ServiceHeld(u)'
  BY <1>0, <1>1, ServiceStepsHeld
<1>2. ASSUME NEW s \in Selectors, ChangeSelector(s)
      PROVE  ServiceHeld(u)'
  <2>1. svc \in ServiceObjects /\ Given(s) \in LabelMaps
    BY <1>0, <1>2, GivenType, ServiceConstants DEF ChangeSelector
  <2>2. svc' \in ServiceObjects /\ svc'.finalizers = svc.finalizers
    BY <1>2, <2>1 DEF ChangeSelector, ServiceObjects
  <2> QED
    BY <1>0, <1>2, <2>2, ServiceKept, ServiceConstants DEF ChangeSelector
<1>3. ASSUME NEW P \in SUBSET ProxyLabels, ChangePods(P)
      PROVE  ServiceHeld(u)'
  BY <1>0, <1>3, ServiceKept DEF ChangePods
<1>4. CASE DeleteService
  <2> DEFINE o == [svc EXCEPT !.terminating = TRUE]
  <2>1. o \in ServiceObjects /\ o.finalizers = svc.finalizers
    BY <1>0, <1>4 DEF DeleteService, ServiceObjects
  <2>2. svc' = ReleasedService(o, {})
    BY <1>4 DEF DeleteService
  <2> HIDE DEF o
  <2>3. u \in svc.finalizers => svc' # None /\ u \in svc'.finalizers
    BY <2>1, <2>2, ReleasedServiceKeeps
  <2> QED
    BY <1>0, <1>4, <2>3, ServiceKept DEF DeleteService
<1>5. ASSUME NEW t \in configured, IngressSteps(t)
      PROVE  ServiceHeld(u)'
  <2>1. UNCHANGED <<svc, configured, svcSeen, svcCall>>
    BY <1>5 DEF IngressSteps, HandleIngress, HandleIngressRest, SyncIngress, SyncIngressCopy,
                LoseIngressCopy, IngressCallFails, svcVars
  <2> QED
    BY <1>0, <2>1, ServiceKept
<1>6. CASE EditIngress \/ DeleteIngress \/ PatchIngresses \/ UNCHANGED vars
  <2>1. UNCHANGED <<svc, configured, svcSeen, svcCall>>
    BY <1>6 DEF EditIngress, DeleteIngress, PatchIngresses, vars, svcVars
  <2> QED
    BY <1>0, <2>1, ServiceKept
<1>7. CASE Uninstall
  BY <1>7 DEF Uninstall, ServiceHeld
<1>8. CASE PatchServices
  BY <1>0, <1>8 DEF PatchServices, ServiceHeld
<1> QED
  BY <1>1, <1>2, <1>3, <1>4, <1>5, <1>6, <1>7, <1>8 DEF Next, ServicesNext

(* Every step keeps ingresses held.                                        *)
LEMMA IngressHeldStep ==
    ASSUME IngressesTypeOK, HeldInv, [Next]_vars, NEW u \in Targets
    PROVE  IngressHeld(u)'
<1>0. IngressHeld(u) /\ ing \in IngressObjects \cup {None}
  BY DEF HeldInv, IngressesTypeOK
<1>1. CASE ServicesNext /\ UNCHANGED ingVars
  <2>1. UNCHANGED configured
    BY <1>1 DEF ServicesNext, ServiceSteps, HandleService, HandleServiceRest, SyncService,
                SyncServiceCopy, LoseServiceCopy, ServiceCallFails, ChangeSelector, ChangePods,
                DeleteService
  <2> QED
    BY <1>0, <1>1, <2>1, IngressKept DEF ingVars
<1>2. ASSUME NEW t \in configured, IngressSteps(t)
      PROVE  IngressHeld(u)'
  BY <1>0, <1>2, IngressStepsHeld
<1>3. CASE EditIngress
  <2>1. ing' \in IngressObjects /\ ing'.finalizers = ing.finalizers
    BY <1>0, <1>3 DEF EditIngress, IngressObjects
  <2> QED
    BY <1>0, <1>3, <2>1, IngressKept, ServiceConstants DEF EditIngress
<1>4. CASE DeleteIngress
  <2> DEFINE o == [ing EXCEPT !.terminating = TRUE]
  <2>1. o \in IngressObjects /\ o.finalizers = ing.finalizers
    BY <1>0, <1>4 DEF DeleteIngress, IngressObjects
  <2>2. ing' = ReleasedIngress(o, {})
    BY <1>4 DEF DeleteIngress
  <2> HIDE DEF o
  <2>3. u \in ing.finalizers => ing' # None /\ u \in ing'.finalizers
    BY <2>1, <2>2, ReleasedIngressKeeps
  <2> QED
    BY <1>0, <1>4, <2>3, IngressKept DEF DeleteIngress, svcVars
<1>5. CASE Uninstall
  BY <1>5 DEF Uninstall, IngressHeld
<1>6. CASE PatchServices
  BY <1>0, <1>6, IngressKept DEF PatchServices, ingVars
<1>7. CASE PatchIngresses
  BY <1>0, <1>7 DEF PatchIngresses, svcVars, IngressHeld
<1>8. CASE UNCHANGED vars
  BY <1>0, <1>8, IngressKept DEF vars, svcVars, ingVars
<1> QED
  BY <1>1, <1>2, <1>3, <1>4, <1>5, <1>6, <1>7, <1>8 DEF Next

(* Every controller of a target that runs and takes an original for held   *)
(* is right.                                                               *)
THEOREM HeldInvariant == Spec => []HeldInv
<1>1. Init => HeldInv
  BY HeldInit
<1>2. IngressesTypeOK /\ HeldInv /\ [Next]_vars => HeldInv'
  BY ServiceHeldStep, IngressHeldStep DEF HeldInv
<1> QED
  BY <1>1, <1>2, TypeCorrect, PTL DEF Spec

(* Only the second part of Handle creates a copy of a service ...          *)
LEMMA ServiceCopyCreated ==
    ASSUME IngressesTypeOK, HeldInv, [Next]_vars, NEW u \in Targets,
           svcCopy[u] = None, svcCopy'[u] # None
    PROVE  svc # None /\ u \in svc.finalizers
<1>0. svcCopy \in [Targets -> ServiceCopies \cup {None}] /\ configured \subseteq Targets
  BY DEF IngressesTypeOK, ServicesTypeOK
<1>1. svcCopy' # svcCopy
  OBVIOUS
<1>2. ~UNCHANGED vars /\ ~EditIngress /\ ~DeleteIngress /\ ~Uninstall /\ ~PatchServices /\ ~PatchIngresses
  BY <1>1 DEF vars, svcVars, EditIngress, DeleteIngress, Uninstall, PatchServices, PatchIngresses
<1>3. ~\E t \in configured : IngressSteps(t)
  BY <1>1 DEF IngressSteps, HandleIngress, HandleIngressRest, SyncIngress, SyncIngressCopy,
              LoseIngressCopy, IngressCallFails, svcVars
<1>4. ServicesNext
  BY <1>2, <1>3 DEF Next
<1>5. PICK t \in configured : ServiceSteps(t)
  BY <1>1, <1>4 DEF ServicesNext, ChangeSelector, ChangePods, DeleteService
<1>6. ~HandleService(t) /\ ~LoseServiceCopy(t)
  BY <1>0, <1>5 DEF HandleService, LoseServiceCopy, DeleteOrphanService, DeleteServiceCopy,
                    RemoveServiceFinalizer, UpdateService
<1>7. HandleServiceRest(t)
  BY <1>1, <1>5, <1>6 DEF ServiceSteps, SyncService, SyncServiceCopy, ServiceCallFails
<1>8. u = t /\ svcCall[u] # None
  BY <1>0, <1>7 DEF HandleServiceRest
<1> QED
  BY <1>8 DEF HeldInv, ServiceHeld

(* ... or of an ingress.                                                   *)
LEMMA IngressCopyCreated ==
    ASSUME IngressesTypeOK, HeldInv, [Next]_vars, NEW u \in Targets,
           ingCopy[u] = None, ingCopy'[u] # None
    PROVE  ing # None /\ u \in ing.finalizers
<1>0. ingCopy \in [Targets -> IngressCopies \cup {None}] /\ configured \subseteq Targets
  BY DEF IngressesTypeOK, ServicesTypeOK
<1>1. ingCopy' # ingCopy
  OBVIOUS
<1>2. /\ ~UNCHANGED vars /\ ~UNCHANGED ingVars
      /\ ~EditIngress /\ ~DeleteIngress /\ ~Uninstall /\ ~PatchServices /\ ~PatchIngresses
  BY <1>1 DEF vars, ingVars, EditIngress, DeleteIngress, Uninstall, PatchServices,
              PatchIngresses
<1>3. PICK t \in configured : IngressSteps(t)
  BY <1>2 DEF Next
<1>4. ~HandleIngress(t) /\ ~LoseIngressCopy(t)
  BY <1>0, <1>3 DEF HandleIngress, LoseIngressCopy, DeleteOrphanIngress, DeleteIngressCopy,
                    RemoveIngressFinalizer, HoldIngress
<1>5. HandleIngressRest(t)
  BY <1>1, <1>3, <1>4 DEF IngressSteps, SyncIngress, SyncIngressCopy, IngressCallFails
<1>6. u = t /\ ingCall[u] # None
  BY <1>0, <1>5 DEF HandleIngressRest
<1> QED
  BY <1>6 DEF HeldInv, IngressHeld

(* A copy is created only while its original is held by the finalizer of   *)
(* that target, whatever the caches of the controllers say and whenever    *)
(* agents stop (follow/service/controller.go, follow/ingress/controller.go,*)
(* remove-finalizers/main.go).                                             *)
THEOREM CopiesAreHeld == Spec => CopiesHeld
<1>1. IngressesTypeOK /\ HeldInv /\ [Next]_vars =>
        [\A t \in Targets :
           /\ svcCopy[t] = None /\ svcCopy'[t] # None => svc # None /\ t \in svc.finalizers
           /\ ingCopy[t] = None /\ ingCopy'[t] # None => ing # None /\ t \in ing.finalizers
        ]_vars
  BY ServiceCopyCreated, IngressCopyCreated
<1> QED
  BY <1>1, TypeCorrect, HeldInvariant, PTL DEF Spec, CopiesHeld

-----------------------------------------------------------------------------
(* What others created in a target cluster.                                *)

(* Objects of others are well formed, and not ours.                        *)
LEMMA ForeignType ==
    /\ Foreign \in ServiceCopies /\ ~Foreign.ours /\ Foreign # None
    /\ ForeignIngress \in IngressCopies /\ ~ForeignIngress.ours /\ ForeignIngress # None
<1>1. Foreign \in ServiceCopies /\ ~Foreign.ours
  BY DEF Foreign, ServiceCopies
<1>2. ForeignIngress \in IngressCopies /\ ~ForeignIngress.ours
  BY DEF ForeignIngress, IngressCopies
<1> QED
  BY <1>1, <1>2, ServiceConstants

(* ForeignInv, for the service and the ingress of a target.                *)
ServiceForeign(t) ==
    /\ svcCopy[t] = Foreign => svcCopySeen[t] = Foreign /\ svcCall[t] = None
    /\ svcCopy[t] \notin {None, Foreign} => svcCopy[t].ours

IngressForeign(t) ==
    /\ ingCopy[t] = ForeignIngress => ingCopySeen[t] = ForeignIngress /\ ingCall[t] = None
    /\ ingCopy[t] \notin {None, ForeignIngress} => ingCopy[t].ours

(* ForeignInv says this of every target.                                   *)
LEMMA ForeignParts == ForeignInv <=> \A t \in Targets : ServiceForeign(t) /\ IngressForeign(t)
BY DEF ForeignInv, ServiceForeign, IngressForeign

(* Initially caches show what others created, and nothing is ours.         *)
LEMMA ForeignInit == Init => ForeignInv
<1> SUFFICES ASSUME Init, NEW t \in Targets PROVE ServiceForeign(t) /\ IngressForeign(t)
  BY ForeignParts
<1>1. /\ svcCopy[t] \in {Foreign, None} /\ svcCopySeen = svcCopy /\ svcCall[t] = None
      /\ ingCopy[t] \in {ForeignIngress, None} /\ ingCopySeen = ingCopy /\ ingCall[t] = None
  BY DEF Init, ServicesInit
<1> QED
  BY <1>1 DEF ServiceForeign, IngressForeign

(* What Handle writes is ours, and it writes over nothing of others.       *)
LEMMA WrittenServiceOurs ==
    ASSUME NEW t \in Targets, svcCopy[t] \in ServiceCopies \cup {None},
           ServiceForeign(t), svcCopy[t] # Foreign,
           NEW o \in ServiceObjects, NEW r \in ServiceCopies \cup {None}
    PROVE  WrittenService(t, o, r) # None => WrittenService(t, o, r).ours
BY DEF WrittenService, MakeRemoteService, ServiceForeign, ServiceObjects, ServiceCopies

(* The same for ingresses.                                                 *)
LEMMA WrittenIngressOurs ==
    ASSUME NEW t \in Targets, ingCopy[t] \in IngressCopies \cup {None},
           IngressForeign(t), ingCopy[t] # ForeignIngress,
           NEW o \in IngressObjects, NEW r \in IngressCopies \cup {None}
    PROVE  WrittenIngress(t, o, r) # None => WrittenIngress(t, o, r).ours
BY DEF WrittenIngress, MakeRemoteIngress, UpdatedIngress, IngressForeign,
       IngressObjects, IngressCopies

(* The steps of the service controller of a target keep this, and leave    *)
(* alone what is not ours, unless somebody deletes it.                     *)
LEMMA ServiceStepsForeign ==
    ASSUME IngressesTypeOK, NEW t \in configured, ServiceSteps(t),
           NEW u \in Targets, ServiceForeign(u)
    PROVE  /\ ServiceForeign(u)'
           /\ svcCopy[u] = Foreign /\ svcCopy'[u] # Foreign => Mishap
<1>0. /\ t \in Targets
      /\ svcCopy \in [Targets -> ServiceCopies \cup {None}]
      /\ svcCopySeen \in [Targets -> ServiceCopies \cup {None}]
      /\ svcCall \in [Targets -> ServiceCalls \cup {None}]
  BY DEF IngressesTypeOK, ServicesTypeOK
<1>1. CASE HandleService(t)
  <2>1. CASE DeleteOrphanService(t) \/ DeleteServiceCopy(t)
    <3>1. svcCopySeen[t] # None /\ svcCopySeen[t].ours
      BY <2>1 DEF DeleteOrphanService, DeleteServiceCopy, FindsService
    <3>2. /\ svcCopy' = [svcCopy EXCEPT ![t] = None]
          /\ UNCHANGED <<svcCopySeen, svcCall>>
      BY <1>1, <2>1 DEF HandleService, DeleteOrphanService, DeleteServiceCopy
    <3> QED
      BY <1>0, <3>1, <3>2, ForeignType DEF ServiceForeign
  <2>2. CASE RemoveServiceFinalizer(t)
    BY <1>1, <2>2 DEF HandleService, RemoveServiceFinalizer, ServiceForeign
  <2>3. CASE UpdateService(t)
    <3>1. svcCopySeen[t] # None => svcCopySeen[t].ours
      BY <2>3 DEF UpdateService, FindsService
    <3>2. UNCHANGED <<svcCopy, svcCopySeen>>
      BY <1>1, <2>3 DEF HandleService, UpdateService
    <3>3. u # t => svcCall'[u] = svcCall[u]
      BY <1>0, <2>3 DEF UpdateService
    <3> QED
      BY <1>0, <3>1, <3>2, <3>3, ForeignType DEF ServiceForeign
  <2> QED
    BY <1>1, <2>1, <2>2, <2>3 DEF HandleService
<1>2. CASE HandleServiceRest(t)
  <2> DEFINE w == WrittenService(t, svcCall[t].service, svcCall[t].copy)
  <2>1. svcCall[t] \in ServiceCalls /\ svcCall[t] # None
    BY <1>0, <1>2 DEF HandleServiceRest
  <2>2. svcCall[t].service \in ServiceObjects /\ svcCall[t].copy \in ServiceCopies \cup {None}
    BY <2>1 DEF ServiceCalls
  <2>3. u = t => svcCopy[t] # Foreign
    BY <2>1 DEF ServiceForeign
  <2>4. u = t => w = None \/ (w.ours /\ w # Foreign)
    BY <1>0, <2>2, <2>3, WrittenServiceOurs, ForeignType
  <2>5. /\ svcCopy' = [svcCopy EXCEPT ![t] = w]
        /\ svcCall' = [svcCall EXCEPT ![t] = None]
        /\ UNCHANGED svcCopySeen
    BY <1>2 DEF HandleServiceRest
  <2> HIDE DEF w
  <2> QED
    BY <1>0, <2>3, <2>4, <2>5, ForeignType DEF ServiceForeign
<1>3. CASE SyncService(t) \/ SyncServiceCopy(t)
  BY <1>0, <1>3 DEF SyncService, SyncServiceCopy, ServiceForeign
<1>4. CASE LoseServiceCopy(t)
  BY <1>0, <1>4, ForeignType DEF LoseServiceCopy, ServiceForeign
<1>5. CASE ServiceCallFails(t)
  BY <1>0, <1>5 DEF ServiceCallFails, ServiceForeign
<1> QED
  BY <1>1, <1>2, <1>3, <1>4, <1>5 DEF ServiceSteps

(* The same for the steps of the ingress controller.                       *)
LEMMA IngressStepsForeign ==
    ASSUME IngressesTypeOK, NEW t \in configured, IngressSteps(t),
           NEW u \in Targets, IngressForeign(u)
    PROVE  /\ IngressForeign(u)'
           /\ ingCopy[u] = ForeignIngress /\ ingCopy'[u] # ForeignIngress => Mishap
<1>0. /\ t \in Targets
      /\ ingCopy \in [Targets -> IngressCopies \cup {None}]
      /\ ingCopySeen \in [Targets -> IngressCopies \cup {None}]
      /\ ingCall \in [Targets -> IngressCalls \cup {None}]
  BY DEF IngressesTypeOK, ServicesTypeOK
<1>1. CASE HandleIngress(t)
  <2>1. CASE DeleteOrphanIngress(t) \/ DeleteIngressCopy(t)
    <3>1. ingCopySeen[t] # None /\ ingCopySeen[t].ours
      BY <2>1 DEF DeleteOrphanIngress, DeleteIngressCopy, FindsIngress
    <3>2. /\ ingCopy' = [ingCopy EXCEPT ![t] = None]
          /\ UNCHANGED <<ingCopySeen, ingCall>>
      BY <1>1, <2>1 DEF HandleIngress, DeleteOrphanIngress, DeleteIngressCopy
    <3> QED
      BY <1>0, <3>1, <3>2, ForeignType DEF IngressForeign
  <2>2. CASE RemoveIngressFinalizer(t)
    BY <1>1, <2>2 DEF HandleIngress, RemoveIngressFinalizer, IngressForeign
  <2>3. CASE HoldIngress(t)
    <3>1. ingCopySeen[t] # None => ingCopySeen[t].ours
      BY <2>3 DEF HoldIngress, FindsIngress
    <3>2. UNCHANGED <<ingCopy, ingCopySeen>>
      BY <1>1, <2>3 DEF HandleIngress, HoldIngress
    <3>3. u # t => ingCall'[u] = ingCall[u]
      BY <1>0, <2>3 DEF HoldIngress
    <3> QED
      BY <1>0, <3>1, <3>2, <3>3, ForeignType DEF IngressForeign
  <2> QED
    BY <1>1, <2>1, <2>2, <2>3 DEF HandleIngress
<1>2. CASE HandleIngressRest(t)
  <2> DEFINE w == WrittenIngress(t, ingCall[t].ingress, ingCall[t].copy)
  <2>1. ingCall[t] \in IngressCalls /\ ingCall[t] # None
    BY <1>0, <1>2 DEF HandleIngressRest
  <2>2. ingCall[t].ingress \in IngressObjects /\ ingCall[t].copy \in IngressCopies \cup {None}
    BY <2>1 DEF IngressCalls
  <2>3. u = t => ingCopy[t] # ForeignIngress
    BY <2>1 DEF IngressForeign
  <2>4. u = t => w = None \/ (w.ours /\ w # ForeignIngress)
    BY <1>0, <2>2, <2>3, WrittenIngressOurs, ForeignType
  <2>5. /\ ingCopy' = [ingCopy EXCEPT ![t] = w]
        /\ ingCall' = [ingCall EXCEPT ![t] = None]
        /\ UNCHANGED ingCopySeen
    BY <1>2 DEF HandleIngressRest
  <2> HIDE DEF w
  <2> QED
    BY <1>0, <2>3, <2>4, <2>5, ForeignType DEF IngressForeign
<1>3. CASE SyncIngress(t) \/ SyncIngressCopy(t)
  BY <1>0, <1>3 DEF SyncIngress, SyncIngressCopy, IngressForeign
<1>4. CASE LoseIngressCopy(t)
  BY <1>0, <1>4, ForeignType DEF LoseIngressCopy, IngressForeign
<1>5. CASE IngressCallFails(t)
  BY <1>0, <1>5 DEF IngressCallFails, IngressForeign
<1> QED
  BY <1>1, <1>2, <1>3, <1>4, <1>5 DEF IngressSteps

(* The same for every step of the system, as to services.                  *)
LEMMA ServiceForeignStep ==
    ASSUME IngressesTypeOK, ForeignInv, [Next]_vars, NEW u \in Targets
    PROVE  /\ ServiceForeign(u)'
           /\ svcCopy[u] = Foreign /\ svcCopy'[u] # Foreign => Mishap
<1>0. ServiceForeign(u)
  BY ForeignParts
<1>1. ASSUME NEW t \in configured, ServiceSteps(t)
      PROVE  /\ ServiceForeign(u)'
             /\ svcCopy[u] = Foreign /\ svcCopy'[u] # Foreign => Mishap
  BY <1>0, <1>1, ServiceStepsForeign
<1>2. CASE Uninstall
  BY <1>0, <1>2 DEF Uninstall, ServiceForeign
<1>3. CASE UNCHANGED <<svcCopy, svcCopySeen, svcCall>>
  BY <1>0, <1>3 DEF ServiceForeign
<1>4. \/ \E t \in configured : ServiceSteps(t)
      \/ Uninstall
      \/ UNCHANGED <<svcCopy, svcCopySeen, svcCall>>
  <2>1. CASE ServicesNext
    BY <2>1 DEF ServicesNext, ChangeSelector, ChangePods, DeleteService
  <2>2. ASSUME NEW t \in configured, IngressSteps(t)
        PROVE  UNCHANGED <<svcCopy, svcCopySeen, svcCall>>
    BY <2>2 DEF IngressSteps, HandleIngress, HandleIngressRest, SyncIngress, SyncIngressCopy,
                LoseIngressCopy, IngressCallFails, svcVars
  <2>3. CASE EditIngress \/ DeleteIngress \/ PatchServices \/ PatchIngresses \/ UNCHANGED vars
    BY <2>3 DEF EditIngress, DeleteIngress, PatchServices, PatchIngresses, vars, svcVars
  <2> QED
    BY <2>1, <2>2, <2>3 DEF Next
<1> QED
  BY <1>1, <1>2, <1>3, <1>4

(* The same for every step of the system, as to ingresses.                 *)
LEMMA IngressForeignStep ==
    ASSUME IngressesTypeOK, ForeignInv, [Next]_vars, NEW u \in Targets
    PROVE  /\ IngressForeign(u)'
           /\ ingCopy[u] = ForeignIngress /\ ingCopy'[u] # ForeignIngress => Mishap
<1>0. IngressForeign(u)
  BY ForeignParts
<1>1. ASSUME NEW t \in configured, IngressSteps(t)
      PROVE  /\ IngressForeign(u)'
             /\ ingCopy[u] = ForeignIngress /\ ingCopy'[u] # ForeignIngress => Mishap
  BY <1>0, <1>1, IngressStepsForeign
<1>2. CASE Uninstall
  BY <1>0, <1>2 DEF Uninstall, IngressForeign
<1>3. CASE UNCHANGED <<ingCopy, ingCopySeen, ingCall>>
  BY <1>0, <1>3 DEF IngressForeign
<1>4. \/ \E t \in configured : IngressSteps(t)
      \/ Uninstall
      \/ UNCHANGED <<ingCopy, ingCopySeen, ingCall>>
  BY DEF Next, EditIngress, DeleteIngress, PatchServices, PatchIngresses, vars, ingVars
<1> QED
  BY <1>1, <1>2, <1>3, <1>4

(* A controller always knows what others created in its target cluster     *)
(* for what it is, and never works on it.                                  *)
THEOREM ForeignInvariant == Spec => []ForeignInv
<1>1. IngressesTypeOK /\ ForeignInv /\ [Next]_vars => ForeignInv'
  <2> SUFFICES ASSUME IngressesTypeOK, ForeignInv, [Next]_vars
               PROVE  ForeignInv'
    OBVIOUS
  <2>1. \A t \in Targets : ServiceForeign(t)' /\ IngressForeign(t)'
    BY ServiceForeignStep, IngressForeignStep
  <2> QED
    BY <2>1 DEF ForeignInv, ServiceForeign, IngressForeign
<1> QED
  BY <1>1, ForeignInit, TypeCorrect, PTL DEF Spec

(* Controllers leave alone a service or an ingress that others created     *)
(* under that name in a target cluster: it goes away only by a mishap      *)
(* (follow/service/controller.go, follow/ingress/controller.go).           *)
THEOREM ForeignIsKept == Spec => ForeignKept
<1>1. IngressesTypeOK /\ ForeignInv /\ [Next]_vars =>
        [\A t \in Targets :
           (\/ svcCopy[t] = Foreign /\ svcCopy'[t] # Foreign
            \/ ingCopy[t] = ForeignIngress /\ ingCopy'[t] # ForeignIngress)
           => mishaps' < mishaps]_vars
  <2> SUFFICES ASSUME IngressesTypeOK, ForeignInv, [Next]_vars, NEW t \in Targets,
                      \/ svcCopy[t] = Foreign /\ svcCopy'[t] # Foreign
                      \/ ingCopy[t] = ForeignIngress /\ ingCopy'[t] # ForeignIngress
               PROVE  mishaps' < mishaps
    OBVIOUS
  <2>1. Mishap
    BY ServiceForeignStep, IngressForeignStep
  <2>2. mishaps \in 0..MaxMishaps
    BY DEF IngressesTypeOK, ServicesTypeOK
  <2> QED
    BY <2>1, <2>2, ServiceConstants DEF Mishap
<1> QED
  BY <1>1, TypeCorrect, ForeignInvariant, PTL DEF Spec, ForeignKept

-----------------------------------------------------------------------------
(* Rerouting.                                                              *)

(* ChangeLabels gives a user's plain selector its new keys ...             *)
LEMMA PlainRerouted ==
    ASSUME PlainSelectors, NEW w \in Selectors, NEW c \in ChangeLabels(w)
    PROVE  Reroutes(c, w)
<1>1. DOMAIN c = {NewKey(k) : k \in DOMAIN w}
  BY DEF ChangeLabels
<1>2. ASSUME NEW k \in DOMAIN w
      PROVE  c[NewKey(k)] = w[k]
  <2>1. PICK j \in DOMAIN w : NewKey(j) = NewKey(k) /\ w[j] = c[NewKey(k)]
    BY <1>1 DEF ChangeLabels
  <2>2. j = k
    BY <2>1 DEF PlainSelectors
  <2> QED
    BY <2>1, <2>2
<1> QED
  BY <1>1, <1>2 DEF Reroutes

(* ... and leaves a selector that has them as it is, so that a service     *)
(* that several controllers reroute is rerouted once.                      *)
LEMMA ReroutedStays ==
    ASSUME NEW m, NEW w, Reroutes(m, w), NEW c \in ChangeLabels(m)
    PROVE  Reroutes(c, w)
<1>1. \A k \in DOMAIN m : NewKey(k) = k
  BY NewKeyStays DEF Reroutes
<1>2. {NewKey(k) : k \in DOMAIN m} = DOMAIN m
  BY <1>1
<1>3. DOMAIN c = DOMAIN m
  BY <1>2 DEF ChangeLabels
<1>4. ASSUME NEW n \in DOMAIN c
      PROVE  c[n] = m[n]
  <2>1. PICK k \in DOMAIN m : NewKey(k) = n /\ m[k] = c[n]
    BY DEF ChangeLabels
  <2> QED
    BY <1>1, <2>1
<1> QED
  BY <1>3, <1>4 DEF Reroutes

(* The keys of a rerouted plain selector are all ours, so that the         *)
(* annotation is read and not the selector.                                *)
LEMMA ReroutedIsOwn ==
    ASSUME PlainSelectors, NEW w \in Selectors, NEW m, Reroutes(m, w)
    PROVE  \A k \in DOMAIN m : ~IsUsers(k)
<1> SUFFICES ASSUME NEW k \in DOMAIN w PROVE ~IsUsers(NewKey(k))
  BY DEF Reroutes
<1>1. NewKey(k) = <<Own, k[2]>>
  BY DEF PlainSelectors, NewKey
<1>2. <<Own, k[2]>>[1] = Own
  OBVIOUS
<1> QED
  BY <1>1, <1>2 DEF IsUsers

(* A plain selector that the user gave is recovered from its keys.         *)
LEMMA PlainIsUsers ==
    ASSUME PlainSelectors, NEW w \in Selectors, DOMAIN w # {}
    PROVE  RestrictDomain(w, IsUsers) = w /\ \E k \in DOMAIN w : IsUsers(k)
<1>1. \A k \in DOMAIN w : IsUsers(k)
  BY DEF PlainSelectors
<1>2. {k \in DOMAIN w : IsUsers(k)} = DOMAIN w
  BY <1>1
<1>3. w \in [DOMAIN w -> SelectorValues]
  BY LabelMapElim, ServiceConstants
<1>4. [k \in DOMAIN w |-> w[k]] = w
  BY <1>3
<1>5. RestrictDomain(w, IsUsers) = [k \in {x \in DOMAIN w : IsUsers(x)} |-> w[k]]
  BY DEF RestrictDomain, Restrict
<1> QED
  BY <1>1, <1>2, <1>4, <1>5

(* Handle recovers the selector that the user gave, from the service or    *)
(* from its annotation, and reroutes that one.                             *)
LEMMA UpdateReroutes ==
    ASSUME PlainSelectors, NEW t \in Targets, NEW o \in ServiceObjects, HasSelector(o),
           NEW w \in Selectors,
           \/ o.selector = w
           \/ o.original = w /\ Reroutes(o.selector, w),
           NEW s \in ChangeLabels(o.selector)
    PROVE  /\ Rerouted(t, o, s).original = w
           /\ Reroutes(Rerouted(t, o, s).selector, w)
<1>0. /\ Rerouted(t, o, s).original = OriginalSelector(o)
      /\ Rerouted(t, o, s).selector = s
  <2>1. s \in LabelMaps
    BY ChangeLabelsType DEF ServiceObjects
  <2> QED
    BY <2>1, ReroutedType
<1>1. CASE o.selector = w
  <2>1. RestrictDomain(w, IsUsers) = w /\ \E k \in DOMAIN w : IsUsers(k)
    BY <1>1, PlainIsUsers DEF HasSelector
  <2>2. OriginalSelector(o) = w
    BY <1>1, <2>1 DEF OriginalSelector
  <2>3. Reroutes(s, w)
    BY <1>1, PlainRerouted
  <2> QED
    BY <1>0, <2>2, <2>3
<1>2. CASE o.original = w /\ Reroutes(o.selector, w)
  <2>1. OriginalSelector(o) = w
    BY <1>2, ReroutedIsOwn DEF OriginalSelector
  <2>2. Reroutes(s, w)
    BY <1>2, ReroutedStays
  <2> QED
    BY <1>0, <2>1, <2>2
<1> QED
  BY <1>1, <1>2

(* Initially the selector is the one that the user gave.                   *)
LEMMA RerouteInit == Init => RerouteInv
BY DEF Init, ServicesInit, NewService, RerouteInv

(* A step that leaves the two selectors of the service alone.              *)
LEMMA SelectorKept ==
    ASSUME RerouteInv, UNCHANGED wanted,
           svc' # None =>
               /\ svc # None
               /\ svc'.selector = svc.selector /\ svc'.original = svc.original
    PROVE  RerouteInv'
BY DEF RerouteInv, Reroutes

(* Removing finalizers leaves the selectors alone.                         *)
LEMMA ReleasedSelector ==
    ASSUME NEW o \in ServiceObjects, NEW F, ReleasedService(o, F) # None
    PROVE  /\ ReleasedService(o, F).selector = o.selector
           /\ ReleasedService(o, F).original = o.original
BY DEF ReleasedService, ServiceObjects

(* Every step keeps RerouteInv: only Handle and the user change the        *)
(* selector, and Handle starts from the latest version.                    *)
LEMMA RerouteStep ==
    ASSUME PlainSelectors, IngressesTypeOK, RerouteInv, [Next]_vars
    PROVE  RerouteInv'
<1>0. /\ svc \in ServiceObjects \cup {None} /\ wanted \in Selectors
      /\ configured \subseteq Targets
  BY DEF IngressesTypeOK, ServicesTypeOK
<1>1. CASE UNCHANGED <<svc, wanted>>
  BY <1>1, SelectorKept
<1>2. ASSUME NEW t \in configured, HandleService(t)
      PROVE  RerouteInv'
  <2> DEFINE o == svcSeen[t]
  <2>0. t \in Targets /\ UNCHANGED wanted
    BY <1>0, <1>2 DEF HandleService
  <2>1. CASE RemoveServiceFinalizer(t)
    <3>1. svc = o /\ svc # None /\ svc' = ReleasedService(svc, {t})
      BY <2>1 DEF RemoveServiceFinalizer, FinalizesService, FindsService, IsLatestService
    <3> QED
      BY <1>0, <2>0, <3>1, SelectorKept, ReleasedSelector
  <2>2. CASE UpdateService(t)
    <3>1. PICK s \in ChangeLabels(o.selector) :
            svc' = IF NeedsNoUpdate(t, o) THEN svc ELSE Rerouted(t, o, s)
      BY <2>2 DEF UpdateService
    <3>2. CASE NeedsNoUpdate(t, o)
      BY <1>1, <2>0, <3>1, <3>2
    <3>3. CASE ~NeedsNoUpdate(t, o)
      <4>1. svc = o /\ svc # None /\ HasSelector(svc)
        BY <2>2, <3>3 DEF UpdateService, FindsService, ServiceShouldFollow, IsLatestService
      <4>2. svc' = Rerouted(t, svc, s)
        BY <3>1, <3>3, <4>1
      <4>3. svc'.original = wanted /\ Reroutes(svc'.selector, wanted)
        BY <1>0, <2>0, <4>1, <4>2, UpdateReroutes DEF RerouteInv
      <4> QED
        BY <2>0, <4>3 DEF RerouteInv
    <3> QED
      BY <3>2, <3>3
  <2>3. CASE DeleteOrphanService(t) \/ DeleteServiceCopy(t)
    BY <1>1, <2>0, <2>3 DEF DeleteOrphanService, DeleteServiceCopy
  <2> QED
    BY <1>2, <2>1, <2>2, <2>3 DEF HandleService
<1>3. ASSUME NEW s \in Selectors, ChangeSelector(s)
      PROVE  RerouteInv'
  <2>1. svc' = [svc EXCEPT !.selector = s] /\ wanted' = s /\ svc \in ServiceObjects
    BY <1>0, <1>3 DEF ChangeSelector, Given, PlainSelectors
  <2>2. svc'.selector = s
    BY <2>1 DEF ServiceObjects
  <2> QED
    BY <2>1, <2>2 DEF RerouteInv
<1>4. CASE DeleteService
  <2> DEFINE o == [svc EXCEPT !.terminating = TRUE]
  <2>1. o \in ServiceObjects /\ o.selector = svc.selector /\ o.original = svc.original
    BY <1>0, <1>4 DEF DeleteService, ServiceObjects
  <2>2. svc' = ReleasedService(o, {}) /\ svc # None /\ UNCHANGED wanted
    BY <1>4 DEF DeleteService
  <2> HIDE DEF o
  <2> QED
    BY <2>1, <2>2, SelectorKept, ReleasedSelector
<1>5. CASE PatchServices
  <2>1. svc # None /\ svc' = ReleasedService(svc, svc.finalizers) /\ UNCHANGED wanted
    BY <1>5 DEF PatchServices, HasFinalizer
  <2> QED
    BY <1>0, <2>1, SelectorKept, ReleasedSelector
<1>6. \/ UNCHANGED <<svc, wanted>>
      \/ \E t \in configured : HandleService(t)
      \/ \E s \in Selectors : ChangeSelector(s)
      \/ DeleteService
      \/ PatchServices
  <2>1. CASE ServicesNext
    BY <2>1 DEF ServicesNext, ServiceSteps, HandleServiceRest, SyncService, SyncServiceCopy,
                LoseServiceCopy, ServiceCallFails, ChangePods
  <2>2. ASSUME NEW t \in configured, IngressSteps(t)
        PROVE  UNCHANGED <<svc, wanted>>
    BY <2>2 DEF IngressSteps, HandleIngress, HandleIngressRest, SyncIngress, SyncIngressCopy,
                LoseIngressCopy, IngressCallFails, svcVars
  <2>3. CASE EditIngress \/ DeleteIngress \/ Uninstall \/ PatchIngresses \/ UNCHANGED vars
    BY <2>3 DEF EditIngress, DeleteIngress, Uninstall, PatchIngresses, vars, svcVars
  <2> QED
    BY <2>1, <2>2, <2>3 DEF Next
<1> QED
  BY <1>1, <1>2, <1>3, <1>4, <1>5, <1>6

(* With plain selectors, a rerouted service has the labels of the user's   *)
(* latest selector under their new keys, and that selector in its          *)
(* annotation, whoever rerouted it from whichever cached version           *)
(* (shouldFollow and Handle in follow/service/controller.go).              *)
THEOREM RerouteIsFaithful == PlainSelectors => (Spec => []RerouteFaithful)
<1> SUFFICES ASSUME PlainSelectors PROVE Spec => []RerouteFaithful
  OBVIOUS
<1>1. IngressesTypeOK /\ RerouteInv /\ [Next]_vars => RerouteInv'
  BY RerouteStep
<1>2. IngressesTypeOK /\ RerouteInv => RerouteFaithful
  <2> SUFFICES ASSUME RerouteInv, wanted \in Selectors, svc # None, IsRerouted(svc.selector)
               PROVE  svc.original = wanted /\ Reroutes(svc.selector, wanted)
    BY DEF RerouteFaithful, IngressesTypeOK, ServicesTypeOK
  <2>1. svc.selector # wanted
    BY DEF IsRerouted, PlainSelectors, IsOwn, IsUsers
  <2> QED
    BY <2>1 DEF RerouteInv
<1> QED
  BY <1>1, <1>2, RerouteInit, TypeCorrect, PTL DEF Spec
=============================================================================
