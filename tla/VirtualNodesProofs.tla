------------------------- MODULE VirtualNodesProofs -------------------------
(***************************************************************************)
(* Proofs about virtual nodes, for every set of clusters, links, real      *)
(* nodes, labels and sizes of huge pages, and every bound.                 *)
(***************************************************************************)
EXTENDS VirtualNodes, FiniteSetTheorems, TLAPS

(* The recursion that a sum of capacities over N is computed by.           *)
Sums(f, N) ==
    f = [s \in SUBSET N |->
           IF s = {} THEN 0
           ELSE seenNodes[CHOOSE x \in s : TRUE].resources.capacity
                  + f[s \ {CHOOSE x \in s : TRUE}]]

(* If some function satisfies the recursion, the sum is computed by one    *)
(* that does.                                                              *)
LEMMA SumExists ==
    ASSUME NEW N, NEW g, Sums(g, N)
    PROVE  \E f : /\ Sums(f, N)
                  /\ MapThenSumSet(LAMBDA n : seenNodes[n].resources.capacity, N) = f[N]
<1> DEFINE c == CHOOSE f : f = [s \in SUBSET N |->
                   IF s = {} THEN 0
                   ELSE seenNodes[CHOOSE x \in s : TRUE].resources.capacity
                          + f[s \ {CHOOSE x \in s : TRUE}]]
<1>1. Sums(c, N)
  BY DEF Sums
<1>2. MapThenSumSet(LAMBDA n : seenNodes[n].resources.capacity, N) = c[N]
  BY DEF MapThenSumSet, MapThenFoldSet
<1>. QED
  BY <1>1, <1>2

(* Nodes of one unit each have as many units as there are nodes.           *)
LEMMA SumOfUnits ==
    ASSUME NEW N, IsFiniteSet(N), \A n \in N : seenNodes[n].resources.capacity = 1
    PROVE  MapThenSumSet(LAMBDA n : seenNodes[n].resources.capacity, N) = Cardinality(N)
<1> DEFINE g == [s \in SUBSET N |-> Cardinality(s)]
           pick(s) == CHOOSE x \in s : TRUE
<1>1. ASSUME NEW s \in SUBSET N, s # {}
      PROVE  /\ pick(s) \in s
             /\ s \ {pick(s)} \in SUBSET N
             /\ seenNodes[pick(s)].resources.capacity = 1
             /\ Cardinality(s) = 1 + Cardinality(s \ {pick(s)})
  <2>1. pick(s) \in s
    BY <1>1
  <2>2. IsFiniteSet(s)
    BY FS_Subset
  <2>3. Cardinality(s \ {pick(s)}) = Cardinality(s) - 1 /\ Cardinality(s) \in Nat
    BY <2>1, <2>2, FS_RemoveElement, FS_CardinalityType
  <2>. QED
    BY <2>1, <2>3
<1>2. Cardinality({}) = 0
  BY FS_EmptySet
<1>3. Sums(g, N)
  BY <1>1, <1>2 DEF Sums
<1>4. PICK f : /\ Sums(f, N)
               /\ MapThenSumSet(LAMBDA n : seenNodes[n].resources.capacity, N) = f[N]
  BY <1>3, SumExists
<1> DEFINE Wrong == {s \in SUBSET N : f[s] # Cardinality(s)}
<1>5. Wrong = {}
  <2>. SUFFICES ASSUME Wrong # {} PROVE FALSE
    OBVIOUS
  <2>1. IsWellFoundedOn(StrictSubsetOrdering(N), SUBSET N)
    BY FS_StrictSubsetOrderingWellFounded, FS_FiniteSubsetsOfFinite
  <2>2. PICK s \in Wrong : \A r \in Wrong : <<r, s>> \notin StrictSubsetOrdering(N)
    BY <2>1, WFMin
  <2>3. CASE s = {}
    BY <1>2, <1>4, <2>3 DEF Sums
  <2>4. CASE s # {}
    <3> DEFINE r == s \ {pick(s)}
    <3>1. r \in SUBSET N /\ r \subseteq s /\ r # s
      BY <1>1, <2>4
    <3>2. <<r, s>> \in StrictSubsetOrdering(N)
      BY <3>1 DEF StrictSubsetOrdering
    <3>3. f[r] = Cardinality(r)
      BY <2>2, <3>1, <3>2
    <3>4. f[s] = seenNodes[pick(s)].resources.capacity + f[r]
      BY <1>4, <2>4 DEF Sums
    <3>. QED
      BY <1>1, <2>4, <3>3, <3>4
  <2>. QED
    BY <2>3, <2>4
<1>. QED
  BY <1>4, <1>5

-----------------------------------------------------------------------------
(* Types.                                                                  *)
LEMMA NodeNamesOf ==
    /\ \A l \in Links : l \in NodeNames /\ l \notin RealNodes /\ l[1] \in Clusters /\ l[2] \in Clusters
    /\ \A n \in RealNodes : n \in NodeNames
BY VirtualNodesAssumption DEF NodeNames

(* The resources of a virtual node before its first status.                *)
LEMMA NoResourcesType == NoResources \in Resources /\ NoResources.capacity = 0
                           /\ NoResources.pages = {}
BY DEF NoResources, Resources

(* A new virtual node has the provider label and no resources.             *)
LEMMA NodeFromOptsType ==
    /\ NodeFromOpts \in Objects
    /\ NodeFromOpts.labels["provider"] = "admiralty"
    /\ NodeFromOpts.resources = NoResources
BY NoResourcesType DEF NodeFromOpts, Objects, BaseLabels, LabelKeys

(* A real node has one unit and not the provider label.                    *)
LEMMA RealNodeType ==
    ASSUME NEW zone \in Zones \cup {None}, NEW pages \in SUBSET Sizes
    PROVE  /\ RealNode(zone, pages) \in Objects
           /\ RealNode(zone, pages).labels["provider"] = None
           /\ RealNode(zone, pages).resources.capacity = 1
           /\ RealNode(zone, pages).resources.pages = pages
BY DEF RealNode, Objects, Resources, LabelKeys

(* The purge is about huge pages only.                                     *)
LEMMA PurgedType ==
    ASSUME NEW l, NEW resources \in Resources
    PROVE  /\ PurgeHugePages(l, resources) \in Resources
           /\ PurgeHugePages(l, resources).capacity = resources.capacity
           /\ PurgeHugePages(l, resources).pages \in {{}, resources.pages}
BY DEF PurgeHugePages, Resources

(* Labels of a summary without the provider label get that of virtual      *)
(* nodes.                                                                  *)
LEMMA ReconciledType ==
    ASSUME NEW L \in [LabelKeys -> Zones \cup {"admiralty", None}]
    PROVE  /\ ReconcileLabels(L) \in [LabelKeys -> Zones \cup {"admiralty", None}]
           /\ L["provider"] = None => ReconcileLabels(L)["provider"] = "admiralty"
BY DEF ReconcileLabels, BaseLabels, LabelKeys

(* The patch of labels leaves the resources and the provider label.        *)
LEMMA PatchedType ==
    ASSUME NEW l \in Links, NEW L \in [LabelKeys -> Zones \cup {"admiralty", None}],
           nodes[l] \in Objects, seenNodes[l] \in Objects
    PROVE  /\ PatchLabels(l, L) \in Objects
           /\ PatchLabels(l, L).resources = nodes[l].resources
           /\ nodes[l].labels["provider"] = "admiralty" /\ L["provider"] = "admiralty"
                => PatchLabels(l, L).labels["provider"] = "admiralty"
BY DEF PatchLabels, Objects, LabelKeys

(* A cluster has finitely many real nodes.                                 *)
LEMMA MostIsNatural ==
    ASSUME NEW c
    PROVE  IsFiniteSet({n \in RealNodes : n[1] = c}) /\ Most(c) \in Nat /\ 0 <= Most(c)
<1>1. IsFiniteSet({n \in RealNodes : n[1] = c}) /\ Most(c) \in Nat
  BY VirtualNodesAssumption, FS_Subset, FS_CardinalityType DEF Most
<1>. QED
  BY <1>1

(* A summary is of real nodes only, whatever virtual nodes there are.      *)
LEMMA AggregateHonest ==
    ASSUME HonestInv, NEW c \in Clusters
    PROVE  Aggregate(c) \in Objects /\ HonestSummary(c, Aggregate(c))
<1> DEFINE R == {n \in RealNodes : n[1] = c}
           N == {n \in NodesOf(c) : IsReal(seenNodes[n])}
           sum == MapThenSumSet(LAMBDA n : seenNodes[n].resources.capacity, N)
           labels == [k \in LabelKeys |-> UniqueValue({seenNodes[n].labels[k] : n \in N})]
           pages == UNION {seenNodes[n].resources.pages : n \in N}
<1>1. ASSUME NEW n \in N
      PROVE  /\ n \in R /\ seenNodes[n] \in Objects
             /\ seenNodes[n].labels["provider"] = None
             /\ seenNodes[n].resources.capacity = 1
  BY DEF HonestInv, HonestNode, NodesTypeOK, NodesOf, IsReal
<1>2. IsFiniteSet(N) /\ Cardinality(N) \in Nat /\ Cardinality(N) <= Most(c)
  <2>1. N \in SUBSET R
    BY <1>1
  <2> HIDE DEF N
  <2>. QED
    BY <2>1, MostIsNatural, FS_Subset, FS_CardinalityType DEF Most
<1>3. sum = Cardinality(N)
  <2> HIDE DEF N
  <2>. QED
    BY <1>1, <1>2, SumOfUnits
<1>4. pages \in SUBSET Sizes
  BY <1>1 DEF Objects, Resources
<1>5. labels \in [LabelKeys -> Zones \cup {"admiralty", None}]
  <2>1. ASSUME NEW k \in LabelKeys
        PROVE  {seenNodes[n].labels[k] : n \in N} \subseteq Zones \cup {"admiralty", None}
    BY <1>1 DEF Objects
  <2>2. ASSUME NEW V, V \subseteq Zones \cup {"admiralty", None}
        PROVE  UniqueValue(V) \in Zones \cup {"admiralty", None}
    <3>1. CASE Cardinality(V \ {None}) = 1
      <4>1. V \ {None} # {}
        BY <3>1, FS_EmptySet
      <4>. QED
        BY <2>2, <3>1, <4>1 DEF UniqueValue
    <3>. QED
      BY <3>1 DEF UniqueValue
  <2>. QED
    BY <2>1, <2>2
<1>6. labels["provider"] = None
  <2> DEFINE V == {seenNodes[n].labels["provider"] : n \in N}
  <2>1. V \ {None} = {}
    BY <1>1
  <2>2. Cardinality(V \ {None}) # 1
    BY <2>1, FS_EmptySet
  <2>3. UniqueValue(V) = None
    BY <2>2 DEF UniqueValue
  <2>. QED
    BY <2>3 DEF LabelKeys
<1>7. Aggregate(c) = [labels |-> labels, resources |-> [capacity |-> sum, pages |-> pages]]
  BY DEF Aggregate
<1> HIDE DEF R, N, labels, sum, pages
<1>8. sum \in Nat /\ sum <= Most(c)
  BY <1>2, <1>3
<1>9. Aggregate(c) \in Objects
  BY <1>4, <1>5, <1>7, <1>8 DEF Objects, Resources
<1>. QED
  BY <1>6, <1>7, <1>8, <1>9 DEF HonestSummary

(* Initially only real nodes have capacity.                                *)
LEMMA HonestInit == Init => HonestInv
<1>. SUFFICES ASSUME Init PROVE HonestInv
  OBVIOUS
<1> DEFINE zone == CHOOSE z \in Zones : z \notin Excluded
<1>1. zone \in Zones
  BY VirtualNodesAssumption
<1>2. \A n \in NodeNames : nodes[n] = IF n \in RealNodes THEN RealNode(zone, {}) ELSE None
  BY DEF Init
<1>3. nodes \in [NodeNames -> Objects \cup {None}]
  BY <1>1, RealNodeType DEF Init
<1> HIDE DEF zone
<1>4. ASSUME NEW n \in NodeNames PROVE HonestNode(n, nodes[n])
  BY <1>1, <1>2, RealNodeType DEF HonestNode
<1>. QED
  BY <1>3, <1>4 DEF Init, HonestInv, NodesTypeOK, HonestSummary

(* Every step keeps HonestInv.                                             *)
LEMMA HonestNext == HonestInv /\ [Next]_vars => HonestInv'
<1>. SUFFICES ASSUME HonestInv, [Next]_vars PROVE HonestInv'
  OBVIOUS
<1>0. NodesTypeOK
  BY DEF HonestInv
<1>a. ASSUME NEW n, NEW node PROVE HonestNode(n, node)' <=> HonestNode(n, node)
  BY DEF HonestNode, Most
<1>1. ASSUME NEW c \in Clusters, Downstream(c) PROVE HonestInv'
  BY <1>0, <1>1, AggregateHonest DEF Downstream, HonestInv, NodesTypeOK
<1>2. ASSUME NEW c \in Clusters, AgentStarts(c) PROVE HonestInv'
  BY <1>0, <1>2, NodeNamesOf DEF AgentStarts, HonestInv, NodesTypeOK
<1>3. ASSUME NEW c \in Clusters, DeleteSummary(c) PROVE HonestInv'
  BY <1>0, <1>3 DEF DeleteSummary, HonestInv, NodesTypeOK, HonestSummary
<1>4. ASSUME NEW l \in Links, Upstream(l) PROVE HonestInv'
  <2> DEFINE L == ReconcileLabels(seenSummary[l].labels)
             resources == PurgeHugePages(l, seenSummary[l].resources)
  <2>0. /\ seenSummary[l] \in Objects /\ seenNodes[l] \in Objects /\ l \in NodeNames
        /\ HonestSummary(l[2], seenSummary[l]) /\ HonestNode(l, nodes[l])
        /\ l \notin RealNodes
    BY <1>0, <1>4, NodeNamesOf DEF Upstream, HonestInv, NodesTypeOK
  <2>1. /\ L \in [LabelKeys -> Zones \cup {"admiralty", None}]
        /\ L["provider"] = "admiralty"
    BY <1>4, <2>0, ReconciledType DEF Upstream, HonestSummary, Objects
  <2>2. resources \in Resources /\ resources.capacity <= Most(l[2])
    BY <1>4, <2>0, PurgedType DEF Upstream, HonestSummary, Objects
  <2> HIDE DEF L, resources
  <2>3. \/ nodes' = nodes
        \/ nodes[l] # None /\ nodes' = [nodes EXCEPT ![l] = PatchLabels(l, L)]
    BY <1>4 DEF Upstream, L
  <2>4. kubelet' = kubelet \/ kubelet' = [kubelet EXCEPT ![l] = resources]
    BY <1>4 DEF Upstream, UpdateNodeStatus, resources
  <2>5. nodes' \in [NodeNames -> Objects \cup {None}]
        /\ \A n \in NodeNames : HonestNode(n, nodes'[n])
    <3>1. CASE nodes[l] # None /\ nodes' = [nodes EXCEPT ![l] = PatchLabels(l, L)]
      <4>1. nodes[l] \in Objects
        BY <1>0, <2>0, <3>1 DEF NodesTypeOK
      <4>2. PatchLabels(l, L) \in Objects /\ HonestNode(l, PatchLabels(l, L))
        BY <2>0, <2>1, <3>1, <4>1, PatchedType DEF HonestNode
      <4>. QED
        BY <1>0, <2>0, <3>1, <4>2 DEF NodesTypeOK, HonestInv
    <3>. QED
      BY <1>0, <2>3, <3>1 DEF NodesTypeOK, HonestInv
  <2>6. kubelet' \in [Links -> Resources \cup {None}]
        /\ \A k \in Links : kubelet'[k] # None => kubelet'[k].capacity <= Most(k[2])
    BY <1>0, <2>2, <2>4 DEF NodesTypeOK, HonestInv
  <2>. QED
    BY <1>0, <1>4, <1>a, <2>5, <2>6 DEF Upstream, HonestInv, NodesTypeOK
<1>5. ASSUME NEW l \in Links, RunNode(l) PROVE HonestInv'
  <2>1. 0 <= Most(l[2])
    BY MostIsNatural, Zenon
  <2>. QED
    BY <1>0, <1>5, <2>1, NoResourcesType DEF RunNode, HonestInv, NodesTypeOK
<1>6. ASSUME NEW l \in Links, WriteStatus(l) PROVE HonestInv'
  <2>1. /\ nodes[l] \in Objects /\ kubelet[l] \in Resources /\ l \in NodeNames
        /\ kubelet[l].capacity <= Most(l[2]) /\ HonestNode(l, nodes[l]) /\ l \notin RealNodes
    BY <1>0, <1>6, NodeNamesOf DEF WriteStatus, HonestInv, NodesTypeOK
  <2> DEFINE value == [nodes[l] EXCEPT !.resources = kubelet[l]]
  <2>2. value \in Objects /\ HonestNode(l, value)
    BY <1>6, <2>1 DEF WriteStatus, HonestNode, Objects
  <2>3. nodes' = [nodes EXCEPT ![l] = value]
    BY <1>6 DEF WriteStatus
  <2> HIDE DEF value
  <2>4. nodes' \in [NodeNames -> Objects \cup {None}]
        /\ \A n \in NodeNames : HonestNode(n, nodes'[n])
    BY <1>0, <2>1, <2>2, <2>3 DEF HonestInv, NodesTypeOK
  <2>. QED
    BY <1>0, <1>6, <1>a, <2>4 DEF WriteStatus, HonestInv, NodesTypeOK
<1>7. ASSUME NEW l \in Links, RecreateNode(l) PROVE HonestInv'
  <2>1. HonestNode(l, NodeFromOpts) /\ NodeFromOpts \in Objects
    <3>1. 0 <= Most(l[2])
      BY MostIsNatural, Zenon
    <3>. QED
      BY <3>1, NodeFromOptsType, NoResourcesType, NodeNamesOf DEF HonestNode
  <2>. QED
    BY <1>0, <1>7, <1>a, <2>1, NodeNamesOf DEF RecreateNode, HonestInv, NodesTypeOK
<1>8. ASSUME NEW l \in Links, SyncSummary(l) PROVE HonestInv'
  BY <1>0, <1>8, NodeNamesOf DEF SyncSummary, HonestInv, NodesTypeOK
<1>9. ASSUME NEW n \in NodeNames, SyncNode(n) PROVE HonestInv'
  BY <1>0, <1>9, <1>a DEF SyncNode, HonestInv, NodesTypeOK
<1>10. ASSUME NEW n \in NodeNames, DeleteNode(n) PROVE HonestInv'
  <2>1. HonestNode(n, None)
    BY DEF HonestNode
  <2>. QED
    BY <1>0, <1>10, <1>a, <2>1 DEF DeleteNode, HonestInv, NodesTypeOK
<1>11. ASSUME NEW n \in RealNodes, NEW zone \in Zones \cup {None}, NEW pages \in SUBSET Sizes,
              ChangeNode(n, zone, pages)
       PROVE  HonestInv'
  <2>1. HonestNode(n, RealNode(zone, pages)) /\ RealNode(zone, pages) \in Objects
    BY RealNodeType DEF HonestNode
  <2>. QED
    BY <1>0, <1>11, <1>a, <2>1, NodeNamesOf DEF ChangeNode, HonestInv, NodesTypeOK
<1>12. CASE UNCHANGED vars
  BY <1>0, <1>12, <1>a DEF vars, HonestInv, NodesTypeOK
<1>. QED
  BY <1>1, <1>2, <1>3, <1>4, <1>5, <1>6, <1>7, <1>8, <1>9, <1>10, <1>11, <1>12 DEF Next

(* Capacity does not add up when clusters are each other's targets         *)
(* (downstream and upstream controllers in pkg/controllers/resources,      *)
(* pkg/vk/node): however many clusters there are, in whatever cycles, and  *)
(* whatever nodes and summaries come and go.                               *)
THEOREM CapacityIsReal == Spec => []NoInflation
<1>1. HonestInv => NoInflation
  BY NodeNamesOf DEF HonestInv, HonestNode, HonestSummary, NoInflation
<1>. QED
  BY <1>1, HonestInit, HonestNext, PTL DEF Spec

-----------------------------------------------------------------------------
(* What API servers accept.                                                *)

(* Resources without huge pages are always accepted.                       *)
LEMMA NoPagesAccepted ==
    ASSUME NEW c, NEW resources, resources.pages = {}
    PROVE  Accepts(c, resources) /\ ~HasMultipleHugePageSizes(resources)
BY FS_EmptySet DEF Accepts, HasMultipleHugePageSizes

(* The purge leaves what the source cluster accepts: it keeps several      *)
(* sizes only if a real node of that cluster has them.                     *)
LEMMA PurgedAccepted ==
    ASSUME NodesTypeOK, AcceptedInv, NEW l \in Links, NEW resources \in Resources
    PROVE  Accepts(l[1], PurgeHugePages(l, resources))
<1> DEFINE allowed == \E n \in NodesOf(l[1]) :
               IsReal(seenNodes[n]) /\ HasMultipleHugePageSizes(seenNodes[n].resources)
<1>1. CASE HasMultipleHugePageSizes(resources) /\ ~allowed
  <2>1. PurgeHugePages(l, resources) = [resources EXCEPT !.pages = {}]
    BY <1>1 DEF PurgeHugePages
  <2>2. PurgeHugePages(l, resources).pages = {}
    BY <2>1 DEF Resources
  <2>. QED
    BY <2>2, NoPagesAccepted
<1>2. CASE ~HasMultipleHugePageSizes(resources)
  BY <1>2 DEF PurgeHugePages, Accepts
<1>3. CASE allowed
  <2>1. PICK n \in NodesOf(l[1]) :
          IsReal(seenNodes[n]) /\ HasMultipleHugePageSizes(seenNodes[n].resources)
    BY <1>3
  <2>2. n \in NodeNames /\ n[1] = l[1] /\ seenNodes[n] # None
    BY <2>1 DEF NodesOf, IsReal
  <2>3. l[1] \in Supporting
    BY <2>1, <2>2 DEF AcceptedInv, Accepts
  <2>. QED
    BY <2>3 DEF Accepts
<1>. QED
  BY <1>1, <1>2, <1>3

(* Initially every status is accepted.                                     *)
LEMMA AcceptedInit == Init => AcceptedInv
<1>. SUFFICES ASSUME Init PROVE AcceptedInv
  OBVIOUS
<1> DEFINE zone == CHOOSE z \in Zones : z \notin Excluded
<1>0. NodesTypeOK
  BY HonestInit DEF HonestInv
<1>1. zone \in Zones
  BY VirtualNodesAssumption
<1>2. RealNode(zone, {}).resources.pages = {}
  BY <1>1, RealNodeType
<1>3. ASSUME NEW n \in NodeNames, nodes[n] # None PROVE Accepts(n[1], nodes[n].resources)
  <2>1. nodes[n] = RealNode(zone, {})
    BY <1>3 DEF Init
  <2>. QED
    BY <1>2, <2>1, NoPagesAccepted
<1>. QED
  BY <1>0, <1>3 DEF Init, AcceptedInv, StatusAccepted

(* Every step keeps AcceptedInv.                                           *)
LEMMA AcceptedNext == HonestInv /\ AcceptedInv /\ [Next]_vars => AcceptedInv'
<1>. SUFFICES ASSUME HonestInv, AcceptedInv, [Next]_vars PROVE AcceptedInv'
  OBVIOUS
<1>0. NodesTypeOK /\ NodesTypeOK'
  BY HonestNext DEF HonestInv
<1> DEFINE AcceptedNode(n, node) == node # None => Accepts(n[1], node.resources)
<1>a. ASSUME NEW n \in NodeNames, NEW node, AcceptedNode(n, node),
             nodes' = [nodes EXCEPT ![n] = node], UNCHANGED <<seenNodes, kubelet>>
      PROVE  AcceptedInv'
  <2>1. \A m \in NodeNames : nodes'[m] = IF m = n THEN node ELSE nodes[m]
    BY <1>0, <1>a DEF NodesTypeOK
  <2>. QED
    BY <1>0, <1>a, <2>1 DEF AcceptedInv, StatusAccepted, Accepts
<1>b. ASSUME UNCHANGED <<nodes, seenNodes, kubelet>> PROVE AcceptedInv'
  BY <1>0, <1>b DEF AcceptedInv, StatusAccepted, Accepts
<1>1. ASSUME NEW c \in Clusters, Downstream(c) \/ DeleteSummary(c) PROVE AcceptedInv'
  BY <1>1, <1>b DEF Downstream, DeleteSummary
<1>2. ASSUME NEW c \in Clusters, AgentStarts(c) PROVE AcceptedInv'
  BY <1>0, <1>2 DEF AgentStarts, AcceptedInv, StatusAccepted, Accepts
<1>3. ASSUME NEW l \in Links, Upstream(l) PROVE AcceptedInv'
  <2> DEFINE L == ReconcileLabels(seenSummary[l].labels)
             resources == PurgeHugePages(l, seenSummary[l].resources)
  <2>0. /\ seenSummary[l] \in Objects /\ seenNodes[l] \in Objects /\ l \in NodeNames
    BY <1>0, <1>3, NodeNamesOf DEF Upstream, NodesTypeOK
  <2>1. L \in [LabelKeys -> Zones \cup {"admiralty", None}]
    BY <2>0, ReconciledType DEF Objects
  <2>2. Accepts(l[1], resources)
    BY <1>0, <2>0, PurgedAccepted DEF Objects
  <2> HIDE DEF L, resources
  <2>3. \/ nodes' = nodes
        \/ nodes[l] # None /\ nodes' = [nodes EXCEPT ![l] = PatchLabels(l, L)]
    BY <1>3 DEF Upstream, L
  <2>4. kubelet' = kubelet \/ kubelet' = [kubelet EXCEPT ![l] = resources]
    BY <1>3 DEF Upstream, UpdateNodeStatus, resources
  <2>5. ASSUME NEW n \in NodeNames, nodes'[n] # None PROVE Accepts(n[1], nodes'[n].resources)
    <3>1. CASE nodes[l] # None /\ nodes' = [nodes EXCEPT ![l] = PatchLabels(l, L)]
      <4>1. nodes[l] \in Objects
        BY <1>0, <2>0, <3>1 DEF NodesTypeOK
      <4>2. PatchLabels(l, L).resources = nodes[l].resources
        BY <2>0, <2>1, <4>1, PatchedType
      <4>. QED
        BY <1>0, <2>0, <2>5, <3>1, <4>2 DEF NodesTypeOK, AcceptedInv
    <3>. QED
      BY <2>3, <2>5, <3>1 DEF AcceptedInv
  <2>6. ASSUME NEW k \in Links, kubelet'[k] # None PROVE Accepts(k[1], kubelet'[k])
    BY <1>0, <2>2, <2>4, <2>6 DEF NodesTypeOK, AcceptedInv, StatusAccepted
  <2>7. UNCHANGED seenNodes
    BY <1>3 DEF Upstream
  <2>. QED
    BY <1>0, <2>5, <2>6, <2>7 DEF AcceptedInv, StatusAccepted, Accepts
<1>4. ASSUME NEW l \in Links, RunNode(l) PROVE AcceptedInv'
  <2>1. Accepts(l[1], NoResources)
    BY NoResourcesType, NoPagesAccepted
  <2>. QED
    BY <1>0, <1>4, <2>1 DEF RunNode, AcceptedInv, StatusAccepted, NodesTypeOK, Accepts
<1>5. ASSUME NEW l \in Links, WriteStatus(l) PROVE AcceptedInv'
  <2> DEFINE value == [nodes[l] EXCEPT !.resources = kubelet[l]]
  <2>1. nodes[l] \in Objects /\ l \in NodeNames
    BY <1>0, <1>5, NodeNamesOf DEF WriteStatus, NodesTypeOK
  <2>2. value.resources = kubelet[l]
    BY <2>1 DEF Objects
  <2>3. nodes' = [nodes EXCEPT ![l] = value] /\ AcceptedNode(l, value)
    BY <1>5, <2>2 DEF WriteStatus
  <2> HIDE DEF value
  <2>. QED
    BY <1>5, <1>a, <2>1, <2>3 DEF WriteStatus
<1>6. ASSUME NEW l \in Links, RecreateNode(l) PROVE AcceptedInv'
  <2>1. AcceptedNode(l, NodeFromOpts)
    BY NodeFromOptsType, NoResourcesType, NoPagesAccepted
  <2>. QED
    BY <1>6, <1>a, <2>1, NodeNamesOf DEF RecreateNode
<1>7. ASSUME NEW l \in Links, SyncSummary(l) PROVE AcceptedInv'
  BY <1>7, <1>b DEF SyncSummary
<1>8. ASSUME NEW n \in NodeNames, SyncNode(n) PROVE AcceptedInv'
  BY <1>0, <1>8 DEF SyncNode, AcceptedInv, StatusAccepted, NodesTypeOK, Accepts
<1>9. ASSUME NEW n \in NodeNames, DeleteNode(n) PROVE AcceptedInv'
  BY <1>9, <1>a DEF DeleteNode
<1>10. ASSUME NEW n \in RealNodes, NEW zone \in Zones \cup {None}, NEW pages \in SUBSET Sizes,
              ChangeNode(n, zone, pages)
       PROVE  AcceptedInv'
  <2>1. RealNode(zone, pages).resources.pages = pages
    BY RealNodeType
  <2>2. AcceptedNode(n, RealNode(zone, pages))
    BY <1>10, <2>1 DEF ChangeNode, Accepts, HasMultipleHugePageSizes
  <2>. QED
    BY <1>10, <1>a, <2>2, NodeNamesOf DEF ChangeNode
<1>11. CASE UNCHANGED vars
  BY <1>11, <1>b DEF vars
<1>. QED
  BY <1>1, <1>2, <1>3, <1>4, <1>5, <1>6, <1>7, <1>8, <1>9, <1>10, <1>11 DEF Next

(* The node controller is never given a status that the API server refuses *)
(* (purgeHugePages in the upstream controller), however old the caches are *)
(* in which real nodes are looked up.                                      *)
THEOREM StatusIsAccepted == Spec => []StatusAccepted
<1>1. HonestInv /\ AcceptedInv => StatusAccepted
  BY DEF AcceptedInv
<1>2. Init => HonestInv /\ AcceptedInv
  BY HonestInit, AcceptedInit
<1>3. HonestInv /\ AcceptedInv /\ [Next]_vars => (HonestInv /\ AcceptedInv)'
  BY HonestNext, AcceptedNext
<1>. QED
  BY <1>1, <1>2, <1>3, PTL DEF Spec
=============================================================================
