---------------------------- MODULE VirtualNodes ----------------------------
(***************************************************************************)
(* What schedulers of source clusters know of target clusters. In each     *)
(* cluster the downstream controller (pkg/controllers/resources) sums its  *)
(* real nodes up in a ClusterSummary. For each target, the upstream        *)
(* controller of the source cluster copies the summary's labels to the     *)
(* target's virtual node, and hands its resources to the node controller   *)
(* of virtual-kubelet (pkg/vk/node), which writes them. Clusters can be    *)
(* sources and targets of each other.                                      *)
(***************************************************************************)
EXTENDS Naturals, FiniteSetsExt

CONSTANTS
    Clusters,
    Links,       \* <<source, target>>, which is also the virtual node's identity
    RealNodes,   \* <<cluster, name>>
    Zones,       \* values of a label that real nodes can have
    Excluded,    \* those that the targets' regular expression excludes
    Sizes,       \* sizes of huge pages
    Supporting,  \* clusters whose nodes can have pages of several sizes
    MaxEdits,    \* bound on changes to nodes and summaries by others
    MaxMishaps,  \* bound on restarts
    None         \* no object, no label, not running

ASSUME VirtualNodesAssumption ==
    /\ Links \subseteq Clusters \X Clusters
    /\ \A n \in RealNodes : n[1] \in Clusters
    /\ IsFiniteSet(RealNodes)
    /\ RealNodes \cap Links = {}
    /\ Excluded \subseteq Zones /\ Excluded # Zones
    /\ Supporting \subseteq Clusters
    /\ MaxEdits \in Nat /\ MaxMishaps \in Nat

NodeNames == RealNodes \cup Links
NodesOf(c) == {n \in NodeNames : n[1] = c}

LabelKeys == {"provider", "zone"}

VARIABLES
    nodes,        \* nodes[n]: labels and resources of a real or virtual node
    seenNodes,    \* their cached copies in the agent of the same cluster
    summary,      \* summary[c]: the ClusterSummary of c
    seenSummary,  \* seenSummary[l]: cached copy in the agent of the source cluster
    kubelet,      \* kubelet[l]: resources that the node controller keeps in memory
    edits,        \* changes by others so far
    mishaps       \* restarts so far

vars == <<nodes, seenNodes, summary, seenSummary, kubelet, edits, mishaps>>

(* Capacity and allocatable alike: a quantity, and sizes of huge pages of  *)
(* which there are some.                                                   *)
NoResources == [capacity |-> 0, pages |-> {}]

-----------------------------------------------------------------------------
(* The downstream controller.                                              *)

(* A mistake: count virtual nodes.                                         *)
AnyNode(node) == node # None

IsReal(node) == node # None /\ node.labels["provider"] # "admiralty"

(* A mistake: keep a value on which nodes disagree.                        *)
AnyValue(V) == IF V \subseteq {None} THEN None ELSE CHOOSE v \in V \ {None} : TRUE

(* The value of a label that all nodes have that have the label.           *)
UniqueValue(V) ==
    IF Cardinality(V \ {None}) = 1 THEN CHOOSE v \in V \ {None} : TRUE ELSE None

Aggregate(c) ==
    LET N == {n \in NodesOf(c) : IsReal(seenNodes[n])} IN
    [labels |-> [k \in LabelKeys |-> UniqueValue({seenNodes[n].labels[k] : n \in N})],
     resources |-> [capacity |-> MapThenSumSet(LAMBDA n : seenNodes[n].resources.capacity, N),
                    pages |-> UNION {seenNodes[n].resources.pages : n \in N}]]

(* Handle reads the summary from the API server and creates or updates it. *)
Downstream(c) ==
    /\ summary[c] # Aggregate(c)
    /\ summary' = [summary EXCEPT ![c] = Aggregate(c)]
    /\ UNCHANGED <<nodes, seenNodes, seenSummary, kubelet, edits, mishaps>>

-----------------------------------------------------------------------------
(* The upstream controller.                                                *)
BaseLabels == [k \in LabelKeys |-> IF k = "provider" THEN "admiralty" ELSE None]

ReconcileLabels(L) ==
    [k \in LabelKeys |-> IF L[k] \in Excluded \cup {None} THEN BaseLabels[k] ELSE L[k]]

HasMultipleHugePageSizes(resources) == Cardinality(resources.pages) > 1

(* A mistake: pass resources on as they are.                               *)
KeepHugePages(l, resources) == resources

(* Several sizes of pages are left out where real nodes have only one.     *)
PurgeHugePages(l, resources) ==
    LET allowed == \E n \in NodesOf(l[1]) :
          IsReal(seenNodes[n]) /\ HasMultipleHugePageSizes(seenNodes[n].resources)
    IN IF HasMultipleHugePageSizes(resources) /\ ~allowed
       THEN [resources EXCEPT !.pages = {}] ELSE resources

(* A patch of the labels that differ in the cached node, which fails if    *)
(* there is no such node.                                                  *)
PatchLabels(l, L) ==
    [nodes[l] EXCEPT !.labels =
        [k \in LabelKeys |-> IF seenNodes[l].labels[k] = L[k] THEN @[k] ELSE L[k]]]

(* UpdateNodeStatus: nothing happens if the node controller is not there.  *)
UpdateNodeStatus(l, resources) ==
    kubelet' = IF kubelet[l] = None THEN kubelet ELSE [kubelet EXCEPT ![l] = resources]

(* Handle: the node is the cached one, or the result of the patch.         *)
Upstream(l) ==
    /\ seenSummary[l] # None
    /\ seenNodes[l] # None
    /\ LET L == ReconcileLabels(seenSummary[l].labels)
           resources == PurgeHugePages(l, seenSummary[l].resources)
           virtualNode == IF seenNodes[l].labels = L THEN seenNodes[l] ELSE PatchLabels(l, L)
       IN /\ seenNodes[l].labels # L => nodes[l] # None
          /\ nodes' = IF seenNodes[l].labels = L THEN nodes
                      ELSE [nodes EXCEPT ![l] = virtualNode]
          /\ IF virtualNode.resources = resources THEN UNCHANGED kubelet
             ELSE UpdateNodeStatus(l, resources)
          /\ <<nodes', kubelet'>> # <<nodes, kubelet>>
    /\ UNCHANGED <<seenNodes, summary, seenSummary, edits, mishaps>>

-----------------------------------------------------------------------------
(* The node controller.                                                    *)
NodeFromOpts == [labels |-> BaseLabels, resources |-> NoResources]

(* Run, when the agent starts or leads: the callback is registered.        *)
RunNode(l) ==
    /\ kubelet[l] = None
    /\ kubelet' = [kubelet EXCEPT ![l] = NoResources]
    /\ UNCHANGED <<nodes, seenNodes, summary, seenSummary, edits, mishaps>>

(* API servers refuse several sizes of pages where they are not supported. *)
Accepts(c, resources) == HasMultipleHugePageSizes(resources) => c \in Supporting

(* From time to time the node controller writes what it has in memory.     *)
WriteStatus(l) ==
    /\ kubelet[l] # None
    /\ nodes[l] # None
    /\ nodes[l].resources # kubelet[l]
    /\ Accepts(l[1], kubelet[l])
    /\ nodes' = [nodes EXCEPT ![l].resources = kubelet[l]]
    /\ UNCHANGED <<seenNodes, summary, seenSummary, kubelet, edits, mishaps>>

(* The error handler that Run gives it creates the node anew.              *)
RecreateNode(l) ==
    /\ kubelet[l] # None
    /\ nodes[l] = None
    /\ nodes' = [nodes EXCEPT ![l] = NodeFromOpts]
    /\ UNCHANGED <<seenNodes, summary, seenSummary, kubelet, edits, mishaps>>

-----------------------------------------------------------------------------
SyncNode(n) ==
    /\ seenNodes[n] # nodes[n]
    /\ seenNodes' = [seenNodes EXCEPT ![n] = nodes[n]]
    /\ UNCHANGED <<nodes, summary, seenSummary, kubelet, edits, mishaps>>

SyncSummary(l) ==
    /\ seenSummary[l] # summary[l[2]]
    /\ seenSummary' = [seenSummary EXCEPT ![l] = summary[l[2]]]
    /\ UNCHANGED <<nodes, seenNodes, summary, kubelet, edits, mishaps>>

(* The agent of c restarts, or another replica leads.                      *)
AgentStarts(c) ==
    /\ mishaps < MaxMishaps
    /\ mishaps' = mishaps + 1
    /\ seenNodes' = [n \in NodeNames |-> IF n[1] = c THEN nodes[n] ELSE seenNodes[n]]
    /\ seenSummary' = [l \in Links |-> IF l[1] = c THEN summary[l[2]] ELSE seenSummary[l]]
    /\ kubelet' = [l \in Links |-> IF l[1] = c THEN None ELSE kubelet[l]]
    /\ UNCHANGED <<nodes, summary, edits>>

(* Nodes that clusters can have.                                           *)
RealNode(zone, pages) ==
    [labels |-> [k \in LabelKeys |-> IF k = "zone" THEN zone ELSE None],
     resources |-> [capacity |-> 1, pages |-> pages]]

OthersEdit == edits < MaxEdits /\ edits' = edits + 1

ChangeNode(n, zone, pages) ==
    /\ OthersEdit
    /\ Accepts(n[1], [pages |-> pages])
    /\ nodes' = [nodes EXCEPT ![n] = RealNode(zone, pages)]
    /\ nodes' # nodes
    /\ UNCHANGED <<seenNodes, summary, seenSummary, kubelet, mishaps>>

(* Nodes go, virtual ones too, but not the one that the agent runs on.     *)
DeleteNode(n) ==
    /\ nodes[n] # None
    /\ n \in RealNodes => \E m \in NodesOf(n[1]) : m # n /\ IsReal(nodes[m])
    /\ OthersEdit
    /\ nodes' = [nodes EXCEPT ![n] = None]
    /\ UNCHANGED <<seenNodes, summary, seenSummary, kubelet, mishaps>>

DeleteSummary(c) ==
    /\ summary[c] # None
    /\ OthersEdit
    /\ summary' = [summary EXCEPT ![c] = None]
    /\ UNCHANGED <<nodes, seenNodes, seenSummary, kubelet, mishaps>>

(* Real nodes are there, and agents start.                                 *)
Init ==
    /\ nodes = [n \in NodeNames |->
         IF n \in RealNodes THEN RealNode(CHOOSE z \in Zones : z \notin Excluded, {}) ELSE None]
    /\ seenNodes = nodes
    /\ summary = [c \in Clusters |-> None]
    /\ seenSummary = [l \in Links |-> None]
    /\ kubelet = [l \in Links |-> None]
    /\ edits = 0
    /\ mishaps = 0

Next ==
    \/ \E c \in Clusters : Downstream(c) \/ AgentStarts(c) \/ DeleteSummary(c)
    \/ \E l \in Links :
         Upstream(l) \/ RunNode(l) \/ WriteStatus(l) \/ RecreateNode(l) \/ SyncSummary(l)
    \/ \E n \in NodeNames : SyncNode(n) \/ DeleteNode(n)
    \/ \E n \in RealNodes, zone \in Zones \cup {None}, pages \in SUBSET Sizes :
         ChangeNode(n, zone, pages)

Spec == Init /\ [][Next]_vars

(* Informers deliver events and resync, so that controllers run when there *)
(* is something to do, and the node controller runs in the background.     *)
Fairness ==
    /\ \A c \in Clusters : WF_vars(Downstream(c))
    /\ \A n \in NodeNames : WF_vars(SyncNode(n))
    /\ \A l \in Links :
         /\ WF_vars(SyncSummary(l))
         /\ WF_vars(Upstream(l))
         /\ WF_vars(RunNode(l))
         /\ WF_vars(WriteStatus(l))
         /\ WF_vars(RecreateNode(l))

FairSpec == Spec /\ Fairness

-----------------------------------------------------------------------------
(* No cluster has more than this: that of all nodes it can have.           *)
Most(c) == Cardinality({n \in RealNodes : n[1] = c})

(* Whatever of its nodes come and go, and though clusters are each other's *)
(* targets, no summary and no virtual node says that a cluster has more    *)
(* than its real nodes: what flows back does not add up, as virtual nodes  *)
(* keep the label by which they are told from real ones.                   *)
NoInflation ==
    /\ \A c \in Clusters : summary[c] # None => summary[c].resources.capacity <= Most(c)
    /\ \A l \in Links :
         nodes[l] # None =>
             /\ nodes[l].resources.capacity <= Most(l[2])
             /\ nodes[l].labels["provider"] = "admiralty"

(* The node controller, which tells nobody about errors, never has to      *)
(* write what the API server refuses, which would keep a virtual node      *)
(* from being updated for ever.                                            *)
StatusAccepted == \A l \in Links : kubelet[l] # None => Accepts(l[1], kubelet[l])

(* Nodes and summaries, which have labels and resources alike.             *)
Resources == [capacity: Nat, pages: SUBSET Sizes]
Objects == [labels: [LabelKeys -> Zones \cup {"admiralty", None}], resources: Resources]

NodesTypeOK ==
    /\ nodes \in [NodeNames -> Objects \cup {None}]
    /\ seenNodes \in [NodeNames -> Objects \cup {None}]
    /\ summary \in [Clusters -> Objects \cup {None}]
    /\ seenSummary \in [Links -> Objects \cup {None}]
    /\ kubelet \in [Links -> Resources \cup {None}]

(* Every version of a node, and every status to come, is one that the API  *)
(* server of its cluster has accepted or would.                            *)
AcceptedInv ==
    /\ NodesTypeOK
    /\ \A n \in NodeNames :
         /\ nodes[n] # None => Accepts(n[1], nodes[n].resources)
         /\ seenNodes[n] # None => Accepts(n[1], seenNodes[n].resources)
    /\ StatusAccepted

(* Every version of a node, be it real or virtual, and of a summary, is    *)
(* what it says that it is, and does not have too much.                    *)
HonestNode(n, node) ==
    node # None =>
        IF n \in RealNodes
        THEN node.labels["provider"] = None /\ node.resources.capacity = 1
        ELSE node.labels["provider"] = "admiralty" /\ node.resources.capacity <= Most(n[2])

HonestSummary(c, s) ==
    s # None => s.labels["provider"] = None /\ s.resources.capacity <= Most(c)

HonestInv ==
    /\ NodesTypeOK
    /\ \A n \in NodeNames : HonestNode(n, nodes[n]) /\ HonestNode(n, seenNodes[n])
    /\ \A c \in Clusters : HonestSummary(c, summary[c])
    /\ \A l \in Links :
         /\ HonestSummary(l[2], seenSummary[l])
         /\ kubelet[l] # None => kubelet[l].capacity <= Most(l[2])

(* Virtual nodes come to show what the target's real nodes have in sum,    *)
(* and the label if it is the same on all that have it and not excluded,   *)
(* whatever restarts, and if somebody deletes nodes or summaries.          *)
Advertised ==
    <>[](\A l \in Links :
           LET N == {n \in RealNodes : n[1] = l[2] /\ nodes[n] # None}
               zone == nodes[l].labels["zone"]
               shared == {z \in Zones \ Excluded :
                            /\ \E n \in N : nodes[n].labels["zone"] = z
                            /\ \A n \in N : nodes[n].labels["zone"] \in {z, None}}
           IN /\ nodes[l] # None
              /\ nodes[l].resources.capacity = Cardinality(N)
              /\ IF shared = {} THEN zone = None ELSE zone \in shared)
=============================================================================
