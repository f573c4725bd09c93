------------------------------- MODULE Sources -------------------------------
(***************************************************************************)
(* Access of source clusters to a target cluster: the source controller    *)
(* (pkg/controllers/source/controller.go) gives the user and the service   *)
(* account that a Source or ClusterSource names a role binding and a       *)
(* binding of the cluster summary viewer role. It runs in the controller   *)
(* framework (pkg/controller): keys of sources on a work queue, one        *)
(* worker, caches that lag, calls that fail. The garbage collector of      *)
(* Kubernetes deletes what has an owner that is gone.                      *)
(***************************************************************************)
EXTENDS Names

CONSTANTS
    Keys,        \* <<namespace, name>> of sources; ClusterSources have no namespace
    Declared,    \* sources that are there when the agent starts
    UserMade,    \* sources whose service account users made before
    Users,       \* names of users
    MaxEdits,    \* bound on the changes that users make
    MaxMishaps,  \* bound on failed calls and restarts
    None         \* no object, no work, no user

ASSUME SourcesAssumption ==
    /\ Declared \subseteq Keys
    /\ UserMade \subseteq Keys
    /\ None \notin Users
    /\ MaxEdits \in Nat
    /\ MaxMishaps \in Nat

(* ClusterSources have an empty namespace; no name is empty.               *)
ASSUME KeysAssumption ==
    /\ Keys \subseteq Seq(Words) \X (Seq(Words) \ {<<>>})
    /\ {"source", "cluster-source", "viewer"} \subseteq Words

ClusterScoped(k) == k[1] = <<>>

(* The role of source clusters, and the one that may read ClusterSummaries *)
Roles == {"source", "cluster-summary-viewer"}

(* What a source names: a user, or its service account, both or none.      *)
Specs == [user: Users \cup {None}, account: BOOLEAN]

(* A mistake: one prefix for sources of both kinds.                        *)
OnePrefix(k) == <<"source">>

(* Binding objects: their namespaces and names.                            *)
Prefix(k) == IF ClusterScoped(k) THEN <<"cluster-source">> ELSE <<"source">>

SourceBinding(k) ==
    [namespace |-> k[1], name |-> FromParts(Long, {1}, {}, <<Prefix(k), k[2]>>)]

ViewerBinding(k) ==
    [namespace |-> <<>>,
     name |-> IF ClusterScoped(k)
              THEN FromParts(Long, {1, 3}, {}, <<Prefix(k), k[2], <<"viewer">>>>)
              ELSE FromParts(Long, {1, 4}, {}, <<Prefix(k), k[1], k[2], <<"viewer">>>>)]

BindingOf(role, k) == IF role = "source" THEN SourceBinding(k) ELSE ViewerBinding(k)

BindingNames == {BindingOf(role, k) : role \in Roles, k \in Keys}

VARIABLES
    sources,       \* sources[k]: spec and uid of a source
    accounts,      \* accounts[k]: owner of the service account that k may name, or None
    bindings,      \* bindings[b]: a role binding or cluster role binding
    seenSources,   \* the agent's cached copies of these
    seenAccounts,
    seenBindings,
    queue,         \* keys on the work queue
    work,          \* the key being handled, what was read of its source, and the next call
    edits,         \* changes by users so far
    mishaps        \* mishaps so far

objects == <<sources, accounts, bindings>>
caches == <<seenSources, seenAccounts, seenBindings>>
vars == <<objects, caches, queue, work, edits, mishaps>>

(* Owners of accounts and bindings: a source, or nobody, if users made it. *)
Self == [key |-> None, uid |-> 0]

Owner(k, src) == [key |-> k, uid |-> src.uid]
IsGone(owner) ==
    /\ owner # Self
    /\ sources[owner.key] # None => sources[owner.key].uid # owner.uid

-----------------------------------------------------------------------------
(* The work queue: processNextWorkItem, with one worker.                   *)
Begin(k) ==
    /\ work = None
    /\ k \in queue
    /\ queue' = queue \ {k}
    /\ work' = IF seenSources[k] = None THEN None
               ELSE [key |-> k, source |-> seenSources[k], call |-> "account"]
    /\ UNCHANGED <<objects, caches, edits, mishaps>>

(* The handler goes on with its next call.                                 *)
Continue(call) == work' = [work EXCEPT !.call = call] /\ UNCHANGED queue

Done == work' = None /\ UNCHANGED queue

(* An error: the key goes back on the queue, after some time.              *)
Retry == work' = None /\ queue' = queue \cup {work.key}

(* EnqueueController: events of an object put its owner on the queue, if   *)
(* the cache has it in the namespace of the object.                        *)
Enqueues(owner, namespace) ==
    {k \in Keys : k = owner.key /\ k[1] = namespace /\ seenSources[k] # None}

-----------------------------------------------------------------------------
(* Handle. The first two calls are about the source role and the service   *)
(* account, which is created in the namespace of the source: there is no   *)
(* such namespace for ClusterSources and the call fails.                   *)
Working(call) == work # None /\ work.call = call

NamesSomeone(spec) == spec.user # None \/ spec.account

EnsureAccount ==
    /\ Working("account")
    /\ \/ /\ work.source.spec.account => seenAccounts[work.key] # None
          /\ UNCHANGED accounts
          /\ IF NamesSomeone(work.source.spec) THEN Continue("source") ELSE Done
       \/ /\ work.source.spec.account /\ seenAccounts[work.key] = None
          /\ accounts[work.key] = None /\ ~ClusterScoped(work.key)
          /\ accounts' = [accounts EXCEPT ![work.key] = Owner(work.key, work.source)]
          /\ Continue("source")
       \/ /\ work.source.spec.account /\ seenAccounts[work.key] = None
          /\ accounts[work.key] # None \/ ClusterScoped(work.key)
          /\ UNCHANGED accounts
          /\ Retry
    /\ UNCHANGED <<sources, bindings, caches, edits, mishaps>>

(* makeSubjects; the account is known by the source that it is for.        *)
MakeSubjects(k, spec) ==
    (IF spec.account THEN {<<"ServiceAccount", k>>} ELSE {})
      \cup (IF spec.user # None THEN {<<"User", spec.user>>} ELSE {})

(* A mistake: bindings that are there are good.                            *)
IsThere(binding, subjects) == TRUE

HasSubjects(binding, subjects) == binding.subjects = subjects

(* A mistake: nobody owns the bindings.                                    *)
NoOwner(k, src, role) ==
    [role |-> role, subjects |-> MakeSubjects(k, src.spec), owner |-> Self]

MakeBinding(k, src, role) ==
    [role |-> role, subjects |-> MakeSubjects(k, src.spec), owner |-> Owner(k, src)]

(* ensureRoleBinding, ensureClusterRoleBinding. Creation fails if there is *)
(* an object with this name, updates if the cached one is not the latest.  *)
EnsureBinding(role) ==
    LET b == BindingOf(role, work.key)
        subjects == MakeSubjects(work.key, work.source.spec)
        Next == IF role = "source" THEN Continue("cluster-summary-viewer") ELSE Done
    IN
    /\ Working(role)
    /\ \/ /\ seenBindings[b] = None /\ bindings[b] = None
          /\ bindings' = [bindings EXCEPT ![b] = MakeBinding(work.key, work.source, role)]
          /\ Next
       \/ /\ seenBindings[b] # None /\ HasSubjects(seenBindings[b], subjects)
          /\ UNCHANGED bindings
          /\ Next
       \/ /\ seenBindings[b] # None /\ ~HasSubjects(seenBindings[b], subjects)
          /\ seenBindings[b] = bindings[b]
          /\ bindings' = [bindings EXCEPT ![b].subjects = subjects]
          /\ Next
       \/ /\ seenBindings[b] # bindings[b]
          /\ seenBindings[b] # None => ~HasSubjects(seenBindings[b], subjects)
          /\ UNCHANGED bindings
          /\ Retry
    /\ UNCHANGED <<sources, accounts, caches, edits, mishaps>>

-----------------------------------------------------------------------------
(* Informers. Sources report additions and updates, other objects all      *)
(* events.                                                                 *)
SyncSource(k) ==
    /\ seenSources[k] # sources[k]
    /\ seenSources' = [seenSources EXCEPT ![k] = sources[k]]
    /\ queue' = IF sources[k] = None THEN queue ELSE queue \cup {k}
    /\ UNCHANGED <<objects, seenAccounts, seenBindings, work, edits, mishaps>>

SyncAccount(k) ==
    /\ seenAccounts[k] # accounts[k]
    /\ seenAccounts' = [seenAccounts EXCEPT ![k] = accounts[k]]
    /\ queue' = queue \cup
         UNION {Enqueues(owner, k[1]) : owner \in {seenAccounts[k], accounts[k]} \ {None}}
    /\ UNCHANGED <<objects, seenSources, seenBindings, work, edits, mishaps>>

(* The viewer binding of a Source has no namespace: its owner is not found *)
SyncBinding(b) ==
    /\ seenBindings[b] # bindings[b]
    /\ seenBindings' = [seenBindings EXCEPT ![b] = bindings[b]]
    /\ queue' = queue \cup
         UNION {Enqueues(binding.owner, b.namespace) :
                  binding \in {seenBindings[b], bindings[b]} \ {None}}
    /\ UNCHANGED <<objects, seenSources, seenAccounts, work, edits, mishaps>>

(* Every 30 seconds informers report every source as updated.              *)
Resync(k) ==
    /\ seenSources[k] # None
    /\ k \notin queue
    /\ queue' = queue \cup {k}
    /\ UNCHANGED <<objects, caches, work, edits, mishaps>>

(* The garbage collector. An owner reference from an object without        *)
(* namespace to one in a namespace cannot be resolved and is left alone.   *)
Collectable(owner, namespace) == IsGone(owner) /\ owner.key[1] = namespace

CollectAccount(k) ==
    /\ accounts[k] # None
    /\ Collectable(accounts[k], k[1])
    /\ accounts' = [accounts EXCEPT ![k] = None]
    /\ UNCHANGED <<sources, bindings, caches, queue, work, edits, mishaps>>

CollectBinding(b) ==
    /\ bindings[b] # None
    /\ Collectable(bindings[b].owner, b.namespace)
    /\ bindings' = [bindings EXCEPT ![b] = None]
    /\ UNCHANGED <<sources, accounts, caches, queue, work, edits, mishaps>>

-----------------------------------------------------------------------------
(* Users.                                                                  *)
UserEdits == edits < MaxEdits /\ edits' = edits + 1

Declare(k, spec) ==
    /\ UserEdits
    /\ sources[k] # None => sources[k].spec # spec
    /\ sources' = [sources EXCEPT ![k] =
         [spec |-> spec, uid |-> IF sources[k] = None THEN edits + 1 ELSE sources[k].uid]]
    /\ UNCHANGED <<accounts, bindings, caches, queue, work, mishaps>>

Undeclare(k) ==
    /\ sources[k] # None
    /\ UserEdits
    /\ sources' = [sources EXCEPT ![k] = None]
    /\ UNCHANGED <<accounts, bindings, caches, queue, work, mishaps>>

DeleteAccount(k) ==
    /\ accounts[k] # None
    /\ UserEdits
    /\ accounts' = [accounts EXCEPT ![k] = None]
    /\ UNCHANGED <<sources, bindings, caches, queue, work, mishaps>>

DeleteBinding(b) ==
    /\ bindings[b] # None
    /\ UserEdits
    /\ bindings' = [bindings EXCEPT ![b] = None]
    /\ UNCHANGED <<sources, accounts, caches, queue, work, mishaps>>

(* A call fails, whichever it is.                                          *)
CallFails ==
    /\ work # None
    /\ mishaps < MaxMishaps
    /\ mishaps' = mishaps + 1
    /\ Retry
    /\ UNCHANGED <<objects, caches, edits>>

(* The agent restarts, or another replica leads.                           *)
AgentStarts ==
    /\ mishaps < MaxMishaps
    /\ mishaps' = mishaps + 1
    /\ seenSources' = sources
    /\ seenAccounts' = accounts
    /\ seenBindings' = bindings
    /\ queue' = {k \in Keys : sources[k] # None}
    /\ work' = None
    /\ UNCHANGED <<objects, edits>>

(* The agent starts for the first time.                                    *)
Init ==
    /\ sources = [k \in Keys |-> IF k \in Declared
         THEN [spec |-> [user |-> None, account |-> TRUE], uid |-> 0] ELSE None]
    /\ accounts = [k \in Keys |-> IF k \in UserMade THEN Self ELSE None]
    /\ bindings = [b \in BindingNames |-> None]
    /\ seenSources = sources
    /\ seenAccounts = accounts
    /\ seenBindings = bindings
    /\ queue = Declared
    /\ work = None
    /\ edits = 0
    /\ mishaps = 0

Collect ==
    \/ \E k \in Keys : CollectAccount(k)
    \/ \E b \in BindingNames : CollectBinding(b)

UserStep ==
    \/ \E k \in Keys :
         \/ \E spec \in Specs : Declare(k, spec)
         \/ Undeclare(k) \/ DeleteAccount(k)
    \/ \E b \in BindingNames : DeleteBinding(b)

Handle == EnsureAccount \/ \E role \in Roles : EnsureBinding(role)

Next ==
    \/ \E k \in Keys : Begin(k) \/ SyncSource(k) \/ SyncAccount(k) \/ Resync(k)
    \/ \E b \in BindingNames : SyncBinding(b)
    \/ Handle \/ Collect \/ UserStep \/ CallFails \/ AgentStarts

Spec == Init /\ [][Next]_vars

(* Informers deliver events and resync, the worker takes every key that is *)
(* on the queue and ends, and the garbage collector works.                 *)
Fairness ==
    /\ \A k \in Keys :
         /\ SF_vars(Begin(k))
         /\ WF_vars(SyncSource(k))
         /\ WF_vars(SyncAccount(k))
         /\ WF_vars(Resync(k))
    /\ \A b \in BindingNames : WF_vars(SyncBinding(b))
    /\ WF_vars(Handle)
    /\ \A k \in Keys : WF_vars(CollectAccount(k))
    /\ \A b \in BindingNames : WF_vars(CollectBinding(b))

FairSpec == Spec /\ Fairness

-----------------------------------------------------------------------------
(* The service accounts in a binding are of the source that owns it, and   *)
(* it has the role of its name: sources whose names read the same, such as *)
(* ClusterSource a-b and Source b of namespace a, never share a binding,   *)
(* which would go, or change, with the other source. And no role is bound  *)
(* to nobody.                                                              *)
OwnSubjects ==
    \A b \in BindingNames :
        bindings[b] # None =>
            LET k == bindings[b].owner.key IN
            /\ bindings[b].subjects # {}
            /\ \A j \in Keys : <<"ServiceAccount", j>> \in bindings[b].subjects => j = k
            /\ bindings[b].role # "source" => b = ViewerBinding(k)

(* No ClusterSource has the name by which the viewer binding of another    *)
(* one would be taken for its source binding.                              *)
NoViewerNames ==
    \A j, k \in Keys :
        ClusterScoped(j) /\ ClusterScoped(k) => j[2] # k[2] \o <<"viewer">>

(* Sources, and bindings with their owners, as the API server has them.    *)
SourceObjects == [spec: Specs, uid: Nat]
Bindings ==
    [role: Roles, owner: [key: Keys \cup {None}, uid: Nat],
     subjects: SUBSET (({"ServiceAccount"} \X Keys) \cup ({"User"} \X Users))]

(* Binding b is one of source k: by its name, its role and its owner, and  *)
(* the service account in it, if there is one.                             *)
IsBindingOf(b, role, k) ==
    /\ b = BindingOf(role, k)
    /\ bindings[b].role = role
    /\ bindings[b].owner.key = k
    /\ bindings[b].subjects # {}
    /\ \A j \in Keys : <<"ServiceAccount", j>> \in bindings[b].subjects => j = k

(* Inductive if no two bindings have the same name.                        *)
BindingsInv ==
    /\ sources \in [Keys -> SourceObjects \cup {None}]
    /\ seenSources \in [Keys -> SourceObjects \cup {None}]
    /\ bindings \in [BindingNames -> Bindings \cup {None}]
    /\ edits \in Nat
    /\ work # None =>
         /\ work \in [key: Keys, source: SourceObjects, call: {"account"} \cup Roles]
         /\ work.call # "account" => NamesSomeone(work.source.spec)
    /\ \A b \in BindingNames :
         bindings[b] # None => \E k \in Keys, role \in Roles : IsBindingOf(b, role, k)

(* A binding of one of the roles to exactly what the source names.         *)
Granted(k, role) ==
    /\ bindings[BindingOf(role, k)] # None
    /\ bindings[BindingOf(role, k)].role = role
    /\ bindings[BindingOf(role, k)].subjects = MakeSubjects(k, sources[k].spec)

(* Whoever a source names, whose service account is there, comes to have   *)
(* both roles, and nobody else has them through it; calls may fail half    *)
(* way, bindings be deleted, and sources be replaced by others of the same *)
(* name while their bindings are collected.                                *)
AccessGranted ==
    <>[](\A k \in Keys :
           (/\ sources[k] # None
            /\ NamesSomeone(sources[k].spec)
            /\ sources[k].spec.account => accounts[k] # None)
           => \A role \in Roles : Granted(k, role))

(* When a source is deleted, even while it is being handled, its source    *)
(* role goes, and the viewer role too if it is a ClusterSource.            *)
AccessRevoked ==
    <>[](\A k \in Keys :
           sources[k] = None =>
               /\ bindings[SourceBinding(k)] = None
               /\ ClusterScoped(k) => bindings[ViewerBinding(k)] = None)

(* "If the referred service account doesn't exist, it is created."         *)
AccountsMade ==
    <>[](\A k \in Keys :
           sources[k] # None /\ sources[k].spec.account => accounts[k] # None)
=============================================================================
