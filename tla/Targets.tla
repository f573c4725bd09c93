------------------------------- MODULE Targets -------------------------------
(***************************************************************************)
(* From the Targets and ClusterTargets that users declare to the           *)
(* configuration that runs: the agent and the proxy scheduler read it once *)
(* when they start (pkg/config/agent/agent.go), and the restarter          *)
(* (cmd/restarter, pkg/controllers/target/controller.go) rolls both        *)
(* deployments out when targets or their kubeconfig secrets change. It     *)
(* compares its caches with what it remembers of the last roll-out; the    *)
(* memory is lost when it restarts.                                        *)
(***************************************************************************)
EXTENDS Names

CONSTANTS
    Keys,         \* <<namespace, name>> of targets; ClusterTargets have no namespace
    Lasting,      \* targets that are never deleted
    Deployments,  \* the two deployments that read the configuration
    NewValues,    \* users never give an object back a value that it had before
    MaxEdits,     \* bound on the changes that users make
    MaxMishaps,   \* bound on failed patches and restarts
    None          \* no object, no memory, nothing being read

ASSUME TargetsAssumption ==
    /\ Lasting \subseteq Keys
    /\ NewValues \in BOOLEAN
    /\ MaxEdits \in Nat
    /\ MaxMishaps \in Nat

(* ClusterTargets have an empty namespace; no name is empty.               *)
ASSUME KeysAssumption ==
    /\ Keys \subseteq Seq(Words) \X (Seq(Words) \ {<<>>})
    /\ "admiralty" \in Words

Versions == 0..MaxEdits

(* A spec with self, or a reference to the kubeconfig secret of that key,  *)
(* or both, which is not valid; version stands for its other fields.       *)
Specs == [self: BOOLEAN, secret: BOOLEAN, version: Versions]

(* What users declare, and what the restarter remembers of it.             *)
Listings == [Keys -> Specs \cup {None}]
Contents == [Keys -> Versions \cup {None}]
Memories == [targetSpecs: Listings, kubeconfigSecretData: Contents]

(* Configurations of agents and schedulers.                                *)
Configs == UNION {[K -> [spec: Specs, kubeconfig: Versions \cup {None}]] : K \in SUBSET Keys}

ASSUME NoneAssumption ==
    /\ None \notin Specs
    /\ None \notin Versions
    /\ None \notin Listings
    /\ None \notin Memories

VARIABLES
    declared,      \* declared[k]: the spec of target k
    secrets,       \* secrets[k]: content of the secret that k refers to; 0 is not a kubeconfig
    seenDeclared,  \* the restarter's cached copy of declared
    seenSecrets,   \* the restarter's cached copy of secrets
    pending,       \* the restarter's work queue is not empty
    memory,        \* targetSpecs and kubeconfigSecretData of the restarter
    restarted,     \* restarted[d]: restartedAt of d is the current second
    rollout,       \* rollout[d]: pods of d are to be replaced
    reading,       \* reading[d]: what a starting pod of d has listed
    running,       \* running[d]: the configuration of the pods of d
    gone,          \* targets and secrets that were absent at some time
    edits,         \* changes by users so far
    mishaps        \* mishaps so far

objects == <<declared, secrets>>
restarter == <<seenDeclared, seenSecrets, pending, memory>>
deployments == <<restarted, rollout, reading, running>>
history == <<gone, edits>>
vars == <<objects, restarter, deployments, history, mishaps>>

-----------------------------------------------------------------------------
(* VirtualNodeName and Finalizer, by complete.                             *)
VirtualNodeName(k) == FromParts(Long, {1}, {2}, <<<<"admiralty">>, k[1], k[2]>>)
Finalizer(k) == FromParts(Short, {}, {1}, k)

(* A mistake: use a kubeconfig that is missing or not valid.               *)
LoadsAny(spec, data) == spec # None /\ spec.self # spec.secret

(* addTarget, addClusterTarget: targets that are not valid, or whose       *)
(* kubeconfig is missing or not valid, are left out.                       *)
Loads(spec, data) ==
    /\ spec # None
    /\ spec.self # spec.secret
    /\ spec.secret => data \notin {None, 0}

(* NewFromCRD, of targets D and secrets S.                                 *)
NewFromCRD(D, S) ==
    [k \in {j \in Keys : Loads(D[j], S[j])} |->
        [spec |-> D[k], kubeconfig |-> IF D[k].secret THEN S[k] ELSE None]]

(* The secret of k belongs to a target, as far as spec says.               *)
RefersToSecret(spec) == spec # None /\ spec.secret

(* A mistake: do not look into the secrets.                                *)
SpecsOnly(D, S) ==
    [targetSpecs |-> D, kubeconfigSecretData |-> [k \in Keys |-> None]]

(* What the restarter remembers of targets D and secrets S.                *)
Remembered(D, S) ==
    [targetSpecs |-> D,
     kubeconfigSecretData |-> [k \in Keys |-> IF RefersToSecret(D[k]) THEN S[k] ELSE None]]

-----------------------------------------------------------------------------
(* The restarter.                                                          *)

(* Events of targets are additions and updates, not deletions.             *)
SyncTarget(k) ==
    /\ seenDeclared[k] # declared[k]
    /\ seenDeclared' = [seenDeclared EXCEPT ![k] = declared[k]]
    /\ pending' = (pending \/ declared[k] # None)
    /\ UNCHANGED <<objects, seenSecrets, memory, deployments, history, mishaps>>

(* All events of a secret put the targets on the queue that refer to it.   *)
EnqueuesSecret(k) == RefersToSecret(seenDeclared[k])

SyncSecret(k) ==
    /\ seenSecrets[k] # secrets[k]
    /\ seenSecrets' = [seenSecrets EXCEPT ![k] = secrets[k]]
    /\ pending' = (pending \/ EnqueuesSecret(k))
    /\ UNCHANGED <<objects, seenDeclared, memory, deployments, history, mishaps>>

(* Every 30 seconds the informers report an update of every target.        *)
Resync ==
    /\ \E k \in Keys : seenDeclared[k] # None
    /\ ~pending
    /\ pending' = TRUE
    /\ UNCHANGED <<objects, seenDeclared, seenSecrets, memory, deployments, history,
                   mishaps>>

(* A merge patch of restartedAt, in seconds: pods are replaced if that     *)
(* changes the value.                                                      *)
Patch(P) ==
    /\ restarted' = [d \in Deployments |-> restarted[d] \/ d \in P]
    /\ rollout' = [d \in Deployments |-> rollout[d] \/ (d \in P /\ ~restarted[d])]

(* A mistake: remember a roll-out of which one part failed.                *)
RemembersAnyway(P, m) == TRUE

(* Both patches succeeded.                                                 *)
Remembers(P, m) == P = Deployments

(* The deployments that Handle patches, for a state m of the caches; it    *)
(* patches both at the same time, and either call can fail.                *)
MayPatch(P, m) == IF m = memory THEN P = {} ELSE P \subseteq Deployments

(* Handle, whatever the key. An error puts the key back, with back-off.    *)
Handle(P) ==
    LET m == Remembered(seenDeclared, seenSecrets) IN
    /\ pending
    /\ MayPatch(P, m)
    /\ Patch(P)
    /\ IF m = memory
       THEN UNCHANGED <<memory, mishaps>> /\ pending' = FALSE
       ELSE /\ memory' = IF Remembers(P, m) THEN m ELSE memory
            /\ pending' = ~Remembers(P, m)
            /\ P # Deployments => mishaps < MaxMishaps
            /\ mishaps' = IF P # Deployments THEN mishaps + 1 ELSE mishaps
    /\ UNCHANGED <<objects, seenDeclared, seenSecrets, reading, running, history>>

(* Another replica of the restarter leads, or the same after a crash.      *)
RestarterStarts ==
    /\ mishaps < MaxMishaps
    /\ mishaps' = mishaps + 1
    /\ seenDeclared' = declared
    /\ seenSecrets' = secrets
    /\ pending' = (\E k \in Keys : declared[k] # None)
    /\ memory' = None
    /\ UNCHANGED <<objects, deployments, history>>

-----------------------------------------------------------------------------
(* The deployments.                                                        *)

NextSecond ==
    /\ \E d \in Deployments : restarted[d]
    /\ restarted' = [d \in Deployments |-> FALSE]
    /\ UNCHANGED <<objects, restarter, rollout, reading, running, history, mishaps>>

(* A new pod lists the targets; its containers take more than a second to  *)
(* start.                                                                  *)
StartPod(d) ==
    /\ rollout[d]
    /\ ~restarted[d]
    /\ rollout' = [rollout EXCEPT ![d] = FALSE]
    /\ reading' = [reading EXCEPT ![d] = declared]
    /\ UNCHANGED <<objects, restarter, restarted, running, history, mishaps>>

(* A pod is evicted, or its process ends; the next one starts.             *)
LosePod(d) ==
    /\ mishaps < MaxMishaps
    /\ mishaps' = mishaps + 1
    /\ reading' = [reading EXCEPT ![d] = declared]
    /\ UNCHANGED <<objects, restarter, restarted, rollout, running, history>>

(* It then gets the secrets, and runs, or is elected leader and runs, with *)
(* the configuration that results.                                         *)
ReadSecrets(d) ==
    /\ reading[d] # None
    /\ running' = [running EXCEPT ![d] = NewFromCRD(reading[d], secrets)]
    /\ reading' = [reading EXCEPT ![d] = None]
    /\ UNCHANGED <<objects, restarter, restarted, rollout, history, mishaps>>

-----------------------------------------------------------------------------
(* Users.                                                                  *)
UserEdits == edits < MaxEdits /\ edits' = edits + 1

Declare(k, spec) ==
    /\ UserEdits
    /\ spec # declared[k]
    /\ NewValues => spec.version = edits + 1
    /\ declared' = [declared EXCEPT ![k] = spec]
    /\ UNCHANGED <<secrets, restarter, deployments, gone, mishaps>>

Undeclare(k) ==
    /\ k \notin Lasting
    /\ declared[k] # None
    /\ UserEdits
    /\ NewValues => <<"target", k>> \notin gone
    /\ declared' = [declared EXCEPT ![k] = None]
    /\ gone' = gone \cup {<<"target", k>>}
    /\ UNCHANGED <<secrets, restarter, deployments, mishaps>>

ChangeSecret(k, data) ==
    /\ UserEdits
    /\ data # secrets[k]
    /\ NewValues => IF data = None THEN <<"secret", k>> \notin gone ELSE data = edits + 1
    /\ secrets' = [secrets EXCEPT ![k] = data]
    /\ gone' = IF data = None THEN gone \cup {<<"secret", k>>} ELSE gone
    /\ UNCHANGED <<declared, restarter, deployments, mishaps>>

(* The targets that were there when the chart was installed.               *)
Init ==
    /\ declared \in [Keys -> {[self |-> FALSE, secret |-> TRUE, version |-> 0]}]
    /\ secrets = [k \in Keys |-> 0]
    /\ seenDeclared = declared
    /\ seenSecrets = secrets
    /\ pending = TRUE
    /\ memory = None
    /\ restarted = [d \in Deployments |-> FALSE]
    /\ rollout = [d \in Deployments |-> FALSE]
    /\ reading = [d \in Deployments |-> None]
    /\ running = [d \in Deployments |-> NewFromCRD(declared, secrets)]
    /\ gone = {}
    /\ edits = 0
    /\ mishaps = 0

Next ==
    \/ \E k \in Keys :
         \/ SyncTarget(k) \/ SyncSecret(k)
         \/ \E spec \in Specs : Declare(k, spec)
         \/ Undeclare(k)
         \/ \E data \in Versions \cup {None} : ChangeSecret(k, data)
    \/ Resync \/ NextSecond \/ RestarterStarts
    \/ \E P \in SUBSET Deployments : Handle(P)
    \/ \E d \in Deployments : StartPod(d) \/ ReadSecrets(d) \/ LosePod(d)

Spec == Init /\ [][Next]_vars

(* Informers deliver events and resync, the queue retries, time passes,    *)
(* and Kubernetes rolls deployments out.                                   *)
Fairness ==
    /\ \A k \in Keys : WF_vars(SyncTarget(k)) /\ WF_vars(SyncSecret(k))
    /\ WF_vars(Resync)
    /\ WF_vars(\E P \in SUBSET Deployments : Handle(P))
    /\ WF_vars(NextSecond)
    /\ \A d \in Deployments : WF_vars(StartPod(d)) /\ WF_vars(ReadSecrets(d))

FairSpec == Spec /\ Fairness

-----------------------------------------------------------------------------
(* The configuration that the users' latest changes ask for.               *)
Wanted == NewFromCRD(declared, secrets)

(* Specs and secrets, their copies in caches and memory are well formed,   *)
(* and pods run with valid targets only, whose kubeconfigs are usable.     *)
TypeOK ==
    /\ declared \in Listings /\ seenDeclared \in Listings
    /\ secrets \in Contents /\ seenSecrets \in Contents
    /\ pending \in BOOLEAN
    /\ memory \in Memories \cup {None}
    /\ restarted \in [Deployments -> BOOLEAN]
    /\ rollout \in [Deployments -> BOOLEAN]
    /\ reading \in [Deployments -> Listings \cup {None}]
    /\ running \in [Deployments -> Configs]
    /\ \A d \in Deployments : \A k \in DOMAIN running[d] :
         /\ running[d][k].spec.secret = ~running[d][k].spec.self
         /\ running[d][k].kubeconfig \in
              IF running[d][k].spec.self THEN {None} ELSE Versions \ {0}
    /\ gone \subseteq {"target", "secret"} \X Keys
    /\ edits \in 0..MaxEdits /\ mishaps \in 0..MaxMishaps

(* Targets that run at the same time have virtual nodes and finalizers of  *)
(* their own, ClusterTarget a-b and Target b of namespace a too.           *)
NamesDistinct ==
    \A d \in Deployments : \A j, k \in DOMAIN running[d] :
        j # k => VirtualNodeName(j) # VirtualNodeName(k) /\ Finalizer(j) # Finalizer(k)

(* When the restarter has nothing to do and believes that its last         *)
(* roll-out was for what is declared now, every pod that is not about to   *)
(* be replaced runs that: changes between the roll-out and the moment a    *)
(* pod reads, in part or in whole, are not lost.                           *)
MemorySound ==
    memory = Remembered(declared, secrets) =>
        \A d \in Deployments :
            \/ rollout[d]
            \/ reading[d] # None
            \/ running[d] = Wanted

(* A copy of the spec or the secret of k is of an edit that was made, and  *)
(* says that there is none only if there was none once.                    *)
PastSpec(spec, k) ==
    IF spec = None THEN <<"target", k>> \in gone ELSE spec.version <= edits
PastSecret(data, k) ==
    IF data = None THEN <<"secret", k>> \in gone ELSE data <= edits

CopiesPast ==
    \A k \in Keys :
        /\ PastSpec(declared[k], k) /\ PastSpec(seenDeclared[k], k)
        /\ PastSecret(secrets[k], k) /\ PastSecret(seenSecrets[k], k)
        /\ memory # None =>
             /\ PastSpec(memory.targetSpecs[k], k)
             /\ RefersToSecret(memory.targetSpecs[k]) =>
                    PastSecret(memory.kubeconfigSecretData[k], k)

(* A patch that would change nothing finds the roll-out still to be done.  *)
PatchedRollsOut == \A d \in Deployments : restarted[d] => rollout[d]

(* While the restarter remembers what is declared now, pods that are not   *)
(* to be replaced read, or have read, just that.                           *)
PodsCurrent ==
    memory = Remembered(declared, secrets) =>
        \A d \in Deployments :
            \/ rollout[d]
            \/ reading[d] = declared
            \/ reading[d] = None /\ running[d] = Wanted

(* Inductive if users do not go back to earlier values.                    *)
MemoryInv ==
    /\ TypeOK
    /\ CopiesPast
    /\ PatchedRollsOut
    /\ PodsCurrent

(* The agent and the scheduler come to run what is declared, whatever      *)
(* patches fail, restarts of the restarter included.                       *)
ConfigConverges == <>[](\A d \in Deployments : running[d] = Wanted)
=============================================================================
