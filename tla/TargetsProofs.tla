---------------------------- MODULE TargetsProofs ----------------------------
(***************************************************************************)
(* Proofs about targets, their names and the restarter, for every set of   *)
(* targets and every bound. Names: see NamesProofs. The restarter's memory *)
(* is sound if users do not go back to earlier values (NewValues): then    *)
(* memory, which is made of copies that were current once (CopiesPast),    *)
(* cannot become current by a change of the user's, but only by a roll-out *)
(* of what is declared, after which pods start and read (PodsCurrent).     *)
(***************************************************************************)
EXTENDS Targets, NamesProofs

(* The two parts of a key.                                                 *)
LEMMA KeyParts ==
    ASSUME NEW k \in Keys
    PROVE  /\ k[1] \in Seq(Words) /\ k[2] \in Seq(Words) /\ k[2] # <<>>
           /\ k = <<k[1], k[2]>>
BY KeysAssumption

(* Targets with the same virtual node are the same.                        *)
LEMMA VirtualNodeNameInjective ==
    ASSUME NEW j \in Keys, NEW k \in Keys, VirtualNodeName(j) = VirtualNodeName(k)
    PROVE  j = k
<1> DEFINE w == <<"admiralty">>
<1>0. w \in Seq(Words)
  BY KeysAssumption
<1>1. FromParts(Long, {1}, {2}, <<w, j[1], j[2]>>) = FromParts(Long, {1}, {2}, <<w, k[1], k[2]>>)
  BY DEF VirtualNodeName
<1> HIDE DEF w
<1>2. /\ j[1] \in Seq(Words) /\ j[2] \in Seq(Words) /\ j[2] # <<>>
      /\ k[1] \in Seq(Words) /\ k[2] \in Seq(Words) /\ k[2] # <<>>
  BY KeyParts
<1>3. j[1] = k[1] /\ j[2] = k[2]
  <2> DEFINE a == j[1]  b == j[2]  c == k[1]  d == k[2]
  <2> HIDE DEF a, b, c, d
  <2>1. a = c /\ b = d
    BY <1>0, <1>1, <1>2, ReadBack3 DEF a, b, c, d
  <2>. QED
    BY <2>1 DEF a, b, c, d
<1>. QED
  BY <1>3, KeyParts, Zenon

(* Targets with the same finalizer are the same.                           *)
LEMMA FinalizerInjective ==
    ASSUME NEW j \in Keys, NEW k \in Keys, Finalizer(j) = Finalizer(k)
    PROVE  j = k
<1>1. FromParts(Short, {}, {1}, <<j[1], j[2]>>) = FromParts(Short, {}, {1}, <<k[1], k[2]>>)
  BY KeyParts, Zenon DEF Finalizer
<1>2. /\ j[1] \in Seq(Words) /\ j[2] \in Seq(Words) /\ j[2] # <<>>
      /\ k[1] \in Seq(Words) /\ k[2] \in Seq(Words) /\ k[2] # <<>>
  BY KeyParts
<1>3. j[1] = k[1] /\ j[2] = k[2]
  BY <1>1, <1>2, ReadBack2
<1>. QED
  BY <1>3, KeyParts, Zenon

-----------------------------------------------------------------------------
(* What loading and remembering make of what is listed.                    *)
LEMMA NewFromCRDType ==
    ASSUME NEW D \in Listings, NEW S \in Contents
    PROVE  /\ NewFromCRD(D, S) \in Configs
           /\ \A k \in DOMAIN NewFromCRD(D, S) :
                LET target == NewFromCRD(D, S)[k] IN
                /\ target.spec.secret = ~target.spec.self
                /\ target.kubeconfig \in
                     IF target.spec.self THEN {None} ELSE Versions \ {0}
<1> DEFINE K == {j \in Keys : Loads(D[j], S[j])}
           f == NewFromCRD(D, S)
<1>1. ASSUME NEW k \in K
      PROVE  /\ D[k] \in Specs
             /\ D[k].secret = ~D[k].self
             /\ D[k].secret => S[k] \in Versions \ {0}
             /\ S[k] \in Versions \cup {None}
  BY DEF Listings, Contents, Loads, Specs
<1>2. DOMAIN f = K /\ f = [k \in K |-> f[k]]
  BY DEF NewFromCRD
<1>3. ASSUME NEW k \in K
      PROVE  /\ f[k].spec = D[k]
             /\ f[k].kubeconfig = IF D[k].secret THEN S[k] ELSE None
             /\ f[k] \in [spec: Specs, kubeconfig: Versions \cup {None}]
  BY <1>1 DEF NewFromCRD
<1> HIDE DEF f
<1>4. f \in [K -> [spec: Specs, kubeconfig: Versions \cup {None}]]
  BY <1>2, <1>3
<1>5. f \in Configs
  BY <1>4 DEF Configs
<1>6. ASSUME NEW k \in DOMAIN f
      PROVE  /\ f[k].spec.secret = ~f[k].spec.self
             /\ f[k].kubeconfig \in IF f[k].spec.self THEN {None} ELSE Versions \ {0}
  BY <1>1, <1>2, <1>3 DEF Specs
<1>. QED
  BY <1>5, <1>6 DEF f

(* What the restarter remembers is well formed.                            *)
LEMMA RememberedType ==
    ASSUME NEW D \in Listings, NEW S \in Contents
    PROVE  /\ Remembered(D, S) \in Memories
           /\ Remembered(D, S).targetSpecs = D
           /\ \A k \in Keys :
                RefersToSecret(D[k]) => Remembered(D, S).kubeconfigSecretData[k] = S[k]
BY DEF Remembered, Memories, Listings, Contents

(* Every pod of configuration c has valid targets with usable kubeconfigs. *)
IsUsable(c) ==
    /\ c \in Configs
    /\ \A k \in DOMAIN c :
         /\ c[k].spec.secret = ~c[k].spec.self
         /\ c[k].kubeconfig \in IF c[k].spec.self THEN {None} ELSE Versions \ {0}

(* Targets that are loaded are valid and have a usable kubeconfig.         *)
LEMMA NewFromCRDUsable ==
    ASSUME NEW D \in Listings, NEW S \in Contents
    PROVE  IsUsable(NewFromCRD(D, S))
BY NewFromCRDType DEF IsUsable

(* The initial states are well formed.                                     *)
LEMMA TypeInit == Init => TypeOK
<1>. SUFFICES ASSUME Init PROVE TypeOK
  OBVIOUS
<1> DEFINE first == [self |-> FALSE, secret |-> TRUE, version |-> 0]
<1>0. first \in Specs /\ 0 \in Versions
  BY TargetsAssumption DEF Specs, Versions
<1>1. declared \in Listings /\ secrets \in Contents
  <2>1. declared \in [Keys -> {first}] /\ secrets = [k \in Keys |-> 0]
    BY DEF Init
  <2> HIDE DEF first
  <2>. QED
    BY <1>0, <2>1 DEF Listings, Contents
<1>2. IsUsable(NewFromCRD(declared, secrets))
  BY <1>1, NewFromCRDUsable
<1>3. /\ running \in [Deployments -> Configs]
      /\ \A d \in Deployments : IsUsable(running[d])
  BY <1>2 DEF Init, IsUsable
<1>. QED
  BY <1>1, <1>3, TargetsAssumption DEF Init, TypeOK, IsUsable

(* Every step keeps all variables well formed.                             *)
LEMMA TypeNext == TypeOK /\ [Next]_vars => TypeOK'
<1>. SUFFICES ASSUME TypeOK, [Next]_vars PROVE TypeOK'
  OBVIOUS
<1> USE DEF history, restarter, deployments, objects
<1>1. ASSUME NEW k \in Keys, SyncTarget(k) PROVE TypeOK'
  BY <1>1 DEF SyncTarget, TypeOK, Listings
<1>2. ASSUME NEW k \in Keys, SyncSecret(k) PROVE TypeOK'
  BY <1>2 DEF SyncSecret, TypeOK, Contents, EnqueuesSecret, RefersToSecret
<1>3. ASSUME NEW k \in Keys, NEW spec \in Specs, Declare(k, spec) PROVE TypeOK'
  BY <1>3, TargetsAssumption DEF Declare, UserEdits, TypeOK, Listings
<1>4. ASSUME NEW k \in Keys, Undeclare(k) PROVE TypeOK'
  BY <1>4, TargetsAssumption DEF Undeclare, UserEdits, TypeOK, Listings
<1>5. ASSUME NEW k \in Keys, NEW data \in Versions \cup {None}, ChangeSecret(k, data)
      PROVE  TypeOK'
  BY <1>5, TargetsAssumption DEF ChangeSecret, UserEdits, TypeOK, Contents
<1>6. CASE Resync
  BY <1>6 DEF Resync, TypeOK
<1>7. CASE NextSecond
  BY <1>7 DEF NextSecond, TypeOK
<1>8. CASE RestarterStarts
  BY <1>8, TargetsAssumption DEF RestarterStarts, TypeOK
<1>9. ASSUME NEW P \in SUBSET Deployments, Handle(P) PROVE TypeOK'
  <2>1. Remembered(seenDeclared, seenSecrets) \in Memories
    BY RememberedType DEF TypeOK
  <2>2. /\ restarted' \in [Deployments -> BOOLEAN]
        /\ rollout' \in [Deployments -> BOOLEAN]
    BY <1>9 DEF Handle, Patch, TypeOK
  <2>3. memory' \in Memories \cup {None} /\ pending' \in BOOLEAN
    BY <1>9, <2>1 DEF Handle, Remembers, TypeOK
  <2>4. mishaps' \in 0..MaxMishaps
    BY <1>9, TargetsAssumption DEF Handle, TypeOK
  <2>. QED
    BY <1>9, <2>2, <2>3, <2>4 DEF Handle, TypeOK
<1>10. ASSUME NEW d \in Deployments, StartPod(d) PROVE TypeOK'
  BY <1>10 DEF StartPod, TypeOK
<1>11. ASSUME NEW d \in Deployments, ReadSecrets(d) PROVE TypeOK'
  <2>1. IsUsable(NewFromCRD(reading[d], secrets))
    BY <1>11, NewFromCRDUsable DEF ReadSecrets, TypeOK
  <2>2. /\ running' = [running EXCEPT ![d] = NewFromCRD(reading[d], secrets)]
        /\ \A e \in Deployments : IsUsable(running[e])
        /\ running \in [Deployments -> Configs]
    BY <1>11 DEF ReadSecrets, TypeOK, IsUsable
  <2>3. \A e \in Deployments : IsUsable(running'[e])
    BY <2>1, <2>2
  <2>4. running' \in [Deployments -> Configs]
    BY <2>1, <2>2 DEF IsUsable
  <2>5. reading' \in [Deployments -> Listings \cup {None}]
    BY <1>11 DEF ReadSecrets, TypeOK
  <2>. QED
    BY <1>11, <2>3, <2>4, <2>5 DEF ReadSecrets, TypeOK, IsUsable
<1>12. ASSUME NEW d \in Deployments, LosePod(d) PROVE TypeOK'
  BY <1>12, TargetsAssumption DEF LosePod, TypeOK
<1>13. CASE UNCHANGED vars
  BY <1>13 DEF vars, TypeOK
<1>. QED
  BY <1>1, <1>2, <1>3, <1>4, <1>5, <1>6, <1>7, <1>8, <1>9, <1>10, <1>11, <1>12, <1>13
  DEF Next

(* Whatever users declare, at any time, and whatever fails, the agent and  *)
(* the scheduler run with valid targets whose kubeconfigs were usable when *)
(* they were read (addTarget, addClusterTarget).                           *)
THEOREM TypeCorrect == Spec => []TypeOK
BY TypeInit, TypeNext, PTL DEF Spec

(* Whatever targets users name, and whatever the limits on names are,      *)
(* targets that run together have virtual nodes and finalizers of their    *)
(* own (complete in pkg/config/agent/agent.go).                            *)
THEOREM NamesAreDistinct == Spec => []NamesDistinct
<1>1. TypeOK => NamesDistinct
  <2>. SUFFICES ASSUME TypeOK,
                       NEW d \in Deployments,
                       NEW j \in DOMAIN running[d], NEW k \in DOMAIN running[d], j # k
                PROVE  VirtualNodeName(j) # VirtualNodeName(k) /\ Finalizer(j) # Finalizer(k)
    BY DEF NamesDistinct
  <2>1. j \in Keys /\ k \in Keys
    BY DEF TypeOK, Configs
  <2>. QED
    BY <2>1, VirtualNodeNameInjective, FinalizerInjective
<1>. QED
  BY <1>1, TypeCorrect, PTL

-----------------------------------------------------------------------------
(* The restarter's memory, if users do not go back to earlier values.      *)

(* The parts of MemoryInv hold initially.                                  *)
LEMMA PastInit == Init => CopiesPast /\ PatchedRollsOut /\ PodsCurrent
<1>. SUFFICES ASSUME Init PROVE CopiesPast /\ PatchedRollsOut /\ PodsCurrent
  OBVIOUS
<1>0. TypeOK
  BY TypeInit
<1>1. CopiesPast
  <2>1. ASSUME NEW k \in Keys
        PROVE  declared[k].version = 0 /\ declared[k] # None /\ secrets[k] = 0 /\ secrets[k] # None
    <3>1. declared[k] = [self |-> FALSE, secret |-> TRUE, version |-> 0] /\ secrets[k] = 0
      BY DEF Init
    <3>2. declared[k] \in Specs /\ secrets[k] \in Versions
      BY <3>1, TargetsAssumption DEF Specs, Versions
    <3>3. declared[k] # None /\ secrets[k] # None
      BY <3>2, NoneAssumption, Zenon
    <3>. QED
      BY <3>1, <3>3
  <2>. QED
    BY <2>1 DEF Init, CopiesPast, PastSpec, PastSecret
<1>2. PatchedRollsOut
  BY DEF Init, PatchedRollsOut
<1>3. PodsCurrent
  BY <1>0, RememberedType, NoneAssumption DEF Init, PodsCurrent, TypeOK
<1>. QED
  BY <1>1, <1>2, <1>3

(* No copy is of an edit that is still to come, and users cannot bring an  *)
(* earlier one back.                                                       *)
LEMMA CopiesPastNext ==
    ASSUME NewValues, TypeOK, CopiesPast, [Next]_vars
    PROVE  CopiesPast'
<1> USE DEF history, restarter, deployments, objects
<1>0. TypeOK'
  BY TypeNext
<1> USE DEF PastSpec, PastSecret
<1>1. ASSUME NEW k \in Keys, SyncTarget(k) PROVE CopiesPast'
  BY <1>1 DEF SyncTarget, TypeOK, Listings, CopiesPast
<1>2. ASSUME NEW k \in Keys, SyncSecret(k) PROVE CopiesPast'
  BY <1>2 DEF SyncSecret, TypeOK, Contents, CopiesPast
<1>a. ASSUME NEW j \in Keys
      PROVE  /\ declared[j] \in Specs \cup {None} /\ seenDeclared[j] \in Specs \cup {None}
             /\ secrets[j] \in Versions \cup {None} /\ seenSecrets[j] \in Versions \cup {None}
             /\ memory # None => /\ memory.targetSpecs[j] \in Specs \cup {None}
                                 /\ memory.kubeconfigSecretData[j] \in Versions \cup {None}
  BY DEF TypeOK, Listings, Contents, Memories
<1>b. ASSUME NEW j, UserEdits, gone \subseteq gone'
      PROVE  /\ \A spec \in Specs \cup {None} : PastSpec(spec, j) =>
                   IF spec = None THEN <<"target", j>> \in gone' ELSE spec.version <= edits'
             /\ \A data \in Versions \cup {None} : PastSecret(data, j) =>
                   IF data = None THEN <<"secret", j>> \in gone' ELSE data <= edits'
  BY <1>b DEF UserEdits, TypeOK, Specs, Versions
<1>c. ASSUME UserEdits, gone \subseteq gone', UNCHANGED restarter, NEW j \in Keys,
             PastSpec(declared[j], j)', PastSecret(secrets[j], j)'
      PROVE  /\ PastSpec(declared[j], j)' /\ PastSpec(seenDeclared[j], j)'
             /\ PastSecret(secrets[j], j)' /\ PastSecret(seenSecrets[j], j)'
             /\ memory' # None =>
                  /\ PastSpec(memory.targetSpecs[j], j)'
                  /\ RefersToSecret(memory'.targetSpecs[j]) =>
                         PastSecret(memory.kubeconfigSecretData[j], j)'
  BY <1>a, <1>b, <1>c DEF CopiesPast
<1>3. ASSUME NEW k \in Keys, NEW spec \in Specs, Declare(k, spec) PROVE CopiesPast'
  <2>. SUFFICES ASSUME NEW j \in Keys PROVE PastSpec(declared[j], j)' /\ PastSecret(secrets[j], j)'
    BY <1>3, <1>c DEF Declare, CopiesPast
  <2>1. declared'[j] = IF j = k THEN spec ELSE declared[j]
    BY <1>3 DEF Declare, TypeOK, Listings
  <2>2. spec # None /\ spec.version = edits'
    BY <1>3, NoneAssumption DEF Declare, UserEdits
  <2>3. edits' <= edits'
    BY <1>3 DEF Declare, UserEdits, TypeOK
  <2>. QED
    BY <1>3, <1>a, <1>b, <2>1, <2>2, <2>3 DEF Declare, CopiesPast
<1>4. ASSUME NEW k \in Keys, Undeclare(k) PROVE CopiesPast'
  <2>. SUFFICES ASSUME NEW j \in Keys PROVE PastSpec(declared[j], j)' /\ PastSecret(secrets[j], j)'
    BY <1>4, <1>c DEF Undeclare, CopiesPast
  <2>1. declared'[j] = IF j = k THEN None ELSE declared[j]
    BY <1>4 DEF Undeclare, TypeOK, Listings
  <2>. QED
    BY <1>4, <1>a, <1>b, <2>1 DEF Undeclare, CopiesPast
<1>5. ASSUME NEW k \in Keys, NEW data \in Versions \cup {None}, ChangeSecret(k, data)
      PROVE  CopiesPast'
  <2>. SUFFICES ASSUME NEW j \in Keys PROVE PastSpec(declared[j], j)' /\ PastSecret(secrets[j], j)'
    BY <1>5, <1>c DEF ChangeSecret, CopiesPast
  <2>1. secrets'[j] = IF j = k THEN data ELSE secrets[j]
    BY <1>5 DEF ChangeSecret, TypeOK, Contents
  <2>2. IF data = None THEN <<"secret", k>> \in gone' ELSE data <= edits'
    BY <1>5 DEF ChangeSecret, UserEdits, TypeOK
  <2>. QED
    BY <1>5, <1>a, <1>b, <2>1, <2>2 DEF ChangeSecret, CopiesPast
<1>6. CASE Resync
  BY <1>6 DEF Resync, CopiesPast
<1>7. CASE NextSecond
  BY <1>7 DEF NextSecond, CopiesPast
<1>8. CASE RestarterStarts
  BY <1>8 DEF RestarterStarts, CopiesPast
<1>9. ASSUME NEW P \in SUBSET Deployments, Handle(P) PROVE CopiesPast'
  <2> DEFINE m == Remembered(seenDeclared, seenSecrets)
  <2>1. /\ m.targetSpecs = seenDeclared
        /\ \A k \in Keys : RefersToSecret(seenDeclared[k]) =>
                               m.kubeconfigSecretData[k] = seenSecrets[k]
    BY RememberedType DEF TypeOK
  <2>2. memory' \in {m, memory} /\ UNCHANGED <<objects, seenDeclared, seenSecrets, history>>
    BY <1>9 DEF Handle
  <2> HIDE DEF m
  <2>. QED
    BY <2>1, <2>2 DEF CopiesPast
<1>10. ASSUME NEW d \in Deployments, StartPod(d) PROVE CopiesPast'
  BY <1>10 DEF StartPod, CopiesPast
<1>11. ASSUME NEW d \in Deployments, ReadSecrets(d) PROVE CopiesPast'
  BY <1>11 DEF ReadSecrets, CopiesPast
<1>12. ASSUME NEW d \in Deployments, LosePod(d) PROVE CopiesPast'
  BY <1>12 DEF LosePod, CopiesPast
<1>13. CASE UNCHANGED vars
  BY <1>13 DEF vars, CopiesPast
<1>. QED
  BY <1>1, <1>2, <1>3, <1>4, <1>5, <1>6, <1>7, <1>8, <1>9, <1>10, <1>11, <1>12, <1>13
  DEF Next

(* A patch begins a roll-out, and pods start only once its second is over. *)
LEMMA PatchedRollsOutNext ==
    ASSUME TypeOK, PatchedRollsOut, [Next]_vars
    PROVE  PatchedRollsOut'
<1> USE DEF history, restarter, deployments, objects
<1>1. CASE UNCHANGED <<restarted, rollout>>
  BY <1>1 DEF PatchedRollsOut
<1>2. CASE NextSecond
  BY <1>2 DEF NextSecond, PatchedRollsOut
<1>3. ASSUME NEW P \in SUBSET Deployments, Handle(P) PROVE PatchedRollsOut'
  BY <1>3 DEF Handle, Patch, TypeOK, PatchedRollsOut
<1>4. ASSUME NEW d \in Deployments, StartPod(d) PROVE PatchedRollsOut'
  BY <1>4 DEF StartPod, TypeOK, PatchedRollsOut
<1>. QED
  BY <1>1, <1>2, <1>3, <1>4
  DEF Next, vars, SyncTarget, SyncSecret, Declare, Undeclare, ChangeSecret, Resync,
      RestarterStarts, ReadSecrets, LosePod

(* What users change makes the memory wrong; it is right again only after  *)
(* a roll-out that pods still have to follow.                              *)
LEMMA PodsCurrentNext ==
    ASSUME NewValues, MemoryInv, [Next]_vars
    PROVE  PodsCurrent'
<1> USE DEF history, restarter, deployments, objects
<1>0. TypeOK /\ CopiesPast /\ PatchedRollsOut /\ PodsCurrent
  BY DEF MemoryInv
<1>1. CASE UNCHANGED <<objects, memory, rollout, reading, running>>
  BY <1>0, <1>1 DEF PodsCurrent, Wanted
<1>2. ASSUME NEW k \in Keys, NEW spec \in Specs, Declare(k, spec) PROVE PodsCurrent'
  <2>1. declared'[k] = spec /\ spec.version = edits + 1 /\ spec # None
    BY <1>0, <1>2, NoneAssumption DEF Declare, TypeOK, Listings
  <2>2. ASSUME memory' = Remembered(declared, secrets)' PROVE FALSE
    <3>0. /\ memory = Remembered(declared', secrets')
          /\ declared' \in Listings /\ secrets' \in Contents
      BY <1>0, <1>2, <2>2, TypeNext DEF Declare, TypeOK
    <3>1. memory.targetSpecs[k] = spec /\ memory # None
      <4>1. memory.targetSpecs = declared' /\ memory \in Memories
        BY <3>0, RememberedType, Zenon
      <4>. QED
        BY <2>1, <4>1, NoneAssumption
    <3>. QED
      <4>1. spec.version <= edits
        BY <1>0, <2>1, <3>1 DEF CopiesPast, PastSpec
      <4>. QED
        BY <1>0, <2>1, <4>1 DEF TypeOK
  <2>. QED
    BY <2>2 DEF PodsCurrent
<1>3. ASSUME NEW k \in Keys, Undeclare(k) PROVE PodsCurrent'
  <2>1. declared'[k] = None
    BY <1>0, <1>3 DEF Undeclare, TypeOK, Listings
  <2>2. ASSUME memory' = Remembered(declared, secrets)' PROVE FALSE
    <3>0. /\ memory = Remembered(declared', secrets')
          /\ declared' \in Listings /\ secrets' \in Contents
      BY <1>0, <1>3, <2>2, TypeNext DEF Undeclare, TypeOK
    <3>1. memory.targetSpecs[k] = None /\ memory # None
      <4>1. memory.targetSpecs = declared' /\ memory \in Memories
        BY <3>0, RememberedType, Zenon
      <4>. QED
        BY <2>1, <4>1, NoneAssumption
    <3>. QED
      BY <1>0, <1>3, <3>1 DEF Undeclare, CopiesPast, PastSpec
  <2>. QED
    BY <2>2 DEF PodsCurrent
<1>4. ASSUME NEW k \in Keys, NEW data \in Versions \cup {None}, ChangeSecret(k, data)
      PROVE  PodsCurrent'
  <2>0. /\ secrets' = [secrets EXCEPT ![k] = data]
        /\ UNCHANGED <<declared, memory, rollout, reading, running>>
        /\ secrets' \in Contents /\ secrets \in Contents /\ declared \in Listings
    BY <1>0, <1>4, TypeNext DEF ChangeSecret, TypeOK
  <2>1. CASE RefersToSecret(declared[k])
    <3>1. ASSUME memory = Remembered(declared, secrets') PROVE FALSE
      <4>1. /\ memory # None
            /\ memory.targetSpecs = declared
            /\ memory.kubeconfigSecretData[k] = data
        <5>1. /\ memory \in Memories /\ memory.targetSpecs = declared
              /\ memory.kubeconfigSecretData[k] = secrets'[k]
          <6> DEFINE m == Remembered(declared, secrets')
          <6>1. m \in Memories /\ m.targetSpecs = declared
            BY <2>0, RememberedType, Zenon
          <6>2. m.kubeconfigSecretData[k] = secrets'[k]
            BY <2>1 DEF Remembered
          <6> HIDE DEF m
          <6>. QED
            BY <3>1, <6>1, <6>2 DEF m
        <5>. QED
          BY <2>0, <5>1, NoneAssumption DEF Contents
      <4>2. PastSecret(data, k)
        BY <1>0, <2>1, <4>1 DEF CopiesPast
      <4>. QED
        BY <1>0, <1>4, <4>2 DEF ChangeSecret, PastSecret, TypeOK
    <3>. QED
      BY <2>0, <3>1 DEF PodsCurrent
  <2>2. CASE ~RefersToSecret(declared[k])
    <3>1. Remembered(declared, secrets') = Remembered(declared, secrets)
      BY <2>0, <2>2 DEF Remembered, Contents
    <3>2. \A j \in Keys : Loads(declared[j], secrets'[j]) <=> Loads(declared[j], secrets[j])
      BY <2>0, <2>2 DEF Loads, RefersToSecret, Contents
    <3>3. \A j \in Keys : Loads(declared[j], secrets[j]) =>
              (declared[j].secret => secrets'[j] = secrets[j])
      BY <2>0, <2>2 DEF Loads, RefersToSecret, Contents
    <3>4. NewFromCRD(declared, secrets') = NewFromCRD(declared, secrets)
      BY <3>2, <3>3 DEF NewFromCRD
    <3>. QED
      BY <1>0, <2>0, <3>1, <3>4 DEF PodsCurrent, Wanted
  <2>. QED
    BY <2>1, <2>2
<1>5. CASE RestarterStarts
  BY <1>0, <1>5, RememberedType, NoneAssumption, TypeNext
  DEF RestarterStarts, PodsCurrent, TypeOK
<1>6. ASSUME NEW P \in SUBSET Deployments, Handle(P) PROVE PodsCurrent'
  <2>1. CASE memory' = memory
    <3>1. \A d \in Deployments : rollout[d] => rollout'[d]
      BY <1>0, <1>6 DEF Handle, Patch, TypeOK
    <3>. QED
      BY <1>0, <1>6, <2>1, <3>1 DEF Handle, PodsCurrent, Wanted
  <2>2. CASE P = Deployments
    <3>1. \A d \in Deployments : rollout'[d]
      BY <1>0, <1>6, <2>2 DEF Handle, Patch, TypeOK, PatchedRollsOut
    <3>. QED
      BY <3>1 DEF PodsCurrent
  <2>. QED
    BY <1>6, <2>1, <2>2 DEF Handle, Remembers
<1>7. ASSUME NEW d \in Deployments, StartPod(d) PROVE PodsCurrent'
  BY <1>0, <1>7 DEF StartPod, TypeOK, PodsCurrent, Wanted
<1>8. ASSUME NEW d \in Deployments, LosePod(d) PROVE PodsCurrent'
  BY <1>0, <1>8 DEF LosePod, TypeOK, PodsCurrent, Wanted
<1>9. ASSUME NEW d \in Deployments, ReadSecrets(d) PROVE PodsCurrent'
  BY <1>0, <1>9 DEF ReadSecrets, TypeOK, PodsCurrent, Wanted
<1>. QED
  BY <1>1, <1>2, <1>3, <1>4, <1>5, <1>6, <1>7, <1>8, <1>9
  DEF Next, vars, SyncTarget, SyncSecret, Resync, NextSecond

(* MemoryInv is inductive.                                                 *)
THEOREM MemoryInvariant == NewValues => (Spec => []MemoryInv)
<1>. SUFFICES ASSUME NewValues PROVE Spec => []MemoryInv
  OBVIOUS
<1>1. Init => MemoryInv
  BY TypeInit, PastInit DEF MemoryInv
<1>2. MemoryInv /\ [Next]_vars => MemoryInv'
  BY TypeNext, CopiesPastNext, PatchedRollsOutNext, PodsCurrentNext DEF MemoryInv
<1>. QED
  BY <1>1, <1>2, PTL DEF Spec

(* What the restarter remembers is what pods run with, or read, or are     *)
(* about to be replaced for (Handle in pkg/controllers/target): whatever   *)
(* users declare, in any order, as long as they do not go back to values   *)
(* that a target or a secret had before, one of several patches that fail, *)
(* restarts, and patches within a second included.                         *)
THEOREM MemoryIsSound == NewValues => (Spec => []MemorySound)
<1>. SUFFICES ASSUME NewValues PROVE Spec => []MemorySound
  OBVIOUS
<1>1. MemoryInv => MemorySound
  BY NoneAssumption DEF MemoryInv, PodsCurrent, MemorySound, TypeOK
<1>2. Spec => []MemoryInv
  BY MemoryInvariant
<1>. QED
  BY <1>1, <1>2, PTL
=============================================================================
