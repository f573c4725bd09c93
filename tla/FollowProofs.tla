---------------------------- MODULE FollowProofs ----------------------------
(***************************************************************************)
(* Proofs about the follow and cleanup controllers, for every set of       *)
(* targets and every bound. The finalizer protocol rests on FinalizerHolds:*)
(* an original that a controller saw alive and finalized, or has just      *)
(* finalized itself, still has that finalizer, because only the controller *)
(* itself removes it (after it saw the original terminating) as long as    *)
(* the target is configured. Together with types it is inductive, and      *)
(* every way to create a copy goes through one of its two conjuncts.       *)
(***************************************************************************)
EXTENDS Follow, TLAPS

(* What Released returns is an object or nothing, and never gains          *)
(* finalizers.                                                             *)
LEMMA ReleasedType ==
    ASSUME NEW o \in Originals, NEW F
    PROVE  Released(o, F) \in Originals \cup {None}
BY DEF Released, Originals

(* Whatever Handle finds in its cache, the object in the target after it   *)
(* has written the copy is a copy.                                         *)
LEMMA WrittenType ==
    ASSUME FollowTypeOK, NEW t \in Targets, NEW o \in Originals,
           NEW r \in Copies \cup {None}
    PROVE  Written(t, o, r) \in Copies \cup {None}
BY DEF Written, MakeRemote, FollowTypeOK, Originals, Copies

(* The initial states are well formed.                                     *)
LEMMA InitType == FollowInit => FollowTypeOK
<1> SUFFICES ASSUME FollowInit PROVE FollowTypeOK
  OBVIOUS
<1>1. CASE original = None /\ lastUID = 0 /\ copy = [t \in Targets |-> None]
  BY <1>1, FollowConstants DEF FollowInit, FollowTypeOK
<1>2. ASSUME NEW L \in SUBSET Targets,
             MaxUID > 0,
             original = [uid |-> 1, terminating |-> FALSE, finalizers |-> L, data |-> 0],
             lastUID = 1,
             copy = [t \in Targets |->
                        IF t \in L
                        THEN [parent |-> 1, labelled |-> FALSE, data |-> 0]
                        ELSE None]
      PROVE  FollowTypeOK
  <2>1. 1 \in UIDs /\ 0 \in Data /\ lastUID \in 0..MaxUID
    BY <1>2, FollowConstants DEF UIDs, Data
  <2>2. original \in Originals
    BY <1>2, <2>1 DEF Originals
  <2>3. [parent |-> 1, labelled |-> FALSE, data |-> 0] \in Copies
    BY <2>1 DEF Copies
  <2>4. copy \in [Targets -> Copies \cup {None}]
    BY <1>2, <2>3
  <2> QED
    BY <2>1, <2>2, <2>4, FollowConstants DEF FollowInit, FollowTypeOK
<1> QED
  BY <1>1, <1>2 DEF FollowInit

(* Handle keeps every variable well formed.                                *)
LEMMA HandleType ==
    ASSUME FollowTypeOK, NEW t \in Targets, Handle(t)
    PROVE  FollowTypeOK'
<1> DEFINE o == originalSeen[t]
<1>0. o \in Originals \cup {None} /\ copySeen[t] \in Copies \cup {None}
  BY DEF FollowTypeOK
<1>1. CASE DeleteOrphan(t)
  BY <1>1 DEF Handle, DeleteOrphan, FollowTypeOK
<1>2. CASE DeleteCopy(t)
  BY <1>2 DEF Handle, DeleteCopy, FollowTypeOK
<1>3. CASE RemoveFinalizer(t)
  <2>1. o \in Originals
    BY <1>0, <1>3 DEF RemoveFinalizer, Finalizes, IsFound
  <2>2. original' \in Originals \cup {None}
    BY <1>3, <2>1, ReleasedType DEF RemoveFinalizer
  <2> QED
    BY <1>3, <2>2 DEF Handle, RemoveFinalizer, FollowTypeOK
<1>4. CASE AddFinalizer(t)
  <2> DEFINE held == [o EXCEPT !.finalizers = @ \cup {t}]
             call == [original |-> held, copy |-> copySeen[t]]
  <2>1. o \in Originals
    BY <1>0, <1>4 DEF AddFinalizer, ShouldFollow, IsFound
  <2>2. held \in Originals
    BY <2>1 DEF Originals
  <2>3. call \in Calls
    BY <1>0, <2>2 DEF Calls
  <2>4. original' = held /\ calling' = [calling EXCEPT ![t] = call]
    BY <1>4 DEF AddFinalizer
  <2>5. calling' \in [Targets -> Calls \cup {None}]
    BY <2>3, <2>4 DEF FollowTypeOK
  <2> QED
    BY <1>4, <2>2, <2>4, <2>5 DEF Handle, AddFinalizer, FollowTypeOK
<1>5. CASE WriteCopy(t)
  <2>1. o \in Originals
    BY <1>0, <1>5 DEF WriteCopy, WritesAtOnce, ShouldFollow, IsFound
  <2>2. Written(t, o, copySeen[t]) \in Copies \cup {None}
    BY <1>0, <2>1, WrittenType
  <2> QED
    BY <1>5, <2>2 DEF Handle, WriteCopy, FollowTypeOK
<1> QED
  BY <1>1, <1>2, <1>3, <1>4, <1>5 DEF Handle

(* Every step keeps every variable well formed.                            *)
LEMMA NextType == FollowTypeOK /\ [FollowNext]_followVars => FollowTypeOK'
<1> SUFFICES ASSUME FollowTypeOK, [FollowNext]_followVars PROVE FollowTypeOK'
  OBVIOUS
<1>1. CASE CreateOriginal
  <2>1. lastUID' \in 0..MaxUID /\ original' \in Originals
    BY <1>1, FollowConstants DEF CreateOriginal, FollowTypeOK, Originals, UIDs, Data
  <2> QED
    BY <1>1, <2>1 DEF CreateOriginal, FollowTypeOK
<1>2. CASE Edit
  <2>1. original \in Originals /\ original.data + 1 \in Data
    BY <1>2, FollowConstants DEF Edit, FollowTypeOK, Originals, Data
  <2>2. original' \in Originals
    BY <1>2, <2>1 DEF Edit, Originals
  <2> QED
    BY <1>2, <2>2 DEF Edit, FollowTypeOK
<1>3. CASE DeleteOriginal
  <2>1. [original EXCEPT !.terminating = TRUE] \in Originals
    BY <1>3 DEF DeleteOriginal, FollowTypeOK, Originals
  <2>2. original' \in Originals \cup {None}
    BY <1>3, <2>1, ReleasedType DEF DeleteOriginal
  <2> QED
    BY <1>3, <2>2 DEF DeleteOriginal, FollowTypeOK
<1>4. CASE Cleanup
  <2>1. original' \in Originals \cup {None}
    BY <1>4, ReleasedType DEF Cleanup, FollowTypeOK
  <2> QED
    BY <1>4, <2>1 DEF Cleanup, FollowTypeOK
<1>5. ASSUME NEW C \in SUBSET Targets, Lead(C) PROVE FollowTypeOK'
  BY <1>5, FollowConstants DEF Lead, Mishap, FollowTypeOK
<1>6. ASSUME NEW t \in Targets, Handle(t) PROVE FollowTypeOK'
  BY <1>6, HandleType
<1>7. ASSUME NEW t \in Targets, HandleRest(t) PROVE FollowTypeOK'
  <2>1. calling[t].original \in Originals /\ calling[t].copy \in Copies \cup {None}
    BY <1>7 DEF HandleRest, FollowTypeOK, Calls
  <2>2. Written(t, calling[t].original, calling[t].copy) \in Copies \cup {None}
    BY <2>1, WrittenType
  <2> QED
    BY <1>7, <2>2 DEF HandleRest, FollowTypeOK
<1>8. ASSUME NEW t \in Targets, Refer(t) PROVE FollowTypeOK'
  BY <1>8, Zenon DEF Refer, FollowTypeOK
<1>9. ASSUME NEW t \in Targets, LoseCopy(t) \/ CallFails(t) PROVE FollowTypeOK'
  BY <1>9, FollowConstants DEF LoseCopy, CallFails, Mishap, FollowTypeOK
<1>10. ASSUME NEW t \in Targets, SyncOriginal(t) \/ SyncCopy(t) PROVE FollowTypeOK'
  BY <1>10 DEF SyncOriginal, SyncCopy, FollowTypeOK
<1>11. CASE UNCHANGED followVars
  BY <1>11 DEF followVars, FollowTypeOK
<1> QED
  BY <1>1, <1>2, <1>3, <1>4, <1>5, <1>6, <1>7, <1>8, <1>9, <1>10, <1>11
  DEF FollowNext

(* Objects, caches and calls of the follow and cleanup controllers stay    *)
(* well formed, for any number of targets, incarnations, edits and         *)
(* mishaps.                                                                *)
THEOREM FollowTypeCorrect == FollowSpec => []FollowTypeOK
BY InitType, NextType, PTL DEF FollowSpec

-----------------------------------------------------------------------------
(* Released keeps an object that has other finalizers, and what it is.     *)
LEMMA ReleasedKeeps ==
    ASSUME NEW o \in Originals, NEW F, NEW s \in o.finalizers, s \notin F
    PROVE  /\ Released(o, F) \in Originals
           /\ Released(o, F).uid = o.uid
           /\ s \in Released(o, F).finalizers
BY DEF Released, Originals

(* While target s is configured, a step keeps the finalizer of s on the    *)
(* original, unless it is the removal by the controller of s.              *)
LEMMA FinalizerKept ==
    ASSUME FollowTypeOK, FollowTypeOK', [FollowNext]_followVars,
           NEW s \in configured, original # None, s \in original.finalizers,
           ~(Handle(s) /\ RemoveFinalizer(s))
    PROVE  /\ original' # None
           /\ original'.uid = original.uid
           /\ s \in original'.finalizers
<1>0. original \in Originals
  BY DEF FollowTypeOK
<1>1. CASE UNCHANGED original
  BY <1>1
<1>2. CASE CreateOriginal
  BY <1>2 DEF CreateOriginal
<1>3. CASE Edit
  <2>1. original' = [original EXCEPT !.data = @ + 1]
    BY <1>3 DEF Edit
  <2>2. original'.uid = original.uid /\ original'.finalizers = original.finalizers
    BY <1>0, <2>1 DEF Originals
  <2>3. original'.data = original.data + 1 /\ original.data + 1 \in Data
    BY <1>0, <1>3, <2>1, FollowConstants DEF Edit, Originals, Data
  <2>4. original' \in Originals
    BY <1>0, <2>1, <2>3 DEF Originals
  <2> QED
    BY <2>2, <2>4, FollowNone
<1>4. CASE DeleteOriginal
  <2> DEFINE o == [original EXCEPT !.terminating = TRUE]
  <2>1. o \in Originals /\ o.uid = original.uid /\ s \in o.finalizers
    BY <1>0 DEF Originals
  <2> QED
    BY <1>4, <2>1, ReleasedKeeps, FollowNone DEF DeleteOriginal
<1>5. CASE Cleanup
  BY <1>0, <1>5, ReleasedKeeps, FollowNone DEF Cleanup, UnknownFinalizers
<1>6. ASSUME NEW t \in Targets, Handle(t), RemoveFinalizer(t) PROVE
            /\ original' # None
            /\ original'.uid = original.uid
            /\ s \in original'.finalizers
  <2>1. t # s /\ original' = Released(original, {t})
    BY <1>6 DEF RemoveFinalizer, IsLatest
  <2> QED
    BY <1>0, <2>1, ReleasedKeeps, FollowNone
<1>7. ASSUME NEW t \in Targets, AddFinalizer(t) PROVE
            /\ original' # None
            /\ original'.uid = original.uid
            /\ s \in original'.finalizers
  <2>1. original' = [original EXCEPT !.finalizers = @ \cup {t}]
    BY <1>7 DEF AddFinalizer, IsLatest
  <2>2. original' \in Originals
    BY <1>0, <2>1 DEF Originals
  <2> QED
    BY <1>0, <2>1, <2>2, FollowNone DEF Originals
<1> QED
  BY <1>1, <1>2, <1>3, <1>4, <1>5, <1>6, <1>7
  DEF FollowNext, followVars, Handle, HandleRest, DeleteOrphan, DeleteCopy, WriteCopy,
      Lead, Refer, LoseCopy, CallFails, SyncOriginal, SyncCopy

(* Initially a controller has read the original as it is.                  *)
LEMMA InitHolds == FollowInit => FinalizerHolds
BY DEF FollowInit, FinalizerHolds, IsHeld

(* FinalizerHolds is inductive.                                            *)
LEMMA NextHolds ==
    ASSUME FollowTypeOK, FollowTypeOK', FinalizerHolds, [FollowNext]_followVars
    PROVE  FinalizerHolds'
<1> SUFFICES ASSUME NEW s \in Targets
             PROVE  /\ (calling[s] # None =>
                           s \in configured /\ IsHeld(calling[s].original, s))'
                    /\ (/\ s \in configured
                        /\ originalSeen[s] # None
                        /\ ~originalSeen[s].terminating
                        /\ s \in originalSeen[s].finalizers
                        => IsHeld(originalSeen[s], s))'
  BY Zenon DEF FinalizerHolds
<1> DEFINE Called == calling[s] # None
                     => s \in configured /\ IsHeld(calling[s].original, s)
           Alive == /\ s \in configured
                    /\ originalSeen[s] # None
                    /\ ~originalSeen[s].terminating
                    /\ s \in originalSeen[s].finalizers
           Seen == Alive => IsHeld(originalSeen[s], s)
<1>0. Called /\ Seen
  BY DEF FinalizerHolds
<1>1. ASSUME NEW C \in SUBSET Targets, Lead(C) PROVE Called' /\ Seen'
  BY <1>1 DEF Lead, IsHeld
<1>2. CASE UNCHANGED configured
  <2>1. CASE Handle(s) /\ RemoveFinalizer(s)
    <3>1. UNCHANGED <<calling, originalSeen>> /\ calling[s] = None /\ ~Alive
      BY <2>1 DEF RemoveFinalizer, Handle, Finalizes
    <3> QED
      BY <1>2, <3>1
  <2>2. CASE ~(Handle(s) /\ RemoveFinalizer(s))
    <3>1. ASSUME NEW u, original # None, original.uid = u, s \in original.finalizers,
                 s \in configured
          PROVE  original' # None /\ original'.uid = u /\ s \in original'.finalizers
      BY <2>2, <3>1, FinalizerKept
    <3>2. calling[s]' = calling[s] => Called'
      BY <1>0, <1>2, <3>1 DEF IsHeld
    <3>3. originalSeen[s]' = originalSeen[s] => Seen'
      BY <1>0, <1>2, <3>1 DEF IsHeld
    <3>4. CASE AddFinalizer(s) /\ Handle(s)
      <4> DEFINE held == [originalSeen[s] EXCEPT !.finalizers = @ \cup {s}]
      <4>1. originalSeen[s] \in Originals
        BY <3>4 DEF AddFinalizer, ShouldFollow, IsFound, FollowTypeOK
      <4>2. held \in Originals /\ s \in held.finalizers
        BY <4>1 DEF Originals
      <4>3. /\ original' = held
            /\ calling'[s].original = held
            /\ originalSeen' = originalSeen
            /\ s \in configured'
        BY <3>4 DEF AddFinalizer, Handle, FollowTypeOK
      <4> QED
        BY <3>3, <4>2, <4>3, FollowNone DEF IsHeld
    <3>5. calling[s]' = None => Called'
      OBVIOUS
    <3>6. originalSeen[s]' = original /\ UNCHANGED original => Seen'
      BY DEF IsHeld
    <3>7. CASE ~(AddFinalizer(s) /\ Handle(s))
      <4>1. calling[s]' = calling[s] \/ calling[s]' = None
        BY <1>2, <3>7
        DEF FollowNext, followVars, Handle, HandleRest, DeleteOrphan, DeleteCopy,
            RemoveFinalizer, AddFinalizer, WriteCopy, CreateOriginal, Edit,
            DeleteOriginal, Cleanup, Lead, Refer, LoseCopy, CallFails, SyncOriginal,
            SyncCopy, FollowTypeOK
      <4>2. originalSeen[s]' = originalSeen[s]
            \/ (originalSeen[s]' = original /\ UNCHANGED original)
        BY <1>2
        DEF FollowNext, followVars, Handle, HandleRest, CreateOriginal, Edit,
            DeleteOriginal, Cleanup, Lead, Refer, LoseCopy, CallFails, SyncOriginal,
            SyncCopy, FollowTypeOK
      <4> QED
        BY <3>2, <3>3, <3>5, <3>6, <4>1, <4>2
    <3> QED
      BY <3>4, <3>7
  <2> QED
    BY <2>1, <2>2
<1>3. CASE ~UNCHANGED configured
  <2>1. \E C \in SUBSET Targets : Lead(C)
    BY <1>3
    DEF FollowNext, followVars, Handle, HandleRest, CreateOriginal, Edit,
        DeleteOriginal, Cleanup, Refer, LoseCopy, CallFails, SyncOriginal, SyncCopy
  <2> QED
    BY <1>1, <2>1
<1> QED
  BY <1>2, <1>3

(* What a follow controller read or did about its own finalizer stays true *)
(* as long as its target is configured, however stale its caches are.      *)
THEOREM FinalizerIsReliable == FollowSpec => []FinalizerHolds
<1>1. FollowInit => FollowTypeOK /\ FinalizerHolds
  BY InitType, InitHolds
<1>2. FollowTypeOK /\ FinalizerHolds /\ [FollowNext]_followVars
      => FollowTypeOK' /\ FinalizerHolds'
  BY NextType, NextHolds
<1> QED
  BY <1>1, <1>2, PTL DEF FollowSpec

-----------------------------------------------------------------------------
(* The only steps that create a copy are the two that write one.           *)
LEMMA CopyStep ==
    ASSUME FollowTypeOK, FinalizerHolds, [FollowNext]_followVars,
           NEW t \in Targets, copy[t] = None, copy'[t] # None
    PROVE  /\ original # None
           /\ original.uid = copy'[t].parent
           /\ t \in original.finalizers
<1>1. \/ HandleRest(t)
      \/ Handle(t) /\ WriteCopy(t)
  BY DEF FollowNext, followVars, Handle, HandleRest, DeleteOrphan, DeleteCopy,
         RemoveFinalizer, AddFinalizer, WriteCopy, CreateOriginal, Edit,
         DeleteOriginal, Cleanup, Lead, Refer, LoseCopy, CallFails, SyncOriginal,
         SyncCopy, FollowTypeOK
<1>2. ASSUME NEW o, NEW r, copy'[t] = Written(t, o, r) PROVE copy'[t].parent = o.uid
  BY <1>2 DEF Written, MakeRemote
<1>3. CASE HandleRest(t)
  <2>1. copy'[t].parent = calling[t].original.uid
    BY <1>2, <1>3 DEF HandleRest, FollowTypeOK
  <2> QED
    BY <1>3, <2>1 DEF HandleRest, FinalizerHolds, IsHeld
<1>4. CASE Handle(t) /\ WriteCopy(t)
  <2>1. copy'[t].parent = originalSeen[t].uid
    BY <1>2, <1>4 DEF WriteCopy, FollowTypeOK
  <2> QED
    BY <1>4, <2>1
    DEF Handle, WriteCopy, WritesAtOnce, ShouldFollow, IsFound, FinalizerHolds, IsHeld
<1> QED
  BY <1>1, <1>3, <1>4

(* A copy is created only while its original exists and is held by the     *)
(* finalizer of that target.                                               *)
THEOREM CopiesAreHeld == FollowSpec => HeldWhenCopied
<1>1. FollowTypeOK /\ FinalizerHolds /\ [FollowNext]_followVars
      => [\A t \in Targets :
             copy[t] = None /\ copy'[t] # None =>
                /\ original # None
                /\ original.uid = copy'[t].parent
                /\ t \in original.finalizers]_followVars
  BY CopyStep
<1> QED
  BY <1>1, FollowTypeCorrect, FinalizerIsReliable, PTL DEF FollowSpec, HeldWhenCopied

-----------------------------------------------------------------------------
(* Released changes finalizers only.                                       *)
LEMMA ReleasedSame ==
    ASSUME NEW o \in Originals, NEW F, Released(o, F) # None
    PROVE  /\ Released(o, F).data = o.data
           /\ Released(o, F).terminating = o.terminating
           /\ Released(o, F).finalizers = o.finalizers \ F
BY DEF Released, Originals

(* A step keeps the data, termination and known finalizers of an original. *)
LEMMA OriginalStep ==
    ASSUME FollowTypeOK, FollowTypeOK', [FollowNext]_followVars,
           original # None, original' # None, original'.uid = original.uid
    PROVE  /\ original'.data >= original.data
           /\ original.terminating => original'.terminating
           /\ original.terminating \/
                 original.finalizers \cap configured \subseteq original'.finalizers
<1> DEFINE Kept == /\ original'.data >= original.data
                   /\ original.terminating => original'.terminating
                   /\ original.terminating \/
                        original.finalizers \cap configured \subseteq original'.finalizers
<1>0. original \in Originals /\ original.data \in Nat
  BY DEF FollowTypeOK, Originals, Data
<1>1. CASE UNCHANGED original
  BY <1>0, <1>1
<1>2. CASE Edit
  <2>1. original' = [original EXCEPT !.data = @ + 1]
    BY <1>2 DEF Edit
  <2>2. /\ original'.terminating = original.terminating
        /\ original'.finalizers = original.finalizers
        /\ original'.data = original.data + 1
    BY <1>0, <2>1 DEF Originals
  <2> QED
    BY <1>0, <2>2
<1>3. CASE DeleteOriginal
  <2> DEFINE o == [original EXCEPT !.terminating = TRUE]
  <2>1. /\ o \in Originals /\ o.terminating
        /\ o.data = original.data /\ o.finalizers = original.finalizers
    BY <1>0 DEF Originals
  <2>2. original' = Released(o, {})
    BY <1>3 DEF DeleteOriginal
  <2>3. /\ original'.data = o.data
        /\ original'.terminating = o.terminating
        /\ original'.finalizers = o.finalizers \ {}
    BY <2>1, <2>2, ReleasedSame
  <2> HIDE DEF o
  <2> QED
    BY <1>0, <2>1, <2>3
<1>4. CASE Cleanup
  BY <1>0, <1>4, ReleasedSame DEF Cleanup, UnknownFinalizers
<1>5. ASSUME NEW t \in Targets, RemoveFinalizer(t) PROVE Kept
  <2>1. original' = Released(original, {t}) /\ original.terminating
    BY <1>5 DEF RemoveFinalizer, IsLatest, Finalizes
  <2> QED
    BY <1>0, <2>1, ReleasedSame
<1>6. ASSUME NEW t \in Targets, AddFinalizer(t) PROVE Kept
  <2>1. original' = [original EXCEPT !.finalizers = @ \cup {t}]
    BY <1>6 DEF AddFinalizer, IsLatest
  <2>2. /\ original'.terminating = original.terminating
        /\ original'.data = original.data
        /\ original'.finalizers = original.finalizers \cup {t}
    BY <1>0, <2>1 DEF Originals
  <2> QED
    BY <1>0, <2>2
<1> QED
  BY <1>1, <1>2, <1>3, <1>4, <1>5, <1>6
  DEF FollowNext, followVars, CreateOriginal, Handle, HandleRest, DeleteOrphan,
      DeleteCopy, WriteCopy, Lead, Refer, LoseCopy, CallFails, SyncOriginal, SyncCopy

(* No writer of the original undoes what another one did.                  *)
THEOREM OriginalUpdatesKept == FollowSpec => OriginalKept
<1>1. FollowTypeOK /\ FollowTypeOK' /\ [FollowNext]_followVars
      => [original # None /\ original' # None /\ original'.uid = original.uid =>
             /\ original'.data >= original.data
             /\ original.terminating => original'.terminating
             /\ original.terminating \/
                   original.finalizers \cap configured \subseteq original'.finalizers
         ]_followVars
  BY OriginalStep
<1> QED
  BY <1>1, FollowTypeCorrect, PTL DEF FollowSpec, OriginalKept
=============================================================================
