------------------------------- MODULE Follow -------------------------------
(***************************************************************************)
(* Config maps and secrets follow delegate pods                            *)
(* (pkg/controllers/follow/cm.go and secret.go, which differ in the type   *)
(* of the data only), and the cleanup controller                           *)
(* (pkg/controllers/cleanup/controller.go) that removes the finalizers of  *)
(* targets that are not configured any more.                               *)
(*                                                                         *)
(* One name in one namespace: the original in the source cluster, whose    *)
(* incarnations differ by UID, and its copy in every target cluster. Each  *)
(* target has a follow controller with informer caches of its own, which   *)
(* work the key off one call at a time. Update is refused unless it starts *)
(* from the latest version; Delete and Patch are by name.                  *)
(***************************************************************************)
EXTENDS Naturals

CONSTANTS
    Targets,      \* target clusters other than the source cluster itself
    MaxUID,       \* bound on the incarnations of the original
    MaxEdits,     \* bound on the edits of the data of an original
    MaxMishaps,   \* bound on restarts, failed calls and copies lost
    None          \* no object, no call in progress

ASSUME FollowConstants ==
    /\ MaxUID \in Nat
    /\ MaxEdits \in Nat
    /\ MaxMishaps \in Nat

UIDs == 1..MaxUID
Data == 0..MaxEdits

Originals == [uid: UIDs, terminating: BOOLEAN, finalizers: SUBSET Targets,
              data: Data]

(* labelled: the label parent-cluster-name is the name of this cluster.    *)
(* Copies made by early versions of the agent do not have it.              *)
Copies == [parent: UIDs, labelled: BOOLEAN, data: Data]

(* What Handle knows between addFinalizer and the write of the copy.       *)
Calls == [original: Originals, copy: Copies \cup {None}]

ASSUME FollowNone ==
    None \notin Originals /\ None \notin Copies /\ None \notin Calls

VARIABLES
    original,      \* the object in the source cluster
    lastUID,       \* UID of its latest incarnation
    copy,          \* copy[t]: the object of that name in target cluster t
    referred,      \* referred[t]: the pod index of the controller of t holds a
                   \* proxy pod that refers to the object and is bound to node t
    configured,    \* targets in the configuration that the leading agent read
    originalSeen,  \* follow controller of t: its cached copy of original
    copySeen,      \* follow controller of t: its cached copy of copy[t]
    calling,       \* calling[t]: Handle is between its two calls
    mishaps        \* mishaps so far

followVars == <<original, lastUID, copy, referred, configured, originalSeen,
                copySeen, calling, mishaps>>

FollowTypeOK ==
    /\ original \in Originals \cup {None}
    /\ lastUID \in 0..MaxUID
    /\ copy \in [Targets -> Copies \cup {None}]
    /\ referred \in [Targets -> BOOLEAN]
    /\ configured \subseteq Targets
    /\ originalSeen \in [Targets -> Originals \cup {None}]
    /\ copySeen \in [Targets -> Copies \cup {None}]
    /\ calling \in [Targets -> Calls \cup {None}]
    /\ mishaps \in 0..MaxMishaps

-----------------------------------------------------------------------------
(* A mistake: write the cached version over the latest one.                *)
ForceUpdate(o) == original # None

(* An Update that starts from version o is not refused.                    *)
IsLatest(o) == original = o

(* The original once the finalizers F are removed from it.                 *)
Released(o, F) ==
    LET rest == o.finalizers \ F IN
    IF o.terminating /\ rest = {} THEN None
    ELSE [o EXCEPT !.finalizers = rest]

(* A mistake: copy the object as it is, its metadata included.             *)
WholeObject(o) == o

(* makeRemoteConfigMap, makeRemoteSecret.                                  *)
MakeRemote(o) == [parent |-> o.uid, labelled |-> TRUE, data |-> o.data]

ParentControlsChild(r, o) == r.parent = o.uid

(* A mistake: forget the copies of originals that are gone.                *)
NeverControlled(r) == FALSE

IsRemoteControlled(r) == r.labelled

(* A mistake: compare the label only.                                      *)
Unlabelled(r, o) == ~r.labelled

Differs(r, o) == r.data # o.data \/ ~r.labelled

(* The object in target t after Handle has written the copy of o, having   *)
(* found r in its cache: Create ignores that the object exists, an Update  *)
(* of another version than the latest is refused.                          *)
Written(t, o, r) ==
    CASE r = None /\ copy[t] = None -> MakeRemote(o)
      [] r # None /\ Differs(r, o) /\ copy[t] = r ->
             [r EXCEPT !.data = o.data, !.labelled = TRUE]
      [] OTHER -> copy[t]

-----------------------------------------------------------------------------
(* The paths through Handle for the key, in the controller of target t. A  *)
(* path that ends in an error is retried and changes nothing.              *)

(* The original is not found: delete an orphaned copy.                     *)
DeleteOrphan(t) ==
    LET r == copySeen[t] IN
    /\ originalSeen[t] = None
    /\ r # None
    /\ IsRemoteControlled(r)
    /\ copy' = [copy EXCEPT ![t] = None]
    /\ UNCHANGED <<original, calling>>

(* The original and its copy, if there is one; a copy of another object of *)
(* that name makes Handle return.                                          *)
IsFound(t) ==
    /\ originalSeen[t] # None
    /\ copySeen[t] # None => ParentControlsChild(copySeen[t], originalSeen[t])

DeleteCopy(t) ==
    /\ IsFound(t)
    /\ originalSeen[t].terminating
    /\ copySeen[t] # None
    /\ copy' = [copy EXCEPT ![t] = None]
    /\ UNCHANGED <<original, calling>>

(* A mistake: finalize only what still follows.                            *)
FinalizesIfReferred(t) ==
    IsFound(t) /\ originalSeen[t].terminating /\ copySeen[t] = None /\ referred[t]

Finalizes(t) ==
    IsFound(t) /\ originalSeen[t].terminating /\ copySeen[t] = None

RemoveFinalizer(t) ==
    /\ Finalizes(t)
    /\ t \in originalSeen[t].finalizers
    /\ IsLatest(originalSeen[t])
    /\ original' = Released(originalSeen[t], {t})
    /\ UNCHANGED <<copy, calling>>

ShouldFollow(t) == IsFound(t) /\ ~originalSeen[t].terminating /\ referred[t]

(* addFinalizer: the write of the copy follows, with the version that the  *)
(* Update returned.                                                        *)
AddFinalizer(t) ==
    LET o == originalSeen[t]
        held == [o EXCEPT !.finalizers = @ \cup {t}]
    IN
    /\ ShouldFollow(t)
    /\ t \notin o.finalizers
    /\ IsLatest(o)
    /\ original' = held
    /\ calling' = [calling EXCEPT ![t] = [original |-> held, copy |-> copySeen[t]]]
    /\ UNCHANGED copy

(* A mistake: copy first, finalize later.                                  *)
AlwaysWrites(t) == ShouldFollow(t)

WritesAtOnce(t) == ShouldFollow(t) /\ t \in originalSeen[t].finalizers

WriteCopy(t) ==
    /\ WritesAtOnce(t)
    /\ copy' = [copy EXCEPT ![t] = Written(t, originalSeen[t], copySeen[t])]
    /\ UNCHANGED <<original, calling>>

Handle(t) ==
    /\ t \in configured
    /\ calling[t] = None
    /\ \/ DeleteOrphan(t)
       \/ DeleteCopy(t)
       \/ RemoveFinalizer(t)
       \/ AddFinalizer(t)
       \/ WriteCopy(t)
    /\ UNCHANGED <<lastUID, referred, configured, originalSeen, copySeen, mishaps>>

(* Handle after addFinalizer.                                              *)
HandleRest(t) ==
    /\ calling[t] # None
    /\ copy' = [copy EXCEPT ![t] = Written(t, calling[t].original, calling[t].copy)]
    /\ calling' = [calling EXCEPT ![t] = None]
    /\ UNCHANGED <<original, lastUID, referred, configured, originalSeen, copySeen,
                   mishaps>>

(* A mistake: leave objects that are being deleted alone.                  *)
UnknownIfAlive(o) == IF o.terminating THEN {} ELSE o.finalizers \ configured

(* A mistake: look at the prefix only.                                     *)
AllFinalizers(o) == o.finalizers

(* Finalizers that are ours by their prefix and of no configured target.   *)
UnknownFinalizers(o) == o.finalizers \ configured

(* The cleanup controller removes them by a Patch of the latest version.   *)
(* Nobody adds such a finalizer while this agent leads, so the controller's*)
(* cache could only delay the step.                                        *)
Cleanup ==
    /\ original # None
    /\ UnknownFinalizers(original) # {}
    /\ original' = Released(original, UnknownFinalizers(original))
    /\ UNCHANGED <<lastUID, copy, referred, configured, originalSeen, copySeen,
                   calling, mishaps>>

-----------------------------------------------------------------------------
(* The environment.                                                        *)
Mishap == mishaps < MaxMishaps /\ mishaps' = mishaps + 1

CreateOriginal ==
    /\ original = None
    /\ lastUID < MaxUID
    /\ lastUID' = lastUID + 1
    /\ original' = [uid |-> lastUID + 1, terminating |-> FALSE,
                    finalizers |-> {}, data |-> 0]
    /\ UNCHANGED <<copy, referred, configured, originalSeen, copySeen, calling,
                   mishaps>>

Edit ==
    /\ original # None
    /\ original.data < MaxEdits
    /\ original' = [original EXCEPT !.data = @ + 1]
    /\ UNCHANGED <<lastUID, copy, referred, configured, originalSeen, copySeen,
                   calling, mishaps>>

DeleteOriginal ==
    /\ original # None
    /\ ~original.terminating
    /\ original' = Released([original EXCEPT !.terminating = TRUE], {})
    /\ UNCHANGED <<lastUID, copy, referred, configured, originalSeen, copySeen,
                   calling, mishaps>>

(* A proxy pod that refers to the object is bound to virtual node t, or    *)
(* the last such pod is gone, as far as the pod index of t knows.          *)
Refer(t) ==
    /\ referred' = [referred EXCEPT ![t] = ~@]
    /\ UNCHANGED <<original, lastUID, copy, configured, originalSeen, copySeen,
                   calling, mishaps>>

(* Somebody deletes the copy in the target cluster.                        *)
LoseCopy(t) ==
    /\ Mishap
    /\ copy[t] # None
    /\ copy' = [copy EXCEPT ![t] = None]
    /\ UNCHANGED <<original, lastUID, referred, configured, originalSeen, copySeen,
                   calling>>

(* The target cluster does not answer, or refuses the write of the copy.   *)
CallFails(t) ==
    /\ Mishap
    /\ calling[t] # None
    /\ calling' = [calling EXCEPT ![t] = None]
    /\ UNCHANGED <<original, lastUID, copy, referred, configured, originalSeen,
                   copySeen>>

(* Another replica of the agent leads, with the configuration C that it    *)
(* read when it started. Controllers wait until their caches are filled.   *)
Lead(C) ==
    /\ Mishap
    /\ configured' = C
    /\ calling' = [t \in Targets |-> None]
    /\ originalSeen' = [t \in Targets |-> original]
    /\ copySeen' = copy
    /\ UNCHANGED <<original, lastUID, copy, referred>>

SyncOriginal(t) ==
    /\ t \in configured
    /\ originalSeen' = [originalSeen EXCEPT ![t] = original]
    /\ UNCHANGED <<original, lastUID, copy, referred, configured, copySeen, calling,
                   mishaps>>

SyncCopy(t) ==
    /\ t \in configured
    /\ copySeen' = [copySeen EXCEPT ![t] = copy[t]]
    /\ UNCHANGED <<original, lastUID, copy, referred, configured, originalSeen,
                   calling, mishaps>>

-----------------------------------------------------------------------------
(* Nothing exists yet, or the original has been followed to targets L by a *)
(* version of the agent that did not label copies with the cluster name.   *)
FollowInit ==
    /\ \/ /\ original = None
          /\ lastUID = 0
          /\ copy = [t \in Targets |-> None]
       \/ \E L \in SUBSET Targets :
          /\ MaxUID > 0
          /\ original = [uid |-> 1, terminating |-> FALSE, finalizers |-> L,
                         data |-> 0]
          /\ lastUID = 1
          /\ copy = [t \in Targets |->
                        IF t \in L
                        THEN [parent |-> 1, labelled |-> FALSE, data |-> 0]
                        ELSE None]
    /\ referred = [t \in Targets |-> FALSE]
    /\ configured = Targets
    /\ originalSeen = [t \in Targets |-> original]
    /\ copySeen = copy
    /\ calling = [t \in Targets |-> None]
    /\ mishaps = 0

FollowNext ==
    \/ CreateOriginal
    \/ Edit
    \/ DeleteOriginal
    \/ Cleanup
    \/ \E C \in SUBSET Targets : Lead(C)
    \/ \E t \in Targets :
          \/ Handle(t)
          \/ HandleRest(t)
          \/ Refer(t)
          \/ LoseCopy(t)
          \/ CallFails(t)
          \/ SyncOriginal(t)
          \/ SyncCopy(t)

FollowSpec == FollowInit /\ [][FollowNext]_followVars

(* Informers deliver every event in the end, and every event, error and    *)
(* 30-second resync puts the key back on the queue of the controller.      *)
FollowFairness ==
    /\ WF_followVars(Cleanup)
    /\ \A t \in Targets :
          /\ WF_followVars(Handle(t))
          /\ WF_followVars(HandleRest(t))
          /\ WF_followVars(SyncOriginal(t))
          /\ WF_followVars(SyncCopy(t))

FairFollowSpec == FollowSpec /\ FollowFairness

-----------------------------------------------------------------------------
(* The original o has the finalizer of target t.                           *)
IsHeld(o, t) == original # None /\ original.uid = o.uid /\ t \in original.finalizers

(* A controller that has read a live original with its finalizer, or is    *)
(* about to write a copy, can rely on the finalizer being there, whatever  *)
(* happened to the original since: nobody else removes it as long as its   *)
(* target is configured.                                                   *)
FinalizerHolds ==
    \A t \in Targets :
        /\ calling[t] # None => t \in configured /\ IsHeld(calling[t].original, t)
        /\ /\ t \in configured
           /\ originalSeen[t] # None
           /\ ~originalSeen[t].terminating
           /\ t \in originalSeen[t].finalizers
           => IsHeld(originalSeen[t], t)

(* A copy is created only while its original is held by the finalizer of   *)
(* that target, however old the cached versions are that Handle read: the  *)
(* original cannot go away before the controller has looked for the copy.  *)
HeldWhenCopied ==
    [][\A t \in Targets :
          copy[t] = None /\ copy'[t] # None =>
             /\ original # None
             /\ original.uid = copy'[t].parent
             /\ t \in original.finalizers]_followVars

(* The follow controllers of several targets, the cleanup controller and   *)
(* the user update the same original, and none undoes what another did: an *)
(* edit is not reverted, and a finalizer of a configured target stays as   *)
(* long as the original is not being deleted.                              *)
OriginalKept ==
    [][original # None /\ original' # None /\ original'.uid = original.uid =>
          /\ original'.data >= original.data
          /\ original.terminating => original'.terminating
          /\ original.terminating \/
                original.finalizers \cap configured \subseteq original'.finalizers
      ]_followVars

(* Original u is being deleted.                                            *)
BeingDeleted(u) == original # None /\ original.uid = u /\ original.terminating

(* An original that is deleted goes away, whatever targets are removed     *)
(* from the configuration meanwhile.                                       *)
DeletionCompletes == \A u \in UIDs : BeingDeleted(u) ~> ~BeingDeleted(u)

(* A copy is deleted once its original is gone, even if the finalizer was  *)
(* removed before the controller learned of the copy.                      *)
CopiesCollected ==
    \A t \in Targets :
        []<>(\/ t \notin configured
             \/ copy[t] = None
             \/ ~copy[t].labelled
             \/ original # None /\ original.uid = copy[t].parent)

(* The proxy pod's config map or secret should be in target t, and is.     *)
Wanted(t) ==
    t \in configured /\ referred[t] /\ original # None /\ ~original.terminating
IsFollowed(t) ==
    /\ copy[t] # None
    /\ copy[t].parent = original.uid /\ copy[t].labelled
    /\ copy[t].data = original.data

(* "Config maps and secrets follow pods": as long as a proxy pod bound to  *)
(* the virtual node of t refers to it, the target cluster ends up with the *)
(* latest data, under this cluster's name.                                 *)
Followed == \A t \in Targets : <>[]Wanted(t) => <>[](Wanted(t) => IsFollowed(t))

(* Finalizers of targets that are not configured any more are removed from *)
(* every object, those that are being deleted included.                    *)
UnknownRemoved ==
    []<>(original = None \/ original.finalizers \subseteq configured)
=============================================================================
